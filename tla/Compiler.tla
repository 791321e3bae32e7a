------------------------------- MODULE Compiler -------------------------------
(***************************************************************************)
(* A function from vbcc's intermediate code to its effect: the code        *)
(* generator turns ICs into instructions (CodeGen), the peephole pass      *)
(* takes some away, the assembler and the linker place the rest, and the   *)
(* core and the emulator execute it side by side (Isa, Emulator).          *)
(* One step is one IC, one deletion or one instruction.                    *)
(***************************************************************************)
EXTENDS CodeGen, TLC

LOCAL INSTANCE SequencesExt

CONSTANTS
    Programs,     \* [ics, offset, used, opt]: offset is the size of the locals, opt [pic, size, firsttail]
    Memory,       \* the bytes the program starts with
    Params,       \* the first parameter, in r1, and what r2 holds
    GlobalAt,     \* where each symbol is
    Functions,    \* those symbols that are functions, outside of the program
    Arguments,    \* how many words of arguments each finds on the stack
    Entry,        \* the stack pointer on entry
    StackLimit,   \* the stack is between this and Entry
    CodeBase, HaltAddr

VARIABLES program, phase, g, code, m, e, follows

vars == <<program, phase, g, code, m, e, follows>>

ByteBits == WordBits \div 4
Cpu == INSTANCE Isa
Emu == INSTANCE Emulator
Full == 2 ^ WordBits
Low(v) == v % Full

(***************************************************************************)
(* Code generation                                                         *)
(***************************************************************************)

\* The function's variables in the code generator, before the passes over the ICs.
gen_init(p, opt) ==
    [out |-> <<>>, temps |-> [i \in 0 .. 1 |-> [reg |-> NoReg, o |-> Object]],
     pushed |-> 0, notyetpopped |-> 0, localsize |-> ((p.offset + 3) \div 4) * 4, rsavesize |-> 0,
     regs |-> ReservedRegs, used |-> p.used, zreg |-> T1, q1reg |-> NoReg, q2reg |-> NoReg,
     reversecmp |-> FALSE, loopid |-> 0, ics |-> ReduceDivisions(p.ics), ip |-> 1,
     pic |-> opt.pic, size |-> opt.size, firsttail |-> opt.firsttail]

Begin ==
    /\ phase = "start"
    /\ LET h == [g EXCEPT !.ics = find_addressingmodes(@)]
       IN  g' = function_top(h, h.localsize)
    /\ phase' = "generate"
    /\ UNCHANGED <<program, code, m, e, follows>>

IcIs(codes) == phase = "generate" /\ g.ip <= Len(g.ics) /\ Ic(g).code \in codes
Generated(h) ==
    /\ g' = [h EXCEPT !.ip = @ + 1]
    /\ UNCHANGED <<program, phase, code, m, e, follows>>

Nothing    == IcIs({"nop"}) /\ Generated(GenNop(g))
Allocreg   == IcIs({"allocreg"}) /\ Generated(GenAllocreg(g))
Freereg    == IcIs({"freereg"}) /\ Generated(GenFreereg(g))
Label      == IcIs({"label"}) /\ Generated(GenLabel(g))
Bra        == IcIs({"bra"}) /\ Generated(GenBra(g))
CondBranch == IcIs(CondBranches) /\ Generated(GenCondBranch(g))
SetReturn  == IcIs({"setreturn"}) /\ Generated(GenSetReturn(preload(g, TRUE)))
GetReturn  == IcIs({"getreturn"}) /\ Generated(GenGetReturn(preload(g, TRUE)))
Call       == IcIs({"call"}) /\ Generated(GenCall(preload(g, TRUE)))
PushArg    == IcIs({"push"}) /\ Generated(GenPush(preload(g, ~ByCopy(Ic(g)))))
Assign     == IcIs({"assign"}) /\ Generated(GenAssign(preload(g, ~ByCopy(Ic(g)))))
Address    == IcIs({"address"}) /\ Generated(GenAddress(preload(g, TRUE)))
Convert    == IcIs({"convert"}) /\ Generated(GenConvert(preload(g, TRUE)))
Komplement == IcIs({"komplement"}) /\ Generated(GenKomplement(preload(g, TRUE)))
Minus      == IcIs({"minus"}) /\ Generated(GenMinus(preload(g, TRUE)))
Test       == IcIs({"test"}) /\ Generated(GenTest(preload(g, TRUE)))
Compare    == IcIs({"compare"}) /\ Generated(GenCompare(preload(g, TRUE)))
Division   == IcIs({"div", "mod"}) /\ Generated(GenDivision(preload(g, FALSE)))
Arithmetic ==
    /\ IcIs({"or", "xor", "and", "lshift", "rshift", "add", "sub", "mult", "addi2p", "subifp", "subpfp"})
    /\ Generated(GenArithmetic(preload(g, TRUE)))

End ==
    /\ phase = "generate" /\ g.ip > Len(g.ics)
    /\ g' = [function_bottom(g, g.localsize + g.notyetpopped) EXCEPT !.ics = <<>>]
    /\ phase' = "optimise"
    /\ UNCHANGED <<program, code, m, e, follows>>

(***************************************************************************)
(* The peephole pass                                                       *)
(***************************************************************************)

\* The register that comes back where it came from.
PairAt(out, i) ==
    /\ i > 1 /\ {out[i].op, out[i - 1].op} = {"mr", "mt"} /\ out[i].reg = out[i - 1].reg

\* The instructions of which the pass keeps track; a load only after a store.
Plain == {"mr", "mt", "st"}
Since(out, i) == LastOf({k \in 1 .. i - 1 : out[k].op \notin Plain \cup {"ld"}}) + 1
ReloadAt(out, l) ==
    LET named == {k \in 1 .. l - 1 : out[k].op \in Plain}
    IN  /\ out[l].op = "ld" /\ out[l].reg = SP
        /\ \E k \in Since(out, l) .. l - 1 : out[k].op = "st"
        /\ out[LastOf(named)].reg = SP

\* A reload of what was just stored goes once it is seen that nothing asks for its flags.
ReloadSeenAt(out, i) ==
    LET loads == {l \in Since(out, i) .. i - 1 : ReloadAt(out, l)}
    IN  IF out[i].op \in Plain \cup {"ld", "cond"} THEN 0 ELSE LastOf(loads)

PeepholeHits(out) ==
    {i \in DOMAIN out : PairAt(out, i)} \cup ({ReloadSeenAt(out, i) : i \in DOMAIN out} \ {0})

\* The pass sees the last sixteen lines emitted, comments among them: each hit is
\* taken while it is in sight, or never.
emit_peephole ==
    \E hit \in PeepholeHits(g.out) :
        /\ phase = "optimise"
        /\ g' = [g EXCEPT !.out = SubSeq(@, 1, hit - 1) \o SubSeq(@, hit + 1, Len(@))]
        /\ UNCHANGED <<program, phase, code, m, e, follows>>

(***************************************************************************)
(* From lines to an image: what the assembler and the linker do            *)
(***************************************************************************)

FunctionTail ==
    Sym("label", ".functiontail", 0) \o PopInto(6) \o PopInto(5) \o PopInto(4) \o PopInto(PC)

\* The tail is part of another function if that one came first.
Lines == IF g.size /\ ~g.firsttail THEN g.out \o FunctionTail ELSE g.out

LengthOf(l) ==
    CASE l.op = "label"    -> 0
      [] l.op = ".liconst" -> count_constantchunks(l.val)
      [] l.op = ".liabs"   -> 3
      [] l.op = ".lipcrel" -> 2
      [] l.op = ".ref"     -> 4
      [] OTHER             -> 1

AddressOf(lines) ==
    FoldLeft(LAMBDA at, l : Append(at, Last(at) + LengthOf(l)), <<CodeBase>>, lines)

SymbolAt(lines, at, s) ==
    IF s \in DOMAIN GlobalAt THEN GlobalAt[s]
    ELSE at[CHOOSE k \in DOMAIN lines : lines[k].op = "label" /\ lines[k].sym = s]

ValueOf(lines, at, k) ==
    LET l == lines[k]
    IN  CASE l.op = ".liconst" -> Low(l.val)
          [] l.op \in {".liabs", ".ref"} -> Low(SymbolAt(lines, at, l.sym) + l.val)
          [] l.op = ".lipcrel" -> Low(SymbolAt(lines, at, l.sym) + l.val - (at[k] + 3))

\* vbcc's registers are one higher than the core's.
Encode(l) ==
    LET ovl == [sgn |-> "or", ldt |-> "xor", byt |-> "mul", hlf |-> "and"]
        predicate == [SGT |-> 1, EQ |-> 2, GE |-> 3, SLT |-> 4, NEQ |-> 5, LE |-> 6, EX |-> 7]
    IN  CASE l.op = "cond"         -> [op |-> "cond", reg |-> predicate[l.sym], imm |-> 0]
          [] l.op \in DOMAIN ovl   -> [op |-> ovl[l.op], reg |-> 7, imm |-> 0]
          [] OTHER                 -> [op |-> l.op, reg |-> l.reg - 1, imm |-> 0]

\* The li instruction number n, from 0, of those that load v.
LiAt(v, len, n) == [op |-> "li", reg |-> 0, imm |-> (v \div 2 ^ (6 * (len - 1 - n))) % 64]

Image(lines) ==
    LET at == AddressOf(lines)
        ks == {k \in DOMAIN lines : lines[k].op \notin {"label", ".ref"}}
        places == UNION {at[k] .. at[k + 1] - 1 : k \in ks}
        lineAt(a) == CHOOSE k \in ks : a \in at[k] .. at[k + 1] - 1
        instruction(a) ==
            LET k == lineAt(a)
            IN  IF lines[k].op \in {".liconst", ".liabs", ".lipcrel"}
                THEN LiAt(Cpu!SignedOf(ValueOf(lines, at, k)), LengthOf(lines[k]), a - at[k])
                ELSE Encode(lines[k])
    IN  [a \in places |-> instruction(a)]

\* The words that .ref leaves among the instructions, as bytes of the memory.
References4(lines) ==
    LET at == AddressOf(lines)
        ks == {k \in DOMAIN lines : lines[k].op = ".ref"}
        word(a) == CHOOSE k \in ks : a \in at[k] .. at[k] + 3
    IN  [a \in UNION {at[k] .. at[k] + 3 : k \in ks} |->
            (ValueOf(lines, at, word(a)) \div 2 ^ (ByteBits * (a - at[word(a)]))) % 2 ^ ByteBits]

\* What is on entry: tmp has the return address.
machine_init(mem) ==
    [r |-> [n \in 0 .. 7 |-> CASE n = 1 -> Params[1] [] n = 2 -> Params[2] [] n = 6 -> Entry
                               [] n = 7 -> CodeBase [] OTHER -> Low(1000 * n + 77)],
     tmp |-> HaltAddr, z |-> FALSE, c |-> FALSE, cy |-> FALSE, sgn |-> FALSE, size |-> "word",
     ex |-> TRUE, li |-> FALSE, mem |-> mem, wild |-> FALSE]

emulator_init(h) ==
    [r |-> h.r, temp |-> h.tmp, zero |-> FALSE, carry |-> FALSE, cond |-> TRUE, sizemod |-> "WORD",
     sign_mod |-> FALSE, immediate_continuation |-> FALSE, mem |-> h.mem]

Load ==
    LET lines == Lines
        h     == machine_init(References4(lines) @@ Memory)
    IN  /\ phase = "optimise"
        /\ code' = Image(lines)
        /\ m' = h /\ e' = emulator_init(h)
        /\ follows' = {"data", "zero", "carry"}
        /\ g' = [g EXCEPT !.out = <<>>]
        /\ phase' = "run"
        /\ UNCHANGED program

(***************************************************************************)
(* Execution                                                               *)
(***************************************************************************)

\* Where the emulator is known to do something else than the core: it has no
\* mul, its halfword loads start from an unset variable, and a chain of li
\* goes on across a modifier.
Unlike(i) ==
    /\ m.ex
    /\ \/ i.op = "mul" /\ i.reg # 7
       \/ "load" \in Cpu!ExOp(i) /\ m.size = "half"
       \/ i.op = "li" /\ m.li # e.immediate_continuation
       \/ i.op = "cond" /\ "zero" \notin follows
       \/ i.op = "cond" /\ "carry" \notin follows /\ i.reg \notin {2, 5}

\* The flags of the emulator that are the core's after an instruction.
FlagsLike(i) ==
    IF ~m.ex THEN follows \cap {"zero", "carry"}
    ELSE IF i.op \in {"ld", "ldinc", "ldidx", "ldbinc", "addt"} \/ (i.op \in {"add", "cmp"} /\ i.reg # 7)
    THEN {"zero", "carry"}
    ELSE IF i.op \in {"and", "or", "xor", "sub", "shl", "shr"} /\ i.reg # 7 THEN {"zero"}
    ELSE IF i.reg = 7 /\ i.op \in {"xor", "and", "mul", "mr", "exg", "add", "sub"} THEN {}
    ELSE follows \cap {"zero", "carry"}

Instruction ==
    LET i == code[m.r[7]]
    IN  /\ phase = "run" /\ m.r[7] \in DOMAIN code
        /\ m' = Cpu!Step(m, i)
        /\ e' = Emu!Run(e, i, 0)
        /\ follows' = IF "data" \notin follows \/ Unlike(i) THEN {} ELSE {"data"} \cup FlagsLike(i)
        /\ UNCHANGED <<program, phase, g, code>>

Junk(r, mem) == Cpu!Write(Cpu!Write(mem, r[6] - 4, 4321, "word"), r[6] - 8, 1234, "word")
WordAt(mem, a) == Cpu!Read(mem, a, "word")
Quotient(a, b) == IF (a < 0) = (b < 0) THEN (IF a < 0 THEN -a ELSE a) \div (IF b < 0 THEN -b ELSE b)
                  ELSE -((IF a < 0 THEN -a ELSE a) \div (IF b < 0 THEN -b ELSE b))

\* What a function makes of its parameter and its arguments, the calls being counted.
Result(name, a, args, count) ==
    Low(a + 2 * (IF Arguments[name] > 0 THEN args[1] ELSE 0)
          + 3 * (IF Arguments[name] > 1 THEN args[2] ELSE 0) + 7 * count)
Counted(mem) == Cpu!Write(mem, GlobalAt["_count"], Low(WordAt(mem, GlobalAt["_count"]) + 1), "word")

\* A function outside of the program: it may use the scratch registers, tmp
\* and what is below the stack pointer.
Called(name, r, tmp, mem) ==
    LET division == name \in {"_div_s32bys32", "_div_u32byu32"}
        of(v)    == IF name = "_div_s32bys32" THEN Cpu!SignedOf(v) ELSE v
        q        == Quotient(of(r[1]), of(r[2]))
        args     == <<WordAt(mem, r[6]), WordAt(mem, r[6] + 4)>>
    IN  IF division
        THEN [r   |-> [r EXCEPT ![0] = Low(q), ![1] = Low(of(r[1]) - q * of(r[2])), ![2] = 999, ![7] = tmp],
              mem |-> Junk(r, mem)]
        ELSE [r   |-> [r EXCEPT ![0] = Result(name, r[1], args, WordAt(mem, GlobalAt["_count"])),
                                ![1] = 555, ![2] = 999, ![7] = tmp],
              mem |-> Junk(r, Counted(mem))]

FunctionAt(a) == {f \in Functions : GlobalAt[f] = a}

External ==
    /\ phase = "run"
    /\ \E name \in FunctionAt(m.r[7]) :
          LET h == Called(name, m.r, m.tmp, m.mem)
              k == Called(name, e.r, e.temp, e.mem)
          IN  /\ m' = [m EXCEPT !.r = h.r, !.mem = h.mem, !.tmp = 777, !.li = FALSE]
              /\ e' = IF "data" \in follows
                      THEN [e EXCEPT !.r = k.r, !.mem = k.mem, !.temp = 777, !.immediate_continuation = FALSE]
                      ELSE e
    /\ follows' = follows \cap {"data"}
    /\ UNCHANGED <<program, phase, g, code>>

Return ==
    /\ phase = "run" /\ m.r[7] = HaltAddr
    /\ phase' = "done"
    /\ UNCHANGED <<program, g, code, m, e, follows>>

Done == phase = "done" /\ UNCHANGED vars

Init ==
    /\ program \in Programs
    /\ g = gen_init(program, program.opt)
    /\ phase = "start" /\ code = <<>> /\ m = <<>> /\ e = <<>> /\ follows = {}

Next ==
    \/ Begin \/ Nothing \/ Allocreg \/ Freereg \/ Label \/ Bra \/ CondBranch \/ SetReturn \/ GetReturn
    \/ Call \/ PushArg \/ Assign \/ Address \/ Convert \/ Komplement \/ Minus \/ Test \/ Compare
    \/ Division \/ Arithmetic \/ End
    \/ emit_peephole \/ Load
    \/ Instruction \/ External \/ Return
    \/ Done

Running  == []<>(phase = "done") \/ []<><<TRUE>>_vars
Spec     == Init /\ [][Next]_vars
FairSpec == Spec /\ Running

(***************************************************************************)
(* What the ICs mean                                                       *)
(***************************************************************************)
(* A state of the interpretation is [r, mem, args, ip, sign]: vbcc's       *)
(* registers, memory, the words pushed, the IC to come, and the sign of    *)
(* what was compared last.                                                 *)

FrameBase == Entry - 4 - g.rsavesize - g.localsize
VariableAt(v) ==
    IF Vars[v].sc # "auto" THEN GlobalAt[Vars[v].id]
    ELSE IF Vars[v].off < 0 THEN Entry - 4 - Vars[v].off ELSE FrameBase + Vars[v].off

Size(t) == CASE sizetab(t) = 1 -> "byte" [] sizetab(t) = 2 -> "half" [] sizetab(t) = 4 -> "word"
Cut(v, t) == v % 2 ^ (ByteBits * sizetab(t))
IntOf(v, t) == IF ~unsigned(t) /\ t # "pointer" /\ v >= 2 ^ (ByteBits * sizetab(t) - 1)
             THEN v - 2 ^ (ByteBits * sizetab(t)) ELSE v

AddressIn(s, o) ==
    IF ~Has(o, "DREF") THEN Low(VariableAt(o.v) + o.val)
    ELSE IF Has(o, "KONST") THEN Low(o.val)
    ELSE IF Has(o, "REG") THEN s.r[o.reg]
    ELSE WordAt(s.mem, Low(VariableAt(o.v) + o.val))

ValueIn(s, o, t) ==
    IF isconst(o) THEN Cut(o.val, t)
    ELSE IF isreg(o) THEN Cut(s.r[o.reg], t)
    ELSE IF Has(o, "VARADR") \/ composite(t) THEN AddressIn(s, o)
    ELSE Cpu!Read(s.mem, AddressIn(s, o), Size(t))

StoreIn(s, o, t, v) ==
    IF isreg(o) THEN [s EXCEPT !.r[o.reg] = Cut(v, t)]
    ELSE [s EXCEPT !.mem = Cpu!Write(@, AddressIn(s, o), Cut(v, t), Size(t))]

Operation(code_, a, b) ==
    CASE code_ \in {"add", "addi2p"} -> a + b
      [] code_ \in {"sub", "subifp", "subpfp"} -> a - b
      [] code_ = "mult" -> Cpu!Product(a, Low(b)).low
      [] code_ \in {"and", "or", "xor"} -> Cpu!Alu([op |-> code_, reg |-> 0], Low(a), Low(b), FALSE, FALSE).q1
      [] code_ = "lshift" -> Low(a) * 2 ^ b
      [] code_ = "rshift" -> a \div 2 ^ b
      [] code_ = "div" -> Quotient(a, b)
      [] code_ = "mod" -> a - b * Quotient(a, b)
      [] code_ = "minus" -> - a
      [] code_ = "komplement" -> -1 - a
      [] code_ \in {"assign", "convert"} -> a

CopyIn(mem, from, to, n) ==
    [a \in DOMAIN mem |-> IF a \in to .. to + n - 1 THEN mem[from + a - to] ELSE mem[a]]

CalledIn(s, p) ==
    LET name  == CHOOSE f \in Functions :
                    IF Has(p.q1, "DREF") THEN GlobalAt[f] = AddressIn(s, p.q1) ELSE f = Vars[p.q1.v].id
        words == p.argsize \div 4
    IN  [s EXCEPT !.r[1] = Result(name, s.r[2], s.args, WordAt(s.mem, GlobalAt["_count"])),
                  !.r[2] = 555, !.r[3] = 999,
                  !.mem = Counted(@),
                  !.args = SubSeq(@, words + 1, Len(@))]

Jumps(code_, sign) ==
    CASE code_ = "bra" -> TRUE
      [] code_ = "beq" -> sign = 0   [] code_ = "bne" -> sign # 0
      [] code_ = "blt" -> sign < 0   [] code_ = "bge" -> sign >= 0
      [] code_ = "ble" -> sign <= 0  [] code_ = "bgt" -> sign > 0

StepIc(s, p) ==
    LET n    == [s EXCEPT !.ip = @ + 1]
        a    == IntOf(ValueIn(s, p.q1, q1typ(p)), q1typ(p))
        b    == IntOf(ValueIn(s, p.q2, p.typ), p.typ)
        sign(x) == IF x < 0 THEN -1 ELSE IF x > 0 THEN 1 ELSE 0
        lab  == CHOOSE k \in DOMAIN program.ics : program.ics[k].code = "label" /\ program.ics[k].lab = p.lab
    IN  CASE p.code \in {"nop", "allocreg", "freereg", "label"} -> n
          [] p.code \in Branches -> IF Jumps(p.code, s.sign) THEN [s EXCEPT !.ip = lab] ELSE n
          [] p.code = "compare" -> [n EXCEPT !.sign = sign(a - b)]
          [] p.code = "test"    -> [n EXCEPT !.sign = sign(a)]
          [] p.code = "setreturn" -> [n EXCEPT !.r[1] = Low(a)]
          [] p.code = "getreturn" -> IF p.q1.reg = NoReg THEN n ELSE StoreIn(n, p.z, p.typ, s.r[p.q1.reg])
          [] p.code = "call"    -> CalledIn(n, p)
          [] p.code = "push"    ->
                [n EXCEPT !.args = (IF composite(p.typ)
                                    THEN [k \in 1 .. p.pushsize \div 4 |-> WordAt(s.mem, AddressIn(s, p.q1) + 4 * (k - 1))]
                                    ELSE <<Low(a)>>) \o @]
          [] p.code = "address" -> StoreIn(n, p.z, "pointer", AddressIn(s, p.q1))
          [] p.code = "assign" /\ ByCopy(p) ->
                [n EXCEPT !.mem = CopyIn(@, AddressIn(s, p.q1), AddressIn(s, p.z), p.opsize)]
          [] OTHER -> StoreIn(n, p.z, p.typ, Operation(p.code, a, b))

RECURSIVE RunIcs(_)
RunIcs(s) == IF s.ip > Len(program.ics) THEN s ELSE RunIcs(StepIc(s, program.ics[s.ip]))

Meaning ==
    RunIcs([r |-> [n \in 1 .. 9 |-> IF n = 9 THEN 0 ELSE machine_init(<<>>).r[n - 1]],
            mem |-> Memory, args |-> <<>>, ip |-> 1, sign |-> 0])

(***************************************************************************)
(* Properties                                                              *)
(***************************************************************************)

Returns == \E k \in DOMAIN program.ics : program.ics[k].code = "setreturn"

\* The code computes what the ICs say: at the end the variables of the program
\* and its caller, and the value returned, are what the ICs make of them, whatever
\* the generator thought it knew of tmp and r0, merged, dropped or put off.
CodeComputesIcs ==
    phase = "done" =>
        LET s == Meaning
        IN  /\ \A a \in DOMAIN Memory : a >= Entry \/ a < StackLimit => m.mem[a] = s.mem[a]
            /\ Returns => m.r[0] = s.r[1]

\* The function leaves the stack where it was, with the registers it may not
\* change, and has written nowhere but in memory (function_top, function_bottom,
\* the arguments popped late).
FrameKept ==
    /\ phase \in {"run", "done"} => ~m.wild /\ m.r[6] <= Entry
    /\ phase = "done" => \A n \in {3, 4, 5, 6} : m.r[n] = machine_init(<<>>).r[n]

\* The emulator's registers and memory are the core's, and so are those of its
\* flags that can be, up to the first instruction known to be executed differently.
EmulatorAgrees ==
    /\ "data" \in follows => e.r = m.r /\ e.temp = m.tmp /\ e.mem = m.mem /\ e.cond = m.ex
    /\ "zero" \in follows => e.zero = m.z
    /\ "carry" \in follows => e.carry = m.c

\* What a function sets to be returned is returned, also where its division "can
\* skip saving the result" because the next IC returns it (machine.c:2184).
ReturnsItsValue == phase = "done" /\ Returns => m.r[0] = Meaning.r[1]

\* The code of every function returns, if it is executed.
CodeReturns == <>(phase = "done")
=============================================================================
