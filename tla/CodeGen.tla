------------------------------- MODULE CodeGen -------------------------------
(***************************************************************************)
(* The code generator (vbcc/machines/832/machine.c): the instructions for  *)
(* one IC after the other.  Besides the fields of TempObjs, g has          *)
(*   ics, ip     the function and the IC in hand                           *)
(*   regs, used  registers in use here, and anywhere in the function       *)
(*   zreg, q1reg, q2reg   where the result goes, where the operands are    *)
(*   reversecmp  the last comparison has its operands swapped              *)
(*   loopid, pic, size, firsttail                                          *)
(***************************************************************************)
EXTENDS InlineCopy, AddressingModes

LOCAL INSTANCE SequencesExt

ScratchRegs == {2, 3}          \* r1 and r2; r0 returns the result
ReservedRegs == {T1, SP, PC, TMP}
SavedRegs   == <<4, 5, 6>>     \* r3 to r5


\* A pre-pass over the function: unsigned divisions by powers of two.
\* The type it means to correct is that of the IC, the one it corrects is the first.
ReduceDivisions(ics) ==
    LET reducible == {i \in DOMAIN ics : /\ ics[i].code \in {"div", "mod"} /\ unsigned(ics[i].typ)
                                         /\ isconst(ics[i].q2)
                                         /\ \E n \in 0 .. WordBits - 2 : ics[i].q2.val = 2 ^ n}
        log2(v)   == CHOOSE n \in 0 .. WordBits - 2 : v = 2 ^ n
        shifted(i) == i \in reducible /\ ics[i].code = "div"
        typ2(i)   == IF i = 1 /\ \E j \in reducible : shifted(j) THEN "int" ELSE ics[i].typ2
    IN  [i \in DOMAIN ics |->
            [ics[i] EXCEPT !.typ2 = typ2(i),
                           !.code = IF i \notin reducible THEN @ ELSE IF shifted(i) THEN "rshift" ELSE "and",
                           !.q2.val = IF i \notin reducible THEN @
                                      ELSE IF shifted(i) THEN log2(@) ELSE @ - 1]]

\* The slot at the top of the stack is reached through the stack pointer alone.
TopSlot(g, o) ==
    IF istopstackslot(g, o) THEN [o EXCEPT !.reg = SP, !.flags = @ \cup {"REG", "DREF"}] ELSE o

Ic(g) == g.ics[g.ip]

Located(g) == [g EXCEPT !.q1reg = getreg(Ic(g).q1), !.q2reg = getreg(Ic(g).q2),
                        !.zreg = IF isreg(Ic(g).z) THEN Ic(g).z.reg ELSE T1]
preload(g, stacksubst) ==
    Located(IF ~stacksubst THEN g
            ELSE [g EXCEPT !.ics[g.ip].q1 = TopSlot(g, @), !.ics[g.ip].q2 = TopSlot(g, @),
                           !.ics[g.ip].z = TopSlot(g, @)])

\* [g, hit]: the register is only set to be returned; the SETRETURN, at j, becomes void.
VoidReturn(g, reg, j) ==
    LET hit == j # 0 /\ g.ics[j].code = "setreturn" /\ isreg(g.ics[j].q1) /\ g.ics[j].q1.reg = reg
    IN  [g |-> IF hit THEN [g EXCEPT !.ics = Nop(@, j)] ELSE g, hit |-> hit]
next_setreturn(g, reg) ==
    VoidReturn(g, reg, FirstOf({k \in g.ip + 1 .. Len(g.ics) : g.ics[k].code # "freereg"}))

\* How far the next IC's result is from this one's, in the same static or external variable.
consecutiveaccess(g) ==
    LET next == g.ics[g.ip + 1].z
    IN  IF /\ g.ip < Len(g.ics)
           /\ \A o \in {Ic(g).z, next} : Has(o, "VAR") /\ ~Has(o, "DREF")
           /\ Vars[Ic(g).z.v].id = Vars[next.v].id /\ sc(next) # "auto"
        THEN next.val - Ic(g).z.val ELSE 0

(***************************************************************************)
(* Results                                                                 *)
(***************************************************************************)

ForgetBoth(g, r) == cleartempobj(cleartempobj(g, TMP), r)
ForgetIf(g, both, r) == IF both THEN ForgetBoth(g, r) ELSE cleartempobj(g, r)

\* Register r into an object in memory, whose address is in tmp if it needs to be.
StoreThrough(g, r, o, t) ==
    LET cached(h)  == IF t = "int" THEN settempobj(h, r, o, 0, FALSE) ELSE cleartempobj(h, r)
        swapped    == Emit(g, Line("exg", r))
    IN  CASE t = "char"  -> ForgetBoth(Emit(swapped, Line("stbinc", r)), r)
          [] t = "short" -> ForgetBoth(Emit(swapped, Sizemod(t) \o Line("st", r)), r)
          [] t \in {"int", "pointer"} /\ {"REG", "DREF"} \subseteq o.flags ->
                settempobj(cached(Emit(g, Line("mt", r) \o Line("st", o.reg))), TMP, o, 0, FALSE)
          [] t \in {"int", "pointer"} /\ Has(o, "DREF") /\ ~Has(o, "REG") ->
                ForgetBoth(EmitIf(Emit(swapped, Line("st", r)), ~(r = T1 \/ o.am.disposable), Line("exg", r)), r)
          [] t \in {"int", "pointer"} /\ ~Has(o, "DREF") ->
                cached(adjtempobj(Emit(g, Line("stmpdec", r)), TMP, -4))

store_reg(g, r, o, type) ==
    LET t    == IF NQ(type) \in {"char", "short"} /\ isstackparam(o) THEN "int" ELSE NQ(type)
        word == t \in {"int", "pointer"}
    IN  StoreThrough(IF word /\ {"REG", "DREF"} \subseteq o.flags THEN g
                     ELSE emit_prepobj(g, o, TMP, IF word /\ ~Has(o, "DREF") THEN 4 ELSE 0),
                     r, o, t)

\* How save_temp writes what tmp holds through register r: [line, adj].
WriteTemp(g, p, t, r) ==
    LET post == p.z.am.type = "postinc"
    IN  IF t = "char" /\ (post \/ p.z.am.disposable \/ r = T1) THEN [line |-> Line("stbinc", r), adj |-> 1]
        ELSE IF t \in {"char", "short"} THEN [line |-> Sizemod(t) \o Line("st", r), adj |-> 0]
        ELSE IF consecutiveaccess(g) = 4 \/ post THEN [line |-> Line("stinc", r), adj |-> 4]
        ELSE IF p.z.am.type = "predec" THEN [line |-> Line("stdec", r), adj |-> -4]
        ELSE [line |-> Line("st", r), adj |-> 0]
SaveThrough(g, r, w) == adjtempobj(Emit(g, w.line), r, w.adj)
SaveTempIn(n, reg) == Emit(n.g, Line("mr", IF n.hit THEN T1 ELSE reg))

\* What tmp holds into the result; treg holds its address if it is in memory.
save_temp(g, p, treg) ==
    LET r == IF {"REG", "DREF"} \subseteq p.z.flags THEN p.z.reg ELSE treg
        t == IF isstackparam(p.z) /\ ~Has(p.z, "DREF") THEN "int" ELSE NQ(p.typ)
    IN  IF isreg(p.z) THEN SaveTempIn(next_setreturn(g, p.z.reg), p.z.reg)
        ELSE SaveThrough(g, r, WriteTemp(g, p, t, r))

\* A register that has to hold an unsigned type is masked.
Clamp(g, p) ==
    LET mask == CASE p.typ = "uchar" -> 2 ^ (WordBits \div 4) - 1
                  [] p.typ = "ushort" -> 2 ^ (WordBits \div 2) - 1
                  [] OTHER -> 0
    IN  IF mask = 0 THEN g ELSE cleartempobj(Emit(g, LiConst(mask) \o Line("and", p.z.reg)), TMP)

\* What zreg holds into the result.
MoveResult(g, p) ==
    IF p.z.reg = g.zreg THEN g
    ELSE settempobj(settempobj(Emit(g, Line("mt", g.zreg) \o Line("mr", p.z.reg)), TMP, p.z, 0, FALSE),
                    p.z.reg, p.z, 0, FALSE)
save_result(g, p, clamp) ==
    IF ~isreg(p.z) THEN store_reg(g, g.zreg, p.z, p.typ)
    ELSE IF clamp THEN Clamp(MoveResult(g, p), p) ELSE MoveResult(g, p)

(***************************************************************************)
(* The beginning and the end of the function                               *)
(***************************************************************************)

Saved(g) == SelectSeq(SavedRegs, LAMBDA r : r \in g.used)

\* With three registers to save, the stack pointer does better in tmp.
SaveRegisters(g, saved) ==
    IF Len(saved) < 3
    THEN FoldLeft(LAMBDA h, r : Emit(h, Line("mt", r) \o Line("stdec", SP)), Emit(g, Line("stdec", SP)), saved)
    ELSE Emit(FoldLeft(LAMBDA h, r : Emit(h, Line("stmpdec", r)), Emit(g, Line("exg", SP) \o Line("stmpdec", SP)), saved),
              Line("exg", SP))

\* The stack pointer moved by the size of the locals.
MoveStack(g, offset, short, op) ==
    IF offset = 0 THEN g
    ELSE IF offset = 4 /\ g.size THEN Emit(g, Line(short, SP))
    ELSE Emit(emit_constanttotemp(g, - offset), Line(op, SP))

function_top(g, offset) ==
    MoveStack([SaveRegisters(Forget(g), Saved(g)) EXCEPT !.rsavesize = 4 * Len(Saved(g))], offset, "stdec", "add")

PopInto(r) == Line("ldinc", SP) \o Line("mr", r)
EmitReturn(g) == Emit(g, PopInto(PC))
Restore(g, saved) == FoldLeft(LAMBDA h, r : Emit(h, PopInto(r)), g, Reverse(saved))

ToTail_Half(g, n) ==
    IF n = Len(SavedRegs) /\ g.firsttail THEN g
    ELSE Emit(g, Sym(".lipcrel", ".functiontail", Len(SavedRegs) - n) \o Line("add", PC))

\* When optimising for size the first function that saves registers has the
\* tail of all of them: it restores every register that can be saved, and is
\* entered where as many are left as this function has saved.
ToTail(g, n) ==
    IF n = Len(SavedRegs) /\ g.firsttail THEN g
    ELSE Emit(g, Sym(".lipcrel", ".functiontail", (Len(SavedRegs) - n) * 2) \o Line("add", PC))
WithTail(g) ==
    IF g.firsttail THEN EmitReturn(Restore(Emit(g, Sym("label", ".functiontail", 0)), SavedRegs)) ELSE g
LeaveFunction(g, saved) ==
    IF ~g.size \/ saved = <<>> THEN EmitReturn(Restore(g, saved)) ELSE WithTail(ToTail(g, Len(saved)))
function_bottom(g, offset) == LeaveFunction(MoveStack(g, offset, "ldinc", "sub"), Saved(g))

(***************************************************************************)
(* Control flow and calls                                                  *)
(***************************************************************************)

GenAllocreg(g) == [g EXCEPT !.regs = @ \cup {Ic(g).q1.reg}]
GenFreereg(g)  == [g EXCEPT !.regs = @ \ {Ic(g).q1.reg}]
GenNop(g)      == [g EXCEPT !.ics[g.ip].z.flags = {}]
GenLabel(g)    == Forget(Emit(g, Sym("label", Ic(g).lab, 0)))
GenBra(g)      == Emit(emit_pcreltotemp(g, Ic(g).lab), Line("add", PC))

Condition(code, reversed) ==
    LET code2 == IF ~reversed THEN code
                 ELSE CASE code = "blt" -> "bgt" [] code = "ble" -> "bge" [] code = "bgt" -> "blt"
                        [] code = "bge" -> "ble" [] OTHER -> code
    IN  [beq |-> "EQ", bne |-> "NEQ", blt |-> "SLT", bge |-> "GE", ble |-> "LE", bgt |-> "SGT"][code2]

GenCondBranch(g) ==
    LET g1 == Emit(g, Sym("cond", Condition(Ic(g).code, g.reversecmp), 0))
    IN  Emit(emit_pcreltotemp([g1 EXCEPT !.reversecmp = FALSE], Ic(g).lab), Line("add", PC))

\* From here on the operands have been located (preload).

GenSetReturn(g) == emit_objtoreg(g, Ic(g).q1, Ic(g).typ, g.zreg).g

GenGetReturn(g) ==
    IF Ic(g).q1.reg = NoReg THEN [g EXCEPT !.ics[g.ip].z.flags = {}]
    ELSE save_result([g EXCEPT !.zreg = Ic(g).q1.reg], Ic(g), FALSE)

\* The jump of a call; the return address goes to tmp.
Jump(g, p) ==
    CASE ~Has(p.q1, "REG") /\ sc(p.q1) = "static" /\ Has(p.q1, "DREF") ->
            Emit(emit_pcreltotemp2(g, p.q1), Line("addt", PC) \o Bare("ldt") \o Line("exg", PC))
      [] ~Has(p.q1, "REG") /\ sc(p.q1) = "extern" /\ Has(p.q1, "DREF") ->
            Emit(emit_externtotemp(g, p.q1, p.q1.val), Bare("ldt") \o Line("exg", PC))
      [] ~Has(p.q1, "REG") /\ sc(p.q1) # "auto" /\ ~Has(p.q1, "DREF") ->
            Emit(emit_pcreltotemp2(g, p.q1), Line("add", PC))
      [] OTHER -> Emit(emit_objtoreg(g, p.q1, p.typ, TMP).g, Line("exg", PC))

PopArguments(g, n) == IF n = 0 THEN g ELSE Emit(emit_constanttotemp(g, n), Line("add", SP))

\* How many bytes of arguments are popped after the call; the rest is put off.
Popped(g, p) ==
    CASE p.z.am.deferredpop = "flowcontrol" -> p.argsize + g.notyetpopped
      [] p.z.am.deferredpop = "nestedcalls" -> p.argsize
      [] p.z.am.deferredpop = "ok"          -> 0
PutOff(g, p) ==
    CASE p.z.am.deferredpop = "flowcontrol" -> 0
      [] p.z.am.deferredpop = "nestedcalls" -> g.notyetpopped
      [] p.z.am.deferredpop = "ok"          -> g.notyetpopped + p.argsize

GenCall_R0Known(g) ==
    LET p == Ic(g)
    IN  [PopArguments(cleartempobj(Jump(g, p), TMP), Popped(g, p))
            EXCEPT !.notyetpopped = PutOff(g, p), !.pushed = @ - p.argsize]

\* What is known of r0 is forgotten after the arguments have been popped.
GenCall(g) ==
    LET p == Ic(g)
    IN  cleartempobj(
            [PopArguments(cleartempobj(Jump(g, p), TMP), Popped(g, p))
                EXCEPT !.notyetpopped = PutOff(g, p), !.pushed = @ - p.argsize],
            T1)

ByCopy(p) == composite(q1typ(p)) \/ (NQ(q1typ(p)) = "char" /\ p.opsize # 1)

GenPush(g) ==
    LET p == Ic(g)
    IN  [(IF ByCopy(p) THEN emit_inlinepush(g, p)
          ELSE Emit(emit_objtoreg(g, p.q1, p.typ, TMP).g, Line("stdec", SP)))
            EXCEPT !.pushed = @ + p.pushsize]

(***************************************************************************)
(* Assignments and conversions                                             *)
(***************************************************************************)

check_am(p) == \E k \in Operands : p[k].am.type \in {"postinc", "predec"}

\* A register into memory, the address being in tmp.
StoreThroughTmp(g, p, t) ==
    LET sized == IF Has(p.z, "DREF") \/ ~isstackparam(p.z) THEN Sizemod(t) ELSE <<>>
    IN  CASE Has(p.z, "DREF") /\ p.z.am.disposable ->
                cleartempobj(Emit(g, Line("exg", g.q1reg) \o sized \o Line("st", g.q1reg)), TMP)
          [] Has(p.z, "DREF") /\ ~p.z.am.disposable ->
                Emit(g, Line("exg", g.q1reg) \o sized \o Line("st", g.q1reg) \o Line("exg", g.q1reg))
          [] ~Has(p.z, "DREF") -> Emit(g, sized \o Line("stmpdec", g.q1reg))
StoreRegister(g, p, t) ==
    StoreThroughTmp(emit_prepobj(g, p.z, TMP, IF Has(p.z, "DREF") THEN 0 ELSE 4), p, t)

\* The address of the result is needed in r before the value is fetched to tmp.
TmpToResult(g, p, t, r) == save_temp(emit_objtoreg(emit_prepobj(g, p.z, r, 0), p.q1, t, TMP).g, p, r)

GenAssign(g) ==
    LET p == Ic(g)
    IN  IF ByCopy(p) THEN emit_inlinememcpy(g, p)
        ELSE IF ~check_am(p) /\ isreg(p.q1) /\ ~Has(p.z, "REG")
        THEN IF Has(p.z, "DREF") THEN StoreRegister(g, p, p.typ)
             ELSE cleartempobj(StoreRegister(g, p, p.typ), TMP)
        ELSE TmpToResult(g, p, p.typ, T1)

GenAddress(g) ==
    LET p == Ic(g)
    IN  IF involvesreg(p.z) THEN save_temp(emit_prepobj(g, p.q1, TMP, 0), p, g.zreg)
        ELSE save_result(emit_objaddrtoreg(g, p.q1, T1, 0), p, FALSE)

\* To a wider type: what has a sign is extended by an add and a xor.
Extend(g, t) ==
    cleartempobj(
        Emit(emit_constanttotemp(g, - (2 ^ (WordBits \div (IF t = "char" THEN 4 ELSE 2) - 1))),
             Line("add", g.zreg) \o Line("xor", g.zreg)),
        g.zreg)
Widen(g, p) ==
    LET t == q1typ(p)
    IN  IF unsigned(t) /\ involvesreg(p.z) THEN TmpToResult(g, p, t, g.zreg)
        ELSE save_result(IF unsigned(t) THEN emit_objtoreg(g, p.q1, t, g.zreg).g
                         ELSE Extend(emit_objtoreg(g, p.q1, t, g.zreg).g, t),
                         p, FALSE)

\* From a register to memory nothing need be masked.
NarrowStore(g, p) ==
    IF Has(p.z, "DREF") THEN TmpToResult(g, p, q1typ(p), g.zreg) ELSE StoreRegister(g, p, p.typ)

NarrowMask(p) == CASE NQ(p.typ) = "short" -> 2 ^ (WordBits \div 2) - 1
                   [] NQ(p.typ) = "char"  -> 2 ^ (WordBits \div 4) - 1
                   [] OTHER -> 0
MaskIn(g, p, r) ==
    IF NarrowMask(p) # 0 /\ isreg(p.z) THEN Emit(emit_constanttotemp(g, NarrowMask(p)), Line("and", r)) ELSE g
NarrowLoad(g, p) ==
    MaskIn(IF isreg(p.q1) /\ isreg(p.z) /\ g.q1reg = g.zreg THEN g ELSE TmpToResult(g, p, q1typ(p), T1),
           p, g.zreg)

GenConvert(g) ==
    LET p == Ic(g)
    IN  IF sizetab(q1typ(p)) < sizetab(p.typ) THEN Widen(g, p)
        ELSE IF isreg(p.q1) /\ ~isreg(p.z) THEN NarrowStore(g, p) ELSE NarrowLoad(g, p)

(***************************************************************************)
(* Arithmetic and comparisons                                              *)
(***************************************************************************)

GenKomplement(g) ==
    LET p == Ic(g)
    IN  save_result(Emit(emit_constanttotemp(emit_objtoreg(g, p.q1, p.typ, g.zreg).g, -1), Line("xor", g.zreg)),
                    p, FALSE)

GenMinus(g) ==
    LET p == Ic(g)
    IN  save_result(
            settempobj(Emit(emit_constanttotemp(emit_objtoreg(g, p.q1, p.typ, g.zreg).g, 0),
                            Line("exg", g.zreg) \o Line("sub", g.zreg)),
                       TMP, p.q1, 0, FALSE),
            p, FALSE)

\* The flags of a load will do; r is what emit_objtoreg returned.
Tested(r, o) ==
    IF r.set THEN r.g
    ELSE IF isreg(o) THEN Emit(r.g, Line("and", o.reg))
    ELSE settempobj(Emit(r.g, Line("mr", T1) \o Line("and", T1)), T1, o, 0, FALSE)
GenTest(g) == Tested(emit_objtoreg(g, Ic(g).q1, Ic(g).typ, TMP), Ic(g).q1)

\* If only the second operand is in a register, the first is compared with it.
GenCompare(g) ==
    LET p       == Ic(g)
        next    == g.ics[IF g.ics[g.ip + 1].code = "freereg" THEN g.ip + 2 ELSE g.ip + 1].code
        reverse == ~isreg(p.q1) /\ isreg(p.q2)
        into1   == ~isreg(p.q1) /\ ~reverse
        reg     == IF isreg(p.q1) THEN g.q1reg ELSE IF reverse THEN g.q2reg ELSE T1
        first   == IF into1 THEN cleartempobj(emit_objtoreg(g, p.q1, p.typ, T1).g, T1) ELSE g
    IN  [Emit(EmitIf(emit_objtoreg(first, IF reverse THEN p.q1 ELSE p.q2, p.typ, TMP).g,
                     ~unsigned(p.typ) /\ next \notin {"beq", "bne"}, Bare("sgn")),
              Line("cmp", reg))
            EXCEPT !.reversecmp = reverse \/ @]

\* The operands of a division into r1 and r2.
InReg(g, o, at, r) == isreg(o) /\ at = r
FirstOperand(g, p) ==
    IF InReg(g, p.q1, g.q1reg, T2) THEN g
    ELSE Emit(emit_objtoreg(g, p.q1, p.typ, TMP).g,
              IF InReg(g, p.q2, g.q2reg, T2) THEN Line("exg", T2) \o Line("mr", T2 + 1) ELSE Line("mr", T2))
SecondOperand(g, p) ==
    IF \/ InReg(g, p.q2, g.q2reg, T2) /\ ~InReg(g, p.q1, g.q1reg, T2)
       \/ InReg(g, p.q2, g.q2reg, T2 + 1)
    THEN g ELSE Emit(emit_objtoreg(g, p.q2, p.typ, TMP).g, Line("mr", T2 + 1))

SaveAround(g, r) ==
    IF r \notin g.regs \/ g.zreg = r THEN g
    ELSE [cleartempobj(Emit(g, Line("mt", r) \o Line("stdec", SP)), TMP) EXCEPT !.pushed = @ + 4]
RestoreAround(g, r) ==
    IF r \notin g.regs \/ g.zreg = r THEN g
    ELSE [Emit(g, PopInto(r)) EXCEPT !.pushed = @ - 4]

\* n is what next_setreturn says: then the quotient is where it is to be returned.
MoveQuotient(n, p, zreg) ==
    LET result == IF p.code = "mod" THEN T2 ELSE T1
    IN  EmitIf(n.g, (IF n.hit THEN T1 ELSE zreg) # result, Line("mt", result) \o Line("mr", zreg))
CallDivision(g, p) ==
    Emit(g, Sym(".lipcrel", IF unsigned(p.typ) THEN "_div_u32byu32" ELSE "_div_s32bys32", 0) \o Line("add", PC))
GenDivision(g) ==
    LET p == Ic(g)
        divided == CallDivision(
                       cleartempobj(
                           SecondOperand(FirstOperand(SaveAround(SaveAround(g, T2), T2 + 1), p), p),
                           T1),
                       p)
    IN  save_result(
            Forget(RestoreAround(RestoreAround(MoveQuotient(next_setreturn(divided, g.zreg), p, g.zreg), T2 + 1), T2)),
            p, FALSE)

Opcode(code) == CASE code = "lshift" -> "shl" [] code = "rshift" -> "shr" [] code = "mult" -> "mul"
                  [] code = "addi2p" -> "add" [] code \in {"subifp", "subpfp"} -> "sub" [] OTHER -> code

\* The sum in tmp: of a register and a constant, or of two registers.
AddInTemp(g, p) ==
    LET konst == Has(p.q2, "KONST")
        value == emit_objtoreg(emit_prepobj(g, p.z, T1, 0), IF konst THEN p.q2 ELSE p.q1, p.typ, TMP).g
        sum   == Emit(value, Line("addt", IF konst THEN p.q1.reg ELSE p.q2.reg))
    IN  obsoletetempobj(save_temp(settempobj(sum, TMP, p.z, 0, FALSE), p, T1), T1, p.z, FALSE)

\* vbcc's switch_IC exchanges the operands where the operation allows it.
Commutes(code) == code \in {"add", "mult", "and", "or", "xor"}
switch_IC(g) == preload([g EXCEPT !.ics[g.ip].q1 = Ic(g).q2, !.ics[g.ip].q2 = Ic(g).q1], TRUE)

\* The result must not take the second operand's register before it is used.
Separated(g) ==
    IF ~(involvesreg(Ic(g).q2) /\ g.q2reg = g.zreg) THEN g
    ELSE IF Commutes(Opcode(Ic(g).code)) THEN switch_IC(g) ELSE [g EXCEPT !.zreg = T1]

\* The signedness looked at is also the shift count's, and the flags tested are KONST's.
Signed(p) ==
    /\ p.code \in {"rshift", "mult"} /\ ~unsigned(p.typ)
    /\ \/ p.code = "rshift" /\ ~unsigned(p.typ2)
       \/ Has(p.q1, "KONST")
       \/ p.q1.val < 0

OperandToResult(g, p) ==
    IF isreg(p.q1) /\ g.q1reg = g.zreg THEN g ELSE emit_objtoreg(g, p.q1, p.typ, g.zreg).g
Operate(g, p, op) ==
    LET h == Emit(emit_objtoreg(OperandToResult(g, p), p.q2, p.typ, TMP).g,
                  (IF Signed(p) THEN Bare("sgn") ELSE <<>>) \o Line(op, g.zreg))
    IN  save_result(ForgetIf(h, op = "mul", g.zreg), p, op \in {"shl", "add", "mul"})
GenArithmetic(g) ==
    IF Ic(g).q1.am.type = "addt" THEN AddInTemp([g EXCEPT !.zreg = T1], Ic(g))
    ELSE LET h == Separated(g) IN Operate(h, Ic(h), Opcode(Ic(h).code))
=============================================================================
