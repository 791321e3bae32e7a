------------------------------- MODULE Pipeline -------------------------------
(***************************************************************************)
(* The core (RTL/eightthirtytwo_cpu.vhd) with its hazard unit              *)
(* (RTL/eightthirtytwo_hazard.vhd) and the handshake of the ALU            *)
(* (RTL/eightthirtytwo_alu.vhd, RTL/eightthirtytwo_shifter.vhd): the       *)
(* stages D, E, M and W shared by one or two threads, conditional          *)
(* execution, pause and sig, result forwarding and the interrupt.          *)
(*                                                                         *)
(* A step is one rising clock edge.  No values are computed.  Instead the  *)
(* model keeps, beside the registers of the source, what executing the     *)
(* instructions of a thread one after the other in program order would do  *)
(* (skipping, sgnNow, prevLi), which registers hold the value it would     *)
(* have given them (current), and for each instruction in flight whether   *)
(* it is really to be executed (live) and of what it is the newest writer  *)
(* (newest).                                                               *)
(***************************************************************************)
EXTENDS Decode

CONSTANTS
    Threads,          \* {1}, or {1, 2} for the generic dualthread=true
    Program,          \* the instructions that programs are made of
    Adjacent,         \* which of them may follow which, in program order
    Interrupts,       \* the generic "interrupts"
    InterruptThread,  \* the generic "interruptthread"
    IrqLevels         \* the levels of the interrupt line

MinLatency == 2      \* a load or store is answered in the third cycle at the earliest

ASSUME ThreadsAssumption == Threads \in {{1}, {1, 2}}
ASSUME ProgramAssumption == Program \subseteq Instruction
                            /\ Adjacent \subseteq Program \X Program
ASSUME InterruptAssumption == /\ Interrupts \in BOOLEAN /\ InterruptThread \in {1, 2}
                              /\ IrqLevels \in {{FALSE}, BOOLEAN}

VARIABLES
    interrupt,            \* the input line
    \* per thread
    d, d_read_tmp, d_read_reg, setpc, pause,
    flag_cond, flag_sgn, flag_interrupting, gpr7_readflags,
    \* the stages
    e, e_continue, m, m_loadstore, w,
    \* ALU
    alu_op, alu_req, alu_forward_q2tod1, immediatestreak,
    busyflag, shiftack, shifting,
    \* load / store request
    ls_req_r, ls_ack, ls_age,
    \* what sequential execution would do
    skipping, sgnNow, prevLi, current, aluTmp, accessDue

threadVars == <<d, d_read_tmp, d_read_reg, setpc, pause, flag_cond, flag_sgn,
                flag_interrupting, gpr7_readflags>>
stageVars  == <<e, e_continue, m, m_loadstore, w>>
aluVars    == <<alu_op, alu_req, alu_forward_q2tod1, immediatestreak, busyflag,
                shiftack, shifting>>
lsVars     == <<ls_req_r, ls_ack, ls_age>>
seqVars    == <<skipping, sgnNow, prevLi, current, aluTmp, accessDue>>
vars == <<interrupt, threadVars, stageVars, aluVars, lsVars, seqVars>>

-----------------------------------------------------------------------------
(* What is in a stage.                                                     *)

\* In D: an instruction of the program; a bubble, which keeps the register
\* number of the instruction it replaced; or the xor of the program counter
\* with itself by which the core enters the interrupt routine.
Bubble(r) == [op |-> "bubble", reg |-> r]
IntXor    == [op |-> "interrupt", reg |-> PC]

Ex(i) == CASE i.op = "bubble"    -> {}
           [] i.op = "interrupt" -> {"q1toreg", "q2totmp", "flags"}
           [] OTHER              -> ExOp(i)

WritesPc(i) == "q1toreg" \in Ex(i) /\ i.reg = PC

\* What an instruction can rely on: registers by their number, and
TMP == 8
FLAGS == 9
SGN == 10            \* the modifier set by sgn
LI == 11             \* the chain of li before it
ACCESS == 12         \* the load or store before it having been issued
MASK == 13           \* being executed at all

Registers == {i.reg : i \in {j \in Program : j.op \notin {"cond", "li"}}} \ {PC}
Resources == Registers \cup {TMP, FLAGS}

\* What an instruction leaves behind, apart from the program counter; a jump
\* loads the flags from the upper bits of its target.
WritesOf(ex, reg) ==
    (IF ex \cap {"q1totmp", "q2totmp", "load"} # {} THEN {TMP} ELSE {})
    \cup (IF ex \cap {"flags", "load"} # {} \/ ("q1toreg" \in ex /\ reg = PC)
          THEN {FLAGS} ELSE {})
    \cup (IF "q1toreg" \in ex /\ reg # PC THEN {reg} ELSE {})

Writes(i) == WritesOf(Ex(i), i.reg)

\* An instruction in E, M or W.  wrong: which of the things it relied on were
\* not what sequential execution gives.  pass: the outcome of a cond.  final: in
\* M, what the ALU shows is its result.
Empty(t) == [ex |-> {}, reg |-> 0, thread |-> t, live |-> FALSE, newest |-> {},
             wrong |-> {}, pass |-> TRUE, final |-> FALSE]

WritesTmp(s, t)   == s.thread = t /\ s.ex \cap {"q1totmp", "q2totmp", "load"} # {}
WritesFlags(s, t) == s.thread = t /\ s.ex \cap {"flags", "load"} # {}
WritesGpr(s, t)   == s.thread = t /\ "q1toreg" \in s.ex
LoadStore(s)      == s.ex \cap {"load", "store"} # {}

-----------------------------------------------------------------------------
(* The hazard unit, but for "valid" and "pause".                           *)

\* Faulty variant: does not wait for the word a load brings to W.
HazardTmp_NoW(t) == /\ d_read_tmp[t] /\ ~alu_forward_q2tod1
                    /\ WritesTmp(e, t) \/ WritesTmp(m, t)

HazardTmp(t) == /\ d_read_tmp[t] /\ ~alu_forward_q2tod1
                /\ WritesTmp(e, t) \/ WritesTmp(m, t) \/ WritesTmp(w, t)

\* Faulty variant: only a load in E may write to tmp out of order.
HazardLoadWrTmp_OnlyE(t) == "q2totmp" \in Ex(d[t]) /\ "load" \in e.ex

HazardLoadWrTmp(t) == /\ "q2totmp" \in Ex(d[t])
                      /\ "load" \in e.ex \cup m.ex \cup w.ex

HazardReg(t) == /\ d_read_reg[t]
                /\ \/ WritesGpr(e, t) /\ e.reg = d[t].reg
                   \/ WritesGpr(m, t) /\ m.reg = d[t].reg

HazardPc(t) == \/ WritesGpr(e, t) /\ e.reg = PC
               \/ WritesGpr(m, t) /\ m.reg = PC

\* Faulty variant: the load or store in M is forgotten.
HazardLoad_NoM(t) == /\ Ex(d[t]) \cap {"load", "store"} # {}
                     /\ LoadStore(e) \/ LoadStore(w)

\* Faulty variant: the loads and stores of the other thread are forgotten.
HazardLoad_OwnThread(t) == /\ Ex(d[t]) \cap {"load", "store"} # {}
                           /\ \E s \in {e, m, w} : LoadStore(s) /\ s.thread = t

HazardLoad(t) == /\ Ex(d[t]) \cap {"load", "store"} # {}
                 /\ LoadStore(e) \/ m_loadstore \/ LoadStore(w)

\* Faulty variant: does not wait for the flags that a load sets in W.
HazardFlags_NoW(t) == /\ Ex(d[t]) \cap {"cond", "sgn"} # {}
                      /\ WritesFlags(e, t) \/ WritesFlags(m, t)

HazardFlags(t) == /\ Ex(d[t]) \cap {"cond", "sgn"} # {}
                  /\ WritesFlags(e, t) \/ WritesFlags(m, t) \/ WritesFlags(w, t)

Hazard(t) == \/ HazardTmp(t) \/ HazardLoadWrTmp(t) \/ HazardReg(t)
             \/ HazardPc(t) \/ HazardLoad(t) \/ HazardFlags(t)

\* Faulty variant: an idle shifter counts as an answer.
alu_ack_Idle == shiftack \/ busyflag \/ ~shifting

alu_ack == shiftack \/ busyflag
stall   == "waitalu" \in e.ex /\ ~alu_ack

\* The threads that have an opcode ready are a matter of the fetch unit; it has
\* none in the cycle after a jump.
CanHaveOpcode == {t \in Threads : ~setpc[t]}

\* Faulty variant: the other thread may come between one li and the next.
MayDispatch_Li(t, valid) ==
    /\ t \in valid /\ ~pause[t] /\ ~Hazard(t)
    /\ \A u \in Threads \ {t} :
         \/ e.thread = t
         \/ pause[u]
         \/ (Hazard(u) \/ u \notin valid) /\ ~alu_forward_q2tod1

\* A thread goes on as long as it can; the other one may take its place when it
\* is blocked, but not in the middle of a chain of li or of a forwarded result.
MayDispatch(t, valid) ==
    /\ t \in valid /\ ~pause[t] /\ ~Hazard(t)
    /\ \A u \in Threads \ {t} :
         \/ e.thread = t
         \/ pause[u]
         \/ (Hazard(u) \/ u \notin valid) /\ alu_op # "li" /\ ~alu_forward_q2tod1

-----------------------------------------------------------------------------
(* Sequential execution, at the moment an instruction leaves D.            *)

\* The values the instruction reads; a mr names tmp twice and uses it once.
\* The interrupt's xor reads the flags along with the program counter.
Reads(i) ==
    IF i.op = "bubble" THEN {}
    ELSE IF i.op = "interrupt" THEN {FLAGS}
    ELSE {CASE r = "tmp" -> TMP
            [] r = "gpr" -> i.reg
            [] OTHER     -> PC : r \in {AluReg1(i), AluReg2(i)}} \ {PC}

\* A thread whose condition failed; entering the interrupt routine overrides it.
Masked(t) == flag_cond[t] /\ ~gpr7_readflags[t]

Live(t) == d[t].op # "bubble" /\ ~skipping[t]

NextStreak == alu_op = "li" /\ (immediatestreak \/ alu_req)

\* What the instruction in D would get wrong if it left now: an old value of an
\* operand, the sign modifier of another instruction, a chain of li taken up or
\* broken off; ACCESS if the load or store before it were lost, MASK if it were
\* masked although it is to be executed.
Wrong(t) ==
    {r \in Reads(d[t]) \ current[t] :
        ~(r = TMP /\ AluReg1(d[t]) = "tmp" /\ alu_forward_q2tod1 /\ aluTmp = t)}
    \cup {x \in {SGN} : UsesSgn(d[t]) /\ flag_sgn[t] # sgnNow[t]}
    \cup {x \in {LI} : d[t].op = "li" /\ NextStreak # prevLi[t]}
    \cup {x \in {MASK} : d[t].op # "cond" /\ Masked(t)}
    \cup {x \in {ACCESS} : Ex(d[t]) \cap {"load", "store"} # {} /\ accessDue}

NextSkipping(t, pass) ==
    CASE d[t].op = "cond" -> d[t].reg # NEX /\ ~pass
      [] WritesPc(d[t])   -> FALSE
      [] OTHER            -> skipping[t]

\* The condition may turn out either way; NEX and EX have none.
Outcomes(i) == IF i.op = "cond" /\ i.reg \notin {NEX, EX} THEN BOOLEAN ELSE {TRUE}

-----------------------------------------------------------------------------
(* From D to E.                                                            *)

\* Faulty variant: only another cond ends the skipping.
EndsSkip_Cond(t) == Masked(t) /\ d[t].op = "cond"

\* What ends the skipping: a cond, or what would have written to PC ("we
\* replace it with cond, which [...] equates to cond EX").
EndsSkip(t) == Masked(t) /\ (d[t].op = "cond" \/ WritesPc(d[t]))

\* Faulty variant: what is skipped goes to E as it is.
ToE_Unmasked(t, pass) ==
    [ex |-> IF EndsSkip(t) THEN {"cond"} ELSE Ex(d[t]),
     reg |-> d[t].reg, thread |-> t,
     live |-> Live(t),
     newest |-> IF Live(t) THEN Writes(d[t]) ELSE {},
     wrong |-> IF Live(t) THEN Wrong(t) ELSE {},
     pass |-> pass,
     final |-> FALSE]

\* What D hands to E.
ToE(t, pass) ==
    [ex |-> IF EndsSkip(t) THEN {"cond"} ELSE IF Masked(t) THEN {} ELSE Ex(d[t]),
     reg |-> d[t].reg, thread |-> t,
     live |-> Live(t),
     newest |-> IF Live(t) THEN Writes(d[t]) ELSE {},
     wrong |-> IF Live(t) THEN Wrong(t) ELSE {},
     pass |-> pass,
     final |-> FALSE]

\* Faulty variant: does not see that the instruction before it jumps.
TakesInterrupt_Jump(t, next) ==
    /\ Interrupts /\ InterruptThread = t
    /\ Interruptable(next) /\ interrupt /\ ~flag_cond[t]
    /\ d[t].op \notin {"cond", "li"}
    /\ ~flag_interrupting[t]

TakesInterrupt(t, next) ==
    /\ Interrupts /\ InterruptThread = t
    /\ Interruptable(next) /\ interrupt /\ ~flag_cond[t]
    /\ "q1toreg" \notin Ex(d[t]) /\ d[t].reg # PC
    /\ d[t].op \notin {"cond", "li"}
    /\ ~flag_interrupting[t]

-----------------------------------------------------------------------------
(* The part of a clock edge that does not depend on what is dispatched but *)
(* for "out": the set that holds the thread that dispatches, if any; next  *)
(* is the opcode fetched behind it.                                        *)

\* s without what the instruction that leaves D overtakes.
Overtaken(s, out) == IF s.thread \in out /\ Live(s.thread)
                     THEN [s EXCEPT !.newest = @ \ Writes(d[s.thread])] ELSE s

AluReady == ("waitalu" \in e.ex \/ "postinc" \in e.ex) => ~alu_req /\ ~shifting

\* Faulty variant: what was in E when the condition failed goes on to M.
MemStage_NoMask(out, leaves) ==
    /\ m' = [Overtaken(e, out) EXCEPT !.final = leaves /\ AluReady]
    /\ m_loadstore' = LoadStore(e)

MemStage(out, leaves) ==
    /\ m' = IF Masked(e.thread) THEN Empty(e.thread)
            ELSE [Overtaken(e, out) EXCEPT !.final = leaves /\ AluReady]
    /\ m_loadstore' = LoadStore(e)

\* Faulty variant: issued only together with the answer to another access.
Issue_Acked == LoadStore(m) /\ ~ls_req_r /\ ls_ack

Issue == LoadStore(m) /\ ~ls_req_r

\* Faulty variant: an answered load stays in W until another one comes.
WriteStage_NotCleared(out) ==
    /\ w' = IF LoadStore(m) /\ ~(ls_req_r /\ ~ls_ack) THEN Overtaken(m, out)
            ELSE Overtaken(w, out)
    /\ ls_req_r' = (Issue \/ (ls_req_r /\ ~(ls_ack /\ LoadStore(w))))
    /\ ls_age' = IF Issue THEN 0 ELSE IF ls_age < MinLatency THEN ls_age + 1 ELSE ls_age
    /\ ls_ack' \in (IF ls_req_r /\ ~ls_ack /\ ls_age = MinLatency THEN BOOLEAN ELSE {FALSE})

WriteStage(out) ==
    /\ w' = IF ls_req_r /\ ~ls_ack THEN Overtaken(w, out)
            ELSE IF LoadStore(m) THEN Overtaken(m, out) ELSE Empty(m.thread)
    /\ ls_req_r' = (Issue \/ (ls_req_r /\ ~(ls_ack /\ LoadStore(w))))
    /\ ls_age' = IF Issue THEN 0 ELSE IF ls_age < MinLatency THEN ls_age + 1 ELSE ls_age
    /\ ls_ack' \in (IF ls_req_r /\ ~ls_ack /\ ls_age = MinLatency THEN BOOLEAN ELSE {FALSE})

\* The shifter takes one bit a cycle.
Shifter ==
    \/ alu_req /\ alu_op = "shift" /\ shifting' = TRUE /\ shiftack' = FALSE
    \/ ~(alu_req /\ alu_op = "shift") /\ shifting /\ shifting' \in BOOLEAN
       /\ shiftack' = ~shifting'
    \/ ~(alu_req /\ alu_op = "shift") /\ ~shifting /\ shifting' = FALSE
       /\ shiftack' = FALSE

Alu == /\ immediatestreak' = NextStreak
       /\ busyflag' = (alu_req /\ alu_op \in {"inc", "mul"})
       /\ Shifter

\* M writes a register; in a post-increment only in the second of its cycles.
WritesBack == "q1toreg" \in m.ex /\ ("postinc" \notin m.ex \/ ~alu_ack)

MWrites == WritesOf(m.ex \ (IF WritesBack THEN {"load"} ELSE {"load", "q1toreg"}), m.reg)
WWrites == IF "load" \in w.ex /\ ls_ack THEN {TMP, FLAGS} ELSE {}

\* What of it belongs there: only what the newest writer writes, only the
\* result of the ALU, and for a load only what comes from memory.
MRight == IF ~m.final THEN {}
          ELSE (MWrites \cap m.newest) \ (IF "load" \in m.ex THEN {TMP, FLAGS} ELSE {})
WRight == (WWrites \cap w.newest) \ (IF w.thread = m.thread THEN MWrites ELSE {})

Written(t) == (IF m.thread = t THEN MWrites ELSE {}) \cup (IF w.thread = t THEN WWrites ELSE {})
Right(t)   == (IF m.thread = t THEN MRight ELSE {}) \cup (IF w.thread = t THEN WRight ELSE {})

PauseNow == "cond" \in e.ex /\ e.reg = NEX

\* sig is the overload that has the halfword bit without the flags bit.
Sig == Threads = {1, 2} /\ "halfword" \in e.ex /\ "flags" \notin e.ex

\* Both threads are woken when interruptthread is 1, none when it is 2.
InterruptWakes == interrupt /\ InterruptThread = 1

NextPause(t) == \/ PauseNow /\ e.thread = t
                \/ pause[t] /\ ~InterruptWakes /\ ~Sig

NextFlagCond(t, out) ==
    IF "cond" \in e.ex /\ e.thread = t /\ e.reg # NEX THEN ~e.pass
    ELSE flag_cond[t] /\ ~(t \in out /\ EndsSkip(t))

\* The interrupt line is held until the interrupt is taken; where the core takes
\* none, any pulse is allowed.
InterruptLine ==
    interrupt' \in (IF interrupt /\ Interrupts /\ ~flag_interrupting[InterruptThread]
                    THEN {TRUE} ELSE IrqLevels)

Edge(out, next, leaves) ==
    /\ MemStage(out, leaves) /\ WriteStage(out) /\ Alu /\ InterruptLine
    /\ setpc' = [t \in Threads |-> WritesBack /\ m.reg = PC /\ m.thread = t]
    /\ pause' = [t \in Threads |-> NextPause(t)]
    /\ flag_cond' = [t \in Threads |-> NextFlagCond(t, out)]
    /\ flag_sgn' = [t \in Threads |->
           /\ ~("flags" \in m.ex /\ m.thread = t)
           /\ flag_sgn[t] \/ (t \in out /\ "sgn" \in Ex(d[t]))]
    /\ flag_interrupting' = [t \in Threads |->
           interrupt /\ (flag_interrupting[t] \/ (t \in out /\ TakesInterrupt(t, next)))]
    /\ gpr7_readflags' = [t \in Threads |->
           ~setpc[t] /\ (gpr7_readflags[t] \/ (t \in out /\ TakesInterrupt(t, next)))]
    /\ current' = [t \in Threads |->
           ((current[t] \ Written(t)) \cup Right(t))
           \ (IF t \in out /\ Live(t) THEN Writes(d[t]) ELSE {})]

-----------------------------------------------------------------------------
(* The clock edges.                                                        *)

\* The opcodes that may be fetched behind what is in D.
Fetched(t) == IF d[t] \in Program THEN {i \in Program : <<d[t], i>> \in Adjacent}
              ELSE Program

\* In the cycle after a jump the instruction that was fetched behind it is dropped.
Flushed == [t \in Threads |-> IF setpc[t] THEN Bubble(d[t].reg) ELSE d[t]]

\* The thread advances: D to E, and the fetched opcode to D.
Dispatch(t, next, pass) ==
    /\ ~stall /\ ~e_continue
    /\ e' = ToE(t, pass)
    /\ e_continue' = ("postinc" \in Ex(d[t]) /\ ~flag_cond[t])
    /\ alu_op' = AluFunc(d[t])
    /\ alu_req' = (gpr7_readflags[t] \/ ~flag_cond[t])
    /\ alu_forward_q2tod1' =
           /\ ~flag_cond[t] /\ ~interrupt
           /\ "q2totmp" \in Ex(d[t]) /\ AluReg1(next) = "tmp"
           /\ ~PauseNow
    /\ d' = [Flushed EXCEPT ![t] = IF TakesInterrupt(t, next) THEN IntXor ELSE next]
    /\ d_read_tmp' = [d_read_tmp EXCEPT ![t] = "tmp" \in {AluReg1(next), AluReg2(next)}]
    /\ d_read_reg' = [d_read_reg EXCEPT ![t] = "gpr" \in {AluReg1(next), AluReg2(next)}]
    /\ skipping' = [skipping EXCEPT ![t] = NextSkipping(t, pass)]
    /\ sgnNow' = [sgnNow EXCEPT ![t] =
           IF ~Live(t) THEN @
           ELSE "sgn" \in Ex(d[t]) \/ (@ /\ "flags" \notin Ex(d[t]))]
    /\ prevLi' = [prevLi EXCEPT ![t] = Live(t) /\ d[t].op = "li"]
    /\ aluTmp' = IF Live(t) /\ "q2totmp" \in Ex(d[t]) THEN t ELSE 0
    /\ accessDue' = IF Live(t) /\ Ex(d[t]) \cap {"load", "store"} # {} THEN TRUE
                    ELSE accessDue /\ ~Issue
    /\ Edge({t}, next, TRUE)

\* Nothing is dispatched: what sequential execution knows stays as it is.
NoDispatch(leaves) ==
    /\ alu_req' = FALSE
    /\ accessDue' = (accessDue /\ ~Issue)
    /\ d' = Flushed
    /\ alu_forward_q2tod1' = (alu_forward_q2tod1 /\ ~PauseNow)
    /\ UNCHANGED <<d_read_tmp, d_read_reg, alu_op, skipping, sgnNow, prevLi, aluTmp>>
    /\ Edge({}, Bubble(0), leaves)

\* Neither thread can continue: a bubble goes to E.
InsertBubble ==
    /\ ~stall /\ ~e_continue
    /\ e' = Empty(e.thread)
    /\ e_continue' = FALSE
    /\ NoDispatch(TRUE)

\* E waits for the ALU, or is in the first half of a post-increment.
Hold ==
    /\ stall \/ e_continue
    /\ e' = e
    /\ e_continue' = (e_continue /\ ~alu_ack)
    /\ NoDispatch(FALSE)

Init ==
    /\ interrupt = FALSE
    /\ d = [t \in Threads |-> Bubble(0)]
    /\ d_read_tmp = [t \in Threads |-> FALSE] /\ d_read_reg = [t \in Threads |-> FALSE]
    /\ setpc = [t \in Threads |-> TRUE] /\ pause = [t \in Threads |-> FALSE]
    /\ flag_cond = [t \in Threads |-> FALSE] /\ flag_sgn = [t \in Threads |-> FALSE]
    /\ flag_interrupting = [t \in Threads |-> FALSE]
    /\ gpr7_readflags = [t \in Threads |-> FALSE]
    /\ e = Empty(1) /\ e_continue = FALSE
    /\ m = Empty(1) /\ m_loadstore = FALSE /\ w = Empty(1)
    /\ alu_op = "other" /\ alu_req = FALSE /\ alu_forward_q2tod1 = FALSE
    /\ immediatestreak = FALSE
    /\ busyflag = FALSE /\ shiftack = FALSE /\ shifting = FALSE
    /\ ls_req_r = FALSE /\ ls_ack = FALSE /\ ls_age = 0
    /\ skipping = [t \in Threads |-> FALSE] /\ sgnNow = [t \in Threads |-> FALSE]
    /\ prevLi = [t \in Threads |-> FALSE] /\ aluTmp = 0
    /\ current = [t \in Threads |-> Resources] /\ accessDue = FALSE

\* The thread that goes on, if any, when those in valid have an opcode: thread 1
\* comes first.
Dispatching(valid) == {t \in Threads :
    MayDispatch(t, valid) /\ \A u \in Threads : u < t => ~MayDispatch(u, valid)}

\* When no thread has an opcode, none goes on.
Next ==
    \/ \E t \in UNION {Dispatching(valid) : valid \in SUBSET CanHaveOpcode} :
         \E next \in Fetched(t), pass \in Outcomes(d[t]) : Dispatch(t, next, pass)
    \/ InsertBubble
    \/ Hold

Spec == Init /\ [][Next]_vars

\* The clock does not stop, a shift comes to its end and every load and store is
\* answered.
Fairness == WF_vars(Next) /\ WF_vars(Next /\ ls_ack') /\ WF_vars(Next /\ shiftack')

FairSpec == Spec /\ Fairness

-----------------------------------------------------------------------------
(* What the core promises.                                                 *)

Stage == [ex : SUBSET ExBits, reg : 0 .. 7, thread : Threads, live : BOOLEAN,
          newest : SUBSET Resources, wrong : SUBSET (Resources \cup {SGN, LI, ACCESS, MASK}),
          pass : BOOLEAN, final : BOOLEAN]

\* The registers hold values of their types.
TypeOK ==
    /\ d \in [Threads -> Program \cup {IntXor} \cup {Bubble(r) : r \in 0 .. 7}]
    /\ {d_read_tmp, d_read_reg, setpc, pause, flag_cond, flag_sgn, flag_interrupting,
        gpr7_readflags, skipping, sgnNow, prevLi} \subseteq [Threads -> BOOLEAN]
    /\ {e, m, w} \subseteq Stage
    /\ {interrupt, e_continue, m_loadstore, alu_req, alu_forward_q2tod1, immediatestreak,
        busyflag, shiftack, shifting, ls_req_r, ls_ack, accessDue} \subseteq BOOLEAN
    /\ alu_op \in {"inc", "shift", "mul", "li", "other"} /\ ls_age \in 0 .. MinLatency
    /\ current \in [Threads -> SUBSET Resources] /\ aluTmp \in {0} \cup Threads

\* An instruction that is executed was given the values of tmp and of its
\* register that the instructions before it have left there: it never reads too
\* early, nor what a later or a skipped instruction or the other thread wrote.
OperandsCurrent == e.wrong \subseteq {SGN, LI, ACCESS, MASK, FLAGS}

\* The condition of a cond is evaluated on the flags of the last instruction
\* before it that sets them.
CondSeesFlags == "cond" \in e.ex /\ e.reg \notin {NEX, EX} => FLAGS \in current[e.thread]

\* "Cond - set if a "cond" instruction's predicates weren't met, and thus
\* instructions should be skipped over.  Cleared by either a subsequent "cond"
\* instruction or by passing an instruction that would have changed program flow."
SkipIsExact == \A t \in Threads :
    skipping[t] = IF "cond" \in e.ex /\ e.thread = t /\ e.reg # NEX THEN ~e.pass
                  ELSE flag_cond[t]

\* What is skipped leaves no trace in the registers and the flags, and what is
\* not skipped is not lost on its way from E to M.
SkippedLeavesNoTrace ==
    /\ WritesOf(m.ex, m.reg) # {} => m.live
    /\ MASK \notin e.wrong
    /\ e.live /\ e.ex # {"cond"} => ~Masked(e.thread)

\* sig acts in E, where the skip flag does not stop it.  One that is skipped can
\* wake the other thread only if it stands right behind the cond that fails and
\* leaves D in the very cycle in which that cond is in E: any later, after a
\* stall, a bubble or another instruction, and it has been masked.
SkippedSigFollowsCond ==
    [][Sig' /\ ~e'.live => /\ "cond" \in e.ex /\ e.reg # NEX /\ ~e.pass
                           /\ e.thread = e'.thread]_vars

\* Instructions that are skipped have no effect: a sig wakes the other thread only
\* if it is executed.
SigIsExecuted == Sig => e.live

\* A multiplication or a shift leaves E only when the ALU has its result.
StallIsLongEnough == "waitalu" \in e.ex /\ ~stall => AluReady

\* Every load and store that is executed is issued to the memory, once, and no
\* other one is: none is dropped because one is outstanding, and the cycles of a
\* post-increment do not repeat it.
AccessOnce == ACCESS \notin e.wrong /\ (Issue => accessDue)

\* "If the previous instruction was also "li" then tmp is shifted six bits left":
\* a chain of li is neither broken by bubbles nor by the other thread, and does
\* not take up the chain of another thread.
LiChain == LI \notin e.wrong

\* "Sign - set by the "sgn" instruction, and cleared by the next ALU instruction."
SgnIsForNext == SGN \notin e.wrong

\* The return address carries the flags the interrupted program had.
InterruptSavesFlags == FLAGS \notin e.wrong

\* s holds the xor by which the interrupt routine is entered.
HoldsIntXor(s, t) == s.thread = t /\ s.ex = {"q1toreg", "q2totmp", "flags"} /\ s.reg = PC

\* An interrupt that has been taken is entered: no jump that was under way flushes
\* the xor out of D, no condition that fails masks it there or in E, and it
\* gets to the program counter.
InterruptIsEntered ==
    [][\A t \in Threads :
         /\ d[t] = IntXor => d'[t] = IntXor \/ HoldsIntXor(e', t)
         /\ HoldsIntXor(e, t) => HoldsIntXor(m', t)
         /\ HoldsIntXor(m, t) => setpc'[t]]_vars

\* "A momentary high pulse on the interrupt signal will unpause the CPU if it's
\* been paused with "cond NEX"", and be it in this cycle.
PulseUnpauses ==
    [][\A t \in Threads : interrupt /\ (pause[t] \/ (PauseNow /\ e.thread = t))
                            => ~pause'[t]]_vars

\* No hazard lasts: again and again a thread could go on if it had an opcode.
HazardsClear == \A t \in Threads : []<>(~Hazard(t) /\ ~stall /\ ~e_continue)

\* A load or store that was dispatched is issued.
AccessIssued == accessDue ~> Issue
=============================================================================
