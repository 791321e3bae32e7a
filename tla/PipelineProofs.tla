---------------------------- MODULE PipelineProofs ----------------------------
(***************************************************************************)
(* Proofs about Pipeline, for one or two threads and any program.          *)
(***************************************************************************)
EXTENDS PipelinePrograms, TLAPS

-----------------------------------------------------------------------------
(* What the decoder produces.                                              *)

\* Every opcode is decoded to control bits.
LEMMA ExOpType ==
  ASSUME NEW i \in Instruction
  PROVE  ExOp(i) \subseteq ExBits
  BY DEF ExOp, OverloadedEx, Instruction, Opcodes, ExBits, PC

\* cond does nothing else, and nothing else is cond.
LEMMA ExOpCond ==
  ASSUME NEW i \in Instruction
  PROVE  /\ i.op = "cond" => ExOp(i) = {"cond"}
         /\ "cond" \in ExOp(i) => i.op = "cond"
  BY DEF ExOp, OverloadedEx, Instruction, Opcodes, PC

\* A post-increment is a load or store on the ALU function inc, and conversely.
LEMMA ExOpPostinc ==
  ASSUME NEW i \in Instruction
  PROVE  /\ "postinc" \in ExOp(i) <=> AluFunc(i) = "inc"
         /\ "postinc" \in ExOp(i) => ExOp(i) \cap {"load", "store"} # {}
  BY DEF ExOp, OverloadedEx, Instruction, Opcodes, AluFunc, PC

\* sig, known by its control bits, does nothing else.
LEMMA ExOpSig ==
  ASSUME NEW i \in Instruction, "halfword" \in ExOp(i), "flags" \notin ExOp(i)
  PROVE  ExOp(i) = {"halfword"}
  BY DEF ExOp, OverloadedEx, Instruction, Opcodes, PC

\* Only multiplications and shifts wait for the ALU, and all of them but byt do.
LEMMA ExOpWaits ==
  ASSUME NEW i \in Instruction
  PROVE  /\ "waitalu" \in ExOp(i) => /\ AluFunc(i) \in {"shift", "mul"}
                                     /\ ExOp(i) \cap {"load", "store", "cond"} = {}
         /\ AluFunc(i) = "shift" => "waitalu" \in ExOp(i)
         /\ AluFunc(i) = "mul" /\ "waitalu" \notin ExOp(i) => i.op = "mul" /\ i.reg = PC
  BY DEF ExOp, OverloadedEx, Instruction, Opcodes, AluFunc, PC

\* What writes a register, reads one or waits for the ALU names it.
LEMMA ExOpRegister ==
  ASSUME NEW i \in Instruction,
         "q1toreg" \in ExOp(i) \/ "gpr" \in {AluReg1(i), AluReg2(i)}
  PROVE  i.op \notin {"cond", "li"}
  BY DEF ExOp, OverloadedEx, Instruction, Opcodes, AluReg1, AluReg2, PC

\* The functions of the ALU.
LEMMA AluFuncType ==
  ASSUME NEW i \in Instruction
  PROVE  AluFunc(i) \in {"inc", "shift", "mul", "li", "other"}
  BY DEF AluFunc

-----------------------------------------------------------------------------
(* Types.                                                                  *)

\* What D may hold.
InD == Program \cup {IntXor} \cup {Bubble(r) : r \in 0 .. 7}

\* The three kinds of it.
LEMMA InDCases ==
  ASSUME NEW i \in InD
  PROVE  \/ i \in Instruction /\ i \in Program /\ Ex(i) = ExOp(i)
            /\ i.op \notin {"bubble", "interrupt"}
         \/ i = IntXor /\ i.op = "interrupt" /\ i.reg = PC
            /\ Ex(i) = {"q1toreg", "q2totmp", "flags"}
         \/ i.op = "bubble" /\ i.reg \in 0 .. 7 /\ Ex(i) = {}
  <1>1. CASE i \in Program
    <2>1. i \in Instruction
      BY <1>1, ProgramAssumption
    <2>2. i.op \in Opcodes
      BY <2>1 DEF Instruction
    <2>3. i.op \notin {"bubble", "interrupt"}
      BY <2>2 DEF Opcodes
    <2> QED BY <1>1, <2>1, <2>3 DEF Ex
  <1>2. CASE i = IntXor
    BY <1>2 DEF IntXor, Ex
  <1>3. CASE i \in {Bubble(r) : r \in 0 .. 7}
    BY <1>3 DEF Bubble, Ex
  <1> QED BY <1>1, <1>2, <1>3 DEF InD

\* Its register number and its control bits.
LEMMA InDType ==
  ASSUME NEW i \in InD
  PROVE  i.reg \in 0 .. 7 /\ Ex(i) \subseteq ExBits
  <1>1. CASE i \in Instruction /\ Ex(i) = ExOp(i)
    BY <1>1, ExOpType DEF Instruction
  <1>2. CASE i.reg = PC /\ Ex(i) = {"q1toreg", "q2totmp", "flags"}
    BY <1>2 DEF PC, ExBits
  <1> QED BY <1>1, <1>2, InDCases

\* What an instruction writes are the resources of the program.
LEMMA WritesType ==
  ASSUME NEW i \in InD
  PROVE  Writes(i) \subseteq Resources
  <1>1. ASSUME "q1toreg" \in Ex(i), i.reg # PC PROVE i.reg \in Registers
    <2>1. i \in Instruction /\ i \in Program /\ "q1toreg" \in ExOp(i)
      BY <1>1, InDCases
    <2>2. i.op \notin {"cond", "li"}
      BY <2>1, ExOpRegister
    <2> QED BY <1>1, <2>1, <2>2 DEF Registers
  <1>2. Writes(i) \subseteq {TMP, FLAGS} \cup {r \in {i.reg} : "q1toreg" \in Ex(i) /\ r # PC}
    BY DEF Writes, WritesOf
  <1> QED BY <1>1, <1>2 DEF Resources

\* So are those that it reads.
LEMMA ReadsType ==
  ASSUME NEW i \in InD
  PROVE  Reads(i) \subseteq Resources
  <1>1. CASE i.op = "bubble"
    BY <1>1 DEF Reads
  <1>2. CASE i.op = "interrupt"
    BY <1>2 DEF Reads, Resources
  <1>3. CASE i.op \notin {"bubble", "interrupt"}
    <2>1. i \in Instruction /\ i \in Program
      BY <1>3, InDCases
    <2>2. ASSUME "gpr" \in {AluReg1(i), AluReg2(i)}, i.reg # PC PROVE i.reg \in Registers
      <3>1. i.op \notin {"cond", "li"}
        BY <2>1, <2>2, ExOpRegister
      <3> QED BY <2>1, <2>2, <3>1 DEF Registers
    <2>3. Reads(i) = {CASE r = "tmp" -> TMP
                        [] r = "gpr" -> i.reg
                        [] OTHER     -> PC : r \in {AluReg1(i), AluReg2(i)}} \ {PC}
      BY <1>3 DEF Reads
    <2>4. ASSUME NEW x \in Reads(i) PROVE x \in Resources
      <3>1. PICK r \in {AluReg1(i), AluReg2(i)} :
              x = CASE r = "tmp" -> TMP [] r = "gpr" -> i.reg [] OTHER -> PC
        BY <2>3, <2>4
      <3>2. x # PC
        BY <2>3, <2>4
      <3> QED BY <2>2, <3>1, <3>2 DEF Resources
    <2> QED BY <2>4
  <1> QED BY <1>1, <1>2, <1>3

\* The parts of TypeOK.
LEMMA Types ==
  ASSUME TypeOK
  PROVE  /\ d \in [Threads -> InD] /\ e \in Stage /\ m \in Stage /\ w \in Stage
         /\ d_read_tmp \in [Threads -> BOOLEAN] /\ d_read_reg \in [Threads -> BOOLEAN]
         /\ setpc \in [Threads -> BOOLEAN] /\ pause \in [Threads -> BOOLEAN]
         /\ flag_cond \in [Threads -> BOOLEAN] /\ flag_sgn \in [Threads -> BOOLEAN]
         /\ flag_interrupting \in [Threads -> BOOLEAN]
         /\ gpr7_readflags \in [Threads -> BOOLEAN]
         /\ skipping \in [Threads -> BOOLEAN] /\ sgnNow \in [Threads -> BOOLEAN]
         /\ prevLi \in [Threads -> BOOLEAN] /\ current \in [Threads -> SUBSET Resources]
  BY DEF TypeOK, InD

\* The fields of a stage.
LEMMA StageType ==
  ASSUME NEW s \in Stage
  PROVE  /\ s.ex \subseteq ExBits /\ s.reg \in 0 .. 7 /\ s.thread \in Threads
         /\ s.live \in BOOLEAN /\ s.newest \subseteq Resources
         /\ s.wrong \subseteq Resources \cup {SGN, LI, ACCESS, MASK}
         /\ s.pass \in BOOLEAN /\ s.final \in BOOLEAN
  BY DEF Stage

\* A stage without an instruction.
LEMMA EmptyType ==
  ASSUME NEW t \in Threads
  PROVE  Empty(t) \in Stage
  BY DEF Empty, Stage

\* An instruction that has been overtaken.
LEMMA OvertakenType ==
  ASSUME NEW s \in Stage, NEW out
  PROVE  Overtaken(s, out) \in Stage
  <1> DEFINE x == Writes(d[s.thread])
  <1>1. [s EXCEPT !.newest = s.newest \ x] \in Stage
    <2> HIDE DEF x
    <2> QED BY DEF Stage
  <1> QED BY <1>1 DEF Overtaken

\* Overtaking changes nothing but who is the newest writer.
LEMMA OvertakenSame ==
  ASSUME NEW s \in Stage, NEW out
  PROVE  /\ Overtaken(s, out).ex = s.ex /\ Overtaken(s, out).reg = s.reg
         /\ Overtaken(s, out).thread = s.thread /\ Overtaken(s, out).live = s.live
         /\ Overtaken(s, out).wrong = s.wrong
  BY DEF Overtaken, Stage

\* What D hands to E.
LEMMA ToEType ==
  ASSUME TypeOK, NEW t \in Threads, NEW pass \in BOOLEAN
  PROVE  ToE(t, pass) \in Stage
  <1> DEFINE i == d[t]
  <1>1. i \in InD
    BY Types
  <1> HIDE DEF i
  <1>2. i.reg \in 0 .. 7 /\ Ex(i) \subseteq ExBits /\ Writes(i) \subseteq Resources
    BY <1>1, InDType, WritesType
  <1>3. Live(t) \in BOOLEAN
    BY DEF Live
  <1>4. Wrong(t) \subseteq Resources \cup {SGN, LI, ACCESS, MASK}
    BY <1>1, ReadsType DEF Wrong, i
  <1>5. {"cond"} \subseteq ExBits
    BY DEF ExBits
  <1> QED BY <1>2, <1>3, <1>4, <1>5 DEF ToE, Stage, i

\* The three clock edges, and what each asks of the threads.
LEMMA NextCases ==
  ASSUME Next
  PROVE  \/ \E t \in Threads : \E next \in Fetched(t), pass \in Outcomes(d[t]) :
              /\ Dispatch(t, next, pass)
              /\ ~setpc[t] /\ ~pause[t] /\ ~Hazard(t)
         \/ InsertBubble
         \/ Hold
  <1>1. CASE \E t \in UNION {Dispatching(valid) : valid \in SUBSET CanHaveOpcode} :
               \E next \in Fetched(t), pass \in Outcomes(d[t]) : Dispatch(t, next, pass)
    <2>1. PICK t \in UNION {Dispatching(valid) : valid \in SUBSET CanHaveOpcode} :
               \E next \in Fetched(t), pass \in Outcomes(d[t]) : Dispatch(t, next, pass)
      BY <1>1
    <2>2. PICK valid \in SUBSET CanHaveOpcode : t \in Dispatching(valid)
      OBVIOUS
    <2>3. t \in Threads /\ MayDispatch(t, valid)
      BY <2>2 DEF Dispatching
    <2>4. t \in valid /\ ~pause[t] /\ ~Hazard(t)
      BY <2>3 DEF MayDispatch
    <2>5. ~setpc[t]
      BY <2>4 DEF CanHaveOpcode
    <2> QED BY <2>1, <2>3, <2>4, <2>5
  <1> QED BY <1>1 DEF Next

\* The opcode fetched and the outcome of a cond.
LEMMA FetchedType ==
  ASSUME NEW t \in Threads, NEW next \in Fetched(t), NEW pass \in Outcomes(d[t])
  PROVE  /\ next \in Program /\ next \in Instruction /\ next \in InD
         /\ pass \in BOOLEAN
  <1>1. next \in Program
    BY DEF Fetched
  <1>2. pass \in BOOLEAN
    BY DEF Outcomes
  <1> QED BY <1>1, <1>2, ProgramAssumption DEF InD

\* A flush leaves bubbles.
LEMMA FlushedType ==
  ASSUME TypeOK
  PROVE  Flushed \in [Threads -> InD]
  <1>1. ASSUME NEW t \in Threads PROVE Flushed[t] \in InD
    <2>1. d[t] \in InD
      BY Types
    <2>2. d[t].reg \in 0 .. 7
      BY <2>1, InDType
    <2>3. Bubble(d[t].reg) \in InD
      BY <2>2 DEF InD
    <2>4. Flushed[t] = IF setpc[t] THEN Bubble(d[t].reg) ELSE d[t]
      BY DEF Flushed
    <2> QED BY <2>1, <2>3, <2>4
  <1> QED BY <1>1 DEF Flushed

\* What is written by M and W and belongs there are resources.
LEMMA RightType ==
  ASSUME TypeOK, NEW t \in Threads
  PROVE  Right(t) \subseteq Resources
  <1>1. m.newest \subseteq Resources /\ w.newest \subseteq Resources
    BY Types, StageType
  <1>2. MRight \subseteq Resources
    BY <1>1 DEF MRight
  <1>3. WRight \subseteq Resources
    BY <1>1 DEF WRight
  <1> QED BY <1>2, <1>3 DEF Right

\* The part of a clock edge that all three have in common keeps the types.
LEMMA EdgeType ==
  ASSUME TypeOK, NEW out, NEW next, NEW leaves \in BOOLEAN, Edge(out, next, leaves)
  PROVE  /\ {m', w'} \subseteq Stage
         /\ {interrupt', m_loadstore', immediatestreak', busyflag', shiftack',
             shifting', ls_req_r', ls_ack'} \subseteq BOOLEAN
         /\ ls_age' \in 0 .. MinLatency
         /\ {setpc', pause', flag_cond', flag_sgn', flag_interrupting',
             gpr7_readflags'} \subseteq [Threads -> BOOLEAN]
         /\ current' \in [Threads -> SUBSET Resources]
  <1>1. m' \in Stage
    <2>1. Overtaken(e, out) \in Stage /\ Empty(e.thread) \in Stage
      BY Types, StageType, OvertakenType, EmptyType
    <2>2. AluReady \in BOOLEAN
      BY DEF AluReady
    <2>3. [Overtaken(e, out) EXCEPT !.final = leaves /\ AluReady] \in Stage
      BY <2>1, <2>2 DEF Stage
    <2> QED BY <2>1, <2>3 DEF Edge, MemStage
  <1>2. w' \in Stage
    <2>1. /\ Overtaken(m, out) \in Stage /\ Overtaken(w, out) \in Stage
          /\ Empty(m.thread) \in Stage
      BY Types, StageType, OvertakenType, EmptyType
    <2> QED BY <2>1 DEF Edge, WriteStage
  <1>3. interrupt' \in BOOLEAN
    BY InterruptAssumption DEF Edge, InterruptLine
  <1>4. m_loadstore' \in BOOLEAN
    BY DEF Edge, MemStage, LoadStore
  <1>5. immediatestreak' \in BOOLEAN /\ busyflag' \in BOOLEAN
    BY DEF Edge, Alu, NextStreak, TypeOK
  <1>6. shiftack' \in BOOLEAN /\ shifting' \in BOOLEAN
    BY DEF Edge, Alu, Shifter
  <1>7. ls_req_r' \in BOOLEAN /\ ls_ack' \in BOOLEAN
    BY DEF Edge, WriteStage, TypeOK
  <1>8. ls_age' \in 0 .. MinLatency
    <2>1. ls_age \in 0 .. MinLatency
      BY DEF TypeOK
    <2> QED BY <2>1 DEF Edge, WriteStage, MinLatency
  <1>9. setpc' \in [Threads -> BOOLEAN] /\ pause' \in [Threads -> BOOLEAN]
    BY DEF Edge, NextPause
  <1>10. flag_cond' \in [Threads -> BOOLEAN]
    <2>1. ASSUME NEW t \in Threads PROVE NextFlagCond(t, out) \in BOOLEAN
      BY DEF NextFlagCond
    <2> QED BY <2>1 DEF Edge
  <1>11. flag_sgn' \in [Threads -> BOOLEAN]
    BY DEF Edge
  <1>12. /\ flag_interrupting' \in [Threads -> BOOLEAN]
         /\ gpr7_readflags' \in [Threads -> BOOLEAN]
    BY DEF Edge
  <1>13. current' \in [Threads -> SUBSET Resources]
    <2>1. ASSUME NEW t \in Threads
          PROVE  ((current[t] \ Written(t)) \cup Right(t)) \subseteq Resources
      BY <2>1, Types, RightType
    <2> QED BY <2>1 DEF Edge
  <1> QED BY <1>1, <1>2, <1>3, <1>4, <1>5, <1>6, <1>7, <1>8, <1>9, <1>10, <1>11, <1>12,
            <1>13

\* The types hold initially.
LEMMA InitType == Init => TypeOK
  <1> SUFFICES ASSUME Init PROVE TypeOK
    OBVIOUS
  <1>1. 1 \in Threads
    BY ThreadsAssumption
  <1>2. d \in [Threads -> InD]
    <2>1. Bubble(0) \in InD
      BY DEF InD
    <2> QED BY <2>1 DEF Init
  <1>3. Empty(1) \in Stage
    BY <1>1, EmptyType
  <1>4. {e, m, w} \subseteq Stage
    BY <1>3 DEF Init
  <1>5. {d_read_tmp, d_read_reg, setpc, pause, flag_cond, flag_sgn, flag_interrupting,
         gpr7_readflags, skipping, sgnNow, prevLi} \subseteq [Threads -> BOOLEAN]
    BY DEF Init
  <1>6. ls_age \in 0 .. MinLatency
    BY DEF Init, MinLatency
  <1> QED BY <1>2, <1>4, <1>5, <1>6 DEF Init, TypeOK, InD

\* Every clock edge keeps the types.
LEMMA NextType == TypeOK /\ [Next]_vars => TypeOK'
  <1> SUFFICES ASSUME TypeOK, [Next]_vars PROVE TypeOK'
    OBVIOUS
  <1>1. ASSUME NEW t \in Threads, NEW next \in Fetched(t), NEW pass \in Outcomes(d[t]),
               Dispatch(t, next, pass)
        PROVE  TypeOK'
    <2>1. next \in Instruction /\ next \in InD /\ pass \in BOOLEAN
      BY FetchedType
    <2>2. Edge({t}, next, TRUE)
      BY <1>1 DEF Dispatch
    <2>3. e' \in Stage
      BY <1>1, <2>1, ToEType DEF Dispatch
    <2>4. d' \in [Threads -> InD]
      <3>1. IntXor \in InD
        BY DEF InD
      <3>2. (IF TakesInterrupt(t, next) THEN IntXor ELSE next) \in InD
        BY <2>1, <3>1
      <3> QED BY <1>1, <3>2, FlushedType DEF Dispatch
    <2>5. d_read_tmp' \in [Threads -> BOOLEAN] /\ d_read_reg' \in [Threads -> BOOLEAN]
      BY <1>1, Types DEF Dispatch
    <2>6. skipping' \in [Threads -> BOOLEAN]
      <3>1. NextSkipping(t, pass) \in BOOLEAN
        BY <2>1, Types DEF NextSkipping
      <3> QED BY <1>1, <3>1, Types DEF Dispatch
    <2>7. sgnNow' \in [Threads -> BOOLEAN]
      <3>1. (IF ~Live(t) THEN sgnNow[t]
             ELSE "sgn" \in Ex(d[t]) \/ (sgnNow[t] /\ "flags" \notin Ex(d[t]))) \in BOOLEAN
        BY Types
      <3> QED BY <1>1, <3>1, Types DEF Dispatch
    <2>8. prevLi' \in [Threads -> BOOLEAN]
      BY <1>1, Types DEF Dispatch
    <2>9. alu_op' \in {"inc", "shift", "mul", "li", "other"}
      <3>1. AluFunc(d[t]) \in {"inc", "shift", "mul", "li", "other"}
        BY DEF AluFunc
      <3> QED BY <1>1, <3>1 DEF Dispatch
    <2>10. {e_continue', alu_req', alu_forward_q2tod1', accessDue'} \subseteq BOOLEAN
      <3>1. e_continue' \in BOOLEAN /\ alu_req' \in BOOLEAN
        BY <1>1 DEF Dispatch
      <3>2. alu_forward_q2tod1' \in BOOLEAN
        BY <1>1 DEF Dispatch
      <3>3. accessDue' \in BOOLEAN
        BY <1>1 DEF Dispatch
      <3> QED BY <3>1, <3>2, <3>3
    <2>11. aluTmp' \in {0} \cup Threads
      BY <1>1 DEF Dispatch
    <2> QED BY <2>2, <2>3, <2>4, <2>5, <2>6, <2>7, <2>8, <2>9, <2>10, <2>11, EdgeType
            DEF TypeOK, InD
  <1>2. ASSUME NEW leaves \in BOOLEAN, NoDispatch(leaves), e' \in Stage, e_continue' \in BOOLEAN
        PROVE  TypeOK'
    <2>1. Edge({}, Bubble(0), leaves)
      BY <1>2 DEF NoDispatch
    <2>2. d' \in [Threads -> InD]
      BY <1>2, FlushedType DEF NoDispatch
    <2>3. {alu_req', alu_forward_q2tod1', accessDue'} \subseteq BOOLEAN
      <3>1. alu_req' \in BOOLEAN /\ accessDue' \in BOOLEAN
        BY <1>2 DEF NoDispatch
      <3>2. alu_forward_q2tod1' \in BOOLEAN
        BY <1>2 DEF NoDispatch
      <3> QED BY <3>1, <3>2
    <2>4. /\ {d_read_tmp', d_read_reg', skipping', sgnNow', prevLi'} \subseteq [Threads -> BOOLEAN]
          /\ alu_op' \in {"inc", "shift", "mul", "li", "other"}
          /\ aluTmp' \in {0} \cup Threads
      BY <1>2 DEF NoDispatch, TypeOK
    <2> QED BY <1>2, <2>1, <2>2, <2>3, <2>4, EdgeType DEF TypeOK, InD
  <1>3. CASE InsertBubble
    <2>1. Empty(e.thread) \in Stage
      BY Types, StageType, EmptyType
    <2> QED BY <1>2, <1>3, <2>1 DEF InsertBubble
  <1>4. CASE Hold
    <2>1. e' \in Stage /\ e_continue' \in BOOLEAN
      BY <1>4, Types DEF Hold
    <2> QED BY <1>2, <1>4, <2>1 DEF Hold
  <1>5. CASE UNCHANGED vars
    BY <1>5 DEF vars, threadVars, stageVars, aluVars, lsVars, seqVars, TypeOK
  <1> QED BY <1>1, <1>3, <1>4, <1>5, NextCases

\* Whatever the program, the registers of the core hold values of their types.
THEOREM PipelineTypes == Spec => []TypeOK
  BY InitType, NextType, PTL DEF Spec

-----------------------------------------------------------------------------
(* What goes from D to E.                                                  *)

\* The fields that do not depend on whether it is skipped.
LEMMA ToEFields ==
  ASSUME NEW t, NEW pass
  PROVE  /\ ToE(t, pass).reg = d[t].reg /\ ToE(t, pass).thread = t
         /\ ToE(t, pass).live = Live(t) /\ ToE(t, pass).pass = pass
         /\ ToE(t, pass).wrong = IF Live(t) THEN Wrong(t) ELSE {}
  BY DEF ToE

\* What is to be done with it: all of it, nothing, or that of a cond in its place.
LEMMA ToEEx ==
  ASSUME NEW t, NEW pass
  PROVE  \/ ~Masked(t) /\ ToE(t, pass).ex = Ex(d[t])
         \/ Masked(t) /\ EndsSkip(t) /\ ToE(t, pass).ex = {"cond"}
         \/ Masked(t) /\ ~EndsSkip(t) /\ ToE(t, pass).ex = {}
  BY DEF ToE, EndsSkip

\* An opcode with the control bit of a cond is a cond of the program.
LEMMA CondInD ==
  ASSUME NEW i \in InD
  PROVE  /\ "cond" \in Ex(i) => i.op = "cond" /\ Ex(i) = {"cond"}
         /\ i.op = "cond" => i \in Program /\ Ex(i) = {"cond"}
  <1>1. CASE i \in Instruction /\ i \in Program /\ Ex(i) = ExOp(i)
    BY <1>1, ExOpCond
  <1>2. CASE Ex(i) = {"q1toreg", "q2totmp", "flags"} /\ i.op = "interrupt"
    BY <1>2
  <1>3. CASE Ex(i) = {} /\ i.op = "bubble"
    BY <1>3
  <1> QED BY <1>1, <1>2, <1>3, InDCases

\* A cond writes no register, and nothing that writes one is a cond.
LEMMA WritesPcCond ==
  ASSUME NEW i \in InD, WritesPc(i)
  PROVE  i.op # "cond" /\ i.op # "bubble" /\ i.reg = PC
  BY CondInD, InDCases DEF WritesPc

\* E holds a cond that has a condition or ends the skipping.
CondIn(t) == "cond" \in e.ex /\ e.thread = t /\ e.reg # NEX

\* The shape of what E holds: a cond does nothing else, nor does a sig, and the
\* first half of a post-increment and a wait for the ALU exclude each other.
ShapeInv == /\ "cond" \in e.ex => e.ex = {"cond"}
            /\ e_continue => "postinc" \in e.ex /\ LoadStore(e)
            /\ "waitalu" \in e.ex => ~LoadStore(e)
            /\ "halfword" \in e.ex /\ "flags" \notin e.ex => e.ex = {"halfword"}

\* The shape of what D hands on.
LEMMA ToEShape ==
  ASSUME TypeOK, NEW t \in Threads, NEW pass
  PROVE  /\ "cond" \in ToE(t, pass).ex => ToE(t, pass).ex = {"cond"}
         /\ "waitalu" \in ToE(t, pass).ex => ToE(t, pass).ex \cap {"load", "store"} = {}
         /\ "halfword" \in ToE(t, pass).ex /\ "flags" \notin ToE(t, pass).ex
               => ToE(t, pass).ex = {"halfword"}
  <1>1. d[t] \in InD
    BY Types
  <1>2. "waitalu" \in Ex(d[t]) => Ex(d[t]) \cap {"load", "store"} = {}
    BY <1>1, InDCases, ExOpWaits
  <1>3. "cond" \in Ex(d[t]) => Ex(d[t]) = {"cond"}
    BY <1>1, CondInD
  <1>4. "halfword" \in Ex(d[t]) /\ "flags" \notin Ex(d[t]) => Ex(d[t]) = {"halfword"}
    BY <1>1, InDCases, ExOpSig
  <1> QED BY <1>2, <1>3, <1>4, ToEEx

\* Post-increments are loads and stores.
LEMMA PostincInD ==
  ASSUME NEW i \in InD, "postinc" \in Ex(i)
  PROVE  Ex(i) \cap {"load", "store"} # {}
  BY InDCases, ExOpPostinc

\* Every clock edge keeps the shape.
LEMMA NextShape == TypeOK /\ ShapeInv /\ [Next]_vars => ShapeInv'
  <1> SUFFICES ASSUME TypeOK, ShapeInv, [Next]_vars PROVE ShapeInv'
    OBVIOUS
  <1>1. ASSUME NEW t \in Threads, NEW next \in Fetched(t), NEW pass \in Outcomes(d[t]),
               Dispatch(t, next, pass)
        PROVE  ShapeInv'
    <2>1. e' = ToE(t, pass) /\ e_continue' = ("postinc" \in Ex(d[t]) /\ ~flag_cond[t])
      BY <1>1 DEF Dispatch
    <2>2. ASSUME "postinc" \in Ex(d[t]), ~flag_cond[t]
          PROVE  "postinc" \in e'.ex /\ e'.ex \cap {"load", "store"} # {}
      <3>1. d[t] \in InD
        BY Types
      <3>2. e'.ex = Ex(d[t])
        BY <2>1, <2>2, ToEEx DEF Masked
      <3> QED BY <2>2, <3>1, <3>2, PostincInD
    <2> QED BY <2>1, <2>2, ToEShape DEF ShapeInv, LoadStore
  <1>2. CASE InsertBubble
    BY <1>2 DEF InsertBubble, Empty, ShapeInv
  <1>3. CASE Hold
    BY <1>3 DEF Hold, ShapeInv, LoadStore
  <1>4. CASE UNCHANGED vars
    BY <1>4 DEF vars, stageVars, ShapeInv, LoadStore
  <1> QED BY <1>1, <1>2, <1>3, <1>4, NextCases

\* A cond does not stay in E.
LEMMA CondLeaves ==
  ASSUME ShapeInv, Hold
  PROVE  "cond" \notin e.ex
  BY DEF ShapeInv, Hold, stall

-----------------------------------------------------------------------------
(* Skipping.                                                               *)

\* The thread follows a cond.
BehindCond(t) == \E c \in Program : Conditional(c) /\ <<c, d[t]>> \in Adjacent

\* From the moment an interrupt is taken until the jump, the xor is on its way
\* and nothing is skipped.
EnteringInv == \A t \in Threads : gpr7_readflags[t] =>
    /\ ~flag_cond[t] /\ ~CondIn(t)
    /\ d[t] = IntXor \/ HoldsIntXor(e, t) \/ HoldsIntXor(m, t) \/ setpc[t]

\* flag_cond follows the cond in E, and what comes behind it is still in D.
SkipInv == /\ SkipIsExact
           /\ \A t \in Threads : CondIn(t) => ~flag_cond[t]
           /\ \A t \in Threads : CondIn(t) /\ ~e.pass => BehindCond(t)

\* A thread that is being skipped is masked.
LEMMA MaskedIsSkipped ==
  ASSUME TypeOK, EnteringInv, NEW t \in Threads
  PROVE  Masked(t) <=> flag_cond[t]
  BY DEF Masked, EnteringInv

\* Behind a cond there is no other cond and no jump.
LEMMA BehindCondIs ==
  ASSUME CondsApart, TypeOK, NEW t \in Threads, BehindCond(t)
  PROVE  d[t].op # "cond" /\ ~WritesPc(d[t])
  <1>1. PICK c \in Program : Conditional(c) /\ <<c, d[t]>> \in Adjacent
    BY DEF BehindCond
  <1>2. <<c, d[t]>>[1] = c /\ <<c, d[t]>>[2] = d[t]
    OBVIOUS
  <1> QED BY <1>1, <1>2 DEF CondsApart

\* The common part of every clock edge.
LEMMA NextEdge ==
  ASSUME Next
  PROVE  \/ \E t \in Threads : \E next \in Fetched(t), pass \in Outcomes(d[t]) :
              Dispatch(t, next, pass) /\ Edge({t}, next, TRUE)
         \/ InsertBubble /\ Edge({}, Bubble(0), TRUE)
         \/ Hold /\ Edge({}, Bubble(0), FALSE)
  <1>1. ASSUME NEW t, NEW next, NEW pass, Dispatch(t, next, pass)
        PROVE  Edge({t}, next, TRUE)
    BY <1>1 DEF Dispatch
  <1>2. InsertBubble => Edge({}, Bubble(0), TRUE)
    BY DEF InsertBubble, NoDispatch
  <1>3. Hold => Edge({}, Bubble(0), FALSE)
    BY DEF Hold, NoDispatch
  <1> QED BY <1>1, <1>2, <1>3, NextCases

\* What D holds next.
LEMMA DispatchD ==
  ASSUME TypeOK, NEW t \in Threads, NEW next, NEW pass, Dispatch(t, next, pass)
  PROVE  /\ d'[t] = IF TakesInterrupt(t, next) THEN IntXor ELSE next
         /\ \A u \in Threads \ {t} : d'[u] = IF setpc[u] THEN Bubble(d[u].reg) ELSE d[u]
  <1>1. d' = [Flushed EXCEPT ![t] = IF TakesInterrupt(t, next) THEN IntXor ELSE next]
    BY DEF Dispatch
  <1>2. \A u \in Threads : Flushed[u] = IF setpc[u] THEN Bubble(d[u].reg) ELSE d[u]
    BY DEF Flushed
  <1> QED BY <1>1, <1>2, FlushedType

\* It holds what it held, but for a flush, when nothing is dispatched.
LEMMA NoDispatchD ==
  ASSUME NEW leaves, NoDispatch(leaves)
  PROVE  \A u \in Threads : d'[u] = IF setpc[u] THEN Bubble(d[u].reg) ELSE d[u]
  BY DEF NoDispatch, Flushed

\* The flag of the thread that dispatches, after the edge: what is being skipped
\* goes on being skipped, unless it ends the skipping.
LEMMA DispatchFlagCond ==
  ASSUME CondsApart, TypeOK, EnteringInv, SkipInv, NEW t \in Threads, NEW next,
         Edge({t}, next, TRUE)
  PROVE  flag_cond'[t] <=> skipping[t] /\ d[t].op # "cond" /\ ~WritesPc(d[t])
  <1>1. flag_cond'[t] = NextFlagCond(t, {t})
    BY DEF Edge
  <1>2. CASE CondIn(t)
    <2>1. flag_cond'[t] = ~e.pass
      BY <1>1, <1>2 DEF NextFlagCond, CondIn
    <2>2. skipping[t] = ~e.pass
      BY <1>2 DEF SkipInv, SkipIsExact, CondIn
    <2>3. ~e.pass => d[t].op # "cond" /\ ~WritesPc(d[t])
      BY <1>2, BehindCondIs DEF SkipInv
    <2> QED BY <2>1, <2>2, <2>3
  <1>3. CASE ~CondIn(t)
    <2>1. flag_cond'[t] = (flag_cond[t] /\ ~EndsSkip(t))
      BY <1>1, <1>3 DEF NextFlagCond, CondIn
    <2>2. skipping[t] = flag_cond[t]
      BY <1>3 DEF SkipInv, SkipIsExact, CondIn
    <2>3. flag_cond[t] => (EndsSkip(t) <=> d[t].op = "cond" \/ WritesPc(d[t]))
      BY MaskedIsSkipped DEF EndsSkip
    <2> QED BY <2>1, <2>2, <2>3
  <1> QED BY <1>2, <1>3

\* The flag of a thread that does not.
LEMMA OtherFlagCond ==
  ASSUME TypeOK, SkipInv, NEW t \in Threads, NEW out, NEW next, NEW leaves,
         Edge(out, next, leaves), t \notin out
  PROVE  flag_cond'[t] = skipping[t]
  <1>1. flag_cond'[t] = NextFlagCond(t, out)
    BY DEF Edge
  <1>2. CASE CondIn(t)
    BY <1>1, <1>2 DEF NextFlagCond, CondIn, SkipInv, SkipIsExact
  <1>3. CASE ~CondIn(t)
    <2>1. skipping[t] = flag_cond[t]
      BY <1>3 DEF SkipInv, SkipIsExact, CondIn
    <2>2. flag_cond'[t] = (flag_cond[t] /\ ~(t \in out /\ EndsSkip(t)))
      BY <1>1, <1>3 DEF NextFlagCond, CondIn
    <2>3. flag_cond[t] \in BOOLEAN
      BY Types
    <2> QED BY <2>1, <2>2, <2>3
  <1> QED BY <1>2, <1>3

\* What a cond in D leads to.
LEMMA DispatchCond ==
  ASSUME TypeOK, EnteringInv, NEW t \in Threads, NEW next, NEW pass, Dispatch(t, next, pass)
  PROVE  /\ CondIn(t)' <=> \/ d[t].op = "cond" /\ d[t].reg # NEX
                           \/ WritesPc(d[t]) /\ Masked(t)
         /\ \A u \in Threads \ {t} : ~CondIn(u)'
  <1>1. e' = ToE(t, pass)
    BY DEF Dispatch
  <1>2. e'.thread = t /\ e'.reg = d[t].reg
    BY <1>1, ToEFields
  <1>3. d[t] \in InD
    BY Types
  <1>4. "cond" \in e'.ex <=> d[t].op = "cond" \/ (WritesPc(d[t]) /\ Masked(t))
    <2>1. "cond" \in Ex(d[t]) <=> d[t].op = "cond"
      BY <1>3, CondInD
    <2>2. WritesPc(d[t]) => d[t].op # "cond"
      BY <1>3, WritesPcCond
    <2> QED BY <1>1, <2>1, <2>2, ToEEx DEF EndsSkip
  <1>5. WritesPc(d[t]) => d[t].reg # NEX
    BY DEF WritesPc, PC, NEX
  <1> QED BY <1>2, <1>4, <1>5 DEF CondIn

\* An interrupt is taken where one may be.
LEMMA TakenAtPoint ==
  ASSUME NEW t \in Threads, NEW next \in Fetched(t), d[t] \in Program,
         TakesInterrupt(t, next)
  PROVE  <<d[t], next>> \in Adjacent /\ IrqPoint(<<d[t], next>>)
  <1>1. <<d[t], next>> \in Adjacent
    BY DEF Fetched
  <1>2. <<d[t], next>>[1] = d[t] /\ <<d[t], next>>[2] = next
    OBVIOUS
  <1>3. Interrupts /\ Interruptable(next) /\ ~KeepsOffInterrupt(d[t])
    BY DEF TakesInterrupt, KeepsOffInterrupt
  <1> QED BY <1>1, <1>2, <1>3 DEF IrqPoint

\* An interrupt is not taken in the cycle in which the condition of its thread
\* fails.
LEMMA NoIrqBehindCond ==
  ASSUME IrqApart, TypeOK, NEW t \in Threads, NEW next \in Fetched(t),
         BehindCond(t)
  PROVE  ~TakesInterrupt(t, next)
  <1> SUFFICES ASSUME TakesInterrupt(t, next) PROVE FALSE
    OBVIOUS
  <1>1. PICK c \in Program : Conditional(c) /\ <<c, d[t]>> \in Adjacent
    BY DEF BehindCond
  <1>2. d[t] \in Program
    BY <1>1, ProgramAssumption
  <1>3. <<d[t], next>> \in Adjacent /\ IrqPoint(<<d[t], next>>)
    BY <1>2, TakenAtPoint
  <1>4. /\ <<c, d[t]>>[1] = c /\ <<c, d[t]>>[2] = d[t]
        /\ <<d[t], next>>[1] = d[t]
    OBVIOUS
  <1> QED BY <1>1, <1>3, <1>4 DEF IrqApart

\* An xor on its way to the program counter keeps its thread from dispatching.
LEMMA IntXorBlocks ==
  ASSUME TypeOK, NEW t \in Threads, HoldsIntXor(e, t) \/ HoldsIntXor(m, t)
  PROVE  Hazard(t)
  BY DEF HoldsIntXor, Hazard, HazardPc, WritesGpr

\* It goes from E to M and from there to the program counter.
LEMMA IntXorMoves ==
  ASSUME TypeOK, NEW t \in Threads, ~flag_cond[t], NEW out, NEW next, NEW leaves,
         Edge(out, next, leaves)
  PROVE  /\ HoldsIntXor(e, t) => HoldsIntXor(m', t)
         /\ HoldsIntXor(m, t) => setpc'[t]
  <1>1. ASSUME HoldsIntXor(e, t) PROVE HoldsIntXor(m', t)
    <2>1. ~Masked(e.thread)
      BY <1>1 DEF HoldsIntXor, Masked
    <2>2. m' = [Overtaken(e, out) EXCEPT !.final = leaves /\ AluReady]
      BY <2>1 DEF Edge, MemStage
    <2>3. e \in Stage /\ Overtaken(e, out) \in Stage
      BY Types, OvertakenType
    <2>4. /\ m'.ex = Overtaken(e, out).ex /\ m'.thread = Overtaken(e, out).thread
          /\ m'.reg = Overtaken(e, out).reg
      BY <2>2, <2>3 DEF Stage
    <2> QED BY <1>1, <2>3, <2>4, OvertakenSame DEF HoldsIntXor
  <1>2. ASSUME HoldsIntXor(m, t) PROVE setpc'[t]
    <2>1. WritesBack
      BY <1>2 DEF HoldsIntXor, WritesBack
    <2>2. setpc'[t] = (WritesBack /\ m.reg = PC /\ m.thread = t)
      BY DEF Edge
    <2> QED BY <1>2, <2>1, <2>2 DEF HoldsIntXor
  <1> QED BY <1>1, <1>2

\* Every clock edge keeps EnteringInv.
LEMMA NextEntering ==
  CondsApart /\ IrqApart /\ TypeOK /\ ShapeInv /\ EnteringInv /\ SkipInv /\ [Next]_vars
     => EnteringInv'
  <1> SUFFICES ASSUME CondsApart, IrqApart, TypeOK, ShapeInv, EnteringInv, SkipInv, [Next]_vars
               PROVE  EnteringInv'
    OBVIOUS
  <1>1. ASSUME NEW t \in Threads, NEW next \in Fetched(t), NEW pass \in Outcomes(d[t]),
               Dispatch(t, next, pass), Edge({t}, next, TRUE), ~setpc[t], ~Hazard(t),
               NEW u \in Threads, gpr7_readflags'[u]
        PROVE  /\ ~flag_cond'[u] /\ ~CondIn(u)'
               /\ d'[u] = IntXor \/ HoldsIntXor(e', u) \/ HoldsIntXor(m', u) \/ setpc'[u]
    <2>1. gpr7_readflags'[u] = (/\ ~setpc[u]
                                /\ gpr7_readflags[u] \/ (u \in {t} /\ TakesInterrupt(t, next)))
      BY <1>1 DEF Edge
    <2>2. CASE u # t
      <3>1. /\ gpr7_readflags[u] /\ ~setpc[u] /\ ~flag_cond[u] /\ ~CondIn(u)
            /\ d[u] = IntXor \/ HoldsIntXor(e, u) \/ HoldsIntXor(m, u)
        BY <1>1, <2>1, <2>2 DEF EnteringInv
      <3>2. flag_cond'[u] = skipping[u]
        BY <1>1, <2>2, OtherFlagCond
      <3>3. skipping[u] = flag_cond[u]
        BY <3>1 DEF SkipInv, SkipIsExact, CondIn
      <3>4. ~CondIn(u)'
        BY <1>1, <2>2, DispatchCond
      <3>5. d'[u] = d[u]
        BY <1>1, <2>2, <3>1, DispatchD
      <3>6. HoldsIntXor(e, u) => HoldsIntXor(m', u)
        BY <1>1, <3>1, IntXorMoves
      <3>7. HoldsIntXor(m, u) => setpc'[u]
        BY <1>1, <3>1, IntXorMoves
      <3> QED BY <3>1, <3>2, <3>3, <3>4, <3>5, <3>6, <3>7
    <2>3. CASE u = t /\ gpr7_readflags[t]
      <3>1. ~flag_cond[t] /\ ~CondIn(t) /\ d[t] = IntXor
        BY <1>1, <2>3, IntXorBlocks DEF EnteringInv
      <3>2. ~Masked(t)
        BY <3>1 DEF Masked
      <3>3. /\ Ex(d[t]) = {"q1toreg", "q2totmp", "flags"} /\ d[t].reg = PC
            /\ d[t].op = "interrupt"
        BY <3>1 DEF Ex, IntXor
      <3>4. HoldsIntXor(e', t)
        <4>1. e' = ToE(t, pass)
          BY <1>1 DEF Dispatch
        <4> QED BY <3>2, <3>3, <4>1, ToEFields, ToEEx DEF HoldsIntXor
      <3>5. ~CondIn(t)'
        BY <3>4 DEF HoldsIntXor, CondIn
      <3>6. WritesPc(d[t])
        BY <3>3 DEF WritesPc
      <3>7. ~flag_cond'[t]
        BY <1>1, <3>6, DispatchFlagCond
      <3> QED BY <2>3, <3>4, <3>5, <3>7
    <2>4. CASE u = t /\ TakesInterrupt(t, next)
      <3>1. ~flag_cond[t] /\ d[t].op # "cond" /\ "q1toreg" \notin Ex(d[t])
        BY <2>4 DEF TakesInterrupt
      <3>2. d'[t] = IntXor
        BY <1>1, <2>4, DispatchD
      <3>3. ~CondIn(t)'
        BY <1>1, <3>1, DispatchCond DEF Masked
      <3>4. ~skipping[t]
        <4>1. CASE CondIn(t)
          <5>1. e.pass
            BY <1>1, <2>4, <4>1, NoIrqBehindCond DEF SkipInv
          <5> QED BY <4>1, <5>1 DEF CondIn, SkipInv, SkipIsExact
        <4>2. CASE ~CondIn(t)
          BY <3>1, <4>2 DEF CondIn, SkipInv, SkipIsExact
        <4> QED BY <4>1, <4>2
      <3>5. ~flag_cond'[t]
        BY <1>1, <3>4, DispatchFlagCond
      <3> QED BY <2>4, <3>2, <3>3, <3>5
    <2> QED BY <1>1, <2>1, <2>2, <2>3, <2>4
  <1>2. ASSUME NEW leaves, NoDispatch(leaves), Edge({}, Bubble(0), leaves),
               \A t \in Threads : ~CondIn(t)', NEW u \in Threads, gpr7_readflags'[u]
        PROVE  /\ ~flag_cond'[u] /\ ~CondIn(u)'
               /\ d'[u] = IntXor \/ HoldsIntXor(e', u) \/ HoldsIntXor(m', u) \/ setpc'[u]
    <2>1. gpr7_readflags'[u] = (/\ ~setpc[u]
                                /\ gpr7_readflags[u] \/ (u \in {} /\ TakesInterrupt(u, Bubble(0))))
      BY <1>2 DEF Edge
    <2>2. /\ gpr7_readflags[u] /\ ~setpc[u] /\ ~flag_cond[u] /\ ~CondIn(u)
          /\ d[u] = IntXor \/ HoldsIntXor(e, u) \/ HoldsIntXor(m, u)
      BY <1>2, <2>1 DEF EnteringInv
    <2>3. flag_cond'[u] = skipping[u]
      BY <1>2, OtherFlagCond
    <2>4. skipping[u] = flag_cond[u]
      BY <2>2 DEF SkipInv, SkipIsExact, CondIn
    <2>5. d'[u] = d[u]
      BY <1>2, <2>2, NoDispatchD
    <2>6. HoldsIntXor(e, u) => HoldsIntXor(m', u)
      BY <1>2, <2>2, IntXorMoves
    <2>7. HoldsIntXor(m, u) => setpc'[u]
      BY <1>2, <2>2, IntXorMoves
    <2> QED BY <1>2, <2>2, <2>3, <2>4, <2>5, <2>6, <2>7
  <1>3. ASSUME NEW t \in Threads, NEW next \in Fetched(t), NEW pass \in Outcomes(d[t]),
               Dispatch(t, next, pass), ~setpc[t], ~Hazard(t)
        PROVE  EnteringInv'
    <2>1. Edge({t}, next, TRUE)
      BY <1>3 DEF Dispatch
    <2> QED BY <1>1, <1>3, <2>1 DEF EnteringInv, HoldsIntXor, CondIn
  <1>4. CASE InsertBubble
    <2>1. \A t \in Threads : ~CondIn(t)'
      BY <1>4 DEF InsertBubble, Empty, CondIn
    <2>2. NoDispatch(TRUE) /\ Edge({}, Bubble(0), TRUE)
      BY <1>4 DEF InsertBubble, NoDispatch
    <2> QED BY <1>2, <2>1, <2>2 DEF EnteringInv, HoldsIntXor, CondIn
  <1>5. CASE Hold
    <2>1. \A t \in Threads : ~CondIn(t)'
      BY <1>5, CondLeaves DEF Hold, CondIn
    <2>2. NoDispatch(FALSE) /\ Edge({}, Bubble(0), FALSE)
      BY <1>5 DEF Hold, NoDispatch
    <2> QED BY <1>2, <2>1, <2>2 DEF EnteringInv, HoldsIntXor, CondIn
  <1>6. CASE UNCHANGED vars
    BY <1>6 DEF vars, threadVars, stageVars, EnteringInv, HoldsIntXor, CondIn
  <1> QED BY <1>3, <1>4, <1>5, <1>6, NextCases

\* Every clock edge keeps SkipInv.
LEMMA NextSkip ==
  CondsApart /\ IrqApart /\ TypeOK /\ ShapeInv /\ EnteringInv /\ SkipInv /\ [Next]_vars
     => SkipInv'
  <1> SUFFICES ASSUME CondsApart, IrqApart, TypeOK, ShapeInv, EnteringInv, SkipInv, [Next]_vars
               PROVE  SkipInv'
    OBVIOUS
  <1> DEFINE Exact(u) == skipping'[u] = IF CondIn(u)' THEN ~e'.pass ELSE flag_cond'[u]
  <1>1. ASSUME \A u \in Threads : /\ Exact(u)
                                  /\ CondIn(u)' => ~flag_cond'[u]
                                  /\ CondIn(u)' /\ ~e'.pass => BehindCond(u)'
        PROVE  SkipInv'
    BY <1>1 DEF SkipInv, SkipIsExact, CondIn
  <1> HIDE DEF Exact
  <1>2. ASSUME NEW t \in Threads, NEW next \in Fetched(t), NEW pass \in Outcomes(d[t]),
               Dispatch(t, next, pass), Edge({t}, next, TRUE), NEW u \in Threads
        PROVE  /\ Exact(u)
               /\ CondIn(u)' => ~flag_cond'[u]
               /\ CondIn(u)' /\ ~e'.pass => BehindCond(u)'
    <2>1. skipping' = [skipping EXCEPT ![t] = NextSkipping(t, pass)]
      BY <1>2 DEF Dispatch
    <2>2. CASE u # t
      <3>1. skipping'[u] = skipping[u]
        BY <2>1, <2>2, Types
      <3>2. flag_cond'[u] = skipping[u]
        BY <1>2, <2>2, OtherFlagCond
      <3>3. ~CondIn(u)'
        BY <1>2, <2>2, DispatchCond
      <3> QED BY <3>1, <3>2, <3>3 DEF Exact
    <2>3. CASE u = t
      <3>1. skipping'[t] = NextSkipping(t, pass)
        BY <2>1, Types
      <3>2. flag_cond'[t] <=> skipping[t] /\ d[t].op # "cond" /\ ~WritesPc(d[t])
        BY <1>2, DispatchFlagCond
      <3>3. CondIn(t)' <=> \/ d[t].op = "cond" /\ d[t].reg # NEX
                           \/ WritesPc(d[t]) /\ Masked(t)
        BY <1>2, DispatchCond
      <3>4. e'.pass = pass
        <4>1. e' = ToE(t, pass)
          BY <1>2 DEF Dispatch
        <4> QED BY <4>1, ToEFields
      <3>5. d[t] \in InD
        BY Types
      <3>6. d[t].op # "cond" => pass
        BY <1>2 DEF Outcomes
      <3>7. WritesPc(d[t]) => d[t].op # "cond"
        BY <3>5, WritesPcCond
      <3>8. Exact(t)
        <4>1. flag_cond'[t] \in BOOLEAN /\ skipping[t] \in BOOLEAN
          <5>1. flag_cond'[t] = NextFlagCond(t, {t})
            BY <1>2 DEF Edge
          <5> QED BY <5>1, Types DEF NextFlagCond
        <4>2. CASE d[t].op = "cond"
          <5>1. skipping'[t] = (d[t].reg # NEX /\ ~pass)
            BY <3>1, <3>7, <4>2 DEF NextSkipping
          <5> QED BY <3>2, <3>3, <3>4, <3>7, <4>1, <4>2, <5>1 DEF Exact
        <4>3. CASE WritesPc(d[t])
          <5>1. skipping'[t] = FALSE
            BY <3>1, <3>7, <4>3 DEF NextSkipping
          <5> QED BY <3>2, <3>4, <3>6, <3>7, <4>1, <4>3, <5>1 DEF Exact
        <4>4. CASE d[t].op # "cond" /\ ~WritesPc(d[t])
          <5>1. skipping'[t] = skipping[t]
            BY <3>1, <4>4 DEF NextSkipping
          <5> QED BY <3>2, <3>3, <4>1, <4>4, <5>1 DEF Exact
        <4> QED BY <4>2, <4>3, <4>4
      <3>9. CondIn(t)' => ~flag_cond'[t]
        BY <3>2, <3>3
      <3>10. ASSUME CondIn(t)', ~e'.pass PROVE BehindCond(t)'
        <4>1. ~pass
          BY <3>4, <3>10
        <4>2. Conditional(d[t])
          BY <1>2, <4>1 DEF Outcomes, Conditional
        <4>3. d[t].op = "cond" /\ d[t] \in Program
          BY <3>5, <4>2, CondInD DEF Conditional
        <4>4. <<d[t], next>> \in Adjacent
          BY <4>3 DEF Fetched
        <4>5. d'[t] = next
          BY <1>2, <4>3, DispatchD DEF TakesInterrupt
        <4> QED BY <4>2, <4>3, <4>4, <4>5 DEF BehindCond
      <3> QED BY <2>3, <3>8, <3>9, <3>10
    <2> QED BY <2>2, <2>3
  <1>3. ASSUME NEW leaves, NoDispatch(leaves), Edge({}, Bubble(0), leaves),
               \A t \in Threads : ~CondIn(t)', NEW u \in Threads
        PROVE  Exact(u)
    <2>1. skipping' = skipping
      BY <1>3 DEF NoDispatch
    <2>2. flag_cond'[u] = skipping[u]
      BY <1>3, OtherFlagCond
    <2>3. ~CondIn(u)'
      BY <1>3
    <2>4. skipping'[u] = flag_cond'[u]
      BY <2>1, <2>2
    <2> QED BY <2>3, <2>4 DEF Exact
  <1>4. ASSUME NEW t \in Threads, NEW next \in Fetched(t), NEW pass \in Outcomes(d[t]),
               Dispatch(t, next, pass)
        PROVE  SkipInv'
    <2>1. Edge({t}, next, TRUE)
      BY <1>4 DEF Dispatch
    <2> QED BY <1>1, <1>2, <1>4, <2>1
  <1>5. CASE InsertBubble
    <2>1. \A t \in Threads : ~CondIn(t)'
      BY <1>5 DEF InsertBubble, Empty, CondIn
    <2>2. NoDispatch(TRUE) /\ Edge({}, Bubble(0), TRUE)
      BY <1>5 DEF InsertBubble, NoDispatch
    <2>3. \A u \in Threads : Exact(u)
      BY <1>3, <2>1, <2>2
    <2> QED BY <1>1, <2>1, <2>3
  <1>6. CASE Hold
    <2>1. \A t \in Threads : ~CondIn(t)'
      BY <1>6, CondLeaves DEF Hold, CondIn
    <2>2. NoDispatch(FALSE) /\ Edge({}, Bubble(0), FALSE)
      BY <1>6 DEF Hold, NoDispatch
    <2>3. \A u \in Threads : Exact(u)
      BY <1>3, <2>1, <2>2
    <2> QED BY <1>1, <2>1, <2>3
  <1>7. CASE UNCHANGED vars
    BY <1>7 DEF vars, threadVars, stageVars, seqVars, SkipInv, SkipIsExact, CondIn, BehindCond
  <1> QED BY <1>4, <1>5, <1>6, <1>7, NextCases

\* The invariant of skipping.
CondInv == TypeOK /\ ShapeInv /\ EnteringInv /\ SkipInv

\* It holds initially,
LEMMA InitCondInv == Init => CondInv
  <1> SUFFICES ASSUME Init PROVE CondInv
    OBVIOUS
  <1>1. ShapeInv /\ EnteringInv
    BY DEF Init, Empty, ShapeInv, EnteringInv
  <1>2. SkipInv
    BY DEF Init, Empty, SkipInv, SkipIsExact, CondIn
  <1> QED BY <1>1, <1>2, InitType DEF CondInv

\* and every clock edge keeps it.
LEMMA NextCondInv == CondsApart /\ IrqApart /\ CondInv /\ [Next]_vars => CondInv'
  BY NextType, NextShape, NextEntering, NextSkip DEF CondInv

\* Where the documentation says that a cond whose predicate is not met skips
\* what follows up to the next cond or jump, the pipeline skips exactly that,
\* whatever else is in flight, on whichever thread and with interrupts coming at
\* any time, in every program that keeps cond apart from cond, jump and sig and
\* gives interrupts no place in the cycle in which a condition fails.
THEOREM SkippingIsExact ==
  ASSUME CondsApart, IrqApart
  PROVE  Spec => []SkipIsExact
  <1>1. CondInv => SkipIsExact
    BY DEF CondInv, SkipInv
  <1> QED BY <1>1, InitCondInv, NextCondInv, PTL DEF Spec

-----------------------------------------------------------------------------
(* Entering an interrupt.                                                  *)

\* A jump of the thread is in the stage s.
Jump(s, t) == WritesGpr(s, t) /\ s.reg = PC

\* While the xor is in D or E it is not being skipped, and no jump is ahead of it.
IntXorInv == \A t \in Threads :
    /\ d[t] = IntXor => gpr7_readflags[t] /\ ~setpc[t] /\ ~Jump(e, t) /\ ~Jump(m, t)
    /\ HoldsIntXor(e, t) => gpr7_readflags[t] /\ ~setpc[t] /\ ~Jump(m, t)

\* No instruction of a program does what the xor does.
LEMMA ExOpIntXor ==
  ASSUME NEW i \in Instruction
  PROVE  i # IntXor /\ ~(ExOp(i) = {"q1toreg", "q2totmp", "flags"} /\ i.reg = PC)
  <1>1. i.op # "interrupt"
    BY DEF Instruction, Opcodes
  <1>2. ASSUME {"q1toreg", "q2totmp", "flags"} \subseteq ExOp(i), "waitalu" \notin ExOp(i),
               i.reg = PC
        PROVE  FALSE
    <2>1. "q1toreg" \in ExOp(i) /\ "q2totmp" \in ExOp(i) /\ "flags" \in ExOp(i)
      BY <1>2
    <2> QED BY <1>2, <2>1 DEF ExOp, OverloadedEx, Instruction, Opcodes, PC
  <1> QED BY <1>1, <1>2 DEF IntXor

\* Nor does a bubble.
LEMMA BubbleIs == \A r : Bubble(r) # IntXor
  <1>1. \A r : Bubble(r).op = "bubble"
    BY DEF Bubble
  <1>2. IntXor.op = "interrupt"
    BY DEF IntXor
  <1> QED BY <1>1, <1>2

\* How a jump moves on.
LEMMA JumpMoves ==
  ASSUME TypeOK, NEW t \in Threads, NEW out, NEW next, NEW leaves,
         Edge(out, next, leaves)
  PROVE  /\ setpc'[t] => Jump(m, t)
         /\ Jump(m', t) => Jump(e, t)
         /\ HoldsIntXor(m, t) => setpc'[t]
         /\ gpr7_readflags[t] /\ ~setpc[t] => gpr7_readflags'[t]
  <1>1. setpc'[t] = (WritesBack /\ m.reg = PC /\ m.thread = t)
    BY DEF Edge
  <1>2. Jump(m', t) => Jump(e, t)
    <2>1. m' = Empty(e.thread) \/ m' = [Overtaken(e, out) EXCEPT !.final = leaves /\ AluReady]
      BY DEF Edge, MemStage
    <2>2. CASE m' = Empty(e.thread)
      <3>1. m'.ex = {}
        BY <2>2 DEF Empty
      <3> QED BY <3>1 DEF Jump, WritesGpr
    <2>3. CASE m' = [Overtaken(e, out) EXCEPT !.final = leaves /\ AluReady]
      <3>1. e \in Stage /\ Overtaken(e, out) \in Stage
        BY Types, OvertakenType
      <3>2. /\ m'.ex = Overtaken(e, out).ex /\ m'.thread = Overtaken(e, out).thread
            /\ m'.reg = Overtaken(e, out).reg
        BY <2>3, <3>1 DEF Stage
      <3> QED BY <3>1, <3>2, OvertakenSame DEF Jump, WritesGpr
    <2> QED BY <2>1, <2>2, <2>3
  <1>3. gpr7_readflags[t] /\ ~setpc[t] => gpr7_readflags'[t]
    BY DEF Edge
  <1> QED BY <1>1, <1>2, <1>3 DEF WritesBack, Jump, WritesGpr, HoldsIntXor

\* Every clock edge keeps IntXorInv.
LEMMA NextIntXor == CondInv /\ IntXorInv /\ [Next]_vars => IntXorInv'
  <1> SUFFICES ASSUME CondInv, IntXorInv, [Next]_vars PROVE IntXorInv'
    OBVIOUS
  <1> USE DEF CondInv
  <1>1. ASSUME NEW t \in Threads, NEW next \in Fetched(t), NEW pass \in Outcomes(d[t]),
               Dispatch(t, next, pass), ~setpc[t], ~Hazard(t)
        PROVE  IntXorInv'
    <2>1. Edge({t}, next, TRUE) /\ e' = ToE(t, pass)
      BY <1>1 DEF Dispatch
    <2>2. e'.thread = t /\ e'.reg = d[t].reg
      BY <2>1, ToEFields
    <2>3. e'.ex = Ex(d[t]) \/ e'.ex = {"cond"} \/ e'.ex = {}
      BY <2>1, ToEEx
    <2>4. ASSUME NEW u \in Threads, u # t, d'[u] = IntXor
          PROVE  gpr7_readflags'[u] /\ ~setpc'[u] /\ ~Jump(e', u) /\ ~Jump(m', u)
      <3>1. d[u] = IntXor
        BY <1>1, <2>4, DispatchD, BubbleIs
      <3>2. gpr7_readflags[u] /\ ~setpc[u] /\ ~Jump(e, u) /\ ~Jump(m, u)
        BY <3>1 DEF IntXorInv
      <3> QED BY <2>1, <2>2, <2>4, <3>2, JumpMoves DEF Jump, WritesGpr
    <2>5. ~Jump(e, t) /\ ~Jump(m, t)
      BY <1>1 DEF Hazard, HazardPc, Jump
    <2>6. ~setpc'[t] /\ ~Jump(m', t)
      BY <2>1, <2>5, JumpMoves
    <2>7. ASSUME d'[t] = IntXor
          PROVE  gpr7_readflags'[t] /\ ~Jump(e', t)
      <3>1. next # IntXor
        BY FetchedType, ProgramAssumption, ExOpIntXor
      <3>2. TakesInterrupt(t, next)
        BY <1>1, <2>7, <3>1, DispatchD
      <3>3. gpr7_readflags'[t]
        BY <1>1, <2>1, <3>2 DEF Edge
      <3>4. "q1toreg" \notin Ex(d[t])
        BY <3>2 DEF TakesInterrupt
      <3> QED BY <2>3, <3>3, <3>4 DEF Jump, WritesGpr
    <2>8. ASSUME HoldsIntXor(e', t) PROVE gpr7_readflags'[t]
      <3>1. Ex(d[t]) = {"q1toreg", "q2totmp", "flags"} /\ d[t].reg = PC
        BY <2>2, <2>3, <2>8 DEF HoldsIntXor
      <3>2. d[t] \in InD
        BY Types
      <3>3. ~(d[t] \in Instruction /\ Ex(d[t]) = ExOp(d[t]))
        BY <3>1, ExOpIntXor
      <3>4. d[t] = IntXor
        BY <3>1, <3>2, <3>3, InDCases DEF InD, Ex, Bubble
      <3>5. gpr7_readflags[t]
        BY <3>4 DEF IntXorInv
      <3> QED BY <1>1, <2>1, <3>5, JumpMoves
    <2>9. \A u \in Threads \ {t} : ~HoldsIntXor(e', u)
      BY <2>2 DEF HoldsIntXor
    <2> QED BY <2>4, <2>6, <2>7, <2>8, <2>9 DEF IntXorInv, HoldsIntXor, Jump, WritesGpr
  <1>2. ASSUME NEW leaves, NoDispatch(leaves), Edge({}, Bubble(0), leaves),
               NEW u \in Threads, ~HoldsIntXor(e', u), Jump(e', u) => Jump(e, u),
               d'[u] = IntXor
        PROVE  gpr7_readflags'[u] /\ ~setpc'[u] /\ ~Jump(e', u) /\ ~Jump(m', u)
    <2>1. d[u] = IntXor
      BY <1>2, NoDispatchD, BubbleIs
    <2>2. gpr7_readflags[u] /\ ~setpc[u] /\ ~Jump(e, u) /\ ~Jump(m, u)
      BY <2>1 DEF IntXorInv
    <2> QED BY <1>2, <2>2, JumpMoves
  <1>3. CASE InsertBubble
    <2>1. NoDispatch(TRUE) /\ Edge({}, Bubble(0), TRUE) /\ e' = Empty(e.thread)
      BY <1>3 DEF InsertBubble, NoDispatch
    <2>2. e'.ex = {}
      BY <2>1 DEF Empty
    <2>3. \A u \in Threads : ~HoldsIntXor(e', u) /\ ~Jump(e', u)
      BY <2>2 DEF HoldsIntXor, Jump, WritesGpr
    <2> QED BY <1>2, <2>1, <2>3 DEF IntXorInv, HoldsIntXor, Jump, WritesGpr
  <1>4. CASE Hold
    <2>1. /\ NoDispatch(FALSE) /\ Edge({}, Bubble(0), FALSE) /\ e' = e
          /\ "waitalu" \in e.ex \/ e_continue
      BY <1>4 DEF Hold, NoDispatch, stall
    <2>2. "waitalu" \in e.ex \/ "postinc" \in e.ex
      BY <2>1 DEF ShapeInv
    <2>3. \A u \in Threads : ~HoldsIntXor(e', u) /\ (Jump(e', u) <=> Jump(e, u))
      BY <2>1, <2>2 DEF HoldsIntXor, Jump, WritesGpr
    <2> QED BY <1>2, <2>1, <2>3 DEF IntXorInv, HoldsIntXor, Jump, WritesGpr
  <1>5. CASE UNCHANGED vars
    BY <1>5 DEF vars, threadVars, stageVars, IntXorInv, HoldsIntXor, Jump, WritesGpr
  <1> QED BY <1>1, <1>3, <1>4, <1>5, NextCases

\* The xor goes from stage to stage.
LEMMA IntXorGoesOn ==
  ASSUME CondInv, IntXorInv, Next, NEW t \in Threads
  PROVE  /\ d[t] = IntXor => d'[t] = IntXor \/ HoldsIntXor(e', t)
         /\ HoldsIntXor(e, t) => HoldsIntXor(m', t)
         /\ HoldsIntXor(m, t) => setpc'[t]
  <1> USE DEF CondInv
  <1>1. PICK out, next, leaves : Edge(out, next, leaves)
    BY NextEdge
  <1>2. ASSUME HoldsIntXor(e, t) PROVE HoldsIntXor(m', t)
    <2>1. ~flag_cond[t]
      BY <1>2 DEF IntXorInv, EnteringInv
    <2> QED BY <1>1, <1>2, <2>1, IntXorMoves
  <1>3. HoldsIntXor(m, t) => setpc'[t]
    BY <1>1, JumpMoves
  <1>4. ASSUME d[t] = IntXor PROVE d'[t] = IntXor \/ HoldsIntXor(e', t)
    <2>1. gpr7_readflags[t] /\ ~setpc[t]
      BY <1>4 DEF IntXorInv
    <2>2. ASSUME NEW u \in Threads, NEW nx \in Fetched(u), NEW pass \in Outcomes(d[u]),
                 Dispatch(u, nx, pass)
          PROVE  d'[t] = IntXor \/ HoldsIntXor(e', t)
      <3>1. CASE u = t
        <4>1. e' = ToE(t, pass)
          BY <2>2, <3>1 DEF Dispatch
        <4>2. ~Masked(t) /\ Ex(d[t]) = {"q1toreg", "q2totmp", "flags"} /\ d[t].reg = PC
          BY <1>4, <2>1 DEF Masked, Ex, IntXor
        <4> QED BY <4>1, <4>2, ToEFields, ToEEx DEF HoldsIntXor
      <3>2. CASE u # t
        BY <1>4, <2>1, <2>2, <3>2, DispatchD
      <3> QED BY <3>1, <3>2
    <2>3. ASSUME NEW lv, NoDispatch(lv) PROVE d'[t] = IntXor
      BY <1>4, <2>1, <2>3, NoDispatchD
    <2>4. InsertBubble \/ Hold => NoDispatch(TRUE) \/ NoDispatch(FALSE)
      BY DEF InsertBubble, Hold
    <2> QED BY <2>2, <2>3, <2>4, NextCases
  <1> QED BY <1>2, <1>3, <1>4

\* An interrupt that is taken is entered: neither a jump ahead of it nor a failed
\* condition stops the xor on its way to the program counter, in any program that
\* keeps to the rules.
THEOREM InterruptsAreEntered ==
  ASSUME CondsApart, IrqApart
  PROVE  Spec => InterruptIsEntered
  <1>1. Init => IntXorInv
    BY DEF Init, Empty, IntXorInv, HoldsIntXor, Bubble, IntXor
  <1>2. (CondInv /\ IntXorInv) /\ [Next]_vars
           => [\A t \in Threads :
                /\ d[t] = IntXor => d'[t] = IntXor \/ HoldsIntXor(e', t)
                /\ HoldsIntXor(e, t) => HoldsIntXor(m', t)
                /\ HoldsIntXor(m, t) => setpc'[t]]_vars
    BY IntXorGoesOn
  <1> QED BY <1>1, <1>2, InitCondInv, NextCondInv, NextIntXor, PTL
          DEF Spec, InterruptIsEntered

-----------------------------------------------------------------------------
(* What is skipped leaves no trace.                                        *)

\* What is in E is executed if it ought to be; what ought not to be there waits
\* for flag_cond to stop it on its way to M, where only what is executed arrives.
TraceInv ==
    /\ e.live => ~flag_cond[e.thread]
    /\ ~e.live /\ e.ex # {} /\ e.ex # {"cond"} => flag_cond[e.thread]
    /\ m.ex # {} /\ m.ex # {"cond"} => m.live
    /\ MASK \notin e.wrong

\* What M gets from E.
LEMMA MemStageIs ==
  ASSUME TypeOK, EnteringInv, NEW out, NEW next, NEW leaves, Edge(out, next, leaves)
  PROVE  /\ flag_cond[e.thread] => m'.ex = {} /\ m'.thread = e.thread
         /\ ~flag_cond[e.thread] => /\ m'.ex = e.ex /\ m'.thread = e.thread
                                    /\ m'.reg = e.reg /\ m'.live = e.live
  <1>1. e.thread \in Threads /\ e \in Stage /\ Overtaken(e, out) \in Stage
    BY Types, StageType, OvertakenType
  <1>2. Masked(e.thread) <=> flag_cond[e.thread]
    BY <1>1, MaskedIsSkipped
  <1>3. m' = IF Masked(e.thread) THEN Empty(e.thread)
             ELSE [Overtaken(e, out) EXCEPT !.final = leaves /\ AluReady]
    BY DEF Edge, MemStage
  <1>4. CASE flag_cond[e.thread]
    BY <1>2, <1>3, <1>4 DEF Empty
  <1>5. CASE ~flag_cond[e.thread]
    <2>1. m' = [Overtaken(e, out) EXCEPT !.final = leaves /\ AluReady]
      BY <1>2, <1>3, <1>5
    <2>2. /\ m'.ex = Overtaken(e, out).ex /\ m'.thread = Overtaken(e, out).thread
          /\ m'.reg = Overtaken(e, out).reg /\ m'.live = Overtaken(e, out).live
      BY <1>1, <2>1 DEF Stage
    <2> QED BY <1>1, <1>5, <2>2, OvertakenSame
  <1> QED BY <1>4, <1>5

\* Every clock edge keeps TraceInv.
LEMMA NextTrace == CondsApart /\ CondInv /\ TraceInv /\ [Next]_vars => TraceInv'
  <1> SUFFICES ASSUME CondsApart, CondInv, TraceInv, [Next]_vars PROVE TraceInv'
    OBVIOUS
  <1> USE DEF CondInv
  <1>1. ASSUME NEW out, NEW next, NEW leaves, Edge(out, next, leaves)
        PROVE  m'.ex # {} /\ m'.ex # {"cond"} => m'.live
    <2>1. CASE flag_cond[e.thread]
      BY <1>1, <2>1, MemStageIs
    <2>2. CASE ~flag_cond[e.thread]
      BY <1>1, <2>2, MemStageIs DEF TraceInv
    <2> QED BY <2>1, <2>2
  <1>2. ASSUME NEW t \in Threads, NEW next \in Fetched(t), NEW pass \in Outcomes(d[t]),
               Dispatch(t, next, pass)
        PROVE  TraceInv'
    <2>1. Edge({t}, next, TRUE) /\ e' = ToE(t, pass)
      BY <1>2 DEF Dispatch
    <2>2. e'.thread = t /\ e'.live = Live(t) /\ e'.wrong = IF Live(t) THEN Wrong(t) ELSE {}
      BY <2>1, ToEFields
    <2>3. flag_cond'[t] <=> skipping[t] /\ d[t].op # "cond" /\ ~WritesPc(d[t])
      BY <2>1, DispatchFlagCond
    <2>4. d[t] \in InD
      BY Types
    <2>5. ~skipping[t] => ~flag_cond[t]
      BY DEF SkipInv, SkipIsExact, CondIn
    <2>6. ASSUME e'.ex # {}, e'.ex # {"cond"}
          PROVE  ~Masked(t) /\ e'.ex = Ex(d[t])
      BY <2>1, <2>6, ToEEx
    <2>7. ASSUME ~Masked(t), skipping[t]
          PROVE  CondIn(t) /\ ~e.pass
      <3>1. ~flag_cond[t]
        BY <2>7, MaskedIsSkipped
      <3> QED BY <2>7, <3>1 DEF SkipInv, SkipIsExact, CondIn
    <2>8. e'.live => ~flag_cond'[e'.thread]
      BY <2>2, <2>3 DEF Live
    <2>9. ASSUME ~e'.live, e'.ex # {}, e'.ex # {"cond"}
          PROVE  flag_cond'[e'.thread]
      <3>1. ~Masked(t) /\ Ex(d[t]) # {}
        BY <2>6, <2>9
      <3>2. d[t].op # "bubble"
        BY <3>1 DEF Ex
      <3>3. skipping[t]
        BY <2>2, <2>9, <3>2 DEF Live
      <3>4. BehindCond(t)
        BY <2>7, <3>1, <3>3 DEF SkipInv
      <3> QED BY <2>2, <2>3, <3>3, <3>4, BehindCondIs
    <2>10. MASK \notin e'.wrong
      <3>1. CASE Live(t)
        <4>1. ~Masked(t)
          BY <2>5, <3>1 DEF Live, Masked
        <4>2. Reads(d[t]) \subseteq Resources
          BY <2>4, ReadsType
        <4>3. MASK \notin Resources
          <5>1. Registers \subseteq 0 .. 7
            BY ProgramAssumption DEF Registers, Instruction
          <5> QED BY <5>1 DEF Resources, MASK, TMP, FLAGS
        <4> QED BY <2>2, <3>1, <4>1, <4>2, <4>3
                DEF Wrong, MASK, SGN, LI, ACCESS
      <3> QED BY <2>2, <3>1
    <2>11. m'.ex # {} /\ m'.ex # {"cond"} => m'.live
      BY <1>1, <2>1
    <2>12. ~e'.live /\ e'.ex # {} /\ e'.ex # {"cond"} => flag_cond'[e'.thread]
      BY <2>9
    <2> QED BY <2>8, <2>10, <2>11, <2>12 DEF TraceInv
  <1>3. CASE InsertBubble
    <2>1. Edge({}, Bubble(0), TRUE)
      BY <1>3 DEF InsertBubble, NoDispatch
    <2>2. m'.ex # {} /\ m'.ex # {"cond"} => m'.live
      BY <1>1, <2>1
    <2>3. e'.ex = {} /\ e'.live = FALSE /\ e'.wrong = {}
      BY <1>3 DEF InsertBubble, Empty
    <2> QED BY <2>2, <2>3 DEF TraceInv
  <1>4. CASE Hold
    <2>1. Edge({}, Bubble(0), FALSE) /\ e' = e
      BY <1>4 DEF Hold, NoDispatch
    <2>2. m'.ex # {} /\ m'.ex # {"cond"} => m'.live
      BY <1>1, <2>1
    <2>3. e.thread \in Threads
      BY Types, StageType
    <2>4. flag_cond'[e.thread] = flag_cond[e.thread]
      <3>1. flag_cond'[e.thread] = skipping[e.thread]
        BY <2>1, <2>3, OtherFlagCond
      <3>2. ~CondIn(e.thread)
        BY <1>4, CondLeaves DEF CondIn
      <3> QED BY <2>3, <3>1, <3>2 DEF SkipInv, SkipIsExact, CondIn
    <2> QED BY <2>1, <2>2, <2>4 DEF TraceInv
  <1>5. CASE UNCHANGED vars
    BY <1>5 DEF vars, threadVars, stageVars, TraceInv
  <1> QED BY <1>2, <1>3, <1>4, <1>5, NextCases

\* Both invariants, initially.
LEMMA InitTrace == Init => TraceInv
  BY DEF Init, Empty, TraceInv

\* What is skipped writes neither register, tmp nor flags and goes no further
\* than E, and what is to be executed reaches M, in every such program.
THEOREM SkippedIsHarmless ==
  ASSUME CondsApart, IrqApart
  PROVE  Spec => []SkippedLeavesNoTrace
  <1>1. CondInv /\ TraceInv => SkippedLeavesNoTrace
    <2> SUFFICES ASSUME CondInv, TraceInv PROVE SkippedLeavesNoTrace
      OBVIOUS
    <2>1. WritesOf(m.ex, m.reg) # {} => m.ex # {} /\ m.ex # {"cond"}
      BY DEF WritesOf
    <2>2. e.live => ~Masked(e.thread)
      BY DEF TraceInv, Masked
    <2> QED BY <2>1, <2>2 DEF TraceInv, SkippedLeavesNoTrace
  <1> QED BY <1>1, InitCondInv, InitTrace, NextCondInv, NextTrace, PTL DEF Spec

\* A clock edge by which a sig that is to be skipped gets to E, or stays there,
\* is the one by which it leaves D right behind the cond that fails.
LEMMA SkippedSig ==
  ASSUME CondInv, TraceInv, [Next]_vars, ~UNCHANGED vars, Sig', ~e'.live
  PROVE  "cond" \in e.ex /\ e.reg # NEX /\ ~e.pass /\ e.thread = e'.thread
  <1> USE DEF CondInv
  <1>1. "halfword" \in e'.ex /\ "flags" \notin e'.ex
    BY DEF Sig
  <1>2. ASSUME NEW t \in Threads, NEW next \in Fetched(t), NEW pass \in Outcomes(d[t]),
               Dispatch(t, next, pass)
        PROVE  CondIn(t) /\ ~e.pass /\ e'.thread = t
    <2>1. e' = ToE(t, pass)
      BY <1>2 DEF Dispatch
    <2>2. e'.thread = t /\ e'.live = Live(t)
      BY <2>1, ToEFields
    <2>3. ~Masked(t) /\ e'.ex = Ex(d[t])
      BY <1>1, <2>1, ToEEx
    <2>4. d[t].op # "bubble"
      BY <1>1, <2>3 DEF Ex
    <2>5. skipping[t]
      BY <2>2, <2>4 DEF Live
    <2>6. ~flag_cond[t]
      BY <2>3, MaskedIsSkipped
    <2> QED BY <2>2, <2>5, <2>6 DEF SkipInv, SkipIsExact, CondIn
  <1>3. ASSUME InsertBubble PROVE FALSE
    <2>1. e' = Empty(e.thread)
      BY <1>3 DEF InsertBubble
    <2>2. e'.ex = {}
      BY <2>1 DEF Empty
    <2> QED BY <1>1, <2>2
  <1>4. ASSUME Hold PROVE FALSE
    <2>1. e' = e /\ ("waitalu" \in e.ex \/ e_continue)
      BY <1>4 DEF Hold, stall
    <2>2. e.ex = {"halfword"}
      BY <1>1, <2>1 DEF ShapeInv
    <2> QED BY <2>1, <2>2 DEF ShapeInv
  <1> QED BY <1>2, <1>3, <1>4, NextCases DEF CondIn

\* In every such program a skipped sig wakes the other thread only right behind the
\* cond that fails, when it follows it into E without a cycle in between; nothing
\* is assumed of where sig stands.
THEOREM SkippedSigIsBehindCond ==
  ASSUME CondsApart, IrqApart
  PROVE  Spec => SkippedSigFollowsCond
  <1>1. (CondInv /\ TraceInv) /\ [Next]_vars
           => [Sig' /\ ~e'.live => /\ "cond" \in e.ex /\ e.reg # NEX /\ ~e.pass
                                  /\ e.thread = e'.thread]_vars
    BY SkippedSig
  <1> QED BY <1>1, InitCondInv, InitTrace, NextCondInv, NextTrace, PTL
          DEF Spec, SkippedSigFollowsCond

-----------------------------------------------------------------------------
(* Loads and stores.                                                       *)

\* A load or store passes through E, M and W alone.  It is due from its dispatch
\* until M issues it, which is in the next cycle, or, in a post-increment, in the
\* first of the two cycles that M holds it; in the second the request is new and
\* cannot have been answered.
AccessInv ==
    /\ LoadStore(m) => m_loadstore
    /\ ls_req_r => LoadStore(w)
    /\ ls_ack => ls_req_r
    /\ LoadStore(e) /\ e.live /\ m_loadstore => LoadStore(m)
    /\ LoadStore(e) /\ LoadStore(m) => e.live
    /\ LoadStore(e) /\ ls_req_r => LoadStore(m) /\ ls_age = 0 /\ ~e_continue
    /\ LoadStore(m) /\ ls_req_r => ls_age # MinLatency /\ ~ls_ack
    /\ e_continue => (alu_req /\ alu_op = "inc") \/ busyflag
    /\ e_continue /\ LoadStore(m) => ~alu_req
    /\ accessDue <=> \/ LoadStore(e) /\ e.live /\ ~m_loadstore
                     \/ LoadStore(m) /\ ~ls_req_r
    /\ ACCESS \notin e.wrong

\* What becomes of the loads and stores in the stages.
LEMMA AccessEdge ==
  ASSUME CondInv, TraceInv, NEW out, NEW next, NEW leaves, Edge(out, next, leaves)
  PROVE  /\ LoadStore(m') <=> LoadStore(e) /\ e.live
         /\ m_loadstore' <=> LoadStore(e)
         /\ ls_req_r /\ ~ls_ack => (LoadStore(w') <=> LoadStore(w))
         /\ ~ls_req_r \/ ls_ack => (LoadStore(w') <=> LoadStore(m))
         /\ ls_req_r' <=> Issue \/ (ls_req_r /\ ~(ls_ack /\ LoadStore(w)))
         /\ ls_ack' => ls_req_r /\ ~ls_ack /\ ls_age = MinLatency
         /\ Issue => ls_age' = 0
         /\ ~Issue /\ ls_age = 0 => ls_age' = 1
  <1>1. LoadStore(m') <=> LoadStore(e) /\ e.live
    <2>1. LoadStore(e) => e.ex # {} /\ e.ex # {"cond"}
      BY DEF LoadStore
    <2>2. LoadStore(e) => (e.live <=> ~flag_cond[e.thread])
      BY <2>1 DEF TraceInv
    <2>3. flag_cond[e.thread] => m'.ex = {}
      BY MemStageIs DEF CondInv
    <2>4. ~flag_cond[e.thread] => m'.ex = e.ex
      BY MemStageIs DEF CondInv
    <2> QED BY <2>2, <2>3, <2>4 DEF LoadStore
  <1>2. m_loadstore' <=> LoadStore(e)
    BY DEF Edge, MemStage
  <1>3. m \in Stage /\ w \in Stage
    BY Types DEF CondInv
  <1>4. ls_req_r /\ ~ls_ack => (LoadStore(w') <=> LoadStore(w))
    BY <1>3, OvertakenSame DEF Edge, WriteStage, LoadStore
  <1>5. ~ls_req_r \/ ls_ack => (LoadStore(w') <=> LoadStore(m))
    <2>1. ~ls_req_r \/ ls_ack => w' = IF LoadStore(m) THEN Overtaken(m, out) ELSE Empty(m.thread)
      BY DEF Edge, WriteStage
    <2>2. Overtaken(m, out).ex = m.ex
      BY <1>3, OvertakenSame
    <2>3. Empty(m.thread).ex = {}
      BY DEF Empty
    <2> QED BY <2>1, <2>2, <2>3 DEF LoadStore
  <1>6. /\ ls_req_r' <=> Issue \/ (ls_req_r /\ ~(ls_ack /\ LoadStore(w)))
        /\ ls_ack' => ls_req_r /\ ~ls_ack /\ ls_age = MinLatency
    BY DEF Edge, WriteStage
  <1>7. Issue => ls_age' = 0
    BY DEF Edge, WriteStage
  <1>8. ~Issue /\ ls_age = 0 => ls_age' = 1
    BY DEF Edge, WriteStage, MinLatency
  <1> QED BY <1>1, <1>2, <1>4, <1>5, <1>6, <1>7, <1>8

\* The common part of every clock edge, for the stages M and W.
LEMMA AccessStages ==
  ASSUME CondInv, TraceInv, AccessInv, NEW out, NEW next, NEW leaves, Edge(out, next, leaves)
  PROVE  /\ LoadStore(m') => m_loadstore'
         /\ ls_req_r' => LoadStore(w')
         /\ ls_ack' => ls_req_r'
         /\ LoadStore(m') /\ ls_req_r' => ls_age' # MinLatency /\ ~ls_ack'
  <1>1. LoadStore(m') => m_loadstore'
    BY AccessEdge
  <1>2. ls_req_r' => LoadStore(w')
    BY AccessEdge DEF AccessInv, Issue
  <1>3. ls_ack' => ls_req_r'
    BY AccessEdge DEF AccessInv
  <1>4. ASSUME LoadStore(m'), ls_req_r' PROVE ls_age' # MinLatency /\ ~ls_ack'
    <2>1. CASE Issue
      BY <2>1, AccessEdge DEF Issue, MinLatency
    <2>2. CASE ~Issue
      <3>1. LoadStore(e) /\ ls_req_r
        BY <1>4, <2>2, AccessEdge
      <3>2. ls_age = 0
        BY <3>1 DEF AccessInv
      <3> QED BY <2>2, <3>2, AccessEdge DEF MinLatency
    <2> QED BY <2>1, <2>2
  <1> QED BY <1>1, <1>2, <1>3, <1>4

\* A load or store that is due and not issued now is the one that M gets.
LEMMA AccessPassesOn ==
  ASSUME CondInv, TraceInv, AccessInv, NEW out, NEW next, NEW leaves,
         Edge(out, next, leaves)
  PROVE  accessDue /\ ~Issue <=> LoadStore(m') /\ ~ls_req_r'
  <1>1. Issue <=> LoadStore(m) /\ ~ls_req_r
    BY DEF Issue
  <1>2. accessDue /\ ~Issue <=> LoadStore(e) /\ e.live /\ ~m_loadstore
    BY <1>1 DEF AccessInv
  <1>3. LoadStore(m') /\ ~ls_req_r' => LoadStore(e) /\ e.live /\ ~m_loadstore
    BY <1>1, AccessEdge DEF AccessInv
  <1>4. LoadStore(e) /\ e.live /\ ~m_loadstore => LoadStore(m') /\ ~ls_req_r'
    BY <1>1, AccessEdge DEF AccessInv
  <1> QED BY <1>2, <1>3, <1>4

\* Every clock edge keeps AccessInv.
LEMMA NextAccess == CondInv /\ TraceInv /\ AccessInv /\ [Next]_vars => AccessInv'
  <1> SUFFICES ASSUME CondInv, TraceInv, AccessInv, [Next]_vars PROVE AccessInv'
    OBVIOUS
  <1>1. ASSUME NEW out, NEW next, NEW leaves, Edge(out, next, leaves),
               LoadStore(e') /\ e'.live /\ m_loadstore' => LoadStore(m'),
               LoadStore(e') /\ LoadStore(m') => e'.live,
               LoadStore(e') /\ ls_req_r' => LoadStore(m') /\ ls_age' = 0 /\ ~e_continue',
               e_continue' => (alu_req' /\ alu_op' = "inc") \/ busyflag',
               e_continue' /\ LoadStore(m') => ~alu_req',
               accessDue' <=> \/ LoadStore(e') /\ e'.live /\ ~m_loadstore'
                              \/ LoadStore(m') /\ ~ls_req_r',
               ACCESS \notin e'.wrong
        PROVE  AccessInv'
    BY <1>1, AccessStages DEF AccessInv, LoadStore
  <1>2. ASSUME NEW t \in Threads, NEW next \in Fetched(t), NEW pass \in Outcomes(d[t]),
               Dispatch(t, next, pass), ~Hazard(t)
        PROVE  AccessInv'
    <2> DEFINE dls == Ex(d[t]) \cap {"load", "store"} # {}
    <2>1. /\ Edge({t}, next, TRUE) /\ e' = ToE(t, pass)
          /\ e_continue' <=> "postinc" \in Ex(d[t]) /\ ~flag_cond[t]
          /\ alu_op' = AluFunc(d[t])
          /\ alu_req' <=> gpr7_readflags[t] \/ ~flag_cond[t]
          /\ accessDue' <=> (Live(t) /\ dls) \/ (accessDue /\ ~Issue)
      BY <1>2 DEF Dispatch
    <2>2. /\ e'.live = Live(t) /\ e'.wrong = IF Live(t) THEN Wrong(t) ELSE {}
      BY <2>1, ToEFields
    <2>3. d[t] \in InD
      BY Types DEF CondInv
    <2>4. ~skipping[t] => ~flag_cond[t]
      BY DEF CondInv, SkipInv, SkipIsExact, CondIn
    <2>5. LoadStore(e') => dls
      BY <2>1, ToEEx DEF LoadStore
    <2>6. dls /\ Live(t) => LoadStore(e')
      <3>1. Live(t) => ~Masked(t)
        BY <2>4 DEF Live, Masked
      <3> QED BY <2>1, <3>1, ToEEx DEF LoadStore
    <2>7. dls => ~LoadStore(e) /\ ~m_loadstore /\ ~LoadStore(w)
      BY <1>2 DEF Hazard, HazardLoad
    <2>8. dls => ~LoadStore(m') /\ ~m_loadstore' /\ ~ls_req_r' /\ ~accessDue
      BY <2>1, <2>7, AccessEdge DEF AccessInv, Issue
    <2>9. e_continue' => alu_req' /\ alu_op' = "inc" /\ dls
      <3>1. "postinc" \in Ex(d[t]) => dls /\ AluFunc(d[t]) = "inc"
        BY <2>3, InDCases, ExOpPostinc
      <3> QED BY <2>1, <3>1
    <2>10. ACCESS \notin e'.wrong
      <3>1. CASE Live(t)
        <4>1. Reads(d[t]) \subseteq Resources
          BY <2>3, ReadsType
        <4>2. ACCESS \notin Resources
          <5>1. Registers \subseteq 0 .. 7
            BY ProgramAssumption DEF Registers, Instruction
          <5> QED BY <5>1 DEF Resources, ACCESS, TMP, FLAGS
        <4>3. ACCESS \notin {x \in {ACCESS} : dls /\ accessDue}
          BY <2>8
        <4> QED BY <2>2, <3>1, <4>1, <4>2, <4>3 DEF Wrong, MASK, SGN, LI, ACCESS
      <3> QED BY <2>2, <3>1
    <2>11. accessDue /\ ~Issue <=> LoadStore(m') /\ ~ls_req_r'
      BY <2>1, AccessPassesOn
    <2>12. accessDue' <=> \/ LoadStore(e') /\ e'.live /\ ~m_loadstore'
                          \/ LoadStore(m') /\ ~ls_req_r'
      <3> HIDE DEF dls
      <3> QED BY <2>1, <2>2, <2>5, <2>6, <2>8, <2>11
    <2> HIDE DEF dls
    <2> QED BY <1>1, <2>1, <2>5, <2>8, <2>9, <2>10, <2>12
  <1>3. ASSUME NEW leaves, NoDispatch(leaves), Edge({}, Bubble(0), leaves),
               LoadStore(e') => e' = e /\ e_continue,
               e_continue' => LoadStore(e') /\ e_continue /\ ~alu_ack,
               ACCESS \notin e'.wrong
        PROVE  AccessInv'
    <2>1. /\ ~alu_req' /\ alu_op' = alu_op
          /\ accessDue' <=> accessDue /\ ~Issue
      BY <1>3 DEF NoDispatch
    <2>2. accessDue' <=> LoadStore(m') /\ ~ls_req_r'
      BY <1>3, <2>1, AccessPassesOn
    <2>3. LoadStore(e') => /\ LoadStore(e) /\ m_loadstore' /\ ~ls_req_r
                           /\ LoadStore(m') <=> e.live
                           /\ ls_req_r' <=> LoadStore(m)
      BY <1>3, AccessEdge DEF AccessInv, Issue
    <2>4. LoadStore(e') /\ e'.live /\ m_loadstore' => LoadStore(m')
      BY <1>3, <2>3
    <2>5. LoadStore(e') /\ LoadStore(m') => e'.live
      BY <1>3, <2>3
    <2>6. ASSUME LoadStore(e'), ls_req_r'
          PROVE  LoadStore(m') /\ ls_age' = 0 /\ ~e_continue'
      <3>1. LoadStore(m) /\ LoadStore(e) /\ ~ls_req_r /\ e_continue
        BY <1>3, <2>3, <2>6
      <3>2. LoadStore(m')
        BY <2>3, <2>6, <3>1 DEF AccessInv
      <3>3. ls_age' = 0
        BY <1>3, <3>1, AccessEdge DEF Issue
      <3>4. busyflag
        BY <3>1 DEF AccessInv
      <3> QED BY <1>3, <3>2, <3>3, <3>4 DEF alu_ack
    <2>7. ASSUME e_continue' PROVE busyflag'
      <3>1. ~busyflag /\ e_continue
        BY <1>3, <2>7 DEF alu_ack
      <3>2. alu_req /\ alu_op = "inc"
        BY <3>1 DEF AccessInv
      <3> QED BY <1>3, <3>2 DEF Edge, Alu
    <2> QED BY <1>1, <1>3, <2>1, <2>2, <2>3, <2>4, <2>5, <2>6, <2>7
  <1>4. CASE InsertBubble
    <2>1. NoDispatch(TRUE) /\ Edge({}, Bubble(0), TRUE) /\ ~e_continue'
      BY <1>4 DEF InsertBubble, NoDispatch
    <2>2. e'.ex = {} /\ e'.wrong = {}
      BY <1>4 DEF InsertBubble, Empty
    <2>3. ~LoadStore(e') /\ ACCESS \notin e'.wrong
      BY <2>2 DEF LoadStore
    <2> QED BY <1>3, <2>1, <2>3
  <1>5. CASE Hold
    <2>1. /\ NoDispatch(FALSE) /\ Edge({}, Bubble(0), FALSE) /\ e' = e
          /\ e_continue' <=> e_continue /\ ~alu_ack
          /\ stall \/ e_continue
      BY <1>5 DEF Hold, NoDispatch
    <2>2. ACCESS \notin e'.wrong
      BY <2>1 DEF AccessInv
    <2>3. LoadStore(e') => e_continue
      BY <2>1 DEF CondInv, ShapeInv, stall
    <2>4. e_continue => LoadStore(e)
      BY DEF CondInv, ShapeInv
    <2> QED BY <1>3, <2>1, <2>2, <2>3, <2>4
  <1>6. CASE UNCHANGED vars
    BY <1>6 DEF vars, stageVars, aluVars, lsVars, seqVars, AccessInv, LoadStore
  <1> QED BY <1>2, <1>4, <1>5, <1>6, NextCases

\* It holds initially.
LEMMA InitAccess == Init => AccessInv
  BY DEF Init, Empty, AccessInv, LoadStore

\* Every load and store that is executed is issued, once, and no other one is,
\* in every such program.
THEOREM AccessesAreOnce ==
  ASSUME CondsApart, IrqApart
  PROVE  Spec => []AccessOnce
  <1>1. AccessInv => AccessOnce
    BY DEF AccessInv, AccessOnce, Issue
  <1> QED BY <1>1, InitCondInv, InitTrace, InitAccess, NextCondInv, NextTrace, NextAccess,
             PTL DEF Spec

-----------------------------------------------------------------------------
(* Waiting for the ALU.                                                    *)

\* The acknowledge that E waits for is that of its own request.
StallInv ==
    /\ alu_req /\ alu_op = "inc" => e_continue
    /\ alu_req /\ alu_op = "shift" => "waitalu" \in e.ex
    /\ alu_req /\ alu_op = "mul" /\ "waitalu" \notin e.ex
          => Threads = {1} /\ "waitalu" \notin Ex(d[1])
    /\ "waitalu" \notin e.ex => ~shifting
    /\ "waitalu" \in e.ex => alu_op \in {"shift", "mul"}
    /\ "waitalu" \in e.ex /\ alu_req => ~busyflag /\ ~shiftack /\ ~shifting
    /\ "waitalu" \in e.ex /\ ~alu_req /\ alu_op = "shift" => ~busyflag /\ (shiftack <=> ~shifting)
    /\ "waitalu" \in e.ex /\ ~alu_req /\ alu_op = "mul" => busyflag /\ ~shifting

\* When E moves on, the shifter is done, and only a byt leaves an acknowledge.
LEMMA AluWhenMoving ==
  ASSUME TypeOK, StallInv, ~stall, ~e_continue, NEW out, NEW next, NEW leaves,
         Edge(out, next, leaves)
  PROVE  /\ ~shifting' /\ ~shiftack'
         /\ busyflag' => Threads = {1} /\ "waitalu" \notin Ex(d[1])
  <1>1. ~(alu_req /\ alu_op = "shift")
    BY DEF StallInv, stall, alu_ack
  <1>2. ~shifting
    BY DEF StallInv, stall, alu_ack
  <1>3. ~shifting' /\ ~shiftack'
    BY <1>1, <1>2 DEF Edge, Alu, Shifter
  <1>4. ASSUME busyflag' PROVE Threads = {1} /\ "waitalu" \notin Ex(d[1])
    <2>1. alu_req /\ alu_op \in {"inc", "mul"}
      BY <1>4 DEF Edge, Alu
    <2>2. alu_op = "mul"
      BY <2>1 DEF StallInv
    <2>3. "waitalu" \notin e.ex
      BY <2>1, <2>2 DEF StallInv, stall, alu_ack
    <2> QED BY <2>1, <2>2, <2>3 DEF StallInv
  <1> QED BY <1>3, <1>4

\* Every clock edge keeps StallInv.
LEMMA NextStall == BytApart /\ CondInv /\ StallInv /\ [Next]_vars => StallInv'
  <1> SUFFICES ASSUME BytApart, CondInv, StallInv, [Next]_vars PROVE StallInv'
    OBVIOUS
  <1>1. ASSUME NEW t \in Threads, NEW next \in Fetched(t), NEW pass \in Outcomes(d[t]),
               Dispatch(t, next, pass)
        PROVE  StallInv'
    <2>1. /\ ~stall /\ ~e_continue /\ Edge({t}, next, TRUE) /\ e' = ToE(t, pass)
          /\ e_continue' <=> "postinc" \in Ex(d[t]) /\ ~flag_cond[t]
          /\ alu_op' = AluFunc(d[t])
          /\ alu_req' <=> ~Masked(t)
      BY <1>1 DEF Dispatch, Masked
    <2>2. TypeOK /\ (Masked(t) <=> flag_cond[t])
      BY MaskedIsSkipped DEF CondInv
    <2>3. d[t] \in InD
      BY <2>2, Types
    <2>4. /\ ~shifting' /\ ~shiftack'
          /\ busyflag' => Threads = {1} /\ "waitalu" \notin Ex(d[1])
      BY <2>1, <2>2, AluWhenMoving
    <2>5. alu_req' => e'.ex = Ex(d[t])
      BY <2>1, ToEEx
    <2>6. "waitalu" \in e'.ex => alu_req' /\ e'.ex = Ex(d[t])
      BY <2>1, ToEEx
    <2>7. alu_req' /\ alu_op' = "inc" => e_continue'
      <3>1. AluFunc(d[t]) = "inc" => "postinc" \in Ex(d[t])
        BY <2>3, InDCases, ExOpPostinc DEF AluFunc
      <3> QED BY <2>1, <2>2, <3>1
    <2>8. alu_req' /\ alu_op' = "shift" => "waitalu" \in e'.ex
      <3>1. AluFunc(d[t]) = "shift" => "waitalu" \in Ex(d[t])
        BY <2>3, InDCases, ExOpWaits DEF AluFunc
      <3> QED BY <2>1, <2>5, <3>1
    <2>9. ASSUME alu_req', alu_op' = "mul", "waitalu" \notin e'.ex
          PROVE  Threads = {1} /\ "waitalu" \notin Ex(d'[1])
      <3>1. AluFunc(d[t]) = "mul" /\ "waitalu" \notin Ex(d[t])
        BY <2>1, <2>5, <2>9
      <3>2. d[t] \in Program /\ IsByt(d[t])
        BY <2>3, <3>1, InDCases, ExOpWaits DEF AluFunc, IsByt
      <3>3. Threads = {1} /\ t = 1
        BY <3>2 DEF BytApart
      <3>4. <<d[t], next>> \in Adjacent
        BY <3>2 DEF Fetched
      <3>5. "waitalu" \notin Ex(next)
        BY <3>2, <3>4 DEF BytApart
      <3>6. d'[t] = IF TakesInterrupt(t, next) THEN IntXor ELSE next
        BY <1>1, <2>2, DispatchD
      <3>7. "waitalu" \notin Ex(IntXor)
        BY DEF Ex, IntXor
      <3> QED BY <3>3, <3>5, <3>6, <3>7
    <2>10. "waitalu" \in e'.ex => alu_op' \in {"shift", "mul"}
      <3>1. "waitalu" \in Ex(d[t]) => AluFunc(d[t]) \in {"shift", "mul"}
        BY <2>3, InDCases, ExOpWaits
      <3> QED BY <2>1, <2>6, <3>1
    <2>11. "waitalu" \in e'.ex => ~busyflag'
      <3>1. Threads = {1} => t = 1
        OBVIOUS
      <3> QED BY <2>4, <2>6, <3>1
    <2> QED BY <2>4, <2>6, <2>7, <2>8, <2>9, <2>10, <2>11 DEF StallInv
  <1>2. CASE InsertBubble
    <2>1. /\ ~stall /\ ~e_continue /\ Edge({}, Bubble(0), TRUE) /\ e' = Empty(e.thread)
          /\ ~alu_req'
      BY <1>2 DEF InsertBubble, NoDispatch
    <2>2. "waitalu" \notin e'.ex
      BY <2>1 DEF Empty
    <2>3. ~shifting'
      BY <2>1, AluWhenMoving DEF CondInv
    <2> QED BY <2>1, <2>2, <2>3 DEF StallInv
  <1>3. CASE Hold
    <2>1. /\ stall \/ e_continue
          /\ Edge({}, Bubble(0), FALSE) /\ e' = e /\ ~alu_req' /\ alu_op' = alu_op
      BY <1>3 DEF Hold, NoDispatch
    <2>2. "waitalu" \notin e'.ex => ~shifting'
      BY <2>1 DEF StallInv, Edge, Alu, Shifter
    <2>3. "waitalu" \in e'.ex => alu_op' \in {"shift", "mul"}
      BY <2>1 DEF StallInv
    <2>4. "waitalu" \in e.ex => ~alu_ack
      BY <2>1 DEF CondInv, ShapeInv, stall
    <2>5. ASSUME "waitalu" \in e.ex, alu_op = "shift"
          PROVE  ~busyflag' /\ (shiftack' <=> ~shifting')
      <3>1. ~busyflag'
        BY <2>1, <2>5 DEF Edge, Alu
      <3>2. CASE alu_req
        BY <2>1, <2>5, <3>2 DEF Edge, Alu, Shifter
      <3>3. CASE ~alu_req
        <4>1. shifting
          BY <2>4, <2>5, <3>3 DEF StallInv, alu_ack
        <4> QED BY <2>1, <3>3, <4>1 DEF Edge, Alu, Shifter
      <3> QED BY <3>1, <3>2, <3>3
    <2>6. ASSUME "waitalu" \in e.ex, alu_op = "mul"
          PROVE  busyflag' /\ ~shifting'
      <3>1. alu_req
        BY <2>4, <2>6 DEF StallInv, alu_ack
      <3>2. ~shifting
        BY <2>6, <3>1 DEF StallInv
      <3> QED BY <2>1, <2>6, <3>1, <3>2 DEF Edge, Alu, Shifter
    <2> QED BY <2>1, <2>2, <2>3, <2>5, <2>6 DEF StallInv
  <1>4. CASE UNCHANGED vars
    BY <1>4 DEF vars, threadVars, stageVars, aluVars, StallInv
  <1> QED BY <1>1, <1>2, <1>3, <1>4, NextCases

\* A multiplication or a shift leaves E only with its own result: never on the
\* acknowledge of an instruction before it, in every such program that keeps byt
\* apart from them as well.
THEOREM StallsAreLongEnough ==
  ASSUME CondsApart, IrqApart, BytApart
  PROVE  Spec => []StallIsLongEnough
  <1>1. Init => StallInv
    BY DEF Init, Empty, StallInv
  <1>2. StallInv => StallIsLongEnough
    BY DEF StallInv, StallIsLongEnough, AluReady, stall, alu_ack
  <1> QED BY <1>1, <1>2, InitCondInv, NextCondInv, NextStall, PTL DEF Spec
=============================================================================
