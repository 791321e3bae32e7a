-------------------------- MODULE PipelineDataProofs --------------------------
(***************************************************************************)
(* Proofs about Pipeline, continued: what the instructions are given.      *)
(***************************************************************************)
EXTENDS PipelineProofs

-----------------------------------------------------------------------------
(* What instructions write.                                                *)

\* All that a stage would write.
StageWrites(s) == WritesOf(s.ex, s.reg)

\* What is overtaken in thread t by what leaves D.
Taken(t, out) == IF t \in out /\ Live(t) THEN Writes(d[t]) ELSE {}

\* The three kinds of things that are written.
LEMMA WritesOfIs ==
  ASSUME NEW ex, NEW reg \in 0 .. 7
  PROVE  /\ TMP \in WritesOf(ex, reg) <=> ex \cap {"q1totmp", "q2totmp", "load"} # {}
         /\ FLAGS \in WritesOf(ex, reg) <=> \/ ex \cap {"flags", "load"} # {}
                                            \/ "q1toreg" \in ex /\ reg = PC
         /\ \A r : r # TMP /\ r # FLAGS =>
               (r \in WritesOf(ex, reg) <=> "q1toreg" \in ex /\ reg # PC /\ r = reg)
  BY DEF WritesOf, TMP, FLAGS, PC

\* Whatever sets tmp or the flags is a load, reads tmp, or sets tmp from the
\* second operand: so it waits for the loads before it.
LEMMA WritersWait ==
  ASSUME NEW i \in InD, Writes(i) \cap {TMP, FLAGS} # {}
  PROVE  \/ Ex(i) \cap {"load", "store"} # {}
         \/ "q2totmp" \in Ex(i)
         \/ i \in Program /\ "tmp" \in {AluReg1(i), AluReg2(i)}
  <1>1. CASE i \in Instruction /\ i \in Program /\ Ex(i) = ExOp(i)
    <2>1. i.reg \in 0 .. 7 /\ i.op \in Opcodes
      BY <1>1 DEF Instruction
    <2>2. \/ ExOp(i) \cap {"q1totmp", "q2totmp", "load", "flags"} # {}
          \/ "q1toreg" \in ExOp(i) /\ i.reg = PC
      BY <1>1, <2>1, WritesOfIs DEF Writes
    <2>3. \/ ExOp(i) \cap {"load", "store"} # {}
          \/ "q2totmp" \in ExOp(i)
          \/ "tmp" \in {AluReg1(i), AluReg2(i)}
      BY <2>1, <2>2 DEF ExOp, OverloadedEx, AluReg1, AluReg2, Opcodes, PC
    <2> QED BY <1>1, <2>3
  <1>2. CASE Ex(i) = {"q1toreg", "q2totmp", "flags"}
    BY <1>2
  <1>3. CASE Ex(i) = {} /\ i.reg \in 0 .. 7
    BY <1>3, WritesOfIs DEF Writes
  <1> QED BY <1>1, <1>2, <1>3, InDCases

\* A load that sets tmp from an operand as well does not exist.
LEMMA LoadOnly ==
  ASSUME NEW i \in InD
  PROVE  "load" \in Ex(i) => Ex(i) \cap {"q1totmp", "q2totmp", "flags"} = {}
  <1>1. CASE i \in Instruction /\ Ex(i) = ExOp(i)
    <2>1. "load" \in ExOp(i) => ExOp(i) \cap {"q1totmp", "q2totmp", "flags"} = {}
      BY <1>1 DEF Instruction, ExOp, OverloadedEx, Opcodes, PC
    <2> QED BY <1>1, <2>1
  <1>2. CASE Ex(i) = {"q1toreg", "q2totmp", "flags"}
    BY <1>2
  <1>3. CASE Ex(i) = {}
    BY <1>3
  <1> QED BY <1>1, <1>2, <1>3, InDCases

-----------------------------------------------------------------------------
(* What a clock edge does to the stages.                                   *)

\* An instruction that has been overtaken is no longer the newest writer.
LEMMA OvertakenNewest ==
  ASSUME NEW s \in Stage, NEW out
  PROVE  Overtaken(s, out).newest = s.newest \ Taken(s.thread, out)
  <1>1. CASE s.thread \in out /\ Live(s.thread)
    <2> DEFINE x == Writes(d[s.thread])
    <2>1. Overtaken(s, out) = [s EXCEPT !.newest = s.newest \ x]
      BY <1>1 DEF Overtaken
    <2>2. Taken(s.thread, out) = x
      BY <1>1 DEF Taken
    <2> HIDE DEF x
    <2>3. [s EXCEPT !.newest = s.newest \ x].newest = s.newest \ x
      BY DEF Stage
    <2> QED BY <2>1, <2>2, <2>3
  <1>2. CASE ~(s.thread \in out /\ Live(s.thread))
    BY <1>2 DEF Overtaken, Taken
  <1> QED BY <1>1, <1>2

\* What is in M and W next.
LEMMA EdgeStages ==
  ASSUME TypeOK, EnteringInv, NEW out, NEW next, NEW leaves, Edge(out, next, leaves)
  PROVE  /\ \/ /\ flag_cond[e.thread]
               /\ m'.ex = {} /\ m'.newest = {} /\ ~m'.final
            \/ /\ ~flag_cond[e.thread]
               /\ m'.ex = e.ex /\ m'.reg = e.reg /\ m'.thread = e.thread
               /\ m'.live = e.live /\ m'.newest = e.newest \ Taken(e.thread, out)
               /\ m'.final <=> leaves /\ AluReady
         /\ \/ /\ ls_req_r /\ ~ls_ack
               /\ w'.ex = w.ex /\ w'.reg = w.reg /\ w'.thread = w.thread
               /\ w'.live = w.live /\ w'.newest = w.newest \ Taken(w.thread, out)
            \/ /\ ~(ls_req_r /\ ~ls_ack) /\ LoadStore(m)
               /\ w'.ex = m.ex /\ w'.reg = m.reg /\ w'.thread = m.thread
               /\ w'.live = m.live /\ w'.newest = m.newest \ Taken(m.thread, out)
            \/ /\ ~(ls_req_r /\ ~ls_ack) /\ ~LoadStore(m)
               /\ w'.ex = {} /\ w'.newest = {}
  <1>1. /\ e \in Stage /\ m \in Stage /\ w \in Stage
        /\ Overtaken(e, out) \in Stage /\ e.thread \in Threads
    BY Types, StageType, OvertakenType
  <1>2. Masked(e.thread) <=> flag_cond[e.thread]
    BY <1>1, MaskedIsSkipped
  <1>3. ASSUME flag_cond[e.thread]
        PROVE  m'.ex = {} /\ m'.newest = {} /\ ~m'.final
    <2>1. m' = Empty(e.thread)
      BY <1>2, <1>3 DEF Edge, MemStage
    <2> QED BY <2>1 DEF Empty
  <1>4. ASSUME ~flag_cond[e.thread]
        PROVE  /\ m'.ex = e.ex /\ m'.reg = e.reg /\ m'.thread = e.thread
               /\ m'.live = e.live /\ m'.newest = e.newest \ Taken(e.thread, out)
               /\ m'.final <=> leaves /\ AluReady
    <2>1. m' = [Overtaken(e, out) EXCEPT !.final = leaves /\ AluReady]
      BY <1>2, <1>4 DEF Edge, MemStage
    <2>2. /\ m'.ex = Overtaken(e, out).ex /\ m'.reg = Overtaken(e, out).reg
          /\ m'.thread = Overtaken(e, out).thread /\ m'.live = Overtaken(e, out).live
          /\ m'.newest = Overtaken(e, out).newest
          /\ m'.final = (leaves /\ AluReady)
      BY <1>1, <2>1 DEF Stage
    <2> QED BY <1>1, <2>2, OvertakenSame, OvertakenNewest
  <1>5. ASSUME ls_req_r /\ ~ls_ack
        PROVE  /\ w'.ex = w.ex /\ w'.reg = w.reg /\ w'.thread = w.thread
               /\ w'.live = w.live /\ w'.newest = w.newest \ Taken(w.thread, out)
    <2>1. w' = Overtaken(w, out)
      BY <1>5 DEF Edge, WriteStage
    <2> QED BY <1>1, <2>1, OvertakenSame, OvertakenNewest
  <1>6. ASSUME ~(ls_req_r /\ ~ls_ack), LoadStore(m)
        PROVE  /\ w'.ex = m.ex /\ w'.reg = m.reg /\ w'.thread = m.thread
               /\ w'.live = m.live /\ w'.newest = m.newest \ Taken(m.thread, out)
    <2>1. w' = Overtaken(m, out)
      BY <1>6 DEF Edge, WriteStage
    <2> QED BY <1>1, <2>1, OvertakenSame, OvertakenNewest
  <1>7. ASSUME ~(ls_req_r /\ ~ls_ack), ~LoadStore(m)
        PROVE  w'.ex = {} /\ w'.newest = {}
    <2>1. w' = Empty(m.thread)
      BY <1>7 DEF Edge, WriteStage
    <2> QED BY <2>1 DEF Empty
  <1> QED BY <1>3, <1>4, <1>5, <1>6, <1>7

\* A clock edge, seen from the stages: either E is free to move on, and the next
\* instruction or a bubble takes its place; or it stays.
Moves(out, next, leaves) ==
    /\ Edge(out, next, leaves)
    /\ \A t \in Threads : t # e'.thread => t \notin out
    /\ \/ /\ leaves /\ ~stall /\ ~e_continue
          /\ e'.newest = Taken(e'.thread, out)
          /\ e'.live => StageWrites(e') = Taken(e'.thread, out)
          /\ e'.newest # {} => e'.live
       \/ ~leaves /\ out = {} /\ e' = e /\ Hold

\* All clock edges are of this form.
LEMMA NextMoves ==
  ASSUME CondInv, Next
  PROVE  \E out, next : \E leaves \in BOOLEAN : Moves(out, next, leaves)
  <1> USE DEF CondInv
  <1>1. ASSUME NEW t \in Threads, NEW next \in Fetched(t), NEW pass \in Outcomes(d[t]),
               Dispatch(t, next, pass)
        PROVE  Moves({t}, next, TRUE)
    <2>1. /\ Edge({t}, next, TRUE) /\ ~stall /\ ~e_continue
          /\ e' = ToE(t, pass)
      BY <1>1 DEF Dispatch
    <2>2. e'.thread = t /\ e'.reg = d[t].reg /\ e'.live = Live(t)
      BY <2>1, ToEFields
    <2>3. e'.newest = Taken(t, {t})
      BY <2>1 DEF ToE, Taken
    <2>4. ASSUME Live(t) PROVE StageWrites(e') = Writes(d[t])
      <3>1. ~flag_cond[t]
        BY <2>4 DEF Live, SkipInv, SkipIsExact, CondIn
      <3>2. e'.ex = Ex(d[t])
        BY <2>1, <3>1, ToEEx DEF Masked
      <3> QED BY <2>2, <3>2 DEF StageWrites, Writes
    <2>5. e'.live => StageWrites(e') = Taken(t, {t})
      BY <2>2, <2>4 DEF Taken
    <2>6. e'.newest # {} => e'.live
      BY <2>2, <2>3 DEF Taken
    <2> QED BY <2>1, <2>2, <2>3, <2>5, <2>6 DEF Moves
  <1>2. CASE InsertBubble
    <2>1. Edge({}, Bubble(0), TRUE) /\ ~stall /\ ~e_continue
      BY <1>2 DEF InsertBubble, NoDispatch
    <2>2. e'.newest = {} /\ e'.live = FALSE
      BY <1>2 DEF InsertBubble, Empty
    <2>3. Taken(e'.thread, {}) = {}
      BY DEF Taken
    <2>4. Moves({}, Bubble(0), TRUE)
      BY <2>1, <2>2, <2>3 DEF Moves
    <2> QED BY <2>4
  <1>3. CASE Hold
    <2>1. Moves({}, Bubble(0), FALSE)
      BY <1>3 DEF Hold, NoDispatch, Moves
    <2> QED BY <2>1
  <1> QED BY <1>1, <1>2, <1>3, NextCases

-----------------------------------------------------------------------------
(* What is in flight.                                                      *)

\* The invariants proved so far.
CoreInv == CondInv /\ TraceInv /\ AccessInv /\ StallInv

\* A post-increment has its second cycle in E after its request to the ALU.
PostincInv == /\ "postinc" \in e.ex => LoadStore(e)
              /\ "postinc" \in e.ex /\ ~e_continue => ~alu_req

\* The newest writers are executed, and write what they are the newest writers of.
NewestInv == \A s \in {e, m, w} : /\ s.newest \subseteq StageWrites(s)
                                  /\ s.newest # {} => s.live

\* Two stages hold the same instruction.
SameIn(s1, s2) == s1.thread = s2.thread /\ s1.ex = s2.ex /\ s1.newest = s2.newest

\* While a load or store is in two stages, these are the two cycles of the same
\* one; one in W has its request out.
SameInv == /\ LoadStore(m) /\ LoadStore(e) => SameIn(m, e)
           /\ LoadStore(w) /\ LoadStore(m) => SameIn(w, m)
           /\ LoadStore(w) => ls_req_r

\* Every clock edge keeps PostincInv.
LEMMA NextPostinc == CoreInv /\ PostincInv /\ [Next]_vars => PostincInv'
  <1> SUFFICES ASSUME CoreInv, PostincInv, [Next]_vars PROVE PostincInv'
    OBVIOUS
  <1> USE DEF CoreInv, CondInv
  <1>1. ASSUME NEW t \in Threads, NEW next \in Fetched(t), NEW pass \in Outcomes(d[t]),
               Dispatch(t, next, pass)
        PROVE  PostincInv'
    <2>1. /\ e' = ToE(t, pass)
          /\ e_continue' <=> "postinc" \in Ex(d[t]) /\ ~flag_cond[t]
      BY <1>1 DEF Dispatch
    <2>2. d[t] \in InD
      BY Types
    <2>3. "postinc" \in e'.ex => e'.ex = Ex(d[t]) /\ ~flag_cond[t]
      BY <2>1, ToEEx, MaskedIsSkipped
    <2>4. "postinc" \in e'.ex => LoadStore(e')
      BY <2>2, <2>3, PostincInD DEF LoadStore
    <2> QED BY <2>1, <2>3, <2>4 DEF PostincInv, LoadStore
  <1>2. CASE InsertBubble
    BY <1>2 DEF InsertBubble, Empty, PostincInv
  <1>3. CASE Hold
    BY <1>3 DEF Hold, NoDispatch, PostincInv, LoadStore
  <1>4. CASE UNCHANGED vars
    BY <1>4 DEF vars, stageVars, aluVars, PostincInv, LoadStore
  <1> QED BY <1>1, <1>2, <1>3, <1>4, NextCases

\* Every clock edge keeps NewestInv.
LEMMA NextNewest == CoreInv /\ NewestInv /\ [Next]_vars => NewestInv'
  <1> SUFFICES ASSUME CoreInv, NewestInv, [Next]_vars PROVE NewestInv'
    OBVIOUS
  <1> USE DEF CoreInv, CondInv
  <1>1. CASE Next
    <2>1. PICK out, next : \E leaves \in BOOLEAN : Moves(out, next, leaves)
      BY <1>1, NextMoves
    <2>2. PICK leaves \in BOOLEAN : Moves(out, next, leaves)
      BY <2>1
    <2>3. Edge(out, next, leaves)
      BY <2>2 DEF Moves
    <2>4. e'.newest \subseteq StageWrites(e') /\ (e'.newest # {} => e'.live)
      BY <2>2 DEF Moves, NewestInv
    <2>5. m'.newest \subseteq StageWrites(m') /\ (m'.newest # {} => m'.live)
      BY <2>3, EdgeStages DEF NewestInv, StageWrites
    <2>6. w'.newest \subseteq StageWrites(w') /\ (w'.newest # {} => w'.live)
      BY <2>3, EdgeStages DEF NewestInv, StageWrites
    <2> QED BY <2>4, <2>5, <2>6 DEF NewestInv, StageWrites
  <1>2. CASE UNCHANGED vars
    BY <1>2 DEF vars, stageVars, NewestInv, StageWrites
  <1> QED BY <1>1, <1>2

\* Every clock edge keeps SameInv.
LEMMA NextSame == CoreInv /\ SameInv /\ [Next]_vars => SameInv'
  <1> SUFFICES ASSUME CoreInv, SameInv, [Next]_vars PROVE SameInv'
    OBVIOUS
  <1> USE DEF CoreInv, CondInv
  <1>1. CASE Next
    <2>1. PICK out, next : \E leaves \in BOOLEAN : Moves(out, next, leaves)
      BY <1>1, NextMoves
    <2>2. PICK leaves \in BOOLEAN : Moves(out, next, leaves)
      BY <2>1
    <2>3. Edge(out, next, leaves)
      BY <2>2 DEF Moves
    <2>4. LoadStore(w') => ls_req_r'
      BY <2>3, AccessEdge DEF AccessInv, SameInv, Issue
    <2>5. ASSUME LoadStore(m'), LoadStore(e')
          PROVE  SameIn(m', e')
      <3>1. CASE out = {} /\ e' = e
        <4>1. Taken(e.thread, out) = {}
          BY <3>1 DEF Taken
        <4>2. m'.ex # {}
          BY <2>5 DEF LoadStore
        <4> QED BY <2>3, <3>1, <4>1, <4>2, EdgeStages DEF SameIn
      <3>2. CASE ~(out = {} /\ e' = e)
        <4>1. ~stall /\ ~e_continue /\ ~Hold
          BY <2>2, <3>2 DEF Moves, Hold
        <4>2. LoadStore(e') => ~LoadStore(m')
          <5>1. ASSUME NEW t \in Threads, NEW nx \in Fetched(t), NEW pass \in Outcomes(d[t]),
                       Dispatch(t, nx, pass), ~Hazard(t)
                PROVE  LoadStore(e') => ~LoadStore(e)
            <6>1. e' = ToE(t, pass)
              BY <5>1 DEF Dispatch
            <6>2. LoadStore(e') => Ex(d[t]) \cap {"load", "store"} # {}
              BY <6>1, ToEEx DEF LoadStore
            <6> QED BY <5>1, <6>2 DEF Hazard, HazardLoad
          <5>2. InsertBubble => ~LoadStore(e')
            BY DEF InsertBubble, Empty, LoadStore
          <5>3. LoadStore(e') => ~LoadStore(e)
            BY <1>1, <4>1, <5>1, <5>2, NextCases
          <5> QED BY <2>3, <5>3, AccessEdge
        <4> QED BY <2>5, <4>2
      <3> QED BY <3>1, <3>2
    <2>6. ASSUME LoadStore(w'), LoadStore(m')
          PROVE  SameIn(w', m')
      <3>1. LoadStore(e) /\ m'.ex # {}
        BY <2>3, <2>6, AccessEdge DEF LoadStore
      <3>2. /\ m'.ex = e.ex /\ m'.thread = e.thread
            /\ m'.newest = e.newest \ Taken(e.thread, out)
        BY <2>3, <3>1, EdgeStages
      <3>3. CASE ls_req_r /\ ~ls_ack
        <4>1. /\ w'.ex = w.ex /\ w'.thread = w.thread
              /\ w'.newest = w.newest \ Taken(w.thread, out)
          BY <2>3, <3>3, EdgeStages
        <4>2. LoadStore(m) /\ LoadStore(w)
          BY <3>1, <3>3 DEF AccessInv
        <4>3. SameIn(m, e) /\ SameIn(w, m)
          BY <3>1, <4>2 DEF SameInv
        <4> QED BY <3>2, <4>1, <4>3 DEF SameIn
      <3>4. CASE ~(ls_req_r /\ ~ls_ack)
        <4>1. w'.ex # {}
          BY <2>6 DEF LoadStore
        <4>2. /\ LoadStore(m)
              /\ w'.ex = m.ex /\ w'.thread = m.thread
              /\ w'.newest = m.newest \ Taken(m.thread, out)
          BY <2>3, <3>4, <4>1, EdgeStages
        <4>3. SameIn(m, e)
          BY <3>1, <4>2 DEF SameInv
        <4> QED BY <3>2, <4>2, <4>3 DEF SameIn
      <3> QED BY <3>3, <3>4
    <2> QED BY <2>4, <2>5, <2>6 DEF SameInv, SameIn, LoadStore
  <1>2. CASE UNCHANGED vars
    BY <1>2 DEF vars, stageVars, lsVars, SameInv, SameIn, LoadStore
  <1> QED BY <1>1, <1>2

\* When M shows the result of the ALU, a post-increment is not being acknowledged
\* any more, and what is in E is another instruction.
FinalInv == /\ m.final /\ "postinc" \in m.ex => ~alu_ack
            /\ m.final /\ e.live /\ e.thread = m.thread
                  => m.newest \cap StageWrites(e) = {}

\* s1 holds a load and s2 something behind it that sets tmp or the flags, too.
Passes(s1, s2) == /\ "load" \in s1.ex /\ s1.thread = s2.thread
                  /\ StageWrites(s2) \cap {TMP, FLAGS} # {}
                  /\ "load" \notin s2.ex

\* Nothing that sets tmp or the flags follows a load that is still in flight.
LoadsFirst == ~Passes(w, m) /\ ~Passes(w, e) /\ ~Passes(m, e)

\* The result of what leaves E is that of the ALU.
LEMMA LeavesReady ==
  ASSUME CoreInv, PostincInv, ~stall, ~e_continue
  PROVE  AluReady
  <1>1. "waitalu" \in e.ex => ~alu_req /\ ~shifting
    BY DEF CoreInv, StallInv, stall, alu_ack
  <1>2. "postinc" \in e.ex => ~alu_req
    BY DEF PostincInv
  <1>3. "postinc" \in e.ex => "waitalu" \notin e.ex
    BY DEF PostincInv, CoreInv, CondInv, ShapeInv
  <1>4. "postinc" \in e.ex => ~shifting
    BY <1>3 DEF CoreInv, StallInv
  <1> QED BY <1>1, <1>2, <1>4 DEF AluReady

\* Every clock edge keeps FinalInv.
LEMMA NextFinal == CoreInv /\ PostincInv /\ FinalInv /\ [Next]_vars => FinalInv'
  <1> SUFFICES ASSUME CoreInv, PostincInv, FinalInv, [Next]_vars PROVE FinalInv'
    OBVIOUS
  <1> USE DEF CoreInv, CondInv
  <1>1. CASE Next
    <2>1. PICK out, next : \E leaves \in BOOLEAN : Moves(out, next, leaves)
      BY <1>1, NextMoves
    <2>2. PICK leaves \in BOOLEAN : Moves(out, next, leaves)
      BY <2>1
    <2>3. Edge(out, next, leaves)
      BY <2>2 DEF Moves
    <2>4. ASSUME m'.final
          PROVE  /\ leaves /\ m'.ex = e.ex /\ m'.thread = e.thread
                 /\ m'.newest = e.newest \ Taken(e.thread, out)
      BY <2>3, <2>4, EdgeStages
    <2>5. ASSUME m'.final, "postinc" \in m'.ex PROVE ~alu_ack'
      <3>1. "postinc" \in e.ex /\ ~e_continue
        BY <2>2, <2>4, <2>5 DEF Moves
      <3>2. ~alu_req
        BY <3>1 DEF PostincInv
      <3>3. ~shifting
        BY <3>1 DEF PostincInv, ShapeInv, StallInv
      <3>4. ~busyflag' /\ ~shiftack'
        BY <2>3, <3>2, <3>3 DEF Edge, Alu, Shifter
      <3> QED BY <3>4 DEF alu_ack
    <2>6. ASSUME m'.final, e'.live, e'.thread = m'.thread
          PROVE  m'.newest \cap StageWrites(e') = {}
      <3>1. StageWrites(e') = Taken(e'.thread, out)
        BY <2>2, <2>4, <2>6 DEF Moves
      <3> QED BY <2>4, <2>6, <3>1
    <2> QED BY <2>5, <2>6 DEF FinalInv, StageWrites
  <1>2. CASE UNCHANGED vars
    BY <1>2 DEF vars, stageVars, aluVars, FinalInv, StageWrites, alu_ack
  <1> QED BY <1>1, <1>2

\* What D knows of the operands of the instruction it holds.
ReadInv == \A t \in Threads : d[t] \in Program =>
    /\ d_read_tmp[t] <=> "tmp" \in {AluReg1(d[t]), AluReg2(d[t])}
    /\ d_read_reg[t] <=> "gpr" \in {AluReg1(d[t]), AluReg2(d[t])}

\* Every clock edge keeps that.
LEMMA NextRead == TypeOK /\ ReadInv /\ [Next]_vars => ReadInv'
  <1> SUFFICES ASSUME TypeOK, ReadInv, [Next]_vars, NEW u \in Threads, d'[u] \in Program
               PROVE  /\ d_read_tmp'[u] <=> "tmp" \in {AluReg1(d'[u]), AluReg2(d'[u])}
                      /\ d_read_reg'[u] <=> "gpr" \in {AluReg1(d'[u]), AluReg2(d'[u])}
    BY DEF ReadInv
  <1>1. IntXor \notin Program /\ \A r : Bubble(r) \notin Program
    BY ProgramAssumption DEF IntXor, Bubble, Instruction, Opcodes
  <1>2. ASSUME NEW t \in Threads, NEW next \in Fetched(t), NEW pass \in Outcomes(d[t]),
               Dispatch(t, next, pass)
        PROVE  /\ d_read_tmp'[u] <=> "tmp" \in {AluReg1(d'[u]), AluReg2(d'[u])}
               /\ d_read_reg'[u] <=> "gpr" \in {AluReg1(d'[u]), AluReg2(d'[u])}
    <2>1. CASE u = t
      <3>1. d'[u] = IF TakesInterrupt(t, next) THEN IntXor ELSE next
        BY <1>2, <2>1, DispatchD
      <3>2. d'[u] = next
        BY <1>1, <3>1
      <3>3. /\ d_read_tmp'[t] <=> "tmp" \in {AluReg1(next), AluReg2(next)}
            /\ d_read_reg'[t] <=> "gpr" \in {AluReg1(next), AluReg2(next)}
        BY <1>2, Types DEF Dispatch
      <3> QED BY <2>1, <3>2, <3>3
    <2>2. CASE u # t
      <3>1. d'[u] = IF setpc[u] THEN Bubble(d[u].reg) ELSE d[u]
        BY <1>2, <2>2, DispatchD
      <3>2. d'[u] = d[u]
        BY <1>1, <3>1
      <3>3. d_read_tmp'[u] = d_read_tmp[u] /\ d_read_reg'[u] = d_read_reg[u]
        BY <1>2, <2>2, Types DEF Dispatch
      <3> QED BY <3>2, <3>3 DEF ReadInv
    <2> QED BY <2>1, <2>2
  <1>3. ASSUME NEW leaves, NoDispatch(leaves)
        PROVE  /\ d_read_tmp'[u] <=> "tmp" \in {AluReg1(d'[u]), AluReg2(d'[u])}
               /\ d_read_reg'[u] <=> "gpr" \in {AluReg1(d'[u]), AluReg2(d'[u])}
    <2>1. d'[u] = IF setpc[u] THEN Bubble(d[u].reg) ELSE d[u]
      BY <1>3, NoDispatchD
    <2>2. d'[u] = d[u]
      BY <1>1, <2>1
    <2>3. d_read_tmp' = d_read_tmp /\ d_read_reg' = d_read_reg
      BY <1>3 DEF NoDispatch
    <2> QED BY <2>2, <2>3 DEF ReadInv
  <1>4. InsertBubble => NoDispatch(TRUE)
    BY DEF InsertBubble
  <1>5. Hold => NoDispatch(FALSE)
    BY DEF Hold
  <1>6. CASE UNCHANGED vars
    BY <1>6 DEF vars, threadVars, ReadInv
  <1> QED BY <1>2, <1>3, <1>4, <1>5, <1>6, NextCases

\* Which thread goes on: the last one, unless that one is paused or leaves
\* neither a chain of li nor a result to be forwarded.
LEMMA NextTurn ==
  ASSUME TypeOK, Next
  PROVE  \/ \E t \in Threads : \E next \in Fetched(t), pass \in Outcomes(d[t]) :
              /\ Dispatch(t, next, pass)
              /\ ~pause[t] /\ ~Hazard(t)
              /\ \/ e.thread = t
                 \/ pause[e.thread]
                 \/ alu_op # "li" /\ ~alu_forward_q2tod1
         \/ InsertBubble
         \/ Hold
  <1>1. CASE \E t \in UNION {Dispatching(valid) : valid \in SUBSET CanHaveOpcode} :
               \E next \in Fetched(t), pass \in Outcomes(d[t]) : Dispatch(t, next, pass)
    <2>1. PICK t \in UNION {Dispatching(valid) : valid \in SUBSET CanHaveOpcode} :
               \E next \in Fetched(t), pass \in Outcomes(d[t]) : Dispatch(t, next, pass)
      BY <1>1
    <2>2. PICK valid \in SUBSET CanHaveOpcode : t \in Dispatching(valid)
      OBVIOUS
    <2>3. t \in Threads /\ MayDispatch(t, valid)
      BY <2>2 DEF Dispatching
    <2>4. ~pause[t] /\ ~Hazard(t)
      BY <2>3 DEF MayDispatch
    <2>5. e.thread \in Threads
      BY Types, StageType
    <2>6. \/ e.thread = t
          \/ pause[e.thread]
          \/ alu_op # "li" /\ ~alu_forward_q2tod1
      BY <2>3, <2>5 DEF MayDispatch
    <2> QED BY <2>1, <2>3, <2>4, <2>6
  <1> QED BY <1>1 DEF Next

\* A result is forwarded to the next instruction of the same thread, which is
\* not paused and takes it as its first operand; no load is in flight then.
ForwardInv == alu_forward_q2tod1 =>
    /\ "load" \notin e.ex /\ "load" \notin m.ex /\ "load" \notin w.ex
    /\ ~pause[e.thread]
    /\ d[e.thread] \in Program => AluReg1(d[e.thread]) = "tmp"
    /\ aluTmp = e.thread \/ skipping[e.thread]

\* Without loads in E, M and W there are none in M and W next.
LEMMA NoLoads ==
  ASSUME TypeOK, EnteringInv, NEW out, NEW next, NEW leaves, Edge(out, next, leaves),
         "load" \notin e.ex, "load" \notin m.ex, "load" \notin w.ex
  PROVE  "load" \notin m'.ex /\ "load" \notin w'.ex
  <1>1. m'.ex = e.ex \/ m'.ex = {}
    BY EdgeStages
  <1>2. w'.ex = w.ex \/ w'.ex = m.ex \/ w'.ex = {}
    BY EdgeStages
  <1> QED BY <1>1, <1>2

\* Every clock edge keeps ForwardInv.
LEMMA NextForward == CondsApart /\ CoreInv /\ ForwardInv /\ [Next]_vars => ForwardInv'
  <1> SUFFICES ASSUME CondsApart, CoreInv, ForwardInv, [Next]_vars, alu_forward_q2tod1'
               PROVE  /\ "load" \notin e'.ex /\ "load" \notin m'.ex /\ "load" \notin w'.ex
                      /\ ~pause'[e'.thread]
                      /\ d'[e'.thread] \in Program => AluReg1(d'[e'.thread]) = "tmp"
                      /\ aluTmp' = e'.thread \/ skipping'[e'.thread]
    BY DEF ForwardInv
  <1> USE DEF CoreInv, CondInv
  <1>1. ASSUME NEW t \in Threads, NEW next \in Fetched(t), NEW pass \in Outcomes(d[t]),
               Dispatch(t, next, pass), ~pause[t], ~Hazard(t)
        PROVE  /\ "load" \notin e'.ex /\ "load" \notin m'.ex /\ "load" \notin w'.ex
               /\ ~pause'[e'.thread]
               /\ d'[e'.thread] \in Program => AluReg1(d'[e'.thread]) = "tmp"
               /\ aluTmp' = e'.thread \/ skipping'[e'.thread]
    <2>1. /\ Edge({t}, next, TRUE) /\ e' = ToE(t, pass)
          /\ aluTmp' = IF Live(t) /\ "q2totmp" \in Ex(d[t]) THEN t ELSE 0
          /\ skipping' = [skipping EXCEPT ![t] = NextSkipping(t, pass)]
      BY <1>1 DEF Dispatch
    <2>2. /\ ~flag_cond[t] /\ ~interrupt /\ ~PauseNow
          /\ "q2totmp" \in Ex(d[t]) /\ AluReg1(next) = "tmp"
      BY <1>1 DEF Dispatch
    <2>3. e'.thread = t
      BY <2>1, ToEFields
    <2>4. d[t] \in InD
      BY Types
    <2>5. "load" \notin e.ex /\ "load" \notin m.ex /\ "load" \notin w.ex
      BY <1>1, <2>2 DEF Hazard, HazardLoadWrTmp
    <2>6. "load" \notin e'.ex
      BY <2>1, <2>2, <2>4, LoadOnly, ToEEx
    <2>7. "load" \notin m'.ex /\ "load" \notin w'.ex
      BY <2>1, <2>5, NoLoads
    <2>8. ~pause'[t]
      <3>1. pause'[t] = NextPause(t)
        BY <2>1 DEF Edge
      <3> QED BY <1>1, <2>2, <3>1 DEF NextPause
    <2>9. d'[t] = next
      BY <1>1, <2>2, DispatchD DEF TakesInterrupt
    <2>10. aluTmp' = t \/ skipping'[t]
      <3>1. CASE Live(t)
        BY <2>1, <2>2, <3>1
      <3>2. CASE ~Live(t)
        <4>1. skipping[t]
          BY <2>2, <3>2 DEF Live, Ex
        <4>2. CondIn(t) /\ ~e.pass
          BY <2>2, <4>1 DEF SkipInv, SkipIsExact, CondIn
        <4>3. d[t].op # "cond" /\ ~WritesPc(d[t])
          BY <4>2, BehindCondIs DEF SkipInv
        <4>4. skipping'[t] = skipping[t]
          BY <2>1, <4>3, Types DEF NextSkipping
        <4> QED BY <4>1, <4>4
      <3> QED BY <3>1, <3>2
    <2> QED BY <2>2, <2>3, <2>6, <2>7, <2>8, <2>9, <2>10
  <1>2. ASSUME NEW leaves, NoDispatch(leaves), Edge({}, Bubble(0), leaves),
               e'.ex = e.ex \/ e'.ex = {}, e'.thread = e.thread
        PROVE  /\ "load" \notin e'.ex /\ "load" \notin m'.ex /\ "load" \notin w'.ex
               /\ ~pause'[e'.thread]
               /\ d'[e'.thread] \in Program => AluReg1(d'[e'.thread]) = "tmp"
               /\ aluTmp' = e'.thread \/ skipping'[e'.thread]
    <2>1. /\ alu_forward_q2tod1 /\ ~PauseNow /\ aluTmp' = aluTmp /\ skipping' = skipping
      BY <1>2 DEF NoDispatch
    <2>2. "load" \notin m'.ex /\ "load" \notin w'.ex
      BY <1>2, <2>1, NoLoads DEF ForwardInv
    <2>3. e.thread \in Threads
      BY Types, StageType
    <2>4. ~pause'[e.thread]
      <3>1. pause'[e.thread] = NextPause(e.thread)
        BY <1>2, <2>3 DEF Edge
      <3> QED BY <2>1, <3>1 DEF NextPause, ForwardInv
    <2>5. ASSUME d'[e.thread] \in Program PROVE AluReg1(d'[e.thread]) = "tmp"
      <3>1. d'[e.thread] = IF setpc[e.thread] THEN Bubble(d[e.thread].reg) ELSE d[e.thread]
        BY <1>2, <2>3, NoDispatchD
      <3>2. Bubble(d[e.thread].reg) \notin Program
        BY ProgramAssumption DEF Bubble, Instruction, Opcodes
      <3>3. d'[e.thread] = d[e.thread]
        BY <2>5, <3>1, <3>2
      <3> QED BY <2>1, <2>5, <3>3 DEF ForwardInv
    <2> QED BY <1>2, <2>1, <2>2, <2>4, <2>5 DEF ForwardInv
  <1>3. CASE InsertBubble
    <2>1. /\ NoDispatch(TRUE) /\ Edge({}, Bubble(0), TRUE)
          /\ e'.ex = {} /\ e'.thread = e.thread
      BY <1>3 DEF InsertBubble, NoDispatch, Empty
    <2> QED BY <1>2, <2>1
  <1>4. CASE Hold
    <2>1. NoDispatch(FALSE) /\ Edge({}, Bubble(0), FALSE) /\ e' = e
      BY <1>4 DEF Hold, NoDispatch
    <2> QED BY <1>2, <2>1
  <1>5. CASE UNCHANGED vars
    BY <1>5 DEF vars, threadVars, stageVars, aluVars, seqVars, ForwardInv
  <1> QED BY <1>1, <1>3, <1>4, <1>5, NextTurn

\* What goes to E passes no load.
LEMMA DispatchWaits ==
  ASSUME CoreInv, ReadInv, ForwardInv,
         NEW t \in Threads, NEW pass, ~Hazard(t), NEW s \in {e, m, w}
  PROVE  ~Passes(s, ToE(t, pass))
  <1> USE DEF CoreInv, CondInv
  <1> SUFFICES ASSUME Passes(s, ToE(t, pass)) PROVE FALSE
    OBVIOUS
  <1>1. "load" \in s.ex /\ s.thread = t
    BY ToEFields DEF Passes
  <1>2. d[t] \in InD
    BY Types
  <1>3. ToE(t, pass).reg \in 0 .. 7
    BY <1>2, InDType, ToEFields
  <1>4. ToE(t, pass).ex = Ex(d[t])
    <2>1. ToE(t, pass).ex # {} /\ ToE(t, pass).ex # {"cond"}
      BY <1>3, WritesOfIs DEF Passes, StageWrites
    <2> QED BY <2>1, ToEEx
  <1>5. Writes(d[t]) \cap {TMP, FLAGS} # {}
    BY <1>4, ToEFields DEF Passes, StageWrites, Writes
  <1>6. CASE Ex(d[t]) \cap {"load", "store"} # {}
    <2>1. ~LoadStore(e) /\ ~m_loadstore /\ ~LoadStore(w)
      BY <1>6 DEF Hazard, HazardLoad
    <2>2. ~LoadStore(m)
      BY <2>1 DEF AccessInv
    <2> QED BY <1>1, <2>1, <2>2 DEF LoadStore
  <1>7. CASE "q2totmp" \in Ex(d[t])
    BY <1>1, <1>7 DEF Hazard, HazardLoadWrTmp
  <1>8. CASE d[t] \in Program /\ "tmp" \in {AluReg1(d[t]), AluReg2(d[t])}
    <2>1. d_read_tmp[t]
      BY <1>8 DEF ReadInv
    <2>2. ~alu_forward_q2tod1
      BY <1>1 DEF ForwardInv
    <2>3. ~WritesTmp(e, t) /\ ~WritesTmp(m, t) /\ ~WritesTmp(w, t)
      BY <2>1, <2>2 DEF Hazard, HazardTmp
    <2> QED BY <1>1, <2>3 DEF WritesTmp
  <1> QED BY <1>2, <1>5, <1>6, <1>7, <1>8, WritersWait

\* Every clock edge keeps LoadsFirst.
LEMMA NextLoadsFirst ==
  CoreInv /\ ReadInv /\ ForwardInv /\ LoadsFirst /\ [Next]_vars => LoadsFirst'
  <1> SUFFICES ASSUME CoreInv, ReadInv, ForwardInv, LoadsFirst, [Next]_vars
               PROVE  LoadsFirst'
    OBVIOUS
  <1> USE DEF CoreInv, CondInv
  <1>1. ASSUME NEW out, NEW next, NEW leaves, Edge(out, next, leaves),
               ~Passes(e, e'), ~Passes(m, e'), ~Passes(w, e')
        PROVE  ~Passes(w', m') /\ ~Passes(w', e') /\ ~Passes(m', e')
    <2>1. \/ m'.ex = {}
          \/ m'.ex = e.ex /\ m'.reg = e.reg /\ m'.thread = e.thread
      BY <1>1, EdgeStages
    <2>2. \/ w'.ex = {}
          \/ w'.ex = m.ex /\ w'.thread = m.thread
          \/ w'.ex = w.ex /\ w'.thread = w.thread
      BY <1>1, EdgeStages
    <2>3. m'.ex = {} => StageWrites(m') = {}
      BY DEF StageWrites, WritesOf
    <2>4. m'.ex # {} => StageWrites(m') = StageWrites(e)
      BY <2>1 DEF StageWrites
    <2> QED BY <1>1, <2>1, <2>2, <2>3, <2>4 DEF Passes, LoadsFirst
  <1>2. ASSUME NEW t \in Threads, NEW next \in Fetched(t), NEW pass \in Outcomes(d[t]),
               Dispatch(t, next, pass), ~Hazard(t)
        PROVE  LoadsFirst'
    <2>1. Edge({t}, next, TRUE) /\ e' = ToE(t, pass)
      BY <1>2 DEF Dispatch
    <2>2. ~Passes(e, e') /\ ~Passes(m, e') /\ ~Passes(w, e')
      BY <1>2, <2>1, DispatchWaits
    <2> QED BY <1>1, <2>1, <2>2 DEF LoadsFirst, Passes, StageWrites
  <1>3. CASE InsertBubble
    <2>1. Edge({}, Bubble(0), TRUE) /\ e'.ex = {}
      BY <1>3 DEF InsertBubble, NoDispatch, Empty
    <2>2. StageWrites(e') = {}
      BY <2>1 DEF StageWrites, WritesOf
    <2>3. ~Passes(e, e') /\ ~Passes(m, e') /\ ~Passes(w, e')
      BY <2>2 DEF Passes
    <2> QED BY <1>1, <2>1, <2>3 DEF LoadsFirst, Passes, StageWrites
  <1>4. CASE Hold
    <2>1. Edge({}, Bubble(0), FALSE) /\ e' = e
      BY <1>4 DEF Hold, NoDispatch
    <2>2. ~Passes(e, e') /\ ~Passes(m, e') /\ ~Passes(w, e')
      BY <2>1 DEF Passes, LoadsFirst
    <2> QED BY <1>1, <2>1, <2>2 DEF LoadsFirst, Passes, StageWrites
  <1>5. CASE UNCHANGED vars
    BY <1>5 DEF vars, stageVars, LoadsFirst, Passes, StageWrites
  <1> QED BY <1>2, <1>3, <1>4, <1>5, NextCases

-----------------------------------------------------------------------------
(* The values in the registers.                                            *)

\* A resource of thread t that M or W is going to give its right value.
MBrings(t, r) == /\ m.thread = t /\ r \in m.newest
                 /\ m.final \/ ("load" \in m.ex /\ r \in {TMP, FLAGS})
WBrings(t, r) == w.thread = t /\ r \in w.newest \cap {TMP, FLAGS} /\ "load" \in w.ex

\* Every resource holds its right value or is going to.
Coverage == \A t \in Threads, r \in Resources :
    \/ r \in current[t]
    \/ e.thread = t /\ r \in e.newest
    \/ MBrings(t, r)
    \/ WBrings(t, r)

\* Nothing in flight writes what holds its right value.
Exclusive == \A t \in Threads : \A r \in current[t] :
    /\ e.thread = t /\ e.live => r \notin StageWrites(e)
    /\ m.thread = t => r \notin StageWrites(m)
    /\ w.thread = t /\ "load" \in w.ex => r \notin {TMP, FLAGS}

\* What M writes is some of what its instruction writes.
LEMMA MWritesSome ==
  ASSUME TypeOK
  PROVE  MWrites \subseteq StageWrites(m)
  <1>1. m.reg \in 0 .. 7
    BY Types, StageType
  <1> QED BY <1>1 DEF MWrites, StageWrites, WritesOf

\* An instruction whose result M shows writes everything it is the newest writer
\* of, but for what comes from memory.
LEMMA MRightAll ==
  ASSUME TypeOK, NewestInv, FinalInv, m.final, NEW r \in m.newest,
         "load" \in m.ex => r \notin {TMP, FLAGS}
  PROVE  r \in MRight
  <1>1. m.reg \in 0 .. 7 /\ r \in WritesOf(m.ex, m.reg)
    BY Types, StageType DEF NewestInv, StageWrites
  <1>2. "q1toreg" \in m.ex => WritesBack
    BY DEF WritesBack, FinalInv
  <1>3. r \in MWrites
    BY <1>1, <1>2 DEF MWrites, WritesOf
  <1> QED BY <1>3 DEF MRight

\* What M and W write rightly.
LEMMA RightIs ==
  ASSUME NEW t \in Threads, NEW r \in Right(t)
  PROVE  \/ /\ m.thread = t /\ m.final /\ r \in m.newest /\ r \in MWrites
            /\ "load" \in m.ex => r \notin {TMP, FLAGS}
         \/ /\ w.thread = t /\ ls_ack /\ "load" \in w.ex
            /\ r \in w.newest /\ r \in {TMP, FLAGS}
  BY DEF Right, MRight, WRight, WWrites

\* An answer finds no load or store in M.
LEMMA AckAlone ==
  ASSUME CoreInv, ls_ack
  PROVE  ~LoadStore(m) /\ ~LoadStore(e)
  BY DEF CoreInv, AccessInv

\* What has, or is just being given, its right value is not written by E.
LEMMA RightNotInE ==
  ASSUME CoreInv, FinalInv, LoadsFirst, Exclusive, NEW t \in Threads,
         NEW r \in current[t] \cup Right(t), e.thread = t, e.live
  PROVE  r \notin StageWrites(e)
  <1> SUFFICES ASSUME r \in StageWrites(e) PROVE FALSE
    OBVIOUS
  <1>1. r \in Right(t)
    BY DEF Exclusive
  <1>2. CASE m.thread = t /\ m.final /\ r \in m.newest
    BY <1>2 DEF FinalInv
  <1>3. CASE w.thread = t /\ ls_ack /\ "load" \in w.ex /\ r \in {TMP, FLAGS}
    <2>1. "load" \in e.ex
      BY <1>3 DEF LoadsFirst, Passes
    <2> QED BY <1>3, <2>1, AckAlone DEF LoadStore
  <1> QED BY <1>1, <1>2, <1>3, RightIs

\* What a clock edge makes of the right values.
LEMMA EdgeCurrent ==
  ASSUME NEW out, NEW next, NEW leaves, Edge(out, next, leaves), NEW t \in Threads
  PROVE  current'[t] = ((current[t] \ Written(t)) \cup Right(t)) \ Taken(t, out)
  BY DEF Edge, Taken

\* Every clock edge keeps Coverage.
LEMMA NextCoverage ==
  CoreInv /\ PostincInv /\ NewestInv /\ SameInv /\ FinalInv /\ LoadsFirst
     /\ Exclusive /\ Coverage /\ [Next]_vars
        => Coverage'
  <1> SUFFICES ASSUME CoreInv, PostincInv, NewestInv, SameInv, FinalInv, LoadsFirst,
                      Exclusive, Coverage, [Next]_vars
               PROVE  Coverage'
    OBVIOUS
  <1> USE DEF CoreInv, CondInv
  <1>1. ASSUME NEW out, NEW next, NEW leaves \in BOOLEAN, Moves(out, next, leaves),
               NEW t \in Threads, NEW r \in Resources
        PROVE  \/ r \in current'[t]
               \/ e'.thread = t /\ r \in e'.newest
               \/ MBrings(t, r)'
               \/ WBrings(t, r)'
    <2>1. Edge(out, next, leaves)
      BY <1>1 DEF Moves
    <2>2. current'[t] = ((current[t] \ Written(t)) \cup Right(t)) \ Taken(t, out)
      BY <2>1, EdgeCurrent
    <2>3. CASE r \in Taken(t, out)
      <3>1. t \in out
        BY <2>3 DEF Taken
      <3>2. e'.thread = t /\ e'.newest = Taken(t, out)
        BY <1>1, <3>1 DEF Moves
      <3> QED BY <2>3, <3>2
    <2>4. CASE r \notin Taken(t, out) /\ r \in current[t]
      <3>1. m.thread = t => r \notin MWrites
        BY <2>4, MWritesSome DEF Exclusive
      <3>2. w.thread = t => r \notin WWrites
        BY <2>4 DEF Exclusive, WWrites
      <3> QED BY <2>2, <2>4, <3>1, <3>2 DEF Written
    <2>5. CASE r \notin Taken(t, out) /\ e.thread = t /\ r \in e.newest
      <3>1. e.live
        BY <2>5 DEF NewestInv
      <3>2. ~flag_cond[e.thread]
        BY <3>1 DEF TraceInv
      <3>3. CASE e' = e
        BY <2>5, <3>3
      <3>4. CASE leaves /\ ~stall /\ ~e_continue
        <4>1. AluReady
          BY <3>4, LeavesReady
        <4>2. /\ m'.thread = e.thread /\ m'.newest = e.newest \ Taken(e.thread, out)
              /\ m'.final
          BY <2>1, <3>2, <3>4, <4>1, EdgeStages
        <4>3. MBrings(t, r)'
          BY <2>5, <4>2 DEF MBrings
        <4> QED BY <4>3
      <3> QED BY <1>1, <3>3, <3>4 DEF Moves
    <2>6. CASE /\ r \notin Taken(t, out) /\ m.thread = t /\ r \in m.newest
               /\ "load" \in m.ex /\ r \in {TMP, FLAGS}
      <3>1. LoadStore(m)
        BY <2>6 DEF LoadStore
      <3>2. CASE ls_req_r /\ ~ls_ack
        <4>1. LoadStore(w) /\ SameIn(w, m)
          BY <3>1, <3>2 DEF AccessInv, SameInv
        <4>2. w'.ex = w.ex /\ w'.thread = w.thread /\ w'.newest = w.newest \ Taken(w.thread, out)
          BY <2>1, <3>2, EdgeStages
        <4>3. WBrings(t, r)'
          BY <2>6, <4>1, <4>2 DEF WBrings, SameIn
        <4> QED BY <4>3
      <3>3. CASE ~(ls_req_r /\ ~ls_ack)
        <4>1. w'.ex = m.ex /\ w'.thread = m.thread /\ w'.newest = m.newest \ Taken(m.thread, out)
          BY <2>1, <3>1, <3>3, EdgeStages
        <4>2. WBrings(t, r)'
          BY <2>6, <4>1 DEF WBrings
        <4> QED BY <4>2
      <3> QED BY <3>2, <3>3
    <2>7. CASE /\ r \notin Taken(t, out) /\ m.thread = t /\ r \in m.newest /\ m.final
               /\ "load" \in m.ex => r \notin {TMP, FLAGS}
      <3>1. r \in MRight
        BY <2>7, MRightAll
      <3> QED BY <2>2, <2>7, <3>1 DEF Right
    <2>8. CASE r \notin Taken(t, out) /\ WBrings(t, r)
      <3>1. ls_req_r
        BY <2>8 DEF WBrings, SameInv, LoadStore
      <3>2. CASE ls_ack
        <4>1. r \in WWrites
          BY <2>8, <3>2 DEF WBrings, WWrites
        <4>2. w.thread = m.thread => r \notin MWrites
          <5>1. "load" \notin m.ex
            BY <3>2, AckAlone DEF LoadStore
          <5> QED BY <2>8, <5>1, MWritesSome DEF WBrings, LoadsFirst, Passes
        <4>3. r \in WRight
          BY <2>8, <4>1, <4>2 DEF WRight, WBrings
        <4> QED BY <2>2, <2>8, <4>3 DEF Right, WBrings
      <3>3. CASE ~ls_ack
        <4>1. w'.ex = w.ex /\ w'.thread = w.thread /\ w'.newest = w.newest \ Taken(w.thread, out)
          BY <2>1, <3>1, <3>3, EdgeStages
        <4>2. WBrings(t, r)'
          BY <2>8, <4>1 DEF WBrings
        <4> QED BY <4>2
      <3> QED BY <3>2, <3>3
    <2> QED BY <2>3, <2>4, <2>5, <2>6, <2>7, <2>8 DEF Coverage, MBrings
  <1>2. CASE Next
    <2>1. PICK out, next : \E leaves \in BOOLEAN : Moves(out, next, leaves)
      BY <1>2, NextMoves
    <2>2. PICK leaves \in BOOLEAN : Moves(out, next, leaves)
      BY <2>1
    <2> QED BY <1>1, <2>2 DEF Coverage, MBrings, WBrings
  <1>3. CASE UNCHANGED vars
    BY <1>3 DEF vars, stageVars, seqVars, Coverage, MBrings, WBrings
  <1> QED BY <1>2, <1>3

\* Every clock edge keeps Exclusive.
LEMMA NextExclusive ==
  CoreInv /\ NewestInv /\ FinalInv /\ LoadsFirst /\ Exclusive /\ [Next]_vars
     => Exclusive'
  <1> SUFFICES ASSUME CoreInv, NewestInv, FinalInv, LoadsFirst, Exclusive, [Next]_vars
               PROVE  Exclusive'
    OBVIOUS
  <1> USE DEF CoreInv, CondInv
  <1>1. ASSUME NEW out, NEW next, NEW leaves \in BOOLEAN, Moves(out, next, leaves),
               NEW t \in Threads, NEW r \in current'[t]
        PROVE  /\ e'.thread = t /\ e'.live => r \notin StageWrites(e')
               /\ m'.thread = t => r \notin StageWrites(m')
               /\ w'.thread = t /\ "load" \in w'.ex => r \notin {TMP, FLAGS}
    <2>1. Edge(out, next, leaves)
      BY <1>1 DEF Moves
    <2>2. r \notin Taken(t, out) /\ r \in current[t] \cup Right(t)
      BY <1>1, <2>1, EdgeCurrent
    <2>3. ASSUME e'.thread = t, e'.live PROVE r \notin StageWrites(e')
      <3>1. CASE e' = e
        BY <2>2, <2>3, <3>1, RightNotInE
      <3>2. CASE StageWrites(e') = Taken(t, out)
        BY <2>2, <3>2
      <3> QED BY <1>1, <2>3, <3>1, <3>2 DEF Moves
    <2>4. ASSUME m'.thread = t PROVE r \notin StageWrites(m')
      <3>1. CASE m'.ex = {}
        BY <3>1 DEF StageWrites, WritesOf
      <3>2. CASE m'.ex = {"cond"}
        BY <3>2 DEF StageWrites, WritesOf
      <3>3. CASE m'.ex # {} /\ m'.ex # {"cond"}
        <4>1. /\ ~flag_cond[e.thread]
              /\ m'.ex = e.ex /\ m'.reg = e.reg /\ m'.thread = e.thread
          BY <2>1, <3>3, EdgeStages
        <4>2. e.live
          BY <3>3, <4>1 DEF TraceInv
        <4>3. r \notin StageWrites(e)
          BY <2>2, <2>4, <4>1, <4>2, RightNotInE
        <4> QED BY <4>1, <4>3 DEF StageWrites
      <3> QED BY <3>1, <3>2, <3>3
    <2>5. ASSUME w'.thread = t, "load" \in w'.ex PROVE r \notin {TMP, FLAGS}
      <3>1. CASE ls_req_r /\ ~ls_ack
        <4>1. w.thread = t /\ "load" \in w.ex
          BY <2>1, <2>5, <3>1, EdgeStages
        <4>2. CASE r \in current[t]
          BY <4>1, <4>2 DEF Exclusive
        <4>3. CASE r \in Right(t)
          <5>1. /\ m.thread = t /\ r \in MWrites
                /\ "load" \in m.ex => r \notin {TMP, FLAGS}
            BY <3>1, <4>3, RightIs
          <5> QED BY <4>1, <5>1, MWritesSome DEF LoadsFirst, Passes
        <4> QED BY <2>2, <4>2, <4>3
      <3>2. CASE ~(ls_req_r /\ ~ls_ack)
        <4>1. m.thread = t /\ "load" \in m.ex
          BY <2>1, <2>5, <3>2, EdgeStages
        <4>2. CASE r \in current[t]
          <5>1. r \notin StageWrites(m) /\ m.reg \in 0 .. 7
            BY <4>1, <4>2, Types, StageType DEF Exclusive
          <5> QED BY <4>1, <5>1, WritesOfIs DEF StageWrites
        <4>3. CASE r \in Right(t)
          <5>1. ~ls_ack
            BY <4>1, AckAlone DEF LoadStore
          <5> QED BY <4>1, <4>3, <5>1, RightIs
        <4> QED BY <2>2, <4>2, <4>3
      <3> QED BY <3>1, <3>2
    <2> QED BY <2>3, <2>4, <2>5
  <1>2. CASE Next
    <2>1. PICK out, next : \E leaves \in BOOLEAN : Moves(out, next, leaves)
      BY <1>2, NextMoves
    <2>2. PICK leaves \in BOOLEAN : Moves(out, next, leaves)
      BY <2>1
    <2> QED BY <1>1, <2>2 DEF Exclusive, StageWrites
  <1>3. CASE UNCHANGED vars
    BY <1>3 DEF vars, stageVars, seqVars, Exclusive, StageWrites
  <1> QED BY <1>2, <1>3

-----------------------------------------------------------------------------
(* What D reads.                                                           *)

\* All of the invariants.
DataInv == /\ CoreInv /\ PostincInv /\ NewestInv /\ SameInv /\ FinalInv
           /\ ReadInv /\ ForwardInv /\ LoadsFirst /\ Exclusive /\ Coverage

\* They hold initially.
LEMMA InitDataInv == Init => DataInv
  <1> SUFFICES ASSUME Init PROVE DataInv
    OBVIOUS
  <1>1. /\ e = Empty(1) /\ m = Empty(1) /\ w = Empty(1)
        /\ \A t \in Threads : d[t] = Bubble(0) /\ current[t] = Resources
        /\ alu_forward_q2tod1 = FALSE
    BY DEF Init
  <1>2. CoreInv
    <2>1. StallInv
      BY DEF Init, Empty, StallInv
    <2> QED BY <2>1, InitCondInv, InitTrace, InitAccess DEF CoreInv
  <1>3. /\ e.ex = {} /\ m.ex = {} /\ w.ex = {} /\ e.newest = {} /\ m.newest = {}
        /\ w.newest = {} /\ e.live = FALSE /\ m.final = FALSE
        /\ StageWrites(e) = {} /\ StageWrites(m) = {}
    BY <1>1 DEF Empty, StageWrites, WritesOf
  <1>4. PostincInv /\ NewestInv /\ SameInv /\ FinalInv /\ ForwardInv /\ LoadsFirst
    BY <1>1, <1>3 DEF PostincInv, NewestInv, SameInv, FinalInv, ForwardInv, LoadsFirst,
                      Passes, LoadStore
  <1>5. ReadInv
    <2>1. Bubble(0) \notin Program
      BY ProgramAssumption DEF Bubble, Instruction, Opcodes
    <2> QED BY <1>1, <2>1 DEF ReadInv
  <1>6. Exclusive /\ Coverage
    BY <1>1, <1>3 DEF Exclusive, Coverage
  <1> QED BY <1>2, <1>4, <1>5, <1>6 DEF DataInv

\* Every clock edge keeps them, in the programs considered.
LEMMA NextDataInv ==
  CondsApart /\ IrqApart /\ BytApart /\ DataInv /\ [Next]_vars => DataInv'
  <1> SUFFICES ASSUME CondsApart, IrqApart, BytApart, DataInv, [Next]_vars
               PROVE  DataInv'
    OBVIOUS
  <1> USE DEF DataInv
  <1>1. CoreInv'
    BY NextCondInv, NextTrace, NextAccess, NextStall DEF CoreInv
  <1>2. PostincInv' /\ NewestInv' /\ SameInv' /\ FinalInv'
    BY NextPostinc, NextNewest, NextSame, NextFinal
  <1>3. TypeOK
    BY DEF CoreInv, CondInv
  <1>4. ReadInv' /\ ForwardInv' /\ LoadsFirst'
    BY <1>3, NextRead, NextForward, NextLoadsFirst
  <1>5. Exclusive' /\ Coverage'
    BY NextExclusive, NextCoverage
  <1> QED BY <1>1, <1>2, <1>4, <1>5

\* The resources have different numbers.
LEMMA ResourcesType ==
  /\ \A r \in Resources : r \in 0 .. 9 /\ r # PC
  /\ TMP \in Resources /\ FLAGS \in Resources
  <1>1. \A r \in Registers : r \in 0 .. 7 /\ r # PC
    BY ProgramAssumption DEF Registers, Instruction
  <1> QED BY <1>1 DEF Resources, TMP, FLAGS, PC

\* What an instruction reads.
LEMMA ReadsIs ==
  ASSUME NEW i \in InD, NEW r \in Reads(i)
  PROVE  \/ i \in Program /\ r = TMP /\ "tmp" \in {AluReg1(i), AluReg2(i)}
         \/ i \in Program /\ r = i.reg /\ r # PC /\ "gpr" \in {AluReg1(i), AluReg2(i)}
         \/ i = IntXor /\ r = FLAGS
  <1>1. CASE i.op = "bubble"
    BY <1>1 DEF Reads
  <1>2. CASE i.op = "interrupt"
    <2>1. i = IntXor
      BY <1>2, InDCases
    <2> QED BY <1>2, <2>1 DEF Reads
  <1>3. CASE i.op \notin {"bubble", "interrupt"}
    <2>1. i \in Program
      BY <1>3, InDCases
    <2>2. PICK x \in {AluReg1(i), AluReg2(i)} :
            r = CASE x = "tmp" -> TMP [] x = "gpr" -> i.reg [] OTHER -> PC
      BY <1>3 DEF Reads
    <2>3. r # PC
      BY <1>3 DEF Reads
    <2> QED BY <2>1, <2>2, <2>3
  <1> QED BY <1>1, <1>2, <1>3

\* If no stage is going to write tmp, it holds its right value.
LEMMA TmpCurrent ==
  ASSUME DataInv, NEW t \in Threads,
         ~WritesTmp(e, t), ~WritesTmp(m, t), ~WritesTmp(w, t)
  PROVE  TMP \in current[t]
  <1> USE DEF DataInv, CoreInv, CondInv
  <1>1. e.reg \in 0 .. 7 /\ m.reg \in 0 .. 7
    BY Types, StageType
  <1>2. e.thread = t => TMP \notin e.newest
    BY <1>1, WritesOfIs DEF NewestInv, StageWrites, WritesTmp
  <1>3. m.thread = t => TMP \notin m.newest
    BY <1>1, WritesOfIs DEF NewestInv, StageWrites, WritesTmp
  <1>4. ~WBrings(t, TMP)
    BY DEF WBrings, WritesTmp
  <1> QED BY <1>2, <1>3, <1>4, ResourcesType DEF Coverage, MBrings

\* If no stage is going to write a register, it holds its right value.
LEMMA RegisterCurrent ==
  ASSUME DataInv, NEW t \in Threads, NEW r \in Resources \ {TMP, FLAGS},
         ~(WritesGpr(e, t) /\ e.reg = r), ~(WritesGpr(m, t) /\ m.reg = r)
  PROVE  r \in current[t]
  <1> USE DEF DataInv, CoreInv, CondInv
  <1>1. e.reg \in 0 .. 7 /\ m.reg \in 0 .. 7
    BY Types, StageType
  <1>2. e.thread = t => r \notin e.newest
    BY <1>1, WritesOfIs DEF NewestInv, StageWrites, WritesGpr
  <1>3. m.thread = t => r \notin m.newest
    BY <1>1, WritesOfIs DEF NewestInv, StageWrites, WritesGpr
  <1> QED BY <1>2, <1>3 DEF Coverage, MBrings, WBrings

\* If no stage is going to write the flags, nor the program counter from which they
\* may be reloaded, they are the right ones.
LEMMA FlagsCurrent ==
  ASSUME DataInv, NEW t \in Threads, ~HazardPc(t),
         ~WritesFlags(e, t), ~WritesFlags(m, t), ~WritesFlags(w, t)
  PROVE  FLAGS \in current[t]
  <1> USE DEF DataInv, CoreInv, CondInv
  <1>1. e.reg \in 0 .. 7 /\ m.reg \in 0 .. 7
    BY Types, StageType
  <1>2. e.thread = t => FLAGS \notin e.newest
    BY <1>1, WritesOfIs DEF NewestInv, StageWrites, WritesFlags, HazardPc, WritesGpr
  <1>3. m.thread = t => FLAGS \notin m.newest
    BY <1>1, WritesOfIs DEF NewestInv, StageWrites, WritesFlags, HazardPc, WritesGpr
  <1>4. ~WBrings(t, FLAGS)
    BY DEF WBrings, WritesFlags
  <1> QED BY <1>2, <1>3, <1>4, ResourcesType DEF Coverage, MBrings

\* What an instruction reads when it leaves D to be executed is right, apart from
\* the flags that the xor of an interrupt takes along.
LEMMA DispatchReads ==
  ASSUME DataInv, NEW t \in Threads, ~Hazard(t), Live(t),
         \/ e.thread = t
         \/ pause[e.thread]
         \/ alu_op # "li" /\ ~alu_forward_q2tod1,
         NEW r \in Reads(d[t]), r # FLAGS
  PROVE  \/ r \in current[t]
         \/ r = TMP /\ AluReg1(d[t]) = "tmp" /\ alu_forward_q2tod1 /\ aluTmp = t
  <1> USE DEF DataInv, CoreInv, CondInv
  <1>1. d[t] \in InD
    BY Types
  <1>2. CASE d[t] \in Program /\ r = TMP /\ "tmp" \in {AluReg1(d[t]), AluReg2(d[t])}
    <2>1. d_read_tmp[t]
      BY <1>2 DEF ReadInv
    <2>2. CASE alu_forward_q2tod1
      <3>1. e.thread = t
        BY <2>2 DEF ForwardInv
      <3>2. AluReg1(d[t]) = "tmp" /\ aluTmp = t
        BY <1>2, <2>2, <3>1 DEF ForwardInv, Live
      <3> QED BY <1>2, <2>2, <3>2
    <2>3. CASE ~alu_forward_q2tod1
      <3>1. ~WritesTmp(e, t) /\ ~WritesTmp(m, t) /\ ~WritesTmp(w, t)
        BY <2>1, <2>3 DEF Hazard, HazardTmp
      <3> QED BY <1>2, <3>1, TmpCurrent
    <2> QED BY <2>2, <2>3
  <1>3. CASE /\ d[t] \in Program /\ r = d[t].reg /\ r # PC
             /\ "gpr" \in {AluReg1(d[t]), AluReg2(d[t])}
    <2>1. d_read_reg[t]
      BY <1>3 DEF ReadInv
    <2>2. ~(WritesGpr(e, t) /\ e.reg = r) /\ ~(WritesGpr(m, t) /\ m.reg = r)
      BY <1>3, <2>1 DEF Hazard, HazardReg
    <2>3. r \in Resources /\ r \in 0 .. 7
      BY <1>1, <1>3, ReadsType, InDType
    <2>4. r \notin {TMP, FLAGS}
      BY <2>3 DEF TMP, FLAGS
    <2> QED BY <2>2, <2>3, <2>4, RegisterCurrent
  <1> QED BY <1>1, <1>2, <1>3, ReadsIs

\* Every clock edge keeps what E got wrong away from the operands.
LEMMA NextOperands == DataInv /\ OperandsCurrent /\ [Next]_vars => OperandsCurrent'
  <1> SUFFICES ASSUME DataInv, OperandsCurrent, [Next]_vars PROVE OperandsCurrent'
    OBVIOUS
  <1>1. ASSUME NEW t \in Threads, NEW next \in Fetched(t), NEW pass \in Outcomes(d[t]),
               Dispatch(t, next, pass), ~Hazard(t),
               \/ e.thread = t
               \/ pause[e.thread]
               \/ alu_op # "li" /\ ~alu_forward_q2tod1
        PROVE  OperandsCurrent'
    <2>1. e' = ToE(t, pass)
      BY <1>1 DEF Dispatch
    <2>2. e'.wrong = IF Live(t) THEN Wrong(t) ELSE {}
      BY <2>1, ToEFields
    <2>3. ASSUME Live(t), NEW r \in Wrong(t) PROVE r \in {SGN, LI, ACCESS, MASK, FLAGS}
      <3>1. \/ r \in {SGN, LI, ACCESS, MASK}
            \/ /\ r \in Reads(d[t]) \ current[t]
               /\ ~(r = TMP /\ AluReg1(d[t]) = "tmp" /\ alu_forward_q2tod1 /\ aluTmp = t)
        BY <2>3 DEF Wrong
      <3> QED BY <1>1, <2>3, <3>1, DispatchReads
    <2> QED BY <2>2, <2>3 DEF OperandsCurrent
  <1>2. CASE InsertBubble
    BY <1>2 DEF InsertBubble, Empty, OperandsCurrent
  <1>3. CASE Hold
    BY <1>3 DEF Hold, OperandsCurrent
  <1>4. CASE UNCHANGED vars
    BY <1>4 DEF vars, stageVars, OperandsCurrent
  <1>5. TypeOK
    BY DEF DataInv, CoreInv, CondInv
  <1> QED BY <1>1, <1>2, <1>3, <1>4, <1>5, NextTurn

\* An instruction that is executed is given the values of tmp and of its register
\* that sequential execution would give it, for one or two threads and whatever
\* the timing of memory, interrupts and the threads: the hazards and the
\* forwarding are sufficient, in every such program.
THEOREM OperandsAreCurrent ==
  ASSUME CondsApart, IrqApart, BytApart
  PROVE  Spec => []OperandsCurrent
  <1>1. Init => OperandsCurrent
    BY DEF Init, Empty, OperandsCurrent
  <1> QED BY <1>1, InitDataInv, NextDataInv, NextOperands, PTL DEF Spec

-----------------------------------------------------------------------------
(* The flags that a cond sees.                                             *)

\* Every clock edge keeps the flags of a cond in E what they ought to be: none of
\* the stages was writing them when it left D, and it writes none itself.
LEMMA NextCondSees == DataInv /\ CondSeesFlags /\ [Next]_vars => CondSeesFlags'
  <1> SUFFICES ASSUME DataInv, CondSeesFlags, [Next]_vars,
                      "cond" \in e'.ex, e'.reg \notin {NEX, EX}
               PROVE  FLAGS \in current'[e'.thread]
    BY DEF CondSeesFlags
  <1> USE DEF DataInv, CoreInv, CondInv
  <1>1. ASSUME NEW t \in Threads, NEW next \in Fetched(t), NEW pass \in Outcomes(d[t]),
               Dispatch(t, next, pass), ~Hazard(t)
        PROVE  FLAGS \in current'[e'.thread]
    <2>1. e' = ToE(t, pass) /\ Edge({t}, next, TRUE) /\ d[t] \in InD
      BY <1>1, Types DEF Dispatch
    <2>2. e'.thread = t /\ e'.reg = d[t].reg
      BY <2>1, ToEFields
    <2>3. d[t].op = "cond" /\ Ex(d[t]) = {"cond"}
      <3>1. ~WritesPc(d[t])
        BY <2>1, <2>2, WritesPcCond DEF EX, PC
      <3> QED BY <2>1, <3>1, CondInD, ToEEx DEF EndsSkip
    <2>4. FLAGS \in current[t]
      <3>1. ~WritesFlags(e, t) /\ ~WritesFlags(m, t) /\ ~WritesFlags(w, t) /\ ~HazardPc(t)
        BY <1>1, <2>3 DEF Hazard, HazardFlags
      <3> QED BY <3>1, FlagsCurrent
    <2>5. FLAGS \notin Written(t)
      <3>1. m.thread = t => FLAGS \notin MWrites
        BY <2>4, MWritesSome DEF Exclusive
      <3>2. w.thread = t => FLAGS \notin WWrites
        BY <2>4 DEF Exclusive, WWrites
      <3> QED BY <3>1, <3>2 DEF Written
    <2>6. FLAGS \notin Taken(t, {t})
      <3>1. Writes(d[t]) = {}
        BY <2>3 DEF Writes, WritesOf
      <3> QED BY <3>1 DEF Taken
    <2>7. current'[t] = ((current[t] \ Written(t)) \cup Right(t)) \ Taken(t, {t})
      BY <2>1, EdgeCurrent
    <2> QED BY <2>2, <2>4, <2>5, <2>6, <2>7
  <1>2. CASE InsertBubble
    BY <1>2 DEF InsertBubble, Empty
  <1>3. CASE Hold
    BY <1>3, CondLeaves DEF Hold
  <1>4. CASE UNCHANGED vars
    BY <1>4 DEF vars, stageVars, seqVars, CondSeesFlags
  <1> QED BY <1>1, <1>2, <1>3, <1>4, NextTurn

\* The condition of a cond is evaluated on the flags of the last instruction
\* before it that sets them, whether that was the ALU or a load still in W.
THEOREM CondsSeeTheFlags ==
  ASSUME CondsApart, IrqApart, BytApart
  PROVE  Spec => []CondSeesFlags
  <1>1. Init => CondSeesFlags
    BY DEF Init, Empty, CondSeesFlags
  <1> QED BY <1>1, InitDataInv, NextDataInv, NextCondSees, PTL DEF Spec

-----------------------------------------------------------------------------
(* The flags that an interrupt saves.                                      *)

\* s holds a jump of thread t, or an instruction that sets the flags and is none.
JumpIn(s, t)  == s.thread = t /\ "q1toreg" \in s.ex /\ s.reg = PC
FlagsIn(s, t) == s.thread = t /\ "flags" \in s.ex /\ ~("q1toreg" \in s.ex /\ s.reg = PC)

\* D holds what follows, in program order, an instruction that sets the flags.
BehindFlags(t) == \E p \in Program : "flags" \in Ex(p) /\ <<p, d[t]>> \in Adjacent

\* What sets the flags in E precedes what is in D, nothing sets them in M while
\* the xor of an interrupt is in D, nothing of its own thread comes behind a jump,
\* and the flags a load or store sets come from memory.
FlagsInv ==
    /\ \A t \in Threads :
         /\ FlagsIn(e, t) => BehindFlags(t)
         /\ d[t] = IntXor => ~FlagsIn(m, t)
         /\ e.thread = t /\ e.ex # {} /\ (JumpIn(m, t) \/ setpc[t]) => JumpIn(e, t)
    /\ \A s \in {e, m} : LoadStore(s) => "flags" \notin s.ex
    /\ "flags" \notin w.ex

\* Loads and stores do not take the flags from the ALU.
LEMMA LoadsNoFlags ==
  ASSUME NEW i \in InD, Ex(i) \cap {"load", "store"} # {}
  PROVE  "flags" \notin Ex(i)
  <1>1. CASE i \in Instruction /\ Ex(i) = ExOp(i)
    BY <1>1 DEF Instruction, ExOp, OverloadedEx, Opcodes, PC
  <1>2. CASE Ex(i) = {"q1toreg", "q2totmp", "flags"} \/ Ex(i) = {}
    BY <1>2
  <1> QED BY <1>1, <1>2, InDCases

\* What a clock edge does to the flags in M and W.
LEMMA EdgeFlags ==
  ASSUME CoreInv, FlagsInv, NEW out, NEW next, NEW leaves, Edge(out, next, leaves)
  PROVE  /\ \A t \in Threads : /\ FlagsIn(m', t) => FlagsIn(e, t)
                               /\ JumpIn(m', t) => JumpIn(e, t)
                               /\ setpc'[t] => JumpIn(m, t)
         /\ LoadStore(m') => "flags" \notin m'.ex
         /\ "flags" \notin w'.ex
  <1> USE DEF CoreInv, CondInv
  <1>1. \/ m'.ex = {}
        \/ m'.ex = e.ex /\ m'.reg = e.reg /\ m'.thread = e.thread
    BY EdgeStages
  <1>2. \/ w'.ex = {}
        \/ w'.ex = w.ex
        \/ LoadStore(m) /\ w'.ex = m.ex
    BY EdgeStages
  <1>3. \A t \in Threads : setpc'[t] => JumpIn(m, t)
    BY DEF Edge, WritesBack, JumpIn
  <1> QED BY <1>1, <1>2, <1>3 DEF FlagsIn, JumpIn, LoadStore, FlagsInv

\* No interrupt is taken behind what sets the flags.
LEMMA NoIrqBehindFlags ==
  ASSUME FlagsApart, NEW t \in Threads, NEW next \in Fetched(t), TakesInterrupt(t, next)
  PROVE  ~BehindFlags(t) /\ (d[t] \in Program => "flags" \notin Ex(d[t]))
  <1>1. ASSUME d[t] \in Program
        PROVE  /\ "flags" \notin Ex(d[t])
               /\ \A p \in Adjacent : p[2] = d[t] => "flags" \notin Ex(p[1])
    <2>1. <<d[t], next>> \in Adjacent /\ IrqPoint(<<d[t], next>>)
      BY <1>1, TakenAtPoint
    <2>2. <<d[t], next>>[1] = d[t]
      OBVIOUS
    <2> QED BY <2>1, <2>2 DEF FlagsApart
  <1>2. ASSUME BehindFlags(t) PROVE FALSE
    <2>1. PICK p \in Program : "flags" \in Ex(p) /\ <<p, d[t]>> \in Adjacent
      BY <1>2 DEF BehindFlags
    <2>2. d[t] \in Program
      BY <2>1, ProgramAssumption
    <2>3. <<p, d[t]>>[1] = p /\ <<p, d[t]>>[2] = d[t]
      OBVIOUS
    <2> QED BY <1>1, <2>1, <2>2, <2>3
  <1> QED BY <1>1, <1>2

\* The xor is no instruction of the program, so it follows nothing that sets the
\* flags.
LEMMA IntXorBehind ==
  ASSUME NEW t \in Threads, BehindFlags(t)
  PROVE  d[t] \in Program /\ d[t] # IntXor
  <1>1. d[t] \in Program
    BY ProgramAssumption DEF BehindFlags
  <1> QED BY <1>1, ProgramAssumption DEF IntXor, Instruction, Opcodes

\* Every clock edge at which thread t goes on keeps FlagsInv.
LEMMA DispatchFlags ==
  ASSUME FlagsApart, CoreInv, FlagsInv,
         NEW t \in Threads, NEW next \in Fetched(t), NEW pass \in Outcomes(d[t]),
         Dispatch(t, next, pass), ~Hazard(t)
  PROVE  FlagsInv'
  <1> USE DEF CoreInv, CondInv
  <1>1. /\ e' = ToE(t, pass) /\ d[t] \in InD
        /\ Edge({t}, next, TRUE)
    BY Types DEF Dispatch
  <1>2. e'.thread = t /\ e'.reg = d[t].reg
    BY <1>1, ToEFields
  <1>3. e'.ex = Ex(d[t]) \/ e'.ex = {"cond"} \/ e'.ex = {}
    BY <1>1, ToEEx
  <1>4. ~JumpIn(e, t) /\ ~JumpIn(m, t)
    BY DEF Hazard, HazardPc, WritesGpr, JumpIn
  <1>5. ASSUME FlagsIn(e', t) PROVE BehindFlags(t)'
    <2>1. "flags" \in Ex(d[t]) /\ ~("q1toreg" \in Ex(d[t]) /\ d[t].reg = PC)
      BY <1>2, <1>3, <1>5 DEF FlagsIn
    <2>2. d[t] \in Program
      BY <1>1, <2>1, InDCases DEF IntXor
    <2>3. d'[t] = next
      BY <1>1, <2>1, <2>2, DispatchD, NoIrqBehindFlags
    <2>4. <<d[t], next>> \in Adjacent
      BY <2>2 DEF Fetched
    <2> QED BY <2>1, <2>2, <2>3, <2>4 DEF BehindFlags
  <1>6. ASSUME d'[t] = IntXor PROVE ~FlagsIn(m', t)
    <2>1. CASE TakesInterrupt(t, next)
      BY <1>1, <2>1, EdgeFlags, NoIrqBehindFlags DEF FlagsInv
    <2>2. CASE ~TakesInterrupt(t, next)
      <3>1. next \in Program
        BY FetchedType
      <3>2. d'[t] = next
        BY <2>2, DispatchD
      <3> QED BY <1>6, <3>1, <3>2, ProgramAssumption DEF IntXor, Instruction, Opcodes
    <2> QED BY <2>1, <2>2
  <1>7. ASSUME NEW u \in Threads \ {t}, d'[u] = IntXor PROVE ~FlagsIn(m', u)
    <2>1. d'[u] = IF setpc[u] THEN Bubble(d[u].reg) ELSE d[u]
      BY DispatchD
    <2>2. d[u] = IntXor
      BY <1>7, <2>1 DEF Bubble, IntXor
    <2>3. ~FlagsIn(e, u)
      BY <2>2, IntXorBehind DEF FlagsInv
    <2> QED BY <1>1, <2>3, EdgeFlags
  <1>8. ASSUME JumpIn(m', t) \/ setpc'[t] PROVE FALSE
    BY <1>1, <1>4, <1>8, EdgeFlags
  <1>9. e'.ex \cap {"load", "store"} # {} => "flags" \notin e'.ex
    BY <1>1, <1>3, LoadsNoFlags
  <1>10. \A u \in Threads \ {t} : e'.thread # u /\ ~FlagsIn(e', u)
    BY <1>2 DEF FlagsIn
  <1>11. /\ LoadStore(m') => "flags" \notin m'.ex
         /\ "flags" \notin w'.ex
    BY <1>1, EdgeFlags
  <1>12. \A u \in Threads : d'[u] = IntXor => ~FlagsIn(m', u)
    BY <1>6, <1>7
  <1>13. \A u \in Threads : FlagsIn(e', u) => BehindFlags(u)'
    BY <1>5, <1>10
  <1>14. \A u \in Threads :
           e'.thread = u /\ e'.ex # {} /\ (JumpIn(m', u) \/ setpc'[u]) => JumpIn(e', u)
    BY <1>2, <1>8
  <1> QED BY <1>9, <1>11, <1>12, <1>13, <1>14 DEF FlagsInv, FlagsIn, JumpIn, LoadStore

\* And so does every other one.
LEMMA NoDispatchFlags ==
  ASSUME CoreInv, FlagsInv, NEW leaves, NoDispatch(leaves),
         (e'.ex = {} /\ e'.thread = e.thread) \/ e' = e
  PROVE  FlagsInv'
  <1> USE DEF CoreInv, CondInv
  <1>1. Edge({}, Bubble(0), leaves)
    BY DEF NoDispatch
  <1>2. \A u \in Threads : d'[u] = IF setpc[u] THEN Bubble(d[u].reg) ELSE d[u]
    BY NoDispatchD
  <1>3. ASSUME NEW u \in Threads, FlagsIn(e', u) PROVE BehindFlags(u)'
    <2>1. e' = e /\ FlagsIn(e, u)
      BY <1>3 DEF FlagsIn
    <2>2. ~setpc[u]
      BY <2>1 DEF FlagsInv, FlagsIn, JumpIn
    <2>3. d'[u] = d[u]
      BY <1>2, <2>2
    <2> QED BY <2>1, <2>3 DEF FlagsInv, BehindFlags
  <1>4. ASSUME NEW u \in Threads, d'[u] = IntXor PROVE ~FlagsIn(m', u)
    <2>1. d[u] = IntXor
      <3>1. Bubble(d[u].reg) # IntXor
        BY DEF Bubble, IntXor
      <3> QED BY <1>2, <1>4, <3>1
    <2>2. ~FlagsIn(e, u)
      BY <2>1, IntXorBehind DEF FlagsInv
    <2> QED BY <1>1, <2>2, EdgeFlags
  <1>5. ASSUME NEW u \in Threads, e'.thread = u, e'.ex # {}, JumpIn(m', u) \/ setpc'[u]
        PROVE  JumpIn(e', u)
    <2>1. e' = e
      BY <1>5
    <2>2. JumpIn(e, u) \/ JumpIn(m, u)
      BY <1>1, <1>5, EdgeFlags
    <2> QED BY <1>5, <2>1, <2>2 DEF FlagsInv
  <1>6. /\ LoadStore(m') => "flags" \notin m'.ex
        /\ "flags" \notin w'.ex
    BY <1>1, EdgeFlags
  <1>7. e'.ex \cap {"load", "store"} # {} => "flags" \notin e'.ex
    BY DEF FlagsInv, LoadStore
  <1> QED BY <1>3, <1>4, <1>5, <1>6, <1>7 DEF FlagsInv, FlagsIn, JumpIn, LoadStore

\* Every clock edge keeps FlagsInv.
LEMMA NextFlags == FlagsApart /\ CoreInv /\ FlagsInv /\ [Next]_vars => FlagsInv'
  <1> SUFFICES ASSUME FlagsApart, CoreInv, FlagsInv, [Next]_vars PROVE FlagsInv'
    OBVIOUS
  <1>1. TypeOK
    BY DEF CoreInv, CondInv
  <1>2. CASE InsertBubble
    <2>1. e'.ex = {} /\ e'.thread = e.thread /\ NoDispatch(TRUE)
      BY <1>2 DEF InsertBubble, Empty
    <2> QED BY <2>1, NoDispatchFlags
  <1>3. CASE Hold
    <2>1. e' = e /\ NoDispatch(FALSE)
      BY <1>3 DEF Hold
    <2> QED BY <2>1, NoDispatchFlags
  <1>4. CASE UNCHANGED vars
    BY <1>4 DEF vars, threadVars, stageVars, FlagsInv, FlagsIn, JumpIn, BehindFlags, LoadStore
  <1> QED BY <1>1, <1>2, <1>3, <1>4, DispatchFlags, NextTurn

\* Every clock edge keeps an interrupt from saving old flags: while the xor is in
\* D it waits for the loads and for the jumps in flight, and the flags of the ALU
\* are further on.
LEMMA NextSavesFlags ==
  DataInv /\ FlagsInv /\ InterruptSavesFlags /\ [Next]_vars => InterruptSavesFlags'
  <1> SUFFICES ASSUME DataInv, FlagsInv, InterruptSavesFlags, [Next]_vars
               PROVE  FLAGS \notin e'.wrong
    BY DEF InterruptSavesFlags
  <1> USE DEF DataInv, CoreInv, CondInv
  <1>1. ASSUME NEW t \in Threads, NEW next \in Fetched(t), NEW pass \in Outcomes(d[t]),
               Dispatch(t, next, pass), ~Hazard(t)
        PROVE  FLAGS \notin e'.wrong
    <2> SUFFICES ASSUME FLAGS \in e'.wrong PROVE FALSE
      OBVIOUS
    <2>1. e' = ToE(t, pass) /\ d[t] \in InD
      BY <1>1, Types DEF Dispatch
    <2>2. FLAGS \in Wrong(t)
      BY <2>1, ToEFields
    <2>3. FLAGS \in Reads(d[t]) \ current[t]
      BY <2>2 DEF Wrong, FLAGS, SGN, LI, MASK, ACCESS
    <2>4. d[t] = IntXor
      <3>1. d[t].reg \in 0 .. 7
        BY <2>1, InDType
      <3> QED BY <2>1, <2>3, <3>1, ReadsIs DEF FLAGS, TMP
    <2>5. "load" \notin e.ex \cup m.ex \cup w.ex /\ ~HazardPc(t)
      <3>1. "q2totmp" \in Ex(d[t])
        BY <2>4 DEF IntXor, Ex
      <3> QED BY <1>1, <3>1 DEF Hazard, HazardLoadWrTmp
    <2>6. ~FlagsIn(e, t) /\ ~FlagsIn(m, t) /\ "flags" \notin w.ex
      BY <2>4, IntXorBehind DEF FlagsInv
    <2>7. ~WritesFlags(e, t) /\ ~WritesFlags(m, t) /\ ~WritesFlags(w, t)
      BY <2>5, <2>6 DEF WritesFlags, FlagsIn, HazardPc, WritesGpr
    <2> QED BY <2>3, <2>5, <2>7, FlagsCurrent
  <1>2. CASE InsertBubble
    BY <1>2 DEF InsertBubble, Empty
  <1>3. CASE Hold
    BY <1>3 DEF Hold, InterruptSavesFlags
  <1>4. CASE UNCHANGED vars
    BY <1>4 DEF vars, stageVars, InterruptSavesFlags
  <1> QED BY <1>1, <1>2, <1>3, <1>4, NextTurn

\* The return address carries the flags the interrupted program had, even though
\* the xor that saves them has no hazard for flags of its own: an interrupt is
\* taken in front of a mt or li, behind an instruction that writes no register, and
\* in the programs considered the last two instructions before it set no flags.
THEOREM InterruptsSaveFlags ==
  ASSUME CondsApart, IrqApart, BytApart, FlagsApart
  PROVE  Spec => []InterruptSavesFlags
  <1>1. Init => InterruptSavesFlags /\ FlagsInv
    BY DEF Init, Empty, InterruptSavesFlags, FlagsInv, FlagsIn, LoadStore
  <1>2. DataInv /\ FlagsInv /\ [Next]_vars => FlagsInv'
    BY NextFlags DEF DataInv
  <1> QED BY <1>1, <1>2, InitDataInv, NextDataInv, NextSavesFlags, PTL DEF Spec

-----------------------------------------------------------------------------
(* Chains of li.                                                           *)

\* A li is no cond and no jump, and has the ALU function of its own.
LEMMA LiIs ==
  ASSUME NEW i \in InD
  PROVE  /\ AluFunc(i) = "li" <=> i.op = "li"
         /\ i.op = "li" => "cond" \notin Ex(i) /\ ~WritesPc(i) /\ i.op # "bubble"
  <1>1. CASE i \in Instruction /\ Ex(i) = ExOp(i)
    BY <1>1 DEF Instruction, ExOp, OverloadedEx, Opcodes, PC, AluFunc, WritesPc
  <1>2. CASE i.op = "interrupt" \/ i.op = "bubble"
    BY <1>2 DEF AluFunc
  <1> QED BY <1>1, <1>2, InDCases

\* While the ALU shows a li, the last thread in E is not paused, nor about to be;
\* a chain is one of that thread, and what follows a li takes it up, if it is to
\* be executed.
LiInv ==
    /\ PauseNow => d[e.thread].op # "li"
    /\ alu_op = "li" => ~pause[e.thread] /\ ~PauseNow
    /\ \A t \in Threads : prevLi[t] => t = e.thread /\ NextStreak
    /\ alu_op = "li" => prevLi[e.thread] \/ skipping[e.thread]

\* The cond NEX in E comes from D.
LEMMA PauseFromD ==
  ASSUME TypeOK, NEW t \in Threads, NEW next, NEW pass, Dispatch(t, next, pass), PauseNow'
  PROVE  e'.thread = t /\ d[t] \in Program /\ IsNex(d[t])
  <1>1. e' = ToE(t, pass) /\ d[t] \in InD
    BY Types DEF Dispatch
  <1>2. "cond" \in e'.ex /\ d[t].reg = NEX /\ e'.thread = t
    BY <1>1, ToEFields DEF PauseNow
  <1>3. ~WritesPc(d[t])
    BY <1>2 DEF WritesPc, PC, NEX
  <1>4. d[t].op = "cond"
    BY <1>1, <1>2, <1>3, ToEEx, CondInD DEF EndsSkip
  <1> QED BY <1>1, <1>2, <1>4, CondInD DEF IsNex

\* Every clock edge at which thread t goes on keeps LiInv.
LEMMA DispatchLi ==
  ASSUME LiApart, CondInv, LiInv,
         NEW t \in Threads, NEW next \in Fetched(t), NEW pass \in Outcomes(d[t]),
         Dispatch(t, next, pass), ~pause[t],
         \/ e.thread = t
         \/ pause[e.thread]
         \/ alu_op # "li" /\ ~alu_forward_q2tod1
  PROVE  LiInv'
  <1> USE DEF CondInv
  <1>1. /\ e' = ToE(t, pass) /\ d[t] \in InD
        /\ Edge({t}, next, TRUE)
        /\ alu_op' = AluFunc(d[t])
        /\ alu_req' = (gpr7_readflags[t] \/ ~flag_cond[t])
        /\ prevLi' = [prevLi EXCEPT ![t] = Live(t) /\ d[t].op = "li"]
        /\ skipping' = [skipping EXCEPT ![t] = NextSkipping(t, pass)]
    BY Types DEF Dispatch
  <1>2. e'.thread = t
    BY <1>1, ToEFields
  <1>3. alu_op' = "li" <=> d[t].op = "li"
    BY <1>1, LiIs
  <1>4. ASSUME PauseNow' PROVE d'[t].op # "li"
    <2>1. d[t] \in Program /\ IsNex(d[t])
      BY <1>4, PauseFromD
    <2>2. <<d[t], next>> \in Adjacent
      BY <2>1 DEF Fetched
    <2>3. <<d[t], next>>[1] = d[t] /\ <<d[t], next>>[2] = next
      OBVIOUS
    <2>4. next.op # "li"
      BY <2>1, <2>2, <2>3 DEF LiApart
    <2>5. d'[t] = IF TakesInterrupt(t, next) THEN IntXor ELSE next
      BY DispatchD
    <2> QED BY <2>4, <2>5 DEF IntXor
  <1>5. ASSUME d[t].op = "li" PROVE ~pause'[t] /\ ~PauseNow'
    <2>1. pause'[t] = NextPause(t)
      BY <1>1 DEF Edge
    <2>2. ~(PauseNow /\ e.thread = t)
      BY <1>5 DEF LiInv
    <2>3. ~PauseNow'
      BY <1>5, PauseFromD DEF IsNex
    <2> QED BY <2>1, <2>2, <2>3 DEF NextPause
  <1>6. ASSUME NEW u \in Threads, prevLi'[u] PROVE u = t /\ NextStreak'
    <2>1. CASE u = t
      <3>1. Live(t) /\ d[t].op = "li"
        BY <1>1, <1>6, <2>1, Types
      <3>2. ~flag_cond[t]
        BY <3>1 DEF Live, SkipInv, SkipIsExact, CondIn
      <3> QED BY <1>1, <1>3, <2>1, <3>1, <3>2 DEF NextStreak
    <2>2. CASE u # t
      <3>1. prevLi[u]
        BY <1>1, <1>6, <2>2, Types
      <3>2. u = e.thread /\ alu_op = "li"
        BY <3>1 DEF LiInv, NextStreak
      <3> QED BY <2>2, <3>2 DEF LiInv
    <2> QED BY <2>1, <2>2
  <1>7. ASSUME d[t].op = "li" PROVE prevLi'[t] \/ skipping'[t]
    <2>1. d[t].op # "cond" /\ ~WritesPc(d[t]) /\ d[t].op # "bubble"
      BY <1>1, <1>7, LiIs
    <2>2. CASE Live(t)
      <3>1. prevLi'[t] = (Live(t) /\ d[t].op = "li")
        BY <1>1, Types
      <3> QED BY <1>7, <2>2, <3>1
    <2>3. CASE skipping[t]
      <3>1. skipping'[t] = NextSkipping(t, pass)
        BY <1>1, Types
      <3>2. NextSkipping(t, pass) = skipping[t]
        BY <2>1 DEF NextSkipping
      <3> QED BY <2>3, <3>1, <3>2
    <2> QED BY <2>1, <2>2, <2>3 DEF Live
  <1>8. PauseNow' => d'[e'.thread].op # "li"
    BY <1>2, <1>4
  <1>9. alu_op' = "li" => ~pause'[e'.thread] /\ ~PauseNow'
    BY <1>2, <1>3, <1>5
  <1>10. \A u \in Threads : prevLi'[u] => u = e'.thread /\ NextStreak'
    BY <1>2, <1>6
  <1>11. alu_op' = "li" => prevLi'[e'.thread] \/ skipping'[e'.thread]
    BY <1>2, <1>3, <1>7
  <1> QED BY <1>8, <1>9, <1>10, <1>11 DEF LiInv

\* And so does every other one.
LEMMA NoDispatchLi ==
  ASSUME CondInv, LiInv, NEW leaves, NoDispatch(leaves), "cond" \notin e'.ex,
         e'.thread = e.thread
  PROVE  LiInv'
  <1> USE DEF CondInv
  <1>1. /\ Edge({}, Bubble(0), leaves)
        /\ alu_op' = alu_op /\ prevLi' = prevLi /\ skipping' = skipping
    BY DEF NoDispatch
  <1>2. ~PauseNow'
    BY DEF PauseNow
  <1>3. e.thread \in Threads
    BY Types, StageType
  <1>4. ASSUME alu_op = "li" PROVE ~pause'[e.thread]
    <2>1. pause'[e.thread] = NextPause(e.thread)
      BY <1>1, <1>3 DEF Edge
    <2> QED BY <1>4, <2>1 DEF NextPause, LiInv
  <1>5. NextStreak => NextStreak'
    <2>1. immediatestreak' = NextStreak
      BY <1>1 DEF Edge, Alu
    <2> QED BY <1>1, <2>1 DEF NextStreak
  <1> QED BY <1>1, <1>2, <1>4, <1>5 DEF LiInv

\* Every clock edge keeps LiInv.
LEMMA NextLi == LiApart /\ CondInv /\ LiInv /\ [Next]_vars => LiInv'
  <1> SUFFICES ASSUME LiApart, CondInv, LiInv, [Next]_vars PROVE LiInv'
    OBVIOUS
  <1> USE DEF CondInv
  <1>1. CASE InsertBubble
    <2>1. e'.ex = {} /\ e'.thread = e.thread /\ NoDispatch(TRUE)
      BY <1>1 DEF InsertBubble, Empty
    <2> QED BY <2>1, NoDispatchLi
  <1>2. CASE Hold
    <2>1. e' = e /\ NoDispatch(FALSE) /\ "cond" \notin e.ex
      BY <1>2, CondLeaves DEF Hold
    <2> QED BY <2>1, NoDispatchLi
  <1>3. CASE UNCHANGED vars
    BY <1>3 DEF vars, threadVars, stageVars, aluVars, seqVars, LiInv, PauseNow, NextStreak
  <1> QED BY <1>1, <1>2, <1>3, DispatchLi, NextTurn

\* Every clock edge keeps chains from being broken or mixed up: the thread that
\* the last li in E was of goes on, and the other one finds no chain.
LEMMA NextChain == CondInv /\ LiInv /\ LiChain /\ [Next]_vars => LiChain'
  <1> SUFFICES ASSUME CondInv, LiInv, LiChain, [Next]_vars PROVE LI \notin e'.wrong
    BY DEF LiChain
  <1> USE DEF CondInv
  <1>1. ASSUME NEW t \in Threads, NEW next \in Fetched(t), NEW pass \in Outcomes(d[t]),
               Dispatch(t, next, pass),
               \/ e.thread = t
               \/ pause[e.thread]
               \/ alu_op # "li" /\ ~alu_forward_q2tod1,
               LI \in e'.wrong
        PROVE  FALSE
    <2>1. e' = ToE(t, pass) /\ d[t] \in InD
      BY <1>1, Types DEF Dispatch
    <2>2. Live(t) /\ LI \in Wrong(t)
      BY <1>1, <2>1, ToEFields
    <2>3. NextStreak # prevLi[t]
      <3>1. LI \notin Reads(d[t])
        <4>1. d[t].reg \in 0 .. 7
          BY <2>1, InDType
        <4> QED BY <2>1, <4>1, ReadsIs DEF LI, TMP, FLAGS
      <3> QED BY <2>2, <3>1 DEF Wrong, LI, SGN, MASK, ACCESS
    <2>4. CASE e.thread = t
      <3>1. NextStreak => prevLi[t]
        BY <2>2, <2>4 DEF LiInv, NextStreak, Live
      <3>2. prevLi[t] => NextStreak
        BY DEF LiInv
      <3>3. NextStreak \in BOOLEAN /\ prevLi[t] \in BOOLEAN
        BY Types DEF NextStreak
      <3> QED BY <2>3, <3>1, <3>2, <3>3
    <2>5. CASE e.thread # t
      <3>1. ~NextStreak
        BY <1>1, <2>5 DEF LiInv, NextStreak
      <3>2. ~prevLi[t]
        BY <2>5 DEF LiInv
      <3>3. NextStreak \in BOOLEAN /\ prevLi[t] \in BOOLEAN
        BY Types DEF NextStreak
      <3> QED BY <2>3, <3>1, <3>2, <3>3
    <2> QED BY <2>4, <2>5
  <1>2. CASE InsertBubble
    BY <1>2 DEF InsertBubble, Empty
  <1>3. CASE Hold
    BY <1>3 DEF Hold, LiChain
  <1>4. CASE UNCHANGED vars
    BY <1>4 DEF vars, stageVars, LiChain
  <1> QED BY <1>1, <1>2, <1>3, <1>4, NextTurn

\* Whether a li shifts tmp or begins anew depends on the instruction before it in
\* its own thread alone: bubbles do not break a chain and the other thread neither
\* breaks nor continues it.
THEOREM LiChainsHold ==
  ASSUME CondsApart, IrqApart, LiApart
  PROVE  Spec => []LiChain
  <1>1. Init => LiChain /\ LiInv
    <2> SUFFICES ASSUME Init PROVE LiChain /\ LiInv
      OBVIOUS
    <2>1. e.ex = {} /\ e.wrong = {} /\ alu_op = "other" /\ \A t \in Threads : ~prevLi[t]
      BY DEF Init, Empty
    <2> QED BY <2>1 DEF LiChain, LiInv, PauseNow
  <1> QED BY <1>1, InitCondInv, NextCondInv, NextLi, NextChain, PTL DEF Spec
=============================================================================
