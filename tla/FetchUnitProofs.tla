--------------------------- MODULE FetchUnitProofs ---------------------------
(***************************************************************************)
(* Proofs about FetchUnit, for every number of program words, every set of *)
(* jump targets and of load / store requests, with one or two threads and  *)
(* with or without prefetch.                                               *)
(***************************************************************************)
EXTENDS FetchUnit, TLAPS

-----------------------------------------------------------------------------
(* The inductive invariant.                                                *)

\* A fetch that is under way is still asked for, and what the RAM answers is
\* the word at the registered address.
FetchingInv(t) ==
    ls_state = FetchState(t) => /\ fetch_ram_req[t]
                                /\ ram_ack => ram_d = ram_addr_r

\* With prefetch, the buffer holds the word of pc and perhaps the next one, and
\* fetch_addr is the first word that is not in the buffer.  In the cycle after
\* pc moved to another word the half it left is still marked valid.
PrefetchInv(t) ==
    LET w == pc[t].word  h == Half(w)  V == opcodebuffer_valid[t] IN
    /\ ~pc_req[t] =>
          /\ h \in V => opcodebuffer[t][h] = w
          /\ V = {0, 1} => ~fetch_ram_req[t]
          /\ fetch_abort[t] => V = {}
          /\ Crossed(t) => /\ 1 - h \in V
                           /\ fetch_addr[t] = IF h \in V THEN w + 1 ELSE w
          /\ ~Crossed(t) =>
                /\ h \notin V => V = {} /\ fetch_addr[t] = w
                /\ V = {h} => fetch_addr[t] = w + 1
                /\ V = {0, 1} => /\ fetch_addr[t] = w + 2
                                 /\ opcodebuffer[t][1 - h] = w + 1
    /\ ls_state = FetchState(t) /\ ~fetch_abort[t] => ram_addr_r = fetch_addr[t]

\* Without prefetch, a word is asked for only while the buffer is empty.
NoPrefetchInv(t) ==
    LET w == pc[t].word  h == Half(w)  V == opcodebuffer_valid[t] IN
    ~pc_req[t] =>
       /\ fetch_ram_req[t] \/ fetch_abort[t] => V = {}
       /\ h \in V => opcodebuffer[t][1] = w
       /\ IF Crossed(t) THEN V = {1 - h} ELSE V \in {{}, {h}}
       /\ ls_state = FetchState(t) /\ ~fetch_abort[t] => ram_addr_r = w

BufferInv(t) == IF Prefetch THEN PrefetchInv(t) ELSE NoPrefetchInv(t)

\* The load / store side of the arbiter.
ArbiterInv ==
    /\ ls_state = "LS_WAIT" => ~ram_req_r
    /\ ls_state # "LS_WAIT" => ram_req_r /\ ~ls_ack
    /\ ram_wr => ls_state \in {"LS_LOAD", "LS_LOAD2"}
    /\ ls_state \in {"LS_LOAD", "LS_LOAD2"} =>
          /\ ls_req_r /\ ram_wr = ls_wr
          /\ ram_ack => ram_d = ram_addr_r
    /\ ls_state = "LS_LOAD" => /\ ram_addr_r = ls_addr
                               /\ ls_addrplus4 = ls_addr + 1
    /\ ls_state = "LS_LOAD2" => /\ ls_split /\ ls_q = {ls_addr}
                                /\ ram_addr_r = ls_addr + 1
    /\ ls_state \in LsStates
    /\ ls_state = "LS_FETCH2" => 2 \in Threads

IInv == /\ TypeOK
        /\ ArbiterInv
        /\ LoadIsRequests
        /\ \A t \in Threads : FetchingInv(t) /\ BufferInv(t)

-----------------------------------------------------------------------------
(* Parity of word addresses, and the arbiter's choice.                     *)

\* Neighbouring words go to different halves of the buffer.
LEMMA HalfFlips == \A w \in Nat : Half(w) \in {0, 1} /\ Half(w + 1) = 1 - Half(w)
  BY DEF Half

\* The words after next share a half.
LEMMA HalfRepeats == \A w \in Nat : Half(w + 2) = Half(w)
  BY DEF Half

\* Threads are numbered, and there is a first one.
LEMMA ThreadsFacts == /\ Threads \subseteq {1, 2} /\ 1 \in Threads
                      /\ Threads \subseteq Nat
  BY ThreadsAssumption

\* At most one thread is chosen by the arbiter.
LEMMA ChosenUnique ==
  ASSUME NEW t \in Threads, Chosen(t)
  PROVE  FetchRequested /\ (CHOOSE u \in Threads : Chosen(u)) = t
  <1>1. \A u \in Threads : Chosen(u) => u = t
    BY ThreadsFacts DEF Chosen
  <1>2. FetchRequested
    BY DEF FetchRequested, Chosen
  <1> QED BY <1>1, <1>2

\* One is chosen when any asks.
LEMMA SomeChosen ==
  ASSUME FetchRequested, fetch_ram_req \in [Threads -> BOOLEAN]
  PROVE  \E t \in Threads : Chosen(t)
  <1>1. CASE fetch_ram_req[1]
    BY <1>1, ThreadsFacts DEF Chosen
  <1>2. CASE ~fetch_ram_req[1]
    BY <1>2, ThreadsFacts DEF Chosen, FetchRequested
  <1> QED BY <1>1, <1>2

-----------------------------------------------------------------------------
(* What a step does for one thread.                                        *)

\* Every step of the arbiter is a clock edge for everything else.
LEMMA ClockTicks == ASSUME Next PROVE Clock
  BY DEF Next, WaitFetch, FetchDone, WaitLoad, WaitIdle, AwaitRam, LoadDone,
         LoadSplit, Load2Done

\* The program counter stays, moves past a valid opcode, or is written by a jump.
LEMMA CoreStep ==
  ASSUME TypeOK, Core, NEW t \in Threads
  PROVE  /\ pc_req'[t] \in BOOLEAN /\ pc'[t] \in PcType
         /\ \/ pc_req'[t] = TRUE
            \/ pc_req'[t] = FALSE /\ pc'[t] = pc[t]
            \/ pc_req'[t] = FALSE /\ CanAdvance(t) /\ pc'[t] = NextPc(pc[t])
  <1>1. pc[t] \in PcType
    BY DEF TypeOK
  <1>2. CanAdvance(t) => NextPc(pc[t]) \in PcType
    BY <1>1, PcAssumption DEF CanAdvance, NextPc, PcType, LastByte
  <1>3. PICK advance \in {{}} \cup {{u} : u \in {v \in Threads : CanAdvance(v)}},
             jump \in {{}} \cup {{u} : u \in Threads},
             target \in Targets :
             /\ pc_req' = [u \in Threads |-> u \in jump]
             /\ pc' = [u \in Threads |-> IF u \in jump THEN target
                                         ELSE IF u \in advance THEN NextPc(pc[u])
                                         ELSE pc[u]]
    BY DEF Core
  <1>4. target \in PcType
    BY PcAssumption
  <1>5. t \in advance => CanAdvance(t)
    BY <1>3
  <1>6. pc_req'[t] = (t \in jump)
    BY <1>3
  <1>7. pc'[t] = IF t \in jump THEN target
                 ELSE IF t \in advance THEN NextPc(pc[t]) ELSE pc[t]
    BY <1>3
  <1>8. CASE t \in jump
    BY <1>8, <1>6, <1>7, <1>4
  <1>9. CASE t \notin jump /\ t \in advance
    BY <1>9, <1>6, <1>7, <1>5, <1>2
  <1>10. CASE t \notin jump /\ t \notin advance
    BY <1>10, <1>6, <1>7, <1>1
  <1> QED BY <1>8, <1>9, <1>10

\* The arbiter is fetching for t after a step only if it has just taken up the
\* request of t, or was fetching for t already and is not answered yet.
LEMMA ArbiterStep ==
  ASSUME Next, TypeOK, NEW t \in Threads, ls_state' = FetchState(t)
  PROVE  \/ /\ ls_state = "LS_WAIT" /\ Chosen(t)
            /\ ram_addr_r' = IF Prefetch THEN fetch_addr[t] ELSE pc[t].word
         \/ /\ ls_state = FetchState(t) /\ ~ram_ack /\ ram_addr_r' = ram_addr_r
  <1>1. FetchState(t) \in {"LS_FETCH", "LS_FETCH2"}
    BY DEF FetchState
  <1>2. CASE \E u \in Threads : WaitFetch(u)
    <2>1. PICK u \in Threads : WaitFetch(u)
      BY <1>2
    <2>2. u = t
      BY <2>1, ThreadsFacts DEF WaitFetch, FetchState
    <2> QED BY <2>1, <2>2 DEF WaitFetch
  <1>3. CASE \E u \in Threads : FetchDone(u)
    BY <1>3, <1>1 DEF FetchDone, StartLoad
  <1>4. CASE WaitLoad
    BY <1>4, <1>1 DEF WaitLoad, StartLoad
  <1>5. CASE WaitIdle
    BY <1>5, <1>1 DEF WaitIdle
  <1>6. CASE AwaitRam
    BY <1>6, <1>1 DEF AwaitRam
  <1>7. CASE LoadDone \/ LoadSplit \/ Load2Done
    BY <1>7, <1>1 DEF LoadDone, LoadSplit, Load2Done, Finish
  <1> QED BY <1>2, <1>3, <1>4, <1>5, <1>6, <1>7 DEF Next

\* The registers of the opcode buffer of one thread.
LEMMA FetchStep ==
  ASSUME Fetch, NEW t \in Threads
  PROVE  /\ fetch_prevpc'[t] = pc[t].byte
         /\ fetch_ram_req'[t] = NextRamReq(t)
         /\ fetch_abort'[t] = NextAbort(t)
         /\ fetch_addr'[t] = NextFetchAddr(t)
         /\ opcodebuffer_valid'[t] = NextValid(t)
         /\ opcodebuffer'[t] = NextBuffer(t)
  BY DEF Fetch

-----------------------------------------------------------------------------
(* Preservation, thread by thread.                                         *)

\* A fetch under way stays asked for, and is answered with its own word.
LEMMA FetchingPreserved ==
  ASSUME IInv, Next, NEW t \in Threads
  PROVE  FetchingInv(t)'
  <1> SUFFICES ASSUME ls_state' = FetchState(t)
               PROVE  fetch_ram_req'[t] /\ (ram_ack' => ram_d' = ram_addr_r')
    BY DEF FetchingInv
  <1> USE DEF IInv
  <1>1. Clock /\ fetch_ram_req'[t] = NextRamReq(t)
    BY ClockTicks, FetchStep DEF Clock
  <1>2. ram_ack' => ram_req /\ ram_d' = ram_addr
    BY <1>1 DEF Clock, Ram
  <1>3. FetchState(t) # "LS_WAIT"
    BY DEF FetchState
  <1>4. CASE /\ ls_state = "LS_WAIT" /\ Chosen(t)
             /\ ram_addr_r' = IF Prefetch THEN fetch_addr[t] ELSE pc[t].word
    <2>1. fetch_ram_req'[t]
      BY <1>1, <1>3, <1>4 DEF NextRamReq, Fetched, Chosen
    <2>2. ASSUME ram_ack' PROVE ram_d' = ram_addr_r'
      <3>1. Prefetch
        BY <1>2, <1>4, <2>2 DEF ram_req, ArbiterInv
      <3> QED BY <1>2, <1>4, <2>2, <3>1, ChosenUnique DEF ram_addr
    <2> QED BY <2>1, <2>2
  <1>5. CASE ls_state = FetchState(t) /\ ~ram_ack /\ ram_addr_r' = ram_addr_r
    <2>1. fetch_ram_req[t]
      BY <1>5 DEF FetchingInv
    <2> QED BY <1>1, <1>2, <1>3, <1>5, <2>1 DEF NextRamReq, Fetched, ram_addr
  <1> QED BY <1>4, <1>5, ArbiterStep

\* What the invariant says of a thread whose answer is being taken into the
\* buffer: with prefetch the word that follows the buffered ones arrives.
LEMMA FetchedWord ==
  ASSUME IInv, NEW t \in Threads, Fetched(t)
  PROVE  /\ fetch_ram_req[t]
         /\ Prefetch => ram_d = fetch_addr[t]
         /\ ~Prefetch /\ ~pc_req[t] => ram_d = pc[t].word
  BY DEF IInv, FetchingInv, BufferInv, PrefetchInv, NoPrefetchInv, Fetched

\* The abort of a fetch outlives the fetch.
LEMMA FlightPreserved ==
  ASSUME IInv, Next, NEW t \in Threads, ls_state' = FetchState(t), ~fetch_abort'[t]
  PROVE  /\ ~pc_req[t] /\ ~Fetched(t)
         /\ Prefetch => ram_addr_r' = fetch_addr'[t] /\ fetch_addr'[t] = fetch_addr[t]
         /\ ~Prefetch => ram_addr_r' = pc[t].word
         /\ fetch_ram_req[t]
  <1> USE DEF IInv
  <1>1. /\ fetch_abort'[t] = NextAbort(t) /\ fetch_addr'[t] = NextFetchAddr(t)
    BY ClockTicks, FetchStep DEF Clock
  <1>2. FetchState(t) # "LS_WAIT"
    BY DEF FetchState
  <1>3. fetch_ram_req[t]
    BY ArbiterStep DEF Chosen, FetchingInv
  <1>4. ~pc_req[t]
    BY <1>1, <1>3 DEF NextAbort
  <1>5. ~Fetched(t)
    BY ArbiterStep, <1>2 DEF Fetched
  <1>6. fetch_addr'[t] = fetch_addr[t]
    BY <1>1, <1>4, <1>5 DEF NextFetchAddr
  <1>7. ls_state = FetchState(t) => ~fetch_abort[t]
    BY <1>1, ArbiterStep, <1>2 DEF NextAbort
  <1>8. Prefetch => ram_addr_r' = fetch_addr[t]
    BY ArbiterStep, <1>7 DEF BufferInv, PrefetchInv
  <1>9. ~Prefetch => ram_addr_r' = pc[t].word
    BY ArbiterStep, <1>4, <1>7 DEF BufferInv, NoPrefetchInv
  <1> QED BY <1>3, <1>4, <1>5, <1>6, <1>8, <1>9

\* With prefetch the buffer stays one or two consecutive words from pc on.
LEMMA PrefetchPreserved ==
  ASSUME IInv, Next, NEW t \in Threads, Prefetch
  PROVE  PrefetchInv(t)'
  <1> DEFINE w == pc[t].word
             V == opcodebuffer_valid[t]
  <1>1. /\ fetch_prevpc'[t] = pc[t].byte
        /\ fetch_ram_req'[t] = NextRamReq(t)
        /\ fetch_abort'[t] = NextAbort(t)
        /\ fetch_addr'[t] = NextFetchAddr(t)
        /\ opcodebuffer_valid'[t] = NextValid(t)
        /\ opcodebuffer'[t] = NextBuffer(t)
    BY ClockTicks, FetchStep DEF Clock
  <1>2. /\ pc[t] \in PcType /\ w \in Nat /\ pc[t].byte \in 0 .. LastByte
        /\ V \subseteq {0, 1} /\ opcodebuffer[t] \in [{0, 1} -> Nat]
        /\ fetch_addr[t] \in Nat /\ pc_req[t] \in BOOLEAN
    BY PcAssumption DEF IInv, TypeOK, PcType, Words
  <1>3. /\ Half(w) \in {0, 1} /\ Half(w + 1) = 1 - Half(w) /\ Half(w + 2) = Half(w)
    BY <1>2, HalfFlips, HalfRepeats
  <1>4. PrefetchInv(t)
    BY DEF IInv, BufferInv
  <1>5. ls_state' = FetchState(t) /\ ~fetch_abort'[t] => ram_addr_r' = fetch_addr'[t]
    BY FlightPreserved
  <1>6. CASE pc_req'[t] = TRUE
    BY <1>5, <1>6 DEF PrefetchInv
  <1>7. CASE pc_req'[t] = FALSE /\ pc_req[t]
    <2>1. pc'[t] = pc[t]
      BY <1>7, CoreStep, ClockTicks DEF IInv, Clock, CanAdvance, OpcodeValid
    <2>2. /\ opcodebuffer_valid'[t] = {} /\ fetch_addr'[t] = w
          /\ ~Crossed(t)'
      BY <1>1, <1>2, <1>7, <2>1 DEF NextValid, NextFetchAddr, Crossed, LastByte
    <2> QED BY <1>3, <1>5, <1>7, <2>1, <2>2 DEF PrefetchInv
  <1>8. CASE pc_req'[t] = FALSE /\ ~pc_req[t]
    <2> DEFINE V2 == opcodebuffer_valid'[t]
               h == Half(w)
    \* The buffer after this edge, seen from the word pc is in before it.
    <2>1. /\ h \in V2 => opcodebuffer'[t][h] = w
          /\ h \notin V2 => V2 = {} /\ fetch_addr'[t] = w
          /\ fetch_abort'[t] => V2 = {}
          /\ V2 = {h} => fetch_addr'[t] = w + 1
          /\ V2 = {0, 1} => /\ fetch_addr'[t] = w + 2 /\ ~fetch_ram_req'[t]
                            /\ opcodebuffer'[t][1 - h] = w + 1
      <3>1. CASE Fetched(t)
        <4>1. ram_d = fetch_addr[t] /\ fetch_ram_req[t]
          BY <3>1, FetchedWord
        <4>2. /\ V2 = (V \ (IF Crossed(t) THEN {1 - h} ELSE {})) \cup {Half(fetch_addr[t])}
              /\ fetch_addr'[t] = fetch_addr[t] + 1
              /\ opcodebuffer'[t] = [opcodebuffer[t] EXCEPT ![Half(fetch_addr[t])] = ram_d]
              /\ fetch_ram_req'[t] = (V = {}) /\ ~fetch_abort'[t]
          BY <1>1, <1>8, <3>1 DEF NextValid, NextFetchAddr, NextBuffer, NextRamReq,
             NextAbort, ValidatedHalf, FilledHalf, Fetched
        <4>3. CASE Crossed(t)
          BY <1>2, <1>3, <1>4, <1>8, <4>1, <4>2, <4>3 DEF PrefetchInv
        <4>4. CASE ~Crossed(t)
          BY <1>2, <1>3, <1>4, <1>8, <4>1, <4>2, <4>4 DEF PrefetchInv
        <4> QED BY <4>3, <4>4
      <3>2. CASE ~Fetched(t)
        <4>1. /\ V2 = V \ (IF Crossed(t) THEN {1 - h} ELSE {})
              /\ fetch_addr'[t] = fetch_addr[t]
              /\ opcodebuffer'[t] = opcodebuffer[t]
              /\ fetch_abort'[t] => fetch_abort[t]
              /\ ~Crossed(t) /\ V = {0, 1} => ~fetch_ram_req'[t]
          BY <1>1, <1>4, <1>8, <3>2 DEF NextValid, NextFetchAddr, NextBuffer, NextRamReq,
             NextAbort, PrefetchInv
        <4>3. CASE Crossed(t)
          BY <1>2, <1>3, <1>4, <1>8, <4>1, <4>3 DEF PrefetchInv
        <4>4. CASE ~Crossed(t)
          BY <1>2, <1>3, <1>4, <1>8, <4>1, <4>4 DEF PrefetchInv
        <4> QED BY <4>3, <4>4
      <3> QED BY <3>1, <3>2
    <2>2. CASE pc'[t] = pc[t]
      <3>1. ~Crossed(t)'
        BY <1>1, <1>2, <2>2 DEF Crossed, LastByte
      <3> QED BY <1>5, <2>1, <2>2, <3>1 DEF PrefetchInv
    <2>3. CASE CanAdvance(t) /\ pc'[t] = NextPc(pc[t])
      <3> DEFINE w2 == pc'[t].word
      <3>1. h \in V /\ pc[t].byte \in 0 .. LastByte
        BY <1>2, <2>3 DEF CanAdvance, OpcodeValid
      <3>2. h \in V2
        BY <1>1, <1>3, <1>8, <3>1 DEF NextValid
      <3>3. CASE pc[t].byte = LastByte
        <4>1. w2 = w + 1 /\ Crossed(t)' /\ Half(w2) = 1 - h /\ 1 - Half(w2) = h
          BY <1>1, <1>3, <2>3, <3>3 DEF NextPc, Crossed
        <4>2. V2 = {h} \/ V2 = {0, 1}
          BY <1>1, <1>2, <1>3, <3>2 DEF NextValid, ValidatedHalf, Half
        <4>3. /\ w2 + 1 = w + 2
              /\ 1 - h \in V2 => opcodebuffer'[t][1 - h] = w + 1
              /\ fetch_addr'[t] = IF 1 - h \in V2 THEN w + 2 ELSE w + 1
          BY <1>2, <1>3, <2>1, <4>1, <4>2
        <4>4. ~fetch_abort'[t]
          BY <2>1, <3>2
        <4> HIDE DEF w2, V2, w, h
        <4>5. /\ 1 - h \in V2 => opcodebuffer'[t][1 - h] = w2
              /\ V2 = {0, 1} => ~fetch_ram_req'[t]
              /\ fetch_addr'[t] = IF 1 - h \in V2 THEN w2 + 1 ELSE w2
          BY <2>1, <4>1, <4>3
        <4> QED BY <1>5, <3>2, <4>1, <4>4, <4>5 DEF PrefetchInv, w2, V2
      <3>4. CASE pc[t].byte # LastByte
        <4>1. w2 = w /\ ~Crossed(t)'
          BY <1>1, <1>2, <2>3, <3>4 DEF NextPc, Crossed
        <4> QED BY <1>5, <2>1, <4>1 DEF PrefetchInv
      <3> QED BY <3>3, <3>4
    <2> QED BY <1>8, <2>2, <2>3, CoreStep, ClockTicks DEF IInv, Clock
  <1> QED BY <1>6, <1>7, <1>8, <1>2, CoreStep, ClockTicks DEF IInv, Clock

\* Without prefetch the buffer is empty while a word is asked for.
LEMMA NoPrefetchPreserved ==
  ASSUME IInv, Next, NEW t \in Threads, ~Prefetch
  PROVE  NoPrefetchInv(t)'
  <1> DEFINE w == pc[t].word
             h == Half(w)
             V == opcodebuffer_valid[t]
  <1>1. /\ fetch_prevpc'[t] = pc[t].byte
        /\ fetch_ram_req'[t] = NextRamReq(t)
        /\ fetch_abort'[t] = NextAbort(t)
        /\ opcodebuffer_valid'[t] = NextValid(t)
        /\ opcodebuffer'[t] = NextBuffer(t)
    BY ClockTicks, FetchStep DEF Clock
  <1>2. /\ pc[t] \in PcType /\ w \in Nat /\ pc[t].byte \in 0 .. LastByte
        /\ V \subseteq {0, 1} /\ opcodebuffer[t] \in [{0, 1} -> Nat]
        /\ pc_req[t] \in BOOLEAN
    BY PcAssumption DEF IInv, TypeOK, PcType
  <1>3. h \in {0, 1} /\ Half(w + 1) = 1 - h
    BY <1>2, HalfFlips
  <1>4. NoPrefetchInv(t)
    BY DEF IInv, BufferInv
  <1>5. CASE pc_req'[t] = TRUE
    BY <1>5 DEF NoPrefetchInv
  <1>6. CASE pc_req'[t] = FALSE /\ pc_req[t]
    <2>1. pc'[t] = pc[t]
      BY <1>6, CoreStep, ClockTicks DEF IInv, Clock, CanAdvance, OpcodeValid
    <2>2. opcodebuffer_valid'[t] = {} /\ ~Crossed(t)'
      BY <1>1, <1>2, <1>6, <2>1 DEF NextValid, Crossed, LastByte
    <2>3. ~(ls_state' = FetchState(t) /\ ~fetch_abort'[t])
      BY <1>6, FlightPreserved
    <2> QED BY <2>1, <2>2, <2>3 DEF NoPrefetchInv
  <1>7. CASE pc_req'[t] = FALSE /\ ~pc_req[t] /\ pc'[t] = pc[t]
    <2>1. ~Crossed(t)'
      BY <1>1, <1>2, <1>7 DEF Crossed, LastByte
    <2>2. ls_state' = FetchState(t) /\ ~fetch_abort'[t] => ram_addr_r' = w
      BY FlightPreserved
    <2>3. CASE Fetched(t)
      <3>1. fetch_ram_req[t] /\ ram_d = w
        BY <1>7, <2>3, FetchedWord
      <3>2. V = {} /\ ~Crossed(t)
        BY <1>3, <1>4, <1>7, <3>1 DEF NoPrefetchInv
      <3>3. /\ opcodebuffer_valid'[t] = {h} /\ ~fetch_ram_req'[t]
            /\ ~fetch_abort'[t] /\ opcodebuffer'[t][1] = w
        BY <1>1, <1>2, <1>7, <2>3, <3>1, <3>2 DEF NextValid, NextRamReq,
           NextAbort, NextBuffer, ValidatedHalf, FilledHalf, Fetched
      <3> QED BY <1>7, <2>1, <2>2, <3>3 DEF NoPrefetchInv
    <2>4. CASE ~Fetched(t)
      <3>1. /\ opcodebuffer_valid'[t] = V \ (IF Crossed(t) THEN {1 - h} ELSE {})
            /\ opcodebuffer'[t] = opcodebuffer[t]
            /\ fetch_ram_req'[t] => fetch_ram_req[t] \/ Crossed(t) \/ fetch_abort[t]
            /\ fetch_abort'[t] => fetch_abort[t]
        BY <1>1, <1>7, <2>4 DEF NextValid, NextRamReq, NextBuffer, NextAbort
      <3>2. CASE Crossed(t)
        <4>1. V = {1 - h}
          BY <1>4, <1>7, <3>2 DEF NoPrefetchInv
        <4>2. opcodebuffer_valid'[t] = {}
          BY <3>1, <3>2, <4>1
        <4> QED BY <1>7, <2>1, <2>2, <4>2 DEF NoPrefetchInv
      <3>3. CASE ~Crossed(t)
        <4>1. /\ V \in {{}, {h}}
              /\ fetch_ram_req[t] \/ fetch_abort[t] => V = {}
              /\ h \in V => opcodebuffer[t][1] = w
          BY <1>4, <1>7, <3>3 DEF NoPrefetchInv
        <4>2. opcodebuffer_valid'[t] = V
          BY <3>1, <3>3
        <4>3. fetch_ram_req'[t] \/ fetch_abort'[t] => V = {}
          BY <3>1, <3>3, <4>1
        <4> DEFINE V2 == opcodebuffer_valid'[t]
        <4>4. /\ fetch_ram_req'[t] \/ fetch_abort'[t] => V2 = {}
              /\ V2 \in {{}, {h}}
              /\ h \in V2 => opcodebuffer'[t][1] = w
          BY <3>1, <4>1, <4>2, <4>3
        <4> HIDE DEF h, w, V2
        <4> QED BY <1>7, <2>1, <2>2, <4>4 DEF NoPrefetchInv, h, w, V2
      <3> QED BY <3>2, <3>3
    <2> QED BY <2>3, <2>4
  <1>8. CASE pc_req'[t] = FALSE /\ ~pc_req[t] /\ CanAdvance(t) /\ pc'[t] = NextPc(pc[t])
    <2> DEFINE w2 == pc'[t].word
    <2>1. V = {h} /\ ~Crossed(t) /\ ~fetch_ram_req[t] /\ ~fetch_abort[t]
          /\ opcodebuffer[t][1] = w
      BY <1>3, <1>4, <1>8 DEF NoPrefetchInv, CanAdvance, OpcodeValid
    <2>2. ~Fetched(t)
      BY <2>1, FetchedWord
    <2>3. /\ opcodebuffer_valid'[t] = {h} /\ opcodebuffer'[t] = opcodebuffer[t]
          /\ ~fetch_ram_req'[t] /\ ~fetch_abort'[t]
      BY <1>1, <1>8, <2>1, <2>2 DEF NextValid, NextRamReq, NextBuffer, NextAbort
    <2>4. ls_state' # FetchState(t)
      BY <2>1, <2>3, FlightPreserved
    <2>5. CASE pc[t].byte = LastByte
      <3>1. Crossed(t)' /\ Half(w2) = 1 - h /\ 1 - Half(w2) = h
        BY <1>1, <1>3, <1>8, <2>5 DEF NextPc, Crossed
      <3> HIDE DEF w2, h
      <3> QED BY <1>3, <2>3, <2>4, <3>1 DEF NoPrefetchInv, w2
    <2>6. CASE pc[t].byte # LastByte
      <3>1. w2 = w /\ ~Crossed(t)'
        BY <1>1, <1>2, <1>8, <2>6 DEF NextPc, Crossed
      <3> QED BY <2>1, <2>3, <2>4, <3>1 DEF NoPrefetchInv
    <2> QED BY <2>5, <2>6
  <1> QED BY <1>5, <1>6, <1>7, <1>8, <1>2, CoreStep, ClockTicks DEF IInv, Clock

-----------------------------------------------------------------------------
(* Preservation, the rest of the unit.                                     *)

\* While an access is on its way the request of the core does not change.
LEMMA RequestHeld ==
  ASSUME Clock, ls_req_r, ~ls_ack
  PROVE  ls_req_r' /\ ls_addr' = ls_addr /\ ls_wr' = ls_wr /\ ls_split' = ls_split
  BY DEF Clock, LoadStore, lsVars

\* The RAM answers with the word whose address is on the port.
LEMMA RamAnswers ==
  ASSUME IInv, Clock, ram_ack', ls_state # "LS_WAIT"
  PROVE  ~ram_ack /\ ram_d' = ram_addr_r
  BY DEF Clock, Ram, ram_req, ram_addr

\* Nothing is answered that was not asked for.
LEMMA NoAnswerFromWait ==
  ASSUME IInv, Clock, ls_state = "LS_WAIT", ~FetchRequested
  PROVE  ~ram_ack'
  BY DEF IInv, ArbiterInv, Clock, Ram, ram_req

LEMMA ArbiterPreserved ==
  ASSUME IInv, Next
  PROVE  ArbiterInv' /\ LoadIsRequests'
  <1> USE DEF IInv, ArbiterInv, LoadIsRequests
  <1>1. Clock /\ ls_addrplus4' = ls_addr + 1 /\ ls_addr \in Nat
    BY ClockTicks DEF Clock, TypeOK
  <1>2. CASE \E t \in Threads : WaitFetch(t)
    <2>1. PICK t \in Threads : WaitFetch(t)
      BY <1>2
    <2>2. /\ ls_state' = FetchState(t) /\ ram_req_r' /\ ~ls_ack' /\ ~ram_wr'
      BY <2>1 DEF WaitFetch
    <2>3. ls_state' = "LS_FETCH" \/ (ls_state' = "LS_FETCH2" /\ 2 \in Threads)
      BY <2>2, ThreadsFacts DEF FetchState
    <2> QED BY <2>2, <2>3 DEF LsStates
  <1>3. ASSUME ls_req, StartLoad, ~ram_ack', ~ls_ack'
        PROVE  ArbiterInv' /\ LoadIsRequests'
    <2>1. ls_req_r' /\ ls_addr' = ls_addr /\ ls_wr' = ls_wr
      BY <1>1, <1>3, RequestHeld DEF ls_req
    <2> QED BY <1>1, <1>3, <2>1 DEF StartLoad, LsStates
  <1>4. CASE \E t \in Threads : FetchDone(t)
    <2>1. PICK t \in Threads : FetchDone(t)
      BY <1>4
    <2>2. ~ram_ack' /\ ~ls_ack' /\ ls_state \in {"LS_FETCH", "LS_FETCH2"} /\ ~ram_wr
      BY <1>1, <2>1 DEF FetchDone, FetchState, Clock, Ram, ram_req
    <2>3. CASE ls_req /\ StartLoad
      BY <1>3, <2>2, <2>3
    <2>4. CASE ram_req_r' = FALSE /\ ls_state' = "LS_WAIT" /\ UNCHANGED ram_wr
      BY <2>2, <2>4 DEF LsStates
    <2> QED BY <2>1, <2>3, <2>4 DEF FetchDone
  <1>5. CASE WaitLoad
    BY <1>1, <1>3, <1>5, NoAnswerFromWait DEF WaitLoad
  <1>6. CASE WaitIdle
    BY <1>6 DEF WaitIdle
  <1>7. CASE AwaitRam
    <2>1. /\ ls_state # "LS_WAIT" /\ ~ls_ack' /\ ~ls_ack
          /\ UNCHANGED <<ls_state, ram_req_r, ram_addr_r, ram_wr, ls_q>>
      BY <1>7 DEF AwaitRam
    <2>2. ram_ack' => ram_d' = ram_addr_r
      BY <1>1, <2>1, RamAnswers
    <2>3. CASE ls_state \in {"LS_LOAD", "LS_LOAD2"}
      BY <1>1, <2>1, <2>2, <2>3, RequestHeld
    <2>4. CASE ls_state \notin {"LS_LOAD", "LS_LOAD2"}
      BY <2>1, <2>4
    <2> QED BY <2>3, <2>4
  <1>8. CASE LoadDone \/ LoadSplit \/ Load2Done
    <2>1. /\ ls_state \in {"LS_LOAD", "LS_LOAD2"} /\ ram_ack /\ ram_d = ram_addr_r
          /\ ls_req_r' /\ ls_addr' = ls_addr /\ ls_wr' = ls_wr /\ ls_split' = ls_split
          /\ ~ram_ack'
      BY <1>1, <1>8, RequestHeld DEF LoadDone, LoadSplit, Load2Done, Clock, Ram, ram_req
    <2>2. CASE LoadDone
      BY <2>1, <2>2 DEF LoadDone, Finish, LsStates
    <2>3. CASE LoadSplit
      BY <1>1, <2>1, <2>3 DEF LoadSplit, LsStates
    <2>4. CASE Load2Done
      BY <2>1, <2>4 DEF Load2Done, Finish, LsStates
    <2> QED BY <1>8, <2>2, <2>3, <2>4
  <1> QED BY <1>2, <1>4, <1>5, <1>6, <1>7, <1>8 DEF Next

\* The address range needs the buffer invariant: a fetch address is advanced
\* only when it is at most one word beyond pc.
LEMMA FetchAddrBounded ==
  ASSUME IInv, Next, NEW t \in Threads
  PROVE  fetch_addr'[t] \in Words
  <1>1. fetch_addr'[t] = NextFetchAddr(t)
    BY ClockTicks, FetchStep DEF Clock
  <1>2. /\ pc[t].word \in 0 .. PcWords - 1 /\ fetch_addr[t] \in Words
        /\ PcWords \in Nat /\ opcodebuffer_valid[t] \subseteq {0, 1}
    BY PcAssumption DEF IInv, TypeOK, PcType
  <1>3. CASE pc_req[t]
    <2>1. fetch_addr'[t] \in {pc[t].word, fetch_addr[t]} \/ (Fetched(t) /\ Prefetch /\ ~Prefetch)
      BY <1>1, <1>3 DEF NextFetchAddr
    <2> QED BY <2>1, <1>2 DEF Words
  <1>4. CASE ~pc_req[t] /\ Fetched(t) /\ Prefetch
    <2>1. fetch_ram_req[t] /\ PrefetchInv(t)
      BY <1>4, FetchedWord DEF IInv, BufferInv
    <2>2. Half(pc[t].word) \in {0, 1} /\ pc[t].word \in Nat
      BY <1>2, HalfFlips
    <2>3. fetch_addr[t] \in {pc[t].word, pc[t].word + 1}
      BY <1>2, <1>4, <2>1, <2>2 DEF PrefetchInv
    <2>4. fetch_addr'[t] = fetch_addr[t] + 1
      BY <1>1, <1>4 DEF NextFetchAddr
    <2> QED BY <1>2, <2>3, <2>4 DEF Words
  <1>5. CASE ~pc_req[t] /\ ~(Fetched(t) /\ Prefetch)
    BY <1>1, <1>2, <1>5 DEF NextFetchAddr
  <1> QED BY <1>3, <1>4, <1>5

\* Program counters and fetch addresses are natural numbers.
LEMMA AddressTypes ==
  ASSUME TypeOK, NEW t \in Threads
  PROVE  pc[t].word \in Nat /\ fetch_addr[t] \in Nat
  <1>1. pc[t] \in PcType /\ fetch_addr[t] \in Words
    BY DEF TypeOK
  <1>2. pc[t].word \in Nat
    BY <1>1, PcAssumption DEF PcType
  <1>3. fetch_addr[t] \in Nat
    BY <1>1, PcAssumption DEF Words
  <1> QED BY <1>2, <1>3

\* Every RAM address is a natural number, whoever drives it.
LEMMA RamAddrType ==
  ASSUME TypeOK
  PROVE  ram_addr \in Nat
  <1>1. CASE ls_state = "LS_WAIT" /\ Prefetch /\ FetchRequested
    <2>1. PICK t \in Threads : Chosen(t)
      BY <1>1, SomeChosen DEF TypeOK
    <2>2. ram_addr = fetch_addr[t]
      BY <1>1, <2>1, ChosenUnique DEF ram_addr
    <2> QED BY <2>2, PcAssumption DEF TypeOK, Words
  <1>2. CASE ~(ls_state = "LS_WAIT" /\ Prefetch /\ FetchRequested)
    BY <1>2 DEF TypeOK, ram_addr
  <1> QED BY <1>1, <1>2

\* What the fetch process leaves in the registers of a thread has their type.
LEMMA FetchTypes ==
  ASSUME IInv, Next
  PROVE  /\ opcodebuffer' \in [Threads -> [{0, 1} -> Nat]]
         /\ opcodebuffer_valid' \in [Threads -> SUBSET {0, 1}]
         /\ fetch_addr' \in [Threads -> Words]
         /\ fetch_ram_req' \in [Threads -> BOOLEAN]
         /\ fetch_abort' \in [Threads -> BOOLEAN]
         /\ fetch_prevpc' \in [Threads -> 0 .. LastByte]
  <1> USE DEF IInv
  <1>1. Fetch
    BY ClockTicks DEF Clock
  <1>2. \A t \in Threads : fetch_addr'[t] \in Words
    BY FetchAddrBounded
  <1>3. \A t \in Threads : NextBuffer(t) \in [{0, 1} -> Nat]
    BY DEF NextBuffer, TypeOK
  <1>4. \A t \in Threads : NextValid(t) \subseteq {0, 1}
    <2>1. \A t \in Threads : /\ Half(pc[t].word) \in {0, 1}
                             /\ Half(fetch_addr[t]) \in {0, 1}
      BY HalfFlips, AddressTypes
    <2> QED BY <2>1 DEF NextValid, ValidatedHalf, TypeOK
  <1>5. \A t \in Threads : NextRamReq(t) \in BOOLEAN /\ NextAbort(t) \in BOOLEAN
    BY DEF NextRamReq, NextAbort
  <1>6. \A t \in Threads : pc[t].byte \in 0 .. LastByte
    BY DEF TypeOK, PcType
  <1>7. /\ opcodebuffer' \in [Threads -> [{0, 1} -> Nat]]
        /\ opcodebuffer_valid' \in [Threads -> SUBSET {0, 1}]
    BY <1>1, <1>3, <1>4 DEF Fetch
  <1>8. /\ fetch_ram_req' \in [Threads -> BOOLEAN]
        /\ fetch_abort' \in [Threads -> BOOLEAN]
    BY <1>1, <1>5 DEF Fetch
  <1>9. fetch_prevpc' \in [Threads -> 0 .. LastByte]
    BY <1>1, <1>6 DEF Fetch
  <1>10. fetch_addr' \in [Threads -> Words]
    BY <1>1, <1>2 DEF Fetch
  <1> QED BY <1>7, <1>8, <1>9, <1>10

LEMMA TypePreserved ==
  ASSUME IInv, Next
  PROVE  TypeOK'
  <1> USE DEF IInv
  <1>1. Clock
    BY ClockTicks
  <1>2. pc' \in [Threads -> PcType] /\ pc_req' \in [Threads -> BOOLEAN]
    <2>1. \A t \in Threads : pc'[t] \in PcType /\ pc_req'[t] \in BOOLEAN
      BY <1>1, CoreStep DEF Clock
    <2>2. /\ pc' = [t \in Threads |-> pc'[t]]
          /\ pc_req' = [t \in Threads |-> pc_req'[t]]
      BY <1>1 DEF Clock, Core
    <2> QED BY <2>1, <2>2
  <1>3. ram_ack' \in BOOLEAN /\ ram_d' \in Nat
    BY <1>1, RamAddrType DEF Clock, Ram, TypeOK
  <1>4. ls_req_r' \in BOOLEAN /\ ls_addr' \in Nat /\ ls_wr' \in BOOLEAN /\ ls_split' \in BOOLEAN
    BY <1>1, LsAssumption DEF Clock, LoadStore, lsVars, TypeOK
  <1>5. ls_addrplus4' \in Nat
    BY <1>1 DEF Clock, TypeOK
  <1>6. ls_state' \in LsStates
    BY ArbiterPreserved DEF ArbiterInv
  <1>7. /\ ram_req_r' \in BOOLEAN /\ ram_addr_r' \in Nat /\ ram_wr' \in BOOLEAN
        /\ ls_ack' \in BOOLEAN /\ ls_q' \subseteq Nat
    <2>1. \A t \in Threads : pc[t].word \in Nat /\ fetch_addr[t] \in Nat
      BY AddressTypes
    <2>2. StartLoad => ram_req_r' \in BOOLEAN /\ ram_addr_r' \in Nat /\ ram_wr' \in BOOLEAN
      BY DEF StartLoad, TypeOK
    <2>3. CASE \E t \in Threads : WaitFetch(t)
      BY <2>1, <2>3 DEF WaitFetch, TypeOK
    <2>4. CASE \E t \in Threads : FetchDone(t)
      BY <2>2, <2>4 DEF FetchDone, TypeOK
    <2>5. CASE WaitLoad
      BY <2>2, <2>5 DEF WaitLoad, TypeOK
    <2>6. CASE WaitIdle \/ AwaitRam
      BY <2>6 DEF WaitIdle, AwaitRam, TypeOK
    <2>7. CASE LoadDone \/ LoadSplit \/ Load2Done
      BY <2>7 DEF LoadDone, LoadSplit, Load2Done, Finish, TypeOK
    <2> QED BY <2>3, <2>4, <2>5, <2>6, <2>7 DEF Next
  <1> QED BY <1>2, <1>3, <1>4, <1>5, <1>6, <1>7, FetchTypes DEF TypeOK

-----------------------------------------------------------------------------
(* The theorems.                                                           *)

LEMMA InitIInv == Init => IInv
  <1> SUFFICES ASSUME Init PROVE IInv
    OBVIOUS
  <1>1. TypeOK
    <2>1. [word |-> 0, byte |-> 0] \in PcType
      BY PcAssumption DEF PcType, LastByte
    <2>2. {0, PcWords - 1} \subseteq Words /\ {0, LastByte} \subseteq 0 .. LastByte
      BY PcAssumption DEF Words, LastByte
    <2>3. fetch_addr \in [Threads -> Words] /\ fetch_prevpc \in [Threads -> 0 .. LastByte]
      BY <2>2 DEF Init
    <2>4. pc \in [Threads -> PcType] /\ pc_req \in [Threads -> BOOLEAN]
      BY <2>1 DEF Init
    <2>5. /\ opcodebuffer \in [Threads -> [{0, 1} -> Nat]]
          /\ opcodebuffer_valid \in [Threads -> SUBSET {0, 1}]
      BY DEF Init
    <2> QED BY <2>3, <2>4, <2>5 DEF Init, TypeOK, LsStates
  <1>2. ArbiterInv /\ LoadIsRequests
    BY DEF Init, ArbiterInv, LoadIsRequests, LsStates
  <1>3. ASSUME NEW t \in Threads PROVE FetchingInv(t) /\ BufferInv(t)
    <2>1. ls_state # FetchState(t) /\ pc_req[t]
      BY DEF Init, FetchState
    <2> QED BY <2>1 DEF FetchingInv, BufferInv, PrefetchInv, NoPrefetchInv
  <1> QED BY <1>1, <1>2, <1>3 DEF IInv

LEMMA IInvNext == IInv /\ [Next]_vars => IInv'
  <1>1. ASSUME IInv, Next PROVE IInv'
    <2>1. ASSUME NEW t \in Threads PROVE FetchingInv(t)' /\ BufferInv(t)'
      BY <1>1, FetchingPreserved, PrefetchPreserved, NoPrefetchPreserved DEF BufferInv
    <2> QED BY <1>1, <2>1, TypePreserved, ArbiterPreserved DEF IInv
  <1>2. ASSUME IInv, UNCHANGED vars PROVE IInv'
    BY <1>2 DEF IInv, TypeOK, ArbiterInv, LoadIsRequests, FetchingInv, BufferInv,
       PrefetchInv, NoPrefetchInv, Crossed, vars, pcVars, fetchVars, arbVars, lsVars
  <1> QED BY <1>1, <1>2

LEMMA SpecIInv == Spec => []IInv
  BY InitIInv, IInvNext, PTL DEF Spec

\* Every register keeps its type, and a prefetch never runs more than two words
\* ahead of the program.
THEOREM TypeCorrect == Spec => []TypeOK
  BY SpecIInv, PTL DEF IInv

\* A valid opcode comes from the word of pc.
THEOREM FetchCorrect == Spec => []OpcodeIsPcs
  <1>1. IInv => OpcodeIsPcs
    <2> SUFFICES ASSUME IInv, NEW t \in Threads, OpcodeValid(t)
                 PROVE  opcodebuffer[t][SelectedHalf(t)] = pc[t].word
      BY DEF OpcodeIsPcs
    <2> QED BY DEF IInv, BufferInv, PrefetchInv, NoPrefetchInv, OpcodeValid, SelectedHalf
  <1> QED BY <1>1, SpecIInv, PTL

\* An acknowledged load has the words it asked for.
THEOREM LoadCorrect == Spec => []LoadIsRequests
  BY SpecIInv, PTL DEF IInv

\* Only a store under way writes, and only its own words.
THEOREM StoreCorrect == Spec => []WritesAreStores
  <1>1. IInv => WritesAreStores
    BY DEF IInv, ArbiterInv, WritesAreStores, ram_addr
  <1> QED BY <1>1, SpecIInv, PTL

\* A RAM request is held until it is answered.
THEOREM PortProtocol == Spec => RamRequestStable
  <1> DEFINE Held == ram_req /\ ~ram_ack' =>
                       ram_req' /\ ram_addr' = ram_addr /\ ram_wr' = ram_wr
  <1>1. ASSUME IInv, Next PROVE Held
    <2> SUFFICES ASSUME ram_req, ~ram_ack'
                 PROVE  ram_req' /\ ram_addr' = ram_addr /\ ram_wr' = ram_wr
      OBVIOUS
    <2>1. ~ram_ack
      BY DEF ram_req
    <2>2. CASE \E t \in Threads : WaitFetch(t)
      <3>1. PICK t \in Threads : WaitFetch(t)
        BY <2>2
      <3>2. Prefetch /\ ram_addr = fetch_addr[t]
        BY <1>1, <3>1, ChosenUnique DEF WaitFetch, ram_req, ram_addr, IInv, ArbiterInv
      <3>3. ls_state' # "LS_WAIT"
        BY <3>1 DEF WaitFetch, FetchState
      <3> QED BY <3>1, <3>2, <3>3 DEF WaitFetch, ram_req, ram_addr
    <2>3. CASE AwaitRam
      BY <1>1, <2>3 DEF AwaitRam, ram_req, ram_addr, IInv, ArbiterInv
    <2>4. CASE WaitLoad \/ WaitIdle
      BY <1>1, <2>4 DEF WaitLoad, WaitIdle, ram_req, IInv, ArbiterInv
    <2>5. CASE LoadDone \/ LoadSplit \/ Load2Done \/ \E t \in Threads : FetchDone(t)
      BY <2>1, <2>5 DEF LoadDone, LoadSplit, Load2Done, FetchDone
    <2> QED BY <1>1, <2>2, <2>3, <2>4, <2>5 DEF Next
  <1>2. ASSUME UNCHANGED vars PROVE Held
    BY <1>2 DEF vars, pcVars, fetchVars, arbVars, lsVars, ram_req, ram_addr,
       FetchRequested, Chosen
  <1>3. IInv /\ [Next]_vars => [Held]_vars
    BY <1>1, <1>2
  <1> QED BY <1>3, SpecIInv, PTL DEF Spec, RamRequestStable
=============================================================================
