------------------------------ MODULE FetchUnit ------------------------------
(***************************************************************************)
(* The fetch / load / store unit of the CPU                                *)
(* (RTL/eightthirtytwo_fetchloadstore.vhd): one opcode buffer per thread,  *)
(* and the arbiter that shares the single RAM port between the opcode      *)
(* fetches of the threads and the loads and stores of the core.            *)
(*                                                                         *)
(* A step is one rising clock edge.  The next value of every register is   *)
(* written from the assignments of its clocked process, the last one in    *)
(* the text winning, as in VHDL.  RAM words are abstracted to their        *)
(* address: a buffer half, or a load result, remembers which words it was  *)
(* filled from, and that is what the properties talk about.                *)
(***************************************************************************)
EXTENDS Naturals

CONSTANTS
    Threads,     \* {1}, or {1, 2} for the generic dualthread=true
    Prefetch,    \* the generic "prefetch"
    PcWords,     \* words the program counters range over
    Targets,     \* program counters a jump may go to
    LsRequests   \* the loads and stores the core may ask for

LastByte == 3    \* four one-byte opcodes to a RAM word

PcType == [word : 0 .. PcWords - 1, byte : 0 .. LastByte]

ASSUME ThreadsAssumption == Threads \in {{1}, {1, 2}}
ASSUME PrefetchAssumption == Prefetch \in BOOLEAN
ASSUME PcAssumption == PcWords \in Nat \ {0} /\ Targets \subseteq PcType
ASSUME LsAssumption == LsRequests \subseteq [addr : Nat, wr : BOOLEAN, split : BOOLEAN]

VARIABLES
    \* cpu side, per thread
    pc,                  \* thread.pc, as RAM word and byte within it
    pc_req,              \* thread.setpc: pc was written by a jump
    \* opcode fetch, per thread
    opcodebuffer,        \* word address each half was filled from
    opcodebuffer_valid,  \* the halves that hold an opcode word
    fetch_addr, fetch_ram_req, fetch_abort, fetch_prevpc,
    \* the arbiter
    ls_state, ram_req_r, ram_addr_r, ram_wr, ls_addrplus4, ls_ack,
    ls_q,                \* words the load result was merged from
    \* the load / store request of the core
    ls_req_r, ls_addr, ls_wr, ls_split,
    \* the RAM (external)
    ram_ack, ram_d

pcVars    == <<pc, pc_req>>
fetchVars == <<opcodebuffer, opcodebuffer_valid, fetch_addr, fetch_ram_req,
               fetch_abort, fetch_prevpc>>
arbVars   == <<ls_state, ram_req_r, ram_addr_r, ram_wr, ls_ack, ls_q>>
lsVars    == <<ls_req_r, ls_addr, ls_wr, ls_split>>
vars      == <<pcVars, fetchVars, arbVars, ls_addrplus4, lsVars, ram_ack, ram_d>>

\* The buffer half that a word belongs to: bit 2 of its byte address.
Half(w) == w % 2

\* State of the arbiter while it fetches for a thread.
FetchState(t) == IF t = 1 THEN "LS_FETCH" ELSE "LS_FETCH2"

\* The half "opcode" is selected from (fetch_word).
SelectedHalf(t) == IF Prefetch THEN Half(pc[t].word) ELSE 1

\* opcode_valid: the core may decode the byte at pc.
OpcodeValid(t) == Half(pc[t].word) \in opcodebuffer_valid[t] /\ ~pc_req[t]

-----------------------------------------------------------------------------
(* The RAM port.  With prefetch an opcode request goes out in the same     *)
(* cycle as the arbiter takes it, straight from the fetch address.         *)

\* Thread 1 has priority over thread 2.
Chosen(t) == fetch_ram_req[t] /\ \A u \in Threads : u < t => ~fetch_ram_req[u]

FetchRequested == \E t \in Threads : fetch_ram_req[t]

ram_req == /\ ~ram_ack
           /\ IF ls_state = "LS_WAIT" /\ Prefetch THEN FetchRequested ELSE ram_req_r

\* Faulty variant: the address of a request comes one cycle after the request.
ram_addr_Registered == ram_addr_r

\* Faulty variant: the other priority here than in the state machine.
ram_addr_Thread2First ==
    IF ls_state = "LS_WAIT" /\ Prefetch /\ FetchRequested
    THEN fetch_addr[CHOOSE t \in Threads :
             fetch_ram_req[t] /\ \A u \in Threads : u > t => ~fetch_ram_req[u]]
    ELSE ram_addr_r

ram_addr == IF ls_state = "LS_WAIT" /\ Prefetch /\ FetchRequested
            THEN fetch_addr[CHOOSE t \in Threads : Chosen(t)]
            ELSE ram_addr_r

\* Faulty variant: still up in the cycle of the acknowledge.
ls_req_Late == ls_req_r

\* ls_req as the core drives it: dropped in the cycle of the acknowledge.
ls_req == ls_req_r /\ ~ls_ack

\* The RAM answers a request one or more cycles later, with a one-cycle pulse.
Ram == /\ ram_ack' \in (IF ram_req THEN BOOLEAN ELSE {FALSE})
       /\ ram_d' = IF ram_ack' THEN ram_addr ELSE ram_d

-----------------------------------------------------------------------------
(* The opcode buffer of a thread.                                          *)

\* Program flow has just entered another word.
Crossed(t) == fetch_prevpc[t] = LastByte /\ pc[t].byte = 0

\* A RAM answer for this thread that is still wanted.
Fetched(t) == ~fetch_abort[t] /\ ram_ack /\ ls_state = FetchState(t)

\* Where the answer goes, and which half it makes valid.
FilledHalf(t)    == IF Prefetch THEN Half(fetch_addr[t]) ELSE 1
ValidatedHalf(t) == IF Prefetch THEN Half(fetch_addr[t]) ELSE Half(pc[t].word)

\* Faulty variant: no request when the program runs into the next word.
NextRamReq_NotAtCrossing(t) ==
    \/ pc_req[t]
    \/ IF Fetched(t)
       THEN Prefetch /\ opcodebuffer_valid[t] = {}
       ELSE fetch_ram_req[t] \/ (fetch_abort[t] /\ ram_ack)

\* Faulty variant: an answer that is thrown away still takes the request back.
NextRamReq_AbortedToo(t) ==
    \/ pc_req[t]
    \/ IF ram_ack /\ ls_state = FetchState(t)
       THEN Prefetch /\ ~fetch_abort[t] /\ opcodebuffer_valid[t] = {}
       ELSE fetch_ram_req[t] \/ Crossed(t)

NextRamReq(t) ==
    \/ pc_req[t]
    \/ IF Fetched(t)
       THEN Prefetch /\ opcodebuffer_valid[t] = {}
       ELSE fetch_ram_req[t] \/ Crossed(t) \/ (fetch_abort[t] /\ ram_ack)

\* Faulty variant: only a fetch the arbiter has taken is given up.
NextAbort_OnlyTaken(t) == \/ pc_req[t] /\ fetch_ram_req[t] /\ ls_state = FetchState(t)
                          \/ fetch_abort[t] /\ ~ram_ack

NextAbort(t) == \/ pc_req[t] /\ fetch_ram_req[t]
                \/ fetch_abort[t] /\ ~ram_ack

NextValid(t) ==
    IF pc_req[t] THEN {}
    ELSE (opcodebuffer_valid[t] \ (IF Crossed(t) THEN {1 - Half(pc[t].word)} ELSE {}))
         \cup (IF Fetched(t) THEN {ValidatedHalf(t)} ELSE {})

NextFetchAddr(t) ==
    IF pc_req[t] /\ (Prefetch \/ t = 2) THEN pc[t].word
    ELSE IF Fetched(t) /\ Prefetch THEN fetch_addr[t] + 1
    ELSE fetch_addr[t]

NextBuffer(t) == IF Fetched(t)
                 THEN [opcodebuffer[t] EXCEPT ![FilledHalf(t)] = ram_d]
                 ELSE opcodebuffer[t]

Fetch == /\ fetch_prevpc'       = [t \in Threads |-> pc[t].byte]
         /\ fetch_ram_req'      = [t \in Threads |-> NextRamReq(t)]
         /\ fetch_abort'        = [t \in Threads |-> NextAbort(t)]
         /\ fetch_addr'         = [t \in Threads |-> NextFetchAddr(t)]
         /\ opcodebuffer_valid' = [t \in Threads |-> NextValid(t)]
         /\ opcodebuffer'       = [t \in Threads |-> NextBuffer(t)]

-----------------------------------------------------------------------------
(* The core, as far as this unit sees it.                                  *)

NextPc(p) == IF p.byte = LastByte THEN [word |-> p.word + 1, byte |-> 0]
             ELSE [word |-> p.word, byte |-> p.byte + 1]

\* A thread may consume an opcode when it is valid.  PcWords bounds the program:
\* its last opcode is a jump.
CanAdvance(t) == OpcodeValid(t) /\ NextPc(pc[t]).word < PcWords

\* In a cycle one thread at most is dispatched and one at most, in the M stage,
\* writes its program counter; the write wins.
Core ==
    \E advance \in {{}} \cup {{t} : t \in {u \in Threads : CanAdvance(u)}},
       jump \in {{}} \cup {{t} : t \in Threads},
       target \in Targets :
       /\ pc_req' = [t \in Threads |-> t \in jump]
       /\ pc' = [t \in Threads |-> IF t \in jump THEN target
                                   ELSE IF t \in advance THEN NextPc(pc[t])
                                   ELSE pc[t]]

\* The M stage raises a request when none is outstanding; the W stage drops it
\* on the acknowledge.
LoadStore ==
    \/ ls_req_r /\ ls_ack /\ ls_req_r' = FALSE /\ ls_wr' = FALSE
       /\ UNCHANGED <<ls_addr, ls_split>>
    \/ ls_req_r /\ ~ls_ack /\ UNCHANGED lsVars
    \/ ~ls_req_r /\ UNCHANGED lsVars
    \/ /\ ~ls_req_r
       /\ ls_req_r' = TRUE
       /\ \E r \in LsRequests :
              ls_addr' = r.addr /\ ls_wr' = r.wr /\ ls_split' = r.split

\* What happens on every clock edge, whatever the arbiter does.
Clock == Fetch /\ Core /\ LoadStore /\ Ram /\ ls_addrplus4' = ls_addr + 1

-----------------------------------------------------------------------------
(* The arbiter: one action per branch of its state machine.                *)

StartLoad == /\ ls_state' = "LS_LOAD"
             /\ ram_addr_r' = ls_addr
             /\ ram_req_r' = TRUE
             /\ ram_wr' = ls_wr

WaitFetch(t) ==
    /\ ls_state = "LS_WAIT" /\ Chosen(t)
    /\ ram_addr_r' = IF Prefetch THEN fetch_addr[t] ELSE pc[t].word
    /\ ram_req_r' = TRUE
    /\ ls_state' = FetchState(t)
    /\ ls_ack' = FALSE
    /\ Clock /\ UNCHANGED <<ram_wr, ls_q>>

WaitLoad ==
    /\ ls_state = "LS_WAIT" /\ ~FetchRequested /\ ls_req
    /\ StartLoad
    /\ ls_ack' = FALSE
    /\ Clock /\ UNCHANGED ls_q

WaitIdle ==
    /\ ls_state = "LS_WAIT" /\ ~FetchRequested /\ ~ls_req
    /\ ls_ack' = FALSE
    /\ Clock /\ UNCHANGED <<ls_state, ram_req_r, ram_addr_r, ram_wr, ls_q>>

AwaitRam ==
    /\ ls_state # "LS_WAIT" /\ ~ram_ack
    /\ ls_ack' = FALSE
    /\ Clock /\ UNCHANGED <<ls_state, ram_req_r, ram_addr_r, ram_wr, ls_q>>

\* Faulty variant: the load waits for its turn in LS_WAIT.
FetchDone_NoLoad(t) ==
    /\ ls_state = FetchState(t) /\ ram_ack
    /\ ram_req_r' = FALSE /\ ls_state' = "LS_WAIT"
    /\ ls_ack' = FALSE
    /\ Clock /\ UNCHANGED <<ram_addr_r, ram_wr, ls_q>>

\* A pending load or store goes straight after the fetch.
FetchDone(t) ==
    /\ ls_state = FetchState(t) /\ ram_ack
    /\ \/ ls_req /\ StartLoad
       \/ ~ls_req /\ ram_req_r' = FALSE /\ ls_state' = "LS_WAIT"
          /\ UNCHANGED <<ram_addr_r, ram_wr>>
    /\ ls_ack' = FALSE
    /\ Clock /\ UNCHANGED ls_q

Finish == /\ ram_req_r' = FALSE /\ ram_wr' = FALSE
          /\ ls_ack' = TRUE
          /\ ls_state' = "LS_WAIT"
          /\ UNCHANGED ram_addr_r

\* Faulty variant: the first answer may end an access that needs a second one.
LoadDone_Split ==
    /\ ls_state = "LS_LOAD" /\ ram_ack
    /\ ls_q' = {ram_d}
    /\ Finish /\ Clock

LoadDone ==
    /\ ls_state = "LS_LOAD" /\ ram_ack /\ ~ls_split
    /\ ls_q' = {ram_d}
    /\ Finish /\ Clock

\* The access runs over the end of its word: the next word follows.
LoadSplit ==
    /\ ls_state = "LS_LOAD" /\ ram_ack /\ ls_split
    /\ ls_q' = {ram_d}
    /\ ram_addr_r' = ls_addrplus4 /\ ram_req_r' = TRUE
    /\ ls_state' = "LS_LOAD2"
    /\ ls_ack' = FALSE
    /\ Clock /\ UNCHANGED ram_wr

Load2Done ==
    /\ ls_state = "LS_LOAD2" /\ ram_ack
    /\ ls_q' = ls_q \cup {ram_d}
    /\ Finish /\ Clock

-----------------------------------------------------------------------------
(* The first clock edge after reset.  The fetch registers of thread 1 have *)
(* no reset (it is commented out in the source): any value they may hold   *)
(* is an initial state.  Those of thread 2 are reset but for its address.  *)

Init ==
    /\ pc = [t \in Threads |-> [word |-> 0, byte |-> 0]]
    /\ pc_req = [t \in Threads |-> TRUE]
    /\ opcodebuffer = [t \in Threads |-> [h \in {0, 1} |-> 0]]
    /\ opcodebuffer_valid \in [Threads -> {{}, {0, 1}}]
    /\ fetch_ram_req \in [Threads -> BOOLEAN]
    /\ fetch_abort \in [Threads -> BOOLEAN]
    /\ fetch_prevpc \in [Threads -> {0, LastByte}]
    /\ fetch_addr \in [Threads -> {0, PcWords - 1}]
    /\ 2 \in Threads => /\ opcodebuffer_valid[2] = {}
                        /\ ~fetch_ram_req[2] /\ ~fetch_abort[2]
    /\ ls_state = "LS_WAIT"
    /\ ram_req_r = FALSE /\ ram_addr_r = 0 /\ ram_wr = FALSE
    /\ ls_addrplus4 = 0 /\ ls_ack = FALSE /\ ls_q = {}
    /\ ls_req_r = FALSE /\ ls_addr = 0 /\ ls_wr = FALSE /\ ls_split = FALSE
    /\ ram_ack = FALSE /\ ram_d = 0

Next == \/ \E t \in Threads : WaitFetch(t) \/ FetchDone(t)
        \/ WaitLoad \/ WaitIdle \/ AwaitRam
        \/ LoadDone \/ LoadSplit \/ Load2Done

Spec == Init /\ [][Next]_vars

\* The clock never stops, and the RAM answers every request in the end.
Fairness == WF_vars(Next) /\ WF_vars(Next /\ ram_ack')

FairSpec == Spec /\ Fairness
-----------------------------------------------------------------------------
(* What the unit promises.                                                 *)

LsStates == {"LS_WAIT", "LS_FETCH", "LS_FETCH2", "LS_LOAD", "LS_LOAD2"}

Words == 0 .. PcWords + 1

\* Every register holds a value its type in the source allows; the fetch
\* addresses run at most two words ahead of the program.
TypeOK ==
    /\ pc \in [Threads -> PcType] /\ pc_req \in [Threads -> BOOLEAN]
    /\ opcodebuffer \in [Threads -> [{0, 1} -> Nat]]
    /\ opcodebuffer_valid \in [Threads -> SUBSET {0, 1}]
    /\ fetch_addr \in [Threads -> Words]
    /\ fetch_ram_req \in [Threads -> BOOLEAN]
    /\ fetch_abort \in [Threads -> BOOLEAN]
    /\ fetch_prevpc \in [Threads -> 0 .. LastByte]
    /\ ls_state \in LsStates /\ ram_req_r \in BOOLEAN
    /\ ram_addr_r \in Nat /\ ram_wr \in BOOLEAN
    /\ ls_addrplus4 \in Nat /\ ls_ack \in BOOLEAN /\ ls_q \subseteq Nat
    /\ ls_req_r \in BOOLEAN /\ ls_addr \in Nat
    /\ ls_wr \in BOOLEAN /\ ls_split \in BOOLEAN
    /\ ram_ack \in BOOLEAN /\ ram_d \in Nat

\* An opcode offered as valid was read from the word the program counter is
\* in, whatever jumps, answers already under way for the old address and
\* accesses of the other thread came between (opcode, opcode_valid).
OpcodeIsPcs == \A t \in Threads :
    OpcodeValid(t) => opcodebuffer[t][SelectedHalf(t)] = pc[t].word

\* An acknowledge of the unit comes with exactly the words of the request that
\* is being acknowledged: both of them for an access across a word boundary.
LoadIsRequests == ls_ack =>
    /\ ls_req_r
    /\ ls_q = {ls_addr} \cup (IF ls_split THEN {ls_addr + 1} ELSE {})

\* The RAM sees a write only for a store that is still waiting for its answer,
\* at one of its words: no opcode fetch or load is ever a write, and a store
\* that was answered is not issued again.
WritesAreStores == ram_req /\ ram_wr =>
    /\ ls_state \in {"LS_LOAD", "LS_LOAD2"}
    /\ ls_req_r /\ ls_wr
    /\ ram_addr \in {ls_addr} \cup (IF ls_split THEN {ls_addr + 1} ELSE {})

\* The port protocol: a request stays up, with the same address and direction,
\* until the RAM answers - also across the change from the combinational
\* request in LS_WAIT to the registered one ("priorities here must match
\* priorities in state machine!").
RamRequestStable ==
    [][ram_req /\ ~ram_ack' =>
         ram_req' /\ ram_addr' = ram_addr /\ ram_wr' = ram_wr]_vars

\* A load or store is answered, however many opcode fetches compete with it.
LoadAnswered == ls_req_r ~> ls_ack

\* Thread 1 gets the opcode it waits for, unless it jumps elsewhere.
OpcodeArrives == ~OpcodeValid(1) ~> (OpcodeValid(1) \/ pc_req[1])

\* Thread 2 gets its opcode if thread 1 stops jumping in the end.  Without that
\* premise it need not: a thread 1 that jumps before each prefetch is answered
\* keeps its request up for ever and has priority.
Opcode2Arrives == <>[](~pc_req[1]) =>
    (~OpcodeValid(2) ~> (OpcodeValid(2) \/ pc_req[2]))
=============================================================================
