------------------------------ MODULE ThreadSync ------------------------------
(***************************************************************************)
(* The thread synchronisation of lib832 (lib832/dualthread.S) and the      *)
(* program that uses it (vbcc/dhrystone_dual, started by                   *)
(* lib832/premain_dualthread.S), on a core with two threads.               *)
(*                                                                         *)
(* A thread is a sequence of instructions, of which those are kept that    *)
(* touch what the threads share: the sleep flag in memory and the pause    *)
(* bits of the core, which cond NEX sets and sig clears.  Between any two  *)
(* of them the other thread may run.  What a thread does in between - the  *)
(* benchmark, the printing of a report - is a step of its own.             *)
(***************************************************************************)
EXTENDS Integers, Sequences

CONSTANT Number_Of_Runs   \* of the benchmark

ASSUME RunsAssumption == Number_Of_Runs \in Nat

Threads == {1, 2}
Other(t) == 3 - t

ReturnAddress == 2  \* any word that is neither 0 nor 1

-----------------------------------------------------------------------------
(* The routines, and the programs that call them.                          *)

thread_asleep == << "load_flag" >>
\* Faulty variant: does not pause.
thread_sleep_NoPause == << "set_flag", "sig" >>

\* Faulty variant: wakes the other thread after its own sleep.
thread_sleep_SigLast == << "set_flag", "cond_NEX", "sig" >>

thread_sleep  == << "set_flag", "sig", "cond_NEX" >>
\* Faulty variant: wakes the other thread before it looks at the flag.
thread_wake_SigFirst == << "sig" >> \o thread_asleep \o << "and_r0", "clear_flag" >>

\* Faulty variant: only clears the flag.
thread_wake_NoSig == thread_asleep \o << "and_r0", "clear_flag" >>

thread_wake   == thread_asleep \o << "and_r0", "clear_flag", "sig" >>

benchmark == [run \in 1 .. Number_Of_Runs |-> "benchmark"]

\* premain, then main of dhry_1.c.
Main1 == << "prepare", "sig" >> \o benchmark \o << "report" >>
         \o thread_asleep \o thread_wake \o thread_sleep
         \o << "completed", "cond_NEX" >>

\* premain2, then thread2main of dhry_3.c.
Main2 == << "prepare", "cond_NEX" >> \o benchmark
         \o thread_sleep \o << "report" >> \o thread_wake \o << "cond_NEX" >>

Program == << Main1, Main2 >>

End(t) == Len(Program[t])

VARIABLES
    at,          \* the next instruction of each thread
    pause,       \* the pause bits of the core
    sleepflag,   \* _thread_sleepflag
    r0, tmp, zero,
    done,        \* the thread has done what "report" and "completed" stand for
    longWork     \* in this execution, the work a thread does before it wakes the
                 \* other one takes until the other one has gone to sleep

vars == <<at, pause, sleepflag, r0, tmp, zero, done, longWork>>

-----------------------------------------------------------------------------

\* Faulty variant: a program that does not stop at its end.
Step_Beyond(t, i) == /\ ~pause[t] /\ Program[t][at[t]] = i
                     /\ at' = [at EXCEPT ![t] = @ + 1]

\* The thread runs, and instruction i is its next one.  In the end it pauses
\* again and again (.endloop).
Step(t, i) == /\ ~pause[t] /\ Program[t][at[t]] = i
              /\ at' = [at EXCEPT ![t] = IF at[t] = End(t) THEN @ ELSE @ + 1]

\* thread_asleep returns the flag in r0, its return address still in tmp.
LoadFlag(t) == /\ Step(t, "load_flag")
               /\ r0' = [r0 EXCEPT ![t] = sleepflag]
               /\ tmp' = [tmp EXCEPT ![t] = ReturnAddress]
               /\ UNCHANGED <<pause, sleepflag, zero, done, longWork>>

\* Is the other thread asleep?  "mr r0; and r0"
TestAsleep(t) == /\ Step(t, "and_r0")
                 /\ r0' = [r0 EXCEPT ![t] = tmp[t]]
                 /\ zero' = [zero EXCEPT ![t] = r0'[t] = 0]
                 /\ UNCHANGED <<pause, sleepflag, tmp, done, longWork>>

\* If so, clear the sleep flag before waking it.
ClearFlag(t) == /\ Step(t, "clear_flag")
                /\ sleepflag' = IF zero[t] THEN sleepflag ELSE 0
                /\ r0' = IF zero[t] THEN r0 ELSE [r0 EXCEPT ![t] = 0]
                /\ UNCHANGED <<pause, tmp, zero, done, longWork>>

SetFlag(t) == /\ Step(t, "set_flag")
              /\ sleepflag' = 1
              /\ r0' = [r0 EXCEPT ![t] = ReturnAddress]
              /\ UNCHANGED <<pause, tmp, zero, done, longWork>>

\* Faulty variant: wakes only the thread that executes it.
Sig_Self(t) == /\ Step(t, "sig")
               /\ pause' = [pause EXCEPT ![t] = FALSE]
               /\ UNCHANGED <<sleepflag, r0, tmp, zero, done, longWork>>

Sig(t) == /\ Step(t, "sig")
          /\ pause' = [u \in Threads |-> FALSE]
          /\ UNCHANGED <<sleepflag, r0, tmp, zero, done, longWork>>

Nex(t) == /\ Step(t, "cond_NEX")
          /\ pause' = [pause EXCEPT ![t] = TRUE]
          /\ UNCHANGED <<sleepflag, r0, tmp, zero, done, longWork>>

\* Work of a thread that uses nothing of the other one.
Work(t) ==
    /\ \E i \in {"prepare", "benchmark", "report", "completed"} :
         /\ Step(t, i)
         /\ longWork /\ (i = "report" \/ (i = "prepare" /\ t = 1)) => pause[Other(t)]
         /\ done' = [done EXCEPT ![t] = @ \cup ({i} \cap {"report", "completed"})]
    /\ UNCHANGED <<pause, sleepflag, r0, tmp, zero, longWork>>

Init == /\ at = [t \in Threads |-> 1] /\ pause = [t \in Threads |-> FALSE]
        /\ sleepflag = 0
        /\ r0 = [t \in Threads |-> 0] /\ tmp = [t \in Threads |-> 0]
        /\ zero = [t \in Threads |-> FALSE]
        /\ done = [t \in Threads |-> {}]
        /\ longWork \in BOOLEAN

Run(t) == \/ LoadFlag(t) \/ TestAsleep(t) \/ ClearFlag(t) \/ SetFlag(t)
          \/ Sig(t) \/ Nex(t) \/ Work(t)

Next == \E t \in Threads : Run(t)

Spec == Init /\ [][Next]_vars

\* A thread that is not paused gets its turn: the other one has to wait for
\* memory again and again.
FairSpec == Spec /\ \A t \in Threads : WF_vars(Run(t))

-----------------------------------------------------------------------------

\* Registers and the flag hold what the routines put there.
TypeOK == /\ at \in [Threads -> Nat] /\ \A t \in Threads : at[t] \in 1 .. End(t)
          /\ pause \in [Threads -> BOOLEAN] /\ zero \in [Threads -> BOOLEAN]
          /\ sleepflag \in {0, 1}
          /\ r0 \in [Threads -> {0, 1, ReturnAddress}]
          /\ tmp \in [Threads -> {0, ReturnAddress}]
          /\ done \in [Threads -> SUBSET {"report", "completed"}]
          /\ longWork \in BOOLEAN

\* "Wait for the first thread to finish reporting": however the threads
\* interleave, and whatever wakes thread 2, the two reports do not mix.
ReportsInTurn == "report" \in done[2] => "report" \in done[1]

\* "Tell the first thread we've finished reporting": thread 1 announces that
\* thread 2 has completed only when it has.  The sig with which thread 2 enters
\* its own sleep wakes thread 1 just as well, so this takes long work; so do
\* SomebodyAwake and ProgramsEnd.
CompletedMeansReported ==
    longWork => ("completed" \in done[1] => "report" \in done[2])

\* Thread t is in thread_sleep behind the setting of the flag, and has not been
\* woken since.
FallingAsleep(t) ==
    \E k \in 1 .. 3 : /\ at[t] > k /\ Program[t][at[t] - k] = "set_flag"
                      /\ k = 3 => pause[t]

\* thread_asleep has just returned 1.
SaysAsleep(t) == at[t] > 1 /\ Program[t][at[t] - 1] = "load_flag" /\ r0[t] = 1

\* "it should be definitive when positive", of the thread that asks, however long
\* either thread works: when thread_asleep returns 1 to thread 1, thread 2 is in its
\* thread_sleep, on its way to the pause or in it, and has not left it; nor has it
\* when thread 1 asks again on its way to the wake-up.
AnsweredAsleep == SaysAsleep(1) => FallingAsleep(2)

\* The same as the comment has it, for both threads: the other one is paused.
AsleepIsDefinitive == \A t \in Threads : SaysAsleep(t) => pause[Other(t)]

\* The wake-up in thread_sleep "to insure against deadlocks": not everybody is
\* asleep before the programs have ended.
SomebodyAwake ==
    longWork => ((\A t \in Threads : pause[t]) => \A t \in Threads : at[t] = End(t))

\* Both programs run to their end.
ProgramsEnd == longWork => <>(\A t \in Threads : at[t] = End(t) /\ pause[t])

\* "Is the other thread asleep?": what thread_wake tests is what thread_asleep
\* has answered.
TestsAnswer ==
    [][\A t \in Threads : TestAsleep(t) => (zero'[t] <=> r0[t] = 0)]_vars
=============================================================================
