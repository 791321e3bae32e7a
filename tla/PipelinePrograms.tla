--------------------------- MODULE PipelinePrograms ---------------------------
(***************************************************************************)
(* The programs that the promises of Pipeline are about: each of the       *)
(* following rules out one shape of code that the core does not execute as *)
(* documented.  Nothing else is asked of a program.                        *)
(***************************************************************************)
EXTENDS Pipeline

\* The cond that pauses the thread.
IsNex(i) == i.op = "cond" /\ i.reg = NEX

\* A cond whose condition may fail.
Conditional(i) == i.op = "cond" /\ i.reg \notin {NEX, EX}

\* byt, which starts the multiplier without waiting for it.
IsByt(i) == i.op = "mul" /\ i.reg = PC

\* What an interrupt does not follow directly.
KeepsOffInterrupt(i) == "q1toreg" \in Ex(i) \/ i.reg = PC \/ i.op \in {"cond", "li"}

\* An instruction behind which an interrupt may be taken, as far as the next one goes.
IrqPoint(p) == Interrupts /\ Interruptable(p[2]) /\ ~KeepsOffInterrupt(p[1])

\* The instruction behind a cond is no other cond and no jump.
CondsApart == \A p \in Adjacent : Conditional(p[1]) =>
                 p[2].op # "cond" /\ ~WritesPc(p[2])

\* No interrupt can be taken in the cycle in which a condition fails: what stands
\* between a cond and a mt or li keeps it off.
IrqApart == \A p, q \in Adjacent : p[2] = q[1] /\ IrqPoint(q) => ~Conditional(p[1])

\* Nothing that waits for the ALU comes right behind a byt, neither in its own
\* thread nor in the other one.
BytApart == /\ \A p \in Adjacent : IsByt(p[1]) => "waitalu" \notin Ex(p[2])
            /\ (\E i \in Program : IsByt(i)) => Threads = {1}

\* The last two instructions before an interrupt do not set the flags by the ALU.
FlagsApart == \A q \in Adjacent : IrqPoint(q) =>
    /\ "flags" \notin Ex(q[1])
    /\ \A p \in Adjacent : p[2] = q[1] => "flags" \notin Ex(p[1])

\* No li follows a cond NEX.
LiApart == \A p \in Adjacent : IsNex(p[1]) => p[2].op # "li"
=============================================================================
