---------------------------- MODULE BoundedQueue ----------------------------
(***************************************************************************)
(* What a FIFO promises: items leave in the order they came in, none lost  *)
(* or doubled, and never more than Capacity of them are inside.  The two   *)
(* ends may act in the same step.                                          *)
(***************************************************************************)
EXTENDS Naturals, Sequences

CONSTANTS Item, Capacity

VARIABLE queue

TypeOK == queue \in Seq(Item) /\ Len(queue) <= Capacity

Init == queue = <<>>

Put == /\ Len(queue) < Capacity
       /\ \E x \in Item : queue' = Append(queue, x)

Get == queue # <<>> /\ queue' = Tail(queue)

PutGet == queue # <<>> /\ \E x \in Item : queue' = Append(Tail(queue), x)

Next == Put \/ Get \/ PutGet

Spec == Init /\ [][Next]_queue
=============================================================================
