------------------------------ MODULE DebugFifo ------------------------------
(***************************************************************************)
(* The two-clock FIFO of the debug channel (RTL/debug_fifo.vhd) with       *)
(* depth = 4, as every bridge instantiates it.  Each side keeps its        *)
(* pointer in its own clock domain and sees the other one's, Gray coded,   *)
(* through two registers.                                                  *)
(*                                                                         *)
(* A step is an edge of one clock, or of both at the same moment.  When    *)
(* both clocks tick together every bit that is changing may be sampled old *)
(* or new.  The four-bit pointers are written as the number of words       *)
(* written and read so far; only their Gray code, which depends on the low *)
(* four bits alone, is ever compared or used as an address.                *)
(* The n-th word written is represented by n.                              *)
(***************************************************************************)
EXTENDS Naturals, Sequences

CONSTANT MaxWrites   \* the writer stops after this many words

ASSUME MaxWritesAssumption == MaxWrites \in Nat

Size == 16           \* 2**depth

VARIABLES
    storage,                      \* indexed by Gray code
    inptr, inptr_gray,            \* write side
    outptr_prev_gray_sync, outptr_prev_gray_sync2,
    wr_en,
    outptr, outptr_gray, outptr_prev_gray, dout,   \* read side
    inptr_gray_sync, inptr_gray_sync2,
    rd_en

writeVars == <<storage, inptr, inptr_gray, outptr_prev_gray_sync,
               outptr_prev_gray_sync2, wr_en>>
readVars  == <<outptr, outptr_gray, outptr_prev_gray, dout, inptr_gray_sync,
               inptr_gray_sync2, rd_en>>
vars == <<writeVars, readVars>>

-----------------------------------------------------------------------------
(* Gray codes: bits 0 to 3, as booleans.                                   *)

Bit(n, weight) == (n \div weight) % 2

\* Faulty variant: a binary pointer crosses the clock domains.
togray_Binary(n) == << Bit(n, 1) = 1, Bit(n, 2) = 1, Bit(n, 4) = 1, Bit(n, 8) = 1 >>

togray(n) == << Bit(n, 1) # Bit(n, 2), Bit(n, 2) # Bit(n, 4),
                Bit(n, 4) # Bit(n, 8), Bit(n, 8) = 1 >>

Code == BOOLEAN \X BOOLEAN \X BOOLEAN \X BOOLEAN

\* A code without its lowest bit.
High(g) == << g[2], g[3], g[4] >>

\* What a register in the other domain may catch of a code that changes from
\* old to new in the very moment it is clocked.
Sampled(old, new) == {g \in Code : \A i \in 1 .. 4 : g[i] \in {old[i], new[i]}}

-----------------------------------------------------------------------------

\* Faulty variant: compared with the pointer of the word before.
empty_Prev == inptr_gray_sync = outptr_prev_gray

empty == inptr_gray_sync = outptr_gray

\* The lowest bit is ignored, so that one more word can be taken in the cycle
\* in which full rises.
full == High(inptr_gray) = outptr_prev_gray_sync

rd_trigger == rd_en /\ ~empty

NextInGray      == IF wr_en THEN togray(inptr + 1) ELSE inptr_gray

\* Faulty variant: the pointer itself is handed over, not the one before it.
NextOutPrevGray_Current == IF rd_trigger THEN togray(outptr + 1) ELSE outptr_prev_gray

\* outptr_prev is outptr - 1, modulo the size.
NextOutPrevGray == IF rd_trigger THEN togray(outptr + Size - 1) ELSE outptr_prev_gray

\* Faulty variant: the write pointer is synchronised only while reading.
ReadSide_SyncOnRead(codes) ==
    /\ inptr_gray_sync2' \in codes
    /\ inptr_gray_sync' = IF rd_en THEN inptr_gray_sync2 ELSE inptr_gray_sync
    /\ dout' = storage[outptr_gray]
    /\ outptr' = IF rd_trigger THEN outptr + 1 ELSE outptr
    /\ outptr_gray' = IF rd_trigger THEN togray(outptr + 1) ELSE outptr_gray
    /\ outptr_prev_gray' = NextOutPrevGray

\* An edge of rd_clk; codes is what may be sampled of the write pointer.
ReadSide(codes) ==
    /\ inptr_gray_sync2' \in codes
    /\ inptr_gray_sync' = inptr_gray_sync2
    /\ dout' = storage[outptr_gray]
    /\ outptr' = IF rd_trigger THEN outptr + 1 ELSE outptr
    /\ outptr_gray' = IF rd_trigger THEN togray(outptr + 1) ELSE outptr_gray
    /\ outptr_prev_gray' = NextOutPrevGray

\* Faulty variant: the read pointer is synchronised only while writing.
WriteSide_SyncOnWrite(codes) ==
    /\ \E g \in codes : outptr_prev_gray_sync2' = High(g)
    /\ outptr_prev_gray_sync' = IF wr_en THEN outptr_prev_gray_sync2
                                ELSE outptr_prev_gray_sync
    /\ storage' = IF wr_en THEN [storage EXCEPT ![inptr_gray] = inptr] ELSE storage
    /\ inptr' = IF wr_en THEN inptr + 1 ELSE inptr
    /\ inptr_gray' = NextInGray

\* An edge of wr_clk.
WriteSide(codes) ==
    /\ \E g \in codes : outptr_prev_gray_sync2' = High(g)
    /\ outptr_prev_gray_sync' = outptr_prev_gray_sync2
    /\ storage' = IF wr_en THEN [storage EXCEPT ![inptr_gray] = inptr] ELSE storage
    /\ inptr' = IF wr_en THEN inptr + 1 ELSE inptr
    /\ inptr_gray' = NextInGray

-----------------------------------------------------------------------------
(* The bridge that uses the FIFO: both enables are registered, from a flag *)
(* seen one cycle before, and a read is never asked for in two cycles      *)
(* running (ack_i).                                                        *)

\* Faulty variant: a read may be asked for in every cycle.
Reader_BackToBack == rd_en' \in (IF ~empty THEN BOOLEAN ELSE {FALSE})

Reader == rd_en' \in (IF ~empty /\ ~rd_en THEN BOOLEAN ELSE {FALSE})

\* Faulty variant: full is not looked at.
Writer_NotFull == wr_en' \in (IF inptr' < MaxWrites THEN BOOLEAN ELSE {FALSE})

Writer == wr_en' \in (IF ~full /\ inptr' < MaxWrites THEN BOOLEAN ELSE {FALSE})

RdClk == /\ ReadSide({inptr_gray}) /\ Reader
         /\ UNCHANGED writeVars

WrClk == /\ WriteSide({outptr_prev_gray}) /\ Writer
         /\ UNCHANGED readVars

BothClk == /\ ReadSide(Sampled(inptr_gray, NextInGray)) /\ Reader
           /\ WriteSide(Sampled(outptr_prev_gray, NextOutPrevGray)) /\ Writer

\* After a reset of both sides that lasted until the pointers were synchronised.
Init ==
    /\ storage = [g \in Code |-> 0]
    /\ inptr = 0 /\ inptr_gray = togray(0) /\ wr_en = FALSE
    /\ outptr_prev_gray_sync = High(togray(Size - 1))
    /\ outptr_prev_gray_sync2 = High(togray(Size - 1))
    /\ outptr = 0 /\ outptr_gray = togray(0) /\ dout = 0 /\ rd_en = FALSE
    /\ outptr_prev_gray = togray(Size - 1)
    /\ inptr_gray_sync = togray(0) /\ inptr_gray_sync2 = togray(0)

Next == RdClk \/ WrClk \/ BothClk

Spec == Init /\ [][Next]_vars

\* Neither clock stops.
FairSpec == Spec /\ WF_vars(RdClk \/ BothClk) /\ WF_vars(WrClk \/ BothClk)

-----------------------------------------------------------------------------
(* What the FIFO promises.                                                 *)

HighCode == BOOLEAN \X BOOLEAN \X BOOLEAN

\* The registers hold values of their types.
TypeOK ==
    /\ storage \in [Code -> Nat]
    /\ inptr \in 0 .. MaxWrites /\ outptr \in 0 .. MaxWrites
    /\ inptr_gray \in Code /\ outptr_gray \in Code /\ outptr_prev_gray \in Code
    /\ inptr_gray_sync \in Code /\ inptr_gray_sync2 \in Code
    /\ outptr_prev_gray_sync \in HighCode /\ outptr_prev_gray_sync2 \in HighCode
    /\ wr_en \in BOOLEAN /\ rd_en \in BOOLEAN /\ dout \in Nat

\* The pointers never pass each other: nothing is read that was not written,
\* and no word is overwritten before it is read, although each side only knows
\* where the other one was some edges ago, and although the writer is one cycle
\* late in obeying full ("so the FIFO can accept one further entry in the cycle
\* during which full goes high").
NoOverrun == outptr <= inptr /\ inptr - outptr < Size

\* The word on dout while a read is accepted is the oldest one not yet read.
InOrder == rd_trigger => dout = outptr /\ outptr < inptr

\* A read is only ever asked for when there is something to read: the flag it
\* was registered from cannot have become stale.
ReadIsAccepted == rd_en => ~empty

\* The words between the two pointers, oldest first.
contents == [k \in 1 .. inptr - outptr |-> storage[togray(outptr + k - 1)]]

Queue == INSTANCE BoundedQueue WITH
    Item <- 0 .. MaxWrites, Capacity <- Size - 1, queue <- contents

\* The FIFO, seen from both ends at once, is a queue of at most Size - 1 words:
\* every edge adds the new word, removes the oldest one, does both, or does not
\* change it.
RefinesQueue == Queue!Spec

\* A word that was written is seen by the reader in the end.
WordArrives == outptr # inptr ~> ~empty

\* A FIFO that has been emptied does not stay full for the writer.
RoomIsSeen == outptr = inptr ~> (~full \/ outptr # inptr)
=============================================================================
