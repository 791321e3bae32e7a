--------------------------- MODULE DebugFifoProofs ---------------------------
(***************************************************************************)
(* Proofs about DebugFifo, for any number of words written and any timing  *)
(* of the two clocks.                                                      *)
(***************************************************************************)
EXTENDS DebugFifo, SequenceTheorems, TLAPS

-----------------------------------------------------------------------------
(* The Gray code.                                                          *)

\* A code is four booleans.
LEMMA GrayType == \A n \in Nat : togray(n) \in Code /\ High(togray(n)) \in HighCode
  BY DEF togray, Code, High, HighCode

\* Codes differ within any window of sixteen numbers.
LEMMA GrayInjective ==
  ASSUME NEW m \in Nat, NEW n \in Nat, m <= n, n < m + Size, togray(m) = togray(n)
  PROVE  m = n
  BY DEF togray, Bit, Size

\* The upper bits tell apart all but the two numbers that share them.
LEMMA HighGray == \A n \in Nat : High(togray(2 * n)) = High(togray(2 * n + 1))
  BY DEF togray, Bit, High

\* The code repeats after sixteen numbers, and so do its upper bits.
LEMMA GrayWraps == \A n \in Nat : togray(n + Size) = togray(n)
  BY DEF togray, Bit, Size

\* Neighbours differ in one bit, so a sample of a changing pointer is either
\* its old or its new value.
LEMMA SampledNeighbour ==
  ASSUME NEW n \in Nat, NEW g \in Sampled(togray(n), togray(n + 1))
  PROVE  g \in {togray(n), togray(n + 1)}
  BY DEF Sampled, togray, Bit, Code

\* A pointer that does not change is sampled as it is.
LEMMA SampledStable ==
  ASSUME NEW n \in Nat, NEW g \in Sampled(togray(n), togray(n))
  PROVE  g = togray(n)
  BY DEF Sampled, togray, Code

-----------------------------------------------------------------------------
(* The inductive invariant: what each side has seen of the other is a      *)
(* value the other pointer had, and the older the further back.            *)

\* The number whose code outptr_prev_gray holds: outptr - 2 modulo the size,
\* but for outptr - 1 before the first read.
OutPrev == IF outptr = 0 THEN Size - 1 ELSE outptr + Size - 2

\* The codes that are kept beside the pointers.
CodesInv == /\ inptr_gray = togray(inptr) /\ outptr_gray = togray(outptr)
            /\ outptr_prev_gray = togray(OutPrev)

\* The reader saw the write pointer at k1, and is about to see it at k2.
ReadSeen(k1, k2) ==
    /\ outptr <= k1 /\ k1 <= k2 /\ k2 <= inptr
    /\ inptr_gray_sync = togray(k1) /\ inptr_gray_sync2 = togray(k2)
    /\ rd_en => outptr < k1 /\ dout = outptr

\* The writer saw the read pointer at q1, and is about to see it at q2.  It
\* stops in the pair of numbers that q1 belongs to, and enters the second of
\* them only with the one word that follows full.
PairOf(q) == 2 * (q \div 2)

WriteSeen(q1, q2) ==
    /\ q1 <= q2 /\ q2 <= OutPrev
    /\ outptr_prev_gray_sync = High(togray(q1))
    /\ outptr_prev_gray_sync2 = High(togray(q2))
    /\ inptr <= PairOf(q1) + 1
    /\ wr_en => inptr <= PairOf(q1) /\ inptr < MaxWrites

\* A slot between the pointers holds the word of its number.
StorageInv == \A k \in Nat : outptr <= k /\ k < inptr => storage[togray(k)] = k

IInv == /\ TypeOK /\ CodesInv /\ StorageInv
        /\ \E k1, k2 \in Nat : ReadSeen(k1, k2)
        /\ \E q1, q2 \in Nat : WriteSeen(q1, q2)

\* The pair of a number, as far as the upper bits of its code tell.
LEMMA PairFacts ==
  ASSUME NEW q \in Nat
  PROVE  /\ PairOf(q) \in Nat /\ PairOf(q) <= q /\ q <= PairOf(q) + 1
         /\ High(togray(q)) = High(togray(PairOf(q)))
         /\ High(togray(q)) = High(togray(PairOf(q) + 1))
         /\ \A p \in Nat : q <= p => PairOf(q) <= PairOf(p)
  <1>1. /\ q \div 2 \in Nat
        /\ q = 2 * (q \div 2) \/ q = 2 * (q \div 2) + 1
        /\ \A p \in Nat : q <= p => q \div 2 <= p \div 2
    OBVIOUS
  <1>2. High(togray(2 * (q \div 2))) = High(togray(2 * (q \div 2) + 1))
    BY <1>1, HighGray
  <1> HIDE DEF PairOf
  <1>3. PairOf(q) = 2 * (q \div 2) /\ \A p \in Nat : PairOf(p) = 2 * (p \div 2)
    BY DEF PairOf
  <1> QED BY <1>1, <1>2, <1>3

\* Between the pointers there are always fewer words than slots.
LEMMA Bounded == IInv => NoOverrun
  <1> SUFFICES ASSUME IInv PROVE NoOverrun
    OBVIOUS
  <1>1. PICK k1 \in Nat, k2 \in Nat : ReadSeen(k1, k2)
    BY DEF IInv
  <1>2. PICK q1 \in Nat, q2 \in Nat : WriteSeen(q1, q2)
    BY DEF IInv
  <1>3. inptr \in Nat /\ outptr \in Nat
    BY MaxWritesAssumption DEF IInv, TypeOK
  <1>4. outptr <= inptr
    BY <1>1, <1>3 DEF ReadSeen
  <1>5. q1 <= OutPrev /\ inptr <= PairOf(q1) + 1
    BY <1>2, <1>3 DEF WriteSeen, OutPrev, Size
  <1>6. inptr < outptr + Size
    <2>1. CASE outptr = 0
      BY <1>3, <1>5, <2>1 DEF OutPrev, Size, PairOf
    <2>2. CASE outptr # 0
      BY <1>3, <1>5, <2>2, PairFacts DEF OutPrev, Size
    <2> QED BY <2>1, <2>2
  <1> QED BY <1>3, <1>4, <1>6 DEF NoOverrun, Size

\* What the next value of the read pointer's code stands for.
LEMMA OutPrevStep ==
  ASSUME IInv, outptr' = IF rd_trigger THEN outptr + 1 ELSE outptr
  PROVE  /\ NextOutPrevGray = togray(OutPrev') /\ OutPrev \in Nat
         /\ OutPrev' = OutPrev \/ OutPrev' = OutPrev + 1
  <1>1. outptr \in Nat
    BY MaxWritesAssumption DEF IInv, TypeOK
  <1>2. outptr_prev_gray = togray(OutPrev)
    BY DEF IInv, CodesInv
  <1>3. CASE rd_trigger
    <2>1. OutPrev' = outptr + Size - 1
      BY <1>1, <1>3 DEF OutPrev, Size
    <2>2. OutPrev = outptr + Size - 1 \/ OutPrev + 1 = outptr + Size - 1
      BY <1>1 DEF OutPrev, Size
    <2> QED BY <1>1, <1>3, <2>1, <2>2 DEF NextOutPrevGray, OutPrev, Size
  <1>4. CASE ~rd_trigger
    BY <1>1, <1>2, <1>4 DEF NextOutPrevGray, OutPrev, Size
  <1> QED BY <1>3, <1>4

\* An edge of the read clock, with a write edge at the same time or not.
LEMMA ReadStep ==
  ASSUME IInv, NEW codes, codes \subseteq {togray(inptr), togray(inptr')},
         inptr' \in {inptr, inptr + 1},
         ReadSide(codes), Reader
  PROVE  /\ \E k1, k2 \in Nat : ReadSeen(k1, k2)'
         /\ outptr' \in Nat /\ outptr' <= inptr
         /\ outptr_gray' = togray(outptr')
         /\ rd_en' => outptr' = outptr
         /\ dout' \in Nat /\ rd_en' \in BOOLEAN
  <1>1. PICK k1 \in Nat, k2 \in Nat : ReadSeen(k1, k2)
    BY DEF IInv
  <1>2. inptr \in Nat /\ outptr \in Nat /\ inptr' \in Nat
    BY MaxWritesAssumption DEF IInv, TypeOK
  <1>3. ~empty => outptr < k1
    BY <1>1, <1>2 DEF empty, ReadSeen, IInv, CodesInv
  <1>4. /\ outptr' = IF rd_trigger THEN outptr + 1 ELSE outptr
        /\ outptr' <= k1 /\ outptr' \in Nat
    BY <1>1, <1>2, <1>3 DEF ReadSide, rd_trigger, ReadSeen
  <1>5. PICK k3 \in {inptr, inptr'} : inptr_gray_sync2' = togray(k3)
    BY DEF ReadSide
  <1>6. inptr_gray_sync' = togray(k2)
    BY <1>1 DEF ReadSide, ReadSeen
  <1>7. rd_en' => ~empty /\ ~rd_en /\ outptr' = outptr
    BY <1>4 DEF Reader, rd_trigger
  <1>8. rd_en' => outptr' < k2 /\ dout' = outptr'
    <2> SUFFICES ASSUME rd_en' PROVE outptr' < k2 /\ dout' = outptr'
      OBVIOUS
    <2>1. outptr < k1 /\ outptr' = outptr
      BY <1>3, <1>7
    <2>2. outptr < inptr /\ k1 <= k2
      BY <1>1, <1>2, <2>1 DEF ReadSeen
    <2>3. storage[togray(outptr)] = outptr
      BY <1>2, <2>2 DEF IInv, StorageInv
    <2> QED BY <1>2, <2>1, <2>2, <2>3 DEF ReadSide, IInv, CodesInv
  <1>9. ReadSeen(k2, k3)'
    BY <1>1, <1>2, <1>4, <1>5, <1>6, <1>8 DEF ReadSeen
  <1>10. outptr_gray' = togray(outptr')
    BY <1>4 DEF ReadSide, IInv, CodesInv
  <1>11. dout' \in Nat /\ rd_en' \in BOOLEAN
    BY DEF ReadSide, Reader, IInv, TypeOK
  <1> QED BY <1>1, <1>2, <1>4, <1>5, <1>7, <1>9, <1>10, <1>11 DEF ReadSeen

\* An edge of the write clock, with a read edge at the same time or not.
LEMMA WriteStep ==
  ASSUME IInv, NEW codes, codes \subseteq {togray(OutPrev), togray(OutPrev')},
         OutPrev' \in {OutPrev, OutPrev + 1},
         WriteSide(codes), Writer
  PROVE  /\ \E q1, q2 \in Nat : WriteSeen(q1, q2)'
         /\ inptr' \in {inptr, inptr + 1} /\ inptr' \in 0 .. MaxWrites
         /\ inptr_gray' = togray(inptr')
         /\ wr_en' \in BOOLEAN
  <1>1. PICK q1 \in Nat, q2 \in Nat : WriteSeen(q1, q2)
    BY DEF IInv
  <1>2. inptr \in Nat /\ outptr \in Nat /\ OutPrev \in Nat /\ MaxWrites \in Nat
        /\ inptr <= MaxWrites
    BY MaxWritesAssumption DEF IInv, TypeOK, OutPrev, Size
  <1>3. inptr' = IF wr_en THEN inptr + 1 ELSE inptr
    BY DEF WriteSide
  <1>4. inptr' \in {inptr, inptr + 1} /\ inptr' \in 0 .. MaxWrites
    BY <1>1, <1>2, <1>3 DEF WriteSeen
  <1>5. ~full => inptr # PairOf(q1) /\ inptr # PairOf(q1) + 1
    BY <1>1, PairFacts DEF full, WriteSeen, IInv, CodesInv
  <1>6. /\ inptr' <= PairOf(q1) + 1
        /\ wr_en' => inptr' <= PairOf(q1) /\ inptr' < MaxWrites
    <2>1. PairOf(q1) \in Nat
      BY PairFacts
    <2>2. inptr' <= PairOf(q1) + 1
      BY <1>1, <1>2, <1>3, <2>1 DEF WriteSeen
    <2>3. wr_en' => ~full /\ inptr' < MaxWrites
      BY DEF Writer
    <2>4. ~full => inptr < PairOf(q1)
      BY <1>1, <1>2, <1>5, <2>1 DEF WriteSeen
    <2> QED BY <1>2, <1>3, <2>1, <2>2, <2>3, <2>4
  <1>7. PairOf(q1) <= PairOf(q2) /\ PairOf(q2) \in Nat /\ PairOf(q1) \in Nat
    BY <1>1, PairFacts DEF WriteSeen
  <1>8. PICK q3 \in {OutPrev, OutPrev'} : outptr_prev_gray_sync2' = High(togray(q3))
    BY DEF WriteSide
  <1>9. outptr_prev_gray_sync' = High(togray(q2))
    BY <1>1 DEF WriteSide, WriteSeen
  <1>10. WriteSeen(q2, q3)'
    BY <1>1, <1>2, <1>4, <1>6, <1>7, <1>8, <1>9 DEF WriteSeen
  <1>11. inptr_gray' = togray(inptr')
    BY <1>3 DEF WriteSide, NextInGray, IInv, CodesInv
  <1>12. wr_en' \in BOOLEAN
    BY DEF Writer
  <1> QED BY <1>1, <1>2, <1>4, <1>8, <1>10, <1>11, <1>12

\* The slots between the pointers survive both a write and a read.
LEMMA StoragePreserved ==
  ASSUME IInv, inptr' \in Nat, outptr' \in Nat, outptr <= outptr',
         \/ UNCHANGED <<storage, inptr>>
         \/ /\ storage' = IF wr_en THEN [storage EXCEPT ![inptr_gray] = inptr] ELSE storage
            /\ inptr' = IF wr_en THEN inptr + 1 ELSE inptr
  PROVE  StorageInv'
  <1> SUFFICES ASSUME NEW k \in Nat, outptr' <= k, k < inptr'
               PROVE  storage'[togray(k)] = k
    BY DEF StorageInv
  <1>1. inptr \in Nat /\ outptr \in Nat /\ outptr <= k
    BY MaxWritesAssumption DEF IInv, TypeOK
  <1>2. k < inptr => storage[togray(k)] = k
    BY <1>1 DEF IInv, StorageInv
  <1>3. CASE UNCHANGED <<storage, inptr>> \/ ~wr_en
    BY <1>2, <1>3
  <1>4. CASE /\ wr_en /\ inptr' = inptr + 1
             /\ storage' = [storage EXCEPT ![inptr_gray] = inptr]
    <2>1. /\ inptr_gray = togray(inptr) /\ togray(inptr) \in Code
          /\ storage \in [Code -> Nat] /\ togray(k) \in Code
      BY <1>1, GrayType DEF IInv, CodesInv, TypeOK
    <2>2. CASE k = inptr
      BY <1>4, <2>1, <2>2
    <2>3. CASE k < inptr
      <3>1. inptr < k + Size
        BY <1>1, Bounded DEF NoOverrun, Size
      <3>2. togray(k) # togray(inptr)
        BY <1>1, <2>3, <3>1, GrayInjective
      <3> QED BY <1>2, <1>4, <2>1, <2>3, <3>2
    <2> QED BY <1>1, <1>4, <2>2, <2>3
  <1> QED BY <1>3, <1>4

LEMMA PrevType ==
  ASSUME NEW o \in Nat
  PROVE  (IF o = 0 THEN Size - 1 ELSE o + Size - 2) \in Nat
  BY DEF Size

LEMMA InitIInv == Init => IInv
  <1> SUFFICES ASSUME Init PROVE IInv
    OBVIOUS
  <1>1. /\ togray(0) \in Code /\ togray(Size - 1) \in Code
        /\ High(togray(Size - 1)) \in HighCode /\ Size - 1 \in Nat
    BY GrayType DEF Size
  <1>2. TypeOK
    <2>1. storage \in [Code -> Nat]
      <3>1. storage = [g \in Code |-> 0]
        BY DEF Init
      <3> QED BY <3>1
    <2>2. /\ inptr \in 0 .. MaxWrites /\ outptr \in 0 .. MaxWrites
          /\ wr_en \in BOOLEAN /\ rd_en \in BOOLEAN /\ dout \in Nat
      <3>1. inptr = 0 /\ outptr = 0 /\ dout = 0 /\ wr_en = FALSE /\ rd_en = FALSE
        BY DEF Init
      <3>2. 0 \in 0 .. MaxWrites
        BY MaxWritesAssumption
      <3> QED BY <3>1, <3>2
    <2>3. /\ inptr_gray \in Code /\ outptr_gray \in Code /\ outptr_prev_gray \in Code
          /\ inptr_gray_sync \in Code /\ inptr_gray_sync2 \in Code
      BY <1>1 DEF Init
    <2>4. /\ outptr_prev_gray_sync \in HighCode
          /\ outptr_prev_gray_sync2 \in HighCode
      BY <1>1 DEF Init
    <2> QED BY <2>1, <2>2, <2>3, <2>4 DEF TypeOK
  <1>3. CodesInv /\ StorageInv
    BY DEF Init, CodesInv, StorageInv, OutPrev
  <1>4. ReadSeen(0, 0)
    BY DEF Init, ReadSeen
  <1>5. WriteSeen(Size - 1, Size - 1)
    BY DEF Init, WriteSeen, OutPrev, Size, PairOf
  <1> QED BY <1>1, <1>2, <1>3, <1>4, <1>5 DEF IInv

LEMMA IInvNext == IInv /\ [Next]_vars => IInv'
  <1> SUFFICES ASSUME IInv, [Next]_vars PROVE IInv'
    OBVIOUS
  <1>1. inptr \in Nat /\ outptr \in Nat /\ MaxWrites \in Nat /\ outptr <= inptr
        /\ outptr_gray = togray(outptr) /\ inptr_gray = togray(inptr)
        /\ outptr_prev_gray = togray(OutPrev)
    BY MaxWritesAssumption, Bounded DEF IInv, TypeOK, CodesInv, NoOverrun
  \* The types of a step follow from those of its two halves.
  <1>2. ASSUME outptr' \in Nat, outptr' <= inptr, inptr' \in {inptr, inptr + 1},
               inptr' \in 0 .. MaxWrites, outptr <= outptr',
               CodesInv', StorageInv',
               storage' \in [Code -> Nat], wr_en' \in BOOLEAN, rd_en' \in BOOLEAN,
               dout' \in Nat,
               (\E k1, k2 \in Nat : ReadSeen(k1, k2))',
               (\E q1, q2 \in Nat : WriteSeen(q1, q2))'
        PROVE  IInv'
    <2>1. OutPrev' \in Nat
      <3>1. outptr' \in Nat
        BY <1>2, Zenon
      <3>2. OutPrev' = IF outptr' = 0 THEN Size - 1 ELSE outptr' + Size - 2
        BY DEF OutPrev
      <3> QED BY <3>1, <3>2, PrevType
    <2>2. inptr_gray' \in Code /\ outptr_gray' \in Code /\ outptr_prev_gray' \in Code
      BY <1>2, <2>1, GrayType DEF CodesInv
    <2>3. inptr_gray_sync' \in Code /\ inptr_gray_sync2' \in Code
      BY <1>2, GrayType DEF ReadSeen
    <2>4. outptr_prev_gray_sync' \in HighCode /\ outptr_prev_gray_sync2' \in HighCode
      BY <1>2, GrayType DEF WriteSeen
    <2>5. outptr' \in 0 .. MaxWrites
      BY <1>1, <1>2
    <2> QED BY <1>2, <2>2, <2>3, <2>4, <2>5 DEF IInv, TypeOK
  <1>3. CASE RdClk
    <2>1. ReadSide({inptr_gray}) /\ Reader /\ UNCHANGED writeVars
      BY <1>3 DEF RdClk
    <2>2. /\ \E k1, k2 \in Nat : ReadSeen(k1, k2)'
          /\ outptr' \in Nat /\ outptr' <= inptr /\ outptr_gray' = togray(outptr')
          /\ dout' \in Nat /\ rd_en' \in BOOLEAN
      BY <1>1, <2>1, ReadStep DEF writeVars
    <2>3. outptr' = IF rd_trigger THEN outptr + 1 ELSE outptr
      BY <2>1 DEF ReadSide
    <2>4. outptr_prev_gray' = togray(OutPrev') /\ OutPrev' \in {OutPrev, OutPrev + 1}
          /\ OutPrev \in Nat
      BY <2>1, <2>3, OutPrevStep DEF ReadSide
    <2>5. PICK q1 \in Nat, q2 \in Nat : WriteSeen(q1, q2)
      BY DEF IInv
    <2>6. WriteSeen(q1, q2)'
      BY <2>1, <2>4, <2>5 DEF WriteSeen, writeVars
    <2>7. CodesInv'
      BY <1>1, <2>1, <2>2, <2>4 DEF CodesInv, writeVars
    <2>8. StorageInv'
      BY <1>1, <2>1, <2>2, <2>3, StoragePreserved DEF writeVars
    <2> QED BY <1>1, <1>2, <2>1, <2>2, <2>3, <2>6, <2>7, <2>8 DEF writeVars, IInv, TypeOK
  <1>4. CASE WrClk
    <2>1. WriteSide({outptr_prev_gray}) /\ Writer /\ UNCHANGED readVars /\ OutPrev' = OutPrev
      BY <1>4 DEF WrClk, readVars, OutPrev
    <2>2. /\ \E q1, q2 \in Nat : WriteSeen(q1, q2)'
          /\ inptr' \in {inptr, inptr + 1} /\ inptr' \in 0 .. MaxWrites
          /\ inptr_gray' = togray(inptr') /\ wr_en' \in BOOLEAN
      BY <1>1, <2>1, WriteStep
    <2>3. PICK k1 \in Nat, k2 \in Nat : ReadSeen(k1, k2)
      BY DEF IInv
    <2>4. ReadSeen(k1, k2)'
      BY <1>1, <2>1, <2>2, <2>3 DEF ReadSeen, readVars
    <2>5. CodesInv'
      BY <1>1, <2>1, <2>2 DEF CodesInv, readVars
    <2>6. StorageInv'
      BY <1>1, <2>1, <2>2, StoragePreserved DEF readVars, WriteSide
    <2>7. storage' \in [Code -> Nat]
      BY <1>1, <2>1 DEF WriteSide, IInv, TypeOK
    <2> QED BY <1>1, <1>2, <2>1, <2>2, <2>4, <2>5, <2>6, <2>7 DEF readVars, IInv, TypeOK
  <1>5. CASE BothClk
    <2>1. /\ ReadSide(Sampled(inptr_gray, NextInGray)) /\ Reader
          /\ WriteSide(Sampled(outptr_prev_gray, NextOutPrevGray)) /\ Writer
      BY <1>5 DEF BothClk
    <2>2. outptr' = IF rd_trigger THEN outptr + 1 ELSE outptr
      BY <2>1 DEF ReadSide
    <2>3. /\ NextOutPrevGray = togray(OutPrev') /\ OutPrev' \in {OutPrev, OutPrev + 1}
          /\ OutPrev \in Nat
      BY <2>2, OutPrevStep
    <2>4. Sampled(outptr_prev_gray, NextOutPrevGray) \subseteq {togray(OutPrev), togray(OutPrev')}
      BY <1>1, <2>3, SampledNeighbour, SampledStable
    <2>5. /\ \E q1, q2 \in Nat : WriteSeen(q1, q2)'
          /\ inptr' \in {inptr, inptr + 1} /\ inptr' \in 0 .. MaxWrites
          /\ inptr_gray' = togray(inptr') /\ wr_en' \in BOOLEAN
      BY <2>1, <2>3, <2>4, WriteStep
    <2>6. Sampled(inptr_gray, NextInGray) \subseteq {togray(inptr), togray(inptr')}
      <3>1. NextInGray = togray(inptr')
        BY <2>1, <2>5 DEF WriteSide
      <3> QED BY <1>1, <2>5, <3>1, SampledNeighbour, SampledStable
    <2>7. /\ \E k1, k2 \in Nat : ReadSeen(k1, k2)'
          /\ outptr' \in Nat /\ outptr' <= inptr /\ outptr_gray' = togray(outptr')
          /\ dout' \in Nat /\ rd_en' \in BOOLEAN
      BY <2>1, <2>5, <2>6, ReadStep
    <2>8. CodesInv'
      BY <2>1, <2>3, <2>5, <2>7 DEF CodesInv, ReadSide
    <2>9. StorageInv'
      BY <1>1, <2>1, <2>2, <2>5, <2>7, StoragePreserved DEF WriteSide
    <2>10. storage' \in [Code -> Nat]
      BY <1>1, <2>1 DEF WriteSide, IInv, TypeOK
    <2> QED BY <1>1, <1>2, <2>2, <2>5, <2>7, <2>8, <2>9, <2>10
  <1>6. CASE UNCHANGED vars
    BY <1>6 DEF IInv, TypeOK, CodesInv, StorageInv, ReadSeen, WriteSeen, OutPrev,
       vars, readVars, writeVars
  <1> QED BY <1>3, <1>4, <1>5, <1>6 DEF Next

LEMMA SpecIInv == Spec => []IInv
  BY InitIInv, IInvNext, PTL DEF Spec

\* The registers keep their types.
THEOREM TypeCorrect == Spec => []TypeOK
  BY SpecIInv, PTL DEF IInv

\* No word is read before it is written or overwritten before it is read.
THEOREM NeverOverruns == Spec => []NoOverrun
  BY SpecIInv, Bounded, PTL

\* An accepted read takes the oldest word.
THEOREM ReadsInOrder == Spec => []InOrder
  <1>1. IInv => InOrder
    <2> SUFFICES ASSUME IInv, rd_trigger PROVE dout = outptr /\ outptr < inptr
      BY DEF InOrder
    <2>1. inptr \in Nat /\ outptr \in Nat
      BY MaxWritesAssumption DEF IInv, TypeOK
    <2> QED BY <2>1 DEF IInv, ReadSeen, rd_trigger
  <1> QED BY <1>1, SpecIInv, PTL

\* A read that was asked for finds its word.
THEOREM ReadsAccepted == Spec => []ReadIsAccepted
  <1>1. IInv => ReadIsAccepted
    <2> SUFFICES ASSUME IInv, rd_en, empty PROVE FALSE
      BY DEF ReadIsAccepted
    <2>1. PICK k1 \in Nat, k2 \in Nat : ReadSeen(k1, k2)
      BY DEF IInv
    <2>2. outptr < k1 /\ k1 <= inptr /\ togray(k1) = togray(outptr)
      BY <2>1, MaxWritesAssumption DEF ReadSeen, IInv, CodesInv, TypeOK, empty
    <2>3. inptr \in Nat /\ outptr \in Nat /\ k1 < outptr + Size
      BY <2>2, Bounded, MaxWritesAssumption DEF IInv, TypeOK, NoOverrun, Size
    <2> QED BY <2>2, <2>3, GrayInjective
  <1> QED BY <1>1, SpecIInv, PTL

-----------------------------------------------------------------------------
(* The FIFO is a bounded queue.                                            *)

\* What is between the pointers, oldest first, by number.
Between(from, to) == [k \in 1 .. to - from |-> from + k - 1]

ContentsInv == contents = Between(outptr, inptr)

LEMMA ContentsAre == IInv => ContentsInv
  <1> SUFFICES ASSUME IInv PROVE contents = Between(outptr, inptr)
    BY DEF ContentsInv
  <1>1. inptr \in Nat /\ outptr \in Nat
    BY MaxWritesAssumption DEF IInv, TypeOK
  <1>2. ASSUME NEW k \in 1 .. inptr - outptr
        PROVE  storage[togray(outptr + k - 1)] = outptr + k - 1
    <2>1. outptr + k - 1 \in Nat /\ outptr <= outptr + k - 1 /\ outptr + k - 1 < inptr
      BY <1>1
    <2> QED BY <2>1 DEF IInv, StorageInv
  <1> QED BY <1>2 DEF contents, Between

\* A word written is put at the end, a word read taken from the front.
LEMMA BetweenPut ==
  ASSUME NEW from \in Nat, NEW to \in Nat, from <= to
  PROVE  Between(from, to + 1) = Append(Between(from, to), to)
  BY DEF Between

LEMMA BetweenGet ==
  ASSUME NEW from \in Nat, NEW to \in Nat, from < to
  PROVE  /\ Between(from, to) # <<>>
         /\ Between(from + 1, to) = Tail(Between(from, to))
  <1> DEFINE b == Between(from, to)  c == Between(from + 1, to)
  <1>1. b \in Seq(Nat) /\ Len(b) = to - from /\ \A k \in 1 .. to - from : b[k] = from + k - 1
    BY DEF Between
  <1>2. /\ c \in Seq(Nat) /\ Len(c) = to - from - 1
        /\ \A k \in 1 .. to - from - 1 : c[k] = from + k
    BY DEF Between
  <1>3. b # <<>>
    BY <1>1
  <1> HIDE DEF b, c
  <1>4. /\ Tail(b) \in Seq(Nat) /\ Len(Tail(b)) = to - from - 1
        /\ \A k \in 1 .. to - from - 1 : Tail(b)[k] = b[k + 1]
    BY <1>1, <1>3, HeadTailProperties
  <1>5. \A k \in 1 .. to - from - 1 : Tail(b)[k] = c[k]
    BY <1>1, <1>2, <1>4
  <1>6. Tail(b) = c
    BY <1>2, <1>4, <1>5, SeqEqual
  <1> QED BY <1>3, <1>6 DEF b, c

LEMMA BetweenLength ==
  ASSUME NEW from \in Nat, NEW to \in Nat, from <= to
  PROVE  Len(Between(from, to)) = to - from
  BY DEF Between

\* A step moves each pointer by one at most.
LEMMA PointersMove ==
  ASSUME IInv, Next
  PROVE  inptr' \in {inptr, inptr + 1} /\ outptr' \in {outptr, outptr + 1}
  BY DEF Next, RdClk, WrClk, BothClk, ReadSide, WriteSide, readVars, writeVars

\* Every step puts a word in, takes one out, does both, or changes nothing.
LEMMA StepRefines ==
  ASSUME IInv, IInv', ContentsInv, ContentsInv', [Next]_vars
  PROVE  [Queue!Next]_contents
  <1>1. /\ inptr \in Nat /\ outptr \in Nat /\ outptr <= inptr
        /\ inptr \in 0 .. MaxWrites
    BY Bounded, MaxWritesAssumption DEF IInv, TypeOK, NoOverrun
  <1>2. outptr' <= inptr' /\ inptr' - outptr' < Size
    <2>1. IInv' => NoOverrun'
      BY Bounded, PTL
    <2> QED BY <2>1 DEF NoOverrun
  <1>3. inptr' \in {inptr, inptr + 1} /\ outptr' \in {outptr, outptr + 1}
    BY PointersMove DEF vars, readVars, writeVars
  <1>4. contents = Between(outptr, inptr) /\ contents' = Between(outptr', inptr')
    BY DEF ContentsInv
  <1>5. CASE inptr' = inptr /\ outptr' = outptr
    BY <1>4, <1>5
  <1>6. CASE inptr' = inptr + 1 /\ outptr' = outptr
    <2>1. contents' = Append(contents, inptr)
      BY <1>1, <1>4, <1>6, BetweenPut
    <2>2. Len(contents) < Size - 1
      BY <1>1, <1>2, <1>4, <1>6, BetweenLength DEF Size
    <2> QED BY <1>1, <2>1, <2>2 DEF Queue!Next, Queue!Put
  <1>7. CASE inptr' = inptr /\ outptr' = outptr + 1
    <2>1. outptr < inptr
      BY <1>1, <1>2, <1>7
    <2> QED BY <1>1, <1>4, <1>7, <2>1, BetweenGet DEF Queue!Next, Queue!Get
  <1>8. CASE inptr' = inptr + 1 /\ outptr' = outptr + 1
    <2>1. rd_trigger
      BY <1>1, <1>8 DEF Next, RdClk, WrClk, BothClk, ReadSide, vars, readVars, writeVars
    <2>2. outptr < inptr
      BY <1>1, <2>1 DEF IInv, ReadSeen, rd_trigger
    <2>3. contents # <<>> /\ Between(outptr + 1, inptr) = Tail(contents)
      BY <1>1, <1>4, <2>2, BetweenGet
    <2>4. contents' = Append(Tail(contents), inptr)
      <3>1. Between(outptr + 1, inptr + 1) = Append(Between(outptr + 1, inptr), inptr)
        BY <1>1, <2>2, BetweenPut
      <3> QED BY <1>4, <1>8, <2>3, <3>1
    <2> QED BY <1>1, <2>3, <2>4 DEF Queue!Next, Queue!PutGet
  <1> QED BY <1>3, <1>5, <1>6, <1>7, <1>8

\* Seen from both its ends the FIFO is a queue of at most Size - 1 words.
THEOREM ImplementsQueue == Spec => RefinesQueue
  <1>1. Init => Queue!Init
    BY DEF Init, Queue!Init, contents
  <1>2. IInv /\ IInv' /\ ContentsInv /\ ContentsInv' /\ [Next]_vars => [Queue!Next]_contents
    BY StepRefines
  <1> QED BY <1>1, <1>2, SpecIInv, ContentsAre, PTL DEF Spec, RefinesQueue, Queue!Spec
=============================================================================
