-------------------------- MODULE LinkerLayoutProofs --------------------------
(***************************************************************************)
(* The layout that the linker writes stands: proofs about addresses and    *)
(* sizes, for any command line and any object files with numbers in them.  *)
(***************************************************************************)
EXTENDS LinkerProofs

-----------------------------------------------------------------------------
(* Remainders.                                                             *)

\* Division with remainder.
LEMMA DivModIs ==
  ASSUME NEW a \in Int, NEW n \in Nat \ {0}
  PROVE  /\ a \div n \in Int /\ a % n \in Int /\ a = n * (a \div n) + (a % n) /\ 0 <= a % n /\ a % n < n
  OBVIOUS

\* A positive number times an integer that is between zero and itself.
LEMMA SmallProduct ==
  ASSUME NEW n \in Nat \ {0}, NEW q \in Int, 0 <= n * q, n * q < n
  PROVE  q = 0
  <1>1. CASE q >= 1
    <2>1. n * q >= n
      BY <1>1
    <2> QED BY <2>1
  <1>2. CASE q <= -1
    <2>1. n * q <= -n
      BY <1>2
    <2> QED BY <2>1
  <1> QED BY <1>1, <1>2

\* A multiple leaves no remainder.
LEMMA MultipleMod ==
  ASSUME NEW k \in Int, NEW n \in Nat \ {0}
  PROVE  (n * k) % n = 0
  <1> DEFINE m == n * k
             q == m \div n
             r == m % n
  <1>1. m \in Int
    OBVIOUS
  <1>2. q \in Int /\ r \in Int /\ m = n * q + r /\ 0 <= r /\ r < n
    BY <1>1, DivModIs
  <1>3. n * (k - q) = n * k - n * q
    BY <1>2
  <1>4. r = n * (k - q)
    BY <1>1, <1>2, <1>3
  <1>5. k - q = 0
    BY <1>2, <1>4, SmallProduct
  <1> QED BY <1>4, <1>5

\* A power of two is a positive number.
LEMMA PowerIsPositive ==
  ASSUME NEW k, PowerOfTwo(k)
  PROVE  k \in Nat \ {0}
  BY DEF PowerOfTwo

\* What is put before an aligned place aligns it.
LEMMA PaddingAligns ==
  ASSUME NEW a \in Int, NEW n, PowerOfTwo(n)
  PROVE  LET padding == Masked(a + n - 1, n) - a
         IN  padding \in Nat /\ (a + padding) % n = 0
  <1> DEFINE x == a + n - 1
             q == x \div n
             padding == Masked(x, n) - a
  <1>1. n \in Nat \ {0} /\ x \in Int
    BY PowerIsPositive
  <1>2. q \in Int /\ x % n \in Int /\ x = n * q + (x % n) /\ 0 <= x % n /\ x % n < n
    BY <1>1, DivModIs
  <1>3. padding = (x - (x % n)) - a
    BY DEF Masked
  <1>4. n * q \in Int
    BY <1>1, <1>2
  <1>5. padding \in Nat /\ a + padding = n * q
    <2>1. x = a + n - 1
      OBVIOUS
    <2> HIDE DEF x, q, padding
    <2> QED BY <1>1, <1>2, <1>3, <1>4, <2>1
  <1> HIDE DEF q
  <1>6. (n * q) % n = 0
    BY <1>1, <1>2, MultipleMod
  <1> QED BY <1>5, <1>6

-----------------------------------------------------------------------------
(* The numbers in symbols and sections.                                    *)

\* A symbol with numbers where numbers belong.
Numeric(sym) == Ordinary(sym) /\ sym.address \in Int /\ sym.size \in Int

NumericSection(sect) == sect.cursor \in Int /\ \A i \in DOMAIN sect.symbols : Numeric(sect.symbols[i])

\* A symbol is a reference if it is one of some kind.
LEMMA IsRefIs ==
  ASSUME NEW sym
  PROVE  IsRef(sym) <=> Has(sym, "REFERENCE") \/ Has(sym, "LDABS") \/ Has(sym, "LDPCREL") \/ Has(sym, "ALIGN")
  BY DEF IsRef, Has

-----------------------------------------------------------------------------
(* How much room a value takes.                                            *)

\* The bounds of what each number of opcodes can load.
LEMMA FitsIs ==
  ASSUME NEW v
  PROVE  /\ Fits(v, 1) <=> -32 <= v /\ v < 32
         /\ Fits(v, 2) <=> -2048 <= v /\ v < 2048
         /\ Fits(v, 3) <=> -131072 <= v /\ v < 131072
         /\ Fits(v, 4) <=> -8388608 <= v /\ v < 8388608
         /\ Fits(v, 5) <=> -536870912 <= v /\ v < 536870912
         /\ Fits(v, 6)
  <1>1. /\ Power64[1] = 1 /\ Power64[2] = 64 /\ Power64[3] = 4096
        /\ Power64[4] = 262144 /\ Power64[5] = 16777216
    BY DEF Power64
  <1>2. 1 \in 1 .. 5 /\ 2 \in 1 .. 5 /\ 3 \in 1 .. 5 /\ 4 \in 1 .. 5 /\ 5 \in 1 .. 5
    OBVIOUS
  <1> QED BY <1>1, <1>2 DEF Fits

\* What some opcodes can load, more of them can load at a distance that is less by
\* their number.
LEMMA FitsFurther ==
  ASSUME NEW v \in Int, NEW k \in 1 .. 6, NEW n \in 1 .. 6, NEW d \in 0 .. 5,
         k <= n, Fits(v, k), d = 0 \/ k < n
  PROVE  Fits(v - d, n)
  <1>1. v - d \in Int
    OBVIOUS
  <1>2. CASE n = 6
    BY <1>2 DEF Fits
  <1>3. CASE n # 6
    <2>1. k \in {1, 2, 3, 4, 5} /\ n \in {1, 2, 3, 4, 5}
      BY <1>3
    <2>2. CASE k = 1 BY <2>1, <2>2, <1>1, FitsIs
    <2>3. CASE k = 2 BY <2>1, <2>3, <1>1, FitsIs
    <2>4. CASE k = 3 BY <2>1, <2>4, <1>1, FitsIs
    <2>5. CASE k = 4 BY <2>1, <2>5, <1>1, FitsIs
    <2>6. CASE k = 5 BY <2>1, <2>6, <1>1, FitsIs
    <2> QED BY <2>1, <2>2, <2>3, <2>4, <2>5, <2>6
  <1> QED BY <1>2, <1>3

\* A constant fits the opcodes that are counted for it, and more of them.
LEMMA ConstantFits ==
  ASSUME NEW v \in Int, NEW n \in 1 .. 6, ConstantChunks(v) <= n
  PROVE  Fits(v, n)
  <1> DEFINE S == {k \in 1 .. 5 : -32 * Power64[k] <= v /\ v < 32 * Power64[k]} \cup {6}
             k == ConstantChunks(v)
  <1>1. k \in S
    <2>1. S \in SUBSET (1 .. 6) /\ 6 \in S
      OBVIOUS
    <2>2. Min(S) \in S
      <3> HIDE DEF S
      <3> QED BY <2>1, MinOfSix
    <2> QED BY <2>2 DEF ConstantChunks
  <1>2. k \in 1 .. 6 /\ Fits(v, k)
    BY <1>1 DEF Fits
  <1> HIDE DEF k
  <1>3. k <= n
    BY DEF k
  <1>4. Fits(v - 0, n)
    BY <1>2, <1>3, FitsFurther
  <1> QED BY <1>4

\* So does a distance, which is counted from behind the opcodes.
LEMMA PcrelFits ==
  ASSUME NEW from \in Int, NEW to \in Int, NEW n \in 1 .. 6, PcrelChunks(from, to) <= n
  PROVE  Fits(to - (from + n), n)
  <1> DEFINE S == {i \in 1 .. 5 : i >= ConstantChunks(to - (from + i))} \cup {6}
             k == PcrelChunks(from, to)
  <1>1. k \in S
    <2>1. S \in SUBSET (1 .. 6) /\ 6 \in S
      OBVIOUS
    <2>2. Min(S) \in S
      <3> HIDE DEF S
      <3> QED BY <2>1, MinOfSix
    <2> QED BY <2>2 DEF PcrelChunks
  <1>2. k <= n
    OBVIOUS
  <1>3. CASE k = 6
    BY <1>2, <1>3 DEF Fits
  <1>4. CASE k # 6
    <2>1. k \in 1 .. 5 /\ k >= ConstantChunks(to - (from + k))
      BY <1>1, <1>4
    <2> HIDE DEF k
    <2> DEFINE v == to - (from + k)
    <2>2. v \in Int /\ ConstantChunks(v) \in 1 .. 6 /\ ConstantChunks(v) <= k
      BY <2>1, ConstantChunksType
    <2> HIDE DEF v
    <2>3. Fits(v, k)
      BY <2>1, <2>2, ConstantFits
    <2>4. n - k \in 0 .. 5 /\ (n - k = 0 \/ k < n)
      BY <1>2, <2>1
    <2>5. Fits(v - (n - k), n)
      BY <1>2, <2>1, <2>2, <2>3, <2>4, FitsFurther
    <2>6. v - (n - k) = to - (from + n)
      BY <2>1 DEF v
    <2> QED BY <2>5, <2>6
  <1> QED BY <1>3, <1>4

\* The larger of two sizes is not less than either.
LEMMA MaxIsLarger ==
  ASSUME NEW a \in 1 .. 6, NEW b \in 1 .. 6
  PROVE  b <= Max({a, b})
  <1>1. \E x \in {a, b} : \A y \in {a, b} : x >= y
    OBVIOUS
  <1>2. Max({a, b}) \in {a, b} /\ \A y \in {a, b} : Max({a, b}) >= y
    BY <1>1, Zenon DEF Max
  <1> QED BY <1>2

\* A reference that has not grown has the room it takes.
LEMMA SettledFits ==
  ASSUME NEW sym, Has(sym, "LDABS") \/ Has(sym, "LDPCREL"), Numeric(sym), sym.size \in 1 .. 6,
         NEW addr \in Int, NEW target, TargetValue(target, sym) \in Int,
         ReferenceSize(sym, addr, target) = sym.size
  PROVE  LET value == TargetValue(target, sym)
         IN  IF Has(sym, "LDABS") THEN Fits(value, sym.size)
             ELSE Fits(value - (addr + sym.size), sym.size)
  <1> DEFINE value == TargetValue(target, sym)
             chunks == IF Has(sym, "LDABS") THEN ConstantChunks(value) ELSE PcrelChunks(addr, value)
  <1>1. ~Has(sym, "ALIGN") /\ ~Has(sym, "REFERENCE")
    BY DEF Numeric, Ordinary, Kinds
  <1>2. sym.size = Max({sym.size, chunks})
    BY <1>1 DEF ReferenceSize
  <1>3. chunks \in 1 .. 6
    BY ConstantChunksType, PcrelChunksType
  <1>4. chunks <= sym.size
    <2> HIDE DEF chunks
    <2> QED BY <1>2, <1>3, MaxIsLarger
  <1> HIDE DEF value
  <1>5. CASE Has(sym, "LDABS")
    BY <1>4, <1>5, ConstantFits DEF value
  <1>6. CASE ~Has(sym, "LDABS")
    BY <1>4, <1>6, PcrelFits DEF value
  <1> QED BY <1>5, <1>6 DEF value

-----------------------------------------------------------------------------
(* What the references of a section take.                                  *)

\* What the references of a section take, from one symbol to the next.
LEMMA TakenIs ==
  ASSUME NEW sect, IsSeq(sect.symbols),
         \A i \in DOMAIN sect.symbols : IsRef(sect.symbols[i]) => sect.symbols[i].size \in Int
  PROVE  /\ Taken(sect)[0] = 0 /\ \A i \in 0 .. Len(sect.symbols) : Taken(sect)[i] \in Int
         /\ \A i \in DOMAIN sect.symbols :
              Taken(sect)[i] = Taken(sect)[i - 1] + (IF IsRef(sect.symbols[i]) THEN sect.symbols[i].size ELSE 0)
  <1> DEFINE n == Len(sect.symbols)
             size(i) == IF IsRef(sect.symbols[i]) THEN sect.symbols[i].size ELSE 0
             P(f) == f = [i \in 0 .. n |-> IF i = 0 THEN 0 ELSE f[i - 1] + size(i)]
             g == [ix \in (1 .. n) \X Int |-> ix[2] + size(ix[1])]
  <1>1. n \in Nat /\ DOMAIN sect.symbols = 1 .. n
    BY SeqIsFunction
  <1>2. \A i \in 1 .. n : size(i) \in Int
    BY <1>1
  <1>3. Taken(sect) = CHOOSE f : P(f)
    BY DEF Taken
  <1> HIDE DEF size, n
  <1>4. \A i \in 1 .. n : \A x \in Int : g[<<i, x>>] = x + size(i) /\ g[<<i, x>>] \in Int
    BY <1>2
  <1> HIDE DEF g
  <1>5. PICK f \in [0 .. n -> Int] : Follows(n, 0, g, f)
    <2>1. 0 \in Int /\ \A i \in 1 .. n : \A x \in Int : g[<<i, x>>] \in Int
      BY <1>4
    <2> QED BY <1>1, <2>1, Recursion
  <1>6. P(f)
    <2>1. f = [i \in 0 .. n |-> f[i]]
      BY <1>5
    <2>2. ASSUME NEW i \in 0 .. n PROVE f[i] = IF i = 0 THEN 0 ELSE f[i - 1] + size(i)
      <3>1. CASE i = 0
        BY <1>5, <3>1 DEF Follows
      <3>2. CASE i # 0
        <4>1. i \in 1 .. n /\ i - 1 \in 0 .. n
          BY <1>1, <3>2
        <4>2. f[i - 1] \in Int
          BY <1>5, <4>1
        <4> QED BY <1>4, <1>5, <3>2, <4>1, <4>2 DEF Follows
      <3> QED BY <3>1, <3>2
    <2> QED BY <2>1, <2>2
  <1>7. P(Taken(sect))
    <2> HIDE DEF P
    <2> QED BY <1>3, <1>6
  <1> DEFINE h == Taken(sect)
  <1>8. h[0] = 0 /\ \A i \in 1 .. n : h[i] = h[i - 1] + size(i)
    <2> HIDE DEF h
    <2>1. \A i \in 0 .. n : h[i] = IF i = 0 THEN 0 ELSE h[i - 1] + size(i)
      BY <1>7 DEF h
    <2> QED BY <1>1, <2>1
  <1> HIDE DEF h
  <1>9. \A i \in 0 .. n : h[i] \in Int
    <2>1. Passes(n, h)
      BY <1>2, <1>8 DEF Passes
    <2> QED BY <1>1, <2>1, RecursionType
  <1> QED BY <1>1, <1>8, <1>9 DEF n, size, h

-----------------------------------------------------------------------------
(* Assigning addresses.                                                    *)

\* Alignments align, and definitions have the address at which they lie.
LaidOut(sect) ==
    \A i \in DOMAIN sect.symbols :
        LET sym == sect.symbols[i]
        IN  /\ Has(sym, "ALIGN") => (Lies(sect, i) + 1 + sym.size) % sym.offset = 0
            /\ IsRef(sym) \/ Has(sym, "CONSTANT") \/ sym.address = Lies(sect, i)

\* Addresses are assigned so that sections are laid out.
LEMMA AssigningLaysOut ==
  ASSUME NEW sect, Loaded(sect), NumericSection(sect), NEW base \in Int
  PROVE  LET new == AssignAddresses(sect, base)
         IN  /\ NumericSection(new) /\ LaidOut(new) /\ EndOf(new) \in Int /\ EndOf(new) = Ends(new)
             /\ new.cursor = sect.cursor
             /\ \A i \in DOMAIN sect.symbols :
                   /\ new.symbols[i].cursor = sect.symbols[i].cursor
                   /\ Has(sect.symbols[i], "ALIGN") => new.symbols[i].size \in Nat
  <1> DEFINE symbols_ == sect.symbols
             n == Len(symbols_)
             Here(i, before) == base + symbols_[i].cursor + before
             Padding(a, k) == Masked(a + k - 1, k) - a
             Size(i, before) == IF Has(symbols_[i], "ALIGN")
                                THEN Padding(Here(i, before) + 1, symbols_[i].offset)
                                ELSE symbols_[i].size
             Counts(i) == IsRef(symbols_[i]) /\ ~Has(symbols_[i], "CONSTANT")
             Next_(i, before) == before + (IF Counts(i) THEN Size(i, before) ELSE 0)
             P(f) == f = [i \in 0 .. n |-> IF i = 0 THEN 0 ELSE Next_(i, f[i - 1])]
             offset == CHOOSE f : P(f)
             g == [ix \in (1 .. n) \X Int |-> Next_(ix[1], ix[2])]
             new == AssignAddresses(sect, base)
  <1>1. n \in Nat /\ DOMAIN symbols_ = 1 .. n
    BY SeqIsFunction DEF Loaded
  <1>2. new = [sect EXCEPT
                 !.address = base,
                 !.symbols = [i \in DOMAIN symbols_ |->
                                 IF Has(symbols_[i], "CONSTANT") THEN symbols_[i]
                                 ELSE IF IsRef(symbols_[i])
                                 THEN [symbols_[i] EXCEPT !.size = Size(i, offset[i - 1])]
                                 ELSE [symbols_[i] EXCEPT !.address = Here(i, offset[i - 1])]],
                 !.offset = offset[n]]
    BY DEF AssignAddresses
  <1>3. \A i \in 1 .. n : /\ Numeric(symbols_[i]) /\ SizeOK(symbols_[i])
                          /\ Counts(i) <=> IsRef(symbols_[i])
    BY <1>1 DEF NumericSection, Numeric, Ordinary, Loaded, SectOK
  <1>4. ASSUME NEW i \in 1 .. n, NEW x \in Int
        PROVE  /\ Here(i, x) \in Int /\ Size(i, x) \in Int /\ Next_(i, x) \in Int
               /\ Has(symbols_[i], "ALIGN") =>
                     Size(i, x) \in Nat /\ (Here(i, x) + 1 + Size(i, x)) % symbols_[i].offset = 0
    <2>1. Here(i, x) \in Int /\ symbols_[i].size \in Int
      BY <1>3 DEF Numeric, Ordinary
    <2>2. CASE Has(symbols_[i], "ALIGN")
      <3> DEFINE a == Here(i, x) + 1
      <3>1. a \in Int /\ PowerOfTwo(symbols_[i].offset)
        BY <1>3, <2>1, <2>2 DEF Numeric, Ordinary
      <3>2. Size(i, x) = Masked(a + symbols_[i].offset - 1, symbols_[i].offset) - a
        BY <2>2
      <3> HIDE DEF a, Size
      <3>3. Size(i, x) \in Nat /\ (a + Size(i, x)) % symbols_[i].offset = 0
        BY <3>1, <3>2, PaddingAligns
      <3> QED BY <2>1, <3>3 DEF a
    <2>3. CASE ~Has(symbols_[i], "ALIGN")
      BY <2>1, <2>3
    <2> QED BY <2>2, <2>3
  <1> HIDE DEF n, Here, Size, Counts, Next_
  <1>5. \A i \in 1 .. n : \A x \in Int : g[<<i, x>>] = Next_(i, x) /\ g[<<i, x>>] \in Int
    BY <1>4
  <1> HIDE DEF g
  <1>6. PICK f \in [0 .. n -> Int] : Follows(n, 0, g, f)
    <2>1. 0 \in Int /\ \A i \in 1 .. n : \A x \in Int : g[<<i, x>>] \in Int
      BY <1>5
    <2> QED BY <1>1, <2>1, Recursion
  <1>7. P(f)
    <2>1. f = [i \in 0 .. n |-> f[i]]
      BY <1>6
    <2>2. ASSUME NEW i \in 0 .. n PROVE f[i] = IF i = 0 THEN 0 ELSE Next_(i, f[i - 1])
      <3>1. CASE i = 0
        BY <1>6, <3>1 DEF Follows
      <3>2. CASE i # 0
        <4>1. i \in 1 .. n /\ i - 1 \in 0 .. n
          BY <1>1, <3>2
        <4>2. f[i - 1] \in Int
          BY <1>6, <4>1
        <4> QED BY <1>5, <1>6, <3>2, <4>1, <4>2 DEF Follows
      <3> QED BY <3>1, <3>2
    <2> QED BY <2>1, <2>2
  <1>8. P(offset)
    <2> HIDE DEF P
    <2> QED BY <1>7
  <1> HIDE DEF offset
  <1>9. offset[0] = 0 /\ \A i \in 1 .. n : offset[i] = Next_(i, offset[i - 1])
    <2>1. \A i \in 0 .. n : offset[i] = IF i = 0 THEN 0 ELSE Next_(i, offset[i - 1])
      BY <1>8
    <2> QED BY <1>1, <2>1
  <1> HIDE DEF P
  <1>10. \A i \in 0 .. n : offset[i] \in Int
    <2>1. offset[0] \in Int
      BY <1>9
    <2>2. ASSUME NEW i \in 1 .. n, offset[i - 1] \in Int PROVE offset[i] \in Int
      <3>1. Next_(i, offset[i - 1]) \in Int
        BY <1>4, <2>2
      <3> QED BY <1>9, <3>1
    <2>3. Passes(n, offset)
      BY <2>1, <2>2 DEF Passes
    <2> QED BY <1>1, <2>3, RecursionType
  <1>11. /\ {"id", "flags", "symbols", "cursor", "address", "offset"} \subseteq DOMAIN new
         /\ new.address = base /\ new.offset = offset[n] /\ new.cursor = sect.cursor
         /\ new.symbols = [i \in 1 .. n |->
                             IF Has(symbols_[i], "CONSTANT") THEN symbols_[i]
                             ELSE IF IsRef(symbols_[i])
                             THEN [symbols_[i] EXCEPT !.size = Size(i, offset[i - 1])]
                             ELSE [symbols_[i] EXCEPT !.address = Here(i, offset[i - 1])]]
    BY <1>1, <1>2 DEF Loaded, SectOK
  <1> HIDE DEF new
  <1>12. ASSUME NEW i \in 1 .. n
         PROVE  /\ new.symbols[i].flags = symbols_[i].flags /\ new.symbols[i].cursor = symbols_[i].cursor
                /\ new.symbols[i].offset = symbols_[i].offset
                /\ new.symbols[i].size = IF IsRef(symbols_[i]) THEN Size(i, offset[i - 1]) ELSE symbols_[i].size
                /\ new.symbols[i].address = IF IsRef(symbols_[i]) \/ Has(symbols_[i], "CONSTANT")
                                            THEN symbols_[i].address ELSE Here(i, offset[i - 1])
    <2>1. Numeric(symbols_[i]) /\ SizeOK(symbols_[i])
      BY <1>3
    <2>2. CASE Has(symbols_[i], "CONSTANT")
      <3>1. new.symbols[i] = symbols_[i] /\ ~IsRef(symbols_[i])
        BY <1>11, <2>1, <2>2 DEF Numeric, Ordinary
      <3> QED BY <2>2, <3>1
    <2>3. CASE ~Has(symbols_[i], "CONSTANT") /\ IsRef(symbols_[i])
      <3>1. new.symbols[i] = [symbols_[i] EXCEPT !.size = Size(i, offset[i - 1])]
        BY <1>11, <2>3
      <3> QED BY <2>1, <2>3, <3>1 DEF SizeOK
    <2>4. CASE ~Has(symbols_[i], "CONSTANT") /\ ~IsRef(symbols_[i])
      <3>1. new.symbols[i] = [symbols_[i] EXCEPT !.address = Here(i, offset[i - 1])]
        BY <1>11, <2>4
      <3> QED BY <2>1, <2>4, <3>1 DEF SizeOK
    <2> QED BY <2>2, <2>3, <2>4
  <1>13. ASSUME NEW i \in 1 .. n
         PROVE  /\ offset[i - 1] \in Int /\ Here(i, offset[i - 1]) \in Int /\ Size(i, offset[i - 1]) \in Int
                /\ Has(symbols_[i], "ALIGN") =>
                      /\ Size(i, offset[i - 1]) \in Nat
                      /\ (Here(i, offset[i - 1]) + 1 + Size(i, offset[i - 1])) % symbols_[i].offset = 0
    <2>1. i - 1 \in 0 .. n
      BY <1>1
    <2> QED BY <1>4, <1>10, <2>1
  <1>14. DOMAIN new.symbols = 1 .. n /\ Len(new.symbols) = n /\ IsSeq(new.symbols)
    <2>1. DOMAIN new.symbols = 1 .. n
      BY <1>11
    <2>2. new.symbols = [i \in DOMAIN symbols_ |-> new.symbols[i]]
      BY <1>1, <1>11
    <2>3. IsSeq(new.symbols)
      BY <2>2, UpdateSeq DEF Loaded
    <2>4. Len(new.symbols) \in Nat /\ DOMAIN new.symbols = 1 .. Len(new.symbols)
      BY <2>3, SeqIsFunction
    <2> QED BY <1>1, <2>1, <2>3, <2>4
  <1>15. NumericSection(new)
    <2>1. \A i \in 1 .. n : IsRef(new.symbols[i]) <=> IsRef(symbols_[i])
      BY <1>12 DEF IsRef
    <2>2. ASSUME NEW i \in 1 .. n PROVE Numeric(new.symbols[i])
      BY <1>3, <1>12, <1>13, <2>1 DEF Numeric, Ordinary, Has
    <2> QED BY <1>11, <1>14, <2>2 DEF NumericSection
  <1>16. \A i \in 1 .. n : IsRef(new.symbols[i]) <=> IsRef(symbols_[i])
    BY <1>12 DEF IsRef
  <1>17. \A i \in 0 .. n : Taken(new)[i] = offset[i]
    <2> DEFINE T == {i \in Nat : i <= n => Taken(new)[i] = offset[i]}
    <2>1. /\ Taken(new)[0] = 0
          /\ \A i \in 1 .. n :
                Taken(new)[i] = Taken(new)[i - 1] + (IF IsRef(new.symbols[i]) THEN new.symbols[i].size ELSE 0)
      <3>1. \A i \in DOMAIN new.symbols : IsRef(new.symbols[i]) => new.symbols[i].size \in Int
        BY <1>15 DEF NumericSection, Numeric, Ordinary
      <3> QED BY <1>14, <3>1, TakenIs
    <2>2. 0 \in T
      BY <1>9, <2>1
    <2>3. ASSUME NEW i \in Nat, i \in T PROVE i + 1 \in T
      <3> SUFFICES ASSUME i + 1 <= n PROVE Taken(new)[i + 1] = offset[i + 1]
        OBVIOUS
      <3>1. i + 1 \in 1 .. n /\ (i + 1) - 1 = i /\ Taken(new)[i] = offset[i]
        BY <1>1, <2>3
      <3>2. Taken(new)[i + 1] = offset[i] + (IF IsRef(symbols_[i + 1]) THEN Size(i + 1, offset[i]) ELSE 0)
        BY <1>12, <1>16, <2>1, <3>1
      <3>3. offset[i + 1] = offset[i] + (IF IsRef(symbols_[i + 1]) THEN Size(i + 1, offset[i]) ELSE 0)
        BY <1>3, <1>9, <3>1 DEF Next_
      <3> QED BY <3>2, <3>3
    <2> HIDE DEF T
    <2>4. \A i \in Nat : i \in T
      BY <2>2, <2>3, SetInduction
    <2> QED BY <1>1, <2>4 DEF T
  <1>18. LaidOut(new)
    <2> SUFFICES ASSUME NEW i \in 1 .. n
                 PROVE  LET sym  == new.symbols[i]
                            here == new.address + sym.cursor + Taken(new)[i - 1]
                        IN  /\ Has(sym, "ALIGN") => (here + 1 + sym.size) % sym.offset = 0
                            /\ IsRef(sym) \/ Has(sym, "CONSTANT") \/ sym.address = here
      BY <1>14 DEF LaidOut, Lies
    <2>1. Taken(new)[i - 1] = offset[i - 1]
      <3>1. i - 1 \in 0 .. n
        BY <1>1
      <3> QED BY <1>17, <3>1
    <2>2. new.address + new.symbols[i].cursor + Taken(new)[i - 1] = Here(i, offset[i - 1])
      BY <1>11, <1>12, <2>1 DEF Here
    <2>3. Has(new.symbols[i], "ALIGN") => IsRef(symbols_[i]) /\ Has(symbols_[i], "ALIGN")
      BY <1>12, IsRefIs DEF Has
    <2>4. Has(new.symbols[i], "CONSTANT") <=> Has(symbols_[i], "CONSTANT")
      BY <1>12 DEF Has
    <2> QED BY <1>12, <1>13, <1>16, <2>2, <2>3, <2>4
  <1>19. EndOf(new) \in Int
    <2>1. offset[n] \in Int /\ sect.cursor \in Int
      BY <1>1, <1>10 DEF NumericSection
    <2> QED BY <1>11, <2>1 DEF EndOf
  <1>20. EndOf(new) = Ends(new)
    <2>1. Taken(new)[n] = offset[n]
      BY <1>1, <1>17
    <2> QED BY <1>11, <1>14, <2>1 DEF EndOf, Ends
  <1>21. ASSUME NEW i \in DOMAIN sect.symbols
         PROVE  /\ new.symbols[i].cursor = sect.symbols[i].cursor
                /\ Has(sect.symbols[i], "ALIGN") => new.symbols[i].size \in Nat
    <2>1. i \in 1 .. n
      BY <1>1
    <2>2. Has(symbols_[i], "ALIGN") => IsRef(symbols_[i])
      BY IsRefIs
    <2> QED BY <1>12, <1>13, <2>1, <2>2
  <1> QED BY <1>11, <1>15, <1>18, <1>19, <1>20, <1>21 DEF new

-----------------------------------------------------------------------------
(* Sizing the references.                                                  *)

\* What sizing does to one symbol: it is sized for the place at which it then lies.
SizedFor(new, sect, i, target) ==
    /\ new.symbols[i].cursor = sect.symbols[i].cursor /\ new.symbols[i].offset = sect.symbols[i].offset
    /\ new.symbols[i].address = sect.symbols[i].address
    /\ new.symbols[i].size = IF IsRef(sect.symbols[i])
                             THEN ReferenceSize(sect.symbols[i], Lies(new, i) + 1, target)
                             ELSE sect.symbols[i].size

\* The size of a reference is a number.
LEMMA SizeIsNumber ==
  ASSUME NEW sym, SizeOK(sym), Numeric(sym), NEW addr, NEW target
  PROVE  ReferenceSize(sym, addr, target) \in Int
  <1>1. CASE Has(sym, "ALIGN")
    BY <1>1 DEF ReferenceSize, Numeric
  <1>2. CASE ~Has(sym, "ALIGN")
    <2>1. ReferenceSize(sym, addr, target) \in sym.size .. 6 /\ sym.size \in Int
      BY <1>2, ReferenceGrows DEF Numeric
    <2> QED BY <2>1
  <1> QED BY <1>1, <1>2

\* It does so to all of them.
LEMMA SizingIs ==
  ASSUME NEW sect, Loaded(sect), NumericSection(sect), NEW targets
  PROVE  LET new == SizeReferences(sect, targets)
         IN  /\ NumericSection(new) /\ new.address = sect.address /\ new.cursor = sect.cursor
             /\ \A i \in DOMAIN sect.symbols : SizedFor(new, sect, i, targets[i])
  <1> DEFINE symbols_ == sect.symbols
             n == Len(symbols_)
             Size(i, before) ==
                 IF ~IsRef(symbols_[i]) THEN 0
                 ELSE ReferenceSize(symbols_[i], sect.address + symbols_[i].cursor + before + 1, targets[i])
             P(f) == f = [i \in 0 .. n |-> IF i = 0 THEN 0 ELSE f[i - 1] + Size(i, f[i - 1])]
             offset == CHOOSE f : P(f)
             g == [ix \in (1 .. n) \X Int |-> ix[2] + Size(ix[1], ix[2])]
             new == SizeReferences(sect, targets)
  <1>1. n \in Nat /\ DOMAIN symbols_ = 1 .. n
    BY SeqIsFunction DEF Loaded
  <1>2. new = [sect EXCEPT
                 !.symbols = [i \in DOMAIN symbols_ |->
                                 IF ~IsRef(symbols_[i]) THEN symbols_[i]
                                 ELSE [symbols_[i] EXCEPT !.size = Size(i, offset[i - 1])]],
                 !.offset = offset[n]]
    BY DEF SizeReferences
  <1>3. \A i \in 1 .. n : Numeric(symbols_[i]) /\ SizeOK(symbols_[i])
    BY <1>1 DEF NumericSection, Loaded, SectOK
  <1>4. \A i \in 1 .. n : \A x : Size(i, x) \in Int
    BY <1>3, SizeIsNumber
  <1>4a. \A i \in 1 .. n : \A x : IsRef(symbols_[i]) =>
           Size(i, x) = ReferenceSize(symbols_[i], sect.address + symbols_[i].cursor + x + 1, targets[i])
    OBVIOUS
  <1>4b. \A i \in 1 .. n : \A x : ~IsRef(symbols_[i]) => Size(i, x) = 0
    OBVIOUS
  <1> HIDE DEF n, Size
  <1>5. \A i \in 1 .. n : \A x \in Int : g[<<i, x>>] = x + Size(i, x) /\ g[<<i, x>>] \in Int
    BY <1>4
  <1> HIDE DEF g
  <1>6. PICK f \in [0 .. n -> Int] : Follows(n, 0, g, f)
    <2>1. 0 \in Int /\ \A i \in 1 .. n : \A x \in Int : g[<<i, x>>] \in Int
      BY <1>5
    <2> QED BY <1>1, <2>1, Recursion
  <1>7. P(f)
    <2>1. f = [i \in 0 .. n |-> f[i]]
      BY <1>6
    <2>2. ASSUME NEW i \in 0 .. n PROVE f[i] = IF i = 0 THEN 0 ELSE f[i - 1] + Size(i, f[i - 1])
      <3>1. CASE i = 0
        BY <1>6, <3>1 DEF Follows
      <3>2. CASE i # 0
        <4>1. i \in 1 .. n /\ i - 1 \in 0 .. n
          BY <1>1, <3>2
        <4>2. f[i - 1] \in Int
          BY <1>6, <4>1
        <4> QED BY <1>5, <1>6, <3>2, <4>1, <4>2 DEF Follows
      <3> QED BY <3>1, <3>2
    <2> QED BY <2>1, <2>2
  <1>8. P(offset)
    <2> HIDE DEF P
    <2> QED BY <1>7
  <1> HIDE DEF offset
  <1>9. offset[0] = 0 /\ \A i \in 1 .. n : offset[i] = offset[i - 1] + Size(i, offset[i - 1])
    <2>1. \A i \in 0 .. n : offset[i] = IF i = 0 THEN 0 ELSE offset[i - 1] + Size(i, offset[i - 1])
      BY <1>8
    <2> QED BY <1>1, <2>1
  <1> HIDE DEF P
  <1>10. \A i \in 0 .. n : offset[i] \in Int
    <2>1. offset[0] \in Int
      BY <1>9
    <2>2. ASSUME NEW i \in 1 .. n, offset[i - 1] \in Int PROVE offset[i] \in Int
      BY <1>4, <1>9, <2>2
    <2>3. Passes(n, offset)
      BY <2>1, <2>2 DEF Passes
    <2> QED BY <1>1, <2>3, RecursionType
  <1>11. /\ {"id", "flags", "symbols", "cursor", "address", "offset"} \subseteq DOMAIN new
         /\ new.address = sect.address /\ new.cursor = sect.cursor
         /\ new.symbols = [i \in 1 .. n |->
                             IF ~IsRef(symbols_[i]) THEN symbols_[i]
                             ELSE [symbols_[i] EXCEPT !.size = Size(i, offset[i - 1])]]
    BY <1>1, <1>2 DEF Loaded, SectOK
  <1> HIDE DEF new
  <1>12. ASSUME NEW i \in 1 .. n
         PROVE  /\ new.symbols[i].flags = symbols_[i].flags /\ new.symbols[i].cursor = symbols_[i].cursor
                /\ new.symbols[i].offset = symbols_[i].offset /\ new.symbols[i].address = symbols_[i].address
                /\ new.symbols[i].size = IF IsRef(symbols_[i]) THEN Size(i, offset[i - 1]) ELSE symbols_[i].size
    <2>1. SizeOK(symbols_[i])
      BY <1>3
    <2>2. CASE IsRef(symbols_[i])
      <3>1. new.symbols[i] = [symbols_[i] EXCEPT !.size = Size(i, offset[i - 1])]
        BY <1>11, <2>2
      <3> QED BY <2>1, <2>2, <3>1 DEF SizeOK
    <2>3. CASE ~IsRef(symbols_[i])
      <3>1. new.symbols[i] = symbols_[i]
        BY <1>11, <2>3
      <3> QED BY <2>3, <3>1
    <2> QED BY <2>2, <2>3
  <1>14. DOMAIN new.symbols = 1 .. n /\ Len(new.symbols) = n /\ IsSeq(new.symbols)
    <2>1. DOMAIN new.symbols = 1 .. n
      BY <1>11
    <2>2. new.symbols = [i \in DOMAIN symbols_ |-> new.symbols[i]]
      BY <1>1, <1>11
    <2>3. IsSeq(new.symbols)
      BY <2>2, UpdateSeq DEF Loaded
    <2>4. Len(new.symbols) \in Nat /\ DOMAIN new.symbols = 1 .. Len(new.symbols)
      BY <2>3, SeqIsFunction
    <2> QED BY <1>1, <2>1, <2>3, <2>4
  <1>15. \A i \in 1 .. n : IsRef(new.symbols[i]) <=> IsRef(symbols_[i])
    BY <1>12 DEF IsRef
  <1>16. NumericSection(new)
    <2>1. ASSUME NEW i \in 1 .. n PROVE Numeric(new.symbols[i])
      <3>1. new.symbols[i].size \in Int
        BY <1>3, <1>4, <1>12 DEF Numeric
      <3> QED BY <1>3, <1>12, <1>15, <3>1 DEF Numeric, Ordinary, Has
    <2> QED BY <1>11, <1>14, <2>1 DEF NumericSection
  <1>17. \A i \in 0 .. n : Taken(new)[i] = offset[i]
    <2> DEFINE T == {i \in Nat : i <= n => Taken(new)[i] = offset[i]}
    <2>1. /\ Taken(new)[0] = 0
          /\ \A i \in 1 .. n :
                Taken(new)[i] = Taken(new)[i - 1] + (IF IsRef(new.symbols[i]) THEN new.symbols[i].size ELSE 0)
      <3>1. \A i \in DOMAIN new.symbols : IsRef(new.symbols[i]) => new.symbols[i].size \in Int
        BY <1>16 DEF NumericSection, Numeric
      <3> QED BY <1>14, <3>1, TakenIs
    <2>2. 0 \in T
      BY <1>9, <2>1
    <2>3. ASSUME NEW i \in Nat, i \in T PROVE i + 1 \in T
      <3> SUFFICES ASSUME i + 1 <= n PROVE Taken(new)[i + 1] = offset[i + 1]
        OBVIOUS
      <3>1. i + 1 \in 1 .. n /\ (i + 1) - 1 = i /\ Taken(new)[i] = offset[i]
        BY <1>1, <2>3
      <3>2. Taken(new)[i + 1] = offset[i] + (IF IsRef(symbols_[i + 1]) THEN Size(i + 1, offset[i]) ELSE 0)
        BY <1>12, <1>15, <2>1, <3>1
      <3>3. offset[i + 1] = offset[i] + Size(i + 1, offset[i])
        BY <1>9, <3>1
      <3> QED BY <1>4b, <3>1, <3>2, <3>3
    <2> HIDE DEF T
    <2>4. \A i \in Nat : i \in T
      BY <2>2, <2>3, SetInduction
    <2> QED BY <1>1, <2>4 DEF T
  <1>18. ASSUME NEW i \in 1 .. n PROVE SizedFor(new, sect, i, targets[i])
    <2>1. Taken(new)[i - 1] = offset[i - 1] /\ offset[i - 1] \in Int
      <3>1. i - 1 \in 0 .. n
        BY <1>1
      <3> QED BY <1>10, <1>17, <3>1
    <2>2. Lies(new, i) + 1 = sect.address + symbols_[i].cursor + offset[i - 1] + 1
      BY <1>11, <1>12, <2>1 DEF Lies
    <2>3. IsRef(symbols_[i]) => Size(i, offset[i - 1]) = ReferenceSize(symbols_[i], Lies(new, i) + 1, targets[i])
      BY <1>4a, <2>2
    <2> QED BY <1>12, <2>3 DEF SizedFor
  <1> QED BY <1>1, <1>11, <1>16, <1>18 DEF new

\* All references of a section have been sized.
SizedOnce(sect) ==
    \A i \in DOMAIN sect.symbols :
        /\ Has(sect.symbols[i], "REFERENCE") => sect.symbols[i].size = 4
        /\ Has(sect.symbols[i], "LDABS") \/ Has(sect.symbols[i], "LDPCREL") => sect.symbols[i].size \in 1 .. 6

\* They are after a pass over them.
LEMMA SizingSizes ==
  ASSUME NEW sect, Loaded(sect), NumericSection(sect), NEW targets
  PROVE  SizedOnce(SizeReferences(sect, targets))
  <1> DEFINE new == SizeReferences(sect, targets)
  <1>1. /\ \A i \in DOMAIN sect.symbols : SizedFor(new, sect, i, targets[i])
        /\ Relaxed(sect, new)
    BY SizingIs, SizingRelaxes
  <1> HIDE DEF new
  <1>2. ASSUME NEW i \in DOMAIN sect.symbols
        PROVE  /\ Has(sect.symbols[i], "REFERENCE") => new.symbols[i].size = 4
               /\ Has(sect.symbols[i], "LDABS") \/ Has(sect.symbols[i], "LDPCREL") => new.symbols[i].size \in 1 .. 6
    <2> DEFINE sym == sect.symbols[i]
               addr == Lies(new, i) + 1
    <2>1. SizeOK(sym) /\ Numeric(sym)
      BY DEF Loaded, SectOK, NumericSection
    <2>2. IsRef(sym) => new.symbols[i].size = ReferenceSize(sym, addr, targets[i])
      BY <1>1 DEF SizedFor
    <2> HIDE DEF sym, addr
    <2>3. CASE Has(sym, "REFERENCE")
      <3>1. IsRef(sym) /\ ~Has(sym, "ALIGN") /\ ~Has(sym, "LDABS") /\ ~Has(sym, "LDPCREL")
        BY <2>1, <2>3, IsRefIs DEF Numeric, Ordinary, Kinds
      <3> QED BY <2>1, <2>2, <3>1, ReferenceGrows DEF sym
    <2>4. CASE Has(sym, "LDABS") \/ Has(sym, "LDPCREL")
      <3>1. IsRef(sym) /\ ~Has(sym, "ALIGN") /\ ~Has(sym, "REFERENCE")
        BY <2>1, <2>4, IsRefIs DEF Numeric, Ordinary, Kinds
      <3>2. new.symbols[i].size = ReferenceSize(sym, addr, targets[i])
        BY <2>2, <3>1
      <3> DEFINE chunks == IF Has(sym, "LDABS") THEN ConstantChunks(TargetValue(targets[i], sym))
                           ELSE PcrelChunks(addr, TargetValue(targets[i], sym))
      <3>3. chunks \in 1 .. 6
        BY ConstantChunksType, PcrelChunksType
      <3>4. ReferenceSize(sym, addr, targets[i]) = IF sym.size = 0 THEN 1 ELSE Max({sym.size, chunks})
        BY <3>1 DEF ReferenceSize
      <3> HIDE DEF chunks
      <3>5. sym.size \in 0 .. 6
        BY <2>1, <3>1 DEF SizeOK
      <3>6. CASE sym.size = 0
        BY <3>1, <3>2, <3>4, <3>6 DEF sym
      <3>7. CASE sym.size # 0
        <4>1. Max({sym.size, chunks}) \in sym.size .. 6
          BY <3>3, <3>5, MaxOfTwo
        <4>2. Max({sym.size, chunks}) \in 1 .. 6
          BY <3>5, <3>7, <4>1
        <4> QED BY <3>1, <3>2, <3>4, <3>7, <4>2 DEF sym
      <3> QED BY <3>6, <3>7
    <2> QED BY <2>3, <2>4 DEF sym
  <1>3. SizedOnce(new)
    BY <1>1, <1>2 DEF SizedOnce, Relaxed, Has
  <1> QED BY <1>3 DEF new

\* They stay so.
LEMMA SizedOnceStays ==
  ASSUME NEW sect, NEW new, Loaded(sect), NumericSection(sect), Relaxed(sect, new), SizedOnce(sect)
  PROVE  SizedOnce(new)
  <1> SUFFICES ASSUME NEW i \in DOMAIN sect.symbols
               PROVE  /\ Has(sect.symbols[i], "REFERENCE") => new.symbols[i].size = 4
                      /\ Has(sect.symbols[i], "LDABS") \/ Has(sect.symbols[i], "LDPCREL") => new.symbols[i].size \in 1 .. 6
    BY DEF SizedOnce, Relaxed, Has
  <1> DEFINE sym == sect.symbols[i]
  <1>1. Numeric(sym) /\ SizeOK(new.symbols[i]) /\ new.symbols[i].flags = sym.flags
    BY DEF NumericSection, Relaxed, Loaded, SectOK
  <1>2. /\ Has(sym, "REFERENCE") => sym.size = 4
        /\ Has(sym, "LDABS") \/ Has(sym, "LDPCREL") => sym.size \in 1 .. 6
        /\ Has(sym, "ALIGN") \/ new.symbols[i].size \in sym.size .. 6
    BY DEF SizedOnce, Relaxed
  <1> HIDE DEF sym
  <1>3. Has(sym, "REFERENCE") \/ Has(sym, "LDABS") \/ Has(sym, "LDPCREL") => ~Has(sym, "ALIGN")
    BY <1>1 DEF Numeric, Ordinary, Kinds
  <1>4. Has(sym, "REFERENCE") => new.symbols[i].size = 4
    BY <1>1, <1>2, <1>3 DEF SizeOK, Has
  <1>5. Has(sym, "LDABS") \/ Has(sym, "LDPCREL") => new.symbols[i].size \in 1 .. 6
    BY <1>2, <1>3
  <1> QED BY <1>4, <1>5 DEF sym

\* If nothing has grown, nothing has changed.
LEMMA SettledSame ==
  ASSUME NEW sect, Loaded(sect), NumericSection(sect), SizedOnce(sect), NEW targets, NEW new,
         new = SizeReferences(sect, targets), ~Grown(sect, new)
  PROVE  \A i \in DOMAIN sect.symbols : Numbered(new.symbols[i], sect.symbols[i])
  <1> SUFFICES ASSUME NEW i \in DOMAIN sect.symbols PROVE Numbered(new.symbols[i], sect.symbols[i])
    OBVIOUS
  <1> DEFINE sym == sect.symbols[i]
  <1>1. SizedFor(new, sect, i, targets[i]) /\ Relaxed(sect, new)
    BY SizingIs, SizingRelaxes
  <1>2. Numeric(sym) /\ SizeOK(sym)
    BY DEF NumericSection, Loaded, SectOK
  <1>3. new.symbols[i].size = sym.size
    <2>1. CASE ~IsRef(sym)
      BY <1>1, <2>1 DEF SizedFor
    <2>2. CASE Has(sym, "ALIGN")
      <3>1. IsRef(sym)
        BY <2>2, IsRefIs
      <3> QED BY <1>1, <2>2, <3>1 DEF SizedFor, ReferenceSize
    <2>3. CASE Has(sym, "REFERENCE")
      <3>1. sym.size = 4 /\ IsRef(sym) /\ ~Has(sym, "ALIGN")
        BY <1>2, <2>3, IsRefIs DEF SizedOnce, Numeric, Ordinary, Kinds
      <3> QED BY <1>1, <2>3, <3>1 DEF SizedFor, ReferenceSize
    <2>4. CASE Has(sym, "LDABS") \/ Has(sym, "LDPCREL")
      <3>1. ~Has(sym, "ALIGN") /\ ~Has(sym, "REFERENCE")
        BY <1>2, <2>4 DEF Numeric, Ordinary, Kinds
      <3>2. new.symbols[i].size \in sym.size .. 6 /\ sym.size \in Int
        BY <1>1, <1>2, <3>1 DEF Relaxed, Numeric
      <3>3. ~(new.symbols[i].size > sym.size)
        BY <1>1, <3>1 DEF Grown, Relaxed, Has
      <3> QED BY <3>2, <3>3
    <2> QED BY <2>1, <2>2, <2>3, <2>4, IsRefIs
  <1> QED BY <1>1, <1>3 DEF SizedFor, Numbered

\* What the references take is then the same.
LEMMA SettledTaken ==
  ASSUME NEW sect, NEW new, IsSeq(sect.symbols), IsSeq(new.symbols), DOMAIN new.symbols = DOMAIN sect.symbols,
         NumericSection(sect), NumericSection(new),
         \A i \in DOMAIN sect.symbols : /\ new.symbols[i].size = sect.symbols[i].size
                                        /\ new.symbols[i].flags = sect.symbols[i].flags
  PROVE  \A i \in 0 .. Len(sect.symbols) : Taken(new)[i] = Taken(sect)[i]
  <1> DEFINE n == Len(sect.symbols)
             T == {i \in Nat : i <= n => Taken(new)[i] = Taken(sect)[i]}
  <1>1. n \in Nat /\ DOMAIN sect.symbols = 1 .. n /\ DOMAIN new.symbols = 1 .. n /\ Len(new.symbols) = n
    <2>1. Len(sect.symbols) \in Nat /\ DOMAIN sect.symbols = 1 .. Len(sect.symbols)
      BY SeqIsFunction
    <2>2. Len(new.symbols) \in Nat /\ DOMAIN new.symbols = 1 .. Len(new.symbols)
      BY SeqIsFunction
    <2> QED BY <2>1, <2>2
  <1> HIDE DEF n
  <1>2. /\ Taken(sect)[0] = 0
        /\ \A i \in 1 .. n :
              Taken(sect)[i] = Taken(sect)[i - 1] + (IF IsRef(sect.symbols[i]) THEN sect.symbols[i].size ELSE 0)
    <2>1. \A i \in DOMAIN sect.symbols : IsRef(sect.symbols[i]) => sect.symbols[i].size \in Int
      BY DEF NumericSection, Numeric
    <2> QED BY <1>1, <2>1, TakenIs
  <1>3. /\ Taken(new)[0] = 0
        /\ \A i \in 1 .. n :
              Taken(new)[i] = Taken(new)[i - 1] + (IF IsRef(new.symbols[i]) THEN new.symbols[i].size ELSE 0)
    <2>1. \A i \in DOMAIN new.symbols : IsRef(new.symbols[i]) => new.symbols[i].size \in Int
      BY DEF NumericSection, Numeric
    <2> QED BY <1>1, <2>1, TakenIs
  <1>4. \A i \in 1 .. n : /\ IsRef(new.symbols[i]) <=> IsRef(sect.symbols[i])
                          /\ new.symbols[i].size = sect.symbols[i].size
    BY <1>1 DEF IsRef
  <1>5. 0 \in T
    BY <1>2, <1>3
  <1>6. ASSUME NEW i \in Nat, i \in T PROVE i + 1 \in T
    <2> SUFFICES ASSUME i + 1 <= n PROVE Taken(new)[i + 1] = Taken(sect)[i + 1]
      OBVIOUS
    <2>1. i + 1 \in 1 .. n /\ (i + 1) - 1 = i /\ Taken(new)[i] = Taken(sect)[i]
      BY <1>1, <1>6
    <2> QED BY <1>2, <1>3, <1>4, <2>1
  <1> HIDE DEF T
  <1>7. \A i \in Nat : i \in T
    BY <1>5, <1>6, SetInduction
  <1> QED BY <1>1, <1>7 DEF T, n

\* And so is where the section begins and ends.
LEMMA SettledEnds ==
  ASSUME NEW sect, Loaded(sect), NumericSection(sect), SizedOnce(sect), NEW targets, NEW new,
         new = SizeReferences(sect, targets), ~Grown(sect, new)
  PROVE  new.address = sect.address /\ Ends(new) = Ends(sect)
  <1>1. Relaxed(sect, new) /\ NumericSection(new) /\ new.address = sect.address
    BY SizingIs, SizingRelaxes
  <1>2. \A k \in DOMAIN sect.symbols : Numbered(new.symbols[k], sect.symbols[k])
    BY SettledSame
  <1>3. new.cursor = sect.cursor
    BY DEF SizeReferences, Loaded, SectOK
  <1>4. /\ Len(sect.symbols) \in Nat /\ DOMAIN sect.symbols = 1 .. Len(sect.symbols)
        /\ Len(new.symbols) \in Nat /\ DOMAIN new.symbols = 1 .. Len(new.symbols)
    BY <1>1, SeqIsFunction DEF Loaded, Relaxed
  <1>5. Len(new.symbols) = Len(sect.symbols)
    <2>1. DOMAIN new.symbols = DOMAIN sect.symbols
      BY <1>1 DEF Relaxed
    <2> QED BY <1>4, <2>1
  <1>6. \A k \in 0 .. Len(sect.symbols) : Taken(new)[k] = Taken(sect)[k]
    BY <1>1, <1>2, SettledTaken DEF Loaded, Relaxed, Numbered
  <1>7. Taken(new)[Len(new.symbols)] = Taken(sect)[Len(sect.symbols)]
    BY <1>4, <1>5, <1>6
  <1> QED BY <1>1, <1>3, <1>7 DEF Ends

\* A section that has been laid out and in which then nothing has grown stands.
LEMMA SectionStands ==
  ASSUME NEW sect, Loaded(sect), NumericSection(sect), SizedOnce(sect), LaidOut(sect), sect.address \in Int,
         NEW targets, NEW new, new = SizeReferences(sect, targets), ~Grown(sect, new),
         NEW i \in DOMAIN sect.symbols, TargetValue(targets[i], sect.symbols[i]) \in Int
  PROVE  Stands(new.symbols[i], Lies(new, i), TargetValue(targets[i], sect.symbols[i]))
  <1> DEFINE sym == sect.symbols[i]
             value == TargetValue(targets[i], sym)
             here == Lies(new, i)
  <1>1. /\ SizedFor(new, sect, i, targets[i]) /\ Relaxed(sect, new)
        /\ NumericSection(new) /\ new.address = sect.address
    BY SizingIs, SizingRelaxes
  <1>2. \A k \in DOMAIN sect.symbols : Numbered(new.symbols[k], sect.symbols[k])
    BY SettledSame
  <1>3. Numeric(sym) /\ SizeOK(sym)
    BY DEF NumericSection, Loaded, SectOK
  <1>4. /\ new.symbols[i].flags = sym.flags /\ new.symbols[i].size = sym.size
        /\ new.symbols[i].cursor = sym.cursor /\ new.symbols[i].offset = sym.offset
        /\ new.symbols[i].address = sym.address
    BY <1>1, <1>2 DEF Relaxed, Numbered
  <1>5. i - 1 \in 0 .. Len(sect.symbols) /\ i \in 1 .. Len(sect.symbols)
    <2>1. Len(sect.symbols) \in Nat /\ DOMAIN sect.symbols = 1 .. Len(sect.symbols)
      BY SeqIsFunction DEF Loaded
    <2> QED BY <2>1
  <1>6. Taken(new)[i - 1] = Taken(sect)[i - 1] /\ Taken(sect)[i - 1] \in Int
    <2>1. \A k \in 0 .. Len(sect.symbols) : Taken(new)[k] = Taken(sect)[k]
      BY <1>1, <1>2, SettledTaken DEF Loaded, Relaxed, Numbered
    <2>2. \A k \in 0 .. Len(sect.symbols) : Taken(sect)[k] \in Int
      <3>1. \A k \in DOMAIN sect.symbols : IsRef(sect.symbols[k]) => sect.symbols[k].size \in Int
        BY DEF NumericSection, Numeric
      <3> QED BY <3>1, TakenIs DEF Loaded
    <2> QED BY <1>5, <2>1, <2>2
  <1>7. here = Lies(sect, i) /\ here \in Int
    BY <1>1, <1>3, <1>4, <1>6 DEF Lies, Numeric, Ordinary
  <1>8. /\ Has(sym, "ALIGN") => (here + 1 + sym.size) % sym.offset = 0
        /\ IsRef(sym) \/ Has(sym, "CONSTANT") \/ sym.address = here
    BY <1>7 DEF LaidOut
  <1>9. \A flag : Has(new.symbols[i], flag) <=> Has(sym, flag)
    BY <1>4 DEF Has
  <1>10. /\ Has(sym, "REFERENCE") => sym.size = 4
         /\ Has(sym, "LDABS") \/ Has(sym, "LDPCREL") => sym.size \in 1 .. 6
    BY DEF SizedOnce
  <1>11. Has(sym, "LDABS") \/ Has(sym, "LDPCREL") =>
            IF Has(sym, "LDABS") THEN Fits(value, sym.size) ELSE Fits(value - (here + 1 + sym.size), sym.size)
    <2> SUFFICES ASSUME Has(sym, "LDABS") \/ Has(sym, "LDPCREL")
                 PROVE  IF Has(sym, "LDABS") THEN Fits(value, sym.size)
                        ELSE Fits(value - (here + 1 + sym.size), sym.size)
      OBVIOUS
    <2>1. ReferenceSize(sym, here + 1, targets[i]) = sym.size
      <3>1. IsRef(sym)
        BY IsRefIs
      <3> QED BY <1>1, <1>4, <3>1 DEF SizedFor
    <2> HIDE DEF sym, here
    <2>2. here + 1 \in Int /\ TargetValue(targets[i], sym) \in Int /\ sym.size \in 1 .. 6
      BY <1>7, <1>10 DEF sym
    <2> QED BY <1>3, <2>1, <2>2, SettledFits
  <1> HIDE DEF here, value
  <1>12. sym.size \in Int /\ value \in Int /\ ((here + 1) + sym.size = (here + sym.size) + 1)
    BY <1>3, <1>7 DEF Numeric, value
  <1>13. Has(sym, "LDPCREL") => ~Has(sym, "LDABS")
    BY <1>3 DEF Numeric, Ordinary, Kinds
  <1>14. IsRef(sym) <=> Has(sym, "REFERENCE") \/ Has(sym, "LDABS") \/ Has(sym, "LDPCREL") \/ Has(sym, "ALIGN")
    BY IsRefIs
  <1> HIDE DEF sym
  <1>15. Stands(new.symbols[i], here, value)
    BY <1>4, <1>8, <1>9, <1>10, <1>11, <1>12, <1>13, <1>14 DEF Stands
  <1> QED BY <1>15 DEF here, value, sym

-----------------------------------------------------------------------------
(* What is loaded has numbers in it.                                       *)

\* A section with numbers in it none of whose references has been resolved.
Pristine(sect) == NumericSection(sect) /\ \A i \in DOMAIN sect.symbols : sect.symbols[i].resolve = None

\* A symbol as it is created.
LEMMA SymbolNumeric ==
  ASSUME NEW id, NEW cursor \in Int, NEW flags, NEW offset \in Int,
         Ordinary(Symbol(id, cursor, flags, offset))
  PROVE  Numeric(Symbol(id, cursor, flags, offset)) /\ Symbol(id, cursor, flags, offset).resolve = None
  BY DEF Symbol, Numeric

\* A section may be given such a symbol.
LEMMA AddPristine ==
  ASSUME NEW sect, Loaded(sect), Pristine(sect), NEW sym, Numeric(sym), sym.resolve = None
  PROVE  Pristine(AddSymbol(sect, sym))
  <1>1. AddSymbol(sect, sym).symbols = Append(sect.symbols, sym) /\ AddSymbol(sect, sym).cursor = sect.cursor
    BY DEF Loaded, SectOK, AddSymbol
  <1> QED BY <1>1, AppendIs DEF Loaded, Pristine, NumericSection

\* Definitions may be made global or constants.
LEMMA FlagPristine ==
  ASSUME NEW sect, Loaded(sect), Pristine(sect), NEW id, NEW flags \in {{"GLOBAL"}, {"CONSTANT", "GLOBAL"}}
  PROVE  Pristine(FlagSymbol(sect, id, flags)) /\ FlagSymbol(sect, id, flags).cursor = sect.cursor
  <1> DEFINE one == GetSymbol(sect, id)
             new == FlagSymbol(sect, id, flags)
             k == FindSymbol(one, id)
  <1>1. Loaded(one) /\ Pristine(one) /\ one.cursor = sect.cursor
    <2>1. Ordinary(Symbol(id, -1, {}, 0))
      BY DEF Ordinary, Symbol, Has, IsRef, Kinds
    <2>2. Numeric(Symbol(id, -1, {}, 0)) /\ Symbol(id, -1, {}, 0).resolve = None
      BY <2>1, SymbolNumeric
    <2>3. AddSymbol(sect, Symbol(id, -1, {}, 0)).cursor = sect.cursor
      BY DEF AddSymbol, Loaded, SectOK
    <2> QED BY <2>2, <2>3, AddKeeps, AddPristine, SymbolOK DEF GetSymbol
  <1>2. new = [one EXCEPT !.symbols[k].flags = @ \cup flags]
    BY DEF FlagSymbol
  <1>3. k # 0 => ~IsRef(one.symbols[k])
    BY <1>1, FindIs
  <1>4. 0 \notin DOMAIN one.symbols
    BY <1>1, SeqIsFunction DEF Loaded
  <1> HIDE DEF one, new, k
  <1>5. new.symbols = [one.symbols EXCEPT ![k].flags = @ \cup flags] /\ new.cursor = one.cursor
    BY <1>1, <1>2 DEF Loaded, SectOK
  <1>6. ASSUME NEW i \in DOMAIN one.symbols
        PROVE  Numeric(new.symbols[i]) /\ new.symbols[i].resolve = None
    <2>1. Numeric(one.symbols[i]) /\ SizeOK(one.symbols[i]) /\ one.symbols[i].resolve = None
      BY <1>1 DEF Pristine, NumericSection, Loaded, SectOK
    <2>2. CASE i # k
      BY <1>5, <2>1, <2>2
    <2>3. CASE i = k
      <3>1. new.symbols[i] = [one.symbols[i] EXCEPT !.flags = @ \cup flags]
        BY <1>5, <2>3
      <3>2. /\ new.symbols[i].flags = one.symbols[i].flags \cup flags
            /\ new.symbols[i].cursor = one.symbols[i].cursor /\ new.symbols[i].offset = one.symbols[i].offset
            /\ new.symbols[i].address = one.symbols[i].address /\ new.symbols[i].size = one.symbols[i].size
            /\ new.symbols[i].resolve = one.symbols[i].resolve
        BY <2>1, <3>1 DEF SizeOK
      <3>3. ~IsRef(one.symbols[i])
        BY <1>3, <1>4, <2>3
      <3>4. \A kind \in Kinds : ~Has(new.symbols[i], kind)
        BY <3>2, <3>3 DEF Kinds, IsRef, Has
      <3>5. ~IsRef(new.symbols[i]) /\ ~Has(new.symbols[i], "ALIGN")
        BY <3>4 DEF Kinds, IsRef, Has
      <3>6. Ordinary(new.symbols[i])
        BY <2>1, <3>2, <3>4, <3>5 DEF Ordinary, Numeric
      <3> QED BY <2>1, <3>2, <3>6 DEF Numeric
    <2> QED BY <2>2, <2>3
  <1>7. DOMAIN new.symbols = DOMAIN one.symbols
    BY <1>5
  <1>8. Pristine(new) /\ new.cursor = sect.cursor
    BY <1>1, <1>5, <1>6, <1>7 DEF Pristine, NumericSection
  <1> QED BY <1>8 DEF new

\* They may be put at another place.
LEMMA PlacePristine ==
  ASSUME NEW sect, Loaded(sect), Pristine(sect), NEW id, NEW cursor \in Int
  PROVE  Pristine(PlaceSymbol(sect, id, cursor))
  <1> DEFINE new == PlaceSymbol(sect, id, cursor)
             k == FindSymbol(sect, id)
  <1>1. new = [sect EXCEPT !.symbols[k].cursor = cursor]
    BY DEF PlaceSymbol
  <1> HIDE DEF new, k
  <1>2. new.symbols = [sect.symbols EXCEPT ![k].cursor = cursor] /\ new.cursor = sect.cursor
    BY <1>1 DEF Loaded, SectOK
  <1>3. ASSUME NEW i \in DOMAIN sect.symbols
        PROVE  Numeric(new.symbols[i]) /\ new.symbols[i].resolve = None
    <2>1. Numeric(sect.symbols[i]) /\ SizeOK(sect.symbols[i]) /\ sect.symbols[i].resolve = None
      BY DEF Pristine, NumericSection, Loaded, SectOK
    <2>2. CASE i # k
      BY <1>2, <2>1, <2>2
    <2>3. CASE i = k
      <3>1. new.symbols[i] = [sect.symbols[i] EXCEPT !.cursor = cursor]
        BY <1>2, <2>3
      <3> QED BY <2>1, <3>1 DEF SizeOK, Numeric, Ordinary, IsRef, Has
    <2> QED BY <2>2, <2>3
  <1>4. DOMAIN new.symbols = DOMAIN sect.symbols
    BY <1>2
  <1>5. Pristine(new)
    BY <1>2, <1>3, <1>4 DEF Pristine, NumericSection
  <1> QED BY <1>5 DEF new

\* A section is such when it is loaded.
LEMMA LoadPristine ==
  ASSUME NEW saved, IsSeq(saved.symbols), saved.cursor \in Int,
         \A k \in DOMAIN saved.symbols : Ordinary(saved.symbols[k])
  PROVE  Pristine(LoadSection(saved))
  <1> DEFINE new == LoadSection(saved)
  <1>1. /\ new.symbols = [i \in DOMAIN saved.symbols |-> LoadSymbol(saved.symbols[i])]
        /\ new.cursor = saved.cursor
    BY DEF LoadSection, Section
  <1> HIDE DEF new
  <1>2. ASSUME NEW i \in DOMAIN saved.symbols
        PROVE  Numeric(LoadSymbol(saved.symbols[i])) /\ LoadSymbol(saved.symbols[i]).resolve = None
    <2> DEFINE sym == saved.symbols[i]
               loaded == Symbol(sym.id, sym.cursor, sym.flags, sym.offset)
    <2>1. Ordinary(sym) /\ sym.cursor \in Int /\ sym.offset \in Int
      BY DEF Ordinary
    <2>2. loaded.cursor = sym.cursor /\ loaded.offset = sym.offset /\ loaded.flags = sym.flags
      BY DEF Symbol
    <2> HIDE DEF sym
    <2>3. Ordinary(loaded)
      <3> HIDE DEF loaded
      <3> QED BY <2>1, <2>2 DEF Ordinary, IsRef, Has
    <2> QED BY <2>1, <2>3, SymbolNumeric DEF LoadSymbol, sym
  <1>3. Pristine(new)
    BY <1>1, <1>2 DEF Pristine, NumericSection
  <1> QED BY <1>3 DEF new

\* So are the sections of the linker's own.
LEMMA BuiltinPristine ==
  ASSUME NEW id, NEW flag, NEW align \in {0, 4}
  PROVE  Pristine(AddBuiltin(id, flag, align))
  <1> DEFINE sect == Section(id, {flag})
             sym == Symbol("algn", sect.cursor - 1, {"ALIGN"}, align)
  <1>1. Loaded(sect) /\ Pristine(sect) /\ sect.cursor = 0
    <2>1. /\ sect.symbols = <<>> /\ {"id", "flags", "symbols", "cursor", "address", "offset"} \subseteq DOMAIN sect
          /\ sect.cursor = 0
      BY DEF Section
    <2>2. IsSeq(sect.symbols) /\ DOMAIN sect.symbols = {}
      <3>1. <<>> \in Seq({}) /\ DOMAIN <<>> = {}
        OBVIOUS
      <3> QED BY <2>1, <3>1 DEF IsSeq
    <2> HIDE DEF sect
    <2> QED BY <2>1, <2>2 DEF Loaded, SectOK, Pristine, NumericSection
  <1>2. ASSUME NEW x, Loaded(x), Pristine(x) PROVE Pristine(DeclareSymbol(x, id, {"GLOBAL"}))
    <2>1. Loaded(FlagSymbol(x, id, {"GLOBAL"})) /\ Pristine(FlagSymbol(x, id, {"GLOBAL"}))
      BY <1>2, FlagKeeps, FlagPristine
    <2>2. x.cursor \in Int
      BY <1>2 DEF Pristine, NumericSection
    <2> QED BY <2>1, <2>2, PlacePristine DEF DeclareSymbol
  <1>3. CASE align = 0
    BY <1>1, <1>2, <1>3 DEF AddBuiltin
  <1>4. CASE align # 0
    <2>1. align = 4 /\ sect.cursor - 1 = -1
      BY <1>1, <1>4
    <2>0. PowerOfTwo(align)
      BY <2>1 DEF PowerOfTwo
    <2>2. Ordinary(sym)
      BY <2>0, <2>1 DEF Symbol, Ordinary, Has, IsRef, Kinds
    <2>3. SizeOK(sym)
      BY SymbolOK
    <2>4. Numeric(sym) /\ sym.resolve = None
      BY <2>1, <2>2, SymbolNumeric
    <2>5. Align(sect, align) = AddSymbol(sect, sym)
      BY DEF Align
    <2>6. AddBuiltin(id, flag, align) = DeclareSymbol(AddSymbol(sect, sym), id, {"GLOBAL"})
      BY <1>4, <2>5 DEF AddBuiltin
    <2> HIDE DEF sect, sym
    <2>7. Loaded(AddSymbol(sect, sym)) /\ Pristine(AddSymbol(sect, sym))
      BY <1>1, <2>3, <2>4, AddKeeps, AddPristine
    <2> QED BY <1>2, <2>6, <2>7
  <1> QED BY <1>3, <1>4

\* All of them.
LEMMA SectionMapPristine ==
  ASSUME NEW reloc
  PROVE  \A s \in DOMAIN SectionMap(reloc) : Pristine(SectionMap(reloc)[s])
  <1> DEFINE ids == {"__ctors_start__", "__ctors_end__", "__dtors_start__", "__dtors_end__",
                     "__reloctable__", "__bss_start__", "__bss_end__"}
             X == {AddBuiltin(id, flag, align) : id \in ids, flag \in {"CTOR", "DTOR", "BSS"},
                                                 align \in {0, 4}}
  <1>1. SectionMap(reloc) \in Seq(X)
    <2>1. \A id \in ids, flag \in {"CTOR", "DTOR", "BSS"}, align \in {0, 4} :
             AddBuiltin(id, flag, align) \in X
      OBVIOUS
    <2> HIDE DEF X
    <2>2. <<AddBuiltin("__ctors_start__", "CTOR", 0), AddBuiltin("__ctors_end__", "CTOR", 0),
            AddBuiltin("__dtors_start__", "DTOR", 0), AddBuiltin("__dtors_end__", "DTOR", 0)>> \in Seq(X)
      BY <2>1
    <2>3. <<AddBuiltin("__reloctable__", "BSS", 0)>> \in Seq(X) /\ <<>> \in Seq(X)
      BY <2>1
    <2>4. <<AddBuiltin("__bss_start__", "BSS", 4), AddBuiltin("__bss_end__", "BSS", 4)>> \in Seq(X)
      BY <2>1
    <2> QED BY <2>2, <2>3, <2>4 DEF SectionMap
  <1>2. \A s \in DOMAIN SectionMap(reloc) : SectionMap(reloc)[s] \in X
    <2> HIDE DEF X
    <2> QED BY <1>1
  <1>3. \A x \in X : Pristine(x)
    BY BuiltinPristine
  <1> QED BY <1>2, <1>3

\* So is everything that has been loaded, whatever constants have been declared.
NumbersInv ==
    /\ "constants" \in DOMAIN opts /\ opts.declared \in Nat /\ IsSeq(opts.constants)
    /\ \A o \in DOMAIN opts.loaded : \A s \in DOMAIN opts.loaded[o] : Pristine(opts.loaded[o][s])

\* An option adds a constant to the list or leaves it alone.
LEMMA SetConstants ==
  ASSUME LoadedInv, NumbersInv, NEW o, NEW arg
  PROVE  /\ Set(o, arg).declared = opts.declared
         /\ Set(o, arg).constants = opts.constants \/ Set(o, arg).constants = Append(opts.constants, arg)
  BY DEF LoadedInv, NumbersInv, Set

\* Every step keeps it so.
LEMMA NextNumbers == LoadedInv /\ ObjectFiles /\ Numbers /\ NumbersInv /\ [LinkNext]_linkvars => NumbersInv'
  <1> SUFFICES ASSUME LoadedInv, ObjectFiles, Numbers, NumbersInv, [LinkNext]_linkvars PROVE NumbersInv'
    OBVIOUS
  <1> DEFINE Listed == /\ DOMAIN opts' = DOMAIN opts
                       /\ opts'.declared \in Nat /\ IsSeq(opts'.constants)
  <1>1. CASE LinkArgument
    <2> DEFINE Same == opts'.loaded = opts.loaded /\ Listed
    <2>1. ASSUME Same PROVE NumbersInv'
      BY <2>1 DEF NumbersInv
    <2>2. \/ Same
          \/ \E name \in DOMAIN disk : opts' = [opts EXCEPT !.loaded = LoadObject(name)]
      <3>1. CASE Head(argl)[1] = "opt"
        <4>1. opts' = [opts EXCEPT !.locals = @ \/ Head(argl)[2] = "-M",
                                   !.reloc = @ \/ Head(argl)[2] = "-r"]
          BY <1>1, <3>1, Zenon DEF LinkArgument
        <4> QED BY <4>1 DEF LoadedInv, NumbersInv
      <3>2. Head(argl)[1] # "opt" => \/ opts' = Set(Waiting[1], Head(argl)[2])
                                     \/ UNCHANGED opts
                                     \/ \E name \in DOMAIN disk :
                                           opts' = [opts EXCEPT !.loaded = LoadObject(name)]
        BY <1>1 DEF LinkArgument
      <3>3. ASSUME opts' = Set(Waiting[1], Head(argl)[2]) PROVE Same
        <4> DEFINE arg == Head(argl)[2]
                   new == Set(Waiting[1], arg)
        <4>1. new.loaded = opts.loaded /\ DOMAIN new = DOMAIN opts
          BY SetKeeps
        <4>2. /\ new.declared = opts.declared
              /\ new.constants = opts.constants \/ new.constants = Append(opts.constants, arg)
          BY SetConstants
        <4> HIDE DEF arg, new
        <4>3. IsSeq(new.constants)
          <5>1. IsSeq(opts.constants)
            BY DEF NumbersInv
          <5>2. IsSeq(Append(opts.constants, arg))
            BY <5>1, AppendIs
          <5> QED BY <4>2, <5>1, <5>2
        <4>4. opts' = new
          BY <3>3 DEF new, arg
        <4> QED BY <4>1, <4>2, <4>3, <4>4 DEF NumbersInv
      <3>4. CASE UNCHANGED opts
        BY <3>4 DEF NumbersInv
      <3> QED BY <3>1, <3>2, <3>3, <3>4
    <2>3. ASSUME NEW name \in DOMAIN disk, opts' = [opts EXCEPT !.loaded = LoadObject(name)]
          PROVE  NumbersInv'
      <3> DEFINE new == [i \in DOMAIN disk[name] |-> LoadSection(disk[name][i])]
      <3>1. /\ opts'.loaded = Append(opts.loaded, new) /\ DOMAIN opts' = DOMAIN opts
            /\ opts'.declared = opts.declared /\ opts'.constants = opts.constants
        BY <2>3 DEF LoadedInv, NumbersInv, LoadObject
      <3>2. \A s \in DOMAIN new : Pristine(new[s])
        <4> SUFFICES ASSUME NEW s \in DOMAIN disk[name] PROVE Pristine(LoadSection(disk[name][s]))
          OBVIOUS
        <4>1. IsSeq(disk[name][s].symbols)
          BY DEF ObjectFiles, IsSeq
        <4>2. disk[name][s].cursor \in Int /\ \A k \in DOMAIN disk[name][s].symbols : Ordinary(disk[name][s].symbols[k])
          BY DEF Numbers
        <4> QED BY <4>1, <4>2, LoadPristine
      <3>3. IsSeq(opts.loaded)
        BY DEF LoadedInv
      <3> HIDE DEF new
      <3> QED BY <3>1, <3>2, <3>3, AppendIs DEF NumbersInv
    <2> QED BY <2>1, <2>2, <2>3
  <1>2. CASE DeclareNext
    <2> DEFINE c == opts.constants[opts.declared + 1]
               sect == opts.loaded[1][1]
               flagged == FlagSymbol(sect, c[1], {"CONSTANT", "GLOBAL"})
               new == DeclareConstant(sect, c[1], c[2], "GLOBAL")
    <2>1. /\ opts'.loaded = [opts.loaded EXCEPT ![1][1] = new] /\ DOMAIN opts' = DOMAIN opts
          /\ opts'.declared = opts.declared + 1 /\ opts'.constants = opts.constants
      BY <1>2 DEF DeclareNext, LoadedInv, NumbersInv
    <2>2. opts.declared + 1 \in DOMAIN opts.constants
      <3>1. Len(opts.constants) \in Nat /\ DOMAIN opts.constants = 1 .. Len(opts.constants)
        BY SeqIsFunction DEF NumbersInv
      <3>2. opts.declared \in Nat /\ opts.declared < Len(opts.constants)
        BY <1>2 DEF NumbersInv, DeclareNext
      <3> QED BY <3>1, <3>2
    <2>3. c[2] \in Int
      BY <2>2 DEF Numbers
    <2>4. 1 \in DOMAIN opts.loaded /\ 1 \in DOMAIN opts.loaded[1] => Pristine(new)
      <3> SUFFICES ASSUME 1 \in DOMAIN opts.loaded, 1 \in DOMAIN opts.loaded[1] PROVE Pristine(new)
        OBVIOUS
      <3>1. Loaded(sect) /\ Pristine(sect)
        BY DEF LoadedInv, Fresh, NumbersInv
      <3> HIDE DEF sect, c
      <3>2. Loaded(flagged) /\ Pristine(flagged)
        BY <3>1, FlagKeeps, FlagPristine
      <3> QED BY <2>3, <3>2, PlacePristine DEF DeclareConstant
    <2> HIDE DEF new
    <2>5. /\ DOMAIN opts'.loaded = DOMAIN opts.loaded
          /\ \A o \in DOMAIN opts.loaded : \A s \in DOMAIN opts'.loaded[o] :
                /\ s \in DOMAIN opts.loaded[o]
                /\ opts'.loaded[o][s] = IF o = 1 /\ s = 1 THEN new ELSE opts.loaded[o][s]
      BY <2>1
    <2>6. \A o \in DOMAIN opts.loaded : \A s \in DOMAIN opts.loaded[o] : Pristine(opts.loaded[o][s])
      BY DEF NumbersInv
    <2>7. \A o \in DOMAIN opts'.loaded : \A s \in DOMAIN opts'.loaded[o] : Pristine(opts'.loaded[o][s])
      BY <2>4, <2>5, <2>6
    <2>8. opts'.declared \in Nat /\ IsSeq(opts'.constants) /\ "constants" \in DOMAIN opts'
      BY <2>1 DEF NumbersInv
    <2> QED BY <2>7, <2>8 DEF NumbersInv
  <1>3. CASE ResolveOne
    <2>1. /\ opts'.loaded = opts.loaded /\ DOMAIN opts' = DOMAIN opts
          /\ opts'.declared = opts.declared /\ opts'.constants = opts.constants
      BY <1>3 DEF ResolveOne, LoadedInv, NumbersInv
    <2> QED BY <2>1 DEF NumbersInv
  <1>4. CASE UNCHANGED opts
    BY <1>4 DEF NumbersInv
  <1> QED BY <1>1, <1>2, <1>3, <1>4 DEF LinkNext, Link, PassSymbol, SectionResolved, ResolveCdtor,
          Unresolved, Populate, AssignAll, SizeAll, Save, linkvars

-----------------------------------------------------------------------------
(* What stays true of the executable.                                      *)

\* Its sections have numbers in them.
ExeNumeric == \A p \in Places : NumericSection(At(p))

\* A reference means a definition of some section, or nothing yet.
Means(r) == r = None \/ \E id : Defines(r, id)

Meaningful == \A p \in Places : \A i \in DOMAIN At(p).symbols : Means(At(p).symbols[i].resolve)

\* The places in the map are places of sections.
EntriesOK == IsSeq(entries) /\ Range(entries) \subseteq Places /\ Distinct(entries)

EntriesInv == phase \in {"assign", "size", "save", "saved"} => EntriesOK

\* What is meant stays meant.
LEMMA MeansStays ==
  ASSUME ExeOK, NEW t, Shaped(t), NEW r, Means(r)
  PROVE  Means(r)'
  <1>1. CASE r = None
    BY <1>1 DEF Means
  <1>2. CASE r # None
    <2>1. PICK id : Defines(r, id)
      BY <1>2 DEF Means
    <2>2. Defines(r, id)'
      BY <2>1, DefinesStays
    <2> QED BY <2>2 DEF Means
  <1> QED BY <1>1, <1>2

\* Resolving a reference changes no numbers.
LEMMA ResolvedNumeric ==
  ASSUME ExeOK, ExeNumeric, Meaningful, NEW at, NEW r, NEW t, ExeResolved(at, r, t), Means(r)
  PROVE  ExeNumeric' /\ Meaningful'
  <1>1. Shaped(t) /\ Places' = Places
    BY ResolvedShape, ShapeKeeps
  <1>2. ASSUME NEW p \in Places PROVE NumericSection(At(p)')
    <2>1. p[1] \in DOMAIN exe /\ p[2] \in DOMAIN exe[p[1]] /\ NumericSection(At(p))
      BY PlacesAre DEF ExeNumeric
    <2>2. /\ At(p)'.cursor = At(p).cursor /\ DOMAIN At(p)'.symbols = DOMAIN At(p).symbols
          /\ \A i \in DOMAIN At(p).symbols :
                /\ At(p)'.symbols[i].flags = At(p).symbols[i].flags
                /\ Numbered(At(p)'.symbols[i], At(p).symbols[i])
      BY <2>1 DEF ExeResolved, At
    <2> DEFINE old == At(p)
               new == At(p)'
    <2>3. ASSUME NEW i \in DOMAIN old.symbols PROVE Numeric(new.symbols[i])
      <3>1. Numeric(old.symbols[i])
        BY <2>1 DEF NumericSection
      <3>2. new.symbols[i].flags = old.symbols[i].flags /\ Numbered(new.symbols[i], old.symbols[i])
        BY <2>2
      <3> HIDE DEF new, old
      <3> QED BY <3>1, <3>2 DEF Numeric, Ordinary, Numbered, IsRef, Has
    <2> QED BY <2>1, <2>2, <2>3 DEF NumericSection
  <1>3. ASSUME NEW p \in Places, NEW i \in DOMAIN At(p).symbols PROVE Means(At(p).symbols[i].resolve)'
    <2>1. p[1] \in DOMAIN exe /\ p[2] \in DOMAIN exe[p[1]]
      BY PlacesAre
    <2>2. At(p)'.symbols[i].resolve = At(p).symbols[i].resolve \/ At(p)'.symbols[i].resolve = r
      BY <2>1 DEF ExeResolved, At
    <2>3. Means(At(p).symbols[i].resolve)
      BY DEF Meaningful
    <2>4. \A x : Means(x) => Means(x)'
      BY <1>1, MeansStays
    <2>5. CASE At(p)'.symbols[i].resolve = r
      <3>1. Means(r)'
        BY <2>4
      <3> QED BY <2>5, <3>1 DEF Means
    <2>6. CASE At(p)'.symbols[i].resolve = At(p).symbols[i].resolve
      <3> DEFINE x == At(p).symbols[i].resolve
      <3>1. Means(x) /\ At(p)'.symbols[i].resolve = x
        BY <2>3, <2>6
      <3>2. PICK y : y = x
        OBVIOUS
      <3>3. Means(y)' /\ At(p)'.symbols[i].resolve = y
        BY <2>4, <3>1, <3>2
      <3> QED BY <3>3 DEF Means
    <2> QED BY <2>2, <2>5, <2>6
  <1>4. \A p \in Places : DOMAIN At(p)'.symbols = DOMAIN At(p).symbols
    BY <1>1, ShapeKeeps
  <1> QED BY <1>1, <1>2, <1>3, <1>4 DEF ExeNumeric, Meaningful

\* Sizes and addresses change no meaning.
LEMMA RelaxedMeaningful ==
  ASSUME ExeOK, Meaningful, ExeRelaxed
  PROVE  Meaningful'
  <1>1. Shaped(None) /\ Places' = Places
    BY RelaxedShape, ShapeKeeps
  <1>2. ASSUME NEW p \in Places, NEW i \in DOMAIN At(p).symbols PROVE Means(At(p).symbols[i].resolve)'
    <2>1. p[1] \in DOMAIN exe /\ p[2] \in DOMAIN exe[p[1]]
      BY PlacesAre
    <2>2. PICK y : y = At(p).symbols[i].resolve
      OBVIOUS
    <2>3. At(p)'.symbols[i].resolve = y
      BY <2>1, <2>2 DEF ExeRelaxed, Relaxed, At
    <2>4. Means(y)
      BY <2>2 DEF Meaningful
    <2>5. Means(y)'
      BY <1>1, <2>4, MeansStays
    <2> QED BY <2>3, <2>5 DEF Means
  <1>3. \A p \in Places : DOMAIN At(p)'.symbols = DOMAIN At(p).symbols
    BY <1>1, ShapeKeeps
  <1> QED BY <1>1, <1>2, <1>3 DEF Meaningful

\* What sizing does, place by place.
LEMMA SizedIs ==
  ASSUME ExeOK, NEW places, exe' = Sized(places), NEW p \in Places
  PROVE  At(p)' = IF p \in Range(places) THEN SizesFor(p) ELSE At(p)
  <1>1. p = <<p[1], p[2]>> /\ p[1] \in DOMAIN exe /\ p[2] \in DOMAIN exe[p[1]]
    BY PlacesAre
  <1> QED BY <1>1 DEF Sized, At

\* Sizing changes no other numbers.
LEMMA SizedNumeric ==
  ASSUME ExeOK, ExeNumeric, NEW places, exe' = Sized(places)
  PROVE  ExeNumeric'
  <1>1. Shaped(None) /\ Places' = Places
    BY SizedRelaxes, RelaxedShape, ShapeKeeps
  <1>2. ASSUME NEW p \in Places PROVE NumericSection(At(p)')
    <2>1. Loaded(At(p)) /\ NumericSection(At(p))
      BY PlacesAre DEF ExeNumeric
    <2>2. NumericSection(SizesFor(p))
      BY <2>1, SizingIs DEF SizesFor
    <2> QED BY <2>1, <2>2, SizedIs
  <1> QED BY <1>1, <1>2 DEF ExeNumeric

\* After it the references of the sections in the map have been sized.
LEMMA SizedSizes ==
  ASSUME ExeOK, ExeNumeric, NEW places, exe' = Sized(places), NEW p \in Places, p \in Range(places)
  PROVE  SizedOnce(At(p)')
  <1>1. Loaded(At(p)) /\ NumericSection(At(p))
    BY PlacesAre DEF ExeNumeric
  <1>2. SizedOnce(SizesFor(p))
    BY <1>1, SizingSizes DEF SizesFor
  <1> QED BY <1>2, SizedIs

\* The sections begin at numbers, one after the other.
LEMMA BasesAre ==
  ASSUME ExeOK, ExeNumeric, EntriesOK, Numbers
  PROVE  \A k \in DOMAIN entries :
            /\ Bases[k] \in Int
            /\ Bases[k] = IF entries[k] = Builtin("__bss_start__") /\ opts.bss > 0 THEN opts.bss
                          ELSE IF k = 1 THEN opts.base
                          ELSE EndOf(AssignAddresses(At(entries[k - 1]), Bases[k - 1]))
  <1> DEFINE n == Len(entries)
             Base(k, before) ==
                 IF entries[k] = Builtin("__bss_start__") /\ opts.bss > 0 THEN opts.bss
                 ELSE IF k = 1 THEN opts.base
                 ELSE EndOf(AssignAddresses(At(entries[k - 1]), before))
             P(b) == b = [k \in DOMAIN entries |-> Base(k, b[k - 1])]
             g == [kx \in (1 .. n) \X Int |-> Base(kx[1], kx[2])]
             bases == Bases
  <1>1. n \in Nat /\ DOMAIN entries = 1 .. n
    BY SeqIsFunction DEF EntriesOK
  <1>2. bases = CHOOSE b : P(b)
    BY DEF Bases
  <1>3. ASSUME NEW k \in 1 .. n, NEW x \in Int PROVE Base(k, x) \in Int
    <2>1. CASE k = 1
      BY <2>1 DEF Numbers
    <2>2. CASE k # 1
      <3>1. k - 1 \in 1 .. n
        BY <1>1, <2>2
      <3>2. entries[k - 1] \in Places
        BY <1>1, <3>1 DEF EntriesOK, Range
      <3>3. Loaded(At(entries[k - 1])) /\ NumericSection(At(entries[k - 1]))
        BY <3>2, PlacesAre DEF ExeNumeric
      <3>4. EndOf(AssignAddresses(At(entries[k - 1]), x)) \in Int
        BY <3>3, AssigningLaysOut
      <3> QED BY <2>2, <3>4 DEF Numbers
    <2> QED BY <2>1, <2>2
  <1>4. \A x, y : Base(1, x) = Base(1, y)
    OBVIOUS
  <1>4a. \A x : Base(1, x) \in Int
    BY DEF Numbers
  <1> HIDE DEF n, Base, bases
  <1>5. \A k \in 1 .. n : \A x \in Int : g[<<k, x>>] = Base(k, x) /\ g[<<k, x>>] \in Int
    BY <1>3
  <1> HIDE DEF g
  <1>6. PICK f \in [0 .. n -> Int] : Follows(n, 0, g, f)
    <2>1. 0 \in Int /\ \A k \in 1 .. n : \A x \in Int : g[<<k, x>>] \in Int
      BY <1>5
    <2> QED BY <1>1, <2>1, Recursion
  <1> DEFINE b == [k \in 1 .. n |-> f[k]]
  <1>7. P(b)
    <2>1. b = [k \in DOMAIN entries |-> b[k]]
      BY <1>1
    <2>2. ASSUME NEW k \in 1 .. n PROVE b[k] = Base(k, b[k - 1])
      <3>1. b[k] = Base(k, f[k - 1])
        <4>1. k - 1 \in 0 .. n
          BY <1>1
        <4>2. f[k - 1] \in Int
          BY <1>6, <4>1
        <4> QED BY <1>5, <1>6, <4>2 DEF Follows
      <3>2. CASE k = 1
        <4> HIDE DEF b
        <4> QED BY <1>4, <3>1, <3>2
      <3>3. CASE k # 1
        <4>1. k - 1 \in 1 .. n
          BY <1>1, <3>3
        <4>2. b[k - 1] = f[k - 1]
          BY <4>1
        <4> HIDE DEF b
        <4> QED BY <3>1, <4>2
      <3> QED BY <3>2, <3>3
    <2> HIDE DEF b
    <2> QED BY <1>1, <2>1, <2>2
  <1>8. P(bases)
    <2> HIDE DEF P, b
    <2> QED BY <1>2, <1>7
  <1>9. \A k \in 1 .. n : bases[k] = Base(k, bases[k - 1])
    BY <1>1, <1>8
  <1> HIDE DEF P
  <1> DEFINE h == [k \in 0 .. n |-> IF k = 0 THEN 0 ELSE bases[k]]
  <1>10. Passes(n, h)
    <2>1. h[0] \in Int
      BY <1>1
    <2>2. ASSUME NEW k \in 1 .. n, h[k - 1] \in Int PROVE h[k] \in Int
      <3>1. h[k] = Base(k, bases[k - 1])
        BY <1>1, <1>9
      <3>2. CASE k = 1
        <4> HIDE DEF h
        <4> QED BY <1>4a, <3>1, <3>2
      <3>3. CASE k # 1
        <4>1. k - 1 \in 1 .. n
          BY <1>1, <3>3
        <4>2. h[k - 1] = bases[k - 1]
          BY <4>1
        <4> HIDE DEF h
        <4> QED BY <1>3, <2>2, <3>1, <4>2
      <3> QED BY <3>2, <3>3
    <2> HIDE DEF h
    <2> QED BY <2>1, <2>2 DEF Passes
  <1>11. \A k \in 0 .. n : h[k] \in Int
    <2> HIDE DEF h
    <2> QED BY <1>1, <1>10, RecursionType
  <1>12. ASSUME NEW k \in 1 .. n PROVE bases[k] \in Int
    <2>1. k \in 0 .. n /\ k # 0
      BY <1>1
    <2>2. h[k] = bases[k] /\ h[k] \in Int
      BY <1>11, <2>1
    <2> QED BY <2>2
  <1> QED BY <1>1, <1>9, <1>12 DEF bases, Base

\* What assigning addresses does, place by place.
LEMMA AssignedIs ==
  ASSUME ExeOK, ExeNumeric, EntriesOK, Numbers, AssignAll, phase' = "size", NEW p \in Places
  PROVE  IF p \in Range(entries) THEN \E base \in Int : At(p)' = AssignAddresses(At(p), base)
         ELSE At(p)' = At(p)
  <1> DEFINE K(o, s) == CHOOSE k \in DOMAIN entries : entries[k] = <<o, s>>
             base == Bases
             k == K(p[1], p[2])
  <1>1. p = <<p[1], p[2]>> /\ p[1] \in DOMAIN exe /\ p[2] \in DOMAIN exe[p[1]]
    BY PlacesAre
  <1>2. exe' = [o \in DOMAIN exe |-> [s \in DOMAIN exe[o] |->
                  IF <<o, s>> \in Range(entries) THEN AssignAddresses(At(entries[K(o, s)]), base[K(o, s)])
                  ELSE exe[o][s]]]
    BY DEF AssignAll
  <1>3. p \in Range(entries) => k \in DOMAIN entries /\ entries[k] = p
    <2> SUFFICES ASSUME p \in Range(entries) PROVE k \in DOMAIN entries /\ entries[k] = p
      OBVIOUS
    <2>1. \E j \in DOMAIN entries : entries[j] = <<p[1], p[2]>>
      BY <1>1 DEF Range
    <2> QED BY <1>1, <2>1
  <1> HIDE DEF base, K
  <1>4. At(p)' = IF p \in Range(entries) THEN AssignAddresses(At(entries[k]), base[k]) ELSE At(p)
    BY <1>1, <1>2 DEF At
  <1>5. p \in Range(entries) => base[k] \in Int
    BY <1>3, BasesAre DEF base
  <1> HIDE DEF k
  <1> QED BY <1>3, <1>4, <1>5

\* A section that is in the map once gets the address of its place in it.
LEMMA AssignedOnce ==
  ASSUME ExeOK, EntriesOK, AssignAll, phase' = "size", NEW k \in DOMAIN entries, NEW p, p = entries[k]
  PROVE  At(p)' = AssignAddresses(At(p), Bases[k])
  <1> DEFINE K(o, s) == CHOOSE j \in DOMAIN entries : entries[j] = <<o, s>>
             base == Bases
  <1>1. p \in Range(entries) /\ p = <<p[1], p[2]>> /\ p[1] \in DOMAIN exe /\ p[2] \in DOMAIN exe[p[1]]
    <2>1. p \in Range(entries)
      BY DEF Range
    <2> QED BY <2>1, PlacesAre DEF EntriesOK
  <1>2. exe' = [o \in DOMAIN exe |-> [s \in DOMAIN exe[o] |->
                  IF <<o, s>> \in Range(entries) THEN AssignAddresses(At(entries[K(o, s)]), base[K(o, s)])
                  ELSE exe[o][s]]]
    BY DEF AssignAll
  <1>3. K(p[1], p[2]) = k
    <2>1. entries[k] = <<p[1], p[2]>>
      BY <1>1
    <2>2. entries[K(p[1], p[2])] = entries[k] /\ K(p[1], p[2]) \in DOMAIN entries
      BY <2>1
    <2> HIDE DEF K
    <2> QED BY <2>2 DEF EntriesOK, Distinct
  <1> HIDE DEF base, K
  <1>4. At(p)' = AssignAddresses(At(entries[K(p[1], p[2])]), base[K(p[1], p[2])])
    BY <1>1, <1>2 DEF At
  <1> QED BY <1>3, <1>4 DEF base

-----------------------------------------------------------------------------
(* The steps.                                                              *)

\* A section is put where it is said to be.
LEMMA AssignedBase ==
  ASSUME NEW sect, Loaded(sect), NEW base
  PROVE  AssignAddresses(sect, base).address = base
  BY DEF AssignAddresses, Loaded, SectOK

\* Assigning addresses lays out the sections in the map.
LEMMA AssignedLaysOut ==
  ASSUME ExeOK, ExeNumeric, EntriesOK, Numbers, AssignAll
  PROVE  /\ ExeNumeric'
         /\ phase' = "size" => \A p \in Range(entries) : LaidOut(At(p)') /\ At(p)'.address \in Int
  <1>1. CASE phase' = "size"
    <2>1. Places' = Places
      BY AssignedRelaxes, RelaxedShape, ShapeKeeps
    <2>2. ASSUME NEW p \in Places
          PROVE  /\ NumericSection(At(p)')
                 /\ p \in Range(entries) => LaidOut(At(p)') /\ At(p)'.address \in Int
      <3>1. Loaded(At(p)) /\ NumericSection(At(p))
        BY PlacesAre DEF ExeNumeric
      <3>2. CASE p \notin Range(entries)
        BY <1>1, <3>1, <3>2, AssignedIs
      <3>3. CASE p \in Range(entries)
        <4>1. PICK base \in Int : At(p)' = AssignAddresses(At(p), base)
          BY <1>1, <3>3, AssignedIs
        <4> QED BY <3>1, <4>1, AssigningLaysOut, AssignedBase
      <3> QED BY <3>2, <3>3
    <2>3. Range(entries) \subseteq Places
      BY DEF EntriesOK
    <2> QED BY <2>1, <2>2, <2>3 DEF ExeNumeric
  <1>2. CASE phase' # "size"
    <2>1. UNCHANGED exe
      BY <1>2 DEF AssignAll
    <2>2. Places' = Places /\ \A p : At(p)' = At(p)
      BY <2>1 DEF Places, Builtins, Sections, At
    <2> QED BY <1>2, <2>2 DEF ExeNumeric
  <1> QED BY <1>1, <1>2

\* Nothing has been resolved when linking begins.
LEMMA LinkNumeric ==
  ASSUME LoadedInv, NumbersInv, Link
  PROVE  ExeNumeric' /\ Meaningful'
  <1>1. /\ ExeOK' /\ exe'[0] = SectionMap(opts.reloc) /\ 0 \in DOMAIN exe'
        /\ \A o \in DOMAIN exe' : \A s \in DOMAIN exe'[o] :
              o = 0 \/ (o \in DOMAIN opts.loaded /\ s \in DOMAIN opts.loaded[o] /\
                 exe'[o][s] = IF o = 1 /\ s = 1 THEN Touched(opts.loaded[o][s]) ELSE opts.loaded[o][s])
    BY LinkIs
  <1>2. ASSUME NEW o \in DOMAIN exe', NEW s \in DOMAIN exe'[o]
        PROVE  /\ NumericSection(exe'[o][s])
               /\ \A i \in DOMAIN exe'[o][s].symbols : exe'[o][s].symbols[i].resolve = None
    <2>1. CASE o = 0
      <3>1. Pristine(SectionMap(opts.reloc)[s])
        BY <1>1, <2>1, SectionMapPristine
      <3> QED BY <1>1, <2>1, <3>1 DEF Pristine
    <2>2. CASE o # 0
      <3> DEFINE sect == opts.loaded[o][s]
      <3>1. /\ o \in DOMAIN opts.loaded /\ s \in DOMAIN opts.loaded[o]
            /\ exe'[o][s] = Touched(sect) \/ exe'[o][s] = sect
        BY <1>1, <2>2
      <3>2. Loaded(sect) /\ Pristine(sect)
        BY <3>1 DEF LoadedInv, Fresh, NumbersInv
      <3> HIDE DEF sect
      <3>3. Touched(sect).cursor = sect.cursor /\ Touched(sect).symbols = sect.symbols
        BY <3>2, TouchedKeeps
      <3> QED BY <3>1, <3>2, <3>3 DEF Pristine, NumericSection
    <2> QED BY <2>1, <2>2
  <1>3. ASSUME NEW p \in Places' PROVE p[1] \in DOMAIN exe' /\ p[2] \in DOMAIN exe'[p[1]]
    BY <1>1, <1>3 DEF Places, Builtins, Sections
  <1>4. \A p \in Places' : /\ NumericSection(At(p))'
                           /\ \A i \in DOMAIN At(p)'.symbols : At(p)'.symbols[i].resolve = None
    BY <1>2, <1>3 DEF At
  <1> QED BY <1>4 DEF ExeNumeric, Meaningful, Means

\* When nothing happens to the executable, nothing happens to its numbers.
LEMMA SameNumeric ==
  UNCHANGED exe => (ExeNumeric => ExeNumeric') /\ (Meaningful => Meaningful')
  <1> SUFFICES ASSUME UNCHANGED exe
               PROVE  (ExeNumeric => ExeNumeric') /\ (Meaningful => Meaningful')
    OBVIOUS
  <1>1. Places' = Places /\ \A p : At(p)' = At(p)
    BY DEF Places, Builtins, Sections, At
  <1>2. ASSUME NEW r, Means(r) PROVE Means(r)'
    BY <1>1, <1>2 DEF Means, Defines, SectionOf, SymbolAt
  <1>3. ExeNumeric => ExeNumeric'
    BY <1>1 DEF ExeNumeric
  <1>4. ASSUME Meaningful, NEW p \in Places, NEW i \in DOMAIN At(p).symbols
        PROVE  Means(At(p).symbols[i].resolve)'
    <2>1. PICK y : y = At(p).symbols[i].resolve
      OBVIOUS
    <2>2. Means(y)'
      BY <1>2, <1>4, <2>1 DEF Meaningful
    <2>3. At(p)'.symbols[i].resolve = y
      BY <1>1, <2>1
    <2> QED BY <2>2, <2>3 DEF Means
  <1>5. Meaningful => Meaningful'
    BY <1>1, <1>4 DEF Meaningful
  <1> QED BY <1>3, <1>5

\* What is true of the executable's numbers stays true.
LEMMA NextNumeric ==
  ASSUME LoadedInv, NumbersInv, Numbers, ExeOK, ExeNumeric, Meaningful, EntriesInv, [LinkNext]_linkvars
  PROVE  ExeNumeric' /\ Meaningful'
  <1>1. CASE Link
    BY <1>1, LinkNumeric
  <1>2. CASE ResolveOne
    <2> DEFINE r == Resolution(frame.place, symbols[frame.next].id).symbol
               at == <<frame.place[1], frame.place[2], frame.next>>
               t == IF r = None \/ Has(At(SectionOf(r)), "TOUCHED") THEN None ELSE SectionOf(r)
    <2>1. UNCHANGED exe \/ ExeResolved(at, r, t)
      BY <1>2, ResolveOneIs
    <2>2. Means(r)
      BY ResolutionIs DEF Means
    <2> HIDE DEF r, at, t
    <2> QED BY <2>1, <2>2, SameNumeric, ResolvedNumeric
  <1>3. CASE ResolveCdtor
    <2>1. UNCHANGED exe \/ ExeResolved(None, None, <<First(cdtor)[1], First(cdtor)[2]>>)
      BY <1>3, ResolveCdtorIs
    <2>2. Means(None)
      BY DEF Means
    <2> QED BY <2>1, <2>2, SameNumeric, ResolvedNumeric
  <1>4. CASE Populate \/ SizeAll
    <2>1. PICK places : exe' = Sized(places)
      <3>1. CASE SizeAll
        BY <3>1 DEF SizeAll
      <3>2. CASE Populate
        <4>1. PICK places : places = entries'
          OBVIOUS
        <4>2. exe' = Sized(places)
          BY <3>2, <4>1 DEF Populate
        <4> QED BY <4>2
      <3> QED BY <1>4, <3>1, <3>2
    <2> QED BY <2>1, SizedNumeric, SizedRelaxes, RelaxedMeaningful
  <1>5. CASE AssignAll
    <2>1. EntriesOK
      BY <1>5 DEF AssignAll, EntriesInv
    <2> QED BY <1>5, <2>1, AssignedLaysOut, AssignedRelaxes, RelaxedMeaningful
  <1>6. CASE UNCHANGED exe
    BY <1>6, SameNumeric
  <1> QED BY <1>1, <1>2, <1>3, <1>4, <1>5, <1>6 DEF LinkNext, LinkArgument, DeclareNext, PassSymbol,
          SectionResolved, Unresolved, Save, linkvars

\* What is in the map are sections, each of them once.
LEMMA NextEntries ==
  ASSUME ExeOK, BuiltinsInv, EntriesInv, [LinkNext]_linkvars
  PROVE  EntriesInv'
  <1> SUFFICES ASSUME phase' \in {"assign", "size", "save", "saved"} PROVE EntriesOK'
    BY DEF EntriesInv
  <1>1. CASE Populate
    <2>1. ASSUME NEW id \in BuiltinIds, id \in Always \/ HasBuiltin(id) PROVE Builtin(id) \in Places
      <3>1. PICK s \in DOMAIN exe[0] : exe[0][s].id = id
        BY <1>1, <2>1 DEF HasBuiltin, BuiltinsInv, Populate
      <3> QED BY <3>1, BuiltinPlace
    <2>2. \A kind : KeptOf(kind) \subseteq Places
      BY DEF KeptOf, Places
    <2>3. IsSeq(entries') /\ Range(entries') \subseteq Places /\ Distinct(entries')
      <3>1. \A id \in Always : Builtin(id) \in Places
        BY <2>1 DEF Always
      <3>2. /\ Builtin("__ctors_start__") \in Places /\ Builtin("__ctors_end__") \in Places
            /\ Builtin("__dtors_start__") \in Places /\ Builtin("__dtors_end__") \in Places
            /\ Builtin("__bss_start__") \in Places /\ Builtin("__bss_end__") \in Places
            /\ HasBuiltin("__reloctable__") => Builtin("__reloctable__") \in Places
        BY <2>1, <3>1 DEF Always, BuiltinIds
      <3> QED BY <1>1, <2>2, <3>2, PopulateIs
    <2>4. Places' = Places
      <3>1. PICK places : places = entries'
        OBVIOUS
      <3>2. exe' = Sized(places)
        BY <1>1, <3>1 DEF Populate
      <3> QED BY <3>2, SizedRelaxes, RelaxedShape, ShapeKeeps
    <2> QED BY <2>3, <2>4 DEF EntriesOK, Distinct
  <1>2. ASSUME EntriesOK, UNCHANGED entries, Places' = Places PROVE EntriesOK'
    BY <1>2 DEF EntriesOK, Distinct
  <1>3. CASE AssignAll
    BY <1>2, <1>3, AssignedRelaxes, RelaxedShape, ShapeKeeps DEF AssignAll, EntriesInv
  <1>4. CASE SizeAll
    <2>1. exe' = Sized(entries) /\ UNCHANGED entries /\ EntriesOK
      BY <1>4 DEF SizeAll, EntriesInv, layout
    <2>2. Places' = Places
      BY <2>1, SizedRelaxes, RelaxedShape, ShapeKeeps
    <2> QED BY <1>2, <2>1, <2>2
  <1>5. CASE Save \/ UNCHANGED linkvars
    <2>1. UNCHANGED <<exe, entries>> /\ phase \in {"assign", "size", "save", "saved"}
      BY <1>5 DEF Save, linkvars, layout
    <2>2. Places' = Places
      BY <2>1 DEF Places, Builtins, Sections
    <2> QED BY <1>2, <2>1, <2>2 DEF EntriesInv
  <1>6. ~LinkArgument /\ ~DeclareNext /\ ~Link /\ ~PassSymbol /\ ~ResolveOne /\ ~SectionResolved
        /\ ~ResolveCdtor /\ ~Unresolved
    BY DEF LinkArgument, DeclareNext, Link, PassSymbol, ResolveOne, SectionResolved, ResolveCdtor, Unresolved
  <1> QED BY <1>1, <1>3, <1>4, <1>5, <1>6 DEF LinkNext

-----------------------------------------------------------------------------
(* The layout.                                                             *)

\* From the first pass on the references in the map have sizes, and from the time at
\* which addresses have been given to the next pass the sections in it are laid out.
SizedInv == phase \in {"assign", "size"} => \A p \in Range(entries) : SizedOnce(At(p))

LaidInv == phase = "size" => \A p \in Range(entries) : LaidOut(At(p)) /\ At(p).address \in Int

\* The first pass sizes all of them, no later one takes a size away.
LEMMA NextSized ==
  ASSUME ExeOK, ExeNumeric, BuiltinsInv, EntriesInv, EntriesInv', SizedInv, [LinkNext]_linkvars
  PROVE  SizedInv'
  <1> SUFFICES ASSUME phase' \in {"assign", "size"}, NEW p \in Range(entries')
               PROVE  SizedOnce(At(p)')
    BY DEF SizedInv
  <1>1. ASSUME phase \in {"assign", "size"}, ExeRelaxed, UNCHANGED entries PROVE SizedOnce(At(p)')
    <2>1. p \in Places /\ SizedOnce(At(p))
      BY <1>1 DEF EntriesInv, EntriesOK, SizedInv
    <2>2. Loaded(At(p)) /\ NumericSection(At(p)) /\ p[1] \in DOMAIN exe /\ p[2] \in DOMAIN exe[p[1]]
      BY <2>1, PlacesAre DEF ExeNumeric
    <2>3. Relaxed(At(p), At(p)')
      BY <1>1, <2>2 DEF ExeRelaxed, At
    <2> QED BY <2>1, <2>2, <2>3, SizedOnceStays
  <1>2. CASE Populate
    <2>1. PICK places : places = entries'
      OBVIOUS
    <2>2. exe' = Sized(places)
      BY <1>2, <2>1 DEF Populate
    <2>3. Places' = Places
      BY <2>2, SizedRelaxes, RelaxedShape, ShapeKeeps
    <2>4. p \in Places
      BY <2>3 DEF EntriesInv, EntriesOK
    <2> QED BY <2>1, <2>2, <2>4, SizedSizes
  <1>3. CASE AssignAll
    BY <1>1, <1>3, AssignedRelaxes DEF AssignAll
  <1>4. CASE SizeAll
    <2>1. exe' = Sized(entries) /\ UNCHANGED entries /\ phase = "size"
      BY <1>4 DEF SizeAll, layout
    <2> QED BY <1>1, <2>1, SizedRelaxes
  <1>5. CASE UNCHANGED linkvars
    <2>1. UNCHANGED <<exe, entries, phase>>
      BY <1>5 DEF linkvars, layout
    <2> QED BY <2>1 DEF SizedInv, At
  <1>6. ~LinkArgument /\ ~DeclareNext /\ ~Link /\ ~PassSymbol /\ ~ResolveOne /\ ~SectionResolved
        /\ ~ResolveCdtor /\ ~Unresolved /\ ~Save
    BY DEF LinkArgument, DeclareNext, Link, PassSymbol, ResolveOne, SectionResolved, ResolveCdtor, Unresolved, Save
  <1> QED BY <1>2, <1>3, <1>4, <1>5, <1>6 DEF LinkNext

\* Only assigning addresses leads to the pass that may be the last.
LEMMA NextLaid ==
  ASSUME ExeOK, ExeNumeric, EntriesInv, Numbers, LaidInv, [LinkNext]_linkvars
  PROVE  LaidInv'
  <1> SUFFICES ASSUME phase' = "size"
               PROVE  \A p \in Range(entries') : LaidOut(At(p)') /\ At(p)'.address \in Int
    BY DEF LaidInv
  <1>1. CASE AssignAll
    <2>1. EntriesOK /\ UNCHANGED entries
      BY <1>1 DEF AssignAll, EntriesInv
    <2> QED BY <1>1, <2>1, AssignedLaysOut
  <1>2. CASE UNCHANGED linkvars
    <2>1. UNCHANGED <<exe, entries, phase>>
      BY <1>2 DEF linkvars, layout
    <2> QED BY <2>1 DEF LaidInv, At
  <1>3. ~LinkArgument /\ ~DeclareNext /\ ~Link /\ ~PassSymbol /\ ~ResolveOne /\ ~SectionResolved
        /\ ~ResolveCdtor /\ ~Unresolved /\ ~Save /\ ~Populate /\ ~SizeAll
    BY DEF LinkArgument, DeclareNext, Link, PassSymbol, ResolveOne, SectionResolved, ResolveCdtor, Unresolved,
           Save, Populate, SizeAll
  <1> QED BY <1>1, <1>2, <1>3 DEF LinkNext

\* What a symbol stands for is a number.
LEMMA ValueIsNumber ==
  ASSUME ExeOK, ExeNumeric, Meaningful, NEW p \in Places, NEW i \in DOMAIN At(p).symbols
  PROVE  TargetValue(Meant(At(p).symbols[i]), At(p).symbols[i]) \in Int
  <1> DEFINE sym == At(p).symbols[i]
  <1>1. Numeric(sym) /\ Means(sym.resolve)
    BY DEF ExeNumeric, NumericSection, Meaningful
  <1>2. Numeric(Meant(sym))
    <2>1. CASE sym.resolve = None
      BY <1>1, <2>1 DEF Meant
    <2>2. CASE sym.resolve # None
      <3> DEFINE r == sym.resolve
      <3>1. SectionOf(r) \in Places /\ r[3] \in DOMAIN At(SectionOf(r)).symbols
        BY <1>1, <2>2 DEF Means, Defines
      <3>2. Numeric(At(SectionOf(r)).symbols[r[3]])
        BY <3>1 DEF ExeNumeric, NumericSection
      <3> QED BY <2>2, <3>2 DEF Meant, SymbolAt, SectionOf, At
    <2> QED BY <2>1, <2>2
  <1> HIDE DEF sym
  <1> QED BY <1>1, <1>2 DEF TargetValue, Numeric, Ordinary, sym

\* A pass in which nothing grows changes no symbol of any section.
LEMMA SettledPass ==
  ASSUME ExeOK, ExeNumeric, EntriesOK, SizeAll, phase' # "assign",
         \A p \in Range(entries) : SizedOnce(At(p))
  PROVE  /\ \A p \in Range(entries) : ~Grown(At(p), SizesFor(p)) /\ At(p)' = SizesFor(p)
         /\ \A p \in Places : \A i \in DOMAIN At(p).symbols :
               /\ At(p)'.symbols[i].flags = At(p).symbols[i].flags
               /\ At(p)'.symbols[i].resolve = At(p).symbols[i].resolve
               /\ Numbered(At(p)'.symbols[i], At(p).symbols[i])
  <1>1. exe' = Sized(entries) /\ Range(entries) \subseteq Places
    BY DEF SizeAll, EntriesOK
  <1>2. ASSUME NEW p \in Range(entries)
        PROVE  ~Grown(At(p), SizesFor(p)) /\ At(p)' = SizesFor(p) /\ p \in Places
    <2>1. PICK k \in DOMAIN entries : entries[k] = p
      BY DEF Range
    <2>2. ~Grown(At(p), exe'[p[1]][p[2]])
      BY <2>1 DEF SizeAll
    <2>3. exe'[p[1]][p[2]] = At(p)'
      BY DEF At
    <2>4. At(p)' = SizesFor(p)
      BY <1>1, SizedIs
    <2> QED BY <1>1, <2>2, <2>3, <2>4
  <1>3. ASSUME NEW p \in Places, NEW i \in DOMAIN At(p).symbols
        PROVE  /\ At(p)'.symbols[i].flags = At(p).symbols[i].flags
               /\ At(p)'.symbols[i].resolve = At(p).symbols[i].resolve
               /\ Numbered(At(p)'.symbols[i], At(p).symbols[i])
    <2>1. CASE p \notin Range(entries)
      <3>1. At(p)' = At(p)
        BY <1>1, <2>1, SizedIs
      <3> QED BY <3>1 DEF Numbered
    <2>2. CASE p \in Range(entries)
      <3> DEFINE sect == At(p)
                 targets == [j \in DOMAIN At(p).symbols |-> Meant(At(p).symbols[j])]
                 new == SizeReferences(sect, targets)
      <3>1. SizesFor(p) = new /\ At(p)' = new /\ ~Grown(sect, new)
        BY <1>2, <2>2 DEF SizesFor
      <3>2. Loaded(sect) /\ NumericSection(sect) /\ SizedOnce(sect) /\ i \in DOMAIN sect.symbols
        BY <2>2, PlacesAre DEF ExeNumeric
      <3>3. PICK s, t : s = sect /\ t = targets
        OBVIOUS
      <3> HIDE DEF sect, targets
      <3>4. Relaxed(s, SizeReferences(s, t)) /\ Numbered(SizeReferences(s, t).symbols[i], s.symbols[i])
        BY <3>1, <3>2, <3>3, SizingRelaxes, SettledSame
      <3> HIDE DEF new
      <3>5. Relaxed(sect, new) /\ Numbered(new.symbols[i], sect.symbols[i])
        BY <3>3, <3>4 DEF new
      <3>6. At(p)' = new /\ At(p) = sect
        BY <3>1 DEF sect
      <3> QED BY <3>2, <3>5, <3>6 DEF Relaxed
    <2> QED BY <2>1, <2>2
  <1> QED BY <1>2, <1>3

\* What symbols stand for is then the same.
LEMMA SettledValue ==
  ASSUME ExeOK, ExeNumeric, Meaningful, EntriesOK, SizeAll, phase' # "assign",
         \A p \in Range(entries) : SizedOnce(At(p)),
         NEW p \in Places, NEW i \in DOMAIN At(p).symbols
  PROVE  TargetValue(Meant(At(p).symbols[i]), At(p).symbols[i])'
           = TargetValue(Meant(At(p).symbols[i]), At(p).symbols[i])
  <1> DEFINE Same(q, j) == /\ At(q)'.symbols[j].flags = At(q).symbols[j].flags
                           /\ At(q)'.symbols[j].resolve = At(q).symbols[j].resolve
                           /\ Numbered(At(q)'.symbols[j], At(q).symbols[j])
  <1>1. \A q \in Places : \A j \in DOMAIN At(q).symbols : Same(q, j)
    BY SettledPass
  <1>2. PICK old : old = At(p).symbols[i]
    OBVIOUS
  <1>3. PICK new : new = At(p)'.symbols[i]
    OBVIOUS
  <1>4. new.flags = old.flags /\ new.resolve = old.resolve /\ Numbered(new, old)
    BY <1>1, <1>2, <1>3
  <1>5. PICK told : told = Meant(old)
    OBVIOUS
  <1>6. PICK tnew : tnew = Meant(new)'
    OBVIOUS
  <1>7. tnew.flags = told.flags /\ Numbered(tnew, told)
    <2>1. CASE old.resolve = None
      BY <1>4, <1>5, <1>6, <2>1 DEF Meant
    <2>2. CASE old.resolve # None
      <3>1. PICK r : r = old.resolve
        OBVIOUS
      <3>2. Means(r) /\ r # None
        BY <1>2, <2>2, <3>1 DEF Meaningful
      <3>3. SectionOf(r) \in Places /\ r[3] \in DOMAIN At(SectionOf(r)).symbols
        BY <3>2 DEF Means, Defines
      <3>4. Same(SectionOf(r), r[3])
        BY <1>1, <3>3
      <3>5. told = At(SectionOf(r)).symbols[r[3]] /\ tnew = At(SectionOf(r))'.symbols[r[3]]
        BY <1>4, <1>5, <1>6, <3>1, <3>2 DEF Meant, SymbolAt, SectionOf, At
      <3> QED BY <3>4, <3>5
    <2> QED BY <2>1, <2>2
  <1>8. TargetValue(tnew, new) = TargetValue(told, old)
    BY <1>4, <1>7 DEF TargetValue, Numbered, Has
  <1> QED BY <1>2, <1>3, <1>5, <1>6, <1>8 DEF Meant, TargetValue, Has

\* Every symbol of the sections in the map is as it should be.
SymbolsStand ==
    \A p \in Range(entries) : \A i \in DOMAIN At(p).symbols :
        Stands(At(p).symbols[i], Lies(At(p), i), TargetValue(Meant(At(p).symbols[i]), At(p).symbols[i]))

StandsInv == phase \in {"save", "saved"} => SymbolsStand

\* When it is done they all are.
LEMMA SettledStands ==
  ASSUME ExeOK, ExeNumeric, Meaningful, EntriesInv, SizedInv, LaidInv, SizeAll, phase' # "assign"
  PROVE  StandsInv'
  <1>1. phase = "size" /\ EntriesOK /\ UNCHANGED entries
    BY DEF SizeAll, EntriesInv, layout
  <1>2. \A p \in Range(entries) : SizedOnce(At(p)) /\ LaidOut(At(p)) /\ At(p).address \in Int
    BY <1>1 DEF SizedInv, LaidInv
  <1>3. ASSUME NEW p \in Range(entries), NEW i \in DOMAIN At(p)'.symbols
        PROVE  Stands(At(p)'.symbols[i], Lies(At(p)', i),
                      TargetValue(Meant(At(p).symbols[i]), At(p).symbols[i])')
    <2>1. p \in Places /\ ~Grown(At(p), SizesFor(p)) /\ At(p)' = SizesFor(p)
      BY <1>1, <1>2, SettledPass DEF EntriesOK
    <2>2. PICK sect, targets : /\ sect = At(p)
                               /\ targets = [j \in DOMAIN At(p).symbols |-> Meant(At(p).symbols[j])]
      OBVIOUS
    <2>3. PICK new : new = SizeReferences(sect, targets)
      OBVIOUS
    <2>4. At(p)' = new /\ ~Grown(sect, new)
      BY <2>1, <2>2, <2>3 DEF SizesFor
    <2>5. Loaded(sect) /\ NumericSection(sect) /\ SizedOnce(sect) /\ LaidOut(sect) /\ sect.address \in Int
      BY <1>2, <2>1, <2>2, PlacesAre DEF ExeNumeric
    <2>6. DOMAIN new.symbols = DOMAIN sect.symbols
      BY <2>3, <2>5, SizingRelaxes DEF Relaxed
    <2>7. i \in DOMAIN sect.symbols
      BY <2>4, <2>6
    <2>8. targets[i] = Meant(At(p).symbols[i]) /\ i \in DOMAIN At(p).symbols
      BY <2>2, <2>7
    <2>9. TargetValue(targets[i], sect.symbols[i]) \in Int
      BY <2>1, <2>2, <2>8, ValueIsNumber
    <2>10. Stands(new.symbols[i], Lies(new, i), TargetValue(targets[i], sect.symbols[i]))
      BY <2>3, <2>4, <2>5, <2>7, <2>9, SectionStands
    <2>11. TargetValue(Meant(At(p).symbols[i]), At(p).symbols[i])' = TargetValue(targets[i], sect.symbols[i])
      BY <1>1, <1>2, <2>1, <2>2, <2>8, SettledValue
    <2> QED BY <2>4, <2>10, <2>11
  <1> QED BY <1>1, <1>3 DEF StandsInv, SymbolsStand, Stands, Has, Fits, Lies, Taken, IsRef

\* Nothing happens to the layout from then on.
LEMMA NextStands ==
  ASSUME ExeOK, ExeNumeric, Meaningful, EntriesInv, SizedInv, LaidInv, StandsInv, [LinkNext]_linkvars
  PROVE  StandsInv'
  <1>1. CASE SizeAll
    <2>1. CASE phase' = "assign"
      BY <2>1 DEF StandsInv
    <2>2. CASE phase' # "assign"
      BY <1>1, <2>2, SettledStands
    <2> QED BY <2>1, <2>2
  <1>2. CASE Save \/ UNCHANGED linkvars
    <2>1. /\ UNCHANGED <<exe, entries>>
          /\ phase' \in {"save", "saved"} => phase \in {"save", "saved"}
      BY <1>2 DEF Save, linkvars, layout
    <2>2. ASSUME phase' \in {"save", "saved"} PROVE StandsInv'
      <3>1. /\ phase \in {"save", "saved"} /\ Range(entries') = Range(entries)
            /\ \A p : At(p)' = At(p)
        BY <2>1, <2>2 DEF At
      <3>2. StandsInv' <=>
               \A p \in Range(entries)' : \A i \in DOMAIN At(p)'.symbols :
                  Stands(At(p)'.symbols[i], Lies(At(p)', i),
                         TargetValue(Meant(At(p).symbols[i]), At(p).symbols[i])')
        BY <2>2 DEF StandsInv, SymbolsStand, Stands, Has, Fits, Lies, Taken, IsRef
      <3>3. \A p, i : TargetValue(Meant(At(p).symbols[i]), At(p).symbols[i])'
                      = TargetValue(Meant(At(p).symbols[i]), At(p).symbols[i])
        BY <2>1 DEF TargetValue, Has, Meant, SymbolAt, At
      <3> QED BY <3>1, <3>2, <3>3 DEF StandsInv, SymbolsStand
    <2> QED BY <2>2 DEF StandsInv
  <1>3. CASE phase' \notin {"save", "saved"}
    BY <1>3 DEF StandsInv
  <1>4. \/ phase' \notin {"save", "saved"} \/ SizeAll \/ Save \/ UNCHANGED linkvars
    <2>1. LinkArgument \/ DeclareNext \/ Link \/ PassSymbol \/ ResolveOne \/ SectionResolved
          \/ ResolveCdtor \/ Unresolved \/ Populate \/ AssignAll => phase' \notin {"save", "saved"}
      BY DEF LinkArgument, DeclareNext, Link, PassSymbol, ResolveOne, SectionResolved, ResolveCdtor,
             Unresolved, Populate, AssignAll
    <2> QED BY <2>1 DEF LinkNext
  <1> QED BY <1>1, <1>2, <1>3, <1>4

-----------------------------------------------------------------------------
(* The sections.                                                           *)

\* Each section of the map begins where it should.
SectionsBegin == \A k \in DOMAIN entries : At(entries[k]).address = Begins(k)

BeginsInv == phase \in {"size", "save", "saved"} => SectionsBegin

\* If the map and what is in it stay, so does that.
LEMMA BeginsStay ==
  ASSUME ExeOK, ExeOK', BuiltinsInv, EntriesOK, SectionsBegin, Shaped(None),
         phase \in {"assign", "size", "save", "saved"}, UNCHANGED <<entries, opts>>,
         \A p \in Range(entries) : At(p)'.address = At(p).address /\ Ends(At(p)') = Ends(At(p))
  PROVE  SectionsBegin'
  <1> SUFFICES ASSUME NEW k \in DOMAIN entries PROVE At(entries[k])'.address = Begins(k)'
    BY DEF SectionsBegin
  <1>1. Builtin("__bss_start__")' = Builtin("__bss_start__")
    <2>1. PICK c \in DOMAIN exe[0] : exe[0][c].id = "__bss_start__"
      BY DEF BuiltinsInv, Always, BuiltinIds
    <2> QED BY <2>1, BuiltinPlace, BuiltinStays
  <1>2. entries[k] \in Range(entries) /\ At(entries[k])'.address = At(entries[k]).address
    BY DEF Range
  <1>3. k # 1 => Ends(At(entries[k - 1])') = Ends(At(entries[k - 1]))
    <2> SUFFICES ASSUME k # 1 PROVE Ends(At(entries[k - 1])') = Ends(At(entries[k - 1]))
      OBVIOUS
    <2>1. k - 1 \in DOMAIN entries
      <3>1. Len(entries) \in Nat /\ DOMAIN entries = 1 .. Len(entries)
        BY SeqIsFunction DEF EntriesOK
      <3> QED BY <3>1
    <2>2. PICK q : q = entries[k - 1]
      OBVIOUS
    <2>3. q \in Range(entries) /\ At(entries[k - 1])' = At(q)'
      BY <2>1, <2>2 DEF Range
    <2> QED BY <2>2, <2>3
  <1>4. At(entries[k]).address = Begins(k)
    BY DEF SectionsBegin
  <1>5. Begins(k)' = IF entries[k] = Builtin("__bss_start__") /\ opts.bss > 0 THEN opts.bss
                     ELSE IF k = 1 THEN opts.base ELSE Ends(At(entries[k - 1])')
    BY <1>1 DEF Begins, Ends, Taken, IsRef, Has
  <1> QED BY <1>2, <1>3, <1>4, <1>5 DEF Begins

\* Assigning addresses puts them there: no section is in the map twice.
LEMMA AssignedBegins ==
  ASSUME ExeOK, ExeNumeric, BuiltinsInv, EntriesOK, Numbers, AssignAll, phase' = "size"
  PROVE  SectionsBegin'
  <1>1. UNCHANGED <<entries, opts>> /\ phase = "assign"
    BY DEF AssignAll
  <1>2. Shaped(None) /\ ExeOK'
    BY AssignedRelaxes, RelaxedShape, RelaxedOK
  <1>3. Builtin("__bss_start__")' = Builtin("__bss_start__")
    <2>1. PICK c \in DOMAIN exe[0] : exe[0][c].id = "__bss_start__"
      BY <1>1 DEF BuiltinsInv, Always, BuiltinIds
    <2> QED BY <1>2, <2>1, BuiltinPlace, BuiltinStays
  <1>4. Len(entries) \in Nat /\ DOMAIN entries = 1 .. Len(entries)
    BY SeqIsFunction DEF EntriesOK
  <1>5. ASSUME NEW k \in DOMAIN entries
        PROVE  /\ At(entries[k])' = AssignAddresses(At(entries[k]), Bases[k])
               /\ At(entries[k])'.address = Bases[k]
               /\ Ends(At(entries[k])') = EndOf(AssignAddresses(At(entries[k]), Bases[k]))
    <2>1. entries[k] \in Places /\ Loaded(At(entries[k])) /\ NumericSection(At(entries[k]))
      BY PlacesAre DEF EntriesOK, Range, ExeNumeric
    <2>2. At(entries[k])' = AssignAddresses(At(entries[k]), Bases[k])
      <3>1. PICK p : p = entries[k]
        OBVIOUS
      <3>2. At(p)' = AssignAddresses(At(p), Bases[k])
        BY <3>1, AssignedOnce
      <3>3. At(entries[k])' = At(p)'
        BY <1>1, <3>1
      <3> QED BY <3>1, <3>2, <3>3
    <2>3. Bases[k] \in Int
      BY BasesAre
    <2> QED BY <2>1, <2>2, <2>3, AssignedBase, AssigningLaysOut
  <1> SUFFICES ASSUME NEW k \in DOMAIN entries PROVE At(entries[k])'.address = Begins(k)'
    BY <1>1 DEF SectionsBegin
  <1>6. Begins(k)' = IF entries[k] = Builtin("__bss_start__") /\ opts.bss > 0 THEN opts.bss
                     ELSE IF k = 1 THEN opts.base ELSE Ends(At(entries[k - 1])')
    BY <1>1, <1>3 DEF Begins, Ends, Taken, IsRef, Has
  <1>7. k # 1 => Ends(At(entries[k - 1])') = EndOf(AssignAddresses(At(entries[k - 1]), Bases[k - 1]))
    <2> SUFFICES ASSUME k # 1
                 PROVE  Ends(At(entries[k - 1])') = EndOf(AssignAddresses(At(entries[k - 1]), Bases[k - 1]))
      OBVIOUS
    <2>1. k - 1 \in DOMAIN entries
      BY <1>4
    <2> QED BY <1>5, <2>1
  <1>8. Bases[k] = IF entries[k] = Builtin("__bss_start__") /\ opts.bss > 0 THEN opts.bss
                   ELSE IF k = 1 THEN opts.base
                   ELSE EndOf(AssignAddresses(At(entries[k - 1]), Bases[k - 1]))
    BY BasesAre
  <1>9. At(entries[k])'.address = Bases[k]
    BY <1>5
  <1> QED BY <1>6, <1>7, <1>8, <1>9

\* The last pass leaves them there, and so does all that comes after it.
LEMMA NextBegins ==
  ASSUME ExeOK, ExeOK', ExeNumeric, BuiltinsInv, EntriesInv, SizedInv, Numbers, BeginsInv, [LinkNext]_linkvars
  PROVE  BeginsInv'
  <1> SUFFICES ASSUME phase' \in {"size", "save", "saved"} PROVE SectionsBegin'
    BY DEF BeginsInv
  <1>1. CASE AssignAll
    BY <1>1, AssignedBegins DEF AssignAll, EntriesInv
  <1>2. CASE SizeAll
    <2>1. /\ phase = "size" /\ phase' # "assign" /\ UNCHANGED <<entries, opts>> /\ EntriesOK /\ SectionsBegin
          /\ \A p \in Range(entries) : SizedOnce(At(p))
      BY <1>2 DEF SizeAll, layout, EntriesInv, BeginsInv, SizedInv
    <2>2. Shaped(None)
      BY <1>2, SizedRelaxes, RelaxedShape DEF SizeAll
    <2>3. ASSUME NEW p \in Range(entries) PROVE At(p)'.address = At(p).address /\ Ends(At(p)') = Ends(At(p))
      <3>1. p \in Places /\ ~Grown(At(p), SizesFor(p)) /\ At(p)' = SizesFor(p) /\ SizedOnce(At(p))
        BY <1>2, <2>1, SettledPass DEF EntriesOK
      <3>2. Loaded(At(p)) /\ NumericSection(At(p))
        BY <3>1, PlacesAre DEF ExeNumeric
      <3>3. SizesFor(p).address = At(p).address /\ Ends(SizesFor(p)) = Ends(At(p))
        BY <3>1, <3>2, SettledEnds DEF SizesFor
      <3> QED BY <3>1, <3>3
    <2> QED BY <2>1, <2>2, <2>3, BeginsStay
  <1>3. CASE Save \/ UNCHANGED linkvars
    <2>1. /\ UNCHANGED <<exe, entries, opts>> /\ phase \in {"size", "save", "saved"}
      BY <1>3 DEF Save, linkvars, layout
    <2>2. EntriesOK /\ SectionsBegin /\ Shaped(None)
      BY <2>1, SameShape DEF EntriesInv, BeginsInv
    <2>3. \A p : At(p)' = At(p)
      BY <2>1 DEF At
    <2> QED BY <2>1, <2>2, <2>3, BeginsStay
  <1>4. ~LinkArgument /\ ~DeclareNext /\ ~Link /\ ~PassSymbol /\ ~ResolveOne /\ ~SectionResolved
        /\ ~ResolveCdtor /\ ~Unresolved /\ ~Populate
    BY DEF LinkArgument, DeclareNext, Link, PassSymbol, ResolveOne, SectionResolved, ResolveCdtor, Unresolved,
           Populate
  <1> QED BY <1>1, <1>2, <1>3, <1>4 DEF LinkNext

(***************************************************************************)
(* The layout that is written stands: every section begins where the one   *)
(* before it ends, every definition has the address at which it comes to   *)
(* lie, alignments align what follows them, and every reference has the    *)
(* room that its value or distance takes, although the last pass over the  *)
(* sizes came after the addresses had been given (executable.c 328-420,    *)
(* section.c 391-480).  Numbers asks that alignments be to powers of two:  *)
(* the mask of section.c 386 aligns for no other.                          *)
(***************************************************************************)
THEOREM TheLayoutStands ==
  ASSUME NEW CONSTANT arguments
  PROVE  LinkSpec(arguments) /\ []ObjectFiles /\ []Numbers => []LayoutStands
  <1> DEFINE Inv == /\ LoadedInv /\ NumbersInv /\ ExeOK /\ BuiltinsInv /\ ExeNumeric
                    /\ Meaningful /\ EntriesInv /\ SizedInv /\ LaidInv /\ StandsInv /\ BeginsInv
  <1>1. LinkInit(arguments) => Inv
    <2> SUFFICES ASSUME LinkInit(arguments) PROVE Inv
      OBVIOUS
    <2>1. /\ phase = "arguments" /\ exe = [o \in {0} |-> <<>>] /\ opts.loaded = <<>>
          /\ opts.declared = 0 /\ opts.constants = <<>>
          /\ {"loaded", "declared", "unresolved", "constants"} \subseteq DOMAIN opts
      BY DEF LinkInit
    <2>2. IsSeq(<<>>) /\ DOMAIN <<>> = {}
      BY DEF IsSeq
    <2>3. LoadedInv /\ NumbersInv
      BY <2>1, <2>2 DEF LoadedInv, NumbersInv
    <2>4. ExeOK
      <3>1. DOMAIN exe = 0 .. 0
        BY <2>1
      <3> QED BY <2>1, <2>2, <3>1 DEF ExeOK
    <2>5. BuiltinsInv
      BY <2>1, <2>2 DEF BuiltinsInv
    <2>6. Places = {}
      BY <2>1, <2>2 DEF Places, Builtins, Sections
    <2>7. ExeNumeric /\ Meaningful
      BY <2>6 DEF ExeNumeric, Meaningful
    <2>8. EntriesInv /\ SizedInv /\ LaidInv /\ StandsInv /\ BeginsInv
      BY <2>1 DEF EntriesInv, SizedInv, LaidInv, StandsInv, BeginsInv
    <2> QED BY <2>3, <2>4, <2>5, <2>7, <2>8
  <1>2. ObjectFiles /\ Numbers /\ Inv /\ [LinkNext]_linkvars => Inv'
    <2> SUFFICES ASSUME ObjectFiles, Numbers, Inv, [LinkNext]_linkvars PROVE Inv'
      OBVIOUS
    <2>1. LoadedInv' /\ ExeOK' /\ BuiltinsInv' /\ NumbersInv'
      BY NextLoaded, NextExe, NextBuiltins, NextNumbers
    <2>2. ExeNumeric' /\ Meaningful'
      BY NextNumeric
    <2>3. EntriesInv'
      BY NextEntries
    <2>4. SizedInv' /\ LaidInv'
      BY <2>3, NextSized, NextLaid
    <2>5. StandsInv' /\ BeginsInv'
      BY <2>1, NextStands, NextBegins
    <2> QED BY <2>1, <2>2, <2>3, <2>4, <2>5
  <1>3. Inv => LayoutStands
    <2> SUFFICES ASSUME EntriesInv, StandsInv, BeginsInv, phase \in {"save", "saved"}, NEW k \in DOMAIN entries
                 PROVE  /\ At(entries[k]).address = Begins(k)
                        /\ \A i \in DOMAIN At(entries[k]).symbols :
                              Stands(At(entries[k]).symbols[i], Lies(At(entries[k]), i),
                                     TargetValue(Meant(At(entries[k]).symbols[i]), At(entries[k]).symbols[i]))
      BY DEF LayoutStands
    <2>1. entries[k] \in Range(entries)
      BY DEF Range
    <2> QED BY <2>1 DEF StandsInv, SymbolsStand, BeginsInv, SectionsBegin
  <1> HIDE DEF Inv
  <1> QED BY <1>1, <1>2, <1>3, PTL DEF LinkSpec
=============================================================================
