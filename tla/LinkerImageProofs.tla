--------------------------- MODULE LinkerImageProofs ---------------------------
(***************************************************************************)
(* The image that the linker writes is as its layout says, and so is the   *)
(* relocation table: proofs about bytes, for any command line and any      *)
(* object files with numbers in them whose references stand in the order   *)
(* of their code.                                                          *)
(***************************************************************************)
EXTENDS LinkerLayoutProofs

-----------------------------------------------------------------------------
(* Bytes.                                                                  *)

\* One list behind another.
LEMMA ConcatIs ==
  ASSUME NEW S, NEW s \in Seq(S), NEW t \in Seq(S)
  PROVE  /\ s \o t \in Seq(S) /\ Len(s \o t) = Len(s) + Len(t)
         /\ Len(s) \in Nat /\ Len(t) \in Nat
         /\ \A k \in 1 .. Len(s) : (s \o t)[k] = s[k]
         /\ \A k \in 1 .. Len(t) : (s \o t)[Len(s) + k] = t[k]
  OBVIOUS

\* z is x, of length a, and then y, up to b.
Joined(S, x, y, z, a, b) ==
    /\ z \in Seq(S) /\ Len(z) = b /\ Len(y) \in Nat /\ a \in Nat /\ b \in Nat
    /\ \A k \in 1 .. a : z[k] = x[k]
    /\ \A k \in 1 .. Len(y) : z[a + k] = y[k]

\* A list behind another is the two, joined.
LEMMA JoinIs ==
  ASSUME NEW S, NEW x \in Seq(S), NEW y \in Seq(S), NEW z, z = x \o y, NEW a, a = Len(x), NEW b, b = a + Len(y)
  PROVE  Joined(S, x, y, z, a, b)
  BY ConcatIs DEF Joined

\* Each part begins where the one before it ends.
Chained(n, seqs, e) == e[0] = 0 /\ \A k \in 1 .. n : e[k] = e[k - 1] + Len(seqs[k])

\* The first n of them are lists over S.
AreSeqs(n, seqs, S) == \A k \in 1 .. n : seqs[k] \in Seq(S)

\* The list is n lists one behind the other, which end at the places e.
Flattened(flat, n, seqs, e) ==
    /\ Len(flat) = e[n]
    /\ \A k \in 1 .. n : \A j \in 1 .. Len(seqs[k]) : flat[e[k - 1] + j] = seqs[k][j]

\* Putting lists together, one after the other: flat[i] is the first i of them.
Unfolds(n, seqs, flat) == flat[1] = seqs[1] /\ \A i \in 1 .. n : i # 1 => flat[i] = flat[i - 1] \o seqs[i]

\* The list of the library is unfolded so.
LEMMA FlattenUnfolds ==
  ASSUME NEW S, NEW n \in Nat \ {0}, NEW seqs, DOMAIN seqs = 1 .. n, Len(seqs) = n, AreSeqs(n, seqs, S)
  PROVE  \E flat : FlattenSeq(seqs) = flat[n] /\ Unfolds(n, seqs, flat)
  <1> DEFINE P(f) == f = [i \in 1 .. n |-> IF i = 1 THEN seqs[i] ELSE f[i - 1] \o seqs[i]]
             flat == CHOOSE f : P(f)
             g == [ix \in (1 .. n) \X Seq(S) |-> IF ix[1] = 1 THEN seqs[1] ELSE ix[2] \o seqs[ix[1]]]
  <1>1. FlattenSeq(seqs) = flat[n]
    BY DEF FlattenSeq
  <1>2. \A i \in 1 .. n : \A x \in Seq(S) :
           g[<<i, x>>] = (IF i = 1 THEN seqs[1] ELSE x \o seqs[i]) /\ g[<<i, x>>] \in Seq(S)
    <2> SUFFICES ASSUME NEW i \in 1 .. n, NEW x \in Seq(S)
                 PROVE  g[<<i, x>>] = (IF i = 1 THEN seqs[1] ELSE x \o seqs[i]) /\ g[<<i, x>>] \in Seq(S)
      OBVIOUS
    <2>1. g[<<i, x>>] = IF i = 1 THEN seqs[1] ELSE x \o seqs[i]
      OBVIOUS
    <2>2. seqs[1] \in Seq(S) /\ x \o seqs[i] \in Seq(S)
      BY ConcatIs DEF AreSeqs
    <2> HIDE DEF g
    <2> QED BY <2>1, <2>2
  <1> HIDE DEF g
  <1>3. PICK f \in [0 .. n -> Seq(S)] : Follows(n, seqs[1], g, f)
    <2>0. 1 \in 1 .. n /\ n \in Nat
      OBVIOUS
    <2>0a. seqs[1] \in Seq(S)
      BY <2>0 DEF AreSeqs
    <2>1. n \in Nat /\ seqs[1] \in Seq(S) /\ \A i \in 1 .. n : \A x \in Seq(S) : g[<<i, x>>] \in Seq(S)
      BY <1>2, <2>0, <2>0a, Zenon
    <2>2. PICK V, v : V = Seq(S) /\ v = seqs[1]
      OBVIOUS
    <2>3. n \in Nat /\ v \in V /\ \A i \in 1 .. n : \A x \in V : g[<<i, x>>] \in V
      BY <2>1, <2>2
    <2>4. \E f \in [0 .. n -> V] : Follows(n, v, g, f)
      BY <2>3, RecursionIn
    <2> QED BY <2>2, <2>4
  <1> DEFINE h == [i \in 1 .. n |-> f[i]]
  <1>4. P(h)
    <2>1. h = [i \in 1 .. n |-> h[i]]
      OBVIOUS
    <2>2. ASSUME NEW i \in 1 .. n PROVE h[i] = IF i = 1 THEN seqs[i] ELSE h[i - 1] \o seqs[i]
      <3>1. i - 1 \in 0 .. n /\ f[i - 1] \in Seq(S) /\ f[i] = g[<<i, f[i - 1]>>] /\ h[i] = f[i]
        <4>1. i - 1 \in 0 .. n
          OBVIOUS
        <4> QED BY <1>3, <4>1 DEF Follows
      <3>2. h[i] = IF i = 1 THEN seqs[1] ELSE f[i - 1] \o seqs[i]
        BY <1>2, <3>1
      <3>3. i # 1 => h[i - 1] = f[i - 1]
        OBVIOUS
      <3> HIDE DEF h
      <3> QED BY <3>2, <3>3
    <2> HIDE DEF h
    <2> QED BY <2>1, <2>2
  <1>5. P(flat)
    <2> HIDE DEF P, h
    <2> QED BY <1>4
  <1> HIDE DEF flat
  <1>6. flat[1] = seqs[1] /\ \A i \in 1 .. n : i # 1 => flat[i] = flat[i - 1] \o seqs[i]
    <2>1. \A i \in 1 .. n : flat[i] = IF i = 1 THEN seqs[i] ELSE flat[i - 1] \o seqs[i]
      BY <1>5
    <2>2. 1 \in 1 .. n
      OBVIOUS
    <2> QED BY <2>1, <2>2, Zenon
  <1> HIDE DEF P
  <1> QED BY <1>1, <1>6 DEF Unfolds

\* So do the parts of what they are together.
LEMMA FlattenIs ==
  ASSUME NEW S, NEW n \in Nat \ {0}, NEW seqs, DOMAIN seqs = 1 .. n, Len(seqs) = n, AreSeqs(n, seqs, S),
         NEW e, Chained(n, seqs, e)
  PROVE  Flattened(FlattenSeq(seqs), n, seqs, e)
  <1>1. PICK flat : FlattenSeq(seqs) = flat[n] /\ Unfolds(n, seqs, flat)
    BY FlattenUnfolds
  <1>6. flat[1] = seqs[1] /\ \A i \in 1 .. n : i # 1 => flat[i] = flat[i - 1] \o seqs[i]
    BY <1>1 DEF Unfolds
  <1> DEFINE Q(i) == /\ flat[i] \in Seq(S) /\ Len(flat[i]) = e[i] /\ e[i] \in Nat
                     /\ \A k \in 1 .. i : \A j \in 1 .. Len(seqs[k]) :
                           /\ e[k - 1] \in Nat /\ e[k - 1] + j \in 1 .. e[i]
                           /\ flat[i][e[k - 1] + j] = seqs[k][j]
             T == {m \in Nat : m + 1 <= n => Q(m + 1)}
  <1>7. 0 \in T
    <2>1. e[1] = 0 + Len(seqs[1]) /\ Len(seqs[1]) \in Nat
      <3>1. 1 \in 1 .. n /\ 1 - 1 = 0 /\ seqs[1] \in Seq(S)
        BY DEF AreSeqs
      <3>2. e[1] = e[0] + Len(seqs[1]) /\ e[0] = 0
        BY <3>1 DEF Chained
      <3> QED BY <3>1, <3>2
    <2>2. Q(1)
      <3>1. flat[1] \in Seq(S) /\ Len(flat[1]) = e[1] /\ e[1] \in Nat
        BY <1>6, <2>1 DEF AreSeqs
      <3>2. ASSUME NEW k \in 1 .. 1, NEW j \in 1 .. Len(seqs[k])
            PROVE  /\ e[k - 1] \in Nat /\ e[k - 1] + j \in 1 .. e[1]
                   /\ flat[1][e[k - 1] + j] = seqs[k][j]
        <4>1. k = 1 /\ k - 1 = 0 /\ e[k - 1] = 0
          BY DEF Chained
        <4>2. j \in Nat /\ 0 + j = j /\ j \in 1 .. Len(seqs[1])
          BY <2>1, <4>1
        <4>3. e[1] = Len(seqs[1])
          BY <2>1
        <4>4. e[k - 1] + j = j
          BY <4>1, <4>2
        <4> QED BY <1>6, <4>1, <4>2, <4>3, <4>4
      <3> QED BY <3>1, <3>2
    <2> HIDE DEF Q
    <2> QED BY <2>2
  <1>8. ASSUME NEW m \in Nat, m \in T PROVE m + 1 \in T
    <2> SUFFICES ASSUME m + 2 <= n PROVE Q(m + 2)
      OBVIOUS
    <2>0. PICK i : i = m + 1
      OBVIOUS
    <2>1. Q(i) /\ i \in 1 .. n /\ i + 1 \in 1 .. n /\ i + 1 # 1 /\ (i + 1) - 1 = i /\ i + 1 = m + 2
      <3>1. i \in 1 .. n /\ i + 1 \in 1 .. n /\ i + 1 # 1 /\ (i + 1) - 1 = i /\ i + 1 = m + 2 /\ m + 1 <= n
        BY <2>0
      <3> HIDE DEF Q
      <3> QED BY <1>8, <2>0, <3>1
    <2>1a. /\ flat[i] \in Seq(S) /\ Len(flat[i]) = e[i] /\ e[i] \in Nat
           /\ \A k \in 1 .. i : \A j \in 1 .. Len(seqs[k]) :
                 /\ e[k - 1] \in Nat /\ e[k - 1] + j \in 1 .. e[i]
                 /\ flat[i][e[k - 1] + j] = seqs[k][j]
      BY <2>1
    <2> HIDE DEF Q
    <2>2. PICK m1 : m1 = i + 1
      OBVIOUS
    <2>3. PICK x, y, z, a, b : x = flat[i] /\ y = seqs[m1] /\ z = flat[m1] /\ a = e[i] /\ b = e[m1]
      OBVIOUS
    <2>4. m1 \in 1 .. n /\ m1 # 1 /\ m1 - 1 = i
      BY <2>1, <2>2
    <2>5. z = x \o y /\ b = a + Len(y)
      <3>1. e[m1] = e[m1 - 1] + Len(seqs[m1]) /\ flat[m1] = flat[m1 - 1] \o seqs[m1]
        BY <1>6, <2>4 DEF Chained
      <3> QED BY <2>3, <2>4, <3>1
    <2>6. x \in Seq(S) /\ y \in Seq(S) /\ Len(x) = a /\ a \in Nat
      BY <2>1a, <2>3, <2>4 DEF AreSeqs
    <2>7. /\ z \in Seq(S) /\ Len(z) = b /\ Len(y) \in Nat /\ b \in Nat
          /\ \A k \in 1 .. a : z[k] = x[k]
          /\ \A k \in 1 .. Len(y) : z[a + k] = y[k]
      <3>1. x \in Seq(S) /\ y \in Seq(S) /\ z = x \o y /\ a = Len(x) /\ b = a + Len(y)
        BY <2>5, <2>6
      <3>2. Joined(S, x, y, z, a, b)
        BY <3>1, JoinIs
      <3> QED BY <3>2 DEF Joined
    <2>8. ASSUME NEW k \in 1 .. m1, NEW j \in 1 .. Len(seqs[k])
          PROVE  e[k - 1] \in Nat /\ e[k - 1] + j \in 1 .. b /\ z[e[k - 1] + j] = seqs[k][j]
      <3>1. CASE k = m1
        <4>1. e[k - 1] = a /\ j \in 1 .. Len(y) /\ seqs[k] = y
          BY <2>3, <2>4, <3>1
        <4>2. a + j \in 1 .. b
          BY <2>5, <2>6, <2>7, <4>1
        <4>3. z[a + j] = y[j]
          BY <2>7, <4>1
        <4> QED BY <2>6, <4>1, <4>2, <4>3
      <3>2. CASE k # m1
        <4>1. k \in 1 .. i
          BY <2>1, <2>2, <3>2
        <4>2. e[k - 1] \in Nat /\ e[k - 1] + j \in 1 .. a /\ x[e[k - 1] + j] = seqs[k][j]
          BY <2>1a, <2>3, <4>1
        <4>3. PICK w : w = e[k - 1] + j
          OBVIOUS
        <4>4. w \in 1 .. a /\ w \in 1 .. b
          BY <2>5, <2>6, <2>7, <4>2, <4>3
        <4> QED BY <2>7, <4>2, <4>3, <4>4
      <3> QED BY <3>1, <3>2
    <2>9. Q(m1)
      BY <2>3, <2>7, <2>8 DEF Q
    <2> QED BY <2>1, <2>2, <2>9
  <1>9. Q(n)
    <2> HIDE DEF T, Q
    <2>1. \A m \in Nat : m \in T
      BY <1>7, <1>8, SetInduction
    <2>2. (n - 1) + 1 = n /\ n - 1 \in Nat
      OBVIOUS
    <2>3. n - 1 \in T
      BY <2>1, <2>2
    <2> QED BY <2>2, <2>3 DEF T
  <1> QED BY <1>1, <1>9 DEF Flattened

-----------------------------------------------------------------------------
(* What is written for a reference.                                        *)

\* What stands above one opcode of a value is what stands above the next one and its six bits.
Carries(v, p, q) == v \div p = 64 * (v \div q) + ((v \div p) % 64)

\* Each digit of a number to the base 64 stands for what the next ones leave.
LEMMA DigitsAre ==
  ASSUME NEW v \in Int
  PROVE  /\ v \div Power64[1] = v
         /\ \A k \in 1 .. 6 : v \div Power64[k] \in Int /\ (v \div Power64[k]) % 64 \in 0 .. 63
         /\ \A k \in 1 .. 5 : v \div Power64[k] = 64 * (v \div Power64[k + 1]) + ((v \div Power64[k]) % 64)
  <1>1. /\ v \div 1 = v /\ v \div 1 \in Int /\ v \div 64 \in Int /\ v \div 4096 \in Int
        /\ v \div 262144 \in Int /\ v \div 16777216 \in Int /\ v \div 1073741824 \in Int
    BY SMT
  <1>2. \A x \in Int : x % 64 \in 0 .. 63
    OBVIOUS
  <1>3. Carries(v, 1, 64)
    BY SMT DEF Carries
  <1>4. Carries(v, 64, 4096)
    BY SMT DEF Carries
  <1>5. Carries(v, 4096, 262144)
    BY SMT DEF Carries
  <1>6. Carries(v, 262144, 16777216)
    BY SMT DEF Carries
  <1>7. Carries(v, 16777216, 1073741824)
    BY SMT DEF Carries
  <1>8. /\ Power64[1] = 1 /\ Power64[2] = 64 /\ Power64[3] = 4096
        /\ Power64[4] = 262144 /\ Power64[5] = 16777216 /\ Power64[6] = 1073741824
    BY SMT DEF Power64
  <1>9. \A k \in 1 .. 6 : k = 1 \/ k = 2 \/ k = 3 \/ k = 4 \/ k = 5 \/ k = 6
    OBVIOUS
  <1>10. ASSUME NEW k \in 1 .. 6 PROVE v \div Power64[k] \in Int
    BY <1>1, <1>8, <1>9, SMT
  <1>11. ASSUME NEW k \in 1 .. 5 PROVE Carries(v, Power64[k], Power64[k + 1])
    <2>1. k = 1 \/ k = 2 \/ k = 3 \/ k = 4 \/ k = 5
      OBVIOUS
    <2>2. /\ Carries(v, Power64[1], Power64[2]) /\ Carries(v, Power64[2], Power64[3])
          /\ Carries(v, Power64[3], Power64[4]) /\ Carries(v, Power64[4], Power64[5])
          /\ Carries(v, Power64[5], Power64[6])
      BY <1>3, <1>4, <1>5, <1>6, <1>7, <1>8, SMT
    <2>3. 1 + 1 = 2 /\ 2 + 1 = 3 /\ 3 + 1 = 4 /\ 4 + 1 = 5 /\ 5 + 1 = 6
      OBVIOUS
    <2> QED BY <2>1, <2>2, <2>3, SMT
  <1>12. ASSUME NEW k \in 1 .. 6 PROVE (v \div Power64[k]) % 64 \in 0 .. 63
    BY <1>2, <1>10, SMT
  <1>13. v \div Power64[1] = v
    BY <1>1, <1>8, SMT
  <1> QED BY <1>10, <1>11, <1>12, <1>13, SMT DEF Carries

\* n opcodes are enough for v.
Enough(v, n) == IF n = 6 THEN IsWord(v) ELSE Fits(v, n)

\* The first opcode has the sign of the number.
LEMMA TopDigit ==
  ASSUME NEW v \in Int, NEW n \in 1 .. 6, Enough(v, n)
  PROVE  LET t == (v \div Power64[n]) % 64
         IN  (IF t >= 32 THEN t - 64 ELSE t) = v \div Power64[n]
  <1>1. /\ Power64[1] = 1 /\ Power64[2] = 64 /\ Power64[3] = 4096
        /\ Power64[4] = 262144 /\ Power64[5] = 16777216 /\ Power64[6] = 1073741824
    BY SMT DEF Power64
  <1>2. v \div Power64[n] \in -32 .. 31
    <2>1. CASE n = 6
      BY <2>1, SMT DEF Enough, IsWord
    <2>2. CASE n = 1
      BY <1>1, <2>2, FitsIs, SMT DEF Enough
    <2>3. CASE n = 2
      <3>1. -2048 <= v /\ v < 2048
        BY <2>3, FitsIs, SMT DEF Enough
      <3> QED BY <1>1, <2>3, <3>1, SMT
    <2>4. CASE n = 3
      <3>1. -131072 <= v /\ v < 131072
        BY <2>4, FitsIs, SMT DEF Enough
      <3> QED BY <1>1, <2>4, <3>1, SMT
    <2>5. CASE n = 4
      <3>1. -8388608 <= v /\ v < 8388608
        BY <2>5, FitsIs, SMT DEF Enough
      <3> QED BY <1>1, <2>5, <3>1, SMT
    <2>6. CASE n = 5
      <3>1. -536870912 <= v /\ v < 536870912
        BY <2>6, FitsIs, SMT DEF Enough
      <3> QED BY <1>1, <2>6, <3>1, SMT
    <2> QED BY <2>1, <2>2, <2>3, <2>4, <2>5, <2>6, SMT
  <1> DEFINE d == v \div Power64[n]
  <1> HIDE DEF d
  <1>3. ASSUME NEW x \in -32 .. 31 PROVE (IF x % 64 >= 32 THEN (x % 64) - 64 ELSE x % 64) = x
    OBVIOUS
  <1> QED BY <1>2, <1>3

\* What li opcodes load is what they are made from.
LEMMA LoadsIs ==
  ASSUME NEW v \in Int, NEW n \in 1 .. 6, Enough(v, n)
  PROVE  Loads(LiBytes(v, n)) = v
  <1> DEFINE bytes == LiBytes(v, n)
             six(k) == bytes[k] - 192
             P(f) == f = [k \in DOMAIN bytes |->
                            IF k = 1 THEN (IF six(1) >= 32 THEN six(1) - 64 ELSE six(1))
                            ELSE 64 * f[k - 1] + six(k)]
             sum == CHOOSE f : P(f)
             h == [k \in 1 .. n |-> v \div Power64[n - k + 1]]
  <1>1. Loads(bytes) = sum[Len(bytes)]
    BY DEF Loads
  <1>2. DOMAIN bytes = 1 .. n /\ Len(bytes) = n
    BY DEF LiBytes
  <1>3. \A k \in 1 .. n : six(k) = (v \div Power64[n - k + 1]) % 64
    <2> SUFFICES ASSUME NEW k \in 1 .. n PROVE six(k) = (v \div Power64[n - k + 1]) % 64
      OBVIOUS
    <2>1. bytes[k] = 192 + ((v \div Power64[n - k + 1]) % 64)
      BY DEF LiBytes
    <2>2. n - k + 1 \in 1 .. 6
      OBVIOUS
    <2>3. (v \div Power64[n - k + 1]) % 64 \in 0 .. 63
      BY <2>2, DigitsAre
    <2> HIDE DEF bytes
    <2> QED BY <2>1, <2>3
  <1> HIDE DEF bytes
  <1>4. P(h)
    <2>1. \A k \in 1 .. n : h[k] = IF k = 1 THEN (IF six(1) >= 32 THEN six(1) - 64 ELSE six(1))
                                   ELSE 64 * h[k - 1] + six(k)
      <3> SUFFICES ASSUME NEW k \in 1 .. n
                   PROVE  h[k] = IF k = 1 THEN (IF six(1) >= 32 THEN six(1) - 64 ELSE six(1))
                                 ELSE 64 * h[k - 1] + six(k)
        OBVIOUS
      <3>1. CASE k = 1
        <4>1. n - 1 + 1 = n /\ 1 \in 1 .. n
          OBVIOUS
        <4>2. six(1) = (v \div Power64[n]) % 64 /\ h[1] = v \div Power64[n]
          BY <1>3, <4>1
        <4> HIDE DEF six, h
        <4> QED BY <3>1, <4>2, TopDigit
      <3>2. CASE k # 1
        <4>1. PICK j : j = n - k + 1
          OBVIOUS
        <4>2. j \in 1 .. 5 /\ j + 1 = n - (k - 1) + 1 /\ k - 1 \in 1 .. n
          BY <3>2, <4>1
        <4>3. h[k] = v \div Power64[j] /\ h[k - 1] = v \div Power64[j + 1]
          BY <4>1, <4>2
        <4>4. six(k) = (v \div Power64[j]) % 64
          BY <1>3, <4>1
        <4>5. v \div Power64[j] = 64 * (v \div Power64[j + 1]) + ((v \div Power64[j]) % 64)
          BY <4>2, DigitsAre
        <4> HIDE DEF six, h
        <4> QED BY <3>2, <4>3, <4>4, <4>5
      <3> QED BY <3>1, <3>2
    <2>2. h = [k \in 1 .. n |-> h[k]]
      OBVIOUS
    <2> HIDE DEF h, six
    <2> QED BY <1>2, <2>1, <2>2
  <1>5. P(sum)
    <2> HIDE DEF P, h
    <2> QED BY <1>4
  <1>6. \A k \in 1 .. n : sum[k] = IF k = 1 THEN (IF six(1) >= 32 THEN six(1) - 64 ELSE six(1))
                                   ELSE 64 * sum[k - 1] + six(k)
    <2> HIDE DEF sum, six
    <2> QED BY <1>2, <1>5
  <1>7. \A k \in 1 .. n : h[k] = IF k = 1 THEN (IF six(1) >= 32 THEN six(1) - 64 ELSE six(1))
                                 ELSE 64 * h[k - 1] + six(k)
    <2> HIDE DEF h, six
    <2> QED BY <1>2, <1>4
  <1>8. h[n] = v
    <2>1. n - n + 1 = 1 /\ n \in 1 .. n
      OBVIOUS
    <2>2. h[n] = v \div Power64[1]
      BY <2>1
    <2> HIDE DEF h
    <2> QED BY <2>2, DigitsAre
  <1> HIDE DEF sum, h, six, P
  <1> DEFINE T == {m \in Nat : m + 1 <= n => sum[m + 1] = h[m + 1]}
  <1>9. 0 \in T
    <2>1. 0 + 1 = 1 /\ 1 \in 1 .. n
      OBVIOUS
    <2>2. sum[1] = h[1]
      BY <1>6, <1>7, <2>1
    <2> QED BY <2>1, <2>2
  <1>10. ASSUME NEW m \in Nat, m \in T PROVE m + 1 \in T
    <2> SUFFICES ASSUME (m + 1) + 1 <= n PROVE sum[(m + 1) + 1] = h[(m + 1) + 1]
      OBVIOUS
    <2>1. PICK i : i = (m + 1) + 1
      OBVIOUS
    <2>2. i \in 1 .. n /\ i # 1 /\ i - 1 = m + 1 /\ m + 1 <= n
      BY <2>1
    <2>3. sum[i - 1] = h[i - 1]
      BY <1>10, <2>2
    <2> QED BY <1>6, <1>7, <2>1, <2>2, <2>3
  <1>11. sum[n] = h[n]
    <2>1. \A m \in Nat : m \in T
      <3> HIDE DEF T
      <3> QED BY <1>9, <1>10, SetInduction
    <2>2. n - 1 \in T /\ (n - 1) + 1 = n
      <3>1. n - 1 \in Nat /\ (n - 1) + 1 = n
        OBVIOUS
      <3> HIDE DEF T
      <3> QED BY <2>1, <3>1
    <2> QED BY <2>2
  <1> QED BY <1>1, <1>2, <1>8, <1>11 DEF bytes

-----------------------------------------------------------------------------
(* What is written for a section.                                          *)

\* Every byte there can be in the output of a section.
ByteValues(sect) == Int \cup {sect.codebuffers[m][n] : m \in Int, n \in Int}

\* The code between two positions is what stands at each of them.
LEMMA CodeIs ==
  ASSUME NEW sect, NEW a \in Int, NEW b \in Int
  PROVE  /\ Code(sect, a, b) \in Seq(ByteValues(sect))
         /\ a <= b => Len(Code(sect, a, b)) = b - a
         /\ a <= b => \A c \in a .. b - 1 : Code(sect, a, b)[c - a + 1] = Code(sect, c, c + 1)[1]
  <1> DEFINE S == ByteValues(sect)
             byte(c) == sect.codebuffers[c \div CodeBufferSize + 1][(c % CodeBufferSize) + 1]
  <1>1. \A c \in Int : byte(c) \in S
    <2> SUFFICES ASSUME NEW c \in Int PROVE byte(c) \in S
      OBVIOUS
    <2>1. c \div CodeBufferSize \in Int /\ c % CodeBufferSize \in Int
      BY CodeBufferSizeAssumption, DivModIs
    <2>2. PICK m, n : m = c \div CodeBufferSize + 1 /\ n = (c % CodeBufferSize) + 1
      OBVIOUS
    <2>3. m \in Int /\ n \in Int
      BY <2>1, <2>2
    <2> QED BY <2>2, <2>3 DEF ByteValues
  <1> HIDE DEF byte, S
  <1>2. Code(sect, a, b) = [k \in 1 .. b - a |-> byte(a + k - 1)]
    BY DEF Code, byte
  <1>3. \A k \in 1 .. b - a : byte(a + k - 1) \in S
    <2> SUFFICES ASSUME NEW k \in 1 .. b - a PROVE byte(a + k - 1) \in S
      OBVIOUS
    <2>1. a + k - 1 \in Int
      OBVIOUS
    <2> QED BY <1>1, <2>1
  <1> DEFINE e == [k \in 1 .. b - a |-> byte(a + k - 1)]
  <1>4. e \in [1 .. b - a -> S] /\ \A k \in 1 .. b - a : e[k] = byte(a + k - 1)
    BY <1>3
  <1>5. DOMAIN e = 1 .. b - a
    OBVIOUS
  <1> HIDE DEF e
  <1>6. e \in Seq(S) /\ (a <= b => Len(e) = b - a)
    <2>1. CASE a <= b
      <3>1. b - a \in Nat
        BY <2>1
      <3> QED BY <1>4, <3>1
    <2>2. CASE ~(a <= b)
      <3>1. 1 .. b - a = 1 .. 0
        BY <2>2
      <3>2. e \in [1 .. 0 -> S]
        BY <1>4, <3>1
      <3> QED BY <2>2, <3>2
    <2> QED BY <2>1, <2>2
  <1>7. ASSUME NEW c \in a .. b - 1 PROVE e[c - a + 1] = Code(sect, c, c + 1)[1]
    <2>1. PICK k : k = c - a + 1
      OBVIOUS
    <2>2. k \in 1 .. b - a /\ a + k - 1 = c
      BY <2>1
    <2>3. e[k] = byte(c)
      BY <1>4, <2>2
    <2>4. Code(sect, c, c + 1)[1] = byte(c)
      <3>1. 1 \in 1 .. (c + 1) - c /\ c + 1 - 1 = c
        OBVIOUS
      <3> QED BY <3>1 DEF Code, byte
    <2> QED BY <2>1, <2>3, <2>4
  <1> QED BY <1>2, <1>6, <1>7 DEF e, S

\* A symbol that can be written.
WritableSymbol(sym, target) ==
    IsRef(sym) => /\ Numeric(sym) /\ sym.size \in Nat /\ TargetValue(target, sym) \in Int
                  /\ Has(sym, "REFERENCE") => sym.size = 4
                  /\ Has(sym, "LDABS") \/ Has(sym, "LDPCREL") => sym.size \in 1 .. 6

\* The section and its targets are such that its bytes can be told: numbers, and references in order.
Writable(sect, targets) ==
    /\ IsSeq(sect.symbols) /\ sect.address \in Int /\ Orderly(sect)
    /\ \A i \in DOMAIN sect.symbols : WritableSymbol(sect.symbols[i], targets[i])

\* A word is four bytes, of either order.
LEMMA IntBytesAre ==
  ASSUME NEW v \in Int, NEW endian
  PROVE  IntBytes(v, endian) \in Seq(Int) /\ Len(IntBytes(v, endian)) = 4
  <1> DEFINE little == <<v % 256, (v \div 256) % 256, (v \div 65536) % 256, (v \div 16777216) % 256>>
  <1>1. little \in Seq(Int) /\ Len(little) = 4
    BY SMT
  <1> HIDE DEF little
  <1>1a. \A k \in 1 .. 4 : little[k] \in Int
    BY <1>1
  <1>2. Reverse(little) = [i \in 1 .. 4 |-> little[(4 - i) + 1]]
    BY <1>1, SMT DEF Reverse
  <1>3. \A i \in 1 .. 4 : little[(4 - i) + 1] \in Int
    <2> SUFFICES ASSUME NEW i \in 1 .. 4 PROVE little[(4 - i) + 1] \in Int
      OBVIOUS
    <2>1. PICK k : k = (4 - i) + 1
      OBVIOUS
    <2>2. k \in 1 .. 4
      BY <2>1
    <2> QED BY <1>1a, <2>1, <2>2
  <1>4. Reverse(little) \in Seq(Int) /\ Len(Reverse(little)) = 4
    BY <1>2, <1>3
  <1>5. IntBytes(v, endian) = IF endian = "little" THEN little ELSE Reverse(little)
    BY SMT DEF IntBytes, little
  <1> QED BY <1>1, <1>4, <1>5

\* The li opcodes of a reference are as many bytes as it is large, and load its value if it is one of
\* a word.
LEMMA LiBytesAre ==
  ASSUME NEW v \in Int, NEW n \in 1 .. 6
  PROVE  LiBytes(v, n) \in Seq(Int) /\ Len(LiBytes(v, n)) = n
  <1>1. \A k \in 1 .. n : 192 + ((v \div Power64[n - k + 1]) % 64) \in Int
    <2> SUFFICES ASSUME NEW k \in 1 .. n PROVE 192 + ((v \div Power64[n - k + 1]) % 64) \in Int
      OBVIOUS
    <2>1. n - k + 1 \in 1 .. 6
      OBVIOUS
    <2>2. (v \div Power64[n - k + 1]) % 64 \in 0 .. 63
      BY <2>1, DigitsAre
    <2> QED BY <2>2
  <1> QED BY <1>1 DEF LiBytes

\* The bytes of a reference, and that they mean what it does.
LEMMA RefBytesAre ==
  ASSUME NEW sect, sect.address \in Int, NEW ref, IsRef(ref), NEW target, WritableSymbol(ref, target),
         NEW offset \in Int, NEW endian
  PROVE  /\ RefBytes(sect, ref, offset, target, endian) \in Seq(Int)
         /\ Len(RefBytes(sect, ref, offset, target, endian)) = ref.size
         /\ endian = opts.endian
            /\ Stands(ref, sect.address + ref.cursor + offset, TargetValue(target, ref))
              => Written(RefBytes(sect, ref, offset, target, endian), ref, sect.address + ref.cursor + offset,
                         TargetValue(target, ref))
  <1> DEFINE value == TargetValue(target, ref)
             bytes == RefBytes(sect, ref, offset, target, endian)
             here == sect.address + ref.cursor + offset
  <1>1. /\ value \in Int /\ ref.cursor \in Int /\ ref.size \in Nat
        /\ Has(ref, "REFERENCE") => ref.size = 4
        /\ Has(ref, "LDABS") \/ Has(ref, "LDPCREL") => ref.size \in 1 .. 6
        /\ \A a, b \in Kinds : Has(ref, a) /\ Has(ref, b) => a = b
    BY DEF WritableSymbol, Numeric, Ordinary
  <1>2. Has(ref, "REFERENCE") \/ Has(ref, "LDABS") \/ Has(ref, "LDPCREL") \/ Has(ref, "ALIGN")
    BY IsRefIs
  <1>3. {"REFERENCE", "LDABS", "LDPCREL", "ALIGN"} = Kinds
    BY DEF Kinds
  <1>4. CASE Has(ref, "ALIGN")
    <2>1. ~Has(ref, "REFERENCE") /\ ~Has(ref, "LDABS") /\ ~Has(ref, "LDPCREL")
      BY <1>1, <1>3, <1>4
    <2>2. bytes = [k \in 1 .. ref.size |-> 0]
      BY <1>4, <2>1 DEF RefBytes
    <2>3. bytes \in Seq(Int) /\ Len(bytes) = ref.size
      BY <1>1, <2>2
    <2>4. Written(bytes, ref, here, value)
      BY <1>4, <2>1, <2>2 DEF Written
    <2> QED BY <2>3, <2>4
  <1>5. CASE Has(ref, "REFERENCE")
    <2>1. ~Has(ref, "ALIGN") /\ ~Has(ref, "LDABS") /\ ~Has(ref, "LDPCREL")
      BY <1>1, <1>3, <1>5
    <2>2. bytes = IntBytes(value, endian)
      BY <1>5, <2>1 DEF RefBytes
    <2>3. bytes \in Seq(Int) /\ Len(bytes) = ref.size
      BY <1>1, <1>5, <2>2, IntBytesAre
    <2>4. endian = opts.endian => Written(bytes, ref, here, value)
      BY <1>5, <2>1, <2>2 DEF Written
    <2> QED BY <2>3, <2>4
  <1>6. CASE Has(ref, "LDABS")
    <2>1. ~Has(ref, "ALIGN") /\ ~Has(ref, "REFERENCE") /\ ~Has(ref, "LDPCREL")
      BY <1>1, <1>3, <1>6
    <2>2. bytes = LiBytes(value, ref.size)
      BY <1>6, <2>1 DEF RefBytes
    <2>3. bytes \in Seq(Int) /\ Len(bytes) = ref.size
      BY <1>1, <1>6, <2>2, LiBytesAre
    <2>4. ASSUME Stands(ref, here, value), IsWord(value) PROVE Loads(bytes) = value
      <3>1. Fits(value, ref.size)
        BY <1>6, <2>1, <2>4 DEF Stands
      <3>2. Enough(value, ref.size)
        BY <2>4, <3>1 DEF Enough
      <3> HIDE DEF value, bytes
      <3> QED BY <1>1, <1>6, <2>2, <3>2, LoadsIs
    <2>5. Stands(ref, here, value) => Written(bytes, ref, here, value)
      <3> HIDE DEF value, bytes, here
      <3> QED BY <1>6, <2>1, <2>4 DEF Written
    <2> QED BY <2>3, <2>5
  <1>7. CASE Has(ref, "LDPCREL")
    <2>1. ~Has(ref, "ALIGN") /\ ~Has(ref, "REFERENCE") /\ ~Has(ref, "LDABS")
      BY <1>1, <1>3, <1>7
    <2> DEFINE distance == value - (here + ref.size + 1)
    <2>2. bytes = LiBytes(distance, ref.size) /\ distance \in Int
      <3>1. bytes = LiBytes(value - (sect.address + ref.cursor + ref.size + offset + 1), ref.size)
        BY <1>7, <2>1 DEF RefBytes
      <3>2. distance = value - (sect.address + ref.cursor + ref.size + offset + 1) /\ distance \in Int
        <4> HIDE DEF value
        <4> QED BY <1>1
      <3> HIDE DEF value, bytes, distance
      <3> QED BY <3>1, <3>2
    <2>3. bytes \in Seq(Int) /\ Len(bytes) = ref.size
      <3> HIDE DEF value, bytes, distance
      <3> QED BY <1>1, <1>7, <2>2, LiBytesAre
    <2>4. ASSUME Stands(ref, here, value), IsWord(distance) PROVE Loads(bytes) = distance
      <3>1. Fits(distance, ref.size)
        BY <1>7, <2>1, <2>4 DEF Stands
      <3>2. Enough(distance, ref.size)
        BY <2>4, <3>1 DEF Enough
      <3> HIDE DEF value, bytes, distance
      <3> QED BY <1>1, <1>7, <2>2, <3>2, LoadsIs
    <2>5. Stands(ref, here, value) => Written(bytes, ref, here, value)
      <3>1. Stands(ref, here, value) => (IsWord(distance) => Loads(bytes) = distance)
        BY <2>4
      <3> HIDE DEF value, bytes, here
      <3> QED BY <1>7, <2>1, <3>1 DEF Written
    <2> QED BY <2>3, <2>5
  <1> QED BY <1>2, <1>4, <1>5, <1>6, <1>7


\* Without a reference between them, what is taken up to two symbols is the same.
LEMMA TakenSame ==
  ASSUME NEW sect, IsSeq(sect.symbols),
         \A i \in DOMAIN sect.symbols : IsRef(sect.symbols[i]) => sect.symbols[i].size \in Int,
         NEW a \in 0 .. Len(sect.symbols), NEW b \in a .. Len(sect.symbols),
         \A i \in a + 1 .. b : ~IsRef(sect.symbols[i])
  PROVE  Taken(sect)[a] = Taken(sect)[b]
  <1> DEFINE t == Taken(sect)
             T == {d \in Nat : a + d <= b => t[a + d] = t[a]}
  <1>1. /\ \A i \in 0 .. Len(sect.symbols) : t[i] \in Int
        /\ \A i \in DOMAIN sect.symbols :
              t[i] = t[i - 1] + (IF IsRef(sect.symbols[i]) THEN sect.symbols[i].size ELSE 0)
    BY TakenIs
  <1>2. DOMAIN sect.symbols = 1 .. Len(sect.symbols) /\ Len(sect.symbols) \in Nat
    BY SeqIsFunction
  <1> HIDE DEF t
  <1>3. 0 \in T
    OBVIOUS
  <1>4. ASSUME NEW d \in Nat, d \in T PROVE d + 1 \in T
    <2> SUFFICES ASSUME a + (d + 1) <= b PROVE t[a + (d + 1)] = t[a]
      OBVIOUS
    <2>1. PICK i : i = a + (d + 1)
      OBVIOUS
    <2>2. i \in a + 1 .. b /\ i - 1 = a + d /\ a + d <= b /\ i \in 1 .. Len(sect.symbols)
          /\ i - 1 \in 0 .. Len(sect.symbols)
      BY <1>2, <2>1
    <2>3. t[i - 1] = t[a] /\ t[i - 1] \in Int
      BY <1>1, <1>4, <2>2
    <2>4. t[i] = t[i - 1] + 0
      BY <1>1, <1>2, <2>2
    <2> QED BY <2>1, <2>3, <2>4
  <1>5. \A d \in Nat : d \in T
    <2> HIDE DEF T
    <2> QED BY <1>3, <1>4, SetInduction
  <1>6. PICK d, m : d = b - a /\ m = a + d
    OBVIOUS
  <1>7. d \in Nat /\ m = b /\ m <= b
    BY <1>2, <1>6
  <1>8. t[m] = t[a]
    BY <1>5, <1>6, <1>7
  <1> QED BY <1>7, <1>8 DEF t

\* The j-th symbol, a reference, is written in the output as it should be.
RefIn(out, sect, targets, endian, j) ==
    LET sym == sect.symbols[j]
    IN  \A k \in 1 .. sym.size :
           /\ Reached(sym) + Taken(sect)[j - 1] + k \in 1 .. Len(out)
           /\ out[Reached(sym) + Taken(sect)[j - 1] + k]
                = RefBytes(sect, sym, Taken(sect)[j - 1], targets[j], endian)[k]

\* The byte of the code at c is in the output, behind the references that stand before it.
CodeIn(out, sect, j, c) ==
    /\ c + Taken(sect)[j] + 1 \in 1 .. Len(out)
    /\ out[c + Taken(sect)[j] + 1] = Code(sect, c, c + 1)[1]

\* The references up to the i-th symbol are in the output.
RefsIn(out, sect, targets, endian, i) ==
    \A j \in DOMAIN sect.symbols : IsRef(sect.symbols[j]) /\ j <= i => RefIn(out, sect, targets, endian, j)

\* The code up to the cursor is in the output.
CodesIn(out, sect, cursor) ==
    \A c \in 0 .. cursor - 1 : \A j \in 0 .. Len(sect.symbols) : Splits(sect, j, c) => CodeIn(out, sect, j, c)

\* What has been written stays when more is.
LEMMA InStays ==
  ASSUME NEW S, NEW x, NEW y, NEW z, Joined(S, x, y, z, Len(x), Len(z)), Len(z) = Len(x) + Len(y),
         NEW sect, NEW targets, NEW endian
  PROVE  /\ \A i : RefsIn(x, sect, targets, endian, i) => RefsIn(z, sect, targets, endian, i)
         /\ \A cursor : CodesIn(x, sect, cursor) => CodesIn(z, sect, cursor)
  <1>1. \A m : m \in 1 .. Len(x) => m \in 1 .. Len(z) /\ z[m] = x[m]
    BY DEF Joined
  <1>2. ASSUME NEW j, RefIn(x, sect, targets, endian, j) PROVE RefIn(z, sect, targets, endian, j)
    BY <1>1, <1>2 DEF RefIn
  <1>3. ASSUME NEW j, NEW c, CodeIn(x, sect, j, c) PROVE CodeIn(z, sect, j, c)
    BY <1>1, <1>3 DEF CodeIn
  <1> QED BY <1>2, <1>3 DEF RefsIn, CodesIn

\* All references up to the i-th symbol are before the cursor, the others are not.
Divides(sect, i, cursor) ==
    \A j \in DOMAIN sect.symbols :
        IsRef(sect.symbols[j]) =>
            IF j <= i THEN Reached(sect.symbols[j]) <= cursor ELSE cursor <= Reached(sect.symbols[j])

\* What the references of such a section take up is a number, and only grows.
LEMMA WritableTaken ==
  ASSUME NEW sect, NEW targets, Writable(sect, targets)
  PROVE  /\ DOMAIN sect.symbols = 1 .. Len(sect.symbols) /\ Len(sect.symbols) \in Nat
         /\ \A i \in DOMAIN sect.symbols : IsRef(sect.symbols[i]) => sect.symbols[i].size \in Int
         /\ Taken(sect)[0] = 0 /\ \A i \in 0 .. Len(sect.symbols) : Taken(sect)[i] \in Nat
         /\ \A i \in DOMAIN sect.symbols :
              Taken(sect)[i] = Taken(sect)[i - 1] + (IF IsRef(sect.symbols[i]) THEN sect.symbols[i].size ELSE 0)
         /\ \A i \in DOMAIN sect.symbols : IsRef(sect.symbols[i]) => Reached(sect.symbols[i]) \in 0 .. sect.cursor
         /\ sect.cursor \in Nat
  <1>1. IsSeq(sect.symbols) /\ Orderly(sect)
        /\ \A i \in DOMAIN sect.symbols : WritableSymbol(sect.symbols[i], targets[i])
    BY DEF Writable
  <1>2. DOMAIN sect.symbols = 1 .. Len(sect.symbols) /\ Len(sect.symbols) \in Nat
    BY <1>1, SeqIsFunction
  <1>3. \A i \in DOMAIN sect.symbols : IsRef(sect.symbols[i]) => sect.symbols[i].size \in Nat
    BY <1>1 DEF WritableSymbol
  <1>4. /\ Taken(sect)[0] = 0
        /\ \A i \in 0 .. Len(sect.symbols) : Taken(sect)[i] \in Int
        /\ \A i \in DOMAIN sect.symbols :
             Taken(sect)[i] = Taken(sect)[i - 1] + (IF IsRef(sect.symbols[i]) THEN sect.symbols[i].size ELSE 0)
    BY <1>1, <1>3, TakenIs
  <1> DEFINE t == Taken(sect)
             T == {i \in Nat : i <= Len(sect.symbols) => t[i] \in Nat}
  <1>5. 0 \in T
    BY <1>4
  <1>6. ASSUME NEW i \in Nat, i \in T PROVE i + 1 \in T
    <2> SUFFICES ASSUME i + 1 <= Len(sect.symbols) PROVE t[i + 1] \in Nat
      OBVIOUS
    <2>1. PICK m : m = i + 1
      OBVIOUS
    <2>2. m \in 1 .. Len(sect.symbols) /\ m - 1 = i /\ i <= Len(sect.symbols)
      BY <1>2, <2>1
    <2>3. t[m - 1] \in Nat
      BY <1>6, <2>2
    <2>4. t[m] = t[m - 1] + (IF IsRef(sect.symbols[m]) THEN sect.symbols[m].size ELSE 0)
      BY <1>2, <1>4, <2>2
    <2> HIDE DEF t
    <2> QED BY <1>2, <1>3, <2>1, <2>2, <2>3, <2>4
  <1>7. \A i \in 0 .. Len(sect.symbols) : t[i] \in Nat
    <2>1. \A i \in Nat : i \in T
      <3> HIDE DEF T
      <3> QED BY <1>5, <1>6, SetInduction
    <2> HIDE DEF t
    <2> QED BY <2>1
  <1>8. /\ \A i \in DOMAIN sect.symbols : IsRef(sect.symbols[i]) => Reached(sect.symbols[i]) \in 0 .. sect.cursor
        /\ sect.cursor \in Nat
    BY <1>1 DEF Orderly
  <1> QED BY <1>2, <1>3, <1>4, <1>7, <1>8

\* The code up to the next reference, behind what has been written.
LEMMA CodeHolds ==
  ASSUME NEW sect, NEW targets, Writable(sect, targets), NEW i \in 0 .. Len(sect.symbols),
         NEW a \in Nat, NEW b \in Nat, a <= b, NEW x, Len(x) = a + Taken(sect)[i], CodesIn(x, sect, a),
         Divides(sect, i, a), Divides(sect, i, b) \/ i = Len(sect.symbols),
         NEW z, Joined(ByteValues(sect), x, Code(sect, a, b), z, Len(x), Len(z)),
         Len(z) = Len(x) + Len(Code(sect, a, b)), NEW endian, RefsIn(x, sect, targets, endian, i)
  PROVE  Len(z) = b + Taken(sect)[i] /\ CodesIn(z, sect, b) /\ RefsIn(z, sect, targets, endian, i)
  <1>1. /\ DOMAIN sect.symbols = 1 .. Len(sect.symbols) /\ Len(sect.symbols) \in Nat
        /\ \A m \in 0 .. Len(sect.symbols) : Taken(sect)[m] \in Nat
        /\ \A m \in DOMAIN sect.symbols : IsRef(sect.symbols[m]) =>
              sect.symbols[m].size \in Int /\ Reached(sect.symbols[m]) \in Int
        /\ sect.cursor \in Nat
    BY WritableTaken
  <1>2. /\ Len(Code(sect, a, b)) = b - a
        /\ \A c \in a .. b - 1 : Code(sect, a, b)[c - a + 1] = Code(sect, c, c + 1)[1]
    BY CodeIs
  <1>3. Len(z) = b + Taken(sect)[i]
    BY <1>1, <1>2
  <1>4. CodesIn(z, sect, a) /\ RefsIn(z, sect, targets, endian, i)
    BY InStays
  <1>5. ASSUME NEW c \in a .. b - 1, NEW j \in 0 .. Len(sect.symbols), Splits(sect, j, c)
        PROVE  CodeIn(z, sect, j, c)
    <2>1. \A m \in DOMAIN sect.symbols : IsRef(sect.symbols[m]) => (m <= i <=> m <= j)
      <3> SUFFICES ASSUME NEW m \in DOMAIN sect.symbols, IsRef(sect.symbols[m]) PROVE m <= i <=> m <= j
        OBVIOUS
      <3>1. m <= j <=> Reached(sect.symbols[m]) <= c
        BY <1>5 DEF Splits
      <3>2. m <= i => Reached(sect.symbols[m]) <= a
        BY DEF Divides
      <3>3. m <= i \/ b <= Reached(sect.symbols[m])
        <4>1. CASE i = Len(sect.symbols)
          BY <1>1, <4>1
        <4>2. CASE Divides(sect, i, b)
          BY <4>2 DEF Divides
        <4> QED BY <4>1, <4>2
      <3>4. PICK r : r = Reached(sect.symbols[m])
        OBVIOUS
      <3>5. r \in Int
        BY <1>1, <3>4
      <3> QED BY <3>1, <3>2, <3>3, <3>4, <3>5
    <2>2. Taken(sect)[j] = Taken(sect)[i]
      <3>0. IsSeq(sect.symbols)
        BY DEF Writable
      <3>1. CASE j <= i
        <4>1. ASSUME NEW m \in j + 1 .. i PROVE ~IsRef(sect.symbols[m])
          <5>1. m \in DOMAIN sect.symbols /\ m <= i /\ ~(m <= j)
            BY <1>1
          <5> QED BY <2>1, <5>1
        <4>2. i \in j .. Len(sect.symbols)
          BY <1>1, <3>1
        <4> QED BY <1>1, <3>0, <4>1, <4>2, TakenSame
      <3>2. CASE ~(j <= i)
        <4>1. ASSUME NEW m \in i + 1 .. j PROVE ~IsRef(sect.symbols[m])
          <5>1. m \in DOMAIN sect.symbols /\ m <= j /\ ~(m <= i)
            BY <1>1
          <5> QED BY <2>1, <5>1
        <4>2. j \in i .. Len(sect.symbols)
          BY <1>1, <3>2
        <4> QED BY <1>1, <3>0, <4>1, <4>2, TakenSame
      <3> QED BY <3>1, <3>2
    <2>3. PICK t, k : t = Taken(sect)[i] /\ k = c - a + 1
      OBVIOUS
    <2>4. t \in Nat /\ k \in 1 .. Len(Code(sect, a, b)) /\ Len(x) + k = c + t + 1 /\ c + t + 1 \in 1 .. Len(z)
      <3>1. PICK l, lx, lz : l = Len(Code(sect, a, b)) /\ lx = Len(x) /\ lz = Len(z)
        OBVIOUS
      <3>2. l = b - a /\ lx = a + t /\ lz = b + t /\ t \in Nat
        BY <1>1, <1>2, <1>3, <2>3, <3>1
      <3>3. k \in 1 .. l /\ lx + k = c + t + 1 /\ c + t + 1 \in 1 .. lz
        <4>1. c \in Nat /\ a <= c /\ c + 1 <= b /\ a \in Nat /\ b \in Nat
          OBVIOUS
        <4>2. k \in 1 .. l
          BY <2>3, <3>2, <4>1
        <4>3. lx + k = c + t + 1
          BY <2>3, <3>2, <4>1
        <4> QED BY <3>2, <4>1, <4>2, <4>3
      <3> QED BY <3>1, <3>2, <3>3
    <2>5. z[Len(x) + k] = Code(sect, a, b)[k]
      BY <2>4 DEF Joined
    <2>6. Code(sect, a, b)[k] = Code(sect, c, c + 1)[1]
      BY <1>2, <2>3
    <2> QED BY <2>2, <2>3, <2>4, <2>5, <2>6 DEF CodeIn
  <1>6. CodesIn(z, sect, b)
    <2> SUFFICES ASSUME NEW c \in 0 .. b - 1, NEW j \in 0 .. Len(sect.symbols), Splits(sect, j, c)
                 PROVE  CodeIn(z, sect, j, c)
      BY DEF CodesIn
    <2>1. CASE c < a
      <3>1. c \in 0 .. a - 1
        BY <2>1
      <3> QED BY <1>4, <3>1 DEF CodesIn
    <2>2. CASE ~(c < a)
      BY <1>5, <2>2
    <2> QED BY <2>1, <2>2
  <1> QED BY <1>3, <1>4, <1>6

\* Up to the i-th symbol, a reference, x has been written; with its bytes y it is z.
RefFollows(sect, targets, endian, i, S, x, y, z) ==
    /\ Len(x) = Reached(sect.symbols[i]) + Taken(sect)[i - 1]
    /\ CodesIn(x, sect, Reached(sect.symbols[i])) /\ RefsIn(x, sect, targets, endian, i - 1)
    /\ y = RefBytes(sect, sect.symbols[i], Taken(sect)[i - 1], targets[i], endian)
    /\ Len(y) = sect.symbols[i].size
    /\ Joined(S, x, y, z, Len(x), Len(z)) /\ Len(z) = Len(x) + Len(y)

\* A reference behind what has been written.
LEMMA RefHolds ==
  ASSUME NEW sect, NEW targets, Writable(sect, targets), NEW i \in DOMAIN sect.symbols, IsRef(sect.symbols[i]),
         NEW endian, NEW S, NEW x, NEW y, NEW z, RefFollows(sect, targets, endian, i, S, x, y, z)
  PROVE  /\ Len(z) = Reached(sect.symbols[i]) + Taken(sect)[i]
         /\ CodesIn(z, sect, Reached(sect.symbols[i])) /\ RefsIn(z, sect, targets, endian, i)
  <1>0. /\ Len(x) = Reached(sect.symbols[i]) + Taken(sect)[i - 1]
        /\ CodesIn(x, sect, Reached(sect.symbols[i])) /\ RefsIn(x, sect, targets, endian, i - 1)
        /\ y = RefBytes(sect, sect.symbols[i], Taken(sect)[i - 1], targets[i], endian)
        /\ Len(y) = sect.symbols[i].size
        /\ Joined(S, x, y, z, Len(x), Len(z)) /\ Len(z) = Len(x) + Len(y)
    BY DEF RefFollows
  <1>1. /\ i - 1 \in 0 .. Len(sect.symbols) /\ i \in 1 .. Len(sect.symbols)
        /\ Taken(sect)[i - 1] \in Nat /\ Taken(sect)[i] = Taken(sect)[i - 1] + sect.symbols[i].size
        /\ sect.symbols[i].size \in Nat /\ Reached(sect.symbols[i]) \in Nat /\ Len(sect.symbols) \in Nat
        /\ DOMAIN sect.symbols = 1 .. Len(sect.symbols)
    <2>1. i - 1 \in 0 .. Len(sect.symbols) /\ i \in 1 .. Len(sect.symbols) /\ Len(sect.symbols) \in Nat
          /\ DOMAIN sect.symbols = 1 .. Len(sect.symbols)
      BY WritableTaken
    <2>2. Taken(sect)[i - 1] \in Nat /\ Taken(sect)[i] = Taken(sect)[i - 1] + sect.symbols[i].size
          /\ Reached(sect.symbols[i]) \in Nat
      BY <2>1, WritableTaken
    <2>3. sect.symbols[i].size \in Nat
      BY DEF Writable, WritableSymbol
    <2> QED BY <2>1, <2>2, <2>3
  <1>2. CodesIn(z, sect, Reached(sect.symbols[i])) /\ RefsIn(z, sect, targets, endian, i - 1)
    BY <1>0, InStays
  <1>3. RefIn(z, sect, targets, endian, i)
    <2> SUFFICES ASSUME NEW k \in 1 .. sect.symbols[i].size
                 PROVE  /\ Reached(sect.symbols[i]) + Taken(sect)[i - 1] + k \in 1 .. Len(z)
                        /\ z[Reached(sect.symbols[i]) + Taken(sect)[i - 1] + k] = y[k]
      BY <1>0 DEF RefIn
    <2>1. PICK r, t : r = Reached(sect.symbols[i]) /\ t = Taken(sect)[i - 1]
      OBVIOUS
    <2>2. r + t = Len(x) /\ r + t + k \in 1 .. Len(z)
      BY <1>0, <1>1, <2>1
    <2>3. z[Len(x) + k] = y[k]
      BY <1>0 DEF Joined
    <2> QED BY <2>1, <2>2, <2>3
  <1>4. RefsIn(z, sect, targets, endian, i)
    <2> SUFFICES ASSUME NEW j \in DOMAIN sect.symbols, IsRef(sect.symbols[j]), j <= i
                 PROVE  RefIn(z, sect, targets, endian, j)
      BY DEF RefsIn
    <2>1. j = i \/ j <= i - 1
      BY <1>1
    <2> QED BY <1>2, <1>3, <2>1 DEF RefsIn
  <1> QED BY <1>0, <1>1, <1>2, <1>4


\* What the function that writes a section goes through.
Accumulated(sect) == [out : Seq(ByteValues(sect)), cursor : Int, offset : Int]

\* What has been written when the i-th symbol has been, if acc had been before it.
Behind(sect, targets, endian, acc, i) ==
    IF ~IsRef(sect.symbols[i]) THEN acc
    ELSE [out    |-> acc.out \o Code(sect, acc.cursor, Reached(sect.symbols[i]))
                             \o RefBytes(sect, sect.symbols[i], acc.offset, targets[i], endian),
          cursor |-> Reached(sect.symbols[i]),
          offset |-> acc.offset + sect.symbols[i].size]

\* Code and reference have been put behind what there was.
Appended(sect, targets, endian, acc, i) ==
    LET S    == ByteValues(sect)
        code == Code(sect, acc.cursor, Reached(sect.symbols[i]))
        ref  == RefBytes(sect, sect.symbols[i], acc.offset, targets[i], endian)
        mid  == acc.out \o code
        out  == Behind(sect, targets, endian, acc, i).out
    IN  /\ Joined(S, acc.out, code, mid, Len(acc.out), Len(mid)) /\ Len(mid) = Len(acc.out) + Len(code)
        /\ Joined(S, mid, ref, out, Len(mid), Len(out)) /\ Len(out) = Len(mid) + Len(ref)
        /\ Len(ref) = sect.symbols[i].size

\* What is written behind the output does not change what stands in it.
LEMMA BehindIs ==
  ASSUME NEW sect, NEW targets, Writable(sect, targets), NEW endian,
         NEW i \in DOMAIN sect.symbols, NEW acc \in Accumulated(sect)
  PROVE  /\ Behind(sect, targets, endian, acc, i) \in Accumulated(sect)
         /\ IsRef(sect.symbols[i]) => Appended(sect, targets, endian, acc, i)
  <1> DEFINE S == ByteValues(sect)
             sym == sect.symbols[i]
             code == Code(sect, acc.cursor, Reached(sym))
             ref  == RefBytes(sect, sym, acc.offset, targets[i], endian)
             mid  == acc.out \o code
             out  == mid \o ref
             new  == Behind(sect, targets, endian, acc, i)
  <1> SUFFICES ASSUME IsRef(sym)
               PROVE  /\ new \in Accumulated(sect)
                      /\ Joined(S, acc.out, code, mid, Len(acc.out), Len(mid)) /\ Len(mid) = Len(acc.out) + Len(code)
                      /\ Joined(S, mid, ref, new.out, Len(mid), Len(new.out)) /\ Len(new.out) = Len(mid) + Len(ref)
                      /\ Len(ref) = sym.size
    BY DEF Behind, Appended
  <1>1. acc.out \in Seq(S) /\ acc.cursor \in Int /\ acc.offset \in Int
    BY DEF Accumulated
  <1>2. Reached(sym) \in Int /\ sym.size \in Nat /\ sect.address \in Int /\ WritableSymbol(sym, targets[i])
    <2>1. sect.address \in Int /\ WritableSymbol(sym, targets[i])
      BY DEF Writable
    <2>2. Reached(sym) \in Int
      BY WritableTaken
    <2> QED BY <2>1, <2>2 DEF WritableSymbol
  <1>3. code \in Seq(S)
    <2> HIDE DEF sym
    <2> QED BY <1>1, <1>2, CodeIs
  <1>4. ref \in Seq(S) /\ Len(ref) = sym.size
    <2>1. ref \in Seq(Int) /\ Len(ref) = sym.size
      <3>1. PICK t, o : t = targets[i] /\ o = acc.offset
        OBVIOUS
      <3> HIDE DEF sym
      <3>2. RefBytes(sect, sym, o, t, endian) \in Seq(Int) /\ Len(RefBytes(sect, sym, o, t, endian)) = sym.size
        <4>1. WritableSymbol(sym, t) /\ o \in Int
          BY <1>1, <1>2, <3>1
        <4> QED BY <1>2, <4>1, RefBytesAre
      <3> QED BY <3>1, <3>2
    <2>2. Int \subseteq S
      BY DEF ByteValues
    <2> HIDE DEF ref, S
    <2> QED BY <2>1, <2>2
  <1> HIDE DEF code, ref, S
  <1>5. mid \in Seq(S) /\ Len(mid) = Len(acc.out) + Len(code)
        /\ Joined(S, acc.out, code, mid, Len(acc.out), Len(mid))
    <2>1. mid \in Seq(S) /\ Len(mid) = Len(acc.out) + Len(code)
      BY <1>1, <1>3, ConcatIs
    <2>2. PICK x, z : x = acc.out /\ z = mid
      OBVIOUS
    <2>3. Joined(S, x, code, z, Len(x), Len(z))
      <3>1. x \in Seq(S) /\ z = x \o code /\ Len(z) = Len(x) + Len(code)
        BY <1>1, <2>1, <2>2
      <3> HIDE DEF mid
      <3> QED BY <1>3, <3>1, JoinIs
    <2> QED BY <2>1, <2>2, <2>3
  <1> HIDE DEF mid
  <1>6. out \in Seq(S) /\ Len(out) = Len(mid) + Len(ref) /\ Joined(S, mid, ref, out, Len(mid), Len(out))
    <2>1. out \in Seq(S) /\ Len(out) = Len(mid) + Len(ref)
      BY <1>4, <1>5, ConcatIs
    <2>2. PICK z : z = out
      OBVIOUS
    <2>3. Joined(S, mid, ref, z, Len(mid), Len(z))
      <3>1. z = mid \o ref /\ Len(z) = Len(mid) + Len(ref)
        BY <2>1, <2>2
      <3> HIDE DEF out
      <3> QED BY <1>4, <1>5, <3>1, JoinIs
    <2> QED BY <2>1, <2>2, <2>3
  <1>7. new = [out |-> out, cursor |-> Reached(sym), offset |-> acc.offset + sym.size]
    BY DEF Behind, mid, code, ref
  <1> HIDE DEF out, new
  <1>8. new.out = out /\ new \in Accumulated(sect)
    BY <1>1, <1>2, <1>6, <1>7 DEF Accumulated, S
  <1> QED BY <1>4, <1>5, <1>6, <1>8

\* When the i-th symbol has been written.
Produced(sect, targets, endian, i, acc) ==
    /\ acc \in Accumulated(sect)
    /\ acc.offset = Taken(sect)[i] /\ acc.cursor \in 0 .. sect.cursor
    /\ Len(acc.out) = acc.cursor + Taken(sect)[i] /\ Divides(sect, i, acc.cursor)
    /\ RefsIn(acc.out, sect, targets, endian, i) /\ CodesIn(acc.out, sect, acc.cursor)

\* One symbol more: what should be in the output is in it.
LEMMA ProducedNext ==
  ASSUME NEW sect, NEW targets, Writable(sect, targets), NEW endian, NEW i \in DOMAIN sect.symbols,
         NEW acc, Produced(sect, targets, endian, i - 1, acc)
  PROVE  Produced(sect, targets, endian, i, Behind(sect, targets, endian, acc, i))
  <1> DEFINE sym == sect.symbols[i]
             new == Behind(sect, targets, endian, acc, i)
  <1>0. acc \in Accumulated(sect)
    BY DEF Produced
  <1>1. /\ i \in 1 .. Len(sect.symbols) /\ i - 1 \in 0 .. Len(sect.symbols) /\ Len(sect.symbols) \in Nat
        /\ DOMAIN sect.symbols = 1 .. Len(sect.symbols)
        /\ Taken(sect)[i - 1] \in Nat
        /\ Taken(sect)[i] = Taken(sect)[i - 1] + (IF IsRef(sym) THEN sym.size ELSE 0)
        /\ sect.cursor \in Nat
    <2>1. i \in 1 .. Len(sect.symbols) /\ i - 1 \in 0 .. Len(sect.symbols) /\ Len(sect.symbols) \in Nat
          /\ DOMAIN sect.symbols = 1 .. Len(sect.symbols)
      BY WritableTaken
    <2> QED BY <2>1, WritableTaken
  <1>2. CASE ~IsRef(sym)
    <2>1. new = acc /\ Taken(sect)[i] = Taken(sect)[i - 1]
      BY <1>1, <1>2 DEF Behind
    <2>2. \A j \in DOMAIN sect.symbols : IsRef(sect.symbols[j]) => (j <= i <=> j <= i - 1)
      BY <1>1, <1>2
    <2>3. Divides(sect, i - 1, acc.cursor) => Divides(sect, i, acc.cursor)
      BY <2>2 DEF Divides
    <2>4. RefsIn(acc.out, sect, targets, endian, i - 1) => RefsIn(acc.out, sect, targets, endian, i)
      BY <2>2 DEF RefsIn
    <2>5. PICK s, w : s = Taken(sect)[i - 1] /\ w = Taken(sect)[i]
      OBVIOUS
    <2>6. /\ acc.offset = s /\ acc.cursor \in 0 .. sect.cursor /\ Len(acc.out) = acc.cursor + s
          /\ Divides(sect, i - 1, acc.cursor) /\ RefsIn(acc.out, sect, targets, endian, i - 1)
          /\ CodesIn(acc.out, sect, acc.cursor)
      BY <2>5 DEF Produced
    <2>7. Produced(sect, targets, endian, i, acc)
      <3>1. w = s
        BY <2>1, <2>5
      <3> QED BY <1>0, <2>3, <2>4, <2>5, <2>6, <3>1 DEF Produced
    <2> QED BY <2>1, <2>7
  <1>3. CASE IsRef(sym)
    <2> DEFINE S    == ByteValues(sect)
               b    == Reached(sym)
               code == Code(sect, acc.cursor, b)
               ref  == RefBytes(sect, sym, acc.offset, targets[i], endian)
               mid  == acc.out \o code
    <2>1. /\ new \in Accumulated(sect)
          /\ Joined(S, acc.out, code, mid, Len(acc.out), Len(mid)) /\ Len(mid) = Len(acc.out) + Len(code)
          /\ Joined(S, mid, ref, new.out, Len(mid), Len(new.out)) /\ Len(new.out) = Len(mid) + Len(ref)
          /\ Len(ref) = sym.size
      <3>1. new \in Accumulated(sect) /\ Appended(sect, targets, endian, acc, i)
        BY <1>0, <1>3, BehindIs
      <3> QED BY <3>1 DEF Appended
    <2>2. new.cursor = b /\ new.offset = acc.offset + sym.size
      BY <1>3 DEF Behind
    <2>3. /\ acc.offset = Taken(sect)[i - 1] /\ acc.cursor \in 0 .. sect.cursor
          /\ Len(acc.out) = acc.cursor + Taken(sect)[i - 1] /\ Divides(sect, i - 1, acc.cursor)
          /\ RefsIn(acc.out, sect, targets, endian, i - 1) /\ CodesIn(acc.out, sect, acc.cursor)
      BY DEF Produced
    <2>4. acc.cursor <= b /\ b \in 0 .. sect.cursor /\ b \in Nat /\ acc.cursor \in Nat
      <3>1. b \in 0 .. sect.cursor
        BY <1>1, <1>3, WritableTaken
      <3>2. acc.cursor <= b
        BY <1>1, <1>3, <2>3 DEF Divides
      <3> HIDE DEF b
      <3> QED BY <1>1, <2>3, <3>1, <3>2
    <2>5. Divides(sect, i - 1, b) /\ Divides(sect, i, b)
      <3>1. ASSUME NEW j \in DOMAIN sect.symbols, IsRef(sect.symbols[j])
            PROVE  IF j <= i THEN Reached(sect.symbols[j]) <= b ELSE b <= Reached(sect.symbols[j])
        <4>1. Orderly(sect)
          BY DEF Writable
        <4>2. j <= i => Reached(sect.symbols[j]) <= b
          BY <1>3, <3>1, <4>1 DEF Orderly
        <4>3. i <= j => b <= Reached(sect.symbols[j])
          BY <1>3, <3>1, <4>1 DEF Orderly
        <4> QED BY <1>1, <4>2, <4>3
      <3>2. Divides(sect, i, b)
        BY <3>1 DEF Divides
      <3>3. ASSUME NEW j \in DOMAIN sect.symbols, IsRef(sect.symbols[j])
            PROVE  IF j <= i - 1 THEN Reached(sect.symbols[j]) <= b ELSE b <= Reached(sect.symbols[j])
        <4>1. CASE j = i
          <5>1. ~(j <= i - 1) /\ b <= b
            BY <1>1, <2>4, <4>1
          <5> QED BY <4>1, <5>1
        <4>2. CASE j # i
          <5>1. j <= i - 1 <=> j <= i
            BY <1>1, <4>2
          <5> QED BY <3>1, <3>3, <5>1
        <4> QED BY <4>1, <4>2
      <3>4. Divides(sect, i - 1, b)
        BY <3>3 DEF Divides
      <3> QED BY <3>2, <3>4
    <2>6. PICK a, x, z, m, o : a = acc.cursor /\ x = acc.out /\ z = mid /\ m = i - 1 /\ o = new.out
      OBVIOUS
    <2>7. Len(z) = b + Taken(sect)[m] /\ CodesIn(z, sect, b) /\ RefsIn(z, sect, targets, endian, m)
      <3>1. /\ m \in 0 .. Len(sect.symbols) /\ a \in Nat /\ b \in Nat /\ a <= b
            /\ Len(x) = a + Taken(sect)[m] /\ CodesIn(x, sect, a)
            /\ Divides(sect, m, a) /\ Divides(sect, m, b)
            /\ Joined(S, x, Code(sect, a, b), z, Len(x), Len(z)) /\ Len(z) = Len(x) + Len(Code(sect, a, b))
            /\ RefsIn(x, sect, targets, endian, m)
        <4> HIDE DEF mid, b, S
        <4> QED BY <1>1, <2>1, <2>3, <2>4, <2>5, <2>6
      <3> HIDE DEF b
      <3> QED BY <3>1, CodeHolds DEF S
    <2>8. /\ Len(o) = b + Taken(sect)[i] /\ CodesIn(o, sect, b) /\ RefsIn(o, sect, targets, endian, i)
      <3>1. PICK y : y = ref
        OBVIOUS
      <3>2. /\ Len(z) = Reached(sect.symbols[i]) + Taken(sect)[i - 1] /\ CodesIn(z, sect, Reached(sect.symbols[i]))
            /\ RefsIn(z, sect, targets, endian, i - 1) /\ IsRef(sect.symbols[i])
            /\ y = RefBytes(sect, sect.symbols[i], Taken(sect)[i - 1], targets[i], endian)
            /\ Len(y) = sect.symbols[i].size /\ Joined(S, z, y, o, Len(z), Len(o)) /\ Len(o) = Len(z) + Len(y)
        <4>1. y = RefBytes(sect, sect.symbols[i], Taken(sect)[i - 1], targets[i], endian)
          BY <2>3, <3>1
        <4> HIDE DEF mid, S, ref, new
        <4> QED BY <1>3, <2>1, <2>6, <2>7, <3>1, <4>1
      <3>3. RefFollows(sect, targets, endian, i, S, z, y, o)
        BY <3>2 DEF RefFollows
      <3> QED BY <3>2, <3>3, RefHolds
    <2>9. new.offset = Taken(sect)[i]
      <3> HIDE DEF new
      <3> QED BY <1>1, <1>3, <2>2, <2>3
    <2>10. Len(new.out) = b + Taken(sect)[i] /\ CodesIn(new.out, sect, b) /\ RefsIn(new.out, sect, targets, endian, i)
      BY <2>6, <2>8
    <2>11. new \in Accumulated(sect)
      BY <2>1
    <2>12. PICK w, l, r : w = new /\ l = Taken(sect)[i] /\ r = b
      OBVIOUS
    <2>13. Produced(sect, targets, endian, i, w)
      <3>1. /\ w \in Accumulated(sect) /\ w.offset = l /\ w.cursor = r /\ r \in 0 .. sect.cursor
            /\ Len(w.out) = r + l /\ Divides(sect, i, r)
            /\ RefsIn(w.out, sect, targets, endian, i) /\ CodesIn(w.out, sect, r)
        <4> HIDE DEF new, b
        <4> QED BY <2>2, <2>4, <2>5, <2>9, <2>10, <2>11, <2>12
      <3> QED BY <2>12, <3>1 DEF Produced
    <2> QED BY <2>12, <2>13
  <1> QED BY <1>2, <1>3

\* The output of a section: its code and its references, each where it belongs.
LEMMA OutputIs ==
  ASSUME NEW sect, NEW targets, Writable(sect, targets), ~Has(sect, "BSS"), NEW endian
  PROVE  LET out == OutputExe(sect, targets, endian)
         IN  /\ out \in Seq(ByteValues(sect)) /\ Len(out) = sect.cursor + Taken(sect)[Len(sect.symbols)]
             /\ RefsIn(out, sect, targets, endian, Len(sect.symbols)) /\ CodesIn(out, sect, sect.cursor)
  <1> DEFINE n == Len(sect.symbols)
             V == Accumulated(sect)
             Init0 == [out |-> <<>>, cursor |-> 0, offset |-> 0]
             Step(acc, i) == Behind(sect, targets, endian, acc, i)
             P(f) == f = [i \in 0 .. n |-> IF i = 0 THEN Init0 ELSE Step(f[i - 1], i)]
             done == CHOOSE f : P(f)
             all == done[n]
             g == [ix \in (1 .. n) \X V |-> Step(ix[2], ix[1])]
  <1>1. OutputExe(sect, targets, endian) = all.out \o Code(sect, all.cursor, sect.cursor)
    BY DEF OutputExe, Behind
  <1>2. n \in Nat /\ DOMAIN sect.symbols = 1 .. n /\ sect.cursor \in Nat
    BY WritableTaken
  <1>3. Init0 \in V
    BY DEF Accumulated
  <1>4. \A i \in 1 .. n : \A x \in V : g[<<i, x>>] = Step(x, i) /\ g[<<i, x>>] \in V
    <2> SUFFICES ASSUME NEW i \in 1 .. n, NEW x \in V PROVE g[<<i, x>>] = Step(x, i) /\ Step(x, i) \in V
      OBVIOUS
    <2>1. g[<<i, x>>] = Step(x, i)
      OBVIOUS
    <2>2. Step(x, i) \in V
      BY <1>2, BehindIs
    <2> QED BY <2>1, <2>2
  <1> HIDE DEF g, V, Init0
  <1>5. PICK f \in [0 .. n -> V] : Follows(n, Init0, g, f)
    <2> HIDE DEF n, Step
    <2> QED BY <1>2, <1>3, <1>4, RecursionIn
  <1>6. P(f)
    <2>1. ASSUME NEW i \in 0 .. n PROVE f[i] = IF i = 0 THEN Init0 ELSE Step(f[i - 1], i)
      <3>1. CASE i = 0
        BY <1>5, <3>1 DEF Follows
      <3>2. CASE i # 0
        <4>1. i \in 1 .. n /\ i - 1 \in 0 .. n
          BY <1>2, <3>2
        <4>2. f[i] = g[<<i, f[i - 1]>>] /\ f[i - 1] \in V
          BY <1>5, <4>1 DEF Follows
        <4> HIDE DEF Step
        <4> QED BY <1>4, <3>2, <4>1, <4>2
      <3> QED BY <3>1, <3>2
    <2>2. f = [i \in 0 .. n |-> f[i]]
      OBVIOUS
    <2> HIDE DEF Step, n
    <2> QED BY <2>1, <2>2
  <1>7. P(done)
    <2> HIDE DEF P
    <2> QED BY <1>6
  <1> HIDE DEF done
  <1>8. done[0] = Init0 /\ \A i \in 1 .. n : done[i] = Step(done[i - 1], i)
    <2>1. \A i \in 0 .. n : done[i] = IF i = 0 THEN Init0 ELSE Step(done[i - 1], i)
      <3> HIDE DEF Step, n
      <3> QED BY <1>7
    <2>2. 0 \in 0 .. n /\ \A i \in 1 .. n : i \in 0 .. n /\ i # 0
      BY <1>2
    <2> HIDE DEF Step, n
    <2> QED BY <2>1, <2>2
  <1> HIDE DEF P
  <1> DEFINE T == {i \in Nat : i <= n => Produced(sect, targets, endian, i, done[i])}
  <1>9. 0 \in T
    <2>1. Taken(sect)[0] = 0
      BY WritableTaken
    <2>2. Init0.out = <<>> /\ Init0.cursor = 0 /\ Init0.offset = 0
      BY DEF Init0
    <2>3. Divides(sect, 0, 0)
      <3>1. \A j \in DOMAIN sect.symbols : IsRef(sect.symbols[j]) => Reached(sect.symbols[j]) \in 0 .. sect.cursor
        BY WritableTaken
      <3> QED BY <1>2, <3>1 DEF Divides
    <2>4. RefsIn(<<>>, sect, targets, endian, 0) /\ CodesIn(<<>>, sect, 0)
      BY <1>2 DEF RefsIn, CodesIn
    <2>5. Produced(sect, targets, endian, 0, Init0)
      BY <1>2, <1>3, <2>1, <2>2, <2>3, <2>4 DEF Produced, V
    <2> QED BY <1>8, <2>5
  <1>10. ASSUME NEW i \in Nat, i \in T PROVE i + 1 \in T
    <2> SUFFICES ASSUME i + 1 <= n PROVE Produced(sect, targets, endian, i + 1, done[i + 1])
      OBVIOUS
    <2>1. PICK m : m = i + 1
      OBVIOUS
    <2>2. m \in 1 .. n /\ m - 1 = i /\ i <= n
      BY <1>2, <2>1
    <2>3. Produced(sect, targets, endian, m - 1, done[m - 1])
      BY <1>10, <2>2
    <2>4. PICK acc : acc = done[m - 1]
      OBVIOUS
    <2>5. Produced(sect, targets, endian, m, Step(acc, m))
      BY <1>2, <2>2, <2>3, <2>4, ProducedNext
    <2>6. done[m] = Step(acc, m)
      BY <1>8, <2>2, <2>4
    <2> HIDE DEF Step
    <2> QED BY <2>1, <2>5, <2>6
  <1>11. Produced(sect, targets, endian, n, all)
    <2>1. \A i \in Nat : i \in T
      <3> HIDE DEF T
      <3> QED BY <1>9, <1>10, SetInduction
    <2> QED BY <1>2, <2>1
  <1> HIDE DEF all, T
  <1>12. PICK x, a, z : x = all.out /\ a = all.cursor /\ z = x \o Code(sect, a, sect.cursor)
    OBVIOUS
  <1>13. /\ x \in Seq(ByteValues(sect)) /\ a \in 0 .. sect.cursor /\ Len(x) = a + Taken(sect)[n]
         /\ Divides(sect, n, a) /\ RefsIn(x, sect, targets, endian, n) /\ CodesIn(x, sect, a)
    BY <1>11, <1>12 DEF Produced, Accumulated
  <1>14. Code(sect, a, sect.cursor) \in Seq(ByteValues(sect))
    BY <1>2, <1>13, CodeIs
  <1>15. z \in Seq(ByteValues(sect)) /\ Len(z) = Len(x) + Len(Code(sect, a, sect.cursor))
    BY <1>12, <1>13, <1>14, ConcatIs
  <1>16. Joined(ByteValues(sect), x, Code(sect, a, sect.cursor), z, Len(x), Len(z))
    BY <1>12, <1>13, <1>14, <1>15, JoinIs
  <1>17. /\ Len(z) = sect.cursor + Taken(sect)[n] /\ CodesIn(z, sect, sect.cursor)
         /\ RefsIn(z, sect, targets, endian, n)
    <2>1. n \in 0 .. n /\ a \in Nat /\ a <= sect.cursor
      BY <1>2, <1>13
    <2>2. PICK b, m : b = sect.cursor /\ m = n
      OBVIOUS
    <2>3. /\ m \in 0 .. Len(sect.symbols) /\ a \in Nat /\ b \in Nat /\ a <= b
          /\ Len(x) = a + Taken(sect)[m] /\ CodesIn(x, sect, a)
          /\ Divides(sect, m, a) /\ m = Len(sect.symbols)
          /\ Joined(ByteValues(sect), x, Code(sect, a, b), z, Len(x), Len(z))
          /\ Len(z) = Len(x) + Len(Code(sect, a, b)) /\ RefsIn(x, sect, targets, endian, m)
      BY <1>2, <1>13, <1>15, <1>16, <2>1, <2>2
    <2>4. Len(z) = b + Taken(sect)[m] /\ CodesIn(z, sect, b) /\ RefsIn(z, sect, targets, endian, m)
      <3> QED BY <2>3, CodeHolds
    <2> QED BY <2>2, <2>4
  <1> QED BY <1>1, <1>12, <1>15, <1>17

-----------------------------------------------------------------------------
(* References stand in the order of their sections' code.                  *)

\* A section whose references stand in order, and whose alignments have sizes.
Tidy(sect) ==
    /\ Orderly(sect)
    /\ \A i \in DOMAIN sect.symbols : Has(sect.symbols[i], "ALIGN") => sect.symbols[i].size \in Nat

\* The references of the one section are the other's, where they were.
SameRefs(new, sect) ==
    /\ new.cursor = sect.cursor
    /\ \A i \in DOMAIN new.symbols :
          IsRef(new.symbols[i]) =>
              /\ i \in DOMAIN sect.symbols /\ IsRef(sect.symbols[i])
              /\ Reached(new.symbols[i]) = Reached(sect.symbols[i])
              /\ Has(new.symbols[i], "ALIGN") => new.symbols[i].size \in Nat

\* A section in which nothing is written.
Empty(sect) == sect.cursor = 0 /\ \A i \in DOMAIN sect.symbols : ~IsRef(sect.symbols[i])

\* A section is as tidy as another one with the same code and the same symbols in the same places.
LEMMA TidyAgain ==
  ASSUME NEW sect, Tidy(sect), NEW new, SameRefs(new, sect)
  PROVE  Tidy(new) /\ (Empty(sect) => Empty(new))
  <1>1. Orderly(new)
    BY DEF Tidy, SameRefs, Orderly
  <1>2. \A i \in DOMAIN new.symbols : Has(new.symbols[i], "ALIGN") => new.symbols[i].size \in Nat
    BY IsRefIs DEF SameRefs
  <1>3. Empty(sect) => Empty(new)
    BY DEF Empty, SameRefs
  <1> QED BY <1>1, <1>2, <1>3 DEF Tidy

\* The references of a section that has them all are its own.
LEMMA TidySame ==
  ASSUME NEW sect, Tidy(sect)
  PROVE  SameRefs(sect, sect)
  BY DEF Tidy, SameRefs

\* A definition more, at any place, changes none.
LEMMA FlagTidy ==
  ASSUME NEW sect, Loaded(sect), Tidy(sect), NEW id, NEW flags \in {{"GLOBAL"}, {"CONSTANT", "GLOBAL"}}
  PROVE  SameRefs(FlagSymbol(sect, id, flags), sect)
  <1> DEFINE one == GetSymbol(sect, id)
             new == FlagSymbol(sect, id, flags)
             sym == Symbol(id, -1, {}, 0)
             k == FindSymbol(one, id)
  <1>1. Loaded(one) /\ SameRefs(one, sect)
    <2>1. CASE one = sect
      BY <2>1, TidySame
    <2>2. CASE one = AddSymbol(sect, sym)
      <3>1. one.symbols = Append(sect.symbols, sym) /\ one.cursor = sect.cursor
        BY <2>2 DEF Loaded, SectOK, AddSymbol
      <3>2. ~IsRef(sym)
        BY DEF Symbol, IsRef
      <3>3. \A i \in DOMAIN one.symbols :
               IsRef(one.symbols[i]) => i \in DOMAIN sect.symbols /\ one.symbols[i] = sect.symbols[i]
        <4> HIDE DEF one, sym
        <4> QED BY <3>1, <3>2, AppendIs DEF Loaded
      <3>4. SameRefs(one, sect)
        <4> HIDE DEF one
        <4> QED BY <3>1, <3>3 DEF SameRefs, Tidy
      <3>5. Loaded(one)
        BY <2>2, AddKeeps, SymbolOK
      <3> HIDE DEF one
      <3> QED BY <3>1, <3>4, <3>5
    <2> QED BY <2>1, <2>2 DEF GetSymbol
  <1>2. new = [one EXCEPT !.symbols[k].flags = @ \cup flags]
    BY DEF FlagSymbol
  <1>3. k # 0 => ~IsRef(one.symbols[k])
    BY <1>1, FindIs
  <1>4. 0 \notin DOMAIN one.symbols
    BY <1>1, SeqIsFunction DEF Loaded
  <1> HIDE DEF one, new, k
  <1>5. new.symbols = [one.symbols EXCEPT ![k].flags = @ \cup flags] /\ new.cursor = one.cursor
    BY <1>1, <1>2 DEF Loaded, SectOK
  <1>6. ASSUME NEW i \in DOMAIN one.symbols, IsRef(new.symbols[i]) PROVE new.symbols[i] = one.symbols[i]
    <2>1. CASE i # k
      BY <1>5, <2>1
    <2>2. CASE i = k
      <3>1. SizeOK(one.symbols[i])
        BY <1>1 DEF Loaded, SectOK
      <3>2. new.symbols[i] = [one.symbols[i] EXCEPT !.flags = @ \cup flags]
        BY <1>5, <2>2
      <3>3. new.symbols[i].flags = one.symbols[i].flags \cup flags
        BY <3>1, <3>2 DEF SizeOK
      <3>4. ~IsRef(one.symbols[i])
        BY <1>3, <1>4, <2>2
      <3>5. ~IsRef(new.symbols[i])
        BY <3>3, <3>4 DEF IsRef
      <3> QED BY <1>6, <3>5
    <2> QED BY <2>1, <2>2
  <1>7. DOMAIN new.symbols = DOMAIN one.symbols
    BY <1>5
  <1>8. SameRefs(new, sect)
    BY <1>1, <1>5, <1>6, <1>7 DEF SameRefs
  <1> QED BY <1>8 DEF new

\* Nor does moving one.
LEMMA PlaceTidy ==
  ASSUME NEW sect, Loaded(sect), Tidy(sect), NEW id, NEW cursor
  PROVE  SameRefs(PlaceSymbol(sect, id, cursor), sect)
  <1> DEFINE new == PlaceSymbol(sect, id, cursor)
             k == FindSymbol(sect, id)
  <1>1. new = [sect EXCEPT !.symbols[k].cursor = cursor]
    BY DEF PlaceSymbol
  <1>2. k # 0 => ~IsRef(sect.symbols[k])
    BY FindIs
  <1>3. 0 \notin DOMAIN sect.symbols
    BY SeqIsFunction DEF Loaded
  <1> HIDE DEF new, k
  <1>4. new.symbols = [sect.symbols EXCEPT ![k].cursor = cursor] /\ new.cursor = sect.cursor
    BY <1>1 DEF Loaded, SectOK
  <1>5. ASSUME NEW i \in DOMAIN sect.symbols, IsRef(new.symbols[i]) PROVE new.symbols[i] = sect.symbols[i]
    <2>1. CASE i # k
      BY <1>4, <2>1
    <2>2. CASE i = k
      <3>1. SizeOK(sect.symbols[i])
        BY DEF Loaded, SectOK
      <3>2. new.symbols[i] = [sect.symbols[i] EXCEPT !.cursor = cursor]
        BY <1>4, <2>2
      <3>3. new.symbols[i].flags = sect.symbols[i].flags
        BY <3>1, <3>2 DEF SizeOK
      <3>4. ~IsRef(sect.symbols[i])
        BY <1>2, <1>3, <2>2
      <3> QED BY <1>5, <3>3, <3>4 DEF IsRef
    <2> QED BY <2>1, <2>2
  <1>6. DOMAIN new.symbols = DOMAIN sect.symbols
    BY <1>4
  <1>7. SameRefs(new, sect)
    BY <1>4, <1>5, <1>6, IsRefIs DEF SameRefs, Tidy
  <1> QED BY <1>7 DEF new

\* A section is tidy when it is loaded.
LEMMA LoadTidy ==
  ASSUME NEW saved, IsSeq(saved.symbols), Orderly(saved)
  PROVE  Tidy(LoadSection(saved))
  <1> DEFINE new == LoadSection(saved)
  <1>1. /\ new.symbols = [i \in DOMAIN saved.symbols |-> LoadSymbol(saved.symbols[i])]
        /\ new.cursor = saved.cursor
    BY DEF LoadSection, Section
  <1> HIDE DEF new
  <1>2. \A i \in DOMAIN saved.symbols :
           /\ new.symbols[i].flags = saved.symbols[i].flags /\ new.symbols[i].cursor = saved.symbols[i].cursor
           /\ new.symbols[i].size = 0
    BY <1>1 DEF LoadSymbol, Symbol
  <1>3. \A i \in DOMAIN saved.symbols :
           /\ IsRef(new.symbols[i]) <=> IsRef(saved.symbols[i])
           /\ Reached(new.symbols[i]) = Reached(saved.symbols[i])
    BY <1>2 DEF IsRef, Reached, Has
  <1>4. DOMAIN new.symbols = DOMAIN saved.symbols
    BY <1>1
  <1>5. Orderly(new)
    BY <1>1, <1>3, <1>4 DEF Orderly
  <1>6. Tidy(new)
    BY <1>2, <1>4, <1>5 DEF Tidy
  <1> QED BY <1>6 DEF new

\* The linker's own sections are tidy; but for an alignment they are empty.
LEMMA BuiltinTidy ==
  ASSUME NEW id, NEW flag, NEW align \in {0, 4}
  PROVE  /\ Tidy(AddBuiltin(id, flag, align))
         /\ align = 0 => Empty(AddBuiltin(id, flag, align))
  <1> DEFINE sect == Section(id, {flag})
             sym == Symbol("algn", sect.cursor - 1, {"ALIGN"}, align)
  <1>1. Loaded(sect) /\ sect.cursor = 0 /\ sect.symbols = <<>> /\ DOMAIN sect.symbols = {}
    <2>1. /\ sect.symbols = <<>> /\ {"id", "flags", "symbols", "cursor", "address", "offset"} \subseteq DOMAIN sect
          /\ sect.cursor = 0
      BY DEF Section
    <2>2. IsSeq(sect.symbols) /\ DOMAIN sect.symbols = {}
      <3>1. <<>> \in Seq({}) /\ DOMAIN <<>> = {}
        OBVIOUS
      <3> QED BY <2>1, <3>1 DEF IsSeq
    <2> HIDE DEF sect
    <2> QED BY <2>1, <2>2 DEF Loaded, SectOK
  <1>2. ASSUME NEW x, Loaded(x), Tidy(x)
        PROVE  LET new == DeclareSymbol(x, id, {"GLOBAL"}) IN Tidy(new) /\ (Empty(x) => Empty(new))
    <2> DEFINE y == FlagSymbol(x, id, {"GLOBAL"})
    <2>1. Loaded(y) /\ SameRefs(y, x)
      BY <1>2, FlagKeeps, FlagTidy
    <2> HIDE DEF y
    <2>2. Tidy(y) /\ (Empty(x) => Empty(y))
      BY <1>2, <2>1, TidyAgain
    <2>3. SameRefs(PlaceSymbol(y, id, x.cursor), y)
      BY <2>1, <2>2, PlaceTidy
    <2>4. DeclareSymbol(x, id, {"GLOBAL"}) = PlaceSymbol(y, id, x.cursor)
      BY DEF DeclareSymbol, y
    <2> QED BY <2>2, <2>3, <2>4, TidyAgain
  <1>3. CASE align = 0
    <2>1. Tidy(sect) /\ Empty(sect)
      <3> HIDE DEF sect
      <3> QED BY <1>1 DEF Tidy, Orderly, Empty
    <2>2. AddBuiltin(id, flag, align) = DeclareSymbol(sect, id, {"GLOBAL"})
      BY <1>3 DEF AddBuiltin
    <2> HIDE DEF sect
    <2> QED BY <1>1, <1>2, <2>1, <2>2
  <1>4. CASE align # 0
    <2>1. Align(sect, align) = AddSymbol(sect, sym) /\ SizeOK(sym)
      BY SymbolOK DEF Align
    <2>2. AddBuiltin(id, flag, align) = DeclareSymbol(AddSymbol(sect, sym), id, {"GLOBAL"})
      BY <1>4, <2>1 DEF AddBuiltin
    <2> DEFINE x == AddSymbol(sect, sym)
    <2>3. x.cursor = 0 /\ x.symbols = <<sym>>
      BY <1>1 DEF AddSymbol, Section
    <2>4. Reached(sym) = 0 /\ sym.size = 0
      BY <1>1 DEF Reached, Symbol, Has
    <2> HIDE DEF sect, sym
    <2>5. Loaded(x)
      BY <1>1, <2>1, AddKeeps
    <2> HIDE DEF x
    <2>6. DOMAIN x.symbols = {1} /\ x.symbols[1] = sym
      BY <2>3
    <2>7. Tidy(x)
      BY <2>3, <2>4, <2>6 DEF Tidy, Orderly
    <2> QED BY <1>2, <1>4, <2>2, <2>5, <2>7 DEF x
  <1> QED BY <1>3, <1>4


\* All of the linker's own sections are tidy, and its relocation table is empty.
LEMMA SectionMapTidy ==
  ASSUME NEW reloc
  PROVE  \A s \in DOMAIN SectionMap(reloc) :
            /\ Tidy(SectionMap(reloc)[s])
            /\ SectionMap(reloc)[s].id = "__reloctable__" => Empty(SectionMap(reloc)[s])
  <1> DEFINE X == {x : x \in {AddBuiltin("__ctors_start__", "CTOR", 0), AddBuiltin("__ctors_end__", "CTOR", 0),
                              AddBuiltin("__dtors_start__", "DTOR", 0), AddBuiltin("__dtors_end__", "DTOR", 0),
                              AddBuiltin("__reloctable__", "BSS", 0),
                              AddBuiltin("__bss_start__", "BSS", 4), AddBuiltin("__bss_end__", "BSS", 4)}}
  <1>1. SectionMap(reloc) \in Seq(X)
    <2>1. /\ AddBuiltin("__ctors_start__", "CTOR", 0) \in X /\ AddBuiltin("__ctors_end__", "CTOR", 0) \in X
          /\ AddBuiltin("__dtors_start__", "DTOR", 0) \in X /\ AddBuiltin("__dtors_end__", "DTOR", 0) \in X
          /\ AddBuiltin("__reloctable__", "BSS", 0) \in X
          /\ AddBuiltin("__bss_start__", "BSS", 4) \in X /\ AddBuiltin("__bss_end__", "BSS", 4) \in X
      OBVIOUS
    <2> HIDE DEF X
    <2>2. <<AddBuiltin("__ctors_start__", "CTOR", 0), AddBuiltin("__ctors_end__", "CTOR", 0),
            AddBuiltin("__dtors_start__", "DTOR", 0), AddBuiltin("__dtors_end__", "DTOR", 0)>> \in Seq(X)
      BY <2>1
    <2>3. <<AddBuiltin("__reloctable__", "BSS", 0)>> \in Seq(X) /\ <<>> \in Seq(X)
      BY <2>1
    <2>4. <<AddBuiltin("__bss_start__", "BSS", 4), AddBuiltin("__bss_end__", "BSS", 4)>> \in Seq(X)
      BY <2>1
    <2> QED BY <2>2, <2>3, <2>4 DEF SectionMap
  <1>2. \A s \in DOMAIN SectionMap(reloc) : SectionMap(reloc)[s] \in X
    <2> HIDE DEF X
    <2> QED BY <1>1
  <1>3. \A x \in X : Tidy(x) /\ (x.id = "__reloctable__" => Empty(x))
    <2>1. \A id, flag : \A align \in {0, 4} :
             Tidy(AddBuiltin(id, flag, align)) /\ AddBuiltin(id, flag, align).id = id
      BY BuiltinTidy, BuiltinIs
    <2>2. Empty(AddBuiltin("__reloctable__", "BSS", 0))
      BY BuiltinTidy
    <2> QED BY <2>1, <2>2
  <1> QED BY <1>2, <1>3

\* What has been loaded is tidy.
TidyLoaded == \A o \in DOMAIN opts.loaded : \A s \in DOMAIN opts.loaded[o] : Tidy(opts.loaded[o][s])

\* What is loaded from tidy object files is tidy.
LEMMA NextTidyLoaded == LoadedInv /\ ObjectFiles /\ Order /\ TidyLoaded /\ [LinkNext]_linkvars => TidyLoaded'
  <1> SUFFICES ASSUME LoadedInv, ObjectFiles, Order, TidyLoaded, [LinkNext]_linkvars PROVE TidyLoaded'
    OBVIOUS
  <1>1. CASE LinkArgument
    <2>1. ASSUME opts'.loaded = opts.loaded PROVE TidyLoaded'
      BY <2>1 DEF TidyLoaded
    <2>2. \/ opts'.loaded = opts.loaded
          \/ \E name \in DOMAIN disk : opts' = [opts EXCEPT !.loaded = LoadObject(name)]
      <3>1. CASE Head(argl)[1] = "opt"
        <4>1. opts' = [opts EXCEPT !.locals = @ \/ Head(argl)[2] = "-M",
                                   !.reloc = @ \/ Head(argl)[2] = "-r"]
          BY <1>1, <3>1, Zenon DEF LinkArgument
        <4> QED BY <4>1 DEF LoadedInv
      <3>2. Head(argl)[1] # "opt" => \/ opts' = Set(Waiting[1], Head(argl)[2])
                                     \/ UNCHANGED opts
                                     \/ \E name \in DOMAIN disk :
                                           opts' = [opts EXCEPT !.loaded = LoadObject(name)]
        BY <1>1 DEF LinkArgument
      <3>3. ASSUME opts' = Set(Waiting[1], Head(argl)[2]) PROVE opts'.loaded = opts.loaded
        BY <3>3, SetKeeps
      <3> QED BY <3>1, <3>2, <3>3
    <2>3. ASSUME NEW name \in DOMAIN disk, opts' = [opts EXCEPT !.loaded = LoadObject(name)]
          PROVE  TidyLoaded'
      <3> DEFINE new == [i \in DOMAIN disk[name] |-> LoadSection(disk[name][i])]
      <3>1. opts'.loaded = Append(opts.loaded, new)
        BY <2>3 DEF LoadedInv, LoadObject
      <3>2. \A s \in DOMAIN new : Tidy(new[s])
        <4> SUFFICES ASSUME NEW s \in DOMAIN disk[name] PROVE Tidy(LoadSection(disk[name][s]))
          OBVIOUS
        <4>1. IsSeq(disk[name][s].symbols)
          BY DEF ObjectFiles, IsSeq
        <4>2. Orderly(disk[name][s])
          BY DEF Order
        <4> QED BY <4>1, <4>2, LoadTidy
      <3>3. IsSeq(opts.loaded)
        BY DEF LoadedInv
      <3> HIDE DEF new
      <3> QED BY <3>1, <3>2, <3>3, AppendIs DEF TidyLoaded
    <2> QED BY <2>1, <2>2, <2>3
  <1>2. CASE DeclareNext
    <2> DEFINE c == opts.constants[opts.declared + 1]
               sect == opts.loaded[1][1]
               flagged == FlagSymbol(sect, c[1], {"CONSTANT", "GLOBAL"})
               new == DeclareConstant(sect, c[1], c[2], "GLOBAL")
    <2>1. opts'.loaded = [opts.loaded EXCEPT ![1][1] = new]
      BY <1>2 DEF DeclareNext, LoadedInv
    <2>2. 1 \in DOMAIN opts.loaded /\ 1 \in DOMAIN opts.loaded[1] => Tidy(new)
      <3> SUFFICES ASSUME 1 \in DOMAIN opts.loaded, 1 \in DOMAIN opts.loaded[1] PROVE Tidy(new)
        OBVIOUS
      <3>1. Loaded(sect) /\ Tidy(sect)
        BY DEF LoadedInv, Fresh, TidyLoaded
      <3> HIDE DEF sect, c
      <3>2. Loaded(flagged) /\ SameRefs(flagged, sect)
        BY <3>1, FlagKeeps, FlagTidy
      <3>3. Tidy(flagged)
        <4> HIDE DEF flagged
        <4> QED BY <3>1, <3>2, TidyAgain
      <3>4. SameRefs(PlaceSymbol(flagged, c[1], c[2]), flagged)
        <4> HIDE DEF flagged
        <4> QED BY <3>2, <3>3, PlaceTidy
      <3> QED BY <3>3, <3>4, TidyAgain DEF DeclareConstant
    <2> HIDE DEF new
    <2>3. /\ DOMAIN opts'.loaded = DOMAIN opts.loaded
          /\ \A o \in DOMAIN opts.loaded : \A s \in DOMAIN opts'.loaded[o] :
                /\ s \in DOMAIN opts.loaded[o]
                /\ opts'.loaded[o][s] = IF o = 1 /\ s = 1 THEN new ELSE opts.loaded[o][s]
      BY <2>1
    <2> QED BY <2>2, <2>3 DEF TidyLoaded
  <1>3. CASE ResolveOne
    <2>1. opts'.loaded = opts.loaded
      BY <1>3 DEF ResolveOne, LoadedInv
    <2> QED BY <2>1 DEF TidyLoaded
  <1>4. CASE UNCHANGED opts
    BY <1>4 DEF TidyLoaded
  <1> QED BY <1>1, <1>2, <1>3, <1>4 DEF LinkNext, Link, PassSymbol, SectionResolved, ResolveCdtor,
          Unresolved, Populate, AssignAll, SizeAll, Save, linkvars

\* So is the executable.
ExeTidy == \A p \in Places : /\ Tidy(At(p))
                             /\ p[1] = 0 /\ At(p).id = "__reloctable__" => Empty(At(p))

\* Joining the loaded files to the executable leaves it tidy.
LEMMA LinkTidy ==
  ASSUME LoadedInv, TidyLoaded, Link
  PROVE  ExeTidy'
  <1>1. /\ ExeOK' /\ exe'[0] = SectionMap(opts.reloc) /\ 0 \in DOMAIN exe'
        /\ \A o \in DOMAIN exe' : \A s \in DOMAIN exe'[o] :
              o = 0 \/ (o \in DOMAIN opts.loaded /\ s \in DOMAIN opts.loaded[o] /\
                 exe'[o][s] = IF o = 1 /\ s = 1 THEN Touched(opts.loaded[o][s]) ELSE opts.loaded[o][s])
    BY LinkIs
  <1>2. ASSUME NEW o \in DOMAIN exe', NEW s \in DOMAIN exe'[o]
        PROVE  /\ Tidy(exe'[o][s])
               /\ o = 0 /\ exe'[o][s].id = "__reloctable__" => Empty(exe'[o][s])
    <2>1. CASE o = 0
      BY <1>1, <2>1, SectionMapTidy
    <2>2. CASE o # 0
      <3> DEFINE sect == opts.loaded[o][s]
      <3>1. /\ o \in DOMAIN opts.loaded /\ s \in DOMAIN opts.loaded[o]
            /\ exe'[o][s] = Touched(sect) \/ exe'[o][s] = sect
        BY <1>1, <2>2
      <3>2. Loaded(sect) /\ Tidy(sect)
        BY <3>1 DEF LoadedInv, Fresh, TidyLoaded
      <3> HIDE DEF sect
      <3>3. Touched(sect).cursor = sect.cursor /\ Touched(sect).symbols = sect.symbols
        BY <3>2, TouchedKeeps
      <3>4. Tidy(Touched(sect))
        BY <3>2, <3>3 DEF Tidy, Orderly
      <3> QED BY <2>2, <3>1, <3>2, <3>4
    <2> QED BY <2>1, <2>2
  <1>3. ASSUME NEW p \in Places' PROVE p[1] \in DOMAIN exe' /\ p[2] \in DOMAIN exe'[p[1]]
    BY <1>1, <1>3 DEF Places, Builtins, Sections
  <1> QED BY <1>2, <1>3 DEF ExeTidy, At

\* A section that is still the same in what is written of it.
Still(new, sect) == SameRefs(new, sect) /\ new.id = sect.id /\ (Has(new, "BSS") <=> Has(sect, "BSS"))

\* Each section of the executable keeps what tidiness depends on.
ExeStill == Places' = Places /\ \A p \in Places : Still(At(p)', At(p))

\* Changes of a section's symbols that keep places and flags.
LEMMA SymbolsStill ==
  ASSUME NEW sect, Tidy(sect), NEW new, new.cursor = sect.cursor, DOMAIN new.symbols = DOMAIN sect.symbols,
         \A i \in DOMAIN sect.symbols :
            /\ new.symbols[i].flags = sect.symbols[i].flags /\ new.symbols[i].cursor = sect.symbols[i].cursor
            /\ Has(sect.symbols[i], "ALIGN") => new.symbols[i].size \in Nat
  PROVE  SameRefs(new, sect)
  BY DEF SameRefs, IsRef, Reached, Has

\* An executable that stays as it is.
LEMMA SameStill ==
  ASSUME ExeTidy, UNCHANGED exe
  PROVE  ExeStill
  <1>1. Places' = Places /\ \A p : At(p)' = At(p)
    BY DEF Places, Builtins, Sections, At
  <1> QED BY <1>1, TidySame DEF ExeTidy, ExeStill, Still

\* Resolving a reference.
LEMMA ResolvedStill ==
  ASSUME ExeOK, ExeTidy, NEW at, NEW r, NEW t, ExeResolved(at, r, t)
  PROVE  ExeStill
  <1>1. Places' = Places /\ \A p \in Places : /\ At(p)'.id = At(p).id
                                              /\ At(p)'.flags = At(p).flags \cup (IF p = t THEN {"TOUCHED"} ELSE {})
    BY ResolvedShape, ShapeKeeps
  <1>2. ASSUME NEW p \in Places PROVE Still(At(p)', At(p))
    <2>1. p = <<p[1], p[2]>> /\ p[1] \in DOMAIN exe /\ p[2] \in DOMAIN exe[p[1]] /\ Tidy(At(p))
      BY PlacesAre DEF ExeTidy
    <2>2. /\ At(p)'.cursor = At(p).cursor /\ DOMAIN At(p)'.symbols = DOMAIN At(p).symbols
          /\ \A i \in DOMAIN At(p).symbols :
                /\ At(p)'.symbols[i].flags = At(p).symbols[i].flags
                /\ At(p)'.symbols[i].cursor = At(p).symbols[i].cursor
                /\ At(p)'.symbols[i].size = At(p).symbols[i].size
      BY <2>1 DEF ExeResolved, At, Numbered
    <2>3. PICK x, y : x = At(p) /\ y = At(p)'
      OBVIOUS
    <2>4. SameRefs(y, x)
      BY <2>1, <2>2, <2>3, SymbolsStill DEF Tidy
    <2>5. Has(y, "BSS") <=> Has(x, "BSS")
      BY <1>1, <2>3 DEF Has
    <2> QED BY <1>1, <2>3, <2>4, <2>5 DEF Still
  <1> QED BY <1>1, <1>2 DEF ExeStill

\* A pass of the relaxation.
LEMMA RelaxedStill ==
  ASSUME ExeOK, ExeTidy, ExeRelaxed,
         \A p \in Places : /\ At(p)'.cursor = At(p).cursor
                           /\ \A i \in DOMAIN At(p).symbols :
                                 /\ At(p)'.symbols[i].cursor = At(p).symbols[i].cursor
                                 /\ Has(At(p).symbols[i], "ALIGN") => At(p)'.symbols[i].size \in Nat
  PROVE  ExeStill
  <1>1. Places' = Places /\ \A p \in Places :
           /\ At(p)'.id = At(p).id /\ At(p)'.flags = At(p).flags \cup (IF p = None THEN {"TOUCHED"} ELSE {})
           /\ DOMAIN At(p)'.symbols = DOMAIN At(p).symbols
           /\ \A i \in DOMAIN At(p).symbols : At(p)'.symbols[i].flags = At(p).symbols[i].flags
    BY RelaxedShape, ShapeKeeps
  <1>2. ASSUME NEW p \in Places PROVE Still(At(p)', At(p))
    <2>1. PICK x, y : x = At(p) /\ y = At(p)'
      OBVIOUS
    <2>2. Tidy(x)
      BY <2>1 DEF ExeTidy
    <2>3. SameRefs(y, x)
      BY <1>1, <2>1, <2>2, SymbolsStill
    <2>4. Has(y, "BSS") <=> Has(x, "BSS")
      BY <1>1, <2>1 DEF Has
    <2> QED BY <1>1, <2>1, <2>3, <2>4 DEF Still
  <1> QED BY <1>1, <1>2 DEF ExeStill

\* Giving the sections their sizes.
LEMMA SizedStill ==
  ASSUME ExeOK, ExeNumeric, ExeTidy, NEW places, exe' = Sized(places)
  PROVE  ExeStill
  <1>1. ASSUME NEW p \in Places
        PROVE  /\ At(p)'.cursor = At(p).cursor
               /\ \A i \in DOMAIN At(p).symbols :
                     /\ At(p)'.symbols[i].cursor = At(p).symbols[i].cursor
                     /\ Has(At(p).symbols[i], "ALIGN") => At(p)'.symbols[i].size \in Nat
    <2>1. PICK x : x = At(p)
      OBVIOUS
    <2>2. Loaded(x) /\ NumericSection(x) /\ Tidy(x)
      BY <2>1, PlacesAre DEF ExeNumeric, ExeTidy
    <2>3. At(p)' = IF p \in Range(places) THEN SizesFor(p) ELSE x
      BY <2>1, SizedIs
    <2>4. CASE p \notin Range(places)
      BY <2>1, <2>2, <2>3, <2>4 DEF Tidy
    <2>5. CASE p \in Range(places)
      <3>1. PICK targets : targets = [i \in DOMAIN At(p).symbols |-> Meant(At(p).symbols[i])]
        OBVIOUS
      <3>2. SizesFor(p) = SizeReferences(x, targets)
        BY <2>1, <3>1 DEF SizesFor
      <3>3. PICK new : new = SizeReferences(x, targets)
        OBVIOUS
      <3>4. new.cursor = x.cursor /\ \A i \in DOMAIN x.symbols : SizedFor(new, x, i, targets[i])
        BY <2>2, <3>3, SizingIs
      <3>5. \A i \in DOMAIN x.symbols :
               /\ new.symbols[i].cursor = x.symbols[i].cursor
               /\ Has(x.symbols[i], "ALIGN") => new.symbols[i].size \in Nat
        BY <2>2, <3>4 DEF SizedFor, ReferenceSize, Tidy
      <3> QED BY <2>1, <2>3, <2>5, <3>2, <3>3, <3>4, <3>5
    <2> QED BY <2>4, <2>5
  <1> QED BY <1>1, SizedRelaxes, RelaxedStill

\* Giving the sections their addresses.
LEMMA AssignedStill ==
  ASSUME ExeOK, ExeNumeric, ExeTidy, EntriesOK, Numbers, AssignAll
  PROVE  ExeStill
  <1>1. CASE phase' = "size"
    <2>1. ASSUME NEW p \in Places
          PROVE  /\ At(p)'.cursor = At(p).cursor
                 /\ \A i \in DOMAIN At(p).symbols :
                       /\ At(p)'.symbols[i].cursor = At(p).symbols[i].cursor
                       /\ Has(At(p).symbols[i], "ALIGN") => At(p)'.symbols[i].size \in Nat
      <3>1. Loaded(At(p)) /\ NumericSection(At(p)) /\ Tidy(At(p))
        BY PlacesAre DEF ExeNumeric, ExeTidy
      <3>2. CASE At(p)' = At(p)
        BY <3>1, <3>2 DEF Tidy
      <3>3. CASE \E base \in Int : At(p)' = AssignAddresses(At(p), base)
        BY <3>1, <3>3, AssigningLaysOut
      <3> QED BY <1>1, <3>2, <3>3, AssignedIs
    <2> QED BY <2>1, AssignedRelaxes, RelaxedStill
  <1>2. CASE phase' # "size"
    BY <1>2, SameStill DEF AssignAll
  <1> QED BY <1>1, <1>2

\* All that comes after the linker has begun to link leaves the executable so.
LEMMA NextStill ==
  ASSUME Numbers, ExeOK, ExeNumeric, ExeTidy, EntriesInv, [LinkNext]_linkvars, ~Link
  PROVE  ExeStill
  <1>2. CASE ResolveOne
    <2>1. UNCHANGED exe \/ \E at, r, t : ExeResolved(at, r, t)
      BY <1>2, ResolveOneIs
    <2> QED BY <2>1, SameStill, ResolvedStill
  <1>3. CASE ResolveCdtor
    <2>1. UNCHANGED exe \/ \E at, r, t : ExeResolved(at, r, t)
      BY <1>3, ResolveCdtorIs
    <2> QED BY <2>1, SameStill, ResolvedStill
  <1>4. CASE Populate \/ SizeAll
    <2>1. PICK places : exe' = Sized(places)
      <3>1. CASE SizeAll
        BY <3>1 DEF SizeAll
      <3>2. CASE Populate
        <4>1. PICK places : places = entries'
          OBVIOUS
        <4>2. exe' = Sized(places)
          BY <3>2, <4>1 DEF Populate
        <4> QED BY <4>2
      <3> QED BY <1>4, <3>1, <3>2
    <2> QED BY <2>1, SizedStill
  <1>5. CASE AssignAll
    <2>1. EntriesOK
      BY <1>5 DEF AssignAll, EntriesInv
    <2> QED BY <1>5, <2>1, AssignedStill
  <1>6. CASE UNCHANGED exe
    BY <1>6, SameStill
  <1> QED BY <1>2, <1>3, <1>4, <1>5, <1>6 DEF LinkNext, LinkArgument, DeclareNext, PassSymbol,
          SectionResolved, Unresolved, Save, linkvars

\* The sections of the executable are tidy at every step.
LEMMA NextTidy ==
  ASSUME LoadedInv, TidyLoaded, Numbers, ExeOK, ExeNumeric, ExeTidy, EntriesInv, [LinkNext]_linkvars
  PROVE  ExeTidy'
  <1>1. CASE Link
    BY <1>1, LinkTidy
  <1>2. CASE ~Link
    <2>1. ExeStill
      BY <1>2, NextStill
    <2>2. ASSUME NEW p \in Places
          PROVE Tidy(At(p))' /\ (p[1] = 0 /\ At(p)'.id = "__reloctable__" => Empty(At(p))')
      <3>1. PICK x, y : x = At(p) /\ y = At(p)'
        OBVIOUS
      <3>2. Tidy(x) /\ Still(y, x) /\ (p[1] = 0 /\ x.id = "__reloctable__" => Empty(x))
        BY <2>1, <3>1 DEF ExeTidy, ExeStill
      <3>3. Tidy(y) /\ (Empty(x) => Empty(y)) /\ y.id = x.id
        BY <3>2, TidyAgain DEF Still
      <3> QED BY <3>1, <3>2, <3>3
    <2> QED BY <2>1, <2>2 DEF ExeTidy, ExeStill
  <1> QED BY <1>1, <1>2

-----------------------------------------------------------------------------
(* Where the uninitialised data begin in the map.                          *)

\* From the b-th section on the map holds uninitialised data; before that only sections
\* that are empty.
Divided(b) ==
    /\ b \in DOMAIN entries /\ entries[b] = Builtin("__bss_start__")
    /\ \A k \in DOMAIN entries : IF k < b THEN ~Has(At(entries[k]), "BSS") \/ Empty(At(entries[k]))
                                 ELSE Has(At(entries[k]), "BSS")

\* From the first layout on, the map is divided at some place into code and uninitialised data.
DividedInv == phase \in {"assign", "size", "save", "saved"} => \E b : Divided(b)

\* An element of two lists is one of the first or one of the second.
LEMMA SideIs ==
  ASSUME NEW s, IsSeq(s), NEW t, IsSeq(t)
  PROVE  /\ Len(s) \in Nat /\ Len(s \o t) = Len(s) + Len(t) /\ Len(t) \in Nat
         /\ \A k \in DOMAIN (s \o t) : /\ k \in 1 .. Len(s) + Len(t)
                                       /\ IF k <= Len(s) THEN k \in DOMAIN s /\ (s \o t)[k] = s[k]
                                          ELSE (s \o t)[k] \in Range(t)
  <1>1. PICK A : s \in Seq(A)
    BY DEF IsSeq
  <1>2. PICK B : t \in Seq(B)
    BY DEF IsSeq
  <1>3. s \in Seq(A \cup B) /\ t \in Seq(A \cup B)
    BY <1>1, <1>2
  <1>4. /\ Len(s) \in Nat /\ Len(t) \in Nat /\ Len(s \o t) = Len(s) + Len(t)
        /\ DOMAIN (s \o t) = 1 .. Len(s) + Len(t) /\ DOMAIN s = 1 .. Len(s) /\ DOMAIN t = 1 .. Len(t)
        /\ \A k \in 1 .. Len(s) + Len(t) : (s \o t)[k] = IF k <= Len(s) THEN s[k] ELSE t[k - Len(s)]
    BY <1>3
  <1>5. ASSUME NEW k \in 1 .. Len(s) + Len(t), ~(k <= Len(s)) PROVE (s \o t)[k] \in Range(t)
    <2>1. k - Len(s) \in DOMAIN t /\ (s \o t)[k] = t[k - Len(s)]
      BY <1>4, <1>5
    <2> QED BY <2>1 DEF Range
  <1> QED BY <1>4, <1>5

\* The element x of a list, which is the b-th, and what comes before and behind it.
Parted(all, b, x, front, behind) ==
    /\ b \in DOMAIN all /\ all[b] = x
    /\ \A k \in DOMAIN all : /\ k < b => all[k] \in Range(front)
                             /\ ~(k < b) => all[k] \in behind

\* So it is in a list that is made like that.
LEMMA DivisionIs ==
  ASSUME NEW front, IsSeq(front), NEW x, NEW back, IsSeq(back), NEW last,
         NEW all, all = ((front \o <<x>>) \o back) \o <<last>>, NEW b, b = Len(front) + 1
  PROVE  Parted(all, b, x, front, {x, last} \cup Range(back))
  <1> DEFINE one == front \o <<x>>
             two == one \o back
  <1>0. /\ IsSeq(<<x>>) /\ Range(<<x>>) = {x} /\ Len(<<x>>) = 1
        /\ IsSeq(<<last>>) /\ Range(<<last>>) = {last} /\ Len(<<last>>) = 1
    BY OneIs
  <1>1. /\ IsSeq(one) /\ Len(one) = Len(front) + 1 /\ Len(front) \in Nat
        /\ \A k \in DOMAIN one : /\ k \in 1 .. Len(front) + 1
                                 /\ IF k <= Len(front) THEN k \in DOMAIN front /\ one[k] = front[k]
                                    ELSE one[k] \in {x}
    BY <1>0, SideIs, CatIs
  <1>1a. DOMAIN one = 1 .. Len(one)
    BY <1>1, SeqIsFunction
  <1> HIDE DEF one
  <1>2. /\ IsSeq(two) /\ Len(two) = Len(one) + Len(back) /\ Len(back) \in Nat
        /\ \A k \in DOMAIN two : /\ k \in 1 .. Len(one) + Len(back)
                                 /\ IF k <= Len(one) THEN k \in DOMAIN one /\ two[k] = one[k]
                                    ELSE two[k] \in Range(back)
    BY <1>1, SideIs, CatIs
  <1>2a. DOMAIN two = 1 .. Len(two)
    BY <1>2, SeqIsFunction
  <1> HIDE DEF two
  <1>2b. all = two \o <<last>>
    BY DEF two, one
  <1>3. /\ IsSeq(all) /\ Len(all) = Len(two) + 1
        /\ \A k \in DOMAIN all : /\ k \in 1 .. Len(two) + 1
                                 /\ IF k <= Len(two) THEN k \in DOMAIN two /\ all[k] = two[k]
                                    ELSE all[k] \in {last}
    BY <1>0, <1>2, <1>2b, SideIs, CatIs
  <1>3a. DOMAIN all = 1 .. Len(all)
    BY <1>3, SeqIsFunction
  <1>4. b \in DOMAIN all /\ all[b] = x
    <2>1. b \in DOMAIN all /\ b <= Len(two) /\ b <= Len(one) /\ ~(b <= Len(front))
      BY <1>1, <1>2, <1>3, <1>3a
    <2>2. all[b] = two[b] /\ b \in DOMAIN two
      BY <1>3, <2>1
    <2>3. two[b] = one[b] /\ b \in DOMAIN one
      BY <1>2, <2>1, <2>2
    <2>4. one[b] \in {x}
      BY <1>1, <2>1, <2>3
    <2> QED BY <2>1, <2>2, <2>3, <2>4
  <1>5. ASSUME NEW k \in DOMAIN all
        PROVE  /\ k < b => all[k] \in Range(front)
               /\ ~(k < b) => all[k] \in {x, last} \cup Range(back)
    <2>0. k \in Int /\ (k < b <=> k <= Len(front))
      BY <1>1, <1>3, <1>3a
    <2>1. CASE ~(k <= Len(two))
      BY <1>1, <1>2, <1>3, <2>0, <2>1
    <2>2. CASE k <= Len(two) /\ ~(k <= Len(one))
      <3>1. all[k] = two[k] /\ k \in DOMAIN two
        BY <1>3, <2>2
      <3>2. two[k] \in Range(back)
        BY <1>2, <2>2, <3>1
      <3>3. ~(k < b)
        BY <1>1, <2>0, <2>2
      <3> QED BY <3>1, <3>2, <3>3
    <2>3. CASE k <= Len(two) /\ k <= Len(one)
      <3>1. all[k] = two[k] /\ k \in DOMAIN two
        BY <1>3, <2>3
      <3>2. two[k] = one[k] /\ k \in DOMAIN one
        BY <1>2, <2>3, <3>1
      <3>3. IF k <= Len(front) THEN k \in DOMAIN front /\ one[k] = front[k] ELSE one[k] \in {x}
        BY <1>1, <3>2
      <3> QED BY <2>0, <3>1, <3>2, <3>3 DEF Range
    <2> QED BY <2>1, <2>2, <2>3
  <1> QED BY <1>4, <1>5 DEF Parted

\* The map is made of sections with code, then of those without.
LEMMA PopulateDivides ==
  ASSUME ExeOK, BuiltinsInv, ExeTidy, Populate
  PROVE  \E b : /\ b \in DOMAIN entries' /\ entries'[b] = Builtin("__bss_start__")
                /\ \A k \in DOMAIN entries' :
                      IF k < b THEN ~Has(At(entries'[k]), "BSS") \/ Empty(At(entries'[k]))
                      ELSE Has(At(entries'[k]), "BSS")
  <1> DEFINE lists(ctors, dtors) ==
                 IF Has(At(Builtin("__ctors_start__")), "TOUCHED")
                 THEN <<Builtin("__ctors_start__")>> \o ctors \o <<Builtin("__ctors_end__")>>
                      \o <<Builtin("__dtors_start__")>> \o dtors \o <<Builtin("__dtors_end__")>>
                 ELSE <<>>
             table == IF HasBuiltin("__reloctable__") THEN <<Builtin("__reloctable__")>> ELSE <<>>
             cs == Builtin("__ctors_start__")
             ce == Builtin("__ctors_end__")
             ds == Builtin("__dtors_start__")
             de == Builtin("__dtors_end__")
             rt == Builtin("__reloctable__")
             bs == Builtin("__bss_start__")
             be == Builtin("__bss_end__")
             Coded(p) == ~Has(At(p), "BSS") \/ Empty(At(p))
             Bare(p) == Has(At(p), "BSS")
  <1>1. PICK ctors \in Sorted(Matching({"CTOR"})), dtors \in Sorted(Matching({"DTOR"})) :
          entries' = (((Matching({}) \o lists(ctors, dtors)) \o table) \o <<bs>>) \o Matching({"BSS"}) \o <<be>>
    BY DEF Populate
  <1>2. \A p : Bare(p) <=> "BSS" \in Kind(p)
    BY DEF Kind, Has
  <1>3. /\ Coded(cs) /\ Coded(ce) /\ Coded(ds) /\ Coded(de) /\ Bare(bs) /\ Bare(be)
        /\ HasBuiltin("__reloctable__") => Coded(rt)
    <2>1. ASSUME NEW id, id \in BuiltinIds, id \in Always \/ HasBuiltin(id)
          PROVE  /\ Kind(Builtin(id)) = KindOf(id) /\ Builtin(id) \in Places
                 /\ At(Builtin(id)).id = id /\ Builtin(id)[1] = 0
      <3>1. PICK i \in DOMAIN exe[0] : exe[0][i].id = id
        BY <2>1 DEF HasBuiltin, BuiltinsInv, Populate
      <3>2. Builtin(id) = <<0, i>> /\ <<0, i>> \in Places
        BY <3>1, BuiltinPlace
      <3> QED BY <3>1, <3>2 DEF BuiltinsInv, At
    <2>2. /\ KindOf("__ctors_start__") = {"CTOR"} /\ KindOf("__ctors_end__") = {"CTOR"}
          /\ KindOf("__dtors_start__") = {"DTOR"} /\ KindOf("__dtors_end__") = {"DTOR"}
          /\ KindOf("__bss_start__") = {"BSS"} /\ KindOf("__bss_end__") = {"BSS"}
      BY DEF KindOf
    <2>3. /\ \A id \in {"__ctors_start__", "__ctors_end__", "__dtors_start__", "__dtors_end__",
                        "__bss_start__", "__bss_end__"} : id \in BuiltinIds /\ id \in Always
          /\ "__reloctable__" \in BuiltinIds
      BY DEF Always, BuiltinIds
    <2>4. /\ Kind(cs) = {"CTOR"} /\ Kind(ce) = {"CTOR"} /\ Kind(ds) = {"DTOR"} /\ Kind(de) = {"DTOR"}
          /\ Kind(bs) = {"BSS"} /\ Kind(be) = {"BSS"}
      BY <2>1, <2>2, <2>3
    <2>5. HasBuiltin("__reloctable__") => Empty(At(rt))
      BY <2>1, <2>3 DEF ExeTidy
    <2> QED BY <1>2, <2>4, <2>5
  <1>4. \A kind : IsSeq(Matching(kind)) /\ Range(Matching(kind)) = KeptOf(kind)
    <2> SUFFICES ASSUME NEW kind PROVE IsSeq(Matching(kind)) /\ Range(Matching(kind)) = KeptOf(kind)
      OBVIOUS
    <2>1. Matching(kind) = InOrder(KeptOf(kind)) /\ KeptOf(kind) \in SUBSET Sections
      BY DEF Matching, KeptOf
    <2> QED BY <2>1, InOrderIs
  <1>5. /\ IsSeq(ctors) /\ Range(ctors) = KeptOf({"CTOR"}) /\ IsSeq(dtors) /\ Range(dtors) = KeptOf({"DTOR"})
    BY <1>4, SortedIs
  <1>6. /\ \A p \in KeptOf({}) \cup KeptOf({"CTOR"}) \cup KeptOf({"DTOR"}) : Coded(p)
        /\ \A p \in KeptOf({"BSS"}) : Bare(p)
    BY <1>2 DEF KeptOf
  <1> DEFINE some == lists(ctors, dtors)
  <1> HIDE DEF Coded, Bare, cs, ce, ds, de, rt, bs, be
  <1>7. IsSeq(some) /\ \A p \in Range(some) : Coded(p)
    <2>1. CASE Has(At(cs), "TOUCHED")
      <3>1. some = ((((<<cs>> \o ctors) \o <<ce>>) \o <<ds>>) \o dtors) \o <<de>>
        BY <2>1 DEF cs, ce, ds, de
      <3> DEFINE l1 == <<cs>> \o ctors
                 l2 == l1 \o <<ce>>
                 l3 == l2 \o <<ds>>
                 l4 == l3 \o dtors
      <3>2. IsSeq(l1) /\ Range(l1) = {cs} \cup Range(ctors)
        BY <1>5, OneIs, CatIs
      <3>3. some = l4 \o <<de>>
        BY <3>1
      <3> HIDE DEF l1, some
      <3>4. IsSeq(l2) /\ Range(l2) = {cs, ce} \cup Range(ctors)
        BY <3>2, OneIs, CatIs
      <3> HIDE DEF l2
      <3>5. IsSeq(l3) /\ Range(l3) = {cs, ce, ds} \cup Range(ctors)
        BY <3>4, OneIs, CatIs
      <3> HIDE DEF l3
      <3>6. IsSeq(l4) /\ Range(l4) = {cs, ce, ds} \cup Range(ctors) \cup Range(dtors)
        BY <1>5, <3>5, CatIs
      <3> HIDE DEF l4
      <3>7. IsSeq(some) /\ Range(some) = {cs, ce, ds, de} \cup Range(ctors) \cup Range(dtors)
        BY <3>3, <3>6, OneIs, CatIs
      <3> QED BY <1>3, <1>5, <1>6, <3>7
    <2>2. CASE ~Has(At(cs), "TOUCHED")
      <3>1. some = <<>>
        BY <2>2 DEF cs
      <3> HIDE DEF some
      <3> QED BY <3>1, NoneIs
    <2> QED BY <2>1, <2>2
  <1>8. IsSeq(table) /\ \A p \in Range(table) : Coded(p)
    <2>1. IsSeq(table) /\ Range(table) = IF HasBuiltin("__reloctable__") THEN {rt} ELSE {}
      BY OneIs, NoneIs DEF rt
    <2> HIDE DEF table
    <2> QED BY <1>3, <2>1
  <1> HIDE DEF some, table
  <1> DEFINE front == (Matching({}) \o some) \o table
             back == Matching({"BSS"})
  <1>9. IsSeq(front) /\ \A p \in Range(front) : Coded(p)
    <2>1. IsSeq(Matching({}) \o some) /\ Range(Matching({}) \o some) = KeptOf({}) \cup Range(some)
      BY <1>4, <1>7, CatIs
    <2>2. IsSeq(front) /\ Range(front) = KeptOf({}) \cup Range(some) \cup Range(table)
      BY <1>8, <2>1, CatIs
    <2> HIDE DEF front
    <2> QED BY <1>6, <1>7, <1>8, <2>2
  <1>10. IsSeq(back) /\ \A p \in Range(back) : Bare(p)
    BY <1>4, <1>6
  <1>11. entries' = ((front \o <<bs>>) \o back) \o <<be>>
    BY <1>1 DEF some
  <1> HIDE DEF front, back
  <1>12. PICK b : b = Len(front) + 1
    OBVIOUS
  <1>13. /\ b \in DOMAIN entries' /\ entries'[b] = bs
         /\ \A k \in DOMAIN entries' : /\ k < b => entries'[k] \in Range(front)
                                       /\ ~(k < b) => entries'[k] \in {bs, be} \cup Range(back)
    <2>1. PICK f, x, r, l, all : f = front /\ x = bs /\ r = back /\ l = be /\ all = entries'
      OBVIOUS
    <2>2. /\ IsSeq(f) /\ IsSeq(r) /\ all = ((f \o <<x>>) \o r) \o <<l>> /\ b = Len(f) + 1
      BY <1>9, <1>10, <1>11, <1>12, <2>1
    <2>3. Parted(all, b, x, f, {x, l} \cup Range(r))
      BY <2>2, DivisionIs
    <2> QED BY <2>1, <2>3 DEF Parted
  <1>14. \A k \in DOMAIN entries' : IF k < b THEN Coded(entries'[k]) ELSE Bare(entries'[k])
    BY <1>3, <1>9, <1>10, <1>13
  <1> QED BY <1>13, <1>14 DEF bs, Coded, Bare

\* The name of the uninitialised data's beginning finds the same section before and after.
LEMMA BssStays ==
  ASSUME ExeOK, ExeOK', BuiltinsInv, NEW t, Shaped(t),
         phase \in {"resolve", "cdtors", "assign", "size", "save", "saved"}
  PROVE  Builtin("__bss_start__")' = Builtin("__bss_start__")
  <1>1. PICK c \in DOMAIN exe[0] : exe[0][c].id = "__bss_start__"
    BY DEF BuiltinsInv, Always, BuiltinIds
  <1> QED BY <1>1, BuiltinPlace, BuiltinStays

\* The map stays divided where it is.
LEMMA DividedStays ==
  ASSUME ExeTidy, ExeStill, Builtin("__bss_start__")' = Builtin("__bss_start__"), NEW b, NEW places,
         IsSeq(places), Range(places) \subseteq Places, entries' = places,
         b \in DOMAIN places, places[b] = Builtin("__bss_start__"),
         \A k \in DOMAIN places : IF k < b THEN ~Has(At(places[k]), "BSS") \/ Empty(At(places[k]))
                                  ELSE Has(At(places[k]), "BSS")
  PROVE  Divided(b)'
  <1>1. ASSUME NEW k \in DOMAIN places
        PROVE  /\ Has(At(places[k])', "BSS") <=> Has(At(places[k]), "BSS")
               /\ Empty(At(places[k])) => Empty(At(places[k])')
    <2>1. PICK p : p = places[k]
      OBVIOUS
    <2>2. p \in Places
      BY <2>1 DEF Range
    <2>3. PICK x, y : x = At(p) /\ y = At(p)'
      OBVIOUS
    <2>4. Tidy(x) /\ Still(y, x)
      BY <2>2, <2>3 DEF ExeTidy, ExeStill
    <2>5. (Has(y, "BSS") <=> Has(x, "BSS")) /\ (Empty(x) => Empty(y))
      BY <2>4, TidyAgain DEF Still
    <2>6. places[k]' = places[k]
      OBVIOUS
    <2> QED BY <2>1, <2>3, <2>5
  <1> QED BY <1>1 DEF Divided, Has, Empty, IsRef

\* It is divided when it is made, and all that comes after that leaves it so.
LEMMA NextDivided ==
  ASSUME Numbers, ExeOK, ExeOK', ExeNumeric, ExeTidy, BuiltinsInv, EntriesInv, EntriesInv', DividedInv,
         [LinkNext]_linkvars
  PROVE  DividedInv'
  <1> DEFINE Mapping == {"assign", "size", "save", "saved"}
  <1> SUFFICES ASSUME phase' \in Mapping PROVE \E b : Divided(b)'
    BY DEF DividedInv
  <1>1. /\ ~LinkArgument /\ ~DeclareNext /\ ~Link /\ ~PassSymbol /\ ~ResolveOne /\ ~SectionResolved
        /\ ~ResolveCdtor /\ ~Unresolved
    BY DEF LinkArgument, DeclareNext, Link, PassSymbol, ResolveOne, SectionResolved, ResolveCdtor, Unresolved
  <1>2. ExeStill
    BY <1>1, NextStill
  <1>3. Shaped(None) /\ phase \in {"cdtors", "assign", "size", "save", "saved"}
    <2>1. CASE Populate \/ SizeAll
      <3>1. PICK places : exe' = Sized(places)
        <4>1. CASE SizeAll
          BY <4>1 DEF SizeAll
        <4>2. CASE Populate
          <5>1. PICK places : places = entries'
            OBVIOUS
          <5>2. exe' = Sized(places)
            BY <4>2, <5>1 DEF Populate
          <5> QED BY <5>2
        <4> QED BY <2>1, <4>1, <4>2
      <3> QED BY <2>1, <3>1, SizedRelaxes, RelaxedShape DEF Populate, SizeAll
    <2>2. CASE AssignAll
      BY <2>2, AssignedRelaxes, RelaxedShape DEF AssignAll
    <2>3. CASE Save \/ UNCHANGED linkvars
      <3>1. UNCHANGED exe /\ phase \in Mapping
        BY <2>3 DEF Save, linkvars
      <3> QED BY <3>1, SameShape
    <2> QED BY <1>1, <2>1, <2>2, <2>3 DEF LinkNext
  <1>4. Builtin("__bss_start__")' = Builtin("__bss_start__")
    BY <1>3, BssStays
  <1>5. PICK places : places = entries'
    OBVIOUS
  <1>6. IsSeq(places) /\ Range(places) \subseteq Places
    BY <1>2, <1>5 DEF EntriesInv, EntriesOK, ExeStill
  <1>7. \E b : /\ b \in DOMAIN places /\ places[b] = Builtin("__bss_start__")
               /\ \A k \in DOMAIN places : IF k < b THEN ~Has(At(places[k]), "BSS") \/ Empty(At(places[k]))
                                           ELSE Has(At(places[k]), "BSS")
    <2>1. CASE Populate
      BY <1>5, <2>1, PopulateDivides
    <2>2. CASE ~Populate
      <3>1. UNCHANGED entries /\ phase \in Mapping
        <4>1. CASE AssignAll
          BY <4>1 DEF AssignAll
        <4>2. CASE SizeAll
          BY <4>2 DEF SizeAll, layout
        <4>3. CASE Save \/ UNCHANGED linkvars
          BY <4>3 DEF Save, linkvars, layout
        <4> QED BY <1>1, <2>2, <4>1, <4>2, <4>3 DEF LinkNext
      <3>2. \E b : Divided(b)
        BY <3>1 DEF DividedInv
      <3> QED BY <1>5, <3>1, <3>2 DEF Divided
    <2> QED BY <2>1, <2>2
  <1>8. PICK b : /\ b \in DOMAIN places /\ places[b] = Builtin("__bss_start__")
                 /\ \A k \in DOMAIN places : IF k < b THEN ~Has(At(places[k]), "BSS") \/ Empty(At(places[k]))
                                             ELSE Has(At(places[k]), "BSS")
    BY <1>7
  <1>9. Divided(b)'
    BY <1>2, <1>4, <1>5, <1>6, <1>8, DividedStays
  <1> QED BY <1>9

-----------------------------------------------------------------------------
(* Where the code ends.                                                    *)

\* What is noted as the end of the code is the end of the last section that has any.
CodeEnds ==
    \A b \in DOMAIN entries :
        entries[b] = Builtin("__bss_start__") =>
            codeend = IF b = 1 THEN opts.base ELSE Ends(At(entries[b - 1]))

\* Once addresses are given, the code ends where the linker says.
CodeEndInv == phase \in {"size", "save", "saved"} => CodeEnds

\* A place that is in the map once is found there.
LEMMA EntryIs ==
  ASSUME EntriesOK, NEW b \in DOMAIN entries, NEW p, p = entries[b]
  PROVE  LET I == {i \in 1 .. Len(entries) : entries[i] = p}
         IN  I # {} /\ Min(I) = b
  <1> DEFINE I == {i \in 1 .. Len(entries) : entries[i] = p}
  <1>2. DOMAIN entries = 1 .. Len(entries) /\ Len(entries) \in Nat
    BY SeqIsFunction DEF EntriesOK
  <1>3. I = {b}
    BY <1>2 DEF EntriesOK, Distinct
  <1>4. Min(I) = b
    BY <1>2, <1>3 DEF Min
  <1> QED BY <1>3, <1>4

\* It is noted when addresses are given.
LEMMA AssignedEnds ==
  ASSUME ExeOK, ExeNumeric, BuiltinsInv, EntriesOK, Numbers, AssignAll, phase' = "size"
  PROVE  CodeEnds'
  <1>1. UNCHANGED <<entries, opts>> /\ phase = "assign"
    BY DEF AssignAll
  <1>2. Shaped(None) /\ ExeOK'
    BY AssignedRelaxes, RelaxedShape, RelaxedOK
  <1>3. Builtin("__bss_start__")' = Builtin("__bss_start__")
    BY <1>1, <1>2, BssStays
  <1>4. Len(entries) \in Nat /\ DOMAIN entries = 1 .. Len(entries)
    BY SeqIsFunction DEF EntriesOK
  <1> SUFFICES ASSUME NEW b \in DOMAIN entries, entries[b] = Builtin("__bss_start__")
               PROVE  codeend' = IF b = 1 THEN opts.base ELSE Ends(At(entries[b - 1]))'
    BY <1>1, <1>3 DEF CodeEnds
  <1> DEFINE bss == SelectInSeq(entries, LAMBDA p : p = Builtin("__bss_start__"))
  <1>5. codeend' = IF bss = 1 THEN opts.base ELSE EndOf(AssignAddresses(At(entries[bss - 1]), Bases[bss - 1]))
    BY DEF AssignAll
  <1>6. bss = b
    <2>1. PICK p : p = Builtin("__bss_start__")
      OBVIOUS
    <2> DEFINE I == {i \in 1 .. Len(entries) : entries[i] = p}
    <2>2. I # {} /\ Min(I) = b
      BY <2>1, EntryIs
    <2>3. bss = IF I # {} THEN Min(I) ELSE 0
      BY <2>1 DEF SelectInSeq
    <2> QED BY <2>2, <2>3
  <1> HIDE DEF bss
  <1>7. CASE b = 1
    BY <1>5, <1>6, <1>7
  <1>8. CASE b # 1
    <2>1. PICK k : k = b - 1
      OBVIOUS
    <2>2. k \in DOMAIN entries
      BY <1>4, <1>8, <2>1
    <2>3. PICK p : p = entries[k]
      OBVIOUS
    <2>4. p \in Places /\ Loaded(At(p)) /\ NumericSection(At(p))
      BY <2>2, <2>3, PlacesAre DEF EntriesOK, Range, ExeNumeric
    <2>5. At(p)' = AssignAddresses(At(p), Bases[k])
      BY <2>2, <2>3, AssignedOnce
    <2>6. PICK sect, new, base : sect = At(p) /\ new = At(p)' /\ base = Bases[k]
      OBVIOUS
    <2>7. base \in Int /\ new = AssignAddresses(sect, base)
      BY <2>2, <2>5, <2>6, BasesAre
    <2>8. EndOf(AssignAddresses(sect, base)) = Ends(new)
      BY <2>4, <2>6, <2>7, AssigningLaysOut
    <2>9. codeend' = EndOf(AssignAddresses(sect, base))
      BY <1>5, <1>6, <1>8, <2>1, <2>3, <2>6
    <2>10. Ends(At(entries[b - 1]))' = Ends(new)
      <3>1. At(entries[b - 1])' = new
        BY <1>1, <2>1, <2>3, <2>6
      <3> QED BY <3>1 DEF Ends, Taken, IsRef, Has
    <2> QED BY <1>8, <2>8, <2>9, <2>10
  <1> QED BY <1>7, <1>8

\* If the map and what is in it stay, so does that.
LEMMA EndsStay ==
  ASSUME ExeOK, ExeOK', BuiltinsInv, EntriesOK, CodeEnds, Shaped(None),
         phase \in {"assign", "size", "save", "saved"}, UNCHANGED <<entries, opts, codeend>>,
         \A p \in Range(entries) : Ends(At(p)') = Ends(At(p))
  PROVE  CodeEnds'
  <1>1. Builtin("__bss_start__")' = Builtin("__bss_start__")
    BY BssStays
  <1> SUFFICES ASSUME NEW b \in DOMAIN entries, entries[b] = Builtin("__bss_start__")
               PROVE  codeend' = IF b = 1 THEN opts.base ELSE Ends(At(entries[b - 1]))'
    BY <1>1 DEF CodeEnds
  <1>2. CASE b = 1
    BY <1>2 DEF CodeEnds
  <1>3. CASE b # 1
    <2>1. PICK k : k = b - 1
      OBVIOUS
    <2>2. k \in DOMAIN entries
      <3>1. Len(entries) \in Nat /\ DOMAIN entries = 1 .. Len(entries)
        BY SeqIsFunction DEF EntriesOK
      <3> QED BY <1>3, <2>1, <3>1
    <2>3. PICK p : p = entries[k]
      OBVIOUS
    <2>4. Ends(At(p)') = Ends(At(p))
      BY <2>2, <2>3 DEF Range
    <2>5. PICK new : new = At(p)'
      OBVIOUS
    <2>6. Ends(At(entries[b - 1]))' = Ends(new)
      <3>1. At(entries[b - 1])' = new
        BY <2>1, <2>3, <2>5
      <3> QED BY <3>1 DEF Ends, Taken, IsRef, Has
    <2>7. codeend = Ends(At(p))
      BY <1>3, <2>1, <2>3 DEF CodeEnds
    <2> QED BY <1>3, <2>4, <2>5, <2>6, <2>7
  <1> QED BY <1>2, <1>3

\* The last pass leaves the code's end where it is, and so does all that comes after it.
LEMMA NextCodeEnd ==
  ASSUME ExeOK, ExeOK', ExeNumeric, BuiltinsInv, EntriesInv, SizedInv, Numbers, CodeEndInv, [LinkNext]_linkvars
  PROVE  CodeEndInv'
  <1> SUFFICES ASSUME phase' \in {"size", "save", "saved"} PROVE CodeEnds'
    BY DEF CodeEndInv
  <1>1. CASE AssignAll
    BY <1>1, AssignedEnds DEF AssignAll, EntriesInv
  <1>2. CASE SizeAll
    <2>1. /\ phase = "size" /\ phase' # "assign" /\ UNCHANGED <<entries, opts, codeend>> /\ EntriesOK /\ CodeEnds
          /\ \A p \in Range(entries) : SizedOnce(At(p))
      BY <1>2 DEF SizeAll, layout, EntriesInv, CodeEndInv, SizedInv
    <2>2. Shaped(None)
      BY <1>2, SizedRelaxes, RelaxedShape DEF SizeAll
    <2>3. ASSUME NEW p \in Range(entries) PROVE Ends(At(p)') = Ends(At(p))
      <3>1. p \in Places /\ ~Grown(At(p), SizesFor(p)) /\ At(p)' = SizesFor(p) /\ SizedOnce(At(p))
        BY <1>2, <2>1, SettledPass DEF EntriesOK
      <3>2. Loaded(At(p)) /\ NumericSection(At(p))
        BY <3>1, PlacesAre DEF ExeNumeric
      <3>3. Ends(SizesFor(p)) = Ends(At(p))
        BY <3>1, <3>2, SettledEnds DEF SizesFor
      <3> QED BY <3>1, <3>3
    <2> QED BY <2>1, <2>2, <2>3, EndsStay
  <1>3. CASE Save \/ UNCHANGED linkvars
    <2>1. /\ UNCHANGED <<exe, entries, opts, codeend>> /\ phase \in {"size", "save", "saved"}
      BY <1>3 DEF Save, linkvars, layout
    <2>2. EntriesOK /\ CodeEnds /\ Shaped(None)
      BY <2>1, SameShape DEF EntriesInv, CodeEndInv
    <2>3. \A p : At(p)' = At(p)
      BY <2>1 DEF At
    <2> QED BY <2>1, <2>2, <2>3, EndsStay
  <1>4. ~LinkArgument /\ ~DeclareNext /\ ~Link /\ ~PassSymbol /\ ~ResolveOne /\ ~SectionResolved
        /\ ~ResolveCdtor /\ ~Unresolved /\ ~Populate
    BY DEF LinkArgument, DeclareNext, Link, PassSymbol, ResolveOne, SectionResolved, ResolveCdtor, Unresolved,
           Populate
  <1> QED BY <1>1, <1>2, <1>3, <1>4 DEF LinkNext

-----------------------------------------------------------------------------
(* The image.                                                              *)

\* The sections of a layout that stands begin and end somewhere.
LEMMA AddressesAre ==
  ASSUME ExeOK, ExeNumeric, EntriesOK, Numbers, SectionsBegin
  PROVE  \A k \in DOMAIN entries : At(entries[k]).address \in Int /\ Ends(At(entries[k])) \in Int
  <1> DEFINE Q(k) == At(entries[k]).address \in Int /\ Ends(At(entries[k])) \in Int
             T == {d \in Nat : d + 1 \in DOMAIN entries => Q(d + 1)}
  <1>1. Len(entries) \in Nat /\ DOMAIN entries = 1 .. Len(entries)
    BY SeqIsFunction DEF EntriesOK
  <1>2. ASSUME NEW k \in DOMAIN entries, At(entries[k]).address \in Int PROVE Q(k)
    <2>1. PICK sect : sect = At(entries[k])
      OBVIOUS
    <2>2. Loaded(sect) /\ NumericSection(sect)
      BY <2>1, PlacesAre DEF EntriesOK, Range, ExeNumeric
    <2>3. IsSeq(sect.symbols) /\ sect.cursor \in Int
          /\ \A i \in DOMAIN sect.symbols : IsRef(sect.symbols[i]) => sect.symbols[i].size \in Int
      BY <2>2 DEF Loaded, NumericSection, Numeric
    <2>4. Taken(sect)[Len(sect.symbols)] \in Int
      <3>1. \A i \in 0 .. Len(sect.symbols) : Taken(sect)[i] \in Int
        BY <2>3, TakenIs
      <3>2. Len(sect.symbols) \in Nat
        BY <2>3, SeqIsFunction
      <3> QED BY <3>1, <3>2
    <2> QED BY <1>2, <2>1, <2>3, <2>4 DEF Ends
  <1>3. \A k \in DOMAIN entries :
           At(entries[k]).address = IF entries[k] = Builtin("__bss_start__") /\ opts.bss > 0 THEN opts.bss
                                    ELSE IF k = 1 THEN opts.base ELSE Ends(At(entries[k - 1]))
    BY DEF SectionsBegin, Begins
  <1>4. opts.base \in Int /\ opts.bss \in Int
    BY DEF Numbers
  <1>5. 0 \in T
    <2> SUFFICES ASSUME 1 \in DOMAIN entries PROVE At(entries[1]).address \in Int
      BY <1>2
    <2> QED BY <1>3, <1>4
  <1>6. ASSUME NEW d \in Nat, d \in T PROVE d + 1 \in T
    <2> SUFFICES ASSUME d + 1 + 1 \in DOMAIN entries PROVE Q(d + 1 + 1)
      OBVIOUS
    <2>1. PICK k : k = d + 1 + 1
      OBVIOUS
    <2>2. k \in DOMAIN entries /\ k # 1 /\ k - 1 = d + 1 /\ d + 1 \in DOMAIN entries
      BY <1>1, <2>1
    <2>3. Q(k - 1)
      BY <1>6, <2>2
    <2>4. At(entries[k]).address \in Int
      BY <1>3, <1>4, <2>2, <2>3
    <2> QED BY <1>2, <2>1, <2>2, <2>4
  <1>7. \A d \in Nat : d \in T
    <2> HIDE DEF T
    <2> QED BY <1>5, <1>6, SetInduction
  <1>8. ASSUME NEW k \in DOMAIN entries PROVE Q(k)
    <2>1. PICK d : d = k - 1
      OBVIOUS
    <2>2. d \in Nat /\ d + 1 = k
      BY <1>1, <2>1
    <2> HIDE DEF Q
    <2> QED BY <1>7, <2>2
  <1> QED BY <1>8

\* What its symbols mean.
Targets(sect) == [i \in DOMAIN sect.symbols |-> Meant(sect.symbols[i])]

\* They can be written then.
LEMMA EntryWritable ==
  ASSUME ExeOK, ExeNumeric, Meaningful, ExeTidy, EntriesOK, SymbolsStand,
         NEW p \in Range(entries), At(p).address \in Int
  PROVE  Writable(At(p), Targets(At(p)))
  <1>1. p \in Places /\ Loaded(At(p)) /\ NumericSection(At(p)) /\ Tidy(At(p))
    BY PlacesAre DEF EntriesOK, ExeNumeric, ExeTidy
  <1>2. ASSUME NEW i \in DOMAIN At(p).symbols, IsRef(At(p).symbols[i])
        PROVE  WritableSymbol(At(p).symbols[i], Targets(At(p))[i])
    <2>1. PICK sym, target, value, here : /\ sym = At(p).symbols[i] /\ target = Meant(At(p).symbols[i])
                                          /\ value = TargetValue(target, sym) /\ here = Lies(At(p), i)
      OBVIOUS
    <2>2. Stands(sym, here, value)
      BY <2>1 DEF SymbolsStand
    <2>3. value \in Int
      BY <1>1, <2>1, ValueIsNumber
    <2>4. Numeric(sym) /\ (Has(sym, "ALIGN") => sym.size \in Nat)
      BY <1>1, <2>1 DEF NumericSection, Tidy
    <2>5. \A a, b \in {"REFERENCE", "LDABS", "LDPCREL", "ALIGN"} : Has(sym, a) /\ Has(sym, b) => a = b
      BY <2>4 DEF Numeric, Ordinary, Kinds
    <2>6. Has(sym, "REFERENCE") => sym.size = 4
      <3> SUFFICES ASSUME Has(sym, "REFERENCE") PROVE sym.size = 4
        OBVIOUS
      <3>1. ~Has(sym, "ALIGN") /\ ~Has(sym, "LDABS") /\ ~Has(sym, "LDPCREL")
        BY <2>5
      <3> QED BY <2>2, <3>1 DEF Stands
    <2>7. Has(sym, "LDABS") => sym.size \in 1 .. 6
      <3> SUFFICES ASSUME Has(sym, "LDABS") PROVE sym.size \in 1 .. 6
        OBVIOUS
      <3>1. ~Has(sym, "ALIGN") /\ ~Has(sym, "REFERENCE") /\ ~Has(sym, "LDPCREL")
        BY <2>5
      <3>2. Fits(value, sym.size)
        BY <2>2, <3>1 DEF Stands
      <3> QED BY <3>2 DEF Fits
    <2>8. Has(sym, "LDPCREL") => sym.size \in 1 .. 6
      <3> SUFFICES ASSUME Has(sym, "LDPCREL") PROVE sym.size \in 1 .. 6
        OBVIOUS
      <3>1. ~Has(sym, "ALIGN") /\ ~Has(sym, "REFERENCE") /\ ~Has(sym, "LDABS")
        BY <2>5
      <3>2. Fits(value - (here + sym.size + 1), sym.size)
        BY <2>2, <3>1 DEF Stands
      <3> QED BY <3>2 DEF Fits
    <2>9. IsRef(sym)
      BY <1>2, <2>1
    <2>10. sym.size \in Nat
      BY <2>4, <2>6, <2>7, <2>8, <2>9, IsRefIs
    <2>11. WritableSymbol(sym, target)
      BY <2>1, <2>3, <2>4, <2>6, <2>7, <2>8, <2>10 DEF WritableSymbol
    <2> QED BY <2>1, <2>11 DEF Targets
  <1>3. \A i \in DOMAIN At(p).symbols : WritableSymbol(At(p).symbols[i], Targets(At(p))[i])
    <2>1. \A i \in DOMAIN At(p).symbols :
             ~IsRef(At(p).symbols[i]) => WritableSymbol(At(p).symbols[i], Targets(At(p))[i])
      BY DEF WritableSymbol
    <2> QED BY <1>2, <2>1
  <1> QED BY <1>1, <1>3 DEF Writable, Loaded, Tidy


\* Where the output of the k-th section of the map ends in the image.
EndIn(k, b) ==
    LET m == IF k < b THEN k ELSE b - 1
    IN  IF m = 0 THEN 0 ELSE Ends(At(entries[m])) - opts.base

\* Uninitialised data are not written.
LEMMA BareIs ==
  ASSUME NEW sect, Has(sect, "BSS"), NEW targets, NEW endian
  PROVE  OutputExe(sect, targets, endian) = <<>>
  BY DEF OutputExe

\* Each output is as long as its section.
LEMMA OutputsFollow ==
  ASSUME ExeOK, ExeNumeric, Meaningful, ExeTidy, EntriesOK, Numbers, SectionsBegin, SymbolsStand,
         NEW b, Divided(b), NEW k \in DOMAIN entries
  PROVE  /\ Output(entries[k]) \in Seq(ByteValues(At(entries[k])))
         /\ EndIn(k, b) = EndIn(k - 1, b) + Len(Output(entries[k]))
         /\ k < b => EndIn(k - 1, b) = At(entries[k]).address - opts.base
  <1>1. Len(entries) \in Nat /\ DOMAIN entries = 1 .. Len(entries) /\ b \in DOMAIN entries
    BY SeqIsFunction DEF EntriesOK, Divided
  <1>2. PICK p, sect, out : p = entries[k] /\ sect = At(p) /\ out = Output(p)
    OBVIOUS
  <1>3. p \in Places /\ p \in Range(entries) /\ Loaded(sect) /\ NumericSection(sect) /\ Tidy(sect)
    BY <1>2, PlacesAre DEF EntriesOK, Range, ExeNumeric, ExeTidy
  <1>4. PICK targets, endian : targets = Targets(sect) /\ endian = opts.endian
    OBVIOUS
  <1>5. out = OutputExe(sect, targets, endian)
    BY <1>2, <1>4 DEF Output, Targets
  <1>6. opts.base \in Int /\ \A j \in DOMAIN entries : At(entries[j]).address \in Int /\ Ends(At(entries[j])) \in Int
    BY AddressesAre DEF Numbers
  <1>7. Writable(sect, targets)
    BY <1>2, <1>3, <1>4, <1>6, EntryWritable
  <1>8. IF k < b THEN ~Has(sect, "BSS") \/ Empty(sect) ELSE Has(sect, "BSS")
    BY <1>2 DEF Divided
  <1>9. out \in Seq(ByteValues(sect))
        /\ Len(out) = IF Has(sect, "BSS") THEN 0 ELSE sect.cursor + Taken(sect)[Len(sect.symbols)]
    <2>1. CASE Has(sect, "BSS")
      <3>1. out = <<>>
        BY <1>5, <2>1, BareIs
      <3> QED BY <2>1, <3>1
    <2>2. CASE ~Has(sect, "BSS")
      BY <1>5, <1>7, <2>2, OutputIs
    <2> QED BY <2>1, <2>2
  <1>10. CASE ~(k < b)
    <2>1. Has(sect, "BSS") /\ Len(out) = 0
      BY <1>8, <1>9, <1>10
    <2>2. EndIn(k, b) = EndIn(k - 1, b)
      <3>1. k - 1 < b => k - 1 = b - 1
        BY <1>1, <1>10
      <3> QED BY <1>10, <3>1 DEF EndIn
    <2>3. EndIn(k, b) \in Int
      <3>1. b - 1 # 0 => b - 1 \in DOMAIN entries
        BY <1>1
      <3> QED BY <1>6, <1>10, <3>1 DEF EndIn
    <2> QED BY <1>2, <1>9, <1>10, <2>1, <2>2, <2>3
  <1>11. CASE k < b
    <2>1. sect.address = IF k = 1 THEN opts.base ELSE Ends(At(entries[k - 1]))
      <3>1. entries[k] # entries[b] /\ entries[b] = Builtin("__bss_start__")
        BY <1>1, <1>11 DEF EntriesOK, Distinct, Divided
      <3> QED BY <1>2, <3>1 DEF SectionsBegin, Begins
    <2>2. EndIn(k - 1, b) = sect.address - opts.base
      <3>1. k - 1 < b /\ (k - 1 = 0 <=> k = 1)
        BY <1>1, <1>11
      <3>2. CASE k = 1
        BY <1>6, <2>1, <3>1, <3>2 DEF EndIn
      <3>3. CASE k # 1
        BY <2>1, <3>1, <3>3 DEF EndIn
      <3> QED BY <3>2, <3>3
    <2>3. EndIn(k, b) = Ends(sect) - opts.base
      BY <1>1, <1>2, <1>11 DEF EndIn
    <2>4. Ends(sect) = sect.address + Len(out)
      <3>1. CASE ~Has(sect, "BSS")
        <4>1. PICK l : l = Taken(sect)[Len(sect.symbols)]
          OBVIOUS
        <4>2. l \in Int
          <5>1. \A i \in 0 .. Len(sect.symbols) : Taken(sect)[i] \in Int
            BY <1>3, TakenIs DEF Loaded, NumericSection, Numeric
          <5>2. Len(sect.symbols) \in Nat
            BY <1>3, SeqIsFunction DEF Loaded
          <5> QED BY <4>1, <5>1, <5>2
        <4>3. sect.address \in Int /\ sect.cursor \in Int
          BY <1>2, <1>3, <1>6 DEF NumericSection
        <4> QED BY <1>9, <3>1, <4>1, <4>2, <4>3 DEF Ends
      <3>2. CASE Has(sect, "BSS")
        <4>1. sect.cursor = 0 /\ \A i \in DOMAIN sect.symbols : ~IsRef(sect.symbols[i])
          BY <1>8, <1>11, <3>2 DEF Empty
        <4>2. IsSeq(sect.symbols) /\ Len(sect.symbols) \in Nat /\ DOMAIN sect.symbols = 1 .. Len(sect.symbols)
          BY <1>3, SeqIsFunction DEF Loaded
        <4>3. Taken(sect)[0] = Taken(sect)[Len(sect.symbols)]
          <5>1. PICK n : n = Len(sect.symbols)
            OBVIOUS
          <5>2. 0 \in 0 .. n /\ n \in 0 .. n /\ \A i \in 0 + 1 .. n : ~IsRef(sect.symbols[i])
            BY <4>1, <4>2, <5>1
          <5> QED BY <4>1, <4>2, <5>1, <5>2, TakenSame
        <4>4. Taken(sect)[0] = 0
          BY <4>1, <4>2, TakenIs
        <4>5. sect.address \in Int
          BY <1>2, <1>6
        <4> QED BY <1>9, <3>2, <4>1, <4>3, <4>4, <4>5 DEF Ends
      <3> QED BY <3>1, <3>2
    <2>5. sect.address \in Int /\ opts.base \in Int /\ Len(out) \in Nat
      BY <1>2, <1>6, <1>9
    <2>6. EndIn(k, b) = EndIn(k - 1, b) + Len(out)
      BY <2>2, <2>3, <2>4, <2>5
    <2> QED BY <1>2, <1>9, <2>2, <2>6
  <1> QED BY <1>10, <1>11


\* The image is the sections' output, each at its section's address.
LEMMA SavedIs ==
  ASSUME ExeOK, ExeNumeric, Meaningful, ExeTidy, EntriesOK, Numbers, SectionsBegin, SymbolsStand,
         CodeEnds, NEW b, Divided(b), Save
  PROVE  /\ Len(image') = codeend - opts.base
         /\ \A p \in Range(entries) :
               ~Has(At(p), "BSS") =>
                  \A j \in 1 .. Len(Output(p)) : image'[At(p).address - opts.base + j] = Output(p)[j]
  <1> DEFINE n == Len(entries)
             seqs == [k \in DOMAIN entries |-> Output(entries[k])]
             e == [k \in 0 .. n |-> EndIn(k, b)]
             S == UNION {ByteValues(At(p)) : p \in Range(entries)}
  <1>1. n \in Nat /\ DOMAIN entries = 1 .. n /\ b \in 1 .. n /\ entries[b] = Builtin("__bss_start__")
    BY SeqIsFunction DEF EntriesOK, Divided
  <1>2. image' = FlattenSeq(seqs)
    BY DEF Save
  <1>3. ASSUME NEW k \in 1 .. n
        PROVE  /\ Output(entries[k]) \in Seq(S)
               /\ EndIn(k, b) = EndIn(k - 1, b) + Len(Output(entries[k]))
               /\ k < b => EndIn(k - 1, b) = At(entries[k]).address - opts.base
    <2>1. /\ Output(entries[k]) \in Seq(ByteValues(At(entries[k])))
          /\ EndIn(k, b) = EndIn(k - 1, b) + Len(Output(entries[k]))
          /\ k < b => EndIn(k - 1, b) = At(entries[k]).address - opts.base
      BY <1>1, OutputsFollow
    <2>2. ByteValues(At(entries[k])) \subseteq S
      BY <1>1 DEF Range
    <2> HIDE DEF S
    <2> QED BY <2>1, <2>2
  <1>4. EndIn(0, b) = 0 /\ EndIn(n, b) = codeend - opts.base
    <2>1. EndIn(0, b) = 0
      <3>1. (IF 0 < b THEN 0 ELSE b - 1) = 0
        BY <1>1
      <3> QED BY <3>1 DEF EndIn
    <2>2. codeend = IF b = 1 THEN opts.base ELSE Ends(At(entries[b - 1]))
      BY <1>1 DEF CodeEnds
    <2>3. ~(n < b) /\ (b - 1 = 0 <=> b = 1) /\ opts.base \in Int
      BY <1>1 DEF Numbers
    <2>4. EndIn(n, b) = codeend - opts.base
      BY <2>2, <2>3 DEF EndIn
    <2> QED BY <2>1, <2>4
  <1> HIDE DEF S
  <1>5. PICK m, s, f : m = n /\ s = seqs /\ f = e
    OBVIOUS
  <1>6. /\ m \in Nat \ {0} /\ DOMAIN s = 1 .. m /\ s = [k \in 1 .. m |-> Output(entries[k])]
        /\ f = [k \in 0 .. m |-> EndIn(k, b)]
    BY <1>1, <1>5
  <1>7. \A k \in 1 .. m : s[k] = Output(entries[k]) /\ f[k] = EndIn(k, b) /\ f[k - 1] = EndIn(k - 1, b)
    BY <1>6
  <1>8. f[0] = EndIn(0, b) /\ f[m] = EndIn(n, b)
    BY <1>5, <1>6
  <1>9. Len(s) = m /\ AreSeqs(m, s, S)
    <2>1. AreSeqs(m, s, S)
      BY <1>3, <1>5, <1>7 DEF AreSeqs
    <2>2. s \in Seq(Seq(S))
      <3>1. \A k \in 1 .. m : s[k] \in Seq(S)
        BY <2>1 DEF AreSeqs
      <3> QED BY <1>6, <3>1
    <2> QED BY <1>6, <2>1, <2>2
  <1>10. Chained(m, s, f)
    BY <1>3, <1>4, <1>5, <1>7, <1>8 DEF Chained
  <1>11. /\ Len(image') = f[m]
         /\ \A k \in 1 .. m : \A j \in 1 .. Len(s[k]) : image'[f[k - 1] + j] = s[k][j]
    <2>0. PICK V : V = S
      OBVIOUS
    <2>0a. m \in Nat \ {0} /\ DOMAIN s = 1 .. m /\ Len(s) = m /\ AreSeqs(m, s, V) /\ Chained(m, s, f)
      BY <1>6, <1>9, <1>10, <2>0
    <2>1. Flattened(FlattenSeq(s), m, s, f)
      BY <2>0a, FlattenIs
    <2>2. image' = FlattenSeq(s)
      BY <1>2, <1>5
    <2> QED BY <2>1, <2>2 DEF Flattened
  <1>12. ASSUME NEW p \in Range(entries), ~Has(At(p), "BSS"), NEW j \in 1 .. Len(Output(p))
         PROVE  image'[At(p).address - opts.base + j] = Output(p)[j]
    <2>1. PICK k \in 1 .. n : entries[k] = p
      BY <1>1 DEF Range
    <2>2. k < b
      BY <1>1, <1>12, <2>1 DEF Divided
    <2>3. f[k - 1] = At(p).address - opts.base /\ s[k] = Output(p)
      BY <1>3, <1>5, <1>7, <2>1, <2>2
    <2>4. k \in 1 .. m
      BY <1>5
    <2>5. image'[f[k - 1] + j] = s[k][j]
      BY <1>11, <1>12, <2>3, <2>4
    <2> QED BY <2>3, <2>5
  <1> QED BY <1>4, <1>8, <1>11, <1>12


\* What it means to be written depends on the byte order only.
LEMMA WrittenStays ==
  ASSUME UNCHANGED opts, NEW bytes, NEW sym, NEW here, NEW value, Written(bytes, sym, here, value)
  PROVE  Written(bytes, sym, here, value)'
  BY DEF Written

\* A section whose output stands at its address is in the image as it should be.
LEMMA SectionImaged ==
  ASSUME NEW sect, NEW targets, Writable(sect, targets), ~Has(sect, "BSS"), UNCHANGED opts, opts.base \in Int,
         \A i \in DOMAIN sect.symbols :
            Stands(sect.symbols[i], Lies(sect, i), TargetValue(targets[i], sect.symbols[i])),
         NEW out, out = OutputExe(sect, targets, opts.endian),
         \A j \in 1 .. Len(out) : image'[sect.address - opts.base + j] = out[j]
  PROVE  /\ \A i \in DOMAIN sect.symbols :
               IsRef(sect.symbols[i]) =>
                  Written(Bytes(Stored(sect, i), sect.symbols[i].size), sect.symbols[i], Lies(sect, i),
                          TargetValue(targets[i], sect.symbols[i]))'
         /\ \A c \in 0 .. sect.cursor - 1 : \A i \in 0 .. Len(sect.symbols) :
               Splits(sect, i, c) => Bytes(sect.address + c + Taken(sect)[i], 1)' = Code(sect, c, c + 1)
  <1> DEFINE n == Len(sect.symbols)
  <1>1. PICK img, base, endian : img = image' /\ base = opts.base /\ endian = opts.endian
    OBVIOUS
  <1>2. /\ base \in Int /\ opts'.base = base /\ out = OutputExe(sect, targets, endian)
        /\ \A j \in 1 .. Len(out) : img[sect.address - base + j] = out[j]
    BY <1>1
  <1>3. /\ Len(out) = sect.cursor + Taken(sect)[n]
        /\ RefsIn(out, sect, targets, endian, n) /\ CodesIn(out, sect, sect.cursor)
    BY <1>2, OutputIs
  <1>4. /\ sect.address \in Int /\ sect.cursor \in Nat /\ n \in Nat /\ DOMAIN sect.symbols = 1 .. n
        /\ \A i \in 0 .. n : Taken(sect)[i] \in Int
    <2>1. IsSeq(sect.symbols) /\ sect.address \in Int /\ sect.cursor \in Nat
      BY DEF Writable, Orderly
    <2>2. \A i \in DOMAIN sect.symbols : IsRef(sect.symbols[i]) => sect.symbols[i].size \in Int
      BY DEF Writable, WritableSymbol
    <2> QED BY <2>1, <2>2, TakenIs, SeqIsFunction
  <1>5. \A addr, k : Bytes(addr, k)' = [l \in 1 .. k |-> img[addr - base + l]]
    BY <1>1, <1>2 DEF Bytes
  <1>6. ASSUME NEW i \in DOMAIN sect.symbols, IsRef(sect.symbols[i])
        PROVE  Written(Bytes(Stored(sect, i), sect.symbols[i].size), sect.symbols[i], Lies(sect, i),
                       TargetValue(targets[i], sect.symbols[i]))'
    <2>1. PICK sym, target, offset, here, value, bytes :
             /\ sym = sect.symbols[i] /\ target = targets[i] /\ offset = Taken(sect)[i - 1]
             /\ here = Lies(sect, i) /\ value = TargetValue(target, sym)
             /\ bytes = RefBytes(sect, sym, offset, target, endian)
      OBVIOUS
    <2>2. WritableSymbol(sym, target) /\ IsRef(sym)
      BY <1>6, <2>1 DEF Writable
    <2>3. offset \in Int /\ here = sect.address + sym.cursor + offset
      <3>1. i - 1 \in 0 .. n
        BY <1>4
      <3> QED BY <1>4, <2>1, <3>1 DEF Lies
    <2>4. Stands(sym, here, value)
      BY <2>1
    <2>5. bytes \in Seq(Int) /\ Len(bytes) = sym.size /\ Written(bytes, sym, here, value)
      <3>1. sect.address \in Int /\ endian = opts.endian
        BY <1>1, <1>4
      <3>2. /\ bytes \in Seq(Int) /\ Len(bytes) = sym.size
            /\ Stands(sym, sect.address + sym.cursor + offset, TargetValue(target, sym))
                 => Written(bytes, sym, sect.address + sym.cursor + offset, TargetValue(target, sym))
        BY <2>1, <2>2, <2>3, <3>1, RefBytesAre
      <3> QED BY <2>1, <2>3, <2>4, <3>2
    <2>6. RefIn(out, sect, targets, endian, i)
      BY <1>3, <1>4, <1>6 DEF RefsIn
    <2>7. PICK at : at = Reached(sym)
      OBVIOUS
    <2>8. \A k \in 1 .. sym.size : at + offset + k \in 1 .. Len(out) /\ out[at + offset + k] = bytes[k]
      BY <2>1, <2>6, <2>7 DEF RefIn
    <2>9. at \in Int /\ Stored(sect, i) = sect.address + at + offset /\ sym.size \in Nat
      <3>1. at \in Int /\ sym.size \in Nat
        BY <2>2, <2>7 DEF WritableSymbol, Numeric, Ordinary, Reached
      <3> QED BY <2>1, <2>7, <3>1 DEF Stored
    <2>10. Bytes(Stored(sect, i), sym.size)' = bytes
      <3>1. Bytes(Stored(sect, i), sym.size)' = [l \in 1 .. sym.size |-> img[Stored(sect, i) - base + l]]
        BY <1>5
      <3>2. ASSUME NEW l \in 1 .. sym.size PROVE img[Stored(sect, i) - base + l] = bytes[l]
        <4>1. PICK j : j = at + offset + l
          OBVIOUS
        <4>2. j \in 1 .. Len(out) /\ out[j] = bytes[l]
          BY <2>8, <4>1
        <4>3. Stored(sect, i) - base + l = sect.address - base + j
          BY <1>2, <1>4, <2>3, <2>9, <4>1
        <4> QED BY <1>2, <4>2, <4>3
      <3>3. bytes = [l \in 1 .. sym.size |-> bytes[l]]
        BY <2>5
      <3> QED BY <3>1, <3>2, <3>3
    <2>11. Written(bytes, sym, here, value)'
      BY <2>5, WrittenStays
    <2> QED BY <2>1, <2>10, <2>11
  <1>7. ASSUME NEW c \in 0 .. sect.cursor - 1, NEW i \in 0 .. n, Splits(sect, i, c)
        PROVE  Bytes(sect.address + c + Taken(sect)[i], 1)' = Code(sect, c, c + 1)
    <2>1. PICK t, j : t = Taken(sect)[i] /\ j = c + t + 1
      OBVIOUS
    <2>2. j \in 1 .. Len(out) /\ out[j] = Code(sect, c, c + 1)[1]
      BY <1>3, <1>7, <2>1 DEF CodesIn, CodeIn
    <2>3. sect.address + c + t - base + 1 = sect.address - base + j
      BY <1>2, <1>4, <2>1
    <2>4. PICK addr, one : addr = sect.address + c + t /\ one = 1
      OBVIOUS
    <2>4a. Bytes(addr, one)' = [l \in 1 .. one |-> img[addr - base + l]]
      BY <1>5
    <2>5. Code(sect, c, c + 1) = [l \in 1 .. 1 |-> Code(sect, c, c + 1)[l]]
      <3>1. (c + 1) - c = 1
        OBVIOUS
      <3> QED BY <3>1 DEF Code
    <2>6. ASSUME NEW l \in 1 .. one PROVE img[addr - base + l] = Code(sect, c, c + 1)[l]
      <3>1. one \in Int /\ l \in Int /\ l = 1
        BY <2>4
      <3>2. addr \in Int /\ t \in Int /\ c \in Int /\ sect.address \in Int /\ base \in Int
        BY <1>2, <1>4, <2>1, <2>4
      <3>3. addr - base + l = sect.address - base + j
        <4>1. PICK a, x : a = sect.address /\ x = c
          OBVIOUS
        <4>2. addr = a + x + t /\ j = x + t + 1 /\ l = 1
          BY <2>1, <2>4, <3>1, <4>1
        <4>3. a \in Int /\ x \in Int /\ t \in Int /\ base \in Int
          BY <3>2, <4>1
        <4>4. addr - base + l = a - base + j
          BY <4>2, <4>3
        <4> QED BY <4>1, <4>4
      <3> QED BY <1>2, <2>2, <3>1, <3>3
    <2>7. Bytes(addr, one)' = Code(sect, c, c + 1)
      BY <2>4, <2>4a, <2>5, <2>6
    <2> QED BY <2>1, <2>4, <2>7
  <1> QED BY <1>6, <1>7

-----------------------------------------------------------------------------
(* The relocation table.                                                   *)

\* Two lists that ascend, the second beyond the first.
LEMMA ConcatAscends ==
  ASSUME NEW s \in Seq(Int), NEW t \in Seq(Int), NEW m \in Int, Ascends(s), Ascends(t),
         \A k \in DOMAIN s : s[k] < m, \A k \in DOMAIN t : m <= t[k]
  PROVE  s \o t \in Seq(Int) /\ Ascends(s \o t) /\ Range(s \o t) = Range(s) \cup Range(t)
  <1> DEFINE u == s \o t
  <1>1. /\ u \in Seq(Int) /\ Len(u) = Len(s) + Len(t) /\ Len(s) \in Nat /\ Len(t) \in Nat
        /\ \A k \in 1 .. Len(s) : u[k] = s[k]
        /\ \A k \in 1 .. Len(t) : u[Len(s) + k] = t[k]
    BY ConcatIs
  <1>2. DOMAIN s = 1 .. Len(s) /\ DOMAIN t = 1 .. Len(t)
    OBVIOUS
  <1>2a. DOMAIN u = 1 .. Len(u)
    BY <1>1
  <1>2b. (\A k \in DOMAIN s : s[k] \in Int) /\ (\A k \in DOMAIN t : t[k] \in Int)
    OBVIOUS
  <1> HIDE DEF u
  <1>3. ASSUME NEW k \in DOMAIN u
        PROVE  IF k <= Len(s) THEN k \in DOMAIN s /\ u[k] = s[k]
               ELSE k - Len(s) \in DOMAIN t /\ u[k] = t[k - Len(s)]
    <2>1. CASE k <= Len(s)
      BY <1>1, <1>2, <1>2a, <2>1
    <2>2. CASE ~(k <= Len(s))
      <3>1. PICK d : d = k - Len(s)
        OBVIOUS
      <3>2. d \in 1 .. Len(t) /\ k = Len(s) + d
        BY <1>1, <1>2a, <2>2, <3>1
      <3> QED BY <1>1, <1>2, <2>2, <3>1, <3>2
    <2> QED BY <2>1, <2>2
  <1>4. Ascends(u)
    <2> SUFFICES ASSUME NEW j \in DOMAIN u, NEW k \in DOMAIN u, j < k PROVE u[j] < u[k]
      BY DEF Ascends
    <2>1. CASE k <= Len(s)
      <3>1. j <= Len(s)
        BY <1>1, <1>2a, <2>1
      <3> QED BY <1>3, <2>1, <3>1 DEF Ascends
    <2>2. CASE ~(k <= Len(s)) /\ j <= Len(s)
      <3>1. u[j] < m /\ m <= u[k] /\ u[j] \in Int /\ u[k] \in Int
        BY <1>2b, <1>3, <2>2
      <3> QED BY <3>1
    <2>3. CASE ~(k <= Len(s)) /\ ~(j <= Len(s))
      <3>1. j - Len(s) < k - Len(s)
        BY <1>1, <1>2a
      <3> QED BY <1>3, <2>3, <3>1 DEF Ascends
    <2> QED BY <2>1, <2>2, <2>3
  <1>5. Range(u) \subseteq Range(s) \cup Range(t)
    <2> SUFFICES ASSUME NEW k \in DOMAIN u PROVE u[k] \in Range(s) \cup Range(t)
      BY DEF Range
    <2> QED BY <1>3 DEF Range
  <1>6. Range(s) \cup Range(t) \subseteq Range(u)
    <2>1. \A k \in DOMAIN s : k \in DOMAIN u /\ u[k] = s[k]
      BY <1>1, <1>2, <1>2a
    <2>2. \A k \in DOMAIN t : Len(s) + k \in DOMAIN u /\ u[Len(s) + k] = t[k]
      BY <1>1, <1>2, <1>2a
    <2> QED BY <2>1, <2>2 DEF Range
  <1> QED BY <1>1, <1>4, <1>5, <1>6 DEF u

\* The lists lie one behind the other between the bounds, each in ascending order.
Staggered(n, seqs, low) ==
    /\ \A k \in 0 .. n : low[k] \in Int
    /\ \A k \in 1 .. n :
          /\ low[k - 1] <= low[k] /\ Ascends(seqs[k])
          /\ \A j \in DOMAIN seqs[k] : low[k - 1] <= seqs[k][j] /\ seqs[k][j] < low[k]

\* Then they ascend together.
LEMMA FlattenAscends ==
  ASSUME NEW n \in Nat \ {0}, NEW seqs, DOMAIN seqs = 1 .. n, Len(seqs) = n, AreSeqs(n, seqs, Int),
         NEW low, Staggered(n, seqs, low)
  PROVE  /\ Ascends(FlattenSeq(seqs))
         /\ Range(FlattenSeq(seqs)) = UNION {Range(seqs[k]) : k \in 1 .. n}
  <1>1. PICK flat : FlattenSeq(seqs) = flat[n] /\ Unfolds(n, seqs, flat)
    BY FlattenUnfolds
  <1> DEFINE Q(i) == /\ flat[i] \in Seq(Int) /\ Ascends(flat[i]) /\ \A k \in DOMAIN flat[i] : flat[i][k] < low[i]
                     /\ \A v : v \in Range(flat[i]) <=> \E k \in 1 .. i : v \in Range(seqs[k])
             T == {d \in Nat : d + 1 <= n => Q(d + 1)}
  <1>2. 0 \in T
    <2>1. flat[1] = seqs[1] /\ 1 \in 1 .. n
      BY <1>1 DEF Unfolds
    <2>2. seqs[1] \in Seq(Int) /\ Ascends(seqs[1]) /\ \A k \in DOMAIN seqs[1] : seqs[1][k] < low[1]
      BY <2>1 DEF AreSeqs, Staggered
    <2>3. \A v : v \in Range(flat[1]) <=> \E k \in 1 .. 1 : v \in Range(seqs[k])
      BY <2>1
    <2>4. Q(1)
      BY <2>1, <2>2, <2>3
    <2> HIDE DEF Q
    <2> QED BY <2>4
  <1>3. ASSUME NEW d \in Nat, d \in T PROVE d + 1 \in T
    <2> SUFFICES ASSUME d + 2 <= n PROVE Q(d + 2)
      OBVIOUS
    <2>1. PICK i, m : i = d + 1 /\ m = i + 1
      OBVIOUS
    <2>2. i \in 1 .. n /\ i \in 0 .. n /\ m \in 1 .. n /\ m # 1 /\ m - 1 = i /\ m = d + 2 /\ i <= n
      BY <2>1
    <2>3. Q(i)
      <3> HIDE DEF Q
      <3> QED BY <1>3, <2>1, <2>2
    <2>4. PICK x, y, z : x = flat[i] /\ y = seqs[m] /\ z = flat[m]
      OBVIOUS
    <2>5. z = x \o y
      BY <1>1, <2>2, <2>4 DEF Unfolds
    <2>6. /\ x \in Seq(Int) /\ Ascends(x) /\ \A k \in DOMAIN x : x[k] < low[i]
          /\ \A v : v \in Range(x) <=> \E k \in 1 .. i : v \in Range(seqs[k])
      BY <2>3, <2>4
    <2> HIDE DEF Q
    <2>7. /\ y \in Seq(Int) /\ Ascends(y) /\ low[i] \in Int /\ low[m] \in Int /\ low[i] <= low[m]
          /\ \A k \in DOMAIN y : low[i] <= y[k] /\ y[k] < low[m]
      <3>1. m \in 0 .. n
        BY <2>2
      <3> QED BY <2>2, <2>4, <3>1 DEF AreSeqs, Staggered
    <2>8. z \in Seq(Int) /\ Ascends(z) /\ Range(z) = Range(x) \cup Range(y)
      BY <2>5, <2>6, <2>7, ConcatAscends
    <2>9. \A k \in DOMAIN z : z[k] < low[m]
      <3> SUFFICES ASSUME NEW k \in DOMAIN z PROVE z[k] < low[m]
        OBVIOUS
      <3>1. PICK v : v = z[k]
        OBVIOUS
      <3>2. v \in Range(x) \/ v \in Range(y)
        BY <2>8, <3>1 DEF Range
      <3>3. CASE v \in Range(x)
        <4>1. PICK j \in DOMAIN x : x[j] = v
          BY <3>3 DEF Range
        <4>2. v < low[i] /\ v \in Int
          BY <2>6, <4>1
        <4> QED BY <2>7, <3>1, <4>2
      <3>4. CASE v \in Range(y)
        BY <2>7, <3>1, <3>4 DEF Range
      <3> QED BY <3>2, <3>3, <3>4
    <2>10. \A v : v \in Range(z) <=> \E k \in 1 .. m : v \in Range(seqs[k])
      <3>1. \A k : k \in 1 .. m <=> k \in 1 .. i \/ k = m
        BY <2>1
      <3> QED BY <2>4, <2>6, <2>8, <3>1
    <2> QED BY <2>2, <2>4, <2>8, <2>9, <2>10 DEF Q
  <1>4. Q(n)
    <2> HIDE DEF T, Q
    <2>1. \A d \in Nat : d \in T
      BY <1>2, <1>3, SetInduction
    <2>2. (n - 1) + 1 = n /\ n - 1 \in Nat
      OBVIOUS
    <2>3. n - 1 \in T
      BY <2>1, <2>2
    <2> QED BY <2>2, <2>3 DEF T
  <1>5. Range(flat[n]) = UNION {Range(seqs[k]) : k \in 1 .. n}
    BY <1>4
  <1> QED BY <1>1, <1>4, <1>5


\* What is taken up to a symbol only grows.
LEMMA TakenGrows ==
  ASSUME NEW sect, NEW targets, Writable(sect, targets),
         NEW a \in 0 .. Len(sect.symbols), NEW b \in a .. Len(sect.symbols)
  PROVE  Taken(sect)[a] <= Taken(sect)[b]
  <1> DEFINE t == Taken(sect)
             n == Len(sect.symbols)
             T == {d \in Nat : a + d <= n => t[a] <= t[a + d]}
  <1>1. /\ n \in Nat /\ \A i \in 0 .. n : t[i] \in Nat
        /\ \A i \in 1 .. n : t[i] = t[i - 1] + (IF IsRef(sect.symbols[i]) THEN sect.symbols[i].size ELSE 0)
    BY WritableTaken
  <1>2. \A i \in 1 .. n : t[i - 1] <= t[i]
    <2> SUFFICES ASSUME NEW i \in 1 .. n PROVE t[i - 1] <= t[i]
      OBVIOUS
    <2>1. IsRef(sect.symbols[i]) => sect.symbols[i].size \in Nat
      BY WritableTaken DEF Writable, WritableSymbol
    <2>2. t[i - 1] \in Nat
      BY <1>1
    <2>3. t[i] = t[i - 1] + (IF IsRef(sect.symbols[i]) THEN sect.symbols[i].size ELSE 0)
      BY <1>1
    <2>4. PICK x, y, z : x = t[i - 1] /\ y = t[i] /\ z = sect.symbols[i].size
      OBVIOUS
    <2>5. x \in Nat /\ y = x + (IF IsRef(sect.symbols[i]) THEN z ELSE 0) /\ (IsRef(sect.symbols[i]) => z \in Nat)
      BY <2>1, <2>2, <2>3, <2>4
    <2>6. x <= y
      BY <2>5
    <2> HIDE DEF t, n
    <2> QED BY <2>4, <2>6
  <1> HIDE DEF t, n
  <1>3. 0 \in T
    <2>1. a \in 0 .. n /\ a + 0 = a
      BY DEF n
    <2> QED BY <1>1, <2>1
  <1>4. ASSUME NEW d \in Nat, d \in T PROVE d + 1 \in T
    <2> SUFFICES ASSUME a + (d + 1) <= n PROVE t[a] <= t[a + (d + 1)]
      OBVIOUS
    <2>1. PICK i : i = a + (d + 1)
      OBVIOUS
    <2>2. i \in 1 .. n /\ i - 1 = a + d /\ a + d <= n /\ a \in 0 .. n /\ i \in 0 .. n /\ a + d \in 0 .. n
      BY <1>1, <2>1 DEF n
    <2>3. t[a] <= t[i - 1]
      BY <1>4, <2>2
    <2>4. t[i - 1] <= t[i] /\ t[a] \in Nat /\ t[i] \in Nat /\ t[i - 1] \in Nat
      BY <1>1, <1>2, <2>2
    <2> QED BY <2>1, <2>3, <2>4
  <1>5. \A d \in Nat : d \in T
    <2> HIDE DEF T
    <2> QED BY <1>3, <1>4, SetInduction
  <1>6. PICK d : d = b - a
    OBVIOUS
  <1>7. d \in Nat /\ a + d = b /\ b <= n
    BY <1>1, <1>6 DEF n
  <1>8. d \in T
    BY <1>5, <1>7
  <1> QED BY <1>7, <1>8 DEF t

\* A word lies before all references behind it, and within its section.
LEMMA StoredGrows ==
  ASSUME NEW sect, NEW targets, Writable(sect, targets), NEW j \in DOMAIN sect.symbols,
         Has(sect.symbols[j], "REFERENCE")
  PROVE  /\ Stored(sect, j) \in Int
         /\ Stored(sect, j) = sect.address + sect.symbols[j].cursor + Taken(sect)[j - 1]
         /\ sect.address <= Stored(sect, j) /\ Stored(sect, j) < Ends(sect)
         /\ \A i \in DOMAIN sect.symbols :
               j < i /\ Has(sect.symbols[i], "REFERENCE") => Stored(sect, j) < Stored(sect, i)
  <1> DEFINE n == Len(sect.symbols)
             t == Taken(sect)
             r(i) == Reached(sect.symbols[i])
  <1>1. /\ DOMAIN sect.symbols = 1 .. n /\ n \in Nat /\ sect.cursor \in Nat /\ sect.address \in Int
        /\ \A i \in 0 .. n : t[i] \in Nat
        /\ \A i \in 1 .. n : IsRef(sect.symbols[i]) => r(i) \in 0 .. sect.cursor
        /\ \A i \in 1 .. n : t[i] = t[i - 1] + (IF IsRef(sect.symbols[i]) THEN sect.symbols[i].size ELSE 0)
    BY WritableTaken DEF Writable
  <1>2. \A i \in DOMAIN sect.symbols : Has(sect.symbols[i], "REFERENCE") => IsRef(sect.symbols[i])
    BY IsRefIs
  <1>3. IsRef(sect.symbols[j]) /\ sect.symbols[j].size = 4 /\ Numeric(sect.symbols[j])
    BY <1>2 DEF Writable, WritableSymbol
  <1>4. r(j) = sect.symbols[j].cursor
    <2>1. ~Has(sect.symbols[j], "ALIGN")
      BY <1>3 DEF Numeric, Ordinary, Kinds
    <2> QED BY <2>1 DEF Reached
  <1>5. j \in 1 .. n /\ j - 1 \in 0 .. n /\ t[j] = t[j - 1] + 4 /\ t[j - 1] \in Nat /\ t[j] \in Nat
        /\ r(j) \in 0 .. sect.cursor
    BY <1>1, <1>3
  <1>6. t[j] <= t[n] /\ t[n] \in Nat
    <2>1. j \in 0 .. n /\ n \in j .. n /\ n \in 0 .. n
      BY <1>1
    <2> HIDE DEF n
    <2> QED BY <1>1, <2>1, TakenGrows DEF n
  <1>7. \A i \in DOMAIN sect.symbols : Stored(sect, i) = sect.address + r(i) + t[i - 1]
    BY DEF Stored
  <1>8. Ends(sect) = sect.address + sect.cursor + t[n]
    BY DEF Ends
  <1>9. ASSUME NEW i \in 1 .. n, j < i, Has(sect.symbols[i], "REFERENCE")
        PROVE  r(j) <= r(i) /\ t[j] <= t[i - 1] /\ t[i - 1] \in Nat /\ r(i) \in 0 .. sect.cursor
    <2>1. IsRef(sect.symbols[i]) /\ r(i) \in 0 .. sect.cursor
      BY <1>1, <1>2, <1>9
    <2>2. r(j) <= r(i)
      <3>1. j <= i
        BY <1>1, <1>9
      <3> QED BY <1>1, <1>3, <1>9, <2>1, <3>1 DEF Writable, Orderly
    <2>3. j \in 0 .. n /\ i - 1 \in j .. n /\ i - 1 \in 0 .. n
      BY <1>1, <1>9
    <2>4. t[j] <= t[i - 1]
      <3> HIDE DEF n
      <3> QED BY <2>3, TakenGrows DEF n
    <2> QED BY <1>1, <2>1, <2>2, <2>3, <2>4
  <1> HIDE DEF n, t, r
  <1>10. /\ Stored(sect, j) \in Int /\ sect.address <= Stored(sect, j) /\ Stored(sect, j) < Ends(sect)
         /\ Stored(sect, j) = sect.address + sect.symbols[j].cursor + t[j - 1]
    <2>1. Stored(sect, j) = sect.address + r(j) + t[j - 1]
      BY <1>7
    <2>2. PICK a, b, x, y, z, c : /\ a = sect.address /\ b = r(j) /\ x = t[j - 1] /\ y = t[j] /\ z = t[n]
                                  /\ c = sect.cursor
      OBVIOUS
    <2>3. /\ a \in Int /\ c \in Nat /\ b \in 0 .. c /\ x \in Nat /\ y = x + 4 /\ y <= z /\ z \in Nat
          /\ Stored(sect, j) = a + b + x /\ Ends(sect) = a + c + z
      BY <1>1, <1>5, <1>6, <1>8, <2>1, <2>2
    <2>4. Stored(sect, j) \in Int /\ a <= Stored(sect, j) /\ Stored(sect, j) < Ends(sect)
      BY <2>3
    <2> QED BY <1>4, <2>1, <2>2, <2>4
  <1>11. ASSUME NEW i \in DOMAIN sect.symbols, j < i, Has(sect.symbols[i], "REFERENCE")
         PROVE  Stored(sect, j) < Stored(sect, i)
    <2>1. r(j) <= r(i) /\ t[j] <= t[i - 1] /\ t[i - 1] \in Nat /\ r(i) \in 0 .. sect.cursor
      BY <1>1, <1>9, <1>11
    <2>2. Stored(sect, j) = sect.address + r(j) + t[j - 1] /\ Stored(sect, i) = sect.address + r(i) + t[i - 1]
      BY <1>7
    <2>3. PICK a, b, d, x, y, z, c : /\ a = sect.address /\ b = r(j) /\ d = r(i) /\ x = t[j - 1] /\ y = t[j]
                                     /\ z = t[i - 1] /\ c = sect.cursor
      OBVIOUS
    <2>4. /\ a \in Int /\ c \in Nat /\ b \in 0 .. c /\ d \in 0 .. c /\ b <= d /\ x \in Nat /\ y = x + 4
          /\ y <= z /\ z \in Nat /\ Stored(sect, j) = a + b + x /\ Stored(sect, i) = a + d + z
      BY <1>1, <1>5, <2>1, <2>2, <2>3
    <2> QED BY <2>4
  <1> QED BY <1>10, <1>11 DEF t

\* The table lists the words up to the i-th symbol, in order.
Tabled(sect, i, acc) ==
    /\ acc.out \in Seq(Int) /\ acc.offset = Taken(sect)[i] /\ Ascends(acc.out)
    /\ \A v : v \in Range(acc.out) <=>
              \E j \in DOMAIN sect.symbols : j <= i /\ Has(sect.symbols[j], "REFERENCE") /\ v = Stored(sect, j)

\* What the table is when the i-th symbol has been seen, if acc was it before.
TabledBehind(sect, acc, i) ==
    IF ~IsRef(sect.symbols[i]) THEN acc
    ELSE [out    |-> IF Has(sect.symbols[i], "REFERENCE")
                     THEN Append(acc.out, sect.address + sect.symbols[i].cursor + acc.offset) ELSE acc.out,
          offset |-> acc.offset + sect.symbols[i].size]

\* Appending to a list that ascends.
LEMMA AppendAscends ==
  ASSUME NEW s \in Seq(Int), NEW v \in Int, Ascends(s), \A k \in DOMAIN s : s[k] < v
  PROVE  Append(s, v) \in Seq(Int) /\ Ascends(Append(s, v)) /\ Range(Append(s, v)) = Range(s) \cup {v}
  <1>1. PICK t, m : t = <<v>> /\ m = v
    OBVIOUS
  <1>2. t \in Seq(Int) /\ DOMAIN t = {1} /\ t[1] = v /\ Append(s, v) = s \o t
    BY <1>1
  <1>3. Ascends(t)
    BY <1>2 DEF Ascends
  <1>4. Range(t) = {v}
    BY <1>2 DEF Range
  <1>5. (\A k \in DOMAIN s : s[k] < m) /\ (\A k \in DOMAIN t : m <= t[k]) /\ m \in Int
    BY <1>1, <1>2
  <1> QED BY <1>2, <1>3, <1>4, <1>5, ConcatAscends

\* One symbol more.
LEMMA TabledNext ==
  ASSUME NEW sect, NEW targets, Writable(sect, targets), NEW i \in DOMAIN sect.symbols,
         NEW acc, Tabled(sect, i - 1, acc)
  PROVE  Tabled(sect, i, TabledBehind(sect, acc, i))
  <1> DEFINE sym == sect.symbols[i]
             new == TabledBehind(sect, acc, i)
  <1>1. /\ DOMAIN sect.symbols = 1 .. Len(sect.symbols) /\ Len(sect.symbols) \in Nat
        /\ Taken(sect)[i] = Taken(sect)[i - 1] + (IF IsRef(sym) THEN sym.size ELSE 0)
        /\ Taken(sect)[i - 1] \in Nat
    <2>1. i - 1 \in 0 .. Len(sect.symbols)
      BY WritableTaken
    <2> QED BY <2>1, WritableTaken
  <1>2. /\ acc.out \in Seq(Int) /\ acc.offset = Taken(sect)[i - 1] /\ Ascends(acc.out)
        /\ \A v : v \in Range(acc.out) <=>
             \E j \in DOMAIN sect.symbols : j <= i - 1 /\ Has(sect.symbols[j], "REFERENCE") /\ v = Stored(sect, j)
    BY DEF Tabled
  <1>3. \A j \in DOMAIN sect.symbols : j <= i <=> j <= i - 1 \/ j = i
    BY <1>1
  <1>4. new.offset = Taken(sect)[i]
    BY <1>1, <1>2 DEF TabledBehind
  <1>5. CASE ~Has(sym, "REFERENCE")
    <2>1. new.out = acc.out
      BY <1>5 DEF TabledBehind
    <2>2. \A v : v \in Range(acc.out) <=>
             \E j \in DOMAIN sect.symbols : j <= i /\ Has(sect.symbols[j], "REFERENCE") /\ v = Stored(sect, j)
      BY <1>2, <1>3, <1>5
    <2>3. PICK x : x = new
      OBVIOUS
    <2>4. x.out = acc.out /\ x.offset = Taken(sect)[i]
      BY <1>4, <2>1, <2>3
    <2>5. Tabled(sect, i, x)
      BY <1>2, <2>2, <2>4 DEF Tabled
    <2> QED BY <2>3, <2>5
  <1>6. CASE Has(sym, "REFERENCE")
    <2>1. IsRef(sym)
      BY <1>6, IsRefIs
    <2>2. new.out = Append(acc.out, Stored(sect, i)) /\ Stored(sect, i) \in Int
      BY <1>2, <1>6, <2>1, StoredGrows DEF TabledBehind
    <2>2a. PICK x : x = new /\ x.out = new.out /\ x.offset = Taken(sect)[i]
      BY <1>4
    <2>3. \A k \in DOMAIN acc.out : acc.out[k] < Stored(sect, i)
      <3> SUFFICES ASSUME NEW k \in DOMAIN acc.out PROVE acc.out[k] < Stored(sect, i)
        OBVIOUS
      <3>1. PICK j \in DOMAIN sect.symbols :
               j <= i - 1 /\ Has(sect.symbols[j], "REFERENCE") /\ acc.out[k] = Stored(sect, j)
        BY <1>2 DEF Range
      <3>2. j < i
        BY <1>1, <3>1
      <3> QED BY <1>6, <3>1, <3>2, StoredGrows
    <2>4. x.out \in Seq(Int) /\ Ascends(x.out) /\ Range(x.out) = Range(acc.out) \cup {Stored(sect, i)}
      BY <1>2, <2>2, <2>2a, <2>3, AppendAscends
    <2>5. \A v : v \in Range(x.out) <=>
             \E j \in DOMAIN sect.symbols : j <= i /\ Has(sect.symbols[j], "REFERENCE") /\ v = Stored(sect, j)
      BY <1>2, <1>3, <1>6, <2>4
    <2>6. Tabled(sect, i, x)
      BY <2>2a, <2>4, <2>5 DEF Tabled
    <2> QED BY <2>2a, <2>6
  <1> QED BY <1>5, <1>6

\* The table of a section lists its words in ascending order.
LEMMA RelocsAre ==
  ASSUME NEW sect, NEW targets, Writable(sect, targets), ~Has(sect, "BSS")
  PROVE  /\ OutputRelocs(sect) \in Seq(Int) /\ Ascends(OutputRelocs(sect))
         /\ Range(OutputRelocs(sect)) = Words(sect)
         /\ \A k \in DOMAIN OutputRelocs(sect) :
               sect.address <= OutputRelocs(sect)[k] /\ OutputRelocs(sect)[k] < Ends(sect)
  <1> DEFINE n == Len(sect.symbols)
             V == [out : Seq(Int), offset : Int]
             Init0 == [out |-> <<>>, offset |-> 0]
             Step(acc, i) == TabledBehind(sect, acc, i)
             P(f) == f = [i \in 0 .. n |-> IF i = 0 THEN Init0 ELSE Step(f[i - 1], i)]
             done == CHOOSE f : P(f)
             all == done[n]
             g == [ix \in (1 .. n) \X V |-> Step(ix[2], ix[1])]
  <1>1. OutputRelocs(sect) = all.out
    BY DEF OutputRelocs, TabledBehind
  <1>2. n \in Nat /\ DOMAIN sect.symbols = 1 .. n
    BY WritableTaken
  <1>3. Init0 \in V
    OBVIOUS
  <1>4. \A i \in 1 .. n : \A x \in V : g[<<i, x>>] = Step(x, i) /\ g[<<i, x>>] \in V
    <2> SUFFICES ASSUME NEW i \in 1 .. n, NEW x \in V PROVE g[<<i, x>>] = Step(x, i) /\ Step(x, i) \in V
      OBVIOUS
    <2>1. g[<<i, x>>] = Step(x, i)
      OBVIOUS
    <2>2. Step(x, i) \in V
      <3>1. IsRef(sect.symbols[i]) => sect.symbols[i].size \in Int /\ sect.symbols[i].cursor \in Int
        BY <1>2 DEF Writable, WritableSymbol, Numeric, Ordinary
      <3>2. sect.address \in Int
        BY DEF Writable
      <3> QED BY <3>1, <3>2 DEF TabledBehind
    <2> QED BY <2>1, <2>2
  <1> HIDE DEF g, V, Init0
  <1>5. PICK f \in [0 .. n -> V] : Follows(n, Init0, g, f)
    <2> HIDE DEF n, Step
    <2> QED BY <1>2, <1>3, <1>4, RecursionIn
  <1>6. P(f)
    <2>1. ASSUME NEW i \in 0 .. n PROVE f[i] = IF i = 0 THEN Init0 ELSE Step(f[i - 1], i)
      <3>1. CASE i = 0
        BY <1>5, <3>1 DEF Follows
      <3>2. CASE i # 0
        <4>1. i \in 1 .. n /\ i - 1 \in 0 .. n
          BY <1>2, <3>2
        <4>2. f[i] = g[<<i, f[i - 1]>>] /\ f[i - 1] \in V
          BY <1>5, <4>1 DEF Follows
        <4> HIDE DEF Step
        <4> QED BY <1>4, <3>2, <4>1, <4>2
      <3> QED BY <3>1, <3>2
    <2>2. f = [i \in 0 .. n |-> f[i]]
      OBVIOUS
    <2> HIDE DEF Step, n
    <2> QED BY <2>1, <2>2
  <1>7. P(done)
    <2> HIDE DEF P
    <2> QED BY <1>6
  <1> HIDE DEF done
  <1>8. done[0] = Init0 /\ \A i \in 1 .. n : done[i] = Step(done[i - 1], i)
    <2>1. \A i \in 0 .. n : done[i] = IF i = 0 THEN Init0 ELSE Step(done[i - 1], i)
      <3> HIDE DEF Step, n
      <3> QED BY <1>7
    <2>2. 0 \in 0 .. n /\ \A i \in 1 .. n : i \in 0 .. n /\ i # 0
      BY <1>2
    <2> HIDE DEF Step, n
    <2> QED BY <2>1, <2>2
  <1> HIDE DEF P
  <1> DEFINE T == {i \in Nat : i <= n => Tabled(sect, i, done[i])}
  <1>9. 0 \in T
    <2>1. Taken(sect)[0] = 0
      BY WritableTaken
    <2>2. Init0.out = <<>> /\ Init0.offset = 0
      BY DEF Init0
    <2>3. Ascends(<<>>) /\ Range(<<>>) = {} /\ <<>> \in Seq(Int)
      BY DEF Ascends, Range
    <2>4. \A j \in DOMAIN sect.symbols : ~(j <= 0)
      BY <1>2
    <2>5. Tabled(sect, 0, Init0)
      BY <2>1, <2>2, <2>3, <2>4 DEF Tabled
    <2> QED BY <1>8, <2>5
  <1>10. ASSUME NEW i \in Nat, i \in T PROVE i + 1 \in T
    <2> SUFFICES ASSUME i + 1 <= n PROVE Tabled(sect, i + 1, done[i + 1])
      OBVIOUS
    <2>1. PICK m : m = i + 1
      OBVIOUS
    <2>2. m \in 1 .. n /\ m - 1 = i /\ i <= n
      BY <1>2, <2>1
    <2>3. Tabled(sect, m - 1, done[m - 1])
      BY <1>10, <2>2
    <2>4. Tabled(sect, m, Step(done[m - 1], m))
      BY <1>2, <2>2, <2>3, TabledNext
    <2>5. done[m] = Step(done[m - 1], m)
      BY <1>8, <2>2
    <2> HIDE DEF Step
    <2> QED BY <2>1, <2>4, <2>5
  <1>11. Tabled(sect, n, all)
    <2>1. \A i \in Nat : i \in T
      <3> HIDE DEF T
      <3> QED BY <1>9, <1>10, SetInduction
    <2> QED BY <1>2, <2>1
  <1>12. PICK out : out = all.out
    OBVIOUS
  <1> HIDE DEF all, T
  <1>13. out \in Seq(Int) /\ Ascends(out)
         /\ \A v : v \in Range(out) <=>
               \E j \in DOMAIN sect.symbols : j <= n /\ Has(sect.symbols[j], "REFERENCE") /\ v = Stored(sect, j)
    BY <1>11, <1>12 DEF Tabled
  <1>14. \A j \in DOMAIN sect.symbols : j <= n
    BY <1>2
  <1>15. Range(out) = Words(sect)
    BY <1>13, <1>14 DEF Words
  <1>16. \A k \in DOMAIN out : sect.address <= out[k] /\ out[k] < Ends(sect)
    <2> SUFFICES ASSUME NEW k \in DOMAIN out PROVE sect.address <= out[k] /\ out[k] < Ends(sect)
      OBVIOUS
    <2>1. PICK j \in DOMAIN sect.symbols : Has(sect.symbols[j], "REFERENCE") /\ out[k] = Stored(sect, j)
      BY <1>13 DEF Range
    <2> QED BY <2>1, StoredGrows
  <1> QED BY <1>1, <1>12, <1>13, <1>15, <1>16


\* Uninitialised data have no words.
LEMMA BareRelocs ==
  ASSUME NEW sect, Has(sect, "BSS")
  PROVE  /\ OutputRelocs(sect) \in Seq(Int) /\ Ascends(OutputRelocs(sect))
         /\ DOMAIN OutputRelocs(sect) = {} /\ Range(OutputRelocs(sect)) = {}
  <1>1. OutputRelocs(sect) = <<>>
    BY DEF OutputRelocs
  <1> QED BY <1>1 DEF Ascends, Range

\* The tables lie one behind the other as their sections do.
LEMMA TablesFollow ==
  ASSUME ExeOK, ExeNumeric, Meaningful, ExeTidy, EntriesOK, Numbers, SectionsBegin, SymbolsStand,
         NEW b, Divided(b), NEW k \in DOMAIN entries,
         NEW table, table = OutputRelocs(At(entries[k])), NEW lo, NEW hi,
         lo = EndIn(k - 1, b) + opts.base, hi = EndIn(k, b) + opts.base
  PROVE  /\ table \in Seq(Int) /\ Ascends(table) /\ lo \in Int /\ hi \in Int /\ lo <= hi
         /\ \A j \in DOMAIN table : lo <= table[j] /\ table[j] < hi
         /\ Range(table) = IF Has(At(entries[k]), "BSS") THEN {} ELSE Words(At(entries[k]))
  <1>1. Len(entries) \in Nat /\ DOMAIN entries = 1 .. Len(entries) /\ b \in DOMAIN entries
    BY SeqIsFunction DEF EntriesOK, Divided
  <1>2. PICK p, sect : p = entries[k] /\ sect = At(p)
    OBVIOUS
  <1>3. p \in Range(entries)
    BY <1>2 DEF Range
  <1>4. opts.base \in Int /\ \A j \in DOMAIN entries : At(entries[j]).address \in Int /\ Ends(At(entries[j])) \in Int
    BY AddressesAre DEF Numbers
  <1>5. \A m \in 0 .. Len(entries) : EndIn(m, b) \in Int
    <2> SUFFICES ASSUME NEW m \in 0 .. Len(entries) PROVE EndIn(m, b) \in Int
      OBVIOUS
    <2>1. PICK d : d = IF m < b THEN m ELSE b - 1
      OBVIOUS
    <2>2. d # 0 => d \in DOMAIN entries
      BY <1>1, <2>1
    <2>3. EndIn(m, b) = IF d = 0 THEN 0 ELSE Ends(At(entries[d])) - opts.base
      BY <2>1 DEF EndIn
    <2> QED BY <1>4, <2>2, <2>3
  <1>6. lo \in Int /\ hi \in Int
    <2>1. k \in 0 .. Len(entries) /\ k - 1 \in 0 .. Len(entries)
      BY <1>1
    <2> QED BY <1>4, <1>5, <2>1
  <1>7. lo <= hi
    <2>1. EndIn(k, b) = EndIn(k - 1, b) + Len(Output(entries[k])) /\ Len(Output(entries[k])) \in Nat
      <3>1. /\ EndIn(k, b) = EndIn(k - 1, b) + Len(Output(entries[k]))
            /\ Output(entries[k]) \in Seq(ByteValues(At(entries[k])))
        BY OutputsFollow
      <3> QED BY <3>1
    <2>2. k - 1 \in 0 .. Len(entries)
      BY <1>1
    <2> QED BY <1>4, <1>5, <2>1, <2>2
  <1>8. CASE Has(sect, "BSS")
    BY <1>2, <1>6, <1>7, <1>8, BareRelocs
  <1>9. CASE ~Has(sect, "BSS")
    <2>1. Writable(sect, Targets(sect))
      BY <1>2, <1>3, <1>4, EntryWritable
    <2>2. /\ table \in Seq(Int) /\ Ascends(table) /\ Range(table) = Words(sect)
          /\ \A j \in DOMAIN table : sect.address <= table[j] /\ table[j] < Ends(sect)
      BY <1>2, <1>9, <2>1, RelocsAre
    <2>3. k < b
      BY <1>2, <1>9 DEF Divided
    <2>4. lo = sect.address
      <3>1. EndIn(k - 1, b) = sect.address - opts.base
        BY <1>2, <2>3, OutputsFollow
      <3> QED BY <1>2, <1>4, <3>1
    <2>5. hi = Ends(sect)
      <3>1. k # 0
        BY <1>1
      <3>2. EndIn(k, b) = Ends(sect) - opts.base
        BY <1>2, <2>3, <3>1 DEF EndIn
      <3> QED BY <1>2, <1>4, <3>2
    <2> QED BY <1>2, <1>6, <1>7, <1>9, <2>2, <2>4, <2>5
  <1> QED BY <1>8, <1>9

\* The table that is saved lists the words of the image in ascending order.
LEMMA TableIs ==
  ASSUME ExeOK, ExeNumeric, Meaningful, ExeTidy, EntriesOK, Numbers, SectionsBegin, SymbolsStand,
         NEW b, Divided(b), Save, opts.reloc
  PROVE  /\ Ascends(relocs')
         /\ Range(relocs') = UNION {Words(At(p)) : p \in {q \in Range(entries) : ~Has(At(q), "BSS")}}
  <1>1. PICK n, s, low : /\ n = Len(entries) /\ s = [k \in DOMAIN entries |-> OutputRelocs(At(entries[k]))]
                         /\ low = [k \in 0 .. Len(entries) |-> EndIn(k, b) + opts.base]
    OBVIOUS
  <1>2. n \in Nat \ {0} /\ DOMAIN entries = 1 .. n
    BY <1>1, SeqIsFunction DEF EntriesOK, Divided
  <1>3. relocs' = FlattenSeq(s)
    BY <1>1 DEF Save
  <1>4. ASSUME NEW k \in 1 .. n
        PROVE  /\ s[k] \in Seq(Int) /\ Ascends(s[k]) /\ low[k - 1] \in Int /\ low[k] \in Int /\ low[k - 1] <= low[k]
               /\ \A j \in DOMAIN s[k] : low[k - 1] <= s[k][j] /\ s[k][j] < low[k]
               /\ Range(s[k]) = IF Has(At(entries[k]), "BSS") THEN {} ELSE Words(At(entries[k]))
    <2>1. k \in DOMAIN entries /\ k \in 0 .. Len(entries) /\ k - 1 \in 0 .. Len(entries)
      BY <1>1, <1>2
    <2>2. PICK table, lo, hi : table = s[k] /\ lo = low[k - 1] /\ hi = low[k]
      OBVIOUS
    <2>3. /\ table = OutputRelocs(At(entries[k]))
          /\ lo = EndIn(k - 1, b) + opts.base /\ hi = EndIn(k, b) + opts.base
      BY <1>1, <2>1, <2>2
    <2>4. /\ table \in Seq(Int) /\ Ascends(table) /\ lo \in Int /\ hi \in Int /\ lo <= hi
          /\ \A j \in DOMAIN table : lo <= table[j] /\ table[j] < hi
          /\ Range(table) = IF Has(At(entries[k]), "BSS") THEN {} ELSE Words(At(entries[k]))
      BY <2>1, <2>3, TablesFollow
    <2> QED BY <2>2, <2>4
  <1>5. DOMAIN s = 1 .. n
    BY <1>1, <1>2
  <1>6. AreSeqs(n, s, Int)
    BY <1>4 DEF AreSeqs
  <1>7. Len(s) = n
    <2>1. s \in Seq(Seq(Int))
      <3>1. s = [k \in 1 .. n |-> s[k]]
        BY <1>1, <1>2
      <3> QED BY <1>2, <1>4, <3>1
    <2> QED BY <1>2, <1>5, <2>1
  <1>8. Staggered(n, s, low)
    <2>1. \A k \in 0 .. n : low[k] \in Int
      <3> SUFFICES ASSUME NEW k \in 0 .. n PROVE low[k] \in Int
        OBVIOUS
      <3>1. CASE k = 0
        <4>1. 1 \in 1 .. n /\ 1 - 1 = 0
          BY <1>2
        <4>2. low[1 - 1] \in Int
          BY <1>4, <4>1
        <4> QED BY <3>1, <4>1, <4>2
      <3>2. CASE k # 0
        <4>1. k \in 1 .. n
          BY <1>2, <3>2
        <4> QED BY <1>4, <4>1
      <3> QED BY <3>1, <3>2
    <2> QED BY <1>4, <2>1 DEF Staggered
  <1>9. Ascends(FlattenSeq(s)) /\ Range(FlattenSeq(s)) = UNION {Range(s[k]) : k \in 1 .. n}
    BY <1>2, <1>5, <1>6, <1>7, <1>8, FlattenAscends
  <1>10. UNION {Range(s[k]) : k \in 1 .. n}
           = UNION {Words(At(p)) : p \in {q \in Range(entries) : ~Has(At(q), "BSS")}}
    <2>1. ASSUME NEW v, NEW k \in 1 .. n, v \in Range(s[k])
          PROVE  \E p \in {q \in Range(entries) : ~Has(At(q), "BSS")} : v \in Words(At(p))
      <3>1. entries[k] \in Range(entries)
        BY <1>2 DEF Range
      <3> QED BY <1>4, <2>1, <3>1
    <2>2. ASSUME NEW v, NEW p \in Range(entries), ~Has(At(p), "BSS"), v \in Words(At(p))
          PROVE  \E k \in 1 .. n : v \in Range(s[k])
      <3>1. PICK k \in 1 .. n : entries[k] = p
        BY <1>2 DEF Range
      <3> QED BY <1>4, <2>2, <3>1
    <2> QED BY <2>1, <2>2
  <1> QED BY <1>3, <1>9, <1>10


\* What the image shows of a section depends on the executable, the options and the image.
LEMMA StandsStays ==
  ASSUME UNCHANGED <<exe, opts, image>>, NEW sect, Imaged(sect)
  PROVE  Imaged(sect)'
  <1>1. \A addr, k : Bytes(addr, k)' = Bytes(addr, k)
    BY DEF Bytes
  <1>2. \A ref : Meant(ref)' = Meant(ref)
    BY DEF Meant, SymbolAt
  <1>3. \A bytes, sym, here, value : Written(bytes, sym, here, value) => Written(bytes, sym, here, value)'
    BY WrittenStays
  <1> QED BY <1>1, <1>2, <1>3 DEF Imaged

\* The image that is saved stands, and nothing changes it.
LEMMA NextImage ==
  ASSUME Numbers, ExeOK, ExeNumeric, Meaningful, ExeTidy, EntriesInv, StandsInv, BeginsInv, DividedInv,
         CodeEndInv, ImageStands, [LinkNext]_linkvars
  PROVE  ImageStands'
  <1> DEFINE W == {p \in Range(entries) : ~Has(At(p), "BSS")}
  <1> SUFFICES ASSUME phase' = "saved"
               PROVE  /\ Len(image') = codeend' - opts'.base
                      /\ \A p \in W' : Imaged(At(p))'
                      /\ opts'.reloc => Ascends(relocs') /\ Range(relocs') = UNION {Words(At(p)') : p \in W'}
    BY DEF ImageStands
  <1>1. Save \/ UNCHANGED linkvars
    BY DEF LinkNext, LinkArgument, DeclareNext, Link, PassSymbol, ResolveOne, SectionResolved, ResolveCdtor,
           Unresolved, Populate, AssignAll, SizeAll
  <1>2. UNCHANGED <<exe, entries, codeend, opts>> /\ (\A p : At(p)' = At(p)) /\ W' = W
    BY <1>1 DEF Save, linkvars, layout, At
  <1> HIDE DEF W
  <1>3. CASE UNCHANGED linkvars
    <2>1. UNCHANGED <<phase, image, relocs>>
      BY <1>3 DEF linkvars, output
    <2>2. /\ Len(image) = codeend - opts.base
          /\ \A p \in W : Imaged(At(p))
          /\ opts.reloc => Ascends(relocs) /\ Range(relocs) = UNION {Words(At(p)) : p \in W}
      BY <2>1 DEF ImageStands, W
    <2>3. ASSUME NEW p \in W PROVE Imaged(At(p))'
      <3>1. PICK sect : sect = At(p)
        OBVIOUS
      <3>2. Imaged(sect)'
        BY <1>2, <2>1, <2>2, <2>3, <3>1, StandsStays
      <3> QED BY <1>2, <3>1, <3>2
    <2> QED BY <1>2, <2>1, <2>2, <2>3
  <1>4. CASE Save
    <2>1. EntriesOK /\ SymbolsStand /\ SectionsBegin /\ CodeEnds
      BY <1>4 DEF Save, EntriesInv, StandsInv, BeginsInv, CodeEndInv
    <2>2. PICK b : Divided(b)
      BY <1>4 DEF Save, DividedInv
    <2>3. /\ Len(image') = codeend - opts.base
          /\ \A p \in Range(entries) :
                ~Has(At(p), "BSS") =>
                   \A j \in 1 .. Len(Output(p)) : image'[At(p).address - opts.base + j] = Output(p)[j]
      BY <1>4, <2>1, <2>2, SavedIs
    <2>4. ASSUME NEW p \in Range(entries), ~Has(At(p), "BSS") PROVE Imaged(At(p))'
      <3>1. PICK sect, targets, out : sect = At(p) /\ targets = Targets(At(p)) /\ out = Output(p)
        OBVIOUS
      <3>2. out = OutputExe(sect, targets, opts.endian)
        BY <3>1 DEF Output, Targets
      <3>3. sect.address \in Int
        <4>1. PICK k \in DOMAIN entries : entries[k] = p
          BY DEF Range
        <4> QED BY <2>1, <3>1, <4>1, AddressesAre
      <3>4. Writable(sect, targets)
        BY <2>1, <3>1, <3>3, EntryWritable
      <3>5. \A i \in DOMAIN sect.symbols : targets[i] = Meant(sect.symbols[i])
        BY <3>1 DEF Targets
      <3>6. \A i \in DOMAIN sect.symbols :
               Stands(sect.symbols[i], Lies(sect, i), TargetValue(targets[i], sect.symbols[i]))
        BY <2>1, <3>1, <3>5 DEF SymbolsStand
      <3>7. \A j \in 1 .. Len(out) : image'[sect.address - opts.base + j] = out[j]
        BY <2>3, <2>4, <3>1
      <3>8. ~Has(sect, "BSS") /\ opts.base \in Int /\ UNCHANGED opts
        BY <1>2, <2>4, <3>1 DEF Numbers
      <3>9. /\ \A i \in DOMAIN sect.symbols :
                  IsRef(sect.symbols[i]) =>
                     Written(Bytes(Stored(sect, i), sect.symbols[i].size), sect.symbols[i], Lies(sect, i),
                             TargetValue(targets[i], sect.symbols[i]))'
            /\ \A c \in 0 .. sect.cursor - 1 : \A i \in 0 .. Len(sect.symbols) :
                  Splits(sect, i, c) => Bytes(sect.address + c + Taken(sect)[i], 1)' = Code(sect, c, c + 1)
        BY <3>2, <3>4, <3>6, <3>7, <3>8, SectionImaged
      <3>10. \A ref : Meant(ref)' = Meant(ref)
        BY <1>2 DEF Meant, SymbolAt
      <3>11. Imaged(sect)'
        BY <3>5, <3>9, <3>10 DEF Imaged
      <3> QED BY <1>2, <3>1, <3>11
    <2>5. opts.reloc => Ascends(relocs') /\ Range(relocs') = UNION {Words(At(p)) : p \in W}
      BY <1>4, <2>1, <2>2, TableIs DEF W
    <2>6. UNION {Words(At(p)') : p \in W'} = UNION {Words(At(p)) : p \in W}
      BY <1>2
    <2>7. \A p \in W' : Imaged(At(p))'
      BY <1>2, <2>4 DEF W
    <2> QED BY <1>2, <2>3, <2>5, <2>6, <2>7
  <1> QED BY <1>1, <1>3, <1>4

(***************************************************************************)
(* Once the executable is saved (executable.c:415-450, section.c:494-662), *)
(* each byte of the code of a section with contents is in the file at the  *)
(* address the layout gives it, and each reference at its own: padding of  *)
(* zeros, a word that is the value the reference means, or li opcodes      *)
(* that load that value or the distance to it.  The relocation table lists *)
(* exactly the words, in ascending order.  This holds for any command line *)
(* and any object files with loadable sections, numbers in them and        *)
(* references in the order of their code.                                  *)
(***************************************************************************)
THEOREM TheImageStands ==
  ASSUME NEW CONSTANT arguments
  PROVE  LinkSpec(arguments) /\ []ObjectFiles /\ []Numbers /\ []Order => []ImageStands
  <1> DEFINE Inv == /\ LoadedInv /\ NumbersInv /\ TidyLoaded /\ ExeOK /\ BuiltinsInv /\ ExeNumeric /\ ExeTidy
                    /\ Meaningful /\ EntriesInv /\ SizedInv /\ LaidInv /\ StandsInv /\ BeginsInv
                    /\ DividedInv /\ CodeEndInv /\ ImageStands
  <1>1. LinkInit(arguments) => Inv
    <2> SUFFICES ASSUME LinkInit(arguments) PROVE Inv
      OBVIOUS
    <2>1. /\ phase = "arguments" /\ exe = [o \in {0} |-> <<>>] /\ opts.loaded = <<>>
          /\ opts.declared = 0 /\ opts.constants = <<>>
          /\ {"loaded", "declared", "unresolved", "constants"} \subseteq DOMAIN opts
      BY DEF LinkInit
    <2>2. IsSeq(<<>>) /\ DOMAIN <<>> = {}
      BY DEF IsSeq
    <2>3. LoadedInv /\ NumbersInv /\ TidyLoaded
      BY <2>1, <2>2 DEF LoadedInv, NumbersInv, TidyLoaded
    <2>4. ExeOK
      <3>1. DOMAIN exe = 0 .. 0
        BY <2>1
      <3> QED BY <2>1, <2>2, <3>1 DEF ExeOK
    <2>5. BuiltinsInv
      BY <2>1, <2>2 DEF BuiltinsInv
    <2>6. Places = {}
      BY <2>1, <2>2 DEF Places, Builtins, Sections
    <2>7. ExeNumeric /\ Meaningful /\ ExeTidy
      BY <2>6 DEF ExeNumeric, Meaningful, ExeTidy
    <2>8. /\ EntriesInv /\ SizedInv /\ LaidInv /\ StandsInv /\ BeginsInv
          /\ DividedInv /\ CodeEndInv /\ ImageStands
      BY <2>1 DEF EntriesInv, SizedInv, LaidInv, StandsInv, BeginsInv, DividedInv, CodeEndInv, ImageStands
    <2> QED BY <2>3, <2>4, <2>5, <2>7, <2>8
  <1>2. ObjectFiles /\ Numbers /\ Order /\ Inv /\ [LinkNext]_linkvars => Inv'
    <2> SUFFICES ASSUME ObjectFiles, Numbers, Order, Inv, [LinkNext]_linkvars PROVE Inv'
      OBVIOUS
    <2>1. LoadedInv' /\ ExeOK' /\ BuiltinsInv' /\ NumbersInv' /\ TidyLoaded'
      BY NextLoaded, NextExe, NextBuiltins, NextNumbers, NextTidyLoaded
    <2>2. ExeNumeric' /\ Meaningful' /\ ExeTidy'
      BY NextNumeric, NextTidy
    <2>3. EntriesInv'
      BY NextEntries
    <2>4. SizedInv' /\ LaidInv'
      BY <2>3, NextSized, NextLaid
    <2>5. StandsInv' /\ BeginsInv'
      BY <2>1, NextStands, NextBegins
    <2>6. DividedInv' /\ CodeEndInv'
      BY <2>1, <2>3, NextDivided, NextCodeEnd
    <2>7. ImageStands'
      BY NextImage
    <2> QED BY <2>1, <2>2, <2>3, <2>4, <2>5, <2>6, <2>7
  <1>3. Inv => ImageStands
    OBVIOUS
  <1> HIDE DEF Inv
  <1> QED BY <1>1, <1>2, <1>3, PTL DEF LinkSpec

=============================================================================
