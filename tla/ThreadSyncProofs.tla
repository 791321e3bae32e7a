--------------------------- MODULE ThreadSyncProofs ---------------------------
(***************************************************************************)
(* Proofs about ThreadSync, for any number of benchmark runs and every     *)
(* interleaving of the two threads.                                        *)
(***************************************************************************)
EXTENDS ThreadSync, SequenceTheorems, TLAPS

N == Number_Of_Runs

\* What a thread may do next.
Instructions == {"load_flag", "and_r0", "clear_flag", "set_flag", "sig", "cond_NEX",
                 "prepare", "benchmark", "report", "completed"}

-----------------------------------------------------------------------------
(* Where the instructions are.                                             *)

\* A program goes on with what is appended to it.
LEMMA ConcatSeq ==
  ASSUME NEW s \in Seq(Instructions), NEW u \in Seq(Instructions)
  PROVE  s \o u \in Seq(Instructions)
  OBVIOUS

\* The length of what is put together.
LEMMA ConcatLen ==
  ASSUME NEW s \in Seq(Instructions), NEW u \in Seq(Instructions),
         NEW n \in Nat, NEW k \in Nat, Len(s) = n, Len(u) = k
  PROVE  Len(s \o u) = n + k
  OBVIOUS

\* The first part stays where it is ...
LEMMA ConcatLeft ==
  ASSUME NEW s \in Seq(Instructions), NEW u \in Seq(Instructions),
         NEW n, Len(s) = n, NEW i \in 1 .. n
  PROVE  (s \o u)[i] = s[i]
  OBVIOUS

\* ... and the second part follows it.
LEMMA ConcatRight ==
  ASSUME NEW s \in Seq(Instructions), NEW u \in Seq(Instructions),
         NEW n, Len(s) = n, NEW i \in 1 .. Len(u)
  PROVE  (s \o u)[n + i] = u[i]
  OBVIOUS

\* q is s, which has n instructions, followed by u, which has k.
Extends(q, s, n, u, k) == /\ q \in Seq(Instructions) /\ Len(q) = n + k
                          /\ \A i \in 1 .. n : q[i] = s[i]
                          /\ \A i \in 1 .. k : q[n + i] = u[i]

\* That is what appending does.
LEMMA ConcatAt ==
  ASSUME NEW s \in Seq(Instructions), NEW u \in Seq(Instructions),
         NEW n \in Nat, NEW k \in Nat, Len(s) = n, Len(u) = k
  PROVE  Extends(s \o u, s, n, u, k)
  <1>1. s \o u \in Seq(Instructions) /\ Len(s \o u) = n + k
    BY ConcatSeq, ConcatLen
  <1>2. ASSUME NEW i \in 1 .. n PROVE (s \o u)[i] = s[i]
    BY ConcatLeft
  <1>3. ASSUME NEW i \in 1 .. k PROVE (s \o u)[n + i] = u[i]
    BY ConcatRight
  <1> QED BY <1>1, <1>2, <1>3 DEF Extends

\* The benchmark is N runs, and nothing else.
LEMMA BenchmarkAt ==
  /\ benchmark \in Seq(Instructions) /\ Len(benchmark) = N /\ N \in Nat
  /\ \A i \in 1 .. N : benchmark[i] = "benchmark"
  BY RunsAssumption DEF benchmark, N, Instructions

\* Both programs start with two instructions of their own and the benchmark.
LEMMA FrontAt ==
  ASSUME NEW h \in Seq(Instructions), Len(h) = 2, NEW f, f = h \o benchmark
  PROVE  /\ f \in Seq(Instructions) /\ Len(f) = N + 2
         /\ f[1] = h[1] /\ f[2] = h[2]
         /\ \A i \in 3 .. N + 2 : f[i] = "benchmark"
  <1>1. benchmark \in Seq(Instructions) /\ Len(benchmark) = N /\ N \in Nat
    BY BenchmarkAt
  <1>2. Extends(f, h, 2, benchmark, N)
    BY <1>1, ConcatAt
  <1>3. /\ f \in Seq(Instructions) /\ Len(f) = 2 + N
        /\ \A i \in 1 .. 2 : f[i] = h[i]
        /\ \A i \in 1 .. N : f[2 + i] = benchmark[i]
    BY <1>2, Zenon DEF Extends
  <1>4. ASSUME NEW i \in 3 .. N + 2 PROVE f[i] = "benchmark"
    <2>1. i - 2 \in 1 .. N /\ i = 2 + (i - 2)
      BY BenchmarkAt
    <2> QED BY <1>3, <2>1, BenchmarkAt
  <1> QED BY <1>1, <1>3, <1>4

\* thread_wake.
LEMMA WakeAt ==
  /\ thread_wake \in Seq(Instructions) /\ Len(thread_wake) = 4
  /\ thread_wake[1] = "load_flag" /\ thread_wake[2] = "and_r0"
  /\ thread_wake[3] = "clear_flag" /\ thread_wake[4] = "sig"
  <1> DEFINE u == << "and_r0", "clear_flag", "sig" >>
  <1>1. /\ thread_asleep \in Seq(Instructions) /\ Len(thread_asleep) = 1
        /\ thread_asleep[1] = "load_flag"
    BY DEF Instructions, thread_asleep
  <1>2. /\ u \in Seq(Instructions) /\ Len(u) = 3
        /\ u[1] = "and_r0" /\ u[2] = "clear_flag" /\ u[3] = "sig"
    BY DEF Instructions
  <1>3. thread_wake = thread_asleep \o u
    BY DEF thread_wake
  <1> HIDE DEF u
  <1>4. Extends(thread_wake, thread_asleep, 1, u, 3)
    BY <1>1, <1>2, <1>3, ConcatAt
  <1>5. thread_wake \in Seq(Instructions) /\ Len(thread_wake) = 4
    BY <1>4 DEF Extends
  <1>6. /\ thread_wake[1] = thread_asleep[1] /\ thread_wake[2] = u[1]
        /\ thread_wake[3] = u[2] /\ thread_wake[4] = u[3]
    BY <1>4 DEF Extends
  <1> QED BY <1>1, <1>2, <1>5, <1>6, Zenon

\* The program of thread 1, instruction by instruction.
LEMMA Main1At ==
  /\ Main1 \in Seq(Instructions) /\ Len(Main1) = N + 13
  /\ Main1[1] = "prepare" /\ Main1[2] = "sig"
  /\ \A i \in 3 .. N + 2 : Main1[i] = "benchmark"
  /\ Main1[N + 3] = "report" /\ Main1[N + 4] = "load_flag"
  /\ Main1[N + 5] = "load_flag" /\ Main1[N + 6] = "and_r0"
  /\ Main1[N + 7] = "clear_flag" /\ Main1[N + 8] = "sig"
  /\ Main1[N + 9] = "set_flag" /\ Main1[N + 10] = "sig" /\ Main1[N + 11] = "cond_NEX"
  /\ Main1[N + 12] = "completed" /\ Main1[N + 13] = "cond_NEX"
  <1> DEFINE h == << "prepare", "sig" >>
             a == << "report" >>
             c == << "completed", "cond_NEX" >>
             f == h \o benchmark
             g == f \o a
             p == g \o thread_asleep
             q == p \o thread_wake
             r == q \o thread_sleep
             z == r \o c
  <1>1. /\ N \in Nat /\ N + 2 \in Nat /\ N + 3 \in Nat /\ N + 4 \in Nat
        /\ N + 8 \in Nat /\ N + 11 \in Nat
    BY BenchmarkAt
  <1>2. h \in Seq(Instructions) /\ Len(h) = 2 /\ h[1] = "prepare" /\ h[2] = "sig"
    BY DEF Instructions
  <1>3. a \in Seq(Instructions) /\ Len(a) = 1 /\ a[1] = "report"
    BY DEF Instructions
  <1>4. c \in Seq(Instructions) /\ Len(c) = 2 /\ c[1] = "completed" /\ c[2] = "cond_NEX"
    BY DEF Instructions
  <1>5. /\ thread_asleep \in Seq(Instructions) /\ Len(thread_asleep) = 1
        /\ thread_asleep[1] = "load_flag"
    BY DEF Instructions, thread_asleep
  <1>6. /\ thread_sleep \in Seq(Instructions) /\ Len(thread_sleep) = 3
        /\ thread_sleep[1] = "set_flag" /\ thread_sleep[2] = "sig"
        /\ thread_sleep[3] = "cond_NEX"
    BY DEF Instructions, thread_sleep
  <1>7. Main1 = z
    BY DEF Main1
  <1> HIDE DEF h, a, c
  <1>8. /\ f \in Seq(Instructions) /\ Len(f) = N + 2 /\ f[1] = h[1] /\ f[2] = h[2]
        /\ \A i \in 3 .. N + 2 : f[i] = "benchmark"
    BY <1>2, FrontAt
  <1> HIDE DEF f
  <1>9. g \in Seq(Instructions) /\ Len(g) = N + 3 /\ Extends(g, f, N + 2, a, 1)
    <2>1. /\ f \in Seq(Instructions) /\ Len(f) = N + 2 /\ N + 2 \in Nat
          /\ a \in Seq(Instructions) /\ Len(a) = 1
      BY <1>1, <1>3, <1>8, Zenon
    <2>2. Extends(g, f, N + 2, a, 1)
      BY <2>1, ConcatAt
    <2> HIDE DEF g
    <2>3. g \in Seq(Instructions) /\ Len(g) = N + 3
      BY <1>1, <2>2 DEF Extends
    <2> QED BY <2>2, <2>3
  <1> HIDE DEF g
  <1>10. p \in Seq(Instructions) /\ Len(p) = N + 4 /\ Extends(p, g, N + 3, thread_asleep, 1)
    <2>1. /\ g \in Seq(Instructions) /\ Len(g) = N + 3 /\ N + 3 \in Nat
          /\ thread_asleep \in Seq(Instructions) /\ Len(thread_asleep) = 1
      BY <1>1, <1>5, <1>9, Zenon
    <2>2. Extends(p, g, N + 3, thread_asleep, 1)
      BY <2>1, ConcatAt
    <2> HIDE DEF p
    <2>3. p \in Seq(Instructions) /\ Len(p) = N + 4
      BY <1>1, <2>2 DEF Extends
    <2> QED BY <2>2, <2>3
  <1> HIDE DEF p
  <1>11. q \in Seq(Instructions) /\ Len(q) = N + 8 /\ Extends(q, p, N + 4, thread_wake, 4)
    <2>1. /\ p \in Seq(Instructions) /\ Len(p) = N + 4 /\ N + 4 \in Nat
          /\ thread_wake \in Seq(Instructions) /\ Len(thread_wake) = 4
      BY <1>1, <1>10, WakeAt, Zenon
    <2>2. Extends(q, p, N + 4, thread_wake, 4)
      BY <2>1, ConcatAt
    <2> HIDE DEF q
    <2>3. q \in Seq(Instructions) /\ Len(q) = N + 8
      BY <1>1, <2>2 DEF Extends
    <2> QED BY <2>2, <2>3
  <1> HIDE DEF q
  <1>12. r \in Seq(Instructions) /\ Len(r) = N + 11 /\ Extends(r, q, N + 8, thread_sleep, 3)
    <2>1. /\ q \in Seq(Instructions) /\ Len(q) = N + 8 /\ N + 8 \in Nat
          /\ thread_sleep \in Seq(Instructions) /\ Len(thread_sleep) = 3
      BY <1>1, <1>6, <1>11, Zenon
    <2>2. Extends(r, q, N + 8, thread_sleep, 3)
      BY <2>1, ConcatAt
    <2> HIDE DEF r
    <2>3. r \in Seq(Instructions) /\ Len(r) = N + 11
      BY <1>1, <2>2 DEF Extends
    <2> QED BY <2>2, <2>3
  <1> HIDE DEF r
  <1>13. z \in Seq(Instructions) /\ Len(z) = N + 13 /\ Extends(z, r, N + 11, c, 2)
    <2>1. /\ r \in Seq(Instructions) /\ Len(r) = N + 11 /\ N + 11 \in Nat
          /\ c \in Seq(Instructions) /\ Len(c) = 2
      BY <1>1, <1>4, <1>12, Zenon
    <2>2. Extends(z, r, N + 11, c, 2)
      BY <2>1, ConcatAt
    <2> HIDE DEF z
    <2>3. z \in Seq(Instructions) /\ Len(z) = N + 13
      BY <1>1, <2>2 DEF Extends
    <2> QED BY <2>2, <2>3
  <1> HIDE DEF z
  <1>14. /\ z[N + 12] = c[1] /\ z[N + 13] = c[2]
         /\ \A i \in 1 .. N + 11 : z[i] = r[i]
    BY <1>1, <1>13 DEF Extends
  <1>15. /\ z[N + 9] = thread_sleep[1] /\ z[N + 10] = thread_sleep[2]
         /\ z[N + 11] = thread_sleep[3]
         /\ \A i \in 1 .. N + 8 : z[i] = q[i]
    BY <1>1, <1>12, <1>14 DEF Extends
  <1>16. /\ z[N + 5] = thread_wake[1] /\ z[N + 6] = thread_wake[2]
         /\ z[N + 7] = thread_wake[3] /\ z[N + 8] = thread_wake[4]
         /\ \A i \in 1 .. N + 4 : z[i] = p[i]
    BY <1>1, <1>11, <1>15 DEF Extends
  <1>17. z[N + 4] = thread_asleep[1] /\ \A i \in 1 .. N + 3 : z[i] = g[i]
    BY <1>1, <1>10, <1>16 DEF Extends
  <1>18. z[N + 3] = a[1] /\ \A i \in 1 .. N + 2 : z[i] = f[i]
    BY <1>1, <1>9, <1>17 DEF Extends
  <1>19. z[1] = f[1] /\ z[2] = f[2] /\ \A i \in 3 .. N + 2 : z[i] = f[i]
    BY <1>1, <1>18
  <1>20. z[1] = "prepare" /\ z[2] = "sig"
    BY <1>2, <1>8, <1>19, Zenon
  <1>21. \A i \in 3 .. N + 2 : z[i] = "benchmark"
    BY <1>8, <1>19, Zenon
  <1>22. z[N + 3] = "report" /\ z[N + 4] = "load_flag"
    BY <1>3, <1>5, <1>17, <1>18, Zenon
  <1>23. /\ z[N + 5] = "load_flag" /\ z[N + 6] = "and_r0"
         /\ z[N + 7] = "clear_flag" /\ z[N + 8] = "sig"
    BY <1>16, WakeAt, Zenon
  <1>24. z[N + 9] = "set_flag" /\ z[N + 10] = "sig" /\ z[N + 11] = "cond_NEX"
    BY <1>6, <1>15, Zenon
  <1>25. z[N + 12] = "completed" /\ z[N + 13] = "cond_NEX"
    BY <1>4, <1>14, Zenon
  <1> QED BY <1>7, <1>13, <1>20, <1>21, <1>22, <1>23, <1>24, <1>25, Zenon

\* The program of thread 2.
LEMMA Main2At ==
  /\ Main2 \in Seq(Instructions) /\ Len(Main2) = N + 11
  /\ Main2[1] = "prepare" /\ Main2[2] = "cond_NEX"
  /\ \A i \in 3 .. N + 2 : Main2[i] = "benchmark"
  /\ Main2[N + 3] = "set_flag" /\ Main2[N + 4] = "sig" /\ Main2[N + 5] = "cond_NEX"
  /\ Main2[N + 6] = "report" /\ Main2[N + 7] = "load_flag"
  /\ Main2[N + 8] = "and_r0" /\ Main2[N + 9] = "clear_flag"
  /\ Main2[N + 10] = "sig" /\ Main2[N + 11] = "cond_NEX"
  <1> DEFINE h == << "prepare", "cond_NEX" >>
             a == << "report" >>
             c == << "cond_NEX" >>
             f == h \o benchmark
             g == f \o thread_sleep
             p == g \o a
             q == p \o thread_wake
             z == q \o c
  <1>1. /\ N \in Nat /\ N + 2 \in Nat /\ N + 5 \in Nat
        /\ N + 6 \in Nat /\ N + 10 \in Nat
    BY BenchmarkAt
  <1>2. h \in Seq(Instructions) /\ Len(h) = 2 /\ h[1] = "prepare" /\ h[2] = "cond_NEX"
    BY DEF Instructions
  <1>3. a \in Seq(Instructions) /\ Len(a) = 1 /\ a[1] = "report"
    BY DEF Instructions
  <1>4. c \in Seq(Instructions) /\ Len(c) = 1 /\ c[1] = "cond_NEX"
    BY DEF Instructions
  <1>5. /\ thread_sleep \in Seq(Instructions) /\ Len(thread_sleep) = 3
        /\ thread_sleep[1] = "set_flag" /\ thread_sleep[2] = "sig"
        /\ thread_sleep[3] = "cond_NEX"
    BY DEF Instructions, thread_sleep
  <1>6. Main2 = z
    BY DEF Main2
  <1> HIDE DEF h, a, c
  <1>7. /\ f \in Seq(Instructions) /\ Len(f) = N + 2 /\ f[1] = h[1] /\ f[2] = h[2]
        /\ \A i \in 3 .. N + 2 : f[i] = "benchmark"
    BY <1>2, FrontAt
  <1> HIDE DEF f
  <1>8. g \in Seq(Instructions) /\ Len(g) = N + 5 /\ Extends(g, f, N + 2, thread_sleep, 3)
    <2>1. /\ f \in Seq(Instructions) /\ Len(f) = N + 2 /\ N + 2 \in Nat
          /\ thread_sleep \in Seq(Instructions) /\ Len(thread_sleep) = 3
      BY <1>1, <1>5, <1>7, Zenon
    <2>2. Extends(g, f, N + 2, thread_sleep, 3)
      BY <2>1, ConcatAt
    <2> HIDE DEF g
    <2>3. g \in Seq(Instructions) /\ Len(g) = N + 5
      BY <1>1, <2>2 DEF Extends
    <2> QED BY <2>2, <2>3
  <1> HIDE DEF g
  <1>9. p \in Seq(Instructions) /\ Len(p) = N + 6 /\ Extends(p, g, N + 5, a, 1)
    <2>1. /\ g \in Seq(Instructions) /\ Len(g) = N + 5 /\ N + 5 \in Nat
          /\ a \in Seq(Instructions) /\ Len(a) = 1
      BY <1>1, <1>3, <1>8, Zenon
    <2>2. Extends(p, g, N + 5, a, 1)
      BY <2>1, ConcatAt
    <2> HIDE DEF p
    <2>3. p \in Seq(Instructions) /\ Len(p) = N + 6
      BY <1>1, <2>2 DEF Extends
    <2> QED BY <2>2, <2>3
  <1> HIDE DEF p
  <1>10. q \in Seq(Instructions) /\ Len(q) = N + 10 /\ Extends(q, p, N + 6, thread_wake, 4)
    <2>1. /\ p \in Seq(Instructions) /\ Len(p) = N + 6 /\ N + 6 \in Nat
          /\ thread_wake \in Seq(Instructions) /\ Len(thread_wake) = 4
      BY <1>1, <1>9, WakeAt, Zenon
    <2>2. Extends(q, p, N + 6, thread_wake, 4)
      BY <2>1, ConcatAt
    <2> HIDE DEF q
    <2>3. q \in Seq(Instructions) /\ Len(q) = N + 10
      BY <1>1, <2>2 DEF Extends
    <2> QED BY <2>2, <2>3
  <1> HIDE DEF q
  <1>11. z \in Seq(Instructions) /\ Len(z) = N + 11 /\ Extends(z, q, N + 10, c, 1)
    <2>1. /\ q \in Seq(Instructions) /\ Len(q) = N + 10 /\ N + 10 \in Nat
          /\ c \in Seq(Instructions) /\ Len(c) = 1
      BY <1>1, <1>4, <1>10, Zenon
    <2>2. Extends(z, q, N + 10, c, 1)
      BY <2>1, ConcatAt
    <2> HIDE DEF z
    <2>3. z \in Seq(Instructions) /\ Len(z) = N + 11
      BY <1>1, <2>2 DEF Extends
    <2> QED BY <2>2, <2>3
  <1> HIDE DEF z
  <1>12. z[N + 11] = c[1] /\ \A i \in 1 .. N + 10 : z[i] = q[i]
    BY <1>1, <1>11 DEF Extends
  <1>13. /\ z[N + 7] = thread_wake[1] /\ z[N + 8] = thread_wake[2]
         /\ z[N + 9] = thread_wake[3] /\ z[N + 10] = thread_wake[4]
         /\ \A i \in 1 .. N + 6 : z[i] = p[i]
    BY <1>1, <1>10, <1>12 DEF Extends
  <1>14. z[N + 6] = a[1] /\ \A i \in 1 .. N + 5 : z[i] = g[i]
    BY <1>1, <1>9, <1>13 DEF Extends
  <1>15. /\ z[N + 3] = thread_sleep[1] /\ z[N + 4] = thread_sleep[2]
         /\ z[N + 5] = thread_sleep[3]
         /\ \A i \in 1 .. N + 2 : z[i] = f[i]
    BY <1>1, <1>8, <1>14 DEF Extends
  <1>16. z[1] = f[1] /\ z[2] = f[2] /\ \A i \in 3 .. N + 2 : z[i] = f[i]
    BY <1>1, <1>15
  <1>17. z[1] = "prepare" /\ z[2] = "cond_NEX"
    BY <1>2, <1>7, <1>16, Zenon
  <1>18. \A i \in 3 .. N + 2 : z[i] = "benchmark"
    BY <1>7, <1>16, Zenon
  <1>19. z[N + 3] = "set_flag" /\ z[N + 4] = "sig" /\ z[N + 5] = "cond_NEX"
    BY <1>5, <1>15, Zenon
  <1>20. z[N + 6] = "report" /\ z[N + 11] = "cond_NEX"
    BY <1>3, <1>4, <1>12, <1>14, Zenon
  <1>21. /\ z[N + 7] = "load_flag" /\ z[N + 8] = "and_r0"
         /\ z[N + 9] = "clear_flag" /\ z[N + 10] = "sig"
    BY <1>13, WakeAt, Zenon
  <1> QED BY <1>6, <1>11, <1>17, <1>18, <1>19, <1>20, <1>21, Zenon

\* Where thread 1 does what matters to the other one.
LEMMA Kinds1 ==
  ASSUME NEW a \in 1 .. N + 13, NEW i, i = Program[1][a]
  PROVE  /\ i = "prepare" <=> a = 1
         /\ i = "sig" <=> a = 2 \/ a = N + 8 \/ a = N + 10
         /\ i = "cond_NEX" <=> a = N + 11 \/ a = N + 13
         /\ i = "report" <=> a = N + 3
         /\ i = "completed" <=> a = N + 12
         /\ i = "load_flag" <=> a = N + 4 \/ a = N + 5
         /\ i = "set_flag" <=> a = N + 9
  <1>1. N \in Nat
    BY BenchmarkAt
  <1>2. i = Main1[a]
    BY DEF Program
  <1>3. /\ a = 1 => i = "prepare"
        /\ a = 2 \/ a = N + 8 \/ a = N + 10 => i = "sig"
        /\ a \in 3 .. N + 2 => i = "benchmark"
        /\ a = N + 3 => i = "report"
    BY <1>2, Main1At, Zenon
  <1>4. /\ a = N + 4 \/ a = N + 5 => i = "load_flag"
        /\ a = N + 6 => i = "and_r0"
        /\ a = N + 7 => i = "clear_flag"
        /\ a = N + 9 => i = "set_flag"
    BY <1>2, Main1At, Zenon
  <1>5. /\ a = N + 11 \/ a = N + 13 => i = "cond_NEX"
        /\ a = N + 12 => i = "completed"
    BY <1>2, Main1At, Zenon
  <1>6. \/ a = 1 \/ a = 2 \/ a \in 3 .. N + 2 \/ a = N + 3 \/ a = N + 4 \/ a = N + 5
        \/ a = N + 6 \/ a = N + 7 \/ a = N + 8 \/ a = N + 9 \/ a = N + 10 \/ a = N + 11
        \/ a = N + 12 \/ a = N + 13
    BY <1>1
  <1> QED BY <1>1, <1>3, <1>4, <1>5, <1>6

\* The same of thread 2.
LEMMA Kinds2 ==
  ASSUME NEW b \in 1 .. N + 11, NEW i, i = Program[2][b]
  PROVE  /\ i = "sig" <=> b = N + 4 \/ b = N + 10
         /\ i = "cond_NEX" <=> b = 2 \/ b = N + 5 \/ b = N + 11
         /\ i = "report" <=> b = N + 6
         /\ i = "load_flag" <=> b = N + 7
         /\ i = "set_flag" <=> b = N + 3
         /\ i # "completed"
  <1>1. N \in Nat
    BY BenchmarkAt
  <1>2. i = Main2[b]
    BY DEF Program
  <1>3. /\ b = 1 => i = "prepare"
        /\ b = 2 \/ b = N + 5 \/ b = N + 11 => i = "cond_NEX"
        /\ b \in 3 .. N + 2 => i = "benchmark"
        /\ b = N + 3 => i = "set_flag"
    BY <1>2, Main2At, Zenon
  <1>4. /\ b = N + 4 \/ b = N + 10 => i = "sig"
        /\ b = N + 6 => i = "report"
        /\ b = N + 7 => i = "load_flag"
        /\ b = N + 8 => i = "and_r0"
        /\ b = N + 9 => i = "clear_flag"
    BY <1>2, Main2At, Zenon
  <1>5. \/ b = 1 \/ b = 2 \/ b \in 3 .. N + 2 \/ b = N + 3 \/ b = N + 4 \/ b = N + 5
        \/ b = N + 6 \/ b = N + 7 \/ b = N + 8 \/ b = N + 9 \/ b = N + 10 \/ b = N + 11
    BY <1>1
  <1> QED BY <1>1, <1>3, <1>4, <1>5

-----------------------------------------------------------------------------
(* The inductive invariant.                                                *)

\* Before the sig of its thread_wake thread 1 has executed one sig at most, before
\* which thread 2 is held at its first cond NEX and after which at its second.
TurnInv ==
    /\ "report" \notin done[1] => at[1] <= N + 3
    /\ at[1] <= N + 8 =>
          /\ "report" \notin done[2]
          /\ at[2] <= N + 6 /\ (at[2] = N + 6 => pause[2])
    /\ at[1] <= 2 => at[2] <= 3 /\ (at[2] = 3 => pause[2])

\* With long work the two threads go through the phases of the protocol together:
\* while thread 2 is at its start, in the benchmark or falling asleep, thread 1
\* gets no further than its report; it reports, looks at the flag and wakes thread
\* 2 while thread 2 is paused; then thread 2 waits at its report until thread 1 has
\* gone to sleep, and thread 1 passes its cond NEX only by the sig at the end.
PhaseInv == longWork =>
    /\ at[1] <= 2 => at[2] <= 3 /\ (pause[2] <=> at[2] = 3) /\ (at[1] = 2 => at[2] = 3)
    /\ at[1] >= 3 => at[2] >= 3
    /\ at[1] >= 3 /\ at[1] <= N + 3 => at[2] <= N + 6 /\ (pause[2] <=> at[2] = N + 6)
    /\ at[1] >= N + 4 /\ at[1] <= N + 8 => at[2] = N + 6 /\ pause[2]
    /\ at[1] >= N + 9 /\ at[1] <= N + 11 => at[2] = N + 6 /\ ~pause[2]
    /\ at[1] <= N + 11 => ~pause[1]
    /\ at[1] = N + 12 => /\ at[2] >= N + 6
                         /\ pause[1] <=> at[2] <= N + 10
                         /\ pause[2] => at[2] = N + 11
    /\ at[1] = N + 13 => at[2] = N + 11
    /\ "completed" \in done[1] => at[1] = N + 13
    /\ at[2] >= N + 7 => "report" \in done[2]

\* Up to then, the flag is set only by the thread_sleep of thread 2, and so is what
\* thread 1 has read of it.
AnswerInv ==
    /\ at[1] <= N + 7 /\ sleepflag = 1 => at[2] >= N + 4
    /\ at[1] \in {N + 5, N + 6} /\ r0[1] = 1 => at[2] >= N + 4

IInv == TypeOK /\ TurnInv /\ AnswerInv /\ PhaseInv

\* The programs end where their last cond NEX is.
LEMMA Ends == N \in Nat /\ End(1) = N + 13 /\ End(2) = N + 11
  <1>1. Program[1] = Main1 /\ Program[2] = Main2
    BY DEF Program
  <1> QED BY <1>1, BenchmarkAt, Main1At, Main2At DEF End

\* A thread that runs moves to its next instruction; only work is done.
LEMMA RunMoves ==
  ASSUME NEW t \in Threads, Run(t), NEW i, i = Program[t][at[t]]
  PROVE  /\ ~pause[t]
         /\ at' = [at EXCEPT ![t] = IF at[t] = End(t) THEN at[t] ELSE at[t] + 1]
         /\ IF i \in {"report", "completed"}
            THEN done' = [done EXCEPT ![t] = done[t] \cup {i}]
            ELSE done' = done \/ done' = [done EXCEPT ![t] = done[t] \cup {}]
  <1>1. CASE Work(t)
    BY <1>1 DEF Work, Step
  <1>2. CASE Sig(t) \/ Nex(t)
    BY <1>2 DEF Sig, Nex, Step
  <1>3. CASE LoadFlag(t) \/ TestAsleep(t)
    BY <1>3 DEF LoadFlag, TestAsleep, Step
  <1>4. CASE ClearFlag(t) \/ SetFlag(t)
    BY <1>4 DEF ClearFlag, SetFlag, Step
  <1> QED BY <1>1, <1>2, <1>3, <1>4 DEF Run

\* sig clears both pause bits, cond NEX sets the thread's own.
LEMMA RunPauses ==
  ASSUME NEW t \in Threads, Run(t), NEW i, i = Program[t][at[t]]
  PROVE  \/ i = "sig" /\ pause' = [u \in Threads |-> FALSE]
         \/ i = "cond_NEX" /\ pause' = [pause EXCEPT ![t] = TRUE]
         \/ i \notin {"sig", "cond_NEX"} /\ pause' = pause
  <1>1. CASE Work(t)
    BY <1>1 DEF Work, Step
  <1>2. CASE Sig(t) \/ Nex(t)
    BY <1>2 DEF Sig, Nex, Step
  <1>3. CASE LoadFlag(t) \/ TestAsleep(t)
    BY <1>3 DEF LoadFlag, TestAsleep, Step
  <1>4. CASE ClearFlag(t) \/ SetFlag(t)
    BY <1>4 DEF ClearFlag, SetFlag, Step
  <1> QED BY <1>1, <1>2, <1>3, <1>4 DEF Run

\* The same, thread by thread.
LEMMA RunStep ==
  ASSUME TypeOK, NEW t \in Threads, Run(t), NEW i, i = Program[t][at[t]]
  PROVE  /\ ~pause[t]
         /\ at' \in [Threads -> Nat] /\ at'[t] \in {at[t], at[t] + 1}
         /\ at'[t] = at[t] <=> at[t] = End(t)
         /\ \A u \in Threads \ {t} :
              at'[u] = at[u] /\ done'[u] = done[u]
         /\ i = "cond_NEX" => pause'[t]
         /\ pause' \in [Threads -> BOOLEAN]
         /\ done' \in [Threads -> SUBSET {"report", "completed"}]
         /\ "report" \in done[t] \/ i = "report" => "report" \in done'[t]
  <1>1. /\ at \in [Threads -> Nat] /\ pause \in [Threads -> BOOLEAN]
        /\ done \in [Threads -> SUBSET {"report", "completed"}]
    BY DEF TypeOK
  <1>2. ~pause[t]
    BY RunMoves
  <1>3. /\ at' \in [Threads -> Nat] /\ at'[t] \in {at[t], at[t] + 1}
        /\ at'[t] = at[t] <=> at[t] = End(t)
        /\ \A u \in Threads \ {t} : at'[u] = at[u]
    <2> DEFINE n == IF at[t] = End(t) THEN at[t] ELSE at[t] + 1
    <2>1. at' = [at EXCEPT ![t] = n]
      BY RunMoves
    <2>2. n \in Nat /\ n \in {at[t], at[t] + 1} /\ (n = at[t] <=> at[t] = End(t))
      BY <1>1
    <2> HIDE DEF n
    <2> QED BY <1>1, <2>1, <2>2
  <1>4. /\ done' \in [Threads -> SUBSET {"report", "completed"}]
        /\ \A u \in Threads \ {t} : done'[u] = done[u]
        /\ "report" \in done[t] \/ i = "report" => "report" \in done'[t]
    <2>1. CASE i \in {"report", "completed"}
      <3>1. done' = [done EXCEPT ![t] = done[t] \cup {i}]
        BY <2>1, RunMoves
      <3> QED BY <1>1, <2>1, <3>1
    <2>2. CASE i \notin {"report", "completed"}
      <3>1. done' = done \/ done' = [done EXCEPT ![t] = done[t] \cup {}]
        BY <2>2, RunMoves
      <3> QED BY <1>1, <2>2, <3>1
    <2> QED BY <2>1, <2>2
  <1>5. pause' \in [Threads -> BOOLEAN] /\ (i = "cond_NEX" => pause'[t])
    <2>1. CASE i = "sig"
      BY <2>1, RunPauses
    <2>2. CASE i = "cond_NEX"
      <3>1. pause' = [pause EXCEPT ![t] = TRUE]
        BY <2>2, RunPauses
      <3> QED BY <1>1, <2>2, <3>1
    <2>3. CASE i \notin {"sig", "cond_NEX"}
      <3>1. pause' = pause
        BY <2>3, RunPauses
      <3> QED BY <1>1, <2>3, <3>1
    <2> QED BY <2>1, <2>2, <2>3
  <1> QED BY <1>2, <1>3, <1>4, <1>5

\* Only sig clears a pause bit.
LEMMA RunHolds ==
  ASSUME TypeOK, NEW t \in Threads, NEW u \in Threads \ {t}, Run(t),
         Program[t][at[t]] # "sig", pause[u]
  PROVE  pause'[u]
  <1> DEFINE i == Program[t][at[t]]
  <1>1. pause' = [pause EXCEPT ![t] = TRUE] \/ pause' = pause
    BY RunPauses
  <1>2. pause \in [Threads -> BOOLEAN]
    BY DEF TypeOK
  <1> QED BY <1>1, <1>2

\* What the pause bits of both threads become.
LEMMA RunPausesBoth ==
  ASSUME TypeOK, NEW t \in Threads, NEW u \in Threads \ {t}, Run(t),
         NEW i, i = Program[t][at[t]]
  PROVE  /\ i = "sig" => ~pause'[t] /\ ~pause'[u]
         /\ i # "sig" => (pause'[u] <=> pause[u])
         /\ i = "cond_NEX" => pause'[t]
         /\ i \notin {"sig", "cond_NEX"} => ~pause'[t]
  <1>1. pause \in [Threads -> BOOLEAN] /\ ~pause[t]
    BY RunMoves DEF TypeOK
  <1>2. CASE i = "sig"
    <2>1. pause' = [v \in Threads |-> FALSE]
      BY <1>2, RunPauses
    <2> QED BY <1>2, <2>1
  <1>3. CASE i = "cond_NEX"
    <2>1. pause' = [pause EXCEPT ![t] = TRUE]
      BY <1>3, RunPauses
    <2>2. pause'[t] /\ pause'[u] = pause[u]
      BY <1>1, <2>1
    <2> QED BY <1>3, <2>2
  <1>4. CASE i \notin {"sig", "cond_NEX"}
    <2>1. pause' = pause
      BY <1>4, RunPauses
    <2> QED BY <1>1, <1>4, <2>1
  <1> QED BY <1>2, <1>3, <1>4

\* With long work, thread 1 starts and either thread reports only when the other
\* one is asleep.
LEMMA RunWaits ==
  ASSUME NEW t \in Threads, Run(t), longWork, NEW i, i = Program[t][at[t]],
         i = "report" \/ (i = "prepare" /\ t = 1)
  PROVE  pause[Other(t)]
  BY DEF Run, LoadFlag, TestAsleep, ClearFlag, SetFlag, Sig, Nex, Work, Step

\* Nothing changes how long the work takes.
LEMMA RunLongWork ==
  ASSUME NEW t \in Threads, Run(t)
  PROVE  longWork' = longWork
  BY DEF Run, LoadFlag, TestAsleep, ClearFlag, SetFlag, Sig, Nex, Work

\* Only "completed" tells that thread 2 has completed.
LEMMA RunCompletes ==
  ASSUME TypeOK, NEW t \in Threads, Run(t), Program[t][at[t]] # "completed",
         "completed" \notin done[t]
  PROVE  "completed" \notin done'[t]
  <1> DEFINE i == Program[t][at[t]]
  <1>1. done \in [Threads -> SUBSET {"report", "completed"}]
    BY DEF TypeOK
  <1>2. CASE i = "report"
    <2>1. done' = [done EXCEPT ![t] = done[t] \cup {"report"}]
      BY <1>2, RunMoves
    <2> QED BY <1>1, <2>1
  <1>3. CASE i # "report"
    <2>1. done' = done \/ done' = [done EXCEPT ![t] = done[t] \cup {}]
      BY <1>3, RunMoves
    <2> QED BY <1>1, <2>1
  <1> QED BY <1>2, <1>3

\* Only "report" reports.
LEMMA RunReports ==
  ASSUME TypeOK, NEW t \in Threads, Run(t), Program[t][at[t]] # "report",
         "report" \notin done[t]
  PROVE  "report" \notin done'[t]
  <1> DEFINE i == Program[t][at[t]]
  <1>1. done \in [Threads -> SUBSET {"report", "completed"}]
    BY DEF TypeOK
  <1>2. CASE i = "completed"
    <2>1. done' = [done EXCEPT ![t] = done[t] \cup {"completed"}]
      BY <1>2, RunMoves
    <2> QED BY <1>1, <2>1
  <1>3. CASE i # "completed"
    <2>1. done' = done \/ done' = [done EXCEPT ![t] = done[t] \cup {}]
      BY <1>3, RunMoves
    <2> QED BY <1>1, <2>1
  <1> QED BY <1>2, <1>3

\* At the start no thread has moved.
LEMMA InitIInv == Init => IInv
  <1> SUFFICES ASSUME Init PROVE IInv
    OBVIOUS
  <1>1. \A t \in Threads : at[t] \in 1 .. End(t)
    BY Ends, BenchmarkAt DEF Init, Threads
  <1>2. TypeOK
    BY <1>1 DEF TypeOK, Init
  <1>3. TurnInv /\ AnswerInv
    BY BenchmarkAt DEF TurnInv, AnswerInv, Init, Threads
  <1>4. PhaseInv
    BY BenchmarkAt DEF PhaseInv, Init, Threads
  <1> QED BY <1>2, <1>3, <1>4 DEF IInv

\* A step of a thread keeps the types: it does not go past its end.
LEMMA TypeNext ==
  ASSUME TypeOK, NEW t \in Threads, Run(t)
  PROVE  TypeOK'
  <1>1. /\ at' \in [Threads -> Nat] /\ at'[t] \in {at[t], at[t] + 1}
        /\ at'[t] = at[t] <=> at[t] = End(t)
        /\ \A u \in Threads \ {t} : at'[u] = at[u]
        /\ pause' \in [Threads -> BOOLEAN]
        /\ done' \in [Threads -> SUBSET {"report", "completed"}]
    BY RunStep
  <1>2. \A u \in Threads : at[u] \in 1 .. End(u) /\ End(u) \in Nat
    BY Ends DEF TypeOK, Threads
  <1>3. at'[t] \in 1 .. End(t)
    BY <1>1, <1>2
  <1>4. \A u \in Threads : at'[u] \in 1 .. End(u)
    BY <1>1, <1>2, <1>3
  <1>5. /\ zero' \in [Threads -> BOOLEAN] /\ sleepflag' \in {0, 1}
        /\ r0' \in [Threads -> {0, 1, ReturnAddress}]
        /\ tmp' \in [Threads -> {0, ReturnAddress}]
        /\ longWork' \in BOOLEAN
    BY DEF Run, LoadFlag, TestAsleep, ClearFlag, SetFlag, Sig, Nex, Work, TypeOK
  <1>6. \A u \in Threads : at'[u] \in 1 .. End(u)'
    BY <1>4 DEF End
  <1> QED BY <1>1, <1>5, <1>6 DEF TypeOK

\* Thread 1 releases thread 2 once before its report, from its first pause.
LEMMA Turn1 ==
  ASSUME IInv, Run(1)
  PROVE  TurnInv'
  <1> DEFINE i == Program[1][at[1]]
  <1>1. TypeOK /\ 1 \in Threads /\ 2 \in Threads \ {1}
    BY DEF IInv, Threads
  <1>2. at'[1] \in {at[1], at[1] + 1} /\ (at'[1] = at[1] <=> at[1] = End(1))
    BY <1>1, RunStep
  <1>3. at'[2] = at[2] /\ done'[2] = done[2]
    BY <1>1, RunStep
  <1>4. ASSUME i # "sig", pause[2] PROVE pause'[2]
    BY <1>1, <1>4, RunHolds
  <1>5. "report" \in done[1] \/ i = "report" => "report" \in done'[1]
    BY <1>1, RunStep
  <1>6. N \in Nat /\ at[1] \in Nat /\ at[2] \in Nat /\ at[1] >= 1
    BY BenchmarkAt DEF IInv, TypeOK, Threads
  <1>13. at[1] \in 1 .. N + 13
    BY <1>1, Ends DEF TypeOK
  <1>7. /\ at[1] <= N + 7 /\ i = "sig" => at[1] = 2
        /\ at[1] = N + 3 => i = "report"
    <2> HIDE DEF i
    <2>1. /\ i = "sig" <=> at[1] = 2 \/ at[1] = N + 8 \/ at[1] = N + 10
          /\ i = "report" <=> at[1] = N + 3
      BY <1>13, Kinds1, Zenon DEF i
    <2> QED BY <1>6, <2>1
  <1>8. at[1] = 2 \/ at[1] = N + 8 => at[1] # End(1)
    BY <1>6, Ends
  <1>9. /\ "report" \notin done[1] => at[1] <= N + 3
        /\ at[1] <= N + 8 =>
              /\ "report" \notin done[2]
              /\ at[2] <= N + 6 /\ (at[2] = N + 6 => pause[2])
        /\ at[1] <= 2 => at[2] <= 3 /\ (at[2] = 3 => pause[2])
    BY DEF IInv, TurnInv
  <1> HIDE DEF i
  <1>10. "report" \notin done'[1] => at'[1] <= N + 3
    BY <1>2, <1>5, <1>6, <1>7, <1>9
  <1>11. ASSUME at'[1] <= N + 8
        PROVE  /\ "report" \notin done'[2]
               /\ at'[2] <= N + 6 /\ (at'[2] = N + 6 => pause'[2])
    <2>1. at[1] <= N + 7
      BY <1>2, <1>6, <1>8, <1>11
    <2>2. CASE i = "sig"
      <3>1. at[2] <= 3
        BY <1>6, <1>7, <1>9, <2>1, <2>2
      <3> QED BY <1>3, <1>6, <1>9, <2>1, <3>1
    <2>3. CASE i # "sig"
      BY <1>3, <1>4, <1>6, <1>9, <2>1, <2>3
    <2> QED BY <2>2, <2>3
  <1>12. ASSUME at'[1] <= 2 PROVE at'[2] <= 3 /\ (at'[2] = 3 => pause'[2])
    <2>1. at[1] <= 2
      BY <1>2, <1>6, <1>12
    <2>2. CASE i # "sig"
      BY <1>3, <1>4, <1>9, <2>1, <2>2
    <2>3. CASE i = "sig"
      <3>1. at[1] = 2 /\ at'[1] # at[1]
        BY <1>2, <1>6, <1>7, <1>8, <2>1, <2>3
      <3> QED BY <1>2, <1>6, <1>12, <3>1
    <2> QED BY <2>2, <2>3
  <1> QED BY <1>10, <1>11, <1>12 DEF TurnInv

\* Thread 2 does not pass a pause by itself.
LEMMA Turn2 ==
  ASSUME IInv, Run(2)
  PROVE  TurnInv'
  <1> DEFINE i == Program[2][at[2]]
  <1>1. TypeOK /\ 2 \in Threads /\ 1 \in Threads \ {2}
    BY DEF IInv, Threads
  <1>2. at'[2] \in {at[2], at[2] + 1} /\ at'[1] = at[1] /\ done'[1] = done[1]
    BY <1>1, RunStep
  <1>3. ~pause[2]
    BY <1>1, RunStep
  <1>4. i = "cond_NEX" => pause'[2]
    BY <1>1, RunStep
  <1>5. ASSUME i # "report", "report" \notin done[2] PROVE "report" \notin done'[2]
    BY <1>1, <1>5, RunReports
  <1>6. N \in Nat /\ at[1] \in Nat /\ at[2] \in Nat /\ at[2] >= 1
    BY BenchmarkAt DEF IInv, TypeOK, Threads
  <1>7. /\ at[2] <= N + 5 => i # "report"
        /\ at[2] = 2 \/ at[2] = N + 5 => i = "cond_NEX"
    <2>1. at[2] \in 1 .. N + 11
      BY <1>1, Ends DEF TypeOK
    <2> HIDE DEF i
    <2>2. /\ i = "report" <=> at[2] = N + 6
          /\ i = "cond_NEX" <=> at[2] = 2 \/ at[2] = N + 5 \/ at[2] = N + 11
      BY <2>1, Kinds2, Zenon DEF i
    <2> QED BY <1>6, <2>2
  <1>8. /\ "report" \notin done[1] => at[1] <= N + 3
        /\ at[1] <= N + 8 =>
              /\ "report" \notin done[2]
              /\ at[2] <= N + 6 /\ at[2] # N + 6
        /\ at[1] <= 2 => at[2] <= 3 /\ at[2] # 3
    BY <1>3 DEF IInv, TurnInv
  <1> HIDE DEF i
  <1>9. "report" \notin done'[1] => at'[1] <= N + 3
    BY <1>2, <1>8
  <1>10. ASSUME at'[1] <= N + 8
        PROVE  /\ "report" \notin done'[2]
               /\ at'[2] <= N + 6 /\ (at'[2] = N + 6 => pause'[2])
    <2>1. at[2] <= N + 5 /\ "report" \notin done[2]
      BY <1>2, <1>6, <1>8, <1>10
    <2>2. "report" \notin done'[2]
      BY <1>5, <1>7, <2>1
    <2>3. at'[2] <= N + 6 /\ (at'[2] = N + 6 => at[2] = N + 5)
      BY <1>2, <1>6, <2>1
    <2> QED BY <1>4, <1>7, <2>2, <2>3
  <1>11. ASSUME at'[1] <= 2 PROVE at'[2] <= 3 /\ (at'[2] = 3 => pause'[2])
    <2>1. at[2] <= 2
      BY <1>2, <1>6, <1>8, <1>11
    <2>2. at'[2] <= 3 /\ (at'[2] = 3 => at[2] = 2)
      BY <1>2, <1>6, <2>1
    <2> QED BY <1>4, <1>7, <2>2
  <1> QED BY <1>9, <1>10, <1>11 DEF TurnInv

\* What a step of thread t does to the flag and to the answers.
LEMMA RunAnswers ==
  ASSUME TypeOK, NEW t \in Threads, Run(t), NEW i, i = Program[t][at[t]]
  PROVE  /\ sleepflag' = 1 => sleepflag = 1 \/ i = "set_flag"
         /\ IF t = 1 /\ i = "load_flag" THEN r0'[1] = sleepflag
            ELSE r0'[1] = 1 => r0[1] = 1
  <1>1. r0 \in [Threads -> {0, 1, ReturnAddress}] /\ 1 \in Threads
    BY DEF TypeOK, Threads
  <1>2. CASE Work(t)
    BY <1>1, <1>2 DEF Work, Step
  <1>3. CASE Sig(t) \/ Nex(t)
    BY <1>1, <1>3 DEF Sig, Nex, Step
  <1>4. CASE LoadFlag(t)
    BY <1>1, <1>4 DEF LoadFlag, Step
  <1>5. CASE TestAsleep(t)
    <2>1. /\ r0' = [r0 EXCEPT ![t] = tmp[t]] /\ tmp[t] \in {0, 2}
          /\ i = "and_r0" /\ sleepflag' = sleepflag
      BY <1>5 DEF TestAsleep, Step, TypeOK, ReturnAddress
    <2> QED BY <1>1, <2>1
  <1>6. CASE ClearFlag(t)
    <2>1. /\ i = "clear_flag"
          /\ sleepflag' = sleepflag \/ sleepflag' = 0
          /\ r0' = r0 \/ r0' = [r0 EXCEPT ![t] = 0]
      BY <1>6 DEF ClearFlag, Step
    <2> QED BY <1>1, <2>1
  <1>7. CASE SetFlag(t)
    <2>1. i = "set_flag" /\ r0' = [r0 EXCEPT ![t] = 2]
      BY <1>7 DEF SetFlag, Step, ReturnAddress
    <2> QED BY <1>1, <2>1
  <1> QED BY <1>2, <1>3, <1>4, <1>5, <1>6, <1>7 DEF Run

\* Thread 1 reads the flag, and sets it only in a thread_sleep of its own.
LEMMA Answer1 ==
  ASSUME IInv, Run(1)
  PROVE  AnswerInv'
  <1> DEFINE i == Program[1][at[1]]
             a == at[1]
             b == at[2]
  <1>1. TypeOK /\ 1 \in Threads /\ 2 \in Threads \ {1}
    BY DEF IInv, Threads
  <1>2. N \in Nat /\ a \in 1 .. N + 13 /\ b \in 1 .. N + 11
    BY <1>1, Ends DEF TypeOK, Threads
  <1>3. /\ i = "load_flag" <=> a = N + 4 \/ a = N + 5
        /\ i = "set_flag" <=> a = N + 9
    BY <1>2, Kinds1
  <1>4. at'[1] = (IF a = N + 13 THEN a ELSE a + 1) /\ at'[2] = b
    BY <1>1, <1>2, Ends, RunStep
  <1>5. /\ sleepflag' = 1 => sleepflag = 1 \/ i = "set_flag"
        /\ IF i = "load_flag" THEN r0'[1] = sleepflag ELSE r0'[1] = 1 => r0[1] = 1
    BY <1>1, RunAnswers
  <1>6. /\ a <= N + 7 /\ sleepflag = 1 => b >= N + 4
        /\ a \in {N + 5, N + 6} /\ r0[1] = 1 => b >= N + 4
    BY DEF IInv, AnswerInv
  <1> HIDE DEF i, a, b
  <1>7. at'[1] <= N + 7 /\ sleepflag' = 1 => at'[2] >= N + 4
    BY <1>2, <1>3, <1>4, <1>5, <1>6
  <1>8. at'[1] \in {N + 5, N + 6} /\ r0'[1] = 1 => at'[2] >= N + 4
    BY <1>2, <1>3, <1>4, <1>5, <1>6
  <1> QED BY <1>7, <1>8 DEF AnswerInv

\* Thread 2 sets the flag where its thread_sleep begins, and does not go back.
LEMMA Answer2 ==
  ASSUME IInv, Run(2)
  PROVE  AnswerInv'
  <1> DEFINE i == Program[2][at[2]]
             b == at[2]
  <1>1. TypeOK /\ 2 \in Threads /\ 1 \in Threads \ {2}
    BY DEF IInv, Threads
  <1>2. N \in Nat /\ b \in 1 .. N + 11
    BY <1>1, Ends DEF TypeOK, Threads
  <1>3. i = "set_flag" <=> b = N + 3
    BY <1>2, Kinds2
  <1>4. at'[2] = (IF b = N + 11 THEN b ELSE b + 1) /\ at'[1] = at[1]
    BY <1>1, <1>2, Ends, RunStep
  <1>5. /\ sleepflag' = 1 => sleepflag = 1 \/ i = "set_flag"
        /\ r0'[1] = 1 => r0[1] = 1
    BY <1>1, RunAnswers
  <1>6. /\ at[1] <= N + 7 /\ sleepflag = 1 => b >= N + 4
        /\ at[1] \in {N + 5, N + 6} /\ r0[1] = 1 => b >= N + 4
    BY DEF IInv, AnswerInv
  <1> HIDE DEF i, b
  <1>7. at'[2] >= b /\ (i = "set_flag" => at'[2] = N + 4)
    BY <1>2, <1>3, <1>4
  <1>8. b >= N + 4 => at'[2] >= N + 4
    BY <1>2, <1>4, <1>7
  <1> QED BY <1>2, <1>4, <1>5, <1>6, <1>7, <1>8 DEF AnswerInv

\* Thread 1 stays in step with thread 2.
LEMMA Phase1 ==
  ASSUME IInv, Run(1), longWork
  PROVE  PhaseInv'
  <1> DEFINE i == Program[1][at[1]]
             a == at[1]
             b == at[2]
  <1>1. TypeOK /\ 1 \in Threads /\ 2 \in Threads \ {1}
    BY DEF IInv, Threads
  <1>2. N \in Nat /\ a \in 1 .. N + 13 /\ b \in 1 .. N + 11
    BY <1>1, Ends DEF TypeOK, Threads
  <1>3. /\ i = "prepare" <=> a = 1
        /\ i = "sig" <=> a = 2 \/ a = N + 8 \/ a = N + 10
        /\ i = "cond_NEX" <=> a = N + 11 \/ a = N + 13
        /\ i = "report" <=> a = N + 3
        /\ i = "completed" <=> a = N + 12
    BY <1>2, Kinds1
  <1>4. /\ i = "sig" => ~pause'[1] /\ ~pause'[2]
        /\ i # "sig" => (pause'[2] <=> pause[2])
        /\ i = "cond_NEX" => pause'[1]
        /\ i \notin {"sig", "cond_NEX"} => ~pause'[1]
    BY <1>1, RunPausesBoth
  <1>5. /\ at'[1] = IF a = N + 13 THEN a ELSE a + 1
        /\ at'[2] = b /\ done'[2] = done[2] /\ ~pause[1]
    BY <1>1, <1>2, Ends, RunStep
  <1>6. i = "report" \/ i = "prepare" => pause[2]
    BY <1>1, RunWaits DEF Other
  <1>7. "completed" \in done'[1] => i = "completed" \/ "completed" \in done[1]
    BY <1>1, RunCompletes
  <1>8. /\ a <= 2 => b <= 3 /\ (pause[2] <=> b = 3) /\ (a = 2 => b = 3)
        /\ a >= 3 => b >= 3
        /\ a >= 3 /\ a <= N + 3 => b <= N + 6 /\ (pause[2] <=> b = N + 6)
        /\ a >= N + 4 /\ a <= N + 8 => b = N + 6 /\ pause[2]
        /\ a >= N + 9 /\ a <= N + 11 => b = N + 6 /\ ~pause[2]
        /\ a = N + 12 => b >= N + 6 /\ (pause[1] <=> b <= N + 10)
        /\ a = N + 13 => b = N + 11
        /\ "completed" \in done[1] => a = N + 13
        /\ b >= N + 7 => "report" \in done[2]
    BY DEF IInv, PhaseInv
  <1> HIDE DEF i, a, b
  <1>9. /\ at'[1] <= 2 =>
             at'[2] <= 3 /\ (pause'[2] <=> at'[2] = 3) /\ (at'[1] = 2 => at'[2] = 3)
        /\ at'[1] >= 3 => at'[2] >= 3
    BY <1>2, <1>3, <1>4, <1>5, <1>6, <1>8
  <1>10. at'[1] >= 3 /\ at'[1] <= N + 3 =>
             at'[2] <= N + 6 /\ (pause'[2] <=> at'[2] = N + 6)
    BY <1>2, <1>3, <1>4, <1>5, <1>8
  <1>11. /\ at'[1] >= N + 4 /\ at'[1] <= N + 8 => at'[2] = N + 6 /\ pause'[2]
         /\ at'[1] >= N + 9 /\ at'[1] <= N + 11 => at'[2] = N + 6 /\ ~pause'[2]
         /\ at'[1] <= N + 11 => ~pause'[1]
    BY <1>2, <1>3, <1>4, <1>5, <1>6, <1>8
  <1>12. /\ at'[1] = N + 12 => /\ at'[2] >= N + 6
                               /\ pause'[1] <=> at'[2] <= N + 10
                               /\ pause'[2] => at'[2] = N + 11
         /\ at'[1] = N + 13 => at'[2] = N + 11
    BY <1>2, <1>3, <1>4, <1>5, <1>8
  <1>13. /\ "completed" \in done'[1] => at'[1] = N + 13
         /\ at'[2] >= N + 7 => "report" \in done'[2]
    BY <1>2, <1>3, <1>5, <1>7, <1>8
  <1> QED BY <1>9, <1>10, <1>11, <1>12, <1>13 DEF PhaseInv

\* Thread 2 stays in step with thread 1.
LEMMA Phase2 ==
  ASSUME IInv, Run(2), longWork
  PROVE  PhaseInv'
  <1> DEFINE i == Program[2][at[2]]
             a == at[1]
             b == at[2]
  <1>1. TypeOK /\ 2 \in Threads /\ 1 \in Threads \ {2}
    BY DEF IInv, Threads
  <1>2. N \in Nat /\ a \in 1 .. N + 13 /\ b \in 1 .. N + 11
    BY <1>1, Ends DEF TypeOK, Threads
  <1>3. /\ i = "sig" <=> b = N + 4 \/ b = N + 10
        /\ i = "cond_NEX" <=> b = 2 \/ b = N + 5 \/ b = N + 11
        /\ i = "report" <=> b = N + 6
    BY <1>2, Kinds2
  <1>4. /\ i = "sig" => ~pause'[1] /\ ~pause'[2]
        /\ i # "sig" => (pause'[1] <=> pause[1])
        /\ i = "cond_NEX" => pause'[2]
        /\ i \notin {"sig", "cond_NEX"} => ~pause'[2]
    BY <1>1, RunPausesBoth
  <1>5. /\ at'[2] = IF b = N + 11 THEN b ELSE b + 1
        /\ at'[1] = a /\ done'[1] = done[1] /\ ~pause[2]
        /\ "report" \in done[2] \/ i = "report" => "report" \in done'[2]
    BY <1>1, <1>2, Ends, RunStep
  <1>6. i = "report" => pause[1]
    BY <1>1, RunWaits DEF Other
  <1>7. /\ a <= 2 => b <= 3 /\ (pause[2] <=> b = 3) /\ (a = 2 => b = 3)
        /\ a >= 3 => b >= 3
        /\ a >= 3 /\ a <= N + 3 => b <= N + 6 /\ (pause[2] <=> b = N + 6)
        /\ a >= N + 4 /\ a <= N + 8 => b = N + 6 /\ pause[2]
        /\ a >= N + 9 /\ a <= N + 11 => b = N + 6 /\ ~pause[2]
        /\ a <= N + 11 => ~pause[1]
        /\ a = N + 12 => b >= N + 6 /\ (pause[1] <=> b <= N + 10)
        /\ a = N + 13 => b = N + 11
        /\ "completed" \in done[1] => a = N + 13
        /\ b >= N + 7 => "report" \in done[2]
    BY DEF IInv, PhaseInv
  <1> HIDE DEF i, a, b
  <1>8. /\ a <= 2 => at'[2] <= 3 /\ (pause'[2] <=> at'[2] = 3) /\ (a = 2 => at'[2] = 3)
        /\ a >= 3 => at'[2] >= 3
    BY <1>2, <1>3, <1>4, <1>5, <1>7
  <1>9. a >= 3 /\ a <= N + 3 => at'[2] <= N + 6 /\ (pause'[2] <=> at'[2] = N + 6)
    BY <1>2, <1>3, <1>4, <1>5, <1>7
  <1>10. /\ a >= N + 4 /\ a <= N + 8 => at'[2] = N + 6 /\ pause'[2]
         /\ a >= N + 9 /\ a <= N + 11 => at'[2] = N + 6 /\ ~pause'[2]
         /\ a <= N + 11 => ~pause'[1]
    BY <1>2, <1>3, <1>4, <1>5, <1>6, <1>7
  <1>11. /\ a = N + 12 => /\ at'[2] >= N + 6
                          /\ pause'[1] <=> at'[2] <= N + 10
                          /\ pause'[2] => at'[2] = N + 11
         /\ a = N + 13 => at'[2] = N + 11
    BY <1>2, <1>3, <1>4, <1>5, <1>7
  <1>12. /\ "completed" \in done'[1] => a = N + 13
         /\ at'[2] >= N + 7 => "report" \in done'[2]
    BY <1>2, <1>3, <1>5, <1>7
  <1> QED BY <1>5, <1>8, <1>9, <1>10, <1>11, <1>12 DEF PhaseInv

\* Every step keeps the invariant.
LEMMA IInvNext == IInv /\ [Next]_vars => IInv'
  <1> SUFFICES ASSUME IInv, [Next]_vars PROVE IInv'
    OBVIOUS
  <1>1. CASE Next
    <2>1. PICK t \in Threads : Run(t)
      BY <1>1 DEF Next
    <2>2. TypeOK'
      BY <2>1, TypeNext DEF IInv
    <2>3. t = 1 \/ t = 2
      BY DEF Threads
    <2>4. TurnInv' /\ AnswerInv'
      BY <2>1, <2>3, Turn1, Turn2, Answer1, Answer2
    <2>5. PhaseInv'
      <3>1. CASE longWork
        BY <2>1, <2>3, <3>1, Phase1, Phase2
      <3>2. CASE ~longWork
        BY <2>1, <3>2, RunLongWork DEF PhaseInv
      <3> QED BY <3>1, <3>2
    <2> QED BY <2>2, <2>4, <2>5 DEF IInv
  <1>2. CASE UNCHANGED vars
    BY <1>2 DEF IInv, TypeOK, TurnInv, AnswerInv, PhaseInv, vars, End
  <1> QED BY <1>1, <1>2

\* The invariant holds at all times.
LEMMA SpecIInv == Spec => []IInv
  BY InitIInv, IInvNext, PTL DEF Spec

\* The registers and the flag keep their types, and no program runs off its end.
THEOREM TypeCorrect == Spec => []TypeOK
  BY SpecIInv, PTL DEF IInv

\* Thread 2 reports only after thread 1 has, for any number of runs.
THEOREM ReportsAreInTurn == Spec => []ReportsInTurn
  <1>1. IInv => ReportsInTurn
    BY BenchmarkAt DEF IInv, TypeOK, TurnInv, ReportsInTurn, Threads
  <1> QED BY <1>1, SpecIInv, PTL

\* With long work thread 1 announces the completion of thread 2 only when thread 2
\* has reported, for any number of runs.
THEOREM CompletionIsReported == Spec => []CompletedMeansReported
  <1>1. IInv => CompletedMeansReported
    BY BenchmarkAt DEF IInv, PhaseInv, CompletedMeansReported
  <1> QED BY <1>1, SpecIInv, PTL

\* When thread_asleep returns 1 to thread 1, thread 2 is in its thread_sleep and has
\* not been woken, for any number of runs, however long either thread works.
THEOREM AnswerIsRight == Spec => []AnsweredAsleep
  <1>1. ASSUME IInv, SaysAsleep(1)
        PROVE  FallingAsleep(2)
    <2>1. N \in Nat /\ at[1] \in 1 .. N + 13 /\ at[2] \in 1 .. N + 11
      BY <1>1, Ends DEF IInv, TypeOK, Threads
    <2>2. /\ at[1] - 1 \in 1 .. N + 13 /\ r0[1] = 1
          /\ Program[1][at[1] - 1] = "load_flag"
      BY <1>1, <2>1 DEF SaysAsleep
    <2>3. at[1] - 1 = N + 4 \/ at[1] - 1 = N + 5
      BY <2>2, Kinds1
    <2>4. at[1] = N + 5 \/ at[1] = N + 6
      BY <2>1, <2>3
    <2>5. at[2] >= N + 4 /\ at[2] <= N + 6 /\ (at[2] = N + 6 => pause[2])
      BY <1>1, <2>1, <2>2, <2>4 DEF IInv, AnswerInv, TurnInv
    <2>6. N + 3 \in 1 .. N + 11 /\ Program[2][N + 3] = "set_flag"
      BY <2>1, Kinds2
    <2>7. PICK k \in 1 .. 3 : at[2] - k = N + 3
      BY <2>1, <2>5
    <2>8. at[2] > k /\ (k = 3 => pause[2])
      BY <2>1, <2>5, <2>7
    <2> QED BY <2>6, <2>7, <2>8 DEF FallingAsleep
  <1>2. IInv => AnsweredAsleep
    BY <1>1 DEF AnsweredAsleep
  <1> QED BY <1>2, SpecIInv, PTL

\* With long work, the threads are not both paused before both programs have ended.
THEOREM NeverAllAsleep == Spec => []SomebodyAwake
  <1>1. ASSUME IInv, longWork, pause[1], pause[2]
        PROVE  at[1] = End(1) /\ at[2] = End(2)
    <2>1. N \in Nat /\ at[1] \in 1 .. N + 13 /\ at[2] \in 1 .. N + 11
      BY <1>1, Ends DEF IInv, TypeOK, Threads
    <2>2. at[1] = N + 13 /\ at[2] = N + 11
      BY <1>1, <2>1 DEF IInv, PhaseInv
    <2> QED BY <2>2, Ends
  <1>2. IInv => SomebodyAwake
    BY <1>1 DEF SomebodyAwake, Threads
  <1> QED BY <1>2, SpecIInv, PTL
=============================================================================
