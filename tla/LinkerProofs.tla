----------------------------- MODULE LinkerProofs -----------------------------
(***************************************************************************)
(* Proofs about the linker, for any command line and any object files.     *)
(***************************************************************************)
EXTENDS Linker, FiniteSetTheorems, WellFoundedInduction, TLAPS

-----------------------------------------------------------------------------
(***************************************************************************)
(* Induction over the natural numbers, stated on sets: a property is the   *)
(* set of the numbers that have it.  All of it rests on a set of natural   *)
(* numbers having a least element.                                         *)
(***************************************************************************)

\* Numbers have a least one.
LEMMA Least ==
  ASSUME NEW S \in SUBSET Nat, S # {}
  PROVE  \E n \in S : \A m \in S : n <= m
  <1>1. PICK n \in S : \A m \in S : ~(<<m, n>> \in OpToRel(<, Nat))
    BY WFMin, NatLessThanWellFounded
  <1>2. \A m \in S : (<<m, n>> \in OpToRel(<, Nat)) <=> m < n
    BY DEF OpToRel
  <1>3. ASSUME NEW m \in S PROVE n <= m
    <2>1. ~(m < n) /\ m \in Nat /\ n \in Nat
      BY <1>1, <1>2
    <2> QED BY <2>1
  <1> QED BY <1>3

\* Numbers up to a limit have a greatest one.
LEMMA Greatest ==
  ASSUME NEW limit \in Nat, NEW S \in SUBSET (0 .. limit), S # {}
  PROVE  \E n \in S : \A m \in S : m <= n
  <1> DEFINE D == {d \in Nat : limit - d \in S}
  <1>1. D # {}
    <2>1. PICK m \in S : TRUE
      OBVIOUS
    <2>2. limit - m \in Nat /\ limit - (limit - m) = m
      BY <2>1
    <2> QED BY <2>2
  <1>2. PICK d \in D : \A e \in D : d <= e
    BY <1>1, Least
  <1>3. ASSUME NEW m \in S PROVE m <= limit - d
    <2>1. limit - m \in Nat /\ limit - (limit - m) = m
      OBVIOUS
    <2>2. limit - m \in D
      BY <2>1
    <2>3. d <= limit - m
      BY <1>2, <2>2
    <2> QED BY <2>1, <2>3
  <1>4. limit - d \in S
    OBVIOUS
  <1> QED BY <1>3, <1>4

\* Induction: a set with 0 in it and with every number's successor has all numbers.
LEMMA SetInduction ==
  ASSUME NEW T, 0 \in T, \A n \in Nat : n \in T => n + 1 \in T
  PROVE  \A n \in Nat : n \in T
  <1> SUFFICES ASSUME NEW x \in Nat, x \notin T PROVE FALSE
    OBVIOUS
  <1>1. PICK n \in Nat \ T : \A m \in Nat \ T : n <= m
    BY Least
  <1>2. n # 0 /\ n - 1 \in Nat
    BY <1>1
  <1>3. n - 1 \in T
    BY <1>1, <1>2
  <1> QED BY <1>1, <1>2, <1>3

\* A function takes every value from the one before it.
Follows(n, v, g, f) == f[0] = v /\ \A i \in 1 .. n : f[i] = g[<<i, f[i - 1]>>]

\* A recursive function that does so with values of some set: there is one.
LEMMA RecursionIn ==
  ASSUME NEW n \in Nat, NEW V, NEW v \in V, NEW g, \A i \in 1 .. n : \A x \in V : g[<<i, x>>] \in V
  PROVE  \E f \in [0 .. n -> V] : Follows(n, v, g, f)
  <1> DEFINE T == {k \in Nat : k <= n => \E f \in [0 .. k -> V] : Follows(k, v, g, f)}
  <1>1. 0 \in T
    <2>1. [i \in 0 .. 0 |-> v] \in [0 .. 0 -> V] /\ Follows(0, v, g, [i \in 0 .. 0 |-> v])
      BY DEF Follows
    <2> QED BY <2>1
  <1>2. ASSUME NEW k \in Nat, k \in T PROVE k + 1 \in T
    <2> SUFFICES ASSUME k + 1 <= n PROVE \E f \in [0 .. k + 1 -> V] : Follows(k + 1, v, g, f)
      OBVIOUS
    <2>1. PICK f \in [0 .. k -> V] : Follows(k, v, g, f)
      BY <1>2
    <2> DEFINE h == [i \in 0 .. k + 1 |-> IF i = k + 1 THEN g[<<k + 1, f[k]>>] ELSE f[i]]
    <2>2. g[<<k + 1, f[k]>>] \in V
      BY <2>1
    <2>3. h \in [0 .. k + 1 -> V]
      BY <2>1, <2>2
    <2>4. \A i \in 0 .. k : h[i] = f[i]
      OBVIOUS
    <2>5. h[k + 1] = g[<<k + 1, h[k]>>]
      <3>1. h[k + 1] = g[<<k + 1, f[k]>>]
        OBVIOUS
      <3>2. h[k] = f[k]
        BY <2>4
      <3> QED BY <3>1, <3>2, Zenon
    <2> HIDE DEF h
    <2>6. h[0] = v
      BY <2>1, <2>4 DEF Follows
    <2>7. ASSUME NEW i \in 1 .. k + 1 PROVE h[i] = g[<<i, h[i - 1]>>]
      <3>1. CASE i = k + 1
        <4>1. i - 1 = k
          BY <3>1
        <4> QED BY <2>5, <3>1, <4>1, Zenon
      <3>2. CASE i # k + 1
        <4>1. i \in 1 .. k /\ i \in 0 .. k /\ i - 1 \in 0 .. k
          BY <3>2
        <4> QED BY <2>1, <2>4, <4>1 DEF Follows
      <3> QED BY <3>1, <3>2
    <2>8. Follows(k + 1, v, g, h)
      BY <2>6, <2>7 DEF Follows
    <2> QED BY <2>3, <2>8
  <1> HIDE DEF T
  <1>3. n \in T
    BY <1>1, <1>2, SetInduction
  <1> QED BY <1>3 DEF T

\* With numbers, that is.
LEMMA Recursion ==
  ASSUME NEW n \in Nat, NEW v \in Int, NEW g, \A i \in 1 .. n : \A x \in Int : g[<<i, x>>] \in Int
  PROVE  \E f \in [0 .. n -> Int] : Follows(n, v, g, f)
  BY RecursionIn

\* A function whose values are numbers if those before them are.
Passes(n, f) == f[0] \in Int /\ \A i \in 1 .. n : f[i - 1] \in Int => f[i] \in Int

\* Its values are numbers.
LEMMA RecursionType ==
  ASSUME NEW n \in Nat, NEW f, Passes(n, f)
  PROVE  \A i \in 0 .. n : f[i] \in Int
  <1> DEFINE T == {i \in Nat : i <= n => f[i] \in Int}
  <1>1. 0 \in T
    BY DEF Passes
  <1>2. ASSUME NEW i \in Nat, i \in T PROVE i + 1 \in T
    <2> SUFFICES ASSUME i + 1 <= n PROVE f[i + 1] \in Int
      OBVIOUS
    <2>1. f[i] \in Int
      BY <1>2
    <2>2. i + 1 \in 1 .. n /\ (i + 1) - 1 = i
      OBVIOUS
    <2> QED BY <2>1, <2>2 DEF Passes
  <1> HIDE DEF T
  <1>3. \A i \in Nat : i \in T
    BY <1>1, <1>2, SetInduction
  <1> QED BY <1>3 DEF T

-----------------------------------------------------------------------------
(* How large references are.                                               *)

\* The least of some numbers up to six, with six among them.
LEMMA MinOfSix ==
  ASSUME NEW S \in SUBSET (1 .. 6), 6 \in S
  PROVE  Min(S) \in S
  <1>1. \E x \in S : \A y \in S : x <= y
    <2>1. CASE 1 \in S BY <2>1
    <2>2. CASE 1 \notin S /\ 2 \in S BY <2>2
    <2>3. CASE 1 \notin S /\ 2 \notin S /\ 3 \in S BY <2>3
    <2>4. CASE 1 \notin S /\ 2 \notin S /\ 3 \notin S /\ 4 \in S BY <2>4
    <2>5. CASE 1 \notin S /\ 2 \notin S /\ 3 \notin S /\ 4 \notin S /\ 5 \in S BY <2>5
    <2>6. CASE 1 \notin S /\ 2 \notin S /\ 3 \notin S /\ 4 \notin S /\ 5 \notin S BY <2>6
    <2> QED BY <2>1, <2>2, <2>3, <2>4, <2>5, <2>6
  <1> QED BY <1>1, Zenon DEF Min

\* A constant takes one to six opcodes.
LEMMA ConstantChunksType == ASSUME NEW v PROVE ConstantChunks(v) \in 1 .. 6
  <1> DEFINE S == {k \in 1 .. 5 : -32 * Power64[k] <= v /\ v < 32 * Power64[k]} \cup {6}
  <1>1. S \in SUBSET (1 .. 6) /\ 6 \in S
    OBVIOUS
  <1>2. Min(S) \in S
    <2> HIDE DEF S
    <2> QED BY <1>1, MinOfSix
  <1> QED BY <1>1, <1>2 DEF ConstantChunks

\* So does a distance.
LEMMA PcrelChunksType == ASSUME NEW from, NEW to PROVE PcrelChunks(from, to) \in 1 .. 6
  <1> DEFINE S == {i \in 1 .. 5 : i >= ConstantChunks(to - (from + i))} \cup {6}
  <1>1. S \in SUBSET (1 .. 6) /\ 6 \in S
    OBVIOUS
  <1>2. Min(S) \in S
    <2> HIDE DEF S
    <2> QED BY <1>1, MinOfSix
  <1> QED BY <1>1, <1>2 DEF PcrelChunks

\* The larger of two sizes.
LEMMA MaxOfTwo ==
  ASSUME NEW a \in 0 .. 6, NEW b \in 1 .. 6
  PROVE  Max({a, b}) \in a .. 6
  <1>1. \E x \in {a, b} : \A y \in {a, b} : x >= y
    OBVIOUS
  <1>2. Max({a, b}) \in {a, b} /\ \A y \in {a, b} : Max({a, b}) >= y
    BY <1>1, Zenon DEF Max
  <1> QED BY <1>2

\* A size that has been reached by sizing: words are always four bytes.
SizeOK(sym) == /\ {"id", "flags", "size", "cursor", "offset", "address", "resolve"} \subseteq DOMAIN sym
               /\ Has(sym, "ALIGN") \/ /\ sym.size \in 0 .. 6
                                       /\ Has(sym, "REFERENCE") => sym.size \in {0, 4}

\* From such a size a reference only grows to another one.
LEMMA ReferenceGrows ==
  ASSUME NEW sym, SizeOK(sym), ~Has(sym, "ALIGN"), NEW addr, NEW target
  PROVE  /\ ReferenceSize(sym, addr, target) \in sym.size .. 6
         /\ Has(sym, "REFERENCE") => ReferenceSize(sym, addr, target) = 4
  <1>1. CASE Has(sym, "REFERENCE")
    BY <1>1 DEF SizeOK, ReferenceSize
  <1>2. CASE ~Has(sym, "REFERENCE") /\ sym.size = 0
    BY <1>2 DEF ReferenceSize
  <1>3. CASE ~Has(sym, "REFERENCE") /\ sym.size # 0
    <2> DEFINE chunks == IF Has(sym, "LDABS") THEN ConstantChunks(TargetValue(target, sym))
                         ELSE PcrelChunks(addr, TargetValue(target, sym))
    <2>1. chunks \in 1 .. 6
      BY ConstantChunksType, PcrelChunksType
    <2>2. ReferenceSize(sym, addr, target) = Max({sym.size, chunks})
      BY <1>3 DEF ReferenceSize
    <2> HIDE DEF chunks
    <2> QED BY <1>3, <2>1, <2>2, MaxOfTwo DEF SizeOK
  <1> QED BY <1>1, <1>2, <1>3

-----------------------------------------------------------------------------
(* What the passes over a section do to its symbols.                       *)

\* A list of anything.
IsSeq(x) == \E S : x \in Seq(S)

\* A list is a function from its positions.
LEMMA SeqIsFunction ==
  ASSUME NEW x, IsSeq(x)
  PROVE  x = [i \in DOMAIN x |-> x[i]] /\ Len(x) \in Nat /\ DOMAIN x = 1 .. Len(x)
  BY DEF IsSeq

\* Appending to a list.
LEMMA AppendIs ==
  ASSUME NEW x, IsSeq(x), NEW e
  PROVE  /\ IsSeq(Append(x, e))
         /\ DOMAIN Append(x, e) = DOMAIN x \cup {Len(x) + 1}
         /\ \A i \in DOMAIN Append(x, e) : Append(x, e)[i] = IF i \in DOMAIN x THEN x[i] ELSE e
  <1>1. PICK S : x \in Seq(S)
    BY DEF IsSeq
  <1>2. x \in Seq(S \cup {e})
    BY <1>1
  <1>3. Append(x, e) \in Seq(S \cup {e})
    BY <1>2
  <1>4. Len(Append(x, e)) = Len(x) + 1 /\ Len(x) \in Nat
    BY <1>2
  <1>5. DOMAIN Append(x, e) = 1 .. Len(x) + 1 /\ DOMAIN x = 1 .. Len(x)
    BY <1>2, <1>3, <1>4
  <1>6. \A i \in 1 .. Len(x) + 1 : Append(x, e)[i] = IF i \in 1 .. Len(x) THEN x[i] ELSE e
    BY <1>2, <1>4
  <1> QED BY <1>3, <1>4, <1>5, <1>6 DEF IsSeq

\* Changing an element of a list.
LEMMA UpdateSeq ==
  ASSUME NEW x, IsSeq(x), NEW y, y = [i \in DOMAIN x |-> y[i]]
  PROVE  IsSeq(y)
  <1>1. PICK S : x \in Seq(S)
    BY DEF IsSeq
  <1>2. Len(x) \in Nat /\ DOMAIN x = 1 .. Len(x)
    BY <1>1
  <1> DEFINE T == {y[i] : i \in DOMAIN x}
  <1>3. y \in [1 .. Len(x) -> T]
    BY <1>2
  <1>4. y \in Seq(T)
    BY <1>2, <1>3
  <1> QED BY <1>4 DEF IsSeq

\* A section whose references all have such sizes.
SectOK(sect) == /\ {"id", "flags", "symbols", "cursor", "address", "offset"} \subseteq DOMAIN sect
                /\ \A i \in DOMAIN sect.symbols : SizeOK(sect.symbols[i])

\* Such a section with a list of symbols.
Loaded(sect) == SectOK(sect) /\ IsSeq(sect.symbols)

\* One version of a section follows from another by a pass of the relaxation: what
\* its symbols mean stays, and sizes only grow.
Relaxed(old, new) ==
    /\ Loaded(new)
    /\ new.id = old.id /\ new.flags = old.flags
    /\ DOMAIN new.symbols = DOMAIN old.symbols
    /\ \A i \in DOMAIN old.symbols :
          /\ new.symbols[i].id = old.symbols[i].id /\ new.symbols[i].flags = old.symbols[i].flags
          /\ new.symbols[i].resolve = old.symbols[i].resolve
          /\ Has(old.symbols[i], "ALIGN") \/ new.symbols[i].size \in old.symbols[i].size .. 6

\* Sizing the references is such a pass.
LEMMA SizingRelaxes ==
  ASSUME NEW sect, Loaded(sect), NEW targets
  PROVE  Relaxed(sect, SizeReferences(sect, targets))
  <1> DEFINE new == SizeReferences(sect, targets)
  <1>1. /\ {"id", "flags", "symbols", "cursor", "address", "offset"} \subseteq DOMAIN new
        /\ new.id = sect.id /\ new.flags = sect.flags
        /\ DOMAIN new.symbols = DOMAIN sect.symbols
        /\ \A i \in DOMAIN sect.symbols :
              \/ new.symbols[i] = sect.symbols[i]
              \/ \E addr : new.symbols[i] = [sect.symbols[i] EXCEPT
                              !.size = ReferenceSize(sect.symbols[i], addr, targets[i])]
    BY DEF SizeReferences, Loaded, SectOK
  <1>5. new.symbols = [i \in DOMAIN sect.symbols |-> new.symbols[i]]
    BY DEF SizeReferences, Loaded, SectOK
  <1>2. ASSUME NEW i \in DOMAIN sect.symbols
        PROVE  /\ SizeOK(new.symbols[i])
               /\ new.symbols[i].id = sect.symbols[i].id /\ new.symbols[i].flags = sect.symbols[i].flags
               /\ new.symbols[i].resolve = sect.symbols[i].resolve
               /\ \/ Has(sect.symbols[i], "ALIGN")
                  \/ new.symbols[i].size \in sect.symbols[i].size .. 6
    <2> DEFINE sym == sect.symbols[i]
    <2>1. SizeOK(sym)
      BY DEF Loaded, SectOK
    <2>2. CASE new.symbols[i] = sym
      BY <2>1, <2>2 DEF SizeOK
    <2>3. ASSUME NEW addr,
                 new.symbols[i] = [sym EXCEPT !.size = ReferenceSize(sym, addr, targets[i])]
          PROVE  /\ SizeOK(new.symbols[i])
                 /\ new.symbols[i].id = sym.id /\ new.symbols[i].flags = sym.flags
                 /\ new.symbols[i].resolve = sym.resolve
                 /\ Has(sym, "ALIGN") \/ new.symbols[i].size \in sym.size .. 6
      <3> HIDE DEF new, sym
      <3>1. /\ DOMAIN new.symbols[i] = DOMAIN sym
            /\ new.symbols[i].size = ReferenceSize(sym, addr, targets[i])
            /\ new.symbols[i].id = sym.id /\ new.symbols[i].flags = sym.flags
            /\ new.symbols[i].resolve = sym.resolve
        BY <2>1, <2>3 DEF SizeOK
      <3>2. CASE Has(sym, "ALIGN")
        BY <2>1, <3>1, <3>2 DEF SizeOK, Has
      <3>3. CASE ~Has(sym, "ALIGN")
        BY <2>1, <3>1, <3>3, ReferenceGrows DEF SizeOK, Has
      <3> QED BY <3>2, <3>3
    <2> QED BY <1>1, <2>2, <2>3
  <1> HIDE DEF new
  <1>3. IsSeq(new.symbols)
    BY <1>5, UpdateSeq DEF Loaded
  <1>4. Relaxed(sect, new)
    BY <1>1, <1>2, <1>3 DEF Relaxed, Loaded, SectOK
  <1> QED BY <1>4 DEF new

\* Assigning addresses is such a pass: only alignments change their size.
LEMMA AssigningRelaxes ==
  ASSUME NEW sect, Loaded(sect), NEW base
  PROVE  Relaxed(sect, AssignAddresses(sect, base))
  <1> DEFINE new == AssignAddresses(sect, base)
  <1>1. /\ {"id", "flags", "symbols", "cursor", "address", "offset"} \subseteq DOMAIN new
        /\ new.id = sect.id /\ new.flags = sect.flags
        /\ DOMAIN new.symbols = DOMAIN sect.symbols
        /\ \A i \in DOMAIN sect.symbols :
              \/ new.symbols[i] = sect.symbols[i]
              \/ \E size : /\ Has(sect.symbols[i], "ALIGN") \/ size = sect.symbols[i].size
                           /\ new.symbols[i] = [sect.symbols[i] EXCEPT !.size = size]
              \/ \E address : new.symbols[i] = [sect.symbols[i] EXCEPT !.address = address]
    BY DEF AssignAddresses, Loaded, SectOK
  <1>5. new.symbols = [i \in DOMAIN sect.symbols |-> new.symbols[i]]
    BY DEF AssignAddresses, Loaded, SectOK
  <1>2. ASSUME NEW i \in DOMAIN sect.symbols
        PROVE  /\ SizeOK(new.symbols[i])
               /\ new.symbols[i].id = sect.symbols[i].id /\ new.symbols[i].flags = sect.symbols[i].flags
               /\ new.symbols[i].resolve = sect.symbols[i].resolve
               /\ \/ Has(sect.symbols[i], "ALIGN")
                  \/ new.symbols[i].size \in sect.symbols[i].size .. 6
    <2> DEFINE sym == sect.symbols[i]
    <2>1. SizeOK(sym)
      BY DEF Loaded, SectOK
    <2>2. /\ DOMAIN new.symbols[i] = DOMAIN sym
          /\ Has(sym, "ALIGN") \/ new.symbols[i].size = sym.size
          /\ new.symbols[i].id = sym.id /\ new.symbols[i].flags = sym.flags
          /\ new.symbols[i].resolve = sym.resolve
      <3> HIDE DEF new
      <3> QED BY <1>1, <2>1 DEF SizeOK
    <2> HIDE DEF new
    <2>3. CASE Has(sym, "ALIGN")
      BY <2>1, <2>2, <2>3 DEF SizeOK, Has
    <2>4. CASE ~Has(sym, "ALIGN")
      BY <2>1, <2>2, <2>4 DEF SizeOK, Has
    <2> QED BY <2>3, <2>4
  <1> HIDE DEF new
  <1>3. IsSeq(new.symbols)
    BY <1>5, UpdateSeq DEF Loaded
  <1>4. Relaxed(sect, new)
    BY <1>1, <1>2, <1>3 DEF Relaxed, Loaded, SectOK
  <1> QED BY <1>4 DEF new

-----------------------------------------------------------------------------
(* What is loaded.                                                         *)

\* As it is loaded it is not marked.
Fresh(sect) == Loaded(sect) /\ ~Has(sect, "TOUCHED")

\* What has been loaded so far.
LoadedInv == /\ {"loaded", "declared", "unresolved"} \subseteq DOMAIN opts
             /\ IsSeq(opts.loaded)
             /\ \A o \in DOMAIN opts.loaded :
                   IsSeq(opts.loaded[o]) /\ \A s \in DOMAIN opts.loaded[o] : Fresh(opts.loaded[o][s])

\* Symbols are created without a size.
LEMMA SymbolOK ==
  ASSUME NEW id, NEW cursor, NEW flags, NEW offset
  PROVE  SizeOK(Symbol(id, cursor, flags, offset))
  BY DEF SizeOK, Symbol, Has

\* A section may be given another symbol.
LEMMA AddKeeps ==
  ASSUME NEW sect, Loaded(sect), NEW sym, SizeOK(sym)
  PROVE  /\ Loaded(AddSymbol(sect, sym))
         /\ AddSymbol(sect, sym).id = sect.id /\ AddSymbol(sect, sym).flags = sect.flags
  <1>1. /\ AddSymbol(sect, sym).symbols = Append(sect.symbols, sym)
        /\ {"id", "flags", "symbols", "cursor", "address", "offset"} \subseteq DOMAIN AddSymbol(sect, sym)
        /\ AddSymbol(sect, sym).id = sect.id /\ AddSymbol(sect, sym).flags = sect.flags
    BY DEF Loaded, SectOK, AddSymbol
  <1> QED BY <1>1, AppendIs DEF Loaded, SectOK

\* A symbol may be given flags that do not make an alignment or a word of it.
LEMMA FlagKeeps ==
  ASSUME NEW sect, Loaded(sect), NEW id, NEW flags, {"ALIGN", "REFERENCE"} \cap flags = {}
  PROVE  /\ Loaded(FlagSymbol(sect, id, flags))
         /\ FlagSymbol(sect, id, flags).id = sect.id /\ FlagSymbol(sect, id, flags).flags = sect.flags
  <1> DEFINE one == GetSymbol(sect, id)
             new == FlagSymbol(sect, id, flags)
             k == FindSymbol(one, id)
  <1>1. Loaded(one) /\ one.id = sect.id /\ one.flags = sect.flags
    BY AddKeeps, SymbolOK DEF GetSymbol
  <1>2. new = [one EXCEPT !.symbols[k].flags = @ \cup flags]
    BY DEF FlagSymbol
  <1> HIDE DEF one, new, k
  <1>3. /\ {"id", "flags", "symbols", "cursor", "address", "offset"} \subseteq DOMAIN new
        /\ new.symbols = [one.symbols EXCEPT ![k].flags = @ \cup flags]
        /\ new.id = one.id /\ new.flags = one.flags
    BY <1>1, <1>2 DEF Loaded, SectOK
  <1>4. ASSUME NEW i \in DOMAIN new.symbols PROVE SizeOK(new.symbols[i])
    <2>1. SizeOK(one.symbols[i]) /\ DOMAIN new.symbols = DOMAIN one.symbols
      BY <1>1, <1>3, <1>4 DEF Loaded, SectOK
    <2>2. CASE i # k
      BY <1>3, <2>1, <2>2
    <2>3. CASE i = k
      <3>1. new.symbols[i] = [one.symbols[i] EXCEPT !.flags = @ \cup flags]
        BY <1>3, <2>1, <2>3
      <3> QED BY <2>1, <3>1 DEF SizeOK, Has
    <2> QED BY <2>2, <2>3
  <1>5. IsSeq(new.symbols)
    <2>1. new.symbols = [i \in DOMAIN one.symbols |-> new.symbols[i]]
      BY <1>3
    <2> QED BY <1>1, <2>1, UpdateSeq DEF Loaded
  <1>6. Loaded(new) /\ new.id = sect.id /\ new.flags = sect.flags
    BY <1>1, <1>3, <1>4, <1>5 DEF Loaded, SectOK
  <1> QED BY <1>6 DEF new

\* A symbol may be given another place.
LEMMA PlaceKeeps ==
  ASSUME NEW sect, Loaded(sect), NEW id, NEW cursor
  PROVE  /\ Loaded(PlaceSymbol(sect, id, cursor))
         /\ PlaceSymbol(sect, id, cursor).id = sect.id /\ PlaceSymbol(sect, id, cursor).flags = sect.flags
  <1> DEFINE new == PlaceSymbol(sect, id, cursor)
             k == FindSymbol(sect, id)
  <1>1. new = [sect EXCEPT !.symbols[k].cursor = cursor]
    BY DEF PlaceSymbol
  <1> HIDE DEF new, k
  <1>2. /\ {"id", "flags", "symbols", "cursor", "address", "offset"} \subseteq DOMAIN new
        /\ new.symbols = [sect.symbols EXCEPT ![k].cursor = cursor]
        /\ new.id = sect.id /\ new.flags = sect.flags
    BY <1>1 DEF Loaded, SectOK
  <1>3. ASSUME NEW i \in DOMAIN new.symbols PROVE SizeOK(new.symbols[i])
    <2>1. SizeOK(sect.symbols[i]) /\ DOMAIN new.symbols = DOMAIN sect.symbols
      BY <1>2, <1>3 DEF Loaded, SectOK
    <2>2. CASE i # k
      BY <1>2, <2>1, <2>2
    <2>3. CASE i = k
      <3>1. new.symbols[i] = [sect.symbols[i] EXCEPT !.cursor = cursor]
        BY <1>2, <2>1, <2>3
      <3> QED BY <2>1, <3>1 DEF SizeOK, Has
    <2> QED BY <2>2, <2>3
  <1>4. IsSeq(new.symbols)
    <2>1. new.symbols = [i \in DOMAIN sect.symbols |-> new.symbols[i]]
      BY <1>2
    <2> QED BY <2>1, UpdateSeq DEF Loaded
  <1>5. Loaded(new) /\ new.id = sect.id /\ new.flags = sect.flags
    BY <1>2, <1>3, <1>4 DEF Loaded, SectOK
  <1> QED BY <1>5 DEF new

\* What is read from an object file is such a section.
LEMMA LoadIs ==
  ASSUME NEW saved, IsSeq(saved.symbols)
  PROVE  Loaded(LoadSection(saved)) /\ LoadSection(saved).flags = saved.flags
  <1> DEFINE new == LoadSection(saved)
  <1>1. /\ {"id", "flags", "symbols", "cursor", "address", "offset"} \subseteq DOMAIN new
        /\ new.symbols = [i \in DOMAIN saved.symbols |-> LoadSymbol(saved.symbols[i])]
        /\ new.flags = saved.flags
    BY DEF LoadSection, Section
  <1> HIDE DEF new
  <1>2. IsSeq(new.symbols)
    <2>1. new.symbols = [i \in DOMAIN saved.symbols |-> new.symbols[i]]
      BY <1>1
    <2> QED BY <2>1, UpdateSeq
  <1>3. Loaded(new) /\ new.flags = saved.flags
    BY <1>1, <1>2, SymbolOK DEF Loaded, SectOK, LoadSymbol
  <1> QED BY <1>3 DEF new

\* So is a section of the linker's own.
LEMMA BuiltinIs ==
  ASSUME NEW id, NEW flag, NEW align
  PROVE  /\ Loaded(AddBuiltin(id, flag, align))
         /\ AddBuiltin(id, flag, align).id = id /\ AddBuiltin(id, flag, align).flags = {flag}
  <1> DEFINE sect == Section(id, {flag})
  <1>1. Loaded(sect) /\ sect.id = id /\ sect.flags = {flag}
    <2>1. sect.symbols = <<>> /\ {"id", "flags", "symbols", "cursor", "address", "offset"} \subseteq DOMAIN sect
      BY DEF Section
    <2>2. IsSeq(sect.symbols)
      <3>1. <<>> \in Seq({})
        OBVIOUS
      <3> QED BY <2>1, <3>1 DEF IsSeq
    <2>3. DOMAIN sect.symbols = {}
      BY <2>1
    <2>4. sect.id = id /\ sect.flags = {flag}
      BY DEF Section
    <2> QED BY <2>1, <2>2, <2>3, <2>4 DEF Loaded, SectOK
  <1>2. Loaded(Align(sect, align)) /\ Align(sect, align).id = id /\ Align(sect, align).flags = {flag}
    BY <1>1, AddKeeps, SymbolOK DEF Align
  <1>3. ASSUME NEW x, Loaded(x)
        PROVE  /\ Loaded(DeclareSymbol(x, id, {"GLOBAL"}))
               /\ DeclareSymbol(x, id, {"GLOBAL"}).id = x.id
               /\ DeclareSymbol(x, id, {"GLOBAL"}).flags = x.flags
    BY <1>3, FlagKeeps, PlaceKeeps DEF DeclareSymbol
  <1> HIDE DEF sect
  <1>4. CASE align = 0
    BY <1>1, <1>3, <1>4 DEF AddBuiltin, sect
  <1>5. CASE align # 0
    BY <1>2, <1>3, <1>5 DEF AddBuiltin, sect
  <1> QED BY <1>4, <1>5

\* The sections of the linker's own, all together.
LEMMA SectionMapIs ==
  ASSUME NEW reloc
  PROVE  IsSeq(SectionMap(reloc)) /\ \A s \in DOMAIN SectionMap(reloc) : Fresh(SectionMap(reloc)[s])
  <1> DEFINE ids == {"__ctors_start__", "__ctors_end__", "__dtors_start__", "__dtors_end__",
                     "__reloctable__", "__bss_start__", "__bss_end__"}
             X == {AddBuiltin(id, flag, align) : id \in ids, flag \in {"CTOR", "DTOR", "BSS"},
                                                 align \in {0, 4}}
  <1>1. SectionMap(reloc) \in Seq(X)
    <2>1. \A id \in ids, flag \in {"CTOR", "DTOR", "BSS"}, align \in {0, 4} :
             AddBuiltin(id, flag, align) \in X
      OBVIOUS
    <2> HIDE DEF X
    <2>2. <<AddBuiltin("__ctors_start__", "CTOR", 0), AddBuiltin("__ctors_end__", "CTOR", 0),
            AddBuiltin("__dtors_start__", "DTOR", 0), AddBuiltin("__dtors_end__", "DTOR", 0)>> \in Seq(X)
      BY <2>1
    <2>3. <<AddBuiltin("__reloctable__", "BSS", 0)>> \in Seq(X) /\ <<>> \in Seq(X)
      BY <2>1
    <2>4. <<AddBuiltin("__bss_start__", "BSS", 4), AddBuiltin("__bss_end__", "BSS", 4)>> \in Seq(X)
      BY <2>1
    <2> QED BY <2>2, <2>3, <2>4 DEF SectionMap
  <1>2. \A s \in DOMAIN SectionMap(reloc) : SectionMap(reloc)[s] \in X
    <2> HIDE DEF X
    <2> QED BY <1>1
  <1>3. \A x \in X : Fresh(x)
    BY BuiltinIs DEF Fresh, Has
  <1> QED BY <1>1, <1>2, <1>3 DEF IsSeq

-----------------------------------------------------------------------------
(* The invariant.                                                          *)

\* The executable: a list of such sections for the linker and for each object.
ExeOK == /\ \E n \in Nat : DOMAIN exe = 0 .. n
         /\ \A o \in DOMAIN exe :
               IsSeq(exe[o]) /\ \A s \in DOMAIN exe[o] : Loaded(exe[o][s])

\* No option changes what has been loaded.
LEMMA SetKeeps ==
  ASSUME LoadedInv, NEW o, NEW arg
  PROVE  Set(o, arg).loaded = opts.loaded /\ DOMAIN Set(o, arg) = DOMAIN opts
  BY DEF LoadedInv, Set

\* What is loaded stays as it has to be.
LEMMA NextLoaded == LoadedInv /\ ObjectFiles /\ [LinkNext]_linkvars => LoadedInv'
  <1> SUFFICES ASSUME LoadedInv, ObjectFiles, [LinkNext]_linkvars PROVE LoadedInv'
    OBVIOUS
  <1>1. CASE LinkArgument
    <2> DEFINE Same == opts'.loaded = opts.loaded /\ DOMAIN opts' = DOMAIN opts
    <2>1. ASSUME Same PROVE LoadedInv'
      BY <2>1 DEF LoadedInv
    <2>2. \/ Same
          \/ \E name \in DOMAIN disk : opts' = [opts EXCEPT !.loaded = LoadObject(name)]
      <3>1. CASE Head(argl)[1] = "opt"
        <4>1. opts' = [opts EXCEPT !.locals = @ \/ Head(argl)[2] = "-M",
                                   !.reloc = @ \/ Head(argl)[2] = "-r"]
          BY <1>1, <3>1, Zenon DEF LinkArgument
        <4> QED BY <4>1 DEF LoadedInv
      <3>2. Head(argl)[1] # "opt" => \/ opts' = Set(Waiting[1], Head(argl)[2])
                                     \/ UNCHANGED opts
                                     \/ \E name \in DOMAIN disk :
                                           opts' = [opts EXCEPT !.loaded = LoadObject(name)]
        BY <1>1 DEF LinkArgument
      <3>3. ASSUME opts' = Set(Waiting[1], Head(argl)[2]) PROVE Same
        BY <3>3, SetKeeps
      <3>4. CASE UNCHANGED opts
        BY <3>4
      <3> QED BY <3>1, <3>2, <3>3, <3>4
    <2>3. ASSUME NEW name \in DOMAIN disk, opts' = [opts EXCEPT !.loaded = LoadObject(name)]
          PROVE  LoadedInv'
      <3> DEFINE new == [i \in DOMAIN disk[name] |-> LoadSection(disk[name][i])]
      <3>1. opts'.loaded = Append(opts.loaded, new) /\ DOMAIN opts' = DOMAIN opts
        BY <2>3 DEF LoadedInv, LoadObject
      <3>2. \A s \in DOMAIN new : Fresh(new[s])
        BY LoadIs DEF ObjectFiles, IsSeq, Fresh, Has
      <3>3. IsSeq(new)
        BY UpdateSeq DEF ObjectFiles, IsSeq
      <3> HIDE DEF new
      <3> QED BY <3>1, <3>2, <3>3, AppendIs DEF LoadedInv
    <2> QED BY <2>1, <2>2, <2>3
  <1>2. CASE DeclareNext
    <2> DEFINE c == opts.constants[opts.declared + 1]
               new == DeclareConstant(opts.loaded[1][1], c[1], c[2], "GLOBAL")
    <2>1. opts'.loaded = [opts.loaded EXCEPT ![1][1] = new] /\ DOMAIN opts' = DOMAIN opts
      BY <1>2 DEF DeclareNext, LoadedInv
    <2>2. 1 \in DOMAIN opts.loaded /\ 1 \in DOMAIN opts.loaded[1] => Fresh(new)
      BY FlagKeeps, PlaceKeeps DEF DeclareConstant, LoadedInv, Fresh, Has
    <2> HIDE DEF new
    <2>3. IsSeq(opts'.loaded)
      <3>1. opts'.loaded = [o \in DOMAIN opts.loaded |-> opts'.loaded[o]]
        BY <2>1
      <3> QED BY <3>1, UpdateSeq DEF LoadedInv
    <2>4. \A o \in DOMAIN opts.loaded : IsSeq(opts'.loaded[o])
      <3> SUFFICES ASSUME NEW o \in DOMAIN opts.loaded PROVE IsSeq(opts'.loaded[o])
        OBVIOUS
      <3>1. opts'.loaded[o] = [s \in DOMAIN opts.loaded[o] |-> opts'.loaded[o][s]] \/ opts'.loaded[o] = opts.loaded[o]
        BY <2>1
      <3> QED BY <3>1, UpdateSeq DEF LoadedInv
    <2> QED BY <2>1, <2>2, <2>3, <2>4 DEF LoadedInv
  <1>3. CASE ResolveOne
    <2>1. opts'.loaded = opts.loaded /\ DOMAIN opts' = DOMAIN opts
      BY <1>3 DEF ResolveOne, LoadedInv
    <2> QED BY <2>1 DEF LoadedInv
  <1>4. CASE UNCHANGED opts
    BY <1>4 DEF LoadedInv
  <1> QED BY <1>1, <1>2, <1>3, <1>4 DEF LinkNext, Link, PassSymbol, SectionResolved, ResolveCdtor,
          Unresolved, Populate, AssignAll, SizeAll, Save, linkvars

\* The versions of the executable before and after a pass over some sections.
ExeRelaxed == /\ DOMAIN exe' = DOMAIN exe
              /\ \A o \in DOMAIN exe :
                    /\ exe'[o] = [s \in DOMAIN exe[o] |-> exe'[o][s]]
                    /\ \A s \in DOMAIN exe[o] : Relaxed(exe[o][s], exe'[o][s])

\* Nothing has to change.
LEMMA RelaxedSame == ASSUME NEW sect, Loaded(sect) PROVE Relaxed(sect, sect)
  <1>1. ASSUME NEW i \in DOMAIN sect.symbols, ~Has(sect.symbols[i], "ALIGN")
        PROVE  sect.symbols[i].size \in sect.symbols[i].size .. 6
    BY <1>1 DEF Loaded, SectOK, SizeOK
  <1> QED BY <1>1 DEF Relaxed

\* Sizing the sections of the map is a pass of the relaxation.
LEMMA SizedRelaxes ==
  ASSUME ExeOK, NEW places, exe' = Sized(places)
  PROVE  ExeRelaxed
  <1>1. /\ DOMAIN exe' = DOMAIN exe
        /\ \A o \in DOMAIN exe :
              /\ exe'[o] = [s \in DOMAIN exe[o] |-> exe'[o][s]]
              /\ \A s \in DOMAIN exe[o] : \/ exe'[o][s] = exe[o][s]
                                          \/ exe'[o][s] = SizesFor(<<o, s>>)
    BY DEF Sized
  <1>2. ASSUME NEW o \in DOMAIN exe, NEW s \in DOMAIN exe[o]
        PROVE  Relaxed(exe[o][s], exe[o][s]) /\ Relaxed(exe[o][s], SizesFor(<<o, s>>))
    <2>1. Loaded(exe[o][s])
      BY DEF ExeOK
    <2>2. At(<<o, s>>) = exe[o][s]
      BY DEF At
    <2> QED BY <2>1, <2>2, RelaxedSame, SizingRelaxes DEF SizesFor
  <1> QED BY <1>1, <1>2 DEF ExeRelaxed

\* So is giving them their addresses.
LEMMA AssignedRelaxes ==
  ASSUME ExeOK, AssignAll
  PROVE  ExeRelaxed
  <1>1. ASSUME NEW o \in DOMAIN exe, NEW s \in DOMAIN exe[o]
        PROVE  /\ Relaxed(exe[o][s], exe[o][s])
               /\ \A base : Relaxed(exe[o][s], AssignAddresses(exe[o][s], base))
    BY RelaxedSame, AssigningRelaxes DEF ExeOK
  <1>2. CASE UNCHANGED exe
    <2>1. \A o \in DOMAIN exe : exe[o] = [s \in DOMAIN exe[o] |-> exe[o][s]]
      BY SeqIsFunction DEF ExeOK
    <2> QED BY <1>1, <1>2, <2>1 DEF ExeRelaxed
  <1>3. CASE exe' # exe
    <2> DEFINE base == Bases
               k(o, s) == CHOOSE k \in DOMAIN entries : entries[k] = <<o, s>>
    <2>1. exe' = [o \in DOMAIN exe |-> [s \in DOMAIN exe[o] |->
                    IF <<o, s>> \in Range(entries)
                    THEN AssignAddresses(At(entries[k(o, s)]), base[k(o, s)])
                    ELSE exe[o][s]]]
      BY <1>3 DEF AssignAll
    <2>2. ASSUME NEW o \in DOMAIN exe, NEW s \in DOMAIN exe[o], <<o, s>> \in Range(entries)
          PROVE  At(entries[k(o, s)]) = exe[o][s]
      <3>1. \E n \in DOMAIN entries : entries[n] = <<o, s>>
        BY <2>2 DEF Range
      <3>2. entries[k(o, s)] = <<o, s>>
        BY <3>1
      <3> QED BY <3>2 DEF At
    <2> HIDE DEF base, k
    <2>3. /\ DOMAIN exe' = DOMAIN exe
          /\ \A o \in DOMAIN exe :
                /\ exe'[o] = [s \in DOMAIN exe[o] |-> exe'[o][s]]
                /\ \A s \in DOMAIN exe[o] :
                      \/ exe'[o][s] = exe[o][s]
                      \/ exe'[o][s] = AssignAddresses(exe[o][s], base[k(o, s)])
      BY <2>1, <2>2
    <2> QED BY <1>1, <2>3 DEF ExeRelaxed
  <1> QED BY <1>2, <1>3

\* Two versions of a symbol with the same numbers in them.
Numbered(new, old) == /\ new.cursor = old.cursor /\ new.offset = old.offset
                      /\ new.address = old.address /\ new.size = old.size

\* The executable in which one reference has been resolved as r and one section been
\* touched (at and t are None where there is none).
ExeResolved(at, r, t) ==
    /\ DOMAIN exe' = DOMAIN exe
    /\ \A o \in DOMAIN exe :
          /\ exe'[o] = [s \in DOMAIN exe[o] |-> exe'[o][s]]
          /\ \A s \in DOMAIN exe[o] :
                /\ Loaded(exe'[o][s])
                /\ exe'[o][s].id = exe[o][s].id /\ exe'[o][s].cursor = exe[o][s].cursor
                /\ exe'[o][s].flags = exe[o][s].flags \cup (IF <<o, s>> = t THEN {"TOUCHED"} ELSE {})
                /\ DOMAIN exe'[o][s].symbols = DOMAIN exe[o][s].symbols
                /\ \A i \in DOMAIN exe[o][s].symbols :
                      /\ exe'[o][s].symbols[i].id = exe[o][s].symbols[i].id
                      /\ exe'[o][s].symbols[i].flags = exe[o][s].symbols[i].flags
                      /\ exe'[o][s].symbols[i].resolve =
                            IF <<o, s, i>> = at THEN r ELSE exe[o][s].symbols[i].resolve
                      /\ Numbered(exe'[o][s].symbols[i], exe[o][s].symbols[i])

\* A section in which a symbol has been given a meaning is still one.
Meaning(sect, c, r) == [sect EXCEPT !.symbols[c].resolve = r]

\* It keeps everything else.
LEMMA MeaningKeeps ==
  ASSUME NEW sect, Loaded(sect), NEW c, NEW r, NEW new, new = Meaning(sect, c, r)
  PROVE  /\ Loaded(new) /\ new.id = sect.id /\ new.flags = sect.flags /\ new.cursor = sect.cursor
         /\ DOMAIN new.symbols = DOMAIN sect.symbols
         /\ \A i \in DOMAIN sect.symbols :
               /\ new.symbols[i].id = sect.symbols[i].id /\ new.symbols[i].flags = sect.symbols[i].flags
               /\ new.symbols[i].resolve = IF i = c THEN r ELSE sect.symbols[i].resolve
               /\ Numbered(new.symbols[i], sect.symbols[i])
  <1>1. /\ {"id", "flags", "symbols", "cursor", "address", "offset"} \subseteq DOMAIN new
        /\ new.symbols = [sect.symbols EXCEPT ![c].resolve = r]
        /\ new.id = sect.id /\ new.flags = sect.flags /\ new.cursor = sect.cursor
    BY DEF Loaded, SectOK, Meaning
  <1>2. new.symbols = [i \in DOMAIN sect.symbols |-> new.symbols[i]]
    BY <1>1
  <1>3. ASSUME NEW i \in DOMAIN sect.symbols
        PROVE  /\ SizeOK(new.symbols[i])
               /\ new.symbols[i].id = sect.symbols[i].id /\ new.symbols[i].flags = sect.symbols[i].flags
               /\ new.symbols[i].resolve = IF i = c THEN r ELSE sect.symbols[i].resolve
               /\ Numbered(new.symbols[i], sect.symbols[i])
    <2>1. SizeOK(sect.symbols[i])
      BY DEF Loaded, SectOK
    <2>2. CASE i # c
      BY <1>1, <2>1, <2>2 DEF Numbered
    <2>3. CASE i = c
      <3>1. new.symbols[i] = [sect.symbols[i] EXCEPT !.resolve = r]
        BY <1>1, <2>3
      <3> QED BY <2>1, <2>3, <3>1 DEF SizeOK, Has, Numbered
    <2> QED BY <2>2, <2>3
  <1>4. IsSeq(new.symbols)
    BY <1>2, UpdateSeq DEF Loaded
  <1>5. DOMAIN new.symbols = DOMAIN sect.symbols
    BY <1>2
  <1> HIDE DEF SizeOK
  <1> QED BY <1>1, <1>3, <1>4, <1>5 DEF Loaded, SectOK

\* So does touching it.
LEMMA TouchedKeeps ==
  ASSUME NEW sect, Loaded(sect)
  PROVE  /\ Loaded(Touched(sect)) /\ Touched(sect).id = sect.id /\ Touched(sect).cursor = sect.cursor
         /\ Touched(sect).flags = sect.flags \cup {"TOUCHED"}
         /\ Touched(sect).symbols = sect.symbols
  BY DEF Loaded, SectOK, Touched

\* What resolving a reference does to the executable.
LEMMA ResolveOneIs ==
  ASSUME ExeOK, ResolveOne
  PROVE  LET r == Resolution(frame.place, symbols[frame.next].id).symbol
         IN  \/ UNCHANGED exe /\ phase' = "failed"
             \/ ExeResolved(<<frame.place[1], frame.place[2], frame.next>>, r,
                            IF r = None \/ Has(At(SectionOf(r)), "TOUCHED") THEN None ELSE SectionOf(r))
  <1> DEFINE a == frame.place[1]
             b == frame.place[2]
             c == frame.next
             r == Resolution(frame.place, symbols[frame.next].id).symbol
             t == IF r = None \/ Has(At(SectionOf(r)), "TOUCHED") THEN None ELSE SectionOf(r)
             linked == [exe EXCEPT ![a][b].symbols[c].resolve = r]
  <1>1. \/ UNCHANGED exe /\ phase' = "failed"
        \/ t = None /\ exe' = linked
        \/ t = SectionOf(r) /\ exe' = [linked EXCEPT ![r[1]][r[2]] = Touched(@)]
    BY DEF ResolveOne, SectionOf
  <1> HIDE DEF a, b, c, r, t
  <1>2. /\ DOMAIN linked = DOMAIN exe
        /\ \A o \in DOMAIN exe : linked[o] = [s \in DOMAIN exe[o] |-> linked[o][s]]
    <2> SUFFICES ASSUME NEW o \in DOMAIN exe PROVE linked[o] = [s \in DOMAIN exe[o] |-> linked[o][s]]
      OBVIOUS
    <2>1. exe[o] = [s \in DOMAIN exe[o] |-> exe[o][s]]
      BY SeqIsFunction DEF ExeOK
    <2>2. CASE o = a
      <3>1. linked[o] = [exe[o] EXCEPT ![b].symbols[c].resolve = r]
        BY <2>2
      <3> QED BY <3>1
    <2>3. CASE o # a
      <3>1. linked[o] = exe[o]
        BY <2>3
      <3> QED BY <2>1, <3>1
    <2> QED BY <2>2, <2>3
  <1>3. ASSUME NEW o \in DOMAIN exe, NEW s \in DOMAIN exe[o]
        PROVE  /\ Loaded(linked[o][s])
               /\ linked[o][s].id = exe[o][s].id /\ linked[o][s].flags = exe[o][s].flags
               /\ linked[o][s].cursor = exe[o][s].cursor
               /\ DOMAIN linked[o][s].symbols = DOMAIN exe[o][s].symbols
               /\ \A i \in DOMAIN exe[o][s].symbols :
                     /\ linked[o][s].symbols[i].id = exe[o][s].symbols[i].id
                     /\ linked[o][s].symbols[i].flags = exe[o][s].symbols[i].flags
                     /\ linked[o][s].symbols[i].resolve =
                           IF <<o, s, i>> = <<a, b, c>> THEN r ELSE exe[o][s].symbols[i].resolve
                     /\ Numbered(linked[o][s].symbols[i], exe[o][s].symbols[i])
    <2>1. Loaded(exe[o][s])
      BY DEF ExeOK
    <2>2. CASE ~(o = a /\ s = b)
      <3>1. linked[o][s] = exe[o][s]
        BY <2>2
      <3> QED BY <2>1, <2>2, <3>1 DEF Numbered
    <2>3. CASE o = a /\ s = b
      <3>1. linked[o][s] = [exe[o][s] EXCEPT !.symbols[c].resolve = r]
        BY <2>3
      <3>2. \A i : <<o, s, i>> = <<a, b, c>> <=> i = c
        BY <2>3
      <3> DEFINE sect == exe[o][s]
                 new == linked[o][s]
      <3>3. Loaded(sect) /\ new = Meaning(sect, c, r)
        BY <2>1, <3>1 DEF Meaning
      <3> HIDE DEF linked, sect, new
      <3>4. /\ Loaded(new) /\ new.id = sect.id /\ new.flags = sect.flags /\ new.cursor = sect.cursor
            /\ DOMAIN new.symbols = DOMAIN sect.symbols
            /\ \A i \in DOMAIN sect.symbols :
                  /\ new.symbols[i].id = sect.symbols[i].id /\ new.symbols[i].flags = sect.symbols[i].flags
                  /\ new.symbols[i].resolve = IF i = c THEN r ELSE sect.symbols[i].resolve
                  /\ Numbered(new.symbols[i], sect.symbols[i])
        BY <3>3, MeaningKeeps
      <3>5. \A i \in DOMAIN sect.symbols :
               new.symbols[i].resolve = IF <<o, s, i>> = <<a, b, c>> THEN r ELSE sect.symbols[i].resolve
        BY <3>2, <3>4
      <3> QED BY <3>4, <3>5 DEF sect, new
    <2> QED BY <2>2, <2>3
  <1> HIDE DEF linked
  <1>4. CASE t = None /\ exe' = linked
    <2>1. \A o \in DOMAIN exe : \A s \in DOMAIN exe[o] : <<o, s>> # t
      BY <1>4 DEF None
    <2>2. ExeResolved(<<a, b, c>>, r, t)
      BY <1>2, <1>3, <1>4, <2>1 DEF ExeResolved
    <2> QED BY <2>2 DEF a, b, c, r, t
  <1>5. CASE t = SectionOf(r) /\ exe' = [linked EXCEPT ![r[1]][r[2]] = Touched(@)]
    <2>1. /\ DOMAIN exe' = DOMAIN exe
          /\ \A o \in DOMAIN exe : exe'[o] = [s \in DOMAIN exe[o] |-> exe'[o][s]]
      <3> SUFFICES ASSUME NEW o \in DOMAIN exe PROVE exe'[o] = [s \in DOMAIN exe[o] |-> exe'[o][s]]
        BY <1>2, <1>5
      <3>1. CASE o = r[1]
        <4>1. exe'[o] = [linked[o] EXCEPT ![r[2]] = Touched(@)]
          BY <1>2, <1>5, <3>1
        <4> QED BY <1>2, <4>1
      <3>2. CASE o # r[1]
        <4>1. exe'[o] = linked[o]
          BY <1>2, <1>5, <3>2
        <4> QED BY <1>2, <4>1
      <3> QED BY <3>1, <3>2
    <2>2. ASSUME NEW o \in DOMAIN exe, NEW s \in DOMAIN exe[o]
          PROVE  exe'[o][s] = IF <<o, s>> = t THEN Touched(linked[o][s]) ELSE linked[o][s]
      <3>1. s \in DOMAIN linked[o] /\ o \in DOMAIN linked
        BY <1>2
      <3>2. <<o, s>> = t <=> o = r[1] /\ s = r[2]
        BY <1>5 DEF SectionOf
      <3> QED BY <1>5, <3>1, <3>2
    <2>3. ASSUME NEW o \in DOMAIN exe, NEW s \in DOMAIN exe[o]
          PROVE  /\ Loaded(exe'[o][s])
                 /\ exe'[o][s].id = linked[o][s].id /\ exe'[o][s].cursor = linked[o][s].cursor
                 /\ exe'[o][s].flags = linked[o][s].flags \cup (IF <<o, s>> = t THEN {"TOUCHED"} ELSE {})
                 /\ exe'[o][s].symbols = linked[o][s].symbols
      <3>1. Loaded(linked[o][s])
        BY <1>3
      <3> QED BY <2>2, <3>1, TouchedKeeps
    <2>4. ExeResolved(<<a, b, c>>, r, t)
      BY <1>3, <2>1, <2>3 DEF ExeResolved
    <2> QED BY <2>4 DEF a, b, c, r, t
  <1> QED BY <1>1, <1>4, <1>5

\* What looking at a section with constructors does to it.
LEMMA ResolveCdtorIs ==
  ASSUME ExeOK, ResolveCdtor
  PROVE  \/ UNCHANGED <<exe, stack>>
         \/ /\ ExeResolved(None, None, <<First(cdtor)[1], First(cdtor)[2]>>)
            /\ stack' = <<[place |-> First(cdtor), next |-> 1]>>
  <1> DEFINE p == First(cdtor)
             t == <<p[1], p[2]>>
  <1>1. \/ UNCHANGED <<exe, stack>>
        \/ exe' = [exe EXCEPT ![p[1]][p[2]] = Touched(At(p))] /\ stack' = <<[place |-> p, next |-> 1]>>
    BY DEF ResolveCdtor, Replaced
  <1> HIDE DEF p
  <1>2. ASSUME exe' = [exe EXCEPT ![p[1]][p[2]] = Touched(At(p))] PROVE ExeResolved(None, None, t)
    <2>1. /\ DOMAIN exe' = DOMAIN exe
          /\ \A o \in DOMAIN exe : exe'[o] = [s \in DOMAIN exe[o] |-> exe'[o][s]]
      <3> SUFFICES ASSUME NEW o \in DOMAIN exe PROVE exe'[o] = [s \in DOMAIN exe[o] |-> exe'[o][s]]
        BY <1>2
      <3>1. exe[o] = [s \in DOMAIN exe[o] |-> exe[o][s]]
        BY SeqIsFunction DEF ExeOK
      <3>2. CASE o = p[1]
        <4>1. exe'[o] = [exe[o] EXCEPT ![p[2]] = Touched(At(p))]
          BY <1>2, <3>2
        <4> QED BY <3>1, <4>1
      <3>3. CASE o # p[1]
        <4>1. exe'[o] = exe[o]
          BY <1>2, <3>3
        <4> QED BY <3>1, <4>1
      <3> QED BY <3>2, <3>3
    <2>2. ASSUME NEW o \in DOMAIN exe, NEW s \in DOMAIN exe[o]
          PROVE  exe'[o][s] = IF <<o, s>> = t THEN Touched(exe[o][s]) ELSE exe[o][s]
      BY <1>2 DEF At
    <2>3. ASSUME NEW o \in DOMAIN exe, NEW s \in DOMAIN exe[o]
          PROVE  /\ Loaded(exe'[o][s])
                 /\ exe'[o][s].id = exe[o][s].id /\ exe'[o][s].cursor = exe[o][s].cursor
                 /\ exe'[o][s].flags = exe[o][s].flags \cup (IF <<o, s>> = t THEN {"TOUCHED"} ELSE {})
                 /\ exe'[o][s].symbols = exe[o][s].symbols
      <3>1. Loaded(exe[o][s])
        BY DEF ExeOK
      <3> QED BY <2>2, <3>1, TouchedKeeps
    <2>4. \A o \in DOMAIN exe : \A s \in DOMAIN exe[o] : \A i \in DOMAIN exe[o][s].symbols : <<o, s, i>> # None
      BY DEF None
    <2> QED BY <2>1, <2>3, <2>4 DEF ExeResolved, Numbered
  <1> QED BY <1>1, <1>2 DEF p

\* Both leave the executable what it is.
LEMMA ResolvedOK ==
  ASSUME ExeOK, NEW at, NEW r, NEW t, ExeResolved(at, r, t)
  PROVE  ExeOK'
  <1>1. \E n \in Nat : DOMAIN exe' = 0 .. n
    BY DEF ExeOK, ExeResolved
  <1>2. ASSUME NEW o \in DOMAIN exe
        PROVE  IsSeq(exe'[o]) /\ DOMAIN exe'[o] = DOMAIN exe[o]
    BY UpdateSeq DEF ExeOK, ExeResolved
  <1> QED BY <1>1, <1>2 DEF ExeOK, ExeResolved

\* A pass of the relaxation keeps the executable as it has to be.
LEMMA RelaxedOK ==
  ASSUME ExeOK, ExeRelaxed
  PROVE  ExeOK'
  <1>1. \E n \in Nat : DOMAIN exe' = 0 .. n
    BY DEF ExeOK, ExeRelaxed
  <1>2. ASSUME NEW o \in DOMAIN exe
        PROVE  IsSeq(exe'[o]) /\ DOMAIN exe'[o] = DOMAIN exe[o]
    BY UpdateSeq DEF ExeOK, ExeRelaxed
  <1> QED BY <1>1, <1>2 DEF ExeOK, ExeRelaxed, Relaxed

\* What linking begins with.
LEMMA LinkIs ==
  ASSUME LoadedInv, Link
  PROVE  /\ ExeOK' /\ exe'[0] = SectionMap(opts.reloc) /\ 0 \in DOMAIN exe'
         /\ 1 \in DOMAIN exe' /\ DOMAIN exe'[1] = DOMAIN opts.loaded[1]
         /\ \A o \in DOMAIN exe' : \A s \in DOMAIN exe'[o] :
               o = 0 \/ (o \in DOMAIN opts.loaded /\ s \in DOMAIN opts.loaded[o] /\
                  exe'[o][s] = IF o = 1 /\ s = 1 THEN Touched(opts.loaded[o][s]) ELSE opts.loaded[o][s])
  <1>1. opts.loaded # <<>> /\ Len(opts.loaded) \in Nat /\ DOMAIN opts.loaded = 1 .. Len(opts.loaded)
    BY SeqIsFunction DEF LoadedInv, Link
  <1>2. Len(opts.loaded) # 0
    <2>1. PICK S : opts.loaded \in Seq(S)
      BY DEF LoadedInv, IsSeq
    <2> QED BY <1>1, <2>1
  <1>3. /\ DOMAIN exe' = 0 .. Len(opts.loaded)
        /\ exe'[0] = SectionMap(opts.reloc)
        /\ \A o \in 1 .. Len(opts.loaded) :
              exe'[o] = IF o = 1 /\ opts.loaded[1] # <<>> THEN [opts.loaded[1] EXCEPT ![1] = Touched(@)]
                       ELSE opts.loaded[o]
    BY <1>1 DEF Link
  <1>4. ASSUME NEW o \in 1 .. Len(opts.loaded)
        PROVE  /\ exe'[o] = [s \in DOMAIN opts.loaded[o] |-> exe'[o][s]]
               /\ \A s \in DOMAIN opts.loaded[o] :
                     exe'[o][s] = IF o = 1 /\ s = 1 THEN Touched(opts.loaded[o][s]) ELSE opts.loaded[o][s]
    <2>1. opts.loaded[o] = [s \in DOMAIN opts.loaded[o] |-> opts.loaded[o][s]]
      BY <1>1, SeqIsFunction DEF LoadedInv
    <2>2. CASE o = 1
      <3>1. exe'[o] = [opts.loaded[o] EXCEPT ![1] = Touched(@)]
        BY <1>3, <2>2
      <3> QED BY <2>1, <2>2, <3>1
    <2>3. CASE o # 1
      <3>1. exe'[o] = opts.loaded[o]
        BY <1>3, <2>3
      <3> QED BY <2>1, <2>3, <3>1
    <2> QED BY <2>2, <2>3
  <1>5. ASSUME NEW o \in 1 .. Len(opts.loaded)
        PROVE  IsSeq(exe'[o]) /\ \A s \in DOMAIN exe'[o] : s \in DOMAIN opts.loaded[o] /\ Loaded(exe'[o][s])
    <2>1. IsSeq(exe'[o])
      BY <1>1, <1>4, UpdateSeq DEF LoadedInv
    <2>2. \A s \in DOMAIN opts.loaded[o] : Loaded(opts.loaded[o][s])
      BY <1>1 DEF LoadedInv, Fresh
    <2>3. ASSUME NEW s \in DOMAIN opts.loaded[o] PROVE Loaded(exe'[o][s])
      <3>1. exe'[o][s] = Touched(opts.loaded[o][s]) \/ exe'[o][s] = opts.loaded[o][s]
        BY <1>4
      <3> QED BY <2>2, <3>1, TouchedKeeps
    <2>4. DOMAIN exe'[o] = DOMAIN opts.loaded[o]
      BY <1>4
    <2> QED BY <2>1, <2>3, <2>4
  <1>6. IsSeq(exe'[0]) /\ \A s \in DOMAIN exe'[0] : Loaded(exe'[0][s])
    BY <1>3, SectionMapIs DEF Fresh
  <1>7. ExeOK'
    BY <1>1, <1>3, <1>5, <1>6 DEF ExeOK
  <1>8. DOMAIN exe'[1] = DOMAIN opts.loaded[1]
    <2>1. 1 \in 1 .. Len(opts.loaded)
      BY <1>1, <1>2
    <2> QED BY <1>4, <2>1
  <1>9. 0 \in DOMAIN exe' /\ 1 \in DOMAIN exe'
    BY <1>1, <1>2, <1>3
  <1>10. ASSUME NEW o \in DOMAIN exe', NEW s \in DOMAIN exe'[o], o # 0
         PROVE  /\ o \in DOMAIN opts.loaded /\ s \in DOMAIN opts.loaded[o]
                /\ exe'[o][s] = IF o = 1 /\ s = 1 THEN Touched(opts.loaded[o][s]) ELSE opts.loaded[o][s]
    <2>1. o \in 1 .. Len(opts.loaded)
      BY <1>1, <1>3, <1>10
    <2>2. s \in DOMAIN opts.loaded[o]
      BY <1>5, <2>1
    <2> QED BY <1>1, <1>4, <2>1, <2>2
  <1> QED BY <1>3, <1>7, <1>8, <1>9, <1>10

\* All steps keep the executable what it is.
LEMMA NextExe == LoadedInv /\ ExeOK /\ [LinkNext]_linkvars => ExeOK'
  <1> SUFFICES ASSUME LoadedInv, ExeOK, [LinkNext]_linkvars PROVE ExeOK'
    OBVIOUS
  <1>7. ASSUME UNCHANGED exe PROVE ExeOK'
    BY <1>7 DEF ExeOK
  <1>1. CASE Link
    BY <1>1, LinkIs
  <1>2. CASE ResolveOne
    BY <1>2, <1>7, ResolveOneIs, ResolvedOK
  <1>3. CASE ResolveCdtor
    BY <1>3, <1>7, ResolveCdtorIs, ResolvedOK
  <1>4. CASE Populate
    BY <1>4, RelaxedOK, SizedRelaxes DEF Populate
  <1>5. CASE AssignAll
    BY <1>5, RelaxedOK, AssignedRelaxes
  <1>6. CASE SizeAll
    BY <1>6, RelaxedOK, SizedRelaxes DEF SizeAll
  <1> QED BY <1>1, <1>2, <1>3, <1>4, <1>5, <1>6, <1>7 DEF LinkNext, LinkArgument, DeclareNext, PassSymbol,
          SectionResolved, Unresolved, Save, linkvars

\* Every step of the relaxation lets the sizes only grow.
LEMMA StepGrows ==
  LoadedInv /\ ExeOK /\ [LinkNext]_linkvars
     => [(phase \in {"assign", "size"}) =>
           \A o \in DOMAIN exe : \A s \in DOMAIN exe[o] : \A i \in DOMAIN exe[o][s].symbols :
              Has(exe[o][s].symbols[i], "ALIGN") \/
              exe'[o][s].symbols[i].size \in exe[o][s].symbols[i].size .. 6]_linkvars
  <1> SUFFICES ASSUME LoadedInv, ExeOK, [LinkNext]_linkvars, phase \in {"assign", "size"},
                      NEW o \in DOMAIN exe, NEW s \in DOMAIN exe[o],
                      NEW i \in DOMAIN exe[o][s].symbols, ~Has(exe[o][s].symbols[i], "ALIGN")
               PROVE  exe'[o][s].symbols[i].size \in exe[o][s].symbols[i].size .. 6
    OBVIOUS
  <1>1. ASSUME ExeRelaxed PROVE exe'[o][s].symbols[i].size \in exe[o][s].symbols[i].size .. 6
    BY <1>1 DEF ExeRelaxed, Relaxed
  <1>2. CASE AssignAll
    BY <1>1, <1>2, AssignedRelaxes
  <1>3. CASE SizeAll
    BY <1>1, <1>3, SizedRelaxes DEF SizeAll
  <1>4. CASE UNCHANGED exe
    BY <1>4, RelaxedSame DEF ExeOK, Relaxed
  <1> QED BY <1>2, <1>3, <1>4 DEF LinkNext, LinkArgument, DeclareNext, Link, PassSymbol, ResolveOne,
          SectionResolved, ResolveCdtor, Unresolved, Populate, Save, linkvars

\* For any arguments and object files, no pass of the relaxation makes a reference
\* smaller, or larger than six opcodes.  So each one grows six times at most, and the
\* loop that goes on until nothing has grown comes to an end.
THEOREM RelaxationGrows ==
  ASSUME NEW CONSTANT arguments
  PROVE  LinkSpec(arguments) /\ []ObjectFiles => SizesOnlyGrow
  <1>1. LinkInit(arguments) => LoadedInv /\ ExeOK
    <2>1. <<>> \in Seq({}) /\ DOMAIN <<>> = {}
      OBVIOUS
    <2> QED BY <2>1 DEF LinkInit, LoadedInv, ExeOK, IsSeq
  <1>2. LoadedInv /\ ExeOK /\ ObjectFiles /\ [LinkNext]_linkvars => (LoadedInv /\ ExeOK)'
    BY NextLoaded, NextExe
  <1> QED BY <1>1, <1>2, StepGrows, PTL DEF LinkSpec, SizesOnlyGrow

-----------------------------------------------------------------------------
(***************************************************************************)
(* Nothing that is used is left out of an executable: the search for       *)
(* symbols and the order of the sections.                                  *)
(***************************************************************************)

-----------------------------------------------------------------------------
(* Places and their order.                                                 *)

Places == Builtins \cup Sections

\* The places of the sections.
LEMMA PlacesAre ==
  ASSUME ExeOK
  PROVE  /\ \A p : p \in Places <=> /\ p = <<p[1], p[2]>>
                                    /\ p[1] \in DOMAIN exe /\ p[2] \in DOMAIN exe[p[1]]
         /\ \A o \in DOMAIN exe : \A s \in DOMAIN exe[o] : <<o, s>> \in Places
         /\ \A p \in Places : /\ p[1] \in Nat /\ p[2] \in Nat /\ Loaded(At(p))
                              /\ p \in Builtins <=> p[1] = 0
                              /\ p \in Sections <=> p[1] # 0
  <1>1. PICK n \in Nat : DOMAIN exe = 0 .. n
    BY DEF ExeOK
  <1>2. \A o \in DOMAIN exe : DOMAIN exe[o] \subseteq Nat
    BY SeqIsFunction DEF ExeOK
  <1>3. 0 \in DOMAIN exe /\ DOMAIN exe \subseteq Nat
    BY <1>1
  <1>4. \A p : p \in Builtins <=> p = <<p[1], p[2]>> /\ p[1] = 0 /\ p[2] \in DOMAIN exe[0]
    BY DEF Builtins
  <1>5. \A p : p \in Sections <=> p = <<p[1], p[2]>> /\ p[1] \in DOMAIN exe \ {0} /\ p[2] \in DOMAIN exe[p[1]]
    BY DEF Sections
  <1>6. \A p : p \in Places <=> p = <<p[1], p[2]>> /\ p[1] \in DOMAIN exe /\ p[2] \in DOMAIN exe[p[1]]
    BY <1>3, <1>4, <1>5 DEF Places
  <1>7. \A o \in DOMAIN exe : \A s \in DOMAIN exe[o] : <<o, s>> \in Places
    BY <1>6
  <1>8. ASSUME NEW p \in Places
        PROVE  /\ p[1] \in Nat /\ p[2] \in Nat /\ Loaded(At(p))
               /\ p \in Builtins <=> p[1] = 0
               /\ p \in Sections <=> p[1] # 0
    BY <1>2, <1>3, <1>4, <1>5, <1>6 DEF ExeOK, At
  <1> QED BY <1>6, <1>7, <1>8

\* There are finitely many of them.
LEMMA PlacesFinite == ExeOK => IsFiniteSet(Sections)
  <1> SUFFICES ASSUME ExeOK PROVE IsFiniteSet(Sections)
    OBVIOUS
  <1> DEFINE f == [o \in DOMAIN exe |-> {o} \X DOMAIN exe[o]]
             Files == {f[o] : o \in DOMAIN exe \ {0}}
  <1>1. PICK n \in Nat : DOMAIN exe = 0 .. n
    BY DEF ExeOK
  <1>2. IsFiniteSet(1 .. n) /\ DOMAIN exe \ {0} = 1 .. n
    <2>1. DOMAIN exe \ {0} = 1 .. n
      BY <1>1
    <2>2. IsFiniteSet(1 .. n)
      BY FS_Interval
    <2> QED BY <2>1, <2>2
  <1>3. \A F \in Files : IsFiniteSet(F)
    <2> SUFFICES ASSUME NEW o \in DOMAIN exe PROVE IsFiniteSet({o} \X DOMAIN exe[o])
      OBVIOUS
    <2>1. Len(exe[o]) \in Nat /\ DOMAIN exe[o] = 1 .. Len(exe[o])
      BY SeqIsFunction DEF ExeOK
    <2>2. IsFiniteSet(DOMAIN exe[o])
      BY <2>1, FS_Interval
    <2> QED BY <2>2, FS_Singleton, FS_Product
  <1>4. IsFiniteSet(Files)
    <2> DEFINE g == [o \in 1 .. n |-> f[o]]
    <2>1. g \in [1 .. n -> Files]
      BY <1>2
    <2>2. \A F \in Files : \E o \in 1 .. n : g[o] = F
      BY <1>2
    <2>3. g \in Surjection(1 .. n, Files)
      <3> HIDE DEF g, Files
      <3> QED BY <2>1, <2>2 DEF Surjection
    <2> HIDE DEF g, Files
    <2> QED BY <1>2, <2>3, FS_Surjection
  <1>5. Sections = UNION Files
    BY DEF Sections
  <1> HIDE DEF Files
  <1> QED BY <1>3, <1>4, <1>5, FS_UNION

\* Of some places one comes first and one last.
LEMMA FirstIs ==
  ASSUME ExeOK, NEW S \in SUBSET Places, S # {}
  PROVE  First(S) \in S /\ Latest(S) \in S
  <1>1. \A p \in S : p = <<p[1], p[2]>> /\ p[1] \in Nat /\ p[2] \in Nat
    BY PlacesAre
  <1> DEFINE A == {p[1] : p \in S}
             B(a) == {p[2] : p \in {q \in S : q[1] = a}}
  <1>2. A \in SUBSET Nat /\ A # {} /\ \A a \in A : B(a) \in SUBSET Nat /\ B(a) # {}
    BY <1>1
  <1>3. First(S) \in S
    <2>1. PICK a \in A : \A x \in A : a <= x
      BY <1>2, Least
    <2>2. PICK b \in B(a) : \A x \in B(a) : b <= x
      <3>1. B(a) \in SUBSET Nat /\ B(a) # {}
        BY <1>2, <2>1
      <3> HIDE DEF B
      <3> QED BY <3>1, Least
    <2>3. PICK p \in S : p[1] = a /\ p[2] = b
      BY <2>1, <2>2
    <2>4. \A q \in S : ~Before(q, p)
      BY <1>1, <2>1, <2>2, <2>3 DEF Before
    <2> QED BY <2>4 DEF First
  <1>4. Latest(S) \in S
    <2>1. PICK n \in Nat : DOMAIN exe = 0 .. n
      BY DEF ExeOK
    <2>2. A \in SUBSET (0 .. n)
      BY <2>1, PlacesAre
    <2>3. PICK a \in A : \A x \in A : x <= a
      BY <1>2, <2>2, Greatest
    <2>4. B(a) \in SUBSET (0 .. Len(exe[a])) /\ Len(exe[a]) \in Nat
      <3>1. a \in DOMAIN exe
        BY <2>1, <2>2, <2>3
      <3>2. Len(exe[a]) \in Nat /\ DOMAIN exe[a] = 1 .. Len(exe[a])
        BY <3>1, SeqIsFunction DEF ExeOK
      <3>3. \A p \in S : p[2] \in DOMAIN exe[p[1]]
        BY PlacesAre
      <3> QED BY <3>2, <3>3
    <2>5. PICK b \in B(a) : \A x \in B(a) : x <= b
      <3>1. B(a) # {}
        BY <1>2, <2>3
      <3> HIDE DEF B
      <3> QED BY <2>4, <3>1, Greatest
    <2>6. PICK p \in S : p[1] = a /\ p[2] = b
      BY <2>3, <2>5
    <2>7. \A q \in S : ~Before(p, q)
      BY <1>1, <2>3, <2>5, <2>6 DEF Before
    <2> QED BY <2>7 DEF Latest
  <1> QED BY <1>3, <1>4

-----------------------------------------------------------------------------
(* What the search for a symbol finds.                                     *)

\* The place of a definition of this name.
Defines(r, id) ==
    /\ r # None /\ SectionOf(r) \in Places /\ r[3] \in DOMAIN At(SectionOf(r)).symbols
    /\ ~IsRef(SymbolAt(r)) /\ SymbolAt(r).id = id

\* The first position in a list with some property.
LEMMA SelectIs ==
  ASSUME NEW n \in Nat, NEW I \in SUBSET (1 .. n), I # {}
  PROVE  Min(I) \in I
  <1>1. I \in SUBSET Nat
    OBVIOUS
  <1>2. \E x \in I : \A y \in I : x <= y
    BY <1>1, Least
  <1> QED BY <1>2, Zenon DEF Min

\* What is found in a section is a definition in it.
LEMMA FindIs ==
  ASSUME NEW sect, Loaded(sect), NEW id, FindSymbol(sect, id) # 0
  PROVE  LET i == FindSymbol(sect, id)
         IN  i \in DOMAIN sect.symbols /\ ~IsRef(sect.symbols[i]) /\ sect.symbols[i].id = id
  <1> DEFINE I == {i \in 1 .. Len(sect.symbols) : ~IsRef(sect.symbols[i]) /\ sect.symbols[i].id = id}
  <1>1. Len(sect.symbols) \in Nat /\ DOMAIN sect.symbols = 1 .. Len(sect.symbols)
    BY SeqIsFunction DEF Loaded
  <1>2. FindSymbol(sect, id) = IF I # {} THEN Min(I) ELSE 0
    BY DEF FindSymbol, SelectInSeq
  <1>3. I # {} /\ FindSymbol(sect, id) = Min(I)
    BY <1>2
  <1>4. FindSymbol(sect, id) \in I
    <2> HIDE DEF I
    <2>1. I \in SUBSET (1 .. Len(sect.symbols))
      BY DEF I
    <2> QED BY <1>1, <1>3, <2>1, SelectIs
  <1> QED BY <1>1, <1>4

\* So whoever defines a name among some sections does.
LEMMA DefinerIs ==
  ASSUME ExeOK, NEW S \in SUBSET Places, NEW id, NEW p \in Definers(S, id)
  PROVE  Defines(DefinitionIn(p, id), id)
  <1>1. p \in Places /\ FindSymbol(At(p), id) # 0
    BY DEF Definers
  <1>2. Loaded(At(p)) /\ p = <<p[1], p[2]>>
    BY <1>1, PlacesAre
  <1> DEFINE i == FindSymbol(At(p), id)
  <1>3. i \in DOMAIN At(p).symbols /\ ~IsRef(At(p).symbols[i]) /\ At(p).symbols[i].id = id
    BY <1>1, <1>2, FindIs
  <1> HIDE DEF i
  <1>4. DefinitionIn(p, id) = <<p[1], p[2], i>>
    BY DEF DefinitionIn, i
  <1>5. SectionOf(<<p[1], p[2], i>>) = p /\ SymbolAt(<<p[1], p[2], i>>) = At(p).symbols[i]
    BY <1>2 DEF SectionOf, SymbolAt, At
  <1> QED BY <1>1, <1>3, <1>4, <1>5 DEF Defines, None

\* The search outside a section finds a definition if it finds anything.
LEMMA SearchIs ==
  ASSUME ExeOK, NEW p, NEW id
  PROVE  Search(p, id).symbol = None \/ Defines(Search(p, id).symbol, id)
  <1> DEFINE cands     == Definers(Sections \ {p}, id)
             weak(q)   == Has(SymbolAt(DefinitionIn(q, id)), "WEAK")
             scoped(q) == weak(q) \/ Has(SymbolAt(DefinitionIn(q, id)), "GLOBAL")
             own       == {q \in cands : ~scoped(q) /\ q[1] = p[1]}
             seen      == {q \in cands : scoped(q) /\ \A r \in own : Before(q, r)}
             strong    == {q \in seen : ~weak(q)}
  <1>1. \/ Search(p, id) = Multiple
        \/ own # {} /\ Search(p, id) = Found(DefinitionIn(First(own), id))
        \/ strong # {} /\ Search(p, id) = Found(DefinitionIn(First(strong), id))
        \/ seen # {} /\ Search(p, id) = Found(DefinitionIn(Latest(seen), id))
        \/ Search(p, id) = Found(None)
    BY DEF Search
  <1>2. own \subseteq cands /\ seen \subseteq cands /\ strong \subseteq cands
    OBVIOUS
  <1>3. cands \subseteq Places /\ Sections \ {p} \in SUBSET Places
    BY DEF Definers, Places
  <1> HIDE DEF own, seen, strong
  <1>4. ASSUME NEW S, S \subseteq cands, S # {}
        PROVE  /\ Defines(DefinitionIn(First(S), id), id)
               /\ Defines(DefinitionIn(Latest(S), id), id)
    <2>1. First(S) \in cands /\ Latest(S) \in cands
      BY <1>3, <1>4, FirstIs
    <2> QED BY <1>3, <2>1, DefinerIs
  <1>5. \A r : Found(r).symbol = r
    BY DEF Found
  <1>6. Multiple.symbol = None
    BY DEF Multiple
  <1> HIDE DEF cands
  <1> QED BY <1>1, <1>2, <1>4, <1>5, <1>6

\* So does the whole resolution of a reference.
LEMMA ResolutionIs ==
  ASSUME ExeOK, NEW p, NEW id
  PROVE  Resolution(p, id).symbol = None \/ Defines(Resolution(p, id).symbol, id)
  <1> DEFINE builtin == Definers(Builtins, id)
             mine    == {q \in Sections : q[1] = p[1]}
             own     == Definers(mine, id)
  <1>1. Builtins \in SUBSET Places /\ mine \in SUBSET Places
    BY DEF Places
  <1>2. \A r : Found(r).symbol = r
    BY DEF Found
  <1>3. ASSUME NEW S \in SUBSET Places, Definers(S, id) # {}
        PROVE  Defines(DefinitionIn(First(Definers(S, id)), id), id)
    <2>1. Definers(S, id) \in SUBSET Places
      BY DEF Definers
    <2>2. First(Definers(S, id)) \in Definers(S, id)
      BY <1>3, <2>1, FirstIs
    <2> QED BY <2>2, DefinerIs
  <1>4. ResolveReference(p, id).symbol = None \/ Defines(ResolveReference(p, id).symbol, id)
    BY <1>1, <1>2, <1>3, SearchIs DEF ResolveReference
  <1>5. \/ own # {} /\ Resolution(p, id) = Found(DefinitionIn(First(own), id))
        \/ Resolution(p, id) = ResolveReference(p, id)
    BY DEF Resolution
  <1> HIDE DEF mine
  <1> QED BY <1>1, <1>2, <1>3, <1>4, <1>5

-----------------------------------------------------------------------------
(* What stays when references are resolved and sized.                      *)

\* The executable has kept its shape, and at most the section t has been touched.
Shaped(t) ==
    /\ DOMAIN exe' = DOMAIN exe
    /\ \A o \in DOMAIN exe :
          /\ DOMAIN exe'[o] = DOMAIN exe[o]
          /\ \A s \in DOMAIN exe[o] :
                /\ exe'[o][s].id = exe[o][s].id
                /\ exe'[o][s].flags = exe[o][s].flags \cup (IF <<o, s>> = t THEN {"TOUCHED"} ELSE {})
                /\ DOMAIN exe'[o][s].symbols = DOMAIN exe[o][s].symbols
                /\ \A i \in DOMAIN exe[o][s].symbols :
                      /\ exe'[o][s].symbols[i].id = exe[o][s].symbols[i].id
                      /\ exe'[o][s].symbols[i].flags = exe[o][s].symbols[i].flags

\* It does when a reference is resolved, and when references are sized.
LEMMA ResolvedShape ==
  ASSUME NEW at, NEW r, NEW t, ExeResolved(at, r, t)
  PROVE  Shaped(t)
  <1>1. \A o \in DOMAIN exe : DOMAIN exe'[o] = DOMAIN exe[o]
    BY DEF ExeResolved
  <1> QED BY <1>1 DEF ExeResolved, Shaped

\* So does a pass of the relaxation,
LEMMA RelaxedShape ==
  ASSUME ExeRelaxed
  PROVE  Shaped(None)
  <1>1. \A o \in DOMAIN exe : DOMAIN exe'[o] = DOMAIN exe[o]
    BY DEF ExeRelaxed
  <1>2. \A o, s : <<o, s>> # None
    BY DEF None
  <1> QED BY <1>1, <1>2 DEF ExeRelaxed, Relaxed, Shaped

\* and a step that leaves the executable alone.
LEMMA SameShape ==
  ASSUME UNCHANGED exe
  PROVE  Shaped(None)
  <1>1. \A o, s : <<o, s>> # None
    BY DEF None
  <1> QED BY <1>1 DEF Shaped

\* The places stay, their kinds do, and what is kept stays kept.
LEMMA ShapeKeeps ==
  ASSUME ExeOK, NEW t, Shaped(t)
  PROVE  /\ Builtins' = Builtins /\ Sections' = Sections /\ Places' = Places
         /\ \A p \in Places :
               /\ At(p)'.id = At(p).id /\ Kind(p)' = Kind(p)
               /\ At(p)'.flags = At(p).flags \cup (IF p = t THEN {"TOUCHED"} ELSE {})
               /\ DOMAIN At(p)'.symbols = DOMAIN At(p).symbols
               /\ \A i \in DOMAIN At(p).symbols :
                     /\ At(p)'.symbols[i].id = At(p).symbols[i].id
                     /\ At(p)'.symbols[i].flags = At(p).symbols[i].flags
         /\ \A p : p \in Kept' <=> p \in Kept \/ (p \in Places /\ p = t)
  <1>1. 0 \in DOMAIN exe
    BY DEF ExeOK
  <1>2. Builtins' = Builtins
    BY <1>1 DEF Shaped, Builtins
  <1>3. Sections' = Sections
    <2>1. \A o \in DOMAIN exe : {o} \X DOMAIN exe'[o] = {o} \X DOMAIN exe[o]
      BY DEF Shaped
    <2> QED BY <2>1 DEF Sections, Shaped
  <1>4. Places' = Places
    BY <1>2, <1>3 DEF Places
  <1>5. ASSUME NEW p \in Places
        PROVE  /\ At(p)'.id = At(p).id /\ Kind(p)' = Kind(p)
               /\ At(p)'.flags = At(p).flags \cup (IF p = t THEN {"TOUCHED"} ELSE {})
               /\ DOMAIN At(p)'.symbols = DOMAIN At(p).symbols
               /\ \A i \in DOMAIN At(p).symbols :
                     /\ At(p)'.symbols[i].id = At(p).symbols[i].id
                     /\ At(p)'.symbols[i].flags = At(p).symbols[i].flags
    <2>1. p = <<p[1], p[2]>> /\ p[1] \in DOMAIN exe /\ p[2] \in DOMAIN exe[p[1]]
      BY PlacesAre
    <2>2. /\ At(p)'.id = At(p).id
          /\ At(p)'.flags = At(p).flags \cup (IF p = t THEN {"TOUCHED"} ELSE {})
          /\ DOMAIN At(p)'.symbols = DOMAIN At(p).symbols
          /\ \A i \in DOMAIN At(p).symbols :
                /\ At(p)'.symbols[i].id = At(p).symbols[i].id
                /\ At(p)'.symbols[i].flags = At(p).symbols[i].flags
      BY <2>1 DEF Shaped, At
    <2>3. Kind(p)' = Kind(p)
      BY <2>2 DEF Kind
    <2> QED BY <2>2, <2>3
  <1>6. ASSUME NEW p PROVE p \in Kept' <=> p \in Kept \/ (p \in Places /\ p = t)
    <2>1. p \in Kept <=> p \in Places /\ "TOUCHED" \in At(p).flags
      BY DEF Kept, Has, Places
    <2>2. p \in Kept' <=> p \in Places' /\ "TOUCHED" \in At(p)'.flags
      BY DEF Kept, Has, Places
    <2> QED BY <1>4, <1>5, <2>1, <2>2
  <1> QED BY <1>2, <1>3, <1>4, <1>5, <1>6

\* So a definition stays one.
LEMMA DefinesStays ==
  ASSUME ExeOK, NEW t, Shaped(t), NEW r, NEW id, Defines(r, id)
  PROVE  Defines(r, id)'
  <1> DEFINE p == SectionOf(r)
  <1>1. r # None /\ p \in Places /\ r[3] \in DOMAIN At(p).symbols
    BY DEF Defines
  <1>2. SymbolAt(r) = At(p).symbols[r[3]] /\ SymbolAt(r)' = At(p)'.symbols[r[3]]
    BY DEF SymbolAt, At, SectionOf
  <1>3. ~IsRef(SymbolAt(r)) /\ SymbolAt(r).id = id
    BY DEF Defines
  <1> HIDE DEF p
  <1>4. /\ p \in Places' /\ r[3] \in DOMAIN At(p)'.symbols
        /\ At(p)'.symbols[r[3]].id = At(p).symbols[r[3]].id
        /\ At(p)'.symbols[r[3]].flags = At(p).symbols[r[3]].flags
    BY <1>1, ShapeKeeps
  <1>5. ~IsRef(SymbolAt(r)') /\ SymbolAt(r)'.id = id
    BY <1>2, <1>3, <1>4 DEF IsRef
  <1> QED BY <1>1, <1>4, <1>5 DEF Defines, p, SectionOf

\* What it is to mean something that is kept.
LEMMA MeansKeptIs ==
  ASSUME NEW ref
  PROVE  MeansKept(ref) <=> Defines(ref.resolve, ref.id) /\ SectionOf(ref.resolve) \in Kept
  BY DEF MeansKept, Defines, Kept, Places

-----------------------------------------------------------------------------
(* The closure.                                                            *)

\* The references of the section p from the i-th symbol on are still to be resolved.
Pending(p, i) == \E k \in DOMAIN stack : stack[k].place = p /\ stack[k].next <= i

\* The sections on the stack are kept.
StackOK ==
    /\ IsSeq(stack)
    /\ \A k \in DOMAIN stack : /\ stack[k] = [place |-> stack[k].place, next |-> stack[k].next]
                               /\ stack[k].place \in Kept /\ stack[k].next \in Nat \ {0}

\* A reference of a section that is kept means something kept, now or later.
Settled(i, ref, p) ==
    Resolvable(ref) => MeansKept(ref) \/ Pending(p, i) \/ opts.unresolved

Closing == \A p \in Kept : \A i \in DOMAIN At(p).symbols : Settled(i, At(p).symbols[i], p)

Closed == \A p \in Kept : \A i \in DOMAIN At(p).symbols :
             Resolvable(At(p).symbols[i]) => MeansKept(At(p).symbols[i])

ClosureInv ==
    /\ phase \in {"resolve", "cdtors"} => StackOK /\ Closing /\ cdtor \subseteq Sections
    /\ phase \in {"assign", "size", "save", "saved"} => Closed

\* The i-th symbol of the section p.
Sym(p, i) == At(p).symbols[i]

\* It means something kept afterwards if it then means a definition in what is kept.
LEMMA MeansKeptNext ==
  ASSUME NEW r, NEW id, Defines(r, id)', SectionOf(r) \in Kept',
         NEW p, NEW i, Sym(p, i)'.resolve = r, Sym(p, i)'.id = id
  PROVE  MeansKept(Sym(p, i))'
  <1>1. /\ r # None /\ SectionOf(r) \in Kept' /\ r[3] \in DOMAIN At(SectionOf(r))'.symbols
        /\ ~IsRef(SymbolAt(r)') /\ SymbolAt(r)'.id = id
    BY DEF Defines, SectionOf
  <1> QED BY <1>1 DEF MeansKept, SectionOf

\* What a reference means stays kept.
LEMMA MeansKeptStays ==
  ASSUME ExeOK, NEW t, Shaped(t), NEW p, NEW i,
         MeansKept(Sym(p, i)), Sym(p, i)'.id = Sym(p, i).id, Sym(p, i)'.resolve = Sym(p, i).resolve
  PROVE  MeansKept(Sym(p, i))'
  <1> DEFINE r == Sym(p, i).resolve
             id == Sym(p, i).id
  <1>1. Defines(r, id) /\ SectionOf(r) \in Kept
    BY MeansKeptIs
  <1>2. \A x, y : Defines(x, y) => Defines(x, y)'
    BY DefinesStays
  <1>3. \A x : x \in Kept => x \in Kept'
    BY ShapeKeeps
  <1> QED BY <1>1, <1>2, <1>3, MeansKeptNext

\* Sizing leaves everything closed.
LEMMA RelaxedClosed ==
  ASSUME ExeOK, ExeRelaxed, Closed
  PROVE  Closed'
  <1>1. Shaped(None)
    BY RelaxedShape
  <1>2. \A p \in Places : p # None
    BY PlacesAre DEF None
  <1> SUFFICES ASSUME NEW p \in Kept', NEW i \in DOMAIN At(p)'.symbols, Resolvable(Sym(p, i))'
               PROVE  MeansKept(Sym(p, i))'
    BY DEF Closed, Sym
  <1>3. p \in Kept /\ p \in Places
    BY <1>1, <1>2, ShapeKeeps DEF Kept, Places
  <1>4. /\ i \in DOMAIN At(p).symbols
        /\ Sym(p, i)'.id = Sym(p, i).id /\ Sym(p, i)'.flags = Sym(p, i).flags
    BY <1>1, <1>3, ShapeKeeps DEF Sym
  <1>5. Sym(p, i)'.resolve = Sym(p, i).resolve
    <2>1. p[1] \in DOMAIN exe /\ p[2] \in DOMAIN exe[p[1]]
      BY <1>3, PlacesAre
    <2> QED BY <1>4, <2>1 DEF ExeRelaxed, Relaxed, At, Sym
  <1>6. MeansKept(Sym(p, i))
    BY <1>3, <1>4 DEF Closed, Resolvable, IsRef, Has, Sym
  <1> QED BY <1>1, <1>4, <1>5, <1>6, MeansKeptStays

\* A step keeps references settled if what it does about each of them is right: one
\* that gets another meaning means something kept, one that is no longer pending does,
\* and those of a section that is touched are pending.
LEMMA StepCloses ==
  ASSUME ExeOK, NEW t, Shaped(t), Closing, opts.unresolved => opts'.unresolved,
         \A p \in Kept : \A i \in DOMAIN At(p).symbols :
            Resolvable(Sym(p, i)) =>
               \/ MeansKept(Sym(p, i))' \/ opts'.unresolved
               \/ /\ Sym(p, i)'.resolve = Sym(p, i).resolve
                  /\ Pending(p, i) => Pending(p, i)',
         t \in Places => t \in Kept \/ \A i \in Nat \ {0} : Pending(t, i)'
  PROVE  Closing'
  <1> SUFFICES ASSUME NEW p \in Kept', NEW i \in DOMAIN At(p)'.symbols, Resolvable(Sym(p, i))'
               PROVE  MeansKept(Sym(p, i))' \/ Pending(p, i)' \/ opts'.unresolved
    BY DEF Closing, Settled, Sym
  <1>1. p \in Places /\ (p \in Kept \/ p = t)
    BY ShapeKeeps DEF Kept, Places
  <1>2. /\ i \in DOMAIN At(p).symbols
        /\ Sym(p, i)'.id = Sym(p, i).id /\ Sym(p, i)'.flags = Sym(p, i).flags
    BY <1>1, ShapeKeeps DEF Sym
  <1>3. CASE p \in Kept
    <2>1. Resolvable(Sym(p, i))
      BY <1>2 DEF Resolvable, IsRef, Has
    <2>2. MeansKept(Sym(p, i)) \/ Pending(p, i) \/ opts.unresolved
      BY <1>2, <1>3, <2>1 DEF Closing, Settled, Sym
    <2>3. Sym(p, i)'.resolve = Sym(p, i).resolve /\ MeansKept(Sym(p, i)) => MeansKept(Sym(p, i))'
      BY <1>2, MeansKeptStays
    <2> QED BY <1>2, <1>3, <2>1, <2>2, <2>3
  <1>4. CASE p \notin Kept
    <2>1. i \in Nat \ {0}
      <3>1. Loaded(At(p))
        BY <1>1, PlacesAre
      <3>2. DOMAIN At(p).symbols = 1 .. Len(At(p).symbols) /\ Len(At(p).symbols) \in Nat
        BY <3>1, SeqIsFunction DEF Loaded
      <3> QED BY <1>2, <3>2
    <2> QED BY <1>1, <1>4, <2>1
  <1> QED BY <1>3, <1>4

\* The section whose references are being resolved.
LEMMA FrameIs ==
  ASSUME StackOK, stack # <<>>
  PROVE  /\ DOMAIN stack = 1 .. Len(stack) /\ Len(stack) \in Nat \ {0}
         /\ frame = stack[Len(stack)] /\ frame.place \in Kept /\ frame.next \in Nat \ {0}
         /\ frame = [place |-> frame.place, next |-> frame.next]
  <1>1. DOMAIN stack = 1 .. Len(stack) /\ Len(stack) \in Nat
    BY SeqIsFunction DEF StackOK
  <1>2. Len(stack) # 0
    <2>1. PICK S : stack \in Seq(S)
      BY DEF StackOK, IsSeq
    <2> QED BY <1>1, <2>1
  <1>3. frame = stack[Len(stack)]
    BY DEF Last, frame
  <1>4. Len(stack) \in DOMAIN stack
    BY <1>1, <1>2
  <1> QED BY <1>1, <1>2, <1>3, <1>4 DEF StackOK

\* The resolution of its references goes on.
LEMMA AdvancedIs ==
  ASSUME StackOK, stack # <<>>
  PROVE  /\ IsSeq(Advanced) /\ DOMAIN Advanced = DOMAIN stack /\ Len(Advanced) = Len(stack)
         /\ \A k \in DOMAIN stack :
               Advanced[k] = IF k = Len(stack) THEN [place |-> frame.place, next |-> frame.next + 1]
                             ELSE stack[k]
  <1>1. /\ DOMAIN stack = 1 .. Len(stack) /\ Len(stack) \in Nat \ {0}
        /\ frame = stack[Len(stack)] /\ frame = [place |-> frame.place, next |-> frame.next]
    BY FrameIs
  <1>2. /\ DOMAIN Advanced = DOMAIN stack
        /\ \A k \in DOMAIN stack :
              Advanced[k] = IF k = Len(stack) THEN [frame EXCEPT !.next = @ + 1] ELSE stack[k]
    BY <1>1 DEF Advanced
  <1>3. [frame EXCEPT !.next = @ + 1] = [place |-> frame.place, next |-> frame.next + 1]
    BY <1>1
  <1>4. Advanced = [k \in DOMAIN stack |-> Advanced[k]]
    BY DEF Advanced
  <1>5. IsSeq(Advanced)
    BY <1>4, UpdateSeq DEF StackOK
  <1>6. Len(Advanced) = Len(stack)
    <2>1. DOMAIN Advanced = 1 .. Len(Advanced) /\ Len(Advanced) \in Nat
      BY <1>5, SeqIsFunction
    <2> QED BY <1>1, <1>2, <2>1
  <1> QED BY <1>2, <1>3, <1>5, <1>6

\* It leaves the rest pending, and the stack what it is.
LEMMA AdvancedKeeps ==
  ASSUME ExeOK, StackOK, stack # <<>>, NEW t, Shaped(t),
         \/ stack' = Advanced
         \/ t \in Places /\ stack' = Append(Advanced, [place |-> t, next |-> 1])
  PROVE  /\ StackOK'
         /\ \A p : \A i \in Nat : Pending(p, i) => Pending(p, i)' \/ (p = frame.place /\ i = frame.next)
         /\ stack' = Advanced \/ \A i \in Nat \ {0} : Pending(t, i)'
  <1>1. /\ DOMAIN stack = 1 .. Len(stack) /\ Len(stack) \in Nat \ {0}
        /\ frame = stack[Len(stack)] /\ frame.place \in Kept /\ frame.next \in Nat \ {0}
    BY FrameIs
  <1>2. /\ IsSeq(Advanced) /\ DOMAIN Advanced = DOMAIN stack /\ Len(Advanced) = Len(stack)
        /\ \A k \in DOMAIN stack :
              Advanced[k] = IF k = Len(stack) THEN [place |-> frame.place, next |-> frame.next + 1]
                            ELSE stack[k]
    BY AdvancedIs
  <1>3. \A p \in Kept : p \in Kept'
    BY ShapeKeeps
  <1>4. t \in Places => t \in Kept'
    BY ShapeKeeps
  <1> HIDE DEF Advanced
  <1>5. /\ IsSeq(stack') /\ DOMAIN stack \subseteq DOMAIN stack'
        /\ \A k \in DOMAIN stack' :
              \/ k \in DOMAIN stack /\ stack'[k] = Advanced[k]
              \/ t \in Places /\ stack'[k] = [place |-> t, next |-> 1]
        /\ \A k \in DOMAIN stack : stack'[k] = Advanced[k]
        /\ stack' = Advanced \/ \E k \in DOMAIN stack' : stack'[k] = [place |-> t, next |-> 1]
    <2>1. CASE stack' = Advanced
      BY <1>2, <2>1
    <2>2. CASE t \in Places /\ stack' = Append(Advanced, [place |-> t, next |-> 1])
      <3> DEFINE new == [place |-> t, next |-> 1]
      <3>1. /\ IsSeq(stack') /\ DOMAIN stack' = DOMAIN stack \cup {Len(Advanced) + 1}
            /\ \A k \in DOMAIN stack' : stack'[k] = IF k \in DOMAIN stack THEN Advanced[k] ELSE new
        <4>1. stack' = Append(Advanced, new)
          BY <2>2
        <4> HIDE DEF new
        <4> QED BY <1>2, <4>1, AppendIs
      <3>2. Len(Advanced) + 1 \notin DOMAIN stack
        BY <1>1, <1>2
      <3> HIDE DEF new
      <3>3. stack'[Len(Advanced) + 1] = new
        BY <3>1, <3>2
      <3> QED BY <2>2, <3>1, <3>3 DEF new
    <2> QED BY <2>1, <2>2
  <1>6. StackOK'
    <2>1. ASSUME NEW k \in DOMAIN stack'
          PROVE  /\ stack'[k] = [place |-> stack'[k].place, next |-> stack'[k].next]
                 /\ stack'[k].place \in Kept' /\ stack'[k].next \in Nat \ {0}
      <3>1. CASE t \in Places /\ stack'[k] = [place |-> t, next |-> 1]
        BY <1>4, <3>1
      <3>2. CASE k \in DOMAIN stack /\ stack'[k] = Advanced[k] /\ k = Len(stack)
        BY <1>1, <1>2, <1>3, <3>2
      <3>3. CASE k \in DOMAIN stack /\ stack'[k] = Advanced[k] /\ k # Len(stack)
        BY <1>2, <1>3, <3>3 DEF StackOK
      <3> QED BY <1>5, <3>1, <3>2, <3>3
    <2> QED BY <1>5, <2>1 DEF StackOK
  <1>7. ASSUME NEW p, NEW i \in Nat, Pending(p, i)
        PROVE  Pending(p, i)' \/ (p = frame.place /\ i = frame.next)
    <2>1. PICK k \in DOMAIN stack : stack[k].place = p /\ stack[k].next <= i
      BY <1>7 DEF Pending
    <2>2. CASE k # Len(stack)
      BY <1>2, <1>5, <2>1, <2>2 DEF Pending
    <2>3. CASE k = Len(stack) /\ i # frame.next
      BY <1>1, <1>2, <1>5, <2>1, <2>3 DEF Pending
    <2>4. CASE k = Len(stack) /\ i = frame.next
      BY <1>1, <2>1, <2>4
    <2> QED BY <2>2, <2>3, <2>4
  <1>8. stack' = Advanced \/ \A i \in Nat \ {0} : Pending(t, i)'
    BY <1>5 DEF Pending
  <1> QED BY <1>6, <1>7, <1>8

\* The symbols of a section have positive numbers.
LEMMA SymbolNumbers ==
  ASSUME ExeOK, NEW p \in Kept
  PROVE  /\ p \in Places /\ DOMAIN At(p).symbols = 1 .. Len(At(p).symbols)
         /\ Len(At(p).symbols) \in Nat
         /\ \A i \in DOMAIN At(p).symbols : i \in Nat \ {0}
  <1>1. p \in Places
    BY DEF Kept, Places
  <1>2. Loaded(At(p))
    BY <1>1, PlacesAre
  <1>3. DOMAIN At(p).symbols = 1 .. Len(At(p).symbols) /\ Len(At(p).symbols) \in Nat
    BY <1>2, SeqIsFunction DEF Loaded
  <1> QED BY <1>1, <1>3

\* Passing over a symbol.
LEMMA PassSymbolCloses ==
  ASSUME ExeOK, StackOK, Closing, PassSymbol
  PROVE  StackOK' /\ Closing'
  <1>1. Shaped(None) /\ None \notin Places
    BY SameShape, PlacesAre DEF PassSymbol, None
  <1>2. stack # <<>> /\ stack' = Advanced /\ UNCHANGED <<exe, opts>>
    BY DEF PassSymbol
  <1>3. /\ StackOK'
        /\ \A p : \A i \in Nat : Pending(p, i) => Pending(p, i)' \/ (p = frame.place /\ i = frame.next)
    BY <1>1, <1>2, AdvancedKeeps
  <1>4. ASSUME NEW p \in Kept, NEW i \in DOMAIN At(p).symbols, Resolvable(Sym(p, i))
        PROVE  Sym(p, i)'.resolve = Sym(p, i).resolve /\ (Pending(p, i) => Pending(p, i)')
    <2>1. ~(p = frame.place /\ i = frame.next)
      BY <1>4 DEF PassSymbol, Sym, symbols
    <2>2. Sym(p, i)' = Sym(p, i)
      BY <1>2 DEF Sym, At
    <2> QED BY <1>3, <2>1, <2>2, SymbolNumbers
  <1>5. Closing'
    BY <1>1, <1>2, <1>4, StepCloses
  <1> QED BY <1>3, <1>5

\* All references of a section have been resolved.
LEMMA SectionResolvedCloses ==
  ASSUME ExeOK, StackOK, Closing, SectionResolved
  PROVE  StackOK' /\ Closing'
  <1>1. Shaped(None) /\ None \notin Places
    BY SameShape, PlacesAre DEF SectionResolved, None
  <1>2. stack # <<>> /\ stack' = Front(stack) /\ UNCHANGED <<exe, opts>> /\ frame.next > Len(symbols)
    BY DEF SectionResolved
  <1>3. /\ DOMAIN stack = 1 .. Len(stack) /\ Len(stack) \in Nat \ {0}
        /\ frame = stack[Len(stack)] /\ frame.place \in Kept /\ frame.next \in Nat \ {0}
    BY <1>2, FrameIs
  <1>4. /\ IsSeq(stack') /\ DOMAIN stack' = 1 .. Len(stack) - 1
        /\ \A k \in DOMAIN stack' : k \in DOMAIN stack /\ stack'[k] = stack[k]
    <2>1. PICK S : stack \in Seq(S)
      BY DEF StackOK, IsSeq
    <2>2. stack' \in Seq(S) /\ Len(stack') = Len(stack) - 1
      BY <1>2, <1>3, <2>1 DEF Front
    <2>3. \A k \in 1 .. Len(stack) - 1 : stack'[k] = stack[k]
      BY <1>2, <1>3, <2>1 DEF Front
    <2> QED BY <1>3, <2>2, <2>3 DEF IsSeq
  <1>5. StackOK'
    <2>1. \A p \in Kept : p \in Kept'
      BY <1>1, ShapeKeeps
    <2> QED BY <1>4, <2>1 DEF StackOK
  <1>6. ASSUME NEW p \in Kept, NEW i \in DOMAIN At(p).symbols
        PROVE  Sym(p, i)'.resolve = Sym(p, i).resolve /\ (Pending(p, i) => Pending(p, i)')
    <2>1. Sym(p, i)' = Sym(p, i)
      BY <1>2 DEF Sym, At
    <2>2. ASSUME Pending(p, i) PROVE Pending(p, i)'
      <3>1. PICK k \in DOMAIN stack : stack[k].place = p /\ stack[k].next <= i
        BY <2>2 DEF Pending
      <3>2. k # Len(stack)
        <4>1. CASE k = Len(stack)
          <5>1. p = frame.place /\ frame.next <= i
            BY <1>3, <3>1, <4>1
          <5>2. i <= Len(symbols) /\ i \in Nat /\ Len(symbols) \in Nat
            BY <5>1, SymbolNumbers DEF symbols
          <5> QED BY <1>2, <1>3, <5>1, <5>2
        <4> QED BY <4>1
      <3>3. k \in DOMAIN stack'
        BY <1>3, <1>4, <3>2
      <3> QED BY <1>4, <3>1, <3>3 DEF Pending
    <2> QED BY <2>1, <2>2
  <1>7. Closing'
    BY <1>1, <1>2, <1>6, StepCloses
  <1> QED BY <1>5, <1>7

\* A reference is resolved.
LEMMA ResolveOneCloses ==
  ASSUME LoadedInv, ExeOK, StackOK, Closing, ResolveOne, phase' # "failed"
  PROVE  StackOK' /\ Closing' /\ Sections' = Sections
  <1>0. SUFFICES ASSUME NEW q, q = frame.place, NEW c, c = frame.next, NEW id, id = symbols[c].id,
                        NEW r, r = Resolution(q, id).symbol,
                        NEW t, t = IF r = None \/ Has(At(SectionOf(r)), "TOUCHED") THEN None
                                   ELSE SectionOf(r)
                 PROVE  StackOK' /\ Closing' /\ Sections' = Sections
    OBVIOUS
  <1> DEFINE at == <<q[1], q[2], c>>
  <1>1. stack # <<>> /\ ExeResolved(at, r, t)
    <2>1. stack # <<>>
      BY DEF ResolveOne
    <2>2. r = Resolution(frame.place, symbols[frame.next].id).symbol /\ at = <<frame.place[1], frame.place[2], frame.next>>
      BY <1>0
    <2> HIDE DEF at
    <2>3. ExeResolved(at, r, t)
      BY <1>0, <2>2, ResolveOneIs
    <2> QED BY <2>1, <2>3
  <1>2. /\ opts'.unresolved = (opts.unresolved \/ r = None)
        /\ IF t = None THEN stack' = Advanced ELSE stack' = Append(Advanced, [place |-> t, next |-> 1])
    <2>1. ~Resolution(q, id).failed
      BY <1>0 DEF ResolveOne
    <2>2. /\ opts' = [opts EXCEPT !.unresolved = @ \/ r = None]
          /\ IF r = None \/ Has(At(SectionOf(r)), "TOUCHED") THEN stack' = Advanced
             ELSE stack' = Append(Advanced, [place |-> SectionOf(r), next |-> 1])
      BY <1>0, <2>1 DEF ResolveOne
    <2>3. SectionOf(r) # None
      BY DEF SectionOf, None
    <2> QED BY <1>0, <2>2, <2>3 DEF LoadedInv
  <1>3. q \in Kept /\ q \in Places /\ q = <<q[1], q[2]>> /\ c \in Nat \ {0}
    <2>1. q \in Kept /\ c \in Nat \ {0}
      BY <1>0, <1>1, FrameIs
    <2>2. q \in Places
      BY <2>1 DEF Kept, Places
    <2> QED BY <2>1, <2>2, PlacesAre
  <1>4. r = None \/ Defines(r, id)
    BY <1>0, ResolutionIs
  <1>5. Sym(q, c).id = id
    BY <1>0 DEF Sym, symbols
  <1>6. t = None \/ t \in Places
    BY <1>0, <1>4 DEF Defines
  <1>7. None \notin Places
    BY PlacesAre DEF None
  <1>8. r = None \/ (r # None /\ (SectionOf(r) \in Kept \/ (t \in Places /\ t = SectionOf(r))))
    BY <1>0, <1>4 DEF Defines, Kept, Places
  <1> HIDE DEF at
  <1>9. Shaped(t)
    BY <1>1, ResolvedShape
  <1>10. /\ StackOK'
         /\ \A p : \A i \in Nat : Pending(p, i) => Pending(p, i)' \/ (p = frame.place /\ i = frame.next)
         /\ stack' = Advanced \/ \A i \in Nat \ {0} : Pending(t, i)'
    BY <1>1, <1>2, <1>6, <1>9, AdvancedKeeps
  <1>11. t \in Places => \A i \in Nat \ {0} : Pending(t, i)'
    <2>1. ASSUME t \in Places PROVE stack' # Advanced
      <3>1. stack' = Append(Advanced, [place |-> t, next |-> 1])
        BY <1>2, <1>7, <2>1
      <3>2. IsSeq(Advanced)
        BY <1>1, AdvancedIs
      <3> HIDE DEF Advanced
      <3>3. DOMAIN Append(Advanced, [place |-> t, next |-> 1]) # DOMAIN Advanced
        <4>1. Len(Advanced) + 1 \notin DOMAIN Advanced
          BY <3>2, SeqIsFunction
        <4>2. Len(Advanced) + 1 \in DOMAIN Append(Advanced, [place |-> t, next |-> 1])
          BY <3>2, AppendIs
        <4> QED BY <4>1, <4>2
      <3> QED BY <3>1, <3>3
    <2> QED BY <1>10, <2>1
  <1>12. ASSUME NEW p \in Kept, NEW i \in DOMAIN At(p).symbols
         PROVE  \/ MeansKept(Sym(p, i))' \/ opts'.unresolved
                \/ /\ Sym(p, i)'.resolve = Sym(p, i).resolve
                   /\ Pending(p, i) => Pending(p, i)'
    <2>1. p \in Places /\ i \in Nat /\ p = <<p[1], p[2]>> /\ p[1] \in DOMAIN exe /\ p[2] \in DOMAIN exe[p[1]]
      BY SymbolNumbers, PlacesAre
    <2>2. /\ Sym(p, i)'.id = Sym(p, i).id
          /\ Sym(p, i)'.resolve = IF <<p[1], p[2], i>> = at THEN r ELSE Sym(p, i).resolve
      BY <1>1, <2>1 DEF ExeResolved, Sym, At
    <2>3. <<p[1], p[2], i>> = at <=> p = q /\ i = c
      BY <1>3, <2>1 DEF at
    <2>4. CASE p = q /\ i = c
      <3>1. CASE r = None
        BY <1>2, <3>1
      <3>2. CASE r # None
        <4>1. Sym(p, i)'.resolve = r /\ Sym(p, i)'.id = id
          BY <1>5, <2>2, <2>3, <2>4
        <4>2. Defines(r, id)'
          BY <1>4, <1>9, <3>2, DefinesStays
        <4>3. SectionOf(r) \in Kept'
          BY <1>8, <1>9, <3>2, ShapeKeeps
        <4>4. MeansKept(Sym(p, i))'
          BY <4>1, <4>2, <4>3, MeansKeptNext
        <4> QED BY <4>4
      <3> QED BY <3>1, <3>2
    <2>5. CASE ~(p = q /\ i = c)
      <3>1. Sym(p, i)'.resolve = Sym(p, i).resolve
        BY <2>2, <2>3, <2>5
      <3>2. Pending(p, i) => Pending(p, i)'
        BY <1>0, <1>10, <2>1, <2>5
      <3> QED BY <3>1, <3>2
    <2> QED BY <2>4, <2>5
  <1>13. Closing'
    BY <1>2, <1>9, <1>11, <1>12, StepCloses
  <1> QED BY <1>9, <1>10, <1>13, ShapeKeeps

\* A section is looked at for constructors.
LEMMA ResolveCdtorCloses ==
  ASSUME ExeOK, StackOK, Closing, cdtor \subseteq Sections, ResolveCdtor
  PROVE  StackOK' /\ Closing' /\ Sections' = Sections
  <1>0. SUFFICES ASSUME NEW t, t = First(cdtor) PROVE StackOK' /\ Closing' /\ Sections' = Sections
    OBVIOUS
  <1>1. t \in Places /\ t = <<t[1], t[2]>>
    <2>1. cdtor \in SUBSET Places /\ cdtor # {}
      BY DEF ResolveCdtor, Places
    <2>2. t \in cdtor
      BY <1>0, <2>1, FirstIs
    <2> QED BY <2>1, <2>2, PlacesAre
  <1>2. \/ UNCHANGED <<exe, stack>>
        \/ ExeResolved(None, None, <<t[1], t[2]>>) /\ stack' = <<[place |-> t, next |-> 1]>>
    BY <1>0, ResolveCdtorIs
  <1>3. stack = <<>> /\ UNCHANGED opts
    BY DEF ResolveCdtor
  <1>4. \A p : \A i : ~Pending(p, i)
    BY <1>3 DEF Pending
  <1>5. CASE UNCHANGED <<exe, stack>>
    <2>1. Shaped(None) /\ None \notin Places
      BY <1>5, SameShape, PlacesAre DEF None
    <2>2. \A p \in Kept : \A i \in DOMAIN At(p).symbols : Sym(p, i)' = Sym(p, i)
      BY <1>5 DEF Sym, At
    <2>3. Closing'
      BY <1>3, <1>4, <2>1, <2>2, StepCloses
    <2>4. StackOK'
      <3>1. \A p \in Kept : p \in Kept'
        BY <2>1, ShapeKeeps
      <3> QED BY <1>5, <3>1 DEF StackOK
    <2> QED BY <2>1, <2>3, <2>4, ShapeKeeps
  <1>6. CASE ExeResolved(None, None, t) /\ stack' = <<[place |-> t, next |-> 1]>>
    <2>1. Shaped(t)
      BY <1>6, ResolvedShape
    <2>2. t \in Kept'
      BY <1>1, <2>1, ShapeKeeps
    <2>3. /\ DOMAIN stack' = {1} /\ stack'[1] = [place |-> t, next |-> 1]
          /\ stack' \in Seq({[place |-> t, next |-> 1]})
      BY <1>6
    <2>4. StackOK'
      BY <2>2, <2>3 DEF StackOK, IsSeq
    <2>5. \A i \in Nat \ {0} : Pending(t, i)'
      BY <2>3 DEF Pending
    <2>6. ASSUME NEW p \in Kept, NEW i \in DOMAIN At(p).symbols
          PROVE  Sym(p, i)'.resolve = Sym(p, i).resolve
      <3>1. p[1] \in DOMAIN exe /\ p[2] \in DOMAIN exe[p[1]]
        BY SymbolNumbers, PlacesAre
      <3>2. <<p[1], p[2], i>> # None
        BY DEF None
      <3> QED BY <1>6, <3>1, <3>2 DEF ExeResolved, Sym, At
    <2>7. Closing'
      BY <1>3, <1>4, <2>1, <2>5, <2>6, StepCloses
    <2> QED BY <2>1, <2>4, <2>7, ShapeKeeps
  <1> QED BY <1>1, <1>2, <1>5, <1>6

\* Linking begins.
LEMMA LinkCloses ==
  ASSUME LoadedInv, Link
  PROVE  StackOK' /\ Closing'
  <1>1. /\ ExeOK' /\ exe'[0] = SectionMap(opts.reloc)
        /\ \A o \in DOMAIN exe' : \A s \in DOMAIN exe'[o] :
              o = 0 \/ (o \in DOMAIN opts.loaded /\ s \in DOMAIN opts.loaded[o] /\
                 exe'[o][s] = IF o = 1 /\ s = 1 THEN Touched(opts.loaded[o][s]) ELSE opts.loaded[o][s])
    BY LinkIs
  <1>2. ASSUME NEW p \in Kept' PROVE p = <<1, 1>>
    <2>1. /\ p = <<p[1], p[2]>> /\ p[1] \in DOMAIN exe' /\ p[2] \in DOMAIN exe'[p[1]]
          /\ Has(exe'[p[1]][p[2]], "TOUCHED")
      BY <1>1, <1>2 DEF Kept, Builtins, Sections, At, ExeOK
    <2>2. p[1] # 0
      BY <1>1, <2>1, SectionMapIs DEF Fresh
    <2>3. ~Has(opts.loaded[p[1]][p[2]], "TOUCHED") /\ p[1] \in DOMAIN opts.loaded
      BY <1>1, <2>1, <2>2 DEF LoadedInv, Fresh
    <2>4. p[1] = 1 /\ p[2] = 1
      BY <1>1, <2>1, <2>2, <2>3
    <2> QED BY <2>1, <2>4
  <1>3. IF opts.loaded[1] = <<>> THEN stack' = <<>> ELSE stack' = <<[place |-> <<1, 1>>, next |-> 1]>>
    BY DEF Link
  <1>4. CASE opts.loaded[1] = <<>>
    <2>1. stack' = <<>> /\ stack' \in Seq({}) /\ DOMAIN stack' = {}
      BY <1>3, <1>4
    <2>2. \A p : p \notin Kept'
      <3>1. 1 \in DOMAIN exe' => DOMAIN exe'[1] = {}
        BY <1>4, LinkIs
      <3> QED BY <1>2, <3>1 DEF Kept, Builtins, Sections
    <2> QED BY <2>1, <2>2 DEF StackOK, Closing, IsSeq
  <1>5. CASE opts.loaded[1] # <<>>
    <2> DEFINE new == [place |-> <<1, 1>>, next |-> 1]
    <2>1. stack' = <<new>> /\ stack' \in Seq({new}) /\ DOMAIN stack' = {1} /\ stack'[1] = new
      BY <1>3, <1>5
    <2>2. <<1, 1>> \in Kept'
      <3>1. 1 \in DOMAIN exe' /\ DOMAIN exe'[1] = DOMAIN opts.loaded[1]
        BY LinkIs
      <3>2. 1 \in DOMAIN opts.loaded /\ IsSeq(opts.loaded[1])
        <4>1. opts.loaded # <<>> /\ IsSeq(opts.loaded)
          BY DEF Link, LoadedInv
        <4>2. PICK S : opts.loaded \in Seq(S)
          BY <4>1 DEF IsSeq
        <4>3. 1 \in DOMAIN opts.loaded
          BY <4>1, <4>2
        <4> QED BY <4>3 DEF LoadedInv
      <3>3. 1 \in DOMAIN exe'[1]
        <4>1. PICK S : opts.loaded[1] \in Seq(S)
          BY <3>2 DEF IsSeq
        <4> QED BY <1>5, <3>1, <4>1
      <3>4. exe'[1][1] = Touched(opts.loaded[1][1]) /\ Loaded(opts.loaded[1][1])
        BY <1>1, <3>1, <3>2, <3>3 DEF LoadedInv, Fresh
      <3>5. Has(exe'[1][1], "TOUCHED")
        BY <3>4, TouchedKeeps DEF Has
      <3> QED BY <3>1, <3>3, <3>5 DEF Kept, Sections, At
    <2>3. StackOK'
      <3>1. new.place = <<1, 1>> /\ new.next = 1 /\ new = [place |-> new.place, next |-> new.next]
        OBVIOUS
      <3> HIDE DEF new
      <3>2. IsSeq(stack')
        BY <2>1 DEF IsSeq
      <3> QED BY <2>1, <2>2, <3>1, <3>2 DEF StackOK
    <2>4. ASSUME NEW p \in Kept', NEW i \in DOMAIN At(p)'.symbols PROVE Pending(p, i)'
      <3>1. i \in Nat \ {0}
        <4>1. /\ p[1] \in DOMAIN exe' /\ p[2] \in DOMAIN exe'[p[1]]
          BY <1>1, <2>4 DEF Kept, Builtins, Sections, ExeOK
        <4>2. Loaded(At(p)')
          BY <1>1, <4>1 DEF ExeOK, At
        <4>3. DOMAIN At(p)'.symbols = 1 .. Len(At(p)'.symbols) /\ Len(At(p)'.symbols) \in Nat
          BY <4>2, SeqIsFunction DEF Loaded
        <4> QED BY <2>4, <4>3
      <3> QED BY <1>2, <2>1, <2>4, <3>1 DEF Pending
    <2> QED BY <2>3, <2>4 DEF Closing, Settled
  <1> QED BY <1>4, <1>5

\* Without a change of the executable everything stays closed.
LEMMA SameClosed == ExeOK /\ Closed /\ UNCHANGED exe => Closed'
  <1> SUFFICES ASSUME ExeOK, Closed, UNCHANGED exe PROVE Closed'
    OBVIOUS
  <1>1. ExeRelaxed
    <2>1. \A o \in DOMAIN exe : exe[o] = [s \in DOMAIN exe[o] |-> exe[o][s]]
      BY SeqIsFunction DEF ExeOK
    <2>2. \A o \in DOMAIN exe : \A s \in DOMAIN exe[o] : Relaxed(exe[o][s], exe[o][s])
      BY RelaxedSame DEF ExeOK
    <2> QED BY <2>1, <2>2 DEF ExeRelaxed
  <1> QED BY <1>1, RelaxedClosed

\* All steps.
LEMMA NextCloses ==
  LoadedInv /\ ExeOK /\ ClosureInv /\ [LinkNext]_linkvars => ClosureInv'
  <1> SUFFICES ASSUME LoadedInv, ExeOK, ClosureInv, [LinkNext]_linkvars PROVE ClosureInv'
    OBVIOUS
  <1>1. ASSUME ExeRelaxed, Closed PROVE Closed'
    BY <1>1, RelaxedClosed
  <1>2. ASSUME UNCHANGED <<exe, stack, opts, cdtor, phase>> PROVE ClosureInv'
    <2>1. Closed => Closed'
      BY <1>2, SameClosed
    <2>2. Sections' = Sections /\ Kept' = Kept
      BY <1>2 DEF Sections, Kept, Builtins, At
    <2>3. StackOK => StackOK'
      BY <1>2, <2>2 DEF StackOK
    <2>4. Closing => Closing'
      <3> SUFFICES ASSUME Closing PROVE Closing'
        OBVIOUS
      <3>1. Shaped(None) /\ None \notin Places
        BY <1>2, SameShape, PlacesAre DEF None
      <3>2. ASSUME NEW p \in Kept, NEW i \in DOMAIN At(p).symbols
            PROVE  Sym(p, i)'.resolve = Sym(p, i).resolve /\ (Pending(p, i) => Pending(p, i)')
        BY <1>2 DEF Sym, At, Pending
      <3> QED BY <1>2, <3>1, <3>2, StepCloses
    <2> QED BY <1>2, <2>1, <2>2, <2>3, <2>4 DEF ClosureInv
  <1>3. CASE LinkArgument \/ DeclareNext \/ Unresolved
    BY <1>3 DEF LinkArgument, DeclareNext, Unresolved, ClosureInv
  <1>4. CASE Link
    BY <1>4, LinkCloses DEF Link, ClosureInv
  <1>5. CASE PassSymbol
    <2>1. UNCHANGED <<exe, cdtor, phase>> /\ phase \in {"resolve", "cdtors"}
      BY <1>5 DEF PassSymbol
    <2>2. Sections' = Sections
      BY <2>1 DEF Sections
    <2> QED BY <1>5, <2>1, <2>2, PassSymbolCloses DEF ClosureInv
  <1>6. CASE ResolveOne
    <2>1. UNCHANGED cdtor /\ phase \in {"resolve", "cdtors"} /\ phase' \in {phase, "failed"}
      BY <1>6 DEF ResolveOne
    <2> QED BY <1>6, <2>1, ResolveOneCloses DEF ClosureInv
  <1>7. CASE SectionResolved
    <2>1. UNCHANGED <<exe, cdtor>> /\ phase \in {"resolve", "cdtors"} /\ phase' \in {phase, "cdtors"}
      BY <1>7 DEF SectionResolved
    <2>2. Sections' = Sections
      BY <2>1 DEF Sections
    <2> QED BY <1>7, <2>1, <2>2, SectionResolvedCloses DEF ClosureInv
  <1>8. CASE ResolveCdtor
    <2>1. cdtor' \subseteq cdtor /\ UNCHANGED phase /\ phase = "cdtors"
      BY <1>8 DEF ResolveCdtor
    <2> QED BY <1>8, <2>1, ResolveCdtorCloses DEF ClosureInv
  <1>9. CASE Populate
    <2>1. phase = "cdtors" /\ stack = <<>> /\ ~opts.unresolved /\ phase' = "assign" /\ exe' = Sized(entries')
      BY <1>9 DEF Populate
    <2>2. \A p : \A i : ~Pending(p, i)
      BY <2>1 DEF Pending
    <2>3. Closed
      BY <2>1, <2>2 DEF ClosureInv, Closing, Settled, Closed
    <2>4. ExeRelaxed
      BY <2>1, SizedRelaxes
    <2> QED BY <1>1, <2>1, <2>3, <2>4 DEF ClosureInv
  <1>10. CASE AssignAll
    <2>1. phase = "assign" /\ phase' \in {"failed", "size"}
      BY <1>10 DEF AssignAll
    <2> QED BY <1>1, <1>10, <2>1, AssignedRelaxes DEF ClosureInv
  <1>11. CASE SizeAll
    <2>1. phase = "size" /\ phase' \in {"assign", "failed", "save"} /\ exe' = Sized(entries)
      BY <1>11 DEF SizeAll
    <2> QED BY <1>1, <1>11, <2>1, SizedRelaxes DEF ClosureInv
  <1>12. CASE Save
    <2>1. UNCHANGED exe /\ phase = "save" /\ phase' = "saved"
      BY <1>12 DEF Save
    <2>2. Closed'
      BY <2>1, SameClosed DEF ClosureInv
    <2> QED BY <2>1, <2>2 DEF ClosureInv
  <1>13. CASE UNCHANGED linkvars
    BY <1>2, <1>13 DEF linkvars
  <1> QED BY <1>3, <1>4, <1>5, <1>6, <1>7, <1>8, <1>9, <1>10, <1>11, <1>12, <1>13 DEF LinkNext

-----------------------------------------------------------------------------
(* The section map.                                                        *)

\* The numbers from 0 to n - 1 are what an injection from a set of n elements takes.
LEMMA RanksAll ==
  ASSUME NEW S, IsFiniteSet(S), NEW f \in [S -> 0 .. Cardinality(S) - 1],
         \A p, q \in S : f[p] = f[q] => p = q, NEW j \in 0 .. Cardinality(S) - 1
  PROVE  \E p \in S : f[p] = j
  <1> SUFFICES ASSUME \A p \in S : f[p] # j PROVE FALSE
    OBVIOUS
  <1> DEFINE T == 0 .. Cardinality(S) - 1
  <1>1. Cardinality(S) \in Nat
    BY FS_CardinalityType
  <1>2. IsFiniteSet(T) /\ Cardinality(T) = Cardinality(S)
    BY <1>1, FS_Interval
  <1> HIDE DEF T
  <1>3. IsFiniteSet(T \ {j}) /\ Cardinality(T \ {j}) < Cardinality(S)
    <2>1. j \in T
      BY DEF T
    <2>2. IsFiniteSet(T \ {j}) /\ Cardinality(T \ {j}) = Cardinality(T) - 1
      BY <1>2, <2>1, FS_RemoveElement
    <2> QED BY <1>1, <1>2, <2>2
  <1>4. f \in [S -> T \ {j}]
    BY DEF T
  <1> QED BY <1>3, <1>4, FS_PigeonHole

\* A list has nothing twice.
Distinct(s) == \A i, j \in DOMAIN s : s[i] = s[j] => i = j

\* Sections in the order in which they were loaded.
LEMMA InOrderIs ==
  ASSUME ExeOK, NEW S \in SUBSET Sections
  PROVE  IsSeq(InOrder(S)) /\ Range(InOrder(S)) = S /\ Distinct(InOrder(S))
  <1> DEFINE n == Cardinality(S)
             below(p) == {q \in S : Before(q, p)}
             rank == [p \in S |-> Cardinality(below(p))]
  <1>1. IsFiniteSet(S) /\ n \in Nat
    BY PlacesFinite, FS_Subset, FS_CardinalityType
  <1>2. \A p \in S : p = <<p[1], p[2]>> /\ p[1] \in Nat /\ p[2] \in Nat
    BY PlacesAre DEF Places
  <1>3. \A p, q \in S : p # q => Before(p, q) \/ Before(q, p)
    BY <1>2 DEF Before
  <1>4. \A p, q, r \in S : Before(p, q) /\ Before(q, r) => Before(p, r)
    BY <1>2 DEF Before
  <1>5. \A p \in S : ~Before(p, p)
    BY <1>2 DEF Before
  <1>6. ASSUME NEW p \in S
        PROVE  IsFiniteSet(below(p)) /\ Cardinality(below(p)) \in 0 .. n - 1
    <2>1. below(p) \in SUBSET S /\ p \notin below(p)
      BY <1>5
    <2>2. S \ {p} \in SUBSET S /\ below(p) \in SUBSET (S \ {p})
      BY <2>1
    <2>3. IsFiniteSet(S \ {p}) /\ Cardinality(S \ {p}) = n - 1
      BY <1>1, FS_RemoveElement
    <2> HIDE DEF below, n
    <2>4. IsFiniteSet(below(p)) /\ Cardinality(below(p)) <= n - 1
      BY <2>2, <2>3, FS_Subset
    <2>5. Cardinality(below(p)) \in Nat
      BY <2>4, FS_CardinalityType
    <2> QED BY <1>1, <2>4, <2>5
  <1>7. ASSUME NEW p \in S, NEW q \in S, Before(p, q)
        PROVE  Cardinality(below(p)) # Cardinality(below(q))
    <2>1. below(p) \in SUBSET below(q) /\ p \in below(q) /\ p \notin below(p)
      BY <1>4, <1>5, <1>7
    <2>2. IsFiniteSet(below(q))
      BY <1>6
    <2> HIDE DEF below
    <2> QED BY <2>1, <2>2, FS_Subset
  <1>8. rank \in [S -> 0 .. n - 1] /\ \A p, q \in S : rank[p] = rank[q] => p = q
    BY <1>3, <1>6, <1>7
  <1>9. ASSUME NEW k \in 1 .. n
        PROVE  InOrder(S)[k] \in S /\ rank[InOrder(S)[k]] = k - 1
    <2>1. k - 1 \in 0 .. n - 1
      BY <1>1
    <2>2. \E p \in S : rank[p] = k - 1
      <3> HIDE DEF rank
      <3> QED BY <1>1, <1>8, <2>1, RanksAll
    <2>3. InOrder(S)[k] = CHOOSE p \in S : Cardinality(below(p)) = k - 1
      BY DEF InOrder
    <2>4. \E p \in S : Cardinality(below(p)) = k - 1
      BY <2>2
    <2> HIDE DEF below
    <2>5. InOrder(S)[k] \in S /\ Cardinality(below(InOrder(S)[k])) = k - 1
      BY <2>3, <2>4
    <2> QED BY <2>5
  <1>10. DOMAIN InOrder(S) = 1 .. n
    BY DEF InOrder
  <1>11. ASSUME NEW p \in S PROVE \E k \in 1 .. n : InOrder(S)[k] = p
    <2>1. rank[p] + 1 \in 1 .. n /\ (rank[p] + 1) - 1 = rank[p]
      <3>1. rank[p] \in 0 .. n - 1
        BY <1>8
      <3> HIDE DEF rank
      <3> QED BY <1>1, <3>1
    <2>2. /\ InOrder(S)[rank[p] + 1] \in S
          /\ rank[InOrder(S)[rank[p] + 1]] = (rank[p] + 1) - 1
      BY <1>9, <2>1
    <2> HIDE DEF rank
    <2> QED BY <1>8, <2>1, <2>2
  <1>12. Range(InOrder(S)) = S
    BY <1>9, <1>10, <1>11 DEF Range
  <1>13. InOrder(S) \in [1 .. n -> S]
    <2> DEFINE place(k) == CHOOSE p \in S : Cardinality({q \in S : Before(q, p)}) = k - 1
    <2>1. InOrder(S) = [k \in 1 .. n |-> place(k)]
      BY DEF InOrder
    <2> HIDE DEF place
    <2>2. InOrder(S) = [k \in 1 .. n |-> InOrder(S)[k]]
      BY <2>1
    <2> QED BY <1>9, <2>2
  <1>14. InOrder(S) \in Seq(S)
    BY <1>1, <1>13
  <1>15. ASSUME NEW i \in 1 .. n, NEW j \in 1 .. n, InOrder(S)[i] = InOrder(S)[j] PROVE i = j
    <2>1. i - 1 = j - 1
      BY <1>9, <1>15
    <2> QED BY <1>1, <2>1
  <1> QED BY <1>10, <1>12, <1>14, <1>15 DEF IsSeq, Distinct

\* Sorting leaves none of them out and repeats none.
LEMMA SortedIs ==
  ASSUME NEW places, IsSeq(places), NEW sorted \in Sorted(places)
  PROVE  IsSeq(sorted) /\ Range(sorted) = Range(places) /\ (Distinct(places) => Distinct(sorted))
  <1>1. PICK f \in [DOMAIN places -> DOMAIN places] :
           /\ \A i, j \in DOMAIN places : i # j => f[i] # f[j]
           /\ sorted = [k \in DOMAIN places |-> places[f[k]]]
    BY DEF Sorted
  <1>2. DOMAIN places = 1 .. Len(places) /\ Len(places) \in Nat
    BY SeqIsFunction
  <1>3. IsSeq(sorted)
    <2>1. sorted = [k \in DOMAIN places |-> sorted[k]]
      BY <1>1
    <2> QED BY <2>1, UpdateSeq
  <1>4. ASSUME NEW j \in DOMAIN places PROVE \E k \in DOMAIN places : f[k] = j
    <2> DEFINE S == 1 .. Len(places)
               g == [k \in S |-> f[k] - 1]
    <2>1. IsFiniteSet(S) /\ Cardinality(S) = Len(places)
      <3>1. IsFiniteSet(S) /\ Cardinality(S) = IF 1 > Len(places) THEN 0 ELSE Len(places) - 1 + 1
        BY <1>2, FS_Interval
      <3> QED BY <1>2, <3>1
    <2>2. g \in [S -> 0 .. Cardinality(S) - 1] /\ \A p, q \in S : g[p] = g[q] => p = q
      <3> SUFFICES g \in [S -> 0 .. Len(places) - 1] /\ \A p, q \in S : g[p] = g[q] => p = q
        BY <2>1
      <3>1. \A k \in S : f[k] \in S
        BY <1>2
      <3>2. \A p, q \in S : f[p] = f[q] => p = q
        BY <1>1, <1>2
      <3>3. \A k \in S : g[k] = f[k] - 1 /\ f[k] \in Int /\ g[k] \in 0 .. Len(places) - 1
        <4>1. \A x \in S : x \in Int /\ x - 1 \in 0 .. Len(places) - 1
          BY <1>2
        <4> QED BY <3>1, <4>1
      <3>4. g \in [S -> 0 .. Len(places) - 1]
        BY <3>3
      <3>5. ASSUME NEW p \in S, NEW q \in S, g[p] = g[q] PROVE p = q
        <4>1. f[p] - 1 = f[q] - 1 /\ f[p] \in Int /\ f[q] \in Int
          BY <3>3, <3>5
        <4>2. f[p] = f[q]
          BY <4>1
        <4> QED BY <3>2, <4>2
      <3> QED BY <3>4, <3>5
    <2>3. j - 1 \in 0 .. Cardinality(S) - 1
      BY <1>2, <2>1
    <2>4. PICK k \in S : g[k] = j - 1
      <3> HIDE DEF g, S
      <3> QED BY <2>1, <2>2, <2>3, RanksAll
    <2>5. f[k] = j
      <3>1. f[k] \in Int /\ j \in Int /\ f[k] - 1 = j - 1
        BY <1>2, <2>4
      <3> QED BY <3>1
    <2> QED BY <1>2, <2>5
  <1>5. Range(sorted) = Range(places)
    BY <1>1, <1>4 DEF Range
  <1>6. Distinct(places) => Distinct(sorted)
    BY <1>1 DEF Distinct
  <1> QED BY <1>3, <1>5, <1>6

\* One list after another.
LEMMA CatIs ==
  ASSUME NEW s, IsSeq(s), NEW t, IsSeq(t)
  PROVE  /\ IsSeq(s \o t) /\ Range(s \o t) = Range(s) \cup Range(t)
         /\ Distinct(s) /\ Distinct(t) /\ Range(s) \cap Range(t) = {} => Distinct(s \o t)
  <1>1. PICK A : s \in Seq(A)
    BY DEF IsSeq
  <1>2. PICK B : t \in Seq(B)
    BY DEF IsSeq
  <1>3. s \in Seq(A \cup B) /\ t \in Seq(A \cup B)
    BY <1>1, <1>2
  <1>4. s \o t \in Seq(A \cup B)
    BY <1>3
  <1>5. /\ DOMAIN s = 1 .. Len(s) /\ DOMAIN t = 1 .. Len(t) /\ Len(s) \in Nat /\ Len(t) \in Nat
        /\ DOMAIN (s \o t) = 1 .. Len(s) + Len(t)
        /\ \A k \in 1 .. Len(s) + Len(t) :
              (s \o t)[k] = IF k <= Len(s) THEN s[k] ELSE t[k - Len(s)]
    BY <1>3, <1>4
  <1>6. \A x : x \in Range(s \o t) => x \in Range(s) \cup Range(t)
    BY <1>5 DEF Range
  <1>7. ASSUME NEW x \in Range(s) PROVE x \in Range(s \o t)
    <2>1. PICK k \in 1 .. Len(s) : x = s[k]
      BY <1>5 DEF Range
    <2>2. k \in 1 .. Len(s) + Len(t) /\ k <= Len(s)
      BY <1>5
    <2> QED BY <1>5, <2>1, <2>2 DEF Range
  <1>8. ASSUME NEW x \in Range(t) PROVE x \in Range(s \o t)
    <2>1. PICK k \in 1 .. Len(t) : x = t[k]
      BY <1>5 DEF Range
    <2>2. Len(s) + k \in 1 .. Len(s) + Len(t) /\ ~(Len(s) + k <= Len(s)) /\ (Len(s) + k) - Len(s) = k
      BY <1>5
    <2> QED BY <1>5, <2>1, <2>2 DEF Range
  <1>9. ASSUME Distinct(s), Distinct(t), Range(s) \cap Range(t) = {} PROVE Distinct(s \o t)
    <2> SUFFICES ASSUME NEW i \in 1 .. Len(s) + Len(t), NEW j \in 1 .. Len(s) + Len(t),
                        (s \o t)[i] = (s \o t)[j]
                 PROVE  i = j
      BY <1>5 DEF Distinct
    <2>1. \A k \in 1 .. Len(s) + Len(t) : IF k <= Len(s) THEN k \in DOMAIN s /\ (s \o t)[k] = s[k]
                                          ELSE k - Len(s) \in DOMAIN t /\ (s \o t)[k] = t[k - Len(s)]
      BY <1>5
    <2>2. \A k \in DOMAIN s, l \in DOMAIN t : s[k] # t[l]
      BY <1>9 DEF Range
    <2>3. CASE i <= Len(s) /\ j <= Len(s)
      BY <1>9, <2>1, <2>3 DEF Distinct
    <2>4. CASE ~(i <= Len(s)) /\ ~(j <= Len(s))
      <3>1. i - Len(s) = j - Len(s)
        BY <1>9, <2>1, <2>4 DEF Distinct
      <3> QED BY <1>5, <3>1
    <2> QED BY <2>1, <2>2, <2>3, <2>4
  <1> QED BY <1>4, <1>6, <1>7, <1>8, <1>9 DEF IsSeq

\* A list of one.
LEMMA OneIs ==
  ASSUME NEW x
  PROVE  IsSeq(<<x>>) /\ Range(<<x>>) = {x} /\ Distinct(<<x>>)
  <1>1. <<x>> \in Seq({x}) /\ DOMAIN <<x>> = {1} /\ <<x>>[1] = x
    OBVIOUS
  <1> QED BY <1>1 DEF IsSeq, Range, Distinct

\* The empty list.
LEMMA NoneIs == IsSeq(<<>>) /\ Range(<<>>) = {} /\ Distinct(<<>>)
  <1>1. <<>> \in Seq({}) /\ DOMAIN <<>> = {}
    OBVIOUS
  <1> QED BY <1>1 DEF IsSeq, Range, Distinct

\* The linker's own sections and their kinds.
BuiltinIds == {"__ctors_start__", "__ctors_end__", "__dtors_start__", "__dtors_end__",
               "__reloctable__", "__bss_start__", "__bss_end__"}

KindOf(id) == IF id \in {"__ctors_start__", "__ctors_end__"} THEN {"CTOR"}
              ELSE IF id \in {"__dtors_start__", "__dtors_end__"} THEN {"DTOR"} ELSE {"BSS"}

\* Those that are always there.
Always == BuiltinIds \ {"__reloctable__"}

BuiltinsInv ==
    /\ \A s \in DOMAIN exe[0] : /\ exe[0][s].id \in BuiltinIds
                                /\ Kind(<<0, s>>) = KindOf(exe[0][s].id)
    /\ \A s, t \in DOMAIN exe[0] : exe[0][s].id = exe[0][t].id => s = t
    /\ phase \in {"resolve", "cdtors", "assign", "size", "save", "saved"} =>
          \A id \in Always : \E s \in DOMAIN exe[0] : exe[0][s].id = id

\* Each of them is there once.
LEMMA SectionMapIds ==
  ASSUME NEW reloc
  PROVE  LET sects == SectionMap(reloc)
         IN  /\ \A s \in DOMAIN sects : sects[s].id \in BuiltinIds /\ sects[s].flags = KindOf(sects[s].id)
             /\ \A s, t \in DOMAIN sects : sects[s].id = sects[t].id => s = t
             /\ \A id \in Always : \E s \in DOMAIN sects : sects[s].id = id
  <1> DEFINE a == AddBuiltin("__ctors_start__", "CTOR", 0)
             b == AddBuiltin("__ctors_end__", "CTOR", 0)
             c == AddBuiltin("__dtors_start__", "DTOR", 0)
             d == AddBuiltin("__dtors_end__", "DTOR", 0)
             e == AddBuiltin("__reloctable__", "BSS", 0)
             f == AddBuiltin("__bss_start__", "BSS", 4)
             g == AddBuiltin("__bss_end__", "BSS", 4)
             sects == SectionMap(reloc)
  <1>1. /\ a.id = "__ctors_start__" /\ a.flags = {"CTOR"} /\ b.id = "__ctors_end__" /\ b.flags = {"CTOR"}
        /\ c.id = "__dtors_start__" /\ c.flags = {"DTOR"} /\ d.id = "__dtors_end__" /\ d.flags = {"DTOR"}
        /\ e.id = "__reloctable__" /\ e.flags = {"BSS"}
        /\ f.id = "__bss_start__" /\ f.flags = {"BSS"} /\ g.id = "__bss_end__" /\ g.flags = {"BSS"}
    BY BuiltinIs
  <1>2. sects = <<a, b, c, d>> \o (IF reloc THEN <<e>> ELSE <<>>) \o <<f, g>>
    BY DEF SectionMap
  <1> HIDE DEF a, b, c, d, e, f, g, sects
  <1>3. CASE reloc
    <2>1. /\ DOMAIN sects = 1 .. 7
          /\ sects[1] = a /\ sects[2] = b /\ sects[3] = c /\ sects[4] = d /\ sects[5] = e
          /\ sects[6] = f /\ sects[7] = g
      BY <1>2, <1>3
    <2>2. \A s \in DOMAIN sects : s \in {1, 2, 3, 4, 5, 6, 7}
      BY <2>1
    <2>3. \A s \in DOMAIN sects : sects[s].id \in BuiltinIds /\ sects[s].flags = KindOf(sects[s].id)
      BY <1>1, <2>1, <2>2 DEF BuiltinIds, KindOf
    <2>4. \A s, t \in DOMAIN sects : sects[s].id = sects[t].id => s = t
      BY <1>1, <2>1, <2>2
    <2>5. \A id \in Always : \E s \in DOMAIN sects : sects[s].id = id
      BY <1>1, <2>1 DEF Always, BuiltinIds
    <2> QED BY <2>3, <2>4, <2>5 DEF sects
  <1>4. CASE ~reloc
    <2>1. /\ DOMAIN sects = 1 .. 6
          /\ sects[1] = a /\ sects[2] = b /\ sects[3] = c /\ sects[4] = d
          /\ sects[5] = f /\ sects[6] = g
      BY <1>2, <1>4
    <2>2. \A s \in DOMAIN sects : s \in {1, 2, 3, 4, 5, 6}
      BY <2>1
    <2>3. \A s \in DOMAIN sects : sects[s].id \in BuiltinIds /\ sects[s].flags = KindOf(sects[s].id)
      BY <1>1, <2>1, <2>2 DEF BuiltinIds, KindOf
    <2>4. \A s, t \in DOMAIN sects : sects[s].id = sects[t].id => s = t
      BY <1>1, <2>1, <2>2
    <2>5. \A id \in Always : \E s \in DOMAIN sects : sects[s].id = id
      BY <1>1, <2>1 DEF Always, BuiltinIds
    <2> QED BY <2>3, <2>4, <2>5 DEF sects
  <1> QED BY <1>3, <1>4

\* So its name finds it.
LEMMA BuiltinPlace ==
  ASSUME ExeOK, BuiltinsInv, NEW s \in DOMAIN exe[0]
  PROVE  Builtin(exe[0][s].id) = <<0, s>> /\ HasBuiltin(exe[0][s].id) /\ <<0, s>> \in Places
  <1> DEFINE id == exe[0][s].id
             I == {i \in 1 .. Len(exe[0]) : exe[0][i].id = id}
  <1>1. Len(exe[0]) \in Nat /\ DOMAIN exe[0] = 1 .. Len(exe[0]) /\ 0 \in DOMAIN exe
    <2>1. 0 \in DOMAIN exe /\ IsSeq(exe[0])
      BY DEF ExeOK
    <2> QED BY <2>1, SeqIsFunction
  <1>2. Builtin(id) = <<0, IF I # {} THEN Min(I) ELSE 0>>
    BY DEF Builtin, SelectInSeq
  <1>3. I = {s}
    BY <1>1 DEF BuiltinsInv
  <1>4. Min(I) = s
    BY <1>3 DEF Min
  <1>5. Builtin(id) = <<0, s>>
    BY <1>2, <1>3, <1>4
  <1>6. HasBuiltin(id)
    BY DEF HasBuiltin
  <1> QED BY <1>1, <1>5, <1>6, PlacesAre

\* Whatever keeps the shape of the executable keeps them.
LEMMA BuiltinsStay ==
  ASSUME ExeOK, BuiltinsInv, NEW t, Shaped(t),
         LET linking == {"resolve", "cdtors", "assign", "size", "save", "saved"}
         IN  phase' \in linking => phase \in linking
  PROVE  BuiltinsInv'
  <1>1. 0 \in DOMAIN exe
    BY DEF ExeOK
  <1>2. DOMAIN exe'[0] = DOMAIN exe[0] /\ \A s \in DOMAIN exe[0] : exe'[0][s].id = exe[0][s].id
    BY <1>1 DEF Shaped
  <1>3. \A s \in DOMAIN exe[0] : Kind(<<0, s>>)' = Kind(<<0, s>>)
    BY <1>1, ShapeKeeps, PlacesAre
  <1> QED BY <1>2, <1>3 DEF BuiltinsInv

\* A name finds the same one then.
LEMMA BuiltinStays ==
  ASSUME ExeOK, ExeOK', BuiltinsInv, NEW t, Shaped(t), NEW s \in DOMAIN exe[0], NEW id, exe[0][s].id = id
  PROVE  Builtin(id)' = <<0, s>>
  <1> DEFINE I == {i \in 1 .. Len(exe[0]) : exe[0][i].id = id}
  <1>1. Len(exe[0]) \in Nat /\ DOMAIN exe[0] = 1 .. Len(exe[0]) /\ 0 \in DOMAIN exe
    <2>1. 0 \in DOMAIN exe /\ IsSeq(exe[0])
      BY DEF ExeOK
    <2> QED BY <2>1, SeqIsFunction
  <1>2. DOMAIN exe'[0] = DOMAIN exe[0] /\ \A i \in DOMAIN exe[0] : exe'[0][i].id = exe[0][i].id
    BY <1>1 DEF Shaped
  <1>3. Builtin(id)' = <<0, IF I' # {} THEN Min(I') ELSE 0>>
    BY DEF Builtin, SelectInSeq
  <1>4. I' = {s}
    <2>1. 0 \in DOMAIN exe' /\ IsSeq(exe'[0])
      BY <1>1 DEF ExeOK, Shaped
    <2>2. DOMAIN exe'[0] = 1 .. Len(exe'[0])
      BY <2>1, SeqIsFunction
    <2> QED BY <1>2, <2>2 DEF BuiltinsInv
  <1>5. Min(I') = s
    BY <1>4 DEF Min
  <1> QED BY <1>3, <1>4, <1>5

\* They stay what they are.
LEMMA NextBuiltins ==
  LoadedInv /\ ExeOK /\ BuiltinsInv /\ [LinkNext]_linkvars => BuiltinsInv'
  <1> SUFFICES ASSUME LoadedInv, ExeOK, BuiltinsInv, [LinkNext]_linkvars PROVE BuiltinsInv'
    OBVIOUS
  <1> DEFINE Linking == {"resolve", "cdtors", "assign", "size", "save", "saved"}
  <1>1. CASE Link
    <2>1. exe'[0] = SectionMap(opts.reloc)
      BY <1>1, LinkIs
    <2>2. \A id \in BuiltinIds : KindOf(id) \cap {"CTOR", "DTOR", "BSS"} = KindOf(id)
      BY DEF KindOf
    <2>3. /\ \A s \in DOMAIN exe'[0] :
                exe'[0][s].id \in BuiltinIds /\ exe'[0][s].flags = KindOf(exe'[0][s].id)
          /\ \A s, t \in DOMAIN exe'[0] : exe'[0][s].id = exe'[0][t].id => s = t
          /\ \A id \in Always : \E s \in DOMAIN exe'[0] : exe'[0][s].id = id
      BY <2>1, SectionMapIds
    <2>4. \A s : Kind(<<0, s>>)' = exe'[0][s].flags \cap {"CTOR", "DTOR", "BSS"}
      BY DEF Kind, At
    <2>5. \A s \in DOMAIN exe'[0] : Kind(<<0, s>>)' = KindOf(exe'[0][s].id)
      BY <2>2, <2>3, <2>4
    <2> QED BY <2>3, <2>5 DEF BuiltinsInv
  <1>2. ASSUME NEW t, Shaped(t), phase' \in Linking => phase \in Linking PROVE BuiltinsInv'
    BY <1>2, BuiltinsStay
  <1>3. CASE PassSymbol \/ SectionResolved \/ Unresolved \/ Save \/ LinkArgument \/ DeclareNext \/ UNCHANGED linkvars
    <2>1. UNCHANGED exe /\ (phase' \in Linking => phase \in Linking)
      BY <1>3 DEF PassSymbol, SectionResolved, Unresolved, Save, LinkArgument, DeclareNext, linkvars
    <2> QED BY <1>2, <2>1, SameShape
  <1>4. CASE ResolveOne
    <2>1. phase' \in Linking => phase \in Linking
      BY <1>4 DEF ResolveOne
    <2>2. UNCHANGED exe \/ \E at, r, t : ExeResolved(at, r, t)
      BY <1>4, ResolveOneIs
    <2> QED BY <1>2, <2>1, <2>2, SameShape, ResolvedShape
  <1>5. CASE ResolveCdtor
    <2>1. phase' \in Linking => phase \in Linking
      BY <1>5 DEF ResolveCdtor
    <2>2. UNCHANGED exe \/ \E at, r, t : ExeResolved(at, r, t)
      BY <1>5, ResolveCdtorIs
    <2> QED BY <1>2, <2>1, <2>2, SameShape, ResolvedShape
  <1>6. CASE Populate
    <2>1. ExeRelaxed /\ (phase' \in Linking => phase \in Linking)
      BY <1>6, SizedRelaxes DEF Populate
    <2> QED BY <1>2, <2>1, RelaxedShape
  <1>7. CASE AssignAll
    <2>1. ExeRelaxed /\ (phase' \in Linking => phase \in Linking)
      BY <1>7, AssignedRelaxes DEF AssignAll
    <2> QED BY <1>2, <2>1, RelaxedShape
  <1>8. CASE SizeAll
    <2>1. ExeRelaxed /\ (phase' \in Linking => phase \in Linking)
      BY <1>8, SizedRelaxes DEF SizeAll
    <2> QED BY <1>2, <2>1, RelaxedShape
  <1> QED BY <1>1, <1>3, <1>4, <1>5, <1>6, <1>7, <1>8 DEF LinkNext

\* What is kept is in the map unless that passes over it.
Mapped == \A p \in Kept : PassedOver(p) \/ p \in Range(entries)

MapInv == phase \in {"assign", "size", "save", "saved"} => Mapped

\* A section has no kind, one, or several.
LEMMA KindsAre ==
  ASSUME NEW p, ~(Cardinality(Kind(p)) > 1)
  PROVE  Kind(p) \in {{}, {"CTOR"}, {"DTOR"}, {"BSS"}}
  <1> DEFINE S == {"CTOR", "DTOR", "BSS"}
  <1>1. IsFiniteSet({"CTOR"}) /\ IsFiniteSet({"CTOR", "DTOR"}) /\ IsFiniteSet(S)
    <2>1. IsFiniteSet({"CTOR"})
      BY FS_Singleton
    <2>2. IsFiniteSet({"CTOR"} \cup {"DTOR"})
      BY <2>1, FS_AddElement
    <2>3. IsFiniteSet(({"CTOR"} \cup {"DTOR"}) \cup {"BSS"})
      BY <2>2, FS_AddElement
    <2>4. {"CTOR"} \cup {"DTOR"} = {"CTOR", "DTOR"} /\ ({"CTOR"} \cup {"DTOR"}) \cup {"BSS"} = S
      OBVIOUS
    <2> QED BY <2>1, <2>2, <2>3, <2>4
  <1>2. Kind(p) \in SUBSET S
    BY DEF Kind
  <1> HIDE DEF S
  <1>3. IsFiniteSet(Kind(p)) /\ Cardinality(Kind(p)) \in Nat
    BY <1>1, <1>2, FS_Subset, FS_CardinalityType
  <1>4. Kind(p) = {} \/ \E x : Kind(p) = {x}
    <2>1. Cardinality(Kind(p)) = 0 \/ Cardinality(Kind(p)) = 1
      BY <1>3
    <2>2. CASE Cardinality(Kind(p)) = 0
      BY <1>3, <2>2, FS_EmptySet
    <2>3. CASE Cardinality(Kind(p)) = 1
      BY <1>3, <2>3, FS_Singleton
    <2> QED BY <2>1, <2>2, <2>3
  <1> QED BY <1>2, <1>4 DEF S

\* The sections that are kept, by their kinds.
KeptOf(kind) == {p \in Sections : Has(At(p), "TOUCHED") /\ Kind(p) = kind}

\* The kinds share no sections, and the linker's own ones are none of them.
LEMMA KeptApart ==
  ASSUME ExeOK
  PROVE  /\ \A k, l : k # l => KeptOf(k) \cap KeptOf(l) = {}
         /\ \A p \in Builtins : \A k : p \notin KeptOf(k)
  <1>1. \A p \in Builtins : p \notin Sections
    BY PlacesAre DEF Places
  <1> QED BY <1>1 DEF KeptOf

\* What is in the map when it is made: nothing is there twice.
LEMMA PopulateIs ==
  ASSUME ExeOK, BuiltinsInv, Populate
  PROVE  LET started == Has(At(Builtin("__ctors_start__")), "TOUCHED")
             lists   == IF started
                        THEN KeptOf({"CTOR"}) \cup KeptOf({"DTOR"}) \cup
                             {Builtin("__ctors_start__"), Builtin("__ctors_end__"),
                              Builtin("__dtors_start__"), Builtin("__dtors_end__")}
                        ELSE {}
             table   == IF HasBuiltin("__reloctable__") THEN {Builtin("__reloctable__")} ELSE {}
         IN  /\ IsSeq(entries') /\ Distinct(entries')
             /\ Range(entries') = KeptOf({}) \cup lists \cup table \cup {Builtin("__bss_start__")}
                                    \cup KeptOf({"BSS"}) \cup {Builtin("__bss_end__")}
  <1>1. PICK ctors \in Sorted(Matching({"CTOR"})), dtors \in Sorted(Matching({"DTOR"})) :
          LET lists == IF Has(At(Builtin("__ctors_start__")), "TOUCHED")
                       THEN <<Builtin("__ctors_start__")>> \o ctors \o <<Builtin("__ctors_end__")>>
                            \o <<Builtin("__dtors_start__")>> \o dtors \o <<Builtin("__dtors_end__")>>
                       ELSE <<>>
              table == IF HasBuiltin("__reloctable__") THEN <<Builtin("__reloctable__")>> ELSE <<>>
          IN  entries' = Matching({}) \o lists \o table \o <<Builtin("__bss_start__")>>
                            \o Matching({"BSS"}) \o <<Builtin("__bss_end__")>>
    BY DEF Populate
  <1> DEFINE started == Has(At(Builtin("__ctors_start__")), "TOUCHED")
             lists == IF started
                      THEN <<Builtin("__ctors_start__")>> \o ctors \o <<Builtin("__ctors_end__")>>
                           \o <<Builtin("__dtors_start__")>> \o dtors \o <<Builtin("__dtors_end__")>>
                      ELSE <<>>
             table == IF HasBuiltin("__reloctable__") THEN <<Builtin("__reloctable__")>> ELSE <<>>
             cs == Builtin("__ctors_start__")
             ce == Builtin("__ctors_end__")
             ds == Builtin("__dtors_start__")
             de == Builtin("__dtors_end__")
             rt == Builtin("__reloctable__")
             bs == Builtin("__bss_start__")
             be == Builtin("__bss_end__")
             C == KeptOf({"CTOR"})
             D == KeptOf({"DTOR"})
             B == KeptOf({"BSS"})
             T == KeptOf({})
  <1>a. /\ \A p \in {cs, ce, ds, de, bs, be} : p \in Builtins
        /\ cs \notin {ce, ds, de, bs, be} /\ ce \notin {ds, de, bs, be} /\ ds \notin {de, bs, be}
        /\ de \notin {bs, be} /\ bs # be
        /\ HasBuiltin("__reloctable__") => rt \in Builtins /\ rt \notin {cs, ce, ds, de, bs, be}
    <2> DEFINE There(id) == id \in BuiltinIds /\ (id \in Always \/ HasBuiltin(id))
    <2>1. ASSUME NEW id, There(id)
          PROVE  \E i \in DOMAIN exe[0] : exe[0][i].id = id /\ Builtin(id) = <<0, i>> /\ <<0, i>> \in Builtins
      <3>1. PICK i \in DOMAIN exe[0] : exe[0][i].id = id
        BY <2>1 DEF HasBuiltin, BuiltinsInv, Populate
      <3> QED BY <3>1, BuiltinPlace DEF Builtins
    <2>2. ASSUME NEW id, There(id), NEW jd, There(jd), Builtin(id) = Builtin(jd) PROVE id = jd
      <3> HIDE DEF There
      <3>1. PICK i : exe[0][i].id = id /\ Builtin(id) = <<0, i>>
        BY <2>1, <2>2
      <3>2. PICK j : exe[0][j].id = jd /\ Builtin(jd) = <<0, j>>
        BY <2>1, <2>2
      <3>3. i = j
        <4>1. Builtin(id)[2] = i /\ Builtin(jd)[2] = j
          BY <3>1, <3>2
        <4> QED BY <2>2, <4>1
      <3> QED BY <3>1, <3>2, <3>3
    <2>3. /\ There("__ctors_start__") /\ There("__ctors_end__") /\ There("__dtors_start__")
          /\ There("__dtors_end__") /\ There("__bss_start__") /\ There("__bss_end__")
          /\ HasBuiltin("__reloctable__") => There("__reloctable__")
      BY DEF Always, BuiltinIds
    <2> HIDE DEF There
    <2>4. \A id : There(id) => Builtin(id) \in Builtins
      BY <2>1
    <2>5. \A id, jd : There(id) /\ There(jd) /\ id # jd => Builtin(id) # Builtin(jd)
      BY <2>2
    <2> QED BY <2>3, <2>4, <2>5
  <1>b. /\ \A p \in Builtins : p \notin C /\ p \notin D /\ p \notin B /\ p \notin T
        /\ C \cap D = {} /\ C \cap B = {} /\ C \cap T = {} /\ D \cap B = {} /\ D \cap T = {} /\ B \cap T = {}
    <2>1. /\ {"CTOR"} # {"DTOR"} /\ {"CTOR"} # {"BSS"} /\ {"CTOR"} # {} /\ {"DTOR"} # {"BSS"}
          /\ {"DTOR"} # {} /\ {"BSS"} # {}
      OBVIOUS
    <2> QED BY <2>1, KeptApart
  <1> HIDE DEF C, D, B, T, cs, ce, ds, de, rt, bs, be
  <1>2. \A kind : IsSeq(Matching(kind)) /\ Range(Matching(kind)) = KeptOf(kind) /\ Distinct(Matching(kind))
    <2> SUFFICES ASSUME NEW kind
                 PROVE  IsSeq(Matching(kind)) /\ Range(Matching(kind)) = KeptOf(kind) /\ Distinct(Matching(kind))
      OBVIOUS
    <2>1. Matching(kind) = InOrder(KeptOf(kind)) /\ KeptOf(kind) \in SUBSET Sections
      BY DEF Matching, KeptOf
    <2> QED BY <2>1, InOrderIs
  <1>3. /\ IsSeq(ctors) /\ Range(ctors) = C /\ Distinct(ctors)
        /\ IsSeq(dtors) /\ Range(dtors) = D /\ Distinct(dtors)
    BY <1>2, SortedIs DEF C, D
  <1>3a. /\ IsSeq(Matching({})) /\ Range(Matching({})) = T /\ Distinct(Matching({}))
         /\ IsSeq(Matching({"BSS"})) /\ Range(Matching({"BSS"})) = B /\ Distinct(Matching({"BSS"}))
    BY <1>2 DEF T, B
  <1>4. /\ IsSeq(lists) /\ Distinct(lists)
        /\ Range(lists) = IF started THEN C \cup D \cup {cs, ce, ds, de} ELSE {}
    <2> HIDE DEF started
    <2>1. CASE started
      <3> DEFINE l1 == <<cs>> \o ctors
                 l2 == l1 \o <<ce>>
                 l3 == l2 \o <<ds>>
                 l4 == l3 \o dtors
      <3>1. IsSeq(l1) /\ Range(l1) = {cs} \cup C /\ Distinct(l1)
        <4>1. {cs} \cap C = {}
          BY <1>a, <1>b
        <4> QED BY <1>3, <4>1, CatIs, OneIs
      <3>2. lists = l4 \o <<de>>
        BY <2>1 DEF cs, ce, ds, de
      <3> HIDE DEF l1
      <3>3. IsSeq(l2) /\ Range(l2) = {cs, ce} \cup C /\ Distinct(l2)
        <4>1. Range(l1) \cap {ce} = {}
          BY <1>a, <1>b, <3>1
        <4> QED BY <3>1, <4>1, CatIs, OneIs
      <3> HIDE DEF l2
      <3>4. IsSeq(l3) /\ Range(l3) = {cs, ce, ds} \cup C /\ Distinct(l3)
        <4>1. Range(l2) \cap {ds} = {}
          BY <1>a, <1>b, <3>3
        <4> QED BY <3>3, <4>1, CatIs, OneIs
      <3> HIDE DEF l3
      <3>5. IsSeq(l4) /\ Range(l4) = {cs, ce, ds} \cup C \cup D /\ Distinct(l4)
        <4>1. Range(l3) \cap D = {}
          BY <1>a, <1>b, <3>4
        <4> QED BY <1>3, <3>4, <4>1, CatIs
      <3> HIDE DEF l4, lists
      <3>6. IsSeq(lists) /\ Range(lists) = {cs, ce, ds, de} \cup C \cup D /\ Distinct(lists)
        <4>1. Range(l4) \cap {de} = {}
          BY <1>a, <1>b, <3>5
        <4> QED BY <3>2, <3>5, <4>1, CatIs, OneIs
      <3> QED BY <2>1, <3>6
    <2>2. CASE ~started
      <3>1. lists = <<>>
        BY <2>2
      <3> HIDE DEF lists
      <3> QED BY <2>2, <3>1, NoneIs
    <2> QED BY <2>1, <2>2
  <1>5. /\ IsSeq(table) /\ Distinct(table)
        /\ Range(table) = IF HasBuiltin("__reloctable__") THEN {rt} ELSE {}
    BY OneIs, NoneIs DEF rt
  <1>6. entries' = Matching({}) \o lists \o table \o <<bs>> \o Matching({"BSS"}) \o <<be>>
    BY <1>1 DEF bs, be
  <1> HIDE DEF lists, table
  <1>7. /\ IsSeq(entries') /\ Distinct(entries')
        /\ Range(entries') = T \cup Range(lists) \cup Range(table) \cup {bs} \cup B \cup {be}
    <2> DEFINE l1 == Matching({}) \o lists
               l2 == l1 \o table
               l3 == l2 \o <<bs>>
               l4 == l3 \o Matching({"BSS"})
    <2>1. IsSeq(l1) /\ Range(l1) = T \cup Range(lists) /\ Distinct(l1)
      <3>1. T \cap Range(lists) = {}
        BY <1>a, <1>b, <1>4
      <3> QED BY <1>3a, <1>4, <3>1, CatIs
    <2>2. entries' = l4 \o <<be>>
      BY <1>6
    <2> HIDE DEF l1
    <2>3. IsSeq(l2) /\ Range(l2) = T \cup Range(lists) \cup Range(table) /\ Distinct(l2)
      <3>1. Range(l1) \cap Range(table) = {}
        BY <1>a, <1>b, <1>4, <1>5, <2>1
      <3> QED BY <1>5, <2>1, <3>1, CatIs
    <2> HIDE DEF l2
    <2>4. IsSeq(l3) /\ Range(l3) = T \cup Range(lists) \cup Range(table) \cup {bs} /\ Distinct(l3)
      <3>1. Range(l2) \cap {bs} = {}
        BY <1>a, <1>b, <1>4, <1>5, <2>3
      <3> QED BY <2>3, <3>1, CatIs, OneIs
    <2> HIDE DEF l3
    <2>5. IsSeq(l4) /\ Range(l4) = T \cup Range(lists) \cup Range(table) \cup {bs} \cup B /\ Distinct(l4)
      <3>1. Range(l3) \cap B = {}
        BY <1>a, <1>b, <1>4, <1>5, <2>4
      <3> QED BY <1>3a, <2>4, <3>1, CatIs
    <2> HIDE DEF l4
    <2>6. IsSeq(entries') /\ Range(entries') = Range(l4) \cup {be} /\ Distinct(entries')
      <3>1. Range(l4) \cap {be} = {}
        BY <1>a, <1>b, <1>4, <1>5, <2>5
      <3> QED BY <2>2, <2>5, <3>1, CatIs, OneIs
    <2> QED BY <2>5, <2>6
  <1> HIDE DEF started
  <1> QED BY <1>4, <1>5, <1>7 DEF started, C, D, B, T, cs, ce, ds, de, rt, bs, be

\* What is kept is in the map when that is made.
LEMMA PopulateMaps ==
  ASSUME ExeOK, BuiltinsInv, Populate
  PROVE  Mapped'
  <1> DEFINE started == Has(At(Builtin("__ctors_start__")), "TOUCHED")
             lists == IF started
                      THEN KeptOf({"CTOR"}) \cup KeptOf({"DTOR"}) \cup
                           {Builtin("__ctors_start__"), Builtin("__ctors_end__"),
                            Builtin("__dtors_start__"), Builtin("__dtors_end__")}
                      ELSE {}
             table == IF HasBuiltin("__reloctable__") THEN {Builtin("__reloctable__")} ELSE {}
  <1>7. Range(entries') = KeptOf({}) \cup lists \cup table \cup {Builtin("__bss_start__")}
                             \cup KeptOf({"BSS"}) \cup {Builtin("__bss_end__")}
    BY PopulateIs
  <1>8. Shaped(None) /\ None \notin Places /\ ExeOK'
    BY SizedRelaxes, RelaxedShape, RelaxedOK, PlacesAre DEF Populate, None
  <1>9. PICK c \in DOMAIN exe[0] : exe[0][c].id = "__ctors_start__"
    BY DEF BuiltinsInv, Populate, Always, BuiltinIds
  <1>10. Builtin("__ctors_start__") = <<0, c>> /\ <<0, c>> \in Places
    BY <1>9, BuiltinPlace
  <1>11. Builtin("__ctors_start__")' = <<0, c>>
    BY <1>8, <1>9, <1>10, BuiltinStays
  <1>12. started' <=> started
    <2>1. At(<<0, c>>)'.flags = At(<<0, c>>).flags
      <3>1. /\ <<0, c>> # None
            /\ At(<<0, c>>)'.flags = At(<<0, c>>).flags \cup (IF <<0, c>> = None THEN {"TOUCHED"} ELSE {})
        BY <1>8, <1>10, ShapeKeeps
      <3> QED BY <3>1
    <2>2. started' <=> "TOUCHED" \in At(<<0, c>>)'.flags
      BY <1>11 DEF Has
    <2>3. started <=> "TOUCHED" \in At(<<0, c>>).flags
      BY <1>10 DEF Has
    <2> QED BY <2>1, <2>2, <2>3
  <1>13. SUFFICES ASSUME NEW p \in Kept', ~PassedOver(p)'
                  PROVE  p \in Range(entries')
    BY DEF Mapped
  <1>14. p \in Kept /\ p \in Places /\ Kind(p)' = Kind(p) /\ Has(At(p), "TOUCHED")
    BY <1>8, <1>13, ShapeKeeps DEF Kept, Places
  <1>15. /\ ~(Cardinality(Kind(p)) > 1)
         /\ Kind(p) \in {{"CTOR"}, {"DTOR"}} => started
    BY <1>12, <1>13, <1>14 DEF PassedOver
  <1> HIDE DEF started
  <1>16. Kind(p) \in {{}, {"CTOR"}, {"DTOR"}, {"BSS"}}
    BY <1>14, <1>15, KindsAre
  <1>17. CASE p \in Sections
    <2>1. p \in KeptOf(Kind(p))
      BY <1>14, <1>17 DEF KeptOf
    <2>2. CASE Kind(p) = {} \/ Kind(p) = {"BSS"}
      BY <1>7, <2>1, <2>2
    <2>3. CASE Kind(p) = {"CTOR"} \/ Kind(p) = {"DTOR"}
      BY <1>7, <1>15, <2>1, <2>3
    <2> QED BY <1>16, <2>2, <2>3
  <1>18. CASE p \in Builtins
    <2>1. PICK s \in DOMAIN exe[0] : p = <<0, s>>
      BY <1>18 DEF Builtins
    <2> DEFINE id == exe[0][s].id
    <2>2. p = Builtin(id) /\ HasBuiltin(id)
      BY <2>1, BuiltinPlace
    <2>3. id \in BuiltinIds /\ Kind(p) = KindOf(id)
      BY <2>1 DEF BuiltinsInv
    <2> HIDE DEF id
    <2>4. CASE id \in {"__ctors_start__", "__ctors_end__", "__dtors_start__", "__dtors_end__"}
      <3>1. started
        BY <1>15, <2>3, <2>4 DEF KindOf
      <3> QED BY <1>7, <2>2, <2>4, <3>1
    <2>5. CASE id = "__reloctable__"
      BY <1>7, <2>2, <2>5
    <2>6. CASE id \in {"__bss_start__", "__bss_end__"}
      BY <1>7, <2>2, <2>6
    <2> QED BY <2>3, <2>4, <2>5, <2>6 DEF BuiltinIds
  <1> QED BY <1>14, <1>17, <1>18 DEF Places

\* It stays there: no section is touched any more, and the map stays.
LEMMA NextMaps ==
  LoadedInv /\ ExeOK /\ BuiltinsInv /\ MapInv /\ [LinkNext]_linkvars => MapInv'
  <1> SUFFICES ASSUME LoadedInv, ExeOK, BuiltinsInv, MapInv, [LinkNext]_linkvars,
                      phase' \in {"assign", "size", "save", "saved"}
               PROVE  Mapped'
    BY DEF MapInv
  <1>1. CASE Populate
    BY <1>1, PopulateMaps
  <1>2. ASSUME phase \in {"assign", "size", "save", "saved"}, Shaped(None), ExeOK', UNCHANGED entries
        PROVE  Mapped'
    <2>1. PICK c \in DOMAIN exe[0] : exe[0][c].id = "__ctors_start__"
      BY <1>2 DEF BuiltinsInv, Always, BuiltinIds
    <2>2. /\ Builtin("__ctors_start__") = <<0, c>> /\ <<0, c>> \in Places
          /\ Builtin("__ctors_start__")' = <<0, c>>
      BY <1>2, <2>1, BuiltinPlace, BuiltinStays
    <2>3. None \notin Places
      BY PlacesAre DEF None
    <2>4. At(<<0, c>>)'.flags = At(<<0, c>>).flags
      <3>1. /\ <<0, c>> # None
            /\ At(<<0, c>>)'.flags = At(<<0, c>>).flags \cup (IF <<0, c>> = None THEN {"TOUCHED"} ELSE {})
        BY <1>2, <2>2, <2>3, ShapeKeeps
      <3> QED BY <3>1
    <2> SUFFICES ASSUME NEW p \in Kept' PROVE PassedOver(p)' \/ p \in Range(entries')
      BY DEF Mapped
    <2>5. p \in Kept /\ Kind(p)' = Kind(p)
      BY <1>2, <2>3, ShapeKeeps DEF Kept, Places
    <2>6. PassedOver(p) \/ p \in Range(entries)
      BY <1>2, <2>5 DEF MapInv, Mapped
    <2>7. PassedOver(p) => PassedOver(p)'
      BY <2>2, <2>4, <2>5 DEF PassedOver, Has
    <2> QED BY <1>2, <2>6, <2>7
  <1>3. CASE AssignAll
    BY <1>2, <1>3, AssignedRelaxes, RelaxedShape, RelaxedOK DEF AssignAll
  <1>4. CASE SizeAll
    BY <1>2, <1>4, SizedRelaxes, RelaxedShape, RelaxedOK DEF SizeAll, layout
  <1>5. CASE Save \/ UNCHANGED linkvars
    <2>1. UNCHANGED <<exe, entries>> /\ phase \in {"assign", "size", "save", "saved"}
      BY <1>5 DEF Save, linkvars, layout
    <2>2. ExeOK'
      BY <2>1 DEF ExeOK
    <2> QED BY <1>2, <2>1, <2>2, SameShape
  <1>6. CASE LinkArgument \/ DeclareNext \/ Link \/ PassSymbol \/ ResolveOne \/ SectionResolved
             \/ ResolveCdtor \/ Unresolved
    BY <1>6 DEF LinkArgument, DeclareNext, Link, PassSymbol, ResolveOne, SectionResolved,
                ResolveCdtor, Unresolved
  <1> QED BY <1>1, <1>3, <1>4, <1>5, <1>6 DEF LinkNext

\* For any arguments and object files, nothing that is used is left out: every reference
\* of a section that is kept means a definition of its name in a section that is kept,
\* and the sections that are kept are in the map.
THEOREM NothingIsLeftOut ==
  ASSUME NEW CONSTANT arguments
  PROVE  LinkSpec(arguments) /\ []ObjectFiles => []NothingLeftOut
  <1> DEFINE Inv == LoadedInv /\ ExeOK /\ ClosureInv /\ BuiltinsInv /\ MapInv
  <1>1. LinkInit(arguments) => Inv
    <2> SUFFICES ASSUME LinkInit(arguments) PROVE Inv
      OBVIOUS
    <2>1. <<>> \in Seq({}) /\ DOMAIN <<>> = {}
      OBVIOUS
    <2>2. LoadedInv /\ ExeOK
      BY <2>1 DEF LinkInit, LoadedInv, ExeOK, IsSeq
    <2>3. phase = "arguments" /\ DOMAIN exe[0] = {}
      BY <2>1 DEF LinkInit
    <2> QED BY <2>2, <2>3 DEF ClosureInv, BuiltinsInv, MapInv
  <1>2. Inv /\ ObjectFiles /\ [LinkNext]_linkvars => Inv'
    BY NextLoaded, NextExe, NextCloses, NextBuiltins, NextMaps
  <1>3. Inv => NothingLeftOut
    BY DEF ClosureInv, Closed, MapInv, Mapped, NothingLeftOut
  <1> HIDE DEF Inv
  <1> QED BY <1>1, <1>2, <1>3, PTL DEF LinkSpec
=============================================================================
