------------------------------- MODULE TempObjs -------------------------------
(***************************************************************************)
(* The lowest layer of vbcc's backend for the 832 (vbcc/machines/832/      *)
(* machine.c and tempregs.c): the code emitted to bring a value or an      *)
(* address into a register, and the records of what tmp and r0 hold that   *)
(* spare some of that code.                                                *)
(*                                                                         *)
(* Every operator that emits takes the state of the code generator, a      *)
(* record g, as its first argument and returns the next one:               *)
(*   out      the instructions and directives emitted, one a line           *)
(*   temps    what is known of tmp (0) and r0 (1): [reg, o], reg 0 if      *)
(*            nothing is                                                   *)
(*   pushed, notyetpopped, localsize, rsavesize     the stack frame        *)
(*   and what the modules above this one need.                             *)
(* Registers have vbcc's numbers: 1 to 8 for r0 to r7, 9 for tmp.          *)
(***************************************************************************)
EXTENDS Integers, Sequences, FiniteSets

CONSTANTS
    Vars,         \* the variables of the program: [sc, off, id]
    FuzzyChunks,  \* constants of fewer li than this are never derived from others
    WordBits,     \* bits of a word
    None

NoReg == 0
T1  == 1          \* r0
T2  == 2          \* r1
SP  == 7
PC  == 8
TMP == 9

Line(op, r)      == <<[op |-> op, reg |-> r, sym |-> "", val |-> 0]>>
Bare(op)         == Line(op, NoReg)
Sym(op, s, off)  == <<[op |-> op, reg |-> NoReg, sym |-> s, val |-> off]>>
LiConst(v)       == Sym(".liconst", "", v)

Emit(g, line)    == [g EXCEPT !.out = @ \o line]
EmitIf(g, b, line) == IF b THEN Emit(g, line) ELSE g

\* Integers are words with a sign.
Word(v) == ((v + 2 ^ (WordBits - 1)) % 2 ^ WordBits) - 2 ^ (WordBits - 1)

(***************************************************************************)
(* Objects: [flags, reg, v, val, am]                                       *)
(***************************************************************************)

NoAm   == [type |-> "none", disposable |-> FALSE, deferredpop |-> "none"]
Object == [flags |-> {}, reg |-> NoReg, v |-> None, val |-> 0, am |-> NoAm]

Has(o, flag) == flag \in o.flags
isreg(o)     == Has(o, "REG") /\ ~Has(o, "DREF")
isconst(o)   == Has(o, "KONST") /\ ~Has(o, "DREF")
sc(o)        == Vars[o.v].sc
isauto(o)    == Has(o, "VAR") /\ sc(o) = "auto"

\* The type without its sign.
NQ(t)        == CASE t = "uchar" -> "char" [] t = "ushort" -> "short" [] t = "uint" -> "int" [] OTHER -> t
unsigned(t)  == t \in {"uchar", "ushort", "uint"}
composite(t) == t \in {"struct", "array"}
sizetab(t)   == CASE NQ(t) = "char" -> 1 [] NQ(t) = "short" -> 2 [] OTHER -> 4

isstackparam(o) == isauto(o) /\ ~Has(o, "REG") /\ Vars[o.v].off < 0

\* The distance of a variable from the stack pointer.
real_offset(g, o) ==
    LET at   == IF isauto(o) THEN Vars[o.v].off ELSE 0
        base == g.pushed + g.notyetpopped + (IF at < 0 THEN g.localsize + g.rsavesize + 4 - at - 4 ELSE at)
    IN  IF isstackparam(o) THEN ((base + o.val) \div 4) * 4 ELSE base + o.val

istopstackslot(g, o) ==
    o.flags \cap {"VAR", "REG", "DREF"} = {"VAR"} /\ isauto(o) /\ real_offset(g, o) = 0

(***************************************************************************)
(* What tmp and r0 hold                                                    *)
(***************************************************************************)

Slot(r) == IF r = TMP THEN 0 ELSE 1
Cached  == {TMP, T1}

cleartempobj(g, r) == IF r \in Cached THEN [g EXCEPT !.temps[Slot(r)].reg = NoReg] ELSE g

settempkonst(g, r, v) ==
    IF r \notin Cached THEN g
    ELSE [g EXCEPT !.temps[Slot(r)].reg = r,
                   !.temps[Slot(r)].o.flags = {"KONST"},
                   !.temps[Slot(r)].o.val = v]

\* The register numbers of the code are compared with the indices of the records.
adjtempobj(g, r, offset) == IF r <= 1 THEN [g EXCEPT !.temps[r].o.val = @ + offset] ELSE g

settempobj(g, r, o, offset, varadr) ==
    IF r \notin Cached THEN g
    ELSE [g EXCEPT !.temps[Slot(r)] =
             [reg |-> r,
              o   |-> [o EXCEPT !.val = @ + offset,
                                !.flags = IF varadr THEN @ \cup {"VARADR"} ELSE @]]]

\* One li for every six bits: one, and one more for every number that is not enough.
count_constantchunks(v) ==
    Cardinality({n \in 0 .. 4 : n = 0 \/ ~(- (2 ^ (6 * n - 1)) <= v /\ v < 2 ^ (6 * n - 1))})

\* The value or the address is the same.
SameObj(o1, o2, flags) ==
    IF "KONST" \in flags THEN o1.val = o2.val
    ELSE /\ "VAR" \in flags /\ None \notin {o1.v, o2.v}
         /\ o1.val = o2.val
         /\ \/ o1.v = o2.v
            \/ "VARADR" \in flags /\ {sc(o1), sc(o2)} = {"auto"} /\ Vars[o1.v].off = Vars[o2.v].off

\* One can be had from the other with an addition.
NearObj(o1, o2, flags) ==
    IF "KONST" \in flags
    THEN count_constantchunks(o1.val) >= FuzzyChunks /\ count_constantchunks(Word(o1.val - o2.val)) = 1
    ELSE /\ {"VAR", "VARADR"} \subseteq flags /\ None \notin {o1.v, o2.v} /\ "DREF" \notin flags
         /\ \/ {sc(o1), sc(o2)} = {"auto"} /\ (Vars[o1.v].off < 0) = (Vars[o2.v].off < 0)
            \/ sc(o1) = "extern" /\ o1.v = o2.v

\* 1 for the same object, 2 for a near one.
matchobj(o1, o2, varadr) ==
    IF (IF varadr THEN o1.flags \cup {"VARADR"} ELSE o1.flags) # o2.flags THEN 0
    ELSE IF SameObj(o1, o2, o2.flags) THEN 1
    ELSE IF NearObj(o1, o2, o2.flags) THEN 2 ELSE 0

matchoffset(o, o2) ==
    IF Has(o, "KONST") \/ sc(o) = "extern" THEN Word(o.val - o2.val)
    ELSE (o.val + Vars[o.v].off) - (o2.val + Vars[o2.v].off)

\* How what is known of tmp (0) or r0 (1) matches an object.
MatchIn(g, i, o, varadr) == IF g.temps[i].reg = NoReg THEN 0 ELSE matchobj(o, g.temps[i].o, varadr)

\* The second test looks at the record of tmp as well.
ObsoleteIn(g, i, r, o, varadr) ==
    IF g.temps[i].reg = r /\ matchobj(o, g.temps[0].o, varadr) # 0
    THEN [g EXCEPT !.temps[i].reg = NoReg] ELSE g
obsoletetempobj(g, r, o, varadr) == ObsoleteIn(ObsoleteIn(g, 0, r, o, varadr), 1, r, o, varadr)

\* A near match in tmp: the wanted value is computed into the preferred register.
NearTmp(g, o, varadr, preferred, offset) ==
    LET add(r, op) == Emit(g, Line("mr", r) \o LiConst(offset) \o Line(op, r))
    IN  IF preferred = TMP
        THEN settempobj(settempobj(add(T1, "addt"), T1, g.temps[0].o, 0, FALSE), TMP, o, 0, varadr)
        ELSE settempobj(settempkonst(add(preferred, "add"), TMP, offset), preferred, o, 0, varadr)

\* A near match in r0.
NearT1(g, o, varadr, preferred, offset) ==
    IF preferred = T1
    THEN settempobj(settempkonst(Emit(g, LiConst(offset) \o Line("add", T1)), TMP, offset), T1, o, 0, varadr)
    ELSE settempobj(
            settempobj(Emit(g, LiConst(offset) \o Line("addt", T1)
                                 \o (IF preferred = TMP THEN <<>> ELSE Line("mr", preferred))),
                       TMP, o, 0, FALSE),
            preferred, o, 0, varadr)

\* Is an object at hand?  [g, reg], reg being where, or NoReg.
Matched(g, o, varadr, preferred, intmp, int1) ==
    CASE intmp = 1 -> [g |-> g, reg |-> TMP]
      [] intmp = 2 -> [g |-> NearTmp(g, o, varadr, preferred, matchoffset(o, g.temps[0].o)), reg |-> preferred]
      [] intmp = 0 /\ int1 = 1 -> [g |-> g, reg |-> T1]
      [] intmp = 0 /\ int1 = 2 ->
            [g |-> NearT1(g, o, varadr, preferred, matchoffset(o, g.temps[1].o)), reg |-> preferred]
      [] OTHER -> [g |-> g, reg |-> NoReg]
matchtempobj(g, o, varadr, preferred) ==
    Matched(g, o, varadr, preferred, MatchIn(g, 0, o, varadr), MatchIn(g, 1, o, varadr))

matchtempkonst(g, v, preferred) ==
    matchtempobj(g, [Object EXCEPT !.flags = {"KONST"}, !.val = v], FALSE, preferred)
=============================================================================
