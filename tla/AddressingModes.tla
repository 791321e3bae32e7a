---------------------------- MODULE AddressingModes ----------------------------
(***************************************************************************)
(* The passes over the intermediate code of a function before code is      *)
(* generated for it (vbcc/machines/832/addressingmodes.c): which stack     *)
(* pops can wait, ICs that can be merged or dropped, and pointers that an  *)
(* addressing mode can step.                                               *)
(* An IC is [code, q1, q2, z, typ, typ2, lab, opsize, pushsize, argsize];  *)
(* a function is a sequence of them.                                       *)
(***************************************************************************)
EXTENDS TempObjs, FiniteSets

CONSTANT CodesFromLabel   \* the codes that vbcc numbers from LABEL on

LOCAL INSTANCE FiniteSetsExt
LOCAL INSTANCE SequencesExt

CondBranches == {"beq", "bne", "blt", "bge", "ble", "bgt"}
Branches     == CondBranches \cup {"bra"}
Operands     == {"q1", "q2", "z"}

involvesreg(o)  == Has(o, "REG")
getreg(o)       == IF Has(o, "REG") THEN o.reg ELSE NoReg
isscratchreg(o) == isreg(o) /\ Has(o, "SCRATCH")
References(o, reg) == Has(o, "REG") /\ o.reg = reg

\* The type of the first operand; the other operands have the type of the IC.
q1typ(p) == IF p.code = "convert" THEN p.typ2 ELSE p.typ

is_arithmetic_bitwise(code) ==
    code \in {"add", "addi2p", "sub", "subifp", "mult", "or", "xor", "and", "lshift", "rshift"}

\* The first or the last position of a set of positions, 0 if there is none.
FirstOf(S) == IF S = {} THEN 0 ELSE Min(S)
LastOf(S)  == IF S = {} THEN 0 ELSE Max(S)

Nop(ics, i) == [ics EXCEPT ![i].code = "nop"]

(***************************************************************************)
(* Arguments that may stay on the stack after a call                       *)
(***************************************************************************)

PushedBefore(ics, i) ==
    LET at(k) == IF ics[k].code = "push" THEN ics[k].pushsize
                 ELSE IF ics[k].code = "call" THEN - ics[k].argsize ELSE 0
    IN  FoldLeft(LAMBDA n, k : n + at(k), 0, [k \in 1 .. i - 1 |-> k])

DeferredPop(ics, i) ==
    LET next == FirstOf({j \in i + 1 .. Len(ics) :
                           ics[j].code \in Branches \cup {"label", "compare", "test", "push"}})
    IN  IF PushedBefore(ics, i) # ics[i].argsize THEN "nestedcalls"
        ELSE IF next = 0 THEN "ok"
        ELSE IF ics[next].code = "push" THEN "ok" ELSE "flowcontrol"

am_deferredpop(ics) ==
    [i \in DOMAIN ics |->
        IF ics[i].code = "call" THEN [ics[i] EXCEPT !.z.am.deferredpop = DeferredPop(ics, i)]
        ELSE ics[i]]

(***************************************************************************)
(* ICs that can be merged or dropped                                       *)
(***************************************************************************)

\* An address that is only pushed is pushed directly.
MergeAddressPush(ics, i) ==
    LET reg     == ics[i].z.reg
        pushes(j) == ics[j].code = "push" /\ isreg(ics[j].q1) /\ ~Has(ics[j].q1, "VARADR")
                     /\ ics[j].q1.reg = reg
        stops(j)  == \/ pushes(j)
                     \/ ics[j].code = "freereg" /\ ics[j].q1.reg = reg
                     \/ References(ics[j].q1, reg) \/ References(ics[j].q2, reg)
        j       == FirstOf({k \in i + 1 .. Len(ics) - 1 : stops(k)})
    IN  IF isscratchreg(ics[i].z) /\ j # 0 /\ pushes(j)
              /\ ics[j + 1].code = "freereg" /\ ics[j + 1].q1.reg = reg
        THEN [Nop(ics, i) EXCEPT ![j].q1 = [ics[i].q1 EXCEPT !.flags = @ \cup {"VARADR"}]]
        ELSE ics

\* A returned value that is only looked at stays in r0.  For TEST and SETRETURN
\* the flags compared are those of (REG|DREFOBJ)!=REG, which is 1, that is KONST.
LookAtReturn(ics, i) ==
    LET reg  == ics[i].z.reg
        p2   == ics[i + 1]
        p3   == ics[i + 2]
        uses(k) == p2[k].reg = reg /\ IF p2.code = "compare" THEN isreg(p2[k]) ELSE ~Has(p2[k], "KONST")
        k    == IF uses("q1") THEN "q1" ELSE "q2"
    IN  IF /\ isscratchreg(ics[i].z)
           /\ p3.code = "freereg" /\ p3.q1.reg = reg
           /\ p2.code \in {"test", "setreturn", "compare"}
           /\ uses("q1") \/ (p2.code = "compare" /\ uses("q2"))
        THEN [Nop(ics, i) EXCEPT ![i + 1][k].reg = ics[i].q1.reg]
        ELSE ics

TypeRank(t) == CASE NQ(t) = "char" -> 1 [] NQ(t) = "short" -> 2 [] NQ(t) = "int" -> 3 [] OTHER -> 10

\* There and back again, and the widening of what was loaded without its sign.
DropConvert(ics, i) ==
    LET p  == ics[i]
        p2 == ics[i + 1]
    IN  IF p2.code = "convert"
        THEN IF isreg(p.z) /\ isreg(p2.q1) /\ p.z.reg = p2.q1.reg
                   /\ TypeRank(q1typ(p)) < TypeRank(p.typ) /\ q1typ(p) = p2.typ
             THEN [Nop(ics, i) EXCEPT ![i + 1].q1 = p.q1]
             ELSE ics
        ELSE IF isreg(p.z) /\ isreg(p.q1) /\ p.z.reg = p.q1.reg
                   /\ unsigned(q1typ(p)) /\ sizetab(q1typ(p)) < sizetab(p.typ)
             THEN Nop(ics, i)
             ELSE ics

\* The flags of the operation before are the flags of its result.
DropTest(ics, i) ==
    IF /\ i > 1 /\ is_arithmetic_bitwise(ics[i - 1].code)
       /\ isreg(ics[i - 1].z) /\ isreg(ics[i].q1) /\ ics[i - 1].z.reg = ics[i].q1.reg
    THEN Nop(ics, i) ELSE ics

\* Two operations in a row, the first into a register that is then free.
ChainOperations(ics, i) ==
    LET p   == ics[i]
        p2  == ics[i + 1]
        reg == ics[i + 2].q1.reg
    IN  IF /\ isreg(p.z) /\ isreg(p2.q1) /\ isreg(p2.z)
           /\ p2.q1.reg = reg /\ p.z.reg = reg
           /\ reg # p2.z.reg /\ p2.q2.reg # p2.z.reg
        THEN [ics EXCEPT ![i].z.reg = p2.z.reg, ![i + 1].q1.reg = p2.z.reg]
        ELSE ics

\* An addition whose sum may be formed in tmp.
MarkAddt(ics, i) ==
    LET p  == ics[i]
        zr == isreg(p.z)
    IN  IF /\ p.code \in {"add", "addi2p"} /\ isreg(p.q1)
           /\ ~zr \/ p.z.reg # p.q1.reg
           /\ \/ isreg(p.q2) /\ (zr \/ p.z.reg # p.q2.reg) /\ p.q1.reg # p.q2.reg
              \/ isconst(p.q2)
        THEN [ics EXCEPT ![i].q1.am.type = "addt"] ELSE ics

\* One IC of am_simplify.
SimplifyAt(ics, i) ==
    CASE ics[i].code = "address"   -> MergeAddressPush(ics, i)
      [] ics[i].code = "getreturn" -> LookAtReturn(ics, i)
      [] ics[i].code = "convert"   -> DropConvert(ics, i)
      [] ics[i].code = "test"      -> DropTest(ics, i)
      [] OTHER -> IF /\ is_arithmetic_bitwise(ics[i].code) /\ is_arithmetic_bitwise(ics[i + 1].code)
                     /\ ics[i + 2].code = "freereg"
                  THEN ChainOperations(ics, i) ELSE MarkAddt(ics, i)

(***************************************************************************)
(* Pointers stepped by an addressing mode                                  *)
(***************************************************************************)

\* Nothing after IC i needs the register of its operand k.
Disposable(ics, i, k) ==
    LET reg == ics[i][k].reg
        frees(j) == ics[j].code = "freereg" /\ ics[j].q1.reg = reg
        keeps(j) == \/ \E n \in Operands : References(ics[j][n], reg)
                    \/ ics[j].code \in Branches \cup {"call"}
        j   == FirstOf({m \in i + 1 .. Len(ics) : frees(m) \/ keeps(m)})
    IN  /\ involvesreg(ics[i][k])
        /\ k # "z" => ~References(ics[i].z, reg)
        /\ j # 0 /\ frees(j)

am_disposable(ics, i, k) ==
    IF Disposable(ics, i, k) THEN [ics EXCEPT ![i][k].am.disposable = TRUE] ELSE ics

\* Does IC j step the register by a constant, or take a copy of it that is not needed?
Steps(ics, j, reg) ==
    /\ isconst(ics[j].q2) \/ Has(ics[j].q2, "KONST")
    /\ involvesreg(ics[j].z)
    /\ ics[j].z.reg = reg \/ (ics[j].q1.reg = reg /\ Disposable(ics, j, "q1"))

Mentions(ics, j, reg) ==
    \E k \in Operands : ics[j][k].flags \cap {"REG", "DREF"} # {} /\ ics[j][k].reg = reg

\* The IC that steps the pointer: one after IC i, or else one before it; 0 if none.
am_find_adjustment(ics, i, reg) ==
    LET simple(j) == Has(ics[j].q2, "KONST") /\ involvesreg(ics[j].z)
        ends(j)   == IF ics[j].code = "addi2p"
                     THEN ~simple(j) \/ reg \in {ics[j].z.reg, ics[j].q1.reg}
                     ELSE \/ Mentions(ics, j, reg)
                          \/ ics[j].code \in Branches \cup CodesFromLabel
        starts(j) == IF ics[j].code = "subifp" THEN ~simple(j) \/ Steps(ics, j, reg)
                     ELSE Mentions(ics, j, reg)
        after     == FirstOf({j \in i + 1 .. Len(ics) : ends(j)})
        before    == LastOf({j \in 1 .. i - 1 : starts(j)})
    IN  IF after # 0 /\ ics[after].code = "addi2p" /\ Steps(ics, after, reg) THEN after
        ELSE IF before # 0 /\ ics[before].code = "subifp" /\ Steps(ics, before, reg) THEN before
        ELSE 0

\* By how much, if a load or store of that type can do it.
am_get_adjvalue(p, type, target) ==
    LET offset == IF p.code = "subifp" THEN - p.q2.val ELSE p.q2.val
    IN  CASE NQ(type) = "char" -> IF offset = 1 /\ p.code = "addi2p" THEN 1 ELSE 0
          [] NQ(type) \in {"int", "pointer"} ->
                IF offset = (IF p.code = "addi2p" THEN 4 ELSE -4) /\ (target \/ offset = 4)
                THEN offset ELSE 0
          [] OTHER -> 0

\* The operand of IC i that uses the register for the last time.
throwaway_reg(ics, i, reg) ==
    IF i \notin DOMAIN ics THEN "none"
    ELSE IF References(ics[i].q1, reg)
    THEN IF ics[i].q1.am.disposable \/ Disposable(ics, i, "q1") THEN "q1" ELSE "none"
    ELSE IF References(ics[i].z, reg) /\ (ics[i].z.am.disposable \/ Disposable(ics, i, "z")) THEN "z"
    ELSE "none"

\* The stepping IC becomes superfluous, or a copy.
AbsorbAdjustment(ics, j) ==
    LET from == ics[j].q1.reg
        into == ics[j].z.reg
        k    == throwaway_reg(ics, j + 1, into)
    IN  IF from = into THEN Nop(ics, j)
        ELSE IF k # "none"
        THEN [Nop(ics, j) EXCEPT ![j + 1][k].reg = from, ![j + 1][k].am.disposable = TRUE]
        ELSE [ics EXCEPT ![j].code = "assign"]

am_prepost_incdec_Lost(ics, i, k) ==
    LET o    == ics[i][k]
        j    == am_find_adjustment(ics, i, o.reg)
        type == IF ics[i].code = "convert" /\ k # "z" THEN ics[i].typ2 ELSE ics[i].typ
        adj  == am_get_adjvalue(ics[j], type, k = "z")
    IN  IF ~({"REG", "DREF"} \subseteq o.flags) \/ j = 0 THEN ics
        ELSE IF adj = 0 \/ ics[j].q1.reg = NoReg THEN ics
        ELSE AbsorbAdjustment(ics, j)

am_prepost_incdec(ics, i, k) ==
    LET o    == ics[i][k]
        j    == am_find_adjustment(ics, i, o.reg)
        type == IF ics[i].code = "convert" /\ k # "z" THEN ics[i].typ2 ELSE ics[i].typ
        adj  == am_get_adjvalue(ics[j], type, k = "z")
    IN  IF ~({"REG", "DREF"} \subseteq o.flags) \/ j = 0 THEN ics
        ELSE IF adj = 0 \/ ics[j].q1.reg = NoReg THEN ics
        ELSE [AbsorbAdjustment(ics, j) EXCEPT
                 ![i][k].am.type = IF adj > 0 THEN "postinc" ELSE "predec"]

\* One IC of find_addressingmodes: its operands are different registers where one is to be stepped.
ModesAt(ics, i) ==
    LET distinct(h, k, l, m) == getreg(h[i][k]) \notin {getreg(h[i][l]), getreg(h[i][m])}
        step(h, k, l, m)     == IF distinct(h, k, l, m) THEN am_prepost_incdec(h, i, k) ELSE h
        stepped == step(step(step(ics, "q1", "q2", "z"), "q2", "q1", "z"), "z", "q1", "q2")
    IN  FoldLeft(LAMBDA h, k : am_disposable(h, i, k), stepped, <<"q1", "q2", "z">>)

\* The passes over a function before code is generated for it, from IC i on; the first
\* stops short of the end.
RECURSIVE am_simplify(_, _), FindModes(_, _)
am_simplify(ics, i) == IF i > Len(ics) - 2 THEN ics ELSE am_simplify(SimplifyAt(ics, i), i + 1)
FindModes(ics, i)   == IF i > Len(ics) THEN ics ELSE FindModes(ModesAt(ics, i), i + 1)
find_addressingmodes(ics) == FindModes(am_simplify(am_deferredpop(ics), 1), 1)
=============================================================================
