------------------------------- MODULE TempRegs -------------------------------
(***************************************************************************)
(* Values and addresses into registers (vbcc/machines/832/tempregs.c).     *)
(* An operator that may leave the zero flag set by a load returns          *)
(* [g, set]; the others return g.                                          *)
(***************************************************************************)
EXTENDS TempObjs, TLC

Sizemod(t) == CASE NQ(t) = "char" -> <<[op |-> "byt", reg |-> NoReg, sym |-> "", val |-> 0]>>
                [] NQ(t) = "short" -> <<[op |-> "hlf", reg |-> NoReg, sym |-> "", val |-> 0]>>
                [] OTHER -> <<>>

emit_sizemod(g, t) == EmitIf(g, Sizemod(t) # <<>>, Sizemod(t))

\* The address of a symbol; relative to the program counter in position-independent code.
SymbolToTemp(g, name, offset) ==
    IF g.pic THEN Emit(Emit(g, Sym(".lipcrel", name, offset)), Line("addt", PC))
    ELSE Emit(g, Sym(".liabs", name, offset))

emit_externtotemp(g, p, offset) == cleartempobj(SymbolToTemp(g, Vars[p.v].id, offset), TMP)

emit_pcreltotemp(g, label)  == Emit(g, Sym(".lipcrel", label, 0))

\* An offset is part of the name of a function that is extern.
emit_pcreltotemp2(g, p) ==
    LET id == Vars[p.v].id
    IN  Emit(g, IF sc(p) = "extern" /\ p.val # 0 THEN Sym(".lipcrel", id \o ToString(p.val), 0)
                ELSE Sym(".lipcrel", id, p.val))

\* What tmp holds goes to the register asked for.
TmpTo(g, reg) == EmitIf(g, reg # TMP, Line("mr", reg))

\* m is where the constant is already.
KonstToReg(m, v, reg) ==
    CASE m.reg = NoReg -> settempkonst(TmpTo(settempkonst(Emit(m.g, LiConst(v)), TMP, v), reg), reg, v)
      [] m.reg # NoReg /\ m.reg = reg -> m.g
      [] m.reg # NoReg /\ m.reg # reg ->
            settempkonst(Emit(m.g, IF reg = TMP THEN Line("mt", m.reg) ELSE Line("mr", reg)), reg, v)
emit_constanttoreg(g, v, reg) == KonstToReg(matchtempkonst(g, v, reg), v, reg)

emit_constanttotemp(g, v) == emit_constanttoreg(g, v, TMP)

emit_stackvartotemp(g, offset, deref) ==
    cleartempobj(
        IF offset # 0 THEN Emit(emit_constanttotemp(g, offset), Line(IF deref THEN "ldidx" ELSE "addt", SP))
        ELSE Emit(g, Line(IF deref THEN "ld" ELSE "mt", SP)),
        TMP)

(***************************************************************************)
(* The address of an object into a register                                *)
(***************************************************************************)

\* The address into tmp: of a variable, or, the object being dereferenced, what points to it.
AddressToTemp(g, p, offset) ==
    CASE Has(p, "REG") -> Emit(g, Line("mt", p.reg))
      [] ~Has(p, "REG") /\ isauto(p) -> emit_stackvartotemp(g, real_offset(g, p) + offset, Has(p, "DREF"))
      [] ~Has(p, "REG") /\ sc(p) = "static" ->
            IF Has(p, "DREF")
            THEN Emit(g, Line("ldinc", PC) \o Sym(".ref", Vars[p.v].id, offset + p.val) \o Bare("ldt"))
            ELSE SymbolToTemp(g, Vars[p.v].id, offset + p.val)
      [] ~Has(p, "REG") /\ sc(p) = "extern" ->
            IF Has(p, "DREF") THEN Emit(emit_externtotemp(g, p, p.val), Bare("ldt"))
            ELSE emit_externtotemp(g, p, p.val + offset)

\* An address is remembered, a pointer is not; what r0 held before an external one stays.
AddressKnown(g, p, reg) ==
    IF ~Has(p, "DREF") THEN settempobj(settempobj(g, TMP, p, 0, TRUE), reg, p, 0, TRUE)
    ELSE IF ~Has(p, "REG") /\ sc(p) = "extern" THEN cleartempobj(g, TMP)
    ELSE cleartempobj(cleartempobj(g, TMP), reg)

\* The value is in register src; on the way to reg it passes through tmp.
TmpIsToReg(g, p, reg) == IF reg = TMP THEN g ELSE settempobj(TmpTo(g, reg), reg, p, 0, FALSE)
FromRegister(g, p, src, reg) ==
    TmpIsToReg(IF src = TMP THEN g ELSE settempobj(Emit(g, Line("mt", src)), TMP, p, 0, FALSE), p, reg)

\* m is where the address is already.
AddressToReg(m, p, reg, offset) ==
    CASE m.reg # NoReg /\ m.reg = reg -> m.g
      [] m.reg # NoReg /\ m.reg # reg -> FromRegister(m.g, p, m.reg, reg)
      [] m.reg = NoReg /\ {"KONST", "DREF"} \subseteq p.flags ->
            settempkonst(emit_constanttoreg(m.g, p.val + offset, reg), reg, p.val + offset)
      [] m.reg = NoReg /\ ~Has(p, "KONST") /\ (Has(p, "DREF") \/ (~Has(p, "REG") /\ Has(p, "VAR"))) ->
            AddressKnown(TmpTo(AddressToTemp(m.g, p, offset), reg), p, reg)
      [] OTHER -> m.g
emit_objaddrtoreg(g, p, reg, offset) ==
    AddressToReg(IF offset = 0 THEN matchtempobj(g, p, TRUE, T1) ELSE [g |-> g, reg |-> NoReg], p, reg, offset)

emit_prepobj(g, p, reg, offset) ==
    IF ~Has(p, "REG") THEN emit_objaddrtoreg(g, p, reg, offset)
    ELSE IF Has(p, "DREF") /\ reg = TMP THEN cleartempobj(Emit(g, Line("mt", p.reg)), TMP)
    ELSE g

(***************************************************************************)
(* The value of an object into a register                                  *)
(***************************************************************************)

\* What is dereferenced by its use, or stays an address.
NotLoaded(t) == composite(t) \/ t = "funkt"

\* A load through a pointer in a register.
LoadThrough(p, t) ==
    LET postinc == p.am.type = "postinc"
    IN  CASE NQ(t) = "char" /\ (postinc \/ p.am.disposable) -> Line("ldbinc", p.reg)
          [] NQ(t) = "char" /\ ~postinc /\ ~p.am.disposable -> Sizemod(t) \o Line("ld", p.reg)
          [] NQ(t) = "short" -> Line("ld", p.reg)
          [] NQ(t) \in {"int", "pointer"} -> Line(IF postinc THEN "ldinc" ELSE "ld", p.reg)
          [] OTHER -> Line("mt", p.reg)

Postinc(p, t) ==
    IF Has(p, "DREF") /\ Has(p, "REG") /\ p.am.type = "postinc"
    THEN CASE NQ(t) = "char" -> 1 [] NQ(t) \in {"int", "pointer"} -> 4 [] OTHER -> 0
    ELSE 0

\* Loads from, or takes, what tmp points to.
LoadTemp(g, p, t, elementary) ==
    IF elementary THEN [g |-> Emit(emit_sizemod(g, t), Bare("ldt")), set |-> TRUE]
    ELSE [g |-> g, set |-> FALSE]

\* A variable on the stack.
StackToTemp(g, p, t, elementary, off) ==
    IF elementary
    THEN Emit(IF off # 0 /\ isstackparam(p) THEN g ELSE emit_sizemod(g, t), Line(IF off # 0 THEN "ldidx" ELSE "ld", SP))
    ELSE Emit(g, Line(IF off # 0 THEN "addt" ELSE "mt", SP))

\* What the address has to be fetched for first; k is a register that has it, if it is a constant.
ByAddress(p, k) == ~isreg(p) /\ (Has(p, "VARADR") \/ (Has(p, "DREF") /\ ~Has(p, "REG") /\ k \in {NoReg, TMP}))

\* The constant on the way to a stack variable, or the constant itself.
OffsetOf(g, p) == IF Has(p, "KONST") THEN p.val ELSE IF isauto(p) THEN real_offset(g, p) ELSE 0

Prepared(g, p, k, reg) ==
    CASE ByAddress(p, k) -> emit_prepobj(g, p, IF Has(p, "VARADR") THEN reg ELSE TMP, 0)
      [] ~ByAddress(p, k) /\ ~Has(p, "DREF") /\ (Has(p, "KONST") \/ (isauto(p) /\ real_offset(g, p) # 0)) ->
            emit_constanttotemp(g, OffsetOf(g, p))
      [] OTHER -> g

\* The value of the object into tmp, nothing being known of it; [g, set].
ValueToTemp(g, p, t, k) ==
    LET elementary == ~composite(t)
    IN  CASE Has(p, "DREF") /\ Has(p, "REG") ->
                [g   |-> Emit(IF NQ(t) = "short" THEN emit_sizemod(g, t) ELSE g, LoadThrough(p, t)),
                 set |-> TRUE]
          [] Has(p, "DREF") /\ Has(p, "KONST") ->
                [g |-> Emit(emit_sizemod(g, t), IF k \in {NoReg, TMP} THEN Bare("ldt") ELSE Line("ld", k)), set |-> TRUE]
          [] Has(p, "DREF") /\ ~Has(p, "REG") /\ ~Has(p, "KONST") -> LoadTemp(g, p, t, ~NotLoaded(t))
          [] ~Has(p, "DREF") /\ isauto(p) ->
                [g |-> StackToTemp(g, p, t, elementary, real_offset(g, p)), set |-> elementary]
          [] ~Has(p, "DREF") /\ Has(p, "VAR") /\ ~isauto(p) ->
                LoadTemp(emit_externtotemp(g, p, p.val), p, t, elementary)
          [] ~Has(p, "DREF") /\ Has(p, "KONST") -> [g |-> g, set |-> FALSE]

\* It is known of both tmp and the register.
BothHold(g, p, reg, inc) == settempobj(settempobj(TmpTo(g, reg), reg, p, - inc, FALSE), TMP, p, - inc, FALSE)
Fetched(value, p, t, reg) == [g |-> BothHold(value.g, p, reg, Postinc(p, t)), set |-> value.set]
Fetch(g, p, t, reg, k) ==
    IF Has(p, "VARADR") THEN [g |-> g, set |-> FALSE] ELSE Fetched(ValueToTemp(g, p, t, k), p, t, reg)

\* Nothing is known of the object; m is where its address is, if that is a constant.
MemoryToReg(m, p, t, reg) == Fetch(Prepared(m.g, p, m.reg, reg), p, t, reg, m.reg)

\* m is where the object is already.
ObjectToReg(m, p, t, reg) ==
    CASE isreg(p) ->
            [g   |-> IF reg = p.reg THEN settempobj(m.g, reg, p, 0, FALSE)
                     ELSE FromRegister(settempobj(m.g, reg, p, 0, FALSE), p, IF m.reg = TMP THEN TMP ELSE p.reg, reg),
             set |-> FALSE]
      [] ~isreg(p) /\ m.reg # NoReg /\ ~Has(p, "DREF") ->
            [g |-> IF m.reg = reg THEN m.g ELSE FromRegister(m.g, p, m.reg, reg), set |-> FALSE]
      [] OTHER -> MemoryToReg(IF {"KONST", "DREF"} \subseteq p.flags THEN matchtempkonst(m.g, p.val, TMP)
                              ELSE [g |-> m.g, reg |-> NoReg],
                              p, t, reg)
emit_objtoreg(g, p, t, reg) == ObjectToReg(matchtempobj(g, p, FALSE, reg), p, t, reg)
=============================================================================
