------------------------------ MODULE MCCompiler ------------------------------
(***************************************************************************)
(* Functions for the compiler, as vbcc hands them to its backend: words of *)
(* 16 bits, bytes of 4, and for every function every option.               *)
(***************************************************************************)
EXTENDS Compiler

MCVars ==
    [x  |-> [sc |-> "auto", off |-> 0, id |-> "x"],     y  |-> [sc |-> "auto", off |-> 4, id |-> "y"],
     p  |-> [sc |-> "auto", off |-> -4, id |-> "p"],    q  |-> [sc |-> "auto", off |-> -8, id |-> "q"],
     ga |-> [sc |-> "extern", off |-> 0, id |-> "_ga"], gb |-> [sc |-> "extern", off |-> 0, id |-> "_gb"],
     s  |-> [sc |-> "static", off |-> 0, id |-> "l1"],  t  |-> [sc |-> "static", off |-> 0, id |-> "l2"],
     arr |-> [sc |-> "extern", off |-> 0, id |-> "_arr"], ptr |-> [sc |-> "static", off |-> 0, id |-> "l3"],
     fp |-> [sc |-> "extern", off |-> 0, id |-> "_fp"],
     f  |-> [sc |-> "extern", off |-> 0, id |-> "_f"], g1 |-> [sc |-> "static", off |-> 0, id |-> "_g"],
     h  |-> [sc |-> "extern", off |-> 0, id |-> "_h"], count |-> [sc |-> "extern", off |-> 0, id |-> "_count"]]

MCFunctions == {"_f", "_g", "_h", "_div_s32bys32", "_div_u32byu32"}
MCArguments == "_f" :> 0 @@ "_g" :> 1 @@ "_h" :> 2
MCGlobalAt ==
    "_ga" :> 4 @@ "_gb" :> 8 @@ "l1" :> 12 @@ "l2" :> 16 @@ "_arr" :> 20 @@ "l3" :> 36 @@ "_fp" :> 40
    @@ "_count" :> 44 @@ "_f" :> 900 @@ "_g" :> 901 @@ "_h" :> 902 @@ "_div_s32bys32" :> 903 @@ "_div_u32byu32" :> 904

\* Word w at address a.
WordBytes(a, w) == [b \in a .. a + 3 |-> ((w % 2 ^ 16) \div 2 ^ (4 * (b - a))) % 16]
MCMemory ==
    LET words == <<0, 29, -300, 77, 900, 300, -2, 23, 9, 24, 901, 2, 0, 0, 0, 0, 0, 0, 0, 0, 0, 0, 0, 0, 0, 0, 0,
                   13, 6, 3, 3>>
    IN  [b \in 0 .. 4 * Len(words) - 1 |-> WordBytes(4 * (b \div 4), words[b \div 4 + 1])[b]]
MCEntry == 4 * 27
MCStackLimit == 48
MCParams == <<41, 17>>
MCOptions == [pic : BOOLEAN, size : BOOLEAN, firsttail : BOOLEAN]

(***************************************************************************)
(* Operands and ICs                                                        *)
(***************************************************************************)
R(n)   == [Object EXCEPT !.flags = {"REG"}, !.reg = n]
Sc(n)  == [Object EXCEPT !.flags = {"REG", "SCRATCH"}, !.reg = n]
V(v)   == [Object EXCEPT !.flags = {"VAR"}, !.v = v]
VO(v, k) == [V(v) EXCEPT !.val = k]
K(k)   == [Object EXCEPT !.flags = {"KONST"}, !.val = k]
At(o)  == [o EXCEPT !.flags = @ \cup {"DREF"}]
Adr(o) == [o EXCEPT !.flags = @ \cup {"VARADR"}]

I(code_, a, b, c, t) ==
    [code |-> code_, q1 |-> a, q2 |-> b, z |-> c, typ |-> t, typ2 |-> t, lab |-> "", opsize |-> sizetab(t),
     pushsize |-> 0, argsize |-> 0]
Alloc(n)      == <<I("allocreg", R(n), Object, Object, "int")>>
Free(n)       == <<I("freereg", R(n), Object, Object, "int")>>
Set(z, a, t)  == <<I("assign", a, Object, z, t)>>
Op(c, a, b, z, t) == <<I(c, a, b, z, t)>>
Ret(a)        == <<I("setreturn", a, Object, R(T1), "int")>>
Lab(l)        == <<[I("label", Object, Object, Object, "int") EXCEPT !.lab = l]>>
Jmp(c, l)     == <<[I(c, Object, Object, Object, "int") EXCEPT !.lab = l]>>
Cmp(a, b, t)  == <<I("compare", a, b, Object, t)>>
Tst(a, t)     == <<I("test", a, Object, Object, t)>>
Conv(a, from, z, to) == <<[I("convert", a, Object, z, to) EXCEPT !.typ2 = from]>>
AdrOf(a, z)   == <<I("address", a, Object, z, "pointer")>>
Psh(a, t)     == <<[I("push", a, Object, Object, t) EXCEPT !.pushsize = 4]>>
Cll(v, n)     == <<[I("call", v, Object, Object, "funkt") EXCEPT !.argsize = n]>>
Get(z)        == <<I("getreturn", R(T1), Object, z, "int")>>

UsedBy(ics) == {ics[i].q1.reg : i \in {k \in DOMAIN ics : ics[k].code = "allocreg"}}
With(opt, ics, locals) == [ics |-> ics, offset |-> locals, used |-> UsedBy(ics), opt |-> opt]
Plainly == [pic |-> FALSE, size |-> FALSE, firsttail |-> TRUE]
Small   == [pic |-> FALSE, size |-> TRUE, firsttail |-> FALSE]
Pic     == [pic |-> TRUE, size |-> TRUE, firsttail |-> TRUE]
Functions_(opts, bodies, locals) == {With(o, b, locals) : o \in opts, b \in bodies}

\* A function with register variables r3 and r4 and locals x and y.
Setup == Alloc(4) \o Alloc(5) \o Set(R(4), V("p"), "int") \o Set(V("x"), V("gb"), "int") \o Set(R(5), V("q"), "int")
Body(ics) == Setup \o ics \o Free(5) \o Free(4)

(***************************************************************************)
(* One operation on operands of every kind, its result returned            *)
(***************************************************************************)
Places   == {R(4), R(5), V("x"), V("p"), V("ga"), V("s")}
Targets  == {R(4), R(3), V("x"), V("s")}
Report(z) == IF isreg(z) THEN Set(V("gb"), z, "int") \o Ret(z) ELSE Ret(z)

BinaryOf(ops, as, bs, zs, t) ==
    {Body(Op(c, a, b, z, t) \o Report(z)) : c \in ops, a \in as, b \in bs, z \in zs}
UnaryOf(ops, as, zs) ==
    {Body(Op(c, a, Object, z, "int") \o Report(z)) : c \in ops, a \in as, z \in zs}

Operations ==
    BinaryOf({"add", "sub"}, Places, {R(4), R(5), V("x"), V("ga"), K(3)}, Targets, "int")
    \cup BinaryOf({"and", "or", "xor", "mult"}, {R(4), V("x"), V("s")}, {R(5), V("ga"), K(-300)}, {R(4), R(5), V("x")}, "int")
    \cup BinaryOf({"lshift", "rshift"}, {R(4), V("x"), V("s")}, {R(4), V("p"), K(2)}, {R(4), R(5), V("ga")}, "int")
    \cup UnaryOf({"minus", "komplement", "assign"}, Places, Targets)

(***************************************************************************)
(* What is known of tmp and r0: three ICs in a row                         *)
(***************************************************************************)
Pool ==
    {Set(V("x"), V("ga"), "int"), Set(V("ga"), V("x"), "int"), Set(V("x"), K(1000), "int"),
     Set(V("ga"), K(1003), "int"), Set(V("x"), R(4), "int"),
     Set(R(5), VO("arr", 4), "int"), Op("add", V("x"), K(3), V("x"), "int"), Op("sub", R(4), V("x"), R(5), "int"),
     Op("add", R(4), K(7), V("ga"), "int"), Cll(V("f"), 0)}
Sequences3 == {Body(a \o b \o c \o Ret(V("x"))) : a \in Pool, b \in Pool, c \in Pool}

\* Addresses and constants near to those at hand, in tmp or in r0.
NearPool ==
    {Set(VO("arr", 4), V("x"), "int"), Set(V("arr"), V("s"), "int"), Set(VO("arr", 8), V("y"), "int"),
     Set(R(5), VO("arr", 4), "int"), AdrOf(VO("arr", 8), R(5)), Op("mult", V("x"), VO("arr", 4), R(4), "int")}
ConstantPool ==
    {Op("sub", R(5), K(5000), R(5), "int"), Op("sub", R(5), K(5003), R(5), "int"), Op("add", R(4), K(4990), R(4), "int"),
     Set(R(4), V("x"), "int")}
Near ==
    {Body(a \o b \o c \o Set(V("gb"), R(5), "int") \o Ret(R(4))) : a \in NearPool, b \in NearPool, c \in NearPool}
    \cup {Body(a \o b \o c \o d \o Set(V("gb"), R(5), "int") \o Ret(R(4))) :
             a \in ConstantPool, b \in ConstantPool, c \in ConstantPool, d \in ConstantPool}

(***************************************************************************)
(* Comparisons and loops                                                   *)
(***************************************************************************)
Choice(test, c) ==
    test \o Jmp(c, "l8") \o Set(V("ga"), K(1), "int") \o Jmp("bra", "l9")
         \o Lab("l8") \o Set(V("ga"), K(2), "int") \o Lab("l9") \o Ret(V("ga"))
Conditions == {"beq", "bne", "blt", "bge", "ble", "bgt"}
Comparisons ==
    {Body(Choice(Cmp(a, b, t), c)) : a \in {R(4), V("x"), V("s"), V("p")}, b \in {R(5), V("ga"), K(77), K(-5), V("x")},
        t \in {"int", "uint"}, c \in Conditions}
    \cup {Body(Choice(Tst(a, "int"), c)) : a \in {R(4), V("x"), V("ga"), V("s")}, c \in {"beq", "bne"}}
    \cup {Body(Op(o, R(4), b, R(4), "int") \o Choice(Tst(R(4), "int"), c)) :
             o \in {"sub", "and"}, b \in {V("p"), K(13), K(2)}, c \in {"beq", "bne"}}

\* Words added up through a pointer, until a counter has run down.
Loop(step, last, store) ==
    Body(AdrOf(V("arr"), R(4)) \o Set(R(5), K(2), "int") \o Set(V("x"), K(0), "int") \o Lab("l5")
         \o Op("add", V("x"), At(R(4)), V("x"), "int") \o store
         \o Op("addi2p", R(4), K(step), R(4), "pointer")
         \o Op("sub", R(5), K(1), R(5), "int") \o Tst(R(5), "int") \o Jmp("bne", "l5") \o last \o Ret(V("x")))
Loops == {Loop(st, l, w) : st \in {4, 8, 0}, l \in {<<>>, Set(V("ga"), R(5), "int")},
             w \in {<<>>, Set(At(R(4)), R(5), "int"), Set(V("gb"), At(R(4)), "int")}}

(***************************************************************************)
(* Calls                                                                   *)
(***************************************************************************)
Keep(z) == Get(z)
CallF(a)       == Set(R(2), a, "int") \o Cll(V("f"), 0)
CallG(a, b)    == Psh(b, "int") \o Set(R(2), a, "int") \o Cll(V("g1"), 4)
CallH(a, b, c) == Psh(c, "int") \o Psh(b, "int") \o Set(R(2), a, "int") \o Cll(V("h"), 8)
Values  == {V("x"), V("ga"), K(5), R(5)}
OneCall == {CallF(a) : a \in Values} \cup {CallG(a, b) : a \in {V("ga"), R(4)}, b \in Values}
           \cup {CallH(a, b, c) : a \in {V("x")}, b \in Values, c \in {V("x"), V("p"), K(6)}}
Calls ==
    {Body(a \o Keep(z) \o b \o Keep(R(4)) \o Op("add", z, R(4), V("ga"), "int") \o Ret(V("ga"))) :
        a \in OneCall, b \in {CallF(V("x")), CallG(V("ga"), V("y")), CallH(R(4), V("p"), V("x"))}, z \in {R(5), V("y")}}
    \cup {Body(b \o Psh(V("y"), "int") \o a \o Keep(R(5)) \o Set(R(2), R(5), "int") \o Cll(V("g1"), 4) \o Keep(V("x")) \o Ret(V("x"))) :
        a \in OneCall, b \in {<<>>, CallG(R(4), V("p")) \o Keep(R(4))}}
    \cup {Body(Set(R(4), V("fp"), "int") \o AdrOf(V("g1"), V("y")) \o Psh(V("x"), "int") \o Set(R(2), a, "int")
              \o Cll(At(f), 4) \o Keep(V("x")) \o Ret(V("x"))) : a \in {V("x"), R(5)}, f \in {V("fp"), V("y"), R(4)}}
    \cup {Body(CallG(R(4), V("p")) \o Set(R(2), R(4), "int") \o Cll(At(V("t")), 0) \o Keep(V("x")) \o Ret(V("x")))}
    \cup {Body(Choice(a \o Keep(R(4)) \o Tst(R(4), "int"), "beq") \o b \o Keep(V("y")) \o Ret(V("y"))) : a \in OneCall,
        b \in {CallF(R(5)), CallG(R(4), V("x")), CallH(V("x"), V("ga"), K(6))}}

(***************************************************************************)
(* Narrow types                                                            *)
(***************************************************************************)
Narrow == {"char", "uchar", "short", "ushort"}
Widenings ==
    {Body(Set(R(4), V("s"), t) \o Conv(a, t, z, "int") \o Report(z)) :
        t \in Narrow, a \in {R(4), V("s"), VO("ga", 1), At(R(5)), V("p")}, z \in {R(4), R(3), V("x"), V("ga")}}
Narrowings ==
    {Body(AdrOf(V("arr"), R(5)) \o Conv(a, "int", z, t) \o Conv(z, t, R(4), "int") \o Ret(R(4))) :
        t \in Narrow, a \in {R(4), V("x"), V("gb")}, z \in {R(3), V("s"), VO("arr", 1), At(R(5))}}

(***************************************************************************)
(* Structures                                                              *)
(***************************************************************************)
Struct(z, a, n) == <<[I("assign", a, Object, z, "struct") EXCEPT !.opsize = n]>>
PshStruct(a, n) == <<[I("push", a, Object, Object, "struct") EXCEPT !.opsize = n, !.pushsize = ((n + 3) \div 4) * 4]>>
Structures ==
    {Body(AdrOf(V("arr"), R(4)) \o Struct(z, a, n) \o Ret(V("x"))) :
        z \in {V("arr"), V("x")}, a \in {V("ga"), V("x"), V("p")}, n \in {4, 7, 8}}
    \cup {Body(AdrOf(V("arr"), R(4)) \o b \o Struct(z, V("ga"), 16) \o Op("add", R(4), R(5), V("x"), "int") \o Ret(V("x"))) :
        z \in {V("arr"), At(R(4))}, b \in {<<>>, Alloc(2) \o Alloc(3)}}
    \cup {Body(AdrOf(V("arr"), R(4)) \o PshStruct(a, n) \o Set(R(2), R(5), "int") \o Cll(V("h"), 8) \o Keep(R(5)) \o Ret(R(5))) :
        a \in {V("ga"), V("x"), V("p"), At(R(4))}, n \in {8}}

(***************************************************************************)
(* Division                                                                *)
(***************************************************************************)
Divisions ==
    {Body(Alloc(2) \o Set(R(2), V("gb"), "int") \o Op(c, a, b, z, t) \o Report(z) \o Free(2)) : c \in {"div", "mod"}, t \in {"int", "uint"},
        a \in {R(4), V("x"), V("ga"), R(2)}, b \in {R(5), V("p"), K(-5), K(4)}, z \in {R(4), R(5), V("y"), V("ga")}}
    \cup {Body(Alloc(2) \o Set(R(2), V("gb"), "int") \o Op("div", a, R(2), z, "int") \o Ret(z) \o Free(2)) :
        a \in {R(4), V("x")}, z \in {R(3), R(4), V("ga")}}

(***************************************************************************)
(* Pointers                                                                *)
(***************************************************************************)
Byte(z, a)  == Set(z, a, "char")
CopyBytes ==
    {Body(AdrOf(V("arr"), R(4)) \o AdrOf(V("ga"), R(5)) \o Lab("l5") \o Byte(At(R(4)), At(R(5)))
         \o Op("addi2p", R(5), K(1), R(5), "pointer") \o Op("addi2p", R(4), K(1), R(4), "pointer")
         \o Tst(At(R(5)), "char") \o Jmp("bne", "l5") \o rest \o Ret(V("arr"))) : rest \in {<<>>, Byte(At(R(4)), K(0))}}
FindZero ==
    {Body(AdrOf(V("ga"), R(5)) \o Lab("l5") \o Byte(z, At(R(5))) \o Op("addi2p", R(5), K(1), R(5), "pointer")
          \o Tst(z, "char") \o Jmp("bne", "l5") \o Set(V("x"), R(5), "int") \o Ret(V("x"))) : z \in {V("s"), V("y")}}
Downwards ==
    {Body(AdrOf(VO("arr", 8), R(4)) \o Op("subifp", R(4), K(k), R(4), "pointer") \o Set(At(R(4)), a, "int")
          \o Op("subifp", R(4), K(4), R(4), "pointer") \o Set(z, At(R(4)), "int") \o Ret(V("x"))) :
        k \in {4, 8}, a \in {R(5), V("x"), K(9)}, z \in {V("x"), R(5), V("ga")}}
Through == {At(R(4)), At(V("ptr")), V("arr"), V("y")}
Pointers ==
    CopyBytes \cup FindZero \cup Downwards
    \cup {Body(AdrOf(V("arr"), R(5)) \o Set(V("x"), a, "int") \o Set(z, At(R(5)), "int") \o Op("add", z, V("x"), V("y"), "int") \o Ret(z)) :
        a \in {V("ga"), R(4)}, z \in {R(4), V("s")}}
    \cup {Body(Set(R(5), K(20), "int") \o Set(z, a, "int") \o Set(V("x"), b, "int") \o Ret(V("x"))) :
        z \in {At(K(20)), At(K(24)), R(4)}, a \in {At(K(20)), At(K(24)), V("ga")}, b \in {At(K(24)), V("arr")}}
    \cup {Body(AdrOf(w, R(4)) \o Set(V("ptr"), R(4), "pointer") \o Set(z, a, "int") \o Set(R(5), b, "int") \o Op("add", R(5), c, V("x"), "int") \o Ret(V("x"))) :
        w \in {V("y"), V("arr")}, z \in Through, a \in Through \cup {K(7)}, b \in Through, c \in {At(R(4)), K(2)}}

MCPrograms ==
    Functions_({Plainly}, Operations \cup Sequences3 \cup Near \cup Comparisons \cup Calls \cup Divisions \cup Pointers, 8)
    \cup Functions_({Plainly, Pic}, Widenings \cup Narrowings, 8)
    \cup Functions_({Plainly, Small, Pic}, Loops \cup Structures, 8)

\* A remainder that is returned at once.
MCRemainders ==
    Functions_({Plainly}, {Body(Op("mod", a, b, R(3), t) \o Ret(R(3))) :
                              a \in {R(4), V("x")}, b \in {R(5), K(5)}, t \in {"int", "uint"}}, 8)
=============================================================================
