---------------------------- MODULE MCToolchain ----------------------------
(* Programs for Toolchain: a start-up file and premain as in lib832, one   *)
(* of many main files, and libraries, put together by various command      *)
(* lines.                                                                  *)
EXTENDS Toolchain

Op(mnem, r) == <<"opcode", mnem, r>>
Num(n) == <<"num", n>>
Id(n)  == <<"id", n>>
Do(o)  == <<"op", o>>
open  == <<"(", "(">>
shut  == <<")", ")">>

start == <<
    <<".section", ".text.startup">>, <<"label", "_start">>,
    <<".lipcrel", ".start1", 0>>, Op("add", 7),
    <<"label", "_InterruptVector">>, <<".ref", "_interrupt", 0>>,
    <<"label", ".start1">>, Op("ldinc", 7), <<".ref", "_premain", 0>>, Op("mr", 7),
    <<".section", ".text.interrupt">>, <<".weak", "_interrupt">>, <<"label", "_interrupt">>,
    Op("cond", 7), Op("mt", 6), Op("mr", 7)>>

premain == <<
    <<".global", "_STACKSIZE">>, <<".weak", "_STACKSIZE">>, <<".constant", "_STACKSIZE", 40>>,
    <<".section", ".text.premain">>, <<".global", "_premain">>, <<"label", "_premain">>,
    <<".liabs", "__bss_end__", 0>>, Op("mr", 0), <<".liabs", "_STACKSIZE", 0>>, Op("addt", 0),
    <<".liabs", "__ctors_start__", 0>>, Op("mr", 1), <<".lipcrel", "_main", 0>>, Op("add", 7),
    <<".liabs", "__dtors_end__", 0>>, Op("mr", 1)>>

\* The filler makes the distances around it cross the limits of one opcode.
Main(n) == <<
    <<".equ", "SIZE", <<Num(n)>>>>, <<".equ", "MASK", <<Id("SIZE"), Do("+"), Num(3), Do("*"), Num(2), Do("-"), Num(1)>>>>,
    <<".section", ".text.main">>, <<".align", 4>>, <<".global", "_main">>, <<"label", "_main">>,
    Op("mr", 0), Op("mt", 0), Op("mr", 0), Op("li", -3), Op("mt", 1), Op("mr", 2), Op("mr", 1),
    <<".liabs", "_buf", 4>>, Op("st", 0), <<".lipcrel", "_far", 0>>, Op("add", 7),
    <<".space", <<Id("SIZE")>>, 1>>,
    <<".lipcrel", "_main", 0>>, Op("add", 7), <<".liconst", <<Id("MASK")>>>>, Op("mr", 3),
    <<".section", ".bss.main">>, <<".align", 4>>, <<".comm", "_buf", 6>>, <<".lcomm", "near", 2>>>>

table == <<<<".short", <<Num(4660)>>>>, <<".byte", <<Num(9)>>>>, <<".ref", "_main", 1>>>>

bytes == <<1, 2, 3, 4, 5, 6, 7, 8, 9>>

\* A function, data with an include, a constructor.
far == <<
    <<".section", ".text.far">>, <<".align", 4>>, <<".global", "_far">>, <<"label", "_far">>,
    Op("exg", 6), <<".lipcrel", "near", 0>>, Op("add", 7), <<".liabs", "_table", 2>>, Op("mr", 0),
    <<"label", "near">>, Op("mt", 0), Op("stdec", 6),
    <<".section", ".data.far">>, <<".align", 4>>, <<".global", "_table">>, <<"label", "_table">>,
    <<".ascii", <<72, 105>>>>, <<".include", "table">>, <<".int", <<Num(7), Do("-"), open, Num(2), Do("+"), Num(9), shut>>>>,
    <<".incbin", "bytes">>, <<".space", <<Num(2)>>>>,
    <<".ctor", ".ctor.far">>, <<".ref", "_far", 0>>>>

\* Another far, a strong interrupt handler, and constructors around the other's.
strong == <<
    <<".section", ".text.int">>, <<".global", "_interrupt">>, <<"label", "_interrupt">>,
    <<".liabs", "__bss_start__", 0>>, Op("mr", 0), <<".lipcrel", "_far", 0>>, Op("add", 7),
    <<".ctor", ".ctor.a">>, <<".ref", "_interrupt", 0>>, <<".dtor", ".dtor.a">>, <<".ref", "_interrupt", 0>>,
    <<".ctor", ".ctor.z">>, <<".ref", "_interrupt", 0>>>>

weak == <<
    <<".section", ".text.weak">>, <<".global", "_far">>, <<".weak", "_far">>, <<"label", "_far">>,
    Op("mt", 6), Op("mr", 7)>>

\* A line or a definition that is wrong.
twice == <<<<".section", ".text">>, <<"label", "_far">>, <<".section", ".text.x">>, <<"label", "_far">>>>
codebss == <<<<".bss", ".bss">>, <<".comm", "_x", 4>>, <<".ref", "_x", 0>>>>

\* A constructor whose function is the only one to need an object before it.
first == <<<<".section", ".text.first">>, <<".ref", "_c", 0>>>>
bobj == <<<<".section", ".text.b">>, <<".global", "_b">>, <<"label", "_b">>, Op("mr", 0),
          <<".ctor", ".ctor.a">>, <<".ref", "_b", 0>>>>
cobj == <<<<".section", ".text.c">>, <<".global", "_c">>, <<"label", "_c">>, Op("mr", 0),
          <<".section", ".text.init">>, <<"label", "_cinit">>, <<".ref", "_b", 0>>,
          <<".ctor", ".ctor.z">>, <<".ref", "_cinit", 0>>>>

\* An alignment to a number that is no power of two.
odd == <<<<".section", ".text.odd">>, <<"label", "_odd">>, Op("mr", 0), <<".align", 6>>, <<"label", "six">>, <<".ref", "_odd", 0>>>>

Fillers == 8 .. 30
MainName(n) == "main" \o ToString(n)

MCSources ==
    [f \in {MainName(n) : n \in Fillers} |-> Main(CHOOSE n \in Fillers : MainName(n) = f)]
    @@ ("start" :> start) @@ ("premain" :> premain) @@ ("far" :> far) @@ ("far2" :> far) @@ ("strong" :> strong)
    @@ ("weak" :> weak) @@ ("twice" :> twice) @@ ("codebss" :> codebss) @@ ("table" :> table)
    @@ ("bytes" :> bytes) @@ ("first" :> first) @@ ("bobj" :> bobj) @@ ("cobj" :> cobj)
    @@ ("odd" :> odd)

MCNames == <<".bss", ".bss.main", ".ctor.a", ".ctor.far", ".ctor.z", ".data.far", ".dtor.a">>

Files(names) == [k \in DOMAIN names |-> <<"file", names[k]>>]

\* Command lines for the main file m: the assembler's and the linker's.
Builds(m) == {
    [asm |-> <<"start", "premain", m, "far">>, from |-> <<>>,
     link |-> Files(<<"start", "premain", m, "far">>)],
    [asm |-> <<"-e", "big", "start", "premain", m, "far", "strong">>, from |-> <<>>,
     link |-> <<<<"opt", "-e">>, <<"value", "big">>, <<"opt", "-r">>>>
              \o Files(<<"start", "premain", m, "strong", "far">>)],
    [asm |-> <<"start", "premain", "weak", "-o", "main", m, "far">>, from |-> "main" :> m,
     link |-> <<<<"opt", "-b">>, <<"value", <<1998, 4096>>>>, <<"opt", "-s">>, <<"value", <<"_STACKSIZE", 2048>>>>>>
              \o Files(<<"start", "premain", "weak", "far", "main">>)]}

\* Builds that fail.
Failing(files, opts_) ==
    [asm |-> files, from |-> <<>>, link |-> opts_ \o Files(files)]
small == <<"start", "premain", "main8", "far">>
BadBuilds == {
    [Failing(<<"start", "twice">>, <<>>) EXCEPT !.link = <<>>],
    [Failing(<<"start", "codebss">>, <<>>) EXCEPT !.link = <<>>],
    Failing(<<"start", "premain">>, <<>>),
    Failing(Append(small, "far2"), <<>>),
    [Failing(small, <<>>) EXCEPT !.link = Append(@, <<"file", "nowhere">>)],
    Failing(small, <<<<"opt", "-c">>, <<"value", <<60>>>>>>),
    Failing(small, <<<<"opt", "-b">>, <<"value", <<0, 64>>>>>>)}

\* The objects with the constructors in either order.
MCCtorPrograms == {
    [asm |-> <<"first", "bobj", "cobj">>, from |-> <<>>, link |-> Files(order)] :
        order \in {<<"first", "bobj", "cobj">>, <<"first", "cobj", "bobj">>}}

MCOddPrograms == {[asm |-> <<"odd">>, from |-> <<>>, link |-> Files(<<"odd">>)]}

\* For a power of two, and for no other number, masking gives the multiple below.
ASSUME MaskAssumption ==
    \A k \in 1 .. 64 :
        /\ PowerOfTwo(k) <=> \E n \in 0 .. 6 : k = 2 ^ n
        /\ PowerOfTwo(k) <=> \A x \in -200 .. 200 : AndNot[x, k - 1] = x - (x % k)

MCPrograms == UNION {Builds(MainName(n)) : n \in Fillers} \cup BadBuilds
=============================================================================
