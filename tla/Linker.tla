------------------------------- MODULE Linker -------------------------------
(***************************************************************************)
(* The linker 832l (832a/832l.c, executable.c, sectionmap.c, objectfile.c, *)
(* mapfile.c): arguments, then objects are loaded, references resolved     *)
(* from the first section on, the touched sections laid out, references    *)
(* sized until none grows any more, and everything is written.             *)
(*                                                                         *)
(* exe[0] holds the linker's own sections, exe[n] those of object n.  A    *)
(* place is <<object, section>>.                                           *)
(***************************************************************************)
EXTENDS Objects, TLC

CONSTANT NameOrder      \* the section names in the order of strcmp


VARIABLES argl,          \* arguments still to be looked at
          opts,          \* what they have set
          expects,       \* the options whose argument has not come yet
          phase,
          exe,
          stack,         \* the sections whose references are being resolved
          cdtor,         \* the sections still to be looked at for constructors
          entries,       \* the section map: places in the order of the output
          codeend, bssend,
          image, relocs, map

commandline == <<argl, expects>>
layout == <<entries, codeend, bssend>>
output == <<image, relocs, map>>
linkvars == <<commandline, opts, phase, exe, stack, cdtor, layout, output>>

Options == {"-o", "-b", "-c", "-s", "-m", "-M", "-e"}

(***************************************************************************)
(* Places                                                                  *)
(***************************************************************************)

\* The sections of the linker's own, and those of the objects.
Builtins == {0} \X DOMAIN exe[0]
Sections == UNION {{o} \X DOMAIN exe[o] : o \in DOMAIN exe \ {0}}

\* The order in which they were loaded.
Before(p, q) == p[1] < q[1] \/ (p[1] = q[1] /\ p[2] < q[2])
First(S)  == CHOOSE p \in S : \A q \in S : ~Before(q, p)
Latest(S) == CHOOSE p \in S : \A q \in S : ~Before(p, q)
InOrder(S) ==
    [k \in 1 .. Cardinality(S) |-> CHOOSE p \in S : Cardinality({q \in S : Before(q, p)}) = k - 1]

At(p) == exe[p[1]][p[2]]
SymbolAt(r) == exe[r[1]][r[2]].symbols[r[3]]
SectionOf(r) == <<r[1], r[2]>>
Replaced(p, sect) == [exe EXCEPT ![p[1]][p[2]] = sect]

Builtin(id) == <<0, SelectInSeq(exe[0], LAMBDA s : s.id = id)>>
HasBuiltin(id) == \E i \in DOMAIN exe[0] : exe[0][i].id = id

\* What a reference of the section means; alignments mean nothing.
Meant(ref) == IF ref.resolve = None THEN ref ELSE SymbolAt(ref.resolve)

(***************************************************************************)
(* The command line.  The options are looked at in this order when more    *)
(* than one is waiting for its argument.                                   *)
(***************************************************************************)

Waiting == SelectSeq(<<"-s", "-b", "-c", "-o", "-m", "-e">>, LAMBDA o : o \in expects)

\* Base and ceiling may name a second number for the uninitialised data.
Set(o, arg) ==
    CASE o = "-b" -> [opts EXCEPT !.base = IF arg[1] # 0 THEN arg[1] ELSE @,
                                  !.bss = IF Len(arg) = 2 /\ arg[2] # 0 THEN arg[2] ELSE @]
      [] o = "-c" -> [opts EXCEPT !.ceiling = IF arg[1] # 0 THEN arg[1] ELSE @,
                                  !.bssceiling = IF Len(arg) = 2 /\ arg[2] # 0 THEN arg[2] ELSE @]
      [] o = "-s" -> [opts EXCEPT !.constants = Append(@, arg)]
      [] o = "-m" -> [opts EXCEPT !.map = TRUE]
      [] o = "-e" -> [opts EXCEPT !.endian = arg]
      [] OTHER -> opts

LoadObject(name) == Append(opts.loaded, [i \in DOMAIN disk[name] |-> LoadSection(disk[name][i])])

\* An argument is <<kind, value>> with kind "opt", "file" or "value".
LinkArgument ==
    /\ phase = "arguments" /\ argl # <<>>
    /\ argl' = Tail(argl)
    /\ LET arg == Head(argl) IN
         \/ /\ arg[1] = "opt"
            /\ expects' = expects \cup (IF arg[2] \in {"-m", "-M"} THEN {"-m"} ELSE {arg[2]} \cap Options)
            /\ opts' = [opts EXCEPT !.locals = @ \/ arg[2] = "-M", !.reloc = @ \/ arg[2] = "-r"]
            /\ UNCHANGED phase
         \/ /\ arg[1] # "opt" /\ Waiting # <<>>
            /\ opts' = Set(Waiting[1], arg[2])
            /\ expects' = expects \ {Waiting[1]}
            /\ UNCHANGED phase
         \/ /\ arg[1] = "file" /\ Waiting = <<>>
            /\ IF arg[2] \in DOMAIN disk
               THEN opts' = [opts EXCEPT !.loaded = LoadObject(arg[2])] /\ UNCHANGED phase
               ELSE phase' = "failed" /\ UNCHANGED opts
            /\ UNCHANGED expects
    /\ UNCHANGED <<exe, stack, cdtor, layout, output>>

\* A section of the linker's own with the symbol of the same name in it.
AddBuiltin(id, flag, align) ==
    LET s == Section(id, {flag})
    IN  DeclareSymbol(IF align = 0 THEN s ELSE Align(s, align), id, {"GLOBAL"})

SectionMap(reloc) ==
    <<AddBuiltin("__ctors_start__", "CTOR", 0), AddBuiltin("__ctors_end__", "CTOR", 0),
      AddBuiltin("__dtors_start__", "DTOR", 0), AddBuiltin("__dtors_end__", "DTOR", 0)>>
    \o (IF reloc THEN <<AddBuiltin("__reloctable__", "BSS", 0)>> ELSE <<>>)
    \o <<AddBuiltin("__bss_start__", "BSS", 4), AddBuiltin("__bss_end__", "BSS", 4)>>

\* The second pass over the command line: its constants go, one after the other, to
\* the first section of all.
DeclareNext ==
    /\ phase = "arguments" /\ argl = <<>> /\ opts.loaded # <<>>
    /\ opts.declared < Len(opts.constants)
    /\ LET c == opts.constants[opts.declared + 1]
       IN  opts' = [opts EXCEPT !.declared = @ + 1,
                                !.loaded[1][1] = DeclareConstant(@, c[1], c[2], "GLOBAL")]
    /\ UNCHANGED <<commandline, phase, exe, stack, cdtor, layout, output>>

Touched(sect) == [sect EXCEPT !.flags = @ \cup {"TOUCHED"}]

\* Linking begins: the first section, if there is one in the first object, is the root
\* of everything that is kept.
Link ==
    /\ phase = "arguments" /\ argl = <<>> /\ opts.loaded # <<>>
    /\ opts.declared = Len(opts.constants)
    /\ exe' = [o \in 0 .. Len(opts.loaded) |->
                 IF o = 0 THEN SectionMap(opts.reloc)
                 ELSE IF o = 1 /\ opts.loaded[1] # <<>> THEN [opts.loaded[1] EXCEPT ![1] = Touched(@)]
                 ELSE opts.loaded[o]]
    /\ stack' = IF opts.loaded[1] = <<>> THEN <<>> ELSE <<[place |-> <<1, 1>>, next |-> 1]>>
    /\ phase' = IF opts.loaded[1] = <<>> THEN "cdtors" ELSE "resolve"
    /\ cdtor' = Sections'
    /\ UNCHANGED <<commandline, opts, layout, output>>

(***************************************************************************)
(* Resolving references                                                    *)
(***************************************************************************)

\* The sections among these that define id, and what one of them defines.
Definers(places, id) == {p \in places : FindSymbol(At(p), id) # 0}
DefinitionIn(p, id) == <<p[1], p[2], FindSymbol(At(p), id)>>

Found(symbol) == [failed |-> FALSE, symbol |-> symbol]
Multiple == [failed |-> TRUE, symbol |-> None]

\* Faulty variant: weak definitions collide like strong ones.
Search_NoWeak(p, id) ==
    LET seen == {q \in Definers(Sections \ {p}, id) :
                    SymbolAt(DefinitionIn(q, id)).flags \cap {"WEAK", "GLOBAL"} # {}}
    IN  IF Cardinality(seen) > 1 THEN Multiple
        ELSE Found(IF seen = {} THEN None ELSE DefinitionIn(First(seen), id))

(***************************************************************************)
(* The search outside the section p.  A symbol without scope counts within *)
(* its own object only, and then ends the search; a strong symbol beats a  *)
(* weak one; two strong ones are an error; of the weak ones the last wins. *)
(***************************************************************************)
Search(p, id) ==
    LET cands     == Definers(Sections \ {p}, id)
        weak(q)   == Has(SymbolAt(DefinitionIn(q, id)), "WEAK")
        scoped(q) == weak(q) \/ Has(SymbolAt(DefinitionIn(q, id)), "GLOBAL")
        own       == {q \in cands : ~scoped(q) /\ q[1] = p[1]}
        seen      == {q \in cands : scoped(q) /\ \A r \in own : Before(q, r)}
        strong    == {q \in seen : ~weak(q)}
    IN  IF Cardinality(strong) > 1 THEN Multiple
        ELSE IF own # {} THEN Found(DefinitionIn(First(own), id))
        ELSE IF strong # {} THEN Found(DefinitionIn(First(strong), id))
        ELSE IF seen # {} THEN Found(DefinitionIn(Latest(seen), id))
        ELSE Found(None)

\* Builtin symbols first.
ResolveReference(p, id) ==
    LET builtin == Definers(Builtins, id)
    IN  IF builtin # {} THEN Found(DefinitionIn(First(builtin), id)) ELSE Search(p, id)

\* The object's own definition will do unless it is weak.
Resolution(p, id) ==
    LET own     == Definers({q \in Sections : q[1] = p[1]}, id)
        inside  == DefinitionIn(First(own), id)
        outside == ResolveReference(p, id)
    IN  IF own # {} /\ (~Has(SymbolAt(inside), "WEAK") \/ outside = Found(None)) THEN Found(inside)
        ELSE outside

frame == Last(stack)
symbols == At(frame.place).symbols
Resolvable(sym) == IsRef(sym) /\ ~Has(sym, "ALIGN")
Advanced == [stack EXCEPT ![Len(stack)].next = @ + 1]

\* Symbols and alignments are passed over.
PassSymbol ==
    /\ phase \in {"resolve", "cdtors"} /\ stack # <<>>
    /\ frame.next <= Len(symbols) /\ ~Resolvable(symbols[frame.next])
    /\ stack' = Advanced
    /\ UNCHANGED <<commandline, opts, phase, exe, cdtor, layout, output>>

\* Faulty variant: a section met for the first time is kept, its references are not
\* resolved.
ResolveOne_Shallow ==
    /\ phase \in {"resolve", "cdtors"} /\ stack # <<>>
    /\ frame.next <= Len(symbols) /\ Resolvable(symbols[frame.next])
    /\ LET found  == Resolution(frame.place, symbols[frame.next].id)
           target == SectionOf(found.symbol)
           linked == [exe EXCEPT ![frame.place[1]][frame.place[2]].symbols[frame.next].resolve = found.symbol]
       IN  IF found.failed
           THEN phase' = "failed" /\ UNCHANGED <<exe, stack, opts>>
           ELSE /\ opts' = [opts EXCEPT !.unresolved = @ \/ found.symbol = None]
                /\ exe' = IF found.symbol = None THEN linked
                          ELSE [linked EXCEPT ![target[1]][target[2]] = Touched(@)]
                /\ stack' = Advanced
                /\ UNCHANGED phase
    /\ UNCHANGED <<commandline, cdtor, layout, output>>

\* One reference is resolved; a section met for the first time comes next.
ResolveOne ==
    /\ phase \in {"resolve", "cdtors"} /\ stack # <<>>
    /\ frame.next <= Len(symbols) /\ Resolvable(symbols[frame.next])
    /\ LET found  == Resolution(frame.place, symbols[frame.next].id)
           target == SectionOf(found.symbol)
           linked == [exe EXCEPT ![frame.place[1]][frame.place[2]].symbols[frame.next].resolve = found.symbol]
       IN  IF found.failed
           THEN phase' = "failed" /\ UNCHANGED <<exe, stack, opts>>
           ELSE /\ opts' = [opts EXCEPT !.unresolved = @ \/ found.symbol = None]
                /\ IF found.symbol = None \/ Has(At(target), "TOUCHED")
                   THEN exe' = linked /\ stack' = Advanced
                   ELSE /\ exe' = [linked EXCEPT ![target[1]][target[2]] = Touched(@)]
                        /\ stack' = Append(Advanced, [place |-> target, next |-> 1])
                /\ UNCHANGED phase
    /\ UNCHANGED <<commandline, cdtor, layout, output>>

SectionResolved ==
    /\ phase \in {"resolve", "cdtors"} /\ stack # <<>> /\ frame.next > Len(symbols)
    /\ stack' = Front(stack)
    /\ phase' = IF Len(stack) = 1 THEN "cdtors" ELSE phase
    /\ UNCHANGED <<commandline, opts, exe, cdtor, layout, output>>

\* Constructors and destructors are kept if anything else of their object is.
ResolveCdtor ==
    /\ phase = "cdtors" /\ stack = <<>> /\ cdtor # {}
    /\ LET p    == First(cdtor)
           keep == /\ ~Has(At(p), "TOUCHED") /\ At(p).flags \cap {"CTOR", "DTOR"} # {}
                   /\ \E s \in DOMAIN exe[p[1]] : Has(exe[p[1]][s], "TOUCHED")
       IN  IF keep THEN exe' = Replaced(p, Touched(At(p))) /\ stack' = <<[place |-> p, next |-> 1]>>
           ELSE UNCHANGED <<exe, stack>>
    /\ cdtor' = cdtor \ {First(cdtor)}
    /\ UNCHANGED <<commandline, opts, phase, layout, output>>

(***************************************************************************)
(* Layout                                                                  *)
(***************************************************************************)

\* The touched sections of a kind.
Kind(p) == At(p).flags \cap {"CTOR", "DTOR", "BSS"}
Matching(kind) == InOrder({p \in Sections : Has(At(p), "TOUCHED") /\ Kind(p) = kind})

NameRank(p) == SelectInSeq(NameOrder, LAMBDA n : n = At(p).id)

\* qsort leaves sections of the same name in any order.
Sorted(places) ==
    {[k \in DOMAIN places |-> places[f[k]]] :
        f \in {g \in [DOMAIN places -> DOMAIN places] :
                 /\ \A i, j \in DOMAIN places : i # j => g[i] # g[j]
                 /\ \A i \in DOMAIN places : \A j \in 1 .. i :
                       NameRank(places[g[j]]) <= NameRank(places[g[i]])}}

\* References that nothing defines have been reported: the link ends here.
Unresolved ==
    /\ phase = "cdtors" /\ stack = <<>> /\ cdtor = {} /\ opts.unresolved
    /\ phase' = "failed"
    /\ UNCHANGED <<commandline, opts, exe, stack, cdtor, layout, output>>

\* The section at p with its references sized.  What a symbol stands for does not
\* depend on sizes, so it does not matter which section comes first.
SizesFor(p) ==
    SizeReferences(At(p), [i \in DOMAIN At(p).symbols |-> Meant(At(p).symbols[i])])

\* All sections of the executable, those of the map sized.
Sized(places) ==
    [o \in DOMAIN exe |-> [s \in DOMAIN exe[o] |->
        IF <<o, s>> \in Range(places) THEN SizesFor(<<o, s>>) ELSE exe[o][s]]]

\* Sections and their lists, then the first sizes of all references.
Populate ==
    /\ phase = "cdtors" /\ stack = <<>> /\ cdtor = {} /\ ~opts.unresolved
    /\ \E ctors \in Sorted(Matching({"CTOR"})), dtors \in Sorted(Matching({"DTOR"})) :
          LET lists == IF Has(At(Builtin("__ctors_start__")), "TOUCHED")
                       THEN <<Builtin("__ctors_start__")>> \o ctors \o <<Builtin("__ctors_end__")>>
                            \o <<Builtin("__dtors_start__")>> \o dtors \o <<Builtin("__dtors_end__")>>
                       ELSE <<>>
              table == IF HasBuiltin("__reloctable__") THEN <<Builtin("__reloctable__")>> ELSE <<>>
          IN  entries' = Matching({}) \o lists \o table \o <<Builtin("__bss_start__")>>
                            \o Matching({"BSS"}) \o <<Builtin("__bss_end__")>>
    /\ exe' = Sized(entries')
    /\ phase' = "assign"
    /\ UNCHANGED <<commandline, opts, stack, cdtor, codeend, bssend, output>>

\* Where the sections of the map begin, one after the other; the uninitialised data
\* may have a base of its own.
Bases ==
    LET base[k \in DOMAIN entries] ==
            IF entries[k] = Builtin("__bss_start__") /\ opts.bss > 0 THEN opts.bss
            ELSE IF k = 1 THEN opts.base
            ELSE EndOf(AssignAddresses(At(entries[k - 1]), base[k - 1]))
    IN  base

\* Code and initialised data end before the uninitialised data begin.
AssignAll ==
    /\ phase = "assign"
    /\ LET base   == Bases
           Laid(k) == AssignAddresses(At(entries[k]), base[k])
           bss    == SelectInSeq(entries, LAMBDA p : p = Builtin("__bss_start__"))
           end    == IF bss = 1 THEN opts.base ELSE EndOf(Laid(bss - 1))
       IN  IF opts.bss > 0 /\ opts.bss < end /\ opts.bss >= opts.base
           THEN phase' = "failed" /\ UNCHANGED <<exe, codeend, bssend>>
           ELSE /\ phase' = "size"
                /\ exe' = [o \in DOMAIN exe |-> [s \in DOMAIN exe[o] |->
                              IF <<o, s>> \in Range(entries)
                              THEN Laid(CHOOSE k \in DOMAIN entries : entries[k] = <<o, s>>)
                              ELSE exe[o][s]]]
                /\ codeend' = end /\ bssend' = EndOf(Laid(Len(entries)))
    /\ UNCHANGED <<commandline, opts, stack, cdtor, entries, output>>

Exceeds(limit, end) == limit # 0 /\ limit < end

\* The references are sized again; when none has grown the layout stands.
SizeAll ==
    /\ phase = "size"
    /\ exe' = Sized(entries)
    /\ phase' = IF \E k \in DOMAIN entries :
                      Grown(At(entries[k]), exe'[entries[k][1]][entries[k][2]])
                THEN "assign"
                ELSE IF Exceeds(opts.ceiling, codeend) \/ Exceeds(opts.bssceiling, bssend)
                THEN "failed" ELSE "save"
    /\ UNCHANGED <<commandline, opts, stack, cdtor, layout, output>>

(***************************************************************************)
(* Output                                                                  *)
(***************************************************************************)

MapLines(p) == [k \in DOMAIN WriteMap(At(p), opts.locals) |->
                  [address |-> WriteMap(At(p), opts.locals)[k].address, id |-> WriteMap(At(p), opts.locals)[k].id]]

Output(p) == OutputExe(At(p), [i \in DOMAIN At(p).symbols |-> Meant(At(p).symbols[i])], opts.endian)

Save ==
    /\ phase = "save"
    /\ image' = FlattenSeq([k \in DOMAIN entries |-> Output(entries[k])])
    /\ relocs' = IF opts.reloc THEN FlattenSeq([k \in DOMAIN entries |-> OutputRelocs(At(entries[k]))])
                 ELSE <<>>
    /\ map' = IF opts.map THEN FlattenSeq([k \in DOMAIN entries |-> MapLines(entries[k])]) ELSE <<>>
    /\ phase' = "saved"
    /\ UNCHANGED <<commandline, opts, exe, stack, cdtor, layout>>

LinkInit(arguments) ==
    /\ argl = arguments /\ expects = {} /\ phase = "arguments"
    /\ opts = [base |-> 0, bss |-> -1, ceiling |-> 0, bssceiling |-> 0, constants |-> <<>>,
               declared |-> 0,
               map |-> FALSE, locals |-> FALSE, reloc |-> FALSE, endian |-> "little",
               loaded |-> <<>>, unresolved |-> FALSE]
    /\ exe = [o \in {0} |-> <<>>] /\ stack = <<>> /\ cdtor = {} /\ entries = <<>>
    /\ codeend = 0 /\ bssend = 0 /\ image = <<>> /\ relocs = <<>> /\ map = <<>>

LinkNext ==
    \/ LinkArgument \/ DeclareNext \/ Link \/ PassSymbol \/ ResolveOne \/ SectionResolved \/ ResolveCdtor
    \/ Unresolved \/ Populate \/ AssignAll \/ SizeAll \/ Save

\* The object files hold lists of sections, which nothing has marked yet, and these
\* hold lists of symbols.
ObjectFiles ==
    \A name \in DOMAIN disk :
        /\ disk[name] \in Seq(Range(disk[name]))
        /\ \A i \in DOMAIN disk[name] :
              /\ ~Has(disk[name][i], "TOUCHED")
              /\ disk[name][i].symbols \in Seq(Range(disk[name][i].symbols))

\* A symbol of an object file: a reference is of one kind, it is not a constant, and an
\* alignment is to a power of two.
Kinds == {"REFERENCE", "LDABS", "LDPCREL", "ALIGN"}

Ordinary(sym) ==
    /\ sym.cursor \in Int /\ sym.offset \in Int
    /\ \A a, b \in Kinds : Has(sym, a) /\ Has(sym, b) => a = b
    /\ IsRef(sym) => ~Has(sym, "CONSTANT")
    /\ Has(sym, "ALIGN") => PowerOfTwo(sym.offset)

\* What stands for a number is one: in the object files and on the command line.
Numbers ==
    /\ \A name \in DOMAIN disk : \A i \in DOMAIN disk[name] :
          /\ disk[name][i].cursor \in Int
          /\ \A k \in DOMAIN disk[name][i].symbols : Ordinary(disk[name][i].symbols[k])
    /\ opts.base \in Int /\ opts.bss \in Int
    /\ \A i \in DOMAIN opts.constants : opts.constants[i][2] \in Int

\* The linker by itself, run with these arguments.
LinkSpec(arguments) == LinkInit(arguments) /\ [][LinkNext]_linkvars

(***************************************************************************)
(* The references' sizes only ever grow, and stay within the six opcodes a *)
(* word can need: that is why the relaxation comes to an end.              *)
(***************************************************************************)
SizesOnlyGrow ==
    [][(phase \in {"assign", "size"}) =>
         \A o \in DOMAIN exe : \A s \in DOMAIN exe[o] : \A i \in DOMAIN exe[o][s].symbols :
            Has(exe[o][s].symbols[i], "ALIGN") \/
            exe'[o][s].symbols[i].size \in exe[o][s].symbols[i].size .. 6]_linkvars

(***************************************************************************)
(* Nothing that is used is left out: once all references are resolved, a   *)
(* reference of a section that is kept means a definition of its name in a *)
(* section that is kept, and a section that is kept is in the map.  The    *)
(* map passes over sections of two kinds at once, and over the lists of    *)
(* constructors unless their beginning is referred to.                     *)
(***************************************************************************)
PassedOver(p) == \/ Cardinality(Kind(p)) > 1
                 \/ /\ Kind(p) \in {{"CTOR"}, {"DTOR"}}
                    /\ ~Has(At(Builtin("__ctors_start__")), "TOUCHED")

Kept == {p \in Builtins \cup Sections : Has(At(p), "TOUCHED")}

\* What a reference should be after it has been resolved.
MeansKept(ref) ==
    LET r == ref.resolve
    IN  /\ r # None /\ SectionOf(r) \in Kept /\ r[3] \in DOMAIN At(SectionOf(r)).symbols
        /\ ~IsRef(SymbolAt(r)) /\ SymbolAt(r).id = ref.id

NothingLeftOut ==
    phase \in {"assign", "size", "save", "saved"} =>
        \A p \in Kept : /\ PassedOver(p) \/ p \in Range(entries)
                        /\ \A i \in DOMAIN At(p).symbols :
                              Resolvable(At(p).symbols[i]) => MeansKept(At(p).symbols[i])

\* What the references of a section up to the i-th symbol take.
Taken(sect) ==
    LET taken[i \in 0 .. Len(sect.symbols)] ==
            IF i = 0 THEN 0
            ELSE taken[i - 1] + (IF IsRef(sect.symbols[i]) THEN sect.symbols[i].size ELSE 0)
    IN  taken

\* Where the i-th symbol of a section comes to lie.
Lies(sect, i) == sect.address + sect.symbols[i].cursor + Taken(sect)[i - 1]

\* Where a section ends.
Ends(sect) == sect.address + sect.cursor + Taken(sect)[Len(sect.symbols)]

\* Where the k-th section of the map should begin.
Begins(k) ==
    IF entries[k] = Builtin("__bss_start__") /\ opts.bss > 0 THEN opts.bss
    ELSE IF k = 1 THEN opts.base
    ELSE Ends(At(entries[k - 1]))

\* v can be loaded with n opcodes.
Fits(v, n) == n = 6 \/ (n \in 1 .. 5 /\ -32 * Power64[n] <= v /\ v < 32 * Power64[n])

\* A symbol as it should be if it lies here and means this value.
Stands(sym, here, value) ==
    CASE Has(sym, "ALIGN")     -> (here + 1 + sym.size) % sym.offset = 0
      [] Has(sym, "REFERENCE") -> sym.size = 4
      [] Has(sym, "LDABS")     -> Fits(value, sym.size)
      [] Has(sym, "LDPCREL")   -> Fits(value - (here + sym.size + 1), sym.size)
      [] OTHER                 -> Has(sym, "CONSTANT") \/ sym.address = here

(***************************************************************************)
(* The layout stands when it is written: each section begins where the one *)
(* before it ends, all definitions have the address at which they will     *)
(* come to lie, alignments align what follows them, and each reference has *)
(* the room that its value or distance takes - though the last pass over   *)
(* the sizes came after the addresses had been given.                      *)
(***************************************************************************)
LayoutStands ==
    phase \in {"save", "saved"} =>
        \A k \in DOMAIN entries :
            LET sect == At(entries[k])
            IN  /\ sect.address = Begins(k)
                /\ \A i \in DOMAIN sect.symbols :
                      Stands(sect.symbols[i], Lies(sect, i),
                             TargetValue(Meant(sect.symbols[i]), sect.symbols[i]))

\* The n bytes of the image from this address on.
Bytes(addr, n) == [k \in 1 .. n |-> image[addr - opts.base + k]]

\* What these li opcodes load: the first sets all bits above its own, the others make
\* room for theirs.
Loads(bytes) ==
    LET six(k) == bytes[k] - 192
        sum[k \in DOMAIN bytes] ==
            IF k = 1 THEN (IF six(1) >= 32 THEN six(1) - 64 ELSE six(1)) ELSE 64 * sum[k - 1] + six(k)
    IN  sum[Len(bytes)]

\* v fits a word, and far more.
IsWord(v) == (v \div Power64[6]) \in -32 .. 31

\* The bytes are those of a reference that lies here and means this value.
Written(bytes, sym, here, value) ==
    CASE Has(sym, "ALIGN")     -> \A k \in DOMAIN bytes : bytes[k] = 0
      [] Has(sym, "REFERENCE") -> bytes = IntBytes(value, opts.endian)
      [] Has(sym, "LDABS")     -> IsWord(value) => Loads(bytes) = value
      [] Has(sym, "LDPCREL")   ->
           LET distance == value - (here + sym.size + 1)
           IN  IsWord(distance) => Loads(bytes) = distance

\* Where the section's i-th symbol, a reference, is written.
Stored(sect, i) == sect.address + Reached(sect.symbols[i]) + Taken(sect)[i - 1]

\* The references up to the i-th symbol are those that stand before the code at c.
Splits(sect, i, c) ==
    \A j \in DOMAIN sect.symbols : IsRef(sect.symbols[j]) => (j <= i <=> Reached(sect.symbols[j]) <= c)

\* A section's references and code stand in the image where the layout has them, and what is
\* written for a reference loads, or is, the value that it means.
Imaged(sect) ==
    /\ \A i \in DOMAIN sect.symbols :
          LET sym == sect.symbols[i]
          IN  IsRef(sym) => Written(Bytes(Stored(sect, i), sym.size), sym, Lies(sect, i),
                                    TargetValue(Meant(sym), sym))
    /\ \A c \in 0 .. sect.cursor - 1 : \A i \in 0 .. Len(sect.symbols) :
          Splits(sect, i, c) => Bytes(sect.address + c + Taken(sect)[i], 1) = Code(sect, c, c + 1)

\* Where a section's words are.
Words(sect) == {Stored(sect, i) : i \in {j \in DOMAIN sect.symbols : Has(sect.symbols[j], "REFERENCE")}}

Ascends(list) == \A j, k \in DOMAIN list : j < k => list[j] < list[k]

(***************************************************************************)
(* The image is as the layout says: each byte of a section's code and each *)
(* reference stands at its address, and means what it should; the          *)
(* relocation table, if there is one, lists the words, in order.           *)
(***************************************************************************)
ImageStands ==
    phase = "saved" =>
        LET written == {p \in Range(entries) : ~Has(At(p), "BSS")}
        IN  /\ Len(image) = codeend - opts.base
            /\ \A p \in written : Imaged(At(p))
            /\ opts.reloc => Ascends(relocs) /\ Range(relocs) = UNION {Words(At(p)) : p \in written}

\* References follow one another as their sections' code does.
Orderly(sect) ==
    /\ sect.cursor \in Nat
    /\ \A i \in DOMAIN sect.symbols :
          IsRef(sect.symbols[i]) =>
              /\ Reached(sect.symbols[i]) \in 0 .. sect.cursor
              /\ \A j \in DOMAIN sect.symbols :
                    j <= i /\ IsRef(sect.symbols[j]) => Reached(sect.symbols[j]) <= Reached(sect.symbols[i])

Order == \A name \in DOMAIN disk : \A i \in DOMAIN disk[name] : Orderly(disk[name][i])
=============================================================================
