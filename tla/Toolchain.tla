----------------------------- MODULE Toolchain -----------------------------
(***************************************************************************)
(* From source files to an executable: 832a assembles each of them, 832l   *)
(* links the object files.  The properties compare the bytes in the        *)
(* executable with the lines of the sources.                               *)
(***************************************************************************)
EXTENDS Assembler, Linker

CONSTANT Programs        \* records [asm, link, from]: the arguments of the two tools, and
                         \* the sources of the objects that -o has given another name

VARIABLE program

vars == <<program, asmvars, linkvars, disk>>

Init == \E p \in Programs :
            program = p /\ AsmInit(p.asm) /\ LinkInit(p.link)

Finished == asmfailed \/ phase \in {"saved", "failed"}

Next ==
    \/ AsmNext /\ UNCHANGED <<program, linkvars>>
    \/ Assembled /\ LinkNext /\ UNCHANGED <<program, asmvars, disk>>
    \/ Finished /\ UNCHANGED vars

\* The tools run on until they end.
Progress == []<>Finished \/ []<><<Next>>_vars

Spec == Init /\ [][Next]_vars /\ Progress

(***************************************************************************)
(* The sources, read independently of the assembler                        *)
(***************************************************************************)

\* The sources of the objects linked, in order; -o may have renamed an object.
Linked ==
    LET args == program.link
        named == SelectSeq([k \in DOMAIN args |-> IF args[k][1] = "file" THEN args[k][2] ELSE ""],
                           LAMBDA n : n # "")
    IN  [k \in DOMAIN named |-> IF named[k] \in DOMAIN program.from THEN program.from[named[k]]
                                ELSE named[k]]

\* A source file's own lines, includes expanded.
Lines ==
    [file \in UNION {ToSet(p.asm) : p \in Programs} \cap DOMAIN Sources |->
        FoldLeft(LAMBDA acc, l : IF l[1] = ".include" THEN acc \o Sources[l[2]] ELSE Append(acc, l),
                 <<>>, Sources[file])]

Opens == {".section", ".ctor", ".dtor", ".bss"}

\* The lines of each section, in the order in which the sections are opened.
SectionsOf ==
    LET Open(acc, id) ==
            LET at == SelectInSeq(acc.sections, LAMBDA s : s.id = id)
            IN  IF at # 0 THEN [acc EXCEPT !.current = at]
                ELSE [current  |-> Len(acc.sections) + 1,
                      sections |-> Append(acc.sections, [id |-> id, lines |-> <<>>])]
        Step(acc, l) ==
            IF l[1] \in Opens THEN Open(acc, l[2])
            ELSE LET o == IF acc.current = 0 THEN Open(acc, ".text") ELSE acc
                 IN  [o EXCEPT !.sections[o.current].lines = Append(@, l)]
    IN  [file \in DOMAIN Lines |->
            FoldLeft(Step, [current |-> 0, sections |-> <<>>],
                     SelectSeq(Lines[file], LAMBDA l : l[1] # ".equ")).sections]

Named(file, mnems) ==
    {Lines[file][k][2] : k \in {j \in DOMAIN Lines[file] : Lines[file][j][1] \in mnems}}
Defined == [file \in DOMAIN Lines |-> Named(file, {"label", ".comm", ".lcomm", ".constant"})]
Weak    == [file \in DOMAIN Lines |-> Named(file, {".weak"})]
Exports == [file \in DOMAIN Lines |-> Defined[file] \cap (Named(file, {".global", ".comm"}) \cup Weak[file])]

\* The files a name means, seen from a file: its own, else the exporting ones.
MeaningFiles(file, id) ==
    LET all == {f \in ToSet(Linked) : id \in Exports[f]}
        strong == {f \in all : id \notin Weak[f]}
    IN  IF id \in Defined[file] \ Weak[file] THEN {file}
        ELSE IF strong # {} THEN strong
        ELSE all

(***************************************************************************)
(* What an expression is worth: the operator of lowest priority splits it, *)
(* the last one of those; Rank gives the priorities.                       *)
(***************************************************************************)
RECURSIVE Worth(_, _)
Worth(text, names) ==
    LET depth(k) == Cardinality({j \in 1 .. k : text[j][1] = "("})
                      - Cardinality({j \in 1 .. k : text[j][1] = ")"})
        outer    == {k \in DOMAIN text : text[k][1] = "op" /\ depth(k) = 0}
        split    == CHOOSE k \in outer : \A j \in outer :
                       \/ Rank(text[k][2]) > Rank(text[j][2])
                       \/ Rank(text[k][2]) = Rank(text[j][2]) /\ k >= j
    IN  IF outer # {} THEN Apply(text[split][2],
                                 Worth(SubSeq(text, 1, split - 1), names),
                                 Worth(SubSeq(text, split + 1, Len(text)), names))
        ELSE IF Len(text) > 1 THEN Worth(SubSeq(text, 2, Len(text) - 1), names)
        ELSE IF text[1][1] = "num" THEN text[1][2] ELSE names[text[1][2]]

Equates ==
    [file \in DOMAIN Lines |->
        FoldLeft(LAMBDA names, l : names @@ (l[2] :> Worth(l[3], names)),
                 <<>>, SelectSeq(Lines[file], LAMBDA l : l[1] = ".equ"))]

(***************************************************************************)
(* Reading the image along the lines.  The walk over a section starts at   *)
(* address p and collects labels and references; ok turns FALSE at the     *)
(* first byte that is not what the line asks for.  same is the set of      *)
(* registers known to hold what tmp holds: a move between them may be      *)
(* left out.                                                               *)
(***************************************************************************)

Byte(p) == image[p - opts.base + 1]
InImage(p, n) == p >= opts.base /\ p + n <= opts.base + Len(image)
Holds(p, bytes) == InImage(p, Len(bytes)) /\ \A k \in DOMAIN bytes : Byte(p + k - 1) = bytes[k]

\* The li opcodes from p on, and the value they leave in tmp.
RunLength(p) ==
    LET n == CHOOSE k \in 0 .. 8 : (~InImage(p + k, 1) \/ Byte(p + k) < 192)
                 /\ \A j \in 0 .. k - 1 : InImage(p + j, 1) /\ Byte(p + j) >= 192
    IN  n
RunValue(p) ==
    LET six(k) == Byte(p + k - 1) % 64
        sum[k \in 1 .. RunLength(p)] ==
            IF k = 1 THEN (IF six(1) >= 32 THEN six(1) - 64 ELSE six(1)) ELSE sum[k - 1] * 64 + six(k)
    IN  sum[RunLength(p)]

WordAt(p) ==
    LET b(k) == Byte(IF opts.endian = "little" THEN p + k ELSE p + 3 - k)
        top  == IF b(3) >= 128 THEN b(3) - 256 ELSE b(3)
    IN  b(0) + 256 * b(1) + 65536 * b(2) + 16777216 * top

WordBytes(v, n, endian) ==
    [k \in 1 .. n |-> (v \div 256 ^ (IF endian = "little" THEN k - 1 ELSE n - k)) % 256]

ReadLine(file, acc, l) ==
    LET worth == Worth(l[2], Equates[file])
        p     == acc.p
        Plain(bytes) == [acc EXCEPT !.p = @ + Len(bytes), !.ok = @ /\ Holds(p, bytes), !.same = {}]
        Ref(kind, n, v) == [acc EXCEPT !.p = @ + n, !.same = {},
                               !.refs = Append(@, [kind |-> kind, file |-> file, id |-> l[2],
                                                   offset |-> l[3], value |-> v, at |-> p, next |-> p + n])]
        endian == asm.endian
    IN  CASE l[1] = ".int"   -> Plain(WordBytes(worth, 4, endian))
          [] l[1] = ".short" -> Plain(WordBytes(worth, 2, endian))
          [] l[1] = ".byte"  -> Plain(WordBytes(worth, 1, endian))
          [] l[1] = ".space" -> IF Len(l) = 2
                                THEN [acc EXCEPT !.p = @ + worth, !.ok = @ /\ InImage(p, worth), !.same = {}]
                                ELSE Plain([k \in 1 .. worth |-> l[3]])
          [] l[1] = ".ascii" -> Plain(l[2])
          [] l[1] = ".incbin" -> Plain(Sources[l[2]])
          [] l[1] = ".liconst" -> IF RunLength(p) = 0 THEN [acc EXCEPT !.ok = FALSE]
                                  ELSE [acc EXCEPT !.p = @ + RunLength(p), !.same = {},
                                                   !.ok = @ /\ RunValue(p) = worth]
          [] l[1] \in {".liabs", ".lipcrel"} ->
               IF RunLength(p) = 0 THEN [acc EXCEPT !.ok = FALSE]
               ELSE Ref(l[1], RunLength(p), RunValue(p))
          [] l[1] = ".ref"   -> IF InImage(p, 4) THEN Ref(".ref", 4, WordAt(p)) ELSE [acc EXCEPT !.ok = FALSE]
          [] l[1] = ".align" ->
               LET pad == (0 - p) % l[2]
               IN  [acc EXCEPT !.p = @ + pad, !.same = {},
                               !.ok = @ /\ (acc.bss \/ Holds(p, [k \in 1 .. pad |-> 0]))]
          [] l[1] = "label"  ->
               [acc EXCEPT !.same = {}, !.labels = @ \cup {[file |-> file, id |-> l[2], at |-> p]}]
          [] l[1] \in {".comm", ".lcomm"} ->
               [acc EXCEPT !.p = @ + l[3],
                           !.labels = @ \cup {[file |-> file, id |-> l[2], at |-> p]}]
          [] l[1] = "opcode" /\ l[2] \in {"mt", "mr"} ->
               LET opc == Opcode(l[2], l[3])
                   all == IF l[2] = "mt" THEN {l[3]} ELSE acc.same \cup {l[3]}
               IN  IF Holds(p, <<opc>>) THEN [acc EXCEPT !.p = @ + 1, !.same = all]
                   ELSE [acc EXCEPT !.ok = @ /\ l[3] \in acc.same]
          [] l[1] = "opcode" /\ l[2] \notin {"mt", "mr"} -> Plain(<<Opcode(l[2], l[3])>>)
          [] OTHER -> [acc EXCEPT !.same = {}]

Start(p) == [p |-> p, ok |-> TRUE, same |-> {}, bss |-> FALSE, labels |-> {}, refs |-> <<>>]

\* A whole section; the linker's own consist of a label, some of an alignment too.
ReadSection(e) ==
    LET p == At(e).address
    IN  IF e[1] = 0
        THEN LET id == At(e).id
                 at == IF id \in {"__bss_start__", "__bss_end__"} THEN p + ((0 - p) % 4) ELSE p
             IN  [Start(p) EXCEPT !.p = at, !.labels = {[file |-> "", id |-> id, at |-> at]}]
        ELSE LET file == Linked[e[1]]
             IN  FoldLeft(LAMBDA a, l : ReadLine(file, a, l), [Start(p) EXCEPT !.bss = Has(At(e), "BSS")],
                         SectionsOf[file][e[2]].lines)

Readings == [k \in DOMAIN entries |-> ReadSection(entries[k])]

\* Every section begins where the one before it ends, but for a base of its own.
Contiguous(readings) ==
    \A k \in DOMAIN entries :
        At(entries[k]).address =
            CASE opts.bss > 0 /\ At(entries[k]).id = "__bss_start__" -> opts.bss
              [] k = 1 -> opts.base
              [] OTHER -> readings[k - 1].p

AllRefs(readings) == FlattenSeq([k \in DOMAIN readings |-> readings[k].refs])

\* The constants of the command line take the place of weak ones.
ConstantOf(file, id) ==
    LET own == {Lines[file][k][3] : k \in {j \in DOMAIN Lines[file] :
                   Lines[file][j][1] = ".constant" /\ Lines[file][j][2] = id}}
        given == {opts.constants[k][2] : k \in {j \in DOMAIN opts.constants : opts.constants[j][1] = id}}
    IN  IF own # {} /\ (given = {} \/ id \notin Weak[file]) THEN own ELSE given

\* What a name may stand for in a file.
Meanings(labels, file, id) ==
    ConstantOf(file, id) \cup
    {l.at : l \in {m \in labels : m.id = id /\ (m.file = "" \/ m.file \in MeaningFiles(file, id))}}

\* An li of a distance is followed by the add to r7 that jumps.
Refers(labels, ref) ==
    LET value == IF ref.kind = ".lipcrel" THEN ref.value + ref.next + 1 ELSE ref.value
        const == ConstantOf(ref.file, ref.id) # {}
    IN  \E v \in Meanings(labels, ref.file, ref.id) : value = v + (IF const THEN 0 ELSE ref.offset)

(***************************************************************************)
(* Properties                                                              *)
(***************************************************************************)

(***************************************************************************)
(* The executable is what the sources say: every line's bytes stand in     *)
(* their place, every alignment is one, every reference - of whatever size *)
(* the relaxation has given it - evaluates to the place of what it names,  *)
(* strong symbols before weak ones, and the only moves the peephole pass   *)
(* has removed are those that change nothing.                              *)
(***************************************************************************)
ImageIsSource ==
    phase = "saved" =>
        LET readings == Readings
            labels   == UNION {readings[k].labels : k \in DOMAIN readings}
        IN  /\ Contiguous(readings)
            /\ \A k \in DOMAIN readings :
                  /\ readings[k].ok
                  /\ \A n \in DOMAIN readings[k].refs : Refers(labels, readings[k].refs[n])
            /\ Len(image) = codeend - opts.base

(***************************************************************************)
(* The relocation table lists exactly the places of the words in the image *)
(* that hold an address (premain's relocation loop adds the load address   *)
(* to each of them), in ascending order.                                   *)
(***************************************************************************)
RelocsPointAtWords ==
    (phase = "saved" /\ opts.reloc) =>
        relocs = LET words == SelectSeq(AllRefs(Readings), LAMBDA r : r.kind = ".ref")
                 IN  [k \in DOMAIN words |-> words[k].at]

(***************************************************************************)
(* Every build ends, with an executable or an error.                       *)
(***************************************************************************)
BuildEnds == <>Finished

\* What code and data take at most.
CodeLimit ==
    LET padding(sect) == SelectSeq(sect.symbols, LAMBDA sym : Has(sym, "ALIGN"))
        limit(sect)   == FoldLeft(LAMBDA n, sym : n + sym.offset - 1, sect.cursor + sect.offset, padding(sect))
    IN  FoldLeft(LAMBDA n, p : n + (IF Has(At(p), "BSS") THEN 0 ELSE limit(At(p))), 0, entries)

(***************************************************************************)
(* The linker refuses only what is wrong: a name that nothing or too much  *)
(* defines, or a layout that does not fit the limits asked for.            *)
(***************************************************************************)
LinkFailsForCause ==
    (phase = "failed") =>
        \/ \E k \in DOMAIN program.link : program.link[k][1] = "file" /\ program.link[k][2] \notin DOMAIN disk
        \/ Exceeds(opts.ceiling, codeend) \/ Exceeds(opts.bssceiling, bssend)
        \/ opts.bss > 0 /\ opts.bss < opts.base + CodeLimit
        \/ \E k \in DOMAIN Linked : \E n \in DOMAIN Lines[Linked[k]] :
              LET l == Lines[Linked[k]][n]
              IN  /\ l[1] \in {".ref", ".liabs", ".lipcrel"}
                  /\ ~HasBuiltin(l[2]) /\ ConstantOf(Linked[k], l[2]) = {}
                  /\ Cardinality(MeaningFiles(Linked[k], l[2])) # 1

(***************************************************************************)
(* "Having found a ctor or dtor we need to touch the function it           *)
(* references but only if something else within the same objectfile has    *)
(* been referenced" (executable.c:308): an object that contributes         *)
(* anything contributes its constructors too.                              *)
(***************************************************************************)
CtorsComplete ==
    phase \in {"assign", "size", "save", "saved"} =>
        \A p, q \in Sections :
            (p[1] = q[1] /\ Has(At(p), "TOUCHED") /\ At(q).flags \cap {"CTOR", "DTOR"} # {})
                => Has(At(q), "TOUCHED")
=============================================================================
