------------------------------- MODULE Objects -------------------------------
(***************************************************************************)
(* Sections and symbols, the data assembler and linker share (832a:        *)
(* section.c, symbol.c, codebuffer.c, objectfile.c, 832util.c).            *)
(*                                                                         *)
(* A section's symbol list holds definitions and references in the order   *)
(* in which they were met.  Its code buffers hold the bytes between the    *)
(* references only: what stands in the place of a reference is not known   *)
(* before the linker has given it a size.  A reference's resolve is None   *)
(* or the place <<object, section, index>> of the symbol it means.         *)
(***************************************************************************)
EXTENDS Integers, FiniteSets, SequencesExt, FiniteSetsExt

CONSTANT CodeBufferSize
ASSUME CodeBufferSizeAssumption == CodeBufferSize \in Nat \ {0}

VARIABLE disk        \* the object files: a function from names to saved sections

None == <<>>

Symbol(id, cursor, flags, offset) ==
    [id |-> id, cursor |-> cursor, flags |-> flags, offset |-> offset,
     address |-> 0, size |-> 0, resolve |-> None]

Section(id, flags) ==
    [id |-> id, flags |-> flags, symbols |-> <<>>, codebuffers |-> <<>>,
     cursor |-> 0, address |-> 0, offset |-> 0]

Has(x, flag) == flag \in x.flags

IsRef(sym) == sym.flags \cap {"REFERENCE", "LDABS", "LDPCREL", "ALIGN"} # {}

(***************************************************************************)
(* Symbols                                                                 *)
(***************************************************************************)

AddSymbol(sect, sym) == [sect EXCEPT !.symbols = Append(@, sym)]

\* The index of the definition of id, 0 if there is none.
FindSymbol(sect, id) == SelectInSeq(sect.symbols, LAMBDA s : ~IsRef(s) /\ s.id = id)

\* The last symbol at or before the cursor, 0 if no symbol lies beyond it.
FindSymbolByCursor(sect, cursor) ==
    LET beyond == SelectInSeq(sect.symbols, LAMBDA s : s.cursor > cursor)
    IN  IF beyond = 0 THEN 0 ELSE beyond - 1

\* A symbol that is only mentioned is created undeclared, at -1.
GetSymbol(sect, id) ==
    IF FindSymbol(sect, id) # 0 THEN sect ELSE AddSymbol(sect, Symbol(id, -1, {}, 0))

FlagSymbol(sect, id, flags) ==
    LET s == GetSymbol(sect, id)
    IN  [s EXCEPT !.symbols[FindSymbol(s, id)].flags = @ \cup flags]

PlaceSymbol(sect, id, cursor) ==
    [sect EXCEPT !.symbols[FindSymbol(sect, id)].cursor = cursor]

IsDeclared(sect, id) ==
    LET i == FindSymbol(sect, id) IN i # 0 /\ sect.symbols[i].cursor # -1

DeclareSymbol(sect, id, flags) == PlaceSymbol(FlagSymbol(sect, id, flags), id, sect.cursor)

DeclareConstant(sect, id, value, scope) ==
    PlaceSymbol(FlagSymbol(sect, id, {"CONSTANT", scope}), id, value)

DeclareCommon(sect, id, size, scope) ==
    [DeclareSymbol(sect, id, {scope}) EXCEPT !.flags = @ \cup {"BSS"}, !.cursor = @ + size]

DeclareReference(sect, id, flag, offset) ==
    AddSymbol(sect, Symbol(id, sect.cursor, {flag}, offset))

\* The cursor of an alignment immediately precedes what is to be aligned.
Align(sect, align) == AddSymbol(sect, Symbol("algn", sect.cursor - 1, {"ALIGN"}, align))

(***************************************************************************)
(* Code                                                                    *)
(***************************************************************************)

EmitByte(sect, byte) ==
    LET n == Len(sect.codebuffers)
    IN  [sect EXCEPT !.cursor = @ + 1,
                     !.codebuffers = IF n = 0 \/ Len(@[n]) = CodeBufferSize
                                     THEN Append(@, <<byte>>)
                                     ELSE [@ EXCEPT ![n] = Append(@, byte)]]

EmitBytes(sect, bytes) == FoldLeft(EmitByte, sect, bytes)

\* What is written to an object file, and what is loaded from it.
OutputObj(sect) ==
    [id |-> sect.id, flags |-> sect.flags, symbols |-> sect.symbols,
     code |-> FlattenSeq(sect.codebuffers), cursor |-> sect.cursor]

LoadSymbol(sym) == Symbol(sym.id, sym.cursor, sym.flags, sym.offset)

LoadSection(saved) ==
    LET chunk(k) == SubSeq(saved.code, (k - 1) * CodeBufferSize + 1,
                           IF k * CodeBufferSize < Len(saved.code)
                           THEN k * CodeBufferSize ELSE Len(saved.code))
        chunks == (Len(saved.code) + CodeBufferSize - 1) \div CodeBufferSize
    IN  [Section(saved.id, saved.flags) EXCEPT
            !.symbols = [i \in DOMAIN saved.symbols |-> LoadSymbol(saved.symbols[i])],
            !.cursor = saved.cursor,
            !.codebuffers = [k \in 1 .. chunks |-> chunk(k)]]

\* The bytes from cursor position a up to b: every buffer but the last is full.
Code(sect, a, b) ==
    [k \in 1 .. b - a |->
        sect.codebuffers[(a + k - 1) \div CodeBufferSize + 1][((a + k - 1) % CodeBufferSize) + 1]]

IntBytes(v, endian) ==
    LET little == <<v % 256, (v \div 256) % 256, (v \div 65536) % 256, (v \div 16777216) % 256>>
    IN  IF endian = "little" THEN little ELSE Reverse(little)

\* The powers of 64 up to that of a whole word.
Power64 == <<1, 64, 4096, 262144, 16777216, 1073741824>>

\* v as n li opcodes of six bits each.
LiBytes(v, n) == [k \in 1 .. n |-> 192 + ((v \div Power64[n - k + 1]) % 64)]

(***************************************************************************)
(* The sizes of references                                                 *)
(***************************************************************************)

\* How many li opcodes it takes to load v; a word never needs more than six.
ConstantChunks(v) ==
    Min({k \in 1 .. 5 : -32 * Power64[k] <= v /\ v < 32 * Power64[k]} \cup {6})

\* Faulty variant: what the opcodes themselves take is forgotten.
PcrelChunks_Plain(from, to) == ConstantChunks(to - from)

\* The distance depends on the number of opcodes it is loaded with.
PcrelChunks(from, to) == Min({i \in 1 .. 5 : i >= ConstantChunks(to - (from + i))} \cup {6})

\* What a reference evaluates to; the address of a constant is its value.
TargetValue(target, ref) ==
    IF Has(target, "CONSTANT") THEN target.cursor ELSE target.address + ref.offset

\* Faulty variant: references follow the latest distances.
ReferenceSize_Shrinking(ref, addr, target) ==
    IF Has(ref, "ALIGN") THEN ref.size
    ELSE IF Has(ref, "REFERENCE") THEN 4
    ELSE IF ref.size = 0 THEN 6
    ELSE IF Has(ref, "LDABS") THEN ConstantChunks(TargetValue(target, ref))
    ELSE PcrelChunks(addr, TargetValue(target, ref))

\* References never shrink.  Alignments get their size with the addresses.
ReferenceSize(ref, addr, target) ==
    IF Has(ref, "ALIGN") THEN ref.size
    ELSE IF Has(ref, "REFERENCE") THEN 4
    ELSE IF ref.size = 0 THEN 1
    ELSE Max({ref.size,
              IF Has(ref, "LDABS") THEN ConstantChunks(TargetValue(target, ref))
              ELSE PcrelChunks(addr, TargetValue(target, ref))})

\* One pass over the references; targets[i] is the symbol that symbol i means, and
\* offset[i] what the references up to i take.
SizeReferences(sect, targets) ==
    LET symbols == sect.symbols
        Size(i, before) ==
            IF ~IsRef(symbols[i]) THEN 0
            ELSE ReferenceSize(symbols[i], sect.address + symbols[i].cursor + before + 1, targets[i])
        offset[i \in 0 .. Len(symbols)] ==
            IF i = 0 THEN 0 ELSE LET before == offset[i - 1] IN before + Size(i, before)
    IN  [sect EXCEPT
            !.symbols = [i \in DOMAIN symbols |->
                            IF ~IsRef(symbols[i]) THEN symbols[i]
                            ELSE [symbols[i] EXCEPT !.size = Size(i, offset[i - 1])]],
            !.offset = offset[Len(symbols)]]

\* Faulty variant: a reference that keeps its size counts as well.
Grown_Kept(old, new) ==
    \E i \in DOMAIN new.symbols :
        ~Has(new.symbols[i], "REFERENCE") /\ new.symbols[i].size >= old.symbols[i].size

\* Has a load reference grown between the two versions of a section?
Grown(old, new) ==
    \E i \in DOMAIN new.symbols :
        ~Has(new.symbols[i], "REFERENCE") /\ new.symbols[i].size > old.symbols[i].size

\* 2 ^ n: a number of which every divisor but 1 is even.
PowerOfTwo(k) == k \in Nat \ {0} /\ \A d \in 2 .. k : k % d = 0 => d % 2 = 0

\* x & ~y: the word x without the bits of y.
AndNot[x \in Int, y \in Nat] ==
    IF y = 0 THEN x
    ELSE 2 * AndNot[x \div 2, y \div 2] + (IF y % 2 = 1 THEN 0 ELSE x % 2)

\* x & ~(k - 1): for a power of two this is the multiple of k below x, for another
\* number it need not be a multiple of k at all.
Masked(x, k) == IF PowerOfTwo(k) THEN x - (x % k) ELSE AndNot[x, k - 1]

\* Gives every symbol its address, and every alignment its size.
AssignAddresses(sect, base) ==
    LET symbols == sect.symbols
        Here(i, before) == base + symbols[i].cursor + before
        Padding(a, k) == Masked(a + k - 1, k) - a
        Size(i, before) == IF Has(symbols[i], "ALIGN")
                           THEN Padding(Here(i, before) + 1, symbols[i].offset)
                           ELSE symbols[i].size
        Counts(i) == IsRef(symbols[i]) /\ ~Has(symbols[i], "CONSTANT")
        offset[i \in 0 .. Len(symbols)] ==
            IF i = 0 THEN 0
            ELSE LET before == offset[i - 1]
                 IN  before + (IF Counts(i) THEN Size(i, before) ELSE 0)
    IN  [sect EXCEPT
            !.address = base,
            !.symbols = [i \in DOMAIN symbols |->
                            IF Has(symbols[i], "CONSTANT") THEN symbols[i]
                            ELSE IF IsRef(symbols[i])
                            THEN [symbols[i] EXCEPT !.size = Size(i, offset[i - 1])]
                            ELSE [symbols[i] EXCEPT !.address = Here(i, offset[i - 1])]],
            !.offset = offset[Len(symbols)]]

\* Where the next section begins.
EndOf(sect) == sect.address + sect.cursor + sect.offset

(***************************************************************************)
(* Output                                                                  *)
(***************************************************************************)

\* Faulty variant: what the references before it take is forgotten.
RefBytes_Here(sect, ref, offset, target, endian) ==
    CASE Has(ref, "ALIGN")     -> [k \in 1 .. ref.size |-> 0]
      [] Has(ref, "LDPCREL")   ->
           LiBytes(TargetValue(target, ref) - (sect.address + ref.cursor + ref.size + 1), ref.size)
      [] Has(ref, "LDABS")     -> LiBytes(TargetValue(target, ref), ref.size)
      [] Has(ref, "REFERENCE") -> IntBytes(TargetValue(target, ref), endian)

RefBytes(sect, ref, offset, target, endian) ==
    CASE Has(ref, "ALIGN")     -> [k \in 1 .. ref.size |-> 0]
      [] Has(ref, "LDPCREL")   ->
           LiBytes(TargetValue(target, ref)
                     - (sect.address + ref.cursor + ref.size + offset + 1), ref.size)
      [] Has(ref, "LDABS")     -> LiBytes(TargetValue(target, ref), ref.size)
      [] Has(ref, "REFERENCE") -> IntBytes(TargetValue(target, ref), endian)

\* Where the output stands when a reference is reached.
Reached(ref) == IF Has(ref, "ALIGN") THEN ref.cursor + 1 ELSE ref.cursor

\* The section in the executable: its code with the references inserted.
OutputExe(sect, targets, endian) ==
    LET Step(acc, i) ==
            LET ref == sect.symbols[i]
            IN  IF ~IsRef(ref) THEN acc
                ELSE [out    |-> acc.out \o Code(sect, acc.cursor, Reached(ref))
                                         \o RefBytes(sect, ref, acc.offset, targets[i], endian),
                      cursor |-> Reached(ref),
                      offset |-> acc.offset + ref.size]
        done[i \in 0 .. Len(sect.symbols)] ==
            IF i = 0 THEN [out |-> <<>>, cursor |-> 0, offset |-> 0] ELSE Step(done[i - 1], i)
        all == done[Len(sect.symbols)]
    IN  IF Has(sect, "BSS") THEN <<>> ELSE all.out \o Code(sect, all.cursor, sect.cursor)

\* Faulty variant: what the references before it take is forgotten.
OutputRelocs_Cursor(sect) ==
    LET words == SelectSeq(sect.symbols, LAMBDA ref : Has(ref, "REFERENCE"))
    IN  IF Has(sect, "BSS") THEN <<>> ELSE [k \in DOMAIN words |-> sect.address + words[k].cursor]

\* The addresses of the words that depend on where the program is loaded.
OutputRelocs(sect) ==
    LET Step(acc, i) ==
            LET ref == sect.symbols[i]
            IN  IF ~IsRef(ref) THEN acc
                ELSE [out    |-> IF Has(ref, "REFERENCE")
                                 THEN Append(acc.out, sect.address + ref.cursor + acc.offset) ELSE acc.out,
                      offset |-> acc.offset + ref.size]
        done[i \in 0 .. Len(sect.symbols)] ==
            IF i = 0 THEN [out |-> <<>>, offset |-> 0] ELSE Step(done[i - 1], i)
    IN  IF Has(sect, "BSS") THEN <<>> ELSE done[Len(sect.symbols)].out

\* The section's lines in the map file.
WriteMap(sect, locals) ==
    SelectSeq(sect.symbols,
              LAMBDA s : Has(s, "GLOBAL") \/ (locals /\ ~Has(s, "CONSTANT") /\ ~IsRef(s)))
=============================================================================
