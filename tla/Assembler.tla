----------------------------- MODULE Assembler -----------------------------
(***************************************************************************)
(* The assembler 832a (832a/832a.c, peephole.c, 832defs.c): the lines of a *)
(* source file become the sections of an object file, one step per line.   *)
(* A line is a tuple <<mnemonic, tok, tok2>>; file names, byte strings and *)
(* expressions are already taken apart into tokens.                        *)
(***************************************************************************)
EXTENDS Objects, Expressions, TLC

CONSTANTS Sources        \* the text of every source file: a function to sequences of lines

VARIABLES argv,          \* arguments of the command line still to be looked at
          asm,           \* what they have set so far: [endian, out, expects]
          frames,        \* the files being parsed, the innermost include last
          obj,           \* the object file under construction
          asmfailed      \* asmerror() has ended the program

asmvars == <<argv, asm, frames, obj, asmfailed>>

NewObject == [sections |-> <<>>, current |-> 0, equates |-> <<>>]

(***************************************************************************)
(* Object files                                                            *)
(***************************************************************************)

FindSection(o, id) == SelectInSeq(o.sections, LAMBDA s : s.id = id)

SetSection(o, id) ==
    IF FindSection(o, id) # 0 THEN [o EXCEPT !.current = FindSection(o, id)]
    ELSE [o EXCEPT !.sections = Append(@, Section(id, {})), !.current = Len(o.sections) + 1]

\* The current section is created when none has been chosen yet.
GetSection(o) == IF o.current = 0 THEN SetSection(o, ".text") ELSE o

Current(o) == GetSection(o).sections[GetSection(o).current]

\* The object file with the current section changed.
InSection(o, Change(_)) ==
    LET p == GetSection(o) IN [p EXCEPT !.sections[p.current] = Change(@)]

(***************************************************************************)
(* Opcodes                                                                 *)
(***************************************************************************)

Regular == <<"cond", "exg", "ldbinc", "stdec", "ldinc", "shr", "shl", "ror", "stinc", "mr",
             "stbinc", "stmpdec", "ldidx", "ld", "mt", "st", "add", "sub", "mul", "and",
             "addt", "cmp", "or", "xor">>

Overloaded == [sgn |-> 183, ldt |-> 191, byt |-> 151, hlf |-> 159, sig |-> 175]

\* Registers, or the conditions NEX, SGT, EQ, GE, SLT, NEQ, LE and EX by their numbers.
Opcode(mnem, operand) ==
    CASE mnem = "li"                -> 192 + (operand % 64)
      [] mnem \in DOMAIN Overloaded -> Overloaded[mnem]
      [] OTHER -> 8 * (SelectInSeq(Regular, LAMBDA r : r = mnem) - 1) + operand

opc_mt == Opcode("mt", 0)
opc_mr == Opcode("mr", 0)

\* A context remembers the last opcode and its operand.
Context(opc) == [opcode |-> opc - (opc % 8), operand |-> opc % 8]
Cleared == Context(0)

\* Faulty variant: whatever the registers.
PeepholeTest_AnyRegister(context, opc) == {context.opcode, opc - (opc % 8)} # {opc_mt, opc_mr}

\* A move is redundant after the opposite move of the same register.
PeepholeTest(context, opc) ==
    context.operand = opc % 8 => {context.opcode, opc - (opc % 8)} # {opc_mt, opc_mr}

\* A local variable that nobody sets: what it can hold, as far as it matters.
Garbage == {Cleared, Context(opc_mt), Context(opc_mr)}

(***************************************************************************)
(* Lines                                                                   *)
(***************************************************************************)

Top == frames[Len(frames)]
Parsing == ~asmfailed /\ frames # <<>> /\ Top.lines # <<>>
line == Top.lines[1]
tok == line[2]
tok2 == line[3]
Is(mnems) == Parsing /\ line[1] \in mnems

\* After this line the object file is o and the peephole context is context.
NextLine(o, context) ==
    /\ obj' = o
    /\ frames' = [frames EXCEPT ![Len(frames)] = [lines |-> Tail(@.lines), context |-> context]]
    /\ UNCHANGED <<argv, asm, disk, asmfailed>>

Directive(o) == NextLine(o, Cleared)

literal == EvaluateString(tok, obj.equates)

\* What a directive emits.
LiteralBytes(fill) ==
    LET int == IntBytes(literal, asm.endian)
    IN  CASE line[1] = ".int"   -> int
          [] line[1] = ".short" -> IF asm.endian = "little" THEN SubSeq(int, 1, 2) ELSE SubSeq(int, 3, 4)
          [] line[1] = ".byte"  -> <<literal % 256>>
          [] line[1] = ".space" -> [k \in 1 .. literal |-> fill]

\* A fill byte that is not given is a local variable nobody sets.
Fills == CASE line[1] # ".space"                   -> {0}
           [] line[1] = ".space" /\ Len(line) = 2 -> {0, 255}
           [] line[1] = ".space" /\ Len(line) = 3 -> {tok2}

Emits == {".int", ".short", ".byte", ".space", ".ascii", ".liconst", "opcode"}

(***************************************************************************)
(* asmerror                                                                *)
(***************************************************************************)

BadExpression ==
    \/ Is({".int", ".short", ".byte", ".space", ".liconst"}) /\ literal = Undefined
    \/ Is({".equ"}) /\ EvaluateString(tok2, obj.equates) = Undefined

BadLabel ==
    /\ Is({"label"})
    /\ \/ IsDeclared(Current(obj), tok)
       \/ \E i \in DOMAIN obj.sections :
             i # GetSection(obj).current /\ FindSymbol(obj.sections[i], tok) # 0

BadCommon ==
    /\ Is({".comm", ".lcomm"})
    /\ \/ Current(obj).cursor # 0 /\ ~Has(Current(obj), "BSS")
       \/ IsDeclared(Current(obj), tok)

CodeInBss == Is(Emits \cup {".ref", ".liabs", ".lipcrel"}) /\ Has(Current(obj), "BSS")

BadLine ==
    \/ BadExpression \/ BadLabel \/ BadCommon \/ CodeInBss
    \/ Is({".include", ".incbin"}) /\ tok \notin DOMAIN Sources
    \/ Is({"opcode"}) /\ tok = "li" /\ tok2 \notin -64 .. 63

AsmError ==
    /\ BadLine
    /\ asmfailed' = TRUE
    /\ UNCHANGED <<argv, asm, frames, obj, disk>>

(***************************************************************************)
(* The directives                                                          *)
(***************************************************************************)

SymbolFlags ==
    \E d \in {<<".global", "GLOBAL">>, <<".weak", "WEAK">>} :
        /\ Is({d[1]})
        /\ Directive(InSection(obj, LAMBDA s : FlagSymbol(s, tok, {d[2]})))

ChooseSection == Is({".section"}) /\ Directive(SetSection(obj, tok))

SectionFlags ==
    \E d \in {<<".ctor", "CTOR">>, <<".dtor", "DTOR">>, <<".bss", "BSS">>} :
        /\ Is({d[1]})
        /\ Directive(InSection(SetSection(obj, tok), LAMBDA s : [s EXCEPT !.flags = @ \cup {d[2]}]))

Literal ==
    /\ Is({".int", ".short", ".byte", ".space"})
    /\ \E fill \in Fills : Directive(InSection(obj, LAMBDA s : EmitBytes(s, LiteralBytes(fill))))

Ascii == Is({".ascii"}) /\ Directive(InSection(obj, LAMBDA s : EmitBytes(s, tok)))

Label == Is({"label"}) /\ Directive(InSection(obj, LAMBDA s : DeclareSymbol(s, tok, {})))

Reference ==
    \E d \in {<<".ref", "REFERENCE">>, <<".liabs", "LDABS">>, <<".lipcrel", "LDPCREL">>} :
        /\ Is({d[1]})
        /\ Directive(InSection(obj, LAMBDA s : DeclareReference(s, tok, d[2], tok2)))

LiConst ==
    /\ Is({".liconst"})
    /\ Directive(InSection(obj, LAMBDA s : EmitBytes(s, LiBytes(literal, ConstantChunks(literal)))))

Constant ==
    Is({".constant"}) /\ Directive(InSection(obj, LAMBDA s : DeclareConstant(s, tok, tok2, "LOCAL")))

Alignment == Is({".align"}) /\ Directive(InSection(obj, LAMBDA s : Align(s, tok)))

Common ==
    \E d \in {<<".comm", "GLOBAL">>, <<".lcomm", "LOCAL">>} :
        /\ Is({d[1]})
        /\ Directive(InSection(obj, LAMBDA s : DeclareCommon(s, tok, tok2, d[2])))

Equate ==
    /\ Is({".equ"})
    /\ Directive([obj EXCEPT !.equates =
            Append(@, [id |-> tok, value |-> EvaluateString(tok2, obj.equates)])])

\* The bytes of another file; there has to be a buffer to put them into.
IncBin ==
    /\ Is({".incbin"}) /\ Current(obj).codebuffers # <<>>
    /\ Directive(InSection(obj, LAMBDA s : EmitBytes(s, Sources[tok])))

OpenFile(name, context) == [lines |-> Sources[name], context |-> context]

Include ==
    /\ Is({".include"})
    /\ \E context \in Garbage :
          frames' = Append([frames EXCEPT ![Len(frames)] = [lines |-> Tail(@.lines), context |-> Cleared]],
                           OpenFile(tok, context))
    /\ UNCHANGED <<argv, asm, obj, disk, asmfailed>>

Instruction ==
    /\ Is({"opcode"})
    /\ LET opc == Opcode(tok, tok2)
       IN  NextLine(IF PeepholeTest(Top.context, opc)
                    THEN InSection(obj, LAMBDA s : EmitByte(s, opc)) ELSE obj,
                    Context(opc))

(***************************************************************************)
(* Files                                                                   *)
(***************************************************************************)

\* An include is finished, or the object file complete: then it is written.
EndOfFile ==
    /\ ~asmfailed /\ frames # <<>> /\ Top.lines = <<>>
    /\ frames' = Front(frames)
    /\ IF Len(frames) > 1 THEN UNCHANGED <<obj, disk, asm>>
       ELSE /\ disk' = (asm.out :> [i \in DOMAIN obj.sections |-> OutputObj(obj.sections[i])]) @@ disk
            /\ obj' = NewObject
            /\ asm' = [asm EXCEPT !.out = ""]
    /\ UNCHANGED <<argv, asmfailed>>

\* An option announces the argument behind it; any other argument is a file.
AsmArgument ==
    /\ ~asmfailed /\ frames = <<>> /\ argv # <<>>
    /\ argv' = Tail(argv)
    /\ LET arg == Head(argv) IN
         \/ /\ arg \in {"-o", "-e"}
            /\ asm' = [asm EXCEPT !.expects = @ \cup {arg}]
            /\ UNCHANGED <<frames, obj>>
         \/ /\ arg \notin {"-o", "-e"} /\ "-o" \in asm.expects
            /\ asm' = [asm EXCEPT !.expects = @ \ {"-o"}, !.out = arg]
            /\ UNCHANGED <<frames, obj>>
         \/ /\ arg \notin {"-o", "-e"} /\ asm.expects = {"-e"}
            /\ asm' = [asm EXCEPT !.expects = {}, !.endian = arg]
            /\ UNCHANGED <<frames, obj>>
         \/ /\ arg \notin {"-o", "-e"} /\ asm.expects = {}
            /\ asm' = [asm EXCEPT !.out = IF @ = "" THEN arg ELSE @]
            /\ \E context \in Garbage : frames' = <<OpenFile(arg, context)>>
            /\ obj' = NewObject
    /\ UNCHANGED <<disk, asmfailed>>

AsmInit(arguments) ==
    /\ argv = arguments
    /\ asm = [endian |-> "little", out |-> "", expects |-> {}]
    /\ frames = <<>> /\ obj = NewObject /\ disk = <<>> /\ asmfailed = FALSE

AsmNext ==
    \/ AsmError \/ EndOfFile \/ AsmArgument \/ Include
    \/ ~BadLine /\ \/ SymbolFlags \/ ChooseSection \/ SectionFlags \/ Literal \/ Ascii \/ Label
                   \/ Reference \/ LiConst \/ Constant \/ Alignment \/ Common \/ Equate
                   \/ IncBin \/ Instruction

Assembled == ~asmfailed /\ argv = <<>> /\ frames = <<>>
=============================================================================
