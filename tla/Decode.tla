-------------------------------- MODULE Decode --------------------------------
(***************************************************************************)
(* The instruction decoder (RTL/eightthirtytwo_decode.vhd, with the        *)
(* constants of RTL/eightthirtytwo_pkg.vhd).  An instruction is a record   *)
(* [op, reg]; for register 7 many opcodes mean something else.  Of the     *)
(* immediate of li nothing is kept.                                        *)
(***************************************************************************)
EXTENDS Naturals

Opcodes == {"cond", "exg", "ldbinc", "stdec", "ldinc", "shr", "shl", "ror", "stinc",
            "mr", "stbinc", "stmpdec", "ldidx", "ld", "mt", "st", "add", "sub", "mul",
            "and", "addt", "cmp", "or", "xor", "li"}

Instruction == [op : Opcodes, reg : 0 .. 7]

PC == 7              \* the register number of the program counter
NEX == 0             \* the predicate that pauses the thread, as a register number
EX == 7              \* the predicate that always holds

\* A thread may be interrupted in front of these: both overwrite tmp.
Interruptable(i) == i.op \in {"mt", "li"}

\* The instructions that the modifier set by sgn has an effect on.
UsesSgn(i) == i.op \in {"sub", "cmp", "mul", "shr"} /\ (i.reg # PC \/ i.op \in {"sub", "shr"})

\* The ALU function, for those opcodes whose function the pipeline looks at.
AluFunc(i) ==
    CASE i.op \in {"stbinc", "ldbinc", "stinc", "ldinc"} -> "inc"
      [] i.op \in {"shl", "shr", "ror"}                  -> "shift"
      [] i.op \in {"mul", "li"}                          -> i.op
      [] OTHER                                           -> "other"

\* The sources of the two ALU operands.
AluReg1(i) ==
    IF i.op \in {"mr", "ldidx", "stmpdec", "exg", "add", "xor"} THEN "tmp"
    ELSE IF i.op \in {"cond", "li"} THEN "none"
    ELSE "gpr"

AluReg2(i) ==
    IF i.op \in {"mr", "stinc", "st", "sub", "cmp", "stbinc", "stdec", "and", "or",
                 "shl", "shr", "ror", "mul", "addt"} THEN "tmp"
    ELSE IF i.op \in {"stmpdec", "exg", "add", "ldidx", "xor", "mt"} THEN "gpr"
    ELSE "none"

\* The overloads of register 7: addl, byt, hlf, sig, sgn and ldt.
OverloadedEx(i) ==
    CASE i.op = "add" -> {"q1toreg", "q2totmp"}
      [] i.op = "mul" -> {"flags", "byte"}
      [] i.op = "and" -> {"flags", "halfword"}
      [] i.op = "cmp" -> {"halfword"}
      [] i.op = "or"  -> {"sgn"}
      [] i.op = "xor" -> {"load"}

\* What the stages behind the decoder have to do.
ExOp(i) ==
    IF i.reg = PC /\ i.op \in {"add", "mul", "and", "cmp", "or", "xor"}
    THEN OverloadedEx(i)
    ELSE CASE i.op = "cond"            -> {"cond"}
           [] i.op \in {"mt", "li"}    -> {"q2totmp"}
           [] i.op = "mr"              -> {"q1toreg"}
           [] i.op = "cmp"             -> {"flags"}
           [] i.op = "st"              -> {"store"}
           [] i.op \in {"ld", "ldidx"} -> {"load"}
           [] i.op = "stinc"           -> {"postinc", "store", "q1toreg"}
           [] i.op = "stbinc"          -> {"postinc", "store", "q1toreg", "byte"}
           [] i.op = "ldinc"           -> {"postinc", "load", "q1toreg"}
           [] i.op = "ldbinc"          -> {"postinc", "load", "q1toreg", "byte"}
           [] i.op = "stdec"           -> {"store", "q1toreg"}
           [] i.op = "stmpdec"         -> {"store", "q1totmp"}
           [] i.op = "exg"             -> {"q1toreg", "q2totmp"}
           [] i.op = "addt"            -> {"q1totmp", "flags"}
           [] i.op = "mul"             -> {"q1toreg", "q2totmp", "flags", "waitalu"}
           [] i.op \in {"shl", "shr", "ror"}       -> {"q1toreg", "flags", "waitalu"}
           [] i.op \in {"add", "sub", "and", "or", "xor"} -> {"q1toreg", "flags"}

ExBits == {"cond", "postinc", "load", "store", "q1toreg", "q1totmp", "q2totmp",
           "flags", "halfword", "byte", "waitalu", "sgn"}
=============================================================================
