--------------------------------- MODULE Isa ---------------------------------
(***************************************************************************)
(* What an instruction does to the state of a thread, once the pipeline is *)
(* out of sight: the register file (RTL/eightthirtytwo_cpu.vhd), the ALU   *)
(* and the shifter (eightthirtytwo_alu.vhd, eightthirtytwo_shifter.vhd),   *)
(* driven by the decoder's signals (Decode).                               *)
(* A machine m is [r, tmp, z, c, cy, sgn, size, ex, li, mem, wild]: the    *)
(* eight registers, tmp, the flags, the ALU's own carry register, the      *)
(* modifiers, whether instructions take effect, whether the last one was   *)
(* an li, and memory, a function from addresses to bytes; wild is set by a *)
(* store outside of it.  An instruction is [op, reg, imm].                 *)
(***************************************************************************)
EXTENDS Decode, Integers

LOCAL INSTANCE Bitwise

CONSTANTS
    WordBits,       \* 32 in the core
    ByteBits        \* 8 in the core; a word has four bytes

Full       == 2 ^ WordBits
SignedOf(v) == IF v >= Full \div 2 THEN v - Full ELSE v

AluFunction(i) ==
    CASE i.op \in {"ldinc", "stinc"}   -> "incw"
      [] i.op \in {"ldbinc", "stbinc"} -> "incb"
      [] i.op \in {"stdec", "stmpdec"} -> "decw"
      [] i.op \in {"sub", "cmp"}       -> "sub"
      [] i.op \in {"add", "addt", "ldidx"} -> "add"
      [] i.op \in {"and", "or", "shl", "shr", "ror", "mul"} -> i.op
      [] i.op = "xor" /\ i.reg # PC    -> "xor"
      [] OTHER                         -> "nop"

\* The low and the high word of a product, in halves that TLC can multiply.
Product(a, b) ==
    LET half == 2 ^ (WordBits \div 2)
        lo   == a * (b % half)
        hi   == a * (b \div half)
    IN  [low |-> (lo + (hi % half) * half) % Full, high |-> ((hi + (lo \div half)) \div half) % Full]

\* One bit after the other; the carry is the last bit that fell out.
Shift(fn, v, count, sgn, cy) ==
    LET n    == count % WordBits
        right == IF sgn THEN (SignedOf(v) \div 2 ^ n) % Full ELSE v \div 2 ^ n
    IN  CASE n = 0 -> [q |-> v, cy |-> cy]
          [] n > 0 /\ fn = "shl" ->
                [q  |-> (v % 2 ^ (WordBits - n)) * 2 ^ n, cy |-> (v \div 2 ^ (WordBits - n)) % 2 = 1]
          [] n > 0 /\ fn = "shr" -> [q |-> right, cy |-> (v \div 2 ^ (n - 1)) % 2 = 1]
          [] n > 0 /\ fn = "ror" ->
                [q  |-> v \div 2 ^ n + (v % 2 ^ n) * 2 ^ (WordBits - n), cy |-> (v \div 2 ^ (n - 1)) % 2 = 1]

\* The ALU's outputs and its carry, which most functions leave alone.
Alu(i, d1, d2, sgn, cy) ==
    LET fn   == AluFunction(i)
        out(q, carry) == [q1 |-> q, q2 |-> d2, cy |-> carry]
        sh   == Shift(fn, d1, d2, sgn, cy)
        prod == IF sgn THEN Product(SignedOf(d1), SignedOf(d2)) ELSE Product(d1, d2)
        less == IF sgn THEN SignedOf(d1) < SignedOf(d2) ELSE d1 < d2
    IN  CASE fn = "incw" -> out((d1 + 4) % Full, cy)
          [] fn = "incb" -> out((d1 + 1) % Full, cy)
          [] fn = "decw" -> out((d1 - 4) % Full, cy)
          [] fn = "add"  -> out((d1 + d2) % Full, d1 + d2 >= Full)
          [] fn = "sub"  -> out((d1 - d2) % Full, less)
          [] fn = "and"  -> out(d1 & d2, cy)
          [] fn = "or"   -> out(d1 | d2, cy)
          [] fn = "xor"  -> out(d1 ^^ d2, cy)
          [] fn \in {"shl", "shr", "ror"} -> out(sh.q, sh.cy)
          [] fn = "mul"  -> [q1 |-> prod.low, q2 |-> prod.high,
                             cy |-> sgn /\ prod.high >= Full \div 2]
          [] fn = "nop"  -> out(d1, cy)

(***************************************************************************)
(* Memory, little-endian                                                   *)
(***************************************************************************)

BytesOf(size) == CASE size = "byte" -> 1 [] size = "half" -> 2 [] size = "word" -> 4

ByteAt(mem, a) == IF a \in DOMAIN mem THEN mem[a] ELSE 0

RECURSIVE ReadBytes(_, _, _)
ReadBytes(mem, a, n) ==
    IF n = 0 THEN 0 ELSE ByteAt(mem, a) + 2 ^ ByteBits * ReadBytes(mem, a + 1, n - 1)

Read(mem, a, size) == ReadBytes(mem, a, BytesOf(size))

Write(mem, a, v, size) ==
    [b \in DOMAIN mem |->
        IF b \in a .. a + BytesOf(size) - 1 THEN (v \div 2 ^ (ByteBits * (b - a))) % 2 ^ ByteBits
        ELSE mem[b]]

(***************************************************************************)
(* One instruction                                                         *)
(***************************************************************************)

\* The predicate holds if the bit for the state of the flags is in its mask.
Holds(pred, m) ==
    LET bit  == (IF m.z THEN 1 ELSE 0) + (IF m.c THEN 2 ELSE 0)
        mask == pred + (IF (pred \div 2) % 2 = 1 THEN 8 ELSE 0)
    IN  (mask \div 2 ^ bit) % 2 = 1

Operand(source, m, i, next) ==
    CASE source = "tmp" -> m.tmp
      [] source = "gpr" -> IF i.reg = PC THEN next ELSE m.r[i.reg]
      [] source = "none" -> 0

\* The size of the access: the instruction's own, or what byt or hlf asked for.
AccessSize(m, ex) == IF "byte" \in ex THEN "byte" ELSE m.size

\* Byt and hlf are the instructions with the size and the flags in their signals.
Modifier(ex, size) ==
    IF "flags" \notin ex THEN size
    ELSE IF "byte" \in ex THEN "byte" ELSE IF "halfword" \in ex THEN "half" ELSE size

TopBit(v, n) == (v \div 2 ^ (WordBits - n)) % 2 = 1

LiValue(m, imm) == IF m.li THEN (m.tmp * 64 + imm) % Full ELSE IF imm >= 32 THEN (imm - 64) % Full ELSE imm

Execute(m, i, ex) ==
    LET next == m.r[PC] + 1
        d1   == Operand(AluReg1(i), m, i, next)
        d2   == Operand(AluReg2(i), m, i, next)
        q    == Alu(i, d1, d2, m.sgn, m.cy)
        addr == IF "postinc" \in ex THEN d1 ELSE q.q1
        size == AccessSize(m, ex)
        access == ex \cap {"load", "store"} # {}
        data == Read(m.mem, addr, size)
        r1   == [m.r EXCEPT ![PC] = next]
        jump == "q1toreg" \in ex /\ i.reg = PC
        flags == IF "load" \in ex THEN "load" ELSE IF "flags" \in ex THEN "alu"
                 ELSE IF jump THEN "pc" ELSE "none"
    IN  [m EXCEPT
            !.r   = IF "q1toreg" \notin ex THEN r1
                    ELSE [r1 EXCEPT ![i.reg] = IF jump THEN q.q1 % 2 ^ (WordBits - 2) ELSE q.q1],
            !.tmp = CASE "load" \in ex    -> data
                      [] i.op = "li"      -> LiValue(m, i.imm)
                      [] "q1totmp" \in ex -> q.q1
                      [] i.op # "li" /\ "q2totmp" \in ex -> q.q2
                      [] OTHER            -> @,
            !.z   = CASE flags = "load" -> data = 0
                      [] flags = "alu"  -> q.q1 = 0
                      [] flags = "pc"   -> TopBit(q.q1, 1)
                      [] flags = "none" -> @,
            !.c   = CASE flags = "load" -> TopBit(data, 1)
                      [] flags = "alu"  -> q.cy
                      [] flags = "pc"   -> TopBit(q.q1, 2)
                      [] flags = "none" -> @,
            !.cy  = q.cy,
            !.sgn = IF "flags" \in ex THEN FALSE ELSE @ \/ "sgn" \in ex,
            !.size = IF access THEN "word" ELSE Modifier(ex, @),
            !.li  = i.op = "li",
            !.mem = IF "store" \in ex THEN Write(@, addr, q.q2, size) ELSE @,
            !.wild = @ \/ ("store" \in ex /\ ~(addr .. addr + BytesOf(size) - 1 \subseteq DOMAIN m.mem))]

\* A cond decides whether what follows takes effect; so does a write to the
\* program counter that is skipped.
Step(m, i) ==
    LET ex   == ExOp(i)
        past == [m EXCEPT !.r[PC] = @ + 1, !.li = FALSE]
    IN  IF i.op = "cond" THEN [past EXCEPT !.ex = Holds(i.reg, m)]
        ELSE IF m.ex THEN Execute(m, i, ex)
        ELSE [past EXCEPT !.ex = "q1toreg" \in ex /\ i.reg = PC]
=============================================================================
