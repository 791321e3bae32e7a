------------------------------- MODULE Emulator -------------------------------
(***************************************************************************)
(* The emulator's idea of an instruction (832emu/832e.cpp), in its default *)
(* little-endian mode.  An emulator e is [r, temp, zero, carry, cond,      *)
(* sizemod, sign_mod, immediate_continuation, mem].  The program and the   *)
(* RAM behind it are one array of bytes; the peripherals at the top of the *)
(* address space and the limit on the number of steps are left out.        *)
(***************************************************************************)
EXTENDS Integers

CONSTANTS WordBits, ByteBits

LOCAL INSTANCE Bitwise

Full     == 2 ^ WordBits
Signed(v) == IF v >= Full \div 2 THEN v - Full ELSE v
Sign(v)  == v >= Full \div 2

Count(size) == CASE size = "BYTE" -> 1 [] size = "HALFWORD" -> 2 [] size = "WORD" -> 4

\* For a halfword the bytes are or-ed into a variable that was never set: rest.
Read(mem, addr, size, rest) ==
    LET at(k) == (IF addr + k \in DOMAIN mem THEN mem[addr + k] ELSE 0) * 2 ^ (ByteBits * k)
    IN  CASE size = "BYTE"     -> at(0)
          [] size = "HALFWORD" -> (at(0) + at(1)) | rest
          [] size = "WORD"     -> at(0) + at(1) + at(2) + at(3)

Write(mem, addr, v, size) ==
    [b \in DOMAIN mem |->
        IF b \in addr .. addr + Count(size) - 1 THEN (v \div 2 ^ (ByteBits * (b - addr))) % 2 ^ ByteBits
        ELSE mem[b]]

Overload(i) == IF i.reg # 7 THEN "none"
               ELSE CASE i.op = "and" -> "hlf" [] i.op = "mul" -> "byt" [] i.op = "or" -> "sgn"
                      [] i.op = "xor" -> "ldt" [] OTHER -> "none"

RunLi(e, imm) ==
    IF e.immediate_continuation THEN [e EXCEPT !.temp = (@ * 64 + imm) % Full]
    ELSE [e EXCEPT !.temp = IF imm >= 32 THEN (imm - 64) % Full ELSE imm, !.immediate_continuation = TRUE]

\* None of these ends a chain of li.
RunOverload(e, o, rest) ==
    CASE o = "hlf" -> [e EXCEPT !.sizemod = "HALFWORD"]
      [] o = "byt" -> [e EXCEPT !.sizemod = "BYTE"]
      [] o = "sgn" -> [e EXCEPT !.sign_mod = TRUE]
      [] o = "ldt" -> [e EXCEPT !.temp = Read(e.mem, e.temp, e.sizemod, rest), !.sizemod = "WORD"]

Predicate(e, operand) ==
    LET bit == (IF e.zero THEN 1 ELSE 0) + (IF e.carry THEN 2 ELSE 0)
        t   == operand + (IF (operand \div 2) % 2 = 1 THEN 8 ELSE 0)
    IN  (t \div 2 ^ bit) % 2 = 1

\* Moves; a write to r7 ends the skipping.
RunMove(e, i) ==
    CASE i.op = "cond" -> [e EXCEPT !.cond = Predicate(e, i.reg)]
      [] i.op = "mt"   -> [e EXCEPT !.temp = e.r[i.reg]]
      [] i.op = "mr"   -> [e EXCEPT !.r[i.reg] = e.temp, !.cond = @ \/ i.reg = 7]
      [] i.op = "exg"  -> [e EXCEPT !.r[i.reg] = e.temp, !.temp = e.r[i.reg], !.cond = @ \/ i.reg = 7]

Loaded(e, v) == [e EXCEPT !.temp = v, !.zero = v = 0, !.carry = Sign(v), !.sizemod = "WORD"]

RunLoad(e, i, rest) ==
    LET at(a) == Read(e.mem, a, e.sizemod, rest)
        byte  == Read(e.mem, e.r[i.reg], "BYTE", 0)
    IN  CASE i.op = "ld"     -> Loaded(e, at(e.r[i.reg]))
          [] i.op = "ldinc"  -> Loaded([e EXCEPT !.r[i.reg] = (@ + 4) % Full], at(e.r[i.reg]))
          [] i.op = "ldbinc" -> [Loaded([e EXCEPT !.r[i.reg] = (@ + 1) % Full], byte) EXCEPT !.carry = FALSE]
          [] i.op = "ldidx"  -> Loaded(e, at((e.temp + e.r[i.reg]) % Full))

RunStore(e, i) ==
    LET down(v) == (v - 4) % Full
        h == CASE i.op = "st"     -> [e EXCEPT !.mem = Write(@, e.r[i.reg], e.temp, e.sizemod)]
               [] i.op = "stinc"  -> [e EXCEPT !.mem = Write(@, e.r[i.reg], e.temp, e.sizemod),
                                               !.r[i.reg] = (@ + 4) % Full]
               [] i.op = "stbinc" -> [e EXCEPT !.mem = Write(@, e.r[i.reg], e.temp, "BYTE"),
                                               !.r[i.reg] = (@ + 1) % Full]
               [] i.op = "stdec"  -> [e EXCEPT !.mem = Write(@, down(e.r[i.reg]), e.temp, e.sizemod),
                                               !.r[i.reg] = down(@)]
               [] i.op = "stmpdec" -> [e EXCEPT !.mem = Write(@, down(e.temp), e.r[i.reg], e.sizemod),
                                                !.temp = down(@)]
    IN  [h EXCEPT !.sizemod = "WORD"]

RunSum(e, i) ==
    LET sum == e.r[i.reg] + e.temp
        h   == [e EXCEPT !.carry = sum >= Full, !.zero = sum % Full = 0, !.cond = @ \/ i.reg = 7]
    IN  IF i.op = "addt" THEN [h EXCEPT !.temp = sum % Full]
        ELSE [h EXCEPT !.r[i.reg] = sum % Full, !.temp = IF i.reg = 7 THEN e.r[7] ELSE @]

RunDifference_Unsigned(e, i) ==
    LET value == (e.r[i.reg] - e.temp) % Full
        h     == [e EXCEPT !.carry = e.r[i.reg] < e.temp, !.zero = value = 0, !.sign_mod = FALSE]
    IN  IF i.op = "cmp" THEN h ELSE [h EXCEPT !.r[i.reg] = value, !.cond = @ \/ i.reg = 7]

\* A cmp is signed if sgn came before it, a sub if it did not.
RunDifference(e, i) ==
    LET mod   == (IF i.op = "cmp" THEN e.sign_mod ELSE ~e.sign_mod) /\ Sign(e.r[i.reg]) # Sign(e.temp)
        value == (e.r[i.reg] - e.temp) % Full
        h     == [e EXCEPT !.carry = (e.r[i.reg] < e.temp) # mod, !.zero = value = 0, !.sign_mod = FALSE]
    IN  IF i.op = "cmp" THEN h ELSE [h EXCEPT !.r[i.reg] = value, !.cond = @ \/ i.reg = 7]

RunLogical(e, i) ==
    LET v == CASE i.op = "and" -> e.r[i.reg] & e.temp
               [] i.op = "or"  -> e.r[i.reg] | e.temp
               [] i.op = "xor" -> e.r[i.reg] ^^ e.temp
    IN  [e EXCEPT !.r[i.reg] = v, !.zero = v = 0, !.carry = FALSE]

\* By fewer bits than a word has; ror leaves the zero flag alone.
RunShift(e, i) ==
    LET v  == e.r[i.reg]
        n  == e.temp
        last == n > 0 /\ (v \div 2 ^ (n - 1)) % 2 = 1
    IN  CASE i.op = "shl" ->
                LET w == (v % 2 ^ (WordBits - n)) * 2 ^ n
                IN  [e EXCEPT !.r[i.reg] = w, !.zero = w = 0, !.carry = FALSE]
          [] i.op = "shr" ->
                LET w == (IF e.sign_mod THEN Signed(v) \div 2 ^ n ELSE v \div 2 ^ n) % Full
                IN  [e EXCEPT !.r[i.reg] = w, !.zero = w = 0, !.carry = last, !.sign_mod = FALSE]
          [] i.op = "ror" ->
                [e EXCEPT !.r[i.reg] = v \div 2 ^ n + (v % 2 ^ n) * 2 ^ (WordBits - n), !.carry = last]

\* There is no case for mul.
RunInstruction(e, i, rest) ==
    CASE i.op \in {"cond", "mt", "mr", "exg"}             -> RunMove(e, i)
      [] i.op \in {"ld", "ldinc", "ldbinc", "ldidx"}      -> RunLoad(e, i, rest)
      [] i.op \in {"st", "stinc", "stbinc", "stdec", "stmpdec"} -> RunStore(e, i)
      [] i.op \in {"add", "addt"}                         -> RunSum(e, i)
      [] i.op \in {"sub", "cmp"}                          -> RunDifference(e, i)
      [] i.op \in {"and", "or", "xor"}                    -> RunLogical(e, i)
      [] i.op \in {"shl", "shr", "ror"}                   -> RunShift(e, i)
      [] OTHER                                            -> e

\* What is skipped can end the skipping.
RunSkipped(e, i) ==
    [e EXCEPT !.cond = IF i.op = "cond" THEN Predicate(e, i.reg)
                       ELSE i.reg = 7 /\ i.op \in {"mr", "exg", "add", "sub", "addt"}]

Run(e0, i, rest) ==
    LET e == [e0 EXCEPT !.r[7] = @ + 1]
        o == Overload(i)
    IN  IF ~e.cond THEN RunSkipped(e, i)
        ELSE IF i.op = "li" THEN RunLi(e, i.imm)
        ELSE IF o # "none" THEN RunOverload(e, o, rest)
        ELSE RunInstruction([e EXCEPT !.immediate_continuation = FALSE], i, rest)
=============================================================================
