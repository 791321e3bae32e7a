------------------------------ MODULE InlineCopy ------------------------------
(***************************************************************************)
(* Structures and arrays copied in line (vbcc/machines/832/inlinememcpy.c):*)
(* from memory to memory, and from memory to the stack as an argument.     *)
(* Fewer than four bytes are left over when the words are copied, so the   *)
(* bytes are never copied in a loop.                                       *)
(***************************************************************************)
EXTENDS TempRegs

CONSTANT UnrollBelow   \* fewer bytes than this are copied without a loop when optimising for speed

LOCAL INSTANCE SequencesExt

Times(n, line, g) == FoldLeft(LAMBDA h, k : Emit(h, line), g, [k \in 1 .. n |-> k])

Push(g, r) == [Emit(Emit(g, Line("mt", r)), Line("stdec", SP)) EXCEPT !.pushed = @ + 4]
Pop(g, r)  == [Emit(Emit(g, Line("ldinc", SP)), Line("mr", r)) EXCEPT !.pushed = @ - 4]

CopyLabel(g) == <<"cpy0", "cpy1", "cpy2", "cpy3">>[g.loopid + 1]

CopyWord(src, dst) == Line("ldinc", src) \o Line("stinc", dst)
CopyByte(src, dst) == Line("ldbinc", src) \o Line("stbinc", dst)

\* cntr holds the address at which the loop ends.
CopyLoop(g, bytes, src, dst, cntr) ==
    Emit(emit_constanttotemp(g, bytes),
         Line("addt", dst) \o Line("mr", cntr)
         \o Sym("label", CopyLabel(g), 0) \o CopyWord(src, dst)
         \o Line("mt", dst) \o Line("cmp", cntr) \o Sym("cond", "NEQ", 0)
         \o Sym(".lipcrel", CopyLabel(g), 0) \o Line("add", PC))

\* The words, then the bytes that are left.
CopyData(g, size, unroll, src, dst, cntr) ==
    Times(size % 4, CopyByte(src, dst),
          IF unroll THEN Times(size \div 4, CopyWord(src, dst), g)
          ELSE CopyLoop(g, size - (size % 4), src, dst, cntr))

Forget(g) == cleartempobj(cleartempobj(g, T1), TMP)

\* Around the copy a register in use is kept on the stack.
PushIf(g, b, r) == IF b THEN Push(g, r) ELSE g
PopIf(g, b, r)  == IF b THEN Pop(g, r) ELSE g
Copied(g)       == [Forget(g) EXCEPT !.loopid = @ + 1]
Moved(g, o, r)  == IF Has(o, "REG") /\ o.reg # r THEN Emit(g, Line("mt", o.reg) \o Line("mr", r)) ELSE g

emit_inlinememcpy(g, p) ==
    LET dstr   == T1 + 1
        cntr   == T1 + 2
        words  == p.opsize - (p.opsize % 4)
        unroll == words < UnrollBelow /\ ~g.size
        saved  == dstr \in g.regs
        savec  == ~unroll /\ cntr \in g.regs
        start  == PushIf(PushIf(Forget(g), saved, dstr), savec, cntr)
        source == emit_objtoreg(start, p.q1, IF NQ(p.typ) = "char" THEN "array" ELSE p.typ, T1).g
        ready  == Moved(emit_prepobj(source, p.z, dstr, 0), p.z, dstr)
    IN  Copied(PopIf(PopIf(CopyData(ready, p.opsize, unroll \/ words = 0, T1, dstr, cntr), savec, cntr), saved, dstr))

emit_inlinepush(g, p) ==
    LET fromreg == Has(p.q1, "REG")
        srcr    == IF fromreg THEN p.q1.reg ELSE T1
        cntr    == IF fromreg THEN T1 ELSE T1 + 2
        words   == p.opsize - (p.opsize % 4)
        unroll  == (words < UnrollBelow /\ ~g.size) \/ words < 16
        savec   == ~unroll /\ cntr \in g.regs
        source  == emit_prepobj(PushIf(Forget(g), savec, cntr), p.q1, srcr, 0)
        room    == Emit(source, LiConst(p.pushsize) \o Line("sub", SP))
        copied  == CopyData(room, p.opsize, unroll, srcr, SP, cntr)
    IN  Copied(PopIf(Emit(copied, LiConst(p.opsize) \o Line("sub", SP)), savec, cntr))
=============================================================================
