------------------------------ MODULE MCPipeline ------------------------------
(* Small sets of instructions for Pipeline, and which of them may follow   *)
(* which in the programs considered.                                       *)
EXTENDS PipelinePrograms

I(o, r) == [op |-> o, reg |-> r]

li   == I("li", 0)
mt   == I("mt", 0)
mr   == I("mr", 0)
cmp  == I("cmp", 0)
cond == I("cond", 2)
nex  == I("cond", NEX)
addl == I("add", PC)
byt  == I("mul", PC)
sgn  == I("or", PC)
sig  == I("cmp", PC)
ldt  == I("xor", PC)

\* One instruction of every kind that the stages treat differently.
MCAll == {li, mt, mr, I("exg", 0), I("ld", 0), I("ldinc", 0), I("stinc", 0),
          I("stmpdec", 0), cmp, I("addt", 0), I("shl", 0), I("mul", 0), cond, nex,
          addl, I("ldinc", PC), byt, sig, ldt}

\* Two threads, with fewer instructions.
MCDual == {li, mt, mr, I("ldinc", 0), cond, nex, sig, addl}

\* Fewer still, for the liveness properties.
MCLive == {mr, I("ldinc", 0), I("mul", 0), addl}

\* Programs for the interrupt.
MCIrq == {li, mt, mr, I("ldinc", 0), I("stmpdec", 0), cmp, cond, nex, addl}

Pairs(is) == is \X is

\* What is true of programs that keep clear of the findings: the first
\* instruction behind a cond that may fail is no jump and no other cond; nothing but
\* a load or store follows byt, and no li follows cond NEX.
Regular(is) == {p \in Pairs(is) :
    /\ Conditional(p[1]) => ~WritesPc(p[2]) /\ p[2].op # "cond"
    /\ p[1] = byt => ExOp(p[2]) \cap {"load", "store"} # {}
    /\ p[1] = nex => p[2].op # "li"}

MCAllPairs  == Regular(MCAll)
MCDualPairs == Regular(MCDual)
MCLivePairs == Pairs(MCLive)

\* No interrupt comes while a condition or the flags are still on their way: what
\* follows cmp or cond keeps it off.
MCIrqPairs == {p \in Regular(MCIrq) :
    /\ p[1] \in {cmp, cond} => KeepsOffInterrupt(p[2])
    /\ p[1] = cmp => p[2] # li}

-----------------------------------------------------------------------------
(* The programs of the findings.                                           *)

MCTwoConds == {li, mr, cmp, cond}
MCTwoCondsPairs == Pairs(MCTwoConds)

MCStaleSgn == {sgn, cmp, I("shr", 0)}
MCStaleSgnPairs == Pairs(MCStaleSgn)

MCIrqFlags == {li, mt, mr, cmp, cond, addl}
MCIrqFlagsPairs == Regular(MCIrqFlags)
=============================================================================
