---------------------------- MODULE Expressions ----------------------------
(***************************************************************************)
(* Arithmetic expressions of the assembler (832a/expressions.c,            *)
(* equates.c).  A text is a sequence of tokens <<kind, value>> of the      *)
(* kinds "num", "id", "op", "(" and ")".                                   *)
(***************************************************************************)
EXTENDS Integers, SequencesExt

CONSTANT Undefined       \* the value of an expression that the assembler rejects

\* The operators in the order of their enumeration: the earlier, the tighter.
Operators == <<"*", "/", "%", "<<", ">>", "+", "-", "&", "|", "^", "~">>

Rank(op) ==
    CASE op = "("   -> 0
      [] op = "end" -> Len(Operators) + 1
      [] OTHER      -> SelectInSeq(Operators, LAMBDA o : o = op)

IsOperator(token) == token[1] \in {"op", "("}

\* Up to the next operator, that operator, and what follows it.
FindOperator(text) ==
    LET at == SelectInSeq(text, IsOperator)
    IN  IF at = 0 THEN [value |-> text, op |-> "end", rest |-> <<>>]
        ELSE [value |-> SubSeq(text, 1, at - 1), op |-> text[at][2],
              rest  |-> SubSeq(text, at + 1, Len(text))]

\* The index of the parenthesis that closes the one the text begins with.
Closing(text) ==
    LET open(n) == Len(SelectSeq(SubSeq(text, 1, n), LAMBDA t : t[1] = "("))
        shut(n) == Len(SelectSeq(SubSeq(text, 1, n), LAMBDA t : t[1] = ")"))
    IN  CHOOSE n \in DOMAIN text : open(n) = shut(n) /\ \A k \in 1 .. n - 1 : open(k) > shut(k)

Leaf(value) == [op |-> "value", value |-> value]
Node(op, left, right) == [op |-> op, left |-> left, right |-> right]

(***************************************************************************)
(* The parser.  A state is [tree, op, rest]: the tree read so far, the     *)
(* operator that follows it, and the text behind that operator.            *)
(***************************************************************************)
RECURSIVE BuildTree(_), BuildUp(_), MakeLeaf(_), MakeRightLeaf(_), TighterLeaves(_, _)

MakeLeaf(text) ==
    IF text # <<>> /\ text[1][1] = "("
    THEN LET n == Closing(text)
             f == FindOperator(SubSeq(text, n + 1, Len(text)))
         IN  [tree |-> BuildTree(SubSeq(text, 2, n - 1)), op |-> f.op, rest |-> f.rest]
    ELSE LET f == FindOperator(text)
             g == FindOperator(f.rest)
         IN  IF f.value # <<>> THEN [tree |-> Leaf(f.value), op |-> f.op, rest |-> f.rest]
             ELSE [tree |-> Node(f.op, Leaf(<<<<"num", 0>>>>), Leaf(g.value)),
                   op |-> g.op, rest |-> g.rest]

\* Operators that bind tighter than op take the leaf as their left branch.
TighterLeaves(state, op) ==
    IF Rank(state.op) < Rank(op) THEN TighterLeaves(MakeRightLeaf(state), op) ELSE state

MakeRightLeaf(state) ==
    LET right == TighterLeaves(MakeLeaf(state.rest), state.op)
    IN  [right EXCEPT !.tree = Node(state.op, state.tree, right.tree)]

BuildUp(state) == IF state.op = "end" THEN state.tree ELSE BuildUp(MakeRightLeaf(state))

BuildTree(text) == BuildUp(MakeLeaf(text))

(***************************************************************************)
(* Evaluation                                                              *)
(***************************************************************************)

\* C's division truncates.
Quotient(a, b) ==
    LET abs(n) == IF n < 0 THEN 0 - n ELSE n
        q      == abs(a) \div abs(b)
    IN  IF (a < 0) = (b < 0) THEN q ELSE 0 - q

\* Bit by bit, for values of up to sixteen bits.
Bitwise2(Op(_, _), a, b) ==
    LET bit(v, k)  == (v \div 2 ^ k) % 2
        sum[k \in 0 .. 16] ==
            IF k = 0 THEN 0
            ELSE sum[k - 1] + 2 ^ (k - 1) * Op(bit(a, k - 1), bit(b, k - 1))
    IN  sum[16]

Apply(op, a, b) ==
    CASE op = "*"  -> a * b
      [] op = "/"  -> IF b = 0 THEN Undefined ELSE Quotient(a, b)
      [] op = "%"  -> IF b = 0 THEN Undefined ELSE a - b * Quotient(a, b)
      [] op = "<<" -> a * 2 ^ b
      [] op = ">>" -> a \div 2 ^ b
      [] op = "+"  -> a + b
      [] op = "-"  -> a - b
      [] op = "&"  -> Bitwise2(LAMBDA x, y : x * y, a, b)
      [] op = "|"  -> Bitwise2(LAMBDA x, y : x + y - x * y, a, b)
      [] op = "^"  -> Bitwise2(LAMBDA x, y : (x + y) % 2, a, b)
      [] op = "~"  -> -1 - b
      [] op = "("  -> 0

\* The first equate of a name is the one that counts.
FindEquate(equates, id) == SelectInSeq(equates, LAMBDA e : e.id = id)

ValueOf(text, equates) ==
    CASE text = <<>>          -> 0
      [] text # <<>> /\ text[1][1] = "num" -> text[1][2]
      [] OTHER -> LET e == FindEquate(equates, text[1][2])
                  IN  IF e = 0 THEN Undefined ELSE equates[e].value

RECURSIVE Evaluate(_, _)
Evaluate(tree, equates) ==
    IF tree.op = "value" THEN ValueOf(tree.value, equates)
    ELSE LET left  == Evaluate(tree.left, equates)
             right == Evaluate(tree.right, equates)
         IN  IF Undefined \in {left, right} THEN Undefined ELSE Apply(tree.op, left, right)

EvaluateString(text, equates) == Evaluate(BuildTree(text), equates)
=============================================================================
