------------------------------- MODULE Trees -------------------------------
(***************************************************************************)
(* Small syntax trees for TLC.  Terms <<node, children>>, with <<>> for    *)
(* nullptr, are laid out as the heaps of nodes CodeGenerator walks.        *)
(***************************************************************************)
EXTENDS Integers, Sequences, TLC

RECURSIVE Size(_)
Size(t) ==
  LET From[i \in 1 .. Len(t[2]) + 1] ==
        IF i > Len(t[2]) THEN 0 ELSE Size(t[2][i]) + From[i + 1]
  IN  IF t = <<>> THEN 0 ELSE 1 + From[1]

Linked(node, refs) ==
  CASE node.type \in {"BINARY_EXPRESSION", "COMPARISON_EXPRESSION"} ->
         node @@ [left |-> refs[1], right |-> refs[2]]
    [] node.type \in {"LET", "RETURN"} -> node @@ [expression |-> refs[1]]
    [] node.type = "WHILE" -> node @@ [condition |-> refs[1], body |-> Tail(refs)]
    [] node.type \in {"PROGRAM", "FUNCTION"} -> node @@ [body |-> refs]
    [] OTHER -> node

\* The nodes of t, its root at index n.
RECURSIVE Layout(_, _)
Layout(t, n) ==
  LET kids == t[2]
      First[i \in 1 .. Len(kids) + 1] ==
        IF i = 1 THEN n + 1 ELSE First[i - 1] + Size(kids[i - 1])
      RefTo[i \in 1 .. Len(kids)] == IF kids[i] = <<>> THEN 0 ELSE First[i]
      Rest[i \in 1 .. Len(kids) + 1] ==
        IF i > Len(kids) THEN <<>> ELSE Layout(kids[i], First[i]) \o Rest[i + 1]
  IN  IF t = <<>> THEN <<>>
      ELSE <<Linked(t[1], [i \in 1 .. Len(kids) |-> RefTo[i]])>> \o Rest[1]

Lit(v) == <<[type |-> "NUMERIC_LITERAL", value |-> v], <<>>>>
Id(x, op) == <<[type |-> "IDENTIFIER", name |-> x, op |-> op], <<>>>>
Bin(op, a, b) == <<[type |-> "BINARY_EXPRESSION", operator |-> op], <<a, b>>>>
Cmp(op, a, b) == <<[type |-> "COMPARISON_EXPRESSION", operator |-> op], <<a, b>>>>
Let(x, e) == <<[type |-> "LET", name |-> x], <<e>>>>
Return(e) == <<[type |-> "RETURN"], <<e>>>>
While(c, body) == <<[type |-> "WHILE"], <<c>> \o body>>
Call(f) == <<[type |-> "CALL_EXPRESSION", name |-> f], <<>>>>
Fn(f, body) == <<[type |-> "FUNCTION", name |-> f], body>>
IncDec == <<[type |-> "INC_DEC_EXPRESSION", op |-> "inc"], <<>>>>
Program(body) == Layout(<<[type |-> "PROGRAM"], body>>, 1)

X == Id("x", "none")
Y == Id("y", "none")
Null == <<>>
XLess(e) == Cmp("LESS_THAN", X, e)

Definitions == {
  Let("x", Lit(2)), Let("x", Lit(-300)), Let("y", Lit(5)),
  Let("y", Bin("SUBTRACTION", X, Lit(9))), Let("x", Bin("ADDITION", X, Y)),
  Let("y", Cmp("EQUAL", X, Lit(2))), Let("x", Null) }

Others == {
  X, Id("x", "inc"), Id("y", "dec"), IncDec, Cmp("EQUAL", X, Y),
  Bin("ADDITION", Id("x", "inc"), Lit(1)), Call("main"), Call("f"),
  Fn("f", <<Return(X)>>),
  While(XLess(Lit(4)), <<Id("x", "inc")>>),
  While(XLess(Lit(4)), <<Id("x", "inc"), While(XLess(Lit(5)), <<Id("x", "inc")>>)>>),
  While(XLess(Y), <<Id("x", "inc"), Return(Y)>>),
  While(Cmp("NOT_EQUAL", X, Lit(2)), <<Id("x", "dec")>>),
  While(XLess(Lit(3)), <<Let("y", X)>>),
  While(X, <<Id("x", "inc")>>), While(Null, <<>>) }

Finals == {
  Return(X), Return(Lit(7)), Return(XLess(Y)),
  Return(Bin("DIVISION", Bin("SUBTRACTION", X, Lit(9)), Lit(2))),
  Return(Bin("MULTIPLICATION", Lit(300), Bin("ADDITION", X, X))),
  Return(Bin("DIVISION", Lit(1), Bin("SUBTRACTION", X, Lit(2)))),
  Return(Cmp("GREATER_THAN", Lit(1), X)), Call("f") }

Statements == Definitions \cup Others \cup Finals

\* Every program of two statements and a last one.
ThreeStatements ==
  {Program(<<a, b, c>>) : a \in Statements, b \in Statements, c \in Finals}

\* The longer programs whose code is run.
FourStatements ==
  {Program(<<Let("x", Lit(v)), a, b, c>>) :
     v \in {2, -12}, a \in Definitions \cup Others, b \in Definitions \cup Others,
     c \in Finals}

TreeNames == {"x", "y", "f", "main"}
=============================================================================
