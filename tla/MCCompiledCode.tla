--------------------------- MODULE MCCompiledCode ---------------------------
(***************************************************************************)
(* An instance of CompiledCode for TLC, and an evaluator of trees to       *)
(* compare the compiled code with.                                         *)
(***************************************************************************)
EXTENDS CompiledCode, Trees

-----------------------------------------------------------------------------
(* The value of a program with a single variable, defined first.           *)

RECURSIVE Value(_, _)
Value(n, x) ==
  LET node == ast[n]
      a == Value(node.left, x)
      b == Value(node.right, x)
  IN  CASE node.type = "NUMERIC_LITERAL" -> node.value
        [] node.type = "IDENTIFIER" -> x
        [] node.type = "COMPARISON_EXPRESSION" -> a - b
        [] node.operator = "ADDITION" -> Machine!Wrap(a + b)
        [] node.operator = "SUBTRACTION" -> Machine!Wrap(a - b)
        [] node.operator = "MULTIPLICATION" -> Machine!Wrap(a * b)
        [] node.operator = "DIVISION" -> Machine!Wrap(Quotient(a, b))

Holds(n, x) == Value(ast[n].left, x) < Value(ast[n].right, x)

\* What is left of x after statements from i on, or what they return.  A loop runs
\* its body while its condition holds (again: it has run it).  A loop to which the
\* code does otherwise ends the evaluation: one that is reached with its condition
\* false, whose body the code runs nevertheless, and one with another comparison
\* than <, whose body the code runs once.
RECURSIVE Outcome(_, _, _, _)
Outcome(body, i, x, again) ==
  LET s == ast[body[i]]
      once == Outcome(s.body, 1, x, FALSE)
      GoesOn(v) == Outcome(body, i + 1, v, FALSE)
  IN  IF i > Len(body) THEN [x |-> x, how |-> "through"]
      ELSE CASE s.type = "RETURN" ->
                  [x |-> Value(s.expression, x), how |-> "returned"]
             [] s.type = "LET" -> GoesOn(Value(s.expression, x))
             [] s.type = "IDENTIFIER" /\ s.op = "inc" -> GoesOn(Machine!Wrap(x + 1))
             [] s.type = "IDENTIFIER" /\ s.op = "dec" -> GoesOn(Machine!Wrap(x - 1))
             [] s.type = "WHILE" ->
                  IF ast[s.condition].operator # "LESS_THAN"
                     THEN [x |-> x, how |-> "otherwise"]
                  ELSE IF Holds(s.condition, x)
                     THEN IF once.how = "through" THEN Outcome(body, i, once.x, TRUE)
                          ELSE once
                  ELSE IF again THEN GoesOn(x)
                  ELSE [x |-> x, how |-> "otherwise"]
             [] OTHER -> GoesOn(x)

Meaning == Outcome(ast[1].body, 1, 0, FALSE)

\* One variable, defined by the first statement.
OneVariable ==
  /\ NodesOf({"LET"}) # {}
  /\ \A n \in NodesOf({"LET"}) : n = ast[1].body[1]

ReturnsLiteral ==
  \E n \in NodesOf({"RETURN"}) : ast[ast[n].expression].type = "NUMERIC_LITERAL"

\* The code of a program with one variable returns what the tree says, arithmetic,
\* comparisons, variables and loops included, but for three things the code does
\* otherwise: the two kinds of loop above, and a returned literal, which is pushed
\* and never reaches ret.
ReturnsValue ==
  mode = "returned" /\ OneVariable /\ ~ReturnsLiteral =>
    Meaning.how = "otherwise" \/ result = Meaning.x

\* The code of these trees, whose loops all count towards their bound, runs to
\* a RET or a division by zero: no jump goes to itself or past what changes its
\* condition.
Finishes == (mode = "running") ~> (mode \in {"returned", "divzero"})

\* A bare literal is returned too: "return 25" is PSH_LIT, POP_REG ret, RET
\* (tests_processing_unit.cpp:119-124), and RET returns the value in ret
\* (docs/instruction_set.md:71).
ReturnsItsLiteral ==
  mode = "returned" /\ OneVariable => Meaning.how = "otherwise" \/ result = Meaning.x
=============================================================================
