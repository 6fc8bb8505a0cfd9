----------------------------- MODULE MCCompiler -----------------------------
(***************************************************************************)
(* An instance of Compiler for TLC: every sequence of three pieces of a    *)
(* program, most of them a single token, and a few longer programs.        *)
(***************************************************************************)
EXTENDS Compiler

x == Identifier("x")
Open == Token("OPEN_PAREN")
Close == Token("CLOSE_PAREN")
Less == Operator("LESS_THAN")
Plus == Operator("ADDITION")
Times == Operator("MULTIPLICATION")
LetX == <<Token("LET"), x, Operator("ASSIGNMENT")>>
WhileLess == <<Token("WHILE"), Open, x, Less, Number(1), Close, Token("OPEN_BRACE")>>
FnF == <<Token("FUNCTION"), Identifier("f"), Open, Close, Token("OPEN_BRACE")>>
Closed == <<Token("CLOSE_BRACE")>>

Pieces == {
  <<x>>, <<Number(7)>>, <<Number(40000)>>, <<HugeNumber>>, <<Open>>, <<Close>>,
  <<Less>>, <<Plus>>, <<Times>>, <<Operator("INCREMENT")>>,
  <<Operator("ASSIGNMENT")>>, <<Token("RETURN")>>, <<Token("LET")>>,
  <<Token("WHILE")>>, <<Token("FUNCTION")>>, Closed, <<Token("ELSE")>>,
  <<x, Open, Close>>, LetX, WhileLess, FnF,
  <<Token("RETURN"), x>>, <<x, Plus, Number(1)>>, <<Open, x, Plus, Number(1), Close>> }

OneTwoThree == <<Number(1), Times, Number(2), Plus, Number(3), Times, x>>

Programs == {
  LetX \o <<Open, Number(5), Plus, x, Close>> \o <<Times, Open>> \o OneTwoThree
       \o <<Close>>,
  LetX \o OneTwoThree \o WhileLess \o <<x, Operator("DECREMENT")>> \o Closed
       \o <<Token("RETURN")>> \o OneTwoThree \o <<Less, Open, Open, x, Close, Close>>,
  FnF \o <<Token("RETURN"), Number(42)>> \o Closed
      \o <<Token("RETURN"), Identifier("f"), Open, Close>>,
  FnF \o <<Token("RETURN"), Number(42), Token("LET"), Number(1)>>,
  FnF \o <<x, Token("LET"), Number(1)>> \o Closed,
  FnF \o WhileLess \o <<Token("RETURN"), x>> \o Closed \o Closed,
  WhileLess \o WhileLess \o <<x, Operator("INCREMENT")>> \o Closed \o Closed,
  <<Token("WHILE"), Open, x, Close, Token("OPEN_BRACE")>> \o Closed }

MCInputs ==
  {Append(p \o q \o r, EndOfFile) : p \in Pieces, q \in Pieces \cup {<<>>}, r \in Pieces}
    \cup {Append(p, EndOfFile) : p \in Programs}

MCNames == {"x", "f", "main"}
=============================================================================
