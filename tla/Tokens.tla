------------------------------- MODULE Tokens -------------------------------
(***************************************************************************)
(* What the lexar hands to the parser (lexar.hpp, lexar_defines.hpp).      *)
(***************************************************************************)
EXTENDS Integers, Sequences

\* The digits of a NUMBER may be more than an int holds.
Token(type) == [type |-> type]
Number(v) == [type |-> "NUMBER", value |-> v, fits |-> TRUE]
HugeNumber == [type |-> "NUMBER", value |-> 0, fits |-> FALSE]
Identifier(x) == [type |-> "IDENTIFIER", name |-> x]
Operator(op) == [type |-> "OPERATOR", operator |-> op]
EndOfFile == Token("END_OF_FILE")

\* The tokens of a text whose identifiers are names.
PlainTypes ==
  {"LET", "RETURN", "WHILE", "IF", "ELSE", "FUNCTION", "OPEN_PAREN", "CLOSE_PAREN",
   "OPEN_BRACE", "CLOSE_BRACE", "OPEN_BRACKET", "CLOSE_BRACKET", "END_OF_FILE"}

TokenOf(names) ==
  [type : PlainTypes] \cup [type : {"NUMBER"}, value : Nat, fits : {TRUE}]
    \cup {HugeNumber} \cup [type : {"IDENTIFIER"}, name : names]
    \cup [type : {"OPERATOR"}, operator : STRING]

\* What a lexar that performed its analysis holds, and the parser relies on.
IsInput(s) ==
  /\ Len(s) >= 1
  /\ \A i \in 1 .. Len(s) : s[i].type = "END_OF_FILE" <=> i = Len(s)

\* readOperator
OperatorOf(t) == IF t.type = "OPERATOR" THEN t.operator ELSE "UNKNOWN"
=============================================================================
