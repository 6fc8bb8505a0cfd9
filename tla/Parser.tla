------------------------------- MODULE Parser -------------------------------
(***************************************************************************)
(* The parser (parser.cpp): a recursive descent over the tokens of a       *)
(* Lexar, which it peeks at and pops, that allocates the nodes of a syntax *)
(* tree (ast.hpp).                                                         *)
(*                                                                         *)
(* The nodes are a heap that CodeGenerator walks, and the descent is an    *)
(* explicit stack of activations, as there: one action per parse function, *)
(* one per remainder of a function that waits for another.  A function     *)
(* hands back a node (0 for nullptr) in value, or an error.                *)
(***************************************************************************)
EXTENDS CiphIsa, Tokens, FiniteSets

CONSTANT Inputs   \* the token sequences a lexar may produce

VARIABLES
  tokens,   \* m_lexar's m_tokens
  next,     \* its cursor, m_position
  nodes,    \* the nodes allocated so far, the program first
  calls,    \* the call stack, the innermost activation first
  value,    \* the node the last function returned
  error,    \* the code of the ParserError it returned instead
  status,   \* idle, parsing, parsed, failed, or how the process ended
  grouped,  \* history: the nodes that were read in parentheses
  dropped   \* history: whether an error was dropped

parserVars == <<tokens, next, nodes, calls, value, error, status, grouped, dropped>>

-----------------------------------------------------------------------------
ASSUME InputsAssumption == \A s \in Inputs : IsInput(s)

\* In a longer one, peek and pop would see different tokens.
ASSUME ShortAssumption == \A s \in Inputs : Len(s) < 65536

\* The token n behind the next one, as peek returns it, which counts in 16 bits,
\* and as pop does.
Peek(n) == tokens[U16(next - 1 + n) + 1]
Popped(n) == tokens[next + n]

Pop(n) == next' = next + n

-----------------------------------------------------------------------------
(* Activations: a function, the node it is given or has made, a name or an *)
(* operator it has read.                                                   *)

Activation(function, node, word) ==
  [function |-> function, node |-> node, word |-> word]
Call(function) == Activation(function, 0, "")

Top == Head(calls)

\* The innermost activation is one of function, and nothing has failed.
In(function) ==
  /\ status = "parsing"
  /\ calls # <<>>
  /\ Top.function = function
  /\ error = "NO_ERR"

\* The functions that begin by reading a token.
Reads(function) == In(function) /\ next <= Len(tokens)

Calls(activations) == calls' = activations \o Tail(calls)
Returns(n) == Calls(<<>>) /\ value' = n /\ UNCHANGED error
Fails(code) == Calls(<<>>) /\ value' = 0 /\ error' = code

\* The last of the nodes news is returned.
Makes(news) ==
  /\ nodes' = nodes \o news
  /\ Returns(Len(nodes) + Len(news))

Context == UNCHANGED <<tokens, status, grouped, dropped>>
Result == <<value, error>>

-----------------------------------------------------------------------------
(* Scopes.                                                                 *)

parseProgram ==
  /\ Reads("parseProgram")
  /\ IF Peek(0).type = "END_OF_FILE"
     THEN Returns(Top.node)
     ELSE Calls(<<Call("parseStatement"), Activation("addStatement", Top.node, ""),
                  Top>>) /\ UNCHANGED Result
  /\ UNCHANGED <<next, nodes>>
  /\ Context

parseScopeNode ==
  /\ Reads("parseScopeNode")
  /\ Pop(1)
  /\ IF Popped(0).type = "OPEN_BRACE"
     THEN Calls(<<Activation("scopeLoop", Top.node, "")>>) /\ UNCHANGED Result
     ELSE Fails("SYNTAX_ERROR_BRACE_MISSMATCH")
  /\ UNCHANGED nodes
  /\ Context

\* At the end of the input an error is built, and not returned.
scopeLoop ==
  /\ Reads("scopeLoop")
  /\ IF Peek(0).type = "CLOSE_BRACE"
     THEN Pop(1) /\ Returns(Top.node)
     ELSE /\ Calls(<<Call("parseStatement"),
                     Activation("addStatement", Top.node, ""), Top>>)
          /\ UNCHANGED <<next, Result>>
  /\ UNCHANGED nodes
  /\ Context

\* How many statements a scope holds before memory is out.  The bound is only
\* ever reached by adding statements that read no token.
MaxStatements == Len(tokens)

addStatement ==
  /\ In("addStatement")
  /\ Len(nodes[Top.node].body) < MaxStatements
  /\ nodes' = [nodes EXCEPT ![Top.node].body = Append(@, value)]
  /\ Calls(<<>>)
  /\ UNCHANGED <<next, Result>>
  /\ Context

\* The vector of statements throws bad_alloc.
OutOfMemory ==
  /\ In("addStatement")
  /\ Len(nodes[Top.node].body) = MaxStatements
  /\ status' = "exhausted"
  /\ UNCHANGED <<tokens, next, nodes, calls, Result, grouped, dropped>>

-----------------------------------------------------------------------------
(* Statements.                                                             *)

parseStatement ==
  /\ Reads("parseStatement")
  /\ Calls(<<Call(CASE Peek(0).type = "RETURN" -> "parseReturnStatement"
                    [] Peek(0).type = "LET" -> "parseLetStatement"
                    [] Peek(0).type = "WHILE" -> "parseWhileStatement"
                    [] Peek(0).type = "FUNCTION" -> "parseFunctionStatement"
                    [] OTHER -> "parseComparisonExpression")>>)
  /\ UNCHANGED <<next, nodes, Result>>
  /\ Context

\* mutant: the keyword is not popped
parseReturnStatementUnread ==
  /\ Reads("parseReturnStatement")
  /\ Calls(<<Call("parseComparisonExpression"), Call("makeReturn")>>)
  /\ UNCHANGED <<next, nodes, Result>>
  /\ Context

\* At the end of the input 0 is returned.
parseReturnStatement ==
  /\ Reads("parseReturnStatement")
  /\ Pop(1)
  /\ IF Peek(1).type = "END_OF_FILE"
     THEN Makes(<<[type |-> "NUMERIC_LITERAL", value |-> 0],
                  [type |-> "RETURN", expression |-> Len(nodes) + 1]>>)
     ELSE /\ Calls(<<Call("parseComparisonExpression"), Call("makeReturn")>>)
          /\ UNCHANGED <<nodes, Result>>
  /\ Context

makeReturn ==
  /\ In("makeReturn")
  /\ Makes(<<[type |-> "RETURN", expression |-> value]>>)
  /\ UNCHANGED next
  /\ Context

parseLetStatement ==
  /\ Reads("parseLetStatement")
  /\ IF Popped(1).type # "IDENTIFIER"
     THEN Pop(2) /\ Fails("SYNTAX_ERROR_EXPECTED_IDENTIFIER")
     ELSE /\ Pop(3)
          /\ IF OperatorOf(Popped(2)) # "ASSIGNMENT"
             THEN Fails("SYNTAX_ERROR_EXPECTED_OPERATOR")
             ELSE /\ Calls(<<Call("parseComparisonExpression"),
                             Activation("makeLet", 0, Popped(1).name)>>)
                  /\ UNCHANGED Result
  /\ UNCHANGED nodes
  /\ Context

makeLet ==
  /\ In("makeLet")
  /\ Makes(<<[type |-> "LET", name |-> Top.word, expression |-> value]>>)
  /\ UNCHANGED next
  /\ Context

\* parseWhileStatement up to the expression of parseWhileCondition.
parseWhileStatement ==
  /\ Reads("parseWhileStatement")
  /\ Pop(2)
  /\ IF Popped(1).type = "OPEN_PAREN"
     THEN /\ Calls(<<Call("parseComparisonExpression"), Call("closeCondition")>>)
          /\ UNCHANGED Result
     ELSE Fails("SYNTAX_ERROR_PARENTHESIS_MISSMATCH")
  /\ UNCHANGED nodes
  /\ Context

\* Whatever expression the condition is, the loop keeps it.
closeCondition ==
  /\ Reads("closeCondition")
  /\ Pop(1)
  /\ IF Popped(0).type = "CLOSE_PAREN"
     THEN /\ nodes' = Append(nodes, [type |-> "WHILE", condition |-> value,
                                     body |-> <<>>])
          /\ Calls(<<Activation("parseScopeNode", Len(nodes) + 1, "")>>)
          /\ UNCHANGED Result
     ELSE Fails("SYNTAX_ERROR_PARENTHESIS_MISSMATCH") /\ UNCHANGED nodes
  /\ Context

\* Neither parenthesis is checked.
parseFunctionStatement ==
  /\ Reads("parseFunctionStatement")
  /\ \/ /\ Popped(1).type # "IDENTIFIER"
        /\ Pop(2)
        /\ Fails("SYNTAX_ERROR_EXPECTED_IDENTIFIER")
        /\ UNCHANGED <<nodes, dropped>>
     \/ /\ Popped(1).type = "IDENTIFIER"
        /\ next + 3 <= Len(tokens)
        /\ Pop(4)
        /\ dropped' = (dropped \/ Popped(2).type # "OPEN_PAREN"
                               \/ Popped(3).type # "CLOSE_PAREN")
        /\ nodes' = Append(nodes, [type |-> "FUNCTION", name |-> Popped(1).name,
                                   body |-> <<>>])
        /\ Calls(<<Activation("parseScopeNode", Len(nodes) + 1, ""),
                   Activation("endFunction", Len(nodes) + 1, "")>>)
        /\ UNCHANGED Result
  /\ UNCHANGED <<tokens, status, grouped>>

\* statements.back(), 0 if there is none.
LastOf(n) ==
  LET body == nodes[n].body IN IF body = <<>> THEN 0 ELSE body[Len(body)]

\* An error of the body is dropped: the last statement parsed decides.
endFunction ==
  /\ status = "parsing"
  /\ calls # <<>>
  /\ Top.function = "endFunction"
  /\ LastOf(Top.node) # 0
  /\ Calls(<<>>)
  /\ IF nodes[LastOf(Top.node)].type = "RETURN"
     THEN value' = Top.node /\ error' = "NO_ERR"
     ELSE value' = 0 /\ error' = "SYNTAX_ERROR_EXPECTED_RETURN_STATEMENT"
  /\ dropped' = (dropped \/ error # "NO_ERR")
  /\ UNCHANGED <<tokens, next, nodes, status, grouped>>

-----------------------------------------------------------------------------
(* Expressions.  The three levels of binary operators have the same shape: *)
(* an operand of the level below, and at most one operator with another.   *)

\* mutant: the levels of * and + swapped
BelowSwapped == [
  parseComparisonExpression     |-> "parseMultiplicativeExpression",
  parseMultiplicativeExpression |-> "parseAddativeExpression",
  parseAddativeExpression       |-> "parsePrimaryExpression"]

Below == [
  parseComparisonExpression     |-> "parseAddativeExpression",
  parseAddativeExpression       |-> "parseMultiplicativeExpression",
  parseMultiplicativeExpression |-> "parsePrimaryExpression"]

OperatorsOf == [
  parseComparisonExpression     |-> {"EQUAL", "NOT_EQUAL", "LESS_THAN", "GREATER_THAN"},
  parseAddativeExpression       |-> {"ADDITION", "SUBTRACTION"},
  parseMultiplicativeExpression |-> {"MULTIPLICATION", "DIVISION"}]

Operand(level) ==
  /\ In(level)
  /\ Calls(<<Call(Below[level]), Activation("operator", 0, level)>>)
  /\ UNCHANGED <<next, nodes, Result>>
  /\ Context

parseComparisonExpression == Operand("parseComparisonExpression")
parseAddativeExpression == Operand("parseAddativeExpression")
parseMultiplicativeExpression == Operand("parseMultiplicativeExpression")

\* The left operand is back.
operator ==
  /\ Reads("operator")
  /\ LET op == OperatorOf(Peek(0))
     IN  IF op \in OperatorsOf[Top.word]
         THEN /\ Pop(1)
              /\ Calls(<<Call(Below[Top.word]), Activation("makeBinary", value, op)>>)
              /\ UNCHANGED Result
         ELSE Returns(value) /\ UNCHANGED next
  /\ UNCHANGED nodes
  /\ Context

\* mutant: the operands of the new node swapped
makeBinarySwapped ==
  /\ In("makeBinary")
  /\ Makes(<<[type |-> IF Top.word \in OperatorsOf["parseComparisonExpression"]
                       THEN "COMPARISON_EXPRESSION" ELSE "BINARY_EXPRESSION",
              operator |-> Top.word, left |-> value, right |-> Top.node]>>)
  /\ UNCHANGED next
  /\ Context

\* Both operands are.
makeBinary ==
  /\ In("makeBinary")
  /\ Makes(<<[type |-> IF Top.word \in OperatorsOf["parseComparisonExpression"]
                       THEN "COMPARISON_EXPRESSION" ELSE "BINARY_EXPRESSION",
              operator |-> Top.word, left |-> Top.node, right |-> value]>>)
  /\ UNCHANGED next
  /\ Context

IncDecOf == [INCREMENT |-> "inc", DECREMENT |-> "dec"]

\* mutant: a literal is not cast to int16_t
LiteralWide(v) == [type |-> "NUMERIC_LITERAL", value |-> v]

LiteralNode(v) == [type |-> "NUMERIC_LITERAL", value |-> I16(U16(v))]

\* What begins no operand is nullptr, and stays where it is.
parsePrimaryExpression ==
  LET t == Peek(0)
  IN  /\ Reads("parsePrimaryExpression")
      /\ \/ t.type = "NUMBER" /\ t.fits /\ Pop(1)
            /\ Makes(<<LiteralNode(t.value)>>)
         \/ t.type = "IDENTIFIER" /\ Calls(<<Call("parseIdentifier")>>)
            /\ UNCHANGED <<next, nodes, Result>>
         \/ t.type = "OPEN_PAREN" /\ Pop(1)
            /\ Calls(<<Call("parseAddativeExpression"), Call("closeParen")>>)
            /\ UNCHANGED <<nodes, Result>>
         \/ OperatorOf(t) \in DOMAIN IncDecOf /\ Pop(1)
            /\ Makes(<<[type |-> "INC_DEC_EXPRESSION", op |-> IncDecOf[OperatorOf(t)]]>>)
         \/ t.type \notin {"NUMBER", "IDENTIFIER", "OPEN_PAREN"}
            /\ OperatorOf(t) \notin DOMAIN IncDecOf
            /\ Returns(0) /\ UNCHANGED <<next, nodes>>
      /\ Context

\* stoi throws, and nothing catches.
outOfRange ==
  /\ Reads("parsePrimaryExpression")
  /\ Peek(0) = HugeNumber
  /\ status' = "terminated"
  /\ UNCHANGED <<tokens, next, nodes, calls, Result, grouped, dropped>>

closeParen ==
  /\ Reads("closeParen")
  /\ Pop(1)
  /\ IF Popped(0).type = "CLOSE_PAREN"
     THEN Returns(value) /\ grouped' = Append(grouped, value)
     ELSE Fails("SYNTAX_ERROR_PARENTHESIS_MISSMATCH") /\ UNCHANGED grouped
  /\ UNCHANGED <<tokens, nodes, status, dropped>>

\* Called at an identifier only.
parseIdentifier ==
  LET IdentifierNode(op) ==
        [type |-> "IDENTIFIER", name |-> Popped(0).name, op |-> op]
  IN  /\ Reads("parseIdentifier")
      /\ IF Peek(1).type = "OPEN_PAREN"
         THEN /\ Pop(3)
              /\ IF Popped(2).type = "CLOSE_PAREN"
                 THEN Makes(<<[type |-> "CALL_EXPRESSION", name |-> Popped(0).name]>>)
                 ELSE Fails("SYNTAX_ERROR_PARENTHESIS_MISSMATCH") /\ UNCHANGED nodes
         ELSE IF OperatorOf(Peek(1)) \in DOMAIN IncDecOf
         THEN Pop(2) /\ Makes(<<IdentifierNode(IncDecOf[OperatorOf(Peek(1))])>>)
         ELSE Pop(1) /\ Makes(<<IdentifierNode("none")>>)
      /\ Context

-----------------------------------------------------------------------------
(* Errors.                                                                 *)

\* Whoever waits for a function that failed fails too; a while condition wraps
\* the error.
propagate ==
  /\ status = "parsing"
  /\ calls # <<>>
  /\ error # "NO_ERR"
  /\ Top.function # "endFunction"
  /\ Fails(IF Top.function = "closeCondition"
           THEN "SYNTAX_ERROR_EXPECTED_EXPRESSION" ELSE error)
  /\ UNCHANGED <<next, nodes>>
  /\ Context

ReadingFunctions == {
  "parseProgram", "parseScopeNode", "scopeLoop", "parseStatement", "operator",
  "parsePrimaryExpression", "closeCondition", "closeParen" }

\* A token is read behind the last one, or the last statement of a function is
\* asked for its type and there is none, or it is null.
PastTheEnd ==
  /\ status = "parsing"
  /\ calls # <<>>
  /\ \/ error = "NO_ERR" /\ Top.function \in ReadingFunctions /\ next > Len(tokens)
     \/ /\ In("parseFunctionStatement")
        /\ Popped(1).type = "IDENTIFIER"
        /\ next + 3 > Len(tokens)
     \/ Top.function = "endFunction" /\ LastOf(Top.node) = 0
  /\ status' = "undefined"
  /\ UNCHANGED <<tokens, next, nodes, calls, Result, grouped, dropped>>

-----------------------------------------------------------------------------
Init ==
  /\ tokens \in Inputs
  /\ next = 1
  /\ nodes = <<>> /\ calls = <<>>
  /\ value = 0 /\ error = "NO_ERR"
  /\ status = "idle"
  /\ grouped = <<>> /\ dropped = FALSE

parse ==
  /\ status = "idle"
  /\ status' = "parsing"
  /\ nodes' = <<[type |-> "PROGRAM", body |-> <<>>]>>
  /\ calls' = <<Activation("parseProgram", 1, "")>>
  /\ UNCHANGED <<tokens, next, Result, grouped, dropped>>

parsed ==
  /\ status = "parsing"
  /\ calls = <<>>
  /\ status' = IF error = "NO_ERR" THEN "parsed" ELSE "failed"
  /\ UNCHANGED <<tokens, next, nodes, calls, Result, grouped, dropped>>

ParserNext ==
  \/ parse \/ parsed
  \/ parseProgram \/ parseScopeNode \/ scopeLoop \/ addStatement \/ OutOfMemory
  \/ parseStatement
  \/ parseReturnStatement \/ makeReturn \/ parseLetStatement \/ makeLet
  \/ parseWhileStatement \/ closeCondition
  \/ parseFunctionStatement \/ endFunction
  \/ parseComparisonExpression \/ parseAddativeExpression
  \/ parseMultiplicativeExpression \/ operator \/ makeBinary
  \/ parsePrimaryExpression \/ outOfRange \/ closeParen \/ parseIdentifier
  \/ propagate \/ PastTheEnd

ParserSpec == Init /\ [][ParserNext]_parserVars /\ WF_parserVars(ParserNext)
=============================================================================
