------------------------------ MODULE Compiler ------------------------------
(***************************************************************************)
(* The parser and the code generator, as main composes them: a program     *)
(* that parsed is generated from the nodes the parser allocated.           *)
(***************************************************************************)
EXTENDS Parser, SequencesExt

CONSTANT Names   \* the identifiers that occur in the inputs

ASSUME NamesAssumption ==
  "main" \in Names /\ \A s \in Inputs : s \in Seq(TokenOf(Names))

VARIABLES bytecode, stackSize, identifiers, functions, unresolvedCalls,
          registers, generating, phase, printed, starts

Generator == INSTANCE CodeGenerator WITH
  ast <- nodes, calls <- generating, status <- phase, Programs <- {},
  before <- <<>>

generatorVars == <<bytecode, stackSize, identifiers, functions, unresolvedCalls,
                   registers, generating, phase, printed, starts>>
compilerVars == <<parserVars, generatorVars>>

CompilerInit == Init /\ Generator!Constructed

Parse == ParserNext /\ UNCHANGED generatorVars

Generate == status = "parsed" /\ Generator!generate /\ UNCHANGED parserVars

CompilerNext == Parse \/ Generate

CompilerSpec ==
  CompilerInit /\ [][CompilerNext]_compilerVars /\ WF_compilerVars(CompilerNext)

-----------------------------------------------------------------------------
(* What a tree says, as tokens.                                            *)

\* Every node that is reached has the children its class asks for.
Complete == \E S \in SUBSET DOMAIN nodes : Generator!IsWhole(S)

\* A node is printed in as many pairs of parentheses as it was read in.
Groups(n) == Len(SelectSeq(grouped, LAMBDA g : g = n))

Repeated(t, k) == [i \in 1 .. k |-> t]

Bare(op) == IF op = "none" THEN <<>>
            ELSE <<Operator(IF op = "inc" THEN "INCREMENT" ELSE "DECREMENT")>>

Printed[n \in Nat] ==
  LET node == nodes[n]
      body == FlattenSeq([i \in DOMAIN node.body |-> Printed[node.body[i]]])
      braced == <<Token("OPEN_BRACE")>> \o body \o <<Token("CLOSE_BRACE")>>
      text ==
        CASE node.type = "PROGRAM" -> body \o <<EndOfFile>>
          [] node.type = "NUMERIC_LITERAL" -> <<Number(node.value)>>
          [] node.type = "IDENTIFIER" -> <<Identifier(node.name)>> \o Bare(node.op)
          [] node.type = "INC_DEC_EXPRESSION" -> Bare(node.op)
          [] node.type = "CALL_EXPRESSION" ->
               <<Identifier(node.name), Token("OPEN_PAREN"), Token("CLOSE_PAREN")>>
          [] node.type \in {"BINARY_EXPRESSION", "COMPARISON_EXPRESSION"} ->
               Printed[node.left] \o <<Operator(node.operator)>> \o Printed[node.right]
          [] node.type = "LET" ->
               <<Token("LET"), Identifier(node.name), Operator("ASSIGNMENT")>>
                 \o Printed[node.expression]
          [] node.type = "RETURN" -> <<Token("RETURN")>> \o Printed[node.expression]
          [] node.type = "WHILE" ->
               <<Token("WHILE"), Token("OPEN_PAREN")>> \o Printed[node.condition]
                 \o <<Token("CLOSE_PAREN")>> \o braced
          [] node.type = "FUNCTION" ->
               <<Token("FUNCTION"), Identifier(node.name), Token("OPEN_PAREN"),
                 Token("CLOSE_PAREN")>> \o braced
  IN  Repeated(Token("OPEN_PAREN"), Groups(n)) \o text
        \o Repeated(Token("CLOSE_PAREN"), Groups(n))

\* The tokens, with the 0 a return at the end of the input stands for and
\* numbers as the 16 bits they are kept in.
Meant ==
  LET narrowed == [i \in DOMAIN tokens |->
                     IF tokens[i].type = "NUMBER"
                     THEN Number(I16(U16(tokens[i].value))) ELSE tokens[i]]
      n == Len(tokens)
  IN  IF n > 1 /\ tokens[n - 1] = Token("RETURN")
      THEN SubSeq(narrowed, 1, n - 1) \o <<Number(0), EndOfFile>>
      ELSE narrowed

-----------------------------------------------------------------------------
(* Properties.                                                             *)

TypeOK ==
  /\ next \in 1 .. Len(tokens) + 1
  /\ nodes = <<>> \/ Generator!IsTree(nodes)
  /\ value \in 0 .. Len(nodes)
  /\ \A i \in DOMAIN calls : calls[i].node \in 0 .. Len(nodes)
  /\ status \in {"idle", "parsing", "parsed", "failed", "undefined", "exhausted",
                 "terminated"}
  /\ Generator!TypeOK \/ phase = "idle"

\* A parse that reports no error, drops none and leaves no child out has, when
\* it ends, read every token, once and in order, into the tree: printed, the
\* tree is the program, its parentheses included.
Faithful ==
  status = "parsed" /\ phase = "idle" /\ ~dropped /\ Complete => Printed[1] = Meant

\* An operand of * or / is never a sum, an operand of + or - never a chain of
\* them, and no operand a comparison, unless it was written in parentheses
\* (tests_parser.cpp:29-75).
Tighter == [
  COMPARISON_EXPRESSION |-> {"COMPARISON_EXPRESSION"},
  ADDITION |-> {"COMPARISON_EXPRESSION", "ADDITION", "SUBTRACTION"},
  MULTIPLICATION |-> {"COMPARISON_EXPRESSION", "ADDITION", "SUBTRACTION",
                      "MULTIPLICATION", "DIVISION"}]

KindOf(n) ==
  IF n # 0 /\ nodes[n].type = "BINARY_EXPRESSION" THEN nodes[n].operator
  ELSE IF n = 0 THEN "null" ELSE nodes[n].type

ClassOf(n) ==
  CASE KindOf(n) \in {"ADDITION", "SUBTRACTION"} -> "ADDITION"
    [] KindOf(n) \in {"MULTIPLICATION", "DIVISION"} -> "MULTIPLICATION"
    [] OTHER -> KindOf(n)

Precedence ==
  \A n \in DOMAIN nodes :
    ClassOf(n) \in DOMAIN Tighter =>
      \A k \in {nodes[n].left, nodes[n].right} :
        KindOf(k) \in Tighter[ClassOf(n)] => k \in Range(grouped)

\* The parser runs out of memory at one kind of token only: one that begins no
\* statement and joins none, the end of the input inside a scope included.
\* Every other statement it adds has read something.
Stray(t) ==
  \/ t.type \in {"CLOSE_PAREN", "CLOSE_BRACE", "OPEN_BRACE", "OPEN_BRACKET",
                 "CLOSE_BRACKET", "IF", "ELSE", "END_OF_FILE"}
  \/ t.type = "OPERATOR" /\ t.operator \notin
       (DOMAIN IncDecOf \cup UNION {OperatorsOf[level] : level \in DOMAIN OperatorsOf})

StuckAtStrayToken == status = "exhausted" => Stray(tokens[next])

\* What a parse accepts without leaving a child out, its while conditions
\* comparisons, the generator gets through without following a null pointer or
\* casting a node to what it is not.
AcceptedIsGenerated == Generator!FollowsNoNull

\* A scope that is not closed is an error, reported at the end of the file
\* (parser.cpp:126-130).
MissingBraceReported ==
  status = "exhausted" => tokens[next] # EndOfFile
=============================================================================
