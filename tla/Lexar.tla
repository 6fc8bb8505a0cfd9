-------------------------------- MODULE Lexar --------------------------------
(***************************************************************************)
(* The lexar (lexar.cpp): cuts a text into tokens, in one pass over its    *)
(* characters, and then hands them out in order.                           *)
(*                                                                         *)
(* A text is a sequence of characters, strings of length one; its offsets  *)
(* count from 0, and reading at its length gives the NUL that ends a       *)
(* std::string.  An action is one turn of lex's loop: white space, and     *)
(* what is behind it.                                                      *)
(***************************************************************************)
EXTENDS Tokens, FiniteSets

CONSTANT Texts   \* the texts a lexar may be constructed with

ASSUME TextsAssumption == Texts \subseteq Seq(STRING)

VARIABLES
  input,              \* m_input
  position,           \* m_position: in the text, and later in the tokens
  tokens,             \* m_tokens
  performedAnalysis,  \* m_performedAnalysis
  cursor,             \* cursorPosition, a local of lex
  lexing,             \* whether lex is running
  result,             \* the code the last lex returned
  refused             \* history: the offsets at which a lex gave up

text == <<input, refused>>
vars == <<text, position, tokens, performedAnalysis, cursor, lexing, result>>

-----------------------------------------------------------------------------
(* Characters (ASCII: what isdigit and isalpha do with a negative char is  *)
(* undefined).                                                             *)

NUL == "NUL"
White == {" ", "\t", "\n"}
Digits == {"0", "1", "2", "3", "4", "5", "6", "7", "8", "9"}
Letters == {"a", "b", "c", "d", "e", "f", "g", "h", "i", "j", "k", "l", "m",
            "n", "o", "p", "q", "r", "s", "t", "u", "v", "w", "x", "y", "z",
            "A", "B", "C", "D", "E", "F", "G", "H", "I", "J", "K", "L", "M",
            "N", "O", "P", "Q", "R", "S", "T", "U", "V", "W", "X", "Y", "Z"}

Bracket == [OPEN_PAREN |-> "(", CLOSE_PAREN |-> ")", OPEN_BRACKET |-> "[",
            CLOSE_BRACKET |-> "]", OPEN_BRACE |-> "{", CLOSE_BRACE |-> "}"]

s_keywords == {
  <<"LET", <<"l", "e", "t">>>>, <<"RETURN", <<"r", "e", "t", "u", "r", "n">>>>,
  <<"IF", <<"i", "f">>>>, <<"ELSE", <<"e", "l", "s", "e">>>>,
  <<"WHILE", <<"w", "h", "i", "l", "e">>>>, <<"FUNCTION", <<"f", "n">>>>}

\* A character, the one behind it (NUL: no operator's), and the operator.  Of
\* two lines that begin alike the first is the one that is found.
s_operators == <<
  <<"=", NUL, "ASSIGNMENT">>, <<"=", "=", "EQUAL">>,
  <<"!", NUL, "NOT">>, <<"!", "=", "NOT_EQUAL">>,
  <<"<", NUL, "LESS_THAN">>, <<"<", "=", "LESS_EQUAL">>,
  <<"<", "<", "LEFT_SHIFT">>, <<"<", "=", "LEFT_SHIFT_ASSIGNMENT">>,
  <<">", NUL, "GREATER_THAN">>, <<">", "=", "GREATER_EQUAL">>,
  <<">", ">", "RIGHT_SHIFT">>, <<">", "=", "RIGHT_SHIFT_ASSIGNMENT">>,
  <<"&", NUL, "AND">>, <<"&", "&", "AND_AND">>, <<"&", "=", "AND_ASSIGNMENT">>,
  <<"|", NUL, "OR">>, <<"|", "|", "OR_OR">>, <<"|", "=", "OR_ASSIGNMENT">>,
  <<"^", NUL, "XOR">>, <<"^", "=", "XOR_ASSIGNMENT">>,
  <<"%", NUL, "MODULUS">>, <<"%", "=", "MODULUS_ASSIGNMENT">>,
  <<"+", NUL, "ADDITION">>, <<"+", "+", "INCREMENT">>,
  <<"+", "=", "ADDITION_ASSIGNMENT">>,
  <<"-", NUL, "SUBTRACTION">>, <<"-", "-", "DECREMENT">>,
  <<"-", "=", "SUBTRACTION_ASSIGNMENT">>,
  <<"*", NUL, "MULTIPLICATION">>, <<"*", "=", "MULTIPLICATION_ASSIGNMENT">>,
  <<"/", NUL, "DIVISION">>, <<"/", "=", "DIVISION_ASSIGNMENT">> >>

OperatorChars == {s_operators[i][1] : i \in DOMAIN s_operators}

Lines(c, d) ==
  {i \in DOMAIN s_operators : s_operators[i][1] = c /\ s_operators[i][2] = d}

\* mutant: the last line found
OperatorForLast(c, d) ==
  s_operators[CHOOSE i \in Lines(c, d) : \A j \in Lines(c, d) : j <= i][3]

OperatorFor(c, d) ==
  s_operators[CHOOSE i \in Lines(c, d) : \A j \in Lines(c, d) : i <= j][3]

-----------------------------------------------------------------------------
(* Reading.                                                                *)

CharAt(p) == IF p < Len(input) THEN input[p + 1] ELSE NUL

\* The first offset from p on whose character is not in S.
Behind(S, p) ==
  CHOOSE q \in p .. Len(input) :
    CharAt(q) \notin S /\ \A r \in p .. q - 1 : CharAt(r) \in S

\* Where skipWhiteSpaces leaves m_position, and the cursor.
Here == Behind(White, position)

\* mutant: the column is not set back at a line break
SkippedOneLine ==
  [line |-> cursor.line
              + Cardinality({q \in position .. Here - 1 : CharAt(q) = "\n"}),
   column |-> cursor.column + (Here - position)]

Skipped ==
  LET breaks == {q \in position .. Here - 1 : CharAt(q) = "\n"}
      last == CHOOSE q \in breaks : \A r \in breaks : r <= q
  IN  IF breaks = {} THEN [cursor EXCEPT !.column = @ + (Here - position)]
      ELSE [line |-> cursor.line + Cardinality(breaks), column |-> Here - last]

\* A turn of the loop whose character is in S.
Reads(S) == lexing /\ CharAt(Here) \in S

\* The characters from Here to before end are a token of the given type, which
\* is recorded as starting at the column of its character number `first`.
Pushes(type, operator, end, first) ==
  /\ tokens' = Append(tokens,
       [type |-> type, operator |-> operator,
        text |-> IF type = "OPERATOR" THEN <<>> ELSE SubSeq(input, Here + 1, end),
        line |-> Skipped.line, column |-> Skipped.column + first,
        at |-> Here])
  /\ cursor' = [Skipped EXCEPT !.column = @ + (end - Here)]

\* What lexing a token leaves alone.
Context == UNCHANGED <<text, performedAnalysis, lexing, result>>

bracket ==
  /\ Reads({Bracket[type] : type \in DOMAIN Bracket})
  /\ Pushes(CHOOSE type \in DOMAIN Bracket : Bracket[type] = CharAt(Here),
            "UNKNOWN", Here + 1, 0)
  /\ position' = Here + 1
  /\ Context

\* mutant: the character behind the digits is not put back
numberUnread ==
  /\ Reads(Digits)
  /\ Pushes("NUMBER", "UNKNOWN", Behind(Digits, Here), 0)
  /\ position' = Behind(Digits, Here) + 1
  /\ Context

number ==
  /\ Reads(Digits)
  /\ Pushes("NUMBER", "UNKNOWN", Behind(Digits, Here), 0)
  /\ position' = Behind(Digits, Here)
  /\ Context

TypeOfWord(w) ==
  IF \E k \in s_keywords : k[2] = w THEN (CHOOSE k \in s_keywords : k[2] = w)[1]
  ELSE "IDENTIFIER"

word ==
  LET end == Behind(Letters, Here)
  IN  /\ Reads(Letters)
      /\ Pushes(TypeOfWord(SubSeq(input, Here + 1, end)), "UNKNOWN", end, 0)
      /\ position' = end
      /\ Context

\* mutant: the character behind is not looked at
identifyOperatorAlone ==
  /\ Reads(OperatorChars)
  /\ Pushes("OPERATOR", OperatorFor(CharAt(Here), NUL), Here + 1, 0)
  /\ position' = Here + 1
  /\ Context

\* An operator of one character, or one of two, whose position is that of its
\* second.
identifyOperator ==
  LET c == CharAt(Here)
      d == CharAt(Here + 1)
      length == IF d \in OperatorChars THEN 2 ELSE 1
  IN  /\ Reads(OperatorChars)
      /\ length = 2 => Lines(c, d) # {}
      /\ Pushes("OPERATOR", OperatorFor(c, IF length = 2 THEN d ELSE NUL),
                Here + length, length - 1)
      /\ position' = Here + length
      /\ Context

\* A character of no token, or an operator before another that does not extend
\* it.  m_position stays behind it.
unknownCharacter ==
  LET c == CharAt(Here)
      d == CharAt(Here + 1)
  IN  /\ lexing
      /\ c \notin Digits \cup Letters \cup {NUL}
                    \cup {Bracket[type] : type \in DOMAIN Bracket}
      /\ c \in OperatorChars => d \in OperatorChars /\ Lines(c, d) = {}
      /\ position' = Here + 1
      /\ lexing' = FALSE
      /\ result' = "LEXAR_UNKNOWN_CHARACTER"
      /\ refused' = refused \cup {Here}
      /\ UNCHANGED <<input, tokens, performedAnalysis, cursor>>

PushesEnd ==
  tokens' = Append(tokens,
    [type |-> "END_OF_FILE", operator |-> "UNKNOWN", text |-> <<>>,
     line |-> Skipped.line, column |-> Skipped.column, at |-> Here])

\* mutant: the analysis is not marked as performed
finishUnmarked ==
  /\ Reads({NUL})
  /\ PushesEnd
  /\ position' = 0
  /\ lexing' = FALSE
  /\ result' = "NO_ERR"
  /\ UNCHANGED <<text, performedAnalysis, cursor>>

\* The end of the text, or a NUL inside it.
finish ==
  /\ Reads({NUL})
  /\ PushesEnd
  /\ position' = 0
  /\ performedAnalysis' = TRUE
  /\ lexing' = FALSE
  /\ result' = "NO_ERR"
  /\ UNCHANGED <<text, cursor>>

-----------------------------------------------------------------------------
(* The client's calls.  A lex that failed may be called again; tokens are  *)
(* asked for when there are some (lexar.hpp:60-67).                        *)

Init ==
  /\ input \in Texts
  /\ position = 0
  /\ tokens = <<>>
  /\ performedAnalysis = FALSE
  /\ cursor = [line |-> 1, column |-> 1]
  /\ lexing = FALSE
  /\ result = "none"
  /\ refused = {}

\* mutant: a second analysis is not refused
lexAnyway ==
  /\ ~lexing
  /\ lexing' = TRUE
  /\ cursor' = [line |-> 1, column |-> 1]
  /\ UNCHANGED <<text, position, tokens, performedAnalysis, result>>

lex ==
  /\ ~lexing
  /\ IF performedAnalysis
     THEN result' = "LEXAR_PERFORMED_ANALYSIS" /\ UNCHANGED <<lexing, cursor>>
     ELSE lexing' = TRUE /\ cursor' = [line |-> 1, column |-> 1] /\ UNCHANGED result
  /\ UNCHANGED <<text, position, tokens, performedAnalysis>>

\* pop; popExpect and popOperator pop too, whatever they find.
pop ==
  /\ ~lexing
  /\ performedAnalysis
  /\ position < Len(tokens)
  /\ position' = position + 1
  /\ UNCHANGED <<text, tokens, performedAnalysis, cursor, lexing, result>>

turn ==
  bracket \/ number \/ word \/ identifyOperator \/ unknownCharacter \/ finish

Next == lex \/ turn \/ pop

Spec == Init /\ [][Next]_vars /\ WF_vars(turn)

-----------------------------------------------------------------------------
(* Properties.                                                             *)

TypeOK ==
  /\ position \in 0 .. (IF performedAnalysis THEN Len(tokens) ELSE Len(input))
  /\ \A i \in DOMAIN tokens : tokens[i].at \in 0 .. Len(input)
  /\ performedAnalysis \in BOOLEAN /\ lexing \in BOOLEAN
  /\ result \in {"none", "NO_ERR", "LEXAR_UNKNOWN_CHARACTER",
                 "LEXAR_PERFORMED_ANALYSIS"}
  /\ refused \subseteq 0 .. Len(input) - 1

\* How an operator is written, as tests_lexar.cpp:42-77 has it.
Spellings == [
  ASSIGNMENT |-> <<"=">>, EQUAL |-> <<"=", "=">>, NOT |-> <<"!">>,
  NOT_EQUAL |-> <<"!", "=">>, LESS_THAN |-> <<"<">>, GREATER_THAN |-> <<">">>,
  LESS_EQUAL |-> <<"<", "=">>, GREATER_EQUAL |-> <<">", "=">>,
  AND |-> <<"&">>, AND_AND |-> <<"&", "&">>, AND_ASSIGNMENT |-> <<"&", "=">>,
  OR |-> <<"|">>, OR_OR |-> <<"|", "|">>, OR_ASSIGNMENT |-> <<"|", "=">>,
  XOR |-> <<"^">>, XOR_ASSIGNMENT |-> <<"^", "=">>,
  MODULUS |-> <<"%">>, MODULUS_ASSIGNMENT |-> <<"%", "=">>,
  LEFT_SHIFT |-> <<"<", "<">>, LEFT_SHIFT_ASSIGNMENT |-> <<"<", "<", "=">>,
  RIGHT_SHIFT |-> <<">", ">">>, RIGHT_SHIFT_ASSIGNMENT |-> <<">", ">", "=">>,
  ADDITION |-> <<"+">>, INCREMENT |-> <<"+", "+">>,
  ADDITION_ASSIGNMENT |-> <<"+", "=">>, SUBTRACTION |-> <<"-">>,
  DECREMENT |-> <<"-", "-">>, SUBTRACTION_ASSIGNMENT |-> <<"-", "=">>,
  MULTIPLICATION |-> <<"*">>, MULTIPLICATION_ASSIGNMENT |-> <<"*", "=">>,
  DIVISION |-> <<"/">>, DIVISION_ASSIGNMENT |-> <<"/", "=">>]

Spelling(t) == IF t.type = "OPERATOR" THEN Spellings[t.operator] ELSE t.text

EndOf(t) == t.at + Len(Spelling(t))

\* How much of the text has been read.
Done == IF performedAnalysis THEN tokens[Len(tokens)].at ELSE position

\* What has been read is, character by character, the tokens pushed so far in
\* their order, white space, and the characters at which a lex gave up: no
\* read-ahead that is put back, and no second lex, loses a character or reads
\* one twice.
Tiled ==
  /\ \A i \in DOMAIN tokens :
       /\ \A k \in DOMAIN Spelling(tokens[i]) :
            CharAt(tokens[i].at + k - 1) = Spelling(tokens[i])[k]
       /\ i > 1 => EndOf(tokens[i - 1]) <= tokens[i].at
       /\ EndOf(tokens[i]) <= Done
  /\ \A p \in 0 .. Done - 1 :
       CharAt(p) \notin White /\ p \notin refused <=>
         \E i \in DOMAIN tokens : tokens[i].at <= p /\ p < EndOf(tokens[i])

\* No token could be longer, but for << and >> in front of =: a word or a number
\* takes all its letters or digits, and an operator of one character is none of
\* two.  An operator of two is never made one of three: <<= and >>= are read as
\* << and >>, and then =.
Longest ==
  \A i \in DOMAIN tokens :
    LET t == tokens[i]
        Extends(S) == CharAt(t.at) \in S /\ CharAt(EndOf(t)) \in S
    IN  /\ ~Extends(Digits) /\ ~Extends(Letters)
        /\ t.type = "OPERATOR" => ~ \E op \in DOMAIN Spellings :
             /\ Len(Spelling(t)) = 1 /\ Len(Spellings[op]) = 2
             /\ Spellings[op] = <<CharAt(t.at), CharAt(t.at + 1)>>

\* The position recorded for a token is where it starts in the text, lines and
\* columns counted from 1; an operator of two characters is recorded at its
\* second.  (A lex after one that failed counts from 1 again.)
Located ==
  refused = {} =>
    \A i \in DOMAIN tokens :
      LET t == tokens[i]
          p == t.at + IF t.type = "OPERATOR" THEN Len(Spelling(t)) - 1 ELSE 0
          breaks == {q \in 0 .. p - 1 : CharAt(q) = "\n"}
      IN  /\ t.line = 1 + Cardinality(breaks)
          /\ p - t.column \in breaks \cup {-1}
          /\ \A q \in breaks : q <= p - t.column

\* The parser's assumption: whatever calls came before, END_OF_FILE is there
\* once, last, when the analysis has been performed, and not before.
HandsOver ==
  IF performedAnalysis THEN IsInput(tokens)
  ELSE \A i \in DOMAIN tokens : tokens[i].type # "END_OF_FILE"

\* Once the analysis is performed the tokens stay, and m_position, which counts
\* them from then on, only goes forward: no call of lex rewinds a parser.
AnalysedOnce ==
  [][performedAnalysis =>
       /\ UNCHANGED <<tokens, performedAnalysis>>
       /\ position' >= position]_vars
=============================================================================
