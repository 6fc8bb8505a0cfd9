---------------------------- MODULE LexarProofs ----------------------------
(***************************************************************************)
(* Proofs about Lexar, for every set of texts of ASCII characters.         *)
(***************************************************************************)
EXTENDS Lexar, WellFoundedInduction, SequenceTheorems, FiniteSetTheorems, TLAPS

-----------------------------------------------------------------------------
(* Least numbers.                                                          *)

\* A set of natural numbers that is not empty has a least one.
LEMMA Least ==
  ASSUME NEW S, S \subseteq Nat, S # {}
  PROVE  \E n \in S : \A k \in S : n <= k
<1>1. IsWellFoundedOn(OpToRel(<, Nat), Nat) BY NatLessThanWellFounded
<1>2. PICK n \in S : \A k \in S : ~ (<<k, n>> \in OpToRel(<, Nat))
  BY <1>1, WFMin
<1>3. ASSUME NEW k \in S PROVE n <= k
  <2>1. <<k, n>> \notin OpToRel(<, Nat) BY <1>2
  <2>2. <<k, n>> \in Nat \X Nat OBVIOUS
  <2>3. ~ (k < n) BY <2>1, <2>2 DEF OpToRel
  <2> QED BY <2>3
<1> QED BY <1>3

-----------------------------------------------------------------------------
(* Reading characters.                                                     *)

LEMMA CharAtText ==
  ASSUME input \in Seq(STRING), NEW p \in Nat
  PROVE  /\ CharAt(p) # NUL => p < Len(input)
         /\ p < Len(input) => CharAt(p) = input[p + 1]
BY DEF CharAt

\* What Behind finds, and that it is there: the NUL behind the text at last.
LEMMA BehindFinds ==
  ASSUME input \in Seq(STRING), NEW S, NUL \notin S, NEW p \in 0 .. Len(input)
  PROVE  /\ Behind(S, p) \in p .. Len(input)
         /\ CharAt(Behind(S, p)) \notin S
         /\ \A r \in p .. Behind(S, p) - 1 : CharAt(r) \in S
<1> DEFINE Others == {q \in p .. Len(input) : CharAt(q) \notin S}
<1>0. Len(input) \in Nat OBVIOUS
<1>1. Len(input) \in Others BY <1>0 DEF CharAt
<1>2. Others \subseteq Nat BY <1>0
<1>3. PICK q \in Others : \A k \in Others : q <= k BY <1>1, <1>2, Least
<1>4. \A r \in p .. q - 1 : CharAt(r) \in S
  <2> TAKE r \in p .. q - 1
  <2>1. r \in p .. Len(input) /\ ~ (q <= r) BY <1>0, <1>3
  <2> QED BY <2>1, <1>3
<1>5. \E x \in p .. Len(input) :
        CharAt(x) \notin S /\ \A r \in p .. x - 1 : CharAt(r) \in S
  BY <1>3, <1>4
<1> QED BY <1>5 DEF Behind

-----------------------------------------------------------------------------
(* The table of operators.                                                 *)

LEMMA TableLines == DOMAIN s_operators = 1 .. 32
BY DEF s_operators

\* Each line but those of <<= and >>= has the operator it spells.
LEMMA TableSpells ==
  ASSUME NEW i \in 1 .. 32 \ {8, 12}
  PROVE  LET spelling == Spellings[s_operators[i][3]]
         IN  /\ spelling[1] = s_operators[i][1]
             /\ s_operators[i][2] = NUL =>
                  DOMAIN spelling = 1 .. 1 /\ Len(spelling) = 1
             /\ s_operators[i][2] # NUL =>
                  /\ DOMAIN spelling = 1 .. 2 /\ Len(spelling) = 2
                  /\ spelling[2] = s_operators[i][2]
<1> DEFINE spelling == Spellings[s_operators[i][3]]
<1>1. spelling[1] = s_operators[i][1] BY DEF s_operators, Spellings
<1>2. s_operators[i][2] = NUL => DOMAIN spelling = 1 .. 1
  BY DEF s_operators, Spellings, NUL
<1>3. s_operators[i][2] = NUL => Len(spelling) = 1
  BY DEF s_operators, Spellings, NUL
<1>4. s_operators[i][2] # NUL => DOMAIN spelling = 1 .. 2
  BY DEF s_operators, Spellings, NUL
<1>5. s_operators[i][2] # NUL => Len(spelling) = 2
  BY DEF s_operators, Spellings, NUL
<1>6. s_operators[i][2] # NUL => spelling[2] = s_operators[i][2]
  BY DEF s_operators, Spellings, NUL
<1> QED BY <1>1, <1>2, <1>3, <1>4, <1>5, <1>6

\* The line of <<= is hidden behind that of <=, that of >>= behind that of >=.
LEMMA Hidden ==
  /\ s_operators[8][1] = s_operators[6][1] /\ s_operators[8][2] = s_operators[6][2]
  /\ s_operators[12][1] = s_operators[10][1] /\ s_operators[12][2] = s_operators[10][2]
BY DEF s_operators

\* Every operator character has a line of its own.
LEMMA EveryAlone ==
  ASSUME NEW c \in OperatorChars
  PROVE  Lines(c, NUL) # {}
<1>1. \A i \in 1 .. 32 : \E j \in 1 .. 32 :
        s_operators[j][1] = s_operators[i][1] /\ s_operators[j][2] = NUL
  BY DEF s_operators, NUL
<1> QED BY <1>1, TableLines DEF OperatorChars, Lines

\* White space and the end of a text are no operators.
LEMMA NoOperator ==
  OperatorChars \cap (White \cup {NUL}) = {}
<1> DEFINE Chars == {"=", "!", "<", ">", "&", "|", "^", "%", "+", "-", "*", "/"}
<1>1. \A i \in 1 .. 32 : s_operators[i][1] \in Chars BY DEF s_operators
<1>2. Chars \cap White = {} BY DEF White
<1>3. NUL \notin Chars BY DEF NUL
<1> QED BY <1>1, <1>2, <1>3, TableLines DEF OperatorChars

\* What OperatorFor finds is spelled with the characters it was asked for.
LEMMA OperatorSpelled ==
  ASSUME NEW c, NEW d, Lines(c, d) # {}
  PROVE  LET spelling == Spellings[OperatorFor(c, d)]
         IN  /\ spelling[1] = c
             /\ d = NUL => DOMAIN spelling = 1 .. 1 /\ Len(spelling) = 1
             /\ d # NUL => /\ DOMAIN spelling = 1 .. 2 /\ Len(spelling) = 2
                           /\ spelling[2] = d
<1>1. Lines(c, d) \subseteq 1 .. 32 BY TableLines DEF Lines
<1>2. \E n \in Lines(c, d) : \A k \in Lines(c, d) : n <= k
  <2>1. Lines(c, d) \subseteq Nat BY <1>1
  <2> QED BY <2>1, Least
<1> DEFINE i == CHOOSE n \in Lines(c, d) : \A k \in Lines(c, d) : n <= k
<1>3. i \in Lines(c, d) /\ \A k \in Lines(c, d) : i <= k BY <1>2
<1>4. OperatorFor(c, d) = s_operators[i][3] BY DEF OperatorFor
<1>5. s_operators[i][1] = c /\ s_operators[i][2] = d BY <1>3 DEF Lines
<1> HIDE DEF i
<1>6. i # 8
  <2> SUFFICES ASSUME i = 8 PROVE FALSE OBVIOUS
  <2>1. 6 \in Lines(c, d) BY <1>5, Hidden, TableLines DEF Lines
  <2> QED BY <2>1, <1>3
<1>7. i # 12
  <2> SUFFICES ASSUME i = 12 PROVE FALSE OBVIOUS
  <2>1. 10 \in Lines(c, d) BY <1>5, Hidden, TableLines DEF Lines
  <2> QED BY <2>1, <1>3
<1>8. i \in 1 .. 32 \ {8, 12} BY <1>1, <1>3, <1>6, <1>7
<1> QED BY <1>4, <1>5, <1>8, TableSpells

-----------------------------------------------------------------------------
(* The inductive invariant.                                                *)

\* What the operators of the invariant are about.
Held ==
  /\ input \in Seq(STRING)
  /\ position \in Nat
  /\ \E T : tokens \in Seq(T)
  /\ \A i \in DOMAIN tokens : Len(Spelling(tokens[i])) \in Nat
  /\ performedAnalysis => ~lexing /\ Len(tokens) >= 1

\* lex gave up at characters it has read.
RefusedBehind == refused \subseteq 0 .. Done - 1

IInv == Held /\ TypeOK /\ RefusedBehind /\ HandsOver /\ Tiled

\* Appending to a list of tokens.
LEMMA Appended ==
  ASSUME NEW s, NEW T, s \in Seq(T), NEW t
  PROVE  /\ Append(s, t) \in Seq(T \cup {t})
         /\ Len(Append(s, t)) = Len(s) + 1
         /\ Append(s, t)[Len(s) + 1] = t
         /\ \A i \in 1 .. Len(s) : Append(s, t)[i] = s[i]
<1>1. s \in Seq(T \cup {t}) OBVIOUS
<1> QED BY <1>1

LEMMA InitHolds == ASSUME Init PROVE IInv
<1>1. input \in Seq(STRING) BY TextsAssumption DEF Init
<1>2. Len(input) \in Nat BY <1>1
<1>3. tokens \in Seq({}) /\ DOMAIN tokens = {} /\ Done = 0 BY DEF Init, Done
<1>4. Held BY <1>1, <1>3 DEF Init, Held
<1>5. TypeOK
  <2>1. position \in 0 .. Len(input) BY <1>2 DEF Init
  <2> QED BY <2>1, <1>3, Zenon DEF Init, TypeOK
<1>6. RefusedBehind BY DEF Init, RefusedBehind
<1>7. HandsOver BY <1>3 DEF Init, HandsOver
<1>8. Tiled BY <1>3 DEF Tiled
<1> QED BY <1>4, <1>5, <1>6, <1>7, <1>8 DEF IInv

\* While lex runs it has read what is before its position, and the token it is
\* about to read starts Here, behind white space.
LEMMA Running ==
  ASSUME IInv, lexing
  PROVE  /\ ~performedAnalysis /\ Done = position
         /\ position \in 0 .. Len(input) /\ Len(input) \in Nat
         /\ Here \in position .. Len(input) /\ Here \in Nat
         /\ CharAt(Here) \notin White
         /\ \A r \in position .. Here - 1 : CharAt(r) \in White
<1>1. ~performedAnalysis BY DEF IInv, Held
<1>2. input \in Seq(STRING) /\ Len(input) \in Nat BY DEF IInv, Held
<1>3. position \in 0 .. Len(input) BY <1>1 DEF IInv, TypeOK
<1>4. NUL \notin White BY DEF NUL, White
<1> QED BY <1>1, <1>2, <1>3, <1>4, BehindFinds DEF Here, Done

\* A token that is spelled with the characters from Here to before e, none of
\* them white, is the next tile.
LEMMA NextTile ==
  ASSUME IInv, lexing, NEW t, NEW e \in Here .. Len(input),
         tokens' = Append(tokens, t), t.at = Here,
         Len(Spelling(t)) = e - Here, DOMAIN Spelling(t) = 1 .. e - Here,
         \A p \in Here .. e - 1 :
           CharAt(p) = Spelling(t)[p - Here + 1] /\ CharAt(p) \notin White,
         Done' = e, UNCHANGED text
  PROVE  Tiled' /\ RefusedBehind'
<1>0. Len(input) \in Nat /\ position \in Nat /\ Done = position
        /\ Here \in Nat /\ e \in Nat /\ position <= Here /\ Here <= e
        /\ \A r \in position .. Here - 1 : CharAt(r) \in White
  BY Running
<1>1. input' = input /\ refused' = refused BY DEF text
<1>2. PICK T : tokens \in Seq(T) BY DEF IInv, Held
<1> DEFINE n == Len(tokens)
<1>3. /\ n \in Nat /\ DOMAIN tokens = 1 .. n /\ DOMAIN tokens' = 1 .. n + 1
      /\ tokens'[n + 1] = t /\ \A i \in 1 .. n : tokens'[i] = tokens[i]
  BY <1>2, Appended
<1>5. \A i \in 1 .. n : /\ tokens[i].at \in Nat /\ Len(Spelling(tokens[i])) \in Nat
                        /\ EndOf(tokens[i]) \in Nat /\ EndOf(tokens[i]) <= position
  <2> TAKE i \in 1 .. n
  <2>1. tokens[i].at \in Nat BY <1>0, <1>3 DEF IInv, TypeOK
  <2>2. Len(Spelling(tokens[i])) \in Nat BY <1>3 DEF IInv, Held
  <2>3. EndOf(tokens[i]) \in Nat BY <2>1, <2>2 DEF EndOf
  <2>4. EndOf(tokens[i]) <= position BY <1>0, <1>3 DEF IInv, Tiled
  <2> QED BY <2>1, <2>2, <2>3, <2>4
<1>6. EndOf(t) = e BY <1>0 DEF EndOf
<1>7. ASSUME NEW i \in 1 .. n + 1
      PROVE  /\ \A k \in DOMAIN Spelling(tokens'[i]) :
                  CharAt(tokens'[i].at + k - 1) = Spelling(tokens'[i])[k]
             /\ i > 1 => EndOf(tokens'[i - 1]) <= tokens'[i].at
             /\ EndOf(tokens'[i]) <= e
  <2>1. CASE i \in 1 .. n
    <3>1. /\ \A k \in DOMAIN Spelling(tokens[i]) :
               CharAt(tokens[i].at + k - 1) = Spelling(tokens[i])[k]
          /\ i > 1 => EndOf(tokens[i - 1]) <= tokens[i].at
      BY <2>1, <1>3 DEF IInv, Tiled
    <3>2. tokens'[i] = tokens[i] /\ (i > 1 => tokens'[i - 1] = tokens[i - 1])
      BY <2>1, <1>3
    <3>3. EndOf(tokens[i]) <= e BY <1>0, <1>5, <2>1
    <3> QED BY <3>1, <3>2, <3>3
  <2>2. CASE i = n + 1
    <3>1. \A k \in 1 .. e - Here : CharAt(Here + k - 1) = Spelling(t)[k]
      <4> TAKE k \in 1 .. e - Here
      <4>1. Here + k - 1 \in Here .. e - 1 /\ (Here + k - 1) - Here + 1 = k BY <1>0
      <4> QED BY <4>1
    <3>2. ASSUME i > 1 PROVE EndOf(tokens'[i - 1]) <= Here
      <4>1. i - 1 = n /\ n \in 1 .. n BY <2>2, <3>2, <1>3
      <4>2. tokens'[i - 1] = tokens[n] BY <4>1, <1>3
      <4>3. EndOf(tokens[n]) \in Nat /\ EndOf(tokens[n]) <= position BY <4>1, <1>5
      <4> QED BY <4>2, <4>3, <1>0
    <3>3. tokens'[i] = t BY <2>2, <1>3
    <3> QED BY <3>1, <3>2, <3>3, <1>0, <1>6
  <2> QED BY <2>1, <2>2, <1>3
<1>8. ASSUME NEW p \in 0 .. e - 1
      PROVE  CharAt(p) \notin White /\ p \notin refused <=>
               \E i \in 1 .. n + 1 : tokens'[i].at <= p /\ p < EndOf(tokens'[i])
  <2> DEFINE InOld == \E i \in 1 .. n : tokens[i].at <= p /\ p < EndOf(tokens[i])
             InNew == Here <= p /\ p < e
  <2>1. (\E i \in 1 .. n + 1 : tokens'[i].at <= p /\ p < EndOf(tokens'[i]))
          <=> InOld \/ InNew
    BY <1>3, <1>6
  <2>2. CASE p < position
    <3>1. CharAt(p) \notin White /\ p \notin refused <=> InOld
      BY <2>2, <1>0, <1>3 DEF IInv, Tiled
    <3>2. ~ InNew BY <2>2, <1>0
    <3> QED BY <3>1, <3>2, <2>1
  <2>3. CASE position <= p
    <3>1. ~ InOld BY <2>3, <1>0, <1>5
    <3>2. p \notin refused BY <2>3, <1>0 DEF IInv, RefusedBehind
    <3>3. CharAt(p) \notin White <=> InNew BY <2>3, <1>0
    <3> QED BY <3>1, <3>2, <3>3, <2>1
  <2> QED BY <2>2, <2>3, <1>0
<1>9. Tiled' BY <1>1, <1>3, <1>7, <1>8 DEF Tiled, EndOf, CharAt
<1>10. RefusedBehind' BY <1>0, <1>1 DEF IInv, RefusedBehind
<1> QED BY <1>9, <1>10

-----------------------------------------------------------------------------
(* A turn of lex.                                                          *)

\* The characters of a token that is no operator spell it.
LEMMA TextSpells ==
  ASSUME IInv, lexing, NEW e \in Here .. Len(input)
  PROVE  LET w == SubSeq(input, Here + 1, e)
         IN  /\ Len(w) = e - Here /\ DOMAIN w = 1 .. e - Here
             /\ \A p \in Here .. e - 1 : CharAt(p) = w[p - Here + 1]
<1> DEFINE w == SubSeq(input, Here + 1, e)
<1>1. input \in Seq(STRING) /\ Here \in Nat /\ Len(input) \in Nat
  BY Running DEF IInv, Held
<1>2. \A i \in Here + 1 .. e : input[i] \in STRING BY <1>1
<1>3. /\ w \in Seq(STRING)
      /\ Len(w) = IF Here + 1 <= e THEN e - (Here + 1) + 1 ELSE 0
      /\ \A i \in 1 .. e - (Here + 1) + 1 : w[i] = input[(Here + 1) + i - 1]
  <2>1. Here + 1 \in Int /\ e \in Int BY <1>1
  <2> QED BY <1>2, <2>1, SubSeqProperties
<1>4. Len(w) = e - Here /\ DOMAIN w = 1 .. e - Here BY <1>1, <1>3
<1>5. ASSUME NEW p \in Here .. e - 1
      PROVE  CharAt(p) = w[p - Here + 1]
  <2>1. p - Here + 1 \in 1 .. e - (Here + 1) + 1 /\ p < Len(input) BY <1>1
  <2>2. w[p - Here + 1] = input[(Here + 1) + (p - Here + 1) - 1] BY <2>1, <1>3
  <2>3. (Here + 1) + (p - Here + 1) - 1 = p + 1 BY <1>1
  <2> QED BY <2>1, <2>2, <2>3 DEF CharAt
<1> QED BY <1>4, <1>5

\* A turn that pushes a token, spelled with the characters it reads, holds on
\* to the invariant.
LEMMA TurnHolds ==
  ASSUME IInv, lexing, Context,
         NEW type, type # "END_OF_FILE", NEW operator, NEW first,
         NEW e \in Here .. Len(input), Pushes(type, operator, e, first), position' = e,
         LET w == IF type = "OPERATOR" THEN Spellings[operator]
                  ELSE SubSeq(input, Here + 1, e)
         IN  /\ Len(w) = e - Here /\ DOMAIN w = 1 .. e - Here
             /\ \A p \in Here .. e - 1 :
                  CharAt(p) = w[p - Here + 1] /\ CharAt(p) \notin White
  PROVE  IInv'
<1> DEFINE t == [type |-> type, operator |-> operator,
                 text |-> IF type = "OPERATOR" THEN <<>> ELSE SubSeq(input, Here + 1, e),
                 line |-> Skipped.line, column |-> Skipped.column + first,
                 at |-> Here]
           n == Len(tokens)
<1>0. /\ ~performedAnalysis /\ Done = position
      /\ position \in 0 .. Len(input) /\ Here \in Nat /\ Len(input) \in Nat
  BY Running
<1>1. /\ input' = input /\ refused' = refused /\ UNCHANGED text
      /\ performedAnalysis' = performedAnalysis
      /\ lexing' = lexing /\ result' = result
  BY DEF Context, text
<1>2. tokens' = Append(tokens, t) BY DEF Pushes
<1>3. t.at = Here /\ t.type = type OBVIOUS
<1>4. Spelling(t) = IF type = "OPERATOR" THEN Spellings[operator]
                    ELSE SubSeq(input, Here + 1, e)
  BY DEF Spelling
<1> HIDE DEF t
<1>5. Done' = e BY <1>0, <1>1 DEF Done
<1>6. Tiled' /\ RefusedBehind' BY <1>1, <1>2, <1>3, <1>4, <1>5, NextTile
<1>7. PICK T : tokens \in Seq(T) BY DEF IInv, Held
<1>8. /\ n \in Nat /\ DOMAIN tokens = 1 .. n /\ DOMAIN tokens' = 1 .. n + 1
      /\ tokens'[n + 1] = t /\ \A i \in 1 .. n : tokens'[i] = tokens[i]
      /\ tokens' \in Seq(T \cup {t})
  BY <1>2, <1>7, Appended
<1>9. Held'
  <2>1. \A i \in 1 .. n + 1 : Len(Spelling(tokens'[i])) \in Nat
    <3> TAKE i \in 1 .. n + 1
    <3>1. CASE i = n + 1 BY <3>1, <1>0, <1>4, <1>8
    <3>2. CASE i \in 1 .. n BY <3>2, <1>8 DEF IInv, Held
    <3> QED BY <3>1, <3>2, <1>8
  <2>2. position' \in Nat BY <1>0
  <2>3. input' \in Seq(STRING) /\ ~performedAnalysis' BY <1>0, <1>1 DEF IInv, Held
  <2> QED BY <2>1, <2>2, <2>3, <1>8 DEF Held, Spelling
<1>10. TypeOK'
  <2>1. position' \in 0 .. (IF performedAnalysis' THEN Len(tokens') ELSE Len(input'))
    BY <1>0, <1>1
  <2>2. \A i \in 1 .. n + 1 : tokens'[i].at \in 0 .. Len(input)
    BY <1>0, <1>3, <1>8, Running DEF IInv, TypeOK
  <2>3. result' \in {"none", "NO_ERR", "LEXAR_UNKNOWN_CHARACTER",
                     "LEXAR_PERFORMED_ANALYSIS"}
        /\ refused' \subseteq 0 .. Len(input') - 1
    BY <1>1 DEF IInv, TypeOK
  <2>4. performedAnalysis' \in BOOLEAN /\ lexing' \in BOOLEAN
    BY <1>1 DEF IInv, TypeOK
  <2> QED BY <2>1, <2>2, <2>3, <2>4, <1>1, <1>8 DEF TypeOK
<1>11. HandsOver'
  <2>1. \A i \in 1 .. n : tokens[i].type # "END_OF_FILE"
    BY <1>0, <1>8 DEF IInv, HandsOver
  <2>2. \A i \in 1 .. n + 1 : tokens'[i].type # "END_OF_FILE" BY <2>1, <1>3, <1>8
  <2> QED BY <2>2, <1>0, <1>1, <1>8 DEF HandsOver
<1> QED BY <1>6, <1>9, <1>10, <1>11 DEF IInv

Brackets == {Bracket[type] : type \in DOMAIN Bracket}

LEMMA BracketChars == Brackets \subseteq {"(", ")", "[", "]", "{", "}"}
<1>1. DOMAIN Bracket = {"OPEN_PAREN", "CLOSE_PAREN", "OPEN_BRACKET",
                        "CLOSE_BRACKET", "OPEN_BRACE", "CLOSE_BRACE"}
  BY DEF Bracket
<1>2. /\ Bracket["OPEN_PAREN"] = "(" /\ Bracket["CLOSE_PAREN"] = ")"
      /\ Bracket["OPEN_BRACKET"] = "[" /\ Bracket["CLOSE_BRACKET"] = "]"
      /\ Bracket["OPEN_BRACE"] = "{" /\ Bracket["CLOSE_BRACE"] = "}"
  BY DEF Bracket
<1> QED BY <1>1, <1>2 DEF Brackets

LEMMA BracketHolds == ASSUME IInv, bracket PROVE IInv'
<1>0. lexing /\ CharAt(Here) \in Brackets BY DEF bracket, Reads, Brackets
<1>1. /\ position \in 0 .. Len(input) /\ Here \in Nat /\ Len(input) \in Nat
  BY <1>0, Running
<1>2. Brackets \cap (White \cup {NUL}) = {}
  <2>1. {"(", ")", "[", "]", "{", "}"} \cap (White \cup {NUL}) = {} BY DEF White, NUL
  <2> QED BY <2>1, BracketChars
<1>3. Here < Len(input) BY <1>0, <1>1, <1>2, CharAtText DEF IInv, Held
<1> DEFINE type == CHOOSE x \in DOMAIN Bracket : Bracket[x] = CharAt(Here)
<1>4. type \in DOMAIN Bracket
  <2>1. \E x \in DOMAIN Bracket : Bracket[x] = CharAt(Here) BY <1>0 DEF Brackets
  <2> QED BY <2>1
<1>5. type # "END_OF_FILE" /\ type # "OPERATOR"
  <2> HIDE DEF type
  <2>1. type \in {"OPEN_PAREN", "CLOSE_PAREN", "OPEN_BRACKET", "CLOSE_BRACKET",
                  "OPEN_BRACE", "CLOSE_BRACE"}
    BY <1>4 DEF Bracket
  <2> QED BY <2>1
<1>6. Context /\ Pushes(type, "UNKNOWN", Here + 1, 0) /\ position' = Here + 1
  BY DEF bracket
<1>7. Here + 1 \in Here .. Len(input) BY <1>1, <1>3
<1>8. \A p \in Here .. (Here + 1) - 1 : CharAt(p) \notin White BY <1>0, <1>1, <1>2
<1> HIDE DEF type
<1> QED BY <1>0, <1>5, <1>6, <1>7, <1>8, TextSpells, TurnHolds

\* A run of characters of S, from Here on.
LEMMA RunHolds ==
  ASSUME IInv, lexing, NEW S, S \cap (White \cup {NUL}) = {}, CharAt(Here) \in S,
         Context, NEW type, type # "END_OF_FILE", type # "OPERATOR",
         Pushes(type, "UNKNOWN", Behind(S, Here), 0), position' = Behind(S, Here)
  PROVE  IInv'
<1>1. Here \in 0 .. Len(input) BY Running
<1>2. /\ Behind(S, Here) \in Here .. Len(input)
      /\ \A r \in Here .. Behind(S, Here) - 1 : CharAt(r) \in S
  BY <1>1, BehindFinds DEF IInv, Held
<1>3. \A r \in Here .. Behind(S, Here) - 1 : CharAt(r) \notin White BY <1>2
<1> QED BY <1>2, <1>3, TextSpells, TurnHolds

LEMMA NumberHolds == ASSUME IInv, number PROVE IInv'
<1>1. Digits \cap (White \cup {NUL}) = {} BY DEF Digits, White, NUL
<1>2. "NUMBER" # "END_OF_FILE" /\ "NUMBER" # "OPERATOR" OBVIOUS
<1> QED BY <1>1, <1>2, RunHolds DEF number, Reads

LEMMA WordHolds == ASSUME IInv, word PROVE IInv'
<1> DEFINE type == TypeOfWord(SubSeq(input, Here + 1, Behind(Letters, Here)))
<1>1. Letters \cap (White \cup {NUL}) = {} BY DEF Letters, White, NUL
<1>2. \A k \in s_keywords : k[1] \in {"LET", "RETURN", "IF", "ELSE", "WHILE", "FUNCTION"}
  BY DEF s_keywords
<1>3. type \in {"LET", "RETURN", "IF", "ELSE", "WHILE", "FUNCTION", "IDENTIFIER"}
  BY <1>2 DEF TypeOfWord
<1>4. type # "END_OF_FILE" /\ type # "OPERATOR"
  <2> HIDE DEF type
  <2> QED BY <1>3
<1> HIDE DEF type
<1>5. /\ lexing /\ CharAt(Here) \in Letters /\ Context
      /\ Pushes(type, "UNKNOWN", Behind(Letters, Here), 0)
      /\ position' = Behind(Letters, Here)
  BY DEF word, Reads, type
<1> QED BY <1>1, <1>4, <1>5, RunHolds

\* The operator that is found is spelled with what is read for it.
LEMMA OperatorLength ==
  ASSUME IInv, identifyOperator
  PROVE  LET c == CharAt(Here)
             d == CharAt(Here + 1)
             length == IF d \in OperatorChars THEN 2 ELSE 1
             w == Spellings[OperatorFor(c, IF length = 2 THEN d ELSE NUL)]
         IN  /\ Len(w) = length /\ DOMAIN w = 1 .. length
             /\ w[1] = c /\ (length = 2 => w[2] = d)
<1> DEFINE c == CharAt(Here)
           d == CharAt(Here + 1)
           length == IF d \in OperatorChars THEN 2 ELSE 1
           operator == OperatorFor(c, IF length = 2 THEN d ELSE NUL)
           w == Spellings[operator]
<1>0. c \in OperatorChars /\ (length = 2 => Lines(c, d) # {})
  BY DEF identifyOperator, Reads
<1>4. Len(w) = length /\ DOMAIN w = 1 .. length /\ w[1] = c /\ (length = 2 => w[2] = d)
  <2>1. CASE d \in OperatorChars
    <3>1. Lines(c, d) # {} /\ d # NUL BY <2>1, <1>0, NoOperator
    <3>2. operator = OperatorFor(c, d) /\ length = 2 BY <2>1
    <3> HIDE DEF operator, c, d, length
    <3> QED BY <3>1, <3>2, OperatorSpelled
  <2>2. CASE d \notin OperatorChars
    <3>1. Lines(c, NUL) # {} BY <1>0, EveryAlone
    <3>2. operator = OperatorFor(c, NUL) /\ length = 1 BY <2>2
    <3> HIDE DEF operator, c, d, length
    <3> QED BY <3>1, <3>2, OperatorSpelled
  <2> QED BY <2>1, <2>2
<1> QED BY <1>4

LEMMA OperatorHolds == ASSUME IInv, identifyOperator PROVE IInv'
<1> DEFINE c == CharAt(Here)
           d == CharAt(Here + 1)
           length == IF d \in OperatorChars THEN 2 ELSE 1
           e == Here + length
           operator == OperatorFor(c, IF length = 2 THEN d ELSE NUL)
           w == Spellings[operator]
<1>0. /\ lexing /\ c \in OperatorChars /\ Context
      /\ length = 2 => Lines(c, d) # {}
      /\ Pushes("OPERATOR", operator, e, length - 1) /\ position' = e
  BY DEF identifyOperator, Reads
<1>1. Here \in Nat /\ Len(input) \in Nat BY <1>0, Running
<1>2. Here < Len(input) BY <1>0, <1>1, NoOperator, CharAtText DEF IInv, Held
<1>3. e \in Here .. Len(input)
  <2>1. d \in OperatorChars => Here + 1 < Len(input)
    BY <1>1, NoOperator, CharAtText DEF IInv, Held
  <2> QED BY <2>1, <1>1, <1>2
<1>4. Len(w) = length /\ DOMAIN w = 1 .. length /\ w[1] = c /\ (length = 2 => w[2] = d)
  BY OperatorLength
<1>5. \A p \in Here .. e - 1 : CharAt(p) = w[p - Here + 1] /\ CharAt(p) \notin White
  <2> TAKE p \in Here .. e - 1
  <2>1. p = Here \/ (p = Here + 1 /\ d \in OperatorChars) BY <1>1
  <2>2. CASE p = Here BY <2>2, <1>0, <1>1, <1>4, NoOperator
  <2>3. CASE p = Here + 1 /\ d \in OperatorChars
    <3>1. p - Here + 1 = 2 BY <2>3, <1>1
    <3> QED BY <3>1, <2>3, <1>4, NoOperator
  <2> QED BY <2>1, <2>2, <2>3
<1>6. Len(w) = e - Here /\ DOMAIN w = 1 .. e - Here BY <1>1, <1>4
<1>7. "OPERATOR" # "END_OF_FILE" OBVIOUS
<1> HIDE DEF operator, length, e
<1> QED BY <1>0, <1>3, <1>5, <1>6, <1>7, TurnHolds

LEMMA UnknownHolds == ASSUME IInv, unknownCharacter PROVE IInv'
<1>0. /\ lexing /\ CharAt(Here) # NUL /\ position' = Here + 1 /\ lexing' = FALSE
      /\ result' = "LEXAR_UNKNOWN_CHARACTER" /\ refused' = refused \cup {Here}
      /\ UNCHANGED <<input, tokens, performedAnalysis, cursor>>
  BY DEF unknownCharacter
<1>1. /\ ~performedAnalysis /\ Done = position /\ position \in 0 .. Len(input)
      /\ Here \in position .. Len(input) /\ Here \in Nat /\ Len(input) \in Nat
      /\ CharAt(Here) \notin White
      /\ \A r \in position .. Here - 1 : CharAt(r) \in White
  BY <1>0, Running
<1>2. Here < Len(input) BY <1>0, <1>1, CharAtText DEF IInv, Held
<1>3. Held' BY <1>0, <1>1 DEF IInv, Held, Spelling
<1>4. Done' = Here + 1 BY <1>0, <1>1 DEF Done
<1>5. RefusedBehind' BY <1>0, <1>1, <1>4 DEF IInv, RefusedBehind
<1>6. TypeOK'
  <2>1. position' \in 0 .. (IF performedAnalysis' THEN Len(tokens') ELSE Len(input'))
    BY <1>0, <1>1, <1>2
  <2>2. refused' \subseteq 0 .. Len(input') - 1 BY <1>0, <1>1, <1>2 DEF IInv, TypeOK
  <2>3. performedAnalysis' \in BOOLEAN /\ lexing' \in BOOLEAN
    BY <1>0 DEF IInv, TypeOK
  <2> QED BY <2>1, <2>2, <2>3, <1>0 DEF IInv, TypeOK
<1>7. HandsOver' BY <1>0, <1>1 DEF IInv, HandsOver
<1>8. \A i \in DOMAIN tokens : /\ tokens[i].at \in Nat /\ EndOf(tokens[i]) \in Nat
                               /\ EndOf(tokens[i]) <= position
  <2> TAKE i \in DOMAIN tokens
  <2>1. tokens[i].at \in Nat BY <1>1 DEF IInv, TypeOK
  <2>2. Len(Spelling(tokens[i])) \in Nat BY DEF IInv, Held
  <2>3. EndOf(tokens[i]) \in Nat BY <2>1, <2>2 DEF EndOf
  <2>4. EndOf(tokens[i]) <= position BY <1>1 DEF IInv, Tiled
  <2> QED BY <2>1, <2>3, <2>4
<1>9. ASSUME NEW p \in 0 .. Here
      PROVE  CharAt(p) \notin White /\ p \notin refused \cup {Here} <=>
               \E i \in DOMAIN tokens : tokens[i].at <= p /\ p < EndOf(tokens[i])
  <2>1. CASE p < position BY <2>1, <1>1 DEF IInv, Tiled
  <2>2. CASE position <= p
    <3>1. \A i \in DOMAIN tokens : ~ (p < EndOf(tokens[i])) BY <2>2, <1>1, <1>8
    <3>2. CharAt(p) \in White \/ p = Here BY <2>2, <1>1
    <3> QED BY <3>1, <3>2
  <2> QED BY <2>1, <2>2, <1>1
<1>10. \A i \in DOMAIN tokens : EndOf(tokens[i]) <= Here + 1 BY <1>1, <1>8
<1>11. Tiled'
  <2>1. (Here + 1) - 1 = Here BY <1>1
  <2>2. \A i \in DOMAIN tokens :
          /\ \A k \in DOMAIN Spelling(tokens[i]) :
               CharAt(tokens[i].at + k - 1) = Spelling(tokens[i])[k]
          /\ i > 1 => EndOf(tokens[i - 1]) <= tokens[i].at
    BY DEF IInv, Tiled
  <2> QED BY <2>1, <2>2, <1>0, <1>4, <1>9, <1>10 DEF Tiled, CharAt, EndOf, Spelling
<1> QED BY <1>3, <1>5, <1>6, <1>7, <1>11 DEF IInv

LEMMA FinishHolds == ASSUME IInv, finish PROVE IInv'
<1> DEFINE t == [type |-> "END_OF_FILE", operator |-> "UNKNOWN", text |-> <<>>,
                 line |-> Skipped.line, column |-> Skipped.column, at |-> Here]
           n == Len(tokens)
<1>0. /\ lexing /\ tokens' = Append(tokens, t) /\ position' = 0
      /\ performedAnalysis' = TRUE /\ lexing' = FALSE /\ result' = "NO_ERR"
      /\ input' = input /\ refused' = refused /\ UNCHANGED text
  BY DEF finish, Reads, PushesEnd, text
<1>1. /\ ~performedAnalysis /\ Here \in 0 .. Len(input) /\ Here \in Nat
      /\ Len(input) \in Nat
  BY <1>0, Running
<1>2. t.at = Here /\ t.type = "END_OF_FILE" OBVIOUS
<1>3. Spelling(t) = <<>> BY DEF Spelling
<1> HIDE DEF t
<1>4. PICK T : tokens \in Seq(T) BY DEF IInv, Held
<1>5. /\ n \in Nat /\ DOMAIN tokens = 1 .. n /\ DOMAIN tokens' = 1 .. n + 1
      /\ Len(tokens') = n + 1 /\ tokens'[n + 1] = t
      /\ \A i \in 1 .. n : tokens'[i] = tokens[i]
      /\ tokens' \in Seq(T \cup {t})
  BY <1>0, <1>4, Appended
<1>6. Done' = Here BY <1>0, <1>2, <1>5 DEF Done
<1>7. Tiled' /\ RefusedBehind'
  <2>1. Len(Spelling(t)) = Here - Here /\ DOMAIN Spelling(t) = 1 .. Here - Here
    BY <1>1, <1>3
  <2>2. Here \in Here .. Len(input) /\ Here .. Here - 1 = {} BY <1>1
  <2>3. \A p \in Here .. Here - 1 :
          CharAt(p) = Spelling(t)[p - Here + 1] /\ CharAt(p) \notin White
    BY <2>2
  <2> QED BY <2>1, <2>2, <2>3, <1>0, <1>2, <1>6, NextTile
<1>8. Held'
  <2>1. \A i \in 1 .. n + 1 : Len(Spelling(tokens'[i])) \in Nat
    <3> TAKE i \in 1 .. n + 1
    <3>1. CASE i = n + 1 BY <3>1, <1>3, <1>5
    <3>2. CASE i \in 1 .. n BY <3>2, <1>5 DEF IInv, Held
    <3> QED BY <3>1, <3>2, <1>5
  <2>2. input' \in Seq(STRING) BY <1>0 DEF IInv, Held
  <2> QED BY <2>1, <2>2, <1>0, <1>5 DEF Held, Spelling
<1>9. TypeOK'
  <2>1. \A i \in 1 .. n + 1 : tokens'[i].at \in 0 .. Len(input)
    BY <1>1, <1>2, <1>5 DEF IInv, TypeOK
  <2>2. refused' \subseteq 0 .. Len(input') - 1 BY <1>0 DEF IInv, TypeOK
  <2>3. position' \in 0 .. (IF performedAnalysis' THEN Len(tokens') ELSE Len(input'))
    BY <1>0, <1>5
  <2> QED BY <2>1, <2>2, <2>3, <1>0, <1>5 DEF TypeOK
<1>10. HandsOver'
  <2>1. \A i \in 1 .. n : tokens[i].type # "END_OF_FILE"
    BY <1>1, <1>5 DEF IInv, HandsOver
  <2>2. \A i \in 1 .. n + 1 : tokens'[i].type = "END_OF_FILE" <=> i = n + 1
    BY <2>1, <1>2, <1>5
  <2> QED BY <2>2, <1>0, <1>5 DEF HandsOver, IsInput
<1> QED BY <1>7, <1>8, <1>9, <1>10 DEF IInv

-----------------------------------------------------------------------------
(* The client's calls, and the theorems.                                   *)

LEMMA LexHolds == ASSUME IInv, lex PROVE IInv'
<1>1. /\ UNCHANGED <<input, refused, position, tokens, performedAnalysis>>
      /\ ~lexing
  BY DEF lex, text
<1>2. \/ performedAnalysis /\ lexing' = lexing /\ result' = "LEXAR_PERFORMED_ANALYSIS"
      \/ ~performedAnalysis /\ lexing' = TRUE /\ result' = result
  BY DEF lex
<1>3. Held' BY <1>1, <1>2 DEF IInv, Held, Spelling
<1>4. TypeOK'
  <2>1. performedAnalysis' \in BOOLEAN /\ lexing' \in BOOLEAN
    BY <1>1, <1>2 DEF IInv, TypeOK
  <2> QED BY <2>1, <1>1, <1>2 DEF IInv, TypeOK
<1>5. Done' = Done BY <1>1 DEF Done
<1>6. RefusedBehind' BY <1>1, <1>5 DEF IInv, RefusedBehind
<1>7. Tiled' BY <1>1, <1>5 DEF IInv, Tiled, CharAt, EndOf, Spelling
<1>8. HandsOver' BY <1>1 DEF IInv, HandsOver, IsInput
<1> QED BY <1>3, <1>4, <1>6, <1>7, <1>8 DEF IInv

LEMMA PopHolds == ASSUME IInv, pop PROVE IInv'
<1>1. /\ UNCHANGED <<input, refused, tokens, performedAnalysis, lexing, result>>
      /\ performedAnalysis /\ position < Len(tokens) /\ position' = position + 1
  BY DEF pop, text
<1>2. Held' BY <1>1 DEF IInv, Held, Spelling
<1>3. TypeOK'
  <2>1. position' \in 0 .. (IF performedAnalysis' THEN Len(tokens') ELSE Len(input'))
    BY <1>1 DEF IInv, Held
  <2> QED BY <2>1, <1>1 DEF IInv, TypeOK
<1>4. Done' = Done BY <1>1 DEF Done
<1>5. RefusedBehind' BY <1>1, <1>4 DEF IInv, RefusedBehind
<1>6. Tiled' BY <1>1, <1>4 DEF IInv, Tiled, CharAt, EndOf, Spelling
<1>7. HandsOver' BY <1>1 DEF IInv, HandsOver, IsInput
<1> QED BY <1>2, <1>3, <1>5, <1>6, <1>7 DEF IInv

LEMMA StutterHolds == ASSUME IInv, UNCHANGED vars PROVE IInv'
<1>1. /\ UNCHANGED <<input, refused, position, tokens, performedAnalysis>>
      /\ UNCHANGED <<lexing, result>>
  BY DEF vars, text
<1>2. Held' BY <1>1 DEF IInv, Held, Spelling
<1>3. TypeOK' BY <1>1 DEF IInv, TypeOK
<1>4. Done' = Done BY <1>1 DEF Done
<1>5. RefusedBehind' BY <1>1, <1>4 DEF IInv, RefusedBehind
<1>6. Tiled' BY <1>1, <1>4 DEF IInv, Tiled, CharAt, EndOf, Spelling
<1>7. HandsOver' BY <1>1 DEF IInv, HandsOver, IsInput
<1> QED BY <1>2, <1>3, <1>5, <1>6, <1>7 DEF IInv

LEMMA StepHolds == ASSUME IInv, [Next]_vars PROVE IInv'
BY BracketHolds, NumberHolds, WordHolds, OperatorHolds, UnknownHolds, FinishHolds,
   LexHolds, PopHolds, StutterHolds
   DEF Next, turn

LEMMA Invariance == Spec => []IInv
<1>1. Init => IInv BY InitHolds
<1>2. IInv /\ [Next]_vars => IInv' BY StepHolds
<1> QED BY <1>1, <1>2, PTL DEF Spec

\* The lexar's state is well formed whatever the text and the calls: its
\* position never leaves the text, nor later the tokens (lexar.cpp:100-241).
THEOREM LexarTypeCorrect == Spec => []TypeOK
<1>1. IInv => TypeOK BY DEF IInv
<1> QED BY <1>1, Invariance, PTL

\* For every text the tokens, white space and refused characters tile what has
\* been read: lex loses no character and reads none twice, in any order of
\* failed and repeated calls, and <<= is read as << and = (lexar.cpp:100-205,
\* 263-286).
THEOREM TilesText == Spec => []Tiled
<1>1. IInv => Tiled BY DEF IInv
<1> QED BY <1>1, Invariance, PTL

\* What the parser assumes of the tokens holds once the analysis is performed
\* (lexar.cpp:199-204).
THEOREM HandsOverInput == Spec => []HandsOver
<1>1. IInv => HandsOver BY DEF IInv
<1> QED BY <1>1, Invariance, PTL

\* No call changes the tokens of a performed analysis or moves back in them
\* (lexar.cpp:102, 201-202).
THEOREM AnalysisIsFinal == Spec => AnalysedOnce
<1>1. ASSUME IInv, [Next]_vars
      PROVE  [performedAnalysis =>
                /\ UNCHANGED <<tokens, performedAnalysis>>
                /\ position' >= position]_vars
  <2> SUFFICES ASSUME Next, performedAnalysis
               PROVE  /\ UNCHANGED <<tokens, performedAnalysis>>
                      /\ position' >= position
    BY <1>1
  <2>1. ~lexing /\ position \in Nat BY <1>1 DEF IInv, Held
  <2>2. CASE lex BY <2>1, <2>2 DEF lex
  <2>3. CASE pop BY <2>1, <2>3 DEF pop
  <2>4. ~turn
    BY <2>1 DEF turn, bracket, number, word, identifyOperator, unknownCharacter,
                finish, Reads
  <2> QED BY <2>2, <2>3, <2>4 DEF Next
<1> QED BY <1>1, Invariance, PTL DEF Spec, AnalysedOnce

-----------------------------------------------------------------------------
(* No token could be longer, but for << and >> in front of =.              *)

\* What Longest says of a token.
LongestAt(t) ==
  /\ ~ (CharAt(t.at) \in Digits /\ CharAt(EndOf(t)) \in Digits)
  /\ ~ (CharAt(t.at) \in Letters /\ CharAt(EndOf(t)) \in Letters)
  /\ t.type = "OPERATOR" => ~ \E op \in DOMAIN Spellings :
       /\ Len(Spelling(t)) = 1 /\ Len(Spellings[op]) = 2
       /\ Spellings[op] = <<CharAt(t.at), CharAt(t.at + 1)>>

LEMMA LongestTokens == Longest <=> \A i \in DOMAIN tokens : LongestAt(tokens[i])
BY DEF Longest, LongestAt

LEMMA Apart ==
  /\ Digits \cap Letters = {}
  /\ \A c \in Brackets \cup OperatorChars \cup {NUL} : c \notin Digits \cup Letters
<1>1. Digits \cap Letters = {} /\ NUL \notin Digits \cup Letters
  BY DEF Digits, Letters, NUL
<1>2. \A c \in Brackets : c \notin Digits \cup Letters
  <2>1. {"(", ")", "[", "]", "{", "}"} \cap (Digits \cup Letters) = {}
    BY DEF Digits, Letters
  <2> QED BY <2>1, BracketChars
<1>3. \A c \in OperatorChars : c \notin Digits \cup Letters
  <2> DEFINE Chars == {"=", "!", "<", ">", "&", "|", "^", "%", "+", "-", "*", "/"}
  <2>1. \A i \in 1 .. 32 : s_operators[i][1] \in Chars BY DEF s_operators
  <2>2. Chars \cap (Digits \cup Letters) = {} BY DEF Digits, Letters
  <2> QED BY <2>1, <2>2, TableLines DEF OperatorChars
<1> QED BY <1>1, <1>2, <1>3

\* The second character of an operator begins an operator.
LEMMA SecondBegins ==
  ASSUME NEW op \in DOMAIN Spellings, Len(Spellings[op]) = 2
  PROVE  Spellings[op][2] \in OperatorChars
<1>1. {"=", "<", ">", "&", "|", "+", "-"} \subseteq OperatorChars
  <2>1. /\ s_operators[1][1] = "=" /\ s_operators[5][1] = "<"
        /\ s_operators[9][1] = ">" /\ s_operators[13][1] = "&"
        /\ s_operators[16][1] = "|" /\ s_operators[23][1] = "+"
        /\ s_operators[26][1] = "-"
    BY DEF s_operators
  <2> QED BY <2>1, TableLines DEF OperatorChars
<1>2. Spellings[op][2] \in {"=", "<", ">", "&", "|", "+", "-"} BY DEF Spellings
<1> QED BY <1>1, <1>2

LEMMA LongestPush ==
  ASSUME IInv, Longest, NEW t, tokens' = Append(tokens, t), input' = input,
         LongestAt(t)
  PROVE  Longest'
<1>1. PICK T : tokens \in Seq(T) BY DEF IInv, Held
<1> DEFINE n == Len(tokens)
<1>2. /\ n \in Nat /\ DOMAIN tokens = 1 .. n /\ DOMAIN tokens' = 1 .. n + 1
      /\ tokens'[n + 1] = t /\ \A i \in 1 .. n : tokens'[i] = tokens[i]
  BY <1>1, Appended
<1> HIDE DEF n
<1>3. \A i \in 1 .. n : LongestAt(tokens[i]) BY <1>2, LongestTokens
<1>4. \A i \in 1 .. n + 1 : i \in 1 .. n \/ i = n + 1 BY <1>2
<1>5. \A i \in DOMAIN tokens' : LongestAt(tokens'[i])
  <2> HIDE DEF LongestAt
  <2> QED BY <1>2, <1>3, <1>4
<1>6. \A x : LongestAt(x) => LongestAt(x)'
  BY DEF LongestAt, CharAt, EndOf, Spelling
<1> QED BY <1>5, <1>6 DEF Longest, LongestAt

\* A token that is no operator and ends where its kind of characters does.
LEMMA TextLongest ==
  ASSUME IInv, Longest, lexing, Context,
         NEW type, type # "OPERATOR", NEW operator, NEW first,
         NEW e \in Here .. Len(input), Pushes(type, operator, e, first),
         ~ (CharAt(Here) \in Digits /\ CharAt(e) \in Digits),
         ~ (CharAt(Here) \in Letters /\ CharAt(e) \in Letters)
  PROVE  Longest'
<1> DEFINE w == SubSeq(input, Here + 1, e)
           t == [type |-> type, operator |-> operator, text |-> w,
                 line |-> Skipped.line, column |-> Skipped.column + first,
                 at |-> Here]
<1>1. tokens' = Append(tokens, t) /\ input' = input BY DEF Pushes, Context, text
<1>2. t.at = Here /\ t.type # "OPERATOR" /\ Spelling(t) = w BY DEF Spelling
<1>3. Here \in Nat /\ e \in Nat /\ Len(w) = e - Here
  <2>1. Here \in Nat /\ Len(input) \in Nat BY Running
  <2> QED BY <2>1, TextSpells
<1> HIDE DEF w, t
<1>4. EndOf(t) = e BY <1>2, <1>3 DEF EndOf
<1>5. LongestAt(t) BY <1>2, <1>4 DEF LongestAt
<1> QED BY <1>1, <1>5, LongestPush

LEMMA OperatorLongest == ASSUME IInv, Longest, identifyOperator PROVE Longest'
<1> DEFINE c == CharAt(Here)
           d == CharAt(Here + 1)
           length == IF d \in OperatorChars THEN 2 ELSE 1
           operator == OperatorFor(c, IF length = 2 THEN d ELSE NUL)
           t == [type |-> "OPERATOR", operator |-> operator, text |-> <<>>,
                 line |-> Skipped.line, column |-> Skipped.column + (length - 1),
                 at |-> Here]
<1>1. c \in OperatorChars /\ tokens' = Append(tokens, t) /\ input' = input
  BY DEF identifyOperator, Reads, Pushes, Context, text
<1>2. t.at = Here /\ Spelling(t) = Spellings[operator] BY DEF Spelling
<1>3. Len(Spellings[operator]) = length BY OperatorLength
<1>4. c \notin Digits \cup Letters BY <1>1, Apart
<1>5. ASSUME NEW op \in DOMAIN Spellings, length = 1, Len(Spellings[op]) = 2,
             Spellings[op] = <<c, d>>
      PROVE  FALSE
  <2>1. Spellings[op][2] \in OperatorChars BY <1>5, SecondBegins
  <2>2. Spellings[op][2] = d BY <1>5
  <2> QED BY <1>5, <2>1, <2>2
<1> HIDE DEF t, operator, length
<1>6. LongestAt(t) BY <1>2, <1>3, <1>4, <1>5 DEF LongestAt
<1> QED BY <1>1, <1>6, LongestPush

LEMMA FinishLongest == ASSUME IInv, Longest, finish PROVE Longest'
<1> DEFINE t == [type |-> "END_OF_FILE", operator |-> "UNKNOWN", text |-> <<>>,
                 line |-> Skipped.line, column |-> Skipped.column, at |-> Here]
<1>1. tokens' = Append(tokens, t) /\ input' = input /\ CharAt(Here) = NUL
  BY DEF finish, Reads, PushesEnd, text
<1>2. t.at = Here /\ t.type # "OPERATOR" OBVIOUS
<1>3. NUL \notin Digits \cup Letters BY Apart
<1> HIDE DEF t
<1>4. LongestAt(t) BY <1>1, <1>2, <1>3 DEF LongestAt
<1> QED BY <1>1, <1>4, LongestPush

LEMMA RunLongest ==
  ASSUME IInv, Longest, lexing, Context, NEW S \in {Digits, Letters},
         CharAt(Here) \in S, NEW type, type # "OPERATOR",
         Pushes(type, "UNKNOWN", Behind(S, Here), 0)
  PROVE  Longest'
<1>1. Here \in 0 .. Len(input) BY Running
<1>2. NUL \notin S BY Apart
<1>3. Behind(S, Here) \in Here .. Len(input) /\ CharAt(Behind(S, Here)) \notin S
  BY <1>1, <1>2, BehindFinds DEF IInv, Held
<1> QED BY <1>3, Apart, TextLongest

LEMMA LongestStep == ASSUME IInv, Longest, [Next]_vars PROVE Longest'
<1>1. CASE bracket
  <2> DEFINE type == CHOOSE x \in DOMAIN Bracket : Bracket[x] = CharAt(Here)
  <2>1. /\ lexing /\ CharAt(Here) \in Brackets /\ Context
        /\ Pushes(type, "UNKNOWN", Here + 1, 0)
    BY <1>1 DEF bracket, Reads, Brackets
  <2>2. type # "OPERATOR"
    <3>1. \E x \in DOMAIN Bracket : Bracket[x] = CharAt(Here)
      BY <2>1 DEF Brackets
    <3>2. type \in DOMAIN Bracket BY <3>1
    <3> HIDE DEF type
    <3> QED BY <3>2 DEF Bracket
  <2> HIDE DEF type
  <2>3. Here + 1 \in Here .. Len(input)
    <3>1. Here \in 0 .. Len(input) /\ Len(input) \in Nat BY <2>1, Running
    <3>2. NUL \notin Brackets BY BracketChars DEF NUL
    <3>3. Here < Len(input) BY <2>1, <3>1, <3>2, CharAtText DEF IInv, Held
    <3> QED BY <3>1, <3>3
  <2> QED BY <2>1, <2>2, <2>3, Apart, TextLongest
<1>2. CASE number
  BY <1>2, RunLongest DEF number, Reads
<1>3. CASE word
  <2> DEFINE type == TypeOfWord(SubSeq(input, Here + 1, Behind(Letters, Here)))
  <2>1. \A k \in s_keywords : k[1] # "OPERATOR" BY DEF s_keywords
  <2>2. type # "OPERATOR" BY <2>1 DEF TypeOfWord
  <2>3. /\ lexing /\ CharAt(Here) \in Letters /\ Context
        /\ Pushes(type, "UNKNOWN", Behind(Letters, Here), 0)
    BY <1>3 DEF word, Reads
  <2> HIDE DEF type
  <2> QED BY <2>2, <2>3, RunLongest
<1>4. CASE identifyOperator BY <1>4, OperatorLongest
<1>5. CASE finish BY <1>5, FinishLongest
<1>6. CASE UNCHANGED <<input, tokens>>
  BY <1>6 DEF Longest, CharAt, EndOf, Spelling
<1>7. unknownCharacter \/ lex \/ pop \/ UNCHANGED vars => UNCHANGED <<input, tokens>>
  BY DEF unknownCharacter, lex, pop, vars, text
<1> QED BY <1>1, <1>2, <1>3, <1>4, <1>5, <1>6, <1>7 DEF Next, turn

\* For every text of ASCII characters a token is as long as it can be: the
\* character behind a word or a number, read and put back, is none of it, and an
\* operator is followed by no character that makes it another of the table, but
\* for << and >> in front of = (lexar.cpp:136-205, 263-286).
THEOREM TokensLongest == Spec => []Longest
<1>1. Init => Longest
  <2>1. Init => DOMAIN tokens = {} BY DEF Init
  <2> QED BY <2>1 DEF Longest
<1>2. IInv /\ Longest /\ [Next]_vars => Longest' BY LongestStep
<1> QED BY <1>1, <1>2, Invariance, PTL DEF Spec

-----------------------------------------------------------------------------
(* Lines and columns.  Located is not inductive: it needs the cursor to be *)
(* where the position is while lex runs, and a first lex to start at 0.    *)

Breaks(p) == {q \in 0 .. p - 1 : CharAt(q) = "\n"}

\* Offset p is on this line and in this column.
PlacedAt(p, line, column) ==
  /\ line = 1 + Cardinality(Breaks(p))
  /\ p - column \in Breaks(p) \cup {-1}
  /\ \A q \in Breaks(p) : q <= p - column

\* What Located says of a token.
TokenPlaced(t) ==
  PlacedAt(t.at + IF t.type = "OPERATOR" THEN Len(Spelling(t)) - 1 ELSE 0,
           t.line, t.column)

CursorOK ==
  /\ cursor \in [line : Int, column : Int]
  /\ refused = {} /\ ~performedAnalysis =>
       IF lexing THEN PlacedAt(position, cursor.line, cursor.column)
       ELSE position = 0

CInv == CursorOK /\ Located

LEMMA LocatedTokens ==
  Located <=> (refused = {} => \A i \in DOMAIN tokens : TokenPlaced(tokens[i]))
BY DEF Located, TokenPlaced, PlacedAt, Breaks

LEMMA BreaksFinite ==
  ASSUME NEW p \in Nat
  PROVE  IsFiniteSet(Breaks(p)) /\ Cardinality(Breaks(p)) \in Nat
<1>1. IsFiniteSet(0 .. p - 1) BY FS_Interval
<1>2. Breaks(p) \subseteq 0 .. p - 1 BY DEF Breaks
<1>3. IsFiniteSet(Breaks(p)) BY <1>1, <1>2, FS_Subset
<1> QED BY <1>3, FS_CardinalityType

\* A set of numbers below a bound that is not empty has a greatest one.
LEMMA Greatest ==
  ASSUME NEW n \in Nat, NEW S, S \subseteq 0 .. n, S # {}
  PROVE  \E m \in S : \A k \in S : k <= m
<1> DEFINE T == {n - k : k \in S}
<1>1. T \subseteq Nat /\ T # {}
  <2>1. \A k \in S : n - k \in Nat OBVIOUS
  <2> QED BY <2>1
<1>2. PICK t \in T : \A k \in T : t <= k BY <1>1, Least
<1>3. PICK m \in S : t = n - m BY <1>2
<1>4. ASSUME NEW k \in S PROVE k <= m
  <2>1. n - m <= n - k BY <1>2, <1>3
  <2> QED BY <2>1
<1> QED BY <1>4

\* Behind characters that are no line break the line is the same.
LEMMA Along ==
  ASSUME NEW p \in Nat, NEW e \in Nat, p <= e, NEW line, NEW column \in Int,
         PlacedAt(p, line, column), \A q \in p .. e - 1 : CharAt(q) # "\n"
  PROVE  PlacedAt(e, line, column + (e - p))
<1>1. Breaks(e) = Breaks(p) BY DEF Breaks
<1>2. e - (column + (e - p)) = p - column OBVIOUS
<1> QED BY <1>1, <1>2 DEF PlacedAt

\* skipWhiteSpaces keeps the cursor where the position is.
LEMMA SkipPlaced ==
  ASSUME IInv, lexing, cursor \in [line : Int, column : Int]
  PROVE  /\ Skipped \in [line : Int, column : Int]
         /\ PlacedAt(position, cursor.line, cursor.column) =>
              PlacedAt(Here, Skipped.line, Skipped.column)
<1> DEFINE breaks == {q \in position .. Here - 1 : CharAt(q) = "\n"}
           last == CHOOSE q \in breaks : \A r \in breaks : r <= q
<1>1. position \in Nat /\ Here \in Nat /\ position <= Here BY Running
<1>2. /\ Breaks(Here) = Breaks(position) \cup breaks
      /\ Breaks(position) \cap breaks = {}
      /\ \A q \in Breaks(position) : q \in Nat /\ q < position
      /\ \A q \in breaks : q \in Nat /\ q >= position
  BY <1>1 DEF Breaks
<1>3. IsFiniteSet(breaks) /\ Cardinality(breaks) \in Nat
  <2>1. IsFiniteSet(position .. Here - 1) BY <1>1, FS_Interval
  <2>2. IsFiniteSet(breaks) BY <2>1, FS_Subset
  <2> QED BY <2>2, FS_CardinalityType
<1>4. IsFiniteSet(Breaks(position)) /\ Cardinality(Breaks(position)) \in Nat
  BY <1>1, BreaksFinite
<1> HIDE DEF breaks
<1>5. Cardinality(Breaks(Here)) = Cardinality(Breaks(position)) + Cardinality(breaks)
  <2>1. Cardinality(Breaks(position) \cup breaks) =
          Cardinality(Breaks(position)) + Cardinality(breaks)
            - Cardinality(Breaks(position) \cap breaks)
    BY <1>3, <1>4, FS_Union
  <2>2. Cardinality(Breaks(position) \cap breaks) = 0 BY <1>2, FS_EmptySet
  <2> QED BY <1>2, <1>3, <1>4, <2>1, <2>2
<1>6. CASE breaks = {}
  <2>1. Skipped = [cursor EXCEPT !.column = @ + (Here - position)]
    BY <1>6 DEF Skipped, breaks
  <2>2. /\ Skipped \in [line : Int, column : Int]
        /\ Skipped.line = cursor.line
        /\ Skipped.column = cursor.column + (Here - position)
    BY <1>1, <2>1
  <2>3. \A q \in position .. Here - 1 : CharAt(q) # "\n" BY <1>6 DEF breaks
  <2>4. cursor.column \in Int OBVIOUS
  <2> QED BY <1>1, <2>2, <2>3, <2>4, Along
<1>7. CASE breaks # {}
  <2>1. last \in breaks /\ \A r \in breaks : r <= last
    <3>1. breaks \subseteq 0 .. Here BY <1>1 DEF breaks
    <3>2. \E m \in breaks : \A k \in breaks : k <= m
      BY <1>1, <1>7, <3>1, Greatest
    <3> QED BY <3>2
  <2>2. Skipped = [line |-> cursor.line + Cardinality(breaks), column |-> Here - last]
    BY <1>7 DEF Skipped, breaks
  <2> HIDE DEF last
  <2>3. /\ Skipped \in [line : Int, column : Int]
        /\ Skipped.line = cursor.line + Cardinality(breaks)
        /\ Skipped.column = Here - last
    BY <1>1, <1>2, <1>3, <2>1, <2>2
  <2>4. Here - Skipped.column = last BY <1>1, <1>2, <2>1, <2>3
  <2>5. \A q \in Breaks(Here) : q <= last BY <1>1, <1>2, <2>1
  <2>6. ASSUME PlacedAt(position, cursor.line, cursor.column)
        PROVE  PlacedAt(Here, Skipped.line, Skipped.column)
    <3>1. cursor.line = 1 + Cardinality(Breaks(position)) BY <2>6 DEF PlacedAt
    <3>2. Skipped.line = 1 + Cardinality(Breaks(Here))
      BY <1>3, <1>4, <1>5, <2>3, <3>1
    <3> QED BY <1>2, <2>1, <2>4, <2>5, <3>2 DEF PlacedAt
  <2> QED BY <2>3, <2>6
<1> QED BY <1>6, <1>7

LEMMA PlacedPush ==
  ASSUME IInv, Located, NEW t, tokens' = Append(tokens, t), UNCHANGED text,
         refused = {} => TokenPlaced(t)
  PROVE  Located'
<1>1. PICK T : tokens \in Seq(T) BY DEF IInv, Held
<1> DEFINE n == Len(tokens)
<1>2. /\ n \in Nat /\ DOMAIN tokens = 1 .. n /\ DOMAIN tokens' = 1 .. n + 1
      /\ tokens'[n + 1] = t /\ \A i \in 1 .. n : tokens'[i] = tokens[i]
  BY <1>1, Appended
<1> HIDE DEF n
<1>3. \A i \in 1 .. n + 1 : i \in 1 .. n \/ i = n + 1 BY <1>2
<1>4. refused = {} => \A i \in DOMAIN tokens' : TokenPlaced(tokens'[i])
  <2> HIDE DEF TokenPlaced
  <2> QED BY <1>2, <1>3, LocatedTokens
<1>5. input' = input /\ refused' = refused BY DEF text
<1>6. \A x : TokenPlaced(x) => TokenPlaced(x)'
  BY <1>5 DEF TokenPlaced, PlacedAt, Breaks, CharAt, Spelling
<1> QED BY <1>4, <1>5, <1>6 DEF Located, TokenPlaced, PlacedAt, Breaks

\* A turn that pushes a token and goes behind it.
LEMMA TurnPlaces ==
  ASSUME IInv, CInv, lexing, Context,
         NEW type, NEW operator, NEW e \in Here .. Len(input),
         NEW first \in 0 .. e - Here, Pushes(type, operator, e, first),
         position' = e,
         first = IF type = "OPERATOR" THEN Len(Spellings[operator]) - 1 ELSE 0,
         \A p \in Here .. e - 1 : CharAt(p) \notin White
  PROVE  CInv'
<1> DEFINE t == [type |-> type, operator |-> operator,
                 text |-> IF type = "OPERATOR" THEN <<>> ELSE SubSeq(input, Here + 1, e),
                 line |-> Skipped.line, column |-> Skipped.column + first,
                 at |-> Here]
           line == Skipped.line
           column == Skipped.column
           placed == refused = {}
<1>1. /\ ~performedAnalysis /\ Here \in Nat /\ Len(input) \in Nat /\ e \in Nat
      /\ first \in Nat /\ Here + first \in Nat /\ Here + first <= e /\ Here <= e
  <2>1. ~performedAnalysis /\ Here \in Nat /\ Len(input) \in Nat BY Running
  <2> QED BY <2>1
<1>2. /\ tokens' = Append(tokens, t) /\ UNCHANGED text
      /\ cursor' = [Skipped EXCEPT !.column = @ + (e - Here)]
      /\ UNCHANGED <<performedAnalysis, lexing>>
  BY DEF Pushes, Context
<1>3. /\ Skipped \in [line : Int, column : Int] /\ column \in Int
      /\ placed => PlacedAt(Here, line, column)
  BY <1>1, SkipPlaced DEF CInv, CursorOK
<1>4. "\n" \in White BY DEF White
<1>5. placed => PlacedAt(Here + first, line, column + first)
  <2>1. \A q \in Here .. (Here + first) - 1 : CharAt(q) # "\n" BY <1>1, <1>4
  <2>2. (Here + first) - Here = first /\ Here <= Here + first BY <1>1
  <2> HIDE DEF line, column
  <2>3. placed => PlacedAt(Here + first, line, column + ((Here + first) - Here))
    BY <1>1, <1>3, <2>1, <2>2, Along
  <2> QED BY <2>2, <2>3
<1>6. placed => PlacedAt(e, line, column + (e - Here))
  <2>1. \A q \in Here .. e - 1 : CharAt(q) # "\n" BY <1>4
  <2> HIDE DEF line, column
  <2> QED BY <1>1, <1>3, <2>1, Along
<1>7. Located'
  <2>1. /\ t.at = Here /\ t.type = type /\ t.line = line /\ t.column = column + first
        /\ type = "OPERATOR" => Spelling(t) = Spellings[operator]
    BY DEF Spelling
  <2> HIDE DEF t, line, column
  <2>2. placed => TokenPlaced(t) BY <1>5, <2>1 DEF TokenPlaced
  <2> QED BY <1>2, <2>2, PlacedPush DEF CInv
<1>8. /\ cursor' \in [line : Int, column : Int]
      /\ cursor'.line = line /\ cursor'.column = column + (e - Here)
  <2> DEFINE k == e - Here
             s == Skipped
  <2>1. k \in Int /\ s \in [line : Int, column : Int] BY <1>1, <1>3
  <2>2. cursor' = [s EXCEPT !.column = @ + k] BY <1>2
  <2> HIDE DEF k, s
  <2>3. /\ cursor' \in [line : Int, column : Int]
        /\ cursor'.line = s.line /\ cursor'.column = s.column + k
    BY <2>1, <2>2
  <2> QED BY <2>3 DEF k, s
<1>9. CursorOK'
  <2>1. input' = input /\ refused' = refused BY <1>2 DEF text
  <2>2. PlacedAt(e, line, column + (e - Here)) =>
          PlacedAt(position, cursor.line, cursor.column)'
    BY <1>8, <2>1 DEF PlacedAt, Breaks, CharAt
  <2> HIDE DEF line, column
  <2> QED BY <1>1, <1>2, <1>6, <1>8, <2>1, <2>2 DEF CursorOK
<1> QED BY <1>7, <1>9 DEF CInv

LEMMA RunPlaces ==
  ASSUME IInv, CInv, lexing, Context, NEW S, S \cap (White \cup {NUL}) = {},
         CharAt(Here) \in S, NEW type, type # "OPERATOR",
         Pushes(type, "UNKNOWN", Behind(S, Here), 0), position' = Behind(S, Here)
  PROVE  CInv'
<1>1. Here \in 0 .. Len(input) /\ Len(input) \in Nat BY Running
<1>2. /\ Behind(S, Here) \in Here .. Len(input)
      /\ \A r \in Here .. Behind(S, Here) - 1 : CharAt(r) \in S
  BY <1>1, BehindFinds DEF IInv, Held
<1>3. \A r \in Here .. Behind(S, Here) - 1 : CharAt(r) \notin White BY <1>2
<1>4. 0 \in 0 .. Behind(S, Here) - Here
  <2> DEFINE e == Behind(S, Here)
  <2> HIDE DEF e
  <2>1. e \in Here .. Len(input) BY <1>2 DEF e
  <2>2. 0 \in 0 .. e - Here BY <1>1, <2>1
  <2> QED BY <2>2 DEF e
<1> QED BY <1>2, <1>3, <1>4, TurnPlaces

LEMMA OperatorPlaces == ASSUME IInv, CInv, identifyOperator PROVE CInv'
<1> DEFINE c == CharAt(Here)
           d == CharAt(Here + 1)
           length == IF d \in OperatorChars THEN 2 ELSE 1
           e == Here + length
           operator == OperatorFor(c, IF length = 2 THEN d ELSE NUL)
<1>1. /\ lexing /\ c \in OperatorChars /\ Context
      /\ Pushes("OPERATOR", operator, e, length - 1) /\ position' = e
  BY DEF identifyOperator, Reads
<1>2. Here \in Nat /\ Len(input) \in Nat BY <1>1, Running
<1>3. e \in Here .. Len(input) /\ length - 1 \in 0 .. e - Here
  <2>1. Here < Len(input) BY <1>1, <1>2, NoOperator, CharAtText DEF IInv, Held
  <2>2. d \in OperatorChars => Here + 1 < Len(input)
    BY <1>2, NoOperator, CharAtText DEF IInv, Held
  <2> QED BY <1>2, <2>1, <2>2
<1>4. Len(Spellings[operator]) = length BY OperatorLength
<1>5. \A p \in Here .. e - 1 : CharAt(p) \notin White
  <2> TAKE p \in Here .. e - 1
  <2>1. p = Here \/ (p = Here + 1 /\ d \in OperatorChars) BY <1>2
  <2> QED BY <1>1, <2>1, NoOperator
<1> HIDE DEF operator, length, e
<1> QED BY <1>1, <1>3, <1>4, <1>5, TurnPlaces

LEMMA FinishPlaces == ASSUME IInv, CInv, finish PROVE CInv'
<1> DEFINE t == [type |-> "END_OF_FILE", operator |-> "UNKNOWN", text |-> <<>>,
                 line |-> Skipped.line, column |-> Skipped.column, at |-> Here]
<1>1. /\ lexing /\ tokens' = Append(tokens, t) /\ performedAnalysis' = TRUE
      /\ UNCHANGED text /\ cursor' = cursor
  BY DEF finish, Reads, PushesEnd
<1>2. ~performedAnalysis /\ Here \in Nat BY <1>1, Running
<1>3. refused = {} => PlacedAt(Here, Skipped.line, Skipped.column)
  BY <1>1, <1>2, SkipPlaced DEF CInv, CursorOK
<1>4. /\ t.at = Here /\ t.type # "OPERATOR" /\ t.line = Skipped.line
      /\ t.column = Skipped.column
  OBVIOUS
<1> HIDE DEF t
<1>5. Here + 0 = Here BY <1>2
<1>6. refused = {} => TokenPlaced(t) BY <1>3, <1>4, <1>5 DEF TokenPlaced
<1>7. Located' BY <1>1, <1>6, PlacedPush DEF CInv
<1>8. CursorOK' BY <1>1 DEF CInv, CursorOK
<1> QED BY <1>7, <1>8 DEF CInv

\* Steps that push nothing leave what is located.
LEMMA LocatedFrame ==
  ASSUME Located, UNCHANGED <<input, tokens>>, refused \subseteq refused'
  PROVE  Located'
<1>1. refused' = {} => refused = {} OBVIOUS
<1> QED BY ZenonT(60), <1>1 DEF Located, CharAt, Spelling

LEMMA PlacesStep == ASSUME IInv, CInv, [Next]_vars PROVE CInv'
<1>1. CASE bracket
  <2> DEFINE type == CHOOSE x \in DOMAIN Bracket : Bracket[x] = CharAt(Here)
  <2>1. /\ lexing /\ CharAt(Here) \in Brackets /\ Context
        /\ Pushes(type, "UNKNOWN", Here + 1, 0) /\ position' = Here + 1
    BY <1>1 DEF bracket, Reads, Brackets
  <2>2. type # "OPERATOR"
    <3>1. \E x \in DOMAIN Bracket : Bracket[x] = CharAt(Here)
      BY <2>1 DEF Brackets
    <3>2. type \in DOMAIN Bracket BY <3>1
    <3> HIDE DEF type
    <3> QED BY <3>2 DEF Bracket
  <2> HIDE DEF type
  <2>3. CharAt(Here) \notin White \cup {NUL}
    <3>1. {"(", ")", "[", "]", "{", "}"} \cap (White \cup {NUL}) = {} BY DEF White, NUL
    <3> QED BY <2>1, <3>1, BracketChars
  <2>4. Here \in Nat /\ Here + 1 \in Here .. Len(input) /\ 0 \in 0 .. (Here + 1) - Here
    <3>1. Here \in 0 .. Len(input) /\ Len(input) \in Nat BY <2>1, Running
    <3>2. Here < Len(input) BY <2>3, <3>1, CharAtText DEF IInv, Held
    <3> QED BY <3>1, <3>2
  <2>5. \A p \in Here .. (Here + 1) - 1 : CharAt(p) \notin White BY <2>3, <2>4
  <2> QED BY <2>1, <2>2, <2>4, <2>5, TurnPlaces
<1>2. CASE number
  <2>1. Digits \cap (White \cup {NUL}) = {} BY DEF Digits, White, NUL
  <2> QED BY <1>2, <2>1, RunPlaces DEF number, Reads
<1>3. CASE word
  <2> DEFINE type == TypeOfWord(SubSeq(input, Here + 1, Behind(Letters, Here)))
  <2>1. \A k \in s_keywords : k[1] # "OPERATOR" BY DEF s_keywords
  <2>2. type # "OPERATOR" BY <2>1 DEF TypeOfWord
  <2>3. /\ lexing /\ CharAt(Here) \in Letters /\ Context
        /\ Pushes(type, "UNKNOWN", Behind(Letters, Here), 0)
        /\ position' = Behind(Letters, Here)
    BY <1>3 DEF word, Reads
  <2>4. Letters \cap (White \cup {NUL}) = {} BY DEF Letters, White, NUL
  <2> HIDE DEF type
  <2> QED BY <2>2, <2>3, <2>4, RunPlaces
<1>4. CASE identifyOperator BY <1>4, OperatorPlaces
<1>5. CASE finish BY <1>5, FinishPlaces
<1>6. CASE unknownCharacter
  <2>1. /\ refused' = refused \cup {Here} /\ cursor' = cursor
        /\ UNCHANGED <<input, tokens>>
    BY <1>6 DEF unknownCharacter
  <2>2. refused' # {} /\ refused \subseteq refused' BY <2>1
  <2> QED BY <2>1, <2>2, LocatedFrame DEF CInv, CursorOK
<1>7. CASE lex
  <2>1. /\ ~lexing /\ UNCHANGED <<input, refused, position, tokens, performedAnalysis>>
    BY <1>7 DEF lex, text
  <2>2. Located' BY <2>1, LocatedFrame DEF CInv
  <2>3. CASE performedAnalysis
    <3>1. cursor' = cursor BY <1>7, <2>3 DEF lex
    <3> QED BY <2>1, <2>2, <2>3, <3>1 DEF CInv, CursorOK
  <2>4. CASE ~performedAnalysis
    <3>1. lexing' = TRUE /\ cursor' = [line |-> 1, column |-> 1]
      BY <1>7, <2>4 DEF lex
    <3>2. Breaks(0) = {} BY DEF Breaks
    <3>3. PlacedAt(0, 1, 1)
      <4>1. Cardinality(Breaks(0)) = 0 BY <3>2, FS_EmptySet
      <4> QED BY <3>2, <4>1 DEF PlacedAt
    <3>4. PlacedAt(0, 1, 1)' BY <2>1, <3>3 DEF PlacedAt, Breaks, CharAt
    <3>5. refused = {} => position' = 0 BY <2>1, <2>4 DEF CInv, CursorOK
    <3>6. cursor'.line = 1 /\ cursor'.column = 1 BY <3>1
    <3>7. refused' = {} => PlacedAt(position, cursor.line, cursor.column)'
      BY <2>1, <3>4, <3>5, <3>6 DEF PlacedAt, Breaks
    <3>8. CursorOK' BY <3>1, <3>7 DEF CursorOK
    <3> QED BY <2>2, <3>8 DEF CInv
  <2> QED BY <2>3, <2>4
<1>8. CASE pop
  <2>1. /\ performedAnalysis
        /\ UNCHANGED <<input, refused, tokens, performedAnalysis, cursor>>
    BY <1>8 DEF pop, text
  <2> QED BY <2>1, LocatedFrame DEF CInv, CursorOK
<1>9. CASE UNCHANGED vars
  <2>1. UNCHANGED <<input, refused, position, tokens, performedAnalysis, cursor, lexing>>
    BY <1>9 DEF vars, text
  <2>2. CursorOK'
    BY <2>1 DEF CInv, CursorOK, PlacedAt, Breaks, CharAt
  <2> QED BY <2>1, <2>2, LocatedFrame DEF CInv
<1> QED BY <1>1, <1>2, <1>3, <1>4, <1>5, <1>6, <1>7, <1>8, <1>9 DEF Next, turn

\* For every text the line and the column recorded for a token are those of
\* its first character, of an operator of two characters those of its second,
\* in spite of the characters that are read and put back: the cursor is moved
\* back and forth with the position (lexar.cpp:100-241).
THEOREM TokensLocated == Spec => []Located
<1>1. Init => CInv
  <2>1. Init => DOMAIN tokens = {} BY DEF Init
  <2> QED BY <2>1 DEF Init, CInv, CursorOK, Located
<1>2. IInv /\ CInv /\ [Next]_vars => CInv' BY PlacesStep
<1>3. CInv => Located BY DEF CInv
<1> QED BY <1>1, <1>2, <1>3, Invariance, PTL DEF Spec
=============================================================================
