----------------------------- MODULE ParserProofs -----------------------------
(***************************************************************************)
(* Proofs about the parser, for every sequence of at most 65535 tokens,    *)
(* behind which peek reads another token than pop: what it builds is a     *)
(* tree, its operators bind as they should, and it runs out of memory only *)
(* at a token that begins no statement.  And about the compiler, the       *)
(* parser before the code generator: what the one hands over is a tree the *)
(* other's invariant covers.                                               *)
(***************************************************************************)
EXTENDS Compiler, SequenceTheorems, TLAPS

-----------------------------------------------------------------------------
(* The invariant.  It types what the parser keeps (Kept) and the call      *)
(* stack (Stacked), relates an activation to those that wait for it        *)
(* (Nested), bounds the statements of a scope by the tokens that were read *)
(* (Progress), and says how tight a binding an activation hands back       *)
(* (Ordered).                                                              *)

\* What has a vector of statements.
Scopes == {"PROGRAM", "WHILE", "FUNCTION"}

\* The functions that read what their caller has peeked at.
KeywordOf == [
  parseReturnStatement   |-> "RETURN",
  parseLetStatement      |-> "LET",
  parseWhileStatement    |-> "WHILE",
  parseFunctionStatement |-> "FUNCTION",
  parseIdentifier        |-> "IDENTIFIER"]

Levels == DOMAIN OperatorsOf
Operators == UNION {OperatorsOf[level] : level \in Levels}

ParserFunctions ==
  Levels \cup DOMAIN KeywordOf \cup
  {"parseProgram", "parseScopeNode", "scopeLoop", "addStatement", "parseStatement",
   "makeReturn", "makeLet", "closeCondition", "endFunction", "operator",
   "makeBinary", "parsePrimaryExpression", "closeParen"}

Frames == [function : ParserFunctions, node : Nat,
           word : {""} \cup Names \cup Levels \cup Operators]

Loops == {"parseProgram", "scopeLoop"}
Fillers == {"parseProgram", "parseScopeNode", "scopeLoop", "addStatement"}

\* What a function takes its activation's node and word for.
Suits(a) ==
  /\ a.node \in 0 .. Len(nodes)
  /\ a.function \in Fillers \cup {"endFunction"} =>
       a.node # 0 /\ nodes[a.node].type \in Scopes
  /\ a.function = "makeLet" => a.word \in Names
  /\ a.function = "operator" => a.word \in Levels
  /\ a.function = "makeBinary" => a.word \in Operators

Kept ==
  /\ tokens \in Inputs
  /\ next \in 1 .. Len(tokens) + 1
  /\ nodes \in Seq(Generator!NodeOf(nodes))
  /\ value \in 0 .. Len(nodes)
  /\ status \in {"idle", "parsing", "parsed", "failed", "undefined", "exhausted",
                 "terminated"}
  /\ IF status = "idle" THEN nodes = <<>> /\ calls = <<>>
     ELSE Len(nodes) >= 1 /\ nodes[1].type = "PROGRAM"
  /\ grouped \in Seq(Nat)

Stacked == calls \in Seq(Frames) /\ \A i \in DOMAIN calls : Suits(calls[i])

\* A function that was promised a token is the innermost and has it; a loop
\* waits for the statement it asked for; an inner scope's node is newer.
Nested ==
  /\ \A i \in DOMAIN calls :
       /\ calls[i].function \in DOMAIN KeywordOf =>
            /\ i = 1 /\ error = "NO_ERR" /\ next <= Len(tokens)
            /\ tokens[next].type = KeywordOf[calls[i].function]
       /\ calls[i].function = "parseScopeNode" => i = 1
       /\ calls[i].function \in Loops /\ i # 1 =>
            calls[i - 1].function = "addStatement" /\ calls[i - 1].node = calls[i].node
  /\ \A i, j \in DOMAIN calls :
       i < j /\ calls[i].function \in Fillers /\ calls[j].function = "addStatement" =>
         calls[i].node > calls[j].node

-----------------------------------------------------------------------------
(* Statements and tokens.                                                  *)

Statements(n) == Len(nodes[n].body)

\* A scope's statements have read a token each, or the parser is stuck.
Counted(n) == Statements(n) <= next - 1 \/ Stray(tokens[next])

\* They have, and so has the one that is being parsed.
Ahead(n) == Statements(n) <= next - 2

NoKeyword(t) == t.type \notin {"RETURN", "LET", "WHILE", "FUNCTION"}
NoOperand(t) ==
  /\ NoKeyword(t)
  /\ t.type \notin {"NUMBER", "IDENTIFIER", "OPEN_PAREN"}
  /\ OperatorOf(t) \notin DOMAIN IncDecOf

Waits(i, level) == calls[i].function = "operator" /\ calls[i].word = level

\* Of the calls that calls[i] waits for, those from the k-th on are the operators
\* of a level and of the levels above it.
ComparisonFrom(k, i) == i = k + 1 /\ Waits(k, "parseComparisonExpression")
AddativeFrom(k, i) == ComparisonFrom(k + 1, i) /\ Waits(k, "parseAddativeExpression")
MultiplicativeFrom(k, i) ==
  AddativeFrom(k + 1, i) /\ Waits(k, "parseMultiplicativeExpression")

\* The statement that calls[i] waits for has read no token: it has only begun, ...
Begins(i) ==
  i = 2 /\ calls[1].function \in
             {"parseStatement"} \cup (DOMAIN KeywordOf \ {"parseIdentifier"})

\* ... or looks for its first operand, ...
Descends(i) ==
  LET f == calls[1].function
  IN  \/ i = 2 /\ f = "parseComparisonExpression"
      \/ f = "parseAddativeExpression" /\ ComparisonFrom(2, i)
      \/ f = "parseMultiplicativeExpression" /\ AddativeFrom(2, i)
      \/ f \in {"parsePrimaryExpression", "parseIdentifier"} /\ MultiplicativeFrom(2, i)

\* ... or found none, and looks for an operator behind it.
Ascends(i, op) ==
  \/ MultiplicativeFrom(1, i)
  \/ AddativeFrom(1, i) /\ op \notin OperatorsOf["parseMultiplicativeExpression"]
  \/ /\ ComparisonFrom(1, i)
     /\ op \notin OperatorsOf["parseMultiplicativeExpression"]
                    \cup OperatorsOf["parseAddativeExpression"]

Unread(i) ==
  LET t == tokens[next]
  IN  /\ error = "NO_ERR"
      /\ \/ Begins(i)
         \/ NoKeyword(t) /\ Descends(i)
         \/ NoOperand(t) /\ Ascends(i, OperatorOf(t))
         \/ i = 1 /\ Stray(t)

Progress ==
  /\ \A i \in DOMAIN calls :
       calls[i].function = "addStatement" =>
         Ahead(calls[i].node) \/ (Unread(i) /\ Counted(calls[i].node))
  /\ calls # <<>> /\ error = "NO_ERR"
       /\ calls[1].function \in Loops => Counted(calls[1].node)
  /\ calls # <<>> /\ calls[1].function = "parseScopeNode" => Statements(calls[1].node) = 0

-----------------------------------------------------------------------------
(* Operators.                                                              *)

\* How tight the operators of a level bind.
RankOf(op) ==
  CASE op \in OperatorsOf["parseMultiplicativeExpression"] -> 3
    [] op \in OperatorsOf["parseAddativeExpression"] -> 2
    [] OTHER -> 1

LevelRank(level) ==
  CASE level = "parseMultiplicativeExpression" -> 3
    [] level = "parseAddativeExpression" -> 2
    [] OTHER -> 1

\* How tight the expression an activation waits for must bind.
Expects(a) ==
  CASE a.function = "operator" -> LevelRank(a.word)
    [] a.function = "makeBinary" -> RankOf(a.word)
    [] OTHER -> 0

\* How tight the one it hands back binds.
Gives(a) ==
  CASE a.function \in Levels -> LevelRank(a.function) - 1
    [] a.function \in {"operator", "makeBinary"} -> Expects(a) - 1
    [] a.function \in {"parsePrimaryExpression", "parseIdentifier", "closeParen"} -> 3
    [] OTHER -> 0

Tightness(n) ==
  CASE n # 0 /\ nodes[n].type = "COMPARISON_EXPRESSION" -> 0
    [] n # 0 /\ nodes[n].type = "BINARY_EXPRESSION" -> RankOf(nodes[n].operator) - 1
    [] OTHER -> 3

Binds(n, rank) == n \in Range(grouped) \/ Tightness(n) >= rank

RankOfNode(n) == IF nodes[n].type = "COMPARISON_EXPRESSION" THEN 1
                 ELSE RankOf(nodes[n].operator)

Ordered ==
  /\ \A i \in DOMAIN calls :
       /\ i + 1 \in DOMAIN calls => Gives(calls[i]) >= Expects(calls[i + 1])
       /\ calls[i].function = "makeBinary" => Binds(calls[i].node, RankOf(calls[i].word))
  /\ calls # <<>> /\ error = "NO_ERR" => Binds(value, Expects(calls[1]))
  /\ \A n \in DOMAIN nodes :
       nodes[n].type \in {"BINARY_EXPRESSION", "COMPARISON_EXPRESSION"} =>
         Binds(nodes[n].left, RankOfNode(n)) /\ Binds(nodes[n].right, RankOfNode(n))

PInv == Kept /\ Stacked /\ Nested /\ Progress /\ Ordered

-----------------------------------------------------------------------------
(* The call stack.                                                         *)

\* Top is replaced by news.
LEMMA CallsShift ==
  ASSUME calls \in Seq(Frames), calls # <<>>, NEW news \in Seq(Frames), Calls(news)
  PROVE  LET k == Len(news)
             n == Len(calls)
         IN  /\ k \in Nat /\ n \in Nat /\ n >= 1 /\ DOMAIN news = 1 .. k
             /\ calls[1] = Top /\ Top \in Frames
             /\ DOMAIN calls = 1 .. n /\ DOMAIN calls' = 1 .. k + n - 1
             /\ calls' \in Seq(Frames)
             /\ \A i \in 1 .. k : calls'[i] = news[i]
             /\ \A i \in 2 .. n : calls'[i + (k - 1)] = calls[i]
             /\ \A i \in k + 1 .. k + n - 1 :
                  i - (k - 1) \in 2 .. n /\ calls'[i] = calls[i - (k - 1)]
<1> DEFINE k == Len(news)
           n == Len(calls)
           t == Tail(calls)
<1>1. /\ k \in Nat /\ DOMAIN news = 1 .. k
      /\ n \in Nat /\ n >= 1 /\ DOMAIN calls = 1 .. n
  BY LenProperties, EmptySeq
<1>2. /\ t \in Seq(Frames) /\ Len(t) = n - 1
      /\ \A i \in 1 .. n - 1 : t[i] = calls[i + 1]
  BY HeadTailProperties
<1>3. Top = calls[1] /\ Top \in Frames BY HeadTailProperties DEF Top
<1>4. calls' = news \o t BY DEF Calls
<1> HIDE DEF t
<1>5. /\ calls' \in Seq(Frames) /\ Len(calls') = k + (n - 1)
      /\ \A i \in 1 .. k + (n - 1) :
           calls'[i] = IF i <= k THEN news[i] ELSE t[i - k]
  <2> DEFINE c == news \o t
  <2>1. /\ c \in Seq(Frames) /\ Len(c) = k + Len(t)
        /\ \A i \in 1 .. k + Len(t) : c[i] = IF i <= k THEN news[i] ELSE t[i - k]
    BY <1>2, ConcatProperties
  <2> HIDE DEF c
  <2>2. calls' = c BY <1>4 DEF c
  <2> QED BY <1>2, <2>1, <2>2
<1>6. DOMAIN calls' = 1 .. k + n - 1 BY <1>1, <1>5, LenProperties
<1> HIDE DEF k, n
<1>7. \A i \in 1 .. k : calls'[i] = news[i] BY <1>1, <1>5
<1>8. ASSUME NEW i \in k + 1 .. k + n - 1
      PROVE  i - (k - 1) \in 2 .. n /\ calls'[i] = calls[i - (k - 1)]
  <2>1. /\ i - (k - 1) \in 2 .. n /\ i - k \in 1 .. n - 1
        /\ i \in 1 .. k + (n - 1) /\ ~(i <= k) /\ (i - k) + 1 = i - (k - 1)
    BY <1>1
  <2> QED BY <1>2, <1>5, <2>1
<1>9. ASSUME NEW i \in 2 .. n PROVE calls'[i + (k - 1)] = calls[i]
  <2>1. /\ i + (k - 1) \in k + 1 .. k + n - 1
        /\ (i + (k - 1)) - (k - 1) = i
    BY <1>1
  <2> QED BY <1>8, <2>1
<1> QED BY <1>1, <1>3, <1>5, <1>6, <1>7, <1>8, <1>9 DEF k, n

\* Nodes are added, and those there are stay, but for a scope's statements.
Grown ==
  /\ Len(nodes') \in Nat /\ Len(nodes) <= Len(nodes')
  /\ \A n \in 1 .. Len(nodes) :
       /\ nodes'[n].type = nodes[n].type
       /\ nodes[n].type \notin Scopes => nodes'[n] = nodes[n]

LEMMA NodesTyped ==
  ASSUME Kept
  PROVE  /\ Len(nodes) \in Nat /\ DOMAIN nodes = 1 .. Len(nodes)
         /\ \A n \in 1 .. Len(nodes) : nodes[n] \in Generator!NodeOf(nodes)
BY LenProperties, ElementOfSeq DEF Kept

LEMMA SuitsGrown ==
  ASSUME Len(nodes) \in Nat, Grown, NEW a \in Frames, Suits(a)
  PROVE  /\ a.node \in 0 .. Len(nodes')
         /\ a.function \in Fillers \cup {"endFunction"} =>
              a.node # 0 /\ nodes'[a.node].type \in Scopes
         /\ a.function = "makeLet" => a.word \in Names
         /\ a.function = "operator" => a.word \in Levels
         /\ a.function = "makeBinary" => a.word \in Operators
BY DEF Grown, Suits

\* What a step may put in the place of the innermost activation.
Replaces(news) ==
  /\ \A j \in DOMAIN news :
       /\ Suits(news[j])'
       /\ news[j].function \in DOMAIN KeywordOf =>
            /\ j = 1 /\ error' = "NO_ERR" /\ next' <= Len(tokens')
            /\ tokens'[next'].type = KeywordOf[news[j].function]
       /\ news[j].function = "parseScopeNode" => j = 1
       /\ news[j].function \in Loops /\ j # 1 =>
            news[j - 1].function = "addStatement" /\ news[j - 1].node = news[j].node
       /\ news[j].function \in Fillers =>
            \/ Top.function \in Fillers /\ news[j].node = Top.node
            \/ news[j].node > Len(nodes)
  /\ \A i, j \in DOMAIN news :
       i < j /\ news[i].function \in Fillers => news[j].function # "addStatement"
  /\ news = <<>> \/ Top.function # "addStatement"

LEMMA Shifted ==
  ASSUME NEW k \in Nat, NEW n \in Nat, NEW i \in k + 1 .. k + n - 1
  PROVE  i - (k - 1) \in 2 .. n /\ i = (i - (k - 1)) + (k - 1)
OBVIOUS

LEMMA NestedStep ==
  ASSUME Kept, Stacked, Nested, calls # <<>>, Grown,
         NEW news \in Seq(Frames), Calls(news), Replaces(news)
  PROVE  Stacked' /\ Nested'
<1> DEFINE k == Len(news)
           n == Len(calls)
           old(i) == i - (k - 1)
<1>1. /\ k \in Nat /\ n \in Nat /\ n >= 1 /\ DOMAIN news = 1 .. k
      /\ calls[1] = Top /\ Top \in Frames
      /\ DOMAIN calls = 1 .. n /\ DOMAIN calls' = 1 .. k + n - 1
      /\ calls' \in Seq(Frames)
      /\ \A i \in 1 .. k : calls'[i] = news[i]
      /\ \A i \in k + 1 .. k + n - 1 : old(i) \in 2 .. n /\ calls'[i] = calls[old(i)]
  BY CallsShift DEF Stacked
<1>2. k = 0 \/ Top.function # "addStatement"
  BY <1>1, EmptySeq DEF Replaces
<1>3. Len(nodes) \in Nat BY NodesTyped
<1>4. calls \in Seq(Frames) /\ \A i \in 1 .. n : calls[i] \in Frames /\ Suits(calls[i])
  BY <1>1, ElementOfSeq DEF Stacked
<1>5. \A i \in 1 .. n : calls[i].node \in 0 .. Len(nodes)
  BY <1>4 DEF Suits
<1> HIDE DEF k, n
<1>6. \A i \in 1 .. k + n - 1 : i \in 1 .. k \/ i \in k + 1 .. k + n - 1 BY <1>1
<1>7. ASSUME NEW i \in 1 .. k + n - 1 PROVE Suits(calls[i])'
  <2>1. CASE i \in 1 .. k BY <1>1, <2>1 DEF Replaces, Suits
  <2>2. CASE i \in k + 1 .. k + n - 1
    <3> DEFINE a == calls[old(i)]
    <3>1. a \in Frames /\ Suits(a) /\ calls'[i] = a BY <1>1, <1>4, <2>2
    <3> HIDE DEF a
    <3> QED BY <1>3, <3>1, SuitsGrown DEF Suits
  <2> QED BY <1>6, <2>1, <2>2
<1>8. ASSUME NEW i \in 1 .. k + n - 1
      PROVE  /\ calls'[i].function \in DOMAIN KeywordOf =>
                  /\ i = 1 /\ error' = "NO_ERR" /\ next' <= Len(tokens')
                  /\ tokens'[next'].type = KeywordOf[calls'[i].function]
             /\ calls'[i].function = "parseScopeNode" => i = 1
             /\ calls'[i].function \in Loops /\ i # 1 =>
                  /\ calls'[i - 1].function = "addStatement"
                  /\ calls'[i - 1].node = calls'[i].node
  <2>1. CASE i \in 1 .. k
    <3>1. i # 1 => i - 1 \in 1 .. k BY <2>1, <1>1
    <3> QED BY <1>1, <2>1, <3>1 DEF Replaces
  <2>2. CASE i \in k + 1 .. k + n - 1
    <3>0. /\ old(i) \in 2 .. n /\ calls'[i] = calls[old(i)]
          /\ i = old(i) + (k - 1)
      <4>1. old(i) \in 2 .. n /\ calls'[i] = calls[old(i)] BY <1>1, <2>2
      <4>2. i = old(i) + (k - 1) BY <1>1, <2>2, Shifted
      <4> QED BY <4>1, <4>2
    <3>1. PICK o \in 2 .. n : i = o + (k - 1) /\ calls'[i] = calls[o] BY <3>0
    <3>2. /\ calls'[i].function \notin DOMAIN KeywordOf
          /\ calls'[i].function # "parseScopeNode"
      <4>1. o \in DOMAIN calls /\ o # 1 BY <1>1
      <4> QED BY <3>1, <4>1 DEF Nested
    <3>3. ASSUME calls'[i].function \in Loops, i # 1
          PROVE  /\ calls'[i - 1].function = "addStatement"
                 /\ calls'[i - 1].node = calls'[i].node
      <4>1. o \in DOMAIN calls /\ o # 1 /\ calls[o].function \in Loops
        BY <1>1, <3>1, <3>3
      <4>2. /\ calls[o - 1].function = "addStatement"
            /\ calls[o - 1].node = calls[o].node
        BY <4>1 DEF Nested
      <4>3. o # 2
        <5> SUFFICES ASSUME o = 2 PROVE FALSE OBVIOUS
        <5>1. Top.function = "addStatement" BY <1>1, <4>2
        <5>2. k = 0 BY <1>2, <5>1
        <5> QED BY <3>1, <3>3, <5>2
      <4>4. i - 1 \in k + 1 .. k + n - 1 /\ (i - 1) - (k - 1) = o - 1
        BY <1>1, <3>1, <4>3
      <4>5. calls'[i - 1] = calls[o - 1] BY <1>1, <4>4
      <4> QED BY <3>1, <4>2, <4>5
    <3> QED BY <3>2, <3>3
  <2> QED BY <1>6, <2>1, <2>2
<1>9. ASSUME NEW i \in 1 .. k + n - 1, NEW j \in 1 .. k + n - 1, i < j,
             calls'[i].function \in Fillers, calls'[j].function = "addStatement"
      PROVE  calls'[i].node > calls'[j].node
  <2>1. CASE j \in 1 .. k
    <3>1. i \in 1 .. k BY <1>1, <1>9, <2>1
    <3> QED BY <1>1, <1>9, <2>1, <3>1 DEF Replaces
  <2>2. CASE j \in k + 1 .. k + n - 1
    <3>1. PICK p \in 2 .. n : j = p + (k - 1) /\ calls'[j] = calls[p] BY <1>1, <2>2
    <3>2. p \in DOMAIN calls /\ calls[p].function = "addStatement" /\ 1 < p
      BY <1>1, <1>9, <3>1
    <3>3. CASE i \in 1 .. k
      <4>1. CASE Top.function \in Fillers /\ calls'[i].node = Top.node
        <5>1. 1 \in DOMAIN calls /\ calls[1].function \in Fillers BY <1>1, <4>1
        <5>2. calls[1].node > calls[p].node BY <3>2, <5>1 DEF Nested
        <5> QED BY <1>1, <3>1, <4>1, <5>2
      <4>2. CASE calls'[i].node > Len(nodes)
        <5>1. calls'[j].node \in 0 .. Len(nodes) BY <1>5, <3>1
        <5>2. calls'[i] \in Frames BY <1>1, <3>3, ElementOfSeq DEF k
        <5>3. calls'[i].node \in Nat BY <5>2 DEF Frames
        <5> QED BY <1>3, <4>2, <5>1, <5>3
      <4> QED BY <1>1, <1>9, <3>3, <4>1, <4>2 DEF Replaces
    <3>4. CASE i \in k + 1 .. k + n - 1
      <4>1. PICK o \in 2 .. n : i = o + (k - 1) /\ calls'[i] = calls[o] BY <1>1, <3>4
      <4>2. o < p BY <1>1, <1>9, <3>1, <4>1
      <4>3. o \in DOMAIN calls /\ calls[o].function \in Fillers BY <1>1, <1>9, <4>1
      <4>4. calls[o].node > calls[p].node BY <3>2, <4>2, <4>3 DEF Nested
      <4> QED BY <3>1, <4>1, <4>4
    <3> QED BY <1>6, <3>3, <3>4
  <2> QED BY <1>6, <2>1, <2>2
<1> QED BY <1>1, <1>7, <1>8, <1>9 DEF Stacked, Nested

-----------------------------------------------------------------------------
(* How tight a binding is.                                                 *)

LEMMA Ranks ==
  /\ \A op : RankOf(op) \in 1 .. 3
  /\ \A level : LevelRank(level) \in 1 .. 3
  /\ \A a : Expects(a) \in 0 .. 3 /\ Gives(a) \in 0 .. 3
  /\ \A n : Tightness(n) \in 0 .. 3
<1>1. \A op : RankOf(op) \in 1 .. 3 BY DEF RankOf
<1>2. \A level : LevelRank(level) \in 1 .. 3 BY DEF LevelRank
<1>3. \A a : Expects(a) \in 0 .. 3 BY <1>1, <1>2 DEF Expects
<1>4. ASSUME NEW a PROVE Gives(a) \in 0 .. 3
  <2>1. a.function \in {"operator", "makeBinary"} => Expects(a) \in 1 .. 3
    BY <1>1, <1>2 DEF Expects
  <2> QED BY <1>2, <2>1 DEF Gives
<1>5. \A n : Tightness(n) \in 0 .. 3 BY <1>1 DEF Tightness
<1> QED BY <1>1, <1>2, <1>3, <1>4, <1>5

LEMMA BindsLess ==
  ASSUME NEW n, NEW r \in 0 .. 3, NEW s \in 0 .. r, Binds(n, r)
  PROVE  Binds(n, s)
BY Ranks DEF Binds

LEMMA BindsNothing == \A n : Binds(n, 0)
BY Ranks DEF Binds

\* What binds goes on to.
LEMMA BindsGrown ==
  ASSUME Len(nodes) \in Nat, Grown, Range(grouped) \subseteq Range(grouped'),
         NEW n \in 0 .. Len(nodes), NEW r \in 0 .. 3, Binds(n, r)
  PROVE  Binds(n, r)'
<1>1. Tightness(n)' = Tightness(n)
  BY DEF Tightness, Grown, Scopes
<1> QED BY <1>1 DEF Binds

IsBinary(n) == nodes[n].type \in {"BINARY_EXPRESSION", "COMPARISON_EXPRESSION"}

\* What a step may leave to bind.
Hands(news) ==
  /\ \A j \in DOMAIN news :
       /\ j + 1 \in DOMAIN news => Gives(news[j]) >= Expects(news[j + 1])
       /\ news[j].function = "makeBinary" => Binds(news[j].node, RankOf(news[j].word))'
  /\ news # <<>> => Gives(news[Len(news)]) >= Gives(Top)
  /\ \A r \in 0 .. 3 :
       /\ error' = "NO_ERR"
       /\ r = IF news = <<>> THEN Gives(Top) ELSE Expects(news[1])
       => Binds(value, r)'
  /\ \A n \in Len(nodes) + 1 .. Len(nodes') :
       IsBinary(n)' => /\ Binds(nodes[n].left, RankOfNode(n))'
                       /\ Binds(nodes[n].right, RankOfNode(n))'

LEMMA OrderedStep ==
  ASSUME Kept, Stacked, Ordered, calls # <<>>, Grown, Kept', tokens' = tokens,
         Range(grouped) \subseteq Range(grouped'),
         NEW news \in Seq(Frames), Calls(news), Hands(news)
  PROVE  Ordered'
<1> DEFINE k == Len(news)
           n == Len(calls)
<1>1. /\ k \in Nat /\ n \in Nat /\ n >= 1 /\ DOMAIN news = 1 .. k
      /\ calls[1] = Top /\ Top \in Frames
      /\ DOMAIN calls = 1 .. n /\ DOMAIN calls' = 1 .. k + n - 1
      /\ calls' \in Seq(Frames)
      /\ \A i \in 1 .. k : calls'[i] = news[i]
      /\ \A i \in k + 1 .. k + n - 1 :
           i - (k - 1) \in 2 .. n /\ calls'[i] = calls[i - (k - 1)]
  BY CallsShift DEF Stacked
<1>2. k = 0 <=> news = <<>> BY <1>1, EmptySeq
<1>3. /\ Len(nodes) \in Nat /\ DOMAIN nodes = 1 .. Len(nodes)
      /\ Len(nodes') \in Nat /\ DOMAIN nodes' = 1 .. Len(nodes')
  BY NodesTyped, LenProperties DEF Kept
<1>4. \A i \in 1 .. n : calls[i] \in Frames /\ Suits(calls[i])
  BY <1>1, ElementOfSeq DEF Stacked
<1>5. \A i \in 1 .. n : calls[i].node \in 0 .. Len(nodes)
  BY <1>4 DEF Suits
<1>6. Gives(Top) >= Expects(calls[2]) \/ n = 1
  BY <1>1 DEF Ordered
<1>7. \A i \in k + 1 .. k + n - 1 :
        \E o \in 2 .. n : i = o + (k - 1) /\ calls'[i] = calls[o]
  <2> HIDE DEF k, n
  <2> TAKE i \in k + 1 .. k + n - 1
  <2>1. /\ i - (k - 1) \in 2 .. n /\ calls'[i] = calls[i - (k - 1)]
        /\ i = (i - (k - 1)) + (k - 1)
    BY <1>1
  <2> QED BY <2>1
<1> HIDE DEF k, n
<1>8. ASSUME NEW i \in 1 .. k + n - 1, i + 1 \in 1 .. k + n - 1
      PROVE  Gives(calls'[i]) >= Expects(calls'[i + 1])
  <2>1. CASE i + 1 \in 1 .. k
    <3>1. \A j \in DOMAIN news :
            j + 1 \in DOMAIN news => Gives(news[j]) >= Expects(news[j + 1])
      BY DEF Hands
    <3>2. i \in 1 .. k BY <1>1, <2>1
    <3> QED BY <1>1, <2>1, <3>1, <3>2
  <2>2. CASE i = k
    <3>1. i \in DOMAIN news /\ news # <<>> BY <1>1, <1>2, <2>2
    <3>2. Gives(calls'[i]) >= Gives(Top) BY <1>1, <2>2, <3>1 DEF Hands, k
    <3>3. calls'[i + 1] = calls[2] /\ n # 1
      <4>1. i + 1 \in k + 1 .. k + n - 1 /\ (i + 1) - (k - 1) = 2
        BY <1>1, <1>8, <2>2
      <4>2. calls'[i + 1] = calls[2] BY <1>1, <4>1
      <4> QED BY <1>1, <1>8, <2>2, <4>2
    <3> QED BY <1>6, <3>2, <3>3, Ranks
  <2>3. CASE i \in k + 1 .. k + n - 1
    <3>1. PICK o \in 2 .. n : i = o + (k - 1) /\ calls'[i] = calls[o] BY <1>7, <2>3
    <3>2. o + 1 \in 1 .. n /\ i + 1 \in k + 1 .. k + n - 1 BY <1>1, <1>8, <2>3, <3>1
    <3>3. (i + 1) - (k - 1) = o + 1 BY <1>1, <3>1
    <3>4. calls'[i + 1] = calls[o + 1] BY <1>1, <3>2, <3>3
    <3>5. o \in DOMAIN calls /\ o + 1 \in DOMAIN calls BY <1>1, <3>2
    <3>6. Gives(calls[o]) >= Expects(calls[o + 1]) BY <3>5 DEF Ordered
    <3> QED BY <3>1, <3>4, <3>6
  <2> QED BY <1>1, <1>8, <2>1, <2>2, <2>3
<1>9. ASSUME NEW i \in 1 .. k + n - 1, calls'[i].function = "makeBinary"
      PROVE  Binds(calls[i].node, RankOf(calls[i].word))'
  <2>1. CASE i \in 1 .. k BY <1>1, <1>9, <2>1 DEF Hands
  <2>2. CASE i \in k + 1 .. k + n - 1
    <3>1. PICK o \in 2 .. n : i = o + (k - 1) /\ calls'[i] = calls[o] BY <1>7, <2>2
    <3>2. Binds(calls[o].node, RankOf(calls[o].word))
      <4>1. o \in DOMAIN calls /\ calls[o].function = "makeBinary" BY <1>1, <1>9, <3>1
      <4> QED BY <4>1 DEF Ordered
    <3>3. RankOf(calls[o].word) \in 0 .. 3 BY Ranks
    <3> DEFINE v == calls[o].node
               r == RankOf(calls[o].word)
    <3>4. v \in 0 .. Len(nodes) BY <1>5, <3>1
    <3>5. \A u, s : Binds(u, s)' <=> (u \in Range(grouped') \/ Tightness(u)' >= s)
      BY DEF Binds
    <3>6. \A u \in 0 .. Len(nodes), s \in 0 .. 3 : Binds(u, s) => Binds(u, s)'
      BY <1>3, BindsGrown
    <3> QED BY <3>1, <3>2, <3>3, <3>4, <3>6
  <2> QED BY <1>1, <2>1, <2>2
<1>10. ASSUME calls' # <<>>, error' = "NO_ERR"
       PROVE  Binds(value, Expects(calls[1]))'
  <2>1. k + n - 1 >= 1 /\ 1 \in 1 .. k + n - 1 BY <1>1, <1>10, EmptySeq, LenProperties
  <2>2. CASE k = 0
    <3>1. calls'[1] = calls[2] /\ n # 1
      <4>1. 1 \in k + 1 .. k + n - 1 /\ 1 - (k - 1) = 2 BY <1>1, <2>1, <2>2
      <4> QED BY <1>1, <2>1, <2>2, <4>1
    <3>2. PICK r \in 0 .. 3 : r = Gives(Top) BY Ranks
    <3>3. PICK e \in 0 .. 3 : e = Expects(calls[2]) BY Ranks
    <3>4. Binds(value, r)' BY <1>2, <1>10, <2>2, <3>2 DEF Hands
    <3>5. e \in 0 .. r BY <1>6, <3>1, <3>2, <3>3
    <3>6. Tightness(value)' \in 0 .. 3 BY Ranks DEF Tightness
    <3>7. Binds(value, e)' BY <3>4, <3>5, <3>6 DEF Binds
    <3>8. Expects(calls[1])' = e BY <3>1, <3>3 DEF Expects
    <3> QED BY <3>7, <3>8
  <2>3. CASE k # 0
    <3>1. calls'[1] = news[1] BY <1>1, <2>3
    <3>2. PICK r \in 0 .. 3 : r = Expects(news[1]) BY Ranks
    <3>3. Binds(value, r)' BY <1>2, <1>10, <2>3, <3>2 DEF Hands
    <3>4. Expects(calls[1])' = r BY <3>1, <3>2 DEF Expects
    <3> QED BY <3>3, <3>4
  <2> QED BY <2>2, <2>3
<1>11. ASSUME NEW q \in 1 .. Len(nodes'), IsBinary(q)'
       PROVE  Binds(nodes[q].left, RankOfNode(q))' /\ Binds(nodes[q].right, RankOfNode(q))'
  <2>1. CASE q \in Len(nodes) + 1 .. Len(nodes') BY <1>11, <2>1 DEF Hands
  <2>2. CASE q \in 1 .. Len(nodes)
    <3>1. nodes'[q] = nodes[q] /\ IsBinary(q)
      BY <1>11, <2>2 DEF Grown, IsBinary, Scopes
    <3>2. RankOfNode(q)' = RankOfNode(q) /\ RankOfNode(q) \in 1 .. 3
      BY <3>1, Ranks DEF RankOfNode
    <3>3. nodes[q] \in Generator!NodeOf(nodes) BY <2>2, NodesTyped
    <3>4. nodes[q].left \in 0 .. Len(nodes) /\ nodes[q].right \in 0 .. Len(nodes)
      BY <3>1, <3>3 DEF Generator!NodeOf, Generator!Ref, IsBinary
    <3>5. Binds(nodes[q].left, RankOfNode(q)) /\ Binds(nodes[q].right, RankOfNode(q))
      BY <1>3, <2>2, <3>1 DEF Ordered, IsBinary
    <3>6. \A u \in 0 .. Len(nodes), s \in 0 .. 3 : Binds(u, s) => Binds(u, s)'
      BY <1>3, BindsGrown
    <3> QED BY <3>1, <3>2, <3>4, <3>5, <3>6
  <2> QED BY <1>3, <2>1, <2>2
<1> QED BY <1>1, <1>3, <1>8, <1>9, <1>10, <1>11 DEF Ordered, IsBinary

-----------------------------------------------------------------------------
(* How far the statements of a scope are behind the tokens.                *)

\* What a step may leave of the statements that have begun: one that has read
\* nothing reads a token that begins it, or goes on.
Advances(news) ==
  /\ next' \in Nat /\ next <= next'
  /\ \A i \in 2 .. Len(calls) : Unread(i) =>
       \/ next < next' /\ ~Stray(tokens[next])
       \/ next' = next /\ \A q : q = i + (Len(news) - 1) => Unread(q)'
  /\ \A j \in DOMAIN news, n \in Nat :
       news[j].function = "addStatement" /\ n = news[j].node =>
         Unread(j)' /\ Counted(n)'
  /\ \A n \in Nat : error' = "NO_ERR" =>
       /\ /\ news # <<>> /\ n = news[1].node
          /\ news[1].function \in Loops
          => Counted(n)'
       /\ news = <<>> /\ n = Top.node /\ Top.function = "addStatement" => Counted(n)'
  /\ \A n \in Nat :
       news # <<>> /\ n = news[1].node /\ news[1].function = "parseScopeNode" =>
         Statements(n)' = 0
  /\ \A n \in 1 .. Len(nodes) :
       n # Top.node \/ Top.function # "addStatement" => nodes'[n] = nodes[n]

LEMMA ProgressStep ==
  ASSUME Kept, Stacked, Nested, Progress, calls # <<>>, tokens' = tokens,
         NEW news \in Seq(Frames), Calls(news), Advances(news)
  PROVE  Progress'
<1> DEFINE k == Len(news)
           n == Len(calls)
<1>1. /\ k \in Nat /\ n \in Nat /\ n >= 1 /\ DOMAIN news = 1 .. k
      /\ calls[1] = Top /\ Top \in Frames
      /\ DOMAIN calls = 1 .. n /\ DOMAIN calls' = 1 .. k + n - 1
      /\ calls' \in Seq(Frames)
      /\ \A i \in 1 .. k : calls'[i] = news[i]
      /\ \A i \in k + 1 .. k + n - 1 :
           i - (k - 1) \in 2 .. n /\ calls'[i] = calls[i - (k - 1)]
  BY CallsShift DEF Stacked
<1>2. k = 0 <=> news = <<>> BY <1>1, EmptySeq
<1>3. Len(nodes) \in Nat /\ next \in Nat BY NodesTyped DEF Kept
<1>4. \A i \in 1 .. n : calls[i] \in Frames /\ Suits(calls[i])
  BY <1>1, ElementOfSeq DEF Stacked
<1>5. \A i \in k + 1 .. k + n - 1 :
        \E o \in 2 .. n : i = o + (k - 1) /\ calls'[i] = calls[o]
  <2> HIDE DEF k, n
  <2> TAKE i \in k + 1 .. k + n - 1
  <2>1. /\ i - (k - 1) \in 2 .. n /\ calls'[i] = calls[i - (k - 1)]
        /\ i = (i - (k - 1)) + (k - 1)
    BY <1>1
  <2> QED BY <2>1
<1>6. ASSUME NEW i \in 1 .. k + n - 1, NEW p \in Nat, p = calls'[i].node,
             calls'[i].function = "addStatement"
      PROVE  Ahead(p)' \/ (Unread(i)' /\ Counted(p)')
  <2> HIDE DEF k, n
  <2>1. CASE i \in 1 .. k BY <1>1, <1>6, <2>1 DEF Advances
  <2>2. CASE i \in k + 1 .. k + n - 1
    <3>1. PICK o \in 2 .. n : i = o + (k - 1) /\ calls'[i] = calls[o] BY <1>5, <2>2
    <3>2. o \in DOMAIN calls /\ 1 \in DOMAIN calls /\ 1 < o
      BY <1>1
    <3>3. calls[o].function = "addStatement" /\ p = calls[o].node BY <1>6, <3>1
    <3>4. p \in 1 .. Len(nodes)
      BY <1>3, <1>4, <3>1, <3>3 DEF Suits, Fillers
    <3>5. p # Top.node \/ Top.function # "addStatement"
      <4> SUFFICES ASSUME Top.function = "addStatement" PROVE p # Top.node OBVIOUS
      <4>1. calls[1].node > p BY <1>1, <3>2, <3>3 DEF Nested, Fillers
      <4>2. calls[1].node \in Nat BY <1>1 DEF Frames
      <4>3. calls[1].node # p BY <3>4, <4>1, <4>2
      <4> QED BY <1>1, <4>3
    <3>6. nodes'[p] = nodes[p] BY <3>4, <3>5 DEF Advances
    <3>7. Ahead(p) \/ (Unread(o) /\ Counted(p)) BY <3>2, <3>3 DEF Progress
    <3>8. next' \in Nat /\ next <= next' BY DEF Advances
    <3>9. Statements(p) \in Nat
      <4>1. nodes[p].type \in Scopes BY <1>4, <3>1, <3>3 DEF Suits, Fillers
      <4>2. nodes[p] \in Generator!NodeOf(nodes) BY <3>4, NodesTyped
      <4>3. nodes[p].body \in Seq(Generator!Ref(nodes))
        BY <4>1, <4>2 DEF Generator!NodeOf, Scopes
      <4> QED BY <4>3, LenProperties DEF Statements
    <3>10. Statements(p)' = Statements(p) BY <3>6 DEF Statements
    <3>11. CASE Ahead(p) BY <1>3, <3>8, <3>9, <3>10, <3>11 DEF Ahead
    <3>12. CASE Unread(o) /\ Counted(p)
      <4>1. o \in 2 .. Len(calls) BY DEF n
      <4>2. CASE next < next' /\ ~Stray(tokens[next])
        BY <1>3, <3>8, <3>9, <3>10, <3>12, <4>2 DEF Ahead, Counted
      <4>3. CASE next' = next /\ \A q : q = o + (Len(news) - 1) => Unread(q)'
        <5>1. Unread(i)' BY <3>1, <4>3 DEF k
        <5>2. Counted(p)' BY <3>10, <3>12, <4>3 DEF Counted, Stray
        <5> QED BY <5>1, <5>2
      <4> QED BY <3>12, <4>1, <4>2, <4>3 DEF Advances
    <3> QED BY <3>7, <3>11, <3>12
  <2> QED BY <1>1, <2>1, <2>2
<1>7. ASSUME calls' # <<>>, error' = "NO_ERR",
             calls'[1].function \in Loops,
             NEW p \in Nat, p = calls'[1].node
      PROVE  Counted(p)'
  <2>0. k + n - 1 >= 1 /\ 1 \in 1 .. k + n - 1 BY <1>1, <1>7, EmptySeq, LenProperties
  <2>1. CASE k = 0
    <3> HIDE DEF k, n
    <3>1. calls'[1] = calls[2] /\ n # 1
      <4>1. 1 \in k + 1 .. k + n - 1 /\ 1 - (k - 1) = 2 BY <1>1, <2>0, <2>1
      <4> QED BY <1>1, <2>0, <2>1, <4>1
    <3>2. 2 \in DOMAIN calls /\ calls[2].function \in Loops
      BY <1>1, <1>7, <3>1
    <3>3. calls[2 - 1].function = "addStatement" /\ calls[2 - 1].node = calls[2].node
      BY <3>2 DEF Nested
    <3>4. Top.function = "addStatement" /\ Top.node = p BY <1>1, <1>7, <3>1, <3>3
    <3> QED BY <1>2, <1>7, <2>1, <3>4 DEF Advances
  <2>2. CASE k # 0
    <3>1. calls'[1] = news[1] BY <1>1, <2>2
    <3> QED BY <1>2, <1>7, <2>2, <3>1 DEF Advances
  <2> QED BY <2>1, <2>2
<1>8. \A i \in 1 .. k + n - 1 : calls'[i] \in Frames /\ calls'[i].node \in Nat
  <2>1. \A i \in 1 .. k + n - 1 : calls'[i] \in Frames
    <3> HIDE DEF k, n
    <3>1. Len(calls') = k + n - 1 BY <1>1, LenProperties
    <3> QED BY <1>1, <3>1, ElementOfSeq
  <2> QED BY <2>1 DEF Frames
<1> HIDE DEF k, n
<1>9. ASSUME NEW i \in DOMAIN calls', calls'[i].function = "addStatement"
      PROVE  (Ahead(calls[i].node) \/ (Unread(i) /\ Counted(calls[i].node)))'
  <2>1. PICK p \in Nat : p = calls'[i].node BY <1>1, <1>8, <1>9
  <2>2. Ahead(p)' \/ (Unread(i)' /\ Counted(p)') BY <1>1, <1>6, <1>9, <2>1
  <2> QED BY <2>1, <2>2 DEF Ahead, Counted, Statements
<1>10. ASSUME calls' # <<>>, error' = "NO_ERR",
              calls'[1].function \in Loops
       PROVE  Counted(calls[1].node)'
  <2>1. 1 \in 1 .. k + n - 1 BY <1>1, <1>10, EmptySeq, LenProperties
  <2>2. PICK p \in Nat : p = calls'[1].node BY <1>8, <2>1
  <2>3. Counted(p)' BY <1>7, <1>10, <2>2
  <2> QED BY <2>2, <2>3 DEF Counted, Statements
<1>11. ASSUME calls' # <<>>, calls'[1].function = "parseScopeNode"
       PROVE  Statements(calls[1].node)' = 0
  <2>1. 1 \in 1 .. k + n - 1 BY <1>1, <1>11, EmptySeq, LenProperties
  <2>2. PICK p \in Nat : p = calls'[1].node BY <1>8, <2>1
  <2>3. 1 \in 1 .. k
    <3>1. ASSUME 1 \in k + 1 .. k + n - 1 PROVE FALSE
      <4>1. PICK o \in 2 .. n : 1 = o + (k - 1) /\ calls'[1] = calls[o] BY <1>5, <3>1
      <4>2. o \in DOMAIN calls /\ o # 1 /\ calls[o].function = "parseScopeNode"
        BY <1>1, <1>11, <4>1
      <4> QED BY <4>2 DEF Nested
    <3> QED BY <1>1, <2>1, <3>1
  <2>4. calls'[1] = news[1] /\ news # <<>> BY <1>1, <1>2, <2>3
  <2>5. Statements(p)' = 0 BY <1>11, <2>2, <2>4 DEF Advances
  <2> QED BY <2>2, <2>5 DEF Statements
<1> QED BY <1>9, <1>10, <1>11 DEF Progress

-----------------------------------------------------------------------------
(* A step.                                                                 *)

LEMMA Step ==
  ASSUME PInv, calls # <<>>, Grown, Kept', tokens' = tokens,
         Range(grouped) \subseteq Range(grouped'),
         NEW news \in Seq(Frames), Calls(news),
         Replaces(news), Advances(news), Hands(news)
  PROVE  PInv'
<1>1. Kept /\ Stacked /\ Nested /\ Progress /\ Ordered BY DEF PInv
<1>2. Stacked' /\ Nested' BY <1>1, NestedStep
<1>3. Progress' BY <1>1, ProgressStep
<1>4. Ordered' BY <1>1, OrderedStep
<1> QED BY <1>2, <1>3, <1>4 DEF PInv

LEMMA GrownSame == ASSUME Kept, UNCHANGED nodes PROVE Grown
BY NodesTyped DEF Grown

LEMMA BindsNothingNext == \A n : Binds(n, 0)'
<1>1. \A op : RankOf(op)' \in 1 .. 3 BY DEF RankOf
<1>2. \A n : Tightness(n)' \in 0 .. 3 BY <1>1 DEF Tightness
<1> QED BY <1>2 DEF Binds

LEMMA TokensTyped ==
  ASSUME Kept
  PROVE  /\ Len(tokens) \in Nat /\ Len(tokens) >= 1 /\ next \in Nat /\ next >= 1
         /\ \A i \in 1 .. Len(tokens) :
              /\ tokens[i] \in TokenOf(Names)
              /\ tokens[i].type = "END_OF_FILE" <=> i = Len(tokens)
<1>1. tokens \in Seq(TokenOf(Names)) /\ IsInput(tokens)
  BY NamesAssumption, InputsAssumption DEF Kept
<1>2. Len(tokens) \in Nat BY <1>1, LenProperties
<1> QED BY <1>1, <1>2, ElementOfSeq DEF IsInput, Kept

LEMMA U16Same == ASSUME NEW k \in Int, 0 <= k, k < 65536 PROVE U16(k) = k
BY DEF U16

\* Among so few tokens, peek sees what pop returns.
LEMMA PeekIs ==
  ASSUME Kept, NEW n \in {0, 1}, next + n <= Len(tokens)
  PROVE  Peek(n) = tokens[next + n]
<1>1. next \in Nat /\ next >= 1 /\ Len(tokens) \in Nat BY TokensTyped
<1>2. Len(tokens) < 65536 BY ShortAssumption DEF Kept
<1>3. PICK k \in Int : k = next - 1 + n BY <1>1
<1>4. 0 <= k BY <1>1, <1>3
<1>5. k < 65536 BY <1>1, <1>2, <1>3
<1>6. k + 1 = next + n BY <1>1, <1>3
<1>7. U16(k) = k BY <1>4, <1>5, U16Same
<1> QED BY <1>3, <1>6, <1>7 DEF Peek

\* The functions that can be at work on a statement that has read nothing.
Starters == Levels \cup DOMAIN KeywordOf
              \cup {"parseStatement", "parsePrimaryExpression", "operator"}

LEMMA UnreadTop ==
  ASSUME NEW i, i # 1, Unread(i)
  PROVE  calls[1].function \in Starters
<1>1. "parseComparisonExpression" \in Levels /\ "parseAddativeExpression" \in Levels
      /\ "parseMultiplicativeExpression" \in Levels /\ "parseIdentifier" \in DOMAIN KeywordOf
  BY DEF Levels, OperatorsOf, KeywordOf
<1>2. ASSUME Ascends(i, OperatorOf(tokens[next])) PROVE calls[1].function = "operator"
  BY <1>2 DEF Ascends, MultiplicativeFrom, AddativeFrom, ComparisonFrom, Waits
<1> QED BY <1>1, <1>2 DEF Unread, Begins, Descends, Starters

\* What every step that is taken knows.
LEMMA Stepping ==
  ASSUME PInv, calls # <<>>
  PROVE  /\ Kept /\ Stacked /\ Nested /\ Progress /\ Ordered
         /\ Len(calls) \in Nat /\ 1 \in DOMAIN calls /\ DOMAIN calls = 1 .. Len(calls)
         /\ calls[1] = Top /\ Top \in Frames /\ Suits(Top)
<1>1. Kept /\ Stacked /\ Nested /\ Progress /\ Ordered BY DEF PInv
<1>2. calls \in Seq(Frames) BY <1>1 DEF Stacked
<1>3. /\ Len(calls) \in Nat /\ Len(calls) >= 1 /\ DOMAIN calls = 1 .. Len(calls)
  BY <1>2, LenProperties, EmptySeq
<1>4. Top = calls[1] /\ Top \in Frames BY <1>2, HeadTailProperties DEF Top
<1> QED BY <1>1, <1>3, <1>4 DEF Stacked

\* A function fails, with what waited for it still on the stack.
LEMMA FailStep ==
  ASSUME PInv, calls # <<>>, status = "parsing", NEW code, code # "NO_ERR", Fails(code),
         Context, UNCHANGED nodes, next' \in next .. Len(tokens) + 1,
         error = "NO_ERR" /\ Top.function \in Starters =>
           next < next' /\ ~Stray(tokens[next])
  PROVE  PInv'
<1>1. /\ Kept /\ Stacked /\ calls[1] = Top /\ Len(calls) \in Nat
  BY Stepping
<1>2. Len(tokens) \in Nat /\ next \in Nat /\ Len(nodes) \in Nat
  BY <1>1, TokensTyped, NodesTyped
<1>3. Kept' /\ tokens' = tokens /\ grouped' = grouped /\ error' # "NO_ERR"
  BY <1>1, <1>2 DEF Kept, Context, Fails
<1>4. Grown BY <1>1, GrownSame
<1> DEFINE news == <<>>
<1>5. news \in Seq(Frames) /\ DOMAIN news = {} /\ Calls(news) BY DEF Fails
<1>6. Replaces(news) BY <1>5 DEF Replaces
<1>7. Advances(news)
  <2>1. ASSUME NEW i \in 2 .. Len(calls), Unread(i)
        PROVE  next < next' /\ ~Stray(tokens[next])
    <3>1. error = "NO_ERR" BY <2>1 DEF Unread
    <3> QED BY <1>1, <2>1, <3>1, UnreadTop
  <2> QED BY <1>2, <1>3, <1>5, <2>1 DEF Advances
<1>8. Hands(news) BY <1>2, <1>3, <1>5 DEF Hands
<1> HIDE DEF news
<1> QED BY <1>3, <1>4, <1>5, <1>6, <1>7, <1>8, Step

-----------------------------------------------------------------------------
(* Scopes.                                                                 *)

LEMMA CallFrame ==
  ASSUME NEW f \in ParserFunctions
  PROVE  Call(f) \in Frames /\ Call(f).function = f /\ Call(f).node = 0
BY DEF Call, Activation, Frames

\* The activations a step may leave in the place of one.
LEMMA NoCall ==
  ASSUME Calls(<<>>)
  PROVE  \E news \in Seq(Frames) :
           news = <<>> /\ DOMAIN news = {} /\ Len(news) = 0 /\ Calls(news)
<1> DEFINE w == <<>>
<1>1. w \in Seq(Frames) /\ DOMAIN w = {} /\ Len(w) = 0 /\ w = <<>> /\ Calls(w)
  OBVIOUS
<1> HIDE DEF w
<1> QED BY <1>1

LEMMA OneCall ==
  ASSUME NEW x \in Frames, Calls(<<x>>)
  PROVE  \E news \in Seq(Frames) :
           /\ news # <<>> /\ DOMAIN news = {1} /\ Len(news) = 1 /\ Calls(news)
           /\ news[1] = x
<1> DEFINE w == <<x>>
<1>1. /\ w \in Seq(Frames) /\ DOMAIN w = {1} /\ Len(w) = 1 /\ w # <<>> /\ Calls(w)
      /\ w[1] = x
  OBVIOUS
<1> HIDE DEF w
<1> QED BY <1>1

LEMMA TwoCalls ==
  ASSUME NEW x \in Frames, NEW y \in Frames, Calls(<<x, y>>)
  PROVE  \E news \in Seq(Frames) :
           /\ news # <<>> /\ DOMAIN news = {1, 2} /\ Len(news) = 2 /\ Calls(news)
           /\ news[1] = x /\ news[2] = y
<1> DEFINE w == <<x, y>>
<1>1. /\ w \in Seq(Frames) /\ DOMAIN w = {1, 2} /\ Len(w) = 2 /\ w # <<>> /\ Calls(w)
      /\ w[1] = x /\ w[2] = y
  OBVIOUS
<1> HIDE DEF w
<1> QED BY <1>1

LEMMA ThreeCalls ==
  ASSUME NEW x \in Frames, NEW y \in Frames, NEW z \in Frames, Calls(<<x, y, z>>)
  PROVE  \E news \in Seq(Frames) :
           /\ news # <<>> /\ DOMAIN news = {1, 2, 3} /\ Len(news) = 3 /\ Calls(news)
           /\ news[1] = x /\ news[2] = y /\ news[3] = z
<1> DEFINE w == <<x, y, z>>
<1>1. /\ w \in Seq(Frames) /\ DOMAIN w = {1, 2, 3} /\ Len(w) = 3 /\ w # <<>>
      /\ Calls(w) /\ w[1] = x /\ w[2] = y /\ w[3] = z
  OBVIOUS
<1> HIDE DEF w
<1> QED BY <1>1

\* A loop asks for a statement.
Asks ==
  /\ Calls(<<Call("parseStatement"), Activation("addStatement", Top.node, ""), Top>>)
  /\ Context /\ UNCHANGED <<next, nodes, Result>>

LEMMA AskStep ==
  ASSUME PInv, calls # <<>>, status = "parsing", error = "NO_ERR",
         Top.function \in Loops, Asks
  PROVE  PInv'
<1>1. /\ Kept /\ Stacked /\ Progress /\ calls[1] = Top /\ Len(calls) \in Nat
      /\ Top \in Frames /\ Suits(Top)
  BY Stepping
<1>2. Len(tokens) \in Nat /\ next \in Nat /\ Len(nodes) \in Nat
  BY <1>1, TokensTyped, NodesTyped
<1>3. Kept' /\ tokens' = tokens /\ grouped' = grouped /\ error' = "NO_ERR"
      /\ next' = next /\ nodes' = nodes /\ value' = value
  BY <1>1 DEF Asks, Kept, Context, Result
<1>4. Grown BY <1>1, <1>3, GrownSame
<1> DEFINE a == Call("parseStatement")
           b == Activation("addStatement", Top.node, "")
<1>5. /\ a \in Frames /\ a.function = "parseStatement" /\ a.node = 0
      /\ b \in Frames /\ b.function = "addStatement" /\ b.node = Top.node
  BY <1>1, CallFrame DEF Activation, Frames, ParserFunctions
<1>6. PICK x \in Frames, y \in Frames, z \in Frames : x = a /\ y = b /\ z = Top
  BY <1>1, <1>5
<1>7. PICK news \in Seq(Frames) :
        /\ news # <<>> /\ DOMAIN news = {1, 2, 3} /\ Len(news) = 3 /\ Calls(news)
        /\ news[1] = x /\ news[2] = y /\ news[3] = z
  <2>1. Calls(<<x, y, z>>) BY <1>6 DEF Asks
  <2> QED BY <2>1, ThreeCalls
<1>7a. /\ x.function = "parseStatement" /\ x.node = 0
       /\ y.function = "addStatement" /\ y.node = Top.node /\ z = Top
  BY <1>5, <1>6
<1> HIDE DEF a, b
<1>8. Suits(x)' /\ Suits(y)' /\ Suits(z)'
  BY <1>1, <1>2, <1>3, <1>7, <1>7a DEF Suits, Loops, Fillers
<1>9. Replaces(news)
  BY <1>1, <1>7, <1>7a, <1>8 DEF Replaces, Loops, Fillers, KeywordOf
<1>10. Advances(news)
  <2>1. ASSUME NEW i \in 2 .. Len(calls), Unread(i) PROVE FALSE
    <3>0. i # 1 BY <1>1
    <3>1. Top.function \in Starters BY <1>1, <2>1, <3>0, UnreadTop
    <3> QED BY <3>1 DEF Starters, Loops, Levels, OperatorsOf, KeywordOf
  <2>2. calls'[1] = x
    BY <1>1, <1>7, CallsShift, Stepping DEF Stacked
  <2>3. Unread(2)' BY <1>3, <1>7, <1>7a, <2>2 DEF Unread, Begins
  <2>4. Counted(Top.node) BY <1>1 DEF Progress
  <2>5. \A n \in Nat : n = Top.node => Counted(n)'
    BY <1>3, <2>4 DEF Counted, Statements, Stray
  <2> QED BY <1>2, <1>3, <1>7, <1>7a, <2>1, <2>3, <2>5 DEF Advances, Loops
<1>11. Hands(news)
  <2>1. Expects(x) = 0 /\ Expects(y) = 0 /\ Expects(z) = 0
    BY <1>7, <1>7a DEF Expects, Loops
  <2>2. z.function # "makeBinary" BY <1>7, <1>7a DEF Loops
  <2> QED BY <1>2, <1>3, <1>7, <1>7a, <2>1, <2>2, Ranks, BindsNothingNext DEF Hands
<1> QED BY <1>3, <1>4, <1>7, <1>9, <1>10, <1>11, Step

-----------------------------------------------------------------------------
(* What most steps share: they touch no scope.                             *)

ScopeWork == Loops \cup {"parseScopeNode", "addStatement"}

LEMMA Steps ==
  ASSUME PInv, calls # <<>>, status = "parsing"
  PROVE  /\ Kept /\ Stacked /\ Nested /\ Progress /\ Ordered
         /\ calls[1] = Top /\ Top \in Frames /\ Suits(Top)
         /\ Len(calls) \in Nat /\ 1 \in DOMAIN calls /\ DOMAIN calls = 1 .. Len(calls)
         /\ Len(tokens) \in Nat /\ next \in Nat /\ next >= 1 /\ next <= Len(tokens) + 1
         /\ Len(nodes) \in Nat /\ Len(nodes) >= 1 /\ DOMAIN nodes = 1 .. Len(nodes)
         /\ value \in 0 .. Len(nodes)
         /\ Top.node \in 0 .. Len(nodes)
<1>1. /\ Kept /\ Stacked /\ Nested /\ Progress /\ Ordered
      /\ calls[1] = Top /\ Top \in Frames /\ Suits(Top)
      /\ Len(calls) \in Nat /\ 1 \in DOMAIN calls /\ DOMAIN calls = 1 .. Len(calls)
  BY Stepping
<1>2. Len(tokens) \in Nat /\ next \in Nat /\ next >= 1 /\ Len(nodes) \in Nat
      /\ DOMAIN nodes = 1 .. Len(nodes)
  BY <1>1, TokensTyped, NodesTyped
<1> QED BY <1>1, <1>2 DEF Kept, Suits

LEMMA PlainReplaces ==
  ASSUME NEW news \in Seq(Frames), Top.function # "addStatement",
         \A j \in DOMAIN news :
           /\ news[j].function \notin Fillers \cup DOMAIN KeywordOf
           /\ Suits(news[j])'
  PROVE  Replaces(news)
BY DEF Replaces, Fillers, Loops

\* A step that reads, of a statement that may have read nothing so far.
LEMMA PlainAdvances ==
  ASSUME PInv, calls # <<>>, status = "parsing", Top.function # "addStatement",
         next' \in Nat, next <= next', \A n \in 1 .. Len(nodes) : nodes'[n] = nodes[n],
         NEW news \in Seq(Frames),
         \A j \in DOMAIN news : news[j].function \notin ScopeWork,
         Top.function \in Starters => next < next' /\ ~Stray(tokens[next])
  PROVE  Advances(news)
<1>1. calls[1] = Top /\ Len(calls) \in Nat BY Steps
<1>2. ASSUME NEW i \in 2 .. Len(calls), Unread(i)
      PROVE  next < next' /\ ~Stray(tokens[next])
  BY <1>1, <1>2, UnreadTop
<1>3. news # <<>> => 1 \in DOMAIN news BY EmptySeq, LenProperties
<1> QED BY <1>2, <1>3 DEF Advances, ScopeWork, Loops

\* The nodes a step adds.
LEMMA NodesGrow ==
  ASSUME Kept, status # "idle", NEW more,
         nodes' = nodes \o more, Len(more) \in Nat, DOMAIN more = 1 .. Len(more),
         more \in Seq(Generator!NodeOf(nodes')), Len(nodes') = Len(nodes) + Len(more)
  PROVE  /\ nodes' \in Seq(Generator!NodeOf(nodes'))
         /\ Len(nodes') = Len(nodes) + Len(more)
         /\ Len(nodes') >= 1 /\ nodes'[1].type = "PROGRAM"
         /\ \A n \in 1 .. Len(nodes) : nodes'[n] = nodes[n]
         /\ \A n \in 1 .. Len(more) : nodes'[Len(nodes) + n] = more[n]
         /\ Grown
<1>1. Len(nodes) \in Nat /\ Len(nodes) >= 1 /\ nodes[1].type = "PROGRAM"
  BY NodesTyped DEF Kept
<1>2. Generator!Ref(nodes) \subseteq Generator!Ref(nodes')
  BY <1>1 DEF Generator!Ref
<1>3. Seq(Generator!Ref(nodes)) \subseteq Seq(Generator!Ref(nodes'))
  BY <1>2
<1>4. Generator!NodeOf(nodes) \subseteq Generator!NodeOf(nodes')
  BY <1>2, <1>3 DEF Generator!NodeOf
<1> DEFINE S == Generator!NodeOf(nodes')
           both == nodes \o more
<1>5. nodes \in Seq(S) /\ more \in Seq(S) BY <1>4 DEF Kept
<1> HIDE DEF S
<1>6. /\ both \in Seq(S) /\ Len(both) = Len(nodes) + Len(more)
      /\ \A i \in 1 .. Len(nodes) + Len(more) :
           both[i] = IF i <= Len(nodes) THEN nodes[i] ELSE more[i - Len(nodes)]
  BY <1>5, ConcatProperties
<1> HIDE DEF both
<1>7. nodes' = both BY DEF both
<1>8. \A n \in 1 .. Len(nodes) : nodes'[n] = nodes[n] BY <1>1, <1>6, <1>7
<1>9. ASSUME NEW n \in 1 .. Len(more) PROVE nodes'[Len(nodes) + n] = more[n]
  <2>1. /\ Len(nodes) + n \in 1 .. Len(nodes) + Len(more)
        /\ ~(Len(nodes) + n <= Len(nodes)) /\ (Len(nodes) + n) - Len(nodes) = n
    BY <1>1
  <2> QED BY <1>6, <1>7, <2>1
<1> QED BY <1>1, <1>6, <1>7, <1>8, <1>9 DEF Grown, S

LEMMA MakesOne ==
  ASSUME Kept, status # "idle", NEW node, Makes(<<node>>),
         NEW len, len = Len(nodes) + 1,
         \A p : Len(p) = len => node \in Generator!NodeOf(p)
  PROVE  /\ nodes' \in Seq(Generator!NodeOf(nodes'))
         /\ Len(nodes') = len /\ nodes'[1].type = "PROGRAM"
         /\ \A n \in 1 .. Len(nodes) : nodes'[n] = nodes[n]
         /\ nodes'[len] = node
         /\ Grown /\ Calls(<<>>) /\ value' = len /\ error' = error
<1> DEFINE more == <<node>>
           S == Generator!NodeOf(nodes) \cup {node}
<1>1. /\ Len(more) = 1 /\ Len(more) \in Nat /\ DOMAIN more = 1 .. Len(more)
      /\ more[1] = node /\ \A T : node \in T => more \in Seq(T)
  OBVIOUS
<1>2. nodes' = nodes \o more /\ Calls(<<>>) /\ value' = Len(nodes) + Len(more) /\ error' = error
  BY DEF Makes, Returns
<1> HIDE DEF more
<1>3. Len(nodes) \in Nat /\ nodes \in Seq(Generator!NodeOf(nodes))
  BY NodesTyped DEF Kept
<1>4. nodes \in Seq(S) /\ more \in Seq(S) BY <1>1, <1>3
<1> HIDE DEF S
<1>5. Len(nodes') = Len(nodes) + Len(more) BY <1>2, <1>4, ConcatProperties
<1>6. more \in Seq(Generator!NodeOf(nodes')) BY <1>1, <1>5
<1>7. /\ nodes' \in Seq(Generator!NodeOf(nodes'))
      /\ nodes'[1].type = "PROGRAM"
      /\ \A n \in 1 .. Len(nodes) : nodes'[n] = nodes[n]
      /\ \A n \in 1 .. Len(more) : nodes'[Len(nodes) + n] = more[n]
      /\ Grown
  BY <1>1, <1>2, <1>5, <1>6, NodesGrow
<1> QED BY <1>1, <1>2, <1>3, <1>5, <1>7

\* How tight a node binds, as Tightness and RankOfNode say of its number.
TightnessOf(node) ==
  CASE node.type = "COMPARISON_EXPRESSION" -> 0
    [] node.type = "BINARY_EXPRESSION" -> RankOf(node.operator) - 1
    [] OTHER -> 3

\* A function makes one node and hands it back.
Made(node) == Makes(<<node>>)

LEMMA MakeStep ==
  ASSUME PInv, calls # <<>>, status = "parsing", error = "NO_ERR",
         Top.function # "addStatement",
         NEW node, Made(node), Context, next' \in next .. Len(tokens) + 1,
         \A p : Len(p) = Len(nodes) + 1 => node \in Generator!NodeOf(p),
         Top.function \in Starters => next < next' /\ ~Stray(tokens[next]),
         Gives(Top) <= TightnessOf(node),
         node.type \in {"BINARY_EXPRESSION", "COMPARISON_EXPRESSION"} =>
           /\ node.left \in 0 .. Len(nodes) /\ node.right \in 0 .. Len(nodes)
           /\ \A r \in 0 .. 3 :
                r = (IF node.type = "COMPARISON_EXPRESSION" THEN 1 ELSE RankOf(node.operator))
                => Binds(node.left, r) /\ Binds(node.right, r)
  PROVE  PInv'
<1>1. /\ Kept /\ Stacked /\ Len(nodes) \in Nat /\ Len(tokens) \in Nat /\ next \in Nat
      /\ Len(nodes) >= 1 /\ next >= 1
  BY Steps
<1>2. PICK len \in Nat : len = Len(nodes) + 1 BY <1>1
<1>3. /\ nodes' \in Seq(Generator!NodeOf(nodes'))
      /\ Len(nodes') = len /\ nodes'[1].type = "PROGRAM"
      /\ \A n \in 1 .. Len(nodes) : nodes'[n] = nodes[n]
      /\ nodes'[len] = node
      /\ Grown /\ Calls(<<>>) /\ value' = len /\ error' = error
  <2>1. \A p : Len(p) = len => node \in Generator!NodeOf(p) BY <1>2
  <2> QED BY <1>1, <1>2, <2>1, MakesOne DEF Made
<1>4. tokens' = tokens /\ grouped' = grouped /\ status' = status BY DEF Context
<1>5. Kept' BY <1>1, <1>2, <1>3, <1>4 DEF Kept
<1>6. PICK news \in Seq(Frames) :
        news = <<>> /\ DOMAIN news = {} /\ Len(news) = 0 /\ Calls(news)
  BY <1>3, NoCall
<1>7. Replaces(news) BY <1>6 DEF Replaces
<1>8. Advances(news)
  <2>1. next' \in Nat /\ next <= next' BY <1>1
  <2> QED BY <1>3, <1>6, <2>1, PlainAdvances
<1>9. Hands(news)
  <2>1. Tightness(len)' = TightnessOf(node)
    BY <1>1, <1>2, <1>3 DEF Tightness, TightnessOf, RankOf
  <2>2. \A r \in 0 .. 3 : r = Gives(Top) => Binds(value, r)'
    <3>1. Tightness(value)' = TightnessOf(node) BY <1>3, <2>1 DEF Tightness
    <3>2. TightnessOf(node) \in 0 .. 3 BY Ranks DEF TightnessOf
    <3> QED BY <3>1, <3>2, Ranks DEF Binds
  <2>3. ASSUME NEW n \in Len(nodes) + 1 .. Len(nodes'), IsBinary(n)'
        PROVE  Binds(nodes[n].left, RankOfNode(n))' /\ Binds(nodes[n].right, RankOfNode(n))'
    <3>1. n = len /\ nodes'[n] = node BY <1>1, <1>2, <1>3
    <3>2. PICK r \in 0 .. 3 :
            r = IF node.type = "COMPARISON_EXPRESSION" THEN 1 ELSE RankOf(node.operator)
      BY Ranks
    <3>3. RankOfNode(n)' = r BY <3>1, <3>2 DEF RankOfNode, RankOf
    <3>4. node.type \in {"BINARY_EXPRESSION", "COMPARISON_EXPRESSION"}
      BY <2>3, <3>1 DEF IsBinary
    <3>5. PICK l \in 0 .. Len(nodes), q \in 0 .. Len(nodes) :
            l = node.left /\ q = node.right /\ Binds(l, r) /\ Binds(q, r)
      BY <3>2, <3>4
    <3>6. Range(grouped) \subseteq Range(grouped') BY <1>4
    <3>7. Binds(l, r)' /\ Binds(q, r)' BY <1>1, <1>3, <3>5, <3>6, BindsGrown
    <3> QED BY <3>1, <3>3, <3>5, <3>7 DEF Binds, Tightness
  <2> QED BY <1>6, <2>2, <2>3 DEF Hands
<1>10. Range(grouped) \subseteq Range(grouped') BY <1>4
<1> QED BY <1>3, <1>4, <1>5, <1>6, <1>7, <1>8, <1>9, <1>10, Step

\* What the type of a token says of its other fields.
LEMMA TokenFields ==
  ASSUME NEW t \in TokenOf(Names)
  PROVE  /\ t.type \in PlainTypes \cup {"NUMBER", "IDENTIFIER", "OPERATOR"}
         /\ t.type = "NUMBER" => t.fits \in BOOLEAN /\ (t.fits => t.value \in Nat)
         /\ t.type = "IDENTIFIER" => t.name \in Names
<1>1. CASE t \in [type : PlainTypes] BY <1>1 DEF PlainTypes
<1>2. CASE t \in [type : {"NUMBER"}, value : Nat, fits : {TRUE}] BY <1>2
<1>3. CASE t = HugeNumber BY <1>3 DEF HugeNumber
<1>4. CASE t \in [type : {"IDENTIFIER"}, name : Names] BY <1>4
<1>5. CASE t \in [type : {"OPERATOR"}, operator : STRING] BY <1>5
<1> QED BY <1>1, <1>2, <1>3, <1>4, <1>5 DEF TokenOf

\* A token that is not the last has one behind it, and fits its type.
LEMMA TokenAt ==
  ASSUME Kept, NEW i \in Int, i >= 1, i <= Len(tokens), NEW t, t = tokens[i]
  PROVE  /\ t.type # "END_OF_FILE" => i + 1 <= Len(tokens)
         /\ t.type = "NUMBER" => t.fits \in BOOLEAN /\ (t.fits => t.value \in Nat)
         /\ t.type = "IDENTIFIER" => t.name \in Names
<1>1. i \in 1 .. Len(tokens) BY TokensTyped
<1>2. t \in TokenOf(Names) /\ (t.type = "END_OF_FILE" <=> i = Len(tokens))
  BY <1>1, TokensTyped
<1>3. /\ t.type = "NUMBER" => t.fits \in BOOLEAN /\ (t.fits => t.value \in Nat)
      /\ t.type = "IDENTIFIER" => t.name \in Names
  BY <1>2, TokenFields
<1> QED BY <1>1, <1>2, <1>3, TokensTyped

-----------------------------------------------------------------------------
(* What makes a node.                                                      *)

LEMMA MakeReturnHolds == ASSUME PInv, makeReturn PROVE PInv'
<1> DEFINE node == [type |-> "RETURN", expression |-> value]
<1>1. /\ calls # <<>> /\ status = "parsing" /\ error = "NO_ERR"
      /\ Top.function = "makeReturn" /\ Made(node) /\ Context /\ next' = next
  BY DEF makeReturn, In, Made
<1>2. value \in 0 .. Len(nodes) /\ Len(nodes) \in Nat /\ next \in next .. Len(tokens) + 1
  BY <1>1, Steps
<1>3. \A p : Len(p) = Len(nodes) + 1 => node \in Generator!NodeOf(p)
  BY <1>2 DEF Generator!NodeOf, Generator!Ref
<1>4. Gives(Top) = 0 BY <1>1 DEF Gives, Levels, OperatorsOf
<1>5. TightnessOf(node) = 3 /\ node.type = "RETURN" BY DEF TightnessOf
<1>6. Top.function \notin Starters
  BY <1>1 DEF Starters, Levels, OperatorsOf, KeywordOf
<1> HIDE DEF node
<1> QED BY <1>1, <1>2, <1>3, <1>4, <1>5, <1>6, MakeStep

LEMMA MakeLetHolds == ASSUME PInv, makeLet PROVE PInv'
<1> DEFINE node == [type |-> "LET", name |-> Top.word, expression |-> value]
<1>1. /\ calls # <<>> /\ status = "parsing" /\ error = "NO_ERR"
      /\ Top.function = "makeLet" /\ Made(node) /\ Context /\ next' = next
  BY DEF makeLet, In, Made
<1>2. /\ value \in 0 .. Len(nodes) /\ Len(nodes) \in Nat /\ next \in next .. Len(tokens) + 1
      /\ Top.word \in Names
  BY <1>1, Steps DEF Suits
<1>3. \A p : Len(p) = Len(nodes) + 1 => node \in Generator!NodeOf(p)
  BY <1>2 DEF Generator!NodeOf, Generator!Ref
<1>4. Gives(Top) = 0 BY <1>1 DEF Gives, Levels, OperatorsOf
<1>5. TightnessOf(node) = 3 /\ node.type = "LET" BY DEF TightnessOf
<1>6. Top.function \notin Starters
  BY <1>1 DEF Starters, Levels, OperatorsOf, KeywordOf
<1> HIDE DEF node
<1> QED BY <1>1, <1>2, <1>3, <1>4, <1>5, <1>6, MakeStep

LEMMA OperatorKinds ==
  /\ Levels = {"parseComparisonExpression", "parseAddativeExpression",
               "parseMultiplicativeExpression"}
  /\ OperatorsOf["parseComparisonExpression"] =
       {"EQUAL", "NOT_EQUAL", "LESS_THAN", "GREATER_THAN"}
  /\ OperatorsOf["parseAddativeExpression"] = {"ADDITION", "SUBTRACTION"}
  /\ OperatorsOf["parseMultiplicativeExpression"] = {"MULTIPLICATION", "DIVISION"}
  /\ \A op : op \in Operators <=>
       op \in {"EQUAL", "NOT_EQUAL", "LESS_THAN", "GREATER_THAN",
               "ADDITION", "SUBTRACTION", "MULTIPLICATION", "DIVISION"}
<1>1. Levels = {"parseComparisonExpression", "parseAddativeExpression",
               "parseMultiplicativeExpression"}
  BY DEF Levels, OperatorsOf
<1>2. /\ OperatorsOf["parseComparisonExpression"] =
           {"EQUAL", "NOT_EQUAL", "LESS_THAN", "GREATER_THAN"}
      /\ OperatorsOf["parseAddativeExpression"] = {"ADDITION", "SUBTRACTION"}
      /\ OperatorsOf["parseMultiplicativeExpression"] = {"MULTIPLICATION", "DIVISION"}
  BY DEF OperatorsOf
<1>3. \A op : op \in Operators <=> \E level \in Levels : op \in OperatorsOf[level]
  BY DEF Operators
<1> QED BY <1>1, <1>2, <1>3

LEMMA MakeBinaryHolds == ASSUME PInv, makeBinary PROVE PInv'
<1> DEFINE op == Top.word
           comparing == op \in OperatorsOf["parseComparisonExpression"]
           node == [type |-> IF comparing THEN "COMPARISON_EXPRESSION"
                             ELSE "BINARY_EXPRESSION",
                    operator |-> op, left |-> Top.node, right |-> value]
<1>1. /\ calls # <<>> /\ status = "parsing" /\ error = "NO_ERR"
      /\ Top.function = "makeBinary" /\ Made(node) /\ Context /\ next' = next
  BY DEF makeBinary, In, Made
<1>2. /\ value \in 0 .. Len(nodes) /\ Len(nodes) \in Nat /\ next \in next .. Len(tokens) + 1
      /\ Top.node \in 0 .. Len(nodes) /\ op \in Operators
      /\ Ordered /\ calls[1] = Top /\ 1 \in DOMAIN calls
  BY <1>1, Steps DEF Suits
<1>3. /\ Gives(Top) = RankOf(op) - 1 /\ RankOf(op) \in 1 .. 3
      /\ Binds(Top.node, RankOf(op)) /\ Binds(value, RankOf(op))
  <2>1. Expects(Top) = RankOf(op) BY <1>1 DEF Expects
  <2>2. Gives(Top) = Expects(Top) - 1 BY <1>1, OperatorKinds DEF Gives
  <2> QED BY <1>1, <1>2, <2>1, <2>2, Ranks DEF Ordered
<1>4. comparing => RankOf(op) = 1 BY OperatorKinds DEF RankOf
<1>5. ASSUME NEW p, Len(p) = Len(nodes) + 1 PROVE node \in Generator!NodeOf(p)
  <2>1. Top.node \in 0 .. Len(p) /\ value \in 0 .. Len(p) BY <1>2, <1>5
  <2>2. CASE comparing
    BY <1>2, <2>1, <2>2, OperatorKinds
       DEF Generator!NodeOf, Generator!Ref, Generator!Comparing
  <2>3. CASE ~comparing
    BY <1>2, <2>1, <2>3, OperatorKinds
       DEF Generator!NodeOf, Generator!Ref, Generator!Arithmetic
  <2> QED BY <2>2, <2>3
<1>6. TightnessOf(node) = RankOf(op) - 1 BY <1>4 DEF TightnessOf
<1>7. Top.function \notin Starters
  BY <1>1 DEF Starters, Levels, OperatorsOf, KeywordOf
<1>8. (IF node.type = "COMPARISON_EXPRESSION" THEN 1 ELSE RankOf(node.operator)) = RankOf(op)
  BY <1>4
<1>9. node.left = Top.node /\ node.right = value OBVIOUS
<1> HIDE DEF node
<1>10. Gives(Top) <= TightnessOf(node) BY <1>3, <1>6
<1>11. \A r \in 0 .. 3 :
         r = (IF node.type = "COMPARISON_EXPRESSION" THEN 1 ELSE RankOf(node.operator))
         => Binds(node.left, r) /\ Binds(node.right, r)
  BY <1>3, <1>8, <1>9
<1> QED BY <1>1, <1>2, <1>5, <1>7, <1>9, <1>10, <1>11, MakeStep

-----------------------------------------------------------------------------
(* Operands.                                                               *)

\* Who waits below the innermost activation waits on.
LEMMA WaitsOn ==
  ASSUME PInv, calls # <<>>, status = "parsing", NEW news \in Seq(Frames), Calls(news),
         NEW s \in Int, s = Len(news) + 1, NEW i \in 2 .. Len(calls),
         NEW q, q = i + (Len(news) - 1)
  PROVE  /\ ComparisonFrom(2, i) => ComparisonFrom(s, q)'
         /\ AddativeFrom(2, i) => AddativeFrom(s, q)'
         /\ MultiplicativeFrom(2, i) => MultiplicativeFrom(s, q)'
<1>1. /\ Len(news) \in Nat /\ Len(calls) \in Nat
      /\ \A j \in 2 .. Len(calls) : calls'[j + (Len(news) - 1)] = calls[j]
  BY CallsShift, Steps DEF Stacked
<1>0. PICK d \in Int : d = Len(news) - 1 /\ s = 2 + d
  <2>1. Len(news) - 1 \in Int /\ s = 2 + (Len(news) - 1) BY <1>1
  <2> QED BY <2>1
<1>9. q \in Int /\ q = i + d BY <1>0, <1>1
<1>2. \A j \in 2 .. Len(calls), p \in Int : p = j + d => calls'[p] = calls[j]
  BY <1>0, <1>1
<1>3. ASSUME NEW k \in 2 .. Len(calls), NEW p \in Int, p = k + d, NEW level, Waits(k, level)
      PROVE  Waits(p, level)'
  BY <1>2, <1>3 DEF Waits
<1>4. ASSUME NEW k \in 2 .. 4, NEW p \in Int, p = k + d, ComparisonFrom(k, i)
      PROVE  ComparisonFrom(p, q)'
  BY SMTT(30), <1>1, <1>9, <1>3, <1>4 DEF ComparisonFrom
<1>5. ASSUME NEW k \in 2 .. 3, NEW p \in Int, p = k + d, AddativeFrom(k, i)
      PROVE  AddativeFrom(p, q)'
  <2>1. ComparisonFrom(k + 1, i) /\ Waits(k, "parseAddativeExpression") BY <1>5 DEF AddativeFrom
  <2>2. k + 1 \in 2 .. 4 /\ p + 1 = (k + 1) + d /\ p + 1 \in Int BY <1>5
  <2>3. PICK r \in 2 .. 4, o \in Int : r = k + 1 /\ o = p + 1 BY <2>2
  <2>4. ComparisonFrom(o, q)' BY <1>4, <2>1, <2>2, <2>3
  <2>5. k \in 2 .. Len(calls) BY <1>1, <2>1 DEF ComparisonFrom
  <2>6. Waits(p, "parseAddativeExpression")' BY <1>3, <1>5, <2>1, <2>5
  <2> QED BY <2>3, <2>4, <2>6 DEF AddativeFrom, ComparisonFrom, Waits
<1>6. ASSUME NEW p \in Int, p = 2 + d, MultiplicativeFrom(2, i)
      PROVE  MultiplicativeFrom(p, q)'
  <2>1. AddativeFrom(3, i) /\ Waits(2, "parseMultiplicativeExpression")
    BY <1>6 DEF MultiplicativeFrom
  <2>2. PICK o \in Int : o = p + 1 /\ o = 3 + d BY <1>6
  <2>3. AddativeFrom(o, q)' BY <1>5, <2>1, <2>2
  <2>4. 2 \in 2 .. Len(calls) BY <1>1
  <2>5. Waits(p, "parseMultiplicativeExpression")' BY <1>3, <1>6, <2>1, <2>4
  <2> QED BY <2>2, <2>3, <2>5 DEF MultiplicativeFrom, AddativeFrom, ComparisonFrom, Waits
<1> QED BY <1>0, <1>4, <1>5, <1>6

\* A step that hands on what a statement may have to read.
LEMMA PassStep ==
  ASSUME PInv, calls # <<>>, status = "parsing", error = "NO_ERR",
         Top.function \notin ScopeWork,
         Context, UNCHANGED <<next, nodes>>, error' = error, value' \in 0 .. Len(nodes),
         NEW news \in Seq(Frames), Calls(news), Hands(news),
         \A j \in DOMAIN news :
           /\ news[j].function \notin ScopeWork /\ Suits(news[j])
           /\ news[j].function \in DOMAIN KeywordOf =>
                /\ j = 1 /\ next <= Len(tokens)
                /\ tokens[next].type = KeywordOf[news[j].function],
         \A i \in 2 .. Len(calls) : Unread(i) =>
           \A q : q = i + (Len(news) - 1) => Unread(q)'
  PROVE  PInv'
<1>1. /\ Kept /\ Stacked /\ Len(nodes) \in Nat /\ Len(tokens) \in Nat /\ next \in Nat
  BY Steps
<1>2. /\ tokens' = tokens /\ grouped' = grouped /\ status' = status
      /\ next' = next /\ nodes' = nodes
  BY DEF Context
<1>3. Kept' BY <1>1, <1>2 DEF Kept
<1>4. Grown BY <1>1, <1>2, GrownSame
<1>5. Replaces(news)
  <2>1. \A j \in DOMAIN news : Suits(news[j])' BY <1>2 DEF Suits
  <2>2. \A j \in DOMAIN news : news[j].function \notin Fillers \cup Loops \cup {"parseScopeNode"}
    BY DEF ScopeWork, Fillers, Loops
  <2>3. \A j \in DOMAIN news : news[j].function \in DOMAIN KeywordOf =>
          /\ j = 1 /\ error' = "NO_ERR" /\ next' <= Len(tokens')
          /\ tokens'[next'].type = KeywordOf[news[j].function]
    BY <1>2
  <2>4. \A j \in DOMAIN news : news[j].function # "addStatement" BY DEF ScopeWork
  <2>5. Top.function # "addStatement" BY DEF ScopeWork
  <2> QED BY <2>1, <2>2, <2>3, <2>4, <2>5 DEF Replaces
<1>6. Advances(news)
  <2>1. news # <<>> => 1 \in DOMAIN news BY EmptySeq, LenProperties
  <2>2. \A j \in DOMAIN news : news[j].function \notin Loops \cup {"parseScopeNode", "addStatement"}
    BY DEF ScopeWork
  <2>3. Top.function # "addStatement" BY DEF ScopeWork
  <2> QED BY <1>1, <1>2, <2>1, <2>2, <2>3 DEF Advances
<1>7. Range(grouped) \subseteq Range(grouped') BY <1>2
<1> QED BY <1>2, <1>3, <1>4, <1>5, <1>6, <1>7, Step

LEMMA BelowKinds ==
  /\ Below["parseComparisonExpression"] = "parseAddativeExpression"
  /\ Below["parseAddativeExpression"] = "parseMultiplicativeExpression"
  /\ Below["parseMultiplicativeExpression"] = "parsePrimaryExpression"
BY DEF Below

\* The level below hands back what an operator of the level waits for.
LEMMA BelowBinds ==
  ASSUME NEW level \in Levels, NEW a, a = Call(Below[level])
  PROVE  /\ a \in Frames /\ a.node = 0
         /\ a.function \in Levels \cup {"parsePrimaryExpression"}
         /\ a.function = Below[level]
         /\ Expects(a) = 0 /\ Gives(a) = LevelRank(level)
         /\ \A op \in OperatorsOf[level] : RankOf(op) = LevelRank(level) /\ op \in Operators
<1>1. Below[level] \in Levels \cup {"parsePrimaryExpression"}
  BY BelowKinds, OperatorKinds
<1>2. /\ a \in Frames /\ a.node = 0 /\ a.function = Below[level]
  BY <1>1, CallFrame DEF ParserFunctions
<1>3. Expects(a) = 0 BY <1>1, <1>2, OperatorKinds DEF Expects
<1>4. Gives(a) = LevelRank(level)
  BY <1>2, BelowKinds, OperatorKinds DEF Gives, LevelRank
<1>5. \A op \in OperatorsOf[level] : RankOf(op) = LevelRank(level) /\ op \in Operators
  BY OperatorKinds DEF RankOf, LevelRank
<1> QED BY <1>1, <1>2, <1>3, <1>4, <1>5

LEMMA OperandHolds == ASSUME PInv, NEW level \in Levels, Operand(level) PROVE PInv'
<1> DEFINE a == Call(Below[level])
           b == Activation("operator", 0, level)
<1>1. /\ calls # <<>> /\ status = "parsing" /\ error = "NO_ERR"
      /\ Top.function = level /\ Context
      /\ next' = next /\ nodes' = nodes /\ error' = error /\ value' = value
  BY DEF Operand, In, Result
<1>2. /\ calls[1] = Top /\ Len(calls) \in Nat /\ Len(nodes) \in Nat /\ next \in Nat
      /\ value \in 0 .. Len(nodes) /\ Stacked
  BY <1>1, Steps
<1>3. /\ a \in Frames /\ a.node = 0 /\ a.function \in Levels \cup {"parsePrimaryExpression"}
      /\ a.function = Below[level] /\ Expects(a) = 0 /\ Gives(a) = LevelRank(level)
  BY BelowBinds
<1>4. b \in Frames /\ b.node = 0 /\ b.function = "operator" /\ b.word = level
  BY DEF Activation, Frames, ParserFunctions
<1>5. PICK x \in Frames, y \in Frames : x = a /\ y = b BY <1>3, <1>4
<1>6. PICK news \in Seq(Frames) :
        /\ news # <<>> /\ DOMAIN news = {1, 2} /\ Len(news) = 2 /\ Calls(news)
        /\ news[1] = x /\ news[2] = y
  <2>1. Calls(<<x, y>>) BY <1>5 DEF Operand
  <2> QED BY <2>1, TwoCalls
<1>7. /\ x.node = 0 /\ x.function \in Levels \cup {"parsePrimaryExpression"}
      /\ x.function = Below[level] /\ Expects(x) = 0 /\ Gives(x) = LevelRank(level)
      /\ y.node = 0 /\ y.function = "operator" /\ y.word = level
  BY <1>3, <1>4, <1>5
<1> HIDE DEF a, b
<1>8. Suits(x) /\ Suits(y)
  BY <1>2, <1>7, OperatorKinds DEF Suits, Fillers
<1>9. /\ x.function \notin ScopeWork \cup DOMAIN KeywordOf
      /\ y.function \notin ScopeWork \cup DOMAIN KeywordOf
      /\ Top.function \notin ScopeWork
  BY <1>1, <1>7, OperatorKinds DEF ScopeWork, Loops, KeywordOf
<1>10. Hands(news)
  <2>1. Expects(y) = LevelRank(level) /\ Gives(y) = LevelRank(level) - 1
    BY <1>7, OperatorKinds DEF Expects, Gives
  <2>2. Gives(Top) = LevelRank(level) - 1 BY <1>1, OperatorKinds DEF Gives
  <2>3. x.function # "makeBinary" /\ y.function # "makeBinary"
    BY <1>7, OperatorKinds
  <2>4. LevelRank(level) \in 1 .. 3 BY Ranks
  <2> QED BY <1>1, <1>2, <1>6, <1>7, <2>1, <2>2, <2>3, <2>4, BindsNothingNext DEF Hands
<1>11. ASSUME NEW i \in 2 .. Len(calls), Unread(i), NEW q, q = i + (Len(news) - 1)
       PROVE  Unread(q)'
  <2>1. /\ calls'[1] = x /\ calls'[2] = y
    BY ZenonT(60), <1>1, <1>2, <1>6, CallsShift DEF Stacked
  <2>2. q = i + 1 /\ q \in Int BY <1>6, <1>11
  <2>3. /\ ComparisonFrom(2, i) => ComparisonFrom(3, q)'
        /\ AddativeFrom(2, i) => AddativeFrom(3, q)'
    <3>1. 3 = Len(news) + 1 BY <1>6
    <3>2. 3 \in Int OBVIOUS
    <3>3. ComparisonFrom(2, i) => ComparisonFrom(3, q)' BY <1>1, <1>6, <1>11, <3>1, <3>2, WaitsOn, ZenonT(40)
    <3>4. AddativeFrom(2, i) => AddativeFrom(3, q)' BY <1>1, <1>6, <1>11, <3>1, <3>2, WaitsOn, ZenonT(40)
    <3> QED BY <3>3, <3>4
  <2>4. NoKeyword(tokens[next]) /\ Descends(i)
    BY <1>1, <1>2, <1>11, OperatorKinds
       DEF Unread, Begins, Ascends, MultiplicativeFrom, AddativeFrom, ComparisonFrom,
           Waits, KeywordOf
  <2>5. Descends(q)'
    <3>1. CASE level = "parseComparisonExpression"
      <4>1. i = 2 BY <1>1, <1>2, <2>4, <3>1 DEF Descends
      <4>2. x.function = "parseAddativeExpression" BY <1>7, <3>1, BelowKinds
      <4>3. ComparisonFrom(2, q)' BY <1>7, <2>1, <2>2, <3>1, <4>1 DEF ComparisonFrom, Waits
      <4> QED BY <2>1, <4>2, <4>3 DEF Descends
    <3>2. CASE level = "parseAddativeExpression"
      <4>1. ComparisonFrom(2, i) BY <1>1, <1>2, <2>4, <3>2 DEF Descends
      <4>2. x.function = "parseMultiplicativeExpression" BY <1>7, <3>2, BelowKinds
      <4>3. AddativeFrom(2, q)'
        BY <1>7, <2>1, <2>3, <3>2, <4>1 DEF AddativeFrom, ComparisonFrom, Waits
      <4> QED BY <2>1, <4>2, <4>3 DEF Descends
    <3>3. CASE level = "parseMultiplicativeExpression"
      <4>1. AddativeFrom(2, i) BY <1>1, <1>2, <2>4, <3>3 DEF Descends
      <4>2. x.function = "parsePrimaryExpression" BY <1>7, <3>3, BelowKinds
      <4>3. MultiplicativeFrom(2, q)'
        BY <1>7, <2>1, <2>3, <3>3, <4>1
           DEF MultiplicativeFrom, AddativeFrom, ComparisonFrom, Waits
      <4> QED BY <2>1, <4>2, <4>3 DEF Descends
    <3> QED BY <3>1, <3>2, <3>3, OperatorKinds
  <2>6. NoKeyword(tokens[next])' BY <1>1, <2>4 DEF Context, NoKeyword
  <2> QED BY <1>1, <2>5, <2>6 DEF Unread
<1>12. \A j \in DOMAIN news :
         /\ news[j].function \notin ScopeWork /\ Suits(news[j])
         /\ news[j].function \notin DOMAIN KeywordOf
  BY <1>6, <1>8, <1>9
<1> QED BY <1>1, <1>2, <1>6, <1>9, <1>10, <1>11, <1>12, PassStep

\* A step that reads, and calls.
LEMMA ReadStep ==
  ASSUME PInv, calls # <<>>, status = "parsing", error = "NO_ERR",
         Top.function # "addStatement",
         Context, UNCHANGED nodes, error' = error, value' \in 0 .. Len(nodes),
         next' \in next .. Len(tokens) + 1,
         NEW news \in Seq(Frames), Calls(news), Hands(news),
         \A j \in DOMAIN news :
           /\ news[j].function \notin ScopeWork \cup Fillers \cup DOMAIN KeywordOf
           /\ Suits(news[j]),
         Top.function \in Starters => next < next' /\ ~Stray(tokens[next])
  PROVE  PInv'
<1>1. /\ Kept /\ Stacked /\ Len(nodes) \in Nat /\ Len(tokens) \in Nat /\ next \in Nat
      /\ next >= 1
  BY Steps
<1>2. tokens' = tokens /\ grouped' = grouped /\ status' = status /\ nodes' = nodes
  BY DEF Context
<1>3. Kept' BY <1>1, <1>2 DEF Kept
<1>4. Grown BY <1>1, <1>2, GrownSame
<1>5. Replaces(news)
  <2>1. \A j \in DOMAIN news : Suits(news[j])' BY <1>2 DEF Suits
  <2> QED BY <2>1, PlainReplaces
<1>6. Advances(news) BY <1>1, <1>2, PlainAdvances
<1>7. Range(grouped) \subseteq Range(grouped') BY <1>2
<1> QED BY <1>2, <1>3, <1>4, <1>5, <1>6, <1>7, Step

LEMMA OperatorHolds == ASSUME PInv, operator PROVE PInv'
<1> DEFINE t == tokens[next]
           op == OperatorOf(t)
           w == Top.word
           b == Activation("makeBinary", value, op)
<1>1. /\ calls # <<>> /\ status = "parsing" /\ error = "NO_ERR" /\ next <= Len(tokens)
      /\ Top.function = "operator" /\ Context /\ nodes' = nodes
  BY DEF operator, Reads, In
<1>2. /\ calls[1] = Top /\ Len(calls) \in Nat /\ Len(nodes) \in Nat /\ next \in Nat
      /\ next >= 1 /\ 1 \in DOMAIN calls
      /\ Len(tokens) \in Nat /\ value \in 0 .. Len(nodes) /\ Stacked /\ Ordered
      /\ w \in Levels
  BY <1>1, Steps DEF Suits
<1>0. Peek(0) = t BY <1>1, <1>2, Steps, PeekIs
<1>3. /\ Expects(Top) = LevelRank(w) /\ Gives(Top) = LevelRank(w) - 1
      /\ LevelRank(w) \in 1 .. 3 /\ Binds(value, LevelRank(w))
  <2>1. Expects(Top) = LevelRank(w) BY <1>1 DEF Expects
  <2>2. Gives(Top) = Expects(Top) - 1 BY <1>1, OperatorKinds DEF Gives
  <2> QED BY <1>1, <1>2, <2>1, <2>2, Ranks DEF Ordered
<1>4. /\ Top.function \notin ScopeWork /\ Top.function # "addStatement"
  BY <1>1 DEF ScopeWork, Loops
<1>5. CASE op \in OperatorsOf[w]
  <2> DEFINE a == Call(Below[w])
  <2>1. /\ a \in Frames /\ a.node = 0 /\ a.function \in Levels \cup {"parsePrimaryExpression"}
        /\ Expects(a) = 0 /\ Gives(a) = LevelRank(w)
        /\ RankOf(op) = LevelRank(w) /\ op \in Operators
    BY <1>2, <1>5, BelowBinds
  <2>2. /\ b \in Frames /\ b.node = value /\ b.function = "makeBinary" /\ b.word = op
    <3> HIDE DEF op
    <3>1. value \in Nat BY <1>2
    <3> QED BY <2>1, <3>1 DEF Activation, Frames, ParserFunctions
  <2>3. PICK x \in Frames, y \in Frames : x = a /\ y = b BY <2>1, <2>2
  <2>4. /\ Calls(<<x, y>>) /\ next' = next + 1 /\ error' = error /\ value' = value
    BY <1>2, <1>0, <1>5, <2>3 DEF operator, Pop, Result
  <2>5. PICK news \in Seq(Frames) :
        /\ news # <<>> /\ DOMAIN news = {1, 2} /\ Len(news) = 2 /\ Calls(news)
        /\ news[1] = x /\ news[2] = y
    BY <2>4, TwoCalls
  <2>6. /\ x.node = 0 /\ x.function \in Levels \cup {"parsePrimaryExpression"}
        /\ Expects(x) = 0 /\ Gives(x) = LevelRank(w)
        /\ y.node = value /\ y.function = "makeBinary" /\ y.word = op
    BY <2>1, <2>2, <2>3
  <2> HIDE DEF a, b
  <2>7. ~Stray(t)
    <3>1. op # "UNKNOWN" BY <1>2, <1>5, OperatorKinds
    <3>2. t.type = "OPERATOR" /\ t.operator = op BY <3>1 DEF OperatorOf
    <3>3. t.operator \in UNION {OperatorsOf[level] : level \in DOMAIN OperatorsOf}
      BY <1>2, <1>5, <3>2 DEF Levels
    <3> QED BY <3>2, <3>3 DEF Stray
  <2>8. Suits(x) /\ Suits(y) BY <1>2, <2>1, <2>6, OperatorKinds DEF Suits, Fillers
  <2>9. /\ x.function \notin ScopeWork \cup Fillers \cup DOMAIN KeywordOf
        /\ y.function \notin ScopeWork \cup Fillers \cup DOMAIN KeywordOf
    BY <2>6, OperatorKinds DEF ScopeWork, Loops, KeywordOf, Fillers
  <2>10. Hands(news)
    <3>1. Expects(y) = LevelRank(w) /\ Gives(y) = LevelRank(w) - 1
      BY <2>1, <2>6, OperatorKinds DEF Expects, Gives
    <3>2. x.function # "makeBinary" BY <2>6, OperatorKinds
    <3>3. RankOf(y.word)' = LevelRank(w) BY <2>1, <2>6 DEF RankOf
    <3>4. \A r : r = LevelRank(w) => Binds(value, r)'
      BY <1>1, <1>3, <2>4 DEF Binds, Tightness, Context, RankOf
    <3>5. Binds(y.node, RankOf(y.word))'
      BY <2>4, <2>6, <3>3, <3>4 DEF Binds, Tightness
    <3> QED BY <1>1, <1>2, <1>3, <2>5, <2>6, <3>1, <3>2, <3>5, BindsNothingNext DEF Hands
  <2>11. \A j \in DOMAIN news :
           /\ news[j].function \notin ScopeWork \cup Fillers \cup DOMAIN KeywordOf
           /\ Suits(news[j])
    BY <2>5, <2>8, <2>9
  <2>12. next' \in next .. Len(tokens) + 1 /\ next < next' BY <1>1, <1>2, <2>4
  <2>13. value' \in 0 .. Len(nodes) BY <1>2, <2>4
  <2> QED BY <1>1, <1>4, <2>4, <2>5, <2>7, <2>10, <2>11, <2>12, <2>13, ReadStep
<1>6. CASE op \notin OperatorsOf[w]
  <2>1. Calls(<<>>) /\ next' = next /\ value' = value /\ error' = error
    BY <1>2, <1>0, <1>6 DEF operator, Returns
  <2>2. PICK news \in Seq(Frames) :
          news = <<>> /\ DOMAIN news = {} /\ Len(news) = 0 /\ Calls(news)
    BY <2>1, NoCall
  <2>3. Hands(news)
    <3>0. PICK r \in 1 .. 3 : r = LevelRank(w) BY <1>3
    <3>1. PICK s \in 0 .. r : s = r - 1 OBVIOUS
    <3>2. Binds(value, s) BY <1>3, <3>0, <3>1, BindsLess
    <3>3. Binds(value, s)' BY <1>1, <2>1, <3>2 DEF Binds, Tightness, Context, RankOf
    <3> QED BY <1>1, <1>2, <1>3, <2>2, <3>0, <3>1, <3>3 DEF Hands
  <2>4. ASSUME NEW i \in 2 .. Len(calls), Unread(i), NEW q, q = i + (Len(news) - 1)
        PROVE  Unread(q)'
    <3>2. q = i - 1 /\ q \in Int BY <2>2, <2>4
    <3>3. /\ ComparisonFrom(2, i) => ComparisonFrom(1, q)'
          /\ AddativeFrom(2, i) => AddativeFrom(1, q)'
      <4>1. 1 = Len(news) + 1 BY <2>2
      <4>2. 1 \in Int OBVIOUS
      <4>3. ComparisonFrom(2, i) => ComparisonFrom(1, q)'
        BY <1>1, <2>2, <2>4, <4>1, <4>2, WaitsOn, Zenon
      <4>4. AddativeFrom(2, i) => AddativeFrom(1, q)'
        BY <1>1, <2>2, <2>4, <4>1, <4>2, WaitsOn, Zenon
      <4> QED BY <4>3, <4>4
    <3>4. NoOperand(t) /\ Ascends(i, op)
      BY <1>1, <1>2, <2>4, OperatorKinds DEF Unread, Begins, Descends, KeywordOf
    <3>5. op' = op /\ t' = t BY <1>1, <2>1 DEF Context, OperatorOf
    <3>6. q = 1 \/ Ascends(q, op)'
      <4>1. CASE w = "parseComparisonExpression"
        BY <1>2, <3>2, <3>4, <4>1 DEF Ascends, MultiplicativeFrom, AddativeFrom,
             ComparisonFrom, Waits
      <4>2. CASE w = "parseAddativeExpression"
        <5>1. /\ ComparisonFrom(2, i) /\ op \notin OperatorsOf["parseMultiplicativeExpression"]
          BY <1>2, <3>4, <4>2 DEF Ascends, MultiplicativeFrom, AddativeFrom,
               ComparisonFrom, Waits
        <5>2. ComparisonFrom(1, q)' BY <3>3, <5>1 DEF ComparisonFrom, Waits
        <5>3. /\ op' \notin OperatorsOf["parseMultiplicativeExpression"]
              /\ op' \notin OperatorsOf["parseAddativeExpression"]
          BY <1>6, <3>5, <4>2, <5>1
        <5> QED BY <5>2, <5>3 DEF Ascends
      <4>3. CASE w = "parseMultiplicativeExpression"
        <5>1. AddativeFrom(2, i)
          BY <1>2, <3>4, <4>3 DEF Ascends, MultiplicativeFrom, AddativeFrom,
               ComparisonFrom, Waits
        <5>2. AddativeFrom(1, q)'
          BY <3>3, <5>1 DEF AddativeFrom, ComparisonFrom, Waits
        <5>3. op' \notin OperatorsOf["parseMultiplicativeExpression"]
          BY <1>6, <3>5, <4>3
        <5> QED BY <5>2, <5>3 DEF Ascends
      <4> QED BY <1>2, <4>1, <4>2, <4>3, OperatorKinds
    <3>8. NoOperand(t)' BY <3>4, <3>5 DEF NoOperand, NoKeyword, OperatorOf
    <3>9. CASE Ascends(q, op)' BY <1>1, <2>1, <3>8, <3>9 DEF Unread
    <3>10. CASE q = 1
      <4>1. i = 2 BY <3>2, <3>10
      <4>2. /\ ComparisonFrom(1, 2) /\ op \notin OperatorsOf["parseMultiplicativeExpression"]
            /\ op \notin OperatorsOf["parseAddativeExpression"]
            /\ w = "parseComparisonExpression"
        BY <1>2, <3>4, <4>1 DEF Ascends, MultiplicativeFrom, AddativeFrom, ComparisonFrom,
             Waits
      <4>3. op \notin OperatorsOf["parseComparisonExpression"] BY <1>6, <4>2
      <4>4. op \notin Operators BY <4>2, <4>3, OperatorKinds
      <4>5. Stray(t)
        <5>1. t \in TokenOf(Names) BY <1>1, <1>2, Steps, TokensTyped
        <5>2. t.type \in PlainTypes \cup {"NUMBER", "IDENTIFIER", "OPERATOR"}
          BY <5>1, TokenFields
        <5>3. CASE t.type = "OPERATOR"
          <6>1. op = t.operator BY <5>3 DEF OperatorOf
          <6>2. op \notin DOMAIN IncDecOf BY <3>4 DEF NoOperand
          <6>3. op \notin UNION {OperatorsOf[level] : level \in DOMAIN OperatorsOf}
            BY <4>4 DEF Operators, Levels
          <6> QED BY <5>3, <6>1, <6>2, <6>3 DEF Stray
        <5>4. CASE t.type # "OPERATOR"
          BY <3>4, <5>2, <5>4 DEF Stray, NoOperand, NoKeyword, PlainTypes
        <5> QED BY <5>3, <5>4
      <4>6. Stray(t)' BY <3>5, <4>5 DEF Stray
      <4> QED BY <1>1, <2>1, <3>10, <4>6 DEF Unread
    <3> QED BY <3>6, <3>9, <3>10
  <2>5. value' \in 0 .. Len(nodes) BY <1>2, <2>1
  <2> QED BY <1>1, <1>4, <2>1, <2>2, <2>3, <2>4, <2>5, PassStep
<1> QED BY <1>5, <1>6

LEMMA TokenKinds ==
  ASSUME Kept, next <= Len(tokens)
  PROVE  /\ next \in Nat /\ next >= 1 /\ Len(tokens) \in Nat
         /\ tokens[next].type # "OPERATOR" => OperatorOf(tokens[next]) = "UNKNOWN"
         /\ tokens[next].type \in {"NUMBER", "IDENTIFIER", "OPEN_PAREN", "RETURN", "LET",
                                   "WHILE", "FUNCTION"} => ~Stray(tokens[next])
         /\ OperatorOf(tokens[next]) \in DOMAIN IncDecOf => ~Stray(tokens[next])
<1>1. next \in Nat /\ next >= 1 /\ Len(tokens) \in Nat BY TokensTyped
<1>2. DOMAIN IncDecOf = {"INCREMENT", "DECREMENT"} BY DEF IncDecOf
<1>3. ASSUME OperatorOf(tokens[next]) \in DOMAIN IncDecOf PROVE ~Stray(tokens[next])
  <2>1. tokens[next].type = "OPERATOR" /\ tokens[next].operator \in DOMAIN IncDecOf
    BY <1>2, <1>3 DEF OperatorOf
  <2> QED BY <2>1 DEF Stray
<1> QED BY <1>1, <1>3 DEF Stray, OperatorOf

LEMMA LiteralNodes ==
  ASSUME NEW v \in Int, NEW p
  PROVE  LiteralNode(v) \in Generator!NodeOf(p)
<1>1. U16(v) \in Word BY DEF U16, Word
<1> DEFINE w == U16(v)
           number == I16(w)
<1>2. LiteralNode(v) = [type |-> "NUMERIC_LITERAL", value |-> number]
  BY DEF LiteralNode
<1> HIDE DEF w
<1>3. w \in Word BY <1>1 DEF w
<1>4. number \in Generator!Int16 BY <1>3 DEF Word, I16, Generator!Int16
<1> HIDE DEF number
<1> QED BY <1>2, <1>4 DEF Generator!NodeOf

LEMMA PrimaryHolds == ASSUME PInv, parsePrimaryExpression PROVE PInv'
<1> DEFINE t == tokens[next]
<1>1. /\ calls # <<>> /\ status = "parsing" /\ error = "NO_ERR" /\ next <= Len(tokens)
      /\ Top.function = "parsePrimaryExpression" /\ Context
  BY DEF parsePrimaryExpression, Reads, In
<1>2. /\ calls[1] = Top /\ Len(calls) \in Nat /\ Len(nodes) \in Nat /\ next \in Nat
      /\ next >= 1 /\ 1 \in DOMAIN calls /\ Kept
      /\ Len(tokens) \in Nat /\ value \in 0 .. Len(nodes) /\ Stacked /\ Ordered
  BY <1>1, Steps
<1>3. Gives(Top) = 3 BY <1>1, OperatorKinds DEF Gives
<1>4. Top.function \notin ScopeWork /\ Top.function # "addStatement"
  BY <1>1 DEF ScopeWork, Loops
<1>5. next + 1 \in next .. Len(tokens) + 1 /\ next < next + 1 BY <1>1, <1>2
<1>6. CASE t.type = "NUMBER" /\ t.fits /\ next' = next + 1 /\ Made(LiteralNode(t.value))
  <2> DEFINE node == LiteralNode(t.value)
  <2>1. t.value \in Nat BY <1>1, <1>2, <1>6, TokenAt
  <2>2. \A p : node \in Generator!NodeOf(p) BY <2>1, LiteralNodes
  <2>3. TightnessOf(node) = 3 /\ node.type = "NUMERIC_LITERAL"
    BY DEF TightnessOf, LiteralNode
  <2>4. ~Stray(t) BY <1>1, <1>2, <1>6, TokenKinds
  <2>5. Made(node) BY <1>6
  <2> HIDE DEF node
  <2> QED BY <1>1, <1>3, <1>4, <1>5, <1>6, <2>2, <2>3, <2>4, <2>5, MakeStep
<1>7. CASE OperatorOf(t) \in DOMAIN IncDecOf /\ next' = next + 1
           /\ Made([type |-> "INC_DEC_EXPRESSION", op |-> IncDecOf[OperatorOf(t)]])
  <2> DEFINE node == [type |-> "INC_DEC_EXPRESSION", op |-> IncDecOf[OperatorOf(t)]]
  <2>1. IncDecOf[OperatorOf(t)] \in {"inc", "dec"} BY <1>7 DEF IncDecOf
  <2>2. \A p : node \in Generator!NodeOf(p) BY <2>1 DEF Generator!NodeOf
  <2>3. TightnessOf(node) = 3 /\ node.type = "INC_DEC_EXPRESSION" BY DEF TightnessOf
  <2>4. ~Stray(t) BY <1>1, <1>2, <1>7, TokenKinds
  <2>5. Made(node) BY <1>7
  <2> HIDE DEF node
  <2> QED BY <1>1, <1>3, <1>4, <1>5, <1>7, <2>2, <2>3, <2>4, <2>5, MakeStep
<1>8. CASE /\ t.type = "OPEN_PAREN" /\ next' = next + 1
           /\ Calls(<<Call("parseAddativeExpression"), Call("closeParen")>>)
           /\ UNCHANGED <<nodes, Result>>
  <2>1. PICK x \in Frames, y \in Frames :
          x = Call("parseAddativeExpression") /\ y = Call("closeParen")
    BY CallFrame, OperatorKinds DEF ParserFunctions
  <2>2. /\ x.function = "parseAddativeExpression" /\ x.node = 0
        /\ y.function = "closeParen" /\ y.node = 0
    BY <2>1 DEF Call, Activation
  <2>3. /\ Calls(<<x, y>>) /\ nodes' = nodes /\ error' = error /\ value' = value
        /\ t.type = "OPEN_PAREN" /\ next' = next + 1
    BY <1>8, <2>1 DEF Result
  <2>4. PICK news \in Seq(Frames) :
        /\ news # <<>> /\ DOMAIN news = {1, 2} /\ Len(news) = 2 /\ Calls(news)
        /\ news[1] = x /\ news[2] = y
    BY <2>3, TwoCalls
  <2>5. ~Stray(t) BY <1>1, <1>2, <2>3, TokenKinds
  <2>6. Suits(x) /\ Suits(y) BY <1>2, <2>2 DEF Suits, Fillers
  <2>7. /\ x.function \notin ScopeWork \cup Fillers \cup DOMAIN KeywordOf
        /\ y.function \notin ScopeWork \cup Fillers \cup DOMAIN KeywordOf
    BY <2>2 DEF ScopeWork, Loops, KeywordOf, Fillers
  <2>8. Hands(news)
    <3>1. Expects(x) = 0 /\ Expects(y) = 0 /\ Gives(y) = 3 /\ Gives(x) \in 0 .. 3
      BY <2>2, OperatorKinds, Ranks DEF Expects, Gives
    <3> QED BY <1>1, <1>2, <1>3, <2>2, <2>3, <2>4, <3>1, BindsNothingNext DEF Hands
  <2>9. \A j \in DOMAIN news :
           /\ news[j].function \notin ScopeWork \cup Fillers \cup DOMAIN KeywordOf
           /\ Suits(news[j])
    BY <2>4, <2>6, <2>7
  <2> QED BY <1>1, <1>2, <1>4, <1>5, <2>3, <2>4, <2>5, <2>8, <2>9, ReadStep
<1>9. CASE t.type = "IDENTIFIER" /\ Calls(<<Call("parseIdentifier")>>)
           /\ UNCHANGED <<next, nodes, Result>>
  <2>1. PICK x \in Frames : x = Call("parseIdentifier")
    BY CallFrame DEF ParserFunctions, KeywordOf
  <2>2. x.function = "parseIdentifier" /\ x.node = 0 BY <2>1 DEF Call, Activation
  <2>3. /\ Calls(<<x>>) /\ nodes' = nodes /\ error' = error /\ value' = value
        /\ t.type = "IDENTIFIER" /\ next' = next
    BY <1>9, <2>1 DEF Result
  <2>4. PICK news \in Seq(Frames) :
        /\ news # <<>> /\ DOMAIN news = {1} /\ Len(news) = 1 /\ Calls(news)
        /\ news[1] = x
    BY <2>3, OneCall
  <2>5. Suits(x) BY <1>2, <2>2 DEF Suits, Fillers
  <2>6. x.function \notin ScopeWork BY <2>2 DEF ScopeWork, Loops
  <2>7. Hands(news)
    <3>1. Expects(x) = 0 /\ Gives(x) = 3 BY <2>2, OperatorKinds DEF Expects, Gives
    <3> QED BY <1>1, <1>2, <1>3, <2>2, <2>3, <2>4, <3>1, BindsNothingNext DEF Hands
  <2>8. \A j \in DOMAIN news :
           /\ news[j].function \notin ScopeWork /\ Suits(news[j])
           /\ j = 1 /\ next <= Len(tokens)
           /\ tokens[next].type = KeywordOf[news[j].function]
    BY <1>1, <2>2, <2>3, <2>4, <2>5, <2>6 DEF KeywordOf
  <2>9. ASSUME NEW i \in 2 .. Len(calls), Unread(i), NEW q, q = i + (Len(news) - 1)
        PROVE  Unread(q)'
    <3>1. calls'[1] = x
      BY <1>1, <1>2, <2>4, CallsShift, 1 \in 1 .. 1 DEF Stacked
    <3>2. q = i /\ q \in Int BY <2>4, <2>9
    <3>3. MultiplicativeFrom(2, i) => MultiplicativeFrom(2, q)'
      <4>1. 2 = Len(news) + 1 BY <2>4
      <4>2. 2 \in Int OBVIOUS
      <4> QED BY <1>1, <2>4, <2>9, <4>1, <4>2, WaitsOn, Zenon
    <3>4. NoKeyword(t) /\ MultiplicativeFrom(2, i)
      BY SMTT(30), <1>1, <1>2, <2>9, OperatorKinds
         DEF Unread, Begins, Descends, Ascends, MultiplicativeFrom, AddativeFrom,
             ComparisonFrom, Waits, KeywordOf
    <3>5. MultiplicativeFrom(2, q)'
      BY <3>2, <3>3, <3>4 DEF MultiplicativeFrom, AddativeFrom, ComparisonFrom, Waits
    <3>6. NoKeyword(t)' BY <1>1, <2>3, <3>4 DEF NoKeyword, Context
    <3>7. Descends(q)' BY <2>2, <3>1, <3>5 DEF Descends
    <3> QED BY <1>1, <2>3, <3>6, <3>7 DEF Unread
  <2> QED BY <1>1, <1>2, <1>4, <2>3, <2>4, <2>7, <2>8, <2>9, PassStep
<1>10. CASE /\ t.type \notin {"NUMBER", "IDENTIFIER", "OPEN_PAREN"}
            /\ OperatorOf(t) \notin DOMAIN IncDecOf
            /\ Returns(0) /\ UNCHANGED <<next, nodes>>
  <2>1. Calls(<<>>) /\ value' = 0 /\ error' = error /\ next' = next /\ nodes' = nodes
    BY <1>10 DEF Returns
  <2>2. PICK news \in Seq(Frames) :
          news = <<>> /\ DOMAIN news = {} /\ Len(news) = 0 /\ Calls(news)
    BY <2>1, NoCall
  <2>3. Hands(news)
    <3>1. Tightness(value)' = 3 BY <2>1 DEF Tightness
    <3>2. \A r \in 0 .. 3 : Binds(value, r)' BY <3>1 DEF Binds
    <3> QED BY <1>1, <1>2, <2>1, <2>2, <3>2 DEF Hands
  <2>4. ASSUME NEW i \in 2 .. Len(calls), Unread(i), NEW q, q = i + (Len(news) - 1)
        PROVE  Unread(q)'
    <3>2. q = i - 1 /\ q \in Int BY <2>2, <2>4
    <3>3. MultiplicativeFrom(2, i) => MultiplicativeFrom(1, q)'
      <4>1. 1 = Len(news) + 1 BY <2>2
      <4>2. 1 \in Int OBVIOUS
      <4> QED BY <1>1, <2>2, <2>4, <4>1, <4>2, WaitsOn, Zenon
    <3>4. NoKeyword(t) /\ MultiplicativeFrom(2, i)
      BY <1>1, <1>2, <2>4, OperatorKinds
         DEF Unread, Begins, Descends, Ascends, MultiplicativeFrom, AddativeFrom,
             ComparisonFrom, Waits, KeywordOf
    <3>5. MultiplicativeFrom(1, q)'
      BY <3>2, <3>3, <3>4 DEF MultiplicativeFrom, AddativeFrom, ComparisonFrom, Waits
    <3>6. NoOperand(t) BY <1>10, <3>4 DEF NoOperand
    <3>7. t' = t BY <1>1, <2>1 DEF Context
    <3>8. NoOperand(t)' BY <3>6, <3>7 DEF NoOperand, NoKeyword, OperatorOf
    <3>9. \A op : Ascends(q, op)' BY <3>5 DEF Ascends
    <3> QED BY <1>1, <2>1, <3>8, <3>9 DEF Unread
  <2>5. value' \in 0 .. Len(nodes) BY <1>2, <2>1
  <2> QED BY <1>1, <1>2, <1>4, <2>1, <2>2, <2>3, <2>4, <2>5, PassStep
<1>11. Peek(0) = t BY <1>1, <1>2, Steps, PeekIs
<1> HIDE DEF t
<1> QED BY <1>6, <1>7, <1>8, <1>9, <1>10, <1>11
        DEF parsePrimaryExpression, Pop, Made

\* The innermost function was promised a token.
LEMMA Promised ==
  ASSUME PInv, calls # <<>>, status = "parsing", Top.function \in DOMAIN KeywordOf
  PROVE  /\ tokens[next].type = KeywordOf[Top.function]
         /\ error = "NO_ERR" /\ next + 1 <= Len(tokens)
         /\ ~Stray(tokens[next])
         /\ tokens[next + 1].type # "END_OF_FILE" => next + 2 <= Len(tokens)
         /\ tokens[next + 1].type = "IDENTIFIER" => tokens[next + 1].name \in Names
<1>1. /\ Kept /\ Nested /\ calls[1] = Top /\ 1 \in DOMAIN calls /\ next \in Nat
      /\ next >= 1 /\ Len(tokens) \in Nat
  BY Steps
<1>2. /\ tokens[next].type = KeywordOf[Top.function]
      /\ error = "NO_ERR" /\ next <= Len(tokens)
  BY <1>1 DEF Nested
<1>3. tokens[next].type \in {"RETURN", "LET", "WHILE", "FUNCTION", "IDENTIFIER"}
  BY <1>2 DEF KeywordOf
<1>4. next + 1 <= Len(tokens) BY <1>1, <1>2, <1>3, TokenAt
<1>5. ~Stray(tokens[next]) BY <1>1, <1>2, <1>3, TokenKinds
<1>6. PICK i \in Int : i = next + 1 BY <1>1
<1>7. /\ tokens[i].type # "END_OF_FILE" => i + 1 <= Len(tokens)
      /\ tokens[i].type = "IDENTIFIER" => tokens[i].name \in Names
  BY <1>1, <1>4, <1>6, TokenAt
<1> QED BY <1>1, <1>2, <1>4, <1>5, <1>6, <1>7

LEMMA IdentifierHolds == ASSUME PInv, parseIdentifier PROVE PInv'
<1> DEFINE t == tokens[next]
           t1 == tokens[next + 1]
<1>1. /\ calls # <<>> /\ status = "parsing" /\ error = "NO_ERR" /\ next <= Len(tokens)
      /\ Top.function = "parseIdentifier" /\ Context
  BY DEF parseIdentifier, Reads, In
<1>2. /\ Len(nodes) \in Nat /\ next \in Nat /\ next >= 1 /\ Kept /\ Len(tokens) \in Nat
  BY <1>1, Steps
<1>3. Gives(Top) = 3 BY <1>1, OperatorKinds DEF Gives
<1>4. Top.function # "addStatement" BY <1>1
<1>5. /\ t.type = "IDENTIFIER" /\ ~Stray(t) /\ next + 1 <= Len(tokens)
      /\ t1.type # "END_OF_FILE" => next + 2 <= Len(tokens)
  BY <1>1, Promised DEF KeywordOf
<1>0. Peek(1) = t1 BY <1>2, <1>5, PeekIs
<1>6. t.name \in Names BY <1>1, <1>2, <1>5, TokenAt
<1>7. ASSUME NEW node, Made(node), next' \in next + 1 .. Len(tokens) + 1,
             \A p : node \in Generator!NodeOf(p),
             node.type \in {"CALL_EXPRESSION", "IDENTIFIER"}
      PROVE  PInv'
  <2>1. TightnessOf(node) = 3 BY <1>7 DEF TightnessOf
  <2>2. next' \in next .. Len(tokens) + 1 /\ next < next' BY <1>2, <1>7
  <2> QED BY <1>1, <1>3, <1>4, <1>5, <1>7, <2>1, <2>2, MakeStep
<1>8. /\ next + 1 \in next + 1 .. Len(tokens) + 1
      /\ next + 2 \in next + 1 .. Len(tokens) + 1
      /\ t1.type = "OPEN_PAREN" => next + 3 \in next + 1 .. Len(tokens) + 1
  BY <1>2, <1>5
<1>9. CASE t1.type = "OPEN_PAREN" /\ tokens[next + 2].type = "CLOSE_PAREN"
  <2> DEFINE node == [type |-> "CALL_EXPRESSION", name |-> t.name]
  <2>1. Made(node) /\ next' = next + 3
    BY <1>2, <1>0, <1>9 DEF parseIdentifier, Made, Popped, Pop
  <2>2. node.type = "CALL_EXPRESSION" /\ \A p : node \in Generator!NodeOf(p)
    BY <1>6 DEF Generator!NodeOf
  <2> HIDE DEF node
  <2> QED BY <1>7, <1>8, <1>9, <2>1, <2>2
<1>10. CASE t1.type = "OPEN_PAREN" /\ tokens[next + 2].type # "CLOSE_PAREN"
  <2>1. Fails("SYNTAX_ERROR_PARENTHESIS_MISSMATCH") /\ next' = next + 3 /\ nodes' = nodes
    BY <1>2, <1>0, <1>10 DEF parseIdentifier, Popped, Pop
  <2>2. next' \in next .. Len(tokens) + 1 /\ next < next' BY <1>2, <1>8, <1>10, <2>1
  <2> QED BY <1>1, <1>5, <2>1, <2>2, FailStep
<1>11. ASSUME NEW op \in {"none", "inc", "dec"}, NEW node,
              node = [type |-> "IDENTIFIER", name |-> t.name, op |-> op]
       PROVE  node.type = "IDENTIFIER" /\ \A p : node \in Generator!NodeOf(p)
  BY <1>6, <1>11 DEF Generator!NodeOf
<1>12. CASE t1.type # "OPEN_PAREN" /\ OperatorOf(t1) \in DOMAIN IncDecOf
  <2> DEFINE op == IncDecOf[OperatorOf(t1)]
             node == [type |-> "IDENTIFIER", name |-> t.name, op |-> op]
  <2>1. Made(node) /\ next' = next + 2
    BY <1>2, <1>0, <1>12 DEF parseIdentifier, Made, Popped, Pop
  <2>2. op \in {"none", "inc", "dec"} BY <1>12 DEF IncDecOf
  <2>3. node.type = "IDENTIFIER" /\ \A p : node \in Generator!NodeOf(p) BY <1>11, <2>2
  <2> HIDE DEF node
  <2> QED BY <1>7, <1>8, <2>1, <2>3
<1>13. CASE t1.type # "OPEN_PAREN" /\ OperatorOf(t1) \notin DOMAIN IncDecOf
  <2> DEFINE node == [type |-> "IDENTIFIER", name |-> t.name, op |-> "none"]
  <2>1. Made(node) /\ next' = next + 1
    BY <1>2, <1>0, <1>13 DEF parseIdentifier, Made, Popped, Pop
  <2>3. node.type = "IDENTIFIER" /\ \A p : node \in Generator!NodeOf(p) BY <1>11
  <2> HIDE DEF node
  <2> QED BY <1>7, <1>8, <2>1, <2>3
<1> QED BY <1>9, <1>10, <1>12, <1>13

LEMMA CloseParenHolds == ASSUME PInv, closeParen PROVE PInv'
<1>1. /\ calls # <<>> /\ status = "parsing" /\ error = "NO_ERR" /\ next <= Len(tokens)
      /\ Top.function = "closeParen" /\ next' = next + 1
      /\ tokens' = tokens /\ nodes' = nodes /\ status' = status /\ dropped' = dropped
  BY DEF closeParen, Reads, In, Pop
<1>2. /\ Len(nodes) \in Nat /\ next \in Nat /\ next >= 1 /\ Kept /\ Len(tokens) \in Nat
      /\ value \in 0 .. Len(nodes) /\ Stacked
  BY <1>1, Steps
<1>3. Top.function \notin Starters /\ Top.function # "addStatement"
  BY <1>1 DEF Starters, Levels, OperatorsOf, KeywordOf
<1>4. next' \in next .. Len(tokens) + 1 BY <1>1, <1>2
<1>5. CASE tokens[next].type # "CLOSE_PAREN"
  <2>1. Fails("SYNTAX_ERROR_PARENTHESIS_MISSMATCH") /\ grouped' = grouped
    BY <1>2, <1>5 DEF closeParen, Popped
  <2> QED BY <1>1, <1>3, <1>4, <2>1, FailStep DEF Context
<1>6. CASE tokens[next].type = "CLOSE_PAREN"
  <2>1. Calls(<<>>) /\ value' = value /\ error' = error /\ grouped' = Append(grouped, value)
    BY <1>2, <1>6 DEF closeParen, Popped, Returns
  <2>2. PICK news \in Seq(Frames) :
          news = <<>> /\ DOMAIN news = {} /\ Len(news) = 0 /\ Calls(news)
    BY <2>1, NoCall
  <2>3. /\ grouped' \in Seq(Nat)
        /\ Range(grouped) \subseteq Range(grouped') /\ value \in Range(grouped')
    <3> DEFINE len == Len(grouped)
    <3>1. grouped \in Seq(Nat) /\ value \in Nat BY <1>2 DEF Kept
    <3>2. len \in Nat /\ DOMAIN grouped = 1 .. len BY <3>1, LenProperties
    <3>3. /\ grouped' \in Seq(Nat) /\ Len(grouped') = len + 1
          /\ \A i \in 1 .. len : grouped'[i] = grouped[i]
          /\ grouped'[len + 1] = value
      BY <2>1, <3>1, AppendProperties
    <3> HIDE DEF len
    <3>4. DOMAIN grouped' = 1 .. len + 1 BY <3>3, LenProperties
    <3> QED BY <3>2, <3>3, <3>4 DEF Range
  <2>4. Kept' BY <1>1, <1>2, <1>4, <2>1, <2>3 DEF Kept
  <2>5. Grown BY <1>1, <1>2, GrownSame
  <2>6. Replaces(news) BY <2>2 DEF Replaces
  <2>7. Advances(news)
    <3>1. next' \in Nat /\ next <= next' BY <1>1, <1>2
    <3> QED BY <1>1, <1>3, <2>2, <3>1, PlainAdvances
  <2>8. Hands(news)
    <3>1. \A r : Binds(value, r)' BY <2>1, <2>3 DEF Binds
    <3> QED BY <1>1, <1>2, <2>2, <3>1 DEF Hands
  <2> QED BY <1>1, <2>2, <2>3, <2>4, <2>5, <2>6, <2>7, <2>8, Step
<1> QED BY <1>5, <1>6

-----------------------------------------------------------------------------
(* Statements.                                                             *)

\* A statement asks for an expression, and waits for it at y.
LEMMA ExpressionStep ==
  ASSUME PInv, calls # <<>>, status = "parsing", error = "NO_ERR",
         Top.function \notin Fillers, Gives(Top) = 0,
         Context, UNCHANGED nodes, error' = error, value' \in 0 .. Len(nodes),
         next' \in next .. Len(tokens) + 1, next < next', ~Stray(tokens[next]),
         NEW x, x = Call("parseComparisonExpression"),
         NEW y \in Frames, Suits(y), Calls(<<x, y>>),
         y.function \in {"makeReturn", "makeLet", "closeCondition"}
  PROVE  PInv'
<1>1. /\ x \in Frames /\ x.function = "parseComparisonExpression" /\ x.node = 0
  BY CallFrame, OperatorKinds DEF ParserFunctions
<1>2. PICK news \in Seq(Frames) :
        /\ news # <<>> /\ DOMAIN news = {1, 2} /\ Len(news) = 2 /\ Calls(news)
        /\ news[1] = x /\ news[2] = y
  BY <1>1, TwoCalls
<1>3. Len(nodes) \in Nat BY Steps
<1>4. Suits(x) BY <1>1, <1>3 DEF Suits, Fillers
<1>5. /\ x.function \notin ScopeWork \cup Fillers \cup DOMAIN KeywordOf
      /\ y.function \notin ScopeWork \cup Fillers \cup DOMAIN KeywordOf
      /\ Top.function # "addStatement"
  BY <1>1 DEF ScopeWork, Loops, KeywordOf, Fillers
<1>6. Hands(news)
  <2>1. Expects(x) = 0 /\ Expects(y) = 0 /\ Gives(x) \in 0 .. 3 /\ Gives(y) \in 0 .. 3
    BY <1>1, OperatorKinds, Ranks DEF Expects
  <2>2. x.function # "makeBinary" /\ y.function # "makeBinary" BY <1>1
  <2> QED BY <1>2, <1>3, <2>1, <2>2, BindsNothingNext DEF Hands
<1>7. \A j \in DOMAIN news :
        /\ news[j].function \notin ScopeWork \cup Fillers \cup DOMAIN KeywordOf
        /\ Suits(news[j])
  BY <1>2, <1>4, <1>5
<1> QED BY <1>2, <1>5, <1>6, <1>7, ReadStep

LEMMA StatementGives ==
  Top.function \in {"parseStatement", "parseReturnStatement", "parseLetStatement",
                    "parseWhileStatement", "parseFunctionStatement", "closeCondition"} =>
    /\ Gives(Top) = 0 /\ Top.function \notin Fillers
    /\ Top.function \notin ScopeWork /\ Top.function # "addStatement"
BY OperatorKinds DEF Gives, Fillers, ScopeWork, Loops

LEMMA LetHolds == ASSUME PInv, parseLetStatement PROVE PInv'
<1>1. /\ calls # <<>> /\ status = "parsing" /\ error = "NO_ERR" /\ next <= Len(tokens)
      /\ Top.function = "parseLetStatement" /\ Context /\ nodes' = nodes
  BY DEF parseLetStatement, Reads, In
<1>2. /\ Len(nodes) \in Nat /\ next \in Nat /\ next >= 1 /\ Kept /\ Len(tokens) \in Nat
      /\ value \in 0 .. Len(nodes)
  BY <1>1, Steps
<1>3. Top.function \notin Fillers /\ Gives(Top) = 0 BY <1>1, StatementGives
<1>4. /\ ~Stray(tokens[next]) /\ next + 1 <= Len(tokens)
      /\ tokens[next + 1].type # "END_OF_FILE" => next + 2 <= Len(tokens)
      /\ tokens[next + 1].type = "IDENTIFIER" => tokens[next + 1].name \in Names
  BY <1>1, Promised DEF KeywordOf
<1>5. CASE tokens[next + 1].type # "IDENTIFIER"
  <2>1. Fails("SYNTAX_ERROR_EXPECTED_IDENTIFIER") /\ next' = next + 2
    BY <1>2, <1>5 DEF parseLetStatement, Popped, Pop
  <2>2. next' \in next .. Len(tokens) + 1 /\ next < next' BY <1>2, <1>4, <2>1
  <2> QED BY <1>1, <1>4, <2>1, <2>2, FailStep
<1>6. CASE tokens[next + 1].type = "IDENTIFIER"
  <2>1. next' = next + 3 BY <1>2, <1>6 DEF parseLetStatement, Popped, Pop
  <2>2. next' \in next .. Len(tokens) + 1 /\ next < next' BY <1>2, <1>4, <1>6, <2>1
  <2>3. CASE OperatorOf(tokens[next + 2]) # "ASSIGNMENT"
    <3>1. Fails("SYNTAX_ERROR_EXPECTED_OPERATOR")
      BY <1>2, <1>6, <2>3 DEF parseLetStatement, Popped
    <3> QED BY <1>1, <1>4, <2>2, <3>1, FailStep
  <2>4. CASE OperatorOf(tokens[next + 2]) = "ASSIGNMENT"
    <3> DEFINE x == Call("parseComparisonExpression")
               y == Activation("makeLet", 0, tokens[next + 1].name)
    <3>1. Calls(<<x, y>>) /\ value' = value /\ error' = error
      BY <1>2, <1>6, <2>4 DEF parseLetStatement, Popped, Result
    <3>2. y \in Frames /\ y.function = "makeLet" /\ y.node = 0 /\ y.word \in Names
      BY <1>4, <1>6 DEF Activation, Frames, ParserFunctions
    <3> HIDE DEF y
    <3>3. Suits(y) BY <1>2, <3>2 DEF Suits, Fillers
    <3>4. PICK z : z = x OBVIOUS
    <3> QED BY <1>1, <1>2, <1>3, <1>4, <2>2, <3>1, <3>2, <3>3, ExpressionStep
  <2> QED BY <2>3, <2>4
<1> QED BY <1>5, <1>6

LEMMA WhileHolds == ASSUME PInv, parseWhileStatement PROVE PInv'
<1>1. /\ calls # <<>> /\ status = "parsing" /\ error = "NO_ERR" /\ next <= Len(tokens)
      /\ Top.function = "parseWhileStatement" /\ Context /\ nodes' = nodes
      /\ next' = next + 2
  BY DEF parseWhileStatement, Reads, In, Pop
<1>2. /\ Len(nodes) \in Nat /\ next \in Nat /\ next >= 1 /\ Kept /\ Len(tokens) \in Nat
      /\ value \in 0 .. Len(nodes)
  BY <1>1, Steps
<1>3. Top.function \notin Fillers /\ Gives(Top) = 0 BY <1>1, StatementGives
<1>4. ~Stray(tokens[next]) /\ next + 1 <= Len(tokens)
  BY <1>1, Promised DEF KeywordOf
<1>5. next' \in next .. Len(tokens) + 1 /\ next < next' BY <1>1, <1>2, <1>4
<1>6. CASE tokens[next + 1].type # "OPEN_PAREN"
  <2>1. Fails("SYNTAX_ERROR_PARENTHESIS_MISSMATCH")
    BY <1>2, <1>6 DEF parseWhileStatement, Popped
  <2> QED BY <1>1, <1>4, <1>5, <2>1, FailStep
<1>7. CASE tokens[next + 1].type = "OPEN_PAREN"
  <2> DEFINE x == Call("parseComparisonExpression")
             y == Call("closeCondition")
  <2>1. Calls(<<x, y>>) /\ value' = value /\ error' = error
    BY <1>2, <1>7 DEF parseWhileStatement, Popped, Result
  <2>2. y \in Frames /\ y.function = "closeCondition" /\ y.node = 0
    BY CallFrame DEF ParserFunctions
  <2> HIDE DEF y
  <2>3. Suits(y) BY <1>2, <2>2 DEF Suits, Fillers
  <2> QED BY <1>1, <1>2, <1>3, <1>4, <1>5, <2>1, <2>2, <2>3, ExpressionStep
<1> QED BY <1>6, <1>7

LEMMA StatementHolds == ASSUME PInv, parseStatement PROVE PInv'
<1> DEFINE t == tokens[next]
           f == CASE t.type = "RETURN" -> "parseReturnStatement"
                  [] t.type = "LET" -> "parseLetStatement"
                  [] t.type = "WHILE" -> "parseWhileStatement"
                  [] t.type = "FUNCTION" -> "parseFunctionStatement"
                  [] OTHER -> "parseComparisonExpression"
           a == Call(f)
<1>1. /\ calls # <<>> /\ status = "parsing" /\ error = "NO_ERR" /\ next <= Len(tokens)
      /\ Top.function = "parseStatement" /\ Context /\ nodes' = nodes
      /\ next' = next /\ value' = value /\ error' = error
  BY DEF parseStatement, Reads, In, Result
<1>2. /\ Len(nodes) \in Nat /\ next \in Nat /\ next >= 1 /\ Kept /\ Len(tokens) \in Nat
      /\ value \in 0 .. Len(nodes) /\ calls[1] = Top /\ Len(calls) \in Nat /\ Stacked
  BY <1>1, Steps
<1>3. Top.function \notin ScopeWork /\ Gives(Top) = 0 BY <1>1, StatementGives
<1>4. /\ f \in {"parseReturnStatement", "parseLetStatement", "parseWhileStatement",
                "parseFunctionStatement", "parseComparisonExpression"}
      /\ f \in DOMAIN KeywordOf => t.type = KeywordOf[f]
      /\ f = "parseComparisonExpression" => NoKeyword(t)
  BY DEF KeywordOf, NoKeyword
<1>5. Calls(<<a>>) BY <1>1, <1>2, PeekIs DEF parseStatement
<1>6. a \in Frames /\ a.function = f /\ a.node = 0
  BY <1>4, CallFrame, OperatorKinds DEF ParserFunctions, KeywordOf
<1> HIDE DEF f, a
<1>7. PICK news \in Seq(Frames) :
        /\ news # <<>> /\ DOMAIN news = {1} /\ Len(news) = 1 /\ Calls(news)
        /\ news[1] = a
  BY <1>5, <1>6, OneCall
<1>8. Suits(a) BY <1>2, <1>4, <1>6 DEF Suits, Fillers
<1>9. a.function \notin ScopeWork BY <1>4, <1>6 DEF ScopeWork, Loops
<1>10. Hands(news)
  <2>1. Expects(a) = 0 /\ Gives(a) \in 0 .. 3 /\ a.function # "makeBinary"
    BY <1>4, <1>6, Ranks DEF Expects
  <2> QED BY <1>1, <1>2, <1>3, <1>7, <2>1, BindsNothingNext DEF Hands
<1>11. \A j \in DOMAIN news :
         /\ news[j].function \notin ScopeWork /\ Suits(news[j])
         /\ news[j].function \in DOMAIN KeywordOf =>
              /\ j = 1 /\ next <= Len(tokens)
              /\ tokens[next].type = KeywordOf[news[j].function]
  BY <1>1, <1>4, <1>6, <1>7, <1>8, <1>9
<1>12. ASSUME NEW i \in 2 .. Len(calls), Unread(i), NEW q, q = i + (Len(news) - 1)
       PROVE  Unread(q)'
  <2>1. calls'[1] = a BY <1>1, <1>2, <1>7, CallsShift, 1 \in 1 .. 1 DEF Stacked
  <2>2. i = 2
    BY <1>1, <1>2, <1>12
       DEF Unread, Begins, Descends, Ascends, MultiplicativeFrom, AddativeFrom,
           ComparisonFrom, Waits
  <2>3. q = 2 BY <1>7, <1>12, <2>2
  <2>4. CASE f = "parseComparisonExpression"
    <3>1. Descends(q)' BY <1>6, <2>1, <2>3, <2>4 DEF Descends
    <3>2. NoKeyword(t)' BY <1>1, <1>4, <2>4 DEF NoKeyword, Context
    <3> QED BY <1>1, <3>1, <3>2 DEF Unread
  <2>5. CASE f # "parseComparisonExpression"
    <3>1. Begins(q)' BY <1>4, <1>6, <2>1, <2>3, <2>5 DEF Begins, KeywordOf
    <3> QED BY <1>1, <3>1 DEF Unread
  <2> QED BY <2>4, <2>5
<1>13. value' \in 0 .. Len(nodes) BY <1>1, <1>2
<1> QED BY <1>1, <1>3, <1>7, <1>10, <1>11, <1>12, <1>13, PassStep

LEMMA ReturnHolds == ASSUME PInv, parseReturnStatement PROVE PInv'
<1>1. /\ calls # <<>> /\ status = "parsing" /\ error = "NO_ERR" /\ next <= Len(tokens)
      /\ Top.function = "parseReturnStatement" /\ Context /\ next' = next + 1
  BY DEF parseReturnStatement, Reads, In, Pop
<1>2. /\ Len(nodes) \in Nat /\ next \in Nat /\ next >= 1 /\ Kept /\ Len(tokens) \in Nat
      /\ value \in 0 .. Len(nodes)
  BY <1>1, Steps
<1>3. /\ Top.function \notin Fillers /\ Gives(Top) = 0 /\ Top.function # "addStatement"
  BY <1>1, StatementGives
<1>4. ~Stray(tokens[next]) BY <1>1, Promised DEF KeywordOf
<1>0. Peek(1) = tokens[next + 1]
  <2>1. next + 1 <= Len(tokens) BY <1>1, Promised DEF KeywordOf
  <2> QED BY <1>2, <2>1, PeekIs
<1>5. next' \in next .. Len(tokens) + 1 /\ next < next' BY <1>1, <1>2
<1>6. CASE tokens[next + 1].type # "END_OF_FILE"
  <2> DEFINE x == Call("parseComparisonExpression")
             y == Call("makeReturn")
  <2>1. Calls(<<x, y>>) /\ value' = value /\ error' = error /\ nodes' = nodes
    BY <1>2, <1>0, <1>6 DEF parseReturnStatement, Result
  <2>2. y \in Frames /\ y.function = "makeReturn" /\ y.node = 0
    BY CallFrame DEF ParserFunctions
  <2> HIDE DEF y
  <2>3. Suits(y) BY <1>2, <2>2 DEF Suits, Fillers
  <2> QED BY <1>1, <1>2, <1>3, <1>4, <1>5, <2>1, <2>2, <2>3, ExpressionStep
<1>7. CASE tokens[next + 1].type = "END_OF_FILE"
  <2> DEFINE zero == [type |-> "NUMERIC_LITERAL", value |-> 0]
             back == [type |-> "RETURN", expression |-> Len(nodes) + 1]
             more == <<zero, back>>
  <2>1. /\ nodes' = nodes \o more /\ Calls(<<>>)
        /\ value' = Len(nodes) + Len(more) /\ error' = error
    BY <1>2, <1>0, <1>7 DEF parseReturnStatement, Makes, Returns
  <2>2. /\ Len(more) = 2 /\ DOMAIN more = 1 .. Len(more) /\ Len(more) \in Nat
        /\ more[1] = zero /\ more[2] = back
        /\ \A T : zero \in T /\ back \in T => more \in Seq(T)
    OBVIOUS
  <2> HIDE DEF more
  <2>3. Len(nodes') = Len(nodes) + Len(more)
    <3> DEFINE S == Generator!NodeOf(nodes) \cup {zero, back}
    <3>1. nodes \in Seq(S) /\ more \in Seq(S) BY <1>2, <2>2 DEF Kept
    <3> HIDE DEF S
    <3> QED BY <2>1, <3>1, ConcatProperties
  <2>4. zero \in Generator!NodeOf(nodes') /\ back \in Generator!NodeOf(nodes')
    BY <1>2, <2>2, <2>3 DEF Generator!NodeOf, Generator!Ref, Generator!Int16
  <2>5. more \in Seq(Generator!NodeOf(nodes')) BY <2>2, <2>4
  <2>6. /\ nodes' \in Seq(Generator!NodeOf(nodes'))
        /\ Len(nodes') >= 1 /\ nodes'[1].type = "PROGRAM"
        /\ \A n \in 1 .. Len(nodes) : nodes'[n] = nodes[n]
        /\ \A n \in 1 .. Len(more) : nodes'[Len(nodes) + n] = more[n]
        /\ Grown
    BY <1>1, <1>2, <2>1, <2>2, <2>3, <2>5, NodesGrow
  <2>7. tokens' = tokens /\ grouped' = grouped /\ status' = status
    BY <1>1 DEF Context
  <2>8. Kept' BY <1>1, <1>2, <1>5, <2>1, <2>2, <2>3, <2>6, <2>7 DEF Kept
  <2>9. PICK news \in Seq(Frames) :
          news = <<>> /\ DOMAIN news = {} /\ Len(news) = 0 /\ Calls(news)
    BY <2>1, NoCall
  <2>10. Replaces(news) BY <2>9 DEF Replaces
  <2>11. Advances(news)
    <3>1. next' \in Nat /\ next <= next' /\ next < next' BY <1>2, <1>5
    <3> QED BY <1>1, <1>3, <1>4, <2>6, <2>9, <3>1, PlainAdvances
  <2>12. Hands(news)
    <3>1. ASSUME NEW n \in Len(nodes) + 1 .. Len(nodes') PROVE ~IsBinary(n)'
      <4>1. PICK m \in 1 .. 2 : n = Len(nodes) + m
        <5>1. n - Len(nodes) \in 1 .. 2 /\ n = Len(nodes) + (n - Len(nodes))
          BY <1>2, <2>2, <2>3
        <5> QED BY <5>1
      <4>2. nodes'[n] = more[m] BY <2>2, <2>6, <4>1
      <4> QED BY <2>2, <4>1, <4>2 DEF IsBinary
    <3> QED BY <1>3, <2>9, <3>1, BindsNothingNext DEF Hands
  <2>13. Range(grouped) \subseteq Range(grouped') BY <2>7
  <2>14. PInv'
    <3> HIDE DEF zero, back
    <3> QED BY <1>1, <2>6, <2>7, <2>8, <2>9, <2>10, <2>11, <2>12, <2>13, Step
  <2> QED BY <2>14
<1> QED BY <1>6, <1>7

\* A scope's node is made, and its statements asked for.
LEMMA ScopeStep ==
  ASSUME PInv, calls # <<>>, status = "parsing", error = "NO_ERR",
         Top.function \in {"closeCondition", "parseFunctionStatement"},
         tokens' = tokens, grouped' = grouped, status' = status,
         value' = value, error' = error,
         next' \in next .. Len(tokens) + 1, next < next',
         Top.function \in Starters => ~Stray(tokens[next]),
         NEW len, len = Len(nodes) + 1,
         NEW node, nodes' = Append(nodes, node),
         \A p : Len(p) = len => node \in Generator!NodeOf(p),
         node.type \in {"WHILE", "FUNCTION"}, node.body = <<>>,
         NEW news \in Seq(Frames), Calls(news), news # <<>>,
         news[1].function = "parseScopeNode", news[1].node = len,
         Len(news) <= 2,
         \A j \in DOMAIN news : j # 1 =>
           news[j].function = "endFunction" /\ news[j].node = len
  PROVE  PInv'
<1>1. /\ Kept /\ Stacked /\ Len(nodes) \in Nat /\ Len(tokens) \in Nat /\ next \in Nat
      /\ Len(nodes) >= 1 /\ next >= 1 /\ calls[1] = Top /\ Len(calls) \in Nat
      /\ value \in 0 .. Len(nodes)
  BY Steps
<1>2. /\ len \in Nat /\ len >= 1
      /\ 1 \in DOMAIN news /\ Len(news) \in Nat /\ DOMAIN news = 1 .. Len(news)
  BY <1>1, EmptySeq, LenProperties
<1>3. Len(nodes') = len /\ nodes'[len] = node
      /\ \A n \in 1 .. Len(nodes) : nodes'[n] = nodes[n]
  <2> DEFINE S == Generator!NodeOf(nodes) \cup {node}
  <2>1. nodes \in Seq(S) /\ node \in S BY <1>1 DEF Kept
  <2> HIDE DEF S
  <2> QED BY <1>1, <2>1, AppendProperties
<1>4. /\ nodes' \in Seq(Generator!NodeOf(nodes'))
      /\ nodes'[1].type = "PROGRAM" /\ Grown
  <2>1. Generator!Ref(nodes) \subseteq Generator!Ref(nodes')
    BY <1>1, <1>3 DEF Generator!Ref
  <2>2. Seq(Generator!Ref(nodes)) \subseteq Seq(Generator!Ref(nodes')) BY <2>1
  <2>3. Generator!NodeOf(nodes) \subseteq Generator!NodeOf(nodes')
    BY <2>1, <2>2 DEF Generator!NodeOf
  <2>4. node \in Generator!NodeOf(nodes') BY <1>3
  <2> DEFINE S == Generator!NodeOf(nodes')
  <2>5. nodes \in Seq(S) /\ node \in S BY <1>1, <2>3, <2>4 DEF Kept
  <2> HIDE DEF S
  <2>6. nodes' \in Seq(S) BY <2>5, AppendProperties
  <2>7. nodes[1].type = "PROGRAM" BY <1>1 DEF Kept
  <2> QED BY <1>1, <1>2, <1>3, <2>6, <2>7 DEF Grown, S
<1>5. Kept' BY <1>1, <1>2, <1>3, <1>4 DEF Kept
<1>6. \A j \in DOMAIN news :
        /\ news[j] \in Frames /\ news[j].node = len
        /\ news[j].function \in {"parseScopeNode", "endFunction"}
        /\ j # 1 => news[j].function = "endFunction"
  BY <1>2, ElementOfSeq
<1>7. \A j \in DOMAIN news : Suits(news[j])'
  BY <1>2, <1>3, <1>6 DEF Suits, Scopes, Fillers
<1>8. Replaces(news)
  <2>1. \A j \in DOMAIN news : news[j].node > Len(nodes) BY <1>1, <1>2, <1>6
  <2>2. \A j \in DOMAIN news : news[j].function \notin DOMAIN KeywordOf \cup Loops
    BY <1>6 DEF KeywordOf, Loops
  <2> QED BY <1>6, <1>7, <2>1, <2>2 DEF Replaces
<1>9. Advances(news)
  <2>1. ASSUME NEW i \in 2 .. Len(calls), Unread(i)
        PROVE  next < next' /\ ~Stray(tokens[next])
    BY <1>1, <2>1, UnreadTop
  <2>2. \A n \in Nat : n = len => Statements(n)' = 0 /\ Counted(n)'
    <3>1. Len(node.body) = 0 OBVIOUS
    <3>2. \A n \in Nat : n = len => Statements(n)' = 0 BY <1>3, <3>1 DEF Statements
    <3> QED BY <1>1, <3>2 DEF Counted
  <2>3. \A j \in DOMAIN news : news[j].function # "addStatement" BY <1>6
  <2>4. Top.function # "addStatement" OBVIOUS
  <2>5. news[1].node = len /\ 1 \in DOMAIN news BY <1>2
  <2> QED BY <1>1, <1>3, <2>1, <2>2, <2>3, <2>4, <2>5 DEF Advances
<1>10. Hands(news)
  <2>1. Gives(Top) = 0 BY StatementGives
  <2>2. \A j \in DOMAIN news :
          Expects(news[j]) = 0 /\ Gives(news[j]) = 0 /\ news[j].function # "makeBinary"
    BY <1>6, OperatorKinds DEF Expects, Gives
  <2>3. \A n \in Len(nodes) + 1 .. Len(nodes') : ~IsBinary(n)'
    BY <1>1, <1>3 DEF IsBinary
  <2>4. Len(news) \in DOMAIN news BY <1>2
  <2> QED BY <1>2, <2>1, <2>2, <2>3, <2>4, BindsNothingNext DEF Hands
<1>11. Range(grouped) \subseteq Range(grouped') OBVIOUS
<1> QED BY <1>4, <1>5, <1>8, <1>9, <1>10, <1>11, Step

LEMMA ConditionHolds == ASSUME PInv, closeCondition PROVE PInv'
<1>1. /\ calls # <<>> /\ status = "parsing" /\ error = "NO_ERR" /\ next <= Len(tokens)
      /\ Top.function = "closeCondition" /\ Context /\ next' = next + 1
  BY DEF closeCondition, Reads, In, Pop
<1>2. /\ Len(nodes) \in Nat /\ next \in Nat /\ next >= 1 /\ Kept /\ Len(tokens) \in Nat
      /\ value \in 0 .. Len(nodes)
  BY <1>1, Steps
<1>3. Top.function \notin Starters
  BY <1>1 DEF Starters, Levels, OperatorsOf, KeywordOf
<1>4. next' \in next .. Len(tokens) + 1 /\ next < next' BY <1>1, <1>2
<1>5. CASE tokens[next].type # "CLOSE_PAREN"
  <2>1. Fails("SYNTAX_ERROR_PARENTHESIS_MISSMATCH") /\ nodes' = nodes
    BY <1>2, <1>5 DEF closeCondition, Popped
  <2> QED BY <1>1, <1>3, <1>4, <2>1, FailStep
<1>6. CASE tokens[next].type = "CLOSE_PAREN"
  <2> DEFINE node == [type |-> "WHILE", condition |-> value, body |-> <<>>]
             len == Len(nodes) + 1
             a == Activation("parseScopeNode", len, "")
  <2>0. Popped(0).type = "CLOSE_PAREN" BY <1>2, <1>6 DEF Popped
  <2>1. nodes' = Append(nodes, node) /\ Calls(<<a>>) /\ value' = value /\ error' = error
    BY <2>0 DEF closeCondition, Result
  <2>2. \A p : Len(p) = len => node \in Generator!NodeOf(p)
    BY <1>2 DEF Generator!NodeOf, Generator!Ref
  <2>3. a \in Frames /\ a.function = "parseScopeNode" /\ a.node = len
    BY <1>2 DEF Activation, Frames, ParserFunctions
  <2>4. node.type = "WHILE" /\ node.body = <<>> OBVIOUS
  <2> HIDE DEF node, a
  <2>5. PICK news \in Seq(Frames) :
          /\ news # <<>> /\ DOMAIN news = {1} /\ Len(news) = 1 /\ Calls(news)
          /\ news[1] = a
    BY <2>1, <2>3, OneCall
  <2>6. /\ tokens' = tokens /\ grouped' = grouped /\ status' = status BY <1>1 DEF Context
  <2>7. /\ news[1].function = "parseScopeNode" /\ news[1].node = len /\ Len(news) <= 2
        /\ \A j \in DOMAIN news : j # 1 =>
             news[j].function = "endFunction" /\ news[j].node = len
    BY <2>3, <2>5
  <2>8. PICK l \in Nat : l = len BY <1>2
  <2>9. PICK x : x = node OBVIOUS
  <2> HIDE DEF len
  <2>10. /\ l = Len(nodes) + 1 /\ nodes' = Append(nodes, x)
         /\ \A p : Len(p) = l => x \in Generator!NodeOf(p)
         /\ x.type \in {"WHILE", "FUNCTION"} /\ x.body = <<>>
    BY <2>1, <2>2, <2>4, <2>8, <2>9 DEF len
  <2>11. /\ news[1].function = "parseScopeNode" /\ news[1].node = l /\ Len(news) <= 2
         /\ \A j \in DOMAIN news : j # 1 =>
              news[j].function = "endFunction" /\ news[j].node = l
    BY <2>7, <2>8
  <2>12. Calls(news) /\ news # <<>> /\ value' = value /\ error' = error BY <2>1, <2>5
  <2> QED BY <1>1, <1>3, <1>4, <2>6, <2>10, <2>11, <2>12, ScopeStep
<1> QED BY <1>5, <1>6

LEMMA FunctionHolds == ASSUME PInv, parseFunctionStatement PROVE PInv'
<1>1. /\ calls # <<>> /\ status = "parsing" /\ error = "NO_ERR" /\ next <= Len(tokens)
      /\ Top.function = "parseFunctionStatement"
      /\ tokens' = tokens /\ grouped' = grouped /\ status' = status
  BY DEF parseFunctionStatement, Reads, In
<1>2. /\ Len(nodes) \in Nat /\ next \in Nat /\ next >= 1 /\ Kept /\ Len(tokens) \in Nat
      /\ value \in 0 .. Len(nodes)
  BY <1>1, Steps
<1>3. /\ ~Stray(tokens[next]) /\ next + 1 <= Len(tokens)
      /\ tokens[next + 1].type = "IDENTIFIER" => tokens[next + 1].name \in Names
  BY <1>1, Promised DEF KeywordOf
<1>4. CASE /\ Popped(1).type # "IDENTIFIER" /\ Pop(2)
           /\ Fails("SYNTAX_ERROR_EXPECTED_IDENTIFIER")
           /\ nodes' = nodes /\ dropped' = dropped
  <2>1. next' \in next .. Len(tokens) + 1 /\ next < next' BY <1>2, <1>3, <1>4 DEF Pop
  <2> QED BY <1>1, <1>3, <1>4, <2>1, FailStep DEF Context
<1>5. CASE /\ Popped(1).type = "IDENTIFIER" /\ next + 3 <= Len(tokens) /\ Pop(4)
           /\ nodes' = Append(nodes, [type |-> "FUNCTION", name |-> Popped(1).name,
                                      body |-> <<>>])
           /\ Calls(<<Activation("parseScopeNode", Len(nodes) + 1, ""),
                      Activation("endFunction", Len(nodes) + 1, "")>>)
           /\ UNCHANGED Result
  <2> DEFINE node == [type |-> "FUNCTION", name |-> Popped(1).name, body |-> <<>>]
             len == Len(nodes) + 1
             a == Activation("parseScopeNode", len, "")
             b == Activation("endFunction", len, "")
  <2>1. /\ nodes' = Append(nodes, node) /\ Calls(<<a, b>>)
        /\ value' = value /\ error' = error
    BY <1>5 DEF Result
  <2>2. Popped(1).name \in Names BY <1>2, <1>3, <1>5 DEF Popped
  <2>3. \A p : Len(p) = len => node \in Generator!NodeOf(p)
    BY <1>2, <2>2 DEF Generator!NodeOf, Generator!Ref
  <2>4. /\ a \in Frames /\ a.function = "parseScopeNode" /\ a.node = len
        /\ b \in Frames /\ b.function = "endFunction" /\ b.node = len
    BY <1>2 DEF Activation, Frames, ParserFunctions
  <2>5. node.type = "FUNCTION" /\ node.body = <<>> OBVIOUS
  <2>0. next' = next + 4 /\ next + 3 <= Len(tokens) BY <1>5 DEF Pop
  <2>6. next' \in next .. Len(tokens) + 1 /\ next < next' BY <1>2, <2>0
  <2> HIDE DEF node, a, b
  <2>7. PICK news \in Seq(Frames) :
          /\ news # <<>> /\ DOMAIN news = {1, 2} /\ Len(news) = 2 /\ Calls(news)
          /\ news[1] = a /\ news[2] = b
    BY <2>1, <2>4, TwoCalls
  <2>8. PICK l \in Nat : l = len BY <1>2
  <2>9. PICK x : x = node OBVIOUS
  <2> HIDE DEF len
  <2>10. /\ l = Len(nodes) + 1 /\ nodes' = Append(nodes, x)
         /\ \A p : Len(p) = l => x \in Generator!NodeOf(p)
         /\ x.type \in {"WHILE", "FUNCTION"} /\ x.body = <<>>
    BY <2>1, <2>3, <2>5, <2>8, <2>9 DEF len
  <2>11. /\ news[1].function = "parseScopeNode" /\ news[1].node = l /\ Len(news) <= 2
         /\ \A j \in DOMAIN news : j # 1 =>
              news[j].function = "endFunction" /\ news[j].node = l
    BY <2>4, <2>7, <2>8
  <2>12. Calls(news) /\ news # <<>> /\ value' = value /\ error' = error BY <2>1, <2>7
  <2> QED BY <1>1, <1>3, <2>6, <2>10, <2>11, <2>12, ScopeStep
<1> QED BY <1>4, <1>5 DEF parseFunctionStatement

LEMMA EndFunctionHolds == ASSUME PInv, endFunction PROVE PInv'
<1>1. /\ calls # <<>> /\ status = "parsing" /\ Top.function = "endFunction" /\ Calls(<<>>)
      /\ value' \in {0, Top.node}
      /\ tokens' = tokens /\ next' = next /\ nodes' = nodes /\ status' = status
      /\ grouped' = grouped
  BY DEF endFunction
<1>2. /\ Len(nodes) \in Nat /\ next \in Nat /\ next >= 1 /\ Kept /\ Len(tokens) \in Nat
      /\ Top.node \in 0 .. Len(nodes)
  BY <1>1, Steps
<1>3. Top.function \notin Starters /\ Top.function # "addStatement"
  BY <1>1 DEF Starters, Levels, OperatorsOf, KeywordOf
<1>4. Kept' BY <1>1, <1>2 DEF Kept
<1>5. PICK news \in Seq(Frames) :
        news = <<>> /\ DOMAIN news = {} /\ Len(news) = 0 /\ Calls(news)
  BY <1>1, NoCall
<1>6. Replaces(news) BY <1>5 DEF Replaces
<1>7. Advances(news)
  <2>1. next' \in Nat /\ next <= next' BY <1>1, <1>2
  <2> QED BY <1>1, <1>3, <1>5, <2>1, PlainAdvances
<1>8. Hands(news)
  <2>1. Gives(Top) = 0 BY <1>1, OperatorKinds DEF Gives
  <2> QED BY <1>1, <1>2, <1>5, <2>1, BindsNothingNext DEF Hands
<1>9. Grown BY <1>1, <1>2, GrownSame
<1>10. Range(grouped) \subseteq Range(grouped') BY <1>1
<1> QED BY <1>1, <1>4, <1>5, <1>6, <1>7, <1>8, <1>9, <1>10, Step

-----------------------------------------------------------------------------
(* Scopes.                                                                 *)

\* A scope has been read.
LEMMA LeaveStep ==
  ASSUME PInv, calls # <<>>, status = "parsing", error = "NO_ERR",
         Top.function \in Loops, Returns(Top.node), Context, UNCHANGED nodes,
         next' \in next .. Len(tokens) + 1
  PROVE  PInv'
<1>1. Calls(<<>>) /\ value' = Top.node /\ error' = error /\ Top.node \in 0 .. Len(nodes)
  BY Steps DEF Returns
<1>2. Top.function \notin Starters /\ Top.function # "addStatement"
  BY DEF Loops, Starters, Levels, OperatorsOf, KeywordOf
<1>3. PICK news \in Seq(Frames) :
        news = <<>> /\ DOMAIN news = {} /\ Len(news) = 0 /\ Calls(news)
  BY <1>1, NoCall
<1>4. Hands(news)
  <2>1. Gives(Top) = 0 BY OperatorKinds DEF Gives, Loops
  <2>2. Len(nodes) \in Nat BY Steps
  <2> QED BY <1>3, <2>1, <2>2, BindsNothingNext DEF Hands
<1> QED BY <1>1, <1>2, <1>3, <1>4, ReadStep

LEMMA ProgramHolds == ASSUME PInv, parseProgram PROVE PInv'
<1>1. /\ calls # <<>> /\ status = "parsing" /\ error = "NO_ERR" /\ next <= Len(tokens)
      /\ Top.function \in Loops /\ Context /\ nodes' = nodes /\ next' = next
      /\ UNCHANGED <<next, nodes>>
  BY DEF parseProgram, Reads, In, Loops
<1>2. next \in Nat /\ Len(tokens) \in Nat BY <1>1, Steps
<1>3. CASE Peek(0).type = "END_OF_FILE"
  <2>1. Returns(Top.node) BY <1>3 DEF parseProgram
  <2> QED BY <1>1, <1>2, <2>1, LeaveStep
<1>4. CASE Peek(0).type # "END_OF_FILE"
  <2>1. Asks BY <1>1, <1>4 DEF parseProgram, Asks
  <2> QED BY <1>1, <2>1, AskStep
<1> QED BY <1>3, <1>4

LEMMA ScopeLoopHolds == ASSUME PInv, scopeLoop PROVE PInv'
<1>1. /\ calls # <<>> /\ status = "parsing" /\ error = "NO_ERR" /\ next <= Len(tokens)
      /\ Top.function \in Loops /\ Context /\ nodes' = nodes
  BY DEF scopeLoop, Reads, In, Loops
<1>2. next \in Nat /\ Len(tokens) \in Nat BY <1>1, Steps
<1>3. CASE Peek(0).type = "CLOSE_BRACE"
  <2>1. Returns(Top.node) /\ next' = next + 1 BY <1>3 DEF scopeLoop, Pop
  <2> QED BY <1>1, <1>2, <2>1, LeaveStep
<1>4. CASE Peek(0).type # "CLOSE_BRACE"
  <2>1. Asks BY <1>1, <1>4 DEF scopeLoop, Asks, Result
  <2> QED BY <1>1, <2>1, AskStep
<1> QED BY <1>3, <1>4

LEMMA ScopeNodeHolds == ASSUME PInv, parseScopeNode PROVE PInv'
<1>1. /\ calls # <<>> /\ status = "parsing" /\ error = "NO_ERR" /\ next <= Len(tokens)
      /\ Top.function = "parseScopeNode" /\ Context /\ nodes' = nodes /\ next' = next + 1
  BY DEF parseScopeNode, Reads, In, Pop
<1>2. /\ Len(nodes) \in Nat /\ next \in Nat /\ next >= 1 /\ Kept /\ Len(tokens) \in Nat
      /\ value \in 0 .. Len(nodes) /\ Progress /\ calls[1] = Top /\ Suits(Top)
      /\ Top \in Frames
  BY <1>1, Steps
<1>3. Top.function \notin Starters /\ Top.function # "addStatement"
  BY <1>1 DEF Starters, Levels, OperatorsOf, KeywordOf
<1>4. next' \in next .. Len(tokens) + 1 BY <1>1, <1>2
<1>5. CASE Popped(0).type # "OPEN_BRACE"
  <2>1. Fails("SYNTAX_ERROR_BRACE_MISSMATCH") BY <1>5 DEF parseScopeNode
  <2> QED BY <1>1, <1>3, <1>4, <2>1, FailStep
<1>6. CASE Popped(0).type = "OPEN_BRACE"
  <2> DEFINE a == Activation("scopeLoop", Top.node, "")
  <2>1. Calls(<<a>>) /\ value' = value /\ error' = error
    BY <1>6 DEF parseScopeNode, Result
  <2>2. a \in Frames /\ a.function = "scopeLoop" /\ a.node = Top.node
    BY <1>2 DEF Activation, Frames, ParserFunctions
  <2> HIDE DEF a
  <2>3. PICK news \in Seq(Frames) :
          /\ news # <<>> /\ DOMAIN news = {1} /\ Len(news) = 1 /\ Calls(news)
          /\ news[1] = a
    BY <2>1, <2>2, OneCall
  <2>12. PICK x \in Frames :
           /\ x = news[1] /\ x.function = "scopeLoop" /\ x.node = Top.node
    BY <2>2, <2>3
  <2>4. tokens' = tokens /\ grouped' = grouped /\ status' = status
    BY <1>1 DEF Context
  <2>5. Kept' BY <1>1, <1>2, <1>4, <2>1, <2>4 DEF Kept
  <2>6. Grown BY <1>1, <1>2, GrownSame
  <2>7. Suits(x)' BY <1>1, <1>2, <2>12 DEF Suits, Fillers
  <2>8. Replaces(news)
    BY <1>1, <2>3, <2>12, <2>7 DEF Replaces, Fillers, KeywordOf, Loops
  <2>9. Advances(news)
    <3>1. ASSUME NEW i \in 2 .. Len(calls), Unread(i) PROVE FALSE
      BY <1>2, <1>3, <3>1, UnreadTop
    <3>2. Statements(Top.node) = 0 BY <1>1, <1>2 DEF Progress
    <3>3. \A n \in Nat : n = Top.node => Counted(n)'
      BY <1>1, <1>2, <3>2 DEF Counted, Statements
    <3> QED BY <1>1, <1>2, <2>3, <2>12, <3>1, <3>3 DEF Advances
  <2>10. Hands(news)
    <3>1. Gives(Top) = 0 /\ Gives(x) = 0 /\ Expects(x) = 0
      BY <1>1, <2>12, OperatorKinds DEF Gives, Expects
    <3> QED BY <1>1, <1>2, <2>3, <2>12, <3>1, BindsNothingNext DEF Hands
  <2>11. Range(grouped) \subseteq Range(grouped') BY <2>4
  <2> QED BY <1>1, <2>3, <2>4, <2>5, <2>6, <2>8, <2>9, <2>10, <2>11, Step
<1> QED BY <1>5, <1>6

\* A statement that has read nothing, and is read, is stray.
LEMMA NothingRead ==
  ASSUME PInv, calls # <<>>, status = "parsing", Top.function = "addStatement",
         Unread(1)
  PROVE  Stray(tokens[next])
<1>1. calls[1] = Top BY Steps
<1>2. ~Begins(1) BY DEF Begins
<1>3. ~Descends(1) BY <1>1 DEF Descends
<1>4. \A op : ~Ascends(1, op)
  BY DEF Ascends, MultiplicativeFrom, AddativeFrom, ComparisonFrom
<1> QED BY <1>2, <1>3, <1>4 DEF Unread

LEMMA AddStatementHolds == ASSUME PInv, addStatement PROVE PInv'
<1>1. /\ calls # <<>> /\ status = "parsing" /\ error = "NO_ERR"
      /\ Top.function = "addStatement" /\ Context /\ next' = next /\ Calls(<<>>)
      /\ value' = value /\ error' = error
      /\ nodes' = [nodes EXCEPT ![Top.node].body = Append(@, value)]
  BY DEF addStatement, In, Result
<1>2. /\ Len(nodes) \in Nat /\ next \in Nat /\ next >= 1 /\ Kept /\ Len(tokens) \in Nat
      /\ value \in 0 .. Len(nodes) /\ Progress /\ calls[1] = Top /\ Suits(Top)
      /\ Len(nodes) >= 1 /\ 1 \in DOMAIN calls /\ DOMAIN nodes = 1 .. Len(nodes)
      /\ Len(calls) \in Nat
  BY <1>1, Steps
<1>3. PICK n \in 1 .. Len(nodes) : n = Top.node /\ nodes[n].type \in Scopes
  BY <1>1, <1>2 DEF Suits, Fillers
<1>4. PICK x : x = nodes[n] OBVIOUS
<1>5. x \in Generator!NodeOf(nodes) /\ x.type \in Scopes
  BY <1>2, <1>3, <1>4, NodesTyped
<1>6. x.body \in Seq(Generator!Ref(nodes))
  BY <1>5 DEF Generator!NodeOf, Scopes
<1>7. PICK b : b = Append(x.body, value) OBVIOUS
<1>8. b \in Seq(Generator!Ref(nodes)) /\ Len(b) = Len(x.body) + 1 /\ Len(x.body) \in Nat
  <2>1. value \in Generator!Ref(nodes) BY <1>2 DEF Generator!Ref
  <2> QED BY <1>6, <1>7, <2>1, AppendProperties, LenProperties
<1>9. PICK y : y = [x EXCEPT !.body = b] OBVIOUS
<1>10. /\ y \in Generator!NodeOf(nodes) /\ y.type = x.type /\ y.body = b
  BY <1>5, <1>8, <1>9 DEF Generator!NodeOf, Scopes
<1>11. nodes' = [nodes EXCEPT ![n] = y] BY <1>1, <1>3, <1>4, <1>7, <1>9
<1>12. /\ nodes' \in Seq(Generator!NodeOf(nodes')) /\ Len(nodes') = Len(nodes)
       /\ nodes'[n] = y /\ \A m \in 1 .. Len(nodes) : m # n => nodes'[m] = nodes[m]
  <2> DEFINE S == Generator!NodeOf(nodes)
  <2>1. nodes \in Seq(S) /\ y \in S BY <1>2, <1>10 DEF Kept
  <2> HIDE DEF S
  <2>2. /\ nodes' \in Seq(S) /\ Len(nodes') = Len(nodes)
        /\ nodes'[n] = y /\ \A m \in 1 .. Len(nodes) : m # n => nodes'[m] = nodes[m]
    BY <1>2, <1>11, <2>1, ExceptSeq
  <2>3. Generator!Ref(nodes') = Generator!Ref(nodes) BY <2>2 DEF Generator!Ref
  <2>4. Generator!NodeOf(nodes') = Generator!NodeOf(nodes)
    BY <2>3 DEF Generator!NodeOf
  <2> QED BY <2>2, <2>4 DEF S
<1>13. tokens' = tokens /\ grouped' = grouped /\ status' = status BY <1>1 DEF Context
<1>14. nodes'[1].type = "PROGRAM"
  <2>1. nodes[1].type = "PROGRAM" BY <1>1, <1>2 DEF Kept
  <2> QED BY <1>2, <1>4, <1>10, <1>12, <2>1
<1>15. Kept' BY <1>1, <1>2, <1>12, <1>13, <1>14 DEF Kept
<1>16. Grown BY <1>2, <1>4, <1>5, <1>10, <1>12 DEF Grown
<1>17. PICK news \in Seq(Frames) :
         news = <<>> /\ DOMAIN news = {} /\ Len(news) = 0 /\ Calls(news)
  BY <1>1, NoCall
<1>18. Replaces(news) BY <1>17 DEF Replaces
<1>19. Advances(news)
  <2>1. ASSUME NEW i \in 2 .. Len(calls), Unread(i) PROVE FALSE
    <3>1. Top.function \in Starters BY <1>2, <2>1, UnreadTop
    <3> QED BY <1>1, <3>1 DEF Starters, Levels, OperatorsOf, KeywordOf
  <2>2. Statements(n)' = Statements(n) + 1 /\ Statements(n) \in Nat
    BY <1>4, <1>8, <1>10, <1>12 DEF Statements
  <2>3. Ahead(n) \/ (Unread(1) /\ Counted(n)) BY <1>1, <1>2, <1>3 DEF Progress
  <2>4. Counted(n)'
    <3>1. CASE Ahead(n)
      <4>1. (Statements(n) <= next - 1)' BY <1>1, <1>2, <2>2, <3>1 DEF Ahead
      <4> QED BY <4>1 DEF Counted
    <3>2. CASE Unread(1)
      <4>1. Stray(tokens[next]) BY <1>1, <3>2, NothingRead
      <4>2. Stray(tokens[next])' BY <1>1, <1>13, <4>1 DEF Stray
      <4> QED BY <4>2 DEF Counted
    <3> QED BY <2>3, <3>1, <3>2
  <2> QED BY <1>1, <1>2, <1>3, <1>12, <1>17, <2>1, <2>4 DEF Advances
<1>20. Hands(news)
  <2>1. Gives(Top) = 0 BY <1>1, OperatorKinds DEF Gives
  <2> QED BY <1>1, <1>2, <1>12, <1>17, <2>1, BindsNothingNext DEF Hands
<1>21. Range(grouped) \subseteq Range(grouped') BY <1>13
<1> QED BY <1>1, <1>13, <1>15, <1>16, <1>17, <1>18, <1>19, <1>20, <1>21, Step

-----------------------------------------------------------------------------
(* Errors, and the ends of a parse.                                        *)

LEMMA PropagateHolds == ASSUME PInv, propagate PROVE PInv'
<1> DEFINE code == IF Top.function = "closeCondition"
                   THEN "SYNTAX_ERROR_EXPECTED_EXPRESSION" ELSE error
<1>1. /\ calls # <<>> /\ status = "parsing" /\ error # "NO_ERR" /\ Fails(code)
      /\ Context /\ next' = next /\ nodes' = nodes
  BY DEF propagate
<1>2. code # "NO_ERR" BY <1>1
<1>3. next' \in next .. Len(tokens) + 1 BY <1>1, Steps
<1> HIDE DEF code
<1> QED BY <1>1, <1>2, <1>3, FailStep

LEMMA EndStep ==
  ASSUME PInv,
         \/ status' = status
         \/ /\ status = "parsing"
            /\ status' \in {"parsed", "failed", "undefined", "exhausted", "terminated"},
         UNCHANGED <<tokens, next, nodes, calls, Result, grouped, dropped>>
  PROVE  PInv'
<1>1. /\ tokens' = tokens /\ next' = next /\ nodes' = nodes /\ calls' = calls
      /\ value' = value /\ error' = error /\ grouped' = grouped
  BY DEF Result
<1>2. Kept' BY <1>1 DEF PInv, Kept
<1>3. Stacked' BY <1>1 DEF PInv, Stacked, Suits
<1>4. Nested' BY <1>1 DEF PInv, Nested
<1>5. Progress'
  BY <1>1 DEF PInv, Progress, Ahead, Counted, Unread, Statements, Stray, NoKeyword,
     NoOperand, OperatorOf, Begins, Descends, Ascends, MultiplicativeFrom, AddativeFrom,
     ComparisonFrom, Waits
<1>6. Ordered'
  BY <1>1 DEF PInv, Ordered, Binds, Tightness, RankOfNode, Expects, Gives, RankOf, LevelRank
<1> QED BY <1>2, <1>3, <1>4, <1>5, <1>6 DEF PInv

LEMMA ParseHolds == ASSUME PInv, parse PROVE PInv'
<1> DEFINE program == [type |-> "PROGRAM", body |-> <<>>]
           a == Activation("parseProgram", 1, "")
<1>1. /\ nodes' = <<program>> /\ calls' = <<a>> /\ status = "idle" /\ status' = "parsing"
      /\ tokens' = tokens /\ next' = next /\ value' = value /\ grouped' = grouped
  BY DEF parse, Result
<1>2. /\ a \in Frames /\ a.function = "parseProgram" /\ a.node = 1
  BY DEF Activation, Frames, ParserFunctions
<1>3. Kept BY DEF PInv
<1>4. next \in Nat /\ next >= 1 /\ Len(tokens) \in Nat /\ value = 0
  <2>1. nodes = <<>> BY <1>1, <1>3 DEF Kept
  <2>2. Len(nodes) = 0 BY <2>1
  <2> QED BY <1>3, <2>2, TokensTyped DEF Kept
<1> HIDE DEF a
<1>5. /\ Len(nodes') = 1 /\ nodes'[1] = program /\ DOMAIN nodes' = {1}
      /\ Len(calls') = 1 /\ calls'[1] = a /\ DOMAIN calls' = {1}
      /\ calls' \in Seq(Frames)
      /\ \A T : program \in T => nodes' \in Seq(T)
  <2> HIDE DEF program
  <2>1. /\ Len(nodes') = 1 /\ nodes'[1] = program /\ DOMAIN nodes' = {1}
        /\ \A T : program \in T => nodes' \in Seq(T)
    BY <1>1
  <2>2. Len(calls') = 1 /\ calls'[1] = a /\ DOMAIN calls' = {1} /\ calls' \in Seq(Frames)
    BY <1>1, <1>2
  <2> QED BY <2>1, <2>2
<1>6. program \in Generator!NodeOf(nodes') BY DEF Generator!NodeOf
<1>7. program.type = "PROGRAM" /\ Len(program.body) = 0 OBVIOUS
<1> HIDE DEF program
<1>8. Kept' BY <1>1, <1>3, <1>4, <1>5, <1>6, <1>7 DEF Kept
<1>9. Stacked'
  <2>1. Suits(calls[1])' BY <1>2, <1>5, <1>7 DEF Suits, Scopes, Fillers
  <2> QED BY <1>5, <2>1 DEF Stacked, Suits
<1>10. Nested' BY <1>2, <1>5 DEF Nested, KeywordOf, Fillers, Loops
<1>11. Progress'
  <2>1. Statements(calls[1].node)' = 0 BY <1>2, <1>5, <1>7 DEF Statements
  <2>2. Counted(calls[1].node)' BY <1>1, <1>4, <2>1 DEF Counted
  <2> QED BY <1>2, <1>5, <2>2 DEF Progress
<1>12. Ordered'
  <2>1. Expects(calls[1])' = 0 BY <1>2, <1>5 DEF Expects
  <2>2. Binds(value, Expects(calls[1]))'
    BY <2>1, BindsNothingNext DEF Binds
  <2> QED BY <1>2, <1>5, <1>7, <2>2 DEF Ordered
<1> QED BY <1>8, <1>9, <1>10, <1>11, <1>12 DEF PInv

-----------------------------------------------------------------------------
(* The theorems.                                                           *)

LEMMA Starts == ASSUME CompilerInit PROVE PInv
<1>1. /\ tokens \in Inputs /\ next = 1 /\ nodes = <<>> /\ calls = <<>> /\ value = 0
      /\ status = "idle" /\ grouped = <<>>
  BY DEF CompilerInit, Init
<1>2. tokens \in Seq(TokenOf(Names)) /\ IsInput(tokens)
  BY <1>1, NamesAssumption, InputsAssumption
<1>3. 1 \in 1 .. Len(tokens) + 1 BY <1>2, LenProperties DEF IsInput
<1>4. Kept
  <2>1. nodes \in Seq(Generator!NodeOf(nodes)) BY <1>1
  <2>2. Len(nodes) = 0 /\ grouped \in Seq(Nat) BY <1>1
  <2> QED BY <1>1, <1>3, <2>1, <2>2 DEF Kept
<1>5. DOMAIN calls = {} /\ DOMAIN nodes = {} /\ calls \in Seq(Frames) BY <1>1
<1>6. Stacked /\ Nested /\ Progress /\ Ordered
  BY <1>1, <1>5 DEF Stacked, Nested, Progress, Ordered
<1> QED BY <1>4, <1>6 DEF PInv

LEMMA PInvNext == ASSUME PInv, ParserNext PROVE PInv'
<1>1. CASE parse BY <1>1, ParseHolds
<1>2. CASE parsed BY <1>2, EndStep DEF parsed
<1>3. CASE parseProgram BY <1>3, ProgramHolds
<1>4. CASE parseScopeNode BY <1>4, ScopeNodeHolds
<1>5. CASE scopeLoop BY <1>5, ScopeLoopHolds
<1>6. CASE addStatement BY <1>6, AddStatementHolds
<1>7. CASE OutOfMemory BY <1>7, EndStep DEF OutOfMemory, In
<1>8. CASE parseStatement BY <1>8, StatementHolds
<1>9. CASE parseReturnStatement BY <1>9, ReturnHolds
<1>10. CASE makeReturn BY <1>10, MakeReturnHolds
<1>11. CASE parseLetStatement BY <1>11, LetHolds
<1>12. CASE makeLet BY <1>12, MakeLetHolds
<1>13. CASE parseWhileStatement BY <1>13, WhileHolds
<1>14. CASE closeCondition BY <1>14, ConditionHolds
<1>15. CASE parseFunctionStatement BY <1>15, FunctionHolds
<1>16. CASE endFunction BY <1>16, EndFunctionHolds
<1>17. CASE parseComparisonExpression
  BY <1>17, OperandHolds, OperatorKinds DEF parseComparisonExpression
<1>18. CASE parseAddativeExpression
  BY <1>18, OperandHolds, OperatorKinds DEF parseAddativeExpression
<1>19. CASE parseMultiplicativeExpression
  BY <1>19, OperandHolds, OperatorKinds DEF parseMultiplicativeExpression
<1>20. CASE operator BY <1>20, OperatorHolds
<1>21. CASE makeBinary BY <1>21, MakeBinaryHolds
<1>22. CASE parsePrimaryExpression BY <1>22, PrimaryHolds
<1>23. CASE outOfRange BY <1>23, EndStep DEF outOfRange, Reads, In
<1>24. CASE closeParen BY <1>24, CloseParenHolds
<1>25. CASE parseIdentifier BY <1>25, IdentifierHolds
<1>26. CASE propagate BY <1>26, PropagateHolds
<1>27. CASE PastTheEnd BY <1>27, EndStep DEF PastTheEnd
<1> QED
  BY <1>1, <1>2, <1>3, <1>4, <1>5, <1>6, <1>7, <1>8, <1>9, <1>10, <1>11, <1>12, <1>13,
     <1>14, <1>15, <1>16, <1>17, <1>18, <1>19, <1>20, <1>21, <1>22, <1>23, <1>24, <1>25,
     <1>26, <1>27
  DEF ParserNext

LEMMA OnlyOutOfMemory ==
  ASSUME ParserNext, status' = "exhausted" PROVE OutOfMemory
<1>1. ~parse BY DEF parse
<1>2. ~parsed BY DEF parsed
<1>3. ASSUME In(Top.function), Context PROVE FALSE BY <1>3 DEF In, Context
<1>4. ASSUME NEW f, Reads(f) \/ In(f), Context PROVE FALSE BY <1>4 DEF Reads, In, Context
<1>5. /\ ~parseProgram /\ ~parseScopeNode /\ ~scopeLoop /\ ~addStatement
      /\ ~parseStatement
  BY <1>4 DEF parseProgram, parseScopeNode, scopeLoop, addStatement, parseStatement
<1>6. /\ ~parseReturnStatement /\ ~makeReturn /\ ~parseLetStatement /\ ~makeLet
      /\ ~parseWhileStatement /\ ~closeCondition
  BY <1>4 DEF parseReturnStatement, makeReturn, parseLetStatement, makeLet,
     parseWhileStatement, closeCondition
<1>7. ~parseFunctionStatement BY DEF parseFunctionStatement, Reads, In
<1>8. ~endFunction BY DEF endFunction
<1>9. /\ ~parseComparisonExpression /\ ~parseAddativeExpression
      /\ ~parseMultiplicativeExpression
  BY <1>4 DEF parseComparisonExpression, parseAddativeExpression,
     parseMultiplicativeExpression, Operand
<1>10. ~operator /\ ~makeBinary /\ ~parsePrimaryExpression /\ ~parseIdentifier
  BY <1>4 DEF operator, makeBinary, parsePrimaryExpression, parseIdentifier
<1>11. ~outOfRange BY DEF outOfRange
<1>12. ~closeParen BY DEF closeParen, Reads, In
<1>13. ~propagate BY DEF propagate, Context
<1>14. ~PastTheEnd BY DEF PastTheEnd
<1> QED
  BY <1>1, <1>2, <1>5, <1>6, <1>7, <1>8, <1>9, <1>10, <1>11, <1>12, <1>13, <1>14
  DEF ParserNext

LEMMA StuckNext == ASSUME PInv, OutOfMemory PROVE StuckAtStrayToken'
<1>1. /\ calls # <<>> /\ status = "parsing" /\ error = "NO_ERR"
      /\ Top.function = "addStatement" /\ Statements(Top.node) = Len(tokens)
      /\ tokens' = tokens /\ next' = next
  BY DEF OutOfMemory, In, Statements, MaxStatements
<1>2. /\ next \in Nat /\ next <= Len(tokens) + 1 /\ Len(tokens) \in Nat /\ Progress
      /\ calls[1] = Top /\ 1 \in DOMAIN calls
  BY <1>1, Steps
<1>3. Ahead(Top.node) \/ Unread(1) BY <1>1, <1>2 DEF Progress
<1>4. ~Ahead(Top.node) BY <1>1, <1>2 DEF Ahead
<1>5. Stray(tokens[next]) BY <1>1, <1>3, <1>4, NothingRead
<1> QED BY <1>1, <1>5 DEF StuckAtStrayToken, Stray

ParserInv == PInv /\ StuckAtStrayToken

LEMMA ParserInvNext == ASSUME ParserInv, [CompilerNext]_compilerVars PROVE ParserInv'
<1>1. CASE ParserNext
  <2>1. PInv' BY <1>1, PInvNext DEF ParserInv
  <2>2. status' = "exhausted" => OutOfMemory BY <1>1, OnlyOutOfMemory
  <2>3. StuckAtStrayToken' BY <2>2, StuckNext DEF ParserInv, StuckAtStrayToken
  <2> QED BY <2>1, <2>3 DEF ParserInv
<1>2. CASE UNCHANGED parserVars
  <2>1. /\ status' = status /\ UNCHANGED <<tokens, next, nodes, calls, Result, grouped, dropped>>
    BY <1>2 DEF parserVars, Result
  <2>2. PInv' BY <2>1, EndStep DEF ParserInv
  <2>3. StuckAtStrayToken' BY <2>1 DEF ParserInv, StuckAtStrayToken, Stray
  <2> QED BY <2>2, <2>3 DEF ParserInv
<1> QED BY <1>1, <1>2 DEF CompilerNext, Parse, Generate, compilerVars

\* What the parser keeps is typed, and hangs together, at every step
\* (parser.cpp:13-426, lexar.cpp:207-236).
THEOREM ParserInvariant == CompilerSpec => []ParserInv
<1>1. CompilerInit => ParserInv
  BY Starts DEF ParserInv, StuckAtStrayToken, CompilerInit, Init
<1>2. ParserInv /\ [CompilerNext]_compilerVars => ParserInv' BY ParserInvNext
<1> QED BY <1>1, <1>2, PTL DEF CompilerSpec

\* The parser runs out of memory only at a token that begins no statement and
\* joins none, whatever the tokens, at most 65535 of them: every other statement
\* it adds has read something (parser.cpp:22-46, 118-138).
THEOREM OnlyStrayTokensStick == CompilerSpec => []StuckAtStrayToken
<1>1. ParserInv => StuckAtStrayToken BY DEF ParserInv
<1> QED BY <1>1, ParserInvariant, PTL

LEMMA NodeTypes ==
  ASSUME Kept, NEW n \in 1 .. Len(nodes)
  PROVE  /\ nodes[n].type \in {"PROGRAM", "NUMERIC_LITERAL", "IDENTIFIER",
              "INC_DEC_EXPRESSION", "CALL_EXPRESSION", "BINARY_EXPRESSION",
              "COMPARISON_EXPRESSION", "LET", "RETURN", "WHILE", "FUNCTION"}
         /\ nodes[n].type = "BINARY_EXPRESSION" =>
              nodes[n].operator \in {"ADDITION", "SUBTRACTION", "MULTIPLICATION", "DIVISION"}
         /\ IsBinary(n) =>
              nodes[n].left \in 0 .. Len(nodes) /\ nodes[n].right \in 0 .. Len(nodes)
<1>1. PICK x \in Generator!NodeOf(nodes) : x = nodes[n] BY NodesTyped
<1>2. x.type \in {"PROGRAM", "NUMERIC_LITERAL", "IDENTIFIER",
              "INC_DEC_EXPRESSION", "CALL_EXPRESSION", "BINARY_EXPRESSION",
              "COMPARISON_EXPRESSION", "LET", "RETURN", "WHILE", "FUNCTION"}
  BY DEF Generator!NodeOf
<1>3. x.type = "BINARY_EXPRESSION" => x.operator \in Generator!Arithmetic
  BY DEF Generator!NodeOf
<1>4. x.type \in {"BINARY_EXPRESSION", "COMPARISON_EXPRESSION"} =>
        x.left \in 0 .. Len(nodes) /\ x.right \in 0 .. Len(nodes)
  BY DEF Generator!NodeOf, Generator!Ref
<1> QED BY <1>1, <1>2, <1>3, <1>4 DEF IsBinary, Generator!Arithmetic

LEMMA KindTightness ==
  ASSUME Kept, NEW k \in 0 .. Len(nodes)
  PROVE  /\ KindOf(k) = "COMPARISON_EXPRESSION" => Tightness(k) = 0
         /\ KindOf(k) \in {"ADDITION", "SUBTRACTION"} => Tightness(k) = 1
         /\ KindOf(k) \in {"MULTIPLICATION", "DIVISION"} => Tightness(k) = 2
<1>1. CASE k = 0 BY <1>1 DEF KindOf
<1>2. CASE k # 0
  <2>1. k \in 1 .. Len(nodes) BY <1>2, NodesTyped
  <2>2. CASE nodes[k].type = "BINARY_EXPRESSION"
    <3>1. PICK op : op = nodes[k].operator OBVIOUS
    <3>2. op \in {"ADDITION", "SUBTRACTION", "MULTIPLICATION", "DIVISION"}
      BY <2>1, <2>2, <3>1, NodeTypes
    <3>3. KindOf(k) = op /\ Tightness(k) = RankOf(op) - 1
      BY <1>2, <2>2, <3>1 DEF KindOf, Tightness
    <3> QED BY <3>2, <3>3, OperatorKinds DEF RankOf
  <2>3. CASE nodes[k].type # "BINARY_EXPRESSION"
    <3>1. KindOf(k) = nodes[k].type BY <1>2, <2>3 DEF KindOf
    <3> QED BY <1>2, <2>1, <3>1, NodeTypes DEF Tightness
  <2> QED BY <2>2, <2>3
<1> QED BY <1>1, <1>2

LEMMA PrecedenceOfInv == ASSUME PInv PROVE Precedence
<1>1. Kept /\ Ordered BY DEF PInv
<1>2. Len(nodes) \in Nat /\ DOMAIN nodes = 1 .. Len(nodes) BY <1>1, NodesTyped
<1> SUFFICES ASSUME NEW n \in DOMAIN nodes, ClassOf(n) \in DOMAIN Tighter,
                    NEW k \in {nodes[n].left, nodes[n].right},
                    KindOf(k) \in Tighter[ClassOf(n)]
             PROVE  k \in Range(grouped)
  BY DEF Precedence
<1>3. n \in 1 .. Len(nodes) /\ n # 0 BY <1>2
<1>4. DOMAIN Tighter = {"COMPARISON_EXPRESSION", "ADDITION", "MULTIPLICATION"}
  BY DEF Tighter
<1>5. IsBinary(n) BY <1>3, <1>4, <1>1, NodeTypes DEF ClassOf, KindOf, IsBinary
<1>6. k \in 0 .. Len(nodes) BY <1>1, <1>3, <1>5, NodeTypes
<1>7. Binds(k, RankOfNode(n)) BY <1>1, <1>5 DEF Ordered, IsBinary
<1>8. Tightness(k) \in Int /\ RankOfNode(n) \in Int /\ Tightness(k) < RankOfNode(n)
  <2>1. CASE nodes[n].type = "COMPARISON_EXPRESSION"
    <3>1. ClassOf(n) = "COMPARISON_EXPRESSION" /\ RankOfNode(n) = 1
      BY <1>3, <2>1 DEF ClassOf, KindOf, RankOfNode
    <3>2. KindOf(k) = "COMPARISON_EXPRESSION" BY <3>1 DEF Tighter
    <3> QED BY <1>1, <1>6, <3>1, <3>2, KindTightness
  <2>2. CASE nodes[n].type = "BINARY_EXPRESSION"
    <3>1. PICK op : op = nodes[n].operator OBVIOUS
    <3>2. op \in {"ADDITION", "SUBTRACTION", "MULTIPLICATION", "DIVISION"}
      BY <1>1, <1>3, <2>2, <3>1, NodeTypes
    <3>3. KindOf(n) = op /\ RankOfNode(n) = RankOf(op)
      BY <1>3, <2>2, <3>1 DEF KindOf, RankOfNode
    <3>4. CASE op \in {"ADDITION", "SUBTRACTION"}
      <4>1. RankOfNode(n) = 2 BY <3>3, <3>4, OperatorKinds DEF RankOf
      <4>2. ClassOf(n) = "ADDITION" BY <3>3, <3>4 DEF ClassOf
      <4>3. KindOf(k) \in {"COMPARISON_EXPRESSION", "ADDITION", "SUBTRACTION"}
        BY <4>2 DEF Tighter
      <4> QED BY <1>1, <1>6, <4>1, <4>3, KindTightness
    <3>5. CASE op \in {"MULTIPLICATION", "DIVISION"}
      <4>1. RankOfNode(n) = 3 BY <3>3, <3>5, OperatorKinds DEF RankOf
      <4>2. ClassOf(n) = "MULTIPLICATION" BY <3>3, <3>5 DEF ClassOf
      <4>3. KindOf(k) \in {"COMPARISON_EXPRESSION", "ADDITION", "SUBTRACTION",
                           "MULTIPLICATION", "DIVISION"}
        BY <4>2 DEF Tighter
      <4> QED BY <1>1, <1>6, <4>1, <4>3, KindTightness
    <3> QED BY <3>2, <3>4, <3>5
  <2> QED BY <1>5, <2>1, <2>2 DEF IsBinary
<1>9. ~(Tightness(k) >= RankOfNode(n)) BY <1>8
<1> QED BY <1>7, <1>9 DEF Binds

\* Every tree the parser builds of at most 65535 tokens groups as the grammar
\* says, not only what a parse that ends well returns
\* (parser.cpp:219-291, tests_parser.cpp:29-75).
THEOREM OperatorsBind == CompilerSpec => []Precedence
<1>1. ParserInv => Precedence BY PrecedenceOfInv DEF ParserInv
<1> QED BY <1>1, ParserInvariant, PTL

-----------------------------------------------------------------------------
(* The compiler: from the parser to the code generator.                    *)

\* The generator beside the parser, with what is proved of it.
GP == INSTANCE CodeGeneratorProofs WITH
  ast <- nodes, calls <- generating, status <- phase, Programs <- {},
  before <- <<>>

\* Nothing is generated before the parser is done, and what is generated then
\* is what the generator's own invariants say.
Handed ==
  IF status = "parsed" THEN GP!GInv /\ GP!NoNull ELSE Generator!Constructed

CInv == ParserInv /\ Handed

-----------------------------------------------------------------------------
(* The generator of Compiler and that of its proofs are the same.          *)

LEMMA SamePatches ==
  ASSUME NEW code, NEW patches
  PROVE  Generator!Patched(code, patches) = GP!Patched(code, patches)
<1> DEFINE Covers(i, q) == i - 1 \in {q.at, q.at + 1}
           P(i) == CHOOSE q \in patches : i - 1 \in {q.at, q.at + 1}
<1>1. \A a : Generator!encode(a) = GP!encode(a)
  BY DEF Generator!encode, GP!encode, Generator!U16, GP!U16
<1>2. Generator!Patched(code, patches) =
        [i \in DOMAIN code |-> IF \E q \in patches : Covers(i, q)
                               THEN Generator!encode(P(i).address)[i - P(i).at]
                               ELSE code[i]]
  BY DEF Generator!Patched
<1>3. GP!Patched(code, patches) =
        [i \in DOMAIN code |-> IF \E q \in patches : Covers(i, q)
                               THEN GP!encode(P(i).address)[i - P(i).at]
                               ELSE code[i]]
  BY DEF GP!Patched
<1> HIDE DEF P, Covers
<1> QED BY <1>1, <1>2, <1>3

LEMMA SameFinish == ASSUME Generator!finishCode PROVE GP!finishCode
<1>1. Generator!MainPatch = GP!MainPatch /\ Generator!ResolvedCalls = GP!ResolvedCalls
  BY DEF Generator!MainPatch, GP!MainPatch, Generator!ResolvedCalls, GP!ResolvedCalls
<1>2. Generator!HALT = GP!HALT BY DEF Generator!HALT, GP!HALT
<1>3. Generator!tables = GP!tables BY DEF Generator!tables, GP!tables
<1>4. GP!Patched(GP!Patched(Append(bytecode, GP!HALT), {GP!MainPatch}), GP!ResolvedCalls)
        = Generator!Patched(Generator!Patched(Append(bytecode, Generator!HALT),
                                              {Generator!MainPatch}),
                            Generator!ResolvedCalls)
  BY <1>1, <1>2, SamePatches, Zenon
<1> QED BY <1>3, <1>4, Zenon DEF Generator!finishCode, GP!finishCode, Generator!tables, GP!tables

LEMMA SameGenerator == ASSUME Generator!generate PROVE GP!generate
<1> USE DEF Generator!In, GP!In, Generator!Top, GP!Top, Generator!Here,
             GP!Here, Generator!Calls, GP!Calls, Generator!Returns, GP!Returns,
             Generator!Context, GP!Context, Generator!output, GP!output,
             Generator!tables, GP!tables, Generator!Activation, GP!Activation,
             Generator!Then, GP!Then, Generator!Expression, GP!Expression,
             Generator!Comparison, GP!Comparison, Generator!Scope, GP!Scope,
             Generator!InExpression, GP!InExpression, Generator!Emit, GP!Emit,
             Generator!encode, GP!encode, Generator!U16, GP!U16,
             Generator!Report, GP!Report, Generator!Popped, GP!Popped,
             Generator!sp, GP!sp, Generator!ret, GP!ret, Generator!imm, GP!imm
<1>1. CASE Generator!generateCode
  BY <1>1 DEF GP!generate, Generator!generateCode, GP!generateCode,
    Generator!JMP, GP!JMP, Generator!MainAddress, GP!MainAddress
<1>2. CASE Generator!finishCode BY <1>2, SameFinish DEF GP!generate
<1>3. CASE Generator!generateScope
  BY <1>3 DEF GP!generate, Generator!generateScope, GP!generateScope,
    Generator!CallFor, GP!CallFor
<1>4. CASE Generator!endScope
  BY <1>4 DEF GP!generate, Generator!endScope, GP!endScope
<1>5. CASE Generator!generateReturnStatement
  BY <1>5 DEF GP!generate, Generator!generateReturnStatement,
    GP!generateReturnStatement
<1>6. CASE Generator!emitReturn
  BY <1>6 DEF GP!generate, Generator!emitReturn, GP!emitReturn, Generator!RET,
    GP!RET
<1>7. CASE Generator!generateLetStatement
  BY <1>7 DEF GP!generate, Generator!generateLetStatement,
    GP!generateLetStatement
<1>8. CASE Generator!generateWhileStatement
  BY <1>8 DEF GP!generate, Generator!generateWhileStatement,
    GP!generateWhileStatement
<1>9. CASE Generator!closeLoop
  BY SMTT(30), <1>9 DEF GP!generate, Generator!closeLoop, GP!closeLoop,
    Generator!LoopOffset, GP!LoopOffset, Generator!JLT, GP!JLT
<1>10. CASE Generator!generateNumericLiteral
  BY <1>10 DEF GP!generate, Generator!generateNumericLiteral,
    GP!generateNumericLiteral, Generator!PSH_LIT, GP!PSH_LIT
<1>11. CASE Generator!generateComparison
  BY <1>11 DEF GP!generate, Generator!generateComparison, GP!generateComparison
<1>12. CASE Generator!moveResult
  BY <1>12 DEF GP!generate, Generator!moveResult, GP!moveResult, Generator!MOV,
    GP!MOV
<1>13. CASE Generator!generateComparisonExpression
  BY <1>13 DEF GP!generate, Generator!generateComparisonExpression,
    GP!generateComparisonExpression
<1>14. CASE Generator!generateCompareOperator
  BY <1>14 DEF GP!generate, Generator!generateCompareOperator,
    GP!generateCompareOperator, Generator!CMP, GP!CMP
<1>15. CASE Generator!generateBinaryExpression
  BY <1>15 DEF GP!generate, Generator!generateBinaryExpression,
    GP!generateBinaryExpression
<1>16. CASE Generator!generateOperator
  BY <1>16 DEF GP!generate, Generator!generateOperator, GP!generateOperator,
    Generator!encodeOperator, GP!encodeOperator, Generator!ADD, GP!ADD,
    Generator!SUB, GP!SUB, Generator!MUL, GP!MUL, Generator!DIV,
    GP!DIV
<1>17. CASE Generator!generateOperatorReg
  BY <1>17 DEF GP!generate, Generator!generateOperatorReg, GP!generateOperatorReg,
    Generator!encodeOperator, GP!encodeOperator, Generator!ADD, GP!ADD,
    Generator!SUB, GP!SUB, Generator!MUL, GP!MUL, Generator!DIV,
    GP!DIV, Generator!POP_REG, GP!POP_REG
<1>18. CASE Generator!generateIdentifier
  BY <1>18 DEF GP!generate, Generator!generateIdentifier, GP!generateIdentifier,
    Generator!INC, GP!INC, Generator!DEC, GP!DEC, Generator!PEK_OFF,
    GP!PEK_OFF
<1>19. CASE Generator!generateCall
  BY SMTT(30), <1>19 DEF GP!generate, Generator!generateCall, GP!generateCall,
    Generator!JMP, GP!JMP, Generator!PositionToPatch,
    GP!PositionToPatch
<1>20. CASE Generator!unknownNode
  BY <1>20 DEF GP!generate, Generator!unknownNode, GP!unknownNode
<1>21. CASE Generator!Undefined
  BY <1>21 DEF GP!generate, Generator!Undefined, GP!Undefined
<1> QED
  BY <1>1, <1>2, <1>3, <1>4, <1>5, <1>6, <1>7, <1>8, <1>9, <1>10, <1>11, <1>12,
     <1>13, <1>14, <1>15, <1>16, <1>17, <1>18, <1>19, <1>20, <1>21 DEF Generator!generate

-----------------------------------------------------------------------------
(* The theorems.                                                           *)

LEMMA SameConstructed == Generator!Constructed <=> GP!Constructed
BY DEF Generator!Constructed, GP!Constructed, Generator!reg_cnt, GP!reg_cnt

\* What the generator's proofs assume of its constants.
LEMMA Instantiated == "main" \in Names /\ \A p \in {} : GP!IsTree(p)
BY NamesAssumption

LEMMA SameLengths == \A c, o : GP!LengthAt(c, o) = Generator!LengthAt(c, o)
BY DEF GP!LengthAt, Generator!LengthAt,
   GP!PSH_LIT, Generator!PSH_LIT, GP!MOV, Generator!MOV, GP!PEK_OFF,
   Generator!PEK_OFF, GP!JLT, Generator!JLT, GP!JMP, Generator!JMP, GP!INC,
   Generator!INC, GP!DEC, Generator!DEC, GP!sp, Generator!sp, GP!POP_REG,
   Generator!POP_REG, GP!PEK_REG, Generator!PEK_REG, GP!PSH_REG,
   Generator!PSH_REG, GP!CMP, Generator!CMP

LEMMA SameBoundaries == GP!Boundaries => Generator!Boundaries
BY SameLengths DEF GP!Boundaries, Generator!Boundaries

LEMMA SameTrees == GP!IsTree(nodes) <=> Generator!IsTree(nodes)
BY DEF GP!IsTree, Generator!IsTree, GP!NodeOf, Generator!NodeOf, GP!Ref, Generator!Ref,
   GP!Int16, Generator!Int16, GP!Arithmetic, Generator!Arithmetic, GP!Comparing,
   Generator!Comparing

LEMMA SameTypes == GP!TypeOK => Generator!TypeOK
<1>1. /\ GP!Byte = Generator!Byte /\ GP!Word = Generator!Word
      /\ GP!Messages = Generator!Messages /\ GP!reg_cnt = Generator!reg_cnt
  BY DEF GP!Byte, Generator!Byte, GP!Word, Generator!Word, GP!Messages,
         Generator!Messages, GP!reg_cnt, Generator!reg_cnt
<1>2. /\ GP!FunctionNames = Generator!FunctionNames
      /\ GP!Ref(nodes) = Generator!Ref(nodes)
      /\ GP!sp = Generator!sp /\ GP!ret = Generator!ret
  BY DEF GP!FunctionNames, Generator!FunctionNames, GP!Ref, Generator!Ref, GP!sp,
         Generator!sp, GP!ret, Generator!ret
<1> QED BY <1>1, <1>2, SameTrees DEF GP!TypeOK, Generator!TypeOK

\* What the parser leaves when it has parsed is a tree.
LEMMA ParsedIsTree ==
  ASSUME Kept, status # "idle" PROVE Generator!IsTree(nodes) /\ GP!IsTree(nodes)
<1>1. Generator!IsTree(nodes) BY DEF Kept, Generator!IsTree
<1> QED BY <1>1, SameTrees

LEMMA NothingAfter == ASSUME ParserNext PROVE status \in {"idle", "parsing"}
BY DEF ParserNext, parse, parsed, parseProgram, parseScopeNode, scopeLoop, addStatement,
   OutOfMemory, parseStatement, parseReturnStatement, makeReturn, parseLetStatement,
   makeLet, parseWhileStatement, closeCondition, parseFunctionStatement, endFunction,
   parseComparisonExpression, parseAddativeExpression, parseMultiplicativeExpression,
   Operand, operator, makeBinary, parsePrimaryExpression, outOfRange, closeParen,
   parseIdentifier, propagate, PastTheEnd, Reads, In

\* A generator constructed on what was parsed is as its invariant says.
LEMMA HandedOver ==
  Kept /\ status = "parsed" /\ Generator!Constructed => GP!GInv /\ GP!NoNull
<1> SUFFICES ASSUME Kept, status = "parsed", Generator!Constructed
             PROVE  GP!GInv /\ GP!NoNull
  OBVIOUS
<1>1. GP!IsTree(nodes) BY ParsedIsTree
<1>2. GP!Constructed BY SameConstructed
<1>3. GP!GInv BY <1>1, <1>2, Instantiated, GP!ConstructedGInv
<1>4. GP!NoNull BY <1>2, Instantiated, GP!ConstructedNoNull
<1> QED BY <1>3, <1>4

LEMMA HandedOverNext ==
  (Kept /\ status = "parsed" /\ Generator!Constructed => GP!GInv /\ GP!NoNull)'
BY HandedOver, PTL

\* Nothing changed: neither has what is said of the generator.
LEMMA HandedStays ==
  ASSUME Handed, nodes' = nodes, status' = status, UNCHANGED generatorVars
  PROVE  Handed'
<1>1. CASE status = "parsed"
  <2>1. GP!vars' = GP!vars
    BY DEF generatorVars, GP!vars, GP!output, GP!tables
  <2>2. GP!GInv' BY <1>1, <2>1, GP!StutterStep, Instantiated DEF Handed
  <2>3. GP!NoNull' BY <1>1, <2>1, GP!NoNullNext, Instantiated DEF Handed
  <2> QED BY <1>1, <2>2, <2>3 DEF Handed
<1>2. CASE status # "parsed"
  BY <1>2 DEF Handed, generatorVars, Generator!Constructed
<1> QED BY <1>1, <1>2

LEMMA CInvNext == ASSUME CInv, [CompilerNext]_compilerVars PROVE CInv'
<1>1. ParserInv' BY ParserInvNext DEF CInv
<1>2. CASE Parse
  <2>1. status # "parsed" /\ Generator!Constructed
    BY <1>2, NothingAfter DEF CInv, Handed, Parse
  <2>2. Generator!Constructed'
    BY <1>2, <2>1 DEF Parse, generatorVars, Generator!Constructed
  <2>3. status' = "parsed" => GP!GInv' /\ GP!NoNull'
    BY <1>1, <2>2, HandedOverNext DEF ParserInv, PInv
  <2> QED BY <1>1, <2>2, <2>3 DEF CInv, Handed
<1>3. CASE Generate
  <2>1. status = "parsed" /\ GP!GInv /\ GP!NoNull BY <1>3 DEF CInv, Handed, Generate
  <2>2. GP!generate BY <1>3, SameGenerator DEF Generate
  <2>3. nodes' = nodes /\ status' = "parsed" BY <1>3, <2>1 DEF Generate, parserVars
  <2>4. GP!GInv' BY <2>1, <2>2, <<>>' = <<>>, Instantiated, GP!GenerateStep
  <2>5. GP!NoNull'
    <3>1. GP!Next BY <2>2, <<>>' = <<>> DEF GP!Next
    <3> QED BY <2>1, <3>1, Instantiated, GP!NoNullNext
  <2> QED BY <1>1, <2>3, <2>4, <2>5 DEF CInv, Handed
<1>4. CASE UNCHANGED compilerVars
  <2>1. nodes' = nodes /\ status' = status /\ UNCHANGED generatorVars
    BY <1>4 DEF compilerVars, parserVars
  <2> QED BY <1>1, <2>1, HandedStays DEF CInv
<1> QED BY <1>2, <1>3, <1>4 DEF CompilerNext

LEMMA TypesOfCInv == ASSUME CInv PROVE TypeOK
<1>1. Kept /\ Stacked BY DEF CInv, ParserInv, PInv
<1>2. nodes = <<>> \/ Generator!IsTree(nodes) BY <1>1, ParsedIsTree DEF Kept
<1>3. \A i \in DOMAIN calls : calls[i].node \in 0 .. Len(nodes)
  BY <1>1 DEF Stacked, Suits
<1>4. Generator!TypeOK \/ phase = "idle"
  <2>1. CASE status = "parsed"
    BY <2>1, GP!GInvTypes, Instantiated, SameTypes DEF CInv, Handed
  <2>2. CASE status # "parsed"
    BY <2>2 DEF CInv, Handed, Generator!Constructed
  <2> QED BY <2>1, <2>2
<1> QED BY <1>1, <1>2, <1>3, <1>4 DEF TypeOK, Kept

LEMMA CInvAlways == CompilerSpec => []CInv
<1>1. CompilerInit => CInv
  <2> SUFFICES ASSUME CompilerInit PROVE CInv OBVIOUS
  <2>1. ParserInv BY Starts DEF ParserInv, StuckAtStrayToken, CompilerInit, Init
  <2>2. Handed BY DEF Handed, CompilerInit, Init
  <2> QED BY <2>1, <2>2 DEF CInv
<1>2. CInv /\ [CompilerNext]_compilerVars => CInv' BY CInvNext
<1> QED BY <1>1, <1>2, PTL DEF CompilerSpec

\* Whatever the tokens, at most 65535 of them, the cursor, the nodes, the
\* activations of both halves and the bytes are of their types: what the parser
\* calls parsed is a tree, its literals 16 bits, and the generator's tables and
\* bytes stay typed on it (parser.cpp:13-426, code_generator.cpp:17-361).
THEOREM CompilerTypes == CompilerSpec => []TypeOK
<1>1. CInv => TypeOK BY TypesOfCInv
<1> QED BY <1>1, CInvAlways, PTL

LEMMA SameChildren == \A n : GP!Children(n) = Generator!Children(n)
BY DEF GP!Children, Generator!Children

LEMMA SameNull ==
  ASSUME GP!NoNull PROVE AcceptedIsGenerated
BY SameChildren
   DEF GP!NoNull, AcceptedIsGenerated, Generator!FollowsNoNull, GP!IsWhole,
       Generator!IsWhole, GP!Castable, Generator!Castable

\* What a parse accepts without leaving a child out, its while conditions
\* comparisons, is generated to the end: no null pointer is followed, and no
\* node taken for what it is not (code_generator.cpp:62-188).
THEOREM AcceptedGenerated == CompilerSpec => []AcceptedIsGenerated
<1>1. CInv => AcceptedIsGenerated
  <2> SUFFICES ASSUME CInv PROVE AcceptedIsGenerated OBVIOUS
  <2>1. CASE status = "parsed" BY <2>1, SameNull DEF CInv, Handed
  <2>2. CASE status # "parsed"
    BY <2>2 DEF CInv, Handed, Generator!Constructed, AcceptedIsGenerated,
       Generator!FollowsNoNull
  <2> QED BY <2>1, <2>2
<1> QED BY <1>1, CInvAlways, PTL

\* Whatever was parsed without an error, its missing children included, the code
\* generated from it is at every moment a sequence of the instructions that were
\* meant (code_generator.cpp:17-52).
THEOREM CompilerBoundaries == CompilerSpec => []Generator!Boundaries
<1>1. CInv => Generator!Boundaries
  <2> SUFFICES ASSUME CInv PROVE Generator!Boundaries OBVIOUS
  <2>1. CASE status = "parsed"
    <3>1. GP!Boundaries BY <2>1, GP!GInvTypes, Instantiated DEF CInv, Handed
    <3> QED BY <3>1, SameBoundaries
  <2>2. CASE status # "parsed"
    BY <2>2 DEF CInv, Handed, Generator!Constructed, Generator!Boundaries
  <2> QED BY <2>1, <2>2
<1> QED BY <1>1, CInvAlways, PTL
=============================================================================
