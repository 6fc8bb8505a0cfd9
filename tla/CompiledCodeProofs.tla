------------------------- MODULE CompiledCodeProofs -------------------------
(***************************************************************************)
(* Proofs about the generator and the machine together, for every tree:    *)
(* the code of a disciplined tree keeps the stack discipline that the      *)
(* handlers of the machine rely on.                                        *)
(***************************************************************************)
EXTENDS CompiledCode, CodeGeneratorProofs, WellFoundedInduction, FiniteSetTheorems

-----------------------------------------------------------------------------
(* The invariant.  It says of the code there is what StackDiscipline says  *)
(* of the finished code, for some heights, and of every activation how     *)
(* high it finds the stack when its turn comes and what it adds to it.     *)

\* What the instruction at o of code adds to the stack.
PushesAt(code, o) ==
  LET op == code[o + 1]
  IN  CASE op = PSH_LIT -> 1
        [] op = PEK_OFF -> IF code[o + 2] = sp THEN 1 ELSE 0
        [] op = POP_REG \/ op \in Binary -> -1
        [] op = CMP -> -2
        [] OTHER -> 0

\* The instruction at o finds what it needs on the stack, and leads to others.
Typed(code, h, o) ==
  /\ code[o + 1] # RET
  /\ o + LengthAt(code, o) \in DOMAIN h
  /\ h[o + LengthAt(code, o)] = h[o] + PushesAt(code, o)
  /\ TypedInstruction(code, h, o)

\* So do all those from Entry to end.
TypedTo(code, st, end, h) ==
  /\ h \in [{o \in st : Entry <= o /\ o < end} \cup {end} -> Nat]
  /\ Entry \in DOMAIN h /\ h[Entry] = 0
  /\ \A o \in st : Entry <= o /\ o < end => Typed(code, h, o)

\* What the code of an expression leaves on the stack, generated for reg.
LeftBy(n, reg) ==
  IF n \in Values /\ (reg = sp \/ ast[n].type = "NUMERIC_LITERAL") THEN 1 ELSE 0

\* What an activation will have added to the stack when it has returned, that of
\* the program apart.
Adds(a) ==
  CASE a.function = "generateExpression" -> LeftBy(a.node, a.reg)
    [] a.function = "generateLetStatement" -> 1
    [] a.function = "emitReturn" -> -LeftBy(ast[a.node].expression, ret)
    [] a.function = "generateCompareOperator" -> -2
    [] a.function = "generateOperator" -> IF a.reg = sp THEN -1 ELSE -2
    [] OTHER -> 0

\* One of the variables vs occurs in n.
Mentions(n, vs) ==
  \E m \in Below[n] : ast[m].type = "IDENTIFIER" /\ ast[m].name \in vs

StatementCalls == {"generateScope", "generateReturnStatement", "generateLetStatement",
                   "generateWhileStatement"}
ExpressionCalls == {"generateExpression", "generateComparisonExpression"}
Returning == {"generateReturnStatement", "emitReturn"}

\* An activation is of a node the generator has code for, and finds the stack k
\* words high, the variables vs among them.
Ready(a, h, k, vs) ==
  /\ a.node \in DOMAIN ast
  /\ a.function = "generateExpression" =>
       /\ a.reg = ret => a.node \in Values \cup Comparisons
       /\ a.reg = sp => a.node \notin Comparisons
  /\ a.function = "generateComparisonExpression" => a.node \in Comparisons
  /\ a.function = "moveResult" => a.reg = ret
  /\ a.function \in {"generateCompareOperator", "generateOperator"} => k >= 2
  /\ a.function = "closeLoop" => a.at \in DOMAIN h /\ h[a.at] = k
  /\ a.function \in StatementCalls /\ vs # {} => k >= 1
  /\ a.function \in ExpressionCalls /\ Mentions(a.node, vs) => k >= 1

\* The program is the last to return, and the only one with definitions.
Rooted(a, i, n) ==
  /\ i = n => a.function = "generateScope" /\ a.node = 1
  /\ a.function = "generateScope" /\ i # n => ast[a.node].type = "WHILE"
  /\ a.function = "generateLetStatement" => i = 1 /\ n = 2

\* The returns of the program that were called are still on the stack cs.
Owed(cs) ==
  \A j \in DOMAIN ast[1].body :
    j < cs[Len(cs)].at /\ ast[ast[1].body[j]].type = "RETURN" =>
      \E i \in DOMAIN cs : cs[i].function \in Returning

\* At the end of the code the stack of the machine is so high that it will be H[i]
\* words high when the turn of the i-th activation of cs comes.
Promised(cs, end, vs, h, H) ==
  /\ cs # <<>>
  /\ H \in [DOMAIN cs -> Nat]
  /\ H[1] = h[end]
  /\ \A i \in DOMAIN cs :
       /\ Ready(cs[i], h, H[i], vs)
       /\ Rooted(cs[i], i, Len(cs))
       /\ i # Len(cs) => H[i + 1] = H[i] + Adds(cs[i])
  /\ Owed(cs)

Placed(h, H) ==
  /\ TypedTo(bytecode, starts, Len(bytecode), h)
  /\ Promised(calls, Len(bytecode), DOMAIN identifiers, h, H)

Going == \E h, H : Placed(h, H)

Gone ==
  \E r \in starts : \E h :
    Entry <= r /\ bytecode[r + 1] = RET /\ TypedTo(bytecode, starts, r, h)

\* Every pop was emitted, so that in so much code m_stackSize does not come round.
SlotsOK ==
  Addressable =>
    /\ stackSize = 0 \/ stackSize + Len(bytecode) >= 65536
    /\ printed = {} => \A x \in DOMAIN identifiers : identifiers[x] = 0

DInv ==
  /\ GInv
  /\ SlotsOK
  /\ status = "idle" => identifiers = <<>> /\ calls = <<>>
  /\ Disciplined /\ printed = {} /\ Addressable =>
       /\ status = "generating" => Gone \/ Going
       /\ status = "generated" => Gone

-----------------------------------------------------------------------------
(* Instructions.                                                           *)

\* An instruction is typed wherever its bytes are found and the heights it
\* refers to.
LEMMA TypedAlike ==
  ASSUME NEW c \in Seq(Byte), NEW h, NEW o \in DOMAIN h,
         \A x \in DOMAIN h : x \in Nat /\ x <= Len(c) /\ h[x] \in Nat,
         Typed(c, h, o),
         NEW d, NEW g, NEW p \in Nat,
         \A x \in DOMAIN h : x + (p - o) \in DOMAIN g /\ g[x + (p - o)] = h[x],
         \A n \in 1 .. 3 : o + n \in DOMAIN h =>
           \A k \in 1 .. n : d[p + k] = c[o + k]
  PROVE  Typed(d, g, p)
<1> DEFINE op == c[o + 1]
           m == LengthAt(c, o)
<1>1. o \in Nat /\ m \in 1 .. 3 /\ o + m \in DOMAIN h /\ Len(c) \in Nat
  BY Lengths, LenProperties DEF Typed
<1>2. \A n \in 1 .. 3 : o + n \in DOMAIN h =>
        /\ p + n \in DOMAIN g /\ g[p + n] = h[o + n]
        /\ d[p + 1] = op
        /\ n >= 2 => Arg(d, p, 1) = Arg(c, o, 1)
        /\ n >= 3 => Arg(d, p, 2) = Arg(c, o, 2)
  <2> TAKE n \in 1 .. 3
  <2> HAVE o + n \in DOMAIN h
  <2>1. (o + n) + (p - o) = p + n BY <1>1
  <2>2. \A k \in 1 .. n : d[p + k] = c[o + k] OBVIOUS
  <2>3. o + 1 + 1 = o + 2 /\ p + 1 + 1 = p + 2 /\ o + 1 + 2 = o + 3 /\ p + 1 + 2 = p + 3
    BY ONLY <1>1, p \in Nat, SMTT(30)
  <2> QED BY <2>1, <2>2, <2>3 DEF Arg
<1>3. p \in DOMAIN g /\ g[p] = h[o]
  <2>1. o + (p - o) = p BY <1>1
  <2> QED BY <2>1
<1>4. ASSUME NEW n \in 1 .. 3, NEW needs, NEW delta, Continues(h, o, n, needs, delta)
      PROVE  /\ Continues(g, p, n, needs, delta)
             /\ n >= 2 => Arg(d, p, 1) = Arg(c, o, 1)
             /\ n >= 3 => Arg(d, p, 2) = Arg(c, o, 2)
  BY <1>2, <1>3, <1>4 DEF Continues
<1>5. d[p + 1] = op BY <1>1, <1>2
<1>6. TypedInstruction(d, g, p)
  <2>1. CASE op = JLT
    <3>1. Continues(h, o, 3, 0, 0) /\ JumpTarget(c, o) \in DOMAIN h
          /\ h[JumpTarget(c, o)] = h[o]
      BY <1>1, <2>1
         DEF Typed, TypedInstruction, PSH, PSH_LIT, Binary, ADD, SUB, MUL, DIV, RET,
             PSH_REG, POP_REG, PEK_REG, CMP, MOV, PEK_OFF, INC, DEC, JLT
    <3>2. /\ Continues(g, p, 3, 0, 0)
          /\ Arg(d, p, 1) = Arg(c, o, 1) /\ Arg(d, p, 2) = Arg(c, o, 2)
      BY <1>4, <3>1
    <3>3. Literal(d, p) = Literal(c, o) BY <3>2 DEF Literal
    <3>4. Literal(c, o) \in Int
      <4>1. o + 3 <= Len(c) BY <3>1 DEF Continues
      <4>2. o + 2 \in 1 .. Len(c) /\ o + 3 \in 1 .. Len(c) BY <1>1, <4>1
      <4>3. c[o + 2] \in Byte /\ c[o + 3] \in Byte BY <4>2, ElementOfSeq
      <4>4. o + 1 + 1 = o + 2 /\ o + 1 + 2 = o + 3 BY ONLY <1>1, SMTT(30)
      <4>5. Arg(c, o, 1) \in Int /\ Arg(c, o, 2) \in Int BY <4>3, <4>4 DEF Arg, Byte
      <4> QED BY ONLY <4>5, SMTT(30) DEF Literal, I16
    <3>5. JumpTarget(d, p) = JumpTarget(c, o) + (p - o)
      BY <1>1, <3>3, <3>4 DEF JumpTarget
    <3>6. JumpTarget(d, p) \in DOMAIN g /\ g[JumpTarget(d, p)] = g[p]
      BY <1>3, <3>1, <3>5
    <3> QED BY <1>5, <2>1, <3>2, <3>6 DEF TypedInstruction
  <2>2. CASE op # JLT
    <3>1. TypedInstruction(c, h, o) BY DEF Typed
    <3>2. op # RET BY DEF Typed
    <3>3. ASSUME NEW n \in 1 .. 3, NEW needs, NEW delta, Continues(h, o, n, needs, delta)
          PROVE  Continues(g, p, n, needs, delta)
      BY <1>4, <3>3
    <3>4. /\ (\E needs, delta : Continues(h, o, 3, needs, delta)) =>
               Arg(d, p, 1) = Arg(c, o, 1) /\ Arg(d, p, 2) = Arg(c, o, 2)
          /\ (\E needs, delta : Continues(h, o, 2, needs, delta)) =>
               Arg(d, p, 1) = Arg(c, o, 1)
      BY <1>4
    <3>5. 1 \in 1 .. 3 /\ 2 \in 1 .. 3 /\ 3 \in 1 .. 3 OBVIOUS
    <3> HIDE DEF op
    <3> QED BY <1>3, <1>5, <2>2, <3>1, <3>2, <3>3, <3>4, <3>5 DEF TypedInstruction, op
  <2> QED BY <2>1, <2>2
<1>7. LengthAt(d, p) = m /\ PushesAt(d, p) = PushesAt(c, o)
  <2>1. op \in {INC, DEC, PEK_OFF} => d[p + 2] = c[o + 2]
    <3>1. op \in {INC, DEC, PEK_OFF} =>
            \E needs, delta : \/ Continues(h, o, 2, needs, delta)
                              \/ Continues(h, o, 3, needs, delta)
      <4>1. TypedInstruction(c, h, o) BY DEF Typed
      <4> HIDE DEF op
      <4>2. op \in {INC, DEC, PEK_OFF} =>
              op \notin Binary \cup {PSH, PSH_LIT, RET, PSH_REG, POP_REG, PEK_REG, CMP,
                                    MOV, JLT}
        BY SMTT(30) DEF PSH, PSH_LIT, Binary, ADD, SUB, MUL, DIV, RET, PSH_REG, POP_REG,
               PEK_REG, CMP, MOV, PEK_OFF, INC, DEC, JLT
      <4> QED BY <4>1, <4>2 DEF TypedInstruction, op
    <3>2. op \in {INC, DEC, PEK_OFF} => o + 2 \in DOMAIN h \/ o + 3 \in DOMAIN h
      BY <3>1 DEF Continues
    <3> QED BY <3>2
  <2> QED BY <1>5, <2>1, SameLength DEF PushesAt
<1> QED BY <1>1, <1>2, <1>3, <1>5, <1>6, <1>7 DEF Typed

\* What an instruction i needs of a stack that is k words high.
Finds(i, k) ==
  \/ i[1] = PSH_LIT
  \/ i[1] \in Binary /\ k >= 2
  \/ i[1] = POP_REG /\ k >= 1 /\ i[2] \in General
  \/ i[1] = CMP /\ k >= 2
  \/ i[1] = MOV /\ i[2] \in General /\ i[3] \in General
  \/ i[1] = PEK_OFF /\ i[2] \in General \cup {sp} /\ i[3] < k
  \/ i[1] \in {INC, DEC} /\ i[3] < k

Jumps(c, i, h) ==
  LET j == JumpTarget(c \o i, Len(c))
  IN  i[1] = JLT /\ j \in DOMAIN h /\ h[j] = h[Len(c)]

\* g knows the heights of h.
Extends(g, h) == \A x \in DOMAIN h : x \in DOMAIN g /\ g[x] = h[x]

\* h with a height for the end of what is emitted.
Raised(h, e, k) == [x \in DOMAIN h \cup {e} |-> IF x = e THEN k ELSE h[x]]

\* What follows a typed program and finds what it needs is typed.
LEMMA EmitTyped ==
  ASSUME NEW c, NEW st, NEW h, CodeOK(c, st), TypedTo(c, st, Len(c), h),
         NEW i, Whole(i), Finds(i, h[Len(c)]) \/ Jumps(c, i, h)
  PROVE  \E g : /\ TypedTo(c \o i, st \cup {Len(c)}, Len(c \o i), g)
                /\ g[Len(c \o i)] = h[Len(c)] + PushesAt(i, 0)
                /\ Extends(g, h)
<1> DEFINE n == Len(c)
           m == Len(i)
           e == c \o i
           k == h[n] + PushesAt(i, 0)
           g == Raised(h, Len(e), k)
<1>1. /\ c \in Seq(Byte) /\ i \in Seq(Byte) /\ n \in Nat /\ m \in 1 .. 3
      /\ m = LengthAt(i, 0) /\ Meant(i, 0)
      /\ \A o \in st : o \in Nat /\ o < n
  <2>1. m = LengthAt(i, 0) /\ LengthAt(i, 0) \in 1 .. 3 BY Lengths DEF Whole
  <2> QED BY <2>1, LenProperties DEF CodeOK, Whole
<1>2. /\ e \in Seq(Byte) /\ Len(e) = n + m
      /\ \A j \in 1 .. n + m : e[j] = IF j <= n THEN c[j] ELSE i[j - n]
  BY <1>1, ConcatProperties
<1> HIDE DEF e
<1>3. /\ h \in [{o \in st : 3 <= o} \cup {n} -> Nat] /\ 3 \in DOMAIN h /\ h[3] = 0
      /\ n >= 3
  <2>1. Entry = 3 BY DEF Entry
  <2>2. {o \in st : 3 <= o /\ o < n} = {o \in st : 3 <= o} BY <1>1
  <2> QED BY SMTT(30), <1>1, <2>1, <2>2 DEF TypedTo
<1>4. \A x \in DOMAIN h : x \in Nat /\ x <= n /\ h[x] \in Nat BY <1>1, <1>3
<1>5. /\ g = [x \in DOMAIN h \cup {n + m} |-> IF x = n + m THEN k ELSE h[x]]
      /\ \A x \in DOMAIN h : x \in DOMAIN g /\ g[x] = h[x]
      /\ n + m \in DOMAIN g /\ g[n + m] = k
  <2>1. \A x \in DOMAIN h : x # n + m BY <1>1, <1>4
  <2> QED BY <1>2, <2>1 DEF Raised
<1>6. \A j \in 1 .. m : e[n + j] = i[j]
  <2> TAKE j \in 1 .. m
  <2>1. n + j \in 1 .. n + m /\ ~(n + j <= n) /\ (n + j) - n = j BY <1>1
  <2> QED BY <1>2, <2>1
<1> DEFINE op == i[1]
           t == h[n]
<1>a. t \in Nat /\ n \in DOMAIN h BY <1>3
<1>b. op # RET /\ (op = CMP => i[2] = sp)
  <2>1. op # RET
    BY DEF Finds, Jumps, PSH_LIT, Binary, ADD, SUB, MUL, DIV, POP_REG, CMP, MOV, PEK_OFF,
           INC, DEC, JLT, RET
  <2>2. op = CMP => i[0 + 2] = sp BY <1>1 DEF Meant
  <2> QED BY <2>1, <2>2
<1>7. k \in Nat
  <2>1. PushesAt(i, 0) = CASE op = PSH_LIT -> 1
          [] op = PEK_OFF -> IF i[2] = sp THEN 1 ELSE 0
          [] op = POP_REG \/ op \in Binary -> -1
          [] op = CMP -> -2
          [] OTHER -> 0
    BY DEF PushesAt
  <2>2. /\ op = POP_REG => t >= 1
        /\ op \in Binary => t >= 2
        /\ op = CMP => t >= 2
    BY DEF Finds, Jumps, PSH_LIT, Binary, ADD, SUB, MUL, DIV, POP_REG, CMP, MOV, PEK_OFF,
           INC, DEC, JLT
  <2>3. PSH_LIT \notin Binary \cup {POP_REG, CMP, PEK_OFF}
        /\ PEK_OFF \notin Binary \cup {POP_REG, CMP}
        /\ CMP \notin Binary \cup {POP_REG}
    BY DEF PSH_LIT, Binary, ADD, SUB, MUL, DIV, POP_REG, CMP, PEK_OFF
  <2> HIDE DEF op, t
  <2>4. t + PushesAt(i, 0) \in Nat BY <1>a, <2>1, <2>2, <2>3
  <2> QED BY <2>4 DEF t
<1> HIDE DEF g, k
<1>8. ASSUME NEW o \in st, 3 <= o PROVE Typed(e, g, o)
  <2>1. o \in DOMAIN h /\ Typed(c, h, o)
    <3>1. Entry <= o BY <1>8 DEF Entry
    <3> QED BY <1>1, <1>3, <1>8, <3>1 DEF TypedTo
  <2>2. o \in Nat /\ \A x \in DOMAIN h : x + (o - o) = x BY <1>1, <1>4
  <2>3. \A x \in DOMAIN h : x + (o - o) \in DOMAIN g /\ g[x + (o - o)] = h[x]
    BY <1>5, <2>2
  <2>4. \A j \in 1 .. 3 : o + j \in DOMAIN h =>
          \A l \in 1 .. j : e[o + l] = c[o + l]
    BY <1>1, <1>2, <1>4, <2>2
  <2> QED BY <1>1, <1>4, <2>1, <2>2, <2>3, <2>4, TypedAlike
<1>9. Typed(e, g, n)
  <2>1. /\ n + 1 \in 1 .. n + m /\ e[n + 1] = op
        /\ m >= 2 => Arg(e, n, 1) = i[2]
        /\ m >= 3 => Arg(e, n, 2) = i[3]
    <3>1. n + 1 + 1 = n + 2 /\ n + 1 + 2 = n + 3 BY <1>1
    <3> QED BY <1>1, <1>6, <3>1 DEF Arg
  <2>2. LengthAt(e, n) = m /\ PushesAt(e, n) = PushesAt(i, 0)
    <3>1. op \in {INC, DEC, PEK_OFF} => e[n + 2] = i[2]
      <4>1. op \in {INC, DEC, PEK_OFF} => m = 3
        <5>1. op = PEK_OFF => LengthAt(i, 0) = 3
          <6>1. i[0 + 1] = op OBVIOUS
          <6>2. PEK_OFF \notin {INC, DEC, POP_REG, PEK_REG, PSH_REG, CMP}
            BY DEF PEK_OFF, INC, DEC, POP_REG, PEK_REG, PSH_REG, CMP
          <6> QED BY <6>1, <6>2 DEF LengthAt
        <5>2. op \in {INC, DEC} => LengthAt(i, 0) = 3
          <6>1. i[0 + 1] = op OBVIOUS
          <6> QED BY <1>1, <6>1, Lengths
        <5> QED BY <1>1, <5>1, <5>2
      <4> QED BY <1>1, <1>6, <4>1
    <3>2. i[0 + 1] = i[1] /\ i[0 + 2] = i[2] OBVIOUS
    <3>3. LengthAt(e, n) = LengthAt(i, 0) BY <2>1, <3>1, <3>2, SameLength
    <3>4. PushesAt(e, n) = PushesAt(i, 0) BY <2>1, <3>1, <3>2 DEF PushesAt
    <3> QED BY <1>1, <3>3, <3>4
  <2>3. n \in DOMAIN g /\ g[n] = t /\ g[n + m] = t + PushesAt(i, 0) /\ n + m \in DOMAIN g
    BY <1>5, <1>a DEF k
  <2>4. TypedInstruction(e, g, n)
    <3> DEFINE d == PushesAt(i, 0)
    <3>1. ASSUME NEW needs \in Nat, t >= needs
          PROVE  Continues(g, n, m, needs, d)
      BY <2>3, <3>1 DEF Continues
    <3>2. d = CASE op = PSH_LIT -> 1
            [] op = PEK_OFF -> IF i[2] = sp THEN 1 ELSE 0
            [] op = POP_REG \/ op \in Binary -> -1
            [] op = CMP -> -2
            [] OTHER -> 0
      BY DEF PushesAt
    <3>3. m = CASE op \in {PSH_LIT, MOV, PEK_OFF, JLT, JMP} -> 3
                [] op \in {INC, DEC} -> IF i[2] = sp THEN 3 ELSE 2
                [] op \in {POP_REG, PEK_REG, PSH_REG, CMP} -> 2
                [] OTHER -> 1
      BY <1>1 DEF LengthAt
    <3>4. op \in {INC, DEC} => i[2] = sp
      <4>1. op \in {INC, DEC} => i[0 + 2] = sp BY <1>1 DEF Meant
      <4> QED BY <4>1
    <3>a. op = JLT \/ Finds(i, t) BY DEF Jumps
    <3>b. /\ op \in Binary => t >= 2
          /\ op = POP_REG => t >= 1 /\ i[2] \in General
          /\ op = CMP => t >= 2
          /\ op = MOV => i[2] \in General /\ i[3] \in General
          /\ op = PEK_OFF => i[2] \in General \cup {sp} /\ i[3] < t
          /\ op \in {INC, DEC} => i[3] < t
      BY <3>a DEF Finds, PSH_LIT, PEK_OFF, POP_REG, Binary, ADD, SUB, MUL, DIV, CMP,
                  MOV, JLT, JMP, INC, DEC
    <3>c. sp \notin General BY DEF General, sp, imm, ret
    <3> HIDE DEF op, t, d, m, n
    <3>5. CASE op = PSH_LIT
      <4>1. m = 3 /\ d = 1
        BY <3>2, <3>3, <3>4, <3>b, <3>c, <3>5
           DEF PSH_LIT, PEK_OFF, POP_REG, Binary, ADD, SUB, MUL, DIV, CMP, MOV,
               JLT, JMP, INC, DEC, PEK_REG, PSH_REG, RET, sp
      <4>2. Continues(g, n, 3, 0, 1) BY <1>a, <3>1, <3>b, <3>5, <4>1
      <4> QED BY <1>b, <2>1, <2>3, <3>4, <3>b, <3>5, <4>1, <4>2 DEF TypedInstruction
    <3>6. CASE op \in Binary
      <4>1. m = 1 /\ d = -1
        BY ONLY SMTT(30), <3>2, <3>3, <3>4, <3>b, <3>c, <3>6
           DEF PSH_LIT, PEK_OFF, POP_REG, Binary, ADD, SUB, MUL, DIV, CMP, MOV,
               JLT, JMP, INC, DEC, PEK_REG, PSH_REG, RET, sp
      <4>2. Continues(g, n, 1, 2, -1) BY <1>a, <3>1, <3>b, <3>6, <4>1
      <4> QED BY <1>b, <2>1, <2>3, <3>4, <3>b, <3>6, <4>1, <4>2 DEF TypedInstruction
    <3>7. CASE op = POP_REG
      <4>1. m = 2 /\ d = -1
        BY <3>2, <3>3, <3>4, <3>b, <3>c, <3>7
           DEF PSH_LIT, PEK_OFF, POP_REG, Binary, ADD, SUB, MUL, DIV, CMP, MOV,
               JLT, JMP, INC, DEC, PEK_REG, PSH_REG, RET, sp
      <4>2. Continues(g, n, 2, 1, -1) BY <1>a, <3>1, <3>b, <3>7, <4>1
      <4> QED BY <1>b, <2>1, <2>3, <3>4, <3>b, <3>7, <4>1, <4>2 DEF TypedInstruction
    <3>8. CASE op = CMP
      <4>1. m = 2 /\ d = -2
        BY <3>2, <3>3, <3>4, <3>b, <3>c, <3>8
           DEF PSH_LIT, PEK_OFF, POP_REG, Binary, ADD, SUB, MUL, DIV, CMP, MOV,
               JLT, JMP, INC, DEC, PEK_REG, PSH_REG, RET, sp
      <4>2. Continues(g, n, 2, 2, -2) BY <1>a, <3>1, <3>b, <3>8, <4>1
      <4> QED BY <1>b, <2>1, <2>3, <3>4, <3>b, <3>8, <4>1, <4>2 DEF TypedInstruction
    <3>9. CASE op = MOV
      <4>1. m = 3 /\ d = 0
        BY <3>2, <3>3, <3>4, <3>b, <3>c, <3>9
           DEF PSH_LIT, PEK_OFF, POP_REG, Binary, ADD, SUB, MUL, DIV, CMP, MOV,
               JLT, JMP, INC, DEC, PEK_REG, PSH_REG, RET, sp
      <4>2. Continues(g, n, 3, 0, 0) BY <1>a, <3>1, <3>b, <3>9, <4>1
      <4> QED BY <1>b, <2>1, <2>3, <3>4, <3>b, <3>9, <4>1, <4>2 DEF TypedInstruction
    <3>10. CASE op = PEK_OFF
      <4>1. m = 3 /\ d = (IF i[2] = sp THEN 1 ELSE 0)
        BY <3>2, <3>3, <3>10
           DEF PSH_LIT, PEK_OFF, POP_REG, Binary, ADD, SUB, MUL, DIV, CMP, MOV,
               JLT, JMP, INC, DEC, PEK_REG, PSH_REG, RET, sp
      <4>2. Continues(g, n, 3, 0, d) BY <1>a, <3>1, <4>1
      <4>3. CASE i[2] = sp
        BY <2>1, <2>3, <3>b, <3>10, <4>1, <4>2, <4>3 DEF TypedInstruction
      <4>4. CASE i[2] # sp
        BY <2>1, <2>3, <3>b, <3>10, <4>1, <4>2, <4>4 DEF TypedInstruction
      <4> QED BY <4>3, <4>4
    <3>11. CASE op \in {INC, DEC}
      <4>1. m = 3 /\ d = 0
        BY <3>2, <3>3, <3>4, <3>b, <3>c, <3>11
           DEF PSH_LIT, PEK_OFF, POP_REG, Binary, ADD, SUB, MUL, DIV, CMP, MOV,
               JLT, JMP, INC, DEC, PEK_REG, PSH_REG, RET, sp
      <4>2. Continues(g, n, 3, 0, 0) BY <1>a, <3>1, <3>b, <3>11, <4>1
      <4> QED BY <1>b, <2>1, <2>3, <3>4, <3>b, <3>11, <4>1, <4>2 DEF TypedInstruction
    <3>12. CASE op = JLT
      <4>1. m = 3 /\ d = 0
        BY <3>2, <3>3, <3>12
           DEF PSH_LIT, PEK_OFF, POP_REG, Binary, ADD, SUB, MUL, DIV, CMP, MOV,
               JLT, JMP, INC, DEC, PEK_REG, PSH_REG, RET, sp
      <4>2. Continues(g, n, 3, 0, 0) BY <1>a, <3>1, <4>1
      <4>3. Jumps(c, i, h)
        BY <3>12 DEF op, n, Finds, PSH_LIT, PEK_OFF, POP_REG, Binary, ADD, SUB, MUL, DIV,
                     CMP, MOV, JLT, INC, DEC
      <4>4. JumpTarget(e, n) \in DOMAIN h /\ h[JumpTarget(e, n)] = t
        BY <4>3 DEF Jumps, e, n, t
      <4>5. JumpTarget(e, n) \in DOMAIN g /\ g[JumpTarget(e, n)] = g[n]
        BY <1>5, <2>3, <4>4
      <4> QED BY <2>1, <3>12, <4>2, <4>5 DEF TypedInstruction
    <3> QED BY <3>a, <3>5, <3>6, <3>7, <3>8, <3>9, <3>10, <3>11, <3>12 DEF Finds, op
  <2> QED BY <1>b, <2>1, <2>2, <2>3, <2>4 DEF Typed
<1>10. TypedTo(e, st \cup {n}, Len(e), g)
  <2>1. DOMAIN g = {o \in st \cup {n} : 3 <= o /\ o < n + m} \cup {n + m}
    BY <1>1, <1>3, <1>5
  <2>2. \A x \in DOMAIN g : g[x] \in Nat BY <1>3, <1>5, <1>7
  <2>3. g \in [{o \in st \cup {n} : 3 <= o /\ o < n + m} \cup {n + m} -> Nat]
    BY <1>5, <2>1, <2>2
  <2>4. 3 \in DOMAIN g /\ g[3] = 0 BY <1>3, <1>5
  <2>5. Entry = 3 BY DEF Entry
  <2> QED BY <1>2, <1>8, <1>9, <2>3, <2>4, <2>5 DEF TypedTo
<1> QED BY <1>2, <1>5, <1>10 DEF k, e, Extends

-----------------------------------------------------------------------------
(* Trees.                                                                  *)

\* No child is missing.
Filled == \A n \in DOMAIN ast : Children(n) \subseteq DOMAIN ast

\* Below is a recursive definition that something satisfies, the nodes that
\* are in every set that has n and the children of its members.
LEMMA BelowIs ==
  ASSUME Filled
  PROVE  \A n \in DOMAIN ast : Below[n] = {n} \cup UNION {Below[c] : c \in Children(n)}
<1> DEFINE D == DOMAIN ast
           Closed(S) == \A m \in S : Children(m) \subseteq S
           R(n) == {m \in D : \A S \in SUBSET D : Closed(S) /\ n \in S => m \in S}
           Next1(f) == [n \in D |-> {n} \cup UNION {f[c] : c \in Children(n)}]
           f == [n \in D |-> R(n)]
<1>1. \A n \in D : n \in R(n) /\ R(n) \subseteq D OBVIOUS
<1>2. \A n \in D : \A m \in R(n) : Children(m) \subseteq R(n) BY DEF Filled
<1>3. ASSUME NEW n \in D, NEW c \in Children(n) PROVE R(c) \subseteq R(n) OBVIOUS
<1>4. ASSUME NEW n \in D PROVE R(n) = {n} \cup UNION {R(c) : c \in Children(n)}
  <2> DEFINE T == {n} \cup UNION {R(c) : c \in Children(n)}
  <2>1. Children(n) \subseteq D BY DEF Filled
  <2>2. T \subseteq R(n) BY <1>1, <1>3
  <2>3. T \in SUBSET D /\ n \in T BY <1>1, <2>2
  <2>4. ASSUME NEW m \in T PROVE Children(m) \subseteq T
    <3>1. CASE m = n
      <4>1. \A c \in Children(n) : c \in R(c) BY <1>1, <2>1
      <4> QED BY <3>1, <4>1
    <3>2. CASE m # n
      <4>1. PICK c \in Children(n) : m \in R(c) BY <3>2
      <4>2. Children(m) \subseteq R(c) BY <1>2, <2>1, <4>1
      <4> QED BY <4>2
    <3> QED BY <3>1, <3>2
  <2>5. Closed(T) BY <2>4
  <2>6. R(n) \subseteq T
    <3> HIDE DEF T, Closed
    <3> QED BY <2>3, <2>5
  <2> QED BY <2>2, <2>6
<1>5. f = Next1(f)
  <2> HIDE DEF R
  <2>1. \A n \in D : Children(n) \subseteq D BY DEF Filled
  <2>2. ASSUME NEW n \in D
        PROVE  {f[c] : c \in Children(n)} = {R(c) : c \in Children(n)}
    BY <2>1
  <2>3. ASSUME NEW n \in D
        PROVE  f[n] = {n} \cup UNION {f[c] : c \in Children(n)}
    BY <1>4, <2>2
  <2> HIDE DEF D
  <2>4. Next1(f) = [n \in D |-> f[n]] BY <2>3
  <2> QED BY <2>4
<1>6. \E g : g = Next1(g) BY <1>5
<1>7. Below = CHOOSE g : g = Next1(g) BY DEF Below
<1>8. Below = Next1(Below)
  <2> HIDE DEF f, Next1
  <2> QED BY ONLY <1>6, <1>7
<1> QED BY <1>8

LEMMA MentionsBelow ==
  ASSUME Filled, NEW n \in DOMAIN ast
  PROVE  /\ \A c \in Children(n) : Below[c] \subseteq Below[n]
         /\ n \in Below[n]
         /\ \A vs : \A c \in Children(n) : Mentions(c, vs) => Mentions(n, vs)
         /\ \A vs : ast[n].type = "IDENTIFIER" /\ ast[n].name \in vs => Mentions(n, vs)
BY BelowIs DEF Mentions

\* What the discipline says of a node.
LEMMA Nodes ==
  ASSUME IsTree(ast), Disciplined
  PROVE  /\ Filled
         /\ 1 \in DOMAIN ast /\ ast[1].type = "PROGRAM"
         /\ \E j \in DOMAIN ast[1].body : ast[ast[1].body[j]].type = "RETURN"
         /\ \A j \in DOMAIN ast[1].body : ast[1].body[j] \notin Comparisons
<1>1. Len(ast) \in Nat /\ DOMAIN ast = 1 .. Len(ast) /\ Len(ast) >= 1
  BY LenProperties DEF IsTree
<1>2. 1 \in DOMAIN ast /\ ast[1].type = "PROGRAM" BY <1>1 DEF IsTree
<1>3. ASSUME NEW n \in DOMAIN ast PROVE Children(n) \subseteq DOMAIN ast
  <2>1. n \in Ref(ast) /\ n # 0 BY <1>1 DEF Ref
  <2>2. ast[n].type # "FUNCTION" BY DEF Disciplined, NodesOf
  <2>3. Children(n) \subseteq Ref(ast)
    <3> DEFINE x == ast[n]
    <3>1. x.type \in {"PROGRAM", "WHILE"} => x.body \in Seq(Ref(ast))
      BY <2>1, NodeFields
    <3>2. x.type \in {"PROGRAM", "WHILE"} =>
            \A i \in DOMAIN x.body : x.body[i] \in Ref(ast)
      <4> DEFINE b == x.body
      <4>1. b \in Seq(Ref(ast)) => \A i \in DOMAIN b : b[i] \in Ref(ast)
        BY LenProperties, ElementOfSeq
      <4> QED BY <3>1, <4>1
    <3>3. /\ x.type \in {"BINARY_EXPRESSION", "COMPARISON_EXPRESSION"} =>
               x.left \in Ref(ast) /\ x.right \in Ref(ast)
          /\ x.type \in {"LET", "RETURN"} => x.expression \in Ref(ast)
          /\ x.type = "WHILE" => x.condition \in Ref(ast)
      BY <2>1, NodeFields
    <3> QED BY <2>2, <3>2, <3>3 DEF Children
  <2>4. 0 \notin Children(n) BY DEF Disciplined
  <2> QED BY <1>1, <2>3, <2>4 DEF Ref
<1>4. Filled BY <1>3 DEF Filled
<1>5. Children(1) = {ast[1].body[i] : i \in DOMAIN ast[1].body} BY <1>2 DEF Children
<1>6. /\ \E c \in Children(1) : ast[c].type = "RETURN"
      /\ \A c \in Children(1) : c \notin Comparisons
  BY DEF Disciplined, NodesOf
<1> QED BY <1>2, <1>4, <1>5, <1>6

LEMMA NodeRules ==
  ASSUME IsTree(ast), Disciplined, NEW n \in DOMAIN ast
  PROVE  LET x == ast[n]
         IN  /\ x.type \notin {"FUNCTION", "CALL_EXPRESSION", "INC_DEC_EXPRESSION"}
             /\ x.type \in {"BINARY_EXPRESSION", "COMPARISON_EXPRESSION"} =>
                  /\ {x.left, x.right} \subseteq Values
                  /\ {x.left, x.right} \subseteq Children(n)
             /\ x.type = "LET" =>
                  /\ x.expression \in Values /\ x.expression \in Children(n)
                  /\ \A m \in Below[x.expression] :
                       ast[m].type = "IDENTIFIER" => ast[m].name # x.name
             /\ x.type = "RETURN" =>
                  x.expression \in Values \cup Comparisons /\ x.expression \in Children(n)
             /\ x.type = "WHILE" =>
                  /\ x.condition \in Comparisons /\ x.condition \in Children(n)
                  /\ \A i \in DOMAIN x.body :
                       /\ x.body[i] \in Children(n)
                       /\ \/ Counts(x.body[i])
                          \/ ast[x.body[i]].type \in {"WHILE", "RETURN"}
             /\ x.type = "PROGRAM" =>
                  \A i \in DOMAIN x.body : x.body[i] \in Children(n)
<1> DEFINE x == ast[n]
<1>1. x.type \notin {"FUNCTION", "CALL_EXPRESSION", "INC_DEC_EXPRESSION"}
  BY DEF Disciplined, NodesOf
<1>2. x.type \in {"BINARY_EXPRESSION", "COMPARISON_EXPRESSION"} =>
        /\ {x.left, x.right} \subseteq Values
        /\ {x.left, x.right} \subseteq Children(n)
  <2> HAVE x.type \in {"BINARY_EXPRESSION", "COMPARISON_EXPRESSION"}
  <2>1. Children(n) \subseteq Values BY DEF Disciplined, NodesOf
  <2>2. Children(n) = {x.left, x.right} BY DEF Children
  <2> QED BY <2>1, <2>2
<1>3. x.type = "LET" =>
        /\ x.expression \in Values /\ x.expression \in Children(n)
        /\ \A m \in Below[x.expression] :
             ast[m].type = "IDENTIFIER" => ast[m].name # x.name
  <2> HAVE x.type = "LET"
  <2>1. Children(n) \subseteq Values
        /\ \A m \in Below[n] : ast[m].type = "IDENTIFIER" => ast[m].name # x.name
    BY DEF Disciplined, NodesOf
  <2>2. Children(n) = {x.expression} BY DEF Children
  <2>3. Below[x.expression] \subseteq Below[n] BY <2>2, Nodes, MentionsBelow
  <2> QED BY <2>1, <2>2, <2>3
<1>4. x.type = "RETURN" =>
        x.expression \in Values \cup Comparisons /\ x.expression \in Children(n)
  <2> HAVE x.type = "RETURN"
  <2>1. Children(n) \subseteq Values \cup Comparisons BY DEF Disciplined, NodesOf
  <2>2. Children(n) = {x.expression} BY DEF Children
  <2> QED BY <2>1, <2>2
<1>5. x.type = "WHILE" =>
        /\ x.condition \in Comparisons /\ x.condition \in Children(n)
        /\ \A i \in DOMAIN x.body :
             /\ x.body[i] \in Children(n)
             /\ \/ Counts(x.body[i])
                \/ ast[x.body[i]].type \in {"WHILE", "RETURN"}
  <2> HAVE x.type = "WHILE"
  <2>1. /\ x.condition \in Comparisons
        /\ \A i \in DOMAIN x.body :
             \/ Counts(x.body[i])
             \/ x.body[i] \in NodesOf({"WHILE", "RETURN"})
    BY DEF Disciplined, NodesOf
  <2>2. Children(n) = {x.condition} \cup {x.body[i] : i \in DOMAIN x.body}
    BY DEF Children
  <2> QED BY <2>1, <2>2 DEF NodesOf
<1>6. x.type = "PROGRAM" => \A i \in DOMAIN x.body : x.body[i] \in Children(n)
  BY DEF Children
<1> QED BY <1>1, <1>2, <1>3, <1>4, <1>5, <1>6

-----------------------------------------------------------------------------
(* Activations.                                                            *)

\* In the same tree, what is said of the next code and activations holds next.
LEMMA SameTree ==
  ASSUME ast' = ast,
         NEW h, NEW H, TypedTo(bytecode', starts', Len(bytecode'), h),
         Promised(calls', Len(bytecode'), DOMAIN identifiers', h, H)
  PROVE  Going'
<1>1. Values' = Values /\ Comparisons' = Comparisons
  BY DEF Values, Comparisons, NodesOf, Counts
<1>2. Below' = Below BY DEF Below, Children
<1>3. \A a, k, v : Ready(a, h, k, v)' <=> Ready(a, h, k, v)
  BY <1>1, <1>2 DEF Ready, Mentions
<1>4. \A a, i, n : /\ Adds(a)' = Adds(a)
                  /\ Rooted(a, i, n)' <=> Rooted(a, i, n)
  BY <1>1 DEF Adds, LeftBy, Rooted
<1>5. \A c : Owed(c)' <=> Owed(c) BY DEF Owed
<1>6. \A c, e, v : Promised(c, e, v, h, H) => Promised(c, e, v, h, H)'
  BY <1>3, <1>4, <1>5 DEF Promised
<1>7. TypedTo(bytecode, starts, Len(bytecode), h)' BY DEF TypedTo
<1>8. Promised(calls, Len(bytecode), DOMAIN identifiers, h, H)'
  BY <1>6
<1> QED BY <1>7, <1>8 DEF Going, Placed

LEMMA SameDiscipline == ASSUME ast' = ast PROVE Disciplined' = Disciplined
BY DEF Disciplined, Values, Comparisons, NodesOf, Counts, Below, Children

\* The activation on top makes the cs as, each of which finds the stack as high as
\* the one before leaves it.
LEMMA PromiseStep ==
  ASSUME NEW T, NEW cs \in Seq(T), NEW end, NEW vs, NEW h, NEW H,
         Promised(cs, end, vs, h, H),
         NEW as \in Seq(T), NEW to, NEW ws, NEW g, NEW A \in [DOMAIN as -> Nat],
         as = <<>> => Len(cs) > 1 /\ H[2] = g[to],
         as # <<>> => A[1] = g[to],
         as # <<>> /\ Len(cs) > 1 => H[2] = A[Len(as)] + Adds(as[Len(as)]),
         \A i \in DOMAIN as :
           /\ Ready(as[i], g, A[i], ws)
           /\ Rooted(as[i], i, Len(as) + (Len(cs) - 1))
           /\ i # Len(as) => A[i + 1] = A[i] + Adds(as[i]),
         \A i \in DOMAIN cs : i > 1 => Ready(cs[i], g, H[i], ws),
         cs[1].function \in Returning =>
           \E i \in DOMAIN as : as[i].function \in Returning,
         Len(cs) = 1 => Owed(as \o Tail(cs))
  PROVE  \E G : Promised(as \o Tail(cs), to, ws, g, G)
<1> DEFINE t == Tail(cs)
           c == as \o t
<1>1. /\ t \in Seq(T) /\ Len(t) = Len(cs) - 1
      /\ (\A i \in 1 .. Len(cs) - 1 : t[i] = cs[i + 1]) /\ cs # <<>>
  BY HeadTailProperties DEF Promised
<1>2. /\ DOMAIN cs = 1 .. Len(cs) /\ Len(cs) \in Nat /\ Len(cs) # 0
      /\ DOMAIN as = 1 .. Len(as) /\ Len(as) \in Nat
      /\ (as = <<>>) <=> (Len(as) = 0)
  BY <1>1, LenProperties, EmptySeq
<1> HIDE DEF t
<1>4. /\ c \in Seq(T) /\ Len(c) = Len(as) + Len(t)
      /\ \A i \in 1 .. Len(as) + Len(t) :
           c[i] = IF i <= Len(as) THEN as[i] ELSE t[i - Len(as)]
  BY <1>1, ConcatProperties
<1> HIDE DEF c
<1>6. PICK n \in Nat \ {0}, k \in Nat : n = Len(cs) /\ k = Len(as) BY <1>2
<1>7. /\ DOMAIN cs = 1 .. n /\ DOMAIN as = 1 .. k /\ DOMAIN c = 1 .. k + (n - 1)
      /\ \A i \in 1 .. k : c[i] = as[i]
      /\ \A i \in 2 .. n : c[i + (k - 1)] = cs[i]
      /\ Len(c) = k + (n - 1) /\ k + (n - 1) >= 1 /\ (k = 0 => n > 1)
  <2>1. /\ DOMAIN cs = 1 .. n /\ DOMAIN as = 1 .. k /\ DOMAIN c = 1 .. k + (n - 1)
        /\ \A i \in 1 .. k + (n - 1) : c[i] = IF i <= k THEN as[i] ELSE t[i - k]
        /\ \A i \in 1 .. n - 1 : t[i] = cs[i + 1]
        /\ Len(c) = k + (n - 1)
    BY <1>1, <1>2, <1>4, <1>6, LenProperties
  <2>2. \A i \in 1 .. k : c[i] = as[i]
    <3>1. \A i \in 1 .. k : i \in 1 .. k + (n - 1) /\ i <= k OBVIOUS
    <3> QED BY <2>1, <3>1
  <2>3. \A i \in 2 .. n : c[i + (k - 1)] = cs[i]
    <3> TAKE i \in 2 .. n
    <3>1. /\ i + (k - 1) \in 1 .. k + (n - 1) /\ ~(i + (k - 1) <= k)
          /\ (i + (k - 1)) - k = i - 1 /\ i - 1 \in 1 .. n - 1 /\ (i - 1) + 1 = i
      OBVIOUS
    <3>2. c[i + (k - 1)] = t[i - 1] BY <2>1, <3>1
    <3>3. t[i - 1] = cs[(i - 1) + 1] BY <2>1, <3>1
    <3> QED BY <3>1, <3>2, <3>3
  <2>4. k = 0 => n > 1 BY <1>2, <1>6
  <2>5. k + (n - 1) >= 1 BY <2>4
  <2> QED BY <2>1, <2>2, <2>3, <2>4, <2>5
<1>8. /\ H \in [1 .. n -> Nat]
      /\ \A i \in 1 .. n : Rooted(cs[i], i, n)
      /\ \A i \in 1 .. n : i # n => H[i + 1] = H[i] + Adds(cs[i])
  BY <1>6, <1>7 DEF Promised
<1> DEFINE G == [i \in 1 .. k + (n - 1) |-> IF i <= k THEN A[i] ELSE H[i - (k - 1)]]
<1>9. /\ \A i \in 1 .. k : G[i] = A[i]
      /\ \A i \in 2 .. n : G[i + (k - 1)] = H[i]
  <2>1. \A i \in 1 .. k : i \in 1 .. k + (n - 1) /\ i <= k OBVIOUS
  <2>2. \A i \in 2 .. n : /\ i + (k - 1) \in 1 .. k + (n - 1) /\ ~(i + (k - 1) <= k)
                          /\ (i + (k - 1)) - (k - 1) = i
    OBVIOUS
  <2> QED BY <2>1, <2>2
<1>10. \A i \in 1 .. k + (n - 1) :
         i \in 1 .. k \/ \E j \in 2 .. n : i = j + (k - 1)
  <2> TAKE i \in 1 .. k + (n - 1)
  <2>1. CASE i <= k BY <2>1
  <2>2. CASE i > k
    <3>1. i - (k - 1) \in 2 .. n /\ i = (i - (k - 1)) + (k - 1) BY <2>2
    <3> QED BY <3>1
  <2> QED BY <2>1, <2>2
<1>11. G \in [1 .. k + (n - 1) -> Nat]
  <2>1. \A i \in 1 .. k : G[i] \in Nat BY <1>7, <1>9
  <2>2. \A i \in 2 .. n : H[i] \in Nat BY <1>8
  <2>3. \A i \in 2 .. n : G[i + (k - 1)] \in Nat BY <1>9, <2>2
  <2>4. \A i \in 1 .. k + (n - 1) : G[i] \in Nat BY <1>10, <2>1, <2>3
  <2> QED BY <2>4
<1>12. G[1] = g[to]
  <2>1. CASE k = 0
    <3>1. 2 \in 2 .. n /\ 2 + (k - 1) = 1 BY <1>7, <2>1
    <3> HIDE DEF G
    <3>2. G[1] = H[2] BY <1>9, <3>1
    <3> QED BY <1>2, <1>6, <2>1, <3>2
  <2>2. CASE k # 0
    <3>1. 1 \in 1 .. k BY <2>2
    <3> HIDE DEF G
    <3> QED BY <1>2, <1>6, <1>9, <2>2, <3>1
  <2> QED BY <2>1, <2>2
<1> HIDE DEF G
<1>13. ASSUME NEW i \in 1 .. k + (n - 1)
       PROVE  /\ Ready(c[i], g, G[i], ws)
              /\ Rooted(c[i], i, k + (n - 1))
              /\ i # k + (n - 1) => G[i + 1] = G[i] + Adds(c[i])
  <2>1. CASE i \in 1 .. k
    <3>1. c[i] = as[i] /\ G[i] = A[i] BY <1>7, <1>9, <2>1
    <3>2. /\ Ready(as[i], g, A[i], ws) /\ Rooted(as[i], i, k + (n - 1))
          /\ i # k => A[i + 1] = A[i] + Adds(as[i])
      BY <1>6, <1>7, <2>1
    <3>3. i # k + (n - 1) => G[i + 1] = G[i] + Adds(c[i])
      <4> HAVE i # k + (n - 1)
      <4>1. CASE i # k
        <5>1. i + 1 \in 1 .. k BY <2>1, <4>1
        <5> QED BY <1>9, <3>1, <3>2, <4>1, <5>1
      <4>2. CASE i = k
        <5>1. n > 1 /\ 2 \in 2 .. n /\ 2 + (k - 1) = i + 1 /\ k # 0 BY <2>1, <4>2
        <5>2. G[i + 1] = H[2] BY <1>9, <5>1
        <5>3. H[2] = A[k] + Adds(as[k]) BY <1>2, <1>6, <5>1
        <5> QED BY <3>1, <4>2, <5>2, <5>3
      <4> QED BY <4>1, <4>2
    <3>4. Ready(c[i], g, G[i], ws) BY <3>1, <3>2
    <3> QED BY <3>1, <3>2, <3>3, <3>4
  <2>2. ASSUME NEW j \in 2 .. n, i = j + (k - 1)
        PROVE  /\ Ready(c[i], g, G[i], ws)
               /\ Rooted(c[i], i, k + (n - 1))
               /\ i # k + (n - 1) => G[i + 1] = G[i] + Adds(c[i])
    <3>1. c[i] = cs[j] /\ G[i] = H[j] BY <1>7, <1>9, <2>2
    <3>2. j \in 1 .. n /\ j > 1 OBVIOUS
    <3>3. Ready(cs[j], g, H[j], ws) BY <1>7, <3>2
    <3>4. Rooted(c[i], i, k + (n - 1))
      <4>1. Rooted(cs[j], j, n) BY <1>8, <3>2
      <4>2. i = k + (n - 1) <=> j = n BY <2>2
      <4>3. j # 1 BY <3>2
      <4> QED BY <3>1, <4>1, <4>2, <4>3 DEF Rooted
    <3>5. i # k + (n - 1) => G[i + 1] = G[i] + Adds(c[i])
      <4> HAVE i # k + (n - 1)
      <4>1. j # n /\ j + 1 \in 2 .. n /\ (j + 1) + (k - 1) = i + 1 BY <2>2
      <4>2. G[i + 1] = H[j + 1] BY <1>9, <4>1
      <4>3. H[j + 1] = H[j] + Adds(cs[j]) BY <1>8, <3>2, <4>1
      <4> QED BY <3>1, <4>2, <4>3
    <3>6. Ready(c[i], g, G[i], ws) BY <3>1, <3>3
    <3> QED BY <3>4, <3>5, <3>6
  <2> QED BY <1>10, <2>1, <2>2
<1>14. Owed(c)
  <2>1. CASE n = 1 BY <1>6, <2>1 DEF c, t
  <2>2. CASE n > 1
    <3>1. n \in 2 .. n /\ n + (k - 1) = k + (n - 1) BY <2>2
    <3>2. c[Len(c)] = cs[n] BY <1>7, <3>1
    <3>3. (\E i \in DOMAIN cs : cs[i].function \in Returning) =>
            \E i \in DOMAIN c : c[i].function \in Returning
      <4> SUFFICES ASSUME NEW i \in DOMAIN cs, cs[i].function \in Returning
                   PROVE  \E j \in DOMAIN c : c[j].function \in Returning
        OBVIOUS
      <4>1. CASE i = 1
        <5>1. PICK j \in DOMAIN as : as[j].function \in Returning BY <4>1
        <5>2. j \in 1 .. k /\ j \in 1 .. k + (n - 1) BY <1>7
        <5>3. j \in DOMAIN c /\ c[j] = as[j] BY <1>7, <5>2
        <5> QED BY <5>1, <5>3
      <4>2. CASE i # 1
        <5>1. i \in 2 .. n /\ i + (k - 1) \in 1 .. k + (n - 1) BY <1>7, <4>2
        <5> QED BY <1>7, <5>1
      <4> QED BY <4>1, <4>2
    <3>4. Owed(cs) BY DEF Promised
    <3> QED BY <1>6, <3>2, <3>3, <3>4 DEF Owed
  <2> QED BY <2>1, <2>2
<1>15. c # <<>> BY <1>4, <1>7
<1>16. \A i \in DOMAIN c :
         /\ Ready(c[i], g, G[i], ws)
         /\ Rooted(c[i], i, Len(c))
         /\ i # Len(c) => G[i + 1] = G[i] + Adds(c[i])
  BY <1>7, <1>13
<1>17. Promised(c, to, ws, g, G) BY <1>7, <1>11, <1>12, <1>14, <1>15, <1>16 DEF Promised
<1> QED BY <1>17 DEF c, t

\* What an activation that is placed may rely on.
LEMMA Placing ==
  ASSUME GInv, NEW h, NEW H, Placed(h, H)
  PROVE  /\ calls # <<>> /\ calls \in Seq(Activations)
         /\ Len(calls) \in Nat /\ Len(calls) >= 1 /\ DOMAIN calls = 1 .. Len(calls)
         /\ calls[1] = Top /\ 1 \in DOMAIN calls
         /\ H \in [DOMAIN calls -> Nat] /\ H[1] = h[Len(bytecode)] /\ H[1] \in Nat
         /\ Ready(Top, h, H[1], DOMAIN identifiers)
         /\ Rooted(Top, 1, Len(calls))
         /\ Top.function # "generateScope" => Len(calls) > 1 /\ Len(calls) # 1
         /\ Len(calls) > 1 => H[2] = H[1] + Adds(Top) /\ H[2] \in Nat
         /\ TypedTo(bytecode, starts, Len(bytecode), h)
<1>1. calls \in Seq(Activations) BY DEF GInv
<1>2. calls # <<>> BY DEF Placed, Promised
<1>3. /\ Len(calls) \in Nat /\ Len(calls) >= 1 /\ DOMAIN calls = 1 .. Len(calls)
      /\ calls[1] = Top
  BY <1>1, <1>2, LenProperties, EmptySeq, HeadTailProperties DEF Top
<1>4. 1 \in DOMAIN calls BY <1>3
<1>5. /\ H \in [DOMAIN calls -> Nat] /\ H[1] = h[Len(bytecode)]
      /\ Ready(Top, h, H[1], DOMAIN identifiers)
      /\ Rooted(Top, 1, Len(calls))
      /\ 1 # Len(calls) => H[1 + 1] = H[1] + Adds(Top)
  BY <1>3, <1>4 DEF Placed, Promised
<1>6. Len(calls) > 1 => H[2] = H[1] + Adds(Top) /\ H[2] \in Nat
  <2> HAVE Len(calls) > 1
  <2>1. 2 \in DOMAIN calls /\ 1 + 1 = 2 /\ 1 # Len(calls) BY <1>3
  <2> QED BY <1>5, <2>1
<1>7. H[1] \in Nat BY <1>4, <1>5
<1>8. Top.function # "generateScope" => Len(calls) > 1 /\ Len(calls) # 1
  BY <1>3, <1>5 DEF Rooted
<1> QED BY <1>1, <1>2, <1>3, <1>4, <1>5, <1>6, <1>7, <1>8 DEF Placed

\* A step that makes the calls as and emits nothing.
LEMMA QuietGoing ==
  ASSUME GInv, NEW h, NEW H, Placed(h, H),
         UNCHANGED <<ast, bytecode, starts>>,
         \A i \in DOMAIN calls :
           i > 1 => Ready(calls[i], h, H[i], DOMAIN identifiers'),
         NEW as \in Seq(Activations), Calls(as), NEW A \in [DOMAIN as -> Nat],
         as # <<>>, A[1] = H[1],
         Len(calls) > 1 => A[Len(as)] + Adds(as[Len(as)]) = H[1] + Adds(Top),
         \A i \in DOMAIN as :
           /\ Ready(as[i], h, A[i], DOMAIN identifiers')
           /\ Rooted(as[i], i, Len(as) + (Len(calls) - 1))
           /\ i # Len(as) => A[i + 1] = A[i] + Adds(as[i]),
         Top.function \in Returning =>
           \E i \in DOMAIN as : as[i].function \in Returning,
         Len(calls) = 1 => Owed(as \o Tail(calls))
  PROVE  Going'
<1> DEFINE vs == DOMAIN identifiers
           ws == DOMAIN identifiers'
           end == Len(bytecode)
<1>1. /\ calls # <<>> /\ calls \in Seq(Activations) /\ calls[1] = Top
      /\ H[1] = h[end]
      /\ Len(calls) > 1 => H[2] = H[1] + Adds(Top)
      /\ Promised(calls, end, vs, h, H)
      /\ TypedTo(bytecode, starts, end, h)
  BY Placing DEF Placed
<1>3. \E G : Promised(as \o Tail(calls), end, ws, h, G)
  <2> HIDE DEF vs, ws, end
  <2>1. /\ as = <<>> => Len(calls) > 1 /\ H[2] = h[end]
        /\ as # <<>> => A[1] = h[end]
        /\ as # <<>> /\ Len(calls) > 1 => H[2] = A[Len(as)] + Adds(as[Len(as)])
    BY <1>1
  <2>2. calls[1].function \in Returning =>
           \E i \in DOMAIN as : as[i].function \in Returning
    BY <1>1
  <2>3. \A i \in DOMAIN as :
           /\ Ready(as[i], h, A[i], ws)
           /\ Rooted(as[i], i, Len(as) + (Len(calls) - 1))
           /\ i # Len(as) => A[i + 1] = A[i] + Adds(as[i])
    BY DEF ws
  <2>4. \A i \in DOMAIN calls : i > 1 => Ready(calls[i], h, H[i], ws) BY DEF ws
  <2> QED BY <1>1, <2>1, <2>2, <2>3, <2>4, PromiseStep
<1>4. PICK G : Promised(calls', Len(bytecode'), DOMAIN identifiers', h, G)
  BY <1>3 DEF Calls
<1>5. TypedTo(bytecode', starts', Len(bytecode'), h) BY <1>1
<1> QED BY <1>4, <1>5, SameTree

\* One that returns, having emitted what does to the stack what was promised.
LEMMA EmittedGoing ==
  ASSUME GInv, NEW h, NEW H, Placed(h, H),
         UNCHANGED <<ast, identifiers>>, Returns,
         Top.function \notin Returning, Len(calls) > 1, Len(calls) # 1,
         NEW g, TypedTo(bytecode', starts', Len(bytecode'), g),
         g[Len(bytecode')] = H[1] + Adds(Top),
         Extends(g, h)
  PROVE  Going'
<1> DEFINE vs == DOMAIN identifiers
           end == Len(bytecode)
           to == Len(bytecode')
           as == <<>>
<1>1. /\ calls # <<>> /\ calls \in Seq(Activations) /\ calls[1] = Top
      /\ H[1] = h[end]
      /\ H[2] = H[1] + Adds(Top)
      /\ Promised(calls, end, vs, h, H)
  BY Placing DEF Placed
<1>2. \A i \in DOMAIN calls : i > 1 => Ready(calls[i], g, H[i], vs)
  <2>1. \A i \in DOMAIN calls : Ready(calls[i], h, H[i], vs) BY <1>1 DEF Promised
  <2>2. \A a, k : Ready(a, h, k, vs) => Ready(a, g, k, vs) BY DEF Ready, Extends
  <2> QED BY <2>1, <2>2
<1>3. \E G : Promised(as \o Tail(calls), to, vs, g, G)
  <2>1. H[2] = g[to] BY <1>1
  <2>2. as \in Seq(Activations) /\ DOMAIN as = {} OBVIOUS
  <2>3. [i \in {} |-> 0] \in [DOMAIN as -> Nat] BY <2>2
  <2>4. \A i \in DOMAIN as : FALSE BY <2>2
  <2>5. calls[1].function \notin Returning BY <1>1
  <2> HIDE DEF vs, end, to, as
  <2>6. as = <<>> BY DEF as
  <2> QED BY <1>1, <1>2, <2>1, <2>2, <2>3, <2>4, <2>5, <2>6, PromiseStep
<1>4. PICK G : Promised(calls', Len(bytecode'), DOMAIN identifiers', g, G)
  BY <1>3 DEF Calls, Returns
<1> QED BY <1>4, SameTree

LEMMA EmitGoing ==
  ASSUME GInv, NEW h, NEW H, Placed(h, H),
         UNCHANGED <<ast, identifiers>>, Returns,
         Top.function \notin Returning \cup {"generateScope"},
         NEW i, Whole(i), Emit(i), Finds(i, H[1]) \/ Jumps(bytecode, i, h),
         PushesAt(i, 0) = Adds(Top)
  PROVE  Going'
<1>1. CodeOK(bytecode, starts) BY DEF GInv
<1>2. H[1] = h[Len(bytecode)] /\ TypedTo(bytecode, starts, Len(bytecode), h) BY Placing
<1>3. PICK g :
        /\ TypedTo(bytecode \o i, starts \cup {Len(bytecode)}, Len(bytecode \o i), g)
        /\ g[Len(bytecode \o i)] = h[Len(bytecode)] + PushesAt(i, 0)
        /\ Extends(g, h)
  <2>1. Finds(i, h[Len(bytecode)]) \/ Jumps(bytecode, i, h) BY <1>2
  <2> QED BY <1>1, <1>2, <2>1, EmitTyped
<1>4. bytecode' = bytecode \o i /\ starts' = starts \cup {Len(bytecode)} BY DEF Emit
<1>5. /\ TypedTo(bytecode', starts', Len(bytecode'), g)
      /\ g[Len(bytecode')] = H[1] + Adds(Top)
  BY <1>2, <1>3, <1>4
<1>6. /\ Len(calls) > 1 /\ Len(calls) # 1
      /\ Top.function \notin Returning
  BY Placing
<1> QED BY <1>3, <1>5, <1>6, EmittedGoing

LEMMA AddsInt == \A a : Adds(a) \in -2 .. 1
<1>1. \A n, r : LeftBy(n, r) \in {0, 1} BY DEF LeftBy
<1> TAKE a
<1>2. /\ LeftBy(a.node, a.reg) \in {0, 1}
      /\ LeftBy(ast[a.node].expression, ret) \in {0, 1}
  BY <1>1
<1> QED BY <1>2 DEF Adds

\* Those that make two calls, or three, and leave the variables alone.
LEMMA TwoGoing ==
  ASSUME GInv, NEW h, NEW H, Placed(h, H),
         UNCHANGED <<ast, bytecode, starts, identifiers>>,
         NEW a \in Activations, NEW b \in Activations, Calls(<<a, b>>),
         NEW k \in Nat, k = H[1] + Adds(a),
         Len(calls) > 1 => k + Adds(b) = H[1] + Adds(Top),
         Ready(a, h, H[1], DOMAIN identifiers), Ready(b, h, k, DOMAIN identifiers),
         Rooted(a, 1, Len(calls) + 1), Rooted(b, 2, Len(calls) + 1),
         Top.function \in Returning =>
           a.function \in Returning \/ b.function \in Returning,
         Len(calls) = 1 => Owed(<<a, b>>)
  PROVE  Going'
<1> DEFINE as == <<a, b>>
           A == <<H[1], k>>
<1>1. /\ as \in Seq(Activations) /\ Len(as) = 2 /\ DOMAIN as = {1, 2}
      /\ as[1] = a /\ as[2] = b /\ as # <<>>
  OBVIOUS
<1>2. /\ H[1] \in Nat /\ Len(calls) \in Nat /\ calls \in Seq(Activations) /\ calls # <<>>
      /\ Len(calls) >= 1
  BY Placing
<1>3. A \in [{1, 2} -> Nat] /\ A[1] = H[1] /\ A[2] = k
  <2>1. DOMAIN A = {1, 2} /\ A = [i \in 1 .. 2 |-> A[i]] /\ 1 .. 2 = {1, 2} OBVIOUS
  <2> QED BY <1>2, <2>1
<1>4. \A i \in DOMAIN calls :
        i > 1 => Ready(calls[i], h, H[i], DOMAIN identifiers')
  BY DEF Placed, Promised
<1>5. Len(calls) = 1 => Owed(as \o Tail(calls))
  <2> HAVE Len(calls) = 1
  <2>1. Tail(calls) \in Seq(Activations) /\ Len(Tail(calls)) = 0
    BY <1>2, HeadTailProperties
  <2>2. Tail(calls) = <<>> BY <2>1, EmptySeq
  <2>3. as \o <<>> = as BY <1>1, ConcatEmptySeq
  <2> QED BY <2>2, <2>3
<1>6. 2 + (Len(calls) - 1) = Len(calls) + 1 BY <1>2
<1> HIDE DEF as, A
<1>7. ASSUME NEW i \in DOMAIN as
      PROVE  /\ Ready(as[i], h, A[i], DOMAIN identifiers')
             /\ Rooted(as[i], i, Len(as) + (Len(calls) - 1))
             /\ i # Len(as) => A[i + 1] = A[i] + Adds(as[i])
  <2>1. CASE i = 1
    <3>1. 1 + 1 = 2 OBVIOUS
    <3> QED BY <1>1, <1>3, <1>6, <2>1, <3>1
  <2>2. CASE i = 2 BY <1>1, <1>3, <1>6, <2>2
  <2> QED BY <1>1, <2>1, <2>2
<1>8. Calls(as) BY DEF as
<1>9. Top.function \in Returning => \E i \in DOMAIN as : as[i].function \in Returning
  BY <1>1
<1>10. Len(calls) > 1 => A[Len(as)] + Adds(as[Len(as)]) = H[1] + Adds(Top)
  BY <1>1, <1>3
<1>11. A \in [DOMAIN as -> Nat] BY <1>1, <1>3
<1>12. A[1] = H[1] /\ as # <<>> /\ as \in Seq(Activations) BY <1>1, <1>3
<1> QED BY <1>4, <1>5, <1>7, <1>8, <1>9, <1>10, <1>11, <1>12, QuietGoing

LEMMA ThreeGoing ==
  ASSUME GInv, NEW h, NEW H, Placed(h, H), Len(calls) > 1, Len(calls) # 1,
         UNCHANGED <<ast, bytecode, starts, identifiers>>,
         NEW a \in Activations, NEW b \in Activations, NEW c \in Activations,
         Calls(<<a, b, c>>),
         NEW k \in Nat, k = H[1] + Adds(a), NEW l \in Nat, l = k + Adds(b),
         l + Adds(c) = H[1] + Adds(Top),
         Ready(a, h, H[1], DOMAIN identifiers), Ready(b, h, k, DOMAIN identifiers),
         Ready(c, h, l, DOMAIN identifiers),
         Rooted(a, 1, Len(calls) + 2), Rooted(b, 2, Len(calls) + 2),
         Rooted(c, 3, Len(calls) + 2),
         Top.function \notin Returning
  PROVE  Going'
<1> DEFINE as == <<a, b, c>>
           A == <<H[1], k, l>>
<1>1. /\ as \in Seq(Activations) /\ Len(as) = 3 /\ DOMAIN as = {1, 2, 3}
      /\ as[1] = a /\ as[2] = b /\ as[3] = c /\ as # <<>>
  OBVIOUS
<1>2. H[1] \in Nat /\ Len(calls) \in Nat BY Placing
<1>3. A \in [{1, 2, 3} -> Nat] /\ A[1] = H[1] /\ A[2] = k /\ A[3] = l
  <2>1. DOMAIN A = {1, 2, 3} /\ A = [i \in 1 .. 3 |-> A[i]] /\ 1 .. 3 = {1, 2, 3} OBVIOUS
  <2> QED BY <1>2, <2>1
<1>4. \A i \in DOMAIN calls :
        i > 1 => Ready(calls[i], h, H[i], DOMAIN identifiers')
  BY DEF Placed, Promised
<1>6. 3 + (Len(calls) - 1) = Len(calls) + 2 BY <1>2
<1> HIDE DEF as, A
<1>7. ASSUME NEW i \in DOMAIN as
      PROVE  /\ Ready(as[i], h, A[i], DOMAIN identifiers')
             /\ Rooted(as[i], i, Len(as) + (Len(calls) - 1))
             /\ i # Len(as) => A[i + 1] = A[i] + Adds(as[i])
  <2>0. 1 + 1 = 2 /\ 2 + 1 = 3 OBVIOUS
  <2>1. CASE i = 1 BY <1>1, <1>3, <1>6, <2>0, <2>1
  <2>2. CASE i = 2 BY <1>1, <1>3, <1>6, <2>0, <2>2
  <2>3. CASE i = 3 BY <1>1, <1>3, <1>6, <2>3
  <2> QED BY <1>1, <2>1, <2>2, <2>3
<1>8. Calls(as) BY DEF as
<1>10. A[Len(as)] + Adds(as[Len(as)]) = H[1] + Adds(Top)
  BY <1>1, <1>3
<1>11. A \in [DOMAIN as -> Nat] BY <1>1, <1>3
<1>12. A[1] = H[1] /\ as # <<>> /\ as \in Seq(Activations) BY <1>1, <1>3
<1> QED BY <1>4, <1>7, <1>8, <1>10, <1>11, <1>12, QuietGoing

-----------------------------------------------------------------------------
(* What may be called.                                                     *)

\* The classes of what leaves a word on the stack, and of what does not.
LEMMA Kinds ==
  ASSUME NEW n \in DOMAIN ast
  PROVE  /\ n \in Values <=> \/ ast[n].type \in {"NUMERIC_LITERAL", "BINARY_EXPRESSION"}
                             \/ ast[n].type = "IDENTIFIER" /\ ast[n].op = "none"
         /\ n \in Comparisons <=> ast[n].type = "COMPARISON_EXPRESSION"
         /\ n \in Values => n \notin Comparisons /\ LeftBy(n, sp) = 1
         /\ ast[n].type = "NUMERIC_LITERAL" => \A r : LeftBy(n, r) = 1
         /\ ast[n].type # "NUMERIC_LITERAL" => LeftBy(n, ret) = 0
         /\ n \notin Values => \A r : LeftBy(n, r) = 0
<1>1. sp # ret BY DEF sp, ret
<1>2. /\ n \in Values <=> \/ ast[n].type \in {"NUMERIC_LITERAL", "BINARY_EXPRESSION"}
                          \/ ast[n].type = "IDENTIFIER" /\ ast[n].op = "none"
      /\ n \in Comparisons <=> ast[n].type = "COMPARISON_EXPRESSION"
  BY DEF Values, Comparisons, NodesOf, Counts
<1> QED BY <1>1, <1>2 DEF LeftBy

LEMMA KindsIn == Values \subseteq DOMAIN ast /\ Comparisons \subseteq DOMAIN ast
BY DEF Values, Comparisons, NodesOf

LEMMA ReadyExpression ==
  ASSUME NEW n \in DOMAIN ast, NEW r, NEW h, NEW k, NEW vs,
         r = ret => n \in Values \cup Comparisons,
         r = sp => n \notin Comparisons,
         Mentions(n, vs) => k >= 1
  PROVE  /\ Ready(Expression(n, r), h, k, vs)
         /\ \A i, m : i # m => Rooted(Expression(n, r), i, m)
         /\ Adds(Expression(n, r)) = LeftBy(n, r)
         /\ Expression(n, r).function \notin Returning
<1> DEFINE a == Expression(n, r)
<1>1. a.function = "generateExpression" /\ a.node = n /\ a.reg = r
  BY DEF Expression, Activation
<1> HIDE DEF a
<1>2. Ready(a, h, k, vs) BY <1>1 DEF Ready, StatementCalls, ExpressionCalls
<1>3. \A i, m : i # m => Rooted(a, i, m) BY <1>1 DEF Rooted
<1>4. Adds(a) = LeftBy(n, r) BY <1>1 DEF Adds
<1> QED BY <1>1, <1>2, <1>3, <1>4 DEF a, Returning

LEMMA ReadyComparison ==
  ASSUME NEW n \in Comparisons, NEW h, NEW k, NEW vs, Mentions(n, vs) => k >= 1
  PROVE  /\ Ready(Comparison(n), h, k, vs)
         /\ \A i, m : i # m => Rooted(Comparison(n), i, m)
         /\ Adds(Comparison(n)) = 0
<1> DEFINE a == Comparison(n)
<1>1. a.function = "generateComparisonExpression" /\ a.node = n /\ n \in DOMAIN ast
  BY KindsIn DEF Comparison, Activation
<1> HIDE DEF a
<1>2. Ready(a, h, k, vs) BY <1>1 DEF Ready, StatementCalls, ExpressionCalls
<1>3. \A i, m : i # m => Rooted(a, i, m) BY <1>1 DEF Rooted
<1>4. Adds(a) = 0 BY <1>1 DEF Adds
<1> QED BY <1>2, <1>3, <1>4 DEF a

\* Statements, and what is left of functions that wait.
LEMMA ReadyThen ==
  ASSUME NEW f \in {"emitReturn", "moveResult", "generateCompareOperator",
                    "generateOperator", "generateReturnStatement",
                    "generateLetStatement", "generateWhileStatement"},
         NEW n \in DOMAIN ast, NEW r, NEW h, NEW k, NEW vs,
         f = "moveResult" => r = ret,
         f \in {"generateCompareOperator", "generateOperator"} => k >= 2,
         f \in StatementCalls /\ vs # {} => k >= 1
  PROVE  /\ Ready(Then(f, n, r), h, k, vs)
         /\ \A i, m : i # m /\ (f = "generateLetStatement" => i = 1 /\ m = 2) =>
              Rooted(Then(f, n, r), i, m)
         /\ Then(f, n, r).function = f
         /\ Adds(Then(f, n, r)) =
              CASE f = "generateLetStatement" -> 1
                [] f = "emitReturn" -> -LeftBy(ast[n].expression, ret)
                [] f = "generateCompareOperator" -> -2
                [] f = "generateOperator" -> IF r = sp THEN -1 ELSE -2
                [] OTHER -> 0
<1> DEFINE a == Then(f, n, r)
<1>1. a.function = f /\ a.node = n /\ a.reg = r BY DEF Then, Activation
<1> HIDE DEF a
<1>2. Ready(a, h, k, vs) BY <1>1 DEF Ready, ExpressionCalls
<1>3. \A i, m : i # m /\ (f = "generateLetStatement" => i = 1 /\ m = 2) =>
        Rooted(a, i, m)
  BY <1>1 DEF Rooted
<1>4. Adds(a) = CASE f = "generateLetStatement" -> 1
                  [] f = "emitReturn" -> -LeftBy(ast[n].expression, ret)
                  [] f = "generateCompareOperator" -> -2
                  [] f = "generateOperator" -> IF r = sp THEN -1 ELSE -2
                  [] OTHER -> 0
  BY <1>1 DEF Adds
<1> QED BY <1>1, <1>2, <1>3, <1>4 DEF a

-----------------------------------------------------------------------------
(* Steps.                                                                  *)

\* What an activation that runs may rely on.
LEMMA Moment ==
  ASSUME GInv, Disciplined, NEW h, NEW H, Placed(h, H), NEW f, In(f)
  PROVE  /\ Top.function = f /\ Top.node \in DOMAIN ast /\ Here = ast[Top.node]
         /\ Top.node \in Ref(ast) /\ Top.node # 0 /\ IsTree(ast) /\ Filled
         /\ Top.reg \in {sp, ret} /\ Suits(Top)
         /\ Ready(Top, h, H[1], DOMAIN identifiers)
         /\ H[1] \in Nat
         /\ f \notin Returning => Top.function \notin Returning
         /\ f # "generateScope" => Len(calls) > 1 /\ Len(calls) # 1
         /\ Len(calls) \in Nat /\ Len(calls) >= 1
<1>1. /\ Top.function = f /\ Here = ast[Top.node] /\ Top.node \in Ref(ast)
      /\ Top.node # 0 /\ IsTree(ast) /\ Top.reg \in {sp, ret} /\ Suits(Top)
  BY Running
<1>2. Top.node \in DOMAIN ast
  <2>1. ast \in Seq(NodeOf(ast)) BY <1>1 DEF IsTree
  <2>2. DOMAIN ast = 1 .. Len(ast) /\ Len(ast) \in Nat BY <2>1, LenProperties
  <2> QED BY <1>1, <2>2 DEF Ref
<1>3. Filled BY <1>1, Nodes
<1> QED BY <1>1, <1>2, <1>3, Placing

LEMMA LiteralGoing ==
  ASSUME GInv, Disciplined, NEW h, NEW H, Placed(h, H), generateNumericLiteral
  PROVE  Going'
<1> DEFINE i == <<PSH_LIT>> \o encode(Here.value)
<1>1. /\ In("generateExpression") /\ Here.type = "NUMERIC_LITERAL"
      /\ Returns /\ Context /\ Emit(i)
  BY DEF generateNumericLiteral, InExpression
<1>2. Here.value \in Int BY <1>1, Running, NodeFields DEF Int16
<1>3. Whole(i) BY <1>2, WholeWord
<1>4. i[1] = PSH_LIT /\ i[0 + 1] = PSH_LIT
  BY <1>2, EncodeBytes, OneAndTwo
<1> HIDE DEF i
<1>5. Finds(i, H[1]) /\ PushesAt(i, 0) = 1
  BY <1>4 DEF Finds, PushesAt, PSH_LIT, PEK_OFF, POP_REG, Binary, ADD, SUB, MUL, DIV, CMP
<1>6. Adds(Top) = 1
  <2>1. Top.function = "generateExpression" /\ Top.node \in DOMAIN ast
        /\ Here = ast[Top.node]
    BY <1>1, Moment
  <2>2. LeftBy(Top.node, Top.reg) = 1 BY <1>1, <2>1, Kinds
  <2> QED BY <2>1, <2>2 DEF Adds
<1>7. Top.function \notin Returning \cup {"generateScope"}
  BY <1>1, Moment DEF Returning
<1>8. UNCHANGED <<ast, identifiers>> BY <1>1 DEF Context, tables
<1> QED BY <1>1, <1>3, <1>5, <1>6, <1>7, <1>8, EmitGoing

LEMMA MoveGoing ==
  ASSUME GInv, Disciplined, NEW h, NEW H, Placed(h, H), moveResult
  PROVE  Going'
<1> DEFINE i == <<MOV, Top.reg, imm>>
<1>1. In("moveResult") /\ Returns /\ Context /\ Emit(i) BY DEF moveResult
<1>2. /\ Top.function = "moveResult" /\ Top.reg = ret
  BY <1>1, Moment DEF Ready
<1>3. Whole(i)
  <2>1. Top.reg \in Byte /\ imm \in Byte BY <1>2 DEF Byte, ret, imm
  <2>2. MOV \notin {INC, DEC, JMP} BY DEF MOV, INC, DEC, JMP
  <2> QED BY <2>1, <2>2, WholeThree
<1>4. i[1] = MOV /\ i[0 + 1] = MOV /\ i[2] = ret /\ i[3] = imm BY <1>2
<1> HIDE DEF i
<1>5. Finds(i, H[1])
  <2>1. ret \in General /\ imm \in General BY DEF General, imm, ret
  <2> QED BY <1>4, <2>1 DEF Finds
<1>6. PushesAt(i, 0) = 0
  BY <1>4 DEF PushesAt, MOV, PSH_LIT, PEK_OFF, POP_REG, Binary, ADD, SUB, MUL, DIV, CMP
<1>7. Adds(Top) = 0 BY <1>2 DEF Adds
<1>8. Top.function \notin Returning \cup {"generateScope"} BY <1>2 DEF Returning
<1>9. UNCHANGED <<ast, identifiers>> BY <1>1 DEF Context, tables
<1> QED BY <1>1, <1>3, <1>5, <1>6, <1>7, <1>8, <1>9, EmitGoing

LEMMA CompareGoing ==
  ASSUME GInv, Disciplined, NEW h, NEW H, Placed(h, H), generateCompareOperator
  PROVE  Going'
<1> DEFINE i == <<CMP, sp>>
<1>1. /\ In("generateCompareOperator") /\ Returns /\ Emit(i)
      /\ UNCHANGED <<ast, tables>>
  BY DEF generateCompareOperator
<1>2. Top.function = "generateCompareOperator" /\ H[1] >= 2 BY <1>1, Moment DEF Ready
<1>3. Whole(i)
  <2>1. sp \in Byte BY DEF Byte, sp
  <2> QED BY <2>1, WholeTwo
<1>4. i[1] = CMP /\ i[0 + 1] = CMP OBVIOUS
<1> HIDE DEF i
<1>5. Finds(i, H[1]) BY <1>2, <1>4 DEF Finds
<1>6. PushesAt(i, 0) = -2
  BY <1>4 DEF PushesAt, PSH_LIT, PEK_OFF, POP_REG, Binary, ADD, SUB, MUL, DIV, CMP
<1>7. Adds(Top) = -2 BY <1>2 DEF Adds
<1>8. Top.function \notin Returning \cup {"generateScope"} BY <1>2 DEF Returning
<1>9. UNCHANGED <<ast, identifiers>> BY <1>1 DEF tables
<1> QED BY <1>1, <1>3, <1>5, <1>6, <1>7, <1>8, <1>9, EmitGoing

\* An operator finds its operands, and leaves one word.
LEMMA OperatorCode ==
  ASSUME GInv, Disciplined, NEW h, NEW H, Placed(h, H), In("generateOperator")
  PROVE  LET op == encodeOperator[Here.operator]
         IN  /\ op \in Binary /\ op \in Byte /\ Whole(<<op>>) /\ H[1] >= 2
             /\ \A k : k >= 2 => Finds(<<op>>, k)
             /\ PushesAt(<<op>>, 0) = -1
             /\ Top.function \notin Returning \cup {"generateScope"}
             /\ Adds(Top) = IF Top.reg = sp THEN -1 ELSE -2
<1> DEFINE op == encodeOperator[Here.operator]
<1>1. Here.operator \in Arithmetic BY Running, NodeFields DEF Suits
<1>2. op \in Binary BY <1>1 DEF Arithmetic, encodeOperator, Binary
<1> HIDE DEF op
<1>3. op \in Byte BY <1>2 DEF Binary, ADD, SUB, MUL, DIV, Byte
<1>4. Whole(<<op>>) BY <1>2, WholeOne
<1>5. Top.function = "generateOperator" /\ H[1] >= 2 BY Moment DEF Ready
<1>6. <<op>>[1] = op /\ <<op>>[0 + 1] = op OBVIOUS
<1>7. \A k : k >= 2 => Finds(<<op>>, k) BY <1>2, <1>6 DEF Finds
<1>8. PushesAt(<<op>>, 0) = -1
  BY <1>2, <1>6 DEF PushesAt, PSH_LIT, PEK_OFF, POP_REG, Binary, ADD, SUB, MUL, DIV, CMP
<1>9. Adds(Top) = IF Top.reg = sp THEN -1 ELSE -2 BY <1>5 DEF Adds
<1> QED BY <1>2, <1>3, <1>4, <1>5, <1>7, <1>8, <1>9 DEF Returning, op

LEMMA OperatorGoing ==
  ASSUME GInv, Disciplined, NEW h, NEW H, Placed(h, H), generateOperator
  PROVE  Going'
<1> DEFINE op == encodeOperator[Here.operator]
<1>1. /\ In("generateOperator") /\ Returns /\ Emit(<<op>>) /\ Top.reg = sp
      /\ UNCHANGED <<ast, tables>>
  BY DEF generateOperator
<1>2. /\ Whole(<<op>>) /\ Finds(<<op>>, H[1]) /\ PushesAt(<<op>>, 0) = Adds(Top)
      /\ Top.function \notin Returning \cup {"generateScope"}
  BY <1>1, OperatorCode
<1> HIDE DEF op
<1>3. UNCHANGED <<ast, identifiers>> BY <1>1 DEF tables
<1> QED BY <1>1, <1>2, <1>3, EmitGoing

LEMMA OperatorRegGoing ==
  ASSUME GInv, Disciplined, NEW h, NEW H, Placed(h, H), generateOperatorReg
  PROVE  Going'
<1> DEFINE op == encodeOperator[Here.operator]
           j == <<POP_REG, ret>>
           c == bytecode \o <<op>>
           st == starts \cup {Len(bytecode)}
<1>1. /\ In("generateOperator") /\ Returns /\ Top.reg = ret
      /\ bytecode' = bytecode \o <<op, POP_REG, ret>>
      /\ starts' = starts \cup {Len(bytecode), Len(bytecode) + 1}
      /\ UNCHANGED <<ast, tables>>
  BY DEF generateOperatorReg
<1>2. /\ op \in Byte /\ Whole(<<op>>) /\ H[1] >= 2 /\ Finds(<<op>>, H[1])
      /\ PushesAt(<<op>>, 0) = -1
      /\ Top.function \notin Returning \cup {"generateScope"}
      /\ Adds(Top) = IF Top.reg = sp THEN -1 ELSE -2
  BY <1>1, OperatorCode
<1>3. Adds(Top) = -2 /\ H[1] \in Nat
  <2>1. ret # sp BY DEF ret, sp
  <2> QED BY <1>1, <1>2, <2>1, Placing
<1> HIDE DEF op
<1>4. /\ bytecode \in Seq(Byte) /\ CodeOK(bytecode, starts) /\ bytecode # <<>>
      /\ H[1] = h[Len(bytecode)] /\ TypedTo(bytecode, starts, Len(bytecode), h)
  <2>1. CodeOK(bytecode, starts) /\ 0 \in starts BY <1>1 DEF GInv, Begun, In
  <2>2. bytecode \in Seq(Byte) /\ 0 < Len(bytecode) BY <2>1 DEF CodeOK
  <2> QED BY <2>1, <2>2, EmptySeq, Placing
<1>5. bytecode' = c \o j /\ starts' = st \cup {Len(c)}
  BY <1>1, <1>2, <1>4, OperatorAndPop
<1>6. PICK m : /\ TypedTo(c, st, Len(c), m)
               /\ m[Len(c)] = h[Len(bytecode)] + PushesAt(<<op>>, 0)
               /\ Extends(m, h)
  BY <1>2, <1>4, EmitTyped
<1>7. CodeOK(c, st) BY <1>2, <1>4, AppendInstruction
<1>8. Whole(j)
  <2>1. ret \in Byte /\ POP_REG # CMP BY DEF Byte, ret, POP_REG, CMP
  <2> QED BY <2>1, WholeTwo
<1>9. m[Len(c)] = H[1] - 1 BY <1>2, <1>3, <1>4, <1>6
<1>10. Finds(j, m[Len(c)])
  <2>1. ret \in General BY DEF General, imm, ret
  <2>2. j[1] = POP_REG /\ j[2] = ret OBVIOUS
  <2>3. m[Len(c)] >= 1 BY <1>2, <1>3, <1>9
  <2> HIDE DEF j, c
  <2> QED BY <2>1, <2>2, <2>3 DEF Finds
<1>11. PushesAt(j, 0) = -1
  <2>1. j[0 + 1] = POP_REG OBVIOUS
  <2> HIDE DEF j
  <2> QED BY <2>1 DEF PushesAt, PSH_LIT, PEK_OFF, POP_REG, Binary, ADD, SUB, MUL, DIV, CMP
<1> HIDE DEF j, c, st
<1>12. PICK g : /\ TypedTo(c \o j, st \cup {Len(c)}, Len(c \o j), g)
                /\ g[Len(c \o j)] = m[Len(c)] + PushesAt(j, 0)
                /\ Extends(g, m)
  BY <1>6, <1>7, <1>8, <1>10, EmitTyped
<1>13. Extends(g, h) BY <1>6, <1>12 DEF Extends
<1>14. /\ TypedTo(bytecode', starts', Len(bytecode'), g)
       /\ g[Len(bytecode')] = H[1] + Adds(Top)
  <2>1. g[Len(bytecode')] = (H[1] - 1) + -1 BY <1>5, <1>9, <1>11, <1>12
  <2> QED BY <1>3, <1>5, <1>12, <2>1
<1>15. /\ UNCHANGED <<ast, identifiers>> /\ Top.function \notin Returning
       /\ Len(calls) > 1 /\ Len(calls) # 1
  BY <1>1, <1>2, Placing DEF tables
<1> QED BY <1>1, <1>13, <1>14, <1>15, EmittedGoing

\* A variable that was found is in the first slot: no other is handed out.
LEMMA IdentifierGoing ==
  ASSUME GInv, Disciplined, NEW h, NEW H, Placed(h, H), generateIdentifier,
         printed = {}, printed' = {},
         \A x \in DOMAIN identifiers : identifiers[x] = 0
  PROVE  Going'
<1>1. /\ In("generateExpression") /\ Here.type = "IDENTIFIER" /\ Returns
      /\ UNCHANGED <<ast, identifiers>>
  BY DEF generateIdentifier, InExpression
<1>2. Here.name \in DOMAIN identifiers BY DEF generateIdentifier, Report
<1> DEFINE offset == identifiers[Here.name]
           i == CASE Here.op = "inc" -> <<INC, sp, offset>>
                  [] Here.op = "dec" -> <<DEC, sp, offset>>
                  [] Here.op = "none" -> <<PEK_OFF, Top.reg, offset>>
<1>3. Emit(i) BY <1>2 DEF generateIdentifier
<1>4. /\ Top.function = "generateExpression" /\ Top.node \in DOMAIN ast
      /\ Here = ast[Top.node] /\ Top.reg \in {sp, ret} /\ Filled
      /\ Ready(Top, h, H[1], DOMAIN identifiers)
      /\ Here.op \in {"none", "inc", "dec"} /\ H[1] \in Nat
      /\ Top.function \notin Returning \cup {"generateScope"}
  <2>1. Here.op \in {"none", "inc", "dec"} BY <1>1, Running, NodeFields
  <2> QED BY <1>1, <2>1, Moment DEF Returning
<1>5. offset = 0 BY <1>2
<1>6. H[1] >= 1
  <2>1. Mentions(Top.node, DOMAIN identifiers) BY <1>1, <1>2, <1>4, MentionsBelow
  <2> QED BY <1>4, <2>1 DEF Ready, ExpressionCalls
<1> HIDE DEF offset
<1>7. 0 \in Byte /\ sp \in Byte /\ ret \in Byte /\ sp \notin General /\ ret \in General
      /\ ret # sp
  BY DEF Byte, sp, ret, General, imm
<1>8. PEK_OFF \notin {INC, DEC, JMP} /\ INC # JMP /\ DEC # JMP
  BY DEF PEK_OFF, INC, DEC, JMP
<1>9. CASE Here.op = "none"
  <2> DEFINE e == <<PEK_OFF, Top.reg, 0>>
  <2>1. i = e BY <1>5, <1>9
  <2>2. Whole(e) BY <1>4, <1>7, <1>8, WholeThree
  <2>3. e[1] = PEK_OFF /\ e[0 + 1] = PEK_OFF /\ e[2] = Top.reg /\ e[0 + 2] = Top.reg
        /\ e[3] = 0
    OBVIOUS
  <2> HIDE DEF e, i
  <2>4. Finds(e, H[1])
    <3>1. 0 < H[1] /\ Top.reg \in General \cup {sp} BY <1>4, <1>6, <1>7
    <3> QED BY <2>3, <3>1 DEF Finds
  <2>5. PushesAt(e, 0) = IF Top.reg = sp THEN 1 ELSE 0
    BY <2>3 DEF PushesAt, PSH_LIT, PEK_OFF, POP_REG, Binary, ADD, SUB, MUL, DIV, CMP
  <2>6. Adds(Top) = IF Top.reg = sp THEN 1 ELSE 0
    <3>1. Top.node \in Values BY <1>1, <1>4, <1>9, Kinds
    <3>2. LeftBy(Top.node, Top.reg) = IF Top.reg = sp THEN 1 ELSE 0
      BY <1>1, <1>4, <1>7, <3>1 DEF LeftBy
    <3> QED BY <1>4, <3>2 DEF Adds
  <2> QED BY <1>1, <1>3, <1>4, <2>1, <2>2, <2>4, <2>5, <2>6, EmitGoing
<1>10. CASE Here.op # "none"
  <2>1. PICK op \in {INC, DEC} : i = <<op, sp, 0>> BY <1>4, <1>5, <1>10
  <2> DEFINE e == <<op, sp, 0>>
  <2>2. Whole(e) BY <1>7, <1>8, <2>1, WholeThree
  <2>3. e[1] = op /\ e[0 + 1] = op /\ e[3] = 0 OBVIOUS
  <2>4. i = e BY <2>1
  <2> HIDE DEF e, i
  <2>5. Finds(e, H[1])
    <3>1. 0 < H[1] BY <1>4, <1>6
    <3> QED BY <2>1, <2>3, <3>1 DEF Finds
  <2>6. PushesAt(e, 0) = 0
    BY <2>3 DEF PushesAt, PSH_LIT, PEK_OFF, POP_REG, Binary, ADD, SUB, MUL, DIV, CMP, INC,
                DEC
  <2>7. Adds(Top) = 0
    <3>1. Top.node \notin Values BY <1>1, <1>4, <1>10, Kinds
    <3>2. LeftBy(Top.node, Top.reg) = 0 BY <1>4, <3>1, Kinds
    <3> QED BY <1>4, <3>2 DEF Adds
  <2> QED BY <1>1, <1>3, <1>4, <2>2, <2>4, <2>5, <2>6, <2>7, EmitGoing
<1> QED BY <1>9, <1>10

\* A comparison is only generated for a register to be returned in.
LEMMA ComparisonGoing ==
  ASSUME GInv, Disciplined, NEW h, NEW H, Placed(h, H), generateComparison
  PROVE  Going'
<1> DEFINE n == Top.node
           a == Comparison(n)
           b == Then("moveResult", n, Top.reg)
           vs == DOMAIN identifiers
<1>1. /\ In("generateExpression") /\ Here.type = "COMPARISON_EXPRESSION"
      /\ Calls(<<a, b>>) /\ UNCHANGED <<ast, bytecode, starts, identifiers>>
  BY DEF generateComparison, InExpression, Context, output, tables
<1>2. /\ Top.function = "generateExpression" /\ n \in DOMAIN ast /\ Here = ast[n]
      /\ n \in Ref(ast) /\ n # 0 /\ Top.reg \in {sp, ret}
      /\ Ready(Top, h, H[1], vs) /\ H[1] \in Nat
      /\ Len(calls) > 1 /\ Len(calls) # 1 /\ Len(calls) \in Nat
      /\ Top.function \notin Returning
  BY <1>1, Moment DEF Returning
<1>3. n \in Comparisons /\ n \notin Values BY <1>1, <1>2, Kinds
<1>4. Top.reg = ret BY <1>2, <1>3 DEF Ready
<1>5. a \in Activations /\ b \in Activations
  <2>1. "moveResult" \in FunctionNames /\ 0 \in Nat BY DEF FunctionNames
  <2> QED BY <1>2, <2>1, ThenCall, ComparisonCall DEF Then
<1>6. Mentions(n, vs) => H[1] >= 1 BY <1>2 DEF Ready, ExpressionCalls
<1>7. /\ Ready(a, h, H[1], vs) /\ Adds(a) = 0
      /\ \A i, m : i # m => Rooted(a, i, m)
  BY <1>3, <1>6, ReadyComparison
<1>8. /\ Ready(b, h, H[1], vs) /\ Adds(b) = 0
      /\ \A i, m : i # m => Rooted(b, i, m)
  BY <1>2, <1>4, ReadyThen DEF StatementCalls
<1>9. Adds(Top) = 0
  <2>1. LeftBy(n, Top.reg) = 0 BY <1>2, <1>3, Kinds
  <2> QED BY <1>2, <2>1 DEF Adds
<1> HIDE DEF a, b, vs
<1>10. H[1] = H[1] + Adds(a) /\ H[1] + Adds(b) = H[1] + Adds(Top)
  BY <1>2, <1>7, <1>8, <1>9
<1>11. Rooted(a, 1, Len(calls) + 1) /\ Rooted(b, 2, Len(calls) + 1)
  <2>1. 1 # Len(calls) + 1 /\ 2 # Len(calls) + 1 BY <1>2
  <2> QED BY <1>7, <1>8, <2>1
<1> QED BY <1>1, <1>2, <1>5, <1>7, <1>8, <1>10, <1>11, TwoGoing DEF vs

\* Two operands, and what consumes them.
LEMMA OperandsGoing ==
  ASSUME GInv, Disciplined, NEW h, NEW H, Placed(h, H), NEW f, In(f),
         f \in ExpressionCalls, Here.type \in {"BINARY_EXPRESSION", "COMPARISON_EXPRESSION"},
         UNCHANGED <<ast, bytecode, starts, identifiers>>,
         NEW g \in {"generateCompareOperator", "generateOperator"},
         NEW r \in {sp, ret}, g = "generateOperator" => Here.type = "BINARY_EXPRESSION",
         Calls(<<Expression(Here.left, sp), Expression(Here.right, sp),
                 Then(g, Top.node, r)>>),
         2 + Adds(Then(g, Top.node, r)) = Adds(Top)
  PROVE  Going'
<1> DEFINE n == Top.node
           x == Here.left
           y == Here.right
           a == Expression(x, sp)
           b == Expression(y, sp)
           c == Then(g, n, r)
           vs == DOMAIN identifiers
           k == H[1] + 1
           l == H[1] + 2
<1>1. f \notin Returning /\ f # "generateScope" BY DEF ExpressionCalls, Returning
<1>2. /\ Top.function = f /\ n \in DOMAIN ast /\ Here = ast[n] /\ Filled /\ IsTree(ast)
      /\ n \in Ref(ast) /\ n # 0 /\ Ready(Top, h, H[1], vs) /\ H[1] \in Nat
      /\ Len(calls) > 1 /\ Len(calls) # 1 /\ Len(calls) \in Nat
      /\ Top.function \notin Returning
  BY <1>1, Moment
<1>3. x \in Values /\ y \in Values /\ x \in Children(n) /\ y \in Children(n)
  BY <1>2, NodeRules
<1>4. a \in Activations /\ b \in Activations /\ c \in Activations
  <2>1. x \in Ref(ast) /\ y \in Ref(ast) BY <1>2, NodeFields
  <2>2. g \in FunctionNames /\ 0 \in Nat /\ g # "generateScope" BY DEF FunctionNames
  <2>3. a \in Activations /\ b \in Activations BY <2>1, ExpressionCall
  <2>4. g = "generateOperator" => ast[n].type = "BINARY_EXPRESSION" BY <1>2
  <2>5. c \in Activations BY <1>2, <2>2, <2>4, ThenCall DEF Then
  <2> QED BY <2>3, <2>5
<1>5. Mentions(x, vs) => H[1] >= 1
  <2>1. Mentions(x, vs) => Mentions(n, vs) BY <1>2, <1>3, MentionsBelow
  <2> QED BY <1>2, <2>1 DEF Ready
<1>6. x \in DOMAIN ast /\ y \in DOMAIN ast /\ x \notin Comparisons /\ y \notin Comparisons
      /\ LeftBy(x, sp) = 1 /\ LeftBy(y, sp) = 1 /\ sp # ret
  BY <1>3, Kinds, KindsIn DEF sp, ret
<1>7. /\ Ready(a, h, H[1], vs) /\ Adds(a) = 1
      /\ \A i, m : i # m => Rooted(a, i, m)
  BY <1>5, <1>6, ReadyExpression
<1>8. /\ Ready(b, h, k, vs) /\ Adds(b) = 1
      /\ \A i, m : i # m => Rooted(b, i, m)
  <2>1. k >= 1 BY <1>2
  <2> HIDE DEF k
  <2> QED BY <1>6, <2>1, ReadyExpression
<1>9. Ready(c, h, l, vs) /\ \A i, m : i # m => Rooted(c, i, m)
  <2>1. l >= 2 BY <1>2
  <2>2. g \notin StatementCalls /\ g # "moveResult" /\ g # "generateLetStatement"
    BY DEF StatementCalls
  <2> HIDE DEF l
  <2> QED BY <1>2, <2>1, <2>2, ReadyThen
<1>10. Adds(c) \in Int /\ 2 + Adds(c) = Adds(Top) BY AddsInt
<1> HIDE DEF a, b, c, vs
<1>11. /\ k = H[1] + Adds(a) /\ l = k + Adds(b) /\ l + Adds(c) = H[1] + Adds(Top)
       /\ k \in Nat /\ l \in Nat
  BY <1>2, <1>7, <1>8, <1>10
<1>12. Rooted(a, 1, Len(calls) + 2) /\ Rooted(b, 2, Len(calls) + 2)
       /\ Rooted(c, 3, Len(calls) + 2)
  <2>1. 1 # Len(calls) + 2 /\ 2 # Len(calls) + 2 /\ 3 # Len(calls) + 2 BY <1>2
  <2> QED BY <1>7, <1>8, <1>9, <2>1
<1>13. Calls(<<a, b, c>>) BY DEF a, b, c
<1> HIDE DEF k, l
<1> QED BY <1>2, <1>4, <1>7, <1>8, <1>9, <1>11, <1>12, <1>13, ThreeGoing DEF vs

LEMMA ComparesGoing ==
  ASSUME GInv, Disciplined, NEW h, NEW H, Placed(h, H), generateComparisonExpression
  PROVE  Going'
<1> DEFINE f == "generateComparisonExpression"
           c == Then("generateCompareOperator", Top.node, sp)
<1>1. /\ In(f) /\ Here.type = "COMPARISON_EXPRESSION"
      /\ Calls(<<Expression(Here.left, sp), Expression(Here.right, sp), c>>)
      /\ UNCHANGED <<ast, bytecode, starts, identifiers>>
  BY DEF generateComparisonExpression, Context, output, tables
<1>2. Top.function = f BY <1>1, Moment
<1>3. Adds(Top) = 0 BY <1>2 DEF Adds
<1>4. Adds(c) = -2 BY DEF Adds, Then, Activation
<1>5. f \in ExpressionCalls BY DEF ExpressionCalls
<1>6. 2 + Adds(c) = Adds(Top) BY <1>3, <1>4
<1> HIDE DEF f
<1> QED BY <1>1, <1>5, <1>6, OperandsGoing

LEMMA BinaryGoing ==
  ASSUME GInv, Disciplined, NEW h, NEW H, Placed(h, H), generateBinaryExpression
  PROVE  Going'
<1> DEFINE f == "generateExpression"
           c == Then("generateOperator", Top.node, Top.reg)
<1>1. /\ In(f) /\ Here.type = "BINARY_EXPRESSION"
      /\ Calls(<<Expression(Here.left, sp), Expression(Here.right, sp), c>>)
      /\ UNCHANGED <<ast, bytecode, starts, identifiers>>
  BY DEF generateBinaryExpression, InExpression, Context, output, tables
<1>2. Top.function = f /\ Top.node \in DOMAIN ast /\ Here = ast[Top.node]
      /\ Top.reg \in {sp, ret}
  BY <1>1, Moment
<1>3. Adds(Top) = IF Top.reg = sp THEN 1 ELSE 0
  <2>1. LeftBy(Top.node, Top.reg) = IF Top.reg = sp THEN 1 ELSE 0
    BY <1>1, <1>2, Kinds DEF sp, ret
  <2> QED BY <1>2, <2>1 DEF Adds
<1>4. Adds(c) = IF Top.reg = sp THEN -1 ELSE -2 BY DEF Adds, Then, Activation
<1>5. f \in ExpressionCalls BY DEF ExpressionCalls
<1>6. 2 + Adds(c) = Adds(Top) BY <1>3, <1>4
<1> HIDE DEF f
<1> QED BY <1>1, <1>2, <1>5, <1>6, OperandsGoing

LEMMA ReturnGoing ==
  ASSUME GInv, Disciplined, NEW h, NEW H, Placed(h, H), generateReturnStatement
  PROVE  Going'
<1> DEFINE n == Top.node
           x == Here.expression
           a == Expression(x, ret)
           b == Then("emitReturn", n, ret)
           vs == DOMAIN identifiers
           k == H[1] + LeftBy(x, ret)
<1>1. /\ In("generateReturnStatement")
      /\ Calls(<<a, b>>) /\ UNCHANGED <<ast, bytecode, starts, identifiers>>
  BY DEF generateReturnStatement, Context, output, tables
<1>2. /\ Top.function = "generateReturnStatement" /\ n \in DOMAIN ast /\ Here = ast[n]
      /\ n \in Ref(ast) /\ n # 0 /\ IsTree(ast) /\ ast[n].type = "RETURN"
      /\ Ready(Top, h, H[1], vs) /\ H[1] \in Nat
      /\ Len(calls) > 1 /\ Len(calls) # 1 /\ Len(calls) \in Nat
  BY <1>1, Moment DEF Suits
<1>3. x \in Values \cup Comparisons BY <1>2, NodeRules
<1>4. a \in Activations /\ b \in Activations
  <2>1. x \in Ref(ast) BY <1>2, NodeFields
  <2>2. "emitReturn" \in FunctionNames /\ 0 \in Nat BY DEF FunctionNames
  <2>3. a \in Activations BY <2>1, ExpressionCall
  <2> QED BY <1>2, <2>2, <2>3, ThenCall DEF Then
<1>5. Mentions(x, vs) => H[1] >= 1
  <2>1. Mentions(x, vs) => vs # {} BY DEF Mentions
  <2> QED BY <1>2, <2>1 DEF Ready, StatementCalls
<1>6. LeftBy(x, ret) \in {0, 1} BY DEF LeftBy
<1>7. /\ Ready(a, h, H[1], vs) /\ Adds(a) = LeftBy(x, ret)
      /\ \A i, m : i # m => Rooted(a, i, m)
  <2>1. x \in DOMAIN ast /\ ret # sp BY <1>3, KindsIn DEF ret, sp
  <2> QED BY <1>3, <1>5, <2>1, ReadyExpression
<1> HIDE DEF k
<1>8. /\ Ready(b, h, k, vs) /\ Adds(b) = -LeftBy(x, ret)
      /\ \A i, m : i # m => Rooted(b, i, m)
      /\ b.function = "emitReturn"
  <2>1. "emitReturn" \notin StatementCalls BY DEF StatementCalls
  <2>2. ast[n].expression = x BY <1>2
  <2> HIDE DEF x, vs
  <2>3. /\ Ready(b, h, k, vs) /\ b.function = "emitReturn"
        /\ \A i, m : i # m => Rooted(b, i, m)
    <3> DEFINE f == "emitReturn"
    <3>1. /\ f \in {"emitReturn", "moveResult", "generateCompareOperator",
                    "generateOperator", "generateReturnStatement",
                    "generateLetStatement", "generateWhileStatement"}
          /\ f # "moveResult" /\ f \notin {"generateCompareOperator", "generateOperator"}
          /\ f \notin StatementCalls /\ f # "generateLetStatement" /\ n \in DOMAIN ast
      BY <1>2, <2>1
    <3> HIDE DEF f, n
    <3>2. /\ Ready(Then(f, n, ret), h, k, vs) /\ Then(f, n, ret).function = f
          /\ \A i, m : i # m => Rooted(Then(f, n, ret), i, m)
      BY <3>1, ReadyThen
    <3> QED BY <3>2 DEF f
  <2>4. Adds(b) = -LeftBy(x, ret) BY <2>2 DEF Adds, Then, Activation
  <2> QED BY <2>3, <2>4
<1>9. Adds(Top) = 0 BY <1>2 DEF Adds
<1> HIDE DEF a, b, vs
<1>10. k = H[1] + Adds(a) /\ k + Adds(b) = H[1] + Adds(Top) /\ k \in Nat
  BY <1>2, <1>6, <1>7, <1>8, <1>9 DEF k
<1>11. Rooted(a, 1, Len(calls) + 1) /\ Rooted(b, 2, Len(calls) + 1)
  <2>1. 1 # Len(calls) + 1 /\ 2 # Len(calls) + 1 BY <1>2
  <2> QED BY <1>7, <1>8, <2>1
<1>12. b.function \in Returning BY <1>8 DEF Returning
<1> QED BY <1>1, <1>2, <1>4, <1>7, <1>8, <1>10, <1>11, <1>12, TwoGoing DEF vs

\* The end of the code has a height, and is the start of no loop yet.
LEMMA EndOfCode ==
  ASSUME GInv, Addressable, NEW h, NEW H, Placed(h, H)
  PROVE  /\ Len(bytecode) \in Nat /\ Len(bytecode) < 32768 /\ Len(bytecode) >= 3
         /\ Len(bytecode) \in DOMAIN h /\ h[Len(bytecode)] = H[1]
         /\ \A x \in DOMAIN h : x \in Nat /\ x >= 3 /\ x <= Len(bytecode)
<1>1. /\ TypedTo(bytecode, starts, Len(bytecode), h) /\ h[Len(bytecode)] = H[1]
  BY Placing
<1>2. /\ bytecode \in Seq(Byte) /\ (Len(bytecode) = 0 \/ Len(bytecode) >= 3)
      /\ \A o \in starts : o \in Nat /\ o < Len(bytecode)
  BY DEF GInv, CodeOK
<1>3. Len(bytecode) \in Nat /\ Len(bytecode) < 32768
  BY <1>2, LenProperties DEF Addressable
<1>4. /\ DOMAIN h = {o \in starts : 3 <= o /\ o < Len(bytecode)} \cup {Len(bytecode)}
      /\ 3 \in DOMAIN h
  <2>1. Entry = 3 BY DEF Entry
  <2> QED BY <1>1, <2>1 DEF TypedTo
<1>5. Len(bytecode) >= 3 BY ONLY <1>3, <1>4, SMTT(30)
<1> QED BY <1>1, <1>2, <1>3, <1>4, <1>5

LEMMA WhileGoing ==
  ASSUME GInv, Disciplined, Addressable, NEW h, NEW H, Placed(h, H),
         generateWhileStatement
  PROVE  Going'
<1> DEFINE n == Top.node
           x == Here.condition
           at0 == U16(Len(bytecode))
           a == Scope(n)
           b == Comparison(x)
           c == Activation("closeLoop", n, sp, at0)
           vs == DOMAIN identifiers
<1>1. /\ In("generateWhileStatement")
      /\ Calls(<<a, b, c>>) /\ UNCHANGED <<ast, bytecode, starts, identifiers>>
  BY DEF generateWhileStatement, Context, output, tables
<1>2. /\ Top.function = "generateWhileStatement" /\ n \in DOMAIN ast /\ Here = ast[n]
      /\ n \in Ref(ast) /\ n # 0 /\ IsTree(ast) /\ ast[n].type = "WHILE"
      /\ Ready(Top, h, H[1], vs) /\ H[1] \in Nat
      /\ Len(calls) > 1 /\ Len(calls) # 1 /\ Len(calls) \in Nat
      /\ Top.function \notin Returning
  BY <1>1, Moment DEF Suits, Returning
<1>3. x \in Comparisons BY <1>2, NodeRules
<1>4. at0 \in DOMAIN h /\ h[at0] = H[1] /\ at0 \in Nat
  <2>1. Len(bytecode) \in Nat /\ Len(bytecode) < 32768 /\ Len(bytecode) \in DOMAIN h
        /\ h[Len(bytecode)] = H[1]
    BY EndOfCode
  <2>2. at0 = Len(bytecode) BY <2>1 DEF U16
  <2> QED BY <2>1, <2>2
<1> HIDE DEF at0
<1>5. a \in Activations /\ b \in Activations /\ c \in Activations
  <2>1. x \in Ref(ast) BY <1>2, NodeFields
  <2>2. "closeLoop" \in FunctionNames BY DEF FunctionNames
  <2>3. a \in Activations /\ b \in Activations BY <1>2, <2>1, ScopeCall, ComparisonCall
  <2> QED BY <1>2, <1>4, <2>2, <2>3, ThenCall
<1>6. vs # {} => H[1] >= 1 BY <1>2 DEF Ready, StatementCalls
<1>7. Mentions(x, vs) => H[1] >= 1
  <2>1. Mentions(x, vs) => vs # {} BY DEF Mentions
  <2> QED BY <1>6, <2>1
<1>8. /\ Ready(b, h, H[1], vs) /\ Adds(b) = 0
      /\ \A i, m : i # m => Rooted(b, i, m)
  BY <1>3, <1>7, ReadyComparison
<1>9. /\ Ready(a, h, H[1], vs) /\ Adds(a) = 0
      /\ \A i, m : i # m => Rooted(a, i, m)
  <2>1. a.function = "generateScope" /\ a.node = n BY DEF Scope, Activation
  <2> HIDE DEF a, vs
  <2>2. Ready(a, h, H[1], vs) BY <1>2, <1>6, <2>1 DEF Ready, ExpressionCalls
  <2>3. Adds(a) = 0 BY <2>1 DEF Adds
  <2>4. \A i, m : i # m => Rooted(a, i, m) BY <1>2, <2>1 DEF Rooted
  <2> QED BY <2>2, <2>3, <2>4
<1>10. /\ Ready(c, h, H[1], vs) /\ Adds(c) = 0
       /\ \A i, m : i # m => Rooted(c, i, m)
  <2>1. c.function = "closeLoop" /\ c.node = n /\ c.at = at0 BY DEF Activation
  <2> HIDE DEF c, vs
  <2>2. Ready(c, h, H[1], vs) BY <1>2, <1>4, <2>1 DEF Ready, ExpressionCalls, StatementCalls
  <2>3. Adds(c) = 0 BY <2>1 DEF Adds
  <2>4. \A i, m : i # m => Rooted(c, i, m) BY <2>1 DEF Rooted
  <2> QED BY <2>2, <2>3, <2>4
<1>11. Adds(Top) = 0 BY <1>2 DEF Adds
<1> HIDE DEF a, b, c, vs
<1>12. H[1] = H[1] + Adds(a) /\ H[1] = H[1] + Adds(b) /\ H[1] + Adds(c) = H[1] + Adds(Top)
  BY <1>2, <1>8, <1>9, <1>10, <1>11
<1>13. Rooted(a, 1, Len(calls) + 2) /\ Rooted(b, 2, Len(calls) + 2)
       /\ Rooted(c, 3, Len(calls) + 2)
  <2>1. 1 # Len(calls) + 2 /\ 2 # Len(calls) + 2 /\ 3 # Len(calls) + 2 BY <1>2
  <2> QED BY <1>8, <1>9, <1>10, <2>1
<1> QED BY <1>1, <1>2, <1>5, <1>8, <1>9, <1>10, <1>12, <1>13, ThreeGoing DEF vs

LEMMA OffsetFits ==
  ASSUME NEW n \in Nat, NEW s \in Nat, 3 <= s, s <= n, n < 32768
  PROVE  /\ U16(U16(n) + 3 - s) = n + 3 - s
         /\ n + 3 - s \in Nat /\ n + 3 - s < 32768
BY DEF U16

LEMMA EncodedWord ==
  ASSUME NEW w \in Nat, w < 32768
  PROVE  (U16(w) % 256) + (256 * (U16(w) \div 256)) = w
<1>1. U16(w) = w BY DEF U16
<1>2. (w % 256) + (256 * (w \div 256)) = w OBVIOUS
<1> QED BY <1>1, <1>2

\* The offset of a loop leads back to its start.
LEMMA LoopsBack ==
  ASSUME GInv, Addressable, NEW h, NEW H, Placed(h, H), NEW s \in DOMAIN h, h[s] = H[1]
  PROVE  Jumps(bytecode, <<JLT>> \o encode(LoopOffset(s)), h)
<1> DEFINE n == Len(bytecode)
           w == LoopOffset(s)
           u == U16(w) \div 256
           v == U16(w) % 256
           i == <<JLT>> \o encode(w)
           e == bytecode \o i
<1>1. n \in Nat /\ n < 32768 /\ n >= 3 /\ h[n] = H[1] /\ s \in Nat /\ s >= 3 /\ s <= n
  BY EndOfCode
<1>2. w = n + 3 - s /\ w \in Nat /\ w < 32768
  <2> HIDE DEF n
  <2>1. /\ U16(U16(n) + 3 - s) = n + 3 - s
        /\ n + 3 - s \in Nat /\ n + 3 - s < 32768
    BY <1>1, OffsetFits
  <2>2. w = U16(U16(n) + 3 - s) BY DEF LoopOffset, n
  <2> QED BY <2>1, <2>2
<1> HIDE DEF w, n
<1>3. u \in Byte /\ v \in Byte /\ encode(w) = <<u, v>> /\ 256 * u + v = w
  <2>1. v + (256 * u) = w BY <1>2, EncodedWord
  <2>2. w \in Int BY <1>2
  <2>3. u \in Byte /\ v \in Byte /\ encode(w) = <<u, v>> BY <2>2, EncodeBytes
  <2> HIDE DEF u, v
  <2> QED BY <2>1, <2>3 DEF Byte
<1> HIDE DEF u, v
<1>4. i = <<JLT, u, v>> BY <1>3, OneAndTwo
<1>5. i \in Seq(Byte) /\ Len(i) = 3 /\ i[1] = JLT /\ i[2] = u /\ i[3] = v
  BY <1>3, <1>4 DEF JLT, Byte
<1> HIDE DEF i
<1>6. bytecode \in Seq(Byte) /\ n = Len(bytecode) BY DEF GInv, CodeOK, n
<1>7. \A j \in 1 .. n + 3 : e[j] = IF j <= n THEN bytecode[j] ELSE i[j - n]
  <2>1. \A j \in 1 .. Len(bytecode) + Len(i) :
          e[j] = IF j <= Len(bytecode) THEN bytecode[j] ELSE i[j - Len(bytecode)]
    BY <1>5, <1>6, ConcatProperties
  <2> HIDE DEF e
  <2> QED BY <1>5, <1>6, <2>1
<1>8. e[n + 2] = u /\ e[n + 3] = v
  <2>1. n + 2 \in 1 .. n + 3 /\ n + 3 \in 1 .. n + 3 /\ ~(n + 2 <= n) /\ ~(n + 3 <= n)
        /\ (n + 2) - n = 2 /\ (n + 3) - n = 3
    BY <1>1
  <2> HIDE DEF e
  <2> QED BY <1>5, <1>7, <2>1
<1> HIDE DEF e
<1>9. Literal(e, n) = w
  <2>1. n + 1 + 1 = n + 2 /\ n + 1 + 2 = n + 3 BY <1>1
  <2>2. Arg(e, n, 1) = u /\ Arg(e, n, 2) = v BY <1>8, <2>1 DEF Arg
  <2>3. w < 32768 BY <1>2
  <2> QED BY <1>3, <2>2, <2>3 DEF Literal, I16
<1>10. JumpTarget(e, n) = s
  <2>1. n + 3 - (n + 3 - s) = s BY <1>1
  <2> QED BY <1>2, <1>9, <2>1 DEF JumpTarget
<1> QED BY <1>1, <1>5, <1>10 DEF Jumps, e, i, w, n

LEMMA CloseLoopGoing ==
  ASSUME GInv, Disciplined, Addressable, NEW h, NEW H, Placed(h, H), closeLoop
  PROVE  Going'
<1>1. In("closeLoop") /\ Context /\ Returns /\ UNCHANGED <<ast, identifiers>>
  BY DEF closeLoop, Context, tables
<1>2. /\ Top.function = "closeLoop" /\ Top.at \in DOMAIN h /\ h[Top.at] = H[1]
      /\ H[1] \in Nat /\ Len(calls) > 1 /\ Len(calls) # 1
      /\ Top.function \notin Returning \cup {"generateScope"}
  BY <1>1, Moment DEF Ready, Returning
<1>3. Adds(Top) = 0 BY <1>2 DEF Adds
<1>4. CASE UNCHANGED output
  <2>1. Extends(h, h) BY DEF Extends
  <2>2. TypedTo(bytecode, starts, Len(bytecode), h) /\ h[Len(bytecode)] = H[1] BY Placing
  <2>3. UNCHANGED <<bytecode, starts>> BY <1>4 DEF output
  <2>4. /\ TypedTo(bytecode', starts', Len(bytecode'), h)
        /\ h[Len(bytecode')] = H[1] + Adds(Top)
    BY <1>2, <1>3, <2>2, <2>3
  <2>5. Top.function \notin Returning BY <1>2
  <2> QED BY <1>1, <1>2, <2>1, <2>4, <2>5, EmittedGoing
<1> DEFINE i == <<JLT>> \o encode(LoopOffset(Top.at))
<1>5. CASE Emit(i)
  <2>1. LoopOffset(Top.at) \in Int
    <3>1. Len(bytecode) \in Nat /\ Top.at \in Nat BY <1>2, EndOfCode
    <3> QED BY <3>1 DEF LoopOffset, U16
  <2>2. Whole(i) BY <2>1, WholeWord
  <2>3. Jumps(bytecode, i, h) BY <1>2, LoopsBack
  <2>4. i[0 + 1] = JLT BY <2>1, EncodeBytes, OneAndTwo
  <2> HIDE DEF i
  <2>5. PushesAt(i, 0) = 0
    BY <2>4 DEF PushesAt, JLT, PSH_LIT, PEK_OFF, POP_REG, Binary, ADD, SUB, MUL, DIV, CMP
  <2> QED BY <1>1, <1>2, <1>3, <1>5, <2>2, <2>3, <2>5, EmitGoing
<1> QED BY <1>4, <1>5 DEF closeLoop

\* A definition is the only activation above the program, so that its variable, which
\* does not occur in it, is on the stack before it is used.
LEMMA LetGoing ==
  ASSUME GInv, Disciplined, NEW h, NEW H, Placed(h, H), generateLetStatement,
         printed = {}, printed' = {}
  PROVE  Going'
<1> DEFINE n == Top.node
           x == Here.expression
           a == Expression(x, sp)
           vs == DOMAIN identifiers
           ws == DOMAIN identifiers'
           as == <<a>>
           A == <<H[1]>>
<1>1. /\ In("generateLetStatement") /\ UNCHANGED <<ast, bytecode, starts>>
  BY DEF generateLetStatement, output
<1>2. Calls(as) /\ ws = vs \cup {Here.name}
  <2>1. \A m : printed' # printed \cup {m}
    BY ONLY printed = {}, printed' = {}
  <2> HIDE DEF a
  <2> QED BY <2>1 DEF generateLetStatement, Report, a
<1>3. /\ Top.function = "generateLetStatement" /\ n \in DOMAIN ast /\ Here = ast[n]
      /\ n \in Ref(ast) /\ n # 0 /\ IsTree(ast) /\ ast[n].type = "LET"
      /\ Ready(Top, h, H[1], vs) /\ H[1] \in Nat
      /\ Len(calls) > 1 /\ Len(calls) # 1 /\ Len(calls) \in Nat
      /\ Top.function \notin Returning
  BY <1>1, Moment DEF Suits, Returning
<1>4. Len(calls) = 2 /\ Rooted(Top, 1, 2) BY <1>3, Placing DEF Rooted
<1>5. /\ x \in Values
      /\ \A m \in Below[x] : ast[m].type = "IDENTIFIER" => ast[m].name # Here.name
  BY <1>3, NodeRules
<1>6. a \in Activations
  <2>1. x \in Ref(ast) BY <1>3, NodeFields
  <2> QED BY <2>1, ExpressionCall
<1>7. Mentions(x, ws) => H[1] >= 1
  <2>1. Mentions(x, ws) => vs # {} BY <1>2, <1>5 DEF Mentions
  <2> QED BY <1>3, <2>1 DEF Ready, StatementCalls
<1>8. /\ Ready(a, h, H[1], ws) /\ Adds(a) = 1
      /\ \A i, m : i # m => Rooted(a, i, m)
  <2>1. x \in DOMAIN ast /\ x \notin Comparisons /\ LeftBy(x, sp) = 1 /\ ret # sp
    BY <1>5, Kinds, KindsIn DEF ret, sp
  <2> QED BY <1>7, <2>1, ReadyExpression
<1>9. Adds(Top) = 1 BY <1>3 DEF Adds
<1>10. H[2] = H[1] + 1 /\ H[2] >= 1
  <2>1. H[2] = H[1] + Adds(Top) BY <1>3, Placing
  <2> QED BY <1>3, <1>9, <2>1
<1>11. \A i \in DOMAIN calls : i > 1 => Ready(calls[i], h, H[i], ws)
  <2> SUFFICES ASSUME NEW i \in DOMAIN calls, i > 1
               PROVE  Ready(calls[i], h, H[i], ws)
    OBVIOUS
  <2>1. i = 2
    <3>1. DOMAIN calls = 1 .. Len(calls) BY Placing
    <3> QED BY <1>4, <3>1
  <2>2. /\ Ready(calls[2], h, H[2], vs)
        /\ calls[2].function = "generateScope" /\ calls[2].node = 1
    <3>1. Ready(calls[2], h, H[2], vs) /\ Rooted(calls[2], 2, Len(calls))
      BY <2>1 DEF Placed, Promised
    <3> QED BY <1>4, <3>1 DEF Rooted
  <2>3. calls[2].node \in DOMAIN ast BY <2>2 DEF Ready
  <2> HIDE DEF ws
  <2>4. Ready(calls[2], h, H[2], ws) BY <1>10, <2>2, <2>3 DEF Ready, ExpressionCalls
  <2> QED BY <2>1, <2>4
<1> HIDE DEF a, vs, ws
<1>12. /\ as \in Seq(Activations) /\ as # <<>> /\ Len(as) = 1 /\ DOMAIN as = {1}
       /\ as[1] = a
  BY <1>6
<1>13. A \in [{1} -> Nat] /\ A[1] = H[1]
  <2>1. DOMAIN A = {1} /\ A = [i \in 1 .. 1 |-> A[i]] /\ 1 .. 1 = {1} OBVIOUS
  <2> QED BY <1>3, <2>1
<1> HIDE DEF as, A
<1>14. ASSUME NEW i \in DOMAIN as
       PROVE  /\ Ready(as[i], h, A[i], DOMAIN identifiers')
              /\ Rooted(as[i], i, Len(as) + (Len(calls) - 1))
              /\ i # Len(as) => A[i + 1] = A[i] + Adds(as[i])
  <2>1. 1 + (Len(calls) - 1) = 2 BY <1>4
  <2>2. Rooted(a, 1, 2) BY <1>8
  <2> QED BY <1>8, <1>12, <1>13, <2>1, <2>2 DEF ws
<1>15. A[Len(as)] + Adds(as[Len(as)]) = H[1] + Adds(Top)
  BY <1>8, <1>9, <1>12, <1>13
<1>16. A \in [DOMAIN as -> Nat] BY <1>12, <1>13
<1>17. \A i \in DOMAIN calls :
         i > 1 => Ready(calls[i], h, H[i], DOMAIN identifiers')
  BY <1>11 DEF ws
<1>18. /\ as \in Seq(Activations) /\ as # <<>> /\ A[1] = H[1] /\ Calls(as)
       /\ UNCHANGED <<ast, bytecode, starts>> /\ Top.function \notin Returning
       /\ Len(calls) # 1
  BY <1>1, <1>2, <1>3, <1>12, <1>13
<1> QED BY <1>14, <1>15, <1>16, <1>17, <1>18, QuietGoing

\* The program cannot end before it has returned.
LEMMA EndScopeGoing ==
  ASSUME GInv, Disciplined, NEW h, NEW H, Placed(h, H), endScope
  PROVE  Going'
<1>1. /\ In("generateScope") /\ Top.at > Len(Here.body) /\ Returns
      /\ UNCHANGED <<ast, bytecode, starts, identifiers>>
  BY DEF endScope, Context, output, tables
<1>2. /\ Top.function = "generateScope" /\ Top.node \in DOMAIN ast /\ Here = ast[Top.node]
      /\ Top.node \in Ref(ast) /\ Top.node # 0 /\ IsTree(ast)
      /\ ast[Top.node].type \in {"PROGRAM", "WHILE"} /\ H[1] \in Nat
      /\ Len(calls) \in Nat /\ Len(calls) >= 1 /\ Top.function \notin Returning
  BY <1>1, Moment DEF Suits, Returning
<1>3. Len(calls) # 1
  <2> SUFFICES ASSUME Len(calls) = 1 PROVE FALSE OBVIOUS
  <2>1. Top = calls[1] /\ Rooted(Top, 1, 1) /\ DOMAIN calls = {1}
    <3>1. DOMAIN calls = 1 .. Len(calls) /\ Top = calls[1] /\ Rooted(Top, 1, Len(calls))
      BY Placing
    <3> QED BY <3>1
  <2>2. Top.node = 1 BY <2>1 DEF Rooted
  <2>3. PICK j \in DOMAIN ast[1].body : ast[ast[1].body[j]].type = "RETURN"
    BY <1>2, Nodes
  <2>4. j < Top.at
    <3>1. ast[1].body \in Seq(Ref(ast)) BY <1>2, <2>2, NodeFields
    <3>2. j \in 1 .. Len(ast[1].body) /\ Len(ast[1].body) \in Nat BY <3>1, LenProperties
    <3>3. Top.at \in Nat BY <1>1, Running
    <3> QED BY <1>1, <1>2, <2>2, <3>2, <3>3
  <2>5. Owed(calls) BY DEF Placed, Promised
  <2> QED BY <1>2, <2>1, <2>3, <2>4, <2>5 DEF Owed
<1>4. Len(calls) > 1
  <2>1. Len(calls) \in Nat /\ Len(calls) >= 1 BY <1>2
  <2>2. \A k \in Nat : k >= 1 /\ k # 1 => k > 1 OBVIOUS
  <2> QED BY <1>3, <2>1, <2>2
<1>5. Adds(Top) = 0 BY <1>2 DEF Adds
<1>6. Extends(h, h) BY DEF Extends
<1>7. TypedTo(bytecode, starts, Len(bytecode), h) /\ h[Len(bytecode)] = H[1] BY Placing
<1>8. /\ TypedTo(bytecode', starts', Len(bytecode'), h)
      /\ h[Len(bytecode')] = H[1] + Adds(Top)
  BY <1>1, <1>2, <1>5, <1>7
<1> QED BY <1>1, <1>2, <1>3, <1>4, <1>6, <1>8, EmittedGoing

\* A statement of the scope on top is ready to be generated.
LEMMA StatementReady ==
  ASSUME IsTree(ast), Disciplined, NEW s \in DOMAIN ast, NEW h, NEW k, NEW vs,
         NEW m, s \notin Comparisons, ast[s].type = "LET" => m = 2,
         vs # {} => k >= 1, m # 1
  PROVE  /\ Ready(CallFor(s), h, k, vs)
         /\ Rooted(CallFor(s), 1, m)
         /\ Adds(CallFor(s)) =
              IF ast[s].type = "LET" THEN 1
              ELSE IF ast[s].type \in {"RETURN", "WHILE"} THEN 0 ELSE LeftBy(s, sp)
         /\ ast[s].type = "RETURN" => CallFor(s).function \in Returning
         /\ ast[s].type \in {"LET", "WHILE"} => CallFor(s).function \notin Returning
<1> DEFINE t == ast[s].type
           c == CallFor(s)
<1>1. s # 0
  <2>1. DOMAIN ast = 1 .. Len(ast) BY LenProperties DEF IsTree
  <2> QED BY <2>1
<1>2. CASE t \notin {"LET", "RETURN", "WHILE"}
  <2>1. c = Expression(s, sp) BY <1>2 DEF CallFor
  <2>2. Mentions(s, vs) => k >= 1
    <3>1. Mentions(s, vs) => vs # {} BY DEF Mentions
    <3> QED BY <3>1
  <2>3. sp # ret BY DEF sp, ret
  <2>4. /\ Ready(Expression(s, sp), h, k, vs)
        /\ \A i, n : i # n => Rooted(Expression(s, sp), i, n)
        /\ Adds(Expression(s, sp)) = LeftBy(s, sp)
    BY <2>2, <2>3, ReadyExpression
  <2> QED BY <1>2, <2>1, <2>4
<1>3. ASSUME NEW f \in {"generateReturnStatement", "generateLetStatement",
                        "generateWhileStatement"},
             c = Then(f, s, sp), f = "generateLetStatement" <=> t = "LET",
             f = "generateReturnStatement" <=> t = "RETURN",
             t \in {"LET", "RETURN", "WHILE"}
      PROVE  /\ Ready(c, h, k, vs) /\ Rooted(c, 1, m)
             /\ Adds(c) = (IF t = "LET" THEN 1 ELSE 0)
             /\ t = "RETURN" <=> c.function \in Returning
  <2>1. c.function = f /\ c.node = s BY <1>3 DEF Then, Activation
  <2> HIDE DEF c
  <2>2. Ready(c, h, k, vs) BY <2>1 DEF Ready, ExpressionCalls
  <2>3. Rooted(c, 1, m) BY <1>3, <2>1 DEF Rooted
  <2>4. Adds(c) = IF t = "LET" THEN 1 ELSE 0 BY <1>3, <2>1 DEF Adds
  <2>5. t = "RETURN" <=> c.function \in Returning BY <1>3, <2>1 DEF Returning
  <2> QED BY <2>2, <2>3, <2>4, <2>5
<1>4. CASE t = "LET"
  <2>1. c = Then("generateLetStatement", s, sp) BY <1>1, <1>4 DEF CallFor
  <2> HIDE DEF c
  <2> QED BY <1>3, <1>4, <2>1 DEF c
<1>5. CASE t = "RETURN"
  <2>1. c = Then("generateReturnStatement", s, sp) BY <1>1, <1>5 DEF CallFor
  <2> HIDE DEF c
  <2> QED BY <1>3, <1>5, <2>1 DEF c
<1>6. CASE t = "WHILE"
  <2>1. c = Then("generateWhileStatement", s, sp) BY <1>1, <1>6 DEF CallFor
  <2> HIDE DEF c
  <2> QED BY <1>3, <1>6, <2>1 DEF c
<1> QED BY <1>2, <1>4, <1>5, <1>6

LEMMA ScopeGoing ==
  ASSUME GInv, Disciplined, NEW h, NEW H, Placed(h, H), generateScope
  PROVE  Going'
<1> DEFINE n == Top.node
           s == Here.body[Top.at]
           a == CallFor(s)
           b == [Top EXCEPT !.at = @ + 1]
           vs == DOMAIN identifiers
           k == H[1] + Adds(a)
<1>1. /\ In("generateScope") /\ Top.at <= Len(Here.body) /\ Calls(<<a, b>>)
      /\ UNCHANGED <<ast, bytecode, starts, identifiers>>
  BY DEF generateScope, Context, output, tables
<1>2. /\ Top.function = "generateScope" /\ n \in DOMAIN ast /\ Here = ast[n]
      /\ n \in Ref(ast) /\ n # 0 /\ IsTree(ast) /\ Filled
      /\ ast[n].type \in {"PROGRAM", "WHILE"} /\ H[1] \in Nat /\ Top.at >= 1
      /\ Ready(Top, h, H[1], vs)
      /\ Len(calls) \in Nat /\ Len(calls) >= 1 /\ Top.function \notin Returning
  BY <1>1, Moment DEF Suits, Returning
<1>3. Top.at \in Nat /\ Top.at \in DOMAIN Here.body /\ s \in Ref(ast)
  <2>1. Here.body \in Seq(Ref(ast)) BY <1>2, NodeFields
  <2>2. Len(Here.body) \in Nat /\ DOMAIN Here.body = 1 .. Len(Here.body)
    BY <2>1, LenProperties
  <2>3. Top.at \in Nat BY <1>1, Running
  <2>4. Top.at \in 1 .. Len(Here.body) BY <1>1, <1>2, <2>2, <2>3
  <2> QED BY <2>1, <2>2, <2>3, <2>4, ElementOfSeq
<1>4. s \in DOMAIN ast
  <2>1. s \in Children(n) BY <1>2, <1>3 DEF Children
  <2> QED BY <1>2, <2>1 DEF Filled
<1>5. /\ calls[1] = Top /\ Rooted(Top, 1, Len(calls))
      /\ 1 = Len(calls) => n = 1
      /\ 1 # Len(calls) => ast[n].type = "WHILE"
  <2>1. calls[1] = Top /\ Rooted(Top, 1, Len(calls)) BY Placing
  <2> QED BY <1>2, <2>1 DEF Rooted
<1>6. ast[n].type = "WHILE" =>
        s \notin Values \cup Comparisons /\ ast[s].type # "LET"
  <2> HAVE ast[n].type = "WHILE"
  <2>1. Counts(s) \/ ast[s].type \in {"WHILE", "RETURN"}
    BY <1>2, <1>3, NodeRules
  <2> QED BY <1>4, <2>1, Kinds DEF Counts
<1>7. ast[n].type # "WHILE" => s \notin Comparisons
  <2> HAVE ast[n].type # "WHILE"
  <2>1. n = 1 BY <1>5
  <2> QED BY <1>2, <1>3, <2>1, Nodes
<1>8. ast[s].type = "LET" => Len(calls) + 1 = 2
  <2>1. ast[s].type = "LET" => Len(calls) = 1 BY <1>5, <1>6
  <2>2. 1 + 1 = 2 OBVIOUS
  <2> QED BY <2>1, <2>2
<1>9. vs # {} => H[1] >= 1 BY <1>2 DEF Ready, StatementCalls
<1>10. 1 # Len(calls) + 1 /\ (2 = Len(calls) + 1 <=> 1 = Len(calls))
  <2>1. \A q \in Nat : q >= 1 => 1 # q + 1 /\ (2 = q + 1 <=> 1 = q) OBVIOUS
  <2> QED BY <1>2, <2>1
<1>11. /\ Ready(a, h, H[1], vs) /\ Rooted(a, 1, Len(calls) + 1)
       /\ Adds(a) = IF ast[s].type = "LET" THEN 1
                    ELSE IF ast[s].type \in {"RETURN", "WHILE"} THEN 0 ELSE LeftBy(s, sp)
       /\ ast[s].type = "RETURN" => a.function \in Returning
  <2> DEFINE m == Len(calls) + 1
  <2>1. m # 1 /\ (ast[s].type = "LET" => m = 2) BY <1>8, <1>10
  <2>2. s \notin Comparisons BY <1>6, <1>7
  <2> HIDE DEF m, vs
  <2>3. /\ Ready(CallFor(s), h, H[1], vs) /\ Rooted(CallFor(s), 1, m)
        /\ Adds(CallFor(s)) = IF ast[s].type = "LET" THEN 1
                    ELSE IF ast[s].type \in {"RETURN", "WHILE"} THEN 0 ELSE LeftBy(s, sp)
        /\ ast[s].type = "RETURN" => CallFor(s).function \in Returning
    BY <1>2, <1>4, <1>9, <2>1, <2>2, StatementReady
  <2> QED BY <2>3 DEF m
<1>12. LeftBy(s, sp) \in {0, 1} BY DEF LeftBy
<1>13. Adds(a) \in {0, 1} BY <1>11, <1>12
<1>14. a \in Activations /\ b \in Activations
  <2>1. a \in Activations BY <1>3, StatementCall
  <2>2. Top \in Activations BY <1>1, TopTyped DEF In
  <2>3. /\ Top.function = "generateScope" /\ Top.node # 0 /\ Top.at \in Nat
        /\ ast[Top.node].type \in {"PROGRAM", "WHILE"} /\ Top.at >= 1
    BY <1>2, <1>3
  <2>4. b \in Activations BY ONLY <2>2, <2>3, SMTT(30) DEF Activations, Suits
  <2> QED BY <2>1, <2>4
<1>15. b.function = "generateScope" /\ b.node = n /\ b.at = Top.at + 1
  <2>1. Top \in Activations BY <1>1, TopTyped DEF In
  <2> QED BY <1>2, <2>1 DEF Activations
<1> HIDE DEF a, b, vs
<1>16. k \in Nat /\ (H[1] >= 1 => k >= 1) BY <1>2, <1>13
<1>17. Ready(b, h, k, vs)
  <2> HIDE DEF k
  <2> QED BY <1>2, <1>9, <1>15, <1>16 DEF Ready, ExpressionCalls
<1>18. Adds(b) = 0 /\ Adds(Top) = 0 BY <1>2, <1>15 DEF Adds
<1>19. Len(calls) > 1 => k + Adds(b) = H[1] + Adds(Top)
  <2> HAVE Len(calls) > 1
  <2>1. ast[n].type = "WHILE" BY <1>5
  <2>2. ast[s].type # "LET" /\ LeftBy(s, sp) = 0 BY <1>4, <1>6, <2>1, Kinds
  <2>3. Adds(a) = 0 BY <1>11, <2>2
  <2> QED BY <1>2, <1>18, <2>3
<1>20. Rooted(b, 2, Len(calls) + 1)
  <2> DEFINE m == Len(calls) + 1
  <2>1. 2 = m <=> 1 = Len(calls) BY <1>10
  <2> HIDE DEF m
  <2>2. Rooted(b, 2, m) BY <1>5, <1>15, <2>1 DEF Rooted
  <2> QED BY <2>2 DEF m
<1>21. Len(calls) = 1 => Owed(<<a, b>>)
  <2> HAVE Len(calls) = 1
  <2> DEFINE cs == <<a, b>>
  <2>1. cs[Len(cs)] = b /\ DOMAIN cs = {1, 2} /\ cs[1] = a OBVIOUS
  <2> HIDE DEF cs
  <2>2. SUFFICES ASSUME NEW j \in DOMAIN ast[1].body, j < b.at,
                        ast[ast[1].body[j]].type = "RETURN"
                 PROVE  a.function \in Returning
    BY <2>1 DEF Owed, cs
  <2>3. n = 1 BY <1>5
  <2>4. CASE j = Top.at BY <1>2, <1>11, <2>2, <2>3, <2>4
  <2>5. CASE j # Top.at
    <3>1. j < Top.at
      <4>1. ast[1].body \in Seq(Ref(ast)) BY <1>2, <2>3, NodeFields
      <4>2. j \in Nat BY <4>1, LenProperties
      <4> QED BY <1>3, <1>15, <2>2, <2>5, <4>2
    <3>2. Owed(calls) BY DEF Placed, Promised
    <3>3. DOMAIN calls = {1}
      <4>1. DOMAIN calls = 1 .. Len(calls) BY Placing
      <4> QED BY <4>1
    <3> QED BY <1>2, <1>5, <2>2, <3>1, <3>2, <3>3 DEF Owed
  <2> QED BY <2>4, <2>5
<1> HIDE DEF k
<1>22. k = H[1] + Adds(a) BY DEF k
<1> QED BY <1>1, <1>2, <1>11, <1>14, <1>16, <1>17, <1>19, <1>20, <1>21, <1>22, TwoGoing
        DEF vs

-----------------------------------------------------------------------------
(* The code that has returned.                                             *)

\* What was typed stays so, whatever is appended, and whatever the operand of the
\* JMP in front becomes.
LEMMA TypedStays ==
  ASSUME NEW c, NEW st, CodeOK(c, st), NEW d, NEW tt, st \subseteq tt,
         \A o \in tt : o \in st \/ (o \in Nat /\ o >= Len(c)),
         \A k \in DOMAIN c \ {2, 3} : d[k] = c[k],
         NEW end \in Nat, end <= Len(c), NEW h, TypedTo(c, st, end, h)
  PROVE  TypedTo(d, tt, end, h)
<1>1. /\ c \in Seq(Byte) /\ Len(c) \in Nat /\ DOMAIN c = 1 .. Len(c) /\ Entry = 3
      /\ \A o \in st : o \in Nat /\ o < Len(c)
  BY LenProperties DEF CodeOK, Entry
<1>2. /\ h \in [{o \in st : 3 <= o /\ o < end} \cup {end} -> Nat]
      /\ 3 \in DOMAIN h /\ h[3] = 0
  BY <1>1 DEF TypedTo
<1>3. \A o \in tt : 3 <= o /\ o < end => o \in st BY <1>1
<1>4. {o \in tt : 3 <= o /\ o < end} = {o \in st : 3 <= o /\ o < end} BY <1>3
<1>5. \A x \in DOMAIN h : x \in Nat /\ 3 <= x /\ x <= end /\ h[x] \in Nat
  <2>1. \A x \in DOMAIN h : h[x] \in Nat BY <1>2
  <2>2. DOMAIN h = {o \in st : 3 <= o /\ o < end} \cup {end} /\ 3 \in DOMAIN h BY <1>2
  <2>3. 3 <= end BY <1>1, <2>2
  <2> QED BY <1>1, <2>1, <2>2, <2>3
<1>6. ASSUME NEW o \in tt, 3 <= o, o < end PROVE Typed(d, h, o)
  <2>1. o \in st /\ Typed(c, h, o) /\ o \in DOMAIN h /\ o \in Nat
    <3>1. o \in st BY <1>3, <1>6
    <3> QED BY <1>1, <1>2, <1>6, <3>1 DEF TypedTo
  <2>2. \A x \in DOMAIN h : x + (o - o) \in DOMAIN h /\ h[x + (o - o)] = h[x]
    <3>1. \A x \in Nat : x + (o - o) = x BY <2>1
    <3> QED BY <1>5, <3>1
  <2>3. ASSUME NEW n \in 1 .. 3, o + n \in DOMAIN h, NEW k \in 1 .. n
        PROVE  d[o + k] = c[o + k]
    <3>1. o + n <= end BY <1>5, <2>3
    <3>2. o + k \in 1 .. Len(c) /\ o + k \notin {2, 3} BY <1>1, <1>6, <2>1, <3>1
    <3> QED BY <1>1, <3>2
  <2>4. \A x \in DOMAIN h : x \in Nat /\ x <= Len(c) /\ h[x] \in Nat BY <1>1, <1>5
  <2>5. \A n \in 1 .. 3 : o + n \in DOMAIN h => \A k \in 1 .. n : d[o + k] = c[o + k]
    BY <2>3
  <2>6. c \in Seq(Byte) /\ o \in Nat /\ o \in DOMAIN h /\ Typed(c, h, o) BY <1>1, <2>1
  <2> QED BY ONLY <2>2, <2>4, <2>5, <2>6, TypedAlike
<1> QED BY <1>1, <1>2, <1>4, <1>6 DEF TypedTo

\* Where a step adds instructions, what it pops, and which variables there are.
Steps ==
  /\ ast' = ast /\ printed \subseteq printed'
  /\ starts \subseteq starts'
  /\ \A o \in starts' : o \in starts \/ (o \in Nat /\ o >= Len(bytecode))
  /\ Len(bytecode') >= Len(bytecode)
  /\ status' # "idle"
  /\ \E n \in 0 .. 2 : /\ stackSize' = U16(stackSize - n)
                       /\ Len(bytecode') >= Len(bytecode) + n
  /\ \/ identifiers' = identifiers
     \/ /\ stackSize < 255
        /\ \A x \in DOMAIN identifiers' :
             \/ identifiers'[x] = stackSize
             \/ x \in DOMAIN identifiers /\ identifiers'[x] = identifiers[x]

LEMMA GoneStays ==
  ASSUME GInv, Gone, Steps, Grows
  PROVE  Gone'
<1>0. PICK r \in starts :
        \E h : Entry <= r /\ bytecode[r + 1] = RET /\ TypedTo(bytecode, starts, r, h)
  BY DEF Gone
<1>1. PICK h : Entry <= r /\ bytecode[r + 1] = RET /\ TypedTo(bytecode, starts, r, h)
  BY <1>0
<1>2. CodeOK(bytecode, starts) /\ r \in Nat /\ r < Len(bytecode) BY DEF GInv, CodeOK
<1>3. \A k \in DOMAIN bytecode \ {2, 3} : bytecode'[k] = bytecode[k] BY DEF Grows
<1>4. Len(bytecode) \in Nat /\ DOMAIN bytecode = 1 .. Len(bytecode)
  BY LenProperties DEF GInv, CodeOK
<1>5. r <= Len(bytecode) BY <1>2, <1>4
<1>6. TypedTo(bytecode', starts', r, h) BY <1>1, <1>2, <1>3, <1>5, TypedStays DEF Steps
<1>7. bytecode'[r + 1] = RET
  <2>1. r + 1 \in DOMAIN bytecode \ {2, 3} BY <1>1, <1>2, <1>4 DEF Entry
  <2> QED BY <1>1, <1>3, <2>1
<1> QED BY <1>1, <1>6, <1>7 DEF Gone, Steps, TypedTo

LEMMA EmitReturnGone ==
  ASSUME GInv, NEW h, NEW H, Placed(h, H), emitReturn, Steps, Grows
  PROVE  Gone'
<1>1. bytecode' = bytecode \o <<RET>> /\ starts' = starts \cup {Len(bytecode)}
  BY DEF emitReturn, Emit
<1> DEFINE r == Len(bytecode)
<1>2. /\ CodeOK(bytecode, starts) /\ bytecode \in Seq(Byte) /\ r \in Nat
      /\ TypedTo(bytecode, starts, r, h)
  BY Placing, LenProperties DEF GInv, CodeOK
<1>3. \A k \in DOMAIN bytecode \ {2, 3} : bytecode'[k] = bytecode[k] BY DEF Grows
<1>4. TypedTo(bytecode', starts', r, h)
  <2>1. r <= Len(bytecode) BY <1>2
  <2> HIDE DEF r
  <2> QED BY <1>2, <1>3, <2>1, TypedStays DEF Steps
<1>5. bytecode'[r + 1] = RET
  <2>1. <<RET>> \in Seq(Byte) /\ Len(<<RET>>) = 1 BY DEF RET, Byte
  <2>2. \A j \in 1 .. Len(bytecode) + Len(<<RET>>) :
          (bytecode \o <<RET>>)[j] =
             IF j <= Len(bytecode) THEN bytecode[j] ELSE <<RET>>[j - Len(bytecode)]
    BY <1>2, <2>1, ConcatProperties
  <2>3. r + 1 \in 1 .. r + 1 /\ ~(r + 1 <= r) /\ (r + 1) - r = 1 BY <1>2
  <2> QED BY <1>1, <2>1, <2>2, <2>3
<1>6. Entry <= r
  <2>1. /\ h \in [{o \in starts : 3 <= o /\ o < r} \cup {r} -> Nat]
        /\ 3 \in DOMAIN h
    BY <1>2 DEF TypedTo, Entry
  <2>2. 3 <= r BY <1>2, <2>1 DEF CodeOK
  <2> QED BY <2>2 DEF Entry
<1>7. r \in starts' BY <1>1
<1> HIDE DEF r
<1> QED BY <1>4, <1>5, <1>6, <1>7 DEF Gone, TypedTo

-----------------------------------------------------------------------------
(* Every step is one of these.                                             *)

LEMMA PoppedIs ==
  ASSUME NEW s \in Nat, s < 65536
  PROVE  /\ U16(s - 0) = s
         /\ U16(s - 1) = IF s >= 1 THEN s - 1 ELSE 65535
         /\ U16(s - 2) = IF s >= 2 THEN s - 2 ELSE 65534 + s
BY DEF U16

LEMMA QuietSteps ==
  ASSUME GInv, UNCHANGED <<ast, bytecode, starts, stackSize, identifiers>>,
         printed \subseteq printed', status' # "idle"
  PROVE  Steps
<1>1. stackSize \in Nat /\ stackSize < 65536 BY DEF GInv, Word
<1>2. stackSize' = U16(stackSize - 0) BY <1>1, PoppedIs
<1>3. Len(bytecode) \in Nat BY LenProperties DEF GInv, CodeOK
<1>4. Len(bytecode') >= Len(bytecode) /\ Len(bytecode') >= Len(bytecode) + 0 BY <1>3
<1>5. \E n \in 0 .. 2 : /\ stackSize' = U16(stackSize - n)
                        /\ Len(bytecode') >= Len(bytecode) + n
  <2>1. 0 \in 0 .. 2 OBVIOUS
  <2> WITNESS 0 \in 0 .. 2
  <2> QED BY <1>2, <1>4
<1>6. /\ ast' = ast /\ starts \subseteq starts' /\ identifiers' = identifiers
      /\ \A o \in starts' : o \in starts \/ (o \in Nat /\ o >= Len(bytecode))
  OBVIOUS
<1> QED BY <1>4, <1>5, <1>6, Zenon DEF Steps

LEMMA EmitSteps ==
  ASSUME GInv, GInv', UNCHANGED <<ast, identifiers>>,
         printed \subseteq printed', status' # "idle",
         starts \subseteq starts', Len(bytecode) \in starts',
         starts' \subseteq starts \cup {Len(bytecode), Len(bytecode) + 1},
         NEW n \in 0 .. 2, stackSize' = U16(stackSize - n),
         n = 2 => Len(bytecode') >= Len(bytecode) + 2
  PROVE  Steps
<1>1. Len(bytecode) \in Nat /\ Len(bytecode') \in Nat BY LenProperties DEF GInv, CodeOK
<1>2. Len(bytecode') > Len(bytecode) BY DEF GInv, CodeOK
<1>3. Len(bytecode') >= Len(bytecode) /\ Len(bytecode') >= Len(bytecode) + n
  BY <1>1, <1>2
<1>4. \A o \in starts' : o \in starts \/ (o \in Nat /\ o >= Len(bytecode))
  <2>1. \A l \in Nat : l + 1 \in Nat /\ l + 1 >= l /\ l >= l OBVIOUS
  <2>2. Len(bytecode) + 1 \in Nat /\ Len(bytecode) + 1 >= Len(bytecode)
        /\ Len(bytecode) >= Len(bytecode)
    BY <1>1, <2>1
  <2>3. \A o \in starts' : o \in starts \/ o = Len(bytecode) \/ o = Len(bytecode) + 1
    OBVIOUS
  <2> QED BY ONLY <1>1, <2>2, <2>3
<1>5. \E q \in 0 .. 2 : /\ stackSize' = U16(stackSize - q)
                        /\ Len(bytecode') >= Len(bytecode) + q
  BY <1>3
<1> QED BY <1>3, <1>4, <1>5, Zenon DEF Steps

LEMMA OperatorSteps ==
  ASSUME GInv, GInv',
         generateCompareOperator \/ generateOperator \/ generateOperatorReg
  PROVE  Steps
<1> DEFINE l == Len(bytecode)
<1>1. l \in Nat /\ bytecode \in Seq(Byte) /\ Len(bytecode') \in Nat
      /\ CodeOK(bytecode', starts')
  BY LenProperties DEF GInv, CodeOK
<1>2. CASE generateCompareOperator
  <2>1. /\ In("generateCompareOperator") /\ Emit(<<CMP, sp>>) /\ stackSize' = Popped(2)
        /\ UNCHANGED <<ast, identifiers, status, printed>>
    BY <1>2 DEF generateCompareOperator, tables
  <2>2. Len(bytecode') >= l + 2
    <3>1. <<CMP, sp>> \in Seq(Byte) /\ Len(<<CMP, sp>>) = 2
      BY DEF CMP, sp, Byte
    <3>2. Len(bytecode') = l + 2 BY <1>1, <2>1, <3>1, ConcatProperties DEF Emit
    <3> QED BY <1>1, <3>2
  <2> QED BY <2>1, <2>2, EmitSteps DEF Emit, Popped, In
<1>3. CASE generateOperator
  <2>1. /\ In("generateOperator") /\ starts' = starts \cup {l} /\ stackSize' = Popped(1)
        /\ UNCHANGED <<ast, identifiers, status, printed>>
    BY <1>3 DEF generateOperator, tables, Emit
  <2> QED BY <2>1, EmitSteps DEF Popped, In
<1>4. CASE generateOperatorReg
  <2>1. /\ In("generateOperator") /\ starts' = starts \cup {l, l + 1}
        /\ stackSize' = Popped(2)
        /\ UNCHANGED <<ast, identifiers, status, printed>>
    BY <1>4 DEF generateOperatorReg, tables
  <2>2. Len(bytecode') >= l + 2
    <3>1. l + 1 < Len(bytecode') BY <1>1, <2>1 DEF CodeOK
    <3> QED BY <1>1, <3>1
  <2> QED BY <2>1, <2>2, EmitSteps DEF Popped, In
<1> QED BY <1>2, <1>3, <1>4

LEMMA LetSteps ==
  ASSUME GInv, generateLetStatement
  PROVE  Steps
<1>1. /\ In("generateLetStatement") /\ UNCHANGED <<ast, bytecode, starts, stackSize, status>>
      /\ printed \subseteq printed'
  BY DEF generateLetStatement, output, Report
<1>2. CASE identifiers' = identifiers BY <1>1, <1>2, QuietSteps DEF In
<1>3. CASE identifiers' # identifiers
  <2>1. /\ ~(stackSize >= 255)
        /\ identifiers' = [x \in DOMAIN identifiers \cup {Here.name} |->
                             IF x = Here.name THEN stackSize ELSE identifiers[x]]
    BY <1>3 DEF generateLetStatement
  <2>2. \A x \in DOMAIN identifiers' :
          \/ identifiers'[x] = stackSize
          \/ x \in DOMAIN identifiers /\ identifiers'[x] = identifiers[x]
    BY <2>1
  <2>3. stackSize \in Nat /\ stackSize < 65536 /\ stackSize < 255
    BY <2>1 DEF GInv, Word
  <2>4. stackSize' = U16(stackSize - 0) BY <1>1, <2>3, PoppedIs
  <2>5. Len(bytecode) \in Nat BY LenProperties DEF GInv, CodeOK
  <2>6. Len(bytecode') >= Len(bytecode) /\ Len(bytecode') >= Len(bytecode) + 0
    BY <1>1, <2>5
  <2>7. \E n \in 0 .. 2 : /\ stackSize' = U16(stackSize - n)
                          /\ Len(bytecode') >= Len(bytecode) + n
    <3> WITNESS 0 \in 0 .. 2
    <3> QED BY <2>4, <2>6
  <2>8. /\ ast' = ast /\ starts \subseteq starts' /\ status' # "idle"
        /\ \A o \in starts' : o \in starts \/ (o \in Nat /\ o >= Len(bytecode))
    BY <1>1 DEF In
  <2>9. /\ stackSize < 255
        /\ \A x \in DOMAIN identifiers' :
             \/ identifiers'[x] = stackSize
             \/ x \in DOMAIN identifiers /\ identifiers'[x] = identifiers[x]
    BY <2>2, <2>3
  <2>10. printed \subseteq printed' BY <1>1
  <2> QED BY ONLY <2>6, <2>7, <2>8, <2>9, <2>10, Zenon DEF Steps
<1> QED BY <1>2, <1>3

LEMMA GenerateSteps ==
  ASSUME GInv, GInv', generate
  PROVE  Steps
<1>0. stackSize = U16(stackSize - 0) /\ 0 \in 0 .. 2 /\ 0 # 2
  <2>1. stackSize \in Nat /\ stackSize < 65536 BY DEF GInv, Word
  <2> QED BY <2>1, PoppedIs
<1>1. CASE \/ generateScope \/ endScope \/ generateReturnStatement
           \/ generateWhileStatement \/ generateComparison
           \/ generateComparisonExpression \/ generateBinaryExpression
  <2>1. status = "generating" /\ Context /\ UNCHANGED output
    BY <1>1 DEF generateScope, endScope, generateReturnStatement,
         generateWhileStatement, generateComparison, generateComparisonExpression,
         generateBinaryExpression, InExpression, In
  <2> QED BY <2>1, QuietSteps DEF Context, output, tables
<1>2. CASE unknownNode \/ Undefined
  <2>1. /\ status = "generating" /\ status' # "idle" /\ printed \subseteq printed'
        /\ UNCHANGED <<ast, output, stackSize, tables>>
    BY <1>2 DEF unknownNode, Undefined, Report, In
  <2> QED BY <2>1, QuietSteps DEF output, tables
<1>3. CASE emitReturn \/ generateNumericLiteral \/ moveResult
  <2>1. /\ status = "generating" /\ Context /\ starts' = starts \cup {Len(bytecode)}
    BY <1>3 DEF emitReturn, generateNumericLiteral, moveResult, InExpression, In, Emit
  <2> QED BY <1>0, <2>1, EmitSteps DEF Context, tables
<1>4. CASE closeLoop
  <2>1. /\ status = "generating" /\ Context
        /\ UNCHANGED output \/ starts' = starts \cup {Len(bytecode)}
    BY <1>4 DEF closeLoop, In, Emit
  <2>2. CASE UNCHANGED output BY <2>1, <2>2, QuietSteps DEF Context, output, tables
  <2>3. CASE starts' = starts \cup {Len(bytecode)}
    BY <1>0, <2>1, <2>3, EmitSteps DEF Context, tables
  <2> QED BY <2>1, <2>2, <2>3
<1>5. CASE generateIdentifier
  <2>1. /\ status = "generating" /\ UNCHANGED <<ast, stackSize, identifiers, status>>
        /\ printed \subseteq printed'
        /\ UNCHANGED output \/ starts' = starts \cup {Len(bytecode)}
    BY <1>5 DEF generateIdentifier, InExpression, In, Emit, Report
  <2>2. CASE UNCHANGED output BY <2>1, <2>2, QuietSteps DEF output
  <2>3. CASE starts' = starts \cup {Len(bytecode)} BY <1>0, <2>1, <2>3, EmitSteps
  <2> QED BY <2>1, <2>2, <2>3
<1>6. CASE generateCall
  <2>1. /\ status = "generating" /\ UNCHANGED <<ast, stackSize, identifiers, status, printed>>
        /\ starts' = starts \cup {Len(bytecode)}
    BY <1>6 DEF generateCall, InExpression, In, Emit
  <2> QED BY <1>0, <2>1, EmitSteps
<1>7. CASE generateCode
  <2>1. /\ status' = "generating" /\ UNCHANGED <<ast, stackSize, identifiers, printed>>
        /\ starts' = starts \cup {Len(bytecode)}
    BY <1>7 DEF generateCode, Emit
  <2> QED BY <1>0, <2>1, EmitSteps
<1>8. CASE finishCode
  <2>1. /\ status' = "generated" /\ UNCHANGED <<ast, stackSize, identifiers>>
        /\ printed \subseteq printed' /\ starts' = starts \cup {Len(bytecode)}
    BY <1>8 DEF finishCode, tables
  <2> QED BY <1>0, <2>1, EmitSteps
<1> QED BY <1>1, <1>2, <1>3, <1>4, <1>5, <1>6, <1>7, <1>8, OperatorSteps, LetSteps
        DEF generate

LEMMA SlotsStep ==
  ASSUME GInv, SlotsOK, Steps
  PROVE  SlotsOK'
<1> DEFINE l == Len(bytecode)
           k == Len(bytecode')
<1>1. l \in Nat BY LenProperties DEF GInv, CodeOK
<1>2. SUFFICES ASSUME Addressable'
               PROVE  /\ stackSize' = 0 \/ stackSize' + k >= 65536
                      /\ printed' = {} => \A x \in DOMAIN identifiers' : identifiers'[x] = 0
  BY DEF SlotsOK
<1>3. PICK n \in 0 .. 2 : stackSize' = U16(stackSize - n) /\ k >= l + n BY DEF Steps
<1>4. k < 32768 BY <1>2 DEF Addressable
<1>a. k \in Int
  <2>1. k >= l BY DEF Steps
  <2> QED BY <1>1, <1>2, <2>1
<1>5. l < 32768 BY <1>1, <1>3, <1>4
<1>6. /\ stackSize = 0 \/ stackSize + l >= 65536
      /\ printed = {} => \A x \in DOMAIN identifiers : identifiers[x] = 0
  BY <1>5 DEF SlotsOK, Addressable
<1>7. stackSize \in Nat /\ stackSize < 65536 BY DEF GInv, Word
<1> HIDE DEF l, k
<1>8. stackSize' = 0 \/ stackSize' + k >= 65536
  <2>1. \/ n = 0 /\ stackSize' = stackSize
        \/ n = 1 /\ stackSize' = IF stackSize >= 1 THEN stackSize - 1 ELSE 65535
        \/ n = 2 /\ stackSize' = IF stackSize >= 2 THEN stackSize - 2
                                 ELSE 65534 + stackSize
    BY <1>3, <1>7, PoppedIs
  <2>2. ASSUME NEW s \in Nat, NEW t \in Int,
               s < 65536, s = 0 \/ s + l >= 65536,
               \/ n = 0 /\ t = s
               \/ n = 1 /\ t = IF s >= 1 THEN s - 1 ELSE 65535
               \/ n = 2 /\ t = IF s >= 2 THEN s - 2 ELSE 65534 + s
        PROVE  t = 0 \/ t + k >= 65536
    BY <1>1, <1>3, <1>a, <1>5, <2>2
  <2>3. stackSize' \in Int BY <1>7, <2>1
  <2> QED BY <1>6, <1>7, <2>1, <2>2, <2>3
<1>9. ASSUME printed' = {}, NEW x \in DOMAIN identifiers' PROVE identifiers'[x] = 0
  <2>1. printed = {} BY <1>9 DEF Steps
  <2>2. CASE identifiers' = identifiers BY <1>6, <1>9, <2>1, <2>2
  <2>3. CASE identifiers' # identifiers
    <3>1. stackSize < 255 BY <2>3 DEF Steps
    <3>2. stackSize = 0 BY <1>1, <1>5, <1>6, <1>7, <3>1
    <3> QED BY <1>6, <1>9, <2>1, <2>3, <3>2 DEF Steps
  <2> QED BY <2>2, <2>3
<1> QED BY <1>8, <1>9

-----------------------------------------------------------------------------
(* The invariant is kept.                                                  *)

\* The first call of generateCode finds no variables, and its JMP is before Entry.
LEMMA StartGoing ==
  ASSUME GInv, Disciplined, identifiers = <<>>, generateCode
  PROVE  Going'
<1> DEFINE h == [x \in {3} |-> 0]
           H == <<0>>
           a == Scope(1)
<1>1. /\ status = "idle" /\ calls' = <<a>> /\ UNCHANGED <<ast, identifiers>>
      /\ bytecode' = bytecode \o (<<JMP>> \o encode(MainAddress))
      /\ starts' = starts \cup {Len(bytecode)}
  BY DEF generateCode, Emit
<1>2. bytecode' = <<JMP, 0, 1>> /\ starts' = {0}
  <2>1. bytecode = <<>> /\ starts = {} BY <1>1 DEF GInv, Begun
  <2>2. bytecode' = <<>> \o <<JMP, 0, 1>> BY <1>1, <2>1, WholeJump
  <2>3. <<JMP, 0, 1>> \in Seq({JMP, 0, 1}) OBVIOUS
  <2>4. <<>> \o <<JMP, 0, 1>> = <<JMP, 0, 1>> BY <2>3, ConcatEmptySeq
  <2> QED BY <1>1, <2>1, <2>2, <2>4
<1>3. Len(bytecode') = 3 BY <1>2
<1>4. TypedTo(bytecode', starts', 3, h)
  <2>1. \A o \in starts' : ~(3 <= o) BY <1>2
  <2>2. {o \in starts' : 3 <= o /\ o < 3} \cup {3} = {3} BY <2>1
  <2>3. h \in [{3} -> Nat] /\ 3 \in DOMAIN h /\ h[3] = 0 OBVIOUS
  <2>4. Entry = 3 BY DEF Entry
  <2> HIDE DEF h
  <2> QED BY <2>1, <2>2, <2>3, <2>4 DEF TypedTo
<1>5. /\ a.function = "generateScope" /\ a.node = 1 /\ a.at = 1
      /\ 1 \in DOMAIN ast /\ ast[1].body \in Seq(Ref(ast))
  <2>1. IsTree(ast) BY DEF GInv
  <2>2. 1 \in DOMAIN ast /\ ast[1].type = "PROGRAM" BY <2>1, Nodes
  <2>3. 1 \in Ref(ast)
    <3>1. Len(ast) \in Nat /\ Len(ast) >= 1 BY <2>1, LenProperties DEF IsTree
    <3> QED BY <3>1 DEF Ref
  <2>4. ast[1].body \in Seq(Ref(ast)) BY <2>1, <2>2, <2>3, NodeFields
  <2> QED BY <2>2, <2>4 DEF Scope, Activation
<1>6. DOMAIN identifiers' = {} BY <1>1
<1> HIDE DEF a
<1>7. Ready(a, h, 0, {})
  BY <1>5 DEF Ready, StatementCalls, ExpressionCalls
<1>8. Rooted(a, 1, 1) BY <1>5 DEF Rooted
<1>9. Owed(<<a>>)
  <2>1. \A j \in DOMAIN ast[1].body : ~(j < 1)
    <3>1. DOMAIN ast[1].body = 1 .. Len(ast[1].body) /\ Len(ast[1].body) \in Nat
      BY <1>5, LenProperties
    <3> QED BY <3>1
  <2>2. <<a>>[Len(<<a>>)].at = 1 BY <1>5
  <2> QED BY <2>1, <2>2 DEF Owed
<1>10. Promised(calls', 3, DOMAIN identifiers', h, H)
  <2>1. /\ <<a>> # <<>> /\ H \in [DOMAIN <<a>> -> Nat] /\ H[1] = h[3]
        /\ DOMAIN <<a>> = {1} /\ <<a>>[1] = a /\ Len(<<a>>) = 1 /\ H[1] = 0
    OBVIOUS
  <2> HIDE DEF h, H
  <2> QED BY <1>1, <1>6, <1>7, <1>8, <1>9, <2>1 DEF Promised
<1> HIDE DEF h, H
<1> QED BY <1>1, <1>3, <1>4, <1>10, SameTree

LEMMA NoCall ==
  ASSUME GInv, Disciplined
  PROVE  ~generateCall
<1> SUFFICES ASSUME generateCall PROVE FALSE OBVIOUS
<1>1. In("generateExpression") /\ Here.type = "CALL_EXPRESSION"
  BY DEF generateCall, InExpression
<1>2. Top.node \in Ref(ast) /\ Top.node # 0 /\ Here = ast[Top.node] /\ IsTree(ast)
  BY <1>1, Running
<1>3. Top.node \in DOMAIN ast
  <2>1. Len(ast) \in Nat /\ DOMAIN ast = 1 .. Len(ast) BY <1>2, LenProperties DEF IsTree
  <2> QED BY <1>2, <2>1 DEF Ref
<1> QED BY <1>1, <1>2, <1>3, NodeRules

LEMMA GoingStep ==
  ASSUME GInv, Steps, Grows, generate, SlotsOK, Disciplined, Addressable,
         printed = {}, printed' = {}, Going,
         status = "generating", status' # "undefined"
  PROVE  /\ Gone' \/ Going'
         /\ status' = "generating"
<1>0. PICK h, H : Placed(h, H) BY DEF Going
<1>1. \A x \in DOMAIN identifiers : identifiers[x] = 0 BY DEF SlotsOK
<1>2. ~finishCode /\ ~generateCode
  <2>1. calls # <<>> BY <1>0 DEF Placed, Promised
  <2> QED BY <2>1 DEF finishCode, generateCode
<1>3. ~unknownNode /\ ~Undefined /\ ~generateCall
  <2>1. \A m : printed' # printed \cup {m} BY ONLY printed = {}, printed' = {}
  <2> QED BY <2>1, NoCall DEF unknownNode, Undefined, Report
<1>4. Gone' \/ Going'
  BY <1>0, <1>1, <1>2, <1>3, ScopeGoing, EndScopeGoing, ReturnGoing, EmitReturnGone,
     LetGoing, WhileGoing, CloseLoopGoing, LiteralGoing, ComparisonGoing, MoveGoing,
     ComparesGoing, CompareGoing, BinaryGoing, OperatorGoing, OperatorRegGoing,
     IdentifierGoing
     DEF generate
<1>5. status' = status
  BY <1>2, <1>3 DEF generate, generateScope, endScope, generateReturnStatement, emitReturn,
     generateLetStatement, generateWhileStatement, closeLoop, generateNumericLiteral,
     generateComparison, moveResult, generateComparisonExpression,
     generateCompareOperator, generateBinaryExpression, generateOperator,
     generateOperatorReg, generateIdentifier, Context
<1> QED BY <1>4, <1>5

LEMMA Starts ==
  ASSUME generate, status # "generating"
  PROVE  generateCode
BY DEF generate, finishCode, generateScope, endScope, generateReturnStatement, emitReturn,
       generateLetStatement, generateWhileStatement, closeLoop, generateNumericLiteral,
       generateComparison, moveResult, generateComparisonExpression,
       generateCompareOperator, generateBinaryExpression, generateOperator,
       generateOperatorReg, generateIdentifier, generateCall, unknownNode, Undefined,
       In, InExpression

LEMMA DInvGenerate ==
  ASSUME DInv, generate, before' = before
  PROVE  DInv'
<1>1. GInv /\ SlotsOK /\ GInv' /\ Grows BY GenerateStep DEF DInv
<1>2. Steps BY <1>1, GenerateSteps
<1>3. SlotsOK' BY <1>1, <1>2, SlotsStep
<1>4. status' # "idle" BY <1>2 DEF Steps
<1>5. ASSUME Disciplined', printed' = {}, Addressable'
      PROVE  /\ status' = "generating" => Gone' \/ Going'
             /\ status' = "generated" => Gone'
  <2>1. Disciplined
    <3>1. ast' = ast BY <1>2 DEF Steps
    <3> QED BY <1>5, <3>1, SameDiscipline
  <2>2. printed = {} BY <1>2, <1>5 DEF Steps
  <2>3. Addressable
    <3>1. Len(bytecode) \in Nat /\ Len(bytecode') \in Nat
      BY <1>1, LenProperties DEF GInv, CodeOK
    <3>2. Len(bytecode') >= Len(bytecode) BY <1>2 DEF Steps
    <3> QED BY <1>5, <3>1, <3>2 DEF Addressable
  <2>4. CASE status # "generating"
    <3>1. generateCode BY <2>4, Starts
    <3>2. status = "idle" /\ status' = "generating" BY <3>1 DEF generateCode
    <3>3. identifiers = <<>> BY <3>2 DEF DInv
    <3> QED BY <1>1, <2>1, <3>1, <3>2, <3>3, StartGoing
  <2>5. CASE status = "generating"
    <3>1. Gone \/ Going BY <2>1, <2>2, <2>3, <2>5 DEF DInv
    <3>2. Gone => Gone' BY <1>1, <1>2, GoneStays
    <3>3. Going /\ status' # "undefined" =>
            (Gone' \/ Going') /\ status' = "generating"
      BY <1>1, <1>2, <1>5, <2>1, <2>2, <2>3, <2>5, GoingStep
    <3> QED BY <3>1, <3>2, <3>3
  <2> QED BY <2>4, <2>5
<1> QED BY <1>1, <1>3, <1>4, <1>5 DEF DInv

LEMMA DInvStutter ==
  ASSUME DInv, UNCHANGED vars
  PROVE  DInv'
<1>1. UNCHANGED <<ast, bytecode, starts, stackSize, calls, status, printed, identifiers>>
  BY DEF vars, output, tables
<1>2. GInv' BY StutterStep DEF DInv
<1>3. SlotsOK' /\ (Addressable' <=> Addressable) BY <1>1 DEF DInv, SlotsOK, Addressable
<1>4. Disciplined' = Disciplined BY <1>1, SameDiscipline
<1>5. Gone => Gone' BY <1>1 DEF Gone, TypedTo
<1>6. Going => Going'
  <2> HAVE Going
  <2>1. PICK h, H : Placed(h, H) BY DEF Going
  <2>2. /\ TypedTo(bytecode', starts', Len(bytecode'), h)
        /\ Promised(calls', Len(bytecode'), DOMAIN identifiers', h, H)
    BY <1>1, <2>1 DEF Placed
  <2> QED BY <1>1, <2>2, SameTree
<1> QED BY <1>1, <1>2, <1>3, <1>4, <1>5, <1>6 DEF DInv

LEMMA DInvNext ==
  ASSUME DInv, [CNext]_allVars
  PROVE  DInv'
<1>1. (generate /\ before' = before) \/ UNCHANGED vars
  BY DEF CNext, Generate, Run, Execute, allVars
<1> QED BY <1>1, DInvGenerate, DInvStutter

LEMMA ConstructedDInv ==
  ASSUME CInit
  PROVE  DInv
<1>1. Constructed /\ IsTree(ast) BY TreesAssumption DEF CInit, Init
<1>2. GInv BY <1>1, ConstructedGInv
<1>3. stackSize = 0 /\ identifiers = <<>> /\ calls = <<>> /\ status = "idle"
  BY <1>1 DEF Constructed
<1>4. SlotsOK BY <1>3 DEF SlotsOK
<1> QED BY <1>2, <1>3, <1>4 DEF DInv

-----------------------------------------------------------------------------
(* The heights, added up.                                                  *)

\* A set of natural numbers that is not empty has a least one.
LEMMA Least ==
  ASSUME NEW S, S \subseteq Nat, S # {}
  PROVE  \E n \in S : \A k \in S : n <= k
<1>1. IsWellFoundedOn(OpToRel(<, Nat), Nat) BY NatLessThanWellFounded
<1>2. PICK n \in S : \A k \in S : ~ (<<k, n>> \in OpToRel(<, Nat))
  BY <1>1, WFMin
<1>3. ASSUME NEW k \in S PROVE n <= k
  <2>1. <<k, n>> \notin OpToRel(<, Nat) BY <1>2
  <2>2. <<k, n>> \in Nat \X Nat OBVIOUS
  <2>3. ~ (k < n) BY <2>1, <2>2 DEF OpToRel
  <2> QED BY <2>3
<1> QED BY <1>3

\* One that is bounded too has a greatest.
LEMMA Greatest ==
  ASSUME NEW S, S \subseteq Nat, S # {}, NEW b \in Nat, \A k \in S : k <= b
  PROVE  \E n \in S : \A k \in S : k <= n
<1> DEFINE T == {b - k : k \in S}
<1>1. T \subseteq Nat /\ T # {}
  <2>1. \A k \in S : b - k \in Nat OBVIOUS
  <2> QED BY <2>1
<1> HIDE DEF T
<1>2. PICK m \in T : \A t \in T : m <= t BY <1>1, Least
<1>3. PICK n \in S : m = b - n BY DEF T
<1>4. ASSUME NEW k \in S PROVE k <= n
  <2>1. b - k \in T BY DEF T
  <2>2. b - n <= b - k BY <1>2, <1>3, <2>1
  <2> QED BY <2>2
<1> QED BY <1>4

\* The element of s that a sum takes next.
Picked(s) == CHOOSE x \in s : TRUE

\* f has the sums of the subsets of S.
SumsUp(f, S) ==
  f = [s \in SUBSET S |->
         IF s = {} THEN 0 ELSE Pushes(Picked(s)) + f[s \ {Picked(s)}]]

LEMMA Subsets ==
  ASSUME NEW S, IsFiniteSet(S), NEW s \in SUBSET S
  PROVE  /\ IsFiniteSet(s) /\ Cardinality(s) \in Nat
         /\ Cardinality(s) <= Cardinality(S)
         /\ (Cardinality(s) = 0) <=> (s = {})
         /\ s # {} => Picked(s) \in s
         /\ \A x \in s : /\ s \ {x} \in SUBSET S
                         /\ Cardinality(s \ {x}) = Cardinality(s) - 1
<1>1. IsFiniteSet(s) /\ Cardinality(s) <= Cardinality(S) BY FS_Subset
<1>2. Cardinality(s) \in Nat BY <1>1, FS_CardinalityType
<1>3. (Cardinality(s) = 0) <=> (s = {}) BY <1>1, FS_EmptySet
<1>4. s # {} => Picked(s) \in s BY DEF Picked
<1>5. \A x \in s : Cardinality(s \ {x}) = Cardinality(s) - 1 BY <1>1, FS_RemoveElement
<1> QED BY <1>1, <1>2, <1>3, <1>4, <1>5

\* Of the subsets of a finite set, some are the smallest.
LEMMA Smallest ==
  ASSUME NEW S, IsFiniteSet(S), NEW T, T \subseteq SUBSET S, T # {}
  PROVE  \E s \in T : \A t \in T : Cardinality(s) <= Cardinality(t)
<1> DEFINE C == {Cardinality(t) : t \in T}
<1>1. C \subseteq Nat /\ C # {} BY Subsets
<1> HIDE DEF C
<1>2. PICK n \in C : \A k \in C : n <= k BY <1>1, Least
<1>3. PICK s \in T : n = Cardinality(s) BY DEF C
<1>4. \A t \in T : Cardinality(t) \in C BY DEF C
<1> QED BY <1>2, <1>3, <1>4

LEMMA SumExists ==
  ASSUME NEW S, IsFiniteSet(S)
  PROVE  \E f : SumsUp(f, S)
<1> DEFINE D(n) == {s \in SUBSET S : Cardinality(s) <= n}
           Next1(f, s) == IF s = {} THEN 0 ELSE Pushes(Picked(s)) + f[s \ {Picked(s)}]
           R(f, n) == \A s \in D(n) : f[s] = Next1(f, s)
           Bad == {n \in Nat : ~ \E f : R(f, n)}
<1>1. Bad = {}
  <2> SUFFICES ASSUME Bad # {} PROVE FALSE OBVIOUS
  <2>1. Bad \subseteq Nat OBVIOUS
  <2>2. PICK n \in Bad : \A k \in Bad : n <= k BY <2>1, Least
  <2>3. CASE n = 0
    <3> DEFINE f == [s \in SUBSET S |-> 0]
    <3>1. ASSUME NEW s \in D(0) PROVE s = {} BY Subsets
    <3>2. R(f, 0) BY <3>1
    <3> QED BY <2>2, <2>3, <3>2
  <2>4. CASE n # 0
    <3>1. n \in Nat /\ n - 1 \in Nat /\ ~(n <= n - 1) BY <2>2, <2>4
    <3>2. n - 1 \notin Bad BY <2>2, <3>1
    <3>3. PICK f : R(f, n - 1) BY <3>1, <3>2
    <3> DEFINE g == [s \in SUBSET S |-> Next1(f, s)]
    <3>4. \A s \in D(n - 1) : g[s] = f[s] BY <3>3
    <3>5. ASSUME NEW s \in D(n) PROVE g[s] = Next1(g, s)
      <4>1. CASE s = {} BY <4>1
      <4>2. CASE s # {}
        <5>1. s \in SUBSET S /\ Cardinality(s) <= n OBVIOUS
        <5>2. s \ {Picked(s)} \in SUBSET S
              /\ Cardinality(s \ {Picked(s)}) = Cardinality(s) - 1
              /\ Cardinality(s) \in Nat
          BY <4>2, <5>1, Subsets
        <5>3. s \ {Picked(s)} \in D(n - 1) BY <3>1, <5>1, <5>2
        <5>4. g[s \ {Picked(s)}] = f[s \ {Picked(s)}] BY <3>4, <5>3
        <5>5. g[s] = Next1(f, s) BY <5>1
        <5> HIDE DEF g
        <5> QED BY <4>2, <5>4, <5>5
      <4> QED BY <4>1, <4>2
    <3>6. R(g, n) BY <3>5
    <3> QED BY <2>2, <3>6
  <2> QED BY <2>3, <2>4
<1>2. Cardinality(S) \in Nat BY FS_CardinalityType
<1>3. PICK f : R(f, Cardinality(S)) BY <1>1, <1>2
<1>4. D(Cardinality(S)) = SUBSET S BY Subsets
<1> DEFINE h == [s \in SUBSET S |-> f[s]]
<1>5. \A s \in SUBSET S : Next1(h, s) = Next1(f, s)
  <2> TAKE s \in SUBSET S
  <2>1. s \ {Picked(s)} \in SUBSET S OBVIOUS
  <2>2. h[s \ {Picked(s)}] = f[s \ {Picked(s)}] BY <2>1
  <2> HIDE DEF h
  <2> QED BY <2>2
<1>6. \A s \in SUBSET S : h[s] = Next1(h, s)
  <2> TAKE s \in SUBSET S
  <2>1. f[s] = Next1(f, s) BY <1>3, <1>4
  <2>2. h[s] = f[s] OBVIOUS
  <2> HIDE DEF h
  <2> QED BY <1>5, <2>1, <2>2
<1>7. h = [s \in SUBSET S |-> h[s]] OBVIOUS
<1> HIDE DEF h
<1>8. h = [s \in SUBSET S |-> Next1(h, s)] BY <1>6, <1>7
<1> QED BY <1>8 DEF SumsUp

\* A sum does not depend on the order in which it is taken.
LEMMA SumAdds ==
  ASSUME NEW S, IsFiniteSet(S), \A x \in S : Pushes(x) \in Int, NEW f, SumsUp(f, S)
  PROVE  /\ f[{}] = 0
         /\ \A s \in SUBSET S : f[s] \in Int
         /\ \A s \in SUBSET S : \A x \in s : f[s] = Pushes(x) + f[s \ {x}]
<1>1. /\ \A s \in SUBSET S :
           f[s] = IF s = {} THEN 0 ELSE Pushes(Picked(s)) + f[s \ {Picked(s)}]
  <2> DEFINE g == [s \in SUBSET S |->
                     IF s = {} THEN 0 ELSE Pushes(Picked(s)) + f[s \ {Picked(s)}]]
  <2>1. f = g BY DEF SumsUp
  <2>2. \A s \in SUBSET S :
           g[s] = IF s = {} THEN 0 ELSE Pushes(Picked(s)) + f[s \ {Picked(s)}]
    OBVIOUS
  <2> HIDE DEF g
  <2> QED BY <2>1, <2>2
<1>2. f[{}] = 0 BY <1>1
<1>3. \A s \in SUBSET S : f[s] \in Int
  <2> DEFINE Bad == {s \in SUBSET S : f[s] \notin Int}
  <2> SUFFICES ASSUME Bad # {} PROVE FALSE OBVIOUS
  <2>1. PICK s \in Bad : \A t \in Bad : Cardinality(s) <= Cardinality(t) BY Smallest
  <2>2. s # {} BY <1>2
  <2>3. Picked(s) \in s /\ s \ {Picked(s)} \in SUBSET S /\ Cardinality(s) \in Nat
        /\ Cardinality(s \ {Picked(s)}) = Cardinality(s) - 1
    BY <2>2, Subsets
  <2>4. s \ {Picked(s)} \notin Bad BY <2>1, <2>3
  <2>5. f[s \ {Picked(s)}] \in Int BY <2>3, <2>4
  <2>6. f[s] = Pushes(Picked(s)) + f[s \ {Picked(s)}] BY <1>1, <2>2
  <2>7. Pushes(Picked(s)) \in Int BY <2>3
  <2> QED BY <2>5, <2>6, <2>7
<1>4. \A s \in SUBSET S : \A x \in s : f[s] = Pushes(x) + f[s \ {x}]
  <2> DEFINE Bad == {s \in SUBSET S : \E x \in s : f[s] # Pushes(x) + f[s \ {x}]}
  <2> SUFFICES ASSUME Bad # {} PROVE FALSE OBVIOUS
  <2>1. PICK s \in Bad : \A t \in Bad : Cardinality(s) <= Cardinality(t) BY Smallest
  <2>2. PICK x \in s : f[s] # Pushes(x) + f[s \ {x}] OBVIOUS
  <2> DEFINE c == Picked(s)
  <2>3. s # {} /\ c \in s /\ s \in SUBSET S /\ Cardinality(s) \in Nat BY <2>2, Subsets
  <2>4. f[s] = Pushes(c) + f[s \ {c}] BY <1>1, <2>3
  <2>5. x # c BY <2>2, <2>4
  <2>6. /\ s \ {c} \in SUBSET S /\ Cardinality(s \ {c}) = Cardinality(s) - 1
        /\ s \ {x} \in SUBSET S /\ Cardinality(s \ {x}) = Cardinality(s) - 1
    BY <2>3, Subsets
  <2> HIDE DEF c
  <2>7. s \ {c} \notin Bad /\ s \ {x} \notin Bad
    <3>1. ~(Cardinality(s) <= Cardinality(s) - 1) BY <2>3
    <3> HIDE DEF Bad
    <3> QED BY <2>1, <2>6, <3>1
  <2>8. f[s \ {c}] = Pushes(x) + f[(s \ {c}) \ {x}]
    <3>1. x \in s \ {c} BY <2>5
    <3> QED BY <2>6, <2>7, <3>1
  <2>9. f[s \ {x}] = Pushes(c) + f[(s \ {x}) \ {c}]
    <3>1. c \in s \ {x} BY <2>3, <2>5
    <3> QED BY <2>6, <2>7, <3>1
  <2>10. (s \ {c}) \ {x} = (s \ {x}) \ {c} /\ (s \ {c}) \ {x} \in SUBSET S BY <2>3
  <2>11. Pushes(x) \in Int /\ Pushes(c) \in Int /\ f[(s \ {c}) \ {x}] \in Int
    BY <1>3, <2>3, <2>10
  <2>12. \A p, q, r \in Int : p + (q + r) = q + (p + r) OBVIOUS
  <2>13. f[s] = Pushes(c) + (Pushes(x) + f[(s \ {c}) \ {x}]) BY ONLY <2>4, <2>8
  <2>14. Pushes(x) + f[s \ {x}] = Pushes(x) + (Pushes(c) + f[(s \ {c}) \ {x}])
    BY ONLY <2>9, <2>10
  <2>15. f[s] = Pushes(x) + f[s \ {x}] BY ONLY <2>11, <2>12, <2>13, <2>14
  <2> QED BY <2>2, <2>15
<1> QED BY <1>2, <1>3, <1>4

LEMMA SumIs ==
  ASSUME NEW S, IsFiniteSet(S)
  PROVE  \E f : SumsUp(f, S) /\ MapThenSumSet(Pushes, S) = f[S]
<1> DEFINE f == CHOOSE f : SumsUp(f, S)
<1>1. SumsUp(f, S) BY SumExists
<1>2. MapThenSumSet(Pushes, S) = f[S]
  BY Zenon DEF MapThenSumSet, MapThenFoldSet, SumsUp, Picked
<1> QED BY <1>1, <1>2

\* The code up to its first RET.
Returned(h, r) ==
  /\ r \in starts /\ Entry <= r /\ bytecode[r + 1] = RET
  /\ TypedTo(bytecode, starts, r, h)

LEMMA ReturnedIs ==
  ASSUME GInv, NEW h, NEW r, Returned(h, r)
  PROVE  /\ bytecode \in Seq(Byte) /\ r \in Nat /\ r < Len(bytecode) /\ Len(bytecode) \in Nat
         /\ DOMAIN h = {o \in starts : 3 <= o /\ o <= r}
         /\ \A x \in DOMAIN h : x \in Nat /\ h[x] \in Nat
         /\ 3 \in DOMAIN h /\ h[3] = 0
         /\ \A o \in DOMAIN h : o < r => Typed(bytecode, h, o)
<1>1. /\ bytecode \in Seq(Byte) /\ \A o \in starts : o \in Nat /\ o < Len(bytecode)
      /\ Entry = 3
  BY DEF GInv, CodeOK, Entry
<1>2. Len(bytecode) \in Nat BY <1>1, LenProperties
<1>3. r \in starts /\ r \in Nat /\ r < Len(bytecode) /\ 3 <= r BY <1>1 DEF Returned
<1>4. /\ h \in [{o \in starts : 3 <= o /\ o < r} \cup {r} -> Nat]
      /\ 3 \in DOMAIN h /\ h[3] = 0
      /\ \A o \in starts : 3 <= o /\ o < r => Typed(bytecode, h, o)
  BY <1>1 DEF Returned, TypedTo
<1>5. {o \in starts : 3 <= o /\ o < r} \cup {r} = {o \in starts : 3 <= o /\ o <= r}
  <2>1. \A o \in starts : o <= r <=> (o < r \/ o = r) BY <1>1, <1>3
  <2> QED BY <1>3, <2>1
<1>6. DOMAIN h = {o \in starts : 3 <= o /\ o <= r} BY <1>4, <1>5
<1>7. \A x \in DOMAIN h : x \in Nat /\ h[x] \in Nat BY <1>1, <1>4, <1>6
<1> QED BY <1>1, <1>2, <1>3, <1>4, <1>6, <1>7

\* What is behind an instruction is what is behind the one before it, and that.
LEMMA BehindNext ==
  ASSUME GInv, NEW h, NEW r, Returned(h, r), NEW o \in DOMAIN h, o # 3
  PROVE  \E q \in DOMAIN h :
           /\ q \in Behind(o) /\ Behind(o) \ {q} = Behind(q) /\ q < o
           /\ h[o] = h[q] + Pushes(q)
<1>1. /\ r \in Nat /\ DOMAIN h = {x \in starts : 3 <= x /\ x <= r} /\ Entry = 3
      /\ \A x \in DOMAIN h : x \in Nat /\ h[x] \in Nat
      /\ 3 \in DOMAIN h
      /\ \A x \in DOMAIN h : x < r => Typed(bytecode, h, x)
  BY ReturnedIs DEF Entry
<1>2. /\ \A x \in starts : x \in Nat
      /\ \A p, x \in starts : p <= x \/ p >= x + LengthAt(bytecode, x)
  BY DEF GInv, CodeOK
<1>3. Behind(o) = {x \in starts : 3 <= x /\ x < o} BY <1>1 DEF Behind
<1>4. 3 \in Behind(o) BY <1>1, <1>3
<1>5. Behind(o) \subseteq Nat /\ \A k \in Behind(o) : k <= o BY <1>1, <1>2, <1>3
<1>6. PICK q \in Behind(o) : \A k \in Behind(o) : k <= q BY <1>1, <1>4, <1>5, Greatest
<1>7. q \in DOMAIN h /\ q < o /\ q < r /\ q \in Nat /\ 3 <= q
  BY <1>1, <1>2, <1>3
<1> DEFINE n == q + LengthAt(bytecode, q)
<1>8. Typed(bytecode, h, q) BY <1>1, <1>7
<1>9. n \in DOMAIN h /\ h[n] = h[q] + PushesAt(bytecode, q) /\ n > q /\ n \in Nat
  <2>1. LengthAt(bytecode, q) \in 1 .. 3 BY Lengths
  <2>2. n \in DOMAIN h /\ h[n] = h[q] + PushesAt(bytecode, q) BY <1>8 DEF Typed
  <2> QED BY <1>1, <1>7, <2>1, <2>2
<1>10. n = o
  <2>1. o \in starts /\ q \in starts /\ o \in Nat BY <1>1, <1>7
  <2>2. o <= q \/ o >= n BY <1>2, <2>1
  <2>3. ~(n < o)
    <3> SUFFICES ASSUME n < o PROVE FALSE OBVIOUS
    <3>1. n \in Behind(o) BY <1>1, <1>3, <1>9
    <3>2. n <= q BY <1>6, <3>1
    <3> HIDE DEF n
    <3> QED BY <1>7, <1>9, <3>2
  <2> HIDE DEF n
  <2> QED BY <1>7, <1>9, <2>1, <2>2, <2>3
<1>11. Behind(o) \ {q} = Behind(q)
  <2>1. Behind(q) = {x \in starts : 3 <= x /\ x < q} BY <1>1 DEF Behind
  <2>2. \A x \in Behind(o) : x # q <=> x < q BY <1>5, <1>6, <1>7
  <2>3. \A x \in starts : x < q => x < o BY <1>1, <1>2, <1>7
  <2> QED BY <1>3, <2>1, <2>2, <2>3
<1>12. Pushes(q) = PushesAt(bytecode, q) BY DEF Pushes, PushesAt
<1> HIDE DEF n
<1> QED BY <1>7, <1>9, <1>10, <1>11, <1>12

LEMMA HeightsAre ==
  ASSUME GInv, NEW h, NEW r, Returned(h, r)
  PROVE  /\ DOMAIN Heights = {o - 3 : o \in DOMAIN h}
         /\ \A o \in DOMAIN h : Heights[o - 3] = h[o]
<1>1. /\ r \in Nat /\ DOMAIN h = {x \in starts : 3 <= x /\ x <= r} /\ Entry = 3
      /\ \A x \in DOMAIN h : x \in Nat /\ h[x] \in Nat
      /\ 3 \in DOMAIN h /\ h[3] = 0
      /\ \A x \in DOMAIN h : x < r => Typed(bytecode, h, x)
      /\ r \in starts /\ bytecode[r + 1] = RET
  BY ReturnedIs DEF Entry, Returned
<1>2. \A x \in starts : x \in Nat BY DEF GInv, CodeOK
<1>3. \A o : Behind(o) = {x \in starts : 3 <= x /\ x < o} BY <1>1 DEF Behind
<1>4. Reached = DOMAIN h
  <2>1. Reached = {o \in starts : 3 <= o /\ \A q \in Behind(o) : bytecode[q + 1] # RET}
    BY <1>1 DEF Reached
  <2>2. ASSUME NEW o \in DOMAIN h, NEW q \in Behind(o) PROVE bytecode[q + 1] # RET
    <3>1. q \in starts /\ 3 <= q /\ q < o /\ o <= r BY <1>1, <1>3
    <3>2. q < r /\ q <= r BY <1>1, <1>2, <3>1
    <3>3. q \in DOMAIN h BY <1>1, <3>1, <3>2
    <3> QED BY <1>1, <3>2, <3>3 DEF Typed
  <2>3. ASSUME NEW o \in Reached PROVE o <= r
    <3> SUFFICES ASSUME ~(o <= r) PROVE FALSE OBVIOUS
    <3>1. o \in starts /\ o \in Nat BY <1>2, <2>1
    <3>2. 3 <= r BY <1>1, <1>2
    <3>3. r \in Behind(o) BY <1>1, <1>3, <3>1, <3>2
    <3> QED BY <1>1, <2>1, <3>3
  <2> QED BY <1>1, <2>1, <2>2, <2>3
<1>5. Heights = [k \in {o - 3 : o \in DOMAIN h} |->
                   MapThenSumSet(Pushes, Behind(k + 3))]
  BY <1>1, <1>4 DEF Heights
<1>6. ASSUME NEW p \in DOMAIN h PROVE MapThenSumSet(Pushes, Behind(p)) = h[p]
  <2> DEFINE S == Behind(p)
  <2>1. IsFiniteSet(S)
    <3>1. S \in SUBSET Nat /\ p \in Nat BY <1>1, <1>2, <1>3
    <3>2. \A x \in S : x <= p
      <4>1. p \in Nat /\ \A x \in S : x \in Nat /\ x < p BY <1>1, <1>2, <1>3
      <4> HIDE DEF S
      <4> QED BY <4>1
    <3> HIDE DEF S
    <3> QED BY <3>1, <3>2, FS_BoundedSetOfNaturals
  <2>2. PICK f : SumsUp(f, S) /\ MapThenSumSet(Pushes, S) = f[S] BY <2>1, SumIs
  <2>3. \A x \in S : Pushes(x) \in Int BY DEF Pushes
  <2>4. /\ f[{}] = 0
        /\ \A s \in SUBSET S : \A x \in s : f[s] = Pushes(x) + f[s \ {x}]
    BY <2>1, <2>2, <2>3, SumAdds
  <2> DEFINE Bad == {o \in DOMAIN h : o <= p /\ f[Behind(o)] # h[o]}
  <2>5. Bad = {}
    <3> SUFFICES ASSUME Bad # {} PROVE FALSE OBVIOUS
    <3>1. Bad \subseteq Nat BY <1>1
    <3>2. PICK o \in Bad : \A k \in Bad : o <= k BY <3>1, Least
    <3>3. o # 3
      <4>1. Behind(3) = {} BY <1>2, <1>3
      <4> QED BY <1>1, <2>4, <3>2, <4>1
    <3>4. PICK q \in DOMAIN h :
            /\ q \in Behind(o) /\ Behind(o) \ {q} = Behind(q) /\ q < o
            /\ h[o] = h[q] + Pushes(q)
      BY <3>2, <3>3, BehindNext
    <3>5. Behind(o) \in SUBSET S
      <4>1. o <= p /\ o \in Nat /\ p \in Nat BY <1>1, <3>2
      <4>2. \A x \in Nat : x < o => x < p BY <4>1
      <4> QED BY <1>2, <1>3, <4>2
    <3>6. f[Behind(o)] = Pushes(q) + f[Behind(q)] BY <2>4, <3>4, <3>5
    <3>7. q \notin Bad /\ q <= p
      <4>1. q \in Nat /\ o \in Nat /\ p \in Nat /\ o <= p BY <1>1, <3>2
      <4> QED BY <3>2, <3>4, <4>1
    <3>8. f[Behind(q)] = h[q] BY <3>4, <3>7
    <3>9. h[q] \in Int /\ Pushes(q) \in Int BY <1>1, <3>4 DEF Pushes
    <3>10. f[Behind(o)] = h[o] BY <3>4, <3>6, <3>8, <3>9
    <3> QED BY <3>2, <3>10
  <2>6. p \notin Bad /\ p <= p BY <1>1, <2>5
  <2>7. f[S] = h[p] BY <2>6
  <2> QED BY <2>2, <2>7
<1>7. ASSUME NEW o \in DOMAIN h PROVE Heights[o - 3] = h[o]
  <2>1. (o - 3) + 3 = o BY <1>1
  <2> QED BY <1>5, <1>6, <2>1
<1> QED BY <1>5, <1>7

LEMMA GoneWellTyped ==
  ASSUME GInv, Gone
  PROVE  WellTyped(Body, Heights)
<1>0. PICK r \in starts :
        \E h : Entry <= r /\ bytecode[r + 1] = RET /\ TypedTo(bytecode, starts, r, h)
  BY DEF Gone
<1>1. PICK h : Returned(h, r) BY <1>0 DEF Returned
<1> DEFINE g == Heights
           n == Len(bytecode)
<1>2. /\ bytecode \in Seq(Byte) /\ r \in Nat /\ r < n /\ n \in Nat
      /\ \A x \in DOMAIN h : x \in Nat /\ h[x] \in Nat /\ 3 <= x /\ x <= r
      /\ 3 \in DOMAIN h /\ h[3] = 0 /\ bytecode[r + 1] = RET
      /\ \A o \in DOMAIN h : o < r => Typed(bytecode, h, o)
  <2>1. DOMAIN h = {o \in starts : 3 <= o /\ o <= r} BY <1>1, ReturnedIs
  <2> QED BY <1>0, <1>1, <2>1, ReturnedIs
<1>3. /\ DOMAIN g = {o - 3 : o \in DOMAIN h}
      /\ \A o \in DOMAIN h : o - 3 \in DOMAIN g /\ g[o - 3] = h[o]
  BY <1>1, HeightsAre
<1> HIDE DEF g
<1>4. /\ Len(Body) = n - 3
      /\ \A i \in 1 .. n - 3 : Body[i] = bytecode[i + 3]
  <2>1. Body = SubSeq(bytecode, 4, n) BY DEF Body, Entry
  <2>2. 3 < n BY <1>2
  <2>3. /\ Len(SubSeq(bytecode, 4, n)) = n - 3
        /\ \A i \in 1 .. n - 3 : SubSeq(bytecode, 4, n)[i] = bytecode[4 + i - 1]
    BY <1>2, <2>2, SubSeqProperties
  <2>4. \A i \in 1 .. n - 3 : 4 + i - 1 = i + 3 BY <1>2
  <2> QED BY <2>1, <2>3, <2>4
<1> HIDE DEF n
<1>5. ASSUME NEW o \in DOMAIN h PROVE TypedInstruction(Body, g, o - 3)
  <2>1. o \in Nat /\ 3 <= o /\ o <= r BY <1>2
  <2>2. CASE o = r
    <3>1. Body[(o - 3) + 1] = bytecode[o + 1]
      <4>1. (o - 3) + 1 \in 1 .. n - 3 /\ ((o - 3) + 1) + 3 = o + 1 BY <1>2, <2>1
      <4> QED BY <1>4, <4>1
    <3> QED BY <1>2, <2>2, <3>1 DEF TypedInstruction
  <2>3. CASE o # r
    <3>1. o < r BY <1>2, <2>1, <2>3
    <3>2. Typed(bytecode, h, o) BY <1>2, <3>1
    <3> DEFINE p == o - 3
    <3>3. p \in Nat BY <2>1
    <3>4. \A x \in DOMAIN h : x + (p - o) \in DOMAIN g /\ g[x + (p - o)] = h[x]
      <4>1. \A x \in DOMAIN h : x + (p - o) = x - 3 BY <1>2, <2>1
      <4> QED BY <1>3, <4>1
    <3>5. \A k \in 1 .. 3 : o + k \in DOMAIN h =>
            \A j \in 1 .. k : Body[p + j] = bytecode[o + j]
      <4> TAKE k \in 1 .. 3
      <4> HAVE o + k \in DOMAIN h
      <4> TAKE j \in 1 .. k
      <4>1. o + k <= r BY <1>2
      <4>2. p + j \in 1 .. n - 3 /\ (p + j) + 3 = o + j BY ONLY SMTT(30), <1>2, <2>1, <4>1
      <4> QED BY <1>4, <4>2
    <3>6. \A x \in DOMAIN h : x \in Nat /\ x <= Len(bytecode) /\ h[x] \in Nat
      BY <1>2 DEF n
    <3>7. bytecode \in Seq(Byte) /\ o \in DOMAIN h BY <1>2
    <3> HIDE DEF p
    <3>8. Typed(Body, g, p) BY ONLY <3>2, <3>3, <3>4, <3>5, <3>6, <3>7, TypedAlike
    <3> QED BY <3>8 DEF Typed, p
  <2> QED BY <2>2, <2>3
<1>6. DOMAIN g \subseteq 0 .. Len(Body) - 1
  <2>1. \A o \in DOMAIN h : o - 3 \in 0 .. (n - 3) - 1 BY <1>2
  <2> QED BY <1>3, <1>4, <2>1
<1>7. \A o \in DOMAIN g : g[o] \in Nat BY <1>2, <1>3
<1>8. 0 \in DOMAIN g /\ g[0] = 0
  <2>1. 3 - 3 = 0 OBVIOUS
  <2> QED BY <1>2, <1>3, <2>1
<1>9. \A o \in DOMAIN g : TypedInstruction(Body, g, o) BY <1>3, <1>5
<1> QED BY <1>6, <1>7, <1>8, <1>9 DEF WellTyped, g

-----------------------------------------------------------------------------
(* The theorem.                                                            *)

\* For every tree of the kind the generator has code for, whatever its size: when
\* generateCode is done and has reported nothing, each instruction behind the JMP
\* finds its operands on the stack, no slot above it is read, and each JLT leads
\* back to an instruction of the program with the stack as high as it was.
THEOREM CompiledDiscipline == CSpec => []StackDiscipline
<1>1. CInit => DInv BY ConstructedDInv
<1>2. DInv /\ [CNext]_allVars => DInv' BY DInvNext
<1>3. DInv => StackDiscipline BY GoneWellTyped DEF DInv, StackDiscipline, Compiles
<1> QED BY <1>1, <1>2, <1>3, PTL DEF CSpec
=============================================================================
