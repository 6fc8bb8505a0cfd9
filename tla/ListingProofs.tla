---------------------------- MODULE ListingProofs ----------------------------
(***************************************************************************)
(* Proofs about the disassembler and its clients: for every tree and every *)
(* program, what a listing says of the bytes it lists.                     *)
(***************************************************************************)
EXTENDS Listing, CodeGeneratorProofs

-----------------------------------------------------------------------------
(* The invariant.                                                          *)

\* How many bytes are read for a line at o.
Count(o) ==
  1 + Lister!OperandCount(program[o + 1],
        IF o + 1 < Len(program) THEN program[o + 2] ELSE Lister!Nothing)

\* How many of them it shows.
ShownBytes(o) == IF program[o + 1] = CMP THEN 1 ELSE Count(o)

\* The line at o holds an opcode and, for a CMP, nothing of what is read behind
\* it; the next line, if it is not the next to be made, is behind all of that.
LineOK(o) ==
  /\ o \in Nat /\ o + Count(o) <= Len(program)
  /\ o + Count(o) \in DOMAIN listing \cup {programCount}
  /\ Len(listing[o]) = ShownBytes(o)
  /\ listing[o] = SubSeq(program, o + 1, o + ShownBytes(o))

\* The next byte to list is the first of an instruction that was meant, or an
\* operand byte of a JMP that was met, or there is none.
Expected(pos) ==
  \/ pos \in starts \cup {Len(program)}
  \/ \E o \in starts : program[o + 1] = JMP /\ pos \in {o + 1, o + 2}

Met == {o \in starts : o < programCount}
MetJumps == {o \in Met : program[o + 1] = JMP}

\* Every instruction met has its line, and every line is of one, or of an
\* operand byte of a JMP met.
Lines ==
  /\ programCount \in Nat /\ Expected(programCount)
  /\ Met \subseteq DOMAIN listing
  /\ \A q \in DOMAIN listing :
       /\ q \in Nat /\ q < programCount
       /\ LineOK(q)
       /\ q \in Met \/ {q - 1, q - 2} \cap MetJumps # {}

LInv ==
  /\ GInv
  /\ program \in Seq(Byte)
  /\ programCount \in Nat
  /\ program = <<>> => listing = <<>> /\ outcome = "idle"
  /\ outcome = "idle" => programCount = 0
  /\ \A o \in DOMAIN listing : listing[o] = <<>> \/ LineOK(o)
  /\ OfGenerated => program = bytecode /\ Lines

-----------------------------------------------------------------------------
(* The tables of the disassembler beside those of the machine.             *)

LEMMA ListerIsa ==
  /\ \A op, first :
       Lister!OperandCount(op, first) =
         CASE op \in {JLT, PSH_LIT, INC, DEC, PEK_OFF, MOV} -> 2
           [] op \in {POP_REG, PEK_REG} -> 1
           [] op = CMP -> IF first = sp THEN 1 ELSE 2
           [] OTHER -> 0
BY DEF Lister!OperandCount, Lister!JLT, Lister!PSH_LIT, Lister!INC, Lister!DEC,
       Lister!PEK_OFF, Lister!MOV, Lister!POP_REG, Lister!PEK_REG, Lister!CMP,
       Lister!sp, JLT, PSH_LIT, INC, DEC, PEK_OFF, MOV, POP_REG, PEK_REG, CMP, sp

LEMMA OperandCounts ==
  ASSUME NEW op, NEW first
  PROVE  /\ Lister!OperandCount(op, first) \in 0 .. 2
         /\ op \in {JMP, 0, 1} => Lister!OperandCount(op, first) = 0
BY ListerIsa DEF JLT, PSH_LIT, INC, DEC, PEK_OFF, MOV, POP_REG, PEK_REG, CMP, JMP

\* What is read behind an opcode is what the machine's handler consumes.
LEMMA SameCount ==
  ASSUME NEW c, NEW o \in Nat, NEW first,
         c[o + 1] \in Handled \cup Emitted, c[o + 1] \notin {PSH_REG, JMP},
         c[o + 1] \in {INC, DEC, CMP} => first = sp /\ c[o + 2] = sp
  PROVE  1 + Lister!OperandCount(c[o + 1], first) = LengthAt(c, o)
<1> DEFINE op == c[o + 1]
<1>1. CASE op \in {JLT, PSH_LIT, PEK_OFF, MOV}
  BY <1>1, ListerIsa
     DEF LengthAt, JLT, PSH_LIT, INC, DEC, PEK_OFF, MOV, POP_REG, PEK_REG, CMP
<1>2. CASE op \in {INC, DEC}
  BY <1>2, ListerIsa
     DEF LengthAt, JLT, PSH_LIT, INC, DEC, PEK_OFF, MOV, POP_REG, PEK_REG, CMP, JMP,
         PSH_REG
<1>3. CASE op \in {POP_REG, PEK_REG, CMP}
  BY <1>3, ListerIsa
     DEF LengthAt, JLT, PSH_LIT, INC, DEC, PEK_OFF, MOV, POP_REG, PEK_REG, CMP, JMP,
         PSH_REG
<1>4. CASE op \in {ADD, SUB, MUL, DIV, PSH, JNZ, JEQ, JGT, RET, HALT}
  BY <1>4, ListerIsa
     DEF LengthAt, JLT, PSH_LIT, INC, DEC, PEK_OFF, MOV, POP_REG, PEK_REG, CMP, JMP,
         PSH_REG, ADD, SUB, MUL, DIV, PSH, JNZ, JEQ, JGT, RET, HALT
<1>5. op \in {JLT, PSH_LIT, PEK_OFF, MOV, INC, DEC, POP_REG, PEK_REG, CMP, ADD, SUB,
              MUL, DIV, PSH, JNZ, JEQ, JGT, RET, HALT}
  BY DEF Handled, Emitted, Binary
<1> QED BY <1>1, <1>2, <1>3, <1>4, <1>5

-----------------------------------------------------------------------------
(* A turn of the disassembler.                                             *)

LEMMA TurnLine ==
  ASSUME LInv, Lister!disassembleInstruction
  PROVE  LET o == programCount
             n == Count(o)
             k == ShownBytes(o)
             line == <<Lister!Peek(0)>> \o Lister!Shown
         IN  /\ o \in Nat /\ n \in 1 .. 3 /\ o < Len(program)
             /\ o + n <= Len(program)
             /\ line = SubSeq(program, o + 1, o + k) /\ Len(line) = k
             /\ Lister!Lists(o, line)
             /\ programCount' = o + n
             /\ UNCHANGED <<program, outcome>> /\ outcome = "listing"
<1> DEFINE o == programCount
           l == Len(program)
           m == Lister!OperandCount(Lister!Peek(0), Lister!Peek(1))
           read == [k \in 1 .. m |-> Lister!Peek(k)]
           s == IF Lister!Peek(0) = CMP THEN 0 ELSE m
           ops == [k \in 1 .. s |-> Lister!Peek(k)]
           line == <<Lister!Peek(0)>> \o ops
           sub == SubSeq(program, o + 1, o + (1 + s))
<1>1. /\ outcome = "listing" /\ o < l /\ o \in Nat /\ l \in Nat
      /\ program \in Seq(Byte)
      /\ ~Lister!CutOff /\ Lister!Operands = read
      /\ Lister!Lists(o, <<Lister!Peek(0)>> \o Lister!Shown)
      /\ programCount' = o + 1 + Len(Lister!Operands)
      /\ UNCHANGED <<program, outcome>>
  BY LenProperties
     DEF LInv, Lister!disassembleInstruction, Lister!Reads, Lister!Operands
<1>2. m \in 0 .. 2 BY OperandCounts
<1>3. \A k \in 0 .. 2 : o + k < l => Lister!Peek(k) = program[o + k + 1]
  BY DEF Lister!Peek
<1>4. \A k \in 1 .. m : o + k < l /\ Lister!Peek(k) = program[o + k + 1]
  <2> SUFFICES ASSUME NEW k \in 1 .. m PROVE o + k < l BY <1>2, <1>3
  <2>1. k \in DOMAIN Lister!Operands /\ Lister!Operands[k] = Lister!Peek(k)
    <3> HIDE DEF m
    <3> QED BY <1>1
  <2>2. Lister!Peek(k) # Lister!Nothing BY <1>1, <2>1 DEF Lister!CutOff
  <2> QED BY <2>2 DEF Lister!Peek
<1>4a. Lister!Shown = ops
  <2>1. Lister!Shown = IF Lister!Peek(0) = CMP THEN <<>> ELSE Lister!Operands
    BY DEF Lister!Shown, Lister!CMP, CMP
  <2>2. CASE Lister!Peek(0) = CMP
    <3>1. \A f : <<>> = [k \in 1 .. 0 |-> Lister!Peek(k)] OBVIOUS
    <3>2. Lister!Shown = <<>> BY <2>1, <2>2
    <3>3. s = 0 BY <2>2
    <3> HIDE DEF s
    <3> QED BY <3>1, <3>2, <3>3
  <2>3. CASE Lister!Peek(0) # CMP
    <3>1. s = m /\ Lister!Shown = read BY <1>1, <2>1, <2>3
    <3> HIDE DEF s, m
    <3> QED BY <3>1
  <2> QED BY <2>2, <2>3
<1>5. Lister!Peek(0) = program[o + 1]
  <2>1. o + 0 < l BY <1>1
  <2>2. Lister!Peek(0) = program[o + 0 + 1] BY <2>1, <1>3
  <2> QED BY <1>1, <2>2
<1>6. Lister!Peek(1) = IF o + 1 < l THEN program[o + 2] ELSE Lister!Nothing
  BY <1>1 DEF Lister!Peek
<1>7. Count(o) = 1 + m BY <1>5, <1>6 DEF Count
<1> HIDE DEF m
<1>8. o + (1 + m) <= l
  <2>1. CASE m = 0
    <3> HIDE DEF l, o
    <3> QED BY <1>1, <2>1
  <2>2. CASE m # 0
    <3>1. m \in 1 .. m BY <1>2, <2>2
    <3>2. o + m < l BY <1>4, <3>1
    <3> HIDE DEF l, o
    <3> QED BY <1>1, <1>2, <3>2
  <2> QED BY <2>1, <2>2
<1>8a. s \in 0 .. m BY <1>2
<1>8b. ShownBytes(o) = 1 + s BY <1>5, <1>7 DEF ShownBytes
<1> HIDE DEF s
<1>9. /\ ops \in Seq(Byte) /\ Len(ops) = s
      /\ \A k \in 1 .. s : ops[k] = program[o + k + 1]
  <2>0. \A k \in 1 .. s : k \in 1 .. m BY <1>2, <1>8a
  <2>1. \A k \in 1 .. s : ops[k] = program[o + k + 1]
    <3> HIDE DEF m, o
    <3> QED BY <1>4, <2>0
  <2>2. \A k \in 1 .. s : o + k + 1 \in 1 .. l
    <3> HIDE DEF l, o
    <3> QED BY <1>1, <1>8a, <1>4
  <2>3. \A k \in 1 .. s : ops[k] \in Byte BY <1>1, <2>1, <2>2, ElementOfSeq
  <2>4. s \in Nat BY <1>8a
  <2> QED BY <2>1, <2>3, <2>4
<1>10. <<Lister!Peek(0)>> \in Seq(Byte) /\ Len(<<Lister!Peek(0)>>) = 1
  <2>1. program[o + 1] \in Byte
    <3>1. o + 1 \in 1 .. l
      <4> HIDE DEF l, o
      <4> QED BY <1>1
    <3> QED BY <1>1, <3>1, ElementOfSeq
  <2> QED BY <1>5, <2>1
<1> DEFINE head == <<Lister!Peek(0)>>
<1>11. head[1] = program[o + 1] BY <1>5
<1> HIDE DEF ops, head
<1>12. /\ line \in Seq(Byte) /\ Len(line) = 1 + s
       /\ \A k \in 1 .. 1 + s : line[k] = program[o + k]
  <2>1. /\ head \o ops \in Seq(Byte) /\ Len(head \o ops) = 1 + s
        /\ \A k \in 1 .. 1 + s :
             (head \o ops)[k] = IF k <= 1 THEN head[k] ELSE ops[k - 1]
    BY <1>9, <1>10, ConcatProperties DEF head
  <2>2. \A k \in 1 .. 1 + s : (head \o ops)[k] = program[o + k]
    <3> SUFFICES ASSUME NEW k \in 1 .. 1 + s
                 PROVE  (head \o ops)[k] = program[o + k]
      OBVIOUS
    <3>1. CASE k = 1 BY <1>8a, <1>11, <2>1, <3>1
    <3>2. CASE k # 1
      <4>1. k - 1 \in 1 .. s /\ ~(k <= 1) BY <1>8a, <3>2
      <4>2. ops[k - 1] = program[o + (k - 1) + 1] BY <1>9, <4>1
      <4>3. o + (k - 1) + 1 = o + k
        <5> HIDE DEF o
        <5> QED BY <1>1, <1>8a
      <4> QED BY <2>1, <4>1, <4>2, <4>3
    <3> QED BY <3>1, <3>2
  <2> QED BY <2>1, <2>2 DEF head
<1>13. /\ sub \in Seq(Byte) /\ Len(sub) = 1 + s
       /\ \A k \in 1 .. 1 + s : sub[k] = program[o + k]
  <2>1. /\ o + 1 \in Int /\ o + (1 + s) \in Int
        /\ \A k \in o + 1 .. o + (1 + s) : k \in 1 .. l
    <3> HIDE DEF l, o
    <3> QED BY <1>1, <1>2, <1>8a, <1>8
  <2>2. \A k \in o + 1 .. o + (1 + s) : program[k] \in Byte
    <3> HIDE DEF o
    <3> QED BY <1>1, <2>1, ElementOfSeq
  <2> DEFINE x == o + 1
             y == o + (1 + s)
  <2>3. x \in Int /\ y \in Int /\ \A k \in x .. y : program[k] \in Byte
    BY <2>1, <2>2
  <2>4. sub = SubSeq(program, x, y) OBVIOUS
  <2> HIDE DEF x, y, sub
  <2>5. /\ SubSeq(program, x, y) \in Seq(Byte)
        /\ Len(SubSeq(program, x, y)) = IF x <= y THEN y - x + 1 ELSE 0
        /\ \A k \in 1 .. y - x + 1 : SubSeq(program, x, y)[k] = program[x + k - 1]
    BY <2>3, SubSeqProperties
  <2> HIDE DEF o
  <2>6. y - x + 1 = 1 + s /\ x <= y BY <1>1, <1>8a DEF x, y
  <2>7. \A k \in 1 .. 1 + s : x + k - 1 = o + k BY <1>1, <1>8a DEF x
  <2> QED BY <2>4, <2>5, <2>6, <2>7
<1>14. line = sub
  <2> HIDE DEF line, sub
  <2>1. Len(line) = Len(sub) /\ \A k \in 1 .. Len(line) : line[k] = sub[k]
    BY <1>12, <1>13
  <2> QED BY <1>12, <1>13, <2>1, SeqEqual
<1>15. programCount' = o + Count(o) /\ Count(o) \in 1 .. 3
  <2>1. Len(read) = m BY <1>2
  <2> HIDE DEF o, read
  <2> QED BY <1>1, <1>2, <1>7, <2>1
<1> HIDE DEF line, sub, o, l
<1> QED BY <1>1, <1>7, <1>8, <1>4a, <1>12, <1>14, <1>15, <1>8b DEF line, sub, o, l

-----------------------------------------------------------------------------
(* What a line says of the bytes it lists.                                 *)

LEMMA LineBytesOK ==
  ASSUME program \in Seq(Byte), NEW o, LineOK(o)
  PROVE  /\ Count(o) \in 1 .. 3 /\ o \in Nat
         /\ listing[o] = SubSeq(program, o + 1, o + Len(listing[o]))
         /\ Count(o) >= 2 => o + 1 < Len(program)
<1> DEFINE n == Count(o)
           l == Len(program)
<1>1. /\ o \in Nat /\ o + n <= l /\ l \in Nat
      /\ listing[o] = SubSeq(program, o + 1, o + Len(listing[o]))
  BY LenProperties DEF LineOK
<1>2. n \in 1 .. 3 BY OperandCounts DEF Count
<1> HIDE DEF n, l
<1>3. n >= 2 => o + 1 < l BY <1>1, <1>2
<1> QED BY <1>1, <1>2, <1>3 DEF n, l

\* The line of an instruction that was meant, but for a JMP, has its length.
LEMMA MeantCount ==
  ASSUME NEW o \in Nat, Meant(program, o), program[o + 1] # JMP,
         Len(program) \in Nat
  PROVE  Count(o) = LengthAt(program, o)
<1> DEFINE op == program[o + 1]
           l == Len(program)
           first == IF o + 1 < l THEN program[o + 2] ELSE Lister!Nothing
<1>1. /\ op \in Emitted /\ o + LengthAt(program, o) <= l
      /\ op \in {INC, DEC, CMP} => program[o + 2] = sp
  BY DEF Meant
<1>2. op # PSH_REG
  BY SMTT(30), <1>1 DEF Emitted, Binary, PSH_LIT, MOV, PEK_OFF, JLT, JMP, INC, DEC, POP_REG,
              CMP, RET, HALT, ADD, SUB, MUL, DIV, PSH_REG
<1>3. op \in {INC, DEC, CMP} => first = sp
  <2>1. /\ LengthAt(program, o) \in 1 .. 3
        /\ op \in {INC, DEC, CMP} => LengthAt(program, o) \in {2, 3}
    BY Lengths
  <2> DEFINE k == LengthAt(program, o)
  <2> HIDE DEF l, k
  <2>2. k \in {2, 3} => o + 1 < l BY <1>1 DEF k, l
  <2> QED BY <1>1, <2>1, <2>2 DEF k
<1>4. Count(o) = 1 + Lister!OperandCount(op, first) BY DEF Count
<1> QED BY <1>1, <1>2, <1>3, <1>4, SameCount

LEMMA SameOperandsOK ==
  ASSUME LInv
  PROVE  SameOperands
<1> SUFFICES ASSUME NEW o \in DOMAIN listing, listing[o] # <<>>
             PROVE  /\ listing[o] = LineBytes(o)
                    /\ program[o + 1] \in Handled /\ ~ReadOtherwise(o) =>
                         /\ o + LengthAt(program, o)
                              \in DOMAIN listing \cup {programCount}
                         /\ ShowsAll(o)
  BY DEF SameOperands
<1>1. LineOK(o) /\ program \in Seq(Byte) BY DEF LInv
<1>2. /\ Count(o) \in 1 .. 3 /\ o \in Nat /\ listing[o] = LineBytes(o)
      /\ Count(o) >= 2 => o + 1 < Len(program)
      /\ Len(listing[o]) = ShownBytes(o)
      /\ o + Count(o) \in DOMAIN listing \cup {programCount}
  BY <1>1, LineBytesOK DEF LineBytes, LineOK
<1> DEFINE op == program[o + 1]
           first == IF o + 1 < Len(program) THEN program[o + 2] ELSE Lister!Nothing
<1>3. Count(o) = 1 + Lister!OperandCount(op, first) BY DEF Count
<1>4. ASSUME op \in Handled, ~ReadOtherwise(o)
      PROVE  Count(o) = LengthAt(program, o)
  <2>1. op # JMP /\ op # PSH_REG /\ (op \in {INC, DEC, CMP} => program[o + 2] = sp)
    BY <1>4 DEF Handled, MOV, ADD, SUB, MUL, DIV, INC, DEC, PSH, PSH_LIT, PSH_REG,
                POP_REG, PEK_REG, PEK_OFF, JNZ, JEQ, JGT, JLT, CMP, RET, JMP,
                ReadOtherwise
  <2>2. op \in {INC, DEC, CMP} => first = sp
    <3>1. op \in {INC, DEC, CMP} => Lister!OperandCount(op, first) \in {1, 2}
      BY ListerIsa
         DEF JLT, PSH_LIT, INC, DEC, PEK_OFF, MOV, POP_REG, PEK_REG, CMP
    <3>2. op \in {INC, DEC, CMP} => Count(o) >= 2
      <4> HIDE DEF op, first
      <4> QED BY <1>3, <3>1
    <3> QED BY <1>2, <2>1, <3>2
  <2>3. 1 + Lister!OperandCount(op, first) = LengthAt(program, o)
    BY <1>2, <1>4, <2>1, <2>2, SameCount
  <2> QED BY <1>3, <2>3
<1>5. ASSUME op \in Handled, ~ReadOtherwise(o)
      PROVE  /\ o + LengthAt(program, o) \in DOMAIN listing \cup {programCount}
             /\ ShowsAll(o)
  BY <1>2, <1>4, <1>5 DEF ShowsAll, ShownBytes
<1> QED BY <1>2, <1>5

LEMMA ListedOK ==
  ASSUME LInv
  PROVE  ListsWhatWasMeant
<1> SUFFICES ASSUME OfGenerated
             PROVE  /\ Met \subseteq DOMAIN listing
                    /\ \A o \in Met \ MetJumps : ShowsAll(o)
                    /\ \A q \in DOMAIN listing \ Met :
                         {q - 1, q - 2} \cap MetJumps # {}
  BY DEF ListsWhatWasMeant, Met, MetJumps
<1>1. program = bytecode /\ Lines /\ CodeOK(bytecode, starts) BY DEF LInv, GInv
<1>2. ASSUME NEW o \in Met \ MetJumps
      PROVE  ShowsAll(o)
  <2>1. o \in starts /\ program[o + 1] # JMP /\ o \in DOMAIN listing
    BY <1>1 DEF Met, MetJumps, Lines
  <2>2. o \in Nat /\ Meant(program, o) /\ Len(program) \in Nat
    BY <1>1, <2>1, LenProperties DEF CodeOK
  <2>3. Len(listing[o]) = ShownBytes(o) BY <1>1, <2>1 DEF Lines, LineOK
  <2>4. Count(o) = LengthAt(program, o) BY <2>1, <2>2, MeantCount
  <2> QED BY <2>3, <2>4 DEF ShowsAll, ShownBytes
<1> QED BY <1>1, <1>2 DEF Lines

-----------------------------------------------------------------------------
(* Steps.                                                                  *)

LEMMA GInvFrame ==
  ASSUME GInv, UNCHANGED vars
  PROVE  GInv' /\ UNCHANGED <<bytecode, starts, status>>
<1>1. GInv' BY StutterStep
<1> QED BY <1>1 DEF vars, output

\* A step that leaves the program, the next byte and the listing.
LEMMA ListerFrame ==
  ASSUME LInv, UNCHANGED <<vars, program, programCount, listing>>,
         program = <<>> => outcome' = "idle",
         outcome' = "idle" => programCount = 0
  PROVE  LInv'
<1>1. GInv' /\ UNCHANGED <<bytecode, starts, status>> BY GInvFrame DEF LInv
<1>2. Lines => Lines'
  BY <1>1 DEF Lines, Expected, Met, MetJumps, LineOK, Count, ShownBytes
<1>3. \A o : LineOK(o) => LineOK(o)' BY DEF LineOK, Count, ShownBytes
<1>4. OfGenerated' <=> OfGenerated BY <1>1 DEF OfGenerated
<1> QED BY <1>1, <1>2, <1>3, <1>4 DEF LInv

\* The instruction the next byte starts, if it is one, is all that is met.
LEMMA Meets ==
  ASSUME LInv, OfGenerated, programCount < Len(program)
  PROVE  LET o == programCount
             n == Count(o)
             met == {p \in starts : p < o + n}
         IN  /\ o + n \in starts \cup {Len(program)} \/
                  \E s \in starts : program[s + 1] = JMP /\ o + n \in {s + 1, s + 2}
             /\ met \subseteq Met \cup {o}
             /\ o \in starts \/ {o - 1, o - 2} \cap MetJumps # {}
<1> DEFINE o == programCount
           n == Count(o)
           l == Len(program)
<1>1. /\ program = bytecode /\ Lines /\ CodeOK(program, starts)
      /\ o \in Nat /\ l \in Nat /\ o < l
  BY LenProperties DEF LInv, GInv, CodeOK
<1>2. Expected(o) BY <1>1 DEF Lines
<1>3. \A s \in starts :
        /\ s \in Nat /\ Meant(program, s)
        /\ s + LengthAt(program, s) \in starts \cup {l}
        /\ \A p \in starts : p \in Nat /\ (p <= s \/ p >= s + LengthAt(program, s))
  BY <1>1 DEF CodeOK
<1>4. \A s \in starts : program[s + 1] = JMP =>
        /\ LengthAt(program, s) = 3
        /\ program[s + 2] = 0 /\ program[s + 3] \in {0, 1}
  <2> SUFFICES ASSUME NEW s \in starts, program[s + 1] = JMP
               PROVE  /\ LengthAt(program, s) = 3
                      /\ program[s + 2] = 0 /\ program[s + 3] \in {0, 1}
    OBVIOUS
  <2> QED BY <1>3, Lengths DEF Meant
<1>5. program[o + 1] \in {JMP, 0, 1} => n = 1
  <2> DEFINE first == IF o + 1 < Len(program) THEN program[o + 2] ELSE Lister!Nothing
  <2>1. n = 1 + Lister!OperandCount(program[o + 1], first) BY DEF Count
  <2> HIDE DEF n, first
  <2> QED BY <2>1, OperandCounts
<1>6. CASE o \in starts /\ program[o + 1] # JMP
  <2>1. n = LengthAt(program, o) BY <1>1, <1>3, <1>6, MeantCount
  <2> HIDE DEF n
  <2>2. o + n \in starts \cup {l} BY <1>3, <1>6, <2>1
  <2>3. \A p \in starts : p < o + n => p < o \/ p = o
    <3>1. \A p \in starts : p \in Nat /\ (p <= o \/ p >= o + n) BY <1>3, <1>6, <2>1
    <3>2. n \in 1 .. 3 BY <2>1, Lengths
    <3> HIDE DEF o
    <3> QED BY <1>1, <3>1, <3>2
  <2> QED BY <1>6, <2>2, <2>3 DEF n, Met
<1>7. CASE o \in starts /\ program[o + 1] = JMP
  <2>1. n = 1 /\ LengthAt(program, o) = 3 BY <1>4, <1>5, <1>7
  <2> HIDE DEF n
  <2>2. \A p \in starts : p < o + n => p < o \/ p = o
    <3>1. \A p \in starts : p \in Nat /\ (p <= o \/ p >= o + 3) BY <1>3, <1>7, <2>1
    <3> HIDE DEF o
    <3> QED BY <1>1, <2>1, <3>1
  <2>3. \E s \in starts : program[s + 1] = JMP /\ o + n \in {s + 1, s + 2}
    BY <1>7, <2>1
  <2> QED BY <1>7, <2>2, <2>3 DEF n, Met
<1>8. ASSUME NEW s \in starts, program[s + 1] = JMP, o \in {s + 1, s + 2}
      PROVE  /\ o + n \in starts \cup {l} \/ o + n = s + 2
             /\ {p \in starts : p < o + n} \subseteq Met
             /\ s \in MetJumps /\ s \in {o - 1, o - 2}
  <2>1. /\ s \in Nat /\ LengthAt(program, s) = 3 /\ s + 3 \in starts \cup {l}
        /\ \A p \in starts : p \in Nat /\ (p <= s \/ p >= s + 3)
        /\ program[s + 2] = 0 /\ program[s + 3] \in {0, 1}
    BY <1>3, <1>4, <1>8
  <2>2. n = 1
    <3>1. s + 1 + 1 = s + 2 /\ s + 2 + 1 = s + 3 BY <2>1
    <3>2. program[o + 1] \in {0, 1} BY <1>8, <2>1, <3>1
    <3> QED BY <1>5, <3>2
  <2> HIDE DEF n, o, l
  <2>3. o + n = s + 2 \/ o + n = s + 3 BY <1>8, <2>1, <2>2
  <2>4. \A p \in starts : p < o + n => p < o BY <1>1, <1>8, <2>1, <2>2
  <2>5. s < o /\ s \in {o - 1, o - 2} BY <1>8, <2>1
  <2> QED BY <1>8, <2>1, <2>3, <2>4, <2>5 DEF Met, MetJumps, o
<1>9. CASE \E s \in starts : program[s + 1] = JMP /\ o \in {s + 1, s + 2}
  <2>1. PICK s \in starts : program[s + 1] = JMP /\ o \in {s + 1, s + 2} BY <1>9
  <2>2. /\ o + n \in starts \cup {l} \/ o + n = s + 2
        /\ {p \in starts : p < o + n} \subseteq Met
        /\ s \in MetJumps /\ s \in {o - 1, o - 2}
    BY <1>8, <2>1
  <2> HIDE DEF n, o, l
  <2> QED BY <2>1, <2>2 DEF n, o, l
<1>10. o \in starts \/ \E s \in starts : program[s + 1] = JMP /\ o \in {s + 1, s + 2}
  <2>1. o # l
    <3> HIDE DEF o, l
    <3> QED BY <1>1
  <2> QED BY <1>2, <2>1 DEF Expected
<1> QED BY <1>6, <1>7, <1>9, <1>10

LEMMA TurnStep ==
  ASSUME LInv, Lister!disassembleInstruction, UNCHANGED vars
  PROVE  LInv'
<1> DEFINE o == programCount
           n == Count(o)
           k == ShownBytes(o)
           line == <<Lister!Peek(0)>> \o Lister!Shown
<1>1. /\ o \in Nat /\ n \in 1 .. 3 /\ o < Len(program)
      /\ o + n <= Len(program)
      /\ line = SubSeq(program, o + 1, o + k) /\ Len(line) = k
      /\ Lister!Lists(o, line)
      /\ programCount' = o + n
      /\ UNCHANGED <<program, outcome>> /\ outcome = "listing"
  BY TurnLine
<1>2. GInv' /\ UNCHANGED <<bytecode, starts, status>> BY GInvFrame DEF LInv
<1>3. program \in Seq(Byte) /\ program # <<>>
      /\ \A q \in DOMAIN listing : listing[q] = <<>> \/ LineOK(q)
  BY <1>1 DEF LInv
<1> HIDE DEF line, n, k
<1>4. /\ DOMAIN listing' = DOMAIN listing \cup {o}
      /\ \A q \in DOMAIN listing : listing'[q] = listing[q]
      /\ o \notin DOMAIN listing => listing'[o] = line
  BY <1>1 DEF Lister!Lists
<1>5. \A q \in DOMAIN listing : LineOK(q) => LineOK(q)'
  BY <1>1, <1>4 DEF LineOK, Count, ShownBytes
<1>6. ASSUME NEW q, q = o, o \notin DOMAIN listing
      PROVE  LineOK(q)'
  <2>1. Count(q)' = n /\ ShownBytes(q)' = k
    BY <1>1, <1>6 DEF Count, ShownBytes, n, k
  <2>2. /\ q \in Nat /\ q + n <= Len(program') /\ q + n = programCount'
        /\ Len(listing'[q]) = k
        /\ listing'[q] = SubSeq(program', q + 1, q + k)
    BY <1>1, <1>4, <1>6
  <2> QED BY <2>1, <2>2 DEF LineOK
<1>7. \A q \in DOMAIN listing' : listing'[q] = <<>> \/ LineOK(q)'
  BY <1>3, <1>4, <1>5, <1>6
<1>8. programCount' \in Nat
  <2> HIDE DEF o
  <2> QED BY <1>1
<1>9. ASSUME OfGenerated' PROVE program' = bytecode' /\ Lines'
  <2>1. OfGenerated /\ program = bytecode /\ Lines
    BY <1>1, <1>2, <1>9 DEF OfGenerated, LInv
  <2>2. /\ \/ o + n \in starts \cup {Len(program)}
           \/ \E s \in starts : program[s + 1] = JMP /\ o + n \in {s + 1, s + 2}
        /\ {p \in starts : p < o + n} \subseteq Met \cup {o}
        /\ o \in starts \/ {o - 1, o - 2} \cap MetJumps # {}
    BY <1>1, <2>1, Meets DEF n
  <2>3. Met' = {p \in starts : p < o + n} BY <1>1, <1>2 DEF Met
  <2>4. Met \subseteq Met' /\ MetJumps \subseteq MetJumps' /\ (o \in starts => o \in Met')
    <3>1. \A p \in starts : p \in Nat BY DEF LInv, GInv, CodeOK
    <3>2. \A p \in starts : p < o => p < o + n
      <4> HIDE DEF o
      <4> QED BY <1>1, <3>1
    <3>3. o < o + n
      <4> HIDE DEF o
      <4> QED BY <1>1
    <3>4. Met \subseteq Met' BY <2>3, <3>2 DEF Met
    <3>5. MetJumps \subseteq MetJumps' BY <1>1, <3>4 DEF MetJumps
    <3> QED BY <2>3, <3>3, <3>4, <3>5
  <2>5. Expected(programCount)' BY <1>1, <1>2, <2>2 DEF Expected
  <2>6. Met' \subseteq DOMAIN listing'
    BY <1>4, <2>1, <2>2, <2>3 DEF Lines
  <2>7. o \notin DOMAIN listing
    <3>1. \A q \in DOMAIN listing : q \in Nat /\ q < o BY <2>1 DEF Lines
    <3> HIDE DEF o
    <3> QED BY <1>1, <3>1
  <2>8. ASSUME NEW q \in DOMAIN listing'
        PROVE  /\ q \in Nat /\ q < programCount' /\ LineOK(q)'
               /\ q \in Met' \/ {q - 1, q - 2} \cap MetJumps' # {}
    <3>1. CASE q = o
      <4>1. LineOK(q)' BY <1>6, <2>7, <3>1
      <4>2. q \in Met' \/ {q - 1, q - 2} \cap MetJumps' # {}
        <5> HIDE DEF o
        <5> QED BY <2>2, <2>4, <3>1
      <4>3. q \in Nat /\ q < programCount'
        <5> HIDE DEF o
        <5> QED BY <1>1, <3>1
      <4> QED BY <4>1, <4>2, <4>3
    <3>2. CASE q \in DOMAIN listing
      <4>1. /\ q \in Nat /\ q < o /\ LineOK(q)
            /\ q \in Met \/ {q - 1, q - 2} \cap MetJumps # {}
        BY <2>1, <3>2 DEF Lines
      <4>2. LineOK(q)' BY <1>5, <3>2, <4>1
      <4>3. q < programCount'
        <5> HIDE DEF o
        <5> QED BY <1>1, <4>1
      <4> QED BY <2>4, <4>1, <4>2, <4>3
    <3> QED BY <1>4, <3>1, <3>2
  <2>9. Lines' BY <1>8, <2>5, <2>6, <2>8 DEF Lines
  <2> QED BY <1>1, <1>2, <2>1, <2>9
<1>10. program' \in Seq(Byte) /\ program' # <<>> /\ outcome' # "idle"
  BY <1>1, <1>3
<1> HIDE DEF o
<1> QED BY <1>2, <1>7, <1>8, <1>9, <1>10 DEF LInv

LEMMA NoTreeIsTree == IsTree(NoTree)
<1> DEFINE r == [type |-> "PROGRAM", body |-> <<>>]
<1>1. NoTree = <<r>> BY DEF NoTree
<1>2. r \in NodeOf(NoTree)
  <2>1. <<>> \in Seq(Ref(NoTree)) OBVIOUS
  <2> QED BY <2>1 DEF NodeOf
<1>3. r.type = "PROGRAM" OBVIOUS
<1> HIDE DEF r
<1>4. /\ <<r>> \in Seq(NodeOf(NoTree)) /\ Len(<<r>>) = 1 /\ <<r>>[1] = r
  BY <1>2
<1> QED BY <1>1, <1>3, <1>4 DEF IsTree

LEMMA LInitInv == LInit => LInv
<1> SUFFICES ASSUME LInit PROVE LInv OBVIOUS
<1>1. Constructed /\ IsTree(ast) /\ programCount = 0 /\ listing = <<>>
      /\ outcome = "idle"
  BY TreesAssumption, NoTreeIsTree DEF LInit, Lister!DInit
<1>2. program \in Seq(Byte)
  <2>1. <<>> \in Seq(Byte) OBVIOUS
  <2> QED BY <2>1, HandwrittenAssumption DEF LInit, Lister!DInit
<1>3. DOMAIN listing = {} BY <1>1
<1>4. ~OfGenerated BY <1>1 DEF OfGenerated, Constructed
<1> QED BY <1>1, <1>2, <1>3, <1>4, ConstructedGInv DEF LInv

LEMMA LNextInv ==
  ASSUME LInv, [LNext]_listingVars
  PROVE  LInv'
<1>1. CASE Generate
  <2>1. /\ program = <<>> /\ Next
        /\ UNCHANGED <<program, programCount, listing, outcome>>
    BY <1>1 DEF Generate, lister
  <2>2. GInv' BY <2>1, GInvNext DEF LInv
  <2>3. listing' = <<>> /\ ~OfGenerated' BY <2>1 DEF LInv, OfGenerated
  <2>4. DOMAIN listing' = {} BY <2>3
  <2> QED BY <2>1, <2>2, <2>3, <2>4 DEF LInv
<1>2. CASE DisassembleGenerated
  <2>1. /\ status = "generated" /\ program = <<>> /\ program' = bytecode
        /\ UNCHANGED <<vars, programCount, listing, outcome>>
    BY <1>2 DEF DisassembleGenerated
  <2>2. GInv' /\ UNCHANGED <<bytecode, starts, status>>
    BY <2>1, GInvFrame DEF LInv
  <2>3. /\ listing' = <<>> /\ outcome' = "idle" /\ programCount' = 0
        /\ DOMAIN listing' = {}
    BY <2>1 DEF LInv
  <2>4. CodeOK(bytecode, starts) /\ 0 \in starts
    BY <2>1 DEF LInv, GInv, Begun
  <2>5. program' = bytecode' /\ bytecode \in Seq(Byte) BY <2>1, <2>2, <2>4 DEF CodeOK
  <2>6. Met' = {} BY <2>2, <2>3, <2>4 DEF Met, CodeOK
  <2>7. Lines' BY <2>2, <2>3, <2>4, <2>6 DEF Lines, Expected
  <2> QED BY <2>1, <2>2, <2>3, <2>5, <2>7 DEF LInv
<1>3. CASE LookUp
  <2>1. PICK o \in 0 .. Len(program) - 1 : Lister!disassembleInstructionAt(o)
    BY <1>3 DEF LookUp
  <2>2. /\ program # <<>> /\ ~OfGenerated
        /\ UNCHANGED <<vars, program, programCount, outcome>>
        /\ Lister!Lists(o, <<>>)
    BY <1>3, <2>1 DEF LookUp, Lister!disassembleInstructionAt
  <2>3. GInv' /\ UNCHANGED <<bytecode, starts, status>>
    BY <2>2, GInvFrame DEF LInv
  <2>4. \A q \in DOMAIN listing' :
          \/ listing'[q] = <<>>
          \/ q \in DOMAIN listing /\ listing'[q] = listing[q]
    BY <2>2 DEF Lister!Lists
  <2>7. DOMAIN listing \subseteq DOMAIN listing' BY <2>2 DEF Lister!Lists
  <2>5. \A q \in DOMAIN listing' : listing'[q] = <<>> \/ LineOK(q)'
    BY <2>2, <2>4, <2>7 DEF LInv, LineOK, Count, ShownBytes
  <2>6. ~OfGenerated' BY <2>2, <2>3 DEF OfGenerated
  <2> QED BY <2>2, <2>3, <2>5, <2>6 DEF LInv
<1>4. CASE Disassemble
  <2>1. program # <<>> /\ Lister!DNext /\ UNCHANGED vars
    BY <1>4 DEF Disassemble
  <2>2. CASE Lister!disassemble
    <3>1. programCount = 0 BY <2>2 DEF Lister!disassemble, LInv
    <3> QED BY <2>1, <2>2, <3>1, ListerFrame DEF Lister!disassemble
  <2>3. CASE Lister!disassembleInstruction BY <2>1, <2>3, TurnStep
  <2>4. CASE Lister!outOfRange \/ Lister!overrun \/ Lister!listed
    BY <2>1, <2>4, ListerFrame
       DEF Lister!outOfRange, Lister!overrun, Lister!listed
  <2> QED BY <2>1, <2>2, <2>3, <2>4 DEF Lister!DNext
<1>5. CASE UNCHANGED listingVars
  BY <1>5, ListerFrame DEF listingVars, lister, LInv
<1> QED BY <1>1, <1>2, <1>3, <1>4, <1>5 DEF LNext

-----------------------------------------------------------------------------
(* The theorems.                                                           *)

\* For every tree and every program of a client: what the generator keeps it
\* keeps while its code is listed, behind each line is as much as the
\* disassembler's table says, and the cursor is where an instruction was meant,
\* or within the operand of a JMP.
THEOREM ListingInvariant == LSpec => []LInv
<1>1. LInv /\ [LNext]_listingVars => LInv' BY LNextInv
<1> QED BY <1>1, LInitInv, PTL DEF LSpec

\* Whatever program a client lists, and in whatever order it looks lines of it
\* up: behind an opcode that has a handler the disassembler goes on where the
\* handler does, but for the forms ReadOtherwise names, and the line shows the
\* bytes the handler consumes, but that of a CMP, which shows none.
THEOREM ListingSameOperands == LSpec => []SameOperands
<1>1. LInv => SameOperands BY SameOperandsOK
<1> QED BY <1>1, ListingInvariant, PTL

\* For every tree, the listing of what was generated for it keeps in step with
\* the instructions that were meant, from the first byte to where the
\* disassembler stops: each has its line, with its operands unless it is a CMP,
\* and the operand of a JMP, for which the disassembler's table has no count,
\* puts no more than its own two bytes between them.
THEOREM ListingOfGenerated == LSpec => []ListsWhatWasMeant
<1>1. LInv => ListsWhatWasMeant BY ListedOK
<1> QED BY <1>1, ListingInvariant, PTL

\* Listing changes nothing of what was generated: the generator's properties
\* hold of a generator with a disassembler, and of one that is given no tree.
THEOREM ListingBoundaries == LSpec => [](TypeOK /\ Boundaries)
<1>1. LInv => TypeOK /\ Boundaries BY GInvTypes DEF LInv
<1> QED BY <1>1, ListingInvariant, PTL

=============================================================================
