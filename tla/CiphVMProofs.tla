---------------------------- MODULE CiphVMProofs ----------------------------
(***************************************************************************)
(* Proofs about CiphVM, for every memory size, every set of programs and   *)
(* every typing of them.                                                   *)
(***************************************************************************)
EXTENDS CiphVM, TLAPS

Memory == [Addr -> Byte]

-----------------------------------------------------------------------------
(* Words.                                                                  *)

\* The two bytes of a word are bytes, and make the word.
LEMMA WordBytes ==
  ASSUME NEW w \in Word
  PROVE  /\ w % 256 \in Byte /\ w \div 256 \in Byte
         /\ (w % 256) + (256 * (w \div 256)) = w
BY DEF Word, Byte

\* A cast to uint16_t yields a word, and leaves a word alone.
LEMMA U16Word ==
  ASSUME NEW n \in Int
  PROVE  U16(n) \in Word /\ (n \in Word => U16(n) = n)
BY DEF U16, Word

\* A cast of a word to int16_t.
LEMMA I16Int ==
  ASSUME NEW w \in Word
  PROVE  I16(w) \in Int16
BY DEF I16, Word, Int16

LEMMA WordAtWord ==
  ASSUME NEW m \in Memory, NEW a \in Addr, a + 1 \in Addr
  PROVE  WordAt(m, a) \in Word
<1>1. m[a] \in Byte /\ m[a + 1] \in Byte BY DEF Memory
<1> QED BY <1>1 DEF WordAt, Byte, Word

\* A word that has been stored is read back, and the memory is still one.
LEMMA SetWordType ==
  ASSUME NEW m \in Memory, NEW a \in Int, NEW w \in Word
  PROVE  SetWord(m, a, w) \in Memory
<1>1. w % 256 \in Byte /\ w \div 256 \in Byte BY WordBytes
<1> QED BY <1>1 DEF SetWord, Memory

LEMMA SetWordReads ==
  ASSUME NEW m \in Memory, NEW a \in Addr, a + 1 \in Addr, NEW w \in Word
  PROVE  WordAt(SetWord(m, a, w), a) = w
<1>0. a \in Int /\ a # a + 1 BY MemSizeAssumption DEF Addr, reg_cnt
<1>1. SetWord(m, a, w)[a] = w % 256 /\ SetWord(m, a, w)[a + 1] = w \div 256
  BY <1>0 DEF SetWord, Memory
<1> QED BY <1>1, WordBytes DEF WordAt

\* Storing a word changes no byte but its two.
LEMMA SetWordByte ==
  ASSUME NEW m \in Memory, NEW a \in Int, NEW w \in Word,
         NEW b \in Addr, b # a, b # a + 1
  PROVE  SetWord(m, a, w)[b] = m[b]
BY DEF SetWord, Memory

LEMMA SetWordElsewhere ==
  ASSUME NEW m \in Memory, NEW a \in Int, NEW w \in Word,
         NEW b \in Addr, b + 1 \in Addr, b + 1 < a \/ a + 1 < b
  PROVE  WordAt(SetWord(m, a, w), b) = WordAt(m, b)
<1>0. b \in Int BY MemSizeAssumption DEF Addr, reg_cnt
<1>1. b # a /\ b # a + 1 /\ b + 1 # a /\ b + 1 # a + 1 BY <1>0
<1>2. SetWord(m, a, w)[b] = m[b] BY <1>1, SetWordByte
<1>3. SetWord(m, a, w)[b + 1] = m[b + 1] BY <1>1, SetWordByte
<1> QED BY <1>2, <1>3 DEF WordAt

-----------------------------------------------------------------------------
(* Registers.                                                              *)

\* The registers lie in memory, apart from one another.
LEMMA RegInMemory ==
  ASSUME NEW r \in 0 .. 15
  PROVE  2 * r \in Addr /\ (2 * r) + 1 \in Addr /\ IsReg(r)
BY MemSizeAssumption DEF Addr, IsReg, reg_cnt

LEMMA RegWord ==
  ASSUME NEW m \in Memory, NEW r \in Byte, IsReg(r)
  PROVE  Reg(m, r) \in Word
<1>1. 2 * r \in Addr /\ (2 * r) + 1 \in Addr
  BY MemSizeAssumption DEF IsReg, Addr, Byte, reg_cnt
<1> QED BY <1>1, WordAtWord DEF Reg

LEMMA SetRegType ==
  ASSUME NEW m \in Memory, NEW r \in Int, NEW w \in Word
  PROVE  SetReg(m, r, w) \in Memory
BY SetWordType DEF SetReg

LEMMA SetRegReads ==
  ASSUME NEW m \in Memory, NEW r \in 0 .. 15, NEW w \in Word
  PROVE  Reg(SetReg(m, r, w), r) = w
BY RegInMemory, SetWordReads DEF SetReg, Reg

LEMMA SetRegOther ==
  ASSUME NEW m \in Memory, NEW r \in 0 .. 15, NEW q \in 0 .. 15, r # q,
         NEW w \in Word
  PROVE  Reg(SetReg(m, r, w), q) = Reg(m, q)
<1>1. (2 * q) + 1 < 2 * r \/ (2 * r) + 1 < 2 * q OBVIOUS
<1> QED BY <1>1, RegInMemory, SetWordElsewhere DEF SetReg, Reg

\* Setting a register changes no byte above the register file.
LEMMA SetRegAbove ==
  ASSUME NEW m \in Memory, NEW r \in 0 .. 15, NEW w \in Word,
         NEW a \in Addr, a >= 32
  PROVE  SetReg(m, r, w)[a] = m[a]
<1>1. a # 2 * r /\ a # (2 * r) + 1 BY DEF Addr
<1> QED BY <1>1, SetWordByte DEF SetReg

-----------------------------------------------------------------------------
(* What the helpers of the handlers return and leave is of the right type. *)

LEMMA MovedToWord ==
  ASSUME NEW m \in Memory, NEW r \in 0 .. 15, NEW d \in Int
  PROVE  MovedTo(m, r, d) \in Word
<1>1. Reg(m, r) \in Word BY RegInMemory, WordAtWord DEF Reg
<1>2. Reg(m, r) + d \in Int BY <1>1 DEF Word
<1> QED BY <1>2, U16Word DEF MovedTo

LEMMA ByteAfterMoveByte ==
  ASSUME NEW m \in Memory, NEW r \in 0 .. 15, NEW d \in Int,
         MovedTo(m, r, d) \in Addr
  PROVE  ByteAfterMove(m, r, d) \in Byte
<1>1. SetReg(m, r, MovedTo(m, r, d)) \in Memory BY MovedToWord, SetRegType
<1> QED BY <1>1 DEF ByteAfterMove, Memory

LEMMA AdvanceType ==
  ASSUME NEW m \in Memory, NEW n \in Int
  PROVE  Advance(m, n) \in Memory
<1>1. U16(Reg(m, pc) + n) \in Word
  BY MovedToWord DEF MovedTo, pc
<1> QED BY <1>1, SetRegType DEF Advance, pc

LEMMA OperandByte ==
  ASSUME NEW m \in Memory, NEW n \in Nat \ {0}, HasOperands(m, n)
  PROVE  \A i \in 1 .. n : Operand(m, i) \in Byte
BY ByteAfterMoveByte DEF HasOperands, Operand, pc

LEMMA OperandWordWord ==
  ASSUME NEW m \in Memory, HasOperands(m, 2)
  PROVE  OperandWord(m) \in Word
<1>1. Operand(m, 1) \in Byte /\ Operand(m, 2) \in Byte BY OperandByte
<1> QED BY <1>1 DEF OperandWord, Byte, Word

LEMMA PopType ==
  ASSUME NEW m \in Memory
  PROVE  Pop(m) \in Memory
BY MovedToWord, SetRegType DEF Pop, sp

LEMMA TopWord ==
  ASSUME NEW m \in Memory, CanPop(m, 1)
  PROVE  Top(m) \in Word
<1>1. MovedTo(m, sp, -1) \in Addr /\ MovedTo(m, sp, -2) \in Addr
  BY DEF CanPop
<1>2. ByteAfterMove(m, sp, -1) \in Byte /\ ByteAfterMove(m, sp, -2) \in Byte
  BY <1>1, ByteAfterMoveByte DEF sp
<1> QED BY <1>2 DEF Top, Byte, Word

\* A second word can be popped where two can.
LEMMA CanPopSecond ==
  ASSUME NEW m \in Memory, CanPop(m, 2)
  PROVE  CanPop(m, 1) /\ CanPop(Pop(m), 1)
<1>1. \A i \in 1 .. 4 : MovedTo(m, sp, -i) \in Addr BY DEF CanPop
<1>2. Reg(Pop(m), sp) = MovedTo(m, sp, -2)
  BY MovedToWord, SetRegReads DEF Pop, sp
<1>3. Reg(m, sp) \in Word BY RegInMemory, WordAtWord DEF Reg, sp
<1>4. \A i \in 1 .. 2 : MovedTo(Pop(m), sp, -i) = MovedTo(m, sp, -(i + 2))
  BY <1>2, <1>3 DEF MovedTo, U16, Word
<1>5. \A i \in 1 .. 2 : MovedTo(Pop(m), sp, -i) \in Addr BY <1>1, <1>4
<1> QED BY <1>1, <1>5 DEF CanPop

LEMMA PushByteType ==
  ASSUME NEW m \in Memory, NEW b \in Byte
  PROVE  PushByte(m, b) \in Memory
<1>1. SetReg(m, sp, MovedTo(m, sp, 1)) \in Memory
  BY MovedToWord, SetRegType DEF sp
<1> QED BY <1>1 DEF PushByte, Memory

LEMMA PushType ==
  ASSUME NEW m \in Memory, NEW w \in Word
  PROVE  Push(m, w) \in Memory
BY WordBytes, PushByteType DEF Push

LEMMA AddAtType ==
  ASSUME NEW m \in Memory, NEW a \in Addr, a + 1 \in Addr, NEW d \in Int
  PROVE  AddAt(m, a, d) \in Memory
<1>1. WordAt(m, a) + d \in Int BY WordAtWord DEF Word
<1>2. a \in Int BY MemSizeAssumption DEF Addr
<1> QED BY <1>1, <1>2, U16Word, SetWordType DEF AddAt

\* An address that may be read as a word does not wrap.
LEMMA WordAddr ==
  ASSUME NEW a \in Int, IsWordAddr(a)
  PROVE  a \in Addr /\ a + 1 \in Addr
<1>1. a \in Addr /\ U16(a + 1) \in Addr BY DEF IsWordAddr
<1>2. a \in Nat /\ a + 1 < 65536 BY <1>1, MemSizeAssumption DEF Addr
<1>3. U16(a + 1) = a + 1 BY <1>2 DEF U16
<1> QED BY <1>1, <1>3

LEMMA ResultWord ==
  ASSUME NEW op \in Binary, NEW a \in Int16, NEW b \in Int16,
         op = DIV => b # 0
  PROVE  Result(op, a, b) \in Word
<1>1. a + b \in Int /\ a - b \in Int /\ a * b \in Int BY DEF Int16
<1>2. CASE op = ADD BY <1>1, <1>2, U16Word DEF Result, ADD, SUB, MUL, DIV
<1>3. CASE op = SUB BY <1>1, <1>3, U16Word DEF Result, ADD, SUB, MUL, DIV
<1>4. CASE op = MUL BY <1>1, <1>4, U16Word DEF Result, ADD, SUB, MUL, DIV
<1>5. CASE op = DIV
  <2>1. Quotient(a, b) \in Int BY <1>5 DEF Quotient, Int16
  <2> QED BY <2>1, <1>5, U16Word DEF Result, ADD, SUB, MUL, DIV
<1> QED BY <1>2, <1>3, <1>4, <1>5 DEF Binary

-----------------------------------------------------------------------------
(* Type correctness.                                                       *)

\* A turn of execute() that leaves its handler with the memory m.
LEMMA TypeOfTurn ==
  ASSUME TypeOK, NEW m \in Memory, mem' = Advance(m, 1),
         UNCHANGED <<allocPointer, returnValue, status, loaded>>
  PROVE  TypeOK'
<1>1. mem' \in Memory BY AdvanceType
<1> QED BY <1>1 DEF TypeOK, Memory, Addr

\* A turn that ends the process.
LEMMA TypeOfCrash ==
  ASSUME TypeOK, status' \in Crashes,
         UNCHANGED <<mem, allocPointer, returnValue, loaded>>
  PROVE  TypeOK'
BY DEF TypeOK, Addr

LEMMA OutOfBoundsType ==
  ASSUME TypeOK, status' = "outofbounds",
         UNCHANGED <<mem, allocPointer, returnValue, loaded>>
  PROVE  TypeOK'
BY TypeOfCrash DEF Crashes

LEMMA PushRegType ==
  ASSUME TypeOK, NEW op, NEW n \in {0, 1}, NEW STATE r,
         HasOperands(mem, n) => r \in Byte,
         PushReg(op, n, r)
  PROVE  TypeOK'
<1> DEFINE m == Advance(mem, n)
<1>1. m \in Memory BY AdvanceType DEF TypeOK, Memory
<1>2. CASE status' = "outofbounds" /\ UNCHANGED mem
  BY <1>2, OutOfBoundsType DEF PushReg, Execute
<1>3. CASE /\ HasOperands(mem, n) /\ IsReg(r)
           /\ mem' = Advance(Push(m, Reg(m, r)), 1)
           /\ UNCHANGED status
  <2>1. Reg(m, r) \in Word BY <1>1, <1>3, RegWord
  <2>2. Push(m, Reg(m, r)) \in Memory BY <1>1, <2>1, PushType
  <2> QED BY <1>3, <2>2, TypeOfTurn DEF PushReg, Execute
<1> QED BY <1>2, <1>3 DEF PushReg, Execute

LEMMA PushHandlersType ==
  ASSUME TypeOK, push_handler \/ push_reg_handler
  PROVE  TypeOK'
<1>1. CASE push_handler
  BY <1>1, PushRegType DEF push_handler, imm, Byte
<1>2. CASE push_reg_handler
  <2>1. HasOperands(mem, 1) => Operand(mem, 1) \in Byte
    BY OperandByte DEF TypeOK, Memory
  <2> QED BY <1>2, <2>1, PushRegType DEF push_reg_handler
<1> QED BY <1>1, <1>2

LEMMA PushLiteralType ==
  ASSUME TypeOK, push_literal_handler
  PROVE  TypeOK'
<1> DEFINE m == Advance(mem, 2)
           w == OperandWord(mem)
<1>0. mem \in Memory BY DEF TypeOK, Memory
<1>1. m \in Memory BY <1>0, AdvanceType
<1>2. CASE status' = "outofbounds" /\ UNCHANGED mem
  BY <1>2, OutOfBoundsType DEF push_literal_handler, Execute
<1>3. CASE HasOperands(mem, 2) /\ mem' = Advance(Push(m, w), 1)
           /\ UNCHANGED status
  <2>1. Push(m, w) \in Memory BY <1>0, <1>1, <1>3, OperandWordWord, PushType
  <2> QED BY <1>3, <2>1, TypeOfTurn DEF push_literal_handler, Execute
<1> QED BY <1>2, <1>3 DEF push_literal_handler, Execute

LEMMA PopRegType ==
  ASSUME TypeOK, pop_reg_handler
  PROVE  TypeOK'
<1> DEFINE m == Advance(mem, 1)
           r == Operand(mem, 1)
           n == SetReg(Pop(m), r, Top(m))
<1>0. mem \in Memory BY DEF TypeOK, Memory
<1>1. m \in Memory BY <1>0, AdvanceType
<1>2. CASE status' = "outofbounds" /\ UNCHANGED mem
  BY <1>2, OutOfBoundsType DEF pop_reg_handler, Execute
<1>3. CASE HasOperands(mem, 1) /\ CanPop(m, 1) /\ mem' = Advance(n, 1)
           /\ UNCHANGED status
  <2>1. r \in Byte BY <1>0, <1>3, OperandByte
  <2>2. Pop(m) \in Memory /\ Top(m) \in Word BY <1>1, <1>3, PopType, TopWord
  <2>3. r \in Int BY <2>1 DEF Byte
  <2>4. n \in Memory BY <2>2, <2>3, SetRegType
  <2> QED BY <1>3, <2>4, TypeOfTurn DEF pop_reg_handler, Execute
<1> QED BY <1>2, <1>3 DEF pop_reg_handler, Execute

LEMMA PeekType ==
  ASSUME TypeOK, peek_handler
  PROVE  TypeOK'
<1> DEFINE m == Advance(mem, 1)
           r == Operand(mem, 1)
           a == MovedTo(m, sp, -2)
           n == SetReg(m, r, WordAt(m, a))
<1>0. mem \in Memory BY DEF TypeOK, Memory
<1>1. m \in Memory BY <1>0, AdvanceType
<1>2. CASE status' = "outofbounds" /\ UNCHANGED mem
  BY <1>2, OutOfBoundsType DEF peek_handler, Execute
<1>3. CASE HasOperands(mem, 1) /\ IsWordAddr(a) /\ mem' = Advance(n, 1)
           /\ UNCHANGED status
  <2>1. r \in Byte /\ r \in Int BY <1>0, <1>3, OperandByte DEF Byte
  <2>2. a \in Int BY <1>1, MovedToWord DEF sp, Word
  <2>3. WordAt(m, a) \in Word BY <1>1, <1>3, <2>2, WordAddr, WordAtWord
  <2>4. n \in Memory BY <1>1, <2>1, <2>3, SetRegType
  <2> QED BY <1>3, <2>4, TypeOfTurn DEF peek_handler, Execute
<1> QED BY <1>2, <1>3 DEF peek_handler, Execute

LEMMA PeekOffsetType ==
  ASSUME TypeOK, peek_offset_handler
  PROVE  TypeOK'
<1> DEFINE m == Advance(mem, 2)
           r == Operand(mem, 1)
           a == SlotAddr(Reg(m, fp), Operand(mem, 2))
           w == WordAt(m, a)
           n == IF r = sp THEN Push(m, w) ELSE SetReg(m, r, w)
<1>0. mem \in Memory BY DEF TypeOK, Memory
<1>1. m \in Memory BY <1>0, AdvanceType
<1>2. CASE status' = "outofbounds" /\ UNCHANGED mem
  BY <1>2, OutOfBoundsType DEF peek_offset_handler, Execute
<1>3. CASE HasOperands(mem, 2) /\ IsWordAddr(a) /\ mem' = Advance(n, 1)
           /\ UNCHANGED status
  <2>1. r \in Byte /\ r \in Int BY <1>0, <1>3, OperandByte DEF Byte
  <2>2. Operand(mem, 2) \in Nat BY <1>0, <1>3, OperandByte DEF Byte
  <2>3. Reg(m, fp) \in Nat
    BY <1>1, RegInMemory, WordAtWord DEF Reg, fp, Word
  <2>4. a \in Int BY <2>2, <2>3 DEF SlotAddr, U16
  <2>5. w \in Word BY <1>1, <1>3, <2>4, WordAddr, WordAtWord
  <2>6. n \in Memory BY <1>1, <2>1, <2>5, PushType, SetRegType
  <2> QED BY <1>3, <2>6, TypeOfTurn DEF peek_offset_handler, Execute
<1> QED BY <1>2, <1>3 DEF peek_offset_handler, Execute

LEMMA BinaryType ==
  ASSUME TypeOK, NEW op \in Binary, binary_stack_expression(op)
  PROVE  TypeOK'
<1> DEFINE b == I16(Top(mem))
           a == I16(Top(Pop(mem)))
           m == Pop(Pop(mem))
           w == Result(op, a, b)
<1>0. mem \in Memory BY DEF TypeOK, Memory
<1>1. Pop(mem) \in Memory /\ m \in Memory BY <1>0, PopType
<1>2. CASE status' = "outofbounds" /\ UNCHANGED mem
  BY <1>2, OutOfBoundsType DEF binary_stack_expression, Execute
<1>3. CASE CanPop(mem, 2) /\ mem' = Advance(Push(m, w), 1)
           /\ UNCHANGED status
  <2>1. CanPop(mem, 1) /\ CanPop(Pop(mem), 1) BY <1>0, <1>3, CanPopSecond
  <2>2. a \in Int16 /\ b \in Int16 BY <1>0, <1>1, <2>1, TopWord, I16Int
  <2>3. op = DIV => b # 0 BY <1>3 DEF binary_stack_expression
  <2>4. w \in Word BY <2>2, <2>3, ResultWord
  <2>5. Push(m, w) \in Memory BY <1>1, <2>4, PushType
  <2> QED BY <1>3, <2>5, TypeOfTurn DEF binary_stack_expression, Execute
<1> QED BY <1>2, <1>3 DEF binary_stack_expression, Execute

LEMMA IncDecType ==
  ASSUME TypeOK, NEW op, NEW d \in Int, IncDec(op, d)
  PROVE  TypeOK'
<1> DEFINE onStack == Operand(mem, 1) = sp
           m == Advance(mem, IF onStack THEN 2 ELSE 1)
           a == IF onStack THEN SlotAddr8(Reg(m, fp), Operand(mem, 2))
                           ELSE 2 * Operand(mem, 1)
<1>0. mem \in Memory BY DEF TypeOK, Memory
<1>1. m \in Memory BY <1>0, AdvanceType
<1>2. CASE status' = "outofbounds" /\ UNCHANGED mem
  BY <1>2, OutOfBoundsType DEF IncDec, Execute
<1>3. CASE /\ HasOperands(mem, 1) /\ (onStack => HasOperands(mem, 2))
           /\ IsWordAddr(a)
           /\ mem' = Advance(AddAt(m, a, d), 1)
           /\ UNCHANGED status
  <2>1. Reg(m, fp) \in Nat
    BY <1>1, RegInMemory, WordAtWord DEF Reg, fp, Word
  <2>4. a \in Int
    <3>1. onStack => SlotAddr8(Reg(m, fp), Operand(mem, 2)) \in Int
      <4>1. CASE onStack
        <5>1. Operand(mem, 2) \in Nat
          BY <1>0, <1>3, <4>1, OperandByte DEF Byte
        <5> QED BY <5>1, <2>1 DEF SlotAddr8, U16
      <4> QED BY <4>1
    <3>2. 2 * Operand(mem, 1) \in Int BY <1>0, <1>3, OperandByte DEF Byte
    <3> QED BY <3>1, <3>2
  <2>5. AddAt(m, a, d) \in Memory BY <1>1, <1>3, <2>4, WordAddr, AddAtType
  <2> QED BY <1>3, <2>5, TypeOfTurn DEF IncDec, Execute
<1> QED BY <1>2, <1>3 DEF IncDec, Execute

LEMMA CmpType ==
  ASSUME TypeOK, cmp_handler
  PROVE  TypeOK'
<1> DEFINE m == Advance(mem, 1)
           b == I16(Top(m))
           a == I16(Top(Pop(m)))
           onStack == Operand(mem, 1) = sp
           n == IF onStack THEN SetReg(Pop(Pop(m)), imm, U16(a - b)) ELSE m
<1>0. mem \in Memory BY DEF TypeOK, Memory
<1>1. m \in Memory /\ Pop(m) \in Memory /\ Pop(Pop(m)) \in Memory
  BY <1>0, AdvanceType, PopType
<1>2. CASE status' = "outofbounds" /\ UNCHANGED mem
  BY <1>2, OutOfBoundsType DEF cmp_handler, Execute
<1>3. CASE (onStack => CanPop(m, 2)) /\ mem' = Advance(n, 1)
           /\ UNCHANGED status
  <2>1. CASE onStack
    <3>1. CanPop(m, 1) /\ CanPop(Pop(m), 1) BY <1>1, <1>3, <2>1, CanPopSecond
    <3>2. a \in Int16 /\ b \in Int16 BY <1>1, <3>1, TopWord, I16Int
    <3>3. U16(a - b) \in Word BY <3>2, U16Word DEF Int16
    <3>4. n \in Memory BY <1>1, <2>1, <3>3, SetRegType DEF imm
    <3> QED BY <1>3, <3>4, TypeOfTurn DEF cmp_handler, Execute
  <2>2. CASE ~onStack
    BY <1>1, <1>3, <2>2, TypeOfTurn DEF cmp_handler, Execute
  <2> QED BY <2>1, <2>2
<1> QED BY <1>2, <1>3 DEF cmp_handler, Execute

LEMMA MovType ==
  ASSUME TypeOK, mov_handler
  PROVE  TypeOK'
<1> DEFINE m == Advance(mem, 2)
           x == Operand(mem, 1)
           y == Operand(mem, 2)
           n == SetReg(m, x, Reg(m, y))
<1>0. mem \in Memory BY DEF TypeOK, Memory
<1>1. m \in Memory BY <1>0, AdvanceType
<1>2. CASE status' = "outofbounds" /\ UNCHANGED mem
  BY <1>2, OutOfBoundsType DEF mov_handler, Execute
<1>3. CASE HasOperands(mem, 2) /\ IsReg(y) /\ mem' = Advance(n, 1)
           /\ UNCHANGED status
  <2>1. x \in Byte /\ y \in Byte BY <1>0, <1>3, OperandByte
  <2>2. Reg(m, y) \in Word BY <1>1, <1>3, <2>1, RegWord
  <2>3. n \in Memory BY <1>1, <2>1, <2>2, SetRegType DEF Byte
  <2> QED BY <1>3, <2>3, TypeOfTurn DEF mov_handler, Execute
<1> QED BY <1>2, <1>3 DEF mov_handler, Execute

LEMMA JumpHandlersType ==
  ASSUME TypeOK,
         jump_eq_handler \/ jump_nz_handler \/ jump_gt_handler \/ jump_lt_handler
  PROVE  TypeOK'
<1>0. mem \in Memory BY DEF TypeOK, Memory
<1>1. CASE status' = "outofbounds" /\ UNCHANGED mem
  BY <1>1, OutOfBoundsType
     DEF jump_eq_handler, jump_nz_handler, jump_gt_handler, jump_lt_handler,
         Execute
<1>2. CASE mem' = Advance(mem, 1) /\ UNCHANGED status
  BY <1>0, <1>2, TypeOfTurn
     DEF jump_eq_handler, jump_nz_handler, jump_gt_handler, jump_lt_handler,
         Execute
<1>3. CASE jump_lt_handler /\ HasOperands(mem, 2)
  <2> DEFINE m == Advance(mem, 2)
             back == I16(OperandWord(mem))
             n == IF I16(Reg(m, imm)) < 0 THEN Advance(m, -back) ELSE m
  <2>1. m \in Memory BY <1>0, AdvanceType
  <2>2. back \in Int BY <1>0, <1>3, OperandWordWord, I16Int DEF Int16
  <2>3. -back \in Int BY <2>2
  <2>4. n \in Memory BY <2>1, <2>3, AdvanceType
  <2>5. mem' = Advance(n, 1) /\ UNCHANGED <<allocPointer, returnValue, status, loaded>>
    BY <1>3 DEF jump_lt_handler, Execute
  <2> QED BY <2>4, <2>5, TypeOfTurn
<1> QED
  BY <1>1, <1>2, <1>3
     DEF jump_eq_handler, jump_nz_handler, jump_gt_handler, jump_lt_handler,
         Execute

LEMMA ReturnType ==
  ASSUME TypeOK, return_handler
  PROVE  TypeOK'
<1> DEFINE f == Reg(mem, fp)
           m == SetReg(SetReg(mem, pc, U16(f - 1)), sp, f)
<1>0. mem \in Memory BY DEF TypeOK, Memory
<1>1. f \in Word BY <1>0, RegInMemory, WordAtWord DEF Reg, fp
<1>2. U16(f - 1) \in Word BY <1>1, U16Word DEF Word
<1>3. m \in Memory BY <1>0, <1>1, <1>2, SetRegType DEF pc, sp
<1>4. mem' \in Memory BY <1>3, AdvanceType DEF return_handler
<1>5. Reg(mem, ret) \in Word BY <1>0, RegInMemory, WordAtWord DEF Reg, ret
<1>6. returnValue' \in Int16 BY <1>5, I16Int DEF return_handler
<1> QED BY <1>4, <1>6 DEF TypeOK, return_handler, Memory, Addr

\* A program is made of bytes, and its size fits in sixteen bits.
LEMMA ProgramBytes ==
  ASSUME NEW p \in Programs
  PROVE  /\ Len(p) \in Nat /\ Len(p) < 65536
         /\ \A i \in 1 .. Len(p) : p[i] \in Byte
BY ProgramsAssumption DEF Word

LEMMA PlacedInMemory ==
  ASSUME TypeOK, NEW p \in Programs
  PROVE  Placed(p) \in Nat /\ Placed(p) <= MemSize /\ Placed(p) \in Word
                           /\ StackFor(p) \in Word
<1>1. allocPointer \in Nat /\ allocPointer <= MemSize
  BY MemSizeAssumption DEF TypeOK, reg_cnt
<1>2. Placed(p) \in Nat /\ Placed(p) <= MemSize
  BY <1>1, MemSizeAssumption DEF Placed
<1>3. Placed(p) \in Word BY <1>2, MemSizeAssumption DEF Word
<1>4. Placed(p) + U16(Len(p) + (Len(p) % 2)) \in Int
  BY <1>2, ProgramBytes, U16Word DEF Word
<1>5. StackFor(p) \in Word BY <1>4, U16Word DEF StackFor
<1> QED BY <1>2, <1>3, <1>5

LEMMA FramedType ==
  ASSUME NEW m \in Memory, NEW a \in Word, NEW s \in Word
  PROVE  Framed(m, a, s) \in Memory
BY SetRegType DEF Framed, pc, bp, sp, fp

LEMMA CopiedType ==
  ASSUME NEW m \in Memory, NEW p \in Programs, NEW a \in Nat
  PROVE  Copied(m, p, a) \in Memory
<1>1. \A x \in Addr : x \in a .. a + Len(p) - 1 => p[x - a + 1] \in Byte
  <2> TAKE x \in Addr
  <2> HAVE x \in a .. a + Len(p) - 1
  <2>1. x - a + 1 \in 1 .. Len(p) BY ProgramBytes
  <2> QED BY <2>1, ProgramBytes
<1> QED BY <1>1 DEF Copied, Memory

LEMMA LoadType ==
  ASSUME TypeOK, NEW p \in Programs, Load(p)
  PROVE  TypeOK'
<1> DEFINE fits == allocPointer + Len(p) <= MemSize
           n == IF fits THEN Copied(mem, p, allocPointer) ELSE mem
<1>1. allocPointer \in Nat /\ 2 * reg_cnt <= allocPointer
      /\ allocPointer <= MemSize
  BY MemSizeAssumption DEF TypeOK, reg_cnt
<1>2. n \in Memory BY <1>1, CopiedType DEF TypeOK, Memory
<1>3. mem' \in Memory BY <1>2, PlacedInMemory, FramedType DEF Load
<1>4. allocPointer' \in (2 * reg_cnt) .. MemSize
  BY <1>1, ProgramBytes DEF Load, reg_cnt
<1>5. loaded' \in [prog : Programs \cup {<<>>}, addrs : 0 .. MemSize,
                   stack : Word]
  BY PlacedInMemory DEF Load
<1>6. status' = "running" /\ returnValue' \in Int16 BY DEF Load, TypeOK
<1> QED BY <1>3, <1>4, <1>5, <1>6 DEF TypeOK, Memory, Addr

LEMMA InitType ==
  ASSUME Init
  PROVE  TypeOK
<1>1. PICK f \in Fills : mem = [a \in Addr |-> IF a < 2 * reg_cnt THEN 0 ELSE f]
  BY DEF Init
<1>2. f \in Byte /\ 0 \in Byte BY FillsAssumption DEF Byte
<1>3. mem \in [Addr -> Byte] BY <1>1, <1>2
<1>4. allocPointer \in (2 * reg_cnt) .. MemSize
  BY MemSizeAssumption DEF Init, reg_cnt
<1>5. loaded \in [prog : Programs \cup {<<>>}, addrs : 0 .. MemSize,
                  stack : Word]
  BY MemSizeAssumption DEF Init, Word
<1> QED BY <1>3, <1>4, <1>5 DEF Init, TypeOK, Int16

LEMMA StepType ==
  ASSUME TypeOK, step
  PROVE  TypeOK'
<1>1. CASE push_handler \/ push_reg_handler BY <1>1, PushHandlersType
<1>2. CASE push_literal_handler BY <1>2, PushLiteralType
<1>3. CASE pop_reg_handler BY <1>3, PopRegType
<1>4. CASE peek_handler BY <1>4, PeekType
<1>5. CASE peek_offset_handler BY <1>5, PeekOffsetType
<1>6. CASE \E op \in Binary : binary_stack_expression(op) BY <1>6, BinaryType
<1>7. CASE inc_handler BY <1>7, IncDecType DEF inc_handler
<1>8. CASE dec_handler BY <1>8, IncDecType DEF dec_handler
<1>9. CASE cmp_handler BY <1>9, CmpType
<1>10. CASE mov_handler BY <1>10, MovType
<1>11. CASE jump_eq_handler \/ jump_nz_handler \/ jump_gt_handler
            \/ jump_lt_handler
  BY <1>11, JumpHandlersType
<1>12. CASE return_handler BY <1>12, ReturnType
<1>13. CASE DivideByZero BY <1>13, TypeOfCrash DEF DivideByZero, Crashes
<1>14. CASE NoHandler BY <1>14, TypeOfCrash DEF NoHandler, Crashes
<1>15. CASE BadFetch BY <1>15, TypeOfCrash DEF BadFetch, Crashes
<1> QED BY <1>1, <1>2, <1>3, <1>4, <1>5, <1>6, <1>7, <1>8, <1>9, <1>10,
           <1>11, <1>12, <1>13, <1>14, <1>15 DEF step, Handle

\* The memory holds bytes, the allocation pointer stays between the register
\* file and the end of memory and the returned value is an int16_t, whatever
\* programs are loaded and run, sound or not.
THEOREM TypeCorrect == Spec => []TypeOK
<1>1. Init => TypeOK BY InitType
<1>2. TypeOK /\ [Next]_vars => TypeOK'
  <2> SUFFICES ASSUME TypeOK, [Next]_vars PROVE TypeOK' OBVIOUS
  <2>1. CASE step BY <2>1, StepType
  <2>2. CASE \E p \in Programs : Load(p) BY <2>2, LoadType
  <2>3. CASE UNCHANGED vars BY <2>3 DEF vars, TypeOK, Addr
  <2> QED BY <2>1, <2>2, <2>3 DEF Next
<1> QED BY <1>1, <1>2, PTL DEF Spec

-----------------------------------------------------------------------------
(* The frame of a sound program.  InFrame is not inductive by itself: it   *)
(* must also be known where the last load put the program and its stack    *)
(* (Home), and a handler passes through memories that InFrame does not     *)
(* speak of, with pc on an operand or sp on the middle of a pop.  Frame    *)
(* says of any memory what InFrame says of mem.                            *)

Home(l) ==
  /\ l.prog \in Programs
  /\ l.addrs \in Nat /\ l.addrs >= 32
  /\ l.stack \in Nat /\ l.stack < 65536
  /\ l.addrs + Len(l.prog) <= MemSize
  /\ l.addrs + Len(l.prog) <= l.stack

\* In m, pc stands on the byte o of the text and the stack holds d words.
Frame(m, l, o, d) ==
  /\ m \in Memory
  /\ Reg(m, pc) = l.addrs + o
  /\ Reg(m, sp) = l.stack + (2 * d)
  /\ Reg(m, fp) = l.stack
  /\ Reg(m, bp) = l.addrs
  /\ \A i \in 1 .. Len(l.prog) : m[l.addrs + i - 1] = l.prog[i]

\* The text lies above the register file.
LEMMA TextAddr ==
  ASSUME NEW l, Home(l), NEW i \in 1 .. Len(l.prog)
  PROVE  /\ l.addrs + i - 1 \in Addr
         /\ l.addrs + i - 1 >= 32
         /\ l.addrs + i - 1 < l.stack
<1>1. Len(l.prog) \in Nat BY ProgramBytes DEF Home
<1>2. l.addrs \in Nat /\ l.stack \in Nat /\ i \in Nat BY <1>1 DEF Home
<1>3. l.addrs + i - 1 >= 32 /\ l.addrs + i - 1 < l.addrs + Len(l.prog)
  BY <1>1, <1>2 DEF Home
<1> QED BY <1>1, <1>2, <1>3, MemSizeAssumption DEF Home, Addr

LEMMA FrameRegister ==
  ASSUME NEW l, Home(l), NEW m, NEW o, NEW d, Frame(m, l, o, d),
         NEW r \in General, NEW w \in Word
  PROVE  Frame(SetReg(m, r, w), l, o, d)
<1>0. m \in Memory /\ r \in 0 .. 15 /\ r \notin {pc, sp, fp, bp}
  BY DEF Frame, General, imm, ret, pc, sp, fp, bp
<1>1. SetReg(m, r, w) \in Memory BY <1>0, SetRegType
<1>2. \A q \in {pc, sp, fp, bp} : Reg(SetReg(m, r, w), q) = Reg(m, q)
  BY <1>0, SetRegOther DEF pc, sp, fp, bp
<1>3. \A i \in 1 .. Len(l.prog) :
        SetReg(m, r, w)[l.addrs + i - 1] = m[l.addrs + i - 1]
  BY <1>0, TextAddr, SetRegAbove
<1> QED BY <1>1, <1>2, <1>3 DEF Frame

LEMMA FrameMovePc ==
  ASSUME NEW l, Home(l), NEW m, NEW o, NEW d, Frame(m, l, o, d),
         NEW e \in Int, l.addrs + e \in Word
  PROVE  Frame(SetReg(m, pc, l.addrs + e), l, e, d)
<1> DEFINE w == l.addrs + e
<1>0. m \in Memory BY DEF Frame
<1>1. SetReg(m, pc, w) \in Memory BY <1>0, SetRegType DEF pc
<1>2. \A q \in {sp, fp, bp} : Reg(SetReg(m, pc, w), q) = Reg(m, q)
  BY <1>0, SetRegOther DEF pc, sp, fp, bp
<1>3. Reg(SetReg(m, pc, w), pc) = w BY <1>0, SetRegReads DEF pc
<1>4. \A i \in 1 .. Len(l.prog) :
        SetReg(m, pc, w)[l.addrs + i - 1] = m[l.addrs + i - 1]
  BY <1>0, TextAddr, SetRegAbove DEF pc
<1> QED BY <1>1, <1>2, <1>3, <1>4 DEF Frame

LEMMA FrameMoveSp ==
  ASSUME NEW l, Home(l), NEW m, NEW o, NEW d, Frame(m, l, o, d),
         NEW e \in Int, l.stack + (2 * e) \in Word
  PROVE  Frame(SetReg(m, sp, l.stack + (2 * e)), l, o, e)
<1> DEFINE w == l.stack + (2 * e)
<1>0. m \in Memory BY DEF Frame
<1>1. SetReg(m, sp, w) \in Memory BY <1>0, SetRegType DEF sp
<1>2. \A q \in {pc, fp, bp} : Reg(SetReg(m, sp, w), q) = Reg(m, q)
  BY <1>0, SetRegOther DEF pc, sp, fp, bp
<1>3. Reg(SetReg(m, sp, w), sp) = w BY <1>0, SetRegReads DEF sp
<1>4. \A i \in 1 .. Len(l.prog) :
        SetReg(m, sp, w)[l.addrs + i - 1] = m[l.addrs + i - 1]
  BY <1>0, TextAddr, SetRegAbove DEF sp
<1> QED BY <1>1, <1>2, <1>3, <1>4 DEF Frame

LEMMA FrameAdvance ==
  ASSUME NEW l, Home(l), NEW m, NEW o \in Int, NEW d, Frame(m, l, o, d),
         NEW n \in Int, l.addrs + o + n \in Word
  PROVE  /\ MovedTo(m, pc, n) = l.addrs + o + n
         /\ Frame(Advance(m, n), l, o + n, d)
<1>1. Reg(m, pc) + n = l.addrs + (o + n) BY DEF Frame, Home
<1>2. l.addrs + (o + n) \in Word /\ l.addrs + (o + n) \in Int BY DEF Home
<1>3. U16(Reg(m, pc) + n) = l.addrs + (o + n) BY <1>1, <1>2, U16Word
<1>4. Frame(SetReg(m, pc, l.addrs + (o + n)), l, o + n, d)
  BY <1>2, FrameMovePc
<1> QED BY <1>1, <1>3, <1>4 DEF Advance, MovedTo, Home

\* An operand byte is the byte of the text that follows the opcode.
LEMMA FrameOperand ==
  ASSUME NEW l, Home(l), NEW m, NEW o \in Nat, NEW d, Frame(m, l, o, d),
         NEW n \in Nat, o + n < Len(l.prog)
  PROVE  /\ HasOperands(m, n)
         /\ \A i \in 1 .. n : Operand(m, i) = Arg(l.prog, o, i)
                              /\ Arg(l.prog, o, i) \in Byte
<1>1. \A i \in 1 .. n :
        /\ MovedTo(m, pc, i) \in Addr
        /\ Operand(m, i) = l.prog[o + 1 + i]
        /\ l.prog[o + 1 + i] \in Byte
  <2> TAKE i \in 1 .. n
  <2>1. Len(l.prog) \in Nat BY ProgramBytes DEF Home
  <2>2. o + 1 + i \in 1 .. Len(l.prog) BY <2>1
  <2>3. l.addrs + o + i \in Word /\ l.addrs + o + i \in Addr
    BY SMTT(30), <2>1, MemSizeAssumption DEF Home, Word, Addr
  <2>4. /\ MovedTo(m, pc, i) = l.addrs + o + i
        /\ Frame(Advance(m, i), l, o + i, d)
    BY <2>3, FrameAdvance
  <2>5. Operand(m, i) = Advance(m, i)[l.addrs + o + i]
    BY <2>4 DEF Operand, ByteAfterMove, Advance, MovedTo
  <2>6. l.addrs + o + i = l.addrs + (o + 1 + i) - 1 BY DEF Home
  <2>7. Advance(m, i)[l.addrs + (o + 1 + i) - 1] = l.prog[o + 1 + i]
    BY <2>2, <2>4 DEF Frame
  <2> QED BY <2>2, <2>3, <2>4, <2>5, <2>6, <2>7, ProgramBytes DEF Home
<1> QED BY <1>1 DEF HasOperands, Arg

\* Where d words are on the stack, as many can be popped.
LEMMA FramePop ==
  ASSUME NEW l, Home(l), NEW m, NEW o, NEW d \in Nat, Frame(m, l, o, d),
         l.stack + (2 * d) <= MemSize
  PROVE  /\ \A n \in 0 .. d : CanPop(m, n)
         /\ d >= 1 => /\ Frame(Pop(m), l, o, d - 1)
                      /\ Top(m) = WordAt(m, l.stack + (2 * (d - 1)))
                      /\ Top(m) \in Word
<1>1. l.stack \in Nat /\ l.stack >= 32 BY ProgramBytes DEF Home
<1>2. \A i \in 1 .. (2 * d) :
        /\ MovedTo(m, sp, -i) = l.stack + (2 * d) - i
        /\ MovedTo(m, sp, -i) \in Addr
        /\ MovedTo(m, sp, -i) \in Word
        /\ MovedTo(m, sp, -i) >= 32
  <2> TAKE i \in 1 .. (2 * d)
  <2>1. Reg(m, sp) + (-i) = l.stack + (2 * d) - i BY <1>1 DEF Frame
  <2>2. l.stack + (2 * d) - i \in Word /\ l.stack + (2 * d) - i \in Addr
    BY <1>1, MemSizeAssumption DEF Word, Addr
  <2>3. l.stack + (2 * d) - i \in Int /\ l.stack + (2 * d) - i >= 32 BY <1>1
  <2> QED BY <2>1, <2>2, <2>3, U16Word DEF MovedTo
<1>3. ASSUME NEW n \in 0 .. d PROVE CanPop(m, n)
  <2>1. \A i \in 1 .. (2 * n) : i \in 1 .. (2 * d) OBVIOUS
  <2> QED BY <2>1, <1>2 DEF CanPop
<1>4. ASSUME d >= 1
      PROVE  /\ Frame(Pop(m), l, o, d - 1)
             /\ Top(m) = WordAt(m, l.stack + (2 * (d - 1)))
             /\ Top(m) \in Word
  <2> DEFINE lo == MovedTo(m, sp, -2)
             hi == MovedTo(m, sp, -1)
  <2>1. 1 \in 1 .. (2 * d) /\ 2 \in 1 .. (2 * d) BY <1>4
  <2>0. lo = l.stack + (2 * d) - 2 /\ lo \in Addr /\ lo \in Word /\ lo >= 32
    <3> HIDE DEF lo
    <3>1. MovedTo(m, sp, -2) = lo BY DEF lo
    <3> QED BY <1>2, <2>1, <3>1
  <2>2. lo = l.stack + (2 * (d - 1)) /\ lo \in Addr /\ lo \in Word /\ lo >= 32
    <3> HIDE DEF lo
    <3> QED BY <1>1, <2>0
  <2>3. hi = lo + 1 /\ hi \in Addr /\ hi \in Word /\ hi >= 32
    BY <1>1, <1>2, <2>1, <2>2
  <2>4. Frame(Pop(m), l, o, d - 1) BY <2>2, FrameMoveSp DEF Pop
  <2>5. m \in Memory BY DEF Frame
  <2>6. ByteAfterMove(m, sp, -2) = m[lo] /\ ByteAfterMove(m, sp, -1) = m[hi]
    BY <2>2, <2>3, <2>5, SetRegAbove DEF ByteAfterMove, sp
  <2>7. Top(m) = WordAt(m, lo) BY <2>3, <2>6 DEF Top, WordAt
  <2>8. WordAt(m, lo) \in Word BY <2>2, <2>3, <2>5, WordAtWord
  <2> QED BY <2>2, <2>4, <2>7, <2>8
<1> QED BY <1>3, <1>4

\* One byte pushed: sp moves by one, no other register and no other byte above
\* the register file changes.
LEMMA PushByteEffect ==
  ASSUME NEW m \in Memory, NEW b \in Byte, NEW s \in Addr, s >= 32,
         Reg(m, sp) = s
  PROVE  /\ PushByte(m, b) \in Memory
         /\ Reg(PushByte(m, b), sp) = s + 1
         /\ \A q \in 0 .. 15 : q # sp => Reg(PushByte(m, b), q) = Reg(m, q)
         /\ PushByte(m, b)[s] = b
         /\ \A a \in Addr : a >= 32 /\ a # s => PushByte(m, b)[a] = m[a]
<1> DEFINE n == SetReg(m, sp, s + 1)
<1>1. s + 1 \in Word /\ s \in Int /\ MovedTo(m, sp, 1) = s + 1
  BY MemSizeAssumption, U16Word DEF Addr, Word, MovedTo
<1>2. n \in Memory BY <1>1, SetRegType DEF sp
<1>3. PushByte(m, b) = [n EXCEPT ![s] = b] BY <1>1 DEF PushByte
<1>4. PushByte(m, b) \in Memory BY <1>2, <1>3 DEF Memory
<1>5. \A a \in Addr : a # s => PushByte(m, b)[a] = n[a]
  BY <1>2, <1>3 DEF Memory
<1>6. \A q \in 0 .. 15 : Reg(PushByte(m, b), q) = Reg(n, q)
  <2> TAKE q \in 0 .. 15
  <2>1. 2 * q \in Addr /\ (2 * q) + 1 \in Addr BY RegInMemory
  <2>2. 2 * q # s /\ (2 * q) + 1 # s BY <1>1
  <2> QED BY <1>5, <2>1, <2>2 DEF Reg, WordAt
<1>7. Reg(n, sp) = s + 1 BY <1>1, SetRegReads DEF sp
<1>8. \A q \in 0 .. 15 : q # sp => Reg(n, q) = Reg(m, q)
  BY <1>1, SetRegOther DEF sp
<1>9. PushByte(m, b)[s] = b BY <1>2, <1>3 DEF Memory
<1>10. \A a \in Addr : a >= 32 => n[a] = m[a] BY <1>1, SetRegAbove DEF sp
<1>11. sp \in 0 .. 15 BY DEF sp
<1> QED BY <1>4, <1>5, <1>6, <1>7, <1>8, <1>9, <1>10, <1>11

\* A word pushed lands in the two bytes at sp.
LEMMA PushEffect ==
  ASSUME NEW m \in Memory, NEW w \in Word, NEW s \in Addr, s >= 32,
         s + 1 \in Addr, Reg(m, sp) = s
  PROVE  /\ CanPush(m, w)
         /\ Push(m, w) \in Memory
         /\ Reg(Push(m, w), sp) = s + 2
         /\ \A q \in 0 .. 15 : q # sp => Reg(Push(m, w), q) = Reg(m, q)
         /\ WordAt(Push(m, w), s) = w
         /\ \A a \in Addr :
              a >= 32 /\ a # s /\ a # s + 1 => Push(m, w)[a] = m[a]
<1> DEFINE n == PushByte(m, w % 256)
           k == PushByte(n, w \div 256)
<1>0. w % 256 \in Byte /\ w \div 256 \in Byte BY WordBytes
<1>00. s \in Int /\ s + 1 >= 32 /\ s # s + 1 /\ (s + 1) + 1 = s + 2
  BY MemSizeAssumption DEF Addr
<1>1. /\ n \in Memory
      /\ Reg(n, sp) = s + 1
      /\ \A q \in 0 .. 15 : q # sp => Reg(n, q) = Reg(m, q)
      /\ n[s] = w % 256
      /\ \A a \in Addr : a >= 32 /\ a # s => n[a] = m[a]
  BY <1>0, PushByteEffect
<1>2. /\ k \in Memory
      /\ Reg(k, sp) = (s + 1) + 1
      /\ \A q \in 0 .. 15 : q # sp => Reg(k, q) = Reg(n, q)
      /\ k[s + 1] = w \div 256
      /\ \A a \in Addr : a >= 32 /\ a # s + 1 => k[a] = n[a]
  BY <1>0, <1>00, <1>1, PushByteEffect
<1>3. k = Push(m, w) BY DEF Push
<1>4. k[s] = w % 256 BY <1>00, <1>1, <1>2
<1>5. WordAt(k, s) = w BY <1>2, <1>4, WordBytes DEF WordAt
<1>6. CanPush(m, w) BY <1>1 DEF CanPush
<1> QED BY <1>00, <1>1, <1>2, <1>3, <1>5, <1>6

LEMMA FramePush ==
  ASSUME NEW l, Home(l), NEW m, NEW o, NEW d \in Nat, Frame(m, l, o, d),
         l.stack + (2 * (d + 1)) <= MemSize, NEW w \in Word
  PROVE  CanPush(m, w) /\ Frame(Push(m, w), l, o, d + 1)
<1> DEFINE s == l.stack + (2 * d)
<1>0. m \in Memory /\ Reg(m, sp) = s BY DEF Frame
<1>00. l.stack \in Nat /\ l.stack >= 32 BY ProgramBytes DEF Home
<1>1. s \in Addr /\ s + 1 \in Addr /\ s >= 32 /\ s >= l.stack
  BY <1>00, MemSizeAssumption DEF Addr
<1>2. /\ CanPush(m, w)
      /\ Push(m, w) \in Memory
      /\ Reg(Push(m, w), sp) = s + 2
      /\ \A q \in 0 .. 15 : q # sp => Reg(Push(m, w), q) = Reg(m, q)
      /\ \A a \in Addr :
           a >= 32 /\ a # s /\ a # s + 1 => Push(m, w)[a] = m[a]
  BY <1>0, <1>1, PushEffect
<1>3. \A i \in 1 .. Len(l.prog) :
        Push(m, w)[l.addrs + i - 1] = m[l.addrs + i - 1]
  <2> TAKE i \in 1 .. Len(l.prog)
  <2>1. l.addrs + i - 1 \in Addr /\ l.addrs + i - 1 >= 32
        /\ l.addrs + i - 1 < l.stack
    BY TextAddr
  <2>2. l.addrs + i - 1 \in Int BY <2>1, MemSizeAssumption DEF Addr
  <2>3. l.addrs + i - 1 # s /\ l.addrs + i - 1 # s + 1
    BY <1>00, <1>1, <2>1, <2>2
  <2> QED BY <1>2, <2>1, <2>3
<1>4. s + 2 = l.stack + (2 * (d + 1)) BY <1>00
<1> QED BY <1>2, <1>3, <1>4 DEF Frame, pc, sp, fp, bp

\* A word stored on the stack, wherever sp stands.
LEMMA FrameStore ==
  ASSUME NEW l, Home(l), NEW m, NEW o, NEW d, Frame(m, l, o, d),
         NEW a \in Addr, a >= l.stack, NEW w \in Word
  PROVE  Frame(SetWord(m, a, w), l, o, d)
<1>0. m \in Memory BY DEF Frame
<1>00. l.stack \in Nat /\ l.stack >= 32 /\ a \in Int
  BY ProgramBytes, MemSizeAssumption DEF Home, Addr
<1>1. SetWord(m, a, w) \in Memory BY <1>0, <1>00, SetWordType
<1>2. \A q \in {pc, sp, fp, bp} : Reg(SetWord(m, a, w), q) = Reg(m, q)
  <2> TAKE q \in {pc, sp, fp, bp}
  <2>1. q \in 0 .. 15 BY DEF pc, sp, fp, bp
  <2>2. 2 * q \in Addr /\ (2 * q) + 1 \in Addr /\ (2 * q) + 1 < a
    BY <1>00, <2>1, RegInMemory
  <2> QED BY <1>0, <1>00, <2>2, SetWordElsewhere DEF Reg
<1>3. \A i \in 1 .. Len(l.prog) :
        SetWord(m, a, w)[l.addrs + i - 1] = m[l.addrs + i - 1]
  <2> TAKE i \in 1 .. Len(l.prog)
  <2>1. l.addrs + i - 1 \in Addr /\ l.addrs + i - 1 < l.stack BY TextAddr
  <2>2. l.addrs + i - 1 \in Int BY <2>1, MemSizeAssumption DEF Addr
  <2>3. l.addrs + i - 1 # a /\ l.addrs + i - 1 # a + 1 BY <1>00, <2>1, <2>2
  <2> QED BY <1>0, <1>00, <2>1, <2>3, SetWordByte
<1> QED BY <1>1, <1>2, <1>3 DEF Frame

-----------------------------------------------------------------------------
(* A sound program at one of its instructions.                             *)

P == loaded.prog
T == Typing[loaded.prog]

IInv ==
  /\ TypeOK
  /\ loaded.addrs >= 2 * reg_cnt => Home(loaded)
  /\ InFrame
  /\ SoundNeverStrays

\* Which rule the discipline gives each opcode; those of the bodiless jumps
\* have none.
LEMMA TypingRule ==
  ASSUME NEW p, NEW h, NEW o, TypedInstruction(p, h, o)
  PROVE  LET op == p[o + 1]
             r == Arg(p, o, 1)
         IN /\ op \in Handled /\ op \notin {JNZ, JEQ, JGT}
            /\ op = PSH => Continues(h, o, 1, 0, 1)
            /\ op = PSH_LIT => Continues(h, o, 3, 0, 1)
            /\ op \in Binary => Continues(h, o, 1, 2, -1)
            /\ op = PSH_REG => Continues(h, o, 2, 0, 1) /\ r \in General
            /\ op = POP_REG => Continues(h, o, 2, 1, -1) /\ r \in General
            /\ op = PEK_REG => Continues(h, o, 2, 1, 0) /\ r \in General
            /\ op = CMP => Continues(h, o, 2, 2, -2) /\ r = sp
            /\ op = MOV => Continues(h, o, 3, 0, 0)
                           /\ {r, Arg(p, o, 2)} \subseteq General
            /\ op = PEK_OFF =>
                 /\ Arg(p, o, 2) < h[o]
                 /\ \/ Continues(h, o, 3, 0, 1) /\ r = sp
                    \/ Continues(h, o, 3, 0, 0) /\ r \in General
            /\ op \in {INC, DEC} =>
                 \/ Continues(h, o, 3, 0, 0) /\ r = sp /\ Arg(p, o, 2) < h[o]
                 \/ Continues(h, o, 2, 0, 0) /\ r \in General
            /\ op = JLT => /\ Continues(h, o, 3, 0, 0)
                           /\ JumpTarget(p, o) \in DOMAIN h
                           /\ h[JumpTarget(p, o)] = h[o]
BY DEF TypedInstruction, Handled, Binary, MOV, ADD, SUB, MUL, DIV, INC, DEC,
       PSH, PSH_LIT, PSH_REG, POP_REG, PEK_REG, PEK_OFF, JNZ, JEQ, JGT, JLT,
       CMP, RET

\* Any offset of the typing is inside the text, with a stack that fits.
LEMMA TypedOffset ==
  ASSUME Sound(loaded), Home(loaded), NEW o \in DOMAIN T
  PROVE  /\ o \in Nat /\ o < Len(P)
         /\ T[o] \in Nat
         /\ loaded.stack + (2 * T[o]) <= MemSize
         /\ TypedInstruction(P, T, o)
         /\ loaded.addrs + o \in Word /\ loaded.addrs + o - 1 \in Word
<1>1. WellTyped(P, T) BY TypingAssumption DEF Sound, P, T, Typed
<1>2. Len(P) \in Nat BY ProgramBytes DEF Home, P
<1>3. o \in 0 .. Len(P) - 1 BY <1>1 DEF WellTyped
<1>4. o \in Nat /\ o < Len(P) BY <1>2, <1>3
<1>5. T[o] \in Nat /\ TypedInstruction(P, T, o) BY <1>1 DEF WellTyped
<1>6. loaded.stack + (2 * T[o]) <= MemSize BY DEF Sound, P, T
<1>7. loaded.addrs + o < MemSize /\ loaded.addrs \in Nat /\ loaded.addrs >= 32
  BY <1>2, <1>4, MemSizeAssumption DEF Home, P
<1>8. loaded.addrs + o \in Word /\ loaded.addrs + o - 1 \in Word
  BY <1>4, <1>7, MemSizeAssumption DEF Word
<1> QED BY <1>4, <1>5, <1>6, <1>8

LEMMA AtInstruction ==
  ASSUME IInv, RunsSound
  PROVE  /\ Home(loaded) /\ Sound(loaded)
         /\ Offset \in DOMAIN T
         /\ Frame(mem, loaded, Offset, T[Offset])
         /\ Fetched
         /\ Opcode = P[Offset + 1]
<1>1. Sound(loaded) /\ Home(loaded) BY DEF IInv, RunsSound, Sound
<1>2. /\ Offset \in DOMAIN T
      /\ Reg(mem, sp) = loaded.stack + (2 * T[Offset])
      /\ Reg(mem, fp) = loaded.stack
      /\ Reg(mem, bp) = loaded.addrs
      /\ \A i \in 1 .. Len(P) : mem[loaded.addrs + i - 1] = P[i]
  BY DEF IInv, InFrame, Height, TextIntact, P, T
<1>3. mem \in Memory BY DEF IInv, TypeOK, Memory
<1>4. Reg(mem, pc) \in Nat /\ loaded.addrs \in Nat
  <2>1. Reg(mem, pc) \in Word BY <1>3, RegInMemory, WordAtWord DEF Reg, pc
  <2> QED BY <1>1, <2>1 DEF Word, Home
<1>5. Reg(mem, pc) = loaded.addrs + Offset BY <1>4 DEF Offset
<1>6. Frame(mem, loaded, Offset, T[Offset])
  BY <1>2, <1>3, <1>5 DEF Frame, P
<1>7. Offset \in Nat /\ Offset < Len(P) /\ Len(P) \in Nat
  BY <1>1, <1>2, TypedOffset, ProgramBytes DEF Home, P
<1>8. Fetched
  BY <1>1, <1>4, <1>5, <1>7, MemSizeAssumption DEF Fetched, Addr, Home, P
<1>9. mem[loaded.addrs + (Offset + 1) - 1] = P[Offset + 1] BY <1>2, <1>7
<1>10. loaded.addrs + (Offset + 1) - 1 = Reg(mem, pc) BY <1>4, <1>5, <1>7
<1> QED BY <1>1, <1>2, <1>6, <1>8, <1>9, <1>10 DEF Opcode

\* The last byte of n from the byte o on, counted both ways.
LEMMA LastByte ==
  ASSUME NEW a \in Int, NEW o \in Int, NEW n \in Int
  PROVE  a + (o + n) - 1 = a + o + (n - 1)
OBVIOUS

\* The instruction that follows, n bytes on.
LEMMA NextInstruction ==
  ASSUME IInv, RunsSound, NEW n \in 1 .. 3, NEW needs \in Nat, NEW delta \in Int,
         Continues(T, Offset, n, needs, delta)
  PROVE  /\ Offset + n \in DOMAIN T
         /\ Offset + n < Len(P) /\ Offset \in Nat
         /\ T[Offset] \in Nat /\ T[Offset] >= needs
         /\ T[Offset + n] = T[Offset] + delta /\ T[Offset + n] \in Nat
         /\ loaded.stack + (2 * T[Offset]) <= MemSize
         /\ loaded.stack + (2 * (T[Offset] + delta)) <= MemSize
         /\ loaded.addrs + Offset + (n - 1) \in Word
<1>1. Offset \in DOMAIN T /\ Home(loaded) /\ Sound(loaded) BY AtInstruction
<1>2. Offset + n \in DOMAIN T /\ T[Offset] >= needs
      /\ T[Offset + n] = T[Offset] + delta
  BY DEF Continues
<1>3. Offset \in Nat /\ T[Offset] \in Nat
      /\ loaded.stack + (2 * T[Offset]) <= MemSize
  BY <1>1, TypedOffset
<1>4. /\ Offset + n < Len(P) /\ T[Offset + n] \in Nat
      /\ loaded.stack + (2 * T[Offset + n]) <= MemSize
      /\ loaded.addrs + (Offset + n) - 1 \in Word
  BY <1>1, <1>2, TypedOffset
<1>5. loaded.addrs \in Int /\ Offset \in Int /\ n \in Int
  BY <1>1, <1>3 DEF Home
<1>6. loaded.addrs + (Offset + n) - 1 = loaded.addrs + Offset + (n - 1)
  BY <1>5, LastByte
<1> QED BY <1>2, <1>3, <1>4, <1>6

\* The turn ends with pc at an instruction again, and with its stack.
Lands ==
  /\ UNCHANGED <<status, loaded>>
  /\ \E o \in DOMAIN T : Frame(mem', loaded, o, T[o])

LEMMA TurnLands ==
  ASSUME IInv, RunsSound, NEW o \in Int, o + 1 \in DOMAIN T,
         NEW m, Frame(m, loaded, o, T[o + 1]), mem' = Advance(m, 1),
         UNCHANGED <<status, loaded>>
  PROVE  Lands
<1>1. Home(loaded) /\ Sound(loaded) BY AtInstruction
<1>2. loaded.addrs + (o + 1) \in Word BY <1>1, TypedOffset
<1>3. loaded.addrs + o + 1 = loaded.addrs + (o + 1) BY <1>1 DEF Home
<1>4. Frame(Advance(m, 1), loaded, o + 1, T[o + 1])
  BY <1>1, <1>2, <1>3, FrameAdvance
<1> QED BY <1>4 DEF Lands

-----------------------------------------------------------------------------
(* One lemma per handler: run at an instruction of a sound program, it     *)
(* makes no access out of bounds and lands on the next one.                *)

\* The operands of an instruction of k bytes.
LEMMA InstructionOperands ==
  ASSUME IInv, RunsSound, NEW k \in 1 .. 3, NEW needs \in Nat, NEW delta \in Int,
         Continues(T, Offset, k, needs, delta),
         NEW n \in Nat, n < k
  PROVE  /\ HasOperands(mem, n)
         /\ \A i \in 1 .. n : /\ Operand(mem, i) = Arg(P, Offset, i)
                              /\ Arg(P, Offset, i) \in Byte
         /\ Frame(Advance(mem, n), loaded, Offset + n, T[Offset])
<1>1. Home(loaded) /\ Frame(mem, loaded, Offset, T[Offset]) BY AtInstruction
<1>2. Offset + k < Len(P) /\ Offset \in Nat BY NextInstruction
<1>3. Len(P) \in Nat /\ loaded.addrs \in Nat /\ loaded.addrs + Len(P) <= MemSize
  BY <1>1, ProgramBytes DEF Home, P
<1>4. Offset + n < Len(P) BY <1>2, <1>3
<1>5. loaded.addrs + Offset + n \in Word
  <2>1. loaded.addrs + Offset + (k - 1) \in Word BY NextInstruction
  <2>2. loaded.addrs + Offset \in Nat /\ n <= k - 1 BY <1>2, <1>3
  <2> QED BY <2>1, <2>2 DEF Word
<1>6. Frame(Advance(mem, n), loaded, Offset + n, T[Offset])
  BY <1>1, <1>2, <1>5, FrameAdvance
<1> QED BY <1>1, <1>2, <1>4, <1>6, FrameOperand DEF P

LEMMA PushRegLands ==
  ASSUME IInv, RunsSound, NEW op, NEW n \in {0, 1}, NEW k \in {1, 2}, k = n + 1,
         NEW STATE r, Continues(T, Offset, k, 0, 1), r \in General,
         PushReg(op, n, r)
  PROVE  Lands
<1> DEFINE m == Advance(mem, n)
           d == T[Offset]
<1>1. Home(loaded) BY AtInstruction
<1>2. k \in 1 .. 3 /\ n \in Nat /\ n < k OBVIOUS
<1>3. /\ Offset + k \in DOMAIN T
      /\ Offset \in Nat /\ d \in Nat
      /\ T[Offset + k] = d + 1
      /\ loaded.stack + (2 * (d + 1)) <= MemSize
  BY <1>2, NextInstruction
<1>4. HasOperands(mem, n) /\ Frame(m, loaded, Offset + n, d)
  BY <1>2, InstructionOperands
<1>6. r \in 0 .. 15 BY DEF General, imm, ret
<1>7. Reg(m, r) \in Word
  BY <1>4, <1>6, RegInMemory, WordAtWord DEF Frame, Reg
<1>8. CanPush(m, Reg(m, r)) /\ Frame(Push(m, Reg(m, r)), loaded, Offset + n, d + 1)
  BY <1>1, <1>3, <1>4, <1>7, FramePush
<1>9. mem' = Advance(Push(m, Reg(m, r)), 1) /\ UNCHANGED <<status, loaded>>
  BY <1>4, <1>6, <1>8, RegInMemory DEF PushReg, Execute
<1>10. Offset + n \in Int /\ (Offset + n) + 1 = Offset + k BY <1>3
<1> QED BY <1>3, <1>8, <1>9, <1>10, TurnLands

LEMMA PushHandlersLand ==
  ASSUME IInv, RunsSound, push_handler \/ push_reg_handler
  PROVE  Lands
<1>0. TypedInstruction(P, T, Offset) /\ Opcode = P[Offset + 1]
  BY AtInstruction, TypedOffset
<1>1. CASE push_handler
  <2>1. Opcode = PSH BY <1>1 DEF push_handler, PushReg, Execute
  <2>2. Continues(T, Offset, 1, 0, 1) BY <1>0, <2>1, TypingRule
  <2>3. imm \in General BY DEF imm, General, ret
  <2>4. PushReg(PSH, 0, imm) BY <1>1 DEF push_handler
  <2> QED BY <2>2, <2>3, <2>4, PushRegLands
<1>2. CASE push_reg_handler
  <2>1. Opcode = PSH_REG BY <1>2 DEF push_reg_handler, PushReg, Execute
  <2>2. Continues(T, Offset, 2, 0, 1) /\ Arg(P, Offset, 1) \in General
    BY <1>0, <2>1, TypingRule
  <2>3. Operand(mem, 1) = Arg(P, Offset, 1) BY <2>2, InstructionOperands
  <2>4. Operand(mem, 1) \in General BY <2>2, <2>3
  <2>5. PushReg(PSH_REG, 1, Operand(mem, 1)) BY <1>2 DEF push_reg_handler
  <2> QED BY <2>2, <2>4, <2>5, PushRegLands
<1> QED BY <1>1, <1>2

LEMMA PushLiteralLands ==
  ASSUME IInv, RunsSound, push_literal_handler
  PROVE  Lands
<1> DEFINE m == Advance(mem, 2)
           w == OperandWord(mem)
           d == T[Offset]
<1>0. Opcode = PSH_LIT BY DEF push_literal_handler, Execute
<1>1. Home(loaded) BY AtInstruction
<1>2. Continues(T, Offset, 3, 0, 1)
  BY <1>0, AtInstruction, TypedOffset, TypingRule
<1>3. /\ Offset + 3 \in DOMAIN T
      /\ Offset \in Nat /\ d \in Nat
      /\ T[Offset + 3] = d + 1
      /\ loaded.stack + (2 * (d + 1)) <= MemSize
  BY <1>2, NextInstruction
<1>4. HasOperands(mem, 2) /\ Frame(m, loaded, Offset + 2, d)
  BY <1>2, InstructionOperands
<1>5. w \in Word BY <1>4, OperandWordWord DEF IInv, TypeOK, Memory
<1>6. CanPush(m, w) /\ Frame(Push(m, w), loaded, Offset + 2, d + 1)
  BY <1>1, <1>3, <1>4, <1>5, FramePush
<1>7. mem' = Advance(Push(m, w), 1) /\ UNCHANGED <<status, loaded>>
  BY <1>4, <1>6 DEF push_literal_handler, Execute
<1>8. Offset + 2 \in Int /\ (Offset + 2) + 1 = Offset + 3 BY <1>3
<1> QED BY <1>3, <1>6, <1>7, <1>8, TurnLands

LEMMA PopRegLands ==
  ASSUME IInv, RunsSound, pop_reg_handler
  PROVE  Lands
<1> DEFINE m == Advance(mem, 1)
           r == Operand(mem, 1)
           d == T[Offset]
           n == SetReg(Pop(m), r, Top(m))
<1>0. Opcode = POP_REG BY DEF pop_reg_handler, Execute
<1>1. Home(loaded) BY AtInstruction
<1>2. Continues(T, Offset, 2, 1, -1) /\ Arg(P, Offset, 1) \in General
  BY <1>0, AtInstruction, TypedOffset, TypingRule
<1>3. /\ Offset + 2 \in DOMAIN T
      /\ Offset \in Nat /\ d \in Nat /\ d >= 1
      /\ T[Offset + 2] = d - 1
      /\ loaded.stack + (2 * d) <= MemSize
  BY <1>2, NextInstruction
<1>4. /\ HasOperands(mem, 1) /\ Frame(m, loaded, Offset + 1, d)
      /\ r = Arg(P, Offset, 1)
  BY <1>2, InstructionOperands
<1>5. /\ CanPop(m, 1) /\ Frame(Pop(m), loaded, Offset + 1, d - 1)
      /\ Top(m) \in Word
  BY <1>1, <1>3, <1>4, FramePop
<1>6. Frame(n, loaded, Offset + 1, d - 1)
  BY <1>1, <1>2, <1>4, <1>5, FrameRegister
<1>7. IsReg(r) BY <1>2, <1>4, RegInMemory DEF General, imm, ret
<1>8. mem' = Advance(n, 1) /\ UNCHANGED <<status, loaded>>
  BY <1>4, <1>5, <1>7 DEF pop_reg_handler, Execute
<1>9. Offset + 1 \in Int /\ (Offset + 1) + 1 = Offset + 2 BY <1>3
<1> QED BY <1>3, <1>6, <1>8, <1>9, TurnLands

\* A word of the stack is in memory, above the text.
LEMMA StackWord ==
  ASSUME Home(loaded), NEW d \in Nat, loaded.stack + (2 * d) <= MemSize,
         NEW k \in Nat, k < d
  PROVE  LET a == loaded.stack + (2 * k)
         IN  /\ a \in Addr /\ a + 1 \in Addr /\ a \in Int
             /\ a >= loaded.stack /\ a >= 32
             /\ U16(a) = a /\ IsWordAddr(a)
<1> DEFINE a == loaded.stack + (2 * k)
<1>1. loaded.stack \in Nat /\ loaded.stack >= 32 BY ProgramBytes DEF Home
<1>2. a \in Nat /\ a + 1 < MemSize /\ a >= loaded.stack BY <1>1, MemSizeAssumption
<1>3. a \in Addr /\ a + 1 \in Addr BY <1>2, MemSizeAssumption DEF Addr
<1>4. U16(a) = a /\ U16(a + 1) = a + 1
  BY <1>2, MemSizeAssumption DEF U16
<1> QED BY <1>1, <1>2, <1>3, <1>4 DEF IsWordAddr

LEMMA PeekLands ==
  ASSUME IInv, RunsSound, peek_handler
  PROVE  Lands
<1> DEFINE m == Advance(mem, 1)
           r == Operand(mem, 1)
           d == T[Offset]
           a == MovedTo(m, sp, -2)
           n == SetReg(m, r, WordAt(m, a))
<1>0. Opcode = PEK_REG BY DEF peek_handler, Execute
<1>1. Home(loaded) BY AtInstruction
<1>2. Continues(T, Offset, 2, 1, 0) /\ Arg(P, Offset, 1) \in General
  BY <1>0, AtInstruction, TypedOffset, TypingRule
<1>3. /\ Offset + 2 \in DOMAIN T
      /\ Offset \in Nat /\ d \in Nat /\ d >= 1
      /\ T[Offset + 2] = d
      /\ loaded.stack + (2 * d) <= MemSize
  BY <1>2, NextInstruction
<1>4. /\ HasOperands(mem, 1) /\ Frame(m, loaded, Offset + 1, d)
      /\ r = Arg(P, Offset, 1)
  BY <1>2, InstructionOperands
<1>50. d - 1 \in Nat /\ d - 1 < d BY <1>3
<1>5. a = loaded.stack + (2 * (d - 1))
  <2>1. Reg(m, sp) = loaded.stack + (2 * d) /\ loaded.stack \in Nat
    BY <1>1, <1>4 DEF Frame, Home
  <2>2. Reg(m, sp) + (-2) = loaded.stack + (2 * (d - 1)) BY <1>3, <2>1
  <2>3. U16(loaded.stack + (2 * (d - 1))) = loaded.stack + (2 * (d - 1))
    BY <1>1, <1>3, <1>50, StackWord
  <2> QED BY <2>2, <2>3 DEF MovedTo
<1>6. a \in Addr /\ a + 1 \in Addr /\ IsWordAddr(a)
  BY <1>1, <1>3, <1>5, <1>50, StackWord
<1>7. WordAt(m, a) \in Word BY <1>4, <1>6, WordAtWord DEF Frame
<1>8. Frame(n, loaded, Offset + 1, d)
  BY <1>1, <1>2, <1>4, <1>7, FrameRegister
<1>9. IsReg(r) BY <1>2, <1>4, RegInMemory DEF General, imm, ret
<1>10. mem' = Advance(n, 1) /\ UNCHANGED <<status, loaded>>
  BY <1>4, <1>6, <1>9 DEF peek_handler, Execute
<1>11. Offset + 1 \in Int /\ (Offset + 1) + 1 = Offset + 2 BY <1>3
<1> QED BY <1>3, <1>8, <1>10, <1>11, TurnLands

\* The address PEK_OFF computes for slot k is that of the slot.
LEMMA SlotInFrame ==
  ASSUME Home(loaded), NEW m, NEW o, NEW d \in Nat, Frame(m, loaded, o, d),
         loaded.stack + (2 * d) <= MemSize, NEW k \in Nat, k < d
  PROVE  /\ SlotAddr(Reg(m, fp), k) = loaded.stack + (2 * k)
         /\ WordAt(m, loaded.stack + (2 * k)) \in Word
<1>1. Reg(m, fp) = loaded.stack /\ m \in Memory BY DEF Frame
<1>2. SlotAddr(Reg(m, fp), k) = U16(loaded.stack + (2 * k))
  BY <1>1 DEF SlotAddr
<1> QED BY <1>1, <1>2, StackWord, WordAtWord

LEMMA PeekOffsetLands ==
  ASSUME IInv, RunsSound, peek_offset_handler
  PROVE  Lands
<1> DEFINE m == Advance(mem, 2)
           r == Operand(mem, 1)
           k == Operand(mem, 2)
           d == T[Offset]
           a == SlotAddr(Reg(m, fp), k)
           w == WordAt(m, a)
           n == IF r = sp THEN Push(m, w) ELSE SetReg(m, r, w)
<1>0. Opcode = PEK_OFF BY DEF peek_offset_handler, Execute
<1>1. Home(loaded) BY AtInstruction
<1>2. /\ Arg(P, Offset, 2) < d
      /\ \/ Continues(T, Offset, 3, 0, 1) /\ Arg(P, Offset, 1) = sp
         \/ Continues(T, Offset, 3, 0, 0) /\ Arg(P, Offset, 1) \in General
  BY <1>0, AtInstruction, TypedOffset, TypingRule
<1>3. /\ Offset + 3 \in DOMAIN T
      /\ Offset \in Nat /\ d \in Nat
      /\ loaded.stack + (2 * d) <= MemSize
  BY <1>2, NextInstruction
<1>4. /\ HasOperands(mem, 2) /\ Frame(m, loaded, Offset + 2, d)
      /\ r = Arg(P, Offset, 1) /\ k = Arg(P, Offset, 2) /\ k \in Byte
  BY <1>2, InstructionOperands
<1>5. k \in Nat /\ k < d BY <1>2, <1>4 DEF Byte
<1>6. a = loaded.stack + (2 * k) /\ w \in Word /\ IsWordAddr(a)
  BY <1>1, <1>3, <1>4, <1>5, SlotInFrame, StackWord
<1>7. Offset + 2 \in Int /\ (Offset + 2) + 1 = Offset + 3 BY <1>3
<1>8. CASE Continues(T, Offset, 3, 0, 1) /\ r = sp
  <2>1. T[Offset + 3] = d + 1 /\ loaded.stack + (2 * (d + 1)) <= MemSize
    BY <1>8, NextInstruction
  <2>2. CanPush(m, w) /\ Frame(n, loaded, Offset + 2, d + 1)
    BY <1>1, <1>3, <1>4, <1>6, <1>8, <2>1, FramePush
  <2>3. mem' = Advance(n, 1) /\ UNCHANGED <<status, loaded>>
    BY <1>4, <1>6, <1>8, <2>2 DEF peek_offset_handler, Execute
  <2> QED BY <1>3, <1>7, <2>1, <2>2, <2>3, TurnLands
<1>9. CASE Continues(T, Offset, 3, 0, 0) /\ r \in General
  <2>1. T[Offset + 3] = d BY <1>3, <1>9, NextInstruction
  <2>2. r # sp /\ IsReg(r) BY <1>9, RegInMemory DEF General, imm, ret, sp
  <2>3. Frame(n, loaded, Offset + 2, d)
    BY <1>1, <1>4, <1>6, <1>9, <2>2, FrameRegister
  <2>4. mem' = Advance(n, 1) /\ UNCHANGED <<status, loaded>>
    BY <1>4, <1>6, <2>2 DEF peek_offset_handler, Execute
  <2> QED BY <1>3, <1>7, <2>1, <2>3, <2>4, TurnLands
<1> QED BY <1>2, <1>4, <1>8, <1>9

LEMMA BinaryLands ==
  ASSUME IInv, RunsSound, NEW op \in Binary, binary_stack_expression(op)
  PROVE  Lands
<1> DEFINE b == I16(Top(mem))
           a == I16(Top(Pop(mem)))
           m == Pop(Pop(mem))
           w == Result(op, a, b)
           d == T[Offset]
<1>0. Opcode = op BY DEF binary_stack_expression, Execute
<1>1. Home(loaded) /\ Frame(mem, loaded, Offset, d) BY AtInstruction
<1>2. Continues(T, Offset, 1, 2, -1)
  BY <1>0, AtInstruction, TypedOffset, TypingRule
<1>3. /\ Offset + 1 \in DOMAIN T
      /\ Offset \in Nat /\ d \in Nat /\ d >= 2
      /\ T[Offset + 1] = d - 1
      /\ loaded.stack + (2 * d) <= MemSize
  BY <1>2, NextInstruction
<1>4. /\ CanPop(mem, 2) /\ Frame(Pop(mem), loaded, Offset, d - 1)
      /\ Top(mem) \in Word
  BY <1>1, <1>3, FramePop
<1>5. loaded.stack \in Nat BY <1>1 DEF Home
<1>6. /\ loaded.stack + (2 * (d - 1)) <= MemSize
      /\ d - 1 \in Nat /\ d - 1 >= 1 /\ (d - 1) - 1 = d - 2
      /\ d - 2 \in Nat /\ (d - 2) + 1 = d - 1
  <2> HIDE DEF d
  <2>1. MemSize \in Nat BY MemSizeAssumption
  <2> QED BY <1>3, <1>5, <2>1
<1>7. Frame(m, loaded, Offset, d - 2) /\ Top(Pop(mem)) \in Word
  BY <1>1, <1>4, <1>6, FramePop
<1>8. a \in Int16 /\ b \in Int16 BY <1>4, <1>7, I16Int
<1>9. op = DIV => b # 0 BY <1>4 DEF binary_stack_expression
<1>10. w \in Word BY <1>8, <1>9, ResultWord
<1>11. CanPush(m, w) /\ Frame(Push(m, w), loaded, Offset, d - 1)
  BY <1>1, <1>6, <1>7, <1>10, FramePush
<1>12. mem' = Advance(Push(m, w), 1) /\ UNCHANGED <<status, loaded>>
  BY <1>4, <1>11 DEF binary_stack_expression, Execute
<1> QED BY <1>3, <1>11, <1>12, TurnLands

\* While the address fits in eight bits, INC and DEC compute the slot's.
LEMMA EightBitSlot ==
  ASSUME NEW f \in Nat, NEW k \in Nat, f + (2 * k) + 2 < 256
  PROVE  SlotAddr8(f, k) = f + (2 * k)
<1>1. (2 * k) % 256 = 2 * k OBVIOUS
<1>2. ((2 * k) + f + 2) % 256 = f + (2 * k) + 2 OBVIOUS
<1>3. (f + (2 * k) + 2) - 2 = f + (2 * k) /\ f + (2 * k) \in Word BY DEF Word
<1> QED BY <1>1, <1>2, <1>3, U16Word DEF SlotAddr8

LEMMA AddAtFrame ==
  ASSUME NEW l, Home(l), NEW m, NEW o, NEW d, Frame(m, l, o, d),
         NEW a \in Addr, a + 1 \in Addr, a >= l.stack, NEW n \in Int
  PROVE  Frame(AddAt(m, a, n), l, o, d)
<1>1. WordAt(m, a) + n \in Int BY WordAtWord DEF Frame, Word
<1>2. U16(WordAt(m, a) + n) \in Word BY <1>1, U16Word
<1> QED BY <1>2, FrameStore DEF AddAt

\* What a sound INC or DEC computes: the word it changes, and that it may.
LEMMA CountedSlot ==
  ASSUME IInv, RunsSound, Opcode \in {INC, DEC},
         Continues(T, Offset, 3, 0, 0), Arg(P, Offset, 1) = sp,
         Arg(P, Offset, 2) < T[Offset]
  PROVE  LET m == Advance(mem, 2)
             k == Operand(mem, 2)
             a == loaded.stack + (2 * k)
         IN  /\ HasOperands(mem, 1) /\ HasOperands(mem, 2)
             /\ Operand(mem, 1) = sp /\ k \in Nat
             /\ Frame(m, loaded, Offset + 2, T[Offset])
             /\ SlotAddr8(Reg(m, fp), k) = a
             /\ SlotAddr(Reg(mem, fp), k) = a
             /\ a \in Addr /\ a + 1 \in Addr /\ a >= loaded.stack
             /\ IsWordAddr(a)
<1> DEFINE m == Advance(mem, 2)
           k == Operand(mem, 2)
           a == loaded.stack + (2 * k)
           d == T[Offset]
<1>1. /\ Home(loaded) /\ Sound(loaded) /\ Offset \in DOMAIN T
      /\ Frame(mem, loaded, Offset, d)
      /\ Opcode = P[Offset + 1]
  BY AtInstruction
<1>2. /\ HasOperands(mem, 1) /\ HasOperands(mem, 2)
      /\ Operand(mem, 1) = sp /\ k = Arg(P, Offset, 2) /\ k \in Byte
      /\ Frame(m, loaded, Offset + 2, d)
  BY InstructionOperands
<1>3. k \in Nat /\ k < d BY <1>2 DEF Byte
<1>4. d \in Nat /\ loaded.stack + (2 * d) <= MemSize BY <1>1, TypedOffset
<1>5. loaded.stack + (2 * k) + 2 < 256 BY <1>1, <1>2 DEF Sound, P, T
<1>6. Reg(m, fp) = loaded.stack /\ loaded.stack \in Nat
  BY <1>1, <1>2 DEF Frame, Home
<1>7. SlotAddr8(Reg(m, fp), k) = a BY <1>3, <1>5, <1>6, EightBitSlot
<1>8. SlotAddr(Reg(mem, fp), k) = a BY <1>1, <1>3, <1>4, SlotInFrame
<1>9. a \in Addr /\ a + 1 \in Addr /\ a >= loaded.stack /\ IsWordAddr(a)
  BY <1>1, <1>3, <1>4, StackWord
<1> QED BY <1>2, <1>3, <1>7, <1>8, <1>9

LEMMA IncDecLands ==
  ASSUME IInv, RunsSound, NEW op \in {INC, DEC}, NEW d \in Int, IncDec(op, d)
  PROVE  Lands
<1>0. Opcode = op BY DEF IncDec, Execute
<1>1. Home(loaded) BY AtInstruction
<1>2. \/ /\ Continues(T, Offset, 3, 0, 0) /\ Arg(P, Offset, 1) = sp
         /\ Arg(P, Offset, 2) < T[Offset]
      \/ Continues(T, Offset, 2, 0, 0) /\ Arg(P, Offset, 1) \in General
  BY <1>0, AtInstruction, TypedOffset, TypingRule
<1>3. CASE /\ Continues(T, Offset, 3, 0, 0) /\ Arg(P, Offset, 1) = sp
           /\ Arg(P, Offset, 2) < T[Offset]
  <2> DEFINE m == Advance(mem, 2)
             a == loaded.stack + (2 * Operand(mem, 2))
  <2>1. /\ HasOperands(mem, 1) /\ HasOperands(mem, 2) /\ Operand(mem, 1) = sp
        /\ Frame(m, loaded, Offset + 2, T[Offset])
        /\ SlotAddr8(Reg(m, fp), Operand(mem, 2)) = a
        /\ a \in Addr /\ a + 1 \in Addr /\ a >= loaded.stack /\ IsWordAddr(a)
    BY <1>0, <1>3, CountedSlot
  <2>2. /\ Offset + 3 \in DOMAIN T /\ Offset \in Nat
        /\ T[Offset + 3] = T[Offset]
    BY <1>3, NextInstruction
  <2>3. Frame(AddAt(m, a, d), loaded, Offset + 2, T[Offset])
    BY <1>1, <2>1, AddAtFrame
  <2>4. mem' = Advance(AddAt(m, a, d), 1) /\ UNCHANGED <<status, loaded>>
    BY <2>1 DEF IncDec, Execute
  <2>5. Offset + 2 \in Int /\ (Offset + 2) + 1 = Offset + 3 BY <2>2
  <2> QED BY <2>2, <2>3, <2>4, <2>5, TurnLands
<1>4. CASE Continues(T, Offset, 2, 0, 0) /\ Arg(P, Offset, 1) \in General
  <2> DEFINE m == Advance(mem, 1)
             r == Operand(mem, 1)
             w == U16(Reg(m, r) + d)
  <2>1. /\ HasOperands(mem, 1) /\ r = Arg(P, Offset, 1)
        /\ Frame(m, loaded, Offset + 1, T[Offset])
    BY <1>4, InstructionOperands
  <2>2. /\ Offset + 2 \in DOMAIN T /\ Offset \in Nat
        /\ T[Offset + 2] = T[Offset]
    BY <1>4, NextInstruction
  <2>3. r \in General /\ r # sp /\ r \in 0 .. 15
    BY <1>4, <2>1 DEF General, imm, ret, sp
  <2>4. Reg(m, r) \in Word
    BY <2>1, <2>3, RegInMemory, WordAtWord DEF Reg, Frame
  <2>5. w \in Word BY <2>4, U16Word DEF Word
  <2>6. AddAt(m, 2 * r, d) = SetReg(m, r, w) BY DEF AddAt, SetReg, Reg
  <2>7. Frame(AddAt(m, 2 * r, d), loaded, Offset + 1, T[Offset])
    BY <1>1, <2>1, <2>3, <2>5, <2>6, FrameRegister
  <2>8. IsWordAddr(2 * r)
    <3>1. 2 * r \in Addr /\ (2 * r) + 1 \in Addr BY <2>3, RegInMemory
    <3>2. U16((2 * r) + 1) = (2 * r) + 1 BY <2>3 DEF U16
    <3> QED BY <3>1, <3>2 DEF IsWordAddr
  <2>9. mem' = Advance(AddAt(m, 2 * r, d), 1) /\ UNCHANGED <<status, loaded>>
    BY <2>1, <2>3, <2>8 DEF IncDec, Execute
  <2>10. Offset + 1 \in Int /\ (Offset + 1) + 1 = Offset + 2 BY <2>2
  <2> QED BY <2>2, <2>7, <2>9, <2>10, TurnLands
<1> QED BY <1>2, <1>3, <1>4

LEMMA CmpLands ==
  ASSUME IInv, RunsSound, cmp_handler
  PROVE  Lands
<1> DEFINE m == Advance(mem, 1)
           b == I16(Top(m))
           a == I16(Top(Pop(m)))
           d == T[Offset]
           n == SetReg(Pop(Pop(m)), imm, U16(a - b))
<1>0. Opcode = CMP BY DEF cmp_handler, Execute
<1>1. Home(loaded) BY AtInstruction
<1>2. Continues(T, Offset, 2, 2, -2) /\ Arg(P, Offset, 1) = sp
  BY <1>0, AtInstruction, TypedOffset, TypingRule
<1>3. /\ Offset + 2 \in DOMAIN T /\ Offset \in Nat /\ d \in Nat
      /\ loaded.stack + (2 * d) <= MemSize
      /\ d >= 2 /\ T[Offset + 2] = d - 2
  BY <1>2, NextInstruction
<1>4. /\ HasOperands(mem, 1) /\ Frame(m, loaded, Offset + 1, d)
      /\ Operand(mem, 1) = sp
  BY <1>2, InstructionOperands
<1>5. CanPop(m, 2) /\ Frame(Pop(m), loaded, Offset + 1, d - 1) /\ Top(m) \in Word
  BY <1>1, <1>3, <1>4, FramePop
<1>6. /\ loaded.stack + (2 * (d - 1)) <= MemSize
      /\ d - 1 \in Nat /\ d - 1 >= 1 /\ (d - 1) - 1 = d - 2
  <2> HIDE DEF d
  <2>1. MemSize \in Nat /\ loaded.stack \in Nat
    BY <1>1, MemSizeAssumption DEF Home
  <2> QED BY <1>3, <2>1
<1>7. Frame(Pop(Pop(m)), loaded, Offset + 1, d - 2) /\ Top(Pop(m)) \in Word
  BY <1>1, <1>5, <1>6, FramePop
<1>8. U16(a - b) \in Word BY <1>5, <1>7, I16Int, U16Word DEF Int16
<1>9. Frame(n, loaded, Offset + 1, d - 2)
  BY <1>1, <1>7, <1>8, FrameRegister DEF General, imm, ret
<1>10. mem' = Advance(n, 1) /\ UNCHANGED <<status, loaded>>
  BY <1>4, <1>5 DEF cmp_handler, Execute
<1>11. Offset + 1 \in Int /\ (Offset + 1) + 1 = Offset + 2 BY <1>3
<1> QED BY <1>3, <1>9, <1>10, <1>11, TurnLands

LEMMA MovLands ==
  ASSUME IInv, RunsSound, mov_handler
  PROVE  Lands
<1> DEFINE m == Advance(mem, 2)
           x == Operand(mem, 1)
           y == Operand(mem, 2)
           d == T[Offset]
           n == SetReg(m, x, Reg(m, y))
<1>0. Opcode = MOV BY DEF mov_handler, Execute
<1>1. Home(loaded) BY AtInstruction
<1>2. Continues(T, Offset, 3, 0, 0)
      /\ {Arg(P, Offset, 1), Arg(P, Offset, 2)} \subseteq General
  BY <1>0, AtInstruction, TypedOffset, TypingRule
<1>3. Offset + 3 \in DOMAIN T /\ Offset \in Nat /\ d \in Nat
      /\ T[Offset + 3] = d
  BY <1>2, NextInstruction
<1>4. /\ HasOperands(mem, 2) /\ Frame(m, loaded, Offset + 2, d)
      /\ x = Arg(P, Offset, 1) /\ y = Arg(P, Offset, 2)
  BY <1>2, InstructionOperands
<1>5. x \in General /\ y \in General /\ x \in 0 .. 15 /\ y \in 0 .. 15
  BY <1>2, <1>4 DEF General, imm, ret
<1>6. Reg(m, y) \in Word BY <1>4, <1>5, RegInMemory, WordAtWord DEF Reg, Frame
<1>7. Frame(n, loaded, Offset + 2, d) BY <1>1, <1>4, <1>5, <1>6, FrameRegister
<1>8. mem' = Advance(n, 1) /\ UNCHANGED <<status, loaded>>
  BY <1>4, <1>5, RegInMemory DEF mov_handler, Execute
<1>9. Offset + 2 \in Int /\ (Offset + 2) + 1 = Offset + 3 BY <1>3
<1> QED BY <1>3, <1>7, <1>8, <1>9, TurnLands

LEMMA JumpLtLands ==
  ASSUME IInv, RunsSound, jump_lt_handler
  PROVE  Lands
<1> DEFINE m == Advance(mem, 2)
           back == I16(OperandWord(mem))
           d == T[Offset]
           t == JumpTarget(P, Offset)
           n == Advance(m, -back)
<1>0. Opcode = JLT BY DEF jump_lt_handler, Execute
<1>1. Home(loaded) /\ Sound(loaded) BY AtInstruction
<1>2. Continues(T, Offset, 3, 0, 0) /\ t \in DOMAIN T /\ T[t] = d
  BY <1>0, AtInstruction, TypedOffset, TypingRule
<1>3. Offset + 3 \in DOMAIN T /\ Offset \in Nat /\ T[Offset + 3] = d /\ d \in Nat
  BY <1>2, NextInstruction
<1>4. /\ HasOperands(mem, 2) /\ Frame(m, loaded, Offset + 2, d)
      /\ Operand(mem, 1) = Arg(P, Offset, 1)
      /\ Operand(mem, 2) = Arg(P, Offset, 2)
  BY <1>2, InstructionOperands
<1>5. OperandWord(mem) \in Word
  BY <1>4, OperandWordWord DEF IInv, TypeOK, Memory
<1>6. back \in Int /\ t = Offset + 3 - back /\ Offset + 2 - back \in Int
      /\ (Offset + 2 - back) + 1 = t
  <2>1. back = Literal(P, Offset) BY <1>4 DEF OperandWord, Literal
  <2>2. back \in Int BY <1>5, I16Int DEF Int16
  <2>3. t = Offset + 3 - back BY <2>1 DEF JumpTarget
  <2> HIDE DEF back, t
  <2> QED BY <1>3, <2>2, <2>3
<1>7. CASE I16(Reg(m, imm)) < 0
  <2>1. t \in Nat /\ loaded.addrs + t - 1 \in Word /\ loaded.addrs \in Nat
    BY <1>1, <1>2, TypedOffset DEF Home
  <2>2. /\ loaded.addrs + (Offset + 2) + (-back) \in Word
        /\ (Offset + 2) + (-back) = Offset + 2 - back
    <3> HIDE DEF back, t
    <3> QED BY <1>3, <1>6, <2>1
  <2>3. Frame(n, loaded, Offset + 2 - back, d)
    <3>1. Offset + 2 \in Int /\ -back \in Int BY <1>3, <1>6
    <3> QED BY <1>1, <1>4, <2>2, <3>1, FrameAdvance
  <2>4. mem' = Advance(n, 1) /\ UNCHANGED <<status, loaded>>
    BY <1>4, <1>7 DEF jump_lt_handler, Execute
  <2> QED BY <1>2, <1>6, <2>3, <2>4, TurnLands
<1>8. CASE ~(I16(Reg(m, imm)) < 0)
  <2>1. mem' = Advance(m, 1) /\ UNCHANGED <<status, loaded>>
    BY <1>4, <1>8 DEF jump_lt_handler, Execute
  <2>2. Offset + 2 \in Int /\ (Offset + 2) + 1 = Offset + 3 BY <1>3
  <2> QED BY <1>3, <1>4, <2>1, <2>2, TurnLands
<1> QED BY <1>7, <1>8

-----------------------------------------------------------------------------
(* The invariant.                                                          *)

\* Only load_program changes loaded.
LEMMA StepRuns ==
  ASSUME step
  PROVE  status = "running" /\ loaded' = loaded
BY DEF step, Handle, push_handler, push_reg_handler, PushReg,
       push_literal_handler, pop_reg_handler, peek_handler,
       peek_offset_handler, binary_stack_expression, inc_handler, dec_handler,
       IncDec, cmp_handler, mov_handler, jump_eq_handler, jump_nz_handler,
       jump_gt_handler, jump_lt_handler, return_handler, DivideByZero,
       NoHandler, BadFetch, Execute

LEMMA LandsInFrame ==
  ASSUME IInv, RunsSound, Lands
  PROVE  InFrame' /\ SoundNeverStrays'
<1>1. PICK o \in DOMAIN T : Frame(mem', loaded, o, T[o]) BY DEF Lands
<1>2. status' = "running" /\ loaded' = loaded BY DEF Lands, RunsSound
<1>3. Home(loaded) /\ Sound(loaded) BY AtInstruction
<1>4. o \in Nat /\ loaded.addrs \in Nat BY <1>3, TypedOffset DEF Home
<1>5. Offset' = o BY <1>1, <1>2, <1>4 DEF Offset, Frame
<1>6. Height' = T[o] BY <1>2, <1>5 DEF Height, T
<1>7. Offset' \in DOMAIN Typing[loaded'.prog] BY <1>2, <1>5 DEF T
<1>8. TextIntact' BY <1>1, <1>2 DEF TextIntact, Frame
<1>9. InFrame' BY <1>1, <1>2, <1>6, <1>7, <1>8 DEF InFrame, Frame
<1> QED BY <1>2, <1>9 DEF SoundNeverStrays

LEMMA SoundStep ==
  ASSUME IInv, RunsSound, step
  PROVE  Lands \/ status' \in {"returned", "divzero"}
<1>0. /\ Opcode \in Handled /\ Opcode \notin {JNZ, JEQ, JGT}
      /\ Fetched
  BY AtInstruction, TypedOffset, TypingRule
<1>1. CASE push_handler \/ push_reg_handler BY <1>1, PushHandlersLand
<1>2. CASE push_literal_handler BY <1>2, PushLiteralLands
<1>3. CASE pop_reg_handler BY <1>3, PopRegLands
<1>4. CASE peek_handler BY <1>4, PeekLands
<1>5. CASE peek_offset_handler BY <1>5, PeekOffsetLands
<1>6. CASE \E op \in Binary : binary_stack_expression(op) BY <1>6, BinaryLands
<1>7. CASE inc_handler BY <1>7, IncDecLands DEF inc_handler
<1>8. CASE dec_handler BY <1>8, IncDecLands DEF dec_handler
<1>9. CASE cmp_handler BY <1>9, CmpLands
<1>10. CASE mov_handler BY <1>10, MovLands
<1>11. CASE jump_eq_handler \/ jump_nz_handler \/ jump_gt_handler
  BY <1>0, <1>11
     DEF jump_eq_handler, jump_nz_handler, jump_gt_handler, Execute
<1>12. CASE jump_lt_handler BY <1>12, JumpLtLands
<1>13. CASE return_handler BY <1>13 DEF return_handler
<1>14. CASE DivideByZero BY <1>14 DEF DivideByZero
<1>15. CASE NoHandler BY <1>0, <1>15 DEF NoHandler
<1>16. CASE BadFetch BY <1>0, <1>16 DEF BadFetch
<1> QED BY <1>1, <1>2, <1>3, <1>4, <1>5, <1>6, <1>7, <1>8, <1>9, <1>10,
           <1>11, <1>12, <1>13, <1>14, <1>15, <1>16 DEF step, Handle

LEMMA StepInvariant ==
  ASSUME IInv, step
  PROVE  IInv'
<1>1. TypeOK' BY StepType DEF IInv
<1>2. status = "running" /\ loaded' = loaded BY StepRuns
<1>3. (loaded.addrs >= 2 * reg_cnt => Home(loaded))' BY <1>2 DEF IInv
<1>4. CASE Sound(loaded)
  <2>1. RunsSound BY <1>2, <1>4 DEF RunsSound
  <2>2. CASE Lands BY <1>1, <1>3, <2>1, <2>2, LandsInFrame DEF IInv
  <2>3. CASE status' \in {"returned", "divzero"}
    BY <1>1, <1>3, <2>3 DEF IInv, InFrame, RunsSound, SoundNeverStrays
  <2> QED BY <2>1, <2>2, <2>3, SoundStep
<1>5. CASE ~Sound(loaded)
  <2>1. ~Sound(loaded)' BY <1>2, <1>5
  <2> QED BY <1>1, <1>3, <2>1 DEF IInv, InFrame, RunsSound, SoundNeverStrays
<1> QED BY <1>4, <1>5

\* Setting pc, bp, sp and fp over a loaded text makes the frame of a program
\* about to run.
LEMMA FramedFrame ==
  ASSUME NEW l, Home(l), NEW m \in Memory,
         \A i \in 1 .. Len(l.prog) : m[l.addrs + i - 1] = l.prog[i]
  PROVE  Frame(Framed(m, l.addrs, l.stack), l, 0, 0)
<1> DEFINE m1 == SetReg(m, pc, l.addrs)
           m2 == SetReg(m1, bp, l.addrs)
           m3 == SetReg(m2, sp, l.stack)
           m4 == SetReg(m3, fp, l.stack)
<1>0. l.addrs \in Nat /\ l.stack \in Nat /\ Len(l.prog) \in Nat
  BY ProgramBytes DEF Home
<1>1. l.addrs \in Word /\ l.stack \in Word
  BY <1>0, MemSizeAssumption DEF Home, Word
<1>2. /\ pc \in 0 .. 15 /\ bp \in 0 .. 15 /\ sp \in 0 .. 15 /\ fp \in 0 .. 15
      /\ pc \in Int /\ bp \in Int /\ sp \in Int /\ fp \in Int
      /\ pc # bp /\ pc # sp /\ pc # fp /\ bp # sp /\ bp # fp /\ sp # fp
  BY DEF pc, bp, sp, fp
<1>3. m1 \in Memory /\ Reg(m1, pc) = l.addrs
  BY <1>1, <1>2, SetRegType, SetRegReads
<1>4. m2 \in Memory /\ Reg(m2, bp) = l.addrs /\ Reg(m2, pc) = l.addrs
  <2> HIDE DEF m1
  <2> QED BY ZenonT(60), <1>1, <1>2, <1>3, SetRegType, SetRegReads, SetRegOther
<1>5. /\ m3 \in Memory /\ Reg(m3, sp) = l.stack
      /\ Reg(m3, bp) = l.addrs /\ Reg(m3, pc) = l.addrs
  <2> HIDE DEF m2
  <2>1. m3 \in Memory BY <1>1, <1>2, <1>4, SetRegType
  <2>2. Reg(m3, sp) = l.stack BY <1>1, <1>2, <1>4, SetRegReads
  <2>3. Reg(m3, bp) = Reg(m2, bp) BY <1>1, <1>2, <1>4, SetRegOther
  <2>4. Reg(m3, pc) = Reg(m2, pc) BY <1>1, <1>2, <1>4, SetRegOther
  <2> QED BY <1>4, <2>1, <2>2, <2>3, <2>4
<1>6. /\ m4 \in Memory /\ Reg(m4, fp) = l.stack /\ Reg(m4, sp) = l.stack
      /\ Reg(m4, bp) = l.addrs /\ Reg(m4, pc) = l.addrs
  <2> HIDE DEF m3
  <2>1. m4 \in Memory BY <1>1, <1>2, <1>5, SetRegType
  <2>2. Reg(m4, fp) = l.stack BY <1>1, <1>2, <1>5, SetRegReads
  <2>3. Reg(m4, sp) = Reg(m3, sp) BY <1>1, <1>2, <1>5, SetRegOther
  <2>4. Reg(m4, bp) = Reg(m3, bp) BY <1>1, <1>2, <1>5, SetRegOther
  <2>5. Reg(m4, pc) = Reg(m3, pc) BY <1>1, <1>2, <1>5, SetRegOther
  <2> QED BY <1>5, <2>1, <2>2, <2>3, <2>4, <2>5
<1>7. \A a \in Addr : a >= 32 => m4[a] = m[a]
  <2> TAKE a \in Addr
  <2> HAVE a >= 32
  <2>1. m1[a] = m[a] BY <1>1, SetRegAbove DEF pc
  <2>2. m2[a] = m1[a] BY <1>1, <1>3, SetRegAbove DEF bp
  <2>3. m3[a] = m2[a] BY <1>1, <1>4, SetRegAbove DEF sp
  <2>4. m4[a] = m3[a] BY <1>1, <1>5, SetRegAbove DEF fp
  <2> QED BY <2>1, <2>2, <2>3, <2>4
<1>8. \A i \in 1 .. Len(l.prog) : m4[l.addrs + i - 1] = l.prog[i]
  BY <1>7, TextAddr
<1>9. m4 = Framed(m, l.addrs, l.stack) BY DEF Framed
<1>10. l.addrs + 0 = l.addrs /\ l.stack + (2 * 0) = l.stack BY <1>0
<1> HIDE DEF m4
<1> QED BY <1>6, <1>8, <1>9, <1>10 DEF Frame

\* Where there is room, the program is placed at the allocation pointer and
\* its stack behind it.
LEMMA LoadHome ==
  ASSUME TypeOK, NEW p \in Programs, Load(p), loaded'.addrs >= 2 * reg_cnt
  PROVE  /\ Home(loaded')
         /\ loaded' = [prog |-> p, addrs |-> allocPointer, stack |-> StackFor(p)]
         /\ mem' = Framed(Copied(mem, p, allocPointer), allocPointer, StackFor(p))
         /\ allocPointer' = allocPointer + Len(p)
<1>1. allocPointer \in Nat /\ allocPointer >= 32 /\ Len(p) \in Nat
  BY ProgramBytes, MemSizeAssumption DEF TypeOK, reg_cnt
<1>2. allocPointer + Len(p) <= MemSize
  <2>1. Placed(p) >= 32 BY DEF Load, reg_cnt
  <2> QED BY <1>1, <2>1, MemSizeAssumption DEF Placed
<1>3. Placed(p) = allocPointer BY <1>1, <1>2, MemSizeAssumption DEF Placed
<1>4. StackFor(p) = allocPointer + Len(p) + (Len(p) % 2)
  <2>1. Len(p) % 2 \in 0 .. 1 BY <1>1
  <2>2. Len(p) + (Len(p) % 2) \in Word
        /\ allocPointer + (Len(p) + (Len(p) % 2)) \in Word
    BY <1>1, <1>2, <2>1, MemSizeAssumption DEF Word
  <2> QED BY <1>1, <1>3, <2>1, <2>2, U16Word DEF StackFor, Word
<1>5. /\ StackFor(p) \in Nat /\ StackFor(p) < 65536
      /\ allocPointer + Len(p) <= StackFor(p)
  BY <1>1, <1>2, <1>4, MemSizeAssumption
<1>6. loaded' = [prog |-> p, addrs |-> allocPointer, stack |-> StackFor(p)]
  BY <1>3 DEF Load
<1>7. Home(loaded') BY <1>1, <1>2, <1>5, <1>6 DEF Home
<1> QED BY <1>2, <1>3, <1>6, <1>7 DEF Load

\* Its frame is ready to run.
LEMMA LoadFrame ==
  ASSUME TypeOK, NEW p \in Programs, Load(p), loaded'.addrs >= 2 * reg_cnt
  PROVE  Home(loaded') /\ Frame(mem', loaded', 0, 0)
<1> DEFINE l == loaded'
           m == Copied(mem, p, allocPointer)
<1>1. /\ Home(l)
      /\ l = [prog |-> p, addrs |-> allocPointer, stack |-> StackFor(p)]
      /\ mem' = Framed(m, allocPointer, StackFor(p))
  BY LoadHome
<1>2. allocPointer \in Nat /\ Len(p) \in Nat
  BY <1>1, ProgramBytes DEF Home
<1>3. m \in Memory BY <1>2, CopiedType DEF TypeOK, Memory
<1>4. \A i \in 1 .. Len(p) : m[allocPointer + i - 1] = p[i]
  <2> TAKE i \in 1 .. Len(p)
  <2>1. i \in 1 .. Len(l.prog) /\ l.addrs = allocPointer BY <1>1
  <2>2. allocPointer + i - 1 \in Addr BY <1>1, <2>1, TextAddr
  <2>3. allocPointer + i - 1 \in allocPointer .. allocPointer + Len(p) - 1
        /\ (allocPointer + i - 1) - allocPointer + 1 = i
    BY <1>2
  <2> QED BY <2>2, <2>3 DEF Copied
<1>5. l.prog = p /\ l.addrs = allocPointer /\ l.stack = StackFor(p)
  BY <1>1
<1>6. \A i \in 1 .. Len(l.prog) : m[l.addrs + i - 1] = l.prog[i]
  BY <1>4, <1>5
<1>7. Frame(Framed(m, l.addrs, l.stack), l, 0, 0)
  BY <1>1, <1>3, <1>6, FramedFrame
<1> QED BY <1>1, <1>5, <1>7

LEMMA LoadInvariant ==
  ASSUME IInv, NEW p \in Programs, Load(p)
  PROVE  IInv'
<1>1. TypeOK /\ TypeOK' BY LoadType DEF IInv
<1>2. status' = "running" BY DEF Load
<1>3. SoundNeverStrays' BY <1>2 DEF SoundNeverStrays
<1>4. CASE loaded'.addrs >= 2 * reg_cnt
  <2> DEFINE l == loaded'
  <2>1. Home(l) BY <1>1, <1>4, LoadFrame
  <2>2. l.addrs \in Nat BY <2>1 DEF Home
  <2>3. Frame(mem', l, 0, 0) BY <1>1, <1>4, LoadFrame
  <2>4. InFrame'
    <3> SUFFICES ASSUME Sound(loaded') PROVE InFrame' BY DEF InFrame, RunsSound
    <3>1. WellTyped(l.prog, Typing[l.prog])
      BY TypingAssumption DEF Sound, Typed
    <3>2. 0 \in DOMAIN Typing[l.prog] /\ Typing[l.prog][0] = 0
      BY <3>1 DEF WellTyped
    <3>3. Offset' = 0 BY <2>1, <2>2, <2>3 DEF Offset, Frame, Home
    <3>4. Height' = 0 BY <3>2, <3>3 DEF Height
    <3>5. TextIntact' BY <2>3 DEF TextIntact, Frame
    <3> QED BY <2>3, <3>2, <3>3, <3>4, <3>5 DEF InFrame, Frame
  <2> QED BY <1>1, <1>3, <2>1, <2>4 DEF IInv
<1>5. CASE ~(loaded'.addrs >= 2 * reg_cnt)
  <2>1. ~Sound(loaded') BY <1>5 DEF Sound
  <2>2. InFrame' BY <2>1 DEF InFrame, RunsSound
  <2> QED BY <1>1, <1>3, <1>5, <2>2 DEF IInv
<1> QED BY <1>4, <1>5

LEMMA Invariance == Spec => []IInv
<1>1. Init => IInv
  <2> SUFFICES ASSUME Init PROVE IInv OBVIOUS
  <2>1. status = "idle" /\ loaded.addrs = 0 BY DEF Init
  <2>2. ~(loaded.addrs >= 2 * reg_cnt) BY <2>1 DEF reg_cnt
  <2> QED BY <2>1, <2>2, InitType
         DEF IInv, InFrame, RunsSound, Sound, SoundNeverStrays
<1>2. IInv /\ [Next]_vars => IInv'
  <2> SUFFICES ASSUME IInv, [Next]_vars PROVE IInv' OBVIOUS
  <2>1. CASE step BY <2>1, StepInvariant
  <2>2. CASE \E p \in Programs : Load(p) BY <2>2, LoadInvariant
  <2>3. CASE UNCHANGED vars
    <3>1. TypeOK' BY <2>3 DEF vars, IInv, TypeOK, Addr
    <3>2. InFrame' /\ SoundNeverStrays'
          /\ (loaded.addrs >= 2 * reg_cnt => Home(loaded))'
      BY <2>3 DEF vars, IInv, InFrame, SoundNeverStrays, RunsSound, Offset,
                  Height, TextIntact, Reg, WordAt
    <3> QED BY <3>1, <3>2 DEF IInv
  <2> QED BY <2>1, <2>2, <2>3 DEF Next
<1> QED BY <1>1, <1>2, PTL DEF Spec

\* Every sound program, in every memory and after every history of loads,
\* runs inside its frame: pc at an instruction, its text as loaded, sp where
\* the discipline says.
THEOREM FrameSafe == Spec => []InFrame
<1>1. IInv => InFrame BY DEF IInv
<1> QED BY <1>1, Invariance, PTL

\* No sound program reaches an opcode without handler or an address outside
\* the memory.
THEOREM NeverStrays == Spec => []SoundNeverStrays
<1>1. IInv => SoundNeverStrays BY DEF IInv
<1> QED BY <1>1, Invariance, PTL

-----------------------------------------------------------------------------
(* Counting on the stack.                                                  *)

\* At an INC or DEC, the only step is its handler.
LEMMA CountingStep ==
  ASSUME step, Opcode \in {INC, DEC}, Fetched
  PROVE  (Opcode = INC /\ inc_handler) \/ (Opcode = DEC /\ dec_handler)
BY DEF step, Handle, push_handler, push_reg_handler, PushReg,
       push_literal_handler, pop_reg_handler, peek_handler,
       peek_offset_handler, binary_stack_expression, inc_handler, dec_handler,
       IncDec, cmp_handler, mov_handler, jump_eq_handler, jump_nz_handler,
       jump_gt_handler, jump_lt_handler, return_handler, DivideByZero,
       NoHandler, BadFetch, Execute, Handled, Binary,
       MOV, ADD, SUB, MUL, DIV, INC, DEC, PSH, PSH_LIT, PSH_REG, POP_REG,
       PEK_REG, PEK_OFF, JNZ, JEQ, JGT, JLT, CMP, RET

LEMMA CountingHandler ==
  ASSUME IInv, RunsSound, NEW op \in {INC, DEC}, NEW d \in Int, IncDec(op, d),
         Opcode = op, Operand(mem, 1) = sp
  PROVE  mem' = Advance(AddAt(Advance(mem, 2),
                              SlotAddr(Reg(mem, fp), Operand(mem, 2)), d), 1)
<1>1. \/ /\ Continues(T, Offset, 3, 0, 0) /\ Arg(P, Offset, 1) = sp
         /\ Arg(P, Offset, 2) < T[Offset]
      \/ Continues(T, Offset, 2, 0, 0) /\ Arg(P, Offset, 1) \in General
  BY AtInstruction, TypedOffset, TypingRule
<1>2. Operand(mem, 1) = Arg(P, Offset, 1) BY <1>1, InstructionOperands
<1>3. /\ Continues(T, Offset, 3, 0, 0) /\ Arg(P, Offset, 1) = sp
      /\ Arg(P, Offset, 2) < T[Offset]
  BY <1>1, <1>2 DEF General, imm, ret, sp
<1> DEFINE m == Advance(mem, 2)
           a == loaded.stack + (2 * Operand(mem, 2))
<1>4. /\ HasOperands(mem, 1) /\ HasOperands(mem, 2)
      /\ SlotAddr8(Reg(m, fp), Operand(mem, 2)) = a
      /\ SlotAddr(Reg(mem, fp), Operand(mem, 2)) = a
      /\ IsWordAddr(a)
  BY <1>3, CountedSlot
<1> QED BY <1>4 DEF IncDec, Execute

\* INC and DEC of a stack slot change the word a PEK of the slot reads, and
\* besides it only pc, in every sound program.
THEOREM CountingSafe == Spec => CountsItsSlot
<1>1. IInv /\ [Next]_vars => [CountsSlot]_vars
  <2> SUFFICES ASSUME IInv, Next, RunsSound, Opcode \in {INC, DEC},
                      Operand(mem, 1) = sp
               PROVE  CountsSlot
    BY DEF CountsSlot
  <2>1. step BY DEF Next, Load, RunsSound
  <2>2. Fetched BY AtInstruction
  <2>3. INC # DEC BY DEF INC, DEC
  <2>4. CASE Opcode = INC /\ inc_handler
    BY <2>4, CountingHandler DEF inc_handler, CountsSlot
  <2>5. CASE Opcode = DEC /\ dec_handler
    BY <2>3, <2>5, CountingHandler DEF dec_handler, CountsSlot
  <2> QED BY <2>1, <2>2, <2>4, <2>5, CountingStep
<1> QED BY <1>1, Invariance, PTL DEF Spec, CountsItsSlot

=============================================================================
