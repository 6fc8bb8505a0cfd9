------------------------------- MODULE CiphVM -------------------------------
(***************************************************************************)
(* The virtual machine: Memory<N> (memory.hpp), ProcessingUnit             *)
(* (processing_unit.cpp) and the instruction handlers (instructions.cpp).  *)
(*                                                                         *)
(* One array of bytes holds everything.  Its first 32 bytes are the        *)
(* sixteen registers, little-endian words that the handlers read and write *)
(* through references while they also use the array through byte           *)
(* addresses; programs are loaded one after the other above them and are   *)
(* never released; the stack of the running program starts behind its      *)
(* text.  The array is not cleared: a stack grows over whatever was there. *)
(*                                                                         *)
(* The handlers check no bound.  An access outside the array is undefined  *)
(* behaviour, a call of a missing handler calls a null pointer and an      *)
(* integer division by zero traps: each ends the process, with a status of *)
(* its own.                                                                *)
(***************************************************************************)
EXTENDS CiphIsa

CONSTANTS
  MemSize,      \* the template argument of Memory
  Programs,     \* the byte sequences a client may load
  Fills,        \* what the allocator may leave in memory nobody wrote
  Typing        \* a typing of each program that keeps the stack discipline

Typed == DOMAIN Typing

ASSUME MemSizeAssumption == 
  MemSize \in Nat /\ 2 * reg_cnt <= MemSize /\ MemSize < 65535
ASSUME ProgramsAssumption ==
  \A p \in Programs : p \in Seq(Byte) /\ Len(p) \in Word
ASSUME FillsAssumption == Fills \subseteq Byte
ASSUME TypingAssumption ==
  \A p \in Typed : p \in Programs /\ WellTyped(p, Typing[p])

VARIABLES
  mem,           \* m_memory
  allocPointer,  \* m_allocPointer
  returnValue,   \* m_context.return_value
  status,        \* where the client's load_program / execute calls stand
  loaded         \* history: what the last load_program was given and did

vars == <<mem, allocPointer, returnValue, status, loaded>>

Addr == 0 .. MemSize - 1

Crashes == {"nohandler", "divzero", "outofbounds"}

-----------------------------------------------------------------------------
(* Bytes, words and registers of a memory m.  All of these are functions   *)
(* of the memory alone, so that a handler is their composition in the      *)
(* order of its statements.                                                *)

WordAt(m, a) == m[a] + (256 * m[a + 1])
SetWord(m, a, w) == [m EXCEPT ![a] = w % 256, ![a + 1] = w \div 256]

\* context.registry[r], for any byte r: the register file is not delimited.
Reg(m, r) == WordAt(m, 2 * r)
SetReg(m, r, w) == SetWord(m, 2 * r, w)
IsReg(r) == (2 * r) + 1 \in Addr

\* pc += n, for the register pc.
Advance(m, n) == SetReg(m, pc, U16(Reg(m, pc) + n))

\* The byte register r refers to once it has been moved by d, as in
\* bytecode[++pc] or bytecode[--sp].  Moving r is itself a write to memory.
MovedTo(m, r, d) == U16(Reg(m, r) + d)
ByteAfterMove(m, r, d) == SetReg(m, r, MovedTo(m, r, d))[MovedTo(m, r, d)]

\* The n-th operand byte of the instruction at pc.
Operand(m, n) == ByteAfterMove(m, pc, n)
HasOperands(m, n) == \A i \in 1 .. n : MovedTo(m, pc, i) \in Addr

\* mutant: operands read little-endian, as the stack is
OperandWordLittleEndian(m) == Operand(m, 1) + (256 * Operand(m, 2))

\* read_word: operands are big-endian.
OperandWord(m) == (256 * Operand(m, 1)) + Operand(m, 2)

\* pop_helper: the word it returns, and the memory it leaves.
Top(m) == ByteAfterMove(m, sp, -2) + (256 * ByteAfterMove(m, sp, -1))
Pop(m) == SetReg(m, sp, MovedTo(m, sp, -2))
CanPop(m, n) == \A i \in 1 .. (2 * n) : MovedTo(m, sp, -i) \in Addr

\* write_int16 through the register sp: low byte first.
PushByte(m, b) == [SetReg(m, sp, MovedTo(m, sp, 1)) EXCEPT ![Reg(m, sp)] = b]
Push(m, w) == PushByte(PushByte(m, w % 256), w \div 256)
CanPush(m, w) == /\ Reg(m, sp) \in Addr
                 /\ Reg(PushByte(m, w % 256), sp) \in Addr

\* An access to the word at address a, computed in a local of the handler.
IsWordAddr(a) == {a, U16(a + 1)} \subseteq Addr

-----------------------------------------------------------------------------
(* Memory::load and ProcessingUnit::load_program.                          *)

Init ==
  /\ \E f \in Fills : mem = [a \in Addr |-> IF a < 2 * reg_cnt THEN 0 ELSE f]
  /\ allocPointer = 2 * reg_cnt
  /\ returnValue = 0
  /\ status = "idle"
  /\ loaded = [prog |-> <<>>, addrs |-> 0, stack |-> 0]

\* Where Memory::load says the program is: address 0, the register file,
\* when there is no room.
Placed(p) == IF allocPointer + Len(p) > MemSize THEN 0 ELSE allocPointer

\* mutant: the size rounded down to an even number
StackForRoundedDown(p) == U16(Placed(p) + U16(Len(p) - (Len(p) % 2)))

\* The stack starts at the next even distance from the program's start.
StackFor(p) == U16(Placed(p) + U16(Len(p) + (Len(p) % 2)))

Copied(m, p, addrs) ==
  [a \in Addr |-> IF a \in addrs .. addrs + Len(p) - 1 THEN p[a - addrs + 1]
                                                       ELSE m[a]]

\* m[pc] = m[bp] = addrs; m[sp] = m[fp] = stack
Framed(m, addrs, stack) ==
  SetReg(SetReg(SetReg(SetReg(m, pc, addrs), bp, addrs), sp, stack), fp, stack)

Load(p) ==
  LET fits == allocPointer + Len(p) <= MemSize
  IN  /\ status \in {"idle", "returned"}
      /\ mem' = Framed(IF fits THEN Copied(mem, p, allocPointer) ELSE mem,
                       Placed(p), StackFor(p))
      /\ allocPointer' = IF fits THEN allocPointer + Len(p) ELSE allocPointer
      /\ loaded' = [prog |-> p, addrs |-> Placed(p), stack |-> StackFor(p)]
      /\ status' = "running"
      /\ UNCHANGED returnValue

-----------------------------------------------------------------------------
(* ProcessingUnit::execute, one turn of its loop: fetch, handler, pc++.    *)

Fetched == Reg(mem, pc) \in Addr
Opcode == mem[Reg(mem, pc)]

\* The handler of op turns the memory into m, if its accesses are inBounds.
Execute(op, inBounds, m) ==
  /\ status = "running"
  /\ Fetched
  /\ Opcode = op
  /\ IF inBounds THEN mem' = Advance(m, 1) /\ UNCHANGED status
                 ELSE status' = "outofbounds" /\ UNCHANGED mem
  /\ UNCHANGED <<allocPointer, returnValue, loaded>>

BadFetch ==
  /\ status = "running"
  /\ ~Fetched
  /\ status' = "outofbounds"
  /\ UNCHANGED <<mem, allocPointer, returnValue, loaded>>

\* handlers[instr] inserts a null pointer, and calls it.
NoHandler ==
  /\ status = "running"
  /\ Fetched
  /\ Opcode \notin Handled
  /\ status' = "nohandler"
  /\ UNCHANGED <<mem, allocPointer, returnValue, loaded>>

-----------------------------------------------------------------------------
(* The stack handlers.                                                     *)

PushReg(op, n, r) ==
  LET m == Advance(mem, n)
      w == Reg(m, r)
  IN  Execute(op, HasOperands(mem, n) /\ IsReg(r) /\ CanPush(m, w), Push(m, w))

push_handler == PushReg(PSH, 0, imm)
push_reg_handler == PushReg(PSH_REG, 1, Operand(mem, 1))
\* mutant: pc moved past one operand byte only
push_literal_short ==
  LET w == OperandWord(mem)
  IN  Execute(PSH_LIT, HasOperands(mem, 2) /\ CanPush(Advance(mem, 1), w),
              Push(Advance(mem, 1), w))

push_literal_handler ==
  LET m == Advance(mem, 2)
      w == OperandWord(mem)
  IN  Execute(PSH_LIT, HasOperands(mem, 2) /\ CanPush(m, w), Push(m, w))

pop_reg_handler ==
  LET m == Advance(mem, 1)
      r == Operand(mem, 1)
  IN  Execute(POP_REG, HasOperands(mem, 1) /\ CanPop(m, 1) /\ IsReg(r),
              SetReg(Pop(m), r, Top(m)))

\* peek_helper moves a copy of sp.
peek_handler ==
  LET m == Advance(mem, 1)
      r == Operand(mem, 1)
      a == MovedTo(m, sp, -2)
  IN  Execute(PEK_REG, HasOperands(mem, 1) /\ IsWordAddr(a) /\ IsReg(r),
              SetReg(m, r, WordAt(m, a)))

\* The word k of the frame.
SlotAddr(f, k) == U16(f + (2 * k))

peek_offset_handler ==
  LET m == Advance(mem, 2)
      r == Operand(mem, 1)
      a == SlotAddr(Reg(m, fp), Operand(mem, 2))
      w == WordAt(m, a)
  IN  Execute(PEK_OFF,
              /\ HasOperands(mem, 2)
              /\ IsWordAddr(a)
              /\ IF r = sp THEN CanPush(m, w) ELSE IsReg(r),
              IF r = sp THEN Push(m, w) ELSE SetReg(m, r, w))

-----------------------------------------------------------------------------
(* The arithmetic handlers.  b is on top of the stack, a below it.         *)
\* mutants: the quotient not narrowed; the operands of SUB swapped
ResultWide(op, a, b) ==
  CASE op = ADD -> U16(a + b)
    [] op = SUB -> U16(a - b)
    [] op = MUL -> U16(a * b)
    [] op = DIV -> Quotient(a, b)
ResultSwapped(op, a, b) ==
  CASE op = ADD -> U16(a + b)
    [] op = SUB -> U16(b - a)
    [] op = MUL -> U16(a * b)
    [] op = DIV -> U16(Quotient(a, b))

Result(op, a, b) ==
  CASE op = ADD -> U16(a + b)
    [] op = SUB -> U16(a - b)
    [] op = MUL -> U16(a * b)
    [] op = DIV -> U16(Quotient(a, b))

binary_stack_expression(op) ==
  LET b == I16(Top(mem))
      a == I16(Top(Pop(mem)))
      m == Pop(Pop(mem))
      w == Result(op, a, b)
  IN  /\ ~(op = DIV /\ CanPop(mem, 2) /\ b = 0)
      /\ Execute(op, CanPop(mem, 2) /\ CanPush(m, w), Push(m, w))

DivideByZero ==
  /\ status = "running"
  /\ Fetched
  /\ Opcode = DIV
  /\ CanPop(mem, 2)
  /\ I16(Top(mem)) = 0
  /\ status' = "divzero"
  /\ UNCHANGED <<mem, allocPointer, returnValue, loaded>>

\* mutant: the slot taken for the word below the offset
SlotAddr8Below(f, k) == U16(((((2 * k) % 256) + f) % 256) - 2)

\* INC and DEC compute the address behind the slot in a uint8_t, PEK does not.
SlotAddr8(f, k) == U16(((((2 * k) % 256) + f + 2) % 256) - 2)
\* mutant: the counted value is not written back
AddAtLost(m, a, d) == SetWord(m, a, WordAt(m, a))

AddAt(m, a, d) == SetWord(m, a, U16(WordAt(m, a) + d))

IncDec(op, d) ==
  LET onStack == Operand(mem, 1) = sp
      m == Advance(mem, IF onStack THEN 2 ELSE 1)
      a == IF onStack THEN SlotAddr8(Reg(m, fp), Operand(mem, 2))
                      ELSE 2 * Operand(mem, 1)
  IN  Execute(op,
              /\ HasOperands(mem, 1)
              /\ onStack => HasOperands(mem, 2)
              /\ IsWordAddr(a),
              AddAt(m, a, d))

inc_handler == IncDec(INC, 1)
dec_handler == IncDec(DEC, -1)

-----------------------------------------------------------------------------
(* Registers, comparison and control flow.                                 *)

\* Only a comparison of stack values is implemented.
cmp_handler ==
  LET m == Advance(mem, 1)
      b == I16(Top(m))
      a == I16(Top(Pop(m)))
      onStack == Operand(mem, 1) = sp
  IN  Execute(CMP,
              HasOperands(mem, 1) /\ (onStack => CanPop(m, 2)),
              IF onStack THEN SetReg(Pop(Pop(m)), imm, U16(a - b)) ELSE m)

mov_handler ==
  LET m == Advance(mem, 2)
      x == Operand(mem, 1)
      y == Operand(mem, 2)
  IN  Execute(MOV, HasOperands(mem, 2) /\ IsReg(x) /\ IsReg(y),
              SetReg(m, x, Reg(m, y)))

\* Three handlers with an empty body: pc stops before the operand bytes.
jump_eq_handler == Execute(JEQ, TRUE, mem)
jump_nz_handler == Execute(JNZ, TRUE, mem)
jump_gt_handler == Execute(JGT, TRUE, mem)

jump_lt_handler ==
  LET m == Advance(mem, 2)
      back == I16(OperandWord(mem))
  IN  Execute(JLT, HasOperands(mem, 2),
              IF I16(Reg(m, imm)) < 0 THEN Advance(m, -back) ELSE m)

return_handler ==
  LET f == Reg(mem, fp)
      m == SetReg(SetReg(mem, pc, U16(f - 1)), sp, f)
  IN  /\ status = "running"
      /\ Fetched
      /\ Opcode = RET
      /\ returnValue' = I16(Reg(mem, ret))
      /\ mem' = Advance(m, 1)
      /\ status' = "returned"
      /\ UNCHANGED <<allocPointer, loaded>>

-----------------------------------------------------------------------------
Handle ==
  \/ push_handler \/ push_reg_handler \/ push_literal_handler
  \/ pop_reg_handler \/ peek_handler \/ peek_offset_handler
  \/ \E op \in Binary : binary_stack_expression(op)
  \/ inc_handler \/ dec_handler
  \/ cmp_handler \/ mov_handler
  \/ jump_eq_handler \/ jump_nz_handler \/ jump_gt_handler \/ jump_lt_handler
  \/ return_handler

step == Handle \/ DivideByZero \/ NoHandler \/ BadFetch

Next == step \/ \E p \in Programs : Load(p)

\* execute() loops until RET: it never rests between two instructions.
Spec == Init /\ [][Next]_vars /\ WF_vars(step)

-----------------------------------------------------------------------------
(* Properties.                                                             *)

\* Memory holds bytes, whatever a handler computes before it stores.
TypeOK ==
  /\ mem \in [Addr -> Byte]
  /\ allocPointer \in (2 * reg_cnt) .. MemSize
  /\ returnValue \in Int16
  /\ status \in {"idle", "running", "returned"} \cup Crashes
  /\ loaded \in [prog : Programs \cup {<<>>}, addrs : 0 .. MemSize,
                 stack : Word]

\* The conditions on a load under which the machine keeps its promises: the
\* program follows the stack discipline, Memory::load had room for it, its
\* stack fits behind it, and no counter it increments on the stack lies
\* beyond what eight bits can address.
Sound(l) ==
  /\ l.prog \in Typed
  /\ l.addrs >= 2 * reg_cnt
  /\ \A o \in DOMAIN Typing[l.prog] :
       /\ l.stack + (2 * Typing[l.prog][o]) <= MemSize
       /\ (l.prog[o + 1] \in {INC, DEC} /\ Arg(l.prog, o, 1) = sp) =>
            l.stack + (2 * Arg(l.prog, o, 2)) + 2 < 256

RunsSound == status = "running" /\ Sound(loaded)

Offset == Reg(mem, pc) - loaded.addrs
Height == Typing[loaded.prog][Offset]

TextIntact ==
  \A i \in 1 .. Len(loaded.prog) : mem[loaded.addrs + i - 1] = loaded.prog[i]

\* While a sound program runs, pc is at one of its instructions, its text is
\* what was loaded, and sp and fp delimit exactly the words its discipline
\* accounts for: no handler loses an operand byte or a stack word, and no
\* store through sp reaches the registers or the text.
InFrame ==
  RunsSound =>
    /\ Offset \in DOMAIN Typing[loaded.prog]
    /\ Reg(mem, sp) = loaded.stack + (2 * Height)
    /\ Reg(mem, fp) = loaded.stack
    /\ Reg(mem, bp) = loaded.addrs
    /\ TextIntact

\* A sound program never reaches an opcode without handler and never makes
\* an access outside the memory, whatever ran before it.
SoundNeverStrays ==
  Sound(loaded) => status \notin {"nohandler", "outofbounds"}

\* No byte below allocPointer, hence no text of this program or of one loaded
\* before, is overwritten by a later load or by a sound program's stack.
ResidentText ==
  [][status # "running" \/ Sound(loaded) =>
       \A a \in (2 * reg_cnt) .. (allocPointer - 1) : mem'[a] = mem[a]]_vars

\* INC and DEC of a stack slot change the very word a PEK of that slot reads
\* and nothing else but pc, although they compute its address in eight bits.
CountsSlot ==
  LET m == Advance(mem, 2)
      a == SlotAddr(Reg(mem, fp), Operand(mem, 2))
  IN  RunsSound /\ Opcode \in {INC, DEC} /\ Operand(mem, 1) = sp =>
        mem' = Advance(AddAt(m, a, IF Opcode = INC THEN 1 ELSE -1), 1)

CountsItsSlot == [][CountsSlot]_vars

-----------------------------------------------------------------------------
(* The machine implements StackMachine.  A load that is not sound, and what *)
(* it runs, is the abstract machine declining the program.                 *)

FrameDepth == (Reg(mem, sp) - loaded.stack) \div 2

\* Where the machine stands in the program, its slots, its registers and the
\* state of its client's calls, as the abstract machine knows them.
Place == IF RunsSound THEN Offset ELSE 0

SlotWord(m, i) == WordAt(m, loaded.stack + (2 * (i - 1)))
Slots == IF RunsSound THEN [i \in 1 .. FrameDepth |-> I16(SlotWord(mem, i))]
                      ELSE <<>>

Values == [r \in General |-> I16(Reg(mem, r))]
Mode == IF status = "idle" \/ Sound(loaded) THEN status ELSE "wild"

Abstract == INSTANCE StackMachine WITH
  prog <- loaded.prog, at <- Place, stack <- Slots, regs <- Values,
  result <- returnValue, mode <- Mode

\* Whatever a sound program does to the bytes of memory is what StackMachine
\* says it does to numbers, slots and registers, instruction by instruction.
ImplementsStackMachine == Abstract!ASpec
=============================================================================
