---------------------------- MODULE Disassembler ----------------------------
(***************************************************************************)
(* The disassembler (disassembler.cpp): reads a program from its first     *)
(* byte to its last and writes a line for each instruction it sees, by the *)
(* offset of its opcode.                                                   *)
(*                                                                         *)
(* It has tables of its own of what an opcode and a register are called    *)
(* and of the operand bytes behind an opcode, beside the handlers'.        *)
(***************************************************************************)
EXTENDS CiphIsa

VARIABLES
  program,       \* m_program, m_size bytes long
  programCount,  \* the next byte, a local of disassemble
  listing,       \* m_disassembledInstructions: offset -> opcode and operands shown
  outcome        \* idle, listing, listed, or how disassemble ended

dvars == <<program, programCount, listing, outcome>>

-----------------------------------------------------------------------------
(* instruction::mnemonics has no JEQ, JGT and HALT, and names opcodes no   *)
(* handler takes.                                                          *)

\* NOP, PUT, MOV_MEM, PUT_REG, PUT_LIT, ADD_REG, SUB_REG, MUL_REG, DIV_REG,
\* PSH_MEM, POP
OnlyNamed == {0, 1, 3, 4, 5, 7, 9, 11, 13, 33, 48}

Mnemonics == ((Handled \ {JEQ, JGT}) \cup {JMP}) \cup OnlyNamed

\* registers::name
RegisterNames == General \cup {sp, fp, bp, pc}

\* mutant: a second register for every CMP
OperandCountTwo(op, first) ==
  CASE op \in {JLT, PSH_LIT, INC, DEC, PEK_OFF, MOV, CMP} -> 2
    [] op \in {POP_REG, PEK_REG} -> 1
    [] OTHER -> 0

\* How many bytes are read behind an opcode, the first of them being first.
OperandCount(op, first) ==
  CASE op \in {JLT, PSH_LIT, INC, DEC, PEK_OFF, MOV} -> 2
    [] op \in {POP_REG, PEK_REG} -> 1
    [] op = CMP -> IF first = sp THEN 1 ELSE 2
    [] OTHER -> 0

\* Which of them are registers.
RegisterOperands(op) ==
  CASE op \in {INC, DEC, PEK_OFF, POP_REG, PEK_REG} -> {1}
    [] op \in {MOV, CMP} -> {1, 2}
    [] OTHER -> {}

-----------------------------------------------------------------------------
\* The byte n bytes behind the next one; Nothing is behind the program.
Nothing == -1
Peek(n) == IF programCount + n < Len(program) THEN program[programCount + n + 1] ELSE Nothing

Operands == [n \in 1 .. OperandCount(Peek(0), Peek(1)) |-> Peek(n)]

\* What the line shows of them.  disassembleInstruction drops the text it has
\* disassembleInstructionWithOptionalReg make: CMP's are read, and not shown.
Shown == IF Peek(0) = CMP THEN <<>> ELSE Operands

\* A table has no name for the opcode or for a register.
Unnamed ==
  \/ Peek(0) \notin Mnemonics
  \/ \E n \in RegisterOperands(Peek(0)) \cap DOMAIN Operands :
       Operands[n] \notin RegisterNames \cup {Nothing}

CutOff == \E n \in DOMAIN Operands : Operands[n] = Nothing

\* A turn of disassemble's loop.
Reads == outcome = "listing" /\ programCount < Len(program)

\* emplace: a line that is there stays.
Lists(o, line) ==
  listing' = [q \in DOMAIN listing \cup {o} |->
                IF q \in DOMAIN listing THEN listing[q] ELSE line]

disassemble ==
  /\ outcome = "idle"
  /\ programCount' = 0
  /\ outcome' = "listing"
  /\ UNCHANGED <<program, listing>>

disassembleInstruction ==
  /\ Reads
  /\ ~Unnamed /\ ~CutOff
  /\ Lists(programCount, <<Peek(0)>> \o Shown)
  /\ programCount' = programCount + 1 + Len(Operands)
  /\ UNCHANGED <<program, outcome>>

\* unordered_map::at throws, and nobody catches it.
outOfRange ==
  /\ Reads
  /\ Unnamed
  /\ outcome' = "out_of_range"
  /\ UNCHANGED <<program, programCount, listing>>

\* An operand is read from behind the program.
overrun ==
  /\ Reads
  /\ ~Unnamed /\ CutOff
  /\ outcome' = "undefined"
  /\ UNCHANGED <<program, programCount, listing>>

listed ==
  /\ outcome = "listing"
  /\ programCount = Len(program)
  /\ outcome' = "listed"
  /\ UNCHANGED <<program, programCount, listing>>

\* operator[] of the map: asking for a line that is not there makes an empty
\* one, which a later disassemble keeps.
disassembleInstructionAt(o) ==
  /\ outcome \in {"idle", "listed"}
  /\ Lists(o, <<>>)
  /\ UNCHANGED <<program, programCount, outcome>>

DInit(p) ==
  /\ program = p
  /\ programCount = 0
  /\ listing = <<>>
  /\ outcome = "idle"

DNext ==
  \/ disassemble \/ disassembleInstruction \/ outOfRange \/ overrun \/ listed
=============================================================================
