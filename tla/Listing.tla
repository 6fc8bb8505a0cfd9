------------------------------ MODULE Listing ------------------------------
(***************************************************************************)
(* The disassembler and those who use it: CodeGenerator::disassemble,      *)
(* which lists what was generated, and clients that have a program of      *)
(* their own, and look lines of it up.                                     *)
(***************************************************************************)
EXTENDS CodeGenerator

CONSTANT Handwritten   \* the programs of such clients

ASSUME HandwrittenAssumption == Handwritten \subseteq Seq(Byte)

VARIABLES program, programCount, listing, outcome

Lister == INSTANCE Disassembler

lister == <<program, programCount, listing, outcome>>
listingVars == <<vars, lister>>

-----------------------------------------------------------------------------
\* A client with a program of its own has no use for the generator.
NoTree == <<[type |-> "PROGRAM", body |-> <<>>]>>

LInit ==
  /\ Constructed
  /\ \/ ast \in Programs /\ Lister!DInit(<<>>)
     \/ ast = NoTree /\ \E p \in Handwritten : Lister!DInit(p)

OfGenerated == program # <<>> /\ status = "generated"

Generate == program = <<>> /\ Next /\ UNCHANGED lister

\* CodeGenerator::disassemble, or main
DisassembleGenerated ==
  /\ status = "generated"
  /\ program = <<>>
  /\ program' = bytecode
  /\ UNCHANGED <<vars, programCount, listing, outcome>>

LookUp ==
  /\ program # <<>> /\ ~OfGenerated
  /\ \E o \in 0 .. Len(program) - 1 : Lister!disassembleInstructionAt(o)
  /\ UNCHANGED vars

Disassemble == program # <<>> /\ Lister!DNext /\ UNCHANGED vars

LNext == Generate \/ DisassembleGenerated \/ LookUp \/ Disassemble

LSpec == LInit /\ [][LNext]_listingVars /\ WF_listingVars(LNext)

-----------------------------------------------------------------------------
(* Properties.                                                             *)

LineBytes(o) == SubSeq(program, o + 1, o + Len(listing[o]))

\* The forms of an instruction with a handler behind which the disassembler
\* reads other bytes than the handler: an offset behind INC and DEC of a
\* register, a second register behind CMP of one, no register behind PSH_REG.
ReadOtherwise(o) ==
  \/ program[o + 1] = PSH_REG
  \/ program[o + 1] \in {INC, DEC, CMP} /\ program[o + 2] # sp

\* A line shows the bytes of its instruction, but that of a CMP its opcode only.
ShowsAll(o) ==
  Len(listing[o]) = IF program[o + 1] = CMP THEN 1 ELSE LengthAt(program, o)

\* Behind an opcode that has a handler, in any other form, the disassembler goes
\* on where the handler does, and the line shows what the handler consumed.
SameOperands ==
  \A o \in {q \in DOMAIN listing : listing[q] # <<>>} :
    /\ listing[o] = LineBytes(o)
    /\ program[o + 1] \in Handled /\ ~ReadOtherwise(o) =>
         /\ o + LengthAt(program, o) \in DOMAIN listing \cup {programCount}
         /\ ShowsAll(o)

\* The listing of generated code, as far as it goes, has a line for every
\* instruction the generator meant, which shows its operands if it is no CMP,
\* and beside them only the two operand bytes of each JMP, as lines of their
\* own.
ListsWhatWasMeant ==
  OfGenerated =>
    LET met == {o \in starts : o < programCount}
        jumps == {o \in met : program[o + 1] = JMP}
    IN  /\ met \subseteq DOMAIN listing
        /\ \A o \in met \ jumps : ShowsAll(o)
        /\ \A q \in DOMAIN listing \ met : {q - 1, q - 2} \cap jumps # {}

\* What was generated can be listed (tests_code_generator.cpp:216).
Disassembles == OfGenerated => outcome # "out_of_range"
=============================================================================
