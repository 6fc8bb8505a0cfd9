-------------------------------- MODULE MCVM --------------------------------
(***************************************************************************)
(* Instances of CiphVM for TLC: programs the machine's tests run           *)
(* (tests_processing_unit.cpp), programs of this project that reach the    *)
(* corners those leave out, and programs that follow no stack discipline.  *)
(***************************************************************************)
EXTENDS Shell, TLC

\* A typing, given as <<offset, height>> pairs.
TypingOf(pairs) ==
  [o \in {x[1] : x \in pairs} |-> (CHOOSE x \in pairs : x[1] = o)[2]]

r0 == 1
r1 == 2
r2 == 3
r5 == 6

\* LoadAndExecuteSimpleProgram, AddingTwoIntegers
SumProgram == <<PSH_LIT, 0, 25, PSH_LIT, 0, 16, ADD, POP_REG, ret, RET>>
SumTyping == {<<0, 0>>, <<3, 1>>, <<6, 2>>, <<7, 1>>, <<9, 0>>}

\* While: let x = 0, while (x < 10) { x++ }, return x
WhileProgram == <<PSH_LIT, 0, 0, INC, sp, 0, PEK_OFF, sp, 0, PSH_LIT, 0, 10,
                  CMP, sp, JLT, 0, 14, PEK_OFF, ret, 0, RET>>
WhileTyping == {<<0, 0>>, <<3, 1>>, <<6, 1>>, <<9, 2>>, <<12, 3>>, <<14, 1>>,
                <<17, 1>>, <<20, 1>>}

\* Return_Equals
EqualsProgram == <<PSH_LIT, 0, 10, PEK_OFF, sp, 0, PSH_LIT, 0, 10, CMP, sp,
                   MOV, ret, imm, RET>>
EqualsTyping == {<<0, 0>>, <<3, 1>>, <<6, 2>>, <<9, 3>>, <<11, 1>>, <<14, 1>>}

\* This project's own.  Every other handler: -7 / 2 truncated, a slot decremented, a register
\* incremented, a product, a difference of registers through imm.
RegistersProgram ==
  <<PSH_LIT, 255, 249, PEK_REG, r1, PSH_LIT, 0, 2, DIV, DEC, sp, 0,
    POP_REG, r0, INC, r0, PSH_REG, r0, PSH_REG, r1, MUL,
    PSH_REG, r0, PSH_REG, r1, CMP, sp, PSH, SUB,
    MOV, r2, imm, POP_REG, ret, RET>>
RegistersTyping ==
  {<<0, 0>>, <<3, 1>>, <<5, 1>>, <<8, 2>>, <<9, 1>>, <<12, 1>>, <<14, 0>>,
   <<16, 0>>, <<18, 1>>, <<20, 2>>, <<21, 1>>, <<23, 2>>, <<25, 3>>,
   <<27, 1>>, <<28, 2>>, <<29, 1>>, <<32, 1>>, <<34, 0>>}

\* 32767 + 1 wraps in INC of the second slot, and -32768 / -1 in DIV.
WrapProgram == <<PSH_LIT, 255, 255, PSH_LIT, 127, 255, INC, sp, 1,
                 PEK_OFF, sp, 0, DIV, POP_REG, ret, RET>>
WrapTyping == {<<0, 0>>, <<3, 1>>, <<6, 2>>, <<9, 2>>, <<12, 3>>, <<13, 2>>,
               <<15, 1>>}

DivideProgram == <<PSH_LIT, 0, 1, PSH_LIT, 0, 0, DIV, POP_REG, ret, RET>>
DivideTyping == SumTyping

\* What the code generator makes of "return 25".
CompiledProgram == <<JMP, 0, 1, PSH_LIT, 0, 25, RET, HALT>>

\* The three handlers with no body, a loop that pushes without end, and a pop
\* from an empty stack into sp.
NoOpJumpsProgram == <<JEQ, JNZ, JGT, PSH_LIT, 0, 9, POP_REG, ret, RET>>
RunawayProgram == <<PSH_LIT, 255, 255, POP_REG, imm, PSH, JLT, 0, 4>>
UnderflowProgram == <<INC, r0, PEK_OFF, r2, 0, POP_REG, sp, RET, 0, 40>>

\* imm and r0 are 3 and r5 is 5, so that CMP r0, r5 would make imm 2; JNZ should jump
\* with either.  The byte of r5 is the opcode ADD, which the two words on the stack
\* are for.
BranchProgram == <<PSH_LIT, 0, 3, PEK_REG, imm, POP_REG, r0, PSH_LIT, 0, 5, POP_REG, r5,
                   PSH_LIT, 0, 1, PSH_LIT, 0, 2, CMP, r0, r5, JNZ, 0, 0>>

TestPrograms == {SumProgram, WhileProgram, EqualsProgram, RegistersProgram,
                 WrapProgram}
RawPrograms == {CompiledProgram, NoOpJumpsProgram, RunawayProgram,
                UnderflowProgram, BranchProgram}

MCPrograms == TestPrograms \cup {DivideProgram} \cup RawPrograms

MCTyping == SumProgram       :> TypingOf(SumTyping)
         @@ WhileProgram     :> TypingOf(WhileTyping)
         @@ EqualsProgram    :> TypingOf(EqualsTyping)
         @@ RegistersProgram :> TypingOf(RegistersTyping)
         @@ WrapProgram      :> TypingOf(WrapTyping)
         @@ DivideProgram    :> TypingOf(DivideTyping)

Expected == [p \in TestPrograms |->
               CASE p = SumProgram -> 41
                 [] p = WhileProgram -> 10
                 [] p = EqualsProgram -> 0
                 [] p = RegistersProgram -> 17
                 [] p = WrapProgram -> -32768]

\* A program returns what it should, the first three what their tests expect
\* (tests_processing_unit.cpp), in a machine in any reachable state: no register,
\* stack word or return value that an earlier program, or the allocator, left
\* behind shows in it.
TestResults ==
  status = "returned" /\ Sound(loaded) /\ loaded.prog \in TestPrograms =>
    returnValue = Expected[loaded.prog]

\* execute() returns from each of the five programs above, the loop included, and
\* the other sound program stops at its division by zero.
ExecuteReturns == RunsSound ~> ~RunsSound

\* CMP rX, rY puts rY - rX in imm (docs/instruction_set.md:72,
\* shared_defines.hpp:51), and a JNZ, JEQ or JGT behind it goes elsewhere than to the
\* next byte if that is not zero, zero or positive (docs/instruction_set.md:68-70,
\* shared_defines.hpp:47-49).
BranchesOnComparison ==
  [][LET Behind(n) == mem[Reg(mem, pc) - n]
         difference == I16(U16(Reg(mem, Behind(1)) - Reg(mem, Behind(2))))
         jumps == CASE Opcode = JNZ -> difference # 0
                    [] Opcode = JEQ -> difference = 0
                    [] Opcode = JGT -> difference > 0
                    [] OTHER -> FALSE
     IN  /\ status = "running" /\ Fetched
         /\ Reg(mem, pc) >= loaded.addrs + 3
         /\ Behind(3) = CMP /\ {Behind(1), Behind(2)} \subseteq General
         /\ jumps
         => status' = "running" /\ Reg(mem', pc) # Reg(mem, pc) + 1]_vars
=============================================================================
