------------------------------ MODULE MCVMHigh ------------------------------
(***************************************************************************)
(* CiphVM where addresses need more than eight bits: padded programs push  *)
(* the loads that follow them to the last stack INC and DEC can address    *)
(* and to the first they cannot.                                           *)
(***************************************************************************)
EXTENDS MCVM

\* Loaded behind 203 bytes, slot 1 is the last one reached; behind 204, slot 0.
CountProgram == <<PSH_LIT, 0, 1, PSH_LIT, 0, 2, DEC, sp, 0, INC, sp, 1, SUB,
                  POP_REG, ret, RET>>
CountTyping == {<<0, 0>>, <<3, 1>>, <<6, 2>>, <<9, 2>>, <<12, 2>>, <<13, 1>>,
                <<15, 0>>}

Padded(n) == [i \in 1 .. n |-> IF i = 1 THEN RET ELSE 0]
PaddedTyping == {<<0, 0>>}

\* pc popped past the end of memory.
EscapeProgram == <<PSH_LIT, 2, 0, POP_REG, pc>>

HighPrograms == {CountProgram, Padded(203), Padded(204), EscapeProgram}

HighTyping == CountProgram :> TypingOf(CountTyping)
           @@ Padded(203)  :> TypingOf(PaddedTyping)
           @@ Padded(204)  :> TypingOf(PaddedTyping)

\* INC of a stack slot increments the value at the given offset, wherever the
\* program was loaded (docs/instruction_set.md:49, shared_defines.hpp:31).
IncrementsGivenOffset ==
  [][LET a == SlotAddr(Reg(mem, fp), Operand(mem, 2))
     IN  /\ status = "running"
         /\ loaded.prog \in Typed /\ loaded.addrs >= 2 * reg_cnt
         /\ Fetched /\ Opcode = INC /\ Operand(mem, 1) = sp
         /\ IsWordAddr(a)
         => WordAt(mem', a) = U16(WordAt(mem, a) + 1)]_vars
=============================================================================
