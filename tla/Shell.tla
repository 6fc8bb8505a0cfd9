------------------------------- MODULE Shell -------------------------------
(***************************************************************************)
(* What the shell (ciph_vm.cpp) shows of the machine between two steps.    *)
(***************************************************************************)
EXTENDS CiphVM

\* mutant: the offset counted from 1
ShownOffsetFromOne(k) == U16(Reg(mem, sp) - Reg(mem, fp)) \div 2 - k + 1

\* What is printed as the offset of the k-th line.
ShownOffset(k) == U16(Reg(mem, sp) - Reg(mem, fp)) \div 2 - k

\* The lines of PrintStack, the top of the stack first: it reads down from sp,
\* the high byte of a word first, until it reaches fp.
PrintStack ==
  LET top == Reg(mem, sp)
      lines == IF top > Reg(mem, fp) THEN (top - Reg(mem, fp) + 1) \div 2 ELSE 0
  IN  [k \in 1 .. lines |->
         [offset |-> ShownOffset(k),
          value |-> I16((256 * mem[top - 2 * k + 1]) + mem[top - 2 * k])]]

\* Of a sound program's stack each slot is shown, once, with the offset by which
\* PEK_OFF, INC and DEC reach it and the number they find there.
ShownStack ==
  RunsSound =>
    /\ {PrintStack[k].offset : k \in DOMAIN PrintStack} = 0 .. FrameDepth - 1
    /\ \A k \in DOMAIN PrintStack :
         PrintStack[k].value =
           I16(WordAt(mem, SlotAddr(Reg(mem, fp), PrintStack[k].offset)))
=============================================================================
