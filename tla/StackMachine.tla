---------------------------- MODULE StackMachine ----------------------------
(***************************************************************************)
(* What the virtual machine promises the author of a program: a machine    *)
(* with a stack of numbers and nine registers that runs one instruction    *)
(* after the other.  It has no addresses: neither sp, fp and pc nor the    *)
(* text are words a program could damage, words have no bytes, and a slot  *)
(* of the stack is an index.                                               *)
(*                                                                         *)
(* The machine may decline a program (mode "wild"): it then promises       *)
(* nothing until the next program is loaded.                               *)
(***************************************************************************)
EXTENDS CiphIsa

CONSTANTS Programs, Typing

VARIABLES
  prog,    \* the loaded program
  at,      \* the offset of the next instruction
  stack,   \* of int16 values, the bottom first
  regs,    \* imm, r0 to r6 and ret; they outlive the program
  result,  \* what the last RET returned
  mode

avars == <<prog, at, stack, regs, result, mode>>

Wrap(n) == I16(U16(n))

Init ==
  /\ prog = <<>> /\ at = 0 /\ stack = <<>>
  /\ regs = [r \in General |-> 0]
  /\ result = 0
  /\ mode = "idle"

Loaded(p, m) ==
  /\ prog' = p /\ at' = 0 /\ stack' = <<>>
  /\ mode' = m
  /\ UNCHANGED <<regs, result>>

Load(p) ==
  /\ mode \in {"idle", "returned", "wild"}
  /\ \/ p \in DOMAIN Typing /\ Loaded(p, "running")
     \/ Loaded(p, "wild")

-----------------------------------------------------------------------------
Nth(n) == Arg(prog, at, n)
Top == stack[Len(stack)]
Second == stack[Len(stack) - 1]
Drop(n) == SubSeq(stack, 1, Len(stack) - n)

\* The next instruction is an op.
At(op) == mode = "running" /\ prog[at + 1] = op

\* The instruction, n bytes long, leaves the stack s and the registers r.
Leaves(n, s, r) ==
  /\ at' = at + n
  /\ stack' = s
  /\ regs' = r
  /\ UNCHANGED <<prog, result, mode>>

SetTo(r, v) == [regs EXCEPT ![r] = v]

PushImm == At(PSH) /\ Leaves(1, Append(stack, regs[imm]), regs)
PushLiteral ==
  At(PSH_LIT) /\ Leaves(3, Append(stack, Literal(prog, at)), regs)
PushRegister ==
  At(PSH_REG) /\ Leaves(2, Append(stack, regs[Nth(1)]), regs)
PopRegister == At(POP_REG) /\ Leaves(2, Drop(1), SetTo(Nth(1), Top))
PeekTop == At(PEK_REG) /\ Leaves(2, stack, SetTo(Nth(1), Top))

\* With sp for its register, PEK_OFF pushes a copy of the slot.
PeekSlot ==
  LET v == stack[Nth(2) + 1]
  IN  /\ At(PEK_OFF)
      /\ \/ Nth(1) = sp /\ Leaves(3, Append(stack, v), regs)
         \/ Nth(1) # sp /\ Leaves(3, stack, SetTo(Nth(1), v))

Computes(v) == Leaves(1, Append(Drop(2), Wrap(v)), regs)

Arithmetic ==
  \/ At(ADD) /\ Computes(Second + Top)
  \/ At(SUB) /\ Computes(Second - Top)
  \/ At(MUL) /\ Computes(Second * Top)
  \/ At(DIV) /\ Top # 0 /\ Computes(Quotient(Second, Top))

Count(op, d) ==
  LET k == Nth(2) + 1
      r == Nth(1)
  IN  /\ At(op)
      /\ \/ r = sp /\ Leaves(3, [stack EXCEPT ![k] = Wrap(stack[k] + d)], regs)
         \/ r # sp /\ Leaves(2, stack, SetTo(r, Wrap(regs[r] + d)))

Compare ==
  /\ At(CMP)
  /\ Nth(1) = sp
  /\ Leaves(2, Drop(2), SetTo(imm, Wrap(Second - Top)))

Move == At(MOV) /\ Leaves(3, stack, SetTo(Nth(1), regs[Nth(2)]))

JumpIfLess ==
  /\ At(JLT)
  /\ Leaves(IF regs[imm] < 0 THEN JumpTarget(prog, at) - at ELSE 3, stack, regs)

Stops(m) == mode' = m /\ at' = 0 /\ stack' = <<>> /\ UNCHANGED <<prog, regs>>

Return ==
  /\ At(RET)
  /\ result' = regs[ret]
  /\ Stops("returned")

Trap ==
  /\ At(DIV)
  /\ Top = 0
  /\ UNCHANGED result
  /\ Stops("divzero")

Wild ==
  /\ mode = "wild"
  /\ regs' \in [General -> Int16]
  /\ result' \in Int16
  /\ UNCHANGED <<prog, at, stack, mode>>

Instruction ==
  \/ PushImm \/ PushLiteral \/ PushRegister \/ PopRegister
  \/ PeekTop \/ PeekSlot
  \/ Arithmetic \/ Count(INC, 1) \/ Count(DEC, -1)
  \/ Compare \/ Move \/ JumpIfLess
  \/ Return \/ Trap

ANext == (\E p \in Programs : Load(p)) \/ Instruction \/ Wild

ASpec == Init /\ [][ANext]_avars
=============================================================================
