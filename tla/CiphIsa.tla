------------------------------ MODULE CiphIsa ------------------------------
(***************************************************************************)
(* The instruction set both halves of ciph-lang share: the numbers the     *)
(* machine computes with, the opcodes and registers of                     *)
(* shared_defines.hpp, and the discipline a program must follow for the    *)
(* handlers of instructions.cpp to keep to its own text and stack.         *)
(*                                                                         *)
(* A program is a sequence of bytes.  An offset counts its bytes from 0.   *)
(***************************************************************************)
EXTENDS Integers, Sequences

-----------------------------------------------------------------------------
(* Numbers.  uint8_t, uint16_t and int16_t values, and the casts between   *)
(* them.                                                                   *)

Byte == {n \in Nat : n < 256}
Word == {n \in Nat : n < 65536}
Int16 == {n \in Int : -32768 <= n /\ n < 32768}

\* static_cast<uint16_t>
U16(n) == n % 65536

\* static_cast<int16_t> of a uint16_t
I16(w) == IF w < 32768 THEN w ELSE w - 65536

\* mutant: the quotient rounded down
QuotientFloor(a, b) ==
  IF b < 0 THEN (-a) \div (-b) ELSE a \div b

\* int16_t division: C++ truncates towards zero, \div rounds down.
Quotient(a, b) ==
  LET Abs(n) == IF n < 0 THEN -n ELSE n
  IN  IF (a < 0) = (b < 0) THEN Abs(a) \div Abs(b) ELSE -(Abs(a) \div Abs(b))

-----------------------------------------------------------------------------
(* Opcodes (instruction::def) that have a handler, and the ones the code   *)
(* generator emits that have none.                                         *)

MOV == 2
ADD == 6
SUB == 8
MUL == 10
DIV == 12
INC == 14
DEC == 15
PSH == 16
PSH_LIT == 17
PSH_REG == 32
POP_REG == 64
PEK_REG == 80
PEK_OFF == 81
JMP == 192
JNZ == 193
JEQ == 194
JGT == 195
JLT == 196
CMP == 204
RET == 207
HALT == 254

\* The keys of instruction::handlers.
Handled == { MOV, ADD, SUB, MUL, DIV, INC, DEC, PSH, PSH_LIT, PSH_REG,
             POP_REG, PEK_REG, PEK_OFF, JNZ, JEQ, JGT, JLT, CMP, RET }

Binary == { ADD, SUB, MUL, DIV }

(* Registers (registers::def): indices of 16-bit words at the bottom of    *)
(* memory.                                                                 *)
imm == 0
ret == 8
sp == 10
fp == 11
bp == 14
pc == 15
reg_cnt == 16

\* imm, r0 to r6 and ret: the registers a program may use as data.
General == imm .. ret

-----------------------------------------------------------------------------
(* Stack discipline.  A typing h of a program maps the offset of each      *)
(* instruction that may be reached to the number of words on the stack     *)
(* when it is.  Nothing in the machine checks it: it is what the handlers  *)
(* assume.                                                                 *)

Arg(p, o, n) == p[o + 1 + n]

\* The instruction at o takes needs words, is n bytes long, and leaves delta
\* more words to the instruction after it.
Continues(h, o, n, needs, delta) ==
  /\ o + n \in DOMAIN h
  /\ h[o] >= needs
  /\ h[o + n] = h[o] + delta

\* Where jump_lt_handler goes: its operand is subtracted from a pc that
\* already stands on the operand's second byte, and the loop adds one.
Literal(p, o) == I16(256 * Arg(p, o, 1) + Arg(p, o, 2))
JumpTarget(p, o) == o + 3 - Literal(p, o)

TypedInstruction(p, h, o) ==
  LET op == p[o + 1]
  IN  \/ op = PSH /\ Continues(h, o, 1, 0, 1)
      \/ op = PSH_LIT /\ Continues(h, o, 3, 0, 1)
      \/ op \in Binary /\ Continues(h, o, 1, 2, -1)
      \/ op = RET
      \/ op = PSH_REG /\ Continues(h, o, 2, 0, 1) /\ Arg(p, o, 1) \in General
      \/ op = POP_REG /\ Continues(h, o, 2, 1, -1) /\ Arg(p, o, 1) \in General
      \/ op = PEK_REG /\ Continues(h, o, 2, 1, 0) /\ Arg(p, o, 1) \in General
      \/ op = CMP /\ Continues(h, o, 2, 2, -2) /\ Arg(p, o, 1) = sp
      \/ op = MOV /\ Continues(h, o, 3, 0, 0)
                  /\ {Arg(p, o, 1), Arg(p, o, 2)} \subseteq General
      \/ op = PEK_OFF /\ Continues(h, o, 3, 0, 1)
                      /\ Arg(p, o, 1) = sp /\ Arg(p, o, 2) < h[o]
      \/ op = PEK_OFF /\ Continues(h, o, 3, 0, 0)
                      /\ Arg(p, o, 1) \in General /\ Arg(p, o, 2) < h[o]
      \/ op \in {INC, DEC} /\ Continues(h, o, 3, 0, 0)
                           /\ Arg(p, o, 1) = sp /\ Arg(p, o, 2) < h[o]
      \/ op \in {INC, DEC} /\ Continues(h, o, 2, 0, 0)
                           /\ Arg(p, o, 1) \in General
      \/ /\ op = JLT
         /\ Continues(h, o, 3, 0, 0)
         /\ JumpTarget(p, o) \in DOMAIN h
         /\ h[JumpTarget(p, o)] = h[o]

WellTyped(p, h) ==
  /\ DOMAIN h \subseteq 0 .. Len(p) - 1
  /\ \A o \in DOMAIN h : h[o] \in Nat
  /\ 0 \in DOMAIN h
  /\ h[0] = 0
  /\ \A o \in DOMAIN h : TypedInstruction(p, h, o)

=============================================================================
