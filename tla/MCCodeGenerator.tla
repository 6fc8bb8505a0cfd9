-------------------------- MODULE MCCodeGenerator --------------------------
(***************************************************************************)
(* An instance of CodeGenerator and the disassembler for TLC: every        *)
(* program of two statements and a last one over a small alphabet with two *)
(* variables, null children, calls, functions and conditions that are no   *)
(* comparison included, and every program of three bytes that matter.      *)
(***************************************************************************)
EXTENDS Listing, Trees

\* An opcode of each length, those that have no name or no handler, registers.
Bytes == {imm, ret, 9, sp, bp, 13, PSH, PSH_LIT, PSH_REG, PEK_REG, PEK_OFF, MOV,
          JMP, JNZ, JEQ, JLT, CMP, HALT, 255}

MCHandwritten == UNION {[1 .. n -> Bytes] : n \in 1 .. 3}
=============================================================================
