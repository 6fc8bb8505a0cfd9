----------------------------- MODULE MCVMProofs -----------------------------
(***************************************************************************)
(* The proof that five programs, three of them those of                    *)
(* tests_processing_unit.cpp, return what is expected of them, in every    *)
(* machine: of any size of memory, whatever it holds, and whatever ran     *)
(* before.                                                                 *)
(***************************************************************************)
EXTENDS MCVM, CiphVMRefinement

-----------------------------------------------------------------------------
(* An instruction of the abstract machine, by its opcode.                  *)

\* The machine runs p, is at o and has the slots s.
Stands(p, o, s) ==
  Mode = "running" /\ loaded.prog = p /\ Place = o /\ Slots = s

\* It goes on to o, with slots s and registers g.
Goes(o, s, g) ==
  /\ Mode' = "running" /\ loaded'.prog = loaded.prog
  /\ Place' = o /\ Slots' = s /\ Values' = g

Stays == UNCHANGED <<loaded.prog, Place, Slots, Values, returnValue, Mode>>

\* The registers with r set to v.
With(r, v) == [Values EXCEPT ![r] = v]

\* All but the last n slots.
But(s, n) == SubSeq(s, 1, Len(s) - n)
Last(s) == s[Len(s)]
NextToLast(s) == s[Len(s) - 1]

LEMMA Turn ==
  ASSUME Mode = "running", [Abstract!ANext]_(Abstract!avars)
  PROVE  Stays \/ Abstract!Instruction
BY DEF Abstract!ANext, Abstract!avars, Abstract!Load, Abstract!Wild, Stays

LEMMA WithIs ==
  ASSUME NEW r \in General, NEW v
  PROVE  With(r, v)[r] = v /\ \A q \in General : q # r => With(r, v)[q] = Values[q]
BY DEF With, Values

\* The instruction that is done is the one of the opcode.
LEMMA ByOpcode ==
  ASSUME Abstract!Instruction, NEW p, NEW o, NEW s, Stands(p, o, s)
  PROVE  LET op == p[o + 1]
         IN  /\ op = PSH_LIT => Abstract!PushLiteral
             /\ op = PSH => Abstract!PushImm
             /\ op = PSH_REG => Abstract!PushRegister
             /\ op = POP_REG => Abstract!PopRegister
             /\ op = PEK_REG => Abstract!PeekTop
             /\ op = PEK_OFF => Abstract!PeekSlot
             /\ op \in {ADD, SUB, MUL, DIV} => Abstract!Arithmetic \/ Abstract!Trap
             /\ op = INC => Abstract!Count(INC, 1)
             /\ op = DEC => Abstract!Count(DEC, -1)
             /\ op = CMP => Abstract!Compare
             /\ op = MOV => Abstract!Move
             /\ op = JLT => Abstract!JumpIfLess
             /\ op = RET => Abstract!Return
<1> DEFINE op == p[o + 1]
<1>1. \A c : Abstract!At(c) <=> c = op BY DEF Stands, Abstract!At
<1> HIDE DEF op
<1>2. /\ Abstract!PushLiteral => op = PSH_LIT
      /\ Abstract!PushImm => op = PSH
      /\ Abstract!PushRegister => op = PSH_REG
      /\ Abstract!PopRegister => op = POP_REG
      /\ Abstract!PeekTop => op = PEK_REG
      /\ Abstract!PeekSlot => op = PEK_OFF
      /\ Abstract!Arithmetic => op \in {ADD, SUB, MUL, DIV}
      /\ Abstract!Trap => op = DIV
      /\ Abstract!Compare => op = CMP
      /\ Abstract!Move => op = MOV
      /\ Abstract!JumpIfLess => op = JLT
      /\ Abstract!Return => op = RET
  BY <1>1, SharedIsa
     DEF Abstract!PushLiteral, Abstract!PushImm, Abstract!PushRegister,
         Abstract!PopRegister, Abstract!PeekTop, Abstract!PeekSlot,
         Abstract!Arithmetic, Abstract!Trap, Abstract!Compare, Abstract!Move,
         Abstract!JumpIfLess, Abstract!Return
<1>3. /\ Abstract!Count(Abstract!INC, 1) => op = INC /\ Abstract!Count(INC, 1)
      /\ Abstract!Count(Abstract!DEC, -1) => op = DEC /\ Abstract!Count(DEC, -1)
  BY <1>1, SharedIsa DEF Abstract!Count
<1>4. \/ Abstract!PushLiteral \/ Abstract!PushImm \/ Abstract!PushRegister
      \/ Abstract!PopRegister \/ Abstract!PeekTop \/ Abstract!PeekSlot
      \/ Abstract!Arithmetic \/ Abstract!Trap \/ Abstract!Compare \/ Abstract!Move
      \/ Abstract!JumpIfLess \/ Abstract!Return
      \/ Abstract!Count(Abstract!INC, 1) \/ Abstract!Count(Abstract!DEC, -1)
  BY Zenon DEF Abstract!Instruction
<1> QED
  BY <1>2, <1>3, <1>4
  DEF op, PSH_LIT, PSH, PSH_REG, POP_REG, PEK_REG, PEK_OFF, ADD, SUB, MUL, DIV, INC,
      DEC, CMP, MOV, JLT, RET

\* What instructions do that take their operands from the stack.
LEMMA StackTurns ==
  ASSUME Abstract!Instruction, NEW p, NEW o \in Nat, NEW s, Stands(p, o, s)
  PROVE  LET op == p[o + 1]
             Computes(v) == Goes(o + 1, Append(But(s, 2), I16(U16(v))), Values)
         IN  /\ op = PSH_LIT => Goes(o + 3, Append(s, Literal(p, o)), Values)
             /\ op = PSH => Goes(o + 1, Append(s, Values[imm]), Values)
             /\ op = SUB => Computes(NextToLast(s) - Last(s))
             /\ op = ADD => Computes(NextToLast(s) + Last(s))
             /\ op = MUL => Computes(NextToLast(s) * Last(s))
             /\ op = DIV /\ Last(s) # 0 => Computes(Quotient(NextToLast(s), Last(s)))
             /\ op = RET => /\ Mode' = "returned" /\ loaded'.prog = p
                            /\ returnValue' = Values[ret]
<1> DEFINE op == p[o + 1]
<1>1. /\ Mode = "running" /\ loaded.prog = p /\ Place = o /\ Slots = s
      /\ \A c : Abstract!At(c) <=> c = op
  BY DEF Stands, Abstract!At
<1>2. \A n, t, g : Abstract!Leaves(n, t, g) => Goes(o + n, t, g)
  BY <1>1 DEF Abstract!Leaves, Goes
<1>3. \A v : Abstract!Computes(v) =>
               Goes(o + 1, Append(But(s, 2), I16(U16(v))), Values)
  BY <1>1, <1>2, SharedIsa DEF Abstract!Computes, Abstract!Drop, But
<1>4. Abstract!Top = Last(s) /\ Abstract!Second = NextToLast(s)
  BY <1>1 DEF Abstract!Top, Abstract!Second, Last, NextToLast
<1>5. op = PSH_LIT => Goes(o + 3, Append(s, Literal(p, o)), Values)
  BY <1>1, <1>2, ByOpcode, SharedIsa DEF Abstract!PushLiteral
<1>6. op = PSH => Goes(o + 1, Append(s, Values[imm]), Values)
  BY <1>1, <1>2, ByOpcode, SharedIsa DEF Abstract!PushImm
<1>7. op = RET => Mode' = "returned" /\ loaded'.prog = p /\ returnValue' = Values[ret]
  BY <1>1, ByOpcode, SharedIsa DEF Abstract!Return, Abstract!Stops
<1>8. op \in {ADD, SUB, MUL, DIV} => Abstract!Arithmetic \/ Abstract!Trap
  BY ByOpcode
<1>9. Abstract!Trap => op = DIV /\ Last(s) = 0
  BY <1>1, <1>4, SharedIsa DEF Abstract!Trap
<1> HIDE DEF op
<1>10. Abstract!Arithmetic =>
         \/ op = ADD /\ Abstract!Computes(NextToLast(s) + Last(s))
         \/ op = SUB /\ Abstract!Computes(NextToLast(s) - Last(s))
         \/ op = MUL /\ Abstract!Computes(NextToLast(s) * Last(s))
         \/ op = DIV /\ Abstract!Computes(Quotient(NextToLast(s), Last(s)))
  BY <1>1, <1>4, SharedIsa DEF Abstract!Arithmetic
<1>11. ADD # SUB /\ ADD # MUL /\ ADD # DIV /\ SUB # MUL /\ SUB # DIV /\ MUL # DIV
  BY DEF ADD, SUB, MUL, DIV
<1> QED BY <1>3, <1>5, <1>6, <1>7, <1>8, <1>9, <1>10, <1>11, Zenon DEF op

\* And what those do that name registers or slots.
LEMMA OperandTurns ==
  ASSUME Abstract!Instruction, NEW p, NEW o \in Nat, NEW s, Stands(p, o, s)
  PROVE  LET op == p[o + 1]
             r == p[o + 2]
             k == p[o + 3] + 1
         IN  /\ op = PSH_REG => Goes(o + 2, Append(s, Values[r]), Values)
             /\ op = POP_REG => Goes(o + 2, But(s, 1), With(r, Last(s)))
             /\ op = PEK_REG => Goes(o + 2, s, With(r, Last(s)))
             /\ op = PEK_OFF /\ r = sp => Goes(o + 3, Append(s, s[k]), Values)
             /\ op = PEK_OFF /\ r # sp => Goes(o + 3, s, With(r, s[k]))
             /\ op = INC /\ r = sp =>
                  Goes(o + 3, [s EXCEPT ![k] = I16(U16(s[k] + 1))], Values)
             /\ op = INC /\ r # sp =>
                  Goes(o + 2, s, With(r, I16(U16(Values[r] + 1))))
             /\ op = DEC /\ r = sp =>
                  Goes(o + 3, [s EXCEPT ![k] = I16(U16(s[k] - 1))], Values)
             /\ op = CMP =>
                  Goes(o + 2, But(s, 2), With(imm, I16(U16(NextToLast(s) - Last(s)))))
             /\ op = MOV => Goes(o + 3, s, With(r, Values[p[o + 3]]))
             /\ op = JLT => Goes(IF Values[imm] < 0 THEN o + (JumpTarget(p, o) - o)
                                  ELSE o + 3, s, Values)
<1> DEFINE op == p[o + 1]
           r == p[o + 2]
           k == p[o + 3] + 1
<1>1. /\ Mode = "running" /\ loaded.prog = p /\ Place = o /\ Slots = s
      /\ \A c : Abstract!At(c) <=> c = op
  BY DEF Stands, Abstract!At
<1>2. \A n, t, g : Abstract!Leaves(n, t, g) => Goes(o + n, t, g)
  BY <1>1 DEF Abstract!Leaves, Goes
<1>3. Abstract!Nth(1) = r /\ Abstract!Nth(2) + 1 = k /\ Abstract!Nth(2) = p[o + 3]
  <2>1. o + 1 + 1 = o + 2 /\ o + 1 + 2 = o + 3 OBVIOUS
  <2> QED BY <1>1, <2>1, SharedIsa DEF Abstract!Nth, Arg
<1>4. Abstract!Top = Last(s) /\ Abstract!Second = NextToLast(s)
  BY <1>1 DEF Abstract!Top, Abstract!Second, Last, NextToLast
<1>5. \A q, v : Abstract!SetTo(q, v) = With(q, v) BY DEF Abstract!SetTo, With
<1>6. \A n : Abstract!Drop(n) = But(s, n) BY <1>1 DEF Abstract!Drop, But
<1>7. /\ op = PSH_REG => Abstract!PushRegister
      /\ op = POP_REG => Abstract!PopRegister
      /\ op = PEK_REG => Abstract!PeekTop
      /\ op = PEK_OFF => Abstract!PeekSlot
      /\ op = INC => Abstract!Count(INC, 1)
      /\ op = DEC => Abstract!Count(DEC, -1)
      /\ op = CMP => Abstract!Compare
      /\ op = MOV => Abstract!Move
      /\ op = JLT => Abstract!JumpIfLess
  BY ByOpcode
<1> HIDE DEF op, r, k
<1>8. op = PSH_REG => Goes(o + 2, Append(s, Values[r]), Values)
  BY <1>1, <1>2, <1>3, <1>7 DEF Abstract!PushRegister
<1>9. op = POP_REG => Goes(o + 2, But(s, 1), With(r, Last(s)))
  BY <1>1, <1>2, <1>3, <1>4, <1>5, <1>6, <1>7 DEF Abstract!PopRegister
<1>10. op = PEK_REG => Goes(o + 2, s, With(r, Last(s)))
  BY <1>1, <1>2, <1>3, <1>4, <1>5, <1>7 DEF Abstract!PeekTop
<1>11. /\ op = PEK_OFF /\ r = sp => Goes(o + 3, Append(s, s[k]), Values)
       /\ op = PEK_OFF /\ r # sp => Goes(o + 3, s, With(r, s[k]))
  BY <1>1, <1>2, <1>3, <1>5, <1>7, SharedIsa DEF Abstract!PeekSlot
<1>12. /\ op = INC /\ r = sp =>
            Goes(o + 3, [s EXCEPT ![k] = I16(U16(s[k] + 1))], Values)
       /\ op = INC /\ r # sp => Goes(o + 2, s, With(r, I16(U16(Values[r] + 1))))
  BY <1>1, <1>2, <1>3, <1>5, <1>7, SharedIsa DEF Abstract!Count
<1>13. op = DEC /\ r = sp => Goes(o + 3, [s EXCEPT ![k] = I16(U16(s[k] - 1))], Values)
  <2>1. op = DEC /\ r = sp => Goes(o + 3, [s EXCEPT ![k] = I16(U16(s[k] + -1))], Values)
    BY <1>1, <1>2, <1>3, <1>5, <1>7, SharedIsa DEF Abstract!Count
  <2> QED BY <2>1
<1>14. op = CMP =>
         Goes(o + 2, But(s, 2), With(imm, I16(U16(NextToLast(s) - Last(s)))))
  BY <1>1, <1>2, <1>3, <1>4, <1>5, <1>6, <1>7, SharedIsa DEF Abstract!Compare
<1>15. op = MOV => Goes(o + 3, s, With(r, Values[p[o + 3]]))
  BY <1>1, <1>2, <1>3, <1>5, <1>7 DEF Abstract!Move
<1>16. op = JLT => Goes(IF Values[imm] < 0 THEN o + (JumpTarget(p, o) - o)
                        ELSE o + 3, s, Values)
  BY <1>1, <1>2, <1>7, SharedIsa DEF Abstract!JumpIfLess
<1> QED
  BY <1>8, <1>9, <1>10, <1>11, <1>12, <1>13, <1>14, <1>15, <1>16, Zenon DEF op, r, k

-----------------------------------------------------------------------------
(* Tuples of up to three, as the programs' stacks are.                     *)

LEMMA Single ==
  ASSUME NEW S, NEW s \in Seq(S), NEW a \in S, Len(s) = 1, s[1] = a
  PROVE  s = <<a>>
<1>1. <<a>> \in Seq(S) /\ Len(<<a>>) = 1 /\ <<a>>[1] = a OBVIOUS
<1>2. \A i \in 1 .. 1 : i = 1 OBVIOUS
<1> QED BY <1>1, <1>2, SeqEqual

LEMMA Pair ==
  ASSUME NEW S, NEW s \in Seq(S), NEW a \in S, NEW b \in S,
         Len(s) = 2, s[1] = a, s[2] = b
  PROVE  s = <<a, b>>
<1>1. /\ <<a, b>> \in Seq(S) /\ Len(<<a, b>>) = 2
      /\ <<a, b>>[1] = a /\ <<a, b>>[2] = b
  OBVIOUS
<1>2. \A i \in 1 .. 2 : i = 1 \/ i = 2 OBVIOUS
<1>3. \A i \in 1 .. 2 : s[i] = <<a, b>>[i] BY <1>1, <1>2
<1> QED BY ONLY <1>1, <1>3, SeqEqual, s \in Seq(S), Len(s) = 2

LEMMA Triple ==
  ASSUME NEW S, NEW s \in Seq(S), NEW a \in S, NEW b \in S, NEW c \in S,
         Len(s) = 3, s[1] = a, s[2] = b, s[3] = c
  PROVE  s = <<a, b, c>>
<1>1. /\ <<a, b, c>> \in Seq(S) /\ Len(<<a, b, c>>) = 3
      /\ <<a, b, c>>[1] = a /\ <<a, b, c>>[2] = b /\ <<a, b, c>>[3] = c
  OBVIOUS
<1>2. \A i \in 1 .. 3 : i = 1 \/ i = 2 \/ i = 3 OBVIOUS
<1>3. \A i \in 1 .. 3 : s[i] = <<a, b, c>>[i] BY <1>1, <1>2
<1> QED BY ONLY <1>1, <1>3, SeqEqual, s \in Seq(S), Len(s) = 3

LEMMA Appended ==
  /\ \A a : Append(<<>>, a) = <<a>>
  /\ \A a, b : Append(<<a>>, b) = <<a, b>>
  /\ \A a, b, c : Append(<<a, b>>, c) = <<a, b, c>>
<1>1. ASSUME NEW a PROVE Append(<<>>, a) = <<a>> OBVIOUS
<1>2. ASSUME NEW a, NEW b PROVE Append(<<a>>, b) = <<a, b>>
  <2> DEFINE S == {a, b}
             t == Append(<<a>>, b)
  <2>1. a \in S /\ b \in S OBVIOUS
  <2>2. <<a>> \in Seq(S) /\ Len(<<a>>) = 1 /\ <<a>>[1] = a OBVIOUS
  <2>3. 1 \in 1 .. 1 OBVIOUS
  <2> HIDE DEF S
  <2>4. /\ t \in Seq(S) /\ Len(t) = 1 + 1
        /\ \A i \in 1 .. 1 : t[i] = <<a>>[i]
        /\ t[1 + 1] = b
    BY <2>1, <2>2, AppendProperties
  <2> HIDE DEF t
  <2>5. t[1] = a /\ t[2] = b /\ Len(t) = 2 BY <2>2, <2>3, <2>4
  <2>6. t = <<a, b>> BY <2>1, <2>4, <2>5, Pair
  <2> QED BY <2>6 DEF t
<1>3. ASSUME NEW a, NEW b, NEW c PROVE Append(<<a, b>>, c) = <<a, b, c>>
  <2> DEFINE S == {a, b, c}
             t == Append(<<a, b>>, c)
  <2>1. a \in S /\ b \in S /\ c \in S OBVIOUS
  <2>2. /\ <<a, b>> \in Seq(S) /\ Len(<<a, b>>) = 2
        /\ <<a, b>>[1] = a /\ <<a, b>>[2] = b
    OBVIOUS
  <2>3. 1 \in 1 .. 2 /\ 2 \in 1 .. 2 OBVIOUS
  <2> HIDE DEF S
  <2>4. /\ t \in Seq(S) /\ Len(t) = 2 + 1
        /\ \A i \in 1 .. 2 : t[i] = <<a, b>>[i]
        /\ t[2 + 1] = c
    BY <2>1, <2>2, AppendProperties
  <2> HIDE DEF t
  <2>5. t[1] = a /\ t[2] = b /\ t[3] = c /\ Len(t) = 3 BY <2>2, <2>3, <2>4
  <2>6. t = <<a, b, c>> BY <2>1, <2>4, <2>5, Triple
  <2> QED BY <2>6 DEF t
<1> QED BY <1>1, <1>2, <1>3

LEMMA Shortened ==
  /\ \A a : But(<<a>>, 1) = <<>>
  /\ \A a, b : But(<<a, b>>, 1) = <<a>>
  /\ \A a, b : But(<<a, b>>, 2) = <<>>
  /\ \A a, b, c : But(<<a, b, c>>, 2) = <<a>>
<1>1. \A s, a : s[1] = a => SubSeq(s, 1, 1) = <<a>>
  <2> SUFFICES ASSUME NEW s, NEW a, s[1] = a PROVE SubSeq(s, 1, 1) = <<a>>
    OBVIOUS
  <2> DEFINE t == SubSeq(s, 1, 1)
             S == {a}
  <2>1. a \in S /\ \A i \in 1 .. 1 : s[i] \in S OBVIOUS
  <2> HIDE DEF S
  <2>2. /\ t \in Seq(S)
        /\ Len(t) = IF 1 <= 1 THEN 1 - 1 + 1 ELSE 0
        /\ \A i \in 1 .. 1 - 1 + 1 : t[i] = s[1 + i - 1]
    BY <2>1, SubSeqProperties
  <2> HIDE DEF t
  <2>3. Len(t) = 1 /\ t[1] = a BY <2>2
  <2>4. t = <<a>> BY <2>1, <2>2, <2>3, Single
  <2> QED BY <2>4 DEF t
<1>2. \A s : SubSeq(s, 1, 0) = <<>> OBVIOUS
<1>3. ASSUME NEW a PROVE But(<<a>>, 1) = <<>> BY <1>2 DEF But
<1>4. ASSUME NEW a, NEW b
      PROVE  But(<<a, b>>, 1) = <<a>> /\ But(<<a, b>>, 2) = <<>>
  <2>1. <<a, b>>[1] = a /\ Len(<<a, b>>) - 1 = 1 /\ Len(<<a, b>>) - 2 = 0
    OBVIOUS
  <2> QED BY <1>1, <1>2, <2>1 DEF But
<1>5. ASSUME NEW a, NEW b, NEW c PROVE But(<<a, b, c>>, 2) = <<a>>
  <2>1. <<a, b, c>>[1] = a /\ Len(<<a, b, c>>) - 2 = 1 OBVIOUS
  <2> QED BY <1>1, <2>1 DEF But
<1> QED BY <1>3, <1>4, <1>5

LEMMA Ends ==
  /\ \A a : Last(<<a>>) = a
  /\ \A a, b : Last(<<a, b>>) = b /\ NextToLast(<<a, b>>) = a
  /\ \A a, b, c : Last(<<a, b, c>>) = c /\ NextToLast(<<a, b, c>>) = b
BY DEF Last, NextToLast

\* The arithmetic of the machine is that of the integers where they fit.
LEMMA Fits ==
  ASSUME NEW v \in Int16
  PROVE  I16(U16(v)) = v
BY DEF I16, U16, Int16

-----------------------------------------------------------------------------
\* It has returned v.
Answers(v) ==
  Mode' = "returned" /\ loaded'.prog = loaded.prog /\ returnValue' = v

\* Where it goes it stands next.
LEMMA Arrives ==
  ASSUME NEW p, NEW o, NEW s, NEW g, loaded.prog = p, Goes(o, s, g)
  PROVE  Stands(p, o, s)' /\ Values' = g
BY DEF Goes, Stands

\* The machine is in p at o with slots s, and the instruction there is op.
At(p, o, s, op) == Stands(p, o, s) /\ p[o + 1] = op

LEMMA LiteralTurn ==
  ASSUME Abstract!Instruction, NEW p, NEW o \in Nat, NEW s, At(p, o, s, PSH_LIT)
  PROVE  Goes(o + 3, Append(s, Literal(p, o)), Values)
BY StackTurns DEF At

LEMMA PushTurn ==
  ASSUME Abstract!Instruction, NEW p, NEW o \in Nat, NEW s, At(p, o, s, PSH)
  PROVE  Goes(o + 1, Append(s, Values[imm]), Values)
BY StackTurns DEF At

LEMMA AddTurn ==
  ASSUME Abstract!Instruction, NEW p, NEW o \in Nat, NEW s, At(p, o, s, ADD)
  PROVE  Goes(o + 1, Append(But(s, 2), I16(U16(NextToLast(s) + Last(s)))), Values)
BY StackTurns DEF At

LEMMA SubTurn ==
  ASSUME Abstract!Instruction, NEW p, NEW o \in Nat, NEW s, At(p, o, s, SUB)
  PROVE  Goes(o + 1, Append(But(s, 2), I16(U16(NextToLast(s) - Last(s)))), Values)
BY StackTurns DEF At

LEMMA MulTurn ==
  ASSUME Abstract!Instruction, NEW p, NEW o \in Nat, NEW s, At(p, o, s, MUL)
  PROVE  Goes(o + 1, Append(But(s, 2), I16(U16(NextToLast(s) * Last(s)))), Values)
BY StackTurns DEF At

LEMMA DivTurn ==
  ASSUME Abstract!Instruction, NEW p, NEW o \in Nat, NEW s, At(p, o, s, DIV),
         Last(s) # 0
  PROVE  Goes(o + 1, Append(But(s, 2), I16(U16(Quotient(NextToLast(s), Last(s))))),
              Values)
BY StackTurns DEF At

LEMMA ReturnTurn ==
  ASSUME Abstract!Instruction, NEW p, NEW o \in Nat, NEW s, At(p, o, s, RET)
  PROVE  Mode' = "returned" /\ loaded'.prog = p /\ returnValue' = Values[ret]
BY StackTurns DEF At

LEMMA PushRegisterTurn ==
  ASSUME Abstract!Instruction, NEW p, NEW o \in Nat, NEW s, At(p, o, s, PSH_REG)
  PROVE  Goes(o + 2, Append(s, Values[p[o + 2]]), Values)
BY OperandTurns DEF At

LEMMA PopTurn ==
  ASSUME Abstract!Instruction, NEW p, NEW o \in Nat, NEW s, At(p, o, s, POP_REG)
  PROVE  Goes(o + 2, But(s, 1), With(p[o + 2], Last(s)))
BY OperandTurns DEF At

LEMMA PeekTurn ==
  ASSUME Abstract!Instruction, NEW p, NEW o \in Nat, NEW s, At(p, o, s, PEK_REG)
  PROVE  Goes(o + 2, s, With(p[o + 2], Last(s)))
BY OperandTurns DEF At

LEMMA SlotTurn ==
  ASSUME Abstract!Instruction, NEW p, NEW o \in Nat, NEW s, At(p, o, s, PEK_OFF)
  PROVE  /\ p[o + 2] = sp => Goes(o + 3, Append(s, s[p[o + 3] + 1]), Values)
         /\ p[o + 2] # sp => Goes(o + 3, s, With(p[o + 2], s[p[o + 3] + 1]))
BY OperandTurns DEF At

LEMMA IncTurn ==
  ASSUME Abstract!Instruction, NEW p, NEW o \in Nat, NEW s, At(p, o, s, INC)
  PROVE  /\ p[o + 2] = sp =>
              Goes(o + 3, [s EXCEPT ![p[o + 3] + 1] = I16(U16(s[p[o + 3] + 1] + 1))],
                   Values)
         /\ p[o + 2] # sp =>
              Goes(o + 2, s, With(p[o + 2], I16(U16(Values[p[o + 2]] + 1))))
BY OperandTurns DEF At

LEMMA DecTurn ==
  ASSUME Abstract!Instruction, NEW p, NEW o \in Nat, NEW s, At(p, o, s, DEC),
         p[o + 2] = sp
  PROVE  Goes(o + 3, [s EXCEPT ![p[o + 3] + 1] = I16(U16(s[p[o + 3] + 1] - 1))],
              Values)
BY OperandTurns DEF At

LEMMA CompareTurn ==
  ASSUME Abstract!Instruction, NEW p, NEW o \in Nat, NEW s, At(p, o, s, CMP)
  PROVE  Goes(o + 2, But(s, 2), With(imm, I16(U16(NextToLast(s) - Last(s)))))
BY OperandTurns DEF At

LEMMA MoveTurn ==
  ASSUME Abstract!Instruction, NEW p, NEW o \in Nat, NEW s, At(p, o, s, MOV)
  PROVE  Goes(o + 3, s, With(p[o + 2], Values[p[o + 3]]))
BY OperandTurns DEF At

LEMMA JumpTurn ==
  ASSUME Abstract!Instruction, NEW p, NEW o \in Nat, NEW s, At(p, o, s, JLT)
  PROVE  Goes(IF Values[imm] < 0 THEN o + (JumpTarget(p, o) - o) ELSE o + 3, s,
              Values)
BY OperandTurns DEF At

-----------------------------------------------------------------------------
(* Each program: what its bytes say, where it stands with which slots and  *)
(* registers, and that every turn leads from one such place to another, or *)
(* returns.                                                                *)

\* A number below zero, as one name to the provers.
Neg(n) == -n

\* LoadAndExecuteSimpleProgram and AddingTwoIntegers.
Sums ==
  \/ Stands(SumProgram, 0, <<>>)
  \/ Stands(SumProgram, 3, <<25>>)
  \/ Stands(SumProgram, 6, <<25, 16>>)
  \/ Stands(SumProgram, 7, <<41>>)
  \/ Stands(SumProgram, 9, <<>>) /\ Values[ret] = 41

LEMMA SumCode ==
  /\ SumProgram[0 + 1] = PSH_LIT /\ Literal(SumProgram, 0) = 25
  /\ SumProgram[3 + 1] = PSH_LIT /\ Literal(SumProgram, 3) = 16
  /\ SumProgram[6 + 1] = ADD
  /\ SumProgram[7 + 1] = POP_REG /\ SumProgram[7 + 2] = ret
  /\ SumProgram[9 + 1] = RET
BY DEF SumProgram, Literal, Arg, I16, PSH_LIT, ADD, POP_REG, ret, RET

LEMMA SumTurns ==
  ASSUME Abstract!Instruction, Sums
  PROVE  Sums' \/ Answers(41)
<1> DEFINE p == SumProgram
<1>1. loaded.prog = p BY DEF Stands, Sums
<1>2. CASE Stands(p, 0, <<>>)
  <2> DEFINE t == <<25>>
  <2>1. p[0 + 1] = PSH_LIT /\ Literal(p, 0) = 25 BY SumCode
  <2>2. Append(<<>>, 25) = t
    BY Appended
  <2> HIDE DEF t
  <2>3. At(p, 0, <<>>, PSH_LIT)
    BY ONLY <2>1, <1>2 DEF At
  <2>4. 0 + 3 = 3 /\ 0 \in Nat OBVIOUS
  <2>5. Append(<<>>, Literal(p, 0)) = t
    BY ONLY <2>1, <2>2
  <2>6. Goes(3, t, Values)
    BY ONLY <2>3, <2>5, <2>4, Abstract!Instruction, LiteralTurn
  <2> QED BY <1>1, <2>6, Arrives DEF Sums, t
<1>3. CASE Stands(p, 3, <<25>>)
  <2> DEFINE s == <<25>>
             t == <<25, 16>>
  <2>1. p[3 + 1] = PSH_LIT /\ Literal(p, 3) = 16 BY SumCode
  <2>2. Append(s, 16) = t
    BY Appended
  <2>3. Stands(p, 3, s) BY <1>3
  <2> HIDE DEF s, t
  <2>4. At(p, 3, s, PSH_LIT)
    BY ONLY <2>1, <2>3 DEF At
  <2>5. 3 + 3 = 6 /\ 3 \in Nat OBVIOUS
  <2>6. Append(s, Literal(p, 3)) = t
    BY ONLY <2>1, <2>2
  <2>7. Goes(6, t, Values)
    BY ONLY <2>4, <2>6, <2>5, Abstract!Instruction, LiteralTurn
  <2> QED BY <1>1, <2>7, Arrives DEF Sums, t
<1>4. CASE Stands(p, 6, <<25, 16>>)
  <2> DEFINE s == <<25, 16>>
             t == <<41>>
  <2>1. p[6 + 1] = ADD BY SumCode
  <2>2. /\ But(s, 2) = <<>> /\ Append(<<>>, 41) = t
        /\ NextToLast(s) = 25 /\ Last(s) = 16
        /\ I16(U16(25 + 16)) = 41
    BY Appended, Shortened, Ends DEF I16, U16
  <2>3. Stands(p, 6, s) BY <1>4
  <2> HIDE DEF s, t
  <2>4. At(p, 6, s, ADD)
    BY ONLY <2>1, <2>3 DEF At
  <2>5. 6 + 1 = 7 /\ 6 \in Nat OBVIOUS
  <2>6. I16(U16(NextToLast(s) + Last(s))) = 41
    BY ONLY <2>1, <2>2
  <2>7. Append(But(s, 2), 41) = t
    BY ONLY <2>1, <2>2
  <2>8. Append(But(s, 2), I16(U16(NextToLast(s) + Last(s)))) = t
    BY ONLY <2>6, <2>7
  <2>9. Goes(7, t, Values)
    BY ONLY <2>4, <2>8, <2>5, Abstract!Instruction, AddTurn
  <2> QED BY <1>1, <2>9, Arrives DEF Sums, t
<1>5. CASE Stands(p, 7, <<41>>)
  <2> DEFINE s == <<41>>
  <2>1. p[7 + 1] = POP_REG /\ p[7 + 2] = ret BY SumCode
  <2>2. But(s, 1) = <<>> /\ Last(s) = 41
    BY Shortened, Ends
  <2>3. Stands(p, 7, s) BY <1>5
  <2> HIDE DEF s
  <2>4. At(p, 7, s, POP_REG)
    BY ONLY <2>1, <2>3 DEF At
  <2>5. 7 + 2 = 9 /\ 7 \in Nat OBVIOUS
  <2>6. But(s, 1) = <<>>
    BY ONLY <2>1, <2>2
  <2>7. With(p[7 + 2], Last(s)) = With(ret, 41)
    BY ONLY <2>1, <2>2
  <2>8. Goes(9, <<>>, With(ret, 41))
    BY ONLY <2>4, <2>6, <2>7, <2>5, Abstract!Instruction, PopTurn
  <2>9. With(ret, 41)[ret] = 41
    BY WithIs DEF General, ret, imm
  <2> QED BY <1>1, <2>8, <2>9, Arrives DEF Sums
<1>6. CASE Stands(p, 9, <<>>) /\ Values[ret] = 41
  BY <1>1, <1>6, ReturnTurn, SumCode DEF At, Answers
<1> QED BY <1>2, <1>3, <1>4, <1>5, <1>6 DEF Sums

\* Return_Equals.
Equals ==
  \/ Stands(EqualsProgram, 0, <<>>)
  \/ Stands(EqualsProgram, 3, <<10>>)
  \/ Stands(EqualsProgram, 6, <<10, 10>>)
  \/ Stands(EqualsProgram, 9, <<10, 10, 10>>)
  \/ Stands(EqualsProgram, 11, <<10>>) /\ Values[imm] = 0
  \/ Stands(EqualsProgram, 14, <<10>>) /\ Values[ret] = 0

LEMMA EqualCode ==
  /\ EqualsProgram[0 + 1] = PSH_LIT /\ Literal(EqualsProgram, 0) = 10
  /\ EqualsProgram[3 + 1] = PEK_OFF
  /\ EqualsProgram[3 + 2] = sp
  /\ EqualsProgram[3 + 3] + 1 = 1
  /\ EqualsProgram[6 + 1] = PSH_LIT /\ Literal(EqualsProgram, 6) = 10
  /\ EqualsProgram[9 + 1] = CMP /\ EqualsProgram[9 + 2] = sp
  /\ EqualsProgram[11 + 1] = MOV
  /\ EqualsProgram[11 + 2] = ret
  /\ EqualsProgram[11 + 3] = imm
  /\ EqualsProgram[14 + 1] = RET
BY DEF EqualsProgram, Literal, Arg, I16, PSH_LIT, PEK_OFF, CMP, MOV, sp,
       ret, imm, RET

LEMMA EqualTurns ==
  ASSUME Abstract!Instruction, Equals
  PROVE  Equals' \/ Answers(0)
<1> DEFINE p == EqualsProgram
<1>1. loaded.prog = p BY DEF Stands, Equals
<1>2. CASE Stands(p, 0, <<>>)
  <2> DEFINE t == <<10>>
  <2>1. p[0 + 1] = PSH_LIT /\ Literal(p, 0) = 10 BY EqualCode
  <2>2. Append(<<>>, 10) = t
    BY Appended
  <2> HIDE DEF t
  <2>3. At(p, 0, <<>>, PSH_LIT)
    BY ONLY <2>1, <1>2 DEF At
  <2>4. 0 + 3 = 3 /\ 0 \in Nat OBVIOUS
  <2>5. Append(<<>>, Literal(p, 0)) = t
    BY ONLY <2>1, <2>2
  <2>6. Goes(3, t, Values)
    BY ONLY <2>3, <2>5, <2>4, Abstract!Instruction, LiteralTurn
  <2> QED BY <1>1, <2>6, Arrives DEF Equals, t
<1>3. CASE Stands(p, 3, <<10>>)
  <2> DEFINE s == <<10>>
             t == <<10, 10>>
  <2>1. p[3 + 1] = PEK_OFF /\ p[3 + 2] = sp /\ p[3 + 3] + 1 = 1 BY EqualCode
  <2>2. s[1] = 10 /\ Append(s, 10) = t
    BY Appended
  <2>3. Stands(p, 3, s) BY <1>3
  <2> HIDE DEF s, t
  <2>4. At(p, 3, s, PEK_OFF)
    BY ONLY <2>1, <2>3 DEF At
  <2>5. 3 + 3 = 6 /\ 3 \in Nat OBVIOUS
  <2>6. Append(s, s[p[3 + 3] + 1]) = t
    BY ONLY <2>1, <2>2
  <2>7. p[3 + 2] = sp
    BY ONLY <2>1, <2>2
  <2>8. Goes(6, t, Values)
    BY ONLY <2>4, <2>6, <2>7, <2>5, Abstract!Instruction, SlotTurn
  <2> QED BY <1>1, <2>8, Arrives DEF Equals, t
<1>4. CASE Stands(p, 6, <<10, 10>>)
  <2> DEFINE s == <<10, 10>>
             t == <<10, 10, 10>>
  <2>1. p[6 + 1] = PSH_LIT /\ Literal(p, 6) = 10 BY EqualCode
  <2>2. Append(s, 10) = t
    BY Appended
  <2>3. Stands(p, 6, s) BY <1>4
  <2> HIDE DEF s, t
  <2>4. At(p, 6, s, PSH_LIT)
    BY ONLY <2>1, <2>3 DEF At
  <2>5. 6 + 3 = 9 /\ 6 \in Nat OBVIOUS
  <2>6. Append(s, Literal(p, 6)) = t
    BY ONLY <2>1, <2>2
  <2>7. Goes(9, t, Values)
    BY ONLY <2>4, <2>6, <2>5, Abstract!Instruction, LiteralTurn
  <2> QED BY <1>1, <2>7, Arrives DEF Equals, t
<1>5. CASE Stands(p, 9, <<10, 10, 10>>)
  <2> DEFINE s == <<10, 10, 10>>
             t == <<10>>
  <2>1. p[9 + 1] = CMP /\ p[9 + 2] = sp BY EqualCode
  <2>2. /\ But(s, 2) = t /\ I16(U16(10 - 10)) = 0
        /\ NextToLast(s) = 10 /\ Last(s) = 10
    BY Shortened, Ends DEF I16, U16
  <2>3. Stands(p, 9, s) BY <1>5
  <2> HIDE DEF s, t
  <2>4. At(p, 9, s, CMP)
    BY ONLY <2>1, <2>3 DEF At
  <2>5. 9 + 2 = 11 /\ 9 \in Nat OBVIOUS
  <2>6. But(s, 2) = t
    BY ONLY <2>1, <2>2
  <2>7. With(imm, I16(U16(NextToLast(s) - Last(s)))) = With(imm, 0)
    BY ONLY <2>1, <2>2
  <2>8. p[9 + 2] = sp
    BY ONLY <2>1, <2>2
  <2>9. Goes(11, t, With(imm, 0))
    BY ONLY <2>4, <2>6, <2>7, <2>8, <2>5, Abstract!Instruction, CompareTurn
  <2>10. With(imm, 0)[imm] = 0
    BY WithIs DEF General, ret, imm
  <2> QED BY <1>1, <2>9, <2>10, Arrives DEF Equals, t
<1>6. CASE Stands(p, 11, <<10>>) /\ Values[imm] = 0
  <2> DEFINE s == <<10>>
  <2>1. p[11 + 1] = MOV /\ p[11 + 2] = ret /\ p[11 + 3] = imm BY EqualCode
  <2>2. 11 + 3 = 14
    BY SMT
  <2>3. Stands(p, 11, s) BY <1>6
  <2>4. Values[imm] = 0 BY <1>6
  <2> HIDE DEF s
  <2>5. At(p, 11, s, MOV)
    BY ONLY <2>1, <2>3 DEF At
  <2>6. 11 + 3 = 14 /\ 11 \in Nat OBVIOUS
  <2>7. With(p[11 + 2], Values[p[11 + 3]]) = With(ret, 0)
    BY ONLY <2>1, <2>2, <2>4
  <2>8. Goes(14, s, With(ret, 0))
    BY ONLY <2>5, <2>7, <2>6, Abstract!Instruction, MoveTurn
  <2>9. With(ret, 0)[ret] = 0
    BY WithIs DEF General, ret, imm
  <2> QED BY <1>1, <2>4, <2>8, <2>9, Arrives DEF Equals, s
<1>7. CASE Stands(p, 14, <<10>>) /\ Values[ret] = 0
  BY <1>1, <1>7, ReturnTurn, EqualCode DEF At, Answers
<1> QED BY <1>2, <1>3, <1>4, <1>5, <1>6, <1>7 DEF Equals

\* 32767 + 1 and -32768 / -1.
Wraps ==
  \/ Stands(WrapProgram, 0, <<>>)
  \/ Stands(WrapProgram, 3, <<Neg(1)>>)
  \/ Stands(WrapProgram, 6, <<Neg(1), 32767>>)
  \/ Stands(WrapProgram, 9, <<Neg(1), Neg(32768)>>)
  \/ Stands(WrapProgram, 12, <<Neg(1), Neg(32768), Neg(1)>>)
  \/ Stands(WrapProgram, 13, <<Neg(1), Neg(32768)>>)
  \/ Stands(WrapProgram, 15, <<Neg(1)>>) /\ Values[ret] = Neg(32768)

LEMMA WrapCode ==
  /\ WrapProgram[0 + 1] = PSH_LIT /\ Literal(WrapProgram, 0) = Neg(1)
  /\ WrapProgram[3 + 1] = PSH_LIT /\ Literal(WrapProgram, 3) = 32767
  /\ WrapProgram[6 + 1] = INC
  /\ WrapProgram[6 + 2] = sp
  /\ WrapProgram[6 + 3] + 1 = 2
  /\ WrapProgram[9 + 1] = PEK_OFF
  /\ WrapProgram[9 + 2] = sp
  /\ WrapProgram[9 + 3] + 1 = 1
  /\ WrapProgram[12 + 1] = DIV
  /\ WrapProgram[13 + 1] = POP_REG /\ WrapProgram[13 + 2] = ret
  /\ WrapProgram[15 + 1] = RET
BY DEF WrapProgram, Literal, Arg, I16, PSH_LIT, INC, PEK_OFF, DIV, POP_REG, sp,
       ret, RET, Neg

LEMMA WrapTurns ==
  ASSUME Abstract!Instruction, Wraps
  PROVE  Wraps' \/ Answers(Neg(32768))
<1> DEFINE p == WrapProgram
<1>1. loaded.prog = p BY DEF Stands, Wraps
<1>2. CASE Stands(p, 0, <<>>)
  <2> DEFINE t == <<Neg(1)>>
  <2>1. p[0 + 1] = PSH_LIT /\ Literal(p, 0) = Neg(1) BY WrapCode
  <2>2. Append(<<>>, Neg(1)) = t
    BY Appended
  <2> HIDE DEF t
  <2>3. At(p, 0, <<>>, PSH_LIT)
    BY ONLY <2>1, <1>2 DEF At
  <2>4. 0 + 3 = 3 /\ 0 \in Nat OBVIOUS
  <2>5. Append(<<>>, Literal(p, 0)) = t
    BY ONLY <2>1, <2>2
  <2>6. Goes(3, t, Values)
    BY ONLY <2>3, <2>5, <2>4, Abstract!Instruction, LiteralTurn
  <2> QED BY <1>1, <2>6, Arrives DEF Wraps, t
<1>3. CASE Stands(p, 3, <<Neg(1)>>)
  <2> DEFINE s == <<Neg(1)>>
             t == <<Neg(1), 32767>>
  <2>1. p[3 + 1] = PSH_LIT /\ Literal(p, 3) = 32767 BY WrapCode
  <2>2. Append(s, 32767) = t
    BY Appended
  <2>3. Stands(p, 3, s) BY <1>3
  <2> HIDE DEF s, t
  <2>4. At(p, 3, s, PSH_LIT)
    BY ONLY <2>1, <2>3 DEF At
  <2>5. 3 + 3 = 6 /\ 3 \in Nat OBVIOUS
  <2>6. Append(s, Literal(p, 3)) = t
    BY ONLY <2>1, <2>2
  <2>7. Goes(6, t, Values)
    BY ONLY <2>4, <2>6, <2>5, Abstract!Instruction, LiteralTurn
  <2> QED BY <1>1, <2>7, Arrives DEF Wraps, t
<1>4. CASE Stands(p, 6, <<Neg(1), 32767>>)
  <2> DEFINE s == <<Neg(1), 32767>>
             t == <<Neg(1), Neg(32768)>>
  <2>1. p[6 + 1] = INC /\ p[6 + 2] = sp /\ p[6 + 3] + 1 = 2 BY WrapCode
  <2>2. /\ [s EXCEPT ![2] = Neg(32768)] = t
        /\ s[2] = 32767 /\ I16(U16(32767 + 1)) = Neg(32768)
    BY DEF I16, U16, Neg
  <2>3. Stands(p, 6, s) BY <1>4
  <2> HIDE DEF s, t
  <2>4. At(p, 6, s, INC)
    BY ONLY <2>1, <2>3 DEF At
  <2>5. 6 + 3 = 9 /\ 6 \in Nat OBVIOUS
  <2>6. [s EXCEPT ![p[6 + 3] + 1] = I16(U16(s[p[6 + 3] + 1] + 1))] = t
    BY ONLY <2>1, <2>2
  <2>7. p[6 + 2] = sp
    BY ONLY <2>1, <2>2
  <2>8. Goes(9, t, Values)
    BY ONLY <2>4, <2>6, <2>7, <2>5, Abstract!Instruction, IncTurn
  <2> QED BY <1>1, <2>8, Arrives DEF Wraps, t
<1>5. CASE Stands(p, 9, <<Neg(1), Neg(32768)>>)
  <2> DEFINE s == <<Neg(1), Neg(32768)>>
             t == <<Neg(1), Neg(32768), Neg(1)>>
  <2>1. p[9 + 1] = PEK_OFF /\ p[9 + 2] = sp /\ p[9 + 3] + 1 = 1 BY WrapCode
  <2>2. s[1] = Neg(1) /\ Append(s, Neg(1)) = t
    BY Appended
  <2>3. Stands(p, 9, s) BY <1>5
  <2> HIDE DEF s, t
  <2>4. At(p, 9, s, PEK_OFF)
    BY ONLY <2>1, <2>3 DEF At
  <2>5. 9 + 3 = 12 /\ 9 \in Nat OBVIOUS
  <2>6. Append(s, s[p[9 + 3] + 1]) = t
    BY ONLY <2>1, <2>2
  <2>7. p[9 + 2] = sp
    BY ONLY <2>1, <2>2
  <2>8. Goes(12, t, Values)
    BY ONLY <2>4, <2>6, <2>7, <2>5, Abstract!Instruction, SlotTurn
  <2> QED BY <1>1, <2>8, Arrives DEF Wraps, t
<1>6. CASE Stands(p, 12, <<Neg(1), Neg(32768), Neg(1)>>)
  <2> DEFINE s == <<Neg(1), Neg(32768), Neg(1)>>
             t == <<Neg(1), Neg(32768)>>
             u == <<Neg(1)>>
  <2>1. p[12 + 1] = DIV BY WrapCode
  <2>2. /\ But(s, 2) = u /\ Append(u, Neg(32768)) = t
        /\ NextToLast(s) = Neg(32768) /\ Last(s) = Neg(1)
        /\ I16(U16(Quotient(Neg(32768), Neg(1)))) = Neg(32768) /\ Neg(1) # 0
    BY Appended, Shortened, Ends DEF I16, U16, Neg, Quotient
  <2>3. Stands(p, 12, s) BY <1>6
  <2> HIDE DEF s, t, u
  <2>4. At(p, 12, s, DIV)
    BY ONLY <2>1, <2>3 DEF At
  <2>5. 12 + 1 = 13 /\ 12 \in Nat OBVIOUS
  <2>6. I16(U16(Quotient(NextToLast(s), Last(s)))) = Neg(32768)
    BY ONLY <2>1, <2>2
  <2>7. Append(But(s, 2), Neg(32768)) = t
    BY ONLY <2>1, <2>2
  <2>8. Append(But(s, 2), I16(U16(Quotient(NextToLast(s), Last(s))))) = t
    BY ONLY <2>6, <2>7
  <2>9. Last(s) # 0
    BY ONLY <2>1, <2>2
  <2>10. Goes(13, t, Values)
    BY ONLY <2>4, <2>8, <2>9, <2>5, Abstract!Instruction, DivTurn
  <2> QED BY <1>1, <2>10, Arrives DEF Wraps, t
<1>7. CASE Stands(p, 13, <<Neg(1), Neg(32768)>>)
  <2> DEFINE s == <<Neg(1), Neg(32768)>>
             t == <<Neg(1)>>
  <2>1. p[13 + 1] = POP_REG /\ p[13 + 2] = ret BY WrapCode
  <2>2. But(s, 1) = t /\ Last(s) = Neg(32768)
    BY Shortened, Ends
  <2>3. Stands(p, 13, s) BY <1>7
  <2> HIDE DEF s, t
  <2>4. At(p, 13, s, POP_REG)
    BY ONLY <2>1, <2>3 DEF At
  <2>5. 13 + 2 = 15 /\ 13 \in Nat OBVIOUS
  <2>6. But(s, 1) = t
    BY ONLY <2>1, <2>2
  <2>7. With(p[13 + 2], Last(s)) = With(ret, Neg(32768))
    BY ONLY <2>1, <2>2
  <2>8. Goes(15, t, With(ret, Neg(32768)))
    BY ONLY <2>4, <2>6, <2>7, <2>5, Abstract!Instruction, PopTurn
  <2>9. With(ret, Neg(32768))[ret] = Neg(32768)
    BY WithIs DEF General, ret, imm
  <2> QED BY <1>1, <2>8, <2>9, Arrives DEF Wraps, t
<1>8. CASE Stands(p, 15, <<Neg(1)>>) /\ Values[ret] = Neg(32768)
  BY <1>1, <1>8, ReturnTurn, WrapCode DEF At, Answers
<1> QED BY <1>2, <1>3, <1>4, <1>5, <1>6, <1>7, <1>8 DEF Wraps

\* Every other handler.
Registers ==
  \/ Stands(RegistersProgram, 0, <<>>)
  \/ Stands(RegistersProgram, 3, <<Neg(7)>>)
  \/ Stands(RegistersProgram, 5, <<Neg(7)>>) /\ Values[r1] = Neg(7)
  \/ Stands(RegistersProgram, 8, <<Neg(7), 2>>) /\ Values[r1] = Neg(7)
  \/ Stands(RegistersProgram, 9, <<Neg(3)>>) /\ Values[r1] = Neg(7)
  \/ Stands(RegistersProgram, 12, <<Neg(4)>>) /\ Values[r1] = Neg(7)
  \/ Stands(RegistersProgram, 14, <<>>)
     /\ Values[r0] = Neg(4) /\ Values[r1] = Neg(7)
  \/ Stands(RegistersProgram, 16, <<>>)
     /\ Values[r0] = Neg(3) /\ Values[r1] = Neg(7)
  \/ Stands(RegistersProgram, 18, <<Neg(3)>>)
     /\ Values[r0] = Neg(3) /\ Values[r1] = Neg(7)
  \/ Stands(RegistersProgram, 20, <<Neg(3), Neg(7)>>)
     /\ Values[r0] = Neg(3) /\ Values[r1] = Neg(7)
  \/ Stands(RegistersProgram, 21, <<21>>)
     /\ Values[r0] = Neg(3) /\ Values[r1] = Neg(7)
  \/ Stands(RegistersProgram, 23, <<21, Neg(3)>>)
     /\ Values[r0] = Neg(3) /\ Values[r1] = Neg(7)
  \/ Stands(RegistersProgram, 25, <<21, Neg(3), Neg(7)>>)
  \/ Stands(RegistersProgram, 27, <<21>>) /\ Values[imm] = 4
  \/ Stands(RegistersProgram, 28, <<21, 4>>)
  \/ Stands(RegistersProgram, 29, <<17>>)
  \/ Stands(RegistersProgram, 32, <<17>>)
  \/ Stands(RegistersProgram, 34, <<>>) /\ Values[ret] = 17

LEMMA RegisterCode ==
  /\ RegistersProgram[0 + 1] = PSH_LIT /\ Literal(RegistersProgram, 0) = Neg(7)
  /\ RegistersProgram[3 + 1] = PEK_REG /\ RegistersProgram[3 + 2] = r1
  /\ RegistersProgram[5 + 1] = PSH_LIT /\ Literal(RegistersProgram, 5) = 2
  /\ RegistersProgram[8 + 1] = DIV
  /\ RegistersProgram[9 + 1] = DEC
  /\ RegistersProgram[9 + 2] = sp
  /\ RegistersProgram[9 + 3] + 1 = 1
  /\ RegistersProgram[12 + 1] = POP_REG /\ RegistersProgram[12 + 2] = r0
  /\ RegistersProgram[14 + 1] = INC /\ RegistersProgram[14 + 2] = r0
  /\ RegistersProgram[16 + 1] = PSH_REG /\ RegistersProgram[16 + 2] = r0
  /\ RegistersProgram[18 + 1] = PSH_REG /\ RegistersProgram[18 + 2] = r1
  /\ RegistersProgram[20 + 1] = MUL
  /\ RegistersProgram[21 + 1] = PSH_REG /\ RegistersProgram[21 + 2] = r0
  /\ RegistersProgram[23 + 1] = PSH_REG /\ RegistersProgram[23 + 2] = r1
  /\ RegistersProgram[25 + 1] = CMP /\ RegistersProgram[25 + 2] = sp
  /\ RegistersProgram[27 + 1] = PSH
  /\ RegistersProgram[28 + 1] = SUB
  /\ RegistersProgram[29 + 1] = MOV
  /\ RegistersProgram[29 + 2] = r2
  /\ RegistersProgram[29 + 3] = imm
  /\ RegistersProgram[32 + 1] = POP_REG /\ RegistersProgram[32 + 2] = ret
  /\ RegistersProgram[34 + 1] = RET
BY DEF RegistersProgram, Literal, Arg, I16, Neg, PSH_LIT, PEK_REG, DIV, DEC,
       POP_REG, INC, PSH_REG, MUL, CMP, PSH, SUB, MOV, RET, r0, r1, r2, imm, sp,
       ret

LEMMA RegisterTurns ==
  ASSUME Abstract!Instruction, Registers
  PROVE  Registers' \/ Answers(17)
<1> DEFINE p == RegistersProgram
<1>1. loaded.prog = p BY DEF Stands, Registers
<1>2. CASE Stands(p, 0, <<>>)
  <2> DEFINE t == <<Neg(7)>>
  <2>1. p[0 + 1] = PSH_LIT /\ Literal(p, 0) = Neg(7) BY RegisterCode
  <2>2. Append(<<>>, Neg(7)) = t
    BY Appended
  <2> HIDE DEF t
  <2>3. At(p, 0, <<>>, PSH_LIT)
    BY ONLY <2>1, <1>2 DEF At
  <2>4. 0 + 3 = 3 /\ 0 \in Nat OBVIOUS
  <2>5. Append(<<>>, Literal(p, 0)) = t
    BY ONLY <2>1, <2>2
  <2>6. Goes(3, t, Values)
    BY ONLY <2>3, <2>5, <2>4, Abstract!Instruction, LiteralTurn
  <2> QED BY <1>1, <2>6, Arrives DEF Registers, t
<1>3. CASE Stands(p, 3, <<Neg(7)>>)
  <2> DEFINE s == <<Neg(7)>>
  <2>1. p[3 + 1] = PEK_REG /\ p[3 + 2] = r1 BY RegisterCode
  <2>2. Last(s) = Neg(7)
    BY Ends
  <2>3. Stands(p, 3, s) BY <1>3
  <2> HIDE DEF s
  <2>4. At(p, 3, s, PEK_REG)
    BY ONLY <2>1, <2>3 DEF At
  <2>5. 3 + 2 = 5 /\ 3 \in Nat OBVIOUS
  <2>6. With(p[3 + 2], Last(s)) = With(r1, Neg(7))
    BY ONLY <2>1, <2>2
  <2>7. Goes(5, s, With(r1, Neg(7)))
    BY ONLY <2>4, <2>6, <2>5, Abstract!Instruction, PeekTurn
  <2>8. With(r1, Neg(7))[r1] = Neg(7)
    BY WithIs DEF General, ret, imm, r0, r1, r2
  <2> QED BY <1>1, <2>7, <2>8, Arrives DEF Registers, s
<1>4. CASE Stands(p, 5, <<Neg(7)>>) /\ Values[r1] = Neg(7)
  <2> DEFINE s == <<Neg(7)>>
             t == <<Neg(7), 2>>
  <2>1. p[5 + 1] = PSH_LIT /\ Literal(p, 5) = 2 BY RegisterCode
  <2>2. Append(s, 2) = t
    BY Appended
  <2>3. Stands(p, 5, s) BY <1>4
  <2>4. Values[r1] = Neg(7) BY <1>4
  <2> HIDE DEF s, t
  <2>5. At(p, 5, s, PSH_LIT)
    BY ONLY <2>1, <2>3 DEF At
  <2>6. 5 + 3 = 8 /\ 5 \in Nat OBVIOUS
  <2>7. Append(s, Literal(p, 5)) = t
    BY ONLY <2>1, <2>2, <2>4
  <2>8. Goes(8, t, Values)
    BY ONLY <2>5, <2>7, <2>6, Abstract!Instruction, LiteralTurn
  <2> QED BY <1>1, <2>4, <2>8, Arrives DEF Registers, t
<1>5. CASE Stands(p, 8, <<Neg(7), 2>>) /\ Values[r1] = Neg(7)
  <2> DEFINE s == <<Neg(7), 2>>
             t == <<Neg(3)>>
  <2>1. p[8 + 1] = DIV BY RegisterCode
  <2>2. /\ But(s, 2) = <<>> /\ Append(<<>>, Neg(3)) = t
        /\ NextToLast(s) = Neg(7) /\ Last(s) = 2
        /\ I16(U16(Quotient(Neg(7), 2))) = Neg(3) /\ 2 # 0
    BY Appended, Shortened, Ends DEF I16, U16, Neg, Quotient
  <2>3. Stands(p, 8, s) BY <1>5
  <2>4. Values[r1] = Neg(7) BY <1>5
  <2> HIDE DEF s, t
  <2>5. At(p, 8, s, DIV)
    BY ONLY <2>1, <2>3 DEF At
  <2>6. 8 + 1 = 9 /\ 8 \in Nat OBVIOUS
  <2>7. I16(U16(Quotient(NextToLast(s), Last(s)))) = Neg(3)
    BY ONLY <2>1, <2>2, <2>4
  <2>8. Append(But(s, 2), Neg(3)) = t
    BY ONLY <2>1, <2>2, <2>4
  <2>9. Append(But(s, 2), I16(U16(Quotient(NextToLast(s), Last(s))))) = t
    BY ONLY <2>7, <2>8
  <2>10. Last(s) # 0
    BY ONLY <2>1, <2>2, <2>4
  <2>11. Goes(9, t, Values)
    BY ONLY <2>5, <2>9, <2>10, <2>6, Abstract!Instruction, DivTurn
  <2> QED BY <1>1, <2>4, <2>11, Arrives DEF Registers, t
<1>6. CASE Stands(p, 9, <<Neg(3)>>) /\ Values[r1] = Neg(7)
  <2> DEFINE s == <<Neg(3)>>
             t == <<Neg(4)>>
  <2>1. p[9 + 1] = DEC /\ p[9 + 2] = sp /\ p[9 + 3] + 1 = 1 BY RegisterCode
  <2>2. /\ [s EXCEPT ![1] = Neg(4)] = t
        /\ s[1] = Neg(3) /\ I16(U16(Neg(3) - 1)) = Neg(4)
    BY DEF I16, U16, Neg
  <2>3. Stands(p, 9, s) BY <1>6
  <2>4. Values[r1] = Neg(7) BY <1>6
  <2> HIDE DEF s, t
  <2>5. At(p, 9, s, DEC)
    BY ONLY <2>1, <2>3 DEF At
  <2>6. 9 + 3 = 12 /\ 9 \in Nat OBVIOUS
  <2>7. [s EXCEPT ![p[9 + 3] + 1] = I16(U16(s[p[9 + 3] + 1] - 1))] = t
    BY ONLY <2>1, <2>2, <2>4
  <2>8. p[9 + 2] = sp
    BY ONLY <2>1, <2>2, <2>4
  <2>9. Goes(12, t, Values)
    BY ONLY <2>5, <2>7, <2>8, <2>6, Abstract!Instruction, DecTurn
  <2> QED BY <1>1, <2>4, <2>9, Arrives DEF Registers, t
<1>7. CASE Stands(p, 12, <<Neg(4)>>) /\ Values[r1] = Neg(7)
  <2> DEFINE s == <<Neg(4)>>
  <2>1. p[12 + 1] = POP_REG /\ p[12 + 2] = r0 BY RegisterCode
  <2>2. But(s, 1) = <<>> /\ Last(s) = Neg(4)
    BY Shortened, Ends
  <2>3. Stands(p, 12, s) BY <1>7
  <2>4. Values[r1] = Neg(7) BY <1>7
  <2> HIDE DEF s
  <2>5. At(p, 12, s, POP_REG)
    BY ONLY <2>1, <2>3 DEF At
  <2>6. 12 + 2 = 14 /\ 12 \in Nat OBVIOUS
  <2>7. But(s, 1) = <<>>
    BY ONLY <2>1, <2>2, <2>4
  <2>8. With(p[12 + 2], Last(s)) = With(r0, Neg(4))
    BY ONLY <2>1, <2>2, <2>4
  <2>9. Goes(14, <<>>, With(r0, Neg(4)))
    BY ONLY <2>5, <2>7, <2>8, <2>6, Abstract!Instruction, PopTurn
  <2>10. With(r0, Neg(4))[r0] = Neg(4) /\ With(r0, Neg(4))[r1] = Values[r1]
    BY WithIs DEF General, ret, imm, r0, r1, r2
  <2> QED BY <1>1, <2>4, <2>9, <2>10, Arrives DEF Registers
<1>8. CASE Stands(p, 14, <<>>) /\ Values[r0] = Neg(4) /\ Values[r1] = Neg(7)
  <2>1. p[14 + 1] = INC /\ p[14 + 2] = r0 BY RegisterCode
  <2>2. I16(U16(Neg(4) + 1)) = Neg(3) /\ r0 # sp
    BY DEF I16, U16, Neg, r0, sp
  <2>3. At(p, 14, <<>>, INC)
    BY ONLY <2>1, <1>8 DEF At
  <2>4. 14 + 2 = 16 /\ 14 \in Nat OBVIOUS
  <2>5. With(p[14 + 2], I16(U16(Values[p[14 + 2]] + 1))) = With(r0, Neg(3))
    BY ONLY <2>1, <2>2, <1>8
  <2>6. p[14 + 2] # sp
    BY ONLY <2>1, <2>2, <1>8
  <2>7. Goes(16, <<>>, With(r0, Neg(3)))
    BY ONLY <2>3, <2>5, <2>6, <2>4, Abstract!Instruction, IncTurn
  <2>8. With(r0, Neg(3))[r0] = Neg(3) /\ With(r0, Neg(3))[r1] = Values[r1]
    BY WithIs DEF General, ret, imm, r0, r1, r2
  <2> QED BY <1>1, <1>8, <2>7, <2>8, Arrives DEF Registers
<1>9. CASE Stands(p, 16, <<>>) /\ Values[r0] = Neg(3) /\ Values[r1] = Neg(7)
  <2> DEFINE t == <<Neg(3)>>
  <2>1. p[16 + 1] = PSH_REG /\ p[16 + 2] = r0 BY RegisterCode
  <2>2. Append(<<>>, Neg(3)) = t
    BY Appended
  <2> HIDE DEF t
  <2>3. At(p, 16, <<>>, PSH_REG)
    BY ONLY <2>1, <1>9 DEF At
  <2>4. 16 + 2 = 18 /\ 16 \in Nat OBVIOUS
  <2>5. Append(<<>>, Values[p[16 + 2]]) = t
    BY ONLY <2>1, <2>2, <1>9
  <2>6. Goes(18, t, Values)
    BY ONLY <2>3, <2>5, <2>4, Abstract!Instruction, PushRegisterTurn
  <2> QED BY <1>1, <1>9, <2>6, Arrives DEF Registers, t
<1>10. CASE /\ Stands(p, 18, <<Neg(3)>>)
            /\ Values[r0] = Neg(3) /\ Values[r1] = Neg(7)
  <2> DEFINE s == <<Neg(3)>>
             t == <<Neg(3), Neg(7)>>
  <2>1. p[18 + 1] = PSH_REG /\ p[18 + 2] = r1 BY RegisterCode
  <2>2. Append(s, Neg(7)) = t
    BY Appended
  <2>3. Stands(p, 18, s) BY <1>10
  <2>4. Values[r0] = Neg(3) /\ Values[r1] = Neg(7) BY <1>10
  <2> HIDE DEF s, t
  <2>5. At(p, 18, s, PSH_REG)
    BY ONLY <2>1, <2>3 DEF At
  <2>6. 18 + 2 = 20 /\ 18 \in Nat OBVIOUS
  <2>7. Append(s, Values[p[18 + 2]]) = t
    BY ONLY <2>1, <2>2, <2>4
  <2>8. Goes(20, t, Values)
    BY ONLY <2>5, <2>7, <2>6, Abstract!Instruction, PushRegisterTurn
  <2> QED BY <1>1, <2>4, <2>8, Arrives DEF Registers, t
<1>11. CASE /\ Stands(p, 20, <<Neg(3), Neg(7)>>)
            /\ Values[r0] = Neg(3) /\ Values[r1] = Neg(7)
  <2> DEFINE s == <<Neg(3), Neg(7)>>
             t == <<21>>
  <2>1. p[20 + 1] = MUL BY RegisterCode
  <2>2. /\ But(s, 2) = <<>> /\ Append(<<>>, 21) = t
        /\ NextToLast(s) = Neg(3) /\ Last(s) = Neg(7)
        /\ I16(U16(Neg(3) * Neg(7))) = 21
    BY Appended, Shortened, Ends DEF I16, U16, Neg
  <2>3. Stands(p, 20, s) BY <1>11
  <2>4. Values[r0] = Neg(3) /\ Values[r1] = Neg(7) BY <1>11
  <2> HIDE DEF s, t
  <2>5. At(p, 20, s, MUL)
    BY ONLY <2>1, <2>3 DEF At
  <2>6. 20 + 1 = 21 /\ 20 \in Nat OBVIOUS
  <2>7. I16(U16(NextToLast(s) * Last(s))) = 21
    BY ONLY <2>1, <2>2, <2>4
  <2>8. Append(But(s, 2), 21) = t
    BY ONLY <2>1, <2>2, <2>4
  <2>9. Append(But(s, 2), I16(U16(NextToLast(s) * Last(s)))) = t
    BY ONLY <2>7, <2>8
  <2>10. Goes(21, t, Values)
    BY ONLY <2>5, <2>9, <2>6, Abstract!Instruction, MulTurn
  <2> QED BY <1>1, <2>4, <2>10, Arrives DEF Registers, t
<1>12. CASE Stands(p, 21, <<21>>) /\ Values[r0] = Neg(3) /\ Values[r1] = Neg(7)
  <2> DEFINE s == <<21>>
             t == <<21, Neg(3)>>
  <2>1. p[21 + 1] = PSH_REG /\ p[21 + 2] = r0 BY RegisterCode
  <2>2. Append(s, Neg(3)) = t
    BY Appended
  <2>3. Stands(p, 21, s) BY <1>12
  <2>4. Values[r0] = Neg(3) /\ Values[r1] = Neg(7) BY <1>12
  <2> HIDE DEF s, t
  <2>5. At(p, 21, s, PSH_REG)
    BY ONLY <2>1, <2>3 DEF At
  <2>6. 21 + 2 = 23 /\ 21 \in Nat OBVIOUS
  <2>7. Append(s, Values[p[21 + 2]]) = t
    BY ONLY <2>1, <2>2, <2>4
  <2>8. Goes(23, t, Values)
    BY ONLY <2>5, <2>7, <2>6, Abstract!Instruction, PushRegisterTurn
  <2> QED BY <1>1, <2>4, <2>8, Arrives DEF Registers, t
<1>13. CASE /\ Stands(p, 23, <<21, Neg(3)>>)
            /\ Values[r0] = Neg(3) /\ Values[r1] = Neg(7)
  <2> DEFINE s == <<21, Neg(3)>>
             t == <<21, Neg(3), Neg(7)>>
  <2>1. p[23 + 1] = PSH_REG /\ p[23 + 2] = r1 BY RegisterCode
  <2>2. Append(s, Neg(7)) = t
    BY Appended
  <2>3. Stands(p, 23, s) BY <1>13
  <2>4. Values[r0] = Neg(3) /\ Values[r1] = Neg(7) BY <1>13
  <2> HIDE DEF s, t
  <2>5. At(p, 23, s, PSH_REG)
    BY ONLY <2>1, <2>3 DEF At
  <2>6. 23 + 2 = 25 /\ 23 \in Nat OBVIOUS
  <2>7. Append(s, Values[p[23 + 2]]) = t
    BY ONLY <2>1, <2>2, <2>4
  <2>8. Goes(25, t, Values)
    BY ONLY <2>5, <2>7, <2>6, Abstract!Instruction, PushRegisterTurn
  <2> QED BY <1>1, <2>4, <2>8, Arrives DEF Registers, t
<1>14. CASE Stands(p, 25, <<21, Neg(3), Neg(7)>>)
  <2> DEFINE s == <<21, Neg(3), Neg(7)>>
             t == <<21>>
  <2>1. p[25 + 1] = CMP /\ p[25 + 2] = sp BY RegisterCode
  <2>2. /\ But(s, 2) = t /\ I16(U16(Neg(3) - Neg(7))) = 4
        /\ NextToLast(s) = Neg(3) /\ Last(s) = Neg(7)
    BY Shortened, Ends DEF I16, U16, Neg
  <2>3. Stands(p, 25, s) BY <1>14
  <2> HIDE DEF s, t
  <2>4. At(p, 25, s, CMP)
    BY ONLY <2>1, <2>3 DEF At
  <2>5. 25 + 2 = 27 /\ 25 \in Nat OBVIOUS
  <2>6. But(s, 2) = t
    BY ONLY <2>1, <2>2
  <2>7. With(imm, I16(U16(NextToLast(s) - Last(s)))) = With(imm, 4)
    BY ONLY <2>1, <2>2
  <2>8. p[25 + 2] = sp
    BY ONLY <2>1, <2>2
  <2>9. Goes(27, t, With(imm, 4))
    BY ONLY <2>4, <2>6, <2>7, <2>8, <2>5, Abstract!Instruction, CompareTurn
  <2>10. With(imm, 4)[imm] = 4
    BY WithIs DEF General, ret, imm, r0, r1, r2
  <2> QED BY <1>1, <2>9, <2>10, Arrives DEF Registers, t
<1>15. CASE Stands(p, 27, <<21>>) /\ Values[imm] = 4
  <2> DEFINE s == <<21>>
             t == <<21, 4>>
  <2>1. p[27 + 1] = PSH BY RegisterCode
  <2>2. Append(s, 4) = t
    BY Appended
  <2>3. Stands(p, 27, s) BY <1>15
  <2>4. Values[imm] = 4 BY <1>15
  <2> HIDE DEF s, t
  <2>5. At(p, 27, s, PSH)
    BY ONLY <2>1, <2>3 DEF At
  <2>6. 27 + 1 = 28 /\ 27 \in Nat OBVIOUS
  <2>7. Append(s, Values[imm]) = t
    BY ONLY <2>1, <2>2, <2>4
  <2>8. Goes(28, t, Values)
    BY ONLY <2>5, <2>7, <2>6, Abstract!Instruction, PushTurn
  <2> QED BY <1>1, <2>4, <2>8, Arrives DEF Registers, t
<1>16. CASE Stands(p, 28, <<21, 4>>)
  <2> DEFINE s == <<21, 4>>
             t == <<17>>
  <2>1. p[28 + 1] = SUB BY RegisterCode
  <2>2. /\ But(s, 2) = <<>> /\ Append(<<>>, 17) = t
        /\ NextToLast(s) = 21 /\ Last(s) = 4
        /\ I16(U16(21 - 4)) = 17
    BY Appended, Shortened, Ends DEF I16, U16
  <2>3. Stands(p, 28, s) BY <1>16
  <2> HIDE DEF s, t
  <2>4. At(p, 28, s, SUB)
    BY ONLY <2>1, <2>3 DEF At
  <2>5. 28 + 1 = 29 /\ 28 \in Nat OBVIOUS
  <2>6. I16(U16(NextToLast(s) - Last(s))) = 17
    BY ONLY <2>1, <2>2
  <2>7. Append(But(s, 2), 17) = t
    BY ONLY <2>1, <2>2
  <2>8. Append(But(s, 2), I16(U16(NextToLast(s) - Last(s)))) = t
    BY ONLY <2>6, <2>7
  <2>9. Goes(29, t, Values)
    BY ONLY <2>4, <2>8, <2>5, Abstract!Instruction, SubTurn
  <2> QED BY <1>1, <2>9, Arrives DEF Registers, t
<1>17. CASE Stands(p, 29, <<17>>)
  <2> DEFINE s == <<17>>
  <2>1. p[29 + 1] = MOV /\ p[29 + 2] = r2 /\ p[29 + 3] = imm BY RegisterCode
  <2>2. r2 # sp
    BY DEF r2, sp
  <2>3. Stands(p, 29, s) BY <1>17
  <2> HIDE DEF s
  <2>4. At(p, 29, s, MOV)
    BY ONLY <2>1, <2>3 DEF At
  <2>5. 29 + 3 = 32 /\ 29 \in Nat OBVIOUS
  <2>6. With(p[29 + 2], Values[p[29 + 3]]) = With(r2, Values[imm])
    BY ONLY <2>1, <2>2
  <2>7. Goes(32, s, With(r2, Values[imm]))
    BY ONLY <2>4, <2>6, <2>5, Abstract!Instruction, MoveTurn
  <2>8. TRUE
    BY WithIs DEF r2
  <2> QED BY <1>1, <2>7, <2>8, Arrives DEF Registers, s
<1>18. CASE Stands(p, 32, <<17>>)
  <2> DEFINE s == <<17>>
  <2>1. p[32 + 1] = POP_REG /\ p[32 + 2] = ret BY RegisterCode
  <2>2. But(s, 1) = <<>> /\ Last(s) = 17
    BY Shortened, Ends
  <2>3. Stands(p, 32, s) BY <1>18
  <2> HIDE DEF s
  <2>4. At(p, 32, s, POP_REG)
    BY ONLY <2>1, <2>3 DEF At
  <2>5. 32 + 2 = 34 /\ 32 \in Nat OBVIOUS
  <2>6. But(s, 1) = <<>>
    BY ONLY <2>1, <2>2
  <2>7. With(p[32 + 2], Last(s)) = With(ret, 17)
    BY ONLY <2>1, <2>2
  <2>8. Goes(34, <<>>, With(ret, 17))
    BY ONLY <2>4, <2>6, <2>7, <2>5, Abstract!Instruction, PopTurn
  <2>9. With(ret, 17)[ret] = 17
    BY WithIs DEF General, ret, imm, r0, r1, r2
  <2> QED BY <1>1, <2>8, <2>9, Arrives DEF Registers
<1>19. CASE Stands(p, 34, <<>>) /\ Values[ret] = 17
  BY <1>1, <1>19, ReturnTurn, RegisterCode DEF At, Answers
<1> QED BY <1>2, <1>3, <1>4, <1>5, <1>6, <1>7, <1>8, <1>9, <1>10,
           <1>11, <1>12, <1>13, <1>14, <1>15, <1>16, <1>17, <1>18, <1>19
        DEF Registers

\* While: the loop counts its variable up to 10.
Whiles ==
  \/ Stands(WhileProgram, 0, <<>>)
  \/ \E x \in 0 .. 9 : Stands(WhileProgram, 3, <<x>>)
  \/ \E x \in 1 .. 10 : Stands(WhileProgram, 6, <<x>>)
  \/ \E x \in 1 .. 10 : Stands(WhileProgram, 9, <<x, x>>)
  \/ \E x \in 1 .. 10 : Stands(WhileProgram, 12, <<x, x, 10>>)
  \/ \E x \in 1 .. 10 :
       Stands(WhileProgram, 14, <<x>>) /\ Values[imm] = x - 10
  \/ Stands(WhileProgram, 17, <<10>>)
  \/ Stands(WhileProgram, 20, <<10>>) /\ Values[ret] = 10

LEMMA WhileCode ==
  /\ WhileProgram[0 + 1] = PSH_LIT /\ Literal(WhileProgram, 0) = 0
  /\ WhileProgram[3 + 1] = INC /\ WhileProgram[3 + 2] = sp
  /\ WhileProgram[3 + 3] + 1 = 1
  /\ WhileProgram[6 + 1] = PEK_OFF /\ WhileProgram[6 + 2] = sp
  /\ WhileProgram[6 + 3] + 1 = 1
  /\ WhileProgram[9 + 1] = PSH_LIT /\ Literal(WhileProgram, 9) = 10
  /\ WhileProgram[12 + 1] = CMP /\ WhileProgram[12 + 2] = sp
  /\ WhileProgram[14 + 1] = JLT /\ JumpTarget(WhileProgram, 14) = 3
  /\ WhileProgram[17 + 1] = PEK_OFF /\ WhileProgram[17 + 2] = ret
  /\ WhileProgram[17 + 3] + 1 = 1
  /\ WhileProgram[20 + 1] = RET
BY DEF WhileProgram, Literal, JumpTarget, Arg, I16, PSH_LIT, INC, PEK_OFF, CMP,
       JLT, RET, sp, ret

LEMMA WhileTurns ==
  ASSUME Abstract!Instruction, Whiles
  PROVE  Whiles' \/ Answers(10)
<1> DEFINE p == WhileProgram
<1>1. loaded.prog = p BY DEF Stands, Whiles
<1>2. CASE Stands(p, 0, <<>>)
  <2> DEFINE t == <<0>>
  <2>1. p[0 + 1] = PSH_LIT /\ Literal(p, 0) = 0 BY WhileCode
  <2>2. Append(<<>>, 0) = t BY Appended
  <2> HIDE DEF t
  <2>3. At(p, 0, <<>>, PSH_LIT) BY ONLY <1>2, <2>1 DEF At
  <2>4. 0 + 3 = 3 /\ 0 \in Nat OBVIOUS
  <2>5. Append(<<>>, Literal(p, 0)) = t BY ONLY <2>1, <2>2
  <2>6. Goes(3, t, Values)
    BY ONLY <2>3, <2>4, <2>5, Abstract!Instruction, LiteralTurn
  <2>7. Stands(p, 3, t)' BY <1>1, <2>6, Arrives
  <2>8. 0 \in 0 .. 9 OBVIOUS
  <2> QED BY ONLY <2>7, <2>8 DEF Whiles, t
<1>3. ASSUME NEW x \in 0 .. 9, Stands(p, 3, <<x>>) PROVE Whiles'
  <2> DEFINE s == <<x>>
             y == x + 1
             t == <<y>>
  <2>1. p[3 + 1] = INC /\ p[3 + 2] = sp /\ p[3 + 3] + 1 = 1 BY WhileCode
  <2>2. I16(U16(x + 1)) = y /\ y \in 1 .. 10 BY DEF I16, U16
  <2>3. s[1] = x OBVIOUS
  <2>4. Stands(p, 3, s) BY <1>3
  <2>5. \A v : [s EXCEPT ![1] = v] = <<v>> OBVIOUS
  <2> HIDE DEF s, y
  <2>6. At(p, 3, s, INC) BY ONLY <2>1, <2>4 DEF At
  <2>7. 3 + 3 = 6 /\ 3 \in Nat OBVIOUS
  <2>8. I16(U16(s[p[3 + 3] + 1] + 1)) = y BY ONLY <2>1, <2>2, <2>3
  <2>9. [s EXCEPT ![p[3 + 3] + 1] = y] = t BY ONLY <2>1, <2>5
  <2> HIDE DEF t
  <2>10. [s EXCEPT ![p[3 + 3] + 1] = I16(U16(s[p[3 + 3] + 1] + 1))] = t
    BY ONLY <2>8, <2>9
  <2>11. Goes(6, t, Values)
    BY ONLY <2>1, <2>6, <2>7, <2>10, Abstract!Instruction, IncTurn
  <2>12. Stands(p, 6, t)' BY <1>1, <2>11, Arrives
  <2> QED BY ONLY <2>2, <2>12 DEF Whiles, t
<1>4. ASSUME NEW x \in 1 .. 10, Stands(p, 6, <<x>>) PROVE Whiles'
  <2> DEFINE s == <<x>>
             t == <<x, x>>
  <2>1. p[6 + 1] = PEK_OFF /\ p[6 + 2] = sp /\ p[6 + 3] + 1 = 1 BY WhileCode
  <2>2. s[1] = x /\ Append(s, x) = t BY Appended
  <2>3. Stands(p, 6, s) BY <1>4
  <2> HIDE DEF s, t
  <2>4. At(p, 6, s, PEK_OFF) BY ONLY <2>1, <2>3 DEF At
  <2>5. 6 + 3 = 9 /\ 6 \in Nat OBVIOUS
  <2>6. Append(s, s[p[6 + 3] + 1]) = t BY ONLY <2>1, <2>2
  <2>7. p[6 + 2] = sp BY <2>1
  <2>8. Goes(9, t, Values)
    BY ONLY <2>4, <2>5, <2>6, <2>7, Abstract!Instruction, SlotTurn
  <2>9. Stands(p, 9, t)' BY <1>1, <2>8, Arrives
  <2> QED BY ONLY x \in 1 .. 10, <2>9 DEF Whiles, t
<1>5. ASSUME NEW x \in 1 .. 10, Stands(p, 9, <<x, x>>) PROVE Whiles'
  <2> DEFINE s == <<x, x>>
             t == <<x, x, 10>>
  <2>1. p[9 + 1] = PSH_LIT /\ Literal(p, 9) = 10 BY WhileCode
  <2>2. Append(s, 10) = t BY Appended
  <2>3. Stands(p, 9, s) BY <1>5
  <2> HIDE DEF s, t
  <2>4. At(p, 9, s, PSH_LIT) BY ONLY <2>1, <2>3 DEF At
  <2>5. 9 + 3 = 12 /\ 9 \in Nat OBVIOUS
  <2>6. Append(s, Literal(p, 9)) = t BY ONLY <2>1, <2>2
  <2>7. Goes(12, t, Values)
    BY ONLY <2>4, <2>5, <2>6, Abstract!Instruction, LiteralTurn
  <2>8. Stands(p, 12, t)' BY <1>1, <2>7, Arrives
  <2> QED BY ONLY x \in 1 .. 10, <2>8 DEF Whiles, t
<1>6. ASSUME NEW x \in 1 .. 10, Stands(p, 12, <<x, x, 10>>) PROVE Whiles'
  <2> DEFINE s == <<x, x, 10>>
             t == <<x>>
             y == x - 10
  <2>1. p[12 + 1] = CMP /\ p[12 + 2] = sp BY WhileCode
  <2>2. But(s, 2) = t /\ NextToLast(s) = x /\ Last(s) = 10 BY Shortened, Ends
  <2>3. I16(U16(x - 10)) = y BY DEF I16, U16
  <2>4. Stands(p, 12, s) BY <1>6
  <2> HIDE DEF s, t, y
  <2>5. At(p, 12, s, CMP) BY ONLY <2>1, <2>4 DEF At
  <2>6. 12 + 2 = 14 /\ 12 \in Nat OBVIOUS
  <2>7. I16(U16(NextToLast(s) - Last(s))) = y BY ONLY <2>2, <2>3
  <2>8. p[12 + 2] = sp /\ But(s, 2) = t BY <2>1, <2>2
  <2>9. Goes(14, t, With(imm, y))
    BY ONLY <2>5, <2>6, <2>7, <2>8, Abstract!Instruction, CompareTurn
  <2>10. With(imm, y)[imm] = y BY WithIs DEF General, ret, imm
  <2>11. Stands(p, 14, t)' /\ Values'[imm] = y BY <1>1, <2>9, <2>10, Arrives
  <2> QED BY ONLY x \in 1 .. 10, <2>11 DEF Whiles, t, y
<1>7. ASSUME NEW x \in 1 .. 10, Stands(p, 14, <<x>>), Values[imm] = x - 10
      PROVE  Whiles'
  <2> DEFINE s == <<x>>
  <2>1. p[14 + 1] = JLT /\ JumpTarget(p, 14) = 3 BY WhileCode
  <2>2. Stands(p, 14, s) BY <1>7
  <2> HIDE DEF s
  <2>3. At(p, 14, s, JLT) BY ONLY <2>1, <2>2 DEF At
  <2>4. 14 + 3 = 17 /\ 14 + (3 - 14) = 3 /\ 14 \in Nat OBVIOUS
  <2>5. Goes(IF Values[imm] < 0 THEN 14 + (JumpTarget(p, 14) - 14) ELSE 14 + 3,
             s, Values)
    BY ONLY <2>3, <2>4, Abstract!Instruction, JumpTurn
  <2>6. CASE x < 10
    <3>1. Values[imm] < 0 /\ x \in 0 .. 9 BY <1>7, <2>6
    <3>2. Goes(3, s, Values) BY ONLY <2>1, <2>4, <2>5, <3>1
    <3>3. Stands(p, 3, s)' BY <1>1, <3>2, Arrives
    <3> QED BY ONLY <3>1, <3>3 DEF Whiles, s
  <2>7. CASE x = 10
    <3>1. ~(Values[imm] < 0) BY <1>7, <2>7
    <3>2. Goes(17, s, Values) BY ONLY <2>4, <2>5, <3>1
    <3>3. Stands(p, 17, s)' BY <1>1, <3>2, Arrives
    <3> QED BY ONLY <2>7, <3>3 DEF Whiles, s
  <2> QED BY <2>6, <2>7
<1>8. CASE Stands(p, 17, <<10>>)
  <2> DEFINE s == <<10>>
  <2>1. p[17 + 1] = PEK_OFF /\ p[17 + 2] = ret /\ p[17 + 3] + 1 = 1
    BY WhileCode
  <2>2. s[1] = 10 OBVIOUS
  <2>3. Stands(p, 17, s) BY <1>8
  <2> HIDE DEF s
  <2>4. At(p, 17, s, PEK_OFF) BY ONLY <2>1, <2>3 DEF At
  <2>5. 17 + 3 = 20 /\ 17 \in Nat OBVIOUS
  <2>6. With(p[17 + 2], s[p[17 + 3] + 1]) = With(ret, 10) BY ONLY <2>1, <2>2
  <2>7. p[17 + 2] # sp BY <2>1 DEF ret, sp
  <2>8. Goes(20, s, With(ret, 10))
    BY ONLY <2>4, <2>5, <2>6, <2>7, Abstract!Instruction, SlotTurn
  <2>9. With(ret, 10)[ret] = 10 BY WithIs DEF General, ret, imm
  <2>10. Stands(p, 20, s)' /\ Values'[ret] = 10 BY <1>1, <2>8, <2>9, Arrives
  <2> QED BY ONLY <2>10 DEF Whiles, s
<1>9. CASE Stands(p, 20, <<10>>) /\ Values[ret] = 10
  BY <1>1, <1>9, ReturnTurn, WhileCode DEF At, Answers
<1> QED BY <1>2, <1>3, <1>4, <1>5, <1>6, <1>7, <1>8, <1>9 DEF Whiles

-----------------------------------------------------------------------------
(* The theorem.                                                            *)

\* Of a test program that runs, where it may be; of one that has returned,
\* what.
Tested ==
  /\ Mode = "running" =>
       /\ loaded.prog = SumProgram => Sums
       /\ loaded.prog = WhileProgram => Whiles
       /\ loaded.prog = EqualsProgram => Equals
       /\ loaded.prog = RegistersProgram => Registers
       /\ loaded.prog = WrapProgram => Wraps
  /\ Mode = "returned" =>
       /\ loaded.prog = SumProgram => returnValue = 41
       /\ loaded.prog = WhileProgram => returnValue = 10
       /\ loaded.prog = EqualsProgram => returnValue = 0
       /\ loaded.prog = RegistersProgram => returnValue = 17
       /\ loaded.prog = WrapProgram => returnValue = -32768

\* The five programs differ in length.
LEMMA Different ==
  /\ SumProgram # WhileProgram /\ SumProgram # EqualsProgram
  /\ SumProgram # RegistersProgram /\ SumProgram # WrapProgram
  /\ WhileProgram # EqualsProgram /\ WhileProgram # RegistersProgram
  /\ WhileProgram # WrapProgram /\ EqualsProgram # RegistersProgram
  /\ EqualsProgram # WrapProgram /\ RegistersProgram # WrapProgram
<1>1. /\ Len(SumProgram) = 10 /\ Len(WhileProgram) = 21
      /\ Len(EqualsProgram) = 15 /\ Len(RegistersProgram) = 35
      /\ Len(WrapProgram) = 16
  BY DEF SumProgram, WhileProgram, EqualsProgram, RegistersProgram, WrapProgram
<1> QED BY <1>1

LEMMA ExpectedIs ==
  /\ Expected[SumProgram] = 41 /\ Expected[WhileProgram] = 10
  /\ Expected[EqualsProgram] = 0 /\ Expected[RegistersProgram] = 17
  /\ Expected[WrapProgram] = -32768
BY Different DEF Expected, TestPrograms

\* An instruction of a machine that runs, where it has been turned to.
LEMMA InstructionTested ==
  ASSUME Abstract!Instruction, Mode = "running", Tested
  PROVE  Tested'
<1>1. loaded'.prog = loaded.prog
  BY DEF Abstract!Instruction, Abstract!PushLiteral, Abstract!PushImm,
         Abstract!PushRegister, Abstract!PopRegister, Abstract!PeekTop,
         Abstract!PeekSlot, Abstract!Arithmetic, Abstract!Trap,
         Abstract!Compare,
         Abstract!Move, Abstract!JumpIfLess, Abstract!Return, Abstract!Count,
         Abstract!Computes, Abstract!Leaves, Abstract!Stops
<1>2. loaded.prog = SumProgram => Sums' \/ Answers(41)
  BY SumTurns DEF Tested
<1>3. loaded.prog = WhileProgram => Whiles' \/ Answers(10)
  BY WhileTurns DEF Tested
<1>4. loaded.prog = EqualsProgram => Equals' \/ Answers(0)
  BY EqualTurns DEF Tested
<1>5. loaded.prog = RegistersProgram => Registers' \/ Answers(17)
  BY RegisterTurns DEF Tested
<1>6. loaded.prog = WrapProgram => Wraps' \/ Answers(-32768)
  BY WrapTurns DEF Tested, Neg
<1>7. (Sums \/ Whiles \/ Equals \/ Registers \/ Wraps => Mode = "running")'
  BY DEF Sums, Whiles, Equals, Registers, Wraps, Stands
<1>8. \A v : Answers(v) => Mode' = "returned" /\ returnValue' = v
  BY DEF Answers
<1> QED BY <1>1, <1>2, <1>3, <1>4, <1>5, <1>6, <1>7, <1>8 DEF Tested

LEMMA TurnTested ==
  ASSUME Tested, [Abstract!ANext]_(Abstract!avars)
  PROVE  Tested'
<1>1. CASE UNCHANGED Abstract!avars
  BY <1>1 DEF Abstract!avars, Tested, Sums, Whiles, Equals, Registers, Wraps,
          Stands
<1>2. CASE \E p \in Programs : Abstract!Load(p)
  <2>1. PICK p \in Programs : Abstract!Load(p) BY <1>2
  <2>2. CASE Mode' = "running"
    <3>1. Place' = 0 /\ Slots' = <<>> /\ loaded'.prog = p
      BY <2>1 DEF Abstract!Load, Abstract!Loaded
    <3>2. Stands(p, 0, <<>>)' BY <2>2, <3>1 DEF Stands
    <3> QED BY <2>2, <3>1, <3>2
            DEF Tested, Sums, Whiles, Equals, Registers, Wraps
  <2>3. CASE Mode' = "wild" BY <2>3 DEF Tested
  <2> QED BY <2>1, <2>2, <2>3 DEF Abstract!Load, Abstract!Loaded
<1>3. CASE Abstract!Instruction
  <2>1. Mode = "running"
    BY <1>3 DEF Abstract!Instruction, Abstract!PushLiteral, Abstract!PushImm,
         Abstract!PushRegister, Abstract!PopRegister, Abstract!PeekTop,
         Abstract!PeekSlot, Abstract!Arithmetic, Abstract!Trap,
         Abstract!Compare,
         Abstract!Move, Abstract!JumpIfLess, Abstract!Return, Abstract!Count,
         Abstract!At
  <2> QED BY <1>3, <2>1, InstructionTested
<1>4. CASE Abstract!Wild
  <2>1. Mode' = "wild" BY <1>4 DEF Abstract!Wild
  <2> QED BY <2>1 DEF Tested
<1> QED BY <1>1, <1>2, <1>3, <1>4 DEF Abstract!ANext

\* Each of the five programs, the first three as tests_processing_unit.cpp
\* expects, returns what it should, in a machine of any size of memory and with
\* any programs, whatever the allocator or earlier
\* programs left in its registers and its memory.
THEOREM ReturnsTestResults == Spec => []TestResults
<1>1. Abstract!Init => Tested
  BY SharedIsa DEF Abstract!Init, Tested
<1>2. Tested /\ [Abstract!ANext]_(Abstract!avars) => Tested' BY TurnTested
<1>3. Tested => TestResults
  <2> SUFFICES ASSUME Tested, status = "returned", Sound(loaded),
                      loaded.prog \in TestPrograms
               PROVE  returnValue = Expected[loaded.prog]
    BY DEF TestResults
  <2>1. Mode = "returned" BY DEF Mode
  <2> QED BY <2>1, ExpectedIs DEF Tested, TestPrograms
<1> QED BY <1>1, <1>2, <1>3, Refines, PTL
        DEF ImplementsStackMachine, Abstract!ASpec

=============================================================================
