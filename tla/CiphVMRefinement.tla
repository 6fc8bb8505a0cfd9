-------------------------- MODULE CiphVMRefinement --------------------------
(***************************************************************************)
(* The proof that CiphVM implements StackMachine: what a sound program     *)
(* does to the bytes of memory is what the abstract machine says it does   *)
(* to numbers, slots and registers.                                        *)
(***************************************************************************)
EXTENDS Shell, CiphVMProofs, SequenceTheorems

-----------------------------------------------------------------------------
(* What a memory shows.  A handler passes through memories that differ     *)
(* from mem; Shows says of one what the abstract machine would see in it,  *)
(* and that nothing below the stack was touched on the way.                *)

Shows(m, o, s, g) ==
  /\ s \in Seq(Int16) /\ g \in [General -> Int16]
  /\ Frame(m, loaded, o, Len(s))
  /\ loaded.stack + (2 * Len(s)) <= MemSize
  /\ \A i \in 1 .. Len(s) : I16(SlotWord(m, i)) = s[i]
  /\ \A r \in General : I16(Reg(m, r)) = g[r]
  /\ \A a \in Addr : 32 <= a /\ a < loaded.stack => m[a] = mem[a]

\* Nothing between the registers and the running program's stack is written:
\* no text, of this program or of one before it.
Untouched == \A a \in Addr : 32 <= a /\ a < loaded.stack => mem'[a] = mem[a]

\* A turn does what the abstract machine's instruction does.
Implements == Abstract!Instruction /\ Untouched

\* The addresses of a slot.
LEMMA SlotAddress ==
  ASSUME Home(loaded), NEW d \in Nat, loaded.stack + (2 * d) <= MemSize,
         NEW i \in 1 .. d
  PROVE  LET a == loaded.stack + (2 * (i - 1))
         IN  /\ a \in Addr /\ a + 1 \in Addr /\ a \in Int
             /\ a >= 32 /\ a >= loaded.stack /\ i - 1 \in Nat /\ i - 1 < d
<1>1. i - 1 \in Nat /\ i - 1 < d OBVIOUS
<1> QED BY <1>1, StackWord

\* A register of the program's own.
LEMMA GeneralRegister ==
  ASSUME NEW r \in General
  PROVE  r \in 0 .. 15 /\ r \notin {pc, sp, fp, bp} /\ r \in Int
BY DEF General, imm, ret, pc, sp, fp, bp

\* Writing pc or sp changes nothing that is shown.
LEMMA SpecialRegister ==
  ASSUME Home(loaded), NEW m \in Memory, NEW r \in {pc, sp}, NEW w \in Word
  PROVE  /\ \A d \in Nat : loaded.stack + (2 * d) <= MemSize =>
              \A i \in 1 .. d : SlotWord(SetReg(m, r, w), i) = SlotWord(m, i)
         /\ \A q \in General : Reg(SetReg(m, r, w), q) = Reg(m, q)
         /\ \A a \in Addr : a >= 32 => SetReg(m, r, w)[a] = m[a]
<1>0. r \in 0 .. 15 BY DEF pc, sp
<1>1. \A a \in Addr : a >= 32 => SetReg(m, r, w)[a] = m[a]
  BY <1>0, SetRegAbove
<1>2. \A q \in General : Reg(SetReg(m, r, w), q) = Reg(m, q)
  BY <1>0, GeneralRegister, SetRegOther
<1>3. ASSUME NEW d \in Nat, loaded.stack + (2 * d) <= MemSize, NEW i \in 1 .. d
      PROVE  SlotWord(SetReg(m, r, w), i) = SlotWord(m, i)
  <2> DEFINE a == loaded.stack + (2 * (i - 1))
  <2>1. a \in Addr /\ a + 1 \in Addr /\ a >= 32 /\ a + 1 >= 32
    BY <1>3, SlotAddress
  <2> QED BY <1>1, <2>1 DEF SlotWord, WordAt
<1> QED BY <1>1, <1>2, <1>3

\* pc moved.
LEMMA ShowsAdvance ==
  ASSUME Home(loaded), NEW m, NEW o \in Int, NEW s, NEW g, Shows(m, o, s, g),
         NEW n \in Int, loaded.addrs + o + n \in Word
  PROVE  Shows(Advance(m, n), o + n, s, g)
<1>0. m \in Memory /\ Len(s) \in Nat BY LenProperties DEF Shows, Frame
<1>1. Frame(Advance(m, n), loaded, o + n, Len(s)) BY FrameAdvance DEF Shows
<1>2. Advance(m, n) = SetReg(m, pc, MovedTo(m, pc, n))
  BY DEF Advance, MovedTo
<1>3. MovedTo(m, pc, n) \in Word BY <1>0, MovedToWord DEF pc
<1>4. /\ \A i \in 1 .. Len(s) : SlotWord(Advance(m, n), i) = SlotWord(m, i)
      /\ \A q \in General : Reg(Advance(m, n), q) = Reg(m, q)
      /\ \A a \in Addr : a >= 32 => Advance(m, n)[a] = m[a]
  BY <1>0, <1>2, <1>3, SpecialRegister DEF Shows
<1>5. ASSUME NEW a \in Addr, 32 <= a, a < loaded.stack
      PROVE  Advance(m, n)[a] = mem[a]
  BY <1>4, <1>5 DEF Shows, Addr
<1> QED BY <1>1, <1>4, <1>5 DEF Shows

\* A register of the program's own set.
LEMMA ShowsRegister ==
  ASSUME Home(loaded), NEW m, NEW o, NEW s, NEW g, Shows(m, o, s, g),
         NEW r \in General, NEW w \in Word
  PROVE  Shows(SetReg(m, r, w), o, s, [g EXCEPT ![r] = I16(w)])
<1> DEFINE n == SetReg(m, r, w)
           h == [g EXCEPT ![r] = I16(w)]
<1>0. m \in Memory /\ Len(s) \in Nat /\ r \in 0 .. 15
  BY LenProperties, GeneralRegister DEF Shows, Frame
<1>1. Frame(n, loaded, o, Len(s)) BY FrameRegister DEF Shows
<1>2. h \in [General -> Int16] BY I16Int DEF Shows
<1>3. \A a \in Addr : a >= 32 => n[a] = m[a] BY <1>0, SetRegAbove
<1>4. \A q \in General : I16(Reg(n, q)) = h[q]
  <2> TAKE q \in General
  <2>1. CASE q = r BY <1>0, <2>1, SetRegReads DEF Shows
  <2>2. CASE q # r
    <3>1. Reg(n, q) = Reg(m, q) BY <1>0, <2>2, GeneralRegister, SetRegOther
    <3> QED BY <2>2, <3>1 DEF Shows
  <2> QED BY <2>1, <2>2
<1>5. \A i \in 1 .. Len(s) : SlotWord(n, i) = SlotWord(m, i)
  <2> TAKE i \in 1 .. Len(s)
  <2> DEFINE a == loaded.stack + (2 * (i - 1))
  <2>1. a \in Addr /\ a + 1 \in Addr /\ a >= 32 /\ a + 1 >= 32
    BY SMTT(30), <1>0, SlotAddress DEF Shows
  <2> QED BY <1>3, <2>1 DEF SlotWord, WordAt
<1> QED BY <1>1, <1>2, <1>3, <1>4, <1>5 DEF Shows, Addr

\* The stack without its top.
LEMMA WithoutTop ==
  ASSUME NEW S, NEW s \in Seq(S), Len(s) >= 1
  PROVE  LET t == SubSeq(s, 1, Len(s) - 1)
         IN  /\ t \in Seq(S) /\ Len(t) = Len(s) - 1
             /\ \A i \in 1 .. Len(t) : t[i] = s[i]
             /\ s[Len(s)] \in S
<1>1. Len(s) \in Nat BY LenProperties
<1>2. \A i \in 1 .. Len(s) : s[i] \in S BY ElementOfSeq
<1>3. \A i \in 1 .. Len(s) - 1 : s[i] \in S BY <1>1, <1>2
<1>4. Len(s) - 1 \in Int /\ Len(s) \in 1 .. Len(s) BY <1>1
<1> DEFINE t == SubSeq(s, 1, Len(s) - 1)
<1>5. /\ t \in Seq(S)
      /\ Len(t) = IF 1 <= Len(s) - 1 THEN (Len(s) - 1) - 1 + 1 ELSE 0
      /\ \A i \in 1 .. (Len(s) - 1) - 1 + 1 : t[i] = s[1 + i - 1]
  BY <1>3, <1>4, SubSeqProperties
<1> HIDE DEF t
<1>6. Len(t) = Len(s) - 1
  <2> DEFINE n == Len(s)
  <2>1. n \in Nat /\ n >= 1 /\ Len(t) = IF 1 <= n - 1 THEN (n - 1) - 1 + 1 ELSE 0
    BY <1>1, <1>5
  <2> HIDE DEF n
  <2>2. Len(t) = n - 1 BY <2>1
  <2> QED BY <2>2 DEF n
<1>7. \A i \in 1 .. Len(t) : t[i] = s[i] BY <1>1, <1>5, <1>6
<1> QED BY <1>2, <1>4, <1>5, <1>6, <1>7 DEF t

\* A word popped.
LEMMA ShowsPop ==
  ASSUME Home(loaded), NEW m, NEW o, NEW s, NEW g, Shows(m, o, s, g),
         Len(s) >= 1
  PROVE  /\ Shows(Pop(m), o, SubSeq(s, 1, Len(s) - 1), g)
         /\ Top(m) = SlotWord(m, Len(s)) /\ Top(m) \in Word
         /\ I16(Top(m)) = s[Len(s)]
<1> DEFINE d == Len(s)
           t == SubSeq(s, 1, d - 1)
<1>0. m \in Memory /\ d \in Nat BY LenProperties DEF Shows, Frame
<1>1. /\ t \in Seq(Int16) /\ Len(t) = d - 1
      /\ \A i \in 1 .. Len(t) : t[i] = s[i]
  BY WithoutTop DEF Shows
<1>2. /\ Frame(Pop(m), loaded, o, d - 1)
      /\ Top(m) = WordAt(m, loaded.stack + (2 * (d - 1))) /\ Top(m) \in Word
  BY <1>0, FramePop DEF Shows
<1>3. Top(m) = SlotWord(m, d) BY <1>2 DEF SlotWord
<1>4. I16(Top(m)) = s[d] BY <1>0, <1>3 DEF Shows
<1>5. Pop(m) = SetReg(m, sp, MovedTo(m, sp, -2)) /\ MovedTo(m, sp, -2) \in Word
  BY <1>0, MovedToWord DEF Pop, sp
<1>6. /\ \A e \in Nat : loaded.stack + (2 * e) <= MemSize =>
           \A i \in 1 .. e : SlotWord(Pop(m), i) = SlotWord(m, i)
      /\ \A q \in General : Reg(Pop(m), q) = Reg(m, q)
      /\ \A a \in Addr : a >= 32 => Pop(m)[a] = m[a]
  BY <1>0, <1>5, SpecialRegister
<1>7. d - 1 \in Nat /\ loaded.stack + (2 * (d - 1)) <= MemSize
  BY <1>0, MemSizeAssumption DEF Shows, Home
<1>8. \A i \in 1 .. Len(t) : I16(SlotWord(Pop(m), i)) = t[i]
  <2> HIDE DEF t, d
  <2> TAKE i \in 1 .. Len(t)
  <2>1. i \in 1 .. d - 1 /\ i \in 1 .. d BY <1>0, <1>1
  <2>2. SlotWord(Pop(m), i) = SlotWord(m, i) BY <1>6, <1>7, <2>1
  <2> QED BY <1>1, <2>1, <2>2 DEF Shows, d
<1>9. \A r \in General : I16(Reg(Pop(m), r)) = g[r] BY <1>6 DEF Shows
<1>10. \A a \in Addr : 32 <= a /\ a < loaded.stack => Pop(m)[a] = mem[a]
  BY <1>6 DEF Shows, Addr
<1>11. Frame(Pop(m), loaded, o, Len(t)) /\ loaded.stack + (2 * Len(t)) <= MemSize
  <2> HIDE DEF t, d
  <2> QED BY <1>1, <1>2, <1>7
<1>12. Shows(Pop(m), o, t, g)
  <2>1. g \in [General -> Int16] BY DEF Shows
  <2> HIDE DEF t
  <2> QED BY <1>1, <1>8, <1>9, <1>10, <1>11, <2>1 DEF Shows
<1> QED BY <1>2, <1>3, <1>4, <1>12

\* A word pushed.
LEMMA ShowsPush ==
  ASSUME Home(loaded), NEW m, NEW o, NEW s, NEW g, Shows(m, o, s, g),
         loaded.stack + (2 * (Len(s) + 1)) <= MemSize, NEW w \in Word
  PROVE  Shows(Push(m, w), o, Append(s, I16(w)), g)
<1> DEFINE d == Len(s)
           t == Append(s, I16(w))
           b == loaded.stack + (2 * d)
           n == Push(m, w)
<1>0. m \in Memory /\ d \in Nat /\ Reg(m, sp) = b
  BY LenProperties DEF Shows, Frame
<1>1. /\ t \in Seq(Int16) /\ Len(t) = d + 1
      /\ \A i \in 1 .. d : t[i] = s[i]
      /\ t[d + 1] = I16(w)
  BY I16Int, AppendProperties DEF Shows
<1>2. Frame(n, loaded, o, d + 1) BY <1>0, FramePush DEF Shows
<1>3. b \in Addr /\ b + 1 \in Addr /\ b >= 32 /\ b >= loaded.stack /\ b \in Int
  <2>1. d + 1 \in Nat /\ d + 1 \in 1 .. d + 1 /\ (d + 1) - 1 = d BY <1>0
  <2> QED BY <2>1, SlotAddress
<1>4. /\ \A q \in 0 .. 15 : q # sp => Reg(n, q) = Reg(m, q)
      /\ WordAt(n, b) = w
      /\ \A a \in Addr : a >= 32 /\ a # b /\ a # b + 1 => n[a] = m[a]
  BY <1>0, <1>3, PushEffect
<1>5. \A r \in General : I16(Reg(n, r)) = g[r]
  BY <1>4, GeneralRegister DEF Shows
<1>6. \A a \in Addr : 32 <= a /\ a < loaded.stack => n[a] = mem[a]
  <2> TAKE a \in Addr
  <2> HAVE 32 <= a /\ a < loaded.stack
  <2>1. a \in Int /\ loaded.stack \in Int
    BY MemSizeAssumption DEF Addr, Home
  <2>2. a # b /\ a # b + 1 /\ a >= 32
    <3> HIDE DEF b
    <3> QED BY <1>3, <2>1
  <2> QED BY <1>4, <2>2 DEF Shows
<1>7. \A i \in 1 .. d + 1 : I16(SlotWord(n, i)) = t[i]
  <2> TAKE i \in 1 .. d + 1
  <2>1. CASE i = d + 1
    <3>1. SlotWord(n, i) = WordAt(n, b) BY <1>0, <2>1 DEF SlotWord
    <3> QED BY <1>1, <1>4, <2>1, <3>1
  <2>2. CASE i # d + 1
    <3> DEFINE a == loaded.stack + (2 * (i - 1))
    <3>1. i \in 1 .. d BY <1>0, <2>2
    <3>2. a \in Addr /\ a + 1 \in Addr /\ a >= 32 /\ a + 1 >= 32 /\ a \in Int
      BY <1>0, <3>1, SlotAddress DEF Shows
    <3>3. a # b /\ a # b + 1 /\ a + 1 # b /\ a + 1 # b + 1
      BY SMTT(30), <1>0, <3>1 DEF Home
    <3>4. SlotWord(n, i) = SlotWord(m, i)
      BY <1>4, <3>2, <3>3 DEF SlotWord, WordAt
    <3> QED BY <1>1, <3>1, <3>4 DEF Shows
  <2> QED BY <2>1, <2>2
<1>8. g \in [General -> Int16] BY DEF Shows
<1> HIDE DEF n, t
<1>9. Shows(n, o, t, g) BY <1>1, <1>2, <1>5, <1>6, <1>7, <1>8 DEF Shows
<1> QED BY <1>9 DEF n, t

\* The word of a slot set.
LEMMA ShowsStore ==
  ASSUME Home(loaded), NEW m, NEW o, NEW s, NEW g, Shows(m, o, s, g),
         NEW k \in 1 .. Len(s), NEW w \in Word
  PROVE  Shows(SetWord(m, loaded.stack + (2 * (k - 1)), w), o,
               [s EXCEPT ![k] = I16(w)], g)
<1> DEFINE b == loaded.stack + (2 * (k - 1))
           n == SetWord(m, b, w)
           t == [s EXCEPT ![k] = I16(w)]
<1>0. m \in Memory /\ Len(s) \in Nat BY LenProperties DEF Shows, Frame
<1>1. /\ t \in Seq(Int16) /\ Len(t) = Len(s)
      /\ \A i \in 1 .. Len(s) : t[i] = IF i = k THEN I16(w) ELSE s[i]
  BY I16Int, ExceptSeq DEF Shows
<1>2. b \in Addr /\ b + 1 \in Addr /\ b \in Int /\ b >= 32 /\ b >= loaded.stack
  BY <1>0, SlotAddress DEF Shows
<1>3. Frame(n, loaded, o, Len(s)) BY <1>2, FrameStore DEF Shows
<1>4. \A r \in General : I16(Reg(n, r)) = g[r]
  <2> TAKE r \in General
  <2>1. 2 * r \in Addr /\ (2 * r) + 1 \in Addr /\ (2 * r) + 1 < b
    <3>1. r \in 0 .. 15 BY GeneralRegister
    <3>2. (2 * r) + 1 < 32 /\ (2 * r) + 1 \in Int BY <3>1
    <3>3. 2 * r \in Addr /\ (2 * r) + 1 \in Addr BY <3>1, RegInMemory
    <3> HIDE DEF b
    <3>4. (2 * r) + 1 < b BY <1>2, <3>2
    <3> QED BY <3>3, <3>4
  <2>2. Reg(n, r) = Reg(m, r)
    BY <1>0, <1>2, <2>1, SetWordElsewhere DEF Reg
  <2> QED BY <2>2 DEF Shows
<1>5. \A a \in Addr : 32 <= a /\ a < loaded.stack => n[a] = mem[a]
  <2> TAKE a \in Addr
  <2> HAVE 32 <= a /\ a < loaded.stack
  <2>1. a \in Int /\ loaded.stack \in Int
    BY MemSizeAssumption DEF Addr, Home
  <2>2. a # b /\ a # b + 1
    <3> HIDE DEF b
    <3> QED BY <1>2, <2>1
  <2>3. n[a] = m[a] BY <1>0, <1>2, <2>2, SetWordByte
  <2> QED BY <2>3 DEF Shows
<1>6. \A i \in 1 .. Len(s) : I16(SlotWord(n, i)) = t[i]
  <2> TAKE i \in 1 .. Len(s)
  <2> DEFINE a == loaded.stack + (2 * (i - 1))
  <2>1. a \in Addr /\ a + 1 \in Addr /\ a \in Int
    BY <1>0, SlotAddress DEF Shows
  <2>2. CASE i = k
    <3>1. WordAt(n, b) = w BY <1>0, <1>2, SetWordReads
    <3> QED BY <1>1, <2>2, <3>1 DEF SlotWord
  <2>3. CASE i # k
    <3>1. a + 1 < b \/ b + 1 < a BY <2>3 DEF Home
    <3>2. WordAt(n, a) = WordAt(m, a)
      BY <1>0, <1>2, <2>1, <3>1, SetWordElsewhere
    <3> QED BY <1>1, <2>3, <3>2 DEF SlotWord, Shows
  <2> QED BY <2>2, <2>3
<1>7. g \in [General -> Int16] /\ loaded.stack + (2 * Len(s)) <= MemSize
  BY DEF Shows
<1> HIDE DEF n, t
<1>8. Shows(n, o, t, g) BY <1>1, <1>3, <1>4, <1>5, <1>6, <1>7 DEF Shows
<1> QED BY <1>8 DEF n, t

-----------------------------------------------------------------------------
(* A turn of execute() and an instruction of the abstract machine.         *)

\* Both machines read one instruction set.
LEMMA SharedIsa ==
  /\ \A p, o, n : Abstract!Arg(p, o, n) = Arg(p, o, n)
  /\ \A p, o : Abstract!Literal(p, o) = Literal(p, o)
  /\ \A p, o : Abstract!JumpTarget(p, o) = JumpTarget(p, o)
  /\ \A n : Abstract!Wrap(n) = I16(U16(n))
  /\ \A a, b : Abstract!Quotient(a, b) = Quotient(a, b)
  /\ Abstract!General = General /\ Abstract!Int16 = Int16
  /\ Abstract!sp = sp /\ Abstract!imm = imm /\ Abstract!ret = ret
  /\ Abstract!PSH = PSH /\ Abstract!PSH_LIT = PSH_LIT
  /\ Abstract!PSH_REG = PSH_REG /\ Abstract!POP_REG = POP_REG
  /\ Abstract!PEK_REG = PEK_REG /\ Abstract!PEK_OFF = PEK_OFF
  /\ Abstract!ADD = ADD /\ Abstract!SUB = SUB
  /\ Abstract!MUL = MUL /\ Abstract!DIV = DIV
  /\ Abstract!INC = INC /\ Abstract!DEC = DEC /\ Abstract!CMP = CMP
  /\ Abstract!MOV = MOV /\ Abstract!JLT = JLT /\ Abstract!RET = RET
<1>1. /\ \A p, o, n : Abstract!Arg(p, o, n) = Arg(p, o, n)
      /\ \A w : Abstract!I16(w) = I16(w)
      /\ \A n : Abstract!Wrap(n) = I16(U16(n))
  BY DEF Abstract!Arg, Arg, Abstract!I16, I16, Abstract!Wrap, Abstract!U16, U16
<1>2. \A p, o : Abstract!Literal(p, o) = Literal(p, o)
  BY <1>1 DEF Abstract!Literal, Literal
<1>3. \A p, o : Abstract!JumpTarget(p, o) = JumpTarget(p, o)
  BY <1>2 DEF Abstract!JumpTarget, JumpTarget
<1>4. \A a, b : Abstract!Quotient(a, b) = Quotient(a, b)
  BY DEF Abstract!Quotient, Quotient
<1>5. /\ Abstract!imm = imm /\ Abstract!ret = ret /\ Abstract!sp = sp
      /\ Abstract!General = General /\ Abstract!Int16 = Int16
  BY DEF Abstract!imm, imm, Abstract!ret, ret, Abstract!sp, sp,
         Abstract!General, General, Abstract!Int16, Int16
<1>6. /\ Abstract!PSH = PSH /\ Abstract!PSH_LIT = PSH_LIT
      /\ Abstract!PSH_REG = PSH_REG /\ Abstract!POP_REG = POP_REG
      /\ Abstract!PEK_REG = PEK_REG /\ Abstract!PEK_OFF = PEK_OFF
  BY DEF Abstract!PSH, PSH, Abstract!PSH_LIT, PSH_LIT, Abstract!PSH_REG,
         PSH_REG, Abstract!POP_REG, POP_REG, Abstract!PEK_REG, PEK_REG,
         Abstract!PEK_OFF, PEK_OFF
<1>7. /\ Abstract!ADD = ADD /\ Abstract!SUB = SUB
      /\ Abstract!MUL = MUL /\ Abstract!DIV = DIV
      /\ Abstract!INC = INC /\ Abstract!DEC = DEC /\ Abstract!CMP = CMP
      /\ Abstract!MOV = MOV /\ Abstract!JLT = JLT /\ Abstract!RET = RET
  BY DEF Abstract!ADD, ADD, Abstract!SUB, SUB, Abstract!MUL, MUL, Abstract!DIV,
         DIV, Abstract!INC, INC, Abstract!DEC, DEC, Abstract!CMP, CMP,
         Abstract!MOV, MOV, Abstract!JLT, JLT, Abstract!RET, RET
<1> QED BY <1>1, <1>2, <1>3, <1>4, <1>5, <1>6, <1>7

\* Before the turn, mem shows what the refinement mapping says.
LEMMA StartShows ==
  ASSUME IInv, RunsSound
  PROVE  /\ Shows(mem, Offset, Slots, Values) /\ Len(Slots) = T[Offset]
         /\ Home(loaded) /\ mem \in Memory
<1> DEFINE d == T[Offset]
<1>1. /\ Home(loaded) /\ Sound(loaded) /\ Offset \in DOMAIN T
      /\ Frame(mem, loaded, Offset, d)
  BY AtInstruction
<1>2. d \in Nat /\ loaded.stack + (2 * d) <= MemSize BY <1>1, TypedOffset
<1>3. FrameDepth = d
  <2>1. Reg(mem, sp) = loaded.stack + (2 * d) /\ loaded.stack \in Nat
    BY <1>1 DEF Frame, Home
  <2> HIDE DEF d
  <2>2. Reg(mem, sp) - loaded.stack = 2 * d BY <1>2, <2>1
  <2> QED BY <1>2, <2>2 DEF FrameDepth
<1>4. Slots = [i \in 1 .. d |-> I16(SlotWord(mem, i))] BY <1>3 DEF Slots
<1>5. mem \in Memory BY <1>1 DEF Frame
<1>6. \A i \in 1 .. d : I16(SlotWord(mem, i)) \in Int16
  <2> TAKE i \in 1 .. d
  <2> DEFINE a == loaded.stack + (2 * (i - 1))
  <2>1. a \in Addr /\ a + 1 \in Addr BY <1>1, <1>2, SlotAddress
  <2>2. WordAt(mem, a) \in Word BY <1>5, <2>1, WordAtWord
  <2> QED BY <2>2, I16Int DEF SlotWord
<1>7. Slots \in Seq(Int16) /\ Len(Slots) = d
      /\ \A i \in 1 .. d : Slots[i] = I16(SlotWord(mem, i))
  BY <1>2, <1>4, <1>6
<1>8. Values \in [General -> Int16]
  <2>1. \A r \in General : Reg(mem, r) \in Word
    BY <1>5, GeneralRegister, RegInMemory, WordAtWord DEF Reg
  <2> QED BY <2>1, I16Int DEF Values
<1>9. \A r \in General : I16(Reg(mem, r)) = Values[r] BY DEF Values
<1> HIDE DEF d
<1>10. Shows(mem, Offset, Slots, Values)
  BY <1>1, <1>2, <1>7, <1>8, <1>9 DEF Shows
<1> QED BY <1>1, <1>5, <1>7, <1>10 DEF d

\* After it, the mapping says what mem shows.
LEMMA EndShows ==
  ASSUME IInv, RunsSound, UNCHANGED <<status, loaded>>,
         NEW o \in Int, NEW s, NEW g, Shows(mem', o, s, g)
  PROVE  Place' = o /\ Slots' = s /\ Values' = g /\ Mode' = "running"
<1>1. RunsSound' /\ Sound(loaded)' /\ status' = "running" BY DEF RunsSound
<1>2. Len(s) \in Nat /\ s \in [1 .. Len(s) -> Int16] BY LenProperties DEF Shows
<1>3. Home(loaded) BY AtInstruction
<1>4. Place' = o
  BY <1>1, <1>3 DEF Place, Offset, Shows, Frame, Home
<1>5. FrameDepth' = Len(s)
  <2> DEFINE d == Len(s)
  <2>1. Reg(mem', sp) = loaded.stack + (2 * d) /\ loaded.stack \in Nat /\ d \in Nat
    BY <1>2, <1>3 DEF Shows, Frame, Home
  <2> HIDE DEF d
  <2>2. Reg(mem', sp) - loaded.stack = 2 * d BY <2>1
  <2>3. FrameDepth' = d BY <2>1, <2>2 DEF FrameDepth
  <2> QED BY <2>3 DEF d
<1>6. Slots' = [i \in 1 .. Len(s) |-> I16(SlotWord(mem', i))]
  BY <1>1, <1>5 DEF Slots, SlotWord
<1>7. Slots' = s BY <1>2, <1>6 DEF Shows
<1>8. Values' = g BY DEF Values, Shows
<1> QED BY <1>1, <1>4, <1>7, <1>8 DEF Mode

\* The last byte of an instruction n bytes long is the last the handler moves
\* pc to; the loop moves it on.
LEMMA TurnLeaves ==
  ASSUME IInv, RunsSound, UNCHANGED <<status, loaded, returnValue>>,
         NEW n \in Int, Offset + n \in DOMAIN T,
         NEW m, NEW s, NEW g, Shows(m, Offset + (n - 1), s, g),
         mem' = Advance(m, 1)
  PROVE  Abstract!Leaves(n, s, g) /\ Untouched
<1>1. Home(loaded) /\ Sound(loaded) /\ Offset \in DOMAIN T BY AtInstruction
<1>2. Offset \in Nat /\ loaded.addrs + (Offset + n) \in Word
      /\ loaded.addrs \in Nat
  BY SMTT(30), <1>1, TypedOffset DEF Home
<1>3. /\ loaded.addrs + (Offset + (n - 1)) + 1 = loaded.addrs + (Offset + n)
      /\ (Offset + (n - 1)) + 1 = Offset + n
      /\ Offset + (n - 1) \in Int /\ Offset + n \in Int
  BY <1>2
<1>4. Shows(mem', Offset + n, s, g) BY <1>1, <1>2, <1>3, ShowsAdvance
<1>5. Place' = Offset + n /\ Slots' = s /\ Values' = g /\ Mode' = "running"
  BY <1>3, <1>4, EndShows
<1>6. Place = Offset /\ Mode = "running" BY DEF RunsSound, Place, Mode
<1>7. Untouched BY <1>4 DEF Shows, Untouched
<1> QED BY <1>5, <1>6, <1>7 DEF Abstract!Leaves

\* The abstract machine is at the instruction that was fetched.
LEMMA AtOpcode ==
  ASSUME IInv, RunsSound
  PROVE  /\ \A op : Opcode = op => Abstract!At(op)
         /\ \A n : Abstract!Nth(n) = Arg(P, Offset, n)
         /\ Place = Offset
BY AtInstruction, SharedIsa
   DEF RunsSound, Abstract!At, Abstract!Nth, Place, Mode, P

\* A sound program's handler is never out of bounds.
LEMMA SoundTurn ==
  ASSUME IInv, RunsSound, step, NEW op, NEW STATE b, NEW STATE m,
         Execute(op, b, m)
  PROVE  /\ Opcode = op /\ b
         /\ mem' = Advance(m, 1)
         /\ UNCHANGED <<status, loaded, returnValue>>
<1>1. SoundNeverStrays' /\ loaded' = loaded /\ Sound(loaded)
  BY StepInvariant, StepRuns DEF IInv, RunsSound
<1>2. status' # "outofbounds" BY <1>1 DEF SoundNeverStrays
<1> QED BY <1>2 DEF Execute

\* What its operand bytes are, and what is shown once they have been read.
LEMMA ShowsOperands ==
  ASSUME IInv, RunsSound, NEW k \in 1 .. 3, NEW needs \in Nat, NEW delta \in Int,
         Continues(T, Offset, k, needs, delta)
  PROVE  /\ \A i \in 1 .. k - 1 : /\ Operand(mem, i) = Arg(P, Offset, i)
                                  /\ Arg(P, Offset, i) \in Byte
         /\ Shows(Advance(mem, k - 1), Offset + (k - 1), Slots, Values)
         /\ Offset + k \in DOMAIN T
         /\ Len(Slots) >= needs
         /\ loaded.stack + (2 * (Len(Slots) + delta)) <= MemSize
<1>1. Home(loaded) /\ Shows(mem, Offset, Slots, Values) /\ Len(Slots) = T[Offset]
  BY StartShows
<1>2. /\ Offset + k \in DOMAIN T /\ Offset \in Nat /\ T[Offset] >= needs
      /\ loaded.stack + (2 * (T[Offset] + delta)) <= MemSize
      /\ loaded.addrs + Offset + (k - 1) \in Word
  BY NextInstruction
<1>3. k - 1 \in Nat /\ k - 1 < k /\ k - 1 \in Int /\ Offset \in Int BY <1>2
<1>4. \A i \in 1 .. k - 1 : /\ Operand(mem, i) = Arg(P, Offset, i)
                            /\ Arg(P, Offset, i) \in Byte
  BY <1>3, InstructionOperands
<1>5. Shows(Advance(mem, k - 1), Offset + (k - 1), Slots, Values)
  BY <1>1, <1>2, <1>3, ShowsAdvance
<1> QED BY <1>1, <1>2, <1>4, <1>5

-----------------------------------------------------------------------------
(* One lemma per handler: run at an instruction of a sound program, it     *)
(* does what the abstract machine's instruction does.                      *)

\* The rule of the discipline that the instruction keeps.
LEMMA Rule ==
  ASSUME IInv, RunsSound
  PROVE  TypedInstruction(P, T, Offset) /\ Opcode = P[Offset + 1]
BY AtInstruction, TypedOffset

LEMMA PushRegLeaves ==
  ASSUME IInv, RunsSound, step, NEW op, NEW n \in {0, 1}, NEW STATE r,
         Continues(T, Offset, n + 1, 0, 1), r \in General, PushReg(op, n, r)
  PROVE  Abstract!Leaves(n + 1, Append(Slots, Values[r]), Values) /\ Untouched
<1> DEFINE m == Advance(mem, n)
           w == Reg(m, r)
<1>1. Home(loaded) BY AtInstruction
<1>2. n + 1 \in 1 .. 3 /\ (n + 1) - 1 = n OBVIOUS
<1>3. /\ Shows(m, Offset + n, Slots, Values)
      /\ Offset + (n + 1) \in DOMAIN T
      /\ loaded.stack + (2 * (Len(Slots) + 1)) <= MemSize
  BY <1>2, ShowsOperands
<1>4. w \in Word /\ I16(w) = Values[r]
  BY <1>3, GeneralRegister, RegInMemory, WordAtWord DEF Shows, Frame, Reg
<1>5. Shows(Push(m, w), Offset + n, Append(Slots, Values[r]), Values)
  BY <1>1, <1>3, <1>4, ShowsPush
<1>6. mem' = Advance(Push(m, w), 1) /\ UNCHANGED <<status, loaded, returnValue>>
  BY SoundTurn DEF PushReg
<1>7. n + 1 \in Int OBVIOUS
<1> QED BY <1>2, <1>3, <1>5, <1>6, <1>7, TurnLeaves

LEMMA PushImplements ==
  ASSUME IInv, RunsSound, step, push_handler \/ push_reg_handler
  PROVE  Implements
<1>1. CASE push_handler
  <2>1. Opcode = PSH BY <1>1 DEF push_handler, PushReg, Execute
  <2>2. Continues(T, Offset, 0 + 1, 0, 1) BY <2>1, Rule, TypingRule
  <2>3. imm \in General BY DEF imm, General, ret
  <2>4. Abstract!Leaves(0 + 1, Append(Slots, Values[imm]), Values) /\ Untouched
    BY <1>1, <2>2, <2>3, PushRegLeaves DEF push_handler
  <2>5. Abstract!PushImm
    BY <2>1, <2>4, AtOpcode, SharedIsa DEF Abstract!PushImm
  <2> QED BY <2>4, <2>5 DEF Implements, Abstract!Instruction
<1>2. CASE push_reg_handler
  <2>1. Opcode = PSH_REG BY <1>2 DEF push_reg_handler, PushReg, Execute
  <2>2. Continues(T, Offset, 1 + 1, 0, 1) /\ Arg(P, Offset, 1) \in General
    BY <2>1, Rule, TypingRule
  <2>3. Operand(mem, 1) = Arg(P, Offset, 1) BY <2>2, ShowsOperands
  <2>4. /\ Abstract!Leaves(1 + 1, Append(Slots, Values[Operand(mem, 1)]), Values)
        /\ Untouched
    BY <1>2, <2>2, <2>3, PushRegLeaves DEF push_reg_handler
  <2>5. Abstract!PushRegister
    BY <2>1, <2>3, <2>4, AtOpcode, SharedIsa DEF Abstract!PushRegister
  <2> QED BY <2>4, <2>5 DEF Implements, Abstract!Instruction
<1> QED BY <1>1, <1>2

LEMMA PushLiteralImplements ==
  ASSUME IInv, RunsSound, step, push_literal_handler
  PROVE  Implements
<1> DEFINE m == Advance(mem, 2)
           w == OperandWord(mem)
<1>1. Home(loaded) /\ mem \in Memory BY StartShows
<1>2. Opcode = PSH_LIT BY DEF push_literal_handler, Execute
<1>3. Continues(T, Offset, 3, 0, 1) BY <1>2, Rule, TypingRule
<1>4. /\ \A i \in 1 .. 2 : Operand(mem, i) = Arg(P, Offset, i)
      /\ Shows(m, Offset + 2, Slots, Values)
      /\ Offset + 3 \in DOMAIN T
      /\ loaded.stack + (2 * (Len(Slots) + 1)) <= MemSize
  BY <1>3, ShowsOperands
<1>5. /\ HasOperands(mem, 2)
      /\ mem' = Advance(Push(m, w), 1)
      /\ UNCHANGED <<status, loaded, returnValue>>
  BY SoundTurn DEF push_literal_handler
<1>6. w \in Word /\ I16(w) = Literal(P, Offset)
  BY <1>1, <1>4, <1>5, OperandWordWord DEF OperandWord, Literal
<1>7. Shows(Push(m, w), Offset + 2, Append(Slots, Literal(P, Offset)), Values)
  BY <1>1, <1>4, <1>6, ShowsPush
<1>8. Abstract!Leaves(3, Append(Slots, Literal(P, Offset)), Values) /\ Untouched
  BY <1>4, <1>5, <1>7, TurnLeaves
<1>9. Abstract!PushLiteral
  BY <1>2, <1>8, AtOpcode, SharedIsa DEF Abstract!PushLiteral, P
<1> QED BY <1>8, <1>9 DEF Implements, Abstract!Instruction

LEMMA PopRegImplements ==
  ASSUME IInv, RunsSound, step, pop_reg_handler
  PROVE  Implements
<1> DEFINE m == Advance(mem, 1)
           r == Operand(mem, 1)
           s == SubSeq(Slots, 1, Len(Slots) - 1)
           g == [Values EXCEPT ![r] = Slots[Len(Slots)]]
<1>1. Home(loaded) BY AtInstruction
<1>2. Opcode = POP_REG BY DEF pop_reg_handler, Execute
<1>3. Continues(T, Offset, 2, 1, -1) /\ Arg(P, Offset, 1) \in General
  BY <1>2, Rule, TypingRule
<1>4. /\ r = Arg(P, Offset, 1) /\ r \in General
      /\ Shows(m, Offset + 1, Slots, Values)
      /\ Offset + 2 \in DOMAIN T
      /\ Len(Slots) >= 1
  BY <1>3, ShowsOperands
<1>5. /\ Shows(Pop(m), Offset + 1, s, Values)
      /\ Top(m) \in Word /\ I16(Top(m)) = Slots[Len(Slots)]
  BY <1>1, <1>4, ShowsPop
<1>6. Shows(SetReg(Pop(m), r, Top(m)), Offset + 1, s, g)
  BY <1>1, <1>4, <1>5, ShowsRegister
<1>7. /\ mem' = Advance(SetReg(Pop(m), r, Top(m)), 1)
      /\ UNCHANGED <<status, loaded, returnValue>>
  BY SoundTurn DEF pop_reg_handler
<1>8. Abstract!Leaves(2, s, g) /\ Untouched
  BY <1>4, <1>6, <1>7, TurnLeaves
<1>9. Abstract!PopRegister
  BY <1>2, <1>4, <1>8, AtOpcode, SharedIsa
     DEF Abstract!PopRegister, Abstract!Drop, Abstract!SetTo, Abstract!Top
<1> QED BY <1>8, <1>9 DEF Implements, Abstract!Instruction

LEMMA PeekImplements ==
  ASSUME IInv, RunsSound, step, peek_handler
  PROVE  Implements
<1> DEFINE m == Advance(mem, 1)
           r == Operand(mem, 1)
           d == Len(Slots)
           a == MovedTo(m, sp, -2)
           g == [Values EXCEPT ![r] = Slots[d]]
<1>1. Home(loaded) BY AtInstruction
<1>2. Opcode = PEK_REG BY DEF peek_handler, Execute
<1>3. Continues(T, Offset, 2, 1, 0) /\ Arg(P, Offset, 1) \in General
  BY <1>2, Rule, TypingRule
<1>4. /\ r = Arg(P, Offset, 1) /\ r \in General
      /\ Shows(m, Offset + 1, Slots, Values)
      /\ Offset + 2 \in DOMAIN T
      /\ d >= 1
  BY <1>3, ShowsOperands
<1>5. d \in Nat /\ d \in 1 .. d BY <1>4, LenProperties DEF Shows
<1>6. /\ loaded.stack + (2 * (d - 1)) \in Addr
      /\ loaded.stack + (2 * (d - 1)) + 1 \in Addr
      /\ loaded.stack + (2 * (d - 1)) \in Word
  <2>1. loaded.stack + (2 * d) <= MemSize BY <1>4 DEF Shows
  <2>2. /\ loaded.stack + (2 * (d - 1)) \in Addr
        /\ loaded.stack + (2 * (d - 1)) + 1 \in Addr
    BY <1>1, <1>5, <2>1, SlotAddress
  <2> QED BY <2>2, MemSizeAssumption DEF Addr, Word
<1>7. a = loaded.stack + (2 * (d - 1))
  <2>1. Reg(m, sp) = loaded.stack + (2 * d) /\ loaded.stack \in Nat
    BY <1>1, <1>4 DEF Shows, Frame, Home
  <2> HIDE DEF d
  <2>2. Reg(m, sp) + (-2) = loaded.stack + (2 * (d - 1)) BY <1>5, <2>1
  <2> QED BY <1>6, <2>2, U16Word DEF MovedTo, Word
<1>8. WordAt(m, a) \in Word /\ I16(WordAt(m, a)) = Slots[d]
  BY <1>4, <1>5, <1>6, <1>7, WordAtWord DEF Shows, Frame, SlotWord
<1>9. Shows(SetReg(m, r, WordAt(m, a)), Offset + 1, Slots, g)
  BY <1>1, <1>4, <1>8, ShowsRegister
<1>10. /\ mem' = Advance(SetReg(m, r, WordAt(m, a)), 1)
       /\ UNCHANGED <<status, loaded, returnValue>>
  BY SoundTurn DEF peek_handler
<1>11. Abstract!Leaves(2, Slots, g) /\ Untouched
  BY <1>4, <1>9, <1>10, TurnLeaves
<1>12. Abstract!PeekTop
  BY <1>2, <1>4, <1>11, AtOpcode, SharedIsa
     DEF Abstract!PeekTop, Abstract!SetTo, Abstract!Top
<1> QED BY <1>11, <1>12 DEF Implements, Abstract!Instruction

LEMMA PeekOffsetImplements ==
  ASSUME IInv, RunsSound, step, peek_offset_handler
  PROVE  Implements
<1> DEFINE m == Advance(mem, 2)
           r == Operand(mem, 1)
           k == Operand(mem, 2)
           d == Len(Slots)
           a == SlotAddr(Reg(m, fp), k)
           w == WordAt(m, a)
           v == Slots[k + 1]
           n == IF r = sp THEN Push(m, w) ELSE SetReg(m, r, w)
<1>1. Home(loaded) /\ d = T[Offset] BY StartShows
<1>2. Opcode = PEK_OFF BY DEF peek_offset_handler, Execute
<1>3. /\ Arg(P, Offset, 2) < T[Offset]
      /\ \/ Continues(T, Offset, 3, 0, 1) /\ Arg(P, Offset, 1) = sp
         \/ Continues(T, Offset, 3, 0, 0) /\ Arg(P, Offset, 1) \in General
  BY <1>2, Rule, TypingRule
<1>4. /\ r = Arg(P, Offset, 1) /\ k = Arg(P, Offset, 2) /\ k \in Byte
      /\ Shows(m, Offset + 2, Slots, Values)
      /\ Offset + 3 \in DOMAIN T
  <2>1. \E delta \in Int : Continues(T, Offset, 3, 0, delta) BY <1>3
  <2>2. 3 \in 1 .. 3 /\ 1 \in 1 .. 3 - 1 /\ 2 \in 1 .. 3 - 1 /\ 3 - 1 = 2
    OBVIOUS
  <2> QED BY <2>1, <2>2, ShowsOperands
<1>5. d \in Nat /\ k \in Nat /\ k < d /\ k + 1 \in 1 .. d /\ (k + 1) - 1 = k
  <2>1. d \in Nat BY <1>4, LenProperties DEF Shows
  <2>2. k \in Nat /\ k < d BY <1>1, <1>3, <1>4 DEF Byte
  <2> HIDE DEF d, k
  <2> QED BY <2>1, <2>2
<1>6. a = loaded.stack + (2 * k) /\ w \in Word
  BY <1>1, <1>4, <1>5, SlotInFrame DEF Shows
<1>7. I16(w) = v
  <2>1. I16(SlotWord(m, k + 1)) = Slots[k + 1] BY <1>4, <1>5 DEF Shows
  <2> QED BY <1>5, <1>6, <2>1 DEF SlotWord
<1>8. /\ mem' = Advance(n, 1)
      /\ UNCHANGED <<status, loaded, returnValue>>
  <2> DEFINE c == /\ HasOperands(mem, 2)
                  /\ IsWordAddr(a)
                  /\ IF r = sp THEN CanPush(m, w) ELSE IsReg(r)
  <2>1. Execute(PEK_OFF, c, n) BY DEF peek_offset_handler
  <2> HIDE DEF c, n
  <2> QED BY <2>1, SoundTurn
<1>9. Offset + 2 = Offset + (3 - 1) OBVIOUS
<1>10. CASE Continues(T, Offset, 3, 0, 1) /\ r = sp
  <2>1. loaded.stack + (2 * (d + 1)) <= MemSize BY <1>10, ShowsOperands
  <2>2. Shows(n, Offset + 2, Append(Slots, v), Values)
    BY <1>1, <1>4, <1>6, <1>7, <1>10, <2>1, ShowsPush
  <2>3. Abstract!Leaves(3, Append(Slots, v), Values) /\ Untouched
    BY <1>4, <1>8, <1>9, <2>2, TurnLeaves
  <2>4. Abstract!PeekSlot
    BY <1>2, <1>4, <1>10, <2>3, AtOpcode, SharedIsa DEF Abstract!PeekSlot
  <2> QED BY <2>3, <2>4 DEF Implements, Abstract!Instruction
<1>11. CASE r \in General
  <2>1. r # sp BY <1>11, GeneralRegister
  <2>2. Shows(n, Offset + 2, Slots, [Values EXCEPT ![r] = v])
    BY <1>1, <1>4, <1>6, <1>7, <1>11, <2>1, ShowsRegister
  <2>3. Abstract!Leaves(3, Slots, [Values EXCEPT ![r] = v]) /\ Untouched
    BY <1>4, <1>8, <1>9, <2>2, TurnLeaves
  <2>4. Abstract!PeekSlot
    BY <1>2, <1>4, <2>1, <2>3, AtOpcode, SharedIsa
       DEF Abstract!PeekSlot, Abstract!SetTo
  <2> QED BY <2>3, <2>4 DEF Implements, Abstract!Instruction
<1> QED BY <1>3, <1>4, <1>10, <1>11

\* Two words popped.
LEMMA ShowsPopTwo ==
  ASSUME Home(loaded), NEW m, NEW o, NEW s, NEW g, Shows(m, o, s, g),
         Len(s) >= 2
  PROVE  /\ Shows(Pop(Pop(m)), o, SubSeq(s, 1, Len(s) - 2), g)
         /\ I16(Top(m)) = s[Len(s)] /\ I16(Top(Pop(m))) = s[Len(s) - 1]
         /\ Top(m) \in Word /\ Top(Pop(m)) \in Word
         /\ Len(SubSeq(s, 1, Len(s) - 2)) = Len(s) - 2
<1> DEFINE d == Len(s)
           t == SubSeq(s, 1, d - 1)
           u == SubSeq(t, 1, Len(t) - 1)
           v == SubSeq(s, 1, d - 2)
<1>0. s \in Seq(Int16) /\ d \in Nat /\ d >= 2 BY LenProperties DEF Shows
<1>1. d >= 1 /\ d - 1 \in Nat /\ d - 1 >= 1 /\ (d - 1) - 1 = d - 2
  <2> HIDE DEF d
  <2> QED BY <1>0
<1>2. /\ Shows(Pop(m), o, t, g)
      /\ Top(m) \in Word /\ I16(Top(m)) = s[d]
  BY <1>1, ShowsPop
<1>3. t \in Seq(Int16) /\ Len(t) = d - 1 /\ \A i \in 1 .. Len(t) : t[i] = s[i]
  BY <1>0, <1>1, WithoutTop
<1>4. /\ Shows(Pop(Pop(m)), o, u, g)
      /\ Top(Pop(m)) \in Word /\ I16(Top(Pop(m))) = t[Len(t)]
  <2>1. Len(t) >= 1 BY <1>1, <1>3
  <2> HIDE DEF t
  <2> QED BY <1>2, <2>1, ShowsPop
<1>5. t[Len(t)] = s[d - 1]
  <2> HIDE DEF t, d
  <2> QED BY <1>1, <1>3
<1>6. u \in Seq(Int16) /\ Len(u) = Len(t) - 1 /\ \A i \in 1 .. Len(u) : u[i] = t[i]
  <2>1. Len(t) >= 1 BY <1>1, <1>3
  <2> HIDE DEF t
  <2> QED BY <1>3, <2>1, WithoutTop
<1>7. /\ v \in Seq(Int16)
      /\ Len(v) = IF 1 <= d - 2 THEN (d - 2) - 1 + 1 ELSE 0
      /\ \A i \in 1 .. (d - 2) - 1 + 1 : v[i] = s[1 + i - 1]
  <2>1. d - 2 \in Int /\ 1 \in Int BY <1>0
  <2>2. \A i \in 1 .. d - 2 : i \in 1 .. Len(s) BY <1>0
  <2>3. \A i \in 1 .. d - 2 : s[i] \in Int16 BY <1>0, <2>2, ElementOfSeq
  <2> QED BY <2>1, <2>3, SubSeqProperties
<1>8. Len(v) = d - 2 /\ Len(u) = d - 2
  <2> HIDE DEF d, t, u, v
  <2> QED BY <1>0, <1>1, <1>3, <1>6, <1>7
<1>9. \A i \in 1 .. Len(u) : u[i] = v[i]
  <2> HIDE DEF d, t, u, v
  <2> TAKE i \in 1 .. Len(u)
  <2>1. i \in 1 .. d - 1 /\ i \in 1 .. (d - 2) - 1 + 1 /\ 1 + i - 1 = i
    BY <1>0, <1>8
  <2> QED BY <1>3, <1>6, <1>7, <2>1
<1>10. u = v
  <2> HIDE DEF u, v
  <2> QED BY <1>6, <1>7, <1>8, <1>9, SeqEqual
<1> QED BY <1>2, <1>4, <1>5, <1>8, <1>10

\* A narrowed result is the number the abstract machine computes.
LEMMA ResultIs ==
  ASSUME NEW op \in Binary, NEW a, NEW b
  PROVE  /\ op = ADD => Result(op, a, b) = U16(a + b)
         /\ op = SUB => Result(op, a, b) = U16(a - b)
         /\ op = MUL => Result(op, a, b) = U16(a * b)
         /\ op = DIV => Result(op, a, b) = U16(Quotient(a, b))
BY DEF Result, Binary, ADD, SUB, MUL, DIV

LEMMA BinaryImplements ==
  ASSUME IInv, RunsSound, step, NEW op \in Binary, binary_stack_expression(op)
  PROVE  Implements
<1> DEFINE b == I16(Top(mem))
           a == I16(Top(Pop(mem)))
           m == Pop(Pop(mem))
           w == Result(op, a, b)
           d == Len(Slots)
           s == SubSeq(Slots, 1, d - 2)
<1>1. Home(loaded) /\ Shows(mem, Offset, Slots, Values) BY StartShows
<1>2. Opcode = op BY DEF binary_stack_expression, Execute
<1>3. Continues(T, Offset, 1, 2, -1) BY <1>2, Rule, TypingRule
<1>4. /\ Offset + 1 \in DOMAIN T
      /\ d >= 2
      /\ loaded.stack + (2 * (d + (-1))) <= MemSize
  BY <1>3, ShowsOperands
<1>5. /\ Shows(m, Offset, s, Values) /\ Len(s) = d - 2
      /\ b = Slots[d] /\ a = Slots[d - 1]
      /\ a \in Int16 /\ b \in Int16
  BY <1>1, <1>4, ShowsPopTwo, I16Int
<1>6. /\ ~(op = DIV /\ CanPop(mem, 2) /\ b = 0)
      /\ CanPop(mem, 2)
      /\ mem' = Advance(Push(m, w), 1)
      /\ UNCHANGED <<status, loaded, returnValue>>
  BY SoundTurn DEF binary_stack_expression
<1>7. (op = DIV => b # 0) /\ w \in Word BY <1>5, <1>6, ResultWord
<1>8. loaded.stack + (2 * (Len(s) + 1)) <= MemSize
  <2>1. d \in Nat BY <1>1, LenProperties DEF Shows
  <2>2. Len(s) + 1 = d + (-1) BY <1>5, <2>1
  <2> QED BY <1>4, <2>2
<1>9. Shows(Push(m, w), Offset, Append(s, I16(w)), Values)
  <2> HIDE DEF m, s, w
  <2> QED BY <1>1, <1>5, <1>7, <1>8, ShowsPush
<1>10. Abstract!Leaves(1, Append(s, I16(w)), Values) /\ Untouched
  <2>1. Offset + (1 - 1) = Offset
    <3>1. Offset \in Int BY <1>3, NextInstruction
    <3> QED BY <3>1
  <2> HIDE DEF w, s
  <2> QED BY <1>4, <1>6, <1>9, <2>1, TurnLeaves
<1>11. Abstract!Top = b /\ Abstract!Second = a /\ Abstract!Drop(2) = s
  BY <1>5 DEF Abstract!Top, Abstract!Second, Abstract!Drop
<1>12. Abstract!Arithmetic
  <2> HIDE DEF a, b, s
  <2>1. CASE op = ADD
    BY <1>2, <1>10, <1>11, <2>1, ResultIs, AtOpcode, SharedIsa
       DEF Abstract!Arithmetic, Abstract!Computes
  <2>2. CASE op = SUB
    BY <1>2, <1>10, <1>11, <2>2, ResultIs, AtOpcode, SharedIsa
       DEF Abstract!Arithmetic, Abstract!Computes
  <2>3. CASE op = MUL
    BY <1>2, <1>10, <1>11, <2>3, ResultIs, AtOpcode, SharedIsa
       DEF Abstract!Arithmetic, Abstract!Computes
  <2>4. CASE op = DIV
    BY <1>2, <1>7, <1>10, <1>11, <2>4, ResultIs, AtOpcode, SharedIsa
       DEF Abstract!Arithmetic, Abstract!Computes
  <2> QED BY <2>1, <2>2, <2>3, <2>4 DEF Binary
<1> QED BY <1>10, <1>12 DEF Implements, Abstract!Instruction


\* Sixteen bits count alike with a sign and without one.
LEMMA WrapsAlike ==
  ASSUME NEW w \in Word, NEW d \in Int
  PROVE  U16(w + d) = U16(I16(w) + d)
BY DEF U16, I16, Word

LEMMA IncDecImplements ==
  ASSUME IInv, RunsSound, step, NEW op \in {INC, DEC}, NEW d \in Int,
         IncDec(op, d)
  PROVE  Abstract!Count(op, d) /\ Untouched
<1>0. Opcode = op BY DEF IncDec, Execute
<1>1. Home(loaded) /\ Len(Slots) = T[Offset] BY StartShows
<1>2. \/ /\ Continues(T, Offset, 3, 0, 0) /\ Arg(P, Offset, 1) = sp
         /\ Arg(P, Offset, 2) < T[Offset]
      \/ Continues(T, Offset, 2, 0, 0) /\ Arg(P, Offset, 1) \in General
  BY <1>0, Rule, TypingRule
<1>3. CASE /\ Continues(T, Offset, 3, 0, 0) /\ Arg(P, Offset, 1) = sp
           /\ Arg(P, Offset, 2) < T[Offset]
  <2> DEFINE m == Advance(mem, 2)
             j == Operand(mem, 2)
             k == j + 1
             a == loaded.stack + (2 * j)
             w == U16(WordAt(m, a) + d)
             s == [Slots EXCEPT ![k] = I16(w)]
  <2>1. /\ HasOperands(mem, 1) /\ HasOperands(mem, 2)
        /\ Operand(mem, 1) = sp /\ j \in Nat
        /\ SlotAddr8(Reg(m, fp), j) = a
        /\ a \in Addr /\ a + 1 \in Addr /\ IsWordAddr(a)
    BY <1>0, <1>3, CountedSlot
  <2>2. /\ Operand(mem, 1) = Arg(P, Offset, 1) /\ j = Arg(P, Offset, 2)
        /\ Shows(m, Offset + 2, Slots, Values)
        /\ Offset + 3 \in DOMAIN T
    <3>1. 3 \in 1 .. 3 /\ 1 \in 1 .. 3 - 1 /\ 2 \in 1 .. 3 - 1 /\ 3 - 1 = 2
      OBVIOUS
    <3> QED BY <1>3, <3>1, ShowsOperands
  <2>3. k \in 1 .. Len(Slots) /\ k - 1 = j /\ Len(Slots) \in Nat
    <3>1. Len(Slots) \in Nat BY <2>2, LenProperties DEF Shows
    <3> HIDE DEF j
    <3> QED BY <1>1, <1>3, <2>1, <2>2, <3>1
  <2>4. WordAt(m, a) \in Word
    BY <2>1, <2>2, WordAtWord DEF Shows, Frame
  <2>5. I16(WordAt(m, a)) = Slots[k]
    BY <2>2, <2>3 DEF Shows, SlotWord
  <2>6. w \in Word /\ I16(w) = Abstract!Wrap(Slots[k] + d)
    <3>1. w \in Word BY <2>4, U16Word DEF Word
    <3>2. w = U16(I16(WordAt(m, a)) + d) BY <2>4, WrapsAlike
    <3> HIDE DEF w
    <3> QED BY <2>5, <3>1, <3>2, SharedIsa
  <2>7. Shows(AddAt(m, a, d), Offset + 2, s, Values)
    <3>1. AddAt(m, a, d) = SetWord(m, loaded.stack + (2 * (k - 1)), w)
      BY <2>3 DEF AddAt
    <3> HIDE DEF k, w
    <3> QED BY <1>1, <2>2, <2>3, <2>6, <3>1, ShowsStore
  <2>8. /\ mem' = Advance(AddAt(m, a, d), 1)
        /\ UNCHANGED <<status, loaded, returnValue>>
    <3> DEFINE c == /\ HasOperands(mem, 1)
                    /\ Operand(mem, 1) = sp => HasOperands(mem, 2)
                    /\ IsWordAddr(a)
    <3>1. Execute(op, c, AddAt(m, a, d)) BY <2>1 DEF IncDec
    <3> HIDE DEF c, m, a
    <3> QED BY <3>1, SoundTurn
  <2>9. Offset + 2 = Offset + (3 - 1) OBVIOUS
  <2>10. Abstract!Leaves(3, s, Values) /\ Untouched
    BY <2>2, <2>7, <2>8, <2>9, TurnLeaves
  <2> HIDE DEF s, k
  <2>11. s = [Slots EXCEPT ![k] = Abstract!Wrap(Slots[k] + d)]
    BY <2>6 DEF s
  <2>12. Abstract!Nth(1) = sp /\ Abstract!Nth(2) + 1 = k
    BY <1>3, <2>2, AtOpcode DEF k
  <2> QED BY <1>0, <2>10, <2>11, <2>12, AtOpcode, SharedIsa DEF Abstract!Count
<1>4. CASE Continues(T, Offset, 2, 0, 0) /\ Arg(P, Offset, 1) \in General
  <2> DEFINE m == Advance(mem, 1)
             r == Operand(mem, 1)
             w == U16(Reg(m, r) + d)
             g == [Values EXCEPT ![r] = I16(w)]
  <2>1. /\ r = Arg(P, Offset, 1)
        /\ Shows(m, Offset + 1, Slots, Values)
        /\ Offset + 2 \in DOMAIN T
    <3>1. 2 \in 1 .. 3 /\ 1 \in 1 .. 2 - 1 /\ 2 - 1 = 1 OBVIOUS
    <3> QED BY <1>4, <3>1, ShowsOperands
  <2>2. r \in General /\ r # sp /\ r \in 0 .. 15 BY <1>4, <2>1, GeneralRegister
  <2>3. Reg(m, r) \in Word /\ I16(Reg(m, r)) = Values[r]
    BY <2>1, <2>2, RegInMemory, WordAtWord DEF Reg, Shows, Frame
  <2>4. w \in Word /\ I16(w) = Abstract!Wrap(Values[r] + d)
    <3>1. w \in Word BY <2>3, U16Word DEF Word
    <3>2. w = U16(I16(Reg(m, r)) + d) BY <2>3, WrapsAlike
    <3> HIDE DEF w
    <3> QED BY <2>3, <3>1, <3>2, SharedIsa
  <2>5. AddAt(m, 2 * r, d) = SetReg(m, r, w) BY DEF AddAt, SetReg, Reg
  <2>6. Shows(AddAt(m, 2 * r, d), Offset + 1, Slots, g)
    <3> HIDE DEF m, r, w
    <3> QED BY <1>1, <2>1, <2>2, <2>4, <2>5, ShowsRegister
  <2>7. /\ mem' = Advance(AddAt(m, 2 * r, d), 1)
        /\ UNCHANGED <<status, loaded, returnValue>>
    <3> DEFINE c == /\ HasOperands(mem, 1)
                    /\ r = sp => HasOperands(mem, 2)
                    /\ IsWordAddr(2 * r)
    <3>1. Execute(op, c, AddAt(m, 2 * r, d)) BY <2>2 DEF IncDec
    <3> HIDE DEF c, m, r
    <3> QED BY <3>1, SoundTurn
  <2>8. Offset + 1 = Offset + (2 - 1) OBVIOUS
  <2>9. Abstract!Leaves(2, Slots, g) /\ Untouched
    BY <2>1, <2>6, <2>7, <2>8, TurnLeaves
  <2>10. g = Abstract!SetTo(r, Abstract!Wrap(Values[r] + d))
    BY <2>4 DEF Abstract!SetTo
  <2>11. Abstract!Nth(1) = r BY <2>1, AtOpcode
  <2> HIDE DEF g, r
  <2> QED BY <1>0, <2>2, <2>9, <2>10, <2>11, AtOpcode, SharedIsa
          DEF Abstract!Count
<1> QED BY <1>2, <1>3, <1>4

LEMMA CountImplements ==
  ASSUME IInv, RunsSound, step, inc_handler \/ dec_handler
  PROVE  Implements
<1>1. CASE inc_handler
  <2>1. Abstract!Count(INC, 1) /\ Untouched
    BY <1>1, IncDecImplements DEF inc_handler
  <2> QED BY <2>1, SharedIsa DEF Implements, Abstract!Instruction
<1>2. CASE dec_handler
  <2>1. Abstract!Count(DEC, -1) /\ Untouched
    BY <1>2, IncDecImplements DEF dec_handler
  <2> QED BY <2>1, SharedIsa DEF Implements, Abstract!Instruction
<1> QED BY <1>1, <1>2

LEMMA CmpImplements ==
  ASSUME IInv, RunsSound, step, cmp_handler
  PROVE  Implements
<1> DEFINE m == Advance(mem, 1)
           b == I16(Top(m))
           a == I16(Top(Pop(m)))
           r == Operand(mem, 1)
           d == Len(Slots)
           s == SubSeq(Slots, 1, d - 2)
           w == U16(a - b)
           n == SetReg(Pop(Pop(m)), imm, w)
           g == [Values EXCEPT ![imm] = I16(w)]
<1>0. Opcode = CMP BY DEF cmp_handler, Execute
<1>1. Home(loaded) BY AtInstruction
<1>2. Continues(T, Offset, 2, 2, -2) /\ Arg(P, Offset, 1) = sp
  BY <1>0, Rule, TypingRule
<1>3. /\ r = sp
      /\ Shows(m, Offset + 1, Slots, Values)
      /\ Offset + 2 \in DOMAIN T
  <2>1. 2 \in 1 .. 3 /\ 1 \in 1 .. 2 - 1 /\ 2 - 1 = 1 OBVIOUS
  <2> QED BY <1>2, <2>1, ShowsOperands
<1>4. mem' = Advance(n, 1) /\ UNCHANGED <<status, loaded, returnValue>>
  <2> DEFINE c == HasOperands(mem, 1) /\ (r = sp => CanPop(m, 2))
             e == IF r = sp THEN n ELSE m
  <2>1. Execute(CMP, c, e) BY DEF cmp_handler
  <2> HIDE DEF c, e
  <2>2. mem' = Advance(e, 1) /\ UNCHANGED <<status, loaded, returnValue>>
    BY <2>1, SoundTurn
  <2> QED BY <1>3, <2>2 DEF e
<1>5. Offset + 1 = Offset + (2 - 1) OBVIOUS
<1>6. Abstract!Nth(1) = sp BY <1>2, AtOpcode
<1>7. d >= 2 BY <1>2, ShowsOperands
<1>8. /\ Shows(Pop(Pop(m)), Offset + 1, s, Values)
      /\ b = Slots[d] /\ a = Slots[d - 1]
      /\ a \in Int16 /\ b \in Int16
  BY <1>1, <1>3, <1>7, ShowsPopTwo, I16Int
<1>9. w \in Word
  <2>1. a - b \in Int BY <1>8 DEF Int16
  <2> QED BY <2>1, U16Word
<1>10. imm \in General BY DEF imm, General, ret
<1>11. Shows(n, Offset + 1, s, g)
  <2> HIDE DEF w, s, m
  <2> QED BY <1>1, <1>8, <1>9, <1>10, ShowsRegister
<1>12. Abstract!Leaves(2, s, g) /\ Untouched
  <2> HIDE DEF n, s, g
  <2> QED BY <1>3, <1>4, <1>5, <1>11, TurnLeaves
<1>13. /\ Abstract!Top = b /\ Abstract!Second = a /\ Abstract!Drop(2) = s
       /\ g = Abstract!SetTo(imm, Abstract!Wrap(a - b))
  BY <1>8, SharedIsa
     DEF Abstract!Top, Abstract!Second, Abstract!Drop, Abstract!SetTo
<1>14. Abstract!Compare
  <2> HIDE DEF a, b, s, g, r
  <2> QED BY <1>0, <1>6, <1>12, <1>13, AtOpcode, SharedIsa DEF Abstract!Compare
<1> QED BY <1>12, <1>14 DEF Implements, Abstract!Instruction

LEMMA MovImplements ==
  ASSUME IInv, RunsSound, step, mov_handler
  PROVE  Implements
<1> DEFINE m == Advance(mem, 2)
           x == Operand(mem, 1)
           y == Operand(mem, 2)
           g == [Values EXCEPT ![x] = Values[y]]
<1>0. Opcode = MOV BY DEF mov_handler, Execute
<1>1. Home(loaded) BY AtInstruction
<1>2. Continues(T, Offset, 3, 0, 0)
      /\ {Arg(P, Offset, 1), Arg(P, Offset, 2)} \subseteq General
  BY <1>0, Rule, TypingRule
<1>3. /\ x = Arg(P, Offset, 1) /\ y = Arg(P, Offset, 2)
      /\ x \in General /\ y \in General
      /\ Shows(m, Offset + 2, Slots, Values)
      /\ Offset + 3 \in DOMAIN T
  <2>1. 3 \in 1 .. 3 /\ 1 \in 1 .. 3 - 1 /\ 2 \in 1 .. 3 - 1 /\ 3 - 1 = 2
    OBVIOUS
  <2> QED BY <1>2, <2>1, ShowsOperands
<1>4. Reg(m, y) \in Word /\ I16(Reg(m, y)) = Values[y]
  BY <1>3, GeneralRegister, RegInMemory, WordAtWord DEF Reg, Shows, Frame
<1>5. Shows(SetReg(m, x, Reg(m, y)), Offset + 2, Slots, g)
  BY <1>1, <1>3, <1>4, ShowsRegister
<1>6. /\ mem' = Advance(SetReg(m, x, Reg(m, y)), 1)
      /\ UNCHANGED <<status, loaded, returnValue>>
  BY SoundTurn DEF mov_handler
<1>7. Offset + 2 = Offset + (3 - 1) OBVIOUS
<1>8. Abstract!Leaves(3, Slots, g) /\ Untouched
  BY <1>3, <1>5, <1>6, <1>7, TurnLeaves
<1>9. Abstract!Move
  BY <1>0, <1>3, <1>8, AtOpcode, SharedIsa DEF Abstract!Move, Abstract!SetTo
<1> QED BY <1>8, <1>9 DEF Implements, Abstract!Instruction

LEMMA JumpLtImplements ==
  ASSUME IInv, RunsSound, step, jump_lt_handler
  PROVE  Implements
<1> DEFINE m == Advance(mem, 2)
           back == I16(OperandWord(mem))
           t == JumpTarget(P, Offset)
           n == Advance(m, -back)
<1>0. Opcode = JLT BY DEF jump_lt_handler, Execute
<1>1. Home(loaded) /\ Sound(loaded) BY AtInstruction
<1>2. Continues(T, Offset, 3, 0, 0) /\ t \in DOMAIN T
  BY <1>0, Rule, TypingRule
<1>3. /\ Shows(m, Offset + 2, Slots, Values)
      /\ Offset + 3 \in DOMAIN T
      /\ Operand(mem, 1) = Arg(P, Offset, 1)
      /\ Operand(mem, 2) = Arg(P, Offset, 2)
  <2>1. 3 \in 1 .. 3 /\ 1 \in 1 .. 3 - 1 /\ 2 \in 1 .. 3 - 1 /\ 3 - 1 = 2
    OBVIOUS
  <2> QED BY <1>2, <2>1, ShowsOperands
<1>4. /\ HasOperands(mem, 2)
      /\ mem' = Advance(IF I16(Reg(m, imm)) < 0 THEN n ELSE m, 1)
      /\ UNCHANGED <<status, loaded, returnValue>>
  <2> DEFINE e == IF I16(Reg(m, imm)) < 0 THEN n ELSE m
  <2>1. Execute(JLT, HasOperands(mem, 2), e) BY DEF jump_lt_handler
  <2> HIDE DEF e
  <2>2. /\ HasOperands(mem, 2) /\ mem' = Advance(e, 1)
        /\ UNCHANGED <<status, loaded, returnValue>>
    BY <2>1, SoundTurn
  <2> QED BY <2>2 DEF e
<1>5. I16(Reg(m, imm)) = Values[imm] BY <1>3 DEF Shows, imm, General, ret
<1>6. Offset + 2 = Offset + (3 - 1) OBVIOUS
<1>7. Offset \in Nat BY <1>2, NextInstruction
<1>8. CASE Values[imm] < 0
  <2>1. back \in Int /\ t = Offset + 3 - back
    <3>1. back = Literal(P, Offset) BY <1>3 DEF OperandWord, Literal
    <3>2. back \in Int
      BY <1>4, OperandWordWord, I16Int DEF Int16, IInv, TypeOK, Memory
    <3>3. t = Offset + 3 - back BY <3>1 DEF JumpTarget
    <3> QED BY <3>2, <3>3
  <2>2. t \in Nat /\ loaded.addrs + t - 1 \in Word /\ loaded.addrs \in Nat
    BY <1>1, <1>2, TypedOffset DEF Home
  <2>3. /\ loaded.addrs + (Offset + 2) + (-back) \in Word
        /\ (Offset + 2) + (-back) = Offset + ((t - Offset) - 1)
        /\ Offset + (t - Offset) = t
        /\ t - Offset \in Int /\ Offset + 2 \in Int /\ -back \in Int
    <3> HIDE DEF back, t
    <3> QED BY <1>7, <2>1, <2>2
  <2>4. Shows(n, Offset + ((t - Offset) - 1), Slots, Values)
    <3>1. Shows(n, (Offset + 2) + (-back), Slots, Values)
      <4> HIDE DEF back
      <4> QED BY <1>1, <1>3, <2>3, ShowsAdvance
    <3> QED BY <2>3, <3>1
  <2>5. mem' = Advance(n, 1) BY <1>4, <1>5, <1>8
  <2>6. Abstract!Leaves(t - Offset, Slots, Values) /\ Untouched
    <3>1. Offset + (t - Offset) \in DOMAIN T BY <1>2, <2>3
    <3> HIDE DEF t, n
    <3> QED BY <1>4, <2>3, <2>4, <2>5, <3>1, TurnLeaves
  <2>7. Abstract!JumpIfLess
    BY <1>0, <1>8, <2>6, AtOpcode, SharedIsa DEF Abstract!JumpIfLess, P
  <2> QED BY <2>6, <2>7 DEF Implements, Abstract!Instruction
<1>9. CASE ~(Values[imm] < 0)
  <2>1. mem' = Advance(m, 1) BY <1>4, <1>5, <1>9
  <2>2. Abstract!Leaves(3, Slots, Values) /\ Untouched
    BY <1>3, <1>4, <1>6, <2>1, TurnLeaves
  <2>3. Abstract!JumpIfLess
    BY <1>0, <1>9, <2>2, AtOpcode, SharedIsa DEF Abstract!JumpIfLess
  <2> QED BY <2>2, <2>3 DEF Implements, Abstract!Instruction
<1> QED BY <1>8, <1>9

LEMMA ReturnImplements ==
  ASSUME IInv, RunsSound, return_handler
  PROVE  Implements
<1> DEFINE f == Reg(mem, fp)
           m1 == SetReg(mem, pc, U16(f - 1))
           m == SetReg(m1, sp, f)
<1>1. Home(loaded) /\ mem \in Memory /\ Shows(mem, Offset, Slots, Values)
  BY StartShows
<1>2. /\ Opcode = RET /\ loaded' = loaded /\ status' = "returned"
      /\ returnValue' = I16(Reg(mem, ret)) /\ mem' = Advance(m, 1)
  BY DEF return_handler
<1>3. f \in Word /\ U16(f - 1) \in Word
  <2>1. f = loaded.stack BY <1>1 DEF Shows, Frame
  <2>2. f \in Word /\ f - 1 \in Int BY <1>1, <2>1 DEF Home, Word
  <2> QED BY <2>2, U16Word
<1>4. /\ m1 \in Memory /\ \A q \in General : Reg(m1, q) = Reg(mem, q)
      /\ \A a \in Addr : a >= 32 => m1[a] = mem[a]
  <2>1. pc \in Int BY DEF pc
  <2> QED BY <1>1, <1>3, <2>1, SpecialRegister, SetRegType
<1>5. /\ m \in Memory /\ \A q \in General : Reg(m, q) = Reg(m1, q)
      /\ \A a \in Addr : a >= 32 => m[a] = m1[a]
  <2>1. sp \in Int BY DEF sp
  <2> HIDE DEF m1
  <2> QED BY <1>1, <1>3, <1>4, <2>1, SpecialRegister, SetRegType
<1>6. /\ \A q \in General : Reg(mem', q) = Reg(m, q)
      /\ \A a \in Addr : a >= 32 => mem'[a] = m[a]
  <2> HIDE DEF m
  <2>1. mem' = SetReg(m, pc, MovedTo(m, pc, 1)) BY <1>2 DEF Advance, MovedTo
  <2>2. MovedTo(m, pc, 1) \in Word BY <1>5, MovedToWord DEF pc
  <2> QED BY <1>1, <1>5, <2>1, <2>2, SpecialRegister
<1>7. Values' = Values BY <1>4, <1>5, <1>6 DEF Values
<1>8. Untouched BY <1>4, <1>5, <1>6 DEF Untouched, Addr
<1>9. ~RunsSound' /\ Mode' = "returned"
  BY <1>2 DEF RunsSound, Mode, Sound
<1>10. Place' = 0 /\ Slots' = <<>> BY <1>9 DEF Place, Slots
<1>11. returnValue' = Values[ret] BY <1>2 DEF Values, General, ret, imm
<1>12. Abstract!Return
  BY <1>2, <1>7, <1>9, <1>10, <1>11, AtOpcode, SharedIsa
     DEF Abstract!Return, Abstract!Stops
<1> QED BY <1>8, <1>12 DEF Implements, Abstract!Instruction

LEMMA TrapImplements ==
  ASSUME IInv, RunsSound, DivideByZero
  PROVE  Implements
<1>1. /\ Opcode = DIV /\ I16(Top(mem)) = 0 /\ status' = "divzero"
      /\ UNCHANGED <<mem, returnValue, loaded>>
  BY DEF DivideByZero
<1>2. Shows(mem, Offset, Slots, Values) /\ Home(loaded) BY StartShows
<1>3. Len(Slots) >= 1
  <2>1. Continues(T, Offset, 1, 2, -1) BY <1>1, Rule, TypingRule DEF Binary
  <2>2. Len(Slots) >= 2 BY <2>1, ShowsOperands
  <2>3. Len(Slots) \in Nat BY <1>2, LenProperties DEF Shows
  <2> QED BY <2>2, <2>3
<1>4. Abstract!Top = 0 BY <1>1, <1>2, <1>3, ShowsPop DEF Abstract!Top
<1>5. ~RunsSound' /\ Mode' = "divzero" /\ Values' = Values
  BY <1>1 DEF RunsSound, Mode, Sound, Values
<1>6. Place' = 0 /\ Slots' = <<>> BY <1>5 DEF Place, Slots
<1>7. Abstract!Trap
  BY <1>1, <1>4, <1>5, <1>6, AtOpcode, SharedIsa
     DEF Abstract!Trap, Abstract!Stops
<1>8. Untouched BY <1>1 DEF Untouched
<1> QED BY <1>7, <1>8 DEF Implements, Abstract!Instruction

\* Whatever a sound program's step is, it implements an instruction.
LEMMA SoundImplements ==
  ASSUME IInv, RunsSound, step
  PROVE  Implements
<1>0. /\ Opcode \in Handled /\ Opcode \notin {JNZ, JEQ, JGT}
      /\ Fetched
  BY AtInstruction, TypedOffset, TypingRule
<1>1. CASE push_handler \/ push_reg_handler BY <1>1, PushImplements
<1>2. CASE push_literal_handler BY <1>2, PushLiteralImplements
<1>3. CASE pop_reg_handler BY <1>3, PopRegImplements
<1>4. CASE peek_handler BY <1>4, PeekImplements
<1>5. CASE peek_offset_handler BY <1>5, PeekOffsetImplements
<1>6. CASE \E op \in Binary : binary_stack_expression(op)
  BY <1>6, BinaryImplements
<1>7. CASE inc_handler \/ dec_handler BY <1>7, CountImplements
<1>8. CASE cmp_handler BY <1>8, CmpImplements
<1>9. CASE mov_handler BY <1>9, MovImplements
<1>10. CASE jump_eq_handler \/ jump_nz_handler \/ jump_gt_handler
  BY <1>0, <1>10
     DEF jump_eq_handler, jump_nz_handler, jump_gt_handler, Execute
<1>11. CASE jump_lt_handler BY <1>11, JumpLtImplements
<1>12. CASE return_handler BY <1>12, ReturnImplements
<1>13. CASE DivideByZero BY <1>13, TrapImplements
<1>14. CASE NoHandler BY <1>0, <1>14 DEF NoHandler
<1>15. CASE BadFetch BY <1>0, <1>15 DEF BadFetch
<1> QED BY <1>1, <1>2, <1>3, <1>4, <1>5, <1>6, <1>7, <1>8, <1>9, <1>10,
           <1>11, <1>12, <1>13, <1>14, <1>15 DEF step, Handle

-----------------------------------------------------------------------------
(* The other steps.                                                        *)

\* Writing pc, bp, sp and fp leaves the program's registers and everything
\* above the registers alone.
LEMMA FramedKeeps ==
  ASSUME NEW m \in Memory, NEW x \in Word, NEW y \in Word
  PROVE  /\ \A q \in General : Reg(Framed(m, x, y), q) = Reg(m, q)
         /\ \A a \in Addr : a >= 32 => Framed(m, x, y)[a] = m[a]
<1>1. ASSUME NEW n \in Memory, NEW r \in {pc, bp, sp, fp}, NEW w \in Word
      PROVE  /\ SetReg(n, r, w) \in Memory
             /\ \A q \in General : Reg(SetReg(n, r, w), q) = Reg(n, q)
             /\ \A a \in Addr : a >= 32 => SetReg(n, r, w)[a] = n[a]
  <2>1. r \in 0 .. 15 /\ r \in Int BY DEF pc, bp, sp, fp
  <2>2. \A q \in General : q \in 0 .. 15 /\ r # q BY GeneralRegister
  <2> QED BY <2>1, <2>2, SetRegType, SetRegOther, SetRegAbove
<1> DEFINE m1 == SetReg(m, pc, x)
           m2 == SetReg(m1, bp, x)
           m3 == SetReg(m2, sp, y)
           m4 == SetReg(m3, fp, y)
<1>2. /\ m1 \in Memory /\ \A q \in General : Reg(m1, q) = Reg(m, q)
      /\ \A a \in Addr : a >= 32 => m1[a] = m[a]
  BY <1>1
<1>3. /\ m2 \in Memory /\ \A q \in General : Reg(m2, q) = Reg(m1, q)
      /\ \A a \in Addr : a >= 32 => m2[a] = m1[a]
  <2> HIDE DEF m1
  <2> QED BY <1>1, <1>2
<1>4. /\ m3 \in Memory /\ \A q \in General : Reg(m3, q) = Reg(m2, q)
      /\ \A a \in Addr : a >= 32 => m3[a] = m2[a]
  <2> HIDE DEF m2
  <2> QED BY <1>1, <1>3
<1>5. /\ m4 \in Memory /\ \A q \in General : Reg(m4, q) = Reg(m3, q)
      /\ \A a \in Addr : a >= 32 => m4[a] = m3[a]
  <2> HIDE DEF m3
  <2> QED BY <1>1, <1>4
<1>6. Framed(m, x, y) = m4 BY DEF Framed
<1> HIDE DEF m1, m2, m3, m4
<1> QED BY <1>2, <1>3, <1>4, <1>5, <1>6

\* load_program leaves the program's registers, and the texts loaded before.
LEMMA LoadKeeps ==
  ASSUME TypeOK, NEW p \in Programs, Load(p)
  PROVE  /\ Values' = Values
         /\ \A a \in (2 * reg_cnt) .. (allocPointer - 1) : mem'[a] = mem[a]
<1> DEFINE fits == allocPointer + Len(p) <= MemSize
           n == IF fits THEN Copied(mem, p, allocPointer) ELSE mem
<1>1. mem \in Memory /\ allocPointer \in Nat /\ allocPointer >= 32
      /\ allocPointer <= MemSize /\ Len(p) \in Nat
  BY ProgramBytes, MemSizeAssumption DEF TypeOK, Memory, reg_cnt
<1>2. n \in Memory BY <1>1, CopiedType
<1>3. mem' = Framed(n, Placed(p), StackFor(p)) BY DEF Load
<1>4. Placed(p) \in Word /\ StackFor(p) \in Word BY PlacedInMemory
<1>5. \A a \in Addr : a < allocPointer => n[a] = mem[a]
  <2> TAKE a \in Addr
  <2> HAVE a < allocPointer
  <2>1. a \notin allocPointer .. allocPointer + Len(p) - 1 BY <1>1
  <2> QED BY <2>1 DEF Copied
<1>6. \A q \in General : Reg(n, q) = Reg(mem, q)
  <2> TAKE q \in General
  <2>1. 2 * q \in Addr /\ (2 * q) + 1 \in Addr
    BY GeneralRegister, RegInMemory
  <2>2. 2 * q < allocPointer /\ (2 * q) + 1 < allocPointer
    <3>1. q \in 0 .. 15 BY GeneralRegister
    <3>2. 2 * q < 32 /\ (2 * q) + 1 < 32 /\ 2 * q \in Int BY <3>1
    <3> QED BY <1>1, <3>2
  <2>3. n[2 * q] = mem[2 * q] /\ n[(2 * q) + 1] = mem[(2 * q) + 1]
    <3> HIDE DEF n
    <3> QED BY <1>5, <2>1, <2>2
  <2> HIDE DEF n
  <2> QED BY <2>3 DEF Reg, WordAt
<1> HIDE DEF n
<1>7. /\ \A q \in General : Reg(mem', q) = Reg(n, q)
      /\ \A a \in Addr : a >= 32 => mem'[a] = n[a]
  BY <1>2, <1>3, <1>4, FramedKeeps
<1>8. Values' = Values BY <1>6, <1>7 DEF Values
<1>9. \A a \in (2 * reg_cnt) .. (allocPointer - 1) : mem'[a] = mem[a]
  <2> TAKE a \in (2 * reg_cnt) .. (allocPointer - 1)
  <2>1. a \in Addr /\ a >= 32 /\ a < allocPointer
    BY <1>1, MemSizeAssumption DEF Addr, reg_cnt
  <2> QED BY <1>5, <1>7, <2>1
<1> QED BY <1>8, <1>9

LEMMA LoadImplements ==
  ASSUME IInv, NEW p \in Programs, Load(p)
  PROVE  Abstract!Load(p)
<1>1. /\ loaded'.prog = p /\ status' = "running"
      /\ returnValue' = returnValue /\ status \in {"idle", "returned"}
  BY DEF Load
<1>2. Values' = Values BY LoadKeeps DEF IInv
<1>3. Mode \in {"idle", "returned", "wild"} BY <1>1 DEF Mode
<1>4. CASE Sound(loaded')
  <2>1. Home(loaded') /\ Frame(mem', loaded', 0, 0)
    BY <1>4, LoadFrame DEF Sound, IInv
  <2>2. RunsSound' BY <1>1, <1>4 DEF RunsSound, Sound
  <2>3. Offset' = 0 /\ FrameDepth' = 0
    BY <2>1 DEF Offset, FrameDepth, Frame, Home
  <2>4. Place' = 0 BY <2>2, <2>3 DEF Place
  <2>5. Slots' = <<>>
    <3>1. Slots' = [i \in 1 .. 0 |-> I16(SlotWord(mem, i)')]
      BY <2>2, <2>3 DEF Slots
    <3> QED BY <3>1
  <2>6. Mode' = "running" BY <1>1, <1>4 DEF Mode, Sound
  <2>7. p \in DOMAIN Typing BY <1>1, <1>4 DEF Sound, Typed
  <2> QED BY <1>1, <1>2, <1>3, <2>4, <2>5, <2>6, <2>7
          DEF Abstract!Load, Abstract!Loaded
<1>5. CASE ~Sound(loaded')
  <2>1. ~RunsSound' /\ Mode' = "wild"
    BY <1>1, <1>5 DEF RunsSound, Mode, Sound
  <2>2. Place' = 0 /\ Slots' = <<>> BY <2>1 DEF Place, Slots
  <2> QED BY <1>1, <1>2, <1>3, <2>1, <2>2 DEF Abstract!Load, Abstract!Loaded
<1> QED BY <1>4, <1>5

\* No step of execute() returns to where nothing was loaded.
LEMMA StepEnds ==
  ASSUME step
  PROVE  status' # "idle" /\ allocPointer' = allocPointer
BY DEF step, Handle, push_handler, push_reg_handler, PushReg,
       push_literal_handler, pop_reg_handler, peek_handler,
       peek_offset_handler, binary_stack_expression, inc_handler, dec_handler,
       IncDec, cmp_handler, mov_handler, jump_eq_handler, jump_nz_handler,
       jump_gt_handler, jump_lt_handler, return_handler, DivideByZero,
       NoHandler, BadFetch, Execute

\* What a program that is not sound does, the abstract machine may do.
LEMMA WildImplements ==
  ASSUME IInv, step, ~Sound(loaded)
  PROVE  Abstract!Wild
<1>1. /\ status = "running" /\ loaded' = loaded /\ status' # "idle"
      /\ TypeOK'
  BY StepRuns, StepEnds, StepInvariant DEF IInv
<1>2. ~Sound(loaded)' BY <1>1
<1>3. Mode = "wild" /\ Mode' = "wild" BY <1>1, <1>2 DEF Mode
<1>4. Place = 0 /\ Place' = 0 /\ Slots = <<>> /\ Slots' = <<>>
  BY <1>2 DEF Place, Slots, RunsSound
<1>5. \A r \in General : I16(Reg(mem', r)) \in Int16
  <2>1. mem' \in Memory BY <1>1 DEF TypeOK, Memory, Addr
  <2> TAKE r \in General
  <2>2. Reg(mem', r) \in Word
    BY <2>1, GeneralRegister, RegInMemory, WordAtWord DEF Reg
  <2> QED BY <2>2, I16Int
<1>6. Values' \in [General -> Int16] BY <1>5 DEF Values
<1>7. returnValue' \in Int16 BY <1>1 DEF TypeOK
<1> QED BY <1>1, <1>3, <1>4, <1>6, <1>7, SharedIsa DEF Abstract!Wild

-----------------------------------------------------------------------------
(* The theorems.                                                           *)

\* Every behaviour of the machine on bytes, with every program and whatever
\* the allocator left in memory, is one of the machine on numbers.
THEOREM Refines == Spec => ImplementsStackMachine
<1>1. Init => Abstract!Init
  <2> SUFFICES ASSUME Init PROVE Abstract!Init OBVIOUS
  <2>1. /\ loaded.prog = <<>> /\ status = "idle" /\ returnValue = 0
    BY DEF Init
  <2>2. Place = 0 /\ Slots = <<>> /\ Mode = "idle"
    BY <2>1 DEF Place, Slots, Mode, RunsSound
  <2>3. Values = [r \in General |-> 0]
    <3>1. PICK f \in Fills :
            mem = [a \in Addr |-> IF a < 2 * reg_cnt THEN 0 ELSE f]
      BY DEF Init
    <3>2. \A r \in General : Reg(mem, r) = 0
      <4> TAKE r \in General
      <4>1. r \in 0 .. 15 /\ 2 * r \in Addr /\ (2 * r) + 1 \in Addr
        BY GeneralRegister, RegInMemory
      <4>2. 2 * r < 2 * reg_cnt /\ (2 * r) + 1 < 2 * reg_cnt
        BY <4>1 DEF reg_cnt
      <4>3. mem[2 * r] = 0 /\ mem[(2 * r) + 1] = 0 BY <3>1, <4>1, <4>2
      <4> QED BY <4>3 DEF Reg, WordAt
    <3> QED BY <3>2 DEF Values, I16
  <2> QED BY <2>1, <2>2, <2>3, SharedIsa DEF Abstract!Init
<1>2. IInv /\ [Next]_vars => [Abstract!ANext]_(Abstract!avars)
  <2> SUFFICES ASSUME IInv, [Next]_vars
               PROVE  [Abstract!ANext]_(Abstract!avars)
    OBVIOUS
  <2>1. CASE step
    <3>1. status = "running" BY <2>1, StepRuns
    <3>2. CASE Sound(loaded)
      <4>1. RunsSound BY <3>1, <3>2 DEF RunsSound
      <4> QED BY <2>1, <4>1, SoundImplements DEF Implements, Abstract!ANext
    <3>3. CASE ~Sound(loaded)
      BY <2>1, <3>3, WildImplements DEF Abstract!ANext
    <3> QED BY <3>2, <3>3
  <2>2. CASE \E p \in Programs : Load(p)
    BY <2>2, LoadImplements DEF Abstract!ANext
  <2>3. CASE UNCHANGED vars
    <3>1. UNCHANGED <<mem, loaded, status, returnValue>> BY <2>3 DEF vars
    <3>2. Sound(loaded)' = Sound(loaded) BY <3>1
    <3>3. UNCHANGED <<RunsSound, Offset, FrameDepth, Values, Mode>>
      BY <3>1, <3>2 DEF RunsSound, Offset, FrameDepth, Values, Mode, Sound
    <3>4. UNCHANGED <<Place, Slots>>
      BY <3>1, <3>3 DEF Place, Slots, SlotWord
    <3> QED BY <3>1, <3>3, <3>4 DEF Abstract!avars
  <2> QED BY <2>1, <2>2, <2>3 DEF Next
<1> QED BY <1>1, <1>2, Invariance, PTL
        DEF Spec, ImplementsStackMachine, Abstract!ASpec

\* The last program loaded lies right below the allocation pointer.
Adjacent ==
  loaded.addrs >= 32 => allocPointer = loaded.addrs + Len(loaded.prog)

LEMMA LastLoaded == Spec => []Adjacent
<1>1. Init => Adjacent BY DEF Init, Adjacent
<1>2. IInv /\ Adjacent /\ [Next]_vars => Adjacent'
  <2> SUFFICES ASSUME IInv, Adjacent, [Next]_vars PROVE Adjacent' OBVIOUS
  <2>1. CASE step BY <2>1, StepRuns, StepEnds DEF Adjacent
  <2>2. CASE \E p \in Programs : Load(p)
    <3>1. PICK p \in Programs : Load(p) BY <2>2
    <3>2. SUFFICES ASSUME loaded'.addrs >= 32 PROVE Adjacent' BY DEF Adjacent
    <3>3. /\ loaded' = [prog |-> p, addrs |-> allocPointer, stack |-> StackFor(p)]
          /\ allocPointer' = allocPointer + Len(p)
      BY <3>1, <3>2, LoadHome DEF IInv, reg_cnt
    <3> QED BY <3>3 DEF Adjacent
  <2>3. CASE UNCHANGED vars BY <2>3 DEF vars, Adjacent
  <2> QED BY <2>1, <2>2, <2>3 DEF Next
<1> QED BY <1>1, <1>2, Invariance, PTL DEF Spec

\* Neither a load nor a sound program writes to a text that is in memory.
THEOREM TextsStay == Spec => ResidentText
<1>1. IInv /\ Adjacent /\ [Next]_vars =>
        [status # "running" \/ Sound(loaded) =>
           \A a \in (2 * reg_cnt) .. (allocPointer - 1) : mem'[a] = mem[a]]_vars
  <2> SUFFICES ASSUME IInv, Adjacent, Next, status # "running" \/ Sound(loaded),
                      NEW a \in (2 * reg_cnt) .. (allocPointer - 1)
               PROVE  mem'[a] = mem[a]
    BY DEF vars
  <2>1. CASE step
    <3>1. RunsSound BY <2>1, StepRuns DEF RunsSound
    <3>2. Untouched BY <2>1, <3>1, SoundImplements DEF Implements
    <3>3. Home(loaded) BY <3>1, AtInstruction
    <3>4. loaded.addrs + Len(loaded.prog) = allocPointer
      BY <3>3 DEF Adjacent, Home
    <3>5. allocPointer \in Nat /\ allocPointer <= MemSize
          /\ allocPointer <= loaded.stack /\ loaded.stack \in Nat
      BY <3>3, <3>4, ProgramBytes DEF Home
    <3>6. a \in Addr /\ 32 <= a /\ a < loaded.stack
      BY <3>5, MemSizeAssumption DEF Addr, reg_cnt
    <3> QED BY <3>2, <3>6 DEF Untouched
  <2>2. CASE \E p \in Programs : Load(p) BY <2>2, LoadKeeps DEF IInv
  <2> QED BY <2>1, <2>2 DEF Next
<1> QED BY <1>1, LastLoaded, Invariance, PTL DEF Spec, ResidentText

-----------------------------------------------------------------------------
(* The shell shows a sound program's stack as its instructions see it.    *)

\* Twice a small depth, as the shell halves it.
LEMMA Halves ==
  ASSUME NEW d \in Nat, NEW s \in Nat, s + (2 * d) < 65536
  PROVE  /\ U16((s + (2 * d)) - s) \div 2 = d
         /\ (IF s + (2 * d) > s THEN ((s + (2 * d)) - s + 1) \div 2 ELSE 0) = d
<1>1. (s + (2 * d)) - s = 2 * d /\ 2 * d \in Word BY DEF Word
<1>2. U16(2 * d) = 2 * d BY <1>1, U16Word DEF Word
<1>3. (2 * d) \div 2 = d /\ (2 * d + 1) \div 2 = d OBVIOUS
<1>4. s + (2 * d) > s <=> d > 0 OBVIOUS
<1>5. ~(d > 0) => d = 0 OBVIOUS
<1> QED BY <1>1, <1>2, <1>3, <1>4, <1>5

\* The k-th line of the shell is the slot d - k of the d there are.
LEMMA Lines ==
  ASSUME IInv, RunsSound
  PROVE  LET d == T[Offset]
         IN  /\ d \in Nat /\ FrameDepth = d
             /\ DOMAIN PrintStack = 1 .. d
             /\ \A k \in 1 .. d :
                  LET a == loaded.stack + (2 * (d - k))
                  IN  /\ PrintStack[k].offset = d - k
                      /\ PrintStack[k].value = I16(256 * mem[a + 1] + mem[a])
<1> DEFINE d == T[Offset]
           s == loaded.stack
<1>1. /\ Home(loaded) /\ Sound(loaded) /\ Offset \in DOMAIN T
      /\ Frame(mem, loaded, Offset, d)
  BY AtInstruction
<1>2. d \in Nat /\ s \in Nat /\ s + (2 * d) <= MemSize
  BY <1>1, TypedOffset DEF Home
<1>3. Reg(mem, sp) = s + (2 * d) /\ Reg(mem, fp) = s BY <1>1 DEF Frame
<1> HIDE DEF d, s
<1>4. s + (2 * d) < 65536 BY <1>2, MemSizeAssumption
<1>5. /\ \A k : ShownOffset(k) = d - k
      /\ (IF Reg(mem, sp) > Reg(mem, fp)
            THEN (Reg(mem, sp) - Reg(mem, fp) + 1) \div 2 ELSE 0) = d
  <2>1. /\ U16((s + (2 * d)) - s) \div 2 = d
        /\ (IF s + (2 * d) > s THEN ((s + (2 * d)) - s + 1) \div 2 ELSE 0) = d
    BY <1>2, <1>4, Halves
  <2>2. U16(Reg(mem, sp) - Reg(mem, fp)) \div 2 = d BY <1>3, <2>1
  <2>3. \A k : ShownOffset(k) = d - k
    <3> DEFINE h == U16(Reg(mem, sp) - Reg(mem, fp)) \div 2
    <3>1. \A k : ShownOffset(k) = h - k BY DEF ShownOffset
    <3> HIDE DEF h
    <3>2. h = d BY <2>2 DEF h
    <3> QED BY <3>1, <3>2
  <2> QED BY <1>3, <2>1, <2>3
<1>6. FrameDepth = d
  <2>1. Reg(mem, sp) - s = 2 * d BY <1>2, <1>3
  <2>2. (2 * d) \div 2 = d BY <1>2
  <2> QED BY <2>1, <2>2 DEF FrameDepth, s
<1>7. PrintStack =
        [k \in 1 .. d |->
           [offset |-> d - k,
            value |-> I16((256 * mem[(s + (2 * d)) - 2 * k + 1])
                          + mem[(s + (2 * d)) - 2 * k])]]
  BY <1>3, <1>5 DEF PrintStack
<1>8. \A k \in 1 .. d : /\ (s + (2 * d)) - 2 * k = s + (2 * (d - k))
                        /\ (s + (2 * d)) - 2 * k + 1 = s + (2 * (d - k)) + 1
  BY <1>2
<1>9. \A k \in 1 .. d :
        /\ PrintStack[k].offset = d - k
        /\ PrintStack[k].value = I16(256 * mem[s + (2 * (d - k)) + 1]
                                     + mem[s + (2 * (d - k))])
  BY <1>7, <1>8
<1>10. DOMAIN PrintStack = 1 .. d BY <1>7
<1> QED BY <1>2, <1>6, <1>9, <1>10 DEF d, s

\* Whatever program runs soundly, the shell lists each of its stack's slots
\* once, under the offset its instructions use and with the number they read.
THEOREM ShowsTheStack == Spec => []ShownStack
<1>1. IInv => ShownStack
  <2> SUFFICES ASSUME IInv, RunsSound
               PROVE  /\ {PrintStack[k].offset : k \in DOMAIN PrintStack}
                           = 0 .. FrameDepth - 1
                      /\ \A k \in DOMAIN PrintStack :
                           PrintStack[k].value =
                             I16(WordAt(mem, SlotAddr(Reg(mem, fp),
                                                      PrintStack[k].offset)))
    BY DEF ShownStack
  <2> DEFINE d == T[Offset]
  <2>1. /\ Home(loaded) /\ Sound(loaded) /\ Offset \in DOMAIN T
        /\ Frame(mem, loaded, Offset, d)
    BY AtInstruction
  <2>2. d \in Nat /\ loaded.stack + (2 * d) <= MemSize
    BY <2>1, TypedOffset
  <2>3. /\ FrameDepth = d
        /\ DOMAIN PrintStack = 1 .. d
        /\ \A k \in 1 .. d : PrintStack[k].offset = d - k
    BY Lines
  <2>4. {PrintStack[k].offset : k \in DOMAIN PrintStack} = 0 .. FrameDepth - 1
    <3> HIDE DEF d
    <3>1. \A k \in 1 .. d : d - k \in 0 .. d - 1 BY <2>2
    <3>2. \A i \in 0 .. d - 1 : d - i \in 1 .. d /\ d - (d - i) = i BY <2>2
    <3>3. \A i \in 0 .. d - 1 : PrintStack[d - i].offset = i BY <2>3, <3>2
    <3> QED BY <2>3, <3>1, <3>2, <3>3
  <2>5. ASSUME NEW k \in 1 .. d
        PROVE  PrintStack[k].value =
                 I16(WordAt(mem, SlotAddr(Reg(mem, fp), PrintStack[k].offset)))
    <3>1. d - k \in Nat /\ d - k < d
      <4> HIDE DEF d
      <4> QED BY <2>2
    <3>2. SlotAddr(Reg(mem, fp), d - k) = loaded.stack + (2 * (d - k))
      <4> HIDE DEF d
      <4> QED BY <2>1, <2>2, <3>1, SlotInFrame
    <3>3. PrintStack[k].value = I16(256 * mem[loaded.stack + (2 * (d - k)) + 1]
                                    + mem[loaded.stack + (2 * (d - k))])
      BY Lines
    <3>4. /\ mem[loaded.stack + (2 * (d - k)) + 1] \in Int
          /\ mem[loaded.stack + (2 * (d - k))] \in Int
      <4>1. /\ loaded.stack + (2 * (d - k)) \in Addr
            /\ loaded.stack + (2 * (d - k)) + 1 \in Addr
        <5> HIDE DEF d
        <5> QED BY <2>1, <2>2, <3>1, StackWord
      <4> QED BY <2>1, <4>1 DEF Frame, Memory, Byte
    <3>5. WordAt(mem, loaded.stack + (2 * (d - k)))
            = 256 * mem[loaded.stack + (2 * (d - k)) + 1]
              + mem[loaded.stack + (2 * (d - k))]
      BY <3>4 DEF WordAt
    <3> HIDE DEF d
    <3> QED BY <2>3, <3>2, <3>3, <3>5
  <2> QED BY <2>3, <2>4, <2>5
<1> QED BY <1>1, Invariance, PTL

=============================================================================
