------------------------- MODULE CodeGeneratorProofs -------------------------
(***************************************************************************)
(* Proofs about the code generator, for every tree: its tables stay        *)
(* typed, and what it generates can be read, from the first byte, as the   *)
(* instructions it meant.                                                  *)
(***************************************************************************)
EXTENDS CodeGenerator, SequenceTheorems, TLAPS

-----------------------------------------------------------------------------
(* The invariant.  TypeOK is not inductive: an activation relies on the    *)
(* class of its node (Suits).  Boundaries is not either: an instruction    *)
(* keeps its length only if the bytes that decide it are there and are not *)
(* patched, which leaves the operand of the JMP in front, and the calls of *)
(* functions no table will ever name.                                      *)

\* What an activation's function takes its node for.
Suits(a) ==
  LET IsA(types) == a.node # 0 /\ ast[a.node].type \in types
  IN  /\ a.function = "generateScope" =>
           IsA({"PROGRAM", "WHILE"}) /\ a.at >= 1
      /\ a.function \in {"generateReturnStatement", "emitReturn"} =>
           IsA({"RETURN"})
      /\ a.function = "generateLetStatement" => IsA({"LET"})
      /\ a.function \in {"generateWhileStatement", "closeLoop"} => IsA({"WHILE"})
      /\ a.function = "generateOperator" => IsA({"BINARY_EXPRESSION"})

Activations ==
  {a \in [function : FunctionNames, node : Ref(ast), reg : {sp, ret}, at : Nat] :
     Suits(a)}

TablesOK ==
  /\ DOMAIN identifiers \subseteq Names
  /\ \A x \in DOMAIN identifiers : identifiers[x] \in Byte
  /\ DOMAIN unresolvedCalls \subseteq Names \ {"main"}
  /\ \A x \in DOMAIN unresolvedCalls : unresolvedCalls[x] \subseteq Byte
  /\ registers \in [0 .. reg_cnt - 1 -> Names \cup {"none"}]

\* The opcodes the generator emits.
Emitted == {PSH_LIT, MOV, PEK_OFF, JLT, JMP, INC, DEC, POP_REG, CMP, RET, HALT}
             \cup Binary

\* The instruction at o of code is complete, and of a form the generator has.
Meant(code, o) ==
  LET op == code[o + 1]
  IN  /\ op \in Emitted
      /\ o + LengthAt(code, o) <= Len(code)
      /\ op \in {INC, DEC, CMP} => code[o + 2] = sp
      /\ op = JMP => code[o + 2] = 0 /\ code[o + 3] \in {0, 1}

\* code is the instructions that start at st.
CodeOK(code, st) ==
  /\ code \in Seq(Byte)
  /\ Len(code) = 0 \/ Len(code) >= 3
  /\ \A o \in st :
       /\ o \in Nat /\ o < Len(code)
       /\ o = 0 \/ o >= 3
       /\ Meant(code, o)
       /\ o + LengthAt(code, o) \in st \cup {Len(code)}
       /\ \A p \in st : p <= o \/ p >= o + LengthAt(code, o)

\* generateCode has been called, or it has not.
Begun ==
  IF status = "idle"
  THEN /\ functions = <<>> /\ bytecode = <<>> /\ starts = {}
  ELSE /\ functions = [x \in {"main"} |-> MainAddress]
       /\ 0 \in starts /\ bytecode[1] = JMP

GInv ==
  /\ IsTree(ast)
  /\ stackSize \in Word
  /\ status \in {"idle", "generating", "generated", "undefined"}
  /\ printed \subseteq Messages
  /\ before \in Seq(Byte)
  /\ TablesOK
  /\ calls \in Seq(Activations)
  /\ CodeOK(bytecode, starts)
  /\ Begun

-----------------------------------------------------------------------------
(* Instructions.                                                           *)

\* A length is read from the opcode, and from the register behind INC and DEC.
LEMMA SameLength ==
  ASSUME NEW c, NEW o, NEW d, NEW p, c[o + 1] = d[p + 1],
         c[o + 1] \in {INC, DEC} => c[o + 2] = d[p + 2]
  PROVE  LengthAt(c, o) = LengthAt(d, p)
BY DEF LengthAt

LEMMA Lengths ==
  ASSUME NEW c, NEW o
  PROVE  /\ LengthAt(c, o) \in 1 .. 3
         /\ c[o + 1] \in {INC, DEC, JMP} /\ Meant(c, o) => LengthAt(c, o) = 3
         /\ c[o + 1] = CMP => LengthAt(c, o) = 2
BY DEF LengthAt, Meant, PSH_LIT, MOV, PEK_OFF, JLT, JMP, INC, DEC, POP_REG,
       PEK_REG, PSH_REG, CMP, sp

\* An instruction that is meant is so wherever its bytes are found.
LEMMA MeantAlike ==
  ASSUME NEW c, NEW o \in Nat, NEW d, NEW p \in Nat, Meant(c, o),
         p + LengthAt(c, o) <= Len(d),
         d[p + 1] = c[o + 1],
         LengthAt(c, o) >= 2 => d[p + 2] = c[o + 2],
         LengthAt(c, o) >= 3 => d[p + 3] = c[o + 3]
  PROVE  Meant(d, p) /\ LengthAt(d, p) = LengthAt(c, o)
<1> DEFINE op == c[o + 1]
           k == LengthAt(c, o)
<1>1. /\ k \in 1 .. 3
      /\ op \in {INC, DEC, JMP} => k = 3
      /\ op = CMP => k = 2
  BY Lengths
<1>2. op \in {INC, DEC, CMP, JMP} => d[p + 2] = c[o + 2] BY <1>1
<1>3. op = JMP => d[p + 3] = c[o + 3] BY <1>1
<1>4. LengthAt(d, p) = k BY <1>2, SameLength
<1> QED BY <1>2, <1>3, <1>4 DEF Meant

\* A whole instruction.
Whole(i) == i \in Seq(Byte) /\ Meant(i, 0) /\ LengthAt(i, 0) = Len(i)

LEMMA AppendInstruction ==
  ASSUME NEW c, NEW st, CodeOK(c, st), NEW i, Whole(i),
         c = <<>> => Len(i) = 3
  PROVE  /\ CodeOK(c \o i, st \cup {Len(c)})
         /\ \A k \in DOMAIN c : k \in DOMAIN (c \o i) /\ (c \o i)[k] = c[k]
<1> DEFINE e == c \o i
           n == Len(c)
           m == Len(i)
<1>1. /\ c \in Seq(Byte) /\ i \in Seq(Byte) /\ n \in Nat /\ m \in Nat
      /\ DOMAIN c = 1 .. n
  BY LenProperties DEF CodeOK, Whole
<1>2. /\ e \in Seq(Byte) /\ Len(e) = n + m
      /\ \A k \in 1 .. n + m : e[k] = IF k <= n THEN c[k] ELSE i[k - n]
      /\ DOMAIN e = 1 .. n + m
  BY <1>1, ConcatProperties, LenProperties
<1> HIDE DEF e
<1>3. m \in 1 .. 3 /\ m = LengthAt(i, 0) BY Lengths DEF Whole
<1>4. n = 0 => c = <<>> BY <1>1, EmptySeq
<1>5. n + m >= 3
  <2>1. CASE n = 0 BY <1>1, <1>4, <2>1
  <2>2. CASE n # 0
    <3>1. n >= 3 BY <2>2 DEF CodeOK
    <3> HIDE DEF n, m
    <3> QED BY <1>1, <3>1
  <2> QED BY <2>1, <2>2
<1>6. ASSUME NEW o \in st
      PROVE  /\ o \in Nat /\ o < n + m /\ (o = 0 \/ o >= 3)
             /\ Meant(e, o) /\ o + LengthAt(e, o) \in st \cup {n}
             /\ \A p \in st \cup {n} : p <= o \/ p >= o + LengthAt(e, o)
  <2> DEFINE k == LengthAt(c, o)
  <2>1. /\ o \in Nat /\ o < n /\ (o = 0 \/ o >= 3)
        /\ Meant(c, o) /\ o + k \in st \cup {n} /\ o + k <= n
        /\ \A p \in st : p <= o \/ p >= o + k
    BY DEF CodeOK, Meant
  <2>2. k \in 1 .. 3 BY Lengths
  <2> HIDE DEF k, n, m
  <2>3. /\ e[o + 1] = c[o + 1]
        /\ k >= 2 => e[o + 2] = c[o + 2]
        /\ k >= 3 => e[o + 3] = c[o + 3]
    BY <1>1, <1>2, <2>1, <2>2
  <2>4. o + k <= n + m /\ o < n + m BY <1>1, <2>1, <2>2
  <2>5. Meant(e, o) /\ LengthAt(e, o) = k
    <3>1. o + k <= Len(e) BY <1>2, <2>4
    <3> QED BY <2>1, <2>3, <3>1, MeantAlike DEF k
  <2>6. \A p \in st \cup {n} : p <= o \/ p >= o + k BY <1>1, <2>1, <2>2
  <2> QED BY <2>1, <2>4, <2>5, <2>6
<1>7. Meant(e, n) /\ n + LengthAt(e, n) = n + m
  <2> HIDE DEF n
  <2>1. /\ e[n + 1] = i[0 + 1]
        /\ m >= 2 => e[n + 2] = i[0 + 2]
        /\ m >= 3 => e[n + 3] = i[0 + 3]
    <3> HIDE DEF m
    <3> QED BY <1>1, <1>2, <1>3
  <2>2. n + LengthAt(i, 0) <= Len(e)
    <3> HIDE DEF m
    <3> QED BY <1>1, <1>2, <1>3
  <2>3. Meant(i, 0) /\ 0 \in Nat /\ n \in Nat BY <1>1 DEF Whole
  <2>4. /\ LengthAt(i, 0) >= 2 => e[n + 2] = i[0 + 2]
        /\ LengthAt(i, 0) >= 3 => e[n + 3] = i[0 + 3]
    BY <1>3, <2>1
  <2>5. Meant(e, n) /\ LengthAt(e, n) = LengthAt(i, 0)
    BY <2>1, <2>2, <2>3, <2>4, MeantAlike
  <2> QED BY <1>3, <2>5
<1>8. n \in Nat /\ n < n + m /\ (n = 0 \/ n >= 3)
  <2>1. n = 0 \/ n >= 3 BY DEF CodeOK
  <2> HIDE DEF n, m
  <2> QED BY <1>1, <1>3, <2>1
<1>9. CodeOK(e, st \cup {n})
  <2>1. \A o \in st : o < n /\ o \in Nat BY DEF CodeOK
  <2> HIDE DEF n, m
  <2>2. \A p \in st \cup {n} : p <= n BY <1>1, <2>1
  <2> QED BY <1>2, <1>5, <1>6, <1>7, <1>8, <2>2 DEF CodeOK
<1>10. \A k \in DOMAIN c : k \in DOMAIN e /\ e[k] = c[k]
  <2> HIDE DEF n, m
  <2> QED BY <1>1, <1>2
<1> QED BY <1>9, <1>10 DEF e

\* Sequences put together of few elements.
LEMMA OneAndTwo ==
  ASSUME NEW x, NEW y, NEW z
  PROVE  <<x>> \o <<y, z>> = <<x, y, z>>
<1> DEFINE S == {x, y, z}
           l == <<x>>
           r == <<y, z>>
           t == <<x, y, z>>
<1>1. /\ l \in Seq(S) /\ Len(l) = 1 /\ l[1] = x
      /\ r \in Seq(S) /\ Len(r) = 2 /\ r[1] = y /\ r[2] = z
      /\ t \in Seq(S) /\ Len(t) = 3 /\ t[1] = x /\ t[2] = y /\ t[3] = z
  OBVIOUS
<1> HIDE DEF S, l, r, t
<1>2. /\ l \o r \in Seq(S) /\ Len(l \o r) = Len(l) + Len(r)
      /\ \A i \in 1 .. Len(l) + Len(r) :
           (l \o r)[i] = IF i <= Len(l) THEN l[i] ELSE r[i - Len(l)]
  BY <1>1, ConcatProperties
<1>3. Len(l \o r) = 3 /\ \A i \in 1 .. 3 : (l \o r)[i] = t[i] BY <1>1, <1>2
<1>4. l \o r = t BY <1>1, <1>2, <1>3, SeqEqual
<1> QED BY <1>4 DEF l, r, t

\* The instructions the generator has, by length.
LEMMA WholeOne ==
  ASSUME NEW op \in Binary \cup {RET, HALT}
  PROVE  Whole(<<op>>)
<1>1. op \in Byte /\ op \in Emitted /\ op \notin {INC, DEC, CMP, JMP}
  BY DEF Binary, RET, HALT, ADD, SUB, MUL, DIV, Byte, Emitted, INC, DEC, CMP, JMP
<1>2. LengthAt(<<op>>, 0) = 1
  BY DEF LengthAt, Binary, RET, HALT, ADD, SUB, MUL, DIV, PSH_LIT, MOV, PEK_OFF,
         JLT, JMP, INC, DEC, POP_REG, PEK_REG, PSH_REG, CMP
<1>3. <<op>> \in Seq(Byte) /\ Len(<<op>>) = 1 /\ <<op>>[0 + 1] = op BY <1>1
<1> QED BY <1>1, <1>2, <1>3 DEF Whole, Meant

LEMMA WholeTwo ==
  ASSUME NEW op \in {CMP, POP_REG}, NEW r \in Byte, op = CMP => r = sp
  PROVE  Whole(<<op, r>>)
<1>1. op \in Byte /\ op \in Emitted /\ op \notin {INC, DEC, JMP}
  BY DEF Byte, Emitted, INC, DEC, CMP, JMP, POP_REG
<1>2. /\ <<op, r>> \in Seq(Byte) /\ Len(<<op, r>>) = 2
      /\ <<op, r>>[0 + 1] = op /\ <<op, r>>[0 + 2] = r
  BY <1>1
<1>3. LengthAt(<<op, r>>, 0) = 2
  BY DEF LengthAt, PSH_LIT, MOV, PEK_OFF, JLT, JMP, INC, DEC, POP_REG, PEK_REG,
         PSH_REG, CMP
<1> QED BY <1>1, <1>2, <1>3 DEF Whole, Meant

LEMMA WholeThree ==
  ASSUME NEW op \in {PSH_LIT, MOV, PEK_OFF, JLT, JMP, INC, DEC},
         NEW x \in Byte, NEW y \in Byte,
         op \in {INC, DEC} => x = sp,
         op = JMP => x = 0 /\ y \in {0, 1}
  PROVE  Whole(<<op, x, y>>) /\ Len(<<op, x, y>>) = 3
<1> DEFINE i == <<op, x, y>>
<1>1. op \in Byte /\ op \in Emitted /\ op # CMP
  BY DEF Byte, Emitted, PSH_LIT, MOV, PEK_OFF, JLT, JMP, INC, DEC, CMP
<1>2. /\ i \in Seq(Byte) /\ Len(i) = 3
      /\ i[0 + 1] = op /\ i[0 + 2] = x /\ i[0 + 3] = y
  BY <1>1
<1> HIDE DEF i
<1>3. LengthAt(i, 0) = 3
  <2>1. CASE op \in {INC, DEC}
    <3>1. op \notin {PSH_LIT, MOV, PEK_OFF, JLT, JMP, POP_REG, PEK_REG, PSH_REG, CMP}
      BY <2>1 DEF PSH_LIT, MOV, PEK_OFF, JLT, JMP, INC, DEC, POP_REG, PEK_REG,
                  PSH_REG, CMP
    <3> QED BY <1>2, <2>1, <3>1 DEF LengthAt
  <2>2. CASE op \in {PSH_LIT, MOV, PEK_OFF, JLT, JMP}
    <3>1. op \notin {INC, DEC, POP_REG, PEK_REG, PSH_REG, CMP}
      BY <2>2 DEF PSH_LIT, MOV, PEK_OFF, JLT, JMP, INC, DEC, POP_REG, PEK_REG,
                  PSH_REG, CMP
    <3> QED BY <1>2, <2>2, <3>1 DEF LengthAt
  <2> QED BY <2>1, <2>2
<1>4. Whole(i) BY <1>1, <1>2, <1>3 DEF Whole, Meant
<1> QED BY <1>2, <1>4 DEF i

LEMMA EncodeBytes ==
  ASSUME NEW n \in Int
  PROVE  /\ U16(n) \div 256 \in Byte /\ U16(n) % 256 \in Byte
         /\ encode(n) = <<U16(n) \div 256, U16(n) % 256>>
BY DEF encode, U16, Byte

LEMMA WholeWord ==
  ASSUME NEW op \in {PSH_LIT, JLT}, NEW n \in Int
  PROVE  Whole(<<op>> \o encode(n))
<1> DEFINE x == U16(n) \div 256
           y == U16(n) % 256
<1>1. x \in Byte /\ y \in Byte /\ encode(n) = <<x, y>> BY EncodeBytes
<1> HIDE DEF x, y
<1>2. <<op>> \o <<x, y>> = <<op, x, y>> BY OneAndTwo
<1>3. op \notin {INC, DEC, JMP} BY DEF PSH_LIT, JLT, INC, DEC, JMP
<1>4. Whole(<<op, x, y>>) BY <1>1, <1>3, WholeThree
<1> QED BY <1>1, <1>2, <1>4

LEMMA EncodeMain == encode(MainAddress) = <<0, 1>>
BY DEF encode, U16, MainAddress

LEMMA WholeJump ==
  /\ <<JMP>> \o encode(MainAddress) = <<JMP, 0, 1>>
  /\ Whole(<<JMP, 0, 1>>) /\ Whole(<<JMP, 0, 0>>)
<1>1. <<JMP>> \o <<0, 1>> = <<JMP, 0, 1>> BY OneAndTwo
<1>2. 0 \in Byte /\ 1 \in Byte BY DEF Byte
<1>3. JMP \notin {INC, DEC} BY DEF JMP, INC, DEC
<1> QED BY <1>1, <1>2, <1>3, EncodeMain, WholeThree

-----------------------------------------------------------------------------
(* The patches.                                                            *)

\* Only the call of main is ever resolved, and that by the first patch: no
\* table has another name.
LEMMA NothingResolved ==
  ASSUME GInv, status # "idle"
  PROVE  ResolvedCalls = {}
<1>1. DOMAIN unresolvedCalls \cap DOMAIN functions = {}
  BY DEF GInv, TablesOK, Begun
<1> QED BY <1>1 DEF ResolvedCalls

LEMMA NoPatch ==
  ASSUME NEW c \in Seq(Byte)
  PROVE  Patched(c, {}) = c
<1>1. c = [i \in DOMAIN c |-> c[i]] BY LenProperties
<1> QED BY <1>1 DEF Patched

\* The first patch writes the address the JMP in front has.
LEMMA PatchMain ==
  ASSUME NEW c \in Seq(Byte), Len(c) >= 3
  PROVE  LET d == Patched(c, {[at |-> 1, address |-> MainAddress]})
         IN  /\ d \in Seq(Byte) /\ Len(d) = Len(c) /\ DOMAIN d = DOMAIN c
             /\ \A i \in DOMAIN c \ {2, 3} : d[i] = c[i]
             /\ d[2] = 0 /\ d[3] = 1
<1> DEFINE q == [at |-> 1, address |-> MainAddress]
           Patch(i) == \E r \in {q} : i - 1 \in {r.at, r.at + 1}
           d == Patched(c, {q})
<1>1. Len(c) \in Nat /\ DOMAIN c = 1 .. Len(c) /\ \A i \in DOMAIN c : c[i] \in Byte
  BY LenProperties, ElementOfSeq
<1>2. \A i : Patch(i) => (CHOOSE r \in {q} : i - 1 \in {r.at, r.at + 1}) = q
  OBVIOUS
<1>3. \A i \in DOMAIN c : Patch(i) <=> i \in {2, 3} BY <1>1
<1>4. q.at = 1 /\ q.address = MainAddress OBVIOUS
<1>5. d = [i \in DOMAIN c |->
             IF Patch(i)
             THEN LET r == CHOOSE r \in {q} : i - 1 \in {r.at, r.at + 1}
                  IN  encode(r.address)[i - r.at]
             ELSE c[i]]
  BY DEF Patched
<1>6. \A i \in DOMAIN c : i \in {2, 3} =>
        d[i] = encode(MainAddress)[i - 1]
  <2> HIDE DEF q, d
  <2> TAKE i \in DOMAIN c
  <2> HAVE i \in {2, 3}
  <2>1. Patch(i) BY <1>3
  <2>2. (CHOOSE r \in {q} : i - 1 \in {r.at, r.at + 1}) = q BY <1>2, <2>1
  <2> QED BY <1>4, <1>5, <2>1, <2>2
<1>7. \A i \in DOMAIN c \ {2, 3} : d[i] = c[i]
  <2> HIDE DEF q, d, Patch
  <2> QED BY <1>3, <1>5
<1>8. 2 \in DOMAIN c /\ 3 \in DOMAIN c
  <2> DEFINE n == Len(c)
  <2>1. n \in Nat /\ n >= 3 /\ DOMAIN c = 1 .. n BY <1>1
  <2> HIDE DEF n
  <2> QED BY <2>1
<1>9. DOMAIN d = DOMAIN c BY <1>5
<1> HIDE DEF d
<1>10. d[2] = 0 /\ d[3] = 1 BY <1>6, <1>8, EncodeMain
<1>11. \A i \in DOMAIN c : d[i] \in Byte
  <2>1. 0 \in Byte /\ 1 \in Byte BY DEF Byte
  <2> QED BY <1>1, <1>7, <1>10, <2>1
<1>12. d \in Seq(Byte) /\ Len(d) = Len(c)
  <2>1. d = [i \in 1 .. Len(c) |-> d[i]] BY <1>1, <1>5, <1>9 DEF d
  <2>2. [i \in 1 .. Len(c) |-> d[i]] \in Seq(Byte)
        /\ Len([i \in 1 .. Len(c) |-> d[i]]) = Len(c)
    BY <1>1, <1>11
  <2> QED BY <2>1, <2>2
<1> QED BY <1>7, <1>9, <1>10, <1>12 DEF d

\* It leaves what was meant.
LEMMA PatchedOK ==
  ASSUME NEW c, NEW st, CodeOK(c, st), 0 \in st, c[1] = JMP
  PROVE  LET d == Patched(c, {[at |-> 1, address |-> MainAddress]})
         IN  /\ CodeOK(d, st) /\ d[1] = JMP
             /\ \A i \in DOMAIN c \ {2, 3} : i \in DOMAIN d /\ d[i] = c[i]
<1> DEFINE d == Patched(c, {[at |-> 1, address |-> MainAddress]})
           n == Len(c)
<1>1. /\ c \in Seq(Byte) /\ n \in Nat /\ DOMAIN c = 1 .. n /\ n >= 3
  <2>1. c \in Seq(Byte) /\ n \in Nat /\ DOMAIN c = 1 .. n
    BY LenProperties DEF CodeOK
  <2>2. 0 < n /\ (n = 0 \/ n >= 3) BY DEF CodeOK
  <2> HIDE DEF n
  <2> QED BY <2>1, <2>2
<1>2. /\ d \in Seq(Byte) /\ Len(d) = n /\ DOMAIN d = DOMAIN c
      /\ \A i \in DOMAIN c \ {2, 3} : d[i] = c[i]
      /\ d[2] = 0 /\ d[3] = 1
  BY <1>1, PatchMain
<1> HIDE DEF d, n
<1>3. d[1] = JMP /\ 1 \in DOMAIN c BY <1>1, <1>2
<1>4. ASSUME NEW o \in st
      PROVE  /\ o \in Nat /\ o < n /\ (o = 0 \/ o >= 3)
             /\ Meant(d, o) /\ o + LengthAt(d, o) \in st \cup {n}
             /\ \A p \in st : p <= o \/ p >= o + LengthAt(d, o)
  <2> DEFINE k == LengthAt(c, o)
  <2>1. /\ o \in Nat /\ o < n /\ (o = 0 \/ o >= 3)
        /\ Meant(c, o) /\ o + k \in st \cup {n} /\ o + k <= n
        /\ \A p \in st : p <= o \/ p >= o + k
        /\ k \in 1 .. 3
    BY Lengths DEF CodeOK, Meant, n
  <2>2. CASE o = 0
    <3>1. c[0 + 1] = JMP /\ d[0 + 1] = JMP BY <1>3
    <3>2. k = 3 /\ LengthAt(d, 0) = 3
      <4>1. JMP \notin {INC, DEC} BY DEF JMP, INC, DEC
      <4>2. LengthAt(c, 0) = LengthAt(d, 0) BY <3>1, <4>1, SameLength
      <4>3. LengthAt(c, 0) = 3 BY <2>1, <2>2, <3>1, Lengths
      <4> QED BY <2>2, <4>2, <4>3
    <3>3. JMP \in Emitted /\ JMP \notin {INC, DEC, CMP}
      BY DEF Emitted, JMP, INC, DEC, CMP
    <3>4. d[0 + 2] = 0 /\ d[0 + 3] = 1 BY <1>2
    <3>5. Meant(d, 0)
      <4>1. 0 + LengthAt(d, 0) <= Len(d) BY <1>1, <1>2, <3>2
      <4> QED BY <3>1, <3>3, <3>4, <4>1 DEF Meant
    <3> QED BY <2>1, <2>2, <3>2, <3>5
  <2>3. CASE o >= 3
    <3> HIDE DEF k
    <3>1. /\ d[o + 1] = c[o + 1]
          /\ k >= 2 => d[o + 2] = c[o + 2]
          /\ k >= 3 => d[o + 3] = c[o + 3]
      BY <1>1, <1>2, <2>1, <2>3
    <3>2. o + k <= Len(d) BY <1>2, <2>1
    <3>3. Meant(d, o) /\ LengthAt(d, o) = k
      BY <2>1, <3>1, <3>2, MeantAlike DEF k
    <3> QED BY <2>1, <3>3
  <2> QED BY <2>1, <2>2, <2>3
<1>5. CodeOK(d, st) BY <1>1, <1>2, <1>4 DEF CodeOK
<1> QED BY <1>2, <1>3, <1>5 DEF d

-----------------------------------------------------------------------------
(* Steps.                                                                  *)

\* The fields of the node classes.
LEMMA NodeFields ==
  ASSUME NEW p, IsTree(p), NEW n \in Ref(p), n # 0
  PROVE  LET x == p[n]
         IN  /\ x.type \in {"PROGRAM", "WHILE"} => x.body \in Seq(Ref(p))
             /\ x.type = "NUMERIC_LITERAL" => x.value \in Int16
             /\ x.type \in {"IDENTIFIER", "CALL_EXPRESSION", "LET"} =>
                  x.name \in Names
             /\ x.type = "IDENTIFIER" => x.op \in {"none", "inc", "dec"}
             /\ x.type = "BINARY_EXPRESSION" => x.operator \in Arithmetic
             /\ x.type \in {"BINARY_EXPRESSION", "COMPARISON_EXPRESSION"} =>
                  x.left \in Ref(p) /\ x.right \in Ref(p)
             /\ x.type \in {"LET", "RETURN"} => x.expression \in Ref(p)
             /\ x.type = "WHILE" => x.condition \in Ref(p)
<1>1. Len(p) \in Nat /\ p \in Seq(NodeOf(p)) BY LenProperties DEF IsTree
<1>2. n \in 1 .. Len(p) BY <1>1 DEF Ref
<1>3. p[n] \in NodeOf(p) BY <1>1, <1>2, ElementOfSeq
<1> QED BY <1>3 DEF NodeOf

\* The bytes that are there stay, but for the operand of the JMP in front.
Grows ==
  \A i \in DOMAIN bytecode \ {2, 3} :
    i \in DOMAIN bytecode' /\ bytecode'[i] = bytecode[i]

LEMMA TopTyped ==
  ASSUME GInv, calls # <<>>
  PROVE  /\ Top \in Activations /\ Tail(calls) \in Seq(Activations)
         /\ Top.node \in Ref(ast) /\ Top.reg \in {sp, ret} /\ Top.at \in Nat
         /\ Suits(Top)
<1>1. Top \in Activations /\ Tail(calls) \in Seq(Activations)
  BY HeadTailProperties DEF GInv, Top
<1> QED BY <1>1 DEF Activations

\* A step of an activation that makes the calls as and emits nothing.
LEMMA QuietStep ==
  ASSUME GInv, status = "generating", calls # <<>>,
         NEW as \in Seq(Activations), Calls(as),
         UNCHANGED <<ast, output, functions, status, before>>,
         TablesOK', stackSize' \in Word, printed' \subseteq Messages
  PROVE  GInv' /\ Grows
<1>1. calls' \in Seq(Activations) BY TopTyped, ConcatProperties DEF Calls
<1>2. Activations' = Activations BY DEF Activations, Suits
<1>3. UNCHANGED <<bytecode, starts>> BY DEF output
<1>4. CodeOK(bytecode, starts)' /\ Begun' BY <1>3 DEF GInv, Begun
<1>5. Grows BY <1>3 DEF Grows
<1>6. calls' \in Seq(Activations)' BY <1>1, <1>2
<1> QED BY <1>4, <1>5, <1>6 DEF GInv

\* One that returns and emits the instruction i.
LEMMA EmitStep ==
  ASSUME GInv, status = "generating", calls # <<>>,
         NEW i, Whole(i), Emit(i), Returns,
         UNCHANGED <<ast, functions, status, before>>,
         TablesOK', stackSize' \in Word, printed' \subseteq Messages
  PROVE  GInv' /\ Grows
<1>0. <<>> \in Seq(Activations) OBVIOUS
<1>1. calls' \in Seq(Activations)
  BY <1>0, TopTyped, ConcatProperties DEF Calls, Returns
<1>2. calls' \in Seq(Activations)' BY <1>1 DEF Activations, Suits
<1>3. bytecode # <<>> /\ 1 \in DOMAIN bytecode /\ 0 \in starts /\ bytecode[1] = JMP
  <2>1. CodeOK(bytecode, starts) /\ 0 \in starts /\ bytecode[1] = JMP
    BY DEF GInv, Begun
  <2>2. 0 < Len(bytecode) /\ bytecode \in Seq(Byte) BY <2>1 DEF CodeOK
  <2>3. bytecode # <<>> BY <2>2, EmptySeq
  <2>4. 1 \in 1 .. Len(bytecode) BY <2>2, LenProperties
  <2> QED BY <2>1, <2>2, <2>3, <2>4, LenProperties
<1>4. /\ CodeOK(bytecode', starts')
      /\ \A k \in DOMAIN bytecode :
           k \in DOMAIN bytecode' /\ bytecode'[k] = bytecode[k]
  BY <1>3, AppendInstruction DEF GInv, Emit
<1>5. Begun' BY <1>3, <1>4 DEF GInv, Begun, Emit
<1>6. Grows BY <1>4 DEF Grows
<1> QED BY <1>2, <1>4, <1>5, <1>6 DEF GInv

\* Most steps leave the tables, and what follows from that.
LEMMA ContextOK ==
  ASSUME GInv, UNCHANGED tables
  PROVE  TablesOK' /\ functions' = functions
BY DEF GInv, TablesOK, tables

\* Activations that may be made.
LEMMA Makes ==
  ASSUME NEW f \in FunctionNames, NEW n \in Ref(ast), NEW r \in {sp, ret},
         NEW a \in Nat, Suits(Activation(f, n, r, a))
  PROVE  Activation(f, n, r, a) \in Activations
BY DEF Activation, Activations

LEMMA ExpressionCall ==
  ASSUME NEW n \in Ref(ast), NEW r \in {sp, ret}
  PROVE  Expression(n, r) \in Activations
<1>1. Suits(Activation("generateExpression", n, r, 0)) BY DEF Activation, Suits
<1>2. "generateExpression" \in FunctionNames BY DEF FunctionNames
<1> QED BY <1>1, <1>2, Makes DEF Expression

LEMMA ComparisonCall ==
  ASSUME NEW n \in Ref(ast)
  PROVE  Comparison(n) \in Activations
<1>1. Suits(Activation("generateComparisonExpression", n, sp, 0))
  BY DEF Activation, Suits
<1>2. "generateComparisonExpression" \in FunctionNames BY DEF FunctionNames
<1> QED BY <1>1, <1>2, Makes DEF Comparison

LEMMA ThenCall ==
  ASSUME NEW f \in FunctionNames, f # "generateScope",
         NEW n \in Ref(ast), n # 0, NEW r \in {sp, ret}, NEW a \in Nat,
         f \in {"generateReturnStatement", "emitReturn"} =>
           ast[n].type = "RETURN",
         f = "generateLetStatement" => ast[n].type = "LET",
         f \in {"generateWhileStatement", "closeLoop"} => ast[n].type = "WHILE",
         f = "generateOperator" => ast[n].type = "BINARY_EXPRESSION"
  PROVE  Activation(f, n, r, a) \in Activations
<1>1. Suits(Activation(f, n, r, a)) BY DEF Activation, Suits
<1> QED BY <1>1, Makes

LEMMA ScopeCall ==
  ASSUME NEW n \in Ref(ast), n # 0, ast[n].type \in {"PROGRAM", "WHILE"}
  PROVE  Scope(n) \in Activations
<1>1. Suits(Activation("generateScope", n, sp, 1)) BY DEF Activation, Suits
<1>2. "generateScope" \in FunctionNames BY DEF FunctionNames
<1> QED BY <1>1, <1>2, Makes DEF Scope

\* A statement is called with a node of its class.
LEMMA StatementCall ==
  ASSUME NEW s \in Ref(ast)
  PROVE  CallFor(s) \in Activations
<1>1. /\ "generateReturnStatement" \in FunctionNames
      /\ "generateLetStatement" \in FunctionNames
      /\ "generateWhileStatement" \in FunctionNames
      /\ 0 \in Nat
  BY DEF FunctionNames
<1>2. CASE s # 0 /\ ast[s].type = "RETURN"
  <2>1. CallFor(s) = Then("generateReturnStatement", s, sp) BY <1>2 DEF CallFor
  <2>2. Activation("generateReturnStatement", s, sp, 0) \in Activations
    BY <1>1, <1>2, ThenCall
  <2> QED BY <2>1, <2>2 DEF Then
<1>3. CASE s # 0 /\ ast[s].type = "LET"
  <2>1. CallFor(s) = Then("generateLetStatement", s, sp) BY <1>3 DEF CallFor
  <2>2. Activation("generateLetStatement", s, sp, 0) \in Activations
    BY <1>1, <1>3, ThenCall
  <2> QED BY <2>1, <2>2 DEF Then
<1>4. CASE s # 0 /\ ast[s].type = "WHILE"
  <2>1. CallFor(s) = Then("generateWhileStatement", s, sp) BY <1>4 DEF CallFor
  <2>2. Activation("generateWhileStatement", s, sp, 0) \in Activations
    BY <1>1, <1>4, ThenCall
  <2> QED BY <2>1, <2>2 DEF Then
<1>5. CASE s = 0 \/ ast[s].type \notin {"RETURN", "LET", "WHILE"}
  <2>1. CallFor(s) = Expression(s, sp) BY <1>5 DEF CallFor
  <2> QED BY <2>1, ExpressionCall
<1> QED BY <1>2, <1>3, <1>4, <1>5

LEMMA ScopeStep ==
  ASSUME GInv, generateScope \/ endScope, before' = before
  PROVE  GInv' /\ Grows
<1>1. /\ status = "generating" /\ calls # <<>> /\ Top.node # 0
      /\ Top.function = "generateScope"
      /\ UNCHANGED <<ast, output, tables, stackSize, status, printed>>
  BY DEF generateScope, endScope, In, Context
<1>2. /\ Top \in Activations /\ Top.node \in Ref(ast) /\ Top.at \in Nat
      /\ Here.type \in {"PROGRAM", "WHILE"} /\ Top.at >= 1
      /\ Top.reg \in {sp, ret}
  BY <1>1, TopTyped DEF Suits, Here
<1>3. TablesOK' /\ functions' = functions /\ stackSize' \in Word
      /\ printed' \subseteq Messages
  BY <1>1, ContextOK DEF GInv
<1>4. CASE generateScope
  <2> DEFINE s == Here.body[Top.at]
             a == CallFor(s)
             b == [Top EXCEPT !.at = @ + 1]
  <2>0. s \in Ref(ast)
    <3>1. Here.body \in Seq(Ref(ast)) BY <1>1, <1>2, NodeFields DEF Here, GInv
    <3>2. Len(Here.body) \in Nat BY <3>1, LenProperties
    <3>3. Top.at >= 1 /\ Top.at \in 1 .. Len(Here.body)
      BY <1>2, <1>4, <3>2 DEF generateScope
    <3> QED BY <3>1, <3>3, ElementOfSeq
  <2>1. a \in Activations
    BY <2>0, StatementCall
  <2>2. b \in Activations BY <1>2 DEF Activations, Suits
  <2>3. <<a, b>> \in Seq(Activations) /\ Calls(<<a, b>>)
    <3>1. Calls(<<a, b>>) BY <1>4 DEF generateScope
    <3> HIDE DEF a, b
    <3> QED BY <2>1, <2>2, <3>1
  <2> QED BY <1>1, <1>3, <2>3, QuietStep
<1>5. CASE endScope
  <2>1. <<>> \in Seq(Activations) /\ Calls(<<>>)
    BY <1>5 DEF endScope, Returns
  <2> QED BY <1>1, <1>3, <2>1, QuietStep
<1> QED BY <1>4, <1>5

\* What an activation that runs may rely on.
LEMMA Running ==
  ASSUME GInv, NEW f, In(f)
  PROVE  /\ status = "generating" /\ calls # <<>>
         /\ Top.function = f /\ Top.node # 0 /\ Top.node \in Ref(ast)
         /\ Top.reg \in {sp, ret} /\ Top.at \in Nat /\ Suits(Top)
         /\ IsTree(ast) /\ Here = ast[Top.node]
         /\ stackSize \in Word /\ printed \subseteq Messages
BY TopTyped DEF GInv, In, Here

LEMMA PoppedWord ==
  ASSUME GInv, NEW n \in Nat
  PROVE  Popped(n) \in Word
BY DEF GInv, Popped, U16, Word

LEMMA ReturnStep ==
  ASSUME GInv, generateReturnStatement \/ emitReturn, before' = before
  PROVE  GInv' /\ Grows
<1>1. CASE generateReturnStatement
  <2>1. /\ In("generateReturnStatement") /\ Context /\ UNCHANGED output
        /\ Calls(<<Expression(Here.expression, ret),
                   Then("emitReturn", Top.node, ret)>>)
    BY <1>1 DEF generateReturnStatement
  <2>2. Here.type = "RETURN" BY <2>1, Running DEF Suits
  <2>3. Expression(Here.expression, ret) \in Activations
    BY <2>1, <2>2, Running, NodeFields, ExpressionCall
  <2>4. Then("emitReturn", Top.node, ret) \in Activations
    <3>1. "emitReturn" \in FunctionNames /\ 0 \in Nat BY DEF FunctionNames
    <3> QED BY <2>1, <2>2, <3>1, Running, ThenCall DEF Then
  <2>5. <<Expression(Here.expression, ret), Then("emitReturn", Top.node, ret)>>
          \in Seq(Activations)
    BY <2>3, <2>4
  <2> QED BY <2>1, <2>5, Running, ContextOK, QuietStep DEF Context
<1>2. CASE emitReturn
  <2>1. In("emitReturn") /\ Context /\ Emit(<<RET>>) /\ Returns
    BY <1>2 DEF emitReturn
  <2>2. Whole(<<RET>>) BY WholeOne
  <2> QED BY <2>1, <2>2, Running, ContextOK, EmitStep DEF Context
<1> QED BY <1>1, <1>2

LEMMA LetStep ==
  ASSUME GInv, generateLetStatement, before' = before
  PROVE  GInv' /\ Grows
<1>1. /\ In("generateLetStatement")
      /\ UNCHANGED <<ast, output, stackSize, functions, unresolvedCalls,
                     registers, status>>
  BY DEF generateLetStatement
<1>2. /\ status = "generating" /\ calls # <<>> /\ stackSize \in Word
      /\ Here.name \in Names /\ Here.expression \in Ref(ast)
      /\ printed \subseteq Messages
  BY <1>1, Running, NodeFields DEF Suits
<1>3. CASE Returns /\ UNCHANGED identifiers /\ printed' \subseteq Messages
  <2>1. <<>> \in Seq(Activations) /\ Calls(<<>>) BY <1>3 DEF Returns
  <2>2. TablesOK' BY <1>1, <1>3 DEF GInv, TablesOK
  <2> QED BY <1>1, <1>2, <1>3, <2>1, <2>2, QuietStep
<1>4. CASE /\ stackSize < 255 /\ UNCHANGED printed
           /\ identifiers' = [x \in DOMAIN identifiers \cup {Here.name} |->
                                IF x = Here.name THEN stackSize ELSE identifiers[x]]
           /\ Calls(<<Expression(Here.expression, sp)>>)
  <2>1. stackSize \in Byte BY <1>2, <1>4 DEF Word, Byte
  <2>2. TablesOK' BY <1>1, <1>2, <1>4, <2>1 DEF GInv, TablesOK
  <2>3. <<Expression(Here.expression, sp)>> \in Seq(Activations)
    BY <1>2, ExpressionCall
  <2> QED BY <1>1, <1>2, <1>4, <2>2, <2>3, QuietStep
<1>5. /\ Report("Identifier already exists") => printed' \subseteq Messages
      /\ Report("Stack overflow") => printed' \subseteq Messages
  BY <1>2 DEF Report, Messages
<1>6. stackSize >= 255 \/ stackSize < 255 BY <1>2 DEF Word
<1> QED BY ZenonT(60), <1>3, <1>4, <1>5, <1>6 DEF generateLetStatement

LEMMA WhileStep ==
  ASSUME GInv, generateWhileStatement, before' = before
  PROVE  GInv' /\ Grows
<1> DEFINE a == Activation("closeLoop", Top.node, sp, U16(Len(bytecode)))
<1>1. /\ In("generateWhileStatement") /\ Context /\ UNCHANGED output
      /\ Calls(<<Scope(Top.node), Comparison(Here.condition), a>>)
  BY DEF generateWhileStatement
<1>2. Here.type = "WHILE" BY <1>1, Running DEF Suits
<1>3. Scope(Top.node) \in Activations BY <1>1, <1>2, Running, ScopeCall
<1>4. Comparison(Here.condition) \in Activations
  BY <1>1, <1>2, Running, NodeFields, ComparisonCall
<1>5. U16(Len(bytecode)) \in Nat
  <2>1. Len(bytecode) \in Nat BY LenProperties DEF GInv, CodeOK
  <2> HIDE DEF a
  <2> QED BY <2>1 DEF U16
<1>6. a \in Activations
  <2>1. "closeLoop" \in FunctionNames BY DEF FunctionNames
  <2> QED BY <1>1, <1>2, <1>5, <2>1, Running, ThenCall
<1> HIDE DEF a
<1>7. <<Scope(Top.node), Comparison(Here.condition), a>> \in Seq(Activations)
  BY <1>3, <1>4, <1>6
<1> QED BY <1>1, <1>7, Running, ContextOK, QuietStep DEF Context

LEMMA CloseLoopStep ==
  ASSUME GInv, closeLoop, before' = before
  PROVE  GInv' /\ Grows
<1>1. In("closeLoop") /\ Context /\ Returns BY DEF closeLoop
<1>2. CASE UNCHANGED output
  <2>1. <<>> \in Seq(Activations) /\ Calls(<<>>) BY <1>1 DEF Returns
  <2> QED BY <1>1, <1>2, <2>1, Running, ContextOK, QuietStep DEF Context
<1>3. CASE Emit(<<JLT>> \o encode(LoopOffset(Top.at)))
  <2>1. LoopOffset(Top.at) \in Int
    <3>1. Len(bytecode) \in Nat /\ Top.at \in Nat
      BY <1>1, Running, LenProperties DEF GInv, CodeOK
    <3> QED BY <3>1 DEF LoopOffset, U16
  <2>2. Whole(<<JLT>> \o encode(LoopOffset(Top.at))) BY <2>1, WholeWord
  <2> QED BY <1>1, <1>3, <2>2, Running, ContextOK, EmitStep DEF Context
<1> QED BY <1>2, <1>3 DEF closeLoop

LEMMA LiteralStep ==
  ASSUME GInv, generateNumericLiteral, before' = before
  PROVE  GInv' /\ Grows
<1>1. /\ In("generateExpression") /\ Here.type = "NUMERIC_LITERAL"
      /\ Returns /\ Context /\ Emit(<<PSH_LIT>> \o encode(Here.value))
  BY DEF generateNumericLiteral, InExpression
<1>2. Here.value \in Int BY <1>1, Running, NodeFields DEF Int16
<1>3. Whole(<<PSH_LIT>> \o encode(Here.value)) BY <1>2, WholeWord
<1> QED BY <1>1, <1>3, Running, ContextOK, EmitStep DEF Context

LEMMA ComparisonStep ==
  ASSUME GInv, generateComparison \/ generateComparisonExpression,
         before' = before
  PROVE  GInv' /\ Grows
<1>0. /\ "moveResult" \in FunctionNames /\ "generateCompareOperator" \in FunctionNames
      /\ 0 \in Nat
  BY DEF FunctionNames
<1>1. CASE generateComparison
  <2> DEFINE a == Then("moveResult", Top.node, Top.reg)
  <2>1. /\ In("generateExpression") /\ Context /\ UNCHANGED output
        /\ Calls(<<Comparison(Top.node), a>>)
    BY <1>1 DEF generateComparison, InExpression
  <2>2. a \in Activations
    BY <1>0, <2>1, Running, ThenCall DEF Then
  <2>3. Comparison(Top.node) \in Activations BY <2>1, Running, ComparisonCall
  <2> HIDE DEF a
  <2>4. <<Comparison(Top.node), a>> \in Seq(Activations) BY <2>2, <2>3
  <2> QED BY <2>1, <2>4, Running, ContextOK, QuietStep DEF Context
<1>2. CASE generateComparisonExpression
  <2> DEFINE a == Expression(Here.left, sp)
             b == Expression(Here.right, sp)
             c == Then("generateCompareOperator", Top.node, sp)
  <2>1. /\ In("generateComparisonExpression") /\ Context /\ UNCHANGED output
        /\ Here.type = "COMPARISON_EXPRESSION" /\ Calls(<<a, b, c>>)
    BY <1>2 DEF generateComparisonExpression
  <2>2. a \in Activations /\ b \in Activations
    BY <2>1, Running, NodeFields, ExpressionCall
  <2>3. c \in Activations BY <1>0, <2>1, Running, ThenCall DEF Then
  <2> HIDE DEF a, b, c
  <2>4. <<a, b, c>> \in Seq(Activations) BY <2>2, <2>3
  <2> QED BY <2>1, <2>4, Running, ContextOK, QuietStep DEF Context
<1> QED BY <1>1, <1>2

LEMMA MoveStep ==
  ASSUME GInv, moveResult, before' = before
  PROVE  GInv' /\ Grows
<1>1. In("moveResult") /\ Returns /\ Context /\ Emit(<<MOV, Top.reg, imm>>)
  BY DEF moveResult
<1>2. Top.reg \in Byte /\ imm \in Byte BY <1>1, Running DEF Byte, sp, ret, imm
<1>3. MOV \notin {INC, DEC, JMP} BY DEF MOV, INC, DEC, JMP
<1>4. Whole(<<MOV, Top.reg, imm>>) BY <1>2, <1>3, WholeThree
<1> QED BY <1>1, <1>4, Running, ContextOK, EmitStep DEF Context

LEMMA CompareStep ==
  ASSUME GInv, generateCompareOperator, before' = before
  PROVE  GInv' /\ Grows
<1>1. /\ In("generateCompareOperator") /\ Returns /\ Emit(<<CMP, sp>>)
      /\ stackSize' = Popped(2)
      /\ UNCHANGED <<ast, tables, status, printed>>
  BY DEF generateCompareOperator
<1>2. sp \in Byte BY DEF Byte, sp
<1>3. Whole(<<CMP, sp>>) BY <1>2, WholeTwo
<1>4. stackSize' \in Word BY <1>1, PoppedWord
<1> QED BY <1>1, <1>3, <1>4, Running, ContextOK, EmitStep

LEMMA BinaryStep ==
  ASSUME GInv, generateBinaryExpression, before' = before
  PROVE  GInv' /\ Grows
<1> DEFINE a == Expression(Here.left, sp)
           b == Expression(Here.right, sp)
           c == Then("generateOperator", Top.node, Top.reg)
<1>1. /\ In("generateExpression") /\ Context /\ UNCHANGED output
      /\ Here.type = "BINARY_EXPRESSION" /\ Calls(<<a, b, c>>)
  BY DEF generateBinaryExpression, InExpression
<1>2. a \in Activations /\ b \in Activations
  BY <1>1, Running, NodeFields, ExpressionCall
<1>3. c \in Activations
  <2>1. "generateOperator" \in FunctionNames /\ 0 \in Nat BY DEF FunctionNames
  <2> QED BY <1>1, <2>1, Running, ThenCall DEF Then
<1> HIDE DEF a, b, c
<1>4. <<a, b, c>> \in Seq(Activations) BY <1>2, <1>3
<1> QED BY <1>1, <1>4, Running, ContextOK, QuietStep DEF Context

\* The two instructions of a pop to ret, as bytes.
LEMMA OperatorAndPop ==
  ASSUME NEW c \in Seq(Byte), NEW op \in Byte, NEW st
  PROVE  /\ c \o <<op, POP_REG, ret>> = (c \o <<op>>) \o <<POP_REG, ret>>
         /\ Len(c \o <<op>>) = Len(c) + 1
         /\ st \cup {Len(c), Len(c) + 1} =
              (st \cup {Len(c)}) \cup {Len(c \o <<op>>)}
<1> DEFINE l == <<op>>
           r == <<POP_REG, ret>>
<1>1. l \in Seq(Byte) /\ r \in Seq(Byte) /\ Len(l) = 1
  BY DEF Byte, POP_REG, ret
<1>2. l \o r = <<op, POP_REG, ret>> BY OneAndTwo
<1> HIDE DEF l, r
<1>3. c \o (l \o r) = (c \o l) \o r BY <1>1, ConcatAssociative
<1>4. Len(c \o l) = Len(c) + 1
  <2>1. Len(c \o l) = Len(c) + Len(l) BY <1>1, ConcatProperties
  <2> QED BY <1>1, <2>1
<1> QED BY <1>2, <1>3, <1>4 DEF l, r

LEMMA OperatorStep ==
  ASSUME GInv, generateOperator, before' = before
  PROVE  GInv' /\ Grows
<1> DEFINE op == encodeOperator[Here.operator]
<1>1. /\ In("generateOperator") /\ Returns /\ Emit(<<op>>)
      /\ stackSize' = Popped(1)
      /\ UNCHANGED <<ast, tables, status, printed>>
  BY DEF generateOperator
<1>2. op \in Binary
  <2>1. Here.operator \in Arithmetic BY <1>1, Running, NodeFields DEF Suits
  <2> QED BY <2>1 DEF Arithmetic, encodeOperator, Binary
<1>3. Whole(<<op>>) BY <1>2, WholeOne
<1>4. stackSize' \in Word BY <1>1, PoppedWord
<1> HIDE DEF op
<1> QED BY <1>1, <1>3, <1>4, Running, ContextOK, EmitStep

LEMMA OperatorRegStep ==
  ASSUME GInv, generateOperatorReg, before' = before
  PROVE  GInv' /\ Grows
<1> DEFINE op == encodeOperator[Here.operator]
           c == bytecode \o <<op>>
           st == starts \cup {Len(bytecode)}
<1>1. /\ In("generateOperator") /\ Returns
      /\ bytecode' = bytecode \o <<op, POP_REG, ret>>
      /\ starts' = starts \cup {Len(bytecode), Len(bytecode) + 1}
      /\ stackSize' = Popped(2)
      /\ UNCHANGED <<ast, tables, status, printed>>
  BY DEF generateOperatorReg
<1>2. op \in Binary /\ op \in Byte
  <2>1. Here.operator \in Arithmetic BY <1>1, Running, NodeFields DEF Suits
  <2>2. op \in Binary BY <2>1 DEF Arithmetic, encodeOperator, Binary
  <2> QED BY <2>2 DEF Binary, ADD, SUB, MUL, DIV, Byte
<1>3. Whole(<<op>>) BY <1>2, WholeOne
<1> HIDE DEF op
<1>4. Whole(<<POP_REG, ret>>)
  <2>1. ret \in Byte /\ POP_REG # CMP BY DEF Byte, ret, POP_REG, CMP
  <2> QED BY <2>1, WholeTwo
<1>5. /\ bytecode \in Seq(Byte) /\ CodeOK(bytecode, starts)
      /\ 0 \in starts /\ bytecode[1] = JMP /\ functions = [x \in {"main"} |-> MainAddress]
  BY <1>1 DEF GInv, CodeOK, Begun, In
<1>6. bytecode # <<>> /\ 1 \in DOMAIN bytecode
  <2>1. 0 < Len(bytecode) BY <1>5 DEF CodeOK
  <2>2. 1 \in 1 .. Len(bytecode) BY <1>5, <2>1, LenProperties
  <2> QED BY <1>5, <2>1, <2>2, EmptySeq, LenProperties
<1>7. /\ CodeOK(c, st)
      /\ \A k \in DOMAIN bytecode : k \in DOMAIN c /\ c[k] = bytecode[k]
  BY <1>3, <1>5, <1>6, AppendInstruction
<1>8. c # <<>>
  <2> HIDE DEF c
  <2>1. 1 \in DOMAIN c BY <1>6, <1>7
  <2> QED BY <2>1
<1>9. /\ CodeOK(c \o <<POP_REG, ret>>, st \cup {Len(c)})
      /\ \A k \in DOMAIN c : /\ k \in DOMAIN (c \o <<POP_REG, ret>>)
                             /\ (c \o <<POP_REG, ret>>)[k] = c[k]
  <2> HIDE DEF c, st
  <2> QED BY <1>4, <1>7, <1>8, AppendInstruction
<1>10. bytecode' = c \o <<POP_REG, ret>> /\ starts' = st \cup {Len(c)}
  BY <1>1, <1>2, <1>5, OperatorAndPop
<1> HIDE DEF c, st
<1>11. \A k \in DOMAIN bytecode : k \in DOMAIN bytecode' /\ bytecode'[k] = bytecode[k]
  BY <1>7, <1>9, <1>10
<1>12. calls' \in Seq(Activations)'
  <2>1. <<>> \in Seq(Activations) OBVIOUS
  <2>2. calls' \in Seq(Activations)
    BY <1>1, <2>1, Running, TopTyped, ConcatProperties DEF Calls, Returns
  <2> QED BY <1>1, <2>2 DEF Activations, Suits
<1>13. CodeOK(bytecode', starts') BY <1>9, <1>10
<1>14. Begun'
  <2>1. 0 \in starts' BY <1>1, <1>5
  <2>2. bytecode'[1] = JMP BY <1>5, <1>6, <1>11
  <2>3. status' # "idle" /\ functions' = functions
    BY <1>1, Running DEF tables
  <2> QED BY <1>5, <2>1, <2>2, <2>3 DEF Begun
<1>15. stackSize' \in Word /\ TablesOK' BY <1>1, PoppedWord, ContextOK
<1>16. GInv' BY <1>1, <1>12, <1>13, <1>14, <1>15 DEF GInv
<1> QED BY <1>11, <1>16 DEF Grows

LEMMA IdentifierStep ==
  ASSUME GInv, generateIdentifier, before' = before
  PROVE  GInv' /\ Grows
<1>1. /\ In("generateExpression") /\ Here.type = "IDENTIFIER" /\ Returns
      /\ UNCHANGED <<ast, stackSize, identifiers, functions, unresolvedCalls,
                     status>>
  BY DEF generateIdentifier, InExpression
<1>2. Here.name \in Names /\ Here.op \in {"none", "inc", "dec"}
  BY <1>1, Running, NodeFields
<1>3. CASE Here.name \notin DOMAIN identifiers
  <2>1. Report("Identifier not found") /\ UNCHANGED <<output, registers>>
    BY <1>3 DEF generateIdentifier
  <2>2. printed' \subseteq Messages
    BY <1>1, <2>1, Running DEF Report, Messages
  <2>3. TablesOK' BY <1>1, <2>1 DEF GInv, TablesOK
  <2>4. <<>> \in Seq(Activations) /\ Calls(<<>>) BY <1>1 DEF Returns
  <2> QED BY <1>1, <2>1, <2>2, <2>3, <2>4, Running, QuietStep
<1>4. CASE Here.name \in DOMAIN identifiers
  <2> DEFINE offset == identifiers[Here.name]
             i == CASE Here.op = "inc" -> <<INC, sp, offset>>
                    [] Here.op = "dec" -> <<DEC, sp, offset>>
                    [] Here.op = "none" -> <<PEK_OFF, Top.reg, offset>>
  <2>1. /\ Emit(i) /\ UNCHANGED printed
        /\ registers' = IF Here.op = "none" /\ Top.reg # sp
                        THEN [registers EXCEPT ![Top.reg] = Here.name]
                        ELSE registers
    BY <1>4 DEF generateIdentifier
  <2>2. offset \in Byte /\ Top.reg \in Byte /\ sp \in Byte
    <3>1. offset \in Byte BY <1>4 DEF GInv, TablesOK
    <3> HIDE DEF offset
    <3> QED BY <1>1, <3>1, Running DEF Byte, sp, ret
  <2> HIDE DEF offset
  <2>3. Whole(i)
    <3>1. PEK_OFF \notin {INC, DEC, JMP} /\ INC # JMP /\ DEC # JMP
      BY DEF PEK_OFF, INC, DEC, JMP
    <3>2. Whole(<<INC, sp, offset>>) BY <2>2, <3>1, WholeThree
    <3>3. Whole(<<DEC, sp, offset>>) BY <2>2, <3>1, WholeThree
    <3>4. Whole(<<PEK_OFF, Top.reg, offset>>) BY <2>2, <3>1, WholeThree
    <3> QED BY <1>2, <3>2, <3>3, <3>4
  <2>4. TablesOK' BY <1>1, <1>2, <2>1 DEF GInv, TablesOK
  <2> HIDE DEF i
  <2> QED BY <1>1, <2>1, <2>3, <2>4, Running, EmitStep
<1> QED BY <1>3, <1>4

LEMMA CallStep ==
  ASSUME GInv, generateCall, before' = before
  PROVE  GInv' /\ Grows
<1>1. /\ In("generateExpression") /\ Here.type = "CALL_EXPRESSION" /\ Returns
      /\ UNCHANGED <<ast, stackSize, identifiers, functions, registers, status,
                     printed>>
  BY DEF generateCall, InExpression
<1>2. Here.name \in Names BY <1>1, Running, NodeFields
<1>3. functions = [x \in {"main"} |-> MainAddress] BY <1>1 DEF GInv, Begun, In
<1>4. CASE Here.name \in DOMAIN functions
  <2>1. Emit(<<JMP>> \o encode(functions[Here.name])) /\ UNCHANGED unresolvedCalls
    BY <1>4 DEF generateCall
  <2>2. functions[Here.name] = MainAddress BY <1>3, <1>4
  <2>3. Whole(<<JMP>> \o encode(functions[Here.name])) BY <2>2, WholeJump
  <2>4. TablesOK' BY <1>1, <2>1 DEF GInv, TablesOK
  <2> QED BY <1>1, <2>1, <2>3, <2>4, Running, EmitStep
<1>5. CASE Here.name \notin DOMAIN functions
  <2>1. /\ Emit(<<JMP, 0, 0>>)
        /\ unresolvedCalls' =
             [x \in DOMAIN unresolvedCalls \cup {Here.name} |->
                (IF x \in DOMAIN unresolvedCalls THEN unresolvedCalls[x] ELSE {})
                  \cup (IF x = Here.name THEN {PositionToPatch} ELSE {})]
    BY <1>5 DEF generateCall
  <2>2. Here.name # "main" BY <1>3, <1>5
  <2>3. PositionToPatch \in Byte
    <3>1. Len(bytecode) \in Nat BY LenProperties DEF GInv, CodeOK
    <3> QED BY <3>1 DEF PositionToPatch, Byte
  <2>4. TablesOK' BY <1>1, <1>2, <2>1, <2>2, <2>3 DEF GInv, TablesOK
  <2> QED BY <1>1, <2>1, <2>4, Running, WholeJump, EmitStep
<1> QED BY <1>4, <1>5

LEMMA UnknownStep ==
  ASSUME GInv, unknownNode, before' = before
  PROVE  GInv' /\ Grows
<1>1. /\ In("generateExpression") /\ Returns /\ Report("Unknown node type")
      /\ UNCHANGED <<ast, output, stackSize, tables, status>>
  BY DEF unknownNode
<1>2. printed' \subseteq Messages BY <1>1, Running DEF Report, Messages
<1>3. <<>> \in Seq(Activations) OBVIOUS
<1>4. Calls(<<>>) BY <1>1 DEF Returns
<1> QED BY <1>1, <1>2, <1>3, <1>4, Running, ContextOK, QuietStep

LEMMA UndefinedStep ==
  ASSUME GInv, Undefined, before' = before
  PROVE  GInv' /\ Grows
<1>1. /\ status = "generating" /\ status' = "undefined"
      /\ UNCHANGED <<ast, output, stackSize, tables, calls, printed>>
  BY DEF Undefined
<1>2. UNCHANGED <<bytecode, starts>> BY <1>1 DEF output
<1>3. TablesOK' /\ Begun' /\ CodeOK(bytecode, starts)'
  BY <1>1, <1>2, ContextOK DEF GInv, Begun
<1>4. Seq(Activations)' = Seq(Activations) BY <1>1 DEF Activations, Suits
<1>5. Grows BY <1>2 DEF Grows
<1> QED BY <1>1, <1>3, <1>4, <1>5 DEF GInv

\* The first instruction of a generateCode, on its own, is all there is.
LEMMA JumpAlone == CodeOK(<<JMP, 0, 1>>, {0}) /\ <<JMP, 0, 1>>[1] = JMP
<1> DEFINE j == <<JMP, 0, 1>>
<1>1. /\ j \in Seq(Byte) /\ Len(j) = 3 /\ j[1] = JMP /\ Whole(j)
  <2>1. JMP \in Byte /\ 0 \in Byte /\ 1 \in Byte BY DEF Byte, JMP
  <2> QED BY <2>1, WholeJump
<1> HIDE DEF j
<1>2. Meant(j, 0) /\ LengthAt(j, 0) = 3 BY <1>1 DEF Whole
<1>3. CodeOK(j, {0}) BY <1>1, <1>2 DEF CodeOK
<1> QED BY <1>1, <1>3 DEF j

LEMMA ProgramCall ==
  ASSUME GInv
  PROVE  <<Scope(1)>> \in Seq(Activations)
<1>1. 1 \in Ref(ast) /\ ast[1].type = "PROGRAM"
  <2>1. Len(ast) \in Nat BY LenProperties DEF GInv, IsTree
  <2> QED BY <2>1 DEF GInv, IsTree, Ref
<1>2. Scope(1) \in Activations BY <1>1, ScopeCall
<1> QED BY <1>2

LEMMA StartStep ==
  ASSUME GInv, generateCode, before' = before
  PROVE  GInv' /\ Grows
<1>1. /\ status = "idle" /\ status' = "generating"
      /\ bytecode' = bytecode \o (<<JMP>> \o encode(MainAddress))
      /\ starts' = starts \cup {Len(bytecode)}
      /\ functions' = [x \in {"main"} |-> MainAddress]
      /\ calls' = <<Scope(1)>>
      /\ UNCHANGED <<ast, stackSize, identifiers, unresolvedCalls, registers,
                     printed>>
  BY DEF generateCode, Emit
<1>2. bytecode = <<>> /\ starts = {} BY <1>1 DEF GInv, Begun
<1>3. bytecode' = <<JMP, 0, 1>> /\ starts' = {0}
  <2>1. bytecode' = <<>> \o <<JMP, 0, 1>> BY <1>1, <1>2, WholeJump
  <2>2. <<JMP, 0, 1>> \in Seq({JMP, 0, 1}) OBVIOUS
  <2>3. <<>> \o <<JMP, 0, 1>> = <<JMP, 0, 1>> BY <2>2, ConcatEmptySeq
  <2> QED BY <1>1, <1>2, <2>1, <2>3
<1>4. CodeOK(bytecode', starts') /\ Begun' BY <1>1, <1>3, JumpAlone DEF Begun
<1>5. calls' \in Seq(Activations)' BY <1>1, ProgramCall DEF Activations, Suits
<1>6. TablesOK' BY <1>1 DEF GInv, TablesOK
<1>7. Grows BY <1>2 DEF Grows
<1> QED BY <1>1, <1>4, <1>5, <1>6, <1>7 DEF GInv

LEMMA AgainStep ==
  ASSUME GInv, generateAgain
  PROVE  GInv' /\ before' # before
<1>1. /\ status = "generated" /\ before = <<>> /\ status' = "generating"
      /\ bytecode' = <<JMP>> \o encode(MainAddress) /\ starts' = {0}
      /\ calls' = <<Scope(1)>> /\ before' = bytecode
      /\ UNCHANGED <<ast, stackSize, tables, printed>>
  BY DEF generateAgain
<1>2. bytecode' = <<JMP, 0, 1>> BY <1>1, WholeJump
<1>3. functions' = [x \in {"main"} |-> MainAddress]
  BY <1>1 DEF GInv, Begun, tables
<1>4. CodeOK(bytecode', starts') /\ Begun'
  BY <1>1, <1>2, <1>3, JumpAlone DEF Begun
<1>5. calls' \in Seq(Activations)' BY <1>1, ProgramCall DEF Activations, Suits
<1>6. TablesOK' BY <1>1, ContextOK
<1>7. bytecode \in Seq(Byte) /\ bytecode # <<>>
  <2>1. CodeOK(bytecode, starts) /\ 0 \in starts BY <1>1 DEF GInv, Begun
  <2>2. 0 < Len(bytecode) /\ bytecode \in Seq(Byte) BY <2>1 DEF CodeOK
  <2> QED BY <2>2, EmptySeq
<1>8. before' # before BY <1>1, <1>7
<1> QED BY <1>1, <1>4, <1>5, <1>6, <1>7, <1>8 DEF GInv

LEMMA FinishStep ==
  ASSUME GInv, finishCode, before' = before
  PROVE  GInv' /\ Grows
<1> DEFINE c == bytecode \o <<HALT>>
           st == starts \cup {Len(bytecode)}
           d == Patched(c, {[at |-> 1, address |-> MainAddress]})
<1>1. /\ status = "generating" /\ status' = "generated" /\ starts' = st
      /\ bytecode' = Patched(Patched(Append(bytecode, HALT), {MainPatch}),
                             ResolvedCalls)
      /\ printed' = printed \cup
           (IF DOMAIN unresolvedCalls \subseteq DOMAIN functions
            THEN {} ELSE {"Unresolved function call"})
      /\ UNCHANGED <<ast, stackSize, tables, calls>>
  BY DEF finishCode
<1>2. /\ functions = [x \in {"main"} |-> MainAddress]
      /\ CodeOK(bytecode, starts) /\ 0 \in starts /\ bytecode[1] = JMP
      /\ bytecode \in Seq(Byte)
  BY <1>1 DEF GInv, Begun, CodeOK
<1>3. bytecode # <<>> /\ 1 \in DOMAIN bytecode
  <2>1. 0 < Len(bytecode) BY <1>2 DEF CodeOK
  <2>2. 1 \in 1 .. Len(bytecode) BY <1>2, <2>1, LenProperties
  <2> QED BY <1>2, <2>1, <2>2, EmptySeq, LenProperties
<1>4. /\ CodeOK(c, st)
      /\ \A k \in DOMAIN bytecode : k \in DOMAIN c /\ c[k] = bytecode[k]
  BY <1>2, <1>3, WholeOne, AppendInstruction
<1>5. Append(bytecode, HALT) = c
  <2>1. HALT \in Byte BY DEF HALT, Byte
  <2> QED BY <1>2, <2>1, AppendIsConcat
<1>6. MainPatch = [at |-> 1, address |-> MainAddress] BY <1>2 DEF MainPatch
<1> HIDE DEF c, d
<1>7. bytecode' = Patched(d, {})
  BY <1>1, <1>5, <1>6, NothingResolved DEF d
<1>8. /\ CodeOK(d, st) /\ d[1] = JMP
      /\ \A i \in DOMAIN c \ {2, 3} : i \in DOMAIN d /\ d[i] = c[i]
  <2>1. c[1] = JMP /\ 0 \in st BY <1>2, <1>3, <1>4
  <2> QED BY <1>4, <2>1, PatchedOK DEF d
<1>9. bytecode' = d BY <1>7, <1>8, NoPatch DEF CodeOK
<1>10. CodeOK(bytecode', starts') /\ Begun'
  BY <1>1, <1>2, <1>8, <1>9 DEF Begun, tables
<1>11. printed' \subseteq Messages BY <1>1 DEF GInv, Messages
<1>12. calls' \in Seq(Activations)' BY <1>1 DEF GInv, Activations, Suits
<1>13. TablesOK' BY <1>1, ContextOK
<1>14. Grows BY <1>4, <1>8, <1>9 DEF Grows
<1> QED BY <1>1, <1>10, <1>11, <1>12, <1>13, <1>14 DEF GInv

-----------------------------------------------------------------------------
(* Null pointers.  The nodes of the activations stay among those that are  *)
(* reached from the program, whatever else is in the tree.                 *)

Fits(a, S) ==
  /\ a.node \in S
  /\ a.function = "generateComparisonExpression" =>
       ast[a.node].type = "COMPARISON_EXPRESSION"

Within(S) == \A i \in DOMAIN calls : Fits(calls[i], S)

NoNull ==
  \A S \in SUBSET DOMAIN ast :
    IsWhole(S) /\ Castable(S) => Within(S) /\ status # "undefined"

LEMMA Places ==
  ASSUME NEW n \in Nat, NEW k \in Nat, NEW i \in 1 .. k + (n - 1)
  PROVE  /\ i <= k => i \in 1 .. k
         /\ ~(i <= k) => i - k \in 1 .. n - 1 /\ (i - k) + 1 \in 1 .. n
OBVIOUS

LEMMA WithinStep ==
  ASSUME GInv, calls # <<>>, NEW S, Within(S), ast' = ast,
         NEW T, NEW as \in Seq(T), \A i \in DOMAIN as : Fits(as[i], S), Calls(as)
  PROVE  Within(S)'
<1> DEFINE U == T \cup Activations
           t == Tail(calls)
           c == as \o t
<1>1. calls \in Seq(Activations) /\ t \in Seq(Activations) /\ Len(t) = Len(calls) - 1
      /\ \A i \in 1 .. Len(calls) - 1 : t[i] = calls[i + 1]
  BY HeadTailProperties DEF GInv
<1>2. /\ DOMAIN calls = 1 .. Len(calls) /\ Len(calls) \in Nat
      /\ DOMAIN as = 1 .. Len(as) /\ Len(as) \in Nat
  BY <1>1, LenProperties
<1>3. as \in Seq(U) /\ t \in Seq(U)
  <2>1. T \subseteq U /\ Activations \subseteq U OBVIOUS
  <2>2. t \in Seq(Activations) BY <1>1
  <2> HIDE DEF U, t
  <2> QED BY <2>1, <2>2, SeqMonotonic
<1> HIDE DEF U, t
<1>4. /\ c \in Seq(U) /\ Len(c) = Len(as) + Len(t)
      /\ \A i \in 1 .. Len(as) + Len(t) :
           c[i] = IF i <= Len(as) THEN as[i] ELSE t[i - Len(as)]
  BY <1>3, ConcatProperties
<1>5. calls' = c BY DEF Calls, t
<1> HIDE DEF c
<1>6. PICK n \in Nat, k \in Nat : n = Len(calls) /\ k = Len(as) BY <1>2
<1>7. /\ DOMAIN calls = 1 .. n /\ DOMAIN as = 1 .. k /\ DOMAIN c = 1 .. k + (n - 1)
      /\ \A i \in 1 .. k + (n - 1) : c[i] = IF i <= k THEN as[i] ELSE t[i - k]
      /\ \A i \in 1 .. n - 1 : t[i] = calls[i + 1]
  BY <1>1, <1>2, <1>4, <1>6, LenProperties
<1>8. ASSUME NEW i \in 1 .. k + (n - 1) PROVE Fits(c[i], S)
  <2>1. CASE i <= k
    <3>1. i \in 1 .. k BY <2>1, Places
    <3> QED BY <1>7, <2>1, <3>1
  <2>2. CASE ~(i <= k)
    <3>1. i - k \in 1 .. n - 1 /\ (i - k) + 1 \in 1 .. n BY <2>2, Places
    <3>2. c[i] = calls[(i - k) + 1] BY <1>7, <2>2, <3>1
    <3> QED BY <1>7, <3>1, <3>2 DEF Within
  <2> QED BY <2>1, <2>2
<1>9. \A i \in DOMAIN calls' : Fits(calls'[i], S) BY <1>5, <1>7, <1>8
<1> QED BY <1>9 DEF Within, Fits

LEMMA ReturnsWithin ==
  ASSUME GInv, calls # <<>>, NEW S, Within(S), ast' = ast, Returns
  PROVE  Within(S)'
<1>1. <<>> \in Seq({}) /\ DOMAIN <<>> = {} OBVIOUS
<1> QED BY <1>1, WithinStep DEF Returns

LEMMA OneWithin ==
  ASSUME GInv, calls # <<>>, NEW S, Within(S), ast' = ast, NEW a, Fits(a, S),
         Calls(<<a>>)
  PROVE  Within(S)'
<1>1. <<a>> \in Seq({a}) /\ DOMAIN <<a>> = {1} /\ <<a>>[1] = a OBVIOUS
<1> QED BY <1>1, WithinStep

LEMMA TwoWithin ==
  ASSUME GInv, calls # <<>>, NEW S, Within(S), ast' = ast, NEW a, Fits(a, S),
         NEW b, Fits(b, S), Calls(<<a, b>>)
  PROVE  Within(S)'
<1>1. /\ <<a, b>> \in Seq({a, b}) /\ DOMAIN <<a, b>> = {1, 2}
      /\ <<a, b>>[1] = a /\ <<a, b>>[2] = b
  OBVIOUS
<1> QED BY <1>1, WithinStep

LEMMA ThreeWithin ==
  ASSUME GInv, calls # <<>>, NEW S, Within(S), ast' = ast, NEW a, Fits(a, S),
         NEW b, Fits(b, S), NEW c, Fits(c, S), Calls(<<a, b, c>>)
  PROVE  Within(S)'
<1>1. /\ <<a, b, c>> \in Seq({a, b, c}) /\ DOMAIN <<a, b, c>> = {1, 2, 3}
      /\ <<a, b, c>>[1] = a /\ <<a, b, c>>[2] = b /\ <<a, b, c>>[3] = c
  OBVIOUS
<1> QED BY <1>1, WithinStep

\* The children that are called are in a whole tree, and it has no null.
LEMMA Child ==
  ASSUME GInv, NEW S \in SUBSET DOMAIN ast, IsWhole(S), NEW n \in S
  PROVE  /\ n \in Ref(ast) /\ n # 0
         /\ ast[n].type \in {"BINARY_EXPRESSION", "COMPARISON_EXPRESSION"} =>
              ast[n].left \in S /\ ast[n].right \in S
         /\ ast[n].type \in {"LET", "RETURN"} => ast[n].expression \in S
         /\ ast[n].type = "WHILE" => ast[n].condition \in S
         /\ ast[n].type \in {"PROGRAM", "WHILE"} =>
              \A i \in DOMAIN ast[n].body : ast[n].body[i] \in S
<1>1. Len(ast) \in Nat /\ DOMAIN ast = 1 .. Len(ast) /\ IsTree(ast)
  BY LenProperties DEF GInv, IsTree
<1>2. n \in Ref(ast) /\ n # 0 BY <1>1 DEF Ref
<1>3. Children(n) \subseteq S BY DEF IsWhole
<1> QED BY <1>2, <1>3 DEF Children

\* An activation of a node in S, of any function but the comparison's.
LEMMA FitsOther ==
  ASSUME NEW S, NEW f, NEW n \in S, NEW r, NEW k, f # "generateComparisonExpression"
  PROVE  Fits(Activation(f, n, r, k), S)
BY DEF Fits, Activation

LEMMA FitsCalls ==
  ASSUME NEW S, NEW n \in S, NEW r
  PROVE  /\ Fits(Expression(n, r), S) /\ Fits(Scope(n), S) /\ Fits(CallFor(n), S)
         /\ ast[n].type = "COMPARISON_EXPRESSION" => Fits(Comparison(n), S)
<1>1. Fits(Expression(n, r), S) /\ Fits(Scope(n), S) BY FitsOther DEF Expression, Scope
<1>2. ast[n].type = "COMPARISON_EXPRESSION" => Fits(Comparison(n), S)
  BY DEF Fits, Comparison, Activation
<1>3. Fits(CallFor(n), S)
  <2>1. Fits(Expression(n, sp), S) BY FitsOther DEF Expression
  <2>2. \A f : f # "generateComparisonExpression" => Fits(Then(f, n, sp), S)
    BY FitsOther DEF Then
  <2> QED BY <2>1, <2>2 DEF CallFor
<1> QED BY <1>1, <1>2, <1>3

-----------------------------------------------------------------------------
(* The theorems.                                                           *)

LEMMA ConstructedGInv ==
  ASSUME IsTree(ast), Constructed
  PROVE  GInv
<1>1. <<>> \in Seq(Byte) /\ <<>> \in Seq(Activations) /\ Len(<<>>) = 0 OBVIOUS
<1>2. CodeOK(bytecode, starts) BY <1>1 DEF Constructed, CodeOK
<1>3. DOMAIN identifiers = {} /\ DOMAIN unresolvedCalls = {} BY DEF Constructed
<1>4. TablesOK BY <1>3 DEF Constructed, TablesOK
<1>5. stackSize \in Word BY DEF Constructed, Word
<1> QED BY <1>1, <1>2, <1>4, <1>5 DEF Constructed, GInv, Begun

LEMMA GenerateStep ==
  ASSUME GInv, generate, before' = before
  PROVE  GInv' /\ Grows
BY ScopeStep, ReturnStep, LetStep, WhileStep, CloseLoopStep, LiteralStep,
   ComparisonStep, MoveStep, CompareStep, BinaryStep, OperatorStep,
   OperatorRegStep, IdentifierStep, CallStep, UnknownStep, UndefinedStep,
   StartStep, FinishStep
   DEF generate

LEMMA StutterStep ==
  ASSUME GInv, UNCHANGED vars
  PROVE  GInv' /\ Grows
<1>1. UNCHANGED <<ast, bytecode, starts, stackSize, calls, status, printed, before,
                  identifiers, functions, unresolvedCalls, registers>>
  BY DEF vars, output, tables
<1>2. TablesOK' /\ Begun' /\ CodeOK(bytecode, starts)'
  BY <1>1 DEF GInv, TablesOK, Begun
<1>3. Seq(Activations)' = Seq(Activations) BY <1>1 DEF Activations, Suits
<1> QED BY <1>1, <1>2, <1>3 DEF GInv, Grows

LEMMA GInvNext ==
  ASSUME GInv, [Next]_vars
  PROVE  GInv' /\ (before' = before => Grows)
BY GenerateStep, AgainStep, StutterStep DEF Next

LEMMA GInvTypes ==
  ASSUME GInv
  PROVE  TypeOK /\ Boundaries
<1>1. Len(bytecode) \in Nat BY LenProperties DEF GInv, CodeOK
<1>2. starts \subseteq 0 .. Len(bytecode)
  <2> DEFINE n == Len(bytecode)
  <2>1. \A o \in starts : o \in Nat /\ o < n BY DEF GInv, CodeOK
  <2>2. n \in Nat BY <1>1
  <2> HIDE DEF n
  <2>3. \A o \in starts : o \in 0 .. n BY <2>1, <2>2
  <2> QED BY <2>3 DEF n
<1>3. DOMAIN functions \subseteq {"main"} /\ \A x \in DOMAIN functions : functions[x] \in Word
  <2>1. MainAddress \in Word BY DEF MainAddress, Word
  <2> QED BY <2>1 DEF GInv, Begun
<1>4. calls \in Seq([function : FunctionNames, node : Ref(ast), reg : {sp, ret},
                    at : Nat])
  <2> DEFINE R == [function : FunctionNames, node : Ref(ast), reg : {sp, ret},
                   at : Nat]
  <2>1. Activations \subseteq R BY DEF Activations
  <2>2. calls \in Seq(Activations) BY DEF GInv
  <2> HIDE DEF R
  <2>3. calls \in Seq(R) BY <2>1, <2>2
  <2> QED BY <2>3 DEF R
<1>5. TypeOK BY <1>2, <1>3, <1>4 DEF TypeOK, GInv, CodeOK, TablesOK
<1>6. Boundaries BY DEF Boundaries, GInv, CodeOK, Begun
<1> QED BY <1>5, <1>6

\* No step of a generator that keeps to a whole tree leaves it.
LEMMA GenerateWithin ==
  ASSUME GInv, generate, NEW S \in SUBSET DOMAIN ast, IsWhole(S), Castable(S),
         Within(S), status # "undefined"
  PROVE  Within(S)' /\ status' # "undefined"
<1>1. calls # <<>> => Fits(Top, S)
  <2>1. calls # <<>> => 1 \in DOMAIN calls /\ Top = calls[1]
    BY EmptySeq, LenProperties, HeadTailProperties DEF GInv, Top
  <2> QED BY <2>1 DEF Within
<1>2. ASSUME NEW f, In(f)
      PROVE  /\ calls # <<>> /\ Top.node \in S /\ Top.function = f /\ Suits(Top)
             /\ Top.node # 0 /\ Here = ast[Top.node]
             /\ status' = status => status' # "undefined"
  BY <1>1, <1>2, Running DEF Fits
<1>3. CASE generateCode
  <2>1. calls' = <<Scope(1)>> /\ ast' = ast /\ status' = "generating"
    BY <1>3 DEF generateCode
  <2>2. 1 \in S BY DEF IsWhole
  <2>3. Fits(Scope(1), S) BY <2>2, FitsCalls
  <2>4. \A i \in DOMAIN calls' : Fits(calls'[i], S) BY <2>1, <2>3
  <2> QED BY <2>1, <2>4 DEF Within, Fits
<1>4. CASE finishCode
  <2>1. UNCHANGED <<calls, ast>> /\ status' = "generated" BY <1>4 DEF finishCode
  <2> QED BY <2>1 DEF Within, Fits
<1>5. CASE generateScope
  <2> DEFINE s == Here.body[Top.at]
             b == [Top EXCEPT !.at = @ + 1]
  <2>1. /\ In("generateScope") /\ Context /\ Calls(<<CallFor(s), b>>)
        /\ Top.at <= Len(Here.body)
    BY <1>5 DEF generateScope
  <2>2. Here.type \in {"PROGRAM", "WHILE"} /\ Top.at >= 1 /\ Top.at \in Nat
    BY <1>2, <2>1, Running DEF Suits
  <2>3. Here.body \in Seq(Ref(ast)) BY <2>1, <2>2, Running, NodeFields
  <2>4. Top.at \in DOMAIN Here.body
    <3>1. Len(Here.body) \in Nat /\ DOMAIN Here.body = 1 .. Len(Here.body)
      BY <2>3, LenProperties
    <3> QED BY <2>1, <2>2, <3>1
  <2>5. s \in S BY <1>2, <2>1, <2>2, <2>4, Child
  <2>6. Top \in Activations BY <1>2, <2>1, TopTyped
  <2>7. b.node = Top.node /\ b.function = "generateScope"
    BY <1>2, <2>1, <2>6 DEF Activations
  <2>8. Fits(b, S) BY <1>2, <2>1, <2>7 DEF Fits
  <2> HIDE DEF s, b
  <2>9. Fits(CallFor(s), S) BY <2>5, FitsCalls
  <2> QED BY <1>2, <2>1, <2>8, <2>9, TwoWithin DEF Context
<1>6. CASE Returns /\ ast' = ast /\ status' = status /\ \E f : In(f)
  BY <1>2, <1>6, ReturnsWithin
<1>7. \/ endScope \/ emitReturn \/ closeLoop \/ generateNumericLiteral \/ moveResult
      \/ generateCompareOperator \/ generateOperator \/ generateOperatorReg
      \/ generateIdentifier \/ generateCall \/ unknownNode
      => Returns /\ ast' = ast /\ status' = status /\ \E f : In(f)
  BY DEF endScope, emitReturn, closeLoop, generateNumericLiteral, moveResult,
     generateCompareOperator, generateOperator, generateOperatorReg,
     generateIdentifier, generateCall, unknownNode, Context, InExpression
<1>8. CASE generateReturnStatement
  <2> DEFINE a == Expression(Here.expression, ret)
             b == Then("emitReturn", Top.node, ret)
  <2>1. In("generateReturnStatement") /\ Context /\ Calls(<<a, b>>)
    BY <1>8 DEF generateReturnStatement
  <2>2. Here.type = "RETURN" BY <1>2, <2>1 DEF Suits
  <2>3. Here.expression \in S BY <1>2, <2>1, <2>2, Child
  <2>4. Fits(a, S) BY <2>3, FitsCalls
  <2>5. Fits(b, S) BY <1>2, <2>1, FitsOther DEF Then
  <2> HIDE DEF a, b
  <2> QED BY <1>2, <2>1, <2>4, <2>5, TwoWithin DEF Context
<1>9. CASE generateLetStatement
  <2> DEFINE a == Expression(Here.expression, sp)
  <2>1. /\ In("generateLetStatement") /\ ast' = ast /\ status' = status
        /\ Returns \/ Calls(<<a>>)
    BY <1>9 DEF generateLetStatement
  <2>2. Here.type = "LET" BY <1>2, <2>1 DEF Suits
  <2>3. Here.expression \in S BY <1>2, <2>1, <2>2, Child
  <2>4. Fits(a, S) BY <2>3, FitsCalls
  <2> HIDE DEF a
  <2> QED BY <1>2, <2>1, <2>4, OneWithin, ReturnsWithin
<1>10. CASE generateWhileStatement
  <2> DEFINE a == Scope(Top.node)
             b == Comparison(Here.condition)
             c == Activation("closeLoop", Top.node, sp, U16(Len(bytecode)))
  <2>1. In("generateWhileStatement") /\ Context /\ Calls(<<a, b, c>>)
    BY <1>10 DEF generateWhileStatement
  <2>2. Here.type = "WHILE" BY <1>2, <2>1 DEF Suits
  <2>3. Here.condition \in S BY <1>2, <2>1, <2>2, Child
  <2>4. ast[Here.condition].type = "COMPARISON_EXPRESSION"
    BY <1>2, <2>1, <2>2 DEF Castable
  <2>5. Fits(a, S) BY <1>2, <2>1, FitsCalls
  <2>6. Fits(b, S) BY <2>3, <2>4, FitsCalls
  <2>7. Fits(c, S) BY <1>2, <2>1, FitsOther
  <2> HIDE DEF a, b, c
  <2> QED BY <1>2, <2>1, <2>5, <2>6, <2>7, ThreeWithin DEF Context
<1>11. CASE generateComparison
  <2> DEFINE a == Comparison(Top.node)
             b == Then("moveResult", Top.node, Top.reg)
  <2>1. /\ In("generateExpression") /\ Here.type = "COMPARISON_EXPRESSION"
        /\ Context /\ Calls(<<a, b>>)
    BY <1>11 DEF generateComparison, InExpression
  <2>2. Fits(a, S) BY <1>2, <2>1, FitsCalls
  <2>3. Fits(b, S) BY <1>2, <2>1, FitsOther DEF Then
  <2> HIDE DEF a, b
  <2> QED BY <1>2, <2>1, <2>2, <2>3, TwoWithin DEF Context
<1>12. ASSUME NEW f, In(f), Here.type \in {"BINARY_EXPRESSION", "COMPARISON_EXPRESSION"},
              NEW g, g # "generateComparisonExpression", NEW r, Context,
              Calls(<<Expression(Here.left, sp), Expression(Here.right, sp),
                      Then(g, Top.node, r)>>)
       PROVE  Within(S)' /\ status' # "undefined"
  <2> DEFINE a == Expression(Here.left, sp)
             b == Expression(Here.right, sp)
             c == Then(g, Top.node, r)
  <2>1. Here.left \in S /\ Here.right \in S BY <1>2, <1>12, Child
  <2>2. Fits(a, S) /\ Fits(b, S) BY <2>1, FitsCalls
  <2>3. Fits(c, S) BY <1>2, <1>12, FitsOther DEF Then
  <2>4. Calls(<<a, b, c>>) BY <1>12
  <2> HIDE DEF a, b, c
  <2> QED BY <1>2, <1>12, <2>2, <2>3, <2>4, ThreeWithin DEF Context
<1>13. CASE generateComparisonExpression
  BY <1>12, <1>13 DEF generateComparisonExpression
<1>14. CASE generateBinaryExpression
  BY <1>12, <1>14 DEF generateBinaryExpression, InExpression
<1>15. ~Undefined
  <2>1. calls # <<>> => Top.node \in S BY <1>1 DEF Fits
  <2>2. calls # <<>> => Top.node # 0 BY <2>1, Child
  <2> QED BY <1>1, <2>2 DEF Undefined, Fits, Here
<1> QED
  BY <1>3, <1>4, <1>5, <1>6, <1>7, <1>8, <1>9, <1>10, <1>11, <1>13, <1>14, <1>15
  DEF generate

LEMMA ConstructedNoNull == ASSUME Constructed PROVE NoNull
BY DEF Constructed, NoNull, Within

LEMMA NoNullNext == ASSUME GInv, NoNull, [Next]_vars PROVE NoNull'
<1>1. ast' = ast
  BY DEF Next, vars, generate, generateCode, finishCode, generateScope, endScope,
     generateReturnStatement, emitReturn, generateLetStatement,
     generateWhileStatement, closeLoop, generateNumericLiteral, generateComparison,
     moveResult, generateComparisonExpression, generateCompareOperator,
     generateBinaryExpression, generateOperator, generateOperatorReg,
     generateIdentifier, generateCall, unknownNode, Undefined, Context, generateAgain
<1>0. /\ \A n : Children(n)' = Children(n)
      /\ \A S : (IsWhole(S)' <=> IsWhole(S)) /\ (Castable(S)' <=> Castable(S))
  <2>1. \A n : Children(n)' = Children(n) BY <1>1 DEF Children
  <2> QED BY <1>1, <2>1 DEF IsWhole, Castable
<1> SUFFICES ASSUME NEW S \in SUBSET DOMAIN ast, IsWhole(S), Castable(S)
             PROVE  Within(S)' /\ status' # "undefined"
  BY <1>0, <1>1 DEF NoNull
<1>2. Within(S) /\ status # "undefined" BY DEF NoNull
<1>3. CASE generate BY <1>2, <1>3, GenerateWithin
<1>4. CASE generateAgain
  <2>1. calls' = <<Scope(1)>> /\ status' = "generating" BY <1>4 DEF generateAgain
  <2>2. 1 \in S BY DEF IsWhole
  <2>3. Fits(Scope(1), S) BY <2>2, FitsCalls
  <2>4. \A i \in DOMAIN calls' : Fits(calls'[i], S) BY <2>1, <2>3
  <2> QED BY <1>1, <2>1, <2>4 DEF Within, Fits
<1>5. CASE UNCHANGED vars
  <2>1. UNCHANGED <<calls, status>> BY <1>5 DEF vars
  <2> QED BY <1>1, <1>2, <2>1 DEF Within, Fits
<1> QED BY <1>3, <1>4, <1>5 DEF Next

\* For every tree, in every state of the generator: the bytes, the tables, the
\* activations that wait and what the first call left are as GInv says, each
\* part being what keeps another.
THEOREM GeneratorInvariant == Spec => []GInv
<1>1. Init => GInv BY ConstructedGInv, TreesAssumption DEF Init
<1>2. GInv /\ [Next]_vars => GInv' BY GInvNext
<1> QED BY <1>1, <1>2, PTL DEF Spec

\* For every tree the generator may be constructed with, its tables, its
\* stack of calls and its output are of their types: the offset of a variable
\* and the position of a call to patch are bytes, the address of a function a
\* word, an activation refers to nodes that exist.
THEOREM GeneratorTypes == Spec => []TypeOK
<1>1. GInv => TypeOK BY GInvTypes
<1> QED BY <1>1, GeneratorInvariant, PTL

\* For every tree, the bytes generated so far, read from the first one the way
\* the machine's handlers consume them, are the instructions that were meant:
\* no patch, no operand, no length of a jump makes an operand byte an opcode,
\* also when generateCode is called again on the tables a first call left.
THEOREM GeneratorBoundaries == Spec => []Boundaries
<1>1. GInv => Boundaries BY GInvTypes
<1> QED BY <1>1, GeneratorInvariant, PTL

\* For every tree, a byte that was generated stays what it was, but for the
\* operand of the JMP in front: the patches of resolveUnresolvedCalls, whose
\* positions are kept in eight bits, never reach another one.
THEOREM GeneratorAppends == Spec => AppendOnly
<1>1. GInv /\ [Next]_vars =>
        [before' = before => \A i \in DOMAIN bytecode \ {2, 3} :
           i \in DOMAIN bytecode' /\ bytecode'[i] = bytecode[i]]_vars
  BY GInvNext DEF Grows
<1> QED BY <1>1, GeneratorInvariant, PTL DEF Spec, AppendOnly

\* For every tree, and both calls of generateCode: the generator follows a null
\* pointer, or casts a node to what it is not, only if one that is reached from
\* the program has a child missing, or a while condition that is no comparison.
THEOREM GeneratorFollowsNoNull == Spec => []FollowsNoNull
<1>1. Init => GInv /\ NoNull
  BY ConstructedGInv, ConstructedNoNull, TreesAssumption DEF Init
<1>2. GInv /\ NoNull /\ [Next]_vars => NoNull' BY NoNullNext
<1>3. NoNull => FollowsNoNull BY DEF NoNull, FollowsNoNull
<1> QED BY <1>1, <1>2, <1>3, GeneratorInvariant, PTL DEF Spec

-----------------------------------------------------------------------------
(* The same code again.  What the generator does next is a function of the *)
(* code it has and the calls that wait, if no variable is ever defined, so *)
(* that a second call can be followed along what the first one did.        *)

NoLet == \A n \in DOMAIN ast : ast[n].type # "LET"

\* The code and the calls there are.
Now == [code |-> bytecode, calls |-> calls]

Asked(m, as) == [code |-> m.code, calls |-> as \o Tail(m.calls)]
Emitting(m, i) == [code |-> m.code \o i, calls |-> <<>> \o Tail(m.calls)]

\* What an expression of the node n is generated to.
ExpressionAfter(m, top, n) ==
  CASE n.type = "NUMERIC_LITERAL" -> Emitting(m, <<PSH_LIT>> \o encode(n.value))
    [] n.type = "COMPARISON_EXPRESSION" ->
         Asked(m, <<Comparison(top.node), Then("moveResult", top.node, top.reg)>>)
    [] n.type = "BINARY_EXPRESSION" ->
         Asked(m, <<Expression(n.left, sp), Expression(n.right, sp),
                    Then("generateOperator", top.node, top.reg)>>)
    [] n.type = "CALL_EXPRESSION" ->
         Emitting(m, IF n.name = "main" THEN <<JMP>> \o encode(MainAddress)
                                        ELSE <<JMP, 0, 0>>)
    [] OTHER -> Asked(m, <<>>)

\* What comes after the code and the calls of m.
After(m) ==
  LET top == Head(m.calls)
      n == ast[top.node]
      f == top.function
  IN  CASE f = "generateScope" ->
             IF top.at <= Len(n.body)
             THEN Asked(m, <<CallFor(n.body[top.at]), [top EXCEPT !.at = @ + 1]>>)
             ELSE Asked(m, <<>>)
        [] f = "generateReturnStatement" ->
             Asked(m, <<Expression(n.expression, ret), Then("emitReturn", top.node, ret)>>)
        [] f = "emitReturn" -> Emitting(m, <<RET>>)
        [] f = "generateWhileStatement" ->
             Asked(m, <<Scope(top.node), Comparison(n.condition),
                        Activation("closeLoop", top.node, sp, U16(Len(m.code)))>>)
        [] f = "closeLoop" ->
             IF ast[n.condition].operator = "LESS_THAN"
             THEN Emitting(m, <<JLT>> \o encode(U16(U16(Len(m.code)) + 3 - top.at)))
             ELSE Asked(m, <<>>)
        [] f = "moveResult" -> Emitting(m, <<MOV, top.reg, imm>>)
        [] f = "generateComparisonExpression" ->
             Asked(m, <<Expression(n.left, sp), Expression(n.right, sp),
                        Then("generateCompareOperator", top.node, sp)>>)
        [] f = "generateCompareOperator" -> Emitting(m, <<CMP, sp>>)
        [] f = "generateOperator" ->
             Emitting(m, IF top.reg = sp THEN <<encodeOperator[n.operator]>>
                         ELSE <<encodeOperator[n.operator], POP_REG, ret>>)
        [] OTHER -> ExpressionAfter(m, top, n)

\* The code of a generation that ends with c.
Finished(c) == Patched(Append(c, HALT), {[at |-> 1, address |-> MainAddress]})

Beginning == [code |-> <<JMP>> \o encode(MainAddress), calls |-> <<Scope(1)>>]

\* tr is what n steps of a generation go through.
Course(tr, n) ==
  /\ n \in Nat
  /\ tr[0] = Beginning
  /\ \A i \in 0 .. n - 1 : tr[i].calls # <<>> /\ tr[i + 1] = After(tr[i])

\* The second call of generateCode is somewhere on the course of the first.
Repeats(tr, n) ==
  /\ Course(tr, n) /\ tr[n].calls = <<>>
  /\ before = Finished(tr[n].code)
  /\ status = "generating" => \E k \in 0 .. n : tr[k] = Now
  /\ status = "generated" => bytecode = before

Same ==
  NoLet =>
    /\ identifiers = <<>>
    /\ status = "idle" => before = <<>>
    /\ before = <<>> /\ status = "generating" =>
         \E n, tr : Course(tr, n) /\ tr[n] = Now
    /\ before = <<>> /\ status = "generated" =>
         \E n, tr : /\ Course(tr, n) /\ tr[n].calls = <<>>
                    /\ bytecode = Finished(tr[n].code)
    /\ before # <<>> => \E n, tr : Repeats(tr, n)

\* A step of an activation, no variable being there, is After.
LEMMA AfterTop ==
  ASSUME GInv, NoLet, identifiers = <<>>, status = "generating", calls # <<>>,
         generate, status' = "generating"
  PROVE  [code |-> bytecode', calls |-> calls'] = After(Now) /\ identifiers' = <<>>
<1> DEFINE n == Here
           f == Top.function
           m == Now
<1>1. /\ m.code = bytecode /\ m.calls = calls /\ Head(m.calls) = Top
      /\ ast[Top.node] = n
  BY DEF Now, Top, Here
<1>2. After(m) =
        CASE f = "generateScope" ->
             IF Top.at <= Len(n.body)
             THEN Asked(m, <<CallFor(n.body[Top.at]), [Top EXCEPT !.at = @ + 1]>>)
             ELSE Asked(m, <<>>)
        [] f = "generateReturnStatement" ->
             Asked(m, <<Expression(n.expression, ret), Then("emitReturn", Top.node, ret)>>)
        [] f = "emitReturn" -> Emitting(m, <<RET>>)
        [] f = "generateWhileStatement" ->
             Asked(m, <<Scope(Top.node), Comparison(n.condition),
                        Activation("closeLoop", Top.node, sp, U16(Len(bytecode)))>>)
        [] f = "closeLoop" ->
             IF ast[n.condition].operator = "LESS_THAN"
             THEN Emitting(m, <<JLT>> \o encode(U16(U16(Len(bytecode)) + 3 - Top.at)))
             ELSE Asked(m, <<>>)
        [] f = "moveResult" -> Emitting(m, <<MOV, Top.reg, imm>>)
        [] f = "generateComparisonExpression" ->
             Asked(m, <<Expression(n.left, sp), Expression(n.right, sp),
                        Then("generateCompareOperator", Top.node, sp)>>)
        [] f = "generateCompareOperator" -> Emitting(m, <<CMP, sp>>)
        [] f = "generateOperator" ->
             Emitting(m, IF Top.reg = sp THEN <<encodeOperator[n.operator]>>
                         ELSE <<encodeOperator[n.operator], POP_REG, ret>>)
        [] OTHER -> ExpressionAfter(m, Top, n)
  BY <1>1, Zenon DEF After
<1> DEFINE d == [code |-> bytecode', calls |-> calls']
<1> SUFFICES d = After(m) /\ identifiers' = <<>> OBVIOUS
<1>3. ASSUME NEW as, Calls(as), UNCHANGED output
      PROVE  d = Asked(m, as)
  BY <1>1, <1>3 DEF Calls, output, Asked
<1>4. ASSUME NEW i, Emit(i), Returns
      PROVE  d = Emitting(m, i)
  BY <1>1, <1>4 DEF Calls, Returns, Emit, Emitting
<1>5. ASSUME NEW g, In(g) PROVE Top.function = g /\ Top.node # 0
  BY <1>5 DEF In
<1>20. /\ ExpressionAfter(m, Top, n) =
            CASE n.type = "NUMERIC_LITERAL" -> Emitting(m, <<PSH_LIT>> \o encode(n.value))
              [] n.type = "COMPARISON_EXPRESSION" ->
                   Asked(m, <<Comparison(Top.node), Then("moveResult", Top.node, Top.reg)>>)
              [] n.type = "BINARY_EXPRESSION" ->
                   Asked(m, <<Expression(n.left, sp), Expression(n.right, sp),
                              Then("generateOperator", Top.node, Top.reg)>>)
              [] n.type = "CALL_EXPRESSION" ->
                   Emitting(m, IF n.name = "main" THEN <<JMP>> \o encode(MainAddress)
                                                  ELSE <<JMP, 0, 0>>)
              [] OTHER -> Asked(m, <<>>)
  BY Zenon DEF ExpressionAfter
<1>6. CASE generateScope
  <2>1. /\ f = "generateScope" /\ Top.at <= Len(n.body) /\ UNCHANGED <<output, identifiers>>
        /\ Calls(<<CallFor(n.body[Top.at]), [Top EXCEPT !.at = @ + 1]>>)
    BY <1>6 DEF generateScope, In, Context, tables
  <2> HIDE DEF n, f, m, d
  <2>2. After(m) = Asked(m, <<CallFor(n.body[Top.at]), [Top EXCEPT !.at = @ + 1]>>)
    BY <1>2, <2>1
  <2> QED BY <1>3, <2>1, <2>2
<1>7. CASE endScope
  <2>1. /\ f = "generateScope" /\ ~(Top.at <= Len(n.body)) /\ UNCHANGED <<output, identifiers>>
        /\ Calls(<<>>)
    <3>1. Top.at \in Nat /\ Top.node \in Ref(ast) /\ Top.node # 0 /\ Suits(Top)
          /\ f = "generateScope" /\ IsTree(ast)
      BY <1>7, TopTyped DEF endScope, In, GInv
    <3>2. n.body \in Seq(Ref(ast)) BY <3>1, NodeFields DEF Suits, Here
    <3>3. Len(n.body) \in Nat BY <3>2, LenProperties
    <3>4. Top.at > Len(n.body) /\ UNCHANGED <<output, identifiers>> /\ Calls(<<>>)
      BY <1>7 DEF endScope, Context, tables, Returns
    <3> QED BY <3>1, <3>3, <3>4
  <2> HIDE DEF n, f, m, d
  <2>2. After(m) = Asked(m, <<>>) BY <1>2, <2>1
  <2> QED BY <1>3, <2>1, <2>2
<1>8. CASE generateReturnStatement
  <2>1. /\ f = "generateReturnStatement" /\ UNCHANGED <<output, identifiers>>
        /\ Calls(<<Expression(n.expression, ret), Then("emitReturn", Top.node, ret)>>)
    BY <1>8 DEF generateReturnStatement, In, Context, tables
  <2> HIDE DEF n, f, m, d
  <2>2. After(m) = Asked(m, <<Expression(n.expression, ret), Then("emitReturn", Top.node, ret)>>)
    BY <1>2, <2>1
  <2> QED BY <1>3, <2>1, <2>2
<1>9. CASE emitReturn
  <2>1. f = "emitReturn" /\ UNCHANGED identifiers /\ Emit(<<RET>>) /\ Returns
    BY <1>9 DEF emitReturn, In, Context, tables
  <2> HIDE DEF n, f, m, d
  <2>2. After(m) = Emitting(m, <<RET>>) BY <1>2, <2>1
  <2> QED BY <1>4, <2>1, <2>2
<1>10. ~generateLetStatement
  <2>1. generateLetStatement => Top.node \in Ref(ast) /\ Top.node # 0 /\ n.type = "LET"
    BY Running DEF generateLetStatement, Suits, Here
  <2>2. Ref(ast) \subseteq {0} \cup DOMAIN ast
    BY LenProperties DEF GInv, IsTree, Ref
  <2> QED BY <2>1, <2>2 DEF NoLet, Here
<1>11. CASE generateWhileStatement
  <2>1. /\ f = "generateWhileStatement" /\ UNCHANGED <<output, identifiers>>
        /\ Calls(<<Scope(Top.node), Comparison(n.condition),
                   Activation("closeLoop", Top.node, sp, U16(Len(bytecode)))>>)
    BY <1>11 DEF generateWhileStatement, In, Context, tables
  <2> HIDE DEF n, f, m, d
  <2>2. After(m) = Asked(m, <<Scope(Top.node), Comparison(n.condition),
                     Activation("closeLoop", Top.node, sp, U16(Len(bytecode)))>>)
    BY <1>2, <2>1
  <2> QED BY <1>3, <2>1, <2>2
<1>12. CASE closeLoop
  <2> DEFINE i == <<JLT>> \o encode(U16(U16(Len(bytecode)) + 3 - Top.at))
  <2>1. /\ f = "closeLoop" /\ UNCHANGED identifiers /\ Returns
        /\ IF ast[n.condition].operator = "LESS_THAN" THEN Emit(i) ELSE UNCHANGED output
    BY <1>12 DEF closeLoop, In, Context, tables, LoopOffset
  <2>2. Calls(<<>>) BY <2>1 DEF Returns
  <2>4. After(m) = IF ast[n.condition].operator = "LESS_THAN"
                   THEN Emitting(m, i) ELSE Asked(m, <<>>)
    <3> HIDE DEF n, f, m, d
    <3> QED BY <1>2, <2>1
  <2> HIDE DEF n, f, m, d, i
  <2> QED BY <1>3, <1>4, <2>1, <2>2, <2>4
<1>13. CASE moveResult
  <2>1. f = "moveResult" /\ UNCHANGED identifiers /\ Emit(<<MOV, Top.reg, imm>>) /\ Returns
    BY <1>13 DEF moveResult, In, Context, tables
  <2> HIDE DEF n, f, m, d
  <2>2. After(m) = Emitting(m, <<MOV, Top.reg, imm>>) BY <1>2, <2>1
  <2> QED BY <1>4, <2>1, <2>2
<1>14. CASE generateComparisonExpression
  <2>1. /\ f = "generateComparisonExpression" /\ UNCHANGED <<output, identifiers>>
        /\ Calls(<<Expression(n.left, sp), Expression(n.right, sp),
                   Then("generateCompareOperator", Top.node, sp)>>)
    BY <1>14 DEF generateComparisonExpression, In, Context, tables
  <2> HIDE DEF n, f, m, d
  <2>2. After(m) = Asked(m, <<Expression(n.left, sp), Expression(n.right, sp),
                   Then("generateCompareOperator", Top.node, sp)>>)
    BY <1>2, <2>1
  <2> QED BY <1>3, <2>1, <2>2
<1>15. CASE generateCompareOperator
  <2>1. f = "generateCompareOperator" /\ UNCHANGED identifiers /\ Emit(<<CMP, sp>>) /\ Returns
    BY <1>15 DEF generateCompareOperator, In, tables
  <2> HIDE DEF n, f, m, d
  <2>2. After(m) = Emitting(m, <<CMP, sp>>) BY <1>2, <2>1
  <2> QED BY <1>4, <2>1, <2>2
<1>16. CASE generateOperator \/ generateOperatorReg
  <2> DEFINE i == IF Top.reg = sp THEN <<encodeOperator[n.operator]>>
                  ELSE <<encodeOperator[n.operator], POP_REG, ret>>
  <2>1. /\ f = "generateOperator" /\ UNCHANGED identifiers /\ Calls(<<>>)
        /\ bytecode' = bytecode \o i
    <3>1. sp # ret BY DEF sp, ret
    <3> QED BY <1>16, <3>1 DEF generateOperator, generateOperatorReg, In, tables, Emit, Returns
  <2>3. d = Emitting(m, i) BY <1>1, <2>1 DEF Calls, Emitting
  <2>4. After(m) = Emitting(m, i)
    <3> DEFINE j == IF Top.reg = sp THEN <<encodeOperator[n.operator]>>
                    ELSE <<encodeOperator[n.operator], POP_REG, ret>>
    <3> HIDE DEF n, f, m, d
    <3> QED BY <1>2, <2>1
  <2> QED BY <2>1, <2>3, <2>4
<1>17. CASE Top.function = "generateExpression"
  <2>1. After(m) = ExpressionAfter(m, Top, n)
    <3>1. f = "generateExpression" BY <1>17
    <3> HIDE DEF n, f, m, d
    <3> QED BY <1>2, <3>1
  <2>2. CASE generateNumericLiteral
    <3>1. /\ n.type = "NUMERIC_LITERAL" /\ UNCHANGED identifiers
          /\ Emit(<<PSH_LIT>> \o encode(n.value)) /\ Returns
      BY <2>2 DEF generateNumericLiteral, InExpression, Context, tables
    <3> HIDE DEF n, f, m, d
    <3>2. ExpressionAfter(m, Top, n) = Emitting(m, <<PSH_LIT>> \o encode(n.value))
      BY <1>20, <3>1
    <3> QED BY <1>4, <2>1, <3>1, <3>2
  <2>3. CASE generateComparison
    <3>1. /\ n.type = "COMPARISON_EXPRESSION" /\ UNCHANGED <<output, identifiers>>
          /\ Calls(<<Comparison(Top.node), Then("moveResult", Top.node, Top.reg)>>)
      BY <2>3 DEF generateComparison, InExpression, Context, tables
    <3> HIDE DEF n, f, m, d
    <3>2. ExpressionAfter(m, Top, n) =
            Asked(m, <<Comparison(Top.node), Then("moveResult", Top.node, Top.reg)>>)
      BY <1>20, <3>1
    <3> QED BY <1>3, <2>1, <3>1, <3>2
  <2>4. CASE generateBinaryExpression
    <3>1. /\ n.type = "BINARY_EXPRESSION" /\ UNCHANGED <<output, identifiers>>
          /\ Calls(<<Expression(n.left, sp), Expression(n.right, sp),
                     Then("generateOperator", Top.node, Top.reg)>>)
      BY <2>4 DEF generateBinaryExpression, InExpression, Context, tables
    <3> HIDE DEF n, f, m, d
    <3>2. ExpressionAfter(m, Top, n) =
            Asked(m, <<Expression(n.left, sp), Expression(n.right, sp),
                       Then("generateOperator", Top.node, Top.reg)>>)
      BY <1>20, <3>1
    <3> QED BY <1>3, <2>1, <3>1, <3>2
  <2>5. CASE generateIdentifier
    <3>1. Here.name \notin DOMAIN identifiers OBVIOUS
    <3>2. /\ n.type = "IDENTIFIER" /\ UNCHANGED <<output, identifiers>> /\ Calls(<<>>)
      BY <2>5, <3>1 DEF generateIdentifier, InExpression, Returns
    <3> HIDE DEF n, f, m, d
    <3>3. ExpressionAfter(m, Top, n) = Asked(m, <<>>)
      BY <1>20, <3>2
    <3> QED BY <1>3, <2>1, <3>2, <3>3
  <2>6. CASE generateCall
    <3> DEFINE i == IF n.name = "main" THEN <<JMP>> \o encode(MainAddress)
                                       ELSE <<JMP, 0, 0>>
    <3>1. functions = [x \in {"main"} |-> MainAddress] BY DEF GInv, Begun
    <3>2. /\ n.type = "CALL_EXPRESSION" /\ UNCHANGED identifiers /\ Emit(i) /\ Returns
      BY <2>6, <3>1 DEF generateCall, InExpression
    <3>3. ExpressionAfter(m, Top, n) = Emitting(m, i)
      <4> HIDE DEF n, f, m, d
      <4> QED BY <1>20, <3>2
    <3> HIDE DEF n, f, m, d, i
    <3> QED BY <1>4, <2>1, <3>2, <3>3
  <2>7. CASE unknownNode
    <3>1. /\ UNCHANGED <<output, identifiers>> /\ Calls(<<>>)
          /\ n.type \in {"FUNCTION", "INC_DEC_EXPRESSION", "LET", "RETURN", "WHILE", "PROGRAM"}
      BY <2>7 DEF unknownNode, Returns, tables
    <3> HIDE DEF n, f, m, d
    <3>2. ExpressionAfter(m, Top, n) = Asked(m, <<>>) BY <1>20, <3>1
    <3> QED BY <1>3, <2>1, <3>1, <3>2
  <2> QED
    BY <1>6, <1>7, <1>8, <1>9, <1>10, <1>11, <1>12, <1>13, <1>14, <1>15, <1>16, <2>2,
       <2>3, <2>4, <2>5, <2>6, <2>7
       DEF generate, generateCode, finishCode, Undefined
<1>18. CASE Top.function # "generateExpression"
  <2>1. ~(\/ generateNumericLiteral \/ generateComparison \/ generateBinaryExpression
          \/ generateIdentifier \/ generateCall \/ unknownNode)
    BY <1>18 DEF generateNumericLiteral, generateComparison, generateBinaryExpression,
       generateIdentifier, generateCall, unknownNode, InExpression, In
  <2> QED
    BY <1>6, <1>7, <1>8, <1>9, <1>10, <1>11, <1>12, <1>13, <1>14, <1>15, <1>16, <2>1
       DEF generate, generateCode, finishCode, Undefined
<1> QED BY <1>17, <1>18

LEMMA StepKinds ==
  ASSUME generate
  PROVE  /\ ast' = ast
         /\ \/ generateCode \/ finishCode \/ Undefined
            \/ status = "generating" /\ calls # <<>> /\ status' = "generating"
BY DEF generate, generateCode, finishCode, generateScope, endScope,
   generateReturnStatement, emitReturn, generateLetStatement,
   generateWhileStatement, closeLoop, generateNumericLiteral, generateComparison,
   moveResult, generateComparisonExpression, generateCompareOperator,
   generateBinaryExpression, generateOperator, generateOperatorReg,
   generateIdentifier, generateCall, unknownNode, Undefined, Context, In, InExpression

\* A course is one of the tree, whatever the generator does with it.
LEMMA CourseStays ==
  ASSUME ast' = ast, NEW tr, NEW n
  PROVE  Course(tr, n)' <=> Course(tr, n)
<1>1. \A m : After(m)' = After(m) BY DEF After, ExpressionAfter, CallFor
<1> QED BY <1>1 DEF Course, Beginning

\* The course goes on.
LEMMA CourseGrows ==
  ASSUME NEW tr, NEW n, Course(tr, n), tr[n].calls # <<>>
  PROVE  LET u == [i \in 0 .. n + 1 |-> IF i = n + 1 THEN After(tr[n]) ELSE tr[i]]
         IN  Course(u, n + 1) /\ u[n + 1] = After(tr[n])
<1> DEFINE u == [i \in 0 .. n + 1 |-> IF i = n + 1 THEN After(tr[n]) ELSE tr[i]]
<1>1. n \in Nat /\ n + 1 \in Nat BY DEF Course
<1>2. u[n + 1] = After(tr[n]) /\ \A i \in 0 .. n : u[i] = tr[i] BY <1>1
<1> HIDE DEF u
<1>3. u[0] = Beginning BY <1>1, <1>2 DEF Course
<1>4. ASSUME NEW i \in 0 .. n
      PROVE  u[i].calls # <<>> /\ u[i + 1] = After(u[i])
  <2>1. CASE i = n BY <1>2, <2>1
  <2>2. CASE i # n
    <3>1. i \in 0 .. n - 1 /\ i + 1 \in 0 .. n BY <1>1, <2>2
    <3>2. tr[i].calls # <<>> /\ tr[i + 1] = After(tr[i]) BY <3>1 DEF Course
    <3> QED BY <1>2, <3>1, <3>2
  <2> QED BY <2>1, <2>2
<1>5. (n + 1) - 1 = n BY <1>1
<1>6. Course(u, n + 1) BY <1>1, <1>3, <1>4, <1>5 DEF Course
<1> QED BY <1>2, <1>6 DEF u

\* On a course that ends, a moment with no calls is the end, and one with
\* calls is followed by another.
LEMMA OnCourse ==
  ASSUME NEW tr, NEW n, Course(tr, n), tr[n].calls = <<>>, NEW k \in 0 .. n
  PROVE  /\ tr[k].calls = <<>> => k = n
         /\ tr[k].calls # <<>> => k + 1 \in 0 .. n /\ tr[k + 1] = After(tr[k])
<1>1. n \in Nat BY DEF Course
<1>2. k # n => k \in 0 .. n - 1 /\ k + 1 \in 0 .. n BY <1>1
<1> QED BY <1>2 DEF Course

LEMMA FinishedIs ==
  ASSUME GInv, finishCode
  PROVE  /\ bytecode' = Finished(bytecode) /\ calls = <<>> /\ status = "generating"
         /\ status' = "generated" /\ identifiers' = identifiers /\ ast' = ast
<1>1. /\ bytecode' = Patched(Patched(Append(bytecode, HALT), {MainPatch}), ResolvedCalls)
      /\ calls = <<>> /\ status = "generating" /\ status' = "generated"
      /\ identifiers' = identifiers /\ ast' = ast
  BY DEF finishCode, tables
<1>2. ResolvedCalls = {} BY <1>1, NothingResolved
<1>3. MainPatch = [at |-> 1, address |-> MainAddress]
  BY <1>1 DEF GInv, Begun, MainPatch
<1>4. /\ bytecode \in Seq(Byte) /\ HALT \in Byte
      /\ Len(bytecode) >= 3
  <2>1. CodeOK(bytecode, starts) /\ 0 \in starts BY <1>1 DEF GInv, Begun
  <2>2. 0 < Len(bytecode) /\ bytecode \in Seq(Byte)
        /\ (Len(bytecode) = 0 \/ Len(bytecode) >= 3)
    BY <2>1 DEF CodeOK
  <2>3. HALT \in Byte BY DEF HALT, Byte
  <2> QED BY <2>2, <2>3
<1>5. /\ Append(bytecode, HALT) \in Seq(Byte)
      /\ Len(Append(bytecode, HALT)) >= 3
  <2>1. Append(bytecode, HALT) \in Seq(Byte)
        /\ Len(Append(bytecode, HALT)) = Len(bytecode) + 1 /\ Len(bytecode) \in Nat
    BY <1>4, AppendProperties, LenProperties
  <2> QED BY <1>4, <2>1
<1>6. Finished(bytecode) \in Seq(Byte) BY <1>5, PatchMain DEF Finished
<1>7. Patched(Finished(bytecode), {}) = Finished(bytecode) BY <1>6, NoPatch
<1> QED BY <1>1, <1>2, <1>3, <1>7 DEF Finished

LEMMA SameNext ==
  ASSUME GInv, Same, [Next]_vars
  PROVE  Same'
<1> SUFFICES ASSUME NoLet' PROVE Same' BY DEF Same
<1>1. ast' = ast
  BY StepKinds DEF Next, vars, generateAgain
<1>2. NoLet BY <1>1 DEF NoLet
<1>3. /\ identifiers = <<>>
      /\ status = "idle" => before = <<>>
      /\ before = <<>> /\ status = "generating" =>
           \E n, tr : Course(tr, n) /\ tr[n] = Now
      /\ before = <<>> /\ status = "generated" =>
           \E n, tr : /\ Course(tr, n) /\ tr[n].calls = <<>>
                      /\ bytecode = Finished(tr[n].code)
      /\ before # <<>> => \E n, tr : Repeats(tr, n)
  BY <1>2 DEF Same
<1>4. \A tr, n : Course(tr, n)' <=> Course(tr, n) BY <1>1, CourseStays
<1>5. Now.code = bytecode /\ Now.calls = calls BY DEF Now
<1>6. Now' = [code |-> bytecode', calls |-> calls'] BY DEF Now
<1>7. CASE generate /\ UNCHANGED before /\ generateCode
  <2>1. /\ bytecode' = bytecode \o (<<JMP>> \o encode(MainAddress)) /\ bytecode = <<>>
        /\ calls' = <<Scope(1)>> /\ before' = <<>> /\ status' = "generating"
        /\ identifiers' = <<>>
    BY <1>3, <1>7 DEF generateCode, Emit, GInv, Begun
  <2>2. bytecode' = <<JMP>> \o encode(MainAddress) BY <2>1, EncodeMain
  <2>3. Now' = Beginning BY <1>6, <2>1, <2>2 DEF Beginning
  <2> DEFINE tr == [i \in {0} |-> Beginning]
  <2>4. Course(tr, 0) /\ tr[0] = Beginning BY DEF Course
  <2>5. Course(tr, 0)' BY <1>4, <2>4
  <2> HIDE DEF tr
  <2>6. \E n, t : Course(t, n)' /\ t[n] = Now' BY <2>3, <2>4, <2>5
  <2> QED BY <2>1, <2>6 DEF Same
<1>8. CASE generate /\ UNCHANGED before /\ finishCode
  <2>1. /\ bytecode' = Finished(bytecode) /\ calls = <<>> /\ status = "generating"
        /\ status' = "generated" /\ identifiers' = <<>>
    BY <1>3, <1>8, FinishedIs
  <2>2. CASE before = <<>>
    <3>1. PICK n, tr : Course(tr, n) /\ tr[n] = Now BY <1>3, <2>1, <2>2
    <3>2. Course(tr, n)' /\ tr[n].calls = <<>> /\ bytecode' = Finished(tr[n].code)
      BY <1>4, <1>5, <2>1, <3>1
    <3>3. \E m, t : Course(t, m)' /\ t[m].calls = <<>> /\ bytecode' = Finished(t[m].code)
      BY <3>2
    <3>4. \A c : Finished(c)' = Finished(c) BY DEF Finished, Patched
    <3> QED BY <1>8, <2>1, <2>2, <3>3 DEF Same, Finished
  <2>3. CASE before # <<>>
    <3>1. PICK n, tr : Repeats(tr, n) BY <1>3, <2>3
    <3>2. PICK k \in 0 .. n : tr[k] = Now BY <2>1, <3>1 DEF Repeats
    <3>3. Course(tr, n) /\ tr[n].calls = <<>> /\ before = Finished(tr[n].code)
      BY <3>1 DEF Repeats
    <3>4. k = n BY <1>5, <2>1, <3>2, <3>3, OnCourse
    <3>5. bytecode' = before BY <1>5, <2>1, <3>2, <3>3, <3>4
    <3>6. Repeats(tr, n)' BY <1>4, <1>8, <2>1, <3>3, <3>5 DEF Repeats, Finished
    <3> QED BY <1>8, <2>1, <2>3, <3>6 DEF Same
  <2> QED BY <2>2, <2>3
<1>9. CASE generate /\ UNCHANGED before /\ Undefined
  <2>1. status = "generating" /\ status' = "undefined" /\ identifiers' = <<>>
    BY <1>3, <1>9 DEF Undefined, tables
  <2>2. CASE before = <<>> BY <1>9, <2>1, <2>2 DEF Same
  <2>3. CASE before # <<>>
    <3>1. PICK n, tr : Repeats(tr, n) BY <1>3, <2>3
    <3>2. Repeats(tr, n)' BY <1>4, <1>9, <2>1, <3>1 DEF Repeats, Finished
    <3> QED BY <1>9, <2>1, <2>3, <3>2 DEF Same
  <2> QED BY <2>2, <2>3
<1>10. CASE /\ generate /\ UNCHANGED before
            /\ status = "generating" /\ calls # <<>> /\ status' = "generating"
  <2>1. Now' = After(Now) /\ identifiers' = <<>> BY <1>2, <1>3, <1>6, <1>10, AfterTop
  <2>2. CASE before = <<>>
    <3>1. PICK n, tr : Course(tr, n) /\ tr[n] = Now BY <1>3, <1>10, <2>2
    <3>2. \E t : Course(t, n + 1) /\ t[n + 1] = After(tr[n])
      BY <1>5, <1>10, <3>1, CourseGrows
    <3>3. \E m, t : Course(t, m)' /\ t[m] = Now' BY <1>4, <2>1, <3>1, <3>2
    <3> QED BY <1>10, <2>1, <2>2, <3>3 DEF Same
  <2>3. CASE before # <<>>
    <3>1. PICK n, tr : Repeats(tr, n) BY <1>3, <2>3
    <3>2. PICK k \in 0 .. n : tr[k] = Now BY <1>10, <3>1 DEF Repeats
    <3>3. Course(tr, n) /\ tr[n].calls = <<>> /\ before = Finished(tr[n].code)
      BY <3>1 DEF Repeats
    <3>4. k + 1 \in 0 .. n /\ tr[k + 1] = Now' BY <1>5, <1>10, <2>1, <3>2, <3>3, OnCourse
    <3>5. \E j \in 0 .. n : tr[j] = Now' BY <3>4
    <3>6. Repeats(tr, n)' BY <1>4, <1>10, <3>3, <3>5 DEF Repeats, Finished
    <3> QED BY <1>10, <2>1, <2>3, <3>6 DEF Same
  <2> QED BY <2>2, <2>3
<1>11. CASE generateAgain
  <2>1. /\ status = "generated" /\ before = <<>> /\ status' = "generating"
        /\ bytecode' = <<JMP>> \o encode(MainAddress) /\ calls' = <<Scope(1)>>
        /\ before' = bytecode /\ identifiers' = <<>>
    BY <1>3, <1>11 DEF generateAgain, tables
  <2>2. PICK n, tr : /\ Course(tr, n) /\ tr[n].calls = <<>>
                     /\ bytecode = Finished(tr[n].code)
    BY <1>3, <2>1
  <2>3. tr[0] = Now' /\ n \in Nat BY <1>6, <2>1, <2>2 DEF Course, Beginning
  <2>4. \E k \in 0 .. n : tr[k] = Now' BY <2>3
  <2>5. Repeats(tr, n)' BY <1>4, <2>1, <2>2, <2>4 DEF Repeats, Finished
  <2>6. before' # <<>>
    <3>1. CodeOK(bytecode, starts) /\ 0 \in starts BY <2>1 DEF GInv, Begun
    <3>2. 0 < Len(bytecode) BY <3>1 DEF CodeOK
    <3> QED BY <2>1, <3>2
  <2> QED BY <2>1, <2>5, <2>6 DEF Same
<1>12. CASE UNCHANGED vars
  <2>1. UNCHANGED <<bytecode, calls, identifiers, status, before>>
    BY <1>12 DEF vars, output, tables
  <2>2. \A tr, n : Repeats(tr, n) => Repeats(tr, n)'
    BY <1>4, <1>5, <1>6, <2>1 DEF Repeats, Finished, Now
  <2>3. Now' = Now BY <2>1 DEF Now
  <2> QED BY <1>3, <1>4, <2>1, <2>2, <2>3 DEF Same, Finished
<1> QED BY <1>7, <1>8, <1>9, <1>10, <1>11, <1>12, StepKinds DEF Next

\* Every tree without definitions, whatever else is in it, is generated to the same
\* code again, although the tables, the registers and m_stackSize are those
\* that the first generateCode left: nothing of them is in the code.
THEOREM GeneratesTheSame == Spec => []SameAgain
<1>1. Init => Same BY DEF Init, Constructed, Same
<1>2. GInv /\ Same /\ [Next]_vars => Same' BY SameNext
<1>3. Same => SameAgain
  <2> SUFFICES ASSUME Same, status = "generated", before # <<>>, NoLet
               PROVE  bytecode = before
    BY DEF SameAgain, NoLet
  <2>1. PICK n, tr : Repeats(tr, n) BY DEF Same
  <2> QED BY <2>1 DEF Repeats
<1> QED BY <1>1, <1>2, <1>3, GeneratorInvariant, PTL DEF Spec

=============================================================================
