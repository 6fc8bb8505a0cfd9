---------------------------- MODULE CompiledCode ----------------------------
(***************************************************************************)
(* The code generator and the machine its output is meant for: what is     *)
(* generated behind the leading JMP, run by StackMachine.                  *)
(*                                                                         *)
(* The machine has no handler for that JMP, so it runs nothing the         *)
(* generator emits as it is; the tests of the machine run what follows it, *)
(* and so does this module.                                                *)
(***************************************************************************)
EXTENDS CodeGenerator, FiniteSetsExt

VARIABLES prog, at, stack, regs, result, mode

machine == <<prog, at, stack, regs, result, mode>>
allVars == <<vars, machine>>

Machine == INSTANCE StackMachine WITH Programs <- {}, Typing <- <<>>

-----------------------------------------------------------------------------
(* The trees the generator has code for.                                   *)

Below[n \in DOMAIN ast] == {n} \cup UNION {Below[c] : c \in Children(n)}

NodesOf(types) == {n \in DOMAIN ast : ast[n].type \in types}

Counts(n) == ast[n].type = "IDENTIFIER" /\ ast[n].op # "none"

\* Expressions that leave one word on the stack when generated for it.
Values == NodesOf({"NUMERIC_LITERAL", "IDENTIFIER", "BINARY_EXPRESSION"})
            \ {n \in DOMAIN ast : Counts(n)}
Comparisons == NodesOf({"COMPARISON_EXPRESSION"})

\* Every child is there; comparisons are returned or guard a loop; x++ and x--
\* are statements; a loop only counts, loops and returns; no variable occurs
\* in its own definition; the program returns.  Calls and functions are left
\* out: nothing is generated that would run one.
Disciplined ==
  /\ \A n \in DOMAIN ast : 0 \notin Children(n)
  /\ NodesOf({"FUNCTION", "CALL_EXPRESSION", "INC_DEC_EXPRESSION"}) = {}
  /\ \A n \in NodesOf({"BINARY_EXPRESSION", "COMPARISON_EXPRESSION", "LET"}) :
       Children(n) \subseteq Values
  /\ \A n \in NodesOf({"RETURN"}) : Children(n) \subseteq Values \cup Comparisons
  /\ \A n \in NodesOf({"WHILE"}) :
       /\ ast[n].condition \in Comparisons
       /\ \A i \in DOMAIN ast[n].body :
            \/ Counts(ast[n].body[i])
            \/ ast[n].body[i] \in NodesOf({"WHILE", "RETURN"})
  /\ \A n \in NodesOf({"LET"}) : \A m \in Below[n] :
       ast[m].type = "IDENTIFIER" => ast[m].name # ast[n].name
  /\ Children(1) \cap Comparisons = {}
  /\ Children(1) \cap NodesOf({"RETURN"}) # {}

\* m_stackSize and the offsets of loops have 16 bits.  In longer code than this
\* the one could have come round to a slot that is not there, and the others
\* lead elsewhere.
Addressable == Len(bytecode) < 32768

\* Such a tree whose variables are defined where they are used.
Compiles ==
  status = "generated" /\ Disciplined /\ printed = {} /\ Addressable

-----------------------------------------------------------------------------
(* What is generated behind the JMP, and the height of the stack at each   *)
(* of its instructions, up to the first RET: there is no jump forwards.    *)

Entry == 3
Body == SubSeq(bytecode, Entry + 1, Len(bytecode))

Behind(o) == {q \in starts : Entry <= q /\ q < o}

Pushes(o) ==
  LET op == bytecode[o + 1]
  IN  CASE op = PSH_LIT -> 1
        [] op = PEK_OFF -> IF bytecode[o + 2] = sp THEN 1 ELSE 0
        [] op = POP_REG \/ op \in Binary -> -1
        [] op = CMP -> -2
        [] OTHER -> 0

Reached ==
  {o \in starts : Entry <= o /\ \A q \in Behind(o) : bytecode[q + 1] # RET}

Heights ==
  [k \in {o - Entry : o \in Reached} |-> MapThenSumSet(Pushes, Behind(k + Entry))]

-----------------------------------------------------------------------------
CInit == Init /\ Machine!Init

Generate == generate /\ UNCHANGED <<before, machine>>

Run ==
  /\ Compiles
  /\ mode = "idle"
  /\ Machine!Loaded(Body, "running")
  /\ UNCHANGED vars

Execute == Machine!Instruction /\ UNCHANGED vars

CNext == Generate \/ Run \/ Execute

CSpec == CInit /\ [][CNext]_allVars /\ WF_allVars(CNext)

-----------------------------------------------------------------------------
(* Properties.                                                             *)

\* The code of a tree the generator has code for keeps the stack discipline
\* the handlers of the machine rely on (WellTyped): each finds its operands on
\* the stack, no slot above the stack is read, and every loop jumps back to
\* one of its own instructions with the stack as high as it was.
StackDiscipline == Compiles => WellTyped(Body, Heights)
=============================================================================
