--------------------------- MODULE CodeGenerator ---------------------------
(***************************************************************************)
(* The code generator of the compiler (code_generator.cpp): a recursive    *)
(* descent over an abstract syntax tree (ast.hpp) that appends the bytes   *)
(* of one instruction after the other.                                     *)
(*                                                                         *)
(* A tree is a heap of nodes, as the parser allocates it: a sequence of    *)
(* records that refer to each other by index, the program at index 1, 0    *)
(* for nullptr.  The descent is an explicit stack of activations, each the *)
(* call of a generate function, or what is left of one that waits for the  *)
(* calls it made: one action per function, one per remainder.              *)
(***************************************************************************)
EXTENDS CiphIsa, FiniteSets

CONSTANTS
  Programs,   \* the trees a generator may be constructed with
  Names       \* the identifiers that occur in them

VARIABLES
  ast,              \* m_program
  bytecode,         \* m_bytecode
  stackSize,        \* m_stackSize
  identifiers,      \* m_identifiers: name -> offset of its stack slot
  functions,        \* m_functions: name -> address
  unresolvedCalls,  \* m_unresolvedCalls: name -> positions to patch
  registers,        \* m_registers: register -> identifier it was loaded with
  calls,            \* the call stack, the innermost activation first
  status,           \* idle, generating, generated, or undefined behaviour
  printed,          \* the messages printed so far
  starts,           \* history: the offsets at which instructions start
  before            \* history: what an earlier generateCode made

tables == <<identifiers, functions, unresolvedCalls, registers>>
output == <<bytecode, starts>>
vars == <<ast, output, stackSize, tables, calls, status, printed, before>>

-----------------------------------------------------------------------------
(* Trees.                                                                  *)

Ref(p) == 0 .. Len(p)

Arithmetic == {"ADDITION", "SUBTRACTION", "MULTIPLICATION", "DIVISION"}
Comparing == {"EQUAL", "NOT_EQUAL", "LESS_THAN", "GREATER_THAN"}

\* The node classes of ast.hpp.  An IDENTIFIER carries the ++ or -- that
\* follows it, a WHILE and a FUNCTION are scopes like the PROGRAM.
NodeOf(p) ==
  [type : {"PROGRAM"}, body : Seq(Ref(p))]
    \cup [type : {"NUMERIC_LITERAL"}, value : Int16]
    \cup [type : {"IDENTIFIER"}, name : Names, op : {"none", "inc", "dec"}]
    \cup [type : {"INC_DEC_EXPRESSION"}, op : {"inc", "dec"}]
    \cup [type : {"CALL_EXPRESSION"}, name : Names]
    \cup [type : {"BINARY_EXPRESSION"}, operator : Arithmetic,
          left : Ref(p), right : Ref(p)]
    \cup [type : {"COMPARISON_EXPRESSION"}, operator : Comparing,
          left : Ref(p), right : Ref(p)]
    \cup [type : {"LET"}, name : Names, expression : Ref(p)]
    \cup [type : {"RETURN"}, expression : Ref(p)]
    \cup [type : {"WHILE"}, condition : Ref(p), body : Seq(Ref(p))]
    \cup [type : {"FUNCTION"}, name : Names, body : Seq(Ref(p))]

IsTree(p) ==
  /\ p \in Seq(NodeOf(p))
  /\ Len(p) >= 1 /\ p[1].type = "PROGRAM"

ASSUME TreesAssumption == \A p \in Programs : IsTree(p)
ASSUME NamesAssumption == "main" \in Names

-----------------------------------------------------------------------------
(* Emitting.                                                               *)

Emit(instr) ==
  /\ bytecode' = bytecode \o instr
  /\ starts' = starts \cup {Len(bytecode)}

\* encode(int16_t)
encode(w) == <<U16(w) \div 256, U16(w) % 256>>

\* The bytes of code at the given positions replaced by an address each.
Patched(code, patches) ==
  [i \in DOMAIN code |->
     IF \E q \in patches : i - 1 \in {q.at, q.at + 1}
     THEN LET q == CHOOSE q \in patches : i - 1 \in {q.at, q.at + 1}
          IN  encode(q.address)[i - q.at]
     ELSE code[i]]

\* mutant: a wider m_stackSize
PoppedWide(n) == stackSize - n

\* m_stackSize -= n.  Nothing ever adds to it.
Popped(n) == U16(stackSize - n)

Messages ==
  {"Identifier already exists", "Stack overflow", "Identifier not found",
   "Unknown node type", "Unresolved function call"}

Report(message) == printed' = printed \cup {message}

-----------------------------------------------------------------------------
(* Activations.  reg is the register argument, at the index of the next    *)
(* statement of a scope or the start of a loop.                            *)

\* What can be on the call stack: the functions, and what is left of one that
\* waits for the calls it made.
FunctionNames ==
  {"generateScope", "generateReturnStatement", "emitReturn",
   "generateLetStatement", "generateWhileStatement", "closeLoop",
   "generateExpression", "moveResult", "generateComparisonExpression",
   "generateCompareOperator", "generateOperator"}

Activation(function, node, reg, at) ==
  [function |-> function, node |-> node, reg |-> reg, at |-> at]

Scope(n) == Activation("generateScope", n, sp, 1)
Expression(n, reg) == Activation("generateExpression", n, reg, 0)
Comparison(n) == Activation("generateComparisonExpression", n, sp, 0)
Then(function, n, reg) == Activation(function, n, reg, 0)

Top == Head(calls)
Here == ast[Top.node]

\* The innermost activation is one of function, of a node that exists.
In(function) ==
  /\ status = "generating"
  /\ calls # <<>>
  /\ Top.function = function
  /\ Top.node # 0

Calls(activations) == calls' = activations \o Tail(calls)
Returns == Calls(<<>>)

\* What most functions leave alone.
Context == UNCHANGED <<ast, stackSize, tables, status, printed>>

-----------------------------------------------------------------------------
(* Statements.                                                             *)

\* Whatever is no statement, a function definition too, is an expression.
CallFor(s) ==
  CASE s # 0 /\ ast[s].type = "RETURN" -> Then("generateReturnStatement", s, sp)
    [] s # 0 /\ ast[s].type = "LET" -> Then("generateLetStatement", s, sp)
    [] s # 0 /\ ast[s].type = "WHILE" -> Then("generateWhileStatement", s, sp)
    [] OTHER -> Expression(s, sp)

generateScope ==
  /\ In("generateScope")
  /\ Top.at <= Len(Here.body)
  /\ Calls(<<CallFor(Here.body[Top.at]), [Top EXCEPT !.at = @ + 1]>>)
  /\ Context /\ UNCHANGED output

endScope ==
  /\ In("generateScope")
  /\ Top.at > Len(Here.body)
  /\ Returns
  /\ Context /\ UNCHANGED output

generateReturnStatement ==
  /\ In("generateReturnStatement")
  /\ Calls(<<Expression(Here.expression, ret), Then("emitReturn", Top.node, ret)>>)
  /\ Context /\ UNCHANGED output

emitReturn ==
  /\ In("emitReturn")
  /\ Returns
  /\ Emit(<<RET>>)
  /\ Context

generateLetStatement ==
  /\ In("generateLetStatement")
  /\ IF Here.name \in DOMAIN identifiers
     THEN Report("Identifier already exists") /\ Returns /\ UNCHANGED identifiers
     ELSE IF stackSize >= 255
     THEN Report("Stack overflow") /\ Returns /\ UNCHANGED identifiers
     ELSE /\ identifiers' = [x \in DOMAIN identifiers \cup {Here.name} |->
                               IF x = Here.name THEN stackSize ELSE identifiers[x]]
          /\ Calls(<<Expression(Here.expression, sp)>>)
          /\ UNCHANGED printed
  /\ UNCHANGED <<ast, output, stackSize, functions, unresolvedCalls, registers,
                 status>>

\* mutant: the loop taken for its condition
generateWhileStatementItself ==
  /\ In("generateWhileStatement")
  /\ Calls(<<Scope(Top.node), Comparison(Top.node),
             Activation("closeLoop", Top.node, sp, U16(Len(bytecode)))>>)
  /\ Context /\ UNCHANGED output

\* The body comes first: the condition is tested behind it.
generateWhileStatement ==
  /\ In("generateWhileStatement")
  /\ Calls(<<Scope(Top.node), Comparison(Here.condition),
             Activation("closeLoop", Top.node, sp, U16(Len(bytecode)))>>)
  /\ Context /\ UNCHANGED output

\* mutant: the opcode of the JLT itself not counted
LoopOffsetShort(start) == U16(U16(Len(bytecode)) + 2 - start)

\* mutant: the position of the jump taken for the start of the loop
LoopOffsetToItself(start) == 3

LoopOffset(start) == U16(U16(Len(bytecode)) + 3 - start)

\* Only one of the four comparisons is followed by a jump.
closeLoop ==
  /\ In("closeLoop")
  /\ Returns
  /\ IF ast[Here.condition].operator = "LESS_THAN"
     THEN Emit(<<JLT>> \o encode(LoopOffset(Top.at)))
     ELSE UNCHANGED output
  /\ Context

-----------------------------------------------------------------------------
(* Expressions.                                                            *)

InExpression(type) == In("generateExpression") /\ Here.type = type

generateNumericLiteral ==
  /\ InExpression("NUMERIC_LITERAL")
  /\ Returns
  /\ Emit(<<PSH_LIT>> \o encode(Here.value))
  /\ Context

\* The COMPARISON_EXPRESSION case of generateExpression, and its remainder.
generateComparison ==
  /\ InExpression("COMPARISON_EXPRESSION")
  /\ Calls(<<Comparison(Top.node), Then("moveResult", Top.node, Top.reg)>>)
  /\ Context /\ UNCHANGED output

\* mutant: the source register left to the default
moveResultShort ==
  /\ In("moveResult")
  /\ Returns
  /\ Emit(<<MOV, Top.reg>>)
  /\ Context

moveResult ==
  /\ In("moveResult")
  /\ Returns
  /\ Emit(<<MOV, Top.reg, imm>>)
  /\ Context

generateComparisonExpression ==
  /\ In("generateComparisonExpression")
  /\ Here.type = "COMPARISON_EXPRESSION"
  /\ Calls(<<Expression(Here.left, sp), Expression(Here.right, sp),
             Then("generateCompareOperator", Top.node, sp)>>)
  /\ Context /\ UNCHANGED output

generateCompareOperator ==
  /\ In("generateCompareOperator")
  /\ Returns
  /\ Emit(<<CMP, sp>>)
  /\ stackSize' = Popped(2)
  /\ UNCHANGED <<ast, tables, status, printed>>

\* mutant: the right operand first
generateBinaryExpressionRightFirst ==
  /\ InExpression("BINARY_EXPRESSION")
  /\ Calls(<<Expression(Here.right, sp), Expression(Here.left, sp),
             Then("generateOperator", Top.node, Top.reg)>>)
  /\ Context /\ UNCHANGED output

generateBinaryExpression ==
  /\ InExpression("BINARY_EXPRESSION")
  /\ Calls(<<Expression(Here.left, sp), Expression(Here.right, sp),
             Then("generateOperator", Top.node, Top.reg)>>)
  /\ Context /\ UNCHANGED output

encodeOperator == [ADDITION |-> ADD, SUBTRACTION |-> SUB,
                   MULTIPLICATION |-> MUL, DIVISION |-> DIV]

generateOperator ==
  /\ In("generateOperator")
  /\ Top.reg = sp
  /\ Returns
  /\ Emit(<<encodeOperator[Here.operator]>>)
  /\ stackSize' = Popped(1)
  /\ UNCHANGED <<ast, tables, status, printed>>

\* Two instructions: the operator, and the pop of its result.
generateOperatorReg ==
  /\ In("generateOperator")
  /\ Top.reg = ret
  /\ Returns
  /\ bytecode' = bytecode \o <<encodeOperator[Here.operator], POP_REG, ret>>
  /\ starts' = starts \cup {Len(bytecode), Len(bytecode) + 1}
  /\ stackSize' = Popped(2)
  /\ UNCHANGED <<ast, tables, status, printed>>

generateIdentifier ==
  /\ InExpression("IDENTIFIER")
  /\ Returns
  /\ IF Here.name \notin DOMAIN identifiers
     THEN Report("Identifier not found") /\ UNCHANGED <<output, registers>>
     ELSE LET offset == identifiers[Here.name]
          IN  /\ Emit(CASE Here.op = "inc" -> <<INC, sp, offset>>
                        [] Here.op = "dec" -> <<DEC, sp, offset>>
                        [] Here.op = "none" -> <<PEK_OFF, Top.reg, offset>>)
              /\ registers' = IF Here.op = "none" /\ Top.reg # sp
                              THEN [registers EXCEPT ![Top.reg] = Here.name]
                              ELSE registers
              /\ UNCHANGED printed
  /\ UNCHANGED <<ast, stackSize, identifiers, functions, unresolvedCalls, status>>

\* The position to patch later is kept in a uint8_t.
PositionToPatch == (Len(bytecode) + 1) % 256

generateCall ==
  /\ InExpression("CALL_EXPRESSION")
  /\ Returns
  /\ IF Here.name \in DOMAIN functions
     THEN Emit(<<JMP>> \o encode(functions[Here.name])) /\ UNCHANGED unresolvedCalls
     ELSE /\ Emit(<<JMP, 0, 0>>)
          /\ unresolvedCalls' =
               [x \in DOMAIN unresolvedCalls \cup {Here.name} |->
                  (IF x \in DOMAIN unresolvedCalls THEN unresolvedCalls[x] ELSE {})
                    \cup (IF x = Here.name THEN {PositionToPatch} ELSE {})]
  /\ UNCHANGED <<ast, stackSize, identifiers, functions, registers, status, printed>>

\* The default case of generateExpression.
unknownNode ==
  /\ In("generateExpression")
  /\ Here.type \in {"FUNCTION", "INC_DEC_EXPRESSION", "LET", "RETURN", "WHILE",
                    "PROGRAM"}
  /\ Returns
  /\ Report("Unknown node type")
  /\ UNCHANGED <<ast, output, stackSize, tables, status>>

\* A null child is dereferenced, or a condition that is no comparison is cast
\* to one.
Undefined ==
  /\ status = "generating"
  /\ calls # <<>>
  /\ \/ Top.node = 0
     \/ /\ Top.node # 0
        /\ Top.function = "generateComparisonExpression"
        /\ Here.type # "COMPARISON_EXPRESSION"
  /\ status' = "undefined"
  /\ UNCHANGED <<ast, output, stackSize, tables, calls, printed>>

-----------------------------------------------------------------------------
(* generateCode.                                                           *)

MainAddress == 1

Constructed ==
  /\ bytecode = <<>> /\ starts = {} /\ before = <<>>
  /\ stackSize = 0
  /\ identifiers = <<>> /\ functions = <<>> /\ unresolvedCalls = <<>>
  /\ registers = [r \in 0 .. reg_cnt - 1 |-> "none"]
  /\ calls = <<>>
  /\ status = "idle"
  /\ printed = {}

Init == ast \in Programs /\ Constructed

generateCode ==
  /\ status = "idle"
  /\ status' = "generating"
  /\ Emit(<<JMP>> \o encode(MainAddress))
  /\ functions' = [x \in {"main"} |-> MainAddress]
  /\ calls' = <<Scope(1)>>
  /\ UNCHANGED <<ast, stackSize, identifiers, unresolvedCalls, registers, printed>>

\* mutant: the bytes of the first call not cleared
generateAgainBehind ==
  /\ status = "generated" /\ before = <<>>
  /\ status' = "generating"
  /\ Emit(<<JMP>> \o encode(MainAddress))
  /\ calls' = <<Scope(1)>>
  /\ before' = bytecode
  /\ UNCHANGED <<ast, stackSize, tables, printed>>

\* A second generateCode clears the bytes, and nothing else.
generateAgain ==
  /\ status = "generated" /\ before = <<>>
  /\ status' = "generating"
  /\ bytecode' = <<JMP>> \o encode(MainAddress) /\ starts' = {0}
  /\ calls' = <<Scope(1)>>
  /\ before' = bytecode
  /\ UNCHANGED <<ast, stackSize, tables, printed>>

\* The patches of resolveUnresolvedCalls.
ResolvedCalls ==
  UNION {[at : unresolvedCalls[x], address : {functions[x]}] :
           x \in DOMAIN unresolvedCalls \cap DOMAIN functions}

\* mutant: the position of the JMP, not of its operand
MainPatchAtZero == [at |-> 0, address |-> functions["main"]]

MainPatch == [at |-> 1, address |-> functions["main"]]

finishCode ==
  /\ status = "generating"
  /\ calls = <<>>
  /\ starts' = starts \cup {Len(bytecode)}
  /\ bytecode' =
       Patched(Patched(Append(bytecode, HALT), {MainPatch}), ResolvedCalls)
  /\ printed' = printed \cup
       (IF DOMAIN unresolvedCalls \subseteq DOMAIN functions
        THEN {} ELSE {"Unresolved function call"})
  /\ status' = "generated"
  /\ UNCHANGED <<ast, stackSize, tables, calls>>

generate ==
  \/ generateCode \/ finishCode
  \/ generateScope \/ endScope
  \/ generateReturnStatement \/ emitReturn
  \/ generateLetStatement
  \/ generateWhileStatement \/ closeLoop
  \/ generateNumericLiteral
  \/ generateComparison \/ moveResult
  \/ generateComparisonExpression \/ generateCompareOperator
  \/ generateBinaryExpression \/ generateOperator \/ generateOperatorReg
  \/ generateIdentifier \/ generateCall \/ unknownNode
  \/ Undefined

Next ==
  \/ generate /\ UNCHANGED before
  \/ generateAgain

Spec == Init /\ [][Next]_vars /\ WF_vars(Next)

-----------------------------------------------------------------------------
(* Properties.                                                             *)

TypeOK ==
  /\ IsTree(ast)
  /\ bytecode \in Seq(Byte)
  /\ stackSize \in Word
  /\ DOMAIN identifiers \subseteq Names
  /\ \A x \in DOMAIN identifiers : identifiers[x] \in Byte
  /\ DOMAIN functions \subseteq {"main"}
  /\ \A x \in DOMAIN functions : functions[x] \in Word
  /\ DOMAIN unresolvedCalls \subseteq Names
  /\ \A x \in DOMAIN unresolvedCalls : unresolvedCalls[x] \subseteq Byte
  /\ registers \in [0 .. reg_cnt - 1 -> Names \cup {"none"}]
  /\ calls \in Seq([function : FunctionNames, node : Ref(ast), reg : {sp, ret},
                    at : Nat])
  /\ status \in {"idle", "generating", "generated", "undefined"}
  /\ printed \subseteq Messages
  /\ starts \subseteq 0 .. Len(bytecode)
  /\ before \in Seq(Byte)

\* The children the class of a node asks for.
Children(n) ==
  LET node == ast[n]
  IN  CASE node.type \in {"BINARY_EXPRESSION", "COMPARISON_EXPRESSION"} ->
             {node.left, node.right}
        [] node.type \in {"LET", "RETURN"} -> {node.expression}
        [] node.type = "WHILE" ->
             {node.condition} \cup {node.body[i] : i \in DOMAIN node.body}
        [] node.type \in {"PROGRAM", "FUNCTION"} ->
             {node.body[i] : i \in DOMAIN node.body}
        [] OTHER -> {}

\* What is reached from the program is in S, so none of it is null ...
IsWhole(S) == 1 \in S /\ \A n \in S : Children(n) \subseteq S

\* ... and the conditions of its loops are comparisons.
Castable(S) ==
  \A n \in S : ast[n].type = "WHILE" =>
    ast[ast[n].condition].type = "COMPARISON_EXPRESSION"

\* The generator gets through a tree that leaves no child out, its while
\* conditions comparisons, without following a null pointer or casting a node to
\* what it is not.
FollowsNoNull ==
  status = "undefined" => \A S \in SUBSET DOMAIN ast : ~(IsWhole(S) /\ Castable(S))

\* How many bytes the machine's handlers consume of the instruction at o.  JMP
\* has no handler: the generator gives it a word.
LengthAt(code, o) ==
  LET op == code[o + 1]
  IN  CASE op \in {PSH_LIT, MOV, PEK_OFF, JLT, JMP} -> 3
        [] op \in {INC, DEC} -> IF code[o + 2] = sp THEN 3 ELSE 2
        [] op \in {POP_REG, PEK_REG, PSH_REG, CMP} -> 2
        [] OTHER -> 1

\* What is generated, read from its first byte the way the machine's handlers
\* consume it, is the sequence of the instructions the generator meant, at
\* every moment, and none of them starts inside another: no patch, no operand
\* and no order of calls makes an operand byte an opcode.
Boundaries ==
  /\ status # "idle" => 0 \in starts
  /\ \A o \in starts :
       /\ o + LengthAt(bytecode, o) \in starts \cup {Len(bytecode)}
       /\ \A p \in starts : p <= o \/ p >= o + LengthAt(bytecode, o)

\* Code is only ever appended, but for the operand of the JMP in front: an
\* offset that a loop computed, or a position recorded for a later patch,
\* stays what it was, until generateCode is called again.
AppendOnly ==
  [][before' = before => \A i \in DOMAIN bytecode \ {2, 3} :
       i \in DOMAIN bytecode' /\ bytecode'[i] = bytecode[i]]_vars

\* Generated again, a program that defines no variable is the same code,
\* although the tables and the stack size are those the first call left.
SameAgain ==
  /\ status = "generated" /\ before # <<>>
  /\ \A n \in DOMAIN ast : ast[n].type # "LET"
  => bytecode = before

\* Two variables never share a stack slot (LetStatement_MultipleVariables,
\* tests_code_generator.cpp:241-251, has 0, 1 and 2).
OwnSlots ==
  \A x, y \in DOMAIN identifiers : x # y => identifiers[x] # identifiers[y]
=============================================================================
