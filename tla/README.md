# A verification project for ciph-lang

ciph-lang compiles a small language (16-bit integers, `let`, `while`, `return`,
`x++`) to byte code and runs it on a small virtual machine. Everything is one
sequential process; what is hard about it is not concurrency. It is two programs
that have to agree, byte by byte, on an encoding nothing checks, and a machine
that keeps its registers, its programs and its stacks in one unguarded array.

Paths below are relative to `src/`; the code is under `src/source/`.

## 1. Inventory

    source text --> Lexar --> tokens --> Parser --> AST --> CodeGenerator --> bytes
                                                                               |
         main (ciph_vm.cpp): shell  ---- load_program, step / execute ----> ProcessingUnit
                                                                            on Memory<N>
                                    Disassembler: bytes --> text

All calls are synchronous. The parser pulls tokens from the lexar, the shell
hands the generated vector to `load_program`, and the machine calls handlers
through a table of function pointers. Memory is the only state two components
share (registers and handlers alias it).

| component | source | state | operations | what makes it correct |
|---|---|---|---|---|
| memory | `vm/inc/memory.hpp` | byte array, `m_allocPointer` | `load`, indexing | texts of loaded programs are never overwritten; a program that does not fit is not run |
| processing unit | `vm/src/processing_unit.cpp` | registers (in memory), `return_value`, handler table | `load_program`, `execute`, `step` | pc stays on instructions; the stack is as high as the program's discipline says; execution ends at RET; a program's result does not depend on what ran before |
| handlers | `vm/src/instructions.cpp` | none of their own: they write memory, pc and sp | one per opcode | each consumes exactly its operands and does to bytes what its instruction says of numbers |
| code generator | `compiler/src/code_generator.cpp` | `m_bytecode`, `m_stackSize`, `m_identifiers`, `m_functions`, `m_unresolvedCalls`, `m_registers` | `generateCode` and a recursive descent over the tree | output is a sequence of whole instructions; only intended patches rewrite it; it keeps the machine's stack discipline; it computes what the tree says |
| syntax tree | `compiler/inc/ast.hpp` | nodes by pointer | constructors, accessors | no child the generator needs is null |
| parser | `compiler/src/parser.cpp` | the lexar's cursor, the C++ call stack, the tree | recursive descent | every token is consumed once; it ends on every input; every error is reported; precedence |
| lexar | `compiler/src/lexar.cpp` | input, tokens, one position used in the text and then in the tokens, line and column, whether it is done | `lex`, `pop`, `popExpect`, `popOperator`, `peek` | tokens tile the input; longest operators; positions point at the token; one END_OF_FILE, whatever was called before |
| disassembler | `shared/src/disassembler.cpp` | a cursor over the bytes, a line by offset | `disassemble`, `disassembleInstructionAt` | reads the operand bytes the machine does; has a name for what is generated |
| shell | `vm/src/ciph_vm.cpp` | a machine, a line of input | compile, load, step until done, show the stack | feeds the machine what the generator made; shows the slots the program counts in |
| error table, executable, skeleton, build | `compiler/inc/error_*.hpp`, `compiler/src/ciph_compiler.cpp`, `lib.*`, `main.cpp`, CMake | none | - | - |

What is hard: the byte order of operands and of the stack differ; `INC`/`DEC`
compute an address in eight bits; `JLT` jumps relative to a pc that has already
moved; the loop offset is computed while code is growing; `m_stackSize` only ever
falls; memory, registers and tables survive from one program to the next; the lexar
reads one character too far and puts it back, and can be asked again after it failed; nothing
checks a bound, an opcode or a register number. `PROJECT.json` lists each hazard at
its line with the properties that would catch it.

## 2. Modules

| module | models | kind |
|---|---|---|
| `CiphIsa` | the shared numbers, opcodes and registers (`shared_defines.hpp`), and the stack discipline the handlers assume (`WellTyped`) | definitions |
| `StackMachine` | what the machine promises the author of a program: numbers, slots and registers, no bytes and no addresses | abstract specification |
| `CiphVM` | `Memory`, `ProcessingUnit` and the 19 handlers, byte by byte; refines `StackMachine` | detailed specification |
| `CiphVMProofs` | type correctness and the safety of the frame, proved | proofs |
| `CiphVMRefinement` | that `CiphVM` implements `StackMachine`, that loaded texts stay, and that the shell shows a sound program's slots, proved | proofs |
| `MCVMProofs` | that five programs, three of them of the machine's tests, return what they should, proved | proofs |
| `CodeGenerator` | `CodeGenerator::generateCode` and every generate function it reaches | detailed specification |
| `CodeGeneratorProofs` | type correctness of the generator, that its output is the instructions it meant, when it follows a null pointer, and that a second run makes the same code, proved | proofs |
| `CompiledCode` | the composition: `CodeGenerator`, then `StackMachine` on what it generated | composition |
| `CompiledCodeProofs` | that generated code keeps the stack discipline, proved | proofs |
| `Tokens` | the tokens that pass from the lexar to the parser, and what a complete list of them is (`IsInput`) | definitions |
| `Lexar` | `Lexar::lex`, turn by turn, and the calls that hand tokens out | detailed specification |
| `LexarProofs` | type correctness of the lexar, and that its tokens tile the text, are as long as can be and are where they say, proved | proofs |
| `Disassembler` | `Disassembler::disassemble`, instruction by instruction, with its own tables | detailed specification |
| `Listing` | the composition: `Disassembler` on what `CodeGenerator` made, and on programs of a client | composition |
| `ListingProofs` | that a listing has the operands the machine reads, and keeps in step with generated code, proved | proofs |
| `Shell` | what the shell's `PrintStack` shows of `CiphVM`'s stack | definitions |
| `Parser` | `Parser::parse` and every parse function, over a stream of tokens | detailed specification |
| `ParserProofs` | that the parser's nodes are a tree, that operators bind, and where it runs out of memory; and of the parser with the generator, type correctness and what is made of what was accepted; proved | proofs |
| `Compiler` | the composition: `Parser`, then `CodeGenerator` on the nodes it allocated | composition |
| `Trees` | small syntax trees for TLC | instance |
| `MCVM`, `MCVMHigh`, `MCCodeGenerator`, `MCCompiledCode`, `MCLexar`, `MCCompiler` | instances for TLC; `MCCompiledCode` also holds an evaluator of trees to compare with | instances |

So the chain from text to bytes in memory has links that meet: the lexar's tokens satisfy the
`IsInput` the parser assumes (`HandsOver`), the generator is run on the parser's nodes (`Compiler`)
and against the abstract machine (`CompiledCode`), the abstract machine is refined by the real one
(`CiphVM`). The last two links meet in one definition, `WellTyped`: `StackDiscipline`, proved of the
generator, says its code satisfies it, and everything proved of the machine's sound programs assumes
it.

### 2.1 The virtual machine (`CiphVM`)

State: `mem` is the array; its first 32 bytes are the sixteen registers, so a store
to memory may be a store to sp or pc and the model does not separate them.
`allocPointer` and `returnValue` are the code's; `status` says where the client's
calls stand; `loaded` is a history variable (what the last `load_program` was given
and did), which no guard of a handler reads.

Actions: `Load` is `load_program` with `Memory::load`, the rounding of the stack's
start included; each handler is an action of its own, from the fetch of its opcode to
the `pc++` of the loop behind it; a handler is a composition of functions of the
memory in the order of its statements, because the operand bytes are read through a
pc that lives in the array being read. `jump_eq_handler`, `jump_nz_handler` and
`jump_gt_handler` do nothing, as in the code; CMP of a register other than sp consumes one
operand byte and compares nothing. `StackMachine` promises no jump but JLT and no CMP but
that of sp: a program that has others is not `WellTyped`, and run `jumps` shows what it gets.

Decisions:

* The code checks no bound. An access outside the array (undefined behaviour), a call
  of the null pointer `handlers[...]` inserts for an unknown opcode, and a division by
  zero each end the process: `outofbounds`, `nohandler`, `divzero`. Nothing is
  assumed about a machine after them.
* Memory above the registers is not initialised: it holds an arbitrary byte of `Fills`
  throughout. Registers start at zero.
* A client calls `load_program` when the machine is new or the last program
  returned. `step` and `execute` have the same body; an interrupted sequence of
  `step`s with a load in between is not modelled.
* Arithmetic is computed in `int` and narrowed to 16 bits, quotients are truncated.

`Sound(loaded)` says that the loaded program follows a stack discipline
(`Typing`), that it was given room, that its stack fits and that its counted slots are
at addresses eight bits hold. The code checks none of it; the properties say what the
handlers guarantee under it. Programs that are not sound run too, in every order with
sound ones, and may do anything their bytes say.

### 2.2 The code generator (`CodeGenerator`)

State: the members of the class, the tree as a heap of nodes (a sequence of records
that refer to each other by index, 0 for `nullptr`), the C++ call stack as a sequence
of activations, the printed messages, and a history variable `starts`, the offsets at
which an instruction was emitted.

Actions: one per generate function up to its first call, and one for what is left of it
when its calls have returned (`emitReturn`, `closeLoop`, `moveResult`,
`generateCompareOperator`, `generateOperator`). `finishCode` is the rest of
`generateCode`: HALT, the patch of the leading JMP, `resolveUnresolvedCalls`. A null
child and a condition that is no comparison are dereferenced or cast unchecked:
`Undefined`.

`generateAgain` is a second `generateCode` on one generator: it clears the bytes and
nothing else, and `before` keeps what the first call made. The model stops at two
calls: the tables after the second are found by a third as they were found by it.

Left out: `generateFunction` (never called), `m_pointers` (never used) and the copy to
`m_resultBytecode`. The trees include the partial ones a failed parse leaves.

### 2.3 Compiled code on the machine (`CompiledCode`)

The generator's first instruction is a JMP, for which the machine has no handler (the action
`NoHandler`), so nothing the generator emits runs as it is. The machine's own tests run
code without it, and so does this module: what is behind the JMP. `Disciplined`
describes, on the tree, the programs the generator has code for; the others (calls,
functions, a `let` or a comparison inside a loop, `x++` as an operand) are generated
but not run.

`Addressable` says that the code is shorter than 32768 bytes. The offset of a loop is two bytes that
the machine reads as a signed number, so in longer code a jump back lands elsewhere; and every POP
lets the sixteen-bit `m_stackSize` fall, so that in much longer code it comes round and a variable
gets a slot no stack has. Nothing in the generator refuses such a program. The trees of the runs are
far from it; the proof of `StackDiscipline` for every tree is not possible without it.

The reference evaluator of `MCCompiledCode` gives `while` its usual meaning: the condition is
evaluated first, whatever it compares, and the body runs while it holds. The code runs the body
before the condition and jumps back on `<` only (`generateWhileStatement`), so the two differ on a
loop that is reached with its condition false and on a loop with another comparison. `ReturnsValue`
sets apart the programs that reach one (`otherwise`), and says that on all others the code does what
the tree says. An inner loop is left with its condition false and is entered so again at the next
turn of the outer one: that is the "nesting while loops doesn't work" of
`docs/dev_log/entry_beginning.md:42`, which the code bears out, so it is not among the disagreements
of section 3. No document or test says of a single loop which of the two runs first.

### 2.4 The parser (`Parser`), and the compiler (`Compiler`)

State: the lexar's tokens and cursor, the heap of nodes (the one `CodeGenerator` walks),
the C++ call stack, and what the last function returned: `value`, a node or 0 for
`nullptr`, or `error`, a code. Two history variables: `grouped`, the nodes read in
parentheses, and `dropped`, whether `parseFunctionStatement` ignored an error.

Actions: one per parse function up to its first call, one per remainder. The three
binary levels have the same shape in the code and one here (`Operand`, `operator`,
`makeBinary`). An error unwinds the stack (`propagate`) as far as a function definition,
which drops it.

Decisions:

* A token stream is what a successful `lex` leaves: any tokens, then one END_OF_FILE. A
  number has a value or is more than `stoi` takes, whose exception nobody catches
  (`terminated`).
* Reading a token behind the last one, or the last statement of a function that has none
  (or a null one), is undefined behaviour and the end (`undefined`). Both happen, behind
  the errors a function definition drops.
* A statement that reads no token is added for ever. The bound `MaxStatements` stands for
  memory: a scope holds as many statements as there are tokens, which a scope whose
  statements each read something never reaches. Then `bad_alloc` (`exhausted`).
* `peek` truncates the position of the token it shows to 16 bits (`lexar.cpp:227-231`) and `pop`
  does not (`Peek`, `Popped`). Behind token 65535 the parser would decide on one token and read
  another. `ShortAssumption` keeps the inputs below that: a source text of tens of thousands
  of lines is no program of this language, whose machine has two-byte addresses.
* Positions and texts of errors are left out.

`Compiler` runs the generator on what parsed without an error, as `main` does. It assumes of the
tokens that they are of the types of `lexar_defines.hpp`, that the value of a NUMBER is a natural
number, and that the names that occur, and `main`, are `Names`. A tree is whole, `Complete`, when
some set of nodes has the program and all its members' children in it: null is no node.

### 2.5 The lexar (`Lexar`)

A text is a sequence of characters with offsets from 0. The state is the class's
members and `cursorPosition`, the line and column `lex` keeps; `refused` is a history
of the characters at which a `lex` gave up. An action is one turn of the loop of `lex`:
the white space, and the token, the unknown character or the end that is behind it.
What is read ahead and put back within a turn (the character behind a number or a word,
and the column with it) is in the action's result, not a step.

Decisions:

* `lex` and `pop` may be called in any order. A `lex` that failed goes on behind the bad
  character when it is called again, with the tokens it had; one after success is
  refused. Tokens are popped when there are some (`lexar.hpp:60-67` asks that of callers,
  and `Parser` models those that do not).
* A NUL in the text ends it. Characters are ASCII: `isdigit` and `isalpha` of a negative
  `char` are undefined. Letters are those of both cases.
* `s_operators` is the table line by line, in its order, because the first line that
  fits is taken. `<<=` and `>>=` are never read: `<<` and `=` are, and the line with
  `LEFT_SHIFT_ASSIGNMENT` has the second character of `<=`. The tests know
  (`tests_lexar.cpp:60` is commented out).
* An operator of two characters is recorded at the column of its second one, which
  `Located` states; no document says otherwise.
* The tokens of `Parser` have values where these have texts: `stoi` is the parser's.

### 2.6 The disassembler (`Disassembler`, `Listing`) and the shell (`Shell`)

`Disassembler` has the tables of `shared_defines.hpp` (which opcodes and registers have a name) and
its own switch (how many operand bytes follow an opcode) beside the handlers'. A line is the opcode
and what it shows of the operand bytes read for it (`Shown`): all of them, but for CMP, whose
operand `disassembleInstruction` reads and drops (`disassembler.cpp:34-36` throws the returned
string away), so that its line is `CMP` alone. No document or test says what such a line should
show. `unordered_map::at` throws and nobody catches it (`out_of_range`); an operand behind the end
of the program is undefined (`undefined`). Clients with a program of their own may ask for lines
before and after it is disassembled, which inserts empty ones; that a second `disassemble` writes
the same lines again is left out.

`Listing` runs it on what the generator made, as `CodeGenerator::disassemble` and `main`
do, and on the programs of `Handwritten`. `SameOperands` says for every opcode that has a
handler whether the disassembler goes on where the handler does and whether the line shows what
it consumes, and names the exceptions.

`Shell` is `PrintStack`, a function of the machine's memory. `ShownStack` compares it
with the slots of a sound program. The rest of the shell is input and output.

## 3. Runs

| run | instance | states | shows |
|---|---|---|---|
| `vm` | 80 bytes; eleven programs: three of `tests_processing_unit.cpp`, three of this project for the handlers and wrap-arounds those leave out, and five that follow no discipline; memory filled with 0 or with 207 (RET); every sequence of loads until memory is full, and after | 25,892 | `TypeOK`, `InFrame`, `SoundNeverStrays`, `TestResults`, `ResidentText`, `CountsItsSlot`, `ExecuteReturns`, `ImplementsStackMachine`, `ShownStack` |
| `vm_high` | 272 bytes; padding of 203 or 204 bytes, a counting program and one whose pc leaves memory | 352 | `InFrame`, `CountsItsSlot` on both sides of the last address INC can count at |
| `inc_beyond_255` | as `vm_high` | - | **violated**: INC increments the slot at the given offset |
| `jumps` | as `vm` | - | **violated** (`BranchesOnComparison`): CMP of two registers compares them, and JNZ, JEQ or JGT behind it jumps on the result |
| `code_generator` | 7200 trees of three statements over 30, each generated twice and listed; every program of up to three of 19 bytes, listed | 678,026 | `TypeOK`, `Boundaries`, `AppendOnly`, `SameAgain`, `SameOperands`, `ListsWhatWasMeant` |
| `disassembles` | the trees of `code_generator` | - | **violated**: what was generated can be listed |
| `compiled_code` | 8464 trees of four statements, 552 of them run | 211,782 | `StackDiscipline`, `ReturnsValue`, `Finishes` |
| `lexar` | 24324 texts: up to four of twelve characters that begin, extend or end a token of each kind, three operator characters, and two long texts | 306,771 | `TypeOK`, `Tiled`, `Longest`, `Located`, `HandsOver`, `AnalysedOnce` |
| `compiler` | 14359 token sequences: three of 24 pieces of a program, most of them one token, and eight longer programs | 738,966 | `TypeOK`, `Faithful`, `Precedence`, `StuckAtStrayToken`, `AcceptedIsGenerated` |
| `missing_brace` | as `compiler` | - | **violated**: a scope that is not closed is reported |
| `variable_slots` | as `code_generator` | - | **violated**: two variables never share a slot |
| `returned_literal` | as `compiled_code` | - | **violated**: `return 25` returns 25 |

The properties are commented where they are defined. In short:

* `InFrame`: while a sound program runs, pc is at one of its instructions, sp is
  exactly as high as the discipline says, its text is intact.
* `SoundNeverStrays`: it never reaches a missing handler or leaves memory.
* `TestResults`: five programs, of which three are from `tests_processing_unit.cpp` and expected to
  return what the tests say, return what they should whatever ran before: no stale register, stack
  word or return value shows.
* `ResidentText`: no load and no sound program's stack overwrites a loaded text.
* `CountsItsSlot`: INC and DEC of a slot change exactly the word PEK reads.
* `ExecuteReturns`: `execute` gives the thread back.
* `ImplementsStackMachine`: the bytes do what the abstract machine does, step by step.
* `Boundaries`: the output, read the way the machine consumes it, is the sequence of
  instructions the generator meant, and none starts inside another.
* `AppendOnly`: nothing but the operand of the leading JMP is ever rewritten.
* `StackDiscipline`: the code of a disciplined tree is `WellTyped`.
* `ReturnsValue`: with one variable, it returns what the tree says, but for the loops of 2.3 and for
  returned literals.
* `Finishes`: it runs to a RET: no loop jumps to itself or past what ends it.
* `SameAgain`: a second `generateCode` makes the same bytes, if no variable is defined.
* `SameOperands`: the disassembler's table of operands agrees with the handlers', and a line shows
  the bytes the handler consumes, but for the exceptions it names; a line of CMP shows none.
* `ListsWhatWasMeant`: the listing of generated code has a line for each instruction that
  was meant, with its operands unless it is CMP, and others only inside a JMP.
* `ShownStack`: the shell shows each slot of a program's stack, with the offset and the
  number the program finds it by.
* `Tiled`: what the lexar has read is its tokens, white space and the characters it gave
  up at, in order: none is lost and none read twice.
* `Longest`: no token could have been longer, but for `<<` and `>>` in front of `=`.
* `Located`: a token is recorded at its line and column.
* `HandsOver`: END_OF_FILE is there once, last, when the analysis is done, and not before.
* `AnalysedOnce`: no later call changes the tokens or moves the parser back in them.
* `Faithful`: a parse that is accepted, complete and dropped no error has read every
  token once and in order: printed, the tree is the program.
* `Precedence`: an operator's operands bind tighter, or were in parentheses.
* `StuckAtStrayToken`: the parser runs out of memory only at a token that begins no
  statement; every other statement reads something.
* `AcceptedIsGenerated`: what is accepted without a missing child never makes the
  generator follow a null pointer. (What is accepted *with* one does: `1 + 2 + 3`.)

**Bounds.** 80 bytes hold the registers and one to three programs with their stacks, enough for
every order of two loads, for a program that does not fit, for one that fits and whose stack does
not, and for a load over an earlier stack. 272 is just past what eight bits address. Two fills
distinguish memory that reads as zeros and memory that reads as a valid opcode. Trees of two free
statements and a last one have every pair of adjacent statements; three pieces of a program have
every token before and after every other, at the start, inside a loop, a function and parentheses;
four statements are needed for a definition, two statements that use it and a return. Four
characters of a text hold a token, what separates it, and a whole token behind it, or an operator of
two characters between two others; all twelve operator characters meet in threes; a text of four can
fail four times and be taken up again. Integers keep their 16 bits everywhere; the literals -300,
300 and 9 drive products past them. The one bound the model's properties name is `Addressable`,
32768 bytes of code (2.3).

**Fairness.** `CiphVM` has weak fairness of the machine's step and none of `Load`: `execute` is a
loop that ends at RET only, while a client need not load anything. `CodeGenerator`, `Listing`,
`CompiledCode`, `Parser` and `Compiler` have weak fairness of their next-state relation: a
sequential program keeps running, and `Finishes` needs no more. `Lexar` has weak fairness of the
turns of `lex` and none of the client's calls. `CHECK_DEADLOCK FALSE` is set throughout because each
system stops: a process that crashed, a code that was generated, a program that returned.

**Mutants.** Each property is checked against a change of one definition that a
plausible slip in the code would be (an operand read in the other byte order, a
one-byte pc advance, a rounded-down size, a loop offset without its opcode, operands
swapped ...); each is defined beside the definition it replaces.

### Disagreements found

1. `inc_handler` and `dec_handler` compute a slot's address in a `uint8_t`
   (`instructions.cpp:196-199`): beyond address 253 they count another word
   (`docs/instruction_set.md:49`).
2. CMP of two registers compares nothing: the handler reads one operand byte, and the byte of the
   second register is the next opcode (`instructions.cpp:136`); `docs/instruction_set.md:72` and
   `shared_defines.hpp:51` say it subtracts into `imm`. JNZ, JEQ and JGT, which could branch on
   that, have empty handlers (`instructions.cpp:230`, `docs/instruction_set.md:68-70`). JMP has no
   handler at all, and every compiled program starts with one. That has no run of its own: what JMP
   should do is one line of the same table, and the action `NoHandler` ends such a program in `vm`.
3. `generateLetStatement` gives every variable defined before the first arithmetic the
   slot 0, because nothing increments `m_stackSize`
   (`tests_code_generator.cpp:241-251` expects 0, 1 and 2).
4. `return 25` pushes 25 and returns the old `ret`
   (`tests_processing_unit.cpp:119-124`).

5. A scope that is not closed is parsed for ever: the error of `parser.cpp:126-130` is
   built and not returned.
6. The disassembler throws at HALT, the last instruction of all generated code, because
   `instruction::mnemonics` has no name for it (`shared_defines.hpp:59-89`,
   `disassembler.cpp:10`); `tests_code_generator.cpp:216` and seven other tests, and
   `main`, list generated code.

## 4. Proofs

`CiphVMProofs` proves, for every memory size, every set of programs, every fill and
every typing that `CiphVM`'s assumptions allow:

* `TypeCorrect`: `Spec => []TypeOK`;
* `FrameSafe`: `Spec => []InFrame`;
* `NeverStrays`: `Spec => []SoundNeverStrays`;
* `CountingSafe`: `Spec => CountsItsSlot`.

The assumptions: memory has room for the register file and fewer than 65535 bytes
(a pc beside the last byte must not wrap), programs and fills are bytes, and each
typing in `Typing` is `WellTyped`. TLC evaluates them on every run.

The argument. The four statements rest on one inductive invariant, `IInv`: `TypeOK`,
`SoundNeverStrays`, `InFrame`, and `Home`, which says that the last load was given an
address behind the registers and a stack behind its text, or is not sound. `InFrame`
alone is not inductive: that a push leaves the text and the registers alone follows
only when the stack is known to start behind the text. The lemmas come in layers: what
a stored word and byte is when read back; what a register write leaves alone; what
operand reads, `Push` and `Pop` do to a memory whose sp is inside the frame; and, for
one instruction of a sound program, that a handler whose effect on sp and pc matches
`Continues` re-establishes `InFrame`. Each handler is then one step of the preservation
proof, and instantiates that last layer. `CountingSafe` follows from `IInv` because
`Sound` bounds the counted address, so that the eight-bit sum is the sum.

`LexarProofs` proves, for every set of texts (the one assumption: they are sequences of
ASCII characters):

* `LexarTypeCorrect`: `Spec => []TypeOK`;
* `TilesText`: `Spec => []Tiled`;
* `HandsOverInput`: `Spec => []HandsOver`;
* `AnalysisIsFinal`: `Spec => AnalysedOnce`;
* `TokensLongest`: `Spec => []Longest`;
* `TokensLocated`: `Spec => []Located`.

The argument. `IInv` is `TypeOK`, `Tiled` and `HandsOver` with two facts they need: lex
gave up at characters it has read (`RefusedBehind`), without which the next token could
lie on one, and a performed analysis is not running (`Held`), without which a turn could
change its tokens. `Behind` is a CHOOSE, so that it finds anything is the first lemma: a
set of natural numbers that is not empty has a least one, by the well-foundedness of `<`,
and the NUL behind the text is always a candidate. The lemmas about the table say of each
of its 32 lines that the operator it yields is spelled as the line says, but for the two
that a line before them hides. `NextTile` is the heart: a token spelled with characters
that are not white, from where the white space ends, extends a tiling; each action is then
shown to push such a token.

Two more facts make `TokensLongest` and `TokensLocated` inductive. `Longest` is so as it
stands: a token that was read is as long as can be for what is behind it, and the text never
changes. `Located` needs `CursorOK`: while `lex` runs, the cursor's line and column are those
of the position. A line is one more than the breaks before it, so the step lemmas count:
over white space and over a token the breaks before the end are the breaks before the start
and those in between (`FS_Union`), and the last of them is the greatest of a finite set.

`CiphVMRefinement` proves, under the assumptions of `CiphVMProofs`, that the machine
implements its abstract specification, and what that gives:

* `Refines`: `Spec => ImplementsStackMachine`;
* `TextsStay`: `Spec => ResidentText`;
* `ShowsTheStack`: `Spec => []ShownStack`.

The argument is a step simulation, one lemma per handler (`PushImplements`,
`PeekImplements`, ... `ReturnImplements`). Each shows that a turn of a sound program
`Implements` its instruction: the abstract machine's instruction of that opcode is what
happened to place, slots and registers, and nothing between the registers and the stack was
written (`Untouched`). A handler passes through memories that are none of the machine's
states, an operand read, a word popped, a word pushed; `Shows(m, o, s, g)` says that a memory
shows offset `o`, slots `s` and registers `g`, and there is a lemma for what an advance, a
register write, `Pop`, `Push` and a store to a slot do to what is shown. A load that is not
sound, and everything after it until the next one, is `Wild`. `TextsStay` adds to `IInv` that a
loaded text ends where memory is free (`Adjacent`), so that what `Untouched` covers includes
every text loaded before. `ShowsTheStack` rests on `IInv`: the shell's halves and differences of
sixteen-bit addresses are what they look like because a sound program's stack is whole words in
memory.

`MCVMProofs` proves of five programs, three of them of `tests_processing_unit.cpp`,
in a memory of any size and whatever the fill, the allocator and the programs run before:

* `ReturnsTestResults`: `Spec => []TestResults`.

The argument never looks at a byte of memory. By `Refines` a turn of a sound program is an
instruction of the abstract machine, and by its opcode it is one instruction only (`StackTurns`,
`OperandTurns`, and one `...Turn` lemma for each opcode). For each of the five programs a list says
at which offsets it can be, with which slots and registers (`Sums`, `Whiles`, `Equals`, `Registers`,
`Wraps`); a lemma says that each turn leads from a line of the list to a line of it, or ends with
the expected result (`Answers`). The list of the loop is not as long as its run: it relates the two
variables to each other. `Tested` is what is then inductive over the abstract machine's next-state
relation. A loaded program starts with no slots, and the lists say of registers only what the
program put there, so nothing that ran before can show.

`CodeGeneratorProofs` proves, for every set of trees a generator may be given (each starts
with a program, children are nodes of the tree or null; no other assumption on its shape, so
trees with nodes shared, missing or circular are included) and of names, `main` among them:

* `GeneratorTypes`: `Spec => []TypeOK`;
* `GeneratorBoundaries`: `Spec => []Boundaries`;
* `GeneratorAppends`: `Spec => AppendOnly`;
* `GeneratorFollowsNoNull`: `Spec => []FollowsNoNull`;
* `GeneratesTheSame`: `Spec => []SameAgain`.

The argument. `TypeOK` is not inductive: an activation relies on the class of its node (`Suits`),
which its caller checked. `Boundaries` is not either. `CodeOK` says of every offset where an
instruction was emitted that the instruction is complete, of a form the generator has (`Meant`), and
that the next one starts where it ends; an instruction that is appended keeps that, one that is
patched only if the patch is an operand. The patch of the leading JMP is. The patches of
`resolveUnresolvedCalls` are at positions kept in eight bits, which in a long program are any byte
at all; that none is ever made follows because a name is recorded only when `functions` has no
address for it, `functions` holds `main` and nothing else, and so holds none of the names that were
recorded (`TablesOK`, `Begun`). A second `generateCode` starts from the tables the first one left,
which `GInv` says nothing is wrong with.

`GeneratorFollowsNoNull` is about a set of nodes rather than about one.
Any set that has the program and the children of its members in it has every node an
activation is of, because a function calls only for children of its own node; a set without null
has none of null. The node `generateComparisonExpression` is called with is a while's condition or
one that was just seen to be a comparison (`NoNull`).

`GeneratesTheSame` relates two runs, which no invariant of one state does. Where no variable is
defined (`NoLet`) what the generator does next is a function of the code and the calls alone
(`After`): `m_identifiers` stays empty, a call is recorded or not with the same bytes, and
`m_stackSize` is written into code by a definition only. The invariant `Same` says of the first run
that a course, a sequence of codes and calls that starts empty and goes on by `After`, has led to
where it is; of the second that it is at some point of the first one's course, which ended in
`before` (`Repeats`). The two then end together, because a point of the course with no calls left is
its last.

`CompiledCodeProofs` proves, for every tree the generator has code for, however deep and wide:

* `CompiledDiscipline`: `CSpec => []StackDiscipline`.

The argument. The invariant is about code with its end missing. `TypedTo` says that some heights
make every instruction so far find its operands, read no slot above the stack and lead to an
instruction of the height it promises; `Promised`, that the activations that wait will each find the
stack as high as they need: what one adds to the height (`Adds`) is the difference to the next. An
operator finds two words because the two expressions before it leave one each; a loop closes at the
height it was opened with (`Ready`), which is why its jump is well typed. After the first RET
nothing runs, and the invariant stops to say anything of what is behind it (`Gone` instead of
`Going`); that there is a RET by the end is `Owed`: a return that was called and not emitted is
still on the stack. `SlotsOK` says that a variable's slot is 0, or that so many POPs were emitted
that the code is not `Addressable`. What remains is that the heights, which the invariant says
exist, are `Heights`, which the model computes as a sum over the instructions behind: by
well-founded induction over the offsets, and a lemma of the sum over a set with one member more.

`ListingProofs` proves of the disassembler beside that generator, and on any program of bytes
a client may have:

* `ListingSameOperands`: `LSpec => []SameOperands`;
* `ListingOfGenerated`: `LSpec => []ListsWhatWasMeant`;
* `ListingBoundaries`: `LSpec => [](TypeOK /\ Boundaries)`.

The invariant adds to `GInv` that every line is as long as the disassembler's own table says and
shows the bytes from its offset on, or of CMP none (`LineOK`), and, for generated code, where the
cursor can be (`Expected`): at an instruction that was meant, or in the operand of a JMP, which the
table has no count for. From there it falls in step again, because the operand is 0 and 0 or 1, and
neither opcode has operands.

`ParserProofs` proves, for every set of token sequences that a lexar may hand over
(`InputsAssumption` and `NamesAssumption`) of at most 65,535 tokens (`ShortAssumption`, without
which `peek` and `pop` part):

* `ParserInvariant`: `CompilerSpec => []ParserInv`;
* `OnlyStrayTokensStick`: `CompilerSpec => []StuckAtStrayToken`;
* `OperatorsBind`: `CompilerSpec => []Precedence`.

The argument. Neither property is inductive, and both are about what the activations that wait
have been promised. `ParserInv` has five parts.

* `Kept` types the state: the nodes are, at every moment, nodes of a tree.
* `Stacked` says what each function takes its activation's node and word for.
* `Nested` says how activations follow each other: a function that reads what its caller peeked
  at is the innermost and the token is still there; a loop waits for `addStatement` on its own
  node; the node of an inner scope is newer. The last is why a statement added to one scope does
  not change how many the scopes around it have.
* `Progress` bounds the statements of a scope by the tokens read (`Ahead`). It cannot do so step by
  step: a statement is counted when it ends, while its tokens are read on the way down. So while no
  token has been read (`Unread`) it says where the descent stands: it has begun, is on its way down
  to the first operand and the token is no keyword (`Descends`), or on its way up and the token is
  neither an operand nor an operator of the levels passed (`Ascends`). What reaches `addStatement`
  without having read anything is at a token that is all of these: a stray one.
* `Ordered` relates neighbours on the stack: what an activation hands back binds at least as tight
  (`Gives`) as the one that waits asks for (`Expects`), unless it is in parentheses (`Binds`). The
  operand of a binary node was handed back so, and nodes never change, statements of scopes apart.

Each action is then one lemma (`LetHolds`, `PrimaryHolds`, ...), over lemmas for what an action does
to the stack: asks for more (`AskStep`), hands back a new node (`MakeStep`), hands back what it
was given (`PassStep`), fails (`FailStep`).

The same module puts the two halves together:

* `CompilerTypes`: `CompilerSpec => []TypeOK`;
* `AcceptedGenerated`: `CompilerSpec => []AcceptedIsGenerated`;
* `CompilerBoundaries`: `CompilerSpec => []Generator!Boundaries`.

Here the generator's initial trees are not given: they are what the parser left. Nothing is
generated before it is done (`NothingAfter`, `Handed`), and what it leaves is a tree
(`ParsedIsTree`), on which a constructed generator satisfies `GInv` and `NoNull`; a step of
`Generate` is then a step of `CodeGenerator` (`SameGenerator`), which keeps them. The assumptions of
`CodeGeneratorProofs` become `NamesAssumption` (`Instantiated`). `PeekIs` is where `ShortAssumption`
comes in: below it the token `peek` shows is the one `pop` takes.

**What stays with TLC.** `ExecuteReturns` and `Finishes` are liveness properties under fairness.
`ReturnsValue` compares with a recursive evaluator of trees, and `Faithful` with `Printed`, a
function defined by recursion over the tree: what a recursive definition yields for every tree
takes induction over the tree, which no prover here does. That a violated property is violated
(the six runs of that kind) is shown by TLC's counterexample and needs no proof.

## 5. Plan

Done: every module of section 2. Every safety invariant and action property of the runs that is
expected to hold is a theorem, but for `ReturnsValue` and `Faithful`. What could still be added:

1. `Faithful`, by an argument that avoids recursion: that there is an assignment of token sequences
   to nodes which agrees with `Printed` node by node, carried along in the invariant as `Going`
   carries heights.
2. `ReturnsValue`, by the same device for an evaluator that is a relation between a tree and the
   abstract machine's slots, on top of `CompiledDiscipline`.

Not modelled: the shell's input and output other than the stack it shows (its lines of
input are joined with nothing between them, so that the last word of one and the first of
the next are one token), the error table, the commented-out
compiler executable, the project skeleton and the build.
