# A verification model of the Wyrm compiler

Wyrm is a small language. Its compiler (`src/src/`) is a command line program in Zig
(`main.zig`) around passes written in C: a Zig lexer feeds a C parser, two semantic passes
annotate the tree, a code generator writes bytecode, and the program ends by disassembling
that bytecode. A virtual machine is in the repository but is not called. Everything runs in one thread.

This directory holds TLA+ modules translated from that code, TLC configurations that check
them on small instances, and TLAPS proofs of what matters most for every instance.

```
 source --> Lexer --> Parser --> tree --> printAST --> resolveNames --> typeCheck --> generateBytecode --> disassembleChunk
            (Lexer)  (Parser)  (Ast)  (TreePrinter)   (SemanticAnalysis)            (Codegen)          (Compiler)
                     |                                   |        |                    |    \......> evaluate, never called
                     |                              SymbolTable   |                  Chunk                  (Vm, Execution)
                     \---------- Diagnostics --------------------/--- compile(), buildMain (Compiler)
                                (ErrorDisplay)
            all passes allocate in one arena: Arena, GrowableArrays
```

## 1. The system

| Component | State | Operations | Modelled by |
|---|---|---|---|
| Lexer (`compiler/lexer/lexer.zig`) | index, line, column | `lx_init`, `lx_nextTok` | `Lexer` |
| Parser (`compiler/parser/*.c`) | one token of lookahead, the lexer, the C call stack | `p_parse` and the parse functions | `Parser` |
| Syntax tree (`compiler/ast.h`) | nodes; the passes write `unusedResult` and `scope` | none | `Ast`, `Trees` |
| Diagnostics (`compiler/error/error.c`) | two arrays of 255 entries, two counters | report, count, print | `Diagnostics`, `Compiler!printErrors`, `ErrorDisplay` |
| Symbol table (`semantic_analysis/symtable.c`) | scopes with symbols, a slot counter | `initScope`, `scopeLookup`, `scopeLookupCurrent`, `scopeAddSymbol` | `SymbolTable` |
| Name resolution, type checker (`semantic_analysis/*.c`) | the tree's annotations, the scopes | `resolveNames`, `typeCheck` | `SemanticAnalysis` |
| Tree printing (`compiler/ast.c`) | the C call stack, a mask of bars | `printAST` | `TreePrinter` |
| Code generator (`codegen/codegen.c`) | bytes, constants, location of main | `generateBytecode` | `Codegen` |
| Chunk (`vm/chunk.c`, `vm/value.c`, `reallocate`) | two buffers on the heap | `initChunk`, `writeChunk`, `addConstant`, `freeChunk` | `Chunk` |
| Driver, disassembler (`compiler.c`, `main.zig`, `vm/debug.c`) | the arena, the exit status, an offset | `compile`, `buildMain`, `disassembleChunk` | `Compiler` |
| Arena, growable arrays (`utils/memory.c`) | linked buffers, an offset; capacity, length, data | `arenaInit`, `arenaAlloc`, `arenaDestroy`, `growableArray*` | `Arena`, `GrowableArrays` |
| Virtual machine (`vm/vm.c`) | value stack, instruction pointer | `initVM`, `evaluate` | `Vm`, `Execution` |
| CST parser (`compiler/cst_parser`) | events | - | not modelled: not built |
| Command line, build, test runner | - | - | not modelled, but for what `test.cpp` expects (`MCRepositoryTests`) |

The components interact by calls and by shared data: the passes share the tree, which they
annotate in place, the scopes, which the generator reads again after the checker has
finished with them, the buffers of diagnostics, whose length decides after each pass whether
to go on, and the arena, which owns all of it and is destroyed as a whole.

### What is hard here

There is no concurrency, no persistence and no network. What is hard is the *protocol
between the passes* and *boundaries*:

* **Two lookups of one name.** The checker looks a name up while it builds the scopes, the
  generator in the finished scopes. What was declared later is there the second time.
* **A contract nobody writes down.** The generator dereferences symbols and scopes without
  a test and relies on the checker having visited every node and refused what has none.
  A `const` in a block and the unit value `()` are not looked into.
* **Slots are stack positions** only if every statement leaves the stack as it found it, on
  every path through `if`, `return`, blocks and unused results.
* **Open operands.** Jumps are written before their targets are known, and the call of main
  stays open during the whole walk; patching is offset arithmetic.
* **Life of messages.** `compile()` destroys the arena before its last `printErrors`, and
  some messages live in the arena.
* **Limits.** 255 diagnostics, 256 constants, one byte for a slot, two for a jump, buffers of
  65536 bytes, unsigned arithmetic in the allocator's fit test.
* **Silent steps of the parser.** There is no recovery. `p_consume` passes over nothing and,
  in front of an unknown token, says nothing; some functions return without a value after
  reporting, and some loops read on only if what they call does.
* **Two counts of lines.** The lexer counts lines and columns, `printError` finds the line
  again from the offset.
* **Code that nothing runs.** The generator and the virtual machine were written for
  different widths of a jump.
* **Termination** of loops whose progress lies in another function (`lx_nextTok`,
  `disassembleInstruction`, `arenaDestroy`).

`PROJECT.json` lists each hazard with its line and the properties aimed at it.

## 2. The modules

**`Ast`** has the syntax tree as a table of nodes; a pointer is an index. `WellFormed` is
what the parser guarantees of a tree it reported no error for: the children each kind has, and
`SingleParents`, that every node but the first is the child of one node, once. `MAKE_NODE` zero-initialises
nodes, so a field the parser does not write is NULL or false. `Names` are the names of a
program, `WrittenType` the types it can spell; both are for the type invariant and the proofs.

**`Diagnostics`**: a buffer is a sequence; a message is its text and who owns the memory of
it, a string literal (`static`) or the arena. `Report` drops what does not fit.

**`SymbolTable`**: all scopes in one sequence; a scope carries the set of itself and its
ancestors instead of a parent pointer. Ancestors are older, so the innermost
one is the largest index.

**`CompilationUnit`** declares the state the passes share. The passes are recursive C
functions; here the C call stack is data: `stack` is the sequence of calls and remainders of
calls still to be executed. A call replaces the top task by the tasks of its body, a return
drops it. Each C function is one action per case of its `switch`, and one more for what it
does after a recursive call returns (`binopEnd`, `ifTrue`, `outJump`, ...). The order of
tasks is the order of calls in the source, which decides the order of scopes, slots,
messages and bytes.

**`SemanticAnalysis`** (`resolveNode`, `typecheckStmt`, `typecheckExpr`) and **`Codegen`**
(`genStmt`, `genExpression`, `generateBytecode`) are those actions. `typeOf`, `bound`, `log`
and `letAt` are history variables, except that `typeOf` also stands for the C return values.
Undefined behaviour is nondeterminism: an uninitialised `funcIndex` is any value of
`Garbage`; running off the end of `typecheckExpr` yields NULL, a wild pointer, or a crash;
a NULL dereference is the phase `crashed`.

**`Compiler`** composes them: `compile()` with its three gates, and the end of `buildMain`.

**`CompilerProperties`** has the properties, among them a small bytecode verifier
(`Depths`) that computes the set of stack depths of every instruction.

**`Parser`** reads one token at a time. As in `CompilationUnit` the C call stack is data:
`calls` is a sequence of frames, and a frame has the place where the function goes on
(`params`, `stmts`, `infix`, `ifTrue`, ...), the node it is building, its children so far and
the minimal binding power. A call puts a frame on top, a return appends a node to the
children of the frame below. `p_next`, `p_consume` and `parseType` return at once and are
operators on the record `p` (position, messages, allocated items). A token is its lexeme, and
only tokens that `lx_nextTok` can deliver occur. Undefined behaviour: the pointer that
`parsePrimary` leaves behind after an error is the node `Garbage`; writing through it
(`indexExpr`) may crash, and so may its `strcat`.
A parser that cannot move allocates until there is no memory; `MaxItems` is how much that is,
and the outcome `exhausted` stands for it.
**`ParserProperties`** has what is expected of it, with a reference parser by the operator
that binds least (`Reference`) and the text of a tree (`Text`).
**`RepositoryPrograms`** has the programs under `tests/`, as tokens and as trees, for
`MCParser` and `MCRepositoryTests`.

**`Chunk`** is the heap behind the two sequences of `Codegen`: addresses, blocks, and
`realloc`, which may move a block or fail. **`Vm`** has one action per case of `evaluate`; what
leaves the stack, the chunk, the constants or the range of an int stops it as `undefined`.
**`Execution`** composes `Compiler` and `Vm`: the chunk of an accepted program is run, from
its first byte (what `evaluate` does) or from the code of main on. From the first byte on the
call pops an empty stack, so nothing but main can be said to run.

**`ErrorDisplay`** extends `Lexer` with `printError` for the error that `p_parseDecl` reports
behind the keyword `pub`: the simplest error whose token can be of any kind.
**`TreePrinter`** is `printAST`, its pending calls a sequence, `has_lines` an integer of
`MaskBits` bits; one step prints one line.

**`Trees`** is notation to write programs down, **`MCCompiler`**, **`MCLimits`** and
**`MCRepositoryTests`** are instances.

**`Arena`** is the allocator: one action for an allocation in the current buffer, one for an
allocation that needs a new one, and the walk of `arenaDestroy`, one `free` per step.
**`GrowableArrays`** extends it with arrays that move when they grow and a memory of bytes.
**`Lists`** is the abstract specification: lists that grow at the end.
`GrowableArrays!ImplementsLists` is the refinement, whose mapping reads the arrays through
`growableArrayGet`.

**`Lexer`** has one action per state of the machine in `lx_nextTok`. Characters are one or
two representatives per class the `switch` distinguishes, the operators' six states are one
action since they differ in the character only.

Eight modules hold the theorems. **`CompilerProofs`** (messages, and the types of the whole
compiler), **`ScopeProofs`** (what the checker leaves), **`GeneratedCodeProofs`** (the bytes) and
**`CompletenessProofs`** (the walks of the checker and the generator over the tree) are about `Compiler`, each on top of
the ones before it; **`ParserProofs`**, **`LexerProofs`** (with `ErrorDisplay`),
**`GrowableArraysProofs`** (with the arena) and **`ChunkProofs`** are about the module in their name.

## 3. The runs

| Run | Question | States |
|---|---|---|
| `compiler` | Is what `compile()` accepts compiled correctly, and what it cannot compile refused? | about 89,000 |
| `limits` | Are long jumps, and constants up to the limit of the pool, right? | about 12,000 |
| `growable_arrays` | Does the arena keep blocks apart, and arrays their contents? | about 200,000 |
| `lexer` | Do tokens cover the source, with right kinds and positions? | about 257,000 |
| `parser` | Is what is accepted the tree of the source, and does the parser end? | about 610,000 |
| `execution` | What does `evaluate` run as it was written? | about 46,000 |
| `chunk` | Do the buffers keep their contents, and are they freed? | about 7,000 up to symmetry of addresses |
| `tree_printing` | Is the picture of the tree right? | about 10,000 |
| `error_display` | Is the cited line shown, and the right part of it marked? | about 349,000 |
| `repository_tests` | Does the compiler do what its tests expect? It does not. | violation |
| `lexer_sentinel` | Does the lexer stop at the NUL? It does not. | violation |
| `error_sentinel` | Does `printError` stop at the NUL? It does not. | violation |

### Properties of the compiler

* `SlotsDense`: at every point of the analysis the visible locals occupy exactly the slots
  below the scope's counter, each once.
* `BindingsAgree`: the slot the generator emits for a name is the one of the symbol the
  checker resolved, except where a later declaration of the name (or the declaration the use
  is the initial of) has come into scope in between: there the code does differ.
* `CrashOnlyWhereUnchecked`: NULL is dereferenced only in programs with a `const` in a
  block or a unit value. The premise is exact: the run contains such crashes.
* `NoDanglingMessage`: no message is read after the arena was destroyed.
* `JumpsLand`: when the chunk is complete every jump leads where its construct says and the
  entry calls main. `PatchOnlyOperands` (an action property): bytes change only when they are
  open operands.
* `DisassemblyAligned`: the disassembler stops at the starts of instructions only.
* `ConstantsFaithful`: the constant an integer literal loads is its value, up to the limit.
* `AcceptedIsComplete`: exit status 0 means every construct was compiled, exactly once.
* `CodeVerifies`: the stack depth at each reachable instruction is unique, a name reads the
  position its declaration filled, and what an instruction takes is on the stack, except at the
  `RETURN` behind the statements of a function. There the depth is exactly zero, and as
  `evaluate` pops a value at every `RETURN`, a function that falls off its end underflows the
  stack (`FallsOff`). The property holds under the premise `Disciplined`: every operand, initial and condition has a type, the
  branches of an `if` agree, names are locals declared before their use. Without
  the premise it does not hold: the checker treats a missing type as equal to all types, so
  `1 + {}` is accepted and adds one value to nothing. The premise also excludes slots that do
  not fit into a byte.
* `Terminates`: the compilation of every tree ends.

### Properties of the lexer

* `NothingLost`: tokens do not overlap, and what no token covers is blank or comment.
  `PositionsRight`: line and column of a token against the newlines in front of it.
* `LexemesRight`: the text of each token is one of its kind (`OfItsKind`), and what follows
  could not have continued it (`Longest`), except for floats: a float ends right behind its
  point, since the state `integer` returns there and nothing enters the state `float`. A number
  with a fraction is two tokens: `1.5` is the float `1.` and the int `5`.
* `OverrunOnlyAfterSlashes`: the NUL is passed only behind two final slashes.
  `Terminates`: calling `lx_nextTok` again and again reaches the end.

### Properties of the parser

* `ReportedOrWellFormed`: while nothing is reported nothing undefined has happened, and the
  tree returned then is `WellFormed`: what `Compiler` assumes of `Programs`. The operator `[`
  is the exception the property names: it overwrites its operand.
* `NothingDropped`: the tree of an accepted source, written out again, is the source without
  parentheses, `pub` and `then`; every parenthesis is closed, and the `)` of each unit value is
  one that somebody else has read. The exceptions (public constants and `[`) are in the premise.
* `PrecedenceRight`: operators, prefixes and parentheses give the tree of the reference.
* `SpinsOnlyWhenStuck`: the parser is without end exactly in two situations: behind the last
  token inside a list, and at a token at the top level that starts no declaration. The second
  includes the semicolon behind `pub const a = 1`. `Terminates`: everywhere else it ends.
* `RepositoryProgramsParsed`: the tests give the trees that `repository_tests` compiles.

### Properties of the machine, the chunk and the output

* `RunsAsWritten`: a program of one function without branches and without `false` prints the value of
  its first `return`, computed from the syntax tree (`Meaning`). It relates the order in which
  the generator pushes operands to the order in which the machine pops them, and slots to
  stack positions. Without a `return` such a program never ends with `INTERPRET_OK`: the machine
  gets to the `RETURN` behind the last statement with an empty stack (`OffTheEnd`), and what it
  pops there lies below the stack.
* `DecodesInstructions`: from the start of an instruction that is no jump or call the machine
  goes on to the start of another, so it is jumps alone that make it run operands.
  The run contains programs whose branches have the length of an opcode and go wrong.
* `ContentsKept`: whatever is moved or patched when, a buffer holds what was written to it,
  which is what `Codegen` takes for granted. `NoBlockLost`: the heap has exactly the blocks
  the chunk points to, none after `freeChunk`. A program the generator rejects keeps them
  to the end of the process: `reject` does not free, and the model says so.
* `TreeDrawnRight`: each node is printed once, in the order of the source, and bars stand
  below exactly the ancestors with a sibling to come; the shift that computes them is defined
  as long as the tree is less deep than an int has bits.
* `ShowsTheCitedLine`: the line shown is the one with the number reported, whole, and the
  carets are below the token.

### Bounds, and why they are enough

* `MCCompiler`: bodies of all pairs of 34 statements, of all pairs of 14 plain ones behind
  `let a = 7`, and 18 programs with globals. Properties relate a declaration, a use and
  possibly one construct around them, so pairs under a declaration contain each pairing:
  redefinition, shadowing before and after the use, use in an initial, nested blocks, return
  in a branch. Programs are limited to what the lexer can deliver: it
  has no token for `,`, `.`, `%`, `&`, `|`, `!=`, `@` or strings, so functions have at most
  one parameter and lambdas, builtins and tuples do not occur. An operand followed by `[` is
  left out: the parser corrupts that operand (see the hazards). `MaxErrors = 2` makes the
  buffers overflow.
* `MCLimits`: `ByteSize = 16` instead of 256, so that 17 literals or a branch of 12 statements
  cross the limit of the constant pool and the low byte of a jump, and programs on both sides
  of each. Slots beyond a byte are not in the run: `BindingsAgree`, which is proved, says that
  they are cut to a byte.
* `MCGrowableArrays`: buffers of 16 bytes, items of 1 and 2 bytes, blocks of 1 to 16 bytes
  with alignments 1, 2, 4 and 8, `GROW_CAPACITY` from 2 on, 4 allocations: enough for two
  arrays to move twice across a buffer boundary with foreign blocks in between.
* `MCLexer`: all sources of up to 4 characters (12 classes), and of up to 6 of a letter, a
  slash and a newline. No token of the lexer needs more than two characters of context.

* `MCParser`: all files of up to 3 tokens of 11, all sequences of up to 3 of 7 global
  phrases, all parameter lists of up to 4 tokens of 6, all bodies of up to 2 tokens of 24 and
  of up to 4 of the tokens that open and close statements, all argument lists and all
  expressions of up to 4, and chains of three operators with prefixes and parentheses. The
  parser has one token of lookahead and each function reads a fixed number of tokens between
  two calls; what it does depends on the current token and the frame on top, and every
  pairing of the two occurs. `MaxItems = 24` is enough for every source of the run that does not get
  stuck, as `SpinsOnlyWhenStuck` confirms.
* `MCExecution`: `ByteSize` and `StackMax` 16 instead of 256, `MaxInt` 31: 608 programs of a
  declaration, two statements of 8, an operator and a return, the same without the return, of branches whose length is the
  number of an opcode, and chains of operands as long as the stack.
* `MCChunk`: three addresses, so that a block moves while the other stays; capacities 2, 4,
  8 and up to 5 bytes written, so both buffers grow twice.
* `MCTreePrinter`: an int of 5 bits and a mask of 8 instead of 32 and 64, and all trees of
  blocks with up to two children on three levels; one tree is deeper than the int.
* `MCErrorDisplay`: the keyword with every text of up to 2 characters in front and 3 behind,
  of 7 classes: newlines, comments and blanks on both sides. The sentinel run needs less.

`MaxBlocks`, `MaxItems` and every `Max...` of an MC module are bounds of the runs and not of
the code; `MaxErrors`, `StackMax`, `MaxInt`, `IntBits` and `ByteSize` are limits of the code,
made small.

### Fairness

The program is a single thread that never waits, so `WF_vars` of the whole next step (without
the stuttering step of a finished process) is what running it means. It is assumed in
`Compiler`, `Lexer`, `Parser` and, for the loop of `arenaDestroy` alone, in `GrowableArrays`: whether
a client goes on allocating is up to the client.

### Where code and statement differ

* `repository_tests`: `test.cpp` expects exit status 0 of all programs under `tests/`.
  `binary.wr` and `mixed.wr` use `*` and unary operators and `fibonacci.wr` calls, which the
  generator does not support; `compile()` returns 1.
* `lexer_sentinel`: `main.zig` terminates the source with a NUL; a comment whose slashes are
  the last characters of the file makes the lexer step over it.
  `OverrunOnlyAfterSlashes` shows it is the only case.
* `error_sentinel`: the same NUL does not stop `printError`, which looks for a newline only.
  Any error about the end of the file reads behind the source, also when the file ends in a
  newline.

Two more things look wrong, but no document, comment, assertion or test of the repository says
otherwise, so they are stated as what the code does and there is no run to refute:

* A function that falls off its end underflows the stack (`codegen.c:85`, `vm.c:83`): `CodeVerifies`
  and `RunsAsWritten` say so.
* A number with a fraction is two tokens (`lexer.zig:169`): `LexemesRight` says so. The parser
  has no use for `TOK_FLOAT` either.

## 4. The proofs

All proofs hold for every value of the constants that satisfies the named assumptions: every set
of well-formed trees, sources and programs of every length, every capacity, every width of a byte
from 16 values on.

### The compiler

Assumptions: `ProgramsAssumption` (a tree is `WellFormed`, which `AcceptedIsWellFormed` proves of
the parser), `NamesAssumption` (the empty name and the two the checker knows are names),
`ByteSizeAssumption` (the opcodes fit into a byte), `MaxErrorsAssumption` and `ParserAssumption`
(what a parse leaves fits into the buffers, and its one warning is a string literal).

**`CompilerProofs`**, first part: `NoDanglingMessage` is not inductive: that the final print is safe depends
on where the messages came from. `MessageInv` adds that the buffers are within bounds
(`BuffersBounded`), that warnings are always literals, that errors are literals from the analysis
on (a program with errors of the parser does not get there), and that the arena is alive until
the generator has finished. One lemma per pass (`AnalysisStepClean`, `CodegenStepClean`) shows
that its steps report literals only and stay in their phase or crash. The same invariant gives
`BuffersBounded`.

Second part: `TypeOK` says of the pending calls only that they are tasks. That a
step keeps it needs what the C code takes for granted: a call for a node gets a node of the kind
its `switch` expects, in a scope that exists. `StateInv` states it: `StackOK` (each pending call
is for a node of the tree, and `argument`, `ifTrue` and the other remainders for a node with that
child), `ScopesOK` (the chain of a scope leads to older scopes, every type of a symbol that is a
function's belongs to a declaration, and names of functions are resolved in the outermost), `NotesOK`, `CodeOK`, and `PhaseOK` (a pass begins with an
empty stack). There is one lemma per function of the passes. The next two modules rest on it.

**`ScopeProofs`**, first part: `SlotsDense` speaks of the scope that is being checked. After the
end of a block the checker is back in an outer one, so `SlotInv` says the same of the scope of
every pending call, and that the calls are nested: each call's scope encloses those of the calls
above it. A declaration adds its symbol in the scope of the top call, and the slot it takes is
the next one of that scope; no other pending call has a scope that is changed, except those in
the same scope, for which it is right too.

Second part: `CrashOnlyWhereUnchecked` relates two passes that share no call. The argument is a
set `V` of *visits*, a node and the scope it was checked in. While the checker runs, a visited
node's children are visited too, in the scope the generator will use for them, or a pending call
will do it (`Covered`); a visited name can be found from its scope (`Known`), and a visited block
or function has a scope that is not NULL. The checker visits different children in different
functions (`resolveNode` the initial of a global, `ifTrue` and `ifFalse` the branches), which
`Pending` keeps account of; a `const` in a block is where it does not hold, and `UnsafeNode`
excludes that and the unit value. When no call is pending any more, `V` is closed under the
children (`Led`), and each pending call of the generator stays in it (`Ready`), so it finds every
name and every scope. Scopes only grow (`Later`), so what could be found once is found later. The
invariant `CrashInv` has an unbounded quantifier over `V`, which TLC cannot evaluate; TLC has
checked the property.

**`GeneratedCodeProofs`.** `CodeInv` describes the chunk at every moment of the generation: the
instructions in the log lie end to end from the first byte to the last (`LayoutOK`); each open
operand has exactly one pending call that will patch it, no two the same one, and each jump is
open in this way or leads where its `if` says (`PatchesOK`, `JumpsOK`); each literal's byte
numbers a constant with its value (`ConstantsOK`). From it follow `PatchOnlyOperands` (the offset
a pending `patchJump` carries is that of an open operand, whatever has been generated since),
`DisassemblyAligned` (the widths the disassembler knows are the generator's), and
`ConstantsFaithful`. `FalseConditionsSkipTheBranch` and `JumpsLeadToInstructions` are the parts
of `JumpsLand` that hold of each instruction for itself; they hold while the code is not longer
than two bytes can tell (`ShortEnough`), and the run `limits` has programs beyond.

**`CompletenessProofs`.** That an accepted program was compiled *completely, and nothing twice* is
about the whole walk. `WalkInv` says, while the generator runs: the nodes nobody has begun yet, the
*frontier*, are the ones that pending calls have ahead of them and all below these, no two calls have
one in common, and a function is in it only while a call waits for it (`Frontier`); a node outside
it is logged with the instruction `AcceptedIsComplete` asks for once and no call will log it again,
or not yet and exactly one pending call will (`Accounted`; below a `break`, which the generator
refuses, nothing is). It also has the order of the calls in the tree (`Stands`), which makes
everything logged since a jump was opened part of its `if` (`JumpOuts`), and the entry's call of main
(`MainEntered`, `EntryWaits`). A step takes the call on top, puts calls for that node's children in
its place and logs at most one instruction of it (`Advances`); there is one lemma for each
function of the generator. This is where `SingleParents` is needed: two calls for different children
share no node (`KidsApart`). Inductions over the tree take the largest node, or the least, that is an
exception (`UpTheTree`, `DownTheTree`). When no call is left the frontier is empty, which is
`AcceptedIsComplete`, `NothingLeftOut`.

The rest of `JumpsLand` follows from the same invariant while the program is `ShortEnough`: a jump
over the else branch lands behind the last instruction of that branch, and the entry calls main.
For the second `main` must be the name of one function. That is the checker's doing, in a different
pass: `NamesInv` says that a function is either still awaited by a pending `resolveNode` or entered in
the outermost scope, and that of two functions of one name one is still awaited unless an error was
reported; the checker reports the redefinition, and a program with an error is not generated.

The second half proves `BindingsAgree`, `NamesMeanTheSame`, which relates two walks at different times.
`BindInv` says:

* While the checker runs (`Checking`), each pending call is in the scope of its node (`Placed`): the
  one of the innermost function or block around it (`Home`), from which only scopes of functions and
  blocks around the node can be seen (`Around`). A call lays claim to the subtrees it will look into,
  and a statement's call comes before the statements that follow it (`Claim`, `Follows`, `Claims`); no
  two calls claim the same node, no function or block in a claim has a scope, and no name in a claim or
  in a statement that follows is bound (`Fresh`). This is why no function or block gets a second scope
  (`OwnScopes`), and why a declaration that is entered can only meet names in front of it or in its
  own initial.
* A bound name's symbol is the first of its name in its scope and in the chain of its `Home`, and
  a scope further in has the name only where a later declaration put it there (`AllBound`). Scopes
  only grow at the end, so the symbol stays the first one (`FirstStays`); that the new symbol is a later
  declaration is where the claims are needed.
* While the generator runs, each of its pending calls is in the `Home` of its node too (`AllSited`).
  The scope it looks a name up from is therefore the one the checker bound it from (`HomeUnique`),
  and what it finds is that symbol or the later declaration's (`FoundAgain`). The byte it writes stays as it
  is, since only operands of jumps are patched (`NamesStay`).

Which declarations count as later is said by `DeclaredLater`: a `let` that is a statement of a
function or block around the use, in the statement that contains the use or in one behind it.

### The parser

**`ParserProofs`**, from `SourcesAssumption` (names, integer literals and reserved lexemes are
different from one another). First part: `TypeCorrect` and `AcceptedIsWellFormed`, which is
`ReportedOrWellFormed` for sources of every length. The invariant `IInv` adds two things to `TypeOK`.

* `StackRight`, about every state: a pending call has a node of the kind its place in the code
  builds and as many children as it can have there (`HeadFits`), it waits below a call that will
  give it a term (`Fed`), and it is above one that can take what it returns (`Sits`, `Waits`). So a
  return never finds an empty stack, and the child at an index the code reads is there.
* `ContentRight`, about the states in which nothing has been reported: every term a pending call
  holds is `Sound` (the children it must have, of kinds it may have, below one another without
  overlap), is of a kind that the place it is kept in admits (`Room`), and the operator `[`
  is in one of the terms if and only if one has been read (`Passed`, `Marked`). Garbage and NULL are
  in no `Room`; the one state in which NULL is pushed without a message is `Stuck`, from which
  `p_parse` can do nothing but allocate.

`Sound` speaks of a term, whose children are distances; `SoundIsWellFormed` turns it into
`WellFormed` of the table the later passes get. There is one lemma for each function of the parser and one for
each shape a step gives the stack (`Replaced`, `Called`, `GivenBack` and others): a call is replaced, calls
others, or returns to its caller.

Second part: `SpinsOnlyWhenStuck` is false of a memory that is too small for the source, and
`MemorySuffices` says how much is enough: two items for each token, and one (`EnoughMemory`, which
is a premise on the source and not on the constants). The invariant `Spent` keeps account of it: a
parser that goes on is `Stuck`, or behind the last token inside a list (`AtEnd`), or has
allocated two items at most for each token it has read (`Paid`), or one more, for an item of a list whose
first token `parseExprBP` is about to read (`Owing`). Both blind alleys are shown to be without a way out,
and from everywhere else a step leads into one of them or reads a token for what it allocates.

### The lexer

**`LexerProofs`**, from `SourcesAssumption` (sources and keywords are spelled in the alphabet).
`ScanInv` is the type invariant and, for each state of the machine, what it knows of the text
between the start of the token and the index (`Scanning`): in `identifier` a letter and then only
letters, digits and `_`, in `comment` two slashes and no newline behind. It gives `LexemesRight`
(for floats only that the text is one, as they are not the longest) and `OverrunOnlyAfterSlashes`; the latter is also needed in the invariant, since outside comments
the index stays within the source. `FrontierInv` adds that everything before the frontier (the
index between tokens, the start of the pending one within) is a token's, blank or comment, which
gives `NothingLost`. `PositionInv` relates the counters to the newlines before an index and gives
`PositionsRight`.

The three together are needed for `ShowsTheCitedLine`, a property of `DisplaySpec`, whose steps are
steps of the lexer or leave it alone. `DisplayInv` adds that no token has a newline in it, that the
lexer stands still once it has returned `TOK_EOF`, and that what `printError` has printed is the source
from the start of the token's line up to its index, without a newline. The line that `getLineStart`
finds is then the one with the token's number, since `PositionInv` says that the number counts the
newlines in front of it and the column the characters behind the last of them.

### Memory

**`GrowableArraysProofs`**, first part, the arena, from `ArenaAssumption`. `ArenaInv` conjoins the type invariant with `Behind`
(blocks of the current buffer end before the offset), `Chained` (the links lead from each buffer
to the next one created), `FrontFreed` (what `arenaDestroy` has freed is the front of the chain)
and the properties. `Behind` is what makes `Disjoint` inductive; `Chained` and `FrontFreed` are
what makes `DestroyFreesAll` follow. The size of requests is not assumed of the state but of each
step (`Fitting`), as in the specification.

Second part, the arrays, from `RequestsFit` in addition (`Fitting` holds for the requests of
the arrays as long as they have at most `MaxLength` items). `ArraysInv` adds to `ArenaInv` that
each array's data is a block of the arena (`Held`) and that no two arrays overlap (`Apart`), so
that a write to an item changes no item of another array and the copy into a new block reads what
was written. `ArraysImplementLists` is the refinement of `Lists`: every step, also one that moves
an array, is a step of the lists or none.

**`ChunkProofs`**, from `ChunkAssumption`. `ContentsKept` speaks of what is in the blocks only;
`ChunkInv` adds what makes it inductive: a block has as many cells as the capacity says, the
length is that of what was written and at most the capacity, a buffer without a block has none of
either (`Stores`), and the two buffers have different blocks (`Apart`), so that moving or
patching one leaves the other as it is. One lemma for each step that touches the heap.

### Only model-checked

* Liveness (`Terminates`, `DestroyEnds`): beyond the prover, as is `ENABLED`.
* `CodeVerifies` and `RunsAsWritten`: the depth computation is a fold over the instructions and
  the meaning of an expression is recursive; the induction theorems of the library take an
  operator as a parameter, which no prover here can instantiate. Where numbers are bounded, the
  proofs use the least counterexample instead (`LeastNatural`).
* `NothingDropped`, `PrecedenceRight` and `TreeDrawnRight`: the text of a tree, the reference tree and
  the picture are recursive, and equal to what the code does by induction over the tree.

## 5. Not modelled, and why

* The CST parser (`compiler/cst_parser`): it is commented out in `build.zig` and does not compile
  (it calls `nextToken`, which does not exist, and `lx_nextTok` without its argument), so it
  has no behaviour to translate. `compileCst` prints that it is deprecated.
* The wording of what is printed: `describeTokenType`, the text of a line of `printAST`,
  colours, the listing of the disassembler.
* Parser productions behind tokens the lexer does not have: lambdas, builtins, strings,
  tuples with a comma. `consumeUntil` is not called.
* `Parser` takes tokens and not the state of `Lexer`, and `Compiler` takes trees and not the
  state of `Parser`: composing the machines would multiply their states without a step of one
  meeting a step of another, as the lexer has no state the parser changes between calls and
  `compile()` runs the passes one after the other. What each assumes of the one before it is
  stated (`LexemesRight`, `ReportedOrWellFormed`, `RepositoryProgramsParsed`), and of the first two proved.
* The command line: argument parsing, help and the reading of the file.
* The depth of the C stack and the digits of a literal (`atoi`).
* Requests that do not fit into a buffer: `Fitting` excludes them, and the hazards say where
  the code could meet one.
* Type arguments and tuples, arrays and builtins: nothing creates them.

## 6. Plan

1. Done: `Ast`, `Diagnostics`, `SymbolTable`, `SemanticAnalysis`, `Codegen`, `Compiler`;
   `Arena`, `GrowableArrays` implementing `Lists`; `Lexer`; the first theorems.
2. Done: `Parser` over tokens; `Vm` and `Execution`; `Chunk`; `ErrorDisplay`; `TreePrinter`.
3. Done: proofs about `Chunk`, the arena and the growable arrays with their refinement, the lexer,
   the types and the messages of the compiler, slots, NULL, and the layout of the code.
4. Done: single parents in `WellFormed`, and with them proofs of `AcceptedIsComplete` and of the whole
   of `JumpsLand`.
5. Done: a proof of `ShowsTheCitedLine`.
6. Done: proofs of `TypeOK`, `ReportedOrWellFormed` and `SpinsOnlyWhenStuck` of the parser.
7. Done: a proof of `BindingsAgree`.
