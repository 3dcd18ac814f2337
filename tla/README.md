# Verification of the Toy compiler

TLA+ models of the Toy compiler of this repository: a recursive descent parser, a
generator of MLIR in a Toy dialect, shape inference, and two lowerings that end in
LLVM dialect code calling `printf`, from the characters of the source to the
output of the compiled main. The compiler is sequential; what makes it hard
is the order in which its parts meet each other's work. A worklist is visited in
the order of pointers, patterns rewrite a block that others have rewritten,
folds and inlining take turns on the same functions, operations are moved to the
ends of a block by hand, a parser keeps going after an error, and failures stop a pipeline half way. The models keep all of that control
and abstract the data: a token, a name, a tensor element is a symbol.

## The system

```
 text --Lexer--> tokens --Parser--> AST --MLIRGen--> Toy dialect
   --Inliner--> --ShapeInference--> --Canonicalizer, CSE-->
   --ToyToAffine--> affine/memref + toy.print --ToyToLLVM--> LLVM dialect
```

The driver (`src/src/main.cpp`) calls the parser and MLIRGen, builds one pass
pipeline according to `-emit`, runs it and dumps the module. Components interact
by calls; the parser pulls tokens from the lexer, the passes share the module they
rewrite, the pass manager runs the verifiers between passes, and the library calls
back the interfaces (shape inference, inlining, folding) the dialect implements.

| Component | State | Operations | What makes it correct | Hard behaviour |
|---|---|---|---|---|
| Lexer (`inc/Lexer.h`) | current token, one character of lookahead, rest of the line | getNextToken, consume, getId, getValue | every character in exactly one token; the end is reached and stays | assertions as preconditions, bytes above 127, a file without a last newline |
| AST dumper (`src/AST.cpp`) | indentation | dump of each node | the tree can be read off its dump | null pointers, the life of the indentation |
| Parser (`inc/Parser.h`) | call stack, structList | one function per construct | the tree follows the precedences and holds every token; a rejected or incomplete input comes with a message; it ends | errors in the middle, null results that callers keep, loops that take no token |
| MLIRGen (`src/MLIRGen.cpp`) | scoped symbol table, struct table, insertion point | one function per AST node | a value is used in its scope; failures propagate; the module verifies | failures that are dropped, lookups that fail |
| Toy dialect (`inc/toy/Ops.td`, `src/toy/Dialect.cpp`) | types of values | verifiers, inferShapes, builders, inliner hooks, folds | a verifier accepts what inference computes | one operand looked at, three-iterator `std::equal` |
| Shape inference (`src/toy/ShapeInferencePasser.cpp`) | worklist, types | walk, one inference per round, failure | result independent of the order; fails only if it must | pointer order, failure in the middle |
| Canonicalizer (`src/toy/ToyCombine.cpp`, `.td`) | the function body | three reshape patterns, transpose of transpose, folds | rewrites keep the meaning and end | any order of patterns, before and after types are inferred |
| Inliner interface (`src/toy/Dialect.cpp`) | caller and callee | handleTerminator, casts at the call, legality | values of the callee become those of the caller | calls in calls, arguments returned, callees without a result |
| Affine lowering (`src/toy/LowerToAffineLoops.cpp`) | block, replaced values | seven patterns, roll-back | buffers live around their uses; loops compute the tensor | insertion points, moves past other patterns' operations, failure in the middle |
| LLVM lowering (`src/toy/LowerToLLVM.cpp`) | block, module symbols | print pattern | output is the tensor; each symbol once | moving insertion point, second run of the pattern |
| Driver (`src/main.cpp`) | action, module, pipeline | dumpAST, dumpMLIR, main | the dump is of the level asked for; failures show | null modules, dropped results |

## The modules

| Module | Models | State and actions |
|---|---|---|
| `Lexer` | `Lexer.h` character by character | `text` and `current` are the buffer, `curLineBuffer` and `lastChar` what has been read ahead, `in` the loop of `getTok` that is running, `out` the tokens returned. A step is one iteration of a loop. |
| `ToyIR` | types, operations, their verifiers and `inferShapes()` | no state. A function body is a sequence of operations; a value is named by the position of its operation. |
| `ShapeFixpoint` | what shape inference promises | a dependency graph, the nodes known, a verdict. `Learn`, `Accept` (all results known), `Reject` (some result lies outside the least closed set). |
| `ShapeInference` | `runOnOperation` and the verifier after it | `ty` are the types in the IR, `opWorklist` the SmallPtrSet. `Walk`, `InferShapes`, `NoInterface`, `FixPoint`, `Verify` are the walk, the two branches of a round, the end of the loop and the pass manager's verifier. |
| `ShapeInferenceProofs` | theorems about `ShapeInference` | |
| `Tensors` | index arithmetic on static shapes | |
| `AffineLowering` | `ToyToAffineLoweringPass` | `block` is the body of main while it is rewritten, `remap` the values that have a memref, `cur` where the conversion driver stands. One action for each pattern, `RollBack` and `Commit` for the end of `applyPartialConversion`. |
| `LLVMLowering` | `PrintOpLowering` and its symbols | `symbols` are the symbols inserted in the module. `LowerPrintLoops` rewrites the next print; `NestBodies` is what the moving insertion point builds. |
| `CompiledMain` | both lowerings, then main executed | a machine with `memory`, the `frame`, the blocks `freed` and the output. `Exec*` give each lowered operation its meaning. A cell holds the term that computes it, so a wrong element or operand order is a different term. |
| `AST` | the nodes of `AST.h` | no state. A node has its class, a name, dimensions and its children; a null pointer is a node of its own. Shared by `Parser`, which builds trees, and `MLIRGen`, which walks them. |
| `Parser` | `Parser.h` over the lexer's interface | `stack` holds one frame for each active parse function, `ret` the value just returned, `structs` the names in structList, `tok` and `text` the token stream. An action is a parse function; a step runs it to its next token, call or return. |
| `MLIRGen` | `MLIRGenImpl` and the verification of the module | the recursion over the tree unfolded: `todo` is what the active functions still have to do, `vals` the values returned to them, `symbolTable` the open scopes, `structMap` and `funcs` what the class keeps. `Visit*` enter a node, `Build*` emit its operation, `Gen*` and the others are the statements, the records and the end. |
| `SourceText` | the source as the tree tells it | no state. The tokens of a tree in order, for `SourcePreserved`. |
| `ASTDump` | `AST.cpp`, and a reader of its output | no state. The dump is a sequence of lines with their indentation. |
| `Canonicalizer` | `ToyCombine.cpp`, `ToyCombine.td` and the hooks of `Dialect.cpp` for folding and inlining, with what the library adds to them | no state. A pattern is the set of functions that one application leads to; `Inlined` is a function with a call replaced by the body of its callee. |
| `Driver` | `main`, `dumpAST`, `dumpMLIR` | `phase` is where main stands, `passes` the rest of the pipeline, `at` and `done` the function the pass is at and those it has done. `Generate` is a step of `MLIRGen`; `Rewrite`, `InlineCall`, `InferShapesOf`, `LowerToAffine` are the passes on `funcs`; `dump` and `code` are what main leaves behind. |
| `EndToEnd` | what a program prints | no state. An evaluator for the source and for the functions, on tensors whose elements are symbols. |
| `SourceMeaning` | which Toy programs are legal and what they do | no state. Read off the AST alone: a type system, and the calls, prints and returns of a function with the terms of their operands. |
| `SequenceLemmas` | facts about sequences, folds and positions that the proofs share | |
| `LoweringProofs` | lemmas about the block of `AffineLowering` and `LLVMLowering` | |
| `CompiledMainProofs` | theorems about `CompiledMain` | |
| `ParserProofs` | theorems about `Parser` | |
| `MLIRGenProofs` | theorems about `MLIRGen` | |
| `DriverProofs` | theorems about `Driver` and the rewrites of `Canonicalizer` | |
| `LexerProofs` | theorems about `Lexer` | |
| `MCLexer`, `MCParser`, `MCMLIRGen`, `MCCompiler`, `MCShapeInference`, `MCCompiledMain` | the instances TLC checks | |

`MLIRGen`, `ShapeInference` and `AffineLowering` share `ToyIR`: what `MLIRGen` returns
is `WellFormed`, which is the assumption of `ShapeInference` on its functions, and
`AffineLowering` starts from functions in the state inference leaves (every value
ranked). `LLVMLowering` extends `AffineLowering`, and `CompiledMain` composes the
two passes with the machine, so that its properties are about the code the compiler
emits and not about one pattern. `Driver` composes `MLIRGen` with the passes up to the
affine lowering: it runs the steps of `MLIRGen` on the AST and then the pipeline on
the functions `MLIRGen` built. There shape inference of a function is one step,
since the run shape and the proofs show that its order does not matter, and the two
lowerings are represented by their verdict: `ReadyForAffine` shows that a module
reaches them in the form in which `CompiledMain` takes it up.

A definition whose comment says "faulty variant" or "mutant" is a plausible bug.
It is not used by the specification; put in the place of the definition after it,
it makes a property of a run fail, which shows that the property depends on that
code.

## What the runs check

**shape** (`ShapeInference.cfg`). All bodies of up to two operations of every kind
with every type their verifiers allow in a parsed file, of two operations without
operands followed by one of any kind, of four operations whose shapes are all
to be inferred, and of three constants, transposes and casts over tensors of rank 0, 1
and 3 with results of any rank (`MaxRanks`), with every order of visiting the worklist.
Two operations make an operation wait for another; four give chains, diamonds and
operations that wait for something that never comes.
`WorklistExact`: between rounds the worklist is the set of dynamic results.
`Confluence`: every inferred shape is that of the typing rules' solution, whatever
the order. `VerifierAccepts`: no operation the compiler built fails its verifier
after inference, and `TransposeOp::verify`, which compares with an unchecked iterator,
stays inside the inferred shape. A parsed file that gives the result of a transpose a
type of its own may make it run past the end; the property is about what is left to
inference.
`ImplementsFixpoint`: refinement of `ShapeFixpoint`. `Termination`.

**compiled** (`CompiledMain.cfg`). All bodies of up to three operations, and those
that compute a value and print it, over shapes of rank 0, 2 and 3, with operands of
unequal shapes, operations without a pattern, functions left beside main and a main
with a result. Three operations put an operation between the buffers of two others;
rank 3 is the first rank with a loop that is neither outermost nor innermost, and
rank 0 is the case without a loop.
`BuffersEncloseUses`: during the rewriting, each buffer is allocated before and
deallocated after everything that touches it. `MemorySafe`: on the machine, nothing
touches a buffer outside its life, reads out of bounds, reads a cell nobody wrote
or frees twice. `OutputCorrect`: the output is the tensors' elements in row-major
order with a newline for each run of a dimension but the last.
`NothingLeaks`: every buffer has been freed when main returns. `SymbolsOnce`.
`FailsOnlyIfIllegal`: the pass fails exactly on what has no pattern, and its result is
rejected exactly when an operation reads a tensor of another rank. `Termination`.
`MemorySafe` and `OutputCorrect` assume elementwise operands of equal shape
(`Matched`): that inference does not enforce it is the subject of the run
mismatch.

**parser** (`Parser.cfg`). Twelve inputs that start in front of a construct and go on
with up to twelve tokens of a small lexicon, in any order, or end early. Each lexicon
has the tokens the construct's functions test for and at least one they do not
expect. `PrecedenceRespected`: no operator takes an operand that binds less
tightly, and equal ones group to the left. `SourcePreserved`: the tokens of a
complete tree, read in order, are the source. `DeclaresKnownStructs`: a statement that
begins with a name is a declaration exactly when a struct of that name was defined in
front of the function; two inputs have a struct that fails half way and one that comes
too late. `HolesReported`: a rejected module, or
a null record in a returned one, is preceded by a message; within a record only a
declaration, a struct literal and a return keep a null, where a semicolon or a brace
stood for the expression. `ModulesGrammatical`: a returned module has the shape
`MLIRGen` relies on (how many children a node of each class has and of which class
they are). `TensorsUniform`: a tensor literal announces the shape of its elements. `TerminatesElsewhere`: the parser ends or is in the
loop of a struct literal, which may go round without end. A statement that begins
with a token that is neither an identifier nor a keyword aborts the compiler
(`Parser.h:449`), as a misplaced parameter or declaration does: the lexer asserts the
identifier it is asked for. The abort is a state of the model and the properties hold up
to it; that it cannot be reached (`PrerequisitesHold`) is false and no run checks it.

`DumpFaithful`: the lines of `-emit=ast` for a returned module, read back by their
indentation, are the module again, but for what the dump leaves out (the types of
parameters and the shape of a struct type).

**lexer** (`Lexer.cfg`). Texts of up to three pieces out of words, keywords, digits,
points, comments, blanks, both line ends, NUL and bytes above 127, in every order,
and of five characters in which a comment, a number or a line has begun. Three
pieces put every piece between two that touch it, and in front of the end; what the
lexer keeps from one token to the next is one character, one line and the place.
`TokensExact`: the tokens are those of the longest match, each at the line and
column of its first character, up to the first byte that is or looks like the end
of the file. `ValuesFresh`: an identifier or a number comes with its own text.
`EndReached`: every text ends, and stays at its end.

**compiler** (`Compiler.cfg`). ASTs under the driver. For `MLIRGen` three families. A
function that uses one expression as a statement, an initializer (with and without
a shape), an argument of a print and of a return: every operator over leaves and
over expressions of depth two, so that an operation has operands on both sides that
need others. Two functions of up to one and two statements, or one of up to three,
which share names: redeclarations, uses before a declaration and of another
function's names, parameters declared twice, failures in the middle. Structs:
declarations (none, recursive, twice, nested) with literals and accesses that fit
and do not fit them. For the passes four more (`Flows`): a function called from main
in every place of an expression, with bodies that return, transpose, reshape, print
or call themselves; a function between two others, defined before or after its
callee, with its parameters in another order, or calling in a circle; declarations
with a shape on top of each other around transposes, with sizes that agree or not;
structs that are passed, nested, accessed in a callee and folded. A few programs
are compiled with each value of `-emit`.
Those are the bounds at which scopes of two functions, two siblings of one operand
stack, an access to an access, a call inlined into a function that is inlined, and
each pair of patterns that overlap exist.
`OperandsDefined`: an operand is a value of the same function built before its user.
`NullReported`: a null result comes with a message, except for names declared twice,
which the code drops without one. `AcceptsLegal`: a program that `SourceMeaning` calls
legal is neither rejected by `mlirGen` nor stops it, and one with an unknown type never
becomes a module. `GeneratedMeaning`: the generated
functions call, print and return the terms the source does, in the source's order.
`FunctionsComplete`: the module `mlirGen` hands over satisfies the verifiers and has
one return at the end of each function, and through all passes, for legal programs or not,
the return stays the only one and last and each operation has the operands its class has.
`WellFormedThroughout`: for programs with an output every module between two rewrites
satisfies the verifiers as well; a pattern relies on it and nothing in the code looks
between two patterns. `RewritesShrink`: what a pattern, fold, erasure or merge leads
to has an operation less, or a constant more, or a reshape of a value further up; no
two of them undo each other. `AccessesInRange`: no order of
inlining and folding leads to an access of a struct constant that the fold of
`ToyCombine.cpp:41`, which does not look, would read past the end. `OutputPreserved`: at
every step of the passes main prints the same tensors, element by element, as the
source. `LegalCompiles`: a program with an output is never rejected before the affine
lowering and never stops the compiler; the lowering refuses it only for a main that
returns a value or a reshape that is left, for which it has no pattern.
`ReadyForAffine`. `Termination`: every compilation ends, whatever the order of rewrites.
Legality is about the statements up to the first return; struct literals whose
elements are not constants, and names of structs defined twice, are not legal, and
what the compiler makes of them is left to the other properties. A program has an
output (`HasOutput`) when it is legal, every function is reached from a main without
parameters, no parameter or member is declared with a shape, and nothing it
computes is undefined (mismatched shapes, a wrong number of elements or arguments,
a recursion). 290 programs with an output get to the affine lowering, 90 of
which it refuses; the other programs of `Flows` fail in each way the code has.

Seven runs refute what a comment, an assertion or a test says of the program:

| Run | Claim | What the code does |
|---|---|---|
| mismatch | `test/test.toy:23`: incompatible shapes trigger a shape inference error | `inferShapes` of the elementwise operations looks at the left operand only |
| heap_free | `LowerToAffineLoops.cpp:40`: alloc and dealloc | a `memref.alloca`, in the frame of main, is passed to `free()` |
| strings | `LowerToLLVM.cpp:55`: strings that end with `\0` | `StringRef` drops the NUL; `printf` reads past the global |
| block_fails | `MLIRGen.cpp:591`: failure if one of the expressions hit an error | a print that fails ends its block with success, and the module is compiled without the rest of the function |
| index_in_range | `Dialect.cpp:591`: the index of an access is that of an element | a member that does not exist has the index after the last one, and the assertion stops the compiler |
| dump_level | `main.cpp:74`: `mlir-llvm` dumps after the LLVM lowering | the bound of the LLVM lowering is `DumpLLVMIR`, which the enumeration has after `DumpMLIRLLVM`: the module dumped is that of the affine lowering |
| null_record | `Parser.h:34`: a well-formed AST | a definition that fails at the end of the input gives a null record |

**Bounds.** `Modules` and `Texts` are the finite sets above. `MaxWide`, `MaxDeep`, `MaxRanks` and `MaxOps` bound the bodies, `max` of a scenario
the tokens. The struct literal's endless list of nulls is cut to one (`Collected`).
The lexer records no token after the first end. No other counter grows.
`CHECK_DEADLOCK` is off, but for the lexer, because each machine stops when its
component returns.

**Fairness.** Weak fairness of `Next`: each component runs on one thread to its
end, and nothing outside it can stop it between two steps. The only choices are the
order of the worklist and of the rewrites and the input (texts, tokens or trees), and
no property needs any of them to be fair: `Termination` of the driver holds for every
order in which patterns are applied.

## What is proved

`ShapeInferenceProofs` proves, for every set of functions that satisfy the
verifiers and every solution of the typing rules (`ProgramsWellFormed`,
`SolIsSolution`), the type invariant, `WorklistExact`, `Confluence`,
`VerifierAccepts` and the refinement of `ShapeFixpoint`.

`Confluence` is not inductive: that a new type is the solution's needs to know that
the operands' types are, and the refinement needs more than either. The
inductive invariant `IInv` adds two conjuncts. `Justified`: a type that changed is
the one its rule gives from operands that have a shape, so that nothing an
operation was inferred from can change later. `InLeast`: each value with a shape
lies in every set closed under inference. `InferStep` says what one round changes;
`InferKeepsInvariant` takes the conjuncts one by one; the other actions leave the
types alone. For rejection, a set closed under inference that lacks a result is
exhibited: everything but the operation without the interface
(`NoInterfaceRefines`), or what is known when no operation is ready
(`FixPointRefines`).

`CompiledMainProofs` proves, for all programs as inference leaves them
(`ProgramsAreInferred`: they satisfy the verifiers, every result has a shape, and that
of an elementwise operation is its left operand's) whose constants have elements
(`LiteralsAreNotEmpty`: `parseTensorLiteralExpr` reads one before it looks for the
bracket) and for blocks of every length and shapes of
every rank, `TypeCorrect`, `BuffersEnclosed` (`BuffersEncloseUses`), `FailureExact`
(`FailsOnlyIfIllegal`), `MemorySafety` (`MemorySafe`), `EverythingFreed` (`NothingLeaks`),
`SymbolsExact` (`SymbolsOnce`) and `PrintsWhatItMeans` (`OutputCorrect`). None of them is inductive: a pattern inserts in front of
its operation and moves an alloca to the front and a dealloc to the back of a block
other patterns have changed. `LoweringInv` therefore says what the block is at
every point of the conversion: `remap` is the set of values that have a buffer
(`RemapInv`); each of these has one alloca and one dealloc, allocas are in front of
everything that is lowered and deallocs behind it, a cell is stored before any
nest reads it, and all stores or the nest of a buffer are there (`BlockInv`:
`Sorted`, `WritesFirst`, `Complete`); what is still to be converted stands in the order
of the source (`TodoInv`). `MachineInv` relates the machine to that block: the
allocated, freed and written cells are those the operations in front of the
program counter make so. From both, an access finds its buffer alive and its
cell written. `SymbolsInv` is the same for the module's symbols. `FailureExact` also
needs to know why a block was rejected (`InvalidInv`), and that each nest that is left
is the one of an operation of the source and none is missing (`VerifiedRanks`).

`PrintsWhatItMeans` says that compiled main prints what the source prints, for tensors of
every rank and size. It has three parts. What is in memory: `ValueInv`, a cell that was
written holds the element of its definition, since each nest stores what the
operation means from cells that already hold what their operands mean. What is
printed when: `OrderInv` follows each print from the source to its nest and shows that
the patterns keep their order and that nothing else prints, and `OutInv` that the
output is that of the prints in front of the program counter. What one print writes: `Rows`
counts elements and ends a line where a stride divides the count, the nest is loops
in loops with a line end behind some of them. `Seg` is the part of the text that
the loop at one depth writes in one iteration of the loops around it; `SegStep` goes from
one depth to the next, on the arithmetic of strides, and `HornerNext` finds the
position that the induction variables stand for.

`ParserProofs` proves for every sequence of tokens, over any identifiers that are not
keywords or punctuation (`IdentifiersAreNames`), `ParserTypes` (`TypeOK`),
`GroupsByPrecedence` (`PrecedenceRespected`), `ParsesTheGrammar` (`ModulesGrammatical`),
`ReportsHoles` (`HolesReported`) and `LiteralsAreUniform` (`TensorsUniform`). What a function builds
depends on what the functions it called gave back, often in view of the
token that follows, so the inductive invariant `ParserInv` is about the whole stack: which
function may be waiting for which (`Calls`), what a function may return in front
of a token (`Gives`) and what its caller needs (`Gets`), and what a function holds where
it stands (`Stage`, `Facing`). That an operator never gets an operand that binds less
tightly needs the minimal precedence of every active `parseBinOpRHS`, and that the
function that returned stopped because the token behind it binds no tighter. The
trees are the members of a set that grows with each node built (`Tree`), so that the
proof needs no recursion over them; `NodesAreTrees` leads from it to the nodes the
properties are about, which `NodesOf` finds level by level.

`MLIRGenProofs` proves, for every module whose trees are
`Grammatical`, `OperandsAlwaysDefined` (`OperandsDefined`), `TypeCorrect` (`TypeOK`) and
`RejectionsReported` (`NullReported`). The hypothesis is what `ParsesTheGrammar` proves of every
module the parser returns (`ModuleInGrammar`), and the run compiler checks it of its
inputs (`ProgramsAreGrammatical`). The recursion of the source is a stack of work here, and what
the C++ call stack guarantees by itself has to be said: `Heights` computes from
`todo` that each operation finds on `vals` as many values as it takes, and
`Working` that they, and those of every open scope, are values of the function under
construction that have a type. A message for each rejection needs more than the
flag: `declare` fails silently, so `NamesOK` says that a name in scope is one that a
parameter or an earlier statement of the same function declares, and that the
statements left in `todo` come after it in the record.

`DriverProofs` proves for the same modules and every `-emit` `OperandsStayDefined`
(`OperandsDefined`), `DriverTypeCorrect` (`DriverTypeOK`), `RejectionsStayReported` (`NullReported`)
and `RewritesAlwaysShrink` (`RewritesShrink`) of
the whole compiler up to the affine lowering: through all patterns, folds, CSE, inlining and
shape inference, in any order. A value is a position, so every rewrite renames
operands, and to show that it does so rightly one has to know of a function
that its parameters come first, that its operands have results and that a function
with a result ends in the return of it (`FunctionOK`), and, for a call replaced by a body, where each
operation of the three parts ends up (`Layout`). Names of functions are unique
(`NamesUnique`), so that the callee is the function the call names. That every rewrite
shrinks the function needs only that operands are defined before their users.

`AccessesAlwaysInRange` (`AccessesInRange`) and `FunctionsAlwaysComplete`
(`FunctionsComplete`) need types. Nothing verifies a function between two rewrites, so
that the verifiers accept it cannot be the invariant (`WellFormedThroughout` is claimed
for programs with an output only). What survives every rewrite is `FunctionSound`: an
operation has the operands of its class, a struct constant an attribute of its type, and
the value a struct access reads is of a struct type that has the member. `SoundInv` adds
to it what holds at the stages. While `mlirGen` runs, the attributes of the literal
under construction are those of its type (`LiteralInv`) and each function that is begun
ends in its only return or is the one in the making (`EndInv`); when the module is
handed over, the verifiers have accepted it (`ModuleVerifies`), which is where a body
whose return does not match stops; from then on each function is `Ended`. The rest goes
rewrite by rewrite: a value that replaces a struct is of the same struct type
(`ReplacedSealed`, `RewriteSealed`), an inference that the verifiers accept leaves the
structs alone (`InferredSealed`), and a call replaced by a body gets its casts, its body
and the value of its return (`InlinedSealed`, `UnconvertedFits`).

`LexerProofs` proves for all texts `TokensAlwaysExact` (`TokensExact`), `ValuesAlwaysFresh`
(`ValuesFresh`) and `TypeCorrect` (`TypeOK`), from the assumptions that no character is a letter and a
digit, or either and a blank or a mark, and that a text has characters and not
tokens (`CharactersAreDistinct`, `TextsAreOfCharacters`). `LexerInv` places the lexer in the
text: the lookahead character and the buffered line are the next characters
(`SeesText`), the tokens returned are those of the longest match (`Given`), and the
place is in front of a token, within one, in a comment or at the end (`Located`).
`Spans`, the definition of the tokens, is a recursive function of which the proof
needs that it has a solution (`FromDefined`).

Data is inducted on through sets: the principle for natural numbers, with a
predicate as its parameter, is out of the provers' reach, and `NatSetInduction`
states it for the set of the numbers that have the property. That is how
the sequences a fold has built, and the solution of a recursive function, are
shown to be what they should be.

In all of these, the constants are arbitrary: the programs, modules or texts
are not bounded in number, size or depth.

Only model-checked: the liveness properties `Termination`, `TerminatesElsewhere` and
`EndReached` (liveness and ENABLED are outside the prover); `SourcePreserved`,
`DeclaresKnownStructs` and `DumpFaithful`, which compare a tree with a text that is
computed by recursion over it;
and `AcceptsLegal` and the properties of `EndToEnd` (`GeneratedMeaning`,
`WellFormedThroughout`, `OutputPreserved`, `LegalCompiles`, `ReadyForAffine`), which compare with an evaluation of the source. The operators of `SourceText`,
`ASTDump`, `SourceMeaning` and `EndToEnd` are recursive over trees or calls: a module that
declares one cannot be proved about, and what it computes for every tree would need
an induction over data with the predicate as a parameter.

## Plan

1. done: shape inference with its abstract specification and proofs; the lowerings
   with the machine; the parser.
2. done: `MLIRGen` with the meaning of the source.
3. done: `Canonicalizer` with the inliner's hooks, `Driver`, and the two composed with
   `MLIRGen` against the output of the source (`EndToEnd`).
4. done: `Lexer`, against the definition of the tokens.
5. done: `ASTDump`, against a reader of the dump.
6. done: proofs for `AffineLowering`, `LLVMLowering` and the machine.
7. done: proofs for `MLIRGen`, `Driver` and `Lexer`.
8. done: proofs for `OutputCorrect` and for `Parser`.
9. done: the arity and the types of what `MLIRGen` builds and hands over, through all
   passes (`FunctionsComplete` and `AccessesInRange`).

## Not modelled

- The wording of messages, and the textual form of operations and of the struct
  type: no property is about them, and the driver reads no .mlir file.
- The library, but for what this code relies on. The inliner goes from callees to
  callers, simplifies, and leaves calls that are recursive or do not match; its
  bound on iterations, the order of functions it deletes and its history of
  recursive inlining are not modelled, and no program here comes near them. The
  cleanups after the affine lowering (canonicalizer, CSE) and the conversions to the
  LLVM dialect are modelled by what the machine of `CompiledMain` gives the
  operations as meaning, or not at all.
- Declarations of parameters or members with a shape are generated
  (`GeneratedMeaning`) but not run: the cast the inliner puts in front of a struct of
  another layout is one the verifier refuses, and what such a program should print
  is said nowhere.
- A call as a statement of a function that returns nothing stays behind the
  inliner and fails shape inference; this is in the model, and such programs have
  no output in the sense above.
- Bytes: a character is a symbol; of the bytes above 127 only those whose negative
  value is that of a token or of the end stand for themselves.
- Numbers: the value of a literal (of `strtod` only how much of its text it reads) and floating-point arithmetic are symbols.
