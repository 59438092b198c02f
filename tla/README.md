# juli: TLA+ models of the compiler

juli is a small statically typed language. Its compiler (`src/compiler`, C++)
turns one source file into one object file through LLVM; a build driver
(`src/builder`, Java) runs the compiler on every file of a project and links
the objects. This directory holds TLA+ models of both, the TLC configurations
that check them, and proofs of the properties that matter most.

Neither program is concurrent inside the compiler: the only processes that run
side by side are the driver and the command it has started. What is hard in
the compiler is *sequence*: recursion over import graphs with a cache and
exceptions, one pool of function objects shared by all files, two passes with
symbol tables of different shape over the same tree, flags computed bottom-up,
basic blocks appended in an order that has to match the control flow.

## 1. Inventory

| Component | State | Operations | Hard behaviour |
|---|---|---|---|
| Lexer, parser, AST (`parser.cpp`, `antlr/JL.g`, `ast/`) | rule activations, the AST | one rule per construct, one constructor per node | operators that rebuild the tree below them; texts of literals; a missing file gives a null AST |
| Importer and source loader (`builder/builder.cpp`) | `Importer::cache` | `getTypes`, `importTypes` | recursion through import statements, cycles, exceptions swallowed and replaced at each level |
| Declarator (`analysis/type/declare.cpp`) | its `TypeInfo` | imports, then structs, then functions of a file | tables are merged while the importer's own is still growing |
| Type tables (`typeinfo.cpp`) | types, functions, unresolved classes | `declareClass`, `defineFunction`, `merge`, `resolveClasses`, `resolveFunction` | a name that arrives along two import paths |
| Functions (`functions.cpp`) | `functionPool`, candidate sets | `get`, `addFunction`, `matches`, `resolve`, `mangleFunction` | objects shared between files by mangled name; candidates met in the order of their addresses |
| Types (`ast/types.cpp`) | none | equality, assignability, mangling | mangled names that collide |
| Type checker (`typecheck.cpp`) | scopes, current function, `terminates` flags | one visit per kind of node | nesting; a flag that is never initialised; state reset by a nested function |
| Code generator (`codegen/llvm/ir.cpp`) | flat symbol table, insertion point, blocks, values | one visit per kind of node | early returns, nested statements, bodies emitted twice; null values; the signs and widths of what instructions take |
| Translation unit (`translationUnit.cpp`) | symbol table, LLVM types | `addSymbol`, `getSymbol`, `resolveLLVMType`, `createClassType` | field order of structs, pointer size, types that contain each other |
| Run-time memory of compiled programs (`ir.cpp`) | objects allocated by `new` | allocate, access a field or an element | 32-bit arithmetic, sizes, index folding |
| Code emitter (`codegen/llvm/native.cpp`) | none | write an object file | I/O through LLVM |
| Compiler driver (`main.cpp`) | the exit code | run the passes in order, catch what they throw | what ends which pass |
| Build driver (`Builder.java`, `SourceFilenameFilter.java`) | objects, the running command and its pipes | compile, link, exchange output | two processes and two bounded pipes |

How they interact: `main` creates a `Declarator` for the file, which calls the
`Importer` for each import statement; that parses the file and runs another
`Declarator`, and so on. All of them declare into one static function pool.
The table that results is handed to the `TypeChecker`, which annotates the AST
(types, casts, `terminates`, added returns), and then to the `IRGenerator`,
which reads those annotations and has its own table of allocas. The driver sees
a compiler only as a process: its output, its exit code, and the object file it
leaves.

What makes each part correct:

- *parser*: the tree holds what was written, in the order and with the binding
  of the grammar, and every node knows where it came from; a literal is what its
  text stands for;
- *imports*: the table a file ends up with is that of everything it reaches,
  whatever the order, and only acyclic programs pass;
- *functions*: a call is resolved to the best candidate whatever order the
  candidates come in; sharing an object by mangled name confuses nothing;
- *type checker*: names are bound lexically; every accepted function returns;
- *code generator*: it accepts what the checker accepted, uses the variable
  the checker meant, emits blocks whose control flow is that of the source and
  that LLVM's verifier takes, and gives every expression a value of its type
  and the value the source stands for;
- *memory*: fields and elements do not overlap and lie inside the allocation;
- *build driver*: what is linked is what was compiled, and a build ends.

`PROJECT.json` lists every hazard at the line where it bites, with the
properties that would catch it.

## 2. Modules

| Module | Models | Composes |
|---|---|---|
| `SourceTree` | source files as the declaration pass sees them; reachability, cycles | |
| `ImportOrder` | abstract: modules are published in dependency order | `SourceTree` |
| `ModuleImport` | the recursive loader, cache, exceptions, type tables, function pool | `SourceTree`, implements `ImportOrder` |
| `ExpressionParser` | the rules of expressions and the nodes they create | |
| `Literals` | texts of string and character literals | |
| `Types` | equality, assignability, mangling of types | |
| `Matching` | how well a function fits the arguments of a call | `Types` |
| `Overload` | declaration of functions of one name and resolution of one call | `Matching` |
| `Lowering` | LLVM types of juli types, casts as instructions | `Matching` |
| `TypeResolution` | how the structs of classes and arrays come into being | `Lowering` |
| `Operators` | a statement of built-in operators through both passes | `Lowering` |
| `Accesses` | a statement of fields, elements, calls and allocations through both passes | `Lowering` |
| `Evaluation` | what the instructions of an expression compute | |
| `Statements` | the statements of a compiled file as a sequence of tokens; control flow | |
| `TypeCheck` | scopes, bindings and `terminates` flags of the type checker | `Statements` |
| `CodeGen` | symbol table, function pool and basic blocks of the generator | `Statements` |
| `Compile` | one pass after the other, and the properties that relate them | `TypeCheck`, `CodeGen` |
| `Memory` | what `new` allocates, and the bytes an access touches | |
| `BuildDriver` | driver, command, pipes, object files | |
| `ImportOrderProofs`, `ModuleImportProofs`, `CompileProofs`, `OverloadProofs`, `OperatorsProofs`, `EvaluationProofs`, `BuildDriverProofs` | proofs | the module they are named after |
| `Induction` | lemmas about numbers and finite sets of them, by least counterexample; used by `ModuleImportProofs`, `CompileProofs` and `BuildDriverProofs` | |

`MC*` modules give the constants of the checked instances. Three of them check
specifications that share a subject but no state side by side:
`MCExpressions` (`Evaluation`, `ExpressionParser`, `Literals`), `MCAccesses`
(`Accesses`, `Operators`) and `MCOverload` (`Overload`, `TypeResolution`). A
behaviour there is a behaviour of one of them while the others stay in their
initial states, so the reachable states are the union, not the product, and
each property says what it says of its own specification.

Operators named in a comment as a *mutant* are wrong versions of the definition
that follows; no model uses them. Each breaks a property, which shows that the
property depends on that piece of code. `PROJECT.json` says which.

### Imports: `ModuleImport` and `ImportOrder`

One element of `stack` is one activation of `Declarator::declare` together with
the `getTypes` and `importTypes` calls that led to it. It counts the import
statements, structs and functions already visited and holds the `TypeInfo` under
construction. `cache` is `Importer::cache`, where "no entry" and "null entry"
are one value since the code treats them alike. `pool` is
`Function::functionPool`. An exception in flight is `raised`; `Unwind` is the
catch block of `importTypes` (rethrow a `CompilerError`, swallow anything else)
together with the `ImportError` that `getTypes` then throws. A null AST and a
full native stack both end the process (`Crash`).

A name, a signature or a body is a model value or a number; a table of functions
is a set of mangled names, since the objects are in the pool; a table of types
maps names to the module that owns the class. Parsing and the text of errors are
left out.

`ImportOrder` says what this promises: a module is published once, after what
it imports, with its own declarations and those of its imports, provided no
struct name arrives twice. `ModuleImport` implements it with `cache` as what is
published, both checked (`ImplementsImportOrder`) and proved.

The properties that speak of import paths mean sequences of import statements,
not of modules: a file that imports another one twice has two paths to it.
`ImportPaths` has those of up to as many statements as there are modules, which
on acyclic imports is all of them.

### Texts: `ExpressionParser`, `Literals`

The parser generated from `JL.g` is a recursive descent. `stack` holds the rule
activations in progress, each with what its local variables hold (`current`,
`result`, the operator read last, the list of arguments); `nodes` are the AST
nodes, a pointer being an index, so that a constructor which takes a subtree
apart and puts it elsewhere shows as the code does it. The tokens are chosen
while parsing, which enumerates every sentence up to a length. A name stands
for all literals as well. A node carries its source location as the positions of
a first and a last token.

`Literals` is a fold of one round of the loop in the constructor of
`NStringLiteral`, over texts that the lexer rules accept; a character is one of
a small set, because which characters come out is the question.

### Calls: `Overload`

`Overload` declares a sequence of functions of one name and then runs the loop
of `Functions::resolve`. The loop walks a `std::set` of pointers, so `Consider`
takes any candidate left. `Types!Mangle` writes types the way `mangle()` does,
down to class names without an end marker, because collisions of mangled names
are one of the hazards.

### Expressions through both passes: `Operators`, `Accesses`

Both follow one statement through both passes. A tree is the sequence of its
nodes, operands first, and the results of visits are on a stack. The type
checker resolves each operator or call, notes the casts, or throws; the
generator then turns each node into a value with an LLVM type, into no value
(a null pointer, where `visitBinaryOperator` falls through its cases), or into
an instruction that does not fit its operands. `Lowering` says what LLVM type
a juli type becomes and which cast has which instruction.

`Operators` is about null values: what happens to one depends on who gets it. A
binary operator passes it on, LLVM is handed it by anything else (`misused`), an
expression statement drops it. `Accesses` is about places and values: the
`address` flag of the node on the left of an assignment, strings and arrays of
static size that are not structs, the index of a field against its slot, the
arguments taken by `...`. In an assignment the type checker visits the value
first and the generator the place (`split`, `Order`). `Matches` is the operator
`Overload` is checked with: `resolve` is one step here because
`OrderDoesNotMatter` there.

### LLVM types: `TypeResolution`

`resolveLLVMType` and `createClassType` recurse into each other. `stack` holds
their activations, `structs` those LLVM knows, by name; a struct created under a
name that is taken is `renamed`, as LLVM does, and is never found by it. A class
is named before its fields are resolved, an array after its elements are, and
`OneTypeEach` and `ResolutionEnds` are about what follows from that.

### Values: `Evaluation`

A machine with a stack of values. Each entry has the `value` the instructions
compute and the one `meant`, which the source stands for: computed without
casts, and without the right operand of an `and` or `or` that the left one
decides. What is known to go wrong is marked, and once marked the entry says
nothing of `meant` any more: `spoilt` by a literal that is no int, a negative
number cast to double or two addresses alike in 32 bits; `traps` when the source
itself reads through null. Everything else has to agree, which includes wrap
around in both widths and every mixture of types. Undefined divisions are left
out, and a double is a whole number: only the comparison of doubles and the casts
to them depend on their value.

### Statements: `TypeCheck`, `CodeGen`, `Compile`

A file is a sequence of tokens: a simple statement, or the opening, a clause or
the end of a compound one. An expression is the set of variables it mentions.
Both passes walk the same sequence with a stack of the visits in progress.

`TypeCheck` keeps the scopes of `SymbolTable`, `_currentFunction` and the
`terminates` flags. The flag of a declaration, a nested function or a struct is
never assigned (`ast.cpp:347`), so the model lets it have either value
(`Unset`). `autoReturn` records the functions the checker appends a return to.

`CodeGen` keeps the one flat `llvmSymbolTable`, the pool, and the basic blocks:
the statements executed in each, the blocks it branches to, and whether it is
open, closed by a terminator, or broken by anything appended after one. The LLVM
builder is external: it appends to its insertion point whatever that holds.

`Compile` runs one after the other, as `main` does, and states what relates
them. It also says what LLVM's verifier (`ir.cpp:169`) asks of the blocks of a
function (`Verifies`): that each ends in its only terminator (`Terminated`), and
that the alloca of a local variable, which is emitted at the insertion point
(`ir.cpp:601`), dominates every load from it (`Dominated`). A block dominates
another if no set of blocks holds the entry and not the other and is left only to
the first. A block no path leads to asks nothing: the second emission of a body
is one.

A unit is what the grammar and the declaration pass let through: every construct
is closed, clauses belong to an if statement and the `else` is the last of them,
and no mangled name has two bodies at the top level. The statements outside every
function, which the grammar allows and for which the generator has no block to
append to, are not part of a unit. Neither is the return of a call of a function
without a result, which the type checker lets such a function have
(`typecheck.cpp:381`), nor the function `main`, which is an `int` for LLVM whatever
its declaration says (`ir.cpp:611`).

### Memory: `Memory`

One struct or array is allocated and then stored to. `GetSizeOf`, `DataSize` and
`ElementIndex` compute what the generated code computes, in arithmetic modulo
`IntRange`; `Bytes` is what the LLVM types make of the same access on the
target. The state records for each byte the cell last written to it, so that an
overlap shows as a cell that does not read back.

### Build driver: `BuildDriver`

`executeCommand` reads the command's stdout to its end, then its stderr, then
waits for its exit. The command is a process of its own that writes to pipes of
`Capacity` writes and blocks on a full one. Files have a base name and an
extension, directories contents in any order; an object is named after the
base name alone.

What a build should link (`AllSources`) is computed from the command line apart
from the driver's steps: what directories list is added level by level, up to
`MaxDepth`. `BuildsAssumption` says that no directory is deeper and that each
lists finitely many files, as on any disk.

## 3. What is checked

Passing runs:

| Run | Question | What it shows |
|---|---|---|
| `module_imports` | Does the loader give every file the right table? | It implements `ImportOrder`; a frame's table is the union of those it is past; a struct name arrives along one path, and an import error is raised only if it does not; exports are the declarations of the modules reached; no cyclic program is accepted; the process dies only on a missing file or a cycle; the first declaration loaded fixes a shared object's signature and no step changes it later; the pass ends. |
| `names` | What is found by a mangled name? | A call's outcome is independent of the order of addresses; what is picked is never more general than another fit; a call is undeclared only if nothing fits (except a bare `...`); functions share an object only with equal parameters, as long as no class name is a prefix of another. A type has one LLVM type whatever the order of mentions, except an array whose elements contain such an array; resolution ends, with every struct complete, though classes contain each other. |
| `expressions` | Does an expression mean what was written? | The tree of every sentence holds it, exactly once and in order, apart from chains of prefix operators; operators bind by level, to the left; locations cover what they are about, apart from indexed fields; which literals are what they stand for. Values are in the range of their type and as meant unless `spoilt`. |
| `statement_types` | Does what the checker accepts get a value of its type? | Through fields, elements, calls, allocations and assignments, apart from five mistakes named in `Mistaken`, each of which does go wrong wherever it occurs. Operands of operators meet at the widest of their types; values have the types the checker computed apart from four exceptions; a missing value is never stored as if it were there. |
| `compile_file` | Do the two passes agree? | Names are bound lexically; the generator accepts what the checker does in files without nested or redeclared functions; loads use the variable the checker meant exactly unless an inner block redeclared the name; the control flow of the blocks is that of the source; which functions the verifier refuses, for their terminators and for the variables they use; how often a body is emitted; when the `terminates` flags are safe. |
| `memory` | Are objects laid out properly? | Two cells never share a byte, even when index arithmetic wraps; accesses stay inside the allocation when the generator's sizes are the target's. |
| `build_driver` | Is what is linked what was compiled, and does a build end? | Outputs of commands are never mixed; sources of one base name overwrite each other's objects, and that is the only way to lose one; a build ends unless a command fills the pipe of stderr first. |

Runs that show a disagreement between the code and what it, or a sample
program, says of it (each finding in `PROJECT.json` quotes the line):

| Run | Property refuted | Why |
|---|---|---|
| `bodies_return` | "auto return void", "require value return" (`typecheck.cpp:357`, `:359`) | An empty block terminates, an `if` without `else` does if its blocks do, a loop does if its body does, and the flag of a last statement that is a declaration is whatever the memory holds. |
| `functions_verify` | the verification at `ir.cpp:169` | A branch is appended after a body that ended in a return. The function fails to verify, is dumped, and compilation goes on. |
| `array_memory` | "allocate the actual array memory" (`ir.cpp:487`) | Arrays of structs hold pointers but are allocated with the size of the structs. |
| `guarded_access` | `linked_list.jl:61` tests for null before it reads a field | Both operands of `and` are evaluated. |
| `array_lengths` | `array.jl:23` prints `m.length[0]` as an int | The index is applied to the pointer to the lengths, not to its elements. |

Other behaviour the models make precise, and that the properties carry as an
exception:

- an import cycle overflows the native stack instead of being reported;
- a module with a struct that is imported twice, directly or through a diamond,
  is refused, though the struct is the same one;
- of a chain of prefix operators only the last is in the tree; an indexed field
  has no location of its own, and two index brackets after a field name are a
  null pointer in the parser;
- of the escapes in a string only those of a line feed and of quotes work, and
  an escaped backslash is repeated before what follows it;
- a variable used after an inner block that declares its name again is loaded
  from the alloca of the inner one, and the verifier refuses the function;
- literals that are no int are cut to 32 bits, an `int` is cast to `double` as if
  unsigned, references are compared in 32 bits, and `and` and `or` evaluate both
  operands;
- `==` and `!=` of booleans and `%` of doubles are declared but have no
  instruction; the negation of a `char` and `~` of a `double` have one that does
  not fit (`Missing` and `Misfit` in `Operators`);
- fields not declared in the order of their names are accessed through each
  other's slots; the length of a string or of a multi-dimensional array can be
  assigned to, which does not fit; `new` takes a primitive type (`Mistaken` in
  `Accesses`);
- an array whose elements contain such an array gets two LLVM types, depending
  on which type is mentioned first;
- after an inner block redeclares a name, uses of the outer variable load the
  inner one;
- a function declared twice has its body emitted twice;
- pointers count four bytes on every target (`ir.cpp:50`);
- an unread stderr can block the build for good.

### Bounds

| Bound | Where | Why it is enough |
|---|---|---|
| four modules, two struct names, two keys, two signatures | `MCModuleImport` | two files already form a cycle; four form a diamond with a choice of order; a clash needs two of a name |
| `StackLimit = 5` | `ModuleImport.cfg` | one more than the files: an activation more than that can only come from a cycle |
| `StackLimit = 4` | `Compile*.cfg` | bodies nest two deep at most in the files given; more can only come from a function that emits itself |
| up to three declarations, up to two arguments | `MCOverload` | ambiguity needs two candidates; a third makes the order in which ties and better candidates come matter |
| two classes of up to two fields, `MaxMentions = 2`, `StackLimit = 9` | `MCOverload` | the classes can contain themselves, each other and arrays of either; the order of mentions needs two; the limit is above the deepest resolution, and one that reached it would be stuck and break `ResolutionEnds` |
| sentences of nine tokens | `MCExpressions` | an operator of each of three levels twice with `-` in both roles, brackets within brackets, a field with two indices |
| literals of four units | `MCExpressions` | an escaped backslash, what it does to the next character, and to a second escape |
| `MaxNodes = 6`, `Range8 = 4`, `Range32 = 8`, three addresses | `MCExpressions` | a char and an int that wrap, mixed with a double under two operators; two addresses alike in the width of an int, and one like null; a guard and what it guards. The proof covers every bound. |
| `MaxNodes = 5` | `MCAccesses` | three operands under two operators, or an operator on each side of another; an assignment of a value to an element of a field |
| pairs and triples of statements, compounds two deep, three functions | `MCCompile` | each flag and each block is decided by a statement, the next one and the one around it |
| `MaxFields = 3`, `MaxLength = 4`, three dimensions | `Memory*.cfg` | three names have every kind of order; the third dimension is the first whose factor is a product |
| `MaxStores = 2` | `Memory*.cfg` | an overlap is between two cells; a third store adds none |
| `IntRange = 64` | `Memory*.cfg` | stands for 2^32: small enough that both the products of lengths and the byte counts wrap around |
| `Capacity = 2`, outputs of up to three writes | `BuildDriver.cfg` | a command can fit in, exactly fill and overrun a pipe |
| two files or directories, `MaxDepth = 3` | `BuildDriver.cfg` | two make the order and the clash of names; `MaxDepth` only bounds the reference set of sources |

### Fairness

The compiler is one thread, and each visit returns or calls another: the
specifications of it with a liveness property (`ModuleImport`, `Compile`,
`TypeResolution`) assume weak fairness of their steps, which says just that the
process goes on running. In `TypeResolution` that leaves out `Mention`: nothing
says that the generator asks for another type. In
`BuildDriver` two operating-system processes are each weakly fair. A blocked one
is not enabled, so fairness does not decide whether the deadlock happens. The
remaining specifications state safety only and have no fairness.

`CHECK_DEADLOCK FALSE` is set where a behaviour ends: a compiler that has exited,
a call that is resolved, a sentence, expression or statement that is complete or
at its bound, an object that is fully stored to, a finished or choked build
(whose absence of other stops is what `BuildEnds` checks). That resolutions of
types do not stop half way is what `ResolutionEnds` checks.

## 4. What is proved

All theorems hold for every value of the constants allowed by the named
`ASSUME`s: any set of modules and source trees, any stack limit, any sequence
of files, any outputs, any capacity, any types and declarations, any width of
integers.

**`ImportOrderProofs`**

- `OrderCorrect`: `OrderInv` is invariant: what is published is closed under
  imports, holds exactly the declarations of the modules reached, and no
  published module lies on a cycle. Closure is what makes the rest inductive: a
  module published now was not there before, so nothing it imports reaches it.
- `ExportsComplete` and `AcceptedIsAcyclic`: two properties of publication, from
  that.

**`ModuleImportProofs`**

- `TypeCorrect`: the loader's state keeps its types. One lemma says that a
  source tree of the assumed type gives each action well-typed pieces
  (`SourceTyping`, `TopTyping`), another that the updates of a frame stay in
  `Frame`.
- `LoaderCorrect`: `LoaderInv` is invariant. It is the inductive strengthening
  behind everything else: for every frame on the stack, and not just the top
  one, the imports counted are cached, the table is the union of their tables and of
  the declarations counted, and no name came in twice; and the stack is an
  import path of modules without a cache entry. The last part is needed because
  `Return` writes the cache: a frame lower down keeps its invariant only if
  the entry written was none it had already merged (`FrameStable`). That in turn
  needs the returning module to be on the stack once
  (`ReturningModuleIsOnce`), which follows from what its frames have already
  cached: a module lower on the stack is in the middle of an import whose
  module is not cached, while a finished module has all its imports cached, so
  the same module cannot be both.
- `ImportPath`: the stack is an import path, a corollary.
- `SharedObjects`: `SharedObjectsAreStable`, an action property, from both
  invariants. A published table stays because the module returned from has no
  cache entry, which is part of `LoaderInv`; a pooled function keeps its
  signature and its body because a second body raises an error (`PooledKeeps`).
- `Refinement`: `Spec => ImplementsImportOrder`. A `Return` that merges or fails
  is a `Publish` of the module returned from; the end of `ResolveClasses` is
  `Accept`; rejection and crash are `Fail`; everything else stutters. A finished
  frame gives the guard of `Publish` (`FinishedIsReady`) and its value
  (`FinishedFrame`).

- `LoaderExports` and `LoaderAcyclic`: `ExportsAreReachableDeclarations` and
  `AcceptedMeansAcyclic` of the loader, by instantiating the two theorems of
  `ImportOrderProofs` under the refinement mapping. Nothing about the loader's
  stack, cache or exceptions is looked at again.
- `CrashesExplained`: `CrashMeansMissingOrCyclic`, provided the stack holds one
  activation per module (`DeepStack`). The hypothesis is needed: a limit below
  the longest import path makes the process die on an acyclic program. The
  stack is an import path (`PathInv`), so a full one has a module twice, by
  counting, and a path with a module twice contains a cycle.
- `OnePath`: `OnePathPerStruct`, for finitely many modules. Three invariants lead
  there. `ReadyInv`: every published module, and `Main` in an accepted program,
  had its file, published imports, and no name that comes in twice. `ErrorInv`: an
  import error in flight means that `Main` would get some struct twice, and names
  a module that the frame it has come to imports. `PathOf`: the stack is an
  import path. The
  rest is about sequences of import statements (*walks*): a walk that meets a
  module twice makes the imports cyclic, so on an acyclic program every walk is
  no longer than the number of modules (`SimplePath`); two walks can be joined
  where they meet (`WalkJoin`, `TwoWalks`); and two different walks to a module
  with a struct part in a module that merges the struct twice, which
  no published one does (`NoPartingPaths`, `OneSupply`). The other way round, a
  frame in which a name clashes gives two walks from `Main`
  (`TwoImportsAreTwice`, `ClashIsTwice`).
- `FirstWins`: `FirstDeclarationWins`, for finitely many modules. The invariant
  (`PoolInv`) says that every function of a cached module, or counted by a frame,
  is pooled; that the signature of a pooled function comes from a declaration
  before which the loader met none of its key (`Origin`); and that its body is
  the one of `Main` counted so far (`BodiesSoFar`). `Origin` is stated over the
  source alone and so stays true once it is (`OriginIsStatic`); when a
  function enters the pool, the stack is the import path of its declaration
  (`StackIsWalk`), and everything before it is cached (`LoadedIsCached`) and
  hence pooled, so it is the first (`NewOrigin`).

**`CompileProofs`**

- `Lexical`: `BindsLexically` for every file, functions nested or not. The
  checker's scopes are compared with the text: in the scope at each depth a name
  has exactly the variables whose block, at that depth, is open at the token
  the checker is at (`ScopesMatch`), and inner scopes hold later declarations.
  One lemma per way a scope changes (`MatchPlain`, `MatchDeclare`,
  `MatchFunction`, `MatchClose`, `AppendEmpty`) keeps that, so a search from the
  inside finds the last open declaration (`LookupBinds`, `BindsByText`).
- `Emitted`: `CheckedFilesAreEmitted`. In a file without nested functions the
  visits in progress are the constructs open before the token the generator is
  at (`Inside`), also after it has jumped to the body of a function declared
  elsewhere; an if statement without a block for a failed condition is past its
  `else` (`ElseSeen`); the insertion point and every block still needed belong
  to the function visited (`Owned`); and a declaration met adds nothing to the
  pool (`KnownIsPool`). So no clause lacks its block, no second body turns up,
  and functions do not nest. That every name is found in the symbol table comes
  from the next theorem's invariant.
- `Loads`: `LoadsAgreeUnlessRedeclared`. For each name the flat table holds the
  last variable of that name declared since the function visited began
  (`Current`). The checker's variable is one of the same function, because the
  blocks of the functions before it have ended (`OwnVariables`, from
  `Crossing`: a descent of the depth passes an `end` at each level); the last
  declaration since then is what the load finds (`Loaded`).
- `Terminating`: `TerminatedFunctions`, in both directions. The blocks of a
  function that are not finished are the one at the insertion point and those the
  visits in progress wait for (`Lives`). The latter are open (`Untouched`) and no
  two visits wait for the same one (`Apart`), or closing one would disturb
  another. The block at the insertion point is closed by a return and broken by
  anything the generator appends behind one (`AtPoint`); nested definitions
  append nothing. A block that stops being unfinished is closed if the function
  returns as it should (`Settled`), and a function that does not keeps a block that
  is not (`Refused`), because a function's blocks are touched only while it is
  visited. The checker's part is `Judged`: a return has the kind its function
  asks for and only functions without a result get one appended, so that at
  `end` the generator appends a return exactly for `autoReturn`.
  Working out the invariant showed that the property as first stated was wrong:
  it counted a struct definition behind a return as something the verifier
  refuses, and it does no harm. `EarlyReturn` and `EndsInReturn` now say so.
- `Bodies`: `BodiesEmitted`. The first statement of a function is the first token
  behind its head that is not a nested struct definition (`FirstStatement`, from
  `AtIs`, which unfolds `At` once, and `ReferringExists` of `Induction`, which
  says that its recursion defines a function). At every moment it is in as many
  blocks as the generator has passed declarations of its function, the one whose
  body it is in included, or in one fewer while that body is being visited and
  the statement is still ahead; then the block at the insertion point is open and
  empty (`Counted`). A body is entered from the declaration the generator stands
  at, and left for the token behind that declaration, so what lies between is
  counted once (`DeclaredBehind`); every other step appends the token it visits,
  and nothing else, to a block (`EmitsOnly`).
- `Returning`: `StructuredBodiesReturn`. One half is about the text alone: if a
  run can reach the end of a structured body, then by an evaluation behind which
  control falls off it (`OnlyAfterEvaluation`), because the body without its end
  is closed under `Successors` otherwise (`ExecutedWithin`, which needs
  `IteratesExist` of `Induction` for the recursion in `Executed`): only the last
  token of a block falls off (`NoFall`), a loop is not one, and neither is an if
  whose last clause has a condition (`NoElse`). The other half is the invariant
  `Flagged`: once the checker has passed such an evaluation in a function, it
  knows. Either the last statement visited does not terminate and control falls
  off here too (`Ended`), or an if statement still open has a clause behind it
  that falls off and its flag is down (`Held`). A clause turns the first into the
  second, the end of that if statement turns it back (`ClauseEndsAt`), and at the
  end of the function only the first is left.

Both passes walk a text whose depth is a difference of two cardinalities; the
lemmas `Counting` and `NextDepth` turn it into steps of one.

**`Induction`**

- The library's induction theorems take the induction hypothesis as an operator
  parameter, which no installed prover instantiates. These lemmas speak of sets
  instead (`FromZeroOn`, `UpTo`: a set that has 0 and with each number the next
  one) and follow from the well-foundedness of `<` by a least counterexample;
  `HasLeast` and `HasGreatest` are what `Min` and `Max` need. `ReferringExists`
  and `IteratesExist` say that the recursions behind `At` and `Executed` define
  functions.

**`BuildDriverProofs`**

- `OutputsStaySeparate`: whenever no command runs, and whenever an exit code is
  looked at, both pipes are empty. The inductive invariant `Exchange` says that
  once the driver has gone past stdout the command has ended and that pipe is
  empty, and once it has gone past stderr so is the other; that a
  command that has ended writes no more is what makes it inductive.
- `ObjectsAreKept`: `ObjectsExist`. What is on disk and not recorded is at most
  the object of the command that runs (`Kept`).
- `EverySourceIsLinked`: `LinksEverySource`. The driver forgets the files it is
  done with, so the invariant (`Progress`) says that there is a set of them which,
  with those still to come, holds the command line and the sources of every
  directory in it; the sources among them have their objects recorded
  (`Accounted`). With nothing to come that set is closed under directories, and by
  induction over the levels it contains all of `AllSources` (`ListedFacts`). An
  object on disk is the one of a source of its name (`OnDisk`), so what is linked
  has one source per name, and two sources of one name cannot both be there
  (`LinkedAll`).

**`OverloadProofs`**

- `OrderIsImmaterial`: `OrderDoesNotMatter` for every call. The inductive
  invariant is `BestSoFar`: after each round the list holds the best of the
  candidates met, and is empty only if the best score is zero. That the list is
  finite is needed for its cardinality to tell one match from several.
- `PickIsSpecific` and `UndeclaredFitsNothing`: what the outcome means for the
  program. The first rests on assignability going one way only (`OneWay`), so
  that a candidate that is at least as specific has at least the exact matches
  of the other and hence at least its score (`SpecificScoresMore`).

**`OperatorsProofs`**

- `OneMeaning`: `OperandsMeetAtTheWidest`. A best function on numbers has an
  operand of exactly its type (`BestIsExact`), because the function on the widest
  operand's type fits too and scores for that operand; so two best functions
  are the same (`OneBest`).
- `ValuesFit`: `ValuesHaveTheirTypes`. The generator has to find on its stack what
  the checker had on its own, one pass earlier, so the invariant (`Shape`) says that
  there is a history of type stacks, one between any two nodes, along which each
  node takes its operands (`Takes`): the checker is at its end, the values have the
  types at the place the generator has reached. Then `CastFits` and `ResultFits`
  do a node at a time.
- `MissingIsLost`: `MissingIsNeverStored`, from `MissingStays`: once an operator
  without an instruction was executed some value on the stack is missing and
  nothing was assigned.

The histories are bounded by quantifiers over all functions, so TLC cannot
evaluate `Shape`; it checks the three properties themselves.

**`EvaluationProofs`**

- `MeantValues`: `ValuesAreMeant` for every width and every expression. The
  invariant types each entry on the stack (`Entries`): in range, and equal to
  `meant` unless marked, which every instruction keeps because its operands
  have it. The lemmas are about two's complement: what `Fit` returns is a value of
  the type (`FitFits`), a value is its own (`ValuesFit`), a cast that does not
  spoil keeps the number (`CastKeeps`), and a remainder by a width of either
  sign is where it should be (`Remainder`).

Each proof has one step or lemma per action under the inductive step, and the
temporal step at the end.

**Only model-checked.** Liveness (`Terminates`, `PassesEnd`, `ResolutionEnds`,
`BuildEnds`) is out of the prover's reach. So are properties stated by recursion over data:
`Below` in `Accesses`, `Tree` and `Extent` in `ExpressionParser`, `Contains` in
`TypeResolution`, `Starts` behind `CodeFollowsSource`, the folds in `Literals`
and `Memory`, and `Mangle`, on which `SharedOnlyByEqualFormals` of `Overload`
rests. `DominatedFunctions` is within reach but not proved: of what the verifier
asks, the proofs cover the terminators.

## 5. Not modelled

- Of the parser: the rules of statements, definitions and types, which create one
  node per alternative and keep nothing in between, and the error recovery of
  the code ANTLR generates. Statements enter the models as token sequences, files
  as sets of definitions. Printing of nodes and types is output only.
- `canCastTo` and the explicit cast of `TypeChecker::visitCast`: the grammar
  has no cast expression, so nothing reaches them.
- Names that LLVM gives to a second function or global of one name, and the data
  of string literals.
- The code emitter and LLVM, except for how the builder and the verifier treat
  blocks, how structs are named and laid out, which are external definitions.
- Option handling, dumps, wording of messages; `removeObjects`, which nothing
  calls; the exit code of the linker, which the driver does not look at.
- The samples, which are read for what they expect of the language.

## 6. Plan

Written in this order: imports (the state every other pass depends on) with
their abstract specification and proofs; overload resolution and operators;
statements through both passes; memory; the build driver; then accesses, LLVM
types, expressions from text to value, and the proofs about publication,
resolution and values. What is left:

1. *Composition.* The pool that `ModuleImport` ends with as what `CodeGen` starts
   from, in place of the sequence of imported signatures; functions that several
   object files emit, and the objects of `BuildDriver` they are in; the rules of
   statements in front of `Statements`.
2. *Abstract specifications.* Resolution as one step (the best candidates) that
   `Overload` implements; lexical scoping as an abstract binder that `TypeCheck`
   implements and `CodeGen` implements up to redeclaration; a build as the
   compilation of a set of sources.
3. *More proofs.* `DominatedFunctions`: the blocks in the scope of a declaration
   are entered only at the block of its alloca, which every step of the generator
   keeps, and a block behind the scope is reached from the entry around it. That
   the values of `Accesses` have their types, along the lines of `ValuesFit`; that
   the cells of an object do not share a byte, for every range of integers.
