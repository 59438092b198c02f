---------------------------- MODULE ModuleImport ----------------------------
(***************************************************************************)
(* The declaration pass of the compiler: Importer::getTypes,               *)
(* SourceImportLoader::importTypes, Declarator and TypeInfo, with the      *)
(* pool of function objects they share.                                    *)
(*                                                                         *)
(* The pass is a recursive descent over import statements.  One frame of   *)
(* "stack" is one activation of Declarator::declare together with the      *)
(* getTypes / importTypes calls that made it; frame 1 is the Declarator of *)
(* main.cpp.  Errors are C++ exceptions: they unwind the stack frame by    *)
(* frame, and importTypes decides at each frame what its caller sees.      *)
(***************************************************************************)
EXTENDS SourceTree

CONSTANT StackLimit   \* activations of declare the native stack holds

Frame == [module : Modules, imported : Nat, declared : Nat, defined : Nat, ti : TypeInfo]

(* A function object: the signature of the declaration that created it and *)
(* its body, which is 0 or the position of a definition of Main.           *)
Function == [sig : Sigs, body : Nat]

Errors == [kind : {"ImportError", "CompilerError"}, of : Modules \cup {None}]

ASSUME StackLimitAssumption == StackLimit \in Nat \ {0}
ASSUME NoObjectAssumption == None \notin Function \cup Errors

VARIABLES
    stack,    \* activations of declare, innermost last
    cache,    \* Importer::cache, None for a null entry or no entry
    pool,     \* Function::functionPool
    raised,   \* the exception in flight, None when there is none
    status    \* "running", "accepted", "rejected" (exit code 2), "crashed"

vars == <<program, stack, cache, pool, raised, status>>

Top == stack[Len(stack)]
TopSource == program[Top.module]
ReplaceTop(fr) == [stack EXCEPT ![Len(stack)] = fr]
Pop == [k \in 1..(Len(stack) - 1) |-> stack[k]]

(* A Declarator fresh from its constructor, with an empty TypeInfo.        *)
Enter(m) == [module |-> m, imported |-> 0, declared |-> 0, defined |-> 0,
             ti |-> [types |-> {}, functions |-> {}]]

(* The frame works on the statement after those it has counted: imports    *)
(* first, then struct definitions, then functions.                         *)
AtImport   == Top.imported < Len(TopSource.imports)
AtClass    == ~AtImport /\ Top.declared < Len(TopSource.classes)
AtFunction == ~AtImport /\ ~AtClass /\ Top.defined < Len(TopSource.functions)
Finished   == ~AtImport /\ ~AtClass /\ ~AtFunction

Running == status = "running" /\ raised = None /\ TopSource.present

(* Mutant of Raise: an exception of a class of its own.                    *)
RaiseOther(k, m) == raised' = [kind |-> "Error", of |-> m]

Raise(k, m) == raised' = [kind |-> k, of |-> m]

-----------------------------------------------------------------------------
Init == /\ program \in Programs
        /\ stack = <<Enter(Main)>>
        /\ cache = [m \in Modules |-> None]
        /\ pool = [k \in Keys |-> None]
        /\ raised = None
        /\ status = "running"

-----------------------------------------------------------------------------
(* Mutant of Mergeable: no check.                                          *)
MergeableAlways(fr, other) == TRUE

(* TypeInfo::merge into the table of an importing frame fr.                *)
Mergeable(fr, other) == Names(fr.ti.types) \cap Names(other.types) = {}

(* Mutant of Merge: the function table is forgotten.                       *)
MergeTypesOnly(fr, other) ==
    [fr EXCEPT !.imported = @ + 1, !.ti.types = @ \cup other.types]

Merge(fr, other) ==
    [module |-> fr.module, imported |-> fr.imported + 1,
     declared |-> fr.declared, defined |-> fr.defined,
     ti |-> [types |-> fr.ti.types \cup other.types,
             functions |-> fr.ti.functions \cup other.functions]]

NextImport == TopSource.imports[Top.imported + 1]

(* visitImport when the module is cached: its table is merged, or the      *)
(* merge meets a name it already has.                                      *)
ImportCached ==
    /\ Running /\ AtImport
    /\ cache[NextImport] # None
    /\ \/ /\ Mergeable(Top, cache[NextImport])
          /\ stack' = ReplaceTop(Merge(Top, cache[NextImport]))
          /\ UNCHANGED raised
       \/ /\ ~Mergeable(Top, cache[NextImport])
          /\ Raise("ImportError", None)
          /\ UNCHANGED stack
    /\ UNCHANGED <<program, cache, pool, status>>

(* Mutant of ImportLoad: the cache entry is made before its file is read,  *)
(* so that an import cycle finds it.                                       *)
ImportLoadMarked ==
    /\ Running /\ AtImport
    /\ cache[NextImport] = None
    /\ program[NextImport].present
    /\ Len(stack) < StackLimit
    /\ stack' = Append(stack, Enter(NextImport))
    /\ cache' = [cache EXCEPT ![NextImport] = [types |-> {}, functions |-> {}]]
    /\ UNCHANGED <<program, pool, raised, status>>

(* visitImport of a module with no cache entry: the loader parses its file *)
(* and a new Declarator visits it.                                         *)
ImportLoad ==
    /\ Running /\ AtImport
    /\ cache[NextImport] = None
    /\ program[NextImport].present
    /\ Len(stack) < StackLimit
    /\ stack' = Append(stack, Enter(NextImport))
    /\ UNCHANGED <<program, cache, pool, raised, status>>

(* Mutant of Crash: the native stack has no end.                           *)
CrashOnMissing ==
    /\ status = "running" /\ raised = None
    /\ \/ ~TopSource.present
       \/ AtImport /\ cache[NextImport] = None /\ ~program[NextImport].present
    /\ status' = "crashed"
    /\ UNCHANGED <<program, stack, cache, pool, raised>>

(* The same call when it cannot succeed: a missing file gives a null AST   *)
(* that the Declarator dereferences; a full native stack ends the process. *)
Crash ==
    /\ status = "running" /\ raised = None
    /\ \/ ~TopSource.present
       \/ /\ AtImport
          /\ cache[NextImport] = None
          /\ ~program[NextImport].present \/ Len(stack) >= StackLimit
    /\ status' = "crashed"
    /\ UNCHANGED <<program, stack, cache, pool, raised>>

(* TypeInfo::declareClass for the next struct definition.                  *)
WithClass(fr, name) ==
    [module |-> fr.module, imported |-> fr.imported,
     declared |-> fr.declared + 1, defined |-> fr.defined,
     ti |-> [types |-> fr.ti.types \cup {<<name, fr.module>>},
             functions |-> fr.ti.functions]]

DeclareClass ==
    /\ Running /\ AtClass
    /\ LET def == TopSource.classes[Top.declared + 1]
       IN  \/ /\ def.name \notin Names(Top.ti.types)
              /\ stack' = ReplaceTop(WithClass(Top, def.name))
              /\ UNCHANGED raised
           \/ /\ def.name \in Names(Top.ti.types)
              /\ Raise("CompilerError", None)
              /\ UNCHANGED stack
    /\ UNCHANGED <<program, cache, pool, status>>

(* Function::get on the pool: the first declaration of a key creates the   *)
(* object; a later one can only supply a body.  Imported bodies are not    *)
(* looked at, so "body" is the position of the definition in Main.         *)
Body(def, i) == IF def.body /\ Len(stack) = 1 THEN i ELSE 0

(* Mutant of Redefines: a second body is not noticed.                      *)
RedefinesNever(def, b) == FALSE

Redefines(def, b) ==
    pool[def.key] # None /\ b # 0 /\ pool[def.key].body \notin {0, b}

(* Mutant of Pooled: the last declaration's signature is kept.             *)
PooledLast(def, b) ==
    [sig |-> def.sig,
     body |-> IF pool[def.key] # None /\ b = 0 THEN pool[def.key].body ELSE b]

Pooled(def, b) ==
    IF pool[def.key] = None THEN [sig |-> def.sig, body |-> b]
    ELSE IF b # 0 THEN [pool[def.key] EXCEPT !.body = b]
    ELSE pool[def.key]

(* The signature resolves against the table, main has the right one, and   *)
(* no other body is known for the key.                                     *)
Definable(def, b) ==
    /\ def.uses \subseteq Names(Top.ti.types)
    /\ def.mainOk
    /\ ~Redefines(def, b)

WithFunction(fr, key) ==
    [module |-> fr.module, imported |-> fr.imported,
     declared |-> fr.declared, defined |-> fr.defined + 1,
     ti |-> [types |-> fr.ti.types, functions |-> fr.ti.functions \cup {key}]]

(* TypeInfo::defineFunction for the next function definition.              *)
DefineFunction ==
    /\ Running /\ AtFunction
    /\ LET i == Top.defined + 1
           def == TopSource.functions[i]
           b == Body(def, i)
       IN  \/ /\ Definable(def, b)
              /\ pool' = [pool EXCEPT ![def.key] = Pooled(def, b)]
              /\ stack' = ReplaceTop(WithFunction(Top, def.key))
              /\ UNCHANGED raised
           \/ /\ ~Definable(def, b)
              /\ Raise("CompilerError", None)
              /\ UNCHANGED <<pool, stack>>
    /\ UNCHANGED <<program, cache, status>>

(* declare returns to getTypes, which fills the cache entry, and on to     *)
(* visitImport of the importing frame, which merges.                       *)
Caller == stack[Len(stack) - 1]

(* Mutant of Return: the table is cached under the importing module.       *)
ReturnToCaller ==
    /\ Running /\ Finished /\ Len(stack) > 1
    /\ cache' = [cache EXCEPT ![Caller.module] = Top.ti]
    /\ stack' = [Pop EXCEPT ![Len(stack) - 1] = Merge(Caller, Top.ti)]
    /\ UNCHANGED <<program, pool, raised, status>>

Return ==
    /\ Running /\ Finished /\ Len(stack) > 1
    /\ cache' = [cache EXCEPT ![Top.module] = Top.ti]
    /\ \/ /\ Mergeable(Caller, Top.ti)
          /\ stack' = [Pop EXCEPT ![Len(stack) - 1] = Merge(Caller, Top.ti)]
          /\ UNCHANGED raised
       \/ /\ ~Mergeable(Caller, Top.ti)
          /\ stack' = Pop
          /\ Raise("ImportError", None)
    /\ UNCHANGED <<program, pool, status>>

(* An exception leaves a nested activation: importTypes rethrows a         *)
(* CompilerError and swallows anything else, for which getTypes throws an  *)
(* ImportError that names the module.                                      *)
Unwind ==
    /\ status = "running" /\ raised # None /\ Len(stack) > 1
    /\ raised' = IF raised.kind = "CompilerError" THEN raised
                 ELSE [kind |-> "ImportError", of |-> Top.module]
    /\ stack' = Pop
    /\ UNCHANGED <<program, cache, pool, status>>

(* Mutant of Reject: main catches nothing.                                 *)
RejectUncaught ==
    /\ status = "running" /\ raised # None /\ Len(stack) = 1
    /\ status' = "crashed"
    /\ UNCHANGED <<program, stack, cache, pool, raised>>

(* main catches what is left and exits with 2.                             *)
Reject ==
    /\ status = "running" /\ raised # None /\ Len(stack) = 1
    /\ status' = "rejected"
    /\ UNCHANGED <<program, stack, cache, pool, raised>>

(* TypeInfo::resolveClasses: the fields of every class in the table of     *)
(* Main, its own and the imported ones, resolve against that table.        *)
ClassDefsOf(types) ==
    UNION {{d \in Range(program[p[2]].classes) : d.name = p[1]} : p \in types}

ResolveClasses ==
    /\ Running /\ Finished /\ Len(stack) = 1
    /\ \/ /\ \A d \in ClassDefsOf(Top.ti.types) : d.uses \subseteq Names(Top.ti.types)
          /\ status' = "accepted"
          /\ UNCHANGED raised
       \/ /\ \E d \in ClassDefsOf(Top.ti.types) : ~(d.uses \subseteq Names(Top.ti.types))
          /\ Raise("CompilerError", None)
          /\ UNCHANGED status
    /\ UNCHANGED <<program, stack, cache, pool>>

Next == \/ ImportCached \/ ImportLoad \/ Crash
        \/ DeclareClass \/ DefineFunction \/ Return
        \/ Unwind \/ Reject \/ ResolveClasses

(* One thread runs the pass and nothing blocks it.                         *)
Spec == Init /\ [][Next]_vars /\ WF_vars(Next)

-----------------------------------------------------------------------------
TypeOK ==
    /\ program \in [Modules -> Source]
    /\ stack \in Seq(Frame) /\ stack # <<>>
    /\ cache \in [Modules -> TypeInfo \cup {None}]
    /\ pool \in [Keys -> Function \cup {None}]
    /\ raised \in Errors \cup {None}
    /\ status \in {"running", "accepted", "rejected", "crashed"}

(* Every activation was made by the import statement its caller is at, and *)
(* no module on the stack has a cache entry yet: the cache alone cannot    *)
(* stop an import cycle.                                                   *)
CalledBy(callee, caller) ==
    /\ caller.imported < Len(program[caller.module].imports)
    /\ program[caller.module].imports[caller.imported + 1] = callee.module

StackIsImportPath ==
    /\ stack[1].module = Main
    /\ \A k \in 1..(Len(stack) - 1) : CalledBy(stack[k + 1], stack[k])
    /\ \A k \in DOMAIN stack : cache[stack[k].module] = None

(* What a frame fr of a file src knows when the cache is c: the imports it *)
(* has counted are cached, its table is the union of their tables and of   *)
(* its own declarations so far, and no struct name came in twice.          *)
InOrder(fr, src) ==
    /\ fr.imported <= Len(src.imports)
    /\ fr.declared <= Len(src.classes)
    /\ fr.defined <= Len(src.functions)
    /\ fr.declared > 0 => fr.imported = Len(src.imports)
    /\ fr.defined > 0 => /\ fr.imported = Len(src.imports)
                         /\ fr.declared = Len(src.classes)

ImportsAreCached(fr, src, c) == \A j \in 1..fr.imported : c[src.imports[j]] # None

TableIsUnion(fr, src, c) ==
    /\ fr.ti.types = {<<src.classes[j].name, fr.module>> : j \in 1..fr.declared}
                       \cup UNION {c[src.imports[j]].types : j \in 1..fr.imported}
    /\ fr.ti.functions = {src.functions[j].key : j \in 1..fr.defined}
                           \cup UNION {c[src.imports[j]].functions : j \in 1..fr.imported}

NoNameTwiceIn(fr, src, c) ==
    /\ \A i, j \in 1..fr.imported : i # j =>
         Names(c[src.imports[i]].types) \cap Names(c[src.imports[j]].types) = {}
    /\ \A i, j \in 1..fr.declared : i # j => src.classes[i].name # src.classes[j].name
    /\ \A i \in 1..fr.imported, j \in 1..fr.declared :
         src.classes[j].name \notin Names(c[src.imports[i]].types)

FrameInv(fr, src, c) ==
    InOrder(fr, src) /\ ImportsAreCached(fr, src, c)
      /\ TableIsUnion(fr, src, c) /\ NoNameTwiceIn(fr, src, c)

(* The inductive invariant behind the refinement of ImportOrder: it holds  *)
(* of every frame, and the stack is an import path.                        *)
LoaderInv ==
    /\ StackIsImportPath
    /\ \A k \in DOMAIN stack : FrameInv(stack[k], program[stack[k].module], cache)

(* The import paths of a program: sequences of import statements, the      *)
(* first one in Main and each other one in the module the one before it    *)
(* names.  On an acyclic path no module occurs twice.                      *)
ImportStatements == {s \in Modules \X UNION {DOMAIN program[m].imports : m \in Modules} :
                       s[2] \in DOMAIN program[s[1]].imports}

Imported(s) == program[s[1]].imports[s[2]]

End(p) == IF p = <<>> THEN Main ELSE Imported(p[Len(p)])

Connected(p) == \A k \in DOMAIN p : p[k][1] = IF k = 1 THEN Main ELSE Imported(p[k - 1])

ImportPaths == {p \in BoundedSeq(ImportStatements, Cardinality(Modules)) : Connected(p)}

(* The ways in which Main comes by a struct named c: an import path and a  *)
(* definition in the module at its end.                                    *)
Supply(c) ==
    UNION {{<<p, j>> : j \in {i \in DOMAIN program[End(p)].classes :
                                program[End(p)].classes[i].name = c}} : p \in ImportPaths}

(* A program passes the declaration pass only if every struct name comes   *)
(* to Main along one import path: a module with a struct that is imported  *)
(* twice, directly or through a diamond, is refused.  Conversely an import *)
(* error is never spurious: some struct name does come in twice, and what  *)
(* main reports names a module that Main itself imports, however deep the  *)
(* clash is (mergeMaps, importTypes).                                      *)
OnePathPerStruct ==
    /\ status = "accepted" => /\ \A n \in Reach(Main) : program[n].present
                              /\ \A c \in ClassNames : \A v, w \in Supply(c) : v = w
    /\ status = "rejected" /\ raised.kind = "ImportError" =>
          /\ \E c \in ClassNames : \E v, w \in Supply(c) : v # w
          /\ raised.of # None => raised.of \in Imports(Main)

(* The compiler process dies in this pass only on a missing file or on     *)
(* imports that form a cycle.                                              *)
CrashMeansMissingOrCyclic ==
    status = "crashed" =>
        \/ Cyclic(Main)
        \/ \E n \in Reach(Main) : ~program[n].present

(* The functions of a module reach the pool after those of what it         *)
(* imports: the module at the end of q comes before the one at the end of  *)
(* p if q turns off at an earlier import statement, or goes on where p     *)
(* ends.                                                                   *)
LoadedBefore(q, p) ==
    \/ IsStrictPrefix(p, q)
    \/ \E k \in DOMAIN p \cap DOMAIN q :
          /\ \A j \in 1..(k - 1) : q[j] = p[j]
          /\ q[k][2] < p[k][2]

(* The i-th function of the module at the end of p is the first            *)
(* declaration of its key on the way of the loader through the program.    *)
DeclaredFirst(p, i) ==
    LET fs == program[End(p)].functions
    IN  /\ \A j \in 1..(i - 1) : fs[j].key # fs[i].key
        /\ \A q \in ImportPaths : LoadedBefore(q, p) => fs[i].key \notin OwnKeys(End(q))

(* In an accepted program a call of any visible function uses the          *)
(* signature of the declaration loaded first, and the body, if Main has    *)
(* one, is the only one Main has.                                          *)
FirstDeclarationWins ==
    status = "accepted" =>
        \A key \in stack[1].ti.functions :
            LET bodies == {i \in DOMAIN program[Main].functions :
                             program[Main].functions[i].key = key
                             /\ program[Main].functions[i].body}
            IN  /\ \E p \in ImportPaths : \E i \in DOMAIN program[End(p)].functions :
                     /\ program[End(p)].functions[i].key = key
                     /\ program[End(p)].functions[i].sig = pool[key].sig
                     /\ DeclaredFirst(p, i)
                /\ bodies = IF pool[key].body = 0 THEN {} ELSE {pool[key].body}

(* A function object is shared by every table that holds its key: no step  *)
(* changes its signature, replaces its body, or alters a published table.  *)
SharedObjectsAreStable ==
    [][/\ \A m \in Modules : cache[m] # None => cache'[m] = cache[m]
       /\ \A key \in Keys : pool[key] # None =>
            /\ pool'[key] # None
            /\ pool'[key].sig = pool[key].sig
            /\ pool[key].body # 0 => pool'[key] = pool[key]]_vars

(* The pass ends, whatever the program: by a result or by a crash.         *)
Terminates == <>(status # "running")

(* Seen from outside, modules are published in dependency order.           *)
Outcome == CASE status = "running"  -> "running"
             [] status = "accepted" -> "accepted"
             [] OTHER               -> "failed"

Order == INSTANCE ImportOrder WITH exports <- cache, outcome <- Outcome

ImplementsImportOrder == Order!Spec

(* What ImportOrder promises, of the loader: a cached table holds exactly  *)
(* the declarations of the modules reached from it, and no program with an *)
(* import cycle is accepted (getTypes, merge).                             *)
ExportsAreReachableDeclarations == Order!ExportsAreReachableDeclarations

AcceptedMeansAcyclic == Order!AcceptedMeansAcyclic
=============================================================================
