------------------------- MODULE ModuleImportProofs -------------------------
(***************************************************************************)
(* Proofs about ModuleImport, for every set of modules, struct names, keys *)
(* and source trees, and every stack limit.                                *)
(***************************************************************************)
EXTENDS ModuleImport, Induction, FiniteSetTheorems, TLAPS

(* What the type invariant needs to know about a source tree.              *)
LEMMA SourceTyping ==
    ASSUME program \in [Modules -> Source], NEW m \in Modules
    PROVE  /\ program[m].imports \in Seq(Modules)
           /\ program[m].classes \in Seq(ClassDef)
           /\ program[m].functions \in Seq(FunctionDef)
BY DEF Source

LEMMA BelowTop ==
    ASSUME NEW n \in Nat \ {0}, NEW k \in 1..(n - 1)
    PROVE  k \in 1..n /\ k + 1 \in 1..n /\ k # n
OBVIOUS

LEMMA NotTop ==
    /\ \A n \in Nat \ {0} : \A k \in 1..n : k # n => k \in 1..(n - 1)
    /\ \A n \in Nat \ {0} : \A k \in 1..(n - 1) : k # n - 1 => k \in 1..(n - 2)
    /\ \A i, n \in Nat : i < n => i + 1 \in 1..n
    /\ \A n \in Nat : n > 1 => n - 1 \in 1..(n - 1)
    /\ \A n \in Nat : \A k \in 1..(n - 2) : k \in 1..(n - 1) /\ k # n - 1
OBVIOUS

LEMMA NextElement ==
    ASSUME NEW S, NEW s \in Seq(S), NEW n \in Nat, n < Len(s)
    PROVE  s[n + 1] \in S
OBVIOUS

LEMMA TopTyping ==
    ASSUME TypeOK
    PROVE  /\ Len(stack) \in Nat \ {0}
           /\ Top \in Frame
           /\ Top.module \in Modules
           /\ Top.imported \in Nat /\ Top.declared \in Nat /\ Top.defined \in Nat
           /\ Top.ti \in TypeInfo
           /\ Pop \in Seq(Frame)
           /\ \A fr \in Frame : ReplaceTop(fr) \in Seq(Frame) /\ ReplaceTop(fr) # <<>>
           /\ Len(stack) > 1 => Pop # <<>> /\ Caller \in Frame
<1>1. Len(stack) \in Nat \ {0} /\ stack \in Seq(Frame)
  BY DEF TypeOK
<1>2. Top \in Frame
  BY <1>1 DEF Top
<1>3. Pop \in Seq(Frame) /\ Len(Pop) = Len(stack) - 1
  BY <1>1 DEF Pop
<1>4. \A fr \in Frame : ReplaceTop(fr) \in Seq(Frame) /\ ReplaceTop(fr) # <<>>
  BY <1>1 DEF ReplaceTop
<1>5. Len(stack) > 1 => Pop # <<>> /\ Caller \in Frame
  BY <1>1, <1>3 DEF Caller
<1> QED BY <1>1, <1>2, <1>3, <1>4, <1>5 DEF Frame

LEMMA EnterTyping == ASSUME NEW m \in Modules PROVE Enter(m) \in Frame
BY DEF Enter, Frame, TypeInfo

LEMMA FrameUpdates ==
    ASSUME NEW fr \in Frame
    PROVE  /\ \A other \in TypeInfo : Merge(fr, other) \in Frame
           /\ \A name \in ClassNames : WithClass(fr, name) \in Frame
           /\ \A key \in Keys : WithFunction(fr, key) \in Frame
BY DEF Merge, WithClass, WithFunction, Frame, TypeInfo

-----------------------------------------------------------------------------
(* Type correctness.                                                       *)
LEMMA TypeInit == Init => TypeOK
<1> SUFFICES ASSUME Init PROVE TypeOK
  OBVIOUS
<1>1. Enter(Main) \in Frame
  BY MainAssumption, EnterTyping
<1> QED BY <1>1, ProgramsAssumption DEF Init, TypeOK

LEMMA ImportTyping ==
    ASSUME TypeOK, AtImport
    PROVE  /\ NextImport \in Modules
           /\ cache[NextImport] # None => cache[NextImport] \in TypeInfo
<1>1. TopSource.imports \in Seq(Modules)
  BY TopTyping, SourceTyping DEF TypeOK, TopSource
<1>2. NextImport \in Modules
  BY <1>1, TopTyping, NextElement DEF AtImport, NextImport
<1> QED BY <1>2 DEF TypeOK

LEMMA TypeStep == TypeOK /\ [Next]_vars => TypeOK'
<1> SUFFICES ASSUME TypeOK, [Next]_vars PROVE TypeOK'
  OBVIOUS
<1> USE DEF TypeOK
<1>0. \A k \in {"ImportError", "CompilerError"}, m \in Modules \cup {None} :
        [kind |-> k, of |-> m] \in Errors
  BY DEF Errors
<1>1. CASE ImportCached
  BY <1>0, <1>1, ImportTyping, FrameUpdates, TopTyping DEF ImportCached, Raise
<1>2. CASE ImportLoad
  <2>1. Enter(NextImport) \in Frame
    BY <1>2, ImportTyping, EnterTyping DEF ImportLoad
  <2> QED BY <1>2, <2>1 DEF ImportLoad
<1>3. CASE Crash
  BY <1>3 DEF Crash
<1>4. CASE DeclareClass
  <2> DEFINE def == TopSource.classes[Top.declared + 1]
  <2>1. def.name \in ClassNames
    <3>1. TopSource.classes \in Seq(ClassDef)
      BY TopTyping, SourceTyping DEF TopSource
    <3>2. def \in ClassDef
      BY <1>4, <3>1, TopTyping, NextElement DEF DeclareClass, AtClass
    <3> QED BY <3>2 DEF ClassDef
  <2>2. WithClass(Top, def.name) \in Frame
    BY <2>1, TopTyping, FrameUpdates
  <2> QED BY <1>0, <1>4, <2>2, TopTyping DEF DeclareClass, Raise
<1>5. CASE DefineFunction
  <2> DEFINE i == Top.defined + 1
             def == TopSource.functions[i]
             b == Body(def, i)
  <2>1. def \in FunctionDef /\ i \in Nat
    <3>1. TopSource.functions \in Seq(FunctionDef)
      BY TopTyping, SourceTyping DEF TopSource
    <3>2. AtFunction
      BY <1>5 DEF DefineFunction
    <3>3. Top.defined \in Nat /\ Top.defined < Len(TopSource.functions)
      BY <3>2, TopTyping DEF AtFunction
    <3> QED BY <3>1, <3>3, NextElement
  <2>2. def.key \in Keys /\ def.sig \in Sigs /\ b \in Nat
    BY <2>1 DEF FunctionDef, Body
  <2>3. WithFunction(Top, def.key) \in Frame
    BY <2>2, TopTyping, FrameUpdates
  <2>4. Pooled(def, b) \in Function
    BY <2>2 DEF Pooled, Function
  <2>5. [pool EXCEPT ![def.key] = Pooled(def, b)] \in [Keys -> Function \cup {None}]
    BY <2>4
  <2> QED BY <1>0, <1>5, <2>3, <2>5, TopTyping DEF DefineFunction, Raise
<1>6. CASE Return
  <2>1. Top.module \in Modules /\ Top.ti \in TypeInfo
    BY TopTyping
  <2>2. cache' \in [Modules -> TypeInfo \cup {None}]
    BY <1>6, <2>1 DEF Return
  <2>3. stack' \in Seq(Frame) /\ stack' # <<>>
    <3>1. Merge(Caller, Top.ti) \in Frame
      BY <1>6, <2>1, TopTyping, FrameUpdates DEF Return
    <3>2. Pop \in Seq(Frame) /\ Pop # <<>>
      BY <1>6, TopTyping DEF Return
    <3> QED BY <1>6, <3>1, <3>2 DEF Return
  <2> QED BY <1>0, <1>6, <2>2, <2>3 DEF Return, Raise
<1>7. CASE Unwind
  BY <1>0, <1>7, TopTyping DEF Unwind
<1>8. CASE Reject
  BY <1>8 DEF Reject
<1>9. CASE ResolveClasses
  BY <1>0, <1>9 DEF ResolveClasses, Raise
<1>10. CASE UNCHANGED vars
  BY <1>10 DEF vars
<1> QED BY <1>1, <1>2, <1>3, <1>4, <1>5, <1>6, <1>7, <1>8, <1>9, <1>10 DEF Next

(* Every state of the pass is well typed.                                  *)
THEOREM TypeCorrect == Spec => []TypeOK
BY TypeInit, TypeStep, PTL DEF Spec

-----------------------------------------------------------------------------
(* What one step of a frame does to its invariant.                         *)
LEMMA NameOfEntry == \A types, x, m : <<x, m>> \in types => x \in Names(types)
<1> TAKE types, x, m
<1> HAVE <<x, m>> \in types
<1>1. <<x, m>>[1] = x
  OBVIOUS
<1> QED BY <1>1 DEF Names

LEMMA FrameStable ==
    ASSUME NEW fr, NEW src, NEW c, NEW d, FrameInv(fr, src, c),
           \A j \in 1..fr.imported : d[src.imports[j]] = c[src.imports[j]]
    PROVE  FrameInv(fr, src, d)
<1>1. InOrder(fr, src) /\ ImportsAreCached(fr, src, d)
  BY DEF FrameInv, ImportsAreCached
<1>2. TableIsUnion(fr, src, d)
  BY DEF FrameInv, TableIsUnion
<1>3. NoNameTwiceIn(fr, src, d)
  BY DEF FrameInv, NoNameTwiceIn
<1> QED BY <1>1, <1>2, <1>3 DEF FrameInv

LEMMA EnterFrame ==
    ASSUME NEW m \in Modules, NEW src \in Source, NEW c
    PROVE  FrameInv(Enter(m), src, c)
<1>1. /\ Enter(m).imported = 0 /\ Enter(m).declared = 0 /\ Enter(m).defined = 0
      /\ Enter(m).ti.types = {} /\ Enter(m).ti.functions = {}
  BY DEF Enter
<1>2. Len(src.imports) \in Nat /\ Len(src.classes) \in Nat /\ Len(src.functions) \in Nat
  BY DEF Source
<1>3. InOrder(Enter(m), src)
  BY <1>1, <1>2 DEF InOrder
<1> QED BY <1>1, <1>3 DEF FrameInv, ImportsAreCached, TableIsUnion, NoNameTwiceIn

LEMMA MergeFrame ==
    ASSUME NEW fr \in Frame, NEW src \in Source, NEW c, FrameInv(fr, src, c),
           fr.imported < Len(src.imports),
           NEW other \in TypeInfo, c[src.imports[fr.imported + 1]] = other,
           Mergeable(fr, other)
    PROVE  FrameInv(Merge(fr, other), src, c)
<1> DEFINE n == fr.imported
           new == Merge(fr, other)
<1>1. /\ n \in Nat /\ fr.declared = 0 /\ fr.defined = 0
      /\ Len(src.imports) \in Nat
  BY DEF Frame, Source, FrameInv, InOrder
<1>2. /\ new.imported = n + 1 /\ new.declared = 0 /\ new.defined = 0
      /\ new.ti.types = fr.ti.types \cup other.types
      /\ new.ti.functions = fr.ti.functions \cup other.functions
  BY <1>1 DEF Merge
<1>3. 1..(n + 1) = 1..n \cup {n + 1}
  BY <1>1
<1>4. /\ fr.ti.types = UNION {c[src.imports[j]].types : j \in 1..n}
      /\ fr.ti.functions = UNION {c[src.imports[j]].functions : j \in 1..n}
  BY <1>1 DEF FrameInv, TableIsUnion
<1>5. InOrder(new, src)
  BY <1>1, <1>2 DEF InOrder, FrameInv
<1>6. ImportsAreCached(new, src, c)
  BY <1>2, <1>3, NoneAssumption DEF ImportsAreCached, FrameInv
<1>7. TableIsUnion(new, src, c)
  BY <1>2, <1>3, <1>4 DEF TableIsUnion
<1>8. NoNameTwiceIn(new, src, c)
  <2>1. \A j \in 1..n : Names(c[src.imports[j]].types) \cap Names(other.types) = {}
    BY <1>4 DEF Mergeable, Names
  <2>2. \A i, j \in 1..n : i # j =>
          Names(c[src.imports[i]].types) \cap Names(c[src.imports[j]].types) = {}
    BY DEF FrameInv, NoNameTwiceIn
  <2>3. \A i, j \in 1..(n + 1) : i # j =>
          Names(c[src.imports[i]].types) \cap Names(c[src.imports[j]].types) = {}
    BY <1>3, <2>1, <2>2
  <2>4. 1..new.declared = {} /\ 1..new.imported = 1..(n + 1)
    BY <1>2
  <2> HIDE DEF new, n
  <2> QED BY <2>3, <2>4 DEF NoNameTwiceIn
<1> QED BY <1>5, <1>6, <1>7, <1>8 DEF FrameInv

LEMMA ClassFrame ==
    ASSUME NEW fr \in Frame, NEW src \in Source, NEW c, FrameInv(fr, src, c),
           ~(fr.imported < Len(src.imports)), fr.declared < Len(src.classes),
           NEW name, name = src.classes[fr.declared + 1].name,
           name \notin Names(fr.ti.types)
    PROVE  FrameInv(WithClass(fr, name), src, c)
<1> DEFINE n == fr.declared
           new == WithClass(fr, name)
<1>1. /\ n \in Nat /\ fr.imported = Len(src.imports) /\ fr.defined = 0
      /\ Len(src.classes) \in Nat
  BY DEF Frame, Source, FrameInv, InOrder
<1>2. /\ new.imported = fr.imported /\ new.declared = n + 1 /\ new.defined = 0
      /\ new.module = fr.module
      /\ new.ti.types = fr.ti.types \cup {<<name, fr.module>>}
      /\ new.ti.functions = fr.ti.functions
  BY <1>1 DEF WithClass
<1>3. 1..(n + 1) = 1..n \cup {n + 1}
  BY <1>1
<1>4. /\ fr.ti.types = {<<src.classes[j].name, fr.module>> : j \in 1..n}
                         \cup UNION {c[src.imports[j]].types : j \in 1..fr.imported}
      /\ fr.ti.functions = {src.functions[j].key : j \in 1..fr.defined}
                             \cup UNION {c[src.imports[j]].functions : j \in 1..fr.imported}
  BY DEF FrameInv, TableIsUnion
<1>5. InOrder(new, src)
  BY <1>1, <1>2 DEF InOrder, FrameInv
<1>6. ImportsAreCached(new, src, c)
  BY <1>2 DEF ImportsAreCached, FrameInv
<1>7. TableIsUnion(new, src, c)
  <2>1. {<<src.classes[j].name, fr.module>> : j \in 1..(n + 1)}
          = {<<src.classes[j].name, fr.module>> : j \in 1..n} \cup {<<name, fr.module>>}
    BY <1>3
  <2> HIDE DEF new
  <2> QED BY <1>1, <1>2, <1>4, <2>1 DEF TableIsUnion
<1>8. NoNameTwiceIn(new, src, c)
  <2>1. ASSUME NEW j \in 1..n PROVE src.classes[j].name # name
    <3>1. <<src.classes[j].name, fr.module>> \in fr.ti.types
      BY <1>4
    <3>2. src.classes[j].name \in Names(fr.ti.types)
      BY <3>1, NameOfEntry
    <3> QED BY <3>2
  <2>2. \A i \in 1..fr.imported : name \notin Names(c[src.imports[i]].types)
    BY <1>4 DEF Names
  <2>3. NoNameTwiceIn(fr, src, c)
    BY DEF FrameInv
  <2>4. \A i, j \in 1..(n + 1) : i # j => src.classes[i].name # src.classes[j].name
    BY <1>3, <2>1, <2>3 DEF NoNameTwiceIn
  <2>5. \A i \in 1..fr.imported, j \in 1..(n + 1) :
          src.classes[j].name \notin Names(c[src.imports[i]].types)
    BY <1>3, <2>2, <2>3 DEF NoNameTwiceIn
  <2> HIDE DEF new
  <2> QED BY <1>2, <2>3, <2>4, <2>5 DEF NoNameTwiceIn
<1> QED BY <1>5, <1>6, <1>7, <1>8 DEF FrameInv

LEMMA FunctionFrame ==
    ASSUME NEW fr \in Frame, NEW src \in Source, NEW c, FrameInv(fr, src, c),
           ~(fr.imported < Len(src.imports)), ~(fr.declared < Len(src.classes)),
           fr.defined < Len(src.functions),
           NEW key, key = src.functions[fr.defined + 1].key
    PROVE  FrameInv(WithFunction(fr, key), src, c)
<1> DEFINE n == fr.defined
           new == WithFunction(fr, key)
<1>1. /\ n \in Nat /\ fr.imported = Len(src.imports) /\ fr.declared = Len(src.classes)
      /\ Len(src.functions) \in Nat
  BY DEF Frame, Source, FrameInv, InOrder
<1>2. /\ new.imported = fr.imported /\ new.declared = fr.declared /\ new.defined = n + 1
      /\ new.module = fr.module
      /\ new.ti.types = fr.ti.types
      /\ new.ti.functions = fr.ti.functions \cup {key}
  BY <1>1 DEF WithFunction
<1>3. {src.functions[j].key : j \in 1..(n + 1)}
        = {src.functions[j].key : j \in 1..n} \cup {key}
  <2>1. 1..(n + 1) = 1..n \cup {n + 1}
    BY <1>1
  <2> QED BY <2>1
<1>3a. /\ fr.ti.types = {<<src.classes[j].name, fr.module>> : j \in 1..fr.declared}
                           \cup UNION {c[src.imports[j]].types : j \in 1..fr.imported}
       /\ fr.ti.functions = {src.functions[j].key : j \in 1..n}
                              \cup UNION {c[src.imports[j]].functions : j \in 1..fr.imported}
  BY DEF FrameInv, TableIsUnion
<1> HIDE DEF new
<1>4. InOrder(new, src)
  BY <1>1, <1>2 DEF InOrder, FrameInv
<1>5. ImportsAreCached(new, src, c)
  BY <1>2 DEF ImportsAreCached, FrameInv
<1>6. TableIsUnion(new, src, c)
  <2>1. new.ti.types = {<<src.classes[j].name, new.module>> : j \in 1..new.declared}
                         \cup UNION {c[src.imports[j]].types : j \in 1..new.imported}
    BY <1>2, <1>3a
  <2>2. new.ti.functions = {src.functions[j].key : j \in 1..(n + 1)}
                             \cup UNION {c[src.imports[j]].functions : j \in 1..fr.imported}
    BY <1>2, <1>3, <1>3a
  <2>3. new.ti.functions = {src.functions[j].key : j \in 1..new.defined}
                             \cup UNION {c[src.imports[j]].functions : j \in 1..new.imported}
    BY <1>2, <2>2
  <2> QED BY <2>1, <2>3 DEF TableIsUnion
<1>7. NoNameTwiceIn(new, src, c)
  BY <1>2 DEF NoNameTwiceIn, FrameInv
<1> QED BY <1>4, <1>5, <1>6, <1>7 DEF FrameInv, new

-----------------------------------------------------------------------------
(* LoaderInv is inductive.  One lemma for each thing a step does to the    *)
(* stack, then one case for each action.                                   *)
LEMMA LoaderInit == Init => LoaderInv
<1> SUFFICES ASSUME Init PROVE LoaderInv
  OBVIOUS
<1>1. program[Main] \in Source
  BY MainAssumption, ProgramsAssumption DEF Init
<1>2. FrameInv(Enter(Main), program[Main], cache)
  BY <1>1, MainAssumption, EnterFrame
<1>3. Enter(Main).module = Main
  BY DEF Enter
<1>4. stack = <<Enter(Main)>> /\ Len(stack) = 1 /\ cache[Main] = None
  BY MainAssumption DEF Init
<1> QED BY <1>2, <1>3, <1>4 DEF LoaderInv, StackIsImportPath

LEMMA StackFacts ==
    ASSUME TypeOK, LoaderInv
    PROVE  /\ \A k \in DOMAIN stack : /\ stack[k] \in Frame
                                      /\ stack[k].module \in Modules
                                      /\ program[stack[k].module] \in Source
                                      /\ FrameInv(stack[k], program[stack[k].module], cache)
           /\ Len(stack) \in Nat \ {0} /\ DOMAIN stack = 1..Len(stack)
           /\ Len(stack) \in DOMAIN stack
           /\ TopSource \in Source
           /\ FrameInv(Top, TopSource, cache)
<1>1. stack \in Seq(Frame) /\ Len(stack) \in Nat \ {0}
  BY DEF TypeOK
<1>2. DOMAIN stack = 1..Len(stack) /\ Len(stack) \in DOMAIN stack
  BY <1>1
<1>3. \A k \in DOMAIN stack : stack[k] \in Frame /\ stack[k].module \in Modules
  <2>1. \A k \in DOMAIN stack : stack[k] \in Frame
    BY <1>1, <1>2
  <2>2. \A fr \in Frame : fr.module \in Modules
    BY DEF Frame
  <2> QED BY <2>1, <2>2
<1>4. \A m \in Modules : program[m] \in Source
  BY ProgramsAssumption DEF TypeOK
<1> QED BY <1>1, <1>2, <1>3, <1>4 DEF LoaderInv, Top, TopSource

LEMMA ReplaceTopKeepsInv ==
    ASSUME TypeOK, LoaderInv, NEW fr \in Frame, fr.module = Top.module,
           FrameInv(fr, TopSource, cache),
           stack' = ReplaceTop(fr), program' = program, cache' = cache
    PROVE  LoaderInv'
<1>1. /\ Len(stack') = Len(stack) /\ DOMAIN stack' = DOMAIN stack
      /\ stack'[Len(stack)] = fr
      /\ \A k \in DOMAIN stack : k # Len(stack) => stack'[k] = stack[k]
  BY StackFacts DEF ReplaceTop, TypeOK
<1>2. \A k \in DOMAIN stack : stack'[k].module = stack[k].module
  BY <1>1 DEF Top
<1>3. StackIsImportPath'
  <2>1. \A k \in 1..(Len(stack) - 1) : CalledBy(stack[k + 1], stack[k])
    BY DEF LoaderInv, StackIsImportPath
  <2>2. ASSUME NEW k \in 1..(Len(stack') - 1)
        PROVE  CalledBy(stack[k + 1], stack[k])'
    <3>1. k \in DOMAIN stack /\ k + 1 \in DOMAIN stack /\ k # Len(stack)
      <4>1. Len(stack) \in Nat \ {0} /\ DOMAIN stack = 1..Len(stack)
        BY StackFacts
      <4>2. k \in 1..(Len(stack) - 1)
        BY <1>1
      <4> QED BY <4>1, <4>2, BelowTop
    <3>2. CalledBy(stack[k + 1], stack[k])
      BY <1>1, <2>1
    <3> QED BY <1>1, <1>2, <3>1, <3>2 DEF CalledBy
  <2>3. 1 \in DOMAIN stack
    BY StackFacts
  <2> QED BY <1>1, <1>2, <2>2, <2>3 DEF LoaderInv, StackIsImportPath
<1>4. ASSUME NEW k \in DOMAIN stack'
      PROVE  FrameInv(stack[k], program[stack[k].module], cache)'
  <2>1. CASE k = Len(stack)
    BY <1>1, <1>2, <2>1 DEF TopSource, Top
  <2>2. CASE k # Len(stack)
    BY <1>1, <2>2, StackFacts
  <2> QED BY <2>1, <2>2
<1> QED BY <1>3, <1>4 DEF LoaderInv

LEMMA PopKeepsInv ==
    ASSUME TypeOK, LoaderInv, Len(stack) > 1,
           stack' = Pop, program' = program, cache' = cache
    PROVE  LoaderInv'
<1>1. /\ Len(stack) \in Nat \ {0} /\ DOMAIN stack = 1..Len(stack)
      /\ Len(stack') = Len(stack) - 1 /\ DOMAIN stack' = 1..(Len(stack) - 1)
      /\ \A k \in 1..(Len(stack) - 1) : stack'[k] = stack[k] /\ k \in DOMAIN stack
  BY StackFacts DEF Pop, TypeOK
<1>2. StackIsImportPath'
  <2>1. \A k \in 1..(Len(stack) - 1) : CalledBy(stack[k + 1], stack[k])
    BY DEF LoaderInv, StackIsImportPath
  <2>2. ASSUME NEW k \in 1..(Len(stack') - 1)
        PROVE  CalledBy(stack[k + 1], stack[k])'
    <3>1. k \in 1..(Len(stack) - 1) /\ k + 1 \in 1..(Len(stack) - 1)
      BY <1>1
    <3> QED BY <1>1, <2>1, <3>1 DEF CalledBy
  <2>3. (stack[1].module = Main)'
    <3>1. 1 \in 1..(Len(stack) - 1)
      BY <1>1
    <3> QED BY <1>1, <3>1 DEF LoaderInv, StackIsImportPath
  <2>4. ASSUME NEW k \in DOMAIN stack'
        PROVE  (cache[stack[k].module] = None)'
    BY <1>1 DEF LoaderInv, StackIsImportPath
  <2> QED BY <2>2, <2>3, <2>4 DEF StackIsImportPath
<1>3. ASSUME NEW k \in DOMAIN stack'
      PROVE  FrameInv(stack[k], program[stack[k].module], cache)'
  BY <1>1, StackFacts
<1> QED BY <1>2, <1>3 DEF LoaderInv

LEMMA PushKeepsInv ==
    ASSUME TypeOK, LoaderInv, AtImport, cache[NextImport] = None,
           stack' = Append(stack, Enter(NextImport)), program' = program, cache' = cache
    PROVE  LoaderInv'
<1> DEFINE n == Len(stack)
           new == Enter(NextImport)
<1>1. NextImport \in Modules /\ new \in Frame /\ new.module = NextImport
  BY ImportTyping, EnterTyping DEF Enter
<1>2. /\ n \in Nat \ {0} /\ DOMAIN stack = 1..n
      /\ Len(stack') = n + 1 /\ DOMAIN stack' = 1..(n + 1)
      /\ stack'[n + 1] = new
      /\ \A k \in 1..n : stack'[k] = stack[k]
  BY <1>1, StackFacts DEF TypeOK
<1>3. StackIsImportPath'
  <2>1. /\ \A k \in 1..(n - 1) : CalledBy(stack[k + 1], stack[k])
        /\ \A k \in DOMAIN stack : cache[stack[k].module] = None
        /\ stack[1].module = Main
    BY DEF LoaderInv, StackIsImportPath
  <2>2. ASSUME NEW k \in 1..(Len(stack') - 1)
        PROVE  CalledBy(stack[k + 1], stack[k])'
    <3>1. CASE k = n
      BY <1>1, <1>2, <3>1 DEF CalledBy, AtImport, NextImport, Top, TopSource
    <3>2. CASE k # n
      <4>1. k \in 1..(n - 1) /\ k \in 1..n /\ k + 1 \in 1..n
        <5>1. Len(stack') - 1 = n
          BY <1>2
        <5>2. k \in 1..n
          BY <5>1
        <5>3. k \in 1..(n - 1)
          BY <1>2, <3>2, <5>2, NotTop
        <5> QED BY <1>2, <5>3, BelowTop
      <4>2. CalledBy(stack[k + 1], stack[k])
        BY <2>1, <4>1
      <4> QED BY <1>2, <4>1, <4>2 DEF CalledBy
    <3> QED BY <3>1, <3>2
  <2>3. ASSUME NEW k \in DOMAIN stack'
        PROVE  (cache[stack[k].module] = None)'
    <3>1. CASE k = n + 1
      BY <1>1, <1>2, <3>1
    <3>2. CASE k \in 1..n
      BY <1>2, <2>1, <3>2
    <3> QED BY <1>2, <3>1, <3>2
  <2>4. (stack[1].module = Main)'
    BY <1>2, <2>1
  <2> QED BY <2>2, <2>3, <2>4 DEF StackIsImportPath
<1>4. ASSUME NEW k \in DOMAIN stack'
      PROVE  FrameInv(stack[k], program[stack[k].module], cache)'
  <2>1. CASE k = n + 1
    <3>1. program[NextImport] \in Source
      BY <1>1, ProgramsAssumption DEF TypeOK
    <3>2. FrameInv(new, program[NextImport], cache)
      BY <1>1, <3>1, EnterFrame
    <3> QED BY <1>1, <1>2, <2>1, <3>2
  <2>2. CASE k \in 1..n
    BY <1>2, <2>2, StackFacts
  <2> QED BY <1>2, <2>1, <2>2
<1> QED BY <1>3, <1>4 DEF LoaderInv

(* The module that returns has no entry and is not waited for below it.    *)
(* If it were on the stack twice, the lower activation would be at an      *)
(* import that is not cached, while the one that returns has all its       *)
(* imports cached.                                                         *)
LEMMA ReturningModuleIsOnce ==
    ASSUME TypeOK, LoaderInv, Finished, Len(stack) > 1
    PROVE  /\ cache[Top.module] = None
           /\ \A k \in 1..(Len(stack) - 1) : stack[k].module # Top.module
<1> DEFINE n == Len(stack)
<1>1. n \in Nat \ {0} /\ DOMAIN stack = 1..n /\ n \in DOMAIN stack /\ Top = stack[n]
  BY StackFacts DEF Top
<1>2. \A k \in DOMAIN stack : cache[stack[k].module] = None
  BY DEF LoaderInv, StackIsImportPath
<1>3. ASSUME NEW k \in 1..(n - 1), stack[k].module = Top.module
      PROVE  FALSE
  <2>1. k \in 1..n /\ k + 1 \in 1..n
    BY <1>1, BelowTop
  <2>2. CalledBy(stack[k + 1], stack[k])
    BY DEF LoaderInv, StackIsImportPath
  <2> DEFINE j == stack[k].imported + 1
  <2>3. cache[TopSource.imports[j]] = None
    BY <1>1, <1>2, <1>3, <2>1, <2>2 DEF CalledBy, TopSource
  <2>4. stack[k].imported \in Nat /\ stack[k].imported < Len(TopSource.imports)
    BY <1>1, <1>3, <2>1, <2>2, StackFacts DEF CalledBy, TopSource, Frame
  <2>5. Top.imported = Len(TopSource.imports)
    <3>1. ~(Top.imported < Len(TopSource.imports))
      BY DEF Finished, AtImport
    <3>2. Top.imported <= Len(TopSource.imports)
      BY StackFacts DEF FrameInv, InOrder
    <3>3. Top.imported \in Nat /\ Len(TopSource.imports) \in Nat
      BY StackFacts, TopTyping DEF Source
    <3> QED BY <3>1, <3>2, <3>3
  <2>6. j \in 1..Top.imported
    <3>1. stack[k].imported \in Nat /\ Top.imported \in Nat /\ stack[k].imported < Top.imported
      BY <2>4, <2>5, TopTyping
    <3> QED BY <3>1, NotTop
  <2>7. cache[TopSource.imports[j]] # None
    BY <2>6, StackFacts DEF FrameInv, ImportsAreCached
  <2> QED BY <2>3, <2>7
<1> QED BY <1>1, <1>2, <1>3

(* A step that fills the entry of a module outside a frame's imports       *)
(* leaves the frame's invariant alone.                                     *)
LEMMA ReturnKeepsFrames ==
    ASSUME TypeOK, LoaderInv, Finished, Len(stack) > 1,
           NEW d, d = [cache EXCEPT ![Top.module] = Top.ti],
           NEW k \in DOMAIN stack
    PROVE  FrameInv(stack[k], program[stack[k].module], d)
<1> DEFINE src == program[stack[k].module]
<1>1. /\ stack[k] \in Frame /\ src \in Source /\ FrameInv(stack[k], src, cache)
      /\ cache[Top.module] = None /\ Top.module \in Modules
      /\ cache \in [Modules -> TypeInfo \cup {None}]
  BY StackFacts, ReturningModuleIsOnce, TopTyping DEF TypeOK
<1>2. ASSUME NEW j \in 1..stack[k].imported
      PROVE  d[src.imports[j]] = cache[src.imports[j]]
  <2>1. cache[src.imports[j]] # None
    BY <1>1 DEF FrameInv, ImportsAreCached
  <2>2. src.imports[j] \in Modules
    <3>1. src.imports \in Seq(Modules)
      BY <1>1 DEF Source
    <3>2. stack[k].imported \in Nat /\ stack[k].imported <= Len(src.imports)
      BY <1>1 DEF FrameInv, InOrder, Frame
    <3> QED BY <3>1, <3>2
  <2> QED BY <1>1, <2>1, <2>2
<1>2a. \A j \in 1..stack[k].imported : d[src.imports[j]] = cache[src.imports[j]]
  BY <1>2
<1> DEFINE fr == stack[k]
<1>3. FrameInv(fr, src, cache) /\ \A j \in 1..fr.imported : d[src.imports[j]] = cache[src.imports[j]]
  BY <1>1, <1>2a
<1> HIDE DEF src, fr
<1>4. FrameInv(fr, src, d)
  BY <1>3, FrameStable
<1> QED BY <1>4 DEF src, fr

LEMMA ReturnKeepsInv ==
    ASSUME TypeOK, LoaderInv, Return
    PROVE  LoaderInv'
<1> DEFINE n == Len(stack)
<1>1. /\ Finished /\ n > 1 /\ program' = program
      /\ cache' = [cache EXCEPT ![Top.module] = Top.ti]
  BY DEF Return
<1>2. n \in Nat \ {0} /\ DOMAIN stack = 1..n
  BY StackFacts
<1>3. \A k \in DOMAIN stack : FrameInv(stack[k], program[stack[k].module], cache')
  BY <1>1, ReturnKeepsFrames
<1>4. \A k \in 1..(n - 1) : cache'[stack[k].module] = None
  <2>1. \A k \in 1..(n - 1) : /\ stack[k].module # Top.module
                              /\ stack[k].module \in Modules
                              /\ cache[stack[k].module] = None
    <3> TAKE k \in 1..(n - 1)
    <3>1. k \in DOMAIN stack
      BY <1>2, BelowTop
    <3> QED BY <1>1, <3>1, StackFacts, ReturningModuleIsOnce DEF LoaderInv, StackIsImportPath
  <2> QED BY <1>1, <2>1 DEF TypeOK
<1>5. \A k \in 1..(n - 2) : CalledBy(stack[k + 1], stack[k])
  <2> TAKE k \in 1..(n - 2)
  <2>1. k \in 1..(n - 1)
    BY <1>2
  <2> QED BY <2>1 DEF LoaderInv, StackIsImportPath
<1>6. stack[1].module = Main
  BY DEF LoaderInv, StackIsImportPath
<1>7. /\ Len(stack') = n - 1 /\ DOMAIN stack' = 1..(n - 1)
      /\ \A k \in 1..(n - 2) : stack'[k] = stack[k]
      /\ \/ stack'[n - 1] = stack[n - 1]
         \/ stack'[n - 1] = Merge(Caller, Top.ti) /\ Mergeable(Caller, Top.ti)
  <2>1. /\ Len(Pop) = n - 1 /\ DOMAIN Pop = 1..(n - 1)
        /\ \A k \in 1..(n - 1) : Pop[k] = stack[k]
    BY <1>1, <1>2 DEF Pop
  <2>2. n - 1 \in 1..(n - 1) /\ \A k \in 1..(n - 2) : k \in 1..(n - 1) /\ k # n - 1
    BY <1>1, <1>2, NotTop
  <2>3. CASE stack' = Pop
    BY <2>1, <2>2, <2>3
  <2>4. CASE /\ stack' = [Pop EXCEPT ![n - 1] = Merge(Caller, Top.ti)]
             /\ Mergeable(Caller, Top.ti)
    <3> DEFINE p == Pop
               fr == Merge(Caller, Top.ti)
    <3>1. Len(p) = n - 1 /\ p \in Seq(Frame) /\ stack' = [p EXCEPT ![n - 1] = fr]
      BY <2>1, <2>4, TopTyping
    <3> HIDE DEF p, fr
    <3>2. DOMAIN stack' = DOMAIN p /\ Len(stack') = Len(p)
      BY <3>1
    <3>3. stack'[n - 1] = fr /\ \A k \in DOMAIN p : k # n - 1 => stack'[k] = p[k]
      BY <2>1, <2>2, <3>1 DEF p
    <3> QED BY <2>1, <2>2, <2>4, <3>1, <3>2, <3>3 DEF p, fr
  <2> QED BY <2>3, <2>4 DEF Return
<1>8. /\ n - 1 \in 1..n /\ Caller = stack[n - 1] /\ Top = stack[n]
      /\ CalledBy(Top, Caller)
  <2>1. n - 1 \in 1..(n - 1) /\ (n - 1) + 1 = n
    BY <1>1, <1>2
  <2>2. CalledBy(stack[(n - 1) + 1], stack[n - 1])
    BY <2>1 DEF LoaderInv, StackIsImportPath
  <2> QED BY <1>2, <2>1, <2>2 DEF Caller, Top
<1>9. \A k \in 1..(n - 1) : stack'[k].module = stack[k].module
  <2>1. Merge(Caller, Top.ti).module = Caller.module
    BY DEF Merge
  <2>2. stack'[n - 1].module = stack[n - 1].module
    BY <1>7, <1>8, <2>1
  <2>3. \A k \in 1..(n - 1) : k \in 1..(n - 2) \/ k = n - 1
    BY <1>2, NotTop
  <2> QED BY <1>7, <2>2, <2>3
<1>10. StackIsImportPath'
  <2>1. 1 \in 1..(n - 1)
    BY <1>1, <1>2
  <2>2. ASSUME NEW k \in 1..(Len(stack') - 1)
        PROVE  CalledBy(stack[k + 1], stack[k])'
    <3>1. k \in 1..(n - 2) /\ k + 1 \in 1..(n - 1)
      BY <1>2, <1>7
    <3> QED BY <1>1, <1>5, <1>7, <1>9, <3>1 DEF CalledBy
  <2> QED BY <1>4, <1>6, <1>7, <1>9, <2>1, <2>2 DEF StackIsImportPath
<1>11. ASSUME NEW k \in DOMAIN stack'
       PROVE  FrameInv(stack[k], program[stack[k].module], cache)'
  <2>1. k \in DOMAIN stack /\ (k \in 1..(n - 2) \/ k = n - 1)
    BY <1>2, <1>7
  <2>2. CASE stack'[k] = stack[k]
    BY <1>1, <1>3, <2>1, <2>2
  <2>3. CASE k = n - 1 /\ stack'[k] = Merge(Caller, Top.ti) /\ Mergeable(Caller, Top.ti)
    <3> DEFINE src == program[Caller.module]
    <3>1. /\ Caller \in Frame /\ src \in Source /\ FrameInv(Caller, src, cache')
          /\ Top.ti \in TypeInfo /\ Top.module \in Modules
      BY <1>2, <1>3, <1>8, StackFacts, TopTyping
    <3>2. /\ Caller.imported < Len(src.imports)
          /\ src.imports[Caller.imported + 1] = Top.module
      BY <1>8 DEF CalledBy
    <3>3. cache'[src.imports[Caller.imported + 1]] = Top.ti
      BY <1>1, <3>1, <3>2 DEF TypeOK
    <3> HIDE DEF src
    <3>4. FrameInv(Merge(Caller, Top.ti), src, cache')
      BY <2>3, <3>1, <3>2, <3>3, MergeFrame
    <3>5. Merge(Caller, Top.ti).module = Caller.module
      BY DEF Merge
    <3> QED BY <1>1, <2>3, <3>4, <3>5 DEF src
  <2> QED BY <1>7, <2>1, <2>2, <2>3
<1> QED BY <1>10, <1>11 DEF LoaderInv

LEMMA LoaderStep == TypeOK /\ LoaderInv /\ [Next]_vars => LoaderInv'
<1> SUFFICES ASSUME TypeOK, LoaderInv, [Next]_vars PROVE LoaderInv'
  OBVIOUS
<1>1. CASE UNCHANGED <<program, stack, cache>>
  BY <1>1 DEF LoaderInv, StackIsImportPath, CalledBy
<1>2. CASE ImportCached
  <2>1. CASE stack' = ReplaceTop(Merge(Top, cache[NextImport]))
             /\ Mergeable(Top, cache[NextImport])
    <3>1. cache[NextImport] \in TypeInfo
      BY <1>2, ImportTyping DEF ImportCached
    <3>2. Merge(Top, cache[NextImport]) \in Frame
      BY <3>1, TopTyping, FrameUpdates
    <3>3. Merge(Top, cache[NextImport]).module = Top.module
      BY DEF Merge
    <3>4. FrameInv(Merge(Top, cache[NextImport]), TopSource, cache)
      BY <1>2, <2>1, <3>1, TopTyping, StackFacts, MergeFrame
         DEF ImportCached, AtImport, NextImport
    <3> QED BY <1>2, <2>1, <3>2, <3>3, <3>4, ReplaceTopKeepsInv DEF ImportCached
  <2> QED BY <1>1, <1>2, <2>1 DEF ImportCached
<1>3. CASE ImportLoad
  BY <1>3, PushKeepsInv DEF ImportLoad
<1>4. CASE DeclareClass
  <2> DEFINE def == TopSource.classes[Top.declared + 1]
  <2>1. CASE stack' = ReplaceTop(WithClass(Top, def.name)) /\ def.name \notin Names(Top.ti.types)
    <3>1. ~(Top.imported < Len(TopSource.imports)) /\ Top.declared < Len(TopSource.classes)
      BY <1>4 DEF DeclareClass, AtClass, AtImport
    <3>2. def \in ClassDef
      BY <3>1, TopTyping, StackFacts, NextElement DEF Source
    <3>3. WithClass(Top, def.name) \in Frame
      BY <3>2, TopTyping, FrameUpdates DEF ClassDef
    <3>4. WithClass(Top, def.name).module = Top.module
      BY DEF WithClass
    <3>5. FrameInv(WithClass(Top, def.name), TopSource, cache)
      BY <2>1, <3>1, TopTyping, StackFacts, ClassFrame
    <3> QED BY <1>4, <2>1, <3>3, <3>4, <3>5, ReplaceTopKeepsInv DEF DeclareClass
  <2> QED BY <1>1, <1>4, <2>1 DEF DeclareClass
<1>5. CASE DefineFunction
  <2> DEFINE def == TopSource.functions[Top.defined + 1]
  <2>1. CASE stack' = ReplaceTop(WithFunction(Top, def.key))
    <3>1. /\ ~(Top.imported < Len(TopSource.imports))
          /\ ~(Top.declared < Len(TopSource.classes))
          /\ Top.defined < Len(TopSource.functions)
      BY <1>5 DEF DefineFunction, AtFunction, AtClass, AtImport
    <3>2. def \in FunctionDef
      BY <3>1, TopTyping, StackFacts, NextElement DEF Source
    <3>3. WithFunction(Top, def.key) \in Frame
      BY <3>2, TopTyping, FrameUpdates DEF FunctionDef
    <3>4. WithFunction(Top, def.key).module = Top.module
      BY DEF WithFunction
    <3>5. FrameInv(WithFunction(Top, def.key), TopSource, cache)
      BY <3>1, TopTyping, StackFacts, FunctionFrame
    <3> QED BY <1>5, <2>1, <3>3, <3>4, <3>5, ReplaceTopKeepsInv DEF DefineFunction
  <2> QED BY <1>1, <1>5, <2>1 DEF DefineFunction
<1>6. CASE Return
  BY <1>6, ReturnKeepsInv
<1>7. CASE Unwind
  BY <1>7, PopKeepsInv DEF Unwind
<1>8. CASE Crash \/ Reject \/ ResolveClasses \/ UNCHANGED vars
  BY <1>1, <1>8 DEF Crash, Reject, ResolveClasses, vars
<1> QED BY <1>2, <1>3, <1>4, <1>5, <1>6, <1>7, <1>8 DEF Next

(* At every moment each frame's table is the union of the tables of the    *)
(* imports it is past and of its declarations so far, and the stack is a   *)
(* path of uncached modules.                                               *)
THEOREM LoaderCorrect == Spec => []LoaderInv
<1>1. TypeOK /\ LoaderInv /\ [Next]_vars => (TypeOK /\ LoaderInv)'
  BY TypeStep, LoaderStep
<1> QED BY <1>1, TypeInit, LoaderInit, PTL DEF Spec

(* The activations of declare form an import path of uncached modules.     *)
THEOREM ImportPath == Spec => []StackIsImportPath
<1>1. LoaderInv => StackIsImportPath
  BY DEF LoaderInv
<1> QED BY <1>1, LoaderCorrect, PTL

(* A second definition of an object that has a body either is the same one *)
(* or raises an error, and the signature stays the first one.              *)
LEMMA PooledKeeps ==
    ASSUME TypeOK, NEW def, NEW b, def.key \in Keys,
           ~Redefines(def, b), pool[def.key] # None
    PROVE  /\ Pooled(def, b).sig = pool[def.key].sig
           /\ pool[def.key].body # 0 => Pooled(def, b) = pool[def.key]
<1>1. pool[def.key] \in Function
  BY DEF TypeOK
<1> QED BY <1>1 DEF Function, Pooled, Redefines

(* No step changes the signature of a shared function object, replaces its *)
(* body, or alters a published table.                                      *)
THEOREM SharedObjects == Spec => SharedObjectsAreStable
<1> DEFINE CacheKept == \A m \in Modules : cache[m] # None => cache'[m] = cache[m]
           PoolKept == \A key \in Keys : pool[key] # None =>
                          /\ pool'[key] # None
                          /\ pool'[key].sig = pool[key].sig
                          /\ pool[key].body # 0 => pool'[key] = pool[key]
<1>1. ASSUME TypeOK, LoaderInv, Next PROVE CacheKept
  <2>1. CASE Return
    <3>1. cache[Top.module] = None
      BY <1>1, TopTyping DEF LoaderInv, StackIsImportPath, Top
    <3> QED BY <1>1, <2>1, <3>1 DEF TypeOK, Return
  <2>2. CASE cache' = cache
    BY <2>2
  <2> QED BY <1>1, <2>1, <2>2 DEF Next, ImportCached, ImportLoad, Crash, DeclareClass,
                                  DefineFunction, Unwind, Reject, ResolveClasses
<1>2. ASSUME TypeOK, Next PROVE PoolKept
  <2>1. CASE DefineFunction
    <3> DEFINE i == Top.defined + 1
               def == TopSource.functions[i]
               b == Body(def, i)
    <3>1. CASE pool' = pool
      BY <3>1
    <3>2. CASE Definable(def, b) /\ pool' = [pool EXCEPT ![def.key] = Pooled(def, b)]
      <4>1. TopSource.functions \in Seq(FunctionDef)
        BY <1>2, TopTyping, SourceTyping DEF TypeOK, TopSource
      <4>2. Top.defined \in Nat /\ Top.defined < Len(TopSource.functions)
        BY <1>2, <2>1, TopTyping DEF DefineFunction, AtFunction
      <4>3. def \in FunctionDef
        BY <4>1, <4>2, NextElement
      <4>4. def.key \in Keys /\ def.sig \in Sigs /\ b \in Nat
        BY <4>2, <4>3 DEF FunctionDef, Body
      <4>5. Pooled(def, b) # None
        <5>1. pool[def.key] \in Function \cup {None}
          BY <1>2, <4>4 DEF TypeOK
        <5>2. Pooled(def, b) \in Function
          BY <4>4, <5>1 DEF Pooled, Function
        <5> QED BY <5>2, NoObjectAssumption
      <4>6. ~Redefines(def, b)
        BY <3>2 DEF Definable
      <4>7. \A key \in Keys : pool'[key] = IF key = def.key THEN Pooled(def, b) ELSE pool[key]
        BY <1>2, <3>2, <4>4 DEF TypeOK
      <4> HIDE DEF def, b
      <4> QED BY <1>2, <4>4, <4>5, <4>6, <4>7, PooledKeeps
    <3> QED BY <2>1, <3>1, <3>2 DEF DefineFunction
  <2>2. CASE pool' = pool
    BY <2>2
  <2> QED BY <1>2, <2>1, <2>2 DEF Next, ImportCached, ImportLoad, Crash, DeclareClass,
                                  Return, Unwind, Reject, ResolveClasses
<1>3. TypeOK /\ LoaderInv /\ [Next]_vars => [CacheKept /\ PoolKept]_vars
  BY <1>1, <1>2
<1> QED BY <1>3, TypeCorrect, LoaderCorrect, PTL DEF SharedObjectsAreStable, Spec

-----------------------------------------------------------------------------
(* The refinement of ImportOrder.                                          *)
LEMMA FinishedCounts ==
    ASSUME TypeOK, LoaderInv, Finished
    PROVE  /\ 1..Top.imported = DOMAIN TopSource.imports
           /\ 1..Top.declared = DOMAIN TopSource.classes
           /\ 1..Top.defined = DOMAIN TopSource.functions
<1>1. /\ TopSource.imports \in Seq(Modules)
      /\ TopSource.classes \in Seq(ClassDef)
      /\ TopSource.functions \in Seq(FunctionDef)
  BY StackFacts DEF Source
<1>2. InOrder(Top, TopSource)
  BY StackFacts DEF FrameInv
<1>3. /\ ~(Top.imported < Len(TopSource.imports))
      /\ ~(Top.declared < Len(TopSource.classes))
      /\ ~(Top.defined < Len(TopSource.functions))
  BY DEF Finished, AtImport, AtClass, AtFunction
<1>4. \A i, n \in Nat : i <= n /\ ~(i < n) => i = n
  OBVIOUS
<1>5. /\ Len(TopSource.imports) \in Nat
      /\ Len(TopSource.classes) \in Nat
      /\ Len(TopSource.functions) \in Nat
  BY <1>1
<1>6. /\ Top.imported = Len(TopSource.imports)
      /\ Top.declared = Len(TopSource.classes)
      /\ Top.defined = Len(TopSource.functions)
  BY <1>2, <1>3, <1>4, <1>5, TopTyping DEF InOrder
<1> QED BY <1>1, <1>6

LEMMA SameSourceTree ==
    ASSUME NEW m
    PROVE  /\ Order!Imports(m) = Imports(m)
           /\ Order!OwnTypes(m) = OwnTypes(m)
           /\ Order!OwnKeys(m) = OwnKeys(m)
BY DEF Order!Imports, Imports, Order!OwnTypes, OwnTypes, Order!OwnKeys, OwnKeys,
       Order!Range, Range

LEMMA FinishedFrame ==
    ASSUME NEW fr, NEW src, NEW c, FrameInv(fr, src, c),
           1..fr.imported = DOMAIN src.imports,
           1..fr.declared = DOMAIN src.classes,
           1..fr.defined = DOMAIN src.functions
    PROVE  /\ \A i \in Range(src.imports) : c[i] # None
           /\ fr.ti.types = {<<d.name, fr.module>> : d \in Range(src.classes)}
                              \cup UNION {c[i].types : i \in Range(src.imports)}
           /\ fr.ti.functions = {d.key : d \in Range(src.functions)}
                                  \cup UNION {c[i].functions : i \in Range(src.imports)}
<1>1. \A i \in Range(src.imports) : c[i] # None
  BY DEF FrameInv, ImportsAreCached, Range
<1>2. /\ UNION {c[src.imports[j]].types : j \in 1..fr.imported}
             = UNION {c[i].types : i \in Range(src.imports)}
      /\ UNION {c[src.imports[j]].functions : j \in 1..fr.imported}
             = UNION {c[i].functions : i \in Range(src.imports)}
  BY DEF Range
<1>3. /\ {<<src.classes[j].name, fr.module>> : j \in 1..fr.declared}
             = {<<d.name, fr.module>> : d \in Range(src.classes)}
      /\ {src.functions[j].key : j \in 1..fr.defined} = {d.key : d \in Range(src.functions)}
  BY DEF Range
<1> QED BY <1>1, <1>2, <1>3 DEF FrameInv, TableIsUnion

(* A frame that has finished may be published, with the table it has.      *)
LEMMA FinishedIsReady ==
    ASSUME TypeOK, LoaderInv, Finished
    PROVE  Order!Ready(Top.module) /\ Order!Linked(Top.module) = Top.ti
<1> DEFINE src == program[Top.module]
<1>1. /\ 1..Top.imported = DOMAIN src.imports
      /\ 1..Top.declared = DOMAIN src.classes
      /\ 1..Top.defined = DOMAIN src.functions
  BY FinishedCounts DEF TopSource
<1>2. FrameInv(Top, src, cache)
  BY StackFacts DEF TopSource
<1>3. \A i \in Imports(Top.module) : cache[i] # None
  BY <1>1, <1>2, FinishedFrame DEF Imports
<1>4. Order!NoNameTwice(Top.module)
  <2>1. NoNameTwiceIn(Top, src, cache)
    BY <1>2 DEF FrameInv
  <2>2. /\ \A i, j \in DOMAIN src.imports : i # j =>
             Names(cache[src.imports[i]].types) \cap Names(cache[src.imports[j]].types) = {}
        /\ \A i, j \in DOMAIN src.classes : i # j => src.classes[i].name # src.classes[j].name
        /\ \A i \in DOMAIN src.imports, j \in DOMAIN src.classes :
             src.classes[j].name \notin Names(cache[src.imports[i]].types)
    BY <1>1, <2>1 DEF NoNameTwiceIn
  <2> QED BY <2>2 DEF Order!NoNameTwice, Order!Names, Names
<1>5. /\ Top.ti.types = OwnTypes(Top.module)
                          \cup UNION {cache[i].types : i \in Imports(Top.module)}
      /\ Top.ti.functions = OwnKeys(Top.module)
                              \cup UNION {cache[i].functions : i \in Imports(Top.module)}
  BY <1>1, <1>2, FinishedFrame DEF Imports, OwnTypes, OwnKeys
<1>6. Top.ti = [types |-> Top.ti.types, functions |-> Top.ti.functions]
  BY TopTyping DEF TypeInfo
<1>7. Order!Ready(Top.module)
  BY <1>3, <1>4, SameSourceTree DEF Order!Ready
<1>8. Order!Linked(Top.module) = Top.ti
  BY <1>5, <1>6, SameSourceTree DEF Order!Linked
<1> QED BY <1>7, <1>8

LEMMA RefinesInit == Init => Order!Init
BY DEF Init, Order!Init, Outcome

LEMMA RefinesStep == TypeOK /\ LoaderInv /\ [Next]_vars => [Order!Next]_(Order!vars)
<1> SUFFICES ASSUME TypeOK, LoaderInv, [Next]_vars
             PROVE  Order!Next \/ UNCHANGED Order!vars
  OBVIOUS
<1>1. CASE UNCHANGED <<program, cache, status>>
  BY <1>1 DEF Order!vars, Outcome
<1>2. CASE Return
  <2>1. Finished /\ Len(stack) > 1 /\ Running /\ UNCHANGED <<program, status>>
        /\ cache' = [cache EXCEPT ![Top.module] = Top.ti]
    BY <1>2 DEF Return
  <2>2. Order!Ready(Top.module) /\ Order!Linked(Top.module) = Top.ti
    BY <2>1, FinishedIsReady
  <2>3. cache[Top.module] = None /\ Top.module \in Modules
    BY <2>1, ReturningModuleIsOnce, TopTyping
  <2>4. Order!Publish(Top.module)
    BY <2>1, <2>2, <2>3 DEF Order!Publish, Outcome, Running
  <2> QED BY <2>3, <2>4 DEF Order!Next
<1>3. CASE Crash \/ Reject
  <2>1. Order!Fail
    BY <1>3 DEF Crash, Reject, Order!Fail, Outcome
  <2> QED BY <2>1 DEF Order!Next
<1>4. CASE ResolveClasses
  <2>1. CASE UNCHANGED status
    BY <1>1, <1>4, <2>1 DEF ResolveClasses
  <2>2. CASE status' = "accepted"
    <3>1. Finished /\ Len(stack) = 1 /\ Running /\ UNCHANGED <<program, cache>>
      BY <1>4 DEF ResolveClasses
    <3>2. Top.module = Main
      BY <3>1 DEF LoaderInv, StackIsImportPath, Top
    <3>3. Order!Accept
      BY <2>2, <3>1, <3>2, FinishedIsReady DEF Order!Accept, Outcome, Running
    <3> QED BY <3>3 DEF Order!Next
  <2> QED BY <1>4, <2>1, <2>2 DEF ResolveClasses
<1>5. CASE ImportCached \/ ImportLoad \/ DeclareClass \/ DefineFunction \/ Unwind
           \/ UNCHANGED vars
  BY <1>1, <1>5 DEF ImportCached, ImportLoad, DeclareClass, DefineFunction, Unwind, vars
<1> QED BY <1>2, <1>3, <1>4, <1>5 DEF Next

(* The recursive, caching, exception-throwing loader implements            *)
(* publication in dependency order.                                        *)
THEOREM Refinement == Spec => ImplementsImportOrder
<1>1. TypeOK /\ LoaderInv /\ [Next]_vars => (TypeOK /\ LoaderInv)'
  BY TypeStep, LoaderStep
<1> QED BY <1>1, TypeInit, LoaderInit, RefinesInit, RefinesStep, PTL
        DEF Spec, Order!Spec, ImplementsImportOrder

-----------------------------------------------------------------------------
(* What is proved of ImportOrder holds of the loader that implements it.   *)
OP == INSTANCE ImportOrderProofs WITH exports <- cache, outcome <- Outcome
LEMMA OrderProofsApply ==
    /\ Order!Init => OP!OrderInv
    /\ OP!OrderInv /\ [Order!Next]_(Order!vars) => OP!OrderInv'
<1> USE MainAssumption, ProgramsAssumption, NoneAssumption
    DEF OP!Source, Source, OP!TypeInfo, TypeInfo, OP!ClassDef, ClassDef,
        OP!FunctionDef, FunctionDef
<1>1. Order!Init => OP!OrderInv
  <2>1. Order!Init => OP!Init
    BY DEF OP!Init, Order!Init
  <2> QED BY <2>1, OP!OrderInit
<1>2. OP!OrderInv /\ [Order!Next]_(Order!vars) => OP!OrderInv'
  <2>1. Order!Next => OP!Next
    BY DEF OP!Next, Order!Next, OP!Publish, Order!Publish, OP!Accept, Order!Accept,
           OP!Fail, Order!Fail, OP!Ready, Order!Ready, OP!Linked, Order!Linked,
           OP!NoNameTwice, Order!NoNameTwice, OP!Imports, Order!Imports,
           OP!OwnTypes, Order!OwnTypes, OP!OwnKeys, Order!OwnKeys,
           OP!Names, Order!Names, OP!Range, Order!Range
  <2>2. UNCHANGED Order!vars => UNCHANGED OP!vars
    BY DEF OP!vars, Order!vars
  <2> QED BY <2>1, <2>2, OP!OrderStep
<1> QED BY <1>1, <1>2

LEMMA InvExports == OP!OrderInv => ExportsAreReachableDeclarations
BY DEF OP!OrderInv, OP!Published, OP!Complete, ExportsAreReachableDeclarations,
       Order!ExportsAreReachableDeclarations, OP!Reach, Order!Reach, OP!Closed, Order!Closed,
       OP!Imports, Order!Imports, OP!Range, Order!Range, OP!OwnTypes, Order!OwnTypes,
       OP!OwnKeys, Order!OwnKeys

LEMMA InvAcyclic == OP!OrderInv => AcceptedMeansAcyclic
BY DEF OP!OrderInv, AcceptedMeansAcyclic, Order!AcceptedMeansAcyclic, OP!Cyclic, Order!Cyclic,
       OP!Reach, Order!Reach, OP!Closed, Order!Closed,
       OP!Imports, Order!Imports, OP!Range, Order!Range

(* The table the loader publishes for a module holds the declarations of   *)
(* the modules it reaches, all of them and nothing else.                   *)
THEOREM LoaderExports == Spec => []ExportsAreReachableDeclarations
BY InvExports, Refinement, OrderProofsApply, PTL DEF ImplementsImportOrder, Order!Spec

(* The loader, which keeps no list of the modules it is in the middle of,  *)
(* accepts no import cycle.                                                *)
THEOREM LoaderAcyclic == Spec => []AcceptedMeansAcyclic
BY InvAcyclic, Refinement, OrderProofsApply, PTL DEF ImplementsImportOrder, Order!Spec

-----------------------------------------------------------------------------
(* Reachability, in the module of the loader.                              *)
LEMMA ReachFacts ==
    ASSUME program \in [Modules -> Source], NEW m \in Modules
    PROVE  /\ Imports(m) \subseteq Modules
           /\ Reach(m) \subseteq Modules
           /\ m \in Reach(m)
           /\ Closed(Reach(m))
           /\ Reach(m) = {m} \cup UNION {Reach(i) : i \in Imports(m)}
<1> USE MainAssumption, ProgramsAssumption, NoneAssumption
    DEF OP!Source, Source, OP!TypeInfo, TypeInfo, OP!ClassDef, ClassDef,
        OP!FunctionDef, FunctionDef
<1>1. \A n : OP!Imports(n) = Imports(n)
  BY DEF OP!Imports, Imports, OP!Range, Range
<1>2. \A S : OP!Closed(S) <=> Closed(S)
  BY <1>1 DEF OP!Closed, Closed
<1>3. \A n : OP!Reach(n) = Reach(n)
  BY <1>2 DEF OP!Reach, Reach
<1>4. /\ OP!Reach(m) \subseteq Modules
      /\ m \in OP!Reach(m)
      /\ OP!Closed(OP!Reach(m))
  BY OP!ReachIsClosed
<1>5. OP!Reach(m) = {m} \cup UNION {OP!Reach(i) : i \in OP!Imports(m)}
  BY OP!ReachByImports
<1>6. OP!Imports(m) \subseteq Modules
  BY OP!ImportsAreModules
<1> HIDE DEF OP!Source, Source, OP!TypeInfo, TypeInfo, OP!ClassDef, ClassDef,
             OP!FunctionDef, FunctionDef
<1> QED BY <1>1, <1>2, <1>3, <1>4, <1>5, <1>6

(* Every module on a stack is reached from Main, and from an import of     *)
(* every module below it: a module that is on the stack twice is on a      *)
(* cycle.                                                                  *)
PathOf(s) ==
    /\ \A k \in DOMAIN s : s[k].module \in Reach(Main)
    /\ \A j, k \in DOMAIN s : j < k =>
         \E i \in Imports(s[j].module) : s[k].module \in Reach(i)

LEMMA ShorterPath ==
    ASSUME NEW s, NEW t, PathOf(s), DOMAIN t \subseteq DOMAIN s,
           \A k \in DOMAIN t : t[k].module = s[k].module
    PROVE  PathOf(t)
BY DEF PathOf

LEMMA FrameModule ==
    ASSUME NEW s \in Seq(Frame), NEW k \in DOMAIN s
    PROVE  s[k].module \in Modules
<1>1. s[k] \in Frame
  OBVIOUS
<1> QED BY <1>1 DEF Frame

LEMMA LongerPath ==
    ASSUME program \in [Modules -> Source],
           NEW s \in Seq(Frame), s # <<>>, PathOf(s),
           NEW m \in Imports(s[Len(s)].module)
    PROVE  PathOf(Append(s, Enter(m)))
<1> DEFINE n == Len(s)
           t == Append(s, Enter(m))
<1>1. /\ n \in Nat \ {0} /\ DOMAIN s = 1..n /\ DOMAIN t = 1..(n + 1)
      /\ t[n + 1] = Enter(m) /\ Enter(m).module = m
      /\ \A k \in 1..n : t[k] = s[k]
  BY DEF Enter
<1>2. /\ n \in 1..n /\ 1..(n + 1) = 1..n \cup {n + 1}
      /\ \A j, k \in 1..(n + 1) : j < k => j \in 1..n
  BY <1>1
<1>3. \A k \in 1..n : s[k].module \in Modules
  BY <1>1, FrameModule
<1> HIDE DEF n, t
<1>4. m \in Modules /\ m \in Reach(Main)
  <2>1. s[n].module \in Reach(Main) /\ Closed(Reach(Main)) /\ Reach(Main) \subseteq Modules
    BY <1>1, <1>2, MainAssumption, ReachFacts DEF PathOf
  <2> QED BY <2>1 DEF Closed, n
<1>5. ASSUME NEW j \in 1..n PROVE \E i \in Imports(s[j].module) : m \in Reach(i)
  <2>1. CASE j = n
    BY <1>4, <2>1, ReachFacts DEF n
  <2>2. CASE j # n
    <3>1. j < n
      BY <1>1, <2>2
    <3>2. PICK i \in Imports(s[j].module) : s[n].module \in Reach(i)
      BY <1>1, <1>2, <3>1 DEF PathOf
    <3>3. i \in Modules
      BY <1>3, ReachFacts
    <3>4. m \in Reach(i)
      BY <3>2, <3>3, ReachFacts DEF Closed, n
    <3> QED BY <3>4
  <2> QED BY <2>1, <2>2
<1>6. \A k \in DOMAIN t : t[k].module \in Reach(Main)
  BY <1>1, <1>2, <1>4 DEF PathOf
<1>7. ASSUME NEW j \in DOMAIN t, NEW k \in DOMAIN t, j < k
      PROVE  \E i \in Imports(t[j].module) : t[k].module \in Reach(i)
  <2>1. j \in 1..n /\ t[j] = s[j]
    BY <1>1, <1>2, <1>7
  <2>2. CASE k = n + 1
    BY <1>1, <1>5, <2>1, <2>2
  <2>3. CASE k \in 1..n
    BY <1>1, <1>7, <2>1, <2>3 DEF PathOf
  <2> QED BY <1>1, <1>2, <2>2, <2>3
<1> QED BY <1>6, <1>7 DEF PathOf, t

LEMMA AcyclicPath ==
    ASSUME NEW s \in Seq(Frame), PathOf(s), ~Cyclic(Main), IsFiniteSet(Modules)
    PROVE  Len(s) <= Cardinality(Modules)
<1> DEFINE n == Len(s)
           f == [k \in 1..n |-> s[k].module]
<1>1. n \in Nat /\ DOMAIN s = 1..n
  OBVIOUS
<1>2. f \in [1..n -> Modules]
  BY <1>1, FrameModule
<1>3. ASSUME NEW j \in 1..n, NEW k \in 1..n, j < k PROVE f[j] # f[k]
  BY <1>1, <1>3 DEF PathOf, Cyclic
<1>4. \A j, k \in 1..n : j # k => f[j] # f[k]
  <2>1. \A j, k \in 1..n : j # k => j < k \/ k < j
    BY <1>1
  <2> HIDE DEF f, n
  <2> QED BY <1>3, <2>1
<1>5. IsFiniteSet(1..n) /\ Cardinality(1..n) = n
  BY <1>1, FS_Interval
<1>6. Cardinality(Modules) \in Nat
  BY FS_CardinalityType
<1> HIDE DEF f, n
<1>7. ~(Cardinality(Modules) < n)
  BY <1>2, <1>4, <1>5, FS_PigeonHole
<1> QED BY <1>1, <1>6, <1>7 DEF n

-----------------------------------------------------------------------------
(* What a step does to the modules on the stack: it calls the module that  *)
(* is imported next, or takes frames away.                                 *)
LEMMA StackSteps ==
    ASSUME TypeOK, LoaderInv, Next
    PROVE  \/ /\ DOMAIN stack' \subseteq DOMAIN stack
              /\ \A k \in DOMAIN stack' : stack'[k].module = stack[k].module
           \/ ImportLoad
<1>1. Len(stack) \in Nat \ {0} /\ DOMAIN stack = 1..Len(stack) /\ stack \in Seq(Frame)
  BY DEF TypeOK
<1> DEFINE Kept == /\ DOMAIN stack' \subseteq DOMAIN stack
                   /\ \A k \in DOMAIN stack' : stack'[k].module = stack[k].module
<1> SUFFICES ASSUME ~ImportLoad PROVE Kept
  OBVIOUS
<1>2. ASSUME NEW fr, fr.module = Top.module, stack' = ReplaceTop(fr) PROVE Kept
  BY <1>1, <1>2 DEF ReplaceTop, Top
<1>3. CASE stack' = Pop
  BY <1>1, <1>3 DEF Pop
<1>4. ASSUME Len(stack) > 1, stack' = [Pop EXCEPT ![Len(stack) - 1] = Merge(Caller, Top.ti)]
      PROVE  Kept
  BY <1>1, <1>4 DEF Pop, Merge, Caller
<1>5. CASE stack' = stack
  BY <1>5
<1>6. /\ \A fr, ti : Merge(fr, ti).module = fr.module
      /\ \A fr, name : WithClass(fr, name).module = fr.module
      /\ \A fr, key : WithFunction(fr, key).module = fr.module
  BY DEF Merge, WithClass, WithFunction
<1> HIDE DEF Kept
<1>7. CASE ImportCached
  BY <1>2, <1>5, <1>6, <1>7 DEF ImportCached
<1>8. CASE DeclareClass
  BY <1>2, <1>5, <1>6, <1>8 DEF DeclareClass
<1>9. CASE DefineFunction
  <2>1. stack' = stack \/ \E key : stack' = ReplaceTop(WithFunction(Top, key))
    BY <1>9 DEF DefineFunction
  <2> QED BY <1>2, <1>5, <1>6, <2>1
<1>10. CASE Return
  <2>1. \/ Len(stack) > 1 /\ stack' = [Pop EXCEPT ![Len(stack) - 1] = Merge(Caller, Top.ti)]
        \/ stack' = Pop
    BY <1>10 DEF Return
  <2> QED BY <1>3, <1>4, <2>1
<1>11. CASE Unwind
  BY <1>3, <1>11 DEF Unwind
<1>12. CASE Crash \/ Reject \/ ResolveClasses
  BY <1>5, <1>12 DEF Crash, Reject, ResolveClasses
<1> QED BY <1>7, <1>8, <1>9, <1>10, <1>11, <1>12 DEF Next

-----------------------------------------------------------------------------
(* Why the process dies.                                                   *)
Explained == Cyclic(Main) \/ \E n \in Reach(Main) : ~program[n].present

PathInv == PathOf(stack) /\ (status = "crashed" => Explained)

(* The native stack holds an activation of every module.                   *)
DeepStack == IsFiniteSet(Modules) /\ Cardinality(Modules) <= StackLimit

LEMMA PathInit == TypeOK /\ Init => PathInv
<1> SUFFICES ASSUME TypeOK, Init PROVE PathInv
  OBVIOUS
<1>1. stack = <<Enter(Main)>> /\ DOMAIN stack = {1} /\ stack[1].module = Main
  BY DEF Init, Enter
<1>2. \A j, k \in DOMAIN stack : ~(j < k)
  BY <1>1
<1>3. Main \in Reach(Main)
  BY MainAssumption, ReachFacts DEF TypeOK
<1>4. PathOf(stack)
  BY <1>1, <1>2, <1>3 DEF PathOf
<1> QED BY <1>4 DEF PathInv, Init

LEMMA NextIsReached ==
    ASSUME TypeOK, PathOf(stack), AtImport
    PROVE  /\ NextImport \in Imports(Top.module)
           /\ NextImport \in Reach(Main)
           /\ PathOf(Append(stack, Enter(NextImport)))
<1>1. NextImport \in Imports(Top.module)
  <2>1. TopSource.imports \in Seq(Modules)
    BY TopTyping, SourceTyping DEF TypeOK, TopSource
  <2>2. Top.imported \in Nat
    BY TopTyping DEF TypeOK
  <2>3. Len(TopSource.imports) \in Nat /\ DOMAIN TopSource.imports = 1..Len(TopSource.imports)
    BY <2>1
  <2>4. Top.imported < Len(TopSource.imports)
    BY DEF AtImport
  <2>5. Top.imported + 1 \in DOMAIN TopSource.imports
    BY <2>2, <2>3, <2>4
  <2> QED BY <2>5 DEF NextImport, Imports, TopSource, Range
<1>2. Len(stack) \in DOMAIN stack
  BY DEF TypeOK
<1>3. Top.module \in Reach(Main)
  BY <1>2 DEF PathOf, Top
<1>4. NextImport \in Reach(Main)
  BY <1>1, <1>3, MainAssumption, ReachFacts DEF Closed, TypeOK
<1>5. PathOf(Append(stack, Enter(NextImport)))
  BY <1>1, LongerPath DEF TypeOK, Top
<1> QED BY <1>1, <1>4, <1>5

LEMMA CrashIsExplained ==
    ASSUME TypeOK, PathInv, DeepStack, Crash
    PROVE  Explained
<1>1. CASE ~TopSource.present
  <2>1. Len(stack) \in DOMAIN stack
    BY DEF TypeOK
  <2> QED BY <1>1, <2>1 DEF Explained, TopSource, PathInv, PathOf, Top
<1>2. CASE AtImport /\ ~program[NextImport].present
  BY <1>2, NextIsReached DEF PathInv, Explained
<1>3. CASE AtImport /\ Len(stack) >= StackLimit /\ ~Cyclic(Main)
  <2> DEFINE path == Append(stack, Enter(NextImport))
  <2>1. path \in Seq(Frame) /\ Len(path) = Len(stack) + 1 /\ Len(stack) \in Nat
    BY <1>3, ImportTyping, EnterTyping DEF TypeOK
  <2>2. PathOf(path)
    BY <1>3, NextIsReached DEF PathInv
  <2> HIDE DEF path
  <2>3. Len(path) <= Cardinality(Modules)
    BY <1>3, <2>1, <2>2, AcyclicPath DEF DeepStack
  <2>4. Cardinality(Modules) \in Nat
    BY FS_CardinalityType DEF DeepStack
  <2> QED BY <1>3, <2>1, <2>3, <2>4, StackLimitAssumption DEF DeepStack
<1> QED BY <1>1, <1>2, <1>3 DEF Crash, Explained

LEMMA PathStays ==
    ASSUME TypeOK, LoaderInv, PathOf(stack), [Next]_vars
    PROVE  PathOf(stack)'
<1>1. program' = program
  BY DEF Next, vars, ImportCached, ImportLoad, Crash, DeclareClass, DefineFunction,
         Return, Unwind, Reject, ResolveClasses
<1>2. \A m : Imports(m)' = Imports(m) /\ Reach(m)' = Reach(m)
  BY <1>1 DEF Imports, Reach, Closed
<1>3. PathOf(stack')
  <2>1. CASE UNCHANGED vars
    BY <2>1 DEF vars
  <2>2. CASE ImportLoad
    BY <2>2, NextIsReached DEF ImportLoad
  <2>3. CASE Next /\ ~ImportLoad
    BY <2>3, StackSteps, ShorterPath
  <2> QED BY <2>1, <2>2, <2>3
<1> QED BY <1>2, <1>3 DEF PathOf

LEMMA PathStep ==
    ASSUME DeepStack, TypeOK, LoaderInv, PathInv, [Next]_vars
    PROVE  PathInv'
<1>1. program' = program
  BY DEF Next, vars, ImportCached, ImportLoad, Crash, DeclareClass, DefineFunction,
         Return, Unwind, Reject, ResolveClasses
<1>2. Explained' = Explained
  BY <1>1 DEF Imports, Reach, Closed, Explained, Cyclic
<1>3. PathOf(stack)'
  BY PathStays DEF PathInv
<1>4. (status = "crashed" => Explained)'
  <2>1. CASE Crash
    BY <1>2, <2>1, CrashIsExplained
  <2>2. CASE status' = status \/ status' \in {"accepted", "rejected"}
    BY <1>2, <2>2 DEF PathInv
  <2> QED BY <2>1, <2>2 DEF Next, vars, ImportCached, ImportLoad, DeclareClass,
             DefineFunction, Return, Unwind, Reject, ResolveClasses
<1> QED BY <1>3, <1>4 DEF PathInv

(* As long as the native stack holds an activation for every module, the   *)
(* compiler dies in this pass only on a missing file or an import cycle.   *)
THEOREM CrashesExplained == DeepStack => (Spec => []CrashMeansMissingOrCyclic)
<1> SUFFICES ASSUME DeepStack PROVE Spec => []CrashMeansMissingOrCyclic
  OBVIOUS
<1>1. Init => TypeOK /\ LoaderInv /\ PathInv
  BY TypeInit, LoaderInit, PathInit
<1>2. TypeOK /\ LoaderInv /\ PathInv /\ [Next]_vars => (TypeOK /\ LoaderInv /\ PathInv)'
  BY TypeStep, LoaderStep, PathStep
<1>3. PathInv => CrashMeansMissingOrCyclic
  BY DEF PathInv, Explained, CrashMeansMissingOrCyclic
<1> QED BY <1>1, <1>2, <1>3, PTL DEF Spec

-----------------------------------------------------------------------------
(* Walks along import statements, from any module.  Via is the module      *)
(* after k statements.                                                     *)
Via(a, p, k) == IF k = 0 THEN a ELSE Imported(p[k])

Walk(a, p) == /\ p \in Seq(ImportStatements)
              /\ \A k \in 1..Len(p) : p[k][1] = Via(a, p, k - 1)

Simple(a, p) == \A j, k \in 0..Len(p) : j # k => Via(a, p, j) # Via(a, p, k)

LEMMA StatementFacts ==
    ASSUME program \in [Modules -> Source]
    PROVE  /\ \A s \in ImportStatements :
                /\ s[1] \in Modules /\ s[2] \in DOMAIN program[s[1]].imports
                /\ s = <<s[1], s[2]>> /\ s[2] \in Nat \ {0}
                /\ Imported(s) \in Imports(s[1])
           /\ \A m \in Modules : \A i \in DOMAIN program[m].imports :
                /\ <<m, i>> \in ImportStatements
                /\ Imported(<<m, i>>) = program[m].imports[i]
<1>1. \A m \in Modules : program[m].imports \in Seq(Modules)
  BY SourceTyping
<1>2. ASSUME NEW s \in ImportStatements
      PROVE  /\ s[1] \in Modules /\ s[2] \in DOMAIN program[s[1]].imports
             /\ s = <<s[1], s[2]>> /\ s[2] \in Nat \ {0}
             /\ Imported(s) \in Imports(s[1])
  <2>1. s[1] \in Modules /\ s[2] \in DOMAIN program[s[1]].imports /\ s = <<s[1], s[2]>>
    BY <1>2 DEF ImportStatements
  <2>2. s[2] \in Nat \ {0}
    BY <1>1, <2>1
  <2>3. Imported(s) \in Imports(s[1])
    BY <2>1 DEF Imported, Imports, Range
  <2> QED BY <2>1, <2>2, <2>3
<1>3. ASSUME NEW m \in Modules, NEW i \in DOMAIN program[m].imports
      PROVE  /\ <<m, i>> \in ImportStatements
             /\ Imported(<<m, i>>) = program[m].imports[i]
  BY <1>3 DEF ImportStatements, Imported
<1> QED BY <1>2, <1>3

LEMMA WalkFacts ==
    ASSUME program \in [Modules -> Source], NEW a \in Modules, NEW p, Walk(a, p)
    PROVE  /\ Len(p) \in Nat /\ DOMAIN p = 1..Len(p)
           /\ \A k \in 1..Len(p) : p[k] \in ImportStatements
           /\ \A k \in 0..Len(p) : Via(a, p, k) \in Modules
           /\ \A k \in 1..Len(p) : Via(a, p, k) \in Imports(Via(a, p, k - 1))
<1>1. Len(p) \in Nat /\ DOMAIN p = 1..Len(p) /\ \A k \in 1..Len(p) : p[k] \in ImportStatements
  BY DEF Walk
<1>2. ASSUME NEW k \in 1..Len(p) PROVE Via(a, p, k) \in Imports(Via(a, p, k - 1)) /\ Via(a, p, k) \in Modules
  <2>1. k # 0 /\ p[k] \in ImportStatements /\ p[k][1] = Via(a, p, k - 1)
    BY <1>1, <1>2 DEF Walk
  <2>2. p[k][1] \in Modules /\ Imported(p[k]) \in Imports(p[k][1])
    BY <2>1, StatementFacts
  <2>3. Imports(p[k][1]) \subseteq Modules
    BY <2>2, ReachFacts
  <2> QED BY <2>1, <2>2, <2>3 DEF Via
<1>3. ASSUME NEW k \in 0..Len(p) PROVE Via(a, p, k) \in Modules
  <2>1. k = 0 \/ k \in 1..Len(p)
    BY <1>1, <1>3
  <2> QED BY <1>2, <2>1 DEF Via
<1> QED BY <1>1, <1>2, <1>3

(* A set of modules that is closed under imports and holds a module of a   *)
(* walk holds all that come after it; so does what that module reaches.    *)
LEMMA WalkStays ==
    ASSUME program \in [Modules -> Source], NEW a \in Modules, NEW p, Walk(a, p),
           NEW S, Closed(S), NEW j \in 0..Len(p), Via(a, p, j) \in S
    PROVE  \A k \in j..Len(p) : Via(a, p, k) \in S
<1> DEFINE n == Len(p)
           T == {i \in 0..(n - j) : Via(a, p, j + i) \in S}
<1>1. n \in Nat /\ j \in Nat /\ n - j \in Nat
  BY WalkFacts
<1>2. 0 \in T
  BY <1>1
<1>3. ASSUME NEW i \in 0..((n - j) - 1), i \in T PROVE i + 1 \in T
  <2>1. /\ (j + i) + 1 \in 1..Len(p) /\ ((j + i) + 1) - 1 = j + i
        /\ i + 1 \in 0..(n - j) /\ j + (i + 1) = (j + i) + 1
    BY <1>1
  <2>2. Via(a, p, (j + i) + 1) \in Imports(Via(a, p, j + i))
    BY <2>1, WalkFacts
  <2>3. Via(a, p, j + i) \in S
    BY <1>3
  <2>4. Via(a, p, (j + i) + 1) \in S
    BY <2>2, <2>3 DEF Closed
  <2> QED BY <2>1, <2>4
<1> HIDE DEF T
<1>4. 0..(n - j) \subseteq T
  BY <1>1, <1>2, <1>3, UpTo
<1> SUFFICES ASSUME NEW k \in j..n PROVE Via(a, p, k) \in S
  OBVIOUS
<1>5. k - j \in 0..(n - j) /\ j + (k - j) = k
  BY <1>1
<1>6. k - j \in T
  BY <1>4, <1>5
<1> QED BY <1>5, <1>6 DEF T

LEMMA WalkReaches ==
    ASSUME program \in [Modules -> Source], NEW a \in Modules, NEW p, Walk(a, p),
           NEW j \in 0..Len(p), NEW k \in j..Len(p)
    PROVE  Via(a, p, k) \in Reach(Via(a, p, j))
<1>1. Via(a, p, j) \in Modules
  BY WalkFacts
<1>2. Closed(Reach(Via(a, p, j))) /\ Via(a, p, j) \in Reach(Via(a, p, j))
  BY <1>1, ReachFacts
<1> QED BY <1>2, WalkStays

(* A walk cut off, and a walk that goes on.                                *)
LEMMA WalkPrefix ==
    ASSUME NEW a, NEW p, Walk(a, p), NEW k \in 0..Len(p)
    PROVE  /\ Walk(a, SubSeq(p, 1, k)) /\ Len(SubSeq(p, 1, k)) = k
           /\ \A j \in 0..k : Via(a, SubSeq(p, 1, k), j) = Via(a, p, j)
<1> DEFINE q == SubSeq(p, 1, k)
<1>1. p \in Seq(ImportStatements) /\ Len(p) \in Nat
  BY DEF Walk
<1>2. /\ q \in Seq(ImportStatements) /\ Len(q) = k
      /\ \A j \in 1..k : q[j] = p[j]
      /\ \A j \in 1..k : j \in 1..Len(p) /\ j - 1 \in 0..k
  BY <1>1
<1>3. \A j \in 0..k : j = 0 \/ j \in 1..k
  BY <1>1
<1> HIDE DEF q
<1>4. \A j \in 0..k : Via(a, q, j) = Via(a, p, j)
  BY <1>2, <1>3 DEF Via
<1> QED BY <1>2, <1>4 DEF Walk, q

LEMMA WalkJoin ==
    ASSUME NEW a, NEW b, NEW p, NEW q, Walk(a, p), Walk(b, q), Via(a, p, Len(p)) = b
    PROVE  /\ Walk(a, p \o q) /\ Len(p \o q) = Len(p) + Len(q)
           /\ \A k \in 0..Len(p) : Via(a, p \o q, k) = Via(a, p, k)
           /\ \A k \in 0..Len(q) : Via(a, p \o q, Len(p) + k) = Via(b, q, k)
<1> DEFINE r == p \o q
           n == Len(p)
           m == Len(q)
<1>1. p \in Seq(ImportStatements) /\ q \in Seq(ImportStatements) /\ n \in Nat /\ m \in Nat
  BY DEF Walk
<1>2. /\ r \in Seq(ImportStatements) /\ Len(r) = n + m
      /\ \A k \in 1..n : r[k] = p[k]
      /\ \A k \in 1..m : r[n + k] = q[k]
  BY <1>1
<1>3. \A k \in 0..n : Via(a, r, k) = Via(a, p, k)
  <2>1. \A k \in 0..n : k = 0 \/ k \in 1..n
    BY <1>1
  <2> HIDE DEF r
  <2> QED BY <1>2, <2>1 DEF Via
<1>4. ASSUME NEW k \in 0..m PROVE Via(a, r, n + k) = Via(b, q, k)
  <2>1. CASE k = 0
    <3>1. n + k = n /\ n \in 0..n
      BY <1>1, <2>1
    <3> QED BY <1>3, <2>1, <3>1 DEF Via
  <2>2. CASE k # 0
    <3>1. k \in 1..m /\ n + k # 0
      BY <1>1, <1>4, <2>2
    <3> HIDE DEF r
    <3> QED BY <1>2, <2>2, <3>1 DEF Via
  <2> QED BY <2>1, <2>2
<1>5. ASSUME NEW k \in 1..(n + m) PROVE r[k][1] = Via(a, r, k - 1)
  <2>1. CASE k <= n
    <3>1. k \in 1..n /\ k - 1 \in 0..n
      BY <1>1, <1>5, <2>1
    <3>2. p[k][1] = Via(a, p, k - 1)
      BY <3>1 DEF Walk
    <3> HIDE DEF r
    <3> QED BY <1>2, <1>3, <3>1, <3>2
  <2>2. CASE ~(k <= n)
    <3> DEFINE j == k - n
    <3>1. j \in 1..m /\ j - 1 \in 0..m /\ n + j = k /\ n + (j - 1) = k - 1
      BY <1>1, <1>5, <2>2
    <3>2. q[j][1] = Via(b, q, j - 1)
      BY <3>1 DEF Walk
    <3>3. r[n + j][1] = Via(a, r, n + (j - 1))
      <4> HIDE DEF r, j
      <4> QED BY <1>2, <1>4, <3>1, <3>2
    <3> QED BY <3>1, <3>3
  <2> QED BY <2>1, <2>2
<1> HIDE DEF r
<1>6. Walk(a, r)
  BY <1>2, <1>5 DEF Walk
<1> QED BY <1>2, <1>3, <1>4, <1>6 DEF r
LEMMA OneStatement ==
    ASSUME program \in [Modules -> Source], NEW m \in Modules, NEW x \in DOMAIN program[m].imports
    PROVE  /\ Walk(m, <<<<m, x>>>>) /\ Len(<<<<m, x>>>>) = 1
           /\ Via(m, <<<<m, x>>>>, 1) = program[m].imports[x]
<1> DEFINE s == <<m, x>>
           t == <<s>>
<1>1. s \in ImportStatements /\ Imported(s) = program[m].imports[x] /\ s[1] = m
  BY StatementFacts
<1> HIDE DEF s
<1>2. t \in Seq(ImportStatements) /\ Len(t) = 1 /\ t[1] = s
  BY <1>1
<1> HIDE DEF t
<1>3. \A k \in 1..1 : k = 1 /\ k - 1 = 0
  OBVIOUS
<1>4. \A k \in 1..Len(t) : t[k][1] = Via(m, t, k - 1)
  BY <1>1, <1>2, <1>3 DEF Via
<1>5. Via(m, t, 1) = program[m].imports[x]
  BY <1>1, <1>2 DEF Via
<1> QED BY <1>2, <1>4, <1>5 DEF Walk, s, t

(* A walk goes on by one import statement of the module it has come to.    *)
NextStop(a, p, q, i) ==
    /\ Walk(a, q) /\ Len(q) = Len(p) + 1
    /\ \A k \in 0..Len(p) : Via(a, q, k) = Via(a, p, k)
    /\ Via(a, q, Len(q)) = i

LEMMA WalkOn ==
    ASSUME program \in [Modules -> Source], NEW a, NEW m \in Modules,
           NEW p, Walk(a, p), Via(a, p, Len(p)) = m, NEW x \in DOMAIN program[m].imports
    PROVE  NextStop(a, p, p \o <<<<m, x>>>>, program[m].imports[x])
<1> DEFINE t == <<<<m, x>>>>
           q == p \o t
<1>1. Walk(m, t)
  BY OneStatement
<1>2. Len(t) = 1 /\ Via(m, t, 1) = program[m].imports[x]
  BY OneStatement
<1> HIDE DEF t
<1>3. /\ Walk(a, q) /\ Len(q) = Len(p) + Len(t)
      /\ \A k \in 0..Len(p) : Via(a, q, k) = Via(a, p, k)
      /\ \A k \in 0..Len(t) : Via(a, q, Len(p) + k) = Via(m, t, k)
  BY <1>1, WalkJoin
<1> HIDE DEF q
<1>4. Via(a, q, Len(p) + 1) = program[m].imports[x]
  <2>1. 1 \in 0..Len(t)
    BY <1>2
  <2> QED BY <1>2, <1>3, <2>1
<1>5. Len(q) = Len(p) + 1
  BY <1>2, <1>3
<1> QED BY <1>3, <1>4, <1>5 DEF q, t, NextStop

(* What a module reaches it reaches along a walk that visits no module     *)
(* twice.                                                                  *)
LEMMA SimplePath ==
    ASSUME program \in [Modules -> Source], NEW a \in Modules, NEW b \in Reach(a)
    PROVE  \E p : Walk(a, p) /\ Simple(a, p) /\ Via(a, p, Len(p)) = b
<1> DEFINE OnWay(m) == \E p : Walk(a, p) /\ Simple(a, p) /\ Via(a, p, Len(p)) = m
           S == {m \in Modules : OnWay(m)}
<1>1. a \in S
  <2>1. Walk(a, <<>>) /\ Simple(a, <<>>) /\ Via(a, <<>>, Len(<<>>)) = a
    BY DEF Walk, Simple, Via
  <2> QED BY <2>1
<1>2. ASSUME NEW m \in S, NEW i \in Imports(m) PROVE i \in S
  <2>1. m \in Modules /\ i \in Modules
    BY ReachFacts DEF S
  <2>2. PICK p : Walk(a, p) /\ Simple(a, p) /\ Via(a, p, Len(p)) = m
    OBVIOUS
  <2> HIDE DEF OnWay, S
  <2> DEFINE n == Len(p)
  <2>3. n \in Nat /\ n \in 0..n
    BY <2>2, WalkFacts
  <2>4. CASE \E k \in 0..n : Via(a, p, k) = i
    <3>1. PICK k \in 0..n : Via(a, p, k) = i
      BY <2>4
    <3> DEFINE q == SubSeq(p, 1, k)
    <3>2. /\ Walk(a, q) /\ Len(q) = k
          /\ \A j \in 0..k : Via(a, q, j) = Via(a, p, j)
      BY <2>2, WalkPrefix
    <3>3. \A j \in 0..k : j \in 0..n
      BY <2>3
    <3>4. k \in 0..k
      BY <2>3
    <3> HIDE DEF q
    <3>5. Simple(a, q)
      BY <2>2, <3>2, <3>3 DEF Simple
    <3>6. Via(a, q, Len(q)) = i
      BY <3>1, <3>2, <3>4
    <3>7. OnWay(i)
      BY <3>2, <3>5, <3>6 DEF OnWay
    <3> QED BY <2>1, <3>7 DEF S
  <2>5. CASE \A k \in 0..n : Via(a, p, k) # i
    <3>1. PICK x \in DOMAIN program[m].imports : program[m].imports[x] = i
      BY DEF Imports, Range
    <3> DEFINE q == p \o <<<<m, x>>>>
    <3>2. NextStop(a, p, q, i)
      BY <2>1, <2>2, <3>1, WalkOn
    <3> HIDE DEF q
    <3>3. Simple(a, q)
      <4>1. \A k \in 0..(n + 1) : k \in 0..n \/ k = n + 1
        BY <2>3
      <4> HIDE DEF n
      <4>2. \A j, k \in 0..n : j # k => Via(a, p, j) # Via(a, p, k)
        BY <2>2 DEF Simple, n
      <4>3. \A k \in 0..n : Via(a, p, k) # i
        BY <2>5
      <4> QED BY <3>2, <4>1, <4>2, <4>3 DEF Simple, NextStop, n
    <3>4. OnWay(i)
      BY <3>2, <3>3 DEF OnWay, NextStop
    <3> QED BY <2>1, <3>4 DEF S
  <2> QED BY <2>4, <2>5
<1> HIDE DEF S
<1>3. Closed(S)
  BY <1>2 DEF Closed
<1>4. S \in SUBSET Modules
  BY DEF S
<1>5. b \in S
  BY <1>1, <1>3, <1>4 DEF Reach
<1> QED BY <1>5 DEF S

LEMMA SimpleIsShort ==
    ASSUME program \in [Modules -> Source], NEW a \in Modules, IsFiniteSet(Modules),
           NEW p, Walk(a, p), Simple(a, p)
    PROVE  Len(p) < Cardinality(Modules)
<1> DEFINE n == Len(p)
           f == [k \in 0..n |-> Via(a, p, k)]
<1>1. n \in Nat
  BY WalkFacts
<1>2. f \in [0..n -> Modules]
  BY WalkFacts
<1>3. \A j, k \in 0..n : j # k => f[j] # f[k]
  BY DEF Simple
<1>4. IsFiniteSet(0..n) /\ Cardinality(0..n) = n + 1
  BY <1>1, FS_Interval
<1>5. Cardinality(Modules) \in Nat
  BY FS_CardinalityType
<1> HIDE DEF f, n
<1>6. ~(Cardinality(Modules) < n + 1)
  <2>1. ASSUME Cardinality(Modules) < Cardinality(0..n)
        PROVE  \E j, k \in 0..n : j # k /\ f[j] = f[k]
    BY <1>2, <1>4, <2>1, FS_PigeonHole
  <2> QED BY <1>3, <1>4, <2>1
<1> QED BY <1>1, <1>5, <1>6 DEF n

LEMMA AcyclicWalkIsSimple ==
    ASSUME program \in [Modules -> Source], NEW a \in Modules, ~Cyclic(a),
           NEW p, Walk(a, p)
    PROVE  Simple(a, p)
<1> DEFINE n == Len(p)
<1>1. n \in Nat
  BY WalkFacts
<1>2. ASSUME NEW j \in 0..n, NEW k \in 0..n, j < k, Via(a, p, j) = Via(a, p, k)
      PROVE  FALSE
  <2>1. /\ j + 1 \in 1..n /\ (j + 1) - 1 = j /\ j + 1 \in 0..n /\ k \in (j + 1)..n
        /\ 0 \in 0..n /\ j \in 0..n
    BY <1>1, <1>2
  <2>2. Via(a, p, j + 1) \in Imports(Via(a, p, j))
    BY <2>1, WalkFacts
  <2>3. Via(a, p, k) \in Reach(Via(a, p, j + 1))
    BY <2>1, WalkReaches
  <2>4. Via(a, p, j) \in Reach(a)
    BY <2>1, WalkReaches DEF Via
  <2> QED BY <1>2, <2>2, <2>3, <2>4 DEF Cyclic
<1>3. \A j, k \in 0..n : j # k => j < k \/ k < j
  BY <1>1
<1> HIDE DEF n
<1>4. \A j, k \in 0..n : j # k => Via(a, p, j) # Via(a, p, k)
  BY <1>2, <1>3
<1> QED BY <1>4 DEF Simple, n

(* The import paths are the walks from Main that are not longer than there *)
(* are modules; when Main reaches no cycle, they are all of them.          *)
LEMMA PathIsWalk ==
    ASSUME IsFiniteSet(Modules), NEW p \in ImportPaths
    PROVE  Walk(Main, p) /\ End(p) = Via(Main, p, Len(p))
<1>1. Cardinality(Modules) \in Nat
  BY FS_CardinalityType
<1>2. PICK n \in 0..Cardinality(Modules) : p \in [1..n -> ImportStatements]
  BY DEF ImportPaths, BoundedSeq, SeqOf
<1>3. n \in Nat /\ p \in Seq(ImportStatements) /\ Len(p) = n /\ DOMAIN p = 1..n
  BY <1>1, <1>2
<1>4. ASSUME NEW k \in 1..n PROVE p[k][1] = Via(Main, p, k - 1)
  <2>1. p[k][1] = IF k = 1 THEN Main ELSE Imported(p[k - 1])
    BY <1>3 DEF ImportPaths, Connected
  <2>2. k = 1 <=> k - 1 = 0
    BY <1>3
  <2> QED BY <2>1, <2>2 DEF Via
<1>5. n = 0 <=> p = <<>>
  BY <1>3
<1> QED BY <1>3, <1>4, <1>5 DEF Walk, Via, End

LEMMA WalkIsPath ==
    ASSUME IsFiniteSet(Modules), NEW p, Walk(Main, p), Len(p) <= Cardinality(Modules)
    PROVE  p \in ImportPaths /\ End(p) = Via(Main, p, Len(p))
<1> DEFINE n == Len(p)
<1>1. Cardinality(Modules) \in Nat
  BY FS_CardinalityType
<1>2. p \in Seq(ImportStatements) /\ n \in Nat /\ DOMAIN p = 1..n
  BY DEF Walk
<1>3. p \in [1..n -> ImportStatements] /\ n \in 0..Cardinality(Modules)
  BY <1>1, <1>2
<1>4. p \in BoundedSeq(ImportStatements, Cardinality(Modules))
  BY <1>3 DEF BoundedSeq, SeqOf
<1>5. ASSUME NEW k \in 1..n PROVE p[k][1] = IF k = 1 THEN Main ELSE Imported(p[k - 1])
  <2>1. p[k][1] = Via(Main, p, k - 1)
    BY DEF Walk
  <2>2. k = 1 <=> k - 1 = 0
    BY <1>2
  <2> QED BY <2>1, <2>2 DEF Via
<1>6. n = 0 <=> p = <<>>
  BY <1>2
<1> QED BY <1>2, <1>4, <1>5, <1>6 DEF ImportPaths, Connected, Via, End

LEMMA AcyclicWalkIsPath ==
    ASSUME program \in [Modules -> Source], IsFiniteSet(Modules), ~Cyclic(Main),
           NEW p, Walk(Main, p)
    PROVE  p \in ImportPaths /\ End(p) = Via(Main, p, Len(p))
<1>1. Simple(Main, p)
  BY MainAssumption, AcyclicWalkIsSimple
<1>2. Len(p) < Cardinality(Modules)
  BY <1>1, MainAssumption, SimpleIsShort
<1>3. Len(p) \in Nat /\ Cardinality(Modules) \in Nat
  BY MainAssumption, WalkFacts, FS_CardinalityType
<1>4. Len(p) <= Cardinality(Modules)
  BY <1>2, <1>3
<1> QED BY <1>4, WalkIsPath
(* Two walks are the same, part at an import statement, or one ends where  *)
(* the other goes on.                                                      *)
Parts(a, p, q) == \E k \in DOMAIN p \cap DOMAIN q : p[k] # q[k] /\ p[k][1] = q[k][1]

EndsOn(a, p, q) == Len(p) < Len(q) /\ q[Len(p) + 1][1] = Via(a, p, Len(p))

LEMMA LongerWalk ==
    ASSUME NEW a, NEW p, NEW q, Walk(a, p), Walk(a, q), Len(p) < Len(q),
           \A k \in DOMAIN p : p[k] = q[k]
    PROVE  EndsOn(a, p, q)
<1>1. Len(p) \in Nat /\ Len(q) \in Nat /\ DOMAIN p = 1..Len(p)
  BY DEF Walk
<1>2. Len(p) + 1 \in 1..Len(q) /\ (Len(p) + 1) - 1 = Len(p)
  BY <1>1
<1>3. q[Len(p) + 1][1] = Via(a, q, Len(p))
  BY <1>2 DEF Walk
<1>4. Via(a, q, Len(p)) = Via(a, p, Len(p))
  <2>1. Len(p) # 0 => p[Len(p)] = q[Len(p)]
    BY <1>1
  <2> QED BY <2>1 DEF Via
<1> QED BY <1>3, <1>4 DEF EndsOn

LEMMA TwoWalks ==
    ASSUME NEW a, NEW p, NEW q, Walk(a, p), Walk(a, q)
    PROVE  p = q \/ Parts(a, p, q) \/ EndsOn(a, p, q) \/ EndsOn(a, q, p)
<1> DEFINE D == {k \in DOMAIN p \cap DOMAIN q : p[k] # q[k]}
<1>1. /\ Len(p) \in Nat /\ DOMAIN p = 1..Len(p) /\ p \in Seq(ImportStatements)
      /\ Len(q) \in Nat /\ DOMAIN q = 1..Len(q) /\ q \in Seq(ImportStatements)
  BY DEF Walk
<1>2. CASE D # {}
  <2>1. D \in SUBSET Nat
    BY <1>1
  <2>2. PICK k \in D : \A l \in D : k <= l
    <3> HIDE DEF D
    <3> QED BY <1>2, <2>1, HasLeast
  <2>3. k \in 1..Len(p) /\ k \in 1..Len(q) /\ k # 0 /\ p[k] # q[k]
    BY <1>1
  <2>4. k # 1 => /\ k - 1 \in DOMAIN p /\ k - 1 \in DOMAIN q /\ k - 1 \notin D
                 /\ k - 1 # 0
    <3>1. ASSUME k - 1 \in D PROVE FALSE
      <4>1. k <= k - 1
        BY <2>2, <3>1
      <4> QED BY <2>3, <4>1
    <3> HIDE DEF D
    <3> QED BY <1>1, <2>3, <3>1
  <2>5. Via(a, p, k - 1) = Via(a, q, k - 1)
    <3>1. CASE k = 1
      BY <3>1 DEF Via
    <3>2. CASE k # 1
      <4>1. p[k - 1] = q[k - 1]
        BY <2>4, <3>2
      <4> QED BY <2>4, <3>2, <4>1 DEF Via
    <3> QED BY <3>1, <3>2
  <2>6. p[k][1] = Via(a, p, k - 1) /\ q[k][1] = Via(a, q, k - 1)
    BY <2>3 DEF Walk
  <2> QED BY <1>1, <2>3, <2>5, <2>6 DEF Parts
<1>3. CASE D = {} /\ Len(p) = Len(q)
  <2>1. \A k \in 1..Len(p) : p[k] = q[k]
    BY <1>1, <1>3
  <2> QED BY <1>1, <1>3, <2>1
<1>4. CASE D = {} /\ Len(p) # Len(q)
  <2>1. \A k \in DOMAIN p \cap DOMAIN q : p[k] = q[k]
    BY <1>4
  <2>2. CASE Len(p) < Len(q)
    <3>1. \A k \in DOMAIN p : p[k] = q[k]
      BY <1>1, <2>1, <2>2
    <3> QED BY <2>2, <3>1, LongerWalk
  <2>3. CASE Len(q) < Len(p)
    <3>1. \A k \in DOMAIN q : q[k] = p[k]
      BY <1>1, <2>1, <2>3
    <3> QED BY <2>3, <3>1, LongerWalk
  <2>4. \A x, y \in Nat : x # y => x < y \/ y < x
    OBVIOUS
  <2>5. Len(p) < Len(q) \/ Len(q) < Len(p)
    BY <1>1, <1>4, <2>4
  <2> QED BY <2>2, <2>3, <2>5
<1> QED BY <1>2, <1>3, <1>4

-----------------------------------------------------------------------------
(* What it means for the import loader that a module is ready to be        *)
(* published.                                                              *)
Linkable(m) == Order!Ready(m) /\ program[m].present

LEMMA ReadyFacts ==
    ASSUME NEW m, Order!Ready(m)
    PROVE  /\ \A i \in Imports(m) : cache[i] # None
           /\ LET imp == program[m].imports
                  cls == program[m].classes
              IN  /\ \A i, j \in DOMAIN imp :
                       i # j => Names(cache[imp[i]].types) \cap Names(cache[imp[j]].types) = {}
                  /\ \A i, j \in DOMAIN cls : i # j => cls[i].name # cls[j].name
                  /\ \A i \in DOMAIN imp, j \in DOMAIN cls :
                       cls[j].name \notin Names(cache[imp[i]].types)
<1>1. \A i \in Imports(m) : cache[i] # None
  BY SameSourceTree DEF Order!Ready
<1>2. Order!NoNameTwice(m)
  BY DEF Order!Ready
<1> QED BY <1>1, <1>2 DEF Order!NoNameTwice, Order!Names, Names

LEMMA ReadyStays ==
    ASSUME NEW m, Order!Ready(m), program' = program,
           \A i \in Imports(m) : cache'[i] = cache[i]
    PROVE  Order!Ready(m)'
<1>1. \A i \in DOMAIN program[m].imports : cache'[program[m].imports[i]] = cache[program[m].imports[i]]
  BY DEF Imports, Range
<1>2. Order!NoNameTwice(m)'
  BY <1>1 DEF Order!Ready, Order!NoNameTwice, Order!Names
<1>3. Order!Imports(m)' = Imports(m)
  BY DEF Order!Imports, Order!Range, Imports, Range
<1>4. \A i \in Imports(m) : cache'[i] # None
  BY SameSourceTree DEF Order!Ready
<1> QED BY <1>2, <1>3, <1>4 DEF Order!Ready

(* Everything published was ready, and so was Main in an accepted program. *)
ReadyInv ==
    /\ \A m \in Modules : cache[m] # None => Linkable(m)
    /\ status = "accepted" => /\ Linkable(Main) /\ Len(stack) = 1
                              /\ Finished /\ raised = None

LEMMA ReadyInit == Init => ReadyInv
BY DEF Init, ReadyInv

LEMMA Unchanged ==
    ASSUME Next PROVE program' = program /\ status = "running"
BY DEF Next, ImportCached, ImportLoad, Crash, DeclareClass, DefineFunction,
       Return, Unwind, Reject, ResolveClasses, Running

LEMMA ReadyStep ==
    ASSUME TypeOK, LoaderInv, ReadyInv, [Next]_vars
    PROVE  ReadyInv'
<1>1. CASE UNCHANGED vars
  <2>1. \A m : Linkable(m)' = Linkable(m)
    BY <1>1 DEF vars, Linkable, Order!Ready, Order!NoNameTwice, Order!Imports, Order!Names, Order!Range
  <2>2. Finished' = Finished
    BY <1>1 DEF vars, Finished, AtImport, AtClass, AtFunction, Top, TopSource
  <2> QED BY <1>1, <2>1, <2>2 DEF ReadyInv, vars
<1>2. CASE Return
  <2>1. /\ Running /\ Finished /\ Len(stack) > 1 /\ program' = program
        /\ cache' = [cache EXCEPT ![Top.module] = Top.ti] /\ status' = status
    BY <1>2 DEF Return
  <2>2. Order!Ready(Top.module) /\ Top.module \in Modules /\ cache[Top.module] = None
    BY <2>1, FinishedIsReady, TopTyping, ReturningModuleIsOnce
  <2>3. ASSUME NEW m \in Modules, cache'[m] # None PROVE Linkable(m)'
    <3>1. Linkable(m)
      <4>1. CASE m = Top.module
        BY <2>1, <2>2, <4>1 DEF Linkable, Running, TopSource
      <4>2. CASE m # Top.module
        BY <2>1, <2>3, <4>2 DEF ReadyInv, TypeOK
      <4> QED BY <4>1, <4>2
    <3>2. \A i \in Imports(m) : cache'[i] = cache[i]
      <4>1. \A i \in Imports(m) : i # Top.module
        BY <2>2, <3>1, ReadyFacts DEF Linkable
      <4> QED BY <2>1, <4>1 DEF TypeOK
    <3>3. Order!Ready(m)'
      BY <2>1, <3>1, <3>2, ReadyStays DEF Linkable
    <3> QED BY <2>1, <3>1, <3>3 DEF Linkable
  <2>4. status' # "accepted"
    BY <2>1 DEF Running
  <2> QED BY <2>3, <2>4 DEF ReadyInv
<1>3. CASE Next /\ cache' = cache
  <2>1. program' = program /\ status = "running"
    BY <1>3, Unchanged
  <2>2. \A m : Linkable(m)' = Linkable(m)
    BY <1>3, <2>1 DEF Linkable, Order!Ready, Order!NoNameTwice, Order!Imports, Order!Names, Order!Range
  <2>3. CASE status' # "accepted"
    BY <1>3, <2>2, <2>3 DEF ReadyInv
  <2>4. CASE status' = "accepted"
    <3>1. ResolveClasses
      BY <1>3, <2>1, <2>4 DEF Next, ImportCached, ImportLoad, Crash, DeclareClass,
           DefineFunction, Return, Unwind, Reject
    <3>2. Running /\ Finished /\ Len(stack) = 1 /\ stack' = stack /\ raised' = raised
      BY <2>1, <2>4, <3>1 DEF ResolveClasses
    <3>3. Top.module = Main
      BY <3>2 DEF LoaderInv, StackIsImportPath, Top
    <3>4. Linkable(Main)
      BY <3>2, <3>3, FinishedIsReady DEF Linkable, Running, TopSource
    <3>5. Finished'
      BY <2>1, <3>2 DEF Finished, AtImport, AtClass, AtFunction, Top, TopSource
    <3> QED BY <1>3, <2>2, <3>2, <3>4, <3>5 DEF ReadyInv, Running
  <2> QED BY <2>3, <2>4
<1> QED BY <1>1, <1>2, <1>3 DEF Next, ImportCached, ImportLoad, Crash, DeclareClass,
           DefineFunction, Unwind, Reject, ResolveClasses
-----------------------------------------------------------------------------
(* What a module that could be linked imports could be linked as well, and *)
(* an import brings in every struct of the modules it reaches.             *)
LEMMA ReachIsLinkable ==
    ASSUME TypeOK, ReadyInv, Linkable(Main)
    PROVE  \A n \in Reach(Main) : Linkable(n)
<1> DEFINE S == {m \in Modules : Linkable(m)}
<1>1. ASSUME NEW m \in S, NEW i \in Imports(m) PROVE i \in S
  <2>1. i \in Modules
    BY ReachFacts DEF TypeOK
  <2>2. cache[i] # None
    BY ReadyFacts DEF Linkable
  <2> QED BY <2>1, <2>2 DEF ReadyInv
<1>2. Closed(S) /\ S \in SUBSET Modules /\ Main \in S
  BY <1>1, MainAssumption DEF Closed
<1> HIDE DEF S
<1>3. Reach(Main) \subseteq S
  BY <1>2 DEF Reach
<1> QED BY <1>3 DEF S

LEMMA CachedTypes ==
    ASSUME OP!OrderInv, NEW m \in Modules, cache[m] # None
    PROVE  /\ cache[m].types = UNION {OwnTypes(n) : n \in Reach(m)}
           /\ cache[m].functions = UNION {OwnKeys(n) : n \in Reach(m)}
<1>1. \A n : Order!Reach(n) = Reach(n)
  BY DEF Order!Reach, Reach, Order!Closed, Closed, Order!Imports, Imports, Order!Range, Range
<1>2. Order!ExportsAreReachableDeclarations
  BY InvExports DEF ExportsAreReachableDeclarations
<1> QED BY <1>1, <1>2, SameSourceTree DEF Order!ExportsAreReachableDeclarations

LEMMA ComesIn ==
    ASSUME TypeOK, OP!OrderInv, NEW m \in Modules, Linkable(m),
           NEW x \in DOMAIN program[m].imports,
           NEW n \in Reach(program[m].imports[x]), NEW j \in DOMAIN program[n].classes
    PROVE  program[n].classes[j].name \in Names(cache[program[m].imports[x]].types)
<1> DEFINE i == program[m].imports[x]
           name == program[n].classes[j].name
<1>1. i \in Imports(m)
  BY DEF Imports, Range
<1>2. i \in Modules /\ cache[i] # None
  BY <1>1, ReachFacts, ReadyFacts DEF Linkable, TypeOK
<1>3. <<name, n>> \in OwnTypes(n)
  BY DEF OwnTypes, Range
<1> HIDE DEF i, name
<1>4. n \in Reach(i)
  BY DEF i
<1>5. <<name, n>> \in cache[i].types
  BY <1>2, <1>3, <1>4, CachedTypes
<1>6. name \in Names(cache[i].types)
  BY <1>5, NameOfEntry
<1> QED BY <1>6 DEF i, name

(* Main comes by a struct along one path only: where two paths part, two   *)
(* imports bring it in; where one goes on, an import and a definition.     *)
SupplyOf(c, v) ==
    \E p \in ImportPaths : \E j \in DOMAIN program[End(p)].classes :
        v = <<p, j>> /\ program[End(p)].classes[j].name = c

LEMMA SupplyIs == ASSUME NEW c PROVE \A v : v \in Supply(c) <=> SupplyOf(c, v)
<1> DEFINE D(p) == {i \in DOMAIN program[End(p)].classes : program[End(p)].classes[i].name = c}
           F(p) == {<<p, j>> : j \in D(p)}
<1>1. Supply(c) = UNION {F(p) : p \in ImportPaths}
  BY DEF Supply
<1>2. \A v, p : v \in F(p) <=> \E j \in DOMAIN program[End(p)].classes :
        v = <<p, j>> /\ program[End(p)].classes[j].name = c
  OBVIOUS
<1> HIDE DEF F
<1> QED BY <1>1, <1>2 DEF SupplyOf

LEMMA NoPartingPaths ==
    ASSUME TypeOK, OP!OrderInv, ReadyInv, Linkable(Main),
           NEW p, NEW q, Walk(Main, p), Walk(Main, q),
           NEW i \in DOMAIN program[Via(Main, p, Len(p))].classes,
           NEW j \in DOMAIN program[Via(Main, q, Len(q))].classes,
           program[Via(Main, p, Len(p))].classes[i].name
             = program[Via(Main, q, Len(q))].classes[j].name
    PROVE  p = q /\ i = j
<1> DEFINE P(k) == Via(Main, p, k)
           Q(k) == Via(Main, q, k)
           c == program[P(Len(p))].classes[i].name
<1>0. program \in [Modules -> Source] /\ Main \in Modules
  BY MainAssumption DEF TypeOK
<1>1. Len(p) \in Nat /\ Len(q) \in Nat /\ DOMAIN p = 1..Len(p) /\ DOMAIN q = 1..Len(q)
  BY <1>0, WalkFacts
<1>2. ASSUME NEW r, Walk(Main, r), NEW k \in 1..Len(r),
             NEW l \in DOMAIN program[Via(Main, r, Len(r))].classes
      PROVE  /\ r[k][1] \in Modules /\ Linkable(r[k][1])
             /\ r[k][2] \in DOMAIN program[r[k][1]].imports /\ r[k] = <<r[k][1], r[k][2]>>
             /\ program[Via(Main, r, Len(r))].classes[l].name
                  \in Names(cache[program[r[k][1]].imports[r[k][2]]].types)
  <2> DEFINE m == r[k][1]
             x == r[k][2]
             n == Via(Main, r, Len(r))
  <2>1. Len(r) \in Nat /\ r[k] \in ImportStatements
    BY <1>0, <1>2, WalkFacts
  <2>2. m \in Modules /\ x \in DOMAIN program[m].imports /\ r[k] = <<m, x>>
    BY <1>0, <2>1, StatementFacts
  <2>3. m = Via(Main, r, k - 1) /\ program[m].imports[x] = Via(Main, r, k)
    <3>1. m = Via(Main, r, k - 1)
      BY <1>2 DEF Walk
    <3>2. k # 0
      BY <2>1
    <3>3. program[m].imports[x] = Imported(r[k])
      BY DEF Imported
    <3> QED BY <3>1, <3>2, <3>3 DEF Via
  <2>4. k - 1 \in 0..Len(r) /\ k \in 0..Len(r) /\ Len(r) \in k..Len(r) /\ 0 \in 0..Len(r)
        /\ k - 1 \in 0..Len(r)
    BY <2>1
  <2>5. m \in Reach(Main)
    <3>1. Via(Main, r, k - 1) \in Reach(Via(Main, r, 0))
      BY <1>0, <1>2, <2>4, WalkReaches
    <3> QED BY <2>3, <3>1 DEF Via
  <2>6. Linkable(m)
    BY <2>5, ReachIsLinkable
  <2>7. n \in Reach(program[m].imports[x])
    BY <1>0, <1>2, <2>3, <2>4, WalkReaches
  <2> HIDE DEF m, x, n
  <2>8. program[n].classes[l].name \in Names(cache[program[m].imports[x]].types)
    <3>1. l \in DOMAIN program[n].classes
      BY DEF n
    <3> QED BY <2>2, <2>6, <2>7, <3>1, ComesIn
  <2> QED BY <2>2, <2>6, <2>8 DEF m, x, n
<1>3. ~Parts(Main, p, q)
  <2> SUFFICES ASSUME NEW k \in 1..Len(p), k \in 1..Len(q), p[k] # q[k], p[k][1] = q[k][1]
               PROVE  FALSE
    BY <1>1 DEF Parts
  <2> DEFINE m == p[k][1]
             x == p[k][2]
             y == q[k][2]
  <2>1. /\ m \in Modules /\ Linkable(m) /\ x \in DOMAIN program[m].imports
        /\ c \in Names(cache[program[m].imports[x]].types) /\ p[k] = <<m, x>>
    BY <1>2
  <2>2. /\ y \in DOMAIN program[m].imports /\ q[k] = <<m, y>>
        /\ c \in Names(cache[program[m].imports[y]].types)
    BY <1>2
  <2>3. x # y
    BY <2>1, <2>2
  <2> HIDE DEF m, x, y, c
  <2> QED BY <2>1, <2>2, <2>3, ReadyFacts DEF Linkable
<1>4. ASSUME NEW s, NEW t, Walk(Main, s), Walk(Main, t), EndsOn(Main, s, t),
             NEW l \in DOMAIN program[Via(Main, s, Len(s))].classes,
             NEW h \in DOMAIN program[Via(Main, t, Len(t))].classes,
             program[Via(Main, s, Len(s))].classes[l].name
               = program[Via(Main, t, Len(t))].classes[h].name
      PROVE  FALSE
  <2> DEFINE k == Len(s) + 1
             m == t[k][1]
             y == t[k][2]
  <2>1. k \in 1..Len(t) /\ m = Via(Main, s, Len(s))
    <3>1. Len(s) \in Nat /\ Len(t) \in Nat
      BY <1>0, <1>4, WalkFacts
    <3> QED BY <1>4, <3>1 DEF EndsOn
  <2> HIDE DEF k
  <2>2. /\ m \in Modules /\ Linkable(m) /\ y \in DOMAIN program[m].imports
        /\ program[Via(Main, t, Len(t))].classes[h].name
             \in Names(cache[program[m].imports[y]].types)
    BY <1>2, <1>4, <2>1
  <2> HIDE DEF m, y
  <2>3. /\ l \in DOMAIN program[m].classes
        /\ program[m].classes[l].name \in Names(cache[program[m].imports[y]].types)
    BY <1>4, <2>1, <2>2
  <2> QED BY <2>2, <2>3, ReadyFacts DEF Linkable
<1>5. p = q
  BY <1>3, <1>4, TwoWalks
<1>6. i = j
  <2> DEFINE m == P(Len(p))
  <2>1. m \in Reach(Main)
    <3>1. Len(p) \in 0..Len(p) /\ 0 \in 0..Len(p)
      BY <1>1
    <3>2. P(Len(p)) \in Reach(Via(Main, p, 0))
      BY <1>0, <3>1, WalkReaches
    <3> QED BY <3>2 DEF Via
  <2>2. Order!Ready(m)
    BY <2>1, ReachIsLinkable DEF Linkable
  <2>3. /\ i \in DOMAIN program[m].classes /\ j \in DOMAIN program[m].classes
        /\ program[m].classes[i].name = program[m].classes[j].name
    BY <1>5
  <2> HIDE DEF m
  <2> QED BY <2>2, <2>3, ReadyFacts
<1> QED BY <1>5, <1>6

LEMMA OneSupply ==
    ASSUME IsFiniteSet(Modules), TypeOK, OP!OrderInv, ReadyInv, Linkable(Main)
    PROVE  /\ \A n \in Reach(Main) : program[n].present
           /\ \A c \in ClassNames : \A v, w \in Supply(c) : v = w
<1>1. \A n \in Reach(Main) : program[n].present
  BY ReachIsLinkable DEF Linkable
<1>2. ASSUME NEW c \in ClassNames, NEW v \in Supply(c), NEW w \in Supply(c) PROVE v = w
  <2>1. PICK p \in ImportPaths : \E j \in DOMAIN program[End(p)].classes :
               v = <<p, j>> /\ program[End(p)].classes[j].name = c
    BY SupplyIs DEF SupplyOf
  <2>2. PICK i \in DOMAIN program[End(p)].classes :
               v = <<p, i>> /\ program[End(p)].classes[i].name = c
    BY <2>1
  <2>3. PICK q \in ImportPaths : \E j \in DOMAIN program[End(q)].classes :
               w = <<q, j>> /\ program[End(q)].classes[j].name = c
    BY SupplyIs DEF SupplyOf
  <2>4. PICK j \in DOMAIN program[End(q)].classes :
               w = <<q, j>> /\ program[End(q)].classes[j].name = c
    BY <2>3
  <2>5. /\ Walk(Main, p) /\ End(p) = Via(Main, p, Len(p))
        /\ Walk(Main, q) /\ End(q) = Via(Main, q, Len(q))
    BY PathIsWalk
  <2>6. p = q /\ i = j
    BY <2>2, <2>4, <2>5, NoPartingPaths
  <2> QED BY <2>2, <2>4, <2>6
<1> QED BY <1>1, <1>2
-----------------------------------------------------------------------------
(* A module that is reached from Main, and that one of its imports does    *)
(* not reach back, gets what this import reaches along a path of Main.     *)
LEMMA ThroughStatement ==
    ASSUME program \in [Modules -> Source], IsFiniteSet(Modules),
           NEW p, Walk(Main, p), Simple(Main, p),
           NEW m \in Modules, Via(Main, p, Len(p)) = m,
           NEW x \in DOMAIN program[m].imports,
           NEW n \in Reach(program[m].imports[x]), m \notin Reach(program[m].imports[x])
    PROVE  \E q \in ImportPaths : /\ End(q) = n
                                  /\ q[Len(p) + 1] = <<m, x>>
<1> DEFINE i == program[m].imports[x]
           s == p \o <<<<m, x>>>>
           l == Len(p)
<1>0. Main \in Modules /\ l \in Nat /\ p \in Seq(ImportStatements)
  BY MainAssumption, WalkFacts DEF Walk
<1>1. i \in Modules
  <2>1. i \in Imports(m)
    BY DEF Imports, Range
  <2> QED BY <2>1, ReachFacts
<1>2. NextStop(Main, p, s, i)
  BY WalkOn
<1>3. s[l + 1] = <<m, x>>
  BY <1>0
<1>4. PICK r : Walk(i, r) /\ Simple(i, r) /\ Via(i, r, Len(r)) = n
  BY <1>1, SimplePath
<1> DEFINE q == s \o r
<1> HIDE DEF s, i
<1>5. Walk(Main, s) /\ Via(Main, s, Len(s)) = i
  BY <1>2 DEF NextStop
<1>6. /\ Walk(Main, q) /\ Len(q) = Len(s) + Len(r)
      /\ \A k \in 0..Len(s) : Via(Main, q, k) = Via(Main, s, k)
      /\ \A k \in 0..Len(r) : Via(Main, q, Len(s) + k) = Via(i, r, k)
  <2>1. Walk(i, r)
    BY <1>4
  <2> QED BY <1>5, <2>1, WalkJoin
<1>7. Len(s) = l + 1 /\ \A k \in 0..l : Via(Main, s, k) = Via(Main, p, k)
  BY <1>2 DEF NextStop
<1>8. Len(r) \in Nat /\ r \in Seq(ImportStatements) /\ s \in Seq(ImportStatements)
  BY <1>4, <1>5 DEF Walk
<1>9. q[l + 1] = <<m, x>>
  BY <1>0, <1>3, <1>7, <1>8
<1> HIDE DEF q
<1>10. /\ Len(q) = (l + 1) + Len(r)
       /\ \A k \in 0..l : Via(Main, q, k) = Via(Main, p, k)
       /\ \A k \in 0..Len(r) : Via(Main, q, (l + 1) + k) = Via(i, r, k)
  <2>1. \A k \in 0..l : k \in 0..Len(s)
    BY <1>0, <1>7
  <2> HIDE DEF l
  <2> QED BY <1>6, <1>7, <2>1
<1>11. ASSUME NEW j \in 0..l, NEW k \in 0..Len(r), Via(Main, p, j) = Via(i, r, k)
       PROVE  FALSE
  <2>1. l \in j..l /\ 0 \in 0..Len(r) /\ k \in 0..Len(r)
    BY <1>0, <1>8
  <2>2. m \in Reach(Via(Main, p, j))
    BY <1>0, <2>1, WalkReaches
  <2>3. Via(i, r, k) \in Reach(i)
    <3>1. Via(i, r, k) \in Reach(Via(i, r, 0))
      BY <1>1, <1>4, <2>1, WalkReaches
    <3> QED BY <3>1 DEF Via
  <2>4. Reach(Via(i, r, k)) \subseteq Reach(i)
    BY <1>1, <2>3, ReachFacts DEF Reach
  <2> QED BY <1>11, <2>2, <2>4 DEF i
<1>12. Simple(Main, q)
  <2>1. \A k \in 0..Len(q) : k \in 0..l \/ (k - (l + 1) \in 0..Len(r) /\ (l + 1) + (k - (l + 1)) = k)
    BY <1>0, <1>8, <1>10
  <2> SUFFICES ASSUME NEW j \in 0..Len(q), NEW k \in 0..Len(q), j # k
               PROVE  Via(Main, q, j) # Via(Main, q, k)
    BY DEF Simple
  <2> DEFINE h == j - (l + 1)
             g == k - (l + 1)
  <2>2. CASE j \in 0..l /\ k \in 0..l
    BY <1>10, <2>2 DEF Simple
  <2>3. CASE j \in 0..l /\ g \in 0..Len(r) /\ (l + 1) + g = k
    <3> HIDE DEF g, l
    <3>1. Via(Main, q, j) = Via(Main, p, j) /\ Via(Main, q, k) = Via(i, r, g)
      BY <1>10, <2>3
    <3> QED BY <1>11, <2>3, <3>1
  <2>4. CASE k \in 0..l /\ h \in 0..Len(r) /\ (l + 1) + h = j
    <3> HIDE DEF h, l
    <3>1. Via(Main, q, k) = Via(Main, p, k) /\ Via(Main, q, j) = Via(i, r, h)
      BY <1>10, <2>4
    <3> QED BY <1>11, <2>4, <3>1
  <2>5. CASE /\ h \in 0..Len(r) /\ (l + 1) + h = j
             /\ g \in 0..Len(r) /\ (l + 1) + g = k
    <3> HIDE DEF g, h, l
    <3>1. Via(Main, q, k) = Via(i, r, g) /\ Via(Main, q, j) = Via(i, r, h) /\ g # h
      BY <1>10, <2>5
    <3> QED BY <1>4, <2>5, <3>1 DEF Simple
  <2> QED BY <2>1, <2>2, <2>3, <2>4, <2>5
<1>13. Len(q) < Cardinality(Modules) /\ Len(q) \in Nat /\ Cardinality(Modules) \in Nat
  BY <1>0, <1>6, <1>12, SimpleIsShort, WalkFacts, FS_CardinalityType
<1>14. q \in ImportPaths /\ End(q) = Via(Main, q, Len(q))
  <2>1. Len(q) <= Cardinality(Modules)
    BY <1>13
  <2> QED BY <1>6, <2>1, WalkIsPath
<1>15. Via(Main, q, Len(q)) = n
  <2>1. Len(r) \in 0..Len(r)
    BY <1>8
  <2> HIDE DEF l
  <2> QED BY <1>4, <1>10, <2>1
<1> QED BY <1>9, <1>14, <1>15

(* Two imports of a module bring in one name: Main gets it twice.          *)
Twice == \E c \in ClassNames : \E v, w \in Supply(c) : v # w

LEMMA TwoImportsAreTwice ==
    ASSUME program \in [Modules -> Source], IsFiniteSet(Modules),
           NEW m \in Reach(Main), NEW x \in DOMAIN program[m].imports,
           NEW y \in DOMAIN program[m].imports, x # y,
           m \notin Reach(program[m].imports[x]), m \notin Reach(program[m].imports[y]),
           NEW n \in Reach(program[m].imports[x]), NEW o \in Reach(program[m].imports[y]),
           NEW i \in DOMAIN program[n].classes, NEW j \in DOMAIN program[o].classes,
           program[n].classes[i].name = program[o].classes[j].name
    PROVE  Twice
<1> DEFINE c == program[n].classes[i].name
<1>0. Main \in Modules /\ m \in Modules
  BY MainAssumption, ReachFacts
<1>1. PICK p : Walk(Main, p) /\ Simple(Main, p) /\ Via(Main, p, Len(p)) = m
  BY <1>0, SimplePath
<1>2. PICK q \in ImportPaths : End(q) = n /\ q[Len(p) + 1] = <<m, x>>
  BY <1>0, <1>1, ThroughStatement
<1>3. PICK r \in ImportPaths : End(r) = o /\ r[Len(p) + 1] = <<m, y>>
  BY <1>0, <1>1, ThroughStatement
<1>4. <<q, i>> \in Supply(c) /\ <<r, j>> \in Supply(c)
  BY <1>2, <1>3, SupplyIs DEF SupplyOf
<1>5. <<q, i>> # <<r, j>>
  BY <1>2, <1>3
<1>6. c \in ClassNames
  <2>1. program[m].imports[x] \in Imports(m)
    BY DEF Imports, Range
  <2>2. program[m].imports[x] \in Modules
    BY <1>0, <2>1, ReachFacts
  <2>3. n \in Modules
    BY <2>2, ReachFacts
  <2>4. program[n].classes \in Seq(ClassDef)
    BY <2>3, SourceTyping
  <2>5. program[n].classes[i] \in ClassDef
    BY <2>4
  <2> QED BY <2>5 DEF ClassDef
<1> QED BY <1>4, <1>5, <1>6 DEF Twice
LEMMA CachedReach ==
    ASSUME TypeOK, ReadyInv, NEW i \in Modules, cache[i] # None
    PROVE  \A n \in Reach(i) : cache[n] # None
<1> DEFINE S == {m \in Modules : cache[m] # None}
<1>1. ASSUME NEW m \in S, NEW k \in Imports(m) PROVE k \in S
  <2>1. k \in Modules
    BY ReachFacts DEF TypeOK
  <2>2. cache[k] # None
    BY ReadyFacts DEF ReadyInv, Linkable
  <2> QED BY <2>1, <2>2
<1>2. Closed(S) /\ S \in SUBSET Modules /\ i \in S
  BY <1>1 DEF Closed
<1> HIDE DEF S
<1>3. Reach(i) \subseteq S
  BY <1>2 DEF Reach
<1> QED BY <1>3 DEF S

LEMMA EntryOfName ==
    ASSUME NEW M, NEW c \in Names(UNION {OwnTypes(n) : n \in M})
    PROVE  \E n \in M : \E i \in DOMAIN program[n].classes : program[n].classes[i].name = c
<1>1. PICK e \in UNION {OwnTypes(n) : n \in M} : c = e[1]
  BY DEF Names
<1>2. PICK n \in M : e \in OwnTypes(n)
  BY <1>1
<1>3. PICK d \in Range(program[n].classes) : e = <<d.name, n>>
  BY <1>2 DEF OwnTypes
<1>4. PICK i \in DOMAIN program[n].classes : program[n].classes[i] = d
  BY <1>3 DEF Range
<1>5. program[n].classes[i].name = c
  BY <1>1, <1>3, <1>4
<1> QED BY <1>5

(* A merge that fails, in a frame fr that is at an import of i.            *)
LEMMA ClashIsTwice ==
    ASSUME TypeOK, IsFiniteSet(Modules), OP!OrderInv, ReadyInv,
           NEW fr \in Frame, fr.module \in Reach(Main), cache[fr.module] = None,
           FrameInv(fr, program[fr.module], cache),
           fr.imported < Len(program[fr.module].imports),
           NEW i, i = program[fr.module].imports[fr.imported + 1],
           fr.module \notin Reach(i),
           NEW ti, ti.types = UNION {OwnTypes(n) : n \in Reach(i)},
           ~Mergeable(fr, ti)
    PROVE  Twice
<1> DEFINE m == fr.module
           imp == program[m].imports
<1>1. /\ program \in [Modules -> Source] /\ m \in Modules
      /\ imp \in Seq(Modules) /\ fr.imported \in Nat
  BY SourceTyping DEF TypeOK, Frame
<1>2. fr.imported + 1 \in DOMAIN imp
  BY <1>1
<1>3. fr.declared = 0
  <2>1. fr.declared > 0 => fr.imported = Len(imp)
    BY DEF FrameInv, InOrder
  <2>2. fr.declared \in Nat /\ Len(imp) \in Nat
    BY <1>1 DEF Frame
  <2> QED BY <1>1, <2>1, <2>2
<1>4. fr.ti.types = UNION {cache[imp[j]].types : j \in 1..fr.imported}
  BY <1>3 DEF FrameInv, TableIsUnion
<1>5. PICK c : c \in Names(fr.ti.types) /\ c \in Names(ti.types)
  BY DEF Mergeable
<1>6. PICK o \in Reach(i) : \E k \in DOMAIN program[o].classes : program[o].classes[k].name = c
  BY <1>5, EntryOfName
<1>7. PICK k \in DOMAIN program[o].classes : program[o].classes[k].name = c
  BY <1>6
<1>8. PICK j \in 1..fr.imported : c \in Names(cache[imp[j]].types)
  BY <1>4, <1>5 DEF Names
<1>9. j \in DOMAIN imp /\ j # fr.imported + 1 /\ imp[j] \in Modules
  BY <1>1, <1>2, <1>8
<1>10. cache[imp[j]] # None
  BY <1>8 DEF FrameInv, ImportsAreCached
<1>11. cache[imp[j]].types = UNION {OwnTypes(n) : n \in Reach(imp[j])}
  BY <1>9, <1>10, CachedTypes
<1>12. PICK n \in Reach(imp[j]) : \E l \in DOMAIN program[n].classes : program[n].classes[l].name = c
  BY <1>8, <1>11, EntryOfName
<1>13. PICK l \in DOMAIN program[n].classes : program[n].classes[l].name = c
  BY <1>12
<1>14. m \notin Reach(imp[j])
  BY <1>9, <1>10, CachedReach
<1> QED BY <1>1, <1>2, <1>6, <1>7, <1>9, <1>12, <1>13, <1>14, TwoImportsAreTwice

-----------------------------------------------------------------------------
(* An import error comes from a struct that Main would get twice, and      *)
(* names a module that the frame it has come to imports.                   *)
ErrorInv ==
    /\ raised # None =>
         /\ raised.kind = "ImportError" => Twice
         /\ raised.kind = "CompilerError" => raised.of = None
         /\ raised.of # None => raised.of \in Imports(Top.module)
    /\ status = "rejected" => Len(stack) = 1 /\ raised # None

LEMMA ErrorInit == Init => ErrorInv
BY DEF Init, ErrorInv

LEMMA TwiceIsStatic == program' = program => Twice' = Twice
BY DEF Twice, Supply, ImportPaths, ImportStatements, Connected, End, Imported

LEMMA RaisesHere ==
    ASSUME NEW k \in {"ImportError", "CompilerError"}, Raise(k, None),
           k = "ImportError" => Twice, program' = program, status' # "rejected"
    PROVE  ErrorInv'
<1>1. raised'.kind = k /\ raised'.of = None /\ "CompilerError" # "ImportError"
  BY DEF Raise
<1>2. Twice' = Twice
  BY TwiceIsStatic
<1> QED BY <1>1, <1>2 DEF ErrorInv

LEMMA ErrorStep ==
    ASSUME IsFiniteSet(Modules), TypeOK, LoaderInv, PathOf(stack), OP!OrderInv, ReadyInv,
           ErrorInv, [Next]_vars
    PROVE  ErrorInv'
<1>0. program' = program /\ Twice' = Twice /\ \A m : Imports(m)' = Imports(m)
  <2>1. program' = program
    BY Unchanged DEF vars
  <2>2. Twice' = Twice
    BY <2>1, TwiceIsStatic
  <2> QED BY <2>1, <2>2 DEF Imports
<1>1. CASE UNCHANGED vars
  <2>1. Top' = Top
    BY <1>1 DEF Top, vars
  <2> QED BY <1>0, <1>1, <2>1 DEF ErrorInv, vars
<1> SUFFICES ASSUME Next PROVE ErrorInv'
  BY <1>1
<1>2. status = "running"
  BY Unchanged
<1>3. /\ Top \in Frame /\ Top.module \in Reach(Main) /\ cache[Top.module] = None
      /\ FrameInv(Top, program[Top.module], cache) /\ Top.module \in Modules
  <2>1. Len(stack) \in DOMAIN stack
    BY StackFacts
  <2>2. cache[stack[Len(stack)].module] = None
    BY <2>1 DEF LoaderInv, StackIsImportPath
  <2> QED BY <2>1, <2>2, StackFacts, TopTyping DEF PathOf, Top, TopSource
<1>4. CASE ImportCached
  <2>1. CASE UNCHANGED raised
    BY <1>2, <1>4, <2>1 DEF ImportCached, ErrorInv, Running
  <2>2. CASE ~Mergeable(Top, cache[NextImport]) /\ Raise("ImportError", None)
    <3>1. /\ NextImport \in Modules /\ cache[NextImport] # None
          /\ Top.imported < Len(program[Top.module].imports)
          /\ NextImport = program[Top.module].imports[Top.imported + 1]
      BY <1>4, ImportTyping DEF ImportCached, AtImport, TopSource, NextImport
    <3>2. Top.module \notin Reach(NextImport)
      BY <1>3, <3>1, CachedReach
    <3>3. cache[NextImport].types = UNION {OwnTypes(n) : n \in Reach(NextImport)}
      BY <3>1, CachedTypes
    <3>4. Twice
      BY <1>3, <2>2, <3>1, <3>2, <3>3, ClashIsTwice
    <3> QED BY <1>0, <1>2, <1>4, <2>2, <3>4, RaisesHere DEF ImportCached
  <2> QED BY <1>4, <2>1, <2>2 DEF ImportCached
<1>5. CASE DeclareClass \/ DefineFunction \/ ResolveClasses
  <2>1. CASE raised' = None
    BY <1>2, <1>5, <2>1 DEF ErrorInv, DeclareClass, DefineFunction, ResolveClasses
  <2>2. CASE Raise("CompilerError", None) /\ status' # "rejected"
    BY <1>0, <2>2, RaisesHere
  <2> QED BY <1>2, <1>5, <2>1, <2>2 DEF DeclareClass, DefineFunction, ResolveClasses, Running
<1>6. CASE Return
  <2>1. /\ Finished /\ Len(stack) > 1 /\ raised = None /\ status' = "running"
    BY <1>2, <1>6 DEF Return, Running
  <2>2. CASE UNCHANGED raised
    BY <2>1, <2>2 DEF ErrorInv
  <2>3. CASE ~Mergeable(Caller, Top.ti) /\ Raise("ImportError", None)
    <3> DEFINE n == Len(stack)
    <3>1. n \in Nat /\ n - 1 \in DOMAIN stack /\ n - 1 \in 1..(n - 1) /\ (n - 1) + 1 = n
      BY <2>1, StackFacts
    <3>2. /\ Caller \in Frame /\ Caller.module \in Reach(Main) /\ cache[Caller.module] = None
          /\ FrameInv(Caller, program[Caller.module], cache) /\ Caller.module \in Modules
      BY <3>1, StackFacts DEF PathOf, Caller, LoaderInv, StackIsImportPath
    <3>3. CalledBy(Top, Caller)
      <4>1. CalledBy(stack[(n - 1) + 1], stack[n - 1])
        BY <3>1 DEF LoaderInv, StackIsImportPath
      <4> QED BY <3>1, <4>1 DEF Top, Caller
    <3>4. Caller.module # Top.module
      BY <2>1, <3>1, ReturningModuleIsOnce DEF Caller
    <3>5. \A i \in Imports(Top.module) : i \in Modules /\ cache[i] # None
      BY <1>3, <2>1, FinishedIsReady, ReadyFacts, ReachFacts DEF TypeOK
    <3>6. Reach(Top.module) = {Top.module} \cup UNION {Reach(i) : i \in Imports(Top.module)}
      BY <1>3, ReachFacts DEF TypeOK
    <3>7. Caller.module \notin Reach(Top.module)
      BY <3>2, <3>4, <3>5, <3>6, CachedReach
    <3>8. Top.ti.types = UNION {OwnTypes(o) : o \in Reach(Top.module)}
      <4>1. Top.ti.types = OwnTypes(Top.module) \cup UNION {cache[i].types : i \in Imports(Top.module)}
        BY <2>1, FinishedIsReady, SameSourceTree DEF Order!Linked
      <4>2. \A i \in Imports(Top.module) : cache[i].types = UNION {OwnTypes(o) : o \in Reach(i)}
        BY <3>5, CachedTypes
      <4> QED BY <3>6, <4>1, <4>2
    <3>9. Twice
      <4>1. /\ Caller.imported < Len(program[Caller.module].imports)
            /\ Top.module = program[Caller.module].imports[Caller.imported + 1]
        BY <3>3 DEF CalledBy
      <4> QED BY <2>3, <3>2, <3>7, <3>8, <4>1, ClashIsTwice
    <3> QED BY <1>0, <2>1, <2>3, <3>9, RaisesHere
  <2> QED BY <1>6, <2>2, <2>3 DEF Return
<1>7. CASE Unwind
  <2>1. /\ Len(stack) > 1 /\ raised # None /\ stack' = Pop /\ status' = "running"
        /\ raised' = IF raised.kind = "CompilerError" THEN raised
                     ELSE [kind |-> "ImportError", of |-> Top.module]
    BY <1>2, <1>7 DEF Unwind
  <2> DEFINE n == Len(stack)
  <2>2. n \in Nat /\ n - 1 \in 1..(n - 1) /\ (n - 1) + 1 = n
    BY <2>1, StackFacts
  <2>3. Top' = Caller
    <3>1. Len(Pop) = n - 1 /\ Pop[n - 1] = stack[n - 1]
      BY <2>2 DEF Pop
    <3> QED BY <2>1, <3>1 DEF Top, Caller
  <2>4. CalledBy(Top, Caller)
    <3>1. CalledBy(stack[(n - 1) + 1], stack[n - 1])
      BY <2>2 DEF LoaderInv, StackIsImportPath
    <3> QED BY <2>2, <3>1 DEF Top, Caller
  <2>5. Top.module \in Imports(Caller.module)
    <3>1. Caller \in Frame
      BY <2>1, TopTyping
    <3>2. program[Caller.module].imports \in Seq(Modules) /\ Caller.imported \in Nat
      BY <3>1, SourceTyping DEF Frame, TypeOK
    <3>3. Caller.imported + 1 \in DOMAIN program[Caller.module].imports
      BY <2>4, <3>2 DEF CalledBy
    <3> QED BY <2>4, <3>3 DEF CalledBy, Imports, Range
  <2>6. CASE raised.kind = "CompilerError"
    BY <1>0, <2>1, <2>6 DEF ErrorInv
  <2>7. CASE raised.kind # "CompilerError"
    <3>1. raised.kind = "ImportError"
      BY <2>1, <2>7 DEF TypeOK, Errors
    <3>2. raised' = [kind |-> "ImportError", of |-> Top.module] /\ Twice
      BY <2>1, <2>7, <3>1 DEF ErrorInv
    <3>3. raised'.kind = "ImportError" /\ raised'.of = Top.module
      BY <3>2
    <3>4. raised'.of \in Imports(Top'.module)
      BY <2>3, <2>5, <3>3
    <3>5. (raised.of \in Imports(Top.module))'
      BY <1>0, <3>4
    <3> QED BY <1>0, <2>1, <3>2, <3>3, <3>5 DEF ErrorInv
  <2> QED BY <2>6, <2>7
<1>8. CASE Crash \/ Reject \/ ImportLoad
  <2>1. CASE raised = None
    BY <1>8, <2>1 DEF Crash, Reject, ImportLoad, Running, ErrorInv
  <2>2. CASE Reject
    <3>1. Top' = Top
      BY <2>2 DEF Reject, Top
    <3> QED BY <1>0, <2>2, <3>1 DEF Reject, ErrorInv
  <2> QED BY <1>8, <2>1, <2>2 DEF Crash, ImportLoad, Running
<1> QED BY <1>4, <1>5, <1>6, <1>7, <1>8 DEF Next

LEMMA InvsGiveOnePath ==
    ASSUME IsFiniteSet(Modules), TypeOK, LoaderInv, OP!OrderInv, ReadyInv, ErrorInv
    PROVE  OnePathPerStruct
<1>1. CASE status = "accepted"
  BY <1>1, OneSupply DEF ReadyInv, OnePathPerStruct
<1>2. CASE status = "rejected" /\ raised.kind = "ImportError"
  <2>1. Len(stack) = 1 /\ raised # None
    BY <1>2 DEF ErrorInv
  <2>2. Top.module = Main
    BY <2>1 DEF LoaderInv, StackIsImportPath, Top
  <2> QED BY <1>2, <2>1, <2>2 DEF ErrorInv, OnePathPerStruct, Twice
<1> QED BY <1>1, <1>2 DEF OnePathPerStruct

(* In an accepted program every struct comes to Main along one import      *)
(* path; an import error is never spurious, and names an import of Main.   *)
THEOREM OnePath == IsFiniteSet(Modules) => (Spec => []OnePathPerStruct)
<1> SUFFICES ASSUME IsFiniteSet(Modules) PROVE Spec => []OnePathPerStruct
  OBVIOUS
<1> DEFINE Inv == TypeOK /\ LoaderInv /\ PathOf(stack) /\ OP!OrderInv /\ ReadyInv /\ ErrorInv
<1>1. Init => Inv
  <2>1. ASSUME Init PROVE PathOf(stack)
    BY <2>1, TypeInit, PathInit DEF PathInv
  <2> QED BY <2>1, TypeInit, LoaderInit, RefinesInit, OrderProofsApply, ReadyInit, ErrorInit
<1>2. Inv /\ [Next]_vars => Inv'
  <2> SUFFICES ASSUME Inv, [Next]_vars PROVE Inv'
    OBVIOUS
  <2>1. OP!OrderInv'
    BY RefinesStep, OrderProofsApply
  <2> QED BY <2>1, TypeStep, LoaderStep, PathStays, ReadyStep, ErrorStep
<1>3. Inv => OnePathPerStruct
  BY InvsGiveOnePath
<1> QED BY <1>1, <1>2, <1>3, PTL DEF Spec
-----------------------------------------------------------------------------
(* The first declaration of a key along the walks from Main.               *)
FirstAt(p, i) ==
    LET fs == program[Via(Main, p, Len(p))].functions
    IN  /\ \A j \in 1..(i - 1) : fs[j].key # fs[i].key
        /\ \A q : Walk(Main, q) /\ LoadedBefore(q, p)
                    => fs[i].key \notin OwnKeys(Via(Main, q, Len(q)))

Origin(key, sig) ==
    \E p : /\ Walk(Main, p)
           /\ \E i \in DOMAIN program[Via(Main, p, Len(p))].functions :
                /\ program[Via(Main, p, Len(p))].functions[i].key = key
                /\ program[Via(Main, p, Len(p))].functions[i].sig = sig
                /\ FirstAt(p, i)

(* The bodies that Main has defined so far.                                *)
BodiesSoFar(key) == {i \in 1..stack[1].defined : /\ program[Main].functions[i].key = key
                                                 /\ program[Main].functions[i].body}

(* The functions of a cached module and the functions that a frame is past *)
(* are in the pool, every signature there is that of a first declaration,  *)
(* and every body is the only one that Main has defined.                   *)
CachedPooled == \A m \in Modules : cache[m] # None => \A key \in OwnKeys(m) : pool[key] # None

FramePooled(fr) == \A i \in 1..fr.defined : pool[program[fr.module].functions[i].key] # None

PoolInv ==
    /\ CachedPooled
    /\ \A k \in DOMAIN stack : FramePooled(stack[k])
    /\ \A key \in Keys : pool[key] # None =>
         /\ Origin(key, pool[key].sig)
         /\ BodiesSoFar(key) = IF pool[key].body = 0 THEN {} ELSE {pool[key].body}

LEMMA PoolInit == Init => PoolInv
<1> SUFFICES ASSUME Init PROVE PoolInv
  OBVIOUS
<1>1. stack = <<Enter(Main)>> /\ Enter(Main).defined = 0
  BY DEF Init, Enter
<1>2. \A k \in DOMAIN stack : stack[k].defined = 0
  BY <1>1
<1>3. \A key \in Keys : pool[key] = None
  BY DEF Init
<1>4. \A m \in Modules : cache[m] = None
  BY DEF Init
<1> QED BY <1>2, <1>3, <1>4 DEF PoolInv, CachedPooled, FramePooled

(* The import statements at which the frames of the stack are.             *)
StackWalk == [k \in 1..(Len(stack) - 1) |-> <<stack[k].module, stack[k].imported + 1>>]

LEMMA StackIsWalk ==
    ASSUME TypeOK, LoaderInv
    PROVE  /\ Walk(Main, StackWalk) /\ Len(StackWalk) = Len(stack) - 1
           /\ Via(Main, StackWalk, Len(StackWalk)) = Top.module
<1> DEFINE n == Len(stack)
           p == StackWalk
<1>1. n \in Nat \ {0} /\ DOMAIN stack = 1..n /\ program \in [Modules -> Source]
  BY StackFacts DEF TypeOK
<1>2. DOMAIN p = 1..(n - 1) /\ n - 1 \in Nat
  BY <1>1 DEF StackWalk
<1>3. ASSUME NEW k \in 1..(n - 1)
      PROVE  p[k] \in ImportStatements /\ Imported(p[k]) = stack[k + 1].module
  <2>1. k \in 1..n /\ k + 1 \in 1..n
    BY <1>1
  <2>2. CalledBy(stack[k + 1], stack[k])
    BY DEF LoaderInv, StackIsImportPath
  <2>3. stack[k] \in Frame /\ stack[k].module \in Modules
    BY <1>1, <2>1, StackFacts
  <2>4. program[stack[k].module].imports \in Seq(Modules) /\ stack[k].imported \in Nat
    BY <1>1, <2>3, SourceTyping DEF Frame
  <2>5. stack[k].imported + 1 \in DOMAIN program[stack[k].module].imports
    BY <2>2, <2>4 DEF CalledBy
  <2>6. p[k] = <<stack[k].module, stack[k].imported + 1>>
    BY DEF StackWalk
  <2> QED BY <1>1, <2>2, <2>3, <2>5, <2>6, StatementFacts DEF CalledBy
<1>4. p \in Seq(ImportStatements) /\ Len(p) = n - 1
  <2>1. p = [k \in 1..(n - 1) |-> p[k]]
    BY <1>2 DEF StackWalk
  <2> HIDE DEF p
  <2>2. p \in [1..(n - 1) -> ImportStatements]
    BY <1>3, <2>1
  <2> QED BY <1>2, <2>2
<1>5. ASSUME NEW k \in 0..(n - 1) PROVE Via(Main, p, k) = stack[k + 1].module
  <2>1. CASE k = 0
    <3>1. stack[1].module = Main
      BY DEF LoaderInv, StackIsImportPath
    <3> QED BY <2>1, <3>1 DEF Via
  <2>2. CASE k # 0
    <3>1. k \in 1..(n - 1)
      BY <1>1, <2>2
    <3> QED BY <1>3, <2>2, <3>1 DEF Via
  <2> QED BY <2>1, <2>2
<1>6. ASSUME NEW k \in 1..(n - 1) PROVE p[k][1] = Via(Main, p, k - 1)
  <2>1. k - 1 \in 0..(n - 1) /\ (k - 1) + 1 = k
    BY <1>1
  <2>2. p[k][1] = stack[k].module
    BY DEF StackWalk
  <2> HIDE DEF p
  <2> QED BY <1>5, <2>1, <2>2
<1>7. Via(Main, p, n - 1) = Top.module
  <2>1. n - 1 \in 0..(n - 1) /\ (n - 1) + 1 = n
    BY <1>1
  <2> HIDE DEF p
  <2> QED BY <1>5, <2>1 DEF Top
<1> QED BY <1>4, <1>6, <1>7 DEF Walk

(* What was loaded before the function that the top frame is at has been   *)
(* cached.                                                                 *)
LEMMA LoadedIsCached ==
    ASSUME TypeOK, LoaderInv, ReadyInv, AtFunction,
           NEW q, Walk(Main, q), LoadedBefore(q, StackWalk)
    PROVE  /\ Via(Main, q, Len(q)) \in Modules
           /\ cache[Via(Main, q, Len(q))] # None
<1> DEFINE n == Len(stack)
           p == StackWalk
<1>1. /\ n \in Nat \ {0} /\ DOMAIN stack = 1..n /\ program \in [Modules -> Source]
      /\ Main \in Modules
  BY StackFacts, MainAssumption DEF TypeOK
<1>2. /\ Walk(Main, p) /\ Len(p) = n - 1 /\ Via(Main, p, n - 1) = Top.module
  BY StackIsWalk
<1>3. /\ Len(q) \in Nat /\ DOMAIN q = 1..Len(q) /\ p \in Seq(ImportStatements)
      /\ DOMAIN p = 1..(n - 1) /\ q \in Seq(ImportStatements)
  BY <1>2 DEF Walk
<1>4. ASSUME NEW k \in 1..Len(q), NEW m \in Modules, q[k][1] = m, cache[Imported(q[k])] # None
      PROVE  /\ Via(Main, q, Len(q)) \in Modules
             /\ cache[Via(Main, q, Len(q))] # None
  <2>1. k \in 0..Len(q) /\ Len(q) \in k..Len(q) /\ k # 0 /\ Len(q) \in 0..Len(q)
    BY <1>3
  <2>2. Via(Main, q, k) = Imported(q[k])
    BY <2>1 DEF Via
  <2>3. Via(Main, q, Len(q)) \in Reach(Via(Main, q, k))
    BY <1>1, <2>1, WalkReaches
  <2>4. Via(Main, q, k) \in Modules /\ Via(Main, q, Len(q)) \in Modules
    BY <1>1, <2>1, WalkFacts
  <2> QED BY <1>4, <2>2, <2>3, <2>4, CachedReach
<1>5. CASE IsStrictPrefix(p, q)
  <2>1. Len(p) < Len(q) /\ \A k \in DOMAIN p : p[k] = q[k]
    <3>1. Len(p) <= Len(q) /\ SubSeq(p, 1, Len(p)) = SubSeq(q, 1, Len(p)) /\ p # q
      BY <1>5 DEF IsStrictPrefix, IsPrefix
    <3> HIDE DEF p
    <3>2. \A k \in DOMAIN p : p[k] = q[k]
      <4> TAKE k \in DOMAIN p
      <4>1. k \in 1..Len(p) /\ Len(p) \in 1..Len(q) /\ Len(p) \in Nat
        BY <1>2, <1>3, <3>1
      <4>2. SubSeq(p, 1, Len(p))[k] = p[k] /\ SubSeq(q, 1, Len(p))[k] = q[k]
        BY <1>3, <4>1
      <4> QED BY <3>1, <4>2
    <3>3. Len(p) # Len(q)
      BY <1>2, <1>3, <3>1, <3>2
    <3>4. \A x, y \in Nat : x <= y /\ x # y => x < y
      OBVIOUS
    <3>5. Len(p) \in Nat
      BY <1>3
    <3>6. Len(p) < Len(q)
      BY <1>3, <3>1, <3>3, <3>4, <3>5
    <3> QED BY <3>2, <3>6
  <2>2. EndsOn(Main, p, q)
    BY <1>2, <2>1, LongerWalk
  <2> DEFINE k == Len(p) + 1
  <2>3. k \in 1..Len(q) /\ q[k][1] = Top.module
    BY <1>1, <1>2, <1>3, <2>1, <2>2 DEF EndsOn
  <2>4. q[k] \in ImportStatements
    BY <1>1, <2>3, WalkFacts
  <2>5. Imported(q[k]) \in Imports(Top.module)
    BY <1>1, <2>3, <2>4, StatementFacts
  <2>6. cache[Imported(q[k])] # None
    <3>1. PICK x \in DOMAIN TopSource.imports : TopSource.imports[x] = Imported(q[k])
      BY <2>5 DEF Imports, Range, TopSource
    <3>2. x \in 1..Top.imported
      <4>1. TopSource.imports \in Seq(Modules) /\ ~(Top.imported < Len(TopSource.imports))
            /\ Top.imported \in Nat
        BY StackFacts, TopTyping DEF AtFunction, AtClass, AtImport, Source
      <4> QED BY <4>1
    <3> QED BY <3>1, <3>2, StackFacts DEF FrameInv, ImportsAreCached
  <2> HIDE DEF k
  <2> QED BY <1>4, <2>3, <2>6, TopTyping
<1> DEFINE TurnsAt(k) == /\ \A j \in 1..(k - 1) : q[j] = p[j]
                         /\ q[k][2] < p[k][2]
<1>6. CASE \E k \in DOMAIN p \cap DOMAIN q : TurnsAt(k)
  <2>1. PICK k \in DOMAIN p \cap DOMAIN q : TurnsAt(k)
    <3> HIDE DEF TurnsAt
    <3> QED BY <1>6
  <2>2. k \in 1..(n - 1) /\ k \in 1..Len(q) /\ k \in DOMAIN stack
    <3>1. k \in 1..(n - 1) /\ k \in 1..Len(q)
      BY <1>3
    <3> QED BY <1>1, <3>1, BelowTop
  <2>3. p[k] = <<stack[k].module, stack[k].imported + 1>>
    BY <2>2 DEF StackWalk
  <2>4. Via(Main, q, k - 1) = Via(Main, p, k - 1)
    <3>1. CASE k = 1
      BY <3>1 DEF Via
    <3>2. CASE k # 1
      <4>1. k - 1 \in 1..(k - 1)
        BY <2>2, <3>2
      <4> HIDE DEF p
      <4> QED BY <2>1, <4>1 DEF Via
    <3> QED BY <3>1, <3>2
  <2>5. q[k][1] = stack[k].module
    <3>1. q[k][1] = Via(Main, q, k - 1) /\ p[k][1] = Via(Main, p, k - 1)
      BY <1>2, <2>2 DEF Walk
    <3> QED BY <2>3, <2>4, <3>1
  <2>6. q[k] \in ImportStatements
    BY <1>1, <2>2, WalkFacts
  <2> DEFINE m == stack[k].module
             x == q[k][2]
  <2>7. m \in Modules /\ x \in Nat \ {0} /\ q[k] = <<m, x>> /\ stack[k].imported \in Nat
    BY <1>1, <2>2, <2>5, <2>6, StatementFacts, StackFacts DEF Frame
  <2>8. x < stack[k].imported + 1
    BY <2>1, <2>3
  <2>9. x \in 1..stack[k].imported
    <3> HIDE DEF x
    <3> QED BY <2>7, <2>8
  <2>10. cache[program[m].imports[x]] # None
    BY <2>2, <2>9, StackFacts DEF FrameInv, ImportsAreCached
  <2>11. Imported(q[k]) = program[m].imports[x]
    BY <2>5 DEF Imported
  <2> QED BY <1>4, <2>2, <2>5, <2>7, <2>10, <2>11
<1> QED BY <1>5, <1>6 DEF LoadedBefore
LEMMA OriginIsStatic == program' = program => \A key, sig : Origin(key, sig)' = Origin(key, sig)
BY DEF Origin, FirstAt, Walk, Via, ImportStatements, Imported, LoadedBefore, OwnKeys

(* A function whose key is new to the pool is its first declaration.       *)
LEMMA NewOrigin ==
    ASSUME TypeOK, LoaderInv, ReadyInv, PoolInv, AtFunction,
           NEW def, def = TopSource.functions[Top.defined + 1], pool[def.key] = None
    PROVE  Origin(def.key, def.sig)
<1> DEFINE p == StackWalk
           i == Top.defined + 1
           m == Via(Main, p, Len(p))
<1>1. Walk(Main, p) /\ m = Top.module
  BY StackIsWalk
<1> HIDE DEF p, m
<1>2. program[m].functions = TopSource.functions
  BY <1>1 DEF TopSource
<1>3. i \in DOMAIN TopSource.functions /\ Top.defined \in Nat
  <2>1. TopSource.functions \in Seq(FunctionDef) /\ Top.defined \in Nat
        /\ Top.defined < Len(TopSource.functions)
    BY StackFacts, TopTyping DEF AtFunction, Source
  <2> QED BY <2>1
<1>4. ASSUME NEW j \in 1..(i - 1) PROVE TopSource.functions[j].key # def.key
  <2>1. j \in 1..Top.defined
    BY <1>3
  <2>2. FramePooled(Top)
    BY StackFacts DEF PoolInv, Top
  <2> QED BY <2>1, <2>2 DEF FramePooled, TopSource
<1>5. ASSUME NEW q, Walk(Main, q), LoadedBefore(q, p)
      PROVE  def.key \notin OwnKeys(Via(Main, q, Len(q)))
  <2> DEFINE o == Via(Main, q, Len(q))
  <2>1. o \in Modules /\ cache[o] # None
    BY <1>5, LoadedIsCached DEF p
  <2> HIDE DEF o
  <2>2. def.key \notin OwnKeys(o)
    BY <2>1 DEF PoolInv, CachedPooled
  <2> QED BY <2>2 DEF o
<1>6. FirstAt(p, i)
  BY <1>2, <1>4, <1>5 DEF FirstAt, m
<1> QED BY <1>1, <1>2, <1>3, <1>6 DEF Origin, m

(* Only DefineFunction changes the pool or what a frame has defined.       *)
DefinedKept ==
    \A k \in DOMAIN stack' :
        \/ /\ k \in DOMAIN stack /\ stack'[k].module = stack[k].module
           /\ stack'[k].defined = stack[k].defined
        \/ k # 1 /\ stack'[k].defined = 0

LEMMA FramesKept ==
    ASSUME TypeOK, LoaderInv, Next, ~DefineFunction
    PROVE  pool' = pool /\ DefinedKept
<1>1. pool' = pool
  BY DEF Next, ImportCached, ImportLoad, Crash, DeclareClass, Return, Unwind, Reject, ResolveClasses
<1> SUFFICES DefinedKept
  BY <1>1
<1>2. Len(stack) \in Nat \ {0} /\ DOMAIN stack = 1..Len(stack) /\ stack \in Seq(Frame)
  BY StackFacts DEF TypeOK
<1> DEFINE Same == /\ DOMAIN stack' \subseteq DOMAIN stack
                   /\ \A k \in DOMAIN stack' : /\ stack'[k].module = stack[k].module
                                               /\ stack'[k].defined = stack[k].defined
<1>2a. Same => DefinedKept
  BY DEF DefinedKept
<1>3. ASSUME NEW fr, fr.module = Top.module, fr.defined = Top.defined, stack' = ReplaceTop(fr)
      PROVE  Same
  BY <1>2, <1>3 DEF ReplaceTop, Top
<1>4. CASE stack' = Pop
  <2>1. Same
    BY <1>2, <1>4 DEF Pop
  <2> QED BY <1>2a, <2>1
<1>5. ASSUME Len(stack) > 1, stack' = [Pop EXCEPT ![Len(stack) - 1] = Merge(Caller, Top.ti)]
      PROVE  Same
  <2> DEFINE fr == Merge(Caller, Top.ti)
             n == Len(stack)
  <2>1. fr.module = stack[n - 1].module /\ fr.defined = stack[n - 1].defined
    BY DEF Merge, Caller
  <2> HIDE DEF fr
  <2>2. /\ DOMAIN stack' = 1..(n - 1) /\ stack'[n - 1] = fr
        /\ \A k \in 1..(n - 1) : k # n - 1 => stack'[k] = stack[k]
    <3> DEFINE p == Pop
    <3>1. DOMAIN p = 1..(n - 1) /\ \A k \in 1..(n - 1) : p[k] = stack[k]
      BY DEF Pop
    <3>2. stack' = [p EXCEPT ![n - 1] = fr] /\ n - 1 \in 1..(n - 1)
      BY <1>2, <1>5 DEF fr
    <3> HIDE DEF p
    <3> QED BY <3>1, <3>2
  <2>3. \A k \in 1..(n - 1) : k \in 1..n
    BY <1>2
  <2> HIDE DEF n
  <2> QED BY <1>2, <2>1, <2>2, <2>3 DEF n
<1>6. CASE stack' = stack
  BY <1>6 DEF DefinedKept
<1> HIDE DEF Same
<1>7. /\ \A fr, ti : Merge(fr, ti).module = fr.module /\ Merge(fr, ti).defined = fr.defined
      /\ \A fr, name : /\ WithClass(fr, name).module = fr.module
                       /\ WithClass(fr, name).defined = fr.defined
  BY DEF Merge, WithClass
<1>8. CASE ImportCached
  BY <1>2a, <1>3, <1>6, <1>7, <1>8 DEF ImportCached
<1>9. CASE DeclareClass
  <2>1. stack' = stack \/ \E name : stack' = ReplaceTop(WithClass(Top, name))
    BY <1>9 DEF DeclareClass
  <2> QED BY <1>2a, <1>3, <1>6, <1>7, <2>1
<1>10. CASE Return
  <2>1. \/ Len(stack) > 1 /\ stack' = [Pop EXCEPT ![Len(stack) - 1] = Merge(Caller, Top.ti)]
        \/ stack' = Pop
    BY <1>10 DEF Return
  <2> QED BY <1>2a, <1>4, <1>5, <2>1
<1>11. CASE Unwind
  BY <1>4, <1>11 DEF Unwind
<1>12. CASE ImportLoad
  <2>1. stack' = Append(stack, Enter(NextImport)) /\ Enter(NextImport).defined = 0
    BY <1>12 DEF ImportLoad, Enter
  <2> DEFINE new == Enter(NextImport)
  <2> HIDE DEF new
  <2>2. /\ DOMAIN stack' = 1..(Len(stack) + 1)
        /\ stack'[Len(stack) + 1] = new
        /\ \A k \in 1..Len(stack) : stack'[k] = stack[k]
        /\ \A k \in 1..(Len(stack) + 1) : k \in 1..Len(stack) \/ (k = Len(stack) + 1 /\ k # 1)
    BY <1>2, <2>1 DEF new
  <2> QED BY <1>2, <2>1, <2>2 DEF DefinedKept, new
<1>13. CASE Crash \/ Reject \/ ResolveClasses
  BY <1>6, <1>13 DEF Crash, Reject, ResolveClasses
<1> QED BY <1>8, <1>9, <1>10, <1>11, <1>12, <1>13 DEF Next
LEMMA OwnKeysAreKeys ==
    ASSUME program \in [Modules -> Source], NEW m \in Modules
    PROVE  OwnKeys(m) \subseteq Keys
<1>1. program[m].functions \in Seq(FunctionDef)
  BY SourceTyping
<1>2. \A d \in Range(program[m].functions) : d \in FunctionDef
  BY <1>1 DEF Range
<1> QED BY <1>2 DEF OwnKeys, FunctionDef

LEMMA DefFacts ==
    ASSUME TypeOK, AtFunction, NEW def, def = TopSource.functions[Top.defined + 1]
    PROVE  /\ def.key \in Keys /\ def.sig \in Sigs /\ def.body \in BOOLEAN
           /\ \A i \in Nat : Body(def, i) \in Nat
           /\ \A b \in Nat : Pooled(def, b) \in Function /\ Pooled(def, b) # None
<1>1. TopSource.functions \in Seq(FunctionDef) /\ Top.defined \in Nat
  BY TopTyping, SourceTyping DEF TypeOK, TopSource
<1>2. def \in FunctionDef
  BY <1>1, NextElement DEF AtFunction
<1>3. def.key \in Keys /\ def.sig \in Sigs /\ def.body \in BOOLEAN
  BY <1>2 DEF FunctionDef
<1>4. ASSUME NEW b \in Nat PROVE Pooled(def, b) \in Function
  <2>1. pool[def.key] \in Function \cup {None}
    BY <1>3 DEF TypeOK
  <2> QED BY <1>3, <2>1 DEF Pooled, Function
<1>5. \A i \in Nat : Body(def, i) \in Nat
  BY DEF Body
<1> QED BY <1>3, <1>4, <1>5, NoObjectAssumption

(* A step that defines no function.                                        *)
LEMMA PoolStays ==
    ASSUME TypeOK, TypeOK', LoaderInv, ReadyInv, PoolInv, Next, ~DefineFunction
    PROVE  PoolInv'
<1>1. program' = program /\ pool' = pool /\ DefinedKept
  BY Unchanged, FramesKept
<1>2. \A m : OwnKeys(m)' = OwnKeys(m)
  BY <1>1 DEF OwnKeys
<1>3. CachedPooled'
  <2>1. ASSUME NEW m \in Modules, cache[m] # None, NEW key \in OwnKeys(m) PROVE pool[key] # None
    BY <2>1 DEF PoolInv, CachedPooled
  <2>2. CASE cache' = cache
    BY <1>1, <1>2, <2>1, <2>2 DEF CachedPooled
  <2>3. CASE Return
    <3>1. ASSUME NEW key \in OwnKeys(Top.module) PROVE pool[key] # None
      <4>1. 1..Top.defined = DOMAIN TopSource.functions
        BY <2>3, FinishedCounts DEF Return
      <4>2. FramePooled(Top)
        BY StackFacts DEF PoolInv, Top
      <4>3. PICK d \in Range(TopSource.functions) : d.key = key
        BY DEF OwnKeys, TopSource
      <4>4. PICK i \in DOMAIN TopSource.functions : TopSource.functions[i] = d
        BY <4>3 DEF Range
      <4> QED BY <4>1, <4>2, <4>3, <4>4 DEF FramePooled, TopSource
    <3>2. \A m \in Modules : m # Top.module => cache'[m] = cache[m]
      BY <2>3 DEF Return, TypeOK
    <3> QED BY <1>1, <1>2, <2>1, <3>1, <3>2 DEF CachedPooled
  <2> QED BY <2>2, <2>3 DEF Next, ImportCached, ImportLoad, Crash, DeclareClass,
             DefineFunction, Unwind, Reject, ResolveClasses
<1>4. ASSUME NEW k \in DOMAIN stack' PROVE FramePooled(stack[k])'
  <2>1. CASE stack'[k].defined = 0
    BY <2>1 DEF FramePooled
  <2>2. CASE /\ k \in DOMAIN stack /\ stack'[k].module = stack[k].module
             /\ stack'[k].defined = stack[k].defined
    <3>1. FramePooled(stack[k])
      BY <2>2 DEF PoolInv
    <3> QED BY <1>1, <2>2, <3>1 DEF FramePooled
  <2> QED BY <1>1, <2>1, <2>2 DEF DefinedKept
<1>5. stack'[1].defined = stack[1].defined
  <2>1. 1 \in DOMAIN stack'
    BY DEF TypeOK
  <2> QED BY <1>1, <2>1 DEF DefinedKept
<1>6. \A key : BodiesSoFar(key)' = BodiesSoFar(key)
  BY <1>1, <1>5 DEF BodiesSoFar
<1>7. ASSUME NEW key \in Keys, pool'[key] # None
      PROVE  (/\ Origin(key, pool[key].sig)
              /\ BodiesSoFar(key) = IF pool[key].body = 0 THEN {} ELSE {pool[key].body})'
  <2>1. /\ Origin(key, pool[key].sig)
        /\ BodiesSoFar(key) = IF pool[key].body = 0 THEN {} ELSE {pool[key].body}
    BY <1>1, <1>7 DEF PoolInv
  <2>2. Origin(key, pool[key].sig)' = Origin(key, pool[key].sig)
    BY <1>1, OriginIsStatic
  <2> QED BY <1>1, <1>6, <2>1, <2>2
<1> QED BY <1>3, <1>4, <1>7 DEF PoolInv

(* A step that does: the key it adds has its first declaration there.      *)
LEMMA PoolGrows ==
    ASSUME TypeOK, LoaderInv, ReadyInv, PoolInv, AtFunction, program' = program, cache' = cache,
           NEW def, def = TopSource.functions[Top.defined + 1],
           NEW b, b = Body(def, Top.defined + 1), ~Redefines(def, b),
           pool' = [pool EXCEPT ![def.key] = Pooled(def, b)],
           stack' = ReplaceTop(WithFunction(Top, def.key))
    PROVE  PoolInv'
<1> DEFINE n == Len(stack)
           i == Top.defined + 1
           new == WithFunction(Top, def.key)
<1>1. /\ def.key \in Keys /\ b \in Nat /\ def.body \in BOOLEAN
      /\ Pooled(def, b) # None /\ Pooled(def, b) \in Function
      /\ i \in Nat \ {0} /\ Top.defined \in Nat
  <2>1. Top.defined \in Nat
    BY TopTyping
  <2>2. i \in Nat \ {0} /\ i \in Nat
    BY <2>1
  <2>3. def.key \in Keys /\ def.body \in BOOLEAN /\ Body(def, i) \in Nat
    <3> HIDE DEF i
    <3> QED BY <2>2, DefFacts DEF i
  <2>4. Pooled(def, b) \in Function /\ Pooled(def, b) # None
    BY <2>3, DefFacts
  <2> QED BY <2>1, <2>2, <2>3, <2>4
<1>2. \A key \in Keys : pool'[key] = IF key = def.key THEN Pooled(def, b) ELSE pool[key]
  BY <1>1 DEF TypeOK
<1>3. \A key \in Keys : pool[key] # None => pool'[key] # None
  BY <1>1, <1>2
<1>4. CachedPooled'
  <2>1. \A m : OwnKeys(m)' = OwnKeys(m)
    BY DEF OwnKeys
  <2>2. \A m \in Modules : OwnKeys(m) \subseteq Keys
    BY OwnKeysAreKeys DEF TypeOK
  <2> QED BY <1>3, <2>1, <2>2 DEF PoolInv, CachedPooled
<1>5. /\ n \in Nat \ {0} /\ DOMAIN stack = 1..n /\ DOMAIN stack' = 1..n
      /\ \A k \in 1..n : stack'[k] = IF k = n THEN new ELSE stack[k]
      /\ new.module = Top.module /\ new.defined = i
  BY StackFacts DEF ReplaceTop, WithFunction
<1>6. ASSUME NEW k \in DOMAIN stack' PROVE FramePooled(stack[k])'
  <2> SUFFICES ASSUME NEW j \in 1..stack'[k].defined
               PROVE  pool'[program[stack'[k].module].functions[j].key] # None
    BY DEF FramePooled
  <2>1. CASE k = n /\ j = i
    BY <1>1, <1>2, <1>5, <2>1 DEF TopSource
  <2>2. CASE ~(k = n /\ j = i)
    <3>1. k \in DOMAIN stack /\ stack'[k].module = stack[k].module /\ j \in 1..stack[k].defined
      <4>1. CASE k = n
        <5>1. stack[k] = Top /\ stack'[k] = new /\ k \in DOMAIN stack
          BY <1>5, <1>6, <4>1 DEF Top
        <5>2. j \in 1..i /\ j # i
          BY <1>5, <2>2, <4>1, <5>1
        <5>3. j \in 1..Top.defined
          BY <1>1, <5>2
        <5> HIDE DEF new
        <5> QED BY <1>5, <5>1, <5>3
      <4>2. CASE k # n
        <5>1. stack'[k] = stack[k] /\ k \in DOMAIN stack
          BY <1>5, <1>6, <4>2
        <5> QED BY <5>1
      <4> QED BY <4>1, <4>2
    <3>2. pool[program[stack[k].module].functions[j].key] # None
      BY <3>1 DEF PoolInv, FramePooled
    <3>3. program[stack[k].module].functions[j].key \in Keys
      <4>1. /\ program[stack[k].module].functions \in Seq(FunctionDef)
            /\ stack[k].defined <= Len(program[stack[k].module].functions)
            /\ stack[k].defined \in Nat
        BY <3>1, StackFacts DEF Source, Frame, FrameInv, InOrder
      <4>2. program[stack[k].module].functions[j] \in FunctionDef
        BY <3>1, <4>1
      <4> QED BY <4>2 DEF FunctionDef
    <3> QED BY <1>3, <3>1, <3>2, <3>3
  <2> QED BY <2>1, <2>2
<1>7. ASSUME NEW key \in Keys, pool'[key] # None PROVE Origin(key, pool[key].sig)'
  <2>1. CASE pool[key] = None
    <3>1. key = def.key /\ pool'[key] = Pooled(def, b)
      BY <1>2, <1>7, <2>1
    <3>1a. Pooled(def, b).sig = def.sig
      BY <2>1, <3>1 DEF Pooled
    <3>2. Origin(def.key, def.sig)
      BY <2>1, <3>1, NewOrigin
    <3> QED BY <3>1, <3>1a, <3>2, OriginIsStatic
  <2>2. CASE pool[key] # None
    <3>1. Origin(key, pool[key].sig)
      BY <2>2 DEF PoolInv
    <3>2. pool'[key].sig = pool[key].sig
      BY <1>1, <1>2, <2>2, PooledKeeps
    <3> QED BY <3>1, <3>2, OriginIsStatic
  <2> QED BY <2>1, <2>2
<1>8. ASSUME NEW key \in Keys, pool'[key] # None
      PROVE  BodiesSoFar(key)' = IF pool'[key].body = 0 THEN {} ELSE {pool'[key].body}
  <2> DEFINE old == BodiesSoFar(key)
  <2>1. pool[key] = None => old = {}
    <3>1. 1 \in DOMAIN stack /\ stack[1].module = Main
      BY StackFacts DEF LoaderInv, StackIsImportPath
    <3>2. FramePooled(stack[1])
      BY <3>1 DEF PoolInv
    <3> QED BY <3>1, <3>2 DEF FramePooled, BodiesSoFar
  <2>2. pool[key] # None => old = IF pool[key].body = 0 THEN {} ELSE {pool[key].body}
    BY DEF PoolInv
  <2>3. CASE n > 1
    <3>0. 1 \in 1..n /\ 1 # n /\ Len(stack) # 1
      <4>1. \A x \in Nat : x > 1 => 1 \in 1..x /\ 1 # x
        OBVIOUS
      <4>2. n = Len(stack)
        OBVIOUS
      <4> HIDE DEF n
      <4> QED BY <1>5, <2>3, <4>1, <4>2
    <3>1. stack'[1] = stack[1] /\ b = 0
      <4>1. b = 0
        BY <3>0 DEF Body
      <4> HIDE DEF n, new
      <4>2. stack'[1] = stack[1]
        BY <1>5, <3>0
      <4> QED BY <4>1, <4>2
    <3>2. BodiesSoFar(key)' = old
      BY <3>1 DEF BodiesSoFar
    <3> HIDE DEF old
    <3>3. pool'[key] # None /\ pool'[key].body = IF pool[key] = None THEN 0 ELSE pool[key].body
      <4>1. Pooled(def, b).body = IF pool[def.key] = None THEN 0 ELSE pool[def.key].body
        BY <3>1 DEF Pooled
      <4> QED BY <1>2, <1>8, <4>1
    <3> QED BY <2>1, <2>2, <3>2, <3>3
  <2>4. CASE n = 1
    <3>1. /\ stack[1] = Top /\ stack'[1].defined = i /\ Top.module = Main
          /\ program[Main].functions[i] = def
      <4>1. stack[1] = Top /\ 1 \in 1..n /\ stack'[1] = new
        BY <1>5, <2>4 DEF Top
      <4>2. Top.module = Main
        BY <4>1 DEF LoaderInv, StackIsImportPath
      <4> HIDE DEF new
      <4> QED BY <1>5, <4>1, <4>2 DEF TopSource
    <3>2. b = (IF def.body THEN i ELSE 0)
      BY <2>4 DEF Body
    <3>3. 1..i = 1..Top.defined \cup {i} /\ i \notin 1..Top.defined
      BY <1>1
    <3>4. BodiesSoFar(key)' = old \cup (IF key = def.key /\ def.body THEN {i} ELSE {})
      BY <3>1, <3>3 DEF BodiesSoFar
    <3> HIDE DEF old
    <3>5. CASE key # def.key
      BY <1>2, <1>8, <2>2, <3>4, <3>5
    <3>6. CASE key = def.key /\ ~def.body
      <4>1. b = 0 /\ BodiesSoFar(key)' = old
        BY <3>2, <3>4, <3>6
      <4>2. Pooled(def, b).body = IF pool[def.key] = None THEN 0 ELSE pool[def.key].body
        BY <4>1 DEF Pooled
      <4>3. pool'[key] = Pooled(def, b)
        BY <1>2, <3>6
      <4> QED BY <2>1, <2>2, <3>6, <4>1, <4>2, <4>3
    <3>7. CASE key = def.key /\ def.body
      <4>1. b = i /\ b # 0 /\ BodiesSoFar(key)' = old \cup {i}
        BY <1>1, <3>2, <3>4, <3>7
      <4>2. pool'[key].body = i
        <5> HIDE DEF i
        <5>1. pool[key] # None => pool[key] \in Function
          BY DEF TypeOK
        <5>2. pool'[key] = Pooled(def, b)
          BY <1>2, <3>7
        <5>3. CASE pool[key] = None
          BY <3>7, <4>1, <5>2, <5>3 DEF Pooled
        <5>4. CASE pool[key] # None
          <6>1. Pooled(def, b) = [pool[key] EXCEPT !.body = b]
            BY <3>7, <4>1, <5>4 DEF Pooled
          <6> QED BY <4>1, <5>1, <5>2, <5>4, <6>1 DEF Function
        <5> QED BY <5>3, <5>4
      <4>3. old \subseteq {i}
        BY <2>1, <2>2, <3>7, <4>1 DEF Redefines
      <4> QED BY <1>1, <4>1, <4>2, <4>3
    <3> QED BY <1>1, <3>5, <3>6, <3>7
  <2>5. n = 1 \/ n > 1
    <3>1. \A x \in Nat \ {0} : x = 1 \/ x > 1
      OBVIOUS
    <3> HIDE DEF n
    <3> QED BY <1>5, <3>1
  <2> QED BY <2>3, <2>4, <2>5
<1> QED BY <1>4, <1>6, <1>7, <1>8 DEF PoolInv

LEMMA PoolStep ==
    ASSUME TypeOK, TypeOK', LoaderInv, ReadyInv, PoolInv, [Next]_vars
    PROVE  PoolInv'
<1>1. CASE UNCHANGED <<program, stack, cache, pool>>
  <2>1. \A key : BodiesSoFar(key)' = BodiesSoFar(key)
    BY <1>1 DEF BodiesSoFar
  <2>2. \A fr : FramePooled(fr)' = FramePooled(fr)
    BY <1>1 DEF FramePooled
  <2>3. CachedPooled' = CachedPooled
    BY <1>1 DEF CachedPooled, OwnKeys
  <2> QED BY <1>1, <2>1, <2>2, <2>3, OriginIsStatic DEF PoolInv
<1>2. CASE DefineFunction
  <2> DEFINE def == TopSource.functions[Top.defined + 1]
             b == Body(def, Top.defined + 1)
  <2>1. CASE /\ Definable(def, b) /\ pool' = [pool EXCEPT ![def.key] = Pooled(def, b)]
             /\ stack' = ReplaceTop(WithFunction(Top, def.key))
    <3>1. AtFunction /\ program' = program /\ cache' = cache /\ ~Redefines(def, b)
      BY <1>2, <2>1 DEF DefineFunction, Definable
    <3> HIDE DEF b
    <3> QED BY <2>1, <3>1, PoolGrows DEF b
  <2> QED BY <1>1, <1>2, <2>1 DEF DefineFunction
<1>3. CASE Next /\ ~DefineFunction
  BY <1>3, PoolStays
<1> QED BY <1>1, <1>2, <1>3 DEF vars

-----------------------------------------------------------------------------
LEMMA InvsGiveFirstWins ==
    ASSUME IsFiniteSet(Modules), TypeOK, LoaderInv, OP!OrderInv, ReadyInv, PoolInv
    PROVE  FirstDeclarationWins
<1> SUFFICES ASSUME status = "accepted", NEW key \in stack[1].ti.functions
             PROVE  /\ \E p \in ImportPaths : \E i \in DOMAIN program[End(p)].functions :
                         /\ program[End(p)].functions[i].key = key
                         /\ program[End(p)].functions[i].sig = pool[key].sig
                         /\ DeclaredFirst(p, i)
                    /\ {i \in DOMAIN program[Main].functions :
                             program[Main].functions[i].key = key
                             /\ program[Main].functions[i].body}
                         = IF pool[key].body = 0 THEN {} ELSE {pool[key].body}
  BY DEF FirstDeclarationWins
<1>1. Linkable(Main) /\ Len(stack) = 1 /\ Finished
  BY DEF ReadyInv
<1>2. /\ stack[1] = Top /\ Top.module = Main /\ 1 \in DOMAIN stack
      /\ TopSource = program[Main]
      /\ 1..Top.defined = DOMAIN program[Main].functions
  BY <1>1, StackFacts, FinishedCounts DEF Top, LoaderInv, StackIsImportPath, TopSource
<1>3. key \in Keys
  BY <1>2, TopTyping DEF TypeInfo
<1>4. pool[key] # None
  <2>1. key \in OwnKeys(Main) \cup UNION {cache[i].functions : i \in Imports(Main)}
    BY <1>1, <1>2, FinishedIsReady, SameSourceTree DEF Order!Linked
  <2>2. CASE key \in OwnKeys(Main)
    <3>1. PICK i \in DOMAIN program[Main].functions : program[Main].functions[i].key = key
      BY <2>2 DEF OwnKeys, Range
    <3>2. FramePooled(Top)
      BY <1>2 DEF PoolInv
    <3> QED BY <1>2, <3>1, <3>2 DEF FramePooled
  <2>3. CASE key \in UNION {cache[i].functions : i \in Imports(Main)}
    <3>1. PICK i \in Imports(Main) : key \in cache[i].functions
      BY <2>3
    <3>2. i \in Modules /\ cache[i] # None
      BY <1>1, MainAssumption, ReachFacts, ReadyFacts DEF TypeOK, Linkable
    <3>3. PICK n \in Reach(i) : key \in OwnKeys(n)
      BY <3>1, <3>2, CachedTypes
    <3>4. n \in Modules /\ cache[n] # None
      BY <3>2, ReachFacts, CachedReach DEF TypeOK
    <3> QED BY <3>3, <3>4 DEF PoolInv, CachedPooled
  <2> QED BY <2>1, <2>2, <2>3
<1>5. ~Cyclic(Main)
  <2>1. AcceptedMeansAcyclic
    BY InvAcyclic
  <2>2. Order!Cyclic(Main) = Cyclic(Main)
    BY DEF Order!Cyclic, Cyclic, Order!Reach, Reach, Order!Closed, Closed,
           Order!Imports, Imports, Order!Range, Range
  <2> QED BY <2>1, <2>2 DEF AcceptedMeansAcyclic, Order!AcceptedMeansAcyclic, Outcome
<1>6. PICK p : /\ Walk(Main, p)
               /\ \E i \in DOMAIN program[Via(Main, p, Len(p))].functions :
                    /\ program[Via(Main, p, Len(p))].functions[i].key = key
                    /\ program[Via(Main, p, Len(p))].functions[i].sig = pool[key].sig
                    /\ FirstAt(p, i)
  BY <1>3, <1>4 DEF PoolInv, Origin
<1>7. p \in ImportPaths /\ End(p) = Via(Main, p, Len(p))
  BY <1>5, <1>6, AcyclicWalkIsPath DEF TypeOK
<1>8. PICK i \in DOMAIN program[End(p)].functions :
        /\ program[End(p)].functions[i].key = key
        /\ program[End(p)].functions[i].sig = pool[key].sig
        /\ FirstAt(p, i)
  BY <1>6, <1>7
<1>9. DeclaredFirst(p, i)
  <2>1. \A j \in 1..(i - 1) : program[End(p)].functions[j].key # program[End(p)].functions[i].key
    BY <1>7, <1>8 DEF FirstAt
  <2>2. ASSUME NEW q \in ImportPaths, LoadedBefore(q, p)
        PROVE  program[End(p)].functions[i].key \notin OwnKeys(End(q))
    <3>1. Walk(Main, q) /\ End(q) = Via(Main, q, Len(q))
      BY PathIsWalk
    <3> QED BY <1>7, <1>8, <2>2, <3>1 DEF FirstAt
  <2> QED BY <2>1, <2>2 DEF DeclaredFirst
<1>10. BodiesSoFar(key) = IF pool[key].body = 0 THEN {} ELSE {pool[key].body}
  BY <1>3, <1>4 DEF PoolInv
<1> QED BY <1>2, <1>7, <1>8, <1>9, <1>10 DEF BodiesSoFar

(* In an accepted program every visible function has the signature of the  *)
(* declaration loaded first, and the only body Main has for it.            *)
THEOREM FirstWins == IsFiniteSet(Modules) => (Spec => []FirstDeclarationWins)
<1> SUFFICES ASSUME IsFiniteSet(Modules) PROVE Spec => []FirstDeclarationWins
  OBVIOUS
<1> DEFINE Inv == TypeOK /\ LoaderInv /\ OP!OrderInv /\ ReadyInv /\ PoolInv
<1>1. Init => Inv
  BY TypeInit, LoaderInit, RefinesInit, OrderProofsApply, ReadyInit, PoolInit
<1>2. Inv /\ [Next]_vars => Inv'
  <2> SUFFICES ASSUME Inv, [Next]_vars PROVE Inv'
    OBVIOUS
  <2>1. OP!OrderInv'
    BY RefinesStep, OrderProofsApply
  <2> QED BY <2>1, TypeStep, LoaderStep, ReadyStep, PoolStep
<1>3. Inv => FirstDeclarationWins
  BY InvsGiveFirstWins
<1> QED BY <1>1, <1>2, <1>3, PTL DEF Spec
=============================================================================
