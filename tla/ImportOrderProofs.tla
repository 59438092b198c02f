------------------------- MODULE ImportOrderProofs --------------------------
(***************************************************************************)
(* Proofs about ImportOrder, for every set of modules and source trees.    *)
(***************************************************************************)
EXTENDS ImportOrder, TLAPS

-----------------------------------------------------------------------------
(* Reachability by import statements.                                      *)
LEMMA ImportsAreModules ==
    ASSUME program \in [Modules -> Source], NEW m \in Modules
    PROVE  Imports(m) \subseteq Modules
<1>1. program[m].imports \in Seq(Modules)
  BY DEF Source
<1> QED BY <1>1 DEF Imports, Range

LEMMA ReachStaysClosed ==
    ASSUME NEW m \in Modules, NEW S \in SUBSET Modules, m \in S, Closed(S)
    PROVE  Reach(m) \subseteq S
BY DEF Reach

LEMMA ReachIsClosed ==
    ASSUME program \in [Modules -> Source], NEW m \in Modules
    PROVE  /\ Reach(m) \subseteq Modules
           /\ m \in Reach(m)
           /\ Closed(Reach(m))
<1>1. Reach(m) \subseteq Modules /\ m \in Reach(m)
  BY DEF Reach
<1>2. ASSUME NEW n \in Reach(m), NEW i \in Imports(n) PROVE i \in Reach(m)
  <2>1. n \in Modules
    BY <1>1, <1>2
  <2>2. i \in Modules
    BY <1>2, <2>1, ImportsAreModules
  <2>3. ASSUME NEW S \in SUBSET Modules, m \in S, Closed(S) PROVE i \in S
    <3>1. n \in S
      BY <1>2, <2>3 DEF Reach
    <3> QED BY <1>2, <2>3, <3>1 DEF Closed
  <2> QED BY <2>2, <2>3 DEF Reach
<1>3. Closed(Reach(m))
  BY <1>2 DEF Closed
<1> QED BY <1>1, <1>3

LEMMA ReachByImports ==
    ASSUME program \in [Modules -> Source], NEW m \in Modules
    PROVE  Reach(m) = {m} \cup UNION {Reach(i) : i \in Imports(m)}
<1> DEFINE R == {m} \cup UNION {Reach(i) : i \in Imports(m)}
<1>1. Imports(m) \subseteq Modules
  BY ImportsAreModules
<1>2. \A i \in Imports(m) : Reach(i) \subseteq Modules /\ i \in Reach(i) /\ Closed(Reach(i))
  BY <1>1, ReachIsClosed
<1>3. Reach(m) \subseteq R
  <2>1. R \subseteq Modules /\ m \in R
    BY <1>2
  <2>2. ASSUME NEW n \in R PROVE Imports(n) \subseteq R
    <3>1. CASE n = m
      BY <1>2, <3>1
    <3>2. CASE n # m
      <4>1. PICK i \in Imports(m) : n \in Reach(i)
        BY <2>2, <3>2
      <4>2. Imports(n) \subseteq Reach(i)
        BY <1>2, <4>1 DEF Closed
      <4> QED BY <4>1, <4>2
    <3> QED BY <3>1, <3>2
  <2>3. Closed(R)
    BY <2>2 DEF Closed
  <2> QED BY <2>1, <2>3, ReachStaysClosed
<1>4. R \subseteq Reach(m)
  <2>1. Reach(m) \subseteq Modules /\ m \in Reach(m) /\ Closed(Reach(m))
    BY ReachIsClosed
  <2>2. ASSUME NEW i \in Imports(m) PROVE Reach(i) \subseteq Reach(m)
    <3>1. i \in Reach(m) /\ i \in Modules
      BY <1>1, <2>1, <2>2 DEF Closed
    <3> QED BY <2>1, <3>1, ReachStaysClosed
  <2> QED BY <2>1, <2>2
<1> QED BY <1>3, <1>4

-----------------------------------------------------------------------------
(* The inductive invariant.  What is published is closed under imports, so *)
(* that a module reaches published modules only; that is what makes the    *)
(* declarations complete, and keeps a module from reaching itself.         *)
Published == {m \in Modules : exports[m] # None}

Complete(m) == /\ exports[m].types = UNION {OwnTypes(n) : n \in Reach(m)}
               /\ exports[m].functions = UNION {OwnKeys(n) : n \in Reach(m)}

OrderInv ==
    /\ program \in [Modules -> Source]
    /\ exports = [m \in Modules |-> exports[m]]
    /\ \A m \in Published : /\ Imports(m) \subseteq Published
                            /\ Complete(m)
                            /\ ~Cyclic(m)
    /\ outcome = "accepted" => ~Cyclic(Main)

LEMMA PublishedReach ==
    ASSUME OrderInv, NEW m \in Published
    PROVE  Reach(m) \subseteq Published
<1>1. m \in Modules /\ Published \subseteq Modules
  BY DEF Published
<1>2. Closed(Published)
  BY DEF OrderInv, Closed
<1> QED BY <1>1, <1>2, ReachStaysClosed

(* What a module that is ready may rely on.                                *)
LEMMA ReadyIsAcyclic ==
    ASSUME OrderInv, NEW m \in Modules, Imports(m) \subseteq Published,
           m \notin Published
    PROVE  ~Cyclic(m)
<1> SUFFICES ASSUME NEW n \in Reach(m), NEW i \in Imports(n), n \in Reach(i)
             PROVE  FALSE
  BY DEF Cyclic
<1>1. Reach(m) = {m} \cup UNION {Reach(j) : j \in Imports(m)}
  BY ReachByImports DEF OrderInv
<1>2. CASE n = m
  <2>1. Reach(i) \subseteq Published
    BY <1>2, PublishedReach
  <2> QED BY <1>2, <2>1
<1>3. CASE n # m
  <2>1. PICK j \in Imports(m) : n \in Reach(j)
    BY <1>1, <1>3
  <2>2. j \in Published
    BY <2>1
  <2>3. Cyclic(j)
    BY <2>1 DEF Cyclic
  <2> QED BY <2>2, <2>3 DEF OrderInv
<1> QED BY <1>2, <1>3

LEMMA ReadyIsComplete ==
    ASSUME OrderInv, NEW m \in Modules, Imports(m) \subseteq Published
    PROVE  /\ Linked(m).types = UNION {OwnTypes(n) : n \in Reach(m)}
           /\ Linked(m).functions = UNION {OwnKeys(n) : n \in Reach(m)}
<1>1. Reach(m) = {m} \cup UNION {Reach(i) : i \in Imports(m)}
  BY ReachByImports DEF OrderInv
<1>2. \A i \in Imports(m) : Complete(i)
  BY DEF OrderInv
<1>3. UNION {OwnTypes(n) : n \in Reach(m)}
        = OwnTypes(m) \cup UNION {exports[i].types : i \in Imports(m)}
  BY <1>1, <1>2 DEF Complete
<1>4. UNION {OwnKeys(n) : n \in Reach(m)}
        = OwnKeys(m) \cup UNION {exports[i].functions : i \in Imports(m)}
  BY <1>1, <1>2 DEF Complete
<1> QED BY <1>3, <1>4 DEF Linked

-----------------------------------------------------------------------------
LEMMA OrderInit == Init => OrderInv
BY ProgramsAssumption DEF Init, OrderInv, Published

LEMMA SameProgram ==
    ASSUME program' = program
    PROVE  /\ \A m : Imports(m)' = Imports(m)
           /\ \A m : Reach(m)' = Reach(m) /\ Cyclic(m)' = Cyclic(m)
           /\ \A m : OwnTypes(m)' = OwnTypes(m) /\ OwnKeys(m)' = OwnKeys(m)
BY DEF Imports, Reach, Closed, Cyclic, OwnTypes, OwnKeys

LEMMA OrderStep == OrderInv /\ [Next]_vars => OrderInv'
<1> SUFFICES ASSUME OrderInv, [Next]_vars PROVE OrderInv'
  OBVIOUS
<1>1. ASSUME NEW m \in Modules, Publish(m) PROVE OrderInv'
  <2>1. program' = program /\ outcome' = outcome /\ outcome = "running"
    BY <1>1 DEF Publish
  <2>2. m \notin Published /\ Imports(m) \subseteq Published
    <3>1. Imports(m) \subseteq Modules
      BY ImportsAreModules DEF OrderInv
    <3> QED BY <1>1, <3>1 DEF Publish, Ready, Published
  <2>3. /\ exports' = [n \in Modules |-> exports'[n]]
        /\ exports'[m] = Linked(m)
        /\ \A n \in Modules : n # m => exports'[n] = exports[n]
    BY <1>1 DEF Publish, OrderInv
  <2>4. Published \subseteq Published' /\ Published' \subseteq Published \cup {m}
    BY <2>2, <2>3 DEF Published
  <2>5. ASSUME NEW n \in Published'
        PROVE  (Imports(n) \subseteq Published /\ Complete(n) /\ ~Cyclic(n))'
    <3>1. CASE n = m
      <4>1. ~Cyclic(m)
        BY <2>2, ReadyIsAcyclic
      <4>2. /\ exports'[m].types = UNION {OwnTypes(k) : k \in Reach(m)}
            /\ exports'[m].functions = UNION {OwnKeys(k) : k \in Reach(m)}
        BY <2>2, <2>3, ReadyIsComplete
      <4>3. Complete(m)'
        BY <2>1, <4>2, SameProgram DEF Complete
      <4> QED BY <2>1, <2>2, <2>4, <3>1, <4>1, <4>3, SameProgram
    <3>2. CASE n # m
      <4>1. n \in Published /\ n \in Modules
        BY <2>4, <2>5, <3>2 DEF Published
      <4>2. Imports(n) \subseteq Published /\ Complete(n) /\ ~Cyclic(n)
        BY <4>1 DEF OrderInv
      <4>3. exports'[n] = exports[n]
        BY <2>3, <3>2, <4>1
      <4>4. Complete(n)'
        BY <2>1, <4>2, <4>3, SameProgram DEF Complete
      <4> QED BY <2>1, <2>4, <4>2, <4>4, SameProgram
    <3> QED BY <3>1, <3>2
  <2> QED BY <2>1, <2>3, <2>5, SameProgram DEF OrderInv
<1>2. ASSUME UNCHANGED <<program, exports>> PROVE
        /\ (program \in [Modules -> Source] /\ exports = [m \in Modules |-> exports[m]])'
        /\ \A m \in Published' :
             (Imports(m) \subseteq Published /\ Complete(m) /\ ~Cyclic(m))'
        /\ Cyclic(Main)' = Cyclic(Main)
  <2>1. Published' = Published
    BY <1>2 DEF Published
  <2>2. \A m : Complete(m)' = Complete(m)
    BY <1>2, SameProgram DEF Complete
  <2> QED BY <1>2, <2>1, <2>2, SameProgram DEF OrderInv
<1>3. CASE Accept
  <2>1. Main \notin Published => ~Cyclic(Main)
    <3>1. Imports(Main) \subseteq Modules
      BY MainAssumption, ImportsAreModules DEF OrderInv
    <3>2. Imports(Main) \subseteq Published
      BY <1>3, <3>1 DEF Accept, Ready, Published
    <3> QED BY <3>2, MainAssumption, ReadyIsAcyclic
  <2>2. ~Cyclic(Main)
    BY <2>1 DEF OrderInv
  <2> QED BY <1>2, <1>3, <2>2 DEF Accept, OrderInv
<1>4. CASE Fail
  BY <1>2, <1>4 DEF Fail, OrderInv
<1>5. CASE UNCHANGED vars
  BY <1>2, <1>5 DEF vars, OrderInv
<1> QED BY <1>1, <1>3, <1>4, <1>5 DEF Next

THEOREM OrderCorrect == Spec => []OrderInv
BY OrderInit, OrderStep, PTL DEF Spec

(* Every published table holds exactly the declarations of the modules     *)
(* reached from its module: what merge in getTypes amounts to.             *)
THEOREM ExportsComplete == Spec => []ExportsAreReachableDeclarations
<1>1. OrderInv => ExportsAreReachableDeclarations
  BY DEF OrderInv, ExportsAreReachableDeclarations, Published, Complete
<1> QED BY <1>1, OrderCorrect, PTL

(* A program that reaches an import cycle is never accepted.               *)
THEOREM AcceptedIsAcyclic == Spec => []AcceptedMeansAcyclic
<1>1. OrderInv => AcceptedMeansAcyclic
  BY DEF OrderInv, AcceptedMeansAcyclic
<1> QED BY <1>1, OrderCorrect, PTL
=============================================================================
