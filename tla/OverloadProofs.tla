---------------------------- MODULE OverloadProofs ---------------------------
(***************************************************************************)
(* Proof that the outcome of a call does not depend on the order in which  *)
(* Functions::resolve meets the candidates, for every set of declarations, *)
(* every call and every set of types.                                      *)
(***************************************************************************)
EXTENDS Overload, FiniteSetTheorems, TLAPS

Score(f) == Matches(f, call.args)
Met == Candidates \ pending

TypesOK ==
    /\ call \in [decls : Seq(Declaration), args : Seq(Types)]
    /\ declared \in Nat
    /\ Candidates \subseteq Declaration
    /\ outcome \in {"declaring", "resolving", "resolved", "undeclared", "ambiguous"}
    /\ bestScore \in Nat
    /\ IsFiniteSet(matches)

(* The best of the candidates met so far.                                  *)
BestSoFar ==
    /\ \A f \in Met : Score(f) <= bestScore
    /\ matches = {f \in Met : Score(f) = bestScore /\ bestScore > 0}
    /\ bestScore > 0 => matches # {}

VerdictFits ==
    /\ outcome = "undeclared" <=> Decided /\ matches = {}
    /\ outcome = "resolved" <=> Decided /\ \E f : matches = {f}

IInv ==
    /\ TypesOK
    /\ outcome = "declaring" => matches = {} /\ bestScore = 0
    /\ outcome # "declaring" => pending \subseteq Candidates /\ BestSoFar
    /\ Decided => pending = {}
    /\ VerdictFits

LEMMA ScoreIsNat ==
    ASSUME NEW f \in Declaration, NEW args
    PROVE  Matches(f, args) \in Nat
<1>1. Len(f.formals) \in Nat /\ DOMAIN f.formals = 1..Len(f.formals)
  BY DEF Declaration
<1>2. IsFiniteSet(DOMAIN f.formals)
  BY <1>1, FS_Interval
<1>3. Exact(f, args) \in SUBSET DOMAIN f.formals
  BY DEF Exact
<1>4. Cardinality(Exact(f, args)) \in Nat
  BY <1>2, <1>3, FS_Subset, FS_CardinalityType
<1> QED
  BY <1>1, <1>4 DEF Matches

LEMMA InitHolds == Init => IInv
<1> SUFFICES ASSUME Init
             PROVE  IInv
  OBVIOUS
<1>1. call \in [decls : Seq(Declaration), args : Seq(Types)]
  BY CallsAssumption DEF Init
<1>2. Candidates = {}
  BY DEF Init, Candidates, Range
<1>3. IsFiniteSet(matches)
  BY FS_EmptySet DEF Init
<1> QED
  BY <1>1, <1>2, <1>3 DEF Init, IInv, TypesOK, VerdictFits, Decided

LEMMA DeclareKeeps ==
    ASSUME IInv, Declare
    PROVE  IInv'
<1> DEFINE d == call.decls[declared + 1]
<1>1. d \in Declaration
  BY DEF IInv, TypesOK, Declare
<1>2. \A k \in DOMAIN pool : pool[k] \in Declaration
  BY DEF IInv, TypesOK, Candidates, Range
<1>3. pool' = [k \in DOMAIN pool \cup {Key(d)} |-> IF k \in DOMAIN pool THEN pool[k] ELSE d]
  BY DEF Declare
<1>4. Candidates' \subseteq Declaration
  BY <1>1, <1>2, <1>3 DEF Candidates, Range
<1>5. TypesOK'
  BY <1>4 DEF IInv, TypesOK, Declare
<1> QED
  BY <1>5 DEF IInv, Declare, VerdictFits, Decided

LEMMA StartResolveKeeps ==
    ASSUME IInv, StartResolve
    PROVE  IInv'
<1>1. Candidates' = Candidates /\ Met' = {}
  BY DEF StartResolve, Candidates, Met
<1>2. TypesOK'
  BY <1>1 DEF IInv, TypesOK, StartResolve
<1>3. BestSoFar'
  BY <1>1 DEF IInv, BestSoFar, StartResolve
<1> QED
  BY <1>1, <1>2, <1>3 DEF IInv, StartResolve, VerdictFits, Decided

(* A candidate that is better than those met before takes their place, one *)
(* as good joins them, any other is passed over.                           *)
LEMMA ConsiderKeeps ==
    ASSUME IInv, NEW f \in pending, Consider(f)
    PROVE  IInv'
<1> DEFINE s == Score(f)
<1>1. /\ outcome = "resolving" /\ outcome' = "resolving"
      /\ pending' = pending \ {f} /\ pending \subseteq Candidates
      /\ call' = call /\ pool' = pool /\ declared' = declared
      /\ TypesOK /\ BestSoFar
  BY DEF Consider, IInv
<1>2. Candidates' = Candidates /\ Met' = Met \cup {f} /\ f \notin Met
  BY <1>1 DEF Candidates, Met
<1>3. \A g : Score(g)' = Score(g)
  BY <1>1 DEF Score
<1>4. /\ bestScore \in Nat /\ IsFiniteSet(matches)
      /\ \A g \in Candidates : Score(g) \in Nat
  BY <1>1, ScoreIsNat DEF TypesOK, Score
<1>5. s \in Nat
  BY <1>1, <1>4
<1>6. /\ bestScore' \in Nat /\ IsFiniteSet(matches') /\ BestSoFar'
  <2>1. CASE s > bestScore /\ bestScore' = s /\ matches' = {f}
    <3>1. \A g \in Met : Score(g) < s
      BY <1>1, <1>4, <1>5, <2>1 DEF BestSoFar, Met
    <3>2. IsFiniteSet(matches')
      BY <2>1, FS_Singleton
    <3>3. matches' = {g \in Met \cup {f} : Score(g) = s /\ s > 0}
      BY <1>2, <1>4, <1>5, <2>1, <3>1
    <3>4. \A g \in Met' : Score(g)' <= bestScore'
      BY <1>1, <1>2, <1>3, <1>4, <1>5, <2>1, <3>1 DEF Met
    <3>5. matches' = {g \in Met' : Score(g)' = bestScore' /\ bestScore' > 0}
      BY <1>2, <1>3, <2>1, <3>3
    <3> QED
      BY <1>5, <2>1, <3>2, <3>4, <3>5 DEF BestSoFar
  <2>2. CASE s = bestScore /\ bestScore > 0 /\ matches' = matches \cup {f}
               /\ bestScore' = bestScore
    <3>1. IsFiniteSet(matches')
      BY <1>4, <2>2, FS_AddElement
    <3> QED
      BY <1>1, <1>2, <1>3, <1>4, <2>2, <3>1 DEF BestSoFar
  <2>3. CASE (s < bestScore \/ (s = bestScore /\ bestScore = 0))
               /\ bestScore' = bestScore /\ matches' = matches
    BY <1>1, <1>2, <1>3, <1>4, <1>5, <2>3 DEF BestSoFar
  <2> QED
    BY <2>1, <2>2, <2>3 DEF Consider, Score
<1>7. TypesOK'
  BY <1>1, <1>2, <1>6 DEF TypesOK
<1> QED
  BY <1>1, <1>2, <1>6, <1>7 DEF IInv, VerdictFits, Decided

LEMMA DecideKeeps ==
    ASSUME IInv, Decide
    PROVE  IInv'
<1>1. /\ outcome = "resolving" /\ pending = {} /\ matches' = matches
      /\ call' = call /\ pool' = pool /\ pending' = pending /\ bestScore' = bestScore
      /\ declared' = declared
  BY DEF Decide
<1>2. Cardinality(matches) \in Nat /\ IsFiniteSet(matches)
  BY FS_CardinalityType DEF IInv, TypesOK
<1>3. /\ Cardinality(matches) = 0 <=> matches = {}
      /\ Cardinality(matches) = 1 <=> \E f : matches = {f}
  BY <1>2, FS_EmptySet, FS_Singleton
<1>4. /\ outcome' = "undeclared" <=> matches = {}
      /\ outcome' = "resolved" <=> \E f : matches = {f}
      /\ outcome' \in {"resolved", "undeclared", "ambiguous"}
  BY <1>2, <1>3 DEF Decide
<1>5. Candidates' = Candidates /\ Met' = Met /\ \A g : Score(g)' = Score(g)
  BY <1>1 DEF Candidates, Met, Score
<1>6. BestSoFar' /\ TypesOK'
  BY <1>1, <1>4, <1>5 DEF IInv, BestSoFar, TypesOK
<1> QED
  BY <1>1, <1>4, <1>5, <1>6 DEF IInv, VerdictFits, Decided

LEMMA NextKeeps == IInv /\ [Next]_vars => IInv'
<1> SUFFICES ASSUME IInv, [Next]_vars
             PROVE  IInv'
  OBVIOUS
<1>1. CASE Declare
  BY <1>1, DeclareKeeps
<1>2. CASE StartResolve
  BY <1>2, StartResolveKeeps
<1>3. ASSUME NEW f \in pending, Consider(f)
      PROVE  IInv'
  BY <1>3, ConsiderKeeps
<1>4. CASE Decide
  BY <1>4, DecideKeeps
<1>5. CASE UNCHANGED vars
  BY <1>5 DEF IInv, TypesOK, BestSoFar, VerdictFits, Decided, Candidates, Met, Score, vars
<1> QED
  BY <1>1, <1>2, <1>3, <1>4, <1>5 DEF Next

LEMMA InvariantDecides == IInv => OrderDoesNotMatter
<1> SUFFICES ASSUME IInv, Decided
             PROVE  /\ matches = Best(Candidates, call.args)
                    /\ outcome = "undeclared" <=> matches = {}
                    /\ outcome = "resolved" <=> \E f \in matches : matches = {f}
  BY DEF OrderDoesNotMatter
<1>1. Met = Candidates /\ BestSoFar
  BY DEF IInv, Met, Decided
<1>2. bestScore \in Nat /\ \A f \in Candidates : Score(f) \in Nat
  BY ScoreIsNat DEF IInv, TypesOK, Score
<1>3. \A f \in Candidates :
        (Score(f) > 0 /\ \A g \in Candidates : Score(g) <= Score(f))
          <=> (Score(f) = bestScore /\ bestScore > 0)
  BY <1>1, <1>2 DEF BestSoFar
<1>4. matches = Best(Candidates, call.args)
  BY <1>1, <1>3 DEF Best, BestSoFar, Score
<1> QED
  BY <1>4 DEF IInv, VerdictFits

(* Whatever the order in which the candidates of a call are met, the call  *)
(* resolves to the best of them, is ambiguous exactly if there are several *)
(* and undeclared if there is none (Functions::resolve, resolveFunction).  *)
THEOREM OrderIsImmaterial == Spec => []OrderDoesNotMatter
  BY InitHolds, NextKeeps, InvariantDecides, PTL DEF Spec
-----------------------------------------------------------------------------
(* Assignability goes one way: two types that are assignable to each other *)
(* are the same.                                                           *)
LEMMA RankIsInt ==
    ASSUME NEW t \in Types, t.category = "PRIMITIVE"
    PROVE  Rank[t.primitive] \in Int
<1>1. \/ t \in {Primitive(p) : p \in PrimitiveNames}
      \/ t \in {Class(n) : n \in ClassNames}
      \/ t = Reference
      \/ t = Array(t.elementType, t.dimension, t.staticSize)
  BY TypesAssumption
<1>2. t \in {Primitive(p) : p \in PrimitiveNames}
  BY <1>1 DEF Class, Reference, Array
<1>3. t.primitive \in PrimitiveNames
  BY <1>2 DEF Primitive
<1> QED
  BY <1>3 DEF PrimitiveNames, Rank

LEMMA OneWay ==
    ASSUME NEW s \in Types, NEW t \in Types, IsAssignableTo(s, t), IsAssignableTo(t, s)
    PROVE  s = t
<1>1. CASE s.category = "PRIMITIVE" /\ t.category = "PRIMITIVE"
  <2>1. Rank[s.primitive] \in Int /\ Rank[t.primitive] \in Int
    BY <1>1, RankIsInt
  <2>2. ~(Widens(s.primitive, t.primitive) /\ Widens(t.primitive, s.primitive))
    BY <2>1 DEF Widens
  <2> QED
    BY <1>1, <2>2 DEF IsAssignableTo, Reference
<1>2. CASE ~(s.category = "PRIMITIVE" /\ t.category = "PRIMITIVE")
  BY <1>2 DEF IsAssignableTo, Reference, Primitive
<1> QED
  BY <1>1, <1>2

(* A candidate that fits and is at least as specific as another has at     *)
(* least its score.                                                        *)
LEMMA SpecificScoresMore ==
    ASSUME NEW f \in Declaration, NEW g \in Declaration, NEW args \in Seq(Types),
           Fits(f, args), Fits(g, args), MoreSpecific(f, g)
    PROVE  Matches(f, args) >= Matches(g, args)
<1>1. /\ f.formals \in Seq(Types) /\ g.formals \in Seq(Types)
      /\ Len(f.formals) >= Len(g.formals) /\ Len(args) >= Len(f.formals)
  BY DEF Declaration, MoreSpecific, Fits
<1>2. ASSUME NEW i \in Exact(g, args)
      PROVE  i \in Exact(f, args)
  <2>1. /\ i \in DOMAIN g.formals /\ i \in DOMAIN f.formals
        /\ g.formals[i] \in Types /\ f.formals[i] \in Types
        /\ args[i] = g.formals[i]
    BY <1>1, <1>2 DEF Exact
  <2>2. args[i] = f.formals[i] \/ IsAssignableTo(args[i], f.formals[i])
    BY <2>1 DEF Fits
  <2>3. f.formals[i] = g.formals[i] \/ IsAssignableTo(f.formals[i], g.formals[i])
    BY <2>1 DEF MoreSpecific
  <2>4. args[i] = f.formals[i]
    BY <2>1, <2>2, <2>3, OneWay
  <2> QED
    BY <2>1, <2>4 DEF Exact
<1>3. IsFiniteSet(Exact(f, args))
  <2>1. IsFiniteSet(DOMAIN f.formals)
    BY <1>1, FS_Interval
  <2> QED
    BY <2>1, FS_Subset DEF Exact
<1>4. /\ Exact(g, args) \subseteq Exact(f, args)
      /\ Cardinality(Exact(g, args)) \in Nat /\ Cardinality(Exact(f, args)) \in Nat
      /\ Cardinality(Exact(g, args)) <= Cardinality(Exact(f, args))
  BY <1>2, <1>3, FS_Subset, FS_CardinalityType
<1> QED
  BY <1>1, <1>4 DEF Matches

(* The function a call resolves to is never strictly more general than     *)
(* another candidate that fits the call (Function::matches, resolve).      *)
THEOREM PickIsSpecific == Spec => []PickIsMostSpecific
<1>1. ASSUME IInv, OrderDoesNotMatter PROVE PickIsMostSpecific
  <2> SUFFICES ASSUME outcome = "resolved", NEW f \in Candidates, NEW g \in matches,
                      f # g, Fits(f, call.args), MoreSpecific(f, g)
               PROVE  FALSE
    BY DEF PickIsMostSpecific
  <2>1. /\ matches = Best(Candidates, call.args) /\ matches = {g}
        /\ call.args \in Seq(Types) /\ Candidates \subseteq Declaration
    BY <1>1 DEF OrderDoesNotMatter, Decided, IInv, TypesOK
  <2>2. /\ g \in Candidates /\ Matches(g, call.args) > 0
        /\ \A h \in Candidates : Matches(h, call.args) <= Matches(g, call.args)
    BY <2>1 DEF Best
  <2>3. /\ Matches(g, call.args) \in Nat
        /\ \A h \in Candidates : Matches(h, call.args) \in Nat
    BY <2>1, <2>2, ScoreIsNat
  <2>4. Fits(g, call.args)
    BY <2>2 DEF Matches
  <2>5. Matches(f, call.args) >= Matches(g, call.args)
    BY <2>1, <2>2, <2>4, SpecificScoresMore
  <2>6. f \in Best(Candidates, call.args)
    BY <2>2, <2>3, <2>5 DEF Best
  <2> QED
    BY <2>1, <2>6
<1> QED
  BY <1>1, InitHolds, NextKeeps, OrderIsImmaterial, PTL DEF Spec

(* A call is undeclared only if no candidate fits it, but for a function   *)
(* with "..." and no named parameter (Function::matches).                  *)
THEOREM UndeclaredFitsNothing == Spec => []UndeclaredMeansNothingFits
<1>1. ASSUME IInv PROVE UndeclaredMeansNothingFits
  <2> SUFFICES ASSUME outcome = "undeclared", NEW f \in Candidates, Fits(f, call.args)
               PROVE  f.formals = <<>> /\ call.args # <<>>
    BY DEF UndeclaredMeansNothingFits
  <2>1. /\ matches = {} /\ BestSoFar /\ Met = Candidates
        /\ bestScore \in Nat /\ f \in Declaration
    BY <1>1 DEF IInv, TypesOK, VerdictFits, Decided, Met
  <2>2. Matches(f, call.args) <= 0
    BY <2>1 DEF BestSoFar, Score
  <2>3. Matches(f, call.args) = 0
    BY <2>1, <2>2, ScoreIsNat
  <2>4. call.args # <<>> /\ Len(f.formals) + Cardinality(Exact(f, call.args)) = 0
    BY <2>3 DEF Matches
  <2>5. f.formals \in Seq(Types) /\ Len(f.formals) \in Nat
    BY <2>1 DEF Declaration
  <2>6. Cardinality(Exact(f, call.args)) \in Nat
    <3>1. IsFiniteSet(DOMAIN f.formals)
      BY <2>5, FS_Interval
    <3> QED
      BY <3>1, FS_Subset, FS_CardinalityType DEF Exact
  <2>7. Len(f.formals) = 0
    BY <2>4, <2>5, <2>6
  <2> QED
    BY <2>4, <2>5, <2>7
<1> QED
  BY <1>1, InitHolds, NextKeeps, PTL DEF Spec
=============================================================================
