--------------------------- MODULE CompileProofs ----------------------------
(***************************************************************************)
(* Proofs about Compile, for every set of names, keys and compiled files,  *)
(* and every stack limit.                                                  *)
(***************************************************************************)
EXTENDS Compile, Induction

(* What a unit is known to be.                                             *)
UnitOK == unit \in Unit

LEMMA TokenFacts ==
    ASSUME UnitOK
    PROVE  /\ Tokens \in Seq(Token)
           /\ Len(Tokens) \in Nat
           /\ Positions = 1..Len(Tokens)
           /\ \A i \in Positions : Tokens[i] \in Token /\ Proper(Tokens[i])
<1>1. Tokens \in Seq(Token) /\ \A i \in Positions : Proper(Tokens[i])
  BY DEF UnitOK, Unit, Tokens, Positions
<1>2. Len(Tokens) \in Nat /\ Positions = 1..Len(Tokens)
  BY <1>1 DEF Positions
<1>3. \A i \in Positions : Tokens[i] \in Token
  BY <1>1, <1>2
<1> QED BY <1>1, <1>2, <1>3

-----------------------------------------------------------------------------
(* The depth of a token, one token after the other.                        *)
Count(S, p) == Cardinality({j \in 1..(p - 1) : j \in S})

LEMMA Counting ==
    ASSUME NEW S, NEW p \in Nat \ {0}
    PROVE  /\ Count(S, p) \in Nat
           /\ Count(S, p + 1) = IF p \in S THEN Count(S, p) + 1 ELSE Count(S, p)
<1> DEFINE A == {j \in 1..(p - 1) : j \in S}
           B == {j \in 1..((p + 1) - 1) : j \in S}
<1>1. IsFiniteSet(1..(p - 1))
  BY FS_Interval
<1>2. IsFiniteSet(A) /\ Cardinality(A) \in Nat
  <2>1. A \subseteq 1..(p - 1)
    OBVIOUS
  <2> HIDE DEF A
  <2> QED BY <1>1, <2>1, FS_Subset, FS_CardinalityType
<1>3. p \notin A
  OBVIOUS
<1>4. (p + 1) - 1 = p /\ 1..p = 1..(p - 1) \cup {p}
  OBVIOUS
<1>5. CASE p \in S
  <2>1. B = A \cup {p}
    BY <1>4, <1>5
  <2> HIDE DEF A, B, Count
  <2>2. Cardinality(B) = Cardinality(A) + 1
    BY <1>2, <1>3, <2>1, FS_AddElement
  <2> QED BY <1>2, <1>5, <2>2 DEF A, B, Count
<1>6. CASE p \notin S
  <2>1. B = A
    BY <1>4, <1>6
  <2> QED BY <1>2, <1>6, <2>1 DEF Count
<1> QED BY <1>5, <1>6

LEMMA DepthType == \A p \in Nat \ {0} : Depth(p) \in Int
<1> SUFFICES ASSUME NEW p \in Nat \ {0} PROVE Depth(p) \in Int
  OBVIOUS
<1> DEFINE A == {j \in 1..(p - 1) : Tokens[j].op \in Openers}
           B == {j \in 1..(p - 1) : Tokens[j].op = "end"}
<1>1. A \subseteq 1..(p - 1) /\ B \subseteq 1..(p - 1) /\ IsFiniteSet(1..(p - 1))
  BY FS_Interval
<1>2. Depth(p) = Cardinality(A) - Cardinality(B)
  BY DEF Depth, DepthIn
<1> HIDE DEF A, B
<1>3. Cardinality(A) \in Nat /\ Cardinality(B) \in Nat
  BY <1>1, FS_Subset, FS_CardinalityType
<1> QED BY <1>2, <1>3

LEMMA NextDepth ==
    ASSUME NEW p \in Nat \ {0}
    PROVE  Depth(p + 1) = CASE Tokens[p].op \in Openers -> Depth(p) + 1
                            [] Tokens[p].op = "end" -> Depth(p) - 1
                            [] OTHER -> Depth(p)
<1> DEFINE P == {j \in Nat : Tokens[j].op \in Openers}
           Q == {j \in Nat : Tokens[j].op = "end"}
<1>1. \A i \in Nat \ {0} :
         /\ {j \in 1..(i - 1) : Tokens[j].op \in Openers} = {j \in 1..(i - 1) : j \in P}
         /\ {j \in 1..(i - 1) : Tokens[j].op = "end"} = {j \in 1..(i - 1) : j \in Q}
  OBVIOUS
<1>2. \A i \in Nat \ {0} : Depth(i) = Count(P, i) - Count(Q, i)
  BY <1>1 DEF Depth, DepthIn, Count
<1>3. /\ p \in P <=> Tokens[p].op \in Openers
      /\ p \in Q <=> Tokens[p].op = "end"
      /\ ~(p \in P /\ p \in Q)
  BY DEF Openers
<1>4. Count(P, p) \in Nat /\ Count(P, p + 1) = IF p \in P THEN Count(P, p) + 1 ELSE Count(P, p)
  BY Counting
<1>5. Count(Q, p) \in Nat /\ Count(Q, p + 1) = IF p \in Q THEN Count(Q, p) + 1 ELSE Count(Q, p)
  BY Counting
<1> HIDE DEF P, Q
<1>6. Depth(p) = Count(P, p) - Count(Q, p) /\ Depth(p + 1) = Count(P, p + 1) - Count(Q, p + 1)
  BY <1>2
<1>7. CASE p \in P
  <2>1. Depth(p + 1) = Depth(p) + 1
    BY <1>3, <1>4, <1>5, <1>6, <1>7
  <2> QED BY <1>3, <1>7, <2>1
<1>8. CASE p \in Q
  <2>1. Depth(p + 1) = Depth(p) - 1
    BY <1>3, <1>4, <1>5, <1>6, <1>8
  <2> QED BY <1>3, <1>8, <2>1
<1>9. CASE p \notin P /\ p \notin Q
  <2>1. Depth(p + 1) = Depth(p)
    BY <1>3, <1>4, <1>5, <1>6, <1>9
  <2> QED BY <1>3, <1>9, <2>1
<1> QED BY <1>7, <1>8, <1>9

LEMMA FirstDepth == Depth(1) = 0
<1>1. /\ {j \in 1..(1 - 1) : Tokens[j].op \in Openers} = {}
      /\ {j \in 1..(1 - 1) : Tokens[j].op = "end"} = {}
  OBVIOUS
<1> QED BY <1>1, FS_EmptySet DEF Depth, DepthIn

-----------------------------------------------------------------------------
(* Variables: the j-th parameter of the function at q, or the local one    *)
(* declared there, and the depth of the block that holds it.               *)
VarOf(q, j, n) ==
    \/ Tokens[q].op = "declare" /\ Tokens[q].name = n /\ j = 0
    \/ /\ Tokens[q].op = "function"
       /\ j \in DOMAIN Tokens[q].sig.params /\ Tokens[q].sig.params[j] = n

LevelOf(q) == IF Tokens[q].op = "function" THEN Depth(q) + 1 ELSE Depth(q)

Closes(r) == Tokens[r].op \in Clauses \cup {"end"}

LEMMA ParameterFacts ==
    ASSUME UnitOK, NEW q \in Positions, Tokens[q].op \in {"function", "forward"}
    PROVE  /\ Tokens[q].sig \in Signature
           /\ Tokens[q].sig.params \in Seq(Names)
           /\ DOMAIN Tokens[q].sig.params \subseteq Nat \ {0}
<1>1. Tokens[q].sig \in Signature
  BY TokenFacts DEF Proper
<1>2. Tokens[q].sig.params \in Seq(Names)
  BY <1>1 DEF Signature
<1> QED BY <1>1, <1>2

LEMMA InScopeIs ==
    ASSUME UnitOK, NEW p \in 1..(Len(Tokens) + 1), NEW n, NEW v
    PROVE  v \in InScope(n, p) <=>
             \E q \in 1..(p - 1), j \in Nat :
                v = <<q, j>> /\ VarOf(q, j, n) /\ Open(q, LevelOf(q), p)
<1>1. \A q \in 1..(p - 1) : q \in Positions
  BY TokenFacts
<1>2. ASSUME v \in InScope(n, p)
      PROVE  \E q \in 1..(p - 1), j \in Nat :
                v = <<q, j>> /\ VarOf(q, j, n) /\ Open(q, LevelOf(q), p)
  <2>1. CASE v \in {<<q, 0>> : q \in {i \in 1..(p - 1) : /\ Tokens[i].op = "declare"
                                                         /\ Tokens[i].name = n
                                                         /\ Open(i, Depth(i), p)}}
    BY <2>1 DEF VarOf, LevelOf
  <2>2. ASSUME NEW f \in Definitions \cap 1..(p - 1), Open(f, Depth(f) + 1, p),
               NEW j \in DOMAIN Tokens[f].sig.params, Tokens[f].sig.params[j] = n,
               v = <<f, j>>
        PROVE  \E q \in 1..(p - 1), i \in Nat :
                  v = <<q, i>> /\ VarOf(q, i, n) /\ Open(q, LevelOf(q), p)
    <3>1. j \in Nat /\ Tokens[f].op = "function"
      BY <2>2, ParameterFacts DEF Definitions
    <3> QED BY <2>2, <3>1 DEF VarOf, LevelOf
  <2> QED BY <1>2, <2>1, <2>2 DEF InScope
<1>3. ASSUME NEW q \in 1..(p - 1), NEW j \in Nat,
             v = <<q, j>>, VarOf(q, j, n), Open(q, LevelOf(q), p)
      PROVE  v \in InScope(n, p)
  <2>1. CASE Tokens[q].op = "declare"
    BY <1>3, <2>1 DEF VarOf, LevelOf, InScope
  <2>2. CASE Tokens[q].op = "function"
    <3>1. q \in Definitions \cap 1..(p - 1)
      BY <1>1, <2>2 DEF Definitions
    <3> QED BY <1>3, <2>2, <3>1 DEF VarOf, LevelOf, InScope
  <2> QED BY <1>3, <2>1, <2>2 DEF VarOf
<1> QED BY <1>2, <1>3

LEMMA OpenNext ==
    ASSUME NEW p \in Nat \ {0}, NEW l
    PROVE  /\ \A q \in 1..(p - 1) :
                Open(q, l, p) <=> Open(q, l, p - 1) /\ ~(Closes(p) /\ Depth(p) = l)
           /\ Open(p, l, p)
<1>1. ASSUME NEW q \in 1..(p - 1)
      PROVE  (q + 1)..p = (q + 1)..(p - 1) \cup {p}
  OBVIOUS
<1>2. (p + 1)..p = {}
  OBVIOUS
<1> QED BY <1>1, <1>2 DEF Open, Closes

-----------------------------------------------------------------------------
(* The scopes when the checker is at token p: what a scope has under a     *)
(* name is the variable of that name whose block, at this depth, is still  *)
(* open, and there is no other; inner scopes hold later declarations.      *)
Alive(q, j, n, p) == VarOf(q, j, n) /\ Open(q, LevelOf(q), p - 1)

HoldsAlive(sc, p) ==
    \A k \in DOMAIN sc, n \in Names : sc[k][n] # None =>
        \E q \in 1..(p - 1), j \in Nat :
            sc[k][n] = <<q, j>> /\ Alive(q, j, n, p) /\ LevelOf(q) = k - 1

AliveHeld(sc, p) ==
    \A q \in 1..(p - 1), j \in Nat, n \in Names : Alive(q, j, n, p) =>
        LevelOf(q) + 1 \in DOMAIN sc /\ sc[LevelOf(q) + 1][n] = <<q, j>>

InnerLater(sc) ==
    \A k, l \in DOMAIN sc : k < l =>
        \A m, n \in Names : sc[k][m] # None /\ sc[l][n] # None => sc[k][m][1] < sc[l][n][1]

ScopesMatch(sc, p) == HoldsAlive(sc, p) /\ AliveHeld(sc, p) /\ InnerLater(sc)

Scopes == Seq([Names -> Variable \cup {None}])

LEMMA NotAVariable == \A q, j \in Nat : <<q, j>> # None /\ <<q, j>> \in Variable
BY NoNameAssumption DEF Variable

LEMMA LevelType ==
    ASSUME UnitOK, NEW q \in Nat \ {0}
    PROVE  LevelOf(q) \in Int
BY DepthType DEF LevelOf

(* A token that neither declares nor opens nor closes anything.            *)
LEMMA MatchPlain ==
    ASSUME UnitOK, NEW p \in Positions, NEW sc, ScopesMatch(sc, p),
           ~Closes(p), Tokens[p].op \notin {"declare", "function"}
    PROVE  ScopesMatch(sc, p + 1)
<1>1. /\ p \in Nat \ {0} /\ (p + 1) - 1 = p /\ 1..p = 1..(p - 1) \cup {p}
      /\ p - 1 \in Nat
  BY TokenFacts
<1>2. \A q \in 1..(p - 1) : \A j, n : Alive(q, j, n, p + 1) <=> Alive(q, j, n, p)
  BY <1>1, OpenNext DEF Alive
<1>3. \A j, n : ~VarOf(p, j, n)
  BY DEF VarOf
<1>4. HoldsAlive(sc, p + 1)
  <2>1. \A q \in 1..(p - 1) : q \in 1..((p + 1) - 1)
    BY <1>1
  <2> QED BY <1>2, <2>1 DEF HoldsAlive, ScopesMatch
<1>5. AliveHeld(sc, p + 1)
  <2>1. ASSUME NEW q \in 1..((p + 1) - 1), NEW j \in Nat, NEW n \in Names, Alive(q, j, n, p + 1)
        PROVE  q \in 1..(p - 1)
    BY <1>1, <1>3, <2>1 DEF Alive
  <2> QED BY <1>2, <2>1 DEF AliveHeld, ScopesMatch
<1> QED BY <1>4, <1>5 DEF ScopesMatch

LEMMA AppendEmpty ==
    ASSUME NEW sc \in Scopes, NEW p, ScopesMatch(sc, p)
    PROVE  ScopesMatch(Append(sc, NoScope), p) /\ Append(sc, NoScope) \in Scopes
<1> DEFINE t == Append(sc, NoScope)
<1>1. NoScope \in [Names -> Variable \cup {None}] /\ \A n \in Names : NoScope[n] = None
  BY DEF NoScope
<1>2. /\ DOMAIN sc = 1..Len(sc) /\ DOMAIN t = 1..(Len(sc) + 1) /\ Len(sc) \in Nat
      /\ t[Len(sc) + 1] = NoScope /\ \A k \in DOMAIN sc : t[k] = sc[k]
      /\ t \in Scopes
  BY <1>1 DEF Scopes
<1>3. DOMAIN t = DOMAIN sc \cup {Len(sc) + 1}
  BY <1>2
<1> HIDE DEF t
<1>4. HoldsAlive(t, p)
  <2>1. ASSUME NEW k \in DOMAIN t, NEW n \in Names, t[k][n] # None
        PROVE  k \in DOMAIN sc /\ t[k] = sc[k]
    BY <1>1, <1>2, <1>3, <2>1
  <2> QED BY <2>1 DEF HoldsAlive, ScopesMatch
<1>5. AliveHeld(t, p)
  BY <1>2, <1>3 DEF AliveHeld, ScopesMatch
<1>6. InnerLater(t)
  <2>1. ASSUME NEW k \in DOMAIN t, NEW n \in Names, t[k][n] # None
        PROVE  k \in DOMAIN sc /\ t[k] = sc[k]
    BY <1>1, <1>2, <1>3, <2>1
  <2> QED BY <2>1 DEF InnerLater, ScopesMatch
<1> QED BY <1>2, <1>4, <1>5, <1>6 DEF ScopesMatch, t

(* The end of a block closes what its scope, the innermost, holds.         *)
LEMMA MatchClose ==
    ASSUME UnitOK, NEW p \in Positions, NEW sc \in Scopes, ScopesMatch(sc, p),
           sc # <<>>, Len(sc) = Depth(p) + 1, Closes(p)
    PROVE  /\ ScopesMatch(Front(sc), p + 1)
           /\ Front(sc) \in Scopes /\ Len(Front(sc)) = Depth(p)
<1> DEFINE t == Front(sc)
<1>1. /\ p \in Nat \ {0} /\ (p + 1) - 1 = p /\ 1..p = 1..(p - 1) \cup {p}
      /\ p - 1 \in Nat
  BY TokenFacts
<1>2. /\ Len(sc) \in Nat \ {0} /\ DOMAIN sc = 1..Len(sc)
      /\ t \in Scopes /\ Len(t) = Len(sc) - 1 /\ DOMAIN t = 1..(Len(sc) - 1)
      /\ \A k \in DOMAIN t : k \in DOMAIN sc /\ t[k] = sc[k]
  BY DEF Scopes, Front
<1>3. Depth(p) \in Int /\ Len(sc) - 1 = Depth(p)
  BY <1>1, <1>2, DepthType
<1> HIDE DEF t
<1>4. \A q \in 1..(p - 1) : \A j, n :
         Alive(q, j, n, p + 1) <=> Alive(q, j, n, p) /\ LevelOf(q) # Depth(p)
  BY <1>1, OpenNext DEF Alive
<1>5. \A j, n : ~VarOf(p, j, n)
  BY DEF VarOf, Closes, Clauses
<1>6. HoldsAlive(t, p + 1)
  <2> SUFFICES ASSUME NEW k \in DOMAIN t, NEW n \in Names, t[k][n] # None
               PROVE  \E q \in 1..((p + 1) - 1), j \in Nat :
                         /\ t[k][n] = <<q, j>> /\ Alive(q, j, n, p + 1)
                         /\ LevelOf(q) = k - 1
    BY DEF HoldsAlive
  <2>1. PICK q \in 1..(p - 1), j \in Nat :
           sc[k][n] = <<q, j>> /\ Alive(q, j, n, p) /\ LevelOf(q) = k - 1
    BY <1>2 DEF HoldsAlive, ScopesMatch
  <2>2. k - 1 # Depth(p)
    BY <1>2, <1>3
  <2>3. q \in 1..((p + 1) - 1)
    BY <1>1
  <2> QED BY <1>2, <1>4, <2>1, <2>2, <2>3
<1>7. AliveHeld(t, p + 1)
  <2> SUFFICES ASSUME NEW q \in 1..((p + 1) - 1), NEW j \in Nat, NEW n \in Names,
                      Alive(q, j, n, p + 1)
               PROVE  LevelOf(q) + 1 \in DOMAIN t /\ t[LevelOf(q) + 1][n] = <<q, j>>
    BY DEF AliveHeld
  <2>1. q \in 1..(p - 1)
    BY <1>1, <1>5 DEF Alive
  <2>2. LevelOf(q) # Depth(p) /\ Alive(q, j, n, p)
    BY <1>4, <2>1
  <2>3. LevelOf(q) + 1 \in DOMAIN sc /\ sc[LevelOf(q) + 1][n] = <<q, j>>
    BY <2>1, <2>2 DEF AliveHeld, ScopesMatch
  <2>4. LevelOf(q) \in Int
    BY <1>1, <2>1, LevelType
  <2>5. LevelOf(q) + 1 \in DOMAIN t
    BY <1>2, <1>3, <2>2, <2>3, <2>4
  <2> QED BY <1>2, <2>3, <2>5
<1>8. InnerLater(t)
  BY <1>2 DEF InnerLater, ScopesMatch
<1> QED BY <1>2, <1>3, <1>6, <1>7, <1>8 DEF ScopesMatch, t

LEMMA ReplaceIn ==
    ASSUME NEW S, NEW s \in Seq(S), NEW k \in 1..Len(s), NEW x \in S
    PROVE  /\ [s EXCEPT ![k] = x] \in Seq(S)
           /\ Len([s EXCEPT ![k] = x]) = Len(s)
           /\ DOMAIN [s EXCEPT ![k] = x] = DOMAIN s
OBVIOUS

(* A declaration of a name its scope does not have.                        *)
LEMMA MatchDeclare ==
    ASSUME UnitOK, NEW p \in Positions, NEW sc \in Scopes, ScopesMatch(sc, p),
           sc # <<>>, Len(sc) = Depth(p) + 1,
           Tokens[p].op = "declare", sc[Len(sc)][Tokens[p].name] = None
    PROVE  LET t == AddSymbol(sc, Tokens[p].name, <<p, 0>>)
           IN  ScopesMatch(t, p + 1) /\ t \in Scopes /\ Len(t) = Len(sc)
<1> DEFINE name == Tokens[p].name
           last == Len(sc)
           t == AddSymbol(sc, name, <<p, 0>>)
<1>1. /\ p \in Nat \ {0} /\ (p + 1) - 1 = p /\ 1..p = 1..(p - 1) \cup {p}
      /\ p - 1 \in Nat /\ p \in 1..p /\ 0 \in Nat
  BY TokenFacts
<1>2. name \in Names
  BY TokenFacts DEF Proper
<1>3. last \in Nat \ {0} /\ DOMAIN sc = 1..last /\ last \in DOMAIN sc
  BY DEF Scopes
<1>4. sc[last] \in [Names -> Variable \cup {None}]
  BY <1>3 DEF Scopes
<1>5. <<p, 0>> \in Variable /\ <<p, 0>> # None
  BY <1>1, NotAVariable
<1>6. t = [sc EXCEPT ![last] = [sc[last] EXCEPT ![name] = <<p, 0>>]]
  BY <1>3 DEF AddSymbol
<1>7. [sc[last] EXCEPT ![name] = <<p, 0>>] \in [Names -> Variable \cup {None}]
  BY <1>4, <1>5
<1>8. t \in Scopes /\ DOMAIN t = DOMAIN sc /\ Len(t) = last
  <2> DEFINE Scope == [Names -> Variable \cup {None}]
             new == [sc[last] EXCEPT ![name] = <<p, 0>>]
  <2>1. sc \in Seq(Scope) /\ new \in Scope /\ Scopes = Seq(Scope)
    BY <1>7 DEF Scopes
  <2>2. last \in 1..Len(sc) /\ t = [sc EXCEPT ![last] = new]
    BY <1>3, <1>6
  <2> HIDE DEF Scope, new, t
  <2> QED BY <2>1, <2>2, ReplaceIn
<1>9. /\ t[last][name] = <<p, 0>>
      /\ \A k \in DOMAIN sc, n \in Names : k # last \/ n # name => t[k][n] = sc[k][n]
  BY <1>2, <1>3, <1>4, <1>6
<1>10. LevelOf(p) + 1 = last /\ last - 1 = LevelOf(p)
  BY <1>1, <1>3, DepthType DEF LevelOf
<1>11. sc[last][name] = None
  OBVIOUS
<1>12. \A q \in 1..(p - 1) : \A j, n : Alive(q, j, n, p + 1) <=> Alive(q, j, n, p)
  <2>1. ~Closes(p)
    BY DEF Closes, Clauses
  <2> QED BY <1>1, <2>1, OpenNext DEF Alive
<1>13. \A j, n : Alive(p, j, n, p + 1) <=> n = name /\ j = 0
  BY <1>1, OpenNext DEF Alive, VarOf
<1> HIDE DEF t, last, name
<1>14. HoldsAlive(t, p + 1)
  <2> SUFFICES ASSUME NEW k \in DOMAIN t, NEW n \in Names, t[k][n] # None
               PROVE  \E q \in 1..((p + 1) - 1), j \in Nat :
                         /\ t[k][n] = <<q, j>> /\ Alive(q, j, n, p + 1)
                         /\ LevelOf(q) = k - 1
    BY DEF HoldsAlive
  <2>1. CASE k = last /\ n = name
    BY <1>1, <1>9, <1>10, <1>13, <2>1
  <2>2. CASE k # last \/ n # name
    <3>1. t[k][n] = sc[k][n] /\ k \in DOMAIN sc
      BY <1>8, <1>9, <2>2
    <3>2. PICK q \in 1..(p - 1), j \in Nat :
             sc[k][n] = <<q, j>> /\ Alive(q, j, n, p) /\ LevelOf(q) = k - 1
      BY <3>1 DEF HoldsAlive, ScopesMatch
    <3> QED BY <1>1, <1>12, <3>1, <3>2
  <2> QED BY <2>1, <2>2
<1>15. AliveHeld(t, p + 1)
  <2> SUFFICES ASSUME NEW q \in 1..((p + 1) - 1), NEW j \in Nat, NEW n \in Names,
                      Alive(q, j, n, p + 1)
               PROVE  LevelOf(q) + 1 \in DOMAIN t /\ t[LevelOf(q) + 1][n] = <<q, j>>
    BY DEF AliveHeld
  <2>1. CASE q = p
    BY <1>3, <1>8, <1>9, <1>10, <1>13, <2>1
  <2>2. CASE q # p
    <3>1. q \in 1..(p - 1)
      BY <1>1, <2>2
    <3>2. LevelOf(q) + 1 \in DOMAIN sc /\ sc[LevelOf(q) + 1][n] = <<q, j>>
      BY <1>12, <3>1 DEF AliveHeld, ScopesMatch
    <3>3. <<q, j>> # None
      BY <3>1, NotAVariable
    <3>4. LevelOf(q) + 1 # last \/ n # name
      BY <1>11, <3>2, <3>3
    <3> QED BY <1>8, <1>9, <3>2, <3>4
  <2> QED BY <2>1, <2>2
<1>16. InnerLater(t)
  <2> SUFFICES ASSUME NEW k \in DOMAIN t, NEW l \in DOMAIN t, k < l,
                      NEW m \in Names, NEW n \in Names, t[k][m] # None, t[l][n] # None
               PROVE  t[k][m][1] < t[l][n][1]
    BY DEF InnerLater
  <2>1. k # last /\ k \in DOMAIN sc /\ l \in DOMAIN sc /\ t[k][m] = sc[k][m]
    BY <1>3, <1>8, <1>9
  <2>2. CASE l = last /\ n = name
    <3>1. PICK q \in 1..(p - 1), j \in Nat : sc[k][m] = <<q, j>>
      BY <2>1 DEF HoldsAlive, ScopesMatch
    <3>2. t[k][m][1] = q /\ t[l][n][1] = p
      BY <1>9, <2>1, <2>2, <3>1
    <3> QED BY <1>1, <3>2
  <2>3. CASE l # last \/ n # name
    BY <1>9, <2>1, <2>3 DEF InnerLater, ScopesMatch
  <2> QED BY <2>2, <2>3
<1> QED BY <1>8, <1>14, <1>15, <1>16 DEF ScopesMatch, t, last, name

(* A function enters its parameters in a scope of its own.                 *)
LEMMA ParameterScope ==
    ASSUME UnitOK, NEW p \in Positions, Tokens[p].op = "function",
           IsInjective(Tokens[p].sig.params)
    PROVE  /\ WithParameters(p) \in [Names -> Variable \cup {None}]
           /\ \A n \in Names, j \in Nat : VarOf(p, j, n) => WithParameters(p)[n] = <<p, j>>
           /\ \A n \in Names : WithParameters(p)[n] # None =>
                \E j \in Nat : VarOf(p, j, n) /\ WithParameters(p)[n] = <<p, j>>
<1> DEFINE params == Tokens[p].sig.params
           js(n) == {j \in DOMAIN params : params[j] = n}
<1>1. p \in Nat /\ DOMAIN params \subseteq Nat
  BY TokenFacts, ParameterFacts
<1>2. \A n \in Names : WithParameters(p)[n] =
         IF js(n) # {} THEN <<p, Min(js(n))>> ELSE None
  BY DEF WithParameters
<1>3. \A n, j : VarOf(p, j, n) <=> j \in js(n)
  BY DEF VarOf
<1>4. ASSUME NEW n \in Names, NEW j \in js(n) PROVE Min(js(n)) = j
  <2>1. js(n) = {j} /\ j \in Nat
    BY <1>1 DEF IsInjective
  <2> QED BY <2>1 DEF Min
<1>5. DOMAIN WithParameters(p) = Names
  BY DEF WithParameters
<1>6. \A n : js(n) \subseteq Nat
  BY <1>1
<1>7. \A n \in Names : WithParameters(p)[n] # None =>
         \E j \in js(n) : WithParameters(p)[n] = <<p, j>>
  <2> HIDE DEF js
  <2> QED BY <1>2, <1>4
<1>8. \A n \in Names : \A j \in js(n) : WithParameters(p)[n] = <<p, j>>
  <2> HIDE DEF js
  <2> QED BY <1>2, <1>4
<1> HIDE DEF js
<1>9. \A n \in Names : WithParameters(p)[n] \in Variable \cup {None}
  BY <1>1, <1>6, <1>7, NotAVariable
<1>10. WithParameters(p) \in [Names -> Variable \cup {None}]
  <2>1. WithParameters(p) = [n \in Names |-> WithParameters(p)[n]]
    BY DEF WithParameters
  <2> QED BY <1>9, <2>1
<1> QED BY <1>3, <1>6, <1>7, <1>8, <1>10

LEMMA MatchFunction ==
    ASSUME UnitOK, NEW p \in Positions, NEW sc \in Scopes, ScopesMatch(sc, p),
           Len(sc) = Depth(p) + 1,
           Tokens[p].op = "function", IsInjective(Tokens[p].sig.params)
    PROVE  LET t == Append(sc, WithParameters(p))
           IN  ScopesMatch(t, p + 1) /\ t \in Scopes /\ Len(t) = Len(sc) + 1
<1> DEFINE new == WithParameters(p)
           last == Len(sc) + 1
           t == Append(sc, new)
<1>1. /\ p \in Nat \ {0} /\ (p + 1) - 1 = p /\ 1..p = 1..(p - 1) \cup {p}
      /\ p - 1 \in Nat /\ p \in 1..p
  BY TokenFacts
<1>2. /\ new \in [Names -> Variable \cup {None}]
      /\ \A n \in Names, j \in Nat : VarOf(p, j, n) => new[n] = <<p, j>>
      /\ \A n \in Names : new[n] # None => \E j \in Nat : VarOf(p, j, n) /\ new[n] = <<p, j>>
  BY ParameterScope
<1> HIDE DEF new
<1>3. /\ Len(sc) \in Nat /\ DOMAIN sc = 1..Len(sc) /\ DOMAIN t = 1..last
      /\ t \in Scopes /\ Len(t) = last /\ t[last] = new
      /\ \A k \in DOMAIN sc : t[k] = sc[k]
  BY <1>2 DEF Scopes
<1>4. /\ DOMAIN t = DOMAIN sc \cup {last} /\ last \notin DOMAIN sc
      /\ \A k, l \in DOMAIN t : k < l => k \in DOMAIN sc
  BY <1>3
<1>5. LevelOf(p) + 1 = last /\ last - 1 = LevelOf(p)
  BY <1>1, <1>3, DepthType DEF LevelOf
<1>6. \A q \in 1..(p - 1) : \A j, n : Alive(q, j, n, p + 1) <=> Alive(q, j, n, p)
  <2>1. ~Closes(p)
    BY DEF Closes, Clauses
  <2> QED BY <1>1, <2>1, OpenNext DEF Alive
<1>7. \A j, n : Alive(p, j, n, p + 1) <=> VarOf(p, j, n)
  BY <1>1, OpenNext DEF Alive
<1> HIDE DEF t, last
<1>8. HoldsAlive(t, p + 1)
  <2> SUFFICES ASSUME NEW k \in DOMAIN t, NEW n \in Names, t[k][n] # None
               PROVE  \E q \in 1..((p + 1) - 1), j \in Nat :
                         /\ t[k][n] = <<q, j>> /\ Alive(q, j, n, p + 1)
                         /\ LevelOf(q) = k - 1
    BY DEF HoldsAlive
  <2>1. CASE k = last
    BY <1>1, <1>2, <1>3, <1>5, <1>7, <2>1
  <2>2. CASE k \in DOMAIN sc
    <3>1. PICK q \in 1..(p - 1), j \in Nat :
             sc[k][n] = <<q, j>> /\ Alive(q, j, n, p) /\ LevelOf(q) = k - 1
      BY <1>3, <2>2 DEF HoldsAlive, ScopesMatch
    <3> QED BY <1>1, <1>3, <1>6, <2>2, <3>1
  <2> QED BY <1>4, <2>1, <2>2
<1>9. AliveHeld(t, p + 1)
  <2> SUFFICES ASSUME NEW q \in 1..((p + 1) - 1), NEW j \in Nat, NEW n \in Names,
                      Alive(q, j, n, p + 1)
               PROVE  LevelOf(q) + 1 \in DOMAIN t /\ t[LevelOf(q) + 1][n] = <<q, j>>
    BY DEF AliveHeld
  <2>1. CASE q = p
    <3>1. VarOf(p, j, n)
      BY <1>7, <2>1
    <3>2. new[n] = <<p, j>>
      BY <1>2, <3>1
    <3>3. LevelOf(q) + 1 = last /\ last \in DOMAIN t
      BY <1>4, <1>5, <2>1
    <3> QED BY <1>3, <2>1, <3>2, <3>3
  <2>2. CASE q # p
    <3>1. q \in 1..(p - 1)
      BY <1>1, <2>2
    <3> QED BY <1>3, <1>4, <1>6, <3>1 DEF AliveHeld, ScopesMatch
  <2> QED BY <2>1, <2>2
<1>10. InnerLater(t)
  <2> SUFFICES ASSUME NEW k \in DOMAIN t, NEW l \in DOMAIN t, k < l,
                      NEW m \in Names, NEW n \in Names, t[k][m] # None, t[l][n] # None
               PROVE  t[k][m][1] < t[l][n][1]
    BY DEF InnerLater
  <2>1. k \in DOMAIN sc /\ t[k] = sc[k]
    BY <1>3, <1>4
  <2>2. CASE l = last
    <3>1. PICK q \in 1..(p - 1), j \in Nat : sc[k][m] = <<q, j>>
      BY <2>1 DEF HoldsAlive, ScopesMatch
    <3>2. PICK i \in Nat : t[l][n] = <<p, i>>
      BY <1>2, <1>3, <2>2
    <3>3. t[k][m][1] = q /\ t[l][n][1] = p
      BY <2>1, <3>1, <3>2
    <3> QED BY <1>1, <3>3
  <2>3. CASE l \in DOMAIN sc
    BY <1>3, <2>1, <2>3 DEF InnerLater, ScopesMatch
  <2> QED BY <1>4, <2>2, <2>3
<1> QED BY <1>3, <1>8, <1>9, <1>10 DEF ScopesMatch, t, last, new

-----------------------------------------------------------------------------
(* The scopes in which an expression is visited hold what is in scope by   *)
(* the text, so looking a name up finds the last declaration of it.        *)
InScopeHeld(sc, p) ==
    /\ \A k \in DOMAIN sc, n \in Names : sc[k][n] # None => sc[k][n] \in InScope(n, p)
    /\ \A n \in Names : \A v \in InScope(n, p) :
         v # None /\ \E k \in DOMAIN sc : sc[k][n] = v

LEMMA LookupFinds ==
    ASSUME NEW sc \in Scopes, NEW n \in Names, Lookup(sc, n) # None
    PROVE  \E k \in DOMAIN sc :
              /\ sc[k][n] # None /\ Lookup(sc, n) = sc[k][n]
              /\ \A l \in DOMAIN sc : sc[l][n] # None => l = k \/ l < k
<1> DEFINE holding == {k \in DOMAIN sc : sc[k][n] # None}
<1>1. DOMAIN sc = 1..Len(sc) /\ Len(sc) \in Nat
  BY DEF Scopes
<1>2. holding # {} /\ Lookup(sc, n) = sc[Max(holding)][n]
  BY DEF Lookup
<1>3. holding \in SUBSET (0..Len(sc)) /\ holding \subseteq Nat
  BY <1>1
<1> HIDE DEF holding
<1>4. \E k \in holding : \A l \in holding : k >= l
  BY <1>1, <1>2, <1>3, HasGreatest
<1>5. Max(holding) \in holding /\ \A l \in holding : Max(holding) >= l
  BY <1>4 DEF Max
<1>6. ASSUME NEW l \in holding PROVE l = Max(holding) \/ l < Max(holding)
  <2>1. l \in Nat /\ Max(holding) \in Nat /\ Max(holding) >= l
    BY <1>3, <1>5
  <2> QED BY <2>1
<1> QED BY <1>2, <1>5, <1>6 DEF holding

LEMMA LookupBinds ==
    ASSUME NEW sc \in Scopes, NEW p, InScopeHeld(sc, p), InnerLater(sc),
           UnitOK, p \in 1..(Len(Tokens) + 1), NEW n \in Names, Lookup(sc, n) # None
    PROVE  /\ Lookup(sc, n) \in InScope(n, p)
           /\ \A v \in InScope(n, p) : v[1] <= Lookup(sc, n)[1]
<1>1. PICK k \in DOMAIN sc :
         /\ sc[k][n] # None /\ Lookup(sc, n) = sc[k][n]
         /\ \A l \in DOMAIN sc : sc[l][n] # None => l = k \/ l < k
  BY LookupFinds
<1>2. sc[k][n] \in InScope(n, p)
  BY <1>1 DEF InScopeHeld
<1>3. ASSUME NEW v \in InScope(n, p) PROVE v[1] <= sc[k][n][1]
  <2>1. PICK l \in DOMAIN sc : sc[l][n] = v /\ v # None
    BY <1>3 DEF InScopeHeld
  <2>2. v[1] \in Nat /\ sc[k][n][1] \in Nat
    <3>1. Len(Tokens) \in Nat
      BY TokenFacts
    <3> QED BY <1>2, <1>3, <3>1, InScopeIs
  <2>3. CASE l = k
    BY <2>1, <2>2, <2>3
  <2>4. CASE l < k
    BY <1>1, <2>1, <2>2, <2>4 DEF InnerLater
  <2> QED BY <1>1, <2>1, <2>3, <2>4
<1> QED BY <1>1, <1>2, <1>3

LEMMA SeenInBlock ==
    ASSUME UnitOK, NEW p \in Positions, NEW sc, ScopesMatch(sc, p), ~Closes(p)
    PROVE  InScopeHeld(sc, p)
<1>1. p \in Nat \ {0} /\ p \in 1..(Len(Tokens) + 1)
  BY TokenFacts
<1>2. \A q \in 1..(p - 1) : \A j, n :
         Alive(q, j, n, p) <=> VarOf(q, j, n) /\ Open(q, LevelOf(q), p)
  BY <1>1, OpenNext DEF Alive
<1>3. \A n, v : v \in InScope(n, p) <=>
         \E q \in 1..(p - 1), j \in Nat : v = <<q, j>> /\ Alive(q, j, n, p)
  BY <1>1, <1>2, InScopeIs
<1>4. \A q \in 1..(p - 1), j \in Nat : <<q, j>> # None
  BY NotAVariable
<1>6. ASSUME NEW k \in DOMAIN sc, NEW n \in Names, sc[k][n] # None
      PROVE  sc[k][n] \in InScope(n, p)
  BY <1>1, <1>3, <1>6 DEF ScopesMatch, HoldsAlive
<1>7. ASSUME NEW n \in Names, NEW v \in InScope(n, p)
      PROVE  v # None /\ \E k \in DOMAIN sc : sc[k][n] = v
  BY <1>1, <1>3, <1>4, <1>7 DEF ScopesMatch, AliveHeld
<1> QED BY <1>6, <1>7 DEF InScopeHeld

LEMMA SeenAtClause ==
    ASSUME UnitOK, NEW p \in Positions, NEW sc \in Scopes, ScopesMatch(sc, p),
           sc # <<>>, Len(sc) = Depth(p) + 1, Closes(p)
    PROVE  InScopeHeld(Front(sc), p) /\ InnerLater(Front(sc)) /\ Front(sc) \in Scopes
<1>1. /\ p \in Nat \ {0} /\ p \in 1..(Len(Tokens) + 1)
      /\ (p + 1) - 1 = p /\ 1..p = 1..(p - 1) \cup {p}
  BY TokenFacts
<1>2. ScopesMatch(Front(sc), p + 1) /\ Front(sc) \in Scopes
  BY MatchClose
<1>3. \A j, n : ~VarOf(p, j, n)
  BY DEF VarOf, Closes, Clauses
<1>4. \A n, v : v \in InScope(n, p) <=>
         \E q \in 1..p, j \in Nat : v = <<q, j>> /\ Alive(q, j, n, p + 1)
  BY <1>1, <1>3, InScopeIs DEF Alive
<1>5. \A q \in 1..p, j \in Nat : <<q, j>> # None
  BY <1>1, NotAVariable
<1>6. ASSUME NEW k \in DOMAIN Front(sc), NEW n \in Names, Front(sc)[k][n] # None
      PROVE  Front(sc)[k][n] \in InScope(n, p)
  BY <1>1, <1>2, <1>4, <1>6 DEF ScopesMatch, HoldsAlive
<1>7. ASSUME NEW n \in Names, NEW v \in InScope(n, p)
      PROVE  v # None /\ \E k \in DOMAIN Front(sc) : Front(sc)[k][n] = v
  <2>1. PICK q \in 1..p, j \in Nat : v = <<q, j>> /\ Alive(q, j, n, p + 1)
    BY <1>4, <1>7
  <2>2. LevelOf(q) + 1 \in DOMAIN Front(sc) /\ Front(sc)[LevelOf(q) + 1][n] = <<q, j>>
    BY <1>1, <1>2, <2>1 DEF ScopesMatch, AliveHeld
  <2> QED BY <1>5, <2>1, <2>2
<1> QED BY <1>2, <1>6, <1>7 DEF InScopeHeld, ScopesMatch

(* What Bind adds for a token.                                             *)
LEMMA BindsByText ==
    ASSUME UnitOK, cpos \in Positions, scopes \in Scopes, ScopesMatch(scopes, cpos),
           scopes # <<>>, Len(scopes) = Depth(cpos) + 1, Tokens[cpos].op # "end",
           NEW n \in Tokens[cpos].uses, Lookup(ExpressionScopes, n) # None
    PROVE  /\ n \in Names
           /\ Lookup(ExpressionScopes, n) \in InScope(n, cpos)
           /\ \A v \in InScope(n, cpos) : v[1] <= Lookup(ExpressionScopes, n)[1]
<1>1. n \in Names /\ cpos \in 1..(Len(Tokens) + 1)
  BY TokenFacts DEF Token
<1>2. CASE Tokens[cpos].op \in Clauses
  <2>1. ExpressionScopes = Front(scopes) /\ Closes(cpos)
    BY <1>2 DEF ExpressionScopes, Closes
  <2> QED BY <1>1, <2>1, SeenAtClause, LookupBinds
<1>3. CASE Tokens[cpos].op \notin Clauses
  <2>1. ExpressionScopes = scopes /\ ~Closes(cpos)
    BY <1>3 DEF ExpressionScopes, Closes
  <2>2. InnerLater(scopes)
    BY DEF ScopesMatch
  <2> QED BY <1>1, <2>1, <2>2, SeenInBlock, LookupBinds
<1> QED BY <1>2, <1>3

-----------------------------------------------------------------------------
(* The checker at token p: as many visits and scopes as constructs are     *)
(* open there, and the scopes match the text.                              *)
Visits(vs) == vs \in Seq(Visit) /\ vs # <<>> /\ vs[1].op = "unit"

Walked(vs, sc, p) ==
    /\ p \in 1..(Len(Tokens) + 1)
    /\ Visits(vs) /\ Len(vs) = Len(sc)
    /\ sc \in Scopes /\ Len(sc) = Depth(p) + 1
    /\ ScopesMatch(sc, p)

LEMMA AfterVisits ==
    ASSUME NEW vs, Visits(vs), NEW values \in SUBSET BOOLEAN
    PROVE  Visits(After(vs, values)) /\ Len(After(vs, values)) = Len(vs)
<1> DEFINE n == Len(vs)
           v == [vs[n] EXCEPT !.last = values]
<1>1. n \in 1..Len(vs) /\ vs[n] \in Visit /\ vs \in Seq(Visit) /\ 1 \in 1..Len(vs)
  BY DEF Visits
<1>2. v \in Visit /\ v.op = vs[n].op
  BY <1>1 DEF Visit
<1>3. After(vs, values) = [vs EXCEPT ![n] = v]
  BY DEF After
<1> HIDE DEF n, v
<1>4. After(vs, values) \in Seq(Visit) /\ Len(After(vs, values)) = Len(vs)
  BY <1>1, <1>2, <1>3, ReplaceIn
<1>5. After(vs, values)[1].op = vs[1].op
  BY <1>1, <1>2, <1>3
<1> QED BY <1>1, <1>4, <1>5 DEF Visits

LEMMA ClauseVisits ==
    ASSUME NEW vs, Visits(vs), NEW t \in BOOLEAN
    PROVE  LET us == [vs EXCEPT ![Len(vs)] = [vs[Len(vs)] EXCEPT !.all = @ /\ t, !.last = {TRUE}]]
           IN  Visits(us) /\ Len(us) = Len(vs)
<1> DEFINE n == Len(vs)
           v == [vs[n] EXCEPT !.all = @ /\ t, !.last = {TRUE}]
           us == [vs EXCEPT ![n] = v]
<1>1. n \in 1..Len(vs) /\ vs[n] \in Visit /\ vs \in Seq(Visit) /\ 1 \in 1..Len(vs)
  BY DEF Visits
<1>2. v \in Visit /\ v.op = vs[n].op
  BY <1>1 DEF Visit
<1> HIDE DEF v
<1>3. us \in Seq(Visit) /\ Len(us) = Len(vs)
  BY <1>1, <1>2, ReplaceIn
<1>4. us[1].op = vs[1].op
  BY <1>1, <1>2
<1>5. us # <<>>
  BY <1>1, <1>3
<1>6. Visits(us)
  BY <1>3, <1>4, <1>5 DEF Visits
<1> QED BY <1>3, <1>6 DEF v

LEMMA OpenedVisits ==
    ASSUME NEW vs, Visits(vs), NEW op \in Openers, NEW i \in Nat
    PROVE  Visits(Append(vs, Opened(op, i))) /\ Len(Append(vs, Opened(op, i))) = Len(vs) + 1
<1>1. Opened(op, i) \in Visit
  BY DEF Opened, Visit
<1> DEFINE v == Opened(op, i)
<1> HIDE DEF v
<1>2. /\ Append(vs, v) \in Seq(Visit) /\ Len(Append(vs, v)) = Len(vs) + 1
      /\ Append(vs, v)[1] = vs[1] /\ Append(vs, v) # <<>>
  BY <1>1 DEF Visits, v
<1> QED BY <1>2 DEF Visits, v

LEMMA FrontFacts ==
    ASSUME NEW S, NEW s \in Seq(S), Len(s) > 1
    PROVE  /\ Front(s) \in Seq(S) /\ Len(Front(s)) = Len(s) - 1
           /\ Front(s)[1] = s[1] /\ Front(s) # <<>>
           /\ \A i \in 1..(Len(s) - 1) : Front(s)[i] = s[i]
<1> DEFINE m == Len(s) - 1
<1>1. m \in Nat \ {0} /\ Front(s) = SubSeq(s, 1, m) /\ \A i \in 1..m : s[i] \in S
  BY DEF Front
<1> HIDE DEF m
<1>2. Front(s) = [i \in 1..m |-> s[i]]
  BY <1>1
<1>3. Front(s) \in Seq(S) /\ Len(Front(s)) = m
  BY <1>1, <1>2
<1>4. Front(s)[1] = s[1] /\ Front(s) # <<>> /\ \A i \in 1..m : Front(s)[i] = s[i]
  BY <1>1, <1>2, <1>3
<1> QED BY <1>3, <1>4 DEF m

LEMMA FrontVisits ==
    ASSUME NEW vs, Visits(vs), vs[Len(vs)].op # "unit"
    PROVE  Visits(Front(vs)) /\ Len(Front(vs)) = Len(vs) - 1
<1>1. Len(vs) > 1 /\ vs \in Seq(Visit) /\ Len(vs) \in Nat
  BY DEF Visits
<1>2. /\ Front(vs) \in Seq(Visit) /\ Len(Front(vs)) = Len(vs) - 1
      /\ Front(vs)[1] = vs[1] /\ Front(vs) # <<>>
  BY <1>1, FrontFacts
<1>3. vs[1].op = "unit"
  BY DEF Visits
<1>4. Front(vs)[1].op = "unit"
  BY <1>2, <1>3
<1> QED BY <1>2, <1>4 DEF Visits

LEMMA WalkedInit == UnitOK /\ CheckInit => Walked(open, scopes, cpos)
<1> SUFFICES ASSUME UnitOK, CheckInit PROVE Walked(open, scopes, cpos)
  OBVIOUS
<1>1. /\ cpos = 1 /\ scopes = <<NoScope>> /\ open = <<Opened("unit", 0)>>
      /\ 1 \in 1..(Len(Tokens) + 1)
  BY TokenFacts DEF CheckInit
<1>2. Opened("unit", 0) \in Visit /\ Opened("unit", 0).op = "unit"
  BY DEF Opened, Visit
<1>3. NoScope \in [Names -> Variable \cup {None}] /\ \A n \in Names : NoScope[n] = None
  BY DEF NoScope
<1>4. Visits(open) /\ Len(open) = 1
  BY <1>1, <1>2 DEF Visits
<1>5. scopes \in Scopes /\ Len(scopes) = 1 /\ DOMAIN scopes = {1} /\ scopes[1] = NoScope
  BY <1>1, <1>3 DEF Scopes
<1>6. HoldsAlive(scopes, 1) /\ AliveHeld(scopes, 1) /\ InnerLater(scopes)
  <2>1. 1..(1 - 1) = {}
    OBVIOUS
  <2> QED BY <1>3, <1>5, <2>1 DEF HoldsAlive, AliveHeld, InnerLater
<1> QED BY <1>1, <1>4, <1>5, <1>6, FirstDepth DEF Walked, ScopesMatch

LEMMA WalkedNext ==
    ASSUME UnitOK, Walked(open, scopes, cpos), CheckNext
    PROVE  Walked(open', scopes', cpos')
<1> DEFINE p == cpos
<1>1. /\ p \in 1..(Len(Tokens) + 1) /\ Visits(open) /\ Len(open) = Len(scopes)
      /\ scopes \in Scopes /\ Len(scopes) = Depth(p) + 1 /\ ScopesMatch(scopes, p)
      /\ scopes # <<>> /\ Len(scopes) \in Nat
  BY DEF Walked, Scopes, Visits
<1>2. ASSUME NEW ops, Step, Checking(ops)
      PROVE  /\ p \in Positions /\ p \in Nat \ {0} /\ Tokens[p].op \in ops
             /\ cpos' = p + 1 /\ cpos' \in 1..(Len(Tokens) + 1)
  BY <1>1, <1>2, TokenFacts DEF Step, Checking
<1>3. Unset \in SUBSET BOOLEAN /\ {TRUE} \in SUBSET BOOLEAN /\ {FALSE} \in SUBSET BOOLEAN
  BY DEF Unset
<1>4. Depth(p) \in Int
  BY <1>1, DepthType
<1> HIDE DEF p
<1>5. ASSUME NEW ops, Step, Checking(ops), scopes' = scopes,
             ops \subseteq {"evaluate", "other", "forward"} \cup Returns,
             NEW values \in SUBSET BOOLEAN, open' = After(open, values)
      PROVE  Walked(open', scopes', cpos')
  <2>1. /\ p \in Positions /\ p \in Nat \ {0} /\ cpos' = p + 1
        /\ cpos' \in 1..(Len(Tokens) + 1)
        /\ Tokens[p].op \in {"evaluate", "other", "forward"} \cup Returns
    BY <1>2, <1>5
  <2>2. /\ ~Closes(p) /\ Tokens[p].op \notin {"declare", "function"}
        /\ Tokens[p].op \notin Openers /\ Tokens[p].op # "end"
    BY <2>1 DEF Closes, Clauses, Openers, Returns
  <2>3. ScopesMatch(scopes, p + 1) /\ Depth(p + 1) = Depth(p)
    BY <1>1, <2>1, <2>2, MatchPlain, NextDepth
  <2>4. Visits(open') /\ Len(open') = Len(open)
    BY <1>1, <1>5, AfterVisits
  <2> QED BY <1>1, <1>5, <2>1, <2>3, <2>4 DEF Walked
<1>6. CASE CheckDeclare
  <2>1. /\ Step /\ Checking({"declare"}) /\ scopes[Len(scopes)][Tokens[p].name] = None
        /\ scopes' = AddSymbol(scopes, Tokens[p].name, <<p, 0>>)
        /\ open' = After(open, Unset)
    BY <1>6 DEF CheckDeclare, p
  <2>2. /\ p \in Positions /\ p \in Nat \ {0} /\ cpos' = p + 1
        /\ cpos' \in 1..(Len(Tokens) + 1) /\ Tokens[p].op = "declare"
    BY <1>2, <2>1
  <2>3. ScopesMatch(scopes', p + 1) /\ scopes' \in Scopes /\ Len(scopes') = Len(scopes)
    BY <1>1, <2>1, <2>2, MatchDeclare
  <2>4. Depth(p + 1) = Depth(p)
    BY <2>2, NextDepth DEF Openers
  <2>5. Visits(open') /\ Len(open') = Len(open)
    BY <1>1, <1>3, <2>1, AfterVisits
  <2> QED BY <1>1, <2>2, <2>3, <2>4, <2>5 DEF Walked
<1>7. CASE CheckOpen
  <2>1. /\ Step /\ Checking({"if", "while"}) /\ scopes' = Append(scopes, NoScope)
        /\ open' = Append(open, Opened(Tokens[p].op, p))
    BY <1>7 DEF CheckOpen, p
  <2>2. /\ p \in Positions /\ p \in Nat \ {0} /\ cpos' = p + 1
        /\ cpos' \in 1..(Len(Tokens) + 1) /\ Tokens[p].op \in {"if", "while"}
    BY <1>2, <2>1
  <2>3. /\ ~Closes(p) /\ Tokens[p].op \notin {"declare", "function"}
        /\ Tokens[p].op \in Openers
    BY <2>2 DEF Closes, Clauses, Openers
  <2>4. ScopesMatch(scopes, p + 1) /\ Depth(p + 1) = Depth(p) + 1
    BY <1>1, <2>2, <2>3, MatchPlain, NextDepth
  <2>5. ScopesMatch(scopes', p + 1) /\ scopes' \in Scopes
    BY <1>1, <2>1, <2>4, AppendEmpty
  <2>6. Len(scopes') = Len(scopes) + 1
    BY <1>1, <2>1 DEF Scopes
  <2>7. Visits(open') /\ Len(open') = Len(open) + 1
    BY <1>1, <2>1, <2>2, <2>3, OpenedVisits
  <2> QED BY <1>1, <1>4, <2>2, <2>4, <2>5, <2>6, <2>7 DEF Walked
<1>8. CASE CheckClause
  <2>1. /\ Step /\ Checking(Clauses) /\ scopes' = Append(Front(scopes), NoScope)
        /\ \E t \in Inner.last :
              open' = [open EXCEPT ![Len(open)] = [Inner EXCEPT !.all = @ /\ t, !.last = {TRUE}]]
    BY <1>8 DEF CheckClause
  <2>2. /\ p \in Positions /\ p \in Nat \ {0} /\ cpos' = p + 1
        /\ cpos' \in 1..(Len(Tokens) + 1) /\ Tokens[p].op \in Clauses
    BY <1>2, <2>1
  <2>3. Closes(p) /\ Tokens[p].op \notin Openers /\ Tokens[p].op # "end"
    BY <2>2 DEF Closes, Clauses, Openers
  <2>4. /\ ScopesMatch(Front(scopes), p + 1) /\ Front(scopes) \in Scopes
        /\ Len(Front(scopes)) = Depth(p) /\ Depth(p + 1) = Depth(p)
    BY <1>1, <2>2, <2>3, MatchClose, NextDepth
  <2>5. ScopesMatch(scopes', p + 1) /\ scopes' \in Scopes
    BY <2>1, <2>4, AppendEmpty
  <2>6. Len(scopes') = Depth(p) + 1
    BY <2>1, <2>4 DEF Scopes
  <2>7. Inner.last \in SUBSET BOOLEAN
    <3>1. Inner \in Visit
      BY <1>1 DEF Inner, Visits
    <3> QED BY <3>1 DEF Visit
  <2>8. Visits(open') /\ Len(open') = Len(open)
    BY <1>1, <2>1, <2>7, ClauseVisits DEF Inner
  <2> QED BY <1>1, <2>2, <2>4, <2>5, <2>6, <2>8 DEF Walked
<1>9. ASSUME Step, Checking({"end"}), Inner.op # "unit", scopes' = Front(scopes),
             NEW values \in SUBSET BOOLEAN, open' = After(Front(open), values)
      PROVE  Walked(open', scopes', cpos')
  <2>1. /\ p \in Positions /\ p \in Nat \ {0} /\ cpos' = p + 1
        /\ cpos' \in 1..(Len(Tokens) + 1) /\ Tokens[p].op = "end"
    BY <1>2, <1>9
  <2>2. Closes(p) /\ Tokens[p].op \notin Openers
    BY <2>1 DEF Closes, Openers
  <2>3. /\ ScopesMatch(scopes', p + 1) /\ scopes' \in Scopes
        /\ Len(scopes') = Depth(p) /\ Depth(p + 1) = Depth(p) - 1
    BY <1>1, <1>9, <2>1, <2>2, MatchClose, NextDepth
  <2>4. Visits(Front(open)) /\ Len(Front(open)) = Len(open) - 1
    BY <1>1, <1>9, FrontVisits DEF Inner
  <2>5. Visits(open') /\ Len(open') = Len(open) - 1
    BY <1>9, <2>4, AfterVisits
  <2> QED BY <1>1, <1>4, <2>1, <2>3, <2>5 DEF Walked
<1>10. CASE CheckEnd
  <2>1. PICK t \in Inner.last : open' = After(Front(open), {Inner.all /\ t})
    BY <1>10 DEF CheckEnd
  <2>2. {Inner.all /\ t} \in SUBSET BOOLEAN
    OBVIOUS
  <2> QED BY <1>9, <1>10, <2>1, <2>2 DEF CheckEnd
<1>11. CASE CheckFunctionEnd
  BY <1>3, <1>9, <1>11 DEF CheckFunctionEnd
<1>12. CASE CheckFunction
  <2>1. /\ Step /\ Checking({"function"}) /\ IsInjective(Tokens[p].sig.params)
        /\ scopes' = Append(scopes, WithParameters(p))
        /\ open' = Append(open, Opened("function", p))
    BY <1>12 DEF CheckFunction, p
  <2>2. /\ p \in Positions /\ p \in Nat \ {0} /\ cpos' = p + 1
        /\ cpos' \in 1..(Len(Tokens) + 1) /\ Tokens[p].op = "function"
        /\ "function" \in Openers
    BY <1>2, <2>1 DEF Openers
  <2>3. ScopesMatch(scopes', p + 1) /\ scopes' \in Scopes /\ Len(scopes') = Len(scopes) + 1
    BY <1>1, <2>1, <2>2, MatchFunction
  <2>4. Depth(p + 1) = Depth(p) + 1
    BY <2>2, NextDepth
  <2>5. Visits(open') /\ Len(open') = Len(open) + 1
    BY <1>1, <2>1, <2>2, OpenedVisits
  <2> QED BY <1>1, <1>4, <2>2, <2>3, <2>4, <2>5 DEF Walked
<1>13. CASE CheckEvaluate
  BY <1>3, <1>5, <1>13 DEF CheckEvaluate
<1>14. CASE CheckOther
  BY <1>3, <1>5, <1>14 DEF CheckOther
<1>15. CASE CheckForward
  BY <1>3, <1>5, <1>15 DEF CheckForward
<1>16. CASE CheckReturn
  BY <1>3, <1>5, <1>16 DEF CheckReturn
<1>17. CASE CheckReject \/ CheckCrash \/ CheckDone
  <2>1. UNCHANGED <<open, scopes, cpos>>
    BY <1>17 DEF CheckReject, CheckCrash, CheckDone
  <2> QED BY <2>1
<1> QED BY <1>6, <1>7, <1>8, <1>10, <1>11, <1>12, <1>13, <1>14, <1>15, <1>16, <1>17
        DEF CheckNext

-----------------------------------------------------------------------------
(* The bindings made before token p: one for each mention of a name, to    *)
(* the last variable of that name in scope there.                          *)
BoundByText(bs, p) ==
    \A b \in bs : \E i \in 1..(p - 1), n \in Names : \E v \in InScope(n, i) :
        b = <<i, n, v>> /\ \A w \in InScope(n, i) : w[1] <= v[1]

AllBound(bs, p) == \A i \in 1..(p - 1) : \A n \in Tokens[i].uses : \E v : <<i, n, v>> \in bs

BoundOnce(bs) == \A b, c \in bs : b[1] = c[1] /\ b[2] = c[2] => b = c

Bindings(bs, p) == BoundByText(bs, p) /\ AllBound(bs, p) /\ BoundOnce(bs)

InjectiveBefore(p) ==
    \A f \in Definitions : f < p => IsInjective(Tokens[f].sig.params)

LEMMA BindKeeps ==
    ASSUME UnitOK, Walked(open, scopes, cpos), cpos \in Positions, Tokens[cpos].op # "end",
           Bindings(bound, cpos), Declared, Bind
    PROVE  Bindings(bound', cpos + 1)
<1> DEFINE p == cpos
           look(n) == Lookup(ExpressionScopes, n)
<1>1. /\ p \in Nat \ {0} /\ (p + 1) - 1 = p /\ 1..p = 1..(p - 1) \cup {p}
      /\ p \notin 1..(p - 1)
  BY TokenFacts
<1>2. /\ scopes \in Scopes /\ Len(scopes) = Depth(cpos) + 1 /\ ScopesMatch(scopes, cpos)
      /\ scopes # <<>>
  BY DEF Walked, Visits
<1>3. \A n \in Tokens[p].uses :
         /\ n \in Names /\ look(n) \in InScope(n, p)
         /\ \A v \in InScope(n, p) : v[1] <= look(n)[1]
  BY <1>2, BindsByText DEF Declared
<1>4. bound' = bound \cup {<<p, n, look(n)>> : n \in Tokens[p].uses}
  BY DEF Bind
<1> HIDE DEF p, look
<1>5. BoundByText(bound', p + 1)
  <2> SUFFICES ASSUME NEW b \in bound'
               PROVE  \E i \in 1..p, n \in Names : \E v \in InScope(n, i) :
                         b = <<i, n, v>> /\ \A w \in InScope(n, i) : w[1] <= v[1]
    BY <1>1 DEF BoundByText
  <2>1. CASE b \in bound
    <3>1. PICK i \in 1..(p - 1), n \in Names : \E v \in InScope(n, i) :
             b = <<i, n, v>> /\ \A w \in InScope(n, i) : w[1] <= v[1]
      BY <2>1 DEF Bindings, BoundByText, p
    <3> QED BY <1>1, <3>1
  <2>2. CASE \E n \in Tokens[p].uses : b = <<p, n, look(n)>>
    BY <1>1, <1>3, <2>2
  <2> QED BY <1>4, <2>1, <2>2
<1>6. AllBound(bound', p + 1)
  <2> SUFFICES ASSUME NEW i \in 1..p, NEW n \in Tokens[i].uses
               PROVE  \E v : <<i, n, v>> \in bound'
    BY <1>1 DEF AllBound
  <2>1. CASE i = p
    BY <1>4, <2>1
  <2>2. CASE i \in 1..(p - 1)
    BY <1>4, <2>2 DEF Bindings, AllBound, p
  <2> QED BY <1>1, <2>1, <2>2
<1>7. \A b \in bound : b[1] # p
  BY <1>1 DEF Bindings, BoundByText, p
<1>8. BoundOnce(bound')
  BY <1>4, <1>7 DEF Bindings, BoundOnce
<1> QED BY <1>5, <1>6, <1>8 DEF Bindings, p

LEMMA NoMentions ==
    ASSUME UnitOK, cpos \in Positions, Tokens[cpos].uses = {}, Bindings(bound, cpos)
    PROVE  Bindings(bound, cpos + 1)
<1>1. cpos \in Nat \ {0} /\ (cpos + 1) - 1 = cpos /\ 1..cpos = 1..(cpos - 1) \cup {cpos}
  BY TokenFacts
<1>2. BoundByText(bound, cpos + 1)
  <2> SUFFICES ASSUME NEW b \in bound
               PROVE  \E i \in 1..cpos, n \in Names : \E v \in InScope(n, i) :
                         b = <<i, n, v>> /\ \A w \in InScope(n, i) : w[1] <= v[1]
    BY <1>1 DEF BoundByText
  <2>1. PICK i \in 1..(cpos - 1), n \in Names : \E v \in InScope(n, i) :
           b = <<i, n, v>> /\ \A w \in InScope(n, i) : w[1] <= v[1]
    BY DEF Bindings, BoundByText
  <2> QED BY <1>1, <2>1
<1>3. AllBound(bound, cpos + 1)
  <2> SUFFICES ASSUME NEW i \in 1..cpos, NEW n \in Tokens[i].uses
               PROVE  \E v : <<i, n, v>> \in bound
    BY <1>1 DEF AllBound
  <2>1. i \in 1..(cpos - 1)
    BY <1>1
  <2> QED BY <2>1 DEF Bindings, AllBound
<1> QED BY <1>2, <1>3 DEF Bindings

(* What the type checker knows of the file it walks.                       *)
CheckInv ==
    /\ UnitOK
    /\ Walked(open, scopes, cpos)
    /\ Bindings(bound, cpos)
    /\ InjectiveBefore(cpos)
    /\ verdict = "checked" => cpos > Len(Tokens)

LEMMA CheckInvInit == unit \in Units /\ CheckInit => CheckInv
<1> SUFFICES ASSUME unit \in Units, CheckInit PROVE CheckInv
  OBVIOUS
<1>1. UnitOK
  BY UnitsAssumption DEF UnitOK
<1>2. cpos = 1 /\ bound = {} /\ verdict = "checking" /\ 1..(1 - 1) = {}
  BY DEF CheckInit
<1>3. Bindings(bound, cpos)
  BY <1>2 DEF Bindings, BoundByText, AllBound, BoundOnce
<1>4. InjectiveBefore(cpos)
  BY <1>1, <1>2, TokenFacts DEF InjectiveBefore, Definitions
<1> QED BY <1>1, <1>2, <1>3, <1>4, WalkedInit DEF CheckInv

LEMMA BindingsNext ==
    ASSUME CheckInv, CheckNext
    PROVE  Bindings(bound', cpos') /\ InjectiveBefore(cpos')
             /\ (verdict' = "checked" => cpos' > Len(Tokens))
<1>1. /\ UnitOK /\ Walked(open, scopes, cpos) /\ Bindings(bound, cpos)
      /\ InjectiveBefore(cpos) /\ cpos \in Nat /\ cpos \in 1..(Len(Tokens) + 1)
  BY TokenFacts DEF CheckInv, Walked
<1>2. ASSUME NEW ops, Checking(ops)
      PROVE  cpos \in Positions /\ Tokens[cpos].op \in ops /\ verdict = "checking"
  BY <1>1, <1>2, TokenFacts DEF Checking
<1>3. ASSUME NEW ops, Checking(ops), "function" \notin ops PROVE InjectiveBefore(cpos + 1)
  <2>1. cpos \notin Definitions
    BY <1>2, <1>3 DEF Definitions
  <2>2. \A f \in Definitions : f < cpos + 1 => f < cpos
    BY <1>1, <2>1, TokenFacts DEF Definitions
  <2> QED BY <1>1, <2>2 DEF InjectiveBefore
<1>4. ASSUME NEW ops, Checking(ops), Step, Bind, Declared, "end" \notin ops, "function" \notin ops,
             verdict' = verdict
      PROVE  Bindings(bound', cpos') /\ InjectiveBefore(cpos') /\ verdict' # "checked"
  BY <1>1, <1>2, <1>3, <1>4, BindKeeps DEF Step
<1>5. ASSUME NEW ops, Checking(ops), ops \subseteq {"function", "forward", "other", "end"},
             Step, bound' = bound
      PROVE  Bindings(bound', cpos')
  <2>1. cpos \in Positions /\ Tokens[cpos].op \in ops
    BY <1>2, <1>5
  <2>2. Tokens[cpos].uses = {}
    BY <1>1, <1>5, <2>1, TokenFacts DEF Proper
  <2>3. cpos' = cpos + 1
    BY <1>5 DEF Step
  <2>4. Bindings(bound, cpos + 1)
    BY <1>1, <2>1, <2>2, NoMentions
  <2> QED BY <1>5, <2>3, <2>4
<1>6. CASE CheckDeclare
  BY <1>4, <1>6 DEF CheckDeclare
<1>7. CASE CheckEvaluate
  BY <1>4, <1>7 DEF CheckEvaluate
<1>8. CASE CheckReturn
  BY <1>4, <1>8 DEF CheckReturn, Returns
<1>9. CASE CheckOpen
  BY <1>4, <1>9 DEF CheckOpen
<1>10. CASE CheckClause
  BY <1>4, <1>10 DEF CheckClause, Clauses
<1>11. CASE CheckOther
  BY <1>2, <1>3, <1>5, <1>11 DEF CheckOther, Step
<1>12. CASE CheckForward
  BY <1>2, <1>3, <1>5, <1>12 DEF CheckForward, Step
<1>13. CASE CheckEnd
  BY <1>2, <1>3, <1>5, <1>13 DEF CheckEnd, Step
<1>14. CASE CheckFunctionEnd
  <2>1. verdict' # "checked"
    BY <1>2, <1>14 DEF CheckFunctionEnd
  <2> QED BY <1>2, <1>3, <1>5, <1>14, <2>1 DEF CheckFunctionEnd, Step
<1>15. CASE CheckFunction
  <2>1. Bindings(bound', cpos') /\ verdict' # "checked"
    BY <1>2, <1>5, <1>15 DEF CheckFunction
  <2>2. IsInjective(Tokens[cpos].sig.params) /\ cpos' = cpos + 1
    BY <1>15 DEF CheckFunction, Step
  <2>3. \A f \in Definitions : f < cpos + 1 => f < cpos \/ f = cpos
    BY <1>1, TokenFacts DEF Definitions
  <2> QED BY <1>1, <2>1, <2>2, <2>3 DEF InjectiveBefore
<1>16. CASE CheckReject \/ CheckCrash
  BY <1>1, <1>16 DEF CheckReject, CheckCrash
<1>17. CASE CheckDone
  BY <1>1, <1>17 DEF CheckDone
<1> QED BY <1>6, <1>7, <1>8, <1>9, <1>10, <1>11, <1>12, <1>13, <1>14, <1>15, <1>16, <1>17
        DEF CheckNext

-----------------------------------------------------------------------------
(* The text does not change.                                               *)
LEMMA SameText ==
    ASSUME unit' = unit
    PROVE  /\ UnitOK' <=> UnitOK
           /\ Tokens' = Tokens /\ Positions' = Positions /\ Definitions' = Definitions
           /\ \A p : Depth(p)' = Depth(p)
           /\ \A n, p : InScope(n, p)' = InScope(n, p)
           /\ \A vs, sc, p : Walked(vs, sc, p)' <=> Walked(vs, sc, p)
           /\ \A bs, p : Bindings(bs, p)' <=> Bindings(bs, p)
           /\ \A p : InjectiveBefore(p)' <=> InjectiveBefore(p)
<1>1. Tokens' = Tokens
  BY DEF Tokens
<1>2. Positions' = Positions /\ \A p : Depth(p)' = Depth(p)
  BY <1>1 DEF Positions, Depth
<1>3. /\ \A q : LevelOf(q)' = LevelOf(q)
      /\ \A q, l, p : Open(q, l, p)' <=> Open(q, l, p)
      /\ \A q, j, n : VarOf(q, j, n)' <=> VarOf(q, j, n)
  BY <1>1, <1>2 DEF LevelOf, Open, VarOf
<1>4. Definitions' = Definitions
  BY <1>1, <1>2 DEF Definitions
<1>5. \A n, p : InScope(n, p)' = InScope(n, p)
  BY <1>1, <1>2, <1>3, <1>4 DEF InScope
<1>6. \A q, j, n, p : Alive(q, j, n, p)' <=> Alive(q, j, n, p)
  BY <1>3 DEF Alive
<1>7. \A sc, p : ScopesMatch(sc, p)' <=> ScopesMatch(sc, p)
  BY <1>3, <1>6 DEF ScopesMatch, HoldsAlive, AliveHeld, InnerLater
<1>8. \A vs, sc, p : Walked(vs, sc, p)' <=> Walked(vs, sc, p)
  BY <1>1, <1>2, <1>7 DEF Walked
<1>9. \A bs, p : Bindings(bs, p)' <=> Bindings(bs, p)
  <2>1. \A bs, p : BoundByText(bs, p)' <=> BoundByText(bs, p)
    BY <1>5 DEF BoundByText
  <2>2. \A bs, p : AllBound(bs, p)' <=> AllBound(bs, p)
    BY <1>1 DEF AllBound
  <2> QED BY <2>1, <2>2 DEF Bindings, BoundOnce
<1>10. \A p : InjectiveBefore(p)' <=> InjectiveBefore(p)
  BY <1>1, <1>4 DEF InjectiveBefore
<1>11. UnitOK' <=> UnitOK
  BY DEF UnitOK
<1> QED BY <1>1, <1>2, <1>4, <1>5, <1>8, <1>9, <1>10, <1>11

LEMMA CheckInvStep == CheckInv /\ [Next]_vars => CheckInv'
<1> SUFFICES ASSUME CheckInv, [Next]_vars PROVE CheckInv'
  OBVIOUS
<1>1. unit' = unit
  BY DEF Next, vars, Check, Generate, CheckNext, GenNext, CheckDeclare, CheckEvaluate,
     CheckOther, CheckReturn, CheckOpen, CheckClause, CheckEnd, CheckFunction, CheckForward,
     CheckFunctionEnd, CheckReject, CheckCrash, CheckDone, GenDeclare, GenEvaluate, GenOther,
     GenReturn, GenIf, GenElseIf, GenElse, GenIfEnd, GenWhile, GenWhileEnd, GenFunction,
     GenForward, GenFunctionEnd, GenReject, GenCrash, GenDone
<1>2. CASE CheckNext
  <2>1. /\ Walked(open', scopes', cpos') /\ Bindings(bound', cpos')
        /\ InjectiveBefore(cpos') /\ (verdict' = "checked" => cpos' > Len(Tokens))
    BY <1>2, WalkedNext, BindingsNext DEF CheckInv
  <2> QED BY <1>1, <2>1, SameText DEF CheckInv
<1>3. CASE UNCHANGED checkVars
  <2>1. UNCHANGED <<cpos, scopes, open, bound, verdict>>
    BY <1>3 DEF checkVars
  <2> QED BY <1>1, <2>1, SameText DEF CheckInv
<1> QED BY <1>2, <1>3 DEF Next, Check, Generate, vars

(* A name the type checker has accepted is bound to a variable of that     *)
(* name whose block is open where the name stands, and to the last such,   *)
(* in every file whatever its functions look like.                         *)
THEOREM Lexical == Spec => []BindsLexically
<1>1. Init => CheckInv
  BY CheckInvInit DEF Init
<1>2. CheckInv => BindsLexically
  BY DEF CheckInv, Bindings, BoundByText, BindsLexically
<1> QED BY <1>1, <1>2, CheckInvStep, PTL DEF Spec

-----------------------------------------------------------------------------
(* The shape of a unit.                                                    *)
LEMMA ShapeFacts ==
    ASSUME UnitOK
    PROVE  /\ Depth(Len(Tokens) + 1) = 0
           /\ \A i \in Positions : Depth(i) = 0 => Tokens[i].op \in {"function", "forward", "other"}
           /\ ClausesOfIfs(Tokens) /\ DefinedOnce(Tokens)
BY DEF UnitOK, Unit, Closed, Depth, Tokens, Positions

(* A descent of the depth passes the end of a construct at each level.     *)
LEMMA Crossing ==
    ASSUME NEW i \in Nat \ {0}, NEW j \in Nat, i <= j, NEW l \in Int,
           Depth(i) >= l, Depth(j) < l
    PROVE  \E r \in i..(j - 1) : Tokens[r].op = "end" /\ Depth(r) = l
<1> DEFINE S == {k \in i..j : Depth(k) < l}
<1>1. S \in SUBSET Nat /\ S # {}
  OBVIOUS
<1>2. PICK k \in S : \A m \in S : k <= m
  <2> HIDE DEF S
  <2> QED BY <1>1, HasLeast
<1>3. k \in i..j /\ Depth(k) < l /\ k # i
  <2>1. k \in i..j /\ Depth(k) < l
    OBVIOUS
  <2>2. Depth(i) \in Int
    BY DepthType
  <2> HIDE DEF S
  <2> QED BY <2>1, <2>2
<1>4. /\ k - 1 \in Nat \ {0} /\ k - 1 \in i..j /\ k - 1 \in i..(j - 1)
      /\ (k - 1) + 1 = k /\ ~(k <= k - 1)
  BY <1>3
<1>5. ~(Depth(k - 1) < l)
  BY <1>2, <1>4
<1>6. Depth(k - 1) \in Int /\ Depth(k) \in Int
  BY <1>3, <1>4, DepthType
<1> HIDE DEF S
<1>7. Tokens[k - 1].op = "end" /\ Depth(k) = Depth(k - 1) - 1
  <2>1. Depth(k) = CASE Tokens[k - 1].op \in Openers -> Depth(k - 1) + 1
                     [] Tokens[k - 1].op = "end" -> Depth(k - 1) - 1
                     [] OTHER -> Depth(k - 1)
    BY <1>4, NextDepth
  <2>2. CASE Tokens[k - 1].op \in Openers
    BY <1>3, <1>5, <1>6, <2>1, <2>2 DEF Openers
  <2>3. CASE Tokens[k - 1].op \notin Openers /\ Tokens[k - 1].op # "end"
    BY <1>3, <1>5, <1>6, <2>1, <2>3
  <2>4. CASE Tokens[k - 1].op = "end"
    BY <2>1, <2>4 DEF Openers
  <2> QED BY <2>2, <2>3, <2>4
<1>8. Depth(k - 1) = l
  BY <1>3, <1>5, <1>6, <1>7
<1> QED BY <1>4, <1>7, <1>8

LEMMA DepthNatural ==
    ASSUME UnitOK, NEW p \in 1..(Len(Tokens) + 1)
    PROVE  Depth(p) \in Nat
<1>1. p \in Nat \ {0} /\ Len(Tokens) \in Nat /\ Positions = 1..Len(Tokens)
  BY TokenFacts
<1>2. Depth(p) \in Int
  BY <1>1, DepthType
<1>3. ASSUME Depth(p) < 0 PROVE FALSE
  <2>1. Depth(1) >= 0 /\ 0 \in Int /\ 1 \in Nat \ {0} /\ 1 <= p
    BY <1>1, FirstDepth
  <2>2. PICK r \in 1..(p - 1) : Tokens[r].op = "end" /\ Depth(r) = 0
    BY <1>1, <1>3, <2>1, Crossing
  <2>3. r \in Positions
    BY <1>1
  <2> QED BY <2>2, <2>3, ShapeFacts
<1> QED BY <1>2, <1>3

(* The end of a function at the top level.                                 *)
LEMMA EndOfFunction ==
    ASSUME UnitOK, NEW f \in Positions, Tokens[f].op = "function", Depth(f) = 0
    PROVE  /\ EndOf(f) + 1 \in 1..(Len(Tokens) + 1) /\ Depth(EndOf(f) + 1) = 0
           /\ EndOf(f) \in Positions /\ f < EndOf(f) /\ Tokens[EndOf(f)].op = "end"
           /\ \A j \in Positions : j > f /\ Tokens[j].op = "end" /\ Depth(j) = 1 => EndOf(f) <= j
<1> DEFINE S == {j \in Positions : j > f /\ Tokens[j].op = "end" /\ Depth(j) = Depth(f) + 1}
<1>1. f \in Nat \ {0} /\ f + 1 \in Nat \ {0} /\ Len(Tokens) \in Nat /\ Positions = 1..Len(Tokens)
      /\ f + 1 <= Len(Tokens) + 1 /\ Len(Tokens) + 1 \in Nat
  BY TokenFacts
<1>2. Depth(f + 1) = 1
  BY <1>1, NextDepth DEF Openers
<1>3. Depth(Len(Tokens) + 1) = 0
  BY ShapeFacts
<1>4. PICK r \in (f + 1)..((Len(Tokens) + 1) - 1) : Tokens[r].op = "end" /\ Depth(r) = 1
  BY <1>1, <1>2, <1>3, Crossing
<1>5. r \in S
  BY <1>1, <1>4
<1>6. S \in SUBSET Nat /\ S # {}
  BY <1>1, <1>5
<1>7. EndOf(f) \in S /\ \A j \in S : EndOf(f) <= j
  <2>1. EndOf(f) = Min(S)
    BY DEF EndOf
  <2> HIDE DEF S
  <2>2. \E x \in S : \A y \in S : x <= y
    BY <1>6, HasLeast
  <2> QED BY <2>1, <2>2 DEF Min
<1>8. EndOf(f) \in Nat \ {0} /\ EndOf(f) \in 1..Len(Tokens) /\ Tokens[EndOf(f)].op = "end"
      /\ Depth(EndOf(f)) = 1 /\ f < EndOf(f)
  BY <1>1, <1>7
<1>9. Depth(EndOf(f) + 1) = 0
  BY <1>8, NextDepth DEF Openers
<1>10. \A j \in Positions : j > f /\ Tokens[j].op = "end" /\ Depth(j) = 1 => EndOf(f) <= j
  BY <1>7
<1> QED BY <1>1, <1>8, <1>9, <1>10

(* A variable that is in scope in a function at the top level is one of    *)
(* its own: the blocks of the functions before it have ended.              *)
LEMMA OwnVariables ==
    ASSUME UnitOK, NEW f \in Positions, Depth(f) = 0,
           NEW p \in 1..(Len(Tokens) + 1), f < p,
           NEW q \in 1..(p - 1), NEW j, NEW n, VarOf(q, j, n), Open(q, LevelOf(q), p)
    PROVE  q \in f..(p - 1)
<1>1. /\ f \in Nat \ {0} /\ p \in Nat \ {0} /\ q \in Nat \ {0} /\ q \in Positions
      /\ q \in 1..(Len(Tokens) + 1) /\ q + 1 \in Nat \ {0}
  BY TokenFacts
<1> SUFFICES ASSUME q < f PROVE FALSE
  BY <1>1
<1> DEFINE i == IF Tokens[q].op = "function" THEN q + 1 ELSE q
<1>2. Tokens[q].op \in {"declare", "function"}
  BY DEF VarOf
<1>3. Depth(q) \in Nat /\ LevelOf(q) \in Nat \ {0}
  <2>1. Depth(q) \in Nat
    BY <1>1, DepthNatural
  <2> QED BY <1>1, <1>2, <2>1, ShapeFacts DEF LevelOf
<1>4. Depth(i) = LevelOf(q)
  <2>1. CASE Tokens[q].op = "function"
    BY <1>1, <1>3, <2>1, NextDepth DEF LevelOf, Openers
  <2> QED BY <2>1 DEF LevelOf
<1>5. i \in Nat \ {0} /\ i <= f /\ q <= i
  BY <1>1
<1>6. /\ Depth(i) >= LevelOf(q) /\ Depth(f) < LevelOf(q) /\ LevelOf(q) \in Int /\ f \in Nat
      /\ i = q => Tokens[q].op # "end"
  BY <1>1, <1>2, <1>3, <1>4
<1> HIDE DEF i
<1>7. PICK r \in i..(f - 1) : Tokens[r].op = "end" /\ Depth(r) = LevelOf(q)
  BY <1>5, <1>6, Crossing
<1>8. r # q
  BY <1>1, <1>2, <1>7
<1>9. r \in (q + 1)..p
  BY <1>1, <1>5, <1>7, <1>8
<1> QED BY <1>7, <1>9 DEF Open

-----------------------------------------------------------------------------
(* Where the code generator stands.  The visits in progress are the        *)
(* constructs that are open before token p, from the outside in.           *)
Entered(fs, p) ==
    \A k \in 1..Len(fs) :
        /\ Tokens[fs[k].at].op = fs[k].op /\ Depth(fs[k].at) = k - 1
        /\ fs[k].at < p
        /\ \A j \in (fs[k].at + 1)..p : Depth(j) >= k

(* The function visited is left for a token outside every function.        *)
Leaves(fs) == fs # <<>> => /\ fs[1].back \in 1..(Len(Tokens) + 1)
                           /\ Depth(fs[1].back) = 0

Inside(fs, p) == /\ fs \in Seq(Frame)
                 /\ p \in 1..(Len(Tokens) + 1)
                 /\ Len(fs) = Depth(p)
                 /\ Entered(fs, p)
                 /\ Leaves(fs)

(* An if statement without a block for a failed condition is past its else.*)
ElseSeen(fs, p) ==
    \A k \in 1..Len(fs) : fs[k].op = "if" /\ fs[k].other = 0 =>
        \E r \in (fs[k].at + 1)..(p - 1) : Tokens[r].op = "else" /\ Depth(r) = k

(* The blocks that are still needed belong to the function visited.        *)
Home(fs) == Tokens[fs[1].at].sig.key

Holds(bs, k, b) == b \in 1..Len(bs) /\ bs[b].fn = k

Owned(fs, bs, a) ==
    /\ bs \in Seq(Block)
    /\ fs # <<>> => Holds(bs, Home(fs), a)
    /\ \A k \in 2..Len(fs) : /\ Holds(bs, Home(fs), fs[k].join)
                             /\ fs[k].other = 0 \/ Holds(bs, Home(fs), fs[k].other)

(* The symbol table holds, for each name, the last variable of that name   *)
(* declared since the function visited began.                              *)
Latest(q, n, p) ==
    ~\E r \in (q + 1)..(p - 1) : Tokens[r].op = "declare" /\ Tokens[r].name = n

Current(f, k, tab, p) ==
    \A n \in Names : \A q \in f..(p - 1), j \in Nat :
        VarOf(q, j, n) /\ Latest(q, n, p) => tab[n] = [var |-> <<q, j>>, fn |-> k]

TableMatches(fs, tab, p) ==
    /\ tab \in [Names -> Slot \cup {None}]
    /\ fs # <<>> => Current(fs[1].at, Home(fs), tab, p)

(* A load agrees with the type checker unless the name is declared again.  *)
LoadAgrees(bs, ld) ==
    \E v \in Variable :
        /\ <<ld.at, ld.name, v>> \in bs
        /\ ld.slot.fn = ld.by
        /\ ld.slot.var = v <=> ~Redeclared(ld.at, ld.name, v)

LEMMA FrameFacts ==
    ASSUME NEW fs \in Seq(Frame), NEW k \in 1..Len(fs)
    PROVE  /\ fs[k] \in Frame /\ fs[k].op \in Openers
           /\ fs[k].at \in Positions /\ fs[k].back \in Nat
           /\ fs[k].join \in Nat /\ fs[k].other \in Nat
<1>1. fs[k] \in Frame
  OBVIOUS
<1> QED BY <1>1 DEF Frame

(* A statement stands in a function.                                       *)
LEMMA InFunction ==
    ASSUME UnitOK, NoNesting, NEW fs, NEW p \in Positions, Inside(fs, p),
           Tokens[p].op \notin {"function", "forward", "other"}
    PROVE  /\ Len(fs) \in Nat \ {0} /\ fs # <<>> /\ Depth(p) = Len(fs)
           /\ fs[1].op = "function" /\ Depth(fs[1].at) = 0 /\ fs[1].at \in Definitions
           /\ fs[1].at < p
           /\ \A k \in 2..Len(fs) : fs[k].op # "function"
<1>1. fs \in Seq(Frame) /\ Len(fs) = Depth(p) /\ Entered(fs, p) /\ Len(fs) \in Nat
  BY DEF Inside
<1>2. Depth(p) # 0
  BY ShapeFacts
<1>3. 1 \in 1..Len(fs)
  BY <1>1, <1>2
<1>4. /\ fs[1].at \in Positions /\ Tokens[fs[1].at].op = fs[1].op /\ Depth(fs[1].at) = 0
      /\ fs[1].at < p /\ fs[1].op \in Openers
  BY <1>1, <1>3, FrameFacts DEF Entered
<1>5. fs[1].op = "function"
  BY <1>4, ShapeFacts DEF Openers
<1>6. ASSUME NEW k \in 2..Len(fs), fs[k].op = "function" PROVE FALSE
  <2>1. k \in 1..Len(fs)
    BY <1>1
  <2>2. fs[k].at \in Positions /\ Tokens[fs[k].at].op = "function" /\ Depth(fs[k].at) = k - 1
    BY <1>1, <1>6, <2>1, FrameFacts DEF Entered
  <2> QED BY <2>2 DEF NoNesting
<1> QED BY <1>1, <1>2, <1>4, <1>5, <1>6 DEF Definitions

(* A clause belongs to the innermost visit, which still has the block for  *)
(* a failed condition.                                                     *)
LEMMA ClauseOfHere ==
    ASSUME UnitOK, NoNesting, NEW fs, NEW p \in Positions, Inside(fs, p), ElseSeen(fs, p),
           Tokens[p].op \in Clauses
    PROVE  /\ Len(fs) \in 2..Len(fs) /\ fs[Len(fs)].op = "if" /\ fs[Len(fs)].other # 0
<1> DEFINE l == Len(fs)
<1>1. /\ l \in Nat \ {0} /\ Depth(p) = l /\ fs[1].op = "function" /\ p \in Nat \ {0}
      /\ fs \in Seq(Frame) /\ Entered(fs, p) /\ l \in 1..l
  BY InFunction, TokenFacts DEF Inside, Clauses
<1> DEFINE h == fs[l].at
<1>2. /\ h \in Positions /\ h \in Nat /\ Tokens[h].op = fs[l].op /\ Depth(h) = l - 1 /\ h < p
      /\ \A j \in (h + 1)..p : Depth(j) >= l
  BY <1>1, FrameFacts, TokenFacts DEF Entered
<1>3. PICK o \in 1..(p - 1) :
         /\ Tokens[o].op = "if" /\ Depth(o) = l - 1
         /\ \A j \in (o + 1)..(p - 1) :
              Depth(j) >= l /\ (Depth(j) = l => Tokens[j].op \notin {"else", "end"})
  BY <1>1, ShapeFacts DEF ClausesOfIfs, Positions, Depth
<1> HIDE DEF l, h
<1>4. o = h
  <2>1. ASSUME o < h PROVE FALSE
    <3>1. h \in (o + 1)..(p - 1)
      BY <1>1, <1>2, <2>1
    <3> QED BY <1>1, <1>2, <1>3, <3>1
  <2>2. ASSUME h < o PROVE FALSE
    <3>1. o \in (h + 1)..p
      BY <1>1, <1>2, <2>2
    <3> QED BY <1>1, <1>2, <1>3, <3>1
  <2> QED BY <1>2, <2>1, <2>2
<1>5. fs[l].op = "if" /\ l # 1
  BY <1>1, <1>2, <1>3, <1>4
<1>6. ASSUME fs[l].other = 0 PROVE FALSE
  <2>1. PICK r \in (h + 1)..(p - 1) : Tokens[r].op = "else" /\ Depth(r) = l
    <3>1. \A k \in 1..l : fs[k].op = "if" /\ fs[k].other = 0 =>
             \E r \in (fs[k].at + 1)..(p - 1) : Tokens[r].op = "else" /\ Depth(r) = k
      BY DEF ElseSeen, l
    <3> QED BY <1>1, <1>5, <1>6, <3>1 DEF h
  <2>2. r \in (o + 1)..(p - 1)
    BY <1>4, <2>1
  <2> QED BY <1>3, <2>1, <2>2
<1> QED BY <1>1, <1>5, <1>6 DEF l

(* Past a token that neither opens nor closes a construct.                 *)
LEMMA ElseStaysSeen ==
    ASSUME NEW fs, NEW p \in Nat, ElseSeen(fs, p)
    PROVE  ElseSeen(fs, p + 1)
BY DEF ElseSeen

LEMMA InsidePlain ==
    ASSUME UnitOK, NEW fs, NEW p \in Positions, Inside(fs, p),
           Tokens[p].op \notin Openers \cup {"end"}
    PROVE  Inside(fs, p + 1)
<1>1. /\ p \in Nat \ {0} /\ p + 1 \in 1..(Len(Tokens) + 1)
  BY TokenFacts
<1>2. Depth(p + 1) = Depth(p)
  BY <1>1, NextDepth
<1>3. Entered(fs, p) /\ fs \in Seq(Frame) /\ Len(fs) = Depth(p) /\ Len(fs) \in Nat
  BY DEF Inside
<1>4. Entered(fs, p + 1)
  <2> SUFFICES ASSUME NEW k \in 1..Len(fs)
               PROVE  /\ Tokens[fs[k].at].op = fs[k].op /\ Depth(fs[k].at) = k - 1
                      /\ fs[k].at < p + 1
                      /\ \A j \in (fs[k].at + 1)..(p + 1) : Depth(j) >= k
    BY DEF Entered
  <2>1. fs[k].at \in Nat
    BY <1>3, FrameFacts, TokenFacts
  <2>2. /\ Tokens[fs[k].at].op = fs[k].op /\ Depth(fs[k].at) = k - 1
        /\ fs[k].at < p
        /\ \A j \in (fs[k].at + 1)..p : Depth(j) >= k
    BY <1>3 DEF Entered
  <2>3. ASSUME NEW j \in (fs[k].at + 1)..(p + 1) PROVE Depth(j) >= k
    <3>1. CASE j = p + 1
      BY <1>2, <1>3, <3>1
    <3>2. CASE j \in (fs[k].at + 1)..p
      BY <2>2, <3>2
    <3> QED BY <1>1, <2>1, <3>1, <3>2
  <2> QED BY <1>1, <2>1, <2>2, <2>3
<1> QED BY <1>1, <1>2, <1>3, <1>4 DEF Inside

(* Other blocks may be noted for the innermost visit.                      *)
LEMMA InsideSame ==
    ASSUME NEW fs, NEW p, Inside(fs, p), NEW gs \in Seq(Frame), Len(gs) = Len(fs),
           \A k \in 1..Len(fs) : /\ gs[k].op = fs[k].op /\ gs[k].at = fs[k].at
                                 /\ gs[k].back = fs[k].back
    PROVE  Inside(gs, p)
<1>1. Entered(gs, p)
  BY DEF Inside, Entered
<1>2. Leaves(gs)
  <2>1. CASE gs = <<>>
    BY <2>1 DEF Leaves
  <2>2. CASE gs # <<>>
    <3>1. fs \in Seq(Frame) /\ fs # <<>> /\ 1 \in 1..Len(fs)
      BY <2>2 DEF Inside
    <3> QED BY <3>1 DEF Inside, Leaves
  <2> QED BY <2>1, <2>2
<1> QED BY <1>1, <1>2 DEF Inside

LEMMA OtherFrame ==
    ASSUME NEW fs \in Seq(Frame), fs # <<>>, NEW o \in Nat
    PROVE  LET gs == [fs EXCEPT ![Len(fs)].other = o]
           IN  /\ gs \in Seq(Frame) /\ Len(gs) = Len(fs)
               /\ \A k \in 1..Len(fs) : /\ gs[k].op = fs[k].op /\ gs[k].at = fs[k].at
                                        /\ gs[k].back = fs[k].back /\ gs[k].join = fs[k].join
                                        /\ k # Len(fs) => gs[k] = fs[k]
               /\ gs[Len(fs)].other = o
<1> DEFINE l == Len(fs)
           fr == [fs[l] EXCEPT !.other = o]
<1>1. l \in 1..Len(fs) /\ fs[l] \in Frame
  OBVIOUS
<1>2. /\ fr \in Frame /\ fr.op = fs[l].op /\ fr.at = fs[l].at /\ fr.back = fs[l].back
      /\ fr.join = fs[l].join /\ fr.other = o
  BY <1>1 DEF Frame
<1>3. [fs EXCEPT ![Len(fs)].other = o] = [fs EXCEPT ![l] = fr]
  OBVIOUS
<1> HIDE DEF fr
<1>4. [fs EXCEPT ![l] = fr] \in Seq(Frame)
  BY <1>1, <1>2, ReplaceIn
<1>5. /\ Len([fs EXCEPT ![l] = fr]) = Len(fs)
      /\ \A k \in 1..Len(fs) : [fs EXCEPT ![l] = fr][k] = IF k = l THEN fr ELSE fs[k]
  <2> HIDE DEF l
  <2> QED BY <1>1
<1> QED BY <1>1, <1>2, <1>3, <1>4, <1>5

(* At the start of an if or while statement, and of the body of a function *)
(* at the top level.                                                       *)
LEMMA AppendFacts ==
    ASSUME NEW S, NEW fs \in Seq(S), NEW x \in S
    PROVE  /\ Append(fs, x) \in Seq(S) /\ Len(Append(fs, x)) = Len(fs) + 1
           /\ Append(fs, x) # <<>> /\ Append(fs, x)[Len(fs) + 1] = x
           /\ \A k \in 1..Len(fs) : Append(fs, x)[k] = fs[k]
OBVIOUS

LEMMA InsidePush ==
    ASSUME UnitOK, NoNesting, NEW fs, NEW p \in Positions, Inside(fs, p), ElseSeen(fs, p),
           Tokens[p].op \in {"if", "while"},
           NEW fr \in Frame, fr.op = Tokens[p].op, fr.at = p, fr.other # 0
    PROVE  Inside(Append(fs, fr), p + 1) /\ ElseSeen(Append(fs, fr), p + 1)
<1> DEFINE gs == Append(fs, fr)
           l == Len(fs)
<1>1. /\ p \in Nat \ {0} /\ p + 1 \in 1..(Len(Tokens) + 1) /\ l \in Nat \ {0} /\ fs # <<>>
      /\ Depth(p) = l /\ fs \in Seq(Frame) /\ Entered(fs, p) /\ Leaves(fs)
  BY InFunction, TokenFacts DEF Inside
<1>2. Depth(p + 1) = l + 1
  BY <1>1, NextDepth DEF Openers
<1>3. /\ gs \in Seq(Frame) /\ Len(gs) = l + 1 /\ gs # <<>> /\ gs[l + 1] = fr
      /\ \A k \in 1..l : gs[k] = fs[k]
  BY <1>1, AppendFacts
<1> HIDE DEF gs
<1>4. gs[1] = fs[1]
  BY <1>1, <1>3
<1>5. Entered(gs, p + 1)
  <2> SUFFICES ASSUME NEW k \in 1..(l + 1)
               PROVE  /\ Tokens[gs[k].at].op = gs[k].op /\ Depth(gs[k].at) = k - 1
                      /\ gs[k].at < p + 1
                      /\ \A j \in (gs[k].at + 1)..(p + 1) : Depth(j) >= k
    BY <1>3 DEF Entered
  <2>1. CASE k = l + 1
    <3>1. /\ gs[k] = fr /\ k - 1 = l /\ p < p + 1
          /\ \A j \in (p + 1)..(p + 1) : j = p + 1
      BY <1>1, <1>3, <2>1
    <3> QED BY <1>1, <1>2, <2>1, <3>1
  <2>2. CASE k \in 1..l
    <3>1. fs[k].at \in Nat
      BY <1>1, <2>2, FrameFacts, TokenFacts
    <3>2. /\ Tokens[fs[k].at].op = fs[k].op /\ Depth(fs[k].at) = k - 1
          /\ fs[k].at < p
          /\ \A j \in (fs[k].at + 1)..p : Depth(j) >= k
      BY <1>1, <2>2 DEF Entered
    <3>3. ASSUME NEW j \in (fs[k].at + 1)..(p + 1) PROVE Depth(j) >= k
      <4>1. CASE j = p + 1
        BY <1>1, <1>2, <2>2, <4>1
      <4>2. CASE j \in (fs[k].at + 1)..p
        BY <3>2, <4>2
      <4> QED BY <1>1, <3>1, <4>1, <4>2
    <3>4. gs[k] = fs[k]
      BY <1>3, <2>2
    <3> QED BY <1>1, <3>1, <3>2, <3>3, <3>4
  <2> QED BY <1>1, <2>1, <2>2
<1>6. Leaves(gs)
  BY <1>1, <1>4 DEF Leaves
<1>7. ElseSeen(gs, p + 1)
  <2> SUFFICES ASSUME NEW k \in 1..(l + 1), gs[k].op = "if", gs[k].other = 0
               PROVE  \E r \in (gs[k].at + 1)..((p + 1) - 1) : Tokens[r].op = "else" /\ Depth(r) = k
    BY <1>3 DEF ElseSeen
  <2>1. k \in 1..l /\ gs[k] = fs[k]
    BY <1>1, <1>3
  <2>2. ElseSeen(fs, p + 1)
    BY <1>1, ElseStaysSeen
  <2> QED BY <2>1, <2>2 DEF ElseSeen
<1>8. Inside(gs, p + 1)
  BY <1>1, <1>2, <1>3, <1>5, <1>6 DEF Inside
<1> QED BY <1>7, <1>8 DEF gs

LEMMA InsideEnter ==
    ASSUME UnitOK, NEW f \in Positions, Tokens[f].op = "function", Depth(f) = 0,
           NEW fr \in Frame, fr.op = "function", fr.at = f,
           fr.back \in 1..(Len(Tokens) + 1), Depth(fr.back) = 0
    PROVE  Inside(<<fr>>, f + 1) /\ ElseSeen(<<fr>>, f + 1)
<1>1. f \in Nat \ {0} /\ f + 1 \in 1..(Len(Tokens) + 1)
  BY TokenFacts
<1>2. Depth(f + 1) = 1
  BY <1>1, NextDepth DEF Openers
<1>3. <<fr>> \in Seq(Frame) /\ Len(<<fr>>) = 1 /\ <<fr>>[1] = fr
  OBVIOUS
<1> DEFINE gs == <<fr>>
<1> HIDE DEF gs
<1>4. Entered(gs, f + 1)
  <2> SUFFICES ASSUME NEW k \in 1..Len(gs)
               PROVE  /\ Tokens[gs[k].at].op = gs[k].op /\ Depth(gs[k].at) = k - 1
                      /\ gs[k].at < f + 1
                      /\ \A j \in (gs[k].at + 1)..(f + 1) : Depth(j) >= k
    BY DEF Entered
  <2>1. k = 1 /\ gs[k] = fr
    BY <1>3 DEF gs
  <2>2. \A j \in (f + 1)..(f + 1) : j = f + 1
    BY <1>1
  <2> QED BY <1>1, <1>2, <2>1, <2>2
<1>5. Leaves(gs) /\ ElseSeen(gs, f + 1)
  BY <1>3 DEF Leaves, ElseSeen, gs
<1>6. Inside(gs, f + 1)
  BY <1>1, <1>2, <1>3, <1>4, <1>5 DEF Inside, gs
<1> QED BY <1>5, <1>6 DEF gs

(* At the end of an if or while statement.                                 *)
LEMMA InsidePop ==
    ASSUME UnitOK, NEW fs, NEW p \in Positions, Inside(fs, p), ElseSeen(fs, p),
           Tokens[p].op = "end", Len(fs) \in Nat, 2 <= Len(fs)
    PROVE  Inside(Front(fs), p + 1) /\ ElseSeen(Front(fs), p + 1)
<1> DEFINE gs == Front(fs)
           l == Len(fs)
<1>1. /\ p \in Nat \ {0} /\ p + 1 \in 1..(Len(Tokens) + 1) /\ l \in Nat /\ fs # <<>>
      /\ Depth(p) = l /\ fs \in Seq(Frame) /\ Entered(fs, p) /\ Leaves(fs)
  BY TokenFacts DEF Inside
<1>2. Depth(p + 1) = l - 1
  BY <1>1, NextDepth DEF Openers
<1>3. /\ gs \in Seq(Frame) /\ Len(gs) = l - 1 /\ \A k \in 1..(l - 1) : gs[k] = fs[k]
  BY <1>1, FrontFacts
<1> HIDE DEF gs
<1>4. Entered(gs, p + 1)
  <2> SUFFICES ASSUME NEW k \in 1..(l - 1)
               PROVE  /\ Tokens[gs[k].at].op = gs[k].op /\ Depth(gs[k].at) = k - 1
                      /\ gs[k].at < p + 1
                      /\ \A j \in (gs[k].at + 1)..(p + 1) : Depth(j) >= k
    BY <1>3 DEF Entered
  <2>1. gs[k] = fs[k] /\ k \in 1..l
    BY <1>1, <1>3
  <2>2. fs[k].at \in Nat
    BY <1>1, <2>1, FrameFacts, TokenFacts
  <2>3. /\ Tokens[fs[k].at].op = fs[k].op /\ Depth(fs[k].at) = k - 1
        /\ fs[k].at < p
        /\ \A j \in (fs[k].at + 1)..p : Depth(j) >= k
    BY <1>1, <2>1 DEF Entered
  <2>4. ASSUME NEW j \in (fs[k].at + 1)..(p + 1) PROVE Depth(j) >= k
    <3>1. CASE j = p + 1
      BY <1>1, <1>2, <3>1
    <3>2. CASE j \in (fs[k].at + 1)..p
      BY <2>3, <3>2
    <3> QED BY <1>1, <2>2, <3>1, <3>2
  <2> QED BY <1>1, <2>1, <2>2, <2>3, <2>4
<1>5. gs[1] = fs[1]
  BY <1>1, <1>3
<1>6. Leaves(gs)
  BY <1>1, <1>5 DEF Leaves
<1>7. ElseSeen(gs, p + 1)
  <2> SUFFICES ASSUME NEW k \in 1..(l - 1), gs[k].op = "if", gs[k].other = 0
               PROVE  \E r \in (gs[k].at + 1)..((p + 1) - 1) : Tokens[r].op = "else" /\ Depth(r) = k
    BY <1>3 DEF ElseSeen
  <2>1. k \in 1..l /\ gs[k] = fs[k]
    BY <1>1, <1>3
  <2>2. ElseSeen(fs, p + 1)
    BY <1>1, ElseStaysSeen
  <2> QED BY <2>1, <2>2 DEF ElseSeen
<1>8. Inside(gs, p + 1)
  BY <1>1, <1>2, <1>3, <1>4, <1>6 DEF Inside
<1> QED BY <1>7, <1>8 DEF gs

-----------------------------------------------------------------------------
(* The function pool.                                                      *)
LEMMA LeastOf ==
    ASSUME NEW S \in SUBSET Nat, S # {}
    PROVE  Min(S) \in S
<1>1. \E x \in S : \A y \in S : x <= y
  BY HasLeast
<1> QED BY <1>1 DEF Min

LEMMA FirstIs ==
    ASSUME UnitOK, NEW k \in Keys, ImportedAs(k) \cup DeclaredHere(k) # {}
    PROVE  First(k) \in Signature
<1>1. CASE ImportedAs(k) # {}
  <2>1. unit.imported \in Seq(Signature)
    BY DEF UnitOK, Unit
  <2>2. ImportedAs(k) \in SUBSET Nat
    BY <2>1 DEF ImportedAs
  <2>3. Min(ImportedAs(k)) \in ImportedAs(k)
    BY <1>1, <2>2, LeastOf
  <2>4. Min(ImportedAs(k)) \in DOMAIN unit.imported
    BY <2>3 DEF ImportedAs
  <2>5. unit.imported[Min(ImportedAs(k))] \in Signature
    BY <2>1, <2>4
  <2> QED BY <1>1, <2>5 DEF First
<1>2. CASE ImportedAs(k) = {}
  <2>1. DeclaredHere(k) \in SUBSET Nat /\ DeclaredHere(k) # {}
    BY <1>2, TokenFacts DEF DeclaredHere, TopLevelFunctions
  <2>2. Min(DeclaredHere(k)) \in DeclaredHere(k)
    BY <2>1, LeastOf
  <2>3. /\ Min(DeclaredHere(k)) \in Positions
        /\ Tokens[Min(DeclaredHere(k))].op \in {"function", "forward"}
    BY <2>2 DEF DeclaredHere, TopLevelFunctions
  <2>4. Tokens[Min(DeclaredHere(k))].sig \in Signature
    BY <2>3, ParameterFacts
  <2> QED BY <1>2, <2>4 DEF First
<1> QED BY <1>1, <1>2

LEMMA BodyIs ==
    ASSUME UnitOK, NEW k \in Keys, NEW g \in DefinedHere(k)
    PROVE  Max(DefinedHere(k)) = g
<1>1. ASSUME NEW h \in DefinedHere(k)
      PROVE  h \in DOMAIN Tokens /\ Tokens[h].op = "function" /\ DepthIn(Tokens, h) = 0
               /\ Tokens[h].sig.key = k /\ h \in Nat
  BY <1>1, TokenFacts DEF DefinedHere, DeclaredHere, TopLevelFunctions, Definitions, Depth, Positions
<1>2. DefinedOnce(Tokens)
  BY ShapeFacts
<1>3. DefinedHere(k) = {g}
  BY <1>1, <1>2 DEF DefinedOnce
<1>4. g \in Nat
  BY <1>1
<1> QED BY <1>3, <1>4 DEF Max

(* A function of the file has an entry, its definition is the body.        *)
LEMMA PoolFacts ==
    ASSUME UnitOK, NEW i \in Positions, Tokens[i].op \in {"function", "forward"}, Depth(i) = 0
    PROVE  LET e == DeclaredPool[Tokens[i].sig.key]
           IN  /\ Tokens[i].sig.key \in Keys
               /\ e \in PoolEntry /\ e # None
               /\ Tokens[i].op = "function" => e.body = i
               /\ e.body # 0 => /\ e.body \in Definitions /\ Depth(e.body) = 0
                                /\ Tokens[e.body].sig.key = Tokens[i].sig.key
<1> DEFINE k == Tokens[i].sig.key
           e == DeclaredPool[k]
<1>1. k \in Keys
  BY ParameterFacts DEF Signature
<1>2. i \in DeclaredHere(k)
  BY DEF DeclaredHere, TopLevelFunctions
<1>3. e = [params |-> First(k).params, void |-> First(k).void,
           body |-> IF DefinedHere(k) = {} THEN 0 ELSE Max(DefinedHere(k))]
  BY <1>1, <1>2 DEF DeclaredPool
<1>4. First(k) \in Signature
  BY <1>1, <1>2, FirstIs
<1>5. First(k).params \in Seq(Names) /\ First(k).void \in BOOLEAN
  BY <1>4 DEF Signature
<1>6. ASSUME DefinedHere(k) # {}
      PROVE  /\ e.body \in DefinedHere(k)
             /\ i \in DefinedHere(k) => e.body = i
  <2>1. PICK g \in DefinedHere(k) : TRUE
    BY <1>6
  <2>2. e.body = Max(DefinedHere(k))
    BY <1>3, <1>6
  <2> QED BY <1>1, <2>1, <2>2, BodyIs
<1>7. DefinedHere(k) = {} => e.body = 0
  BY <1>3
<1>8. Tokens[i].op = "function" => i \in DefinedHere(k)
  BY <1>2 DEF DefinedHere, Definitions
<1>9. \A g \in DefinedHere(k) : /\ g \in Definitions /\ g \in Nat /\ Depth(g) = 0
                                /\ Tokens[g].sig.key = k
  BY TokenFacts DEF DefinedHere, DeclaredHere, Definitions, TopLevelFunctions
<1>10. e.body \in Nat
  BY <1>6, <1>7, <1>9
<1>11. e \in PoolEntry
  BY <1>3, <1>5, <1>10 DEF PoolEntry
<1>12. e # None
  BY <1>11, NoEntryAssumption
<1> QED BY <1>1, <1>6, <1>7, <1>8, <1>9, <1>11, <1>12

(* A declaration met by the code generator adds nothing to the pool.       *)
LEMMA KnownIsPool ==
    ASSUME UnitOK, NoNesting, pool = DeclaredPool, gpos \in Positions,
           Tokens[gpos].op \in {"function", "forward"}
    PROVE  Known = pool /\ ~Redefines(pool, gpos)
<1> DEFINE k == Key
           e == DeclaredPool[k]
<1>1. Depth(gpos) = 0
  BY DEF NoNesting
<1>2. /\ k \in Keys /\ e \in PoolEntry /\ e # None
      /\ Tokens[gpos].op = "function" => e.body = gpos
  BY <1>1, PoolFacts DEF Key
<1>3. DeclaredPool = [j \in Keys |-> DeclaredPool[j]]
  BY DEF DeclaredPool
<1>4. ~Redefines(pool, gpos)
  <2>1. gpos # 0 /\ BodyAt(gpos) \in {0, gpos}
    BY TokenFacts DEF BodyAt
  <2>2. BodyAt(gpos) # 0 => Tokens[gpos].op = "function"
    BY DEF BodyAt
  <2> QED BY <1>2, <2>1, <2>2 DEF Redefines, Key
<1>5. CASE Tokens[gpos].op = "forward"
  BY <1>2, <1>4, <1>5 DEF Known, Pooled, BodyAt, Key
<1>6. CASE Tokens[gpos].op = "function"
  <2>1. gpos # 0 /\ BodyAt(gpos) = gpos
    BY <1>6, TokenFacts DEF BodyAt
  <2>2. Known = [DeclaredPool EXCEPT ![k].body = gpos]
    BY <1>2, <2>1 DEF Known, Pooled, Key
  <2>3. [DeclaredPool EXCEPT ![k].body = gpos] = [DeclaredPool EXCEPT ![k] = [e EXCEPT !.body = gpos]]
    OBVIOUS
  <2>4. [e EXCEPT !.body = gpos] = e
    BY <1>2, <1>6 DEF PoolEntry
  <2>5. \A f : f = [j \in Keys |-> f[j]] => [f EXCEPT ![k] = f[k]] = f
    BY <1>2
  <2>6. [DeclaredPool EXCEPT ![k] = e] = DeclaredPool
    BY <1>3, <2>5
  <2> QED BY <1>4, <2>2, <2>3, <2>4, <2>6
<1> QED BY <1>5, <1>6

-----------------------------------------------------------------------------
(* The blocks: what the builder appends leaves each block to its function. *)
Grown(bs, cs) == /\ cs \in Seq(Block)
                 /\ Len(bs) <= Len(cs)
                 /\ \A b \in 1..Len(bs) : cs[b].fn = bs[b].fn

LEMMA GrownLength ==
    ASSUME NEW bs \in Seq(Block), NEW cs, Grown(bs, cs), NEW b \in 1..Len(bs)
    PROVE  b \in 1..Len(cs)
<1>1. Len(bs) \in Nat /\ Len(cs) \in Nat /\ Len(bs) <= Len(cs)
  BY DEF Grown
<1> QED BY <1>1

LEMMA GrownAgain ==
    ASSUME NEW ds \in Seq(Block), NEW bs, NEW cs, Grown(ds, bs), Grown(bs, cs)
    PROVE  Grown(ds, cs)
<1>1. /\ bs \in Seq(Block) /\ Len(ds) <= Len(bs)
      /\ \A b \in 1..Len(ds) : bs[b].fn = ds[b].fn
  BY DEF Grown
<1>2. /\ cs \in Seq(Block) /\ Len(bs) <= Len(cs)
      /\ \A b \in 1..Len(bs) : cs[b].fn = bs[b].fn
  BY DEF Grown
<1> HIDE DEF Block
<1>3. Len(ds) \in Nat /\ Len(bs) \in Nat /\ Len(cs) \in Nat
  BY <1>1, <1>2
<1> QED BY <1>1, <1>2, <1>3 DEF Grown

LEMMA GrownHolds ==
    ASSUME NEW bs \in Seq(Block), NEW cs, Grown(bs, cs), NEW k, NEW b, Holds(bs, k, b)
    PROVE  Holds(cs, k, b)
BY DEF Grown, Holds

(* One block is changed but stays in its function.                         *)
LEMMA BlockChanged ==
    ASSUME NEW bs \in Seq(Block), NEW b \in 1..Len(bs), NEW x \in Block, x.fn = bs[b].fn
    PROVE  Grown(bs, [bs EXCEPT ![b] = x])
<1>1. [bs EXCEPT ![b] = x] \in Seq(Block) /\ Len([bs EXCEPT ![b] = x]) = Len(bs)
  BY ReplaceIn
<1>2. \A c \in 1..Len(bs) : [bs EXCEPT ![b] = x][c] = IF c = b THEN x ELSE bs[c]
  OBVIOUS
<1> QED BY <1>1, <1>2 DEF Grown

LEMMA EmitGrows ==
    ASSUME NEW bs \in Seq(Block), NEW b \in 1..Len(bs), NEW i \in Positions
    PROVE  Grown(bs, Emit(bs, b, i))
<1> DEFINE y == bs[b]
           x == IF y.state = "open" THEN [y EXCEPT !.code = Append(bs[b].code, i)]
                ELSE [y EXCEPT !.state = "broken"]
<1>1. y \in Block /\ y.code \in Seq(Positions)
  <2>1. y \in Block
    OBVIOUS
  <2> QED BY <2>1 DEF Block
<1>2. Append(bs[b].code, i) \in Seq(Positions)
  BY <1>1, AppendFacts
<1>3. x \in Block /\ x.fn = bs[b].fn
  BY <1>1, <1>2 DEF Block
<1>4. Emit(bs, b, i) = [bs EXCEPT ![b] = x]
  BY DEF Emit
<1> HIDE DEF x
<1> QED BY <1>3, <1>4, BlockChanged

LEMMA TerminateGrows ==
    ASSUME NEW bs \in Seq(Block), NEW b \in 1..Len(bs), NEW targets \in Seq(Nat)
    PROVE  Grown(bs, Terminate(bs, b, targets))
<1> DEFINE y == bs[b]
           x == IF y.state = "open" THEN [y EXCEPT !.next = targets, !.state = "closed"]
                ELSE [y EXCEPT !.state = "broken"]
<1>1. y \in Block
  OBVIOUS
<1>2. x \in Block /\ x.fn = bs[b].fn
  BY <1>1 DEF Block
<1>3. Terminate(bs, b, targets) = [bs EXCEPT ![b] = x]
  BY DEF Terminate
<1> HIDE DEF x
<1> QED BY <1>2, <1>3, BlockChanged

LEMMA ReturnGrows ==
    ASSUME blocks \in Seq(Block), at \in 1..Len(blocks), gpos \in Positions, NEW void
    PROVE  Grown(blocks, Return(blocks, void))
<1> DEFINE ret == Terminate(Emit(blocks, at, gpos), at, <<>>)
           x == [ret[at] EXCEPT !.state = "broken"]
<1>1. Grown(blocks, Emit(blocks, at, gpos))
  BY EmitGrows
<1>2. Grown(Emit(blocks, at, gpos), ret)
  <2>1. <<>> \in Seq(Nat)
    OBVIOUS
  <2>2. Emit(blocks, at, gpos) \in Seq(Block) /\ at \in 1..Len(Emit(blocks, at, gpos))
    BY <1>1, GrownLength DEF Grown
  <2> QED BY <2>1, <2>2, TerminateGrows
<1>3. Grown(blocks, ret)
  BY <1>1, <1>2, GrownAgain
<1>4. Return(blocks, void) = IF pool[Owner].void = void THEN ret
                             ELSE [ret EXCEPT ![at] = x]
  BY DEF Return
<1> HIDE DEF ret
<1>5. ret \in Seq(Block) /\ at \in 1..Len(ret) /\ ret[at] \in Block
  BY <1>3 DEF Grown
<1>6. x \in Block /\ x.fn = ret[at].fn
  BY <1>5 DEF Block
<1> HIDE DEF x
<1>7. Grown(ret, [ret EXCEPT ![at] = x])
  BY <1>5, <1>6, BlockChanged
<1> QED BY <1>3, <1>4, <1>7, GrownAgain

(* New blocks belong to the function at the insertion point.               *)
LEMMA Joined ==
    ASSUME NEW S, NEW s \in Seq(S), NEW t \in Seq(S)
    PROVE  /\ s \o t \in Seq(S) /\ Len(s \o t) = Len(s) + Len(t)
           /\ \A i \in 1..Len(s) : (s \o t)[i] = s[i]
           /\ \A i \in (Len(s) + 1)..(Len(s) + Len(t)) : (s \o t)[i] = t[i - Len(s)]
OBVIOUS

LEMMA FreshGrows ==
    ASSUME NEW bs \in Seq(Block), NEW x \in 1..Len(bs), NEW n \in Nat
    PROVE  /\ Grown(bs, Fresh(bs, x, n))
           /\ \A k : Holds(bs, k, x) =>
                \A b \in (Len(bs) + 1)..(Len(bs) + n) : Holds(Fresh(bs, x, n), k, b)
<1> DEFINE y == NewBlock(bs[x].fn)
           new == [k \in 1..n |-> y]
           cs == Fresh(bs, x, n)
<1>1. y \in Block /\ y.fn = bs[x].fn
  <2>1. bs[x] \in Block
    OBVIOUS
  <2> QED BY <2>1 DEF NewBlock, Block
<1> HIDE DEF y
<1>2. new \in Seq(Block) /\ Len(new) = n /\ \A k \in 1..n : new[k] = y
  BY <1>1
<1>3. cs = bs \o new
  BY DEF Fresh, y
<1> HIDE DEF new, cs
<1>4. /\ cs \in Seq(Block) /\ Len(cs) = Len(bs) + n
      /\ \A b \in 1..Len(bs) : cs[b] = bs[b]
      /\ \A b \in (Len(bs) + 1)..(Len(bs) + n) : cs[b] = new[b - Len(bs)]
  BY <1>2, <1>3, Joined
<1>5. \A b \in (Len(bs) + 1)..(Len(bs) + n) : cs[b] = y /\ b \in 1..Len(cs)
  BY <1>2, <1>4
<1>6. Grown(bs, cs)
  BY <1>4 DEF Grown
<1> QED BY <1>1, <1>5, <1>6 DEF cs, Holds

LEMMA OwnedGrows ==
    ASSUME NEW fs \in Seq(Frame), NEW bs \in Seq(Block), NEW a, Owned(fs, bs, a),
           NEW cs, Grown(bs, cs)
    PROVE  Owned(fs, cs, a)
<1>1. \A k, b : Holds(bs, k, b) => Holds(cs, k, b)
  BY GrownHolds
<1> QED BY <1>1 DEF Owned, Grown

-----------------------------------------------------------------------------
(* The symbol table, one token after the other.                            *)
LEMMA TableKept ==
    ASSUME UnitOK, NEW fs, NEW tab, NEW p \in Positions, TableMatches(fs, tab, p),
           Tokens[p].op \notin {"declare", "function"},
           fs # <<>>, fs[1].at \in Positions,
           NEW gs, gs[1].at = fs[1].at
    PROVE  TableMatches(gs, tab, p + 1)
<1> DEFINE f == fs[1].at
           k == Home(fs)
<1>1. Home(gs) = k
  BY DEF Home
<1>2. Current(f, k, tab, p)
  BY DEF TableMatches
<1>3. p \in Nat \ {0} /\ f \in Nat \ {0} /\ (p + 1) - 1 = p
  BY TokenFacts
<1> HIDE DEF f, k
<1>4. Current(f, k, tab, p + 1)
  <2> SUFFICES ASSUME NEW n \in Names, NEW q \in f..p, NEW j \in Nat,
                      VarOf(q, j, n), Latest(q, n, p + 1)
               PROVE  tab[n] = [var |-> <<q, j>>, fn |-> k]
    BY <1>3 DEF Current
  <2>1. q # p
    BY DEF VarOf
  <2>2. q \in f..(p - 1)
    BY <1>3, <2>1
  <2>3. Latest(q, n, p)
    BY <1>3, <2>2 DEF Latest
  <2> QED BY <1>2, <2>2, <2>3 DEF Current
<1> QED BY <1>1, <1>4 DEF TableMatches, f

LEMMA TableDeclare ==
    ASSUME UnitOK, NEW fs, NEW tab, NEW p \in Positions, TableMatches(fs, tab, p),
           Tokens[p].op = "declare", fs # <<>>, fs[1].at \in Positions, Home(fs) \in Keys
    PROVE  TableMatches(fs, [tab EXCEPT ![Tokens[p].name] = [var |-> <<p, 0>>, fn |-> Home(fs)]],
                        p + 1)
<1> DEFINE f == fs[1].at
           k == Home(fs)
           m == Tokens[p].name
           x == [var |-> <<p, 0>>, fn |-> k]
           new == [tab EXCEPT ![m] = x]
<1>1. Current(f, k, tab, p) /\ tab \in [Names -> Slot \cup {None}]
  BY DEF TableMatches
<1>2. p \in Nat \ {0} /\ f \in Nat \ {0} /\ (p + 1) - 1 = p /\ m \in Names
  BY TokenFacts DEF Proper
<1>3. x \in Slot
  BY <1>2 DEF Slot, Variable
<1>4. new \in [Names -> Slot \cup {None}] /\ new[m] = x /\ \A n \in Names \ {m} : new[n] = tab[n]
  <2> HIDE DEF x, m
  <2> QED BY <1>1, <1>2, <1>3
<1>5. Current(f, k, new, p + 1)
  <2> HIDE DEF new
  <2> SUFFICES ASSUME NEW n \in Names, NEW q \in f..p, NEW j \in Nat,
                      VarOf(q, j, n), Latest(q, n, p + 1)
               PROVE  new[n] = [var |-> <<q, j>>, fn |-> k]
    BY <1>2 DEF Current
  <2>1. CASE q = p
    BY <1>4, <2>1 DEF VarOf
  <2>2. CASE q # p
    <3>1. q \in f..(p - 1) /\ p \in (q + 1)..((p + 1) - 1)
      BY <1>2, <2>2
    <3>2. n # m
      BY <3>1 DEF Latest
    <3>3. Latest(q, n, p)
      BY <1>2, <3>1 DEF Latest
    <3> QED BY <1>1, <1>4, <3>1, <3>2, <3>3 DEF Current
  <2> QED BY <2>1, <2>2
<1> HIDE DEF new
<1>6. TableMatches(fs, new, p + 1)
  BY <1>4, <1>5 DEF TableMatches
<1> QED BY <1>6 DEF new

(* On entry to a function whose parameters the pool knows by their names.  *)
LEMMA TableEnter ==
    ASSUME UnitOK, NEW f \in Positions, Tokens[f].op = "function",
           IsInjective(Tokens[f].sig.params),
           table \in [Names -> Slot \cup {None}],
           NEW pl, pl[Tokens[f].sig.key].params = Tokens[f].sig.params,
           NEW fr, fr.at = f
    PROVE  TableMatches(<<fr>>, Entry(pl, Tokens[f].sig.key, f), f + 1)
<1> DEFINE k == Tokens[f].sig.key
           ps == Tokens[f].sig.params
           js(n) == {j \in DOMAIN ps : ps[j] = n}
           new == Entry(pl, k, f)
<1>1. k \in Keys /\ ps \in Seq(Names) /\ DOMAIN ps \subseteq Nat \ {0} /\ f \in Nat \ {0}
      /\ (f + 1) - 1 = f
  BY ParameterFacts, TokenFacts DEF Signature
<1>2. \A n \in Names : \A j \in js(n) : js(n) = {j} /\ Max(js(n)) = j /\ j \in Nat
  <2> SUFFICES ASSUME NEW n \in Names, NEW j \in js(n)
               PROVE  js(n) = {j} /\ Max(js(n)) = j /\ j \in Nat
    OBVIOUS
  <2>1. js(n) = {j} /\ j \in Nat
    BY <1>1 DEF IsInjective
  <2>2. Max({j}) = j
    BY <2>1 DEF Max
  <2> QED BY <2>1, <2>2
<1>3. new = [n \in Names |-> IF js(n) = {} THEN table[n] ELSE [var |-> <<f, Max(js(n))>>, fn |-> k]]
  BY DEF Entry
<1> HIDE DEF k, js, new
<1>4. new \in [Names -> Slot \cup {None}]
  <2> SUFFICES ASSUME NEW n \in Names
               PROVE  (IF js(n) = {} THEN table[n] ELSE [var |-> <<f, Max(js(n))>>, fn |-> k])
                        \in Slot \cup {None}
    BY <1>3
  <2>1. CASE js(n) = {}
    BY <2>1
  <2>2. CASE js(n) # {}
    <3>1. Max(js(n)) \in Nat
      BY <1>2, <2>2
    <3> QED BY <1>1, <2>2, <3>1 DEF Slot, Variable
  <2> QED BY <2>1, <2>2
<1>5. Current(f, k, new, f + 1)
  <2> SUFFICES ASSUME NEW n \in Names, NEW q \in f..f, NEW j \in Nat, VarOf(q, j, n)
               PROVE  new[n] = [var |-> <<q, j>>, fn |-> k]
    BY <1>1 DEF Current
  <2>1. q = f
    BY <1>1
  <2>2. j \in js(n)
    BY <2>1 DEF VarOf, js
  <2>3. js(n) # {} /\ Max(js(n)) = j
    BY <1>2, <2>2
  <2> QED BY <1>3, <2>1, <2>3
<1>6. Home(<<fr>>) = k
  BY DEF Home, k
<1>7. TableMatches(<<fr>>, new, f + 1)
  BY <1>4, <1>5, <1>6 DEF TableMatches
<1> QED BY <1>7 DEF new, k

(* What a mention of a name loads: an entry of this function, that of the  *)
(* variable the type checker has bound it to unless the name was declared  *)
(* again in between.                                                       *)
LEMMA Loaded ==
    ASSUME UnitOK, NoNesting, NEW bs, NEW c \in Nat, Bindings(bs, c), Len(Tokens) < c,
           NEW fs, NEW tab, NEW p \in Positions, Inside(fs, p), TableMatches(fs, tab, p),
           NEW n \in Tokens[p].uses
    PROVE  /\ tab[n] # None
           /\ LoadAgrees(bs, [at |-> p, name |-> n, slot |-> tab[n], by |-> Home(fs)])
<1> DEFINE f == fs[1].at
           k == Home(fs)
<1>1. p \in Nat \ {0} /\ p \in 1..(Len(Tokens) + 1) /\ p \in 1..(c - 1) /\ n \in Names
      /\ Tokens[p].op \notin {"function", "forward", "other"}
  BY TokenFacts DEF Token, Proper
<1>2. f \in Definitions /\ f \in Positions /\ f \in Nat /\ Depth(f) = 0 /\ f < p /\ fs # <<>>
  BY <1>1, InFunction, TokenFacts DEF Definitions
<1>3. k \in Keys
  BY <1>2, ParameterFacts DEF Home, Definitions, Signature
<1>4. PICK v : <<p, n, v>> \in bs
  BY <1>1 DEF Bindings, AllBound
<1>5. v \in InScope(n, p)
  <2>1. PICK i \in 1..(c - 1), m \in Names : \E w \in InScope(m, i) : <<p, n, v>> = <<i, m, w>>
    BY <1>4 DEF Bindings, BoundByText
  <2> QED BY <2>1
<1>6. PICK q \in 1..(p - 1), j \in Nat :
         v = <<q, j>> /\ VarOf(q, j, n) /\ Open(q, LevelOf(q), p)
  BY <1>1, <1>5, InScopeIs
<1>7. q \in f..(p - 1) /\ q \in Positions /\ q \in Nat
  BY <1>1, <1>2, <1>6, OwnVariables, TokenFacts
<1> HIDE DEF f, k
<1> DEFINE again == {r \in (q + 1)..(p - 1) : Tokens[r].op = "declare" /\ Tokens[r].name = n}
<1>8. Current(f, k, tab, p)
  BY <1>2 DEF TableMatches, f, k
<1>9. Redeclared(p, n, v) <=> again # {}
  <2>1. v[1] = q
    BY <1>6
  <2>2. \A r : r \in (q + 1)..(p - 1) <=> r \in Positions /\ q < r /\ r < p
    BY <1>1, <1>7, TokenFacts
  <2> QED BY <2>1, <2>2 DEF Redeclared
<1>10. CASE again = {}
  <2>1. Latest(q, n, p)
    BY <1>10 DEF Latest
  <2>2. tab[n] = [var |-> v, fn |-> k]
    BY <1>1, <1>6, <1>7, <1>8, <2>1 DEF Current
  <2>3. v \in Variable /\ [var |-> v, fn |-> k] \in Slot
    BY <1>3, <1>6, <1>7 DEF Slot, Variable
  <2>4. tab[n] # None
    BY <2>2, <2>3, NoEntryAssumption
  <2> HIDE DEF again
  <2> QED BY <1>4, <1>9, <1>10, <2>2, <2>3, <2>4 DEF LoadAgrees, k
<1>11. CASE again # {}
  <2>1. again \in SUBSET (0..(p - 1)) /\ p - 1 \in Nat
    BY <1>1, <1>7
  <2>2. PICK r \in again : \A y \in again : y <= r
    <3> HIDE DEF again
    <3> QED BY <1>11, <2>1, HasGreatest
  <2>3. /\ r \in (q + 1)..(p - 1) /\ r \in f..(p - 1) /\ r \in Nat /\ q < r
        /\ Tokens[r].op = "declare" /\ Tokens[r].name = n
    BY <1>2, <1>7, <2>2 DEF f
  <2>4. Latest(r, n, p)
    <3> SUFFICES ASSUME NEW s \in (r + 1)..(p - 1), Tokens[s].op = "declare", Tokens[s].name = n
                 PROVE  FALSE
      BY DEF Latest
    <3>1. s \in again
      BY <1>1, <1>7, <2>3
    <3> HIDE DEF again
    <3> QED BY <2>2, <2>3, <3>1
  <2>5. VarOf(r, 0, n)
    BY <2>3 DEF VarOf
  <2>6. tab[n] = [var |-> <<r, 0>>, fn |-> k]
    BY <1>1, <1>8, <2>3, <2>4, <2>5 DEF Current
  <2>7. v \in Variable /\ [var |-> <<r, 0>>, fn |-> k] \in Slot /\ <<r, 0>> # v
    BY <1>3, <1>6, <1>7, <2>3 DEF Slot, Variable
  <2>8. tab[n] # None
    BY <2>6, <2>7, NoEntryAssumption
  <2> HIDE DEF again
  <2> QED BY <1>4, <1>9, <1>11, <2>6, <2>7, <2>8 DEF LoadAgrees, k
<1> QED BY <1>10, <1>11

-----------------------------------------------------------------------------
(* The blocks noted for the visits, when a visit begins, goes on or ends.  *)
LEMMA OwnedPush ==
    ASSUME NEW fs \in Seq(Frame), fs # <<>>, NEW bs, NEW a, Owned(fs, bs, a), NEW fr \in Frame,
           NEW b, Holds(bs, Home(fs), b), Holds(bs, Home(fs), fr.join),
           Holds(bs, Home(fs), fr.other)
    PROVE  Owned(Append(fs, fr), bs, b)
<1> DEFINE gs == Append(fs, fr)
           l == Len(fs)
<1>1. /\ l \in Nat \ {0} /\ Len(gs) = l + 1 /\ gs # <<>> /\ gs[l + 1] = fr
      /\ \A k \in 1..l : gs[k] = fs[k]
  BY AppendFacts
<1> HIDE DEF gs
<1>2. Home(gs) = Home(fs)
  BY <1>1 DEF Home
<1>3. \A k \in 2..(l + 1) : k = l + 1 \/ (k \in 2..l /\ gs[k] = fs[k])
  BY <1>1
<1>4. Owned(gs, bs, b)
  BY <1>1, <1>2, <1>3 DEF Owned
<1> QED BY <1>4 DEF gs

LEMMA OwnedOther ==
    ASSUME NEW fs \in Seq(Frame), fs # <<>>, NEW bs, NEW a, Owned(fs, bs, a),
           NEW gs \in Seq(Frame), Len(gs) = Len(fs),
           \A k \in 1..Len(fs) : /\ gs[k].at = fs[k].at /\ gs[k].join = fs[k].join
                                 /\ k # Len(fs) => gs[k] = fs[k],
           gs[Len(fs)].other = 0 \/ Holds(bs, Home(fs), gs[Len(fs)].other),
           NEW b, Holds(bs, Home(fs), b)
    PROVE  Owned(gs, bs, b)
<1>1. Len(fs) \in Nat \ {0} /\ gs # <<>>
  OBVIOUS
<1>2. Home(gs) = Home(fs)
  BY <1>1 DEF Home
<1>3. \A k \in 2..Len(fs) : k \in 1..Len(fs)
  BY <1>1
<1> QED BY <1>1, <1>2, <1>3 DEF Owned

LEMMA OwnedPop ==
    ASSUME NEW fs \in Seq(Frame), Len(fs) > 1, NEW bs, NEW a, Owned(fs, bs, a),
           NEW b, Holds(bs, Home(fs), b)
    PROVE  Owned(Front(fs), bs, b)
<1> DEFINE gs == Front(fs)
<1>1. /\ Len(gs) = Len(fs) - 1 /\ gs[1] = fs[1] /\ gs # <<>> /\ Len(fs) \in Nat
      /\ \A k \in 1..(Len(fs) - 1) : gs[k] = fs[k]
  BY FrontFacts
<1> HIDE DEF gs
<1>2. Home(gs) = Home(fs)
  BY <1>1 DEF Home
<1>3. \A k \in 2..Len(gs) : k \in 2..Len(fs) /\ gs[k] = fs[k]
  BY <1>1
<1>4. Owned(gs, bs, b)
  BY <1>1, <1>2, <1>3 DEF Owned
<1> QED BY <1>4 DEF gs

LEMMA ElseSeenOther ==
    ASSUME NEW fs, NEW p \in Nat, ElseSeen(fs, p), NEW gs, Len(gs) = Len(fs),
           \A k \in 1..Len(fs) : /\ gs[k].op = fs[k].op /\ gs[k].at = fs[k].at
                                 /\ k # Len(fs) => gs[k] = fs[k],
           \/ gs[Len(fs)].other # 0
           \/ /\ Tokens[p].op = "else" /\ Depth(p) = Len(fs)
              /\ fs[Len(fs)].at \in Nat /\ fs[Len(fs)].at < p
    PROVE  ElseSeen(gs, p + 1)
<1> SUFFICES ASSUME NEW k \in 1..Len(fs), gs[k].op = "if", gs[k].other = 0
             PROVE  \E r \in (gs[k].at + 1)..((p + 1) - 1) : Tokens[r].op = "else" /\ Depth(r) = k
  BY DEF ElseSeen
<1>1. (p + 1) - 1 = p
  OBVIOUS
<1>2. CASE k = Len(fs)
  <2>1. p \in (gs[k].at + 1)..p
    BY <1>2
  <2> QED BY <1>1, <1>2, <2>1
<1>3. CASE k # Len(fs)
  <2>1. ElseSeen(fs, p + 1)
    BY ElseStaysSeen
  <2> QED BY <1>3, <2>1 DEF ElseSeen
<1> QED BY <1>2, <1>3

(* Where the code generator stands after a step.                           *)
Stands(fs, p, bs, a) == Inside(fs, p) /\ ElseSeen(fs, p) /\ Owned(fs, bs, a)

LEMMA StandsFacts ==
    ASSUME UnitOK, NoNesting, Stands(frames, gpos, blocks, at), gpos \in Positions,
           Tokens[gpos].op \notin {"function", "forward", "other"}
    PROVE  /\ frames \in Seq(Frame) /\ Len(frames) \in Nat \ {0} /\ frames # <<>>
           /\ Depth(gpos) = Len(frames) /\ Len(frames) \in 1..Len(frames)
           /\ Here \in Frame /\ Here = frames[Len(frames)]
           /\ Here.op = "function" <=> Len(frames) = 1
           /\ Here.at \in Nat /\ Here.at < gpos
           /\ blocks \in Seq(Block) /\ Holds(blocks, Home(frames), at)
           /\ at \in 1..Len(blocks) /\ gpos \in Nat /\ Len(blocks) \in Nat
<1>1. /\ Len(frames) \in Nat \ {0} /\ frames # <<>> /\ Depth(gpos) = Len(frames)
      /\ frames[1].op = "function" /\ \A k \in 2..Len(frames) : frames[k].op # "function"
  BY InFunction DEF Stands
<1>2. frames \in Seq(Frame) /\ Entered(frames, gpos)
  BY DEF Stands, Inside
<1>3. Len(frames) \in 1..Len(frames) /\ Here = frames[Len(frames)]
  BY <1>1 DEF Here
<1>4. Here \in Frame /\ Here.at \in Positions
  BY <1>2, <1>3, FrameFacts
<1>5. Here.at \in Nat /\ Here.at < gpos /\ gpos \in Nat
  BY <1>2, <1>3, <1>4, TokenFacts DEF Entered
<1>6. Here.op = "function" <=> Len(frames) = 1
  BY <1>1, <1>3
<1>7. blocks \in Seq(Block) /\ Holds(blocks, Home(frames), at)
  BY <1>1 DEF Stands, Owned
<1>8. at \in 1..Len(blocks) /\ Len(blocks) \in Nat
  BY <1>7 DEF Holds
<1> QED BY <1>1, <1>2, <1>3, <1>4, <1>5, <1>6, <1>7, <1>8

LEMMA StandsSimple ==
    ASSUME UnitOK, NoNesting, Stands(frames, gpos, blocks, at), gpos \in Positions,
           GenDeclare \/ GenEvaluate \/ GenReturn
    PROVE  Stands(frames, gpos + 1, blocks', at)
<1>1. Tokens[gpos].op \in {"declare", "evaluate"} \cup Returns
  BY DEF GenDeclare, GenEvaluate, GenReturn, Emitting
<1>2. Tokens[gpos].op \notin Openers \cup {"end", "function", "forward", "other"}
  BY <1>1 DEF Openers, Returns
<1>3. /\ frames \in Seq(Frame) /\ blocks \in Seq(Block) /\ at \in 1..Len(blocks)
      /\ gpos \in Nat
  BY <1>2, StandsFacts
<1>4. Grown(blocks, blocks')
  <2>1. CASE GenDeclare \/ GenEvaluate
    BY <1>3, <2>1, EmitGrows DEF GenDeclare, GenEvaluate
  <2>2. CASE GenReturn
    BY <1>3, <2>2, ReturnGrows DEF GenReturn
  <2> QED BY <2>1, <2>2
<1>5. Inside(frames, gpos + 1) /\ ElseSeen(frames, gpos + 1)
  BY <1>2, <1>3, InsidePlain, ElseStaysSeen DEF Stands
<1>6. Owned(frames, blocks', at)
  BY <1>3, <1>4, OwnedGrows DEF Stands
<1> QED BY <1>5, <1>6 DEF Stands

LEMMA StandsIf ==
    ASSUME UnitOK, NoNesting, Stands(frames, gpos, blocks, at), gpos \in Positions, GenIf
    PROVE  Stands(frames', gpos', blocks', at')
<1> DEFINE n == Len(blocks)
           h == Home(frames)
           fr == [op |-> "if", at |-> gpos, back |-> 0, join |-> n + 1, other |-> n + 3]
           fresh == Fresh(blocks, at, 3)
           emitted == Emit(fresh, at, gpos)
<1>1. /\ Tokens[gpos].op = "if" /\ gpos' = gpos + 1
      /\ blocks' = Terminate(emitted, at, <<n + 2, n + 3>>)
      /\ frames' = Append(frames, fr) /\ at' = n + 2
  BY DEF GenIf, Emitting, Advance
<1>2. /\ frames \in Seq(Frame) /\ frames # <<>> /\ blocks \in Seq(Block) /\ Holds(blocks, h, at)
      /\ at \in 1..n /\ n \in Nat
  BY <1>1, StandsFacts
<1>3. /\ Grown(blocks, fresh)
      /\ Holds(fresh, h, n + 1) /\ Holds(fresh, h, n + 2) /\ Holds(fresh, h, n + 3)
  <2>1. n + 1 \in (n + 1)..(n + 3) /\ n + 2 \in (n + 1)..(n + 3) /\ n + 3 \in (n + 1)..(n + 3)
    BY <1>2
  <2> QED BY <1>2, <2>1, FreshGrows
<1> HIDE DEF fresh
<1>4. fresh \in Seq(Block) /\ at \in 1..Len(fresh)
  BY <1>2, <1>3, GrownLength DEF Grown
<1>5. Grown(fresh, emitted)
  BY <1>4, EmitGrows
<1> HIDE DEF emitted
<1>6. emitted \in Seq(Block) /\ at \in 1..Len(emitted) /\ <<n + 2, n + 3>> \in Seq(Nat)
  BY <1>2, <1>4, <1>5, GrownLength DEF Grown
<1>7. Grown(emitted, blocks')
  BY <1>1, <1>6, TerminateGrows
<1>8. Grown(fresh, blocks')
  BY <1>4, <1>5, <1>7, GrownAgain
<1>9. Grown(blocks, blocks')
  BY <1>2, <1>3, <1>8, GrownAgain
<1>10. Holds(blocks', h, n + 1) /\ Holds(blocks', h, n + 2) /\ Holds(blocks', h, n + 3)
  BY <1>3, <1>4, <1>8, GrownHolds
<1>11. fr \in Frame /\ fr.op = "if" /\ fr.at = gpos /\ fr.other = n + 3 /\ fr.join = n + 1
       /\ fr.other # 0
  BY <1>2 DEF Frame, Openers
<1> HIDE DEF fr
<1>12. Inside(frames', gpos') /\ ElseSeen(frames', gpos')
  BY <1>1, <1>11, InsidePush DEF Stands
<1>13. Owned(frames, blocks', at)
  BY <1>2, <1>9, OwnedGrows DEF Stands
<1>14. Owned(frames', blocks', at')
  BY <1>1, <1>2, <1>10, <1>11, <1>13, OwnedPush DEF h
<1> QED BY <1>12, <1>14 DEF Stands

LEMMA StandsWhile ==
    ASSUME UnitOK, NoNesting, Stands(frames, gpos, blocks, at), gpos \in Positions, GenWhile
    PROVE  Stands(frames', gpos', blocks', at')
<1> DEFINE n == Len(blocks)
           h == Home(frames)
           fr == [op |-> "while", at |-> gpos, back |-> 0, join |-> n + 3, other |-> n + 1]
           fresh == Fresh(blocks, at, 3)
           entered == Terminate(fresh, at, <<n + 1>>)
           emitted == Emit(entered, n + 1, gpos)
<1>1. /\ Tokens[gpos].op = "while" /\ gpos' = gpos + 1
      /\ blocks' = Terminate(emitted, n + 1, <<n + 2, n + 3>>)
      /\ frames' = Append(frames, fr) /\ at' = n + 2
  BY DEF GenWhile, Emitting, Advance
<1>2. /\ frames \in Seq(Frame) /\ frames # <<>> /\ blocks \in Seq(Block) /\ Holds(blocks, h, at)
      /\ at \in 1..n /\ n \in Nat
  BY <1>1, StandsFacts
<1>3. /\ Grown(blocks, fresh)
      /\ Holds(fresh, h, n + 1) /\ Holds(fresh, h, n + 2) /\ Holds(fresh, h, n + 3)
  <2>1. n + 1 \in (n + 1)..(n + 3) /\ n + 2 \in (n + 1)..(n + 3) /\ n + 3 \in (n + 1)..(n + 3)
    BY <1>2
  <2> QED BY <1>2, <2>1, FreshGrows
<1> HIDE DEF fresh
<1>4. fresh \in Seq(Block) /\ at \in 1..Len(fresh) /\ <<n + 1>> \in Seq(Nat)
      /\ n + 1 \in 1..Len(fresh)
  BY <1>2, <1>3, GrownLength DEF Grown, Holds
<1>5. Grown(fresh, entered)
  BY <1>4, TerminateGrows
<1> HIDE DEF entered
<1>6. entered \in Seq(Block) /\ n + 1 \in 1..Len(entered)
  BY <1>4, <1>5, GrownLength DEF Grown
<1>7. Grown(entered, emitted)
  BY <1>6, EmitGrows
<1> HIDE DEF emitted
<1>8. emitted \in Seq(Block) /\ n + 1 \in 1..Len(emitted) /\ <<n + 2, n + 3>> \in Seq(Nat)
  BY <1>2, <1>6, <1>7, GrownLength DEF Grown
<1>9. Grown(emitted, blocks')
  BY <1>1, <1>8, TerminateGrows
<1>10. Grown(entered, blocks')
  BY <1>6, <1>7, <1>9, GrownAgain
<1>11. Grown(fresh, blocks')
  BY <1>4, <1>5, <1>10, GrownAgain
<1>12. Grown(blocks, blocks')
  BY <1>2, <1>3, <1>11, GrownAgain
<1>13. Holds(blocks', h, n + 1) /\ Holds(blocks', h, n + 2) /\ Holds(blocks', h, n + 3)
  BY <1>3, <1>4, <1>11, GrownHolds
<1>14. fr \in Frame /\ fr.op = "while" /\ fr.at = gpos /\ fr.other = n + 1 /\ fr.join = n + 3
       /\ fr.other # 0
  BY <1>2 DEF Frame, Openers
<1> HIDE DEF fr
<1>15. Inside(frames', gpos') /\ ElseSeen(frames', gpos')
  BY <1>1, <1>14, InsidePush DEF Stands
<1>16. Owned(frames, blocks', at)
  BY <1>2, <1>12, OwnedGrows DEF Stands
<1>17. Owned(frames', blocks', at')
  BY <1>1, <1>2, <1>13, <1>14, <1>16, OwnedPush DEF h
<1> QED BY <1>15, <1>17 DEF Stands

LEMMA StandsElseIf ==
    ASSUME UnitOK, NoNesting, Stands(frames, gpos, blocks, at), gpos \in Positions, GenElseIf
    PROVE  Stands(frames', gpos', blocks', at')
<1> DEFINE n == Len(blocks)
           l == Len(frames)
           h == Home(frames)
           o == Here.other
           fresh == Fresh(blocks, Here.join, 2)
           left == Terminate(fresh, at, <<Here.join>>)
           emitted == Emit(left, o, gpos)
           gs == [frames EXCEPT ![Len(frames)].other = n + 2]
<1>1. /\ Tokens[gpos].op = "elseif" /\ gpos' = gpos + 1
      /\ blocks' = Terminate(emitted, o, <<n + 1, n + 2>>)
      /\ frames' = gs /\ at' = n + 1
  BY DEF GenElseIf, Emitting, Advance
<1>2. /\ frames \in Seq(Frame) /\ frames # <<>> /\ blocks \in Seq(Block) /\ Holds(blocks, h, at)
      /\ at \in 1..n /\ n \in Nat /\ Here \in Frame /\ Here = frames[l] /\ gpos \in Nat
  BY <1>1, StandsFacts
<1>3. l \in 2..l /\ o # 0
  BY <1>1, <1>2, ClauseOfHere DEF Clauses, Stands
<1>4. /\ Holds(blocks, h, o) /\ o \in 1..n /\ Here.join \in Nat
      /\ Holds(blocks, h, Here.join) /\ Here.join \in 1..n
  BY <1>2, <1>3 DEF Stands, Owned, Holds, Frame
<1>5. Grown(blocks, fresh) /\ Holds(fresh, h, n + 1) /\ Holds(fresh, h, n + 2)
  <2>1. n + 1 \in (n + 1)..(n + 2) /\ n + 2 \in (n + 1)..(n + 2)
    BY <1>2
  <2> QED BY <1>2, <1>4, <2>1, FreshGrows
<1> HIDE DEF fresh, o
<1>6. fresh \in Seq(Block) /\ at \in 1..Len(fresh) /\ <<Here.join>> \in Seq(Nat)
      /\ o \in 1..Len(fresh)
  BY <1>2, <1>4, <1>5, GrownLength DEF Grown
<1>7. Grown(fresh, left)
  BY <1>6, TerminateGrows
<1> HIDE DEF left
<1>8. left \in Seq(Block) /\ o \in 1..Len(left)
  BY <1>6, <1>7, GrownLength DEF Grown
<1>9. Grown(left, emitted)
  BY <1>8, EmitGrows
<1> HIDE DEF emitted
<1>10. emitted \in Seq(Block) /\ o \in 1..Len(emitted) /\ <<n + 1, n + 2>> \in Seq(Nat)
  BY <1>2, <1>8, <1>9, GrownLength DEF Grown
<1>11. Grown(emitted, blocks')
  BY <1>1, <1>10, TerminateGrows
<1>12. Grown(left, blocks')
  BY <1>8, <1>9, <1>11, GrownAgain
<1>13. Grown(fresh, blocks')
  BY <1>6, <1>7, <1>12, GrownAgain
<1>14. Grown(blocks, blocks')
  BY <1>2, <1>5, <1>13, GrownAgain
<1>15. Holds(blocks', h, n + 1) /\ Holds(blocks', h, n + 2)
  BY <1>5, <1>6, <1>13, GrownHolds
<1>16. /\ gs \in Seq(Frame) /\ Len(gs) = l
       /\ \A k \in 1..l : /\ gs[k].op = frames[k].op /\ gs[k].at = frames[k].at
                          /\ gs[k].back = frames[k].back /\ gs[k].join = frames[k].join
                          /\ k # l => gs[k] = frames[k]
       /\ gs[l].other = n + 2
  <2>1. n + 2 \in Nat
    BY <1>2
  <2> QED BY <1>2, <2>1, OtherFrame
<1> HIDE DEF gs
<1>17. Inside(frames, gpos + 1)
  BY <1>1, InsidePlain DEF Stands, Openers
<1>18. Inside(gs, gpos + 1)
  BY <1>16, <1>17, InsideSame
<1>19. ElseSeen(gs, gpos + 1)
  BY <1>2, <1>16, ElseSeenOther DEF Stands
<1>20. Owned(frames, blocks', at)
  BY <1>2, <1>14, OwnedGrows DEF Stands
<1>21. Owned(gs, blocks', n + 1)
  BY <1>2, <1>15, <1>16, <1>20, OwnedOther DEF h
<1> QED BY <1>1, <1>18, <1>19, <1>21 DEF Stands

LEMMA StandsElse ==
    ASSUME UnitOK, NoNesting, Stands(frames, gpos, blocks, at), gpos \in Positions, GenElse
    PROVE  Stands(frames', gpos', blocks', at')
<1> DEFINE l == Len(frames)
           h == Home(frames)
           gs == [frames EXCEPT ![Len(frames)].other = 0]
<1>1. /\ Tokens[gpos].op = "else" /\ gpos' = gpos + 1
      /\ blocks' = Terminate(blocks, at, <<Here.join>>)
      /\ frames' = gs /\ at' = Here.other
  BY DEF GenElse, Emitting, Advance
<1>2. /\ frames \in Seq(Frame) /\ frames # <<>> /\ blocks \in Seq(Block) /\ Holds(blocks, h, at)
      /\ at \in 1..Len(blocks) /\ Here \in Frame /\ Here = frames[l] /\ gpos \in Nat
      /\ Depth(gpos) = l /\ Here.at \in Nat /\ Here.at < gpos
  BY <1>1, StandsFacts
<1>3. l \in 2..l /\ Here.other # 0
  BY <1>1, <1>2, ClauseOfHere DEF Clauses, Stands
<1>4. Holds(blocks, h, Here.other) /\ Here.join \in Nat
  BY <1>2, <1>3 DEF Stands, Owned, Frame
<1>5. Grown(blocks, blocks')
  <2>1. <<Here.join>> \in Seq(Nat)
    BY <1>4
  <2> QED BY <1>1, <1>2, <2>1, TerminateGrows
<1>6. /\ gs \in Seq(Frame) /\ Len(gs) = l
      /\ \A k \in 1..l : /\ gs[k].op = frames[k].op /\ gs[k].at = frames[k].at
                         /\ gs[k].back = frames[k].back /\ gs[k].join = frames[k].join
                         /\ k # l => gs[k] = frames[k]
      /\ gs[l].other = 0
  BY <1>2, OtherFrame
<1> HIDE DEF gs
<1>7. Inside(frames, gpos + 1)
  BY <1>1, InsidePlain DEF Stands, Openers
<1>8. Inside(gs, gpos + 1)
  BY <1>6, <1>7, InsideSame
<1>9. ElseSeen(gs, gpos + 1)
  <2>1. frames[l].at \in Nat /\ frames[l].at < gpos
    BY <1>2
  <2> QED BY <1>1, <1>2, <1>6, <2>1, ElseSeenOther DEF Stands
<1>10. Owned(frames, blocks', at)
  BY <1>2, <1>5, OwnedGrows DEF Stands
<1>11. Holds(blocks', h, Here.other)
  BY <1>2, <1>4, <1>5, GrownHolds
<1>12. Owned(gs, blocks', Here.other)
  BY <1>2, <1>6, <1>10, <1>11, OwnedOther DEF h
<1> QED BY <1>1, <1>8, <1>9, <1>12 DEF Stands

LEMMA StandsEnd ==
    ASSUME UnitOK, NoNesting, Stands(frames, gpos, blocks, at), gpos \in Positions,
           GenIfEnd \/ GenWhileEnd
    PROVE  Stands(frames', gpos', blocks', at')
<1> DEFINE l == Len(frames)
           h == Home(frames)
<1>1. /\ Tokens[gpos].op = "end" /\ gpos' = gpos + 1 /\ Here.op \in {"if", "while"}
      /\ frames' = Front(frames) /\ at' = Here.join
  BY DEF GenIfEnd, GenWhileEnd, Emitting, Advance
<1>2. /\ frames \in Seq(Frame) /\ frames # <<>> /\ blocks \in Seq(Block) /\ Holds(blocks, h, at)
      /\ at \in 1..Len(blocks) /\ Here \in Frame /\ Here = frames[l]
  BY <1>1, StandsFacts
<1>3. l \in Nat /\ l > 1 /\ 2 <= l /\ l \in 2..l
  <2>1. l \in Nat \ {0} /\ l # 1
    BY <1>1, StandsFacts
  <2> HIDE DEF l
  <2> QED BY <2>1
<1>4. /\ Holds(blocks, h, Here.join)
      /\ Here.other = 0 \/ Holds(blocks, h, Here.other)
      /\ Here.join \in Nat /\ Here.other \in Nat
  BY <1>2, <1>3 DEF Stands, Owned, Frame
<1>5. <<Here.join>> \in Seq(Nat) /\ <<Here.other>> \in Seq(Nat)
  BY <1>4
<1>6. Grown(blocks, blocks')
  <2>1. CASE GenIfEnd
    <3> DEFINE left == Terminate(blocks, at, <<Here.join>>)
    <3>1. blocks' = IF Here.other = 0 THEN left
                    ELSE Terminate(left, Here.other, <<Here.join>>)
      BY <2>1 DEF GenIfEnd
    <3>2. Grown(blocks, left)
      BY <1>2, <1>5, TerminateGrows
    <3> HIDE DEF left
    <3>3. CASE Here.other = 0
      BY <3>1, <3>2, <3>3
    <3>4. CASE Here.other # 0
      <4>1. left \in Seq(Block) /\ Here.other \in 1..Len(left)
        BY <1>2, <1>4, <3>2, <3>4, GrownLength DEF Grown, Holds
      <4>2. Grown(left, blocks')
        BY <1>5, <3>1, <3>4, <4>1, TerminateGrows
      <4> QED BY <1>2, <3>2, <4>2, GrownAgain
    <3> QED BY <3>3, <3>4
  <2>2. CASE GenWhileEnd
    BY <1>2, <1>5, <2>2, TerminateGrows DEF GenWhileEnd
  <2> QED BY <2>1, <2>2
<1>7. Inside(frames', gpos') /\ ElseSeen(frames', gpos')
  BY <1>1, <1>3, InsidePop DEF Stands
<1>8. Owned(frames, blocks', at)
  BY <1>2, <1>6, OwnedGrows DEF Stands
<1>9. Holds(blocks', h, Here.join)
  BY <1>2, <1>4, <1>6, GrownHolds
<1>10. Owned(frames', blocks', at')
  BY <1>1, <1>2, <1>3, <1>8, <1>9, OwnedPop DEF h
<1> QED BY <1>7, <1>10 DEF Stands

(* A function is entered from the top level and left for it.               *)
LEMMA AtTopLevel ==
    ASSUME UnitOK, NoNesting, NEW fs, Inside(fs, gpos), gpos \in Positions,
           Tokens[gpos].op \in {"function", "forward"}
    PROVE  Depth(gpos) = 0 /\ fs = <<>>
<1>1. Depth(gpos) = 0
  BY DEF NoNesting
<1>2. fs \in Seq(Frame) /\ Len(fs) = 0
  BY <1>1 DEF Inside
<1> QED BY <1>1, <1>2

LEMMA FunctionEntered ==
    ASSUME UnitOK, NoNesting, pool = DeclaredPool, Inside(frames, gpos), gpos \in Positions,
           GenFunction
    PROVE  LET f == Known[Key].body
           IN  /\ f \in Definitions /\ Depth(f) = 0 /\ Tokens[f].sig.key = Key /\ Key \in Keys
               /\ frames = <<>> /\ pool' = pool /\ Known = pool /\ gpos' = f + 1
               /\ \E fr \in Frame : /\ fr.op = "function" /\ fr.at = f /\ frames' = <<fr>>
                                    /\ fr.back = Behind
                                    /\ fr.back \in 1..(Len(Tokens) + 1) /\ Depth(fr.back) = 0
<1> DEFINE f == Known[Key].body
           fr == [op |-> "function", at |-> f, back |-> Behind, join |-> 0, other |-> 0]
<1>1. /\ Tokens[gpos].op \in {"function", "forward"} /\ f # 0 /\ pool' = Known /\ gpos' = f + 1
      /\ frames' = Append(frames, fr)
  BY DEF GenFunction, Emitting
<1>2. Known = pool /\ Depth(gpos) = 0 /\ frames = <<>>
  BY <1>1, KnownIsPool, AtTopLevel
<1>3. /\ f \in Definitions /\ Depth(f) = 0 /\ Tokens[f].sig.key = Key /\ Key \in Keys
  BY <1>1, <1>2, PoolFacts DEF Key
<1>4. Behind \in 1..(Len(Tokens) + 1) /\ Depth(Behind) = 0
  <2>1. gpos # 0 /\ gpos \in Nat \ {0} /\ gpos + 1 \in 1..(Len(Tokens) + 1)
    BY TokenFacts
  <2>2. CASE Tokens[gpos].op = "function"
    <3>1. Behind = EndOf(gpos) + 1
      BY <2>1, <2>2 DEF Behind, BodyAt
    <3> QED BY <1>2, <2>2, <3>1, EndOfFunction
  <2>3. CASE Tokens[gpos].op = "forward"
    <3>1. Behind = gpos + 1
      BY <2>1, <2>3 DEF Behind, BodyAt
    <3>2. Depth(gpos + 1) = Depth(gpos)
      BY <2>1, <2>3, NextDepth DEF Openers
    <3> QED BY <1>2, <2>1, <3>1, <3>2
  <2> QED BY <1>1, <2>2, <2>3
<1>5. f \in Positions
  BY <1>3 DEF Definitions
<1>6. Behind \in Nat
  BY <1>4
<1> HIDE DEF f
<1>7. fr \in Frame /\ fr.op = "function" /\ fr.at = f /\ fr.back = Behind
  BY <1>5, <1>6 DEF Frame, Openers
<1> HIDE DEF fr
<1>8. frames' = <<fr>>
  BY <1>1, <1>2
<1> QED BY <1>1, <1>2, <1>3, <1>4, <1>7, <1>8 DEF f

LEMMA StandsFunction ==
    ASSUME UnitOK, NoNesting, pool = DeclaredPool, Stands(frames, gpos, blocks, at),
           gpos \in Positions, GenFunction
    PROVE  Stands(frames', gpos', blocks', at')
<1>1. PICK fr \in Frame :
         /\ fr.op = "function" /\ fr.at = Known[Key].body /\ frames' = <<fr>>
         /\ fr.back \in 1..(Len(Tokens) + 1) /\ Depth(fr.back) = 0
  BY FunctionEntered DEF Stands
<1>2. /\ fr.at \in Definitions /\ Depth(fr.at) = 0 /\ Tokens[fr.at].sig.key = Key
      /\ gpos' = fr.at + 1 /\ Key \in Keys
  BY <1>1, FunctionEntered DEF Stands
<1>3. fr.at \in Positions /\ Tokens[fr.at].op = "function"
  BY <1>2 DEF Definitions
<1>4. Inside(frames', gpos') /\ ElseSeen(frames', gpos')
  BY <1>1, <1>2, <1>3, InsideEnter
<1>5. blocks' = Append(blocks, NewBlock(Key)) /\ at' = Len(blocks) + 1
  BY DEF GenFunction
<1>6. blocks \in Seq(Block)
  BY DEF Stands, Owned
<1>7. NewBlock(Key) \in Block /\ NewBlock(Key).fn = Key
  BY <1>2 DEF NewBlock, Block
<1>8. /\ blocks' \in Seq(Block) /\ Len(blocks') = Len(blocks) + 1
      /\ blocks'[Len(blocks) + 1] = NewBlock(Key)
  BY <1>5, <1>6, <1>7, AppendFacts
<1>9. Holds(blocks', Key, at')
  BY <1>5, <1>6, <1>7, <1>8 DEF Holds
<1>10. Home(frames') = Key
  BY <1>1, <1>2 DEF Home
<1>11. Len(frames') = 1
  BY <1>1
<1>12. Owned(frames', blocks', at')
  BY <1>8, <1>9, <1>10, <1>11 DEF Owned
<1> QED BY <1>4, <1>12 DEF Stands

LEMMA StandsFunctionEnd ==
    ASSUME UnitOK, NoNesting, Stands(frames, gpos, blocks, at), gpos \in Positions,
           GenFunctionEnd
    PROVE  Stands(frames', gpos', blocks', at') /\ frames' = <<>>
<1>1. /\ Tokens[gpos].op = "end" /\ Here.op = "function" /\ gpos' = Here.back
      /\ frames' = Front(frames) /\ at' = at
      /\ blocks' = IF Here.at \in autoReturn THEN Return(blocks, TRUE) ELSE blocks
  BY DEF GenFunctionEnd, Emitting
<1>2. /\ frames \in Seq(Frame) /\ frames # <<>> /\ Here = frames[Len(frames)]
      /\ blocks \in Seq(Block) /\ at \in 1..Len(blocks)
  BY <1>1, StandsFacts
<1>3. Len(frames) = 1
  BY <1>1, StandsFacts
<1>4. frames' = <<>>
  BY <1>1, <1>2, <1>3 DEF Front
<1>5. gpos' \in 1..(Len(Tokens) + 1) /\ Depth(gpos') = 0
  BY <1>1, <1>2, <1>3 DEF Stands, Inside, Leaves
<1>6. Inside(frames', gpos') /\ ElseSeen(frames', gpos')
  <2>1. <<>> \in Seq(Frame) /\ Len(<<>>) = 0 /\ 1..0 = {}
    OBVIOUS
  <2> QED BY <1>4, <1>5, <2>1 DEF Inside, Entered, Leaves, ElseSeen
<1>7. blocks' \in Seq(Block)
  BY <1>1, <1>2, ReturnGrows DEF Grown
<1>8. Owned(frames', blocks', at')
  <2>1. Len(<<>>) = 0 /\ 2..0 = {}
    OBVIOUS
  <2> QED BY <1>4, <1>7, <2>1 DEF Owned
<1> QED BY <1>4, <1>6, <1>8 DEF Stands

LEMMA StandsNext ==
    ASSUME UnitOK, NoNesting, pool = DeclaredPool, Stands(frames, gpos, blocks, at), GenNext
    PROVE  pool' = pool /\ Stands(frames', gpos', blocks', at')
<1>1. ASSUME NEW ops, Emitting(ops) PROVE gpos \in Positions /\ Tokens[gpos].op \in ops
  <2>1. gpos \in 1..(Len(Tokens) + 1) /\ gpos <= Len(Tokens)
    BY <1>1 DEF Stands, Inside, Emitting
  <2> QED BY <1>1, <2>1, TokenFacts DEF Emitting
<1>2. CASE GenDeclare \/ GenEvaluate \/ GenReturn
  <2>1. gpos \in Positions /\ pool' = pool /\ frames' = frames /\ at' = at /\ gpos' = gpos + 1
    BY <1>1, <1>2 DEF GenDeclare, GenEvaluate, GenReturn, Advance
  <2> QED BY <1>2, <2>1, StandsSimple
<1>3. CASE GenOther
  <2>1. /\ gpos \in Positions /\ Tokens[gpos].op = "other" /\ gpos' = gpos + 1
        /\ UNCHANGED <<pool, frames, blocks, at>>
    BY <1>1, <1>3 DEF GenOther, Advance
  <2>2. Inside(frames, gpos + 1) /\ ElseSeen(frames, gpos + 1)
    BY <2>1, InsidePlain, ElseStaysSeen, TokenFacts DEF Stands, Openers
  <2> QED BY <2>1, <2>2 DEF Stands
<1>4. CASE GenIf
  BY <1>1, <1>4, StandsIf DEF GenIf
<1>5. CASE GenElseIf
  BY <1>1, <1>5, StandsElseIf DEF GenElseIf
<1>6. CASE GenElse
  BY <1>1, <1>6, StandsElse DEF GenElse
<1>7. CASE GenIfEnd \/ GenWhileEnd
  BY <1>1, <1>7, StandsEnd DEF GenIfEnd, GenWhileEnd
<1>8. CASE GenWhile
  BY <1>1, <1>8, StandsWhile DEF GenWhile
<1>9. CASE GenFunction
  <2>1. gpos \in Positions
    BY <1>1, <1>9 DEF GenFunction
  <2> QED BY <1>9, <2>1, StandsFunction, FunctionEntered DEF Stands
<1>10. CASE GenForward
  <2>1. /\ gpos \in Positions /\ Tokens[gpos].op = "forward" /\ gpos' = gpos + 1
        /\ pool' = Known /\ UNCHANGED <<frames, blocks, at>>
    BY <1>1, <1>10 DEF GenForward, Advance
  <2>2. Inside(frames, gpos + 1) /\ ElseSeen(frames, gpos + 1)
    BY <2>1, InsidePlain, ElseStaysSeen, TokenFacts DEF Stands, Openers
  <2>3. Known = pool
    BY <2>1, KnownIsPool
  <2> QED BY <2>1, <2>2, <2>3 DEF Stands
<1>11. CASE GenFunctionEnd
  <2>1. gpos \in Positions /\ pool' = pool
    BY <1>1, <1>11 DEF GenFunctionEnd
  <2> QED BY <1>11, <2>1, StandsFunctionEnd
<1>12. CASE GenReject \/ GenCrash \/ GenDone
  <2>1. UNCHANGED <<gpos, pool, frames, blocks, at>>
    BY <1>12 DEF GenReject, GenCrash, GenDone
  <2> QED BY <2>1
<1> QED BY <1>2, <1>3, <1>4, <1>5, <1>6, <1>7, <1>8, <1>9, <1>10, <1>11, <1>12 DEF GenNext

(* What it knows of a plain file.                                          *)
AllAgree(bs, lds) == \A ld \in lds : LoadAgrees(bs, ld)

Bound(bs, c) == Bindings(bs, c) /\ c \in Nat /\ Len(Tokens) < c /\ InjectiveBefore(c)

LEMMA LoadsKept ==
    ASSUME UnitOK, NoNesting, Bound(bound, cpos), Stands(frames, gpos, blocks, at),
           TableMatches(frames, table, gpos), AllAgree(bound, loads), gpos \in Positions
    PROVE  Resolvable /\ (Load => AllAgree(bound, loads'))
<1> DEFINE ld(n) == [at |-> gpos, name |-> n, slot |-> table[n], by |-> Owner]
<1>1. ASSUME NEW n \in Tokens[gpos].uses
      PROVE  table[n] # None /\ LoadAgrees(bound, ld(n))
  <2>1. Tokens[gpos].op \notin {"function", "forward", "other"}
    BY <1>1, TokenFacts DEF Proper
  <2>2. Owner = Home(frames)
    BY <2>1, StandsFacts DEF Owner, Holds
  <2>3. /\ table[n] # None
        /\ LoadAgrees(bound, [at |-> gpos, name |-> n, slot |-> table[n], by |-> Home(frames)])
    BY Loaded DEF Stands, Bound
  <2> QED BY <2>2, <2>3
<1>2. Resolvable
  BY <1>1 DEF Resolvable
<1>3. ASSUME Load PROVE AllAgree(bound, loads')
  <2>1. loads' = loads \cup {ld(n) : n \in Tokens[gpos].uses}
    BY <1>3 DEF Load
  <2> HIDE DEF ld
  <2> QED BY <1>1, <2>1 DEF AllAgree
<1> QED BY <1>2, <1>3

LEMMA SameHome ==
    ASSUME UnitOK, NoNesting, Stands(frames, gpos, blocks, at), gpos \in Positions,
           \/ GenIf \/ GenElseIf \/ GenElse \/ GenIfEnd \/ GenWhile \/ GenWhileEnd
    PROVE  /\ frames' # <<>> /\ frames'[1].at = frames[1].at
           /\ frames'[1].back = frames[1].back
<1>1. Tokens[gpos].op \in {"if", "elseif", "else", "end", "while"}
  BY DEF GenIf, GenElseIf, GenElse, GenIfEnd, GenWhile, GenWhileEnd, Emitting
<1>2. frames \in Seq(Frame) /\ Len(frames) \in Nat \ {0} /\ frames # <<>> /\ 1 \in 1..Len(frames)
      /\ (Here.op = "function" <=> Len(frames) = 1) /\ Len(blocks) \in Nat
  BY <1>1, StandsFacts
<1>3. CASE GenIf \/ GenWhile
  <2>1. PICK fr : frames' = Append(frames, fr)
    BY <1>3 DEF GenIf, GenWhile
  <2> QED BY <1>2, <2>1
<1>4. CASE GenElseIf \/ GenElse
  <2>1. PICK o \in Nat : frames' = [frames EXCEPT ![Len(frames)].other = o]
    <3>1. 0 \in Nat /\ Len(blocks) + 2 \in Nat
      BY <1>2
    <3> QED BY <1>4, <3>1 DEF GenElseIf, GenElse
  <2> QED BY <1>2, <2>1, OtherFrame
<1>5. CASE GenIfEnd \/ GenWhileEnd
  <2>1. frames' = Front(frames) /\ Here.op # "function"
    BY <1>5 DEF GenIfEnd, GenWhileEnd
  <2>2. Len(frames) > 1
    <3>1. Len(frames) # 1
      BY <1>2, <2>1
    <3> DEFINE l == Len(frames)
    <3>2. l \in Nat \ {0} /\ l # 1
      BY <1>2, <3>1
    <3> HIDE DEF l
    <3>3. l > 1
      BY <3>2
    <3> QED BY <3>3 DEF l
  <2> QED BY <1>2, <2>1, <2>2, FrontFacts
<1> QED BY <1>3, <1>4, <1>5

LEMMA AgreesNext ==
    ASSUME UnitOK, Plain, pool = DeclaredPool, Bound(bound, cpos),
           Stands(frames, gpos, blocks, at), TableMatches(frames, table, gpos),
           AllAgree(bound, loads), result \in {"emitting", "emitted"}, GenNext
    PROVE  /\ TableMatches(frames', table', gpos') /\ AllAgree(bound, loads')
           /\ result' \in {"emitting", "emitted"}
<1>0. NoNesting
  BY DEF Plain
<1>1. ASSUME NEW ops, Emitting(ops) PROVE gpos \in Positions /\ Tokens[gpos].op \in ops
  <2>1. gpos \in 1..(Len(Tokens) + 1) /\ gpos <= Len(Tokens)
    BY <1>1 DEF Stands, Inside, Emitting
  <2> QED BY <1>1, <2>1, TokenFacts DEF Emitting
<1>2. ASSUME gpos \in Positions PROVE Resolvable /\ (Load => AllAgree(bound, loads'))
  BY <1>0, <1>2, LoadsKept
<1>3. ASSUME gpos \in Positions, Tokens[gpos].op \notin {"function", "forward", "other"}
      PROVE  /\ frames # <<>> /\ frames[1].at \in Positions /\ Home(frames) \in Keys
             /\ Owner = Home(frames)
  <2>1. frames # <<>> /\ frames[1].at \in Definitions
    BY <1>0, <1>3, InFunction DEF Stands
  <2>2. frames[1].at \in Positions /\ Home(frames) \in Keys
    BY <2>1, ParameterFacts DEF Definitions, Home, Signature
  <2>3. Owner = Home(frames)
    BY <1>0, <1>3, StandsFacts DEF Owner, Holds
  <2> QED BY <2>1, <2>2, <2>3
<1>4. ASSUME NEW ops, Emitting(ops), ops \cap {"function", "forward", "other", "declare"} = {},
             frames'[1].at = frames[1].at, table' = table, gpos' = gpos + 1
      PROVE  TableMatches(frames', table', gpos')
  <2>1. gpos \in Positions /\ Tokens[gpos].op \in ops
    BY <1>1, <1>4
  <2>2. Tokens[gpos].op \notin {"function", "forward", "other", "declare"}
    BY <1>4, <2>1
  <2>3. frames # <<>> /\ frames[1].at \in Positions
    BY <1>3, <2>1, <2>2
  <2> QED BY <1>4, <2>1, <2>2, <2>3, TableKept
<1>5. CASE GenDeclare
  <2>1. /\ Tokens[gpos].op = "declare" /\ gpos \in Positions /\ gpos' = gpos + 1
        /\ Load /\ frames' = frames /\ result' = result
        /\ table' = [table EXCEPT ![Tokens[gpos].name] = [var |-> <<gpos, 0>>, fn |-> Owner]]
    BY <1>1, <1>5 DEF GenDeclare, Advance
  <2>2. frames # <<>> /\ frames[1].at \in Positions /\ Home(frames) \in Keys /\ Owner = Home(frames)
    BY <1>3, <2>1
  <2>3. TableMatches(frames', table', gpos')
    BY <2>1, <2>2, TableDeclare
  <2> QED BY <1>2, <2>1, <2>3
<1>6. CASE GenEvaluate \/ GenReturn
  <2>1. /\ Emitting({"evaluate"} \cup Returns) /\ gpos' = gpos + 1 /\ Load
        /\ frames' = frames /\ result' = result /\ table' = table
    BY <1>6 DEF GenEvaluate, GenReturn, Advance, Emitting
  <2>2. TableMatches(frames', table', gpos')
    BY <1>4, <2>1 DEF Returns
  <2> QED BY <1>1, <1>2, <2>1, <2>2
<1>7. CASE GenIf \/ GenElseIf \/ GenElse \/ GenIfEnd \/ GenWhile \/ GenWhileEnd
  <2>1. /\ Emitting({"if", "elseif", "else", "end", "while"}) /\ gpos' = gpos + 1
        /\ Load \/ loads' = loads
        /\ result' = result /\ table' = table
    BY <1>7 DEF GenIf, GenElseIf, GenElse, GenIfEnd, GenWhile, GenWhileEnd, Advance, Emitting
  <2>2. frames'[1].at = frames[1].at
    BY <1>0, <1>1, <1>7, <2>1, SameHome
  <2>3. TableMatches(frames', table', gpos')
    BY <1>4, <2>1, <2>2
  <2> QED BY <1>1, <1>2, <2>1, <2>3
<1>8. CASE GenOther \/ GenForward
  <2>1. /\ gpos \in Positions /\ Tokens[gpos].op \in {"other", "forward"}
        /\ UNCHANGED <<frames, table, loads, result>> /\ gpos' = gpos + 1
    BY <1>1, <1>8 DEF GenOther, GenForward, Advance
  <2>2. frames = <<>> \/ (frames # <<>> /\ frames[1].at \in Positions)
    <3>1. frames \in Seq(Frame)
      BY DEF Stands, Inside
    <3>2. frames # <<>> => 1 \in 1..Len(frames)
      BY <3>1
    <3> QED BY <3>1, <3>2, FrameFacts
  <2>3. CASE frames = <<>>
    BY <2>1, <2>3 DEF TableMatches
  <2>4. CASE frames # <<>> /\ frames[1].at \in Positions
    <3>1. TableMatches(frames, table, gpos + 1)
      BY <2>1, <2>4, TableKept
    <3> QED BY <2>1, <3>1
  <2> QED BY <2>2, <2>3, <2>4
<1>9. CASE GenFunction
  <2> DEFINE f == Known[Key].body
  <2>1. gpos \in Positions
    BY <1>1, <1>9 DEF GenFunction
  <2>2. /\ f \in Definitions /\ Tokens[f].sig.key = Key /\ Known = pool /\ gpos' = f + 1
        /\ \E fr \in Frame : fr.at = f /\ frames' = <<fr>>
    BY <1>0, <1>9, <2>1, FunctionEntered DEF Stands
  <2>3. table' = Entry(Known, Key, f) /\ loads' = loads /\ result' = result
    BY <1>9 DEF GenFunction
  <2>4. f \in Positions /\ Tokens[f].op = "function" /\ f < cpos
    <3>1. f \in Positions /\ Tokens[f].op = "function"
      BY <2>2 DEF Definitions
    <3>2. f \in 1..Len(Tokens) /\ Len(Tokens) \in Nat
      BY <3>1, TokenFacts
    <3> HIDE DEF f
    <3> QED BY <3>1, <3>2 DEF Bound
  <2>5. IsInjective(Tokens[f].sig.params)
    BY <2>2, <2>4 DEF Bound, InjectiveBefore
  <2>6. Known[Tokens[f].sig.key].params = Tokens[f].sig.params
    BY <2>2 DEF Plain
  <2>7. table \in [Names -> Slot \cup {None}]
    BY DEF TableMatches
  <2>8. PICK fr \in Frame : fr.at = f /\ frames' = <<fr>>
    BY <2>2
  <2>9. TableMatches(<<fr>>, Entry(Known, Tokens[f].sig.key, f), f + 1)
    <3> HIDE DEF f
    <3> QED BY <2>4, <2>5, <2>6, <2>7, <2>8, TableEnter
  <2> QED BY <2>2, <2>3, <2>8, <2>9
<1>10. CASE GenFunctionEnd
  <2>1. gpos \in Positions
    BY <1>1, <1>10 DEF GenFunctionEnd
  <2>2. frames' = <<>> /\ loads' = loads /\ result' = result
    BY <1>0, <1>10, <2>1, StandsFunctionEnd DEF GenFunctionEnd
  <2>3. table' \in [Names -> Slot \cup {None}]
    BY <1>10 DEF GenFunctionEnd, TableMatches
  <2> QED BY <2>2, <2>3 DEF TableMatches
<1>11. CASE GenReject
  <2>1. /\ gpos \in Positions
        /\ ~Resolvable \/ (Tokens[gpos].op = "function" /\ Redefines(pool, gpos))
    BY <1>1, <1>11 DEF GenReject
  <2> QED BY <1>0, <1>2, <2>1, KnownIsPool
<1>12. CASE GenCrash
  <2>1. /\ gpos \in Positions /\ Tokens[gpos].op \in {"function", "forward"}
        /\ Len(frames) >= StackLimit
    BY <1>1, <1>12 DEF GenCrash
  <2>2. frames = <<>>
    BY <1>0, <2>1, AtTopLevel DEF Stands
  <2> QED BY <2>1, <2>2, StackLimitAssumption
<1>13. CASE GenDone
  BY <1>13 DEF GenDone
<1> QED BY <1>5, <1>6, <1>7, <1>8, <1>9, <1>10, <1>11, <1>12, <1>13 DEF GenNext

-----------------------------------------------------------------------------
(* What both passes know of a file.                                        *)
GenInv ==
    /\ CheckInv
    /\ verdict # "checked" => loads = {} /\ result = "emitting"
    /\ NoNesting => pool = DeclaredPool /\ Stands(frames, gpos, blocks, at)
    /\ Plain => /\ TableMatches(frames, table, gpos)
                /\ AllAgree(bound, loads)
                /\ result \in {"emitting", "emitted"}

LEMMA GenInvInit == Init => GenInv
<1> SUFFICES ASSUME Init PROVE GenInv
  OBVIOUS
<1>1. CheckInv /\ verdict # "checked" /\ loads = {} /\ result = "emitting"
  BY CheckInvInit DEF Init, CheckInit, GenInit
<1>2. /\ pool = DeclaredPool /\ frames = <<>> /\ gpos = 1 /\ blocks = <<>>
      /\ table = [n \in Names |-> None]
  BY DEF Init, GenInit
<1>3. /\ <<>> \in Seq(Frame) /\ <<>> \in Seq(Block) /\ Len(<<>>) = 0 /\ 1..0 = {} /\ 2..0 = {}
  OBVIOUS
<1>4. 1 \in 1..(Len(Tokens) + 1) /\ Depth(1) = 0
  BY <1>1, TokenFacts, FirstDepth DEF CheckInv
<1>5. Stands(frames, gpos, blocks, at)
  BY <1>2, <1>3, <1>4 DEF Stands, Inside, Entered, Leaves, ElseSeen, Owned
<1>6. TableMatches(frames, table, gpos)
  BY <1>2 DEF TableMatches
<1> QED BY <1>1, <1>2, <1>5, <1>6 DEF GenInv, AllAgree

LEMMA SameTextGen ==
    ASSUME unit' = unit
    PROVE  /\ DeclaredPool' = DeclaredPool
           /\ NoNesting' <=> NoNesting
           /\ \A fs, p, bs, a : Stands(fs, p, bs, a)' <=> Stands(fs, p, bs, a)
           /\ \A fs, tab, p : TableMatches(fs, tab, p)' <=> TableMatches(fs, tab, p)
           /\ \A bs, lds : AllAgree(bs, lds)' <=> AllAgree(bs, lds)
           /\ pool' = pool => (Plain' <=> Plain)
<1>1. /\ Tokens' = Tokens /\ Positions' = Positions /\ Definitions' = Definitions
      /\ \A p : Depth(p)' = Depth(p)
  BY SameText
<1>2. TopLevelFunctions' = TopLevelFunctions /\ (NoNesting' <=> NoNesting)
  BY <1>1 DEF TopLevelFunctions, NoNesting
<1>3. DeclaredPool' = DeclaredPool
  <2>1. /\ \A k : ImportedAs(k)' = ImportedAs(k)
        /\ \A k : DeclaredHere(k)' = DeclaredHere(k)
    BY <1>1, <1>2 DEF ImportedAs, DeclaredHere
  <2>2. /\ \A k : DefinedHere(k)' = DefinedHere(k)
        /\ \A k : First(k)' = First(k)
    BY <1>1, <2>1 DEF DefinedHere, First
  <2> QED BY <2>1, <2>2 DEF DeclaredPool
<1>4. \A fs, p, bs, a : Stands(fs, p, bs, a)' <=> Stands(fs, p, bs, a)
  <2>1. Frame' = Frame /\ Block' = Block
    BY <1>1 DEF Frame, Block
  <2>2. \A fs, p : Entered(fs, p)' <=> Entered(fs, p)
    BY <1>1 DEF Entered
  <2>3. \A fs : (Leaves(fs)' <=> Leaves(fs)) /\ Home(fs)' = Home(fs)
    BY <1>1 DEF Leaves, Home
  <2>4. \A fs, p : ElseSeen(fs, p)' <=> ElseSeen(fs, p)
    BY <1>1 DEF ElseSeen
  <2>5. \A fs, p : Inside(fs, p)' <=> Inside(fs, p)
    BY <1>1, <2>1, <2>2, <2>3 DEF Inside
  <2>6. \A fs, bs, a : Owned(fs, bs, a)' <=> Owned(fs, bs, a)
    BY <2>1, <2>3 DEF Owned, Holds
  <2> QED BY <2>4, <2>5, <2>6 DEF Stands
<1>5. \A fs, tab, p : TableMatches(fs, tab, p)' <=> TableMatches(fs, tab, p)
  <2>1. /\ \A q, j, n : VarOf(q, j, n)' <=> VarOf(q, j, n)
        /\ \A q, n, p : Latest(q, n, p)' <=> Latest(q, n, p)
        /\ \A fs : Home(fs)' = Home(fs)
    BY <1>1 DEF VarOf, Latest, Home
  <2>2. \A f, k, tab, p : Current(f, k, tab, p)' <=> Current(f, k, tab, p)
    BY <2>1 DEF Current
  <2> QED BY <2>1, <2>2 DEF TableMatches
<1>6. \A bs, lds : AllAgree(bs, lds)' <=> AllAgree(bs, lds)
  <2>1. \A p, n, v : Redeclared(p, n, v)' <=> Redeclared(p, n, v)
    BY <1>1 DEF Redeclared
  <2>2. \A bs, ld : LoadAgrees(bs, ld)' <=> LoadAgrees(bs, ld)
    BY <2>1 DEF LoadAgrees
  <2> QED BY <2>2 DEF AllAgree
<1>7. pool' = pool => (Plain' <=> Plain)
  BY <1>1, <1>2 DEF Plain
<1> QED BY <1>2, <1>3, <1>4, <1>5, <1>6, <1>7

LEMMA UnitKept == [Next]_vars => unit' = unit
BY DEF Next, vars, Check, Generate, CheckNext, GenNext, CheckDeclare, CheckEvaluate,
   CheckOther, CheckReturn, CheckOpen, CheckClause, CheckEnd, CheckFunction, CheckForward,
   CheckFunctionEnd, CheckReject, CheckCrash, CheckDone, GenDeclare, GenEvaluate, GenOther,
   GenReturn, GenIf, GenElseIf, GenElse, GenIfEnd, GenWhile, GenWhileEnd, GenFunction,
   GenForward, GenFunctionEnd, GenReject, GenCrash, GenDone

LEMMA GenInvStep == GenInv /\ [Next]_vars => GenInv'
<1> SUFFICES ASSUME GenInv, [Next]_vars PROVE GenInv'
  OBVIOUS
<1>1. unit' = unit /\ CheckInv /\ CheckInv' /\ UnitOK
  BY UnitKept, CheckInvStep DEF GenInv, CheckInv
<1>2. CASE Check
  <2>1. UNCHANGED <<gpos, pool, frames, table, blocks, at, loads, result>>
    BY <1>2 DEF Check, genVars
  <2>2. verdict = "checking"
    BY <1>2 DEF Check, CheckNext, CheckDeclare, CheckEvaluate, CheckOther, CheckReturn, CheckOpen,
       CheckClause, CheckEnd, CheckFunction, CheckForward, CheckFunctionEnd, CheckReject,
       CheckCrash, CheckDone, Checking
  <2>3. loads' = {} /\ result' = "emitting"
    BY <2>1, <2>2 DEF GenInv
  <2>4. AllAgree(bound', loads')
    BY <2>3 DEF AllAgree
  <2> QED BY <1>1, <2>1, <2>3, <2>4, SameTextGen DEF GenInv
<1>3. CASE Generate
  <2>1. UNCHANGED <<cpos, bound, verdict>> /\ verdict = "checked" /\ GenNext
    BY <1>3 DEF Generate, checkVars
  <2>2. NoNesting => /\ pool' = pool /\ pool = DeclaredPool
                     /\ Stands(frames, gpos, blocks, at) /\ Stands(frames', gpos', blocks', at')
    BY <1>1, <2>1, StandsNext DEF GenInv
  <2>3. Bound(bound, cpos)
    BY <1>1, <2>1, TokenFacts DEF CheckInv, Bound, Walked
  <2>4. Plain' => Plain
    BY <1>1, <2>2, SameTextGen DEF Plain
  <2>5. Plain => /\ TableMatches(frames', table', gpos') /\ AllAgree(bound, loads')
                 /\ result' \in {"emitting", "emitted"}
    <3> SUFFICES ASSUME Plain PROVE /\ TableMatches(frames', table', gpos')
                                    /\ AllAgree(bound, loads')
                                    /\ result' \in {"emitting", "emitted"}
      OBVIOUS
    <3>1. NoNesting
      BY DEF Plain
    <3> QED BY <1>1, <2>1, <2>2, <2>3, <3>1, AgreesNext DEF GenInv
  <2> QED BY <1>1, <2>1, <2>2, <2>4, <2>5, SameTextGen DEF GenInv
<1>4. CASE UNCHANGED vars
  <2>1. UNCHANGED <<unit, verdict, bound, gpos, pool, frames, table, blocks, at, loads, result>>
    BY <1>4 DEF vars, checkVars, genVars
  <2> QED BY <1>1, <2>1, SameTextGen DEF GenInv
<1> QED BY <1>2, <1>3, <1>4 DEF Next

(* The code generator neither refuses nor dies on a plain file that the    *)
(* type checker has accepted.                                              *)
THEOREM Emitted == Spec => []CheckedFilesAreEmitted
<1>1. GenInv => CheckedFilesAreEmitted
  BY DEF GenInv, CheckedFilesAreEmitted
<1> QED BY <1>1, GenInvInit, GenInvStep, PTL DEF Spec

(* Every load of a plain file is from an alloca of the function it is in,  *)
(* and reads the variable the type checker has bound the name to, unless a *)
(* declaration of that name stands between the two: then it never does.    *)
THEOREM Loads == Spec => []LoadsAgreeUnlessRedeclared
<1>1. ASSUME GenInv PROVE LoadsAgreeUnlessRedeclared
  <2> SUFFICES ASSUME Plain, NEW ld \in loads
               PROVE  LET var == (CHOOSE b \in bound : b[1] = ld.at /\ b[2] = ld.name)[3]
                      IN  /\ ld.slot.fn = ld.by
                          /\ ld.slot.var = var <=> ~Redeclared(ld.at, ld.name, var)
    BY DEF LoadsAgreeUnlessRedeclared
  <2>1. PICK v \in Variable :
           /\ <<ld.at, ld.name, v>> \in bound /\ ld.slot.fn = ld.by
           /\ ld.slot.var = v <=> ~Redeclared(ld.at, ld.name, v)
    BY <1>1 DEF GenInv, AllAgree, LoadAgrees
  <2> DEFINE c == CHOOSE b \in bound : b[1] = ld.at /\ b[2] = ld.name
  <2>2. c \in bound /\ c[1] = ld.at /\ c[2] = ld.name
    BY <2>1
  <2>3. BoundOnce(bound)
    BY <1>1 DEF GenInv, CheckInv, Bindings
  <2> HIDE DEF c
  <2>4. c = <<ld.at, ld.name, v>>
    BY <2>1, <2>2, <2>3 DEF BoundOnce
  <2>5. c[3] = v
    BY <2>4
  <2> QED BY <2>1, <2>5 DEF c
<1> QED BY <1>1, GenInvInit, GenInvStep, PTL DEF Spec

-----------------------------------------------------------------------------
(* What the verifier accepts.  The blocks that are not finished are the    *)
(* one at the insertion point and those that visits in progress wait for:  *)
(* these are open, and no two of them are the same.                        *)
Waits(fs, k, b) ==
    \/ b = fs[k].join
    \/ fs[k].op = "if" /\ fs[k].other # 0 /\ b = fs[k].other

Lives(fs, a, b) == fs # <<>> /\ (b = a \/ \E k \in 2..Len(fs) : Waits(fs, k, b))

Apart(fs, a) ==
    fs # <<>> =>
        /\ \A k \in 2..Len(fs) : ~Waits(fs, k, a)
        /\ \A k \in 2..Len(fs) : fs[k].op = "if" => fs[k].other # fs[k].join
        /\ \A k, l \in 2..Len(fs) : \A b : Waits(fs, k, b) /\ Waits(fs, l, b) => k = l

Untouched(fs, bs) ==
    \A k \in 2..Len(fs) : \A b : Waits(fs, k, b) => bs[b].state = "open"

(* Of the function at f up to token p: its last statement is a return, and *)
(* something stands behind a return.                                       *)
Returned(f, p) ==
    \E i \in f..(p - 1) : /\ Tokens[i].op \in Returns
                          /\ \A j \in (i + 1)..(p - 1) : Tokens[j].op = "other"

Early(f, p) ==
    \E i \in f..(p - 1) : /\ Tokens[i].op \in Returns
                          /\ \E j \in (i + 1)..(p - 1) : Tokens[j].op # "other"

(* The block at the insertion point is closed by a return and broken by    *)
(* anything behind one.                                                    *)
AtPoint(fs, p, bs, a) ==
    fs # <<>> =>
        /\ ~Early(fs[1].at, p) =>
              bs[a].state = IF Returned(fs[1].at, p) THEN "closed" ELSE "open"
        /\ Early(fs[1].at, p) =>
              \E b \in 1..Len(bs) : bs[b].fn = Home(fs) /\ bs[b].state = "broken"

(* The finished blocks of a function that returns as it should are closed, *)
(* and one that does not has a block that is not.                          *)
Good(f) == ~EarlyReturn(f) /\ ~(EndsInReturn(f) <=> f \in autoReturn)

Settled(fs, bs, a) ==
    \A b \in 1..Len(bs) : \A f \in Definitions :
        bs[b].fn = Tokens[f].sig.key /\ Good(f) /\ ~Lives(fs, a, b) => bs[b].state = "closed"

Reached(fs, p) == IF fs = <<>> THEN p ELSE fs[1].back

Refused(fs, p, bs) ==
    \A f \in Definitions :
        f < Reached(fs, p) /\ (fs # <<>> => f # fs[1].at) /\ ~Good(f) =>
            \E b \in 1..Len(bs) : bs[b].fn = Tokens[f].sig.key /\ bs[b].state # "closed"

Verified(fs, p, bs, a) ==
    /\ Apart(fs, a) /\ Untouched(fs, bs) /\ AtPoint(fs, p, bs, a)
    /\ Settled(fs, bs, a) /\ Refused(fs, p, bs)

(* One token further.                                                      *)
LEMMA ReturnedNext ==
    ASSUME NEW f \in Nat \ {0}, NEW p \in Nat, f < p
    PROVE  /\ Returned(f, p + 1) <=> \/ Tokens[p].op \in Returns
                                     \/ Tokens[p].op = "other" /\ Returned(f, p)
           /\ Early(f, p + 1) <=> \/ Early(f, p)
                                  \/ Tokens[p].op # "other" /\ Returned(f, p)
<1>1. (p + 1) - 1 = p /\ p \in f..p /\ p - 1 \in Nat /\ (p + 1)..p = {}
  OBVIOUS
<1>2. \A i \in f..p : i = p \/ i \in f..(p - 1)
  OBVIOUS
<1>3. \A i \in f..(p - 1) : /\ i \in f..p /\ i + 1 <= p /\ p \in (i + 1)..p
                            /\ \A j \in (i + 1)..p : j = p \/ j \in (i + 1)..(p - 1)
                            /\ \A j \in (i + 1)..(p - 1) : j \in (i + 1)..p
  OBVIOUS
<1>4. Tokens[p].op = "other" => Tokens[p].op \notin Returns
  BY DEF Returns
<1>5. Returned(f, p + 1) <=> \E i \in f..p : /\ Tokens[i].op \in Returns
                                             /\ \A j \in (i + 1)..p : Tokens[j].op = "other"
  BY <1>1 DEF Returned
<1>6. Early(f, p + 1) <=> \E i \in f..p : /\ Tokens[i].op \in Returns
                                          /\ \E j \in (i + 1)..p : Tokens[j].op # "other"
  BY <1>1 DEF Early
<1>7. ASSUME Returned(f, p + 1)
      PROVE  Tokens[p].op \in Returns \/ (Tokens[p].op = "other" /\ Returned(f, p))
  <2>1. PICK i \in f..p : /\ Tokens[i].op \in Returns
                          /\ \A j \in (i + 1)..p : Tokens[j].op = "other"
    BY <1>5, <1>7
  <2>2. CASE i = p
    BY <2>1, <2>2
  <2>3. CASE i \in f..(p - 1)
    BY <1>3, <2>1, <2>3 DEF Returned
  <2> QED BY <1>2, <2>2, <2>3
<1>8. ASSUME Tokens[p].op \in Returns PROVE Returned(f, p + 1)
  <2>1. \A j \in (p + 1)..p : Tokens[j].op = "other"
    BY <1>1
  <2> QED BY <1>1, <1>5, <1>8, <2>1
<1>9. ASSUME Tokens[p].op = "other", Returned(f, p) PROVE Returned(f, p + 1)
  <2>1. PICK i \in f..(p - 1) : /\ Tokens[i].op \in Returns
                                /\ \A j \in (i + 1)..(p - 1) : Tokens[j].op = "other"
    BY <1>9 DEF Returned
  <2> QED BY <1>3, <1>5, <1>9, <2>1
<1>10. ASSUME Early(f, p + 1)
       PROVE  Early(f, p) \/ (Tokens[p].op # "other" /\ Returned(f, p))
  <2>1. PICK i \in f..p : /\ Tokens[i].op \in Returns
                          /\ \E j \in (i + 1)..p : Tokens[j].op # "other"
    BY <1>6, <1>10
  <2>2. i \in f..(p - 1)
    BY <1>1, <1>2, <2>1
  <2>3. PICK j \in (i + 1)..p : Tokens[j].op # "other"
    BY <2>1
  <2>4. CASE j \in (i + 1)..(p - 1)
    BY <2>1, <2>2, <2>3, <2>4 DEF Early
  <2>5. CASE j = p
    BY <2>1, <2>2, <2>3, <2>5 DEF Early, Returned
  <2> QED BY <1>3, <2>2, <2>4, <2>5
<1>11. ASSUME Early(f, p) PROVE Early(f, p + 1)
  <2>1. PICK i \in f..(p - 1) : /\ Tokens[i].op \in Returns
                                /\ \E j \in (i + 1)..(p - 1) : Tokens[j].op # "other"
    BY <1>11 DEF Early
  <2> QED BY <1>3, <1>6, <2>1
<1>12. ASSUME Tokens[p].op # "other", Returned(f, p) PROVE Early(f, p + 1)
  <2>1. PICK i \in f..(p - 1) : /\ Tokens[i].op \in Returns
                                /\ \A j \in (i + 1)..(p - 1) : Tokens[j].op = "other"
    BY <1>12 DEF Returned
  <2> QED BY <1>3, <1>6, <1>12, <2>1
<1> QED BY <1>7, <1>8, <1>9, <1>10, <1>11, <1>12

LEMMA NotReturnedYet ==
    ASSUME NEW f \in Nat \ {0}, Tokens[f].op = "function"
    PROVE  ~Returned(f, f + 1) /\ ~Early(f, f + 1)
<1>1. \A i \in f..((f + 1) - 1) : i = f
  OBVIOUS
<1>2. Tokens[f].op \notin Returns
  BY DEF Returns
<1> QED BY <1>1, <1>2 DEF Returned, Early

(* A position in a function is not behind its end.                         *)
LEMMA WithinBody ==
    ASSUME UnitOK, NoNesting, NEW fs, NEW p, Inside(fs, p), fs # <<>>
    PROVE  /\ fs[1].at \in Definitions /\ fs[1].at \in Nat \ {0} /\ Depth(fs[1].at) = 0
           /\ Tokens[fs[1].at].op = "function"
           /\ fs[1].at < p /\ p <= EndOf(fs[1].at) /\ EndOf(fs[1].at) \in Nat
           /\ \A j \in (fs[1].at + 1)..p : Depth(j) >= 1
<1> DEFINE f == fs[1].at
<1>1. fs \in Seq(Frame) /\ Entered(fs, p) /\ p \in 1..(Len(Tokens) + 1) /\ 1 \in 1..Len(fs)
  BY DEF Inside
<1>2. /\ f \in Positions /\ Tokens[f].op = fs[1].op /\ Depth(f) = 0 /\ f < p
      /\ fs[1].op \in Openers /\ \A j \in (f + 1)..p : Depth(j) >= 1
  BY <1>1, FrameFacts DEF Entered
<1>3. Tokens[f].op = "function"
  BY <1>2, ShapeFacts DEF Openers
<1>4. /\ EndOf(f) + 1 \in 1..(Len(Tokens) + 1) /\ Depth(EndOf(f) + 1) = 0
      /\ EndOf(f) \in Positions /\ f < EndOf(f)
  BY <1>2, <1>3, EndOfFunction
<1>5. f \in Nat \ {0} /\ p \in Nat /\ EndOf(f) \in Nat
  BY <1>1, <1>2, <1>4, TokenFacts
<1> HIDE DEF f
<1>6. p <= EndOf(f)
  <2> SUFFICES ASSUME EndOf(f) < p PROVE FALSE
    BY <1>5
  <2>1. EndOf(f) + 1 \in (f + 1)..p
    BY <1>4, <1>5
  <2> QED BY <1>2, <1>4, <2>1
<1> QED BY <1>2, <1>3, <1>5, <1>6 DEF Definitions, f

(* What the whole body looks like is settled at its end.                   *)
LEMMA EarlyStays ==
    ASSUME NEW f \in Nat, NEW p \in Nat, NEW e \in Nat, p <= e, Early(f, p)
    PROVE  Early(f, e)
<1>1. PICK i \in f..(p - 1) : /\ Tokens[i].op \in Returns
                              /\ \E j \in (i + 1)..(p - 1) : Tokens[j].op # "other"
  BY DEF Early
<1>2. PICK j \in (i + 1)..(p - 1) : Tokens[j].op # "other"
  BY <1>1
<1>3. i \in f..(e - 1) /\ j \in (i + 1)..(e - 1)
  OBVIOUS
<1> QED BY <1>1, <1>2, <1>3 DEF Early

LEMMA AtEnd ==
    ASSUME NEW f \in Nat, EndOf(f) \in Nat, f < EndOf(f), Tokens[EndOf(f)].op = "end"
    PROVE  /\ EarlyReturn(f) <=> Early(f, EndOf(f))
           /\ EndsInReturn(f) <=> Returned(f, EndOf(f))
<1> DEFINE e == EndOf(f)
<1>1. /\ \A i \in f..e : Tokens[i].op \in Returns => i \in f..(e - 1)
      /\ \A i \in f..(e - 1) : i \in f..e
  <2>1. Tokens[e].op \notin Returns
    BY DEF Returns
  <2>2. \A i \in f..e : i = e \/ i \in f..(e - 1)
    OBVIOUS
  <2>3. \A i \in f..(e - 1) : i \in f..e
    OBVIOUS
  <2> QED BY <2>1, <2>2, <2>3
<1> HIDE DEF e
<1>2. EarlyReturn(f) <=> Early(f, e)
  BY <1>1 DEF EarlyReturn, Early, e
<1>3. EndsInReturn(f) <=> Returned(f, e)
  BY <1>1 DEF EndsInReturn, Returned, e
<1> QED BY <1>2, <1>3 DEF e

LEMMA GoodSoFar ==
    ASSUME UnitOK, NoNesting, NEW fs, NEW p, Inside(fs, p), fs # <<>>, Good(fs[1].at)
    PROVE  ~Early(fs[1].at, p)
<1> DEFINE f == fs[1].at
<1>1. /\ f \in Nat /\ f \in Positions /\ Tokens[f].op = "function" /\ Depth(f) = 0
      /\ p <= EndOf(f) /\ EndOf(f) \in Nat /\ p \in Nat
  BY WithinBody, TokenFacts DEF Definitions, Inside
<1>2. f < EndOf(f) /\ Tokens[EndOf(f)].op = "end"
  BY <1>1, EndOfFunction
<1> HIDE DEF f
<1>3. ~Early(f, EndOf(f))
  BY <1>1, <1>2, AtEnd DEF Good, f
<1>4. ~Early(f, p)
  BY <1>1, <1>3, EarlyStays
<1> QED BY <1>4 DEF f

-----------------------------------------------------------------------------
(* What the builder does to the state of a block, and to no other block.   *)
Touches(bs, cs, b) ==
    /\ cs \in Seq(Block) /\ Len(cs) = Len(bs) /\ cs[b].fn = bs[b].fn
    /\ \A c \in 1..Len(bs) : c # b => cs[c] = bs[c]

Then(s, t) == IF s = "open" THEN t ELSE "broken"

LEMMA TouchOne ==
    ASSUME NEW bs \in Seq(Block), NEW b \in 1..Len(bs), NEW x \in Block, x.fn = bs[b].fn
    PROVE  Touches(bs, [bs EXCEPT ![b] = x], b) /\ [bs EXCEPT ![b] = x][b] = x
<1>1. [bs EXCEPT ![b] = x] \in Seq(Block) /\ Len([bs EXCEPT ![b] = x]) = Len(bs)
  BY ReplaceIn
<1>2. \A c \in 1..Len(bs) : [bs EXCEPT ![b] = x][c] = IF c = b THEN x ELSE bs[c]
  OBVIOUS
<1> QED BY <1>1, <1>2 DEF Touches

LEMMA EmitState ==
    ASSUME NEW bs \in Seq(Block), NEW b \in 1..Len(bs), NEW i \in Positions
    PROVE  /\ Touches(bs, Emit(bs, b, i), b)
           /\ Emit(bs, b, i)[b].state = Then(bs[b].state, "open")
<1> DEFINE y == bs[b]
           x == IF y.state = "open" THEN [y EXCEPT !.code = Append(bs[b].code, i)]
                ELSE [y EXCEPT !.state = "broken"]
<1>1. y \in Block /\ y.code \in Seq(Positions)
  <2>1. y \in Block
    OBVIOUS
  <2> QED BY <2>1 DEF Block
<1>2. Append(bs[b].code, i) \in Seq(Positions)
  BY <1>1, AppendFacts
<1>3. x \in Block /\ x.fn = bs[b].fn /\ x.state = Then(bs[b].state, "open")
  BY <1>1, <1>2 DEF Block, Then
<1>4. Emit(bs, b, i) = [bs EXCEPT ![b] = x]
  BY DEF Emit
<1> HIDE DEF x, y
<1>5. Touches(bs, [bs EXCEPT ![b] = x], b) /\ [bs EXCEPT ![b] = x][b] = x
  BY <1>3, TouchOne
<1> QED BY <1>3, <1>4, <1>5

LEMMA TerminateState ==
    ASSUME NEW bs \in Seq(Block), NEW b \in 1..Len(bs), NEW targets \in Seq(Nat)
    PROVE  /\ Touches(bs, Terminate(bs, b, targets), b)
           /\ Terminate(bs, b, targets)[b].state = Then(bs[b].state, "closed")
<1> DEFINE y == bs[b]
           x == IF y.state = "open" THEN [y EXCEPT !.next = targets, !.state = "closed"]
                ELSE [y EXCEPT !.state = "broken"]
<1>1. y \in Block
  OBVIOUS
<1>2. x \in Block /\ x.fn = bs[b].fn /\ x.state = Then(bs[b].state, "closed")
  BY <1>1 DEF Block, Then
<1>3. Terminate(bs, b, targets) = [bs EXCEPT ![b] = x]
  BY DEF Terminate
<1> HIDE DEF x, y
<1>4. Touches(bs, [bs EXCEPT ![b] = x], b) /\ [bs EXCEPT ![b] = x][b] = x
  BY <1>2, TouchOne
<1> QED BY <1>2, <1>3, <1>4

LEMMA TouchAgain ==
    ASSUME NEW bs \in Seq(Block), NEW cs, NEW ds, NEW b \in 1..Len(bs),
           Touches(bs, cs, b), Touches(cs, ds, b)
    PROVE  Touches(bs, ds, b)
BY DEF Touches

LEMMA EmitTerminate ==
    ASSUME NEW bs \in Seq(Block), NEW b \in 1..Len(bs), NEW i \in Positions,
           NEW targets \in Seq(Nat)
    PROVE  /\ Touches(bs, Terminate(Emit(bs, b, i), b, targets), b)
           /\ Terminate(Emit(bs, b, i), b, targets)[b].state = Then(bs[b].state, "closed")
<1> DEFINE cs == Emit(bs, b, i)
           ds == Terminate(cs, b, targets)
<1>1. Touches(bs, cs, b) /\ cs[b].state = Then(bs[b].state, "open")
  BY EmitState
<1> HIDE DEF cs
<1>2. cs \in Seq(Block) /\ b \in 1..Len(cs)
  BY <1>1 DEF Touches
<1>3. Touches(cs, ds, b) /\ ds[b].state = Then(cs[b].state, "closed")
  BY <1>2, TerminateState
<1> HIDE DEF ds
<1>4. Touches(bs, ds, b)
  BY <1>1, <1>3, TouchAgain
<1>5. ds[b].state = Then(bs[b].state, "closed")
  BY <1>1, <1>3 DEF Then
<1> QED BY <1>4, <1>5 DEF cs, ds

(* A return of the right kind.                                             *)
LEMMA ReturnState ==
    ASSUME blocks \in Seq(Block), at \in 1..Len(blocks), gpos \in Positions,
           NEW void, pool[Owner].void = void
    PROVE  /\ Touches(blocks, Return(blocks, void), at)
           /\ Return(blocks, void)[at].state = Then(blocks[at].state, "closed")
<1>1. Return(blocks, void) = Terminate(Emit(blocks, at, gpos), at, <<>>)
  BY DEF Return
<1>2. <<>> \in Seq(Nat)
  OBVIOUS
<1> QED BY <1>1, <1>2, EmitTerminate

LEMMA FreshState ==
    ASSUME blocks \in Seq(Block), NEW x \in 1..Len(blocks), NEW n \in Nat
    PROVE  /\ Fresh(blocks, x, n) \in Seq(Block) /\ Len(Fresh(blocks, x, n)) = Len(blocks) + n
           /\ \A b \in 1..Len(blocks) : Fresh(blocks, x, n)[b] = blocks[b]
           /\ \A b \in (Len(blocks) + 1)..(Len(blocks) + n) : Fresh(blocks, x, n)[b].state = "open"
<1> DEFINE y == NewBlock(blocks[x].fn)
           new == [k \in 1..n |-> y]
           cs == Fresh(blocks, x, n)
<1>1. y \in Block /\ y.state = "open"
  <2>1. blocks[x] \in Block
    OBVIOUS
  <2> QED BY <2>1 DEF NewBlock, Block
<1> HIDE DEF y
<1>2. new \in Seq(Block) /\ Len(new) = n /\ \A k \in 1..n : new[k] = y
  BY <1>1
<1>3. cs = blocks \o new
  BY DEF Fresh, y
<1> HIDE DEF new, cs
<1>4. /\ cs \in Seq(Block) /\ Len(cs) = Len(blocks) + n
      /\ \A b \in 1..Len(blocks) : cs[b] = blocks[b]
      /\ \A b \in (Len(blocks) + 1)..(Len(blocks) + n) : cs[b] = new[b - Len(blocks)]
  BY <1>2, <1>3, Joined
<1>5. \A b \in (Len(blocks) + 1)..(Len(blocks) + n) : cs[b] = y
  BY <1>2, <1>4
<1> QED BY <1>1, <1>4, <1>5 DEF cs

-----------------------------------------------------------------------------
(* The blocks that visits in progress wait for belong to the function.     *)
LEMMA WaitsOwned ==
    ASSUME NEW fs, NEW bs, NEW a, Owned(fs, bs, a), fs # <<>>
    PROVE  /\ \A k \in 2..Len(fs) : \A b : Waits(fs, k, b) => Holds(bs, Home(fs), b)
           /\ \A b : Lives(fs, a, b) => Holds(bs, Home(fs), b)
BY DEF Owned, Waits, Lives

LEMMA OneDefinition ==
    ASSUME UnitOK, NoNesting, NEW f \in Definitions, NEW g \in Definitions,
           Tokens[f].sig.key = Tokens[g].sig.key
    PROVE  f = g
<1>1. /\ f \in {k \in DOMAIN Tokens : Tokens[k].op = "function" /\ DepthIn(Tokens, k) = 0}
      /\ g \in {k \in DOMAIN Tokens : Tokens[k].op = "function" /\ DepthIn(Tokens, k) = 0}
  BY DEF Definitions, Positions, NoNesting, Depth
<1> QED BY <1>1, ShapeFacts DEF DefinedOnce

(* One token of a function further: finished blocks stay as they are, the  *)
(* block at the insertion point is closed when it is left.                 *)
LEMMA Proceeds ==
    ASSUME UnitOK, NoNesting, NEW p \in Positions, Tokens[p].op # "other",
           NEW fs, NEW gs, Inside(fs, p), Inside(gs, p + 1), fs # <<>>, gs # <<>>,
           gs[1].at = fs[1].at, gs[1].back = fs[1].back,
           NEW bs, NEW cs, NEW a, NEW c, Owned(fs, bs, a), Grown(bs, cs),
           Verified(fs, p, bs, a), Apart(gs, c), Untouched(gs, cs),
           \A b \in 1..Len(bs) : ~Lives(fs, a, b) => cs[b].state = bs[b].state,
           \A b \in 1..Len(bs) : Lives(fs, a, b) /\ ~Lives(gs, c, b) /\ bs[b].state = "open" =>
               cs[b].state = "closed",
           \A b \in (Len(bs) + 1)..Len(cs) : Lives(gs, c, b) \/ cs[b].state = "closed",
           bs[a].state = "open" =>
               cs[c].state = IF Tokens[p].op \in Returns THEN "closed" ELSE "open",
           bs[a].state # "open" => cs[a].state = "broken"
    PROVE  Verified(gs, p + 1, cs, c)
<1> DEFINE f == fs[1].at
<1>1. /\ f \in Definitions /\ f \in Nat \ {0} /\ f < p /\ p \in Nat /\ Home(gs) = Home(fs)
      /\ Home(fs) = Tokens[f].sig.key
  BY WithinBody, TokenFacts DEF Home
<1>2. /\ Returned(f, p + 1) <=> Tokens[p].op \in Returns
      /\ Early(f, p + 1) <=> Early(f, p) \/ Returned(f, p)
  BY <1>1, ReturnedNext
<1>3. /\ bs \in Seq(Block) /\ Len(bs) \in Nat /\ a \in 1..Len(bs) /\ bs[a].fn = Home(fs)
      /\ cs \in Seq(Block) /\ Len(cs) \in Nat /\ Len(bs) <= Len(cs)
      /\ \A b \in 1..Len(bs) : b \in 1..Len(cs) /\ cs[b].fn = bs[b].fn
      /\ \A b \in 1..Len(cs) : b \in 1..Len(bs) \/ b \in (Len(bs) + 1)..Len(cs)
  BY DEF Owned, Grown, Holds
<1>4. \A k \in 2..Len(fs) : \A b : Waits(fs, k, b) => bs[b].state = "open"
  BY DEF Verified, Untouched
<1>5. /\ ~Early(f, p) => bs[a].state = IF Returned(f, p) THEN "closed" ELSE "open"
      /\ Early(f, p) => \E b \in 1..Len(bs) : bs[b].fn = Home(fs) /\ bs[b].state = "broken"
  BY DEF Verified, AtPoint
<1>6. ~Early(f, p + 1) => bs[a].state = "open"
  BY <1>2, <1>5
<1> HIDE DEF f
<1>7. AtPoint(gs, p + 1, cs, c)
  <2>1. ASSUME ~Early(f, p + 1)
        PROVE  cs[c].state = IF Returned(f, p + 1) THEN "closed" ELSE "open"
    BY <1>2, <1>6, <2>1
  <2>2. ASSUME Early(f, p)
        PROVE  \E b \in 1..Len(cs) : cs[b].fn = Home(gs) /\ cs[b].state = "broken"
    <3>1. PICK b \in 1..Len(bs) : bs[b].fn = Home(fs) /\ bs[b].state = "broken"
      BY <1>5, <2>2
    <3>2. CASE b = a
      BY <1>1, <1>3, <3>1, <3>2
    <3>3. CASE b # a
      <4>1. ~Lives(fs, a, b)
        BY <1>4, <3>1, <3>3 DEF Lives
      <4> QED BY <1>1, <1>3, <3>1, <4>1
    <3> QED BY <3>2, <3>3
  <2>3. ASSUME ~Early(f, p), Returned(f, p)
        PROVE  \E b \in 1..Len(cs) : cs[b].fn = Home(gs) /\ cs[b].state = "broken"
    <3>1. cs[a].state = "broken"
      BY <1>5, <2>3
    <3> QED BY <1>1, <1>3, <3>1
  <2>4. gs[1].at = f
    BY DEF f
  <2> QED BY <1>2, <2>1, <2>2, <2>3, <2>4 DEF AtPoint
<1>8. Settled(gs, cs, c)
  <2> SUFFICES ASSUME NEW b \in 1..Len(cs), NEW g \in Definitions,
                      cs[b].fn = Tokens[g].sig.key, Good(g), ~Lives(gs, c, b)
               PROVE  cs[b].state = "closed"
    BY DEF Settled
  <2>1. CASE b \in (Len(bs) + 1)..Len(cs)
    BY <2>1
  <2>2. CASE b \in 1..Len(bs) /\ ~Lives(fs, a, b)
    <3>1. bs[b].state = "closed"
      BY <1>3, <2>2 DEF Verified, Settled
    <3> QED BY <2>2, <3>1
  <2>3. CASE b \in 1..Len(bs) /\ Lives(fs, a, b)
    <3>1. ASSUME b = a PROVE bs[b].state = "open"
      <4>1. g = f
        BY <1>1, <1>3, <3>1, OneDefinition
      <4>2. ~Early(gs[1].at, p + 1)
        BY <4>1, GoodSoFar DEF f
      <4> QED BY <1>6, <3>1, <4>2 DEF f
    <3>2. ASSUME b # a PROVE bs[b].state = "open"
      BY <1>4, <2>3, <3>2 DEF Lives
    <3> QED BY <2>3, <3>1, <3>2
  <2> QED BY <1>3, <2>1, <2>2, <2>3
<1>9. Refused(gs, p + 1, cs)
  <2> SUFFICES ASSUME NEW g \in Definitions, g < Reached(gs, p + 1),
                      gs # <<>> => g # gs[1].at, ~Good(g)
               PROVE  \E b \in 1..Len(cs) : cs[b].fn = Tokens[g].sig.key /\ cs[b].state # "closed"
    BY DEF Refused
  <2>1. g < Reached(fs, p) /\ g # f
    BY DEF Reached, f
  <2>2. PICK b \in 1..Len(bs) : bs[b].fn = Tokens[g].sig.key /\ bs[b].state # "closed"
    BY <2>1 DEF Verified, Refused, f
  <2>3. bs[b].fn # Home(fs)
    BY <1>1, <2>1, <2>2, OneDefinition
  <2>4. ~Lives(fs, a, b)
    BY <2>3, WaitsOwned DEF Holds
  <2> QED BY <1>3, <2>2, <2>4
<1> QED BY <1>7, <1>8, <1>9 DEF Verified

(* A token that emits nothing.                                             *)
LEMMA PassesBy ==
    ASSUME UnitOK, NoNesting, NEW p \in Positions, Tokens[p].op \in {"other", "forward"},
           NEW fs, Inside(fs, p), NEW bs, NEW a, Verified(fs, p, bs, a),
           Tokens[p].op = "forward" => fs = <<>>
    PROVE  Verified(fs, p + 1, bs, a)
<1>1. p \in Nat /\ p \notin Definitions /\ Definitions \subseteq Nat
  BY TokenFacts DEF Definitions
<1>2. AtPoint(fs, p + 1, bs, a)
  <2> SUFFICES ASSUME fs # <<>> PROVE AtPoint(fs, p + 1, bs, a)
    BY DEF AtPoint
  <2>1. fs[1].at \in Nat \ {0} /\ fs[1].at < p
    BY WithinBody
  <2>2. Tokens[p].op = "other" /\ Tokens[p].op \notin Returns
    BY DEF Returns
  <2>3. /\ Returned(fs[1].at, p + 1) <=> Returned(fs[1].at, p)
        /\ Early(fs[1].at, p + 1) <=> Early(fs[1].at, p)
    BY <1>1, <2>1, <2>2, ReturnedNext
  <2> QED BY <2>3 DEF Verified, AtPoint
<1>3. Refused(fs, p + 1, bs)
  <2>1. \A g \in Definitions : g < Reached(fs, p + 1) => g < Reached(fs, p)
    BY <1>1 DEF Reached
  <2> QED BY <2>1 DEF Verified, Refused
<1> QED BY <1>2, <1>3 DEF Verified

LEMMA TouchGrows ==
    ASSUME NEW bs \in Seq(Block), NEW b \in 1..Len(bs), NEW cs, Touches(bs, cs, b)
    PROVE  Grown(bs, cs)
<1>1. \A c \in 1..Len(bs) : cs[c].fn = bs[c].fn
  BY DEF Touches
<1>2. Len(bs) <= Len(cs)
  <2>1. Len(cs) = Len(bs) /\ Len(bs) \in Nat
    BY DEF Touches
  <2> QED BY <2>1
<1> QED BY <1>1, <1>2 DEF Grown, Touches

(* A statement without blocks of its own.                                  *)
LEMMA VerifiedSimple ==
    ASSUME UnitOK, NoNesting, Stands(frames, gpos, blocks, at), gpos \in Positions,
           Verified(frames, gpos, blocks, at), GenDeclare \/ GenEvaluate \/ GenReturn,
           GenReturn => \E void : /\ blocks' = Return(blocks, void) /\ pool[Owner].void = void
    PROVE  Verified(frames, gpos + 1, blocks', at)
<1> DEFINE fs == frames
           bs == blocks
           cs == blocks'
           a == at
           p == gpos
<1>1. Tokens[p].op \in {"declare", "evaluate"} \cup Returns
  BY DEF GenDeclare, GenEvaluate, GenReturn, Emitting
<1>2. Tokens[p].op \notin {"function", "forward", "other"} \cup Openers \cup {"end"}
  BY <1>1 DEF Returns, Openers
<1>3. /\ fs # <<>> /\ bs \in Seq(Block) /\ a \in 1..Len(bs) /\ Len(bs) \in Nat
      /\ Owned(fs, bs, a)
  BY <1>2, StandsFacts DEF Stands
<1>4. Inside(fs, p) /\ Inside(fs, p + 1)
  BY <1>2, InsidePlain DEF Stands
<1>5. /\ Touches(bs, cs, a)
      /\ cs[a].state = Then(bs[a].state, IF Tokens[p].op \in Returns THEN "closed" ELSE "open")
  <2>1. CASE GenDeclare \/ GenEvaluate
    <3>1. cs = Emit(bs, a, p) /\ Tokens[p].op \notin Returns
      BY <2>1 DEF GenDeclare, GenEvaluate, Emitting, Returns
    <3> QED BY <1>3, <3>1, EmitState
  <2>2. CASE GenReturn
    <3>1. PICK void : cs = Return(bs, void) /\ pool[Owner].void = void
      BY <2>2
    <3>2. Tokens[p].op \in Returns
      BY <2>2 DEF GenReturn, Emitting
    <3> QED BY <1>3, <3>1, <3>2, ReturnState
  <2> QED BY <2>1, <2>2
<1>6. Grown(bs, cs) /\ Len(cs) = Len(bs) /\ \A b \in 1..Len(bs) : b # a => cs[b] = bs[b]
  BY <1>3, <1>5, TouchGrows DEF Touches
<1> HIDE DEF fs, bs, cs, a, p
<1>7. Apart(fs, a)
  BY DEF Verified, fs, a, p, bs
<1>8. Untouched(fs, cs)
  <2> SUFFICES ASSUME NEW k \in 2..Len(fs), NEW b, Waits(fs, k, b) PROVE cs[b].state = "open"
    BY DEF Untouched
  <2>1. b # a /\ bs[b].state = "open"
    BY <1>3, <1>7 DEF Verified, Untouched, Apart, fs, a, p, bs
  <2>2. b \in 1..Len(bs)
    BY <1>3, WaitsOwned DEF Holds
  <2> QED BY <1>6, <2>1, <2>2
<1>9. \A b \in 1..Len(bs) : ~Lives(fs, a, b) => cs[b].state = bs[b].state
  BY <1>3, <1>6 DEF Lives
<1>10. \A b \in (Len(bs) + 1)..Len(cs) : FALSE
  BY <1>3, <1>6
<1>11. /\ bs[a].state = "open" =>
            cs[a].state = IF Tokens[p].op \in Returns THEN "closed" ELSE "open"
       /\ bs[a].state # "open" => cs[a].state = "broken"
  BY <1>5 DEF Then
<1>12. /\ p \in Positions /\ Tokens[p].op # "other" /\ Verified(fs, p, bs, a)
  BY <1>2 DEF fs, bs, a, p
<1>13. Verified(fs, p + 1, cs, a)
  BY <1>3, <1>4, <1>6, <1>7, <1>8, <1>9, <1>10, <1>11, <1>12, Proceeds
<1> QED BY <1>13 DEF fs, cs, a, p

(* A visit that begins: it waits for new blocks.                           *)
LEMMA ApartPush ==
    ASSUME NEW fs \in Seq(Frame), fs # <<>>, NEW bs, NEW a, Owned(fs, bs, a), Apart(fs, a),
           NEW fr \in Frame, NEW c \in Nat, Len(bs) < c, Len(bs) < fr.join, c # fr.join,
           fr.op = "if" => Len(bs) < fr.other /\ fr.other # fr.join /\ c # fr.other
    PROVE  /\ Apart(Append(fs, fr), c)
           /\ \A k \in 2..Len(fs) : \A b : Waits(Append(fs, fr), k, b) <=> Waits(fs, k, b)
           /\ \A b : Waits(Append(fs, fr), Len(fs) + 1, b) <=>
                        b = fr.join \/ (fr.op = "if" /\ b = fr.other)
           /\ Len(Append(fs, fr)) = Len(fs) + 1 /\ Len(fs) + 1 \in 2..(Len(fs) + 1)
           /\ \A k \in 2..(Len(fs) + 1) : k \in 2..Len(fs) \/ k = Len(fs) + 1
<1> DEFINE gs == Append(fs, fr)
           n == Len(fs)
<1>1. /\ gs \in Seq(Frame) /\ Len(gs) = n + 1 /\ gs # <<>> /\ gs[n + 1] = fr
      /\ \A k \in 1..n : gs[k] = fs[k]
  BY AppendFacts
<1>2. /\ n \in Nat \ {0} /\ n + 1 \in 2..(n + 1)
      /\ \A k \in 2..(n + 1) : k \in 2..n \/ k = n + 1
      /\ \A k \in 2..n : k \in 1..n /\ k # n + 1
  OBVIOUS
<1>3. bs \in Seq(Block) /\ Len(bs) \in Nat /\ fr.join \in Nat /\ fr.other \in Nat
  BY DEF Owned, Frame
<1> HIDE DEF gs, n
<1>4. \A k \in 2..n : \A b : Waits(gs, k, b) <=> Waits(fs, k, b)
  BY <1>1, <1>2 DEF Waits
<1>5. \A b : Waits(gs, n + 1, b) <=> b = fr.join \/ (fr.op = "if" /\ b = fr.other)
  <2>1. fr.op = "if" => fr.other # 0
    BY <1>3
  <2> QED BY <1>1, <2>1 DEF Waits
<1>6. \A k \in 2..n : \A b : Waits(fs, k, b) => b \in 1..Len(bs)
  BY WaitsOwned DEF Holds, n
<1>7. \A b : Waits(gs, n + 1, b) => b \in Nat /\ Len(bs) < b /\ b # c
  BY <1>3, <1>5
<1>8. \A k \in 2..n : \A b : Waits(fs, k, b) => b # c /\ ~Waits(gs, n + 1, b)
  BY <1>3, <1>6, <1>7
<1>9. \A k \in 2..(n + 1) : ~Waits(gs, k, c)
  BY <1>2, <1>4, <1>7, <1>8
<1>10. \A k \in 2..(n + 1) : gs[k].op = "if" => gs[k].other # gs[k].join
  BY <1>1, <1>2 DEF Apart, n
<1>11. \A k, l \in 2..(n + 1) : \A b : Waits(gs, k, b) /\ Waits(gs, l, b) => k = l
  <2> SUFFICES ASSUME NEW k \in 2..(n + 1), NEW l \in 2..(n + 1), NEW b,
                      Waits(gs, k, b), Waits(gs, l, b)
               PROVE  k = l
    OBVIOUS
  <2>1. CASE k \in 2..n /\ l \in 2..n
    <3>1. Waits(fs, k, b) /\ Waits(fs, l, b)
      BY <1>4, <2>1
    <3> QED BY <2>1, <3>1 DEF Apart, n
  <2>2. CASE k = n + 1 /\ l \in 2..n
    BY <1>4, <1>8, <2>2
  <2>3. CASE l = n + 1 /\ k \in 2..n
    BY <1>4, <1>8, <2>3
  <2> QED BY <1>2, <2>1, <2>2, <2>3
<1>12. Apart(gs, c)
  BY <1>1, <1>9, <1>10, <1>11 DEF Apart
<1> QED BY <1>1, <1>2, <1>4, <1>5, <1>12 DEF gs, n

LEMMA VerifiedPush ==
    ASSUME UnitOK, NoNesting, NEW p \in Positions, Tokens[p].op \in {"if", "while"},
           NEW fs \in Seq(Frame), fs # <<>>, Inside(fs, p),
           NEW bs, NEW cs, NEW a, NEW c \in Nat, Owned(fs, bs, a), Verified(fs, p, bs, a),
           NEW fr \in Frame, Inside(Append(fs, fr), p + 1), Grown(bs, cs),
           Len(bs) < c, Len(bs) < fr.join, c # fr.join,
           fr.op = "if" => Len(bs) < fr.other /\ fr.other # fr.join /\ c # fr.other,
           \A b \in 1..Len(bs) : b # a => cs[b] = bs[b],
           cs[a].state = Then(bs[a].state, "closed"),
           cs[c].state = "open", cs[fr.join].state = "open",
           fr.op = "if" => cs[fr.other].state = "open",
           \A b \in (Len(bs) + 1)..Len(cs) :
               \/ b = c \/ b = fr.join \/ (fr.op = "if" /\ b = fr.other)
               \/ cs[b].state = "closed"
    PROVE  Verified(Append(fs, fr), p + 1, cs, c)
<1> DEFINE gs == Append(fs, fr)
           n == Len(fs)
<1>1. bs \in Seq(Block) /\ Len(bs) \in Nat /\ a \in 1..Len(bs)
  BY DEF Owned, Holds
<1>2. Apart(fs, a) /\ Untouched(fs, bs)
  BY DEF Verified
<1>3. /\ Apart(gs, c)
      /\ \A k \in 2..n : \A b : Waits(gs, k, b) <=> Waits(fs, k, b)
      /\ \A b : Waits(gs, n + 1, b) <=> b = fr.join \/ (fr.op = "if" /\ b = fr.other)
      /\ Len(gs) = n + 1 /\ n + 1 \in 2..(n + 1)
      /\ \A k \in 2..(n + 1) : k \in 2..n \/ k = n + 1
  BY <1>2, ApartPush
<1>4. gs # <<>> /\ gs[1] = fs[1] /\ n \in Nat \ {0}
  <2>1. gs # <<>> /\ \A k \in 1..n : gs[k] = fs[k]
    BY AppendFacts
  <2>2. n \in Nat \ {0} /\ 1 \in 1..n
    OBVIOUS
  <2> QED BY <2>1, <2>2
<1> HIDE DEF gs
<1>5. Untouched(gs, cs)
  <2> SUFFICES ASSUME NEW k \in 2..(n + 1), NEW b, Waits(gs, k, b) PROVE cs[b].state = "open"
    BY <1>3 DEF Untouched
  <2>1. CASE k \in 2..n
    <3>1. Waits(fs, k, b) /\ b # a
      BY <1>2, <1>3, <2>1 DEF Apart
    <3>2. bs[b].state = "open" /\ b \in 1..Len(bs)
      BY <1>2, <2>1, <3>1, WaitsOwned DEF Untouched, Holds
    <3> QED BY <3>1, <3>2
  <2>2. CASE k = n + 1
    BY <1>3, <2>2
  <2> QED BY <1>3, <2>1, <2>2
<1>6. \A b : Lives(gs, c, b) <=> \/ b = c \/ b = fr.join \/ (fr.op = "if" /\ b = fr.other)
                                 \/ \E k \in 2..n : Waits(fs, k, b)
  <2>1. \A k \in 2..n : k \in 2..(n + 1)
    BY <1>4
  <2>2. \A b : Lives(gs, c, b) <=> b = c \/ \E k \in 2..(n + 1) : Waits(gs, k, b)
    BY <1>3, <1>4 DEF Lives
  <2> QED BY <1>3, <2>1, <2>2
<1>7. \A b : Lives(fs, a, b) <=> b = a \/ \E k \in 2..n : Waits(fs, k, b)
  BY DEF Lives
<1>8. \A b \in 1..Len(bs) : ~Lives(fs, a, b) => cs[b].state = bs[b].state
  BY <1>7
<1>9. \A b \in 1..Len(bs) : Lives(fs, a, b) /\ ~Lives(gs, c, b) /\ bs[b].state = "open" =>
          cs[b].state = "closed"
  BY <1>6, <1>7 DEF Then
<1>10. \A b \in (Len(bs) + 1)..Len(cs) : Lives(gs, c, b) \/ cs[b].state = "closed"
  BY <1>6
<1>11. /\ Tokens[p].op \notin Returns /\ Tokens[p].op # "other"
       /\ bs[a].state # "open" => cs[a].state = "broken"
  BY DEF Then, Returns
<1>12. Inside(gs, p + 1) /\ gs[1].at = fs[1].at /\ gs[1].back = fs[1].back
  BY <1>4 DEF gs
<1>13. bs[a].state = "open" =>
          cs[c].state = IF Tokens[p].op \in Returns THEN "closed" ELSE "open"
  BY <1>11
<1>14. Verified(gs, p + 1, cs, c)
  BY <1>3, <1>4, <1>5, <1>8, <1>9, <1>10, <1>11, <1>12, <1>13, Proceeds
<1> QED BY <1>14 DEF gs

LEMMA VerifiedIf ==
    ASSUME UnitOK, NoNesting, Stands(frames, gpos, blocks, at), gpos \in Positions, GenIf,
           Verified(frames, gpos, blocks, at)
    PROVE  Verified(frames', gpos', blocks', at')
<1> DEFINE n == Len(blocks)
           fr == [op |-> "if", at |-> gpos, back |-> 0, join |-> n + 1, other |-> n + 3]
           fresh == Fresh(blocks, at, 3)
<1>1. /\ Tokens[gpos].op = "if" /\ gpos' = gpos + 1
      /\ blocks' = Terminate(Emit(fresh, at, gpos), at, <<n + 2, n + 3>>)
      /\ frames' = Append(frames, fr) /\ at' = n + 2
  BY DEF GenIf, Emitting, Advance
<1>2. /\ frames \in Seq(Frame) /\ frames # <<>> /\ blocks \in Seq(Block)
      /\ at \in 1..n /\ n \in Nat /\ Inside(frames, gpos) /\ Owned(frames, blocks, at)
  BY <1>1, StandsFacts DEF Stands
<1>3. /\ fresh \in Seq(Block) /\ Len(fresh) = n + 3 /\ at \in 1..Len(fresh)
      /\ \A b \in 1..n : fresh[b] = blocks[b]
      /\ \A b \in (n + 1)..(n + 3) : fresh[b].state = "open"
  <2>1. /\ fresh \in Seq(Block) /\ Len(fresh) = n + 3
        /\ \A b \in 1..n : fresh[b] = blocks[b]
        /\ \A b \in (n + 1)..(n + 3) : fresh[b].state = "open"
    <3>1. 3 \in Nat
      OBVIOUS
    <3> QED BY <1>2, <3>1, FreshState
  <2> HIDE DEF fresh
  <2> QED BY <1>2, <2>1
<1>4. Inside(frames', gpos')
  BY StandsIf DEF Stands
<1> HIDE DEF fresh
<1>5. /\ Touches(fresh, blocks', at)
      /\ blocks'[at].state = Then(fresh[at].state, "closed")
  <2>1. <<n + 2, n + 3>> \in Seq(Nat)
    BY <1>2
  <2> QED BY <1>1, <1>3, <2>1, EmitTerminate
<1>6. /\ blocks' \in Seq(Block) /\ Len(blocks') = n + 3
      /\ \A b \in 1..n : b # at => blocks'[b] = blocks[b]
      /\ \A b \in (n + 1)..(n + 3) : blocks'[b].state = "open"
      /\ blocks'[at].state = Then(blocks[at].state, "closed")
      /\ blocks'[at].fn = blocks[at].fn
  <2>1. /\ \A b \in 1..n : b \in 1..Len(fresh)
        /\ \A b \in (n + 1)..(n + 3) : b \in 1..Len(fresh) /\ b # at
    BY <1>2, <1>3
  <2> QED BY <1>2, <1>3, <1>5, <2>1 DEF Touches
<1>7. Grown(blocks, blocks')
  BY <1>2, <1>6 DEF Grown
<1>8. fr \in Frame /\ fr.op = "if" /\ fr.other = n + 3 /\ fr.join = n + 1
  BY <1>2 DEF Frame, Openers
<1> HIDE DEF fr, n
<1>9. /\ n + 1 \in (n + 1)..(n + 3) /\ n + 2 \in (n + 1)..(n + 3) /\ n + 3 \in (n + 1)..(n + 3)
      /\ n + 2 \in Nat /\ n < n + 1 /\ n < n + 2 /\ n < n + 3
      /\ n + 1 # n + 2 /\ n + 1 # n + 3 /\ n + 2 # n + 3
      /\ \A b \in (n + 1)..(n + 3) : b = n + 1 \/ b = n + 2 \/ b = n + 3
  BY <1>2
<1>10. Verified(Append(frames, fr), gpos + 1, blocks', n + 2)
  <2>1. /\ Tokens[gpos].op \in {"if", "while"} /\ Inside(Append(frames, fr), gpos + 1)
        /\ Len(blocks) < n + 2 /\ Len(blocks) < fr.join /\ n + 2 # fr.join
        /\ Len(blocks) < fr.other /\ fr.other # fr.join /\ n + 2 # fr.other
    BY <1>1, <1>4, <1>8, <1>9 DEF n
  <2>2. /\ blocks'[n + 2].state = "open" /\ blocks'[fr.join].state = "open"
        /\ blocks'[fr.other].state = "open"
        /\ \A b \in 1..Len(blocks) : b # at => blocks'[b] = blocks[b]
        /\ blocks'[at].state = Then(blocks[at].state, "closed")
    BY <1>6, <1>8, <1>9 DEF n
  <2>3. \A b \in (Len(blocks) + 1)..Len(blocks') :
           b = n + 2 \/ b = fr.join \/ (fr.op = "if" /\ b = fr.other)
    BY <1>6, <1>8, <1>9 DEF n
  <2> QED BY <1>2, <1>7, <1>8, <1>9, <2>1, <2>2, <2>3, VerifiedPush
<1> QED BY <1>1, <1>10

LEMMA VerifiedWhile ==
    ASSUME UnitOK, NoNesting, Stands(frames, gpos, blocks, at), gpos \in Positions, GenWhile,
           Verified(frames, gpos, blocks, at)
    PROVE  Verified(frames', gpos', blocks', at')
<1> DEFINE n == Len(blocks)
           fr == [op |-> "while", at |-> gpos, back |-> 0, join |-> n + 3, other |-> n + 1]
           fresh == Fresh(blocks, at, 3)
           entered == Terminate(fresh, at, <<n + 1>>)
<1>1. /\ Tokens[gpos].op = "while" /\ gpos' = gpos + 1
      /\ blocks' = Terminate(Emit(entered, n + 1, gpos), n + 1, <<n + 2, n + 3>>)
      /\ frames' = Append(frames, fr) /\ at' = n + 2
  BY DEF GenWhile, Emitting, Advance
<1>2. /\ frames \in Seq(Frame) /\ frames # <<>> /\ blocks \in Seq(Block)
      /\ at \in 1..n /\ n \in Nat /\ Inside(frames, gpos) /\ Owned(frames, blocks, at)
  BY <1>1, StandsFacts DEF Stands
<1>3. /\ fresh \in Seq(Block) /\ Len(fresh) = n + 3 /\ at \in 1..Len(fresh)
      /\ \A b \in 1..n : fresh[b] = blocks[b]
      /\ \A b \in (n + 1)..(n + 3) : fresh[b].state = "open"
  <2>1. /\ fresh \in Seq(Block) /\ Len(fresh) = n + 3
        /\ \A b \in 1..n : fresh[b] = blocks[b]
        /\ \A b \in (n + 1)..(n + 3) : fresh[b].state = "open"
    <3>1. 3 \in Nat
      OBVIOUS
    <3> QED BY <1>2, <3>1, FreshState
  <2> HIDE DEF fresh
  <2> QED BY <1>2, <2>1
<1>4. Inside(frames', gpos')
  BY StandsWhile DEF Stands
<1> HIDE DEF fresh
<1>5. Touches(fresh, entered, at) /\ entered[at].state = Then(fresh[at].state, "closed")
  <2>1. <<n + 1>> \in Seq(Nat)
    BY <1>2
  <2> QED BY <1>3, <2>1, TerminateState
<1> HIDE DEF entered
<1>6. /\ entered \in Seq(Block) /\ Len(entered) = n + 3 /\ n + 1 \in 1..Len(entered)
      /\ \A b \in 1..n : b # at => entered[b] = blocks[b]
      /\ \A b \in (n + 1)..(n + 3) : entered[b].state = "open"
      /\ entered[at].state = Then(blocks[at].state, "closed")
      /\ entered[at].fn = blocks[at].fn
  <2>1. /\ \A b \in 1..n : b \in 1..Len(fresh)
        /\ \A b \in (n + 1)..(n + 3) : b \in 1..Len(fresh) /\ b # at
        /\ n + 1 \in 1..Len(fresh)
    BY <1>2, <1>3
  <2> QED BY <1>2, <1>3, <1>5, <2>1 DEF Touches
<1>7. Touches(entered, blocks', n + 1) /\ blocks'[n + 1].state = Then(entered[n + 1].state, "closed")
  <2>1. <<n + 2, n + 3>> \in Seq(Nat)
    BY <1>2
  <2> QED BY <1>1, <1>6, <2>1, EmitTerminate
<1> HIDE DEF n
<1>8. /\ n + 1 \in (n + 1)..(n + 3) /\ n + 2 \in (n + 1)..(n + 3) /\ n + 3 \in (n + 1)..(n + 3)
      /\ n + 2 \in Nat /\ n < n + 1 /\ n < n + 2 /\ n < n + 3
      /\ n + 1 # n + 2 /\ n + 1 # n + 3 /\ n + 2 # n + 3
      /\ \A b \in (n + 1)..(n + 3) : b = n + 1 \/ b = n + 2 \/ b = n + 3
      /\ \A b \in 1..n : b \in 1..(n + 3) /\ b # n + 1
      /\ n + 2 \in 1..(n + 3) /\ n + 3 \in 1..(n + 3)
  BY <1>2
<1>9. /\ blocks' \in Seq(Block) /\ Len(blocks') = n + 3
      /\ \A b \in 1..n : blocks'[b] = entered[b]
      /\ blocks'[n + 2].state = "open" /\ blocks'[n + 3].state = "open"
      /\ blocks'[n + 1].state = "closed"
  <2>1. \A b \in 1..(n + 3) : b # n + 1 => blocks'[b] = entered[b]
    BY <1>6, <1>7 DEF Touches
  <2>2. entered[n + 1].state = "open"
    BY <1>6, <1>8
  <2>3. blocks'[n + 1].state = "closed"
    BY <1>7, <2>2 DEF Then
  <2> QED BY <1>6, <1>7, <1>8, <2>1, <2>3 DEF Touches
<1>10. /\ \A b \in 1..n : b # at => blocks'[b] = blocks[b]
       /\ blocks'[at].state = Then(blocks[at].state, "closed")
       /\ blocks'[at].fn = blocks[at].fn
  BY <1>2, <1>6, <1>9
<1>11. Grown(blocks, blocks')
  <2>1. \A b \in 1..n : blocks'[b].fn = blocks[b].fn
    BY <1>10
  <2>2. n <= n + 3
    BY <1>2
  <2> QED BY <1>9, <2>1, <2>2 DEF Grown, n
<1>12. fr \in Frame /\ fr.op = "while" /\ fr.other = n + 1 /\ fr.join = n + 3
  BY <1>2 DEF Frame, Openers
<1> HIDE DEF fr
<1>13. Verified(Append(frames, fr), gpos + 1, blocks', n + 2)
  <2>1. /\ Tokens[gpos].op \in {"if", "while"} /\ Inside(Append(frames, fr), gpos + 1)
        /\ Len(blocks) < n + 2 /\ Len(blocks) < fr.join /\ n + 2 # fr.join
        /\ fr.op # "if"
    BY <1>1, <1>4, <1>8, <1>12 DEF n
  <2>2. /\ blocks'[n + 2].state = "open" /\ blocks'[fr.join].state = "open"
        /\ \A b \in 1..Len(blocks) : b # at => blocks'[b] = blocks[b]
        /\ blocks'[at].state = Then(blocks[at].state, "closed")
    BY <1>9, <1>10, <1>12 DEF n
  <2>3. \A b \in (Len(blocks) + 1)..Len(blocks') :
           b = n + 2 \/ b = fr.join \/ blocks'[b].state = "closed"
    BY <1>8, <1>9, <1>12 DEF n
  <2> QED BY <1>2, <1>8, <1>11, <1>12, <2>1, <2>2, <2>3, VerifiedPush
<1> QED BY <1>1, <1>13

(* A visit that goes on with its next clause, in the block for the failed  *)
(* condition of the one before.                                            *)
LEMMA VerifiedClause ==
    ASSUME UnitOK, NoNesting, NEW p \in Positions, Tokens[p].op \in Clauses,
           NEW fs \in Seq(Frame), fs # <<>>, Inside(fs, p), ElseSeen(fs, p),
           NEW bs, NEW cs, NEW a, NEW c \in Nat, Owned(fs, bs, a), Verified(fs, p, bs, a),
           NEW o \in Nat, Inside([fs EXCEPT ![Len(fs)].other = o], p + 1), Grown(bs, cs),
           o = 0 \/ Len(bs) < o, c # o, c = fs[Len(fs)].other \/ Len(bs) < c,
           \A b \in 1..Len(bs) : b # a /\ b # fs[Len(fs)].other => cs[b] = bs[b],
           cs[a].state = Then(bs[a].state, "closed"),
           c # fs[Len(fs)].other => cs[fs[Len(fs)].other].state = "closed",
           cs[c].state = "open", o # 0 => cs[o].state = "open",
           \A b \in (Len(bs) + 1)..Len(cs) : b = c \/ b = o
    PROVE  Verified([fs EXCEPT ![Len(fs)].other = o], p + 1, cs, c)
<1> DEFINE gs == [fs EXCEPT ![Len(fs)].other = o]
           l == Len(fs)
           x == fs[l]
<1>1. bs \in Seq(Block) /\ Len(bs) \in Nat /\ a \in 1..Len(bs)
  BY DEF Owned, Holds
<1>2. Apart(fs, a) /\ Untouched(fs, bs)
  BY DEF Verified
<1>3. l \in 2..l /\ x.op = "if" /\ x.other # 0
  BY ClauseOfHere
<1>4. /\ gs \in Seq(Frame) /\ Len(gs) = l /\ gs[l].other = o
      /\ \A k \in 1..l : /\ gs[k].op = fs[k].op /\ gs[k].at = fs[k].at
                         /\ gs[k].back = fs[k].back /\ gs[k].join = fs[k].join
                         /\ k # l => gs[k] = fs[k]
  BY OtherFrame
<1>5. l \in Nat /\ \A k \in 2..l : k \in 1..l
  OBVIOUS
<1>6. gs # <<>> /\ 1 \in 1..l
  BY <1>3, <1>4, <1>5
<1> HIDE DEF gs, l
<1>7. /\ gs[1].at = fs[1].at /\ gs[1].back = fs[1].back
  BY <1>4, <1>6
<1>8. \A k \in 2..l : k # l => \A b : Waits(gs, k, b) <=> Waits(fs, k, b)
  BY <1>4, <1>5 DEF Waits
<1>9. /\ \A b : Waits(fs, l, b) <=> b = x.join \/ b = x.other
      /\ \A b : Waits(gs, l, b) <=> b = x.join \/ (o # 0 /\ b = o)
  <2>1. l \in 1..l
    BY <1>3, <1>5
  <2> QED BY <1>3, <1>4, <2>1 DEF Waits
<1>10. \A k \in 2..l : \A b : Waits(fs, k, b) => b \in 1..Len(bs) /\ b # a /\ bs[b].state = "open"
  BY <1>2, WaitsOwned DEF Holds, Apart, Untouched, l
<1>11. \A k \in 2..l : \A b : Waits(fs, k, b) /\ (b = x.join \/ b = x.other) => k = l
  BY <1>2, <1>3, <1>9 DEF Apart, l
<1>12. x.join # x.other /\ x.join \in 1..Len(bs) /\ x.other \in 1..Len(bs)
  BY <1>2, <1>3, <1>9, <1>10 DEF Apart, l
<1>13. /\ \A b \in 1..Len(bs) : b # o
       /\ c \in 1..Len(bs) => c = x.other
       /\ c # x.join
  BY <1>1, <1>12 DEF l
<1>14. Apart(gs, c)
  <2>1. ASSUME NEW k \in 2..l PROVE ~Waits(gs, k, c)
    <3>1. CASE k = l
      BY <1>9, <1>13, <3>1
    <3>2. CASE k # l
      BY <1>8, <1>10, <1>11, <1>13, <3>2
    <3> QED BY <3>1, <3>2
  <2>2. \A k \in 2..l : gs[k].op = "if" => gs[k].other # gs[k].join
    <3>1. ASSUME NEW k \in 2..l, gs[k].op = "if" PROVE gs[k].other # gs[k].join
      <4>1. CASE k = l
        <5>1. gs[l].join = x.join /\ o # x.join
          BY <1>3, <1>4, <1>5, <1>12, <1>13
        <5> QED BY <1>4, <4>1, <5>1
      <4>2. CASE k # l
        BY <1>2, <1>4, <1>5, <3>1, <4>2 DEF Apart, l
      <4> QED BY <4>1, <4>2
    <3> QED BY <3>1
  <2>3. ASSUME NEW j \in 2..l, NEW k \in 2..l, NEW b, Waits(gs, j, b), Waits(gs, k, b)
        PROVE  j = k
    <3>1. CASE j # l /\ k # l
      <4>1. Waits(fs, j, b) /\ Waits(fs, k, b)
        BY <1>8, <2>3, <3>1
      <4> QED BY <1>2, <4>1 DEF Apart, l
    <3>2. CASE j = l /\ k # l
      BY <1>8, <1>9, <1>10, <1>11, <1>13, <2>3, <3>2
    <3>3. CASE k = l /\ j # l
      BY <1>8, <1>9, <1>10, <1>11, <1>13, <2>3, <3>3
    <3> QED BY <3>1, <3>2, <3>3
  <2> QED BY <1>4, <2>1, <2>2, <2>3 DEF Apart
<1>15. Untouched(gs, cs)
  <2> SUFFICES ASSUME NEW k \in 2..l, NEW b, Waits(gs, k, b) PROVE cs[b].state = "open"
    BY <1>4 DEF Untouched
  <2>1. CASE k # l
    <3>1. Waits(fs, k, b) /\ b # x.other
      BY <1>8, <1>11, <2>1
    <3> QED BY <1>10, <3>1 DEF l
  <2>2. CASE k = l
    <3>1. Waits(fs, l, x.join)
      BY <1>9
    <3>2. cs[x.join].state = "open"
      BY <1>3, <1>10, <1>12, <3>1 DEF l
    <3> QED BY <1>9, <2>2, <3>2
  <2> QED BY <2>1, <2>2
<1>16. /\ \A b : Lives(fs, a, b) <=> b = a \/ \E k \in 2..l : Waits(fs, k, b)
       /\ \A b : Lives(gs, c, b) <=> b = c \/ \E k \in 2..l : Waits(gs, k, b)
  BY <1>4, <1>6 DEF Lives, l
<1>17. \A b \in 1..Len(bs) : ~Lives(fs, a, b) => cs[b].state = bs[b].state
  <2>1. Waits(fs, l, x.other)
    BY <1>9
  <2> QED BY <1>3, <1>16, <2>1 DEF l
<1>18. \A b \in 1..Len(bs) : Lives(fs, a, b) /\ ~Lives(gs, c, b) /\ bs[b].state = "open" =>
          cs[b].state = "closed"
  <2> SUFFICES ASSUME NEW b \in 1..Len(bs), Lives(fs, a, b), ~Lives(gs, c, b),
                      bs[b].state = "open"
               PROVE  cs[b].state = "closed"
    OBVIOUS
  <2>1. CASE b = a
    BY <2>1 DEF Then
  <2>2. CASE \E k \in 2..l : Waits(fs, k, b)
    <3>1. PICK k \in 2..l : Waits(fs, k, b)
      BY <2>2
    <3>2. ~Waits(gs, k, b)
      BY <1>16
    <3>3. b = x.other
      BY <1>8, <1>9, <3>1, <3>2
    <3>4. b # c
      BY <1>16
    <3> QED BY <3>3, <3>4 DEF l
  <2> QED BY <1>16, <2>1, <2>2
<1>19. \A b \in (Len(bs) + 1)..Len(cs) : Lives(gs, c, b) \/ cs[b].state = "closed"
  <2> SUFFICES ASSUME NEW b \in (Len(bs) + 1)..Len(cs), b = o PROVE Lives(gs, c, b)
    BY <1>16
  <2>1. o # 0
    BY <1>1
  <2> QED BY <1>3, <1>9, <1>16, <2>1
<1>20. /\ Tokens[p].op \notin Returns /\ Tokens[p].op # "other"
       /\ bs[a].state # "open" => cs[a].state = "broken"
  BY DEF Then, Returns, Clauses
<1>21. bs[a].state = "open" =>
          cs[c].state = IF Tokens[p].op \in Returns THEN "closed" ELSE "open"
  BY <1>20
<1>22. Inside(gs, p + 1)
  BY DEF gs
<1>23. Verified(gs, p + 1, cs, c)
  BY <1>6, <1>7, <1>14, <1>15, <1>17, <1>18, <1>19, <1>20, <1>21, <1>22, Proceeds
<1> QED BY <1>23 DEF gs

LEMMA VerifiedElse ==
    ASSUME UnitOK, NoNesting, Stands(frames, gpos, blocks, at), gpos \in Positions, GenElse,
           Verified(frames, gpos, blocks, at)
    PROVE  Verified(frames', gpos', blocks', at')
<1> DEFINE n == Len(blocks)
           o == frames[Len(frames)].other
<1>1. /\ Tokens[gpos].op = "else" /\ Tokens[gpos].op \in Clauses /\ gpos' = gpos + 1
      /\ blocks' = Terminate(blocks, at, <<Here.join>>)
      /\ frames' = [frames EXCEPT ![Len(frames)].other = 0] /\ at' = Here.other
  BY DEF GenElse, Emitting, Advance, Clauses
<1>2. /\ frames \in Seq(Frame) /\ frames # <<>> /\ blocks \in Seq(Block)
      /\ at \in 1..n /\ n \in Nat /\ Inside(frames, gpos) /\ Owned(frames, blocks, at)
      /\ ElseSeen(frames, gpos) /\ Here \in Frame /\ Here = frames[Len(frames)]
  BY <1>1, StandsFacts DEF Stands
<1>3. Len(frames) \in 2..Len(frames) /\ o # 0 /\ frames[Len(frames)].op = "if"
  BY <1>1, <1>2, ClauseOfHere
<1>4. Inside(frames', gpos')
  BY StandsElse DEF Stands
<1>5. Here.join \in Nat /\ o \in Nat /\ <<Here.join>> \in Seq(Nat) /\ Here.other = o
  <2>1. Here.join \in Nat /\ Here.other \in Nat
    BY <1>2 DEF Frame
  <2> QED BY <1>2, <2>1
<1>6. /\ Touches(blocks, blocks', at)
      /\ blocks'[at].state = Then(blocks[at].state, "closed")
  BY <1>1, <1>2, <1>5, TerminateState
<1>7. Grown(blocks, blocks') /\ Len(blocks') = n /\ \A b \in 1..n : b # at => blocks'[b] = blocks[b]
  BY <1>2, <1>6, TouchGrows DEF Touches
<1>8. Waits(frames, Len(frames), o)
  BY <1>3 DEF Waits
<1>9. o # at /\ blocks[o].state = "open"
  BY <1>2, <1>3, <1>8 DEF Verified, Apart, Untouched
<1>10. o \in 1..n
  BY <1>2, <1>3, <1>8, WaitsOwned DEF Holds
<1>11. blocks'[o].state = "open"
  BY <1>7, <1>9, <1>10
<1> HIDE DEF o
<1>12. \A b \in (n + 1)..Len(blocks') : FALSE
  BY <1>2, <1>7
<1>13. Verified([frames EXCEPT ![Len(frames)].other = 0], gpos + 1, blocks', o)
  <2>1. /\ \A b \in 1..Len(blocks) : b # at /\ b # frames[Len(frames)].other => blocks'[b] = blocks[b]
        /\ o # frames[Len(frames)].other => blocks'[frames[Len(frames)].other].state = "closed"
        /\ \A b \in (Len(blocks) + 1)..Len(blocks') : b = o \/ b = 0
    BY <1>7, <1>12 DEF o
  <2>2. Inside([frames EXCEPT ![Len(frames)].other = 0], gpos + 1)
    BY <1>1, <1>4
  <2>3. 0 \in Nat /\ o = frames[Len(frames)].other
    BY DEF o
  <2>4. o # 0 /\ o \in Nat
    BY <1>3, <1>5 DEF o
  <2>5. /\ blocks'[at].state = Then(blocks[at].state, "closed")
        /\ blocks'[o].state = "open" /\ Grown(blocks, blocks')
    BY <1>6, <1>7, <1>11
  <2>6. Tokens[gpos].op \in Clauses
    BY <1>1
  <2> QED BY <1>2, <2>1, <2>2, <2>3, <2>4, <2>5, <2>6, VerifiedClause
<1> QED BY <1>1, <1>5, <1>13

LEMMA VerifiedElseIf ==
    ASSUME UnitOK, NoNesting, Stands(frames, gpos, blocks, at), gpos \in Positions, GenElseIf,
           Verified(frames, gpos, blocks, at)
    PROVE  Verified(frames', gpos', blocks', at')
<1> DEFINE n == Len(blocks)
           o == frames[Len(frames)].other
           fresh == Fresh(blocks, Here.join, 2)
           left == Terminate(fresh, at, <<Here.join>>)
<1>1. /\ Tokens[gpos].op = "elseif" /\ Tokens[gpos].op \in Clauses /\ gpos' = gpos + 1
      /\ blocks' = Terminate(Emit(left, Here.other, gpos), Here.other, <<n + 1, n + 2>>)
      /\ frames' = [frames EXCEPT ![Len(frames)].other = n + 2] /\ at' = n + 1
  BY DEF GenElseIf, Emitting, Advance, Clauses
<1>2. /\ frames \in Seq(Frame) /\ frames # <<>> /\ blocks \in Seq(Block)
      /\ at \in 1..n /\ n \in Nat /\ Inside(frames, gpos) /\ Owned(frames, blocks, at)
      /\ ElseSeen(frames, gpos) /\ Here \in Frame /\ Here = frames[Len(frames)]
  BY <1>1, StandsFacts DEF Stands
<1>3. Len(frames) \in 2..Len(frames) /\ o # 0 /\ frames[Len(frames)].op = "if"
  BY <1>1, <1>2, ClauseOfHere
<1>4. Inside(frames', gpos')
  BY StandsElseIf DEF Stands
<1>5. Here.join \in Nat /\ o \in Nat /\ <<Here.join>> \in Seq(Nat) /\ Here.other = o
  <2>1. Here.join \in Nat /\ Here.other \in Nat
    BY <1>2 DEF Frame
  <2> QED BY <1>2, <2>1
<1>6. Waits(frames, Len(frames), o)
  BY <1>3 DEF Waits
<1>7. o # at /\ blocks[o].state = "open"
  BY <1>2, <1>3, <1>6 DEF Verified, Apart, Untouched
<1>8. o \in 1..n /\ Here.join \in 1..n
  <2>1. Waits(frames, Len(frames), Here.join)
    BY <1>2 DEF Waits
  <2> QED BY <1>2, <1>3, <1>6, <2>1, WaitsOwned DEF Holds
<1> HIDE DEF o
<1>9. /\ fresh \in Seq(Block) /\ Len(fresh) = n + 2 /\ at \in 1..Len(fresh)
      /\ \A b \in 1..n : fresh[b] = blocks[b]
      /\ \A b \in (n + 1)..(n + 2) : fresh[b].state = "open"
  <2>1. /\ fresh \in Seq(Block) /\ Len(fresh) = n + 2
        /\ \A b \in 1..n : fresh[b] = blocks[b]
        /\ \A b \in (n + 1)..(n + 2) : fresh[b].state = "open"
    <3>1. 2 \in Nat
      OBVIOUS
    <3> QED BY <1>2, <1>8, <3>1, FreshState
  <2> HIDE DEF fresh
  <2> QED BY <1>2, <2>1
<1> HIDE DEF fresh
<1>10. Touches(fresh, left, at) /\ left[at].state = Then(fresh[at].state, "closed")
  BY <1>5, <1>9, TerminateState
<1> HIDE DEF left
<1>11. /\ left \in Seq(Block) /\ Len(left) = n + 2 /\ o \in 1..Len(left)
       /\ \A b \in 1..n : b # at => left[b] = blocks[b]
       /\ \A b \in (n + 1)..(n + 2) : left[b].state = "open"
       /\ left[at].state = Then(blocks[at].state, "closed")
       /\ left[at].fn = blocks[at].fn
  <2>1. /\ \A b \in 1..n : b \in 1..Len(fresh)
        /\ \A b \in (n + 1)..(n + 2) : b \in 1..Len(fresh) /\ b # at
    BY <1>2, <1>9
  <2>2. Len(left) = n + 2 /\ o \in 1..(n + 2)
    BY <1>2, <1>8, <1>9, <1>10 DEF Touches
  <2> QED BY <1>2, <1>9, <1>10, <2>1, <2>2 DEF Touches
<1>12. Touches(left, blocks', o) /\ blocks'[o].state = Then(left[o].state, "closed")
  <2>1. <<n + 1, n + 2>> \in Seq(Nat)
    BY <1>2
  <2> QED BY <1>1, <1>5, <1>11, <2>1, EmitTerminate
<1> HIDE DEF n
<1>13. /\ \A b \in 1..n : b \in 1..(n + 2) /\ b # n + 1 /\ b # n + 2
       /\ n + 1 \in (n + 1)..(n + 2) /\ n + 2 \in (n + 1)..(n + 2)
       /\ n + 1 \in 1..(n + 2) /\ n + 2 \in 1..(n + 2)
       /\ n < n + 1 /\ n < n + 2 /\ n + 1 # n + 2 /\ n + 1 \in Nat /\ n + 2 \in Nat /\ n + 2 # 0
       /\ \A b \in (n + 1)..(n + 2) : b = n + 1 \/ b = n + 2
       /\ n <= n + 2
  BY <1>2
<1>14. /\ blocks' \in Seq(Block) /\ Len(blocks') = n + 2 /\ blocks'[o].state = "closed"
       /\ \A b \in 1..n : b # at /\ b # o => blocks'[b] = blocks[b]
       /\ blocks'[at].state = Then(blocks[at].state, "closed")
       /\ blocks'[n + 1].state = "open" /\ blocks'[n + 2].state = "open"
       /\ \A b \in 1..n : blocks'[b].fn = blocks[b].fn
  <2>1. \A b \in 1..(n + 2) : b # o => blocks'[b] = left[b]
    BY <1>11, <1>12 DEF Touches
  <2>2. blocks'[o].state = "closed"
    BY <1>7, <1>8, <1>11, <1>12 DEF Then
  <2>3. blocks'[o].fn = left[o].fn /\ blocks' \in Seq(Block) /\ Len(blocks') = n + 2
    BY <1>11, <1>12 DEF Touches
  <2>4. /\ blocks'[at] = left[at]
        /\ \A b \in 1..n : b # at /\ b # o => blocks'[b] = blocks[b]
    BY <1>2, <1>7, <1>11, <1>13, <2>1
  <2>5. blocks'[n + 1].state = "open" /\ blocks'[n + 2].state = "open"
    <3>1. n + 1 # o /\ n + 2 # o
      BY <1>8, <1>13
    <3> QED BY <1>11, <1>13, <2>1, <3>1
  <2>6. blocks'[o].fn = blocks[o].fn
    BY <1>7, <1>8, <1>11, <2>3
  <2> QED BY <1>11, <2>2, <2>3, <2>4, <2>5, <2>6
<1>15. Grown(blocks, blocks')
  BY <1>13, <1>14 DEF Grown, n
<1>16. Verified([frames EXCEPT ![Len(frames)].other = n + 2], gpos + 1, blocks', n + 1)
  <2> DEFINE then == n + 1
             else == n + 2
  <2>1. /\ \A b \in 1..Len(blocks) : b # at /\ b # frames[Len(frames)].other => blocks'[b] = blocks[b]
        /\ blocks'[frames[Len(frames)].other].state = "closed"
        /\ \A b \in (Len(blocks) + 1)..Len(blocks') : b = then \/ b = else
        /\ Len(blocks) < else /\ Len(blocks) < then
        /\ then # else /\ then \in Nat /\ else \in Nat
    BY <1>13, <1>14 DEF n, o
  <2>2. Inside([frames EXCEPT ![Len(frames)].other = else], gpos + 1)
    BY <1>1, <1>4
  <2>3. /\ blocks'[at].state = Then(blocks[at].state, "closed")
        /\ blocks'[then].state = "open" /\ blocks'[else].state = "open"
    BY <1>14
  <2> HIDE DEF then, else
  <2>4. Tokens[gpos].op \in Clauses /\ gpos \in Positions
    BY <1>1
  <2>5. /\ frames \in Seq(Frame) /\ frames # <<>> /\ Inside(frames, gpos)
        /\ ElseSeen(frames, gpos) /\ Owned(frames, blocks, at)
    BY <1>2
  <2>6. Verified([frames EXCEPT ![Len(frames)].other = else], gpos + 1, blocks', then)
    BY <1>15, <2>1, <2>2, <2>3, <2>4, <2>5, VerifiedClause
  <2> QED BY <2>6 DEF then, else
<1> QED BY <1>1, <1>16

(* A visit that ends, in the block it waits for to go on.                  *)
LEMMA VerifiedPop ==
    ASSUME UnitOK, NoNesting, NEW p \in Positions, Tokens[p].op = "end",
           NEW fs \in Seq(Frame), Len(fs) \in 2..Len(fs), Inside(fs, p),
           Inside(Front(fs), p + 1), NEW bs, NEW cs, NEW a,
           Owned(fs, bs, a), Verified(fs, p, bs, a), Grown(bs, cs), Len(cs) = Len(bs),
           NEW x, x = fs[Len(fs)],
           \A b \in 1..Len(bs) : b # a /\ ~(x.op = "if" /\ x.other # 0 /\ b = x.other) =>
               cs[b] = bs[b],
           cs[a].state = Then(bs[a].state, "closed"),
           x.op = "if" /\ x.other # 0 => cs[x.other].state = "closed"
    PROVE  Verified(Front(fs), p + 1, cs, x.join)
<1> DEFINE gs == Front(fs)
           l == Len(fs)
           c == x.join
<1>1. bs \in Seq(Block) /\ Len(bs) \in Nat /\ a \in 1..Len(bs) /\ l \in Nat /\ l > 1
  BY DEF Owned, Holds
<1>2. Apart(fs, a) /\ Untouched(fs, bs) /\ fs # <<>>
  BY <1>1 DEF Verified
<1>3. /\ gs \in Seq(Frame) /\ Len(gs) = l - 1 /\ gs # <<>> /\ gs[1] = fs[1]
      /\ \A k \in 1..(l - 1) : gs[k] = fs[k]
  BY <1>1, FrontFacts
<1>4. \A k \in 2..l : k = l \/ k \in 2..(l - 1)
  BY <1>1
<1>5. \A k \in 2..(l - 1) : k \in 2..l /\ k \in 1..(l - 1) /\ k # l
  BY <1>1
<1> HIDE DEF gs, c
<1>6. \A k \in 2..(l - 1) : \A b : Waits(gs, k, b) <=> Waits(fs, k, b)
  BY <1>3, <1>5 DEF Waits
<1>7. \A k \in 2..l : \A b : Waits(fs, k, b) => b \in 1..Len(bs) /\ b # a /\ bs[b].state = "open"
  BY <1>2, WaitsOwned DEF Holds, Apart, Untouched
<1>8. \A b : Waits(fs, l, b) <=> b = c \/ (x.op = "if" /\ x.other # 0 /\ b = x.other)
  BY DEF Waits, c
<1>9. \A j, k \in 2..l : \A b : Waits(fs, j, b) /\ Waits(fs, k, b) => j = k
  BY <1>2 DEF Apart
<1>10. \A k \in 2..l : fs[k].op = "if" => fs[k].other # fs[k].join
  BY <1>2 DEF Apart
<1>11. c \in 1..Len(bs) /\ c # a /\ ~(x.op = "if" /\ x.other # 0 /\ c = x.other)
  <2>1. c \in 1..Len(bs) /\ c # a
    BY <1>7, <1>8
  <2>2. x.op = "if" => x.other # x.join
    BY <1>10
  <2> QED BY <2>1, <2>2 DEF c
<1>12. cs[c].state = "open"
  <2>1. cs[c] = bs[c]
    BY <1>11
  <2> QED BY <1>7, <1>8, <2>1
<1>13. \A k \in 2..(l - 1) : \A b : Waits(fs, k, b) =>
          /\ b \in 1..Len(bs) /\ b # a /\ b # c
          /\ ~(x.op = "if" /\ x.other # 0 /\ b = x.other)
          /\ cs[b].state = "open"
  <2> SUFFICES ASSUME NEW k \in 2..(l - 1), NEW b, Waits(fs, k, b)
               PROVE  /\ b \in 1..Len(bs) /\ b # a /\ b # c
                      /\ ~(x.op = "if" /\ x.other # 0 /\ b = x.other)
                      /\ cs[b].state = "open"
    OBVIOUS
  <2>1. b \in 1..Len(bs) /\ b # a /\ bs[b].state = "open"
    BY <1>5, <1>7
  <2>2. ~Waits(fs, l, b)
    BY <1>5, <1>9
  <2>3. b # c /\ ~(x.op = "if" /\ x.other # 0 /\ b = x.other)
    BY <1>8, <2>2
  <2>4. cs[b] = bs[b]
    BY <2>1, <2>3
  <2> QED BY <2>1, <2>3, <2>4
<1>14. Apart(gs, c)
  <2>1. \A k \in 2..(l - 1) : ~Waits(gs, k, c)
    BY <1>6, <1>13
  <2>2. \A k \in 2..(l - 1) : gs[k].op = "if" => gs[k].other # gs[k].join
    BY <1>3, <1>5, <1>10
  <2>3. \A j, k \in 2..(l - 1) : \A b : Waits(gs, j, b) /\ Waits(gs, k, b) => j = k
    BY <1>5, <1>6, <1>9
  <2> QED BY <1>3, <2>1, <2>2, <2>3 DEF Apart
<1>15. Untouched(gs, cs)
  BY <1>3, <1>6, <1>13 DEF Untouched
<1>16. /\ \A b : Lives(fs, a, b) <=> b = a \/ \E k \in 2..l : Waits(fs, k, b)
       /\ \A b : Lives(gs, c, b) <=> b = c \/ \E k \in 2..(l - 1) : Waits(gs, k, b)
  BY <1>2, <1>3 DEF Lives
<1>17. \A b \in 1..Len(bs) : ~Lives(fs, a, b) => cs[b].state = bs[b].state
  <2>1. \A b : Waits(fs, l, b) => Lives(fs, a, b)
    BY <1>16
  <2> QED BY <1>8, <1>16, <2>1
<1>18. \A b \in 1..Len(bs) : Lives(fs, a, b) /\ ~Lives(gs, c, b) /\ bs[b].state = "open" =>
          cs[b].state = "closed"
  <2> SUFFICES ASSUME NEW b \in 1..Len(bs), Lives(fs, a, b), ~Lives(gs, c, b),
                      bs[b].state = "open"
               PROVE  cs[b].state = "closed"
    OBVIOUS
  <2>1. CASE b = a
    BY <2>1 DEF Then
  <2>2. CASE \E k \in 2..l : Waits(fs, k, b)
    <3>1. PICK k \in 2..l : Waits(fs, k, b)
      BY <2>2
    <3>2. k = l
      BY <1>4, <1>6, <1>16, <3>1
    <3>3. b # c
      BY <1>16
    <3>4. x.op = "if" /\ x.other # 0 /\ b = x.other
      BY <1>8, <3>1, <3>2, <3>3
    <3> QED BY <3>4
  <2> QED BY <1>16, <2>1, <2>2
<1>19. \A b \in (Len(bs) + 1)..Len(cs) : Lives(gs, c, b) \/ cs[b].state = "closed"
  BY <1>1
<1>20. /\ Tokens[p].op \notin Returns /\ Tokens[p].op # "other"
       /\ bs[a].state # "open" => cs[a].state = "broken"
  BY DEF Then, Returns
<1>21. bs[a].state = "open" =>
          cs[c].state = IF Tokens[p].op \in Returns THEN "closed" ELSE "open"
  BY <1>12, <1>20
<1>22. Inside(gs, p + 1) /\ gs[1].at = fs[1].at /\ gs[1].back = fs[1].back
  BY <1>3 DEF gs
<1>23. Verified(gs, p + 1, cs, c)
  BY <1>2, <1>3, <1>14, <1>15, <1>17, <1>18, <1>19, <1>20, <1>21, <1>22, Proceeds
<1> QED BY <1>23 DEF gs, c

LEMMA VerifiedEnd ==
    ASSUME UnitOK, NoNesting, Stands(frames, gpos, blocks, at), gpos \in Positions,
           GenIfEnd \/ GenWhileEnd, Verified(frames, gpos, blocks, at)
    PROVE  Verified(frames', gpos', blocks', at')
<1> DEFINE n == Len(blocks)
           o == Here.other
<1>1. /\ Tokens[gpos].op = "end" /\ gpos' = gpos + 1 /\ Here.op \in {"if", "while"}
      /\ frames' = Front(frames) /\ at' = Here.join
  BY DEF GenIfEnd, GenWhileEnd, Emitting, Advance
<1>2. /\ frames \in Seq(Frame) /\ frames # <<>> /\ blocks \in Seq(Block)
      /\ at \in 1..n /\ n \in Nat /\ Inside(frames, gpos) /\ Owned(frames, blocks, at)
      /\ Here \in Frame /\ Here = frames[Len(frames)]
  BY <1>1, StandsFacts DEF Stands
<1>3. Len(frames) \in 2..Len(frames)
  <2> DEFINE l == Len(frames)
  <2>1. l \in Nat \ {0} /\ l # 1
    BY <1>1, StandsFacts
  <2> HIDE DEF l
  <2>2. l \in 2..l
    BY <2>1
  <2> QED BY <2>2 DEF l
<1>4. Inside(frames', gpos')
  BY StandsEnd DEF Stands
<1>5. Here.join \in Nat /\ o \in Nat /\ <<Here.join>> \in Seq(Nat) /\ <<o>> \in Seq(Nat)
  <2>1. Here.join \in Nat /\ o \in Nat
    BY <1>2 DEF Frame
  <2> QED BY <2>1
<1>6. Here.op = "if" /\ o # 0 =>
         /\ Waits(frames, Len(frames), o) /\ o \in 1..n /\ o # at /\ blocks[o].state = "open"
  <2> SUFFICES ASSUME Here.op = "if", o # 0
               PROVE  /\ Waits(frames, Len(frames), o) /\ o \in 1..n /\ o # at
                      /\ blocks[o].state = "open"
    OBVIOUS
  <2>1. Waits(frames, Len(frames), o)
    BY <1>2 DEF Waits
  <2>2. o # at /\ blocks[o].state = "open"
    BY <1>2, <1>3, <2>1 DEF Verified, Apart, Untouched
  <2>3. o \in 1..n
    BY <1>2, <1>3, <2>1, WaitsOwned DEF Holds
  <2> QED BY <2>1, <2>2, <2>3
<1>7. /\ blocks' \in Seq(Block) /\ Len(blocks') = n
      /\ \A b \in 1..n : b # at /\ ~(Here.op = "if" /\ o # 0 /\ b = o) => blocks'[b] = blocks[b]
      /\ blocks'[at].state = Then(blocks[at].state, "closed")
      /\ Here.op = "if" /\ o # 0 => blocks'[o].state = "closed"
      /\ Grown(blocks, blocks')
  <2>1. ASSUME NEW t \in Nat
        PROVE  /\ Touches(blocks, Terminate(blocks, at, <<t>>), at)
               /\ Terminate(blocks, at, <<t>>)[at].state = Then(blocks[at].state, "closed")
    <3>1. <<t>> \in Seq(Nat)
      OBVIOUS
    <3> QED BY <1>2, <3>1, TerminateState
  <2>2. CASE GenWhileEnd \/ o = 0
    <3>1. PICK t \in Nat : blocks' = Terminate(blocks, at, <<t>>)
      BY <1>5, <2>2 DEF GenIfEnd, GenWhileEnd
    <3>2. ~(Here.op = "if" /\ o # 0)
      BY <2>2 DEF GenWhileEnd
    <3>3. Touches(blocks, blocks', at) /\ blocks'[at].state = Then(blocks[at].state, "closed")
      BY <2>1, <3>1
    <3>4. Grown(blocks, blocks')
      BY <1>2, <3>3, TouchGrows
    <3> QED BY <3>2, <3>3, <3>4 DEF Touches
  <2>3. CASE GenIfEnd /\ o # 0
    <3> DEFINE left == Terminate(blocks, at, <<Here.join>>)
    <3>1. blocks' = Terminate(left, o, <<Here.join>>) /\ Here.op = "if"
      BY <2>3 DEF GenIfEnd
    <3>2. Touches(blocks, left, at) /\ left[at].state = Then(blocks[at].state, "closed")
      BY <1>5, <2>1
    <3> HIDE DEF left, o
    <3>3. left \in Seq(Block) /\ Len(left) = n /\ o \in 1..Len(left) /\ left[o] = blocks[o]
      BY <1>6, <2>3, <3>1, <3>2 DEF Touches
    <3>4. Touches(left, blocks', o) /\ blocks'[o].state = Then(left[o].state, "closed")
      BY <1>5, <3>1, <3>3, TerminateState
    <3>5. blocks'[o].state = "closed"
      BY <1>6, <2>3, <3>1, <3>3, <3>4 DEF Then
    <3>6. blocks' \in Seq(Block) /\ Len(blocks') = n /\ \A b \in 1..n : b # o => blocks'[b] = left[b]
      BY <3>3, <3>4 DEF Touches
    <3>7. blocks'[at] = left[at]
      BY <1>2, <1>6, <2>3, <3>1, <3>6
    <3>8. \A b \in 1..n : b # at /\ b # o => blocks'[b] = blocks[b]
      BY <3>2, <3>6 DEF Touches
    <3>9. Grown(blocks, blocks')
      <4>1. Grown(blocks, left) /\ Grown(left, blocks')
        BY <1>2, <3>2, <3>3, <3>4, TouchGrows
      <4> QED BY <1>2, <4>1, GrownAgain
    <3>10. blocks'[at].state = Then(blocks[at].state, "closed")
      BY <3>2, <3>7
    <3> QED BY <2>3, <3>1, <3>5, <3>6, <3>8, <3>9, <3>10
  <2> QED BY <2>2, <2>3
<1>8. Verified(Front(frames), gpos + 1, blocks', Here.join)
  <2>1. Inside(Front(frames), gpos + 1)
    BY <1>1, <1>4
  <2>2. /\ Len(blocks') = Len(blocks) /\ Grown(blocks, blocks') /\ Tokens[gpos].op = "end"
        /\ \A b \in 1..Len(blocks) :
              b # at /\ ~(Here.op = "if" /\ Here.other # 0 /\ b = Here.other) =>
                  blocks'[b] = blocks[b]
        /\ blocks'[at].state = Then(blocks[at].state, "closed")
        /\ Here.op = "if" /\ Here.other # 0 => blocks'[Here.other].state = "closed"
    BY <1>1, <1>7
  <2> HIDE DEF n, o, Here
  <2> QED BY <1>2, <1>3, <2>1, <2>2, VerifiedPop
<1> QED BY <1>1, <1>8

-----------------------------------------------------------------------------
(* Nothing inside the body of a function at the top level is at the top    *)
(* level itself.                                                           *)
LEMMA OutsideBodies ==
    ASSUME UnitOK, NEW f \in Positions, Tokens[f].op = "function", Depth(f) = 0,
           NEW g \in Positions, Depth(g) = 0, f < g
    PROVE  EndOf(f) < g
<1>1. f \in Nat \ {0} /\ f + 1 \in Nat \ {0} /\ g \in Nat /\ f + 1 <= g /\ Positions = 1..Len(Tokens)
      /\ Len(Tokens) \in Nat
  BY TokenFacts
<1>2. Depth(f + 1) = 1
  BY <1>1, NextDepth DEF Openers
<1>3. PICK r \in (f + 1)..(g - 1) : Tokens[r].op = "end" /\ Depth(r) = 1
  BY <1>1, <1>2, Crossing
<1>4. r \in Positions /\ r > f /\ r < g /\ r \in Nat
  BY <1>1
<1>5. EndOf(f) <= r /\ EndOf(f) \in Nat
  BY <1>1, <1>3, <1>4, EndOfFunction, TokenFacts
<1> QED BY <1>1, <1>4, <1>5

LEMMA NoneWithin ==
    ASSUME UnitOK, NoNesting, NEW f \in Definitions, NEW g \in Definitions, f < g, g <= EndOf(f)
    PROVE  FALSE
<1>1. /\ f \in Positions /\ Tokens[f].op = "function" /\ Depth(f) = 0
      /\ g \in Positions /\ Depth(g) = 0
  BY DEF Definitions, NoNesting
<1>2. EndOf(f) < g /\ EndOf(f) \in Nat /\ g \in Nat
  BY <1>1, OutsideBodies, EndOfFunction, TokenFacts
<1> QED BY <1>2

LEMMA VerifiedFunction ==
    ASSUME UnitOK, NoNesting, pool = DeclaredPool, Stands(frames, gpos, blocks, at),
           gpos \in Positions, GenFunction, Verified(frames, gpos, blocks, at)
    PROVE  Verified(frames', gpos', blocks', at')
<1> DEFINE n == Len(blocks)
           f == Known[Key].body
<1>1. PICK fr \in Frame :
         fr.op = "function" /\ fr.at = f /\ frames' = <<fr>> /\ fr.back = Behind
  BY FunctionEntered DEF Stands
<1>2. /\ f \in Definitions /\ Depth(f) = 0 /\ Tokens[f].sig.key = Key /\ gpos' = f + 1
      /\ Key \in Keys /\ frames = <<>> /\ Known = pool
  BY FunctionEntered DEF Stands
<1>3. f \in Positions /\ Tokens[f].op = "function" /\ f \in Nat \ {0}
  <2>1. f \in Positions /\ Tokens[f].op = "function"
    BY <1>2 DEF Definitions
  <2> HIDE DEF f
  <2> QED BY <2>1, TokenFacts
<1>4. /\ blocks' = Append(blocks, NewBlock(Key)) /\ at' = n + 1
      /\ Tokens[gpos].op \in {"function", "forward"}
  BY DEF GenFunction, Emitting
<1>5. blocks \in Seq(Block) /\ NewBlock(Key) \in Block /\ NewBlock(Key).state = "open"
  BY <1>2 DEF Stands, Owned, NewBlock, Block
<1>6. /\ Len(blocks') = n + 1 /\ n \in Nat /\ blocks'[n + 1].state = "open"
      /\ \A b \in 1..n : blocks'[b] = blocks[b]
      /\ \A b \in 1..(n + 1) : b \in 1..n \/ b = n + 1
      /\ \A b \in 1..n : b \in 1..(n + 1)
  <2>1. /\ Len(blocks') = n + 1 /\ blocks'[n + 1] = NewBlock(Key)
        /\ \A b \in 1..n : blocks'[b] = blocks[b]
    BY <1>4, <1>5, AppendFacts
  <2>2. n \in Nat
    BY <1>5
  <2> HIDE DEF n
  <2> QED BY <1>5, <2>1, <2>2
<1>7. frames' # <<>> /\ frames'[1] = fr /\ Len(frames') = 1 /\ 2..1 = {}
  BY <1>1
<1> HIDE DEF f, n
<1>8. Apart(<<fr>>, n + 1) /\ Untouched(<<fr>>, blocks')
  <2>1. Len(<<fr>>) = 1 /\ 2..1 = {}
    OBVIOUS
  <2> QED BY <2>1 DEF Apart, Untouched
<1>9. AtPoint(<<fr>>, f + 1, blocks', n + 1)
  <2>1. ~Returned(f, f + 1) /\ ~Early(f, f + 1)
    BY <1>3, NotReturnedYet
  <2>2. <<fr>>[1].at = f
    BY <1>1
  <2> QED BY <1>6, <2>1, <2>2 DEF AtPoint
<1>10. Settled(<<fr>>, blocks', n + 1)
  <2> SUFFICES ASSUME NEW b \in 1..(n + 1), NEW g \in Definitions,
                      blocks'[b].fn = Tokens[g].sig.key, Good(g), ~Lives(<<fr>>, n + 1, b)
               PROVE  blocks'[b].state = "closed"
    BY <1>6 DEF Settled
  <2>1. b # n + 1
    BY DEF Lives
  <2>2. b \in 1..n /\ ~Lives(frames, at, b)
    BY <1>2, <1>6, <2>1 DEF Lives
  <2> QED BY <1>6, <2>2 DEF Verified, Settled, n
<1>11. Refused(<<fr>>, f + 1, blocks')
  <2> SUFFICES ASSUME NEW g \in Definitions, g < Behind, g # f, ~Good(g)
               PROVE  \E b \in 1..(n + 1) : /\ blocks'[b].fn = Tokens[g].sig.key
                                            /\ blocks'[b].state # "closed"
    <3>1. <<fr>> # <<>> /\ <<fr>>[1].at = f /\ Reached(<<fr>>, f + 1) = Behind
      BY <1>1 DEF Reached
    <3> QED BY <1>6, <3>1 DEF Refused
  <2>1. g \in Nat /\ gpos \in Nat \ {0} /\ g \in Positions /\ Tokens[g].op = "function"
    BY TokenFacts DEF Definitions
  <2>2. g < gpos
    <3>1. CASE Tokens[gpos].op = "forward"
      <4>1. Behind = gpos + 1
        BY <2>1, <3>1 DEF Behind, BodyAt
      <4> QED BY <2>1, <3>1, <4>1
    <3>2. CASE Tokens[gpos].op = "function"
      <4>1. Behind = EndOf(gpos) + 1
        BY <2>1, <3>2 DEF Behind, BodyAt
      <4>2. gpos \in Definitions /\ Depth(gpos) = 0
        BY <3>2 DEF Definitions, NoNesting
      <4>3. f = gpos
        BY <1>2, <3>2, <4>2, PoolFacts DEF f, Key
      <4>4. EndOf(gpos) \in Nat
        BY <2>1, <3>2, <4>2, EndOfFunction, TokenFacts
      <4>5. g <= EndOf(gpos)
        BY <2>1, <4>1, <4>4
      <4>6. ~(gpos < g)
        BY <4>2, <4>5, NoneWithin
      <4> QED BY <2>1, <4>3, <4>6
    <3> QED BY <1>4, <3>1, <3>2
  <2>3. PICK b \in 1..n : blocks[b].fn = Tokens[g].sig.key /\ blocks[b].state # "closed"
    BY <1>2, <2>2 DEF Verified, Refused, Reached, n
  <2> QED BY <1>6, <2>3
<1>12. Verified(<<fr>>, f + 1, blocks', n + 1)
  BY <1>8, <1>9, <1>10, <1>11 DEF Verified
<1> QED BY <1>1, <1>2, <1>4, <1>12

LEMMA VerifiedFunctionEnd ==
    ASSUME UnitOK, NoNesting, Stands(frames, gpos, blocks, at), gpos \in Positions,
           GenFunctionEnd, Verified(frames, gpos, blocks, at),
           frames[1].at \in autoReturn => pool[Owner].void = TRUE
    PROVE  Verified(frames', gpos', blocks', at')
<1> DEFINE f == frames[1].at
           p == gpos
           bs == blocks
           cs == blocks'
           a == at
<1>1. /\ Tokens[p].op = "end" /\ Here.op = "function" /\ gpos' = Here.back
      /\ at' = at /\ cs = IF Here.at \in autoReturn THEN Return(bs, TRUE) ELSE bs
  BY DEF GenFunctionEnd, Emitting
<1>2. /\ frames \in Seq(Frame) /\ frames # <<>> /\ Here = frames[Len(frames)]
      /\ bs \in Seq(Block) /\ a \in 1..Len(bs) /\ Len(bs) \in Nat /\ bs[a].fn = Home(frames)
      /\ Len(frames) = 1 /\ Depth(p) = 1 /\ Here = frames[1]
  BY <1>1, StandsFacts DEF Holds
<1>3. frames' = <<>>
  BY StandsFunctionEnd
<1>4. /\ f \in Definitions /\ f \in Nat \ {0} /\ Depth(f) = 0 /\ Tokens[f].op = "function"
      /\ f < p /\ p <= EndOf(f) /\ EndOf(f) \in Nat /\ p \in Nat
      /\ Home(frames) = Tokens[f].sig.key
  BY <1>2, WithinBody, TokenFacts DEF Stands, Home
<1>5. p = EndOf(f)
  <2>1. f \in Positions
    BY <1>4 DEF Definitions
  <2>2. EndOf(f) <= p
    BY <1>1, <1>2, <1>4, <2>1, EndOfFunction
  <2> HIDE DEF f, p
  <2> QED BY <1>4, <2>2
<1>6. /\ EarlyReturn(f) <=> Early(f, p)
      /\ EndsInReturn(f) <=> Returned(f, p)
  BY <1>1, <1>4, <1>5, AtEnd
<1>7. /\ ~Early(f, p) => bs[a].state = IF Returned(f, p) THEN "closed" ELSE "open"
      /\ Early(f, p) => \E b \in 1..Len(bs) : bs[b].fn = Home(frames) /\ bs[b].state = "broken"
  BY <1>2 DEF Verified, AtPoint
<1>8. /\ f \in autoReturn => Touches(bs, cs, a) /\ cs[a].state = Then(bs[a].state, "closed")
      /\ f \notin autoReturn => cs = bs
  <2>1. ASSUME f \in autoReturn
        PROVE  Touches(bs, cs, a) /\ cs[a].state = Then(bs[a].state, "closed")
    <3>1. cs = Return(bs, TRUE) /\ pool[Owner].void = TRUE
      BY <1>1, <1>2, <2>1
    <3> QED BY <1>2, <3>1, ReturnState
  <2> QED BY <1>1, <1>2, <2>1
<1> HIDE DEF f, p, bs, cs, a
<1>9. /\ Len(cs) = Len(bs) /\ \A b \in 1..Len(bs) : cs[b].fn = bs[b].fn
      /\ \A b \in 1..Len(bs) : b # a => cs[b] = bs[b]
  BY <1>8 DEF Touches
<1>10. /\ Good(f) <=> ~Early(f, p) /\ ~(Returned(f, p) <=> f \in autoReturn)
  BY <1>6 DEF Good
<1>11. Good(f) => cs[a].state = "closed"
  BY <1>7, <1>8, <1>10 DEF Then
<1>12. ~Good(f) => \E b \in 1..Len(cs) : cs[b].fn = Tokens[f].sig.key /\ cs[b].state # "closed"
  <2>1. ASSUME Early(f, p)
        PROVE  \E b \in 1..Len(cs) : cs[b].fn = Tokens[f].sig.key /\ cs[b].state # "closed"
    <3>1. PICK b \in 1..Len(bs) : bs[b].fn = Home(frames) /\ bs[b].state = "broken"
      BY <1>7, <2>1
    <3>2. cs[b].state = "broken"
      BY <1>8, <1>9, <3>1 DEF Then
    <3> QED BY <1>4, <1>9, <3>1, <3>2
  <2>2. ASSUME ~Early(f, p), Returned(f, p) <=> f \in autoReturn
        PROVE  cs[a].state # "closed"
    BY <1>7, <1>8, <2>2 DEF Then
  <2> QED BY <1>2, <1>4, <1>9, <1>10, <2>1, <2>2
<1>13. \A b \in 1..Len(bs) : Lives(frames, a, b) <=> b = a
  <2>1. 2..1 = {}
    OBVIOUS
  <2> QED BY <1>2, <2>1 DEF Lives
<1>14. Settled(<<>>, cs, a)
  <2> SUFFICES ASSUME NEW b \in 1..Len(cs), NEW g \in Definitions,
                      cs[b].fn = Tokens[g].sig.key, Good(g)
               PROVE  cs[b].state = "closed"
    BY DEF Settled
  <2>1. CASE b = a
    <3>1. g = f
      BY <1>2, <1>4, <1>9, <2>1, OneDefinition
    <3> QED BY <1>11, <2>1, <3>1
  <2>2. CASE b # a
    <3>1. bs[b].state = "closed"
      BY <1>9, <1>13, <2>2 DEF Verified, Settled, bs, a
    <3> QED BY <1>9, <2>2, <3>1
  <2> QED BY <2>1, <2>2
<1>15. Refused(<<>>, gpos', cs)
  <2> SUFFICES ASSUME NEW g \in Definitions, g < gpos', ~Good(g)
               PROVE  \E b \in 1..Len(cs) : cs[b].fn = Tokens[g].sig.key /\ cs[b].state # "closed"
    BY DEF Refused, Reached
  <2>1. CASE g = f
    BY <1>12, <2>1
  <2>2. CASE g # f
    <3>1. g < Reached(frames, p)
      BY <1>1, <1>2 DEF Reached
    <3>2. PICK b \in 1..Len(bs) : bs[b].fn = Tokens[g].sig.key /\ bs[b].state # "closed"
      BY <2>2, <3>1 DEF Verified, Refused, f, p, bs, a
    <3>3. b # a
      BY <1>2, <1>4, <2>2, <3>2, OneDefinition
    <3> QED BY <1>9, <3>2, <3>3
  <2> QED BY <2>1, <2>2
<1>16. Apart(<<>>, a) /\ Untouched(<<>>, cs) /\ AtPoint(<<>>, gpos', cs, a)
  <2>1. Len(<<>>) = 0 /\ 2..0 = {}
    OBVIOUS
  <2> QED BY <2>1 DEF Apart, Untouched, AtPoint
<1>17. Verified(<<>>, gpos', cs, a)
  BY <1>14, <1>15, <1>16 DEF Verified
<1> QED BY <1>1, <1>3, <1>17 DEF cs, a

-----------------------------------------------------------------------------
(* What the type checker has made sure of before token p: its current      *)
(* function is the last one begun, the functions it added a return to are  *)
(* void, and every return is of the kind of its function.                  *)
LastBegun(cur, p) ==
    cur # 0 => /\ cur \in Definitions /\ cur < p
               /\ \A j \in (cur + 1)..(p - 1) : Tokens[j].op # "function"

RightKind(i, f) == Tokens[f].sig.void <=> Tokens[i].op = "return"

Judged(cur, p, added) ==
    /\ LastBegun(cur, p)
    /\ \A f \in added : Tokens[f].sig.void
    /\ \A i \in 1..(p - 1) : \A f \in Definitions :
         Tokens[i].op \in Returns /\ f < i /\ i <= EndOf(f) => RightKind(i, f)

LEMMA JudgedOn ==
    ASSUME UnitOK, NEW p \in Nat \ {0}, NEW cur, NEW added, Judged(cur, p, added),
           Tokens[p].op # "function" \/ cur = 0, Tokens[p].op \notin Returns
    PROVE  Judged(cur, p + 1, added)
<1>1. \A j \in 1..((p + 1) - 1) : j = p \/ j \in 1..(p - 1)
  OBVIOUS
<1>2. ASSUME cur # 0 PROVE \A j \in (cur + 1)..((p + 1) - 1) : j = p \/ j \in (cur + 1)..(p - 1)
  OBVIOUS
<1>3. LastBegun(cur, p + 1)
  <2> SUFFICES ASSUME cur # 0
               PROVE  /\ cur \in Definitions /\ cur < p + 1
                      /\ \A j \in (cur + 1)..((p + 1) - 1) : Tokens[j].op # "function"
    BY DEF LastBegun
  <2>1. cur \in Definitions /\ cur < p /\ \A j \in (cur + 1)..(p - 1) : Tokens[j].op # "function"
    BY DEF Judged, LastBegun
  <2>2. \A j \in (cur + 1)..((p + 1) - 1) : j = p \/ j \in (cur + 1)..(p - 1)
    BY <1>2
  <2>3. \A j \in (cur + 1)..((p + 1) - 1) : Tokens[j].op # "function"
    BY <2>1, <2>2
  <2>4. cur < p + 1
    <3>1. cur \in Nat
      BY <2>1, TokenFacts DEF Definitions
    <3> QED BY <2>1, <3>1
  <2> QED BY <2>1, <2>3, <2>4
<1> QED BY <1>1, <1>3 DEF Judged

(* No function begins between one at the top level and the returns in it,  *)
(* so the current function is the one they are in.                         *)
LEMMA ReturnOf ==
    ASSUME UnitOK, NoNesting, NEW p \in Positions, NEW cur, cur # 0, LastBegun(cur, p),
           NEW f \in Definitions, f < p, p <= EndOf(f)
    PROVE  f = cur
<1>1. /\ cur \in Definitions /\ cur < p
      /\ \A j \in (cur + 1)..(p - 1) : Tokens[j].op # "function"
  BY DEF LastBegun
<1>2. f \in Nat /\ cur \in Nat /\ p \in Nat /\ Tokens[f].op = "function" /\ EndOf(f) \in Nat
  <2>1. f \in Positions /\ cur \in Positions /\ Tokens[f].op = "function" /\ Depth(f) = 0
    BY <1>1 DEF Definitions, NoNesting
  <2> QED BY <2>1, TokenFacts, EndOfFunction
<1>3. ~(f < cur)
  <2> SUFFICES ASSUME f < cur PROVE FALSE
    OBVIOUS
  <2>1. cur <= EndOf(f)
    BY <1>1, <1>2
  <2> QED BY <1>1, <2>1, NoneWithin
<1>4. ~(cur < f)
  <2> SUFFICES ASSUME cur < f PROVE FALSE
    OBVIOUS
  <2>1. f \in (cur + 1)..(p - 1)
    BY <1>2
  <2> QED BY <1>1, <1>2, <2>1
<1> QED BY <1>2, <1>3, <1>4

LEMMA JudgedNext ==
    ASSUME UnitOK, NoNesting, cpos \in 1..(Len(Tokens) + 1), CheckNext,
           Judged(current, cpos, autoReturn)
    PROVE  Judged(current', cpos', autoReturn')
<1>1. ASSUME NEW ops, Checking(ops)
      PROVE  cpos \in Positions /\ cpos \in Nat \ {0} /\ Tokens[cpos].op \in ops
  BY <1>1, TokenFacts DEF Checking
<1>2. CASE CheckDeclare \/ CheckEvaluate \/ CheckOther \/ CheckOpen \/ CheckClause \/ CheckEnd
  <2>1. /\ Checking({"declare", "evaluate", "other", "if", "while", "elseif", "else", "end"})
        /\ cpos' = cpos + 1 /\ current' = current /\ autoReturn' = autoReturn
    BY <1>2 DEF CheckDeclare, CheckEvaluate, CheckOther, CheckOpen, CheckClause, CheckEnd,
       Checking, Step, Clauses
  <2>2. Tokens[cpos].op # "function" /\ Tokens[cpos].op \notin Returns
    BY <1>1, <2>1 DEF Returns
  <2> QED BY <1>1, <2>1, <2>2, JudgedOn
<1>3. CASE CheckReturn
  <2> DEFINE p == cpos
  <2>1. /\ p \in Positions /\ p \in Nat \ {0} /\ Tokens[p].op \in Returns /\ current # 0
        /\ Tokens[current].sig.void <=> Tokens[p].op = "return"
        /\ cpos' = p + 1 /\ current' = current /\ autoReturn' = autoReturn
    BY <1>1, <1>3 DEF CheckReturn, Step
  <2>2. LastBegun(current, p) /\ \A f \in autoReturn : Tokens[f].sig.void
    BY DEF Judged
  <2> HIDE DEF p
  <2>3. LastBegun(current, p + 1)
    <3>1. /\ current \in Definitions /\ current < p
          /\ \A j \in (current + 1)..(p - 1) : Tokens[j].op # "function"
      BY <2>1, <2>2 DEF LastBegun
    <3>2. current \in Nat /\ current < p + 1
      BY <2>1, <3>1, TokenFacts DEF Definitions
    <3>3. \A j \in (current + 1)..((p + 1) - 1) : j = p \/ j \in (current + 1)..(p - 1)
      BY <2>1, <3>2
    <3>4. Tokens[p].op # "function"
      BY <2>1 DEF Returns
    <3> QED BY <3>1, <3>2, <3>3, <3>4 DEF LastBegun
  <2>4. \A i \in 1..((p + 1) - 1) : i = p \/ i \in 1..(p - 1)
    BY <2>1
  <2>5. ASSUME NEW f \in Definitions, f < p, p <= EndOf(f) PROVE RightKind(p, f)
    <3>1. f = current
      BY <2>1, <2>2, <2>5, ReturnOf
    <3> QED BY <2>1, <3>1 DEF RightKind
  <2>6. \A i \in 1..(p - 1) : \A f \in Definitions :
           Tokens[i].op \in Returns /\ f < i /\ i <= EndOf(f) => RightKind(i, f)
    BY DEF Judged, p
  <2>7. Judged(current, p + 1, autoReturn)
    BY <2>2, <2>3, <2>4, <2>5, <2>6 DEF Judged
  <2> QED BY <2>1, <2>7
<1>4. CASE CheckFunction
  <2>1. /\ cpos \in Positions /\ cpos \in Nat \ {0} /\ Tokens[cpos].op = "function"
        /\ cpos' = cpos + 1 /\ current' = cpos /\ autoReturn' = autoReturn
    BY <1>1, <1>4 DEF CheckFunction, Step
  <2>2. Judged(0, cpos + 1, autoReturn)
    <3>1. Judged(0, cpos, autoReturn)
      BY DEF Judged, LastBegun
    <3>2. Tokens[cpos].op \notin Returns
      BY <2>1 DEF Returns
    <3> QED BY <2>1, <3>1, <3>2, JudgedOn
  <2>3. LastBegun(cpos, cpos + 1)
    <3>1. \A j \in (cpos + 1)..((cpos + 1) - 1) : FALSE
      BY <2>1
    <3>2. cpos \in Definitions /\ cpos < cpos + 1
      BY <2>1 DEF Definitions
    <3> QED BY <3>1, <3>2 DEF LastBegun
  <2> QED BY <2>1, <2>2, <2>3 DEF Judged
<1>5. CASE CheckForward
  <2>1. /\ cpos \in Nat \ {0} /\ Tokens[cpos].op \notin Returns
        /\ cpos' = cpos + 1 /\ current' = 0 /\ autoReturn' = autoReturn
    BY <1>1, <1>5 DEF CheckForward, Step, Returns
  <2>2. Judged(0, cpos, autoReturn)
    BY DEF Judged, LastBegun
  <2> QED BY <2>1, <2>2, JudgedOn
<1>6. CASE CheckFunctionEnd
  <2>1. /\ cpos \in Nat \ {0} /\ Tokens[cpos].op \notin Returns
        /\ cpos' = cpos + 1 /\ current' = 0
    BY <1>1, <1>6 DEF CheckFunctionEnd, Step, Returns
  <2>2. autoReturn' = autoReturn \/ \E f : /\ autoReturn' = autoReturn \cup {f}
                                           /\ Tokens[f].sig.void
    BY <1>6 DEF CheckFunctionEnd
  <2>3. \A f \in autoReturn' : Tokens[f].sig.void
    BY <2>2 DEF Judged
  <2>4. Judged(0, cpos, autoReturn)
    BY DEF Judged, LastBegun
  <2>5. Judged(0, cpos + 1, autoReturn)
    BY <2>1, <2>4, JudgedOn
  <2> QED BY <2>1, <2>3, <2>5 DEF Judged
<1>7. CASE CheckReject \/ CheckCrash \/ CheckDone
  BY <1>7 DEF CheckReject, CheckCrash, CheckDone
<1> QED BY <1>2, <1>3, <1>4, <1>5, <1>6, <1>7 DEF CheckNext

(* The pool agrees on the result of the function visited.                  *)
LEMMA ResultOf ==
    ASSUME UnitOK, Plain, Stands(frames, gpos, blocks, at), gpos \in Positions,
           Tokens[gpos].op \notin {"function", "forward", "other"}
    PROVE  LET f == frames[1].at
           IN  /\ f \in Definitions /\ f < gpos /\ gpos <= EndOf(f)
               /\ Tokens[f].sig.void \in BOOLEAN /\ pool[Owner].void = Tokens[f].sig.void
<1> DEFINE f == frames[1].at
<1>1. NoNesting
  BY DEF Plain
<1>2. frames # <<>> /\ blocks[at].fn = Home(frames)
  BY <1>1, StandsFacts DEF Holds
<1>3. f \in Definitions /\ f < gpos /\ gpos <= EndOf(f) /\ Tokens[f].op = "function"
  BY <1>1, <1>2, WithinBody DEF Stands
<1>4. Owner = Tokens[f].sig.key
  BY <1>2 DEF Owner, Home
<1>5. f \in Positions
  BY <1>3 DEF Definitions
<1> HIDE DEF f
<1>6. pool[Tokens[f].sig.key].void = Tokens[f].sig.void
  BY <1>3 DEF Plain
<1>7. Tokens[f].sig.void \in BOOLEAN
  BY <1>3, <1>5, ParameterFacts DEF Signature
<1> QED BY <1>3, <1>4, <1>6, <1>7 DEF f

LEMMA VerifiedNext ==
    ASSUME UnitOK, Plain, pool = DeclaredPool, Stands(frames, gpos, blocks, at), GenNext,
           Verified(frames, gpos, blocks, at),
           NEW cur, NEW c \in Nat, Len(Tokens) < c, Judged(cur, c, autoReturn)
    PROVE  Verified(frames', gpos', blocks', at')
<1>0. NoNesting
  BY DEF Plain
<1>1. ASSUME NEW ops, Emitting(ops) PROVE gpos \in Positions /\ Tokens[gpos].op \in ops
  <2>1. gpos \in 1..(Len(Tokens) + 1) /\ gpos <= Len(Tokens)
    BY <1>1 DEF Stands, Inside, Emitting
  <2> QED BY <1>1, <2>1, TokenFacts DEF Emitting
<1>2. CASE GenDeclare \/ GenEvaluate \/ GenReturn
  <2>1. gpos \in Positions /\ frames' = frames /\ at' = at /\ gpos' = gpos + 1
    BY <1>1, <1>2 DEF GenDeclare, GenEvaluate, GenReturn, Advance
  <2>2. ASSUME GenReturn
        PROVE  \E void : blocks' = Return(blocks, void) /\ pool[Owner].void = void
    <3> DEFINE f == frames[1].at
               void == Tokens[gpos].op = "return"
    <3>1. Tokens[gpos].op \in Returns /\ blocks' = Return(blocks, void)
      BY <1>1, <2>2 DEF GenReturn
    <3>2. /\ f \in Definitions /\ f < gpos /\ gpos <= EndOf(f)
          /\ Tokens[f].sig.void \in BOOLEAN /\ pool[Owner].void = Tokens[f].sig.void
      BY <2>1, <3>1, ResultOf DEF Returns
    <3>3. gpos \in 1..(c - 1)
      BY <2>1, TokenFacts
    <3>4. Tokens[f].sig.void <=> void
      BY <3>1, <3>2, <3>3 DEF Judged, RightKind
    <3>5. pool[Owner].void = void
      BY <3>2, <3>4
    <3> HIDE DEF void
    <3> QED BY <3>1, <3>5
  <2> QED BY <1>0, <1>2, <2>1, <2>2, VerifiedSimple
<1>3. CASE GenOther \/ GenForward
  <2>1. /\ gpos \in Positions /\ Tokens[gpos].op \in {"other", "forward"} /\ gpos' = gpos + 1
        /\ UNCHANGED <<frames, blocks, at>>
    BY <1>1, <1>3 DEF GenOther, GenForward, Advance
  <2>2. Tokens[gpos].op = "forward" => frames = <<>>
    BY <1>0, <2>1, AtTopLevel DEF Stands
  <2>3. Verified(frames, gpos + 1, blocks, at)
    BY <1>0, <2>1, <2>2, PassesBy DEF Stands
  <2> QED BY <2>1, <2>3
<1>4. CASE GenIf
  BY <1>0, <1>1, <1>4, VerifiedIf DEF GenIf
<1>5. CASE GenElseIf
  BY <1>0, <1>1, <1>5, VerifiedElseIf DEF GenElseIf
<1>6. CASE GenElse
  BY <1>0, <1>1, <1>6, VerifiedElse DEF GenElse
<1>7. CASE GenIfEnd \/ GenWhileEnd
  BY <1>0, <1>1, <1>7, VerifiedEnd DEF GenIfEnd, GenWhileEnd
<1>8. CASE GenWhile
  BY <1>0, <1>1, <1>8, VerifiedWhile DEF GenWhile
<1>9. CASE GenFunction
  BY <1>0, <1>1, <1>9, VerifiedFunction DEF GenFunction
<1>10. CASE GenFunctionEnd
  <2>1. gpos \in Positions /\ Tokens[gpos].op = "end"
    BY <1>1, <1>10 DEF GenFunctionEnd
  <2>2. ASSUME frames[1].at \in autoReturn PROVE pool[Owner].void = TRUE
    <3> DEFINE f == frames[1].at
    <3>1. Tokens[f].sig.void
      BY <2>2 DEF Judged
    <3>2. Tokens[f].sig.void \in BOOLEAN /\ pool[Owner].void = Tokens[f].sig.void
      BY <2>1, ResultOf
    <3> QED BY <3>1, <3>2
  <2> QED BY <1>0, <1>10, <2>1, <2>2, VerifiedFunctionEnd
<1>11. CASE GenReject \/ GenCrash \/ GenDone
  BY <1>11 DEF GenReject, GenCrash, GenDone
<1> QED BY <1>2, <1>3, <1>4, <1>5, <1>6, <1>7, <1>8, <1>9, <1>10, <1>11 DEF GenNext

-----------------------------------------------------------------------------
(* What both passes know of the verifier's verdict.                        *)
VerifierInv ==
    /\ GenInv
    /\ NoNesting => Judged(current, cpos, autoReturn)
    /\ verdict # "checked" => frames = <<>> /\ blocks = <<>> /\ gpos = 1
    /\ Plain => Verified(frames, gpos, blocks, at)
    /\ result = "emitted" => gpos > Len(Tokens)

LEMMA SameTextVerifier ==
    ASSUME unit' = unit
    PROVE  /\ \A cur, p, added : Judged(cur, p, added)' <=> Judged(cur, p, added)
           /\ autoReturn' = autoReturn =>
                \A fs, p, bs, a : Verified(fs, p, bs, a)' <=> Verified(fs, p, bs, a)
<1>1. /\ Tokens' = Tokens /\ Positions' = Positions /\ Definitions' = Definitions
      /\ \A p : Depth(p)' = Depth(p)
  BY SameText
<1>2. \A f : EndOf(f)' = EndOf(f)
  BY <1>1 DEF EndOf
<1>3. \A cur, p, added : Judged(cur, p, added)' <=> Judged(cur, p, added)
  <2>1. \A cur, p : LastBegun(cur, p)' <=> LastBegun(cur, p)
    BY <1>1 DEF LastBegun
  <2>2. \A i, f : RightKind(i, f)' <=> RightKind(i, f)
    BY <1>1 DEF RightKind
  <2> QED BY <1>1, <1>2, <2>1, <2>2 DEF Judged
<1>4. ASSUME autoReturn' = autoReturn
      PROVE  \A fs, p, bs, a : Verified(fs, p, bs, a)' <=> Verified(fs, p, bs, a)
  <2>1. \A f : Good(f)' <=> Good(f)
    <3>1. \A f : (EarlyReturn(f)' <=> EarlyReturn(f)) /\ (EndsInReturn(f)' <=> EndsInReturn(f))
      BY <1>1, <1>2 DEF EarlyReturn, EndsInReturn
    <3> QED BY <1>4, <3>1 DEF Good
  <2>2. /\ \A f, p : Returned(f, p)' <=> Returned(f, p)
        /\ \A f, p : Early(f, p)' <=> Early(f, p)
        /\ \A fs : Home(fs)' = Home(fs)
    BY <1>1 DEF Returned, Early, Home
  <2>3. \A fs, p, bs, a : AtPoint(fs, p, bs, a)' <=> AtPoint(fs, p, bs, a)
    BY <2>2 DEF AtPoint
  <2>4. \A fs, bs, a : Settled(fs, bs, a)' <=> Settled(fs, bs, a)
    BY <1>1, <2>1 DEF Settled, Lives, Waits
  <2>5. \A fs, p, bs : Refused(fs, p, bs)' <=> Refused(fs, p, bs)
    BY <1>1, <2>1 DEF Refused, Reached
  <2>6. /\ \A fs, a : Apart(fs, a)' <=> Apart(fs, a)
        /\ \A fs, bs : Untouched(fs, bs)' <=> Untouched(fs, bs)
    BY DEF Apart, Untouched, Waits
  <2> QED BY <2>3, <2>4, <2>5, <2>6 DEF Verified
<1> QED BY <1>3, <1>4

(* Before anything is emitted.                                             *)
LEMMA NothingEmitted ==
    ASSUME UnitOK, NEW a
    PROVE  Verified(<<>>, 1, <<>>, a)
<1>1. Len(<<>>) = 0 /\ 1..0 = {} /\ 2..0 = {}
  OBVIOUS
<1>2. \A f \in Definitions : ~(f < 1)
  BY TokenFacts DEF Definitions
<1>3. Refused(<<>>, 1, <<>>)
  BY <1>2 DEF Refused, Reached
<1> QED BY <1>1, <1>3 DEF Verified, Apart, Untouched, AtPoint, Settled

LEMMA VerifierInit == Init => VerifierInv
<1> SUFFICES ASSUME Init PROVE VerifierInv
  OBVIOUS
<1>1. GenInv /\ UnitOK
  BY GenInvInit DEF GenInv, CheckInv
<1>2. /\ frames = <<>> /\ blocks = <<>> /\ gpos = 1 /\ result = "emitting"
      /\ current = 0 /\ autoReturn = {} /\ cpos = 1
  BY DEF Init, GenInit, CheckInit
<1>3. Verified(frames, gpos, blocks, at)
  BY <1>1, <1>2, NothingEmitted
<1>4. Judged(current, cpos, autoReturn)
  <2>1. \A i \in 1..(1 - 1) : FALSE
    OBVIOUS
  <2> QED BY <1>2, <2>1 DEF Judged, LastBegun
<1> QED BY <1>1, <1>2, <1>3, <1>4 DEF VerifierInv

LEMMA VerifierStep == VerifierInv /\ [Next]_vars => VerifierInv'
<1> SUFFICES ASSUME VerifierInv, [Next]_vars PROVE VerifierInv'
  OBVIOUS
<1>1. unit' = unit /\ GenInv /\ GenInv' /\ UnitOK /\ CheckInv
  BY UnitKept, GenInvStep DEF VerifierInv, GenInv, CheckInv
<1>2. Tokens' = Tokens /\ Definitions' = Definitions /\ (NoNesting' <=> NoNesting)
  BY <1>1, SameText, SameTextGen
<1>3. CASE Check
  <2>1. UNCHANGED <<gpos, frames, blocks, at, result>> /\ CheckNext
    BY <1>3 DEF Check, genVars
  <2>2. verdict = "checking"
    BY <2>1 DEF CheckNext, CheckDeclare, CheckEvaluate, CheckOther, CheckReturn, CheckOpen,
       CheckClause, CheckEnd, CheckFunction, CheckForward, CheckFunctionEnd, CheckReject,
       CheckCrash, CheckDone, Checking
  <2>3. frames' = <<>> /\ blocks' = <<>> /\ gpos' = 1 /\ result' = "emitting"
    BY <1>1, <2>1, <2>2 DEF VerifierInv, GenInv
  <2>4. Verified(frames, gpos, blocks, at)'
    <3>1. Len(<<>>) = 0 /\ 1..0 = {} /\ 2..0 = {}
      OBVIOUS
    <3>2. \A f \in Definitions' : ~(f < 1)
      BY <1>1, <1>2, TokenFacts DEF Definitions
    <3>3. Refused(frames, gpos, blocks)'
      BY <2>3, <3>2 DEF Refused, Reached
    <3> QED BY <2>3, <3>1, <3>3 DEF Verified, Apart, Untouched, AtPoint, Settled
  <2>5. NoNesting => Judged(current', cpos', autoReturn')
    BY <1>1, <2>1, JudgedNext DEF VerifierInv, CheckInv, Walked
  <2> QED BY <1>1, <1>2, <2>3, <2>4, <2>5, SameTextVerifier DEF VerifierInv
<1>4. CASE Generate
  <2>1. /\ UNCHANGED <<cpos, current, verdict>> /\ verdict = "checked" /\ GenNext
        /\ autoReturn' = autoReturn
    BY <1>4 DEF Generate, checkVars, GenNext, GenDeclare, GenEvaluate, GenOther, GenReturn,
       GenIf, GenElseIf, GenElse, GenIfEnd, GenWhile, GenWhileEnd, GenFunction, GenForward,
       GenFunctionEnd, GenReject, GenCrash, GenDone
  <2>2. NoNesting => /\ pool' = pool /\ pool = DeclaredPool /\ Stands(frames, gpos, blocks, at)
    BY <1>1, <2>1, StandsNext DEF GenInv
  <2>3. Plain' => Plain
    BY <1>1, <1>2, <2>2, SameTextGen DEF Plain
  <2>4. cpos \in Nat /\ Len(Tokens) < cpos
    BY <1>1, <2>1, TokenFacts DEF CheckInv, Walked
  <2>5. Plain => Verified(frames', gpos', blocks', at')
    <3> SUFFICES ASSUME Plain PROVE Verified(frames', gpos', blocks', at')
      OBVIOUS
    <3>1. NoNesting
      BY DEF Plain
    <3> QED BY <1>1, <2>1, <2>2, <2>4, <3>1, VerifiedNext DEF VerifierInv
  <2>6. result' = "emitted" => gpos' > Len(Tokens')
    <3>1. CASE GenDone
      BY <1>2, <3>1 DEF GenDone
    <3>2. CASE ~GenDone
      BY <2>1, <3>2 DEF GenNext, GenDeclare, GenEvaluate, GenOther, GenReturn, GenIf, GenElseIf,
         GenElse, GenIfEnd, GenWhile, GenWhileEnd, GenFunction, GenForward, GenFunctionEnd,
         GenReject, GenCrash, Emitting
    <3> QED BY <3>1, <3>2
  <2>7. Plain' => Verified(frames, gpos, blocks, at)'
    BY <1>1, <2>1, <2>3, <2>5, SameTextVerifier
  <2>8. NoNesting' => Judged(current, cpos, autoReturn)'
    BY <1>1, <1>2, <2>1, SameTextVerifier DEF VerifierInv
  <2> QED BY <1>1, <2>1, <2>6, <2>7, <2>8 DEF VerifierInv
<1>5. CASE UNCHANGED vars
  <2>1. /\ UNCHANGED <<unit, autoReturn, cpos, current, verdict, gpos, pool, frames, blocks, at>>
        /\ result' = result
    BY <1>5 DEF vars, checkVars, genVars
  <2>2. Plain' <=> Plain
    BY <1>1, <2>1, SameTextGen
  <2> QED BY <1>1, <1>2, <2>1, <2>2, SameTextVerifier DEF VerifierInv
<1> QED BY <1>3, <1>4, <1>5 DEF Next

(* Of the functions of an emitted plain file all blocks end in their only  *)
(* terminator, but for those with a return that anything but nested        *)
(* definitions follows, and those that have no return at their end or have *)
(* two there, their own and the one the type checker adds.                 *)
LEMMA TerminatedAre ==
    ASSUME VerifierInv, result = "emitted", Plain, NEW f \in Definitions
    PROVE  /\ Terminated(Tokens[f].sig.key) <=> Good(f)
           /\ frames = <<>>
<1>1. /\ UnitOK /\ Inside(frames, gpos) /\ gpos > Len(Tokens) /\ blocks \in Seq(Block)
      /\ Settled(frames, blocks, at) /\ Refused(frames, gpos, blocks)
  BY DEF VerifierInv, GenInv, CheckInv, Plain, Stands, Owned, Verified
<1>2. frames = <<>> /\ f < gpos /\ DOMAIN blocks = 1..Len(blocks)
  <2>1. gpos = Len(Tokens) + 1 /\ f \in 1..Len(Tokens) /\ Len(Tokens) \in Nat
    BY <1>1, TokenFacts DEF Inside, Definitions
  <2>2. Len(frames) = 0 /\ frames \in Seq(Frame)
    BY <1>1, <2>1, ShapeFacts DEF Inside
  <2> QED BY <1>1, <2>1, <2>2
<1>3. ASSUME Good(f) PROVE Terminated(Tokens[f].sig.key)
  <2>1. \A b : ~Lives(frames, at, b)
    BY <1>2 DEF Lives
  <2> QED BY <1>1, <1>2, <1>3, <2>1 DEF Settled, Terminated
<1>4. ASSUME ~Good(f) PROVE ~Terminated(Tokens[f].sig.key)
  <2>1. \E b \in 1..Len(blocks) : blocks[b].fn = Tokens[f].sig.key /\ blocks[b].state # "closed"
    BY <1>1, <1>2, <1>4 DEF Refused, Reached
  <2> QED BY <1>2, <2>1 DEF Terminated
<1> QED BY <1>2, <1>3, <1>4

(* In a plain file that was emitted every block ends in its only           *)
(* terminator in exactly the functions that no statement behind a return   *)
(* spoils and that got one return at the end (ir.cpp:664, ir.cpp:169).     *)
THEOREM Terminating == Spec => []TerminatedFunctions
<1>1. VerifierInv => TerminatedFunctions
  <2> SUFFICES ASSUME VerifierInv, result = "emitted", Plain, NEW f \in Definitions
               PROVE  Terminated(Tokens[f].sig.key) <=>
                        ~EarlyReturn(f) /\ ~(EndsInReturn(f) <=> f \in autoReturn)
    BY DEF TerminatedFunctions
  <2> QED BY TerminatedAre DEF Good
<1> QED BY <1>1, VerifierInit, VerifierStep, PTL DEF Spec

-----------------------------------------------------------------------------
(* Where control goes: At unfolded once.                                   *)
LEMMA AtIs ==
    ASSUME UnitOK, NEW i \in Positions
    PROVE  At(i) = IF Passed(i) /\ Onward(i) \in (i + 1)..Len(Tokens) THEN At(Onward(i))
                   ELSE {Stop(i)}
<1> DEFINE N == Len(Tokens)
           Body(f) == [j \in Positions |->
                         IF Passed(j) /\ Onward(j) \in (j + 1)..N THEN f[Onward(j)] ELSE {Stop(j)}]
           to == CHOOSE f : f = Body(f)
           next == [j \in Positions |-> IF Passed(j) THEN Onward(j) ELSE 0]
           stop == [j \in Positions |-> {Stop(j)}]
<1>1. N \in Nat /\ Positions = 1..N
  BY TokenFacts
<1>2. \A p : At(p) = to[p]
  BY DEF At
<1>3. \E f : Refers(N, next, stop, f)
  <2> HIDE DEF next, stop, N
  <2> QED BY <1>1, ReferringExists
<1>4. \A j \in 1..N : 0 \notin (j + 1)..N
  BY <1>1
<1>5. ASSUME NEW f PROVE [j \in 1..N |-> IF next[j] \in (j + 1)..N THEN f[next[j]] ELSE stop[j]] = Body(f)
  <2>1. ASSUME NEW j \in 1..N
        PROVE  (IF next[j] \in (j + 1)..N THEN f[next[j]] ELSE stop[j])
                 = (IF Passed(j) /\ Onward(j) \in (j + 1)..N THEN f[Onward(j)] ELSE {Stop(j)})
    <3>1. next[j] = (IF Passed(j) THEN Onward(j) ELSE 0) /\ stop[j] = {Stop(j)}
      BY <1>1
    <3> HIDE DEF next, stop, N
    <3>2. CASE Passed(j)
      BY <3>1, <3>2
    <3>3. CASE ~Passed(j)
      BY <1>4, <3>1, <3>3
    <3> QED BY <3>2, <3>3
  <2> HIDE DEF next, stop, N
  <2> QED BY <1>1, <2>1
<1>6. \E f : f = Body(f)
  <2>1. PICK f : Refers(N, next, stop, f)
    BY <1>3
  <2> HIDE DEF next, stop, N, Body
  <2>2. f = Body(f)
    BY <1>5, <2>1 DEF Refers
  <2> QED BY <2>2
<1>7. to = Body(to)
  <2> HIDE DEF Body
  <2> QED BY <1>6
<1>8. to[i] = IF Passed(i) /\ Onward(i) \in (i + 1)..N THEN to[Onward(i)] ELSE {Stop(i)}
  <2>1. Body(to)[i] = IF Passed(i) /\ Onward(i) \in (i + 1)..N THEN to[Onward(i)] ELSE {Stop(i)}
    <3> HIDE DEF to, N
    <3> QED OBVIOUS
  <2> HIDE DEF Body, to, N
  <2> QED BY <1>7, <2>1
<1> QED BY <1>2, <1>8

(* An end belongs to the last construct opened before it on the level      *)
(* below.                                                                  *)
LEMMA OpenerIs ==
    ASSUME UnitOK, NEW j \in Positions, NEW o \in 1..j, Tokens[o].op \in Openers,
           Depth(o) = Depth(j) - 1, \A i \in (o + 1)..j : Depth(i) >= Depth(j)
    PROVE  OpenerOf(j) = o
<1> DEFINE S == {i \in 1..j : Tokens[i].op \in Openers /\ Depth(i) = Depth(j) - 1}
<1>1. j \in Nat \ {0} /\ Depth(j) \in Int
  BY TokenFacts, DepthType
<1>2. o \in S
  OBVIOUS
<1>3. ASSUME NEW i \in S PROVE i <= o /\ i \in Nat
  <2>1. ~(i \in (o + 1)..j)
    BY <1>1
  <2> QED BY <1>1, <2>1
<1>4. OpenerOf(j) = Max(S)
  BY DEF OpenerOf
<1> HIDE DEF S
<1>5. \A x \in S : (\A y \in S : x >= y) => x = o
  BY <1>2, <1>3
<1>6. \A y \in S : o >= y
  BY <1>3
<1>7. Max(S) = o
  BY <1>2, <1>5, <1>6 DEF Max
<1> QED BY <1>4, <1>7

(* The first token of the body of f that is not a nested struct definition. *)
FirstIn(f, q) == /\ q \in (f + 1)..EndOf(f) /\ Tokens[q].op # "other"
                 /\ \A j \in (f + 1)..(q - 1) : Tokens[j].op = "other"

LEMMA FirstStatement ==
    ASSUME UnitOK, NoNesting, NEW f \in Definitions
    PROVE  \E q \in Positions : /\ FirstIn(f, q) /\ At(f + 1) = {q}
                                /\ Tokens[q].op \notin {"function", "forward", "other"} \cup Clauses
                                /\ Tokens[q].op = "end" => q = EndOf(f)
<1>1. /\ f \in Positions /\ f \in Nat \ {0} /\ Tokens[f].op = "function" /\ Depth(f) = 0
      /\ EndOf(f) \in Positions /\ EndOf(f) \in Nat /\ f < EndOf(f) /\ Tokens[EndOf(f)].op = "end"
      /\ \A j \in Positions : j > f /\ Tokens[j].op = "end" /\ Depth(j) = 1 => EndOf(f) <= j
      /\ Len(Tokens) \in Nat /\ Positions = 1..Len(Tokens) /\ Depth(f + 1) = 1
  <2>1. f \in Positions /\ Tokens[f].op = "function" /\ Depth(f) = 0
    BY DEF Definitions, NoNesting
  <2>2. f \in Nat \ {0}
    BY <2>1, TokenFacts
  <2>3. Depth(f + 1) = 1
    BY <2>1, <2>2, NextDepth DEF Openers
  <2> QED BY <2>1, <2>2, <2>3, EndOfFunction, TokenFacts
<1> DEFINE e == EndOf(f)
           S == {k \in (f + 1)..e : Tokens[k].op # "other"}
<1>2. PICK q \in S : \A k \in S : q <= k
  <2>1. S \in SUBSET Nat /\ e \in S
    BY <1>1
  <2> HIDE DEF S
  <2> QED BY <2>1, HasLeast
<1>3. /\ q \in (f + 1)..e /\ q \in Positions /\ q \in Nat /\ Tokens[q].op # "other"
      /\ f + 1 <= q /\ q <= e /\ e \in Nat
  BY <1>1
<1>4. ASSUME NEW j \in (f + 1)..(q - 1) PROVE Tokens[j].op = "other"
  <2>1. j \in (f + 1)..e /\ ~(q <= j)
    BY <1>1, <1>3
  <2> QED BY <1>2, <2>1
<1> HIDE DEF S, e
<1> DEFINE T == {k \in Nat : Depth(f + 1 + k) = 1 /\ At(f + 1) = At(f + 1 + k)}
           d == q - (f + 1)
<1>5. d \in Nat /\ f + 1 + d = q
  BY <1>1, <1>3
<1>6. 0 \in T
  BY <1>1
<1>7. ASSUME NEW k \in 0..(d - 1), k \in T PROVE k + 1 \in T
  <2> DEFINE j == f + 1 + k
  <2>1. /\ j \in (f + 1)..(q - 1) /\ j \in Nat \ {0} /\ j + 1 = f + 1 + (k + 1)
        /\ j \in Positions /\ j + 1 \in (j + 1)..Len(Tokens)
    BY <1>1, <1>3, <1>5
  <2>2. Depth(j) = 1 /\ At(f + 1) = At(j)
    BY <1>7
  <2> HIDE DEF j
  <2>3. Tokens[j].op = "other"
    BY <1>4, <2>1
  <2>4. Depth(j + 1) = 1
    BY <2>1, <2>2, <2>3, NextDepth DEF Openers
  <2>5. Passed(j) /\ Onward(j) = j + 1
    BY <2>3 DEF Passed, Onward, Clauses
  <2>6. At(j) = At(j + 1)
    BY <2>1, <2>5, AtIs
  <2> QED BY <2>1, <2>2, <2>4, <2>6
<1>8. \A k \in 0..d : Depth(f + 1 + k) = 1 /\ At(f + 1) = At(f + 1 + k)
  <2> HIDE DEF T, d
  <2>1. 0..d \subseteq T
    BY <1>5, <1>6, <1>7, UpTo
  <2> QED BY <2>1 DEF T
<1>9. Depth(q) = 1 /\ At(f + 1) = At(q)
  <2>1. d \in 0..d
    BY <1>5
  <2> HIDE DEF d
  <2> QED BY <1>5, <1>8, <2>1
<1>10. \A i \in (f + 1)..q : Depth(i) = 1
  <2> SUFFICES ASSUME NEW i \in (f + 1)..q PROVE Depth(i) = 1
    OBVIOUS
  <2>1. i - (f + 1) \in 0..d /\ f + 1 + (i - (f + 1)) = i
    BY <1>1, <1>3
  <2> HIDE DEF d
  <2> QED BY <1>8, <2>1
<1> HIDE DEF d, T
<1>11. Tokens[q].op \notin Clauses
  <2> SUFFICES ASSUME Tokens[q].op \in Clauses PROVE FALSE
    OBVIOUS
  <2>1. PICK o \in 1..(q - 1) : Tokens[o].op = "if" /\ Depth(o) = Depth(q) - 1
    BY <1>3, ShapeFacts DEF ClausesOfIfs, Positions, Depth
  <2>2. o \in Positions /\ Depth(o) = 0
    BY <1>1, <1>3, <1>9, <2>1
  <2> QED BY <2>1, <2>2, ShapeFacts
<1>12. Tokens[q].op \notin {"function", "forward"}
  BY <1>3, <1>9 DEF NoNesting
<1>13. Tokens[q].op = "end" => q = e /\ OpenerOf(q) = f
  <2> SUFFICES ASSUME Tokens[q].op = "end" PROVE q = e /\ OpenerOf(q) = f
    OBVIOUS
  <2>1. q = e
    <3>1. e <= q
      BY <1>1, <1>3, <1>9 DEF e
    <3> QED BY <1>1, <1>3, <3>1 DEF e
  <2>2. f \in 1..q /\ Tokens[f].op \in Openers /\ Depth(f) = Depth(q) - 1
    BY <1>1, <1>3, <1>9 DEF Openers
  <2>3. \A i \in (f + 1)..q : Depth(i) >= Depth(q)
    BY <1>9, <1>10
  <2> QED BY <1>3, <2>1, <2>2, <2>3, OpenerIs
<1>14. ~Passed(q) /\ Stop(q) = q
  BY <1>1, <1>3, <1>11, <1>12, <1>13 DEF Passed, Stop
<1>15. At(q) = {q}
  BY <1>3, <1>14, AtIs
<1> QED BY <1>3, <1>4, <1>9, <1>11, <1>12, <1>13, <1>15 DEF FirstIn, e

-----------------------------------------------------------------------------
(* The blocks a token is emitted in.                                       *)
In(bs, i) == {b \in DOMAIN bs : i \in Range(bs[b].code)}

LEMMA InIsFinite ==
    ASSUME NEW bs \in Seq(Block), NEW i
    PROVE  IsFiniteSet(In(bs, i)) /\ Cardinality(In(bs, i)) \in Nat
<1>1. In(bs, i) \subseteq 1..Len(bs) /\ Len(bs) \in Nat
  BY DEF In
<1>2. IsFiniteSet(1..Len(bs))
  BY <1>1, FS_Interval
<1> QED BY <1>1, <1>2, FS_Subset, FS_CardinalityType

LEMMA SameCode ==
    ASSUME NEW bs \in Seq(Block), NEW cs \in Seq(Block), Len(bs) <= Len(cs),
           \A b \in 1..Len(bs) : cs[b].code = bs[b].code,
           \A b \in (Len(bs) + 1)..Len(cs) : cs[b].code = <<>>
    PROVE  \A i : In(cs, i) = In(bs, i)
<1> SUFFICES ASSUME NEW i PROVE In(cs, i) = In(bs, i)
  OBVIOUS
<1>1. DOMAIN bs = 1..Len(bs) /\ DOMAIN cs = 1..Len(cs) /\ Len(bs) \in Nat /\ Len(cs) \in Nat
  OBVIOUS
<1>2. i \notin Range(<<>>)
  BY DEF Range
<1>3. \A b \in 1..Len(cs) : b \notin 1..Len(bs) => b \in (Len(bs) + 1)..Len(cs)
  BY <1>1
<1>4. \A b \in 1..Len(bs) : b \in 1..Len(cs)
  BY <1>1
<1> QED BY <1>1, <1>2, <1>3, <1>4 DEF In

LEMMA EmitCode ==
    ASSUME NEW bs \in Seq(Block), NEW b \in 1..Len(bs), NEW i \in Positions
    PROVE  /\ Emit(bs, b, i) \in Seq(Block) /\ Len(Emit(bs, b, i)) = Len(bs)
           /\ \A j : j # i => In(Emit(bs, b, i), j) = In(bs, j)
           /\ bs[b].state = "open" => In(Emit(bs, b, i), i) = In(bs, i) \cup {b}
<1> DEFINE y == bs[b]
           x == IF y.state = "open" THEN [y EXCEPT !.code = Append(bs[b].code, i)]
                ELSE [y EXCEPT !.state = "broken"]
           cs == Emit(bs, b, i)
<1>1. y \in Block /\ y.code \in Seq(Positions)
  <2>1. y \in Block
    OBVIOUS
  <2> QED BY <2>1 DEF Block
<1>2. /\ y.state = "open" => x.code = Append(y.code, i)
      /\ y.state # "open" => x.code = y.code
  BY <1>1 DEF Block
<1>3. Touches(bs, cs, b)
  BY EmitState
<1>4. cs[b] = x
  <2>1. cs = [bs EXCEPT ![b] = x]
    BY DEF Emit
  <2> HIDE DEF x, cs
  <2> QED BY <2>1
<1>5. Range(Append(y.code, i)) = Range(y.code) \cup {i}
  <2> DEFINE s == y.code
             n == Len(s)
  <2>1. s \in Seq(Positions) /\ n \in Nat /\ DOMAIN s = 1..n
    BY <1>1
  <2>2. DOMAIN Append(s, i) = 1..(n + 1) /\ \A k \in 1..n : Append(s, i)[k] = s[k]
        /\ Append(s, i)[n + 1] = i
    BY <2>1
  <2> HIDE DEF s, n
  <2>3. 1..(n + 1) = 1..n \cup {n + 1}
    BY <2>1
  <2>4. Range(Append(s, i)) = Range(s) \cup {i}
    BY <2>1, <2>2, <2>3 DEF Range
  <2> QED BY <2>4 DEF s
<1> HIDE DEF x, cs
<1>6. DOMAIN cs = DOMAIN bs /\ DOMAIN bs = 1..Len(bs) /\ cs \in Seq(Block) /\ Len(cs) = Len(bs)
      /\ \A c \in 1..Len(bs) : c # b => cs[c] = bs[c]
  BY <1>3 DEF Touches
<1>7. ASSUME NEW j, j # i PROVE In(cs, j) = In(bs, j)
  <2>1. j \in Range(cs[b].code) <=> j \in Range(bs[b].code)
    BY <1>2, <1>4, <1>5, <1>7
  <2> QED BY <1>6, <2>1 DEF In
<1>8. ASSUME y.state = "open" PROVE In(cs, i) = In(bs, i) \cup {b}
  <2>1. i \in Range(cs[b].code)
    BY <1>2, <1>4, <1>5, <1>8
  <2> QED BY <1>6, <2>1 DEF In
<1> QED BY <1>6, <1>7, <1>8 DEF cs

LEMMA TerminateCode ==
    ASSUME NEW bs \in Seq(Block), NEW b \in 1..Len(bs), NEW targets \in Seq(Nat)
    PROVE  /\ Terminate(bs, b, targets) \in Seq(Block) /\ Len(Terminate(bs, b, targets)) = Len(bs)
           /\ \A j : In(Terminate(bs, b, targets), j) = In(bs, j)
           /\ \A c \in 1..Len(bs) : c # b => Terminate(bs, b, targets)[c] = bs[c]
<1> DEFINE y == bs[b]
           x == IF y.state = "open" THEN [y EXCEPT !.next = targets, !.state = "closed"]
                ELSE [y EXCEPT !.state = "broken"]
           cs == Terminate(bs, b, targets)
<1>1. y \in Block
  OBVIOUS
<1>2. x.code = y.code
  BY <1>1 DEF Block
<1>3. Touches(bs, cs, b)
  BY TerminateState
<1>4. cs[b] = x
  <2>1. cs = [bs EXCEPT ![b] = x]
    BY DEF Terminate
  <2> HIDE DEF x, cs
  <2> QED BY <2>1
<1> HIDE DEF x, cs, y
<1>5. cs \in Seq(Block) /\ Len(cs) = Len(bs) /\ \A c \in 1..Len(bs) : c # b => cs[c] = bs[c]
  BY <1>3 DEF Touches
<1>6. \A c \in 1..Len(bs) : cs[c].code = bs[c].code
  BY <1>2, <1>4, <1>5 DEF y
<1>7. Len(bs) <= Len(cs) /\ \A c \in (Len(bs) + 1)..Len(cs) : cs[c].code = <<>>
  BY <1>5
<1>8. \A j : In(cs, j) = In(bs, j)
  BY <1>5, <1>6, <1>7, SameCode
<1> QED BY <1>5, <1>8 DEF cs

LEMMA FreshCode ==
    ASSUME blocks \in Seq(Block), NEW x \in 1..Len(blocks), NEW n \in Nat
    PROVE  /\ Fresh(blocks, x, n) \in Seq(Block) /\ Len(Fresh(blocks, x, n)) = Len(blocks) + n
           /\ \A b \in 1..Len(blocks) : Fresh(blocks, x, n)[b] = blocks[b]
           /\ \A b \in (Len(blocks) + 1)..(Len(blocks) + n) :
                 Fresh(blocks, x, n)[b].state = "open" /\ Fresh(blocks, x, n)[b].code = <<>>
           /\ \A j : In(Fresh(blocks, x, n), j) = In(blocks, j)
<1> DEFINE y == NewBlock(blocks[x].fn)
           new == [k \in 1..n |-> y]
           cs == Fresh(blocks, x, n)
<1>1. y \in Block /\ y.state = "open" /\ y.code = <<>>
  <2>1. blocks[x] \in Block
    OBVIOUS
  <2> QED BY <2>1 DEF NewBlock, Block
<1> HIDE DEF y
<1>2. new \in Seq(Block) /\ Len(new) = n /\ \A k \in 1..n : new[k] = y
  BY <1>1
<1>3. cs = blocks \o new
  BY DEF Fresh, y
<1> HIDE DEF new, cs
<1>4. /\ cs \in Seq(Block) /\ Len(cs) = Len(blocks) + n
      /\ \A b \in 1..Len(blocks) : cs[b] = blocks[b]
      /\ \A b \in (Len(blocks) + 1)..(Len(blocks) + n) : cs[b] = new[b - Len(blocks)]
  BY <1>2, <1>3, Joined
<1>5. \A b \in (Len(blocks) + 1)..(Len(blocks) + n) : cs[b] = y
  BY <1>2, <1>4
<1>6. Len(blocks) \in Nat /\ Len(blocks) <= Len(cs)
  BY <1>4
<1>7. \A j : In(cs, j) = In(blocks, j)
  <2>1. \A b \in (Len(blocks) + 1)..Len(cs) : cs[b].code = <<>>
    BY <1>1, <1>4, <1>5
  <2> QED BY <1>4, <1>6, <2>1, SameCode
<1> QED BY <1>1, <1>4, <1>5, <1>7 DEF cs

LEMMA ReturnCode ==
    ASSUME blocks \in Seq(Block), at \in 1..Len(blocks), gpos \in Positions, NEW void
    PROVE  LET cs == Return(blocks, void)
           IN  /\ cs \in Seq(Block)
               /\ \A j : j # gpos => In(cs, j) = In(blocks, j)
               /\ blocks[at].state = "open" => In(cs, gpos) = In(blocks, gpos) \cup {at}
<1> DEFINE em == Emit(blocks, at, gpos)
           ret == Terminate(em, at, <<>>)
           x == [ret[at] EXCEPT !.state = "broken"]
           cs == Return(blocks, void)
<1>1. /\ em \in Seq(Block) /\ Len(em) = Len(blocks)
      /\ \A j : j # gpos => In(em, j) = In(blocks, j)
      /\ blocks[at].state = "open" => In(em, gpos) = In(blocks, gpos) \cup {at}
  BY EmitCode
<1> HIDE DEF em
<1>2. <<>> \in Seq(Nat)
  OBVIOUS
<1>3. ret \in Seq(Block) /\ Len(ret) = Len(em) /\ \A j : In(ret, j) = In(em, j)
  <2>1. at \in 1..Len(em)
    BY <1>1
  <2> QED BY <1>1, <1>2, <2>1, TerminateCode
<1>4. cs = ret \/ cs = [ret EXCEPT ![at] = x]
  BY DEF Return, em
<1> HIDE DEF ret, cs
<1>5. at \in 1..Len(ret) /\ ret[at] \in Block
  BY <1>1, <1>3
<1>6. x \in Block /\ x.code = ret[at].code /\ x.fn = ret[at].fn
  BY <1>5 DEF Block
<1> HIDE DEF x
<1>7. Touches(ret, [ret EXCEPT ![at] = x], at) /\ [ret EXCEPT ![at] = x][at] = x
  BY <1>3, <1>5, <1>6, TouchOne
<1>8. \A j : In([ret EXCEPT ![at] = x], j) = In(ret, j)
  <2> DEFINE ds == [ret EXCEPT ![at] = x]
  <2>1. ds \in Seq(Block) /\ Len(ds) = Len(ret) /\ \A b \in 1..Len(ret) : ds[b].code = ret[b].code
    BY <1>6, <1>7 DEF Touches
  <2> HIDE DEF ds
  <2>2. Len(ret) <= Len(ds) /\ \A b \in (Len(ret) + 1)..Len(ds) : ds[b].code = <<>>
    BY <1>3, <2>1
  <2>3. \A j : In(ds, j) = In(ret, j)
    BY <1>3, <2>1, <2>2, SameCode
  <2> QED BY <2>3 DEF ds
<1>9. cs \in Seq(Block) /\ \A j : In(cs, j) = In(ret, j)
  BY <1>3, <1>4, <1>7, <1>8 DEF Touches
<1> QED BY <1>1, <1>3, <1>9 DEF cs

(* A token of a function's body is emitted nowhere but in its own block,   *)
(* one that was not emitted in yet.                                        *)
Appends(op) == op \in {"declare", "evaluate", "if", "while"} \cup Returns

EmitsOnly(bs, cs, a, i) ==
    /\ \A j : j # i => In(cs, j) = In(bs, j)
    /\ Appends(Tokens[i].op) /\ bs[a].state = "open" /\ bs[a].code = <<>> =>
          \E b : b \notin In(bs, i) /\ In(cs, i) = In(bs, i) \cup {b}

LEMMA CodeSimple ==
    ASSUME UnitOK, NoNesting, Stands(frames, gpos, blocks, at), gpos \in Positions,
           GenDeclare \/ GenEvaluate \/ GenReturn
    PROVE  EmitsOnly(blocks, blocks', at, gpos)
<1>1. Tokens[gpos].op \in {"declare", "evaluate"} \cup Returns
  BY DEF GenDeclare, GenEvaluate, GenReturn, Emitting
<1>2. blocks \in Seq(Block) /\ at \in 1..Len(blocks)
  BY <1>1, StandsFacts DEF Returns
<1>3. /\ \A j : j # gpos => In(blocks', j) = In(blocks, j)
      /\ blocks[at].state = "open" => In(blocks', gpos) = In(blocks, gpos) \cup {at}
  <2>1. CASE GenDeclare \/ GenEvaluate
    <3>1. blocks' = Emit(blocks, at, gpos)
      BY <2>1 DEF GenDeclare, GenEvaluate
    <3> QED BY <1>2, <3>1, EmitCode
  <2>2. CASE GenReturn
    <3>1. blocks' = Return(blocks, Tokens[gpos].op = "return")
      BY <2>2 DEF GenReturn
    <3> QED BY <1>2, <3>1, ReturnCode
  <2> QED BY <2>1, <2>2
<1>4. blocks[at].code = <<>> => at \notin In(blocks, gpos)
  BY DEF In, Range
<1> QED BY <1>3, <1>4 DEF EmitsOnly

LEMMA CodeIf ==
    ASSUME UnitOK, NoNesting, Stands(frames, gpos, blocks, at), gpos \in Positions, GenIf
    PROVE  EmitsOnly(blocks, blocks', at, gpos)
<1> DEFINE n == Len(blocks)
           cs == Fresh(blocks, at, 3)
           ds == Emit(cs, at, gpos)
           es == Terminate(ds, at, <<n + 2, n + 3>>)
<1>1. Tokens[gpos].op = "if" /\ blocks' = es
  BY DEF GenIf, Emitting
<1>2. blocks \in Seq(Block) /\ at \in 1..n /\ n \in Nat /\ <<n + 2, n + 3>> \in Seq(Nat)
  BY <1>1, StandsFacts
<1>3. /\ cs \in Seq(Block) /\ Len(cs) = n + 3 /\ \A b \in 1..n : cs[b] = blocks[b]
      /\ \A j : In(cs, j) = In(blocks, j)
  BY <1>2, FreshCode
<1>4. at \in 1..Len(cs) /\ cs[at] = blocks[at]
  BY <1>2, <1>3
<1> HIDE DEF cs, n
<1>5. /\ ds \in Seq(Block) /\ Len(ds) = Len(cs)
      /\ \A j : j # gpos => In(ds, j) = In(cs, j)
      /\ cs[at].state = "open" => In(ds, gpos) = In(cs, gpos) \cup {at}
  BY <1>3, <1>4, EmitCode
<1> HIDE DEF ds
<1>6. \A j : In(es, j) = In(ds, j)
  <2>1. at \in 1..Len(ds)
    BY <1>4, <1>5
  <2> QED BY <1>2, <1>5, <2>1, TerminateCode
<1>7. blocks[at].code = <<>> => at \notin In(blocks, gpos)
  BY DEF In, Range
<1> HIDE DEF es
<1> QED BY <1>1, <1>3, <1>4, <1>5, <1>6, <1>7 DEF EmitsOnly

LEMMA CodeWhile ==
    ASSUME UnitOK, NoNesting, Stands(frames, gpos, blocks, at), gpos \in Positions, GenWhile
    PROVE  EmitsOnly(blocks, blocks', at, gpos)
<1> DEFINE n == Len(blocks)
           cs == Fresh(blocks, at, 3)
           ds == Terminate(cs, at, <<n + 1>>)
           es == Emit(ds, n + 1, gpos)
           gs == Terminate(es, n + 1, <<n + 2, n + 3>>)
<1>1. Tokens[gpos].op = "while" /\ blocks' = gs
  BY DEF GenWhile, Emitting
<1>2. /\ blocks \in Seq(Block) /\ at \in 1..n /\ n \in Nat
      /\ <<n + 1>> \in Seq(Nat) /\ <<n + 2, n + 3>> \in Seq(Nat)
  BY <1>1, StandsFacts
<1>3. /\ cs \in Seq(Block) /\ Len(cs) = n + 3
      /\ \A b \in (n + 1)..(n + 3) : cs[b].state = "open"
      /\ \A j : In(cs, j) = In(blocks, j)
  BY <1>2, FreshCode
<1>4. at \in 1..Len(cs) /\ n + 1 \in 1..Len(cs) /\ n + 1 # at /\ n + 1 \in (n + 1)..(n + 3)
      /\ n + 1 \notin DOMAIN blocks
  BY <1>2, <1>3
<1> HIDE DEF cs, n
<1>5. /\ ds \in Seq(Block) /\ Len(ds) = Len(cs) /\ \A j : In(ds, j) = In(cs, j)
      /\ \A c \in 1..Len(cs) : c # at => ds[c] = cs[c]
  BY <1>2, <1>3, <1>4, TerminateCode
<1>6. n + 1 \in 1..Len(ds) /\ ds[n + 1].state = "open"
  BY <1>3, <1>4, <1>5
<1> HIDE DEF ds
<1>7. /\ es \in Seq(Block) /\ Len(es) = Len(ds)
      /\ \A j : j # gpos => In(es, j) = In(ds, j)
      /\ In(es, gpos) = In(ds, gpos) \cup {n + 1}
  BY <1>5, <1>6, EmitCode
<1> HIDE DEF es
<1>8. \A j : In(gs, j) = In(es, j)
  <2>1. n + 1 \in 1..Len(es)
    BY <1>6, <1>7
  <2> QED BY <1>2, <1>7, <2>1, TerminateCode
<1>9. n + 1 \notin In(blocks, gpos)
  BY <1>4 DEF In
<1> HIDE DEF gs
<1> QED BY <1>1, <1>3, <1>5, <1>7, <1>8, <1>9 DEF EmitsOnly

LEMMA CodeClause ==
    ASSUME UnitOK, NoNesting, Stands(frames, gpos, blocks, at), gpos \in Positions,
           GenElseIf \/ GenElse \/ GenIfEnd \/ GenWhileEnd
    PROVE  EmitsOnly(blocks, blocks', at, gpos)
<1>1. Tokens[gpos].op \in {"elseif", "else", "end"}
  BY DEF GenElseIf, GenElse, GenIfEnd, GenWhileEnd, Emitting
<1>2. /\ frames \in Seq(Frame) /\ Here \in Frame /\ Here = frames[Len(frames)]
      /\ (Here.op = "function" <=> Len(frames) = 1) /\ Len(frames) \in Nat \ {0}
      /\ blocks \in Seq(Block) /\ at \in 1..Len(blocks) /\ Len(blocks) \in Nat
  BY <1>1, StandsFacts
<1>3. <<Here.join>> \in Seq(Nat) /\ <<Here.other>> \in Seq(Nat)
  BY <1>2 DEF Frame
<1> DEFINE left == Terminate(blocks, at, <<Here.join>>)
<1>4. left \in Seq(Block) /\ Len(left) = Len(blocks) /\ \A j : In(left, j) = In(blocks, j)
  BY <1>2, <1>3, TerminateCode
<1>5. CASE GenElse
  BY <1>1, <1>4, <1>5 DEF GenElse, EmitsOnly, Appends, Returns
<1>6. CASE GenWhileEnd
  <2>1. \A j : In(blocks', j) = In(blocks, j)
    <3>1. blocks' = Terminate(blocks, at, <<Here.other>>)
      BY <1>6 DEF GenWhileEnd
    <3> DEFINE t == <<Here.other>>
               cs == Terminate(blocks, at, t)
    <3> HIDE DEF t
    <3>2. t \in Seq(Nat)
      BY <1>3 DEF t
    <3>3. \A j : In(cs, j) = In(blocks, j)
      BY <1>2, <3>2, TerminateCode
    <3> QED BY <3>1, <3>3 DEF t
  <2> QED BY <1>1, <2>1 DEF EmitsOnly, Appends, Returns
<1>7. CASE GenIfEnd
  <2>1. /\ Here.op = "if"
        /\ blocks' = IF Here.other = 0 THEN left ELSE Terminate(left, Here.other, <<Here.join>>)
    BY <1>7 DEF GenIfEnd
  <2>2. Here.other = 0 \/ Here.other \in 1..Len(blocks)
    <3> DEFINE l == Len(frames)
    <3>1. l \in Nat /\ l # 1 /\ l # 0
      BY <1>2, <2>1
    <3> HIDE DEF l
    <3>2. l \in 2..l
      BY <3>1
    <3> QED BY <1>2, <3>2 DEF Stands, Owned, Holds, l
  <2> HIDE DEF left
  <2>3. \A j : In(blocks', j) = In(blocks, j)
    <3>1. CASE Here.other = 0
      BY <1>4, <2>1, <3>1
    <3>2. CASE Here.other # 0
      <4>1. Here.other \in 1..Len(left)
        BY <1>4, <2>2, <3>2
      <4>2. \A j : In(Terminate(left, Here.other, <<Here.join>>), j) = In(left, j)
        BY <1>3, <1>4, <4>1, TerminateCode
      <4> QED BY <1>4, <2>1, <3>2, <4>2
    <3> QED BY <3>1, <3>2
  <2> QED BY <1>1, <2>3 DEF EmitsOnly, Appends, Returns
<1>8. CASE GenElseIf
  <2> DEFINE n == Len(blocks)
             o == Here.other
             cs == Fresh(blocks, Here.join, 2)
             ds == Terminate(cs, at, <<Here.join>>)
             es == Emit(ds, o, gpos)
             gs == Terminate(es, o, <<n + 1, n + 2>>)
  <2>1. blocks' = gs /\ Tokens[gpos].op = "elseif"
    BY <1>8 DEF GenElseIf, Emitting
  <2>2. o \in 1..n /\ Here.join \in 1..n
    <3>1. o # 0 /\ Here.op = "if"
      BY <2>1, <1>2, ClauseOfHere DEF Stands, Clauses
    <3> DEFINE l == Len(frames)
    <3>2. l \in Nat /\ l # 1 /\ l # 0
      BY <1>2, <3>1
    <3> HIDE DEF l
    <3>3. l \in 2..l
      BY <3>2
    <3> QED BY <1>2, <3>1, <3>3 DEF Stands, Owned, Holds, l
  <2>3. /\ cs \in Seq(Block) /\ Len(cs) = n + 2 /\ \A j : In(cs, j) = In(blocks, j)
    <3>1. Here.join \in 1..Len(blocks) /\ 2 \in Nat
      BY <2>2
    <3> QED BY <1>2, <3>1, FreshCode
  <2>4. at \in 1..Len(cs) /\ o \in 1..Len(cs) /\ <<n + 1, n + 2>> \in Seq(Nat)
    BY <1>2, <2>2, <2>3
  <2> HIDE DEF cs, n, o
  <2>5. ds \in Seq(Block) /\ Len(ds) = Len(cs) /\ \A j : In(ds, j) = In(cs, j)
    BY <1>3, <2>3, <2>4, TerminateCode
  <2> HIDE DEF ds
  <2>6. o \in 1..Len(ds)
    BY <2>4, <2>5
  <2>7. es \in Seq(Block) /\ Len(es) = Len(ds) /\ \A j : j # gpos => In(es, j) = In(ds, j)
    BY <2>5, <2>6, EmitCode
  <2> HIDE DEF es
  <2>8. \A j : In(gs, j) = In(es, j)
    <3>1. o \in 1..Len(es)
      BY <2>6, <2>7
    <3> QED BY <2>4, <2>7, <3>1, TerminateCode
  <2> HIDE DEF gs
  <2> QED BY <1>1, <2>1, <2>3, <2>5, <2>7, <2>8 DEF EmitsOnly, Appends, Returns
<1> QED BY <1>5, <1>6, <1>7, <1>8

-----------------------------------------------------------------------------
(* The declarations of a key up to the token after a function.             *)
LEMMA DeclaredBehind ==
    ASSUME UnitOK, gpos \in Positions, Tokens[gpos].op \in {"function", "forward"},
           Depth(gpos) = 0, NEW k
    PROVE  /\ Count(DeclaredHere(k), gpos) \in Nat
           /\ Count(DeclaredHere(k), Behind)
                = IF Key = k THEN Count(DeclaredHere(k), gpos) + 1 ELSE Count(DeclaredHere(k), gpos)
<1> DEFINE D == DeclaredHere(k)
<1>1. gpos \in Nat \ {0}
  BY TokenFacts
<1>2. gpos \in D <=> Key = k
  BY DEF DeclaredHere, TopLevelFunctions, Key
<1>3. \A j \in D : j \in Positions /\ j \in Nat /\ Depth(j) = 0
  BY TokenFacts DEF DeclaredHere, TopLevelFunctions
<1>4. Count(D, Behind) = Count(D, gpos + 1)
  <2>1. CASE Tokens[gpos].op = "forward"
    <3>1. Behind = gpos + 1
      BY <1>1, <2>1 DEF Behind, BodyAt
    <3> QED BY <3>1
  <2>2. CASE Tokens[gpos].op = "function"
    <3>1. Behind = EndOf(gpos) + 1 /\ EndOf(gpos) \in Nat /\ gpos < EndOf(gpos)
      BY <1>1, <2>2, EndOfFunction, TokenFacts DEF Behind, BodyAt
    <3>2. \A j \in D : j <= EndOf(gpos) => j <= gpos
      <4>1. ASSUME NEW j \in D, gpos < j PROVE EndOf(gpos) < j
        BY <1>3, <2>2, <4>1, OutsideBodies
      <4> QED BY <1>1, <1>3, <3>1, <4>1
    <3> HIDE DEF D
    <3>3. {j \in 1..(Behind - 1) : j \in D} = {j \in 1..((gpos + 1) - 1) : j \in D}
      BY <1>1, <1>3, <3>1, <3>2
    <3> QED BY <3>3 DEF Count
  <2> QED BY <2>1, <2>2
<1> HIDE DEF D
<1>5. /\ Count(D, gpos) \in Nat
      /\ Count(D, gpos + 1) = IF gpos \in D THEN Count(D, gpos) + 1 ELSE Count(D, gpos)
  BY <1>1, Counting
<1> QED BY <1>2, <1>4, <1>5 DEF D

(* The first statement of each function has been emitted once for every    *)
(* declaration passed, and is about to be once more when its function is   *)
(* being visited and it has not been reached.                              *)
Due(f, fs, p) == Count(DeclaredHere(Tokens[f].sig.key), Reached(fs, p))

Pending(f, q, fs, p) == fs # <<>> /\ fs[1].at = f /\ p <= q

Counted(f, q, fs, p, bs, a) ==
    IF Pending(f, q, fs, p)
    THEN /\ bs[a].state = "open" /\ bs[a].code = <<>>
         /\ Cardinality(In(bs, q)) + 1 = Due(f, fs, p)
    ELSE Cardinality(In(bs, q)) = Due(f, fs, p)

Counts(fs, p, bs, a) ==
    \A f \in Definitions : \A q \in Positions :
        FirstIn(f, q) /\ q # EndOf(f) => Counted(f, q, fs, p, bs, a)

(* Such a statement is emitted and stands in no other function.            *)
LEMMA FirstFacts ==
    ASSUME UnitOK, NoNesting, NEW f \in Definitions, NEW q \in Positions,
           FirstIn(f, q), q # EndOf(f)
    PROVE  /\ Appends(Tokens[q].op) /\ f \in Positions /\ f \in Nat /\ q \in Nat /\ f < q
           /\ q < EndOf(f) /\ Depth(f) = 0 /\ Tokens[f].op = "function" /\ EndOf(f) \in Nat
           /\ \A j \in Nat : f < j /\ j < q => Tokens[j].op = "other"
           /\ Tokens[f].sig.key \in Keys
<1>1. f \in Positions /\ Tokens[f].op = "function" /\ Depth(f) = 0
  BY DEF Definitions, NoNesting
<1>2. f \in Nat /\ q \in Nat /\ EndOf(f) \in Nat /\ Tokens[q].op \in Ops
  BY <1>1, EndOfFunction, TokenFacts DEF Token
<1>3. PICK r \in Positions : /\ FirstIn(f, r)
                             /\ Tokens[r].op \notin {"function", "forward", "other"} \cup Clauses
                             /\ Tokens[r].op = "end" => r = EndOf(f)
  BY FirstStatement
<1>4. r = q
  <2>1. r \in Nat /\ q \in (f + 1)..EndOf(f) /\ r \in (f + 1)..EndOf(f)
    BY <1>3, TokenFacts DEF FirstIn
  <2>2. ~(r < q) /\ ~(q < r)
    <3>1. r < q => r \in (f + 1)..(q - 1)
      BY <1>2, <2>1
    <3>2. q < r => q \in (f + 1)..(r - 1)
      BY <1>2, <2>1
    <3> QED BY <1>3, <3>1, <3>2 DEF FirstIn
  <2> QED BY <1>2, <2>1, <2>2
<1>5. Appends(Tokens[q].op)
  BY <1>2, <1>3, <1>4 DEF Appends, Ops, Openers, Clauses, Returns
<1>6. f < q /\ q < EndOf(f)
  BY <1>2 DEF FirstIn
<1>7. ASSUME NEW j \in Nat, f < j, j < q PROVE Tokens[j].op = "other"
  <2>1. j \in (f + 1)..(q - 1)
    BY <1>2, <1>7
  <2> QED BY <2>1 DEF FirstIn
<1>8. Tokens[f].sig.key \in Keys
  BY <1>1, PoolFacts
<1> QED BY <1>1, <1>2, <1>5, <1>6, <1>7, <1>8

(* A token of a body.                                                      *)
LEMMA CountsBody ==
    ASSUME UnitOK, NoNesting, NEW fs, NEW gs, NEW p \in Positions, Inside(fs, p), fs # <<>>,
           Tokens[p].op # "other", gs # <<>>, gs[1].at = fs[1].at, gs[1].back = fs[1].back,
           NEW bs \in Seq(Block), NEW cs, NEW a, NEW b, EmitsOnly(bs, cs, a, p),
           Counts(fs, p, bs, a)
    PROVE  Counts(gs, p + 1, cs, b)
<1> SUFFICES ASSUME NEW f \in Definitions, NEW q \in Positions, FirstIn(f, q), q # EndOf(f)
             PROVE  Counted(f, q, gs, p + 1, cs, b)
  BY DEF Counts
<1> DEFINE g == fs[1].at
<1>1. /\ Appends(Tokens[q].op) /\ f \in Nat /\ q \in Nat /\ f < q /\ q < EndOf(f) /\ EndOf(f) \in Nat
      /\ \A j \in Nat : f < j /\ j < q => Tokens[j].op = "other"
  BY FirstFacts
<1>2. g \in Definitions /\ g \in Nat /\ g < p /\ p <= EndOf(g) /\ EndOf(g) \in Nat /\ p \in Nat
  BY WithinBody, TokenFacts
<1>3. Due(f, gs, p + 1) = Due(f, fs, p)
  BY DEF Due, Reached
<1>4. Counted(f, q, fs, p, bs, a)
  BY DEF Counts
<1>5. IsFiniteSet(In(bs, q)) /\ Cardinality(In(bs, q)) \in Nat
  BY InIsFinite
<1> HIDE DEF g
<1>6. CASE g = f
  <2>1. q <= p
    BY <1>1, <1>2, <1>6
  <2>2. ~Pending(f, q, gs, p + 1)
    BY <1>1, <1>2, <2>1 DEF Pending
  <2>3. CASE q = p
    <3>1. Pending(f, q, fs, p)
      BY <1>1, <1>6, <2>3 DEF Pending, g
    <3>2. bs[a].state = "open" /\ bs[a].code = <<>> /\ Cardinality(In(bs, q)) + 1 = Due(f, fs, p)
      BY <1>4, <3>1 DEF Counted
    <3>3. PICK c : c \notin In(bs, q) /\ In(cs, q) = In(bs, q) \cup {c}
      BY <1>1, <2>3, <3>2 DEF EmitsOnly
    <3>4. Cardinality(In(cs, q)) = Cardinality(In(bs, q)) + 1
      BY <1>5, <3>3, FS_AddElement
    <3> QED BY <1>3, <2>2, <3>2, <3>4 DEF Counted
  <2>4. CASE q # p
    <3>1. ~Pending(f, q, fs, p)
      BY <1>1, <1>2, <2>1, <2>4 DEF Pending
    <3>2. In(cs, q) = In(bs, q)
      BY <2>4 DEF EmitsOnly
    <3> QED BY <1>3, <1>4, <2>2, <3>1, <3>2 DEF Counted
  <2> QED BY <2>3, <2>4
<1>7. CASE g # f
  <2>1. q # p
    <3> SUFFICES ASSUME q = p PROVE FALSE
      OBVIOUS
    <3>1. CASE f < g
      <4>1. g <= EndOf(f)
        BY <1>1, <1>2
      <4> QED BY <1>2, <3>1, <4>1, NoneWithin
    <3>2. CASE g < f
      <4>1. f <= EndOf(g)
        BY <1>1, <1>2
      <4> QED BY <1>2, <3>2, <4>1, NoneWithin
    <3> QED BY <1>1, <1>2, <1>7, <3>1, <3>2
  <2>2. In(cs, q) = In(bs, q)
    BY <2>1 DEF EmitsOnly
  <2>3. ~Pending(f, q, fs, p) /\ ~Pending(f, q, gs, p + 1)
    BY <1>7 DEF Pending, g
  <2> QED BY <1>3, <1>4, <2>2, <2>3 DEF Counted
<1> QED BY <1>6, <1>7

(* A token that is passed by.                                              *)
LEMMA CountsPast ==
    ASSUME UnitOK, NoNesting, pool = DeclaredPool, Stands(frames, gpos, blocks, at),
           gpos \in Positions, GenOther \/ GenForward, Counts(frames, gpos, blocks, at)
    PROVE  Counts(frames', gpos', blocks', at')
<1>1. /\ Tokens[gpos].op \in {"other", "forward"} /\ gpos' = gpos + 1
      /\ UNCHANGED <<frames, blocks, at>>
      /\ Tokens[gpos].op = "forward" => Known[Key].body = 0
  BY DEF GenOther, GenForward, Emitting, Advance
<1> SUFFICES ASSUME NEW f \in Definitions, NEW q \in Positions, FirstIn(f, q), q # EndOf(f)
             PROVE  Counted(f, q, frames, gpos + 1, blocks, at)
  BY <1>1 DEF Counts
<1>2. /\ Appends(Tokens[q].op) /\ f \in Positions /\ q \in Nat /\ Tokens[f].op = "function"
      /\ Depth(f) = 0
  BY FirstFacts
<1>3. Counted(f, q, frames, gpos, blocks, at) /\ gpos \in Nat \ {0}
  BY TokenFacts DEF Counts
<1>4. q # gpos
  BY <1>1, <1>2 DEF Appends, Returns
<1>5. Pending(f, q, frames, gpos + 1) <=> Pending(f, q, frames, gpos)
  BY <1>2, <1>3, <1>4 DEF Pending
<1>6. gpos \notin DeclaredHere(Tokens[f].sig.key)
  <2> SUFFICES ASSUME gpos \in DeclaredHere(Tokens[f].sig.key) PROVE FALSE
    OBVIOUS
  <2>1. Tokens[gpos].op = "forward" /\ Key = Tokens[f].sig.key
    BY <1>1 DEF DeclaredHere, TopLevelFunctions, Key
  <2>2. Known = pool
    BY <2>1, KnownIsPool
  <2>3. DeclaredPool[Tokens[f].sig.key].body = f
    BY <1>2, PoolFacts
  <2>4. f # 0
    BY <1>2, TokenFacts
  <2> QED BY <1>1, <2>1, <2>2, <2>3, <2>4
<1>7. Due(f, frames, gpos + 1) = Due(f, frames, gpos)
  BY <1>3, <1>6, Counting DEF Due, Reached
<1> QED BY <1>3, <1>5, <1>7 DEF Counted

LEMMA CountsFunction ==
    ASSUME UnitOK, NoNesting, pool = DeclaredPool, Stands(frames, gpos, blocks, at),
           gpos \in Positions, GenFunction, Counts(frames, gpos, blocks, at)
    PROVE  Counts(frames', gpos', blocks', at')
<1> DEFINE F == Known[Key].body
           n == Len(blocks)
<1>1. PICK fr \in Frame : fr.at = F /\ frames' = <<fr>> /\ fr.back = Behind
  BY FunctionEntered DEF Stands
<1>2. /\ F \in Definitions /\ Tokens[F].sig.key = Key /\ gpos' = F + 1 /\ Key \in Keys
      /\ frames = <<>>
  BY FunctionEntered DEF Stands
<1>3. /\ blocks' = Append(blocks, NewBlock(Key)) /\ at' = n + 1
      /\ Tokens[gpos].op \in {"function", "forward"}
  BY DEF GenFunction, Emitting
<1>4. /\ blocks \in Seq(Block) /\ NewBlock(Key) \in Block /\ NewBlock(Key).state = "open"
      /\ NewBlock(Key).code = <<>>
  BY <1>2 DEF Stands, Owned, NewBlock, Block
<1>5. /\ blocks' \in Seq(Block) /\ Len(blocks') = n + 1 /\ n \in Nat /\ blocks'[n + 1] = NewBlock(Key)
      /\ \A b \in 1..n : blocks'[b] = blocks[b]
  <2>1. /\ blocks' \in Seq(Block) /\ Len(blocks') = n + 1 /\ blocks'[n + 1] = NewBlock(Key)
        /\ \A b \in 1..n : blocks'[b] = blocks[b]
    BY <1>3, <1>4, AppendFacts
  <2> QED BY <1>4, <2>1
<1>6. \A j : In(blocks', j) = In(blocks, j)
  <2>1. \A b \in (n + 1)..Len(blocks') : blocks'[b].code = <<>>
    BY <1>4, <1>5
  <2>2. n <= Len(blocks')
    BY <1>5
  <2> QED BY <1>4, <1>5, <2>1, <2>2, SameCode
<1>7. frames' # <<>> /\ frames'[1].at = F /\ frames'[1].back = Behind
  BY <1>1
<1>8. Depth(gpos) = 0
  BY <1>3 DEF NoNesting
<1> HIDE DEF F, n
<1> SUFFICES ASSUME NEW f \in Definitions, NEW q \in Positions, FirstIn(f, q), q # EndOf(f)
             PROVE  Counted(f, q, frames', F + 1, blocks', n + 1)
  BY <1>2, <1>3 DEF Counts
<1>9. Counted(f, q, frames, gpos, blocks, at) /\ ~Pending(f, q, frames, gpos)
  BY <1>2 DEF Counts, Pending
<1>10. f \in Nat /\ q \in Nat /\ f < q
  BY FirstFacts
<1>11. F = f <=> Key = Tokens[f].sig.key
  BY <1>2, OneDefinition
<1>12. Pending(f, q, frames', F + 1) <=> F = f
  BY <1>7, <1>10 DEF Pending
<1>13. Cardinality(In(blocks', q)) = Due(f, frames, gpos)
  BY <1>6, <1>9 DEF Counted
<1>14. Due(f, frames', F + 1)
         = IF F = f THEN Due(f, frames, gpos) + 1 ELSE Due(f, frames, gpos)
  BY <1>2, <1>3, <1>7, <1>8, <1>11, DeclaredBehind DEF Due, Reached
<1> QED BY <1>4, <1>5, <1>12, <1>13, <1>14 DEF Counted

LEMMA CountsFunctionEnd ==
    ASSUME UnitOK, NoNesting, Stands(frames, gpos, blocks, at), gpos \in Positions,
           GenFunctionEnd, Counts(frames, gpos, blocks, at)
    PROVE  Counts(frames', gpos', blocks', at')
<1>1. /\ Tokens[gpos].op = "end" /\ Here.op = "function" /\ gpos' = Here.back
      /\ blocks' = IF Here.at \in autoReturn THEN Return(blocks, TRUE) ELSE blocks
  BY DEF GenFunctionEnd, Emitting
<1>2. /\ frames # <<>> /\ Here = frames[1] /\ blocks \in Seq(Block) /\ at \in 1..Len(blocks)
      /\ gpos \in Nat /\ Inside(frames, gpos)
  <2>1. Tokens[gpos].op \notin {"function", "forward", "other"}
    BY <1>1
  <2>2. /\ frames # <<>> /\ Here = frames[Len(frames)] /\ blocks \in Seq(Block)
        /\ at \in 1..Len(blocks) /\ gpos \in Nat /\ (Here.op = "function" <=> Len(frames) = 1)
    BY <2>1, StandsFacts
  <2> QED BY <1>1, <2>2 DEF Stands
<1>3. frames' = <<>>
  BY StandsFunctionEnd
<1>4. \A j : j # gpos => In(blocks', j) = In(blocks, j)
  BY <1>1, <1>2, ReturnCode
<1> SUFFICES ASSUME NEW f \in Definitions, NEW q \in Positions, FirstIn(f, q), q # EndOf(f)
             PROVE  Counted(f, q, frames', gpos', blocks', at')
  BY DEF Counts
<1>5. /\ Appends(Tokens[q].op) /\ q \in Nat /\ f \in Nat /\ \A j \in Nat : f < j /\ j < q => Tokens[j].op = "other"
  BY FirstFacts
<1>6. In(blocks', q) = In(blocks, q)
  BY <1>1, <1>4, <1>5 DEF Appends, Returns
<1>7. ~Pending(f, q, frames, gpos)
  <2> SUFFICES ASSUME frames[1].at = f, gpos <= q PROVE FALSE
    BY DEF Pending
  <2>1. f < gpos
    BY <1>2, WithinBody
  <2>2. gpos = q
    BY <1>1, <1>2, <1>5, <2>1
  <2> QED BY <1>1, <1>5, <2>2 DEF Appends, Returns
<1>8. ~Pending(f, q, frames', gpos')
  BY <1>3 DEF Pending
<1>9. Due(f, frames', gpos') = Due(f, frames, gpos)
  BY <1>1, <1>2, <1>3 DEF Due, Reached
<1>10. Counted(f, q, frames, gpos, blocks, at)
  BY DEF Counts
<1> QED BY <1>6, <1>7, <1>8, <1>9, <1>10 DEF Counted

LEMMA CountsNext ==
    ASSUME UnitOK, NoNesting, pool = DeclaredPool, Stands(frames, gpos, blocks, at), GenNext,
           Counts(frames, gpos, blocks, at)
    PROVE  Counts(frames', gpos', blocks', at')
<1>1. ASSUME NEW ops, Emitting(ops) PROVE gpos \in Positions /\ Tokens[gpos].op \in ops
  <2>1. gpos \in 1..(Len(Tokens) + 1) /\ gpos <= Len(Tokens)
    BY <1>1 DEF Stands, Inside, Emitting
  <2> QED BY <1>1, <2>1, TokenFacts DEF Emitting
<1>2. ASSUME gpos \in Positions, Tokens[gpos].op \notin {"function", "forward", "other"},
             gpos' = gpos + 1, frames' # <<>>, frames'[1].at = frames[1].at,
             frames'[1].back = frames[1].back, EmitsOnly(blocks, blocks', at, gpos)
      PROVE  Counts(frames', gpos', blocks', at')
  <2>1. frames # <<>> /\ blocks \in Seq(Block) /\ Inside(frames, gpos)
    BY <1>2, StandsFacts DEF Stands
  <2> QED BY <1>2, <2>1, CountsBody
<1>3. CASE GenDeclare \/ GenEvaluate \/ GenReturn
  <2>1. /\ gpos \in Positions /\ Tokens[gpos].op \in {"declare", "evaluate"} \cup Returns
        /\ frames' = frames /\ gpos' = gpos + 1
    BY <1>1, <1>3 DEF GenDeclare, GenEvaluate, GenReturn, Advance
  <2>2. frames # <<>> /\ Tokens[gpos].op \notin {"function", "forward", "other"}
    BY <2>1, StandsFacts DEF Returns
  <2>3. EmitsOnly(blocks, blocks', at, gpos)
    BY <1>3, <2>1, CodeSimple
  <2> QED BY <1>2, <2>1, <2>2, <2>3
<1>4. CASE GenIf \/ GenElseIf \/ GenElse \/ GenIfEnd \/ GenWhile \/ GenWhileEnd
  <2>1. /\ gpos \in Positions /\ Tokens[gpos].op \in {"if", "elseif", "else", "end", "while"}
        /\ gpos' = gpos + 1
    BY <1>1, <1>4 DEF GenIf, GenElseIf, GenElse, GenIfEnd, GenWhile, GenWhileEnd, Advance
  <2>2. EmitsOnly(blocks, blocks', at, gpos)
    BY <1>4, <2>1, CodeIf, CodeWhile, CodeClause
  <2>3. frames' # <<>> /\ frames'[1].at = frames[1].at /\ frames'[1].back = frames[1].back
    BY <1>4, <2>1, SameHome
  <2> QED BY <1>2, <2>1, <2>2, <2>3
<1>5. CASE GenOther \/ GenForward
  <2>1. gpos \in Positions
    BY <1>1, <1>5 DEF GenOther, GenForward
  <2> QED BY <1>5, <2>1, CountsPast
<1>6. CASE GenFunction
  <2>1. gpos \in Positions
    BY <1>1, <1>6 DEF GenFunction
  <2> QED BY <1>6, <2>1, CountsFunction
<1>7. CASE GenFunctionEnd
  <2>1. gpos \in Positions
    BY <1>1, <1>7 DEF GenFunctionEnd
  <2> QED BY <1>7, <2>1, CountsFunctionEnd
<1>8. CASE GenReject \/ GenCrash \/ GenDone
  BY <1>8 DEF GenReject, GenCrash, GenDone
<1> QED BY <1>3, <1>4, <1>5, <1>6, <1>7, <1>8 DEF GenNext

-----------------------------------------------------------------------------
EmissionInv == VerifierInv /\ (NoNesting => Counts(frames, gpos, blocks, at))

LEMMA SameTextCounts ==
    ASSUME unit' = unit
    PROVE  \A fs, p, bs, a : Counts(fs, p, bs, a)' <=> Counts(fs, p, bs, a)
<1>1. /\ Tokens' = Tokens /\ Positions' = Positions /\ Definitions' = Definitions
      /\ \A p : Depth(p)' = Depth(p)
  BY SameText
<1>2. (\A f : EndOf(f)' = EndOf(f)) /\ \A k : DeclaredHere(k)' = DeclaredHere(k)
  BY <1>1 DEF EndOf, DeclaredHere, TopLevelFunctions
<1>3. /\ \A f, q : FirstIn(f, q)' <=> FirstIn(f, q)
      /\ \A f, fs, p : Due(f, fs, p)' = Due(f, fs, p)
  BY <1>1, <1>2 DEF FirstIn, Due, Reached, Count
<1>4. \A f, q, fs, p, bs, a : Counted(f, q, fs, p, bs, a)' <=> Counted(f, q, fs, p, bs, a)
  BY <1>3 DEF Counted, Pending, In
<1> QED BY <1>1, <1>2, <1>3, <1>4 DEF Counts

LEMMA CountsNothing ==
    ASSUME UnitOK, NEW a
    PROVE  Counts(<<>>, 1, <<>>, a)
<1> SUFFICES ASSUME NEW f, NEW q PROVE Counted(f, q, <<>>, 1, <<>>, a)
  BY DEF Counts
<1>1. In(<<>>, q) = {}
  BY DEF In
<1>2. {j \in 1..(1 - 1) : j \in DeclaredHere(Tokens[f].sig.key)} = {}
  OBVIOUS
<1>3. Due(f, <<>>, 1) = Cardinality({})
  BY <1>2 DEF Due, Reached, Count
<1> QED BY <1>1, <1>3 DEF Counted, Pending

LEMMA EmissionInit == Init => EmissionInv
<1> SUFFICES ASSUME Init PROVE EmissionInv
  OBVIOUS
<1>1. VerifierInv /\ UnitOK
  BY VerifierInit DEF VerifierInv, GenInv, CheckInv
<1>2. frames = <<>> /\ blocks = <<>> /\ gpos = 1
  BY DEF Init, GenInit
<1> QED BY <1>1, <1>2, CountsNothing DEF EmissionInv

LEMMA EmissionStep == EmissionInv /\ [Next]_vars => EmissionInv'
<1> SUFFICES ASSUME EmissionInv, [Next]_vars PROVE EmissionInv'
  OBVIOUS
<1>1. unit' = unit /\ VerifierInv /\ VerifierInv' /\ GenInv /\ UnitOK
  BY UnitKept, VerifierStep DEF EmissionInv, VerifierInv, GenInv, CheckInv
<1>2. NoNesting' <=> NoNesting
  BY <1>1, SameTextGen
<1>3. ASSUME NoNesting PROVE Counts(frames', gpos', blocks', at')
  <2>1. Counts(frames, gpos, blocks, at)
    BY <1>3 DEF EmissionInv
  <2>2. CASE Check \/ UNCHANGED vars
    <3>1. UNCHANGED <<gpos, frames, blocks, at>>
      BY <2>2 DEF Check, vars, genVars
    <3> QED BY <2>1, <3>1
  <2>3. CASE Generate
    <3>1. GenNext /\ pool = DeclaredPool /\ Stands(frames, gpos, blocks, at)
      BY <1>1, <1>3, <2>3 DEF Generate, GenInv
    <3> QED BY <1>1, <1>3, <2>1, <3>1, CountsNext
  <2> QED BY <2>2, <2>3 DEF Next
<1>4. NoNesting' => Counts(frames, gpos, blocks, at)'
  BY <1>1, <1>2, <1>3, SameTextCounts
<1> QED BY <1>1, <1>4 DEF EmissionInv

(* In a file without nested functions the body of each is emitted once for *)
(* every declaration of it in the file, before or after its definition,    *)
(* counted by its first statement.                                         *)
THEOREM Bodies == Spec => []BodiesEmitted
<1>1. ASSUME EmissionInv PROVE BodiesEmitted
  <2> SUFFICES ASSUME result = "emitted", NoNesting, NEW f \in Definitions,
                      NEW q \in At(f + 1) \ {EndOf(f)}
               PROVE  Emissions(q) = Cardinality({j \in TopLevelFunctions :
                                                    Tokens[j].sig.key = Tokens[f].sig.key})
    BY DEF BodiesEmitted
  <2> DEFINE D == DeclaredHere(Tokens[f].sig.key)
  <2>1. /\ UnitOK /\ Inside(frames, gpos) /\ gpos > Len(Tokens)
        /\ Counts(frames, gpos, blocks, at)
    BY <1>1 DEF EmissionInv, VerifierInv, GenInv, CheckInv, Stands
  <2>2. frames = <<>> /\ gpos = Len(Tokens) + 1 /\ Len(Tokens) \in Nat
    <3>1. gpos = Len(Tokens) + 1 /\ Len(Tokens) \in Nat
      BY <2>1, TokenFacts DEF Inside
    <3>2. Len(frames) = 0 /\ frames \in Seq(Frame)
      BY <2>1, <3>1, ShapeFacts DEF Inside
    <3> QED BY <3>1, <3>2
  <2>3. q \in Positions /\ FirstIn(f, q) /\ q # EndOf(f)
    BY <2>1, FirstStatement
  <2>4. Counted(f, q, frames, gpos, blocks, at)
    BY <2>1, <2>3 DEF Counts
  <2>5. Cardinality(In(blocks, q)) = Count(D, gpos)
    BY <2>2, <2>4 DEF Counted, Pending, Due, Reached
  <2>6. {j \in 1..(gpos - 1) : j \in D} = D
    <3>1. D \subseteq 1..Len(Tokens) /\ gpos - 1 = Len(Tokens)
      BY <2>1, <2>2, TokenFacts DEF DeclaredHere, TopLevelFunctions
    <3> HIDE DEF D
    <3> QED BY <3>1
  <2>7. Emissions(q) = Cardinality(D)
    BY <2>5, <2>6 DEF Emissions, In, Count
  <2> QED BY <2>7 DEF DeclaredHere
<1> QED BY <1>1, EmissionInit, EmissionStep, PTL DEF Spec

-----------------------------------------------------------------------------
(* The body of a function as text.                                         *)
LEMMA LeastIs ==
    ASSUME NEW S \in SUBSET Nat, S # {}
    PROVE  Min(S) \in S /\ \A y \in S : Min(S) <= y
<1>1. \E x \in S : \A y \in S : x <= y
  BY HasLeast
<1> QED BY <1>1 DEF Min

(* An ascent of the depth passes an opening token at each level.           *)
LEMMA Climbing ==
    ASSUME NEW i \in Nat \ {0}, NEW j \in Nat, i <= j, NEW l \in Int,
           Depth(i) <= l, Depth(j) > l
    PROVE  \E r \in i..(j - 1) : Tokens[r].op \in Openers /\ Depth(r) = l
<1> DEFINE S == {k \in i..j : Depth(k) > l}
<1>1. S \in SUBSET Nat /\ S # {}
  OBVIOUS
<1>2. PICK k \in S : \A m \in S : k <= m
  <2> HIDE DEF S
  <2> QED BY <1>1, HasLeast
<1>3. k \in i..j /\ Depth(k) > l /\ k # i
  <2>1. k \in i..j /\ Depth(k) > l
    OBVIOUS
  <2>2. Depth(i) \in Int
    BY DepthType
  <2> HIDE DEF S
  <2> QED BY <2>1, <2>2
<1>4. /\ k - 1 \in Nat \ {0} /\ k - 1 \in i..j /\ k - 1 \in i..(j - 1)
      /\ (k - 1) + 1 = k /\ ~(k <= k - 1)
  BY <1>3
<1>5. ~(Depth(k - 1) > l)
  BY <1>2, <1>4
<1>6. Depth(k - 1) \in Int /\ Depth(k) \in Int
  BY <1>3, <1>4, DepthType
<1> HIDE DEF S
<1>7. Tokens[k - 1].op \in Openers /\ Depth(k) = Depth(k - 1) + 1
  <2>1. Depth(k) = CASE Tokens[k - 1].op \in Openers -> Depth(k - 1) + 1
                     [] Tokens[k - 1].op = "end" -> Depth(k - 1) - 1
                     [] OTHER -> Depth(k - 1)
    BY <1>4, NextDepth
  <2>2. CASE Tokens[k - 1].op = "end"
    BY <1>3, <1>5, <1>6, <2>1, <2>2 DEF Openers
  <2>3. CASE Tokens[k - 1].op \notin Openers /\ Tokens[k - 1].op # "end"
    BY <1>3, <1>5, <1>6, <2>1, <2>3
  <2>4. CASE Tokens[k - 1].op \in Openers
    BY <2>1, <2>4 DEF Openers
  <2> QED BY <2>2, <2>3, <2>4
<1>8. Depth(k - 1) = l
  BY <1>3, <1>5, <1>6, <1>7
<1> QED BY <1>4, <1>7, <1>8

Body(f) == (f + 1)..EndOf(f)

LEMMA BodyEnds ==
    ASSUME UnitOK, NoNesting, NEW f \in Definitions
    PROVE  /\ f \in Positions /\ f \in Nat \ {0} /\ Tokens[f].op = "function" /\ Depth(f) = 0
           /\ EndOf(f) \in Positions /\ EndOf(f) \in Nat /\ f < EndOf(f)
           /\ EndOf(f) \in Body(f) /\ f + 1 \in Body(f)
           /\ Tokens[EndOf(f)].op = "end" /\ Depth(EndOf(f)) = 1 /\ Depth(EndOf(f) + 1) = 0
           /\ Depth(f + 1) = 1
<1>1. f \in Positions /\ Tokens[f].op = "function" /\ Depth(f) = 0
  BY DEF Definitions, NoNesting
<1>2. /\ f \in Nat \ {0} /\ EndOf(f) \in Positions /\ EndOf(f) \in Nat \ {0} /\ f < EndOf(f)
      /\ Tokens[EndOf(f)].op = "end" /\ Depth(EndOf(f) + 1) = 0
  BY <1>1, EndOfFunction, TokenFacts
<1>3. Depth(f + 1) = 1
  BY <1>1, <1>2, NextDepth DEF Openers
<1>4. Depth(EndOf(f)) = 1
  <2>1. Depth(EndOf(f) + 1) = Depth(EndOf(f)) - 1 /\ Depth(EndOf(f)) \in Int
    BY <1>2, NextDepth, DepthType DEF Openers
  <2> QED BY <1>2, <2>1
<1> QED BY <1>1, <1>2, <1>3, <1>4 DEF Body

LEMMA InBody ==
    ASSUME UnitOK, NoNesting, NEW f \in Definitions, NEW p \in Body(f)
    PROVE  /\ p \in Positions /\ p \in Nat \ {0} /\ f < p /\ p <= EndOf(f)
           /\ Depth(p) \in Nat \ {0} /\ Tokens[p].op \in Ops \ {"function", "forward"}
           /\ Tokens[p].op = "end" /\ Depth(p) = 1 => p = EndOf(f)
           /\ Tokens[p].op \in Clauses => Depth(p) >= 2
<1>1. /\ f \in Positions /\ f \in Nat \ {0} /\ EndOf(f) \in Positions /\ f < EndOf(f)
      /\ EndOf(f) \in Nat /\ Depth(f + 1) = 1 /\ Tokens[f].op = "function" /\ Depth(f) = 0
      /\ Positions = 1..Len(Tokens) /\ Len(Tokens) \in Nat
  BY BodyEnds, TokenFacts
<1>2. p \in Positions /\ p \in Nat \ {0} /\ f + 1 <= p /\ p <= EndOf(f) /\ f + 1 \in Nat \ {0}
  BY <1>1 DEF Body
<1>3. \A j \in Positions : j > f /\ Tokens[j].op = "end" /\ Depth(j) = 1 => EndOf(f) <= j
  BY <1>1, EndOfFunction
<1>4. Depth(p) \in Nat
  <2>1. p \in 1..(Len(Tokens) + 1)
    BY <1>1, <1>2
  <2> QED BY <2>1, DepthNatural
<1>5. Depth(p) # 0
  <2> SUFFICES ASSUME Depth(p) = 0 PROVE FALSE
    OBVIOUS
  <2> DEFINE i == f + 1
  <2>0. i \in Nat \ {0} /\ i <= p /\ 1 \in Int /\ Depth(i) >= 1 /\ Depth(p) < 1 /\ p \in Nat
    BY <1>1, <1>2
  <2> HIDE DEF i
  <2>1. PICK r \in i..(p - 1) : Tokens[r].op = "end" /\ Depth(r) = 1
    BY <2>0, Crossing
  <2> USE DEF i
  <2>2. r \in Positions /\ r > f /\ r < EndOf(f) /\ r \in Nat
    BY <1>1, <1>2
  <2> QED BY <1>1, <1>3, <2>1, <2>2
<1>6. Tokens[p].op \in Ops /\ Tokens[p].op \notin {"function", "forward"}
  BY <1>2, <1>5, TokenFacts DEF Token, NoNesting
<1>7. Tokens[p].op = "end" /\ Depth(p) = 1 => p = EndOf(f)
  BY <1>1, <1>2, <1>3
<1>8. ASSUME Tokens[p].op \in Clauses PROVE Depth(p) # 1
  <2> SUFFICES ASSUME Depth(p) = 1 PROVE FALSE
    OBVIOUS
  <2>1. PICK o \in 1..(p - 1) : Tokens[o].op = "if" /\ Depth(o) = Depth(p) - 1
    BY <1>2, <1>8, ShapeFacts DEF ClausesOfIfs, Positions, Depth
  <2>2. o \in Positions /\ Depth(o) = 0
    BY <1>1, <1>2, <2>1
  <2> QED BY <2>1, <2>2, ShapeFacts
<1> QED BY <1>1, <1>2, <1>4, <1>5, <1>6, <1>7, <1>8

(* The next end on a level deeper than the body's own.                     *)
LEMMA LevelEnds ==
    ASSUME UnitOK, NoNesting, NEW f \in Definitions, NEW i \in Body(f), NEW l \in Nat, l >= 2,
           Depth(i) >= l, ~(Tokens[i].op = "end" /\ Depth(i) = l)
    PROVE  LET e == Min({j \in Positions : j > i /\ Tokens[j].op = "end" /\ Depth(j) = l})
           IN  /\ e \in (i + 1)..(EndOf(f) - 1) /\ Tokens[e].op = "end" /\ Depth(e) = l
               /\ \A j \in i..e : Depth(j) >= l
<1> DEFINE S == {j \in Positions : j > i /\ Tokens[j].op = "end" /\ Depth(j) = l}
           e == Min(S)
<1>1. /\ i \in Nat \ {0} /\ i <= EndOf(f) /\ EndOf(f) \in Nat /\ Depth(EndOf(f)) = 1 /\ i \in Positions
      /\ EndOf(f) \in Positions /\ Positions = 1..Len(Tokens) /\ Len(Tokens) \in Nat
      /\ Depth(i) \in Nat
  BY InBody, BodyEnds, TokenFacts
<1>2. PICK r \in i..(EndOf(f) - 1) : Tokens[r].op = "end" /\ Depth(r) = l
  BY <1>1, Crossing
<1>3. r \in S
  BY <1>1, <1>2
<1>4. S \in SUBSET Nat
  BY <1>1
<1>5. e \in S /\ \A y \in S : e <= y
  <2> HIDE DEF S
  <2> QED BY <1>3, <1>4, LeastIs
<1>6. e \in Nat /\ e <= r /\ e > i /\ Tokens[e].op = "end" /\ Depth(e) = l /\ e \in Positions
  BY <1>1, <1>3, <1>5
<1>7. e \in (i + 1)..(EndOf(f) - 1)
  <2> HIDE DEF e
  <2> QED BY <1>1, <1>2, <1>6
<1>8. ASSUME NEW j \in i..e, Depth(j) < l PROVE FALSE
  <2> HIDE DEF e
  <2>1. j \in Nat /\ i <= j /\ j <= e
    BY <1>1, <1>6
  <2>2. PICK s \in i..(j - 1) : Tokens[s].op = "end" /\ Depth(s) = l
    BY <1>1, <1>8, <2>1, Crossing
  <2>3. s \in Positions /\ s > i /\ s < e /\ s \in Nat
    BY <1>1, <1>6, <2>1, <2>2
  <2>4. s \in S
    BY <2>2, <2>3
  <2> HIDE DEF S
  <2> QED BY <1>5, <1>6, <2>3, <2>4
<1>9. \A j \in i..e : Depth(j) >= l
  <2> HIDE DEF e
  <2> SUFFICES ASSUME NEW j \in i..e PROVE Depth(j) >= l
    OBVIOUS
  <2>1. j \in Nat \ {0}
    BY <1>1, <1>6
  <2>2. Depth(j) \in Int
    BY <2>1, DepthType
  <2> QED BY <1>8, <2>2
<1> QED BY <1>6, <1>7, <1>9
(* The construct a token deeper in the body stands in.                     *)
LEMMA Enclosing ==
    ASSUME UnitOK, NoNesting, NEW f \in Definitions, NEW p \in Body(f), Depth(p) >= 2
    PROVE  \E o \in (f + 1)..(p - 1) :
              /\ o \in Body(f) /\ Tokens[o].op \in {"if", "while"} /\ Depth(o) = Depth(p) - 1
              /\ OpenerOf(p) = o /\ \A i \in (o + 1)..p : Depth(i) >= Depth(p)
<1> DEFINE d == Depth(p)
           S == {i \in 1..p : Tokens[i].op \in Openers /\ Depth(i) = d - 1}
<1>1. /\ p \in Positions /\ p \in Nat \ {0} /\ p <= EndOf(f) /\ f < p /\ d \in Nat /\ d >= 2
      /\ f \in Nat /\ EndOf(f) \in Nat /\ Depth(f + 1) = 1 /\ d - 1 \in Int /\ f + 1 \in Nat \ {0}
      /\ f + 1 <= p
  BY InBody, BodyEnds
<1> HIDE DEF d
<1>2. PICK r \in (f + 1)..(p - 1) : Tokens[r].op \in Openers /\ Depth(r) = d - 1
  <2> DEFINE i == f + 1
  <2>1. i \in Nat \ {0} /\ i <= p /\ Depth(i) <= d - 1 /\ Depth(p) > d - 1 /\ p \in Nat
    BY <1>1 DEF d
  <2> HIDE DEF i
  <2>2. \E r \in i..(p - 1) : Tokens[r].op \in Openers /\ Depth(r) = d - 1
    BY <1>1, <2>1, Climbing
  <2> QED BY <2>2 DEF i
<1>3. r \in S /\ S \in SUBSET (0..p) /\ r \in Nat
  BY <1>1, <1>2
<1>4. PICK o \in S : \A y \in S : y <= o
  <2> HIDE DEF S
  <2> QED BY <1>1, <1>3, HasGreatest
<1>5. o \in Nat /\ r <= o /\ o <= p /\ Tokens[o].op \in Openers /\ Depth(o) = d - 1 /\ o # p
  BY <1>1, <1>3, <1>4 DEF d
<1>6. o \in (f + 1)..(p - 1) /\ o \in Body(f) /\ o \in 1..p
  BY <1>1, <1>2, <1>5 DEF Body
<1>7. Tokens[o].op \in {"if", "while"}
  BY <1>5, <1>6, InBody DEF Openers
<1>8. ASSUME NEW i \in (o + 1)..p, Depth(i) < d PROVE FALSE
  <2>1. i \in Nat \ {0} /\ i <= p /\ o < i /\ Depth(i) \in Int
    <3>1. i \in Nat \ {0} /\ i <= p /\ o < i
      BY <1>1, <1>5
    <3> QED BY <3>1, DepthType
  <2>2. Depth(i) <= d - 1 /\ Depth(p) > d - 1 /\ p \in Nat
    BY <1>1, <1>8, <2>1 DEF d
  <2>3. PICK s \in i..(p - 1) : Tokens[s].op \in Openers /\ Depth(s) = d - 1
    BY <1>1, <2>1, <2>2, Climbing
  <2>4. s \in S /\ s \in Nat /\ o < s
    BY <1>1, <1>5, <2>1, <2>3
  <2> HIDE DEF S
  <2> QED BY <1>4, <1>5, <2>4
<1>9. \A i \in (o + 1)..p : Depth(i) >= d
  <2> SUFFICES ASSUME NEW i \in (o + 1)..p PROVE Depth(i) >= d
    OBVIOUS
  <2>1. i \in Nat \ {0}
    BY <1>1, <1>5
  <2>2. Depth(i) \in Int
    BY <2>1, DepthType
  <2> QED BY <1>1, <1>8, <2>2
<1>10. OpenerOf(p) = o
  BY <1>1, <1>5, <1>6, <1>9, OpenerIs DEF d
<1> QED BY <1>5, <1>6, <1>7, <1>9, <1>10 DEF d

LEMMA OpenerOfEnd ==
    ASSUME UnitOK, NoNesting, NEW f \in Definitions
    PROVE  OpenerOf(EndOf(f)) = f
<1> DEFINE e == EndOf(f)
<1>1. /\ f \in Nat \ {0} /\ e \in Positions /\ e \in Nat /\ f < e /\ Depth(e) = 1
      /\ Tokens[f].op \in Openers /\ Depth(f) = 0
  BY BodyEnds DEF Openers
<1>2. ASSUME NEW i \in (f + 1)..e PROVE Depth(i) >= Depth(e)
  <2>1. i \in Body(f)
    BY DEF Body
  <2>2. Depth(i) \in Nat \ {0}
    BY <2>1, InBody
  <2> QED BY <1>1, <2>2
<1> HIDE DEF e
<1>3. f \in 1..e /\ Depth(f) = Depth(e) - 1
  BY <1>1
<1>4. OpenerOf(e) = f
  BY <1>1, <1>2, <1>3, OpenerIs
<1> QED BY <1>4 DEF e

(* Control goes on within the body.                                        *)
LEMMA OnwardInBody ==
    ASSUME UnitOK, NoNesting, NEW f \in Definitions, NEW p \in Body(f), Passed(p)
    PROVE  /\ p # EndOf(f) /\ Onward(p) \in (p + 1)..EndOf(f) /\ Onward(p) \in Body(f)
           /\ Onward(p) \in Nat
           /\ Tokens[p].op \in Clauses \cup {"other", "end"}
           /\ Tokens[p].op \notin Clauses => Onward(p) = p + 1
           /\ Tokens[p].op = "end" => Tokens[OpenerOf(p)].op = "if"
<1>1. /\ p \in Positions /\ p \in Nat \ {0} /\ p <= EndOf(f) /\ f < p /\ Depth(p) \in Nat
      /\ Tokens[p].op \notin {"function", "forward"} /\ Tokens[p].op \in Ops
      /\ Tokens[p].op \in Clauses => Depth(p) >= 2
      /\ f \in Nat /\ EndOf(f) \in Nat /\ Tokens[f].op = "function" /\ Tokens[EndOf(f)].op = "end"
  BY InBody, BodyEnds
<1>2. Tokens[p].op \in Clauses \cup {"other", "end"} /\ (Tokens[p].op = "end" => Tokens[OpenerOf(p)].op = "if")
  BY <1>1 DEF Passed, Clauses
<1>3. p # EndOf(f)
  BY <1>1, <1>2, OpenerOfEnd DEF Clauses
<1>4. CASE Tokens[p].op \in Clauses
  <2>1. Onward(p) = Min({j \in Positions : j > p /\ Tokens[j].op = "end" /\ Depth(j) = Depth(p)})
    BY <1>4 DEF Onward, Clauses
  <2>2. ~(Tokens[p].op = "end" /\ Depth(p) = Depth(p)) /\ Depth(p) >= Depth(p)
    BY <1>1, <1>4 DEF Clauses
  <2>3. Onward(p) \in (p + 1)..(EndOf(f) - 1)
    BY <1>1, <1>4, <2>1, <2>2, LevelEnds
  <2>4. Onward(p) \in (p + 1)..EndOf(f) /\ Onward(p) \in Nat /\ f + 1 <= Onward(p)
    BY <1>1, <2>3
  <2> QED BY <1>1, <1>2, <1>3, <1>4, <2>4 DEF Body
<1>5. CASE Tokens[p].op \notin Clauses
  <2>1. Onward(p) = p + 1
    BY <1>1, <1>5 DEF Onward
  <2> QED BY <1>1, <1>2, <1>3, <1>5, <2>1 DEF Body
<1> QED BY <1>4, <1>5

LEMMA AtOfBody ==
    ASSUME UnitOK, NoNesting, NEW f \in Definitions, NEW p \in Body(f)
    PROVE  /\ Passed(p) => At(p) = At(Onward(p))
           /\ ~Passed(p) => At(p) = {Stop(p)}
<1>1. p \in Positions /\ EndOf(f) \in Positions /\ Positions = 1..Len(Tokens) /\ Len(Tokens) \in Nat
      /\ p \in Nat /\ EndOf(f) \in Nat
  BY InBody, BodyEnds, TokenFacts
<1>2. ASSUME Passed(p) PROVE Onward(p) \in (p + 1)..Len(Tokens)
  <2>1. Onward(p) \in (p + 1)..EndOf(f)
    BY <1>2, OnwardInBody
  <2> QED BY <1>1, <2>1
<1> QED BY <1>1, <1>2, AtIs

LEMMA StopInBody ==
    ASSUME UnitOK, NoNesting, NEW f \in Definitions, NEW p \in Body(f)
    PROVE  Stop(p) \in Body(f) /\ (Stop(p) = EndOf(f) <=> p = EndOf(f))
<1>1. /\ p \in Positions /\ Tokens[EndOf(f)].op = "end" /\ Tokens[f].op = "function" /\ Depth(p) \in Nat \ {0}
      /\ Tokens[p].op = "end" /\ Depth(p) = 1 => p = EndOf(f)
  BY InBody, BodyEnds
<1>2. CASE Tokens[p].op = "end" /\ Tokens[OpenerOf(p)].op = "while"
  <2>1. p # EndOf(f)
    BY <1>1, <1>2, OpenerOfEnd
  <2>2. Depth(p) >= 2
    BY <1>1, <1>2, <2>1
  <2>3. OpenerOf(p) \in Body(f)
    BY <2>2, Enclosing
  <2> QED BY <1>1, <1>2, <2>1, <2>3 DEF Stop
<1>3. CASE ~(Tokens[p].op = "end" /\ Tokens[OpenerOf(p)].op = "while")
  BY <1>3 DEF Stop
<1> QED BY <1>2, <1>3

(* A greatest member of a set of tokens of the body.                       *)
LEMMA LastOfBody ==
    ASSUME UnitOK, NoNesting, NEW f \in Definitions, NEW S \in SUBSET Body(f), S # {}
    PROVE  \E x \in S : \A y \in S : y <= x
<1>1. f \in Nat /\ EndOf(f) \in Nat
  BY BodyEnds
<1>2. S \in SUBSET (0..EndOf(f))
  BY <1>1 DEF Body
<1> QED BY <1>1, <1>2, HasGreatest

LEMMA AtInBody ==
    ASSUME UnitOK, NoNesting, NEW f \in Definitions, NEW p \in Body(f)
    PROVE  At(p) \subseteq Body(f)
<1> DEFINE S == {q \in Body(f) : ~(At(q) \subseteq Body(f))}
<1> SUFFICES ASSUME S # {} PROVE FALSE
  OBVIOUS
<1>1. PICK q \in S : \A y \in S : y <= q
  <2>1. S \in SUBSET Body(f)
    OBVIOUS
  <2> HIDE DEF S
  <2> QED BY <2>1, LastOfBody
<1>2. q \in Body(f) /\ ~(At(q) \subseteq Body(f)) /\ q \in Nat
  BY InBody
<1>3. CASE Passed(q)
  <2>1. Onward(q) \in Body(f) /\ At(q) = At(Onward(q)) /\ Onward(q) \in (q + 1)..EndOf(f) /\ Onward(q) \in Nat
    BY <1>2, <1>3, OnwardInBody, AtOfBody
  <2>2. ~(Onward(q) <= q)
    BY <1>2, <2>1
  <2> QED BY <1>1, <1>2, <2>1, <2>2
<1>4. CASE ~Passed(q)
  BY <1>2, <1>4, AtOfBody, StopInBody
<1> QED BY <1>3, <1>4

(* Control at p falls off the body.                                        *)
Falls(f, p) == EndOf(f) \in At(p)

LEMMA FallsIs ==
    ASSUME UnitOK, NoNesting, NEW f \in Definitions, NEW p \in Body(f)
    PROVE  /\ Falls(f, p) <=> p = EndOf(f) \/ (Passed(p) /\ Falls(f, Onward(p)))
           /\ Passed(p) => p # EndOf(f)
BY OnwardInBody, AtOfBody, StopInBody DEF Falls

(* In structured bodies only the last token of a block may.                *)
LEMMA NoFall ==
    ASSUME UnitOK, Structured, NEW f \in Definitions, NEW p \in Body(f),
           Tokens[p].op \notin Clauses \cup {"end"}
    PROVE  ~Falls(f, p)
<1> DEFINE S == {q \in Body(f) : Tokens[q].op \notin Clauses \cup {"end"} /\ Falls(f, q)}
<1>0. NoNesting
  BY DEF Structured
<1> SUFFICES ASSUME S # {} PROVE FALSE
  OBVIOUS
<1>1. PICK q \in S : \A y \in S : y <= q
  <2>1. S \in SUBSET Body(f)
    OBVIOUS
  <2> HIDE DEF S
  <2> QED BY <1>0, <2>1, LastOfBody
<1>2. q \in Body(f) /\ Tokens[q].op \notin Clauses \cup {"end"} /\ Falls(f, q) /\ q \in Nat /\ q \in Positions
  BY <1>0, InBody
<1>3. Passed(q) /\ Falls(f, Onward(q))
  <2>1. q # EndOf(f)
    BY <1>0, <1>2, BodyEnds
  <2> QED BY <1>0, <1>2, <2>1, FallsIs
<1>4. Tokens[q].op = "other" /\ Onward(q) = q + 1 /\ q + 1 \in Body(f)
  BY <1>0, <1>2, <1>3, OnwardInBody
<1>5. Tokens[q + 1].op \notin Clauses \cup {"end"}
  BY <1>2, <1>4 DEF Structured, LastInBlock
<1>6. q + 1 \in S /\ ~(q + 1 <= q)
  BY <1>2, <1>3, <1>4, <1>5
<1> HIDE DEF S
<1> QED BY <1>1, <1>6
-----------------------------------------------------------------------------
(* The blocks of a statement in the body.                                  *)
LEMMA BlockOf ==
    ASSUME UnitOK, NoNesting, NEW f \in Definitions, NEW i \in Body(f), ~LastInBlock(i),
           Tokens[i].op \in {"if", "while", "elseif", "else"},
           NEW l, l = IF Tokens[i].op \in Clauses THEN Depth(i) ELSE Depth(i) + 1
    PROVE  /\ i + 1 \in Body(f) /\ l \in Nat /\ l >= 2 /\ Depth(i + 1) = l
           /\ LET e == Min({j \in Positions : j > i /\ Tokens[j].op = "end" /\ Depth(j) = l})
              IN  /\ e \in (i + 1)..(EndOf(f) - 1) /\ Tokens[e].op = "end" /\ Depth(e) = l
                  /\ \A j \in (i + 1)..e : Depth(j) >= l
<1>1. /\ i \in Positions /\ i \in Nat \ {0} /\ i <= EndOf(f) /\ f < i /\ Depth(i) \in Nat \ {0}
      /\ Tokens[i].op \in Clauses => Depth(i) >= 2
      /\ f \in Nat /\ EndOf(f) \in Nat /\ Tokens[EndOf(f)].op = "end"
  BY InBody, BodyEnds
<1>2. i + 1 \in Body(f)
  BY <1>1 DEF Body
<1>3. l \in Nat /\ l >= 2 /\ Depth(i + 1) = l
  <2>1. CASE Tokens[i].op \in Clauses
    BY <1>1, <2>1, NextDepth DEF Clauses, Openers
  <2>2. CASE Tokens[i].op \notin Clauses
    <3>1. Depth(i + 1) = Depth(i) + 1
      BY <1>1, <2>2, NextDepth DEF Clauses, Openers
    <3> QED BY <1>1, <2>2, <3>1
  <2> QED BY <2>1, <2>2
<1>4. Tokens[i + 1].op # "end"
  BY DEF LastInBlock
<1> DEFINE T == {j \in Positions : j > i /\ Tokens[j].op = "end" /\ Depth(j) = l}
           S == {j \in Positions : j > i + 1 /\ Tokens[j].op = "end" /\ Depth(j) = l}
<1>5. T = S
  <2>1. \A j \in Positions : j \in Nat
    BY TokenFacts
  <2>2. i \in Nat
    BY <1>1
  <2> HIDE DEF S, T
  <2>3. \A j \in Nat : (j > i + 1 => j > i) /\ (j > i /\ j # i + 1 => j > i + 1)
    BY <2>2
  <2> USE DEF S, T
  <2> QED BY <1>4, <2>1, <2>3
<1>6. LET e == Min(S)
      IN  /\ e \in ((i + 1) + 1)..(EndOf(f) - 1) /\ Tokens[e].op = "end" /\ Depth(e) = l
          /\ \A j \in (i + 1)..e : Depth(j) >= l
  BY <1>2, <1>3, <1>4, LevelEnds
<1> HIDE DEF S, T
<1>7. /\ Min(T) \in (i + 1)..(EndOf(f) - 1) /\ Tokens[Min(T)].op = "end" /\ Depth(Min(T)) = l
      /\ \A j \in (i + 1)..Min(T) : Depth(j) >= l
  <2>1. Min(S) \in (i + 1)..(EndOf(f) - 1)
    BY <1>1, <1>6
  <2> QED BY <1>5, <1>6, <2>1
<1> QED BY <1>2, <1>3, <1>7 DEF T

LEMMA EndOfBlock ==
    ASSUME UnitOK, NoNesting, NEW f \in Definitions, NEW i \in Body(f), ~LastInBlock(i),
           Tokens[i].op = "while"
    PROVE  /\ EndOf(i) \in Body(f) /\ EndOf(i) < EndOf(f) /\ Tokens[EndOf(i)].op = "end"
           /\ OpenerOf(EndOf(i)) = i
<1> DEFINE l == Depth(i) + 1
           e == EndOf(i)
<1>1. /\ e \in (i + 1)..(EndOf(f) - 1) /\ Tokens[e].op = "end" /\ Depth(e) = l
      /\ \A j \in (i + 1)..e : Depth(j) >= l
  <2>1. l = IF Tokens[i].op \in Clauses THEN Depth(i) ELSE Depth(i) + 1
    BY DEF Clauses
  <2>2. e = Min({j \in Positions : j > i /\ Tokens[j].op = "end" /\ Depth(j) = l})
    BY DEF EndOf
  <2> HIDE DEF l, e
  <2> QED BY <2>1, <2>2, BlockOf
<1>2. i \in Nat \ {0} /\ f < i /\ f \in Nat /\ EndOf(f) \in Nat /\ Depth(i) \in Nat
  BY InBody, BodyEnds
<1> HIDE DEF e
<1>3. e \in Body(f) /\ e < EndOf(f) /\ e \in Nat /\ i \in 1..e
  BY <1>1, <1>2 DEF Body
<1>4. e \in Positions
  BY <1>3, InBody
<1>5. Tokens[i].op \in Openers /\ Depth(i) = Depth(e) - 1
  BY <1>1, <1>2 DEF Openers
<1>6. OpenerOf(e) = i
  BY <1>1, <1>3, <1>4, <1>5, OpenerIs
<1> QED BY <1>1, <1>3, <1>6 DEF e

LEMMA NextClauseIs ==
    ASSUME UnitOK, NoNesting, NEW f \in Definitions, NEW i \in Body(f), ~LastInBlock(i),
           Tokens[i].op \in {"if", "elseif"}
    PROVE  LET l == IF Tokens[i].op \in Clauses THEN Depth(i) ELSE Depth(i) + 1
               j == NextClause(i)
           IN  /\ j \in Body(f) /\ i < j /\ j < EndOf(f) /\ l \in Nat /\ l >= 2
               /\ Tokens[j].op \in Clauses \cup {"end"} /\ Depth(j) = l
               /\ \A k \in (i + 1)..j : Depth(k) >= l
               /\ \A k \in (i + 1)..(j - 1) : Depth(k) = l => Tokens[k].op \notin Clauses \cup {"end"}
<1> DEFINE l == IF Tokens[i].op \in Clauses THEN Depth(i) ELSE Depth(i) + 1
           e == Min({j \in Positions : j > i /\ Tokens[j].op = "end" /\ Depth(j) = l})
           S == {j \in Positions : j > i /\ Depth(j) = l /\ Tokens[j].op \in Clauses \cup {"end"}}
           j == NextClause(i)
<1>1. /\ l \in Nat /\ l >= 2 /\ e \in (i + 1)..(EndOf(f) - 1) /\ Tokens[e].op = "end" /\ Depth(e) = l
      /\ \A k \in (i + 1)..e : Depth(k) >= l
  <2> HIDE DEF l
  <2>1. l = IF Tokens[i].op \in Clauses THEN Depth(i) ELSE Depth(i) + 1
    BY DEF l
  <2>2. e = Min({k \in Positions : k > i /\ Tokens[k].op = "end" /\ Depth(k) = l})
    OBVIOUS
  <2> HIDE DEF e
  <2> QED BY <2>1, <2>2, BlockOf
<1>2. i \in Nat \ {0} /\ f < i /\ f \in Nat /\ EndOf(f) \in Nat /\ EndOf(f) \in Positions
      /\ Positions = 1..Len(Tokens) /\ Len(Tokens) \in Nat
  BY InBody, BodyEnds, TokenFacts
<1>3. j = Min(S)
  BY DEF NextClause, Clauses
<1> HIDE DEF e, l, j
<1>4. e \in S /\ S \in SUBSET Nat
  BY <1>1, <1>2
<1>5. j \in S /\ \A y \in S : j <= y
  <2> HIDE DEF S
  <2> QED BY <1>3, <1>4, LeastIs
<1>6. /\ j \in Nat /\ j > i /\ Depth(j) = l /\ Tokens[j].op \in Clauses \cup {"end"} /\ j <= e
  BY <1>4, <1>5
<1>7. j \in Body(f) /\ j < EndOf(f)
  BY <1>1, <1>2, <1>6 DEF Body
<1>8. \A k \in (i + 1)..j : Depth(k) >= l
  BY <1>1, <1>2, <1>6
<1>9. ASSUME NEW k \in (i + 1)..(j - 1), Depth(k) = l, Tokens[k].op \in Clauses \cup {"end"} PROVE FALSE
  <2>1. k \in Positions /\ k > i /\ k < j /\ k \in Nat
    <3>1. k \in Nat /\ k > i /\ k < j /\ k <= EndOf(f)
      BY <1>2, <1>6, <1>7
    <3> QED BY <1>2, <3>1
  <2>2. k \in S
    BY <1>9, <2>1
  <2> HIDE DEF S
  <2> QED BY <1>5, <1>6, <2>1, <2>2
<1> QED BY <1>1, <1>6, <1>7, <1>8, <1>9 DEF l, j

(* The end of an if statement the last clause of which has a condition     *)
(* does not fall off a structured body.                                    *)
LEMMA NoElse ==
    ASSUME UnitOK, Structured, NEW f \in Definitions, NEW i \in Body(f),
           Tokens[i].op \in {"if", "elseif"}, Tokens[NextClause(i)].op = "end"
    PROVE  ~Falls(f, NextClause(i))
<1>1. NoNesting /\ ~LastInBlock(i) /\ i \in Positions /\ i \in Nat \ {0} /\ f < i /\ f \in Nat
  <2>1. NoNesting
    BY DEF Structured
  <2>2. i \in Positions /\ i \in Nat \ {0} /\ f < i /\ f \in Nat
    BY <2>1, InBody, BodyEnds
  <2> QED BY <2>1, <2>2 DEF Structured, Openers, Clauses
<1> DEFINE j == NextClause(i)
           l == IF Tokens[i].op \in Clauses THEN Depth(i) ELSE Depth(i) + 1
<1>2. /\ j \in Body(f) /\ i < j /\ j < EndOf(f) /\ l \in Nat /\ l >= 2 /\ Depth(j) = l
      /\ \A k \in (i + 1)..j : Depth(k) >= l
      /\ \A k \in (i + 1)..(j - 1) : Depth(k) = l => Tokens[k].op \notin Clauses \cup {"end"}
  BY <1>1, NextClauseIs
<1>3. j \in Positions /\ j \in Nat \ {0} /\ j + 1 \in Body(f) /\ EndOf(f) \in Nat /\ Depth(i) \in Nat
  <2>1. j \in Positions /\ j \in Nat \ {0} /\ EndOf(f) \in Nat /\ Depth(i) \in Nat
    BY <1>1, <1>2, InBody, BodyEnds
  <2> HIDE DEF j
  <2> QED BY <1>1, <1>2, <2>1 DEF Body
<1>4. j + 1 \in Positions /\ Depth(j + 1) \in Nat \ {0}
  <2> HIDE DEF j
  <2> QED BY <1>1, <1>3, InBody
<1> SUFFICES ASSUME Falls(f, j) PROVE FALSE
  OBVIOUS
<1> HIDE DEF j
<1>5. Passed(j) /\ Falls(f, Onward(j)) /\ Tokens[j].op = "end"
  <2>1. j # EndOf(f) /\ j \in Body(f)
    BY <1>2, <1>3
  <2>2. Passed(j) /\ Falls(f, Onward(j))
    BY <1>1, <2>1, FallsIs
  <2> QED BY <2>2 DEF j
<1>6. Onward(j) = j + 1 /\ Tokens[OpenerOf(j)].op = "if"
  BY <1>1, <1>2, <1>5, OnwardInBody DEF Clauses
<1>7. LastInBlock(j)
  BY <1>1, <1>3, <1>5, <1>6, NoFall DEF LastInBlock
<1>8. PICK e \in OpenerOf(j)..j : Tokens[e].op = "else" /\ Depth(e) = Depth(j)
  BY <1>3, <1>4, <1>5, <1>6, <1>7 DEF Structured
<1>9. CASE Tokens[i].op = "if"
  <2>1. OpenerOf(j) = i
    <3>1. i \in 1..j /\ Tokens[i].op \in Openers /\ Depth(i) = Depth(j) - 1
      BY <1>1, <1>2, <1>3, <1>9 DEF Openers, Clauses
    <3> QED BY <1>2, <1>3, <3>1, OpenerIs
  <2>2. e # i /\ e # j /\ e \in Int
    BY <1>5, <1>8, <1>9, <2>1, <1>1, <1>3
  <2>3. e \in (i + 1)..(j - 1)
    BY <1>1, <1>3, <1>8, <2>1, <2>2
  <2> QED BY <1>2, <1>8, <2>3 DEF Clauses
<1>10. CASE Tokens[i].op = "elseif"
  <2>1. l = Depth(i)
    BY <1>10 DEF Clauses
  <2>2. PICK o \in 1..(i - 1) :
           /\ Tokens[o].op = "if" /\ Depth(o) = Depth(i) - 1
           /\ \A k \in (o + 1)..(i - 1) :
                /\ Depth(k) >= Depth(i)
                /\ Depth(k) = Depth(i) => Tokens[k].op \notin {"else", "end"}
    BY <1>1, <1>10, ShapeFacts DEF ClausesOfIfs, Positions, Depth, Clauses
  <2>3. o \in 1..j /\ Tokens[o].op \in Openers /\ Depth(o) = Depth(j) - 1 /\ o \in Nat
    BY <1>1, <1>2, <1>3, <2>1, <2>2 DEF Openers
  <2>4. ASSUME NEW k \in (o + 1)..j PROVE Depth(k) >= Depth(j)
    <3>1. k \in (o + 1)..(i - 1) \/ k = i \/ k \in (i + 1)..j
      BY <1>1, <1>3, <2>2
    <3> QED BY <1>2, <1>3, <2>1, <2>2, <3>1
  <2>5. OpenerOf(j) = o
    BY <1>3, <2>3, <2>4, OpenerIs
  <2>6. e # o /\ e # i /\ e # j /\ e \in Int
    BY <1>1, <1>3, <1>5, <1>8, <1>10, <2>2, <2>3, <2>5
  <2>7. e \in (o + 1)..(i - 1) \/ e \in (i + 1)..(j - 1)
    BY <1>1, <1>3, <1>8, <2>3, <2>5, <2>6
  <2> QED BY <1>2, <1>8, <2>1, <2>2, <2>7 DEF Clauses
<1> QED BY <1>9, <1>10
-----------------------------------------------------------------------------
(* What a run of the function at f executes is within every set that holds *)
(* its first token and with each token the ones after it.                  *)
LEMMA ExecutedWithin ==
    ASSUME UnitOK, NEW f, NEW R, At(f + 1) \subseteq R, \A i \in R : Successors(i) \subseteq R
    PROVE  Executed(f) \subseteq R
<1> DEFINE N == Len(Tokens)
           first == At(f + 1)
           Makes(g) == [n \in 0..N |-> IF n = 0 THEN first
                                       ELSE g[n - 1] \cup UNION {Successors(i) : i \in g[n - 1]}]
           after == CHOOSE g : g = Makes(g)
           step == [S \in SUBSET R |-> S \cup UNION {Successors(i) : i \in S}]
<1>1. N \in Nat
  BY TokenFacts
<1>2. Executed(f) = after[N]
  BY DEF Executed
<1>3. \A S \in SUBSET R : /\ S \cup UNION {Successors(i) : i \in S} \in SUBSET R
                          /\ step[S] = S \cup UNION {Successors(i) : i \in S}
  OBVIOUS
<1>4. first \in SUBSET R
  OBVIOUS
<1> HIDE DEF N, step, first
<1>5. PICK h : Iterates(N, first, step, h)
  BY <1>1, IteratesExist
<1>6. \A n \in 0..N : h[n] = IF n = 0 THEN first ELSE step[h[n - 1]]
  <2>1. h = [n \in 0..N |-> IF n = 0 THEN first ELSE step[h[n - 1]]]
    BY <1>5 DEF Iterates
  <2> QED BY <2>1
<1>7. \A n \in 0..N : h[n] \in SUBSET R
  <2> DEFINE T == {n \in 0..N : h[n] \in SUBSET R}
  <2>1. 0 \in T
    BY <1>1, <1>4, <1>6
  <2>2. ASSUME NEW n \in 0..(N - 1), n \in T PROVE n + 1 \in T
    <3>1. n + 1 \in 0..N /\ n + 1 # 0 /\ (n + 1) - 1 = n
      BY <1>1
    <3>2. h[n + 1] = step[h[n]]
      BY <1>6, <3>1
    <3> QED BY <1>3, <2>2, <3>1, <3>2
  <2> HIDE DEF T
  <2>3. 0..N \subseteq T
    BY <1>1, <2>1, <2>2, UpTo
  <2> QED BY <2>3 DEF T
<1>8. h = Makes(h)
  <2>1. ASSUME NEW n \in 0..N
        PROVE  h[n] = IF n = 0 THEN first
                      ELSE h[n - 1] \cup UNION {Successors(i) : i \in h[n - 1]}
    <3>1. n # 0 => n - 1 \in 0..N
      BY <1>1
    <3>2. n # 0 => step[h[n - 1]] = h[n - 1] \cup UNION {Successors(i) : i \in h[n - 1]}
      BY <1>3, <1>7, <3>1
    <3> QED BY <1>6, <3>2
  <2>2. h = [n \in 0..N |-> h[n]]
    <3>1. h = [n \in 0..N |-> IF n = 0 THEN first ELSE step[h[n - 1]]]
      BY <1>5 DEF Iterates
    <3> QED BY <3>1
  <2> QED BY <2>1, <2>2
<1>9. after = Makes(after)
  <2> HIDE DEF Makes
  <2> QED BY <1>8
<1>10. \A n \in 0..N : after[n] = IF n = 0 THEN first
                                 ELSE after[n - 1] \cup UNION {Successors(i) : i \in after[n - 1]}
  <2> HIDE DEF after
  <2>1. after = [n \in 0..N |-> IF n = 0 THEN first
                                ELSE after[n - 1] \cup UNION {Successors(i) : i \in after[n - 1]}]
    BY <1>9
  <2> HIDE DEF Makes
  <2> QED BY <2>1
<1> HIDE DEF after, Makes
<1>11. \A n \in 0..N : after[n] \in SUBSET R
  <2> DEFINE T == {n \in 0..N : after[n] \in SUBSET R}
  <2>1. 0 \in T
    <3>1. 0 \in 0..N
      BY <1>1
    <3>2. after[0] = first
      BY <1>10, <3>1
    <3> QED BY <1>4, <3>1, <3>2
  <2>2. ASSUME NEW n \in 0..(N - 1), n \in T PROVE n + 1 \in T
    <3>1. n + 1 \in 0..N /\ n + 1 # 0 /\ (n + 1) - 1 = n
      BY <1>1
    <3>2. after[n + 1] = after[n] \cup UNION {Successors(i) : i \in after[n]}
      BY <1>10, <3>1
    <3> QED BY <1>3, <2>2, <3>1, <3>2
  <2> HIDE DEF T
  <2>3. 0..N \subseteq T
    BY <1>1, <2>1, <2>2, UpTo
  <2> QED BY <2>3 DEF T
<1> QED BY <1>1, <1>2, <1>11

(* A structured body is left over its end only after an evaluation that    *)
(* control falls off from.                                                 *)
Faller(f, i) == Tokens[i].op = "evaluate" /\ Falls(f, i + 1)

LEMMA OnlyAfterEvaluation ==
    ASSUME UnitOK, Structured, NEW f \in Definitions, FallsOff(f)
    PROVE  \E i \in (f + 1)..(EndOf(f) - 1) : Faller(f, i)
<1> SUFFICES ASSUME \A i \in (f + 1)..(EndOf(f) - 1) : ~Faller(f, i) PROVE FALSE
  OBVIOUS
<1> DEFINE e == EndOf(f)
           R == Body(f) \ {e}
<1>1. /\ NoNesting /\ f \in Nat \ {0} /\ f \in Positions /\ e \in Nat /\ f < e
      /\ Tokens[f].op = "function" /\ f + 1 \in Body(f) /\ Tokens[e].op = "end"
  <2>1. NoNesting
    BY DEF Structured
  <2> QED BY <2>1, BodyEnds
<1>2. \A i \in Body(f) : i \in Nat /\ i \in Positions /\ f < i /\ i <= e /\ Depth(i) \in Nat \ {0}
                         /\ Tokens[i].op \in Ops
  BY <1>1, InBody
<1>3. ASSUME NEW i \in R
      PROVE  /\ i \in Body(f) /\ i < e /\ i + 1 \in Body(f) /\ i + 1 \in Positions
             /\ Depth(i + 1) > 0 /\ i \in (f + 1)..(e - 1)
  <2> HIDE DEF e
  <2>1. i \in Body(f) /\ i < e /\ i \in Nat /\ f < i
    BY <1>1, <1>2
  <2>2. i + 1 \in Body(f) /\ i \in (f + 1)..(e - 1)
    BY <1>1, <2>1 DEF Body, e
  <2> QED BY <1>2, <2>1, <2>2
<1>4. ASSUME NEW p \in Body(f), ~Falls(f, p) PROVE At(p) \subseteq R
  BY <1>1, <1>4, AtInBody DEF Falls
<1>5. ASSUME NEW i \in Body(f) \cup {f}, i + 1 \in Body(f), ~LastInBlock(i) PROVE At(i + 1) \subseteq R
  BY <1>4, <1>5, NoFall DEF LastInBlock
<1>6. At(f + 1) \subseteq R
  <2>1. ~LastInBlock(f)
    BY <1>1 DEF Structured, Openers
  <2> QED BY <1>1, <1>5, <2>1
<1> HIDE DEF R
<1>7. ASSUME NEW i \in R, Tokens[i].op \in {"if", "while", "elseif", "else", "declare"}
      PROVE  ~LastInBlock(i) /\ At(i + 1) \subseteq R
  <2>1. i \in Body(f) /\ i \in Positions /\ i + 1 \in Body(f)
    BY <1>2, <1>3, <1>7
  <2>2. ~LastInBlock(i)
    BY <1>7, <2>1 DEF Structured, Openers, Clauses
  <2> QED BY <1>5, <2>1, <2>2
<1>8. ASSUME NEW i \in R, Tokens[i].op \in {"if", "elseif"}
      PROVE  Otherwise(NextClause(i)) \subseteq R
  <2> DEFINE j == NextClause(i)
  <2>1. i \in Body(f) /\ ~LastInBlock(i)
    BY <1>3, <1>7, <1>8
  <2>2. j \in Body(f) /\ j < EndOf(f) /\ Tokens[j].op \in Clauses \cup {"end"}
    BY <1>1, <1>8, <2>1, NextClauseIs
  <2>3. j \in R
    BY <1>1, <1>2, <2>2 DEF R
  <2>4. CASE Tokens[j].op = "else"
    <3>1. At(j + 1) \subseteq R
      BY <1>7, <2>3, <2>4
    <3> QED BY <2>4, <3>1 DEF Otherwise
  <2>5. CASE Tokens[j].op = "elseif"
    BY <2>3, <2>5 DEF Otherwise
  <2>6. CASE Tokens[j].op = "end"
    <3>1. ~Falls(f, j)
      BY <1>8, <2>1, <2>6, NoElse
    <3>2. At(j) \subseteq R
      BY <1>4, <2>2, <3>1
    <3> QED BY <2>6, <3>2 DEF Otherwise
  <2> QED BY <2>2, <2>4, <2>5, <2>6 DEF Clauses
<1>9. ASSUME NEW i \in R, Tokens[i].op = "while" PROVE At(EndOf(i) + 1) \subseteq R
  <2> DEFINE j == EndOf(i)
  <2>1. i \in Body(f) /\ ~LastInBlock(i)
    BY <1>3, <1>7, <1>9
  <2>2. /\ j \in Body(f) /\ j < EndOf(f) /\ Tokens[j].op = "end" /\ OpenerOf(j) = i
    BY <1>1, <1>9, <2>1, EndOfBlock
  <2> HIDE DEF j
  <2>3. j \in R
    BY <1>1, <1>2, <2>2 DEF R
  <2>4. j \in Positions /\ j + 1 \in Positions /\ Depth(j + 1) > 0 /\ j + 1 \in Body(f)
    BY <1>2, <1>3, <2>2, <2>3
  <2>5. ~LastInBlock(j)
    BY <1>9, <2>2, <2>4 DEF Structured
  <2> QED BY <1>5, <2>2, <2>4, <2>5 DEF j
<1>10. ASSUME NEW i \in R, Tokens[i].op = "evaluate" PROVE At(i + 1) \subseteq R
  <2>1. i + 1 \in Body(f) /\ ~Faller(f, i)
    BY <1>3, <1>10
  <2> QED BY <1>4, <1>10, <2>1 DEF Faller
<1>11. \A i \in R : Successors(i) \subseteq R
  <2> SUFFICES ASSUME NEW i \in R PROVE Successors(i) \subseteq R
    OBVIOUS
  <2>1. CASE Tokens[i].op \in {"declare", "evaluate"}
    BY <1>7, <1>10, <2>1 DEF Successors
  <2>2. CASE Tokens[i].op \in {"if", "elseif"}
    BY <1>7, <1>8, <2>2 DEF Successors
  <2>3. CASE Tokens[i].op = "while"
    BY <1>7, <1>9, <2>3 DEF Successors
  <2>4. CASE Tokens[i].op \notin {"declare", "evaluate", "if", "elseif", "while"}
    BY <2>4 DEF Successors
  <2> QED BY <2>1, <2>2, <2>3, <2>4
<1>12. Executed(f) \subseteq R
  BY <1>6, <1>11, ExecutedWithin
<1> QED BY <1>12 DEF FallsOff, R
-----------------------------------------------------------------------------
(* What the visits of the checker become.                                  *)
LEMMA AfterIs ==
    ASSUME NEW vs, Visits(vs), NEW values, NEW us, us = After(vs, values)
    PROVE  /\ Len(us) = Len(vs) /\ us[Len(us)].last = values
           /\ \A k \in 1..Len(us) : us[k].op = vs[k].op /\ us[k].at = vs[k].at /\ us[k].all = vs[k].all
<1> DEFINE n == Len(vs)
           v == [vs[n] EXCEPT !.last = values]
<1>1. n \in 1..Len(vs) /\ vs[n] \in Visit /\ vs \in Seq(Visit) /\ DOMAIN vs = 1..Len(vs)
  BY DEF Visits
<1>2. v.op = vs[n].op /\ v.at = vs[n].at /\ v.all = vs[n].all /\ v.last = values
  BY <1>1 DEF Visit
<1>3. us = [vs EXCEPT ![n] = v]
  BY DEF After
<1> HIDE DEF v
<1>4. Len(us) = n /\ us[n] = v /\ \A k \in 1..n : k # n => us[k] = vs[k]
  BY <1>1, <1>3
<1> QED BY <1>2, <1>4

(* The flag of an if statement set at the end of one of its clauses.       *)
Conjoined(vs, value) == [vs EXCEPT ![Len(vs)] = [vs[Len(vs)] EXCEPT !.all = value, !.last = {TRUE}]]

LEMMA ClauseIs ==
    ASSUME NEW vs, Visits(vs), NEW value, NEW us, us = Conjoined(vs, value)
    PROVE  /\ Len(us) = Len(vs) /\ us[Len(us)].all = value
           /\ \A k \in 1..Len(us) : /\ us[k].op = vs[k].op /\ us[k].at = vs[k].at
                                    /\ k # Len(us) => us[k].all = vs[k].all
<1> DEFINE n == Len(vs)
           v == [vs[n] EXCEPT !.all = value, !.last = {TRUE}]
<1>1. n \in 1..Len(vs) /\ vs[n] \in Visit /\ vs \in Seq(Visit) /\ DOMAIN vs = 1..Len(vs)
  BY DEF Visits
<1>2. v.op = vs[n].op /\ v.at = vs[n].at /\ v.all = value
  BY <1>1 DEF Visit
<1>3. us = [vs EXCEPT ![n] = v]
  BY DEF Conjoined
<1> HIDE DEF v
<1>4. Len(us) = n /\ us[n] = v /\ \A k \in 1..n : k # n => us[k] = vs[k]
  BY <1>1, <1>3
<1> QED BY <1>2, <1>4

LEMMA OpenedIs ==
    ASSUME NEW vs, Visits(vs), NEW op, NEW i, NEW us, us = Append(vs, Opened(op, i))
    PROVE  /\ Len(us) = Len(vs) + 1 /\ us[Len(us)].op = op /\ us[Len(us)].at = i
           /\ \A k \in 1..Len(vs) : us[k] = vs[k]
<1>1. vs \in Seq(Visit)
  BY DEF Visits
<1> DEFINE v == Opened(op, i)
<1>2. v.op = op /\ v.at = i
  BY DEF Opened
<1> HIDE DEF v
<1>3. Len(us) = Len(vs) + 1 /\ us[Len(us)] = v /\ \A k \in 1..Len(vs) : us[k] = vs[k]
  BY <1>1 DEF v
<1> QED BY <1>2, <1>3

LEMMA PoppedIs ==
    ASSUME NEW vs, Visits(vs), Len(vs) > 1, NEW values, NEW us, us = After(Front(vs), values)
    PROVE  /\ Len(us) = Len(vs) - 1 /\ us[Len(us)].last = values
           /\ \A k \in 1..Len(us) : us[k].op = vs[k].op /\ us[k].at = vs[k].at /\ us[k].all = vs[k].all
<1>1. vs \in Seq(Visit) /\ vs[1].op = "unit"
  BY DEF Visits
<1>2. /\ Front(vs) \in Seq(Visit) /\ Len(Front(vs)) = Len(vs) - 1 /\ Front(vs)[1] = vs[1] /\ Front(vs) # <<>>
      /\ \A i \in 1..(Len(vs) - 1) : Front(vs)[i] = vs[i]
  BY <1>1, FrontFacts
<1>3. Visits(Front(vs))
  BY <1>1, <1>2 DEF Visits
<1>4. /\ Len(us) = Len(Front(vs)) /\ us[Len(us)].last = values
      /\ \A k \in 1..Len(us) : /\ us[k].op = Front(vs)[k].op /\ us[k].at = Front(vs)[k].at
                               /\ us[k].all = Front(vs)[k].all
  BY <1>3, AfterIs
<1> QED BY <1>2, <1>4

-----------------------------------------------------------------------------
(* Control has fallen off an evaluation in f before token p, and then the  *)
(* flags say so: that of the last statement, or that of an if statement    *)
(* with a clause before p that falls off.                                  *)
Fell(f, p) == \E i \in (f + 1)..(p - 1) : Faller(f, i)

Ended(vs, f, p) == Falls(f, p) /\ vs[Len(vs)].last = {FALSE}

Holding(vs, f, p, k, c) ==
    /\ Tokens[c].op \in Clauses /\ Falls(f, c) /\ Depth(c) = k - 1
    /\ \A j \in c..p : Depth(j) >= k - 1
    /\ vs[k].all = FALSE

Held(vs, f, p) == \E k \in 3..Len(vs) : \E c \in (f + 1)..(p - 1) : Holding(vs, f, p, k, c)

(* The statement visited does not terminate, by its last block or another. *)
NotAll(v) == v.all = FALSE \/ v.last = {FALSE}

Marked(vs, f, p) == Fell(f, p) => Ended(vs, f, p) \/ Held(vs, f, p)

Flagged(vs, p, added) ==
    /\ \A k \in 2..Len(vs) : vs[k].op = "function" <=> k = 2
    /\ Len(vs) >= 2 => /\ vs[2].at \in Definitions /\ vs[2].at < p /\ p <= EndOf(vs[2].at)
                       /\ Marked(vs, vs[2].at, p)
    /\ \A g \in Definitions : EndOf(g) < p /\ Fell(g, EndOf(g)) => g \in added

(* What the flags of if statements hold stays, one token on.               *)
LEMMA HeldOn ==
    ASSUME UnitOK, NEW p \in Positions, NEW vs, NEW us, NEW f \in Nat, Held(vs, f, p),
           Len(us) \in Nat, Len(us) = Depth(p + 1) + 1, Len(vs) \in Nat,
           \A k \in 3..Len(vs) : k <= Len(us) /\ vs[k].all = FALSE => us[k].all = FALSE
    PROVE  \/ Held(us, f, p + 1)
           \/ \E k \in 3..Len(vs) : \E c \in (f + 1)..(p - 1) : Len(us) < k /\ Holding(vs, f, p, k, c)
<1>1. PICK k \in 3..Len(vs), c \in (f + 1)..(p - 1) : Holding(vs, f, p, k, c)
  BY DEF Held
<1>2. p \in Nat \ {0} /\ c \in Nat \ {0} /\ k \in Nat /\ c < p /\ Depth(p + 1) \in Int
  <2>1. p \in Nat \ {0}
    BY TokenFacts
  <2> QED BY <2>1, DepthType
<1>3. CASE k <= Len(us)
  <2>1. k \in 3..Len(us) /\ c \in (f + 1)..((p + 1) - 1)
    BY <1>2, <1>3
  <2>2. us[k].all = FALSE
    BY <1>1, <1>3 DEF Holding
  <2>3. Depth(p + 1) >= k - 1
    BY <1>2, <1>3
  <2>4. \A j \in c..(p + 1) : j \in c..p \/ j = p + 1
    BY <1>2
  <2>5. \A j \in c..(p + 1) : Depth(j) >= k - 1
    BY <1>1, <2>3, <2>4 DEF Holding
  <2>6. Holding(us, f, p + 1, k, c)
    BY <1>1, <2>2, <2>5 DEF Holding
  <2> QED BY <2>1, <2>6 DEF Held
<1>4. CASE ~(k <= Len(us))
  <2>1. Len(us) < k
    BY <1>2, <1>4
  <2> QED BY <1>1, <2>1
<1> QED BY <1>3, <1>4

LEMMA EndedBefore ==
    ASSUME UnitOK, NoNesting, NEW p \in Positions, ~(Tokens[p].op = "end" /\ Depth(p) = 1),
           NEW g \in Definitions, EndOf(g) < p + 1
    PROVE  EndOf(g) < p
<1>1. EndOf(g) \in Nat /\ p \in Nat /\ Tokens[EndOf(g)].op = "end" /\ Depth(EndOf(g)) = 1
  BY BodyEnds, TokenFacts
<1> QED BY <1>1

(* The state of the walk in a function.                                    *)
LEMMA Walking ==
    ASSUME UnitOK, NoNesting, NEW p \in Positions, NEW vs, Visits(vs), Len(vs) = Depth(p) + 1,
           NEW added, Flagged(vs, p, added), Len(vs) >= 2, NEW f, f = vs[2].at
    PROVE  /\ f \in Definitions /\ f \in Nat \ {0} /\ p \in Body(f) /\ p \in Nat \ {0}
           /\ f < p /\ p <= EndOf(f) /\ EndOf(f) \in Nat /\ Len(vs) \in Nat
           /\ p = EndOf(f) <=> Tokens[p].op = "end" /\ Len(vs) = 2
           /\ p = EndOf(f) <=> vs[Len(vs)].op = "function" /\ Tokens[p].op = "end"
           /\ Marked(vs, f, p)
<1>1. f \in Definitions /\ f < p /\ p <= EndOf(f) /\ Marked(vs, f, p)
  BY DEF Flagged
<1>2. f \in Nat \ {0} /\ EndOf(f) \in Nat /\ Tokens[EndOf(f)].op = "end" /\ Depth(EndOf(f)) = 1
  BY <1>1, BodyEnds
<1>3. p \in Nat \ {0} /\ Len(vs) \in Nat
  BY TokenFacts DEF Visits
<1>4. p \in Body(f)
  BY <1>1, <1>2, <1>3 DEF Body
<1>5. Depth(p) \in Nat \ {0} /\ (Tokens[p].op = "end" /\ Depth(p) = 1 => p = EndOf(f))
  BY <1>1, <1>4, InBody
<1>6. p = EndOf(f) <=> Tokens[p].op = "end" /\ Len(vs) = 2
  BY <1>2, <1>5
<1>7. vs[Len(vs)].op = "function" <=> Len(vs) = 2
  BY <1>3 DEF Flagged
<1> QED BY <1>1, <1>2, <1>3, <1>4, <1>6, <1>7

(* A step within a function.                                               *)
LEMMA FlagsOn ==
    ASSUME UnitOK, Structured, NEW p \in Positions, NEW vs, Visits(vs), Len(vs) = Depth(p) + 1,
           NEW added, Flagged(vs, p, added), ~(Tokens[p].op = "end" /\ Depth(p) = 1),
           NEW us, Len(us) \in Nat,
           Len(vs) >= 2 => Len(us) >= 2,
           Len(us) >= 2 => us[2].at = vs[2].at /\ Len(vs) >= 2 /\ Marked(us, vs[2].at, p + 1),
           \A k \in 2..Len(us) : us[k].op = "function" <=> k = 2
    PROVE  Flagged(us, p + 1, added)
<1>1. NoNesting /\ p \in Nat
  BY TokenFacts DEF Structured
<1>2. ASSUME Len(us) >= 2
      PROVE  /\ us[2].at \in Definitions /\ us[2].at < p + 1 /\ p + 1 <= EndOf(us[2].at)
             /\ Marked(us, us[2].at, p + 1)
  <2> DEFINE f == vs[2].at
  <2>1. f \in Definitions /\ f < p /\ p <= EndOf(f) /\ f \in Nat /\ EndOf(f) \in Nat
    BY <1>1, <1>2, Walking
  <2>2. p # EndOf(f)
    BY <1>1, <2>1, BodyEnds
  <2> QED BY <1>1, <1>2, <2>1, <2>2
<1>3. ASSUME NEW g \in Definitions, EndOf(g) < p + 1, Fell(g, EndOf(g)) PROVE g \in added
  <2>1. EndOf(g) < p
    BY <1>1, <1>3, EndedBefore
  <2> QED BY <1>3, <2>1 DEF Flagged
<1> QED BY <1>2, <1>3 DEF Flagged
LEMMA FellNext ==
    ASSUME NEW f \in Nat, NEW p \in Nat, Fell(f, p + 1)
    PROVE  Fell(f, p) \/ Faller(f, p)
<1>1. PICK i \in (f + 1)..((p + 1) - 1) : Faller(f, i)
  BY DEF Fell
<1>2. i = p \/ i \in (f + 1)..(p - 1)
  OBVIOUS
<1> QED BY <1>1, <1>2 DEF Fell

LEMMA FlagsSimple ==
    ASSUME UnitOK, Structured, NEW p \in Positions, NEW vs, Visits(vs), Len(vs) = Depth(p) + 1,
           NEW added, Flagged(vs, p, added), Tokens[p].op \notin Openers \cup Clauses \cup {"end"},
           NEW values, Tokens[p].op = "evaluate" => values = {FALSE},
           NEW us, us = After(vs, values)
    PROVE  Flagged(us, p + 1, added)
<1>1. /\ Len(us) = Len(vs) /\ us[Len(us)].last = values /\ Len(vs) \in Nat
      /\ \A k \in 1..Len(us) : us[k].op = vs[k].op /\ us[k].at = vs[k].at /\ us[k].all = vs[k].all
  BY AfterIs DEF Visits
<1>2. p \in Nat \ {0} /\ NoNesting
  BY TokenFacts DEF Structured
<1>3. Depth(p + 1) = Depth(p)
  BY <1>2, NextDepth
<1>4. ASSUME Len(vs) >= 2, Fell(vs[2].at, p + 1)
      PROVE  Ended(us, vs[2].at, p + 1) \/ Held(us, vs[2].at, p + 1)
  <2> DEFINE f == vs[2].at
  <2>1. f \in Definitions /\ f \in Nat /\ p \in Body(f) /\ Marked(vs, f, p)
    BY <1>2, <1>4, Walking
  <2> HIDE DEF f
  <2>2. CASE Faller(f, p)
    BY <1>1, <2>2 DEF Faller, Ended, f
  <2>3. CASE Fell(f, p)
    <3>1. ~Falls(f, p)
      BY <2>1, NoFall
    <3>2. Held(vs, f, p)
      BY <2>1, <2>3, <3>1 DEF Marked, Ended
    <3>3. \A k \in 3..Len(vs) : k <= Len(us) /\ vs[k].all = FALSE => us[k].all = FALSE
      BY <1>1
    <3>4. \A k \in 3..Len(vs) : ~(Len(us) < k)
      BY <1>1
    <3>5. Held(us, f, p + 1)
      BY <1>1, <1>3, <2>1, <3>2, <3>3, <3>4, HeldOn
    <3> QED BY <3>5 DEF f
  <2> QED BY <1>2, <1>4, <2>1, <2>2, <2>3, FellNext DEF f
<1>5. ~(Tokens[p].op = "end" /\ Depth(p) = 1)
  OBVIOUS
<1>6. Len(us) >= 2 => us[2].at = vs[2].at /\ Len(vs) >= 2 /\ Marked(us, vs[2].at, p + 1)
  BY <1>1, <1>4 DEF Marked
<1>7. \A k \in 2..Len(us) : us[k].op = "function" <=> k = 2
  <2>1. \A k \in 2..Len(us) : k \in 1..Len(us)
    BY <1>1
  <2> QED BY <1>1, <2>1 DEF Flagged
<1> QED BY <1>1, <1>5, <1>6, <1>7, FlagsOn

LEMMA FlagsOpen ==
    ASSUME UnitOK, Structured, NEW p \in Positions, NEW vs, Visits(vs), Len(vs) = Depth(p) + 1,
           NEW added, Flagged(vs, p, added), Tokens[p].op \in {"if", "while"},
           NEW us, us = Append(vs, Opened(Tokens[p].op, p))
    PROVE  Flagged(us, p + 1, added)
<1>1. /\ Len(us) = Len(vs) + 1 /\ us[Len(us)].op = Tokens[p].op /\ Len(vs) \in Nat
      /\ \A k \in 1..Len(vs) : us[k] = vs[k]
  <2>1. Len(vs) \in Nat
    BY DEF Visits
  <2> QED BY <2>1, OpenedIs
<1>2. p \in Nat \ {0} /\ NoNesting /\ Depth(p) \in Int
  <2>1. p \in Nat \ {0} /\ NoNesting
    BY TokenFacts DEF Structured
  <2> QED BY <2>1, DepthType
<1>3. Depth(p + 1) = Depth(p) + 1
  BY <1>2, NextDepth DEF Openers
<1>4. Len(vs) >= 2
  <2>1. Depth(p) # 0 /\ Len(vs) # 0
    BY ShapeFacts DEF Visits
  <2> QED BY <1>1, <1>2, <2>1
<1> DEFINE f == vs[2].at
<1>5. f \in Definitions /\ f \in Nat /\ p \in Body(f) /\ Marked(vs, f, p)
  BY <1>2, <1>4, Walking
<1>6. ASSUME Fell(f, p + 1) PROVE Held(us, f, p + 1)
  <2> HIDE DEF f
  <2>1. ~Faller(f, p) /\ Fell(f, p)
    BY <1>2, <1>5, <1>6, FellNext DEF Faller
  <2>2. ~Falls(f, p)
    BY <1>5, NoFall DEF Clauses
  <2>3. Held(vs, f, p)
    BY <1>5, <2>1, <2>2 DEF Marked, Ended
  <2>4. \A k \in 3..Len(vs) : k \in 1..Len(vs) /\ ~(Len(us) < k)
    BY <1>1
  <2>5. \A k \in 3..Len(vs) : k <= Len(us) /\ vs[k].all = FALSE => us[k].all = FALSE
    BY <1>1, <2>4
  <2>6. Len(us) \in Nat /\ Len(us) = Depth(p + 1) + 1
    BY <1>1, <1>2, <1>3
  <2> QED BY <1>1, <1>5, <2>3, <2>4, <2>5, <2>6, HeldOn
<1>7. us[2] = vs[2] /\ Len(us) \in Nat /\ Len(us) >= 2 /\ Marked(us, f, p + 1)
  <2>1. 2 \in 1..Len(vs)
    BY <1>1, <1>4
  <2> QED BY <1>1, <1>4, <1>6, <2>1 DEF Marked
<1>8. \A k \in 2..Len(us) : us[k].op = "function" <=> k = 2
  <2> SUFFICES ASSUME NEW k \in 2..Len(us) PROVE us[k].op = "function" <=> k = 2
    OBVIOUS
  <2>1. k = Len(us) \/ (k \in 1..Len(vs) /\ k \in 2..Len(vs))
    BY <1>1
  <2>2. Len(us) # 2
    BY <1>1, <1>4
  <2>3. CASE k = Len(us)
    BY <1>1, <2>2, <2>3
  <2>4. CASE k \in 1..Len(vs) /\ k \in 2..Len(vs)
    BY <1>1, <2>4 DEF Flagged
  <2> QED BY <2>1, <2>3, <2>4
<1> HIDE DEF f
<1>9. us[2].at = vs[2].at /\ Marked(us, vs[2].at, p + 1)
  BY <1>7 DEF f
<1> QED BY <1>4, <1>7, <1>8, <1>9, FlagsOn

LEMMA FlagsClause ==
    ASSUME UnitOK, Structured, NEW p \in Positions, NEW vs, Visits(vs), Len(vs) = Depth(p) + 1,
           NEW added, Flagged(vs, p, added), Tokens[p].op \in Clauses,
           NEW value, NotAll(vs[Len(vs)]) => value = FALSE,
           NEW us, us = Conjoined(vs, value)
    PROVE  Flagged(us, p + 1, added)
<1>1. /\ Len(us) = Len(vs) /\ Len(vs) \in Nat
      /\ \A k \in 1..Len(us) : /\ us[k].op = vs[k].op /\ us[k].at = vs[k].at
                               /\ vs[k].all = FALSE => us[k].all = FALSE
      /\ us[Len(us)].all = value
  <2>1. Len(vs) \in Nat
    BY DEF Visits
  <2>2. /\ Len(us) = Len(vs) /\ us[Len(us)].all = value
        /\ \A k \in 1..Len(us) : /\ us[k].op = vs[k].op /\ us[k].at = vs[k].at
                                 /\ k # Len(us) => us[k].all = vs[k].all
    BY ClauseIs
  <2> QED BY <2>1, <2>2 DEF NotAll
<1>2. p \in Nat \ {0} /\ NoNesting /\ Depth(p) \in Int
  <2>1. p \in Nat \ {0} /\ NoNesting
    BY TokenFacts DEF Structured
  <2> QED BY <2>1, DepthType
<1>3. Depth(p + 1) = Depth(p)
  BY <1>2, NextDepth DEF Openers, Clauses
<1>4. Len(vs) >= 2
  <2>1. Depth(p) # 0 /\ Len(vs) # 0
    BY ShapeFacts DEF Visits, Clauses
  <2> QED BY <1>1, <1>2, <2>1
<1> DEFINE f == vs[2].at
<1>5. f \in Definitions /\ f \in Nat /\ p \in Body(f) /\ f < p /\ Marked(vs, f, p)
  BY <1>2, <1>4, Walking
<1>6. Depth(p) >= 2 /\ Len(vs) >= 3
  <2>1. Depth(p) >= 2
    BY <1>2, <1>5, InBody
  <2> QED BY <1>1, <1>2, <2>1
<1>7. ASSUME Fell(f, p + 1) PROVE Held(us, f, p + 1)
  <2> HIDE DEF f
  <2>1. Fell(f, p)
    BY <1>2, <1>5, <1>7, FellNext DEF Faller, Clauses
  <2>2. CASE Ended(vs, f, p)
    <3>1. Falls(f, p) /\ us[Len(us)].all = FALSE
      BY <1>1, <2>2 DEF Ended, NotAll
    <3>2. Len(us) \in 3..Len(us) /\ p \in (f + 1)..((p + 1) - 1) /\ Depth(p) = Len(us) - 1
      BY <1>1, <1>2, <1>5, <1>6
    <3>3. \A j \in p..(p + 1) : j = p \/ j = p + 1
      BY <1>2
    <3>4. \A j \in p..(p + 1) : Depth(j) >= Len(us) - 1
      <4>1. Depth(p) >= Len(us) - 1 /\ Depth(p + 1) >= Len(us) - 1
        BY <1>1, <1>2, <1>3, <3>2
      <4> QED BY <3>3, <4>1
    <3>5. Holding(us, f, p + 1, Len(us), p)
      BY <3>1, <3>2, <3>4 DEF Holding
    <3> QED BY <3>2, <3>5 DEF Held
  <2>3. CASE Held(vs, f, p)
    <3>1. \A k \in 3..Len(vs) : k \in 1..Len(us) /\ ~(Len(us) < k)
      BY <1>1
    <3>2. \A k \in 3..Len(vs) : k <= Len(us) /\ vs[k].all = FALSE => us[k].all = FALSE
      BY <1>1, <3>1
    <3> QED BY <1>1, <1>3, <1>5, <2>3, <3>1, <3>2, HeldOn
  <2> QED BY <1>5, <2>1, <2>2, <2>3 DEF Marked
<1>8. us[2].at = vs[2].at /\ Marked(us, vs[2].at, p + 1)
  <2>1. 2 \in 1..Len(us)
    BY <1>1, <1>4
  <2> QED BY <1>1, <1>7, <2>1 DEF Marked
<1>9. \A k \in 2..Len(us) : us[k].op = "function" <=> k = 2
  <2>1. \A k \in 2..Len(us) : k \in 1..Len(us)
    BY <1>1
  <2> QED BY <1>1, <2>1 DEF Flagged
<1>10. ~(Tokens[p].op = "end" /\ Depth(p) = 1)
  BY DEF Clauses
<1> QED BY <1>1, <1>4, <1>8, <1>9, <1>10, FlagsOn

(* A clause that falls off does so over the end of its if statement.       *)
LEMMA ClauseEndsAt ==
    ASSUME UnitOK, NoNesting, NEW f \in Definitions, NEW p \in Body(f), NEW c \in (f + 1)..(p - 1),
           Tokens[c].op \in Clauses, Falls(f, c), Tokens[p].op = "end", Depth(p) = Depth(c),
           \A j \in c..p : Depth(j) >= Depth(c)
    PROVE  Falls(f, p)
<1> DEFINE S == {j \in Positions : j > c /\ Tokens[j].op = "end" /\ Depth(j) = Depth(c)}
<1>1. /\ p \in Positions /\ p \in Nat /\ p <= EndOf(f) /\ EndOf(f) \in Nat /\ f \in Nat
      /\ Positions = 1..Len(Tokens) /\ Len(Tokens) \in Nat
  BY InBody, BodyEnds, TokenFacts
<1>2. c \in Body(f) /\ c < p /\ c \in Nat /\ p \in S
  BY <1>1 DEF Body
<1>3. Depth(c) \in Nat
  BY <1>2, InBody
<1>4. ASSUME NEW j \in S, j < p PROVE FALSE
  <2>1. j \in Nat \ {0} /\ j + 1 \in c..p /\ Tokens[j].op = "end" /\ Depth(j) = Depth(c)
    BY <1>1, <1>2, <1>4
  <2>2. Depth(j + 1) = Depth(c) - 1
    BY <2>1, NextDepth DEF Openers
  <2>3. Depth(j + 1) >= Depth(c)
    BY <2>1
  <2> QED BY <1>3, <2>2, <2>3
<1>5. \A y \in S : p <= y
  <2>1. \A y \in S : y \in Nat
    BY <1>1
  <2> HIDE DEF S
  <2> QED BY <1>1, <1>4, <2>1
<1>6. S \in SUBSET Nat /\ S # {}
  BY <1>1, <1>2
<1>7. Min(S) \in S /\ \A y \in S : Min(S) <= y
  <2> HIDE DEF S
  <2> QED BY <1>6, LeastIs
<1>8. Min(S) = p
  <2> HIDE DEF S
  <2>1. Min(S) \in Nat /\ Min(S) <= p /\ p <= Min(S)
    BY <1>2, <1>5, <1>6, <1>7
  <2> QED BY <1>1, <2>1
<1>9. Onward(c) = p
  <2>1. Onward(c) = Min(S)
    BY DEF Onward, Clauses
  <2> QED BY <1>8, <2>1
<1>10. c # EndOf(f)
  BY <1>1, <1>2
<1> QED BY <1>2, <1>9, <1>10, FallsIs
LEMMA FlagsEnd ==
    ASSUME UnitOK, Structured, NEW p \in Positions, NEW vs, Visits(vs), Len(vs) = Depth(p) + 1,
           NEW added, Flagged(vs, p, added), Tokens[p].op = "end",
           vs[Len(vs)].op \in {"if", "while"},
           NEW values, NotAll(vs[Len(vs)]) => values = {FALSE},
           NEW us, us = After(Front(vs), values)
    PROVE  Flagged(us, p + 1, added)
<1>1. Len(vs) \in Nat /\ Len(vs) > 1
  BY DEF Visits
<1>2. /\ Len(us) = Len(vs) - 1 /\ us[Len(us)].last = values
      /\ \A k \in 1..Len(us) : us[k].op = vs[k].op /\ us[k].at = vs[k].at /\ us[k].all = vs[k].all
  BY <1>1, PoppedIs
<1>3. p \in Nat \ {0} /\ NoNesting /\ Depth(p) \in Int
  <2>1. p \in Nat \ {0} /\ NoNesting
    BY TokenFacts DEF Structured
  <2> QED BY <2>1, DepthType
<1>4. Depth(p + 1) = Depth(p) - 1
  BY <1>3, NextDepth DEF Openers
<1> DEFINE f == vs[2].at
<1>5. /\ f \in Definitions /\ f \in Nat /\ p \in Body(f) /\ Marked(vs, f, p) /\ f < p
      /\ p # EndOf(f) /\ Len(vs) # 2
  <2>1. vs[Len(vs)].op # "function" /\ Len(vs) >= 2
    BY <1>1
  <2>2. f \in Definitions /\ f \in Nat \ {0} /\ p \in Body(f) /\ Marked(vs, f, p) /\ f < p
    BY <1>3, <2>1, Walking
  <2>3. Len(vs) # 2
    <3>1. vs[2].op = "function"
      BY <1>1, <2>1 DEF Flagged
    <3> QED BY <2>1, <3>1
  <2>4. p # EndOf(f)
    <3>1. Depth(EndOf(f)) = 1
      BY <1>3, <2>2, BodyEnds
    <3> QED BY <2>3, <3>1
  <2> HIDE DEF f
  <2> QED BY <2>1, <2>2, <2>3, <2>4
<1>6. ASSUME Falls(f, p) PROVE Falls(f, p + 1)
  <2> HIDE DEF f
  <2>1. Passed(p) /\ Falls(f, Onward(p))
    BY <1>3, <1>5, <1>6, FallsIs
  <2> QED BY <1>3, <1>5, <2>1, OnwardInBody DEF Clauses
<1>7. ASSUME Fell(f, p + 1) PROVE Ended(us, f, p + 1) \/ Held(us, f, p + 1)
  <2> HIDE DEF f
  <2>1. Fell(f, p)
    BY <1>3, <1>5, <1>7, FellNext DEF Faller
  <2>2. CASE Ended(vs, f, p)
    BY <1>2, <1>6, <2>2 DEF Ended, NotAll
  <2>3. CASE Held(vs, f, p)
    <3>1. \A k \in 3..Len(vs) : k <= Len(us) => k \in 1..Len(us)
      BY <1>1, <1>2
    <3>2. \A k \in 3..Len(vs) : k <= Len(us) /\ vs[k].all = FALSE => us[k].all = FALSE
      BY <1>2, <3>1
    <3>3. Len(us) \in Nat /\ Len(us) = Depth(p + 1) + 1
      BY <1>1, <1>2, <1>3, <1>4
    <3>4. CASE \E k \in 3..Len(vs) : \E c \in (f + 1)..(p - 1) : Len(us) < k /\ Holding(vs, f, p, k, c)
      <4>1. PICK k \in 3..Len(vs), c \in (f + 1)..(p - 1) : Len(us) < k /\ Holding(vs, f, p, k, c)
        BY <3>4
      <4>2. k = Len(vs)
        BY <1>1, <1>2, <4>1
      <4>3. values = {FALSE} /\ Depth(c) = Depth(p)
        <5>1. vs[k].all = FALSE /\ Depth(c) = k - 1
          BY <4>1 DEF Holding
        <5>2. values = {FALSE}
          BY <4>2, <5>1 DEF NotAll
        <5>3. Depth(c) = Depth(p)
          BY <1>1, <1>3, <4>2, <5>1
        <5> QED BY <5>2, <5>3
      <4>4. Tokens[c].op \in Clauses /\ Falls(f, c) /\ \A j \in c..p : Depth(j) >= Depth(c)
        BY <4>1 DEF Holding
      <4>5. Falls(f, p)
        BY <1>3, <1>5, <4>3, <4>4, ClauseEndsAt
      <4> QED BY <1>2, <1>6, <4>3, <4>5 DEF Ended
    <3> QED BY <1>1, <1>5, <2>3, <3>2, <3>3, <3>4, HeldOn
  <2> QED BY <1>5, <2>1, <2>2, <2>3 DEF Marked
<1>8. Len(us) \in Nat /\ Len(us) >= 2 /\ 2 \in 1..Len(us)
  BY <1>1, <1>2, <1>5
<1>9. us[2].at = vs[2].at /\ Marked(us, vs[2].at, p + 1)
  BY <1>2, <1>7, <1>8 DEF Marked
<1>10. \A k \in 2..Len(us) : us[k].op = "function" <=> k = 2
  <2>1. \A k \in 2..Len(us) : k \in 1..Len(us) /\ k \in 2..Len(vs)
    BY <1>1, <1>2
  <2> QED BY <1>2, <2>1 DEF Flagged
<1>11. ~(Tokens[p].op = "end" /\ Depth(p) = 1)
  BY <1>1, <1>3, <1>5
<1> HIDE DEF f
<1> QED BY <1>1, <1>8, <1>9, <1>10, <1>11, FlagsOn

LEMMA FlagsFunction ==
    ASSUME UnitOK, Structured, NEW p \in Positions, NEW vs, Visits(vs), Len(vs) = Depth(p) + 1,
           NEW added, Flagged(vs, p, added), Tokens[p].op = "function",
           NEW us, us = Append(vs, Opened("function", p))
    PROVE  Flagged(us, p + 1, added)
<1>1. Len(vs) \in Nat
  BY DEF Visits
<1>2. p \in Nat \ {0} /\ NoNesting /\ p \in Definitions /\ Depth(p) = 0
  BY TokenFacts DEF Structured, NoNesting, Definitions
<1>3. Len(us) = 2 /\ us[2].op = "function" /\ us[2].at = p
  <2>1. Len(us) = Len(vs) + 1 /\ us[Len(us)].op = "function" /\ us[Len(us)].at = p
    BY OpenedIs
  <2>2. Len(us) = 2
    BY <1>1, <1>2, <2>1
  <2> QED BY <2>1, <2>2
<1>4. \A k \in 2..Len(us) : us[k].op = "function" <=> k = 2
  <2>1. \A k \in 2..Len(us) : k = 2
    BY <1>3
  <2> QED BY <1>3, <2>1
<1>5. p < p + 1 /\ p + 1 <= EndOf(p)
  <2>1. p < EndOf(p) /\ EndOf(p) \in Nat
    BY <1>2, BodyEnds
  <2> QED BY <1>2, <2>1
<1>6. Marked(us, p, p + 1)
  <2>1. (p + 1)..((p + 1) - 1) = {}
    BY <1>2
  <2> QED BY <2>1 DEF Marked, Fell
<1>7. ASSUME NEW g \in Definitions, EndOf(g) < p + 1, Fell(g, EndOf(g)) PROVE g \in added
  <2>1. EndOf(g) < p
    BY <1>2, <1>7, EndedBefore
  <2> QED BY <1>7, <2>1 DEF Flagged
<1> QED BY <1>2, <1>3, <1>4, <1>5, <1>6, <1>7 DEF Flagged

LEMMA FlagsFunctionEnd ==
    ASSUME UnitOK, Structured, NEW p \in Positions, NEW vs, Visits(vs), Len(vs) = Depth(p) + 1,
           NEW added, Flagged(vs, p, added), Tokens[p].op = "end", vs[Len(vs)].op = "function",
           NEW more, \/ TRUE \in vs[Len(vs)].last /\ more = added
                     \/ more = added \cup {vs[Len(vs)].at},
           NEW values, NEW us, us = After(Front(vs), values)
    PROVE  Flagged(us, p + 1, more)
<1>1. Len(vs) \in Nat /\ Len(vs) > 1
  BY DEF Visits
<1>2. Len(us) = Len(vs) - 1
  BY <1>1, PoppedIs
<1>3. p \in Nat \ {0} /\ NoNesting
  BY TokenFacts DEF Structured
<1> DEFINE f == vs[2].at
<1>4. /\ f \in Definitions /\ f \in Nat /\ Marked(vs, f, p) /\ p = EndOf(f) /\ Len(vs) = 2
  <2>1. /\ f \in Definitions /\ f \in Nat /\ Marked(vs, f, p)
        /\ p = EndOf(f) <=> Tokens[p].op = "end" /\ Len(vs) = 2
        /\ p = EndOf(f) <=> vs[Len(vs)].op = "function" /\ Tokens[p].op = "end"
    BY <1>1, <1>3, Walking
  <2> HIDE DEF f
  <2> QED BY <2>1
<1>5. Len(us) = 1
  BY <1>2, <1>4
<1>6. ASSUME NEW g \in Definitions, EndOf(g) < p + 1, Fell(g, EndOf(g)) PROVE g \in more
  <2>1. EndOf(g) \in Nat
    BY <1>3, BodyEnds
  <2>2. CASE EndOf(g) < p
    BY <1>6, <2>2 DEF Flagged
  <2>3. CASE EndOf(g) = p
    <3>1. g = f
      BY <1>3, <1>4, <2>3, OpenerOfEnd
    <3>2. CASE more = added \cup {vs[Len(vs)].at}
      BY <1>4, <3>1, <3>2
    <3>3. CASE TRUE \in vs[Len(vs)].last
      <4>1. Fell(f, p)
        BY <1>6, <2>3, <3>1
      <4>2. ~Held(vs, f, p)
        <5>1. 3..Len(vs) = {}
          BY <1>4
        <5> QED BY <5>1 DEF Held
      <4>3. vs[Len(vs)].last = {FALSE}
        BY <1>4, <4>1, <4>2 DEF Marked, Ended
      <4> QED BY <3>3, <4>3
    <3> QED BY <3>2, <3>3
  <2> QED BY <1>3, <1>6, <2>1, <2>2, <2>3
<1>7. 2..Len(us) = {} /\ ~(Len(us) >= 2)
  BY <1>5
<1> QED BY <1>6, <1>7 DEF Flagged
LEMMA FlagsNext ==
    ASSUME UnitOK, Structured, Walked(open, scopes, cpos), CheckNext,
           Flagged(open, cpos, autoReturn)
    PROVE  Flagged(open', cpos', autoReturn') \/ verdict' = "rejected"
<1>1. Visits(open) /\ Len(open) = Depth(cpos) + 1
  BY DEF Walked
<1>2. ASSUME NEW ops, Checking(ops)
      PROVE  cpos \in Positions /\ Tokens[cpos].op \in ops
  BY <1>2, TokenFacts DEF Checking, Walked
<1>3. Inner \in Visit
  BY <1>1 DEF Inner, Visits
<1>4. ASSUME NEW ops, Checking(ops), ops \subseteq {"declare", "evaluate", "other", "forward"} \cup Returns,
             Step, autoReturn' = autoReturn, NEW values, open' = After(open, values),
             Tokens[cpos].op = "evaluate" => values = {FALSE}
      PROVE  Flagged(open', cpos', autoReturn')
  <2>1. cpos \in Positions /\ Tokens[cpos].op \in {"declare", "evaluate", "other", "forward"} \cup Returns
    BY <1>2, <1>4
  <2>2. Tokens[cpos].op \notin Openers \cup Clauses \cup {"end"}
    BY <2>1 DEF Openers, Clauses, Returns
  <2>3. Flagged(open', cpos + 1, autoReturn)
    BY <1>1, <1>4, <2>1, <2>2, FlagsSimple
  <2> QED BY <1>4, <2>3 DEF Step
<1>5. CASE CheckDeclare
  <2>1. Checking({"declare"}) /\ Step /\ autoReturn' = autoReturn /\ open' = After(open, Unset)
    BY <1>5 DEF CheckDeclare
  <2>2. Tokens[cpos].op = "declare"
    BY <1>2, <2>1
  <2> QED BY <1>4, <2>1, <2>2
<1>6. CASE CheckEvaluate
  <2>1. Checking({"evaluate"}) /\ Step /\ autoReturn' = autoReturn /\ open' = After(open, {FALSE})
    BY <1>6 DEF CheckEvaluate
  <2> QED BY <1>4, <2>1
<1>7. CASE CheckOther
  <2>1. Checking({"other"}) /\ Step /\ autoReturn' = autoReturn /\ open' = After(open, Unset)
    BY <1>7 DEF CheckOther
  <2>2. Tokens[cpos].op = "other"
    BY <1>2, <2>1
  <2> QED BY <1>4, <2>1, <2>2
<1>8. CASE CheckForward
  <2>1. Checking({"forward"}) /\ Step /\ autoReturn' = autoReturn /\ open' = After(open, Unset)
    BY <1>8 DEF CheckForward
  <2>2. Tokens[cpos].op = "forward"
    BY <1>2, <2>1
  <2> QED BY <1>4, <2>1, <2>2
<1>9. CASE CheckReturn
  <2>1. Checking(Returns) /\ Step /\ autoReturn' = autoReturn /\ open' = After(open, {TRUE})
    BY <1>9 DEF CheckReturn
  <2>2. Tokens[cpos].op \in Returns
    BY <1>2, <2>1
  <2>3. Tokens[cpos].op # "evaluate"
    BY <2>2 DEF Returns
  <2> QED BY <1>4, <2>1, <2>3
<1>10. CASE CheckOpen
  <2>1. /\ Checking({"if", "while"}) /\ Step /\ autoReturn' = autoReturn
        /\ open' = Append(open, Opened(Tokens[cpos].op, cpos))
    BY <1>10 DEF CheckOpen
  <2>2. cpos \in Positions /\ Tokens[cpos].op \in {"if", "while"}
    BY <1>2, <2>1
  <2>3. Flagged(open', cpos + 1, autoReturn)
    BY <1>1, <2>1, <2>2, FlagsOpen
  <2> QED BY <2>1, <2>3 DEF Step
<1>11. CASE CheckClause
  <2>1. /\ Checking(Clauses) /\ Step /\ autoReturn' = autoReturn
        /\ \E t \in Inner.last :
              open' = [open EXCEPT ![Len(open)] = [Inner EXCEPT !.all = @ /\ t, !.last = {TRUE}]]
    BY <1>11 DEF CheckClause
  <2>2. cpos \in Positions /\ Tokens[cpos].op \in Clauses
    BY <1>2, <2>1
  <2>3. PICK value \in BOOLEAN :
           open' = Conjoined(open, value) /\ (NotAll(Inner) => value = FALSE)
    <3>1. PICK t \in Inner.last :
             open' = [open EXCEPT ![Len(open)] = [Inner EXCEPT !.all = @ /\ t, !.last = {TRUE}]]
      BY <2>1
    <3> DEFINE value == Inner.all /\ t
    <3>2. open' = Conjoined(open, value)
      BY <3>1 DEF Conjoined, Inner
    <3>3. NotAll(Inner) => value = FALSE
      BY <3>1 DEF NotAll
    <3> QED BY <3>2, <3>3
  <2>4. NotAll(open[Len(open)]) => value = FALSE
    BY <2>3 DEF Inner
  <2>5. Flagged(open', cpos + 1, autoReturn)
    BY <1>1, <2>2, <2>3, <2>4, FlagsClause
  <2> QED BY <2>1, <2>5 DEF Step
<1>12. CASE CheckEnd
  <2>1. /\ Checking({"end"}) /\ Inner.op \in {"if", "while"} /\ Step /\ autoReturn' = autoReturn
        /\ \E t \in Inner.last : open' = After(Front(open), {Inner.all /\ t})
    BY <1>12 DEF CheckEnd
  <2>2. cpos \in Positions /\ Tokens[cpos].op = "end"
    BY <1>2, <2>1
  <2>3. PICK values : open' = After(Front(open), values) /\ (NotAll(Inner) => values = {FALSE})
    <3>1. PICK t \in Inner.last : open' = After(Front(open), {Inner.all /\ t})
      BY <2>1
    <3>2. NotAll(Inner) => {Inner.all /\ t} = {FALSE}
      BY <3>1 DEF NotAll
    <3> QED BY <3>1, <3>2
  <2>4. (NotAll(open[Len(open)]) => values = {FALSE}) /\ open[Len(open)].op \in {"if", "while"}
    BY <2>1, <2>3 DEF Inner
  <2>5. Flagged(open', cpos + 1, autoReturn)
    BY <1>1, <2>2, <2>3, <2>4, FlagsEnd
  <2> QED BY <2>1, <2>5 DEF Step
<1>13. CASE CheckFunction
  <2>1. /\ Checking({"function"}) /\ Step /\ autoReturn' = autoReturn
        /\ open' = Append(open, Opened("function", cpos))
    BY <1>13 DEF CheckFunction
  <2>2. cpos \in Positions /\ Tokens[cpos].op = "function"
    BY <1>2, <2>1
  <2>3. Flagged(open', cpos + 1, autoReturn)
    BY <1>1, <2>1, <2>2, FlagsFunction
  <2> QED BY <2>1, <2>3 DEF Step
<1>14. CASE CheckFunctionEnd
  <2>1. /\ Checking({"end"}) /\ Inner.op = "function" /\ Step
        /\ open' = After(Front(open), Unset)
        /\ \/ TRUE \in Inner.last /\ autoReturn' = autoReturn
           \/ autoReturn' = autoReturn \cup {Inner.at}
           \/ verdict' = "rejected"
    BY <1>14 DEF CheckFunctionEnd
  <2>2. cpos \in Positions /\ Tokens[cpos].op = "end" /\ open[Len(open)].op = "function"
    BY <1>2, <2>1 DEF Inner
  <2>3. CASE \/ TRUE \in open[Len(open)].last /\ autoReturn' = autoReturn
             \/ autoReturn' = autoReturn \cup {open[Len(open)].at}
    <3>1. Flagged(open', cpos + 1, autoReturn')
      BY <1>1, <2>1, <2>2, <2>3, FlagsFunctionEnd
    <3> QED BY <2>1, <3>1 DEF Step
  <2> QED BY <2>1, <2>3 DEF Inner
<1>15. CASE CheckReject \/ CheckCrash \/ CheckDone
  <2>1. UNCHANGED <<open, cpos, autoReturn>>
    BY <1>15 DEF CheckReject, CheckCrash, CheckDone
  <2> QED BY <2>1
<1> QED BY <1>5, <1>6, <1>7, <1>8, <1>9, <1>10, <1>11, <1>12, <1>13, <1>14, <1>15 DEF CheckNext

-----------------------------------------------------------------------------
ReturnInv ==
    /\ VerifierInv
    /\ Structured /\ verdict \in {"checking", "checked"} => Flagged(open, cpos, autoReturn)

LEMMA SameTextFlags ==
    ASSUME unit' = unit
    PROVE  /\ Structured' <=> Structured
           /\ \A vs, p, added : Flagged(vs, p, added)' <=> Flagged(vs, p, added)
<1>1. /\ Tokens' = Tokens /\ Positions' = Positions /\ Definitions' = Definitions
      /\ \A p : Depth(p)' = Depth(p)
  BY SameText
<1>2. \A i : EndOf(i)' = EndOf(i) /\ OpenerOf(i)' = OpenerOf(i)
  BY <1>1 DEF EndOf, OpenerOf
<1>3. /\ \A i : Passed(i)' <=> Passed(i)
      /\ \A i : Stop(i)' = Stop(i)
  BY <1>1, <1>2 DEF Passed, Stop
<1>4. \A i : Onward(i)' = Onward(i)
  BY <1>1, <1>2 DEF Onward
<1>5. \A i : At(i)' = At(i)
  <2> DEFINE Now(g) == [i \in Positions |->
                         IF Passed(i) /\ Onward(i) \in (i + 1)..Len(Tokens) THEN g[Onward(i)] ELSE {Stop(i)}]
             Later(g) == [i \in Positions' |->
                          IF Passed(i)' /\ Onward(i)' \in (i + 1)..Len(Tokens') THEN g[Onward(i)']
                          ELSE {Stop(i)'}]
  <2>1. \A i : At(i) = (CHOOSE g : g = Now(g))[i]
    BY DEF At
  <2>2. \A i : At(i)' = (CHOOSE g : g = Later(g))[i]
    BY DEF At
  <2>3. ASSUME NEW g PROVE Now(g) = Later(g)
    BY <1>1, <1>3, <1>4
  <2> HIDE DEF Now, Later
  <2>4. (CHOOSE g : g = Now(g)) = (CHOOSE g : g = Later(g))
    BY <2>3, Zenon
  <2> SUFFICES ASSUME NEW i PROVE At(i)' = At(i)
    OBVIOUS
  <2>5. At(i) = (CHOOSE g : g = Now(g))[i]
    BY <2>1
  <2>6. At(i)' = (CHOOSE g : g = Later(g))[i]
    BY <2>2
  <2> QED BY <2>4, <2>5, <2>6
<1>6. /\ \A f, p : Falls(f, p)' <=> Falls(f, p)
      /\ \A f, p : Fell(f, p)' <=> Fell(f, p)
  BY <1>1, <1>2, <1>5 DEF Falls, Fell, Faller
<1>7. \A vs, f, p : Marked(vs, f, p)' <=> Marked(vs, f, p)
  <2>1. \A vs, f, p, k, c : Holding(vs, f, p, k, c)' <=> Holding(vs, f, p, k, c)
    BY <1>1, <1>6 DEF Holding
  <2>2. \A vs, f, p : Held(vs, f, p)' <=> Held(vs, f, p)
    BY <2>1 DEF Held
  <2>3. \A vs, f, p : Ended(vs, f, p)' <=> Ended(vs, f, p)
    BY <1>6 DEF Ended
  <2> QED BY <1>6, <2>2, <2>3 DEF Marked
<1>8. \A vs, p, added : Flagged(vs, p, added)' <=> Flagged(vs, p, added)
  BY <1>1, <1>2, <1>6, <1>7 DEF Flagged
<1>9. Structured' <=> Structured
  <2>1. NoNesting' <=> NoNesting
    BY SameTextGen
  <2>2. \A i : LastInBlock(i)' <=> LastInBlock(i)
    BY <1>1 DEF LastInBlock
  <2> QED BY <1>1, <1>2, <2>1, <2>2 DEF Structured
<1> QED BY <1>8, <1>9

LEMMA ReturnInit == Init => ReturnInv
<1> SUFFICES ASSUME Init PROVE ReturnInv
  OBVIOUS
<1>1. VerifierInv /\ UnitOK
  BY VerifierInit DEF VerifierInv, GenInv, CheckInv
<1>2. cpos = 1 /\ open = <<Opened("unit", 0)>>
  BY DEF Init, CheckInit
<1>3. Len(open) = 1
  BY <1>2
<1>4. 2..Len(open) = {} /\ ~(Len(open) >= 2)
  BY <1>3
<1>5. ASSUME Structured, NEW g \in Definitions PROVE ~(EndOf(g) < cpos)
  <2>1. EndOf(g) \in Nat /\ g \in Nat \ {0} /\ g < EndOf(g)
    BY <1>1, <1>5, BodyEnds DEF Structured
  <2> QED BY <1>2, <2>1
<1> QED BY <1>1, <1>4, <1>5 DEF ReturnInv, Flagged

LEMMA ReturnStep == ReturnInv /\ [Next]_vars => ReturnInv'
<1> SUFFICES ASSUME ReturnInv, [Next]_vars PROVE ReturnInv'
  OBVIOUS
<1>1. unit' = unit /\ VerifierInv /\ VerifierInv' /\ CheckInv /\ UnitOK
  BY UnitKept, VerifierStep DEF ReturnInv, VerifierInv, GenInv, CheckInv
<1>2. Structured' <=> Structured
  BY <1>1, SameTextFlags
<1>3. ASSUME Structured, verdict' \in {"checking", "checked"}
      PROVE  Flagged(open', cpos', autoReturn')
  <2>1. CASE Check
    <3>1. CheckNext /\ verdict = "checking"
      BY <2>1 DEF Check, CheckNext, CheckDeclare, CheckEvaluate, CheckOther, CheckReturn, CheckOpen,
         CheckClause, CheckEnd, CheckFunction, CheckForward, CheckFunctionEnd, CheckReject,
         CheckCrash, CheckDone, Checking
    <3>2. Flagged(open, cpos, autoReturn) /\ Walked(open, scopes, cpos)
      BY <1>1, <1>3, <3>1 DEF ReturnInv, CheckInv
    <3> QED BY <1>1, <1>3, <3>1, <3>2, FlagsNext
  <2>2. CASE Generate \/ UNCHANGED vars
    <3>1. UNCHANGED <<open, cpos, verdict, autoReturn>>
      BY <2>2 DEF Generate, vars, checkVars, GenNext, GenDeclare, GenEvaluate, GenOther, GenReturn,
         GenIf, GenElseIf, GenElse, GenIfEnd, GenWhile, GenWhileEnd, GenFunction, GenForward,
         GenFunctionEnd, GenReject, GenCrash, GenDone
    <3> QED BY <1>3, <3>1 DEF ReturnInv
  <2> QED BY <2>1, <2>2 DEF Next
<1>4. Structured' /\ verdict' \in {"checking", "checked"} => Flagged(open, cpos, autoReturn)'
  BY <1>1, <1>2, <1>3, SameTextFlags
<1> QED BY <1>1, <1>4 DEF ReturnInv

(* On bodies in which no block is empty or ends in a declaration, a loop   *)
(* or an if without an else, a function the checker has accepted falls off *)
(* its end only if it is void and was given a return there.                *)
THEOREM Returning == Spec => []StructuredBodiesReturn
<1>1. ASSUME ReturnInv PROVE StructuredBodiesReturn
  <2> SUFFICES ASSUME Structured, verdict = "checked", NEW f \in Definitions, FallsOff(f)
               PROVE  Tokens[f].sig.void /\ f \in autoReturn
    BY DEF StructuredBodiesReturn, BodiesReturn
  <2>1. /\ UnitOK /\ NoNesting /\ Flagged(open, cpos, autoReturn) /\ Judged(current, cpos, autoReturn)
        /\ cpos > Len(Tokens) /\ cpos \in 1..(Len(Tokens) + 1)
    BY <1>1 DEF ReturnInv, VerifierInv, GenInv, CheckInv, Walked, Structured
  <2>2. Fell(f, EndOf(f))
    BY <2>1, OnlyAfterEvaluation DEF Fell
  <2>3. EndOf(f) < cpos
    <3>1. EndOf(f) \in 1..Len(Tokens) /\ Len(Tokens) \in Nat
      BY <2>1, BodyEnds, TokenFacts
    <3> QED BY <2>1, <3>1
  <2>4. f \in autoReturn
    BY <2>1, <2>2, <2>3 DEF Flagged
  <2> QED BY <2>1, <2>4 DEF Judged
<1> QED BY <1>1, ReturnInit, ReturnStep, PTL DEF Spec

=============================================================================
