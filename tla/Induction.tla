----------------------------- MODULE Induction ------------------------------
(***************************************************************************)
(* Induction and recursion without operator parameters: the set of the     *)
(* numbers for which something holds takes the place of a predicate, and a *)
(* function on values that of the step of a recursion.                     *)
(***************************************************************************)
EXTENDS Integers, FiniteSets, Functions, FiniteSetTheorems, WellFoundedInduction, TLAPS

Before == {p \in Nat \X Nat : p[1] < p[2]}

LEMMA BeforeIsWellFounded == IsWellFoundedOn(Before, Nat)
BY NatLessThanWellFounded DEF OpToRel, Before

(* A set of numbers that has 0 and with each number the next one has all.  *)
LEMMA FromZeroOn ==
    ASSUME NEW S, 0 \in S, \A n \in Nat : n \in S => n + 1 \in S
    PROVE  Nat \subseteq S
<1> SUFFICES ASSUME Nat \ S # {} PROVE FALSE
  OBVIOUS
<1>1. PICK x \in Nat \ S : \A y \in Nat \ S : <<y, x>> \notin Before
  BY BeforeIsWellFounded, WFMin
<1>2. x # 0 /\ x - 1 \in Nat
  BY <1>1
<1>3. <<x - 1, x>> \in Before
  BY <1>2 DEF Before
<1>4. x - 1 \in S
  BY <1>1, <1>2, <1>3
<1> QED BY <1>1, <1>2, <1>4

(* The same up to a bound.                                                 *)
LEMMA UpTo ==
    ASSUME NEW N \in Nat, NEW S, 0 \in S, \A n \in 0..(N - 1) : n \in S => n + 1 \in S
    PROVE  0..N \subseteq S
<1> DEFINE T == {n \in Nat : n <= N => n \in S}
<1>1. 0 \in T
  OBVIOUS
<1>2. ASSUME NEW n \in Nat, n \in T PROVE n + 1 \in T
  BY <1>2
<1> HIDE DEF T
<1>3. Nat \subseteq T
  BY <1>1, <1>2, FromZeroOn
<1> QED BY <1>3 DEF T

-----------------------------------------------------------------------------
(* Least and greatest members.                                             *)
LEMMA HasLeast ==
    ASSUME NEW S \in SUBSET Nat, S # {}
    PROVE  \E x \in S : \A y \in S : x <= y
<1>1. PICK x \in S : \A y \in S : <<y, x>> \notin Before
  BY BeforeIsWellFounded, WFMin
<1>2. ASSUME NEW y \in S PROVE x <= y
  <2>1. ~(y < x)
    BY <1>1 DEF Before
  <2>2. x \in Nat /\ y \in Nat
    OBVIOUS
  <2> QED BY <2>1, <2>2
<1> QED BY <1>2

LEMMA HasGreatest ==
    ASSUME NEW N \in Nat, NEW S \in SUBSET (0..N), S # {}
    PROVE  \E x \in S : \A y \in S : y <= x
<1> DEFINE T == {N - y : y \in S}
<1>1. T \in SUBSET Nat /\ T # {}
  <2>1. \A y \in S : N - y \in Nat
    OBVIOUS
  <2> QED BY <2>1
<1>2. PICK t \in T : \A u \in T : t <= u
  <2> HIDE DEF T
  <2> QED BY <1>1, HasLeast
<1>3. PICK x \in S : t = N - x
  OBVIOUS
<1>4. ASSUME NEW y \in S PROVE y <= x
  <2>1. N - x <= N - y
    BY <1>2, <1>3
  <2> QED BY <2>1
<1> QED BY <1>4

(* A function that each number but the last may refer on to a later one.   *)
Refers(N, next, stop, f) ==
    f = [i \in 1..N |-> IF next[i] \in (i + 1)..N THEN f[next[i]] ELSE stop[i]]

LEMMA ReferringExists ==
    ASSUME NEW N \in Nat, NEW next, NEW stop
    PROVE  \E f : Refers(N, next, stop, f)
<1> DEFINE From(m) == (N - m + 1)..N
           Ok(m, f) == f = [i \in From(m) |-> IF next[i] \in (i + 1)..N THEN f[next[i]] ELSE stop[i]]
           S == {m \in Nat : \E f : Ok(m, f)}
<1>1. 0 \in S
  <2> DEFINE e == [i \in From(0) |-> 0]
  <2>1. From(0) = {}
    OBVIOUS
  <2>2. Ok(0, e)
    BY <2>1
  <2> QED BY <2>2
<1>2. ASSUME NEW m \in 0..(N - 1), m \in S PROVE m + 1 \in S
  <2>1. PICK f : Ok(m, f)
    BY <1>2
  <2> DEFINE k == N - m
             v == IF next[k] \in (k + 1)..N THEN f[next[k]] ELSE stop[k]
             g == [i \in From(m + 1) |-> IF i = k THEN v ELSE f[i]]
  <2>2. /\ DOMAIN f = From(m)
        /\ \A i \in From(m) : f[i] = IF next[i] \in (i + 1)..N THEN f[next[i]] ELSE stop[i]
    <3>1. f = [i \in From(m) |-> IF next[i] \in (i + 1)..N THEN f[next[i]] ELSE stop[i]]
      BY <2>1
    <3> HIDE DEF From
    <3> QED BY <3>1
  <2>3. /\ k \in From(m + 1) /\ k \in Nat /\ k \notin From(m)
        /\ \A i \in From(m + 1) : i \in Int /\ (i # k => i \in From(m))
        /\ \A i \in From(m + 1) : \A j \in (i + 1)..N : j \in From(m) /\ j \in From(m + 1) /\ j # k
    OBVIOUS
  <2> HIDE DEF From, k
  <2>4. \A i \in From(m + 1) : g[i] = IF i = k THEN v ELSE f[i]
    OBVIOUS
  <2>5. ASSUME NEW i \in From(m + 1)
        PROVE  g[i] = IF next[i] \in (i + 1)..N THEN g[next[i]] ELSE stop[i]
    <3>1. next[i] \in (i + 1)..N => g[next[i]] = f[next[i]]
      BY <2>3, <2>4
    <3> HIDE DEF g
    <3>2. CASE i = k
      BY <2>4, <3>1, <3>2
    <3>3. CASE i # k
      BY <2>2, <2>3, <2>4, <3>1, <3>3
    <3> QED BY <3>2, <3>3
  <2>6. g = [i \in From(m + 1) |-> g[i]]
    OBVIOUS
  <2> HIDE DEF g
  <2>7. Ok(m + 1, g)
    BY <2>5, <2>6
  <2> QED BY <2>7
<1> HIDE DEF S
<1>3. N \in S
  BY <1>1, <1>2, UpTo
<1>4. From(N) = 1..N
  OBVIOUS
<1> QED BY <1>3, <1>4 DEF S, Refers

(* A function each value of which is made of the one before.               *)
Iterates(N, first, step, f) ==
    f = [n \in 0..N |-> IF n = 0 THEN first ELSE step[f[n - 1]]]

LEMMA IteratesExist ==
    ASSUME NEW N \in Nat, NEW first, NEW step
    PROVE  \E f : Iterates(N, first, step, f)
<1> DEFINE S == {m \in Nat : \E f : Iterates(m, first, step, f)}
<1>1. 0 \in S
  <2> DEFINE f == [n \in 0..0 |-> first]
  <2>1. f = [n \in 0..0 |-> IF n = 0 THEN first ELSE step[f[n - 1]]]
    <3>1. \A n \in 0..0 : n = 0
      OBVIOUS
    <3>2. \A n \in 0..0 : first = IF n = 0 THEN first ELSE step[f[n - 1]]
      BY <3>1
    <3> QED BY <3>2
  <2> HIDE DEF f
  <2> QED BY <2>1 DEF Iterates
<1>2. ASSUME NEW m \in 0..(N - 1), m \in S PROVE m + 1 \in S
  <2>1. PICK f : Iterates(m, first, step, f)
    BY <1>2
  <2> DEFINE g == [n \in 0..(m + 1) |-> IF n = m + 1 THEN step[f[m]] ELSE f[n]]
  <2>2. /\ m \in Nat /\ m + 1 \in Nat /\ m + 1 # 0 /\ (m + 1) - 1 = m /\ m \in 0..(m + 1) /\ m # m + 1
        /\ \A n \in 0..(m + 1) : n # m + 1 => n \in 0..m
        /\ \A n \in 0..m : n # 0 => n - 1 \in 0..(m + 1) /\ n - 1 # m + 1
    OBVIOUS
  <2>3. \A n \in 0..m : f[n] = IF n = 0 THEN first ELSE step[f[n - 1]]
    <3>1. f = [n \in 0..m |-> IF n = 0 THEN first ELSE step[f[n - 1]]]
      BY <2>1 DEF Iterates
    <3> QED BY <3>1
  <2>4. \A n \in 0..(m + 1) : g[n] = IF n = m + 1 THEN step[f[m]] ELSE f[n]
    OBVIOUS
  <2>5. ASSUME NEW n \in 0..(m + 1) PROVE g[n] = IF n = 0 THEN first ELSE step[g[n - 1]]
    <3> HIDE DEF g
    <3>1. CASE n = m + 1
      BY <2>2, <2>4, <3>1
    <3>2. CASE n # m + 1
      <4>1. n \in 0..m /\ g[n] = f[n]
        BY <2>2, <2>4, <3>2
      <4>2. n # 0 => g[n - 1] = f[n - 1]
        BY <2>2, <2>4, <4>1
      <4> QED BY <2>3, <4>1, <4>2
    <3> QED BY <3>1, <3>2
  <2>6. g = [n \in 0..(m + 1) |-> g[n]]
    OBVIOUS
  <2> HIDE DEF g
  <2>7. Iterates(m + 1, first, step, g)
    BY <2>5, <2>6 DEF Iterates
  <2> QED BY <2>2, <2>7
<1> HIDE DEF S
<1>3. N \in S
  BY <1>1, <1>2, UpTo
<1> QED BY <1>3 DEF S

=============================================================================
