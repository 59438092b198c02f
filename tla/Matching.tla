------------------------------ MODULE Matching ------------------------------
(***************************************************************************)
(* How well a function fits the arguments of a call: Function::matches     *)
(* (analysis/type/functions.cpp), used for function calls in Overload and  *)
(* for operators in Operators.                                             *)
(***************************************************************************)
EXTENDS Types, FiniteSets

Declaration == [formals : Seq(Types), varArgs : BOOLEAN, cMod : BOOLEAN]

(* Function::matches: 0 if the call does not fit, else two points for an   *)
(* exact argument and one for an assignable one; arguments taken by "..."  *)
(* count nothing.                                                          *)
Fits(f, args) ==
    /\ Len(args) >= Len(f.formals)
    /\ Len(args) > Len(f.formals) => f.varArgs
    /\ \A i \in DOMAIN f.formals : \/ args[i] = f.formals[i]
                                  \/ IsAssignableTo(args[i], f.formals[i])

Exact(f, args) == {i \in DOMAIN f.formals : args[i] = f.formals[i]}

(* Mutants of Matches: an exact argument counts no more than an            *)
(* assignable one, counts less, or is the only kind that counts.           *)
MatchesFlat(f, args) ==
    IF ~Fits(f, args) THEN 0 ELSE IF args = <<>> THEN 2 ELSE Len(f.formals)

MatchesSwapped(f, args) ==
    IF ~Fits(f, args) THEN 0
    ELSE IF args = <<>> THEN 2
    ELSE 2 * Len(f.formals) - Cardinality(Exact(f, args))

MatchesExactOnly(f, args) ==
    IF ~Fits(f, args) \/ Exact(f, args) # DOMAIN f.formals THEN 0
    ELSE IF args = <<>> THEN 2
    ELSE 2 * Len(f.formals)

Matches(f, args) ==
    IF ~Fits(f, args) THEN 0
    ELSE IF args = <<>> THEN 2
    ELSE Len(f.formals) + Cardinality(Exact(f, args))

(* The candidates with the highest score, if that is not 0.                *)
Best(candidates, args) ==
    {f \in candidates : /\ Matches(f, args) > 0
                        /\ \A g \in candidates : Matches(g, args) <= Matches(f, args)}
=============================================================================
