------------------------------ MODULE Overload ------------------------------
(***************************************************************************)
(* Function declarations of one name and the resolution of one call of it: *)
(* Function::get with the function pool, Functions::addFunction, and       *)
(* Functions::resolve with Function::matches (analysis/type/functions.cpp, *)
(* TypeInfo::resolveFunction in typeinfo.cpp).                             *)
(*                                                                         *)
(* resolve walks a std::set of pointers, so the order in which it meets    *)
(* the candidates is the order of their addresses: any order.              *)
(***************************************************************************)
EXTENDS Matching, SequencesExt, Functions

CONSTANT Calls   \* pairs of a sequence of declarations and the argument types of a call

ASSUME CallsAssumption == Calls \subseteq [decls : Seq(Declaration), args : Seq(Types)]

VARIABLES
    call,       \* the declarations and the call; never changes
    declared,   \* number of declarations processed
    pool,       \* functionPool: mangled name -> function object
    pending,    \* candidates resolve has not met yet
    bestScore,
    matches,    \* the candidates met that have bestScore
    outcome     \* "declaring", "resolving", "resolved", "undeclared", "ambiguous"

vars == <<call, declared, pool, pending, bestScore, matches, outcome>>

-----------------------------------------------------------------------------
(* mangleFunction, less the name, which all declarations here share; the   *)
(* key of a function with C linkage is the name alone.                     *)
Key(d) == IF d.cMod THEN <<"C">>
          ELSE <<"__">> \o FlattenSeq([i \in DOMAIN d.formals |-> Mangle[d.formals[i]]])

(* Functions::data for the name: the pool entries of the declarations.     *)
Candidates == Range(pool)

-----------------------------------------------------------------------------
Init == /\ call \in Calls
        /\ declared = 0
        /\ pool = <<>>
        /\ pending = {}
        /\ bestScore = 0
        /\ matches = {}
        /\ outcome = "declaring"

(* Function::get and addFunction: a second declaration of a key finds the  *)
(* object of the first and changes none of what resolution looks at.       *)
Declare ==
    /\ outcome = "declaring"
    /\ declared < Len(call.decls)
    /\ LET d == call.decls[declared + 1]
       IN  pool' = [k \in DOMAIN pool \cup {Key(d)} |->
                      IF k \in DOMAIN pool THEN pool[k] ELSE d]
    /\ declared' = declared + 1
    /\ UNCHANGED <<call, pending, bestScore, matches, outcome>>

StartResolve ==
    /\ outcome = "declaring"
    /\ declared = Len(call.decls)
    /\ pending' = Candidates
    /\ outcome' = "resolving"
    /\ UNCHANGED <<call, declared, pool, bestScore, matches>>

(* Mutant of Consider: a better candidate does not clear the list.         *)
ConsiderKeeping(f) ==
    /\ outcome = "resolving"
    /\ f \in pending
    /\ pending' = pending \ {f}
    /\ LET s == Matches(f, call.args)
       IN  \/ /\ s >= bestScore /\ s > 0
              /\ bestScore' = s
              /\ matches' = matches \cup {f}
           \/ /\ s < bestScore \/ s = 0
              /\ UNCHANGED <<bestScore, matches>>
    /\ UNCHANGED <<call, declared, pool, outcome>>

(* One round of the loop in Functions::resolve.                            *)
Consider(f) ==
    /\ outcome = "resolving"
    /\ f \in pending
    /\ pending' = pending \ {f}
    /\ LET s == Matches(f, call.args)
       IN  \/ /\ s > bestScore
              /\ bestScore' = s
              /\ matches' = {f}
           \/ /\ s = bestScore /\ bestScore > 0
              /\ matches' = matches \cup {f}
              /\ UNCHANGED bestScore
           \/ /\ s < bestScore \/ (s = bestScore /\ bestScore = 0)
              /\ UNCHANGED <<bestScore, matches>>
    /\ UNCHANGED <<call, declared, pool, outcome>>

(* TypeInfo::resolveFunction on the result.                                *)
Decide ==
    /\ outcome = "resolving"
    /\ pending = {}
    /\ outcome' = IF matches = {} THEN "undeclared"
                  ELSE IF Cardinality(matches) > 1 THEN "ambiguous"
                  ELSE "resolved"
    /\ UNCHANGED <<call, declared, pool, pending, bestScore, matches>>

Next == Declare \/ StartResolve \/ (\E f \in pending : Consider(f)) \/ Decide

Spec == Init /\ [][Next]_vars

-----------------------------------------------------------------------------
Decided == outcome \in {"resolved", "undeclared", "ambiguous"}

(* Whatever the order of the addresses in the candidate set, resolution    *)
(* ends with the best candidates, and with the verdict they call for.      *)
OrderDoesNotMatter ==
    Decided => /\ matches = Best(Candidates, call.args)
               /\ outcome = "undeclared" <=> matches = {}
               /\ outcome = "resolved" <=> \E f \in matches : matches = {f}

(* The function a call resolves to is never strictly more general than     *)
(* another one that fits the call: no other candidate has, at each of its  *)
(* positions, a formal of the same or of a narrower type.                  *)
MoreSpecific(f, g) ==
    /\ Len(f.formals) >= Len(g.formals)
    /\ \A i \in DOMAIN g.formals : \/ f.formals[i] = g.formals[i]
                                   \/ IsAssignableTo(f.formals[i], g.formals[i])

PickIsMostSpecific ==
    outcome = "resolved" =>
        \A f \in Candidates, g \in matches :
            f # g /\ Fits(f, call.args) => ~MoreSpecific(f, g)

(* A call is undeclared only if no candidate fits it, except that a        *)
(* function with "..." and no named parameter is never found for a call    *)
(* with arguments, since those count nothing.                              *)
UndeclaredMeansNothingFits ==
    outcome = "undeclared" =>
        \A f \in Candidates :
            Fits(f, call.args) => f.formals = <<>> /\ call.args # <<>>

(* As long as no class name is a proper prefix of another, declarations    *)
(* that share a function object have the same formals: mangling loses      *)
(* nothing that resolution needs, "..." excepted.                          *)
PrefixFree == \A m, n \in ClassNames : IsPrefix(m, n) => m = n

SharedOnlyByEqualFormals ==
    PrefixFree => \A i \in 1..declared :
        LET d == call.decls[i]
        IN  ~d.cMod => pool[Key(d)].formals = d.formals

=============================================================================
