---------------------------- MODULE ImportOrder ----------------------------
(***************************************************************************)
(* What juli's import mechanism promises, without the recursion, cache     *)
(* and exceptions that implement it: a module is published once, after     *)
(* every module it imports, and what it publishes is its own declarations  *)
(* together with everything its imports publish.  A class name may reach a *)
(* module along one import only.                                           *)
(***************************************************************************)
EXTENDS SourceTree

VARIABLES
    exports,  \* what each module publishes, None before it is published
    outcome   \* "running", "accepted" or "failed"

vars == <<program, exports, outcome>>

-----------------------------------------------------------------------------
(* The table module m ends up with, given what its imports publish.        *)
Linked(m) ==
    [types |-> OwnTypes(m) \cup UNION {exports[i].types : i \in Imports(m)},
     functions |-> OwnKeys(m) \cup UNION {exports[i].functions : i \in Imports(m)}]

(* No name comes in twice: not from two import statements, not from an     *)
(* import and the module itself, not from two definitions of the module.   *)
NoNameTwice(m) ==
    LET imp == program[m].imports
        cls == program[m].classes
    IN  /\ \A i, j \in DOMAIN imp :
             i # j => Names(exports[imp[i]].types) \cap Names(exports[imp[j]].types) = {}
        /\ \A i, j \in DOMAIN cls : i # j => cls[i].name # cls[j].name
        /\ \A i \in DOMAIN imp, j \in DOMAIN cls :
             cls[j].name \notin Names(exports[imp[i]].types)

Ready(m) == /\ \A i \in Imports(m) : exports[i] # None
            /\ NoNameTwice(m)

-----------------------------------------------------------------------------
Init == /\ program \in Programs
        /\ exports = [m \in Modules |-> None]
        /\ outcome = "running"

Publish(m) == /\ outcome = "running"
              /\ exports[m] = None
              /\ Ready(m)
              /\ exports' = [exports EXCEPT ![m] = Linked(m)]
              /\ UNCHANGED <<program, outcome>>

Accept == /\ outcome = "running"
          /\ Ready(Main)
          /\ outcome' = "accepted"
          /\ UNCHANGED <<program, exports>>

Fail == /\ outcome = "running"
        /\ outcome' = "failed"
        /\ UNCHANGED <<program, exports>>

Next == (\E m \in Modules : Publish(m)) \/ Accept \/ Fail

Spec == Init /\ [][Next]_vars

-----------------------------------------------------------------------------
(* A published module exports exactly the classes and functions declared   *)
(* by the modules it reaches, neither fewer nor others.                    *)
ExportsAreReachableDeclarations ==
    \A m \in Modules : exports[m] # None =>
        /\ exports[m].types = UNION {OwnTypes(n) : n \in Reach(m)}
        /\ exports[m].functions = UNION {OwnKeys(n) : n \in Reach(m)}

(* Publication in dependency order is possible for no module of an import  *)
(* cycle, so a program that is accepted reaches none.                      *)
AcceptedMeansAcyclic == outcome = "accepted" => ~Cyclic(Main)
=============================================================================
