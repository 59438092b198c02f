------------------------------ MODULE Compile -------------------------------
(***************************************************************************)
(* The two passes of the compiler over the functions of a file, one after  *)
(* the other (main.cpp): what the code generator makes of what the type    *)
(* checker accepts.                                                        *)
(***************************************************************************)
EXTENDS TypeCheck, CodeGen

vars == <<unit, autoReturn, checkVars, genVars>>

Init == unit \in Units /\ CheckInit /\ GenInit

Check == CheckNext /\ UNCHANGED genVars
Generate == verdict = "checked" /\ GenNext /\ UNCHANGED checkVars

Next == Check \/ Generate

(* One thread runs the passes and nothing blocks it.                       *)
Spec == Init /\ [][Next]_vars /\ WF_vars(Next)

-----------------------------------------------------------------------------
(* Functions are at the top level and the pool knows each definition's     *)
(* parameters by the names its body uses, and agrees on its result.        *)
Plain == /\ NoNesting
         /\ \A f \in Definitions :
              /\ pool[Tokens[f].sig.key].params = Tokens[f].sig.params
              /\ pool[Tokens[f].sig.key].void = Tokens[f].sig.void

(* A checked file fails or dies in the code generator only if a function   *)
(* is nested in another or an earlier declaration renamed its parameters.  *)
CheckedFilesAreEmitted == result \in {"rejected", "crashed"} => ~Plain

(* Lexical scoping, read off the file: the variables called n whose block  *)
(* is still open at token p; the checker binds a name to the last of them. *)
Open(q, level, p) == ~\E r \in (q + 1)..p : /\ Depth(r) = level
                                            /\ Tokens[r].op \in Clauses \cup {"end"}

InScope(n, p) ==
    {<<q, 0>> : q \in {i \in 1..(p - 1) : /\ Tokens[i].op = "declare" /\ Tokens[i].name = n
                                          /\ Open(i, Depth(i), p)}}
      \cup UNION {{<<f, j>> : j \in {k \in DOMAIN Tokens[f].sig.params :
                                      Tokens[f].sig.params[k] = n}} :
                    f \in {g \in Definitions \cap 1..(p - 1) : Open(g, Depth(g) + 1, p)}}

BindsLexically ==
    \A b \in bound : /\ b[3] \in InScope(b[2], b[1])
                     /\ \A v \in InScope(b[2], b[1]) : v[1] <= b[3][1]

(* Two passes with symbol tables of their own agree on every variable: the *)
(* checker's has scopes, the generator's has none, and they differ exactly *)
(* where a name is used after an inner block that declared it again.       *)
Redeclared(p, n, var) ==
    \E q \in Positions : /\ var[1] < q /\ q < p
                         /\ Tokens[q].op = "declare" /\ Tokens[q].name = n

LoadsAgreeUnlessRedeclared ==
    Plain => \A ld \in loads :
        LET var == (CHOOSE b \in bound : b[1] = ld.at /\ b[2] = ld.name)[3]
        IN  /\ ld.slot.fn = ld.by
            /\ ld.slot.var = var <=> ~Redeclared(ld.at, ld.name, var)

(* The verifier of LLVM: every block of the function ends in its only      *)
(* terminator, ...                                                         *)
Terminated(k) == \A b \in DOMAIN blocks : blocks[b].fn = k => blocks[b].state = "closed"

(* ... and the alloca of a local variable dominates the loads from it: a   *)
(* set of blocks that holds the entry and is left only to d leaves b out.  *)
(* Within a block, and in one that is not reached, a load is dominated.    *)
(* The allocas of parameters are in the entry.                             *)
BlocksOf(k) == {b \in DOMAIN blocks : blocks[b].fn = k}

Dominates(d, b) ==
    \E s \in SUBSET (BlocksOf(blocks[b].fn) \ {b}) :
        /\ Min(BlocksOf(blocks[b].fn)) \in s \cup {d}
        /\ \A c \in s : Range(blocks[c].next) \subseteq s \cup {d}

Executing(k, i) == {b \in BlocksOf(k) : i \in Range(blocks[b].code)}

Dominated(k) ==
    \A ld \in loads : ld.by = k /\ ld.slot.var[2] = 0 =>
        \A b \in Executing(k, ld.at) :
            \E d \in Executing(k, ld.slot.var[1]) : Dominates(d, b)

Verifies(k) == Terminated(k) /\ Dominated(k)

EarlyReturn(f) ==
    \E i \in f..EndOf(f) : /\ Tokens[i].op \in Returns
                           /\ \E j \in (i + 1)..(EndOf(f) - 1) : Tokens[j].op # "other"

EndsInReturn(f) ==
    \E i \in f..EndOf(f) : /\ Tokens[i].op \in Returns
                           /\ \A j \in (i + 1)..(EndOf(f) - 1) : Tokens[j].op = "other"

Misread(f) ==
    \E b \in bound : b[1] \in f..EndOf(f) /\ Redeclared(b[1], b[2], b[3])

(* In plain files the emitted functions the verifier refuses for where the *)
(* terminators stand are those with a return that anything but nested      *)
(* definitions follows, and those that got no return or two at the end.    *)
TerminatedFunctions ==
    result = "emitted" /\ Plain =>
        \A f \in Definitions :
            Terminated(Tokens[f].sig.key) <=>
                ~EarlyReturn(f) /\ ~(EndsInReturn(f) <=> f \in autoReturn)

(* Of the others it refuses those that use a variable after an inner block *)
(* that declared its name again, and no more.                              *)
DominatedFunctions ==
    result = "emitted" /\ Plain =>
        \A f \in Definitions :
            Terminated(Tokens[f].sig.key) => (Dominated(Tokens[f].sig.key) <=> ~Misread(f))

(* The control flow between the blocks emitted is that of the statements.  *)
Starts(b) ==
    LET starts[n \in 0..Len(blocks), c \in DOMAIN blocks] ==
          IF blocks[c].code # <<>> THEN {blocks[c].code[1]}
          ELSE IF n = 0 THEN {}
          ELSE UNION {starts[n - 1, blocks[c].next[j]] : j \in DOMAIN blocks[c].next}
    IN  starts[Len(blocks), b]

Following(b, j) ==
    IF j < Len(blocks[b].code) THEN {blocks[b].code[j + 1]}
    ELSE UNION {Starts(blocks[b].next[i]) : i \in DOMAIN blocks[b].next}

CodeFollowsSource ==
    result = "emitted" /\ Plain =>
        \A b \in DOMAIN blocks : Terminated(blocks[b].fn) =>
            \A j \in DOMAIN blocks[b].code :
                Following(b, j) = Successors(blocks[b].code[j])

(* A file that declares a function again, before or after its definition,  *)
(* gets its body once per declaration: count the emissions of the first    *)
(* statement executed.                                                     *)
Emissions(i) == Cardinality({b \in DOMAIN blocks : i \in Range(blocks[b].code)})

BodiesEmitted ==
    result = "emitted" /\ NoNesting =>
        \A f \in Definitions : \A i \in At(f + 1) \ {EndOf(f)} :
            Emissions(i) = Cardinality({j \in TopLevelFunctions :
                                          Tokens[j].sig.key = Tokens[f].sig.key})

(* Compilation ends.                                                       *)
PassesEnd == <>(verdict \in {"rejected", "crashed"} \/ result # "emitting")

-----------------------------------------------------------------------------
(* Bodies on which the "terminates" flags mean what they say: the last     *)
(* statement of a block is not a declaration or a loop, no block is empty, *)
(* and an if at the end of a block has an else.                            *)
LastInBlock(i) == Tokens[i + 1].op \in Clauses \cup {"end"}

Structured ==
    /\ NoNesting
    /\ \A i \in Positions :
         /\ Tokens[i].op \in {"declare", "other"} => ~LastInBlock(i)
         /\ Tokens[i].op \in Openers \cup Clauses => ~LastInBlock(i)
         /\ Tokens[i].op = "end" /\ i + 1 \in Positions /\ Depth(i + 1) > 0 =>
               LET o == OpenerOf(i)
               IN  CASE Tokens[o].op = "while" -> ~LastInBlock(i)
                     [] Tokens[o].op = "if" ->
                          \/ ~LastInBlock(i)
                          \/ \E j \in o..i : Tokens[j].op = "else" /\ Depth(j) = Depth(i)
                     [] OTHER -> TRUE

(* "require value return" and "auto return void": a function that passes   *)
(* the type checker returns on every path, or is void and has a return at  *)
(* the end of its body.                                                    *)
BodiesReturn ==
    verdict = "checked" =>
        \A f \in Definitions : FallsOff(f) => Tokens[f].sig.void /\ f \in autoReturn

(* On structured bodies the flags are safe: a function that is not void is *)
(* accepted only if it always returns, and a void one that may reach the   *)
(* end of its body gets a return.                                          *)
StructuredBodiesReturn == Structured => BodiesReturn

(* The check at the end of defineFunction: the functions of a plain file   *)
(* verify.                                                                 *)
FunctionsVerify ==
    result = "emitted" /\ Plain => \A f \in Definitions : Verifies(Tokens[f].sig.key)
=============================================================================
