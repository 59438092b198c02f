----------------------------- MODULE Statements -----------------------------
(***************************************************************************)
(* The functions of a compiled file as the type checker and the code       *)
(* generator walk them: the statements of the AST in the order of the      *)
(* walk, one token for a simple statement and an opening and a closing     *)
(* token around the blocks of a compound one.  Expressions are reduced to  *)
(* the variables they mention, types to void and not void.                 *)
(***************************************************************************)
EXTENDS Integers, Sequences, SequencesExt, FiniteSets

CONSTANTS
    Names,    \* variable names
    Keys,     \* mangled function names
    Units,    \* the compiled files considered
    None      \* no entry

Signature == [key : Keys, params : Seq(Names), void : BOOLEAN]

Openers == {"function", "if", "while"}
Clauses == {"elseif", "else"}
Returns == {"return", "returnValue"}
Ops == Openers \cup Clauses \cup Returns
         \cup {"declare", "evaluate", "forward", "other", "end"}

(* "uses" are the variables of the statement's expression or condition,    *)
(* "sig" the signature of a function; "forward" is a function without a    *)
(* body, "other" a nested struct definition or import.                     *)
Token == [op : Ops, name : Names \cup {None}, uses : SUBSET Names,
          sig : Signature \cup {None}]

(* What a kind of token must have and what it cannot have.                 *)
Proper(t) ==
    /\ t.op = "declare" => t.name \in Names
    /\ t.op \in {"function", "forward"} => t.sig \in Signature
    /\ t.op \in {"function", "forward", "other", "else", "end"} => t.uses = {}

(* Constructs open before token i.                                         *)
DepthIn(ts, i) == Cardinality({j \in 1..(i - 1) : ts[j].op \in Openers})
                    - Cardinality({j \in 1..(i - 1) : ts[j].op = "end"})

(* The grammar closes every construct, and gives the clauses to an if      *)
(* statement, the else last.  A statement outside every function is not    *)
(* part of a unit.  The declaration pass has refused a second body for one *)
(* mangled name.                                                           *)
Closed(ts) ==
    /\ DepthIn(ts, Len(ts) + 1) = 0
    /\ \A i \in DOMAIN ts :
         DepthIn(ts, i) = 0 => ts[i].op \in {"function", "forward", "other"}

ClausesOfIfs(ts) ==
    \A i \in DOMAIN ts : ts[i].op \in Clauses =>
        \E o \in 1..(i - 1) :
            /\ ts[o].op = "if" /\ DepthIn(ts, o) = DepthIn(ts, i) - 1
            /\ \A j \in (o + 1)..(i - 1) :
                 /\ DepthIn(ts, j) >= DepthIn(ts, i)
                 /\ DepthIn(ts, j) = DepthIn(ts, i) => ts[j].op \notin {"else", "end"}

DefinedOnce(ts) ==
    \A i, j \in {k \in DOMAIN ts : ts[k].op = "function" /\ DepthIn(ts, k) = 0} :
        ts[i].sig.key = ts[j].sig.key => i = j

(* "imported" are the declarations the imported files made before.         *)
Unit == {u \in [imported : Seq(Signature), tokens : Seq(Token)] :
           /\ \A i \in DOMAIN u.tokens : Proper(u.tokens[i])
           /\ Closed(u.tokens) /\ ClausesOfIfs(u.tokens) /\ DefinedOnce(u.tokens)}

(* A variable is the token that declares it: 0 for a local variable, j for *)
(* the j-th parameter of a function.                                       *)
Variable == Nat \X Nat

ASSUME UnitsAssumption == Units \subseteq Unit
ASSUME NoNameAssumption == None \notin Names \cup Signature \cup Variable

VARIABLES
    unit,        \* the compiled file; never changes
    autoReturn   \* functions to whose body the type checker added a return

Tokens == unit.tokens
Positions == DOMAIN Tokens

(* Constructs open before token i, and the tokens that belong together.    *)
Depth(i) == DepthIn(Tokens, i)

EndOf(i) == Min({j \in Positions : j > i /\ Tokens[j].op = "end" /\ Depth(j) = Depth(i) + 1})
OpenerOf(j) == Max({i \in 1..j : Tokens[i].op \in Openers /\ Depth(i) = Depth(j) - 1})

TopLevelFunctions == {i \in Positions : Tokens[i].op \in {"function", "forward"} /\ Depth(i) = 0}

Definitions == {i \in Positions : Tokens[i].op = "function"}

(* A unit in which every function is at the top level.                     *)
NoNesting == \A i \in Positions : Tokens[i].op \in {"function", "forward"} => Depth(i) = 0

-----------------------------------------------------------------------------
(* What running the statements means: the tokens that may be executed next *)
(* when control is at token i (At) and after it was executed (Successors). *)
(* The end of a function stands for falling off its body.                  *)
NextClause(i) ==
    LET level == IF Tokens[i].op = "if" THEN Depth(i) + 1 ELSE Depth(i)
    IN  Min({j \in Positions : /\ j > i /\ Depth(j) = level
                                 /\ Tokens[j].op \in Clauses \cup {"end"}})

(* A clause ends the block before it, a nested definition and the end of   *)
(* an if statement are passed; the end of a while statement goes back.     *)
Passed(i) == \/ Tokens[i].op \in Clauses \cup {"function", "forward", "other"}
             \/ Tokens[i].op = "end" /\ Tokens[OpenerOf(i)].op = "if"

Onward(i) == CASE Tokens[i].op \in Clauses -> Min({j \in Positions : /\ j > i /\ Tokens[j].op = "end"
                                                                    /\ Depth(j) = Depth(i)})
               [] Tokens[i].op = "function" -> EndOf(i) + 1
               [] OTHER -> i + 1

Stop(i) == IF Tokens[i].op = "end" /\ Tokens[OpenerOf(i)].op = "while" THEN OpenerOf(i) ELSE i

At(p) ==
    LET at[i \in Positions] ==
          IF Passed(i) /\ Onward(i) \in (i + 1)..Len(Tokens) THEN at[Onward(i)] ELSE {Stop(i)}
    IN  at[p]

Otherwise(j) == CASE Tokens[j].op = "else"   -> At(j + 1)
                  [] Tokens[j].op = "elseif" -> {j}
                  [] Tokens[j].op = "end"    -> At(j)

Successors(i) ==
    CASE Tokens[i].op \in {"declare", "evaluate"} -> At(i + 1)
      [] Tokens[i].op \in {"if", "elseif"} -> At(i + 1) \cup Otherwise(NextClause(i))
      [] Tokens[i].op = "while" -> At(i + 1) \cup At(EndOf(i) + 1)
      [] OTHER -> {}

(* The tokens some run of the function defined at f executes.              *)
Executed(f) ==
    LET after[n \in 0..Len(Tokens)] ==
          IF n = 0 THEN At(f + 1)
          ELSE LET reached == after[n - 1]
               IN  reached \cup UNION {Successors(i) : i \in reached}
    IN  after[Len(Tokens)]

FallsOff(f) == EndOf(f) \in Executed(f)
=============================================================================
