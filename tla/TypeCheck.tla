----------------------------- MODULE TypeCheck ------------------------------
(***************************************************************************)
(* The TypeChecker (analysis/type/typecheck.cpp) over statements: scopes,  *)
(* what each name is bound to, and the "terminates" flags from which it    *)
(* concludes whether a function returns.                                   *)
(***************************************************************************)
EXTENDS Statements

VARIABLES
    cpos,        \* the token being visited
    scopes,      \* SymbolTable::scopes, innermost last
    open,        \* the visits in progress, innermost last
    current,     \* _currentFunction, 0 for none
    bound,       \* the variable each mention of a name was bound to
    verdict      \* "checking", "checked", "rejected", "crashed"

checkVars == <<cpos, scopes, open, current, bound, verdict>>

NoScope == [n \in Names |-> None]

(* A visit of a compound statement.  "last" holds the values that          *)
(* terminates of the last statement of the block visited may have: the     *)
(* constructor sets none, so that of a declaration is whatever the memory  *)
(* holds.  "all" is terminates of an if statement so far.                  *)
Visit == [op : Openers \cup {"unit"}, at : Nat, last : SUBSET BOOLEAN, all : BOOLEAN]

Opened(op, i) == [op |-> op, at |-> i, last |-> {TRUE}, all |-> TRUE]

Inner == open[Len(open)]
After(vs, values) == [vs EXCEPT ![Len(vs)].last = values]
Unset == BOOLEAN

CheckInit == /\ cpos = 1
             /\ scopes = <<NoScope>>
             /\ open = <<Opened("unit", 0)>>
             /\ current = 0
             /\ bound = {}
             /\ autoReturn = {}
             /\ verdict = "checking"

-----------------------------------------------------------------------------
(* Mutant of Lookup: the scopes are searched from the outside.             *)
LookupOutermost(sc, n) ==
    LET holding == {k \in DOMAIN sc : sc[k][n] # None}
    IN  IF holding = {} THEN None ELSE sc[Min(holding)][n]

(* SymbolTable::getSymbol and addSymbol.                                   *)
Lookup(sc, n) ==
    LET holding == {k \in DOMAIN sc : sc[k][n] # None}
    IN  IF holding = {} THEN None ELSE sc[Max(holding)][n]

AddSymbol(sc, n, var) == [sc EXCEPT ![Len(sc)][n] = var]

WithParameters(i) ==
    [n \in Names |->
       IF \E j \in DOMAIN Tokens[i].sig.params : Tokens[i].sig.params[j] = n
       THEN <<i, Min({j \in DOMAIN Tokens[i].sig.params : Tokens[i].sig.params[j] = n})>>
       ELSE None]

Checking(ops) == /\ verdict = "checking"
                 /\ cpos <= Len(Tokens)
                 /\ Tokens[cpos].op \in ops

(* The scopes in which the expression of the token is visited: the         *)
(* condition of an else-if is outside the block that has just ended.       *)
ExpressionScopes == IF Tokens[cpos].op \in Clauses THEN Front(scopes) ELSE scopes

(* visitVariableRef for each variable of the expression.                   *)
Declared == \A n \in Tokens[cpos].uses : Lookup(ExpressionScopes, n) # None

Bind == bound' = bound \cup {<<cpos, n, Lookup(ExpressionScopes, n)>> : n \in Tokens[cpos].uses}

Step == cpos' = cpos + 1

-----------------------------------------------------------------------------
CheckDeclare ==
    /\ Checking({"declare"}) /\ Declared
    /\ scopes[Len(scopes)][Tokens[cpos].name] = None
    /\ Bind /\ Step
    /\ scopes' = AddSymbol(scopes, Tokens[cpos].name, <<cpos, 0>>)
    /\ open' = After(open, Unset)
    /\ UNCHANGED <<unit, current, autoReturn, verdict>>

CheckEvaluate ==
    /\ Checking({"evaluate"}) /\ Declared
    /\ Bind /\ Step
    /\ open' = After(open, {FALSE})
    /\ UNCHANGED <<unit, scopes, current, autoReturn, verdict>>

(* Mutant of CheckOther: the loop over the statements does not go on.      *)
CheckOtherAgain ==
    /\ Checking({"other"})
    /\ open' = After(open, Unset)
    /\ UNCHANGED <<unit, cpos, scopes, current, bound, autoReturn, verdict>>

CheckOther ==
    /\ Checking({"other"})
    /\ Step
    /\ open' = After(open, Unset)
    /\ UNCHANGED <<unit, scopes, current, bound, autoReturn, verdict>>

(* visitReturn asks the current function for its type.  The value of a     *)
(* function without a result, which checkAssignment lets such a function   *)
(* return, is not among the expressions of a unit.                         *)
CheckReturn ==
    /\ Checking(Returns) /\ Declared
    /\ current # 0
    /\ Tokens[current].sig.void <=> Tokens[cpos].op = "return"
    /\ Bind /\ Step
    /\ open' = After(open, {TRUE})
    /\ UNCHANGED <<unit, scopes, current, autoReturn, verdict>>

(* visitIf and visitWhile, up to the block.                                *)
CheckOpen ==
    /\ Checking({"if", "while"}) /\ Declared
    /\ Bind /\ Step
    /\ scopes' = Append(scopes, NoScope)
    /\ open' = Append(open, Opened(Tokens[cpos].op, cpos))
    /\ UNCHANGED <<unit, current, autoReturn, verdict>>

(* The end of one clause of an if statement and the start of the next.     *)
CheckClause ==
    /\ Checking(Clauses) /\ Declared
    /\ Bind /\ Step
    /\ scopes' = Append(Front(scopes), NoScope)
    /\ \E t \in Inner.last :
         open' = [open EXCEPT ![Len(open)] = [Inner EXCEPT !.all = @ /\ t, !.last = {TRUE}]]
    /\ UNCHANGED <<unit, current, autoReturn, verdict>>

(* Mutant of CheckEnd: only the last block of an if statement counts.      *)
CheckEndLast ==
    /\ Checking({"end"}) /\ Inner.op \in {"if", "while"}
    /\ Step
    /\ scopes' = Front(scopes)
    /\ \E t \in Inner.last : open' = After(Front(open), {t})
    /\ UNCHANGED <<unit, current, bound, autoReturn, verdict>>

(* The end of an if or while statement: it terminates if all its blocks    *)
(* do.                                                                     *)
CheckEnd ==
    /\ Checking({"end"}) /\ Inner.op \in {"if", "while"}
    /\ Step
    /\ scopes' = Front(scopes)
    /\ \E t \in Inner.last : open' = After(Front(open), {Inner.all /\ t})
    /\ UNCHANGED <<unit, current, bound, autoReturn, verdict>>

(* visitFunctionDef: the parameters and the body share one scope, on top   *)
(* of whatever scopes there are.                                           *)
CheckFunction ==
    /\ Checking({"function"})
    /\ IsInjective(Tokens[cpos].sig.params)
    /\ Step
    /\ scopes' = Append(scopes, WithParameters(cpos))
    /\ open' = Append(open, Opened("function", cpos))
    /\ current' = cpos
    /\ UNCHANGED <<unit, bound, autoReturn, verdict>>

CheckForward ==
    /\ Checking({"forward"})
    /\ IsInjective(Tokens[cpos].sig.params)
    /\ Step
    /\ current' = 0
    /\ open' = After(open, Unset)
    /\ UNCHANGED <<unit, scopes, bound, autoReturn, verdict>>

(* The end of the body: a void function that does not terminate gets a     *)
(* return, any other is refused.  No function is current afterwards, not   *)
(* even in the body of an enclosing one.                                   *)
CheckFunctionEnd ==
    /\ Checking({"end"}) /\ Inner.op = "function"
    /\ Step
    /\ scopes' = Front(scopes)
    /\ open' = After(Front(open), Unset)
    /\ current' = 0
    /\ \/ /\ TRUE \in Inner.last
          /\ UNCHANGED <<autoReturn, verdict>>
       \/ /\ FALSE \in Inner.last /\ Tokens[Inner.at].sig.void
          /\ autoReturn' = autoReturn \cup {Inner.at}
          /\ UNCHANGED verdict
       \/ /\ FALSE \in Inner.last /\ ~Tokens[Inner.at].sig.void
          /\ verdict' = "rejected"
          /\ UNCHANGED autoReturn
    /\ UNCHANGED <<unit, bound>>

(* The other CompilerErrors.                                               *)
CheckReject ==
    /\ Checking(Ops)
    /\ Tokens[cpos].op \in Returns => current # 0
    /\ \/ ~Declared
       \/ /\ Tokens[cpos].op = "declare"
          /\ scopes[Len(scopes)][Tokens[cpos].name] # None
       \/ /\ Tokens[cpos].op \in Returns
          /\ Tokens[current].sig.void # (Tokens[cpos].op = "return")
       \/ /\ Tokens[cpos].op \in {"function", "forward"}
          /\ ~IsInjective(Tokens[cpos].sig.params)
    /\ verdict' = "rejected"
    /\ UNCHANGED <<unit, cpos, scopes, open, current, bound, autoReturn>>

(* A return statement after a nested function has no current function:     *)
(* a null pointer is dereferenced before the expression is looked at.      *)
CheckCrash ==
    /\ Checking(Returns) /\ current = 0
    /\ verdict' = "crashed"
    /\ UNCHANGED <<unit, cpos, scopes, open, current, bound, autoReturn>>

CheckDone ==
    /\ verdict = "checking" /\ cpos > Len(Tokens)
    /\ verdict' = "checked"
    /\ UNCHANGED <<unit, cpos, scopes, open, current, bound, autoReturn>>

CheckNext ==
    \/ CheckDeclare \/ CheckEvaluate \/ CheckOther \/ CheckReturn
    \/ CheckOpen \/ CheckClause \/ CheckEnd
    \/ CheckFunction \/ CheckForward \/ CheckFunctionEnd
    \/ CheckReject \/ CheckCrash \/ CheckDone
=============================================================================
