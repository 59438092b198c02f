------------------------------ MODULE CodeGen -------------------------------
(***************************************************************************)
(* The IRGenerator (codegen/llvm/ir.cpp) over statements: the flat symbol  *)
(* table of TranslationUnit, the function pool, and the basic blocks that  *)
(* are emitted.  The LLVM builder, modelled from how it is used, appends   *)
(* to the block of its insertion point whatever that block holds.          *)
(***************************************************************************)
EXTENDS Statements

CONSTANT StackLimit   \* function bodies being emitted inside one another

(* An alloca: the variable it is for and the function that holds it.       *)
Slot == [var : Variable, fn : Keys]

(* An entry of the function pool.  "body" is 0 or the token of a           *)
(* definition.                                                             *)
PoolEntry == [params : Seq(Names), void : BOOLEAN, body : Nat]

ASSUME StackLimitAssumption == StackLimit \in Nat \ {0}
ASSUME NoEntryAssumption == None \notin Slot \cup PoolEntry

VARIABLES
    gpos,     \* the token being visited
    pool,     \* Function::functionPool
    frames,   \* the visits in progress, innermost last
    table,    \* TranslationUnit::llvmSymbolTable
    blocks,   \* the basic blocks emitted so far
    at,       \* the insertion point of the builder, 0 before any
    loads,    \* the variable each mention of a name was resolved to
    result    \* "emitting", "emitted", "rejected", "crashed"

genVars == <<gpos, pool, frames, table, blocks, at, loads, result>>

(* A block belongs to an LLVM function.  It is open until a terminator is  *)
(* appended and broken when anything is appended after that.  "code" lists *)
(* the statements executed in it, "next" the blocks it branches to.        *)
Block == [fn : Keys, code : Seq(Positions), next : Seq(Nat), state : {"open", "closed", "broken"}]

NewBlock(k) == [fn |-> k, code |-> <<>>, next |-> <<>>, state |-> "open"]

(* A visit in progress: where it returns to, the blocks it still needs.    *)
Frame == [op : Openers, at : Positions, back : Nat, join : Nat, other : Nat]

Here == frames[Len(frames)]

-----------------------------------------------------------------------------
(* Function::get: the first declaration of a key creates the pool entry,   *)
(* later ones supply the body if they have one.                            *)
Pooled(p, sig, body) ==
    IF p[sig.key] = None
    THEN [p EXCEPT ![sig.key] = [params |-> sig.params, void |-> sig.void, body |-> body]]
    ELSE IF body = 0 THEN p
    ELSE [p EXCEPT ![sig.key].body = body]

BodyAt(i) == IF Tokens[i].op = "function" THEN i ELSE 0

(* Mutant of Redefines: a body is not compared with the one in the pool.   *)
RedefinesItself(p, i) == /\ p[Tokens[i].sig.key] # None
                         /\ BodyAt(i) # 0
                         /\ p[Tokens[i].sig.key].body # 0

Redefines(p, i) == /\ p[Tokens[i].sig.key] # None
                   /\ BodyAt(i) # 0
                   /\ p[Tokens[i].sig.key].body \notin {0, i}

(* The pool the declaration pass leaves behind: the first declaration of a *)
(* key, in an imported file or in this one, gives the signature, and the   *)
(* definition the body.                                                    *)
ImportedAs(k) == {i \in DOMAIN unit.imported : unit.imported[i].key = k}
DeclaredHere(k) == {i \in TopLevelFunctions : Tokens[i].sig.key = k}
DefinedHere(k) == DeclaredHere(k) \cap Definitions

First(k) == IF ImportedAs(k) # {} THEN unit.imported[Min(ImportedAs(k))]
            ELSE Tokens[Min(DeclaredHere(k))].sig

DeclaredPool ==
    [k \in Keys |->
       IF ImportedAs(k) \cup DeclaredHere(k) = {} THEN None
       ELSE [params |-> First(k).params, void |-> First(k).void,
             body |-> IF DefinedHere(k) = {} THEN 0 ELSE Max(DefinedHere(k))]]

-----------------------------------------------------------------------------
(* The builder: an instruction that stands for statement i, a terminator,  *)
(* a new block.                                                            *)
Emit(bs, b, i) ==
    [bs EXCEPT ![b] = IF @.state = "open" THEN [@ EXCEPT !.code = Append(bs[b].code, i)]
                      ELSE [@ EXCEPT !.state = "broken"]]

Terminate(bs, b, targets) ==
    [bs EXCEPT ![b] = IF @.state = "open"
                      THEN [@ EXCEPT !.next = targets, !.state = "closed"]
                      ELSE [@ EXCEPT !.state = "broken"]]

(* New blocks of the function that has block b.                            *)
Fresh(bs, b, n) == bs \o [k \in 1..n |-> NewBlock(bs[b].fn)]

Owner == blocks[at].fn

(* TranslationUnit::getSymbol for each variable of the expression.         *)
Resolvable == \A n \in Tokens[gpos].uses : table[n] # None

Load == loads' = loads \cup {[at |-> gpos, name |-> n, slot |-> table[n], by |-> Owner] :
                                n \in Tokens[gpos].uses}

Emitting(ops) == /\ result = "emitting"
                 /\ gpos <= Len(Tokens)
                 /\ Tokens[gpos].op \in ops

Advance == gpos' = gpos + 1

GenInit == /\ gpos = 1
           /\ pool = DeclaredPool
           /\ frames = <<>>
           /\ table = [n \in Names |-> None]
           /\ blocks = <<>>
           /\ at = 0
           /\ loads = {}
           /\ result = "emitting"

-----------------------------------------------------------------------------
(* Mutant of GenDeclare: an entry of the symbol table is not replaced.     *)
GenDeclareFirst ==
    /\ Emitting({"declare"}) /\ Resolvable
    /\ Load /\ Advance
    /\ blocks' = Emit(blocks, at, gpos)
    /\ table' = IF table[Tokens[gpos].name] # None THEN table
                ELSE [table EXCEPT ![Tokens[gpos].name] = [var |-> <<gpos, 0>>, fn |-> Owner]]
    /\ UNCHANGED <<unit, autoReturn, pool, frames, at, result>>

(* visitVariableDecl: the alloca is entered under its name for good.       *)
GenDeclare ==
    /\ Emitting({"declare"}) /\ Resolvable
    /\ Load /\ Advance
    /\ blocks' = Emit(blocks, at, gpos)
    /\ table' = [table EXCEPT ![Tokens[gpos].name] = [var |-> <<gpos, 0>>, fn |-> Owner]]
    /\ UNCHANGED <<unit, autoReturn, pool, frames, at, result>>

GenEvaluate ==
    /\ Emitting({"evaluate"}) /\ Resolvable
    /\ Load /\ Advance
    /\ blocks' = Emit(blocks, at, gpos)
    /\ UNCHANGED <<unit, autoReturn, pool, frames, table, at, result>>

GenOther ==
    /\ Emitting({"other"})
    /\ Advance
    /\ UNCHANGED <<unit, autoReturn, pool, frames, table, blocks, at, loads, result>>

(* A return of the wrong kind for the LLVM function breaks the block.      *)
Return(bs, void) ==
    LET ret == Terminate(Emit(bs, at, gpos), at, <<>>)
    IN  IF pool[Owner].void = void THEN ret ELSE [ret EXCEPT ![at].state = "broken"]

GenReturn ==
    /\ Emitting(Returns) /\ Resolvable
    /\ Load /\ Advance
    /\ blocks' = Return(blocks, Tokens[gpos].op = "return")
    /\ UNCHANGED <<unit, autoReturn, pool, frames, table, at, result>>

(* visitIf up to the first clause's body: the continue, then and else      *)
(* blocks are created, the condition branches.                             *)
GenIf ==
    /\ Emitting({"if"}) /\ Resolvable
    /\ Load /\ Advance
    /\ LET n == Len(blocks)
       IN  /\ blocks' = Terminate(Emit(Fresh(blocks, at, 3), at, gpos), at, <<n + 2, n + 3>>)
           /\ frames' = Append(frames, [op |-> "if", at |-> gpos, back |-> 0,
                                        join |-> n + 1, other |-> n + 3])
           /\ at' = n + 2
    /\ UNCHANGED <<unit, autoReturn, pool, table, result>>

(* The end of a clause with a condition and the start of the next one, in  *)
(* the else block.  The new blocks are of the function the if is in.       *)
GenElseIf ==
    /\ Emitting({"elseif"}) /\ Resolvable
    /\ Load /\ Advance
    /\ LET n == Len(blocks)
           left == Terminate(Fresh(blocks, Here.join, 2), at, <<Here.join>>)
       IN  /\ blocks' = Terminate(Emit(left, Here.other, gpos), Here.other, <<n + 1, n + 2>>)
           /\ frames' = [frames EXCEPT ![Len(frames)].other = n + 2]
           /\ at' = n + 1
    /\ UNCHANGED <<unit, autoReturn, pool, table, result>>

GenElse ==
    /\ Emitting({"else"})
    /\ Advance
    /\ blocks' = Terminate(blocks, at, <<Here.join>>)
    /\ frames' = [frames EXCEPT ![Len(frames)].other = 0]
    /\ at' = Here.other
    /\ UNCHANGED <<unit, autoReturn, pool, table, loads, result>>

(* Mutant of GenIfEnd: the block for a failed last condition is left open. *)
GenIfEndOpen ==
    /\ Emitting({"end"}) /\ Here.op = "if"
    /\ Advance
    /\ blocks' = Terminate(blocks, at, <<Here.join>>)
    /\ frames' = Front(frames)
    /\ at' = Here.join
    /\ UNCHANGED <<unit, autoReturn, pool, table, loads, result>>

(* The end of an if statement: the last block branches to the continue     *)
(* block, and so does the else block of a last clause with a condition.    *)
GenIfEnd ==
    /\ Emitting({"end"}) /\ Here.op = "if"
    /\ Advance
    /\ LET left == Terminate(blocks, at, <<Here.join>>)
       IN  blocks' = IF Here.other = 0 THEN left
                     ELSE Terminate(left, Here.other, <<Here.join>>)
    /\ frames' = Front(frames)
    /\ at' = Here.join
    /\ UNCHANGED <<unit, autoReturn, pool, table, loads, result>>

(* visitWhile: condition, body and continue blocks.                        *)
GenWhile ==
    /\ Emitting({"while"}) /\ Resolvable
    /\ Load /\ Advance
    /\ LET n == Len(blocks)
           entered == Terminate(Fresh(blocks, at, 3), at, <<n + 1>>)
       IN  /\ blocks' = Terminate(Emit(entered, n + 1, gpos), n + 1, <<n + 2, n + 3>>)
           /\ frames' = Append(frames, [op |-> "while", at |-> gpos, back |-> 0,
                                        join |-> n + 3, other |-> n + 1])
           /\ at' = n + 2
    /\ UNCHANGED <<unit, autoReturn, pool, table, result>>

(* Mutant of GenWhileEnd: the body branches past the loop.                 *)
GenWhileEndOnce ==
    /\ Emitting({"end"}) /\ Here.op = "while"
    /\ Advance
    /\ blocks' = Terminate(blocks, at, <<Here.join>>)
    /\ frames' = Front(frames)
    /\ at' = Here.join
    /\ UNCHANGED <<unit, autoReturn, pool, table, loads, result>>

GenWhileEnd ==
    /\ Emitting({"end"}) /\ Here.op = "while"
    /\ Advance
    /\ blocks' = Terminate(blocks, at, <<Here.other>>)
    /\ frames' = Front(frames)
    /\ at' = Here.join
    /\ UNCHANGED <<unit, autoReturn, pool, table, loads, result>>

(* visitFunctionDef and defineFunction: whatever definition the token is,  *)
(* the body in the pool is emitted, with the pool's parameter names.       *)
Entry(p, k, def) ==
    [n \in Names |->
       LET js == {j \in DOMAIN p[k].params : p[k].params[j] = n}
       IN  IF js = {} THEN table[n] ELSE [var |-> <<def, Max(js)>>, fn |-> k]]

Known == Pooled(pool, Tokens[gpos].sig, BodyAt(gpos))
Key == Tokens[gpos].sig.key
Behind == IF BodyAt(gpos) = 0 THEN gpos + 1 ELSE EndOf(gpos) + 1

GenFunction ==
    /\ Emitting({"function", "forward"})
    /\ ~Redefines(pool, gpos)
    /\ Known[Key].body # 0
    /\ Len(frames) < StackLimit
    /\ pool' = Known
    /\ gpos' = Known[Key].body + 1
    /\ frames' = Append(frames, [op |-> "function", at |-> Known[Key].body,
                                 back |-> Behind, join |-> 0, other |-> 0])
    /\ table' = Entry(Known, Key, Known[Key].body)
    /\ blocks' = Append(blocks, NewBlock(Key))
    /\ at' = Len(blocks) + 1
    /\ UNCHANGED <<unit, autoReturn, loads, result>>

(* Mutant of GenForward: a declaration never emits the body of its         *)
(* definition.                                                             *)
GenForwardOnly ==
    /\ Emitting({"forward"})
    /\ Advance
    /\ pool' = Known
    /\ UNCHANGED <<unit, autoReturn, frames, table, blocks, at, loads, result>>

(* A declaration of a function that has no body in this file.              *)
GenForward ==
    /\ Emitting({"forward"})
    /\ Known[Key].body = 0
    /\ Advance
    /\ pool' = Known
    /\ UNCHANGED <<unit, autoReturn, frames, table, blocks, at, loads, result>>

(* The end of a body, with the return the type checker may have added: the *)
(* parameters leave the symbol table, the local variables stay, and the    *)
(* insertion point stays where it is.                                      *)
GenFunctionEnd ==
    /\ Emitting({"end"}) /\ Here.op = "function"
    /\ gpos' = Here.back
    /\ frames' = Front(frames)
    /\ blocks' = IF Here.at \in autoReturn THEN Return(blocks, TRUE) ELSE blocks
    /\ table' = [n \in Names |->
                    IF n \in Range(pool[Tokens[Here.at].sig.key].params)
                    THEN None ELSE table[n]]
    /\ UNCHANGED <<unit, autoReturn, pool, at, loads, result>>

(* The CompilerErrors of this pass.                                        *)
GenReject ==
    /\ Emitting(Ops)
    /\ \/ ~Resolvable
       \/ Tokens[gpos].op = "function" /\ Redefines(pool, gpos)
    /\ result' = "rejected"
    /\ UNCHANGED <<unit, autoReturn, gpos, pool, frames, table, blocks, at, loads>>

(* A function declared again inside its own body is emitted inside itself, *)
(* without end.                                                            *)
GenCrash ==
    /\ Emitting({"function", "forward"})
    /\ ~Redefines(pool, gpos)
    /\ Known[Key].body # 0
    /\ Len(frames) >= StackLimit
    /\ result' = "crashed"
    /\ UNCHANGED <<unit, autoReturn, gpos, pool, frames, table, blocks, at, loads>>

GenDone ==
    /\ result = "emitting" /\ gpos > Len(Tokens)
    /\ result' = "emitted"
    /\ UNCHANGED <<unit, autoReturn, gpos, pool, frames, table, blocks, at, loads>>

GenNext ==
    \/ GenDeclare \/ GenEvaluate \/ GenOther \/ GenReturn
    \/ GenIf \/ GenElseIf \/ GenElse \/ GenIfEnd \/ GenWhile \/ GenWhileEnd
    \/ GenFunction \/ GenForward \/ GenFunctionEnd
    \/ GenReject \/ GenCrash \/ GenDone
=============================================================================
