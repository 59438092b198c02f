----------------------------- MODULE MCAccesses -----------------------------
(* Types, two classes, functions and a length of statements for TLC to     *)
(* check Operators and Accesses: a statement is made either of operators   *)
(* or of accesses.  The fields of B are not declared in the order of their *)
(* names.                                                                  *)
EXTENDS Operators

A == <<"A">>
B == <<"B">>
MCClassNames == {A, B}
MCOperands == {Int8, Int32, Float64, Boolean, Nil, Void, Class(A), Array(Int32, 1, -1)}

AccessVariables == {Int8, Float64, String, Class(A), Class(B), Array(Int32, 1, -1),
                    Array(Class(A), 1, -1), Array(Float64, 2, -1)}
AccessValues == {Int32, Nil}
AccessElements == {Int8, Int32, Class(B), Array(Int32, 1, -1)}
MCTypes == AccessVariables \cup AccessValues \cup AccessElements
             \cup {Array(t, n, -1) : t \in AccessElements, n \in 1..2}
             \cup {Boolean, Void, Reference, Array(Int32, 1, 2)}
MCMaxNodes == 5

Field(n, t) == [name |-> n, type |-> t]
ClassFields == A :> <<Field("next", Class(A)), Field("value", Array(Int32, 1, -1))>>
            @@ B :> <<Field("value", Int32), Field("length", Float64), Field("next", Class(B))>>

Fn(n, r, formals, v) == [name |-> n, result |-> r, formals |-> formals, varArgs |-> v, cMod |-> v]
Callees == {Fn("print", Int32, <<String>>, TRUE), Fn("f", Void, <<>>, FALSE),
            Fn("f", Class(A), <<Float64>>, FALSE), Fn("main", Int32, <<>>, FALSE)}

VARIABLES stage, nodes, open, split, results

accesses == <<stage, nodes, open, split, results>>

Access == INSTANCE Accesses WITH
            Variables <- AccessVariables, Values <- AccessValues, Elements <- AccessElements,
            Fields <- ClassFields, FieldOrder <- <<"length", "next", "value">>,
            Functions <- Callees, phase <- stage, code <- nodes

ASSUME AccessesAssumption == Access!AccessesAssumption

-----------------------------------------------------------------------------
StatementInit == Init /\ Access!Init

StatementNext == \/ Access!Init /\ Next /\ UNCHANGED accesses
                 \/ Init /\ Access!Next /\ UNCHANGED vars

StatementSpec == StatementInit /\ [][StatementNext]_<<vars, accesses>>

(* The properties of Accesses, which are stated there.                     *)
AccessesHaveTheirTypes == Access!AccessesHaveTheirTypes
LengthsAreInts == Access!LengthsAreInts
=============================================================================
