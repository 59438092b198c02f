----------------------------- MODULE MCOverload -----------------------------
(* What is found by a mangled name, functions and structs: declarations    *)
(* and calls on which TLC checks Overload, and classes on which it checks  *)
(* TypeResolution.  A behaviour is one of either.                          *)
EXTENDS Overload

N == <<"N">>
List == <<"L", "i">>
MCClassNames == {N, List}

Int8 == Primitive("INT8")
Int32 == Primitive("INT32")
Float64 == Primitive("FLOAT64")
Boolean == Primitive("BOOLEAN")
Nil == Primitive("NIL")
Matrix == Array(Int32, 2, -1)
Strings == Array(Array(Int8, 1, -1), 1, -1)

MCTypes == {Int8, Int32, Float64, Boolean, Nil, Class(N), Class(List), Reference,
            Array(Int8, 1, -1), Strings, Matrix}

Fn(formals, varArgs, cMod) == [formals |-> formals, varArgs |-> varArgs, cMod |-> cMod]

(* Up to three declarations, chosen so that any two of them may mangle     *)
(* alike, fit the same call, or be ordered by widening.                    *)
MCDeclarations ==
    {Fn(<<>>, FALSE, FALSE), Fn(<<>>, TRUE, FALSE),
     Fn(<<Int32>>, FALSE, FALSE), Fn(<<Int32>>, TRUE, FALSE), Fn(<<Int32>>, FALSE, TRUE),
     Fn(<<Float64>>, TRUE, FALSE), Fn(<<Class(N)>>, FALSE, FALSE),
     Fn(<<Matrix>>, FALSE, FALSE),
     Fn(<<Int32, Float64>>, FALSE, FALSE), Fn(<<Float64, Int32>>, FALSE, FALSE),
     Fn(<<Float64, Float64>>, FALSE, FALSE), Fn(<<Class(List), Int32>>, FALSE, FALSE)}

MCArgs == {<<>>} \cup {<<s>> : s \in {Int8, Int32, Float64, Nil, Class(N)}}
                 \cup {<<s, t>> : s \in {Int8, Int32, Float64, Nil}, t \in {Int8, Int32, Float64}}

MCCalls == [decls : UNION {[1..k -> MCDeclarations] : k \in 1..3}, args : MCArgs]

-----------------------------------------------------------------------------
(* Every pair of classes with up to two fields.                            *)
MCFieldTypes == {Int32, Class(N), Class(List), Array(Class(N), 1, -1), Array(Class(List), 2, -1)}
MCResolved == MCFieldTypes \cup {Int8, Array(Int8, 1, -1), Array(Int32, 1, 2)}
MCPrograms == [{N, List} -> SeqOf(MCFieldTypes, 2)]

VARIABLES fields, mentions, stack, structs, results

resolution == <<fields, mentions, stack, structs, results>>

TR == INSTANCE TypeResolution WITH
        Types <- MCResolved, Programs <- MCPrograms, MaxMentions <- 2, StackLimit <- 9

ASSUME ProgramsAssumption == TR!ProgramsAssumption

VARIABLE found  \* what this behaviour is about

NoCall == [decls |-> <<Fn(<<>>, FALSE, FALSE)>>, args |-> <<>>]
NoFields == [c \in MCClassNames |-> <<>>]

FoundInit == \/ found = "functions" /\ fields = NoFields /\ TR!Init /\ Init
             \/ found = "structs" /\ call = NoCall /\ Init /\ TR!Init

FindFunctions == found = "functions" /\ Next /\ UNCHANGED <<resolution, found>>
FindStructs == found = "structs" /\ TR!Next /\ UNCHANGED <<vars, found>>
ResolveStructs == found = "structs" /\ TR!Resolve /\ UNCHANGED <<vars, found>>

FoundSpec == /\ FoundInit
             /\ [][FindFunctions \/ FindStructs]_<<vars, resolution, found>>
             /\ WF_<<vars, resolution, found>>(ResolveStructs)

(* The properties of TypeResolution, which are stated there.               *)
OneTypeEach == TR!OneTypeEach
ResolutionEnds == TR!ResolutionEnds
=============================================================================
