--------------------------- MODULE TypeResolution ---------------------------
(***************************************************************************)
(* How the LLVM types of a file come into being: resolveLLVMType and       *)
(* createClassType (codegen/llvm/translationUnit.cpp) create the struct of *)
(* a class or an array when it is first mentioned, while they descend into *)
(* the types of its parts, and find it by its name after that.             *)
(***************************************************************************)
EXTENDS Lowering

CONSTANTS
    Programs,    \* sets of classes: the types of their fields, by the name
                 \* of the class and in the order of the fields' names
    MaxMentions, \* bound on the types the code generator asks for
    StackLimit   \* activations the native stack has room for

ProgramsAssumption ==
    /\ \A fields \in Programs :
         /\ DOMAIN fields = ClassNames
         /\ \A c \in ClassNames : fields[c] \in Seq(Types)
    /\ MaxMentions \in Nat /\ StackLimit \in Nat

VARIABLES
    fields,    \* the classes of the file
    mentions,  \* the types the code generator has asked for
    stack,     \* the activations of resolveLLVMType, innermost last
    structs,   \* the structs created: a name, and a body once it is set
    results    \* the pairs of a type and what it was resolved to

vars == <<fields, mentions, stack, structs, results>>

(* A struct created under a name that is taken gets another one.           *)
Struct(t, body) ==
    [type |-> t, body |-> body, renamed |-> \E i \in DOMAIN structs : structs[i].type = t]

Opaque == <<>>

(* getType: the struct that has the name of a type.  A name is the mangled *)
(* type, which no two types share.                                         *)
Known(t) == \E i \in DOMAIN structs : structs[i].type = t /\ ~structs[i].renamed
StructOf(t) == CHOOSE i \in DOMAIN structs : structs[i].type = t /\ ~structs[i].renamed

To(i) == Pointer(<<"struct", i>>)

(* An activation: its type, the parts resolved and the struct created.     *)
Started(t) == [type |-> t, parts |-> <<>>, struct |-> 0]

Top == stack[Len(stack)]
Fresh == Top.parts = <<>> /\ Top.struct = 0

Call(frames, t) == /\ Len(stack) < StackLimit
                   /\ stack' = Append(frames, Started(t))

Return(l) ==
    LET below == SubSeq(stack, 1, Len(stack) - 1)
    IN  /\ results' = results \cup {<<Top.type, l>>}
        /\ stack' = IF below = <<>> THEN <<>>
                    ELSE [below EXCEPT ![Len(below)].parts = Append(@, l)]
        /\ UNCHANGED <<fields, mentions>>

-----------------------------------------------------------------------------
Init == /\ fields \in Programs
        /\ mentions = <<>>
        /\ stack = <<>>
        /\ structs = <<>>
        /\ results = {}

Mention(t) ==
    /\ stack = <<>>
    /\ Len(mentions) < MaxMentions
    /\ mentions' = Append(mentions, t)
    /\ Call(<<>>, t)
    /\ UNCHANGED <<fields, structs, results>>

IsStruct(t) == t.category = "CLASS" \/ (t.category = "ARRAY" /\ t # String)

ResolveSimple ==
    /\ stack # <<>> /\ ~IsStruct(Top.type)
    /\ Return(LLVMType(Top.type))
    /\ UNCHANGED structs

ResolveKnown ==
    /\ stack # <<>> /\ IsStruct(Top.type) /\ Fresh
    /\ Known(Top.type)
    /\ Return(To(StructOf(Top.type)))
    /\ UNCHANGED structs

EnterArray ==
    /\ stack # <<>> /\ IsStruct(Top.type) /\ Fresh
    /\ ~Known(Top.type)
    /\ Top.type.category = "ARRAY"
    /\ Call(stack, Top.type.elementType)
    /\ UNCHANGED <<fields, mentions, structs, results>>

(* Mutant of FinishArray: the struct of an array has no name, so that it   *)
(* is not found again.                                                     *)
FinishArrayUnnamed ==
    LET t == Top.type
    IN  /\ stack # <<>> /\ t.category = "ARRAY" /\ Len(Top.parts) = 1
        /\ structs' = Append(structs, [Struct(t, <<Pointer(Top.parts[1])>>) EXCEPT !.renamed = TRUE])
        /\ Return(To(Len(structs) + 1))

(* The element type is resolved: the struct of the array is created, an    *)
(* array of static size needs none.                                        *)
FinishArray ==
    LET t == Top.type
        lengths == IF t.dimension > 1 THEN <<"array", Int32, t.dimension>> ELSE <<"i32">>
    IN  /\ stack # <<>> /\ t.category = "ARRAY" /\ Len(Top.parts) = 1
        /\ IF t.staticSize >= 0 /\ t.dimension = 1
           THEN /\ Return(Pointer(<<"array", Top.parts[1], t.staticSize>>))
                /\ UNCHANGED structs
           ELSE /\ structs' = Append(structs, Struct(t, <<Pointer(Top.parts[1]), lengths>>))
                /\ Return(To(Len(structs) + 1))

(* Mutant of EnterClass: the struct has no name before it has a body.      *)
EnterClassUnnamed ==
    /\ stack # <<>> /\ IsStruct(Top.type) /\ Fresh
    /\ ~Known(Top.type)
    /\ Top.type.category = "CLASS"
    /\ structs' = Append(structs, [Struct(Top.type, Opaque) EXCEPT !.renamed = TRUE])
    /\ stack' = [stack EXCEPT ![Len(stack)].struct = Len(structs) + 1]
    /\ UNCHANGED <<fields, mentions, results>>

(* createClassType: the struct has its name before its fields are          *)
(* resolved, so a class that contains itself finds it.                     *)
EnterClass ==
    /\ stack # <<>> /\ IsStruct(Top.type) /\ Fresh
    /\ ~Known(Top.type)
    /\ Top.type.category = "CLASS"
    /\ structs' = Append(structs, Struct(Top.type, Opaque))
    /\ stack' = [stack EXCEPT ![Len(stack)].struct = Len(structs) + 1]
    /\ UNCHANGED <<fields, mentions, results>>

FieldsOf(t) == fields[t.name]

ResolveField ==
    /\ stack # <<>> /\ Top.struct # 0
    /\ Len(Top.parts) < Len(FieldsOf(Top.type))
    /\ Call(stack, FieldsOf(Top.type)[Len(Top.parts) + 1])
    /\ UNCHANGED <<fields, mentions, structs, results>>

FinishClass ==
    /\ stack # <<>> /\ Top.struct # 0
    /\ Len(Top.parts) = Len(FieldsOf(Top.type))
    /\ structs' = [structs EXCEPT ![Top.struct].body = Top.parts]
    /\ Return(To(Top.struct))

Next == \/ \E t \in Types : Mention(t)
        \/ ResolveSimple \/ ResolveKnown
        \/ EnterArray \/ FinishArray
        \/ EnterClass \/ ResolveField \/ FinishClass

Resolve == Next /\ mentions' = mentions

Spec == Init /\ [][Next]_vars /\ WF_vars(Resolve)

-----------------------------------------------------------------------------
(* The types a type is made of, and all it contains.                       *)
Parts(t) == IF t.category = "CLASS" THEN {FieldsOf(t)[k] : k \in DOMAIN FieldsOf(t)}
            ELSE IF t.category = "ARRAY" THEN {t.elementType} ELSE {}

Contains(t) ==
    LET within[n \in 0..Cardinality(Types)] ==
          IF n = 0 THEN Parts(t)
          ELSE within[n - 1] \cup UNION {Parts(u) : u \in within[n - 1]}
    IN  within[Cardinality(Types)]

(* An array whose elements contain such an array.                          *)
ContainsItself(t) == t.category = "ARRAY" /\ t \in Contains(t)

Twofold(t) == \E r, s \in results : r[1] = t /\ s[1] = t /\ r # s

(* A type is resolved to one LLVM type, in whatever order types are        *)
(* mentioned, so that a value fits wherever its type is expected.  The     *)
(* exception is an array whose elements contain such an array: it is given *)
(* two structs if it is the first type mentioned, and one if its elements  *)
(* are (resolveLLVMType, createClassType).                                 *)
OneTypeEach ==
    \A t \in Types :
        /\ Twofold(t) => ContainsItself(t)
        /\ mentions # <<>> /\ stack = <<>> /\ ContainsItself(t) =>
             /\ mentions[1] = t => Twofold(t)
             /\ mentions[1] = t.elementType /\ t.elementType.category = "CLASS" => ~Twofold(t)

(* A struct has the body its class declares, field by field, when the      *)
(* resolution of a type ends, which it does although classes contain each  *)
(* other (createClassType).                                                *)
Bodies ==
    \A i \in DOMAIN structs :
        structs[i].type.category = "CLASS" =>
            /\ Len(structs[i].body) = Len(FieldsOf(structs[i].type))
            /\ \A k \in DOMAIN structs[i].body :
                 <<FieldsOf(structs[i].type)[k], structs[i].body[k]>> \in results

ResolutionEnds == []<>(stack = <<>> /\ Bodies)
=============================================================================
