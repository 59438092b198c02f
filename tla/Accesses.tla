------------------------------ MODULE Accesses ------------------------------
(***************************************************************************)
(* One statement made of variables, fields, elements, calls and            *)
(* allocations: the type checker annotates the tree, then the code         *)
(* generator lowers it.  A tree is the sequence of its nodes, operands     *)
(* first; an assignment is the tree of its value, then that of its place,  *)
(* in the order of the type checker, and the code generator visits the     *)
(* place first (typecheck.cpp, ir.cpp).                                    *)
(***************************************************************************)
EXTENDS Lowering, SequencesExt, Functions

CONSTANTS
    Variables,   \* types of variables
    Values,      \* types of other operands: literals and operators
    Elements,    \* types that "new" is applied to
    Fields,      \* the fields of each class: a sequence of [name, type]
    FieldOrder,  \* the field names in lexical order
    Functions,   \* the functions: [name, result, formals, varArgs, cMod]
    MaxNodes     \* bound on the nodes of a statement

AccessesAssumption ==
    /\ Variables \cup Values \cup Elements \subseteq Types \ {Reference}
    /\ DOMAIN Fields = ClassNames
    /\ \A c \in ClassNames : \A i \in DOMAIN Fields[c] :
          Fields[c][i].name \in Range(FieldOrder) /\ Fields[c][i].type \in Types
    /\ MaxNodes \in Nat

VARIABLES
    phase,    \* "checking", "rejected", "generating", "done"
    code,     \* the nodes visited by the type checker
    open,     \* the nodes that are operands of a node still to come
    split,    \* the last node of the value of an assignment, 0 before
    results   \* the LLVM types of the values generated, by node

vars == <<phase, code, open, split, results>>

-----------------------------------------------------------------------------
(* A node, its static type, its operands and the types they are cast to.   *)
Node(kind, type, args, to) == [node |-> kind, type |-> type, args |-> args, to |-> to]

None == [node |-> "none"]

TypeOf(i) == code[i].type
TypesOf(is) == [k \in DOMAIN is |-> TypeOf(is[k])]

LastOf(s, n) == SubSeq(s, Len(s) - n + 1, Len(s))

(* Type::getField: the index of a field is its place in the declaration,   *)
(* the last one of a name counts; the length of a multi-dimensional array  *)
(* is an array of static size.                                             *)
IndexIn(fields, name) == CHOOSE i \in DOMAIN fields :
                            /\ fields[i].name = name
                            /\ \A j \in DOMAIN fields : fields[j].name = name => j <= i

GetField(t, name) ==
    IF t.category = "CLASS" /\ \E i \in DOMAIN Fields[t.name] : Fields[t.name][i].name = name
    THEN LET i == IndexIn(Fields[t.name], name)
         IN  [node |-> "some", index |-> i - 1, type |-> Fields[t.name][i].type]
    ELSE IF t.category = "ARRAY" /\ name = "length"
    THEN [node |-> "some", index |-> 1,
          type |-> IF t.dimension = 1 THEN Int32 ELSE Array(Int32, 1, t.dimension)]
    ELSE None

Assignable(s, t) == s = t \/ IsAssignableTo(s, t)

-----------------------------------------------------------------------------
Init == /\ phase = "checking"
        /\ code = <<>>
        /\ open = <<>>
        /\ split = 0
        /\ results = <<>>

(* A visit of the type checker that takes n operands: it adds a node, or   *)
(* throws.                                                                 *)
Checking(n) == /\ phase = "checking"
               /\ Len(code) < MaxNodes
               /\ Len(open) >= n + (IF split = 0 THEN 0 ELSE 1)

Accept(n, node) ==
    /\ code' = Append(code, node)
    /\ open' = Append(SubSeq(open, 1, Len(open) - n), Len(code) + 1)
    /\ UNCHANGED <<phase, split, results>>

Reject == /\ phase' = "rejected"
          /\ UNCHANGED <<code, open, split, results>>

LastOpen(n) == LastOf(open, n)

CheckVariable(t) ==
    Checking(0) /\ Accept(0, Node("variable", t, <<>>, <<>>))

CheckValue(t) ==
    Checking(0) /\ Accept(0, Node("value", t, <<>>, <<>>))

CheckField(name) ==
    /\ Checking(1)
    /\ LET ref == LastOpen(1)
           field == GetField(TypeOf(ref[1]), name)
       IN  IF field = None THEN Reject
           ELSE Accept(1, Node("field", field.type, ref, TypesOf(ref))
                            @@ [name |-> name, index |-> field.index])

CheckElement(n) ==
    /\ Checking(n + 1)
    /\ LET args == LastOpen(n + 1)
           t == TypeOf(args[1])
           indices == Tail(args)
       IN  IF \/ t.category # "ARRAY" \/ t.dimension # n
              \/ \E k \in DOMAIN indices : ~Assignable(TypeOf(indices[k]), Int32)
           THEN Reject
           ELSE Accept(n + 1, Node("element", t.elementType, args,
                                   <<t>> \o [k \in 1..n |-> Int32]))

CheckNewArray(t, n) ==
    /\ Checking(n)
    /\ Array(t, n, -1) \in Types
    /\ LET args == LastOpen(n)
       IN  IF \E k \in 1..n : ~Assignable(TypeOf(args[k]), Int32) THEN Reject
           ELSE Accept(n, Node("new array", Array(t, n, -1), args, [k \in 1..n |-> Int32]))

(* "new" of a type without brackets: the grammar takes any name of a type. *)
CheckNewObject(t) ==
    /\ t.category \in {"PRIMITIVE", "CLASS"}
    /\ Checking(0)
    /\ Accept(0, Node("new object", t, <<>>, <<>>))

(* coerce: an argument becomes one of the formal's type; those taken by    *)
(* "..." are left as they are.                                             *)
CheckCall(name, n) ==
    /\ Checking(n)
    /\ LET args == LastOpen(n)
           best == Best({f \in Functions : f.name = name}, TypesOf(args))
       IN  \/ name = "main" /\ Reject
           \/ name # "main" /\ Cardinality(best) # 1 /\ Reject
           \/ \E f \in best :
                /\ name # "main" /\ best = {f}
                /\ Accept(n, Node("call", f.result, args,
                             [k \in 1..n |-> IF k <= Len(f.formals) THEN f.formals[k]
                                             ELSE TypeOf(args[k])]) @@ [function |-> f])

(* The end of the value of an assignment; what follows is its place.       *)
CheckPlace ==
    /\ phase = "checking"
    /\ split = 0 /\ Len(open) = 1
    /\ split' = Len(code)
    /\ UNCHANGED <<phase, code, open, results>>

Addressable == {"variable", "field", "element"}

(* The end of an assignment, or of the initialisation of a variable.       *)
CheckAssignment ==
    /\ phase = "checking"
    /\ split # 0 /\ Len(open) = 2
    /\ IF code[open[2]].node \in Addressable /\ Assignable(TypeOf(open[1]), TypeOf(open[2]))
       THEN /\ code' = Append(code, Node("store", Void, open,
                                         <<TypeOf(open[2]), TypeOf(open[2])>>))
            /\ open' = <<>>
            /\ phase' = "generating"
            /\ UNCHANGED <<split, results>>
       ELSE Reject

CheckStatement ==
    /\ phase = "checking"
    /\ split = 0 /\ Len(open) = 1
    /\ open' = <<>>
    /\ phase' = "generating"
    /\ UNCHANGED <<code, split, results>>

-----------------------------------------------------------------------------
IsStore == Last(code).node = "store"

(* The order of the code generator, and the node it visits next.           *)
Order == LET n == Len(code)
         IN  IF ~IsStore THEN [k \in 1..n |-> k]
             ELSE [k \in 1..n |-> IF k = n THEN n
                                  ELSE IF split + k < n THEN split + k
                                  ELSE split + k - n + 1]

Current == Order[Cardinality(DOMAIN results) + 1]

Visit(kind) == /\ phase = "generating"
               /\ Cardinality(DOMAIN results) < Len(code)
               /\ code[Current].node = kind

Generate(v) == /\ results' = results @@ (Current :> v)
               /\ UNCHANGED <<phase, code, open, split>>

Here == code[Current]

(* NAddressable::address: set for the node on the left of an assignment.   *)
Addressed == IsStore /\ Current = Len(code) - 1

Arg(k) == results[Here.args[k]]

(* The operands after their casts; a cast of a value that does not have    *)
(* the type it is cast from does not fit.                                  *)
Converted(k) ==
    LET from == TypeOf(Here.args[k])
        to == Here.to[k]
    IN  IF from = to THEN Arg(k)
        ELSE IF Arg(k) # LLVMType(from) THEN IllTyped
        ELSE Cast(Arg(k), from, to)

(* A load, and the address of a field of a struct: that of an array holds  *)
(* a pointer to the elements and the lengths, that of a class its fields   *)
(* in the order of their names.                                            *)
Load(p) == IF p[1] = "pointer" THEN p[2] ELSE IllTyped

Slots(fields) ==
    LET names == SelectSeq(FieldOrder, LAMBDA n : \E i \in DOMAIN fields : fields[i].name = n)
    IN  [k \in DOMAIN names |-> fields[IndexIn(fields, names[k])].type]

Layout(t) ==
    IF t.category = "CLASS"
    THEN [k \in DOMAIN Slots(Fields[t.name]) |-> LLVMType(Slots(Fields[t.name])[k])]
    ELSE <<Pointer(LLVMType(t.elementType)),
           IF t.dimension = 1 THEN <<"i32">> ELSE <<"array", Int32, t.dimension>>>>

IsStruct(p) == p[1] = "pointer" /\ p[2][1] = "struct"

FieldPtr(p, index) ==
    IF IsStruct(p) /\ index + 1 \in DOMAIN Layout(p[2][2])
    THEN Pointer(Layout(p[2][2])[index + 1])
    ELSE IllTyped

GenVariable ==
    /\ Visit("variable")
    /\ Generate(IF Addressed THEN Pointer(LLVMType(Here.type)) ELSE LLVMType(Here.type))

GenValue == Visit("value") /\ Generate(LLVMType(Here.type))

(* visitQualifiedAccess: the length of a string is a call of strlen, that  *)
(* of an array of static size a constant, whether a place was asked for or *)
(* not; an array of static size is a pointer into the struct.              *)
IsStatic(t) == t.category = "ARRAY" /\ t.staticSize >= 0

GenField ==
    /\ Visit("field")
    /\ LET p == FieldPtr(Arg(1), Here.index)
       IN  Generate(IF \/ Arg(1) = LLVMType(String) /\ Here.name = "length"
                       \/ IsStatic(TypeOf(Here.args[1]))
                    THEN <<"i32">>
                    ELSE IF Addressed \/ IsStatic(Here.type) THEN p
                    ELSE Load(p))

(* Mutant of ElementPtr: a string is taken for an array.                   *)
ElementPtrUniform(t, ref) == Load(FieldPtr(ref, 0))

(* visitArrayAccess: the address of an element, from the indices alone in  *)
(* a string and in an array of static size.                                *)
ElementPtr(t, ref) == IF t = String \/ IsStatic(t) THEN ref ELSE Load(FieldPtr(ref, 0))

GenElement ==
    /\ Visit("element")
    /\ LET t == TypeOf(Here.args[1])
           n == Len(Here.args) - 1
           p == ElementPtr(t, Arg(1))
           fits == /\ \A k \in 2..(n + 1) : Converted(k) = <<"i32">>
                   /\ n > 1 => FieldPtr(Arg(1), 1) = Pointer(<<"array", Int32, n>>)
       IN  Generate(IF ~fits THEN IllTyped ELSE IF Addressed THEN p ELSE Load(p))

GenNewArray ==
    /\ Visit("new array")
    /\ Generate(IF \A k \in DOMAIN Here.args : Converted(k) = <<"i32">>
                THEN LLVMType(Here.type) ELSE IllTyped)

(* A cast of a pointer to bytes, to a type that should be a pointer.       *)
GenNewObject ==
    /\ Visit("new object")
    /\ Generate(IF LLVMType(Here.type)[1] = "pointer" THEN LLVMType(Here.type) ELSE IllTyped)

(* visitFunctionCall: the instruction checks the arguments against the     *)
(* function's type; those taken by "..." need a value.                     *)
GenCall ==
    /\ Visit("call")
    /\ LET f == Here.function
           fits == \A k \in DOMAIN Here.args :
                      IF k <= Len(f.formals) THEN Converted(k) = LLVMType(f.formals[k])
                      ELSE Converted(k) \notin {<<"void">>, IllTyped}
       IN  Generate(IF \E k \in DOMAIN Here.args : Converted(k) = NoValue THEN NoValue
                    ELSE IF fits THEN LLVMType(f.result)
                    ELSE IllTyped)

GenStore ==
    /\ Visit("store")
    /\ Generate(IF Arg(2) = Pointer(Converted(1)) THEN <<"void">> ELSE IllTyped)

GenDone ==
    /\ phase = "generating"
    /\ Cardinality(DOMAIN results) = Len(code)
    /\ phase' = "done"
    /\ UNCHANGED <<code, open, split, results>>

Names == {f.name : f \in Functions}

Next == \/ \E t \in Variables : CheckVariable(t)
        \/ \E t \in Values : CheckValue(t)
        \/ \E name \in Range(FieldOrder) : CheckField(name)
        \/ \E n \in 1..2 : CheckElement(n)
        \/ \E t \in Elements : CheckNewObject(t) \/ \E n \in 1..2 : CheckNewArray(t, n)
        \/ \E name \in Names, n \in 0..2 : CheckCall(name, n)
        \/ CheckPlace \/ CheckAssignment \/ CheckStatement
        \/ GenVariable \/ GenValue \/ GenField \/ GenElement
        \/ GenNewArray \/ GenNewObject \/ GenCall \/ GenStore \/ GenDone

Spec == Init /\ [][Next]_vars

-----------------------------------------------------------------------------
Generated == DOMAIN results

(* The nodes the code generator gets wrong although the type checker       *)
(* accepts them: an element of the lengths of a multi-dimensional array;   *)
(* a place that is the length of a string or of a multi-dimensional array, *)
(* or the number of its dimensions; a field whose index, its place in the  *)
(* declaration, is not its place in the order of names; a new object of a  *)
(* type that is no class; the result of a void function given to "...".    *)
IsPlace(i) == IsStore /\ i = Len(code) - 1

Misplaced(ref, i) ==
    LET slots == Slots(Fields[ref.name])
    IN  \/ code[i].index + 1 \notin DOMAIN slots
        \/ LLVMType(slots[code[i].index + 1]) # LLVMType(TypeOf(i))

Mistaken(i) ==
    LET ref == TypeOf(code[i].args[1])
    IN  \/ code[i].node = "element" /\ IsStatic(ref)
        \/ /\ code[i].node = "field" /\ ref.category = "ARRAY"
           /\ IsPlace(i) /\ (ref = String \/ IsStatic(ref) \/ ref.dimension > 1)
        \/ code[i].node = "field" /\ ref.category = "CLASS" /\ Misplaced(ref, i)
        \/ code[i].node = "new object" /\ TypeOf(i).category # "CLASS"
        \/ /\ code[i].node = "call"
           /\ \E k \in DOMAIN code[i].args : k > Len(code[i].function.formals)
                                              /\ TypeOf(code[i].args[k]) = Void

(* Apart from those, every value has the LLVM type of its static type and  *)
(* every place is the address of one, through fields, elements, casts,     *)
(* arguments and allocations; and each of those does go wrong, however it  *)
(* is used (visitQualifiedAccess, visitArrayAccess, visitFunctionCall,     *)
(* visitAllocateArray, visitAssignment of both passes).                    *)
Below ==
    LET below[i \in DOMAIN code] == UNION {{j} \cup below[j] : j \in Range(code[i].args)}
    IN  below

Expected(i) == IF IsPlace(i) THEN Pointer(LLVMType(TypeOf(i))) ELSE LLVMType(TypeOf(i))

AccessesHaveTheirTypes ==
    \A i \in Generated :
        (\A j \in Below[i] : ~Mistaken(j)) => (results[i] = Expected(i) <=> ~Mistaken(i))

(* A lengths access such as "m.length[0]", which the samples print as an   *)
(* int, gives an int.                                                      *)
LengthsAreInts ==
    \A i \in Generated :
        code[i].node = "element" /\ IsStatic(TypeOf(code[i].args[1])) =>
            results[i] = LLVMType(Int32)
=============================================================================
