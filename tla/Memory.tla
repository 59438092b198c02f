------------------------------- MODULE Memory -------------------------------
(***************************************************************************)
(* The run-time memory of compiled programs: what "new" allocates for a    *)
(* struct or an array (codegen/llvm/ir.cpp getSizeOf, visitAllocateObject, *)
(* visitAllocateArray) and which bytes of it an access of a field or of an *)
(* element touches (typeinfo.cpp defineClass, translationUnit.cpp          *)
(* createClassType, ir.cpp visitArrayAccess).  The sizes of LLVM types and *)
(* its layout of structs are those of the target, modelled as external.    *)
(***************************************************************************)
EXTENDS Integers, Sequences, SequencesExt, FiniteSets, Functions, TLC

CONSTANTS
    Structs,     \* struct declarations: sequences of [name, type]
    Arrays,      \* array allocations: [element, sizes]
    Targets,     \* pointer sizes of the targets compiled for
    IntRange,    \* number of values of an int, 2^32 in the code
    MaxStores    \* bound: stores made to the allocated object

ASSUME MemoryAssumption == /\ IntRange \in {2 * n : n \in 1..IntRange}
                           /\ MaxStores \in Nat
                           /\ Targets \subseteq {4, 8}

(* Types: primitives, a class with its fields, an array with a number of   *)
(* dimensions.                                                             *)
Primitives == {"boolean", "char", "int", "double"}
Primitive(p) == [kind |-> p]
ArrayOf(t, n) == [kind |-> "array", of |-> t, dimension |-> n]
ClassOf(fields) == [kind |-> "class", fields |-> fields]

IsString(t) == t.kind = "array" /\ t.of.kind = "char" /\ t.dimension = 1

VARIABLES
    target,    \* size of a pointer when the program runs
    object,    \* what was allocated
    sizes,     \* bytes allocated for its parts
    written,   \* the cell last written to each byte
    stores     \* the cells stored to, in order

vars == <<target, object, sizes, written, stores>>

-----------------------------------------------------------------------------
(* A module reports no pointer size unless it is given a data layout, and  *)
(* nothing gives it one: the code generator counts four bytes.             *)
PointerSize == 4

SumOf(s) == FoldLeft(LAMBDA x, y : x + y, 0, s)

(* ClassType::fields is a map: ordered by name, the last declaration of a  *)
(* name counts, with its index in the declaration.                         *)
FieldNames(fields) == {fields[i].name : i \in DOMAIN fields}
Index(fields, n) == CHOOSE i \in DOMAIN fields :
                       /\ fields[i].name = n
                       /\ \A j \in DOMAIN fields : fields[j].name = n => j <= i

Slots(fields) == LET names == SetToSortSeq(FieldNames(fields), <)
                 IN  [k \in DOMAIN names |-> fields[Index(fields, names[k])].type]

ShallowSize(t) == CASE t.kind \in {"boolean", "char"} -> 1
                    [] t.kind = "int"    -> 4
                    [] t.kind = "double" -> 8
                    [] t.kind = "class"  -> PointerSize
                    [] IsString(t)       -> PointerSize
                    [] OTHER             -> PointerSize + 4 * t.dimension

GetSizeOf(t) == IF t.kind = "class"
                THEN SumOf([k \in DOMAIN Slots(t.fields) |-> ShallowSize(Slots(t.fields)[k])])
                ELSE ShallowSize(t)

-----------------------------------------------------------------------------
(* The target: a value takes as many bytes as its type, classes and arrays *)
(* are pointers, fields are aligned to their size.                         *)
Width(t) == IF t.kind \in Primitives THEN ShallowSize(t) ELSE target

Aligned(offset, w) == ((offset + w - 1) \div w) * w

Offset(types, k) ==
    LET end[j \in 0..Len(types)] ==
          IF j = 0 THEN 0 ELSE Aligned(end[j - 1], Width(types[j])) + Width(types[j])
    IN  end[k] - Width(types[k])

Padded(types) == \E k \in DOMAIN types :
                    Offset(types, k) # SumOf([j \in 1..(k - 1) |-> Width(types[j])])

-----------------------------------------------------------------------------
(* Arithmetic on ints as the emitted instructions do it, and the value of  *)
(* an int used as an index.                                                *)
Wrap(n) == n % IntRange
Signed(n) == IF n >= IntRange \div 2 THEN n - IntRange ELSE n

IsChars(a) == a.element.kind = "char" /\ Len(a.sizes) = 1

(* Mutant of DataSize: no room for the terminator of a string.             *)
DataSizeUnterminated(a) ==
    IF IsChars(a) THEN a.sizes[1]
    ELSE FoldLeft(LAMBDA bytes, n : Wrap(n * bytes), GetSizeOf(a.element), a.sizes)

(* visitAllocateArray: a string and its terminator, or a header with the   *)
(* lengths and the elements.                                               *)
DataSize(a) ==
    IF IsChars(a) THEN Wrap(a.sizes[1] + 1)
    ELSE FoldLeft(LAMBDA bytes, n : Wrap(n * bytes), GetSizeOf(a.element), a.sizes)

ArraySizes(a) ==
    [part \in {"header", "data"} |->
       IF part = "data" THEN DataSize(a)
       ELSE IF IsChars(a) THEN 0 ELSE GetSizeOf(ArrayOf(a.element, Len(a.sizes)))]

(* Mutant of ElementIndex: the factor of an index includes its own length. *)
ElementIndexOff(a, index) ==
    LET factor[k \in DOMAIN a.sizes] ==
          IF k = 1 THEN a.sizes[1] ELSE Wrap(a.sizes[k] * factor[k - 1])
    IN  Signed(FoldLeft(LAMBDA sum, k : Wrap(sum + Wrap(index[k] * factor[k])),
                        0, [k \in DOMAIN a.sizes |-> k]))

(* visitArrayAccess: the first index runs fastest.                         *)
ElementIndex(a, index) ==
    LET factor[k \in DOMAIN a.sizes] ==
          IF k = 1 THEN 1 ELSE Wrap(a.sizes[k - 1] * factor[k - 1])
    IN  Signed(FoldLeft(LAMBDA sum, k : Wrap(sum + Wrap(index[k] * factor[k])),
                        0, [k \in DOMAIN a.sizes |-> k]))

-----------------------------------------------------------------------------
(* The cells of an object: the fields of a struct; the elements of an      *)
(* array, the lengths and the pointer in its header, the terminator of a   *)
(* string.  A cell takes the bytes of a part of the object.                *)
IndexTuples(a) ==
    FoldLeft(LAMBDA is, n : {Append(i, j) : i \in is, j \in 0..(n - 1)}, {<<>>}, a.sizes)

Cells(o) ==
    IF o.kind = "class" THEN {[part |-> "object", at |-> n] : n \in FieldNames(o.fields)}
    ELSE {[part |-> "data", at |-> i] : i \in IndexTuples(o)}
           \cup (IF IsChars(o) THEN {[part |-> "data", at |-> <<o.sizes[1]>>]}
                 ELSE {[part |-> "header", at |-> k] : k \in 0..Len(o.sizes)})

Bytes(o, c) ==
    LET first == CASE c.part = "object" -> Offset(Slots(o.fields), Index(o.fields, c.at))
                   [] c.part = "data"   -> ElementIndex(o, c.at) * Width(o.element)
                   [] c.part = "header" -> IF c.at = 0 THEN 0 ELSE target + 4 * (c.at - 1)
        width == CASE c.part = "object" -> Width(Slots(o.fields)[Index(o.fields, c.at)])
                   [] c.part = "data"   -> Width(o.element)
                   [] c.part = "header" -> IF c.at = 0 THEN target ELSE 4
    IN  {<<c.part, b>> : b \in first..(first + width - 1)}

(* A field of a struct whose slot in the LLVM struct exists and has the    *)
(* field's type; the builder makes no valid access of any other.           *)
Accessible(fields, n) == LET i == Index(fields, n)
                         IN  /\ i <= Len(Slots(fields))
                             /\ Slots(fields)[i] = fields[i].type

-----------------------------------------------------------------------------
Nothing == [kind |-> "none"]

Init == /\ target \in Targets
        /\ object = Nothing
        /\ sizes = <<>>
        /\ written = <<>>
        /\ stores = <<>>

AllocateObject ==
    /\ object = Nothing
    /\ \E fields \in Structs :
         /\ object' = ClassOf(fields)
         /\ sizes' = [part \in {"object"} |-> GetSizeOf(ClassOf(fields))]
    /\ UNCHANGED <<target, written, stores>>

(* The header is filled in at once, a string is terminated.                *)
AllocateArray ==
    /\ object = Nothing
    /\ \E a \in Arrays :
         LET o == [kind |-> "elements", element |-> a.element, sizes |-> a.sizes]
             filled == {c \in Cells(o) : c.part = "header" \/ c.at = a.sizes}
         IN  /\ object' = o
             /\ sizes' = ArraySizes(a)
             /\ written' = [b \in UNION {Bytes(o, c) : c \in filled} |->
                              CHOOSE c \in filled : b \in Bytes(o, c)]
             /\ stores' = SetToSeq(filled)
    /\ UNCHANGED target

(* An assignment to a field or to an element.                              *)
Store ==
    /\ object # Nothing
    /\ \E c \in Cells(object) :
         /\ c.part # "header"
         /\ c.part = "object" => Accessible(object.fields, c.at)
         /\ c \notin Range(stores)
         /\ Cardinality({k \in DOMAIN stores : stores[k].part # "header"}) < MaxStores
         /\ written' = [b \in Bytes(object, c) |-> c] @@ written
         /\ stores' = Append(stores, c)
    /\ UNCHANGED <<target, object, sizes>>

Next == AllocateObject \/ AllocateArray \/ Store

Spec == Init /\ [][Next]_vars

-----------------------------------------------------------------------------
Count(a) == FoldLeft(LAMBDA x, n : x * n, 1, a.sizes)

(* What was stored in a field or an element is there until the same one is *)
(* stored to again: no two of them share a byte, whatever the order of the *)
(* fields, the number of dimensions or the wrap-around of the index        *)
(* arithmetic, as long as an array has no more elements than an int has    *)
(* values.                                                                 *)
ReadsBack ==
    (object.kind = "elements" => Count(object) < IntRange) =>
        \A c \in Range(stores) : \A b \in Bytes(object, c) : written[b] = c

(* The sizes the code generator computes are those of the target: pointers *)
(* have four bytes, no struct has padding, an array of structs counts at   *)
(* least a pointer for each, and the number of bytes fits an int.          *)
PointerFree(types) == \A k \in DOMAIN types : types[k].kind \in Primitives

SizesAgree(o) ==
    IF o.kind = "class"
    THEN /\ ~Padded(Slots(o.fields))
         /\ target = PointerSize \/ PointerFree(Slots(o.fields))
    ELSE /\ target = PointerSize \/ IsChars(o)
         /\ GetSizeOf(o.element) >= Width(o.element)
         /\ (Count(o) + 1) * GetSizeOf(o.element) <= IntRange \div 2

(* Then no access leaves the memory that was allocated.                    *)
Inside(c) == \A b \in Bytes(object, c) : b[2] \in 0..(sizes[b[1]] - 1)

WithinAllocation ==
    object # Nothing /\ SizesAgree(object) => \A c \in Range(stores) : Inside(c)

(* "allocate the actual array memory": the memory of an array of few       *)
(* elements holds them all, on a target the code generator has the right   *)
(* pointer size for.                                                       *)
ArrayMemory ==
    object.kind = "elements" /\ target = PointerSize /\ Count(object) <= 4 =>
        \A c \in Range(stores) : Inside(c)
=============================================================================
