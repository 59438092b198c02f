------------------------------ MODULE MCMemory ------------------------------
(* Structs and arrays on which TLC checks Memory.                          *)
EXTENDS Memory

CONSTANTS MaxFields, MaxLength   \* bounds of structs and of array sizes

FieldTypes == {Primitive("char"), Primitive("int"), Primitive("double"),
               ArrayOf(Primitive("int"), 2), ClassOf(<<>>)}

MCStructs ==
    UNION {[1..n -> [name : 1..MaxFields, type : FieldTypes]] : n \in 0..MaxFields}

OneField(p) == ClassOf(<<[name |-> 1, type |-> Primitive(p)]>>)

ElementTypes == {Primitive("boolean"), Primitive("char"), Primitive("int"), Primitive("double"),
                 ArrayOf(Primitive("char"), 1), ArrayOf(Primitive("int"), 1),
                 ClassOf(<<>>), OneField("char"), OneField("int"), OneField("double")}

MCSizes == UNION {[1..d -> 0..MaxLength] : d \in 1..3}

MCArrays == [element : ElementTypes, sizes : MCSizes]
=============================================================================
