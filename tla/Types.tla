------------------------------- MODULE Types --------------------------------
(***************************************************************************)
(* The types of juli (parser/ast/types.cpp): equality, assignability and   *)
(* mangling.  A type is a record, so two types are equal in the sense of   *)
(* operator== exactly if the records are equal: a class is its name, an    *)
(* array its element type, dimension and static size (-1 for none).        *)
(***************************************************************************)
EXTENDS Integers, Sequences, TLC

CONSTANTS
    ClassNames,  \* struct names, each a sequence of letters
    Types        \* the types considered, closed under element types

Primitive(p) == [category |-> "PRIMITIVE", primitive |-> p]
Class(n) == [category |-> "CLASS", name |-> n]
Array(e, d, s) == [category |-> "ARRAY", elementType |-> e, dimension |-> d, staticSize |-> s]
Reference == [category |-> "REFERENCE"]

PrimitiveNames == {"INT8", "INT32", "FLOAT64", "BOOLEAN", "VOID", "NIL"}

ASSUME ClassNamesAssumption == \A n \in ClassNames : n \in Seq(STRING) /\ n # <<>>
ASSUME TypesAssumption ==
    \A t \in Types : \/ t \in {Primitive(p) : p \in PrimitiveNames}
                     \/ t \in {Class(n) : n \in ClassNames}
                     \/ t = Reference
                     \/ /\ t.category = "ARRAY"
                        /\ t.elementType \in Types
                        /\ t = Array(t.elementType, t.dimension, t.staticSize)

(* The enumerators of Primitive, whose order isAssignableTo compares.      *)
Rank == [INT8 |-> 0, INT32 |-> 1, FLOAT64 |-> 2, BOOLEAN |-> -1, VOID |-> -2, NIL |-> -3]

(* A numeric type widens to a larger one; null goes to anything that is    *)
(* not primitive; a class object goes to a reference.  The type of         *)
(* references is the one that is not even assignable to itself.            *)
Widens(p, q) == Rank[p] >= Rank["INT8"] /\ Rank[q] >= Rank["INT8"] /\ Rank[p] < Rank[q]

IsAssignableTo(s, t) ==
    \/ s = t /\ s # Reference
    \/ /\ s.category = "PRIMITIVE" /\ t.category = "PRIMITIVE"
       /\ Widens(s.primitive, t.primitive)
    \/ s = Primitive("NIL") /\ t.category # "PRIMITIVE"
    \/ s.category = "CLASS" /\ t = Reference

(* The mangled form of a type, as the sequence of its letters.  A class    *)
(* name is written out with nothing that marks its end.                    *)
Letter == [VOID |-> "v", BOOLEAN |-> "b", INT8 |-> "c", INT32 |-> "i", FLOAT64 |-> "d", NIL |-> "n"]

(* Mutant of ArrayPrefix: an array mangles as its element type.            *)
NoArrayPrefix(t) == <<>>

ArrayPrefix(t) ==
    IF t.staticSize >= 0 THEN <<"A", "S", "_", ToString(t.staticSize), "_">>
    ELSE IF t.dimension = 1 THEN <<"A", "P">>
    ELSE <<"A", "M", "_", ToString(t.dimension), "_">>

Mangle[t \in Types] ==
    CASE t.category = "PRIMITIVE" -> <<Letter[t.primitive]>>
      [] t.category = "REFERENCE" -> <<"R">>
      [] t.category = "CLASS"     -> <<"C">> \o t.name
      [] t.category = "ARRAY"     -> ArrayPrefix(t) \o Mangle[t.elementType]
=============================================================================
