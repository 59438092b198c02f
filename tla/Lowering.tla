------------------------------ MODULE Lowering ------------------------------
(***************************************************************************)
(* How juli types become LLVM types (codegen/llvm/translationUnit.cpp),    *)
(* and how the casts that the type checker added become instructions       *)
(* (codegen/llvm/ir.cpp), for Operators and Accesses.                      *)
(***************************************************************************)
EXTENDS Matching

Int8 == Primitive("INT8")
Int32 == Primitive("INT32")
Float64 == Primitive("FLOAT64")
Boolean == Primitive("BOOLEAN")
Nil == Primitive("NIL")
Numbers == {Int8, Int32, Float64}
Void == Primitive("VOID")
String == Array(Int8, 1, -1)

Pointer(l) == <<"pointer", l>>

(* resolveLLVMType: null and references are integers as wide as pointers,  *)
(* and that is 32 bits in a module without a data layout.  Strings are     *)
(* pointers to their characters, other arrays and classes to a struct.     *)
LLVMType(t) ==
    CASE t = Boolean                   -> <<"i1">>
      [] t = Int8                      -> <<"i8">>
      [] t \in {Int32, Nil, Reference} -> <<"i32">>
      [] t = Float64                   -> <<"double">>
      [] t = Void                      -> <<"void">>
      [] t = String                    -> Pointer(<<"i8">>)
      [] t.category = "ARRAY" /\ t.staticSize >= 0 ->
            Pointer(<<"array", t.elementType, t.staticSize>>)
      [] OTHER                         -> Pointer(<<"struct", t>>)

NoValue == <<"none">>        \* a null llvm::Value*
IllTyped == <<"ill-typed">>  \* an instruction whose operands do not fit it

(* visitCast on the value v of an operand.  A null value is handed on to   *)
(* LLVM by every case that creates an instruction.                         *)
NeedsInstruction(from, to) == from # to /\ ~(from = Nil /\ to = Reference)

Cast(v, from, to) ==
    IF ~NeedsInstruction(from, to) \/ v = IllTyped THEN v
    ELSE IF \/ {from, to} \subseteq Numbers
            \/ from = Nil /\ to.category # "PRIMITIVE"
            \/ from.category \in {"CLASS", "ARRAY"} /\ to = Reference
         THEN LLVMType(to)
         ELSE NoValue
=============================================================================
