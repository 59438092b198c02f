-------------------------- MODULE OperatorsProofs ---------------------------
(***************************************************************************)
(* Proofs about Operators: operands meet at the widest of their types, the *)
(* values of the generated code have the types the checker gave their      *)
(* expressions, and a missing value is never stored.                       *)
(***************************************************************************)
EXTENDS Operators, FiniteSetTheorems, TLAPS

-----------------------------------------------------------------------------
(* What the types that operators are declared for have in common.          *)
Formals == Numbers \cup {Boolean, Reference}
AllTypes == Types \cup Formals

LEMMA Distinct ==
    /\ Int8 # Int32 /\ Int8 # Float64 /\ Int8 # Boolean /\ Int8 # Reference /\ Int8 # Nil
    /\ Int32 # Float64 /\ Int32 # Boolean /\ Int32 # Reference /\ Int32 # Nil
    /\ Float64 # Boolean /\ Float64 # Reference /\ Float64 # Nil
    /\ Boolean # Reference /\ Boolean # Nil /\ Nil # Reference
<1>1. /\ Int8.primitive = "INT8" /\ Int32.primitive = "INT32"
      /\ Float64.primitive = "FLOAT64" /\ Boolean.primitive = "BOOLEAN"
      /\ Nil.primitive = "NIL"
  BY DEF Int8, Int32, Float64, Boolean, Nil, Primitive
<1>2. /\ Int8.category = "PRIMITIVE" /\ Int32.category = "PRIMITIVE"
      /\ Float64.category = "PRIMITIVE" /\ Boolean.category = "PRIMITIVE"
      /\ Nil.category = "PRIMITIVE" /\ Reference.category = "REFERENCE"
  BY DEF Int8, Int32, Float64, Boolean, Nil, Primitive, Reference
<1> QED
  BY <1>1, <1>2

LEMMA Ranks ==
    /\ Rank[Int8.primitive] = 0 /\ Rank[Int32.primitive] = 1
    /\ Rank[Float64.primitive] = 2 /\ Rank[Boolean.primitive] = -1
    /\ Rank[Nil.primitive] = -3
  BY DEF Int8, Int32, Float64, Boolean, Nil, Primitive, Rank

LEMMA Categories ==
    /\ \A t \in Numbers \cup {Boolean, Nil} : t.category = "PRIMITIVE"
    /\ Reference.category = "REFERENCE"
  BY DEF Numbers, Int8, Int32, Float64, Boolean, Nil, Primitive, Reference

(* A primitive type is one of the six.                                     *)
LEMMA Primitives ==
    ASSUME NEW t \in AllTypes, t.category = "PRIMITIVE"
    PROVE  t \in Numbers \cup {Boolean, Nil, Void}
<1>1. CASE t \in Types
  <2>1. \/ t \in {Primitive(p) : p \in PrimitiveNames}
        \/ t \in {Class(n) : n \in ClassNames}
        \/ t = Reference
        \/ t = Array(t.elementType, t.dimension, t.staticSize)
    BY <1>1, TypesAssumption
  <2>2. t \in {Primitive(p) : p \in PrimitiveNames}
    BY <2>1 DEF Class, Reference, Array
  <2> QED
    BY <2>2 DEF PrimitiveNames, Numbers, Int8, Int32, Float64, Boolean, Nil, Void
<1>2. CASE t \in Formals
  BY <1>2, Categories DEF Formals
<1> QED
  BY <1>1, <1>2 DEF AllTypes

(* What can become a number, a boolean or a reference.                     *)
LEMMA IntoFormal ==
    ASSUME NEW s \in AllTypes, NEW t \in Formals, s = t \/ IsAssignableTo(s, t)
    PROVE  /\ t \in Numbers => s \in Numbers /\ Rank[s.primitive] <= Rank[t.primitive]
           /\ t = Boolean => s = Boolean
           /\ t = Reference => s \in {Nil, Reference} \/ s.category = "CLASS"
<1>1. CASE s = t
  <2>1. t \in Numbers => Rank[t.primitive] <= Rank[t.primitive]
    BY Ranks DEF Numbers
  <2> QED
    BY <1>1, <2>1, Distinct DEF Numbers
<1>2. CASE s # t /\ IsAssignableTo(s, t)
  <2>1. CASE t = Reference
    BY <1>2, <2>1, Distinct, Categories DEF IsAssignableTo, Numbers, Nil
  <2>2. CASE t # Reference
    <3>1. /\ t.category = "PRIMITIVE" /\ t \in Numbers \cup {Boolean}
          /\ s.category = "PRIMITIVE" /\ Widens(s.primitive, t.primitive)
      BY <1>2, <2>2, Categories DEF IsAssignableTo, Formals
    <3>2. Rank["INT8"] = 0
      BY DEF Rank
    <3>3. s \in Numbers \cup {Boolean, Nil, Void}
      BY <3>1, Primitives
    <3>4. Rank[Void.primitive] = -2
      BY DEF Void, Primitive, Rank
    <3> QED
      BY <2>2, <3>1, <3>2, <3>3, <3>4, Ranks, Distinct DEF Widens, Numbers
  <2> QED
    BY <2>1, <2>2
<1> QED
  BY <1>1, <1>2

-----------------------------------------------------------------------------
(* The functions operators are declared as, and how they fit.              *)
BuiltIn(n, t) == [formals |-> [i \in 1..n |-> t], varArgs |-> FALSE, cMod |-> FALSE]

LEMMA DeclaredShape ==
    ASSUME NEW op \in DOMAIN Symbol, NEW f \in Declared(Symbol[op])
    PROVE  \E n \in {1, 2}, t \in Formals : f = BuiltIn(n, t)
  BY DEF Declared, Built, BuiltIn, Formals

LEMMA ArityIs == \A op \in DOMAIN Symbol : Arity(op) \in {1, 2}
  BY DEF Arity

(* A declared function that fits n operands, and what fitting means.       *)
LEMMA FittingShape ==
    ASSUME NEW op \in DOMAIN Symbol, NEW f \in Declared(Symbol[op]),
           NEW args, NEW n \in {1, 2}, Len(args) = n, Matches(f, args) > 0
    PROVE  /\ \E t \in Formals : f = BuiltIn(n, t)
           /\ f.formals = [i \in 1..n |-> f.formals[1]]
           /\ f.formals[1] \in Formals
           /\ \A i \in 1..n : \/ args[i] = f.formals[1]
                              \/ IsAssignableTo(args[i], f.formals[1])
<1>1. Fits(f, args)
  BY DEF Matches
<1>2. PICK m \in {1, 2}, t \in Formals : f = BuiltIn(m, t)
  BY DeclaredShape
<1>3. Len(f.formals) = m /\ ~f.varArgs /\ DOMAIN f.formals = 1..m
  BY <1>2 DEF BuiltIn
<1>4. m = n
  BY <1>1, <1>3 DEF Fits
<1>5. /\ f.formals = [i \in 1..n |-> t]
      /\ \A i \in 1..n : f.formals[i] = t
  BY <1>2, <1>4 DEF BuiltIn
<1>6. \A i \in 1..n : args[i] = f.formals[i] \/ IsAssignableTo(args[i], f.formals[i])
  BY <1>1, <1>5 DEF Fits
<1>7. f.formals[1] = t
  BY <1>5
<1> QED
  BY <1>2, <1>4, <1>5, <1>6, <1>7

(* Its score counts the exact operands, and is above n if there is one.    *)
LEMMA ScoreOf ==
    ASSUME NEW n \in {1, 2}, NEW t \in Formals, NEW args, Len(args) = n, args # <<>>,
           \A i \in 1..n : args[i] = t \/ IsAssignableTo(args[i], t)
    PROVE  /\ Matches(BuiltIn(n, t), args) \in Nat
           /\ Matches(BuiltIn(n, t), args) >= n
           /\ Matches(BuiltIn(n, t), args) > n <=> \E i \in 1..n : args[i] = t
<1> DEFINE f == BuiltIn(n, t)
           X == {i \in 1..n : args[i] = t}
<1>1. /\ f.formals = [i \in 1..n |-> t] /\ Len(f.formals) = n
      /\ DOMAIN f.formals = 1..n /\ \A i \in 1..n : f.formals[i] = t
  BY DEF BuiltIn
<1>2. Fits(f, args)
  BY <1>1 DEF Fits
<1>3. Exact(f, args) = X
  BY <1>1 DEF Exact
<1>4. IsFiniteSet(X) /\ Cardinality(X) \in Nat /\ (Cardinality(X) = 0 <=> X = {})
  <2>1. IsFiniteSet(1..n)
    BY FS_Interval
  <2> QED
    BY <2>1, FS_Subset, FS_CardinalityType, FS_EmptySet
<1>5. Matches(f, args) = n + Cardinality(X)
  BY <1>1, <1>2, <1>3 DEF Matches
<1> HIDE DEF f
<1>6. X # {} <=> \E i \in 1..n : args[i] = t
  OBVIOUS
<1>7. Matches(f, args) \in Nat /\ Matches(f, args) >= n /\ (Matches(f, args) > n <=> X # {})
  BY <1>4, <1>5
<1> QED
  BY <1>6, <1>7 DEF f

(* The operators that are declared with n operands of type t.              *)
DeclaredFor(s, n, t) ==
    \/ n = 2 /\ t \in Numbers /\ s \in Comparison \cup {"+", "-", "/", "*", "%"}
    \/ n = 2 /\ t \in {Boolean, Reference} /\ s \in Equality
    \/ n = 2 /\ t = Boolean /\ s \in {"and", "or"}
    \/ n = 1 /\ t = Boolean /\ s = "not"
    \/ n = 1 /\ t \in Numbers /\ s \in {"-", "~"}

LEMMA DeclaredIff ==
    ASSUME NEW s, NEW n \in {1, 2}, NEW t \in Formals
    PROVE  BuiltIn(n, t) \in Declared(s) <=> DeclaredFor(s, n, t)
<1>1. ASSUME NEW m \in {1, 2}, NEW v \in Formals, BuiltIn(n, t) = BuiltIn(m, v)
      PROVE  m = n /\ v = t
  <2>1. [i \in 1..n |-> t] = [i \in 1..m |-> v]
    BY <1>1 DEF BuiltIn
  <2>2. 1..n = 1..m
    BY <2>1
  <2>3. 1 \in 1..n /\ m = n
    BY <2>2
  <2> QED
    BY <2>1, <2>3
<1>2. ASSUME NEW T \in SUBSET Formals, NEW m \in {1, 2}
      PROVE  BuiltIn(n, t) \in Built(T, m) <=> m = n /\ t \in T
  <2>1. Built(T, m) = {BuiltIn(m, v) : v \in T}
    BY DEF Built, BuiltIn
  <2> QED
    BY <1>1, <2>1
<1>3. /\ Numbers \in SUBSET Formals /\ {Boolean, Reference} \in SUBSET Formals
      /\ {Boolean} \in SUBSET Formals
  BY DEF Formals
<1>4. /\ BuiltIn(n, t) \in Built(Numbers, 2) <=> n = 2 /\ t \in Numbers
      /\ BuiltIn(n, t) \in Built({Boolean, Reference}, 2) <=> n = 2 /\ t \in {Boolean, Reference}
      /\ BuiltIn(n, t) \in Built({Boolean}, 2) <=> n = 2 /\ t = Boolean
      /\ BuiltIn(n, t) \in Built({Boolean}, 1) <=> n = 1 /\ t = Boolean
      /\ BuiltIn(n, t) \in Built(Numbers, 1) <=> n = 1 /\ t \in Numbers
  BY <1>2, <1>3
<1> QED
  BY <1>4 DEF Declared, DeclaredFor

(* An operator declared for one number is declared for all.                *)
LEMMA NumbersTogether ==
    ASSUME NEW s, NEW n \in {1, 2}, NEW t \in Numbers, NEW u \in Numbers,
           BuiltIn(n, t) \in Declared(s)
    PROVE  BuiltIn(n, u) \in Declared(s)
<1>1. t \in Formals /\ u \in Formals /\ t \notin {Boolean, Reference}
  BY Distinct DEF Formals, Numbers
<1>2. DeclaredFor(s, n, t)
  BY <1>1, DeclaredIff
<1>3. DeclaredFor(s, n, u)
  BY <1>1, <1>2 DEF DeclaredFor
<1> QED
  BY <1>1, <1>3, DeclaredIff

LEMMA NumbersWiden ==
    ASSUME NEW s \in Numbers, NEW t \in Numbers, Rank[s.primitive] <= Rank[t.primitive]
    PROVE  s = t \/ IsAssignableTo(s, t)
<1>1. Rank["INT8"] = 0
  BY DEF Rank
<1> QED
  BY <1>1, Ranks, Categories DEF Numbers, IsAssignableTo, Widens

(* The operands fit formals of type t, and one of them exactly.            *)
AllFit(n, args, t) == \A i \in 1..n : args[i] = t \/ IsAssignableTo(args[i], t)
OneExact(n, args, t) == \E i \in 1..n : args[i] = t

(* Among the operands of a best function on numbers there is one of its    *)
(* type: the function on the widest operand's type scores for that one.    *)
LEMMA BestIsExact ==
    ASSUME NEW candidates, NEW n \in {1, 2}, NEW args \in Seq(AllTypes), Len(args) = n,
           NEW t \in Numbers, BuiltIn(n, t) \in Best(candidates, args),
           \A u \in Numbers : BuiltIn(n, u) \in candidates,
           AllFit(n, args, t)
    PROVE  OneExact(n, args, t)
<1>0. \A i \in 1..n : args[i] = t \/ IsAssignableTo(args[i], t)
  BY DEF AllFit
<1>1. args # <<>> /\ \A i \in 1..n : args[i] \in AllTypes
  OBVIOUS
<1>2. t \in Formals
  BY DEF Formals
<1>3. \A i \in 1..n : args[i] \in Numbers /\ Rank[args[i].primitive] \in Int
  BY <1>0, <1>1, <1>2, IntoFormal, Ranks DEF Numbers
<1>4. PICK k \in 1..n : \A i \in 1..n : Rank[args[i].primitive] <= Rank[args[k].primitive]
  <2> DEFINE r(i) == Rank[args[i].primitive]
  <2>1. \A i \in 1..n : r(i) \in Int
    BY <1>3
  <2> HIDE DEF r
  <2>2. \E k \in 1..n : \A i \in 1..n : r(i) <= r(k)
    <3>1. CASE n = 1
      BY <2>1, <3>1
    <3>2. CASE n = 2
      <4>1. r(1) \in Int /\ r(2) \in Int
        BY <2>1, <3>2
      <4>2. \A i \in 1..n : i = 1 \/ i = 2
        BY <3>2
      <4>3. CASE r(1) <= r(2)
        <5>1. \A i \in 1..n : r(i) <= r(2)
          BY <4>1, <4>2, <4>3
        <5> QED
          BY <3>2, <5>1
      <4>4. CASE r(2) <= r(1)
        <5>1. \A i \in 1..n : r(i) <= r(1)
          BY <4>1, <4>2, <4>4
        <5> QED
          BY <3>2, <5>1
      <4> QED
        BY <4>1, <4>3, <4>4
    <3> QED
      BY <3>1, <3>2
  <2> QED
    BY <2>2 DEF r
<1>5. \A i \in 1..n : args[i] = args[k] \/ IsAssignableTo(args[i], args[k])
  BY <1>3, <1>4, NumbersWiden
<1>6. args[k] \in Formals
  BY <1>3 DEF Formals
<1>7. Matches(BuiltIn(n, args[k]), args) \in Nat /\ Matches(BuiltIn(n, args[k]), args) > n
  BY <1>1, <1>5, <1>6, ScoreOf
<1>8. BuiltIn(n, args[k]) \in candidates
  BY <1>3
<1>9. Matches(BuiltIn(n, args[k]), args) <= Matches(BuiltIn(n, t), args)
  BY <1>8 DEF Best
<1>10. /\ Matches(BuiltIn(n, t), args) \in Nat
       /\ Matches(BuiltIn(n, t), args) > n => \E i \in 1..n : args[i] = t
  BY <1>0, <1>1, <1>2, ScoreOf, ZenonT(60)
<1> QED
  BY <1>7, <1>9, <1>10 DEF OneExact

(* The operator a best function is, and what its operands are for it.      *)
LEMMA BestShape ==
    ASSUME NEW op \in DOMAIN Symbol, NEW n, n = Arity(op),
           NEW args \in Seq(AllTypes), Len(args) = n,
           NEW f \in Best(Declared(Symbol[op]), args)
    PROVE  \E t \in Formals :
              /\ f = BuiltIn(n, t) /\ f \in Declared(Symbol[op])
              /\ AllFit(n, args, t)
              /\ t \in Numbers =>
                   /\ OneExact(n, args, t)
                   /\ \A i \in 1..n : /\ args[i] \in Numbers
                                      /\ Rank[args[i].primitive] <= Rank[t.primitive]
<1>1. n \in {1, 2} /\ \A i \in 1..n : args[i] \in AllTypes
  BY ArityIs
<1>2. f \in Declared(Symbol[op]) /\ Matches(f, args) > 0
  BY DEF Best
<1>3. PICK t \in Formals : f = BuiltIn(n, t)
  BY <1>1, <1>2, FittingShape
<1>4. f.formals[1] = t
  BY <1>1, <1>3 DEF BuiltIn
<1>5. \A i \in 1..n : args[i] = t \/ IsAssignableTo(args[i], t)
  BY <1>1, <1>2, <1>4, FittingShape
<1>6. ASSUME t \in Numbers PROVE OneExact(n, args, t)
  <2> DEFINE candidates == Declared(Symbol[op])
  <2>1. /\ BuiltIn(n, t) \in Best(candidates, args)
        /\ \A u \in Numbers : BuiltIn(n, u) \in candidates
    BY <1>1, <1>2, <1>3, <1>6, NumbersTogether
  <2> HIDE DEF candidates
  <2>2. n \in {1, 2} /\ t \in Numbers /\ AllFit(n, args, t)
    BY <1>1, <1>5, <1>6 DEF AllFit
  <2> QED
    BY <2>1, <2>2, BestIsExact
<1>7. ASSUME t \in Numbers
      PROVE  \A i \in 1..n : /\ args[i] \in Numbers
                             /\ Rank[args[i].primitive] <= Rank[t.primitive]
  BY <1>1, <1>5, <1>7, IntoFormal
<1> QED
  BY <1>2, <1>3, <1>5, <1>6, <1>7 DEF AllFit

(* Two best functions are the same.                                        *)
LEMMA OneBest ==
    ASSUME NEW op \in DOMAIN Symbol, NEW args \in Seq(AllTypes), Len(args) = Arity(op),
           NEW f \in Best(Declared(Symbol[op]), args),
           NEW g \in Best(Declared(Symbol[op]), args)
    PROVE  f = g
<1> DEFINE n == Arity(op)
<1>1. n \in {1, 2} /\ 1 \in 1..n /\ args[1] \in AllTypes
  <2>1. n \in {1, 2}
    BY ArityIs
  <2> QED
    BY <2>1
<1>2. PICK t \in Formals :
              /\ f = BuiltIn(n, t)
              /\ \A i \in 1..n : args[i] = t \/ IsAssignableTo(args[i], t)
              /\ t \in Numbers =>
                   /\ \E i \in 1..n : args[i] = t
                   /\ \A i \in 1..n : /\ args[i] \in Numbers
                                      /\ Rank[args[i].primitive] <= Rank[t.primitive]
  BY BestShape DEF AllFit, OneExact
<1>3. PICK u \in Formals :
              /\ g = BuiltIn(n, u)
              /\ \A i \in 1..n : args[i] = u \/ IsAssignableTo(args[i], u)
              /\ u \in Numbers =>
                   /\ \E i \in 1..n : args[i] = u
                   /\ \A i \in 1..n : /\ args[i] \in Numbers
                                      /\ Rank[args[i].primitive] <= Rank[u.primitive]
  BY BestShape DEF AllFit, OneExact
<1> HIDE DEF n
<1>4. CASE t \in Numbers /\ u \in Numbers
  <2>1. Rank[t.primitive] <= Rank[u.primitive] /\ Rank[u.primitive] <= Rank[t.primitive]
    BY <1>2, <1>3, <1>4
  <2>2. t = u
    BY <1>4, <2>1, Ranks DEF Numbers
  <2> QED
    BY <1>2, <1>3, <2>2
<1>5. CASE ~(t \in Numbers /\ u \in Numbers)
  <2>1. args[1] = t \/ IsAssignableTo(args[1], t)
    BY <1>1, <1>2
  <2>2. args[1] = u \/ IsAssignableTo(args[1], u)
    BY <1>1, <1>3
  <2>3. /\ t \in Numbers => args[1] \in Numbers
        /\ t = Boolean => args[1] = Boolean
        /\ t = Reference => args[1] \in {Nil, Reference} \/ args[1].category = "CLASS"
    BY <1>1, <2>1, IntoFormal
  <2>4. /\ u \in Numbers => args[1] \in Numbers
        /\ u = Boolean => args[1] = Boolean
        /\ u = Reference => args[1] \in {Nil, Reference} \/ args[1].category = "CLASS"
    BY <1>1, <2>2, IntoFormal
  <2>5. /\ t \in Numbers \cup {Boolean, Reference}
        /\ u \in Numbers \cup {Boolean, Reference}
    BY DEF Formals
  <2>6. ~(args[1] \in Numbers /\ (args[1] \in {Nil, Reference} \/ args[1].category = "CLASS"))
    BY Distinct, Categories DEF Numbers
  <2>7. /\ Boolean \notin Numbers
        /\ ~(args[1] = Boolean /\ (args[1] \in {Nil, Reference} \/ args[1].category = "CLASS"))
    BY Distinct, Categories DEF Numbers
  <2>8. t = u
    BY <1>5, <2>3, <2>4, <2>5, <2>6, <2>7
  <2> QED
    BY <1>2, <1>3, <2>8
<1> QED
  BY <1>4, <1>5

-----------------------------------------------------------------------------
(* What casts and instructions make of values of the right type.           *)
LEMMA LLVMTypes ==
    /\ LLVMType(Boolean) = <<"i1">> /\ LLVMType(Int8) = <<"i8">>
    /\ LLVMType(Int32) = <<"i32">> /\ LLVMType(Float64) = <<"double">>
    /\ LLVMType(Reference) = <<"i32">> /\ LLVMType(Nil) = <<"i32">>
<1>1. \A t \in Numbers \cup {Boolean, Nil, Reference} : t # Void /\ t # String /\ t.category # "ARRAY"
  <2>1. Void.primitive = "VOID" /\ Void.category = "PRIMITIVE" /\ String.category = "ARRAY"
    BY DEF Void, Primitive, String, Array
  <2>2. \A t \in Numbers \cup {Boolean, Nil} : t.primitive # "VOID"
    BY DEF Numbers, Int8, Int32, Float64, Boolean, Nil, Primitive
  <2> QED
    BY <2>1, <2>2, Categories
<1> QED
  BY <1>1, Distinct DEF LLVMType, Numbers

LEMMA Values ==
    ASSUME NEW t
    PROVE  LLVMType(t) # NoValue /\ LLVMType(t) # IllTyped
  BY DEF LLVMType, Pointer, NoValue, IllTyped

LEMMA CastFits ==
    ASSUME NEW s \in AllTypes, NEW t \in AllTypes, s = t \/ IsAssignableTo(s, t)
    PROVE  Cast(LLVMType(s), s, t) = LLVMType(t)
<1>1. CASE s = t
  BY <1>1 DEF Cast, NeedsInstruction
<1>2. CASE s # t /\ s.category = "PRIMITIVE" /\ t.category = "PRIMITIVE"
  <2>1. s \in Numbers \cup {Boolean, Nil, Void} /\ t \in Numbers \cup {Boolean, Nil, Void}
    BY <1>2, Primitives
  <2>2. Widens(s.primitive, t.primitive)
    BY <1>2, Categories DEF IsAssignableTo
  <2>3. Rank["INT8"] = 0 /\ Rank[Void.primitive] = -2
    BY DEF Void, Primitive, Rank
  <2>4. s \in Numbers /\ t \in Numbers
    BY <2>1, <2>2, <2>3, Ranks DEF Widens
  <2> QED
    BY <1>2, <2>4, Values, Distinct DEF Cast, NeedsInstruction, Numbers
<1>3. CASE s # t /\ ~(s.category = "PRIMITIVE" /\ t.category = "PRIMITIVE")
  <2>1. \/ s = Nil /\ t.category # "PRIMITIVE"
        \/ s.category = "CLASS" /\ t = Reference
    BY <1>3, Categories DEF IsAssignableTo, Nil
  <2>2. CASE s = Nil /\ t = Reference
    BY <2>2, LLVMTypes DEF Cast, NeedsInstruction
  <2>3. CASE ~(s = Nil /\ t = Reference)
    BY <1>3, <2>1, <2>3, Values DEF Cast, NeedsInstruction
  <2> QED
    BY <2>2, <2>3
<1> QED
  BY <1>1, <1>2, <1>3

Arithmetic == {"PLUS", "SUB", "MUL", "DIV", "MOD"}
Comparing == {"EQ", "NEQ", "LT", "GT", "LEQ", "GEQ"}
Logical == {"LOR", "LAND"}

LEMMA Symbols ==
    /\ DOMAIN Symbol = Arithmetic \cup Comparing \cup Logical \cup {"NOT", "MINUS", "TILDE", "HASH"}
    /\ \A op \in Arithmetic : Symbol[op] \in {"+", "-", "*", "/", "%"}
    /\ \A op \in Comparing : Symbol[op] \in Comparison
    /\ \A op \in {"LT", "GT", "LEQ", "GEQ"} : Symbol[op] \notin Equality
    /\ \A op \in Logical : Symbol[op] \in {"or", "and"}
    /\ Symbol["NOT"] = "not" /\ Symbol["MINUS"] = "-"
    /\ Symbol["TILDE"] = "~" /\ Symbol["HASH"] = "#"
  BY DEF Symbol, Arithmetic, Comparing, Logical, Comparison, Equality

(* The operand type of each operator, once it is resolved.                 *)
LEMMA OperandType ==
    ASSUME NEW op \in DOMAIN Symbol, NEW t \in Formals,
           BuiltIn(Arity(op), t) \in Declared(Symbol[op])
    PROVE  \/ op \in Arithmetic /\ t \in Numbers
           \/ op \in Comparing /\ t \in Numbers
           \/ op \in {"EQ", "NEQ"} /\ t \in {Boolean, Reference}
           \/ op \in Logical /\ t = Boolean
           \/ op = "NOT" /\ t = Boolean
           \/ op \in {"MINUS", "TILDE"} /\ t \in Numbers
<1>1. Arity(op) \in {1, 2} /\ DeclaredFor(Symbol[op], Arity(op), t)
  BY ArityIs, DeclaredIff
<1>2. CASE op \in {"NOT", "MINUS", "TILDE", "HASH"}
  <2>1. Arity(op) = 1
    BY <1>2 DEF Arity
  <2> QED
    BY <1>1, <1>2, <2>1, Symbols DEF DeclaredFor
<1>3. CASE op \notin {"NOT", "MINUS", "TILDE", "HASH"}
  <2>1. Arity(op) = 2 /\ op \in Arithmetic \cup Comparing \cup Logical
    BY <1>3, Symbols DEF Arity
  <2>2. CASE op \in Arithmetic
    BY <1>1, <2>1, <2>2, Symbols DEF DeclaredFor, Equality
  <2>3. CASE op \in Comparing
    BY <1>1, <2>1, <2>3, Symbols DEF DeclaredFor, Comparison, Equality, Comparing
  <2>4. CASE op \in Logical
    BY <1>1, <2>1, <2>4, Symbols DEF DeclaredFor, Comparison, Equality
  <2> QED
    BY <2>1, <2>2, <2>3, <2>4
<1> QED
  BY <1>2, <1>3

(* An operator on operands of its type gives a value of its type, but for  *)
(* those that have no instruction, which give none.                        *)
LEMMA ResultFits ==
    ASSUME NEW op \in DOMAIN Symbol, NEW t \in Formals,
           BuiltIn(Arity(op), t) \in Declared(Symbol[op]),
           NEW node, node.op = op, node.to[1] = t,
           node.type = IF Symbol[op] \in Comparison THEN Boolean ELSE t,
           NEW v, \A i \in 1..Arity(op) : v[i] = LLVMType(t),
           ~Missing(node), ~Misfit(node)
    PROVE  Result(node, v) = LLVMType(node.type)
<1>1. LLVMType(t) # NoValue /\ LLVMType(t) # IllTyped
  BY Values
<1>2. CASE op \in {"NOT", "MINUS", "TILDE", "HASH"}
  <2>1. Arity(op) = 1 /\ v[1] = LLVMType(t)
    BY <1>2 DEF Arity
  <2>2. Symbol[op] \notin Comparison
    BY <1>2, Symbols DEF Comparison, Equality
  <2>3. Result(node, v) = Unary(op, t, LLVMType(t)) /\ node.type = t
    BY <2>1, <2>2 DEF Result
  <2>4. \/ op = "NOT" /\ t = Boolean
        \/ op = "MINUS" /\ t \in {Int32, Float64}
        \/ op = "TILDE" /\ t \in {Int8, Int32}
    BY <1>2, OperandType DEF Misfit, Numbers, Arithmetic, Comparing, Logical
  <2> QED
    BY <2>3, <2>4, LLVMTypes, Distinct DEF Unary
<1>3. CASE op \notin {"NOT", "MINUS", "TILDE", "HASH"}
  <2>1. Arity(op) = 2 /\ v[1] = LLVMType(t) /\ v[2] = LLVMType(t)
    BY <1>3 DEF Arity
  <2>2. Result(node, v) = Binary(op, t, LLVMType(t), LLVMType(t))
    BY <2>1 DEF Result
  <2>3. HasInstruction(op, t)
    BY <1>3, OperandType, Distinct, Categories
       DEF Missing, HasInstruction, Arithmetic, Comparing, Logical, Numbers
  <2> QED
    BY <1>1, <2>2, <2>3, LLVMTypes DEF Binary
<1> QED
  BY <1>2, <1>3

(* An operator without an instruction has no value, and a binary operator  *)
(* has none if one of its operands has none.                               *)
LEMMA NoResult ==
    ASSUME NEW op \in DOMAIN Symbol, NEW node, node.op = op, NEW v,
           Arity(op) = 2, Missing(node) \/ NoValue \in {v[1], v[2]}
    PROVE  Result(node, v) = NoValue
<1>1. Result(node, v) = Binary(op, node.to[1], v[1], v[2])
  BY DEF Result
<1>2. Missing(node) => ~HasInstruction(op, node.to[1])
  BY Distinct DEF Missing, HasInstruction, Numbers
<1> QED
  BY <1>1, <1>2 DEF Binary

LEMMA MissingIsBinary ==
    ASSUME NEW node, Missing(node)
    PROVE  Arity(node.op) = 2
  BY DEF Missing, Arity

-----------------------------------------------------------------------------
(* The stacks of types between the nodes, as the checker left them: the    *)
(* generator meets the same ones.                                          *)
Takes(node, s, t) ==
    \/ /\ node.node = "operand"
       /\ t = Append(s, node.type)
    \/ /\ node.node = "operator"
       /\ node.op \in DOMAIN Symbol
       /\ Len(s) >= Arity(node.op)
       /\ node.from = LastOf(s, Arity(node.op))
       /\ \E f \in Best(Declared(Symbol[node.op]), node.from) :
            /\ node.to = Coerced(node.from, f)
            /\ node.type = ResultType(node.op, f)
       /\ t = Append(Pop(s, Arity(node.op)), node.type)
    \/ /\ node.node = "assign"
       /\ Len(s) = 1 /\ node.from = s
       /\ Len(node.to) = 1 /\ node.to[1] \in AllTypes
       /\ s[1] = node.to[1] \/ IsAssignableTo(s[1], node.to[1])
       /\ t = <<node.to[1]>>

Stacks(h) ==
    /\ h \in [0..Len(code) -> Seq(AllTypes)]
    /\ h[0] = <<>>
    /\ \A k \in 1..Len(code) : Takes(code[k], h[k - 1], h[k])

Checking(h) ==
    phase = "checking" =>
        /\ static = h[Len(code)]
        /\ next = 1
        /\ \A k \in 1..Len(code) : code[k].node # "assign"

Generating(h) ==
    phase \in {"generating", "done", "misused"} =>
        /\ Len(h[Len(code)]) = 1
        /\ \A k \in 1..Len(code) : code[k].node = "assign" => k = Len(code)
        /\ phase = "done" => next = Len(code) + 1

HaveTypes(vs, s) == Len(vs) = Len(s) /\ \A i \in 1..Len(vs) : vs[i].type = s[i]

SameTypes(h) == HaveTypes(values, h[next - 1])

Shape ==
    /\ \E S : code \in Seq(S)
    /\ \E S : values \in Seq(S)
    /\ next \in 1..(Len(code) + 1)
    /\ \E h : Stacks(h) /\ Checking(h) /\ Generating(h) /\ SameTypes(h)

(* An operator without an instruction leaves a missing value behind, which *)
(* no assignment takes.                                                    *)
MissingStays ==
    (\E i \in Executed : Missing(code[i])) =>
        /\ \E i \in 1..Len(values) : values[i].value = NoValue
        /\ \A k \in 1..Len(code) : k < next => code[k].node # "assign"

Phases == {"checking", "undeclared", "unassignable", "generating", "done", "misused"}

IInv == phase \in Phases /\ Shape /\ ValuesHaveTheirTypes /\ MissingStays

-----------------------------------------------------------------------------
(* Sequences as stacks.                                                    *)
LEMMA Stack ==
    ASSUME NEW S, NEW s \in Seq(S), NEW n \in Nat, n <= Len(s)
    PROVE  /\ Pop(s, n) \in Seq(S) /\ Len(Pop(s, n)) = Len(s) - n
           /\ \A i \in 1..(Len(s) - n) : Pop(s, n)[i] = s[i]
           /\ LastOf(s, n) \in Seq(S) /\ Len(LastOf(s, n)) = n
           /\ \A i \in 1..n : LastOf(s, n)[i] = s[Len(s) - n + i]
  BY DEF Pop, LastOf

LEMMA Push ==
    ASSUME NEW S, NEW s \in Seq(S), NEW e
    PROVE  /\ Append(s, e) \in Seq(S \cup {e}) /\ Len(Append(s, e)) = Len(s) + 1
           /\ \A i \in 1..Len(s) : Append(s, e)[i] = s[i]
           /\ Append(s, e)[Len(s) + 1] = e
           /\ e \in S => Append(s, e) \in Seq(S)
  OBVIOUS

(* What checking an expression's next node does to the stacks.             *)
LEMMA NodeStep ==
    ASSUME Shape, NEW h, Stacks(h), NEW node, NEW t \in Seq(AllTypes),
           Takes(node, h[Len(code)], t), code' = Append(code, node)
    PROVE  \E g : /\ Stacks(g)'
                  /\ g[Len(code)'] = t
                  /\ \A k \in 0..Len(code) : g[k] = h[k]
<1> DEFINE n == Len(code)
<1>1. PICK S : code \in Seq(S)
  BY DEF Shape
<1>2. /\ n \in Nat /\ Len(code') = n + 1 /\ code'[n + 1] = node
      /\ \A k \in 1..n : code'[k] = code[k]
  BY <1>1, Push
<1>3. /\ h \in [0..n -> Seq(AllTypes)] /\ h[0] = <<>>
      /\ \A k \in 1..n : Takes(code[k], h[k - 1], h[k])
  BY DEF Stacks
<1>4. PICK g \in [0..(n + 1) -> Seq(AllTypes)] : g[n + 1] = t /\ \A k \in 0..n : g[k] = h[k]
  <2> DEFINE e == [k \in 0..(n + 1) |-> IF k = n + 1 THEN t ELSE h[k]]
  <2> HIDE DEF n
  <2>1. e \in [0..(n + 1) -> Seq(AllTypes)] /\ e[n + 1] = t /\ \A k \in 0..n : e[k] = h[k]
    BY <1>2, <1>3
  <2> QED
    BY <2>1
<1>5. ASSUME NEW k \in 1..(n + 1) PROVE Takes(code'[k], g[k - 1], g[k])
  <2> HIDE DEF n
  <2>1. CASE k = n + 1
    BY <1>2, <1>4, <2>1 DEF n
  <2>2. CASE k \in 1..n
    BY <1>2, <1>3, <1>4, <2>2
  <2> QED
    BY <1>2, <2>1, <2>2
<1>6. Stacks(g)'
  BY <1>2, <1>3, <1>4, <1>5 DEF Stacks
<1> QED
  BY <1>2, <1>4, <1>6

-----------------------------------------------------------------------------
(* While the checker runs nothing is executed.                             *)
LEMMA CheckingKeepsValues ==
    ASSUME IInv, phase = "checking", UNCHANGED <<next, values>>,
           phase' # "misused", \E S : code' \in Seq(S)
    PROVE  (ValuesHaveTheirTypes /\ MissingStays)'
<1>1. next = 1
  BY DEF IInv, Shape, Checking
<1>2. PICK S, T : code \in Seq(S) /\ code' \in Seq(T)
  BY DEF IInv, Shape
<1>3. DOMAIN code \subseteq Nat \ {0} /\ DOMAIN code' \subseteq Nat \ {0}
  BY <1>2
<1>4. Executed = {} /\ Executed' = {}
  BY <1>1, <1>3 DEF Executed, OperatorNodes
<1>5. \A i \in DOMAIN values : values[i].value = LLVMType(values[i].type)
  BY <1>4 DEF IInv, ValuesHaveTheirTypes
<1> QED
  BY <1>4, <1>5 DEF ValuesHaveTheirTypes, MissingStays

(* A node that the checker adds.                                           *)
LEMMA CheckedNode ==
    ASSUME IInv, NEW h, Stacks(h), Checking(h), SameTypes(h), phase = "checking",
           NEW node, NEW t \in Seq(AllTypes), Takes(node, static, t),
           code' = Append(code, node), UNCHANGED <<next, values>>,
           \/ phase' = "checking" /\ static' = t /\ node.node # "assign"
           \/ phase' = "generating" /\ Len(t) = 1
    PROVE  IInv'
<1>1. static = h[Len(code)] /\ next = 1 /\ \A k \in 1..Len(code) : code[k].node # "assign"
  BY DEF Checking
<1>2. PICK g : Stacks(g)' /\ g[Len(code)'] = t /\ \A k \in 0..Len(code) : g[k] = h[k]
  BY <1>1, NodeStep DEF IInv
<1>3. PICK S : code \in Seq(S)
  BY DEF IInv, Shape
<1>4. /\ code' \in Seq(S \cup {node}) /\ Len(code) \in Nat /\ Len(code') = Len(code) + 1
      /\ code'[Len(code')] = node /\ \A k \in 1..Len(code) : code'[k] = code[k]
  BY <1>3, Push
<1>5. Checking(g)'
  <2>1. ASSUME phase' = "checking", NEW k \in 1..Len(code') PROVE code'[k].node # "assign"
    BY <1>1, <1>4, <2>1
  <2> QED
    BY <1>1, <1>2, <2>1 DEF Checking
<1>6. Generating(g)'
  <2>1. ASSUME NEW k \in 1..Len(code'), code'[k].node = "assign", k # Len(code') PROVE FALSE
    BY <1>1, <1>4, <2>1
  <2> QED
    BY <1>2, <2>1 DEF Generating
<1>7. SameTypes(g)'
  BY <1>1, <1>2, <1>4 DEF SameTypes, HaveTypes
<1>8. Shape'
  BY <1>1, <1>2, <1>4, <1>5, <1>6, <1>7 DEF Shape, IInv
<1>9. (ValuesHaveTheirTypes /\ MissingStays)'
  BY <1>4, CheckingKeepsValues
<1> QED
  BY <1>8, <1>9 DEF IInv, Phases

(* A step of the checker that adds no node.                                *)
LEMMA CheckedNone ==
    ASSUME IInv, NEW h, Stacks(h), Checking(h), SameTypes(h), phase = "checking",
           UNCHANGED <<code, next, values>>,
           \/ phase' \in {"undeclared", "unassignable"}
           \/ phase' = "generating" /\ Len(static) = 1
    PROVE  IInv'
<1>1. Stacks(h)' /\ SameTypes(h)'
  BY DEF Stacks, SameTypes, HaveTypes
<1>2. Checking(h)' /\ Generating(h)'
  BY DEF Checking, Generating
<1>3. Shape'
  BY <1>1, <1>2 DEF Shape, IInv
<1>4. (ValuesHaveTheirTypes /\ MissingStays)'
  BY CheckingKeepsValues DEF IInv, Shape
<1> QED
  BY <1>3, <1>4 DEF IInv, Phases

LEMMA StaticIs ==
    ASSUME IInv, phase = "checking"
    PROVE  \E h : /\ Stacks(h) /\ Checking(h) /\ SameTypes(h)
                  /\ static = h[Len(code)] /\ static \in Seq(AllTypes)
                  /\ next = 1
<1>1. PICK h : Stacks(h) /\ Checking(h) /\ SameTypes(h)
  BY DEF IInv, Shape
<1>2. static = h[Len(code)] /\ next = 1
  BY <1>1 DEF Checking
<1>3. Len(code) \in Nat
  BY DEF IInv, Shape
<1>4. h[Len(code)] \in Seq(AllTypes)
  BY <1>1, <1>3 DEF Stacks
<1> QED
  BY <1>1, <1>2, <1>4

LEMMA CheckOperandKeeps ==
    ASSUME IInv, NEW t \in Operands, CheckOperand(t)
    PROVE  IInv'
<1> DEFINE node == [node |-> "operand", type |-> t]
<1>1. phase = "checking"
  BY DEF CheckOperand
<1>2. PICK h : /\ Stacks(h) /\ Checking(h) /\ SameTypes(h)
               /\ static = h[Len(code)] /\ static \in Seq(AllTypes)
  BY <1>1, StaticIs
<1>3. t \in AllTypes
  BY OperatorsAssumption DEF AllTypes
<1>4. Append(static, t) \in Seq(AllTypes)
  BY <1>2, <1>3
<1>5. Takes(node, static, Append(static, t)) /\ node.node # "assign"
  BY DEF Takes
<1>6. /\ code' = Append(code, node) /\ static' = Append(static, t)
      /\ phase' = "checking" /\ UNCHANGED <<next, values>>
  BY <1>1 DEF CheckOperand
<1> HIDE DEF node
<1> QED
  BY <1>1, <1>2, <1>4, <1>5, <1>6, CheckedNode

(* The operands on the stack, and the function they are coerced for.       *)
LEMMA Resolved ==
    ASSUME NEW op \in DOMAIN Symbol, NEW s \in Seq(AllTypes), Len(s) >= Arity(op)
    PROVE  /\ LastOf(s, Arity(op)) \in Seq(AllTypes)
           /\ Len(LastOf(s, Arity(op))) = Arity(op)
           /\ \A f, g \in Best(Declared(Symbol[op]), LastOf(s, Arity(op))) : f = g
           /\ \A f \in Best(Declared(Symbol[op]), LastOf(s, Arity(op))) :
                ResultType(op, f) \in Formals
<1> DEFINE n == Arity(op)
           args == LastOf(s, n)
<1>1. n \in {1, 2}
  BY ArityIs
<1>2. args \in Seq(AllTypes) /\ Len(args) = n
  BY <1>1, Stack
<1>3. ASSUME NEW f \in Best(Declared(Symbol[op]), args)
      PROVE  ResultType(op, f) \in Formals
  <2>1. PICK t \in Formals : f = BuiltIn(n, t)
    BY <1>2, BestShape
  <2>2. f.formals[1] = t
    BY <1>1, <2>1 DEF BuiltIn
  <2> QED
    BY <2>2 DEF ResultType, Formals
<1>4. \A f, g \in Best(Declared(Symbol[op]), args) : f = g
  BY <1>2, OneBest
<1> QED
  BY <1>2, <1>3, <1>4

LEMMA CheckOperatorKeeps ==
    ASSUME IInv, NEW op \in DOMAIN Symbol, CheckOperator(op)
    PROVE  IInv'
<1> DEFINE n == Arity(op)
           args == LastOf(static, n)
           best == Best(Declared(Symbol[op]), args)
<1>1. phase = "checking" /\ Len(static) >= n /\ UNCHANGED <<next, values>>
  BY DEF CheckOperator
<1>2. PICK h : /\ Stacks(h) /\ Checking(h) /\ SameTypes(h)
               /\ static = h[Len(code)] /\ static \in Seq(AllTypes)
  BY <1>1, StaticIs
<1>3. /\ args \in Seq(AllTypes) /\ Len(args) = n
      /\ \A f, g \in best : f = g
      /\ \A f \in best : ResultType(op, f) \in Formals
  BY <1>1, <1>2, Resolved
<1>4. CASE /\ Cardinality(best) # 1
           /\ phase' = IF best = {} THEN "undeclared" ELSE "ambiguous"
           /\ UNCHANGED <<code, static>>
  <2>1. best = {}
    <3>1. ASSUME NEW f \in best PROVE FALSE
      <4>1. best = {f}
        BY <1>3, <3>1
      <4> HIDE DEF best
      <4>2. Cardinality(best) = 1
        BY <4>1, FS_Singleton
      <4> QED
        BY <1>4, <4>2
    <3> QED
      BY <3>1
  <2>2. phase' = "undeclared"
    BY <1>4, <2>1
  <2> QED
    BY <1>1, <1>2, <1>4, <2>2, CheckedNone
<1>5. CASE \E f \in best :
                /\ best = {f}
                /\ code' = Append(code, [node |-> "operator", op |-> op, from |-> args,
                                         to |-> Coerced(args, f), type |-> ResultType(op, f)])
                /\ static' = Append(Pop(static, n), ResultType(op, f))
                /\ UNCHANGED phase
  <2>1. PICK f \in best :
                /\ code' = Append(code, [node |-> "operator", op |-> op, from |-> args,
                                         to |-> Coerced(args, f), type |-> ResultType(op, f)])
                /\ static' = Append(Pop(static, n), ResultType(op, f))
                /\ UNCHANGED phase
    BY <1>5
  <2> DEFINE node == [node |-> "operator", op |-> op, from |-> args,
                      to |-> Coerced(args, f), type |-> ResultType(op, f)]
             t == Append(Pop(static, n), ResultType(op, f))
  <2>2. Pop(static, n) \in Seq(AllTypes)
    <3>1. n \in Nat
      BY ArityIs
    <3> QED
      BY <1>1, <1>2, <3>1, Stack
  <2>3. t \in Seq(AllTypes)
    <3>1. ResultType(op, f) \in AllTypes
      BY <1>3 DEF AllTypes
    <3> QED
      BY <2>2, <3>1
  <2>4. Takes(node, static, t)
    BY <1>1 DEF Takes
  <2>5. node.node # "assign"
    OBVIOUS
  <2>6. code' = Append(code, node) /\ static' = t /\ phase' = "checking"
    BY <1>1, <2>1
  <2> HIDE DEF node, t
  <2> QED
    BY <1>1, <1>2, <2>3, <2>4, <2>5, <2>6, CheckedNode
<1> QED
  BY <1>4, <1>5 DEF CheckOperator

LEMMA CheckAssignKeeps ==
    ASSUME IInv, NEW t \in Operands, CheckAssign(t)
    PROVE  IInv'
<1>1. phase = "checking" /\ Len(static) = 1 /\ UNCHANGED <<next, values>>
  BY DEF CheckAssign
<1>2. PICK h : /\ Stacks(h) /\ Checking(h) /\ SameTypes(h)
               /\ static = h[Len(code)] /\ static \in Seq(AllTypes)
  BY <1>1, StaticIs
<1>3. CASE phase' = "unassignable" /\ UNCHANGED <<code, static>>
  BY <1>1, <1>2, <1>3, CheckedNone
<1>4. CASE /\ static[1] = t \/ IsAssignableTo(static[1], t)
           /\ code' = Append(code, [node |-> "assign", from |-> static, to |-> <<t>>])
           /\ phase' = "generating"
  <2> DEFINE node == [node |-> "assign", from |-> static, to |-> <<t>>]
             r == <<t>>
  <2>1. t \in AllTypes
    BY OperatorsAssumption DEF AllTypes
  <2>2. r \in Seq(AllTypes) /\ Len(r) = 1
    BY <2>1
  <2>3. Takes(node, static, r)
    BY <1>1, <1>4, <2>1 DEF Takes
  <2> HIDE DEF node, r
  <2> QED
    BY <1>1, <1>2, <1>4, <2>2, <2>3, CheckedNode DEF node
<1> QED
  BY <1>3, <1>4 DEF CheckAssign

LEMMA CheckDiscardKeeps ==
    ASSUME IInv, CheckDiscard
    PROVE  IInv'
<1>1. phase = "checking" /\ Len(static) = 1 /\ UNCHANGED <<code, next, values>> /\ phase' = "generating"
  BY DEF CheckDiscard
<1>2. PICK h : /\ Stacks(h) /\ Checking(h) /\ SameTypes(h)
  BY <1>1, StaticIs
<1> QED
  BY <1>1, <1>2, CheckedNone

-----------------------------------------------------------------------------
(* The node that the generator visits.                                     *)
LEMMA Visited ==
    ASSUME IInv, NEW kind, Visit(kind)
    PROVE  \E h : /\ Stacks(h) /\ Generating(h) /\ SameTypes(h)
                  /\ Takes(code[next], h[next - 1], h[next])
                  /\ h[next - 1] \in Seq(AllTypes)
<1>1. phase = "generating" /\ next <= Len(code)
  BY DEF Visit
<1>2. PICK h : Stacks(h) /\ Generating(h) /\ SameTypes(h)
  BY DEF IInv, Shape
<1>3. next \in 1..Len(code) /\ Len(code) \in Nat
  BY <1>1 DEF IInv, Shape
<1>4. next - 1 \in 0..Len(code)
  BY <1>3
<1>5. Takes(code[next], h[next - 1], h[next]) /\ h[next - 1] \in Seq(AllTypes)
  BY <1>2, <1>3, <1>4 DEF Stacks
<1> QED
  BY <1>2, <1>5

LEMMA GeneratedShape ==
    ASSUME IInv, NEW h, Stacks(h), Generating(h), phase = "generating", next <= Len(code),
           UNCHANGED <<phase, code, static>>, next' = next + 1,
           \E S : values' \in Seq(S), Len(values') = Len(h[next]),
           \A i \in 1..Len(values') : values'[i].type = h[next][i]
    PROVE  Shape'
<1>1. next \in 1..Len(code) /\ Len(code) \in Nat /\ next' - 1 = next
  BY DEF IInv, Shape
<1>2. Stacks(h)' /\ Checking(h)' /\ Generating(h)'
  BY DEF Stacks, Checking, Generating
<1>3. SameTypes(h)'
  BY <1>1 DEF SameTypes, HaveTypes
<1> QED
  BY <1>1, <1>2, <1>3 DEF Shape, IInv

LEMMA ExecutedNext ==
    ASSUME IInv, next <= Len(code), code' = code, next' = next + 1
    PROVE  /\ Executed \subseteq Executed'
           /\ Executed' \subseteq Executed \cup {next}
           /\ next \in Executed' <=> code[next].node = "operator"
<1>1. next \in 1..Len(code) /\ DOMAIN code = 1..Len(code) /\ Len(code) \in Nat
  BY DEF IInv, Shape
<1> QED
  BY <1>1 DEF Executed, OperatorNodes

LEMMA GenOperandKeeps ==
    ASSUME IInv, GenOperand
    PROVE  IInv'
<1> DEFINE t == code[next].type
           e == [type |-> t, value |-> LLVMType(t)]
<1>1. /\ Visit("operand") /\ phase = "generating" /\ next <= Len(code)
      /\ code[next].node = "operand"
      /\ values' = Append(values, e) /\ next' = next + 1 /\ UNCHANGED <<phase, code, static>>
  BY DEF GenOperand, Visit
<1>2. PICK h : /\ Stacks(h) /\ Generating(h) /\ SameTypes(h)
               /\ Takes(code[next], h[next - 1], h[next])
               /\ h[next - 1] \in Seq(AllTypes)
  BY <1>1, Visited
<1>3. h[next] = Append(h[next - 1], t)
  BY <1>1, <1>2 DEF Takes
<1>4. PICK S : values \in Seq(S)
  BY DEF IInv, Shape
<1>5. e.type = t /\ e.value = LLVMType(e.type)
  OBVIOUS
<1> HIDE DEF e
<1>6. /\ values' \in Seq(S \cup {e}) /\ Len(values) \in Nat /\ Len(values') = Len(values) + 1
      /\ \A i \in 1..Len(values) : values'[i] = values[i]
      /\ values'[Len(values) + 1] = e
  BY <1>1, <1>4, Push
<1>7. Len(values) = Len(h[next - 1]) /\ \A i \in 1..Len(values) : values[i].type = h[next - 1][i]
  BY <1>2 DEF SameTypes, HaveTypes
<1> HIDE DEF t
<1>8. /\ Len(values') = Len(h[next])
      /\ \A i \in 1..Len(values') : values'[i].type = h[next][i]
  BY <1>2, <1>3, <1>5, <1>6, <1>7
<1>9. Shape'
  BY <1>1, <1>2, <1>6, <1>8, GeneratedShape
<1>10. Executed' = Executed
  BY <1>1, ExecutedNext
<1>11. ValuesHaveTheirTypes'
  <2> SUFFICES ASSUME \A i \in Executed : ~Missing(code[i]) /\ ~Misfit(code[i])
               PROVE  \A i \in DOMAIN values' : values'[i].value = LLVMType(values'[i].type)
    BY <1>1, <1>10 DEF ValuesHaveTheirTypes
  <2>1. \A i \in DOMAIN values : values[i].value = LLVMType(values[i].type)
    BY DEF IInv, ValuesHaveTheirTypes
  <2>2. DOMAIN values = 1..Len(values) /\ DOMAIN values' = 1..(Len(values) + 1)
    BY <1>4, <1>6
  <2> QED
    BY <1>5, <1>6, <2>1, <2>2
<1>12. MissingStays'
  <2> SUFFICES ASSUME \E i \in Executed : Missing(code[i])
               PROVE  /\ \E i \in 1..Len(values') : values'[i].value = NoValue
                      /\ \A k \in 1..Len(code) : k < next + 1 => code[k].node # "assign"
    BY <1>1, <1>10 DEF MissingStays
  <2>1. /\ \E i \in 1..Len(values) : values[i].value = NoValue
        /\ \A k \in 1..Len(code) : k < next => code[k].node # "assign"
    BY DEF IInv, MissingStays
  <2>2. next \in Int /\ code[next].node # "assign"
    BY <1>1 DEF IInv, Shape
  <2> QED
    BY <1>6, <2>1, <2>2
<1> QED
  BY <1>1, <1>9, <1>11, <1>12 DEF IInv

(* A null value handed to LLVM, which only a missing or unfit value leads  *)
(* to.                                                                     *)
ExecutedFits == \A i \in Executed : ~Missing(code[i]) /\ ~Misfit(code[i])

LEMMA MisuseKeeps ==
    ASSUME IInv, phase = "generating", Misuse, ~ExecutedFits
    PROVE  IInv'
<1>1. phase' = "misused" /\ UNCHANGED <<code, static, next, values>>
  BY DEF Misuse
<1>2. PICK h : Stacks(h) /\ Generating(h) /\ SameTypes(h)
  BY DEF IInv, Shape
<1>3. Stacks(h)' /\ Checking(h)' /\ Generating(h)' /\ SameTypes(h)'
  BY <1>1, <1>2 DEF Stacks, Checking, Generating, SameTypes, HaveTypes
<1>4. Shape'
  BY <1>1, <1>3 DEF Shape, IInv
<1>5. Executed' = Executed
  BY <1>1 DEF Executed, OperatorNodes
<1>6. (ValuesHaveTheirTypes /\ MissingStays)'
  BY <1>1, <1>5 DEF ValuesHaveTheirTypes, MissingStays, IInv, ExecutedFits
<1> QED
  BY <1>1, <1>4, <1>6 DEF IInv, Phases

(* The node of an operator: the function it was resolved to and the stack  *)
(* it takes its operands from.                                             *)
OperatorNode(node, t, s, r) ==
    /\ node.op \in DOMAIN Symbol
    /\ s \in Seq(AllTypes)
    /\ Len(s) >= Arity(node.op)
    /\ node.from = LastOf(s, Arity(node.op))
    /\ r = Append(Pop(s, Arity(node.op)), node.type)
    /\ BuiltIn(Arity(node.op), t) \in Declared(Symbol[node.op])
    /\ node.type = IF Symbol[node.op] \in Comparison THEN Boolean ELSE t
    /\ \A i \in 1..Arity(node.op) :
         /\ node.from[i] \in AllTypes /\ node.to[i] = t
         /\ node.from[i] = t \/ IsAssignableTo(node.from[i], t)

LEMMA OperatorVisited ==
    ASSUME NEW node, node.node = "operator", NEW s \in Seq(AllTypes), NEW r, Takes(node, s, r)
    PROVE  \E t \in Formals : OperatorNode(node, t, s, r)
<1> DEFINE n == Arity(node.op)
           args == node.from
<1>1. /\ node.op \in DOMAIN Symbol /\ Len(s) >= n
      /\ args = LastOf(s, n) /\ r = Append(Pop(s, n), node.type)
  BY DEF Takes
<1>2. PICK f \in Best(Declared(Symbol[node.op]), args) :
        node.to = Coerced(args, f) /\ node.type = ResultType(node.op, f)
  BY DEF Takes
<1>3. n \in {1, 2}
  BY <1>1, ArityIs
<1>4. args \in Seq(AllTypes) /\ Len(args) = n
  <2> HIDE DEF n, args
  <2>1. n \in Nat /\ n <= Len(s)
    BY <1>1, <1>3
  <2> QED
    BY <1>1, <2>1, Stack
<1>5. PICK t \in Formals : /\ f = BuiltIn(n, t) /\ f \in Declared(Symbol[node.op])
                           /\ AllFit(n, args, t)
  BY <1>1, <1>2, <1>4, BestShape
<1>6. f.formals = [i \in 1..n |-> t] /\ f.formals[1] = t
  BY <1>3, <1>5 DEF BuiltIn
<1>7. DOMAIN args = 1..n /\ \A i \in 1..n : args[i] \in AllTypes
  BY <1>3, <1>4
<1>8. \A i \in 1..n : node.to[i] = t
  BY <1>2, <1>6, <1>7 DEF Coerced
<1>9. \A i \in 1..n : args[i] = t \/ IsAssignableTo(args[i], t)
  BY <1>5 DEF AllFit
<1>10. node.type = IF Symbol[node.op] \in Comparison THEN Boolean ELSE t
  BY <1>2, <1>6 DEF ResultType
<1> QED
  BY <1>1, <1>5, <1>7, <1>8, <1>9, <1>10 DEF OperatorNode

(* Operands of the right types are cast to values of the operator's.       *)
LEMMA OperandsFit ==
    ASSUME NEW node, NEW t \in Formals, NEW s, NEW r, OperatorNode(node, t, s, r),
           NEW operands, DOMAIN operands = 1..Arity(node.op),
           \A i \in 1..Arity(node.op) : operands[i].value = LLVMType(node.from[i])
    PROVE  /\ ~CastFails(operands, node)
           /\ \A i \in 1..Arity(node.op) : Casts(operands, node)[i] = LLVMType(t)
<1>1. ASSUME NEW i \in 1..Arity(node.op)
      PROVE  Cast(operands[i].value, node.from[i], node.to[i]) = LLVMType(t)
  <2>1. /\ node.from[i] \in AllTypes /\ node.to[i] = t /\ t \in AllTypes
        /\ node.from[i] = t \/ IsAssignableTo(node.from[i], t)
    BY DEF OperatorNode, AllTypes
  <2> QED
    BY <2>1, CastFits
<1>2. \A i \in 1..Arity(node.op) : operands[i].value # NoValue
  BY Values
<1> QED
  BY <1>1, <1>2 DEF CastFails, Casts

(* The operands are the values of the last expressions on the stack.       *)
AreOperands(operands, node, n) ==
    /\ n \in {1, 2} /\ n <= Len(values) /\ Len(values) \in Nat
    /\ DOMAIN operands = 1..n
    /\ \A i \in 1..n : /\ operands[i] = values[Len(values) - n + i]
                       /\ operands[i].type = node.from[i]

LEMMA OperandsOf ==
    ASSUME \E S : values \in Seq(S), NEW node, NEW t, NEW s, NEW r,
           OperatorNode(node, t, s, r),
           HaveTypes(values, s),
           NEW n \in Nat, n = Arity(node.op)
    PROVE  AreOperands(LastOf(values, n), node, n)
<1>1. /\ node.op \in DOMAIN Symbol /\ s \in Seq(AllTypes) /\ Len(s) >= n
      /\ node.from = LastOf(s, n)
  BY DEF OperatorNode
<1>2. n \in {1, 2} /\ n \in Nat /\ n <= Len(values) /\ Len(values) \in Nat
  BY <1>1, ArityIs DEF HaveTypes
<1>3. /\ Len(LastOf(values, n)) = n /\ DOMAIN LastOf(values, n) = 1..n
      /\ \A i \in 1..n : LastOf(values, n)[i] = values[Len(values) - n + i]
  <2>1. PICK S : values \in Seq(S)
    OBVIOUS
  <2>2. LastOf(values, n) \in Seq(S) /\ Len(LastOf(values, n)) = n
    BY <1>2, <2>1, Stack
  <2>3. \A i \in 1..n : LastOf(values, n)[i] = values[Len(values) - n + i]
    BY <1>2, <2>1, Stack
  <2> QED
    BY <2>2, <2>3
<1>4. \A i \in 1..n : LastOf(s, n)[i] = s[Len(s) - n + i]
  <2>1. s \in Seq(AllTypes) /\ n <= Len(s)
    BY <1>1, <1>2
  <2> QED
    BY <2>1, Stack
<1>5. \A i \in 1..n : Len(values) - n + i \in 1..Len(values)
  BY <1>2
<1> QED
  BY <1>1, <1>2, <1>3, <1>4, <1>5 DEF HaveTypes, AreOperands

LEMMA GenOperatorMisuse ==
    ASSUME IInv, Visit("operator"), NEW node, node = code[next],
           NEW operands, operands = LastOf(values, Arity(node.op)),
           NEW v, v = Casts(operands, node),
           CastFails(operands, node) \/ (Arity(node.op) = 1 /\ v[1] = NoValue)
    PROVE  ~ExecutedFits
<1> SUFFICES ASSUME ExecutedFits PROVE FALSE
  OBVIOUS
<1>1. PICK h : /\ SameTypes(h) /\ Takes(node, h[next - 1], h[next])
               /\ h[next - 1] \in Seq(AllTypes)
  BY Visited
<1>2. node.node = "operator"
  BY DEF Visit
<1>3. PICK t \in Formals : OperatorNode(node, t, h[next - 1], h[next])
  BY <1>1, <1>2, OperatorVisited
<1>4. \E S : values \in Seq(S)
  BY DEF IInv, Shape
<1>5. HaveTypes(values, h[next - 1])
  BY <1>1 DEF SameTypes
<1>0. PICK n \in Nat : n = Arity(node.op)
  BY <1>3, ArityIs DEF OperatorNode
<1>6. /\ n \in {1, 2} /\ n <= Len(values) /\ Len(values) \in Nat
      /\ DOMAIN operands = 1..n
      /\ \A i \in 1..n : /\ operands[i] = values[Len(values) - n + i]
                         /\ operands[i].type = node.from[i]
  <2>1. AreOperands(LastOf(values, n), node, n) /\ operands = LastOf(values, n)
    BY <1>0, <1>3, <1>4, <1>5, OperandsOf
  <2> QED
    BY <2>1 DEF AreOperands
<1>7. \A i \in 1..Len(values) : values[i].value = LLVMType(values[i].type)
  <2>1. DOMAIN values = 1..Len(values)
    BY <1>4
  <2> QED
    BY <2>1 DEF IInv, ValuesHaveTheirTypes, ExecutedFits
<1>8. \A i \in 1..n : operands[i].value = LLVMType(node.from[i])
  <2> SUFFICES ASSUME NEW i \in 1..n PROVE operands[i].value = LLVMType(node.from[i])
    OBVIOUS
  <2> DEFINE k == Len(values) - n + i
  <2>1. k \in 1..Len(values) /\ operands[i] = values[k] /\ operands[i].type = node.from[i]
    BY <1>6
  <2> HIDE DEF k
  <2> QED
    BY <1>7, <2>1
<1>9. ~CastFails(operands, node) /\ \A i \in 1..n : v[i] = LLVMType(t)
  <2>1. DOMAIN operands = 1..Arity(node.op)
    BY <1>0, <1>6
  <2>2. \A i \in 1..Arity(node.op) : operands[i].value = LLVMType(node.from[i])
    BY <1>0, <1>8
  <2> QED
    BY <1>0, <1>3, <2>1, <2>2, OperandsFit, ZenonT(60)
<1>10. v[1] = LLVMType(t)
  BY <1>6, <1>9
<1> QED
  BY <1>9, <1>10, Values

(* The values once the result has taken the place of the operands.         *)
LEMMA Replaced ==
    ASSUME NEW S, values \in Seq(S), NEW s \in Seq(AllTypes), HaveTypes(values, s),
           NEW n \in Nat, n <= Len(values), NEW e, NEW r, r = Append(Pop(s, n), e.type),
           values' = Append(Pop(values, n), e)
    PROVE  /\ values' \in Seq(S \cup {e}) /\ HaveTypes(values', r)
           /\ Len(values') = Len(values) - n + 1 /\ values'[Len(values')] = e
           /\ \A i \in 1..(Len(values) - n) : values'[i] = values[i]
<1>1. Len(values) \in Nat /\ Len(values) = Len(s) /\ n <= Len(s)
  BY DEF HaveTypes
<1>2. /\ Pop(values, n) \in Seq(S) /\ Len(Pop(values, n)) = Len(values) - n
      /\ \A i \in 1..(Len(values) - n) : Pop(values, n)[i] = values[i]
  BY Stack
<1>3. /\ Pop(s, n) \in Seq(AllTypes) /\ Len(Pop(s, n)) = Len(s) - n
      /\ \A i \in 1..(Len(s) - n) : Pop(s, n)[i] = s[i]
  BY <1>1, Stack
<1> DEFINE m == Len(values) - n
<1>4. m \in Nat /\ m <= Len(values) /\ \A i \in 1..m : values[i].type = s[i]
  BY <1>1 DEF HaveTypes
<1> HIDE DEF m
<1>5. /\ values' \in Seq(S \cup {e}) /\ Len(values') = m + 1 /\ values'[m + 1] = e
      /\ \A i \in 1..m : values'[i] = values[i]
  BY <1>2, <1>4, Push DEF m
<1>6. /\ Len(r) = m + 1 /\ r[m + 1] = e.type
      /\ \A i \in 1..m : r[i] = s[i]
  BY <1>1, <1>3, <1>4, Push DEF m
<1>7. ASSUME NEW i \in 1..(m + 1) PROVE values'[i].type = r[i]
  BY <1>4, <1>5, <1>6
<1>8. HaveTypes(values', r)
  BY <1>5, <1>6, <1>7 DEF HaveTypes
<1> QED
  BY <1>5, <1>8 DEF m

LEMMA GenOperatorKeeps ==
    ASSUME IInv, GenOperator
    PROVE  IInv'
<1> DEFINE node == code[next]
           operands == LastOf(values, Arity(node.op))
           v == Casts(operands, node)
           e == [type |-> node.type, value |-> Result(node, v)]
<1>1. /\ Visit("operator") /\ phase = "generating" /\ next <= Len(code)
      /\ node.node = "operator"
  BY DEF GenOperator, Visit
<1>2. CASE /\ CastFails(operands, node) \/ (Arity(node.op) = 1 /\ v[1] = NoValue)
           /\ Misuse
  BY <1>1, <1>2, GenOperatorMisuse, MisuseKeeps
<1>3. CASE /\ ~CastFails(operands, node)
           /\ Arity(node.op) = 1 => v[1] # NoValue
           /\ values' = Append(Pop(values, Arity(node.op)), e)
           /\ next' = next + 1
           /\ UNCHANGED <<phase, code, static>>
  <2>1. PICK h : /\ Stacks(h) /\ Generating(h) /\ SameTypes(h)
                 /\ Takes(node, h[next - 1], h[next])
                 /\ h[next - 1] \in Seq(AllTypes)
    BY <1>1, Visited
  <2>2. PICK t \in Formals : OperatorNode(node, t, h[next - 1], h[next])
    BY <1>1, <2>1, OperatorVisited
  <2>3. PICK S : values \in Seq(S)
    BY DEF IInv, Shape
  <2>4. HaveTypes(values, h[next - 1])
    BY <2>1 DEF SameTypes
  <2>5. PICK n \in Nat : n = Arity(node.op)
    BY <2>2, ArityIs DEF OperatorNode
  <2>6. /\ n \in {1, 2} /\ n <= Len(values) /\ Len(values) \in Nat
        /\ DOMAIN operands = 1..n
        /\ \A i \in 1..n : /\ operands[i] = values[Len(values) - n + i]
                           /\ operands[i].type = node.from[i]
    <3>1. operands = LastOf(values, n)
      BY <2>5
    <3>2. \E S1 : values \in Seq(S1)
      BY <2>3
    <3> HIDE DEF operands, node, v, e
    <3>3. AreOperands(LastOf(values, n), node, n)
      BY <2>2, <2>4, <2>5, <3>2, OperandsOf
    <3> QED
      BY <3>1, <3>3 DEF AreOperands
  <2>7. e.type = node.type /\ e.value = Result(node, v)
    OBVIOUS
  <2>8. h[next] = Append(Pop(h[next - 1], n), e.type)
    BY <2>2, <2>5, <2>7 DEF OperatorNode
  <2> HIDE DEF node, operands, v, e
  <2>9. /\ values' \in Seq(S \cup {e}) /\ HaveTypes(values', h[next])
        /\ Len(values') = Len(values) - n + 1 /\ values'[Len(values')] = e
        /\ \A i \in 1..(Len(values) - n) : values'[i] = values[i]
    <3>1. values' = Append(Pop(values, n), e)
      BY <1>3, <2>5
    <3> QED
      BY <2>1, <2>3, <2>4, <2>6, <2>8, <3>1, Replaced
  <2>10. Shape'
    <3>1. Len(values') = Len(h[next]) /\ \A i \in 1..Len(values') : values'[i].type = h[next][i]
      BY <2>9 DEF HaveTypes
    <3> QED
      BY <1>1, <1>3, <2>1, <2>9, <3>1, GeneratedShape
  <2>11. /\ Executed \subseteq Executed' /\ next \in Executed'
         /\ Executed' \subseteq Executed \cup {next}
    BY <1>1, <1>3, ExecutedNext DEF node
  <2>12. ValuesHaveTheirTypes'
    <3> SUFFICES ASSUME \A i \in Executed' : ~Missing(code[i]) /\ ~Misfit(code[i])
                 PROVE  \A i \in DOMAIN values' : values'[i].value = LLVMType(values'[i].type)
      BY <1>1, <1>3 DEF ValuesHaveTheirTypes
    <3>1. ~Missing(node) /\ ~Misfit(node) /\ \A i \in Executed : ~Missing(code[i]) /\ ~Misfit(code[i])
      BY <2>11 DEF node
    <3>2. \A i \in 1..Len(values) : values[i].value = LLVMType(values[i].type)
      <4>1. DOMAIN values = 1..Len(values)
        BY <2>3
      <4> QED
        BY <3>1, <4>1 DEF IInv, ValuesHaveTheirTypes
    <3>3. \A i \in 1..n : operands[i].value = LLVMType(node.from[i])
      <4> SUFFICES ASSUME NEW i \in 1..n PROVE operands[i].value = LLVMType(node.from[i])
        OBVIOUS
      <4> DEFINE k == Len(values) - n + i
      <4>1. k \in 1..Len(values) /\ operands[i] = values[k] /\ operands[i].type = node.from[i]
        BY <2>6
      <4> HIDE DEF k
      <4> QED
        BY <3>2, <4>1
    <3>4. \A i \in 1..Arity(node.op) : v[i] = LLVMType(t)
      <4>1. DOMAIN operands = 1..Arity(node.op)
        BY <2>5, <2>6
      <4>2. \A i \in 1..Arity(node.op) : operands[i].value = LLVMType(node.from[i])
        BY <2>5, <3>3
      <4> QED
        BY <2>2, <4>1, <4>2, OperandsFit DEF v
    <3>5. e.value = LLVMType(e.type)
      <4>1. /\ node.op \in DOMAIN Symbol /\ node.to[1] = t
            /\ BuiltIn(Arity(node.op), t) \in Declared(Symbol[node.op])
            /\ node.type = IF Symbol[node.op] \in Comparison THEN Boolean ELSE t
        BY <2>2, <2>5, <2>6 DEF OperatorNode
      <4> QED
        BY <2>7, <3>1, <3>4, <4>1, ResultFits
    <3> QED
      BY <2>6, <2>9, <3>2, <3>5
  <2>13. MissingStays'
    <3>1. \A k \in 1..Len(code) : k < next + 1 => code[k].node # "assign"
      <4>1. /\ next \in 1..Len(code) /\ Len(code) \in Nat
        BY <1>1 DEF IInv, Shape
      <4>2. \A k \in 1..Len(code) : code[k].node = "assign" => k = Len(code)
        BY <1>1, <2>1 DEF Generating
      <4> QED
        BY <1>1, <4>1, <4>2 DEF node
    <3>2. ASSUME Missing(node) PROVE e.value = NoValue
      BY <2>2, <2>7, <3>2, MissingIsBinary, NoResult DEF OperatorNode
    <3>3. ASSUME NEW i \in 1..n, operands[i].value = NoValue PROVE e.value = NoValue
      <4>1. v[i] = NoValue
        BY <1>3, <2>6, <3>3 DEF CastFails, Casts, Cast, v
      <4>2. n = 2 /\ v[i] \in {v[1], v[2]}
        BY <1>3, <2>5, <2>6, <4>1
      <4> QED
        BY <2>2, <2>5, <2>7, <4>1, <4>2, NoResult DEF OperatorNode
    <3>4. ASSUME NEW j \in 1..Len(values), values[j].value = NoValue
          PROVE  \E i \in 1..Len(values') : values'[i].value = NoValue
      <4>1. CASE j \in 1..(Len(values) - n)
        BY <2>6, <2>9, <3>4, <4>1
      <4>2. CASE j \notin 1..(Len(values) - n)
        <5> DEFINE i == j - (Len(values) - n)
        <5>1. i \in 1..n /\ operands[i] = values[j]
          <6>1. i \in 1..n /\ j = Len(values) - n + i
            BY <2>6, <4>2
          <6> HIDE DEF i
          <6> QED
            BY <2>6, <6>1
        <5> HIDE DEF i
        <5>2. e.value = NoValue
          BY <3>3, <3>4, <5>1
        <5> QED
          BY <2>6, <2>9, <5>2
      <4> QED
        BY <4>1, <4>2
    <3>5. ASSUME e.value = NoValue
          PROVE  \E i \in 1..Len(values') : values'[i].value = NoValue
      BY <2>6, <2>9, <3>5
    <3>6. ASSUME NEW i \in Executed', Missing(code[i])
          PROVE  \E j \in 1..Len(values') : values'[j].value = NoValue
      <4>1. CASE i \in Executed
        <5>1. \E j \in 1..Len(values) : values[j].value = NoValue
          BY <3>6, <4>1 DEF IInv, MissingStays
        <5> QED
          BY <3>4, <5>1
      <4>2. CASE i = next
        BY <3>2, <3>5, <3>6, <4>2 DEF node
      <4> QED
        BY <2>11, <4>1, <4>2
    <3> QED
      BY <1>3, <3>1, <3>6 DEF MissingStays
  <2> QED
    BY <1>1, <1>3, <2>10, <2>12, <2>13 DEF IInv
<1> QED
  BY <1>2, <1>3 DEF GenOperator

LEMMA GenAssignKeeps ==
    ASSUME IInv, GenAssign
    PROVE  IInv'
<1> DEFINE node == code[next]
           v == Cast(values[1].value, node.from[1], node.to[1])
           e == [type |-> node.to[1], value |-> v]
<1>1. /\ Visit("assign") /\ phase = "generating" /\ next <= Len(code)
      /\ node.node = "assign"
  BY DEF GenAssign, Visit
<1>2. PICK h : /\ Stacks(h) /\ Generating(h) /\ SameTypes(h)
               /\ Takes(node, h[next - 1], h[next])
               /\ h[next - 1] \in Seq(AllTypes)
  BY <1>1, Visited
<1>3. /\ Len(h[next - 1]) = 1 /\ node.from[1] = h[next - 1][1]
      /\ node.from[1] \in AllTypes /\ node.to[1] \in AllTypes
      /\ node.from[1] = node.to[1] \/ IsAssignableTo(node.from[1], node.to[1])
      /\ h[next] = <<node.to[1]>>
  BY <1>1, <1>2 DEF Takes
<1>4. Len(values) = 1 /\ values[1].type = node.from[1]
  BY <1>2, <1>3 DEF SameTypes, HaveTypes
<1>5. PICK S : values \in Seq(S)
  BY DEF IInv, Shape
<1>6. ASSUME ExecutedFits
      PROVE  /\ values[1].value = LLVMType(node.from[1])
             /\ v = LLVMType(node.to[1])
  <2>1. 1 \in DOMAIN values
    BY <1>4, <1>5
  <2>2. values[1].value = LLVMType(node.from[1])
    BY <1>4, <1>6, <2>1 DEF IInv, ValuesHaveTheirTypes, ExecutedFits
  <2> QED
    BY <1>3, <2>2, CastFits
<1>7. e.type = node.to[1] /\ e.value = v
  OBVIOUS
<1> HIDE DEF v, e
<1>8. CASE Misuse /\ (values[1].value = NoValue \/ v = NoValue)
  <2>1. ~ExecutedFits
    BY <1>6, <1>8, Values
  <2> QED
    BY <1>1, <1>8, <2>1, MisuseKeeps
<1>9. CASE /\ NoValue \notin {values[1].value, v}
           /\ values' = <<e>>
           /\ next' = next + 1
           /\ UNCHANGED <<phase, code, static>>
  <2>1. values' \in Seq({e}) /\ Len(values') = 1 /\ values'[1] = e
    BY <1>9
  <2>2. Len(values') = Len(h[next]) /\ \A i \in 1..Len(values') : values'[i].type = h[next][i]
    BY <1>3, <1>7, <2>1
  <2>3. Shape'
    BY <1>1, <1>2, <1>9, <2>1, <2>2, GeneratedShape
  <2>4. Executed' = Executed
    BY <1>1, <1>9, ExecutedNext
  <2>5. ValuesHaveTheirTypes'
    <3>1. ASSUME ExecutedFits PROVE \A i \in DOMAIN values' : values'[i].value = LLVMType(values'[i].type)
      BY <1>6, <1>7, <2>1, <3>1
    <3> QED
      BY <1>1, <1>9, <2>4, <3>1 DEF ValuesHaveTheirTypes, ExecutedFits
  <2>6. ~\E i \in Executed : Missing(code[i])
    BY <1>4, <1>9 DEF IInv, MissingStays
  <2>7. MissingStays'
    BY <1>9, <2>4, <2>6 DEF MissingStays
  <2> QED
    BY <1>1, <1>9, <2>3, <2>5, <2>7 DEF IInv
<1> QED
  BY <1>8, <1>9 DEF GenAssign, e, v

LEMMA GenDoneKeeps ==
    ASSUME IInv, GenDone
    PROVE  IInv'
<1>1. phase = "generating" /\ next > Len(code) /\ phase' = "done" /\ UNCHANGED <<code, static, next, values>>
  BY DEF GenDone
<1>2. PICK h : Stacks(h) /\ Generating(h) /\ SameTypes(h)
  BY DEF IInv, Shape
<1>3. next = Len(code) + 1
  BY <1>1 DEF IInv, Shape
<1>4. Stacks(h)' /\ Checking(h)' /\ Generating(h)' /\ SameTypes(h)'
  BY <1>1, <1>2, <1>3 DEF Stacks, Checking, Generating, SameTypes, HaveTypes
<1>5. Shape'
  BY <1>1, <1>4 DEF Shape, IInv
<1>6. Executed' = Executed
  BY <1>1 DEF Executed, OperatorNodes
<1>7. (ValuesHaveTheirTypes /\ MissingStays)'
  BY <1>1, <1>6 DEF ValuesHaveTheirTypes, MissingStays, IInv
<1> QED
  BY <1>1, <1>5, <1>7 DEF IInv, Phases

LEMMA StutterKeeps ==
    ASSUME IInv, UNCHANGED vars
    PROVE  IInv'
<1>1. UNCHANGED <<phase, code, static, next, values>>
  BY DEF vars
<1>2. Shape'
  BY <1>1 DEF IInv, Shape, Stacks, Checking, Generating, SameTypes
<1>3. (ValuesHaveTheirTypes /\ MissingStays)'
  BY <1>1 DEF IInv, ValuesHaveTheirTypes, MissingStays, Executed, OperatorNodes
<1> QED
  BY <1>1, <1>2, <1>3 DEF IInv

LEMMA InitHolds == Init => IInv
<1> SUFFICES ASSUME Init PROVE IInv
  OBVIOUS
<1>1. phase = "checking" /\ code = <<>> /\ static = <<>> /\ next = 1 /\ values = <<>>
  BY DEF Init
<1> DEFINE h == [k \in 0..0 |-> <<>>]
<1>2. h \in [0..Len(code) -> Seq(AllTypes)] /\ h[0] = <<>> /\ Len(code) = 0
  BY <1>1
<1> HIDE DEF h
<1>3. Stacks(h) /\ Checking(h) /\ Generating(h) /\ SameTypes(h)
  BY <1>1, <1>2 DEF Stacks, Checking, Generating, SameTypes, HaveTypes
<1>4. code \in Seq({}) /\ values \in Seq({}) /\ next \in 1..(Len(code) + 1)
  BY <1>1
<1>5. Shape
  BY <1>3, <1>4 DEF Shape
<1>6. Executed = {}
  BY <1>1 DEF Executed, OperatorNodes
<1>7. ValuesHaveTheirTypes /\ MissingStays
  BY <1>1, <1>6 DEF ValuesHaveTheirTypes, MissingStays
<1> QED
  BY <1>1, <1>5, <1>7 DEF IInv, Phases

LEMMA NextKeeps == IInv /\ [Next]_vars => IInv'
<1> SUFFICES ASSUME IInv, [Next]_vars PROVE IInv'
  OBVIOUS
<1>1. ASSUME NEW t \in Operands, CheckOperand(t) PROVE IInv'
  BY <1>1, CheckOperandKeeps
<1>2. ASSUME NEW t \in Operands, CheckAssign(t) PROVE IInv'
  BY <1>2, CheckAssignKeeps
<1>3. ASSUME NEW op \in DOMAIN Symbol, CheckOperator(op) PROVE IInv'
  BY <1>3, CheckOperatorKeeps
<1>4. ASSUME CheckDiscard PROVE IInv'
  BY <1>4, CheckDiscardKeeps
<1>5. ASSUME GenOperand PROVE IInv'
  BY <1>5, GenOperandKeeps
<1>6. ASSUME GenOperator PROVE IInv'
  BY <1>6, GenOperatorKeeps
<1>7. ASSUME GenAssign PROVE IInv'
  BY <1>7, GenAssignKeeps
<1>8. ASSUME GenDone PROVE IInv'
  BY <1>8, GenDoneKeeps
<1>9. ASSUME UNCHANGED vars PROVE IInv'
  BY <1>9, StutterKeeps
<1> QED
  BY <1>1, <1>2, <1>3, <1>4, <1>5, <1>6, <1>7, <1>8, <1>9 DEF Next

(* No use of an operator is ambiguous, and operands that are numbers meet  *)
(* at the wider of their types (declareImplicitOperator, resolve).         *)
LEMMA WidestNode ==
    ASSUME NEW node, node.node = "operator", NEW s \in Seq(AllTypes), NEW r, Takes(node, s, r),
           Range(node.from) \subseteq Numbers
    PROVE  \A k \in DOMAIN node.from :
              /\ node.to[k] \in Range(node.from)
              /\ \A j \in DOMAIN node.from : Wider(node.to[k], node.from[j])
<1> DEFINE args == node.from
<1>1. /\ node.op \in DOMAIN Symbol /\ Len(s) >= Arity(node.op)
      /\ args = LastOf(s, Arity(node.op))
  BY DEF Takes
<1>2. PICK f \in Best(Declared(Symbol[node.op]), args) : node.to = Coerced(args, f)
  BY DEF Takes
<1>3. PICK n \in Nat : n = Arity(node.op) /\ n \in {1, 2}
  BY <1>1, ArityIs
<1>4. args \in Seq(AllTypes) /\ Len(args) = n /\ DOMAIN args = 1..n
  <2>1. n <= Len(s) /\ args = LastOf(s, n)
    BY <1>1, <1>3
  <2> HIDE DEF args
  <2>2. args \in Seq(AllTypes) /\ Len(args) = n
    BY <2>1, Stack
  <2> QED
    BY <2>2
<1>5. PICK t \in Formals :
              /\ f = BuiltIn(n, t) /\ AllFit(n, args, t)
              /\ t \in Numbers =>
                   /\ OneExact(n, args, t)
                   /\ \A i \in 1..n : /\ args[i] \in Numbers
                                      /\ Rank[args[i].primitive] <= Rank[t.primitive]
  BY <1>1, <1>2, <1>3, <1>4, BestShape
<1>6. \A i \in 1..n : args[i] \in Range(args) /\ args[i] \in AllTypes
  BY <1>4 DEF Range
<1>7. t \in Numbers
  <2>1. args[1] \in Numbers /\ args[1] \in AllTypes
    BY <1>3, <1>6
  <2>2. args[1] = t \/ IsAssignableTo(args[1], t)
    BY <1>3, <1>5 DEF AllFit
  <2>3. /\ t = Boolean => args[1] = Boolean
        /\ t = Reference => args[1] \in {Nil, Reference} \/ args[1].category = "CLASS"
    BY <2>1, <2>2, IntoFormal
  <2>4. args[1] # Boolean /\ args[1] \notin {Nil, Reference} /\ args[1].category # "CLASS"
    BY <2>1, Distinct, Categories DEF Numbers
  <2> QED
    BY <2>3, <2>4 DEF Formals
<1>8. \A k \in 1..n : node.to[k] = t
  BY <1>2, <1>4, <1>5 DEF Coerced, BuiltIn
<1>9. t \in Range(args)
  BY <1>5, <1>6, <1>7 DEF OneExact
<1>10. \A j \in 1..n : Wider(t, args[j])
  <2>1. \A u \in Numbers : Rank[u.primitive] \in Int
    BY Ranks DEF Numbers
  <2> QED
    BY <1>5, <1>7, <2>1 DEF Wider
<1> QED
  BY <1>4, <1>8, <1>9, <1>10

-----------------------------------------------------------------------------
(* As long as no operator without a fitting instruction is met, every      *)
(* value has the LLVM type of its expression, and no null value is handed  *)
(* to LLVM (coerce, visitBinaryOperator, visitCast).                       *)
THEOREM ValuesFit == Spec => []ValuesHaveTheirTypes
<1>1. IInv => ValuesHaveTheirTypes
  BY DEF IInv
<1> QED
  BY <1>1, InitHolds, NextKeeps, PTL DEF Spec

(* An expression that used an operator without an instruction is not       *)
(* stored (visitBinaryOperator, visitAssignment, visitVariableDecl).       *)
THEOREM MissingIsLost == Spec => []MissingIsNeverStored
<1>1. ASSUME IInv PROVE MissingIsNeverStored
  <2> SUFFICES ASSUME phase = "done", \E i \in Executed : Missing(code[i])
               PROVE  /\ values[1].value = NoValue
                      /\ \A i \in DOMAIN code : code[i].node # "assign"
    BY DEF MissingIsNeverStored
  <2>1. /\ \E i \in 1..Len(values) : values[i].value = NoValue
        /\ \A k \in 1..Len(code) : k < next => code[k].node # "assign"
    BY <1>1 DEF IInv, MissingStays
  <2>2. PICK h : Generating(h) /\ SameTypes(h)
    BY <1>1 DEF IInv, Shape
  <2>3. Len(code) \in Nat /\ DOMAIN code = 1..Len(code)
    BY <1>1 DEF IInv, Shape
  <2>4. next = Len(code) + 1 /\ Len(h[Len(code)]) = 1
    BY <2>2 DEF Generating
  <2>5. next - 1 = Len(code)
    BY <2>3, <2>4
  <2>6. Len(values) = 1
    BY <2>2, <2>4, <2>5 DEF SameTypes, HaveTypes
  <2> QED
    BY <2>1, <2>3, <2>4, <2>6
<1> QED
  BY <1>1, InitHolds, NextKeeps, PTL DEF Spec

(* The built-in operators are declared so that a use has one meaning: no   *)
(* use is ambiguous and numbers meet at the wider type                     *)
(* (declareImplicitOperator, Functions::resolve).                          *)
THEOREM OneMeaning == Spec => []OperandsMeetAtTheWidest
<1>1. ASSUME IInv PROVE OperandsMeetAtTheWidest
  <2>1. phase # "ambiguous"
    BY <1>1 DEF IInv, Phases
  <2>2. PICK h : Stacks(h)
    BY <1>1 DEF IInv, Shape
  <2>3. Len(code) \in Nat /\ DOMAIN code = 1..Len(code)
    BY <1>1 DEF IInv, Shape
  <2>4. ASSUME NEW i \in OperatorNodes, Range(code[i].from) \subseteq Numbers
        PROVE  \A k \in DOMAIN code[i].from :
                  /\ code[i].to[k] \in Range(code[i].from)
                  /\ \A j \in DOMAIN code[i].from : Wider(code[i].to[k], code[i].from[j])
    <3>1. i \in 1..Len(code) /\ i - 1 \in 0..Len(code) /\ code[i].node = "operator"
      BY <2>3 DEF OperatorNodes
    <3>2. Takes(code[i], h[i - 1], h[i]) /\ h[i - 1] \in Seq(AllTypes)
      BY <2>2, <3>1 DEF Stacks
    <3> QED
      BY <2>4, <3>1, <3>2, WidestNode
  <2> QED
    BY <2>1, <2>4 DEF OperandsMeetAtTheWidest
<1> QED
  BY <1>1, InitHolds, NextKeeps, PTL DEF Spec
=============================================================================
