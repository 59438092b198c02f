------------------------------ MODULE Evaluation -----------------------------
(***************************************************************************)
(* What the instructions of an expression compute (codegen/llvm/ir.cpp):   *)
(* literals, variables and fields, the casts that the type checker adds,   *)
(* operators on numbers, comparisons of references, "not", "and" and "or". *)
(* A machine with a stack of values: the instructions of an expression are *)
(* in one basic block, operands first, and all of them are executed.  The  *)
(* types of operands and results are the subject of Operators.             *)
(***************************************************************************)
EXTENDS Integers, Sequences

CONSTANTS
    Range8,     \* number of values of a char, 2^8 in the code
    Range32,    \* number of values of an int, 2^32
    Literals,   \* the integer literals considered
    Doubles,    \* the values of double variables and literals considered
    Variables,  \* variables of a class with a field of type int
    Addresses,  \* addresses of objects
    MaxNodes    \* bound on the nodes of an expression

ASSUME EvaluationAssumption ==
    /\ Range8 \in {2 * n : n \in 1..Range8} /\ Range32 \in {2 * n : n \in Range8..Range32}
    /\ Literals \subseteq Nat
    /\ Doubles \subseteq Int
    /\ Addresses \subseteq Nat \ {0}
    /\ MaxNodes \in Nat

VARIABLES
    variable,  \* the address in each variable of the class
    stack,     \* the values computed and not used yet
    nodes,     \* how many nodes were visited
    trapped    \* an instruction read through a null pointer

vars == <<variable, stack, nodes, trapped>>

Null == 0

Numbers == {"char", "int", "double"}
Width == [char |-> Range8, int |-> Range32]

(* The number that n is in an integer type: two's complement.              *)
Fit(t, n) == IF t \notin DOMAIN Width THEN n
             ELSE LET r == n % Width[t]
                  IN  IF r >= Width[t] \div 2 THEN r - Width[t] ELSE r

Values(t) == IF t = "double" THEN Doubles ELSE {Fit(t, n) : n \in 0..(Width[t] - 1)}

(* A value, and the one the source stands for, which is computed without   *)
(* casts and without the right operand of an operator that the left one    *)
(* decides.  A value is spoilt if a literal that is no int, a negative     *)
(* number cast to double, or addresses that are alike in the width of an   *)
(* int had a part in it; it traps if what the source stands for reads      *)
(* through null.                                                           *)
Entry(t, v, m, s, r) ==
    [type |-> t, value |-> v, meant |-> IF s \/ r THEN v ELSE m, spoilt |-> s, traps |-> r]

Top(k) == stack[Len(stack) - k]

(* The k top values become e.  An expression leaves one value, so there    *)
(* must be room for the operators that use the others.                     *)
Replace(k, e) == /\ nodes + Len(stack) - k < MaxNodes
                 /\ nodes' = nodes + 1
                 /\ stack' = Append(SubSeq(stack, 1, Len(stack) - k), e)
                 /\ UNCHANGED variable

-----------------------------------------------------------------------------
Init == /\ variable \in [Variables -> Addresses \cup {Null}]
        /\ stack = <<>>
        /\ nodes = 0
        /\ trapped = FALSE

Variable == /\ \E t \in Numbers : \E v \in Values(t) : Replace(0, Entry(t, v, v, FALSE, FALSE))
            /\ UNCHANGED trapped

(* An integer literal of any length is taken as an int.                    *)
IntegerLiteral ==
    /\ \E n \in Literals :
          Replace(0, Entry("int", Fit("int", n), n, n >= Range32 \div 2, FALSE))
    /\ UNCHANGED trapped

(* The field of the object in x, any int.  What is read through a null     *)
(* pointer is of no account.                                               *)
FieldAccess(x) ==
    IF variable[x] = Null
    THEN /\ Replace(0, Entry("int", 0, 0, FALSE, TRUE))
         /\ trapped' = TRUE
    ELSE /\ \E v \in Values("int") : Replace(0, Entry("int", v, v, FALSE, FALSE))
         /\ UNCHANGED trapped

(* Mutant of Cast: a char is zero-extended.                                *)
CastUnsigned(v, from, to) == IF from # to THEN v % Width[from] ELSE v

(* visitCast: SExt between integers, UIToFP to a double.                   *)
Cast(v, from, to) == IF to = "double" /\ from # "double" THEN v % Width[from] ELSE v

(* visitCast of an object or of null to a reference, which is an integer   *)
(* of 32 bits whatever the width of an address.                            *)
AsReference(a) == a % Range32

(* The type both operands are cast to.                                     *)
Meet(s, t) == IF "double" \in {s, t} THEN "double" ELSE IF "int" \in {s, t} THEN "int" ELSE "char"

Spoils(e, t) == e.spoilt \/ (t = "double" /\ e.type # "double" /\ e.meant < 0)

Magnitude(n) == IF n < 0 THEN -n ELSE n
Sign(n) == IF n < 0 THEN -1 ELSE 1

(* The quotient rounded towards zero.                                      *)
Quotient(l, r) == Sign(l) * Sign(r) * (Magnitude(l) \div Magnitude(r))

Compute(op, l, r) == CASE op = "PLUS" -> l + r
                       [] op = "SUB"  -> l - r
                       [] op = "MUL"  -> l * r
                       [] op = "DIV"  -> Quotient(l, r)
                       [] op = "MOD"  -> l - r * Quotient(l, r)

Compare(op, l, r) == CASE op = "EQ"  -> l = r
                       [] op = "NEQ" -> l # r
                       [] op = "LT"  -> l < r
                       [] op = "GT"  -> l > r
                       [] op = "LEQ" -> l <= r
                       [] op = "GEQ" -> l >= r

(* A double that is not a whole number, a division by zero and the         *)
(* overflow of a division, which are undefined, are left out.              *)
Defined(op, t, l, r) ==
    op \in {"DIV", "MOD"} => /\ t # "double" /\ r # 0
                             /\ Fit(t, Quotient(l, r)) = Quotient(l, r)

TwoNumbers == Len(stack) >= 2 /\ {Top(1).type, Top(0).type} \subseteq Numbers

(* The operands of an operator, cast to the type t they meet in; its value *)
(* v, of type u, has the doubts of both.                                   *)
Left(t) == Cast(Top(1).value, Top(1).type, t)
Right(t) == Cast(Top(0).value, Top(0).type, t)

Operate(t, u, v, m) ==
    /\ Replace(2, Entry(u, v, m, Spoils(Top(1), t) \/ Spoils(Top(0), t),
                        Top(1).traps \/ Top(0).traps))
    /\ UNCHANGED trapped

(* PLUS to MOD.                                                            *)
Arithmetic(op) ==
    /\ TwoNumbers
    /\ LET t == Meet(Top(1).type, Top(0).type)
       IN  /\ Defined(op, t, Left(t), Right(t))
           /\ Operate(t, t, Fit(t, Compute(op, Left(t), Right(t))),
                      Fit(t, Compute(op, Top(1).meant, Top(0).meant)))

(* EQ to GEQ.                                                              *)
Comparison(op) ==
    /\ TwoNumbers
    /\ LET t == Meet(Top(1).type, Top(0).type)
       IN  Operate(t, "boolean", Compare(op, Left(t), Right(t)),
                   Compare(op, Top(1).meant, Top(0).meant))

(* EQ and NEQ of two objects, or of an object and null.                    *)
References(op, a, b) ==
    /\ Replace(0, Entry("boolean", Compare(op, AsReference(a), AsReference(b)), Compare(op, a, b),
                        a # b /\ AsReference(a) = AsReference(b), FALSE))
    /\ UNCHANGED trapped

(* An operator on the value on top, which is of one of the types.          *)
Unary(types, v, m) ==
    /\ stack # <<>>
    /\ Top(0).type \in types
    /\ Replace(1, Entry(Top(0).type, v, m, Top(0).spoilt, Top(0).traps))
    /\ UNCHANGED trapped

(* MINUS; that of a char has no valid instruction.                         *)
Negation == Unary({"int", "double"}, Fit(Top(0).type, 0 - Top(0).value),
                  Fit(Top(0).type, 0 - Top(0).meant))

(* TILDE; that of a double has none.                                       *)
Complement == Unary({"char", "int"}, Fit(Top(0).type, -1 - Top(0).value),
                    Fit(Top(0).type, -1 - Top(0).meant))

Not == Unary({"boolean"}, ~Top(0).value, ~Top(0).meant)

(* LAND and LOR, and the value of the left operand that decides them.      *)
Logical(op, decides) ==
    /\ Len(stack) >= 2
    /\ Top(1).type = "boolean" /\ Top(0).type = "boolean"
    /\ LET l == Top(1)
           r == Top(0)
       IN  Replace(2, Entry("boolean",
                            IF op = "LAND" THEN l.value /\ r.value ELSE l.value \/ r.value,
                            IF op = "LAND" THEN l.meant /\ r.meant ELSE l.meant \/ r.meant,
                            l.spoilt \/ r.spoilt,
                            l.traps \/ (l.meant # decides /\ r.traps)))
    /\ UNCHANGED trapped

(* The initialisation of, or an assignment to, a wider variable.           *)
Widening(t) ==
    /\ stack # <<>>
    /\ Top(0).type \in Numbers \ {t} /\ Meet(Top(0).type, t) = t
    /\ Replace(1, Entry(t, Cast(Top(0).value, Top(0).type, t), Top(0).meant,
                        Spoils(Top(0), t), Top(0).traps))
    /\ UNCHANGED trapped

Next == \/ Variable \/ IntegerLiteral \/ Negation \/ Complement \/ Not
        \/ \E x \in Variables : FieldAccess(x)
        \/ \E op \in {"PLUS", "SUB", "MUL", "DIV", "MOD"} : Arithmetic(op)
        \/ \E op \in {"EQ", "NEQ", "LT", "GT", "LEQ", "GEQ"} : Comparison(op)
        \/ \E op \in {"EQ", "NEQ"}, x, y \in Variables :
              References(op, variable[x], variable[y]) \/ References(op, variable[x], Null)
        \/ Logical("LAND", FALSE) \/ Logical("LOR", TRUE)
        \/ \E t \in {"int", "double"} : Widening(t)

Spec == Init /\ [][Next]_vars

-----------------------------------------------------------------------------
(* Every value is the one the source stands for, in the range of its type, *)
(* through any mixture of types, wrap-around, comparisons and conditions,  *)
(* unless it is spoilt or the source reads through null: every instruction *)
(* takes integers as signed but for the cast to double, references are     *)
(* compared in the width of an int, and a right operand that the source    *)
(* does not evaluate does not change the value (visitIntegerLiteral,       *)
(* visitCast, visitUnaryOperator, visitBinaryOperator).                    *)
ValuesAreMeant ==
    \A k \in DOMAIN stack :
        /\ stack[k].type \in DOMAIN Width => stack[k].value \in Values(stack[k].type)
        /\ ~stack[k].spoilt /\ ~stack[k].traps => stack[k].value = stack[k].meant

(* A condition that tests a variable for null before it accesses a field,  *)
(* as the loop in the linked list sample does, never reads through null.   *)
GuardsProtect == Len(stack) = 1 /\ trapped => stack[1].traps
=============================================================================
