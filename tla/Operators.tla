------------------------------ MODULE Operators -----------------------------
(***************************************************************************)
(* One expression statement, assignment or initialisation made of the      *)
(* built-in operators: the type checker resolves each operator and casts   *)
(* its operands, then the code generator lowers the annotated tree.  Both  *)
(* visit the operands before the operator, so a tree is the sequence of    *)
(* its nodes in that order and the results of the visits form a stack.     *)
(***************************************************************************)
EXTENDS Lowering, Functions

CONSTANTS
    Operands,  \* types of variables, literals and calls
    MaxNodes   \* bound on the nodes of an expression

ASSUME OperatorsAssumption == Operands \subseteq Types \ {Reference} /\ MaxNodes \in Nat

VARIABLES
    phase,   \* "checking", "generating", "done", or what ended it early
    code,    \* the nodes visited, as the type checker leaves them
    static,  \* types of the expressions an operator has yet to take
    next,    \* the node the code generator visits next
    values   \* types and LLVM types of the values it has yet to use

vars == <<phase, code, static, next, values>>

-----------------------------------------------------------------------------
(* operator<< for Operator; the name under which an operator is resolved.  *)
Symbol == [PLUS |-> "+", SUB |-> "-", MUL |-> "*", DIV |-> "/", MOD |-> "%",
           EQ |-> "==", NEQ |-> "!=", LT |-> "<", GT |-> ">", LEQ |-> "<=",
           GEQ |-> ">=", LOR |-> "or", LAND |-> "and", NOT |-> "not",
           MINUS |-> "-", TILDE |-> "~", HASH |-> "#"]

Arity(op) == IF op \in {"NOT", "MINUS", "TILDE", "HASH"} THEN 1 ELSE 2

(* declareImplicitOperator and its calls in the constructor of TypeInfo.   *)
Built(types, arity) ==
    {[formals |-> [i \in 1..arity |-> t], varArgs |-> FALSE, cMod |-> FALSE] : t \in types}

Equality == {"==", "!="}
Comparison == {">", "<", ">=", "<="} \cup Equality

Declared(s) ==
    UNION {IF s \in Comparison \cup {"+", "-", "/", "*", "%"} THEN Built(Numbers, 2) ELSE {},
           IF s \in Equality THEN Built({Boolean, Reference}, 2) ELSE {},
           IF s \in {"and", "or"} THEN Built({Boolean}, 2) ELSE {},
           IF s = "not" THEN Built({Boolean}, 1) ELSE {},
           IF s \in {"-", "~"} THEN Built(Numbers, 1) ELSE {}}

ResultType(op, f) == IF Symbol[op] \in Comparison THEN Boolean ELSE f.formals[1]

LastOf(s, n) == SubSeq(s, Len(s) - n + 1, Len(s))
Pop(s, n) == SubSeq(s, 1, Len(s) - n)

-----------------------------------------------------------------------------
Init == /\ phase = "checking"
        /\ code = <<>>
        /\ static = <<>>
        /\ next = 1
        /\ values = <<>>

CheckOperand(t) ==
    /\ phase = "checking"
    /\ Len(code) < MaxNodes
    /\ code' = Append(code, [node |-> "operand", type |-> t])
    /\ static' = Append(static, t)
    /\ UNCHANGED <<phase, next, values>>

(* Mutant of Coerced: only the left operand is cast.                       *)
CoercedLeft(args, f) == [i \in DOMAIN args |-> IF i = 1 THEN f.formals[1] ELSE args[i]]

(* What coerce makes of the operands: expressions of the formals' types.   *)
Coerced(args, f) == [i \in DOMAIN args |-> f.formals[i]]

(* visitUnaryOperator and visitBinaryOperator: resolveFunction throws      *)
(* unless there is one best candidate; coerce adds casts to its formals.   *)
CheckOperator(op) ==
    LET n == Arity(op)
        args == LastOf(static, n)
        best == Best(Declared(Symbol[op]), args)
    IN  /\ phase = "checking"
        /\ Len(code) < MaxNodes
        /\ Len(static) >= n
        /\ \/ \E f \in best :
                /\ best = {f}
                /\ code' = Append(code, [node |-> "operator", op |-> op, from |-> args,
                                         to |-> Coerced(args, f), type |-> ResultType(op, f)])
                /\ static' = Append(Pop(static, n), ResultType(op, f))
                /\ UNCHANGED phase
           \/ /\ Cardinality(best) # 1
              /\ phase' = IF best = {} THEN "undeclared" ELSE "ambiguous"
              /\ UNCHANGED <<code, static>>
        /\ UNCHANGED <<next, values>>

(* The end of an assignment to, or of the initialisation of, a variable of *)
(* type t: checkAssignment.                                                *)
CheckAssign(t) ==
    /\ phase = "checking"
    /\ Len(static) = 1
    /\ \/ /\ static[1] = t \/ IsAssignableTo(static[1], t)
          /\ code' = Append(code, [node |-> "assign", from |-> static, to |-> <<t>>])
          /\ static' = <<>>
          /\ phase' = "generating"
       \/ /\ static[1] # t /\ ~IsAssignableTo(static[1], t)
          /\ phase' = "unassignable"
          /\ UNCHANGED <<code, static>>
    /\ UNCHANGED <<next, values>>

(* The end of an expression statement.                                     *)
CheckDiscard ==
    /\ phase = "checking"
    /\ Len(static) = 1
    /\ static' = <<>>
    /\ phase' = "generating"
    /\ UNCHANGED <<code, next, values>>

-----------------------------------------------------------------------------
CastFails(operands, node) ==
    \E i \in DOMAIN operands : /\ NeedsInstruction(node.from[i], node.to[i])
                               /\ operands[i].value = NoValue

Casts(operands, node) ==
    [i \in DOMAIN operands |-> Cast(operands[i].value, node.from[i], node.to[i])]

(* The cases of visitBinaryOperator on the type of the operands.           *)
HasInstruction(op, t) ==
    \/ op \in {"PLUS", "SUB", "MUL", "DIV", "EQ", "NEQ", "LT", "GT", "LEQ", "GEQ"} /\ t \in Numbers
    \/ op = "MOD" /\ t \in {Int8, Int32}
    \/ op \in {"LOR", "LAND"} /\ t.category = "PRIMITIVE"
    \/ op \in {"EQ", "NEQ"} /\ t = Reference

(* Mutant of Binary: an instruction is created without looking for null.   *)
BinaryUnchecked(op, t, l, r) ==
    IF ~HasInstruction(op, t) THEN NoValue
    ELSE IF Symbol[op] \in Comparison THEN <<"i1">>
    ELSE LLVMType(t)

Binary(op, t, l, r) ==
    IF NoValue \in {l, r} \/ ~HasInstruction(op, t) THEN NoValue
    ELSE IF l # r \/ l = IllTyped THEN IllTyped
    ELSE IF Symbol[op] \in Comparison THEN <<"i1">>
    ELSE l

(* visitUnaryOperator: integers are subtracted from an i32.                *)
Unary(op, t, v) ==
    IF op = "MINUS"
    THEN IF v = (IF t = Float64 THEN <<"double">> ELSE <<"i32">>) THEN v ELSE IllTyped
    ELSE IF v \in {<<"i1">>, <<"i8">>, <<"i32">>} THEN v ELSE IllTyped

(* What ends a visit that hands LLVM a null value.                         *)
Misuse == /\ phase' = "misused"
          /\ UNCHANGED <<code, static, next, values>>

Visit(kind) ==
    /\ phase = "generating"
    /\ next <= Len(code)
    /\ code[next].node = kind

GenOperand ==
    /\ Visit("operand")
    /\ values' = Append(values, [type |-> code[next].type, value |-> LLVMType(code[next].type)])
    /\ next' = next + 1
    /\ UNCHANGED <<phase, code, static>>

Result(node, v) ==
    IF Arity(node.op) = 1 THEN Unary(node.op, node.to[1], v[1])
    ELSE Binary(node.op, node.to[1], v[1], v[2])

GenOperator ==
    /\ Visit("operator")
    /\ LET node == code[next]
           operands == LastOf(values, Arity(node.op))
           v == Casts(operands, node)
       IN  \/ /\ CastFails(operands, node) \/ (Arity(node.op) = 1 /\ v[1] = NoValue)
              /\ Misuse
           \/ /\ ~CastFails(operands, node)
              /\ Arity(node.op) = 1 => v[1] # NoValue
              /\ values' = Append(Pop(values, Arity(node.op)),
                                  [type |-> node.type, value |-> Result(node, v)])
              /\ next' = next + 1
              /\ UNCHANGED <<phase, code, static>>

(* The cast and the store of visitAssignment and visitVariableDecl.        *)
GenAssign ==
    /\ Visit("assign")
    /\ LET node == code[next]
           v == Cast(values[1].value, node.from[1], node.to[1])
       IN  \/ /\ values[1].value = NoValue \/ v = NoValue
              /\ Misuse
           \/ /\ NoValue \notin {values[1].value, v}
              /\ values' = <<[type |-> node.to[1], value |-> v]>>
              /\ next' = next + 1
              /\ UNCHANGED <<phase, code, static>>

GenDone ==
    /\ phase = "generating"
    /\ next > Len(code)
    /\ phase' = "done"
    /\ UNCHANGED <<code, static, next, values>>

Next == \/ \E t \in Operands : CheckOperand(t) \/ CheckAssign(t)
        \/ \E op \in DOMAIN Symbol : CheckOperator(op)
        \/ CheckDiscard
        \/ GenOperand \/ GenOperator \/ GenAssign \/ GenDone

Spec == Init /\ [][Next]_vars

-----------------------------------------------------------------------------
OperatorNodes == {i \in DOMAIN code : code[i].node = "operator"}

(* No use of a built-in operator is ambiguous, and operands that are       *)
(* numbers meet at the wider of their types, never at a narrower or at a   *)
(* needlessly wide one (declareImplicitOperator, Functions::resolve).      *)
Wider(s, t) == Rank[s.primitive] >= Rank[t.primitive]

OperandsMeetAtTheWidest ==
    /\ phase # "ambiguous"
    /\ \A i \in OperatorNodes :
        LET from == code[i].from
        IN  Range(from) \subseteq Numbers =>
              \A k \in DOMAIN from :
                  /\ code[i].to[k] \in Range(from)
                  /\ \A j \in DOMAIN from : Wider(code[i].to[k], from[j])

(* The declared operators without an instruction: equality of booleans     *)
(* and the remainder of doubles; and those with an instruction that does   *)
(* not fit their operand: ~ of a double, the negation of a char.           *)
Missing(node) == \/ node.op \in {"EQ", "NEQ"} /\ node.to[1] = Boolean
                 \/ node.op = "MOD" /\ node.to[1] = Float64

Misfit(node) == \/ node.op = "TILDE" /\ node.to[1] = Float64
                \/ node.op = "MINUS" /\ node.to[1] = Int8

Executed == {i \in OperatorNodes : i < next}

(* As long as none of those operators is met, every value has the LLVM     *)
(* type of the static type of its expression, through all casts, and no    *)
(* null value is handed to LLVM: the types of the type checker are those   *)
(* of the code (coerce and visitBinaryOperator of both passes, visitCast). *)
ValuesHaveTheirTypes ==
    (\A i \in Executed : ~Missing(code[i]) /\ ~Misfit(code[i])) =>
        /\ phase # "misused"
        /\ \A i \in DOMAIN values : values[i].value = LLVMType(values[i].type)

(* A missing value is never covered up: an expression that used an         *)
(* operator without an instruction is not stored as if it had a value,     *)
(* however it is nested; an expression statement just loses it.            *)
MissingIsNeverStored ==
    phase = "done" /\ (\E i \in Executed : Missing(code[i])) =>
        /\ values[1].value = NoValue
        /\ \A i \in DOMAIN code : code[i].node # "assign"
=============================================================================
