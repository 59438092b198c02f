-------------------------- MODULE ExpressionParser --------------------------
(***************************************************************************)
(* The rules of the grammar that parse an expression (parser/antlr/JL.g)   *)
(* and the AST nodes they create (parser/ast/ast.cpp).  The parser is a    *)
(* recursive descent: the rule activations in progress form a stack, and   *)
(* what was read so far decides which tokens can come next, so a run of    *)
(* the model reads any sentence of the language up to a length.  An        *)
(* activation returns as soon as the next token is none of its own.        *)
(***************************************************************************)
EXTENDS Integers, Sequences, SequencesExt, FiniteSets, FiniteSetsExt, Functions

CONSTANTS
    InfixTokens,   \* the infix operators considered
    PrefixTokens,  \* the prefix operators considered
    MaxTokens      \* bound on the length of a sentence

VARIABLES
    tokens,   \* the tokens consumed
    stack,    \* the rule activations in progress, innermost last
    nodes,    \* the AST nodes created, a pointer being an index
    root,     \* what the expression rule returned, 0 before
    crashed   \* a null pointer was dereferenced

vars == <<tokens, stack, nodes, root, crashed>>

(* The rules an operand descends through, loosest first, and the infix     *)
(* operators that the loop of each takes.                                  *)
Descent == <<"relation", "comparison", "add", "mul", "unary", "qualified_access", "array_access">>

Infix == [relation |-> {"and", "or"}, comparison |-> {"==", "!=", "<", ">", "<=", ">="},
          add |-> {"+", "-"}, mul |-> {"*", "/", "%"}]
PrefixOperators == {"not", "~", "#", "-"}

TokensAssumption ==
    /\ InfixTokens \subseteq UNION Range(Infix)
    /\ PrefixTokens \subseteq PrefixOperators
    /\ MaxTokens \in Nat

(* An activation: the operator read last (its position, 0 for none), the   *)
(* first operand, the result so far, and the list of expressions of a      *)
(* bracket, whose rules are "(", "[", "call" and "new".                    *)
Started(rule, at) == [rule |-> rule, op |-> at, first |-> 0, result |-> 0, items |-> <<>>]

DescendFrom(k) == [i \in 1..(Len(Descent) - k + 1) |-> Started(Descent[k + i - 1], 0)]

(* A node, the token it is named after, and its location: the positions    *)
(* of the first and the last token, 0 before one is set.                   *)
Node(kind, at, args, from, to) ==
    [kind |-> kind, at |-> at, args |-> args, from |-> from, to |-> to]

Top == stack[Len(stack)]
Caller == stack[Len(stack) - 1]
Push(activations) == stack' = stack \o activations
SetTop(a) == stack' = [stack EXCEPT ![Len(stack)] = a]
SetCaller(a) == stack' = Append(SubSeq(stack, 1, Len(stack) - 2), a)

Parsing == root = 0 /\ ~crashed

Read(ts) == /\ Parsing
            /\ Len(tokens) + Len(ts) <= MaxTokens
            /\ tokens' = tokens \o ts

Here == Len(tokens) + 1       \* the position of the token read next
New == Len(nodes) + 1         \* the pointer a new node gets

Rule(rule) == Top.rule = rule

-----------------------------------------------------------------------------
Init == /\ tokens = <<>>
        /\ stack = <<Started("expression", 0)>>
        /\ nodes = <<>>
        /\ root = 0
        /\ crashed = FALSE

(* expression: a relation, unless it begins with "new".                    *)
Relation ==
    /\ Parsing /\ Rule("expression") /\ Top.result = 0
    /\ Push(DescendFrom(1))
    /\ UNCHANGED <<tokens, nodes, root, crashed>>

NewObject ==
    /\ Rule("expression") /\ Top.result = 0
    /\ Read(<<"new", "T">>)
    /\ nodes' = Append(nodes, Node("object", Here, <<>>, Here, Here + 1))
    /\ SetTop([Top EXCEPT !.result = New])
    /\ UNCHANGED <<root, crashed>>

NewArray ==
    /\ Rule("expression") /\ Top.result = 0
    /\ Read(<<"new", "T", "[">>)
    /\ Push(<<Started("new", Here), Started("expression", 0)>>)
    /\ UNCHANGED <<nodes, root, crashed>>

(* Mutant of ReadInfix: the second operand descends from the same rule, so *)
(* that a chain associates to the right.                                   *)
ReadInfixRight(t) ==
    /\ Top.rule \in DOMAIN Infix
    /\ Top.result # 0
    /\ t \in Infix[Top.rule]
    /\ Read(<<t>>)
    /\ stack' = Front(stack) \o <<[Top EXCEPT !.op = Here]>>
                  \o DescendFrom(CHOOSE k \in DOMAIN Descent : Descent[k] = Top.rule)
    /\ UNCHANGED <<nodes, root, crashed>>

(* relation, comparison, add, mul: an operator of their own after an       *)
(* operand, and the descent to the next one.                               *)
ReadInfix(t) ==
    /\ Top.rule \in DOMAIN Infix
    /\ Top.result # 0
    /\ t \in Infix[Top.rule]
    /\ Read(<<t>>)
    /\ stack' = Front(stack) \o <<[Top EXCEPT !.op = Here]>>
                  \o DescendFrom((CHOOSE k \in DOMAIN Descent : Descent[k] = Top.rule) + 1)
    /\ UNCHANGED <<nodes, root, crashed>>

(* unary, whose operand is still to come: the activations it has already   *)
(* descended to have read nothing.                                         *)
AtOperand == Rule("array_access") /\ Top.result = 0 /\ Caller.first = 0

(* Mutant of ReadPrefix: the first operator of a chain stays the current   *)
(* node, so that the ones after it are lost.                               *)
ReadPrefixOnce(t) ==
    /\ AtOperand
    /\ Read(<<t>>)
    /\ stack' = [stack EXCEPT ![Len(stack) - 2].op = IF @ = 0 THEN Here ELSE @]
    /\ UNCHANGED <<nodes, root, crashed>>

(* A prefix operator: the node for the one before it is no longer          *)
(* "current", and it is "current" that becomes the result.                 *)
ReadPrefix(t) ==
    /\ AtOperand
    /\ Read(<<t>>)
    /\ stack' = [stack EXCEPT ![Len(stack) - 2].op = Here]
    /\ UNCHANGED <<nodes, root, crashed>>

(* term, a name standing for literals too, and the name in qarray_access.  *)
ReadName ==
    /\ Rule("array_access") /\ Top.result = 0
    /\ Read(<<"x">>)
    /\ nodes' = Append(nodes, Node("ref", Here, <<>>, Here, Here))
    /\ SetTop([Top EXCEPT !.result = New])
    /\ UNCHANGED <<root, crashed>>

OpenGroup ==
    /\ AtOperand
    /\ Read(<<"(">>)
    /\ Push(<<Started("(", Here), Started("expression", 0)>>)
    /\ UNCHANGED <<nodes, root, crashed>>

(* function_call: a comma may come before the first argument.              *)
OpenCall ==
    /\ AtOperand
    /\ Read(<<"f", "(">>) \/ Read(<<"f", "(", ",">>)
    /\ Push(<<Started("call", Here), Started("expression", 0)>>)
    /\ UNCHANGED <<nodes, root, crashed>>

EmptyCall ==
    /\ AtOperand
    /\ Read(<<"f", "(", ")">>)
    /\ nodes' = Append(nodes, Node("call", Here, <<>>, Here, Here + 2))
    /\ SetTop([Top EXCEPT !.result = New])
    /\ UNCHANGED <<root, crashed>>

OpenIndex ==
    /\ Rule("array_access") /\ Top.result # 0
    /\ Read(<<"[">>)
    /\ Push(<<Started("[", Here), Started("expression", 0)>>)
    /\ UNCHANGED <<nodes, root, crashed>>

(* qualified_access after an operand: "." and the next qarray_access.      *)
ReadDot ==
    /\ Rule("qualified_access") /\ Top.first # 0
    /\ Read(<<".">>)
    /\ Push(<<Started("array_access", 0)>>)
    /\ UNCHANGED <<nodes, root, crashed>>

-----------------------------------------------------------------------------
Returning(rule) == /\ Parsing
                   /\ Top.rule = rule
                   /\ Top.result # 0
                   /\ Len(stack) > 1

Value == Top.result

(* Mutant of Located: the location of the last part alone is taken over.   *)
LocatedAtLast(first, last, n) == [n EXCEPT !.from = nodes[last].from, !.to = nodes[last].to]

(* setSourceLoc(n, first, last).                                           *)
Located(first, last, n) == [n EXCEPT !.from = nodes[first].from, !.to = nodes[last].to]

(* The caller is a binary rule: left associative.                          *)
ReturnOperand ==
    /\ Top.rule \in Range(Descent) /\ Returning(Top.rule)
    /\ Caller.rule \in DOMAIN Infix
    /\ IF Caller.op = 0
       THEN /\ SetCaller([Caller EXCEPT !.first = Value, !.result = Value])
            /\ UNCHANGED nodes
       ELSE /\ nodes' = Append(nodes, Located(Caller.first, Value,
                                 Node("binary", Caller.op, <<Caller.result, Value>>, 0, 0)))
            /\ SetCaller([Caller EXCEPT !.result = New, !.op = 0])
    /\ UNCHANGED <<tokens, root, crashed>>

(* The caller is unary: the operand of the last prefix operator.           *)
ReturnUnary ==
    /\ Returning("qualified_access")
    /\ IF Caller.op = 0
       THEN /\ SetCaller([Caller EXCEPT !.result = Value])
            /\ UNCHANGED nodes
       ELSE /\ nodes' = Append(nodes, Node("unary", Caller.op, <<Value>>,
                                           Caller.op, nodes[Value].to))
            /\ SetCaller([Caller EXCEPT !.result = New])
    /\ UNCHANGED <<tokens, root, crashed>>

(* The caller is qualified_access.  What follows a dot was parsed as a     *)
(* variable, maybe with an index: the access of a field takes the place of *)
(* the variable, and its null pointer if that is itself an indexed one.    *)
ReturnAccess ==
    LET ref == nodes[Value].args[1]
    IN  /\ Returning("array_access")
        /\ \/ /\ Caller.first = 0
              /\ SetCaller([Caller EXCEPT !.first = Value, !.result = Value])
              /\ UNCHANGED <<nodes, crashed>>
           \/ /\ Caller.first # 0 /\ nodes[Value].kind = "ref"
              /\ nodes' = Append(nodes, Located(Caller.first, Value,
                            Node("qualified", nodes[Value].at, <<Caller.result>>, 0, 0)))
              /\ SetCaller([Caller EXCEPT !.result = New])
              /\ UNCHANGED crashed
           \/ /\ Caller.first # 0 /\ nodes[Value].kind = "index" /\ nodes[ref].kind = "ref"
              /\ nodes' = Append([nodes EXCEPT ![Value] =
                                    Located(Caller.first, Value, [@ EXCEPT !.args[1] = New])],
                                 Node("qualified", nodes[ref].at, <<Caller.result>>, 0, 0))
              /\ SetCaller([Caller EXCEPT !.result = Value])
              /\ UNCHANGED crashed
           \/ /\ Caller.first # 0 /\ nodes[Value].kind = "index" /\ nodes[ref].kind # "ref"
              /\ crashed' = TRUE
              /\ UNCHANGED <<nodes, stack>>
        /\ UNCHANGED <<tokens, root>>

ReturnRelation ==
    /\ Returning("relation")
    /\ Caller.rule = "expression"
    /\ SetCaller([Caller EXCEPT !.result = Value])
    /\ UNCHANGED <<tokens, nodes, root, crashed>>

ReturnItem ==
    /\ Returning("expression")
    /\ SetCaller([Caller EXCEPT !.items = Append(@, Value)])
    /\ UNCHANGED <<tokens, nodes, root, crashed>>

NextItem ==
    /\ Top.rule \in {"[", "call", "new"}
    /\ Read(<<",">>)
    /\ Push(<<Started("expression", 0)>>)
    /\ UNCHANGED <<nodes, root, crashed>>

(* The closing bracket.  Parentheses make no node, they widen the location *)
(* of the expression in them.                                              *)
CloseGroup ==
    LET e == Top.items[1]
    IN  /\ Rule("(")
        /\ Read(<<")">>)
        /\ nodes' = [nodes EXCEPT ![e] = [@ EXCEPT !.from = Top.op, !.to = Here]]
        /\ SetCaller([Caller EXCEPT !.result = e])
        /\ UNCHANGED <<root, crashed>>

CloseIndex ==
    /\ Rule("[")
    /\ Read(<<"]">>)
    /\ nodes' = Append(nodes, Node("index", Top.op, <<Caller.result>> \o Top.items,
                                   nodes[Caller.result].from, Here))
    /\ SetCaller([Caller EXCEPT !.result = New])
    /\ UNCHANGED <<root, crashed>>

CloseList(rule, bracket, kind) ==
    /\ Rule(rule)
    /\ Read(<<bracket>>)
    /\ nodes' = Append(nodes, Node(kind, Top.op, Top.items, Top.op, Here))
    /\ SetCaller([Caller EXCEPT !.result = New])
    /\ UNCHANGED <<root, crashed>>

Finish ==
    /\ Parsing
    /\ Len(stack) = 1
    /\ Top.result # 0
    /\ root' = Top.result
    /\ UNCHANGED <<tokens, stack, nodes, crashed>>

Next ==
    \/ Relation \/ NewObject \/ NewArray
    \/ \E t \in InfixTokens : ReadInfix(t)
    \/ \E t \in PrefixTokens : ReadPrefix(t)
    \/ ReadName \/ OpenGroup \/ OpenCall \/ EmptyCall \/ OpenIndex \/ ReadDot
    \/ ReturnOperand \/ ReturnUnary \/ ReturnAccess \/ ReturnRelation \/ ReturnItem
    \/ NextItem \/ CloseGroup \/ CloseIndex
    \/ CloseList("call", ")", "call") \/ CloseList("new", "]", "array")
    \/ Finish

Spec == Init /\ [][Next]_vars

-----------------------------------------------------------------------------
(* The nodes of the tree, and the tokens that the tree below a node is     *)
(* named after.                                                            *)
Tree ==
    LET below[n \in DOMAIN nodes] == {n} \cup UNION {below[a] : a \in Range(nodes[n].args)}
    IN  IF root = 0 THEN {} ELSE below[root]

Extent ==
    LET extent[n \in DOMAIN nodes] ==
          {nodes[n].at} \cup UNION {extent[a] : a \in Range(nodes[n].args)}
    IN  extent

Before(S, T) == \A s \in S, t \in T : s < t

(* A token in the place of an operand is a prefix operator.                *)
IsPrefixOperator(i) == /\ tokens[i] \in PrefixOperators
                       /\ i > 1 => tokens[i - 1] \notin {"x", ")", "]"}

(* The tokens a node should be made for: all but brackets, separators, the *)
(* type after "new", and the prefix operators that another one follows.    *)
Meant(i) == /\ tokens[i] \notin {"(", ")", "]", ",", ".", "T"}
            /\ tokens[i] = "[" => tokens[i - 1] # "T"
            /\ IsPrefixOperator(i) => ~IsPrefixOperator(i + 1)

(* How many brackets are open at a token.                                  *)
Depth(i) == Cardinality({j \in 1..(i - 1) : tokens[j] \in {"(", "["}})
              - Cardinality({j \in 1..(i - 1) : tokens[j] \in {")", "]"}})

(* A name behind a dot, an index bracket and the next one behind the       *)
(* bracket that closes it.                                                 *)
Closes(k, i) == /\ tokens[k] = "]" /\ Depth(k) = Depth(i) + 1
                /\ \A j \in (i + 1)..(k - 1) : Depth(j) > Depth(i)

FieldIndexedTwice ==
    \E i, k \in DOMAIN tokens :
        /\ i + 2 < k /\ k < Len(tokens)
        /\ tokens[i] = "." /\ tokens[i + 2] = "[" /\ Closes(k, i + 2) /\ tokens[k + 1] = "["

(* A tree holds its sentence: each operand and operator is in it exactly   *)
(* once, operands and operators are in the order they were written, and    *)
(* nothing is lost except all but the last of a chain of prefix operators. *)
(* The parser fails on the sentences in which two index brackets follow a  *)
(* name behind a dot, and on no other (unary, qualified_access, the loops  *)
(* over operators).                                                        *)
TreeHoldsSentence ==
    /\ root # 0 =>
         /\ ~FieldIndexedTwice
         /\ {nodes[n].at : n \in Tree} = {i \in DOMAIN tokens : Meant(i)}
         /\ \A m, n \in Tree : nodes[m].at = nodes[n].at => m = n
         /\ \A n \in Tree :
              LET args == nodes[n].args
                  parts == [k \in DOMAIN args |-> Extent[args[k]]]
              IN  /\ \A j, k \in DOMAIN args : j < k => Before(parts[j], parts[k])
                  /\ nodes[n].kind \in {"binary", "qualified", "index"} =>
                        Before(parts[1], {nodes[n].at})
                  /\ nodes[n].kind = "binary" => Before({nodes[n].at}, parts[2])
                  /\ nodes[n].kind = "unary" => Before({nodes[n].at}, parts[1])
    /\ crashed => FieldIndexedTwice

Level(i) == CHOOSE k \in 1..4 : tokens[i] \in Infix[Descent[k]]

IsInfix(i) == tokens[i] \in UNION Range(Infix) /\ ~IsPrefixOperator(i)

(* Operators bind by their rule: between brackets of the same depth, the   *)
(* left operand of an infix operator holds no looser one, the right one    *)
(* only tighter ones, so that operators of one rule associate to the left, *)
(* and the operand of a prefix operator holds none (relation, comparison,  *)
(* add, mul, unary).                                                       *)
BindsByLevel ==
    root # 0 =>
      \A n \in {m \in Tree : nodes[m].kind \in {"binary", "unary"}} :
        LET Inner(k) == {i \in Extent[nodes[n].args[k]] :
                           IsInfix(i) /\ Depth(i) = Depth(nodes[n].at)}
        IN  IF nodes[n].kind = "unary" THEN Inner(1) = {}
            ELSE /\ \A i \in Inner(1) : Level(i) >= Level(nodes[n].at)
                 /\ \A i \in Inner(2) : Level(i) > Level(nodes[n].at)

(* The location an error is reported at covers the expression it is about, *)
(* and no node is without one but an access of a field that is indexed     *)
(* (setSourceLoc, qualified_access).                                       *)
Indexed(n) == \E m \in Tree : nodes[m].kind = "index" /\ nodes[m].args[1] = n

LocationsCover ==
    root # 0 =>
      \A n \in Tree :
        \/ nodes[n].kind = "qualified" /\ nodes[n].from = 0 /\ Indexed(n)
        \/ Extent[n] \subseteq nodes[n].from .. nodes[n].to
=============================================================================
