----------------------------- MODULE MCCompile ------------------------------
(* Families of compiled files on which TLC checks Compile.                 *)
EXTENDS Compile

CONSTANTS X, Y   \* variable names
CONSTANTS F, G   \* mangled function names

MCNames == {X, Y}
MCKeys == {F, G}

Tok(op, name, uses, sig) == [op |-> op, name |-> name, uses |-> uses, sig |-> sig]
Simple(op, uses) == Tok(op, None, uses, None)

Declare(n, uses) == <<Tok("declare", n, uses, None)>>
Use(uses) == <<Simple("evaluate", uses)>>
Ret == <<Simple("return", {})>>
Value(uses) == <<Simple("returnValue", uses)>>
End == <<Simple("end", {})>>
Other == <<Simple("other", {})>>

If(c, b) == <<Simple("if", c)>> \o b \o End
IfElse(c, b, d) == <<Simple("if", c)>> \o b \o <<Simple("else", {})>> \o d \o End
ElseIf(c, b, d, e) == <<Simple("if", c)>> \o b \o <<Simple("elseif", d)>> \o e \o End
Chain(c, b, d, e) == <<Simple("if", c)>> \o b \o <<Simple("elseif", d)>> \o e
                       \o <<Simple("else", {})>> \o b \o End
While(c, b) == <<Simple("while", c)>> \o b \o End

Sig(k, params, void) == [key |-> k, params |-> params, void |-> void]
Function(sig, body) == <<Tok("function", None, {}, sig)>> \o body \o End
Forward(sig) == <<Tok("forward", None, {}, sig)>>

File(imported, tokens) == [imported |-> imported, tokens |-> tokens]

(* One void function with a parameter: every pair of statements, compound  *)
(* ones with the blocks below, and every triple around an inner block.     *)
Blocks == {<<>>, Use({X}), Use({Y}), Declare(X, {}), Declare(Y, {X}),
           Declare(Y, {}) \o Use({Y}), Declare(X, {X}) \o Use({X})}

Compound(bs) == {If({X}, b) : b \in bs} \cup {While({Y}, b) : b \in bs}
                  \cup {IfElse({X}, b, c) : b, c \in bs}
                  \cup {ElseIf({X}, b, {Y}, c) : b, c \in bs}

Singles == {<<>>, Use({X}), Use({Y}), Declare(X, {}), Declare(Y, {X})}

ScopeBodies == {s \o c \o u : s \in Singles, c \in Compound(Blocks), u \in {Use({X}), Use({X, Y})}}
                 \cup {Declare(Y, {}) \o While({Y}, c) \o Use({Y}) :
                         c \in Compound({Declare(X, {}), Use({X})})}

ScopeFiles == {File(<<>>, Function(Sig(F, <<X>>, TRUE), b)) : b \in ScopeBodies}

(* Returns: a value function or a void one, statements and blocks with and *)
(* without a return.                                                       *)
ReturnFiles(void) ==
    LET r == IF void THEN Ret ELSE Value({})
        bodies == {<<>>, r, Use({}), Declare(X, {}), Use({}) \o r, r \o Use({})}
        compound == {If({}, b) : b \in bodies} \cup {While({}, b) : b \in bodies}
                      \cup {IfElse({}, b, c) : b, c \in bodies}
                      \cup {Chain({}, b, {}, c) : b, c \in bodies}
                      \cup {IfElse({}, If({}, b), r) : b \in bodies}
        lasts == {<<>>, r, Use({}), Declare(Y, {}), Other, r \o Other}
    IN  {File(<<>>, Function(Sig(F, <<>>, void), c \o l)) : c \in compound, l \in lasts}
          \cup {File(<<>>, Function(Sig(F, <<>>, void), l \o c)) : c \in compound, l \in lasts}

(* Several functions: forward and imported declarations, renamed           *)
(* parameters, two definitions in a row, a nested one.                     *)
Bodies == {<<>>, Use({X}), Use({Y}), Declare(Y, {X}) \o Use({Y}), Ret, Use({X}) \o Ret}

Nested == {Function(Sig(k, <<X>>, TRUE), b) : k \in MCKeys, b \in {<<>>, Use({X}), Use({Y})}}
            \cup {Forward(Sig(k, <<X>>, TRUE)) : k \in MCKeys}

FunctionFiles ==
    {File(i, Function(Sig(F, <<p>>, TRUE), b) \o Function(Sig(G, <<X>>, TRUE), c)) :
       i \in {<<>>, <<Sig(G, <<Y>>, TRUE)>>, <<Sig(G, <<X>>, FALSE)>>},
       p \in {X, Y}, b \in Bodies, c \in Bodies}
      \cup {File(<<>>, Forward(Sig(F, <<p>>, TRUE)) \o Function(Sig(F, q, TRUE), b)
                         \o Forward(Sig(g, <<X>>, TRUE))) :
              p \in {X, Y}, q \in {<<X>>, <<X, X>>}, g \in MCKeys, b \in Bodies}
      \cup {File(<<>>, Function(Sig(F, <<Y>>, TRUE), b \o n \o c)) :
              b \in {<<>>, Declare(X, {})}, n \in Nested,
              c \in {<<>>, Ret, Use({Y}), Use({X}), If({Y}, Use({X}))}}

MCUnits == ScopeFiles \cup ReturnFiles(TRUE) \cup ReturnFiles(FALSE) \cup FunctionFiles
BodyFiles == ReturnFiles(FALSE) \cup ReturnFiles(TRUE)

(* Returns inside a compound statement, all paths ending in one.           *)
EarlyBodies == {Value({}), Use({}) \o Value({})}
EarlyFiles ==
    {File(<<>>, Function(Sig(F, <<>>, FALSE), c \o l)) :
       c \in {If({}, b) : b \in EarlyBodies} \cup {While({}, b) : b \in EarlyBodies}
               \cup {IfElse({}, b, d) : b, d \in EarlyBodies}
               \cup {Chain({}, b, {}, d) : b, d \in EarlyBodies},
       l \in EarlyBodies}
=============================================================================
