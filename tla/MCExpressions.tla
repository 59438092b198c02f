---------------------------- MODULE MCExpressions ---------------------------
(* Expressions from their text to their value, for TLC to check            *)
(* Evaluation, ExpressionParser and Literals: a behaviour is one of them.  *)
EXTENDS Evaluation

CONSTANTS c, p

(* Four chars and eight ints, of which the largest literals are none; two  *)
(* of the addresses agree in the width of an int, and one is that of null. *)
MCRange8 == 4
MCRange32 == 8
MCLiterals == {2, 3, 4, 9}
MCDoubles == {-2, 0, 3}
MCVariables == {c, p}
MCAddresses == {3, 8, 11}
MCMaxNodes == 6

-----------------------------------------------------------------------------
VARIABLES tokens, rules, tree, root, crashed, units

texts == <<tokens, rules, tree, root, crashed, units>>

(* An operator of each rule, and "-" in both of its roles.                 *)
Parser == INSTANCE ExpressionParser WITH
            InfixTokens <- {"<", "-", "*"}, PrefixTokens <- {"-"}, MaxTokens <- 9,
            stack <- rules, nodes <- tree

(* "n" also occurs as a plain character.                                   *)
Literal == INSTANCE Literals WITH Plain <- {"n", "x"}, MaxUnits <- 4

ASSUME TextsAssumption == Parser!TokensAssumption /\ Literal!LiteralsAssumption

-----------------------------------------------------------------------------
NoText == Parser!Init /\ Literal!Init

ExpressionInit == Init /\ NoText

Evaluate == NoText /\ Next /\ UNCHANGED texts

(* Texts are read in one of the initial states of Evaluation.              *)
AtFirst == nodes = 0 /\ \A x \in Variables : variable[x] = Null

Parse == AtFirst /\ Literal!Init /\ Parser!Next /\ UNCHANGED <<vars, units>>
ReadLiteral == AtFirst /\ Parser!Init /\ Literal!Next
                 /\ UNCHANGED <<vars, tokens, rules, tree, root, crashed>>

ExpressionSpec == ExpressionInit /\ [][Evaluate \/ Parse \/ ReadLiteral]_<<vars, texts>>

(* The properties of the other two, which are stated there.                *)
TreeHoldsSentence == Parser!TreeHoldsSentence
BindsByLevel == Parser!BindsByLevel
LocationsCover == Parser!LocationsCover
LiteralsMean == Literal!LiteralsMean
=============================================================================
