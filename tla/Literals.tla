------------------------------- MODULE Literals ------------------------------
(***************************************************************************)
(* What the texts of string and character literals become: the             *)
(* constructors of NStringLiteral and NCharLiteral (parser/ast/ast.cpp) on *)
(* the texts that the lexer rules of parser/antlr/JL.g accept.             *)
(***************************************************************************)
EXTENDS Integers, Sequences, SequencesExt, Functions

CONSTANTS
    Plain,      \* characters considered outside of escape sequences
    MaxUnits    \* bound on the characters and escapes of a literal

Backslash == "\\"

(* EscapeSequence: the characters after the backslash, and what they stand *)
(* for.  The octal escapes of a null character and a line feed, of one to  *)
(* three digits, and the unicode escape of a line feed represent the rest. *)
Escapes == [n |-> "line feed", t |-> "tab", r |-> "return", b |-> "backspace", f |-> "form feed"]
Quotes == {"'", "\""}
Octals == {<<"0">>, <<"1", "2">>, <<"0", "1", "2">>}
Unicodes == {<<"u", "0", "0", "0", "a">>}
Stands(e) == CASE e = <<"0">>                           -> "null"
               [] e \in (Octals \cup Unicodes) \ {<<"0">>} -> "line feed"
               [] e[1] \in DOMAIN Escapes               -> Escapes[e[1]]
               [] e[1] \in Quotes \cup {Backslash}      -> e[1]

Escaped == {<<Backslash>> \o e : e \in Octals \cup Unicodes
                                   \cup {<<c>> : c \in DOMAIN Escapes \cup Quotes \cup {Backslash}}}

LiteralsAssumption == Backslash \notin Plain /\ MaxUnits \in Nat

VARIABLE units  \* the literal between its quotes, as the lexer divides it

Text == FlattenSeq(units)

(* Mutant of Escape: no escape is translated.                              *)
EscapeNothing(c) == c

Escape(c) == IF c = "n" THEN "line feed" ELSE c

(* One round of the loop over the characters: "count" backslashes were     *)
(* read, which only an escape sequence of one resets.                      *)
Round(s, c) ==
    IF c = Backslash   THEN [s EXCEPT !.count = (@ + 1) % 256]
    ELSE IF s.count = 0 THEN [s EXCEPT !.value = Append(@, c)]
    ELSE IF s.count = 1 THEN [value |-> Append(s.value, Escape(c)), count |-> 0]
    ELSE [s EXCEPT !.value = @ \o [k \in 1..s.count |-> Backslash] \o <<c>>]

StringValue(text) == FoldLeft(Round, [value |-> <<>>, count |-> 0], text).value

CharValue(text) == IF text[1] = Backslash THEN Escape(text[2]) ELSE text[1]

-----------------------------------------------------------------------------
Init == units = <<>>

Next == /\ Len(units) < MaxUnits
        /\ \E u \in Escaped \cup {<<c>> : c \in Plain} : units' = Append(units, u)

Spec == Init /\ [][Next]_units

-----------------------------------------------------------------------------
(* The value of a string literal is what its text stands for exactly if it *)
(* holds no escape but those of a line feed and of quotes: the others lose *)
(* their backslash, and an escaped backslash is doubled, or lost at the    *)
(* end, and repeated before every character after it.  A character literal *)
(* may also be an escaped backslash (NStringLiteral, NCharLiteral, escape).*)
Meaning(u) == IF Len(u) = 1 THEN u[1] ELSE Stands(Tail(u))

Translated == {<<Backslash, c>> : c \in {"n"} \cup Quotes}

LiteralsMean ==
    LET escapes == {u \in Range(units) : u[1] = Backslash}
    IN  /\ StringValue(Text) = [i \in DOMAIN units |-> Meaning(units[i])]
              <=> escapes \subseteq Translated
        /\ Len(units) = 1 =>
              (CharValue(Text) = Meaning(units[1])
                 <=> escapes \subseteq Translated \cup {<<Backslash, Backslash>>})
=============================================================================
