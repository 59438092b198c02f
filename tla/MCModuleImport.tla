--------------------------- MODULE MCModuleImport ---------------------------
(* Families of source trees on which TLC checks ModuleImport.              *)
EXTENDS ModuleImport

CONSTANTS M, A, B, C   \* the compiled file and three modules
CONSTANTS X, Y      \* struct names
CONSTANTS F, G      \* mangled function names
CONSTANTS S1, S2    \* signatures that mangle alike

MCModules == {M, A, B, C}
MCClassNames == {X, Y}
MCKeys == {F, G}
MCSigs == {S1, S2}

Struct(c, uses) == [name |-> c, uses |-> uses]
Decl(k, sig, body) == [key |-> k, sig |-> sig, uses |-> {}, body |-> body, mainOk |-> TRUE]

File(present, imports, classes, functions) ==
    [present |-> present, imports |-> imports, classes |-> classes, functions |-> functions]

Absent == File(FALSE, <<>>, <<>>, <<>>)

(* Every import graph of three files with up to two imports in Main, with  *)
(* repeated imports, cycles and Main importing itself, under a choice of   *)
(* structs; each file declares the function F.                             *)
ImportPrograms ==
    {[m \in MCModules |->
        CASE m = M -> File(TRUE, im, cm, <<Decl(F, S1, TRUE)>>)
          [] m = A -> File(TRUE, ia, ca, <<Decl(F, S1, TRUE)>>)
          [] m = B -> File(pb, ib, cb, <<Decl(F, S1, FALSE), Decl(G, S2, FALSE)>>)
          [] m = C -> Absent] :
       im \in {<<>>, <<A>>, <<A, B>>, <<B, A>>, <<A, A>>, <<M>>},
       ia \in {<<>>, <<B>>, <<A>>, <<M>>, <<B, B>>},
       ib \in {<<>>, <<A>>},
       cm \in {<<>>, <<Struct(X, {Y})>>, <<Struct(X, {}), Struct(X, {})>>},
       ca \in {<<>>, <<Struct(X, {})>>},
       cb \in {<<>>, <<Struct(Y, {X})>>, <<Struct(X, {})>>},
       pb \in BOOLEAN}
      \cup {[m \in MCModules |-> File(m # M, <<>>, <<>>, <<>>)]}

(* Declarations of one key in several files and twice in Main, with or     *)
(* without body, in both import orders, and signatures that cannot be      *)
(* resolved or are wrong for main.                                         *)
Functions1 == {<<>>} \cup {<<Decl(F, s, b)>> : s \in MCSigs, b \in BOOLEAN}

Functions2 ==
    Functions1
      \cup {<<Decl(F, s, b), Decl(F, t, c)>> : s, t \in MCSigs, b, c \in BOOLEAN}
      \cup {<<Decl(F, S1, TRUE), Decl(G, S2, TRUE)>>}
      \cup {<<[Decl(F, S1, TRUE) EXCEPT !.uses = {X}]>>}
      \cup {<<[Decl(G, S1, TRUE) EXCEPT !.mainOk = FALSE]>>}

FunctionPrograms ==
    {[m \in MCModules |->
        CASE m = M -> File(TRUE, im, <<>>, fm)
          [] m = A -> File(TRUE, <<>>, <<>>, fa)
          [] m = B -> File(TRUE, <<>>, IF fb = <<>> THEN <<>> ELSE <<Struct(X, {})>>, fb)
          [] m = C -> Absent] :
       im \in {<<A, B>>, <<B, A>>}, fm \in Functions2, fa \in Functions1,
       fb \in {<<>>, <<Decl(F, S1, TRUE)>>, <<Decl(F, S2, FALSE)>>}}

(* Four files: a module that comes to Main along two imports, and more     *)
(* than one order in which modules can be published.                       *)
DiamondPrograms ==
    {[m \in MCModules |->
        CASE m = M -> File(TRUE, im, <<>>, <<>>)
          [] m = A -> File(TRUE, ia, <<>>, <<Decl(F, S1, FALSE)>>)
          [] m = B -> File(TRUE, ib, cb, <<>>)
          [] m = C -> File(TRUE, ic, cc, <<Decl(G, S1, FALSE)>>)] :
       im \in {<<A, B>>, <<A, C>>, <<B, C, A>>}, ia \in {<<>>, <<C>>, <<B, C>>},
       ib \in {<<>>, <<C>>}, ic \in {<<>>, <<A>>},
       cb \in {<<>>, <<Struct(X, {})>>}, cc \in {<<>>, <<Struct(Y, {})>>, <<Struct(X, {Y})>>}}

MCPrograms == ImportPrograms \cup FunctionPrograms \cup DiamondPrograms
=============================================================================
