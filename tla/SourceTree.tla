----------------------------- MODULE SourceTree -----------------------------
(***************************************************************************)
(* The source files of a juli program as the declaration pass sees them:   *)
(* the import statements, struct definitions and function definitions at   *)
(* the top level of each file, each kind in source order.                  *)
(***************************************************************************)
EXTENDS Integers, Sequences, SequencesExt, Functions, FiniteSets

CONSTANTS
    Modules,     \* module names: what an import statement can name
    Main,        \* the module whose file is given to the compiler
    ClassNames,  \* names of struct definitions
    Keys,        \* mangled function names
    Sigs,        \* what a mangled name leaves open: result, parameter names, varargs
    Programs,    \* the source trees considered
    None         \* a null pointer, an absent entry

(* "uses" are the struct names that the fields, or the result and the      *)
(* parameters, mention.  "mainOk" is FALSE for a function named main whose *)
(* signature is not int main(char[][]).                                    *)
ClassDef == [name : ClassNames, uses : SUBSET ClassNames]

FunctionDef == [key : Keys, sig : Sigs, uses : SUBSET ClassNames,
                body : BOOLEAN, mainOk : BOOLEAN]

Source == [present : BOOLEAN, imports : Seq(Modules),
           classes : Seq(ClassDef), functions : Seq(FunctionDef)]

(* A type table maps struct names to the module that owns the class; a     *)
(* function table is a set of entries of the function pool.                *)
TypeInfo == [types : SUBSET (ClassNames \X Modules), functions : SUBSET Keys]

ASSUME MainAssumption == Main \in Modules
ASSUME ProgramsAssumption == Programs \subseteq [Modules -> Source]
ASSUME NoneAssumption == None \notin TypeInfo \cup Modules

VARIABLE program  \* the source tree being compiled; never changes

Imports(m) == Range(program[m].imports)

Names(types) == {p[1] : p \in types}

OwnTypes(m) == {<<d.name, m>> : d \in Range(program[m].classes)}

OwnKeys(m) == {d.key : d \in Range(program[m].functions)}

-----------------------------------------------------------------------------
(* Modules reachable from m: the members of every import-closed set that   *)
(* holds m.                                                                *)
Closed(S) == \A m \in S : Imports(m) \subseteq S

Reach(m) == {n \in Modules : \A S \in SUBSET Modules : m \in S /\ Closed(S) => n \in S}

(* m is on an import cycle, or imports its way into one.                   *)
Cyclic(m) == \E n \in Reach(m) : \E i \in Imports(n) : n \in Reach(i)
=============================================================================
