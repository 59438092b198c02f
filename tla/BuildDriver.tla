----------------------------- MODULE BuildDriver -----------------------------
(***************************************************************************)
(* The build driver (builder/src/juli/builder/Builder.java): it runs the   *)
(* compiler on every source file and then the linker on the objects.  Each *)
(* command is a process that writes to two pipes of bounded capacity,      *)
(* which the driver empties one after the other.  What a command does is   *)
(* modelled from how the driver uses it and from what main.cpp returns.    *)
(***************************************************************************)
EXTENDS Integers, Sequences, SequencesExt, FiniteSets

CONSTANTS
    Builds,       \* sequences of files given on the command line
    Outputs,      \* what a command may write: sequences of "out" and "err"
    Capacity,     \* writes a pipe holds
    MaxDepth,     \* bound: directories inside one another
    None          \* no process, no file

ASSUME DriverAssumption == /\ Capacity \in Nat \ {0}
                           /\ MaxDepth \in Nat
                           /\ Outputs \subseteq Seq({"out", "err"})

(* A file or directory: its name without and with what follows the last    *)
(* dot ("none" if there is no dot), and for a directory what it contains.  *)
IsSource(f) == f.extension = "jl"
Object(f) == f.base

VARIABLES
    args,      \* the command line
    todo,      \* files and directories still to be compiled, in order
    objects,   \* Builder.objects
    disk,      \* object file |-> the source it was made from
    process,   \* the last command run: its source, unwritten output, state
    pipes,     \* writes in the pipes of stdout and stderr
    reading,   \* what executeCommand is at: "out", "err", "exit"; "none" outside
    linked,    \* the sources in the program linked, None before
    state      \* "compiling", "linking", "done", "failed", "crashed"

vars == <<args, todo, objects, disk, process, pipes, reading, linked, state>>

Idle == reading = "none"

Init == /\ args \in Builds
        /\ todo = args
        /\ objects = <<>>
        /\ disk = [o \in {} |-> None]
        /\ process = [for |-> None, output |-> <<>>, code |-> 0, running |-> FALSE]
        /\ pipes = [out |-> 0, err |-> 0]
        /\ reading = "none"
        /\ linked = None
        /\ state = "compiling"

-----------------------------------------------------------------------------
(* Mutant of Exec: stderr is read first.                                   *)
ExecStderrFirst(f) ==
    /\ \E output \in Outputs, code \in {0, 1} :
         process' = [for |-> f, output |-> output, code |-> code, running |-> TRUE]
    /\ reading' = "err"

(* exec: the command will write some output and exit with some code.       *)
Exec(f) == /\ \E output \in Outputs, code \in {0, 1} :
                process' = [for |-> f, output |-> output, code |-> code, running |-> TRUE]
           /\ reading' = "out"

(* Mutant of EnterDirectory: what follows a directory is forgotten.        *)
EnterDirectoryLast ==
    /\ state = "compiling" /\ Idle /\ todo # <<>> /\ Head(todo).directory
    /\ \A f \in Head(todo).files : f.extension # "none"
    /\ todo' \in SetToSeqs({f \in Head(todo).files : IsSource(f)})
    /\ UNCHANGED <<args, objects, disk, process, pipes, reading, linked, state>>

(* A directory is replaced by its source files, in whatever order they are *)
(* listed; the filter throws on a name without a dot.                      *)
EnterDirectory ==
    /\ state = "compiling" /\ Idle /\ todo # <<>> /\ Head(todo).directory
    /\ \A f \in Head(todo).files : f.extension # "none"
    /\ \E order \in SetToSeqs({f \in Head(todo).files : IsSource(f)}) :
         todo' = order \o Tail(todo)
    /\ UNCHANGED <<args, objects, disk, process, pipes, reading, linked, state>>

Compile ==
    /\ state = "compiling" /\ Idle /\ todo # <<>> /\ ~Head(todo).directory
    /\ Head(todo).extension # "none"
    /\ Exec(Head(todo))
    /\ UNCHANGED <<args, todo, objects, disk, pipes, linked, state>>

NoExtension ==
    /\ state = "compiling" /\ Idle /\ todo # <<>>
    /\ IF Head(todo).directory
       THEN \E f \in Head(todo).files : f.extension = "none"
       ELSE Head(todo).extension = "none"
    /\ state' = "crashed"
    /\ UNCHANGED <<args, todo, objects, disk, process, pipes, reading, linked>>

Link ==
    /\ state = "compiling" /\ Idle /\ todo = <<>>
    /\ Exec(None)
    /\ state' = "linking"
    /\ UNCHANGED <<args, todo, objects, disk, pipes, linked>>

-----------------------------------------------------------------------------
(* The process: it blocks on a full pipe.  It makes its file if it exits   *)
(* with 0.                                                                 *)
Write ==
    /\ ~Idle /\ process.running /\ process.output # <<>>
    /\ pipes[Head(process.output)] < Capacity
    /\ pipes' = [pipes EXCEPT ![Head(process.output)] = @ + 1]
    /\ process' = [process EXCEPT !.output = Tail(@)]
    /\ UNCHANGED <<args, todo, objects, disk, reading, linked, state>>

Exit ==
    /\ ~Idle /\ process.running /\ process.output = <<>>
    /\ process' = [process EXCEPT !.running = FALSE]
    /\ IF process.code # 0 THEN UNCHANGED <<disk, linked>>
       ELSE IF state = "linking"
       THEN linked' = {disk[o] : o \in Range(objects)} /\ UNCHANGED disk
       ELSE /\ disk' = [o \in DOMAIN disk \cup {Object(process.for)} |->
                          IF o = Object(process.for) THEN process.for ELSE disk[o]]
            /\ UNCHANGED linked
    /\ UNCHANGED <<args, todo, objects, pipes, reading, state>>

-----------------------------------------------------------------------------
(* Mutant of Read: stderr is not read.                                     *)
ReadStdout ==
    /\ reading \in {"out", "err"}
    /\ \/ /\ pipes[reading] > 0
          /\ pipes' = [pipes EXCEPT ![reading] = @ - 1]
          /\ UNCHANGED reading
       \/ /\ pipes[reading] = 0 /\ ~process.running
          /\ reading' = "exit"
          /\ UNCHANGED pipes
    /\ UNCHANGED <<args, todo, objects, disk, process, linked, state>>

(* executeCommand: redirect stdout to its end, then stderr, then wait.     *)
Read ==
    /\ reading \in {"out", "err"}
    /\ \/ /\ pipes[reading] > 0
          /\ pipes' = [pipes EXCEPT ![reading] = @ - 1]
          /\ UNCHANGED reading
       \/ /\ pipes[reading] = 0 /\ ~process.running
          /\ reading' = IF reading = "out" THEN "err" ELSE "exit"
          /\ UNCHANGED pipes
    /\ UNCHANGED <<args, todo, objects, disk, process, linked, state>>

(* Mutant of Compiled: the exit code is not looked at.                     *)
CompiledAnyhow ==
    /\ state = "compiling" /\ reading = "exit"
    /\ objects' = Append(objects, Object(process.for))
    /\ todo' = Tail(todo)
    /\ reading' = "none"
    /\ UNCHANGED <<args, disk, process, pipes, linked, state>>

Compiled ==
    /\ state = "compiling" /\ reading = "exit"
    /\ process.code = 0
    /\ objects' = Append(objects, Object(process.for))
    /\ todo' = Tail(todo)
    /\ reading' = "none"
    /\ UNCHANGED <<args, disk, process, pipes, linked, state>>

CompilationFailed ==
    /\ state = "compiling" /\ reading = "exit"
    /\ process.code > 0
    /\ state' = "failed"
    /\ reading' = "none"
    /\ UNCHANGED <<args, todo, objects, disk, process, pipes, linked>>

(* The linker's exit code is not looked at.                                *)
LinkDone ==
    /\ state = "linking" /\ reading = "exit"
    /\ state' = "done"
    /\ reading' = "none"
    /\ UNCHANGED <<args, todo, objects, disk, process, pipes, linked>>

DriverNext == \/ EnterDirectory \/ Compile \/ NoExtension \/ Link
              \/ Read \/ Compiled \/ CompilationFailed \/ LinkDone
CommandNext == Write \/ Exit

Next == DriverNext \/ CommandNext

(* Both processes are scheduled by the operating system.                   *)
Spec == Init /\ [][Next]_vars /\ WF_vars(DriverNext) /\ WF_vars(CommandNext)

-----------------------------------------------------------------------------
(* The files a build has to compile: those given and, for each directory,  *)
(* its source files, however deep.                                         *)
Inside(fs) == fs \cup {f \in UNION {g.files : g \in {h \in fs : h.directory}} : IsSource(f)}

Levels(given) ==
    LET level[n \in 0..MaxDepth] == IF n = 0 THEN given ELSE Inside(level[n - 1])
    IN  level

Listed(given) == Levels(given)[MaxDepth]

AllSources == {f \in Listed(Range(args)) : ~f.directory}

(* No directory is deeper than the bound, and each lists finitely many     *)
(* files.                                                                  *)
ASSUME BuildsAssumption ==
    \A b \in Builds :
        /\ b \in Seq(Range(b))
        /\ Inside(Listed(Range(b))) \subseteq Listed(Range(b))
        /\ \A f \in Listed(Range(b)) : f.directory => IsFiniteSet(f.files)

(* The command waits for room in the pipe of stderr while the driver waits *)
(* for the end of its stdout: neither goes on.                             *)
Choked == /\ ~Idle /\ process.running /\ reading = "out" /\ pipes.out = 0
          /\ process.output # <<>> /\ Head(process.output) = "err"
          /\ pipes.err = Capacity

(* A build ends, unless a command writes more to stderr than a pipe holds. *)
BuildEnds == <>[](state \in {"done", "failed", "crashed"} \/ Choked)

(* Output of one command is never read as that of the next: the pipes are  *)
(* empty whenever a command is started or its exit code is looked at.      *)
PipesDrained == Idle \/ reading = "exit" => pipes = [out |-> 0, err |-> 0]

(* Nothing is linked before every source has been compiled without error,  *)
(* and what is linked is, for each object file name, the source compiled   *)
(* last under it: all of them exactly if no two sources share a name.      *)
DistinctNames == \A f, g \in AllSources : Object(f) = Object(g) => f = g

LinksEverySource ==
    linked # None =>
        /\ {Object(f) : f \in linked} = {Object(f) : f \in AllSources}
        /\ linked = AllSources <=> DistinctNames

(* The objects recorded for the linker are on disk, and only that of the   *)
(* command being run is on disk and not recorded.                          *)
ObjectsExist ==
    /\ Range(objects) \subseteq DOMAIN disk
    /\ \A o \in DOMAIN disk \ Range(objects) :
         state = "compiling" /\ ~Idle /\ o = Object(process.for)
=============================================================================
