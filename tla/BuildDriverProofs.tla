-------------------------- MODULE BuildDriverProofs --------------------------
(* Proofs about the build driver, for every command line, every output of  *)
(* the commands and every capacity of the pipes.                           *)
EXTENDS BuildDriver, Induction

(* The pipes and what is read of them.  Once executeCommand has seen the   *)
(* end of a pipe the command has ended and that pipe is empty: it cannot   *)
(* be filled again.                                                        *)
ProcessOK ==
    /\ process = [for |-> process.for, output |-> process.output,
                  code |-> process.code, running |-> process.running]
    /\ process.output \in Seq({"out", "err"})
    /\ process.running \in BOOLEAN

Drained ==
    /\ reading # "out" => ~process.running /\ pipes["out"] = 0
    /\ reading \in {"none", "exit"} => pipes["err"] = 0

Exchange ==
    /\ pipes \in [{"out", "err"} -> Nat]
    /\ reading \in {"none", "out", "err", "exit"}
    /\ ProcessOK
    /\ Drained

(* Every command starts with empty pipes.                                  *)
LEMMA ExecKeeps ==
    ASSUME Exchange, NEW f, Exec(f), UNCHANGED pipes
    PROVE  Exchange'
<1>1. PICK output \in Outputs, code \in {0, 1} :
         process' = [for |-> f, output |-> output, code |-> code, running |-> TRUE]
  BY DEF Exec
<1>2. output \in Seq({"out", "err"})
  BY DriverAssumption
<1>3. reading' = "out"
  BY DEF Exec
<1>4. ProcessOK'
  BY <1>1, <1>2 DEF ProcessOK
<1>. QED
  BY <1>3, <1>4 DEF Exchange, Drained

(* A running command is still being read from its stdout.                  *)
LEMMA WriteKeeps == ASSUME Exchange, Write PROVE Exchange'
<1>1. process.running /\ reading = "out" /\ reading' = "out"
  BY DEF Exchange, Drained, Write
<1>2. /\ process.output # <<>> /\ process.output \in Seq({"out", "err"})
      /\ pipes \in [{"out", "err"} -> Nat]
  BY DEF Exchange, ProcessOK, Write
<1>3. Head(process.output) \in {"out", "err"} /\ Tail(process.output) \in Seq({"out", "err"})
  BY <1>2
<1>4. pipes' \in [{"out", "err"} -> Nat]
  BY <1>2, <1>3 DEF Write
<1>5. ProcessOK'
  <2>1. process' = [process EXCEPT !.output = Tail(process.output)]
    BY DEF Write
  <2>2. process = [for |-> process.for, output |-> process.output,
                   code |-> process.code, running |-> process.running]
    BY DEF Exchange, ProcessOK
  <2>3. process' = [for |-> process.for, output |-> Tail(process.output),
                    code |-> process.code, running |-> process.running]
    BY <2>1, <2>2
  <2>4. process.running \in BOOLEAN
    BY DEF Exchange, ProcessOK
  <2>. QED
    BY <1>3, <2>3, <2>4 DEF ProcessOK
<1>. QED
  BY <1>1, <1>4, <1>5 DEF Exchange, Drained

LEMMA ExitKeeps == ASSUME Exchange, Exit PROVE Exchange'
<1>1. reading = "out" /\ reading' = "out" /\ pipes' = pipes
  BY DEF Exchange, Drained, Exit
<1>2. ProcessOK'
  <2>1. process' = [process EXCEPT !.running = FALSE]
    BY DEF Exit
  <2>2. process = [for |-> process.for, output |-> process.output,
                   code |-> process.code, running |-> process.running]
    BY DEF Exchange, ProcessOK
  <2>3. process' = [for |-> process.for, output |-> process.output,
                    code |-> process.code, running |-> FALSE]
    BY <2>1, <2>2
  <2>. QED
    BY <2>3 DEF ProcessOK, Exchange
<1>. QED
  BY <1>1, <1>2 DEF Exchange, Drained

LEMMA ReadKeeps == ASSUME Exchange, Read PROVE Exchange'
<1>1. ProcessOK' /\ process' = process
  BY DEF Exchange, ProcessOK, Read
<1>2. CASE pipes[reading] > 0 /\ pipes' = [pipes EXCEPT ![reading] = @ - 1] /\ reading' = reading
  BY <1>1, <1>2 DEF Exchange, Drained, Read
<1>3. CASE /\ pipes[reading] = 0 /\ ~process.running
           /\ reading' = IF reading = "out" THEN "err" ELSE "exit"
           /\ pipes' = pipes
  BY <1>1, <1>3 DEF Exchange, Drained, Read
<1>. QED
  BY <1>2, <1>3 DEF Read

(* Nothing else touches a pipe, and the other steps of the driver that     *)
(* change what it reads come after the exit of a command.                  *)
LEMMA ReturnKeeps ==
    ASSUME Exchange, UNCHANGED <<pipes, process>>,
           \/ UNCHANGED reading
           \/ reading = "exit" /\ reading' = "none"
    PROVE  Exchange'
BY DEF Exchange, Drained, ProcessOK

LEMMA ExchangeStep == ASSUME Exchange, [Next]_vars PROVE Exchange'
<1>1. CASE EnterDirectory
  BY <1>1, ReturnKeeps DEF EnterDirectory
<1>2. CASE Compile
  BY <1>2, ExecKeeps DEF Compile
<1>3. CASE NoExtension
  BY <1>3, ReturnKeeps DEF NoExtension
<1>4. CASE Link
  BY <1>4, ExecKeeps DEF Link
<1>5. CASE Read
  BY <1>5, ReadKeeps
<1>6. CASE Compiled
  BY <1>6, ReturnKeeps DEF Compiled
<1>7. CASE CompilationFailed
  BY <1>7, ReturnKeeps DEF CompilationFailed
<1>8. CASE LinkDone
  BY <1>8, ReturnKeeps DEF LinkDone
<1>9. CASE Write
  BY <1>9, WriteKeeps
<1>10. CASE Exit
  BY <1>10, ExitKeeps
<1>11. CASE UNCHANGED vars
  BY <1>11, ReturnKeeps DEF vars
<1>. QED
  BY <1>1, <1>2, <1>3, <1>4, <1>5, <1>6, <1>7, <1>8, <1>9, <1>10, <1>11
     DEF Next, DriverNext, CommandNext

(* The output of one command is never read as that of the next: whenever   *)
(* no command is run, and when the exit code of one is looked at, both     *)
(* pipes are empty.                                                        *)
THEOREM OutputsStaySeparate == Spec => []PipesDrained
<1>1. Init => Exchange
  BY DEF Init, Exchange, Drained, ProcessOK
<1>2. Exchange /\ [Next]_vars => Exchange'
  BY ExchangeStep
<1>3. Exchange => PipesDrained
  BY DEF Exchange, Drained, PipesDrained, Idle
<1>. QED
  BY <1>1, <1>2, <1>3, PTL DEF Spec

-----------------------------------------------------------------------------
(* Objects on disk and objects recorded.  The object of the source being   *)
(* compiled is on disk once the compiler has ended with 0, and until then  *)
(* every object on disk is recorded.                                       *)
Ended == ~process.running /\ process.code = 0

Kept ==
    /\ process.code \in Nat
    /\ ~Idle => state \in {"compiling", "linking"}
    /\ objects \in Seq(Range(objects))
    /\ Range(objects) \subseteq DOMAIN disk
    /\ \A o \in DOMAIN disk \ Range(objects) :
         state = "compiling" /\ ~Idle /\ o = Object(process.for) /\ Ended
    /\ state = "compiling" /\ ~Idle /\ Ended => Object(process.for) \in DOMAIN disk

LEMMA AppendRange ==
    ASSUME NEW S, NEW s \in Seq(S), NEW e
    PROVE  /\ Range(Append(s, e)) = Range(s) \cup {e}
           /\ Append(s, e) \in Seq(Range(Append(s, e)))
<1>1. /\ Len(s) \in Nat /\ DOMAIN s = 1..Len(s)
      /\ s \in Seq(S \cup {e}) /\ e \in S \cup {e}
  OBVIOUS
<1>2. /\ DOMAIN Append(s, e) = 1..(Len(s) + 1)
      /\ Append(s, e)[Len(s) + 1] = e
      /\ \A i \in 1..Len(s) : Append(s, e)[i] = s[i]
      /\ Append(s, e) \in Seq(S \cup {e})
  BY <1>1
<1>3. Range(Append(s, e)) = Range(s) \cup {e}
  BY <1>1, <1>2 DEF Range
<1>4. \A i \in 1..(Len(s) + 1) : Append(s, e)[i] \in Range(Append(s, e))
  BY <1>2 DEF Range
<1>5. Append(s, e) \in Seq(Range(Append(s, e)))
  BY <1>1, <1>2, <1>4
<1>. QED
  BY <1>3, <1>5

(* No command has ended when one is started.                               *)
LEMMA ExecKeepsObjects ==
    ASSUME Kept, Idle, NEW f, Exec(f), UNCHANGED <<objects, disk>>,
           state' \in {"compiling", "linking"}
    PROVE  Kept'
<1>1. process'.running /\ process'.code \in Nat
  BY DEF Exec
<1>. QED
  BY <1>1 DEF Kept, Ended

(* Before the exit of a compiler no object on disk is unrecorded; after it *)
(* there is at most its own.                                               *)
LEMMA ExitKeepsObjects ==
    ASSUME Kept, ProcessOK, Exit
    PROVE  Kept'
<1>1. /\ process' = [process EXCEPT !.running = FALSE]
      /\ process.running /\ ~Ended
      /\ UNCHANGED <<objects, reading, state>> /\ ~Idle
  BY DEF Exit, Ended
<1>2. /\ process'.for = process.for /\ process'.code = process.code
      /\ process'.running = FALSE
  BY <1>1 DEF ProcessOK
<1>3. DOMAIN disk \subseteq Range(objects)
  BY <1>1 DEF Kept
<1>4. CASE process.code # 0
  BY <1>1, <1>2, <1>3, <1>4 DEF Exit, Kept, Ended, Idle
<1>5. CASE process.code = 0 /\ state = "linking"
  BY <1>1, <1>2, <1>3, <1>5 DEF Exit, Kept, Ended, Idle
<1>6. CASE process.code = 0 /\ state # "linking"
  BY <1>1, <1>2, <1>3, <1>6 DEF Exit, Kept, Ended, Idle
<1>. QED
  BY <1>4, <1>5, <1>6

LEMMA CompiledKeepsObjects ==
    ASSUME Kept, Exchange, Compiled
    PROVE  Kept'
<1>1. /\ state = "compiling" /\ ~Idle /\ Ended
      /\ UNCHANGED <<disk, process, state>>
      /\ objects' = Append(objects, Object(process.for))
  BY DEF Compiled, Exchange, Drained, Ended, Idle
<1>2. /\ Range(objects') = Range(objects) \cup {Object(process.for)}
      /\ objects' \in Seq(Range(objects'))
  BY <1>1, AppendRange DEF Kept
<1>3. Object(process.for) \in DOMAIN disk
  BY <1>1 DEF Kept
<1>4. reading' = "none"
  BY DEF Compiled
<1>. QED
  BY <1>1, <1>2, <1>3, <1>4 DEF Kept, Idle, Object

(* A failed compiler made no object, and a driver that is not compiling    *)
(* leaves none unrecorded.                                                 *)
LEMMA LeaveKeepsObjects ==
    ASSUME Kept, UNCHANGED <<objects, disk, process>>,
           DOMAIN disk \subseteq Range(objects), state' # "compiling", Idle'
    PROVE  Kept'
BY DEF Kept

LEMMA SameKeepsObjects ==
    ASSUME Kept, UNCHANGED <<objects, disk, process, state>>, Idle <=> Idle'
    PROVE  Kept'
BY DEF Kept, Ended, Object

LEMMA KeptStep == ASSUME Kept, Exchange, [Next]_vars PROVE Kept'
<1>1. CASE EnterDirectory
  BY <1>1, SameKeepsObjects DEF EnterDirectory, Idle
<1>2. CASE Compile
  BY <1>2, ExecKeepsObjects DEF Compile
<1>3. CASE NoExtension
  <2>1. DOMAIN disk \subseteq Range(objects)
    BY <1>3 DEF NoExtension, Kept
  <2>. QED
    BY <1>3, <2>1, LeaveKeepsObjects DEF NoExtension, Idle
<1>4. CASE Link
  <2>1. Idle /\ Exec(None) /\ UNCHANGED <<objects, disk>> /\ state' = "linking"
    BY <1>4 DEF Link
  <2>. QED
    BY <2>1, ExecKeepsObjects
<1>5. CASE Read
  BY <1>5, SameKeepsObjects DEF Read, Idle
<1>6. CASE Compiled
  BY <1>6, CompiledKeepsObjects
<1>7. CASE CompilationFailed
  <2>1. ~Ended
    BY <1>7 DEF CompilationFailed, Ended, Kept
  <2>2. DOMAIN disk \subseteq Range(objects)
    BY <2>1 DEF Kept
  <2>. QED
    BY <1>7, <2>2, LeaveKeepsObjects DEF CompilationFailed, Idle
<1>8. CASE LinkDone
  <2>1. DOMAIN disk \subseteq Range(objects)
    BY <1>8 DEF LinkDone, Kept
  <2>. QED
    BY <1>8, <2>1, LeaveKeepsObjects DEF LinkDone, Idle
<1>9. CASE Write
  <2>1. /\ process'.for = process.for /\ process'.code = process.code
        /\ process'.running = process.running
    BY <1>9 DEF Write, Exchange, ProcessOK
  <2>. QED
    BY <1>9, <2>1 DEF Write, Kept, Ended, Idle, Object
<1>10. CASE Exit
  BY <1>10, ExitKeepsObjects DEF Exchange
<1>11. CASE UNCHANGED vars
  BY <1>11, SameKeepsObjects DEF vars, Idle
<1>. QED
  BY <1>1, <1>2, <1>3, <1>4, <1>5, <1>6, <1>7, <1>8, <1>9, <1>10, <1>11
     DEF Next, DriverNext, CommandNext

(* What the linker is given exists, and no object is left that it is not   *)
(* given, but for that of the source being compiled.                       *)
THEOREM ObjectsAreKept == Spec => []ObjectsExist
<1>1. Init => Exchange /\ Kept
  <2>1. ASSUME Init PROVE Kept
    BY <2>1 DEF Init, Kept, Ended, Idle, Range
  <2>. QED
    BY <2>1 DEF Init, Exchange, Drained, ProcessOK
<1>2. Exchange /\ Kept /\ [Next]_vars => (Exchange /\ Kept)'
  BY ExchangeStep, KeptStep
<1>3. Kept => ObjectsExist
  BY DEF Kept, ObjectsExist
<1>. QED
  BY <1>1, <1>2, <1>3, PTL DEF Spec

-----------------------------------------------------------------------------
(* The files of a build.  The levels of directories are well defined, up   *)
(* to any depth.                                                           *)
LevelsUpTo(given, N, f) ==
    f = [n \in 0..N |-> IF n = 0 THEN given ELSE Inside(f[n - 1])]

LEMMA LevelsExist ==
    ASSUME NEW given, NEW N \in Nat
    PROVE  \E f : LevelsUpTo(given, N, f)
<1> DEFINE Reached == {m \in Nat : \E f : LevelsUpTo(given, m, f)}
<1>1. 0 \in Reached
  <2>1. LevelsUpTo(given, 0, [n \in 0..0 |-> given])
    BY DEF LevelsUpTo
  <2> QED BY <2>1
<1>2. ASSUME NEW m \in Nat, m \in Reached PROVE m + 1 \in Reached
  <2>1. PICK f : LevelsUpTo(given, m, f)
    BY <1>2
  <2> DEFINE g == [n \in 0..(m + 1) |-> IF n = m + 1 THEN Inside(f[m]) ELSE f[n]]
  <2>2. DOMAIN f = 0..m /\ \A n \in 0..m : f[n] = IF n = 0 THEN given ELSE Inside(f[n - 1])
    BY <2>1 DEF LevelsUpTo
  <2>3. \A n \in 0..(m + 1) : n # m + 1 => n \in 0..m /\ (n # 0 => n - 1 \in 0..m)
    OBVIOUS
  <2>4. /\ \A n \in 0..m : g[n] = f[n]
        /\ g[m + 1] = Inside(f[m]) /\ m + 1 \in 0..(m + 1) /\ m + 1 # 0 /\ (m + 1) - 1 = m
        /\ m \in 0..m
    OBVIOUS
  <2>5. ASSUME NEW n \in 0..(m + 1)
        PROVE  g[n] = IF n = 0 THEN given ELSE Inside(g[n - 1])
    <3> HIDE DEF g
    <3>1. CASE n = m + 1
      BY <2>4, <3>1
    <3>2. CASE n # m + 1
      BY <2>2, <2>3, <2>4, <3>2
    <3> QED BY <3>1, <3>2
  <2>6. g = [n \in 0..(m + 1) |-> g[n]]
    OBVIOUS
  <2> HIDE DEF g
  <2>7. LevelsUpTo(given, m + 1, g)
    BY <2>5, <2>6 DEF LevelsUpTo
  <2> QED BY <2>7
<1> HIDE DEF Reached
<1>3. Nat \subseteq Reached
  BY <1>1, <1>2, FromZeroOn
<1> QED BY <1>3 DEF Reached

LEMMA LevelsFacts ==
    ASSUME NEW given
    PROVE  /\ Levels(given)[0] = given
           /\ \A n \in 0..(MaxDepth - 1) :
                Levels(given)[n + 1] = Inside(Levels(given)[n])
<1>1. Levels(given) = CHOOSE f : LevelsUpTo(given, MaxDepth, f)
  BY DEF Levels, LevelsUpTo
<1>2. LevelsUpTo(given, MaxDepth, Levels(given))
  <2>1. \E f : LevelsUpTo(given, MaxDepth, f)
    BY LevelsExist, DriverAssumption
  <2> QED BY <1>1, <2>1
<1>3. ASSUME NEW n \in 0..MaxDepth
      PROVE  Levels(given)[n] = IF n = 0 THEN given ELSE Inside(Levels(given)[n - 1])
  BY <1>2 DEF LevelsUpTo
<1>4. MaxDepth \in Nat
  BY DriverAssumption
<1>5. ASSUME NEW n \in 0..(MaxDepth - 1)
      PROVE  Levels(given)[n + 1] = Inside(Levels(given)[n])
  <2>1. n + 1 \in 0..MaxDepth /\ n + 1 # 0 /\ (n + 1) - 1 = n
    BY <1>4
  <2> QED BY <1>3, <2>1
<1>6. 0 \in 0..MaxDepth
  BY <1>4
<1> QED BY <1>3, <1>5, <1>6

LEMMA InsideGrows ==
    ASSUME NEW S, NEW T, S \subseteq T
    PROVE  S \subseteq Inside(S) /\ Inside(S) \subseteq Inside(T)
BY DEF Inside

(* The files of a build are given or inside directories of it, and are     *)
(* the least such set.                                                     *)
LEMMA ListedFacts ==
    ASSUME NEW given
    PROVE  /\ given \subseteq Listed(given)
           /\ \A S : given \subseteq S /\ Inside(S) \subseteq S => Listed(given) \subseteq S
<1> DEFINE L == Levels(given)
<1>1. L[0] = given /\ \A n \in 0..(MaxDepth - 1) : L[n + 1] = Inside(L[n])
  BY LevelsFacts
<1>2. MaxDepth \in Nat /\ MaxDepth \in 0..MaxDepth
  BY DriverAssumption
<1> HIDE DEF L
<1>3. given \subseteq L[MaxDepth]
  <2> DEFINE Holds == {n \in Nat : given \subseteq L[n]}
  <2>1. 0 \in Holds
    BY <1>1
  <2>2. ASSUME NEW n \in 0..(MaxDepth - 1), n \in Holds PROVE n + 1 \in Holds
    <3>1. given \subseteq L[n] /\ n \in Nat
      BY <2>2
    <3>2. L[n] \subseteq L[n + 1]
      BY <1>1, InsideGrows
    <3> QED BY <3>1, <3>2
  <2> HIDE DEF Holds
  <2>3. MaxDepth \in Holds
    BY <1>2, <2>1, <2>2, UpTo
  <2> QED BY <2>3 DEF Holds
<1>4. ASSUME NEW S, given \subseteq S, Inside(S) \subseteq S PROVE L[MaxDepth] \subseteq S
  <2> DEFINE Within == {n \in Nat : L[n] \subseteq S}
  <2>1. 0 \in Within
    BY <1>1, <1>4
  <2>2. ASSUME NEW n \in 0..(MaxDepth - 1), n \in Within PROVE n + 1 \in Within
    <3>1. L[n] \subseteq S /\ n \in Nat
      BY <2>2
    <3>2. L[n + 1] \subseteq Inside(S)
      BY <1>1, <3>1, InsideGrows
    <3> QED BY <1>4, <3>1, <3>2
  <2> HIDE DEF Within
  <2>3. MaxDepth \in Within
    BY <1>2, <2>1, <2>2, UpTo
  <2> QED BY <2>3 DEF Within
<1> QED BY <1>3, <1>4 DEF Listed, L

(* An order of a finite set has all of its members.                        *)
LEMMA OrderHasAll ==
    ASSUME NEW S, IsFiniteSet(S), NEW order \in SetToSeqs(S)
    PROVE  order \in Seq(S) /\ Range(order) = S
<1> DEFINE D == 1..Cardinality(S)
<1>1. Cardinality(S) \in Nat
  BY FS_CardinalityType
<1>2. IsFiniteSet(D) /\ Cardinality(D) = Cardinality(S)
  BY <1>1, FS_Interval
<1>3. order \in [D -> S] /\ \A i, j \in D : i # j => order[i] # order[j]
  BY DEF SetToSeqs
<1> HIDE DEF D
<1>4. order \in Injection(D, S)
  BY <1>3 DEF Injection, IsInjective
<1>5. order \in Surjection(D, S)
  BY <1>2, <1>4, FS_Injection
<1>6. Range(order) = S
  BY <1>3, <1>5 DEF Surjection, Range
<1>7. order \in Seq(S)
  BY <1>1, <1>3 DEF D
<1> QED BY <1>6, <1>7

LEMMA ConcatRange ==
    ASSUME NEW S, NEW s \in Seq(S), NEW t \in Seq(S)
    PROVE  s \o t \in Seq(S) /\ Range(s \o t) = Range(s) \cup Range(t)
<1>1. /\ Len(s) \in Nat /\ Len(t) \in Nat
      /\ DOMAIN s = 1..Len(s) /\ DOMAIN t = 1..Len(t)
      /\ DOMAIN (s \o t) = 1..(Len(s) + Len(t))
      /\ s \o t \in Seq(S)
  OBVIOUS
<1>2. \A i \in 1..Len(s) : (s \o t)[i] = s[i] /\ i \in DOMAIN (s \o t)
  BY <1>1
<1>3. \A i \in 1..Len(t) : (s \o t)[Len(s) + i] = t[i] /\ Len(s) + i \in DOMAIN (s \o t)
  BY <1>1
<1>4. ASSUME NEW i \in DOMAIN (s \o t) PROVE (s \o t)[i] \in Range(s) \cup Range(t)
  <2>1. CASE i \in 1..Len(s)
    BY <1>1, <1>2, <2>1 DEF Range
  <2>2. CASE i \notin 1..Len(s)
    <3>1. i - Len(s) \in 1..Len(t) /\ Len(s) + (i - Len(s)) = i
      BY <1>1, <2>2
    <3>2. (s \o t)[i] = t[i - Len(s)]
      BY <1>3, <3>1
    <3> QED BY <1>1, <3>1, <3>2 DEF Range
  <2> QED BY <2>1, <2>2
<1>5. Range(s \o t) \subseteq Range(s) \cup Range(t)
  BY <1>4 DEF Range
<1>6. Range(s) \cup Range(t) \subseteq Range(s \o t)
  BY <1>1, <1>2, <1>3 DEF Range
<1> QED BY <1>1, <1>5, <1>6

LEMMA HeadTail ==
    ASSUME NEW S, NEW s \in Seq(S), s # <<>>
    PROVE  /\ Head(s) \in S /\ Tail(s) \in Seq(S)
           /\ Range(s) = {Head(s)} \cup Range(Tail(s))
<1>1. /\ Len(s) \in Nat \ {0} /\ DOMAIN s = 1..Len(s)
      /\ Head(s) = s[1] /\ Tail(s) \in Seq(S) /\ Head(s) \in S
      /\ DOMAIN Tail(s) = 1..(Len(s) - 1)
      /\ \A i \in 1..(Len(s) - 1) : Tail(s)[i] = s[i + 1]
  OBVIOUS
<1>2. ASSUME NEW i \in DOMAIN s, i # 1 PROVE s[i] \in Range(Tail(s))
  <2>1. i - 1 \in 1..(Len(s) - 1) /\ (i - 1) + 1 = i
    BY <1>1, <1>2
  <2>2. Tail(s)[i - 1] = s[i]
    BY <1>1, <2>1
  <2> QED BY <1>1, <2>1, <2>2 DEF Range
<1>3. \A i \in 1..(Len(s) - 1) : i + 1 \in DOMAIN s
  BY <1>1
<1>4. Range(s) \subseteq {Head(s)} \cup Range(Tail(s))
  BY <1>1, <1>2 DEF Range
<1>5. {Head(s)} \cup Range(Tail(s)) \subseteq Range(s)
  BY <1>1, <1>3 DEF Range
<1> QED BY <1>1, <1>4, <1>5

-----------------------------------------------------------------------------
(* What is linked.  There is a set of files dealt with which, with those   *)
(* still to come, holds the command line and what its directories contain. *)
(* The sources dealt with have their objects recorded.                     *)
Files == Listed(Range(args))

Accounted(done) ==
    /\ Range(args) \subseteq done \cup Range(todo)
    /\ \A d \in done :
         /\ d.directory => {f \in d.files : IsSource(f)} \subseteq done \cup Range(todo)
         /\ ~d.directory => Object(d) \in Range(objects)

OnDisk == \A o \in DOMAIN disk : disk[o] \in AllSources /\ Object(disk[o]) = o

Progress ==
    /\ args \in Builds
    /\ todo \in Seq(Files)
    /\ state = "compiling" /\ ~Idle =>
          todo # <<>> /\ ~Head(todo).directory /\ process.for = Head(todo)
    /\ \E done \in SUBSET Files : Accounted(done)
    /\ state \in {"linking", "done"} => todo = <<>>
    /\ linked # None => state \in {"linking", "done"}
    /\ Range(objects) \subseteq {Object(f) : f \in AllSources}
    /\ OnDisk
    /\ LinksEverySource

(* Once nothing is left to do every source has its object recorded.        *)
LEMMA AllRecorded ==
    ASSUME Progress, todo = <<>>
    PROVE  Range(objects) = {Object(f) : f \in AllSources}
<1>1. PICK done \in SUBSET Files : Accounted(done)
  BY DEF Progress
<1>2. Range(todo) = {}
  BY DEF Range
<1>3. Range(args) \subseteq done
  BY <1>1, <1>2 DEF Accounted
<1>4. Inside(done) \subseteq done
  BY <1>1, <1>2 DEF Accounted, Inside
<1>5. Files \subseteq done
  BY <1>3, <1>4, ListedFacts DEF Files
<1>6. \A f \in AllSources : Object(f) \in Range(objects)
  BY <1>1, <1>5 DEF Accounted, AllSources, Files
<1> QED BY <1>6 DEF Progress

(* The linker finds under the name of every recorded object a source that  *)
(* has this name.                                                          *)
LEMMA LinkedAll ==
    ASSUME Progress, todo = <<>>, Range(objects) \subseteq DOMAIN disk,
           NEW program, program = {disk[o] : o \in Range(objects)}
    PROVE  /\ {Object(f) : f \in program} = {Object(f) : f \in AllSources}
           /\ program = AllSources <=> DistinctNames
<1>1. Range(objects) = {Object(f) : f \in AllSources}
  BY AllRecorded
<1>2. \A o \in Range(objects) : disk[o] \in AllSources /\ Object(disk[o]) = o
  BY DEF Progress, OnDisk
<1>3. {Object(f) : f \in program} = Range(objects)
  BY <1>2
<1>4. program \subseteq AllSources
  BY <1>2
<1>5. ASSUME DistinctNames, NEW f \in AllSources PROVE f \in program
  <2>1. Object(f) \in Range(objects)
    BY <1>1
  <2>2. disk[Object(f)] = f
    BY <1>2, <1>5, <2>1 DEF DistinctNames
  <2> QED BY <2>1, <2>2
<1>6. ASSUME program = AllSources, NEW f \in AllSources, NEW g \in AllSources,
             Object(f) = Object(g)
      PROVE  f = g
  <2>1. PICK o \in Range(objects) : f = disk[o]
    BY <1>6
  <2>2. PICK p \in Range(objects) : g = disk[p]
    BY <1>6
  <2>3. o = Object(f) /\ p = Object(g)
    BY <1>2, <2>1, <2>2
  <2> QED BY <1>6, <2>1, <2>2, <2>3
<1>7. DistinctNames <=> program = AllSources
  BY <1>4, <1>5, <1>6 DEF DistinctNames
<1> QED BY <1>1, <1>3, <1>7

LEMMA SameProgress ==
    ASSUME Progress, UNCHANGED <<args, todo, objects, disk, linked>>,
           state' \in {"linking", "done"} => todo = <<>>,
           linked # None => state' \in {"linking", "done"},
           state' = "compiling" /\ ~Idle' =>
              todo # <<>> /\ ~Head(todo).directory /\ process'.for = Head(todo)
    PROVE  Progress'
<1>1. (\E done \in SUBSET Files : Accounted(done))'
  BY DEF Progress, Files, Accounted, Object
<1>2. OnDisk' /\ LinksEverySource'
  BY DEF Progress, OnDisk, LinksEverySource, DistinctNames, AllSources, Object
<1>3. Range(objects') \subseteq {Object(f) : f \in AllSources'}
  BY DEF Progress, AllSources
<1>4. args' \in Builds /\ todo' \in Seq(Files')
  BY DEF Progress, Files
<1> QED BY <1>1, <1>2, <1>3, <1>4 DEF Progress, Object

(* The sources in a directory take its place.                              *)
LEMMA EnterKeepsProgress == ASSUME Progress, EnterDirectory PROVE Progress'
<1>0. PICK dir : dir = Head(todo)
  OBVIOUS
<1> DEFINE found == {f \in dir.files : IsSource(f)}
<1>1. /\ state = "compiling" /\ Idle /\ todo # <<>> /\ dir.directory
      /\ UNCHANGED <<args, objects, disk, process, reading, linked, state>>
  BY <1>0 DEF EnterDirectory
<1>2. PICK order \in SetToSeqs(found) : todo' = order \o Tail(todo)
  BY <1>0 DEF EnterDirectory
<1>3. /\ dir \in Files /\ Tail(todo) \in Seq(Files)
      /\ Range(todo) = {dir} \cup Range(Tail(todo))
  BY <1>0, <1>1, HeadTail DEF Progress
<1>4. Inside(Files) \subseteq Files /\ IsFiniteSet(dir.files)
  BY <1>1, <1>3, BuildsAssumption DEF Progress, Files
<1>5. found \subseteq Files /\ IsFiniteSet(found)
  BY <1>1, <1>3, <1>4, FS_Subset DEF Inside
<1> HIDE DEF found
<1>6. order \in Seq(found) /\ Range(order) = found
  BY <1>5, OrderHasAll
<1>7. order \in Seq(Files)
  BY <1>5, <1>6
<1>8. todo' \in Seq(Files) /\ Range(todo') = found \cup Range(Tail(todo))
  <2>1. Tail(todo) \in Seq(Files)
    BY <1>3
  <2>2. /\ order \o Tail(todo) \in Seq(Files)
        /\ Range(order \o Tail(todo)) = Range(order) \cup Range(Tail(todo))
    BY <1>7, <2>1, ConcatRange
  <2> QED BY <1>2, <1>6, <2>2
<1>9. PICK done \in SUBSET Files : Accounted(done)
  BY DEF Progress
<1>10. Accounted(done \cup {dir})'
  <2>1. done \cup Range(todo) \subseteq (done \cup {dir}) \cup Range(todo')
    BY <1>3, <1>8
  <2>2. Range(args') \subseteq (done \cup {dir}) \cup Range(todo')
    BY <1>1, <1>9, <2>1 DEF Accounted
  <2>3. ASSUME NEW d \in done \cup {dir}
        PROVE  /\ d.directory =>
                    {f \in d.files : IsSource(f)} \subseteq (done \cup {dir}) \cup Range(todo')
               /\ ~d.directory => d.base \in Range(objects')
    <3>1. CASE d \in done
      BY <1>1, <1>9, <2>1, <3>1 DEF Accounted, Object
    <3>2. CASE d = dir
      BY <1>1, <1>8, <3>2 DEF found
    <3> QED BY <2>3, <3>1, <3>2
  <2> QED BY <2>2, <2>3 DEF Accounted, Object, IsSource, found
<1>11. OnDisk' /\ LinksEverySource'
  BY <1>1 DEF Progress, OnDisk, LinksEverySource, DistinctNames, AllSources, Object
<1>12. Range(objects') \subseteq {Object(f) : f \in AllSources'}
  BY <1>1 DEF Progress, AllSources
<1>13. done \cup {dir} \in SUBSET Files' /\ Files' = Files
  BY <1>1, <1>3, <1>9 DEF Files
<1> QED BY <1>1, <1>8, <1>10, <1>11, <1>12, <1>13 DEF Progress, Idle, Object

(* A source is dealt with when its object is recorded.                     *)
LEMMA CompiledKeepsProgress ==
    ASSUME Progress, Kept, Compiled
    PROVE  Progress'
<1>0. PICK src : src = Head(todo)
  OBVIOUS
<1>1. /\ state = "compiling" /\ ~Idle
      /\ UNCHANGED <<args, disk, linked, state>>
      /\ objects' = Append(objects, Object(process.for))
      /\ todo' = Tail(todo) /\ reading' = "none"
  BY DEF Compiled, Idle
<1>2. todo # <<>> /\ ~src.directory /\ process.for = src
  BY <1>0, <1>1 DEF Progress
<1>3. /\ src \in Files /\ Tail(todo) \in Seq(Files)
      /\ Range(todo) = {src} \cup Range(Tail(todo))
  BY <1>0, <1>2, HeadTail DEF Progress
<1>4. Range(objects') = Range(objects) \cup {Object(src)}
  BY <1>1, <1>2, AppendRange DEF Kept
<1>5. PICK done \in SUBSET Files : Accounted(done)
  BY DEF Progress
<1>6. Accounted(done \cup {src})'
  <2>1. done \cup Range(todo) = (done \cup {src}) \cup Range(todo')
    BY <1>1, <1>3
  <2>2. Range(args') \subseteq (done \cup {src}) \cup Range(todo')
    BY <1>1, <1>5, <2>1 DEF Accounted
  <2>3. ASSUME NEW d \in done \cup {src}
        PROVE  /\ d.directory =>
                    {f \in d.files : IsSource(f)} \subseteq (done \cup {src}) \cup Range(todo')
               /\ ~d.directory => d.base \in Range(objects')
    <3>1. CASE d \in done
      BY <1>4, <1>5, <2>1, <3>1 DEF Accounted, Object
    <3>2. CASE d = src
      BY <1>2, <1>4, <3>2 DEF Object
    <3> QED BY <2>3, <3>1, <3>2
  <2> QED BY <2>2, <2>3 DEF Accounted, Object, IsSource
<1>7. OnDisk' /\ LinksEverySource'
  BY <1>1 DEF Progress, OnDisk, LinksEverySource, DistinctNames, AllSources, Object
<1>8. src \in AllSources
  BY <1>2, <1>3 DEF AllSources, Files
<1>9. Range(objects') \subseteq {Object(f) : f \in AllSources'}
  BY <1>1, <1>4, <1>8 DEF Progress, AllSources
<1>10. done \cup {src} \in SUBSET Files' /\ Files' = Files
  BY <1>1, <1>3, <1>5 DEF Files
<1> QED BY <1>1, <1>3, <1>6, <1>7, <1>9, <1>10 DEF Progress, Idle, Object

(* A compiler that succeeds leaves an object of its source, and the linker *)
(* a program of what is under the recorded names then.                     *)
LEMMA ExitKeepsProgress ==
    ASSUME Progress, Kept, ProcessOK, Exit
    PROVE  Progress'
<1>1. /\ process' = [process EXCEPT !.running = FALSE] /\ ~Idle
      /\ UNCHANGED <<args, todo, objects, pipes, reading, state>>
      /\ state \in {"compiling", "linking"}
  BY DEF Exit, Kept
<1>2. process'.for = process.for
  BY <1>1 DEF ProcessOK
<1>3. state = "compiling" => todo # <<>> /\ ~Head(todo).directory /\ process.for = Head(todo)
  BY <1>1 DEF Progress
<1>4. CASE UNCHANGED <<disk, linked>>
  <2>1. state' = "compiling" /\ ~Idle' =>
           todo # <<>> /\ ~Head(todo).directory /\ process'.for = Head(todo)
    BY <1>1, <1>2, <1>3
  <2>2. /\ state' \in {"linking", "done"} => todo = <<>>
        /\ linked # None => state' \in {"linking", "done"}
    BY <1>1 DEF Progress
  <2> QED BY <1>1, <1>4, <2>1, <2>2, SameProgress
<1>5. (\E done \in SUBSET Files : Accounted(done))' /\ args' \in Builds /\ todo' \in Seq(Files')
  BY <1>1 DEF Progress, Files, Accounted, Object
<1>6. Range(objects') \subseteq {Object(f) : f \in AllSources'}
  BY <1>1 DEF Progress, AllSources
<1>7. CASE /\ state = "linking" /\ UNCHANGED disk
           /\ linked' = {disk[o] : o \in Range(objects)}
  <2>1. todo = <<>> /\ Range(objects) \subseteq DOMAIN disk
    BY <1>7 DEF Progress, Kept
  <2>2. /\ {Object(f) : f \in linked'} = {Object(f) : f \in AllSources}
        /\ linked' = AllSources <=> DistinctNames
    BY <1>7, <2>1, LinkedAll
  <2>3. LinksEverySource'
    BY <1>1, <2>2 DEF LinksEverySource, DistinctNames, AllSources, Object
  <2>4. OnDisk'
    BY <1>1, <1>7 DEF Progress, OnDisk, AllSources, Object
  <2> QED BY <1>1, <1>5, <1>6, <1>7, <2>1, <2>3, <2>4 DEF Progress, Idle, Object
<1>8. CASE /\ state # "linking" /\ UNCHANGED linked
           /\ disk' = [o \in DOMAIN disk \cup {Object(process.for)} |->
                         IF o = Object(process.for) THEN process.for ELSE disk[o]]
  <2>1. state = "compiling" /\ linked = None
    BY <1>1, <1>8 DEF Progress
  <2>2. process.for \in AllSources
    <3>1. Head(todo) \in Files
      BY <1>3, <2>1, HeadTail DEF Progress
    <3> QED BY <1>3, <2>1, <3>1 DEF AllSources, Files
  <2>3. OnDisk'
    BY <1>1, <1>8, <2>2 DEF Progress, OnDisk, AllSources, Object
  <2>4. LinksEverySource'
    BY <1>8, <2>1 DEF LinksEverySource
  <2> QED BY <1>1, <1>2, <1>3, <1>5, <1>6, <1>8, <2>1, <2>3, <2>4 DEF Progress, Idle, Object
<1> QED BY <1>4, <1>7, <1>8 DEF Exit

LEMMA ProgressStep ==
    ASSUME Progress, Kept, Exchange, [Next]_vars
    PROVE  Progress'
<1> USE DEF Idle
<1>1. CASE EnterDirectory
  BY <1>1, EnterKeepsProgress
<1>2. CASE Compile
  <2>1. /\ process'.for = Head(todo) /\ todo # <<>> /\ ~Head(todo).directory
        /\ UNCHANGED <<args, todo, objects, disk, linked, state>> /\ state = "compiling"
    BY <1>2 DEF Compile, Exec
  <2>2. linked = None
    BY <2>1 DEF Progress
  <2> QED BY <2>1, <2>2, SameProgress
<1>3. CASE NoExtension
  <2>1. /\ UNCHANGED <<args, todo, objects, disk, linked>>
        /\ state = "compiling" /\ state' = "crashed"
    BY <1>3 DEF NoExtension
  <2>2. linked = None
    BY <2>1 DEF Progress
  <2> QED BY <2>1, <2>2, SameProgress
<1>4. CASE Link
  <2>1. /\ UNCHANGED <<args, todo, objects, disk, linked>>
        /\ todo = <<>> /\ state' = "linking"
    BY <1>4 DEF Link
  <2> QED BY <2>1, SameProgress
<1>5. CASE Read
  <2>1. /\ UNCHANGED <<args, todo, objects, disk, process, linked, state>> /\ ~Idle
    BY <1>5 DEF Read
  <2> QED BY <2>1, SameProgress DEF Progress
<1>6. CASE Compiled
  BY <1>6, CompiledKeepsProgress
<1>7. CASE CompilationFailed
  <2>1. /\ UNCHANGED <<args, todo, objects, disk, linked>>
        /\ state = "compiling" /\ state' = "failed"
    BY <1>7 DEF CompilationFailed
  <2>2. linked = None
    BY <2>1 DEF Progress
  <2> QED BY <2>1, <2>2, SameProgress
<1>8. CASE LinkDone
  <2>1. /\ UNCHANGED <<args, todo, objects, disk, linked>>
        /\ state = "linking" /\ state' = "done"
    BY <1>8 DEF LinkDone
  <2>2. todo = <<>>
    BY <2>1 DEF Progress
  <2> QED BY <2>1, <2>2, SameProgress
<1>9. CASE Write
  <2>1. /\ UNCHANGED <<args, todo, objects, disk, linked, state>>
        /\ ~Idle /\ process'.for = process.for
    BY <1>9 DEF Write, Exchange, ProcessOK
  <2> QED BY <2>1, SameProgress DEF Progress
<1>10. CASE Exit
  BY <1>10, ExitKeepsProgress DEF Exchange
<1>11. CASE UNCHANGED vars
  BY <1>11, SameProgress DEF vars, Progress
<1>. QED
  BY <1>1, <1>2, <1>3, <1>4, <1>5, <1>6, <1>7, <1>8, <1>9, <1>10, <1>11
     DEF Next, DriverNext, CommandNext

(* A program that the linker made holds, for every source of the build     *)
(* given or found in a directory, however deep, one source under its       *)
(* object's name, and all of them exactly if no two share a name.          *)
THEOREM EverySourceIsLinked == Spec => []LinksEverySource
<1>1. Init => Exchange /\ Kept /\ Progress
  <2> SUFFICES ASSUME Init PROVE Exchange /\ Kept /\ Progress
    OBVIOUS
  <2>1. Exchange
    BY DEF Init, Exchange, Drained, ProcessOK
  <2>2. Kept
    BY DEF Init, Kept, Ended, Idle, Range
  <2>3. Range(args) \subseteq Files /\ args \in Builds /\ todo = args
    BY ListedFacts DEF Init, Files
  <2>4. args \in Seq(Range(args))
    BY <2>3, BuildsAssumption
  <2>5. todo \in Seq(Files)
    BY <2>3, <2>4
  <2>6. Accounted({})
    BY <2>3 DEF Accounted
  <2>7. OnDisk /\ LinksEverySource /\ Range(objects) = {}
    BY DEF Init, OnDisk, LinksEverySource, Range
  <2>8. Idle /\ state = "compiling" /\ linked = None
    BY DEF Init, Idle
  <2>9. Progress
    BY <2>3, <2>5, <2>6, <2>7, <2>8 DEF Progress
  <2> QED BY <2>1, <2>2, <2>9
<1>2. Exchange /\ Kept /\ Progress /\ [Next]_vars => (Exchange /\ Kept /\ Progress)'
  BY ExchangeStep, KeptStep, ProgressStep
<1>3. Progress => LinksEverySource
  BY DEF Progress
<1>. QED
  BY <1>1, <1>2, <1>3, PTL DEF Spec
=============================================================================
