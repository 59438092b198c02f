--------------------------- MODULE MCBuildDriver ----------------------------
(* Command lines on which TLC checks BuildDriver.                          *)
EXTENDS BuildDriver

CONSTANTS A, B   \* names without extension

Plain(n, e) == [base |-> n, extension |-> e, directory |-> FALSE, path |-> <<>>, files |-> {}]
InDirectory(f) == [f EXCEPT !.path = Append(@, "dir")]
Dir(fs) == [base |-> B, extension |-> "jl", directory |-> TRUE, path |-> <<>>,
            files |-> {InDirectory(f) : f \in fs}]

Contents == SUBSET {Plain(A, "jl"), Plain(B, "jl"), Plain(B, "txt"), Plain(B, "none"),
                    Dir({Plain(A, "jl")})}
Given == {Plain(A, "jl"), Plain(B, "jl"), Plain(B, "txt"), Plain(A, "none")}
           \cup {Dir(fs) : fs \in Contents}

(* There is only one directory.                                            *)
MCBuilds == {b \in UNION {[1..n -> Given] : n \in 1..2} :
               \A i, j \in DOMAIN b : b[i].directory /\ b[j].directory => b[i] = b[j]}

MCOutputs == {<<>>, <<"out", "out", "out">>, <<"err", "out">>, <<"err", "err", "err">>}
=============================================================================
