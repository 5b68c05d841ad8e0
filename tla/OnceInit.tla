------------------------------ MODULE OnceInit ------------------------------
(***************************************************************************)
(* What the C++ ABI promises of a guarded static object: its constructor   *)
(* is run by one thread at a time, again only if it has thrown, and no     *)
(* thread gets past the guard before a run of it has completed.            *)
(***************************************************************************)
CONSTANT Threads

VARIABLES
    status,  \* "none", "running" or "complete"
    phase    \* thread -> "out", "entering", "constructing" or "using"

vars == <<status, phase>>

Init ==
    /\ status = "none"
    /\ phase = [t \in Threads |-> "out"]

Enter(t) ==
    /\ phase[t] = "out"
    /\ phase' = [phase EXCEPT ![t] = "entering"]
    /\ UNCHANGED status

\* The thread is told to construct.
Begin(t) ==
    /\ phase[t] = "entering" /\ status = "none"
    /\ status' = "running"
    /\ phase' = [phase EXCEPT ![t] = "constructing"]

\* The object is there.
Pass(t) ==
    /\ phase[t] \in {"out", "entering"} /\ status = "complete"
    /\ phase' = [phase EXCEPT ![t] = "using"]
    /\ UNCHANGED status

\* The constructor has returned.
Finish(t) ==
    /\ phase[t] = "constructing"
    /\ status' = "complete"
    /\ phase' = [phase EXCEPT ![t] = "using"]

\* The constructor has thrown.
Throw(t) ==
    /\ phase[t] = "constructing"
    /\ status' = "none"
    /\ phase' = [phase EXCEPT ![t] = "out"]

Leave(t) ==
    /\ phase[t] = "using"
    /\ phase' = [phase EXCEPT ![t] = "out"]
    /\ UNCHANGED status

Next == \E t \in Threads :
            Enter(t) \/ Begin(t) \/ Pass(t) \/ Finish(t) \/ Throw(t) \/ Leave(t)

Spec == Init /\ [][Next]_vars
=============================================================================
