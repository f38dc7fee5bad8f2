------------------------------ MODULE JobQueue ------------------------------
(***************************************************************************)
(* What the recording queue promises, without workers, files or crashes:   *)
(* a job that was submitted stays until it has been handled at least once, *)
(* and every job that was submitted is handled and leaves.                 *)
(***************************************************************************)
CONSTANT Job

VARIABLES
    pending,   \* the jobs in the queue
    handled    \* the jobs that were handled, however often

vars == <<pending, handled>>

Init == pending = {} /\ handled = {}

Submit(j) ==
    /\ j \notin pending \cup handled
    /\ pending' = pending \cup {j}
    /\ UNCHANGED handled

Handle(j) ==
    /\ j \in pending
    /\ handled' = handled \cup {j}
    /\ UNCHANGED pending

Retire(j) ==
    /\ j \in pending \cap handled
    /\ pending' = pending \ {j}
    /\ UNCHANGED handled

Next == \E j \in Job : Submit(j) \/ Handle(j) \/ Retire(j)

Spec == Init /\ [][Next]_vars
FairSpec == Spec /\ \A j \in Job : WF_vars(Handle(j)) /\ WF_vars(Retire(j))
=============================================================================
