---------------------------- MODULE SingleRunner ----------------------------
(***************************************************************************)
(* What a job lock promises its callers: the work of one job is done by    *)
(* one run at a time.  A run enters only when nobody is at work, and it    *)
(* leaves when its function returns, throws, or its process dies.          *)
(***************************************************************************)

CONSTANT Runs

VARIABLE working      \* the runs that are inside the job's function

Init == working = {}

Enter(r) == working = {} /\ working' = {r}

Leave(r) == r \in working /\ working' = working \ {r}

Next == \E r \in Runs : Enter(r) \/ Leave(r)

Spec == Init /\ [][Next]_working
=============================================================================
