----------------------------- MODULE MCJobLock ------------------------------
(* Three runs, one unit of time for ten seconds of the code.  The runs are *)
(* not interchangeable, because liveness is checked.                       *)
EXTENDS JobLock
=============================================================================
