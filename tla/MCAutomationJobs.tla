-------------------------- MODULE MCAutomationJobs --------------------------
EXTENDS AutomationJobs, TLC

Symmetry == Permutations(Triggers) \cup Permutations(Workers)

(* A delay and then a wait that goes on whether it is answered or not.     *)
Patient == <<Delay, WaitFor("continue", "continue"), Send>>

=============================================================================
