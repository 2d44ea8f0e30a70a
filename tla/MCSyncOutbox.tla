---------------------------- MODULE MCSyncOutbox ----------------------------
(* SyncOutbox for one client and one entry of its ledger. *)
EXTENDS SyncOutbox

CONSTANTS c, m
MCClientOf == [x \in Money |-> c]
=============================================================================
