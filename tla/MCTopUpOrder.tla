---------------------------- MODULE MCTopUpOrder ----------------------------
(* Two server instances; the instances are not interchangeable, because    *)
(* the run checks liveness.                                                *)
EXTENDS TopUpOrder
==============================================================================
