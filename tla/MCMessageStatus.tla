-------------------------- MODULE MCMessageStatus ---------------------------
(* A message of a campaign sent through Meta, one sent through Gupshup, and*)
(* a service message.  Messages meet only in the refund queue, so one of   *)
(* them is sent in a behaviour and reported several times.                 *)
EXTENDS MessageStatus
==============================================================================
