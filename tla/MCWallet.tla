------------------------------ MODULE MCWallet -------------------------------
(* Values for TLC: every payment is worth two, as is every message. *)
EXTENDS Wallet

MCWorth == [p \in Payments |-> 2]
==============================================================================
