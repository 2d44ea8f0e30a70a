--------------------------- MODULE MCCampaignSend ---------------------------
(* Contacts, instances and loops are interchangeable in safety runs. *)
EXTENDS CampaignSend, TLC

Symmetry == Permutations(Contact) \cup Permutations(Server) \cup Permutations(Loop)
==============================================================================
