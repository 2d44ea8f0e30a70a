--------------------------- MODULE MCPaymentLinks ---------------------------
(* Two links, of two clients, and one of them asked for at a time.         *)
EXTENDS PaymentLinks

CONSTANTS l1, l2, h1

(* The lead is won and automations are started.                            *)
Two == <<"lead", "trigger">>
=============================================================================
