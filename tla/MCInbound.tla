----------------------------- MODULE MCInbound -----------------------------
EXTENDS Inbound, TLC

(* A greeting, a menu, and behind it the AI, an end, a circle, or a step   *)
(* after which the flow says nothing.                                      *)
Bot == [n \in {"hi", "menu", "talk", "again", "stay", "bye"} |->
  CASE n = "hi" -> [kind |-> "message", next |-> {"menu"}]
    [] n = "menu" -> [kind |-> "button", next |-> {"talk", "again", "stay", "bye"}]
    [] n = "talk" -> [kind |-> "ai", next |-> {}]
    [] n = "again" -> [kind |-> "step", next |-> {"again"}]
    [] n = "stay" -> [kind |-> "step", next |-> {}]
    [] n = "bye" -> [kind |-> "end", next |-> {}]]

CONSTANTS d1, d2, d3, m1, m2

(* Meta delivers the first message twice.                                  *)
Delivered == d1 :> m1 @@ d2 :> m1 @@ d3 :> m2
=============================================================================
