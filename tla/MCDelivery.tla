----------------------------- MODULE MCDelivery -----------------------------
(* Small instances of Delivery for TLC. *)
EXTENDS Delivery

CONSTANTS older, newer

(* The newer log has two articles, the second of them undated. *)
TwoLogs == [l \in Log |-> IF l = newer THEN <<2, 0>> ELSE <<1>>]
=============================================================================
