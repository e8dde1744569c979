------------------------------ MODULE Watermark -----------------------------
(***************************************************************************)
(* What a market's watermark is made of, with no channels, queues, retries *)
(* or cycles: any number of deliveries go on at once, each remembers the   *)
(* watermark it began with, and one that is complete compares its newest   *)
(* date with that.  Any of them may be abandoned; none is complete twice.  *)
(*                                                                         *)
(* Delivery implements it with jobs, rows and receivers, Chronology with   *)
(* logs that come out of its cycles: what one of them says of the          *)
(* watermark holds of the deliveries of the other.                         *)
(***************************************************************************)
EXTENDS Naturals

CONSTANTS Log,         \* what can be delivered
          LatestDate   \* LatestDate[l]: the latest date in l, or 0

VARIABLES mark,       \* the watermark, or 0
          sending,    \* the deliveries going on: [log, seen]
          delivered   \* the logs that are delivered

wvars == <<mark, sending, delivered>>

Init == mark = 0 /\ sending = {} /\ delivered = {}

Begin(l) ==
  /\ l \notin delivered /\ \A s \in sending : s.log # l
  /\ sending' = sending \cup {[log |-> l, seen |-> mark]}
  /\ UNCHANGED <<mark, delivered>>

Complete(s) ==
  /\ s.log \notin delivered
  /\ sending' = sending \ {s}
  /\ delivered' = delivered \cup {s.log}
  /\ mark' = IF LatestDate[s.log] > s.seen THEN LatestDate[s.log] ELSE mark

(* One fails, or they all go with their worker. *)
Abandon ==
  /\ sending' \subseteq sending
  /\ UNCHANGED <<mark, delivered>>

Next == (\E l \in Log : Begin(l)) \/ (\E s \in sending : Complete(s)) \/ Abandon

Spec == Init /\ [][Next]_wvars
=============================================================================
