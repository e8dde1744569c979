------------------------------- MODULE Cadence ------------------------------
(***************************************************************************)
(* How long a market waits for its next poll: _next_poll_at.  Times are in *)
(* minutes; with the jitter, in hundredths of a minute.                    *)
(*                                                                         *)
(* An operator marked "fault:" is the code with one plausible mistake in   *)
(* it; PROJECT.json pairs it with the operator after it and the property   *)
(* that catches the mistake.                                               *)
(***************************************************************************)
EXTENDS Integers

CONSTANT Jitter   \* poll_jitter_fraction, in percent

ASSUME JitterAssumption == Jitter \in 0 .. 100

Hour == 60
Day == 24 * Hour

(* fault: the tiers are tried from the longest *)
WidestFirst(remaining, interval) ==
  IF remaining <= 0 THEN Hour
  ELSE IF remaining <= 30 * Day THEN Day
  ELSE IF remaining <= 7 * Day THEN 6 * Hour
  ELSE IF remaining <= Day THEN Hour
  ELSE interval

(* The step towards the next poll, by the first of _ADAPTIVE_TIERS that    *)
(* the time to the resolution date fits; past the date as in the first.    *)
PollStep(remaining, interval) ==
  IF remaining <= Day THEN Hour
  ELSE IF remaining <= 7 * Day THEN 6 * Hour
  ELSE IF remaining <= 30 * Day THEN Day
  ELSE interval

(* The jitter at its longest. *)
Latest(step) == step * (100 + Jitter)
=============================================================================
