---------------------------- MODULE MCScheduling ----------------------------
(* Small instances of Scheduling for TLC. *)
EXTENDS Scheduling

(* Two pending runs, and the two a worker can have in their fan-out. *)
FourRuns == 1 .. 4
=============================================================================
