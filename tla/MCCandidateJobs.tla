--------------------------- MODULE MCCandidateJobs --------------------------
(* A small instance of CandidateJobs for TLC. *)
EXTENDS CandidateJobs

CONSTANTS one, two
=============================================================================
