-------------------------------- MODULE Jobs --------------------------------
(* process_candidate jobs, which several modules look at from different    *)
(* sides.                                                                  *)
EXTENDS Naturals

CONSTANTS
  Job,        \* jobs: an id, or a slot of the worker
  NoJob       \* no job

ASSUME JobAssumption == NoJob \notin Job
=============================================================================
