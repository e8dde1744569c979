-------------------------------- MODULE Abort -------------------------------
(***************************************************************************)
(* The abort of a market's candidate jobs when the market is paused.       *)
(* process_market enqueues a job and then registers its id in a set in     *)
(* Redis; abort_market_jobs reads the set, marks its ids for arq and       *)
(* deletes the set.  Each of these is a request of its own, and between    *)
(* two of them the other side may go on, or a second abort may begin.      *)
(*                                                                         *)
(* An operator marked "fault:" is the code with one plausible mistake in   *)
(* it.  No specification uses one; PROJECT.json pairs it with the operator *)
(* after it and the property that catches the mistake.                     *)
(***************************************************************************)
EXTENDS Jobs

CONSTANTS
  Request,        \* API requests that pause the market
  MaxInterrupts   \* bound on crashes

ASSUME BoundAssumption == MaxInterrupts \in Nat

VARIABLES
  active,      \* Market.status = active
  fanout,      \* process_market is in its fan-out
  fresh,       \* the job that it has enqueued and not yet registered
  live,        \* the jobs that are queued or run
  tracked,     \* arq:market-jobs:<market>
  marks,       \* the ids of this market in arq's abort set
  abort,       \* abort[q]: where request q stands
  listed,      \* listed[q]: the ids that q has read
  late,        \* late[q]: jobs registered after that (not in the code)
  strays,      \* jobs that lost their registration (not in the code)
  interrupts   \* crashes so far

vars == <<active, fanout, fresh, live, tracked, marks, abort, listed, late,
          strays, interrupts>>
redisVars == <<tracked, marks>>
apiVars == <<abort, listed, late>>

Init == /\ active = TRUE /\ fanout = FALSE /\ fresh = NoJob
        /\ live = {} /\ tracked = {} /\ marks = {}
        /\ abort = [q \in Request |-> "idle"]
        /\ listed = [q \in Request |-> {}] /\ late = [q \in Request |-> {}]
        /\ strays = {} /\ interrupts = 0

-----------------------------------------------------------------------------
(* app/worker/tasks.py: process_market, from its fan-out on *)

Search == /\ active /\ ~fanout /\ fanout' = TRUE
          /\ UNCHANGED <<active, fresh, live, redisVars, apiVars, strays, interrupts>>

(* arq does not take a job that is live, or of which it keeps a result.    *)
Enqueue(j) ==
  /\ fanout
  /\ fresh = NoJob /\ fresh' = j
  /\ live' \in {live, live \cup {j}}
  /\ UNCHANGED <<active, fanout, redisVars, apiVars, strays, interrupts>>

Searched == /\ fanout /\ fresh = NoJob /\ fanout' = FALSE
            /\ UNCHANGED <<active, fresh, live, redisVars, apiVars, strays, interrupts>>

(* register_market_job, also of a job that arq did not take. *)
Register ==
  /\ fresh # NoJob /\ fresh' = NoJob
  /\ tracked' = tracked \cup {fresh} /\ strays' = strays \ {fresh}
  /\ late' = [q \in Request |-> IF abort[q] \in {"mark", "delete"}
                                THEN late[q] \cup {fresh} ELSE late[q]]
  /\ UNCHANGED <<active, fanout, live, marks, abort, listed, interrupts>>

-----------------------------------------------------------------------------
(* app/worker/tasks.py: process_candidate, and arq *)

(* The mark is dropped with the job. *)
End(j) == /\ j \in live /\ live' = live \ {j}
          /\ marks' = marks \ {j} /\ strays' = strays \ {j}
          /\ UNCHANGED <<active, fanout, fresh, tracked, apiVars, interrupts>>

Finish(j) == End(j)

(* A marked job is cancelled where it stands, or not run when its turn     *)
(* comes.                                                                  *)
Cancel(j) == j \in marks /\ End(j)

-----------------------------------------------------------------------------
(* app/api/routes/markets.py, app/worker/abort.py *)

(* DELETE, or PATCH with a status other than active, has committed. *)
Pause(q) ==
  /\ abort[q] = "idle" /\ abort' = [abort EXCEPT ![q] = "read"]
  /\ active' = FALSE
  /\ UNCHANGED <<fanout, fresh, live, redisVars, listed, late, strays, interrupts>>

Resume ==
  /\ ~active /\ active' = TRUE
  /\ UNCHANGED <<fanout, fresh, live, redisVars, apiVars, strays, interrupts>>

(* fault: the set is deleted when it is read, not when its jobs are marked *)
ListAndDelete(q) ==
  /\ abort[q] = "read" /\ abort' = [abort EXCEPT ![q] = "mark"]
  /\ listed' = [listed EXCEPT ![q] = tracked] /\ tracked' = {}
  /\ UNCHANGED <<active, fanout, fresh, live, marks, late, strays, interrupts>>

List(q) ==
  /\ abort[q] = "read" /\ abort' = [abort EXCEPT ![q] = "mark"]
  /\ listed' = [listed EXCEPT ![q] = tracked]
  /\ UNCHANGED <<active, fanout, fresh, live, redisVars, late, strays, interrupts>>

(* fault: the ids are not decoded, and the marks are of no job *)
MarkUndecoded(q) ==
  /\ abort[q] = "mark" /\ abort' = [abort EXCEPT ![q] = "delete"]
  /\ listed' = [listed EXCEPT ![q] = {}]
  /\ UNCHANGED <<active, fanout, fresh, live, redisVars, late, strays, interrupts>>

(* fault: the ids read are kept for the next abort *)
MarkAndKeep(q) ==
  /\ abort[q] = "mark" /\ abort' = [abort EXCEPT ![q] = "delete"]
  /\ marks' = marks \cup listed[q]
  /\ UNCHANGED <<active, fanout, fresh, live, tracked, listed, late, strays, interrupts>>

Mark(q) ==
  /\ abort[q] = "mark" /\ abort' = [abort EXCEPT ![q] = "delete"]
  /\ marks' = marks \cup listed[q] /\ listed' = [listed EXCEPT ![q] = {}]
  /\ UNCHANGED <<active, fanout, fresh, live, tracked, late, strays, interrupts>>

Forget(q) == /\ abort' = [abort EXCEPT ![q] = "idle"]
             /\ listed' = [listed EXCEPT ![q] = {}] /\ late' = [late EXCEPT ![q] = {}]

Delete(q) ==
  /\ abort[q] = "delete" /\ Forget(q)
  /\ tracked' = {} /\ strays' = strays \cup (late[q] \cap live)
  /\ UNCHANGED <<active, fanout, fresh, live, marks, interrupts>>

-----------------------------------------------------------------------------
(* Failures *)

Interrupt == interrupts < MaxInterrupts /\ interrupts' = interrupts + 1

(* The worker dies: what it ran is queued again and so stays live, and     *)
(* what process_market has enqueued last stays without registration.       *)
WorkerCrash ==
  /\ Interrupt
  /\ fanout' = FALSE /\ fresh' = NoJob
  /\ strays' = strays \cup ({fresh} \cap live)
  /\ UNCHANGED <<active, live, redisVars, apiVars>>

(* The API process dies in abort_market_jobs. *)
ApiCrash ==
  /\ Interrupt
  /\ abort' = [q \in Request |-> "idle"]
  /\ listed' = [q \in Request |-> {}] /\ late' = [q \in Request |-> {}]
  /\ UNCHANGED <<active, fanout, fresh, live, redisVars, strays>>

-----------------------------------------------------------------------------
Next == \/ \E j \in Job : Enqueue(j) \/ Finish(j) \/ Cancel(j)
        \/ \E q \in Request : Pause(q) \/ List(q) \/ Mark(q) \/ Delete(q)
        \/ Search \/ Searched \/ Register \/ Resume \/ WorkerCrash \/ ApiCrash

Spec == Init /\ [][Next]_vars

(* The API finishes what it began, and arq looks for marks.  Nothing makes *)
(* a job finish by itself: it may wait for the LLM.                        *)
Fairness == /\ \A q \in Request : WF_vars(Mark(q))
            /\ \A j \in Job : WF_vars(Cancel(j))

FairSpec == Spec /\ Fairness

-----------------------------------------------------------------------------
(* Properties *)

(* The market, its jobs, Redis and the requests have the shape they should. *)
TypeOK ==
  /\ active \in BOOLEAN /\ fanout \in BOOLEAN /\ fresh \in Job \cup {NoJob}
  /\ live \subseteq Job /\ tracked \subseteq Job /\ marks \subseteq Job /\ strays \subseteq Job
  /\ abort \in [Request -> {"idle", "read", "mark", "delete"}]
  /\ listed \in [Request -> SUBSET Job] /\ late \in [Request -> SUBSET Job]
  /\ \A q \in Request : abort[q] # "mark" => listed[q] = {}
  /\ interrupts \in Nat

(* Every job of the market that is queued or runs can be reached by an     *)
(* abort: it is in the set, or marked already, or about to be registered.  *)
(* The exceptions are a job that was registered while an abort was between *)
(* its read and its deletion of the set, and one whose process_market died *)
(* before it had registered it.                                            *)
LiveJobReachable == live \subseteq tracked \cup marks \cup {fresh} \cup strays

(* abort.py:7-11: a pause ends the jobs in flight that it finds in the     *)
(* set, whatever they wait for, and whatever is enqueued, resumed and      *)
(* paused meanwhile, unless the API dies in the middle.                    *)
AbortEnds == \A q \in Request, j \in Job :
  (abort[q] = "mark" /\ j \in listed[q]) ~> (j \notin live \/ interrupts > 0)
=============================================================================
