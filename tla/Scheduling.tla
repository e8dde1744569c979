----------------------------- MODULE Scheduling -----------------------------
(***************************************************************************)
(* When one market is polled: each process_market run schedules the next   *)
(* one, subscribe and a reactivation start a first one, and                *)
(* enqueue_due_markets replaces a run that it takes for lost.  What a run  *)
(* finds and fans out is the subject of Batching.                          *)
(*                                                                         *)
(* Time is relative to now: a Tick brings everything that lies ahead one   *)
(* unit nearer.  The job id of a run is its time to the microsecond, so    *)
(* two enqueues never share one.                                           *)
(*                                                                         *)
(* An operator marked "fault:" is the code with one plausible mistake in   *)
(* it.  No specification uses one; PROJECT.json pairs it with the operator *)
(* after it and the property that catches the mistake.                     *)
(***************************************************************************)
EXTENDS Integers, FiniteSets

CONSTANTS
  Run,            \* process_market jobs that exist at one time
  Steps,          \* what _next_poll_at may add to now, in ticks
  Overdue,        \* OVERDUE_THRESHOLD, in ticks
  MaxJobs,        \* WorkerSettings.max_jobs
  MaxExtra,       \* bound on runs started beside a run that is pending
  MaxInterrupts   \* bound on crashes and lost runs

ASSUME RunAssumption == IsFiniteSet(Run)
ASSUME TimeAssumption == Steps # {} /\ Steps \subseteq Nat \ {0} /\ Overdue \in Nat
ASSUME BoundAssumption == MaxJobs \in Nat /\ MaxExtra \in Nat /\ MaxInterrupts \in Nat

VARIABLES
  active,      \* Market.status = active
  ahead,       \* Market.next_poll_at - now
  pc,          \* pc[r]: the state of run r
  wait,        \* wait[r]: the time until r is due; of a run that has
               \* committed, until the next_poll_at it holds in memory
  request,     \* an API request has committed and has its run to enqueue
  picked,      \* the running sweep has read the market as overdue
  extra,       \* runs started beside a run that was pending
  interrupts   \* crashes and lost runs so far

vars == <<active, ahead, pc, wait, request, picked, extra, interrupts>>
envVars == <<active, request, picked, interrupts>>

(* A run that has not scheduled its successor yet. *)
Pending == {r \in Run : pc[r] \in {"queued", "search", "committed"}}
InWorker == {r \in Run : pc[r] \in {"search", "committed", "fanout"}}

(* Long past is as good as just overdue. *)
Floor == -(Overdue + 1)

Init == /\ active = TRUE /\ ahead = 0
        /\ pc = [r \in Run |-> "absent"] /\ wait = [r \in Run |-> 0]
        /\ request = TRUE
        /\ picked = FALSE /\ extra = 0 /\ interrupts = 0

Goto(r, state) == pc' = [pc EXCEPT ![r] = state]

(* enqueue_job of a new run; the others are as in states and times.        *)
EnqueueRun(states, times, due) ==
  \E n \in Run : /\ pc[n] = "absent"
                 /\ \A m \in Run : pc[m] = "absent" => n <= m
                 /\ pc' = [states EXCEPT ![n] = "queued"]
                 /\ wait' = [times EXCEPT ![n] = due]

(* A run for now, whether or not one is pending. *)
EnqueueNow ==
  /\ \/ Pending = {} /\ extra' = extra
     \/ Pending # {} /\ extra < MaxExtra /\ extra' = extra + 1
  /\ EnqueueRun(pc, wait, 0)

-----------------------------------------------------------------------------
(* app/api/routes/markets.py *)

(* After the commit of subscribe or of a reactivation: a run for now.      *)
FirstRun ==
  /\ request /\ request' = FALSE
  /\ EnqueueNow
  /\ UNCHANGED <<active, ahead, picked, interrupts>>

Pause == /\ active /\ active' = FALSE
         /\ UNCHANGED <<ahead, pc, wait, request, picked, extra, interrupts>>

(* update_market from another status to active; one request at a time. *)
Resume ==
  /\ ~active /\ active' = TRUE
  /\ ~request /\ request' = TRUE
  /\ UNCHANGED <<ahead, pc, wait, picked, extra, interrupts>>

-----------------------------------------------------------------------------
(* app/worker/tasks.py: process_market *)

(* fault: a run that finds the market paused keeps its chain alive *)
SkipAndDefer(r) ==
  /\ pc[r] = "queued" /\ wait[r] = 0 /\ ~active
  /\ \E step \in Steps : wait' = [wait EXCEPT ![r] = step]
  /\ UNCHANGED <<ahead, pc, extra, envVars>>

Skip(r) ==
  /\ pc[r] = "queued" /\ wait[r] = 0 /\ ~active
  /\ Goto(r, "absent")
  /\ UNCHANGED <<ahead, wait, extra, envVars>>

Begin(r) ==
  /\ pc[r] = "queued" /\ wait[r] = 0 /\ active
  /\ Cardinality(InWorker) < MaxJobs
  /\ Goto(r, "search")
  /\ UNCHANGED <<ahead, wait, extra, envVars>>

(* fault: the step is added to the old next_poll_at, not to the time *)
CommitFromRow(r) ==
  /\ pc[r] = "search"
  /\ Goto(r, "committed")
  /\ \E step \in Steps : ahead' = ahead + step /\ wait' = [wait EXCEPT ![r] = ahead + step]
  /\ UNCHANGED <<extra, envVars>>

(* next_poll_at, with the batch; the run remembers the time. *)
Commit(r) ==
  /\ pc[r] = "search"
  /\ Goto(r, "committed")
  /\ \E step \in Steps : ahead' = step /\ wait' = [wait EXCEPT ![r] = step]
  /\ UNCHANGED <<extra, envVars>>

(* fault: the jitter is drawn once for the row and once for the job *)
ScheduleRedrawn(r) ==
  /\ pc[r] = "committed"
  /\ \E step \in Steps : EnqueueRun([pc EXCEPT ![r] = "fanout"], [wait EXCEPT ![r] = 0], step)
  /\ UNCHANGED <<ahead, extra, envVars>>

Schedule(r) ==
  /\ pc[r] = "committed"
  /\ EnqueueRun([pc EXCEPT ![r] = "fanout"], [wait EXCEPT ![r] = 0], wait[r])
  /\ UNCHANGED <<ahead, extra, envVars>>

(* fault: the next run is scheduled before the fan-out and after it *)
FinishAndSchedule(r) ==
  /\ pc[r] = "fanout"
  /\ \E step \in Steps : EnqueueRun([pc EXCEPT ![r] = "absent"], wait, step)
  /\ UNCHANGED <<ahead, extra, envVars>>

(* The fan-out is over. *)
Finish(r) ==
  /\ pc[r] = "fanout"
  /\ Goto(r, "absent")
  /\ UNCHANGED <<ahead, wait, extra, envVars>>

-----------------------------------------------------------------------------
(* app/worker/scheduler.py: enqueue_due_markets *)

LateReversed == ahead >= -Overdue  \* fault: the comparison is reversed
Late == ahead <= -Overdue

SweepRead ==
  /\ active /\ Late
  /\ ~picked /\ picked' = TRUE
  /\ UNCHANGED <<active, ahead, pc, wait, request, extra, interrupts>>

(* The id is made of the current time, so arq takes the job in any case.   *)
SweepEnqueue ==
  /\ picked /\ picked' = FALSE
  /\ EnqueueNow
  /\ UNCHANGED <<active, ahead, request, interrupts>>

-----------------------------------------------------------------------------
(* Time and failures *)

Nearer(t, least) == IF t > least THEN t - 1 ELSE least

Tick == /\ ahead' = Nearer(ahead, Floor)
        /\ wait' = [r \in Run |-> Nearer(wait[r], 0)]
        /\ UNCHANGED <<pc, extra, envVars>>

Interrupt == interrupts < MaxInterrupts /\ interrupts' = interrupts + 1

(* The worker dies: what it was running is picked up again from its start, *)
(* also a run that had scheduled its successor.                            *)
WorkerCrash ==
  /\ Interrupt
  /\ pc' = [r \in Run |-> IF r \in InWorker THEN "queued" ELSE pc[r]]
  /\ wait' = [r \in Run |-> IF r \in InWorker THEN 0 ELSE wait[r]]
  /\ extra' = extra + Cardinality({r \in Run : pc[r] = "fanout"})
  /\ extra' <= MaxExtra
  /\ picked' = FALSE
  /\ UNCHANGED <<active, ahead, request>>

(* A timeout, an exception (of the LLM, of a source) or an eviction.       *)
LoseRun(r) ==
  /\ Interrupt
  /\ pc[r] # "absent" /\ Goto(r, "absent")
  /\ wait' = [wait EXCEPT ![r] = 0]
  /\ UNCHANGED <<active, ahead, request, picked, extra>>

(* The API process dies between its commit and its enqueue. *)
LoseRequest ==
  /\ Interrupt
  /\ request /\ request' = FALSE
  /\ UNCHANGED <<active, ahead, pc, wait, picked, extra>>

-----------------------------------------------------------------------------
Step(r) == Skip(r) \/ Begin(r) \/ Commit(r) \/ Schedule(r) \/ Finish(r)

Next == \/ \E r \in Run : Step(r) \/ LoseRun(r)
        \/ FirstRun \/ Pause \/ Resume
        \/ SweepRead \/ SweepEnqueue
        \/ Tick \/ WorkerCrash \/ LoseRequest

Spec == Init /\ [][Next]_vars

(* Time passes, the worker runs what is due when a slot is free, the API   *)
(* finishes what it began, and cron runs the sweep for ever.               *)
Fairness == /\ WF_vars(Tick) /\ WF_vars(FirstRun)
            /\ WF_vars(SweepRead) /\ WF_vars(SweepEnqueue)
            /\ \A r \in Run : WF_vars(Step(r)) /\ SF_vars(Begin(r))

FairSpec == Spec /\ Fairness

-----------------------------------------------------------------------------
(* Properties *)

(* The market's row, the runs and the requests have the shape they should. *)
TypeOK == /\ active \in BOOLEAN
          /\ ahead \in Int
          /\ pc \in [Run -> {"absent", "queued", "search", "committed", "fanout"}]
          /\ wait \in [Run -> Nat]
          /\ request \in BOOLEAN
          /\ picked \in BOOLEAN
          /\ extra \in Nat
          /\ interrupts \in Nat

(* A market has one pending run, and beside it only those that a sweep, a  *)
(* reactivation or a restart started although one was pending: the chain   *)
(* of self-scheduled runs does not multiply by itself.                     *)
ChainsAccounted == Cardinality(Pending) <= 1 + extra

(* Until next_poll_at is reached, and but for interrupts, there is a run   *)
(* that will start, or has yet to be enqueued, for just that time: the row *)
(* the sweep goes by and the queue agree.                                  *)
RowMatchesQueue == interrupts = 0 /\ ahead > 0 =>
  \E r \in Run : pc[r] \in {"queued", "committed"} /\ wait[r] = ahead

(* A market that stays active is polled again and again, whatever was lost *)
(* on the way.                                                             *)
KeepsPolling == <>[]active => []<><<\E r \in Run : Commit(r)>>_vars

(* The runs of a market that stays paused come to an end.                  *)
GoesQuiet == <>[](~active) => <>[](Pending = {})

(* markets.py:99-102 says of a run that the sweep starts beside another    *)
(* that "a rare double run just costs one extra query-gen+search pass",    *)
(* and scheduler.py:52-55 that it "can't double-enqueue against a job that *)
(* is merely late": a market that is never paused comes back to one run at *)
(* a time.                                                                 *)
DoubleRunEnds == []active => []<>(Cardinality(Pending) <= 1)
=============================================================================
