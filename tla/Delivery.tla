------------------------------ MODULE Delivery ------------------------------
(***************************************************************************)
(* The DeliveryLogs of one market: deliver_batch posts a log to the        *)
(* market's webhook, then its articles one by one to Telegram, and commits *)
(* the progress of each channel; enqueue_stuck_deliveries is the only      *)
(* retry.  A log is here from the start, created by Batching; the job that *)
(* its creator enqueues after the commit is queued, or was lost with it.   *)
(*                                                                         *)
(* A request and the commit of its answer are two steps: a crash between   *)
(* them leaves the answer unrecorded.  A receiver may also take a call and *)
(* be too late with its answer, or answer with an error: to the code the   *)
(* call has failed.                                                        *)
(*                                                                         *)
(* An operator marked "fault:" is the code with one plausible mistake in   *)
(* it.  No specification uses one; PROJECT.json pairs it with the operator *)
(* after it and the property that catches the mistake.                     *)
(***************************************************************************)
EXTENDS Naturals, Sequences, FiniteSets

CONSTANTS
  Log,            \* DeliveryLog ids of the market
  Dates,          \* Dates[l]: published_at of its articles, newest first,
                  \* 0 for an undated one
  MaxAttempts,    \* Settings.max_delivery_attempts
  Telegram,       \* Settings.telegram_enabled
  MaxJobs,        \* WorkerSettings.max_jobs
  MaxFaults       \* bound on crashes, lost jobs and logs with unheard calls

(* _finalize_batch_delivery orders the articles that way. *)
ASSUME DatesAssumption == \A l \in Log :
                            /\ Dates[l] \in Seq(Nat) /\ Dates[l] # << >>
                            /\ \A i, j \in DOMAIN Dates[l] : i < j => Dates[l][i] >= Dates[l][j]
ASSUME SettingsAssumption == /\ MaxAttempts \in Nat \ {0} /\ MaxJobs \in Nat \ {0}
                             /\ Telegram \in BOOLEAN
ASSUME BoundAssumption == MaxFaults \in Nat

VARIABLES
  active,      \* Market.status = active
  watermark,   \* Market.max_delivered_published_at, 0 for NULL
  status,      \* DeliveryLog.status
  attempt,     \* DeliveryLog.attempt
  webhook,     \* DeliveryLog.webhook_delivered
  sent,        \* DeliveryLog.telegram_sent_news_item_ids, as positions
  pc,          \* pc[l]: the state of job deliver_batch:<l>
  mine,        \* mine[l]: the attempt that job has in memory
  seen,        \* seen[l]: the watermark it has in memory
  posts,       \* posts[l]: webhook calls that the receiver took
  messages,    \* messages[l][i]: calls for article i that Telegram took
  unheard,     \* unheard[l][c]: those of call c that failed all the same
               \* (not in the code); call 0 is the webhook's, i article i's
  picked,      \* the logs the running sweep has read as stuck
  interrupts   \* crashes and lost jobs so far

vars == <<active, watermark, status, attempt, webhook, sent, pc, mine, seen,
          posts, messages, unheard, picked, interrupts>>
rowVars == <<watermark, status, attempt, webhook, sent>>
memVars == <<mine, seen>>
outVars == <<posts, messages, unheard>>
envVars == <<active, picked, interrupts>>

(* "posted" and "told": a channel has accepted a call, not yet committed   *)
Running == {"webhook", "posted", "telegram", "told", "ending"}

(* "kept": the job is over and arq keeps its result, which makes it refuse *)
(* the same job id just as it does for a queued or running job.            *)
JobState == {"absent", "queued", "kept"} \cup Running

Article(l) == DOMAIN Dates[l]
Call(l) == {0} \cup Article(l)
Unsent(l) == Article(l) \ sent[l]

Newest(l) == CHOOSE d \in {Dates[l][i] : i \in Article(l)} :
               \A i \in Article(l) : Dates[l][i] <= d

Settled(l) == status[l] \in {"success", "dead_letter"}

MayFail ==
  interrupts + Cardinality({l \in Log : \E c \in Call(l) : unheard[l][c] > 0}) < MaxFaults

Init == /\ active = TRUE /\ watermark = 0
        /\ status = [l \in Log |-> "pending"]
        /\ attempt = [l \in Log |-> 0]
        /\ webhook = [l \in Log |-> FALSE]
        /\ sent = [l \in Log |-> {}]
        /\ pc \in [Log -> {"queued", "absent"}]
        /\ mine = [l \in Log |-> 0] /\ seen = [l \in Log |-> 0]
        /\ posts = [l \in Log |-> 0]
        /\ messages = [l \in Log |-> [i \in Article(l) |-> 0]]
        /\ unheard = [l \in Log |-> [c \in Call(l) |-> 0]]
        /\ picked = {} /\ interrupts = 0

-----------------------------------------------------------------------------
(* app/worker/tasks.py: deliver_batch *)

Goto(l, state) == pc' = [pc EXCEPT ![l] = state]

(* What a job has in memory goes with it. *)
Forget(l) == mine' = [mine EXCEPT ![l] = 0] /\ seen' = [seen EXCEPT ![l] = 0]

Skips(l) == status[l] = "success" \/ ~active

SlotFree == Cardinality({l \in Log : pc[l] \in Running}) < MaxJobs

(* The two early returns; what was pending or failed stays so. *)
Skip(l) ==
  /\ pc[l] = "queued" /\ SlotFree /\ Skips(l)
  /\ Goto(l, "ending")
  /\ UNCHANGED <<rowVars, memVars, outVars, envVars>>

(* The rows are read once: no later commit expires them, so the attempt    *)
(* and the watermark of this moment serve to the end of the job.           *)
Begin(l) ==
  /\ pc[l] = "queued" /\ SlotFree /\ ~Skips(l)
  /\ mine' = [mine EXCEPT ![l] = attempt[l] + 1]
  /\ seen' = [seen EXCEPT ![l] = watermark]
  /\ Goto(l, IF webhook[l] THEN "telegram" ELSE "webhook")
  /\ UNCHANGED <<rowVars, outVars, envVars>>

OneMore(l) == mine[l] > MaxAttempts  \* fault: off by one
Exhausted(l) == mine[l] >= MaxAttempts

(* record_failure, then the return or the RuntimeError that ends the job. *)
Fail(l) ==
  /\ status' = [status EXCEPT ![l] = IF Exhausted(l) THEN "dead_letter" ELSE "failed"]
  /\ attempt' = [attempt EXCEPT ![l] = mine[l]]
  /\ Goto(l, "ending") /\ Forget(l)
  /\ UNCHANGED <<watermark, webhook, sent, envVars>>

(* The receiver did not take the call, or took it and did not say so: its  *)
(* answer is too late (httpx.HTTPError), not 2xx, or not what Telegram     *)
(* answers.                                                                *)
PostFails(l) ==
  /\ pc[l] = "webhook"
  /\ \E taken \in {0, 1} :
       /\ taken = 1 => MayFail
       /\ posts' = [posts EXCEPT ![l] = @ + taken]
       /\ unheard' = [unheard EXCEPT ![l][0] = @ + taken]
  /\ UNCHANGED messages
  /\ Fail(l)

PostOk(l) ==
  /\ pc[l] = "webhook"
  /\ posts' = [posts EXCEPT ![l] = @ + 1]
  /\ Goto(l, "posted")
  /\ UNCHANGED <<rowVars, memVars, messages, unheard, envVars>>

(* fault: the webhook's progress is not persisted separately *)
CommitAttempt(l) ==
  /\ pc[l] = "posted"
  /\ attempt' = [attempt EXCEPT ![l] = mine[l]]
  /\ Goto(l, "telegram")
  /\ UNCHANGED <<watermark, status, webhook, sent, memVars, outVars, envVars>>

(* fault: the watermark moves with the webhook, not with the success *)
CommitAndAdvance(l) ==
  /\ pc[l] = "posted"
  /\ webhook' = [webhook EXCEPT ![l] = TRUE]
  /\ attempt' = [attempt EXCEPT ![l] = mine[l]]
  /\ watermark' = IF Newest(l) > seen[l] THEN Newest(l) ELSE watermark
  /\ Goto(l, "telegram")
  /\ UNCHANGED <<status, sent, memVars, outVars, envVars>>

CommitWebhook(l) ==
  /\ pc[l] = "posted"
  /\ webhook' = [webhook EXCEPT ![l] = TRUE]
  /\ attempt' = [attempt EXCEPT ![l] = mine[l]]
  /\ Goto(l, "telegram")
  /\ UNCHANGED <<watermark, status, sent, memVars, outVars, envVars>>

AnyUnsent(l, i) == i \in Unsent(l)  \* fault: a set has no order
NextUnsent(l, i) == i \in Unsent(l) /\ \A j \in Unsent(l) : i <= j

SendFails(l) ==
  /\ pc[l] = "telegram" /\ Telegram
  /\ \E i \in Article(l), taken \in {0, 1} :
       /\ NextUnsent(l, i) /\ (taken = 1 => MayFail)
       /\ messages' = [messages EXCEPT ![l][i] = @ + taken]
       /\ unheard' = [unheard EXCEPT ![l][i] = @ + taken]
  /\ UNCHANGED posts
  /\ Fail(l)

SendOk(l) ==
  /\ pc[l] = "telegram" /\ Telegram
  /\ \E i \in Article(l) :
       /\ NextUnsent(l, i)
       /\ messages' = [messages EXCEPT ![l][i] = @ + 1]
  /\ Goto(l, "told")
  /\ UNCHANGED <<rowVars, memVars, posts, unheard, envVars>>

(* fault: the position after the article that was sent *)
CommitNext(l) ==
  /\ pc[l] = "told"
  /\ \E i \in Article(l) :
       /\ NextUnsent(l, i)
       /\ sent' = [sent EXCEPT ![l] = @ \cup {i + 1}]
  /\ attempt' = [attempt EXCEPT ![l] = mine[l]]
  /\ Goto(l, "telegram")
  /\ UNCHANGED <<watermark, status, webhook, memVars, outVars, envVars>>

CommitSend(l) ==
  /\ pc[l] = "told"
  /\ \E i \in Article(l) :
       /\ NextUnsent(l, i)
       /\ sent' = [sent EXCEPT ![l] = @ \cup {i}]
  /\ attempt' = [attempt EXCEPT ![l] = mine[l]]
  /\ Goto(l, "telegram")
  /\ UNCHANGED <<watermark, status, webhook, memVars, outVars, envVars>>

(* fault: the newest article delivered last, not the newest delivered *)
Replaced(l) == Newest(l) # 0
Advances(l) == Newest(l) > seen[l]

OneChannel(l) == Telegram => webhook[l]  \* fault: one channel is enough
AllChannels(l) == Telegram => Unsent(l) = {}

(* Nothing left to send: the log and the market's watermark commit         *)
(* together.                                                               *)
Complete(l) ==
  /\ pc[l] = "telegram" /\ AllChannels(l)
  /\ status' = [status EXCEPT ![l] = "success"]
  /\ attempt' = [attempt EXCEPT ![l] = mine[l]]
  /\ watermark' = IF Advances(l) THEN Newest(l) ELSE watermark
  /\ Goto(l, "ending") /\ Forget(l)
  /\ UNCHANGED <<webhook, sent, outVars, envVars>>

(* An exception before the run commits anything: a callback secret that    *)
(* cannot be decrypted, say.  The row stays as it was, the attempt is not  *)
(* counted, and the next run may meet the same exception.                  *)
Raises(l) ==
  /\ pc[l] \in {"webhook", "telegram"} /\ mine[l] > attempt[l]
  /\ Goto(l, "ending") /\ Forget(l)
  /\ UNCHANGED <<rowVars, outVars, envVars>>

(* The job returns or raises; arq keeps a result either way. *)
Finish(l) ==
  /\ pc[l] = "ending"
  /\ Goto(l, "kept")
  /\ UNCHANGED <<rowVars, memVars, outVars, envVars>>

(* keep_result runs out.  It outlasts a sweep (job_timeout): one that read *)
(* the row before this job settled it is over by now.                      *)
Expire(l) ==
  /\ pc[l] = "kept" /\ ~(Settled(l) /\ l \in picked)
  /\ Goto(l, "absent")
  /\ UNCHANGED <<rowVars, memVars, outVars, envVars>>

-----------------------------------------------------------------------------
(* app/worker/scheduler.py: enqueue_stuck_deliveries *)

Unfinished(l) == status[l] # "success"    \* fault: dead letters too
StuckPending(l) == status[l] = "pending"  \* fault: failed logs left out
Stuck(l) == status[l] \in {"pending", "failed"}

(* Age is not modelled: any unsettled log may be old enough. *)
SweepRead(l) ==
  /\ Stuck(l) /\ active /\ l \notin picked
  /\ picked' = picked \cup {l}
  /\ UNCHANGED <<rowVars, memVars, outVars, pc, active, interrupts>>

(* arq drops the job when its id is queued, running or has a kept result. *)
SweepEnqueue(l) ==
  /\ l \in picked
  /\ picked' = picked \ {l}
  /\ Goto(l, IF pc[l] = "absent" THEN "queued" ELSE pc[l])
  /\ UNCHANGED <<rowVars, memVars, outVars, active, interrupts>>

-----------------------------------------------------------------------------
(* The API's status changes, and what can go wrong around the jobs *)

(* Only candidate jobs are registered for an abort: deliveries go on.      *)
Pause == active /\ active' = FALSE
         /\ UNCHANGED <<rowVars, memVars, outVars, pc, picked, interrupts>>

Resume == ~active /\ active' = TRUE
          /\ UNCHANGED <<rowVars, memVars, outVars, pc, picked, interrupts>>

Interrupt == MayFail /\ interrupts' = interrupts + 1

(* The worker process dies: its jobs are picked up again from their start. *)
WorkerCrash ==
  /\ Interrupt
  /\ pc' = [l \in Log |-> IF pc[l] \in Running THEN "queued" ELSE pc[l]]
  /\ mine' = [l \in Log |-> 0] /\ seen' = [l \in Log |-> 0]
  /\ picked' = {}
  /\ UNCHANGED <<rowVars, outVars, active>>

(* A job timeout, or an exception in a run that has committed something,   *)
(* ends the job where it stands.                                           *)
LoseJob(l) ==
  /\ Interrupt
  /\ pc[l] \in Running \ {"ending"}
  /\ Goto(l, "kept") /\ Forget(l)
  /\ UNCHANGED <<rowVars, outVars, active, picked>>

(* Redis loses a queued job without a trace. *)
EvictJob(l) ==
  /\ Interrupt
  /\ pc[l] = "queued"
  /\ Goto(l, "absent")
  /\ UNCHANGED <<rowVars, memVars, outVars, active, picked>>

-----------------------------------------------------------------------------
Job(l) == \/ Skip(l) \/ Begin(l)
          \/ PostOk(l) \/ PostFails(l) \/ CommitWebhook(l)
          \/ SendOk(l) \/ SendFails(l) \/ CommitSend(l)
          \/ Complete(l) \/ Raises(l) \/ Finish(l)

Sweep(l) == SweepRead(l) \/ SweepEnqueue(l)

Next == \/ \E l \in Log : Job(l) \/ Expire(l) \/ Sweep(l) \/ LoseJob(l) \/ EvictJob(l)
        \/ Pause \/ Resume \/ WorkerCrash

Spec == Init /\ [][Next]_vars

(* arq runs what is queued when a slot is free and a started coroutine     *)
(* goes on (every request has a timeout), results expire, cron runs the    *)
(* sweep for ever.  Nothing obliges a receiver to answer 2xx.              *)
Fairness == \A l \in Log : /\ SF_vars(Skip(l) \/ Begin(l))
                           /\ WF_vars(Job(l)) /\ WF_vars(Expire(l))
                           /\ WF_vars(SweepRead(l)) /\ WF_vars(SweepEnqueue(l))

FairSpec == Spec /\ Fairness

-----------------------------------------------------------------------------
(* Properties *)

Date(l) == {Dates[l][i] : i \in Article(l)}
AllDates == {0} \cup UNION {Date(l) : l \in Log}

(* Every row and every job has the shape the schema and the queue give it, *)
(* and a watermark is the date of an article.                              *)
TypeOK == /\ active \in BOOLEAN
          /\ watermark \in AllDates
          /\ status \in [Log -> {"pending", "failed", "dead_letter", "success"}]
          /\ attempt \in [Log -> Nat]
          /\ webhook \in [Log -> BOOLEAN]
          /\ sent \in [Log -> SUBSET Nat]
          /\ \A l \in Log : sent[l] \subseteq Article(l)
          /\ pc \in [Log -> JobState]
          /\ mine \in [Log -> Nat]
          /\ seen \in [Log -> AllDates]
          /\ posts \in [Log -> Nat]
          /\ DOMAIN messages = Log
          /\ \A l \in Log : messages[l] \in [Article(l) -> Nat]
          /\ DOMAIN unheard = Log
          /\ \A l \in Log : unheard[l] \in [Call(l) -> Nat]
          /\ picked \subseteq Log
          /\ interrupts \in Nat

(* A log is only marked delivered when the webhook accepted it and, with   *)
(* Telegram on, so did Telegram for each article: progress that an earlier *)
(* attempt committed counts, progress it did not commit does not.          *)
SuccessIsComplete == \A l \in Log : status[l] = "success" =>
  /\ posts[l] >= 1
  /\ Telegram => \A i \in Article(l) : messages[l][i] >= 1

(* README.md:279-281 "Delivery progress is stored per channel, so retrying *)
(* a Telegram failure does not resend the webhook or earlier messages",    *)
(* and tasks.py:513-515.  What the code heard the receiver accept is sent  *)
(* again only if an interrupt kept it from being committed: a call that    *)
(* was taken more often than that was taken by attempts that failed with   *)
(* it, and each of those counts as one.                                    *)
NoRepeatedSend == \A l \in Log :
  /\ posts[l] <= 1 + unheard[l][0] + interrupts
  /\ \A i \in Article(l) : messages[l][i] <= 1 + unheard[l][i] + interrupts
  /\ \A c \in Call(l) : unheard[l][c] <= attempt[l]

(* The retries are bounded: a log gets max_delivery_attempts attempts, and *)
(* one more at most for an interrupt; it is given up after that many, not  *)
(* before; without interrupts it is not left for the sweep after them.     *)
AttemptBudget == \A l \in Log :
  /\ attempt[l] <= MaxAttempts + interrupts
  /\ status[l] = "dead_letter" => attempt[l] >= MaxAttempts
  /\ status[l] = "failed" /\ pc[l] \notin Running /\ interrupts = 0
       => attempt[l] < MaxAttempts

(* The articles of a log reach Telegram after its webhook, and in their    *)
(* order, over any number of attempts.                                     *)
TelegramInOrder == \A l \in Log : \A i \in Article(l) : messages[l][i] > 0 =>
  /\ posts[l] >= 1
  /\ \A j \in Article(l) : j < i => messages[l][j] > 0

(* A delivered log stays delivered and sends nothing more, whatever is     *)
(* interrupted.  Nor does one that was given up, as long as nothing is: a  *)
(* worker that crashes before the job is over runs it again.               *)
SettledIsFinal ==
  [][\A l \in Log :
       Settled(l) /\ (status[l] = "success" \/ interrupts' = 0)
         => status'[l] = status[l] /\ posts'[l] = posts[l] /\ messages'[l] = messages[l]]_vars

(* The newest article of the delivered logs. *)
Delivered == {l \in Log : status[l] = "success"}
DeliveredDates == {0} \cup UNION {Date(l) : l \in Delivered}

(* models.py:77-79 calls max_delivered_published_at the "High-water mark:  *)
(* the latest published_at ever included in a successfully delivered       *)
(* webhook".                                                               *)
HighWaterMark == watermark \in DeliveredDates /\ \A d \in DeliveredDates : d <= watermark

(* What is left of it when two jobs run at once: the watermark is the      *)
(* newest date of some delivered log, or none if no dated one is.          *)
WatermarkDelivered ==
  /\ watermark \in {0} \cup {Newest(l) : l \in Delivered}
  /\ watermark = 0 => \A l \in Delivered : Newest(l) = 0

(* HighWaterMark is lost in one way only: a log is delivered by a job that *)
(* began before another delivery moved the watermark.  The deliveries of a *)
(* market that do not overlap keep it.                                     *)
MarkLostByOverlap ==
  [][HighWaterMark /\ ~HighWaterMark' =>
       \E l \in Log : status[l] # status'[l] /\ status'[l] = "success" /\ seen[l] # watermark]_vars

(* In a market that stays active every log is delivered or given up,       *)
(* whatever the receivers answer: a log whose job was never enqueued, was  *)
(* lost or failed is found by the sweep.  The premise is that its runs do  *)
(* not raise for ever before they count an attempt: nothing in the code    *)
(* gives such a log up (ROADMAP.md:215-217).                               *)
Settles == \A l \in Log :
  <>[]active /\ <>[][~Raises(l)]_vars => <>Settled(l)
=============================================================================
