------------------------------ MODULE Batching ------------------------------
(***************************************************************************)
(* The batch ledger of one market: process_market opens a NewsBatch and    *)
(* fans out one process_candidate job per URL, every job resolves its      *)
(* candidate in the ledger, and the resolution that completes the batch    *)
(* (or the sweep that force-closes it) builds the batch's DeliveryLog.     *)
(*                                                                         *)
(* Everything here is per market, because the advisory lock and every      *)
(* query filter on the market.  A step is one database transaction or one  *)
(* queue operation; a transaction that holds the advisory lock across      *)
(* several reads is split at the point where another actor can interfere.  *)
(*                                                                         *)
(* An operator marked "fault:" is the code with one plausible mistake in   *)
(* it.  No specification uses one; PROJECT.json pairs it with the operator *)
(* after it and the property that catches the mistake.                     *)
(***************************************************************************)
EXTENDS Naturals, Sequences, FiniteSets

CONSTANTS
  Url,            \* URL hashes, of candidates and of the pages they lead to
  Story,          \* what an article reports (title simhash and embedding)
  Near,           \* pairs of stories the simhash or the vector check equates
  Batch,          \* NewsBatch ids: one per process_market run, at most
  NoBatch,        \* the batch of a job queued under the old 3-arg signature
  Legacy,         \* candidates whose old-signature job is queued at start
  NoPage,         \* the page of a job that holds none
  MaxInterrupts   \* bound on crashes, lost jobs and aborted jobs

Page == [url : Url, story : Story]
Item == [url : Url, story : Story, batch : Batch \cup {NoBatch}]

ASSUME UrlAssumption == IsFiniteSet(Url) /\ Legacy \subseteq Url
ASSUME NearAssumption == /\ Near \subseteq Story \X Story
                         /\ \A s \in Story : <<s, s>> \in Near
                         /\ \A s, t \in Story : <<s, t>> \in Near => <<t, s>> \in Near
ASSUME NoneAssumption == NoBatch \notin Batch /\ NoPage \notin Page
ASSUME BoundAssumption == MaxInterrupts \in Nat

VARIABLES
  active,      \* Market.status = active
  cycle,       \* cycle[b]: the process_market run that may create batch b
  hand,        \* hand[b]: the candidates that run still holds in memory
  status,      \* NewsBatch.status, "absent" before the row exists
  selected,    \* the candidates b was opened for; expected_count is its size
  resolved,    \* NewsBatch.resolved_count
  ledger,      \* NewsBatchCandidate rows
  items,       \* NewsItem rows
  logs,        \* DeliveryLog rows, in the order they were created
  pc,          \* pc[h]: the state of job process_candidate:<market>:<h>
  arg,         \* arg[h]: the batch_id argument of that job
  page,        \* page[h]: the page it holds between its checks and its commit
  picked,      \* the batches the running sweep has read as stuck
  interrupts   \* crashes, lost jobs and aborted jobs so far

vars == <<active, cycle, hand, status, selected, resolved, ledger, items,
          logs, pc, arg, page, picked, interrupts>>
runVars == <<cycle, hand>>
rowVars == <<status, selected, resolved, ledger, items, logs>>
jobVars == <<pc, arg, page>>

Running == {"work", "locked", "solo", "ending"}

(* "kept": the job is over and arq keeps its result, which makes it refuse *)
(* the same job id just as it does for a queued or running job.            *)
JobState == {"absent", "queued", "kept"} \cup Running

Done(b) == {h \in Url : \E r \in ledger : r.batch = b /\ r.cand = h}
Expected(b) == Cardinality(selected[b])
StoredUrls == {i.url : i \in items}
Clash(i, j) == i.url = j.url \/ <<i.story, j.story>> \in Near

(* fault: only the exact-URL check, none for the title or the embedding    *)
UrlDuplicate(p) == \E i \in items : i.url = p.url
Duplicate(p) == \E i \in items : Clash(i, p)
ItemOf(h) == [url |-> page[h].url, story |-> page[h].story, batch |-> arg[h]]

(* pg_advisory_xact_lock: only a job between its checks and its commit     *)
(* holds it from one step to the next.                                     *)
LockSkipped == TRUE  \* fault: no advisory lock
LockFree == \A h \in Url : pc[h] # "locked"

Init == /\ active = TRUE
        /\ cycle = [b \in Batch |-> "idle"]
        /\ hand = [b \in Batch |-> {}]
        /\ status = [b \in Batch |-> "absent"]
        /\ selected = [b \in Batch |-> {}]
        /\ resolved = [b \in Batch |-> 0]
        /\ ledger = {} /\ items = {} /\ logs = << >>
        /\ pc = [h \in Url |-> IF h \in Legacy THEN "queued" ELSE "absent"]
        /\ arg = [h \in Url |-> NoBatch]
        /\ page = [h \in Url |-> NoPage]
        /\ picked = {} /\ interrupts = 0

-----------------------------------------------------------------------------
(* app/worker/batching.py *)

(* fault: the group is read before the closing item is flushed *)
GroupBeforeFlush(b) == {i \in items : i.batch = b}
Group(b) == {i \in items' : i.batch = b}

Finalize(b) ==
  \/ Group(b) = {} /\ logs' = logs
  \/ Group(b) # {} /\ logs' = Append(logs, [batch |-> b, news |-> Group(b)])

(* fault: a state the schema does not declare *)
ExpireAndFinalize(b) == status' = [status EXCEPT ![b] = "expired"] /\ Finalize(b)
CloseAndFinalize(b) == status' = [status EXCEPT ![b] = "closed"] /\ Finalize(b)

ConflictForgotten(b, h) == FALSE  \* fault: no unique constraint
Recorded(b, h) == h \in Done(b)

OneShort(b) == resolved[b] + 2 >= Expected(b)  \* fault: off by one
Complete(b) == resolved[b] + 1 >= Expected(b)

(* resolve_batch_candidate up to its (first) commit; new is the staged     *)
(* NewsItem, or nothing.                                                   *)
Record(b, h, new) ==
  /\ items' = items \cup new
  /\ UNCHANGED selected
  /\ \/ /\ Recorded(b, h)           \* ON CONFLICT: commits what was staged
        /\ UNCHANGED <<status, resolved, ledger, logs>>
     \/ /\ ~Recorded(b, h)
        /\ ledger' = ledger \cup {[batch |-> b, cand |-> h, news |-> new]}
        /\ \/ /\ status[b] # "open" \* the compare-and-set finds no open row
              /\ UNCHANGED <<status, resolved, logs>>
           \/ /\ status[b] = "open"
              /\ resolved' = [resolved EXCEPT ![b] = @ + 1]
              /\ \/ ~Complete(b) /\ UNCHANGED <<status, logs>>
                 \/ Complete(b) /\ CloseAndFinalize(b)

(* The candidate resolves after its batch was closed elsewhere.            *)
AlwaysStraggler(b, h) == ~Recorded(b, h)  \* fault: a solo log in any case
NeverStraggler(b, h) == FALSE             \* fault: no solo log
Straggler(b, h) == ~Recorded(b, h) /\ status[b] # "open"

SoloLog(i) == Append(logs, [batch |-> NoBatch, news |-> {i}])

-----------------------------------------------------------------------------
(* app/worker/tasks.py: process_market *)

(* The status guard, the queries, the search, and the read of the stored   *)
(* hashes; the candidates that survive are only selected later.            *)
Search(b) ==
  /\ cycle[b] = "idle" /\ active
  /\ cycle' = [cycle EXCEPT ![b] = "search"]
  /\ hand' = [hand EXCEPT ![b] = Url \ StoredUrls]
  /\ UNCHANGED <<rowVars, jobVars, active, picked, interrupts>>

(* The date filters and the prefilter keep any part of what was found; a   *)
(* batch row is committed only when something is left.                     *)
OpenBatch(b) ==
  /\ cycle[b] = "search"
  /\ cycle' = [cycle EXCEPT ![b] = "fanout"]
  /\ \E S \in SUBSET hand[b] :
       /\ hand' = [hand EXCEPT ![b] = S]
       /\ selected' = [selected EXCEPT ![b] = S]
       /\ status' = [status EXCEPT ![b] = IF S = {} THEN "absent" ELSE "open"]
  /\ UNCHANGED <<resolved, ledger, items, logs, jobVars, active, picked, interrupts>>

TakeFromHand(b, h) ==
  /\ cycle[b] = "fanout" /\ h \in hand[b]
  /\ hand' = [hand EXCEPT ![b] = @ \ {h}]
  /\ UNCHANGED cycle

Enqueue(b, h) ==
  /\ TakeFromHand(b, h) /\ pc[h] = "absent"
  /\ pc' = [pc EXCEPT ![h] = "queued"]
  /\ arg' = [arg EXCEPT ![h] = b]
  /\ UNCHANGED <<rowVars, page, active, picked, interrupts>>

(* fault: a collision is taken for an enqueue *)
CollideIgnored(b, h) ==
  TakeFromHand(b, h) /\ pc[h] # "absent" /\ UNCHANGED <<rowVars, jobVars, active, picked, interrupts>>

(* enqueue_job returned None: "collided_prior_cycle". *)
Collide(b, h) ==
  /\ TakeFromHand(b, h) /\ pc[h] # "absent" /\ LockFree
  /\ Record(b, h, {})
  /\ UNCHANGED <<jobVars, active, picked, interrupts>>

-----------------------------------------------------------------------------
(* app/worker/tasks.py: process_candidate *)

Goto(h, state) == pc' = [pc EXCEPT ![h] = state]

(* resolve() with no item: a terminal outcome that stored nothing. *)
ResolveDropped(h) ==
  /\ Goto(h, "ending")
  /\ \/ arg[h] = NoBatch /\ UNCHANGED rowVars
     \/ arg[h] # NoBatch /\ LockFree /\ Record(arg[h], h, {})
  /\ UNCHANGED <<arg, page, runVars, active, picked, interrupts>>

Start(h) ==
  /\ pc[h] = "queued" /\ active
  /\ Goto(h, "work")
  /\ UNCHANGED <<rowVars, arg, page, runVars, active, picked, interrupts>>

(* fault: the entry guard returns without resolving *)
StartSilent(h) == /\ pc[h] = "queued" /\ ~active /\ Goto(h, "ending")
                  /\ UNCHANGED <<rowVars, arg, page, runVars, active, picked, interrupts>>

StartInactive(h) == pc[h] = "queued" /\ ~active /\ ResolveDropped(h)

(* scrape_failed, extraction_error, not_relevant, embed_error *)
Drop(h) == pc[h] = "work" /\ ResolveDropped(h)

(* Under the lock: market_inactive, dup_url, dup_title, dup_semantic *)
Reject(h) == /\ pc[h] = "work" /\ LockFree
             /\ ~active \/ \E p \in Page : Duplicate(p)
             /\ ResolveDropped(h)

(* The lock is taken and every check passes; it is held until the commit.  *)
PassChecks(h) ==
  /\ pc[h] = "work" /\ LockFree /\ active
  /\ \E p \in Page : ~Duplicate(p) /\ page' = [page EXCEPT ![h] = p]
  /\ Goto(h, "locked")
  /\ UNCHANGED <<rowVars, arg, runVars, active, picked, interrupts>>

ReleasePage(h) == page' = [page EXCEPT ![h] = NoPage]

(* resolve("stored") of a job with a batch: the item, the ledger row and   *)
(* whatever closing the batch adds commit together.  A straggler goes on   *)
(* to a second transaction for its own log.                                *)
Store(h) ==
  /\ pc[h] = "locked" /\ arg[h] # NoBatch
  /\ Record(arg[h], h, {ItemOf(h)})
  /\ \/ Straggler(arg[h], h) /\ Goto(h, "solo") /\ UNCHANGED page
     \/ ~Straggler(arg[h], h) /\ Goto(h, "ending") /\ ReleasePage(h)
  /\ UNCHANGED <<arg, runVars, active, picked, interrupts>>

(* resolve("stored") of an old-signature job: item and log commit together. *)
StoreLegacy(h) ==
  /\ pc[h] = "locked" /\ arg[h] = NoBatch
  /\ items' = items \cup {ItemOf(h)}
  /\ logs' = SoloLog(ItemOf(h))
  /\ Goto(h, "ending") /\ ReleasePage(h)
  /\ UNCHANGED <<status, selected, resolved, ledger, arg, runVars, active, picked, interrupts>>

(* create_solo_delivery and the commit after it. *)
Solo(h) ==
  /\ pc[h] = "solo"
  /\ logs' = SoloLog(ItemOf(h))
  /\ Goto(h, "ending") /\ ReleasePage(h)
  /\ UNCHANGED <<status, selected, resolved, ledger, items, arg, runVars, active,
                 picked, interrupts>>

(* The job returns (after the deliver_batch enqueue, see Delivery). *)
Finish(h) ==
  /\ pc[h] = "ending"
  /\ Goto(h, "kept")
  /\ UNCHANGED <<rowVars, arg, page, runVars, active, picked, interrupts>>

(* keep_result runs out: the job id can be used again. *)
Expire(h) ==
  /\ pc[h] = "kept"
  /\ Goto(h, "absent") /\ arg' = [arg EXCEPT ![h] = NoBatch]
  /\ UNCHANGED <<rowVars, page, runVars, active, picked, interrupts>>

-----------------------------------------------------------------------------
(* app/worker/scheduler.py: enqueue_stuck_batches *)

(* fault: a batch with nothing resolved yet is taken for a slow one *)
SweepReadStarted(b) ==
  /\ status[b] = "open" /\ active /\ b \notin picked /\ resolved[b] > 0
  /\ picked' = picked \cup {b}
  /\ UNCHANGED <<rowVars, jobVars, runVars, active, interrupts>>

(* The sweep reads the open batches of active markets in one transaction   *)
(* and closes them in later ones.  Age is not modelled: any open batch may *)
(* be found stuck.                                                         *)
SweepRead(b) ==
  /\ status[b] = "open" /\ active /\ b \notin picked
  /\ picked' = picked \cup {b}
  /\ UNCHANGED <<rowVars, jobVars, runVars, active, interrupts>>

(* fault: an update without WHERE status = 'open' *)
SweepCloseBlind(b) ==
  /\ b \in picked /\ LockFree
  /\ picked' = picked \ {b}
  /\ UNCHANGED <<selected, resolved, ledger, items, jobVars, runVars, active, interrupts>>
  /\ CloseAndFinalize(b)

(* force_close_batch, with the same compare-and-set as the normal path. *)
SweepClose(b) ==
  /\ b \in picked /\ LockFree
  /\ picked' = picked \ {b}
  /\ UNCHANGED <<selected, resolved, ledger, items, jobVars, runVars, active, interrupts>>
  /\ \/ status[b] = "open" /\ CloseAndFinalize(b)
     \/ status[b] # "open" /\ UNCHANGED <<status, logs>>

-----------------------------------------------------------------------------
(* The API's status changes, and what can go wrong around the jobs *)

(* The commit of unsubscribe or update_market.  The aborts it sends next    *)
(* are LoseJob steps: each job is cancelled wherever it then stands, or    *)
(* missed because it was over or not yet registered.                       *)
Pause == active /\ active' = FALSE
         /\ UNCHANGED <<rowVars, jobVars, runVars, picked, interrupts>>

Resume == ~active /\ active' = TRUE
          /\ UNCHANGED <<rowVars, jobVars, runVars, picked, interrupts>>

Interrupt == interrupts < MaxInterrupts /\ interrupts' = interrupts + 1

(* The worker process dies: open transactions roll back, its candidate     *)
(* jobs are picked up again from their start, and what its other runs held *)
(* in memory is gone (a re-picked process_market is a run of its own).     *)
WorkerCrash ==
  /\ Interrupt
  /\ pc' = [h \in Url |-> IF pc[h] \in Running THEN "queued" ELSE pc[h]]
  /\ page' = [h \in Url |-> NoPage]
  /\ cycle' = [b \in Batch |-> IF cycle[b] = "search" THEN "fanout" ELSE cycle[b]]
  /\ hand' = [b \in Batch |-> {}]
  /\ picked' = {}
  /\ UNCHANGED <<rowVars, arg, active>>

(* A timeout, an abort or an exception ends a running job, an abort ends a *)
(* queued one: arq keeps the failure as the result and does not retry.     *)
LoseJob(h) ==
  /\ Interrupt
  /\ pc[h] \in Running \cup {"queued"}
  /\ Goto(h, "kept") /\ ReleasePage(h)
  /\ UNCHANGED <<rowVars, arg, runVars, active, picked>>

(* Redis loses a queued job without a trace. *)
EvictJob(h) ==
  /\ Interrupt
  /\ pc[h] = "queued"
  /\ Goto(h, "absent") /\ arg' = [arg EXCEPT ![h] = NoBatch]
  /\ UNCHANGED <<rowVars, page, runVars, active, picked>>

(* A timeout or an error ends a process_market run where it stands. *)
LoseCycle(b) ==
  /\ Interrupt
  /\ cycle[b] = "search" \/ hand[b] # {}
  /\ cycle' = [cycle EXCEPT ![b] = "fanout"]
  /\ hand' = [hand EXCEPT ![b] = {}]
  /\ UNCHANGED <<rowVars, jobVars, active, picked>>

-----------------------------------------------------------------------------
Dispatch(b) == \/ Search(b) \/ OpenBatch(b)
               \/ \E h \in Url : Enqueue(b, h) \/ Collide(b, h)

Job(h) == \/ Start(h) \/ StartInactive(h) \/ Drop(h) \/ Reject(h) \/ PassChecks(h)
          \/ Store(h) \/ StoreLegacy(h) \/ Solo(h) \/ Finish(h)

Sweep(b) == SweepRead(b) \/ SweepClose(b)

Trouble == \/ WorkerCrash
           \/ \E h \in Url : LoseJob(h) \/ EvictJob(h)
           \/ \E b \in Batch : LoseCycle(b)

Next == \/ \E b \in Batch : Dispatch(b) \/ Sweep(b)
        \/ \E h \in Url : Job(h) \/ Expire(h)
        \/ Pause \/ Resume \/ Trouble

Spec == Init /\ [][Next]_vars

(* arq runs what is queued and a started coroutine goes on; nobody is      *)
(* obliged to start a cycle, to pause, or to fail.                         *)
JobFairness == /\ \A h \in Url : WF_vars(Job(h))
               /\ \A b \in Batch : WF_vars(OpenBatch(b) \/ \E h \in Url : Enqueue(b, h) \/ Collide(b, h))

(* cron runs the sweep for ever. *)
SweepFairness == \A b \in Batch : WF_vars(SweepRead(b)) /\ WF_vars(SweepClose(b))

JobSpec == Spec /\ JobFairness
FairSpec == JobSpec /\ SweepFairness

-----------------------------------------------------------------------------
(* Properties *)

LedgerRow == [batch : Batch, cand : Url, news : SUBSET Item]
LogRow == [batch : Batch \cup {NoBatch}, news : SUBSET Item]

(* Every row and every job has the shape the schema and the queue give it. *)
TypeOK == /\ active \in BOOLEAN
          /\ cycle \in [Batch -> {"idle", "search", "fanout"}]
          /\ hand \in [Batch -> SUBSET Url]
          /\ status \in [Batch -> {"absent", "open", "closed"}]
          /\ selected \in [Batch -> SUBSET Url]
          /\ resolved \in [Batch -> Nat]
          /\ ledger \subseteq LedgerRow
          /\ items \subseteq Item
          /\ logs \in Seq(LogRow)
          /\ pc \in [Url -> JobState]
          /\ arg \in [Url -> Batch \cup {NoBatch}]
          /\ page \in [Url -> Page \cup {NoPage}]
          /\ picked \subseteq Batch
          /\ interrupts \in Nat

(* The ledger doubles as the completion counter (batching.py module doc):  *)
(* resolved_count never runs ahead of the candidates in the ledger, and    *)
(* while the batch is open it is their number and still short of           *)
(* expected_count, whatever crashed and was run again.                     *)
CountsMatch == \A b \in Batch :
  /\ resolved[b] <= Cardinality(Done(b))
  /\ status[b] = "open" => resolved[b] = Cardinality(Done(b)) /\ resolved[b] < Expected(b)

(* A batch closed by a resolution (the sweep is the only one to take a     *)
(* batch out of picked) has every candidate it selected in the ledger: the *)
(* parity close never cuts a batch short, with collisions, re-runs and     *)
(* stragglers counted.                                                     *)
ParityMeansAll ==
  [][\A b \in Batch : status[b] = "open" /\ status'[b] = "closed" /\ picked' = picked
                        => Done(b)' = selected[b]]_vars

(* Two stored articles of a market are never the same page or near-        *)
(* duplicate stories, although jobs scrape and extract concurrently: the   *)
(* checks and the insert share one hold of the advisory lock.              *)
DistinctNews == \A i, j \in items : Clash(i, j) => i = j

(* No article is in two DeliveryLogs: not in a batch's group and a solo    *)
(* log, not in the groups of a parity close and of a racing sweep.         *)
OneLogPerItem == \A m, n \in DOMAIN logs : m # n => logs[m].news \cap logs[n].news = {}

(* "exactly one execution ever transitions a NewsBatch from open to        *)
(* closed, and only that execution gathers and delivers the batch's items" *)
(* (batching.py module doc): one log per batch, made for a closed batch    *)
(* out of that batch's items.                                              *)
OneLogPerBatch == \A m \in DOMAIN logs : logs[m].batch # NoBatch =>
                     /\ status[logs[m].batch] = "closed"
                     /\ \A i \in logs[m].news : i.batch = logs[m].batch
                     /\ \A n \in DOMAIN logs : logs[n].batch = logs[m].batch => n = m

Logged == UNION {logs[m].news : m \in DOMAIN logs}
AtSolo(i) == \E h \in Url : pc[h] = "solo" /\ ItemOf(h) = i

(* As long as nothing was interrupted, a stored article without a delivery *)
(* either waits for its open batch or is a straggler whose job is about to *)
(* write the solo log: a close and a late resolution never miss each other.*)
NoStrandedItem == interrupts = 0 =>
  \A i \in items \ Logged : AtSolo(i) \/ \E b \in Batch : i.batch = b /\ status[b] = "open"

(* As long as nothing was interrupted, every candidate an open batch waits *)
(* for is in the ledger, still to be fanned out, or in a live job that     *)
(* will resolve it in this batch: a job id that collides with an earlier   *)
(* cycle's does not leave the batch short.                                 *)
Live == Running \cup {"queued"}
EveryCandidateOwned == interrupts = 0 =>
  \A b \in Batch : \A h \in selected[b] :
     status[b] = "open" => \/ h \in Done(b) \/ h \in hand[b]
                           \/ pc[h] \in Live /\ arg[h] = b

(* The rows implement the abstract stream of articles and groups. *)
Stream == INSTANCE NewsStream WITH Article <- Item, stored <- items,
            groups <- [m \in DOMAIN logs |-> logs[m].news]
ImplementsStream == Stream!Spec

(* With no interrupt, and so no job aborted, every batch is closed by its  *)
(* own candidates, in a paused market too: nobody waits for the sweep.     *)
ParityCloses == \A b \in Batch : (status[b] = "open") ~> (status[b] = "closed")

(* With no interrupt every stored article ends up in a delivery. *)
EventuallyLogged == \A u \in Url : (u \in StoredUrls) ~> (u \in {i.url : i \in Logged})

(* With crashes and lost jobs, a batch of a market that stays active is    *)
(* closed in the end: the sweep picks up what the jobs left open.          *)
SweepCloses == <>[]active => ParityCloses

(* batching.py:60-63 says of a straggler "Deliver it on its own rather     *)
(* than losing it": an item whose resolution is in the ledger reaches a    *)
(* delivery.                                                               *)
Reflected == {i \in items : \E r \in ledger : i \in r.news}
StragglerDelivered == <>[]active =>
  \A u \in Url : (u \in {i.url : i \in Reflected}) ~> (u \in {i.url : i \in Logged})

(* batching.py:77-81 says an item commits atomically with its resolution,  *)
(* "no window where an item exists but isn't yet reflected", and :15-16    *)
(* that a re-picked job that already resolved no-ops: every item of a      *)
(* batch is named by the ledger row of its candidate.                      *)
ItemReflected == \A i \in items : i.batch # NoBatch => i \in Reflected
=============================================================================
