----------------------------- MODULE Chronology -----------------------------
(***************************************************************************)
(* In which order one market's articles reach its subscriber.  A cycle     *)
(* reads the watermark when it begins, and after the searches drops what   *)
(* was published before it; its jobs store what they find; the batch is    *)
(* delivered when its jobs are done or the sweep closes it, a late job's   *)
(* item on its own; and each delivery that is complete moves the           *)
(* watermark.  All of this overlaps: a cycle with the jobs of another, and *)
(* deliveries with cycles and with each other.                             *)
(*                                                                         *)
(* How a batch is closed is the subject of Batching, how it is sent of     *)
(* Delivery; here it is what the two do to the order.                      *)
(*                                                                         *)
(* An operator marked "fault:" is the code with one plausible mistake in   *)
(* it.  No specification uses one; PROJECT.json pairs it with the operator *)
(* after it and the property that catches the mistake.                     *)
(***************************************************************************)
EXTENDS Dates, Sequences, FiniteSets

CONSTANTS
  Article,      \* articles that can be found
  SearchDate,   \* SearchDate[a]: the date the search gives with a, or NoDate
  PageDate,     \* PageDate[a]: the date its page carries, or NoDate
  Cycle         \* runs of process_market

ASSUME ArticleAssumption == IsFiniteSet(Article)
ASSUME DateAssumption == /\ SearchDate \in [Article -> Date \cup {NoDate}]
                         /\ PageDate \in [Article -> Date \cup {NoDate}]

VARIABLES
  mark,        \* Market.max_delivered_published_at, or NoDate
  phase,       \* phase[c]: "idle", "search", "open" or "closed"
  seen,        \* seen[c]: the watermark that c has read
  jobs,        \* jobs[c]: the articles that jobs of c have in hand
  batch,       \* batch[c]: the items it has stored, until it is closed
  stored,      \* stored[c]: all the items it has stored
  queue,       \* DeliveryLogs to be sent: sets of items
  sending,     \* those being sent, each with the watermark it has read
  sent,        \* the logs delivered, in order (not in the code)
  overlap,     \* two deliveries have overlapped (not in the code)
  begun        \* begun[c]: how many deliveries were complete when c began,
               \* or 0 if some had overlapped (not in the code)

vars == <<mark, phase, seen, jobs, batch, stored, queue, sending, sent, overlap, begun>>
cycleVars == <<phase, seen, jobs, batch, stored, begun>>
sendVars == <<mark, sending, sent, overlap>>

PublishedAt(a) == Published(SearchDate[a], PageDate[a])

(* The latest date in a log, or NoDate if none of its items has a date. *)
Newest(log) == LET dates == {PublishedAt(a) : a \in log}
               IN  IF dates = {} THEN NoDate
                   ELSE CHOOSE d \in dates : \A e \in dates : d >= e

Stored == UNION {stored[c] : c \in Cycle}

Init == /\ mark = NoDate
        /\ phase = [c \in Cycle |-> "idle"]
        /\ seen = [c \in Cycle |-> NoDate]
        /\ jobs = [c \in Cycle |-> {}] /\ batch = [c \in Cycle |-> {}]
        /\ stored = [c \in Cycle |-> {}]
        /\ queue = {} /\ sending = {} /\ sent = <<>>
        /\ overlap = FALSE /\ begun = [c \in Cycle |-> 0]

-----------------------------------------------------------------------------
(* app/worker/tasks.py: process_market *)

Begin(c) ==
  /\ phase[c] = "idle" /\ phase' = [phase EXCEPT ![c] = "search"]
  /\ seen' = [seen EXCEPT ![c] = mark]
  /\ begun' = [begun EXCEPT ![c] = IF overlap THEN 0 ELSE Len(sent)]
  /\ UNCHANGED <<jobs, batch, stored, queue, sendVars>>

(* fault: nothing is held back *)
AllFresh(found, c) == found \ Stored

(* Whatever the sources give, and the other filters leave. *)
Unstale(found, c) == {a \in found \ Stored : NotBefore(SearchDate[a], seen[c])}

Select(c) ==
  /\ phase[c] = "search"
  /\ \E found \in SUBSET Article :
       /\ jobs' = [jobs EXCEPT ![c] = Unstale(found, c)]
       /\ phase' = [phase EXCEPT ![c] = IF Unstale(found, c) = {} THEN "closed" ELSE "open"]
  /\ UNCHANGED <<seen, batch, stored, queue, begun, sendVars>>

-----------------------------------------------------------------------------
(* app/worker/tasks.py: process_candidate, app/worker/batching.py *)

(* The batch of c is closed, with what it holds as a log. *)
Close(c, items) ==
  /\ phase' = [phase EXCEPT ![c] = "closed"]
  /\ batch' = [batch EXCEPT ![c] = {}]
  /\ queue' = queue \cup ({items} \ {{}})

(* A job of an open batch is done, with or without an item.  The last one  *)
(* closes the batch.                                                       *)
Resolve(c, a, items) ==
  /\ phase[c] = "open"
  /\ jobs' = [jobs EXCEPT ![c] = @ \ {a}]
  /\ \/ jobs[c] = {a} /\ Close(c, items)
     \/ jobs[c] # {a} /\ batch' = [batch EXCEPT ![c] = items] /\ UNCHANGED <<phase, queue>>

(* fault: what has been stored is looked up when the job begins *)
StoreUnchecked(c, a) ==
  /\ a \in jobs[c]
  /\ stored' = [stored EXCEPT ![c] = @ \cup {a}]
  /\ Resolve(c, a, batch[c] \cup {a})
  /\ UNCHANGED <<seen, begun, sendVars>>

Store(c, a) ==
  /\ a \in jobs[c] \ Stored
  /\ stored' = [stored EXCEPT ![c] = @ \cup {a}]
  /\ Resolve(c, a, batch[c] \cup {a})
  /\ UNCHANGED <<seen, begun, sendVars>>

Drop(c, a) ==
  /\ a \in jobs[c]
  /\ Resolve(c, a, batch[c])
  /\ UNCHANGED <<seen, stored, begun, sendVars>>

(* The batch was closed without this job: create_solo_delivery, if there   *)
(* is an item.                                                             *)
StoreLate(c, a) ==
  /\ phase[c] = "closed" /\ a \in jobs[c] \ Stored
  /\ jobs' = [jobs EXCEPT ![c] = @ \ {a}]
  /\ stored' = [stored EXCEPT ![c] = @ \cup {a}]
  /\ queue' = queue \cup {{a}}
  /\ UNCHANGED <<phase, seen, batch, begun, sendVars>>

(* enqueue_stuck_batches closes a batch whose jobs take too long. *)
Sweep(c) ==
  /\ phase[c] = "open" /\ Close(c, batch[c])
  /\ UNCHANGED <<seen, jobs, stored, begun, sendVars>>

-----------------------------------------------------------------------------
(* app/worker/tasks.py: deliver_batch *)

Deliver(log) ==
  /\ log \in queue /\ queue' = queue \ {log}
  /\ sending' = sending \cup {[log |-> log, seen |-> mark]}
  /\ UNCHANGED <<mark, sent, overlap, cycleVars>>

(* The watermark after delivery s: that of the row in memory is compared,  *)
(* and if it is passed, written.                                           *)
Advanced(s) == IF Newest(s.log) > s.seen THEN Newest(s.log) ELSE mark

Complete(s) ==
  /\ s \in sending /\ sending' = sending \ {s}
  /\ mark' = Advanced(s)
  /\ sent' = Append(sent, s.log)
  /\ overlap' = (overlap \/ mark # s.seen)
  /\ UNCHANGED <<queue, cycleVars>>

(* It failed, or its worker died: a sweep takes it up again. *)
Fail(s) ==
  /\ s \in sending /\ sending' = sending \ {s}
  /\ queue' = queue \cup {s.log}
  /\ UNCHANGED <<mark, sent, overlap, cycleVars>>

-----------------------------------------------------------------------------
Next == \/ \E c \in Cycle : \/ Begin(c) \/ Select(c) \/ Sweep(c)
                            \/ \E a \in Article : Store(c, a) \/ Drop(c, a) \/ StoreLate(c, a)
        \/ \E log \in queue : Deliver(log)
        \/ \E s \in sending : Complete(s) \/ Fail(s)

Spec == Init /\ [][Next]_vars

-----------------------------------------------------------------------------
(* Properties *)

(* Cycles, batches and deliveries have the shape they should, and no       *)
(* article is stored by two cycles.                                        *)
TypeOK ==
  /\ mark \in Date \cup {NoDate}
  /\ phase \in [Cycle -> {"idle", "search", "open", "closed"}]
  /\ seen \in [Cycle -> Date \cup {NoDate}]
  /\ jobs \in [Cycle -> SUBSET Article] /\ batch \in [Cycle -> SUBSET Article]
  /\ stored \in [Cycle -> SUBSET Article]
  /\ queue \subseteq SUBSET Article
  /\ sending \subseteq [log : SUBSET Article, seen : Date \cup {NoDate}]
  /\ sent \in Seq(SUBSET Article)
  /\ overlap \in BOOLEAN /\ begun \in [Cycle -> Nat]
  /\ \A c, d \in Cycle : c # d => stored[c] \cap stored[d] = {}

(* tasks.py:158-160: an article that the search dated does not arrive      *)
(* after a delivery with a newer one, if its cycle began when that         *)
(* delivery was complete, and no two deliveries had overlapped by then.    *)
(* It may arrive so if its cycle had begun before: the watermark of the    *)
(* cycle's start is the one that counts.                                   *)
LateOnlyInFlight == \A c \in Cycle, k \in 1 .. Len(sent) :
  k <= begun[c] =>
    \A a \in stored[c], b \in sent[k] :
      SearchDate[a] # NoDate => PublishedAt(a) >= PublishedAt(b)
=============================================================================
