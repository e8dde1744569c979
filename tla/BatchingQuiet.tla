--------------------------- MODULE BatchingQuiet ----------------------------
(***************************************************************************)
(* What Batching guarantees while nothing has been interrupted: every      *)
(* candidate has exactly one actor that will resolve it, and every stored  *)
(* article has a delivery or somebody who will create it.                  *)
(***************************************************************************)
EXTENDS BatchingSafety

(* A candidate in hand has no ledger row.                                  *)
HandFresh == \A b \in Batch : \A h \in hand[b] : cycle[b] = "fanout" => h \notin Done(b)

(* A job before its resolution is the only one to own its ledger row.      *)
JobFresh == \A h \in Url : arg[h] \in Batch /\ pc[h] \in {"queued", "work", "locked"} =>
               h \notin Done(arg[h]) /\ h \notin hand[arg[h]]

(* A job after its resolution left a ledger row.                           *)
JobDone == \A h \in Url : arg[h] \in Batch /\ pc[h] \in {"solo", "ending", "kept"} =>
              h \in Done(arg[h])

OwnInv == interrupts = 0 => HandFresh /\ JobFresh /\ JobDone

LEMMA NoTrouble ==
  ASSUME TypeOK, Trouble
  PROVE  interrupts' # 0
<1>1. interrupts' = interrupts + 1 /\ interrupts \in Nat
  BY DEF Trouble, WorkerCrash, LoseJob, EvictJob, LoseCycle, Interrupt, TypeOK
<1> QED
  BY <1>1

LEMMA QuietBefore ==
  ASSUME TypeOK, [Next]_vars, interrupts' = 0
  PROVE  interrupts = 0 /\ ~Trouble
<1>1. ~Trouble
  BY NoTrouble
<1>2. ASSUME NEW b \in Batch, Dispatch(b) \/ Sweep(b) PROVE interrupts' = interrupts
  BY <1>2 DEF Dispatch, Sweep, Search, OpenBatch, Enqueue, Collide, SweepRead, SweepClose
<1>3. ASSUME NEW h \in Url, Job(h) \/ Expire(h) PROVE interrupts' = interrupts
  BY <1>3 DEF Job, Expire, Start, StartInactive, Drop, Reject, ResolveDropped, PassChecks,
              Store, StoreLegacy, Solo, Finish
<1> QED
  BY <1>1, <1>2, <1>3 DEF Next, Pause, Resume, vars

LEMMA DoneSame ==
  ASSUME ledger' = ledger
  PROVE  \A b \in Batch : Done(b)' = Done(b)
  BY DEF Done

(* The resolution of a job's own candidate.                                *)
LEMMA OwnResolve ==
  ASSUME TInv, Rows, HandFresh, JobFresh, JobDone,
         NEW h \in Url, arg[h] \in Batch, pc[h] \in {"queued", "work", "locked"},
         NEW new \in SUBSET Item, Record(arg[h], h, new),
         NEW s \in {"solo", "ending"}, pc' = [pc EXCEPT ![h] = s],
         UNCHANGED <<arg, hand, cycle>>
  PROVE  HandFresh' /\ JobFresh' /\ JobDone'
<1>1. \A c \in Batch : Done(c)' = IF c = arg[h] THEN Done(c) \cup {h} ELSE Done(c)
  BY RecordEffect DEF TInv
<1>2. h \notin hand[arg[h]]
  BY DEF JobFresh
<1>3. HandFresh'
  BY <1>1, <1>2 DEF HandFresh
<1>4. JobFresh'
  BY <1>1 DEF JobFresh, TInv, TypeOK
<1>5. JobDone'
  BY <1>1 DEF JobDone, TInv, TypeOK
<1> QED
  BY <1>3, <1>4, <1>5

LEMMA OwnStep == TInv /\ Rows /\ OwnInv /\ [Next]_vars => OwnInv'
<1> SUFFICES ASSUME TInv, Rows, OwnInv, [Next]_vars, interrupts' = 0
             PROVE  HandFresh' /\ JobFresh' /\ JobDone'
  BY DEF OwnInv
<1>0. TypeOK /\ interrupts = 0 /\ ~Trouble /\ HandFresh /\ JobFresh /\ JobDone
  BY QuietBefore DEF TInv, OwnInv
<1> DEFINE Goal == HandFresh' /\ JobFresh' /\ JobDone'
<1>1. ASSUME NEW b \in Batch, Search(b) PROVE Goal
  <2>1. /\ cycle' = [cycle EXCEPT ![b] = "search"] /\ cycle[b] = "idle"
        /\ hand' = [hand EXCEPT ![b] = Url \ StoredUrls]
        /\ UNCHANGED <<ledger, pc, arg>>
    BY <1>1 DEF Search, rowVars, jobVars
  <2>2. \A h \in Url : arg[h] # b
    BY <2>1 DEF Rows
  <2>3. HandFresh'
    BY <1>0, <2>1, DoneSame DEF HandFresh, TypeOK
  <2>4. JobFresh' /\ JobDone'
    BY <1>0, <2>1, <2>2, DoneSame DEF JobFresh, JobDone, TypeOK
  <2> QED
    BY <2>3, <2>4
<1>2. ASSUME NEW b \in Batch, OpenBatch(b) PROVE Goal
  <2>1. PICK S \in SUBSET hand[b] : hand' = [hand EXCEPT ![b] = S]
    BY <1>2 DEF OpenBatch
  <2>2. /\ cycle' = [cycle EXCEPT ![b] = "fanout"] /\ cycle[b] = "search"
        /\ UNCHANGED <<ledger, pc, arg>>
    BY <1>2 DEF OpenBatch, jobVars
  <2>3. selected[b] = {}
    BY <2>2 DEF Rows
  <2>4. Done(b) = {} /\ \A h \in Url : arg[h] # b
    <3>1. \A r \in ledger : r.batch # b
      BY <2>3 DEF Rows
    <3>2. Done(b) = {}
      BY <3>1 DEF Done
    <3> QED
      BY <2>3, <3>2 DEF Rows
  <2>5. HandFresh'
    BY <1>0, <2>1, <2>2, <2>4, DoneSame DEF HandFresh, TypeOK
  <2>6. JobFresh' /\ JobDone'
    BY <1>0, <2>1, <2>2, <2>4, DoneSame DEF JobFresh, JobDone, TypeOK
  <2> QED
    BY <2>5, <2>6
<1>3. ASSUME NEW b \in Batch, NEW h \in Url, Enqueue(b, h) PROVE Goal
  <2>1. /\ cycle' = cycle /\ cycle[b] = "fanout" /\ h \in hand[b]
        /\ hand' = [hand EXCEPT ![b] = @ \ {h}]
        /\ pc' = [pc EXCEPT ![h] = "queued"] /\ arg' = [arg EXCEPT ![h] = b]
        /\ ledger' = ledger
    BY <1>3 DEF Enqueue, TakeFromHand, rowVars
  <2>2. h \notin Done(b)
    BY <1>0, <2>1 DEF HandFresh
  <2>3. HandFresh'
    BY <1>0, <2>1, DoneSame DEF HandFresh, TypeOK
  <2>4. JobFresh' /\ JobDone'
    BY <1>0, <2>1, <2>2, DoneSame DEF JobFresh, JobDone, TypeOK
  <2> QED
    BY <2>3, <2>4
<1>4. ASSUME NEW b \in Batch, NEW h \in Url, Collide(b, h) PROVE Goal
  <2>1. /\ cycle' = cycle /\ cycle[b] = "fanout" /\ h \in hand[b]
        /\ hand' = [hand EXCEPT ![b] = @ \ {h}]
        /\ UNCHANGED <<pc, arg>>
    BY <1>4 DEF Collide, TakeFromHand, jobVars
  <2>2. \A c \in Batch : Done(c)' = IF c = b THEN Done(c) \cup {h} ELSE Done(c)
    BY <1>0, <1>4, RecordEffect DEF Collide
  <2>3. HandFresh'
    BY <1>0, <2>1, <2>2 DEF HandFresh, TypeOK
  <2>4. JobFresh' /\ JobDone'
    BY <1>0, <2>1, <2>2 DEF JobFresh, JobDone, TypeOK
  <2> QED
    BY <2>3, <2>4
<1>5. ASSUME NEW h \in Url, pc[h] \in {"queued", "work"}, ResolveDropped(h) PROVE Goal
  <2>1. pc' = [pc EXCEPT ![h] = "ending"] /\ UNCHANGED <<arg, hand, cycle>>
    BY <1>5 DEF ResolveDropped, Goto, runVars
  <2>2. CASE arg[h] = NoBatch /\ UNCHANGED rowVars
    <3>1. ledger' = ledger /\ arg[h] \notin Batch
      BY <2>2, NoneAssumption DEF rowVars
    <3>2. HandFresh'
      BY <1>0, <2>1, <3>1, DoneSame DEF HandFresh
    <3> QED
      BY <1>0, <2>1, <3>1, <3>2, DoneSame DEF JobFresh, JobDone, TypeOK
  <2>3. CASE arg[h] # NoBatch /\ Record(arg[h], h, {})
    <3>1. arg[h] \in Batch /\ {} \in SUBSET Item
      BY <1>0, <2>3 DEF TypeOK
    <3> QED
      BY <1>0, <1>5, <2>1, <2>3, <3>1, OwnResolve
  <2> QED
    BY <1>5, <2>2, <2>3 DEF ResolveDropped
<1>6. ASSUME NEW h \in Url, Store(h) PROVE Goal
  <2> DEFINE new == {ItemOf(h)}
  <2>1. arg[h] \in Batch /\ new \in SUBSET Item /\ Record(arg[h], h, new)
    BY <1>6, StoreRecords
  <2>2. pc[h] = "locked" /\ UNCHANGED <<arg, hand, cycle>>
    BY <1>6 DEF Store, runVars
  <2>3. PICK s \in {"solo", "ending"} : pc' = [pc EXCEPT ![h] = s]
    BY <1>6 DEF Store, Goto
  <2> HIDE DEF new
  <2> QED
    BY <1>0, <2>1, <2>2, <2>3, OwnResolve
(* The remaining steps of a job stay on one side of its resolution.        *)
<1>7. ASSUME NEW h \in Url, Start(h) \/ PassChecks(h) \/ StoreLegacy(h) \/ Solo(h) \/ Finish(h)
      PROVE  Goal
  <2>1. UNCHANGED <<ledger, arg, hand, cycle>>
    BY <1>7 DEF Start, PassChecks, StoreLegacy, Solo, Finish, rowVars, runVars
  <2>2. \/ /\ pc[h] \in {"queued", "work"}
           /\ \E s \in {"work", "locked"} : pc' = [pc EXCEPT ![h] = s]
        \/ /\ pc[h] \in {"solo", "ending"} \/ arg[h] \notin Batch
           /\ \E s \in {"ending", "kept"} : pc' = [pc EXCEPT ![h] = s]
    BY <1>7, NoneAssumption DEF Start, PassChecks, StoreLegacy, Solo, Finish, Goto
  <2>3. HandFresh'
    BY <1>0, <2>1, DoneSame DEF HandFresh
  <2>4. JobFresh'
    BY <1>0, <2>1, <2>2, DoneSame DEF JobFresh, TypeOK
  <2>5. JobDone'
    BY <1>0, <2>1, <2>2, DoneSame DEF JobDone, TypeOK
  <2> QED
    BY <2>3, <2>4, <2>5
<1>8. ASSUME NEW h \in Url, Expire(h) PROVE Goal
  <2>1. /\ UNCHANGED <<ledger, hand, cycle>>
        /\ pc' = [pc EXCEPT ![h] = "absent"] /\ arg' = [arg EXCEPT ![h] = NoBatch]
    BY <1>8 DEF Expire, Goto, rowVars, runVars
  <2>2. HandFresh'
    BY <1>0, <2>1, DoneSame DEF HandFresh
  <2>3. JobFresh' /\ JobDone'
    BY <1>0, <2>1, DoneSame DEF JobFresh, JobDone, TypeOK
  <2> QED
    BY <2>2, <2>3
<1>9. ASSUME NEW b \in Batch, SweepRead(b) \/ SweepClose(b) PROVE Goal
  <2>1. UNCHANGED <<ledger, pc, arg, hand, cycle>>
    BY <1>9 DEF SweepRead, SweepClose, rowVars, jobVars, runVars
  <2> QED
    BY <1>0, <2>1, DoneSame DEF HandFresh, JobFresh, JobDone
<1>10. ASSUME Pause \/ Resume \/ UNCHANGED vars PROVE Goal
  <2>1. UNCHANGED <<ledger, pc, arg, hand, cycle>>
    BY <1>10 DEF Pause, Resume, vars, rowVars, jobVars, runVars
  <2> QED
    BY <1>0, <2>1, DoneSame DEF HandFresh, JobFresh, JobDone
<1> QED
  BY <1>0, <1>1, <1>2, <1>3, <1>4, <1>5, <1>6, <1>7, <1>8, <1>9, <1>10
     DEF Next, Dispatch, Job, Sweep, StartInactive, Drop, Reject

-----------------------------------------------------------------------------
(***************************************************************************)
(* Nobody's candidate is dropped: EveryCandidateOwned.                     *)
(***************************************************************************)
QuietInv == SafeInv /\ OwnInv /\ EveryCandidateOwned

Owned(b, h) == h \in Done(b) \/ h \in hand[b] \/ (pc[h] \in Live /\ arg[h] = b)

LEMMA DoneGrows ==
  ASSUME TInv, Rows, [Next]_vars, NEW b \in Batch, NEW h \in Done(b)
  PROVE  h \in Done(b)'
<1>1. ledger \subseteq ledger'
  <2>1. CASE UNCHANGED rowVars \/ \E c \in Batch : OpenBatch(c) \/ SweepClose(c)
    BY <2>1 DEF rowVars, OpenBatch, SweepClose
  <2>2. ASSUME NEW c \in Batch, NEW k, NEW new, Record(c, k, new) PROVE ledger \subseteq ledger'
    BY <2>2 DEF Record
  <2>3. ASSUME NEW k \in Url, Store(k) \/ StoreLegacy(k) \/ Solo(k) PROVE ledger \subseteq ledger'
    BY <2>3 DEF Store, StoreLegacy, Solo, Record
  <2> QED
    BY <2>1, <2>2, <2>3, RowSteps DEF RowChange
<1> QED
  BY <1>1 DEF Done

LEMMA OwnedStep ==
  ASSUME TInv, Rows, OwnInv, [Next]_vars, interrupts' = 0,
         NEW b \in Batch, NEW h \in Url, Owned(b, h), status[b] # "absent"
  PROVE  Owned(b, h)'
<1>0. TypeOK /\ interrupts = 0 /\ ~Trouble /\ JobDone
  BY QuietBefore DEF TInv, OwnInv
<1>1. CASE h \in Done(b)
  BY <1>1, DoneGrows DEF Owned
<1>2. ASSUME h \in hand[b], h \notin hand'[b] PROVE Owned(b, h)'
  <2>1. cycle[b] = "fanout"
    BY DEF Rows
  <2>2. ASSUME NEW c \in Batch, Search(c) \/ OpenBatch(c) PROVE FALSE
    BY <1>0, <1>2, <2>1, <2>2 DEF Search, OpenBatch, TypeOK
  <2>3. ASSUME NEW c \in Batch, NEW k \in Url, Enqueue(c, k) PROVE Owned(b, h)'
    <3>1. c = b /\ k = h
      BY <1>0, <1>2, <2>3 DEF Enqueue, TakeFromHand, TypeOK
    <3> QED
      BY <1>0, <2>3, <3>1 DEF Enqueue, Owned, Live, TypeOK
  <2>4. ASSUME NEW c \in Batch, NEW k \in Url, Collide(c, k) PROVE Owned(b, h)'
    <3>1. c = b /\ k = h
      BY <1>0, <1>2, <2>4 DEF Collide, TakeFromHand, TypeOK
    <3>2. Done(b)' = Done(b) \cup {h}
      BY <1>0, <2>4, <3>1, RecordEffect DEF Collide
    <3> QED
      BY <3>2 DEF Owned
  <2>5. ASSUME NEW c \in Batch, Sweep(c) PROVE FALSE
    BY <1>2, <2>5 DEF Sweep, SweepRead, SweepClose, runVars
  <2>6. ASSUME NEW k \in Url, Job(k) \/ Expire(k) PROVE FALSE
    BY <1>2, <2>6 DEF Job, Expire, Start, StartInactive, Drop, Reject, ResolveDropped,
                      PassChecks, Store, StoreLegacy, Solo, Finish, runVars
  <2> QED
    BY <1>0, <1>2, <2>2, <2>3, <2>4, <2>5, <2>6
       DEF Next, Dispatch, Pause, Resume, runVars, vars
<1>3. ASSUME pc[h] \in Live, arg[h] = b, pc'[h] \notin Live \/ arg'[h] # b
      PROVE  h \in Done(b)
  <2>1. ASSUME NEW c \in Batch, Search(c) \/ OpenBatch(c) \/ Sweep(c) PROVE FALSE
    BY <1>3, <2>1 DEF Search, OpenBatch, Sweep, SweepRead, SweepClose, jobVars
  <2>2. ASSUME NEW c \in Batch, NEW k \in Url, Enqueue(c, k) \/ Collide(c, k) PROVE FALSE
    BY <1>0, <1>3, <2>2 DEF Enqueue, Collide, Live, Running, jobVars, TypeOK
  <2>3. ASSUME NEW k \in Url, \/ Start(k) \/ PassChecks(k) \/ Store(k) \/ StoreLegacy(k)
                              \/ Solo(k) \/ ResolveDropped(k)
        PROVE  FALSE
    <3>1. arg' = arg /\ \E s \in Running : pc' = [pc EXCEPT ![k] = s]
      BY <2>3 DEF Start, PassChecks, Store, StoreLegacy, Solo, ResolveDropped, Goto, Running
    <3> QED
      BY <1>0, <1>3, <3>1 DEF Live, TypeOK
  <2>4. ASSUME NEW k \in Url, Finish(k) \/ Expire(k) PROVE h \in Done(b)
    <3>1. k = h
      BY <1>0, <1>3, <2>4 DEF Finish, Expire, Goto, TypeOK
    <3>2. pc[h] \in {"ending", "kept"}
      BY <2>4, <3>1 DEF Finish, Expire
    <3> QED
      BY <1>0, <1>3, <3>2 DEF JobDone
  <2> QED
    BY <1>0, <1>3, <2>1, <2>2, <2>3, <2>4
       DEF Next, Dispatch, Job, StartInactive, Drop, Reject, Pause, Resume, jobVars, vars
<1> QED
  BY <1>1, <1>2, <1>3 DEF Owned

LEMMA EveryOwnedStep == QuietInv /\ [Next]_vars => EveryCandidateOwned'
<1> SUFFICES ASSUME QuietInv, [Next]_vars, interrupts' = 0,
                    NEW b \in Batch, NEW h \in selected'[b], status'[b] = "open"
             PROVE  Owned(b, h)'
  BY DEF EveryCandidateOwned, Owned
<1>0. TInv /\ TypeOK /\ Rows /\ OwnInv /\ interrupts = 0 /\ ~Trouble
  BY QuietBefore DEF QuietInv, SafeInv, TInv
<1>1. CASE status[b] = "open" /\ selected'[b] = selected[b]
  <2>1. h \in Url /\ Owned(b, h)
    BY <1>0, <1>1 DEF QuietInv, EveryCandidateOwned, Owned, TypeOK
  <2> QED
    BY <1>0, <1>1, <2>1, OwnedStep
(* A batch that becomes open has all its candidates in hand.               *)
<1>2. ASSUME NEW c \in Batch, OpenBatch(c) PROVE Owned(b, h)'
  <2>1. CASE c = b
    BY <1>0, <1>2, <2>1 DEF OpenBatch, Owned, TypeOK
  <2>2. CASE c # b
    <3>1. status[b] = "open" /\ selected'[b] = selected[b]
      BY <1>0, <1>2, <2>2 DEF OpenBatch, TypeOK
    <3> QED
      BY <1>1, <3>1
  <2> QED
    BY <2>1, <2>2
<1>3. ASSUME RowChange, \A c \in Batch : ~OpenBatch(c)
      PROVE  status[b] = "open" /\ selected' = selected
  <2>1. ASSUME NEW c \in Batch, NEW k \in selected[c], NEW new \in SUBSET Item, Record(c, k, new)
        PROVE  status[b] = "open" /\ selected' = selected
    <3>1. k \in Url /\ status[c] # "absent"
      BY <1>0, <2>1 DEF Rows, TypeOK
    <3>2. selected' = selected /\ (status' = status \/ CloseAndFinalize(c))
      BY <1>0, <2>1, <3>1, RecordEffect
    <3> QED
      BY <1>0, <3>1, <3>2, CloseEffect
  <2>2. ASSUME NEW k \in Url, Store(k) PROVE status[b] = "open" /\ selected' = selected
    <3> DEFINE new == {ItemOf(k)}
    <3>1. /\ arg[k] \in Batch /\ k \in selected[arg[k]]
          /\ new \in SUBSET Item /\ Record(arg[k], k, new)
      BY <1>0, <2>2, StoreRecords
    <3> QED
      BY <3>1, <2>1
  <2>3. ASSUME NEW k \in Url, StoreLegacy(k) \/ Solo(k) PROVE status[b] = "open" /\ selected' = selected
    BY <2>3 DEF StoreLegacy, Solo
  <2>4. ASSUME NEW c \in Batch, SweepClose(c) PROVE status[b] = "open" /\ selected' = selected
    BY <1>0, <2>4, CloseEffect DEF SweepClose
  <2>5. CASE UNCHANGED rowVars
    BY <2>5 DEF rowVars
  <2>6. {} \in SUBSET Item
    OBVIOUS
  <2> QED
    BY <1>3, <2>1, <2>2, <2>3, <2>4, <2>5, <2>6 DEF RowChange
<1> QED
  BY <1>0, <1>1, <1>2, <1>3, RowSteps

-----------------------------------------------------------------------------
(***************************************************************************)
(* Nobody's article is dropped: NoStrandedItem.                            *)
(***************************************************************************)
LEMMA LoggedAppend ==
  ASSUME TypeOK, NEW row \in LogRow, logs' = Append(logs, row)
  PROVE  Logged' = Logged \cup row.news
<1> DEFINE n == Len(logs) + 1
<1>1. /\ DOMAIN logs' = DOMAIN logs \cup {n} /\ n \notin DOMAIN logs
      /\ logs'[n] = row /\ \A m \in DOMAIN logs : logs'[m] = logs[m]
  BY AppendRow DEF TypeOK
<1> HIDE DEF n
<1>2. \A i : (\E m \in DOMAIN logs' : i \in logs'[m].news)
               <=> \/ \E m \in DOMAIN logs : i \in logs[m].news
                   \/ i \in row.news
  BY <1>1
<1> QED
  BY <1>2 DEF Logged

LEMMA LoggedGrows ==
  ASSUME SafeInv, [Next]_vars
  PROVE  Logged \subseteq Logged'
<1>1. TypeOK
  BY DEF SafeInv, TInv
<1>2. CASE logs' = logs
  BY <1>2 DEF Logged
<1>3. ASSUME NEW row, NewLog(row), logs' = Append(logs, row) PROVE Logged \subseteq Logged'
  BY <1>1, <1>3, LoggedAppend DEF NewLog
<1> QED
  BY <1>2, <1>3, LogStep DEF LogGrows

LEMMA CloseLogsAll ==
  ASSUME TypeOK, NEW b \in Batch, items' \subseteq Item, CloseAndFinalize(b),
         NEW i \in items', i.batch = b
  PROVE  i \in Logged'
<1> DEFINE row == [batch |-> b, news |-> Group(b)]
<1>1. i \in Group(b)
  BY DEF Group
<1>2. logs' = Append(logs, row)
  BY <1>1 DEF CloseAndFinalize, Finalize
<1>3. row \in LogRow /\ row.news = Group(b)
  BY DEF LogRow, Group
<1> HIDE DEF row
<1> QED
  BY <1>1, <1>2, <1>3, LoggedAppend

Waits(i) == AtSolo(i) \/ \E b \in Batch : i.batch = b /\ status[b] = "open"

LEMMA WaitsStep ==
  ASSUME SafeInv, [Next]_vars, interrupts' = 0, NEW i \in items, Waits(i)
  PROVE  i \in Logged' \/ Waits(i)'
<1>0. TInv /\ TypeOK /\ Rows /\ LockInv /\ ~Trouble /\ i \in Item
  BY QuietBefore DEF SafeInv, TInv, TypeOK
<1>i. items \subseteq items' /\ items' \subseteq Item
  BY <1>0, ItemStep DEF TypeOK
<1>1. ASSUME NEW h \in Url, pc[h] = "solo", ItemOf(h) = i PROVE i \in Logged' \/ AtSolo(i)'
  <2>1. CASE Solo(h)
    <3> DEFINE row == [batch |-> NoBatch, news |-> {i}]
    <3>1. logs' = Append(logs, row)
      BY <1>1, <2>1 DEF Solo, SoloLog
    <3>2. row \in LogRow /\ row.news = {i}
      BY <1>0 DEF LogRow
    <3> HIDE DEF row
    <3> QED
      BY <1>0, <3>1, <3>2, LoggedAppend
  <2>2. CASE pc'[h] = "solo" /\ page'[h] = page[h] /\ arg'[h] = arg[h]
    BY <1>1, <2>2 DEF AtSolo, ItemOf
  <2>3. ASSUME NEW c \in Batch, \/ Search(c) \/ OpenBatch(c) \/ Sweep(c)
                                \/ \E k \in Url : Collide(c, k)
        PROVE  UNCHANGED jobVars
    BY <2>3 DEF Search, OpenBatch, Sweep, SweepRead, SweepClose, Collide, jobVars
  <2>4. ASSUME NEW c \in Batch, NEW k \in Url, Enqueue(c, k)
        PROVE  pc'[h] = pc[h] /\ page'[h] = page[h] /\ arg'[h] = arg[h]
    BY <1>0, <1>1, <2>4 DEF Enqueue, TypeOK
  <2>5. ASSUME NEW k \in Url, k # h, Job(k) \/ Expire(k)
        PROVE  pc'[h] = pc[h] /\ page'[h] = page[h] /\ arg'[h] = arg[h]
    BY <1>0, <2>5 DEF Job, Expire, Start, StartInactive, Drop, Reject, ResolveDropped,
                      PassChecks, Store, StoreLegacy, Solo, Finish, Goto, ReleasePage, TypeOK
  <2>6. ASSUME Job(h) \/ Expire(h) PROVE Solo(h)
    BY <1>1, <2>6 DEF Job, Expire, Start, StartInactive, Drop, Reject, PassChecks, Store,
                      StoreLegacy, Finish
  <2> QED
    BY <1>0, <1>1, <2>1, <2>2, <2>3, <2>4, <2>5, <2>6
       DEF Next, Dispatch, Pause, Resume, jobVars, vars
<1>2. ASSUME NEW b \in Batch, i.batch = b, status[b] = "open", status'[b] # "open"
      PROVE  i \in Logged'
  <2>1. ASSUME NEW c \in Batch, status[c] # "absent", CloseAndFinalize(c) PROVE i \in Logged'
    <3>1. c = b
      BY <1>0, <1>2, <2>1, CloseEffect
    <3> QED
      BY <1>0, <1>i, <1>2, <2>1, <3>1, CloseLogsAll
  <2>2. ASSUME NEW c \in Batch, NEW k \in selected[c], NEW new \in SUBSET Item, Record(c, k, new)
        PROVE  i \in Logged'
    <3>1. k \in Url /\ status[c] # "absent"
      BY <1>0, <2>2 DEF Rows, TypeOK
    <3>2. status' = status \/ CloseAndFinalize(c)
      BY <1>0, <2>2, <3>1, RecordEffect
    <3> QED
      BY <1>2, <2>1, <3>1, <3>2
  <2>3. ASSUME NEW k \in Url, Store(k) PROVE i \in Logged'
    <3> DEFINE new == {ItemOf(k)}
    <3>1. /\ arg[k] \in Batch /\ k \in selected[arg[k]]
          /\ new \in SUBSET Item /\ Record(arg[k], k, new)
      BY <1>0, <2>3, StoreRecords
    <3> QED
      BY <3>1, <2>2
  <2>4. ASSUME NEW k \in Url, StoreLegacy(k) \/ Solo(k) PROVE FALSE
    BY <1>2, <2>4 DEF StoreLegacy, Solo
  <2>5. ASSUME NEW c \in Batch, SweepClose(c) PROVE i \in Logged'
    <3>1. status[c] # "absent"
      BY <2>5, <1>0 DEF SweepClose, Rows
    <3> QED
      BY <1>2, <2>1, <2>5, <3>1 DEF SweepClose
  <2>6. ASSUME NEW c \in Batch, OpenBatch(c) PROVE FALSE
    BY <1>0, <1>2, <2>6 DEF OpenBatch, Rows, TypeOK
  <2>7. ~UNCHANGED rowVars
    BY <1>2 DEF rowVars
  <2>8. {} \in SUBSET Item
    OBVIOUS
  <2> QED
    BY <1>0, <2>2, <2>3, <2>4, <2>5, <2>6, <2>7, <2>8, RowSteps DEF RowChange
<1> QED
  BY <1>1, <1>2 DEF Waits, AtSolo

LEMMA NewItemWaits ==
  ASSUME SafeInv, OwnInv, [Next]_vars, interrupts' = 0, NEW i \in items', i \notin items
  PROVE  i \in Logged' \/ Waits(i)'
<1>0. /\ TInv /\ TypeOK /\ Rows /\ LockInv /\ JobFresh
      /\ items' \subseteq Item
  <2>1. interrupts = 0
    BY QuietBefore DEF SafeInv, TInv
  <2> QED
    BY <2>1, ItemStep DEF SafeInv, TInv, TypeOK, OwnInv
<1>1. ASSUME NEW h \in Url, Store(h) PROVE i \in Logged' \/ Waits(i)'
  <2>1. /\ arg[h] \in Batch /\ Record(arg[h], h, {ItemOf(h)})
        /\ ItemOf(h).batch = arg[h] /\ pc[h] = "locked"
    BY <1>0, <1>1, StoreRecords DEF Store
  <2>2. i = ItemOf(h) /\ ~Recorded(arg[h], h)
    BY <1>0, <2>1 DEF Record, JobFresh, Recorded
  <2>3. CASE status[arg[h]] = "open" /\ CloseAndFinalize(arg[h])
    BY <1>0, <2>1, <2>2, <2>3, CloseLogsAll
  <2>4. CASE status[arg[h]] = "open" /\ status' = status
    BY <2>1, <2>2, <2>4 DEF Waits
  <2>5. CASE status[arg[h]] # "open"
    <3>1. Straggler(arg[h], h)
      BY <2>2, <2>5 DEF Straggler
    <3>2. pc'[h] = "solo" /\ page' = page /\ arg' = arg
      BY <1>0, <1>1, <3>1 DEF Store, Goto, TypeOK
    <3> QED
      BY <2>2, <3>2 DEF Waits, AtSolo, ItemOf
  <2> QED
    BY <2>1, <2>2, <2>3, <2>4, <2>5 DEF Record
<1>2. ASSUME NEW h \in Url, StoreLegacy(h) PROVE i \in Logged'
  <2> DEFINE row == [batch |-> NoBatch, news |-> {ItemOf(h)}]
  <2>1. i = ItemOf(h) /\ logs' = Append(logs, row)
    BY <1>2 DEF StoreLegacy, SoloLog
  <2>2. row \in LogRow /\ row.news = {i}
    BY <1>0, <2>1 DEF LogRow
  <2> HIDE DEF row
  <2> QED
    BY <1>0, <2>1, <2>2, LoggedAppend
<1>3. ASSUME NEW h \in Url, PassChecks(h) PROVE FALSE
  BY <1>3 DEF PassChecks, rowVars
<1> QED
  BY <1>0, <1>1, <1>2, <1>3, JobSteps DEF JobsStay

LEMMA StrandedStep == QuietInv /\ NoStrandedItem /\ [Next]_vars => NoStrandedItem'
<1> SUFFICES ASSUME QuietInv, NoStrandedItem, [Next]_vars, interrupts' = 0,
                    NEW i \in items', i \notin Logged'
             PROVE  Waits(i)'
  BY DEF NoStrandedItem, Waits
<1>0. SafeInv /\ OwnInv /\ interrupts = 0
  BY QuietBefore DEF QuietInv, SafeInv, TInv
<1>1. CASE i \in items
  <2>1. Waits(i)
    BY <1>0, <1>1, LoggedGrows DEF NoStrandedItem, Waits
  <2> QED
    BY <1>0, <1>1, <2>1, WaitsStep
<1>2. CASE i \notin items
  BY <1>0, <1>2, NewItemWaits
<1> QED
  BY <1>1, <1>2

-----------------------------------------------------------------------------
LEMMA QuietAlways == Spec => [](QuietInv /\ NoStrandedItem)
<1>1. Init => QuietInv /\ NoStrandedItem
  <2> SUFFICES ASSUME Init PROVE QuietInv /\ NoStrandedItem
    OBVIOUS
  <2>1. OwnInv
    BY NoneAssumption DEF Init, OwnInv, HandFresh, JobFresh, JobDone
  <2>2. EveryCandidateOwned /\ NoStrandedItem
    BY DEF Init, EveryCandidateOwned, NoStrandedItem
  <2> QED
    BY <2>1, <2>2, SafeInit DEF QuietInv
<1>2. QuietInv /\ NoStrandedItem /\ [Next]_vars => (QuietInv /\ NoStrandedItem)'
  <2> SUFFICES ASSUME QuietInv, NoStrandedItem, [Next]_vars
               PROVE  QuietInv' /\ NoStrandedItem'
    OBVIOUS
  <2>1. SafeInv' /\ OwnInv'
    BY SafeStep, OwnStep DEF QuietInv, SafeInv
  <2> QED
    BY <2>1, EveryOwnedStep, StrandedStep DEF QuietInv
<1> QED
  BY <1>1, <1>2, PTL DEF Spec

(* Without interrupts no open batch waits for a candidate nobody owns.     *)
THEOREM CandidatesAreOwned == Spec => []EveryCandidateOwned
<1>1. QuietInv => EveryCandidateOwned
  BY DEF QuietInv
<1> QED
  BY QuietAlways, <1>1, PTL

(* Without interrupts no stored article is left without a delivery, or     *)
(* somebody about to create it.                                            *)
THEOREM NothingStranded == Spec => []NoStrandedItem
  BY QuietAlways, PTL

-----------------------------------------------------------------------------
(***************************************************************************)
(* ItemReflected, which the code promises and a job that is run again      *)
(* breaks.                                                                 *)
(***************************************************************************)
LEMMA ReflectedStays ==
  ASSUME TInv, Rows, [Next]_vars
  PROVE  ledger \subseteq ledger'
<1>1. ASSUME NEW b \in Batch, NEW h \in Url, NEW new, Record(b, h, new)
      PROVE  ledger \subseteq ledger'
  BY <1>1 DEF Record
<1>2. CASE UNCHANGED rowVars \/ \E b \in Batch : OpenBatch(b) \/ SweepClose(b)
  BY <1>2 DEF rowVars, OpenBatch, SweepClose
<1>3. CASE \E h \in Url : StoreLegacy(h) \/ Solo(h)
  BY <1>3 DEF StoreLegacy, Solo
<1>4. CASE \E h \in Url : Store(h)
  BY <1>1, <1>4, StoreRecords
<1>5. CASE \E b \in Batch : \E h \in selected[b] : LockFree /\ Record(b, h, {})
  BY <1>1, <1>5 DEF TInv, TypeOK
<1> QED
  BY <1>2, <1>3, <1>4, <1>5, RowSteps DEF RowChange

(* Only a job whose candidate is in the ledger already, so one that is run *)
(* again, stores an item that no row of the ledger names.                  *)
LEMMA UnreflectedByRepick ==
  ASSUME TInv, Rows, [Next]_vars,
         NEW i \in items' \ items, i.batch # NoBatch, i \notin Reflected'
  PROVE  \E h \in Url : pc[h] = "locked" /\ arg[h] = i.batch /\ h \in Done(i.batch)
<1>1. CASE \E h \in Url : Store(h)
  <2>1. PICK h \in Url : Store(h)
    BY <1>1
  <2>2. /\ pc[h] = "locked" /\ arg[h] \in Batch
        /\ ItemOf(h).batch = arg[h] /\ Record(arg[h], h, {ItemOf(h)})
    BY <2>1, StoreRecords DEF Store
  <2>3. i = ItemOf(h)
    BY <2>2 DEF Record
  <2>4. Recorded(arg[h], h)
    <3> SUFFICES ASSUME ~Recorded(arg[h], h) PROVE FALSE
      OBVIOUS
    <3> DEFINE row == [batch |-> arg[h], cand |-> h, news |-> {ItemOf(h)}]
    <3>1. row \in ledger' /\ row.news = {i}
      BY <2>2, <2>3 DEF Record
    <3> HIDE DEF row
    <3> QED
      BY <3>1 DEF Reflected
  <2> QED
    BY <2>2, <2>3, <2>4 DEF Recorded
<1>2. CASE \E h \in Url : StoreLegacy(h)
  BY <1>2 DEF StoreLegacy, ItemOf
<1>3. CASE \/ UNCHANGED rowVars
           \/ \E b \in Batch : OpenBatch(b) \/ SweepClose(b)
           \/ \E h \in Url : Solo(h)
           \/ \E b \in Batch : \E h \in selected[b] : LockFree /\ Record(b, h, {})
  BY <1>3 DEF rowVars, OpenBatch, SweepClose, Solo, Record
<1> QED
  BY <1>1, <1>2, <1>3, RowSteps DEF RowChange

(* batching.py:77-81: as long as nothing was interrupted every item of a   *)
(* batch is named by the ledger; an interrupt is what breaks the promise.  *)
THEOREM ReflectedIfQuiet == Spec => [](interrupts = 0 => ItemReflected)
<1> DEFINE Quiet == interrupts = 0 => ItemReflected
<1>1. Init => Quiet
  BY DEF Init, ItemReflected
<1>2. QuietInv /\ Quiet /\ [Next]_vars => Quiet'
  <2> SUFFICES ASSUME QuietInv, Quiet, [Next]_vars, interrupts' = 0,
                      NEW i \in items', i.batch # NoBatch
               PROVE  i \in Reflected'
    BY DEF ItemReflected
  <2>1. TInv /\ Rows /\ JobFresh /\ interrupts = 0
    BY QuietBefore DEF QuietInv, SafeInv, TInv, OwnInv
  <2>2. CASE i \in items
    BY <2>1, <2>2, ReflectedStays DEF ItemReflected, Reflected
  <2>3. CASE i \notin items
    <3>1. ASSUME NEW h \in Url, pc[h] = "locked", arg[h] = i.batch, h \in Done(i.batch)
          PROVE  FALSE
      BY <2>1, <3>1 DEF JobFresh, Done, TInv, TypeOK, LedgerRow
    <3> QED
      BY <2>1, <2>3, <3>1, UnreflectedByRepick
  <2> QED
    BY <2>2, <2>3
<1> QED
  BY <1>1, <1>2, QuietAlways, PTL DEF Spec
=============================================================================
