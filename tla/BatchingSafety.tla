--------------------------- MODULE BatchingSafety ---------------------------
(***************************************************************************)
(* Proofs about Batching, for any sets of URLs, stories and batches and    *)
(* any number of interrupts: type correctness, the ledger's counter, the   *)
(* advisory lock and the delivery logs.                                    *)
(***************************************************************************)
EXTENDS Batching, FiniteSetTheorems, TLAPS

LEMMA AppendRow ==
  ASSUME NEW S, NEW s \in Seq(S), NEW x \in S
  PROVE  /\ Append(s, x) \in Seq(S)
         /\ DOMAIN Append(s, x) = DOMAIN s \cup {Len(s) + 1}
         /\ Len(s) + 1 \notin DOMAIN s
         /\ \A m \in DOMAIN s : Append(s, x)[m] = s[m]
         /\ Append(s, x)[Len(s) + 1] = x
  OBVIOUS

(* A job that holds a page makes a NewsItem.                               *)
LEMMA ItemOfType ==
  ASSUME TypeOK, NEW h \in Url, page[h] \in Page
  PROVE  ItemOf(h) \in Item
  BY DEF TypeOK, ItemOf, Item, Page

(***************************************************************************)
(* Type correctness.                                                       *)
(***************************************************************************)
RowTypes == /\ status \in [Batch -> {"absent", "open", "closed"}]
            /\ selected \in [Batch -> SUBSET Url]
            /\ resolved \in [Batch -> Nat]
            /\ ledger \subseteq LedgerRow
            /\ items \subseteq Item
            /\ logs \in Seq(LogRow)

(* A job holds a page from the moment its checks pass until its last       *)
(* commit.                                                                 *)
Holding == \A h \in Url : pc[h] \in {"locked", "solo"} => page[h] \in Page

TInv == TypeOK /\ Holding

LEMMA FinalizeType ==
  ASSUME TypeOK, NEW b \in Batch, items' \subseteq Item, CloseAndFinalize(b)
  PROVE  status' \in [Batch -> {"absent", "open", "closed"}] /\ logs' \in Seq(LogRow)
<1>1. status' \in [Batch -> {"absent", "open", "closed"}]
  BY DEF TypeOK, CloseAndFinalize
<1>2. logs' \in Seq(LogRow)
  <2>1. CASE logs' = logs
    BY <2>1 DEF TypeOK
  <2>2. CASE logs' = Append(logs, [batch |-> b, news |-> Group(b)])
    <3>1. [batch |-> b, news |-> Group(b)] \in LogRow
      BY DEF LogRow, Group
    <3> QED
      BY <2>2, <3>1, AppendRow DEF TypeOK
  <2> QED
    BY <2>1, <2>2 DEF CloseAndFinalize, Finalize
<1> QED
  BY <1>1, <1>2

LEMMA RecordType ==
  ASSUME TypeOK, NEW b \in Batch, NEW h \in Url, NEW new \in SUBSET Item, Record(b, h, new)
  PROVE  RowTypes'
<1>1. items' \subseteq Item /\ selected' = selected
  BY DEF Record, TypeOK
<1>2. CASE Recorded(b, h)
  BY <1>1, <1>2 DEF Record, TypeOK, RowTypes
<1>3. CASE ~Recorded(b, h)
  <2>1. ledger' \subseteq LedgerRow
    BY <1>3 DEF Record, TypeOK, LedgerRow
  <2>2. resolved' \in [Batch -> Nat]
    <3>1. resolved' = resolved \/ resolved' = [resolved EXCEPT ![b] = @ + 1]
      BY <1>3 DEF Record
    <3> QED
      BY <3>1 DEF TypeOK
  <2>3. status' \in [Batch -> {"absent", "open", "closed"}] /\ logs' \in Seq(LogRow)
    <3>1. CASE CloseAndFinalize(b)
      BY <3>1, <1>1, FinalizeType
    <3>2. CASE UNCHANGED <<status, logs>>
      BY <3>2 DEF TypeOK
    <3> QED
      BY <3>1, <3>2, <1>3 DEF Record
  <2> QED
    BY <1>1, <2>1, <2>2, <2>3 DEF TypeOK, RowTypes
<1> QED
  BY <1>2, <1>3

LEMMA SoloType ==
  ASSUME TypeOK, NEW i \in Item, logs' = SoloLog(i)
  PROVE  logs' \in Seq(LogRow)
<1>1. [batch |-> NoBatch, news |-> {i}] \in LogRow
  BY DEF LogRow
<1> QED
  BY <1>1, AppendRow DEF TypeOK, SoloLog

LEMMA TypeInit == Init => TInv
<1> SUFFICES ASSUME Init PROVE TInv
  OBVIOUS
<1>1. logs \in Seq(LogRow)
  BY DEF Init
<1> QED
  BY <1>1 DEF Init, TInv, TypeOK, Holding, JobState, Running

LEMMA TypeStep == TInv /\ [Next]_vars => TInv'
<1> SUFFICES ASSUME TInv, [Next]_vars PROVE TInv'
  OBVIOUS
<1> USE DEF TInv, JobState, Running
<1>1. ASSUME NEW b \in Batch, Search(b) PROVE TInv'
  BY <1>1 DEF Search, TypeOK, Holding, rowVars, jobVars
<1>2. ASSUME NEW b \in Batch, OpenBatch(b) PROVE TInv'
  BY <1>2 DEF OpenBatch, TypeOK, Holding, jobVars
<1>3. ASSUME NEW b \in Batch, NEW h \in Url, Enqueue(b, h) PROVE TInv'
  BY <1>3 DEF Enqueue, TakeFromHand, TypeOK, Holding, rowVars
<1>4. ASSUME NEW b \in Batch, NEW h \in Url, Collide(b, h) PROVE TInv'
  <2>1. RowTypes'
    BY <1>4, RecordType DEF Collide
  <2> QED
    BY <1>4, <2>1 DEF Collide, TakeFromHand, TypeOK, Holding, RowTypes, jobVars
<1>5. ASSUME NEW h \in Url, pc[h] \in {"queued", "work"}, ResolveDropped(h) PROVE TInv'
  <2>1. RowTypes'
    <3>1. CASE UNCHANGED rowVars
      BY <3>1 DEF RowTypes, TypeOK, rowVars
    <3>2. CASE arg[h] # NoBatch /\ Record(arg[h], h, {})
      <4>1. arg[h] \in Batch
        BY <3>2 DEF TypeOK
      <4> QED
        BY <3>2, <4>1, RecordType
    <3> QED
      BY <1>5, <3>1, <3>2 DEF ResolveDropped
  <2> QED
    BY <1>5, <2>1 DEF ResolveDropped, Goto, TypeOK, Holding, RowTypes, runVars
<1>6. ASSUME NEW h \in Url, Start(h) \/ Finish(h) PROVE TInv'
  BY <1>6 DEF Start, Finish, Goto, TypeOK, Holding, rowVars, runVars
<1>7. ASSUME NEW h \in Url, PassChecks(h) PROVE TInv'
  BY <1>7 DEF PassChecks, Goto, TypeOK, Holding, rowVars, runVars
<1>8. ASSUME NEW h \in Url, Store(h) PROVE TInv'
  <2>1. arg[h] \in Batch /\ {ItemOf(h)} \in SUBSET Item
    BY <1>8, ItemOfType DEF Store, TypeOK, Holding
  <2>2. RowTypes'
    BY <1>8, <2>1, RecordType DEF Store
  <2>3. pc' \in [Url -> JobState] /\ page' \in [Url -> Page \cup {NoPage}] /\ Holding'
    BY <1>8 DEF Store, Goto, ReleasePage, TypeOK, Holding
  <2> QED
    BY <1>8, <2>2, <2>3 DEF Store, TypeOK, RowTypes, runVars
<1>9. ASSUME NEW h \in Url, StoreLegacy(h) \/ Solo(h) PROVE TInv'
  <2>1. ItemOf(h) \in Item
    BY <1>9, ItemOfType DEF StoreLegacy, Solo, Holding
  <2>2. logs' \in Seq(LogRow)
    BY <1>9, <2>1, SoloType DEF StoreLegacy, Solo
  <2>3. pc' \in [Url -> JobState] /\ page' \in [Url -> Page \cup {NoPage}] /\ Holding'
    BY <1>9 DEF StoreLegacy, Solo, Goto, ReleasePage, TypeOK, Holding
  <2> QED
    BY <1>9, <2>1, <2>2, <2>3 DEF StoreLegacy, Solo, TypeOK, runVars
<1>10. ASSUME NEW h \in Url, Expire(h) PROVE TInv'
  BY <1>10 DEF Expire, Goto, TypeOK, Holding, rowVars, runVars
<1>11. ASSUME NEW b \in Batch, SweepRead(b) PROVE TInv'
  BY <1>11 DEF SweepRead, TypeOK, Holding, rowVars, jobVars, runVars
<1>12. ASSUME NEW b \in Batch, SweepClose(b) PROVE TInv'
  <2>1. status' \in [Batch -> {"absent", "open", "closed"}] /\ logs' \in Seq(LogRow)
    BY <1>12, FinalizeType DEF SweepClose, TypeOK
  <2> QED
    BY <1>12, <2>1 DEF SweepClose, TypeOK, Holding, jobVars, runVars
<1>13. ASSUME Pause \/ Resume PROVE TInv'
  BY <1>13 DEF Pause, Resume, TypeOK, Holding, rowVars, jobVars, runVars
<1>14. ASSUME WorkerCrash PROVE TInv'
  BY <1>14 DEF WorkerCrash, Interrupt, TypeOK, Holding, rowVars
<1>15. ASSUME NEW h \in Url, LoseJob(h) PROVE TInv'
  BY <1>15 DEF LoseJob, Interrupt, Goto, ReleasePage, TypeOK, Holding, rowVars, runVars
<1>16. ASSUME NEW h \in Url, EvictJob(h) PROVE TInv'
  BY <1>16 DEF EvictJob, Interrupt, Goto, TypeOK, Holding, rowVars, runVars
<1>17. ASSUME NEW b \in Batch, LoseCycle(b) PROVE TInv'
  BY <1>17 DEF LoseCycle, Interrupt, TypeOK, Holding, rowVars, jobVars
<1>18. CASE UNCHANGED vars
  BY <1>18 DEF vars, TypeOK, Holding
<1> QED
  BY <1>1, <1>2, <1>3, <1>4, <1>5, <1>6, <1>7, <1>8, <1>9, <1>10, <1>11, <1>12, <1>13,
     <1>14, <1>15, <1>16, <1>17, <1>18
     DEF Next, Dispatch, Job, Sweep, Trouble, StartInactive, Drop, Reject

(* Every row and every job keeps its type in every reachable state.        *)
THEOREM TypeCorrect == Spec => []TypeOK
<1>1. TInv => TypeOK
  BY DEF TInv
<1> QED
  BY TypeInit, TypeStep, <1>1, PTL DEF Spec

-----------------------------------------------------------------------------
(***************************************************************************)
(* What one resolution does to the rows.                                   *)
(***************************************************************************)
LEMMA RecordEffect ==
  ASSUME TypeOK, NEW b \in Batch, NEW h \in Url, NEW new \in SUBSET Item, Record(b, h, new)
  PROVE  /\ selected' = selected
         /\ items' = items \cup new
         /\ ledger' \subseteq ledger \cup {[batch |-> b, cand |-> h, news |-> new]}
         /\ \A c \in Batch : Done(c)' = IF c = b THEN Done(b) \cup {h} ELSE Done(c)
         /\ \/ UNCHANGED <<status, logs>>
            \/ /\ status[b] = "open" /\ h \notin Done(b) /\ Complete(b)
               /\ CloseAndFinalize(b)
<1>1. CASE Recorded(b, h)
  BY <1>1 DEF Record, Recorded, Done
<1>2. CASE ~Recorded(b, h)
  <2>1. ledger' = ledger \cup {[batch |-> b, cand |-> h, news |-> new]}
    BY <1>2 DEF Record
  <2>2. \A c \in Batch : Done(c)' = IF c = b THEN Done(b) \cup {h} ELSE Done(c)
    <3>1. ASSUME NEW c \in Batch, NEW k \in Url
          PROVE  (\E r \in ledger' : r.batch = c /\ r.cand = k)
                   <=> \/ \E r \in ledger : r.batch = c /\ r.cand = k
                       \/ c = b /\ k = h
      <4> DEFINE row == [batch |-> b, cand |-> h, news |-> new]
      <4>1. row.batch = b /\ row.cand = h
        OBVIOUS
      <4>2. ledger' = ledger \cup {row}
        BY <2>1
      <4> HIDE DEF row
      <4> QED
        BY <4>1, <4>2
    <3>2. ASSUME NEW c \in Batch, c # b PROVE Done(c)' = Done(c)
      BY <3>1, <3>2 DEF Done
    <3>3. Done(b)' = Done(b) \cup {h}
      BY <3>1 DEF Done
    <3> QED
      BY <3>2, <3>3
  <2> QED
    BY <1>2, <2>1, <2>2 DEF Record, Recorded
<1> QED
  BY <1>1, <1>2

LEMMA CloseEffect ==
  ASSUME TypeOK, NEW b \in Batch, status[b] # "absent", CloseAndFinalize(b)
  PROVE  /\ status'[b] = "closed"
         /\ \A c \in Batch : c # b => status'[c] = status[c]
  BY DEF TypeOK, CloseAndFinalize

(***************************************************************************)
(* Every reference to a batch, from a job, a run, the sweep, the ledger or *)
(* an item, is to a batch whose row exists, and every candidate it names   *)
(* was selected for that batch.                                            *)
(***************************************************************************)
Rows == /\ \A b \in Batch : status[b] = "absent" <=> selected[b] = {}
        /\ \A b \in Batch : cycle[b] # "fanout" => status[b] = "absent"
        /\ \A b \in Batch : cycle[b] = "fanout" => hand[b] \subseteq selected[b]
        /\ \A h \in Url : arg[h] \in Batch => h \in selected[arg[h]]
        /\ \A b \in picked : status[b] # "absent"
        /\ \A r \in ledger : r.cand \in selected[r.batch]
        /\ \A i \in items : i.batch \in Batch => status[i.batch] # "absent"

LEMMA RowsRecord ==
  ASSUME TypeOK, Rows, NEW b \in Batch, NEW h \in selected[b],
         NEW new \in SUBSET Item, \A i \in new : i.batch = b,
         Record(b, h, new), UNCHANGED <<arg, picked, cycle>>,
         \A c \in Batch : hand'[c] \subseteq hand[c]
  PROVE  Rows'
<1>1. h \in Url /\ status[b] # "absent"
  BY DEF TypeOK, Rows
<1>2. \A c \in Batch : status'[c] = "absent" <=> status[c] = "absent"
  BY <1>1, RecordEffect, CloseEffect DEF TypeOK
<1>3. \A r \in ledger' : r.cand \in selected[r.batch]
  <2>1. ledger' \subseteq ledger \cup {[batch |-> b, cand |-> h, news |-> new]}
    BY <1>1, RecordEffect
  <2> QED
    BY <2>1 DEF Rows
<1>4. selected' = selected /\ items' = items \cup new
  BY <1>1, RecordEffect
<1>5. \A c \in picked' : c \in Batch /\ status'[c] # "absent"
  BY <1>2 DEF Rows, TypeOK
<1>6. \A i \in items' : i.batch \in Batch => status'[i.batch] # "absent"
  BY <1>1, <1>2, <1>4 DEF Rows
<1> QED
  BY <1>2, <1>3, <1>4, <1>5, <1>6 DEF Rows

LEMMA RowsStep == TInv /\ Rows /\ [Next]_vars => Rows'
<1> SUFFICES ASSUME TInv, Rows, [Next]_vars PROVE Rows'
  OBVIOUS
<1>0. TypeOK
  BY DEF TInv
<1>1. ASSUME NEW b \in Batch, Search(b) PROVE Rows'
  BY <1>0, <1>1 DEF Search, TypeOK, Rows, rowVars, jobVars
<1>2. ASSUME NEW b \in Batch, OpenBatch(b) PROVE Rows'
  <2>0. status[b] = "absent" /\ selected[b] = {}
    BY <1>2 DEF OpenBatch, Rows
  <2>1. PICK S \in SUBSET hand[b] :
          /\ hand' = [hand EXCEPT ![b] = S]
          /\ selected' = [selected EXCEPT ![b] = S]
          /\ status' = [status EXCEPT ![b] = IF S = {} THEN "absent" ELSE "open"]
    BY <1>2 DEF OpenBatch
  <2>2. /\ cycle' = [cycle EXCEPT ![b] = "fanout"]
        /\ UNCHANGED <<ledger, items, arg, picked>>
    BY <1>2 DEF OpenBatch, jobVars
  <2>3. \A c \in Batch : /\ status'[c] = "absent" <=> selected'[c] = {}
                         /\ cycle'[c] # "fanout" => status'[c] = "absent"
                         /\ cycle'[c] = "fanout" => hand'[c] \subseteq selected'[c]
    BY <1>0, <2>1, <2>2 DEF TypeOK, Rows
  <2>4. \A c \in Batch : selected[c] # {} => c # b /\ status'[c] = status[c] /\ selected'[c] = selected[c]
    BY <1>0, <2>0, <2>1 DEF TypeOK
  <2>5. \A h \in Url : arg'[h] \in Batch => h \in selected'[arg'[h]]
    BY <2>2, <2>4 DEF Rows
  <2>6. \A c \in picked' : status'[c] # "absent"
    BY <1>0, <2>2, <2>4 DEF Rows, TypeOK
  <2>7. \A r \in ledger' : r.cand \in selected'[r.batch]
    BY <1>0, <2>2, <2>4 DEF Rows, TypeOK, LedgerRow
  <2>8. \A i \in items' : i.batch \in Batch => status'[i.batch] # "absent"
    BY <2>2, <2>4 DEF Rows
  <2> QED
    BY <2>3, <2>5, <2>6, <2>7, <2>8 DEF Rows
<1>3. ASSUME NEW b \in Batch, NEW h \in Url, Enqueue(b, h) PROVE Rows'
  BY <1>0, <1>3 DEF Enqueue, TakeFromHand, TypeOK, Rows, rowVars
<1>4. ASSUME NEW b \in Batch, NEW h \in Url, Collide(b, h) PROVE Rows'
  <2>1. h \in selected[b] /\ Record(b, h, {}) /\ UNCHANGED <<arg, picked, cycle>>
    BY <1>4 DEF Collide, TakeFromHand, Rows, jobVars
  <2>2. \A c \in Batch : hand'[c] \subseteq hand[c]
    BY <1>0, <1>4 DEF Collide, TakeFromHand, TypeOK
  <2> QED
    BY <1>0, <2>1, <2>2, RowsRecord
<1>5. ASSUME NEW h \in Url, ResolveDropped(h) PROVE Rows'
  <2>1. CASE UNCHANGED rowVars
    BY <1>5, <2>1 DEF ResolveDropped, Rows, rowVars, runVars
  <2>2. CASE arg[h] # NoBatch /\ Record(arg[h], h, {})
    <3>1. arg[h] \in Batch /\ h \in selected[arg[h]]
      BY <1>0, <2>2 DEF TypeOK, Rows
    <3> QED
      BY <1>0, <1>5, <2>2, <3>1, RowsRecord DEF ResolveDropped, runVars
  <2> QED
    BY <1>5, <2>1, <2>2 DEF ResolveDropped
<1>6. ASSUME NEW h \in Url, Start(h) \/ Finish(h) \/ PassChecks(h) PROVE Rows'
  BY <1>6 DEF Start, Finish, PassChecks, Rows, rowVars, runVars
<1>7. ASSUME NEW h \in Url, Store(h) PROVE Rows'
  <2>1. arg[h] \in Batch /\ {ItemOf(h)} \in SUBSET Item /\ h \in selected[arg[h]]
    BY <1>0, <1>7, ItemOfType DEF Store, TypeOK, TInv, Holding, Rows
  <2>2. \A i \in {ItemOf(h)} : i.batch = arg[h]
    BY DEF ItemOf
  <2> QED
    BY <1>0, <1>7, <2>1, <2>2, RowsRecord DEF Store, runVars
<1>8. ASSUME NEW h \in Url, StoreLegacy(h) \/ Solo(h) PROVE Rows'
  <2>1. \A i \in items' : i.batch \in Batch => i \in items
    BY <1>8, NoneAssumption DEF StoreLegacy, Solo, ItemOf
  <2> QED
    BY <1>8, <2>1 DEF StoreLegacy, Solo, Rows, runVars
<1>9. ASSUME NEW h \in Url, Expire(h) PROVE Rows'
  BY <1>0, <1>9, NoneAssumption DEF Expire, TypeOK, Rows, rowVars, runVars
<1>10. ASSUME NEW b \in Batch, SweepRead(b) PROVE Rows'
  BY <1>10 DEF SweepRead, Rows, rowVars, jobVars, runVars
<1>11. ASSUME NEW b \in Batch, SweepClose(b) PROVE Rows'
  <2>1. \A c \in Batch : status'[c] = "absent" <=> status[c] = "absent"
    BY <1>0, <1>11, CloseEffect DEF SweepClose
  <2> QED
    BY <1>0, <1>11, <2>1 DEF SweepClose, TypeOK, Rows, jobVars, runVars
<1>12. ASSUME Pause \/ Resume PROVE Rows'
  BY <1>12 DEF Pause, Resume, Rows, rowVars, jobVars, runVars
<1>13. ASSUME WorkerCrash PROVE Rows'
  <2>1. \A b \in Batch : cycle'[b] # "fanout" => status'[b] = "absent"
    BY <1>0, <1>13 DEF WorkerCrash, Rows, rowVars, TypeOK
  <2> QED
    BY <1>0, <1>13, <2>1 DEF WorkerCrash, TypeOK, Rows, rowVars
<1>14. ASSUME NEW h \in Url, LoseJob(h) PROVE Rows'
  BY <1>14 DEF LoseJob, Rows, rowVars, runVars
<1>15. ASSUME NEW h \in Url, EvictJob(h) PROVE Rows'
  BY <1>0, <1>15, NoneAssumption DEF EvictJob, TypeOK, Rows, rowVars, runVars
<1>16. ASSUME NEW b \in Batch, LoseCycle(b) PROVE Rows'
  <2>1. \A c \in Batch : /\ cycle'[c] # "fanout" => status'[c] = "absent"
                         /\ cycle'[c] = "fanout" => hand'[c] \subseteq selected'[c]
    BY <1>0, <1>16 DEF LoseCycle, Rows, rowVars, TypeOK
  <2> QED
    BY <1>0, <1>16, <2>1 DEF LoseCycle, Rows, rowVars, jobVars
<1>17. CASE UNCHANGED vars
  BY <1>17 DEF vars, Rows
<1> QED
  BY <1>1, <1>2, <1>3, <1>4, <1>5, <1>6, <1>7, <1>8, <1>9, <1>10, <1>11, <1>12, <1>13,
     <1>14, <1>15, <1>16, <1>17
     DEF Next, Dispatch, Job, Sweep, Trouble, StartInactive, Drop, Reject

LEMMA RowsInit == Init => Rows
  BY NoneAssumption DEF Init, Rows

-----------------------------------------------------------------------------
(* What a step can do to the rows. *)
RowChange == \/ UNCHANGED rowVars
             \/ \E b \in Batch : OpenBatch(b)
             \/ \E b \in Batch : \E h \in selected[b] : LockFree /\ Record(b, h, {})
             \/ \E h \in Url : Store(h) \/ StoreLegacy(h) \/ Solo(h)
             \/ \E b \in Batch : SweepClose(b)

LEMMA RowSteps == ASSUME TInv, Rows, [Next]_vars PROVE RowChange
<1>1. ASSUME NEW h \in Url, ResolveDropped(h) PROVE RowChange
  <2>1. CASE UNCHANGED rowVars
    BY <2>1 DEF RowChange
  <2>2. CASE arg[h] # NoBatch /\ LockFree /\ Record(arg[h], h, {})
    <3>1. arg[h] \in Batch /\ h \in selected[arg[h]]
      BY <2>2 DEF TInv, TypeOK, Rows
    <3> QED
      BY <2>2, <3>1 DEF RowChange
  <2> QED
    BY <1>1, <2>1, <2>2 DEF ResolveDropped
<1>2. ASSUME NEW b \in Batch, NEW h \in Url, Collide(b, h) PROVE RowChange
  BY <1>2 DEF Collide, TakeFromHand, Rows, RowChange
<1>3. ASSUME NEW b \in Batch, \/ Search(b) \/ SweepRead(b) \/ LoseCycle(b)
                              \/ \E h \in Url : Enqueue(b, h)
      PROVE  UNCHANGED rowVars
  BY <1>3 DEF Search, SweepRead, LoseCycle, Enqueue, rowVars
<1>4. ASSUME NEW h \in Url, \/ Start(h) \/ PassChecks(h) \/ Finish(h)
                            \/ Expire(h) \/ LoseJob(h) \/ EvictJob(h)
      PROVE  UNCHANGED rowVars
  BY <1>4 DEF Start, PassChecks, Finish, Expire, LoseJob, EvictJob, rowVars
<1>5. ASSUME Pause \/ Resume \/ WorkerCrash \/ UNCHANGED vars PROVE UNCHANGED rowVars
  BY <1>5 DEF Pause, Resume, WorkerCrash, vars, rowVars
<1> QED
  BY <1>1, <1>2, <1>3, <1>4, <1>5
     DEF RowChange, Next, Dispatch, Job, Sweep, Trouble, StartInactive, Drop, Reject

LEMMA StoreRecords ==
  ASSUME TInv, Rows, NEW h \in Url, Store(h)
  PROVE  /\ arg[h] \in Batch /\ h \in selected[arg[h]] /\ page[h] \in Page
         /\ ItemOf(h) \in Item /\ ItemOf(h).batch = arg[h]
         /\ Record(arg[h], h, {ItemOf(h)})
  BY ItemOfType DEF Store, TInv, TypeOK, Holding, Rows, ItemOf

-----------------------------------------------------------------------------
(***************************************************************************)
(* The counter.                                                            *)
(***************************************************************************)
LEMMA DoneFinite ==
  ASSUME NEW b \in Batch
  PROVE  IsFiniteSet(Done(b)) /\ Cardinality(Done(b)) \in Nat
<1>1. Done(b) \in SUBSET Url
  BY DEF Done
<1> QED
  BY <1>1, UrlAssumption, FS_Subset, FS_CardinalityType

LEMMA ExpectedNat ==
  ASSUME TypeOK, NEW b \in Batch
  PROVE  IsFiniteSet(selected[b]) /\ Expected(b) \in Nat
<1>1. selected[b] \in SUBSET Url
  BY DEF TypeOK
<1> QED
  BY <1>1, UrlAssumption, FS_Subset, FS_CardinalityType DEF Expected

LEMMA CountsRecord ==
  ASSUME TypeOK, Rows, CountsMatch, NEW b \in Batch, NEW h \in selected[b],
         NEW new \in SUBSET Item, Record(b, h, new)
  PROVE  CountsMatch'
<1>1. h \in Url /\ status[b] # "absent"
  BY DEF TypeOK, Rows
<1>2. selected' = selected
  BY <1>1, RecordEffect
<1>3. \A c \in Batch : Done(c)' = IF c = b THEN Done(b) \cup {h} ELSE Done(c)
  BY <1>1, RecordEffect
<1>4. CASE Recorded(b, h)
  <2>1. UNCHANGED <<status, resolved, ledger>>
    BY <1>4 DEF Record
  <2> QED
    BY <1>2, <2>1 DEF CountsMatch, Done, Expected
<1>5. CASE ~Recorded(b, h)
  <2>1. Cardinality(Done(b)') = Cardinality(Done(b)) + 1
    BY <1>3, <1>5, DoneFinite, FS_AddElement DEF Recorded
  <2>2. Cardinality(Done(b)) \in Nat /\ Expected(b) \in Nat /\ resolved[b] \in Nat
    BY DoneFinite, ExpectedNat DEF TypeOK
  <2>3. Expected(b)' = Expected(b)
    BY <1>2 DEF Expected
  <2>4. ASSUME NEW c \in Batch, c # b
        PROVE  /\ resolved'[c] = resolved[c] /\ status'[c] = status[c]
               /\ Done(c)' = Done(c) /\ Expected(c)' = Expected(c)
    BY <1>2, <1>3, <1>5, <2>4 DEF Record, CloseAndFinalize, TypeOK, Expected
  <2>5. CASE status[b] # "open"
    <3>1. status' = status /\ resolved' = resolved
      BY <1>5, <2>5 DEF Record
    <3>2. resolved'[b] <= Cardinality(Done(b)') /\ status'[b] # "open"
      BY <2>1, <2>2, <2>5, <3>1 DEF CountsMatch
    <3> QED
      BY <2>4, <3>2 DEF CountsMatch
  <2>6. CASE status[b] = "open"
    <3>1. resolved'[b] = Cardinality(Done(b)')
      BY <1>5, <2>1, <2>2, <2>6 DEF Record, CountsMatch, TypeOK
    <3>2. ASSUME status'[b] = "open" PROVE resolved'[b] < Expected(b)
      <4>1. resolved'[b] = resolved[b] + 1
        BY <1>5, <2>6 DEF Record, TypeOK
      <4>2. ~Complete(b)
        BY <1>5, <2>6, <3>2 DEF Record, CloseAndFinalize, TypeOK
      <4> QED
        BY <2>2, <4>1, <4>2 DEF Complete
    <3>3. resolved'[b] <= Cardinality(Done(b)')
      BY <2>1, <2>2, <3>1
    <3> QED
      BY <2>3, <2>4, <3>1, <3>2, <3>3 DEF CountsMatch
  <2> QED
    BY <2>5, <2>6
<1> QED
  BY <1>4, <1>5

LEMMA CountsInit == Init => CountsMatch
<1> SUFFICES ASSUME Init, NEW b \in Batch
             PROVE  resolved[b] <= Cardinality(Done(b)) /\ status[b] # "open"
  BY DEF CountsMatch
<1>1. Done(b) = {}
  BY DEF Init, Done
<1> QED
  BY <1>1, FS_EmptySet DEF Init

LEMMA CountsStep == TInv /\ Rows /\ CountsMatch /\ [Next]_vars => CountsMatch'
<1> SUFFICES ASSUME TInv, Rows, CountsMatch, [Next]_vars PROVE CountsMatch'
  OBVIOUS
<1>0. TypeOK
  BY DEF TInv
<1>1. CASE UNCHANGED rowVars
  BY <1>1 DEF rowVars, CountsMatch, Done, Expected
<1>2. ASSUME NEW b \in Batch, OpenBatch(b) PROVE CountsMatch'
  <2>1. PICK S \in SUBSET hand[b] :
          /\ selected' = [selected EXCEPT ![b] = S]
          /\ status' = [status EXCEPT ![b] = IF S = {} THEN "absent" ELSE "open"]
    BY <1>2 DEF OpenBatch
  <2>2. resolved' = resolved /\ ledger' = ledger
    BY <1>2 DEF OpenBatch
  <2>3. selected[b] = {}
    BY <1>2 DEF OpenBatch, Rows
  <2>4. Done(b) = {} /\ \A c \in Batch : Done(c)' = Done(c)
    <3>1. \A r \in ledger : r.batch # b
      BY <2>3 DEF Rows
    <3>2. Done(b) = {}
      BY <3>1 DEF Done
    <3>3. \A c \in Batch : Done(c)' = Done(c)
      BY <2>2 DEF Done
    <3> QED
      BY <3>2, <3>3
  <2>5. resolved[b] = 0 /\ Cardinality(Done(b)) = 0
    <3>1. Cardinality(Done(b)) = 0
      BY <2>4, FS_EmptySet
    <3>2. resolved[b] \in Nat /\ resolved[b] <= Cardinality(Done(b))
      BY <1>0 DEF CountsMatch, TypeOK
    <3> QED
      BY <3>1, <3>2
  <2>6. ASSUME S # {} PROVE Expected(b)' \in Nat /\ Expected(b)' > 0
    <3>1. Expected(b)' = Cardinality(S) /\ S \in SUBSET Url
      BY <1>0, <2>1 DEF Expected, TypeOK
    <3>2. IsFiniteSet(S)
      BY <3>1, UrlAssumption, FS_Subset
    <3>3. Cardinality(S) \in Nat /\ Cardinality(S) # 0
      BY <2>6, <3>2, FS_EmptySet, FS_CardinalityType
    <3> QED
      BY <3>1, <3>3
  <2>7. \A c \in Batch : c # b => status'[c] = status[c] /\ Expected(c)' = Expected(c)
    BY <1>0, <2>1 DEF TypeOK, Expected
  <2>8. status'[b] = "open" => S # {}
    BY <1>0, <2>1 DEF TypeOK
  <2> QED
    BY <2>2, <2>4, <2>5, <2>6, <2>7, <2>8 DEF CountsMatch
<1>3. ASSUME NEW b \in Batch, NEW h \in selected[b], Record(b, h, {}) PROVE CountsMatch'
  BY <1>0, <1>3, CountsRecord
<1>4. ASSUME NEW h \in Url, Store(h) PROVE CountsMatch'
  <2> DEFINE new == {ItemOf(h)}
  <2>1. /\ arg[h] \in Batch /\ h \in selected[arg[h]]
        /\ new \in SUBSET Item /\ Record(arg[h], h, new)
    BY <1>4, StoreRecords
  <2> QED
    BY <1>0, <2>1, CountsRecord
<1>5. ASSUME NEW h \in Url, StoreLegacy(h) \/ Solo(h) PROVE CountsMatch'
  BY <1>5 DEF StoreLegacy, Solo, CountsMatch, Done, Expected
<1>6. ASSUME NEW b \in Batch, SweepClose(b) PROVE CountsMatch'
  <2>1. UNCHANGED <<selected, resolved, ledger>>
    BY <1>6 DEF SweepClose
  <2>2. \A c \in Batch : status'[c] = "open" => status[c] = "open"
    BY <1>0, <1>6 DEF SweepClose, CloseAndFinalize, TypeOK
  <2> QED
    BY <2>1, <2>2 DEF CountsMatch, Done, Expected
<1> QED
  BY <1>1, <1>2, <1>3, <1>4, <1>5, <1>6, RowSteps DEF RowChange

(***************************************************************************)
(* A parity close has every selected candidate in the ledger.              *)
(***************************************************************************)
LEMMA ParityRecord ==
  ASSUME TypeOK, Rows, CountsMatch, NEW b \in Batch, NEW h \in selected[b],
         NEW new \in SUBSET Item, Record(b, h, new), Rows',
         NEW c \in Batch, status[c] = "open", status'[c] = "closed"
  PROVE  Done(c)' = selected[c]
<1>1. h \in Url /\ status[b] # "absent"
  BY DEF TypeOK, Rows
<1>2. selected' = selected /\ Done(b)' = Done(b) \cup {h}
  BY <1>1, RecordEffect
<1>3. c = b /\ h \notin Done(b) /\ Complete(b)
  BY <1>1, RecordEffect, CloseEffect
<1>4. Cardinality(Done(b)') = Cardinality(Done(b)) + 1
  <2>1. IsFiniteSet(Done(b)) /\ h \notin Done(b)
    BY <1>3, DoneFinite
  <2>2. Cardinality(Done(b) \cup {h}) = Cardinality(Done(b)) + 1
    BY <2>1, FS_AddElement
  <2> QED
    BY <1>2, <2>2
<1>5. Done(b)' \in SUBSET selected[b]
  BY <1>2 DEF Rows, Done
<1>6. resolved[b] = Cardinality(Done(b)) /\ resolved[b] < Expected(b)
  BY <1>3 DEF CountsMatch
<1>7. Cardinality(Done(b)') = Cardinality(selected[b])
  <2>1. /\ Cardinality(Done(b)) \in Nat /\ Cardinality(selected[b]) \in Nat
        /\ resolved[b] = Cardinality(Done(b)) /\ resolved[b] < Cardinality(selected[b])
        /\ resolved[b] + 1 >= Cardinality(selected[b])
    BY <1>3, <1>6, DoneFinite, ExpectedNat DEF Complete, Expected
  <2> QED
    BY <1>4, <2>1
<1> QED
  BY <1>3, <1>5, <1>7, ExpectedNat, FS_Subset

ParityStep == \A b \in Batch : status[b] = "open" /\ status'[b] = "closed" /\ picked' = picked
                                => Done(b)' = selected[b]

LEMMA ParityHolds == TInv /\ Rows /\ CountsMatch /\ [Next]_vars => ParityStep
<1> SUFFICES ASSUME TInv, Rows, CountsMatch, [Next]_vars, NEW c \in Batch,
                    status[c] = "open", status'[c] = "closed", picked' = picked
             PROVE  Done(c)' = selected[c]
  BY DEF ParityStep
<1>0. TypeOK /\ Rows'
  BY RowsStep DEF TInv
<1>1. ~UNCHANGED rowVars
  BY DEF rowVars
<1>2. ASSUME NEW b \in Batch, OpenBatch(b) PROVE FALSE
  BY <1>0, <1>2 DEF OpenBatch, TypeOK, Rows
<1>3. ASSUME NEW b \in Batch, NEW h \in selected[b], Record(b, h, {})
      PROVE  Done(c)' = selected[c]
  BY <1>0, <1>3, ParityRecord
<1>4. ASSUME NEW h \in Url, Store(h) PROVE Done(c)' = selected[c]
  <2> DEFINE new == {ItemOf(h)}
  <2>1. /\ arg[h] \in Batch /\ h \in selected[arg[h]]
        /\ new \in SUBSET Item /\ Record(arg[h], h, new)
    BY <1>4, StoreRecords
  <2> QED
    BY <1>0, <2>1, ParityRecord
<1>5. ASSUME NEW h \in Url, StoreLegacy(h) \/ Solo(h) PROVE FALSE
  BY <1>5 DEF StoreLegacy, Solo
<1>6. ASSUME NEW b \in Batch, SweepClose(b) PROVE FALSE
  BY <1>6 DEF SweepClose
<1> QED
  BY <1>1, <1>2, <1>3, <1>4, <1>5, <1>6, RowSteps DEF RowChange

-----------------------------------------------------------------------------
(***************************************************************************)
(* The lock, the stored articles and the logs.                             *)
(***************************************************************************)

(* One job holds the lock, and what it is about to store clashes with      *)
(* nothing stored.                                                         *)
LockInv == /\ \A h, k \in Url : pc[h] = "locked" /\ pc[k] = "locked" => h = k
           /\ \A h \in Url : pc[h] = "locked" => ~Duplicate(page[h])

(* A straggler between its two commits has its item stored, its batch      *)
(* closed, and no log with the item yet.                                   *)
SoloInv == /\ \A h \in Url : pc[h] = "solo" =>
                /\ arg[h] \in Batch /\ status[arg[h]] = "closed"
                /\ ItemOf(h) \in items
                /\ \A m \in DOMAIN logs : ItemOf(h) \notin logs[m].news
           /\ \A h, k \in Url : pc[h] = "solo" /\ pc[k] = "solo" /\ ItemOf(h) = ItemOf(k) => h = k

(* A log holds stored items, and of a batch only once it is closed.        *)
LogsInv == \A m \in DOMAIN logs :
             /\ logs[m].news # {} /\ logs[m].news \subseteq items
             /\ \A i \in logs[m].news : i.batch \in Batch => status[i.batch] = "closed"

SafeInv == /\ TInv /\ Rows /\ CountsMatch
           /\ LockInv /\ DistinctNews /\ SoloInv
           /\ LogsInv /\ OneLogPerItem /\ OneLogPerBatch

(* No job moves into the critical section or out of it with a commit.      *)
JobsStay == /\ items' = items
            /\ \A k \in Url : pc'[k] \in {"locked", "solo"} =>
                  pc'[k] = pc[k] /\ page'[k] = page[k] /\ arg'[k] = arg[k]

LEMMA JobSteps ==
  ASSUME TInv, Rows, [Next]_vars
  PROVE  JobsStay \/ \E h \in Url : PassChecks(h) \/ Store(h) \/ StoreLegacy(h)
<1>0. TypeOK
  BY DEF TInv
<1>1. ASSUME NEW b \in Batch, \/ Search(b) \/ OpenBatch(b) \/ SweepRead(b) \/ SweepClose(b)
                              \/ LoseCycle(b)
      PROVE  JobsStay
  BY <1>1 DEF Search, OpenBatch, SweepRead, SweepClose, LoseCycle, JobsStay, rowVars, jobVars
<1>2. ASSUME NEW b \in Batch, NEW h \in Url, Enqueue(b, h) PROVE JobsStay
  BY <1>0, <1>2 DEF Enqueue, JobsStay, rowVars, TypeOK
<1>3. ASSUME NEW b \in Batch, NEW h \in Url, Collide(b, h) PROVE JobsStay
  BY <1>3 DEF Collide, Record, JobsStay, jobVars
<1>4. ASSUME NEW h \in Url, ResolveDropped(h) PROVE JobsStay
  <2>1. items' = items
    BY <1>4 DEF ResolveDropped, Record, rowVars
  <2> QED
    BY <1>0, <1>4, <2>1 DEF ResolveDropped, Goto, JobsStay, TypeOK
<1>5. ASSUME NEW h \in Url, Start(h) \/ Finish(h) PROVE JobsStay
  BY <1>0, <1>5 DEF Start, Finish, Goto, JobsStay, rowVars, TypeOK
<1>6. ASSUME NEW h \in Url, Solo(h) PROVE JobsStay
  BY <1>0, <1>6 DEF Solo, Goto, ReleasePage, JobsStay, TypeOK
<1>7. ASSUME NEW h \in Url, Expire(h) \/ EvictJob(h) PROVE JobsStay
  BY <1>0, <1>7 DEF Expire, EvictJob, Goto, JobsStay, rowVars, TypeOK
<1>8. ASSUME NEW h \in Url, LoseJob(h) PROVE JobsStay
  BY <1>0, <1>8 DEF LoseJob, Goto, ReleasePage, JobsStay, rowVars, TypeOK
<1>9. ASSUME WorkerCrash PROVE JobsStay
  BY <1>0, <1>9 DEF WorkerCrash, JobsStay, rowVars, TypeOK, Running
<1>10. ASSUME Pause \/ Resume \/ UNCHANGED vars PROVE JobsStay
  BY <1>10 DEF Pause, Resume, vars, JobsStay, rowVars, jobVars
<1> QED
  BY <1>1, <1>2, <1>3, <1>4, <1>5, <1>6, <1>7, <1>8, <1>9, <1>10
     DEF Next, Dispatch, Job, Sweep, Trouble, StartInactive, Drop, Reject

LEMMA StoredIsNew ==
  ASSUME LockInv, NEW h \in Url, pc[h] = "locked"
  PROVE  /\ ItemOf(h) \notin items
         /\ \A i \in items : ~Clash(i, ItemOf(h))
<1>1. \A i \in items : ~Clash(i, page[h])
  BY DEF LockInv, Duplicate
<1>2. \A i \in items : ~Clash(i, ItemOf(h))
  BY <1>1 DEF Clash, ItemOf
<1> QED
  BY <1>2 DEF Clash

LEMMA LockStep == SafeInv /\ [Next]_vars => LockInv'
<1> SUFFICES ASSUME SafeInv, [Next]_vars PROVE LockInv'
  OBVIOUS
<1>0. TypeOK /\ TInv /\ Rows /\ LockInv
  BY DEF SafeInv, TInv
<1>1. CASE JobsStay
  BY <1>0, <1>1 DEF JobsStay, LockInv, Duplicate
<1>2. ASSUME NEW h \in Url, PassChecks(h) PROVE LockInv'
  <2>1. PICK p \in Page : ~Duplicate(p) /\ page' = [page EXCEPT ![h] = p]
    BY <1>2 DEF PassChecks
  <2>2. pc' = [pc EXCEPT ![h] = "locked"] /\ LockFree /\ items' = items
    BY <1>2 DEF PassChecks, Goto, rowVars
  <2> QED
    BY <1>0, <2>1, <2>2 DEF LockInv, LockFree, Duplicate, TypeOK
<1>3. ASSUME NEW h \in Url, Store(h) \/ StoreLegacy(h) PROVE LockInv'
  <2>1. pc[h] = "locked" /\ \E s \in {"solo", "ending"} : pc' = [pc EXCEPT ![h] = s]
    BY <1>3 DEF Store, StoreLegacy, Goto
  <2>2. \A k \in Url : pc'[k] # "locked"
    BY <1>0, <2>1 DEF LockInv, TypeOK
  <2> QED
    BY <2>2 DEF LockInv
<1> QED
  BY <1>0, <1>1, <1>2, <1>3, JobSteps

(* The stored articles grow by at most one, which clashes with none.       *)
LEMMA ItemStep ==
  ASSUME SafeInv, [Next]_vars
  PROVE  items' = items \/ \E i \in Item : /\ items' = items \cup {i}
                                           /\ i \notin items
                                           /\ \A j \in items : ~Clash(j, i)
<1>0. TInv /\ Rows /\ LockInv
  BY DEF SafeInv
<1>1. ASSUME NEW h \in Url, PassChecks(h) PROVE items' = items
  BY <1>1 DEF PassChecks, rowVars
<1>2. ASSUME NEW h \in Url, Store(h) \/ StoreLegacy(h)
      PROVE  /\ ItemOf(h) \in Item /\ items' = items \cup {ItemOf(h)}
             /\ ItemOf(h) \notin items /\ \A j \in items : ~Clash(j, ItemOf(h))
  <2>1. pc[h] = "locked" /\ items' = items \cup {ItemOf(h)}
    BY <1>2 DEF Store, StoreLegacy, Record
  <2>2. ItemOf(h) \in Item
    BY <1>0, <2>1, ItemOfType DEF TInv, Holding
  <2> QED
    BY <1>0, <2>1, <2>2, StoredIsNew
<1> QED
  BY <1>0, <1>1, <1>2, JobSteps DEF JobsStay

LEMMA DistinctStep == SafeInv /\ [Next]_vars => DistinctNews'
<1> SUFFICES ASSUME SafeInv, [Next]_vars PROVE DistinctNews'
  OBVIOUS
<1>1. CASE items' = items
  BY <1>1 DEF SafeInv, DistinctNews, Clash
<1>2. ASSUME NEW i \in Item, items' = items \cup {i}, \A j \in items : ~Clash(j, i)
      PROVE  DistinctNews'
  <2>1. \A j \in items : ~Clash(i, j)
    BY <1>2, NearAssumption DEF Clash, SafeInv, TInv, TypeOK, Item
  <2>2. \A j, k \in items' : Clash(j, k) => j = k
    BY <1>2, <2>1 DEF SafeInv, DistinctNews
  <2> QED
    BY <2>2 DEF DistinctNews, Clash
<1> QED
  BY <1>1, <1>2, ItemStep

(* A closed batch stays closed, an existing one stays in existence.        *)
LEMMA StatusStep ==
  ASSUME TInv, Rows, [Next]_vars
  PROVE  \A b \in Batch : /\ status[b] = "closed" => status'[b] = "closed"
                          /\ status[b] = "open" => status'[b] # "absent"
<1>0. TypeOK
  BY DEF TInv
<1>1. CASE UNCHANGED rowVars
  BY <1>1 DEF rowVars
<1>2. ASSUME NEW b \in Batch, OpenBatch(b)
      PROVE  status[b] = "absent" /\ \A c \in Batch : c # b => status'[c] = status[c]
  BY <1>0, <1>2 DEF OpenBatch, TypeOK, Rows
<1>3. ASSUME NEW b \in Batch, NEW h \in selected[b], NEW new \in SUBSET Item, Record(b, h, new)
      PROVE  \A c \in Batch : status'[c] = status[c] \/ (c = b /\ status'[b] = "closed")
  <2>1. h \in Url
    BY <1>0 DEF TypeOK
  <2>2. status' = status \/ (status[b] = "open" /\ CloseAndFinalize(b))
    BY <1>0, <1>3, <2>1, RecordEffect DEF TypeOK
  <2>3. ASSUME status[b] = "open", CloseAndFinalize(b)
        PROVE  \A c \in Batch : status'[c] = status[c] \/ (c = b /\ status'[b] = "closed")
    <3>1. status[b] # "absent"
      BY <2>3
    <3> QED
      BY <1>0, <2>3, <3>1, CloseEffect
  <2> QED
    BY <2>2, <2>3
<1>4. ASSUME NEW h \in Url, Store(h)
      PROVE  \A c \in Batch : status'[c] = status[c] \/ status'[c] = "closed"
  <2> DEFINE new == {ItemOf(h)}
  <2>1. /\ arg[h] \in Batch /\ h \in selected[arg[h]]
        /\ new \in SUBSET Item /\ Record(arg[h], h, new)
    BY <1>4, StoreRecords
  <2> QED
    BY <2>1, <1>3
<1>5. ASSUME NEW h \in Url, StoreLegacy(h) \/ Solo(h) PROVE status' = status
  BY <1>5 DEF StoreLegacy, Solo
<1>6. ASSUME NEW b \in Batch, SweepClose(b)
      PROVE  \A c \in Batch : status'[c] = status[c] \/ status'[c] = "closed"
  BY <1>0, <1>6, CloseEffect DEF SweepClose
<1>7. {} \in SUBSET Item
  OBVIOUS
<1> QED
  BY <1>1, <1>2, <1>3, <1>4, <1>5, <1>6, <1>7, RowSteps DEF RowChange

(* A new log: the group of a batch that this step closes, or one article   *)
(* of an old-signature job or a straggler.                                 *)
NewLog(row) ==
  /\ row \in LogRow /\ row.news # {} /\ row.news \subseteq items'
  /\ \A m \in DOMAIN logs : logs[m].news \cap row.news = {}
  /\ \A i \in row.news : i.batch \in Batch => status'[i.batch] = "closed"
  /\ row.batch \in Batch => /\ status[row.batch] = "open" /\ status'[row.batch] = "closed"
                            /\ \A i \in row.news : i.batch = row.batch
  /\ row.batch = NoBatch => \E h \in Url : /\ StoreLegacy(h) \/ Solo(h)
                                           /\ row.news = {ItemOf(h)}

LogGrows == logs' = logs \/ \E row : NewLog(row) /\ logs' = Append(logs, row)

LEMMA CloseLogs ==
  ASSUME SafeInv, NEW b \in Batch, status[b] = "open", CloseAndFinalize(b), items' \subseteq Item
  PROVE  LogGrows
<1>0. TypeOK /\ LogsInv
  BY DEF SafeInv, TInv
<1>1. CASE logs' = logs
  BY <1>1 DEF LogGrows
<1>2. CASE logs' # logs
  <2> DEFINE row == [batch |-> b, news |-> Group(b)]
  <2>1. Group(b) # {} /\ logs' = Append(logs, row)
    BY <1>2 DEF CloseAndFinalize, Finalize
  <2>2. row.batch = b /\ row.news = Group(b) /\ b # NoBatch
    BY NoneAssumption
  <2>3. Group(b) \subseteq items' /\ \A i \in Group(b) : i.batch = b
    BY DEF Group
  <2>4. row \in LogRow
    BY <2>3 DEF LogRow
  <2>5. status'[b] = "closed"
    BY <1>0, CloseEffect
  <2>6. \A m \in DOMAIN logs : logs[m].news \cap Group(b) = {}
    BY <2>3 DEF LogsInv, SafeInv
  <2> HIDE DEF row
  <2>7. NewLog(row)
    BY <2>1, <2>2, <2>3, <2>4, <2>5, <2>6 DEF NewLog
  <2> QED
    BY <2>1, <2>7 DEF LogGrows
<1> QED
  BY <1>1, <1>2

LEMMA SoloLogs ==
  ASSUME SafeInv, NEW h \in Url, StoreLegacy(h) \/ Solo(h)
  PROVE  LogGrows
<1> DEFINE row == [batch |-> NoBatch, news |-> {ItemOf(h)}]
<1>1. row.batch = NoBatch /\ row.news = {ItemOf(h)} /\ row.batch \notin Batch
  BY NoneAssumption
<1>2. ItemOf(h) \in Item
  BY ItemOfType DEF SafeInv, TInv, Holding, StoreLegacy, Solo
<1>3. row \in LogRow
  BY <1>2 DEF LogRow
<1>4. logs' = Append(logs, row) /\ ItemOf(h) \in items'
  BY DEF StoreLegacy, Solo, SoloLog, SafeInv, SoloInv
<1>5. \A m \in DOMAIN logs : ItemOf(h) \notin logs[m].news
  <2>1. CASE StoreLegacy(h)
    <3>1. ItemOf(h) \notin items
      BY <2>1, StoredIsNew DEF StoreLegacy, SafeInv
    <3> QED
      BY <3>1 DEF SafeInv, LogsInv
  <2>2. CASE Solo(h)
    BY <2>2 DEF Solo, SafeInv, SoloInv
  <2> QED
    BY <2>1, <2>2
<1>6. ItemOf(h).batch \in Batch => status'[ItemOf(h).batch] = "closed"
  BY NoneAssumption DEF StoreLegacy, Solo, ItemOf, SafeInv, SoloInv
<1> HIDE DEF row
<1>7. NewLog(row)
  BY <1>1, <1>3, <1>4, <1>5, <1>6 DEF NewLog
<1> QED
  BY <1>4, <1>7 DEF LogGrows

LEMMA LogStep == ASSUME SafeInv, [Next]_vars PROVE LogGrows
<1>0. TypeOK /\ TInv /\ Rows
  BY DEF SafeInv, TInv
<1>1. ASSUME NEW b \in Batch, NEW h \in selected[b], NEW new \in SUBSET Item, Record(b, h, new)
      PROVE  LogGrows
  <2>1. \/ logs' = logs
        \/ status[b] = "open" /\ CloseAndFinalize(b)
    BY <1>0, <1>1, RecordEffect DEF TypeOK
  <2>2. items' \subseteq Item
    BY <1>0, <1>1 DEF Record, TypeOK
  <2> QED
    BY <2>1, <2>2, CloseLogs DEF LogGrows
<1>2. ASSUME NEW h \in Url, Store(h) PROVE LogGrows
  <2> DEFINE new == {ItemOf(h)}
  <2>1. /\ arg[h] \in Batch /\ h \in selected[arg[h]]
        /\ new \in SUBSET Item /\ Record(arg[h], h, new)
    BY <1>0, <1>2, StoreRecords
  <2> QED
    BY <2>1, <1>1
<1>3. ASSUME NEW b \in Batch, SweepClose(b) PROVE LogGrows
  <2>1. \/ logs' = logs
        \/ status[b] = "open" /\ CloseAndFinalize(b)
    BY <1>3 DEF SweepClose
  <2>2. items' \subseteq Item
    BY <1>0, <1>3 DEF SweepClose, TypeOK
  <2> QED
    BY <2>1, <2>2, CloseLogs DEF LogGrows
<1>4. ASSUME UNCHANGED rowVars \/ \E b \in Batch : OpenBatch(b) PROVE LogGrows
  BY <1>4 DEF rowVars, OpenBatch, LogGrows
<1>5. {} \in SUBSET Item
  OBVIOUS
<1> QED
  BY <1>0, <1>1, <1>2, <1>3, <1>4, <1>5, SoloLogs, RowSteps DEF RowChange

LEMMA LogsStep == SafeInv /\ [Next]_vars => LogsInv' /\ OneLogPerItem' /\ OneLogPerBatch'
<1> SUFFICES ASSUME SafeInv, [Next]_vars PROVE LogsInv' /\ OneLogPerItem' /\ OneLogPerBatch'
  OBVIOUS
<1>0. /\ TypeOK /\ TInv /\ Rows /\ LogsInv /\ OneLogPerItem /\ OneLogPerBatch
      /\ logs \in Seq(LogRow)
  BY DEF SafeInv, TInv, TypeOK
<1>1. items \subseteq items'
  BY ItemStep
<1>2. \A b \in Batch : status[b] = "closed" => status'[b] = "closed"
  BY <1>0, StatusStep
<1>3. \A m \in DOMAIN logs :
        /\ logs[m].news # {} /\ logs[m].news \subseteq items'
        /\ \A i \in logs[m].news : i.batch \in Batch => status'[i.batch] = "closed"
  BY <1>0, <1>1, <1>2 DEF LogsInv
<1>4. \A m \in DOMAIN logs : logs[m] \in LogRow /\ logs[m].batch \in Batch \cup {NoBatch}
  <2>1. \A m \in DOMAIN logs : logs[m] \in LogRow
    BY <1>0
  <2> QED
    BY <2>1 DEF LogRow
<1>5. \A m \in DOMAIN logs : logs[m].batch # NoBatch =>
        /\ logs[m].batch \in Batch /\ status[logs[m].batch] = "closed"
        /\ status'[logs[m].batch] = "closed"
        /\ \A i \in logs[m].news : i.batch = logs[m].batch
  BY <1>0, <1>2, <1>4 DEF OneLogPerBatch
<1>6. CASE logs' = logs
  BY <1>0, <1>3, <1>5, <1>6 DEF LogsInv, OneLogPerItem, OneLogPerBatch
<1>7. ASSUME NEW row, NewLog(row), logs' = Append(logs, row)
      PROVE  LogsInv' /\ OneLogPerItem' /\ OneLogPerBatch'
  <2> DEFINE n == Len(logs) + 1
  <2>0. row \in LogRow /\ row.batch \in Batch \cup {NoBatch}
    BY <1>7 DEF NewLog, LogRow
  <2>1. /\ DOMAIN logs' = DOMAIN logs \cup {n} /\ n \notin DOMAIN logs
        /\ logs'[n] = row /\ \A m \in DOMAIN logs : logs'[m] = logs[m]
    BY <1>0, <1>7, <2>0, AppendRow
  <2> HIDE DEF n
  <2>2. LogsInv'
    BY <1>3, <1>7, <2>1 DEF LogsInv, NewLog
  <2>3. OneLogPerItem'
    BY <1>0, <1>7, <2>1 DEF OneLogPerItem, NewLog
  <2>4. \A m \in DOMAIN logs : row.batch # NoBatch => logs[m].batch # row.batch
    BY <1>5, <1>7, <2>0 DEF NewLog
  <2>5. OneLogPerBatch'
    <3>1. ASSUME NEW m \in DOMAIN logs', logs'[m].batch # NoBatch
          PROVE  /\ status'[logs'[m].batch] = "closed"
                 /\ \A i \in logs'[m].news : i.batch = logs'[m].batch
      BY <1>5, <1>7, <2>0, <2>1, <3>1 DEF NewLog
    <3>2. ASSUME NEW m \in DOMAIN logs', NEW k \in DOMAIN logs', logs'[m].batch # NoBatch,
                 logs'[k].batch = logs'[m].batch
          PROVE  k = m
      BY <1>0, <2>1, <2>4, <3>2 DEF OneLogPerBatch
    <3> QED
      BY <3>1, <3>2 DEF OneLogPerBatch
  <2> QED
    BY <2>2, <2>3, <2>5
<1> QED
  BY <1>6, <1>7, LogStep DEF LogGrows

LEMMA SoloStep == SafeInv /\ [Next]_vars => SoloInv'
<1> SUFFICES ASSUME SafeInv, [Next]_vars PROVE SoloInv'
  OBVIOUS
<1>0. TypeOK /\ TInv /\ Rows /\ SoloInv /\ LogsInv /\ LockInv /\ logs \in Seq(LogRow)
  BY DEF SafeInv, TInv, TypeOK
<1>1. items \subseteq items'
  BY ItemStep
<1>2. \A b \in Batch : status[b] = "closed" => status'[b] = "closed"
  BY <1>0, StatusStep
(* A straggler that was waiting and still is keeps its facts.              *)
<1>3. ASSUME NEW k \in Url, pc[k] = "solo", pc'[k] = "solo", page'[k] = page[k], arg'[k] = arg[k]
      PROVE  /\ arg'[k] \in Batch /\ status'[arg'[k]] = "closed"
             /\ ItemOf(k)' = ItemOf(k) /\ ItemOf(k)' \in items'
             /\ \A m \in DOMAIN logs' : ItemOf(k)' \notin logs'[m].news
  <2>1. /\ arg[k] \in Batch /\ status[arg[k]] = "closed" /\ ItemOf(k) \in items
        /\ \A m \in DOMAIN logs : ItemOf(k) \notin logs[m].news
    BY <1>0, <1>3 DEF SoloInv
  <2>2. ItemOf(k)' = ItemOf(k) /\ ItemOf(k).batch = arg[k]
    BY <1>3 DEF ItemOf
  <2>3. ASSUME NEW row, NewLog(row), logs' = Append(logs, row)
        PROVE  \A m \in DOMAIN logs' : ItemOf(k) \notin logs'[m].news
    <3>0. row \in LogRow /\ row.batch \in Batch \cup {NoBatch}
      BY <2>3 DEF NewLog, LogRow
    <3>1. ItemOf(k) \notin row.news
      <4>1. CASE row.batch \in Batch
        BY <2>1, <2>2, <2>3, <4>1 DEF NewLog
      <4>2. ASSUME NEW h \in Url, StoreLegacy(h), row.news = {ItemOf(h)}
            PROVE  ItemOf(k) \notin row.news
        BY <1>0, <2>1, <4>2, StoredIsNew DEF StoreLegacy
      <4>3. ASSUME NEW h \in Url, Solo(h), row.news = {ItemOf(h)}
            PROVE  ItemOf(k) \notin row.news
        <5>1. pc[h] = "solo" /\ h # k
          BY <1>0, <1>3, <4>3 DEF Solo, Goto, TypeOK
        <5> QED
          BY <1>0, <1>3, <4>3, <5>1 DEF SoloInv
      <4> QED
        BY <2>3, <3>0, <4>1, <4>2, <4>3 DEF NewLog
    <3>2. /\ DOMAIN logs' = DOMAIN logs \cup {Len(logs) + 1} /\ logs'[Len(logs) + 1] = row
          /\ \A m \in DOMAIN logs : logs'[m] = logs[m]
      BY <1>0, <2>3, <3>0, AppendRow
    <3> QED
      BY <2>1, <3>1, <3>2
  <2>4. \A m \in DOMAIN logs' : ItemOf(k) \notin logs'[m].news
    BY <2>1, <2>3, LogStep DEF LogGrows
  <2> QED
    BY <1>1, <1>2, <1>3, <2>1, <2>2, <2>4
<1>4. CASE \A k \in Url : pc'[k] = "solo" => pc[k] = "solo" /\ page'[k] = page[k] /\ arg'[k] = arg[k]
  BY <1>0, <1>3, <1>4 DEF SoloInv
<1>5. ASSUME NEW h \in Url, PassChecks(h) \/ StoreLegacy(h) PROVE SoloInv'
  <2>1. \A k \in Url : pc'[k] = "solo" => pc[k] = "solo" /\ page'[k] = page[k] /\ arg'[k] = arg[k]
    BY <1>0, <1>5 DEF PassChecks, StoreLegacy, Goto, ReleasePage, TypeOK
  <2> QED
    BY <2>1, <1>4
<1>6. ASSUME NEW h \in Url, Store(h) PROVE SoloInv'
  <2>0. pc[h] = "locked" /\ arg' = arg
    BY <1>6 DEF Store
  <2>1. \A k \in Url : k # h /\ pc'[k] = "solo" => pc[k] = "solo" /\ page'[k] = page[k] /\ arg'[k] = arg[k]
    BY <1>0, <1>6 DEF Store, Goto, ReleasePage, TypeOK
  <2>2. CASE pc'[h] # "solo"
    BY <1>4, <2>1, <2>2
  <2>3. CASE pc'[h] = "solo"
    <3>1. Straggler(arg[h], h) /\ page' = page
      BY <1>0, <1>6, <2>3 DEF Store, Goto, TypeOK
    <3>2. arg[h] \in Batch /\ h \in selected[arg[h]] /\ Record(arg[h], h, {ItemOf(h)})
      BY <1>0, <1>6, StoreRecords
    <3>3. status' = status /\ logs' = logs /\ items' = items \cup {ItemOf(h)}
      BY <3>1, <3>2 DEF Record, Straggler
    <3>4. status[arg[h]] = "closed"
      BY <1>0, <3>1, <3>2 DEF Straggler, Rows, TypeOK
    <3>5. ItemOf(h)' = ItemOf(h) /\ ItemOf(h) \notin items
      BY <1>0, <2>0, <3>1, StoredIsNew DEF ItemOf
    <3>6. \A m \in DOMAIN logs' : ItemOf(h)' \notin logs'[m].news
      BY <1>0, <3>3, <3>5 DEF LogsInv
    <3>7. \A k \in Url : k # h /\ pc'[k] = "solo" => ItemOf(k)' = ItemOf(k) /\ ItemOf(k) \in items
      BY <1>0, <1>3, <2>1 DEF SoloInv
    <3>8. \A j, k \in Url : pc'[j] = "solo" /\ pc'[k] = "solo" /\ ItemOf(j)' = ItemOf(k)' => j = k
      BY <1>0, <2>1, <3>5, <3>7 DEF SoloInv
    <3>9. \A k \in Url : pc'[k] = "solo" =>
             /\ arg'[k] \in Batch /\ status'[arg'[k]] = "closed" /\ ItemOf(k)' \in items'
             /\ \A m \in DOMAIN logs' : ItemOf(k)' \notin logs'[m].news
      BY <1>3, <2>0, <2>1, <3>2, <3>3, <3>4, <3>5, <3>6
    <3> QED
      BY <3>8, <3>9 DEF SoloInv
  <2> QED
    BY <2>2, <2>3
<1>7. CASE JobsStay
  BY <1>4, <1>7 DEF JobsStay
<1> QED
  BY <1>0, <1>5, <1>6, <1>7, JobSteps

-----------------------------------------------------------------------------
LEMMA SafeInit == Init => SafeInv
<1> SUFFICES ASSUME Init PROVE SafeInv
  OBVIOUS
<1>1. TInv /\ Rows /\ CountsMatch
  BY TypeInit, RowsInit, CountsInit
<1>2. \A h \in Url : pc[h] \notin {"locked", "solo"}
  BY DEF Init
<1>3. LockInv /\ SoloInv
  BY <1>2 DEF LockInv, SoloInv
<1>4. DistinctNews /\ LogsInv /\ OneLogPerItem /\ OneLogPerBatch
  BY DEF Init, DistinctNews, LogsInv, OneLogPerItem, OneLogPerBatch
<1> QED
  BY <1>1, <1>3, <1>4 DEF SafeInv

LEMMA SafeStep == SafeInv /\ [Next]_vars => SafeInv'
<1> SUFFICES ASSUME SafeInv, [Next]_vars PROVE SafeInv'
  OBVIOUS
<1>1. TInv' /\ Rows' /\ CountsMatch'
  BY TypeStep, RowsStep, CountsStep DEF SafeInv
<1>2. LockInv' /\ DistinctNews' /\ SoloInv'
  BY LockStep, DistinctStep, SoloStep
<1>3. LogsInv' /\ OneLogPerItem' /\ OneLogPerBatch'
  BY LogsStep
<1> QED
  BY <1>1, <1>2, <1>3 DEF SafeInv

LEMMA SafeAlways == Spec => []SafeInv
  BY SafeInit, SafeStep, PTL DEF Spec

(* The counter of an open batch is the number of ledger rows, short of the *)
(* expected count, however often jobs crash and run again.                 *)
THEOREM CounterIsLedger == Spec => []CountsMatch
<1>1. SafeInv => CountsMatch
  BY DEF SafeInv
<1> QED
  BY SafeAlways, <1>1, PTL

(* A batch closed by a resolution has all its candidates in the ledger.    *)
THEOREM ParityIsComplete == Spec => ParityMeansAll
<1>1. SafeInv /\ [Next]_vars => [ParityStep]_vars
  BY ParityHolds DEF SafeInv
<1>2. ParityMeansAll <=> [][ParityStep]_vars
  BY DEF ParityMeansAll, ParityStep
<1> QED
  BY SafeAlways, <1>1, <1>2, PTL DEF Spec

(* No two stored articles are the same page or near-duplicate stories.     *)
THEOREM NoDuplicateNews == Spec => []DistinctNews
<1>1. SafeInv => DistinctNews
  BY DEF SafeInv
<1> QED
  BY SafeAlways, <1>1, PTL

(* No article is in two delivery logs.                                     *)
THEOREM NoDoubleDelivery == Spec => []OneLogPerItem
<1>1. SafeInv => OneLogPerItem
  BY DEF SafeInv
<1> QED
  BY SafeAlways, <1>1, PTL

(* A batch is finalized at most once, when it closes, with its own items.  *)
THEOREM FinalizedOnce == Spec => []OneLogPerBatch
<1>1. SafeInv => OneLogPerBatch
  BY DEF SafeInv
<1> QED
  BY SafeAlways, <1>1, PTL

-----------------------------------------------------------------------------
(***************************************************************************)
(* The rows implement the abstract stream of articles and groups.          *)
(***************************************************************************)
Groups == [m \in DOMAIN logs |-> logs[m].news]

LEMMA GroupsAppend ==
  ASSUME logs \in Seq(LogRow), NEW row \in LogRow, logs' = Append(logs, row)
  PROVE  Groups' = Append(Groups, row.news)
<1>1. PICK n \in Nat : DOMAIN logs = 1..n /\ Len(logs) = n
  OBVIOUS
<1>2. /\ DOMAIN logs' = 1..(n + 1) /\ logs'[n + 1] = row
      /\ \A m \in 1..n : logs'[m] = logs[m]
  BY <1>1
<1>3. Groups \in Seq(SUBSET Item) /\ Len(Groups) = n
  <2>1. \A m \in 1..n : logs[m] \in LogRow
    BY <1>1
  <2>2. \A m \in 1..n : logs[m].news \in SUBSET Item
    BY <2>1 DEF LogRow
  <2>3. Groups = [m \in 1..n |-> logs[m].news]
    BY <1>1 DEF Groups
  <2>4. Groups \in [1..n -> SUBSET Item]
    BY <2>2, <2>3
  <2> QED
    BY <2>4
<1>4. Groups' = [m \in 1..(n + 1) |-> IF m = n + 1 THEN row.news ELSE Groups[m]]
  BY <1>1, <1>2 DEF Groups
<1>5. row.news \in SUBSET Item
  BY DEF LogRow
<1> QED
  BY <1>3, <1>4, <1>5

LEMMA StreamInit == Init => Stream!Init
  BY DEF Init, Stream!Init

LEMMA StreamStep == SafeInv /\ [Next]_vars => [Stream!Next]_(Stream!svars)
<1> SUFFICES ASSUME SafeInv, [Next]_vars PROVE [Stream!Next]_(Stream!svars)
  OBVIOUS
<1> DEFINE Free(group) == \A m \in DOMAIN logs : logs[m].news \cap group = {}
<1>1. logs \in Seq(LogRow)
  BY DEF SafeInv, TInv, TypeOK
<1>2. PICK new \in Stream!NoneOrOne : /\ items' = items \cup new
                                      /\ \A a \in new : \A old \in items : ~Clash(a, old)
  <2>1. CASE items' = items
    <3>1. {} \in Stream!NoneOrOne
      BY DEF Stream!NoneOrOne
    <3> QED
      BY <2>1, <3>1
  <2>2. ASSUME NEW i \in Item, items' = items \cup {i}, \A j \in items : ~Clash(j, i)
        PROVE  \E new \in Stream!NoneOrOne : /\ items' = items \cup new
                                             /\ \A a \in new : \A old \in items : ~Clash(a, old)
    <3>1. {i} \in Stream!NoneOrOne
      BY DEF Stream!NoneOrOne
    <3>2. \A old \in items : ~Clash(i, old)
      BY <2>2, NearAssumption DEF Clash, SafeInv, TInv, TypeOK, Item
    <3> QED
      BY <2>2, <3>1, <3>2
  <2> QED
    BY <2>1, <2>2, ItemStep
<1>3. Stream!Acceptable(new)
  BY <1>2 DEF Stream!Acceptable
<1>4. CASE logs' = logs
  <2>1. Groups' = Groups
    BY <1>4 DEF Groups
  <2> QED
    BY <1>2, <1>3, <2>1 DEF Groups, Stream!Next, Stream!Publish
<1>5. ASSUME NEW row, NewLog(row), logs' = Append(logs, row) PROVE Stream!Next
  <2>1. row \in LogRow /\ row.news # {} /\ row.news \in SUBSET items' /\ Free(row.news)
    BY <1>5 DEF NewLog
  <2>2. Stream!Deliverable(row.news)
    <3>1. Stream!Announced = UNION {logs[m].news : m \in DOMAIN logs}
      BY DEF Stream!Announced
    <3> QED
      BY <2>1, <3>1 DEF Stream!Deliverable
  <2>3. Groups' = Append(Groups, row.news)
    BY <1>1, <1>5, <2>1, GroupsAppend
  <2> QED
    BY <1>2, <1>3, <2>1, <2>2, <2>3 DEF Groups, Stream!Next, Stream!Publish
<1> QED
  BY <1>4, <1>5, LogStep DEF LogGrows

(* The ledger, the lock, the sweep and the solo deliveries together are an *)
(* implementation of the abstract stream, whatever crashes.                *)
THEOREM ImplementsNewsStream == Spec => ImplementsStream
<1>1. ImplementsStream <=> Stream!Init /\ [][Stream!Next]_(Stream!svars)
  BY DEF ImplementsStream, Stream!Spec
<1> QED
  BY StreamInit, StreamStep, SafeAlways, <1>1, PTL DEF Spec
=============================================================================
