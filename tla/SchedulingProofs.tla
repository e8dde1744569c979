-------------------------- MODULE SchedulingProofs --------------------------
(***************************************************************************)
(* Scheduling: the number of chains and the agreement of row and queue,    *)
(* for any number of runs, thresholds, steps, slots and interrupts.        *)
(***************************************************************************)
EXTENDS Scheduling, TLAPS, FiniteSetTheorems

State == {"absent", "queued", "search", "committed", "fanout"}

-----------------------------------------------------------------------------
(* Type correctness *)

LEMMA TypeInit == Init => TypeOK
<1>1. SUFFICES ASSUME Init PROVE TypeOK
  OBVIOUS
<1>2. /\ active \in BOOLEAN /\ request \in BOOLEAN /\ picked \in BOOLEAN
      /\ ahead \in Int /\ extra \in Nat /\ interrupts \in Nat
  <2>1. active \in BOOLEAN /\ request \in BOOLEAN /\ picked \in BOOLEAN
    BY <1>1, Zenon DEF Init
  <2>2. ahead \in Int /\ extra \in Nat /\ interrupts \in Nat
    BY <1>1 DEF Init
  <2>3. QED
    BY <2>1, <2>2
<1>3. /\ pc \in [Run -> {"absent", "queued", "search", "committed", "fanout"}]
      /\ wait \in [Run -> Nat]
  BY <1>1 DEF Init
<1>4. QED
  BY <1>2, <1>3 DEF TypeOK

(* A new run takes a slot nobody uses and disturbs no other run.           *)
LEMMA NewRun ==
  ASSUME NEW states \in [Run -> State], NEW times \in [Run -> Nat], NEW due \in Nat,
         \A m \in Run : pc[m] = "absent" => states[m] = "absent",
         EnqueueRun(states, times, due)
  PROVE  /\ pc' \in [Run -> State] /\ wait' \in [Run -> Nat]
         /\ \E n \in Run :
              /\ pc[n] = "absent" /\ pc'[n] = "queued" /\ wait'[n] = due
              /\ \A m \in Run \ {n} : pc'[m] = states[m] /\ wait'[m] = times[m]
<1>1. PICK n \in Run : /\ pc[n] = "absent"
                       /\ pc' = [states EXCEPT ![n] = "queued"]
                       /\ wait' = [times EXCEPT ![n] = due]
  BY DEF EnqueueRun
<1>2. QED
  BY <1>1 DEF State

(* The two requests for a run at once, in these terms.                     *)
LEMMA NewRunNow ==
  ASSUME TypeOK, EnqueueNow
  PROVE  /\ pc' \in [Run -> State] /\ wait' \in [Run -> Nat] /\ extra' \in Nat
         /\ \/ Pending = {} /\ extra' = extra
            \/ extra' = extra + 1
         /\ \E n \in Run :
              /\ pc[n] = "absent" /\ pc'[n] = "queued"
              /\ \A m \in Run \ {n} : pc'[m] = pc[m] /\ wait'[m] = wait[m]
<1>1. pc \in [Run -> State] /\ wait \in [Run -> Nat] /\ 0 \in Nat /\ extra \in Nat
  BY DEF TypeOK, State
<1>2. EnqueueRun(pc, wait, 0)
  BY DEF EnqueueNow
<1>3. /\ pc' \in [Run -> State] /\ wait' \in [Run -> Nat]
      /\ \E n \in Run :
           /\ pc[n] = "absent" /\ pc'[n] = "queued"
           /\ \A m \in Run \ {n} : pc'[m] = pc[m] /\ wait'[m] = wait[m]
  BY <1>1, <1>2, NewRun
<1>4. QED
  BY <1>1, <1>3 DEF EnqueueNow

(* A run that schedules its successor, likewise.                           *)
LEMMA NextRun ==
  ASSUME TypeOK, NEW r \in Run, Schedule(r)
  PROVE  /\ pc' \in [Run -> State] /\ wait' \in [Run -> Nat]
         /\ pc[r] = "committed" /\ pc'[r] = "fanout"
         /\ \E n \in Run \ {r} :
              /\ pc[n] = "absent" /\ pc'[n] = "queued" /\ wait'[n] = wait[r]
              /\ \A m \in Run \ {n, r} : pc'[m] = pc[m] /\ wait'[m] = wait[m]
         /\ UNCHANGED <<ahead, extra, envVars>>
<1> DEFINE states == [pc EXCEPT ![r] = "fanout"]
           times == [wait EXCEPT ![r] = 0]
<1>1. /\ states \in [Run -> State] /\ times \in [Run -> Nat] /\ wait[r] \in Nat
      /\ \A m \in Run : pc[m] = "absent" => states[m] = "absent"
  BY DEF TypeOK, State, Schedule
<1>2. /\ states[r] = "fanout"
      /\ \A m \in Run \ {r} : states[m] = pc[m] /\ times[m] = wait[m]
  BY DEF TypeOK
<1>3. /\ pc[r] = "committed" /\ EnqueueRun(states, times, wait[r])
      /\ UNCHANGED <<ahead, extra, envVars>>
  BY DEF Schedule
<1> HIDE DEF states, times
<1>4. /\ pc' \in [Run -> State] /\ wait' \in [Run -> Nat]
      /\ \E n \in Run :
           /\ pc[n] = "absent" /\ pc'[n] = "queued" /\ wait'[n] = wait[r]
           /\ \A m \in Run \ {n} : pc'[m] = states[m] /\ wait'[m] = times[m]
  BY <1>1, <1>3, NewRun
<1>5. QED
  BY <1>2, <1>3, <1>4

LEMMA TypeStep == ASSUME TypeOK, [Next]_vars PROVE TypeOK'
<1> USE DEF TypeOK, Goto, envVars
<1>1. TypeOK
  OBVIOUS
<1>2. ASSUME NEW r \in Run, Skip(r) PROVE TypeOK'
  BY <1>1, <1>2 DEF Skip
<1>3. ASSUME NEW r \in Run, Begin(r) PROVE TypeOK'
  BY <1>1, <1>3 DEF Begin
<1>4. ASSUME NEW r \in Run, Commit(r) PROVE TypeOK'
  BY <1>1, <1>4, TimeAssumption DEF Commit
<1>5. ASSUME NEW r \in Run, Schedule(r) PROVE TypeOK'
  BY <1>1, <1>5, NextRun DEF State
<1>6. ASSUME NEW r \in Run, Finish(r) PROVE TypeOK'
  BY <1>1, <1>6 DEF Finish
<1>7. ASSUME FirstRun PROVE TypeOK'
  BY <1>1, <1>7, NewRunNow DEF FirstRun, State
<1>8. ASSUME SweepEnqueue PROVE TypeOK'
  BY <1>1, <1>8, NewRunNow DEF SweepEnqueue, State
<1>9. ASSUME Pause \/ Resume \/ SweepRead \/ LoseRequest PROVE TypeOK'
  <2>1. active' \in BOOLEAN /\ request' \in BOOLEAN /\ picked' \in BOOLEAN
    BY <1>1, <1>9, Zenon DEF Pause, Resume, SweepRead, LoseRequest
  <2>2. /\ UNCHANGED <<ahead, pc, wait, extra>>
        /\ interrupts' \in {interrupts, interrupts + 1}
    BY <1>9 DEF Pause, Resume, SweepRead, LoseRequest, Interrupt
  <2>3. QED
    BY <1>1, <2>1, <2>2
<1>10. ASSUME Tick PROVE TypeOK'
  BY <1>1, <1>10, TimeAssumption DEF Tick, Nearer, Floor
<1>11. ASSUME NEW r \in Run, LoseRun(r) PROVE TypeOK'
  BY <1>1, <1>11 DEF LoseRun, Interrupt
<1>12. ASSUME WorkerCrash PROVE TypeOK'
  <2>1. IsFiniteSet({r \in Run : pc[r] = "fanout"})
    BY RunAssumption, FS_Subset
  <2>2. Cardinality({r \in Run : pc[r] = "fanout"}) \in Nat
    BY <2>1, FS_CardinalityType
  <2>3. active' \in BOOLEAN /\ request' \in BOOLEAN /\ picked' \in BOOLEAN
    BY <1>1, <1>12, Zenon DEF WorkerCrash
  <2>4. ahead' \in Int /\ extra' \in Nat /\ interrupts' \in Nat
    BY <1>1, <1>12, <2>2 DEF WorkerCrash, Interrupt
  <2>5. /\ pc' \in [Run -> {"absent", "queued", "search", "committed", "fanout"}]
        /\ wait' \in [Run -> Nat]
    BY <1>1, <1>12 DEF WorkerCrash
  <2>6. QED
    BY <2>3, <2>4, <2>5
<1>13. ASSUME UNCHANGED vars PROVE TypeOK'
  BY <1>1, <1>13 DEF vars
<1>14. QED
  BY <1>2, <1>3, <1>4, <1>5, <1>6, <1>7, <1>8, <1>9, <1>10, <1>11, <1>12, <1>13
  DEF Next, Step

(* The row, the runs and the requests keep their shape: TypeOK.            *)
THEOREM TypeCorrect == Spec => []TypeOK
<1>1. QED
  BY TypeInit, TypeStep, PTL DEF Spec

-----------------------------------------------------------------------------
(* The chains *)

LEMMA PendingFinite ==
  IsFiniteSet(Pending) /\ Cardinality(Pending) \in Nat
<1>1. IsFiniteSet(Pending)
  BY RunAssumption, FS_Subset DEF Pending
<1>2. QED
  BY <1>1, FS_CardinalityType

(* A step that makes nothing pending makes no more of it.                  *)
LEMMA NoMore ==
  ASSUME ChainsAccounted, TypeOK, Pending' \subseteq Pending, extra' = extra
  PROVE  ChainsAccounted'
<1>1. Cardinality(Pending') <= Cardinality(Pending) /\ Cardinality(Pending') \in Nat
  BY PendingFinite, FS_Subset, FS_CardinalityType
<1>2. QED
  BY <1>1, PendingFinite DEF ChainsAccounted, TypeOK

LEMMA OneMoreNow == ASSUME TypeOK, ChainsAccounted, EnqueueNow PROVE ChainsAccounted'
<1>1. PICK n \in Run : /\ pc[n] = "absent" /\ pc'[n] = "queued"
                       /\ \A m \in Run \ {n} : pc'[m] = pc[m] /\ wait'[m] = wait[m]
  BY NewRunNow
<1>2. Pending' = Pending \cup {n} /\ n \notin Pending
  BY <1>1 DEF Pending
<1>3. Cardinality(Pending') = Cardinality(Pending) + 1
  BY <1>2, PendingFinite, FS_AddElement
<1>4. Pending = {} => Cardinality(Pending) = 0
  BY FS_EmptySet
<1>5. QED
  BY <1>3, <1>4, PendingFinite, NewRunNow DEF ChainsAccounted, TypeOK

LEMMA ChainsInit == Init => ChainsAccounted
<1>1. SUFFICES ASSUME Init PROVE ChainsAccounted
  OBVIOUS
<1>2. Pending = {} /\ extra = 0
  BY <1>1 DEF Init, Pending
<1>3. QED
  BY <1>2, FS_EmptySet DEF ChainsAccounted

LEMMA ChainsStep == ASSUME TypeOK, ChainsAccounted, [Next]_vars PROVE ChainsAccounted'
<1>1. ASSUME NEW r \in Run, Skip(r) \/ Begin(r) \/ Commit(r) \/ Finish(r) \/ LoseRun(r)
      PROVE  ChainsAccounted'
  <2>1. Pending' \subseteq Pending /\ extra' = extra
    BY <1>1 DEF TypeOK, Pending, Goto, Skip, Begin, Commit, Finish, LoseRun
  <2>2. QED
    BY <2>1, NoMore
<1>2. ASSUME NEW r \in Run, Schedule(r) PROVE ChainsAccounted'
  <2>1. PICK n \in Run \ {r} :
               /\ pc[n] = "absent" /\ pc'[n] = "queued" /\ wait'[n] = wait[r]
               /\ \A m \in Run \ {n, r} : pc'[m] = pc[m] /\ wait'[m] = wait[m]
    BY <1>2, NextRun
  <2>2. pc[r] = "committed" /\ pc'[r] = "fanout" /\ extra' = extra
    BY <1>2, NextRun
  <2>3. /\ Pending' = (Pending \ {r}) \cup {n}
        /\ r \in Pending /\ n \notin Pending \ {r}
    BY <2>1, <2>2 DEF Pending
  <2>4. /\ IsFiniteSet(Pending \ {r})
        /\ Cardinality(Pending \ {r}) = Cardinality(Pending) - 1
    BY <2>3, PendingFinite, FS_RemoveElement
  <2>5. Cardinality(Pending') = Cardinality(Pending \ {r}) + 1
    BY <2>3, <2>4, FS_AddElement
  <2>6. QED
    BY <2>2, <2>4, <2>5, PendingFinite DEF ChainsAccounted
<1>3. ASSUME FirstRun \/ SweepEnqueue PROVE ChainsAccounted'
  BY <1>3, OneMoreNow DEF FirstRun, SweepEnqueue
<1>4. ASSUME Pause \/ Resume \/ SweepRead \/ Tick \/ LoseRequest \/ UNCHANGED vars
      PROVE  ChainsAccounted'
  <2>1. Pending' \subseteq Pending /\ extra' = extra
    BY <1>4 DEF Pending, Pause, Resume, SweepRead, Tick, LoseRequest, envVars, vars
  <2>2. QED
    BY <2>1, NoMore
<1>5. ASSUME WorkerCrash PROVE ChainsAccounted'
  <2> DEFINE F == {r \in Run : pc[r] = "fanout"}
  <2>1. Pending' = Pending \cup F /\ Pending \cap F = {}
    BY <1>5 DEF TypeOK, WorkerCrash, Pending, InWorker
  <2>2. IsFiniteSet(F) /\ Cardinality(F) \in Nat
    BY RunAssumption, FS_Subset, FS_CardinalityType
  <2>3. Cardinality(Pending') = Cardinality(Pending) + Cardinality(F)
    <3>1. /\ Cardinality(Pending \cup F)
               = Cardinality(Pending) + Cardinality(F) - Cardinality(Pending \cap F)
          /\ Cardinality(Pending \cap F) = 0
      BY <2>1, <2>2, PendingFinite, FS_Union, FS_EmptySet
    <3>2. QED
      BY <2>1, <2>2, <3>1, PendingFinite
  <2>4. extra' = extra + Cardinality(F)
    BY <1>5 DEF WorkerCrash
  <2>5. QED
    BY <2>2, <2>3, <2>4, PendingFinite DEF ChainsAccounted, TypeOK
<1>6. QED
  BY <1>1, <1>2, <1>3, <1>4, <1>5 DEF Next, Step

(* One chain, and one more for each run started beside a pending one:      *)
(* ChainsAccounted.                                                        *)
THEOREM ChainsCounted == Spec => []ChainsAccounted
<1>1. QED
  BY TypeInit, TypeStep, ChainsInit, ChainsStep, PTL DEF Spec

-----------------------------------------------------------------------------
(* The row and the queue *)

(* A run that will start, or has yet to be enqueued, at next_poll_at.      *)
Promised(r) == pc[r] \in {"queued", "committed"} /\ wait[r] = ahead

LEMMA RowStep == ASSUME TypeOK, RowMatchesQueue, [Next]_vars PROVE RowMatchesQueue'
<1> USE DEF TypeOK
<1>1. SUFFICES ASSUME interrupts' = 0, ahead' > 0
               PROVE  \E r \in Run : Promised(r)'
  BY DEF RowMatchesQueue, Promised
<1>2. ASSUME interrupts = 0, ahead > 0
      PROVE  \E r \in Run : Promised(r)
  BY <1>2 DEF RowMatchesQueue, Promised
<1>3. ASSUME NEW r \in Run, Skip(r) \/ Begin(r) \/ Finish(r) PROVE \E k \in Run : Promised(k)'
  BY <1>1, <1>2, <1>3 DEF Promised, Skip, Begin, Finish, Goto, envVars
<1>4. ASSUME NEW r \in Run, Commit(r) PROVE \E k \in Run : Promised(k)'
  BY <1>4 DEF Promised, Commit, Goto
<1>5. ASSUME NEW r \in Run, Schedule(r) PROVE \E k \in Run : Promised(k)'
  <2>1. PICK n \in Run \ {r} :
               /\ pc[n] = "absent" /\ pc'[n] = "queued" /\ wait'[n] = wait[r]
               /\ \A m \in Run \ {n, r} : pc'[m] = pc[m] /\ wait'[m] = wait[m]
    BY <1>5, NextRun
  <2>2. ahead' = ahead /\ interrupts' = interrupts
    BY <1>5, NextRun DEF envVars
  <2>3. PICK k \in Run : Promised(k)
    BY <1>1, <1>2, <2>2
  <2>4. CASE k = r
    BY <2>1, <2>2, <2>3, <2>4 DEF Promised
  <2>5. CASE k # r
    BY <2>1, <2>2, <2>3, <2>5 DEF Promised
  <2>6. QED
    BY <2>4, <2>5
<1>6. ASSUME FirstRun \/ SweepEnqueue PROVE \E k \in Run : Promised(k)'
  <2>1. PICK n \in Run : /\ pc[n] = "absent" /\ pc'[n] = "queued"
                         /\ \A m \in Run \ {n} : pc'[m] = pc[m] /\ wait'[m] = wait[m]
    BY <1>6, NewRunNow DEF FirstRun, SweepEnqueue
  <2>2. ahead' = ahead /\ interrupts' = interrupts
    BY <1>6 DEF FirstRun, SweepEnqueue
  <2>3. QED
    BY <1>1, <1>2, <2>1, <2>2 DEF Promised
<1>7. ASSUME Pause \/ Resume \/ SweepRead \/ UNCHANGED vars PROVE \E k \in Run : Promised(k)'
  BY <1>1, <1>2, <1>7 DEF Promised, Pause, Resume, SweepRead, vars
<1>8. ASSUME Tick PROVE \E k \in Run : Promised(k)'
  <2>1. /\ interrupts' = interrupts /\ pc' = pc
        /\ ahead' = Nearer(ahead, Floor)
        /\ \A k \in Run : wait'[k] = Nearer(wait[k], 0)
    BY <1>8 DEF Tick, envVars
  <2>2. ahead > 0 /\ ahead' = ahead - 1
    BY <1>1, <2>1, TimeAssumption DEF Nearer, Floor
  <2>3. PICK k \in Run : Promised(k)
    BY <1>1, <1>2, <2>1, <2>2
  <2>4. wait'[k] = wait[k] - 1
    BY <2>1, <2>2, <2>3 DEF Promised, Nearer
  <2>5. QED
    BY <2>1, <2>2, <2>3, <2>4 DEF Promised
<1>9. ~WorkerCrash /\ ~LoseRequest /\ ~\E r \in Run : LoseRun(r)
  BY <1>1 DEF WorkerCrash, LoseRequest, LoseRun, Interrupt
<1>10. QED
  BY <1>3, <1>4, <1>5, <1>6, <1>7, <1>8, <1>9 DEF Next, Step

(* The sweep and the queue agree on the next run: RowMatchesQueue.         *)
THEOREM RowAgrees == Spec => []RowMatchesQueue
<1>1. Init => RowMatchesQueue
  BY DEF Init, RowMatchesQueue
<1>2. QED
  BY <1>1, TypeInit, TypeStep, RowStep, PTL DEF Spec
=============================================================================
