----------------------------- MODULE AbortProofs ----------------------------
(***************************************************************************)
(* Proofs about Abort, for every number of jobs and of requests.           *)
(***************************************************************************)
EXTENDS Abort, TLAPS

(* What a request that has read the set knows of it: until it has marked   *)
(* them, the ids in the set are those it has read and those that came      *)
(* after; from then on a job in the set that is live came after, or can be *)
(* reached otherwise.                                                      *)
ReadAll(q) == abort[q] = "mark" => tracked \subseteq listed[q] \cup late[q]
MarkedAll(q) == abort[q] = "delete" =>
  tracked \cap live \subseteq late[q] \cup marks \cup {fresh} \cup strays

IInv == /\ TypeOK /\ LiveJobReachable
        /\ \A q \in Request : ReadAll(q) /\ MarkedAll(q)

-----------------------------------------------------------------------------
(* An abort request and the set are in step at the start. *)
LEMMA InitIInv == Init => IInv
<1> SUFFICES ASSUME Init PROVE IInv
  OBVIOUS
<1>1. TypeOK /\ LiveJobReachable
  BY DEF Init, TypeOK, LiveJobReachable
<1>2. ASSUME NEW q \in Request PROVE abort[q] = "idle"
  BY DEF Init
<1> QED
  BY <1>1, <1>2 DEF IInv, ReadAll, MarkedAll

(* The fan-out of process_market keeps the invariant. *)
LEMMA FanoutStep ==
  ASSUME IInv, Search \/ Searched \/ Register \/ (\E j \in Job : Enqueue(j))
  PROVE  IInv'
<1> USE DEF IInv, TypeOK, LiveJobReachable, ReadAll, MarkedAll, redisVars, apiVars
<1>1. CASE Search
  BY <1>1 DEF Search
<1>2. CASE Searched
  BY <1>2 DEF Searched
<1>3. CASE Register
  <2>1. fresh \in Job
    BY <1>3 DEF Register
  <2>2. TypeOK'
    BY <1>3, <2>1 DEF Register
  <2>3. LiveJobReachable'
    BY <1>3 DEF Register
  <2>4. ASSUME NEW q \in Request PROVE ReadAll(q)' /\ MarkedAll(q)'
    <3>1. abort[q] \in {"mark", "delete"} => late'[q] = late[q] \cup {fresh}
      BY <1>3 DEF Register
    <3>2. ReadAll(q) /\ MarkedAll(q)
      OBVIOUS
    <3> QED
      BY <1>3, <3>1, <3>2 DEF Register
  <2> QED
    BY <2>2, <2>3, <2>4
<1>4. ASSUME NEW j \in Job, Enqueue(j) PROVE IInv'
  <2>1. fresh \notin live
    BY <1>4, JobAssumption DEF Enqueue
  <2>2. live' \subseteq live \cup {j} /\ fresh' = j
    BY <1>4 DEF Enqueue
  <2> QED
    BY <1>4, <2>1, <2>2 DEF Enqueue
<1> QED
  BY <1>1, <1>2, <1>3, <1>4

(* So does a job that ends. *)
LEMMA EndStep ==
  ASSUME IInv, NEW j \in Job, Finish(j) \/ Cancel(j)
  PROVE  IInv'
BY DEF Finish, Cancel, End, IInv, TypeOK, LiveJobReachable, ReadAll, MarkedAll, apiVars

(* So does each step of an API request. *)
LEMMA RequestStep ==
  ASSUME IInv, NEW r \in Request, Pause(r) \/ List(r) \/ Mark(r) \/ Delete(r)
  PROVE  IInv'
<1> USE DEF IInv, TypeOK, LiveJobReachable, ReadAll, MarkedAll, redisVars, apiVars
<1>1. CASE Pause(r)
  BY <1>1 DEF Pause
<1>2. CASE List(r)
  <2>1. TypeOK' /\ LiveJobReachable'
    BY <1>2 DEF List
  <2>2. ASSUME NEW q \in Request PROVE ReadAll(q)' /\ MarkedAll(q)'
    BY <1>2 DEF List
  <2> QED
    BY <2>1, <2>2
<1>3. CASE Mark(r)
  <2>1. TypeOK' /\ LiveJobReachable'
    BY <1>3 DEF Mark
  <2>2. ASSUME NEW q \in Request PROVE ReadAll(q)' /\ MarkedAll(q)'
    BY <1>3 DEF Mark
  <2> QED
    BY <2>1, <2>2
<1>4. CASE Delete(r)
  <2>1. TypeOK'
    BY <1>4 DEF Delete, Forget
  <2>2. LiveJobReachable'
    <3>1. MarkedAll(r) /\ abort[r] = "delete"
      BY <1>4 DEF Delete
    <3> QED
      BY <1>4, <3>1 DEF Delete
  <2>3. ASSUME NEW q \in Request PROVE ReadAll(q)' /\ MarkedAll(q)'
    BY <1>4 DEF Delete, Forget
  <2> QED
    BY <2>1, <2>2, <2>3
<1> QED
  BY <1>1, <1>2, <1>3, <1>4

(* So do a reactivation of the market and a crash. *)
LEMMA OtherStep ==
  ASSUME IInv, Resume \/ WorkerCrash \/ ApiCrash
  PROVE  IInv'
<1> USE DEF IInv, TypeOK, LiveJobReachable, ReadAll, MarkedAll, redisVars, apiVars
<1>1. CASE Resume
  BY <1>1 DEF Resume
<1>2. CASE WorkerCrash
  <2>1. /\ fanout' = FALSE /\ fresh' = NoJob /\ interrupts' \in Nat
        /\ strays' = strays \cup ({fresh} \cap live)
        /\ UNCHANGED <<active, live, tracked, marks, abort, listed, late>>
    BY <1>2 DEF WorkerCrash, Interrupt
  <2>2. TypeOK'
    BY <2>1
  <2>3. LiveJobReachable'
    BY <2>1
  <2>4. ASSUME NEW q \in Request PROVE ReadAll(q)' /\ MarkedAll(q)'
    BY <2>1
  <2> QED
    BY <2>2, <2>3, <2>4
<1>3. CASE ApiCrash
  <2>1. TypeOK'
    BY <1>3 DEF ApiCrash, Interrupt
  <2>2. LiveJobReachable'
    BY <1>3 DEF ApiCrash
  <2>3. ASSUME NEW q \in Request PROVE abort'[q] = "idle"
    BY <1>3 DEF ApiCrash
  <2> QED
    BY <2>1, <2>2, <2>3
<1> QED
  BY <1>1, <1>2, <1>3

(* The invariant is inductive. *)
LEMMA StepIInv == IInv /\ [Next]_vars => IInv'
<1> SUFFICES ASSUME IInv, [Next]_vars PROVE IInv'
  OBVIOUS
<1>1. CASE Next
  BY <1>1, FanoutStep, EndStep, RequestStep, OtherStep DEF Next
<1>2. CASE UNCHANGED vars
  BY <1>2 DEF vars, IInv, TypeOK, LiveJobReachable, ReadAll, MarkedAll
<1> QED
  BY <1>1, <1>2

(* In every behaviour the market's jobs, Redis and the requests have the   *)
(* shape they should.                                                      *)
THEOREM TypeCorrect == Spec => []TypeOK
<1>1. IInv => TypeOK
  BY DEF IInv
<1> QED
  BY <1>1, InitIInv, StepIInv, PTL DEF Spec

(* In every behaviour, however fan-outs and aborts overlap, an abort can   *)
(* reach a job that is queued or runs, but for the two exceptions that     *)
(* LiveJobReachable names.                                                 *)
THEOREM Reachable == Spec => []LiveJobReachable
<1>1. IInv => LiveJobReachable
  BY DEF IInv
<1> QED
  BY <1>1, InitIInv, StepIInv, PTL DEF Spec
=============================================================================
