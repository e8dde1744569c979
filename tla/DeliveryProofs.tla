--------------------------- MODULE DeliveryProofs ---------------------------
(***************************************************************************)
(* Delivery: type correctness and the safety properties, for any logs,     *)
(* dates, settings and number of interrupts.                               *)
(***************************************************************************)
EXTENDS Delivery, TLAPS, SequenceTheorems, FiniteSetTheorems

(* The newest date of a log is the date of one of its articles. *)
LEMMA Dated == ASSUME NEW l \in Log
               PROVE /\ Article(l) \subseteq Nat
                     /\ \A i \in Article(l) : Dates[l][i] \in Nat
                     /\ Newest(l) \in Date(l)
                     /\ Newest(l) \in Nat
                     /\ \A i \in Article(l) : Dates[l][i] <= Newest(l)
<1>1. Dates[l] \in Seq(Nat) /\ Dates[l] # << >>
  BY DatesAssumption
<1>2. Article(l) = 1 .. Len(Dates[l]) /\ Len(Dates[l]) \in Nat \ {0}
  BY <1>1 DEF Article
<1>3. \A i \in Article(l) : Dates[l][i] \in Nat
  BY <1>1, <1>2
<1>4. \A i \in Article(l) : Dates[l][i] <= Dates[l][1]
  <2>1. 1 \in Article(l)
    BY <1>2
  <2>2. TAKE i \in Article(l)
  <2>3. CASE i = 1
    BY <1>3, <2>3
  <2>4. CASE i # 1
    BY <1>2, <1>3, <2>1, <2>4, DatesAssumption DEF Article
  <2>5. QED
    BY <2>3, <2>4
<1>5. \E d \in {Dates[l][i] : i \in Article(l)} : \A i \in Article(l) : Dates[l][i] <= d
  <2>1. Dates[l][1] \in {Dates[l][i] : i \in Article(l)}
    BY <1>2
  <2>2. QED
    BY <1>4, <2>1
<1>6. Newest(l) \in Date(l) /\ \A i \in Article(l) : Dates[l][i] <= Newest(l)
  BY <1>5 DEF Newest, Date
<1>7. QED
  BY <1>2, <1>3, <1>6 DEF Date

LEMMA DatesAreNat == 0 \in AllDates /\ AllDates \subseteq Nat /\ \A l \in Log : Newest(l) \in AllDates
BY Dated DEF AllDates, Date

-----------------------------------------------------------------------------
(* Type correctness *)

LEMMA TypeInit == Init => TypeOK
BY DatesAreNat DEF Init, TypeOK, JobState, Running

(* A failed call adds at most one to the counts of that call, and leaves   *)
(* those of the others.                                                    *)
LEMMA OneMoreUnheard ==
  ASSUME TypeOK, NEW l \in Log, NEW c \in Call(l), NEW taken \in {0, 1},
         unheard' = [unheard EXCEPT ![l][c] = @ + taken]
  PROVE  /\ DOMAIN unheard' = Log
         /\ \A k \in Log : unheard'[k] \in [Call(k) -> Nat]
         /\ unheard'[l][c] = unheard[l][c] + taken
         /\ \A d \in Call(l) \ {c} : unheard'[l][d] = unheard[l][d]
         /\ \A k \in Log \ {l} : unheard'[k] = unheard[k]
<1>1. DOMAIN unheard = Log /\ \A k \in Log : unheard[k] \in [Call(k) -> Nat]
  BY DEF TypeOK
<1>2. /\ DOMAIN unheard' = Log
      /\ unheard'[l] = [unheard[l] EXCEPT ![c] = @ + taken]
      /\ \A k \in Log \ {l} : unheard'[k] = unheard[k]
  BY <1>1
<1>3. unheard'[l] \in [Call(l) -> Nat] /\ unheard'[l][c] = unheard[l][c] + taken
  BY <1>1, <1>2
<1>4. QED
  BY <1>1, <1>2, <1>3

LEMMA OneMoreMessage ==
  ASSUME TypeOK, NEW l \in Log, NEW i \in Article(l), NEW taken \in {0, 1},
         messages' = [messages EXCEPT ![l][i] = @ + taken]
  PROVE  /\ DOMAIN messages' = Log
         /\ \A k \in Log : messages'[k] \in [Article(k) -> Nat]
         /\ messages'[l][i] = messages[l][i] + taken
         /\ \A j \in Article(l) \ {i} : messages'[l][j] = messages[l][j]
         /\ \A k \in Log \ {l} : messages'[k] = messages[k]
<1>1. DOMAIN messages = Log /\ \A k \in Log : messages[k] \in [Article(k) -> Nat]
  BY DEF TypeOK
<1>2. /\ DOMAIN messages' = Log
      /\ messages'[l] = [messages[l] EXCEPT ![i] = @ + taken]
      /\ \A k \in Log \ {l} : messages'[k] = messages[k]
  BY <1>1
<1>3. messages'[l] \in [Article(l) -> Nat] /\ messages'[l][i] = messages[l][i] + taken
  BY <1>1, <1>2
<1>4. QED
  BY <1>1, <1>2, <1>3

LEMMA TypeStep == ASSUME TypeOK, [Next]_vars PROVE TypeOK'
<1>1. TypeOK
  OBVIOUS
<1> USE DEF Goto, rowVars, memVars, outVars, envVars, TypeOK, JobState,
   Running
<1>2. ASSUME NEW l \in Log, Skip(l) PROVE TypeOK'
  BY <1>1, <1>2, Dated, DatesAreNat DEF Skip, Skips
<1>3. ASSUME NEW l \in Log, Begin(l) PROVE TypeOK'
  BY <1>1, <1>3, Dated, DatesAreNat DEF Begin, Skips
<1>4. ASSUME NEW l \in Log, PostOk(l) PROVE TypeOK'
  BY <1>1, <1>4, Dated, DatesAreNat DEF PostOk
<1>5. ASSUME NEW l \in Log, PostFails(l) PROVE TypeOK'
  <2>1. PICK taken \in {0, 1} : /\ posts' = [posts EXCEPT ![l] = @ + taken]
                                /\ unheard' = [unheard EXCEPT ![l][0] = @ + taken]
    BY <1>5 DEF PostFails
  <2>2. DOMAIN unheard' = Log /\ \A k \in Log : unheard'[k] \in [Call(k) -> Nat]
    <3>1. 0 \in Call(l)
      BY DEF Call
    <3>2. QED
      BY <1>1, <2>1, <3>1, OneMoreUnheard
  <2>3. posts' \in [Log -> Nat]
    BY <1>1, <2>1
  <2>4. QED
    BY <1>1, <1>5, <2>2, <2>3, DatesAreNat DEF PostFails, Fail, Exhausted, Forget
<1>6. ASSUME NEW l \in Log, CommitWebhook(l) PROVE TypeOK'
  BY <1>1, <1>6, Dated, DatesAreNat DEF CommitWebhook
<1>7. ASSUME NEW l \in Log, SendOk(l) PROVE TypeOK'
  BY <1>1, <1>7, Dated, DatesAreNat DEF SendOk
<1>8. ASSUME NEW l \in Log, SendFails(l) PROVE TypeOK'
  <2>1. PICK i \in Article(l), taken \in {0, 1} :
               /\ messages' = [messages EXCEPT ![l][i] = @ + taken]
               /\ unheard' = [unheard EXCEPT ![l][i] = @ + taken]
    BY <1>8 DEF SendFails
  <2>2. DOMAIN unheard' = Log /\ \A k \in Log : unheard'[k] \in [Call(k) -> Nat]
    <3>1. i \in Call(l)
      BY DEF Call
    <3>2. QED
      BY <1>1, <2>1, <3>1, OneMoreUnheard
  <2>3. DOMAIN messages' = Log /\ \A k \in Log : messages'[k] \in [Article(k) -> Nat]
    BY <1>1, <2>1, OneMoreMessage
  <2>4. QED
    BY <1>1, <1>8, <2>2, <2>3, DatesAreNat DEF SendFails, Fail, Exhausted, Forget
<1>9. ASSUME NEW l \in Log, CommitSend(l) PROVE TypeOK'
  BY <1>1, <1>9, Dated, DatesAreNat DEF CommitSend
<1>10. ASSUME NEW l \in Log, Complete(l) PROVE TypeOK'
  BY <1>1, <1>10, Dated, DatesAreNat DEF Complete, Forget
<1>11. ASSUME NEW l \in Log, Finish(l) PROVE TypeOK'
  BY <1>1, <1>11, Dated, DatesAreNat DEF Finish
<1>12. ASSUME NEW l \in Log, Expire(l) PROVE TypeOK'
  BY <1>1, <1>12, Dated, DatesAreNat DEF Expire
<1>13. ASSUME NEW l \in Log, SweepRead(l) PROVE TypeOK'
  BY <1>1, <1>13, Dated, DatesAreNat DEF SweepRead, Stuck
<1>14. ASSUME NEW l \in Log, SweepEnqueue(l) PROVE TypeOK'
  BY <1>1, <1>14, Dated, DatesAreNat DEF SweepEnqueue
<1>15. ASSUME NEW l \in Log, LoseJob(l) PROVE TypeOK'
  BY <1>1, <1>15, Dated, DatesAreNat DEF LoseJob, Interrupt, Forget
<1>16. ASSUME NEW l \in Log, EvictJob(l) PROVE TypeOK'
  BY <1>1, <1>16, Dated, DatesAreNat DEF EvictJob, Interrupt
<1>17. ASSUME Pause PROVE TypeOK'
  BY <1>1, <1>17, Dated, DatesAreNat DEF Pause
<1>18. ASSUME Resume PROVE TypeOK'
  BY <1>1, <1>18, Dated, DatesAreNat DEF Resume
<1>19. ASSUME WorkerCrash PROVE TypeOK'
  BY <1>1, <1>19, Dated, DatesAreNat DEF WorkerCrash, Interrupt
<1>20. ASSUME UNCHANGED vars PROVE TypeOK'
  BY <1>1, <1>20 DEF vars
<1>21. ASSUME NEW l \in Log, Raises(l) PROVE TypeOK'
  BY <1>1, <1>21, Dated, DatesAreNat DEF Raises, Forget
<1>q. QED
  BY <1>2, <1>3, <1>4, <1>5, <1>6, <1>7, <1>8, <1>9, <1>10, <1>11, <1>12,
     <1>13, <1>14, <1>15, <1>16, <1>17, <1>18, <1>19, <1>20,
     <1>21 DEF Next, Job, Sweep

(* Every reachable state has the shape the schema and the queue give it:   *)
(* TypeOK.                                                                 *)
THEOREM TypeCorrect == Spec => []TypeOK
<1>1. QED
  BY TypeInit, TypeStep, PTL DEF Spec

-----------------------------------------------------------------------------
(* What a receiver accepted and what the log says it accepted *)

AtWork == {"webhook", "posted", "telegram", "told"}

(* Progress is committed before the job goes on, so a log never claims a   *)
(* channel that did not accept it, and it claims articles in their order.  *)
ChannelInv == \A l \in Log :
  /\ webhook[l] => posts[l] >= 1
  /\ pc[l] = "posted" => posts[l] >= 1
  /\ pc[l] \in {"webhook", "posted"} => ~webhook[l]
  /\ pc[l] \in {"telegram", "told"} => webhook[l]
  /\ status[l] = "success" => webhook[l] /\ AllChannels(l) /\ pc[l] \notin AtWork

OrderInv == \A l \in Log :
  /\ \A i \in sent[l] : messages[l][i] >= 1
  /\ \A i \in sent[l], j \in Article(l) : j < i => j \in sent[l]
  /\ \A i \in Article(l) : messages[l][i] > 0 =>
        webhook[l] /\ \A j \in Article(l) : j < i => j \in sent[l]
  /\ pc[l] = "told" => \A i \in Article(l) : NextUnsent(l, i) => messages[l][i] >= 1

LEMMA ChannelInit == Init => ChannelInv
BY DEF Init, ChannelInv, AtWork

LEMMA ChannelStep == ASSUME TypeOK, ChannelInv, [Next]_vars PROVE ChannelInv'
<1>1. TypeOK /\ ChannelInv
  OBVIOUS
<1> USE DEF Goto, rowVars, memVars, outVars, envVars, TypeOK, JobState,
   Running, ChannelInv, AtWork, AllChannels, Unsent
<1>2. ASSUME NEW l \in Log, Skip(l) PROVE ChannelInv'
  BY <1>1, <1>2, Dated DEF Skip, Skips
<1>3. ASSUME NEW l \in Log, Begin(l) PROVE ChannelInv'
  BY <1>1, <1>3, Dated DEF Begin, Skips
<1>4. ASSUME NEW l \in Log, PostOk(l) PROVE ChannelInv'
  BY <1>1, <1>4, Dated DEF PostOk
<1>5. ASSUME NEW l \in Log, PostFails(l) PROVE ChannelInv'
  BY <1>1, <1>5, Dated DEF PostFails, Fail, Exhausted, Forget
<1>6. ASSUME NEW l \in Log, CommitWebhook(l) PROVE ChannelInv'
  BY <1>1, <1>6, Dated DEF CommitWebhook
<1>7. ASSUME NEW l \in Log, SendOk(l) PROVE ChannelInv'
  BY <1>1, <1>7, Dated DEF SendOk
<1>8. ASSUME NEW l \in Log, SendFails(l) PROVE ChannelInv'
  BY <1>1, <1>8, Dated DEF SendFails, Fail, Exhausted, Forget
<1>9. ASSUME NEW l \in Log, CommitSend(l) PROVE ChannelInv'
  BY <1>1, <1>9, Dated DEF CommitSend
<1>10. ASSUME NEW l \in Log, Complete(l) PROVE ChannelInv'
  BY <1>1, <1>10, Dated DEF Complete, Forget
<1>11. ASSUME NEW l \in Log, Finish(l) PROVE ChannelInv'
  BY <1>1, <1>11, Dated DEF Finish
<1>12. ASSUME NEW l \in Log, Expire(l) PROVE ChannelInv'
  BY <1>1, <1>12, Dated DEF Expire
<1>13. ASSUME NEW l \in Log, SweepRead(l) PROVE ChannelInv'
  BY <1>1, <1>13, Dated DEF SweepRead, Stuck
<1>14. ASSUME NEW l \in Log, SweepEnqueue(l) PROVE ChannelInv'
  BY <1>1, <1>14, Dated DEF SweepEnqueue
<1>15. ASSUME NEW l \in Log, LoseJob(l) PROVE ChannelInv'
  BY <1>1, <1>15, Dated DEF LoseJob, Interrupt, Forget
<1>16. ASSUME NEW l \in Log, EvictJob(l) PROVE ChannelInv'
  BY <1>1, <1>16, Dated DEF EvictJob, Interrupt
<1>17. ASSUME Pause PROVE ChannelInv'
  BY <1>1, <1>17, Dated DEF Pause
<1>18. ASSUME Resume PROVE ChannelInv'
  BY <1>1, <1>18, Dated DEF Resume
<1>19. ASSUME WorkerCrash PROVE ChannelInv'
  BY <1>1, <1>19, Dated DEF WorkerCrash, Interrupt
<1>20. ASSUME UNCHANGED vars PROVE ChannelInv'
  BY <1>1, <1>20 DEF vars
<1>21. ASSUME NEW l \in Log, Raises(l) PROVE ChannelInv'
  BY <1>1, <1>21, Dated DEF Raises, Forget
<1>q. QED
  BY <1>2, <1>3, <1>4, <1>5, <1>6, <1>7, <1>8, <1>9, <1>10, <1>11, <1>12,
     <1>13, <1>14, <1>15, <1>16, <1>17, <1>18, <1>19, <1>20,
     <1>21 DEF Next, Job, Sweep

(* The Telegram loop has one article to go on with. *)
LEMMA OneNext ==
  ASSUME NEW l \in Log, NEW i \in Article(l), NEW j \in Article(l),
         NextUnsent(l, i), NextUnsent(l, j)
  PROVE  i = j
<1>1. i <= j /\ j <= i
  BY DEF NextUnsent
<1>2. i \in Nat /\ j \in Nat
  BY Dated
<1>3. QED
  BY <1>1, <1>2

LEMMA OrderInit == Init => OrderInv
BY Dated DEF Init, OrderInv

LEMMA OrderStep == ASSUME TypeOK, ChannelInv, OrderInv, [Next]_vars PROVE OrderInv'
<1>1. TypeOK /\ ChannelInv /\ OrderInv
  OBVIOUS
<1> USE DEF Goto, rowVars, memVars, outVars, envVars, TypeOK, JobState,
   Running, ChannelInv, OrderInv, AtWork, NextUnsent, Unsent
<1>2. ASSUME NEW l \in Log, Skip(l) PROVE OrderInv'
  BY <1>1, <1>2, Dated DEF Skip, Skips
<1>3. ASSUME NEW l \in Log, Begin(l) PROVE OrderInv'
  BY <1>1, <1>3, Dated DEF Begin, Skips
<1>4. ASSUME NEW l \in Log, PostOk(l) PROVE OrderInv'
  BY <1>1, <1>4, Dated DEF PostOk
<1>5. ASSUME NEW l \in Log, PostFails(l) PROVE OrderInv'
  BY <1>1, <1>5, Dated DEF PostFails, Fail, Exhausted, Forget
<1>6. ASSUME NEW l \in Log, CommitWebhook(l) PROVE OrderInv'
  BY <1>1, <1>6, Dated DEF CommitWebhook
<1>7. ASSUME NEW l \in Log, SendOk(l) PROVE OrderInv'
  <2>1. PICK i \in Article(l) :
               NextUnsent(l, i) /\ messages' = [messages EXCEPT ![l][i] = @ + 1]
    BY <1>7 DEF SendOk
  <2>2. /\ pc' = [pc EXCEPT ![l] = "told"] /\ pc[l] = "telegram"
        /\ UNCHANGED <<sent, webhook>>
    BY <1>7 DEF SendOk
  <2>3. /\ messages'[l] = [messages[l] EXCEPT ![i] = @ + 1]
        /\ \A k \in Log \ {l} : messages'[k] = messages[k]
    BY <1>1, <2>1
  <2>4. /\ messages'[l][i] = messages[l][i] + 1
        /\ messages[l][i] \in Nat
        /\ \A j \in Article(l) \ {i} : messages'[l][j] = messages[l][j]
    BY <1>1, <2>3
  <2>5. \A j \in Article(l) : j < i => j \in sent[l]
    BY <2>1, Dated
  <2>6. \A j \in Article(l) : messages'[l][j] >= messages[l][j]
    BY <1>1, <2>4
  <2>7. /\ \A j \in sent[l] : messages'[l][j] >= 1
        /\ \A j \in sent[l], k \in Article(l) : k < j => k \in sent[l]
    BY <1>1, <2>4, <2>6
  <2>8. ASSUME NEW j \in Article(l), messages'[l][j] > 0
        PROVE  webhook[l] /\ \A k \in Article(l) : k < j => k \in sent[l]
    BY <1>1, <2>2, <2>4, <2>5, <2>8
  <2>9. \A j \in Article(l) : NextUnsent(l, j) => messages'[l][j] >= 1
    BY <1>1, <2>1, <2>4, OneNext
  <2>10. QED
    BY <1>1, <2>2, <2>3, <2>7, <2>8, <2>9
<1>8. ASSUME NEW l \in Log, SendFails(l) PROVE OrderInv'
  BY <1>1, <1>8, Dated DEF SendFails, Fail, Exhausted, Forget
<1>9. ASSUME NEW l \in Log, CommitSend(l) PROVE OrderInv'
  BY <1>1, <1>9, Dated DEF CommitSend
<1>10. ASSUME NEW l \in Log, Complete(l) PROVE OrderInv'
  BY <1>1, <1>10, Dated DEF Complete, Forget
<1>11. ASSUME NEW l \in Log, Finish(l) PROVE OrderInv'
  BY <1>1, <1>11, Dated DEF Finish
<1>12. ASSUME NEW l \in Log, Expire(l) PROVE OrderInv'
  BY <1>1, <1>12, Dated DEF Expire
<1>13. ASSUME NEW l \in Log, SweepRead(l) PROVE OrderInv'
  BY <1>1, <1>13, Dated DEF SweepRead, Stuck
<1>14. ASSUME NEW l \in Log, SweepEnqueue(l) PROVE OrderInv'
  BY <1>1, <1>14, Dated DEF SweepEnqueue
<1>15. ASSUME NEW l \in Log, LoseJob(l) PROVE OrderInv'
  BY <1>1, <1>15, Dated DEF LoseJob, Interrupt, Forget
<1>16. ASSUME NEW l \in Log, EvictJob(l) PROVE OrderInv'
  BY <1>1, <1>16, Dated DEF EvictJob, Interrupt
<1>17. ASSUME Pause PROVE OrderInv'
  BY <1>1, <1>17, Dated DEF Pause
<1>18. ASSUME Resume PROVE OrderInv'
  BY <1>1, <1>18, Dated DEF Resume
<1>19. ASSUME WorkerCrash PROVE OrderInv'
  BY <1>1, <1>19, Dated DEF WorkerCrash, Interrupt
<1>20. ASSUME UNCHANGED vars PROVE OrderInv'
  BY <1>1, <1>20 DEF vars
<1>21. ASSUME NEW l \in Log, Raises(l) PROVE OrderInv'
  BY <1>1, <1>21, Dated DEF Raises, Forget
<1>q. QED
  BY <1>2, <1>3, <1>4, <1>5, <1>6, <1>7, <1>8, <1>9, <1>10, <1>11, <1>12,
     <1>13, <1>14, <1>15, <1>16, <1>17, <1>18, <1>19, <1>20,
     <1>21 DEF Next, Job, Sweep

LEMMA Channels == Spec => [](TypeOK /\ ChannelInv /\ OrderInv)
<1>1. QED
  BY TypeInit, TypeStep, ChannelInit, ChannelStep, OrderInit, OrderStep, PTL DEF Spec

(* A delivered log was accepted by every channel: SuccessIsComplete.       *)
THEOREM DeliveredEverywhere == Spec => []SuccessIsComplete
<1>1. TypeOK /\ ChannelInv /\ OrderInv => SuccessIsComplete
  BY DEF TypeOK, ChannelInv, OrderInv, SuccessIsComplete, AllChannels, Unsent
<1>2. QED
  BY <1>1, Channels, PTL

(* Telegram comes after the webhook and in the order of the log:           *)
(* TelegramInOrder.                                                        *)
THEOREM InOrder == Spec => []TelegramInOrder
<1>1. TypeOK /\ ChannelInv /\ OrderInv => TelegramInOrder
  <2>1. SUFFICES ASSUME TypeOK, ChannelInv, OrderInv, NEW l \in Log,
                        NEW i \in Article(l), messages[l][i] > 0
                 PROVE  /\ posts[l] >= 1
                        /\ \A j \in Article(l) : j < i => messages[l][j] > 0
    BY DEF TelegramInOrder
  <2>2. webhook[l] /\ \A j \in Article(l) : j < i => j \in sent[l]
    BY <2>1 DEF OrderInv
  <2>3. \A j \in sent[l] : messages[l][j] >= 1 /\ messages[l][j] \in Nat
    BY <2>1 DEF OrderInv, TypeOK
  <2>4. QED
    BY <2>1, <2>2, <2>3 DEF ChannelInv
<1>2. QED
  BY <1>1, Channels, PTL

-----------------------------------------------------------------------------
(* Calls that are repeated *)

(* A call whose answer is committed, or about to be, is the only one that  *)
(* exceeds the number of interrupts and of its unheard answers; and each   *)
(* of these has been paid for with an attempt, the one of a run at work    *)
(* not being spent yet.                                                    *)
RepeatInv == \A l \in Log :
  /\ posts[l] <= 1 + unheard[l][0] + interrupts
  /\ ~webhook[l] /\ pc[l] # "posted" => posts[l] <= unheard[l][0] + interrupts
  /\ \A i \in Article(l) :
       /\ messages[l][i] <= 1 + unheard[l][i] + interrupts
       /\ i \notin sent[l] /\ ~(pc[l] = "told" /\ NextUnsent(l, i))
            => messages[l][i] <= unheard[l][i] + interrupts
  /\ \A c \in Call(l) : /\ unheard[l][c] <= attempt[l]
                        /\ pc[l] \in AtWork => unheard[l][c] < mine[l]

LEMMA Calls ==
  ASSUME NEW l \in Log
  PROVE  0 \in Call(l) /\ Article(l) \subseteq Call(l) /\ 0 \notin Article(l)
<1>1. Dates[l] \in Seq(Nat)
  BY DatesAssumption
<1>2. Article(l) = 1 .. Len(Dates[l])
  BY <1>1 DEF Article
<1>3. QED
  BY <1>2 DEF Call

LEMMA RepeatInit == Init => RepeatInv
BY Calls DEF Init, RepeatInv, AtWork

LEMMA RepeatStep == ASSUME TypeOK, ChannelInv, RepeatInv, [Next]_vars PROVE RepeatInv'
<1>1. TypeOK /\ ChannelInv /\ RepeatInv
  OBVIOUS
<1> USE DEF Goto, rowVars, memVars, outVars, envVars, TypeOK, JobState,
   Running, ChannelInv, RepeatInv, AtWork, NextUnsent, Unsent
<1>2. ASSUME NEW l \in Log, Skip(l) PROVE RepeatInv'
  BY <1>1, <1>2, Calls DEF Skip, Skips
<1>3. ASSUME NEW l \in Log, Begin(l) PROVE RepeatInv'
  BY <1>1, <1>3, Calls DEF Begin, Skips
<1>4. ASSUME NEW l \in Log, PostOk(l) PROVE RepeatInv'
  BY <1>1, <1>4, Calls DEF PostOk
<1>5. ASSUME NEW l \in Log, PostFails(l) PROVE RepeatInv'
  <2>1. PICK taken \in {0, 1} : /\ posts' = [posts EXCEPT ![l] = @ + taken]
                                /\ unheard' = [unheard EXCEPT ![l][0] = @ + taken]
    BY <1>5 DEF PostFails
  <2>2. /\ pc[l] = "webhook" /\ pc' = [pc EXCEPT ![l] = "ending"]
        /\ attempt' = [attempt EXCEPT ![l] = mine[l]] /\ mine' = [mine EXCEPT ![l] = 0]
        /\ UNCHANGED <<webhook, sent, messages, interrupts>>
    BY <1>5 DEF PostFails, Fail, Forget
  <2>3. /\ unheard'[l][0] = unheard[l][0] + taken
        /\ \A d \in Call(l) \ {0} : unheard'[l][d] = unheard[l][d]
        /\ \A k \in Log \ {l} : unheard'[k] = unheard[k]
    BY <1>1, <2>1, Calls, OneMoreUnheard
  <2>4. /\ posts'[l] = posts[l] + taken /\ posts[l] \in Nat /\ interrupts \in Nat
        /\ \A c \in Call(l) : unheard[l][c] \in Nat
    BY <1>1, <2>1
  <2>5. posts[l] <= unheard[l][0] + interrupts
    BY <1>1, <2>2
  <2>6. \A c \in Call(l) : unheard'[l][c] <= attempt'[l]
    <3>1. \A c \in Call(l) : unheard[l][c] < mine[l]
      BY <1>1, <2>2
    <3>2. attempt'[l] = mine[l] /\ mine[l] \in Nat
      BY <1>1, <2>2
    <3>3. QED
      BY <2>3, <2>4, <3>1, <3>2
  <2>7. QED
    BY <1>1, <2>1, <2>2, <2>3, <2>4, <2>5, <2>6, Calls
<1>6. ASSUME NEW l \in Log, CommitWebhook(l) PROVE RepeatInv'
  BY <1>1, <1>6, Calls DEF CommitWebhook
<1>7. ASSUME NEW l \in Log, SendOk(l) PROVE RepeatInv'
  <2>1. PICK i \in Article(l) :
               NextUnsent(l, i) /\ messages' = [messages EXCEPT ![l][i] = @ + 1]
    BY <1>7 DEF SendOk
  <2>2. /\ pc' = [pc EXCEPT ![l] = "told"] /\ pc[l] = "telegram"
        /\ UNCHANGED <<sent, webhook, posts, attempt, mine, unheard, interrupts>>
    BY <1>7 DEF SendOk
  <2>3. /\ messages'[l] = [messages[l] EXCEPT ![i] = @ + 1]
        /\ \A k \in Log \ {l} : messages'[k] = messages[k]
    BY <1>1, <2>1
  <2>4. /\ messages'[l][i] = messages[l][i] + 1
        /\ messages[l][i] \in Nat
        /\ \A j \in Article(l) \ {i} : messages'[l][j] = messages[l][j]
    BY <1>1, <2>3
  <2>5. messages[l][i] <= unheard[l][i] + interrupts
    BY <1>1, <2>1, <2>2
  <2>6. ASSUME NEW j \in Article(l)
        PROVE  /\ messages'[l][j] <= 1 + unheard[l][j] + interrupts
               /\ j \notin sent[l] /\ ~NextUnsent(l, j)
                    => messages'[l][j] <= unheard[l][j] + interrupts
    <3>1. CASE j = i
      <4>1. unheard[l][i] \in Nat /\ interrupts \in Nat
        BY <1>1, Calls
      <4>2. messages'[l][i] <= 1 + unheard[l][i] + interrupts
        BY <2>4, <2>5, <4>1
      <4>3. QED
        BY <2>1, <3>1, <4>2
    <3>2. CASE j # i
      BY <1>1, <2>2, <2>4, <3>2
    <3>3. QED
      BY <3>1, <3>2
  <2>7. QED
    BY <1>1, <2>2, <2>3, <2>6
<1>8. ASSUME NEW l \in Log, SendFails(l) PROVE RepeatInv'
  <2>1. PICK i \in Article(l), taken \in {0, 1} :
               /\ NextUnsent(l, i)
               /\ messages' = [messages EXCEPT ![l][i] = @ + taken]
               /\ unheard' = [unheard EXCEPT ![l][i] = @ + taken]
    BY <1>8 DEF SendFails
  <2>2. /\ pc[l] = "telegram" /\ pc' = [pc EXCEPT ![l] = "ending"]
        /\ attempt' = [attempt EXCEPT ![l] = mine[l]] /\ mine' = [mine EXCEPT ![l] = 0]
        /\ UNCHANGED <<webhook, sent, posts, interrupts>>
    BY <1>8 DEF SendFails, Fail, Forget
  <2>3. /\ unheard'[l][i] = unheard[l][i] + taken
        /\ \A d \in Call(l) \ {i} : unheard'[l][d] = unheard[l][d]
        /\ \A k \in Log \ {l} : unheard'[k] = unheard[k]
    BY <1>1, <2>1, Calls, OneMoreUnheard
  <2>4. /\ messages'[l][i] = messages[l][i] + taken
        /\ \A j \in Article(l) \ {i} : messages'[l][j] = messages[l][j]
        /\ \A k \in Log \ {l} : messages'[k] = messages[k]
    BY <1>1, <2>1, OneMoreMessage
  <2>5. /\ interrupts \in Nat /\ \A c \in Call(l) : unheard[l][c] \in Nat
        /\ \A j \in Article(l) : messages[l][j] \in Nat
    BY <1>1
  <2>6. \A c \in Call(l) : unheard'[l][c] <= attempt'[l]
    <3>1. \A c \in Call(l) : unheard[l][c] < mine[l]
      BY <1>1, <2>2
    <3>2. attempt'[l] = mine[l] /\ mine[l] \in Nat
      BY <1>1, <2>2
    <3>3. QED
      BY <2>3, <2>5, <3>1, <3>2
  <2>7. ASSUME NEW j \in Article(l)
        PROVE  /\ messages'[l][j] <= 1 + unheard'[l][j] + interrupts
               /\ j \notin sent[l] => messages'[l][j] <= unheard'[l][j] + interrupts
    <3>1. messages[l][i] <= unheard[l][i] + interrupts
      BY <1>1, <2>1, <2>2
    <3>2. CASE j = i
      BY <2>1, <2>3, <2>4, <2>5, <3>1, <3>2, Calls
    <3>3. CASE j # i
      <4>1. messages'[l][j] = messages[l][j] /\ unheard'[l][j] = unheard[l][j]
        BY <2>3, <2>4, <3>3, Calls
      <4>2. QED
        BY <1>1, <2>2, <4>1
    <3>4. QED
      BY <3>2, <3>3
  <2>8. unheard'[l][0] = unheard[l][0]
    BY <2>1, <2>3, Calls
  <2>9. QED
    BY <1>1, <2>2, <2>3, <2>4, <2>6, <2>7, <2>8, Calls
<1>9. ASSUME NEW l \in Log, CommitSend(l) PROVE RepeatInv'
  <2>1. PICK i \in Article(l) :
               NextUnsent(l, i) /\ sent' = [sent EXCEPT ![l] = @ \cup {i}]
    BY <1>9 DEF CommitSend
  <2>2. /\ pc' = [pc EXCEPT ![l] = "telegram"] /\ pc[l] = "told"
        /\ UNCHANGED <<messages, webhook, posts, mine, unheard, interrupts>>
        /\ attempt' = [attempt EXCEPT ![l] = mine[l]]
    BY <1>9 DEF CommitSend
  <2>3. sent'[l] = sent[l] \cup {i} /\ \A k \in Log \ {l} : sent'[k] = sent[k]
    BY <1>1, <2>1
  <2>4. \A j \in Article(l) : NextUnsent(l, j) => j = i
    BY <2>1, OneNext
  <2>5. \A j \in Article(l) : j \notin sent'[l] => messages[l][j] <= unheard[l][j] + interrupts
    BY <1>1, <2>3, <2>4
  <2>6. QED
    BY <1>1, <2>2, <2>3, <2>5
<1>10. ASSUME NEW l \in Log, Complete(l) PROVE RepeatInv'
  BY <1>1, <1>10, Calls DEF Complete, Forget
<1>11. ASSUME NEW l \in Log, Finish(l) PROVE RepeatInv'
  BY <1>1, <1>11, Calls DEF Finish
<1>12. ASSUME NEW l \in Log, Expire(l) PROVE RepeatInv'
  BY <1>1, <1>12, Calls DEF Expire
<1>13. ASSUME NEW l \in Log, SweepRead(l) PROVE RepeatInv'
  BY <1>1, <1>13, Calls DEF SweepRead, Stuck
<1>14. ASSUME NEW l \in Log, SweepEnqueue(l) PROVE RepeatInv'
  BY <1>1, <1>14, Calls DEF SweepEnqueue
<1>15. ASSUME NEW l \in Log, LoseJob(l) PROVE RepeatInv'
  BY <1>1, <1>15, Calls DEF LoseJob, Interrupt, Forget
<1>16. ASSUME NEW l \in Log, EvictJob(l) PROVE RepeatInv'
  BY <1>1, <1>16, Calls DEF EvictJob, Interrupt
<1>17. ASSUME Pause PROVE RepeatInv'
  BY <1>1, <1>17, Calls DEF Pause
<1>18. ASSUME Resume PROVE RepeatInv'
  BY <1>1, <1>18, Calls DEF Resume
<1>19. ASSUME WorkerCrash PROVE RepeatInv'
  BY <1>1, <1>19, Calls DEF WorkerCrash, Interrupt
<1>20. ASSUME UNCHANGED vars PROVE RepeatInv'
  BY <1>1, <1>20 DEF vars
<1>21. ASSUME NEW l \in Log, Raises(l) PROVE RepeatInv'
  BY <1>1, <1>21, Calls DEF Raises, Forget
<1>q. QED
  BY <1>2, <1>3, <1>4, <1>5, <1>6, <1>7, <1>8, <1>9, <1>10, <1>11, <1>12,
     <1>13, <1>14, <1>15, <1>16, <1>17, <1>18, <1>19, <1>20,
     <1>21 DEF Next, Job, Sweep

(* A receiver takes a call again only after an interrupt, or an attempt    *)
(* that failed with the call although it was taken: NoRepeatedSend.        *)
THEOREM SentOnce == Spec => []NoRepeatedSend
<1>1. TypeOK /\ RepeatInv => NoRepeatedSend
  BY DEF TypeOK, RepeatInv, NoRepeatedSend
<1>2. QED
  BY <1>1, Channels, RepeatInit, RepeatStep, PTL DEF Spec

-----------------------------------------------------------------------------
(* How often a log is tried *)

(* A sweep that has read a log as stuck cannot start it again once its job *)
(* settled it: the job, or the result arq keeps of it, refuses the new one.*)
(* So only an interrupt lets a log that was given up be queued.            *)
GivenUpInv == \A l \in Log :
  /\ Settled(l) /\ l \in picked => pc[l] \notin {"absent", "queued"}
  /\ status[l] = "dead_letter" /\ interrupts = 0 => pc[l] \notin AtWork \cup {"queued"}

(* The attempt in memory is the next one until a commit writes it; a log   *)
(* that a job may still take up has one to spare.                          *)
BudgetInv == \A l \in Log :
  /\ pc[l] \in AtWork => mine[l] >= attempt[l] /\ mine[l] <= MaxAttempts + interrupts
  /\ attempt[l] <= MaxAttempts + interrupts
  /\ Stuck(l) /\ pc[l] \notin AtWork => attempt[l] < MaxAttempts + interrupts
  /\ status[l] = "dead_letter" => attempt[l] >= MaxAttempts
  /\ status[l] = "dead_letter" /\ pc[l] = "queued" => attempt[l] < MaxAttempts + interrupts

LEMMA GivenUpInit == Init => GivenUpInv
BY DEF Init, GivenUpInv, AtWork, Settled

LEMMA GivenUpStep == ASSUME TypeOK, ChannelInv, GivenUpInv, [Next]_vars PROVE GivenUpInv'
<1>1. TypeOK /\ ChannelInv /\ GivenUpInv
  OBVIOUS
<1> USE DEF Goto, rowVars, memVars, outVars, envVars, TypeOK, JobState,
   Running, ChannelInv, GivenUpInv, AtWork, Settled
<1>2. ASSUME NEW l \in Log, Skip(l) PROVE GivenUpInv'
  BY <1>1, <1>2, SettingsAssumption, BoundAssumption DEF Skip, Skips
<1>3. ASSUME NEW l \in Log, Begin(l) PROVE GivenUpInv'
  BY <1>1, <1>3, SettingsAssumption, BoundAssumption DEF Begin, Skips
<1>4. ASSUME NEW l \in Log, PostOk(l) PROVE GivenUpInv'
  BY <1>1, <1>4, SettingsAssumption, BoundAssumption DEF PostOk
<1>5. ASSUME NEW l \in Log, PostFails(l) PROVE GivenUpInv'
  BY <1>1, <1>5, SettingsAssumption, BoundAssumption DEF PostFails, Fail, Exhausted, Forget
<1>6. ASSUME NEW l \in Log, CommitWebhook(l) PROVE GivenUpInv'
  BY <1>1, <1>6, SettingsAssumption, BoundAssumption DEF CommitWebhook
<1>7. ASSUME NEW l \in Log, SendOk(l) PROVE GivenUpInv'
  BY <1>1, <1>7, SettingsAssumption, BoundAssumption DEF SendOk
<1>8. ASSUME NEW l \in Log, SendFails(l) PROVE GivenUpInv'
  BY <1>1, <1>8, SettingsAssumption, BoundAssumption DEF SendFails, Fail, Exhausted, Forget
<1>9. ASSUME NEW l \in Log, CommitSend(l) PROVE GivenUpInv'
  BY <1>1, <1>9, SettingsAssumption, BoundAssumption DEF CommitSend
<1>10. ASSUME NEW l \in Log, Complete(l) PROVE GivenUpInv'
  BY <1>1, <1>10, SettingsAssumption, BoundAssumption DEF Complete, Forget
<1>11. ASSUME NEW l \in Log, Finish(l) PROVE GivenUpInv'
  BY <1>1, <1>11, SettingsAssumption, BoundAssumption DEF Finish
<1>12. ASSUME NEW l \in Log, Expire(l) PROVE GivenUpInv'
  BY <1>1, <1>12, SettingsAssumption, BoundAssumption DEF Expire
<1>13. ASSUME NEW l \in Log, SweepRead(l) PROVE GivenUpInv'
  BY <1>1, <1>13, SettingsAssumption, BoundAssumption DEF SweepRead, Stuck
<1>14. ASSUME NEW l \in Log, SweepEnqueue(l) PROVE GivenUpInv'
  BY <1>1, <1>14, SettingsAssumption, BoundAssumption DEF SweepEnqueue
<1>15. ASSUME NEW l \in Log, LoseJob(l) PROVE GivenUpInv'
  BY <1>1, <1>15, SettingsAssumption, BoundAssumption DEF LoseJob, Interrupt, Forget
<1>16. ASSUME NEW l \in Log, EvictJob(l) PROVE GivenUpInv'
  BY <1>1, <1>16, SettingsAssumption, BoundAssumption DEF EvictJob, Interrupt
<1>17. ASSUME Pause PROVE GivenUpInv'
  BY <1>1, <1>17, SettingsAssumption, BoundAssumption DEF Pause
<1>18. ASSUME Resume PROVE GivenUpInv'
  BY <1>1, <1>18, SettingsAssumption, BoundAssumption DEF Resume
<1>19. ASSUME WorkerCrash PROVE GivenUpInv'
  BY <1>1, <1>19, SettingsAssumption, BoundAssumption DEF WorkerCrash, Interrupt
<1>20. ASSUME UNCHANGED vars PROVE GivenUpInv'
  BY <1>1, <1>20 DEF vars
<1>21. ASSUME NEW l \in Log, Raises(l) PROVE GivenUpInv'
  BY <1>1, <1>21, SettingsAssumption, BoundAssumption DEF Raises, Forget
<1>q. QED
  BY <1>2, <1>3, <1>4, <1>5, <1>6, <1>7, <1>8, <1>9, <1>10, <1>11, <1>12,
     <1>13, <1>14, <1>15, <1>16, <1>17, <1>18, <1>19, <1>20,
     <1>21 DEF Next, Job, Sweep

LEMMA BudgetInit == Init => BudgetInv
BY SettingsAssumption DEF Init, BudgetInv, AtWork, Stuck

LEMMA BudgetStep ==
  ASSUME TypeOK, ChannelInv, GivenUpInv, BudgetInv, [Next]_vars PROVE BudgetInv'
<1>1. TypeOK /\ ChannelInv /\ GivenUpInv /\ BudgetInv
  OBVIOUS
<1> USE DEF Goto, rowVars, memVars, outVars, envVars, TypeOK, JobState,
   Running, ChannelInv, GivenUpInv, BudgetInv, AtWork, Settled, Stuck
<1>2. ASSUME NEW l \in Log, Skip(l) PROVE BudgetInv'
  BY <1>1, <1>2, SettingsAssumption DEF Skip, Skips
<1>3. ASSUME NEW l \in Log, Begin(l) PROVE BudgetInv'
  BY <1>1, <1>3, SettingsAssumption DEF Begin, Skips
<1>4. ASSUME NEW l \in Log, PostOk(l) PROVE BudgetInv'
  BY <1>1, <1>4, SettingsAssumption DEF PostOk
<1>5. ASSUME NEW l \in Log, PostFails(l) PROVE BudgetInv'
  BY <1>1, <1>5, SettingsAssumption DEF PostFails, Fail, Exhausted, Forget
<1>6. ASSUME NEW l \in Log, CommitWebhook(l) PROVE BudgetInv'
  BY <1>1, <1>6, SettingsAssumption DEF CommitWebhook
<1>7. ASSUME NEW l \in Log, SendOk(l) PROVE BudgetInv'
  BY <1>1, <1>7, SettingsAssumption DEF SendOk
<1>8. ASSUME NEW l \in Log, SendFails(l) PROVE BudgetInv'
  BY <1>1, <1>8, SettingsAssumption DEF SendFails, Fail, Exhausted, Forget
<1>9. ASSUME NEW l \in Log, CommitSend(l) PROVE BudgetInv'
  BY <1>1, <1>9, SettingsAssumption DEF CommitSend
<1>10. ASSUME NEW l \in Log, Complete(l) PROVE BudgetInv'
  BY <1>1, <1>10, SettingsAssumption DEF Complete, Forget
<1>11. ASSUME NEW l \in Log, Finish(l) PROVE BudgetInv'
  BY <1>1, <1>11, SettingsAssumption DEF Finish
<1>12. ASSUME NEW l \in Log, Expire(l) PROVE BudgetInv'
  BY <1>1, <1>12, SettingsAssumption DEF Expire
<1>13. ASSUME NEW l \in Log, SweepRead(l) PROVE BudgetInv'
  BY <1>1, <1>13, SettingsAssumption DEF SweepRead, Stuck
<1>14. ASSUME NEW l \in Log, SweepEnqueue(l) PROVE BudgetInv'
  BY <1>1, <1>14, SettingsAssumption DEF SweepEnqueue
<1>15. ASSUME NEW l \in Log, LoseJob(l) PROVE BudgetInv'
  BY <1>1, <1>15, SettingsAssumption DEF LoseJob, Interrupt, Forget
<1>16. ASSUME NEW l \in Log, EvictJob(l) PROVE BudgetInv'
  BY <1>1, <1>16, SettingsAssumption DEF EvictJob, Interrupt
<1>17. ASSUME Pause PROVE BudgetInv'
  BY <1>1, <1>17, SettingsAssumption DEF Pause
<1>18. ASSUME Resume PROVE BudgetInv'
  BY <1>1, <1>18, SettingsAssumption DEF Resume
<1>19. ASSUME WorkerCrash PROVE BudgetInv'
  BY <1>1, <1>19, SettingsAssumption DEF WorkerCrash, Interrupt
<1>20. ASSUME UNCHANGED vars PROVE BudgetInv'
  BY <1>1, <1>20 DEF vars
<1>21. ASSUME NEW l \in Log, Raises(l) PROVE BudgetInv'
  BY <1>1, <1>21, SettingsAssumption DEF Raises, Forget
<1>q. QED
  BY <1>2, <1>3, <1>4, <1>5, <1>6, <1>7, <1>8, <1>9, <1>10, <1>11, <1>12,
     <1>13, <1>14, <1>15, <1>16, <1>17, <1>18, <1>19, <1>20,
     <1>21 DEF Next, Job, Sweep

(* A log gets MaxAttempts attempts and one for an interrupt, and is given  *)
(* up after that many: AttemptBudget.                                      *)
THEOREM BoundedAttempts == Spec => []AttemptBudget
<1>1. TypeOK /\ BudgetInv => AttemptBudget
  BY SettingsAssumption DEF TypeOK, BudgetInv, AttemptBudget, Running, AtWork, Stuck
<1>2. QED
  BY <1>1, Channels, GivenUpInit, GivenUpStep, BudgetInit, BudgetStep, PTL DEF Spec

(* What is settled sends nothing more: SettledIsFinal.                     *)
THEOREM NothingAfter == Spec => SettledIsFinal
<1>1. ASSUME TypeOK, ChannelInv, GivenUpInv, [Next]_vars, NEW l \in Log,
             Settled(l), status[l] = "success" \/ interrupts' = 0
      PROVE  /\ status'[l] = status[l] /\ posts'[l] = posts[l]
             /\ messages'[l] = messages[l]
  <2>1. pc[l] \notin AtWork
    <3>1. interrupts' = 0 => interrupts = 0
      BY <1>1 DEF TypeOK, Next, Job, Sweep, Skip, Begin, PostOk, PostFails, Fail,
         CommitWebhook, SendOk, SendFails, CommitSend, Complete, Finish, Expire,
         SweepRead, SweepEnqueue, Pause, Resume, Interrupt, WorkerCrash, LoseJob,
         EvictJob, Raises, envVars, vars
    <3>2. QED
      BY <1>1, <3>1 DEF ChannelInv, GivenUpInv, Settled
  <2>2. ASSUME NEW k \in Log, Job(k) \/ Expire(k) \/ Sweep(k) \/ LoseJob(k) \/ EvictJob(k)
        PROVE  /\ status'[l] = status[l] /\ posts'[l] = posts[l]
               /\ messages'[l] = messages[l]
    BY <1>1, <2>1, <2>2 DEF AtWork, TypeOK, Job, Sweep, Skip, Begin, PostOk, PostFails,
       Fail, CommitWebhook, SendOk, SendFails, CommitSend, Complete, Raises, Finish, Expire,
       SweepRead, SweepEnqueue, LoseJob, EvictJob, rowVars, outVars
  <2>3. ASSUME Pause \/ Resume \/ WorkerCrash \/ UNCHANGED vars
        PROVE  /\ status'[l] = status[l] /\ posts'[l] = posts[l]
               /\ messages'[l] = messages[l]
    BY <2>3 DEF Pause, Resume, WorkerCrash, rowVars, outVars, vars
  <2>4. QED
    BY <1>1, <2>2, <2>3 DEF Next
<1>2. TypeOK /\ ChannelInv /\ GivenUpInv /\ [Next]_vars =>
        [\A l \in Log :
           Settled(l) /\ (status[l] = "success" \/ interrupts' = 0)
             => status'[l] = status[l] /\ posts'[l] = posts[l]
                /\ messages'[l] = messages[l]]_vars
  BY <1>1
<1>3. QED
  BY <1>2, Channels, GivenUpInit, GivenUpStep, PTL DEF Spec, SettledIsFinal

-----------------------------------------------------------------------------
(* The watermark *)

(* A job that has read no watermark saw a market without one, so the       *)
(* watermark it leaves alone, if any, is another log's.                    *)
SeenInv == watermark = 0 => \A l \in Log : seen[l] = 0

LEMMA WatermarkInit == Init => SeenInv /\ WatermarkDelivered
BY DEF Init, SeenInv, WatermarkDelivered, Delivered

LEMMA OnlyCompleteMoves ==
  ASSUME TypeOK, ChannelInv, [Next]_vars, ~\E l \in Log : Complete(l)
  PROVE  /\ watermark' = watermark /\ Delivered' = Delivered
         /\ \A l \in Log : seen'[l] \in {seen[l], 0, watermark}
<1>1. TypeOK /\ ChannelInv /\ ~\E l \in Log : Complete(l)
  OBVIOUS
<1>2. /\ watermark' = watermark
      /\ \A l \in Log : seen'[l] \in {seen[l], 0, watermark}
  BY <1>1 DEF TypeOK, Next, Job, Sweep, Skip, Begin, PostOk, PostFails, Fail, Forget,
     CommitWebhook, SendOk, SendFails, CommitSend, Raises, Finish, Expire, SweepRead,
     SweepEnqueue, Pause, Resume, WorkerCrash, LoseJob, EvictJob,
     rowVars, memVars, vars
<1>3. \A l \in Log : status'[l] = "success" <=> status[l] = "success"
  BY <1>1 DEF TypeOK, ChannelInv, AtWork, Next, Job, Sweep, Skip, Begin, PostOk,
     PostFails, Fail, CommitWebhook, SendOk, SendFails, CommitSend, Raises, Finish, Expire,
     SweepRead, SweepEnqueue, Pause, Resume, WorkerCrash, LoseJob, EvictJob,
     rowVars, vars
<1>4. QED
  BY <1>2, <1>3 DEF Delivered

LEMMA WatermarkStep ==
  ASSUME TypeOK, ChannelInv, SeenInv, WatermarkDelivered, [Next]_vars
  PROVE  SeenInv' /\ WatermarkDelivered'
<1>1. TypeOK /\ ChannelInv /\ SeenInv /\ WatermarkDelivered
  OBVIOUS
<1>2. CASE \E l \in Log : Complete(l)
  <2>1. PICK l \in Log : Complete(l)
    BY <1>2
  <2>2. /\ pc[l] = "telegram" /\ status' = [status EXCEPT ![l] = "success"]
        /\ watermark' = IF Newest(l) > seen[l] THEN Newest(l) ELSE watermark
        /\ seen' = [seen EXCEPT ![l] = 0]
    BY <2>1 DEF Complete, Forget, Advances
  <2>3. Delivered' = Delivered \cup {l}
    BY <1>1, <2>2 DEF Delivered, TypeOK
  <2>4. /\ Newest(l) \in Nat /\ seen[l] \in Nat /\ watermark \in Nat
        /\ \A k \in Log : seen[k] \in Nat
    BY <1>1, Dated, DatesAreNat DEF TypeOK
  <2>5. CASE Newest(l) > seen[l]
    BY <1>1, <2>2, <2>3, <2>4, <2>5 DEF SeenInv, WatermarkDelivered
  <2>6. CASE ~(Newest(l) > seen[l])
    <3>1. watermark = 0 => Newest(l) = 0
      BY <1>1, <2>4, <2>6 DEF SeenInv
    <3>2. QED
      BY <1>1, <2>2, <2>3, <2>4, <2>6, <3>1 DEF SeenInv, WatermarkDelivered, TypeOK
  <2>7. QED
    BY <2>5, <2>6
<1>3. CASE ~\E l \in Log : Complete(l)
  BY <1>1, <1>3, OnlyCompleteMoves DEF SeenInv, WatermarkDelivered
<1>4. QED
  BY <1>2, <1>3

(* The watermark is the newest date of a delivered log, however many jobs  *)
(* of the market run at once: WatermarkDelivered.                          *)
THEOREM NoStrayWatermark == Spec => []WatermarkDelivered
<1>1. QED
  BY Channels, WatermarkInit, WatermarkStep, PTL DEF Spec

(* A job that compares with the watermark of the row leaves the newest     *)
(* delivered date there.                                                   *)
LEMMA FreshMemoryKeepsMark ==
  ASSUME TypeOK, HighWaterMark, NEW l \in Log, Complete(l), seen[l] = watermark
  PROVE  HighWaterMark'
<1>1. /\ status' = [status EXCEPT ![l] = "success"]
      /\ watermark' = IF Newest(l) > watermark THEN Newest(l) ELSE watermark
  BY DEF Complete, Advances
<1>2. DeliveredDates' = DeliveredDates \cup Date(l)
  BY <1>1 DEF DeliveredDates, Delivered, TypeOK
<1>3. /\ Newest(l) \in Nat /\ Newest(l) \in Date(l) /\ Date(l) \subseteq Nat
      /\ \A d \in Date(l) : d <= Newest(l)
  BY Dated DEF Date
<1>4. watermark \in Nat /\ DeliveredDates \subseteq Nat
  <2>1. DeliveredDates \subseteq AllDates
    BY DEF DeliveredDates, Delivered, AllDates
  <2>2. QED
    BY <2>1, DatesAreNat DEF TypeOK
<1>5. watermark \in DeliveredDates /\ \A d \in DeliveredDates : d <= watermark
  BY DEF HighWaterMark
<1>6. CASE Newest(l) > watermark
  BY <1>1, <1>2, <1>3, <1>4, <1>5, <1>6 DEF HighWaterMark
<1>7. CASE ~(Newest(l) > watermark)
  BY <1>1, <1>2, <1>3, <1>4, <1>5, <1>7 DEF HighWaterMark
<1>8. QED
  BY <1>6, <1>7

(* Only a job that began before another delivery was committed loses the   *)
(* newest delivered date: MarkLostByOverlap.                               *)
THEOREM OverlapLosesMark == Spec => MarkLostByOverlap
<1>1. ASSUME TypeOK, ChannelInv, [Next]_vars, HighWaterMark, ~HighWaterMark'
      PROVE  \E l \in Log : /\ status[l] # status'[l] /\ status'[l] = "success"
                            /\ seen[l] # watermark
  <2>1. \E l \in Log : Complete(l)
    <3>1. ASSUME ~\E l \in Log : Complete(l) PROVE HighWaterMark'
      <4>1. watermark' = watermark /\ Delivered' = Delivered
        BY <1>1, <3>1, OnlyCompleteMoves
      <4>2. QED
        BY <1>1, <4>1 DEF HighWaterMark, DeliveredDates
    <3>2. QED
      BY <1>1, <3>1
  <2>2. PICK l \in Log : Complete(l)
    BY <2>1
  <2>3. seen[l] # watermark
    BY <1>1, <2>2, FreshMemoryKeepsMark
  <2>4. status[l] # "success" /\ status'[l] = "success"
    BY <1>1, <2>2 DEF Complete, ChannelInv, TypeOK, AtWork
  <2>5. QED
    BY <2>3, <2>4
<1>2. TypeOK /\ ChannelInv /\ [Next]_vars =>
        [HighWaterMark /\ ~HighWaterMark' =>
           \E l \in Log : status[l] # status'[l] /\ status'[l] = "success"
                          /\ seen[l] # watermark]_vars
  BY <1>1
<1>3. QED
  BY <1>2, Channels, PTL DEF Spec, MarkLostByOverlap

(* One job at a time, and what it remembers is the row. *)
SerialInv == /\ \A k, l \in Log : pc[k] \in Running /\ pc[l] \in Running => k = l
             /\ \A l \in Log : pc[l] \in AtWork => seen[l] = watermark

LEMMA SerialStep ==
  ASSUME IsFiniteSet(Log), MaxJobs = 1, TypeOK, SerialInv, [Next]_vars
  PROVE  SerialInv'
<1>1. TypeOK /\ SerialInv
  OBVIOUS
<1>2. SlotFree => \A l \in Log : pc[l] \notin Running
  <2> DEFINE S == {l \in Log : pc[l] \in Running}
  <2>1. IsFiniteSet(S)
    BY FS_Subset
  <2>2. Cardinality(S) \in Nat /\ (Cardinality(S) = 0 => S = {})
    BY <2>1, FS_CardinalityType, FS_EmptySet
  <2>3. \A n \in Nat : n < 1 => n = 0
    OBVIOUS
  <2>4. Cardinality(S) < 1 => S = {}
    BY <2>2, <2>3
  <2>5. QED
    BY <2>4 DEF SlotFree
<1> USE DEF Goto, SerialInv, AtWork, Running, TypeOK
<1>3. ASSUME NEW l \in Log, Skip(l) \/ Begin(l) PROVE SerialInv'
  BY <1>1, <1>2, <1>3 DEF Skip, Begin, rowVars, memVars
<1>4. ASSUME NEW l \in Log, PostOk(l) \/ CommitWebhook(l) \/ SendOk(l) \/ CommitSend(l)
      PROVE  SerialInv'
  BY <1>1, <1>4 DEF PostOk, CommitWebhook, SendOk, CommitSend, rowVars, memVars
<1>5. ASSUME NEW l \in Log, PostFails(l) \/ SendFails(l) \/ Complete(l) \/ Raises(l) \/ Finish(l)
      PROVE  SerialInv'
  BY <1>1, <1>5 DEF PostFails, SendFails, Fail, Complete, Raises, Finish, Forget, rowVars, memVars
<1>6. ASSUME NEW l \in Log,
             Expire(l) \/ SweepRead(l) \/ SweepEnqueue(l) \/ LoseJob(l) \/ EvictJob(l)
      PROVE  SerialInv'
  BY <1>1, <1>6 DEF Expire, SweepRead, SweepEnqueue, LoseJob, EvictJob, Forget, rowVars, memVars
<1>7. ASSUME Pause \/ Resume \/ WorkerCrash \/ UNCHANGED vars PROVE SerialInv'
  BY <1>1, <1>7 DEF Pause, Resume, WorkerCrash, rowVars, memVars, vars
<1>8. QED
  BY <1>3, <1>4, <1>5, <1>6, <1>7 DEF Next, Job, Sweep

(* With one job at a time the watermark is the newest delivered date,      *)
(* whatever is interrupted and retried: HighWaterMark.                     *)
THEOREM SerialKeepsMark ==
  ASSUME IsFiniteSet(Log), MaxJobs = 1 PROVE Spec => []HighWaterMark
<1>1. Init => SerialInv /\ HighWaterMark
  BY DatesAreNat DEF Init, SerialInv, HighWaterMark, DeliveredDates, Delivered, Running, AtWork
<1>2. ASSUME TypeOK, ChannelInv, SerialInv, HighWaterMark, [Next]_vars
      PROVE  HighWaterMark'
  <2>1. CASE \E l \in Log : Complete(l)
    <3>1. PICK l \in Log : Complete(l)
      BY <2>1
    <3>2. seen[l] = watermark
      BY <1>2, <3>1 DEF Complete, SerialInv, AtWork
    <3>3. QED
      BY <1>2, <3>1, <3>2, FreshMemoryKeepsMark
  <2>2. CASE ~\E l \in Log : Complete(l)
    <3>1. watermark' = watermark /\ Delivered' = Delivered
      BY <1>2, <2>2, OnlyCompleteMoves
    <3>2. QED
      BY <1>2, <3>1 DEF HighWaterMark, DeliveredDates
  <2>3. QED
    BY <2>1, <2>2
<1>3. TypeOK /\ SerialInv /\ [Next]_vars => SerialInv'
  BY SerialStep
<1>4. QED
  BY <1>1, <1>2, <1>3, Channels, PTL DEF Spec

-----------------------------------------------------------------------------
(* The abstract watermark: a delivery goes on while its job is at work,    *)
(* and what it remembers is what the job has in memory.                    *)

Remembered(l) == [log |-> l, seen |-> seen[l]]
InFlight == {Remembered(l) : l \in {k \in Log : pc[k] \in AtWork}}

Mark == INSTANCE Watermark WITH LatestDate <- [l \in Log |-> Newest(l)],
          mark <- watermark, sending <- InFlight, delivered <- Delivered

LEMMA InFlightIs ==
  \A s : s \in InFlight <=> \E l \in Log : pc[l] \in AtWork /\ s = Remembered(l)
BY DEF InFlight

LEMMA InFlightNext ==
  \A s : s \in InFlight' <=> \E l \in Log : pc'[l] \in AtWork /\ s = [log |-> l, seen |-> seen'[l]]
BY DEF InFlight, Remembered

(* A step of job l that leaves it at work, or out of it, shows nothing.    *)
LEMMA NothingShows ==
  ASSUME TypeOK, NEW l \in Log, NEW state, Goto(l, state), UNCHANGED <<watermark, status, seen>>,
         pc[l] \in AtWork <=> state \in AtWork
  PROVE  UNCHANGED Mark!wvars
<1>1. \A k \in Log : pc'[k] \in AtWork <=> pc[k] \in AtWork
  BY DEF Goto, TypeOK
<1>2. InFlight' = InFlight
  BY <1>1 DEF InFlight, Remembered
<1>3. Delivered' = Delivered
  BY DEF Delivered
<1> QED
  BY <1>2, <1>3 DEF Mark!wvars

(* Jobs that end before they have delivered are deliveries abandoned.      *)
LEMMA AbandonStep ==
  ASSUME \A k \in Log : pc'[k] \in AtWork => pc[k] \in AtWork /\ seen'[k] = seen[k],
         watermark' = watermark, Delivered' = Delivered
  PROVE  Mark!Abandon
<1>1. ASSUME NEW s \in InFlight' PROVE s \in InFlight
  <2>1. PICK k \in Log : pc'[k] \in AtWork /\ s = [log |-> k, seen |-> seen'[k]]
    BY <1>1, InFlightNext
  <2> QED
    BY <2>1, InFlightIs DEF Remembered
<1> QED
  BY <1>1 DEF Mark!Abandon

LEMMA BeginStep == ASSUME TypeOK, NEW l \in Log, Begin(l) PROVE Mark!Begin(l)
<1>1. /\ \A k \in Log \ {l} : pc'[k] = pc[k] /\ seen'[k] = seen[k]
      /\ pc'[l] \in AtWork /\ seen'[l] = watermark /\ pc[l] \notin AtWork
  BY DEF Begin, Goto, TypeOK, AtWork
<1>2. l \notin Delivered /\ watermark' = watermark /\ Delivered' = Delivered
  BY DEF Begin, Skips, Delivered, rowVars
<1>3. \A s \in InFlight : s.log # l
  BY <1>1, InFlightIs DEF Remembered
<1>4. ASSUME NEW s
      PROVE  s \in InFlight' <=> s \in InFlight \cup {[log |-> l, seen |-> watermark]}
  <2>1. s \in InFlight' <=> \E k \in Log : pc'[k] \in AtWork /\ s = [log |-> k, seen |-> seen'[k]]
    BY InFlightNext
  <2>2. s \in InFlight <=> \E k \in Log : pc[k] \in AtWork /\ s = [log |-> k, seen |-> seen[k]]
    BY InFlightIs DEF Remembered
  <2> QED
    BY <1>1, <2>1, <2>2
<1>5. InFlight' = InFlight \cup {[log |-> l, seen |-> watermark]}
  BY <1>4
<1> QED
  BY <1>2, <1>3, <1>5 DEF Mark!Begin

LEMMA CompleteStep ==
  ASSUME TypeOK, ChannelInv, NEW l \in Log, Complete(l)
  PROVE  Remembered(l) \in InFlight /\ Mark!Complete(Remembered(l))
<1>1. /\ \A k \in Log \ {l} : pc'[k] = pc[k] /\ seen'[k] = seen[k]
      /\ pc'[l] \notin AtWork /\ pc[l] \in AtWork
  BY DEF Complete, Goto, Forget, TypeOK, AtWork
<1>2. l \notin Delivered
  BY <1>1 DEF ChannelInv, Delivered
<1>3. Delivered' = Delivered \cup {l}
  BY DEF Complete, Delivered, TypeOK
<1>4. Remembered(l) \in InFlight
  BY <1>1, InFlightIs
<1>5. ASSUME NEW s PROVE s \in InFlight' <=> s \in InFlight \ {Remembered(l)}
  <2>1. s \in InFlight' <=> \E k \in Log : pc'[k] \in AtWork /\ s = [log |-> k, seen |-> seen'[k]]
    BY InFlightNext
  <2>2. s \in InFlight <=> \E k \in Log : pc[k] \in AtWork /\ s = [log |-> k, seen |-> seen[k]]
    BY InFlightIs DEF Remembered
  <2> QED
    BY <1>1, <2>1, <2>2 DEF Remembered
<1>6. InFlight' = InFlight \ {Remembered(l)}
  BY <1>5
<1>7. watermark' = IF [k \in Log |-> Newest(k)][Remembered(l).log] > Remembered(l).seen
                   THEN [k \in Log |-> Newest(k)][Remembered(l).log] ELSE watermark
  BY DEF Complete, Advances, Remembered
<1>8. Remembered(l).log = l
  BY DEF Remembered
<1> QED
  BY <1>2, <1>3, <1>4, <1>6, <1>7, <1>8 DEF Mark!Complete

LEMMA MarkStep == TypeOK /\ ChannelInv /\ [Next]_vars => [Mark!Next]_(Mark!wvars)
<1> SUFFICES ASSUME TypeOK, ChannelInv, [Next]_vars PROVE [Mark!Next]_(Mark!wvars)
  OBVIOUS
<1>1. ASSUME NEW l \in Log, Begin(l) PROVE Mark!Next
  BY <1>1, BeginStep DEF Mark!Next
<1>2. ASSUME NEW l \in Log, Complete(l) PROVE Mark!Next
  BY <1>2, CompleteStep DEF Mark!Next
<1>3. ASSUME NEW l \in Log, PostFails(l) \/ SendFails(l) \/ Raises(l) \/ LoseJob(l) PROVE Mark!Next
  <2>1. \A k \in Log : pc'[k] \in AtWork => pc[k] \in AtWork /\ seen'[k] = seen[k]
    BY <1>3 DEF PostFails, SendFails, Raises, LoseJob, Fail, Goto, Forget, TypeOK, AtWork
  <2>2. watermark' = watermark
    BY <1>3 DEF PostFails, SendFails, Raises, LoseJob, Fail, rowVars
  <2>3. Delivered' = Delivered
    BY <1>3 DEF PostFails, SendFails, Raises, LoseJob, Fail, rowVars, Delivered, TypeOK,
                ChannelInv, AtWork
  <2> QED
    BY <2>1, <2>2, <2>3, AbandonStep DEF Mark!Next
<1>4. ASSUME WorkerCrash PROVE Mark!Next
  <2>1. \A k \in Log : pc'[k] \notin AtWork
    BY <1>4 DEF WorkerCrash, Running, AtWork, TypeOK
  <2>2. watermark' = watermark /\ Delivered' = Delivered
    BY <1>4 DEF WorkerCrash, rowVars, Delivered
  <2> QED
    BY <2>1, <2>2, AbandonStep DEF Mark!Next
<1>5. ASSUME NEW l \in Log,
             \/ Skip(l) \/ Finish(l) \/ Expire(l) \/ EvictJob(l)
             \/ PostOk(l) \/ CommitWebhook(l) \/ SendOk(l) \/ CommitSend(l)
      PROVE UNCHANGED Mark!wvars
  <2>1. \E state : /\ Goto(l, state) /\ UNCHANGED <<watermark, status, seen>>
                   /\ pc[l] \in AtWork <=> state \in AtWork
    BY <1>5 DEF Skip, Finish, Expire, EvictJob, PostOk, CommitWebhook, SendOk, CommitSend,
                rowVars, memVars, AtWork
  <2> QED
    BY <2>1, NothingShows
<1>6. ASSUME NEW l \in Log, SweepEnqueue(l) PROVE UNCHANGED Mark!wvars
  <2>1. \E state : /\ Goto(l, state) /\ UNCHANGED <<watermark, status, seen>>
                   /\ pc[l] \in AtWork <=> state \in AtWork
    BY <1>6 DEF SweepEnqueue, rowVars, memVars, AtWork
  <2> QED
    BY <2>1, NothingShows
<1>7. CASE UNCHANGED <<watermark, status, seen, pc>>
  BY <1>7 DEF Mark!wvars, InFlight, Remembered, Delivered
<1> QED
  BY <1>1, <1>2, <1>3, <1>4, <1>5, <1>6, <1>7
     DEF Next, Job, Sweep, SweepRead, Pause, Resume, rowVars, memVars, vars

(* The jobs of deliver_batch, with their channels, attempts, retries and   *)
(* crashes, implement Watermark: a delivery counts once, when the row is   *)
(* committed as delivered, and it is its newest date, against the          *)
(* watermark of its job's beginning, that moves the watermark.             *)
THEOREM ImplementsWatermark == Spec => Mark!Spec
<1>1. Init => Mark!Init
  <2> SUFFICES ASSUME Init PROVE Mark!Init
    OBVIOUS
  <2>1. \A l \in Log : pc[l] \notin AtWork /\ status[l] # "success"
    BY DEF Init, AtWork
  <2>2. InFlight = {} /\ Delivered = {}
    BY <2>1 DEF InFlight, Delivered
  <2> QED
    BY <2>2 DEF Init, Mark!Init
<1>2. Mark!Spec <=> Mark!Init /\ [][Mark!Next]_(Mark!wvars)
  BY DEF Mark!Spec
<1> QED
  BY <1>1, <1>2, MarkStep, Channels, PTL DEF Spec
=============================================================================
