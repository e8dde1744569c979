-------------------------- MODULE ChronologyProofs --------------------------
(***************************************************************************)
(* Proofs about Chronology, for any articles and dates and any number of   *)
(* cycles.                                                                 *)
(***************************************************************************)
EXTENDS Chronology, FiniteSetTheorems, TLAPS

LEMMA DatesAreNat == ASSUME NEW a \in Article
                     PROVE /\ PublishedAt(a) \in Nat
                           /\ SearchDate[a] \in Nat
                           /\ SearchDate[a] # 0 => PublishedAt(a) = SearchDate[a]
<1>1. SearchDate[a] \in Nat /\ PageDate[a] \in Nat
  BY DateAssumption DEF Date, NoDate
<1> QED
  BY <1>1 DEF PublishedAt, Published, NoDate

(* A log that has an item has a newest one: of the sets of those that are  *)
(* no older than an item, one is the smallest.                             *)
LEMMA HasNewest == ASSUME NEW log \in SUBSET Article, log # {}
                   PROVE \E a \in log : \A b \in log : PublishedAt(a) >= PublishedAt(b)
<1> DEFINE NoOlder(a) == {b \in log : PublishedAt(b) >= PublishedAt(a)}
           Sets == {NoOlder(a) : a \in log}
<1>1. IsFiniteSet(log)
  BY ArticleAssumption, FS_Subset
<1>2. IsWellFoundedOn(StrictSubsetOrdering(log), SUBSET log)
  BY <1>1, FS_StrictSubsetOrderingWellFounded, FS_FiniteSubsetsOfFinite
<1>3. Sets \subseteq SUBSET log /\ Sets # {}
  OBVIOUS
<1>4. \E S \in Sets : \A R \in Sets : <<R, S>> \notin StrictSubsetOrdering(log)
  <2> HIDE DEF Sets
  <2> QED
    BY <1>2, <1>3, WFMin
<1>5. PICK a \in log : \A R \in Sets : <<R, NoOlder(a)>> \notin StrictSubsetOrdering(log)
  BY <1>4
<1>6. ASSUME NEW b \in log PROVE PublishedAt(a) >= PublishedAt(b)
  <2>1. /\ PublishedAt(a) \in Nat /\ PublishedAt(b) \in Nat
        /\ \A c \in log : PublishedAt(c) \in Nat
    BY DatesAreNat
  <2>2. SUFFICES ASSUME PublishedAt(b) > PublishedAt(a) PROVE FALSE
    BY <2>1
  <2>3. a \in NoOlder(a) /\ a \notin NoOlder(b)
    BY <2>1, <2>2
  <2>4. NoOlder(b) \subseteq NoOlder(a)
    BY <2>1, <2>2
  <2>5. NoOlder(b) \in Sets /\ NoOlder(a) \in SUBSET log /\ NoOlder(b) \in SUBSET log
    OBVIOUS
  <2> HIDE DEF NoOlder, Sets
  <2>6. <<NoOlder(b), NoOlder(a)>> \in StrictSubsetOrdering(log)
    BY <2>3, <2>4, <2>5 DEF StrictSubsetOrdering
  <2> QED
    BY <1>5, <2>5, <2>6
<1> QED
  BY <1>6

LEMMA NewestIsNewest == ASSUME NEW log \in SUBSET Article
                        PROVE /\ Newest(log) \in Nat
                              /\ \A a \in log : Newest(log) >= PublishedAt(a)
<1>1. \A a \in log : PublishedAt(a) \in Nat
  BY DatesAreNat
<1>2. CASE log = {}
  BY <1>2 DEF Newest, NoDate
<1>3. CASE log # {}
  <2>1. PICK a \in log : \A b \in log : PublishedAt(a) >= PublishedAt(b)
    BY <1>3, HasNewest
  <2> DEFINE dates == {PublishedAt(b) : b \in log}
  <2>2. dates # {} /\ \E d \in dates : \A e \in dates : d >= e
    BY <2>1
  <2>3. Newest(log) = CHOOSE d \in dates : \A e \in dates : d >= e
    BY <2>2 DEF Newest
  <2>4. Newest(log) \in dates /\ \A e \in dates : Newest(log) >= e
    BY <2>2, <2>3
  <2> QED
    BY <1>1, <2>4
<1> QED
  BY <1>2, <1>3

-----------------------------------------------------------------------------
(* Type correctness *)

LEMMA StoredIs == \A a : a \in Stored <=> \E c \in Cycle : a \in stored[c]
BY DEF Stored

LEMMA ResolveType ==
  ASSUME TypeOK, NEW c \in Cycle, NEW a \in Article, NEW items \in SUBSET Article,
         Resolve(c, a, items)
  PROVE /\ phase' \in [Cycle -> {"idle", "search", "open", "closed"}]
        /\ jobs' \in [Cycle -> SUBSET Article] /\ batch' \in [Cycle -> SUBSET Article]
        /\ queue' \subseteq SUBSET Article
<1>1. jobs' \in [Cycle -> SUBSET Article]
  BY DEF TypeOK, Resolve
<1>2. CASE Close(c, items)
  BY <1>1, <1>2 DEF TypeOK, Close
<1>3. CASE batch' = [batch EXCEPT ![c] = items] /\ UNCHANGED <<phase, queue>>
  BY <1>1, <1>3 DEF TypeOK
<1> QED
  BY <1>2, <1>3 DEF Resolve

(* An item that is stored is nobody's yet. *)
LEMMA StoredApart ==
  ASSUME TypeOK, NEW c \in Cycle, NEW a \in Article, a \notin Stored,
         stored' = [stored EXCEPT ![c] = @ \cup {a}]
  PROVE /\ stored' \in [Cycle -> SUBSET Article]
        /\ \A d, e \in Cycle : d # e => stored'[d] \cap stored'[e] = {}
<1>1. stored' \in [Cycle -> SUBSET Article]
  BY DEF TypeOK
<1>2. \A d \in Cycle : stored'[d] = IF d = c THEN stored[c] \cup {a} ELSE stored[d]
  BY DEF TypeOK
<1>3. \A d \in Cycle : a \notin stored[d]
  BY StoredIs
<1> QED
  BY <1>1, <1>2, <1>3 DEF TypeOK

LEMMA TypeStep == TypeOK /\ [Next]_vars => TypeOK'
<1> SUFFICES ASSUME TypeOK, [Next]_vars PROVE TypeOK'
  OBVIOUS
<1>1. ASSUME NEW c \in Cycle, Begin(c) PROVE TypeOK'
  <2>1. (IF overlap THEN 0 ELSE Len(sent)) \in Nat
    BY DEF TypeOK
  <2>2. /\ phase' \in [Cycle -> {"idle", "search", "open", "closed"}]
        /\ seen' \in [Cycle -> Date \cup {NoDate}] /\ begun' \in [Cycle -> Nat]
    BY <1>1, <2>1 DEF Begin, TypeOK
  <2> QED
    BY <1>1, <2>2 DEF Begin, sendVars, TypeOK
<1>2. ASSUME NEW c \in Cycle, Select(c) PROVE TypeOK'
  <2>1. PICK found \in SUBSET Article :
          /\ jobs' = [jobs EXCEPT ![c] = Unstale(found, c)]
          /\ phase' = [phase EXCEPT ![c] = IF Unstale(found, c) = {} THEN "closed" ELSE "open"]
    BY <1>2 DEF Select
  <2>2. Unstale(found, c) \in SUBSET Article
    BY DEF Unstale
  <2>3. /\ jobs' \in [Cycle -> SUBSET Article]
        /\ phase' \in [Cycle -> {"idle", "search", "open", "closed"}]
    BY <2>1, <2>2 DEF TypeOK
  <2> QED
    BY <1>2, <2>3 DEF Select, sendVars, TypeOK
<1>3. ASSUME NEW c \in Cycle, Sweep(c) PROVE TypeOK'
  <2>1. /\ phase' \in [Cycle -> {"idle", "search", "open", "closed"}]
        /\ batch' \in [Cycle -> SUBSET Article] /\ queue' \subseteq SUBSET Article
    BY <1>3 DEF Sweep, Close, TypeOK
  <2> QED
    BY <1>3, <2>1 DEF Sweep, sendVars, TypeOK
<1>4. ASSUME NEW c \in Cycle, NEW a \in Article, Store(c, a) PROVE TypeOK'
  <2>1. batch[c] \cup {a} \in SUBSET Article
    BY DEF TypeOK
  <2>2. /\ phase' \in [Cycle -> {"idle", "search", "open", "closed"}]
        /\ jobs' \in [Cycle -> SUBSET Article] /\ batch' \in [Cycle -> SUBSET Article]
        /\ queue' \subseteq SUBSET Article
    BY <1>4, <2>1, ResolveType DEF Store
  <2>3. /\ stored' \in [Cycle -> SUBSET Article]
        /\ \A d, e \in Cycle : d # e => stored'[d] \cap stored'[e] = {}
    BY <1>4, StoredApart DEF Store
  <2> QED
    BY <1>4, <2>2, <2>3 DEF Store, sendVars, TypeOK
<1>5. ASSUME NEW c \in Cycle, NEW a \in Article, Drop(c, a) PROVE TypeOK'
  <2>1. batch[c] \in SUBSET Article
    BY DEF TypeOK
  <2>2. /\ phase' \in [Cycle -> {"idle", "search", "open", "closed"}]
        /\ jobs' \in [Cycle -> SUBSET Article] /\ batch' \in [Cycle -> SUBSET Article]
        /\ queue' \subseteq SUBSET Article
    BY <1>5, <2>1, ResolveType DEF Drop
  <2> QED
    BY <1>5, <2>2 DEF Drop, sendVars, TypeOK
<1>6. ASSUME NEW c \in Cycle, NEW a \in Article, StoreLate(c, a) PROVE TypeOK'
  <2>1. jobs' \in [Cycle -> SUBSET Article] /\ queue' \subseteq SUBSET Article
    BY <1>6 DEF StoreLate, TypeOK
  <2>2. /\ stored' \in [Cycle -> SUBSET Article]
        /\ \A d, e \in Cycle : d # e => stored'[d] \cap stored'[e] = {}
    BY <1>6, StoredApart DEF StoreLate
  <2> QED
    BY <1>6, <2>1, <2>2 DEF StoreLate, sendVars, TypeOK
<1>7. ASSUME NEW log \in queue, Deliver(log) PROVE TypeOK'
  <2>1. sending' \subseteq [log : SUBSET Article, seen : Date \cup {NoDate}]
    BY <1>7 DEF Deliver, TypeOK
  <2> QED
    BY <1>7, <2>1 DEF Deliver, cycleVars, TypeOK
<1>8. ASSUME NEW s \in sending, Complete(s) PROVE TypeOK'
  <2>1. s.log \in SUBSET Article
    BY DEF TypeOK
  <2>2. mark' \in Date \cup {NoDate}
    BY <1>8, <2>1, NewestIsNewest DEF Complete, Advanced, TypeOK, Date, NoDate
  <2>3. sent' \in Seq(SUBSET Article)
    BY <1>8, <2>1 DEF Complete, TypeOK
  <2>4. overlap' \in BOOLEAN
    BY <1>8 DEF Complete, TypeOK
  <2> QED
    BY <1>8, <2>2, <2>3, <2>4 DEF Complete, cycleVars, TypeOK
<1>9. ASSUME NEW s \in sending, Fail(s) PROVE TypeOK'
  <2>1. s.log \in SUBSET Article
    BY DEF TypeOK
  <2>2. queue' \subseteq SUBSET Article
    BY <1>9, <2>1 DEF Fail, TypeOK
  <2>3. sending' \subseteq [log : SUBSET Article, seen : Date \cup {NoDate}]
    BY <1>9 DEF Fail, TypeOK
  <2> QED
    BY <1>9, <2>2, <2>3 DEF Fail, cycleVars, TypeOK
<1>10. CASE UNCHANGED vars
  BY <1>10 DEF vars, TypeOK
<1> QED
  BY <1>1, <1>2, <1>3, <1>4, <1>5, <1>6, <1>7, <1>8, <1>9, <1>10 DEF Next

(* Cycles, batches, logs and the watermark keep their shape, and no        *)
(* article is stored by two cycles, for any articles and dates.            *)
THEOREM TypeCorrect == Spec => []TypeOK
<1>1. ASSUME Init PROVE TypeOK
  <2>1. 0 \in Nat /\ sent \in Seq(SUBSET Article) /\ queue = {} /\ sending = {}
    BY <1>1 DEF Init
  <2> QED
    BY <1>1, <2>1 DEF Init, TypeOK
<1> QED
  BY <1>1, TypeStep, PTL DEF Spec

-----------------------------------------------------------------------------
(* The order of the articles.  As long as no two deliveries have           *)
(* overlapped, the watermark is above all that was delivered; so what a    *)
(* cycle has read is above what was delivered when it began, and what its  *)
(* jobs have or had in hand is not below what it has read.                 *)

MarkAbove == ~overlap => \A k \in 1 .. Len(sent) : \A b \in sent[k] : PublishedAt(b) <= mark

SeenAbove == \A c \in Cycle :
  /\ begun[c] <= Len(sent)
  /\ \A k \in 1 .. begun[c] : \A b \in sent[k] : PublishedAt(b) <= seen[c]

InHand == \A c \in Cycle :
  /\ phase[c] \in {"idle", "search"} => jobs[c] = {} /\ stored[c] = {}
  /\ \A a \in jobs[c] \cup stored[c] : NotBefore(SearchDate[a], seen[c])

IInv == TypeOK /\ MarkAbove /\ SeenAbove /\ InHand

LEMMA MarkStep == IInv /\ [Next]_vars => MarkAbove'
<1> SUFFICES ASSUME IInv, [Next]_vars PROVE MarkAbove'
  OBVIOUS
<1> USE DEF IInv
<1>1. ASSUME NEW s \in sending, Complete(s) PROVE MarkAbove'
  <2> SUFFICES ASSUME ~overlap', NEW k \in 1 .. Len(sent'), NEW b \in sent'[k]
               PROVE  PublishedAt(b) <= mark'
    BY DEF MarkAbove
  <2>1. s.log \in SUBSET Article /\ sent \in Seq(SUBSET Article) /\ Len(sent) \in Nat
    BY DEF TypeOK
  <2>2. ~overlap /\ mark = s.seen /\ mark' = Advanced(s) /\ sent' = Append(sent, s.log)
    BY <1>1 DEF Complete
  <2>3. mark \in Nat /\ Newest(s.log) \in Nat
    BY <2>1, NewestIsNewest DEF TypeOK, Date, NoDate
  <2>4. mark <= mark' /\ Newest(s.log) <= mark'
    BY <2>2, <2>3 DEF Advanced
  <2>5. CASE k = Len(sent) + 1
    <3>1. b \in s.log
      BY <2>1, <2>2, <2>5
    <3>2. Newest(s.log) >= PublishedAt(b) /\ PublishedAt(b) \in Nat
      BY <2>1, <3>1, NewestIsNewest, DatesAreNat
    <3>3. mark' \in Nat
      BY <2>2, <2>3 DEF Advanced
    <3> QED
      BY <2>3, <2>4, <3>2, <3>3
  <2>6. CASE k # Len(sent) + 1
    <3>1. k \in 1 .. Len(sent) /\ sent'[k] = sent[k] /\ sent[k] \in SUBSET Article
      BY <2>1, <2>2, <2>6
    <3>2. PublishedAt(b) <= mark /\ PublishedAt(b) \in Nat
      BY <2>2, <3>1, DatesAreNat DEF MarkAbove
    <3>3. mark' \in Nat
      BY <2>2, <2>3 DEF Advanced
    <3> QED
      BY <2>3, <2>4, <3>2, <3>3
  <2> QED
    BY <2>5, <2>6
<1>2. CASE UNCHANGED <<mark, sent, overlap>>
  BY <1>2 DEF MarkAbove
<1> QED
  BY <1>1, <1>2 DEF Next, vars, sendVars, Begin, Select, Sweep, Store, Drop, StoreLate, Deliver, Fail

LEMMA SeenStep == IInv /\ [Next]_vars => SeenAbove'
<1> SUFFICES ASSUME IInv, [Next]_vars PROVE SeenAbove'
  OBVIOUS
<1> USE DEF IInv
<1>1. ASSUME NEW c \in Cycle, Begin(c) PROVE SeenAbove'
  <2>1. /\ begun' = [begun EXCEPT ![c] = IF overlap THEN 0 ELSE Len(sent)]
        /\ seen' = [seen EXCEPT ![c] = mark] /\ sent' = sent
    BY <1>1 DEF Begin, sendVars
  <2>2. Len(sent) \in Nat
    BY DEF TypeOK
  <2>3. ASSUME NEW d \in Cycle
        PROVE /\ begun'[d] <= Len(sent)
              /\ \A k \in 1 .. begun'[d] : \A b \in sent[k] : PublishedAt(b) <= seen'[d]
    <3>1. CASE d = c /\ overlap
      <4>1. begun'[d] = 0
        BY <2>1, <3>1 DEF TypeOK
      <4> QED
        BY <2>2, <4>1
    <3>2. CASE d = c /\ ~overlap
      <4>1. begun'[d] = Len(sent) /\ seen'[d] = mark
        BY <2>1, <3>2 DEF TypeOK
      <4> QED
        BY <2>2, <3>2, <4>1 DEF MarkAbove
    <3>3. CASE d # c
      <4>1. begun'[d] = begun[d] /\ seen'[d] = seen[d]
        BY <2>1, <3>3 DEF TypeOK
      <4> QED
        BY <4>1 DEF SeenAbove
    <3> QED
      BY <3>1, <3>2, <3>3
  <2> QED
    BY <2>1, <2>3 DEF SeenAbove
<1>2. ASSUME NEW s \in sending, Complete(s) PROVE SeenAbove'
  <2>1. sent' = Append(sent, s.log) /\ begun' = begun /\ seen' = seen
    BY <1>2 DEF Complete, cycleVars
  <2>2. sent \in Seq(SUBSET Article) /\ begun \in [Cycle -> Nat] /\ Len(sent) \in Nat
    BY DEF TypeOK
  <2>3. Len(sent') = Len(sent) + 1 /\ \A k \in 1 .. Len(sent) : sent'[k] = sent[k]
    BY <2>1, <2>2
  <2>4. ASSUME NEW c \in Cycle
        PROVE /\ begun[c] <= Len(sent')
              /\ \A k \in 1 .. begun[c] : \A b \in sent'[k] : PublishedAt(b) <= seen[c]
    <3>1. begun[c] \in Nat /\ begun[c] <= Len(sent)
      BY <2>2 DEF SeenAbove
    <3>2. \A k \in 1 .. begun[c] : sent'[k] = sent[k]
      BY <2>2, <2>3, <3>1
    <3> QED
      BY <2>2, <2>3, <3>1, <3>2 DEF SeenAbove
  <2> QED
    BY <2>1, <2>4 DEF SeenAbove
<1>3. CASE UNCHANGED <<seen, begun, sent>>
  BY <1>3 DEF SeenAbove
<1> QED
  BY <1>1, <1>2, <1>3
     DEF Next, vars, sendVars, cycleVars, Select, Sweep, Store, Drop, StoreLate, Deliver, Fail

(* A step that stores at most what it had in hand keeps InHand. *)
LEMMA InHandKept ==
  ASSUME IInv, seen' = seen,
         \A c \in Cycle : /\ jobs'[c] \cup stored'[c] \subseteq jobs[c] \cup stored[c]
                          /\ phase'[c] = phase[c] \/ phase'[c] = "closed"
  PROVE InHand'
BY DEF IInv, InHand

LEMMA InHandStep == IInv /\ [Next]_vars => InHand'
<1> SUFFICES ASSUME IInv, [Next]_vars PROVE InHand'
  OBVIOUS
<1>0. TypeOK /\ InHand
  BY DEF IInv
<1>1. ASSUME NEW c \in Cycle, Begin(c) PROVE InHand'
  <2>1. ASSUME NEW d \in Cycle PROVE /\ jobs'[d] = jobs[d] /\ stored'[d] = stored[d]
                                     /\ d # c => seen'[d] = seen[d] /\ phase'[d] = phase[d]
    BY <1>0, <1>1 DEF Begin, TypeOK
  <2>2. jobs[c] = {} /\ stored[c] = {}
    BY <1>0, <1>1 DEF Begin, InHand
  <2> QED
    BY <1>0, <2>1, <2>2 DEF InHand
<1>2. ASSUME NEW c \in Cycle, Select(c) PROVE InHand'
  <2>1. PICK found \in SUBSET Article :
          /\ jobs' = [jobs EXCEPT ![c] = Unstale(found, c)]
          /\ phase' = [phase EXCEPT ![c] = IF Unstale(found, c) = {} THEN "closed" ELSE "open"]
    BY <1>2 DEF Select
  <2>2. seen' = seen /\ stored' = stored /\ stored[c] = {}
    BY <1>0, <1>2 DEF Select, InHand
  <2>3. \A d \in Cycle : d # c => jobs'[d] = jobs[d] /\ phase'[d] = phase[d]
    BY <1>0, <2>1 DEF TypeOK
  <2>4. jobs'[c] = Unstale(found, c) /\ phase'[c] \in {"closed", "open"}
    BY <1>0, <2>1 DEF TypeOK
  <2>5. \A a \in jobs'[c] : NotBefore(SearchDate[a], seen[c])
    BY <2>4 DEF Unstale
  <2> QED
    BY <1>0, <2>2, <2>3, <2>4, <2>5 DEF InHand
<1>3. ASSUME NEW c \in Cycle, Sweep(c) PROVE InHand'
  <2>1. seen' = seen /\ jobs' = jobs /\ stored' = stored
    BY <1>3 DEF Sweep
  <2>2. \A d \in Cycle : phase'[d] = phase[d] \/ phase'[d] = "closed"
    BY <1>0, <1>3 DEF Sweep, Close, TypeOK
  <2> QED
    BY <2>1, <2>2, InHandKept
<1>4. ASSUME NEW c \in Cycle, NEW a \in Article, NEW items, a \in jobs[c],
             Resolve(c, a, items), seen' = seen,
             stored' = [stored EXCEPT ![c] = @ \cup {a}] \/ stored' = stored
      PROVE InHand'
  <2>1. \A d \in Cycle : jobs'[d] \subseteq jobs[d]
    BY <1>0, <1>4 DEF Resolve, TypeOK
  <2>2. \A d \in Cycle : stored'[d] \subseteq jobs[d] \cup stored[d]
    BY <1>0, <1>4 DEF TypeOK
  <2>3. \A d \in Cycle : phase'[d] = phase[d] \/ phase'[d] = "closed"
    BY <1>0, <1>4 DEF Resolve, Close, TypeOK
  <2> QED
    BY <1>4, <2>1, <2>2, <2>3, InHandKept
<1>5. ASSUME NEW c \in Cycle, NEW a \in Article, Store(c, a) PROVE InHand'
  BY <1>4, <1>5 DEF Store
<1>6. ASSUME NEW c \in Cycle, NEW a \in Article, Drop(c, a) PROVE InHand'
  BY <1>4, <1>6 DEF Drop
<1>7. ASSUME NEW c \in Cycle, NEW a \in Article, StoreLate(c, a) PROVE InHand'
  <2>1. \A d \in Cycle : jobs'[d] \subseteq jobs[d]
    BY <1>0, <1>7 DEF StoreLate, TypeOK
  <2>2. \A d \in Cycle : stored'[d] \subseteq jobs[d] \cup stored[d]
    BY <1>0, <1>7 DEF StoreLate, TypeOK
  <2> QED
    BY <1>7, <2>1, <2>2, InHandKept DEF StoreLate
<1>8. CASE UNCHANGED cycleVars
  BY <1>0, <1>8 DEF cycleVars, InHand
<1> QED
  BY <1>1, <1>2, <1>3, <1>5, <1>6, <1>7, <1>8 DEF Next, vars, cycleVars, Deliver, Complete, Fail

LEMMA Inductive == Spec => []IInv
<1>1. ASSUME Init PROVE IInv
  <2>1. TypeOK
    <3>1. 0 \in Nat /\ sent \in Seq(SUBSET Article) /\ queue = {} /\ sending = {}
      BY <1>1 DEF Init
    <3> QED
      BY <1>1, <3>1 DEF Init, TypeOK
  <2>2. Len(sent) = 0
    BY <1>1 DEF Init
  <2>3. MarkAbove /\ SeenAbove
    BY <1>1, <2>2 DEF Init, MarkAbove, SeenAbove
  <2>4. InHand
    BY <1>1 DEF Init, InHand
  <2> QED
    BY <2>1, <2>3, <2>4 DEF IInv
<1>2. IInv /\ [Next]_vars => IInv'
  BY TypeStep, MarkStep, SeenStep, InHandStep DEF IInv
<1> QED
  BY <1>1, <1>2, PTL DEF Spec

(* tasks.py:158-160: an article that the search dated never arrives after  *)
(* a newer one whose delivery was complete when its cycle began, if no two *)
(* deliveries had overlapped by then; for any articles and dates and any   *)
(* number of cycles.                                                       *)
THEOREM NoStraggler == Spec => []LateOnlyInFlight
<1>1. ASSUME IInv PROVE LateOnlyInFlight
  <2> SUFFICES ASSUME NEW c \in Cycle, NEW k \in 1 .. Len(sent), k <= begun[c],
                      NEW a \in stored[c], NEW b \in sent[k], SearchDate[a] # NoDate
               PROVE  PublishedAt(a) >= PublishedAt(b)
    BY DEF LateOnlyInFlight
  <2>1. a \in Article /\ b \in Article /\ seen[c] \in Nat /\ begun[c] \in Nat
    <3>1. sent[k] \in SUBSET Article
      BY <1>1 DEF IInv, TypeOK
    <3> QED
      BY <1>1, <3>1 DEF IInv, TypeOK, Date, NoDate
  <2>2. PublishedAt(b) <= seen[c]
    BY <1>1, <2>1 DEF IInv, SeenAbove
  <2>3. NotBefore(SearchDate[a], seen[c])
    BY <1>1 DEF IInv, InHand
  <2>4. /\ PublishedAt(a) = SearchDate[a] /\ SearchDate[a] \in Nat
        /\ PublishedAt(b) \in Nat
    BY <2>1, DatesAreNat DEF NoDate
  <2> QED
    BY <2>1, <2>2, <2>3, <2>4 DEF NotBefore, NoDate
<1> QED
  BY <1>1, Inductive, PTL

-----------------------------------------------------------------------------
(* Where an article is.  What a cycle stores waits in its open batch, then *)
(* it is in one log, which is queued, being sent or sent; no other batch   *)
(* and no other log has it, however often a delivery fails and is retried. *)

(* The articles of all the logs. *)
Out == UNION (queue \cup {s.log : s \in sending} \cup {sent[k] : k \in DOMAIN sent})

NoneEmpty == /\ {} \notin queue
             /\ \A s \in sending : s.log # {}
             /\ \A k \in DOMAIN sent : sent[k] # {}

NoneShared ==
  /\ \A log, other \in queue : log # other => log \cap other = {}
  /\ \A s, t \in sending : s # t => s.log \cap t.log = {}
  /\ \A k, m \in DOMAIN sent : k # m => sent[k] \cap sent[m] = {}
  /\ \A log \in queue, s \in sending : log \cap s.log = {}
  /\ \A log \in queue, k \in DOMAIN sent : log \cap sent[k] = {}
  /\ \A s \in sending, k \in DOMAIN sent : s.log \cap sent[k] = {}

Waiting == /\ Out \subseteq Stored
           /\ \A c \in Cycle : /\ batch[c] \subseteq stored[c]
                               /\ stored[c] \subseteq batch[c] \cup Out
                               /\ batch[c] \cap Out = {}
                               /\ phase[c] # "open" => batch[c] = {}

OnePlace == NoneEmpty /\ NoneShared /\ Waiting

LEMMA OutIs == \A a : a \in Out <=> \/ \E log \in queue : a \in log
                                    \/ \E s \in sending : a \in s.log
                                    \/ \E k \in DOMAIN sent : a \in sent[k]
BY DEF Out

LEMMA OutNext == \A a : a \in Out' <=> \/ \E log \in queue' : a \in log
                                       \/ \E s \in sending' : a \in s.log
                                       \/ \E k \in DOMAIN sent' : a \in sent'[k]
BY DEF Out

(* A log is made of items that no log has. *)
LEMMA LogIsNew ==
  ASSUME NoneEmpty, NoneShared, NEW items, items \cap Out = {},
         queue' = queue \cup ({items} \ {{}}), UNCHANGED <<sending, sent>>
  PROVE  NoneEmpty' /\ NoneShared' /\ Out' = Out \cup items
<1>1. /\ \A log \in queue : log \cap items = {}
      /\ \A s \in sending : s.log \cap items = {}
      /\ \A k \in DOMAIN sent : sent[k] \cap items = {}
  BY OutIs
<1>2. NoneEmpty'
  BY DEF NoneEmpty
<1>3. NoneShared'
  BY <1>1 DEF NoneShared
<1>4. ASSUME NEW a PROVE a \in Out' <=> a \in Out \cup items
  BY OutIs, OutNext
<1> QED
  BY <1>2, <1>3, <1>4

(* What a job takes into the items of its cycle is new, if it stores any, *)
(* and goes into the batch or, with the batch, into a log.                 *)
TakesIn(c, a, items) ==
  \/ /\ stored' = [stored EXCEPT ![c] = @ \cup {a}] /\ a \notin Stored
     /\ items = batch[c] \cup {a}
  \/ stored' = stored /\ items = batch[c]

Keeps(c, items) == batch' = [batch EXCEPT ![c] = items] /\ UNCHANGED phase /\ phase[c] = "open"

LEMMA WaitingKept ==
  ASSUME TypeOK, Waiting, NEW c \in Cycle, NEW items, NEW a \in Article,
         TakesIn(c, a, items),
         (Close(c, items) /\ Out' = Out \cup items) \/ (Keeps(c, items) /\ Out' = Out)
  PROVE  Waiting'
<1>1. /\ \A d \in Cycle : d # c => /\ stored'[d] = stored[d] /\ batch'[d] = batch[d]
                                   /\ phase'[d] = phase[d]
      /\ stored[c] \subseteq stored'[c] /\ items \subseteq stored'[c]
      /\ stored'[c] \subseteq items \cup Out
  BY DEF TypeOK, Close, Waiting, TakesIn, Keeps
<1>2. \A b : b \in Stored' <=> \E d \in Cycle : b \in stored'[d]
  BY DEF Stored
<1>3. Stored \subseteq Stored' /\ items \subseteq Stored'
  BY <1>1, <1>2, StoredIs
<1>4. Out' \subseteq Stored'
  BY <1>3 DEF Waiting
<1>5. \A d \in Cycle : d # c => batch[d] \cap items = {}
  BY StoredIs DEF Waiting, TypeOK, TakesIn
<1>6. ASSUME NEW d \in Cycle, d # c
      PROVE /\ batch'[d] \subseteq stored'[d] /\ batch'[d] \cap Out' = {}
            /\ stored'[d] \subseteq batch'[d] \cup Out'
            /\ phase'[d] # "open" => batch'[d] = {}
  BY <1>1, <1>5, <1>6 DEF Waiting
<1>7. CASE Close(c, items) /\ Out' = Out \cup items
  <2>1. batch'[c] = {}
    BY <1>7 DEF Close, TypeOK
  <2> QED
    BY <1>1, <1>4, <1>6, <1>7, <2>1 DEF Waiting
<1>8. CASE Keeps(c, items) /\ Out' = Out
  <2>1. batch'[c] = items /\ phase'[c] = "open"
    BY <1>8 DEF Keeps, TypeOK
  <2>2. items \cap Out = {}
    BY DEF Waiting, TakesIn
  <2> QED
    BY <1>1, <1>4, <1>6, <1>8, <2>1, <2>2 DEF Waiting
<1> QED
  BY <1>7, <1>8

(* The steps of a cycle and its jobs. *)
LEMMA CycleKeepsPlaces ==
  ASSUME TypeOK, OnePlace, NEW c \in Cycle, NEW items, NEW a \in Article,
         TakesIn(c, a, items),
         UNCHANGED <<sending, sent>>,
         Close(c, items) \/ (Keeps(c, items) /\ UNCHANGED queue)
  PROVE  OnePlace'
<1>1. items \cap Out = {}
  BY DEF OnePlace, Waiting, TakesIn
<1>2. CASE Close(c, items)
  <2>1. NoneEmpty' /\ NoneShared' /\ Out' = Out \cup items
    BY <1>1, <1>2, LogIsNew DEF Close, OnePlace
  <2> QED
    BY <1>2, <2>1, WaitingKept DEF OnePlace
<1>3. CASE Keeps(c, items) /\ UNCHANGED queue
  <2>1. NoneEmpty' /\ NoneShared' /\ Out' = Out
    BY <1>3 DEF NoneEmpty, NoneShared, Out, OnePlace
  <2> QED
    BY <1>3, <2>1, WaitingKept DEF OnePlace
<1> QED
  BY <1>2, <1>3

(* The steps of a delivery move a log on. *)
LEMMA DeliveryKeepsPlaces ==
  ASSUME OnePlace, NoneEmpty', NoneShared', Out' = Out, UNCHANGED <<batch, stored, phase>>
  PROVE  OnePlace'
BY DEF OnePlace, Waiting, Stored

LEMMA PlaceStep == TypeOK /\ OnePlace /\ [Next]_vars => OnePlace'
<1> SUFFICES ASSUME TypeOK, OnePlace, [Next]_vars PROVE OnePlace'
  OBVIOUS
<1>0. NoneEmpty /\ NoneShared /\ Waiting
  BY DEF OnePlace
<1>1. ASSUME NEW c \in Cycle, Begin(c) \/ Select(c) PROVE OnePlace'
  <2>1. UNCHANGED <<batch, stored, queue, sending, sent>>
    BY <1>1 DEF Begin, Select, sendVars
  <2>2. batch[c] = {}
    BY <1>0, <1>1 DEF Begin, Select, Waiting
  <2>3. \A d \in Cycle : d # c => phase'[d] = phase[d]
    BY <1>1 DEF Begin, Select, TypeOK
  <2>4. NoneEmpty' /\ NoneShared' /\ Out' = Out /\ Stored' = Stored
    BY <1>0, <2>1 DEF NoneEmpty, NoneShared, Out, Stored
  <2> QED
    BY <1>0, <2>1, <2>2, <2>3, <2>4 DEF OnePlace, Waiting
<1>2. ASSUME NEW c \in Cycle, NEW a \in Article, Store(c, a) PROVE OnePlace'
  <2>1. TakesIn(c, a, batch[c] \cup {a}) /\ UNCHANGED <<sending, sent>>
    BY <1>2 DEF Store, TakesIn, sendVars
  <2>2. Close(c, batch[c] \cup {a}) \/ (Keeps(c, batch[c] \cup {a}) /\ UNCHANGED queue)
    BY <1>2 DEF Store, Resolve, Keeps
  <2> QED
    BY <2>1, <2>2, CycleKeepsPlaces
<1>3. ASSUME NEW c \in Cycle, NEW a \in Article, Drop(c, a) PROVE OnePlace'
  <2>1. TakesIn(c, a, batch[c]) /\ UNCHANGED <<sending, sent>>
    BY <1>3 DEF Drop, TakesIn, sendVars
  <2>2. Close(c, batch[c]) \/ (Keeps(c, batch[c]) /\ UNCHANGED queue)
    BY <1>3 DEF Drop, Resolve, Keeps
  <2> QED
    BY <2>1, <2>2, CycleKeepsPlaces
<1>4. ASSUME NEW c \in Cycle, NEW a \in Article, StoreLate(c, a) PROVE OnePlace'
  <2>1. /\ a \notin Stored /\ phase[c] = "closed" /\ stored' = [stored EXCEPT ![c] = @ \cup {a}]
        /\ queue' = queue \cup {{a}} /\ UNCHANGED <<phase, batch, sending, sent>>
    BY <1>4 DEF StoreLate, sendVars
  <2>2. {a} \cap Out = {} /\ queue' = queue \cup ({{a}} \ {{}})
    BY <1>0, <2>1 DEF Waiting
  <2>3. NoneEmpty' /\ NoneShared' /\ Out' = Out \cup {a}
    BY <1>0, <2>1, <2>2, LogIsNew
  <2>4. \A b : b \in Stored' <=> \E d \in Cycle : b \in stored'[d]
    BY DEF Stored
  <2>5. \A d \in Cycle : stored'[d] = IF d = c THEN stored[c] \cup {a} ELSE stored[d]
    BY <2>1 DEF TypeOK
  <2>6. Stored' = Stored \cup {a}
    BY <2>4, <2>5, StoredIs
  <2>7. \A d \in Cycle : a \notin batch[d]
    BY <1>0, <2>1, StoredIs DEF Waiting
  <2>8. Waiting'
    BY <1>0, <2>1, <2>3, <2>5, <2>6, <2>7 DEF Waiting
  <2> QED
    BY <2>3, <2>8 DEF OnePlace
<1>5. ASSUME NEW c \in Cycle, Sweep(c) PROVE OnePlace'
  <2>1. Close(c, batch[c]) /\ UNCHANGED <<stored, sending, sent>>
    BY <1>5 DEF Sweep, sendVars
  <2>2. batch[c] \cap Out = {} /\ \A d \in Cycle : d # c => batch[d] \cap batch[c] = {}
    BY <1>0 DEF Waiting, TypeOK
  <2>3. NoneEmpty' /\ NoneShared' /\ Out' = Out \cup batch[c]
    BY <1>0, <2>1, <2>2, LogIsNew DEF Close
  <2>4. \A d \in Cycle : /\ d # c => batch'[d] = batch[d] /\ phase'[d] = phase[d]
                         /\ d = c => batch'[d] = {}
    BY <2>1 DEF Close, TypeOK
  <2>5. Stored' = Stored /\ batch[c] \subseteq Stored
    BY <1>0, <2>1, StoredIs DEF Stored, Waiting
  <2>6. Waiting'
    BY <1>0, <2>1, <2>2, <2>3, <2>4, <2>5 DEF Waiting
  <2> QED
    BY <2>3, <2>6 DEF OnePlace
<1>6. ASSUME NEW log \in queue, Deliver(log) PROVE OnePlace'
  <2> DEFINE r == [log |-> log, seen |-> mark]
  <2>1. r.log = log
    OBVIOUS
  <2>2. /\ queue' = queue \ {log} /\ sending' = sending \cup {r}
        /\ UNCHANGED <<sent, batch, stored, phase>>
    BY <1>6 DEF Deliver, cycleVars
  <2> HIDE DEF r
  <2>3. NoneEmpty'
    BY <1>0, <2>1, <2>2 DEF NoneEmpty
  <2>4. NoneShared'
    BY <1>0, <2>1, <2>2 DEF NoneShared
  <2>5. ASSUME NEW a PROVE a \in Out' <=> a \in Out
    BY <2>1, <2>2, OutIs, OutNext
  <2> QED
    BY <2>2, <2>3, <2>4, <2>5, DeliveryKeepsPlaces
<1>7. ASSUME NEW s \in sending, Fail(s) PROVE OnePlace'
  <2>1. /\ queue' = queue \cup {s.log} /\ sending' = sending \ {s}
        /\ UNCHANGED <<sent, batch, stored, phase>>
    BY <1>7 DEF Fail, cycleVars
  <2>2. NoneEmpty'
    BY <1>0, <2>1 DEF NoneEmpty
  <2>3. NoneShared'
    BY <1>0, <2>1 DEF NoneShared
  <2>4. ASSUME NEW a PROVE a \in Out' <=> a \in Out
    BY <2>1, OutIs, OutNext
  <2> QED
    BY <2>1, <2>2, <2>3, <2>4, DeliveryKeepsPlaces
<1>8. ASSUME NEW s \in sending, Complete(s) PROVE OnePlace'
  <2>1. /\ sending' = sending \ {s} /\ sent' = Append(sent, s.log)
        /\ UNCHANGED <<queue, batch, stored, phase>>
    BY <1>8 DEF Complete, cycleVars
  <2>2. sent \in Seq(SUBSET Article) /\ s.log \in SUBSET Article /\ Len(sent) \in Nat
    BY DEF TypeOK
  <2>3. /\ DOMAIN sent' = DOMAIN sent \cup {Len(sent) + 1} /\ Len(sent) + 1 \notin DOMAIN sent
        /\ sent'[Len(sent) + 1] = s.log /\ \A k \in DOMAIN sent : sent'[k] = sent[k]
    BY <2>1, <2>2
  <2>4. PICK new : /\ DOMAIN sent' = DOMAIN sent \cup {new} /\ new \notin DOMAIN sent
                   /\ sent'[new] = s.log /\ \A k \in DOMAIN sent : sent'[k] = sent[k]
    BY <2>3
  <2>5. NoneEmpty'
    BY <1>0, <2>1, <2>4 DEF NoneEmpty
  <2>6. NoneShared'
    BY <1>0, <2>1, <2>4 DEF NoneShared
  <2>7. ASSUME NEW a PROVE a \in Out' <=> a \in Out
    BY <2>1, <2>4, OutIs, OutNext
  <2> QED
    BY <2>1, <2>5, <2>6, <2>7, DeliveryKeepsPlaces
<1>9. CASE UNCHANGED vars
  <2>1. NoneEmpty' /\ NoneShared' /\ Out' = Out
    BY <1>0, <1>9 DEF vars, NoneEmpty, NoneShared, Out
  <2> QED
    BY <1>9, <2>1, DeliveryKeepsPlaces DEF vars
<1> QED
  BY <1>1, <1>2, <1>3, <1>4, <1>5, <1>6, <1>7, <1>8, <1>9 DEF Next

LEMMA Places == Spec => []OnePlace
<1>1. ASSUME Init PROVE OnePlace
  <2>1. DOMAIN sent = {} /\ queue = {} /\ sending = {}
    BY <1>1 DEF Init
  <2>2. Out = {}
    BY <2>1, OutIs
  <2> QED
    BY <1>1, <2>1, <2>2 DEF Init, OnePlace, NoneEmpty, NoneShared, Waiting
<1> QED
  BY <1>1, PlaceStep, TypeCorrect, PTL DEF Spec

(* tasks.py:502-511: a delivery that fails is retried with the same log    *)
(* and a late job's item gets a log of its own; no article is in two logs  *)
(* that are delivered, for any articles and any number of cycles.          *)
THEOREM ArrivesOnce ==
  Spec => [](\A k, m \in DOMAIN sent : k # m => sent[k] \cap sent[m] = {})
<1>1. OnePlace => \A k, m \in DOMAIN sent : k # m => sent[k] \cap sent[m] = {}
  BY DEF OnePlace, NoneShared
<1> QED
  BY <1>1, Places, PTL

(* What a cycle has stored waits in its batch, which is still open, or it  *)
(* is in a log.                                                            *)
NothingLost == \A c \in Cycle : \A a \in stored[c] :
  \/ a \in batch[c] /\ phase[c] = "open"
  \/ \E log \in queue : a \in log
  \/ \E s \in sending : a \in s.log
  \/ \E k \in DOMAIN sent : a \in sent[k]

(* batching.py:41-54, 106-127, tasks.py:502-511: neither a sweep nor a     *)
(* failed delivery nor a late job loses a stored article, for any articles *)
(* and any number of cycles.  StoreLate is one step here; Batching has the *)
(* two commits it consists of, and what an interrupt between them loses.   *)
THEOREM NoArticleLost == Spec => []NothingLost
<1>1. ASSUME OnePlace PROVE NothingLost
  BY <1>1, OutIs DEF OnePlace, Waiting, NothingLost
<1> QED
  BY <1>1, Places, PTL

-----------------------------------------------------------------------------
(* The abstract watermark: the logs that come out of the cycles are its    *)
(* deliveries, and those in sent are the delivered ones.                   *)

SentLogs == {sent[k] : k \in DOMAIN sent}

Mark == INSTANCE Watermark WITH Log <- SUBSET Article,
          LatestDate <- [log \in SUBSET Article |-> Newest(log)], delivered <- SentLogs

LEMMA DeliverBegins ==
  ASSUME TypeOK, OnePlace, NEW log \in queue, Deliver(log)
  PROVE  log \in SUBSET Article /\ Mark!Begin(log)
<1>1. log \in SUBSET Article /\ log # {}
  BY DEF TypeOK, OnePlace, NoneEmpty
<1>2. log \notin SentLogs /\ \A s \in sending : s.log # log
  BY <1>1 DEF OnePlace, NoneShared, SentLogs
<1>3. SentLogs' = SentLogs
  BY DEF Deliver, SentLogs
<1> QED
  BY <1>1, <1>2, <1>3 DEF Deliver, Mark!Begin

LEMMA CompleteCompletes ==
  ASSUME TypeOK, OnePlace, NEW s \in sending, Complete(s)
  PROVE  Mark!Complete(s)
<1>1. s.log \in SUBSET Article /\ s.log # {}
  BY DEF TypeOK, OnePlace, NoneEmpty
<1>2. s.log \notin SentLogs
  BY <1>1 DEF OnePlace, NoneShared, SentLogs
<1>3. SentLogs' = SentLogs \cup {s.log}
  <2>1. sent \in Seq(SUBSET Article) /\ sent' = Append(sent, s.log)
    BY DEF Complete, TypeOK
  <2>2. /\ DOMAIN sent' = DOMAIN sent \cup {Len(sent) + 1} /\ Len(sent) + 1 \notin DOMAIN sent
        /\ sent'[Len(sent) + 1] = s.log /\ \A k \in DOMAIN sent : sent'[k] = sent[k]
    BY <1>1, <2>1
  <2> QED
    BY <2>2 DEF SentLogs
<1>4. [log \in SUBSET Article |-> Newest(log)][s.log] = Newest(s.log)
  BY <1>1
<1> QED
  BY <1>2, <1>3, <1>4 DEF Complete, Advanced, Mark!Complete

LEMMA WatermarkStep == TypeOK /\ OnePlace /\ [Next]_vars => [Mark!Next]_(Mark!wvars)
<1> SUFFICES ASSUME TypeOK, OnePlace, [Next]_vars PROVE [Mark!Next]_(Mark!wvars)
  OBVIOUS
<1>1. ASSUME NEW log \in queue, Deliver(log) PROVE Mark!Next
  BY <1>1, DeliverBegins DEF Mark!Next
<1>2. ASSUME NEW s \in sending, Complete(s) PROVE Mark!Next
  BY <1>2, CompleteCompletes DEF Mark!Next
<1>3. ASSUME NEW s \in sending, Fail(s) PROVE Mark!Next
  BY <1>3 DEF Fail, SentLogs, Mark!Abandon, Mark!Next
<1>4. CASE UNCHANGED <<mark, sending, sent>>
  BY <1>4 DEF SentLogs, Mark!wvars
<1> QED
  BY <1>1, <1>2, <1>3, <1>4
     DEF Next, vars, sendVars, Begin, Select, Sweep, Store, Drop, StoreLate

(* The order of the articles is decided by the same watermark that         *)
(* Delivery keeps: cycles, batches and retried logs implement Watermark,   *)
(* which Delivery implements with its jobs, rows and receivers.            *)
THEOREM ImplementsWatermark == Spec => Mark!Spec
<1>1. Init => Mark!Init
  BY DEF Init, SentLogs, Mark!Init, NoDate
<1>2. Mark!Spec <=> Mark!Init /\ [][Mark!Next]_(Mark!wvars)
  BY DEF Mark!Spec
<1> QED
  BY <1>1, <1>2, WatermarkStep, Places, TypeCorrect, PTL DEF Spec
=============================================================================
