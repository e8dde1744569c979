--------------------------- MODULE PipelineProofs ---------------------------
(***************************************************************************)
(* Proofs about the pure parts of the pipeline, for lists of any length,   *)
(* any settings and fingerprints of any width.                             *)
(***************************************************************************)
EXTENDS Pipeline, FiniteSetTheorems, SequenceTheorems, FunctionTheorems, TLAPS

(***************************************************************************)
(* Positions and their order.                                              *)
(***************************************************************************)
(* upTo[i], of the positions that come no later than i, is a total order.  *)
Orders(upTo, P) == /\ \A i \in P : i \in upTo[i] /\ upTo[i] \subseteq P
                   /\ \A i, j \in P : /\ j \in upTo[i] => upTo[j] \subseteq upTo[i]
                                      /\ j \in upTo[i] /\ i \in upTo[j] => i = j
                                      /\ j \in upTo[i] \/ i \in upTo[j]

LEMMA RanksAreDistinct ==
  ASSUME NEW P, IsFiniteSet(P), NEW upTo, Orders(upTo, P)
  PROVE  [i \in P |-> Cardinality(upTo[i])] \in Bijection(P, 1 .. Cardinality(P))
<1> DEFINE rank == [i \in P |-> Cardinality(upTo[i])]
<1>1. \A i \in P : IsFiniteSet(upTo[i]) /\ rank[i] \in 1 .. Cardinality(P)
  <2> TAKE i \in P
  <2>1. upTo[i] \in SUBSET P /\ upTo[i] # {}
    BY DEF Orders
  <2>2. IsFiniteSet(upTo[i]) /\ Cardinality(upTo[i]) <= Cardinality(P)
    BY <2>1, FS_Subset
  <2>3. /\ Cardinality(upTo[i]) \in Nat /\ Cardinality(upTo[i]) # 0
        /\ Cardinality(P) \in Nat
    BY <2>1, <2>2, FS_EmptySet, FS_CardinalityType
  <2> QED
    BY <2>2, <2>3
<1>2. ASSUME NEW i \in P, NEW j \in P, j \in upTo[i], rank[i] = rank[j] PROVE i = j
  <2>1. upTo[j] \in SUBSET upTo[i] /\ IsFiniteSet(upTo[i])
    BY <1>1, <1>2 DEF Orders
  <2>2. upTo[j] = upTo[i]
    BY <1>2, <2>1, FS_Subset
  <2> QED
    BY <1>2, <2>2 DEF Orders
<1>3. \A i, j \in P : j \in upTo[i] \/ i \in upTo[j]
  BY DEF Orders
<1> HIDE DEF rank
<1>4. rank \in [P -> 1 .. Cardinality(P)]
  BY <1>1 DEF rank
<1>5. rank \in Injection(P, 1 .. Cardinality(P))
  BY <1>2, <1>3, <1>4, Fun_IsInj
<1>6. /\ IsFiniteSet(1 .. Cardinality(P))
      /\ Cardinality(1 .. Cardinality(P)) = Cardinality(P)
  <2>1. Cardinality(P) \in Nat
    BY FS_CardinalityType
  <2> QED
    BY <2>1, FS_Interval
<1>7. rank \in Surjection(P, 1 .. Cardinality(P))
  BY <1>5, <1>6, FS_Injection
<1> QED
  BY <1>5, <1>7 DEF Bijection, rank

(* Arranged takes each of the positions once, and in their order.          *)
LEMMA ArrangedInOrder ==
  ASSUME NEW s, NEW P, IsFiniteSet(P), NEW upTo, Orders(upTo, P)
  PROVE  /\ Cardinality(P) \in Nat
         /\ \E at \in Bijection(1 .. Cardinality(P), P) :
              /\ Arranged(s, P, upTo) = [k \in 1 .. Cardinality(P) |-> s[at[k]]]
              /\ \A k, l \in 1 .. Cardinality(P) : k <= l => at[k] \in upTo[at[l]]
<1> DEFINE n == Cardinality(P)
           at == [k \in 1 .. n |-> CHOOSE i \in P : Cardinality(upTo[i]) = k]
           rank == [i \in P |-> Cardinality(upTo[i])]
<1>1. n \in Nat
  BY FS_CardinalityType
<1>2. rank \in Bijection(P, 1 .. n)
  BY RanksAreDistinct
<1>3. /\ rank \in [P -> 1 .. n]
      /\ \A i, j \in P : rank[i] = rank[j] => i = j
      /\ \A k \in 1 .. n : \E i \in P : rank[i] = k
  <2> HIDE DEF rank, n
  <2> QED
    BY <1>2 DEF Bijection, Injection, Surjection, IsInjective
<1>4. \A k \in 1 .. n : at[k] \in P /\ rank[at[k]] = k
  <2> TAKE k \in 1 .. n
  <2>1. \E i \in P : Cardinality(upTo[i]) = k
    BY <1>3
  <2> HIDE DEF n
  <2> QED
    BY <2>1
<1>5. \A i \in P : rank[i] \in 1 .. n /\ at[rank[i]] = i
  <2> HIDE DEF rank, at
  <2> QED
    BY <1>3, <1>4
<1>6. at \in [1 .. n -> P]
  BY <1>4
<1>7. at \in Bijection(1 .. n, P)
  <2> HIDE DEF rank, at
  <2> QED
    BY <1>4, <1>5, <1>6 DEF Bijection, Injection, Surjection, IsInjective
<1>8. ASSUME NEW k \in 1 .. n, NEW l \in 1 .. n, k <= l PROVE at[k] \in upTo[at[l]]
  <2>1. at[k] \in P /\ at[l] \in P /\ rank[at[k]] = k /\ rank[at[l]] = l
    BY <1>4
  <2>2. CASE at[l] \in upTo[at[k]]
    <3> DEFINE x == at[k]
               y == at[l]
    <3>1. upTo[y] \in SUBSET upTo[x] /\ upTo[x] \in SUBSET P /\ x \in upTo[x]
      BY <2>1, <2>2 DEF Orders
    <3>2. IsFiniteSet(upTo[x])
      BY <3>1, FS_Subset
    <3>3. Cardinality(upTo[y]) <= Cardinality(upTo[x])
      BY <3>1, <3>2, FS_Subset
    <3>4. rank[y] = rank[x]
      BY <1>8, <2>1, <3>3
    <3>5. x = y
      <4> HIDE DEF rank, at
      <4> QED
        BY <1>3, <2>1, <3>4
    <3> QED
      BY <3>1, <3>5
  <2>3. CASE at[l] \notin upTo[at[k]]
    <3> HIDE DEF at
    <3> QED
      BY <2>1, <2>3 DEF Orders
  <2> QED
    BY <2>2, <2>3
<1>9. Arranged(s, P, upTo) = [k \in 1 .. n |-> s[at[k]]]
  BY DEF Arranged
<1> QED
  <2> HIDE DEF at
  <2> QED
    BY <1>1, <1>7, <1>8, <1>9

(* The elements of a are those of s at different positions, in their order. *)
InOrder(a, s, P, upTo) == \A k, l \in DOMAIN a : k # l =>
                             \E i, j \in P : /\ i # j /\ a[k] = s[i] /\ a[l] = s[j]
                                             /\ k <= l => i \in upTo[j]

(* What it makes of a list. *)
LEMMA ArrangedList ==
  ASSUME NEW S, NEW s \in Seq(S), NEW P \in SUBSET DOMAIN s, NEW upTo, Orders(upTo, P),
         NEW a, a = Arranged(s, P, upTo)
  PROVE  /\ IsFiniteSet(P) /\ a \in Seq(S) /\ Len(a) = Cardinality(P)
         /\ Range(a) = {s[i] : i \in P} /\ InOrder(a, s, P, upTo)
<1>1. DOMAIN s = 1 .. Len(s) /\ Len(s) \in Nat /\ \A i \in DOMAIN s : s[i] \in S
  BY LenProperties, ElementOfSeq
<1>2. IsFiniteSet(P)
  <2>1. IsFiniteSet(DOMAIN s)
    BY <1>1, FS_Interval
  <2> QED
    BY <2>1, FS_Subset
<1> DEFINE n == Cardinality(P)
<1>3. n \in Nat
  BY <1>2, FS_CardinalityType
<1>4. PICK at \in Bijection(1 .. n, P) :
        /\ a = [k \in 1 .. n |-> s[at[k]]]
        /\ \A k, l \in 1 .. n : k <= l => at[k] \in upTo[at[l]]
  BY <1>2, ArrangedInOrder
<1> HIDE DEF n
<1>5. /\ at \in [1 .. n -> P]
      /\ \A k, l \in 1 .. n : at[k] = at[l] => k = l
      /\ \A i \in P : \E k \in 1 .. n : at[k] = i
  BY <1>4 DEF Bijection, Injection, Surjection, IsInjective
<1>6. DOMAIN a = 1 .. n /\ \A k \in 1 .. n : at[k] \in P /\ a[k] = s[at[k]]
  BY <1>4, <1>5
<1>7. a \in [1 .. n -> S]
  BY <1>1, <1>4, <1>6
<1>8. a \in Seq(S) /\ Len(a) = n
  BY <1>3, <1>7, IsASeq, LenProperties
<1>9. Range(a) = {s[i] : i \in P}
  <2>1. ASSUME NEW x \in Range(a) PROVE x \in {s[i] : i \in P}
    BY <1>6 DEF Range
  <2>2. ASSUME NEW i \in P PROVE s[i] \in Range(a)
    BY <1>5, <1>6 DEF Range
  <2> QED
    BY <2>1, <2>2
<1>10. ASSUME NEW k \in DOMAIN a, NEW l \in DOMAIN a, k # l
       PROVE  \E i, j \in P : /\ i # j /\ a[k] = s[i] /\ a[l] = s[j]
                              /\ k <= l => i \in upTo[j]
  <2>1. at[k] \in P /\ at[l] \in P /\ at[k] # at[l]
    BY <1>5, <1>6, <1>10
  <2>2. k <= l => at[k] \in upTo[at[l]]
    BY <1>4, <1>6
  <2> QED
    BY <1>6, <2>1, <2>2
<1> QED
  BY <1>2, <1>8, <1>9, <1>10 DEF n, InOrder

(* No two elements have the same value of a field. *)
Distinct(s, key) == \A i, j \in DOMAIN s : i # j => s[i][key] # s[j][key]

(* A filter keeps the elements that it is to keep, and nothing twice.      *)
LEMMA KeptList ==
  ASSUME NEW S, NEW s \in Seq(S), NEW P \in SUBSET DOMAIN s, NEW a, a = Kept(s, P)
  PROVE  /\ IsFiniteSet(P) /\ a \in Seq(S) /\ Len(a) = Cardinality(P)
         /\ Range(a) = {s[i] : i \in P}
         /\ \A k, l \in DOMAIN a : k # l => \E i, j \in P : i # j /\ a[k] = s[i] /\ a[l] = s[j]
         /\ \A key : Distinct(s, key) => Distinct(a, key)
<1> DEFINE upTo == [i \in P |-> {j \in P : j <= i}]
<1>1. P \subseteq Nat
  BY LenProperties
<1>2. Orders(upTo, P)
  BY <1>1 DEF Orders
<1>3. a = Arranged(s, P, upTo)
  BY DEF Kept
<1> HIDE DEF upTo
<1>4. /\ IsFiniteSet(P) /\ a \in Seq(S) /\ Len(a) = Cardinality(P)
      /\ Range(a) = {s[i] : i \in P} /\ InOrder(a, s, P, upTo)
  BY <1>2, <1>3, ArrangedList
<1>5. \A k, l \in DOMAIN a : k # l => \E i, j \in P : i # j /\ a[k] = s[i] /\ a[l] = s[j]
  BY <1>4 DEF InOrder
<1>6. ASSUME NEW key, Distinct(s, key) PROVE Distinct(a, key)
  BY <1>5, <1>6 DEF Distinct
<1> QED
  BY <1>4, <1>5, <1>6

LEMMA MinOfTwo ==
  ASSUME NEW m \in Nat, NEW n \in Nat, NEW few, few = Min({m, n})
  PROVE  /\ few \in Nat /\ few <= m /\ few <= n
         /\ \A k \in 1 .. n : k <= m => k <= few
<1>1. \E x \in {m, n} : \A y \in {m, n} : x <= y
  OBVIOUS
<1>2. few \in {m, n} /\ few <= m /\ few <= n
  BY <1>1 DEF Min
<1> QED
  BY <1>2

(* The first few of a list.                                                *)
LEMMA FirstFewList ==
  ASSUME NEW S, NEW s \in Seq(S), NEW n \in Nat, NEW a, a = FirstFew(s, n)
  PROVE  /\ a \in Seq(S) /\ Len(a) = Min({n, Len(s)}) /\ Len(a) <= n
         /\ DOMAIN a \subseteq DOMAIN s
         /\ \A k \in DOMAIN a : a[k] = s[k]
         /\ Range(a) \subseteq Range(s)
         /\ \A k \in DOMAIN s : k <= n => k \in DOMAIN a
         /\ \A key : Distinct(s, key) => Distinct(a, key)
<1> DEFINE m == Min({n, Len(s)})
<1>1. Len(s) \in Nat /\ DOMAIN s = 1 .. Len(s)
  BY LenProperties
<1>2. m \in Nat /\ m <= n /\ m <= Len(s) /\ \A k \in DOMAIN s : k <= n => k <= m
  <2>1. \A k \in 1 .. Len(s) : k <= n => k <= m
    BY <1>1, MinOfTwo
  <2>2. m \in Nat /\ m <= n /\ m <= Len(s)
    BY <1>1, MinOfTwo
  <2> QED
    BY <1>1, <2>1, <2>2
<1>3. a = SubSeq(s, 1, m)
  BY DEF FirstFew
<1> HIDE DEF m
<1>4. /\ a \in Seq(S) /\ Len(a) = m /\ DOMAIN a = 1 .. m
      /\ \A k \in 1 .. m : a[k] = s[k]
  <2>1. \A i \in 1 .. m : i \in DOMAIN s
    BY <1>1, <1>2
  <2>2. SubSeq(s, 1, m) = [i \in 1 .. m |-> s[i]] /\ \A i \in 1 .. m : s[i] \in S
    BY <1>2, <2>1, ElementOfSeq
  <2>3. a \in [1 .. m -> S]
    BY <1>3, <2>2
  <2> QED
    BY <1>2, <1>3, <2>2, <2>3, IsASeq, LenProperties
<1>5. DOMAIN a \subseteq DOMAIN s /\ \A k \in DOMAIN s : k <= n => k \in DOMAIN a
  BY <1>1, <1>2, <1>4
<1>6. Range(a) \subseteq Range(s) /\ \A key : Distinct(s, key) => Distinct(a, key)
  BY <1>4, <1>5 DEF Range, Distinct
<1> QED
  BY <1>2, <1>4, <1>5, <1>6 DEF m

LEMMA LeastOf ==
  ASSUME NEW N \in SUBSET Nat, N # {}
  PROVE  \E k \in N : \A j \in N : k <= j
<1>1. PICK k \in N : \A j \in N : <<j, k>> \notin OpToRel(<, Nat)
  BY NatLessThanWellFounded, WFMin
<1>2. ASSUME NEW j \in N PROVE k <= j
  <2>1. j \in Nat /\ k \in Nat
    OBVIOUS
  <2>2. ~(j < k)
    BY <1>1, <2>1 DEF OpToRel
  <2> QED
    BY <2>1, <2>2
<1> QED
  BY <1>2

(* Of the positions with a value of a field there is a first.              *)
LEMMA FirstPosition ==
  ASSUME NEW S, NEW s \in Seq(S), NEW key, NEW i \in DOMAIN s, s[i][key] # NoUrl
  PROVE  \E k \in Firsts(s, key) : s[k][key] = s[i][key]
<1> DEFINE Same == {j \in DOMAIN s : s[j][key] = s[i][key]}
<1>1. Same # {} /\ Same \in SUBSET Nat
  BY LenProperties
<1>2. PICK k \in Same : \A j \in Same : k <= j
  <2> HIDE DEF Same
  <2> QED
    BY <1>1, LeastOf
<1>3. k \in Same /\ \A j \in Same : ~(j < k)
  <2> HIDE DEF Same
  <2> QED
    BY <1>1, <1>2
<1>4. k \in Firsts(s, key)
  BY <1>3 DEF Firsts
<1> QED
  BY <1>3, <1>4

LEMMA FirstsDiffer ==
  ASSUME NEW S, NEW s \in Seq(S), NEW key,
         NEW i \in Firsts(s, key), NEW j \in Firsts(s, key), s[i][key] = s[j][key]
  PROVE  i = j
<1>1. i \in Nat /\ j \in Nat
  BY LenProperties DEF Firsts
<1> QED
  BY <1>1 DEF Firsts

(* The first of each: every value of the field that occurs, once.          *)
LEMMA FirstOfEachList ==
  ASSUME NEW S, NEW s \in Seq(S), NEW key, NEW a, a = FirstOfEach(s, key)
  PROVE  /\ a \in Seq(S) /\ Range(a) \subseteq Range(s)
         /\ Distinct(a, key) /\ \A x \in Range(a) : x[key] # NoUrl
         /\ Len(a) = Cardinality({x[key] : x \in Range(s)} \ {NoUrl})
<1> DEFINE P == Firsts(s, key)
           V == {x[key] : x \in Range(s)} \ {NoUrl}
<1>1. P \in SUBSET DOMAIN s /\ a = Kept(s, P)
  BY DEF Firsts, FirstOfEach
<1>2. /\ IsFiniteSet(P) /\ a \in Seq(S) /\ Len(a) = Cardinality(P)
      /\ Range(a) = {s[i] : i \in P}
      /\ \A k, l \in DOMAIN a : k # l => \E i, j \in P : i # j /\ a[k] = s[i] /\ a[l] = s[j]
  <2> HIDE DEF P
  <2> QED
    BY <1>1, KeptList
<1>3. Range(a) \subseteq Range(s) /\ \A x \in Range(a) : x[key] # NoUrl
  BY <1>2 DEF Firsts, Range
<1>4. Distinct(a, key)
  <2>1. \A i, j \in P : i # j => s[i][key] # s[j][key]
    BY FirstsDiffer
  <2> HIDE DEF P
  <2> QED
    BY <1>2, <2>1 DEF Distinct
<1>5. Cardinality(V) = Cardinality(P)
  <2> DEFINE value == [i \in P |-> s[i][key]]
  <2>1. ASSUME NEW i \in P PROVE value[i] \in V
    BY DEF Firsts, Range
  <2>2. ASSUME NEW i \in P, NEW j \in P, value[i] = value[j] PROVE i = j
    BY <2>2, FirstsDiffer
  <2>3. ASSUME NEW v \in V PROVE \E i \in P : value[i] = v
    <3>1. PICK i \in DOMAIN s : s[i][key] = v /\ v # NoUrl
      BY DEF Range
    <3>2. PICK k \in P : s[k][key] = v
      BY <3>1, FirstPosition
    <3> QED
      BY <3>2
  <2>4. value \in [P -> V]
    BY <2>1
  <2> HIDE DEF P, V, value
  <2>5. value \in Bijection(P, V)
    BY <2>2, <2>3, <2>4 DEF Bijection, Injection, Surjection, IsInjective
  <2>6. ExistsBijection(P, V)
    BY <2>5 DEF ExistsBijection
  <2> QED
    BY <1>2, <2>6, FS_Bijection
<1> QED
  BY <1>2, <1>3, <1>4, <1>5

(***************************************************************************)
(* The queries of a cycle.                                                 *)
(***************************************************************************)
LEMMA QueriesOfInput ==
  ASSUME NEW s, s \in Seq(Range(s)),
         NEW a, a = UniqueQueries(s), NEW words, words = {q.words : q \in Range(s)} \ {NoUrl}
  PROVE  /\ Len(a) = Min({MaxQueries, Cardinality(words)})
         /\ \A i, j \in DOMAIN a : i # j => a[i].words # a[j].words
         /\ Range(a) \subseteq Range(s)
<1> DEFINE S == Range(s)
           all == FirstOfEach(s, "words")
<1>1. s \in Seq(S)
  OBVIOUS
<1>2. /\ all \in Seq(S) /\ Range(all) \subseteq Range(s) /\ Distinct(all, "words")
  <2> HIDE DEF S
  <2> QED
    BY <1>1, FirstOfEachList
<1>3. Len(all) = Cardinality(words)
  <2>1. \A key : Len(FirstOfEach(s, key)) = Cardinality({x[key] : x \in Range(s)} \ {NoUrl})
    BY <1>1, FirstOfEachList
  <2>2. Len(all) = Cardinality({x["words"] : x \in Range(s)} \ {NoUrl})
    BY <2>1
  <2>3. words = {x["words"] : x \in Range(s)} \ {NoUrl}
    OBVIOUS
  <2> QED
    BY <2>2, <2>3
<1>4. a = FirstFew(all, MaxQueries) /\ MaxQueries \in Nat
  BY CutsAssumption DEF UniqueQueries
<1>5. /\ Len(a) = Min({MaxQueries, Len(all)}) /\ Range(a) \subseteq Range(all)
      /\ Distinct(a, "words")
  <2> HIDE DEF S, all
  <2> QED
    BY <1>2, <1>4, FirstFewList
<1> QED
  BY <1>2, <1>3, <1>5 DEF Distinct

(***************************************************************************)
(* The filters of a cycle.                                                 *)
(***************************************************************************)
(* A list of articles, each of them once. *)
Articles(s, S) == s \in Seq(S) /\ Distinct(s, "url")

LEMMA FilterKeeps ==
  ASSUME NEW S, NEW s, Articles(s, S), NEW Q \in SUBSET Range(s),
         NEW P \in SUBSET DOMAIN s, \A i \in DOMAIN s : i \in P <=> s[i] \in Q,
         NEW a, a = Kept(s, P)
  PROVE  Articles(a, S) /\ Range(a) = Q
<1>1. s \in Seq(S)
  BY DEF Articles
<1>2. Articles(a, S) /\ Range(a) = {s[i] : i \in P}
  BY <1>1, KeptList DEF Articles
<1>3. {s[i] : i \in P} = Q
  BY DEF Range
<1> QED
  BY <1>2, <1>3

LEMMA FreshKeeps ==
  ASSUME NEW S, NEW s, Articles(s, S), NEW known, NEW a, a = Fresh(s, known)
  PROVE  Articles(a, S) /\ Range(a) = {x \in Range(s) : x.url \notin known}
<1> DEFINE Q == {x \in Range(s) : x.url \notin known}
           P == {i \in DOMAIN s : s[i].url \notin known}
<1>1. P \in SUBSET DOMAIN s /\ \A i \in DOMAIN s : i \in P <=> s[i] \in Q
  BY DEF Range
<1>2. a = Kept(s, P)
  BY DEF Fresh
<1>3. Q \in SUBSET Range(s)
  OBVIOUS
<1> HIDE DEF P, Q
<1>4. Articles(a, S) /\ Range(a) = Q
  BY <1>1, <1>2, <1>3, FilterKeeps
<1> QED
  BY <1>4 DEF Q

LEMMA UnstaleKeeps ==
  ASSUME NEW S, NEW s, Articles(s, S), NEW bound, NEW a, a = UnstaleResults(s, bound)
  PROVE  Articles(a, S) /\ Range(a) = {x \in Range(s) : NotBefore(x.date, bound)}
<1> DEFINE Q == {x \in Range(s) : NotBefore(x.date, bound)}
           P == {i \in DOMAIN s : NotBefore(s[i].date, bound)}
<1>1. P \in SUBSET DOMAIN s /\ \A i \in DOMAIN s : i \in P <=> s[i] \in Q
  BY DEF Range
<1>2. a = Kept(s, P)
  BY DEF UnstaleResults
<1>3. Q \in SUBSET Range(s)
  OBVIOUS
<1> HIDE DEF P, Q
<1>4. Articles(a, S) /\ Range(a) = Q
  BY <1>1, <1>2, <1>3, FilterKeeps
<1> QED
  BY <1>4 DEF Q

(* The filter by recency is the one by watermark with another bound. *)
LEMMA RecentKeeps ==
  ASSUME NEW S, NEW s, Articles(s, S), NEW maxAge \in Int, NEW now, NEW a, a = Recent(s, maxAge, now)
  PROVE  /\ Articles(a, S)
         /\ Range(a) = {x \in Range(s) : maxAge <= 0 \/ NotBefore(x.date, now - maxAge)}
<1>1. CASE maxAge <= 0
  <2>1. a = s
    BY <1>1 DEF Recent
  <2> QED
    BY <1>1, <2>1
<1>2. CASE ~(maxAge <= 0)
  <2>1. a = UnstaleResults(s, now - maxAge)
    BY <1>2 DEF Recent, UnstaleResults
  <2>2. Articles(a, S) /\ Range(a) = {x \in Range(s) : NotBefore(x.date, now - maxAge)}
    BY <2>1, UnstaleKeeps
  <2> QED
    BY <1>2, <2>2
<1> QED
  BY <1>1, <1>2

(* Equal ones stay in their order, so the ranking is total. *)
LEMMA RankedList ==
  ASSUME NEW S, \A x \in S : x.near \in Int, NEW s, Articles(s, S),
         NEW P \in SUBSET DOMAIN s, NEW a, a = Ranked(s, P)
  PROVE  /\ Articles(a, S) /\ Range(a) = {s[i] : i \in P}
         /\ \A k, l \in DOMAIN a : k <= l => a[k].near >= a[l].near
<1> DEFINE upTo == [i \in P |-> NoFarther(s, P, i)]
<1>1. s \in Seq(S) /\ \A i \in P : i \in Nat /\ s[i].near \in Int
  BY LenProperties, ElementOfSeq DEF Articles
<1>2. Orders(upTo, P)
  <2>1. \A i, j \in P : j \in upTo[i] <=> s[j].near > s[i].near \/ (s[j].near = s[i].near /\ j <= i)
    BY DEF NoFarther
  <2>2. \A i \in P : upTo[i] \subseteq P
    BY DEF NoFarther
  <2> HIDE DEF upTo
  <2>3. ASSUME NEW i \in P, NEW j \in P, j \in upTo[i] PROVE upTo[j] \subseteq upTo[i]
    <3> SUFFICES ASSUME NEW k \in upTo[j] PROVE k \in upTo[i]
      OBVIOUS
    <3>1. k \in P /\ k \in Nat /\ j \in Nat /\ i \in Nat
      BY <1>1, <2>2
    <3>2. s[k].near \in Int /\ s[j].near \in Int /\ s[i].near \in Int
      BY <1>1, <3>1
    <3>3. s[k].near > s[j].near \/ (s[k].near = s[j].near /\ k <= j)
      BY <2>1, <3>1
    <3>4. s[j].near > s[i].near \/ (s[j].near = s[i].near /\ j <= i)
      BY <2>1, <2>3
    <3>5. s[k].near > s[i].near \/ (s[k].near = s[i].near /\ k <= i)
      BY <3>1, <3>2, <3>3, <3>4
    <3> QED
      BY <2>1, <3>1, <3>5
  <2>4. ASSUME NEW i \in P, NEW j \in P
        PROVE  /\ i \in upTo[i]
               /\ j \in upTo[i] /\ i \in upTo[j] => i = j
               /\ j \in upTo[i] \/ i \in upTo[j]
    BY <1>1, <2>1
  <2> QED
    BY <2>2, <2>3, <2>4 DEF Orders
<1>3. a = Arranged(s, P, upTo)
  BY DEF Ranked
<1>4. \A i, j \in P : i \in upTo[j] => s[i].near >= s[j].near
  BY <1>1 DEF NoFarther
<1> HIDE DEF upTo
<1>5. /\ a \in Seq(S) /\ Range(a) = {s[i] : i \in P} /\ InOrder(a, s, P, upTo)
  <2>1. s \in Seq(S)
    BY <1>1
  <2> QED
    BY <1>2, <1>3, <2>1, ArrangedList
<1>6. Distinct(a, "url")
  BY <1>5 DEF Distinct, Articles, InOrder
<1>7. ASSUME NEW k \in DOMAIN a, NEW l \in DOMAIN a, k <= l PROVE a[k].near >= a[l].near
  <2>1. CASE k = l
    <3>1. a[k].near \in Int
      BY <1>5, ElementOfSeq
    <3> QED
      BY <2>1, <3>1
  <2>2. CASE k # l
    BY <1>4, <1>5, <1>7, <2>2 DEF InOrder
  <2> QED
    BY <2>1, <2>2
<1> QED
  BY <1>5, <1>6, <1>7 DEF Articles

(* The last cut: the closest, as many as there is room for. *)
Closest(a, s, topK) == /\ Len(a) <= topK
                       /\ \A x \in Range(a) : x.near >= MinNear
                       /\ \A x \in Range(s) \ Range(a) :
                            \/ x.near < MinNear
                            \/ Len(a) = topK /\ \A y \in Range(a) : y.near >= x.near

LEMMA RelevantList ==
  ASSUME NEW S, \A x \in S : x.near \in Int, NEW s, Articles(s, S), NEW topK \in Int,
         NEW a, a = Relevant(s, topK)
  PROVE  /\ Articles(a, S) /\ Range(a) \subseteq Range(s)
         /\ topK <= 0 => Range(a) = Range(s)
         /\ topK > 0 => Closest(a, s, topK)
<1>1. CASE topK <= 0
  BY <1>1 DEF Relevant
<1>2. CASE topK > 0
  <2> DEFINE P == {i \in DOMAIN s : s[i].near >= MinNear}
             all == Ranked(s, P)
  <2>1. a = FirstFew(all, topK) /\ topK \in Nat
    BY <1>2 DEF Relevant
  <2>2. P \in SUBSET DOMAIN s
    OBVIOUS
  <2>3. /\ Articles(all, S) /\ Range(all) = {s[i] : i \in P}
        /\ \A k, l \in DOMAIN all : k <= l => all[k].near >= all[l].near
    <3> HIDE DEF P
    <3> QED
      BY <2>2, RankedList
  <2>4. Range(all) = {x \in Range(s) : x.near >= MinNear}
    BY <2>3 DEF Range
  <2> HIDE DEF all, P
  <2>5. all \in Seq(S) /\ Distinct(all, "url") /\ DOMAIN all = 1 .. Len(all) /\ Len(all) \in Nat
    BY <2>3, LenProperties DEF Articles
  <2>6. /\ a \in Seq(S) /\ Len(a) <= topK /\ DOMAIN a \subseteq DOMAIN all
        /\ \A k \in DOMAIN a : a[k] = all[k]
        /\ Range(a) \subseteq Range(all)
        /\ \A k \in DOMAIN all : k <= topK => k \in DOMAIN a
        /\ Distinct(a, "url")
    BY <2>1, <2>5, FirstFewList
  <2>7. DOMAIN a = 1 .. Len(a) /\ Len(a) \in Nat
    BY <2>6, LenProperties
  <2>8. ASSUME NEW x \in Range(s) \ Range(a), ~(x.near < MinNear)
        PROVE  Len(a) = topK /\ \A y \in Range(a) : y.near >= x.near
    <3>1. x.near \in Int
      BY ElementOfSeq DEF Articles, Range
    <3>2. PICK l \in DOMAIN all : all[l] = x
      BY <2>4, <2>8, <3>1, CutsAssumption DEF Range
    <3>3. l \notin DOMAIN a
      BY <2>6, <2>8, <3>2 DEF Range
    <3>4. l > topK /\ l \in Nat
      BY <2>5, <2>6, <3>3
    <3>5. topK \in DOMAIN all
      BY <1>2, <2>1, <2>5, <3>4
    <3>6. Len(a) = topK
      <4>1. topK \in 1 .. Len(a) /\ Len(a) \in Nat /\ Len(a) <= topK
        BY <2>1, <2>6, <2>7, <3>5
      <4> QED
        BY <4>1
    <3>7. ASSUME NEW k \in DOMAIN a PROVE a[k].near >= x.near
      <4>1. k \in DOMAIN all /\ k <= l
        BY <2>1, <2>6, <2>7, <3>4, <3>6
      <4> QED
        BY <2>3, <2>6, <3>2, <4>1
    <3> QED
      BY <3>6, <3>7 DEF Range
  <2>9. Range(a) \subseteq Range(s) /\ \A x \in Range(a) : x.near >= MinNear
    BY <2>4, <2>6
  <2> QED
    BY <1>2, <2>6, <2>8, <2>9 DEF Articles, Closest
<1> QED
  BY <1>1, <1>2

-----------------------------------------------------------------------------
(***************************************************************************)
(* The inputs.                                                             *)
(***************************************************************************)
LEMMA InputTypes ==
  ASSUME input \in {NoInput} \cup Inputs
  PROVE  /\ input.part = "queries" => input.queries \in Queries
         /\ input.part = "cycle" => /\ input.first \in Lists /\ input.second \in Lists
                                    /\ input.time \in Times
                                    /\ input.maxAge \in MaxAges /\ input.topK \in TopKs
         /\ input.part = "cadence" => input.interval \in Intervals /\ input.remaining \in Remaining
         /\ input.part = "titles" => input.one \in Fingerprints /\ input.other \in Fingerprints
         /\ input.part = "source" => /\ input.domain \in Domains /\ input.table \in Tables
                                     /\ input.better \in Signals /\ input.worse \in Signals
  BY DEF NoInput, Inputs

LEMMA QueriesProved ==
  ASSUME input \in {NoInput} \cup Inputs
  PROVE  QueriesDiffer
<1> SUFFICES ASSUME input.part = "queries" PROVE QueriesDiffer
  BY DEF QueriesDiffer
<1>1. input.queries \in Seq(Range(input.queries))
  BY InputTypes, QueriesAssumption
<1> QED
  BY <1>1, QueriesOfInput DEF QueriesDiffer

LEMMA CycleProved ==
  ASSUME input \in {NoInput} \cup Inputs
  PROVE  SelectsTheClosest
<1> SUFFICES ASSUME input.part = "cycle" PROVE SelectsTheClosest
  BY DEF SelectsTheClosest
<1> DEFINE first == input.first
           second == input.second
           found == first \o second
           S == Range(first) \cup Range(second)
           now == input.time.now
           merged == Merged(found)
           fresh == Fresh(merged, input.known)
           recent == Recent(fresh, input.maxAge, now)
           usable == UnstaleResults(recent, input.time.mark)
           chosen == Relevant(usable, input.topK)
<1>1. /\ first \in Seq(Range(first)) /\ second \in Seq(Range(second))
      /\ \A x \in S : x.date \in Nat /\ x.near \in Int
      /\ now \in Int /\ input.time.mark \in Nat /\ input.maxAge \in Int /\ input.topK \in Int
  BY InputTypes, ListsAssumption, CycleAssumption
<1>2. found \in Seq(S)
  <2> HIDE DEF first, second
  <2>1. first \in Seq(S) /\ second \in Seq(S)
    BY <1>1, SeqMonotonic
  <2> HIDE DEF S
  <2> QED
    BY <2>1, ConcatProperties
<1> HIDE DEF first, second, found, S, now
<1>3. Articles(merged, S) /\ \A x \in Range(merged) : x["url"] # NoUrl
  BY <1>2, FirstOfEachList DEF Articles, Merged
<1> HIDE DEF merged
<1>4. Articles(fresh, S) /\ Range(fresh) = {x \in Range(merged) : x.url \notin input.known}
  BY <1>3, FreshKeeps
<1> HIDE DEF fresh
<1>5. /\ Articles(recent, S)
      /\ Range(recent) = {x \in Range(fresh) : input.maxAge <= 0 \/ NotBefore(x.date, now - input.maxAge)}
  BY <1>1, <1>4, RecentKeeps
<1> HIDE DEF recent
<1>6. /\ Articles(usable, S)
      /\ Range(usable) = {x \in Range(recent) : NotBefore(x.date, input.time.mark)}
  BY <1>5, UnstaleKeeps
<1> HIDE DEF usable
<1>7. \A x \in Range(merged) : x \in Range(usable) <=> Eligible(x)
  <2> TAKE x \in Range(merged)
  <2>1. x \in S /\ x.date \in Nat /\ x.url # NoUrl
    BY <1>1, <1>3, ElementOfSeq DEF Articles, Range
  <2> QED
    BY <1>1, <1>4, <1>5, <1>6, <2>1 DEF Eligible, NotBefore, NoDate, now
<1>8. Range(usable) \subseteq Range(merged)
  BY <1>4, <1>5, <1>6
<1>9. /\ Articles(chosen, S) /\ Range(chosen) \subseteq Range(usable)
      /\ input.topK <= 0 => Range(chosen) = Range(usable)
      /\ input.topK > 0 => Closest(chosen, usable, input.topK)
  BY <1>1, <1>6, RelevantList
<1> HIDE DEF chosen
<1>10. \A i, j \in DOMAIN chosen : i # j => chosen[i].url # chosen[j].url
  BY <1>9 DEF Articles, Distinct
<1>11. chosen = Selected(found, input.known, input.time, input.maxAge, input.topK)
  BY DEF chosen, usable, recent, fresh, merged, now, Selected
<1>12. ASSUME NEW x \in Range(merged) \ Range(chosen), Eligible(x)
       PROVE  /\ input.topK > 0
              /\ \/ x.near < MinNear
                 \/ Len(chosen) = input.topK /\ \A y \in Range(chosen) : y.near >= x.near
  <2>1. x \in Range(usable)
    BY <1>7, <1>12
  <2> QED
    BY <1>1, <1>9, <1>12, <2>1 DEF Closest
<1>13. \A x \in Range(chosen) : /\ x \in Range(merged) /\ Eligible(x)
                                /\ input.topK > 0 => x.near >= MinNear
  BY <1>7, <1>8, <1>9 DEF Closest
<1> QED
  BY <1>9, <1>10, <1>11, <1>12, <1>13 DEF Closest, SelectsTheClosest, found, first, second, merged

LEMMA CadenceProved ==
  ASSUME input \in {NoInput} \cup Inputs
  PROVE  TiersReached
<1> SUFFICES ASSUME input.part = "cadence" PROVE TiersReached
  BY DEF TiersReached
<1>1. input.interval \in Int /\ input.remaining \in Int
  BY InputTypes, MarketAssumption
<1> QED
  BY <1>1, JitterAssumption DEF TiersReached, PollStep, Latest, Day, Hour

(* What is stored can be read back; half a power of two is the sign bit. *)
LEMMA SignedRoundTrip ==
  ASSUME NEW half \in Nat \ {0}, NEW f \in 0 .. 2 * half - 1
  PROVE  /\ f < half => f % (2 * half) = f
         /\ f >= half => (f - 2 * half) % (2 * half) = f
  OBVIOUS

LEMMA TitlesProved ==
  ASSUME input \in {NoInput} \cup Inputs
  PROVE  StorageKeepsDistance
<1> SUFFICES ASSUME input.part = "titles" PROVE StorageKeepsDistance
  BY DEF StorageKeepsDistance
<1> DEFINE half == 2 ^ (Bits - 1)
           f == input.one
<1>1. half \in Nat \ {0} /\ 2 ^ Bits = 2 * half
  BY BitsAssumption
<1>2. f \in 0 .. 2 * half - 1
  BY <1>1, InputTypes DEF Fingerprints
<1> HIDE DEF half, f
<1>3. FromSigned(ToSigned(f)) = f
  BY <1>1, <1>2, SignedRoundTrip DEF FromSigned, ToSigned, half
<1>4. ToSigned(f) \in -half .. half - 1
  <2>1. ToSigned(f) = IF f >= half THEN f - 2 * half ELSE f
    BY <1>1 DEF ToSigned, half
  <2> QED
    BY <1>1, <1>2, <2>1
<1> QED
  BY <1>3, <1>4 DEF StorageKeepsDistance, half, f

(* Of the parents in the table one is the closest. *)
LEMMA LeastHit ==
  ASSUME NEW domain, domain \in Seq(Range(domain)), NEW table, NEW hits,
         hits = Hits(domain, table), hits # {}
  PROVE  \E k \in hits : \A j \in hits : k <= j
<1>1. hits \in SUBSET Nat
  BY LenProperties DEF Hits
<1> QED
  BY <1>1, LeastOf

LEMMA TierOfType ==
  ASSUME NEW domain, domain \in Seq(Range(domain)), NEW table, Range(table) \subseteq Tier
  PROVE  TierOf(domain, table) \in Tier
<1> DEFINE hits == Hits(domain, table)
           k == CHOOSE i \in hits : \A j \in hits : i <= j
<1>1. CASE hits = {}
  BY <1>1 DEF TierOf, Tier
<1>2. CASE hits # {}
  <2>1. k \in hits
    <3> HIDE DEF hits
    <3>1. \E i \in hits : \A j \in hits : i <= j
      BY <1>2, LeastHit DEF hits
    <3> QED
      BY <3>1
  <2>2. Parent(domain, k) \in DOMAIN table
    BY <2>1 DEF Hits
  <2>3. TierOf(domain, table) = table[Parent(domain, k)]
    BY <1>2 DEF TierOf
  <2> HIDE DEF k
  <2> QED
    BY <2>2, <2>3 DEF Range
<1> QED
  BY <1>1, <1>2

(* The parents of a domain are itself and the parents of its parent. *)
LEMMA ParentOfTail ==
  ASSUME NEW S, NEW domain \in Seq(S), Len(domain) >= 2
  PROVE  /\ Tail(domain) \in Seq(S) /\ Len(Tail(domain)) = Len(domain) - 1
         /\ Parent(domain, 1) = domain
         /\ \A i \in 1 .. Len(domain) - 1 : Parent(Tail(domain), i) = Parent(domain, i + 1)
<1> DEFINE n == Len(domain)
           t == Tail(domain)
<1>1. n \in Nat /\ domain # <<>>
  BY LenProperties
<1>2. t \in Seq(S) /\ Len(t) = n - 1 /\ \A i \in 1 .. n - 1 : t[i] = domain[i + 1]
  BY <1>1, HeadTailProperties
<1>3. SubSeq(domain, 1, n) = domain
  BY SubSeqFull
<1>4. ASSUME NEW i \in 1 .. n - 1 PROVE SubSeq(t, i, n - 1) = SubSeq(domain, i + 1, n)
  <2> HIDE DEF t, n
  <2>1. SubSeq(t, i, n - 1) = [k \in 1 .. n - i |-> t[i + k - 1]]
    BY <1>1
  <2>2. SubSeq(domain, i + 1, n) = [k \in 1 .. n - i |-> domain[i + k]]
    BY <1>1
  <2>3. \A k \in 1 .. n - i : t[i + k - 1] = domain[i + k]
    BY <1>1, <1>2
  <2> QED
    BY <2>1, <2>2, <2>3
<1> QED
  BY <1>2, <1>3, <1>4 DEF Parent

LEMMA TierByParent ==
  ASSUME NEW S, NEW domain \in Seq(S), NEW table
  PROVE  TierOf(domain, table) =
           IF Len(domain) < 2 THEN "unknown"
           ELSE IF domain \in DOMAIN table THEN table[domain]
           ELSE TierOf(Tail(domain), table)
<1> DEFINE n == Len(domain)
           hits == Hits(domain, table)
           above == Hits(Tail(domain), table)
           least == CHOOSE i \in hits : \A j \in hits : i <= j
           leastAbove == CHOOSE i \in above : \A j \in above : i <= j
<1>1. n \in Nat
  BY LenProperties
<1>2. CASE n < 2
  <2>1. hits = {}
    BY <1>1, <1>2 DEF Hits
  <2> QED
    BY <1>2, <2>1 DEF TierOf
<1>3. CASE n >= 2 /\ domain \in DOMAIN table
  <2>1. 1 \in hits /\ Parent(domain, 1) = domain
    BY <1>1, <1>3, ParentOfTail DEF Hits
  <2>2. \A i \in hits : i \in Nat /\ 1 <= i
    BY <1>1 DEF Hits
  <2>3. least = 1
    <3> HIDE DEF hits
    <3> QED
      BY <2>1, <2>2
  <2>4. TierOf(domain, table) = table[Parent(domain, least)]
    BY <2>1 DEF TierOf
  <2> HIDE DEF least
  <2> QED
    BY <1>1, <1>3, <2>1, <2>3, <2>4
<1>4. CASE n >= 2 /\ domain \notin DOMAIN table
  <2>1. /\ Tail(domain) \in Seq(S) /\ Len(Tail(domain)) = n - 1 /\ Parent(domain, 1) = domain
        /\ \A i \in 1 .. n - 1 : Parent(Tail(domain), i) = Parent(domain, i + 1)
    BY <1>4, ParentOfTail
  <2>2. above \subseteq 1 .. n - 2 /\ hits \subseteq 1 .. n - 1
    BY <2>1 DEF Hits
  <2>3. \A i \in 1 .. n - 2 : i \in above <=> i + 1 \in hits
    <3> TAKE i \in 1 .. n - 2
    <3>1. i \in 1 .. n - 1 /\ i + 1 \in 1 .. n - 1
      BY <1>1, <1>4
    <3>2. Parent(Tail(domain), i) = Parent(domain, i + 1)
      BY <2>1, <3>1
    <3> QED
      BY <2>1, <3>1, <3>2 DEF Hits
  <2>4. 1 \notin hits
    BY <1>4, <2>1 DEF Hits
  <2> HIDE DEF n, hits, above
  <2>5. \A k \in hits : k - 1 \in above /\ k - 1 \in 1 .. n - 2 /\ k = (k - 1) + 1
    <3> TAKE k \in hits
    <3>1. k - 1 \in 1 .. n - 2 /\ k = (k - 1) + 1
      BY <1>1, <2>2, <2>4
    <3> QED
      BY <2>3, <3>1
  <2>6. CASE above = {}
    <3>1. hits = {}
      BY <2>5, <2>6
    <3> QED
      BY <1>1, <1>4, <2>6, <3>1 DEF TierOf, hits, above, n
  <2>7. CASE above # {}
    <3>1. \E i \in above : \A j \in above : i <= j
      <4>1. above \in SUBSET Nat
        BY <1>1, <2>2
      <4> QED
        BY <2>7, <4>1, LeastOf
    <3>2. leastAbove \in above /\ \A j \in above : leastAbove <= j
      BY <3>1
    <3> HIDE DEF leastAbove
    <3>3. leastAbove \in 1 .. n - 2 /\ leastAbove + 1 \in hits
      BY <2>2, <2>3, <3>2
    <3>4. \A k \in hits : leastAbove + 1 <= k
      BY <1>1, <2>2, <2>5, <3>2, <3>3
    <3>5. least = leastAbove + 1
      <4>1. \A k \in hits : k \in Int /\ leastAbove \in Int
        BY <2>2, <3>3
      <4> QED
        BY <3>3, <3>4, <4>1
    <3>6. TierOf(domain, table) = table[Parent(domain, least)]
      BY <3>3 DEF TierOf, hits
    <3>7. TierOf(Tail(domain), table) = table[Parent(Tail(domain), leastAbove)]
      BY <2>7 DEF TierOf, above, leastAbove
    <3> HIDE DEF least
    <3>8. Parent(Tail(domain), leastAbove) = Parent(domain, least)
      <4>1. leastAbove \in 1 .. n - 1
        BY <1>1, <3>3
      <4> QED
        BY <2>1, <3>5, <4>1
    <3> QED
      BY <1>1, <1>4, <3>6, <3>7, <3>8 DEF n
  <2> QED
    BY <2>6, <2>7
<1> QED
  BY <1>1, <1>2, <1>3, <1>4

LEMMA ClampedSignal ==
  ASSUME NEW worse \in Int, NEW better \in Int
  PROVE  /\ Clamped(better) \in 0 .. 100
         /\ worse <= better => Clamped(worse) <= Clamped(better)
<1>1. Clamped(worse) = IF worse < 0 THEN 0 ELSE IF worse > 100 THEN 100 ELSE worse
  BY DEF Clamped
<1>2. Clamped(better) = IF better < 0 THEN 0 ELSE IF better > 100 THEN 100 ELSE better
  BY DEF Clamped
<1>3. Clamped(better) \in 0 .. 100
  BY <1>2
<1>4. ASSUME worse <= better PROVE Clamped(worse) <= Clamped(better)
  <2>1. CASE worse < 0
    BY <1>1, <1>3, <2>1
  <2>2. CASE worse > 100
    BY <1>1, <1>2, <1>4, <2>2
  <2>3. CASE worse >= 0 /\ worse <= 100
    BY <1>1, <1>2, <1>4, <2>3
  <2> QED
    BY <2>1, <2>2, <2>3
<1> QED
  BY <1>3, <1>4

LEMMA SourceProved ==
  ASSUME input \in {NoInput} \cup Inputs
  PROVE  ScoredBySource
<1> SUFFICES ASSUME input.part = "source" PROVE ScoredBySource
  BY DEF ScoredBySource
<1> DEFINE tier == TierOf(input.domain, input.table)
           base == BaseScore[tier]
<1>1. /\ input.domain \in Seq(Range(input.domain)) /\ Range(input.table) \subseteq Tier
      /\ input.better \in Int /\ input.worse \in Int
  BY InputTypes, SourceAssumption
<1>2. tier \in Tier
  BY <1>1, TierOfType
<1> HIDE DEF tier
<1>3. base \in 0 .. 100
  BY <1>2 DEF Tier, BaseScore
<1> HIDE DEF base
<1>4. /\ Clamped(input.better) \in 0 .. 100 /\ Clamped(input.worse) \in 0 .. 100
      /\ input.worse <= input.better => Clamped(input.worse) <= Clamped(input.better)
  BY <1>1, ClampedSignal
<1>5. \A signal : Score(input.domain, input.table, signal) = 6 * base + 4 * Clamped(signal)
  BY DEF Score, base, tier
<1>6. Score(input.domain, input.table, input.better) \in 0 .. 1000
  BY <1>3, <1>4, <1>5
<1>7. input.worse <= input.better =>
        Score(input.domain, input.table, input.worse) <= Score(input.domain, input.table, input.better)
  BY <1>3, <1>4, <1>5
<1>8. tier = IF Len(input.domain) < 2 THEN "unknown"
             ELSE IF input.domain \in DOMAIN input.table THEN input.table[input.domain]
             ELSE TierOf(Tail(input.domain), input.table)
  BY <1>1, TierByParent DEF tier
<1> QED
  BY <1>6, <1>7, <1>8 DEF ScoredBySource, tier

-----------------------------------------------------------------------------
(***************************************************************************)
(* Every input.                                                            *)
(***************************************************************************)
LEMMA InputStays == InputSpec => [](input \in {NoInput} \cup Inputs)
<1> DEFINE Inv == input \in {NoInput} \cup Inputs
<1>1. Inv /\ [FALSE]_input => Inv'
  BY DEF Inputs
<1> QED
  BY <1>1, PTL DEF InputSpec

(* query_gen.py:41-43: no query is asked twice, and no duplicate takes the *)
(* place of another query, however many the LLM gives.                     *)
THEOREM QueriesChosen == InputSpec => []QueriesDiffer
  BY QueriesProved, InputStays, PTL

(* tasks.py:150-153: the filters and the ranking give the closest of the   *)
(* articles that can be used, whatever two sources find.                   *)
THEOREM ClosestChosen == InputSpec => []SelectsTheClosest
  BY CycleProved, InputStays, PTL

(* tasks.py:93-109: no jitter carries a poll over a tier or past the date, *)
(* unless the interval is above 23 days.                                   *)
THEOREM EachTierReached == InputSpec => []TiersReached
  BY CadenceProved, InputStays, PTL

(* simhash.py:37-49: a fingerprint of any width comes back from its signed *)
(* column as it was.                                                       *)
THEOREM StorageIsExact == InputSpec => []StorageKeepsDistance
  BY TitlesProved, InputStays, PTL

(* credibility.py:20-44: the closest entry of any table counts, and the    *)
(* score is a fraction that no better signal lowers.                       *)
THEOREM SourceCounts == InputSpec => []ScoredBySource
  BY SourceProved, InputStays, PTL
=============================================================================
