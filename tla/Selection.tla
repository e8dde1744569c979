------------------------------ MODULE Selection -----------------------------
(***************************************************************************)
(* What process_market makes of a market's question in one cycle: the      *)
(* queries for the search, the merged results of the sources, and the few  *)
(* candidates that are worth a scrape.                                     *)
(*                                                                         *)
(* A search result is [url, date, near]: the hash of its normalized URL    *)
(* (NoUrl if it has none), its date, and how close the embedding of its    *)
(* title is to that of the question.                                       *)
(*                                                                         *)
(* A list comprehension or a sort is given by the positions it takes and   *)
(* by their order, which is what can be reasoned about: the folds of the   *)
(* library are recursive functions.                                        *)
(*                                                                         *)
(* An operator marked "fault:" is the code with one plausible mistake in   *)
(* it; PROJECT.json pairs it with the operator after it and the property   *)
(* that catches the mistake.                                               *)
(***************************************************************************)
EXTENDS Dates, Sequences, FiniteSetsExt

CONSTANTS
  NoUrl,      \* no URL; of a query: no words
  MinNear,    \* candidate_prefilter_min_similarity
  MaxQueries  \* queries of a cycle

ASSUME CutsAssumption == MinNear \in Int /\ MaxQueries \in Nat

-----------------------------------------------------------------------------
(* The elements of s at the positions P; upTo[i] are those of P that come  *)
(* no later than i.                                                        *)
Arranged(s, P, upTo) ==
  [k \in 1 .. Cardinality(P) |-> s[CHOOSE i \in P : Cardinality(upTo[i]) = k]]

(* In the order of s. *)
Kept(s, P) == Arranged(s, P, [i \in P |-> {j \in P : j <= i}])

(* The first with each value of a field; what has none is left out. *)
Firsts(s, key) == {i \in DOMAIN s : /\ s[i][key] # NoUrl
                                    /\ \A j \in DOMAIN s : j < i => s[j][key] # s[i][key]}
FirstOfEach(s, key) == Kept(s, Firsts(s, key))

FirstFew(s, n) == SubSeq(s, 1, Min({n, Len(s)}))

(* app/llm/query_gen.py: generate_queries *)

(* fault: the list is cut before the duplicates are taken out *)
CutQueries(queries) == FirstOfEach(FirstFew(queries, MaxQueries), "words")
UniqueQueries(queries) == FirstFew(FirstOfEach(queries, "words"), MaxQueries)

(* app/search/aggregator.py: search_all_sources, of what the sources give, *)
(* one after the other.  A source that fails counts as one that finds      *)
(* nothing.                                                                *)
Merged(found) == FirstOfEach(found, "url")

(* app/worker/tasks.py: process_market and its filters *)

Fresh(s, known) == Kept(s, {i \in DOMAIN s : s[i].url \notin known})

Recent(s, maxAge, now) ==
  IF maxAge <= 0 THEN s ELSE Kept(s, {i \in DOMAIN s : NotBefore(s[i].date, now - maxAge)})

UnstaleResults(s, mark) == Kept(s, {i \in DOMAIN s : NotBefore(s[i].date, mark)})

(* app/llm/prefilter.py: rank_by_similarity.  sorted is stable, so of two  *)
(* that are equally close the first comes first.                           *)
NoFarther(s, P, i) == {j \in P : s[j].near > s[i].near \/ (s[j].near = s[i].near /\ j <= i)}
Ranked(s, P) == Arranged(s, P, [i \in P |-> NoFarther(s, P, i)])

Relevant(s, topK) ==
  IF topK <= 0 THEN s
  ELSE FirstFew(Ranked(s, {i \in DOMAIN s : s[i].near >= MinNear}), topK)

(* fault: the expensive slots are given out before the filters *)
RankedFirst(found, known, time, maxAge, topK) ==
  UnstaleResults(Recent(Fresh(Relevant(Merged(found), topK), known), maxAge, time.now), time.mark)
Selected(found, known, time, maxAge, topK) ==
  Relevant(UnstaleResults(Recent(Fresh(Merged(found), known), maxAge, time.now), time.mark), topK)
=============================================================================
