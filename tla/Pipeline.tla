------------------------------ MODULE Pipeline ------------------------------
(***************************************************************************)
(* The pure parts of the pipeline, each compared with what it is for, on   *)
(* every input of a set.  The variable is the input of one of them; it     *)
(* never changes.                                                          *)
(***************************************************************************)
EXTENDS Selection, Cadence, Fingerprint, Credibility

CONSTANTS
  Queries,     \* what the LLM may give for queries: sequences of [words, text]
  Lists,       \* the results that a source may give
  Known,       \* sets of URLs that may be stored already
  Times,       \* [now, mark]: the time of a cycle and its watermark
  MaxAges,     \* values of candidate_max_age_days
  TopKs,       \* values of candidate_prefilter_top_k
  Intervals,   \* values of Market.poll_interval_minutes
  Remaining,   \* minutes to a resolution date
  Domains,     \* domains of articles
  Tables,      \* source tables: functions from domains to tiers
  Signals      \* what the LLM may give for a text, in percent

(* What the LLM, the sources and an operator give is of any length and     *)
(* size; only its types are known.                                         *)
ASSUME QueriesAssumption == \A s \in Queries : s \in Seq(Range(s))
ASSUME ListsAssumption == \A s \in Lists :
                            /\ s \in Seq(Range(s))
                            /\ \A x \in Range(s) : x.date \in Nat /\ x.near \in Int
ASSUME CycleAssumption == /\ Times \subseteq [now : Int, mark : Nat]
                          /\ MaxAges \cup TopKs \subseteq Int
ASSUME MarketAssumption == Intervals \cup Remaining \subseteq Int
ASSUME SourceAssumption == /\ \A d \in Domains : d \in Seq(Range(d))
                           /\ \A t \in Tables : Range(t) \subseteq Tier
                           /\ Signals \subseteq Int

VARIABLE input

NoInput == [part |-> "none"]
Inputs ==
  [part : {"queries"}, queries : Queries]
  \cup [part : {"cycle"}, first : Lists, second : Lists, known : Known, time : Times,
        maxAge : MaxAges, topK : TopKs]
  \cup [part : {"cadence"}, interval : Intervals, remaining : Remaining]
  \cup [part : {"titles"}, one : Fingerprints, other : Fingerprints]
  \cup [part : {"source"}, domain : Domains, table : Tables, better : Signals, worse : Signals]

InputSpec == input \in {NoInput} \cup Inputs /\ [][FALSE]_input

-----------------------------------------------------------------------------
(* Properties *)

(* query_gen.py:41-43: the queries are the first MaxQueries different ones *)
(* of the LLM's.  One that says what an earlier one says neither goes to   *)
(* the sources again nor takes the place of another.                       *)
QueriesDiffer == input.part = "queries" =>
  LET words == {q.words : q \in Range(input.queries)} \ {NoUrl}
      unique == UniqueQueries(input.queries)
  IN  /\ Len(unique) = Min({MaxQueries, Cardinality(words)})
      /\ \A i, j \in DOMAIN unique : i # j => unique[i].words # unique[j].words
      /\ Range(unique) \subseteq Range(input.queries)

(* A candidate that may be scraped, going by the settings and the docs. *)
Eligible(x) ==
  /\ x.url \notin input.known \cup {NoUrl}
  /\ x.date = NoDate \/ (/\ input.maxAge <= 0 \/ x.date >= input.time.now - input.maxAge
                         /\ input.time.mark = NoDate \/ x.date >= input.time.mark)

(* tasks.py:150-153, prefilter.py:31-39: the candidates are the eligible   *)
(* articles closest to the question: none twice, no more than top_k, and   *)
(* none is left out for one that is less close or cannot be used, nor      *)
(* while there is room for it.                                             *)
SelectsTheClosest == input.part = "cycle" =>
  LET found == input.first \o input.second
      chosen == Selected(found, input.known, input.time, input.maxAge, input.topK)
  IN  /\ \A i, j \in DOMAIN chosen : i # j => chosen[i].url # chosen[j].url
      /\ \A x \in Range(chosen) :
           /\ x \in Range(Merged(found)) /\ Eligible(x)
           /\ input.topK > 0 => x.near >= MinNear
      /\ input.topK > 0 => Len(chosen) <= input.topK
      /\ \A x \in Range(Merged(found)) \ Range(chosen) : Eligible(x) =>
           /\ input.topK > 0
           /\ \/ x.near < MinNear
              \/ Len(chosen) = input.topK /\ \A y \in Range(chosen) : y.near >= x.near

(* tasks.py:70-72: a market gets to each tier on its way to the resolution *)
(* date.  The step is chosen by the time that is left at the poll before,  *)
(* so one from above a tier must not end below it.  However the jitter     *)
(* falls, the poll after one from beyond 30 days is still more than a week *)
(* away from the date, provided that the interval, so lengthened, is not   *)
(* above 23 days; from beyond a week it is more than a day away, and from  *)
(* beyond a day it comes before the date.                                  *)
TiersReached == input.part = "cadence" =>
  LET next == 100 * input.remaining - Latest(PollStep(input.remaining, input.interval))
  IN  Latest(input.interval) <= 100 * 23 * Day =>
        /\ input.remaining > 30 * Day => next > 100 * 7 * Day
        /\ input.remaining > 7 * Day => next > 100 * Day
        /\ input.remaining > Day => next > 0

(* simhash.py:37-49: a fingerprint fits the column, and one that was read  *)
(* back is as far from any other as it was.                                *)
StorageKeepsDistance == input.part = "titles" =>
  /\ ToSigned(input.one) \in -(2 ^ (Bits - 1)) .. 2 ^ (Bits - 1) - 1
  /\ Distance(FromSigned(ToSigned(input.one)), input.other) = Distance(input.one, input.other)

(* credibility.py:22-28: a source counts by its closest entry: that of its *)
(* domain, else what its parent would count for, and a bare top-level      *)
(* domain is no source.  A better signal never lowers the score, and a     *)
(* score is a fraction.                                                    *)
ScoredBySource == input.part = "source" =>
  /\ Score(input.domain, input.table, input.better) \in 0 .. 1000
  /\ input.worse <= input.better =>
       Score(input.domain, input.table, input.worse) <= Score(input.domain, input.table, input.better)
  /\ TierOf(input.domain, input.table) =
       IF Len(input.domain) < 2 THEN "unknown"
       ELSE IF input.domain \in DOMAIN input.table THEN input.table[input.domain]
       ELSE TierOf(Tail(input.domain), input.table)
=============================================================================
