----------------------------- MODULE Credibility ----------------------------
(***************************************************************************)
(* The credibility of an article (app/scoring/credibility.py): by the tier *)
(* of its source, found under its domain or a parent of it, and by what    *)
(* the LLM thinks of its text.  A domain is the sequence of its labels.    *)
(*                                                                         *)
(* An operator marked "fault:" is the code with one plausible mistake in   *)
(* it; PROJECT.json pairs it with the operator after it and the property   *)
(* that catches the mistake.                                               *)
(***************************************************************************)
EXTENDS Integers, Sequences

Tier == {"official", "major", "aggregator", "social", "unknown"}

(* TIER_BASE_SCORE, in percent *)
BaseScore == [official |-> 95, major |-> 85, aggregator |-> 60, social |-> 35, unknown |-> 50]

Parent(domain, i) == SubSeq(domain, i, Len(domain))

(* fault: a bare top-level domain is looked up, too *)
WithTopLevel(domain, table) == {i \in 1 .. Len(domain) : Parent(domain, i) \in DOMAIN table}

(* _domain_candidates: where the parents in the table begin. *)
Hits(domain, table) == {i \in 1 .. Len(domain) - 1 : Parent(domain, i) \in DOMAIN table}

TierOf(domain, table) ==
  LET hits == Hits(domain, table)
  IN  IF hits = {} THEN "unknown"
      ELSE table[Parent(domain, CHOOSE i \in hits : \A j \in hits : i <= j)]

Clamped(signal) == IF signal < 0 THEN 0 ELSE IF signal > 100 THEN 100 ELSE signal

(* compute_credibility, in thousandths; no rounding is needed for percents. *)
Score(domain, table, signal) == 6 * BaseScore[TierOf(domain, table)] + 4 * Clamped(signal)
=============================================================================
