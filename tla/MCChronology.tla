---------------------------- MODULE MCChronology ----------------------------
(***************************************************************************)
(* A small instance of Chronology for TLC, and beside it, each as a        *)
(* behaviour of its own that only begins, the inputs of Pipeline.          *)
(***************************************************************************)
EXTENDS Chronology, Pipeline

CONSTANTS old, middle, new, undated, first, second

(* The undated one is as old as the oldest, going by its page, and the     *)
(* page of a new one has an old date.                                      *)
SearchDates == [a \in Article |-> CASE a = old -> 1 [] a = middle -> 2 [] a = new -> 3
                                    [] OTHER -> NoDate]
PageDates == [a \in Article |-> CASE a = undated -> 1 [] a = new -> 1 [] OTHER -> NoDate]

(* Up to four queries, of three wordings or none, one written in two ways. *)
Wordings == {[words |-> "", text |-> ""], [words |-> "a", text |-> "a"], [words |-> "a", text |-> "A"],
             [words |-> "b", text |-> "b"], [words |-> "c", text |-> "c"]}
QueryLists == UNION {[1 .. n -> Wordings] : n \in 0 .. 4}

(* Two sources that give up to two results each.  The same URL may come    *)
(* with another date or another title; 4 is the present, 2 the watermark.  *)
Results == {[url |-> "x", date |-> 3, near |-> 1], [url |-> "x", date |-> NoDate, near |-> 3],
            [url |-> "y", date |-> 1, near |-> 3], [url |-> "y", date |-> 2, near |-> 2],
            [url |-> "z", date |-> 3, near |-> 2], [url |-> "",  date |-> 3, near |-> 3]}
ResultLists == UNION {[1 .. n -> Results] : n \in 0 .. 2}
CycleTimes == {[now |-> 4, mark |-> NoDate], [now |-> 4, mark |-> 2]}
KnownUrls == {{}, {"y"}}
Ages == {0, 1, 2}

(* Around every boundary of the tiers, and from an hour to 23 days. *)
TimesLeft == UNION {{b - 1, b, b + 1} : b \in {0, Day, 7 * Day, 30 * Day}} \cup {60 * Day}
PollIntervals == {1, Hour, Day, 19 * Day, 20 * Day}

(* a.b.c and what is above or beside it; every way to list three of them. *)
ArticleDomains == {<<"c">>, <<"b", "c">>, <<"a", "b", "c">>, <<"d", "c">>, <<"localhost">>}
SourceTables == UNION {[listed -> {"official", "social"}] :
                         listed \in SUBSET {<<"c">>, <<"b", "c">>, <<"a", "b", "c">>}}
SignalValues == {-10, 0, 35, 100, 120}

MCInit == Init /\ input \in {NoInput} \cup Inputs
MCNext == input = NoInput /\ Next /\ UNCHANGED input
MCSpec == MCInit /\ [][MCNext]_<<vars, input>>
=============================================================================
