----------------------------- MODULE NewsStream -----------------------------
(***************************************************************************)
(* What the worker promises the consumer of one market's news, with no     *)
(* jobs, batches, locks or crashes: an article is stored at most once and  *)
(* never beside a near-duplicate of it, and every delivery group is a      *)
(* nonempty set of stored articles that appear in no other group.          *)
(***************************************************************************)
EXTENDS Sequences

CONSTANTS Article,     \* everything an extraction can produce
          Clash(_, _)  \* two articles are the same page or the same story

VARIABLES stored,      \* the articles the market has
          groups       \* the delivery groups, in the order they were formed

svars == <<stored, groups>>

Announced == UNION {groups[i] : i \in DOMAIN groups}

NoneOrOne == {{}} \cup {{a} : a \in Article}

Acceptable(new) == \A a \in new : \A old \in stored : ~Clash(a, old)

Deliverable(group) == group # {} /\ group \cap Announced = {}

Init == stored = {} /\ groups = << >>

(* One transaction: it may store one article, and it may form one group of *)
(* articles that no earlier group holds.                                   *)
Publish == \E new \in NoneOrOne :
             /\ Acceptable(new)
             /\ stored' = stored \cup new
             /\ \/ groups' = groups
                \/ \E group \in SUBSET stored' :
                      Deliverable(group) /\ groups' = Append(groups, group)

Next == Publish

Spec == Init /\ [][Next]_svars
=============================================================================
