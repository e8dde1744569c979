----------------------------- MODULE MCBatching -----------------------------
(* Small instances of Batching for TLC. *)
EXTENDS Batching, TLC

CONSTANTS u1, u2, s1, s2, b1, b2

(* Every story clashes with itself only; or all stories with one another.  *)
NearSame == {<<s, s>> : s \in Story}
NearAll == Story \X Story

Interchangeable == Permutations(Batch) \cup Permutations(Url \ Legacy) \cup Permutations(Legacy)
=============================================================================
