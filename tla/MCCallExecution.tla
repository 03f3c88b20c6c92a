-------------------------- MODULE MCCallExecution --------------------------
(* Two providers of the toolset and one tool-use identity.                 *)
EXTENDS CallExecution, TLC
CONSTANTS t1, t2, l1, l2, d1

OneToken == {t1}
MCTokens == {t1, t2}
MCLeases == {l1, l2}
MCDigests == {d1}
Replicas == l1 :> t1 @@ l2 :> t1        \* two replicas of one admission
Replacement == l1 :> t1 @@ l2 :> t2     \* an admission and its replacement

ReplicasInterchangeable == Permutations(MCLeases)
=============================================================================
