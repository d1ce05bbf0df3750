----------------------- MODULE MCDefenseWorkerQueue -----------------------
(***************************************************************************)
(* Small instances of DefenseWorkerQueue.                                  *)
(***************************************************************************)
EXTENDS DefenseWorkerQueue, TLC

CONSTANTS w1, w2, id1, id2

DistinctIds == w1 :> id1 @@ w2 :> id2
SharedId == w1 :> id1 @@ w2 :> id1

\* Jobs may be renamed, and two workers swapped together with their identifiers.
Symmetry ==
  Permutations(Jobs) \cup Permutations(Clients) \cup {w1 :> w2 @@ w2 :> w1 @@ id1 :> id2 @@ id2 :> id1}
=============================================================================
