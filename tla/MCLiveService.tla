--------------------------- MODULE MCLiveService ---------------------------
(* LiveService for TLC: repositories and workers are interchangeable, and  *)
(* every property the run checks is about jobs, so that a permutation of   *)
(* either changes none of them.                                            *)
EXTENDS LiveService, TLC

Symmetry == Permutations(Repo) \cup Permutations(Worker)
=============================================================================
