----------------------------- MODULE MCRepoScan -----------------------------
(* RepoScan for TLC: advisories, CVEs and versions are interchangeable, for *)
(* no action or property names one.  Every property of the run is about     *)
(* states or single steps, where a symmetry set is sound.                   *)
EXTENDS RepoScan, TLC

Symmetry == Permutations(Advisory) \cup Permutations(Cve) \cup Permutations(Version)
=============================================================================
