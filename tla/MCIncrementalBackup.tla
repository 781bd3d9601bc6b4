------------------------ MODULE MCIncrementalBackup ------------------------
(* Instances of IncrementalBackup for TLC. *)
EXTENDS IncrementalBackup, TLC

RunSymmetry == Permutations(Runs)

\* All issues in one project.
OneProject == [i \in Issues |-> CHOOSE p \in Projects : TRUE]
=============================================================================
