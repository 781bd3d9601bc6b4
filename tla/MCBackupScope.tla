--------------------------- MODULE MCBackupScope ---------------------------
(* Instance of BackupScope for TLC. *)
EXTENDS BackupScope, TLC

RunSymmetry == Permutations(Runs)

\* All projects, or one of them selected.
AllOrOne == {{}, {CHOOSE p \in Projects : TRUE}}
=============================================================================
