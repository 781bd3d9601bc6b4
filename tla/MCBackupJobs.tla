---------------------------- MODULE MCBackupJobs ----------------------------
(* Instance of BackupJobs for TLC. *)
EXTENDS BackupJobs
=============================================================================
