-------------------------- MODULE MCAttachmentStore --------------------------
(* Instances of AttachmentStore for TLC. *)
EXTENDS AttachmentStore, TLC

RunSymmetry == Permutations(Runs) \cup Permutations(Attachments)
=============================================================================
