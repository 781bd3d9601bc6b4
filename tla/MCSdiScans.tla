----------------------------- MODULE MCSdiScans -----------------------------
(* Instance of SdiScans for TLC. *)
EXTENDS SdiScans
=============================================================================
