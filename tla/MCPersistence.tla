----------------------------- MODULE MCPersistence -----------------------------
(* A store of up to three records, any of which changes at any time. *)
EXTENDS Persistence, TLC

CONSTANTS r1, r2, r3

MCRecords == {r1, r2, r3}
=============================================================================
