----------------------------- MODULE SnapshotStore -----------------------------
(***************************************************************************)
(* What db/persist.js promises of the store: a program works on a store in *)
(* memory, of which a snapshot is kept.  Saving replaces the snapshot as a *)
(* whole; a restart goes back to it, or, if it cannot be read, to nothing. *)
(***************************************************************************)
CONSTANT Records      \* what the store may hold

VARIABLES store, saved

Init == saved \in SUBSET Records /\ store = saved

Change(r) ==
    /\ store' \in {store \cup {r}, store \ {r}}
    /\ UNCHANGED saved

Save == saved' = store /\ UNCHANGED store

Restart == store' = saved /\ UNCHANGED saved

Forget == store' = {} /\ UNCHANGED saved

Next == (\E r \in Records : Change(r)) \/ Save \/ Restart \/ Forget

Spec == Init /\ [][Next]_<<store, saved>>
=============================================================================
