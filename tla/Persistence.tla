------------------------------ MODULE Persistence ------------------------------
(***************************************************************************)
(* The store in memory (db/index.js), the file db.json, and the file       *)
(* db.json.tmp that a save writes before it takes the name of the former   *)
(* (db/persist.js).  A save is synchronous: nothing in the process happens *)
(* between its steps, but the process may be killed there.  Any step of it *)
(* may fail; then the error is logged and the program goes on.             *)
(***************************************************************************)
EXTENDS Naturals

CONSTANTS
    Records,       \* what the Maps may hold
    MaxFailures    \* bound: steps of a save that fail

ASSUME PersistenceAssumption == MaxFailures \in Nat

VARIABLES
    process,       \* "down", "up", or "stopping" after a signal
    step,          \* of the save under way: "none", "write" or "rename"
    mem,           \* the Maps of db
    file, tmp,     \* db.json and db.json.tmp
    failures

storeVars == <<process, step, mem, file, tmp, failures>>

\* A file that is not there, or not all written, holds nothing.
File == [is : {"whole"}, holds : SUBSET Records]
        \cup [is : {"absent", "torn"}, holds : {{}}]
NoFile == [is |-> "absent", holds |-> {}]
Torn == [is |-> "torn", holds |-> {}]
Whole(s) == [is |-> "whole", holds |-> s]

StoreInit ==
    /\ process = "down" /\ step = "none"
    /\ mem = {}
    /\ file \in File \ {Torn} /\ tmp \in File
    /\ failures = 0

\* A save that is over; a process that is stopping exits.
Return ==
    /\ step' = "none"
    /\ process' = IF process = "stopping" THEN "down" ELSE process

Fail == failures < MaxFailures /\ failures' = failures + 1

\* What an interrupted save left is newer.
LatestFile == IF tmp.is = "whole" THEN tmp ELSE file

\* Mutant: loadDb prefers db.json.tmp.
LoadLatest ==
    /\ process = "down"
    /\ process' = "up"
    /\ mem' = LatestFile.holds
    /\ UNCHANGED <<step, file, tmp, failures>>

\* loadDb, when db/index.js is loaded.
Load ==
    /\ process = "down"
    /\ process' = "up"
    /\ mem' = file.holds
    /\ UNCHANGED <<step, file, tmp, failures>>

\* A file that is there and cannot be read or parsed is as good as none.
LoadUnreadable ==
    /\ process = "down" /\ file # NoFile
    /\ process' = "up"
    /\ mem' = {}
    /\ UNCHANGED <<step, file, tmp, failures>>

\* Mutant: a save is asynchronous.
ChangeDuringSave(r) ==
    /\ process = "up"
    /\ mem' \in {mem \cup {r}, mem \ {r}}
    /\ UNCHANGED <<process, step, file, tmp, failures>>

\* A route or a job changes the store.
Change(r) ==
    /\ process = "up" /\ step = "none"
    /\ mem' \in {mem \cup {r}, mem \ {r}}
    /\ UNCHANGED <<process, step, file, tmp, failures>>

\* Mutant: the error of a save is thrown, and ends the timer.
StartSaveUnlessFailed ==
    /\ process = "up" /\ step = "none" /\ failures = 0
    /\ step' = "write" /\ tmp' = Torn
    /\ UNCHANGED <<process, mem, file, failures>>

\* saveDb, of the timer or of a caller, and of the handler of a signal.
StartSave ==
    /\ process = "up" /\ step = "none"
    /\ step' = "write" /\ tmp' = Torn
    /\ UNCHANGED <<process, mem, file, failures>>

Shutdown ==
    /\ process = "up" /\ step = "none"
    /\ process' = "stopping" /\ step' = "write" /\ tmp' = Torn
    /\ UNCHANGED <<mem, file, failures>>

\* The directory cannot be made, or db.json.tmp cannot be opened.
CannotOpen(stopping) ==
    /\ process = "up" /\ step = "none"
    /\ process' = IF stopping THEN "down" ELSE "up"
    /\ Fail
    /\ UNCHANGED <<step, mem, file, tmp>>

Write ==
    /\ step = "write"
    /\ step' = "rename" /\ tmp' = Whole(mem)
    /\ UNCHANGED <<process, mem, file, failures>>

WriteFails ==
    /\ step = "write"
    /\ Return /\ Fail
    /\ UNCHANGED <<mem, file, tmp>>

Rename ==
    /\ step = "rename"
    /\ Return
    /\ file' = tmp /\ tmp' = NoFile
    /\ UNCHANGED <<mem, failures>>

RenameFails ==
    /\ step = "rename"
    /\ Return /\ Fail
    /\ UNCHANGED <<mem, file, tmp>>

\* The process is killed.
Crash ==
    /\ process # "down"
    /\ process' = "down" /\ step' = "none"
    /\ UNCHANGED <<mem, file, tmp, failures>>

StoreNext ==
    \/ Load \/ LoadUnreadable
    \/ \E r \in Records : Change(r)
    \/ StartSave \/ Shutdown \/ Write \/ Rename
    \/ \E stopping \in BOOLEAN : CannotOpen(stopping)
    \/ WriteFails \/ RenameFails
    \/ Crash

\* The timer comes round, and a save that is under way goes on.
StoreFairness == WF_storeVars(StartSave) /\ WF_storeVars(Write) /\ WF_storeVars(Rename)

StoreSpec == StoreInit /\ [][StoreNext]_storeVars /\ StoreFairness

-----------------------------------------------------------------------------
Saved == file.holds
Store == IF process = "down" THEN Saved ELSE mem

StoreTypeOK ==
    /\ process \in {"down", "up", "stopping"}
    /\ step \in {"none", "write", "rename"}
    /\ process = "down" => step = "none"
    /\ process = "stopping" => step # "none"
    /\ mem \in SUBSET Records
    /\ file \in File \ {Torn} /\ tmp \in File
    /\ failures \in 0 .. MaxFailures

\* What a save is about to rename is all of the store at this moment.
WholeBeforeRename == step = "rename" => tmp = Whole(mem)

\* Hazard: a crash or a full disk in the middle of a save.  Seen through
\* db.json, a save replaces the snapshot as a whole or not at all, whatever
\* fails; only a restart that cannot read the file loses it.
Snapshots == INSTANCE SnapshotStore WITH store <- Store, saved <- Saved
SavesWhole == Snapshots!Spec

\* Hazard: errors of a save are only logged.  What the store has and db.json
\* has not is saved in the end, unless the process dies first.
Unsaved == process = "up" /\ mem # Saved
EventuallySaved == Unsaved ~> ~Unsaved
=============================================================================
