------------------------------ MODULE SdiScans ------------------------------
(***************************************************************************)
(* The SDI scans of backup points: triggerScan supersedes the earlier      *)
(* results of the point, registers a pending one and hands runScan to      *)
(* setImmediate; getLatestScanResult is what the routes surface.           *)
(*                                                                         *)
(* Requests, saves and the check phase of the event loop, which runs every *)
(* immediate handed to it, are steps.  A run is one step: the files of a   *)
(* backup point are JSON snapshots, whose extractors await nothing but     *)
(* settled promises, so that no request is answered between "running" and  *)
(* "complete".  For the same reason "failed" is not reached: an extractor  *)
(* that throws makes runScan skip the file.                                *)
(***************************************************************************)
EXTENDS Integers, Sequences, FiniteSets

CONSTANTS
    Points,       \* backup points
    MaxScans,     \* bound on db.sdiScanResults
    MaxTime       \* bound on the clock, in milliseconds

ASSUME SdiAssumption == MaxScans \in Nat /\ MaxTime \in Nat

VARIABLES
    now,          \* Date.now(), to the millisecond of startedAt
    scans,        \* db.sdiScanResults, a Map in order of insertion
    immediates,   \* the scans handed to setImmediate
    disk,         \* the scans in db.json
    orphans       \* history: pending scans that a restart found without a run

vars == <<now, scans, immediates, disk, orphans>>

-----------------------------------------------------------------------------
Scan == [point : Points,
         status : {"pending", "running", "complete", "superseded"},
         startedAt : 0 .. MaxTime,
         completed : BOOLEAN]          \* completedAt is set

TypeOK ==
    /\ now \in 0 .. MaxTime
    /\ scans \in Seq(Scan) /\ disk \in Seq(Scan)
    /\ Len(scans) <= MaxScans
    /\ immediates \subseteq DOMAIN scans
    /\ \A n \in immediates : ~scans[n].completed
    /\ orphans \subseteq DOMAIN scans

Init ==
    /\ now = 0
    /\ scans = <<>> /\ disk = <<>>
    /\ immediates = {} /\ orphans = {}

-----------------------------------------------------------------------------
Of(p) == {n \in DOMAIN scans : scans[n].point = p}

\* The scans of a point that are not superseded.
Current(p) == {n \in Of(p) : scans[n].status # "superseded"}

\* The one with the latest startedAt, the first of them on a tie.
Latest(p) ==
    CHOOSE n \in Current(p) : \A k \in Current(p) :
        \/ scans[k].startedAt < scans[n].startedAt
        \/ scans[k].startedAt = scans[n].startedAt /\ n <= k

\* What getLatestScanResult returns: the status of the latest scan, or null.
Surfaced(p) == IF Current(p) = {} THEN "none" ELSE scans[Latest(p)].status

Supersede(p) ==
    [n \in DOMAIN scans |-> IF n \in Of(p)
                            THEN [scans[n] EXCEPT !.status = "superseded"]
                            ELSE scans[n]]

NewScan(p) == [point |-> p, status |-> "pending", startedAt |-> now,
               completed |-> FALSE]

\* Mutant: the new result is registered before the earlier ones are marked,
\* and is marked with them.
TriggerThenSupersede(p) ==
    /\ \A n \in Of(p) : scans[n].status # "running"
    /\ Len(scans) < MaxScans
    /\ scans' = Append(Supersede(p), [NewScan(p) EXCEPT !.status = "superseded"])
    /\ immediates' = immediates \cup {Len(scans')}
    /\ UNCHANGED <<now, disk, orphans>>

\* Mutant: the scan is not started when another one waits.
TriggerWhenIdle(p) ==
    /\ \A n \in Of(p) : scans[n].status # "running"
    /\ Len(scans) < MaxScans
    /\ scans' = Append(Supersede(p), NewScan(p))
    /\ immediates' = IF immediates = {} THEN {Len(scans')} ELSE immediates
    /\ UNCHANGED <<now, disk, orphans>>

\* POST /scan/:backupPointId/trigger, refused while a scan of the point runs.
Trigger(p) ==
    /\ \A n \in Of(p) : scans[n].status # "running"
    /\ Len(scans) < MaxScans
    /\ scans' = Append(Supersede(p), NewScan(p))
    /\ immediates' = immediates \cup {Len(scans')}
    /\ UNCHANGED <<now, disk, orphans>>

\* Mutant: the results already there are scanned again.
RunEveryScan ==
    /\ immediates # {}
    /\ scans' = [n \in DOMAIN scans |->
                    [scans[n] EXCEPT !.status = "complete", !.completed = TRUE]]
    /\ immediates' = {}
    /\ UNCHANGED <<now, disk, orphans>>

\* The check phase: runScan for every immediate, whatever the status of its
\* scan has become meanwhile.
RunScans ==
    /\ immediates # {}
    /\ scans' = [n \in DOMAIN scans |->
                    IF n \in immediates
                    THEN [scans[n] EXCEPT !.status = "complete",
                                          !.completed = TRUE]
                    ELSE scans[n]]
    /\ immediates' = {}
    /\ UNCHANGED <<now, disk, orphans>>

Tick ==
    /\ now < MaxTime
    /\ now' = now + 1
    /\ UNCHANGED <<scans, immediates, disk, orphans>>

\* saveDb, called by the autosave, by a backup that writes its manifests, and
\* on shutdown.
Save ==
    /\ disk' = scans
    /\ UNCHANGED <<now, scans, immediates, orphans>>

\* The process ends, and the restarted one loads db.json.  Nothing resumes a
\* scan that was pending.
CrashAndRestart ==
    /\ scans' = disk
    /\ immediates' = {}
    /\ orphans' = {n \in DOMAIN disk : ~disk[n].completed}
    /\ UNCHANGED <<now, disk>>

Next ==
    \/ \E p \in Points : Trigger(p)
    \/ RunScans
    \/ Tick
    \/ Save
    \/ CrashAndRestart

\* The event loop reaches its check phase.
Spec == Init /\ [][Next]_vars /\ WF_vars(RunScans)

-----------------------------------------------------------------------------
(* Properties *)

\* The result surfaced for a point is that of its newest request (in the
\* milliseconds of startedAt): no scan that was superseded before it ran, and
\* set itself to complete all the same, hides a newer one, and the newest one
\* is never superseded itself.
NewestIsSurfaced ==
    \A p \in Points : Of(p) # {} =>
        /\ Current(p) # {}
        /\ \A n \in Of(p) : scans[n].startedAt <= scans[Latest(p)].startedAt

\* A completed result that was superseded stays so: a scan that runs late
\* brings back its own result only, never one that a reader has seen replaced.
ReplacedStaysReplaced ==
    [][CrashAndRestart \/
       \A n \in DOMAIN scans :
            scans[n].completed /\ scans[n].status = "superseded"
                => scans'[n] = scans[n]]_vars

\* A point for which a scan was requested ends with a completed result, unless
\* a restart finds the scan pending, which nothing resumes, or finds no scan.
ScansSettle ==
    \A p \in Points :
        Of(p) # {} ~> \/ Surfaced(p) \in {"complete", "none"}
                      \/ Current(p) \cap orphans # {}
=============================================================================
