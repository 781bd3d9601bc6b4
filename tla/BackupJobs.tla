----------------------------- MODULE BackupJobs -----------------------------
(***************************************************************************)
(* The life of a job record in db.backupJobs: the routes that create it,   *)
(* the pipeline that works for it, its heartbeat timer, the timeout guard  *)
(* and the db.json snapshot it is reloaded from after a crash.             *)
(*                                                                         *)
(* The server is one single-threaded Node process.  A handler, a timer     *)
(* callback and the code between two awaits each run to completion, so     *)
(* each is one action; a crash may fall between any two of them, and also  *)
(* inside the one stretch that writes to disk in the middle (a backup's    *)
(* MANIFEST_WRITE, see WriteBackupPoint).                                  *)
(*                                                                         *)
(* Time.  The code stores timestamps and compares their age with the       *)
(* timeout; the model stores the ages.  An age saturates one above the     *)
(* timeout, where the only comparison of the code (age > timeout) no       *)
(* longer changes, so time is unbounded and the state space finite.        *)
(***************************************************************************)
EXTENDS Naturals

CONSTANTS
    Jobs,        \* job ids (uuids)
    Kinds,       \* the kinds of job that clients trigger
    Timeout,     \* JOB_TIMEOUT_MINUTES
    BeatEvery,   \* HEARTBEAT_INTERVAL_MS, with the lag of the event loop
    GuardEvery   \* GUARD_CHECK_INTERVAL_MS

AllKinds == {"backup", "restore", "aliasRestore"}

ASSUME TimingAssumption ==
    /\ Timeout \in Nat /\ BeatEvery \in Nat \ {0} /\ GuardEvery \in Nat \ {0}
    /\ BeatEvery <= Timeout
ASSUME KindsAssumption == Kinds \subseteq AllKinds

VARIABLES
    up,        \* the process is running
    jobs,      \* db.backupJobs
    pipeline,  \* where the async function started for a job is
    beatIn,    \* time left before a job's heartbeat callback is due
    guardIn,   \* time left before checkTimeouts is due
    points,    \* db.backupPoints, a point named by the job that wrote it
    disk       \* db.json: the snapshot of jobs and points last saved

vars == <<up, jobs, pipeline, beatIn, guardIn, points, disk>>

-----------------------------------------------------------------------------
Terminal == {"completed", "failed", "auth_error", "complete",
             "complete_with_errors"}

\* The job record.  "age" is the age of lastHeartbeatAt, or of triggeredAt
\* when there is none; "hasPoint" is backupPointId # null.
Job == [kind : AllKinds \cup {"none"},
        status : Terminal \cup {"absent", "running"},
        age : 0 .. Timeout + 1,
        timedOut : BOOLEAN,
        hasPoint : BOOLEAN]

Absent == [kind |-> "none", status |-> "absent", age |-> 0,
           timedOut |-> FALSE, hasPoint |-> FALSE]

NoTimer == BeatEvery + 1

\* startHeartbeat is called by the two routes of routes/backup.js, not by the
\* restore alias of app.js.
HasHeartbeat(kind) == kind \in {"backup", "restore"}

TypeOK ==
    /\ up \in BOOLEAN
    /\ jobs \in [Jobs -> Job]
    /\ pipeline \in [Jobs -> {"idle", "working", "returning"}]
    /\ beatIn \in [Jobs -> 0 .. NoTimer]
    /\ guardIn \in 0 .. GuardEvery
    /\ points \in SUBSET Jobs
    /\ disk \in [jobs : [Jobs -> Job], points : SUBSET Jobs]

Init ==
    /\ up = TRUE
    /\ jobs = [j \in Jobs |-> Absent]
    /\ pipeline = [j \in Jobs |-> "idle"]
    /\ beatIn = [j \in Jobs |-> NoTimer]
    /\ guardIn = GuardEvery
    /\ points = {}
    /\ disk = [jobs |-> jobs, points |-> points]

-----------------------------------------------------------------------------
(***************************************************************************)
(* The event loop: nothing runs between the return of a backup pipeline    *)
(* and the lines that await it (a microtask), so every other callback      *)
(* waits for it.                                                           *)
(***************************************************************************)
Ready == up /\ \A j \in Jobs : pipeline[j] # "returning"

\* POST /:id/backup, POST /:id/restore-backup and the restore alias.  The
\* checks on the connection and on the backup point only refuse a request,
\* and a refused request changes nothing.
Trigger(j, k) ==
    /\ Ready
    /\ jobs[j].status = "absent" /\ disk.jobs[j].status = "absent"
    /\ jobs' = [jobs EXCEPT ![j] = [Absent EXCEPT !.kind = k,
                                                  !.status = "running"]]
    /\ pipeline' = [pipeline EXCEPT ![j] = "working"]
    /\ beatIn' = [beatIn EXCEPT ![j] = IF HasHeartbeat(k) THEN BeatEvery
                                                          ELSE NoTimer]
    /\ UNCHANGED <<up, guardIn, points, disk>>

\* The pipeline of job j ends: its promise settles with the given status and
\* its finally block stops the heartbeat.  The status is assigned whatever it
\* was before.
Settle(j, status, hasPoint) ==
    /\ jobs' = [jobs EXCEPT ![j].status = status, ![j].hasPoint = hasPoint]
    /\ pipeline' = [pipeline EXCEPT ![j] = "idle"]
    /\ beatIn' = [beatIn EXCEPT ![j] = NoTimer]
    /\ UNCHANGED <<up, guardIn, points, disk>>

\* The last synchronous stretch of runIntegrationBackup: the backup point and
\* everything that belongs to it enter the maps, then saveDb writes them all.
\* saveDb logs and swallows a write error, which leaves db.json as it was.
WriteBackupPoint(j) ==
    /\ Ready
    /\ jobs[j].kind = "backup" /\ pipeline[j] = "working"
    /\ points' = points \cup {j}
    /\ disk' \in {disk, [jobs |-> jobs, points |-> points']}
    /\ pipeline' = [pipeline EXCEPT ![j] = "returning"]
    /\ UNCHANGED <<up, jobs, beatIn, guardIn>>

\* Mutant: the route does not await the pipeline.
CompleteWithoutAwait(j) ==
    /\ up
    /\ jobs[j].kind = "backup" /\ pipeline[j] # "idle"
    /\ Settle(j, "completed", TRUE)

CompleteBackup(j) ==
    /\ up
    /\ pipeline[j] = "returning"
    /\ Settle(j, "completed", TRUE)

\* Any await of the pipeline throws.
FailBackup(j) ==
    /\ Ready
    /\ jobs[j].kind = "backup" /\ pipeline[j] = "working"
    /\ \E status \in {"failed", "auth_error"} : Settle(j, status, FALSE)

\* Mutant: the status of the result is stored as it is.
EndRestoreRaw(j) ==
    /\ Ready
    /\ jobs[j].kind \in {"restore", "aliasRestore"} /\ pipeline[j] = "working"
    /\ \E status \in {"complete", "running", "failed", "blocked"} :
            Settle(j, status, FALSE)

\* A restore ends with the status of its result: "running" when conflicts of
\* an ask-mode restore wait for the user.  A blocked or failed one is
\* "failed".
EndRestore(j) ==
    /\ Ready
    /\ jobs[j].kind \in {"restore", "aliasRestore"} /\ pipeline[j] = "working"
    /\ \E status \in {"complete", "complete_with_errors", "running", "failed"} :
            Settle(j, status, FALSE)

-----------------------------------------------------------------------------
(* Timers *)

\* Mutant: the callback does not stamp the job.
BeatUnstamped(j) ==
    /\ Ready
    /\ beatIn[j] = 0
    /\ beatIn' = [beatIn EXCEPT ![j] = BeatEvery]
    /\ UNCHANGED <<up, jobs, pipeline, guardIn, points, disk>>

\* The heartbeat callback stamps a running job and cancels itself otherwise.
Beat(j) ==
    /\ Ready
    /\ beatIn[j] = 0
    /\ IF jobs[j].status = "running"
       THEN /\ jobs' = [jobs EXCEPT ![j].age = 0]
            /\ beatIn' = [beatIn EXCEPT ![j] = BeatEvery]
       ELSE /\ beatIn' = [beatIn EXCEPT ![j] = NoTimer]
            /\ UNCHANGED jobs
    /\ UNCHANGED <<up, pipeline, guardIn, points, disk>>

\* Mutant: the guard does not look at the status.
TimedOutAnyStatus(job) == job.status # "absent" /\ job.age > Timeout

TimedOut(job) == job.status = "running" /\ job.age > Timeout

CheckTimeouts(js) ==
    [j \in Jobs |-> IF TimedOut(js[j])
                    THEN [js[j] EXCEPT !.status = "failed", !.timedOut = TRUE]
                    ELSE js[j]]

\* Mutant: the guard runs at startup only.
GuardAtStartupOnly ==
    /\ Ready
    /\ guardIn = 0
    /\ guardIn' = GuardEvery
    /\ UNCHANGED <<up, jobs, pipeline, beatIn, points, disk>>

Guard ==
    /\ Ready
    /\ guardIn = 0
    /\ jobs' = CheckTimeouts(jobs)
    /\ guardIn' = GuardEvery
    /\ UNCHANGED <<up, pipeline, beatIn, points, disk>>

\* db/index.js saves the whole store every 30 seconds.
Autosave ==
    /\ Ready
    /\ disk' = [jobs |-> jobs, points |-> points]
    /\ UNCHANGED <<up, jobs, pipeline, beatIn, guardIn, points>>

Older(js) ==
    [j \in Jobs |-> [js[j] EXCEPT !.age =
        IF js[j].status = "absent" \/ @ > Timeout THEN @ ELSE @ + 1]]

\* One unit of time passes.  A timer that is due runs first.
Tick ==
    /\ up => Ready /\ guardIn > 0 /\ \A j \in Jobs : beatIn[j] # 0
    /\ jobs' = Older(jobs)
    /\ disk' = [disk EXCEPT !.jobs = Older(@)]
    /\ beatIn' = [j \in Jobs |-> IF beatIn[j] \in 1 .. BeatEvery
                                 THEN beatIn[j] - 1 ELSE beatIn[j]]
    /\ guardIn' = IF up THEN guardIn - 1 ELSE guardIn
    /\ UNCHANGED <<up, pipeline, points>>

-----------------------------------------------------------------------------
(* Stops and starts *)

Down ==
    /\ up' = FALSE
    /\ jobs' = [j \in Jobs |-> Absent]
    /\ pipeline' = [j \in Jobs |-> "idle"]
    /\ beatIn' = [j \in Jobs |-> NoTimer]
    /\ guardIn' = GuardEvery
    /\ points' = {}

\* The process is killed or the host fails: memory is lost.
Crash ==
    /\ up
    /\ Down
    /\ UNCHANGED disk

\* SIGTERM or SIGINT: saveDb, then exit.
Shutdown ==
    /\ Ready
    /\ Down
    /\ disk' = [jobs |-> jobs, points |-> points]

\* Mutant: db.json is loaded without its backup points.
RestartWithoutPoints ==
    /\ ~up
    /\ up' = TRUE
    /\ jobs' = CheckTimeouts(disk.jobs)
    /\ points' = {}
    /\ UNCHANGED <<pipeline, beatIn, guardIn, disk>>

\* loadDb fills the maps, and startGuard runs checkTimeouts once the server
\* listens, before the first request.
Restart ==
    /\ ~up
    /\ up' = TRUE
    /\ jobs' = CheckTimeouts(disk.jobs)
    /\ points' = disk.points
    /\ UNCHANGED <<pipeline, beatIn, guardIn, disk>>

-----------------------------------------------------------------------------
Pipeline(j) ==
    \/ WriteBackupPoint(j)
    \/ CompleteBackup(j)
    \/ FailBackup(j)
    \/ EndRestore(j)

Next ==
    \/ \E j \in Jobs, k \in Kinds : Trigger(j, k)
    \/ \E j \in Jobs : Pipeline(j)
    \/ \E j \in Jobs : Beat(j)
    \/ Guard
    \/ Autosave
    \/ Tick
    \/ Crash
    \/ Shutdown
    \/ Restart

(***************************************************************************)
(* Fairness.  Time passes, due timers run, a dead server is restarted (the *)
(* container's restart policy).  Every HTTP call of a pipeline carries a   *)
(* timeout, so a pipeline that is working ends; the heartbeat is a timer   *)
(* of its own and would keep a job running whose pipeline hangs.           *)
(***************************************************************************)
RuntimeFairness ==
    /\ SF_vars(Tick)
    /\ WF_vars(Guard)
    /\ WF_vars(Autosave)
    /\ WF_vars(Restart)
    /\ \A j \in Jobs : WF_vars(Beat(j)) /\ WF_vars(CompleteBackup(j))

PipelineFairness == \A j \in Jobs : WF_vars(Pipeline(j))

Spec == Init /\ [][Next]_vars

FairSpec == Spec /\ RuntimeFairness /\ PipelineFairness

-----------------------------------------------------------------------------
(* Properties *)

\* A backup job that reports "completed" names a backup point that exists, in
\* memory and in every snapshot a restart may load, however saves, failed
\* saves and crashes fall around the two writes (backupEngine.js writes the
\* point, routes/backup.js the status, in two steps).
CompletedHasPoint ==
    /\ \A j \in Jobs : jobs[j].status = "completed" =>
            jobs[j].hasPoint /\ j \in points
    /\ \A j \in Jobs : disk.jobs[j].status = "completed" =>
            disk.jobs[j].hasPoint /\ j \in disk.points

\* A job of the alias that the guard has given up: it cannot beat.
GivenUp(job) == job.timedOut /\ ~HasHeartbeat(job.kind)

\* The guard never fails a job whose pipeline is still at work in this process
\* as long as it can beat: its last heartbeat is always younger than the
\* timeout.  And nothing but the guard gives a job an outcome before its
\* pipeline has ended.
LiveJobRuns ==
    \A j \in Jobs : pipeline[j] # "idle" =>
        jobs[j].status = "running" \/ GivenUp(jobs[j])

\* What the three properties around this one rest on, and what every action
\* keeps: a beating job at work has been stamped within one heartbeat interval,
\* only a live process is at work, a pipeline that returns has written its
\* point, and memory holds whatever the last snapshot had settled.
FreshBeat ==
    \A j \in Jobs : pipeline[j] # "idle" /\ HasHeartbeat(jobs[j].kind) =>
        /\ jobs[j].status = "running"
        /\ beatIn[j] <= BeatEvery
        /\ jobs[j].age + beatIn[j] <= BeatEvery

AtWork ==
    \A j \in Jobs :
        /\ pipeline[j] # "idle" => up
        /\ pipeline[j] # "idle" =>
                jobs[j].status = "running" \/ jobs[j].timedOut
        /\ pipeline[j] = "returning" => jobs[j].kind = "backup" /\ j \in points

SavedIsCurrent ==
    up => /\ disk.points \subseteq points
          /\ \A j \in Jobs :
                disk.jobs[j].status \in Terminal /\ ~GivenUp(disk.jobs[j]) =>
                    /\ jobs[j].status = disk.jobs[j].status
                    /\ jobs[j].kind = disk.jobs[j].kind
                    /\ jobs[j].timedOut = disk.jobs[j].timedOut

JobsInv == FreshBeat /\ AtWork /\ CompletedHasPoint /\ SavedIsCurrent

\* While the process lives, the outcome of a job is written once: no pipeline,
\* timer or guard overwrites a terminal status.  The code breaks this in one
\* case, and the property excepts no more: a job of the alias that the guard
\* gave up is still at work, and its end overwrites the verdict.
OutcomeIsFinal ==
    [][up /\ up' => \A j \in Jobs :
            jobs[j].status \in Terminal =>
                \/ jobs'[j].status = jobs[j].status
                \/ pipeline[j] # "idle" /\ GivenUp(jobs[j])]_vars

\* What db.json holds is never lost: a backup point, once saved, is in every
\* later snapshot, and so is the outcome of a job, but for the guard's verdict
\* on a job of the alias.
SavedHistoryIsKept ==
    [][/\ disk.points \subseteq disk'.points
       /\ \A j \in Jobs :
            disk.jobs[j].status \in Terminal /\ ~GivenUp(disk.jobs[j])
                => disk'.jobs[j].status = disk.jobs[j].status]_vars

\* If the server eventually stays up, no job is recorded as running for ever:
\* the pipeline settles it or, when a crash or a pending conflict left nobody
\* at work on it, the guard does.
RunningJobsSettle ==
    <>[]up => \A j \in Jobs :
        disk.jobs[j].status = "running" ~> disk.jobs[j].status # "running"
=============================================================================
