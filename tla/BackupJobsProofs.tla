-------------------------- MODULE BackupJobsProofs --------------------------
(***************************************************************************)
(* BackupJobs for every set of jobs and every timing that satisfies        *)
(* TimingAssumption: type correctness, the inductive invariant, and the    *)
(* safety properties that follow from it.                                  *)
(***************************************************************************)
EXTENDS BackupJobs, TLAPS

USE TimingAssumption, KindsAssumption

\* The ways in which the actions make and edit a job record.
LEMMA AbsentType == Absent \in Job
BY DEF Absent, Job

\* A triggered job is a job.
LEMMA NewJobType ==
    ASSUME NEW k \in Kinds
    PROVE  [Absent EXCEPT !.kind = k, !.status = "running"] \in Job
<1>1. k \in AllKinds
  OBVIOUS
<1>2. QED
  BY <1>1, AbsentType DEF Job

\* So is one that settles,
LEMMA SettledJobType ==
    ASSUME NEW job \in Job, NEW status \in Terminal \cup {"running"},
           NEW hasPoint \in BOOLEAN
    PROVE  [job EXCEPT !.status = status, !.hasPoint = hasPoint] \in Job
BY DEF Job

\* and one whose heartbeat is stamped.
LEMMA StampedJobType ==
    ASSUME NEW job \in Job
    PROVE  [job EXCEPT !.age = 0] \in Job
BY DEF Job

\* The types hold at the start.
LEMMA InitType == Init => TypeOK
BY AbsentType DEF Init, TypeOK, NoTimer

\* checkTimeouts maps job records to job records.
LEMMA CheckTimeoutsType ==
    ASSUME NEW js \in [Jobs -> Job]
    PROVE  CheckTimeouts(js) \in [Jobs -> Job]
BY DEF CheckTimeouts, TimedOut, Job, Terminal

\* The passing of time maps job records to job records.
LEMMA OlderType ==
    ASSUME NEW js \in [Jobs -> Job]
    PROVE  Older(js) \in [Jobs -> Job]
<1> SUFFICES ASSUME NEW j \in Jobs
             PROVE  Older(js)[j] \in Job
  BY DEF Older
<1>1. CASE js[j].status = "absent" \/ js[j].age > Timeout
  BY <1>1 DEF Older, Job
<1>2. CASE ~(js[j].status = "absent" \/ js[j].age > Timeout)
  <2>1. js[j].age + 1 \in 0 .. Timeout + 1
    BY <1>2 DEF Job
  <2>2. QED
    BY <1>2, <2>1 DEF Older, Job
<1>3. QED
  BY <1>1, <1>2

\* The end of a pipeline keeps the types.
LEMMA SettleType ==
    ASSUME TypeOK, NEW j \in Jobs, NEW status \in Terminal \cup {"running"},
           NEW hasPoint \in BOOLEAN, Settle(j, status, hasPoint)
    PROVE  TypeOK'
<1>1. jobs' \in [Jobs -> Job]
  <2>1. [jobs[j] EXCEPT !.status = status, !.hasPoint = hasPoint] \in Job
    BY SettledJobType DEF TypeOK
  <2>2. jobs' = [jobs EXCEPT ![j] = [jobs[j] EXCEPT !.status = status,
                                                    !.hasPoint = hasPoint]]
    BY DEF Settle
  <2>3. QED
    BY <2>1, <2>2 DEF TypeOK
<1>2. beatIn' \in [Jobs -> 0 .. NoTimer]
  BY DEF Settle, TypeOK, NoTimer
<1>3. QED
  BY <1>1, <1>2 DEF Settle, TypeOK

\* A stop keeps them, whatever of the right type is on disk.
LEMMA DownType ==
    ASSUME Down, disk' \in [jobs : [Jobs -> Job], points : SUBSET Jobs]
    PROVE  TypeOK'
<1>1. jobs' \in [Jobs -> Job]
  BY AbsentType DEF Down
<1>2. beatIn' \in [Jobs -> 0 .. NoTimer] /\ guardIn' \in 0 .. GuardEvery
  BY DEF Down, NoTimer
<1>3. QED
  BY <1>1, <1>2 DEF Down, TypeOK

\* Every action keeps the types.
LEMMA StepType == TypeOK /\ [Next]_vars => TypeOK'
<1> SUFFICES ASSUME TypeOK, [Next]_vars
             PROVE  TypeOK'
  OBVIOUS
<1>1. ASSUME NEW j \in Jobs, NEW k \in Kinds, Trigger(j, k)
      PROVE  TypeOK'
  <2>1. jobs' \in [Jobs -> Job]
    BY <1>1, NewJobType DEF Trigger, TypeOK
  <2>2. beatIn' \in [Jobs -> 0 .. NoTimer]
    BY <1>1 DEF Trigger, TypeOK, NoTimer
  <2>3. QED
    BY <1>1, <2>1, <2>2 DEF Trigger, TypeOK
<1>2. ASSUME NEW j \in Jobs, WriteBackupPoint(j)
      PROVE  TypeOK'
  BY <1>2 DEF WriteBackupPoint, TypeOK
<1>3. ASSUME NEW j \in Jobs, CompleteBackup(j)
      PROVE  TypeOK'
  BY <1>3, SettleType DEF CompleteBackup, Terminal
<1>4. ASSUME NEW j \in Jobs, FailBackup(j)
      PROVE  TypeOK'
  BY <1>4, SettleType DEF FailBackup, Terminal
<1>5. ASSUME NEW j \in Jobs, EndRestore(j)
      PROVE  TypeOK'
  BY <1>5, SettleType DEF EndRestore, Terminal
<1>6. ASSUME NEW j \in Jobs, Beat(j)
      PROVE  TypeOK'
  BY <1>6, StampedJobType DEF Beat, TypeOK, NoTimer
<1>7. CASE Guard
  BY <1>7, CheckTimeoutsType DEF Guard, TypeOK
<1>8. CASE Autosave
  BY <1>8 DEF Autosave, TypeOK
<1>9. CASE Tick
  <2>1. jobs' \in [Jobs -> Job] /\ disk' \in [jobs : [Jobs -> Job],
                                              points : SUBSET Jobs]
    BY <1>9, OlderType DEF Tick, TypeOK
  <2>2. beatIn' \in [Jobs -> 0 .. NoTimer] /\ guardIn' \in 0 .. GuardEvery
    <3>1. ASSUME NEW j \in Jobs
          PROVE  (IF beatIn[j] \in 1 .. BeatEvery THEN beatIn[j] - 1
                                                  ELSE beatIn[j]) \in 0 .. NoTimer
      BY DEF TypeOK, NoTimer
    <3>2. QED
      BY <1>9, <3>1 DEF Tick, TypeOK
  <2>3. QED
    BY <1>9, <2>1, <2>2 DEF Tick, TypeOK
<1>10. CASE Crash
  BY <1>10, DownType DEF Crash, TypeOK
<1>11. CASE Shutdown
  <2>1. disk' \in [jobs : [Jobs -> Job], points : SUBSET Jobs]
    BY <1>11 DEF Shutdown, TypeOK
  <2>2. QED
    BY <1>11, <2>1, DownType DEF Shutdown
<1>12. CASE Restart
  BY <1>12, CheckTimeoutsType DEF Restart, TypeOK
<1>13. CASE UNCHANGED vars
  BY <1>13 DEF vars, TypeOK
<1>14. QED
  BY <1>1, <1>2, <1>3, <1>4, <1>5, <1>6, <1>7, <1>8, <1>9, <1>10, <1>11,
     <1>12, <1>13 DEF Next, Pipeline

\* The variables keep their types whatever the interleaving of handlers,
\* timers, crashes and restarts.
THEOREM TypeCorrect == Spec => []TypeOK
<1>1. QED
  BY InitType, StepType, PTL DEF Spec
-----------------------------------------------------------------------------
(***************************************************************************)
(* The inductive invariant.  LiveJobRuns alone is not inductive:    *)
(* that the guard spares a job follows from the age of its last stamp,     *)
(* which only the heartbeat timer bounds (FreshBeat); that the snapshot    *)
(* never runs ahead of memory (SavedIsCurrent) is what carries             *)
(* CompletedHasPoint over a restart.                                       *)
(***************************************************************************)
\* Nothing runs and nothing is saved at the start.
LEMMA InitInv == Init => JobsInv
BY DEF Init, JobsInv, FreshBeat, AtWork, CompletedHasPoint, SavedIsCurrent,
       Absent, Terminal

\* The record and the timer of one job change; the rest of the state stays.
LEMMA SettleInv ==
    ASSUME TypeOK, JobsInv, up, NEW j \in Jobs,
           NEW status \in Terminal \cup {"running"}, NEW hasPoint \in BOOLEAN,
           pipeline[j] # "idle",
           status = "completed" => hasPoint /\ j \in points,
           Settle(j, status, hasPoint)
    PROVE  JobsInv'
<1> USE DEF TypeOK, JobsInv, Settle
<1>1. \A i \in Jobs : /\ jobs'[i].kind = jobs[i].kind
                      /\ jobs'[i].age = jobs[i].age
                      /\ jobs'[i].timedOut = jobs[i].timedOut
                      /\ i # j => jobs'[i] = jobs[i]
                      /\ i # j => beatIn'[i] = beatIn[i]
                      /\ i # j => pipeline'[i] = pipeline[i]
  BY DEF Job
<1>2. pipeline'[j] = "idle" /\ jobs'[j].status = status
      /\ jobs'[j].hasPoint = hasPoint
  BY DEF Job
<1>3. FreshBeat'
  BY <1>1, <1>2 DEF FreshBeat
<1>4. AtWork'
  BY <1>1, <1>2 DEF AtWork
<1>5. CompletedHasPoint'
  BY <1>1, <1>2 DEF CompletedHasPoint
<1>6. SavedIsCurrent'
  BY <1>1, <1>2 DEF SavedIsCurrent, FreshBeat, AtWork, GivenUp, Terminal
<1>7. QED
  BY <1>3, <1>4, <1>5, <1>6

\* A process that is down has nobody at work, and its memory is empty.
LEMMA DownInv ==
    ASSUME Down,
           \A j \in Jobs : disk'.jobs[j].status = "completed" =>
                disk'.jobs[j].hasPoint /\ j \in disk'.points
    PROVE  JobsInv'
BY DEF Down, JobsInv, FreshBeat, AtWork, CompletedHasPoint, SavedIsCurrent,
       Absent

\* checkTimeouts changes the outcome of running jobs only, and to "failed".
LEMMA CheckTimeoutsEffect ==
    ASSUME NEW js \in [Jobs -> Job], NEW j \in Jobs
    PROVE  /\ CheckTimeouts(js)[j].kind = js[j].kind
           /\ CheckTimeouts(js)[j].age = js[j].age
           /\ CheckTimeouts(js)[j].hasPoint = js[j].hasPoint
           /\ ~TimedOut(js[j]) => CheckTimeouts(js)[j] = js[j]
           /\ TimedOut(js[j]) => CheckTimeouts(js)[j].timedOut
           /\ CheckTimeouts(js)[j].status = "completed" =>
                    js[j].status = "completed"
<1>1. CASE TimedOut(js[j])
  <2>1. CheckTimeouts(js)[j] =
            [js[j] EXCEPT !.status = "failed", !.timedOut = TRUE]
    BY <1>1 DEF CheckTimeouts
  <2>2. js[j] \in Job
    OBVIOUS
  <2>3. QED
    BY <1>1, <2>1, <2>2 DEF Job
<1>2. CASE ~TimedOut(js[j])
  BY <1>2 DEF CheckTimeouts
<1>3. QED
  BY <1>1, <1>2

\* Every action keeps the invariant.
LEMMA StepInv == TypeOK /\ JobsInv /\ [Next]_vars => JobsInv'
<1> SUFFICES ASSUME TypeOK, JobsInv, [Next]_vars
             PROVE  JobsInv'
  OBVIOUS
<1> USE DEF JobsInv
<1>1. ASSUME NEW j \in Jobs, NEW k \in Kinds, Trigger(j, k)
      PROVE  JobsInv'
  <2>1. jobs'[j].kind = k /\ jobs'[j].status = "running" /\ jobs'[j].age = 0
    BY <1>1 DEF Trigger, TypeOK, Absent
  <2>2. \A i \in Jobs \ {j} : /\ jobs'[i] = jobs[i]
                              /\ pipeline'[i] = pipeline[i]
                              /\ beatIn'[i] = beatIn[i]
    BY <1>1 DEF Trigger, TypeOK
  <2>3. pipeline'[j] = "working" /\ (HasHeartbeat(k) => beatIn'[j] = BeatEvery)
    BY <1>1 DEF Trigger, TypeOK
  <2>4. FreshBeat'
    BY <2>1, <2>2, <2>3 DEF FreshBeat
  <2>5. AtWork'
    BY <1>1, <2>1, <2>2, <2>3 DEF Trigger, AtWork, Ready
  <2>6. CompletedHasPoint'
    BY <1>1, <2>1, <2>2 DEF Trigger, CompletedHasPoint
  <2>7. SavedIsCurrent'
    BY <1>1, <2>1, <2>2 DEF Trigger, SavedIsCurrent, Terminal
  <2>8. QED
    BY <2>4, <2>5, <2>6, <2>7
<1>2. ASSUME NEW j \in Jobs, WriteBackupPoint(j)
      PROVE  JobsInv'
  <2>1. FreshBeat'
    BY <1>2 DEF WriteBackupPoint, TypeOK, FreshBeat
  <2>2. AtWork'
    BY <1>2 DEF WriteBackupPoint, TypeOK, AtWork, Ready
  <2>3. CompletedHasPoint'
    BY <1>2 DEF WriteBackupPoint, CompletedHasPoint
  <2>4. SavedIsCurrent'
    BY <1>2 DEF WriteBackupPoint, SavedIsCurrent
  <2>5. QED
    BY <2>1, <2>2, <2>3, <2>4
<1>3. ASSUME NEW j \in Jobs, CompleteBackup(j)
      PROVE  JobsInv'
  BY <1>3, SettleInv DEF CompleteBackup, AtWork, Terminal
<1>4. ASSUME NEW j \in Jobs, FailBackup(j)
      PROVE  JobsInv'
  BY <1>4, SettleInv DEF FailBackup, Ready, Terminal
<1>5. ASSUME NEW j \in Jobs, EndRestore(j)
      PROVE  JobsInv'
  BY <1>5, SettleInv DEF EndRestore, Ready, Terminal
<1>6. ASSUME NEW j \in Jobs, Beat(j)
      PROVE  JobsInv'
  <2>1. \A i \in Jobs : /\ jobs'[i].kind = jobs[i].kind
                        /\ jobs'[i].status = jobs[i].status
                        /\ jobs'[i].timedOut = jobs[i].timedOut
                        /\ jobs'[i].hasPoint = jobs[i].hasPoint
    <3>1. CASE jobs[j].status = "running"
      <4>1. jobs' = [jobs EXCEPT ![j] = [jobs[j] EXCEPT !.age = 0]]
        BY <1>6, <3>1 DEF Beat
      <4>2. QED
        BY <4>1 DEF TypeOK, Job
    <3>2. CASE jobs[j].status # "running"
      BY <1>6, <3>2 DEF Beat
    <3>3. QED
      BY <3>1, <3>2
  <2>2. FreshBeat'
    <3>1. CASE jobs[j].status = "running"
      <4>1. jobs'[j].age = 0 /\ beatIn'[j] = BeatEvery
        BY <1>6, <3>1 DEF Beat, TypeOK, Job
      <4>2. \A i \in Jobs \ {j} : jobs'[i] = jobs[i] /\ beatIn'[i] = beatIn[i]
        BY <1>6, <3>1 DEF Beat, TypeOK
      <4>3. QED
        BY <1>6, <2>1, <4>1, <4>2 DEF Beat, FreshBeat
    <3>2. CASE jobs[j].status # "running"
      <4>1. jobs' = jobs /\ pipeline' = pipeline
        BY <1>6, <3>2 DEF Beat
      <4>2. \A i \in Jobs \ {j} : beatIn'[i] = beatIn[i]
        BY <1>6, <3>2 DEF Beat, TypeOK
      <4>3. QED
        BY <3>2, <4>1, <4>2 DEF FreshBeat
    <3>3. QED
      BY <3>1, <3>2
  <2>3. QED
    BY <1>6, <2>1, <2>2 DEF Beat, AtWork, CompletedHasPoint, SavedIsCurrent
<1>7. CASE Guard
  <2>1. \A j \in Jobs : /\ jobs'[j].kind = jobs[j].kind
                        /\ jobs'[j].age = jobs[j].age
                        /\ jobs'[j].hasPoint = jobs[j].hasPoint
                        /\ ~TimedOut(jobs[j]) => jobs'[j] = jobs[j]
                        /\ TimedOut(jobs[j]) => jobs'[j].timedOut
                        /\ jobs[j].status # "running" => jobs'[j] = jobs[j]
                        /\ jobs'[j].status = "completed" =>
                                jobs[j].status = "completed"
    BY <1>7, CheckTimeoutsEffect DEF Guard, TimedOut, TypeOK
  <2>2. FreshBeat'
    BY <1>7, <2>1 DEF Guard, FreshBeat, TimedOut, TypeOK, Job, NoTimer
  <2>3. SavedIsCurrent'
    BY <1>7, <2>1 DEF Guard, SavedIsCurrent, Terminal
  <2>4. QED
    BY <1>7, <2>1, <2>2, <2>3 DEF Guard, AtWork, CompletedHasPoint
<1>8. CASE Autosave
  BY <1>8 DEF Autosave, FreshBeat, AtWork, CompletedHasPoint, SavedIsCurrent
<1>9. CASE Tick
  <2>1. \A j \in Jobs : /\ jobs'[j].kind = jobs[j].kind
                        /\ jobs'[j].status = jobs[j].status
                        /\ jobs'[j].timedOut = jobs[j].timedOut
                        /\ jobs'[j].hasPoint = jobs[j].hasPoint
                        /\ disk'.jobs[j].kind = disk.jobs[j].kind
                        /\ disk'.jobs[j].status = disk.jobs[j].status
                        /\ disk'.jobs[j].timedOut = disk.jobs[j].timedOut
                        /\ disk'.jobs[j].hasPoint = disk.jobs[j].hasPoint
    BY <1>9 DEF Tick, Older, TypeOK, Job
  <2>2. disk'.points = disk.points
    BY <1>9 DEF Tick, TypeOK
  <2>3. FreshBeat'
    <3> SUFFICES ASSUME NEW j \in Jobs, pipeline[j] # "idle",
                        HasHeartbeat(jobs[j].kind)
                 PROVE  /\ jobs'[j].status = "running"
                        /\ beatIn'[j] <= BeatEvery
                        /\ jobs'[j].age + beatIn'[j] <= BeatEvery
      BY <1>9, <2>1 DEF Tick, FreshBeat
    <3>1. up /\ beatIn[j] # 0 /\ beatIn[j] \in 0 .. NoTimer
          /\ jobs[j].age \in Nat
      BY <1>9 DEF Tick, AtWork, TypeOK, Job
    <3>2. /\ jobs[j].status = "running" /\ beatIn[j] <= BeatEvery
          /\ jobs[j].age + beatIn[j] <= BeatEvery
      BY DEF FreshBeat
    <3>3. beatIn'[j] = beatIn[j] - 1
      BY <1>9, <3>1, <3>2 DEF Tick, NoTimer
    <3>4. jobs'[j].age = jobs[j].age + 1
      BY <1>9, <3>1, <3>2 DEF Tick, Older, TypeOK, Job
    <3>5. QED
      BY <2>1, <3>1, <3>2, <3>3, <3>4 DEF NoTimer
  <2>4. QED
    BY <1>9, <2>1, <2>2, <2>3 DEF Tick, AtWork, CompletedHasPoint,
       SavedIsCurrent, GivenUp
<1>10. CASE Crash
  BY <1>10, DownInv DEF Crash, CompletedHasPoint
<1>11. CASE Shutdown
  BY <1>11, DownInv DEF Shutdown, CompletedHasPoint
<1>12. CASE Restart
  <2>1. \A j \in Jobs : /\ jobs'[j].kind = disk.jobs[j].kind
                        /\ jobs'[j].hasPoint = disk.jobs[j].hasPoint
                        /\ disk.jobs[j].status # "running" =>
                                jobs'[j] = disk.jobs[j]
                        /\ jobs'[j].status = "completed" =>
                                disk.jobs[j].status = "completed"
    BY <1>12, CheckTimeoutsEffect DEF Restart, TimedOut, TypeOK
  <2>2. \A j \in Jobs : pipeline'[j] = "idle"
    BY <1>12 DEF Restart, AtWork
  <2>3. FreshBeat' /\ AtWork'
    BY <2>2 DEF FreshBeat, AtWork
  <2>4. CompletedHasPoint' /\ SavedIsCurrent'
    BY <1>12, <2>1 DEF Restart, CompletedHasPoint, SavedIsCurrent, Terminal
  <2>5. QED
    BY <2>3, <2>4
<1>13. CASE UNCHANGED vars
  BY <1>13 DEF vars, FreshBeat, AtWork, CompletedHasPoint, SavedIsCurrent
<1>14. QED
  BY <1>1, <1>2, <1>3, <1>4, <1>5, <1>6, <1>7, <1>8, <1>9, <1>10, <1>11,
     <1>12, <1>13 DEF Next, Pipeline

\* The invariant holds in every reachable state, for every set of jobs and
\* every timing.
THEOREM JobsInvariant == Spec => []JobsInv
<1>1. QED
  BY InitType, StepType, InitInv, StepInv, PTL DEF Spec

\* A completed backup has its point, in memory and on disk.
THEOREM CompletedBackupHasPoint == Spec => []CompletedHasPoint
<1>1. JobsInv => CompletedHasPoint
  BY DEF JobsInv
<1>2. QED
  BY <1>1, JobsInvariant, PTL

\* The timeout guard spares every job that is at work and beats.
THEOREM GuardSparesBeatingJobs == Spec => []LiveJobRuns
<1>1. JobsInv => LiveJobRuns
  BY DEF JobsInv, FreshBeat, AtWork, LiveJobRuns, GivenUp
<1>2. QED
  BY <1>1, JobsInvariant, PTL

-----------------------------------------------------------------------------
(* The two action properties: what a step may never do to an outcome. *)

\* A pipeline that settles job i found it running; no other step but a crash
\* changes the status of a job that is not running.
LEMMA StepKeepsOutcome ==
    ASSUME TypeOK, JobsInv, Next, up, up', NEW i \in Jobs,
           jobs[i].status \in Terminal,
           ~(pipeline[i] # "idle" /\ GivenUp(jobs[i]))
    PROVE  jobs'[i].status = jobs[i].status
<1> USE DEF JobsInv
<1>1. pipeline[i] = "idle"
  BY DEF FreshBeat, AtWork, GivenUp, Terminal, TypeOK
<1>2. jobs[i].status # "absent" /\ jobs[i].status # "running"
  BY DEF Terminal
<1>3. ASSUME NEW j \in Jobs, NEW k \in Kinds, Trigger(j, k)
      PROVE  jobs'[i].status = jobs[i].status
  BY <1>2, <1>3 DEF Trigger, TypeOK
<1>4. ASSUME NEW j \in Jobs, Pipeline(j)
      PROVE  jobs'[i].status = jobs[i].status
  <2>1. i # j
    BY <1>1, <1>4 DEF Pipeline, WriteBackupPoint, CompleteBackup, FailBackup,
       EndRestore
  <2>2. jobs'[i] = jobs[i]
    BY <1>4, <2>1 DEF Pipeline, WriteBackupPoint, CompleteBackup, FailBackup,
       EndRestore, Settle, TypeOK
  <2>3. QED
    BY <2>2
<1>5. ASSUME NEW j \in Jobs, Beat(j)
      PROVE  jobs'[i].status = jobs[i].status
  <2>1. CASE jobs[j].status = "running"
    BY <1>2, <1>5, <2>1 DEF Beat, TypeOK
  <2>2. CASE jobs[j].status # "running"
    BY <1>5, <2>2 DEF Beat
  <2>3. QED
    BY <2>1, <2>2
<1>6. CASE Guard
  BY <1>2, <1>6, CheckTimeoutsEffect DEF Guard, TimedOut, TypeOK
<1>7. CASE Autosave
  BY <1>7 DEF Autosave
<1>8. CASE Tick
  BY <1>8 DEF Tick, Older, TypeOK, Job
<1>9. CASE Crash \/ Shutdown \/ Restart
  BY <1>9 DEF Crash, Shutdown, Down, Restart
<1>10. QED
  BY <1>3, <1>4, <1>5, <1>6, <1>7, <1>8, <1>9 DEF Next

\* While the process lives, no step overwrites the outcome of a job, unless the
\* guard had given up one that cannot beat.
THEOREM OutcomesAreFinal == Spec => OutcomeIsFinal
<1>1. TypeOK /\ JobsInv /\ [Next]_vars =>
          [up /\ up' => \A j \in Jobs :
              jobs[j].status \in Terminal =>
                  \/ jobs'[j].status = jobs[j].status
                  \/ pipeline[j] # "idle" /\ GivenUp(jobs[j])]_vars
  BY StepKeepsOutcome
<1>2. QED
  BY <1>1, TypeCorrect, JobsInvariant, PTL DEF Spec, OutcomeIsFinal

\* A snapshot is taken from a memory that holds what the last one held.
LEMMA StepKeepsHistory ==
    ASSUME TypeOK, JobsInv, Next
    PROVE  /\ disk.points \subseteq disk'.points
           /\ \A i \in Jobs :
                disk.jobs[i].status \in Terminal /\ ~GivenUp(disk.jobs[i]) =>
                    disk'.jobs[i].status = disk.jobs[i].status
<1> USE DEF JobsInv
<1>1. CASE Autosave
  BY <1>1 DEF Autosave, Ready, SavedIsCurrent
<1>2. CASE Shutdown
  BY <1>2 DEF Shutdown, Ready, SavedIsCurrent
<1>3. CASE Tick
  <2>1. disk'.points = disk.points
    BY <1>3 DEF Tick, TypeOK
  <2>2. \A i \in Jobs : disk'.jobs[i].status = disk.jobs[i].status
    BY <1>3 DEF Tick, Older, TypeOK, Job
  <2>3. QED
    BY <2>1, <2>2
<1>4. ASSUME NEW j \in Jobs, WriteBackupPoint(j)
      PROVE  /\ disk.points \subseteq disk'.points
             /\ \A i \in Jobs :
                  disk.jobs[i].status \in Terminal /\ ~GivenUp(disk.jobs[i]) =>
                      disk'.jobs[i].status = disk.jobs[i].status
  BY <1>4 DEF WriteBackupPoint, Ready, SavedIsCurrent
<1>5. CASE UNCHANGED disk
  BY <1>5
<1>6. QED
  BY <1>1, <1>2, <1>3, <1>4, <1>5 DEF Next, Pipeline, Trigger, CompleteBackup,
     FailBackup, EndRestore, Settle, Beat, Guard, Crash, Restart

\* What a snapshot has recorded, every later snapshot records.
THEOREM SavedHistoryKept == Spec => SavedHistoryIsKept
<1>1. TypeOK /\ JobsInv /\ [Next]_vars =>
          [/\ disk.points \subseteq disk'.points
           /\ \A j \in Jobs :
                disk.jobs[j].status \in Terminal /\ ~GivenUp(disk.jobs[j]) =>
                    disk'.jobs[j].status = disk.jobs[j].status]_vars
  BY StepKeepsHistory
<1>2. QED
  BY <1>1, TypeCorrect, JobsInvariant, PTL DEF Spec, SavedHistoryIsKept
=============================================================================
