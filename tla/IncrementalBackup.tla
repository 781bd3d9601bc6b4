-------------------------- MODULE IncrementalBackup --------------------------
(***************************************************************************)
(* The backup pipeline: runIntegrationBackup enumerates the issues of each *)
(* project with a JQL cursor, downloads attachments, enumerates the        *)
(* site-level objects and then writes one backup point.  The cursor of a   *)
(* project (lastBackupTimestamp) decides what the next run fetches, so the *)
(* question of this module is whether an edit made in Jira can fall        *)
(* between two runs.                                                       *)
(*                                                                         *)
(* Jira is the environment: issues are edited while runs are under way,    *)
(* and a page of a query is what matches when the request is answered.     *)
(* Runs of the same integration may overlap; nothing in the routes or in   *)
(* the engine prevents it.                                                 *)
(*                                                                         *)
(* "now" is Jira's clock, which stamps edits.  The server's clock is ahead *)
(* of it by one of Skews, not always the same: it is set now and then.     *)
(***************************************************************************)
EXTENDS Integers, FiniteSets, Sequences, ChangeMap

CONSTANTS
    Projects,      \* project keys in scope
    Issues,        \* issue ids, numbers so that ties in "updated" have an order
    ProjectOf,     \* the project of an issue
    Runs,          \* executions of runIntegrationBackup
    Overlap,       \* OVERLAP_BUFFER_MS
    Minute,        \* the granularity of a JQL date
    Skews,         \* how far the server's clock may be ahead of Jira's
    PageSize,      \* PAGE_SIZE
    HardCap,       \* PAGINATION_HARD_CAP
    \* the environment
    FaultPhases,   \* phases in which a run can throw or the server crash
    \* bounds
    MaxTime, MaxEdits  \* of all issues together

WorkPhases == {"ready", "enum", "answered", "attach"}

\* The overlap of the queries makes up for the difference of the clocks.
SkewWithinOverlap == \A s \in Skews : s <= Overlap

ASSUME IncrementalAssumption ==
    /\ Projects # {} /\ IsFiniteSet(Issues) /\ Issues \subseteq Nat
    /\ ProjectOf \in [Issues -> Projects]
    /\ Overlap \in Nat /\ Skews \subseteq Int /\ Minute \in Nat \ {0}
    /\ PageSize \in Nat \ {0} /\ HardCap \in Nat
    /\ FaultPhases \subseteq WorkPhases
    /\ MaxTime \in Nat /\ MaxEdits \in Nat

VARIABLES
    now,        \* Jira's clock
    jira,       \* the issues in Jira: number of edits and "updated" stamp
    cursor,     \* lastBackupTimestamp of each project's BackupRunState
    runs,       \* the runs of the pipeline
    points,     \* db.backupPoints with their manifests, in order of creation
    disk,       \* db.json: the cursors and points last saved
    slid,       \* history: <<r, i, n>> if version n of issue i slid under the
                \*   offset of run r
    cut         \* history: <<r, i, n>> if it lay beyond the hard cap of run r

vars == <<now, jira, cursor, runs, points, disk, slid, cut>>

-----------------------------------------------------------------------------
\* "null": before any stamp, so that a full run is the query since Never.
Never == -(Overlap + Minute + 1)

Stamps == 0 .. MaxTime
Versions == 0 .. MaxEdits      \* 0: the issue does not exist, or is not held
ServerClock == {now + s : s \in Skews}   \* what new Date() may be

\* Mutant: no overlap.
SinceWithoutOverlap(last) == (last \div Minute) * Minute

\* formatJqlTimestamp(last - OVERLAP_BUFFER_MS): the seconds are cut off.
SinceOf(last) == ((last - Overlap) \div Minute) * Minute

Phases == {"idle", "done", "failed"} \cup WorkPhases

Run == [phase : Phases,
        todo : SUBSET Projects,      \* projects not yet begun
        project : Projects,          \* the project at work
        committed : SUBSET Projects, \* projects whose cursor it has moved
        since : Int,                 \* the date of its JQL
        started : Int,               \* its runStartTime
        offset : Nat,                \* startAt of the next page
        got : [Issues -> Versions]]  \* issues collected by the whole run

Point == [manifest : UNION {[S -> Versions \ {0}] : S \in SUBSET Issues},
          prior : Nat]               \* index of the prior point, 0 for none

TypeOK ==
    /\ now \in Stamps
    /\ jira \in [Issues -> [edits : Versions, updated : Stamps]]
    /\ cursor \in [Projects -> Int]
    /\ runs \in [Runs -> Run]
    /\ points \in Seq(Point)
    /\ disk \in [cursor : [Projects -> Int], points : Seq(Point)]
    /\ slid \cup cut \subseteq Runs \X Issues \X Versions

IdleRun == [phase |-> "idle", todo |-> {},
            project |-> CHOOSE p \in Projects : TRUE, committed |-> {},
            since |-> Never, started |-> Never, offset |-> 0,
            got |-> [i \in Issues |-> 0]]

Init ==
    /\ now = 0
    /\ jira = [i \in Issues |-> [edits |-> 0, updated |-> 0]]
    /\ cursor = [p \in Projects |-> Never]
    /\ runs = [r \in Runs |-> IdleRun]
    /\ points = <<>>
    /\ disk = [cursor |-> cursor, points |-> points]
    /\ slid = {} /\ cut = {}

-----------------------------------------------------------------------------
(* Jira *)

\* The issues a run's JQL selects when a page of it is answered, in the order
\* "updated ASC".
Matching(r) ==
    {i \in Issues : /\ jira[i].edits > 0
                    /\ ProjectOf[i] = runs[r].project
                    /\ jira[i].updated >= runs[r].since}

Rank(i, selected) ==
    Cardinality({k \in selected :
        \/ jira[k].updated < jira[i].updated
        \/ jira[k].updated = jira[i].updated /\ k < i})

\* An edit moves an issue to the end of the order.  If a query had passed the
\* issue, the one that followed at its offset moves up, under the offset.
SlidBy(i) ==
    {x \in Runs \X Issues \X Versions :
        LET r == x[1]
            k == x[2]
            selected == Matching(r)
        IN  /\ x[3] = jira[k].edits
            /\ runs[r].phase = "enum"
            /\ {i, k} \subseteq selected
            /\ Rank(i, selected) < runs[r].offset
            /\ Rank(k, selected) = runs[r].offset}

Edit(i) ==
    /\ Cardinality({x \in Issues \X Versions : x[2] < jira[x[1]].edits}) < MaxEdits
    /\ jira' = [jira EXCEPT ![i] = [edits |-> @.edits + 1, updated |-> now]]
    /\ slid' = slid \cup SlidBy(i)
    /\ UNCHANGED <<now, cursor, runs, points, disk, cut>>

Tick ==
    /\ now < MaxTime
    /\ now' = now + 1
    /\ UNCHANGED <<jira, cursor, runs, points, disk, slid, cut>>

-----------------------------------------------------------------------------
(* The pipeline *)

\* Connection, token and project discovery have succeeded.
StartRun(r) ==
    /\ runs[r].phase = "idle"
    /\ runs' = [runs EXCEPT ![r].phase = "ready", ![r].todo = Projects]
    /\ UNCHANGED <<now, jira, cursor, points, disk, slid, cut>>

\* runJqlEnumeration up to its first request.
BeginProject(r, p) ==
    /\ runs[r].phase = "ready"
    /\ p \in runs[r].todo
    /\ \E t \in ServerClock :
        runs' = [runs EXCEPT ![r].phase = "enum",
                             ![r].todo = @ \ {p},
                             ![r].project = p,
                             ![r].since = SinceOf(cursor[p]),
                             ![r].started = t,
                             ![r].offset = 0]
    /\ UNCHANGED <<now, jira, cursor, points, disk, slid, cut>>

\* Jira answers the request for the page at the run's offset.  The answer is
\* the last one when it tells the total and the total is reached, when the
\* page is not full, or at the hard cap; else the run asks for the next page.
AnswerPage(r) ==
    LET selected == Matching(r)
        next == runs[r].offset + PageSize
        page == {i \in selected :
                    Rank(i, selected) \in runs[r].offset .. next - 1}
        Last(tellsTotal) == \/ next > HardCap
                            \/ tellsTotal /\ next >= Cardinality(selected)
                            \/ Cardinality(page) < PageSize
    IN /\ runs[r].phase = "enum"
       /\ cut' = IF next > HardCap
                 THEN cut \cup {<<r, i, jira[i].edits>> :
                        i \in {k \in selected : Rank(k, selected) >= next}}
                 ELSE cut
       /\ \E tellsTotal \in BOOLEAN :
            runs' = [runs EXCEPT
                        ![r].got = [i \in Issues |-> IF i \in page
                                        THEN jira[i].edits ELSE @[i]],
                        ![r].offset = next,
                        ![r].phase = IF Last(tellsTotal) THEN "answered"
                                                         ELSE "enum"]
       /\ UNCHANGED <<now, jira, cursor, points, disk, slid>>

\* The last page is received: the cursor of the project is committed.
EndEnumeration(r) ==
    /\ runs[r].phase = "answered"
    /\ cursor' = [cursor EXCEPT ![runs[r].project] = runs[r].started]
    /\ runs' = [runs EXCEPT ![r].phase = "attach",
                            ![r].committed = @ \cup {runs[r].project}]
    /\ UNCHANGED <<now, jira, points, disk, slid, cut>>

\* processAttachments and tagIssueNodes are done with the project.
FinishAttachments(r) ==
    /\ runs[r].phase = "attach"
    /\ runs' = [runs EXCEPT ![r].phase = "ready"]
    /\ UNCHANGED <<now, jira, cursor, points, disk, slid, cut>>

\* Mutant: entries for issues that were not fetched.
ManifestOfAll(got) == [i \in Issues |-> got[i]]

Manifest(got) == [i \in {k \in Issues : got[k] > 0} |-> got[i]]

Save(c, ps) == disk' = [cursor |-> c, points |-> ps]

\* The newest point by createdAt, 0 if there is none.  createdAt is the server's
\* clock, which may stand still or be set back from one point to the next, so it
\* can be any of them; Paging has the order.
Newest == IF points = <<>> THEN {0} ELSE DOMAIN points

\* runSiteEnumeration is done: the point and its manifests are written and
\* saved, linked to the newest point.
WritePoint(r) ==
    /\ runs[r].phase = "ready" /\ runs[r].todo = {}
    /\ \E prior \in Newest :
        points' = Append(points, [manifest |-> Manifest(runs[r].got),
                                  prior |-> prior])
    /\ runs' = [runs EXCEPT ![r].phase = "done"]
    /\ Save(cursor, points')
    /\ UNCHANGED <<now, jira, cursor, slid, cut>>

\* An error anywhere in a phase ends the run; what it collected is dropped.
FailRun(r) ==
    /\ runs[r].phase \in FaultPhases
    /\ runs' = [runs EXCEPT ![r].phase = "failed"]
    /\ UNCHANGED <<now, jira, cursor, points, disk, slid, cut>>

Autosave ==
    /\ Save(cursor, points)
    /\ UNCHANGED <<now, jira, cursor, runs, points, slid, cut>>

\* A crash ends every run, and the restarted server loads the snapshot.
CrashAndRestart ==
    /\ \A r \in Runs : runs[r].phase \in FaultPhases \cup {"idle", "done", "failed"}
    /\ runs' = [r \in Runs |-> IF runs[r].phase \in FaultPhases
                               THEN [runs[r] EXCEPT !.phase = "failed"]
                               ELSE runs[r]]
    /\ cursor' = disk.cursor
    /\ points' = disk.points
    /\ UNCHANGED <<now, jira, disk, slid, cut>>

Next ==
    \/ \E i \in Issues : Edit(i)
    \/ Tick
    \/ \E r \in Runs : StartRun(r)
    \/ \E r \in Runs, p \in Projects : BeginProject(r, p)
    \/ \E r \in Runs : AnswerPage(r)
    \/ \E r \in Runs : EndEnumeration(r)
    \/ \E r \in Runs : FinishAttachments(r)
    \/ \E r \in Runs : WritePoint(r)
    \/ \E r \in Runs : FailRun(r)
    \/ Autosave
    \/ CrashAndRestart

Spec == Init /\ [][Next]_vars

-----------------------------------------------------------------------------
(* Properties *)

\* Some backup point holds the issue as it is in Jira, or a run at work has
\* collected it and will write it.
Held(i) ==
    \/ \E n \in DOMAIN points :
            /\ i \in DOMAIN points[n].manifest
            /\ points[n].manifest[i] = jira[i].edits
    \/ \E r \in Runs : /\ runs[r].phase \in WorkPhases
                       /\ runs[r].got[i] = jira[i].edits

\* The next incremental run selects the issue.
Refetched(i) == jira[i].updated >= SinceOf(cursor[ProjectOf[i]])

\* A run failed that had collected the issue and moved the cursor past it.
LostWithRun(i) ==
    \E r \in Runs : /\ runs[r].phase = "failed"
                    /\ ProjectOf[i] \in runs[r].committed
                    /\ runs[r].got[i] = jira[i].edits

\* An edit that no point holds and no run will fetch again was lost in one of
\* three ways: with a run that failed after it had moved the cursor, under the
\* offset of a run whose pages shifted, or beyond the hard cap of a run.  No
\* overlap of runs, no cut-off of seconds, no clock skew within the overlap, no
\* other failure and no crash loses one, as long as db.json can be written.
GapsExplained ==
    \A i \in Issues : jira[i].edits > 0 =>
        \/ Held(i) \/ Refetched(i) \/ LostWithRun(i)
        \/ \E r \in Runs : /\ ProjectOf[i] \in runs[r].committed
                            /\ <<r, i, jira[i].edits>> \in slid \cup cut

\* The Object Explorer shows "Deleted" for what was removed from Jira.  No
\* issue is ever removed here.
DeletedMeansRemoved ==
    \A n \in DOMAIN points : points[n].prior # 0 =>
        LET change == ChangeMap(points[n].manifest,
                                points[points[n].prior].manifest)
        IN  \A i \in DOMAIN change : change[i] # "Deleted"
=============================================================================
