--------------------------- MODULE RestorePipeline ---------------------------
(***************************************************************************)
(* A restore job: initiateRestore works through the basket in five stages  *)
(* (definitions, projects, issues, boards, sprints), and in "ask" mode the *)
(* user decides on conflicts while it does so, or later.                   *)
(*                                                                         *)
(* A decision, a save or another request can only be handled while the     *)
(* pipeline waits for an answer of Jira, or when it has ended; between two *)
(* such waits the pipeline runs undisturbed.  A crash can come anywhere.   *)
(*                                                                         *)
(* The results of a stage, and its conflicts, enter the job record when    *)
(* the stage ends.  The export destination, which writes no object and     *)
(* knows no conflict, is left out.                                         *)
(***************************************************************************)
EXTENDS Naturals, FiniteSets

CONSTANTS
    Items,       \* the basket
    KindOf,      \* the object type of an item
    BoardOf,     \* the board of a sprint
    Existing,    \* items that the target site is known to hold
    Threshold,   \* ASK_BASKET_THRESHOLD
    Modes        \* conflict modes that clients ask for

\* The kinds of objects a backup point has snapshots of.
StageOf == [workflow |-> 1, field |-> 1, project |-> 2, issue |-> 3,
            board |-> 4, sprint |-> 5]
Kinds == DOMAIN StageOf
Stages == 1 .. 5

ASSUME BasketAssumption ==
    /\ IsFiniteSet(Items) /\ KindOf \in [Items -> Kinds]
    /\ DOMAIN BoardOf = {i \in Items : KindOf[i] = "sprint"}
    /\ \A s \in DOMAIN BoardOf : BoardOf[s] \in Items => KindOf[BoardOf[s]] = "board"
    /\ Existing \subseteq Items /\ Threshold \in Nat
    /\ Modes \subseteq {"skip", "override", "ask"}

VARIABLES
    pipeline,   \* where initiateRestore is
    token,      \* it has obtained an access token (jiraAxios)
    stage,      \* the stage at work
    at,         \* the items whose request is under way: none or one
    job,        \* the record in db.restoreJobs, without the next three
    result,     \* the result of each item, also of the stage at work
    tally,      \* the counters of the stage results
    pending,    \* pendingConflicts
    stored,     \* db.restoredObjects
    inJira,     \* Jira: what this restore has written
    disk        \* db.json: what was last saved of the job

record == <<job, result, tally, pending, stored>>
vars == <<pipeline, token, stage, at, record, inJira, disk>>

-----------------------------------------------------------------------------
Settled == {"success", "skipped", "failed"}
Tally == [Settled -> 0 .. Cardinality(Items)]
Nothing == [s \in Settled |-> 0]
Done == {"complete", "complete_with_errors"}

Job == [status : Done \cup {"none", "running"}, mode : {"skip", "override", "ask"},
        total : Tally]

TypeOK ==
    /\ pipeline \in {"none", "working", "writing", "linking", "ended", "lost"}
    /\ token \in BOOLEAN
    /\ stage \in 1 .. 6
    /\ at \in SUBSET Items /\ Cardinality(at) <= 1
    /\ job \in Job
    /\ result \in [Items -> Settled \cup {"none", "pending"}]
    /\ tally \in [Stages -> Tally]
    /\ pending \in SUBSET Items
    /\ stored \in SUBSET Items
    /\ inJira \in SUBSET Items
    /\ disk \in [job : Job, result : [Items -> Settled \cup {"none", "pending"}],
                 tally : [Stages -> Tally], pending : SUBSET Items,
                 stored : SUBSET Items]

Snapshot(j, r, t, p, s) ==
    [job |-> j, result |-> r, tally |-> t, pending |-> p, stored |-> s]

Init ==
    /\ pipeline = "none"
    /\ token = FALSE
    /\ stage = 1
    /\ at = {}
    /\ job = [status |-> "none", mode |-> "skip", total |-> Nothing]
    /\ result = [i \in Items |-> "none"]
    /\ tally = [n \in Stages |-> Nothing]
    /\ pending = {}
    /\ stored = {}
    /\ inJira = {}
    /\ disk = Snapshot(job, result, tally, pending, stored)

InStage(n) == {i \in Items : StageOf[KindOf[i]] = n}

\* The items whose result is in the job record.
Published == {i \in Items : StageOf[KindOf[i]] < stage}

With(r) == {i \in Items : result[i] = r}

\* detectConflict knows three kinds of objects.
Conflicting(i) ==
    i \in Existing /\ KindOf[i] \in {"workflow", "field", "project"}

EffectiveMode(mode) ==
    IF mode = "ask" /\ Cardinality(Items) > Threshold THEN "skip" ELSE mode

-----------------------------------------------------------------------------
(* The pipeline *)

\* Validation and field mapping have passed.  Without a token the restore goes
\* on.
Begin(mode) ==
    /\ pipeline = "none"
    /\ pipeline' = "working"
    /\ token' \in BOOLEAN
    /\ job' = [job EXCEPT !.status = "running", !.mode = EffectiveMode(mode)]
    /\ UNCHANGED <<stage, at, result, tally, pending, stored, inJira, disk>>

Current(i) ==
    /\ pipeline = "working" /\ stage \in Stages
    /\ i \in InStage(stage) /\ result[i] = "none"

Conclude(i, r) ==
    /\ result' = [result EXCEPT ![i] = r]
    /\ stored' = IF r = "success" THEN stored \cup {i} ELSE stored
    /\ UNCHANGED <<token, stage, job, tally, pending, disk>>

\* executeStage meets a conflict in skip or ask mode.
SkipOrAsk(i) ==
    /\ Current(i)
    /\ Conflicting(i) /\ job.mode \in {"skip", "ask"}
    /\ Conclude(i, IF job.mode = "skip" THEN "skipped" ELSE "pending")
    /\ UNCHANGED <<pipeline, at, inJira>>

ToWrite(i) == Current(i) /\ (Conflicting(i) => job.mode = "override")

\* A sprint needs the target id of its board.
BoardKnown(i) ==
    KindOf[i] = "sprint" =>
        BoardOf[i] \in Items /\ result[BoardOf[i]] = "success"

\* writeObjectToJira gives up before any request: the board of a sprint is
\* not there, a workflow was backed up without its definition, or a field is a
\* system field.
GiveUp(i) ==
    /\ ToWrite(i)
    /\ \/ ~BoardKnown(i) /\ Conclude(i, "failed")
       \/ KindOf[i] \in {"workflow", "field"} /\ Conclude(i, "skipped")
    /\ UNCHANGED <<pipeline, at, inJira>>

\* Without a token it returns an id of its own.
Simulate(i) ==
    /\ ToWrite(i) /\ BoardKnown(i) /\ ~token
    /\ Conclude(i, "success")
    /\ UNCHANGED <<pipeline, at, inJira>>

Send(i) ==
    /\ ToWrite(i) /\ BoardKnown(i) /\ token
    /\ pipeline' = "writing"
    /\ at' = {i}
    /\ UNCHANGED <<token, stage, record, inJira, disk>>

\* Jira's answer.  An error, or no answer to a request that Jira may have
\* carried out, fails the item; a 4xx of a board, a 400 of a field or project,
\* and any failure to update an issue that is there, count as success.
Answer(i) ==
    /\ pipeline = "writing" /\ i \in at
    /\ pipeline' = "working"
    /\ at' = {}
    /\ \/ inJira' = inJira \cup {i} /\ Conclude(i, "success")
       \/ inJira' \in {inJira, inJira \cup {i}} /\ Conclude(i, "failed")
       \/ /\ KindOf[i] \in {"board", "field", "project"}
          /\ UNCHANGED inJira /\ Conclude(i, "success")
       \/ /\ KindOf[i] = "issue"
          /\ inJira' \in {inJira, inJira \cup {i}} /\ Conclude(i, "success")

TallyOf(n) == [s \in Settled |-> Cardinality(InStage(n) \cap With(s))]

\* Mutant: the conflicts of the last stage replace those of the stages before.
EndStageReplacing ==
    /\ pipeline = "working" /\ stage \in Stages
    /\ \A i \in InStage(stage) : result[i] # "none"
    /\ tally' = [tally EXCEPT ![stage] = TallyOf(stage)]
    /\ pending' = InStage(stage) \cap With("pending")
    /\ stage' = stage + 1
    /\ pipeline' = IF token /\ stage \in {3, 5} THEN "linking" ELSE "working"
    /\ UNCHANGED <<token, at, job, result, stored, inJira, disk>>

\* The results of the stage enter the job.  After the issues their links, and
\* after the sprints their issues, are written to Jira.
EndStage ==
    /\ pipeline = "working" /\ stage \in Stages
    /\ \A i \in InStage(stage) : result[i] # "none"
    /\ tally' = [tally EXCEPT ![stage] = TallyOf(stage)]
    /\ pending' = pending \cup (InStage(stage) \cap With("pending"))
    /\ stage' = stage + 1
    /\ pipeline' = IF token /\ stage \in {3, 5} THEN "linking" ELSE "working"
    /\ UNCHANGED <<token, at, job, result, stored, inJira, disk>>

\* restoreIssueLinks, associateIssuesToSprints: their errors are swallowed.
Linked ==
    /\ pipeline = "linking"
    /\ pipeline' = "working"
    /\ UNCHANGED <<token, stage, at, record, inJira, disk>>

Total(t) ==
    [s \in Settled |-> t[1][s] + t[2][s] + t[3][s] + t[4][s] + t[5][s]]

\* Mutant: the status is left to the decisions that came meanwhile.
FinishKeepingStatus ==
    /\ pipeline = "working" /\ stage = 6
    /\ pipeline' = "ended"
    /\ job' = [job EXCEPT !.total = Total(tally),
            !.status = IF @ \in Done THEN @
                       ELSE IF pending # {} THEN "running"
                       ELSE IF Total(tally)["failed"] > 0
                            THEN "complete_with_errors" ELSE "complete"]
    /\ UNCHANGED <<token, stage, at, result, tally, pending, stored, inJira, disk>>

Finish ==
    /\ pipeline = "working" /\ stage = 6
    /\ pipeline' = "ended"
    /\ job' = [job EXCEPT !.total = Total(tally),
            !.status = IF pending # {} THEN "running"
                       ELSE IF Total(tally)["failed"] > 0
                            THEN "complete_with_errors" ELSE "complete"]
    /\ UNCHANGED <<token, stage, at, result, tally, pending, stored, inJira, disk>>

-----------------------------------------------------------------------------
(* Around it *)

Yields == pipeline \in {"writing", "linking", "ended", "lost"}

Status(t) == IF \E n \in Stages : t[n]["failed"] > 0 THEN "complete_with_errors"
                                                     ELSE "complete"

\* Mutant: an override does not count the item.
DecideUncounted(i, decision) ==
    /\ Yields
    /\ job.mode = "ask" /\ i \in pending
    /\ pending' = pending \ {i}
    /\ result' = [result EXCEPT ![i] = decision]
    /\ tally' = IF decision = "success" THEN tally ELSE
                [tally EXCEPT ![StageOf[KindOf[i]]][decision] = @ + 1]
    /\ stored' = IF decision = "success" THEN stored \cup {i} ELSE stored
    /\ job' = [job EXCEPT !.total = Total(tally'),
                          !.status = IF pending' = {} THEN Status(tally') ELSE @]
    /\ UNCHANGED <<pipeline, token, stage, at, inJira, disk>>

\* Mutant: an override does not store the item.
DecideUnstored(i, decision) ==
    /\ Yields
    /\ job.mode = "ask" /\ i \in pending
    /\ pending' = pending \ {i}
    /\ result' = [result EXCEPT ![i] = decision]
    /\ tally' = [tally EXCEPT ![StageOf[KindOf[i]]][decision] = @ + 1]
    /\ job' = [job EXCEPT !.total = Total(tally'),
                          !.status = IF pending' = {} THEN Status(tally') ELSE @]
    /\ UNCHANGED <<pipeline, token, stage, at, stored, inJira, disk>>

\* Mutant: a decision leaves the status of the job to the pipeline.
DecideSilently(i, decision) ==
    /\ Yields
    /\ job.mode = "ask" /\ i \in pending
    /\ pending' = pending \ {i}
    /\ result' = [result EXCEPT ![i] = decision]
    /\ tally' = [tally EXCEPT ![StageOf[KindOf[i]]][decision] = @ + 1]
    /\ stored' = IF decision = "success" THEN stored \cup {i} ELSE stored
    /\ job' = [job EXCEPT !.total = Total(tally')]
    /\ UNCHANGED <<pipeline, token, stage, at, inJira, disk>>

\* submitConflictDecision: "skip", or "override", which stores a result
\* without a request to Jira.
Decide(i, decision) ==
    /\ Yields
    /\ job.mode = "ask" /\ i \in pending
    /\ pending' = pending \ {i}
    /\ result' = [result EXCEPT ![i] = decision]
    /\ tally' = [tally EXCEPT ![StageOf[KindOf[i]]][decision] = @ + 1]
    /\ stored' = IF decision = "success" THEN stored \cup {i} ELSE stored
    /\ job' = [job EXCEPT !.total = Total(tally'),
                          !.status = IF pending' = {} THEN Status(tally') ELSE @]
    /\ UNCHANGED <<pipeline, token, stage, at, inJira, disk>>

\* saveDb: the results of the stage at work are not in the record yet.
Autosave ==
    /\ Yields
    /\ disk' = Snapshot(job,
                        [i \in Items |-> IF i \in Published THEN result[i]
                                                            ELSE "none"],
                        tally, pending, stored)
    /\ UNCHANGED <<pipeline, token, stage, at, record, inJira>>

\* A request under way may have reached Jira.  The pipeline does not resume.
CrashAndRestart ==
    /\ pipeline # "none"
    /\ inJira' \in {inJira, inJira \cup at}
    /\ pipeline' = "lost"
    /\ at' = {}
    /\ job' = disk.job
    /\ result' = disk.result
    /\ tally' = disk.tally
    /\ pending' = disk.pending
    /\ stored' = disk.stored
    /\ UNCHANGED <<token, stage, disk>>

Pipeline ==
    \/ \E i \in Items : SkipOrAsk(i) \/ GiveUp(i) \/ Simulate(i) \/ Send(i) \/ Answer(i)
    \/ EndStage
    \/ Linked
    \/ Finish

Next ==
    \/ \E mode \in Modes : Begin(mode)
    \/ Pipeline
    \/ \E i \in Items, decision \in {"skipped", "success"} : Decide(i, decision)
    \/ Autosave
    \/ CrashAndRestart

Spec == Init /\ [][Next]_vars

(***************************************************************************)
(* Fairness: requests to Jira have timeouts, so the pipeline goes on; and  *)
(* the user decides on every conflict that stays pending.                  *)
(***************************************************************************)
FairSpec ==
    /\ Spec
    /\ WF_vars(Pipeline)
    /\ \A i \in Items : SF_vars(\E d \in {"skipped", "success"} : Decide(i, d))

-----------------------------------------------------------------------------
(* Properties *)

\* The conflicts the user can decide on are those whose published result waits
\* for a decision, in memory and in db.json, whatever decisions come while
\* later stages run.
PendingAgrees ==
    /\ pipeline # "lost" => pending = Published \cap With("pending")
    /\ pipeline = "lost" => pending = With("pending")
    /\ disk.pending = {i \in Items : disk.result[i] = "pending"}

\* Every item that reports success has its restored object, and as long as the
\* pipeline was not lost every restored object belongs to such an item.
StoredAgrees ==
    /\ With("success") \subseteq stored
    /\ pipeline # "lost" => stored = With("success")

\* When the pipeline has ended, its counters add up to the basket and to the
\* results of its items, also after decisions that came during a stage.
CountsAgree ==
    pipeline = "ended" =>
        /\ \A s \in Settled : job.total[s] = Cardinality(With(s))
        /\ job.total["success"] + job.total["skipped"] + job.total["failed"]
             + Cardinality(pending) = Cardinality(Items)

\* When the pipeline has ended, the status of the job tells its results.
StatusAgrees ==
    pipeline = "ended" =>
        job.status = IF With("pending") # {} THEN "running"
                     ELSE IF With("failed") # {} THEN "complete_with_errors"
                     ELSE "complete"

\* A restore whose conflicts the user decides comes to an end, whenever the
\* decisions come; only a crash may leave it running for ever.
RestoreSettles ==
    job.status = "running" ~> job.status \in Done \/ pipeline = "lost"
=============================================================================
