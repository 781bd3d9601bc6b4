--------------------------- MODULE RestoreProofs -----------------------------
(***************************************************************************)
(* A restore, before and while it writes: RestoreAdmission and             *)
(* RestorePipeline.                                                        *)
(*                                                                         *)
(* RestorePipeline for every basket: what the job record says of conflicts,*)
(* stored objects, counters and status agrees with the results of its      *)
(* items, whatever decisions come while stages run.  Everything rests on   *)
(* where results are: behind the stage at work every item has one, ahead   *)
(* of it none has.                                                         *)
(*                                                                         *)
(* RestoreAdmission for any sites, connections, projects, fields, baskets  *)
(* and requests.  Map.set keeps one entry for each key (SetAllIs), so that *)
(* a field has one name at a site; an entry of a project that did not      *)
(* change since it was listed is right (NodesSeen); what a run was told of *)
(* boards is so unless it raced a consent (RunsTold); and whoever waits    *)
(* for a token names a connection that was checked (Covered).              *)
(***************************************************************************)
EXTENDS RestoreAdmission, RestorePipeline, FiniteSetTheorems, SequenceTheorems,
        WellFoundedInduction, TLAPS

-----------------------------------------------------------------------------
(***************************************************************************)
(* RestorePipeline.                                                        *)
(***************************************************************************)
Results == Settled \cup {"none", "pending"}

\* A save or an EXCEPT of the record keeps its fields.
IsJob(j) == DOMAIN j = {"status", "mode", "total"}

PipelineTypes ==
    /\ stage \in 1 .. 6 /\ at \in SUBSET Items
    /\ result \in [Items -> Results] /\ disk.result \in [Items -> Results]
    /\ pending \in SUBSET Items /\ disk.pending \in SUBSET Items
    /\ stored \in SUBSET Items /\ disk.stored \in SUBSET Items
    /\ IsJob(job) /\ IsJob(disk.job)

StageFor(i) == StageOf[KindOf[i]]

Ahead == \A i \in Items : StageFor(i) > stage => result[i] = "none"

Behind == pipeline # "lost" => \A i \in Items : StageFor(i) < stage => result[i] # "none"

\* What db.json has is published, and so is what a restart loads.
SavedBehind ==
    /\ \A i \in Items : disk.result[i] # "none" => StageFor(i) < stage
    /\ pipeline = "lost" =>
        \A i \in Items : result[i] # "none" => StageFor(i) < stage

\* An item under way has no result yet, so no decision is about it.
UnderWay ==
    /\ pipeline = "writing" => \A i \in at : StageFor(i) = stage /\ result[i] = "none"
    /\ pipeline = "ended" => stage = 6
    /\ pipeline = "none" => stage = 1 /\ \A i \in Items : result[i] = "none"

SavedStored == \A i \in Items : disk.result[i] = "success" => i \in disk.stored

Progress == PipelineTypes /\ Ahead /\ Behind /\ SavedBehind /\ UnderWay

RecordInv == PendingAgrees /\ StoredAgrees /\ SavedStored

\* The counters of the stages behind are those of their results.
Counted ==
    pipeline # "lost" =>
        /\ tally \in [Stages -> [Settled -> Nat]]
        /\ \A n \in Stages, s \in Settled :
            tally[n][s] = IF n < stage THEN Cardinality(InStage(n) \cap With(s)) ELSE 0

\* The end of the pipeline, and every decision after it, derive totals and
\* status from the counters.
Ended ==
    pipeline = "ended" =>
        /\ job.total = Total(tally)
        /\ job.status = IF pending # {} THEN "running" ELSE Status(tally)

CountInv == Counted /\ Ended

IInv == Progress /\ RecordInv /\ CountInv

-----------------------------------------------------------------------------
LEMMA StageForType == \A i \in Items : StageFor(i) \in Stages
<1>1. StageOf \in [Kinds -> Stages]
  BY DEF StageOf, Kinds, Stages
<1> QED
  BY <1>1, BasketAssumption DEF StageFor

LEMMA InvInit == Init => IInv
<1> SUFFICES ASSUME Init PROVE IInv
  OBVIOUS
<1> USE DEF Init
<1>1. PipelineTypes
  BY DEF PipelineTypes, Results, Settled, IsJob, Snapshot
<1>2. Ahead /\ Behind /\ SavedBehind /\ UnderWay
  BY StageForType DEF Ahead, Behind, SavedBehind, UnderWay, Stages, Snapshot
<1>3. RecordInv
  BY StageForType DEF RecordInv, PendingAgrees, StoredAgrees, SavedStored, With,
     Published, Snapshot
<1>4. tally \in [Stages -> [Settled -> Nat]]
  BY DEF Nothing
<1>5. \A n \in Stages, s \in Settled : ~(n < stage) /\ tally[n][s] = 0
  BY DEF Nothing, Stages
<1>6. CountInv
  BY <1>4, <1>5 DEF CountInv, Counted, Ended
<1> QED
  BY <1>1, <1>2, <1>3, <1>6 DEF IInv, Progress

-----------------------------------------------------------------------------
\* Item i of the stage at work gets its result.
Concluding(i, r) ==
    /\ pipeline \in {"working", "writing"} /\ pipeline' = "working"
    /\ StageFor(i) = stage /\ result[i] = "none"
    /\ r \in Settled \cup {"pending"}
    /\ at' \in {at, {}}
    /\ Conclude(i, r)

LEMMA Concludes ==
    ASSUME Progress, NEW i \in Items,
           SkipOrAsk(i) \/ GiveUp(i) \/ Simulate(i) \/ Answer(i)
    PROVE  \E r : Concluding(i, r)
<1> USE DEF Concluding, Settled, Current, InStage, StageFor, ToWrite
<1>1. CASE SkipOrAsk(i)
  BY <1>1 DEF SkipOrAsk
<1>2. CASE GiveUp(i)
  <2>1. CASE ~BoardKnown(i) /\ Conclude(i, "failed")
    BY <1>2, <2>1 DEF GiveUp
  <2>2. CASE Conclude(i, "skipped")
    BY <1>2, <2>2 DEF GiveUp
  <2> QED
    BY <1>2, <2>1, <2>2 DEF GiveUp
<1>3. CASE Simulate(i)
  BY <1>3 DEF Simulate
<1>4. CASE Answer(i)
  <2>1. Conclude(i, "success") \/ Conclude(i, "failed")
    BY <1>4 DEF Answer
  <2> QED
    BY <1>4, <2>1 DEF Answer, Progress, UnderWay
<1> QED
  BY <1>1, <1>2, <1>3, <1>4

\* A decision gives an item that waits for it its result.
LEMMA Decides ==
    ASSUME Progress, RecordInv, NEW i \in Items, NEW d \in {"skipped", "success"},
           Decide(i, d)
    PROVE  /\ result[i] = "pending" /\ StageFor(i) < stage
           /\ d \in Settled
<1>1. i \in pending
  BY DEF Decide
<1>2. result[i] = "pending"
  BY <1>1 DEF RecordInv, PendingAgrees, With, Published
<1>3. StageFor(i) < stage
  BY <1>1, <1>2 DEF RecordInv, PendingAgrees, Published, StageFor, Progress, SavedBehind
<1> QED
  BY <1>2, <1>3 DEF Settled

LEMMA ProgressNext == Progress /\ RecordInv /\ [Next]_vars => Progress'
<1> SUFFICES ASSUME Progress, RecordInv, [Next]_vars PROVE Progress'
  OBVIOUS
<1> USE StageForType DEF Progress
<1>1. ASSUME NEW mode \in Modes, Begin(mode) PROVE Progress'
  BY <1>1 DEF Begin, PipelineTypes, IsJob, Ahead, Behind, SavedBehind, UnderWay, Stages, StageFor
<1>2. ASSUME NEW i \in Items, NEW r, Concluding(i, r) PROVE Progress'
  <2>1. PipelineTypes'
    BY <1>2 DEF PipelineTypes, Concluding, Conclude, Results
  <2>2. \A k \in Items : k # i => result'[k] = result[k]
    BY <1>2 DEF PipelineTypes, Concluding, Conclude
  <2> QED
    BY <1>2, <2>1, <2>2 DEF Concluding, Conclude, PipelineTypes, Ahead, Behind, SavedBehind,
       UnderWay, StageFor, Settled
<1>3. ASSUME NEW i \in Items, Send(i) PROVE Progress'
  BY <1>3 DEF Send, ToWrite, Current, InStage, record, PipelineTypes, Ahead, Behind,
     SavedBehind, UnderWay, StageFor
<1>4. CASE EndStage
  <2>1. PipelineTypes'
    BY <1>4 DEF EndStage, PipelineTypes, Stages, InStage
  <2> QED
    BY <1>4, <2>1 DEF EndStage, PipelineTypes, Ahead, Behind, SavedBehind, UnderWay, StageFor,
       InStage, Stages
<1>5. CASE Linked
  BY <1>5 DEF Linked, record, PipelineTypes, Ahead, Behind, SavedBehind, UnderWay, StageFor
<1>6. CASE Finish
  BY <1>6 DEF Finish, PipelineTypes, IsJob, Ahead, Behind, SavedBehind, UnderWay, StageFor
<1>7. ASSUME NEW i \in Items, NEW d \in {"skipped", "success"}, Decide(i, d)
      PROVE  Progress'
  <2>1. result[i] = "pending" /\ StageFor(i) < stage /\ d \in Settled
    BY <1>7, Decides
  <2>2. PipelineTypes'
    BY <1>7, <2>1 DEF PipelineTypes, Decide, Results, IsJob
  <2>3. \A k \in Items : k # i => result'[k] = result[k]
    BY <1>7 DEF PipelineTypes, Decide
  <2>4. result'[i] = d
    BY <1>7 DEF PipelineTypes, Decide
  <2>5. UNCHANGED <<pipeline, stage, at, disk>>
    BY <1>7 DEF Decide
  <2>6. Ahead' /\ Behind' /\ SavedBehind'
    BY <2>1, <2>2, <2>3, <2>4, <2>5 DEF Ahead, Behind, SavedBehind, PipelineTypes, StageFor,
       Settled, Stages
  <2>7. pipeline # "none"
    BY <1>7 DEF Decide, Yields
  <2>8. UnderWay'
    BY <2>1, <2>3, <2>5, <2>7 DEF UnderWay, StageFor, PipelineTypes
  <2> QED
    BY <2>2, <2>6, <2>8
<1>8. CASE Autosave
  <2>1. disk'.job = job /\ disk'.pending = pending /\ disk'.stored = stored
        /\ disk'.result = [i \in Items |-> IF i \in Published THEN result[i] ELSE "none"]
    BY <1>8 DEF Autosave, Snapshot
  <2>2. PipelineTypes'
    BY <1>8, <2>1 DEF Autosave, PipelineTypes, record, Results
  <2>3. \A i \in Items : disk'.result[i] # "none" => StageFor(i) < stage
    BY <2>1 DEF Published, StageFor
  <2> QED
    BY <1>8, <2>2, <2>3 DEF Autosave, record, Ahead, Behind, SavedBehind, UnderWay, StageFor
<1>9. CASE CrashAndRestart
  <2>1. PipelineTypes'
    BY <1>9 DEF CrashAndRestart, PipelineTypes
  <2> QED
    BY <1>9, <2>1 DEF CrashAndRestart, Ahead, Behind, SavedBehind, UnderWay, StageFor,
       PipelineTypes, Stages
<1>10. CASE UNCHANGED vars
  BY <1>10 DEF vars, record, PipelineTypes, Ahead, Behind, SavedBehind, UnderWay, StageFor
<1> QED
  BY <1>1, <1>2, <1>3, <1>4, <1>5, <1>6, <1>7, <1>8, <1>9, <1>10, Concludes
     DEF Next, Pipeline


-----------------------------------------------------------------------------
LEMMA RecordNext == Progress /\ RecordInv /\ [Next]_vars => RecordInv'
<1> SUFFICES ASSUME Progress, RecordInv, [Next]_vars PROVE RecordInv'
  OBVIOUS
<1> USE StageForType DEF Progress, RecordInv
<1>1. ASSUME NEW mode \in Modes, Begin(mode) PROVE RecordInv'
  BY <1>1 DEF Begin, PendingAgrees, StoredAgrees, SavedStored, With, Published
<1>2. ASSUME NEW i \in Items, NEW r, Concluding(i, r) PROVE RecordInv'
  <2>1. \A k \in Items : k # i => result'[k] = result[k]
    BY <1>2 DEF PipelineTypes, Concluding, Conclude
  <2>2. result'[i] = r
    BY <1>2 DEF PipelineTypes, Concluding, Conclude
  <2>3. pipeline # "lost" /\ pipeline' # "lost" /\ UNCHANGED <<stage, pending, disk>>
    BY <1>2 DEF Concluding, Conclude
  <2>4. \A k : k \in Published' <=> k \in Published
    BY <2>3 DEF Published
  <2>5. i \notin Published
    BY <1>2 DEF Concluding, Published, StageFor, PipelineTypes
  <2>6. PendingAgrees'
    <3>1. \A k : k \in Published' \cap With("pending")' <=> k \in Published \cap With("pending")
      BY <2>1, <2>4, <2>5 DEF With
    <3> QED
      BY <2>3, <3>1 DEF PendingAgrees
  <2>7. StoredAgrees'
    <3>1. stored' = IF r = "success" THEN stored \cup {i} ELSE stored
      BY <1>2 DEF Concluding, Conclude
    <3>2. stored = With("success") /\ i \notin With("success")
      BY <1>2, <2>3 DEF StoredAgrees, With, Concluding
    <3>3. \A k : k \in With("success")' <=> k \in Items /\ result'[k] = "success"
      BY DEF With
    <3>4. stored' = With("success")'
      BY <2>1, <2>2, <3>1, <3>2, <3>3 DEF With
    <3> QED
      BY <3>4 DEF StoredAgrees
  <2>8. SavedStored'
    BY <2>3 DEF SavedStored
  <2> QED
    BY <2>6, <2>7, <2>8
<1>3. ASSUME NEW i \in Items, Send(i) PROVE RecordInv'
  BY <1>3 DEF Send, ToWrite, Current, record, PendingAgrees, StoredAgrees, SavedStored,
     With, Published
<1>4. CASE EndStage
  <2>1. pending' = pending \cup {i \in Items : StageFor(i) = stage /\ result[i] = "pending"}
    BY <1>4 DEF EndStage, InStage, With, StageFor
  <2>2. \A i : i \in Published' <=> i \in Items /\ StageFor(i) <= stage
    BY <1>4 DEF EndStage, Published, StageFor, Stages
  <2>3. pending = {i \in Items : StageFor(i) < stage /\ result[i] = "pending"}
    BY <1>4 DEF EndStage, PendingAgrees, Published, With, StageFor
  <2>4. stage \in Stages /\ UNCHANGED <<result, stored, disk>> /\ pipeline # "lost"
        /\ pipeline' # "lost"
    BY <1>4 DEF EndStage
  <2>5. PendingAgrees'
    <3>1. \A i : i \in pending' <=> i \in Published' \cap With("pending")'
      BY <2>1, <2>2, <2>3, <2>4 DEF With, Stages
    <3> QED
      BY <2>4, <3>1 DEF PendingAgrees
  <2>6. StoredAgrees' /\ SavedStored'
    BY <2>4 DEF StoredAgrees, SavedStored, With
  <2> QED
    BY <2>5, <2>6
<1>5. CASE Linked
  BY <1>5 DEF Linked, record, PendingAgrees, StoredAgrees, SavedStored, With, Published
<1>6. CASE Finish
  BY <1>6 DEF Finish, PendingAgrees, StoredAgrees, SavedStored, With, Published
<1>7. ASSUME NEW i \in Items, NEW d \in {"skipped", "success"}, Decide(i, d)
      PROVE  RecordInv'
  <2>1. result[i] = "pending" /\ StageFor(i) < stage /\ d \in Settled
    BY <1>7, Decides
  <2>2. \A k \in Items : k # i => result'[k] = result[k]
    BY <1>7 DEF PipelineTypes, Decide
  <2>3. result'[i] = d
    BY <1>7 DEF PipelineTypes, Decide
  <2>4. UNCHANGED <<pipeline, stage, disk>> /\ pending' = pending \ {i}
        /\ stored' = IF d = "success" THEN stored \cup {i} ELSE stored
    BY <1>7 DEF Decide
  <2>5. \A k : k \in With("pending")' <=> k \in With("pending") \ {i}
    BY <2>1, <2>2, <2>3 DEF With, Settled
  <2>6. \A k : k \in With("success")' <=>
                k \in With("success") \/ (k = i /\ d = "success")
    BY <2>1, <2>2, <2>3 DEF With
  <2>7. PendingAgrees'
    <3>1. Published' = Published
      BY <2>4 DEF Published
    <3>2. pipeline # "lost" => pending' = Published' \cap With("pending")'
      BY <2>4, <2>5, <3>1 DEF PendingAgrees
    <3>3. pipeline = "lost" => pending' = With("pending")'
      BY <2>4, <2>5 DEF PendingAgrees
    <3> QED
      BY <2>4, <3>2, <3>3 DEF PendingAgrees
  <2>8. StoredAgrees'
    BY <2>4, <2>6 DEF StoredAgrees
  <2> QED
    BY <2>4, <2>7, <2>8 DEF SavedStored
<1>8. CASE Autosave
  <2>1. disk'.pending = pending /\ disk'.stored = stored
        /\ disk'.result = [i \in Items |-> IF i \in Published THEN result[i] ELSE "none"]
    BY <1>8 DEF Autosave, Snapshot
  <2>2. UNCHANGED <<pipeline, stage, result, pending, stored>>
    BY <1>8 DEF Autosave, record
  <2>3. pending = Published \cap With("pending")
    BY DEF PendingAgrees, SavedBehind, With, Published, StageFor
  <2>4. pending = {i \in Items : disk'.result[i] = "pending"}
    BY <2>1, <2>3 DEF With
  <2>5. PendingAgrees'
    BY <2>1, <2>2, <2>4 DEF PendingAgrees, With, Published
  <2>6. StoredAgrees'
    BY <2>2 DEF StoredAgrees, With
  <2>7. SavedStored'
    BY <2>1 DEF SavedStored, StoredAgrees, With
  <2> QED
    BY <2>5, <2>6, <2>7
<1>9. CASE CrashAndRestart
  BY <1>9 DEF CrashAndRestart, PendingAgrees, StoredAgrees, SavedStored, With
<1>10. CASE UNCHANGED vars
  BY <1>10 DEF vars, record, PendingAgrees, StoredAgrees, SavedStored, With, Published
<1> QED
  BY <1>1, <1>2, <1>3, <1>4, <1>5, <1>6, <1>7, <1>8, <1>9, <1>10, Concludes
     DEF Next, Pipeline


-----------------------------------------------------------------------------
LEMMA CountType ==
    ASSUME NEW n, NEW r
    PROVE  /\ IsFiniteSet(InStage(n) \cap With(r))
           /\ Cardinality(InStage(n) \cap With(r)) \in Nat
<1>1. (InStage(n) \cap With(r)) \in SUBSET Items
  BY DEF InStage
<1> QED
  BY <1>1, BasketAssumption, FS_Subset, FS_CardinalityType

\* The totals count a failure if the counters of a stage do.
LEMMA TotalStatus ==
    ASSUME tally \in [Stages -> [Settled -> Nat]]
    PROVE  Status(tally) = IF Total(tally)["failed"] > 0 THEN "complete_with_errors"
                                                         ELSE "complete"
<1> DEFINE f(n) == tally[n]["failed"]
<1>1. \A n \in Stages : f(n) \in Nat
  BY DEF Settled
<1>2. Total(tally)["failed"] = f(1) + f(2) + f(3) + f(4) + f(5)
  BY DEF Total, Settled
<1> HIDE DEF f
<1>3. (\E n \in Stages : f(n) > 0) <=> Total(tally)["failed"] > 0
  BY <1>1, <1>2 DEF Stages
<1> QED
  BY <1>3 DEF Status, f

LEMMA CountNext == Progress /\ RecordInv /\ CountInv /\ [Next]_vars => CountInv'
<1> SUFFICES ASSUME Progress, RecordInv, CountInv, [Next]_vars PROVE CountInv'
  OBVIOUS
<1> USE StageForType DEF CountInv
<1>1. ASSUME NEW mode \in Modes, Begin(mode) PROVE CountInv'
  BY <1>1 DEF Begin, Counted, Ended, With
<1>2. ASSUME NEW i \in Items, NEW r, Concluding(i, r) PROVE CountInv'
  <2>1. \A k \in Items : k # i => result'[k] = result[k]
    BY <1>2 DEF Progress, PipelineTypes, Concluding, Conclude
  <2>2. pipeline # "lost" /\ pipeline' = "working" /\ UNCHANGED <<stage, tally>>
        /\ StageFor(i) = stage /\ stage \in 1 .. 6
    BY <1>2 DEF Concluding, Conclude, Progress, PipelineTypes
  <2>3. \A n \in Stages, s \in Settled : n < stage =>
          InStage(n) \cap With(s)' = InStage(n) \cap With(s)
    BY <2>1, <2>2 DEF InStage, With, StageFor, Stages
  <2> QED
    BY <2>2, <2>3 DEF Counted, Ended
<1>3. ASSUME NEW i \in Items, Send(i) PROVE CountInv'
  BY <1>3 DEF Send, ToWrite, Current, record, Counted, Ended, With
<1>4. CASE EndStage
  <2>1. pipeline \notin {"lost", "ended"} /\ pipeline' \notin {"lost", "ended"}
        /\ stage \in Stages /\ stage' = stage + 1 /\ UNCHANGED result
        /\ tally' = [tally EXCEPT ![stage] = TallyOf(stage)]
    BY <1>4 DEF EndStage
  <2>2. TallyOf(stage) \in [Settled -> Nat]
    BY CountType DEF TallyOf
  <2>3. tally' \in [Stages -> [Settled -> Nat]]
    BY <2>1, <2>2 DEF Counted
  <2>4. \A r : With(r)' = With(r)
    BY <2>1 DEF With
  <2>5. ASSUME NEW n \in Stages, NEW s \in Settled
        PROVE  tally'[n][s] = IF n < stage' THEN Cardinality(InStage(n) \cap With(s)')
                                            ELSE 0
    <3>1. CASE n = stage
      BY <2>1, <2>4, <3>1 DEF TallyOf, Counted, Stages
    <3>2. CASE n # stage
      <4>1. tally'[n] = tally[n]
        BY <2>1, <3>2 DEF Counted
      <4>2. tally[n][s] = IF n < stage THEN Cardinality(InStage(n) \cap With(s)) ELSE 0
        BY <2>1 DEF Counted
      <4>3. n < stage' <=> n < stage
        BY <2>1, <3>2 DEF Stages
      <4> QED
        BY <2>4, <4>1, <4>2, <4>3
    <3> QED
      BY <3>1, <3>2
  <2> QED
    BY <2>1, <2>3, <2>5 DEF Counted, Ended
<1>5. CASE Linked
  BY <1>5 DEF Linked, record, Counted, Ended, With
<1>6. CASE Finish
  <2>1. Counted'
    BY <1>6 DEF Finish, Counted, With
  <2>2. job'.total = Total(tally)
        /\ job'.status = IF pending # {} THEN "running"
                         ELSE IF Total(tally)["failed"] > 0
                              THEN "complete_with_errors" ELSE "complete"
    BY <1>6 DEF Finish, Progress, PipelineTypes, IsJob
  <2>3. tally \in [Stages -> [Settled -> Nat]]
    BY <1>6 DEF Finish, Counted
  <2>4. UNCHANGED <<tally, pending>>
    BY <1>6 DEF Finish
  <2>5. job'.status = IF pending # {} THEN "running" ELSE Status(tally)
    BY <2>2, <2>3, TotalStatus
  <2>6. Total(tally)' = Total(tally) /\ Status(tally)' = Status(tally)
    BY <2>4
  <2> QED
    BY <2>1, <2>2, <2>4, <2>5, <2>6 DEF Ended
<1>7. ASSUME NEW i \in Items, NEW d \in {"skipped", "success"}, Decide(i, d)
      PROVE  CountInv'
  <2>1. result[i] = "pending" /\ StageFor(i) < stage /\ d \in Settled /\ i \in pending
    BY <1>7, Decides DEF Decide
  <2>2. \A k \in Items : k # i => result'[k] = result[k]
    BY <1>7 DEF Progress, PipelineTypes, Decide
  <2>3. result'[i] = d
    BY <1>7 DEF Progress, PipelineTypes, Decide
  <2>4. UNCHANGED <<pipeline, stage>>
        /\ tally' = [tally EXCEPT ![StageFor(i)][d] = @ + 1]
    BY <1>7 DEF Decide, StageFor
  <2>5. CASE pipeline = "lost"
    BY <2>4, <2>5 DEF Counted, Ended
  <2>6. CASE pipeline # "lost"
    <3>1. tally \in [Stages -> [Settled -> Nat]]
      BY <2>6 DEF Counted
    <3>2. tally' \in [Stages -> [Settled -> Nat]]
      BY <2>1, <2>4, <3>1
    <3>3. ASSUME NEW n \in Stages, NEW s \in Settled
          PROVE  tally'[n][s] = IF n < stage THEN Cardinality(InStage(n) \cap With(s)')
                                             ELSE 0
      <4> DEFINE held == InStage(n) \cap With(s)
      <4>1. IsFiniteSet(held) /\ Cardinality(held) \in Nat
        BY CountType
      <4>2. CASE n = StageFor(i) /\ s = d
        <5>1. InStage(n) \cap With(s)' = held \cup {i} /\ i \notin held
          BY <2>1, <2>2, <2>3, <4>2 DEF InStage, With, StageFor
        <5>2. Cardinality(held \cup {i}) = Cardinality(held) + 1
          BY <4>1, <5>1, FS_AddElement
        <5>3. tally'[n][s] = tally[n][s] + 1
          BY <2>1, <2>4, <3>1, <4>2
        <5>4. tally[n][s] = Cardinality(held)
          BY <2>1, <2>6, <4>2 DEF Counted
        <5> QED
          BY <2>1, <4>2, <5>1, <5>2, <5>3, <5>4
      <4>3. CASE ~(n = StageFor(i) /\ s = d)
        <5>1. InStage(n) \cap With(s)' = held
          BY <2>1, <2>2, <2>3, <4>3 DEF InStage, With, StageFor, Settled
        <5>2. tally'[n][s] = tally[n][s]
          BY <2>1, <2>4, <3>1, <4>3
        <5> QED
          BY <2>6, <5>1, <5>2 DEF Counted
      <4> QED
        BY <4>2, <4>3
    <3>4. Counted'
      BY <2>4, <3>2, <3>3 DEF Counted
    <3>5. ASSUME pipeline = "ended" PROVE Ended'
      <4>1. job.status = "running"
        BY <2>1, <3>5 DEF Ended
      <4>2. job'.total = Total(tally')
            /\ job'.status = IF pending' = {} THEN Status(tally') ELSE "running"
        BY <1>7, <4>1 DEF Decide, Progress, PipelineTypes, IsJob
      <4>3. Total(tally)' = Total(tally') /\ Status(tally)' = Status(tally')
        BY DEF Total, Status
      <4> QED
        BY <4>2, <4>3 DEF Ended
    <3> QED
      BY <2>4, <3>4, <3>5 DEF Ended
  <2> QED
    BY <2>5, <2>6
<1>8. CASE Autosave
  BY <1>8 DEF Autosave, record, Counted, Ended, With
<1>9. CASE CrashAndRestart
  BY <1>9 DEF CrashAndRestart, Counted, Ended
<1>10. CASE UNCHANGED vars
  BY <1>10 DEF vars, record, Counted, Ended, With
<1> QED
  BY <1>1, <1>2, <1>3, <1>4, <1>5, <1>6, <1>7, <1>8, <1>9, <1>10, Concludes
     DEF Next, Pipeline, CountInv

LEMMA RestoreInvariant == Spec => []IInv
<1>1. IInv /\ [Next]_vars => IInv'
  BY ProgressNext, RecordNext, CountNext DEF IInv
<1> QED
  BY InvInit, <1>1, PTL DEF Spec

-----------------------------------------------------------------------------
(* When the pipeline has ended *)

\* Two sets that are apart add up.
LEMMA Apart ==
    ASSUME NEW S \in SUBSET Items, NEW T \in SUBSET Items, S \cap T = {}
    PROVE  /\ Cardinality(S \cup T) = Cardinality(S) + Cardinality(T)
           /\ Cardinality(S) \in Nat /\ Cardinality(T) \in Nat
<1>1. IsFiniteSet(S) /\ IsFiniteSet(T)
  BY BasketAssumption, FS_Subset
<1>2. Cardinality(S \cap T) = 0
  BY FS_EmptySet
<1>3. Cardinality(S) \in Nat /\ Cardinality(T) \in Nat
  BY <1>1, FS_CardinalityType
<1>4. Cardinality(S \cup T) = Cardinality(S) + Cardinality(T) - Cardinality(S \cap T)
  BY <1>1, FS_Union, Zenon
<1> QED
  BY <1>2, <1>3, <1>4

\* What the five stages hold of a set of items adds up to the set.
LEMMA OverStages ==
    ASSUME NEW S \in SUBSET Items
    PROVE  Cardinality(S) =
              Cardinality(InStage(1) \cap S) + Cardinality(InStage(2) \cap S)
            + Cardinality(InStage(3) \cap S) + Cardinality(InStage(4) \cap S)
            + Cardinality(InStage(5) \cap S)
<1> DEFINE P(n) == InStage(n) \cap S
           upTo2 == P(1) \cup P(2)
           upTo3 == upTo2 \cup P(3)
           upTo4 == upTo3 \cup P(4)
<1>1. \A i \in S : StageFor(i) \in {1, 2, 3, 4, 5}
  BY StageForType DEF Stages
<1>2. \A n : P(n) = {i \in S : StageFor(i) = n}
  BY DEF InStage, StageFor
<1> HIDE DEF P
<1>3. P(1) \cap P(2) = {} /\ upTo2 \cap P(3) = {} /\ upTo3 \cap P(4) = {}
      /\ upTo4 \cap P(5) = {}
  BY <1>2
<1>4. \A n : P(n) \in SUBSET Items
  BY <1>2
<1>5. S = upTo4 \cup P(5)
  BY <1>1, <1>2
<1>6. Cardinality(upTo2) = Cardinality(P(1)) + Cardinality(P(2))
  BY <1>3, <1>4, Apart
<1>7. Cardinality(upTo3) = Cardinality(upTo2) + Cardinality(P(3))
  BY <1>3, <1>4, Apart
<1>8. Cardinality(upTo4) = Cardinality(upTo3) + Cardinality(P(4))
  BY <1>3, <1>4, Apart
<1>9. Cardinality(S) = Cardinality(upTo4) + Cardinality(P(5))
  BY <1>3, <1>4, <1>5, Apart
<1> QED
  BY <1>6, <1>7, <1>8, <1>9 DEF P

LEMMA TotalsAtEnd ==
    ASSUME IInv, pipeline = "ended"
    PROVE  /\ pending = With("pending")
           /\ \A i \in Items : result[i] # "none"
           /\ \A s \in Settled : Total(tally)[s] = Cardinality(With(s))
<1>1. stage = 6 /\ pipeline # "lost"
  BY DEF IInv, Progress, UnderWay
<1>2. \A i \in Items : StageFor(i) < stage
  BY <1>1, StageForType DEF Stages
<1>3. pending = With("pending")
  BY <1>1, <1>2 DEF IInv, RecordInv, PendingAgrees, Published, With, StageFor
<1>4. \A i \in Items : result[i] # "none"
  BY <1>1, <1>2 DEF IInv, Progress, Behind
<1>5. ASSUME NEW s \in Settled PROVE Total(tally)[s] = Cardinality(With(s))
  <2>1. \A n \in Stages : tally[n][s] = Cardinality(InStage(n) \cap With(s))
    BY <1>1 DEF IInv, CountInv, Counted, Stages
  <2>2. Total(tally)[s] = tally[1][s] + tally[2][s] + tally[3][s] + tally[4][s] + tally[5][s]
    BY DEF Total
  <2>3. With(s) \in SUBSET Items
    BY DEF With
  <2> QED
    BY <2>1, <2>2, <2>3, OverStages DEF Stages
<1> QED
  BY <1>3, <1>4, <1>5

LEMMA CountsAtEnd == IInv => CountsAgree
<1> SUFFICES ASSUME IInv, pipeline = "ended" PROVE CountsAgree
  BY DEF CountsAgree
<1>1. \A s \in Settled : job.total[s] = Cardinality(With(s))
  BY TotalsAtEnd DEF IInv, CountInv, Ended
<1> DEFINE two == With("success") \cup With("skipped")
           three == two \cup With("failed")
<1>2. \A r : With(r) \in SUBSET Items
  BY DEF With
<1>3. With("success") \cap With("skipped") = {} /\ two \cap With("failed") = {}
      /\ three \cap With("pending") = {}
  BY DEF With
<1>4. Items = three \cup With("pending")
  BY TotalsAtEnd DEF With, IInv, Progress, PipelineTypes, Results, Settled
<1>5. Cardinality(two) = Cardinality(With("success")) + Cardinality(With("skipped"))
  BY <1>2, <1>3, Apart
<1>6. Cardinality(three) = Cardinality(two) + Cardinality(With("failed"))
  BY <1>2, <1>3, Apart
<1>7. Cardinality(Items) = Cardinality(three) + Cardinality(With("pending"))
  BY <1>2, <1>3, <1>4, Apart
<1>8. job.total["success"] + job.total["skipped"] + job.total["failed"]
        + Cardinality(pending) = Cardinality(Items)
  BY <1>1, <1>5, <1>6, <1>7, TotalsAtEnd DEF Settled
<1> QED
  BY <1>1, <1>8 DEF CountsAgree

LEMMA StatusAtEnd == IInv => StatusAgrees
<1> SUFFICES ASSUME IInv, pipeline = "ended" PROVE StatusAgrees
  BY DEF StatusAgrees
<1>1. pending = With("pending") /\ Total(tally)["failed"] = Cardinality(With("failed"))
  BY TotalsAtEnd DEF Settled
<1>2. IsFiniteSet(With("failed")) /\ Cardinality(With("failed")) \in Nat
  <2>1. With("failed") \in SUBSET Items
    BY DEF With
  <2> QED
    BY <2>1, BasketAssumption, FS_Subset, FS_CardinalityType
<1>3. Total(tally)["failed"] > 0 <=> With("failed") # {}
  BY <1>1, <1>2, FS_EmptySet
<1>4. tally \in [Stages -> [Settled -> Nat]]
  BY DEF IInv, CountInv, Counted
<1>5. Status(tally) = IF With("failed") # {} THEN "complete_with_errors" ELSE "complete"
  BY <1>3, <1>4, TotalStatus
<1>6. job.status = IF pending # {} THEN "running" ELSE Status(tally)
  BY DEF IInv, CountInv, Ended
<1> QED
  BY <1>1, <1>5, <1>6 DEF StatusAgrees

-----------------------------------------------------------------------------
\* getRestoreJob and submitConflictDecision: the conflicts on offer are those
\* whose published result waits, in memory and in db.json.
THEOREM PendingIsWaiting == Spec => []PendingAgrees
<1>1. IInv => PendingAgrees
  BY DEF IInv, RecordInv
<1> QED
  BY <1>1, RestoreInvariant, PTL

\* registerRestoredObject: an item that reports success has its object, and the
\* other way round as long as the pipeline was not lost.
THEOREM SuccessIsStored == Spec => []StoredAgrees
<1>1. IInv => StoredAgrees
  BY DEF IInv, RecordInv
<1> QED
  BY <1>1, RestoreInvariant, PTL

\* initiateRestore and submitConflictDecision both write the totals; at the end
\* they add up to the basket, for any basket and any decisions.
THEOREM CountsAddUp == Spec => []CountsAgree
BY CountsAtEnd, RestoreInvariant, PTL

\* The status of a restore that has ended tells the results of its items.
THEOREM StatusTells == Spec => []StatusAgrees
BY StatusAtEnd, RestoreInvariant, PTL

-----------------------------------------------------------------------------
(***************************************************************************)
(* RestoreAdmission.                                                       *)
(***************************************************************************)
USE AdmissionAssumption, NullAssumption

-----------------------------------------------------------------------------
(* Types *)

Node == [conn : Conns, key : Keys, archived : BOOLEAN]
States == {"live", "archived", "absent"}
Answers == {"ok", "BOARD_READ_SCOPE_MISSING", "AUTH_ERROR", "failed"}
Phases == {"new", "refused", "waiting", "writing", "offline"}

Def == [site : Sites, id : STRING, name : STRING]

IsAttempt(t) ==
    /\ DOMAIN t = {"phase", "request", "refusal", "map", "warnings", "project",
                   "stale", "narrowed"}
    /\ t.phase \in Phases /\ t.narrowed \in BOOLEAN

Typed ==
    /\ conns \in [Conns -> Connection \cup {None}]
    /\ nodes \in Seq(Node)
    /\ defs \in Seq(Def)
    /\ DOMAIN jira = {"projects", "names"}
    /\ jira.projects \in [Sites -> [Keys -> States]]
    /\ DOMAIN jira.names = Sites
    /\ \A s \in Sites : jira.names[s] \in [DOMAIN SiteFields[s] -> STRING]
    /\ runs \in [Conns -> [phase : {"idle", "listed", "sited"},
                           boards : Answers \cup {None}, raced : BOOLEAN]]
    /\ DOMAIN attempts = 1 .. Attempts
    /\ \A a \in 1 .. Attempts : IsAttempt(attempts[a])
    /\ doubts \in [Conns -> SUBSET {"raced", "unanswered"}]

-----------------------------------------------------------------------------
(* Numbers and tables *)

\* A set of numbers that is not empty has a least one, and Min is it.
LEMMA MinIs ==
    ASSUME NEW ns \in SUBSET Nat, ns # {}
    PROVE  Min(ns) \in ns /\ \A k \in ns : Min(ns) <= k
<1> DEFINE Less == OpToRel(<, Nat)
<1>1. PICK n \in ns : \A k \in ns : ~(<<k, n>> \in Less)
  <2>1. IsWellFoundedOn(Less, Nat)
    BY NatLessThanWellFounded
  <2> HIDE DEF Less
  <2> QED
    BY <2>1, WFMin
<1>2. \A k \in ns : n <= k
  <2> SUFFICES ASSUME NEW k \in ns, ~(n <= k)
               PROVE  <<k, n>> \in Less
    BY <1>1
  <2> QED
    BY DEF OpToRel
<1> QED
  BY <1>2 DEF Min

\* A bounded one has a greatest, and Max is it.
LEMMA MaxIs ==
    ASSUME NEW n \in Nat, NEW ns \in SUBSET (1 .. n), ns # {}
    PROVE  Max(ns) \in ns /\ \A k \in ns : Max(ns) >= k
<1> DEFINE back == {n - k : k \in ns}
<1>1. back \in SUBSET Nat /\ back # {}
  <2>1. \A k \in ns : n - k \in Nat
    OBVIOUS
  <2>2. back # {}
    <3>1. PICK k \in ns : TRUE
      OBVIOUS
    <3>2. n - k \in back
      BY <3>1
    <3> QED
      BY <3>2
  <2> QED
    BY <2>1, <2>2
<1>2. Min(back) \in back /\ \A b \in back : Min(back) <= b
  <2> HIDE DEF back
  <2> QED
    BY <1>1, MinIs
<1>3. PICK m \in ns : Min(back) = n - m
  BY <1>2
<1>4. \A k \in ns : m >= k
  <2> SUFFICES ASSUME NEW k \in ns PROVE m >= k
    OBVIOUS
  <2>1. n - k \in back
    OBVIOUS
  <2>2. n - m <= n - k
    <3> HIDE DEF back
    <3> QED
      BY <1>2, <1>3, <2>1
  <2>3. m \in Nat /\ k \in Nat
    OBVIOUS
  <2> QED
    BY <2>2, <2>3
<1>5. m \in ns /\ \A k \in ns : m >= k
  BY <1>4
<1> QED
  BY <1>5 DEF Max

\* SetToSeq lists each element of a finite set once.
LEMMA ListIs ==
    ASSUME NEW S, IsFiniteSet(S)
    PROVE  /\ SetToSeq(S) \in Seq(S) /\ Len(SetToSeq(S)) = Cardinality(S)
           /\ Cardinality(S) \in Nat
           /\ \A j, k \in 1 .. Cardinality(S) : SetToSeq(S)[j] = SetToSeq(S)[k] => j = k
<1>1. Cardinality(S) \in Nat /\ ExistsBijection(1 .. Cardinality(S), S)
  BY FS_CardinalityType
<1>2. \E f \in [1 .. Cardinality(S) -> S] : IsInjective(f)
  BY <1>1 DEF ExistsBijection, Bijection, Injection
<1> DEFINE list == SetToSeq(S)
           n == Cardinality(S)
<1>3. list \in [1 .. n -> S] /\ IsInjective(list)
  BY <1>2 DEF SetToSeq
<1>4. n \in Nat
  BY <1>1
<1> HIDE DEF list, n
<1>5. list \in Seq(S) /\ Len(list) = n
  BY <1>3, <1>4
<1>6. \A j, k \in 1 .. n : list[j] = list[k] => j = k
  BY <1>3 DEF IsInjective
<1> QED
  BY <1>4, <1>5, <1>6 DEF list, n

Distinct(table, id) ==
    \A j, k \in DOMAIN table : SameKey(table[j], table[k], id) => j = k

\* Map.set replaces what has the key and keeps keys apart.
LEMMA SetAllIs ==
    ASSUME NEW S, NEW table \in Seq(S), NEW entries \in SUBSET S, IsFiniteSet(entries), NEW id
    PROVE  /\ SetAll(table, entries, id) \in Seq(S)
           /\ \A k \in DOMAIN SetAll(table, entries, id) :
                 \/ SetAll(table, entries, id)[k] \in entries
                 \/ \E j \in DOMAIN table :
                       /\ SetAll(table, entries, id)[k] = table[j]
                       /\ \A e \in entries : ~SameKey(e, table[j], id)
           /\ Distinct(table, id)
              /\ (\A e, f \in entries : SameKey(e, f, id) => e = f)
              => Distinct(SetAll(table, entries, id), id)
<1> DEFINE added == {e \in entries : \A k \in DOMAIN table : ~SameKey(e, table[k], id)}
           old == [k \in DOMAIN table |->
                      IF \E e \in entries : SameKey(e, table[k], id)
                      THEN CHOOSE e \in entries : SameKey(e, table[k], id)
                      ELSE table[k]]
           last == SetToSeq(added)
           new == old \o last
           m == Len(table)
           n == Cardinality(added)
<1>1. IsFiniteSet(added)
  BY FS_Subset
<1>2. /\ last \in Seq(added) /\ Len(last) = n /\ n \in Nat
      /\ \A j, k \in 1 .. n : last[j] = last[k] => j = k
  BY <1>1, ListIs
<1>3. m \in Nat /\ DOMAIN table = 1 .. m /\ \A k \in 1 .. m : table[k] \in S
  OBVIOUS
<1>4. \A k \in 1 .. m :
        \/ /\ old[k] \in entries /\ SameKey(old[k], table[k], id)
        \/ /\ old[k] = table[k] /\ \A e \in entries : ~SameKey(e, table[k], id)
  BY <1>3
<1>5. old \in Seq(S) /\ Len(old) = m
  <2>1. \A k \in 1 .. m : old[k] \in S
    BY <1>3, <1>4
  <2>2. old \in [1 .. m -> S]
    BY <1>3, <2>1
  <2> HIDE DEF old
  <2> QED
    BY <1>3, <2>2
<1>6. \A k \in 1 .. n : last[k] \in added
  <2> HIDE DEF last, added, n
  <2> QED
    BY <1>2
<1>7. last \in Seq(S)
  <2>1. added \subseteq S
    OBVIOUS
  <2> HIDE DEF last, added
  <2> QED
    BY <1>2, <2>1
<1>8. /\ new \in Seq(S) /\ Len(new) = m + n
      /\ \A k \in 1 .. m + n : new[k] = IF k <= m THEN old[k] ELSE last[k - m]
  <2>1. Len(last) = n /\ Len(old) = m /\ m \in Nat /\ n \in Nat
    BY <1>2, <1>3, <1>5
  <2> HIDE DEF old, last, m, n
  <2>2. /\ old \o last \in Seq(S) /\ Len(old \o last) = Len(old) + Len(last)
        /\ \A k \in 1 .. Len(old) + Len(last) :
              (old \o last)[k] = IF k <= Len(old) THEN old[k] ELSE last[k - Len(old)]
    BY <1>5, <1>7, ConcatProperties
  <2> QED
    BY <2>1, <2>2
<1>9. DOMAIN new = 1 .. m + n
  <2> HIDE DEF new
  <2> QED
    BY <1>2, <1>3, <1>8
<1>10. SetAll(table, entries, id) = new
  BY DEF SetAll
<1> HIDE DEF new, old, last, m, n
<1>11. ASSUME NEW k \in 1 .. m + n
       PROVE  \/ new[k] \in entries
              \/ \E j \in DOMAIN table : /\ new[k] = table[j]
                                         /\ \A e \in entries : ~SameKey(e, table[j], id)
  <2>1. CASE k <= m
    <3>1. k \in 1 .. m /\ new[k] = old[k]
      BY <1>2, <1>3, <1>8, <2>1
    <3>2. \/ old[k] \in entries
          \/ old[k] = table[k] /\ \A e \in entries : ~SameKey(e, table[k], id)
      BY <1>4, <3>1
    <3> QED
      BY <1>3, <3>1, <3>2
  <2>2. CASE ~(k <= m)
    <3>1. k - m \in 1 .. n
      BY <1>2, <1>3, <2>2
    <3> QED
      BY <1>6, <1>8, <2>2, <3>1
  <2> QED
    BY <2>1, <2>2
<1>12. ASSUME Distinct(table, id), \A e, f \in entries : SameKey(e, f, id) => e = f
       PROVE  Distinct(new, id)
  <2>1. ASSUME NEW j \in 1 .. m + n, NEW k \in 1 .. m + n, j <= k, SameKey(new[j], new[k], id)
        PROVE  j = k
    <3>1. CASE k <= m
      <4>1. j \in 1 .. m /\ k \in 1 .. m /\ new[j] = old[j] /\ new[k] = old[k]
        BY <1>2, <1>3, <1>8, <2>1, <3>1
      <4>2. SameKey(new[j], table[j], id) /\ SameKey(new[k], table[k], id)
        BY <1>4, <4>1 DEF SameKey
      <4>3. SameKey(table[j], table[k], id)
        BY <2>1, <4>2 DEF SameKey
      <4> QED
        BY <1>3, <1>12, <4>1, <4>3 DEF Distinct
    <3>2. CASE ~(j <= m)
      <4>1. j - m \in 1 .. n /\ k - m \in 1 .. n /\ new[j] = last[j - m] /\ new[k] = last[k - m]
        BY <1>2, <1>3, <1>8, <2>1, <3>2
      <4>2. new[j] = new[k]
        BY <1>6, <1>12, <2>1, <4>1
      <4>3. j - m = k - m
        BY <1>2, <4>1, <4>2
      <4> QED
        BY <1>2, <1>3, <4>3
    <3>3. CASE j <= m /\ ~(k <= m)
      <4>1. j \in 1 .. m /\ new[j] = old[j] /\ k - m \in 1 .. n /\ new[k] = last[k - m]
        BY <1>2, <1>3, <1>8, <2>1, <3>3
      <4>2. SameKey(new[j], table[j], id) /\ new[k] \in added
        BY <1>4, <1>6, <4>1 DEF SameKey
      <4>3. SameKey(new[k], table[j], id)
        BY <2>1, <4>2 DEF SameKey
      <4> QED
        BY <1>3, <4>1, <4>2, <4>3
    <3> QED
      BY <3>1, <3>2, <3>3
  <2>2. \A e, f : SameKey(e, f, id) => SameKey(f, e, id)
    BY DEF SameKey
  <2> QED
    BY <1>2, <1>3, <1>9, <2>1, <2>2 DEF Distinct
<1> QED
  BY <1>8, <1>9, <1>10, <1>11, <1>12
-----------------------------------------------------------------------------
(* The invariant *)

\* Whoever waits for a token or writes names a connection, whose scopes cover
\* what he restores unless it consented to less.
Covered ==
    \A a \in 1 .. Attempts :
        attempts[a].phase \in {"waiting", "writing"} =>
            /\ attempts[a].request.conn \in Connected
            /\ attempts[a].narrowed
               \/ NeededScopes(Basket(attempts[a].request.selection))
                     \subseteq conns[attempts[a].request.conn].scopes

\* An entry of a project that did not change since it was listed is right.
NodesSeen ==
    \A k \in DOMAIN nodes :
        <<nodes[k].conn, nodes[k].key>> \notin unseen =>
            jira.projects[SiteOf[nodes[k].conn]][nodes[k].key] =
                IF nodes[k].archived THEN "archived" ELSE "live"

\* A backup is of a connection that is there, and what it was told of boards is
\* so, unless it raced a consent.
RunsTold ==
    \A c \in Conns : runs[c].phase # "idle" =>
        /\ c \in Connected
        /\ runs[c].phase = "sited" => runs[c].boards \in Answers
        /\ runs[c].phase = "sited" /\ ~runs[c].raced =>
              /\ runs[c].boards = "BOARD_READ_SCOPE_MISSING" => BoardRead \notin conns[c].scopes
              /\ runs[c].boards = "ok" => BoardRead \in conns[c].scopes

OneEntryEach == Distinct(defs, DefKey)

AdmissionInv ==
    /\ Typed /\ Covered /\ NodesSeen /\ AdmittedIsFresh /\ OneEntryEach
    /\ RunsTold /\ DegradedIsReal

\* The invariant holds at first.
LEMMA AdmissionInvInit == AdmissionInit => AdmissionInv
<1> SUFFICES ASSUME AdmissionInit PROVE AdmissionInv
  OBVIOUS
<1>1. <<>> \in Seq(Node) /\ <<>> \in Seq(Def) /\ DOMAIN <<>> = {}
  OBVIOUS
<1>2. IsAttempt(NoAttempt) /\ NoAttempt.phase = "new"
  BY DEF IsAttempt, NoAttempt, Phases
<1>3. Typed
  <2>1. jira.projects \in [Sites -> [Keys -> States]]
    BY DEF AdmissionInit, States
  <2>2. DOMAIN jira = {"projects", "names"} /\ jira.names = SiteFields
    BY DEF AdmissionInit
  <2>3. runs \in [Conns -> [phase : {"idle", "listed", "sited"},
                           boards : Answers \cup {None}, raced : BOOLEAN]]
    BY DEF AdmissionInit, NoRun
  <2>4. conns \in [Conns -> Connection \cup {None}]
        /\ doubts \in [Conns -> SUBSET {"raced", "unanswered"}]
    BY DEF AdmissionInit
  <2> QED
    BY <1>1, <1>2, <2>1, <2>2, <2>3, <2>4 DEF AdmissionInit, Typed
<1>4. Covered /\ AdmittedIsFresh
  BY <1>2 DEF AdmissionInit, Covered, AdmittedIsFresh, Admitted
<1>5. NodesSeen /\ OneEntryEach
  BY <1>1 DEF AdmissionInit, NodesSeen, OneEntryEach, Distinct
<1>6. RunsTold /\ DegradedIsReal
  BY DEF AdmissionInit, RunsTold, NoRun, DegradedIsReal, Connected
<1> QED
  BY <1>3, <1>4, <1>5, <1>6 DEF AdmissionInv

-----------------------------------------------------------------------------
(* What the steps do to one table *)

\* A connection is a record with its fields.
LEMMA ConnectionFields ==
    ASSUME NEW d \in Connection
    PROVE  /\ d.scopes \in SUBSET Scopes /\ d.life \in 0 .. 2
           /\ d.degraded \in BOOLEAN /\ d # None
  BY DEF Connection

\* A consent makes a connection of what was granted.
LEMMA GrantedIs ==
    ASSUME NEW scopes \in SUBSET Scopes
    PROVE  /\ Granted(scopes) \in Connection /\ Granted(scopes).scopes = scopes
           /\ Granted(scopes).degraded = ~(BoardScopes \subseteq scopes)
  BY DEF Granted, Connection, BoardScopeDegraded

\* A new life or flag leaves a connection its scopes.
LEMMA ConnectionKept ==
    ASSUME conns \in [Conns -> Connection \cup {None}], NEW c \in Connected,
           \/ \E to \in 0 .. 2 : conns' = [conns EXCEPT ![c].life = to]
           \/ \E flag \in BOOLEAN : conns' = [conns EXCEPT ![c].degraded = flag]
    PROVE  /\ conns' \in [Conns -> Connection \cup {None}]
           /\ Connected' = Connected
           /\ \A d \in Connected : conns'[d].scopes = conns[d].scopes
           /\ \A d \in Connected \ {c} : conns'[d] = conns[d]
<1>1. c \in Conns /\ conns[c] \in Connection
  BY DEF Connected
<1>2. \A e \in Connection :
        /\ \A to \in 0 .. 2 : LET f == [e EXCEPT !.life = to]
                              IN  f \in Connection /\ f.scopes = e.scopes
        /\ \A flag \in BOOLEAN : LET f == [e EXCEPT !.degraded = flag]
                                  IN  f \in Connection /\ f.scopes = e.scopes
  BY DEF Connection
<1>3. PICK e \in Connection :
        e.scopes = conns[c].scopes /\ conns' = [conns EXCEPT ![c] = e]
  BY <1>1, <1>2
<1>4. e # None
  BY ConnectionFields
<1> QED
  BY <1>1, <1>3, <1>4 DEF Connected

\* A new life leaves the flag as well.
LEMMA NewLife ==
    ASSUME conns \in [Conns -> Connection \cup {None}], NEW c \in Connected,
           NEW to \in 0 .. 2, conns' = [conns EXCEPT ![c].life = to]
    PROVE  /\ conns' \in [Conns -> Connection \cup {None}]
           /\ Connected' = Connected
           /\ \A d \in Connected : conns'[d].scopes = conns[d].scopes
           /\ \A d \in Connected : conns'[d].degraded = conns[d].degraded
<1>1. c \in Conns /\ conns[c] \in Connection
  BY DEF Connected
<1>2. conns'[c] = [conns[c] EXCEPT !.life = to]
  BY <1>1
<1>3. conns'[c].degraded = conns[c].degraded
  BY <1>1, <1>2 DEF Connection
<1> QED
  BY <1>3, ConnectionKept

\* So do the parts of the invariant that look at scopes.
LEMMA ScopesKept ==
    ASSUME AdmissionInv, Connected' = Connected,
           \A d \in Connected : conns'[d].scopes = conns[d].scopes,
           UNCHANGED attempts
    PROVE  Covered'
<1> SUFFICES ASSUME NEW a \in 1 .. Attempts, attempts[a].phase \in {"waiting", "writing"}
             PROVE  /\ attempts[a].request.conn \in Connected
                    /\ attempts[a].narrowed
                       \/ NeededScopes(Basket(attempts[a].request.selection))
                             \subseteq conns'[attempts[a].request.conn].scopes
  BY DEF Covered
<1> QED
  BY DEF AdmissionInv, Covered

-----------------------------------------------------------------------------
(* The steps *)

RunRecord == [phase : {"idle", "listed", "sited"}, boards : Answers \cup {None},
              raced : BOOLEAN]

\* A run record with new fields is one.
LEMMA RunFields ==
    ASSUME NEW r \in RunRecord
    PROVE  /\ \E x \in RunRecord :
                 /\ x = [r EXCEPT !.raced = r.phase # "idle"]
                 /\ x.phase = r.phase /\ x.boards = r.boards
                 /\ (r.phase # "idle" => x.raced)
           /\ NoRun \in RunRecord /\ NoRun.phase = "idle"
           /\ \E x \in RunRecord :
                 /\ x = [NoRun EXCEPT !.phase = "listed"]
                 /\ x.phase = "listed"
<1>2. \E x \in RunRecord : /\ x = [r EXCEPT !.raced = r.phase # "idle"]
                            /\ x.phase = r.phase /\ x.boards = r.boards
                 /\ (r.phase # "idle" => x.raced)
  <2> DEFINE x == [r EXCEPT !.raced = r.phase # "idle"]
  <2>1. x \in RunRecord /\ x.phase = r.phase /\ x.boards = r.boards
                 /\ (r.phase # "idle" => x.raced)
    BY DEF RunRecord
  <2> HIDE DEF x
  <2>2. x = [r EXCEPT !.raced = r.phase # "idle"]
    BY DEF x
  <2> QED
    BY <2>1, <2>2
<1>3. /\ NoRun \in RunRecord /\ NoRun.phase = "idle"
      /\ \E x \in RunRecord : x = [NoRun EXCEPT !.phase = "listed"] /\ x.phase = "listed"
  <2> DEFINE x == [NoRun EXCEPT !.phase = "listed"]
  <2>1. x \in RunRecord /\ x.phase = "listed" /\ NoRun \in RunRecord /\ NoRun.phase = "idle"
    BY DEF RunRecord, NoRun
  <2> QED
    BY <2>1
<1> QED
  BY <1>2, <1>3

\* So is one that was told of boards.
LEMMA RunAnswered ==
    ASSUME NEW r \in RunRecord, NEW answer \in Answers
    PROVE  LET x == [r EXCEPT !.phase = "sited", !.boards = answer]
           IN  /\ x \in RunRecord /\ x.phase = "sited" /\ x.boards = answer
               /\ x.raced = r.raced
  BY DEF RunRecord

\* The fields of an attempt after a consent or a token.
LEMMA AttemptFields ==
    ASSUME NEW t, IsAttempt(t)
    PROVE  /\ \A b \in BOOLEAN :
                 LET x == [t EXCEPT !.narrowed = b]
                 IN  /\ IsAttempt(x) /\ x.phase = t.phase /\ x.request = t.request
                     /\ x.project = t.project /\ x.stale = t.stale /\ x.narrowed = b
           /\ \A p \in Phases :
                 LET x == [t EXCEPT !.phase = p]
                 IN  /\ IsAttempt(x) /\ x.phase = p /\ x.request = t.request
                     /\ x.project = t.project /\ x.stale = t.stale
                     /\ x.narrowed = t.narrowed
  BY DEF IsAttempt

\* A consent either changes nothing, or makes the connection what was granted;
\* whoever uses it is marked, and so is a run of it.
LEMMA Consents ==
    ASSUME AdmissionInv, NEW c \in Conns, NEW scopes \in SUBSET Scopes, Consent(c, scopes)
    PROVE  AdmissionInv'
<1>1. CASE ~ConnectionAllowed(scopes)
  <2>1. UNCHANGED <<conns, nodes, defs, jira, runs, attempts, unseen, doubts>>
    BY <1>1 DEF Consent
  <2> QED
    BY <2>1 DEF AdmissionInv, Typed, Covered, NodesSeen, AdmittedIsFresh, Admitted, OneEntryEach,
                RunsTold, DegradedIsReal, Connected
<1>2. CASE ConnectionAllowed(scopes)
  <2>1. /\ conns' = [conns EXCEPT ![c] = Granted(scopes)]
        /\ doubts' = [doubts EXCEPT ![c] = {}]
        /\ runs' = [runs EXCEPT ![c].raced = runs[c].phase # "idle"]
        /\ UNCHANGED <<nodes, defs, jira, unseen>>
    BY <1>2 DEF Consent
  <2>2. attempts' = [a \in DOMAIN attempts |->
                      [attempts[a] EXCEPT !.narrowed =
                         attempts[a].narrowed \/ Narrows(attempts[a], c, scopes)]]
    BY <1>2 DEF Consent
  <2>3. DOMAIN attempts' = 1 .. Attempts
        /\ \A a \in 1 .. Attempts :
              /\ IsAttempt(attempts'[a]) /\ attempts'[a].phase = attempts[a].phase
              /\ attempts'[a].request = attempts[a].request
              /\ attempts'[a].project = attempts[a].project
              /\ attempts'[a].stale = attempts[a].stale
              /\ attempts[a].narrowed => attempts'[a].narrowed
              /\ Narrows(attempts[a], c, scopes) => attempts'[a].narrowed
    <3>1. DOMAIN attempts' = 1 .. Attempts
      BY <2>2 DEF AdmissionInv, Typed
    <3> SUFFICES ASSUME NEW a \in 1 .. Attempts
                 PROVE  /\ IsAttempt(attempts'[a]) /\ attempts'[a].phase = attempts[a].phase
                        /\ attempts'[a].request = attempts[a].request
                        /\ attempts'[a].project = attempts[a].project
                        /\ attempts'[a].stale = attempts[a].stale
                        /\ attempts[a].narrowed => attempts'[a].narrowed
                        /\ Narrows(attempts[a], c, scopes) => attempts'[a].narrowed
      BY <3>1
    <3> DEFINE b == attempts[a].narrowed \/ Narrows(attempts[a], c, scopes)
    <3>2. b \in BOOLEAN /\ (attempts[a].narrowed => b)
          /\ (Narrows(attempts[a], c, scopes) => b)
      BY DEF AdmissionInv, Typed, IsAttempt
    <3>3. attempts'[a] = [attempts[a] EXCEPT !.narrowed = b]
      BY <2>2 DEF AdmissionInv, Typed
    <3> HIDE DEF b
    <3> QED
      BY <3>2, <3>3, AttemptFields DEF AdmissionInv, Typed
  <2>4. /\ runs' \in [Conns -> RunRecord]
        /\ \A d \in Conns \ {c} : runs'[d] = runs[d]
        /\ runs'[c].phase = runs[c].phase /\ runs'[c].boards = runs[c].boards
        /\ runs[c].phase # "idle" => runs'[c].raced
    <3>1. runs \in [Conns -> RunRecord]
      BY DEF AdmissionInv, Typed, RunRecord
    <3>2. PICK x \in RunRecord :
            /\ x = [runs[c] EXCEPT !.raced = runs[c].phase # "idle"]
            /\ x.phase = runs[c].phase /\ x.boards = runs[c].boards
            /\ (runs[c].phase # "idle" => x.raced)
      <4>1. runs[c] \in RunRecord
        BY <3>1
      <4> QED
        BY <4>1, RunFields
    <3>3. runs' = [runs EXCEPT ![c] = x]
      BY <2>1, <3>2
    <3> QED
      BY <3>1, <3>2, <3>3
  <2>5. /\ conns' \in [Conns -> Connection \cup {None}]
        /\ Connected' = Connected \cup {c}
        /\ \A d \in Conns \ {c} : conns'[d] = conns[d]
        /\ conns'[c].scopes = scopes
        /\ conns'[c].degraded = ~(BoardScopes \subseteq scopes)
    <3>1. PICK g \in Connection : /\ g = Granted(scopes) /\ g.scopes = scopes
                                  /\ g.degraded = ~(BoardScopes \subseteq scopes)
      BY GrantedIs
    <3>2. conns' = [conns EXCEPT ![c] = g] /\ g # None
      BY <2>1, <3>1, ConnectionFields
    <3>3. conns \in [Conns -> Connection \cup {None}]
      BY DEF AdmissionInv, Typed
    <3> QED
      BY <3>1, <3>2, <3>3 DEF Connected
  <2>6. Typed'
    BY <2>1, <2>3, <2>4, <2>5 DEF AdmissionInv, Typed, RunRecord
  <2>7. Covered'
    <3> SUFFICES ASSUME NEW a \in 1 .. Attempts, attempts'[a].phase \in {"waiting", "writing"}
                 PROVE  /\ attempts'[a].request.conn \in Connected'
                        /\ attempts'[a].narrowed
                           \/ NeededScopes(Basket(attempts'[a].request.selection))
                                 \subseteq conns'[attempts'[a].request.conn].scopes
      BY DEF Covered
    <3>1. /\ attempts[a].phase \in {"waiting", "writing"}
          /\ attempts[a].request.conn \in Connected
          /\ attempts[a].narrowed
               \/ NeededScopes(Basket(attempts[a].request.selection))
                     \subseteq conns[attempts[a].request.conn].scopes
      BY <2>3 DEF AdmissionInv, Covered
    <3>2. CASE attempts[a].request.conn = c
      BY <2>3, <2>5, <3>1, <3>2 DEF Connected, Narrows
    <3>3. CASE attempts[a].request.conn # c
      BY <2>3, <2>5, <3>1, <3>3 DEF Connected
    <3> QED
      BY <3>2, <3>3
  <2>8. NodesSeen' /\ OneEntryEach'
    BY <2>1 DEF AdmissionInv, NodesSeen, OneEntryEach, Distinct
  <2>9. AdmittedIsFresh'
    BY <2>3 DEF AdmissionInv, AdmittedIsFresh, Admitted
  <2>10. RunsTold'
    <3> SUFFICES ASSUME NEW d \in Conns, runs'[d].phase # "idle"
                 PROVE  /\ d \in Connected'
                        /\ runs'[d].phase = "sited" => runs'[d].boards \in Answers
                        /\ runs'[d].phase = "sited" /\ ~runs'[d].raced =>
                              /\ runs'[d].boards = "BOARD_READ_SCOPE_MISSING"
                                    => BoardRead \notin conns'[d].scopes
                              /\ runs'[d].boards = "ok" => BoardRead \in conns'[d].scopes
      BY DEF RunsTold
    <3>1. CASE d = c
      BY <2>4, <2>5, <3>1 DEF AdmissionInv, RunsTold
    <3>2. CASE d # c
      BY <2>4, <2>5, <3>2 DEF AdmissionInv, RunsTold
    <3> QED
      BY <3>1, <3>2
  <2>11. DegradedIsReal'
    <3>1. doubts'[c] = {} /\ \A d \in Conns \ {c} : doubts'[d] = doubts[d]
      BY <2>1 DEF AdmissionInv, Typed
    <3> QED
      BY <2>5, <3>1 DEF AdmissionInv, DegradedIsReal, Connected, BoardScopes
  <2> QED
    BY <2>6, <2>7, <2>8, <2>9, <2>10, <2>11 DEF AdmissionInv
<1> QED
  BY <1>1, <1>2

\* An attempt that moves on, with nothing else but the life of a connection.
LEMMA Refreshes ==
    ASSUME AdmissionInv, NEW a \in 1 .. Attempts, NEW refreshed \in BOOLEAN, GetToken(a, refreshed)
    PROVE  AdmissionInv'
<1> DEFINE c == attempts[a].request.conn
           to == IF conns[c].life < 2 => refreshed THEN "writing" ELSE "offline"
<1>1. attempts[a].phase = "waiting" /\ c \in Connected
  BY DEF GetToken, AdmissionInv, Covered
<1>2. /\ conns' \in [Conns -> Connection \cup {None}]
      /\ Connected' = Connected
      /\ \A d \in Connected : conns'[d].scopes = conns[d].scopes
      /\ \A d \in Connected : conns'[d].degraded = conns[d].degraded
  <2>1. conns' = IF refreshed THEN [conns EXCEPT ![c].life = 2] ELSE conns
    BY DEF GetToken
  <2>2. CASE refreshed
    <3>1. conns' = [conns EXCEPT ![c].life = 2] /\ 2 \in 0 .. 2
      BY <2>1, <2>2
    <3>2. conns \in [Conns -> Connection \cup {None}]
      BY DEF AdmissionInv, Typed
    <3> HIDE DEF c
    <3> QED
      BY <1>1, <3>1, <3>2, NewLife
  <2>3. CASE ~refreshed
    BY <2>1, <2>3 DEF AdmissionInv, Typed, Connected
  <2> QED
    BY <2>2, <2>3
<1>3. /\ attempts' = [attempts EXCEPT ![a].phase = to]
      /\ UNCHANGED <<nodes, defs, jira, runs, unseen, doubts>>
  BY DEF GetToken
<1>4. to \in {"writing", "offline"}
  OBVIOUS
<1> HIDE DEF to
<1>5. DOMAIN attempts' = 1 .. Attempts
      /\ \A b \in 1 .. Attempts :
            /\ IsAttempt(attempts'[b]) /\ attempts'[b].request = attempts[b].request
            /\ attempts'[b].project = attempts[b].project
            /\ attempts'[b].stale = attempts[b].stale
            /\ attempts'[b].narrowed = attempts[b].narrowed
            /\ attempts'[b].phase = IF b = a THEN to ELSE attempts[b].phase
  <2>1. IsAttempt(attempts[a]) /\ to \in Phases
    BY <1>4 DEF AdmissionInv, Typed, Phases
  <2>2. attempts'[a] = [attempts[a] EXCEPT !.phase = to]
    BY <1>3 DEF AdmissionInv, Typed
  <2>3. /\ IsAttempt(attempts'[a]) /\ attempts'[a].request = attempts[a].request
        /\ attempts'[a].project = attempts[a].project
        /\ attempts'[a].stale = attempts[a].stale
        /\ attempts'[a].narrowed = attempts[a].narrowed
        /\ attempts'[a].phase = to
    BY <2>1, <2>2, AttemptFields
  <2> QED
    BY <1>3, <2>3 DEF AdmissionInv, Typed
<1>6. Typed'
  BY <1>2, <1>3, <1>5 DEF AdmissionInv, Typed
<1>7. Covered'
  <2> SUFFICES ASSUME NEW b \in 1 .. Attempts, attempts'[b].phase \in {"waiting", "writing"}
               PROVE  /\ attempts'[b].request.conn \in Connected'
                      /\ attempts'[b].narrowed
                         \/ NeededScopes(Basket(attempts'[b].request.selection))
                               \subseteq conns'[attempts'[b].request.conn].scopes
    BY DEF Covered
  <2>1. attempts[b].phase \in {"waiting", "writing"}
    BY <1>1, <1>5
  <2>2. /\ attempts[b].request.conn \in Connected
        /\ attempts[b].narrowed
           \/ NeededScopes(Basket(attempts[b].request.selection))
                 \subseteq conns[attempts[b].request.conn].scopes
    BY <2>1 DEF AdmissionInv, Covered
  <2> QED
    BY <1>2, <1>5, <2>2
<1>8. AdmittedIsFresh'
  <2> SUFFICES ASSUME NEW b \in 1 .. Attempts,
                      attempts'[b].phase \in {"waiting", "writing", "offline"},
                      attempts'[b].project # None /\ ~attempts'[b].stale
               PROVE  attempts'[b].project = "live"
    BY DEF AdmittedIsFresh, Admitted
  <2>1. attempts[b].phase \in {"waiting", "writing", "offline"}
    BY <1>1, <1>5
  <2> QED
    BY <1>5, <2>1 DEF AdmissionInv, AdmittedIsFresh, Admitted
<1>9. RunsTold' /\ DegradedIsReal'
  BY <1>2, <1>3 DEF AdmissionInv, RunsTold, DegradedIsReal
<1>10. NodesSeen' /\ OneEntryEach'
  BY <1>3 DEF AdmissionInv, NodesSeen, OneEntryEach, Distinct
<1> QED
  BY <1>6, <1>7, <1>8, <1>9, <1>10 DEF AdmissionInv

\* A run is told of boards.
LEMMA BoardsAnswered ==
    ASSUME AdmissionInv, NEW c \in Conns, NEW answer \in Answers, AnswerBoards(c, answer)
    PROVE  AdmissionInv'
<1>1. /\ runs[c].phase = "listed"
      /\ answer = "BOARD_READ_SCOPE_MISSING" => BoardRead \notin conns[c].scopes
      /\ answer = "ok" => BoardRead \in conns[c].scopes \/ runs[c].raced
      /\ UNCHANGED <<conns, nodes, defs, jira, attempts, unseen, doubts>>
      /\ runs' = [runs EXCEPT ![c].phase = "sited", ![c].boards = answer]
  BY DEF AnswerBoards
<1>2. runs \in [Conns -> RunRecord]
  BY DEF AdmissionInv, Typed, RunRecord
<1> DEFINE x == [runs[c] EXCEPT !.phase = "sited", !.boards = answer]
<1>3. x \in RunRecord /\ x.phase = "sited" /\ x.boards = answer /\ x.raced = runs[c].raced
  <2>1. runs[c] \in RunRecord
    BY <1>2
  <2> QED
    BY <2>1, RunAnswered
<1>4. runs' = [runs EXCEPT ![c] = x]
  BY <1>1, <1>2
<1> HIDE DEF x
<1>5. runs' \in [Conns -> RunRecord] /\ runs'[c] = x
      /\ \A d \in Conns \ {c} : runs'[d] = runs[d]
  BY <1>2, <1>3, <1>4
<1>6. Typed'
  BY <1>1, <1>5 DEF AdmissionInv, Typed, RunRecord
<1>7. Covered' /\ NodesSeen' /\ AdmittedIsFresh' /\ OneEntryEach' /\ DegradedIsReal'
  BY <1>1 DEF AdmissionInv, Covered, NodesSeen, AdmittedIsFresh, Admitted, OneEntryEach, Distinct,
              DegradedIsReal, Connected
<1>8. RunsTold'
  BY <1>1, <1>3, <1>5 DEF AdmissionInv, RunsTold, Connected
<1> QED
  BY <1>6, <1>7, <1>8 DEF AdmissionInv

\* The end of a run: what the flag says is what the run was told, which is so
\* unless it raced or was not told.
LEMMA RunEnds ==
    ASSUME AdmissionInv, NEW c \in Conns, EndRun(c)
    PROVE  AdmissionInv'
<1>1. /\ runs[c].phase = "sited" /\ c \in Connected
      /\ ~runs[c].raced =>
            /\ runs[c].boards = "BOARD_READ_SCOPE_MISSING" => BoardRead \notin conns[c].scopes
            /\ runs[c].boards = "ok" => BoardRead \in conns[c].scopes
  BY DEF EndRun, AdmissionInv, RunsTold
<1> DEFINE flag == Raises(runs[c].boards)
           why == {w \in {"raced", "unanswered"} :
                      IF w = "raced" THEN runs[c].raced
                      ELSE runs[c].boards \in {"AUTH_ERROR", "failed"}}
<1>2. /\ conns' = [conns EXCEPT ![c].degraded = flag]
      /\ doubts' = [doubts EXCEPT ![c] = why]
      /\ runs' = [runs EXCEPT ![c] = NoRun]
      /\ UNCHANGED <<nodes, defs, jira, attempts, unseen>>
  BY DEF EndRun
<1>3. flag \in BOOLEAN /\ (flag <=> runs[c].boards = "BOARD_READ_SCOPE_MISSING")
  BY DEF Raises
<1>4. why \in SUBSET {"raced", "unanswered"} /\ ("raced" \in why <=> runs[c].raced)
      /\ ("unanswered" \in why <=> runs[c].boards \in {"AUTH_ERROR", "failed"})
  OBVIOUS
<1> HIDE DEF flag, why
<1>5. /\ conns' \in [Conns -> Connection \cup {None}]
      /\ Connected' = Connected
      /\ \A d \in Connected : conns'[d].scopes = conns[d].scopes
      /\ \A d \in Connected \ {c} : conns'[d] = conns[d]
      /\ conns'[c].degraded = flag
  <2>1. conns[c] \in Connection /\ conns'[c] = [conns[c] EXCEPT !.degraded = flag]
    BY <1>1, <1>2 DEF Connected, AdmissionInv, Typed
  <2>2. conns'[c].degraded = flag
    BY <2>1 DEF Connection
  <2> QED
    BY <1>1, <1>2, <1>3, <2>2, ConnectionKept DEF AdmissionInv, Typed
<1>6. runs' \in [Conns -> RunRecord] /\ runs'[c].phase = "idle"
      /\ \A d \in Conns \ {c} : runs'[d] = runs[d]
  <2>1. runs \in [Conns -> RunRecord]
    BY DEF AdmissionInv, Typed, RunRecord
  <2>2. NoRun \in RunRecord /\ NoRun.phase = "idle"
    BY <2>1, RunFields
  <2> QED
    BY <1>2, <2>1, <2>2
<1>7. doubts' \in [Conns -> SUBSET {"raced", "unanswered"}] /\ doubts'[c] = why
      /\ \A d \in Conns \ {c} : doubts'[d] = doubts[d]
  BY <1>2, <1>4 DEF AdmissionInv, Typed
<1>8. Typed'
  BY <1>2, <1>5, <1>6, <1>7 DEF AdmissionInv, Typed, RunRecord
<1>9. Covered'
  BY <1>2, <1>5, ScopesKept
<1>10. NodesSeen' /\ AdmittedIsFresh' /\ OneEntryEach'
  BY <1>2 DEF AdmissionInv, NodesSeen, AdmittedIsFresh, Admitted, OneEntryEach, Distinct
<1>11. RunsTold'
  BY <1>5, <1>6 DEF AdmissionInv, RunsTold, Connected
<1>12. DegradedIsReal'
  <2>1. runs[c].boards \in Answers
    BY <1>1 DEF AdmissionInv, RunsTold
  <2>2. ASSUME BoardRead \notin conns'[c].scopes, ~conns'[c].degraded PROVE doubts'[c] # {}
    <3>1. CASE runs[c].raced
      BY <1>4, <1>7, <3>1
    <3>2. CASE ~runs[c].raced
      <4>1. runs[c].boards # "BOARD_READ_SCOPE_MISSING" /\ runs[c].boards # "ok"
        BY <1>1, <1>3, <1>5, <2>2, <3>2
      <4>2. CASE runs[c].boards \in {"AUTH_ERROR", "failed"}
        BY <1>4, <1>7, <4>2
      <4> QED
        BY <2>1, <4>1, <4>2 DEF Answers
    <3> QED
      BY <3>1, <3>2
  <2>3. ASSUME BoardScopes \subseteq conns'[c].scopes, conns'[c].degraded
        PROVE  "raced" \in doubts'[c]
    BY <1>1, <1>3, <1>4, <1>5, <1>7, <2>3 DEF BoardScopes
  <2>4. ASSUME NEW d \in Connected \ {c}
        PROVE  /\ BoardRead \notin conns'[d].scopes /\ ~conns'[d].degraded => doubts'[d] # {}
               /\ BoardScopes \subseteq conns'[d].scopes /\ conns'[d].degraded
                     => "raced" \in doubts'[d]
    <3>1. d \in Conns \ {c}
      BY DEF Connected
    <3> QED
      BY <1>5, <1>7, <3>1 DEF AdmissionInv, DegradedIsReal
  <2>5. c \in Connected'
    BY <1>1, <1>5
  <2> QED
    BY <1>5, <2>2, <2>3, <2>4 DEF DegradedIsReal
<1> QED
  BY <1>8, <1>9, <1>10, <1>11, <1>12 DEF AdmissionInv

\* Time passes for a token.
LEMMA Ages ==
    ASSUME AdmissionInv, NEW c \in Conns, NEW to \in 0 .. 1, Age(c, to)
    PROVE  AdmissionInv'
<1>1. /\ conns' \in [Conns -> Connection \cup {None}]
      /\ Connected' = Connected
      /\ \A d \in Connected : conns'[d].scopes = conns[d].scopes
      /\ \A d \in Connected : conns'[d].degraded = conns[d].degraded
  <2>1. c \in Connected /\ to \in 0 .. 2 /\ conns' = [conns EXCEPT ![c].life = to]
    BY DEF Age, Connected
  <2> QED
    BY <2>1, NewLife DEF AdmissionInv, Typed
<1>2. UNCHANGED <<nodes, defs, jira, runs, attempts, unseen, doubts>>
  BY DEF Age
<1>3. Covered'
  BY <1>1, <1>2, ScopesKept
<1>4. RunsTold' /\ DegradedIsReal'
  BY <1>1, <1>2 DEF AdmissionInv, RunsTold, DegradedIsReal
<1> QED
  BY <1>1, <1>2, <1>3, <1>4
  DEF AdmissionInv, Typed, NodesSeen, AdmittedIsFresh, Admitted, OneEntryEach, Distinct

\* A run that fails, with or without an answer.
LEMMA RunFails ==
    ASSUME AdmissionInv, NEW c \in Conns, FailRun(c)
    PROVE  AdmissionInv'
<1>1. /\ runs' = [runs EXCEPT ![c] = NoRun]
      /\ UNCHANGED <<conns, nodes, defs, jira, attempts, unseen, doubts>>
  BY DEF FailRun
<1>2. runs' \in [Conns -> RunRecord] /\ runs'[c].phase = "idle"
      /\ \A d \in Conns \ {c} : runs'[d] = runs[d]
  <2>1. runs \in [Conns -> RunRecord]
    BY DEF AdmissionInv, Typed, RunRecord
  <2>2. NoRun \in RunRecord /\ NoRun.phase = "idle"
    BY <2>1, RunFields
  <2> QED
    BY <1>1, <2>1, <2>2
<1>3. RunsTold'
  BY <1>1, <1>2 DEF AdmissionInv, RunsTold, Connected
<1> QED
  BY <1>1, <1>2, <1>3
  DEF AdmissionInv, Typed, RunRecord, Covered, NodesSeen, AdmittedIsFresh, Admitted, OneEntryEach,
      Distinct, DegradedIsReal, Connected

\* A project that changes is unseen by the connections of its site.
LEMMA ProjectChanges ==
    ASSUME AdmissionInv, NEW site \in Sites, NEW key \in Keys, NEW to \in States,
           ChangeProject(site, key, to)
    PROVE  AdmissionInv'
<1>1. /\ jira' = [jira EXCEPT !.projects[site][key] = to]
      /\ unseen' = unseen \cup {<<c, key>> : c \in {d \in Conns : SiteOf[d] = site}}
      /\ UNCHANGED <<conns, nodes, defs, runs, attempts, doubts>>
  BY DEF ChangeProject
<1>2. /\ DOMAIN jira' = {"projects", "names"} /\ jira'.names = jira.names
      /\ jira'.projects \in [Sites -> [Keys -> States]]
      /\ \A s \in Sites, k \in Keys :
            <<s, k>> # <<site, key>> => jira'.projects[s][k] = jira.projects[s][k]
  <2>1. /\ DOMAIN jira = {"projects", "names"}
        /\ jira.projects \in [Sites -> [Keys -> States]]
    BY DEF AdmissionInv, Typed
  <2>2. /\ DOMAIN jira' = {"projects", "names"} /\ jira'.names = jira.names
        /\ jira'.projects = [jira.projects EXCEPT ![site] = [jira.projects[site] EXCEPT ![key] = to]]
    BY <1>1, <2>1
  <2> QED
    BY <2>1, <2>2
<1>3. Typed'
  BY <1>1, <1>2 DEF AdmissionInv, Typed
<1>4. NodesSeen'
  <2> SUFFICES ASSUME NEW k \in DOMAIN nodes, <<nodes[k].conn, nodes[k].key>> \notin unseen'
               PROVE  jira'.projects[SiteOf[nodes[k].conn]][nodes[k].key] =
                        IF nodes[k].archived THEN "archived" ELSE "live"
    BY <1>1 DEF NodesSeen
  <2>1. nodes[k] \in Node
    BY DEF AdmissionInv, Typed
  <2>2. nodes[k].conn \in Conns /\ nodes[k].key \in Keys /\ SiteOf[nodes[k].conn] \in Sites
    BY <2>1 DEF Node, Conns
  <2>3. <<nodes[k].conn, nodes[k].key>> \notin unseen
    BY <1>1
  <2>4. <<SiteOf[nodes[k].conn], nodes[k].key>> # <<site, key>>
    BY <1>1, <2>2
  <2> QED
    BY <1>2, <2>2, <2>3, <2>4 DEF AdmissionInv, NodesSeen
<1> QED
  BY <1>1, <1>3, <1>4
  DEF AdmissionInv, Covered, AdmittedIsFresh, Admitted, OneEntryEach, Distinct, RunsTold,
      DegradedIsReal, Connected

\* The names of fields in Jira are not what the checks look at.
LEMMA FieldRenamed ==
    ASSUME AdmissionInv, NEW site \in Sites, NEW id \in DOMAIN jira.names[site],
           NEW name \in NewNames, RenameField(site, id, name)
    PROVE  AdmissionInv'
<1>1. /\ jira' = [jira EXCEPT !.names[site][id] = name]
      /\ UNCHANGED <<conns, nodes, defs, runs, attempts, unseen, doubts>>
  BY DEF RenameField
<1>2. /\ DOMAIN jira = {"projects", "names"} /\ DOMAIN jira.names = Sites
      /\ \A s \in Sites : jira.names[s] \in [DOMAIN SiteFields[s] -> STRING]
  BY DEF AdmissionInv, Typed
<1>3. /\ DOMAIN jira' = {"projects", "names"} /\ jira'.projects = jira.projects
      /\ DOMAIN jira'.names = Sites
      /\ jira'.names[site] = [jira.names[site] EXCEPT ![id] = name]
      /\ \A s \in Sites \ {site} : jira'.names[s] = jira.names[s]
  BY <1>1, <1>2
<1>4. name \in STRING /\ jira'.names[site] \in [DOMAIN SiteFields[site] -> STRING]
  BY <1>2, <1>3
<1>5. Typed'
  BY <1>1, <1>2, <1>3, <1>4 DEF AdmissionInv, Typed
<1> QED
  BY <1>1, <1>3, <1>5
  DEF AdmissionInv, Covered, NodesSeen, AdmittedIsFresh, Admitted, OneEntryEach, Distinct, RunsTold,
      DegradedIsReal, Connected

\* The values of a function over a finite set.
LEMMA ValuesFinite ==
    ASSUME NEW S, IsFiniteSet(S), NEW f, DOMAIN f = S
    PROVE  IsFiniteSet({f[x] : x \in S})
<1> DEFINE T == {f[x] : x \in S}
           g == [x \in S |-> f[x]]
<1>1. g \in [S -> T] /\ \A y \in T : \E x \in S : g[x] = y
  OBVIOUS
<1> HIDE DEF g, T
<1>2. g \in Surjection(S, T)
  BY <1>1 DEF Surjection
<1>3. IsFiniteSet(T)
  BY <1>2, FS_Surjection
<1> QED
  BY <1>3 DEF T

\* A listing sets the entries of what is there, which are seen from now on; the
\* entries of what is not stay as they were.
LEMMA SiteListed ==
    ASSUME AdmissionInv, NEW c \in Conns, NEW archivedToo \in BOOLEAN, ListSite(c, archivedToo)
    PROVE  AdmissionInv'
<1> DEFINE site == SiteOf[c]
           listed == IF archivedToo THEN {"live", "archived"} ELSE {"live"}
           there == {k \in Keys : jira.projects[site][k] \in listed}
           node == [k \in there |-> [conn |-> c, key |-> k,
                                    archived |-> jira.projects[site][k] = "archived"]]
           def == [i \in DOMAIN jira.names[site] |->
                     [site |-> site, id |-> i, name |-> jira.names[site][i]]]
           found == {node[k] : k \in there}
           fields == {def[i] : i \in DOMAIN jira.names[site]}
<1>1. /\ c \in Connected /\ runs[c].phase = "idle"
      /\ conns' = [conns EXCEPT ![c].life = 2]
      /\ unseen' = unseen \ {<<c, k>> : k \in there}
      /\ runs' = [runs EXCEPT ![c] = [NoRun EXCEPT !.phase = "listed"]]
      /\ UNCHANGED <<jira, attempts, doubts>>
  BY DEF ListSite, Connected
<1>2. nodes' = SetAll(nodes, found, NodeKey)
  <2>1. found = {[conn |-> c, key |-> k,
                  archived |-> jira.projects[site][k] = "archived"] : k \in there}
    OBVIOUS
  <2> HIDE DEF found
  <2> QED
    BY <2>1 DEF ListSite
<1>3. defs' = SetAll(defs, fields, DefKey)
  <2>1. fields = {[site |-> site, id |-> i, name |-> jira.names[site][i]] :
                    i \in DOMAIN jira.names[site]}
    OBVIOUS
  <2> HIDE DEF fields
  <2> QED
    BY <2>1 DEF ListSite
<1>4. site \in Sites
  BY DEF Conns
<1>5. /\ found \in SUBSET Node /\ IsFiniteSet(found)
      /\ \A k \in there : node[k] \in found
      /\ \A e \in found : /\ e.conn = c /\ e.key \in there
                          /\ jira.projects[site][e.key] =
                                IF e.archived THEN "archived" ELSE "live"
  <2>1. \A k \in there : node[k] \in Node /\ node[k].conn = c /\ node[k].key = k
    BY DEF Node
  <2>2. \A k \in there : jira.projects[site][k] \in {"live", "archived"}
    OBVIOUS
  <2>3. IsFiniteSet(there) /\ DOMAIN node = there
    BY FS_Subset
  <2>4. IsFiniteSet(found)
    <3> HIDE DEF there, node
    <3> QED
      BY <2>3, ValuesFinite
  <2>5. \A k \in there : jira.projects[site][k] =
                            IF node[k].archived THEN "archived" ELSE "live"
    <3>1. \A k \in there : node[k].archived = (jira.projects[site][k] = "archived")
      OBVIOUS
    <3> QED
      BY <2>2, <3>1
  <2>6. \A e \in found : \E k \in there : e = node[k]
    <3> HIDE DEF there, node
    <3> QED
      OBVIOUS
  <2>7. \A k \in there : node[k] \in found
    <3> HIDE DEF there, node
    <3> QED
      OBVIOUS
  <2> HIDE DEF there, node, found, site
  <2>8. \A e \in found : e \in Node
    BY <2>1, <2>6
  <2>9. ASSUME NEW e \in found
        PROVE  /\ e.conn = c /\ e.key \in there
               /\ jira.projects[site][e.key] = IF e.archived THEN "archived" ELSE "live"
    <3>1. PICK k \in there : e = node[k]
      BY <2>6
    <3>2. e.key = k /\ e.conn = c
      BY <2>1, <3>1
    <3> QED
      BY <2>5, <3>1, <3>2
  <2> QED
    BY <2>4, <2>7, <2>8, <2>9
<1>6. /\ fields \in SUBSET Def /\ IsFiniteSet(fields)
      /\ \A e, f \in fields : SameKey(e, f, DefKey) => e = f
  <2>1. /\ jira.names[site] \in [DOMAIN SiteFields[site] -> STRING]
        /\ DOMAIN jira.names[site] \subseteq STRING /\ IsFiniteSet(DOMAIN jira.names[site])
    BY <1>4 DEF AdmissionInv, Typed
  <2>2. \A i \in DOMAIN jira.names[site] : def[i] \in Def /\ def[i].id = i
    BY <1>4, <2>1 DEF Def
  <2>3. DOMAIN def = DOMAIN jira.names[site]
    OBVIOUS
  <2>4. IsFiniteSet(fields)
    <3> HIDE DEF def
    <3> QED
      BY <2>1, <2>3, ValuesFinite
  <2>5. \A e, f : SameKey(e, f, DefKey) => e.id = f.id
    BY DEF SameKey, DefKey
  <2> HIDE DEF def
  <2> QED
    BY <2>2, <2>4, <2>5
<1> HIDE DEF there, node, def, found, fields
<1>7. /\ nodes \in Seq(Node) /\ defs \in Seq(Def) /\ Distinct(defs, DefKey)
  BY DEF AdmissionInv, Typed, OneEntryEach
<1>8. /\ nodes' \in Seq(Node)
      /\ \A k \in DOMAIN nodes' :
            \/ nodes'[k] \in found
            \/ \E j \in DOMAIN nodes : /\ nodes'[k] = nodes[j]
                                      /\ \A e \in found : ~SameKey(e, nodes[j], NodeKey)
  BY <1>2, <1>5, <1>7, SetAllIs
<1>9. defs' \in Seq(Def) /\ Distinct(defs', DefKey)
  BY <1>3, <1>6, <1>7, SetAllIs
<1>10. /\ conns' \in [Conns -> Connection \cup {None}]
       /\ Connected' = Connected
       /\ \A d \in Connected : conns'[d].scopes = conns[d].scopes
       /\ \A d \in Connected : conns'[d].degraded = conns[d].degraded
  <2>1. conns \in [Conns -> Connection \cup {None}] /\ 2 \in 0 .. 2
    BY DEF AdmissionInv, Typed
  <2> QED
    BY <1>1, <2>1, NewLife
<1>11. runs' \in [Conns -> RunRecord] /\ runs'[c].phase = "listed"
       /\ \A d \in Conns \ {c} : runs'[d] = runs[d]
  <2>1. runs \in [Conns -> RunRecord]
    BY DEF AdmissionInv, Typed, RunRecord
  <2>2. PICK x \in RunRecord : x = [NoRun EXCEPT !.phase = "listed"] /\ x.phase = "listed"
    BY <2>1, RunFields
  <2> QED
    BY <1>1, <2>1, <2>2
<1>12. Typed'
  BY <1>1, <1>8, <1>9, <1>10, <1>11 DEF AdmissionInv, Typed, RunRecord
<1>13. NodesSeen'
  <2> SUFFICES ASSUME NEW k \in DOMAIN nodes', <<nodes'[k].conn, nodes'[k].key>> \notin unseen'
               PROVE  jira.projects[SiteOf[nodes'[k].conn]][nodes'[k].key] =
                        IF nodes'[k].archived THEN "archived" ELSE "live"
    BY <1>1 DEF NodesSeen
  <2>1. CASE nodes'[k] \in found
    BY <1>5, <2>1
  <2>2. ASSUME NEW j \in DOMAIN nodes, nodes'[k] = nodes[j],
               \A e \in found : ~SameKey(e, nodes[j], NodeKey)
        PROVE  jira.projects[SiteOf[nodes'[k].conn]][nodes'[k].key] =
                 IF nodes'[k].archived THEN "archived" ELSE "live"
    <3>1. CASE nodes[j].conn = c /\ nodes[j].key \in there
      <4>1. /\ node[nodes[j].key] \in found /\ node[nodes[j].key].conn = c
            /\ node[nodes[j].key].key = nodes[j].key
        BY <1>5, <3>1 DEF node
      <4>2. SameKey(node[nodes[j].key], nodes[j], NodeKey)
        BY <3>1, <4>1 DEF SameKey, NodeKey
      <4> QED
        BY <2>2, <4>1, <4>2
    <3>2. CASE ~(nodes[j].conn = c /\ nodes[j].key \in there)
      <4>1. <<nodes[j].conn, nodes[j].key>> \notin {<<c, k2>> : k2 \in there}
        BY <3>2
      <4>2. <<nodes[j].conn, nodes[j].key>> \notin unseen
        BY <1>1, <2>2, <4>1
      <4> QED
        BY <2>2, <4>2 DEF AdmissionInv, NodesSeen
    <3> QED
      BY <3>1, <3>2
  <2> QED
    BY <1>8, <2>1, <2>2
<1>14. RunsTold'
  <2> SUFFICES ASSUME NEW d \in Conns, runs'[d].phase # "idle"
               PROVE  /\ d \in Connected'
                      /\ runs'[d].phase = "sited" => runs'[d].boards \in Answers
                      /\ runs'[d].phase = "sited" /\ ~runs'[d].raced =>
                            /\ runs'[d].boards = "BOARD_READ_SCOPE_MISSING"
                                  => BoardRead \notin conns'[d].scopes
                            /\ runs'[d].boards = "ok" => BoardRead \in conns'[d].scopes
    BY DEF RunsTold
  <2>1. CASE d = c
    BY <1>1, <1>10, <1>11, <2>1
  <2>2. CASE d # c
    BY <1>10, <1>11, <2>2 DEF AdmissionInv, RunsTold
  <2> QED
    BY <2>1, <2>2
<1>15. Covered'
  BY <1>1, <1>10, ScopesKept
<1>16. AdmittedIsFresh' /\ OneEntryEach' /\ DegradedIsReal'
  BY <1>1, <1>9, <1>10 DEF AdmissionInv, AdmittedIsFresh, Admitted, OneEntryEach, DegradedIsReal
<1> QED
  BY <1>12, <1>13, <1>14, <1>15, <1>16 DEF AdmissionInv

-----------------------------------------------------------------------------
\* NodeOf finds an entry of that project at that site.
LEMMA NodeFound ==
    ASSUME nodes \in Seq(Node), NEW site, NEW key, NodeOf(site, key) # 0
    PROVE  /\ NodeOf(site, key) \in DOMAIN nodes
           /\ nodes[NodeOf(site, key)].key = key
           /\ SiteOf[nodes[NodeOf(site, key)].conn] = site
<1> DEFINE ns == {k \in 1 .. Len(nodes) : nodes[k].key = key /\ SiteOf[nodes[k].conn] = site}
<1>1. NodeOf(site, key) = IF ns # {} THEN Min(ns) ELSE 0
  BY DEF NodeOf, SelectInSeq
<1>2. ns \in SUBSET Nat /\ DOMAIN nodes = 1 .. Len(nodes)
  OBVIOUS
<1>3. ns # {} => Min(ns) \in ns
  <2> HIDE DEF ns
  <2> QED
    BY <1>2, MinIs
<1>4. NodeOf(site, key) \in ns
  BY <1>1, <1>3
<1> QED
  BY <1>2, <1>4

\* A request that is not refused passed the checks of scopes and of the project.
LEMMA ChecksPassed ==
    ASSUME NEW r, NEW basket, Refusal(r, basket) = None
    PROVE  ScopesGranted(TargetSite(r), r.conn, basket) /\ ~ProjectArchived(r)
<1> DEFINE site == TargetSite(r)
           boards == Types(basket) \cap {"board", "sprint"} # {}
           checks == << [id |-> "OAUTH_TOKEN_VALIDITY", ok |-> TokenValid(site)],
                        [id |-> "GRANTED_SCOPES",
                         ok |-> ScopesGranted(site, r.conn, basket)],
                        [id |-> "TARGET_PROJECT_EXISTENCE", ok |-> ProjectExists(r)],
                        [id |-> "TARGET_PROJECT_ARCHIVE_STATUS",
                         ok |-> ~ProjectArchived(r)],
                        [id |-> "JIRA_SOFTWARE_ACTIVE",
                         ok |-> boards => SoftwareActive(site)] >>
           bad == {k \in 1 .. Len(checks) : ~checks[k].ok}
           failed == IF bad # {} THEN Min(bad) ELSE 0
<1>1. Refusal(r, basket) = IF failed = 0 THEN None ELSE checks[failed].id
  BY DEF Refusal, SelectInSeq
<1>2. Len(checks) = 5 /\ bad \in SUBSET (1 .. 5)
  OBVIOUS
<1>3. \A k \in 1 .. 5 : checks[k].id \in CheckIds
  BY DEF CheckIds
<1>4. checks[2].ok = ScopesGranted(site, r.conn, basket) /\ checks[4].ok = ~ProjectArchived(r)
  OBVIOUS
<1>5. bad = {}
  <2> SUFFICES ASSUME bad # {} PROVE FALSE
    OBVIOUS
  <2>1. Min(bad) \in bad
    <3> HIDE DEF bad
    <3>1. bad \in SUBSET Nat
      BY <1>2
    <3> QED
      BY <3>1, MinIs
  <2>2. failed = Min(bad)
    OBVIOUS
  <2> HIDE DEF bad, checks, failed
  <2>3. failed \in 1 .. 5
    BY <1>2, <2>1, <2>2
  <2>4. failed # 0
    BY <2>3
  <2>5. checks[failed].id \in CheckIds
    BY <1>3, <2>3
  <2> QED
    BY <1>1, <2>4, <2>5
<1>6. checks[2].ok /\ checks[4].ok
  <2>1. \A k \in 1 .. Len(checks) : checks[k].ok
    BY <1>5
  <2> HIDE DEF bad, checks
  <2> QED
    BY <1>2, <2>1
<1> QED
  BY <1>4, <1>6

\* A request that is admitted has the scopes of its connection, and a project
\* that is there and not archived as far as the entry looked at tells.
LEMMA Initiates ==
    ASSUME AdmissionInv, NEW a \in 1 .. Attempts, NEW r \in Requests, Initiate(a, r)
    PROVE  AdmissionInv'
<1> DEFINE basket == Basket(r.selection)
           site == TargetSite(r)
           refusal == Refusal(r, basket)
           node == NodeOf(site, r.key)
           phase == IF refusal # None THEN "refused"
                    ELSE IF r.dest = "export" \/ r.conn = None THEN "offline"
                    ELSE "waiting"
           map == IF refusal = None THEN MapFor(r, basket, MapsFields(r)) ELSE <<>>
           project == IF node = 0 THEN None ELSE jira.projects[site][r.key]
           stale == node # 0 /\ <<nodes[node].conn, r.key>> \in unseen
           new == [phase |-> phase, request |-> r, refusal |-> refusal, map |-> map,
                   warnings |-> Warnings(site, basket), project |-> project,
                   stale |-> stale, narrowed |-> FALSE]
<1>1. /\ r.conn \in Connected \cup {None}
      /\ attempts' = [attempts EXCEPT ![a] = new]
      /\ UNCHANGED <<conns, nodes, defs, jira, runs, unseen, doubts>>
  BY DEF Initiate
<1>2. phase \in Phases /\ phase # "writing"
      /\ (phase \in {"waiting", "offline"} => refusal = None)
      /\ (phase = "waiting" => r.conn # None)
  <2> HIDE DEF refusal
  <2>1. CASE refusal # None
    <3>1. phase = "refused"
      BY <2>1
    <3> QED
      BY <3>1 DEF Phases
  <2>2. CASE refusal = None /\ (r.dest = "export" \/ r.conn = None)
    <3>1. phase = "offline"
      BY <2>2
    <3> QED
      BY <2>2, <3>1 DEF Phases
  <2>3. CASE refusal = None /\ ~(r.dest = "export" \/ r.conn = None)
    <3>1. phase = "waiting"
      BY <2>3
    <3> QED
      BY <2>3, <3>1 DEF Phases
  <2> QED
    BY <2>1, <2>2, <2>3
<1>3. phase = "waiting" => r.conn \in Connected
                           /\ NeededScopes(basket) \subseteq conns[r.conn].scopes
  <2> SUFFICES ASSUME phase = "waiting"
               PROVE  r.conn \in Connected /\ NeededScopes(basket) \subseteq conns[r.conn].scopes
    OBVIOUS
  <2>1. r.conn \in Connected /\ refusal = None
    BY <1>1, <1>2
  <2>2. ScopesGranted(site, r.conn, basket)
    BY <2>1, ChecksPassed
  <2>3. ScopesHeld(site, r.conn) = {r.conn}
    BY <2>1 DEF ScopesHeld
  <2> HIDE DEF site, basket
  <2> QED
    BY <2>1, <2>2, <2>3 DEF ScopesGranted
<1>4. phase \in {"waiting", "offline"} /\ project # None /\ ~stale => project = "live"
  <2> SUFFICES ASSUME phase \in {"waiting", "offline"}, project # None, ~stale
               PROVE  project = "live"
    OBVIOUS
  <2>1. node # 0 /\ project = jira.projects[site][r.key]
    OBVIOUS
  <2>2. <<nodes[node].conn, r.key>> \notin unseen
    BY <2>1
  <2>3. node \in DOMAIN nodes /\ nodes[node].key = r.key /\ SiteOf[nodes[node].conn] = site
    BY <2>1, NodeFound DEF AdmissionInv, Typed
  <2>4. ~nodes[node].archived
    <3>1. refusal = None
      BY <1>2
    <3>2. ~ProjectArchived(r)
      BY <3>1, ChecksPassed
    <3> QED
      BY <2>1, <3>2 DEF ProjectArchived
  <2> HIDE DEF node, site, project, stale, phase
  <2> QED
    BY <2>1, <2>2, <2>3, <2>4 DEF AdmissionInv, NodesSeen
<1>5. /\ IsAttempt(new) /\ new.phase = phase /\ new.request = r
      /\ new.project = project /\ new.stale = stale
  <2> HIDE DEF phase, map, project, stale, refusal
  <2> QED
    BY <1>2 DEF IsAttempt
<1> HIDE DEF new
<1>6. /\ DOMAIN attempts' = 1 .. Attempts /\ attempts'[a] = new
      /\ \A b \in (1 .. Attempts) \ {a} : attempts'[b] = attempts[b]
  BY <1>1 DEF AdmissionInv, Typed
<1>7. Typed'
  BY <1>1, <1>5, <1>6 DEF AdmissionInv, Typed
<1> HIDE DEF phase, project, stale
<1>8. Covered'
  <2> SUFFICES ASSUME NEW b \in 1 .. Attempts, attempts'[b].phase \in {"waiting", "writing"}
               PROVE  /\ attempts'[b].request.conn \in Connected
                      /\ attempts'[b].narrowed
                         \/ NeededScopes(Basket(attempts'[b].request.selection))
                               \subseteq conns[attempts'[b].request.conn].scopes
    BY <1>1 DEF Covered, Connected
  <2>1. CASE b = a
    BY <1>2, <1>3, <1>5, <1>6, <2>1
  <2>2. CASE b # a
    BY <1>6, <2>2 DEF AdmissionInv, Covered
  <2> QED
    BY <2>1, <2>2
<1>9. AdmittedIsFresh'
  <2> SUFFICES ASSUME NEW b \in 1 .. Attempts,
                      attempts'[b].phase \in {"waiting", "writing", "offline"},
                      attempts'[b].project # None /\ ~attempts'[b].stale
               PROVE  attempts'[b].project = "live"
    BY DEF AdmittedIsFresh, Admitted
  <2>1. CASE b = a
    BY <1>2, <1>4, <1>5, <1>6, <2>1
  <2>2. CASE b # a
    BY <1>6, <2>2 DEF AdmissionInv, AdmittedIsFresh, Admitted
  <2> QED
    BY <2>1, <2>2
<1>10. NodesSeen' /\ OneEntryEach' /\ RunsTold' /\ DegradedIsReal'
  BY <1>1 DEF AdmissionInv, NodesSeen, OneEntryEach, Distinct, RunsTold, DegradedIsReal, Connected
<1> QED
  BY <1>7, <1>8, <1>9, <1>10 DEF AdmissionInv

\* Every step keeps the invariant.
LEMMA InvNext == AdmissionInv /\ [AdmissionNext]_admissionVars => AdmissionInv'
<1> SUFFICES ASSUME AdmissionInv, [AdmissionNext]_admissionVars PROVE AdmissionInv'
  OBVIOUS
<1>1. ASSUME NEW c \in Conns, NEW u \in Ungranted, Consent(c, Scopes \ u) PROVE AdmissionInv'
  BY <1>1, Consents
<1>2. ASSUME NEW c \in Conns, NEW to \in 0 .. 1, Age(c, to) PROVE AdmissionInv'
  BY <1>2, Ages
<1>3. ASSUME NEW c \in Conns, NEW archivedToo \in BOOLEAN, ListSite(c, archivedToo) PROVE AdmissionInv'
  BY <1>3, SiteListed
<1>4. ASSUME NEW c \in Conns, NEW answer \in Answers, AnswerBoards(c, answer) PROVE AdmissionInv'
  BY <1>4, BoardsAnswered
<1>5. ASSUME NEW c \in Conns, EndRun(c) PROVE AdmissionInv'
  BY <1>5, RunEnds
<1>6. ASSUME NEW c \in Conns, FailRun(c) PROVE AdmissionInv'
  BY <1>6, RunFails
<1>7. ASSUME NEW s \in Sites, NEW k \in Keys, NEW to \in States, ChangeProject(s, k, to)
      PROVE  AdmissionInv'
  BY <1>7, ProjectChanges
<1>8. ASSUME NEW s \in Sites, NEW i \in DOMAIN jira.names[s], NEW n \in NewNames,
             RenameField(s, i, n)
      PROVE  AdmissionInv'
  BY <1>8, FieldRenamed
<1>9. ASSUME NEW a \in 1 .. Attempts, NEW r \in Requests, Initiate(a, r) PROVE AdmissionInv'
  BY <1>9, Initiates
<1>10. ASSUME NEW a \in 1 .. Attempts, NEW refreshed \in BOOLEAN, GetToken(a, refreshed)
       PROVE  AdmissionInv'
  BY <1>10, Refreshes
<1>11. CASE UNCHANGED admissionVars
  BY <1>11 DEF admissionVars, AdmissionInv, Typed, Covered, NodesSeen, AdmittedIsFresh, Admitted, OneEntryEach,
               Distinct, RunsTold, DegradedIsReal, Connected
<1> QED
  BY <1>1, <1>2, <1>3, <1>4, <1>5, <1>6, <1>7, <1>8, <1>9, <1>10, <1>11
  DEF AdmissionNext, Answers, States

LEMMA Invariant == AdmissionSpec => []AdmissionInv
<1> QED
  BY AdmissionInvInit, InvNext, PTL DEF AdmissionSpec

-----------------------------------------------------------------------------
(* The theorems *)

\* Whoever writes holds the scopes of what he writes, unless he consented to
\* less than that since the checks (restoreOrchestrator.js, validationPipeline.js).
THEOREM WritersHoldScopes == AdmissionSpec => []ScopesCoverWrites
<1>1. AdmissionInv => ScopesCoverWrites
  BY DEF AdmissionInv, Covered, ScopesCoverWrites
<1> QED
  BY <1>1, Invariant, PTL

\* An admitted restore into a project that did not change since it was listed
\* finds it live, for any number of sites, connections and projects.
THEOREM AdmittedProjectsLive == AdmissionSpec => []AdmittedIsFresh
<1>1. AdmissionInv => AdmittedIsFresh
  BY DEF AdmissionInv
<1> QED
  BY <1>1, Invariant, PTL

\* The degraded flag is what the scopes say, but for the races it records.
THEOREM FlagsReal == AdmissionSpec => []DegradedIsReal
<1>1. AdmissionInv => DegradedIsReal
  BY DEF AdmissionInv
<1> QED
  BY <1>1, Invariant, PTL

\* A mapped field had its name on the target, up to case, and only one without a namesake
\* is left out: what it needs is that a site has one entry of each field.
THEOREM MapsByName == AdmissionSpec => []MapKeepsNames
<1>1. AdmissionInv => MapKeepsNames
  <2> SUFFICES ASSUME AdmissionInv, defs # <<>>, NEW source \in Sites, NEW target \in Sites,
                      NEW id \in DOMAIN SiteFields[source]
               PROVE  LET map == FieldMap(source, target, {id})
                          namesakes == UNION {Named(target, n) : n \in NameIn(source, id)}
                      IN  /\ id \in DOMAIN map => map[id] \in namesakes
                          /\ id \notin DOMAIN map => namesakes = {}
    BY DEF MapKeepsNames
  <2> DEFINE From(i) == {k \in 1 .. Len(defs) : defs[k].site = source /\ defs[k].id = i}
             held(i) == IF From(i) # {} THEN Max(From(i)) ELSE 0
             To(i) == {k \in 1 .. Len(defs) :
                         defs[k].site = target
                         /\ LowerCase[defs[k].name] = LowerCase[defs[held(i)].name]}
             last(i) == IF To(i) # {} THEN Max(To(i)) ELSE 0
             found == {i \in {id} : held(i) # 0 /\ last(i) # 0}
             map == FieldMap(source, target, {id})
             namesakes == UNION {Named(target, n) : n \in NameIn(source, id)}
  <2>1. map = [i \in found |-> defs[last(i)].id]
    BY DEF FieldMap, SelectLastInSeq
  <2>2. /\ DOMAIN map = found
        /\ id \in found <=> held(id) # 0 /\ last(id) # 0
        /\ id \in found => map[id] = defs[last(id)].id
    BY <2>1
  <2>3. /\ Len(defs) \in Nat /\ DOMAIN defs = 1 .. Len(defs)
        /\ ToSet(defs) = {defs[k] : k \in 1 .. Len(defs)}
        /\ \A j, k \in 1 .. Len(defs) :
              defs[j].site = defs[k].site /\ defs[j].id = defs[k].id => j = k
    BY DEF AdmissionInv, Typed, OneEntryEach, Distinct, SameKey, DefKey, ToSet
  <2>4. From(id) # {} => held(id) \in From(id)
    BY <2>3, MaxIs
  <2>5. To(id) # {} => last(id) \in To(id)
    BY <2>3, MaxIs
  <2>6. namesakes = {n \in {defs[k].id : k \in To(id)} : From(id) # {}}
    <3>1. NameIn(source, id) = {defs[k].name : k \in From(id)}
      BY <2>3 DEF NameIn
    <3>2. \A n : Named(target, n) = {defs[k].id : k \in {j \in 1 .. Len(defs) :
                                       defs[j].site = target
                                       /\ LowerCase[defs[j].name] = LowerCase[n]}}
      BY <2>3 DEF Named
    <3>3. CASE From(id) = {}
      BY <3>1, <3>3
    <3>4. CASE From(id) # {}
      <4>1. From(id) = {held(id)}
        BY <2>3, <2>4, <3>4
      <4>2. NameIn(source, id) = {defs[held(id)].name}
        BY <3>1, <4>1
      <4>3. Named(target, defs[held(id)].name) = {defs[k].id : k \in To(id)}
        BY <3>2
      <4> QED
        BY <3>4, <4>2, <4>3
    <3> QED
      BY <3>3, <3>4
  <2>7. (held(id) # 0 <=> From(id) # {}) /\ (last(id) # 0 <=> To(id) # {})
    <3>1. \A k \in From(id) : k # 0
      BY <2>3
    <3>2. \A k \in To(id) : k # 0
      BY <2>3
    <3>3. From(id) = {} => held(id) = 0
      OBVIOUS
    <3>4. To(id) = {} => last(id) = 0
      OBVIOUS
    <3> HIDE DEF From, To, held, last
    <3> QED
      BY <2>4, <2>5, <3>1, <3>2, <3>3, <3>4
  <2> HIDE DEF From, To, held, last, map, namesakes
  <2>8. id \in DOMAIN map => map[id] \in namesakes
    <3> SUFFICES ASSUME id \in DOMAIN map PROVE map[id] \in namesakes
      OBVIOUS
    <3>1. From(id) # {} /\ To(id) # {} /\ map[id] = defs[last(id)].id
      BY <2>2, <2>7
    <3>2. last(id) \in To(id)
      BY <2>5, <3>1
    <3> QED
      BY <2>6, <3>1, <3>2
  <2>9. id \notin DOMAIN map => namesakes = {}
    <3> SUFFICES ASSUME id \notin DOMAIN map PROVE namesakes = {}
      OBVIOUS
    <3>1. From(id) = {} \/ To(id) = {}
      BY <2>2, <2>7
    <3> QED
      BY <2>6, <3>1
  <2> QED
    BY <2>8, <2>9 DEF map, namesakes
<1> QED
  BY <1>1, Invariant, PTL
=============================================================================
