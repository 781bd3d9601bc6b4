---------------------------- MODULE StoreProofs ----------------------------
(***************************************************************************)
(* The store and what is saved of the scans: Persistence and SdiScans.     *)
(*                                                                         *)
(* Persistence implements SnapshotStore, for any records and any number of *)
(* failures.  The invariant needed is that db.json is never torn and that  *)
(* what is about to be renamed is the store as it is in memory: then a     *)
(* rename is the abstract Save, and a start the abstract Restart or Forget.*)
(*                                                                         *)
(* SdiScans, for any points and bounds: the result that is surfaced for a  *)
(* point is that of its newest request.  A scan that was superseded and    *)
(* runs late becomes a current one again, so it is not that the current    *)
(* scan is the only one; it is that each superseded scan has a later one   *)
(* that is current, and later scans do not start earlier.                  *)
(***************************************************************************)
EXTENDS Persistence, SdiScans, SequenceTheorems, WellFoundedInduction, TLAPS

StoreInv == StoreTypeOK /\ WholeBeforeRename

\* What a file may be: cited for the equality of files by their fields.
LEMMA FileCases ==
    ASSUME NEW f \in File
    PROVE  /\ f.holds \in SUBSET Records
           /\ f.is \in {"whole", "absent", "torn"}
  BY DEF File

\* The files the actions write are files.
LEMMA FilesMade ==
    /\ NoFile \in File /\ NoFile # Torn /\ Torn \in File
    /\ \A s \in SUBSET Records : Whole(s) \in File /\ Whole(s) # Torn /\ Whole(s).holds = s
    /\ NoFile.holds = {}
  BY DEF File, NoFile, Torn, Whole

\* The invariant holds at first.
LEMMA StoreInvInit == StoreInit => StoreInv
  BY PersistenceAssumption DEF StoreInit, StoreInv, StoreTypeOK, WholeBeforeRename

\* Every step keeps it.
LEMMA StoreInvNext == StoreInv /\ [StoreNext]_storeVars => StoreInv'
  <1> SUFFICES ASSUME StoreInv, [StoreNext]_storeVars PROVE StoreInv'
    OBVIOUS
  <1> USE PersistenceAssumption, FilesMade DEF StoreInv, StoreTypeOK, WholeBeforeRename
  <1>1. CASE Load
    <2>1. mem' \in SUBSET Records
      BY <1>1, FileCases DEF Load
    <2> QED
      BY <1>1, <2>1 DEF Load
  <1>2. CASE LoadUnreadable
    BY <1>2 DEF LoadUnreadable
  <1>3. ASSUME NEW r \in Records, Change(r) PROVE StoreInv'
    BY <1>3 DEF Change
  <1>4. CASE StartSave
    BY <1>4 DEF StartSave
  <1>5. CASE Shutdown
    BY <1>5 DEF Shutdown
  <1>6. CASE Write
    BY <1>6 DEF Write
  <1>7. CASE Rename
    BY <1>7 DEF Rename, Return
  <1>8. ASSUME NEW stopping \in BOOLEAN, CannotOpen(stopping) PROVE StoreInv'
    BY <1>8 DEF CannotOpen, Fail
  <1>9. CASE WriteFails
    BY <1>9 DEF WriteFails, Return, Fail
  <1>10. CASE RenameFails
    BY <1>10 DEF RenameFails, Return, Fail
  <1>11. CASE Crash
    BY <1>11 DEF Crash
  <1>12. CASE UNCHANGED storeVars
    BY <1>12 DEF storeVars
  <1> QED
    BY <1>1, <1>2, <1>3, <1>4, <1>5, <1>6, <1>7, <1>8, <1>9, <1>10, <1>11, <1>12
    DEF StoreNext

\* Type correctness, and that a save renames the whole store (persist.js 92-133).
THEOREM RenamesWhole == StoreSpec => []WholeBeforeRename
  <1>1. StoreInit => StoreInv
    BY StoreInvInit
  <1>2. StoreInv /\ [StoreNext]_storeVars => StoreInv'
    BY StoreInvNext
  <1>3. StoreInv => WholeBeforeRename
    BY DEF StoreInv
  <1> QED
    BY <1>1, <1>2, <1>3, PTL DEF StoreSpec

-----------------------------------------------------------------------------
\* The store as it is at first is the snapshot.
LEMMA RefInit == StoreInit => Snapshots!Init
  BY FileCases DEF StoreInit, Snapshots!Init, Store, Saved

\* Every step is a step of the snapshot store, or none of it.
LEMMA RefNext == StoreInv /\ [StoreNext]_storeVars => [Snapshots!Next]_<<Store, Saved>>
  <1> SUFFICES ASSUME StoreInv, [StoreNext]_storeVars PROVE [Snapshots!Next]_<<Store, Saved>>
    OBVIOUS
  <1> USE DEF Store, Saved
  <1>1. CASE Load
    BY <1>1 DEF Load
  <1>2. CASE LoadUnreadable
    BY <1>2 DEF LoadUnreadable, Snapshots!Next, Snapshots!Forget
  <1>3. ASSUME NEW r \in Records, Change(r) PROVE Snapshots!Next
    <2>1. Snapshots!Change(r)
      BY <1>3 DEF Change, Snapshots!Change
    <2> QED
      BY <2>1 DEF Snapshots!Next
  <1>4. CASE StartSave
    BY <1>4 DEF StartSave
  <1>5. CASE Shutdown
    BY <1>5 DEF Shutdown
  <1>6. CASE Write
    BY <1>6 DEF Write
  <1>7. CASE Rename
    \* The file renamed is the whole store: a save; a process that was stopping
    \* goes back to the same.
    <2>1. file'.holds = mem /\ mem' = mem /\ process # "down"
      BY <1>7, FilesMade DEF Rename, StoreInv, StoreTypeOK, WholeBeforeRename
    <2>2. Snapshots!Save
      BY <2>1, <1>7 DEF Rename, Return, Snapshots!Save
    <2> QED
      BY <2>2 DEF Snapshots!Next
  <1>8. ASSUME NEW stopping \in BOOLEAN, CannotOpen(stopping)
        PROVE  [Snapshots!Next]_<<Store, Saved>>
    BY <1>8 DEF CannotOpen, Snapshots!Next, Snapshots!Restart
  <1>9. CASE WriteFails
    BY <1>9 DEF WriteFails, Return, StoreInv, StoreTypeOK, Snapshots!Next, Snapshots!Restart
  <1>10. CASE RenameFails
    BY <1>10 DEF RenameFails, Return, StoreInv, StoreTypeOK, Snapshots!Next, Snapshots!Restart
  <1>11. CASE Crash
    BY <1>11 DEF Crash, Snapshots!Next, Snapshots!Restart
  <1>12. CASE UNCHANGED storeVars
    BY <1>12 DEF storeVars
  <1> QED
    BY <1>1, <1>2, <1>3, <1>4, <1>5, <1>6, <1>7, <1>8, <1>9, <1>10, <1>11, <1>12
    DEF StoreNext

\* Whatever fails in between, a save replaces the snapshot as a whole.
THEOREM Implements == StoreSpec => SavesWhole
  <1>1. StoreInit => Snapshots!Init
    BY RefInit
  <1>2. StoreInit => StoreInv
    BY StoreInvInit
  <1>3. StoreInv /\ [StoreNext]_storeVars => StoreInv'
    BY StoreInvNext
  <1>4. StoreInv /\ [StoreNext]_storeVars => [Snapshots!Next]_<<Store, Saved>>
    BY RefNext
  <1> QED
    BY <1>1, <1>2, <1>3, <1>4, PTL DEF StoreSpec, SavesWhole, Snapshots!Spec

-----------------------------------------------------------------------------
(* Scans *)

\* In the order of their insertion, scans start one after the other.
InOrder(ss) ==
    \A n, k \in DOMAIN ss : n < k => ss[n].startedAt <= ss[k].startedAt

\* What was superseded was so by a request of the same point.
Replaced(ss) ==
    \A n \in DOMAIN ss : ss[n].status = "superseded" =>
        \E k \in DOMAIN ss : /\ n < k /\ ss[k].point = ss[n].point
                             /\ ss[k].status # "superseded"

Past(ss) == \A n \in DOMAIN ss : ss[n].startedAt <= now

Orderly(ss) == ss \in Seq(Scan) /\ InOrder(ss) /\ Replaced(ss) /\ Past(ss)

IInv == now \in 0 .. MaxTime /\ Orderly(scans) /\ Orderly(disk)

\* A set of numbers that is not empty has a least one.
LEMMA LeastExists ==
    ASSUME NEW ns \in SUBSET Nat, ns # {}
    PROVE  \E n \in ns : \A k \in ns : n <= k
<1> DEFINE Less == OpToRel(<, Nat)
<1>1. PICK n \in ns : \A k \in ns : ~(<<k, n>> \in Less)
  <2>1. IsWellFoundedOn(Less, Nat)
    BY NatLessThanWellFounded
  <2> HIDE DEF Less
  <2> QED
    BY <2>1, WFMin
<1> SUFFICES ASSUME NEW k \in ns, ~(n <= k)
             PROVE  <<k, n>> \in Less
  BY <1>1
<1> QED
  BY DEF OpToRel

\* The scans of a list, by their places.
LEMMA Places ==
    ASSUME NEW ss \in Seq(Scan)
    PROVE  /\ DOMAIN ss = 1 .. Len(ss) /\ Len(ss) \in Nat
           /\ \A n \in DOMAIN ss : /\ ss[n] \in Scan
                                   /\ ss[n].point \in Points
                                   /\ ss[n].startedAt \in 0 .. MaxTime
<1>1. \A s \in Scan : s.point \in Points /\ s.startedAt \in 0 .. MaxTime
  BY DEF Scan
<1>2. DOMAIN ss = 1 .. Len(ss) /\ Len(ss) \in Nat
  OBVIOUS
<1>3. \A n \in DOMAIN ss : ss[n] \in Scan
  OBVIOUS
<1> QED
  BY <1>1, <1>2, <1>3

\* getLatestScanResult finds a scan whenever a point has a current one.
LEMMA LatestExists ==
    ASSUME NEW p \in Points, scans \in Seq(Scan), Current(p) # {}
    PROVE  /\ Latest(p) \in Current(p)
           /\ \A k \in Current(p) : scans[k].startedAt <= scans[Latest(p)].startedAt
<1> DEFINE ages == {MaxTime - scans[k].startedAt : k \in Current(p)}
<1>1. /\ \A k \in Current(p) : k \in Nat /\ scans[k].startedAt \in 0 .. MaxTime
      /\ MaxTime \in Nat
  BY Places, SdiAssumption DEF Current, Of
<1>2. PICK t \in Current(p) : \A k \in Current(p) :
        scans[k].startedAt <= scans[t].startedAt
  <2>1. \A k \in Current(p) : MaxTime - scans[k].startedAt \in Nat
    BY <1>1
  <2>2. ages \in SUBSET Nat
    BY <2>1
  <2>3. ages # {}
    <3>1. PICK k \in Current(p) : TRUE
      OBVIOUS
    <3>2. MaxTime - scans[k].startedAt \in ages
      BY <3>1
    <3> QED
      BY <3>2
  <2>4. PICK a \in ages : \A b \in ages : a <= b
    <3> HIDE DEF ages
    <3> QED
      BY <2>2, <2>3, LeastExists
  <2>5. PICK t \in Current(p) : a = MaxTime - scans[t].startedAt
    OBVIOUS
  <2>6. \A k \in Current(p) : MaxTime - scans[t].startedAt <= MaxTime - scans[k].startedAt
    BY <2>4, <2>5
  <2>7. ASSUME NEW k \in Current(p)
        PROVE  scans[k].startedAt <= scans[t].startedAt
    <3>1. /\ MaxTime - scans[t].startedAt <= MaxTime - scans[k].startedAt
          /\ MaxTime \in Nat
          /\ scans[t].startedAt \in 0 .. MaxTime
          /\ scans[k].startedAt \in 0 .. MaxTime
      BY <1>1, <2>6
    <3> QED
      BY <3>1
  <2> QED
    BY <2>7
<1> DEFINE firsts == {k \in Current(p) : scans[k].startedAt = scans[t].startedAt}
<1>3. firsts \in SUBSET Nat /\ firsts # {}
  BY <1>1
<1>4. PICK f \in firsts : \A k \in firsts : f <= k
  <2> HIDE DEF firsts
  <2> QED
    BY <1>3, LeastExists
<1>5. \A k \in Current(p) :
        \/ scans[k].startedAt < scans[f].startedAt
        \/ scans[k].startedAt = scans[f].startedAt /\ f <= k
  BY <1>1, <1>2, <1>4
<1>6. /\ Latest(p) \in Current(p)
      /\ \A k \in Current(p) :
            \/ scans[k].startedAt < scans[Latest(p)].startedAt
            \/ /\ scans[k].startedAt = scans[Latest(p)].startedAt
               /\ Latest(p) <= k
  BY <1>4, <1>5 DEF Latest
<1> QED
  BY <1>1, <1>6

-----------------------------------------------------------------------------
\* A list stays in order when scans only settle: their points and times stay,
\* and those not superseded are not superseded.
LEMMA Settled ==
    ASSUME NEW ss, NEW ts \in Seq(Scan), InOrder(ss), Replaced(ss),
           DOMAIN ts = DOMAIN ss,
           \A n \in DOMAIN ss :
              /\ ts[n].point = ss[n].point /\ ts[n].startedAt = ss[n].startedAt
              /\ ts[n].status = "superseded" => ss[n].status = "superseded"
              /\ ss[n].status # "superseded" => ts[n].status # "superseded"
    PROVE  InOrder(ts) /\ Replaced(ts)
<1>1. InOrder(ts)
  BY DEF InOrder
<1>2. Replaced(ts)
  BY DEF Replaced
<1> QED
  BY <1>1, <1>2

\* The scans once one of point p has been requested.
LEMMA Triggered ==
    ASSUME IInv, NEW p \in Points, Trigger(p)
    PROVE  Orderly(scans')
<1> DEFINE ts == Supersede(p)
           new == NewScan(p)
<1>1. /\ DOMAIN scans = 1 .. Len(scans) /\ Len(scans) \in Nat
      /\ \A n \in DOMAIN scans : scans[n] \in Scan
  BY Places DEF IInv, Orderly
<1>2. new \in Scan /\ new.point = p /\ new.startedAt = now /\ new.status = "pending"
  BY DEF NewScan, Scan, IInv
<1>3. \A n \in DOMAIN scans :
        /\ ts[n] \in Scan
        /\ ts[n].point = scans[n].point /\ ts[n].startedAt = scans[n].startedAt
        /\ ts[n].status = IF scans[n].point = p THEN "superseded" ELSE scans[n].status
  BY <1>1 DEF Supersede, Of, Scan
<1>4. DOMAIN ts = 1 .. Len(scans)
  BY <1>1 DEF Supersede
<1>5. ts \in Seq(Scan) /\ Len(ts) = Len(scans)
  <2>1. ts = [n \in 1 .. Len(scans) |-> ts[n]]
    BY <1>1 DEF Supersede
  <2> HIDE DEF ts
  <2>2. ts \in [1 .. Len(scans) -> Scan]
    BY <1>1, <1>3, <2>1
  <2> QED
    BY <1>1, <2>2
<1> HIDE DEF ts, new
<1>6. /\ scans' = Append(ts, new) /\ scans' \in Seq(Scan)
      /\ DOMAIN scans' = 1 .. (Len(scans) + 1)
      /\ \A n \in DOMAIN scans : scans'[n] = ts[n]
      /\ scans'[Len(scans) + 1] = new
  <2>1. scans' = Append(ts, new)
    BY DEF Trigger, ts, new
  <2>2. /\ Append(ts, new) \in Seq(Scan)
        /\ Len(Append(ts, new)) = Len(ts) + 1
        /\ \A n \in 1 .. Len(ts) : Append(ts, new)[n] = ts[n]
        /\ Append(ts, new)[Len(ts) + 1] = new
    BY <1>2, <1>5, AppendProperties
  <2> QED
    BY <1>1, <1>5, <2>1, <2>2, Places
<1>7. now' = now
  BY DEF Trigger
<1>8. /\ \A n \in DOMAIN scans : scans[n].startedAt <= now
      /\ \A n \in DOMAIN scans : scans[n].startedAt \in 0 .. MaxTime
      /\ now \in 0 .. MaxTime
  BY Places DEF IInv, Orderly, Past
<1>9. InOrder(scans')
  <2> SUFFICES ASSUME NEW n \in DOMAIN scans', NEW k \in DOMAIN scans', n < k
               PROVE  scans'[n].startedAt <= scans'[k].startedAt
    BY DEF InOrder
  <2>1. n \in DOMAIN scans
    BY <1>1, <1>6
  <2>2. CASE k = Len(scans) + 1
    BY <1>2, <1>3, <1>6, <1>8, <2>1, <2>2
  <2>3. CASE k \in DOMAIN scans
    BY <1>3, <1>6, <2>1, <2>3 DEF IInv, Orderly, InOrder
  <2> QED
    BY <1>1, <1>6, <2>2, <2>3
<1>10. Replaced(scans')
  <2> SUFFICES ASSUME NEW n \in DOMAIN scans', scans'[n].status = "superseded"
               PROVE  \E k \in DOMAIN scans' :
                        /\ n < k /\ scans'[k].point = scans'[n].point
                        /\ scans'[k].status # "superseded"
    BY DEF Replaced
  <2>1. n \in DOMAIN scans
    BY <1>1, <1>2, <1>6
  <2>2. CASE scans[n].point = p
    <3>1. n < Len(scans) + 1 /\ Len(scans) + 1 \in DOMAIN scans'
      BY <1>1, <1>6, <2>1
    <3> QED
      BY <1>2, <1>3, <1>6, <2>1, <2>2, <3>1
  <2>3. CASE scans[n].point # p
    <3>1. scans[n].status = "superseded"
      BY <1>3, <1>6, <2>1, <2>3
    <3>2. PICK k \in DOMAIN scans : /\ n < k /\ scans[k].point = scans[n].point
                                    /\ scans[k].status # "superseded"
      BY <2>1, <3>1 DEF IInv, Orderly, Replaced
    <3>3. k \in DOMAIN scans'
      BY <1>1, <1>6
    <3> QED
      BY <1>3, <1>6, <2>1, <2>3, <3>2, <3>3
  <2> QED
    BY <2>2, <2>3
<1>11. \A n \in DOMAIN scans' : scans'[n].startedAt <= now
  <2>1. \A n \in DOMAIN scans : scans'[n].startedAt <= now
    BY <1>3, <1>6, <1>8
  <2>2. scans'[Len(scans) + 1].startedAt <= now
    BY <1>2, <1>6, <1>8
  <2>3. \A n \in DOMAIN scans' : n \in DOMAIN scans \/ n = Len(scans) + 1
    BY <1>1, <1>6
  <2> QED
    BY <2>1, <2>2, <2>3
<1> QED
  BY <1>6, <1>9, <1>10, <1>11 DEF Orderly, Past

\* The scans once the immediates have run: those that were superseded before
\* they ran are complete all the same.
LEMMA ScansRun ==
    ASSUME IInv, RunScans
    PROVE  Orderly(scans')
<1>1. /\ DOMAIN scans = 1 .. Len(scans) /\ Len(scans) \in Nat
      /\ \A n \in DOMAIN scans : scans[n] \in Scan
  BY Places DEF IInv, Orderly
<1>2. /\ DOMAIN scans' = 1 .. Len(scans)
      /\ scans' = [n \in 1 .. Len(scans) |-> scans'[n]]
  BY <1>1 DEF RunScans
<1>3. \A n \in DOMAIN scans :
        scans'[n] = IF n \in immediates
                    THEN [scans[n] EXCEPT !.status = "complete", !.completed = TRUE]
                    ELSE scans[n]
  BY DEF RunScans
<1>4. \A s \in Scan :
        LET t == [s EXCEPT !.status = "complete", !.completed = TRUE]
        IN  /\ t \in Scan /\ t.point = s.point /\ t.startedAt = s.startedAt
            /\ t.status = "complete"
  BY DEF Scan
<1>5. \A n \in DOMAIN scans :
        /\ scans'[n] \in Scan
        /\ scans'[n].point = scans[n].point
        /\ scans'[n].startedAt = scans[n].startedAt
        /\ scans'[n].status = scans[n].status \/ scans'[n].status = "complete"
  BY <1>1, <1>3, <1>4
<1>6. scans' \in Seq(Scan)
  <2>1. scans' \in [1 .. Len(scans) -> Scan]
    BY <1>1, <1>2, <1>5
  <2> QED
    BY <1>1, <2>1
<1>7. InOrder(scans') /\ Replaced(scans')
  BY <1>1, <1>2, <1>5, <1>6, Settled DEF IInv, Orderly
<1>8. Past(scans')
  BY <1>1, <1>2, <1>5 DEF IInv, Orderly, Past
<1> QED
  BY <1>6, <1>7, <1>8 DEF Orderly

\* The parts of the invariant hold as time goes by.
LEMMA StillPast ==
    ASSUME now \in 0 .. MaxTime, now' \in 0 .. MaxTime, now <= now',
           NEW ss, Orderly(ss)
    PROVE  \A n \in DOMAIN ss : ss[n].startedAt <= now'
<1> SUFFICES ASSUME NEW n \in DOMAIN ss PROVE ss[n].startedAt <= now'
  OBVIOUS
<1>1. ss[n].startedAt \in 0 .. MaxTime /\ ss[n].startedAt <= now
  BY Places DEF Orderly, Past
<1> QED
  BY <1>1

\* They hold at first.
LEMMA InvInit == Init => IInv
<1> SUFFICES ASSUME Init PROVE IInv
  OBVIOUS
<1>1. 0 \in 0 .. MaxTime
  BY SdiAssumption
<1>2. DOMAIN <<>> = {} /\ <<>> \in Seq(Scan)
  OBVIOUS
<1> QED
  BY <1>1, <1>2 DEF Init, IInv, Orderly, InOrder, Replaced, Past

\* Each step keeps the scans in memory and in db.json in order.
LEMMA InvNext == IInv /\ [Next]_vars => IInv'
<1> SUFFICES ASSUME IInv, [Next]_vars PROVE IInv'
  OBVIOUS
<1>1. ASSUME NEW p \in Points, Trigger(p) PROVE IInv'
  <2>1. UNCHANGED <<now, disk>>
    BY <1>1 DEF Trigger
  <2>2. Orderly(scans')
    BY <1>1, Triggered
  <2> QED
    BY <2>1, <2>2 DEF IInv, Orderly, Past, InOrder, Replaced
<1>2. CASE RunScans
  <2>1. UNCHANGED <<now, disk>>
    BY <1>2 DEF RunScans
  <2>2. Orderly(scans')
    BY <1>2, ScansRun
  <2> QED
    BY <2>1, <2>2 DEF IInv, Orderly, Past, InOrder, Replaced
<1>3. CASE Tick
  <2>1. now' \in 0 .. MaxTime /\ now <= now' /\ UNCHANGED <<scans, disk>>
    BY <1>3, SdiAssumption DEF Tick, IInv
  <2>2. /\ \A n \in DOMAIN scans : scans[n].startedAt <= now'
        /\ \A n \in DOMAIN disk : disk[n].startedAt <= now'
    BY <2>1, StillPast DEF IInv
  <2> QED
    BY <2>1, <2>2 DEF IInv, Orderly, InOrder, Replaced, Past
<1>4. CASE Save
  BY <1>4 DEF Save, IInv, Orderly, InOrder, Replaced, Past
<1>5. CASE CrashAndRestart
  BY <1>5 DEF CrashAndRestart, IInv, Orderly, InOrder, Replaced, Past
<1>6. CASE UNCHANGED vars
  BY <1>6 DEF vars, IInv, Orderly, InOrder, Replaced, Past
<1> QED
  BY <1>1, <1>2, <1>3, <1>4, <1>5, <1>6 DEF Next

-----------------------------------------------------------------------------
\* The result surfaced for a point is that of its newest request, for any number
\* of points and scans: no superseded scan that completes late hides a newer
\* one, before a restart or after it.
THEOREM NewestScanSurfaced == Spec => []NewestIsSurfaced
<1>1. IInv => NewestIsSurfaced
  <2> SUFFICES ASSUME IInv, NEW p \in Points, NEW n \in Of(p)
               PROVE  /\ Current(p) # {}
                      /\ scans[n].startedAt <= scans[Latest(p)].startedAt
    BY DEF NewestIsSurfaced
  <2>1. scans \in Seq(Scan) /\ n \in DOMAIN scans /\ scans[n].point = p
    BY DEF IInv, Orderly, Of
  <2>2. PICK k \in Current(p) : scans[n].startedAt <= scans[k].startedAt
    <3>1. CASE scans[n].status # "superseded"
      <4>1. n \in Current(p) /\ scans[n].startedAt \in 0 .. MaxTime
        BY <2>1, <3>1, Places DEF Current
      <4> QED
        BY <4>1
    <3>2. CASE scans[n].status = "superseded"
      <4>1. PICK k \in DOMAIN scans : /\ n < k /\ scans[k].point = scans[n].point
                                      /\ scans[k].status # "superseded"
        BY <2>1, <3>2 DEF IInv, Orderly, Replaced
      <4>2. k \in Current(p)
        BY <2>1, <4>1 DEF Current, Of
      <4> QED
        BY <2>1, <4>1, <4>2 DEF IInv, Orderly, InOrder
    <3> QED
      BY <3>1, <3>2
  <2>3. /\ Latest(p) \in Current(p)
        /\ scans[k].startedAt <= scans[Latest(p)].startedAt
    BY <2>1, <2>2, LatestExists
  <2>4. /\ scans[n].startedAt \in 0 .. MaxTime
        /\ scans[k].startedAt \in 0 .. MaxTime
        /\ scans[Latest(p)].startedAt \in 0 .. MaxTime
    BY <2>1, <2>2, <2>3, Places DEF Current, Of
  <2> QED
    BY <2>2, <2>3, <2>4
<1> QED
  BY <1>1, InvInit, InvNext, PTL DEF Spec

-----------------------------------------------------------------------------
\* The immediates are of scans that have not completed.
Waiting ==
    immediates \subseteq DOMAIN scans /\ \A n \in immediates : ~scans[n].completed

\* A request leaves the scans that are there as they are, but for their status.
LEMMA TriggerKeeps ==
    ASSUME IInv, NEW p \in Points, Trigger(p)
    PROVE  /\ DOMAIN scans \subseteq DOMAIN scans'
           /\ \A n \in DOMAIN scans :
                 /\ scans'[n].completed = scans[n].completed
                 /\ scans[n].status = "superseded" => scans'[n] = scans[n]
           /\ immediates' = immediates \cup {Len(scans) + 1}
           /\ Len(scans) + 1 \in DOMAIN scans' /\ ~scans'[Len(scans) + 1].completed
<1> DEFINE ts == Supersede(p)
           new == NewScan(p)
<1>1. /\ DOMAIN scans = 1 .. Len(scans) /\ Len(scans) \in Nat
      /\ \A n \in DOMAIN scans : scans[n] \in Scan
  BY Places DEF IInv, Orderly
<1>2. new \in Scan /\ ~new.completed
  BY DEF NewScan, Scan, IInv
<1>3. \A s \in Scan :
        LET u == [s EXCEPT !.status = "superseded"]
        IN  /\ u \in Scan /\ u.completed = s.completed
            /\ s.status = "superseded" => u = s
  BY DEF Scan
<1>4. \A n \in DOMAIN scans :
        /\ ts[n] \in Scan /\ ts[n].completed = scans[n].completed
        /\ scans[n].status = "superseded" => ts[n] = scans[n]
  BY <1>1, <1>3 DEF Supersede
<1>5. ts = [n \in 1 .. Len(scans) |-> ts[n]]
  BY <1>1 DEF Supersede
<1> HIDE DEF ts, new
<1>6. ts \in Seq(Scan) /\ Len(ts) = Len(scans)
  <2>1. ts \in [1 .. Len(scans) -> Scan]
    BY <1>1, <1>4, <1>5
  <2> QED
    BY <1>1, <2>1
<1>7. scans' = Append(ts, new) /\ immediates' = immediates \cup {Len(scans')}
  BY DEF Trigger, ts, new
<1>8. /\ Append(ts, new) \in Seq(Scan)
      /\ Len(Append(ts, new)) = Len(ts) + 1
      /\ \A n \in 1 .. Len(ts) : Append(ts, new)[n] = ts[n]
      /\ Append(ts, new)[Len(ts) + 1] = new
  BY <1>2, <1>6, AppendProperties
<1>9. DOMAIN scans' = 1 .. (Len(scans) + 1) /\ Len(scans') = Len(scans) + 1
  BY <1>1, <1>6, <1>7, <1>8, Places
<1> QED
  BY <1>1, <1>2, <1>4, <1>6, <1>7, <1>8, <1>9

LEMMA WaitingNext == IInv /\ Waiting /\ [Next]_vars => Waiting'
<1> SUFFICES ASSUME IInv, Waiting, [Next]_vars PROVE Waiting'
  OBVIOUS
<1>1. ASSUME NEW p \in Points, Trigger(p) PROVE Waiting'
  BY <1>1, TriggerKeeps DEF Waiting
<1>2. CASE RunScans
  BY <1>2 DEF RunScans, Waiting
<1>3. CASE Tick \/ Save \/ UNCHANGED vars
  BY <1>3 DEF Tick, Save, vars, Waiting
<1>4. CASE CrashAndRestart
  BY <1>4 DEF CrashAndRestart, Waiting
<1> QED
  BY <1>1, <1>2, <1>3, <1>4 DEF Next

\* A result that completed and was superseded does not come back: a scan that
\* runs late completes itself and no other (sdiScanOrchestrator.js 151).
THEOREM ReplacedStays == Spec => ReplacedStaysReplaced
<1>1. Init => Waiting
  BY DEF Init, Waiting
<1>2. IInv /\ Waiting /\ [Next]_vars =>
        [CrashAndRestart \/
         \A n \in DOMAIN scans :
            scans[n].completed /\ scans[n].status = "superseded"
                => scans'[n] = scans[n]]_vars
  <2> SUFFICES ASSUME IInv, Waiting, Next, ~CrashAndRestart,
                      NEW n \in DOMAIN scans,
                      scans[n].completed, scans[n].status = "superseded"
               PROVE  scans'[n] = scans[n]
    OBVIOUS
  <2>1. ASSUME NEW p \in Points, Trigger(p) PROVE scans'[n] = scans[n]
    BY <2>1, TriggerKeeps
  <2>2. CASE RunScans
    BY <2>2 DEF RunScans, Waiting
  <2>3. CASE Tick \/ Save
    BY <2>3 DEF Tick, Save
  <2> QED
    BY <2>1, <2>2, <2>3 DEF Next
<1> QED
  BY <1>1, <1>2, InvInit, InvNext, WaitingNext, PTL DEF Spec, ReplacedStaysReplaced
=============================================================================
