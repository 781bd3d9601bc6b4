----------------------- MODULE IncrementalBackupProofs -----------------------
(***************************************************************************)
(* IncrementalBackup for any projects, issues, runs, clocks and bounds: an *)
(* edit that neither a point nor the next query has was lost in one of the *)
(* ways that GapsExplained names.  The argument is                         *)
(* about the date of a query: what is older than it must be explained, and *)
(* a run moves the cursor only to the time at which it began, when all it  *)
(* passes by was already there.                                            *)
(***************************************************************************)
EXTENDS IncrementalBackup, SequenceTheorems, FiniteSetTheorems, TLAPS

InPoint(i) ==
    \E n \in DOMAIN points : /\ i \in DOMAIN points[n].manifest
                             /\ points[n].manifest[i] = jira[i].edits

\* Run r has the issue as it is, or has missed it, and has moved the cursor.
Accounts(r, i) ==
    /\ ProjectOf[i] \in runs[r].committed
    /\ \/ /\ runs[r].phase \in WorkPhases \cup {"failed"}
          /\ runs[r].got[i] = jira[i].edits
       \/ <<r, i, jira[i].edits>> \in slid \cup cut

Explained(i) == InPoint(i) \/ \E r \in Runs : Accounts(r, i)

\* A query of a run that follows one begun at time t does not select the issue.
PassedBy(i, t) == jira[i].edits > 0 /\ jira[i].updated < SinceOf(t)

CursorExplained(c) ==
    \A i \in Issues : PassedBy(i, c[ProjectOf[i]]) => Explained(i)

\* The issue is on a page that run r has not asked for yet.
OnLaterPage(r, i) ==
    i \in Matching(r) /\ Rank(i, Matching(r)) >= runs[r].offset

\* What the cursor will pass by when run r commits it, the run has, or missed, or
\* will still fetch; or it is explained already.
RunExplains(r) ==
    runs[r].phase \in {"enum", "answered"} =>
        \A i \in Issues :
            ProjectOf[i] = runs[r].project /\ PassedBy(i, runs[r].started) =>
                \/ Explained(i)
                \/ runs[r].got[i] = jira[i].edits
                \/ <<r, i, jira[i].edits>> \in slid \cup cut
                \/ runs[r].phase = "enum" /\ OnLaterPage(r, i)

\* No clock is ahead of Jira's by more than this.
Latest == now + Overlap

\* Nothing is stamped later than now.
Clocks ==
    /\ \A i \in Issues : jira[i].updated <= now
    /\ \A p \in Projects : cursor[p] <= Latest /\ disk.cursor[p] <= Latest
    /\ \A r \in Runs : runs[r].started <= Latest

\* A point is saved as it is written, so that no crash loses one.
PointsSaved == disk.points = points

SavedInv == TypeOK /\ PointsSaved

GapInv ==
    /\ Clocks
    /\ CursorExplained(cursor) /\ CursorExplained(disk.cursor)
    /\ \A r \in Runs : RunExplains(r)

-----------------------------------------------------------------------------
LEMMA ManifestType ==
    ASSUME NEW got \in [Issues -> Versions], NEW n \in Nat
    PROVE  [manifest |-> Manifest(got), prior |-> n] \in Point
<1> DEFINE S == {k \in Issues : got[k] > 0}
<1>1. Manifest(got) \in [S -> Versions \ {0}]
  BY DEF Manifest, Versions
<1>2. S \in SUBSET Issues
  OBVIOUS
<1> HIDE DEF S
<1>3. Manifest(got) \in UNION {[T -> Versions \ {0}] : T \in SUBSET Issues}
  BY <1>1, <1>2
<1> QED
  BY <1>3 DEF Point

\* The edits of one issue are among those that the bound counts.
LEMMA EditsBounded ==
    ASSUME TypeOK, NEW i \in Issues, Edit(i)
    PROVE  jira[i].edits + 1 \in Versions
<1> DEFINE all == {x \in Issues \X Versions : x[2] < jira[x[1]].edits}
           e == jira[i].edits
           f == [n \in 0 .. (e - 1) |-> <<i, n>>]
<1>1. e \in Versions /\ e \in Nat /\ e <= MaxEdits /\ MaxEdits \in Nat
  BY IncrementalAssumption DEF TypeOK, Versions
<1>2. IsFiniteSet(Issues \X Versions)
  <2>1. IsFiniteSet(0 .. MaxEdits)
    BY <1>1, FS_Interval
  <2> QED
    BY <2>1, IncrementalAssumption, FS_Product DEF Versions
<1>3. IsFiniteSet(all) /\ Cardinality(all) \in Nat
  <2>1. all \in SUBSET (Issues \X Versions)
    OBVIOUS
  <2> QED
    BY <1>2, <2>1, FS_Subset, FS_CardinalityType
<1>4. f \in Injection(0 .. (e - 1), all)
  <2>1. \A n \in 0 .. (e - 1) : n \in Versions /\ n < e
    BY <1>1 DEF Versions
  <2>2. \A n \in 0 .. (e - 1) : <<i, n>> \in all
    BY <2>1
  <2>3. f \in [0 .. (e - 1) -> all]
    BY <2>2
  <2>4. \A m, n \in 0 .. (e - 1) : f[m] = f[n] => m = n
    OBVIOUS
  <2> HIDE DEF f, all
  <2> QED
    BY <2>3, <2>4 DEF Injection, IsInjective
<1>5. Cardinality(0 .. (e - 1)) <= Cardinality(all)
  BY <1>3, <1>4, FS_Injection
<1>6. Cardinality(0 .. (e - 1)) = e
  <2> HIDE DEF e
  <2>1. 0 \in Int /\ e - 1 \in Int
    BY <1>1
  <2>2. Cardinality(0 .. (e - 1)) = IF 0 > e - 1 THEN 0 ELSE (e - 1) - 0 + 1
    BY <2>1, FS_Interval, Zenon
  <2> QED
    BY <1>1, <2>2
<1>7. Cardinality(all) < MaxEdits
  BY DEF Edit
<1> QED
  BY <1>1, <1>3, <1>5, <1>6, <1>7 DEF Versions

LEMMA TypeInit == Init => TypeOK
<1> SUFFICES ASSUME Init PROVE TypeOK
  OBVIOUS
<1> USE IncrementalAssumption
<1>1. (CHOOSE p \in Projects : TRUE) \in Projects
  OBVIOUS
<1>2. Never \in Int
  BY DEF Never
<1>3. IdleRun \in Run
  BY <1>1, <1>2 DEF IdleRun, Run, Phases, Versions
<1> QED
  BY <1>2, <1>3 DEF Init, TypeOK, Stamps, Versions

LEMMA SinceType == \A t \in Int : SinceOf(t) \in Int /\ SinceOf(t) <= t - Overlap
<1> SUFFICES ASSUME NEW t \in Int
             PROVE  SinceOf(t) \in Int /\ SinceOf(t) <= t - Overlap
  OBVIOUS
<1> DEFINE d == t - Overlap
<1>1. d \in Int /\ Minute \in Nat /\ Minute > 0
  BY IncrementalAssumption
<1> HIDE DEF d
<1>2. d \div Minute \in Int /\ (d \div Minute) * Minute <= d
  BY <1>1
<1> QED
  BY <1>1, <1>2 DEF SinceOf, d


LEMMA TypeNext == TypeOK /\ [Next]_vars => TypeOK'
<1> SUFFICES ASSUME TypeOK, [Next]_vars PROVE TypeOK'
  OBVIOUS
<1> USE IncrementalAssumption
<1>0. /\ \A r \in Runs : runs[r] \in Run
      /\ \A p \in Projects : SinceOf(cursor[p]) \in Int
      /\ ServerClock \subseteq Int
  <2>1. \A r \in Runs : runs[r] \in Run
    BY DEF TypeOK
  <2>2. \A p \in Projects : cursor[p] \in Int
    BY DEF TypeOK
  <2>3. now \in Int /\ Skews \subseteq Int
    BY DEF TypeOK, Stamps
  <2> QED
    BY <2>1, <2>2, <2>3, SinceType DEF ServerClock
<1>1. ASSUME NEW i \in Issues, Edit(i) PROVE TypeOK'
  <2>1. jira[i].edits + 1 \in Versions
    BY <1>1, EditsBounded
  <2>2. SlidBy(i) \subseteq Runs \X Issues \X Versions
    BY DEF SlidBy
  <2>3. [edits |-> jira[i].edits + 1, updated |-> now] \in
            [edits : Versions, updated : Stamps]
    BY <2>1 DEF TypeOK
  <2>4. jira' \in [Issues -> [edits : Versions, updated : Stamps]]
    BY <1>1, <2>3 DEF Edit, TypeOK
  <2>5. slid' \cup cut' \subseteq Runs \X Issues \X Versions
    BY <1>1, <2>2 DEF Edit, TypeOK
  <2> QED
    BY <1>1, <2>4, <2>5 DEF Edit, TypeOK
<1>2. CASE Tick
  BY <1>2 DEF Tick, TypeOK, Stamps
<1>3. ASSUME NEW r \in Runs, StartRun(r) PROVE TypeOK'
  <2>1. [runs[r] EXCEPT !.phase = "ready", !.todo = Projects] \in Run
    BY <1>0 DEF Run, Phases, WorkPhases
  <2> QED
    BY <1>3, <2>1 DEF StartRun, TypeOK
<1>4. ASSUME NEW r \in Runs, NEW p \in Projects, BeginProject(r, p) PROVE TypeOK'
  <2>1. \A t \in ServerClock :
          [runs[r] EXCEPT !.phase = "enum", !.todo = @ \ {p}, !.project = p,
            !.since = SinceOf(cursor[p]), !.started = t, !.offset = 0] \in Run
    BY <1>0 DEF Run, Phases, WorkPhases
  <2>2. PICK t \in ServerClock :
            runs' = [runs EXCEPT ![r].phase = "enum", ![r].todo = @ \ {p},
                                 ![r].project = p, ![r].since = SinceOf(cursor[p]),
                                 ![r].started = t, ![r].offset = 0]
    BY <1>4 DEF BeginProject
  <2>3. runs' \in [Runs -> Run]
    BY <2>1, <2>2 DEF TypeOK
  <2> QED
    BY <1>4, <2>3 DEF BeginProject, TypeOK
<1>5. ASSUME NEW r \in Runs, AnswerPage(r) PROVE TypeOK'
  <2> DEFINE selected == Matching(r)
             next == runs[r].offset + PageSize
             page == {i \in selected : Rank(i, selected) \in runs[r].offset .. next - 1}
             got == [i \in Issues |-> IF i \in page THEN jira[i].edits ELSE runs[r].got[i]]
  <2>1. PICK f \in {"answered", "enum"} :
            runs' = [runs EXCEPT ![r].got = got, ![r].offset = next, ![r].phase = f]
    BY <1>5 DEF AnswerPage, TypeOK
  <2>2. got \in [Issues -> Versions]
    BY <1>0 DEF Run, TypeOK
  <2>3. next \in Nat
    BY <1>0 DEF Run
  <2>4. [runs[r] EXCEPT !.got = got, !.offset = next, !.phase = f] \in Run
    <3> HIDE DEF got, next
    <3> QED
      BY <1>0, <2>2, <2>3 DEF Run, Phases, WorkPhases
  <2>5. runs' \in [Runs -> Run]
    <3> HIDE DEF got, next
    <3> QED
      BY <2>1, <2>4 DEF TypeOK
  <2>6. cut' \subseteq Runs \X Issues \X Versions
    <3> DEFINE far == {k \in selected : Rank(k, selected) >= next}
    <3>1. \A i \in far : <<r, i, jira[i].edits>> \in Runs \X Issues \X Versions
      BY DEF Matching, TypeOK
    <3>2. cut' \in {cut, cut \cup {<<r, i, jira[i].edits>> : i \in far}}
      BY <1>5 DEF AnswerPage
    <3> HIDE DEF far
    <3> QED
      BY <3>1, <3>2 DEF TypeOK
  <2> QED
    BY <1>5, <2>5, <2>6 DEF AnswerPage, TypeOK
<1>6. ASSUME NEW r \in Runs, EndEnumeration(r) PROVE TypeOK'
  <2>0. runs[r].committed \cup {runs[r].project} \in SUBSET Projects
    BY <1>0 DEF Run
  <2>1. [runs[r] EXCEPT !.phase = "attach",
                        !.committed = @ \cup {runs[r].project}] \in Run
    BY <1>0, <2>0 DEF Run, Phases, WorkPhases
  <2>2. runs[r].started \in Int
    BY <1>0 DEF Run
  <2> QED
    BY <1>6, <2>1, <2>2 DEF EndEnumeration, TypeOK
<1>7. ASSUME NEW r \in Runs, FinishAttachments(r) PROVE TypeOK'
  <2>1. [runs[r] EXCEPT !.phase = "ready"] \in Run
    BY <1>0 DEF Run, Phases, WorkPhases
  <2> QED
    BY <1>7, <2>1 DEF FinishAttachments, TypeOK
<1>8. ASSUME NEW r \in Runs, WritePoint(r) PROVE TypeOK'
  <2>1. [runs[r] EXCEPT !.phase = "done"] \in Run
    BY <1>0 DEF Run, Phases
  <2>2. \A prior \in Newest :
            [manifest |-> Manifest(runs[r].got), prior |-> prior] \in Point
    <3>1. runs[r].got \in [Issues -> Versions]
      BY <1>0 DEF Run
    <3>2. Newest \subseteq Nat
      BY DEF TypeOK, Newest
    <3> QED
      BY <3>1, <3>2, ManifestType
  <2>3. points' \in Seq(Point)
    BY <1>8, <2>2 DEF WritePoint, TypeOK
  <2> QED
    BY <1>8, <2>1, <2>3 DEF WritePoint, Save, TypeOK
<1>9. ASSUME NEW r \in Runs, FailRun(r) PROVE TypeOK'
  <2>1. [runs[r] EXCEPT !.phase = "failed"] \in Run
    BY <1>0 DEF Run, Phases
  <2> QED
    BY <1>9, <2>1 DEF FailRun, TypeOK
<1>10. CASE Autosave
  BY <1>10 DEF Autosave, Save, TypeOK
<1>11. CASE CrashAndRestart
  <2>1. \A r \in Runs : [runs[r] EXCEPT !.phase = "failed"] \in Run
    BY <1>0 DEF Run, Phases
  <2> QED
    BY <1>0, <1>11, <2>1 DEF CrashAndRestart, TypeOK
<1>12. CASE UNCHANGED vars
  BY <1>12 DEF vars, TypeOK
<1> QED
  BY <1>1, <1>2, <1>3, <1>4, <1>5, <1>6, <1>7, <1>8, <1>9, <1>10, <1>11, <1>12 DEF Next

\* backupEngine saves a point before anything else happens.
LEMMA SavedNext == SavedInv /\ [Next]_vars => SavedInv'
<1> SUFFICES ASSUME SavedInv, [Next]_vars PROVE SavedInv'
  OBVIOUS
<1>1. TypeOK'
  BY TypeNext DEF SavedInv
<1>2. CASE UNCHANGED <<points, disk>>
  BY <1>1, <1>2 DEF SavedInv, PointsSaved
<1>3. ASSUME NEW r \in Runs, WritePoint(r) PROVE SavedInv'
  BY <1>1, <1>3 DEF WritePoint, Save, SavedInv, PointsSaved
<1>4. CASE Autosave
  BY <1>1, <1>4 DEF Autosave, Save, SavedInv, PointsSaved
<1>5. CASE CrashAndRestart
  BY <1>1, <1>5 DEF CrashAndRestart, SavedInv, PointsSaved
<1>6. ASSUME NEW i \in Issues, Edit(i) PROVE SavedInv'
  BY <1>2, <1>6 DEF Edit
<1>7. CASE Tick \/ UNCHANGED vars
  BY <1>2, <1>7 DEF Tick, vars
<1>8. ASSUME NEW r \in Runs, NEW p \in Projects, BeginProject(r, p) PROVE SavedInv'
  BY <1>2, <1>8 DEF BeginProject
<1>9. ASSUME NEW r \in Runs,
             \/ StartRun(r) \/ AnswerPage(r) \/ EndEnumeration(r)
             \/ FinishAttachments(r) \/ FailRun(r)
      PROVE  SavedInv'
  BY <1>2, <1>9 DEF StartRun, AnswerPage, EndEnumeration, FinishAttachments, FailRun
<1> QED
  BY <1>3, <1>4, <1>5, <1>6, <1>7, <1>8, <1>9 DEF Next

-----------------------------------------------------------------------------
(* The order of a query's answer *)

Before(k, i) == \/ jira[k].updated < jira[i].updated
                \/ jira[k].updated = jira[i].updated /\ k < i

LEMMA RankIs ==
    ASSUME TypeOK, NEW S \in SUBSET Issues, NEW i
    PROVE  /\ Rank(i, S) = Cardinality({k \in S : Before(k, i)})
           /\ IsFiniteSet(S) /\ IsFiniteSet({k \in S : Before(k, i)})
           /\ Rank(i, S) \in Nat /\ Cardinality(S) \in Nat
           /\ i \in S => Rank(i, S) < Cardinality(S)
<1> DEFINE B == {k \in S : Before(k, i)}
<1>1. Rank(i, S) = Cardinality(B)
  BY DEF Rank, Before
<1>2. IsFiniteSet(S) /\ Cardinality(S) \in Nat
  BY IncrementalAssumption, FS_Subset, FS_CardinalityType
<1>3. B \in SUBSET S
  OBVIOUS
<1>4. IsFiniteSet(B) /\ Cardinality(B) \in Nat /\ Cardinality(B) <= Cardinality(S)
      /\ (Cardinality(S) = Cardinality(B) => S = B)
  BY <1>2, <1>3, FS_Subset, FS_CardinalityType
<1>5. i \in S => S # B
  <2>1. i \in S => i \in Nat /\ jira[i].updated \in Int
    BY IncrementalAssumption DEF TypeOK, Stamps
  <2> QED
    BY <2>1 DEF Before
<1> QED
  BY <1>1, <1>2, <1>4, <1>5

LEMMA RankMonotone ==
    ASSUME TypeOK, NEW S \in SUBSET Issues, NEW k \in S, NEW i \in S, Before(k, i)
    PROVE  Rank(k, S) < Rank(i, S)
<1> DEFINE K == {x \in S : Before(x, k)}
           I == {x \in S : Before(x, i)}
<1>1. \A x \in S : x \in Nat /\ jira[x].updated \in Int
  BY IncrementalAssumption DEF TypeOK, Stamps
<1>2. K \in SUBSET I /\ k \in I /\ k \notin K
  BY <1>1 DEF Before
<1>3. Cardinality(K) <= Cardinality(I) /\ (Cardinality(I) = Cardinality(K) => I = K)
  BY <1>2, RankIs, FS_Subset
<1> QED
  BY <1>2, <1>3, RankIs

LEMMA Ordered ==
    ASSUME TypeOK, NEW k \in Issues, NEW i \in Issues, k # i
    PROVE  Before(k, i) \/ Before(i, k)
<1>1. k \in Nat /\ i \in Nat /\ jira[k].updated \in Int /\ jira[i].updated \in Int
  BY IncrementalAssumption DEF TypeOK, Stamps
<1> QED
  BY <1>1 DEF Before

\* Ranks leave no gap: if an issue comes after a page, the page is full.
LEMMA FullPage ==
    ASSUME TypeOK, NEW S \in SUBSET Issues, NEW i \in S, NEW o \in Nat,
           Rank(i, S) >= o + PageSize
    PROVE  ~(Cardinality({k \in S : Rank(k, S) \in o .. (o + PageSize) - 1}) < PageSize)
<1> DEFINE c == Cardinality(S)
           rank == [k \in S |-> Rank(k, S)]
           T == 0 .. (c - 1)
           window == o .. (o + PageSize) - 1
           page == {k \in S : Rank(k, S) \in window}
           part == [k \in page |-> Rank(k, S)]
<1>1. /\ c \in Nat /\ IsFiniteSet(S) /\ PageSize \in Nat /\ PageSize > 0
      /\ \A k \in S : Rank(k, S) \in Nat /\ Rank(k, S) < c
  <2>1. PageSize \in Nat /\ PageSize > 0
    BY IncrementalAssumption
  <2>2. c \in Nat /\ IsFiniteSet(S)
    BY RankIs
  <2>3. \A k \in S : Rank(k, S) \in Nat /\ Rank(k, S) < c
    BY RankIs
  <2> QED
    BY <2>1, <2>2, <2>3
<1>2. IsFiniteSet(T) /\ Cardinality(T) = c
  <2> HIDE DEF c
  <2>1. 0 \in Int /\ c - 1 \in Int
    BY <1>1
  <2>2. IsFiniteSet(T) /\ Cardinality(T) = IF 0 > c - 1 THEN 0 ELSE (c - 1) - 0 + 1
    BY <2>1, FS_Interval, Zenon
  <2> QED
    BY <1>1, <2>2
<1>3. rank \in Injection(S, T)
  <2>1. rank \in [S -> T]
    <3>1. \A k \in S : Rank(k, S) \in T
      BY <1>1
    <3> HIDE DEF T
    <3> QED
      BY <3>1
  <2>2. \A k, l \in S : rank[k] = rank[l] => k = l
    <3> SUFFICES ASSUME NEW k \in S, NEW l \in S, k # l PROVE rank[k] # rank[l]
      OBVIOUS
    <3>1. Rank(k, S) < Rank(l, S) \/ Rank(l, S) < Rank(k, S)
      BY Ordered, RankMonotone
    <3> QED
      BY <1>1, <3>1
  <2> HIDE DEF rank, T
  <2> QED
    BY <2>1, <2>2 DEF Injection, IsInjective
<1>4. rank \in Surjection(S, T)
  <2> HIDE DEF rank, T
  <2> QED
    BY <1>1, <1>2, <1>3, FS_Injection
<1>5. \A n \in window : \E k \in page : Rank(k, S) = n
  <2> SUFFICES ASSUME NEW n \in window PROVE \E k \in page : Rank(k, S) = n
    OBVIOUS
  <2>1. n \in T
    BY <1>1
  <2>2. PICK k \in S : rank[k] = n
    <3> HIDE DEF rank, T
    <3> QED
      BY <1>4, <2>1 DEF Surjection
  <2> QED
    BY <2>2
<1>6. part \in Surjection(page, window)
  <2> HIDE DEF window
  <2>1. part \in [page -> window]
    OBVIOUS
  <2>2. \A n \in window : \E k \in page : part[k] = n
    BY <1>5
  <2> HIDE DEF part, page
  <2> QED
    BY <2>1, <2>2 DEF Surjection
<1>7. IsFiniteSet(page) /\ Cardinality(page) \in Nat
  <2>1. page \in SUBSET S
    OBVIOUS
  <2> QED
    BY <1>1, <2>1, FS_Subset, FS_CardinalityType
<1>8. Cardinality(window) = PageSize
  <2>1. o \in Int /\ (o + PageSize) - 1 \in Int
    BY <1>1
  <2>2. Cardinality(window) =
            IF o > (o + PageSize) - 1 THEN 0 ELSE ((o + PageSize) - 1) - o + 1
    BY <2>1, FS_Interval, Zenon
  <2> QED
    BY <1>1, <2>2
<1>9. Cardinality(window) <= Cardinality(page)
  <2> HIDE DEF part, page, window
  <2> QED
    BY <1>6, <1>7, FS_Surjection
<1> QED
  BY <1>1, <1>7, <1>8, <1>9


-----------------------------------------------------------------------------
(* No unexplained gap *)

\* A step that leaves issue i as it is and what explains it.
Keeps(i) ==
    /\ jira'[i] = jira[i]
    /\ slid \cup cut \subseteq slid' \cup cut'
    /\ InPoint(i) => InPoint(i)'
    /\ \A r \in Runs : Accounts(r, i) => Accounts(r, i)' \/ InPoint(i)'

KeepsAll == \A i \in Issues : jira[i].edits > 0 => Keeps(i)

LEMMA StillExplained ==
    ASSUME NEW i \in Issues, Keeps(i), Explained(i)
    PROVE  Explained(i)'
BY DEF Keeps, Explained

\* A step keeps what a run explains that it is not about.
LEMMA StillRun ==
    ASSUME KeepsAll, UNCHANGED jira, NEW r \in Runs, RunExplains(r),
           runs'[r] = runs[r]
    PROVE  RunExplains(r)'
<1> SUFFICES ASSUME NEW i \in Issues, runs[r].phase \in {"enum", "answered"},
                    ProjectOf[i] = runs[r].project,
                    PassedBy(i, runs[r].started)
             PROVE  \/ Explained(i)'
                    \/ runs[r].got[i] = jira[i].edits
                    \/ <<r, i, jira[i].edits>> \in slid' \cup cut'
                    \/ runs[r].phase = "enum" /\ OnLaterPage(r, i)'
  BY DEF RunExplains, PassedBy
<1>1. Keeps(i)
  BY DEF KeepsAll, PassedBy
<1>2. OnLaterPage(r, i) => OnLaterPage(r, i)'
  BY DEF OnLaterPage, Matching, Rank
<1> QED
  BY <1>1, <1>2, StillExplained DEF RunExplains, Keeps

\* The same for the steps of a run that change neither points nor its records.
LEMMA RunKeeps ==
    ASSUME UNCHANGED <<jira, points>>, slid \cup cut \subseteq slid' \cup cut',
           \A r \in Runs :
                /\ runs[r].committed \subseteq runs'[r].committed
                /\ runs[r].phase \in WorkPhases \cup {"failed"} =>
                        runs'[r].phase \in WorkPhases \cup {"failed"}
                /\ \A i \in Issues : runs[r].got[i] = jira[i].edits =>
                        runs'[r].got[i] = jira[i].edits
    PROVE  KeepsAll
<1> SUFFICES ASSUME NEW i \in Issues PROVE Keeps(i)
  BY DEF KeepsAll
<1>1. InPoint(i) => InPoint(i)'
  BY DEF InPoint
<1>2. ASSUME NEW r \in Runs, Accounts(r, i) PROVE Accounts(r, i)'
  BY <1>2 DEF Accounts
<1> QED
  BY <1>1, <1>2 DEF Keeps

\* A clock that the overlap makes up for: no query skips what is edited now.
LEMMA SinceIsPast ==
    ASSUME TypeOK, NEW t \in Int, t <= Latest
    PROVE  SinceOf(t) <= now /\ SinceOf(t) \in Int
<1>1. SinceOf(t) <= t - Overlap /\ SinceOf(t) \in Int
  BY SinceType
<1>2. now \in Int /\ Overlap \in Int
  BY IncrementalAssumption DEF TypeOK, Stamps
<1> QED
  BY <1>1, <1>2 DEF Latest

LEMMA ClocksNext == SkewWithinOverlap /\ TypeOK /\ Clocks /\ [Next]_vars => Clocks'
<1> SUFFICES ASSUME SkewWithinOverlap, TypeOK, Clocks, [Next]_vars PROVE Clocks'
  OBVIOUS
<1>1. /\ now \in Int /\ Overlap \in Int
      /\ \A t \in ServerClock : t \in Int /\ t <= Latest
  <2>1. now \in Int /\ Overlap \in Int /\ \A s \in Skews : s \in Int /\ s <= Overlap
    BY IncrementalAssumption DEF TypeOK, Stamps, SkewWithinOverlap
  <2> QED
    BY <2>1 DEF ServerClock, Latest
<1> USE DEF Clocks, Latest
<1>2. ASSUME NEW i \in Issues, Edit(i) PROVE Clocks'
  <2>1. \A k \in Issues : jira'[k].updated <= now
    BY <1>1, <1>2 DEF Edit, TypeOK
  <2> QED
    BY <1>2, <2>1 DEF Edit
<1>3. CASE Tick
  <2>1. /\ \A i \in Issues : jira[i].updated \in Int
        /\ \A p \in Projects : cursor[p] \in Int /\ disk.cursor[p] \in Int
        /\ \A r \in Runs : runs[r].started \in Int
    BY DEF TypeOK, Stamps, Run
  <2> QED
    BY <1>1, <1>3, <2>1 DEF Tick
<1>4. ASSUME NEW r \in Runs, NEW p \in Projects, BeginProject(r, p) PROVE Clocks'
  <2>1. \A q \in Runs : runs'[q].started <= Latest
    BY <1>1, <1>4 DEF BeginProject, TypeOK, Run
  <2> QED
    BY <1>4, <2>1 DEF BeginProject
<1>5. ASSUME NEW r \in Runs, EndEnumeration(r) PROVE Clocks'
  <2>1. \A q \in Runs : runs'[q].started = runs[q].started
    BY <1>5 DEF EndEnumeration, TypeOK, Run
  <2>2. \A p \in Projects : cursor'[p] <= Latest
    BY <1>5 DEF EndEnumeration, TypeOK
  <2> QED
    BY <1>5, <2>1, <2>2 DEF EndEnumeration
<1>6. ASSUME NEW r \in Runs, AnswerPage(r) PROVE Clocks'
  <2>1. \A q \in Runs : runs'[q].started = runs[q].started
    <3>1. PICK g, f : runs' = [runs EXCEPT ![r].got = g,
                        ![r].offset = runs[r].offset + PageSize, ![r].phase = f]
      BY <1>6 DEF AnswerPage
    <3> QED
      BY <3>1 DEF TypeOK, Run
  <2> QED
    BY <1>6, <2>1 DEF AnswerPage
<1>7. ASSUME NEW r \in Runs, StartRun(r) \/ FinishAttachments(r) \/ FailRun(r)
      PROVE  Clocks'
  <2>1. \A q \in Runs : runs'[q].started = runs[q].started
    <3>1. runs \in [Runs -> Run] /\ runs[r] \in Run
      BY DEF TypeOK
    <3>2. \E f : runs'[r] = [runs[r] EXCEPT !.phase = f]
                \/ runs'[r] = [runs[r] EXCEPT !.phase = f, !.todo = Projects]
      BY <1>7, <3>1 DEF StartRun, FinishAttachments, FailRun
    <3>3. runs'[r].started = runs[r].started
      BY <3>1, <3>2 DEF Run
    <3>4. \A q \in Runs : q # r => runs'[q] = runs[q]
      BY <1>7, <3>1 DEF StartRun, FinishAttachments, FailRun
    <3> QED
      BY <3>3, <3>4
  <2> QED
    BY <1>7, <2>1 DEF StartRun, FinishAttachments, FailRun
<1>8. ASSUME NEW r \in Runs, WritePoint(r) PROVE Clocks'
  <2>1. \A q \in Runs : runs'[q].started = runs[q].started
    BY <1>8 DEF WritePoint, TypeOK, Run
  <2> QED
    BY <1>8, <2>1 DEF WritePoint, Save
<1>9. CASE Autosave
  BY <1>9 DEF Autosave, Save
<1>10. CASE CrashAndRestart
  <2>1. \A q \in Runs : runs'[q].started = runs[q].started
    BY <1>10 DEF CrashAndRestart, TypeOK, Run
  <2> QED
    BY <1>10, <2>1 DEF CrashAndRestart
<1>11. CASE UNCHANGED vars
  BY <1>11 DEF vars
<1> QED
  BY <1>2, <1>3, <1>4, <1>5, <1>6, <1>7, <1>8, <1>9, <1>10, <1>11 DEF Next


-----------------------------------------------------------------------------
\* paginateAllIssues addresses pages by their offset: an edit of another issue
\* either leaves an issue on a later page or slides it under the offset.
LEMMA EditSlides ==
    ASSUME TypeOK, NEW k \in Issues, Edit(k), NEW r \in Runs, NEW i \in Issues, i # k,
           runs[r].phase = "enum", OnLaterPage(r, i), jira[i].updated < now
    PROVE  OnLaterPage(r, i)' \/ <<r, i, jira[i].edits>> \in slid'
<1> DEFINE S == Matching(r)
           B == {x \in S : Before(x, i)}
           o == runs[r].offset
<1>1. /\ \A x \in Issues : x # k => jira'[x] = jira[x]
      /\ jira'[k].updated = now /\ jira'[k].edits = jira[k].edits + 1
      /\ UNCHANGED runs
  BY DEF Edit, TypeOK
<1>2. now \in Int /\ o \in Nat /\ jira[i].updated \in Int
      /\ jira[i].edits \in Versions
  BY DEF TypeOK, Stamps, Run
<1>3. S \in SUBSET Issues /\ i \in S
  BY DEF OnLaterPage, Matching
<1>4. \A x \in Issues : x # k => (x \in Matching(r)' <=> x \in S)
  BY <1>1 DEF Matching
<1>5. i \in Matching(r)'
  BY <1>3, <1>4
<1>6. \A x \in Issues : x # k => (Before(x, i)' <=> Before(x, i))
  BY <1>1 DEF Before
<1>7. ~Before(k, i)'
  BY <1>1, <1>2 DEF Before
<1>8. Rank(i, Matching(r))' = Cardinality(B \ {k})
  <2>1. Rank(i, Matching(r))' = Cardinality({x \in Matching(r)' : Before(x, i)'})
    BY DEF Rank, Before
  <2>2. Matching(r)' \subseteq Issues
    BY DEF Matching
  <2>3. {x \in Matching(r)' : Before(x, i)'} = B \ {k}
    BY <1>3, <1>4, <1>6, <1>7, <2>2
  <2> QED
    BY <2>1, <2>3
<1>9. Rank(i, S) = Cardinality(B) /\ IsFiniteSet(B) /\ Rank(i, S) \in Nat /\ Rank(i, S) >= o
  BY <1>3, RankIs DEF OnLaterPage
<1>10. CASE k \notin B
  <2>1. B \ {k} = B
    BY <1>10
  <2> QED
    BY <1>1, <1>5, <1>8, <1>9, <2>1 DEF OnLaterPage
<1>11. CASE k \in B
  <2>1. Cardinality(B \ {k}) = Cardinality(B) - 1
    <3> HIDE DEF B
    <3> QED
      BY <1>9, <1>11, FS_RemoveElement
  <2>2. CASE Rank(i, S) > o
    BY <1>1, <1>2, <1>5, <1>8, <1>9, <2>1, <2>2 DEF OnLaterPage
  <2>3. CASE Rank(i, S) = o
    <3>1. k \in S /\ Rank(k, S) < o
      BY <1>3, <1>11, <2>3, RankMonotone
    <3>2. <<r, i, jira[i].edits>> \in Runs \X Issues \X Versions
      BY <1>2
    <3>3. <<r, i, jira[i].edits>> \in SlidBy(k)
      BY <1>3, <2>3, <3>1, <3>2 DEF SlidBy
    <3> QED
      BY <3>3 DEF Edit
  <2> QED
    BY <1>2, <1>9, <2>2, <2>3
<1> QED
  BY <1>10, <1>11

LEMMA EditGap ==
    ASSUME TypeOK, GapInv, NEW k \in Issues, Edit(k)
    PROVE  /\ CursorExplained(cursor)' /\ CursorExplained(disk.cursor)'
           /\ \A r \in Runs : RunExplains(r)'
<1>1. /\ \A x \in Issues : x # k => jira'[x] = jira[x]
      /\ jira'[k].updated = now
      /\ UNCHANGED <<now, cursor, runs, points, disk, cut>> /\ slid \subseteq slid'
  BY DEF Edit, TypeOK
<1>2. \A t \in Int : t <= Latest => ~PassedBy(k, t)'
  <2> SUFFICES ASSUME NEW t \in Int, t <= Latest PROVE ~(now < SinceOf(t))
    BY <1>1 DEF PassedBy
  <2>1. now \in Int
    BY DEF TypeOK, Stamps
  <2> QED
    BY <2>1, SinceIsPast
<1>3. ASSUME NEW i \in Issues, i # k, Explained(i) PROVE Explained(i)'
  <2>1. InPoint(i) => InPoint(i)'
    BY <1>1, <1>3 DEF InPoint
  <2>2. \A r \in Runs : Accounts(r, i) => Accounts(r, i)'
    BY <1>1, <1>3 DEF Accounts
  <2> QED
    BY <1>1, <1>3, <2>1, <2>2 DEF Explained
<1>4. ASSUME NEW c \in [Projects -> Int], \A p \in Projects : c[p] <= Latest,
             CursorExplained(c),
             NEW i \in Issues, PassedBy(i, c[ProjectOf[i]])'
      PROVE  Explained(i)'
  <2>1. c[ProjectOf[i]] \in Int /\ c[ProjectOf[i]] <= Latest
    BY <1>4, IncrementalAssumption
  <2>2. i # k
    BY <1>2, <1>4, <2>1
  <2>3. PassedBy(i, c[ProjectOf[i]])
    BY <1>1, <1>4, <2>2 DEF PassedBy
  <2> QED
    BY <1>3, <1>4, <2>2, <2>3 DEF CursorExplained
<1>5. CursorExplained(cursor)' /\ CursorExplained(disk.cursor)'
  <2>1. cursor \in [Projects -> Int] /\ disk.cursor \in [Projects -> Int]
    BY DEF TypeOK
  <2> QED
    BY <1>1, <1>4, <2>1 DEF GapInv, Clocks, CursorExplained
<1>6. ASSUME NEW r \in Runs PROVE RunExplains(r)'
  <2> SUFFICES ASSUME NEW i \in Issues, runs[r].phase \in {"enum", "answered"},
                      ProjectOf[i] = runs[r].project,
                      PassedBy(i, runs[r].started)'
               PROVE  \/ Explained(i)'
                      \/ runs[r].got[i] = jira'[i].edits
                      \/ <<r, i, jira'[i].edits>> \in slid' \cup cut'
                      \/ runs[r].phase = "enum" /\ OnLaterPage(r, i)'
    BY <1>1 DEF RunExplains
  <2>1. runs[r].started \in Int /\ runs[r].started <= Latest
    BY DEF TypeOK, Run, GapInv, Clocks
  <2>2. i # k
    BY <1>1, <1>2, <2>1
  <2>3. PassedBy(i, runs[r].started) /\ jira'[i] = jira[i]
    BY <1>1, <2>2 DEF PassedBy
  <2>4. jira[i].updated < now
    <3>1. SinceOf(runs[r].started) <= now /\ SinceOf(runs[r].started) \in Int
      BY <2>1, SinceIsPast
    <3>2. jira[i].updated \in Int /\ now \in Int
      BY DEF TypeOK, Stamps
    <3> QED
      BY <2>3, <3>1, <3>2 DEF PassedBy
  <2>5. \/ Explained(i)
        \/ runs[r].got[i] = jira[i].edits
        \/ <<r, i, jira[i].edits>> \in slid \cup cut
        \/ runs[r].phase = "enum" /\ OnLaterPage(r, i)
    BY <2>3 DEF GapInv, RunExplains
  <2>6. runs[r].phase = "enum" /\ OnLaterPage(r, i) =>
            OnLaterPage(r, i)' \/ <<r, i, jira[i].edits>> \in slid'
    BY <2>2, <2>4, EditSlides
  <2> QED
    BY <1>1, <1>3, <2>2, <2>3, <2>5, <2>6
<1> QED
  BY <1>5, <1>6


\* Both cursors stay explained when a step keeps what explains them.
LEMMA CursorsStay ==
    ASSUME KeepsAll, GapInv, UNCHANGED jira,
           cursor' \in {cursor, disk.cursor}, disk'.cursor \in {cursor, disk.cursor}
    PROVE  CursorExplained(cursor)' /\ CursorExplained(disk.cursor)'
<1>1. ASSUME NEW c, CursorExplained(c),
             NEW i \in Issues, PassedBy(i, c[ProjectOf[i]])'
      PROVE  Explained(i)'
  <2>1. PassedBy(i, c[ProjectOf[i]])
    BY <1>1 DEF PassedBy
  <2> QED
    BY <1>1, <2>1, StillExplained DEF KeepsAll, PassedBy, CursorExplained
<1>2. CursorExplained(cursor) /\ CursorExplained(disk.cursor)
  BY DEF GapInv
<1>3. \A i \in Issues : PassedBy(i, cursor[ProjectOf[i]])' => Explained(i)'
  <2>1. CASE cursor' = cursor
    BY <1>1, <1>2, <2>1
  <2>2. CASE cursor' = disk.cursor
    BY <1>1, <1>2, <2>2
  <2> QED
    BY <2>1, <2>2
<1>4. \A i \in Issues : PassedBy(i, disk.cursor[ProjectOf[i]])' => Explained(i)'
  <2>1. CASE disk'.cursor = cursor
    BY <1>1, <1>2, <2>1
  <2>2. CASE disk'.cursor = disk.cursor
    BY <1>1, <1>2, <2>2
  <2> QED
    BY <2>1, <2>2
<1> QED
  BY <1>3, <1>4 DEF CursorExplained

\* runJqlEnumeration reads the cursor and the time, and begins at the first page.
LEMMA BeginGap ==
    ASSUME TypeOK, GapInv, NEW r \in Runs, NEW p \in Projects, BeginProject(r, p)
    PROVE  /\ CursorExplained(cursor)' /\ CursorExplained(disk.cursor)'
           /\ \A q \in Runs : RunExplains(q)'
<1>0. PICK t \in ServerClock :
            runs' = [runs EXCEPT ![r].phase = "enum", ![r].todo = @ \ {p},
                                 ![r].project = p, ![r].since = SinceOf(cursor[p]),
                                 ![r].started = t, ![r].offset = 0]
  BY DEF BeginProject
<1>1. runs[r].phase = "ready" /\ UNCHANGED <<now, jira, cursor, points, disk, slid, cut>>
  BY DEF BeginProject
<1>2. /\ runs'[r].phase = "enum" /\ runs'[r].project = p
      /\ runs'[r].since = SinceOf(cursor[p]) 
      /\ runs'[r].offset = 0 /\ runs'[r].got = runs[r].got
      /\ runs'[r].committed = runs[r].committed
  BY <1>0 DEF TypeOK, Run
<1>3. \A q \in Runs : q # r => runs'[q] = runs[q]
  BY <1>0 DEF TypeOK
<1>4. KeepsAll
  BY <1>1, <1>2, <1>3, RunKeeps DEF WorkPhases
<1>5. ASSUME NEW i \in Issues, ProjectOf[i] = p, jira[i].edits > 0
      PROVE  Explained(i)' \/ OnLaterPage(r, i)'
  <2>1. CASE PassedBy(i, cursor[p])
    <3>1. Explained(i) /\ Keeps(i)
      BY <1>4, <1>5, <2>1 DEF GapInv, CursorExplained, KeepsAll
    <3> QED
      BY <3>1, StillExplained
  <2>2. CASE ~PassedBy(i, cursor[p])
    <3>1. SinceOf(cursor[p]) \in Int /\ jira[i].updated \in Int
      BY SinceType DEF TypeOK, Stamps
    <3>2. i \in Matching(r)'
      BY <1>1, <1>2, <1>5, <2>2, <3>1 DEF PassedBy, Matching
    <3>3. Matching(r)' \in SUBSET Issues
      BY DEF Matching
    <3>4. Rank(i, Matching(r)') \in Nat
      BY <3>3, RankIs
    <3>5. Rank(i, Matching(r))' = Rank(i, Matching(r)')
      BY <1>1 DEF Rank
    <3> QED
      BY <1>2, <3>2, <3>4, <3>5 DEF OnLaterPage
  <2> QED
    BY <2>1, <2>2
<1>6. RunExplains(r)'
  BY <1>1, <1>2, <1>5 DEF RunExplains, PassedBy
<1>7. \A q \in Runs : RunExplains(q)'
  BY <1>1, <1>3, <1>4, <1>6, StillRun DEF GapInv
<1> QED
  BY <1>1, <1>4, <1>7, CursorsStay

\* paginateAllIssues stops only when no issue is left on a later page, or at the
\* hard cap.
LEMMA PageGap ==
    ASSUME TypeOK, GapInv, NEW r \in Runs, AnswerPage(r)
    PROVE  /\ CursorExplained(cursor)' /\ CursorExplained(disk.cursor)'
           /\ \A q \in Runs : RunExplains(q)'
<1> DEFINE S == Matching(r)
           o == runs[r].offset
           next == o + PageSize
           page == {i \in S : Rank(i, S) \in o .. next - 1}
           got == [i \in Issues |-> IF i \in page THEN jira[i].edits ELSE runs[r].got[i]]
           far == {k \in S : Rank(k, S) >= next}
<1>1. runs[r].phase = "enum" /\ UNCHANGED <<now, jira, cursor, points, disk, slid>>
  BY DEF AnswerPage
<1>2. cut' = IF next > HardCap THEN cut \cup {<<r, i, jira[i].edits>> : i \in far} ELSE cut
  BY DEF AnswerPage
<1>3. PICK tellsTotal \in BOOLEAN :
        runs' = [runs EXCEPT ![r].got = got, ![r].offset = next,
                    ![r].phase = IF \/ next > HardCap
                                    \/ tellsTotal /\ next >= Cardinality(S)
                                    \/ Cardinality(page) < PageSize
                                 THEN "answered" ELSE "enum"]
  BY DEF AnswerPage, TypeOK
<1>4. runs \in [Runs -> Run] /\ runs[r] \in Run /\ o \in Nat /\ PageSize \in Nat
      /\ next \in Nat /\ HardCap \in Nat /\ S \in SUBSET Issues
  BY IncrementalAssumption DEF TypeOK, Run, Matching
<1>5. /\ runs'[r].got = got /\ runs'[r].offset = next
      /\ runs'[r].phase = IF \/ next > HardCap
                             \/ tellsTotal /\ next >= Cardinality(S)
                             \/ Cardinality(page) < PageSize
                          THEN "answered" ELSE "enum"
      /\ runs'[r].project = runs[r].project /\ runs'[r].since = runs[r].since
      /\ runs'[r].started = runs[r].started /\ runs'[r].committed = runs[r].committed
  <2> HIDE DEF got, next, page, S
  <2> QED
    BY <1>3, <1>4 DEF Run
<1>6. \A q \in Runs : q # r => runs'[q] = runs[q]
  BY <1>3, <1>4
<1>7. KeepsAll
  <2>1. \A i \in Issues : runs[r].got[i] = jira[i].edits => got[i] = jira[i].edits
    OBVIOUS
  <2>2. runs'[r].phase \in WorkPhases
    BY <1>5 DEF WorkPhases
  <2>3. slid \cup cut \subseteq slid' \cup cut'
    BY <1>1, <1>2
  <2> HIDE DEF got, far, next, page
  <2> QED
    BY <1>1, <1>5, <1>6, <2>1, <2>2, <2>3, RunKeeps
<1>8. ASSUME NEW i \in Issues, OnLaterPage(r, i)
      PROVE  \/ got[i] = jira[i].edits
             \/ <<r, i, jira[i].edits>> \in cut'
             \/ runs'[r].phase = "enum" /\ OnLaterPage(r, i)'
  <2>1. i \in S /\ Rank(i, S) >= o /\ Rank(i, S) \in Nat /\ Rank(i, S) < Cardinality(S)
        /\ Cardinality(S) \in Nat
    BY <1>4, <1>8, RankIs DEF OnLaterPage
  <2>2. CASE Rank(i, S) < next
    BY <1>4, <2>1, <2>2
  <2>3. CASE Rank(i, S) >= next /\ next > HardCap
    BY <1>2, <2>1, <2>3
  <2>4. CASE Rank(i, S) >= next /\ ~(next > HardCap)
    <3>1. ~(next >= Cardinality(S))
      BY <1>4, <2>1, <2>4
    <3>2. ~(Cardinality(page) < PageSize)
      BY <1>4, <2>1, <2>4, FullPage
    <3>3. runs'[r].phase = "enum"
      BY <1>5, <2>4, <3>1, <3>2
    <3>4. Matching(r)' = S
      BY <1>1, <1>5 DEF Matching
    <3>5. Rank(i, Matching(r))' = Rank(i, S)
      BY <1>1, <3>4 DEF Rank
    <3> QED
      BY <1>5, <2>1, <2>4, <3>3, <3>4, <3>5 DEF OnLaterPage
  <2> QED
    BY <1>4, <2>1, <2>2, <2>3, <2>4
<1>9. RunExplains(r)'
  <2> SUFFICES ASSUME NEW i \in Issues, ProjectOf[i] = runs[r].project,
                      PassedBy(i, runs[r].started)
               PROVE  \/ Explained(i)'
                      \/ got[i] = jira[i].edits
                      \/ <<r, i, jira[i].edits>> \in slid' \cup cut'
                      \/ runs'[r].phase = "enum" /\ OnLaterPage(r, i)'
    <3> HIDE DEF got
    <3> QED
      BY <1>1, <1>5 DEF RunExplains, PassedBy
  <2>1. Keeps(i)
    BY <1>7 DEF KeepsAll, PassedBy
  <2>2. \/ Explained(i)
        \/ runs[r].got[i] = jira[i].edits
        \/ <<r, i, jira[i].edits>> \in slid \cup cut
        \/ OnLaterPage(r, i)
    BY <1>1 DEF GapInv, RunExplains
  <2>3. runs[r].got[i] = jira[i].edits => got[i] = jira[i].edits
    OBVIOUS
  <2>4. Explained(i) => Explained(i)'
    BY <2>1, StillExplained
  <2>5. slid \cup cut \subseteq slid' \cup cut'
    BY <2>1 DEF Keeps
  <2> HIDE DEF got
  <2> QED
    BY <1>8, <2>2, <2>3, <2>4, <2>5
<1>10. \A q \in Runs : RunExplains(q)'
  BY <1>1, <1>6, <1>7, <1>9, StillRun DEF GapInv
<1> QED
  BY <1>1, <1>7, <1>10, CursorsStay


\* The cursor is committed: what it passes by now, the run has or has missed.
LEMMA CommitGap ==
    ASSUME TypeOK, GapInv, NEW r \in Runs, EndEnumeration(r)
    PROVE  /\ CursorExplained(cursor)' /\ CursorExplained(disk.cursor)'
           /\ \A q \in Runs : RunExplains(q)'
<1> DEFINE p == runs[r].project
<1>1. /\ runs[r].phase = "answered" /\ UNCHANGED <<now, jira, points, disk, slid, cut>>
      /\ runs' = [runs EXCEPT ![r].phase = "attach", ![r].committed = @ \cup {p}]
      /\ cursor' = [cursor EXCEPT ![p] = runs[r].started]
  BY DEF EndEnumeration
<1>2. /\ runs'[r].phase = "attach" /\ runs'[r].got = runs[r].got
      /\ runs'[r].committed = runs[r].committed \cup {p}
      /\ p \in Projects
  BY <1>1 DEF TypeOK, Run
<1>3. \A q \in Runs : q # r => runs'[q] = runs[q]
  BY <1>1 DEF TypeOK
<1>4. KeepsAll
  BY <1>1, <1>2, <1>3, RunKeeps DEF WorkPhases
<1>5. \A q \in Runs : RunExplains(q)'
  <2>1. RunExplains(r)'
    BY <1>2 DEF RunExplains
  <2> QED
    BY <1>1, <1>3, <1>4, <2>1, StillRun DEF GapInv
<1>6. ASSUME NEW i \in Issues, PassedBy(i, cursor'[ProjectOf[i]]) PROVE Explained(i)'
  <2>1. Keeps(i)
    BY <1>4, <1>6 DEF KeepsAll, PassedBy
  <2>2. CASE ProjectOf[i] = p
    <3>1. cursor'[p] = runs[r].started
      BY <1>1, <1>2 DEF TypeOK
    <3>2. \/ Explained(i)
          \/ runs[r].got[i] = jira[i].edits
          \/ <<r, i, jira[i].edits>> \in slid \cup cut
      BY <1>1, <1>6, <2>2, <3>1 DEF GapInv, RunExplains
    <3>3. ~Explained(i) => Accounts(r, i)'
      BY <1>1, <1>2, <2>2, <3>2 DEF Accounts, WorkPhases
    <3> QED
      BY <2>1, <3>3, StillExplained DEF Explained
  <2>3. CASE ProjectOf[i] # p
    <3>1. cursor'[ProjectOf[i]] = cursor[ProjectOf[i]]
      BY <1>1, <2>3, IncrementalAssumption DEF TypeOK
    <3>2. Explained(i)
      BY <1>6, <2>3, <3>1 DEF GapInv, CursorExplained
    <3> QED
      BY <2>1, <3>2, StillExplained
  <2> QED
    BY <2>2, <2>3
<1>7. CursorExplained(cursor)'
  BY <1>1, <1>6 DEF CursorExplained, PassedBy
<1>8. CursorExplained(disk.cursor)'
  <2>1. ASSUME NEW i \in Issues, PassedBy(i, disk.cursor[ProjectOf[i]]) PROVE Explained(i)'
    BY <1>4, <2>1, StillExplained DEF KeepsAll, PassedBy, GapInv, CursorExplained
  <2> QED
    BY <1>1, <2>1 DEF CursorExplained, PassedBy
<1> QED
  BY <1>5, <1>7, <1>8

\* The point of a run holds all that the run has collected.
LEMMA PointGap ==
    ASSUME TypeOK, GapInv, NEW r \in Runs, WritePoint(r)
    PROVE  /\ CursorExplained(cursor)' /\ CursorExplained(disk.cursor)'
           /\ \A q \in Runs : RunExplains(q)'
<1>0. PICK prior \in Newest :
            points' = Append(points, [manifest |-> Manifest(runs[r].got), prior |-> prior])
  BY DEF WritePoint
<1> DEFINE new == [manifest |-> Manifest(runs[r].got), prior |-> prior]
           m == Len(points) + 1
<1>1. /\ UNCHANGED <<now, jira, cursor, slid, cut>> /\ disk'.cursor = cursor
      /\ points' = Append(points, new) /\ runs' = [runs EXCEPT ![r].phase = "done"]
  BY <1>0 DEF WritePoint, Save
<1>2. runs'[r] = [runs[r] EXCEPT !.phase = "done"] /\ runs[r] \in Run
      /\ \A q \in Runs : q # r => runs'[q] = runs[q]
  BY <1>1 DEF TypeOK
<1>3. runs'[r].phase = "done" /\ runs'[r].committed = runs[r].committed
  BY <1>2 DEF Run
<1>4. /\ points \in Seq(Point) /\ Len(points) \in Nat
      /\ DOMAIN points = 1 .. Len(points)
  BY DEF TypeOK
<1>5. /\ DOMAIN points' = 1 .. m /\ points'[m] = new
      /\ \A n \in DOMAIN points : n \in DOMAIN points' /\ points'[n] = points[n]
  <2> HIDE DEF new
  <2> QED
    BY <1>1, <1>4
<1>6. ASSUME NEW i \in Issues, jira[i].edits > 0 PROVE Keeps(i)
  <2>1. InPoint(i) => InPoint(i)'
    BY <1>1, <1>5 DEF InPoint
  <2>2. runs[r].got[i] = jira[i].edits => InPoint(i)'
    <3> SUFFICES ASSUME runs[r].got[i] = jira[i].edits PROVE InPoint(i)'
      OBVIOUS
    <3>1. points'[m].manifest = Manifest(runs[r].got)
      BY <1>5
    <3>2. i \in DOMAIN Manifest(runs[r].got)
          /\ Manifest(runs[r].got)[i] = jira[i].edits
      BY <1>6 DEF Manifest
    <3>3. m \in DOMAIN points'
      BY <1>4, <1>5
    <3> QED
      BY <1>1, <3>1, <3>2, <3>3 DEF InPoint
  <2>3. \A q \in Runs : Accounts(q, i) => Accounts(q, i)' \/ InPoint(i)'
    BY <1>1, <1>2, <1>3, <2>2 DEF Accounts
  <2> QED
    BY <1>1, <2>1, <2>3 DEF Keeps
<1>7. KeepsAll
  BY <1>6 DEF KeepsAll
<1>8. \A q \in Runs : RunExplains(q)'
  <2>1. RunExplains(r)'
    BY <1>3 DEF RunExplains
  <2> QED
    BY <1>1, <1>2, <1>7, <2>1, StillRun DEF GapInv
<1> QED
  BY <1>1, <1>7, <1>8, CursorsStay

\* The other steps of a run, the clock, and the snapshot.
LEMMA QuietGap ==
    ASSUME TypeOK, GapInv, PointsSaved,
           \/ \E r \in Runs : StartRun(r) \/ FinishAttachments(r) \/ FailRun(r)
           \/ Tick \/ Autosave \/ CrashAndRestart \/ UNCHANGED vars
    PROVE  /\ CursorExplained(cursor)' /\ CursorExplained(disk.cursor)'
           /\ \A q \in Runs : RunExplains(q)'
<1>1. /\ UNCHANGED <<jira, points, slid, cut>>
      /\ cursor' \in {cursor, disk.cursor} /\ disk'.cursor \in {cursor, disk.cursor}
  <2>1. CASE \E r \in Runs : StartRun(r) \/ FinishAttachments(r) \/ FailRun(r)
    BY <2>1 DEF StartRun, FinishAttachments, FailRun
  <2>2. CASE Tick \/ UNCHANGED vars
    BY <2>2 DEF Tick, vars
  <2>3. CASE Autosave
    BY <2>3 DEF Autosave, Save
  <2>4. CASE CrashAndRestart
    BY <2>4 DEF CrashAndRestart, PointsSaved
  <2> QED
    BY <2>1, <2>2, <2>3, <2>4
<1>2. \A q \in Runs :
        \/ runs'[q] = runs[q]
        \/ /\ runs'[q].phase \in {"ready", "attach", "failed"}
           /\ runs[q].phase \in WorkPhases \cup {"failed"} =>
                    runs'[q].phase \in WorkPhases \cup {"failed"}
           /\ runs'[q].committed = runs[q].committed /\ runs'[q].got = runs[q].got
  <2>0. runs \in [Runs -> Run]
    BY DEF TypeOK
  <2>1. ASSUME NEW r \in Runs, StartRun(r) \/ FinishAttachments(r) \/ FailRun(r),
               NEW q \in Runs, runs'[q] # runs[q]
        PROVE  /\ runs'[q].phase \in {"ready", "attach", "failed"}
               /\ runs[q].phase \in WorkPhases \cup {"failed"} =>
                        runs'[q].phase \in WorkPhases \cup {"failed"}
               /\ runs'[q].committed = runs[q].committed /\ runs'[q].got = runs[q].got
    <3>1. q = r
      BY <2>0, <2>1 DEF StartRun, FinishAttachments, FailRun
    <3>2. runs[r] \in Run
      BY <2>0
    <3>3. CASE StartRun(r)
      <4>1. runs'[r] = [runs[r] EXCEPT !.phase = "ready", !.todo = Projects]
        BY <2>0, <3>3 DEF StartRun
      <4> QED
        BY <3>1, <3>2, <4>1 DEF Run, WorkPhases
    <3>4. CASE FinishAttachments(r)
      <4>1. runs'[r] = [runs[r] EXCEPT !.phase = "ready"]
        BY <2>0, <3>4 DEF FinishAttachments
      <4> QED
        BY <3>1, <3>2, <4>1 DEF Run, WorkPhases
    <3>5. CASE FailRun(r)
      <4>1. runs'[r] = [runs[r] EXCEPT !.phase = "failed"]
        BY <2>0, <3>5 DEF FailRun
      <4> QED
        BY <3>1, <3>2, <4>1 DEF Run
    <3> QED
      BY <2>1, <3>3, <3>4, <3>5
  <2>2. ASSUME CrashAndRestart, NEW q \in Runs, runs'[q] # runs[q]
        PROVE  /\ runs'[q].phase = "failed"
               /\ runs'[q].committed = runs[q].committed /\ runs'[q].got = runs[q].got
    <3>1. runs'[q] = [runs[q] EXCEPT !.phase = "failed"] /\ runs[q] \in Run
      BY <2>0, <2>2 DEF CrashAndRestart
    <3> QED
      BY <3>1 DEF Run
  <2>3. Tick \/ Autosave \/ UNCHANGED vars => UNCHANGED runs
    BY DEF Tick, Autosave, vars
  <2> QED
    BY <2>1, <2>2, <2>3
<1>3. KeepsAll
  <2>1. \A q \in Runs :
          /\ runs[q].committed \subseteq runs'[q].committed
          /\ runs[q].phase \in WorkPhases \cup {"failed"} =>
                runs'[q].phase \in WorkPhases \cup {"failed"}
          /\ runs'[q].got = runs[q].got
    BY <1>2
  <2> QED
    BY <1>1, <2>1, RunKeeps
<1>4. ASSUME NEW q \in Runs PROVE RunExplains(q)'
  <2>1. CASE runs'[q] = runs[q]
    BY <1>1, <1>3, <2>1, StillRun DEF GapInv
  <2>2. CASE runs'[q].phase \in {"ready", "attach", "failed"}
    BY <2>2 DEF RunExplains
  <2> QED
    BY <1>2, <2>1, <2>2
<1> QED
  BY <1>1, <1>3, <1>4, CursorsStay

LEMMA GapNext ==
    SkewWithinOverlap /\ SavedInv /\ GapInv /\ [Next]_vars => GapInv'
<1> SUFFICES ASSUME SkewWithinOverlap, SavedInv, GapInv, [Next]_vars PROVE GapInv'
  OBVIOUS
<1>1. TypeOK /\ PointsSaved
  BY DEF SavedInv
<1>2. Clocks'
  BY <1>1, ClocksNext DEF GapInv
<1>3. /\ CursorExplained(cursor)' /\ CursorExplained(disk.cursor)'
      /\ \A q \in Runs : RunExplains(q)'
  BY <1>1, EditGap, BeginGap, PageGap, CommitGap, PointGap, QuietGap DEF Next
<1> QED
  BY <1>2, <1>3 DEF GapInv

LEMMA SavedInit == Init => SavedInv
BY TypeInit DEF Init, SavedInv, PointsSaved

LEMMA GapInit == Init => GapInv
<1> SUFFICES ASSUME Init PROVE GapInv
  OBVIOUS
<1>1. \A r \in Runs : runs[r].phase = "idle" /\ runs[r].started = Never
  BY DEF Init, IdleRun
<1>2. Never \in Int /\ Never <= Latest
  BY IncrementalAssumption DEF Init, Never, Latest
<1>3. Clocks
  BY <1>1, <1>2 DEF Init, Clocks
<1>4. \A i \in Issues : jira[i].edits = 0
  BY DEF Init
<1> QED
  BY <1>1, <1>3, <1>4 DEF GapInv, CursorExplained, RunExplains, PassedBy

\* Who accounts for an issue either still holds it or is the reason of the gap.
LEMMA GapExplained == TypeOK /\ GapInv => GapsExplained
<1> SUFFICES ASSUME TypeOK, GapInv, NEW i \in Issues, jira[i].edits > 0
             PROVE  \/ Held(i) \/ Refetched(i) \/ LostWithRun(i)
                    \/ \E r \in Runs : /\ ProjectOf[i] \in runs[r].committed
                                       /\ <<r, i, jira[i].edits>> \in slid \cup cut
  BY DEF GapsExplained
<1>1. PassedBy(i, cursor[ProjectOf[i]]) \/ Refetched(i)
  <2>1. cursor[ProjectOf[i]] \in Int
    BY IncrementalAssumption DEF TypeOK
  <2>2. SinceOf(cursor[ProjectOf[i]]) \in Int
    BY <2>1, SinceType
  <2>3. jira[i].updated \in Int
    BY DEF TypeOK, Stamps
  <2> QED
    BY <2>2, <2>3 DEF PassedBy, Refetched
<1>2. PassedBy(i, cursor[ProjectOf[i]]) => Explained(i)
  BY DEF GapInv, CursorExplained
<1>3. InPoint(i) => Held(i)
  BY DEF InPoint, Held
<1>4. ASSUME NEW r \in Runs, Accounts(r, i)
      PROVE  \/ Held(i) \/ LostWithRun(i)
             \/ /\ ProjectOf[i] \in runs[r].committed
                /\ <<r, i, jira[i].edits>> \in slid \cup cut
  BY <1>4 DEF Accounts, Held, LostWithRun
<1> QED
  BY <1>1, <1>2, <1>3, <1>4 DEF Explained

-----------------------------------------------------------------------------
LEMMA SavedInvariant == Spec => []SavedInv
<1>1. SavedInv /\ [Next]_vars => SavedInv'
  BY SavedNext
<1> QED
  BY SavedInit, <1>1, PTL DEF Spec

\* The variables of the pipeline keep their types: among others, a manifest
\* holds versions of issues and no run collects more than there was.
THEOREM TypeCorrect == Spec => []TypeOK
<1>1. SavedInv => TypeOK
  BY DEF SavedInv
<1> QED
  BY <1>1, SavedInvariant, PTL

\* No edit falls between two runs but with a run that failed after it moved the
\* cursor, under the offset of a query, or beyond the hard cap; for any issues,
\* runs and page sizes, if the server is not ahead of Jira by more than
\* OVERLAP_BUFFER_MS.
THEOREM GapsHaveCause ==
    ASSUME SkewWithinOverlap
    PROVE  Spec => []GapsExplained
<1>1. SavedInv /\ GapInv /\ [Next]_vars => (SavedInv /\ GapInv)'
  BY SavedNext, GapNext
<1>2. Init => SavedInv /\ GapInv
  BY SavedInit, GapInit
<1>3. SavedInv /\ GapInv => GapsExplained
  BY GapExplained DEF SavedInv
<1> QED
  BY <1>1, <1>2, <1>3, PTL DEF Spec
=============================================================================
