------------------------ MODULE AttachmentStoreProofs ------------------------
(***************************************************************************)
(* AttachmentStore for any number of runs and attachments: every entry     *)
(* leads to whole bytes, and a backup point has an entry for all that its  *)
(* run found.  What carries both over a crash is that db.json holds a      *)
(* prefix of the entries in memory, and what carries the first over a torn *)
(* write is that no entry of the attachment exists yet.                    *)
(***************************************************************************)
EXTENDS AttachmentStore, SequenceTheorems, WellFoundedInduction, TLAPS

\* A sidecar points back, to an entry with the bytes of its attachment.
Linked(es) ==
    \A n \in DOMAIN es : es[n].prior # 0 =>
        /\ es[n].prior \in 1 .. (n - 1)
        /\ es[es[n].prior].prior = 0
        /\ es[es[n].prior].attachment = es[n].attachment

WholeFiles ==
    \A n \in DOMAIN entries :
        files[entries[n].attachment] = "whole" \/ entries[n].attachment \in spoiled

\* Entries are only added, and a restart goes back to what was saved.
DiskIsPrefix ==
    /\ DOMAIN disk.entries \subseteq DOMAIN entries
    /\ \A n \in DOMAIN disk.entries : disk.entries[n] = entries[n]
    /\ disk.points \subseteq points

\* Nobody has what a run downloads, unless another run has stored it meanwhile.
FirstOfItsKind ==
    \A r \in Runs : runs[r].phase = "downloading" /\ ~runs[r].beaten =>
        \A n \in DOMAIN entries : entries[n].attachment # runs[r].at

\* The entry run r made for attachment a.
Held(es, r, a) == \E n \in DOMAIN es : es[n].run = r /\ es[n].attachment = a

\* What a run at work has found is still to do, or being downloaded, or held.
Accounted ==
    \A r \in Runs : AtWork(r) =>
        \A a \in runs[r].found :
            \/ a \in runs[r].todo
            \/ runs[r].phase = "downloading" /\ a = runs[r].at
            \/ Held(entries, r, a)

PointsOfDone == \A r \in Runs : PointId(r) \in points => runs[r].phase = "done"

BytesInv == Linked(entries) /\ WholeFiles /\ FirstOfItsKind

PointsInv == Accounted /\ PointsOfDone /\ PointHoldsAttachments

IInv == TypeOK /\ DiskIsPrefix /\ PointsInv

-----------------------------------------------------------------------------
\* A set of entries that is not empty has a newest one.
LEMMA NewestExists ==
    ASSUME NEW m \in Nat, NEW ns \in SUBSET (1 .. m), ns # {}
    PROVE  Newest(ns) \in ns
<1> DEFINE Back == {m - n : n \in ns}
           Less == OpToRel(<, Nat)
<1>1. Back \subseteq Nat /\ Back # {}
  <2>1. \A n \in ns : n \in 1 .. m /\ m - n \in Nat
    OBVIOUS
  <2>2. PICK n \in ns : TRUE
    OBVIOUS
  <2>3. m - n \in Back
    OBVIOUS
  <2> QED
    BY <2>1, <2>3
<1>2. PICK x \in Back : \A y \in Back : ~(<<y, x>> \in Less)
  <2>1. IsWellFoundedOn(Less, Nat)
    BY NatLessThanWellFounded
  <2> HIDE DEF Less, Back
  <2> QED
    BY <1>1, <2>1, WFMin
<1>3. \A y \in Back : ~(y < x)
  <2> SUFFICES ASSUME NEW y \in Back, y < x
               PROVE  <<y, x>> \in Less
    BY <1>2
  <2> QED
    BY <1>1 DEF OpToRel
<1>4. PICK n \in ns : x = m - n
  OBVIOUS
<1>5. \A k \in ns : k <= n
  <2> SUFFICES ASSUME NEW k \in ns, ~(k <= n)
               PROVE  FALSE
    OBVIOUS
  <2> QED
    BY <1>3, <1>4
<1> QED
  BY <1>5 DEF Newest

\* findPriorManifestEntry answers 0 if and only if no entry has the bytes, and
\* else an entry that has.
LEMMA FindPriorFinds ==
    ASSUME TypeOK, NEW a \in Attachments
    PROVE  /\ FindPrior(a) = 0 <=> Stored(a) = {}
           /\ FindPrior(a) # 0 => FindPrior(a) \in Stored(a)
           /\ FindPrior(a) \in Nat
<1>1. /\ Len(entries) \in Nat /\ DOMAIN entries = 1 .. Len(entries)
      /\ Stored(a) \in SUBSET (1 .. Len(entries))
  BY DEF TypeOK, Stored
<1>2. CASE Stored(a) = {}
  BY <1>2 DEF FindPrior
<1>3. CASE Stored(a) # {}
  <2>1. Newest(Stored(a)) \in Stored(a)
    BY <1>1, <1>3, NewestExists
  <2> QED
    BY <1>1, <1>3, <2>1 DEF FindPrior
<1> QED
  BY <1>2, <1>3

\* What a new entry is,
LEMMA NewEntryIs ==
    ASSUME NEW r \in Runs, NEW a \in Attachments, NEW prior \in Nat
    PROVE  /\ NewEntry(r, a, prior) \in Entry
           /\ NewEntry(r, a, prior).run = r
           /\ NewEntry(r, a, prior).attachment = a
           /\ NewEntry(r, a, prior).prior = prior
BY DEF NewEntry, Entry, ProjectId, Ids

\* and the entries once it is appended.
LEMMA Appended ==
    ASSUME NEW es \in Seq(Entry), NEW e \in Entry
    PROVE  /\ Append(es, e) \in Seq(Entry)
           /\ Len(es) \in Nat
           /\ DOMAIN es = 1 .. Len(es)
           /\ DOMAIN Append(es, e) = 1 .. (Len(es) + 1)
           /\ \A n \in DOMAIN es : Append(es, e)[n] = es[n]
           /\ Append(es, e)[Len(es) + 1] = e
BY AppendProperties

\* Every entry is one of an attachment.
LEMMA EntriesOfAttachments ==
    ASSUME TypeOK
    PROVE  \A n \in DOMAIN entries : entries[n].attachment \in Attachments
<1>1. \A e \in Entry : e.attachment \in Attachments
  BY DEF Entry
<1>2. entries \in Seq(Entry)
  BY DEF TypeOK
<1>3. \A n \in DOMAIN entries : entries[n] \in Entry
  BY <1>2
<1> QED
  BY <1>1, <1>3

\* What a run keeps and what it changes.
LEMMA RunTypes ==
    ASSUME NEW run \in Run
    PROVE  /\ run.found \in SUBSET Attachments /\ run.todo \in SUBSET Attachments
           /\ run.at \in Attachments
           /\ \A p \in {"idle", "working", "downloading", "done", "failed"} :
                [run EXCEPT !.phase = p] \in Run
BY DEF Run

-----------------------------------------------------------------------------
\* The types and the parts that need no environment hold at first.
LEMMA InvInit == Init => IInv
<1> SUFFICES ASSUME Init PROVE IInv
  OBVIOUS
<1> DEFINE first == CHOOSE a \in Attachments : TRUE
<1>1. first \in Attachments
  BY AttachmentsAssumption
<1>2. TypeOK
  <2>1. runs \in [Runs -> Run]
    <3> DEFINE idle == [phase |-> "idle", found |-> {}, todo |-> {}, at |-> first,
                        beaten |-> FALSE]
    <3>1. idle \in Run
      BY <1>1 DEF Run
    <3>2. runs = [r \in Runs |-> idle]
      BY DEF Init
    <3> QED
      BY <3>1, <3>2
  <2>2. disk \in [entries : Seq(Entry), points : SUBSET Ids]
    BY DEF Init
  <2> QED
    BY <2>1, <2>2 DEF Init, TypeOK
<1>3. DiskIsPrefix
  BY DEF Init, DiskIsPrefix
<1>4. PointsInv
  BY DEF Init, PointsInv, Accounted, AtWork, PointsOfDone, PointHoldsAttachments, Complete
<1> QED
  BY <1>2, <1>3, <1>4 DEF IInv

\* The restart goes back to what was saved, and every run at work has failed.
LEMMA ReloadType ==
    ASSUME TypeOK, Reload, files' \in [Attachments -> {"absent", "torn", "whole"}],
           spoiled' \subseteq Attachments
    PROVE  TypeOK'
<1>1. \A r \in Runs : [runs[r] EXCEPT !.phase = "failed"] \in Run
  BY RunTypes DEF TypeOK
<1>2. runs' \in [Runs -> Run]
  BY <1>1 DEF Reload, TypeOK
<1> QED
  BY <1>2 DEF Reload, TypeOK

\* A save writes the entries, or nothing.
LEMMA SaveType ==
    ASSUME TypeOK, NEW ps \in SUBSET Ids, Save(ps)
    PROVE  disk' \in [entries : Seq(Entry), points : SUBSET Ids]
<1> DEFINE saved == [entries |-> entries, points |-> ps]
<1>1. saved \in [entries : Seq(Entry), points : SUBSET Ids]
  BY DEF TypeOK
<1>2. disk' = saved \/ disk' = disk
  BY DEF Save
<1> HIDE DEF saved
<1> QED
  BY <1>1, <1>2 DEF TypeOK

\* A torn file is one of its states.
LEMMA TearType ==
    ASSUME TypeOK, NEW r \in Runs, Tear(r)
    PROVE  /\ files' \in [Attachments -> {"absent", "torn", "whole"}]
           /\ spoiled' \subseteq Attachments
<1>1. runs[r].at \in Attachments
  BY RunTypes DEF TypeOK
<1> QED
  BY <1>1 DEF Tear, TypeOK

\* All that a run is held to is the same after a step.
SameRun(s) ==
    /\ runs'[s].phase = runs[s].phase
    /\ runs'[s].found = runs[s].found
    /\ runs'[s].todo = runs[s].todo
    /\ runs'[s].at = runs[s].at

\* A run that stores an attachment goes on, and those that download it too are
\* beaten.
LEMMA StoreRuns ==
    ASSUME TypeOK, NEW r \in Runs, Store(r)
    PROVE  /\ runs' \in [Runs -> Run]
           /\ runs[r].phase = "downloading" /\ runs'[r].phase = "working"
           /\ runs'[r].found = runs[r].found /\ runs'[r].todo = runs[r].todo
           /\ \A s \in Runs \ {r} :
                /\ SameRun(s)
                /\ Downloading(s, runs[r].at) => runs'[s].beaten
                /\ ~Downloading(s, runs[r].at) => runs'[s] = runs[s]
<1> DEFINE a == runs[r].at
<1>1. runs' = [s \in Runs |->
                CASE s = r -> [runs[s] EXCEPT !.phase = "working"]
                  [] s # r /\ Downloading(s, a) -> [runs[s] EXCEPT !.beaten = TRUE]
                  [] OTHER -> runs[s]]
  BY DEF Store
<1>2. runs[r].phase = "downloading"
  BY DEF Store, Downloading
<1> HIDE DEF a
<1>3. \A s \in Runs : runs[s] \in Run
  BY DEF TypeOK
<1>4. runs'[r] = [runs[r] EXCEPT !.phase = "working"]
  BY <1>1
<1>5. ASSUME NEW s \in Runs, s # r
      PROVE  /\ Downloading(s, a) => runs'[s] = [runs[s] EXCEPT !.beaten = TRUE]
             /\ ~Downloading(s, a) => runs'[s] = runs[s]
  BY <1>1, <1>5
<1>6. ASSUME NEW run \in Run
      PROVE  /\ [run EXCEPT !.phase = "working"] \in Run
             /\ [run EXCEPT !.phase = "working"].phase = "working"
             /\ [run EXCEPT !.phase = "working"].found = run.found
             /\ [run EXCEPT !.phase = "working"].todo = run.todo
             /\ [run EXCEPT !.beaten = TRUE] \in Run
             /\ [run EXCEPT !.beaten = TRUE].beaten
             /\ [run EXCEPT !.beaten = TRUE].phase = run.phase
             /\ [run EXCEPT !.beaten = TRUE].found = run.found
             /\ [run EXCEPT !.beaten = TRUE].todo = run.todo
             /\ [run EXCEPT !.beaten = TRUE].at = run.at
  BY DEF Run
<1>a. ASSUME NEW s \in Runs, s # r
      PROVE  /\ runs'[s] \in Run /\ SameRun(s)
             /\ Downloading(s, a) => runs'[s].beaten
             /\ ~Downloading(s, a) => runs'[s] = runs[s]
  <2>0. runs[s] \in Run
    BY <1>3
  <2>1. CASE Downloading(s, a)
    <3>1. runs'[s] = [runs[s] EXCEPT !.beaten = TRUE]
      BY <1>5, <1>a, <2>1
    <3> QED
      BY <1>6, <2>0, <2>1, <3>1 DEF SameRun
  <2>2. CASE ~Downloading(s, a)
    <3>1. runs'[s] = runs[s]
      BY <1>5, <1>a, <2>2
    <3> QED
      BY <2>0, <2>2, <3>1 DEF SameRun
  <2> QED
    BY <2>1, <2>2
<1>b. /\ runs'[r] \in Run /\ runs'[r].phase = "working"
      /\ runs'[r].found = runs[r].found /\ runs'[r].todo = runs[r].todo
  <2>1. runs[r] \in Run
    BY <1>3
  <2> QED
    BY <1>4, <1>6, <2>1
<1>7. \A s \in Runs : runs'[s] \in Run
  BY <1>a, <1>b
<1>8. runs' \in [Runs -> Run]
  BY <1>1, <1>7
<1>9. \A s \in Runs \ {r} :
        /\ SameRun(s)
        /\ Downloading(s, a) => runs'[s].beaten
        /\ ~Downloading(s, a) => runs'[s] = runs[s]
  BY <1>a
<1> QED
  BY <1>2, <1>8, <1>9, <1>b DEF a

\* Every step keeps the types.
LEMMA TypeNext == TypeOK /\ [Next]_vars => TypeOK'
<1> SUFFICES ASSUME TypeOK, [Next]_vars PROVE TypeOK'
  OBVIOUS
<1> DEFINE Phased(r, p) == [runs EXCEPT ![r].phase = p]
<1>0. \A r \in Runs : \A p \in {"idle", "working", "downloading", "done", "failed"} :
        Phased(r, p) \in [Runs -> Run]
  BY RunTypes DEF TypeOK
<1> HIDE DEF Phased
<1>1. ASSUME NEW r \in Runs, NEW as \in SUBSET Attachments, StartRun(r, as)
      PROVE  TypeOK'
  <2>1. [runs[r] EXCEPT !.phase = "working", !.found = as, !.todo = as] \in Run
    BY DEF TypeOK, Run
  <2>2. runs' = [runs EXCEPT ![r] = [runs[r] EXCEPT !.phase = "working",
                                                    !.found = as, !.todo = as]]
    BY <1>1 DEF StartRun, TypeOK
  <2>3. runs' \in [Runs -> Run]
    BY <2>1, <2>2 DEF TypeOK
  <2> QED
    BY <1>1, <2>3 DEF StartRun, TypeOK
<1>2. ASSUME NEW r \in Runs, NEW a \in Attachments, CarryForward(r, a)
      PROVE  TypeOK'
  <2>1. NewEntry(r, a, FindPrior(a)) \in Entry
    BY FindPriorFinds, NewEntryIs
  <2>2. entries' \in Seq(Entry)
    BY <1>2, <2>1, Appended DEF CarryForward, TypeOK
  <2>3. [runs[r] EXCEPT !.todo = @ \ {a}] \in Run
    BY DEF TypeOK, Run
  <2>4. runs' \in [Runs -> Run]
    BY <1>2, <2>3 DEF CarryForward, TypeOK
  <2> QED
    BY <1>2, <2>2, <2>4 DEF CarryForward, TypeOK
<1>3. ASSUME NEW r \in Runs, NEW a \in Attachments, Download(r, a)
      PROVE  TypeOK'
  <2>1. [runs[r] EXCEPT !.phase = "downloading", !.at = a, !.todo = @ \ {a},
                        !.beaten = FALSE] \in Run
    BY DEF TypeOK, Run
  <2>2. runs' = [runs EXCEPT ![r] = [runs[r] EXCEPT !.phase = "downloading",
                                                    !.at = a, !.todo = @ \ {a},
                                                    !.beaten = FALSE]]
    BY <1>3 DEF Download, TypeOK
  <2>3. runs' \in [Runs -> Run]
    BY <2>1, <2>2 DEF TypeOK
  <2> QED
    BY <1>3, <2>3 DEF Download, TypeOK
<1>4. ASSUME NEW r \in Runs, Store(r)
      PROVE  TypeOK'
  <2>1. runs[r].at \in Attachments
    BY RunTypes DEF TypeOK
  <2>2. entries' \in Seq(Entry)
    BY <1>4, <2>1, NewEntryIs, Appended DEF Store, TypeOK
  <2>3. runs' \in [Runs -> Run]
    BY <1>4, StoreRuns
  <2>4. /\ files' \in [Attachments -> {"absent", "torn", "whole"}]
        /\ spoiled' \subseteq Attachments
    BY <1>4 DEF Store, TypeOK
  <2> QED
    BY <1>4, <2>2, <2>3, <2>4 DEF Store, TypeOK
<1>5. ASSUME NEW r \in Runs, StoreFails(r)
      PROVE  TypeOK'
  <2>1. runs' = Phased(r, "failed")
    BY <1>5 DEF StoreFails, Phased
  <2>2. /\ files' \in [Attachments -> {"absent", "torn", "whole"}]
        /\ spoiled' \subseteq Attachments
    BY <1>5, TearType DEF StoreFails
  <2> QED
    BY <1>0, <1>5, <2>1, <2>2 DEF StoreFails, TypeOK
<1>6. ASSUME NEW r \in Runs, FailRun(r)
      PROVE  TypeOK'
  <2>1. runs' = Phased(r, "failed")
    BY <1>6 DEF FailRun, Phased
  <2> QED
    BY <1>0, <1>6, <2>1 DEF FailRun, TypeOK
<1>7. ASSUME NEW r \in Runs, WritePoint(r)
      PROVE  TypeOK'
  <2>1. runs' = Phased(r, "done")
    BY <1>7 DEF WritePoint, Phased
  <2>2. points' \subseteq Ids
    BY <1>7 DEF WritePoint, TypeOK, PointId, Ids
  <2>3. disk' \in [entries : Seq(Entry), points : SUBSET Ids]
    BY <1>7, <2>2, SaveType DEF WritePoint
  <2> QED
    BY <1>0, <1>7, <2>1, <2>2, <2>3 DEF WritePoint, TypeOK
<1>8. ASSUME NEW r \in Runs, CrashInStore(r)
      PROVE  TypeOK'
  <2>1. /\ files' \in [Attachments -> {"absent", "torn", "whole"}]
        /\ spoiled' \subseteq Attachments
    BY <1>8, TearType DEF CrashInStore
  <2> QED
    BY <1>8, <2>1, ReloadType DEF CrashInStore
<1>9. CASE Autosave
  <2>1. disk' \in [entries : Seq(Entry), points : SUBSET Ids]
    BY <1>9, SaveType DEF Autosave, TypeOK
  <2> QED
    BY <1>9, <2>1 DEF Autosave, TypeOK
<1>10. CASE CrashAndRestart
  BY <1>10, ReloadType DEF CrashAndRestart, TypeOK
<1>11. CASE UNCHANGED vars
  BY <1>11 DEF vars, TypeOK
<1> QED
  BY <1>1, <1>2, <1>3, <1>4, <1>5, <1>6, <1>7, <1>8, <1>9, <1>10, <1>11
     DEF Next

-----------------------------------------------------------------------------
\* A longer list has what the shorter one has.
LEMMA HeldGrows ==
    ASSUME NEW es, NEW ls, DOMAIN es \subseteq DOMAIN ls,
           \A n \in DOMAIN es : ls[n] = es[n], NEW r, NEW a, Held(es, r, a)
    PROVE  Held(ls, r, a)
BY DEF Held

\* What is in db.json stays a prefix when an entry is added,
LEMMA PrefixAppend ==
    ASSUME TypeOK, DiskIsPrefix, NEW e \in Entry,
           entries' = Append(entries, e), UNCHANGED <<points, disk>>
    PROVE  DiskIsPrefix'
<1>1. entries \in Seq(Entry)
  BY DEF TypeOK
<1>2. /\ DOMAIN entries \subseteq DOMAIN entries'
      /\ \A n \in DOMAIN entries : entries'[n] = entries[n]
  <2>1. /\ DOMAIN entries = 1 .. Len(entries) /\ Len(entries) \in Nat
        /\ DOMAIN entries' = 1 .. (Len(entries) + 1)
    BY <1>1, Appended
  <2> QED
    BY <1>1, <2>1, Appended
<1> QED
  BY <1>2 DEF DiskIsPrefix

\* when a snapshot is taken,
LEMMA PrefixSave ==
    ASSUME DiskIsPrefix, NEW ps, points \subseteq ps, Save(ps),
           entries' = entries, points' = ps
    PROVE  DiskIsPrefix'
<1>1. CASE disk' = [entries |-> entries, points |-> ps]
  BY <1>1 DEF DiskIsPrefix
<1>2. CASE disk' = disk
  BY <1>2 DEF DiskIsPrefix
<1> QED
  BY <1>1, <1>2 DEF Save

\* and in every step.
LEMMA PrefixNext == TypeOK /\ DiskIsPrefix /\ [Next]_vars => DiskIsPrefix'
<1> SUFFICES ASSUME TypeOK, DiskIsPrefix, [Next]_vars PROVE DiskIsPrefix'
  OBVIOUS
<1>1. ASSUME NEW r \in Runs, NEW a \in Attachments, CarryForward(r, a)
      PROVE  DiskIsPrefix'
  <2>1. NewEntry(r, a, FindPrior(a)) \in Entry
    BY FindPriorFinds, NewEntryIs
  <2> QED
    BY <1>1, <2>1, PrefixAppend DEF CarryForward
<1>2. ASSUME NEW r \in Runs, Store(r)
      PROVE  DiskIsPrefix'
  <2>1. NewEntry(r, runs[r].at, 0) \in Entry
    BY RunTypes, NewEntryIs DEF TypeOK
  <2> QED
    BY <1>2, <2>1, PrefixAppend DEF Store
<1>3. ASSUME NEW r \in Runs, WritePoint(r)
      PROVE  DiskIsPrefix'
  BY <1>3, PrefixSave DEF WritePoint
<1>4. CASE Autosave
  BY <1>4, PrefixSave DEF Autosave
<1>5. CASE Reload
  BY <1>5 DEF Reload, DiskIsPrefix
<1>6. CASE UNCHANGED <<entries, points, disk>>
  BY <1>6 DEF DiskIsPrefix
<1> QED
  BY <1>1, <1>2, <1>3, <1>4, <1>5, <1>6
     DEF Next, vars, StartRun, Download, StoreFails, FailRun,
         CrashAndRestart, CrashInStore

-----------------------------------------------------------------------------
\* While run r is not done, a step of it keeps the points that are there and
\* all that they hold, and what the other runs are held to.
OwnStep(r) ==
    /\ runs[r].phase # "done"
    /\ \A s \in Runs \ {r} : SameRun(s)
    /\ DOMAIN entries \subseteq DOMAIN entries'
    /\ \A n \in DOMAIN entries : entries'[n] = entries[n]
    /\ UNCHANGED <<points, disk>>

\* The entry that a step appends to the others.
LEMMA Extends ==
    ASSUME TypeOK, NEW e \in Entry, entries' = Append(entries, e)
    PROVE  /\ DOMAIN entries \subseteq DOMAIN entries'
           /\ \A n \in DOMAIN entries : entries'[n] = entries[n]
           /\ Len(entries) + 1 \in DOMAIN entries'
           /\ entries'[Len(entries) + 1] = e
           /\ DOMAIN entries' = DOMAIN entries \cup {Len(entries) + 1}
           /\ \A n \in DOMAIN entries : n \in 1 .. Len(entries)
<1>1. entries \in Seq(Entry)
  BY DEF TypeOK
<1>2. /\ DOMAIN entries = 1 .. Len(entries) /\ Len(entries) \in Nat
      /\ DOMAIN entries' = 1 .. (Len(entries) + 1)
      /\ entries'[Len(entries) + 1] = e
  BY <1>1, Appended
<1> QED
  BY <1>1, <1>2, Appended

\* Such a step keeps what the points have,
LEMMA OwnStepPoints ==
    ASSUME TypeOK, DiskIsPrefix, PointsInv, NEW r \in Runs, OwnStep(r)
    PROVE  PointsOfDone' /\ PointHoldsAttachments'
<1>1. \A s \in Runs : PointId(s) \in points =>
        runs'[s].phase = runs[s].phase /\ runs'[s].found = runs[s].found
  BY DEF SameRun, OwnStep, PointsInv, PointsOfDone
<1>2. PointsOfDone'
  BY <1>1 DEF OwnStep, PointsInv, PointsOfDone, PointId
<1>3. Complete(entries, points)'
  <2> SUFFICES ASSUME NEW s \in Runs, PointId(s) \in points,
                      NEW a \in runs[s].found
               PROVE  Held(entries', s, a)
    BY <1>1 DEF Complete, Held, OwnStep, PointId
  <2>1. Held(entries, s, a)
    BY DEF PointsInv, PointHoldsAttachments, Complete, Held
  <2> QED
    BY <2>1, HeldGrows DEF OwnStep
<1>4. Complete(disk.entries, disk.points)'
  <2>1. \A s \in Runs : PointId(s) \in disk.points => runs'[s].found = runs[s].found
    BY <1>1 DEF DiskIsPrefix
  <2> QED
    BY <2>1 DEF PointsInv, PointHoldsAttachments, Complete, OwnStep, PointId
<1> QED
  BY <1>2, <1>3, <1>4 DEF PointHoldsAttachments

\* What run s is held to.
AccountedFor(s) ==
    AtWork(s) =>
        \A a \in runs[s].found :
            \/ a \in runs[s].todo
            \/ runs[s].phase = "downloading" /\ a = runs[s].at
            \/ Held(entries, s, a)

\* and what every run is held to if it keeps what run r is held to.
LEMMA OwnStepAccounted ==
    ASSUME Accounted, NEW r \in Runs, OwnStep(r), AccountedFor(r)'
    PROVE  Accounted'
<1> SUFFICES ASSUME NEW s \in Runs PROVE AccountedFor(s)'
  BY DEF Accounted, AccountedFor
<1>1. CASE s = r
  BY <1>1
<1>2. CASE s # r
  <2>1. SameRun(s)
    BY <1>2 DEF OwnStep
  <2>2. AccountedFor(s)
    BY DEF Accounted, AccountedFor
  <2>3. \A a : Held(entries, s, a) => Held(entries', s, a)
    BY HeldGrows DEF OwnStep
  <2> QED
    BY <2>1, <2>2, <2>3 DEF SameRun, AccountedFor, AtWork
<1> QED
  BY <1>1, <1>2

\* Each step keeps what runs and points are held to.
LEMMA PointsNext ==
    TypeOK /\ DiskIsPrefix /\ PointsInv /\ [Next]_vars => PointsInv'
<1> SUFFICES ASSUME TypeOK, DiskIsPrefix, PointsInv, [Next]_vars PROVE PointsInv'
  OBVIOUS
<1>0. ASSUME NEW r \in Runs, OwnStep(r), AccountedFor(r)'
      PROVE  PointsInv'
  BY <1>0, OwnStepPoints, OwnStepAccounted DEF PointsInv
<1>1. ASSUME NEW r \in Runs, NEW as \in SUBSET Attachments, StartRun(r, as)
      PROVE  PointsInv'
  <2>1. OwnStep(r)
    BY <1>1 DEF StartRun, OwnStep, SameRun, TypeOK
  <2>2. runs'[r].found = as /\ runs'[r].todo = as
    BY <1>1 DEF StartRun, TypeOK, Run
  <2> QED
    BY <1>0, <2>1, <2>2 DEF AccountedFor
<1>2. ASSUME NEW r \in Runs, NEW a \in Attachments, CarryForward(r, a)
      PROVE  PointsInv'
  <2> DEFINE e == NewEntry(r, a, FindPrior(a))
  <2>1. e \in Entry /\ e.run = r /\ e.attachment = a
    BY FindPriorFinds, NewEntryIs
  <2> HIDE DEF e
  <2>2. entries' = Append(entries, e)
    BY <1>2 DEF CarryForward, e
  <2>3. OwnStep(r)
    BY <1>2, <2>1, <2>2, Extends DEF CarryForward, OwnStep, SameRun, TypeOK
  <2>4. Held(entries', r, a)
    BY <2>1, <2>2, Extends DEF Held
  <2>5. /\ runs[r].phase = "working"
        /\ runs'[r].found = runs[r].found /\ runs'[r].todo = runs[r].todo \ {a}
    BY <1>2 DEF CarryForward, TypeOK, Run
  <2>6. \A b : Held(entries, r, b) => Held(entries', r, b)
    BY <2>3, HeldGrows DEF OwnStep
  <2>7. AccountedFor(r)'
    BY <2>4, <2>5, <2>6 DEF AccountedFor, PointsInv, Accounted, AtWork
  <2> QED
    BY <1>0, <2>3, <2>7
<1>3. ASSUME NEW r \in Runs, NEW a \in Attachments, Download(r, a)
      PROVE  PointsInv'
  <2>1. OwnStep(r)
    BY <1>3 DEF Download, OwnStep, SameRun, TypeOK
  <2>2. /\ runs[r].phase = "working" /\ runs'[r].phase = "downloading"
        /\ runs'[r].found = runs[r].found /\ runs'[r].todo = runs[r].todo \ {a}
        /\ runs'[r].at = a
    BY <1>3 DEF Download, TypeOK, Run
  <2>3. entries' = entries
    BY <1>3 DEF Download
  <2>4. AccountedFor(r)'
    BY <2>2, <2>3 DEF AccountedFor, PointsInv, Accounted, AtWork
  <2> QED
    BY <1>0, <2>1, <2>4
<1>4. ASSUME NEW r \in Runs, Store(r)
      PROVE  PointsInv'
  <2> DEFINE e == NewEntry(r, runs[r].at, 0)
  <2>0. runs[r].at \in Attachments
    BY RunTypes DEF TypeOK
  <2>1. e \in Entry /\ e.run = r /\ e.attachment = runs[r].at
    BY <2>0, NewEntryIs
  <2> HIDE DEF e
  <2>2. entries' = Append(entries, e)
    BY <1>4 DEF Store, e
  <2>3. OwnStep(r)
    BY <1>4, <2>1, <2>2, Extends, StoreRuns DEF Store, OwnStep
  <2>4. Held(entries', r, runs[r].at)
    BY <2>1, <2>2, Extends DEF Held
  <2>5. /\ runs[r].phase = "downloading"
        /\ runs'[r].found = runs[r].found /\ runs'[r].todo = runs[r].todo
    BY <1>4, StoreRuns
  <2>6. \A b : Held(entries, r, b) => Held(entries', r, b)
    BY <2>3, HeldGrows DEF OwnStep
  <2>7. AccountedFor(r)'
    BY <2>4, <2>5, <2>6 DEF AccountedFor, PointsInv, Accounted, AtWork
  <2> QED
    BY <1>0, <2>3, <2>7
<1>5. ASSUME NEW r \in Runs, StoreFails(r) \/ FailRun(r)
      PROVE  PointsInv'
  <2>1. OwnStep(r)
    BY <1>5 DEF StoreFails, Tear, Downloading, FailRun, OwnStep, SameRun, TypeOK, AtWork
  <2>2. runs'[r].phase = "failed"
    BY <1>5 DEF StoreFails, FailRun, TypeOK, Run
  <2> QED
    BY <1>0, <2>1, <2>2 DEF AccountedFor, AtWork
<1>6. ASSUME NEW r \in Runs, WritePoint(r)
      PROVE  PointsInv'
  <2>1. /\ runs[r].phase = "working" /\ runs[r].todo = {}
        /\ runs'[r].phase = "done" /\ runs'[r].found = runs[r].found
        /\ \A s \in Runs \ {r} : runs'[s] = runs[s]
    BY <1>6 DEF WritePoint, TypeOK, Run
  <2>2. entries' = entries /\ points' = points \cup {PointId(r)}
    BY <1>6 DEF WritePoint
  <2>3. \A s \in Runs : PointId(s) = PointId(r) => s = r
    BY DEF PointId
  <2>4. PointsOfDone'
    BY <2>1, <2>2, <2>3 DEF PointsInv, PointsOfDone, PointId
  <2>5. Accounted'
    BY <2>1, <2>2 DEF PointsInv, Accounted, AtWork
  <2>6. \A s \in Runs : PointId(s) \in points' =>
          /\ runs'[s].found = runs[s].found
          /\ \A a \in runs[s].found : Held(entries, s, a)
    <3> SUFFICES ASSUME NEW s \in Runs, PointId(s) \in points'
                 PROVE  /\ runs'[s].found = runs[s].found
                        /\ \A a \in runs[s].found : Held(entries, s, a)
      OBVIOUS
    <3>1. CASE s = r
      BY <2>1, <3>1 DEF PointsInv, Accounted, AtWork
    <3>2. CASE s # r
      BY <2>1, <2>2, <2>3, <3>2
         DEF PointsInv, PointHoldsAttachments, Complete, Held
    <3> QED
      BY <3>1, <3>2
  <2>7. Complete(entries, points)'
    BY <2>2, <2>6 DEF Complete, Held, PointId
  <2>8. Complete(disk.entries, disk.points)'
    <3>1. CASE disk' = [entries |-> entries, points |-> points']
      BY <2>2, <2>7, <3>1 DEF Complete
    <3>2. CASE disk' = disk
      <4>1. disk.points \subseteq points'
        BY <2>2 DEF DiskIsPrefix
      <4> QED
        BY <2>6, <3>2, <4>1 DEF PointsInv, PointHoldsAttachments, Complete, PointId
    <3> QED
      BY <1>6, <3>1, <3>2 DEF WritePoint, Save
  <2> QED
    BY <2>4, <2>5, <2>7, <2>8 DEF PointsInv, PointHoldsAttachments
<1>7. CASE Autosave
  <2>1. UNCHANGED <<entries, points, runs>>
    BY <1>7 DEF Autosave
  <2>2. Accounted' /\ PointsOfDone' /\ Complete(entries, points)'
    BY <2>1 DEF PointsInv, PointHoldsAttachments, Accounted, AtWork, Held,
                PointsOfDone, PointId, Complete
  <2>3. Complete(disk.entries, disk.points)'
    <3>1. CASE disk' = [entries |-> entries, points |-> points]
      BY <2>1, <3>1 DEF PointsInv, PointHoldsAttachments, Complete, PointId
    <3>2. CASE disk' = disk
      BY <2>1, <3>2 DEF PointsInv, PointHoldsAttachments, Complete, PointId
    <3> QED
      BY <1>7, <3>1, <3>2 DEF Autosave, Save
  <2> QED
    BY <2>2, <2>3 DEF PointsInv, PointHoldsAttachments
<1>8. CASE Reload
  <2>1. \A s \in Runs :
          /\ runs'[s].found = runs[s].found
          /\ runs'[s].phase \notin {"working", "downloading"}
          /\ runs[s].phase = "done" => runs'[s].phase = "done"
    BY <1>8 DEF Reload, TypeOK, Run, AtWork
  <2>2. Accounted'
    BY <2>1 DEF Accounted, AtWork
  <2>3. points' \subseteq points /\ disk' = disk
    BY <1>8 DEF Reload, DiskIsPrefix
  <2>4. PointsOfDone'
    BY <2>1, <2>3 DEF PointsInv, PointsOfDone, PointId
  <2>5. Complete(disk.entries, disk.points)'
    BY <2>1, <2>3 DEF PointsInv, PointHoldsAttachments, Complete, PointId
  <2>6. Complete(entries, points)'
    BY <1>8, <2>5 DEF Reload, Complete, PointId
  <2> QED
    BY <2>2, <2>4, <2>5, <2>6 DEF PointsInv, PointHoldsAttachments
<1>9. CASE UNCHANGED vars
  BY <1>9 DEF vars, PointsInv, PointHoldsAttachments, Accounted, AtWork, Held,
              PointsOfDone, PointId, Complete
<1> QED
  BY <1>1, <1>2, <1>3, <1>4, <1>5, <1>6, <1>7, <1>8, <1>9
     DEF Next, CrashAndRestart, CrashInStore

-----------------------------------------------------------------------------
\* A list that is linked stays so when an entry with bytes, or a sidecar of one,
\* is added,
LEMMA LinkedAppend ==
    ASSUME TypeOK, Linked(entries), NEW e \in Entry,
           e.prior # 0 => /\ e.prior \in DOMAIN entries
                          /\ entries[e.prior].prior = 0
                          /\ entries[e.prior].attachment = e.attachment,
           entries' = Append(entries, e)
    PROVE  Linked(entries)'
<1> SUFFICES ASSUME NEW n \in DOMAIN entries', entries'[n].prior # 0
             PROVE  /\ entries'[n].prior \in 1 .. (n - 1)
                    /\ entries'[entries'[n].prior].prior = 0
                    /\ entries'[entries'[n].prior].attachment = entries'[n].attachment
  BY DEF Linked
<1>0. entries \in Seq(Entry)
  BY DEF TypeOK
<1>1. /\ DOMAIN entries = 1 .. Len(entries) /\ Len(entries) \in Nat
      /\ DOMAIN entries' = 1 .. (Len(entries) + 1)
      /\ \A k \in DOMAIN entries : entries'[k] = entries[k]
      /\ entries'[Len(entries) + 1] = e
  BY <1>0, Appended
<1>2. CASE n = Len(entries) + 1
  BY <1>1, <1>2
<1>3. CASE n # Len(entries) + 1
  <2>1. n \in DOMAIN entries /\ entries'[n] = entries[n]
    BY <1>1, <1>3
  <2>2. /\ entries[n].prior \in 1 .. (n - 1)
        /\ entries[entries[n].prior].prior = 0
        /\ entries[entries[n].prior].attachment = entries[n].attachment
    BY <2>1 DEF Linked
  <2>3. entries[n].prior \in DOMAIN entries
    BY <1>1, <2>1, <2>2
  <2> QED
    BY <1>1, <2>1, <2>2, <2>3
<1> QED
  BY <1>2, <1>3

\* and so is what db.json holds of it.
LEMMA LinkedPrefix ==
    ASSUME TypeOK, DiskIsPrefix, Linked(entries)
    PROVE  Linked(disk.entries)
<1> SUFFICES ASSUME NEW n \in DOMAIN disk.entries, disk.entries[n].prior # 0
             PROVE  /\ disk.entries[n].prior \in 1 .. (n - 1)
                    /\ disk.entries[disk.entries[n].prior].prior = 0
                    /\ disk.entries[disk.entries[n].prior].attachment
                            = disk.entries[n].attachment
  BY DEF Linked
<1>1. disk.entries \in Seq(Entry)
  BY DEF TypeOK
<1>2. DOMAIN disk.entries = 1 .. Len(disk.entries) /\ Len(disk.entries) \in Nat
  BY <1>1, Appended
<1>3. n \in DOMAIN entries /\ disk.entries[n] = entries[n]
  BY DEF DiskIsPrefix
<1>4. /\ entries[n].prior \in 1 .. (n - 1)
      /\ entries[entries[n].prior].prior = 0
      /\ entries[entries[n].prior].attachment = entries[n].attachment
  BY <1>3 DEF Linked
<1>5. entries[n].prior \in DOMAIN disk.entries
  BY <1>2, <1>4
<1> QED
  BY <1>3, <1>4, <1>5 DEF DiskIsPrefix

\* An attachment of which no entry has the bytes has no entry.
LEMMA NoneStored ==
    ASSUME TypeOK, Linked(entries), NEW a, Stored(a) = {}
    PROVE  \A n \in DOMAIN entries : entries[n].attachment # a
<1> SUFFICES ASSUME NEW n \in DOMAIN entries, entries[n].attachment = a
             PROVE  FALSE
  OBVIOUS
<1>0. entries \in Seq(Entry)
  BY DEF TypeOK
<1>1. DOMAIN entries = 1 .. Len(entries) /\ Len(entries) \in Nat
  BY <1>0, Appended
<1>2. entries[n].prior # 0
  BY DEF Stored
<1>3. entries[n].prior \in Stored(a)
  BY <1>1, <1>2 DEF Linked, Stored
<1> QED
  BY <1>3

\* No run begins a download in a step.
Quieter ==
    \A s \in Runs : runs'[s].phase = "downloading" => runs'[s] = runs[s]

\* What is the first of its kind stays so, if such a step adds no entry.
LEMMA StillFirst ==
    ASSUME FirstOfItsKind, Quieter, entries' = entries
    PROVE  FirstOfItsKind'
BY DEF FirstOfItsKind, Quieter

\* A download that nobody was faster than spoils no entry by a torn file.
LEMMA TornFile ==
    ASSUME TypeOK, WholeFiles, FirstOfItsKind, NEW r \in Runs, Tear(r)
    PROVE  \A n \in DOMAIN entries : \/ files'[entries[n].attachment] = "whole"
                                    \/ entries[n].attachment \in spoiled'
<1> DEFINE a == runs[r].at
<1>1. /\ files' = [files EXCEPT ![a] = "torn"] /\ spoiled \subseteq spoiled'
      /\ runs[r].phase = "downloading"
      /\ runs[r].beaten => a \in spoiled'
  BY DEF Tear, Downloading
<1>2. ~runs[r].beaten => \A n \in DOMAIN entries : entries[n].attachment # a
  BY <1>1 DEF FirstOfItsKind
<1> HIDE DEF a
<1>3. \A b \in Attachments : b # a => files'[b] = files[b]
  BY <1>1 DEF TypeOK
<1>4. \A n \in DOMAIN entries : entries[n].attachment \in Attachments
  BY EntriesOfAttachments
<1> QED
  BY <1>1, <1>2, <1>3, <1>4 DEF WholeFiles

\* After a restart, entries whose files are whole are those in db.json.
LEMMA BytesReload ==
    ASSUME TypeOK, DiskIsPrefix, BytesInv, Reload,
           \A n \in DOMAIN entries : \/ files'[entries[n].attachment] = "whole"
                                    \/ entries[n].attachment \in spoiled'
    PROVE  BytesInv'
<1>1. \A r \in Runs : runs'[r].phase # "downloading"
  BY DEF Reload, TypeOK, Run, AtWork
<1>2. Linked(entries)'
  <2>1. entries' = disk.entries
    BY DEF Reload
  <2>2. Linked(disk.entries)
    BY LinkedPrefix DEF BytesInv
  <2> QED
    BY <2>1, <2>2 DEF Linked
<1>3. WholeFiles'
  BY DEF Reload, DiskIsPrefix, WholeFiles
<1>4. FirstOfItsKind'
  BY <1>1 DEF FirstOfItsKind
<1> QED
  BY <1>2, <1>3, <1>4 DEF BytesInv

\* Each step keeps what leads to whole bytes.
LEMMA BytesNext == TypeOK /\ DiskIsPrefix /\ BytesInv /\ [Next]_vars => BytesInv'
<1> SUFFICES ASSUME TypeOK, DiskIsPrefix, BytesInv, [Next]_vars
             PROVE  BytesInv'
  OBVIOUS
<1> USE DEF BytesInv
<1>1. ASSUME NEW r \in Runs, NEW a \in Attachments, CarryForward(r, a)
      PROVE  BytesInv'
  <2> DEFINE p == FindPrior(a)
             e == NewEntry(r, a, p)
  <2>1. p \in Nat /\ p \in DOMAIN entries
        /\ entries[p].prior = 0 /\ entries[p].attachment = a
    BY <1>1, FindPriorFinds DEF CarryForward, Stored
  <2>2. e \in Entry /\ e.attachment = a /\ e.prior = p
    BY <2>1, NewEntryIs
  <2>3. entries' = Append(entries, e) /\ files' = files /\ spoiled' = spoiled
    BY <1>1 DEF CarryForward
  <2> HIDE DEF e, p
  <2>4. Linked(entries)'
    BY <2>1, <2>2, <2>3, LinkedAppend
  <2>5. WholeFiles'
    BY <2>1, <2>2, <2>3, Extends DEF WholeFiles
  <2>6. /\ runs'[r].phase = "working"
        /\ \A s \in Runs \ {r} : runs'[s] = runs[s]
    BY <1>1 DEF CarryForward, TypeOK, Run
  <2>7. ASSUME NEW s \in Runs, runs'[s].phase = "downloading", ~runs'[s].beaten,
               NEW n \in DOMAIN entries'
        PROVE  entries'[n].attachment # runs'[s].at
    <3>1. s # r /\ runs'[s] = runs[s]
      BY <2>6, <2>7
    <3>2. \A k \in DOMAIN entries : entries[k].attachment # runs[s].at
      BY <2>7, <3>1 DEF FirstOfItsKind
    <3> QED
      BY <2>1, <2>2, <2>3, <3>1, <3>2, Extends
  <2> QED
    BY <2>4, <2>5, <2>7 DEF FirstOfItsKind
<1>2. ASSUME NEW r \in Runs, NEW a \in Attachments, Download(r, a)
      PROVE  BytesInv'
  <2>1. /\ runs'[r].at = a
        /\ \A s \in Runs \ {r} : runs'[s] = runs[s]
        /\ UNCHANGED <<entries, files, spoiled>>
    BY <1>2 DEF Download, TypeOK, Run
  <2>2. \A n \in DOMAIN entries : entries[n].attachment # a
    BY <1>2, FindPriorFinds, NoneStored DEF Download
  <2>3. Linked(entries)' /\ WholeFiles'
    BY <2>1 DEF Linked, WholeFiles
  <2>4. FirstOfItsKind'
    BY <2>1, <2>2 DEF FirstOfItsKind
  <2> QED
    BY <2>3, <2>4
<1>3. ASSUME NEW r \in Runs, Store(r)
      PROVE  BytesInv'
  <2> DEFINE a == runs[r].at
             e == NewEntry(r, a, 0)
  <2>1. a \in Attachments
    BY RunTypes DEF TypeOK
  <2>2. e \in Entry /\ e.attachment = a /\ e.prior = 0
    BY <2>1, NewEntryIs
  <2>3. /\ entries' = Append(entries, e)
        /\ files' = [files EXCEPT ![a] = "whole"] /\ spoiled' = spoiled \ {a}
    BY <1>3 DEF Store
  <2>4. /\ runs'[r].phase = "working"
        /\ \A s \in Runs \ {r} :
                /\ Downloading(s, a) => runs'[s].beaten
                /\ ~Downloading(s, a) => runs'[s] = runs[s]
    BY <1>3, StoreRuns
  <2> HIDE DEF e, a
  <2>5. Linked(entries)'
    BY <2>2, <2>3, LinkedAppend
  <2>6. WholeFiles'
    <3>1. files'[a] = "whole" /\ \A b \in Attachments : b # a => files'[b] = files[b]
      BY <2>1, <2>3 DEF TypeOK
    <3>2. ASSUME NEW n \in DOMAIN entries
          PROVE  \/ files'[entries[n].attachment] = "whole"
                 \/ entries[n].attachment \in spoiled'
      BY <2>3, <3>1, EntriesOfAttachments DEF WholeFiles
    <3> QED
      BY <2>2, <2>3, <3>1, <3>2, Extends DEF WholeFiles
  <2>7. ASSUME NEW s \in Runs, runs'[s].phase = "downloading", ~runs'[s].beaten,
               NEW n \in DOMAIN entries'
        PROVE  entries'[n].attachment # runs'[s].at
    <3>1. s # r /\ runs'[s] = runs[s] /\ ~Downloading(s, a)
      BY <2>4, <2>7
    <3>2. \A k \in DOMAIN entries : entries[k].attachment # runs[s].at
      BY <2>7, <3>1 DEF FirstOfItsKind
    <3>3. runs[s].at # a
      BY <2>7, <3>1 DEF Downloading
    <3> QED
      BY <2>2, <2>3, <3>1, <3>2, <3>3, Extends
  <2> QED
    BY <2>5, <2>6, <2>7 DEF FirstOfItsKind
<1>4. ASSUME NEW r \in Runs, StoreFails(r)
      PROVE  BytesInv'
  <2>1. Quieter
    BY <1>4 DEF StoreFails, Quieter, TypeOK, Run
  <2>2. Linked(entries)' /\ FirstOfItsKind'
    BY <1>4, <2>1, StillFirst DEF StoreFails, Linked
  <2>3. WholeFiles'
    BY <1>4, TornFile DEF StoreFails, WholeFiles
  <2> QED
    BY <2>2, <2>3
<1>5. ASSUME NEW r \in Runs,
             (\E as \in SUBSET Attachments : StartRun(r, as)) \/ FailRun(r) \/ WritePoint(r)
      PROVE  BytesInv'
  <2>1. UNCHANGED <<entries, files, spoiled>>
    BY <1>5 DEF StartRun, FailRun, WritePoint
  <2>2. Quieter
    <3>1. ASSUME NEW as \in SUBSET Attachments, StartRun(r, as) PROVE Quieter
      BY <3>1 DEF Quieter, StartRun, TypeOK, Run
    <3>2. CASE FailRun(r) \/ WritePoint(r)
      BY <3>2 DEF Quieter, FailRun, WritePoint, TypeOK, Run
    <3> QED
      BY <1>5, <3>1, <3>2
  <2>3. Linked(entries)' /\ WholeFiles'
    BY <2>1 DEF Linked, WholeFiles
  <2> QED
    BY <2>1, <2>2, <2>3, StillFirst
<1>6. ASSUME NEW r \in Runs, CrashInStore(r)
      PROVE  BytesInv'
  BY <1>6, TornFile, BytesReload DEF CrashInStore
<1>7. CASE CrashAndRestart
  BY <1>7, BytesReload DEF CrashAndRestart, WholeFiles
<1>8. CASE UNCHANGED <<entries, files, runs, spoiled>>
  BY <1>8 DEF Linked, WholeFiles, FirstOfItsKind
<1> QED
  BY <1>1, <1>2, <1>3, <1>4, <1>5, <1>6, <1>7, <1>8 DEF Next, Autosave, vars

-----------------------------------------------------------------------------
\* Every variable keeps its type: among others, a sidecar is made of an entry that findPriorManifestEntry did find.
THEOREM TypeCorrect == Spec => []TypeOK
<1>1. Init => TypeOK
  BY InvInit DEF IInv
<1> QED
  BY <1>1, TypeNext, PTL DEF Spec

\* A backup point has an entry for every attachment its run found, in memory and
\* in db.json, with runs that overlap, writes that are torn, saves that fail, and
\* crashes.
THEOREM PointsComplete == Spec => []PointHoldsAttachments
<1>1. IInv /\ [Next]_vars => IInv'
  BY TypeNext, PrefixNext, PointsNext DEF IInv
<1>2. IInv => PointHoldsAttachments
  BY DEF IInv, PointsInv
<1> QED
  BY <1>1, <1>2, InvInit, PTL DEF Spec

\* Every entry, in memory and in db.json, leads to the whole bytes of its
\* attachment, with runs that overlap, writes that are torn, saves that fail, and
\* crashes, unless a run tore the file that another had stored while it
\* downloaded the same attachment.
THEOREM BytesReadable == Spec => []EntriesReadable
<1> DEFINE Inv == TypeOK /\ DiskIsPrefix /\ BytesInv
<1>1. Init => Inv
  <2> SUFFICES ASSUME Init PROVE BytesInv
    BY InvInit DEF IInv
  <2>1. DOMAIN entries = {}
    BY DEF Init
  <2>2. \A r \in Runs : runs[r].phase = "idle"
    BY DEF Init
  <2> QED
    BY <2>1, <2>2 DEF BytesInv, Linked, WholeFiles, FirstOfItsKind
<1>2. Inv /\ [Next]_vars => Inv'
  BY TypeNext, PrefixNext, BytesNext
<1>3. Inv => EntriesReadable
  <2> SUFFICES ASSUME TypeOK, DiskIsPrefix, Linked(entries), WholeFiles
               PROVE  EntriesReadable
    BY DEF BytesInv
  <2>1. Linked(disk.entries)
    BY LinkedPrefix
  <2>2. DOMAIN entries = 1 .. Len(entries) /\ Len(entries) \in Nat
        /\ DOMAIN disk.entries = 1 .. Len(disk.entries) /\ Len(disk.entries) \in Nat
    <3>1. entries \in Seq(Entry) /\ disk.entries \in Seq(Entry)
      BY DEF TypeOK
    <3> QED
      BY <3>1, Appended
  <2>3. \A n \in DOMAIN entries : LeadsToBytes(entries, n)
    BY <2>2 DEF Linked, LeadsToBytes
  <2>4. \A n \in DOMAIN disk.entries : LeadsToBytes(disk.entries, n)
    BY <2>1, <2>2 DEF Linked, LeadsToBytes
  <2>5. \A n \in DOMAIN disk.entries :
            \/ files[disk.entries[n].attachment] = "whole"
            \/ disk.entries[n].attachment \in spoiled
    BY DEF DiskIsPrefix, WholeFiles
  <2> QED
    BY <2>3, <2>4, <2>5 DEF EntriesReadable, Readable, WholeFiles
<1> HIDE DEF Inv
<1> QED
  BY <1>1, <1>2, <1>3, PTL DEF Spec
==============================================================================
