--------------------------- MODULE AttachmentStore ---------------------------
(***************************************************************************)
(* The attachments of one integration: the manifest entries that backup    *)
(* runs add to db.attachmentManifestEntries, and the files under           *)
(* data/backups that the entries refer to.  The first run to meet an       *)
(* attachment downloads it; later runs carry it forward as a sidecar, an   *)
(* entry that points to the one with the bytes.                            *)
(*                                                                         *)
(* The files are written at once, the entries by the next save of the      *)
(* store, so a crash can lose an entry and keep its file; and a crash or a *)
(* full disk in the middle of a write can leave half a file.               *)
(*                                                                         *)
(* An attachment never changes in Jira, so a file that is whole is right.  *)
(* A run here backs up one project.                                        *)
(***************************************************************************)
EXTENDS Naturals, Sequences

CONSTANTS
    Attachments,   \* attachment ids
    Runs           \* executions of the pipeline, which may overlap

ASSUME AttachmentsAssumption == Attachments # {}

VARIABLES
    entries,   \* db.attachmentManifestEntries, in order of creation
    points,    \* ids in db.backupPoints
    files,     \* the file of each attachment
    runs,      \* the runs
    disk,      \* db.json: the entries and points last saved
    spoiled    \* history: the attachments whose file a run has torn that another
               \* run had stored while it downloaded

vars == <<entries, points, files, runs, disk, spoiled>>

-----------------------------------------------------------------------------
\* uuids: runProjectBackup draws one for its entries, runIntegrationBackup one
\* for the point.
Ids == {"project", "point"} \X Runs
ProjectId(r) == <<"project", r>>
PointId(r) == <<"point", r>>

Entry == [run : Runs,               \* who created it (not stored)
          backupPointId : Ids,
          attachment : Attachments,
          prior : Nat]              \* index of the prior entry of a sidecar,
                                    \* 0 for an entry with bytes

Run == [phase : {"idle", "working", "downloading", "done", "failed"},
        found : SUBSET Attachments,   \* by its enumeration
        todo : SUBSET Attachments,    \* of them, still to be processed
        at : Attachments,             \* being downloaded
        beaten : BOOLEAN]             \* history: another run has stored it since
                                      \* this one began to

TypeOK ==
    /\ entries \in Seq(Entry)
    /\ points \subseteq Ids
    /\ files \in [Attachments -> {"absent", "torn", "whole"}]
    /\ runs \in [Runs -> Run]
    /\ disk \in [entries : Seq(Entry), points : SUBSET Ids]
    /\ spoiled \subseteq Attachments

Init ==
    /\ entries = <<>>
    /\ points = {}
    /\ files = [a \in Attachments |-> "absent"]
    /\ runs = [r \in Runs |-> [phase |-> "idle", found |-> {},
                               todo |-> {}, at |-> CHOOSE a \in Attachments : TRUE,
                               beaten |-> FALSE]]
    /\ disk = [entries |-> entries, points |-> points]
    /\ spoiled = {}

AtWork(r) == runs[r].phase \in {"working", "downloading"}

\* Entries with bytes for attachment a.
Stored(a) == {n \in DOMAIN entries :
                entries[n].attachment = a /\ entries[n].prior = 0}

Newest(ns) == CHOOSE n \in ns : \A k \in ns : k <= n

\* Mutant: a sidecar may be taken for the prior entry.
FindPriorAny(a) ==
    LET ns == {n \in DOMAIN entries : entries[n].attachment = a}
    IN  IF ns = {} THEN 0 ELSE Newest(ns)

\* findPriorManifestEntry: the newest such entry, whatever run created it; 0
\* when there is none.
FindPrior(a) == IF Stored(a) = {} THEN 0 ELSE Newest(Stored(a))

NewEntry(r, a, prior) ==
    [run |-> r, backupPointId |-> ProjectId(r), attachment |-> a,
     prior |-> prior]

-----------------------------------------------------------------------------
\* The enumeration has found issues with the attachments as.
StartRun(r, as) ==
    /\ runs[r].phase = "idle"
    /\ runs' = [runs EXCEPT ![r].phase = "working", ![r].found = as,
                            ![r].todo = as]
    /\ UNCHANGED <<entries, points, files, disk, spoiled>>

\* An attachment that some entry holds becomes a sidecar.
CarryForward(r, a) ==
    /\ runs[r].phase = "working" /\ a \in runs[r].todo
    /\ FindPrior(a) # 0
    /\ entries' = Append(entries, NewEntry(r, a, FindPrior(a)))
    /\ runs' = [runs EXCEPT ![r].todo = @ \ {a}]
    /\ UNCHANGED <<points, files, disk, spoiled>>

\* Another is downloaded, and other runs proceed meanwhile.
Download(r, a) ==
    /\ runs[r].phase = "working" /\ a \in runs[r].todo
    /\ FindPrior(a) = 0
    /\ runs' = [runs EXCEPT ![r].phase = "downloading", ![r].at = a,
                            ![r].todo = @ \ {a}, ![r].beaten = FALSE]
    /\ UNCHANGED <<entries, points, files, disk, spoiled>>

Downloading(r, a) == runs[r].phase = "downloading" /\ runs[r].at = a

\* The bytes arrived: the file is written, then the entry created.
Store(r) ==
    LET a == runs[r].at
    IN  /\ Downloading(r, a)
        /\ files' = [files EXCEPT ![a] = "whole"]
        /\ entries' = Append(entries, NewEntry(r, a, 0))
        /\ runs' = [s \in Runs |->
                CASE s = r -> [runs[s] EXCEPT !.phase = "working"]
                  [] s # r /\ Downloading(s, a) -> [runs[s] EXCEPT !.beaten = TRUE]
                  [] OTHER -> runs[s]]
        /\ spoiled' = spoiled \ {a}
        /\ UNCHANGED <<points, disk>>

\* The write of a file is interrupted half-way.
Tear(r) ==
    /\ Downloading(r, runs[r].at)
    /\ files' = [files EXCEPT ![runs[r].at] = "torn"]
    /\ spoiled' = spoiled \cup {a \in {runs[r].at} : runs[r].beaten}

\* By a full disk, and the run fails with it.
StoreFails(r) ==
    /\ Tear(r)
    /\ runs' = [runs EXCEPT ![r].phase = "failed"]
    /\ UNCHANGED <<entries, points, disk>>

\* A request of the run fails.  The entries it created stay.
FailRun(r) ==
    /\ AtWork(r)
    /\ runs' = [runs EXCEPT ![r].phase = "failed"]
    /\ UNCHANGED <<entries, points, files, disk, spoiled>>

\* saveDb, which may fail.
Save(ps) ==
    \/ disk' = [entries |-> entries, points |-> ps]
    \/ UNCHANGED disk

\* Mutant: the point is written although attachments are left.
WritePointEarly(r) ==
    /\ runs[r].phase = "working"
    /\ points' = points \cup {PointId(r)}
    /\ Save(points')
    /\ runs' = [runs EXCEPT ![r].phase = "done"]
    /\ UNCHANGED <<entries, files, spoiled>>

WritePoint(r) ==
    /\ runs[r].phase = "working" /\ runs[r].todo = {}
    /\ points' = points \cup {PointId(r)}
    /\ Save(points')
    /\ runs' = [runs EXCEPT ![r].phase = "done"]
    /\ UNCHANGED <<entries, files, spoiled>>

Autosave ==
    /\ Save(points)
    /\ UNCHANGED <<entries, points, files, runs, spoiled>>

Reload ==
    /\ entries' = disk.entries
    /\ points' = disk.points
    /\ runs' = [r \in Runs |-> IF AtWork(r)
                               THEN [runs[r] EXCEPT !.phase = "failed"]
                               ELSE runs[r]]
    /\ UNCHANGED disk

CrashAndRestart == Reload /\ UNCHANGED <<files, spoiled>>

\* The crash hits the middle of a write.
CrashInStore(r) == Tear(r) /\ Reload

Next ==
    \/ \E r \in Runs :
        \/ \E as \in SUBSET Attachments : StartRun(r, as)
        \/ \E a \in Attachments : CarryForward(r, a) \/ Download(r, a)
        \/ Store(r)
        \/ StoreFails(r)
        \/ FailRun(r)
        \/ WritePoint(r)
        \/ CrashInStore(r)
    \/ Autosave
    \/ CrashAndRestart

Spec == Init /\ [][Next]_vars

-----------------------------------------------------------------------------
(* Properties *)

\* Entry n is one with bytes, or points to one of the same attachment.
LeadsToBytes(es, n) ==
    LET holder == IF es[n].prior = 0 THEN n ELSE es[n].prior
    IN  /\ holder \in DOMAIN es
        /\ es[holder].prior = 0
        /\ es[holder].attachment = es[n].attachment

\* The bytes can be read through every entry.
Readable(es) ==
    \A n \in DOMAIN es :
        /\ LeadsToBytes(es, n)
        /\ files[es[n].attachment] = "whole" \/ es[n].attachment \in spoiled

\* Every manifest entry leads to the whole bytes of its attachment, in memory
\* and in the snapshot a restart loads, whatever saves and crashes fall between
\* the writes of files and of entries, and however sidecars are carried on.  The
\* code breaks this in one way, and the property excepts no more than that: two
\* runs downloaded the attachment at the same time, one stored it, and the other
\* then tore the file.
EntriesReadable == Readable(entries) /\ Readable(disk.entries)

\* A backup point comes with an entry for every attachment the enumeration of
\* its run found, in memory and in the snapshot: none is lost between two
\* awaits, to another run's download, or between two saves.
Complete(es, ps) ==
    \A r \in Runs : PointId(r) \in ps =>
        \A a \in runs[r].found :
            \E n \in DOMAIN es : es[n].run = r /\ es[n].attachment = a

PointHoldsAttachments ==
    Complete(entries, points) /\ Complete(disk.entries, disk.points)
==============================================================================
