---------------------------- MODULE BackupScope ----------------------------
(***************************************************************************)
(* What a backup run covers: runIntegrationBackup makes sure that a        *)
(* webhook is registered, finds the projects, and, after the projects have *)
(* been backed up (module IncrementalBackup), enumerates the objects of    *)
(* the site: workflows and fields at once, the contexts of the custom      *)
(* fields in chunks of concurrent calls, boards and sprints last.          *)
(*                                                                         *)
(* Every answer of Jira is a step, so runs of the same connection overlap  *)
(* at each of them; a crash falls between any two.                         *)
(***************************************************************************)
EXTENDS Integers, FiniteSets

CONSTANTS
    Runs,              \* executions of runIntegrationBackup
    Projects,          \* project keys, in the order Jira lists them
    Selections,        \* the values of selectedProjectIds tried, {} for all
    PageSize,          \* projects per page
    CustomFields,      \* ids of custom fields, in the order Jira lists them
    Chunk,             \* CONTEXT_OPTIONS_CONCURRENCY
    HasWebhookScope,   \* the connection was granted manage:jira-webhook
    MaxHooks           \* bound on the webhooks ever registered

ASSUME ScopeAssumption ==
    /\ Projects \subseteq Nat /\ IsFiniteSet(Projects) /\ CustomFields \subseteq Nat
    /\ Selections \subseteq SUBSET Projects /\ {} \in Selections
    /\ PageSize \in Nat \ {0} /\ Chunk \in Nat \ {0} /\ MaxHooks \in Nat
    /\ HasWebhookScope \in BOOLEAN

VARIABLES
    projects,    \* the projects that exist in Jira
    hooks,       \* the webhooks active in Jira
    made,        \* how many webhooks Jira has made, their ids
    store,       \* the records in memory
    disk,        \* the records in db.json
    runs

vars == <<projects, hooks, made, store, disk, runs>>

-----------------------------------------------------------------------------
\* registered: db.webhookRegistrations not yet expired; known: db.projectNodes;
\* selected: selectedProjectIds of the connection, {} in mode "all".
Store == [registered : SUBSET (1 .. MaxHooks), known : SUBSET Projects,
          selected : Selections]

Phases == {"idle", "register", "answer", "projects", "work", "fields",
           "contexts", "boards", "write", "done", "failed"}

Run == [phase : Phases,
        hook : 0 .. MaxHooks,             \* the webhook it relies on, or 0
        keys : SUBSET Projects,           \* projectKeys
        startAt : Nat,
        lists : SUBSET {"workflows", "fields"},   \* lists not yet answered
        waiting : SUBSET CustomFields,    \* contexts not yet answered
        todo : SUBSET CustomFields,       \* custom fields not yet asked for
        contexts : SUBSET CustomFields,   \* fields whose contexts it holds
        \* history, for the properties
        present : SUBSET Projects,        \* there during the whole listing
        known : SUBSET Projects,          \* in projectNodes before the listing
        fellBack : BOOLEAN,               \* the listing failed
        shifted : BOOLEAN]                \* a project vanished under the pages

TypeOK ==
    /\ projects \subseteq Projects
    /\ made \in 0 .. MaxHooks /\ hooks \subseteq 1 .. made
    /\ store \in Store /\ disk \in Store
    /\ runs \in [Runs -> Run]
    /\ \A r \in Runs : /\ runs[r].hook <= made
                       /\ runs[r].waiting \cap runs[r].todo = {}

NewRun == [phase |-> "idle", hook |-> 0, keys |-> {}, startAt |-> 0,
           lists |-> {}, waiting |-> {}, todo |-> {}, contexts |-> {},
           present |-> {}, known |-> {}, fellBack |-> FALSE,
           shifted |-> FALSE]

\* A part of the run is over: its local variables are gone, its webhook stays.
End(run, phase) == [NewRun EXCEPT !.phase = phase, !.hook = run.hook]

Failed == [NewRun EXCEPT !.phase = "failed"]

Init ==
    /\ projects = Projects
    /\ hooks = {} /\ made = 0
    /\ store = [registered |-> {}, known |-> {}, selected |-> {}]
    /\ disk = store
    /\ runs = [r \in Runs |-> NewRun]

-----------------------------------------------------------------------------
(* Jira *)

\* Where a project stands in the listing.
Rank(p) == Cardinality({q \in projects : q < p})

CreateProject(p) ==
    /\ p \notin projects
    /\ projects' = projects \cup {p}
    /\ UNCHANGED <<hooks, made, store, disk, runs>>

Listing(r) == runs[r].phase = "projects"

RemoveProject(p) ==
    /\ p \in projects
    /\ projects' = projects \ {p}
    /\ runs' = [r \in Runs |->
                  IF Listing(r)
                  THEN [runs[r] EXCEPT !.present = @ \ {p},
                                       !.shifted = @ \/ Rank(p) < runs[r].startAt]
                  ELSE runs[r]]
    /\ UNCHANGED <<hooks, made, store, disk>>

\* Thirty days after its registration a webhook ends, and its expiresAt is
\* past; nothing renews it.
ExpireHook(h) ==
    /\ h \in hooks
    /\ hooks' = hooks \ {h}
    /\ store' = [store EXCEPT !.registered = @ \ {h}]
    /\ disk' = [disk EXCEPT !.registered = @ \ {h}]
    /\ UNCHANGED <<projects, made, runs>>

-----------------------------------------------------------------------------
(* Webhook *)

\* To the project discovery: selected projects are taken as they are.
ToProjects(run) ==
    IF store.selected # {}
    THEN [run EXCEPT !.phase = "work", !.keys = store.selected]
    ELSE [run EXCEPT !.phase = "projects", !.present = projects,
                     !.known = store.known]

ActiveHook == IF HasWebhookScope THEN CHOOSE h \in store.registered : TRUE
                                ELSE 0

\* ensureWebhookRegistered looks for an active registration; without one it
\* sends a request to Jira.
StartRun(r) ==
    /\ runs[r].phase = "idle"
    /\ runs' = [runs EXCEPT ![r] =
                    IF HasWebhookScope /\ store.registered = {}
                    THEN [@ EXCEPT !.phase = "register"]
                    ELSE ToProjects([@ EXCEPT !.hook = ActiveHook])]
    /\ UNCHANGED <<projects, hooks, made, store, disk>>

\* Jira makes a webhook.
RegisterHook(r) ==
    /\ runs[r].phase = "register"
    /\ made < MaxHooks
    /\ made' = made + 1
    /\ hooks' = hooks \cup {made'}
    /\ runs' = [runs EXCEPT ![r].phase = "answer", ![r].hook = made']
    /\ UNCHANGED <<projects, store, disk>>

\* The answer arrives (long before the webhook can have expired) and is kept.
StoreHook(r) ==
    /\ runs[r].phase = "answer"
    /\ runs[r].hook \in hooks
    /\ store' = [store EXCEPT !.registered = @ \cup {runs[r].hook}]
    /\ runs' = [runs EXCEPT ![r] = ToProjects(@)]
    /\ UNCHANGED <<projects, hooks, made, disk>>

-----------------------------------------------------------------------------
(* Projects *)

\* PATCH /integrations/:id/project-scope, at any time.
SelectProjects(selection) ==
    /\ store' = [store EXCEPT !.selected = selection]
    /\ UNCHANGED <<projects, hooks, made, disk, runs>>

Page(r) ==
    {p \in projects :
        Rank(p) \in runs[r].startAt .. runs[r].startAt + PageSize - 1}

ToWork(run, keys) == [run EXCEPT !.phase = "work", !.keys = keys]

\* A page of the listing; isLast and the empty page end it.
ListProjects(r) ==
    LET page == Page(r)
        next == runs[r].startAt + (IF page = {} THEN PageSize
                                                ELSE Cardinality(page))
        keys == runs[r].keys \cup page
    IN  /\ Listing(r)
        /\ store' = [store EXCEPT !.known = @ \cup page]
        /\ runs' = [runs EXCEPT ![r] =
                IF page = {} \/ next >= Cardinality(projects)
                THEN ToWork(@, keys)
                ELSE [@ EXCEPT !.keys = keys, !.startAt = next]]
        /\ UNCHANGED <<projects, hooks, made, disk>>

\* Mutant: the run goes on with the pages it has.
FallBackPartial(r) ==
    /\ Listing(r)
    /\ runs' = [runs EXCEPT ![r] = [ToWork(@, @.keys) EXCEPT
                                        !.fellBack = TRUE]]
    /\ UNCHANGED <<projects, hooks, made, store, disk>>

\* A request of the listing fails: the projects ever seen are taken instead.
FallBack(r) ==
    /\ Listing(r)
    /\ runs' = [runs EXCEPT ![r] = [ToWork(@, store.known) EXCEPT
                                        !.fellBack = TRUE]]
    /\ UNCHANGED <<projects, hooks, made, store, disk>>

-----------------------------------------------------------------------------
(* Site objects *)

\* The projects have been backed up.  Workflows and fields are asked for at
\* once; contexts wait for both.
FinishProjects(r) ==
    /\ runs[r].phase = "work"
    /\ runs' = [runs EXCEPT ![r] = [End(@, "fields") EXCEPT
                                        !.lists = {"workflows", "fields"}]]
    /\ UNCHANGED <<projects, hooks, made, store, disk>>

AnswerList(r, call) ==
    /\ runs[r].phase = "fields" /\ call \in runs[r].lists
    /\ runs' = [runs EXCEPT ![r] =
            IF @.lists = {call}
            THEN [@ EXCEPT !.lists = {}, !.phase = "contexts",
                           !.todo = CustomFields]
            ELSE [@ EXCEPT !.lists = runs[r].lists \ {call}]]
    /\ UNCHANGED <<projects, hooks, made, store, disk>>

First(n, fields) == {f \in fields : Cardinality({g \in fields : g < f}) < n}

\* Mutant: the loop steps by one more than it slices.
AskContextsSkipping(r) ==
    /\ runs[r].phase = "contexts" /\ runs[r].waiting = {} /\ runs[r].todo # {}
    /\ runs' = [runs EXCEPT ![r].waiting = First(Chunk, runs[r].todo),
                            ![r].todo = @ \ First(Chunk + 1, @)]
    /\ UNCHANGED <<projects, hooks, made, store, disk>>

\* The contexts of the next chunk of custom fields.
AskContexts(r) ==
    /\ runs[r].phase = "contexts" /\ runs[r].waiting = {} /\ runs[r].todo # {}
    /\ runs' = [runs EXCEPT ![r].waiting = First(Chunk, runs[r].todo),
                            ![r].todo = @ \ First(Chunk, @)]
    /\ UNCHANGED <<projects, hooks, made, store, disk>>

\* Answered with the contexts, or with 404 for a field that has none.
AnswerContexts(r, f) ==
    /\ runs[r].phase = "contexts" /\ f \in runs[r].waiting
    /\ runs' = [runs EXCEPT ![r].waiting = @ \ {f},
                            ![r].contexts = @ \cup {f}]
    /\ UNCHANGED <<projects, hooks, made, store, disk>>

AskBoards(r) ==
    /\ runs[r].phase = "contexts" /\ runs[r].waiting = {} /\ runs[r].todo = {}
    /\ runs' = [runs EXCEPT ![r].phase = "boards"]
    /\ UNCHANGED <<projects, hooks, made, store, disk>>

\* Boards and sprints are answered, or skipped with or without a warning: no
\* failure of theirs ends the run.
AnswerBoards(r) ==
    /\ runs[r].phase = "boards"
    /\ runs' = [runs EXCEPT ![r].phase = "write"]
    /\ UNCHANGED <<projects, hooks, made, store, disk>>

\* Mutant: the point is left to the autosave.
WritePointUnsaved(r) ==
    /\ runs[r].phase = "write"
    /\ runs' = [runs EXCEPT ![r] = End(@, "done")]
    /\ UNCHANGED <<projects, hooks, made, store, disk>>

\* The point, its manifests and the save, without an await.
\* The save is taken to succeed (BackupJobs has failed ones).
WritePoint(r) ==
    /\ runs[r].phase = "write"
    /\ runs' = [runs EXCEPT ![r] = End(@, "done")]
    /\ disk' = store
    /\ UNCHANGED <<projects, hooks, made, store>>

\* An error that is not caught on the way ends the run: no connection, a
\* webhook refused or its answer lost, a project, workflows, fields, contexts.
\* What Jira still answers to it only refreshes cached nodes.
FailRun(r) ==
    /\ runs[r].phase \in {"idle", "register", "answer", "work", "fields",
                        "contexts"}
    /\ runs' = [runs EXCEPT ![r] = Failed]
    /\ UNCHANGED <<projects, hooks, made, store, disk>>

Autosave ==
    /\ disk' = store
    /\ UNCHANGED <<projects, hooks, made, store, runs>>

CrashAndRestart ==
    /\ store' = disk
    /\ runs' = [r \in Runs |->
                  IF runs[r].phase \in {"idle", "done"} THEN runs[r]
                  ELSE Failed]
    /\ UNCHANGED <<projects, hooks, made, disk>>

Next ==
    \/ \E p \in Projects : CreateProject(p)
    \/ \E p \in Projects : RemoveProject(p)
    \/ \E h \in hooks : ExpireHook(h)
    \/ \E r \in Runs : StartRun(r)
    \/ \E r \in Runs : RegisterHook(r)
    \/ \E r \in Runs : StoreHook(r)
    \/ \E selection \in Selections : SelectProjects(selection)
    \/ \E r \in Runs : ListProjects(r)
    \/ \E r \in Runs : FallBack(r)
    \/ \E r \in Runs : FinishProjects(r)
    \/ \E r \in Runs, call \in {"workflows", "fields"} : AnswerList(r, call)
    \/ \E r \in Runs : AskContexts(r)
    \/ \E r \in Runs, f \in CustomFields : AnswerContexts(r, f)
    \/ \E r \in Runs : AskBoards(r)
    \/ \E r \in Runs : AnswerBoards(r)
    \/ \E r \in Runs : WritePoint(r)
    \/ \E r \in Runs : FailRun(r)
    \/ Autosave
    \/ CrashAndRestart

Spec == Init /\ [][Next]_vars

-----------------------------------------------------------------------------
(* Properties *)

\* A run of all projects covers each project that existed while it listed
\* them: when the listing succeeds and no project vanished under its pages,
\* all of them; when it fails, at least those that an earlier listing knew.
ScopeIsComplete ==
    \A r \in Runs : runs[r].phase = "work" =>
        IF runs[r].fellBack
        THEN runs[r].present \cap runs[r].known \subseteq runs[r].keys
        ELSE runs[r].shifted \/ runs[r].present \subseteq runs[r].keys

\* A point is written when every call for the objects of the site has been
\* answered, with the contexts of every custom field among the answers.
SiteIsComplete ==
    \A r \in Runs : runs[r].phase \in {"boards", "write"} =>
        /\ runs[r].lists = {} /\ runs[r].waiting = {} /\ runs[r].todo = {}
        /\ runs[r].contexts = CustomFields

\* The webhook a finished run relies on is registered as long as it is active
\* in Jira, in memory and in db.json: no crash after the point brings another.
HookOutlivesRun ==
    \A r \in Runs : runs[r].phase = "done" /\ runs[r].hook \in hooks =>
        runs[r].hook \in store.registered \cap disk.registered
=============================================================================
