--------------------------- MODULE RestoreAdmission ---------------------------
(***************************************************************************)
(* What happens before a restore writes: the basket, the checks of the     *)
(* validation pipeline in their order, the mapping of custom fields, the   *)
(* access token.  The checks look at what the database remembers of Jira:  *)
(* connections with their scopes, projects and fields that backups listed. *)
(* Meanwhile users consent again, projects are archived or deleted, tokens *)
(* age and backups run.                                                    *)
(*                                                                         *)
(* A table of the database is a sequence of its entries in the order of    *)
(* the Map: some checks stop at the first entry that fits.                 *)
(***************************************************************************)
EXTENDS Integers, FiniteSetsExt, SequencesExt

CONSTANTS
    Sites,        \* Atlassian sites, by cloudId
    SiteOf,       \* the sites of the connections, in the order they are made
    Keys,         \* project keys
    SiteFields,   \* the custom fields of each site at first, ids -> names
    NewNames,     \* the names a field may be given later
    LowerCase,    \* names -> the same in lower case; no field is without a name
    IdContains,   \* pairs of field ids of which the first contains the second
    Snapshots,    \* what the backup point holds: [type, id, fields, blank], the
                  \*   id of a project or an issue being its key
    Requests,     \* restore requests
    Ungranted,    \* what a user may leave out of the scopes of the manifest
    Attempts,     \* how many restores are asked for: 1 .. Attempts
    None,         \* null
    MaxEvents     \* bound: consents, changes, backups and lapses of time

Conns == 1 .. Len(SiteOf)

ASSUME AdmissionAssumption ==
    /\ Sites # {} /\ SiteOf \in Seq(Sites)
    /\ IsFiniteSet(Keys)
    /\ DOMAIN SiteFields = Sites
    /\ \A s \in Sites : /\ SiteFields[s] \in [DOMAIN SiteFields[s] -> STRING]
                         /\ IsFiniteSet(DOMAIN SiteFields[s])
                         /\ DOMAIN SiteFields[s] \subseteq STRING
                         /\ \A i \in DOMAIN SiteFields[s] :
                               SiteFields[s][i] \in DOMAIN LowerCase
    /\ NewNames \subseteq STRING /\ NewNames \subseteq DOMAIN LowerCase
    /\ Attempts \in Nat
    /\ MaxEvents \in Nat
    /\ None \notin Sites /\ None \notin Keys /\ None \notin Conns

VARIABLES
    conns,       \* db.connections: [Conns -> connection or None]
    nodes,       \* db.projectNodes: sequence of [conn, key, archived]
    defs,        \* db.customFieldDefinitions: sequence of [site, id, name]
    jira,        \* the projects and field names that are really there
    runs,        \* the backup of each connection under way
    attempts,    \* the restores
    unseen,      \* history: <<connection, key>> of the projects that changed
                 \*   since the connection listed them
    doubts,      \* history, by connection: "raced" if the flag is from a run
                 \*   that raced a consent, "unanswered" if its board phase
                 \*   was told neither yes nor no
    budget       \* what is left of MaxEvents

admissionVars == <<conns, nodes, defs, jira, runs, attempts, unseen, doubts, budget>>

-----------------------------------------------------------------------------
(***************************************************************************)
(* Scopes: SCOPE_MANIFEST and validateScopes.                              *)
(***************************************************************************)
BoardRead == "read:board-scope:jira-software"
BoardWrite == "write:board-scope:jira-software"

\* The entries that are required.
Required ==
    {"offline_access", "read:jira-work", "write:jira-work", "read:issue:jira",
     "write:issue:jira", "read:issue-type:jira", "read:project:jira",
     "write:project:jira", "manage:jira-project", "read:jira-user",
     "read:user:jira", "read:field:jira", "write:field:jira",
     "manage:jira-configuration", "read:epic:jira-software",
     "write:epic:jira-software", "read:sprint:jira-software",
     "write:sprint:jira-software", "manage:jira-webhook"}

\* The optional ones: without them a connection is degraded.
BoardScopes == {BoardRead, BoardWrite}

ConnectionAllowed(granted) == Required \subseteq granted
BoardScopeDegraded(granted) == ~(BoardScopes \subseteq granted)

\* RESTORE_SCOPE_REQUIREMENTS, for the types a basket can have.
ScopesFor(type) ==
    CASE type = "issue" -> {"write:jira-work", "write:issue:jira"}
      [] type = "project" -> {"write:project:jira", "manage:jira-project"}
      [] type = "workflow" -> {"manage:jira-configuration"}
      [] type = "customFieldDefinition" -> {"write:field:jira"}
      [] type = "board" -> {BoardWrite}
      [] type = "sprint" -> {BoardWrite, "write:sprint:jira-software"}

-----------------------------------------------------------------------------
(***************************************************************************)
(* The basket and the destination.                                         *)
(***************************************************************************)
\* buildBasket: no list selects everything.  An empty one of types selects
\* nothing and one of projects no project, but one of issues all of them.
Basket(selection) ==
    {i \in Snapshots :
        /\ selection.types = None \/ i.type \in selection.types
        /\ i.type = "project" /\ selection.projects # None =>
              i.id \in selection.projects
        /\ i.type = "issue" /\ selection.issues \notin {None, {}} =>
              i.id \in selection.issues}

Types(basket) == {i.type : i \in basket}
NeededScopes(basket) == UNION {ScopesFor(t) : t \in Types(basket)}
FieldsIn(basket) == UNION {i.fields : i \in {j \in basket : j.type = "issue"}}

TargetSite(r) == IF r.target = None THEN r.source ELSE r.target

\* initiateRestore: an alternate destination that names no site is taken for
\* another site as well.
MapsFields(r) == r.cross \/ (r.dest = "alternate" /\ r.target # r.source)

-----------------------------------------------------------------------------
(***************************************************************************)
(* The checks, each of the state of the database.                          *)
(***************************************************************************)
Connected == {c \in Conns : conns[c] # None}
OfSite(site) == {c \in Connected : SiteOf[c] = site}

\* Check 1: some connection of the site has an access token that is not over.
TokenValid(site) == Connected = {} \/ \E c \in OfSite(site) : conns[c].life > 0

\* The connection whose scopes check 1b looks at: the one named, else the first
\* one of the site, if there is one.
\* Mutant: the first connection of the site.
ScopesOfSite(site, c) == IF OfSite(site) # {} THEN {Min(OfSite(site))} ELSE {}

ScopesHeld(site, c) ==
    IF c \in Connected THEN {c}
    ELSE IF OfSite(site) # {} THEN {Min(OfSite(site))} ELSE {}

ScopesGranted(site, c, basket) ==
    \A d \in ScopesHeld(site, c) : NeededScopes(basket) \subseteq conns[d].scopes

\* The first entry of the project in the Map, 0 if there is none.  Check 2 also
\* takes an entry whose key, integrationId:projectKey, contains the cloudId of
\* the target; ids of connections are uuids of this server, so none does.
\* Mutant: the site is not looked at.
NodeOfAnySite(site, key) == SelectInSeq(nodes, LAMBDA n : n.key = key)

NodeOf(site, key) ==
    SelectInSeq(nodes, LAMBDA n : n.key = key /\ SiteOf[n.conn] = site)

\* Check 2
ProjectExists(r) ==
    \/ r.dest \in {"original", "export"}
    \/ r.key # None /\ (nodes = <<>> \/ NodeOf(TargetSite(r), r.key) # 0)

\* Check 3
ProjectArchived(r) ==
    LET n == NodeOf(TargetSite(r), r.key) IN n # 0 /\ nodes[n].archived

\* Check 4: the first connection of the site that may read boards may write.
SoftwareActive(site) ==
    LET readers == {c \in OfSite(site) : BoardRead \in conns[c].scopes}
    IN  \/ Connected = {}
        \/ readers # {} /\ BoardWrite \in conns[Min(readers)].scopes

\* Checks 5 and 6 only warn: nothing sets item.requiredFields.
Warnings(site, basket) ==
    {"WORKFLOW_STATUS_NAME_MISSING" : i \in {j \in basket : j.blank}}
    \cup {"CUSTOM_FIELD_OPTIONAL_MISSING" :
            f \in {g \in FieldsIn(basket) :
                     /\ defs # <<>>
                     /\ \A k \in DOMAIN defs :
                           defs[k].site = site => <<defs[k].id, g>> \notin IdContains}}

\* runValidationPipeline: the first check that fails, or None.
\* Check 7 never fails, as no snapshot is of an attachment.
Refusal(r, basket) ==
    LET site == TargetSite(r)
        boards == Types(basket) \cap {"board", "sprint"} # {}
        checks == << [id |-> "OAUTH_TOKEN_VALIDITY", ok |-> TokenValid(site)],
                     [id |-> "GRANTED_SCOPES",
                      ok |-> ScopesGranted(site, r.conn, basket)],
                     [id |-> "TARGET_PROJECT_EXISTENCE", ok |-> ProjectExists(r)],
                     [id |-> "TARGET_PROJECT_ARCHIVE_STATUS",
                      ok |-> ~ProjectArchived(r)],
                     [id |-> "JIRA_SOFTWARE_ACTIVE",
                      ok |-> boards => SoftwareActive(site)] >>
        failed == SelectInSeq(checks, LAMBDA check : ~check.ok)
    IN  IF failed = 0 THEN None ELSE checks[failed].id

\* Mutant: a field of the target that has the id is preferred.
FieldMapById(source, target, ids) ==
    LET named(site, id) ==
            SelectLastInSeq(defs, LAMBDA d : d.site = site /\ d.id = id)
        sameName(id) ==
            IF named(target, id) # 0 THEN named(target, id)
            ELSE SelectLastInSeq(defs,
                    LAMBDA d : /\ d.site = target
                               /\ LowerCase[d.name] = LowerCase[defs[named(source, id)].name])
        found == {id \in ids : named(source, id) # 0 /\ sameName(id) # 0}
    IN  IF defs = <<>> THEN [id \in ids |-> id]
        ELSE [id \in found |-> defs[sameName(id)].id]

\* buildFieldMap: by name, whatever its case; of several fields of a name on the
\* target, the last.
FieldMap(source, target, ids) ==
    LET named(site, id) ==
            SelectLastInSeq(defs, LAMBDA d : d.site = site /\ d.id = id)
        sameName(id) ==
            SelectLastInSeq(defs,
                LAMBDA d : /\ d.site = target
                           /\ LowerCase[d.name] = LowerCase[defs[named(source, id)].name])
        found == {id \in ids : named(source, id) # 0 /\ sameName(id) # 0}
    IN  IF defs = <<>> THEN [id \in ids |-> id]
        ELSE [id \in found |-> defs[sameName(id)].id]

MapFor(r, basket, maps) ==
    IF maps THEN FieldMap(r.source, TargetSite(r), FieldsIn(basket)) ELSE <<>>

\* writeObjectToJira: the field of the target that a field is written to.
WrittenTo(r, map, id) == IF r.cross /\ id \in DOMAIN map THEN map[id] ELSE id

-----------------------------------------------------------------------------
\* The fields "id" make up the key of a Map.
SameKey(e, f, id) == \A x \in id : e[x] = f[x]

\* Map.set for each of the entries: one whose key is in the table takes its
\* place, the others come last.
SetAll(table, entries, id) ==
    LET added == {e \in entries : \A k \in DOMAIN table : ~SameKey(e, table[k], id)}
    IN  [k \in DOMAIN table |->
            IF \E e \in entries : SameKey(e, table[k], id)
            THEN CHOOSE e \in entries : SameKey(e, table[k], id)
            ELSE table[k]] \o SetToSeq(added)

\* null is neither a connection nor the id of a check.
Scopes == Required \cup BoardScopes
Connection == [scopes : SUBSET Scopes, life : 0 .. 2, degraded : BOOLEAN]
CheckIds == {"OAUTH_TOKEN_VALIDITY", "GRANTED_SCOPES", "TARGET_PROJECT_EXISTENCE",
             "TARGET_PROJECT_ARCHIVE_STATUS", "JIRA_SOFTWARE_ACTIVE"}

ASSUME NullAssumption ==
    None \notin Connection /\ None \notin CheckIds

NodeKey == {"conn", "key"}
DefKey == {"site", "id"}

NoRun == [phase |-> "idle", boards |-> None, raced |-> FALSE]
NoAttempt ==
    [phase |-> "new", request |-> None, refusal |-> None, map |-> <<>>,
     warnings |-> {},
     \* history: the project at that time, and whether it had changed since
     \* the listing looked at; whether the connection has since consented to
     \* less than the restore needs
     project |-> None, stale |-> FALSE, narrowed |-> FALSE]

AdmissionInit ==
    /\ conns = [c \in Conns |-> None]
    /\ nodes = <<>> /\ defs = <<>>
    /\ jira = [projects |-> [s \in Sites |-> [k \in Keys |-> "live"]],
               names |-> SiteFields]
    /\ runs = [c \in Conns |-> NoRun]
    /\ attempts = [a \in 1 .. Attempts |-> NoAttempt]
    /\ unseen = {} /\ doubts = [c \in Conns |-> {}]
    /\ budget = MaxEvents

Spend == budget > 0 /\ budget' = budget - 1

\* A life of 2 is more than the refresh buffer, 0 is over.
Granted(scopes) ==
    [scopes |-> scopes, life |-> 2, degraded |-> BoardScopeDegraded(scopes)]

\* A consent to these scopes takes from restore t one that it needs.
Narrows(t, c, scopes) ==
    /\ t.phase \in {"waiting", "writing"}
    /\ t.request.conn = c
    /\ ~(NeededScopes(Basket(t.request.selection)) \subseteq scopes)

\* The callback of a consent: a new connection, or the reauthentication of one.
\* Too few scopes leave everything as it is.
Consent(c, scopes) ==
    /\ Spend
    /\ \A d \in Conns : d < c => conns[d] # None
    /\ IF ConnectionAllowed(scopes)
       THEN /\ conns' = [conns EXCEPT ![c] = Granted(scopes)]
            /\ attempts' = [a \in DOMAIN attempts |->
                  [attempts[a] EXCEPT !.narrowed = @ \/ Narrows(attempts[a], c, scopes)]]
            /\ doubts' = [doubts EXCEPT ![c] = {}]
            /\ runs' = [runs EXCEPT ![c].raced = runs[c].phase # "idle"]
       ELSE UNCHANGED <<conns, attempts, doubts, runs>>
    /\ UNCHANGED <<nodes, defs, jira, unseen>>

\* Time passes for an access token.
Age(c, to) ==
    /\ Spend
    /\ conns[c] # None /\ conns[c].life > to
    /\ conns' = [conns EXCEPT ![c].life = to]
    /\ UNCHANGED <<nodes, defs, jira, runs, attempts, unseen, doubts>>

\* A project is archived, restored or deleted at the site.
ChangeProject(site, key, to) ==
    /\ Spend
    /\ jira.projects[site][key] \notin {to, "absent"}
    /\ jira' = [jira EXCEPT !.projects[site][key] = to]
    /\ unseen' = unseen \cup {<<c, key>> : c \in {d \in Conns : SiteOf[d] = site}}
    /\ UNCHANGED <<conns, nodes, defs, runs, attempts, doubts>>

RenameField(site, id, name) ==
    /\ Spend
    /\ jira.names[site][id] # name
    /\ jira' = [jira EXCEPT !.names[site][id] = name]
    /\ UNCHANGED <<conns, nodes, defs, runs, attempts, unseen, doubts>>

-----------------------------------------------------------------------------
\* A backup of all projects, with a token that is refreshed when it is short:
\* the project listing, with the archived ones or without, then the fields.
ListSite(c, archivedToo) ==
    LET site == SiteOf[c]
        listed == IF archivedToo THEN {"live", "archived"} ELSE {"live"}
        there == {k \in Keys : jira.projects[site][k] \in listed}
    IN  /\ Spend
        /\ conns[c] # None /\ runs[c].phase = "idle"
        /\ nodes' = SetAll(nodes,
              {[conn |-> c, key |-> k,
                archived |-> jira.projects[site][k] = "archived"] : k \in there},
              NodeKey)
        /\ defs' = SetAll(defs,
              {[site |-> site, id |-> i, name |-> jira.names[site][i]] :
                  i \in DOMAIN jira.names[site]}, DefKey)
        /\ unseen' = unseen \ {<<c, k>> : k \in there}
        /\ conns' = [conns EXCEPT ![c].life = 2]
        /\ runs' = [runs EXCEPT ![c] = [NoRun EXCEPT !.phase = "listed"]]
        /\ UNCHANGED <<jira, attempts, doubts>>

\* The board phase.  A token refused twice is a missing scope if the connection
\* has not got it now, else AUTH_ERROR; any other failure warns of nothing.  The
\* run goes on.  A token older than the consent may have other scopes.
AnswerBoards(c, answer) ==
    /\ runs[c].phase = "listed"
    /\ answer = "BOARD_READ_SCOPE_MISSING" => BoardRead \notin conns[c].scopes
    /\ answer = "ok" => BoardRead \in conns[c].scopes \/ runs[c].raced
    /\ runs' = [runs EXCEPT ![c].phase = "sited", ![c].boards = answer]
    /\ UNCHANGED <<conns, nodes, defs, jira, attempts, unseen, doubts, budget>>

\* Mutant: any warning is taken for a missing scope.
RaisesWarnings(answer) == answer \in {"BOARD_READ_SCOPE_MISSING", "AUTH_ERROR"}

Raises(answer) == answer = "BOARD_READ_SCOPE_MISSING"

\* The end of a run sets or clears the flag.
EndRun(c) ==
    /\ runs[c].phase = "sited"
    /\ conns' = [conns EXCEPT ![c].degraded = Raises(runs[c].boards)]
    /\ doubts' = [doubts EXCEPT ![c] =
          {why \in {"raced", "unanswered"} :
              IF why = "raced" THEN runs[c].raced
              ELSE runs[c].boards \in {"AUTH_ERROR", "failed"}}]
    /\ runs' = [runs EXCEPT ![c] = NoRun]
    /\ UNCHANGED <<nodes, defs, jira, attempts, unseen, budget>>

FailRun(c) ==
    /\ runs[c].phase # "idle"
    /\ runs' = [runs EXCEPT ![c] = NoRun]
    /\ UNCHANGED <<conns, nodes, defs, jira, attempts, unseen, doubts, budget>>

-----------------------------------------------------------------------------
\* initiateRestore up to its first await; an export needs no token, and a
\* request that names no connection gets none.
Initiate(a, r) ==
    LET basket == Basket(r.selection)
        site == TargetSite(r)
        refusal == Refusal(r, basket)
        node == NodeOf(site, r.key)
    IN  /\ attempts[a].phase = "new"
        /\ r.conn \in Connected \cup {None}
        /\ \A b \in 1 .. a - 1 : attempts[b].phase # "new"
        /\ attempts' = [attempts EXCEPT ![a] =
              [phase |-> IF refusal # None THEN "refused"
                         ELSE IF r.dest = "export" \/ r.conn = None THEN "offline"
                         ELSE "waiting",
               request |-> r, refusal |-> refusal,
               map |-> IF refusal = None THEN MapFor(r, basket, MapsFields(r))
                       ELSE <<>>,
               warnings |-> Warnings(site, basket),
               project |-> IF node = 0 THEN None ELSE jira.projects[site][r.key],
               stale |-> node # 0 /\ <<nodes[node].conn, r.key>> \in unseen,
               narrowed |-> FALSE]]
        /\ UNCHANGED <<conns, nodes, defs, jira, runs, unseen, doubts, budget>>

\* getValidAccessToken: a token that is short is refreshed first.  When that
\* fails, the restore goes on without a connection to Jira.
GetToken(a, refreshed) ==
    LET c == attempts[a].request.conn
        short == conns[c].life < 2
    IN  /\ attempts[a].phase = "waiting"
        /\ refreshed => short
        /\ attempts' = [attempts EXCEPT ![a].phase =
              IF short => refreshed THEN "writing" ELSE "offline"]
        /\ conns' = IF refreshed THEN [conns EXCEPT ![c].life = 2] ELSE conns
        /\ UNCHANGED <<nodes, defs, jira, runs, unseen, doubts, budget>>

AdmissionNext ==
    \/ \E c \in Conns : \/ \E u \in Ungranted : Consent(c, Scopes \ u)
                        \/ \E to \in 0 .. 1 : Age(c, to)
                        \/ \E archivedToo \in BOOLEAN : ListSite(c, archivedToo)
                        \/ \E answer \in {"ok", "BOARD_READ_SCOPE_MISSING",
                                           "AUTH_ERROR", "failed"} :
                              AnswerBoards(c, answer)
                        \/ EndRun(c) \/ FailRun(c)
    \/ \E s \in Sites, k \in Keys, to \in {"live", "archived", "absent"} :
          ChangeProject(s, k, to)
    \/ \E s \in Sites : \E i \in DOMAIN jira.names[s], n \in NewNames :
          RenameField(s, i, n)
    \/ \E a \in 1 .. Attempts : \/ \E r \in Requests : Initiate(a, r)
                               \/ \E refreshed \in BOOLEAN : GetToken(a, refreshed)

AdmissionSpec == AdmissionInit /\ [][AdmissionNext]_admissionVars

-----------------------------------------------------------------------------
Admitted == {a \in 1 .. Attempts :
               attempts[a].phase \in {"waiting", "writing", "offline"}}

\* Hazard: the scopes are checked, then the token is awaited while the user
\* may consent to less.  Whoever writes holds the scopes of what he writes,
\* whatever he consented to in between, unless that very consent left out a
\* scope he needs: the code does not look again.
ScopesCoverWrites ==
    \A a \in 1 .. Attempts :
        /\ attempts[a].phase = "writing" /\ ~attempts[a].narrowed
        => NeededScopes(Basket(attempts[a].request.selection))
              \subseteq conns[attempts[a].request.conn].scopes

\* Hazard: projects are remembered, not asked for.  An admitted restore into
\* another project finds it there and not archived, unless it changed after
\* the listing whose entry was looked at, or nothing was ever listed.
AdmittedIsFresh ==
    \A a \in Admitted :
        attempts[a].project # None /\ ~attempts[a].stale =>
            attempts[a].project = "live"

\* Hazard: field ids mean nothing on another site.  A mapped field had on the
\* target the name it had at the source, up to case, and only a field without a namesake
\* is left out.
NameIn(site, id) == {d.name : d \in {e \in ToSet(defs) : e.site = site /\ e.id = id}}
Named(site, name) ==
    {d.id : d \in {e \in ToSet(defs) : e.site = site /\ LowerCase[e.name] = LowerCase[name]}}

MapKeepsNames ==
    defs # <<>> =>
        \A source, target \in Sites :
            \A id \in DOMAIN SiteFields[source] :
                LET map == FieldMap(source, target, {id})
                    namesakes == UNION {Named(target, n) : n \in NameIn(source, id)}
                IN  /\ id \in DOMAIN map => map[id] \in namesakes
                    /\ id \notin DOMAIN map => namesakes = {}

\* Hazard: the flag is written by consents and by runs that may be older.  A
\* connection that may not read boards is flagged, unless the last run raced a
\* consent or was not told; one that may do both is not, unless it raced.
DegradedIsReal ==
    \A c \in Connected :
        /\ BoardRead \notin conns[c].scopes /\ ~conns[c].degraded =>
              doubts[c] # {}
        /\ BoardScopes \subseteq conns[c].scopes /\ conns[c].degraded =>
              "raced" \in doubts[c]

\* restore-engine-architecture.md:669: "missing optional fields emit warnings
\* and proceed with those fields dropped", so that no value is written to a
\* field of another name.
FieldsGoHome ==
    \A a \in Admitted :
        LET r == attempts[a].request
        IN  r.dest = "alternate" /\ TargetSite(r) # r.source =>
            \A id \in FieldsIn(Basket(r.selection)) :
                \A n \in NameIn(r.source, id) :
                    \A m \in NameIn(TargetSite(r), WrittenTo(r, attempts[a].map, id)) :
                        LowerCase[m] = LowerCase[n]
=============================================================================
