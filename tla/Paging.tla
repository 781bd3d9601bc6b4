------------------------------- MODULE Paging -------------------------------
(***************************************************************************)
(* The lists of the program and who pages through them: the list of backup *)
(* points (GET /backup-points, followed by the "Load more" button of       *)
(* all-backups.html), the issue search and the Object Explorer diff of a   *)
(* backup point, the board and sprint search and the global search.        *)
(*                                                                         *)
(* A cursor names the last entry of a page by its id, and the next page    *)
(* starts behind the first entry with that id in the list as it is then.   *)
(* Meanwhile runs write backup points and a restart forgets those that     *)
(* were not saved.  The question is whether a reader who follows the       *)
(* cursors sees what the list holds.                                       *)
(***************************************************************************)
EXTENDS Integers, FiniteSets, SequencesExt, ChangeMap

CONSTANTS
    Conns,        \* integrations
    Manifests,    \* what each run finds, in order: [set of issues -> version]
    IssueOf,      \* the fields of an issue, by id and version
    Queries,      \* issue queries that are asked
    Boards,       \* the boards and the sprints each run finds: [set of ids
    Sprints,      \*   -> name of the board, fields of the sprint]
    SprintQueries,
    Fields,       \* the names of the custom fields of each integration's site
    Lists,        \* the lists that are read
    Limit,        \* the page size asked for
    None,         \* null, and no filter
    \* bounds
    MaxLoads, MaxOpen, MaxFailures,
    MaxRows       \* rows of a reader whom the cursor sends round in circles

ASSUME PagingAssumption ==
    /\ Limit \in 1 .. 200       \* parseLimit
    /\ Lists \subseteq {"points", "issues", "objects", "boards", "global"}
    /\ None \notin Conns
    /\ MaxLoads \in Nat /\ MaxOpen \in Nat /\ MaxFailures \in Nat
    /\ MaxRows \in Nat

MaxPoints == Len(Manifests)

\* What runs find is finite.  Ids, names and times are numbers, as only their
\* order counts.
ASSUME FindingsAssumption ==
    /\ IsFiniteSet(Conns)
    /\ \A c \in Conns : IsFiniteSet(Fields[c]) /\ Fields[c] \subseteq Int
    /\ Manifests \in Seq(ToSet(Manifests))
    /\ \A m \in ToSet(Manifests) :
          /\ IsFiniteSet(DOMAIN m) /\ DOMAIN m \subseteq Int
          /\ \A i \in DOMAIN m : /\ IssueOf[i][m[i]].updated \in Int
                                 /\ IssueOf[i][m[i]].resolved \in Int \cup {None}
    /\ \A q \in Queries : q.resolved \in (Int \X Int) \cup {None}
    /\ \A p \in 1 .. MaxPoints :
          /\ IsFiniteSet(DOMAIN Boards[p]) /\ DOMAIN Boards[p] \subseteq Int
          /\ \A b \in DOMAIN Boards[p] : Boards[p][b] \in Int
          /\ IsFiniteSet(DOMAIN Sprints[p]) /\ DOMAIN Sprints[p] \subseteq Int
          /\ \A s \in DOMAIN Sprints[p] : Sprints[p][s].name \in Int

\* What entries are told apart by in each list.
KeysOf(list) ==
    IF list = "boards" THEN {"board", "sprint"} \X Int \X Int
    ELSE IF list = "global" THEN Conns \X Int ELSE Int

Keys == KeysOf("points") \cup KeysOf("boards") \cup KeysOf("global")

\* A cursor and an answer with such keys.
Cursor(keys) == [id : Int \cup {None}, key : keys]
Rows(keys) == [rows : Seq(keys), next : Cursor(keys) \cup {None},
               wanted : SUBSET keys, lost : BOOLEAN, ambiguous : BOOLEAN]
NoReply == [rows |-> None]     \* an error

ASSUME NullAssumption ==
    /\ None \notin Lists /\ None \notin Int
    /\ None \notin Seq(Keys) /\ None \notin Cursor(Keys)
    /\ None \notin Rows(Keys) /\ None # NoReply

VARIABLES
    now,       \* the clock of the server when the last point was made
    points,    \* db.backupPoints with their manifests: [set of ids -> point]
    made,      \* how many points were ever made; ids are never used again
    saved,     \* which of them are in db.json
    reader,    \* the page in the browser, or the client of the API
    open,      \* its requests under way: [set of slots -> request]
    budget     \* what is left of the bounds on loads and failures

vars == <<now, points, made, saved, reader, open, budget>>

-----------------------------------------------------------------------------
(***************************************************************************)
(* The entries of the lists.  "rank" is what the comparators compare, in   *)
(* order.  A tie keeps the order of the Map, which is its last component:  *)
(* a point made later comes later.                                         *)
(***************************************************************************)
Entry(key, id, rank) == [key |-> key, id |-> id, rank |-> rank]

Before(e, f) ==
    \E k \in DOMAIN e.rank : /\ e.rank[k] < f.rank[k]
                             /\ \A j \in 1 .. k - 1 : e.rank[j] = f.rank[j]

Place(e, entries) == Cardinality({f \in entries : Before(f, e)}) + 1

Sorted(entries) ==
    [k \in 1 .. Cardinality(entries) |-> CHOOSE e \in entries : Place(e, entries) = k]

PointIds == DOMAIN points

\* Newest first.
PointEntries(conn) ==
    {Entry(p, p, <<-points[p].at, p>>) :
        p \in {q \in PointIds : conn \in {None, points[q].conn}}}

InRange(value, range) ==
    range = None \/ (value # None /\ range[1] <= value /\ value <= range[2])

\* A filter with several values: one of them (OR).  No value is none of them.
Among(value, wanted) == wanted = {} \/ value \in wanted

\* Mutant: one of the labels is enough.
MatchesAnyLabel(i, q) ==
    /\ q.words \subseteq i.words
    /\ Among(i.status, q.status)
    /\ \/ Among(i.assignee, q.assignee)
       \/ "unassigned" \in q.assignee /\ i.assignee = None
    /\ q.labels = {} \/ q.labels \cap i.labels # {}
    /\ InRange(i.resolved, q.resolved)

\* One keyword filter stands for all of their shape (issuetype, status,
\* statusCategory, priority, reporter, projectKey), one range for the three.
Matches(i, q) ==
    /\ q.words \subseteq i.words
    /\ Among(i.status, q.status)
    /\ \/ Among(i.assignee, q.assignee)
       \/ "unassigned" \in q.assignee /\ i.assignee = None
    /\ q.labels \subseteq i.labels
    /\ InRange(i.resolved, q.resolved)

\* Updated last first, then by id.
IssueEntries(p, q) ==
    LET fields(i) == IssueOf[i][points[p].manifest[i]]
    IN  {Entry(i, i, <<-fields(i).updated, i>>) :
            i \in {j \in DOMAIN points[p].manifest : Matches(fields(j), q)}}

\* changeIndicator and showUnchanged: by default what is unchanged is left out.
IndicatorFilters ==
    {[indicators |-> shown] :
        shown \in {Indicators, Indicators \ {"Unchanged"}}}

ObjectEntries(p, indicators) ==
    LET prior == points[p].prior
        diff == ChangeMap(points[p].manifest,
                          IF prior \in PointIds THEN points[prior].manifest
                                                ELSE <<>>)
    IN  {Entry(i, i, <<i>>) : i \in {j \in DOMAIN diff : diff[j] \in indicators}}

\* Boards have neither state nor dates: they are left out when a filter asks
\* for them.  A sprint is found by its start or by its end.
SprintMatches(s, q) ==
    /\ Among(s.state, q.states)
    /\ InRange(s.start, q.dates) \/ InRange(s.end, q.dates)

\* The records of all backup points, each under the id it has in Jira.
BoardEntries(q) ==
    LET boards(p) == IF q.states = {} /\ q.dates = None THEN DOMAIN Boards[p]
                     ELSE {}
        sprints(p) ==
            {s \in DOMAIN Sprints[p] : SprintMatches(Sprints[p][s], q)}
    IN  UNION {{Entry(<<"board", p, b>>, b, <<Boards[p][b], b, p>>) :
                   b \in boards(p)}
               \cup {Entry(<<"sprint", p, s>>, s,
                           <<Sprints[p][s].name, s, MaxPoints + p>>) :
                        s \in sprints(p)} : p \in PointIds}

\* The fields seen on the sites.  Their records have no "id" (the key is
\* fieldId, or workflowId), so the id of every entry is undefined: None.
FieldEntries(conn) ==
    LET seen == {c \in Conns : /\ conn \in {None, c}
                               /\ \E p \in PointIds : points[p].conn = c}
    IN  UNION {{Entry(<<c, f>>, None, <<f>>) : f \in Fields[c]} : c \in seen}

\* What a request asks of its list: the integration or the backup point it is
\* about, and a filter.
Arguments(list) ==
    LET arguments(of, queries) == [of : of, query : queries]
    IN  CASE list \in {"points", "global"} -> arguments(Conns \cup {None}, {None})
          [] list = "issues" -> arguments(PointIds, Queries)
          [] list = "objects" -> arguments(PointIds, IndicatorFilters)
          [] list = "boards" -> arguments({None}, SprintQueries)

EntriesOf(list, arg) ==
    CASE list = "points" -> PointEntries(arg.of)
      [] list = "global" -> FieldEntries(arg.of)
      [] list = "issues" -> IssueEntries(arg.of, arg.query)
      [] list = "objects" -> ObjectEntries(arg.of, arg.query.indicators)
      [] list = "boards" -> BoardEntries(arg.query)

NotFound(list, arg) == list \in {"issues", "objects"} /\ arg.of \notin PointIds

\* Equal names are told apart by the id, which is undefined: the comparator
\* throws.
Incomparable(list, arg) ==
    /\ list = "global"
    /\ \E e, f \in FieldEntries(arg.of) : e # f /\ e.rank = f.rank

-----------------------------------------------------------------------------
(***************************************************************************)
(* paginateResults, and the same lines in the list of backup points.       *)
(***************************************************************************)
\* Mutant: the page begins with the entry the cursor names.
StartAtCursor(list, cursor) ==
    LET at == IF cursor = None THEN 0
              ELSE SelectInSeq(list, LAMBDA e : e.id = cursor.id)
    IN  IF at = 0 THEN 0 ELSE at - 1

\* The entries in front of the page.  A cursor that is not in the list is as none.
Start(list, cursor) ==
    IF cursor = None THEN 0 ELSE SelectInSeq(list, LAMBDA e : e.id = cursor.id)

\* slice: what there is of the positions from start + 1 on.
PageRows(list, start) ==
    [k \in 1 .. Min({Limit, Len(list) - start}) |-> list[start + k].key]

\* Mutant: there is no next page when one entry is left.
NextUnlessOne(list, start) ==
    IF start + Limit + 1 < Len(list)
    THEN [id |-> list[start + Limit].id, key |-> list[start + Limit].key] ELSE None

\* nextCursor names the last entry of a page; "key" is history, to know which
\* of the entries with its id it was.
NextCursor(list, start) ==
    IF start + Limit < Len(list)
    THEN [id |-> list[start + Limit].id, key |-> list[start + Limit].key] ELSE None

-----------------------------------------------------------------------------
\* What a request gets.  "wanted", "lost" and "ambiguous" are history: what
\* the list should show, and whether the entry of the cursor is gone and
\* whether others have its id.
Reply(list, arg, cursor) ==
    IF NotFound(list, arg) \/ Incomparable(list, arg) THEN NoReply
    ELSE LET entries == EntriesOf(list, arg)
             sorted == Sorted(entries)
             start == Start(sorted, cursor)
         IN  [rows |-> PageRows(sorted, start), next |-> NextCursor(sorted, start),
              wanted |-> IF cursor = None THEN {e.key : e \in entries} ELSE {},
              lost |-> /\ cursor # None
                       /\ \A e \in entries : e.key # cursor.key,
              ambiguous |-> /\ cursor # None
                            /\ \E e \in entries : /\ e.id = cursor.id
                                                  /\ e.key # cursor.key]

NoReader ==
    [list |-> None,         \* what is read
     arg |-> None,          \* the filter selected, _filterConnectionId
     rows |-> <<>>,         \* _allRows, the keys of the entries shown
     next |-> None,         \* _nextCursor
     visible |-> FALSE,     \* the rows and the "Load more" button are shown
     \* history: what the list held at the first page; whether the rows come
     \* from several filters; whether requests overlapped; as in Reply, and
     \* whether both were so of one cursor
     first |-> {}, mixed |-> FALSE, overlapped |-> FALSE,
     lost |-> FALSE, ambiguous |-> FALSE, astray |-> FALSE]

Init ==
    /\ now = 0
    /\ points = <<>> /\ made = 0 /\ saved = {}
    /\ reader = NoReader
    /\ open = <<>>
    /\ budget = [loads |-> MaxLoads, failures |-> MaxFailures]

\* Only all-backups.html lets the user ask while an answer is under way and
\* select another filter; a client of the other lists asks once and waits.
MayAsk(list) ==
    /\ DOMAIN open # 1 .. MaxOpen
    /\ list = "points" \/ DOMAIN open = {}

With(f, x, value) ==
    [y \in DOMAIN f \cup {x} |-> IF y = x THEN value ELSE f[y]]

Without(f, x) == [y \in DOMAIN f \ {x} |-> f[y]]

Ask(arg, cursor) ==
    LET slot == CHOOSE s \in (1 .. MaxOpen) \ DOMAIN open : TRUE
    IN  open' = With(open, slot, [arg |-> arg, cursor |-> cursor,
                                  load |-> budget'.loads, reply |-> None])

\* loadBackups without a cursor: the page is opened, or a filter is selected.
Load(list, arg) ==
    /\ budget.loads > 0
    /\ budget' = [budget EXCEPT !.loads = @ - 1]
    /\ reader.list = None \/ (list = "points" /\ reader.list = "points")
    /\ MayAsk(list)
    /\ Ask(arg, None)
    /\ reader' = [reader EXCEPT !.list = list, !.arg = arg, !.rows = <<>>,
                                !.visible = FALSE, !.overlapped = DOMAIN open # {}]
    /\ UNCHANGED <<now, points, made, saved>>

\* loadMore
LoadMore ==
    /\ reader.visible /\ reader.next # None
    /\ reader.ambiguous => Len(reader.rows) < MaxRows
    /\ MayAsk(reader.list)
    /\ UNCHANGED <<now, points, made, saved, budget>>
    /\ Ask(reader.arg, reader.next)
    /\ reader' = [reader EXCEPT !.overlapped = @ \/ DOMAIN open # {}]

\* The handler of the list, one callback of the server.
Serve(s) ==
    /\ open[s].reply = None
    /\ UNCHANGED <<now, points, made, saved, reader, budget>>
    /\ open' = [open EXCEPT ![s].reply =
                   Reply(reader.list, open[s].arg, open[s].cursor)]

\* The answer reaches the browser: rows of a first page replace what is shown,
\* others are appended.  The filter it was asked for is not looked at.  A
\* client that is told of an error (the point is gone) stops.
Deliver(s) ==
    LET request == open[s]
        reply == request.reply
        more == request.cursor # None
        rows == IF more THEN reader.rows \o reply.rows ELSE reply.rows
        other == request.load # budget.loads   \* of an earlier filter
    IN  /\ reply # None
        /\ UNCHANGED <<now, points, made, saved, budget>>
        /\ open' = Without(open, s)
        /\ reader' = IF reply.rows = None
                     THEN [reader EXCEPT !.visible = FALSE]
                     ELSE [reader EXCEPT
                            !.rows = rows, !.next = reply.next,
                            !.visible = @ \/ rows # <<>>,
                            !.first = IF more THEN @ ELSE reply.wanted,
                            !.mixed = other \/ (more /\ @),
                            !.lost = reply.lost \/ (more /\ @),
                            !.ambiguous = reply.ambiguous \/ (more /\ @),
                            !.astray = (reply.lost /\ reply.ambiguous) \/ (more /\ @)]

\* The request fails: an error is shown, nothing else changes.
Fail(s) ==
    /\ budget.failures > 0
    /\ open' = Without(open, s)
    /\ budget' = [budget EXCEPT !.failures = @ - 1]
    /\ UNCHANGED <<now, points, made, saved, reader>>

-----------------------------------------------------------------------------
\* The clock of the server when a point is made: later than at the last one, in
\* the same millisecond, or it was set back in between.  Times are counted from
\* the first reading.
ReadClock ==
    \/ made = 0 /\ UNCHANGED <<now, budget>>
    \/ made > 0 /\ now' \in {now, now + 1} /\ UNCHANGED budget
    \/ /\ made > 0 /\ budget.failures > 0
       /\ now' = now - 1
       /\ budget' = [budget EXCEPT !.failures = @ - 1]

\* Mutant: the points are sorted the other way round.
WritePointAfterOldest(conn) ==
    LET older == Sorted(PointEntries(conn))
    IN  /\ made < MaxPoints
        /\ made' = made + 1
        /\ ReadClock
        /\ points' = With(points, made',
               [conn |-> conn, at |-> now', manifest |-> Manifests[made'],
                prior |-> IF Len(older) = 0 THEN None ELSE older[Len(older)].id])
        /\ saved' \in {saved, DOMAIN points'}
        /\ UNCHANGED <<reader, open>>

\* A run writes its backup point; the save of it may fail.
WritePoint(conn) ==
    LET older == Sorted(PointEntries(conn))
    IN  /\ made < MaxPoints
        /\ made' = made + 1
        /\ ReadClock
        /\ points' = With(points, made',
               [conn |-> conn, at |-> now', manifest |-> Manifests[made'],
                prior |-> IF Len(older) = 0 THEN None ELSE older[1].id])
        /\ saved' \in {saved, DOMAIN points'}
        /\ UNCHANGED <<reader, open>>

Autosave ==
    /\ saved' = PointIds
    /\ UNCHANGED <<now, points, made, reader, open, budget>>

\* Mutant: the backup points are not read from db.json.
CrashAndForget ==
    /\ budget.failures > 0
    /\ points' = <<>>
    /\ open' = [s \in {t \in DOMAIN open : open[t].reply # None} |-> open[s]]
    /\ budget' = [budget EXCEPT !.failures = @ - 1]
    /\ UNCHANGED <<now, made, saved, reader>>

\* The server dies with the requests it has not answered, and restarts.
CrashAndRestart ==
    /\ budget.failures > 0
    /\ points' = [p \in saved |-> points[p]]
    /\ open' = [s \in {t \in DOMAIN open : open[t].reply # None} |-> open[s]]
    /\ budget' = [budget EXCEPT !.failures = @ - 1]
    /\ UNCHANGED <<now, made, saved, reader>>

Next ==
    \/ \E list \in Lists : \E arg \in Arguments(list) : Load(list, arg)
    \/ LoadMore
    \/ \E s \in DOMAIN open : Serve(s) \/ Deliver(s) \/ Fail(s)
    \/ \E c \in Conns : WritePoint(c)
    \/ Autosave \/ CrashAndRestart

Spec == Init /\ [][Next]_vars

-----------------------------------------------------------------------------
Point == [conn : Conns, at : Int, manifest : ToSet(Manifests),
          prior : (1 .. MaxPoints) \cup {None}]

Argument == [of : Conns \cup (1 .. MaxPoints) \cup {None},
             query : Queries \cup IndicatorFilters \cup SprintQueries \cup {None}]

Request(keys) == [arg : Argument, cursor : Cursor(keys) \cup {None},
                  load : 0 .. MaxLoads, reply : Rows(keys) \cup {NoReply, None}]

Reader(keys) == [list : Lists \cup {None}, arg : Argument \cup {None},
                 rows : Seq(keys), next : Cursor(keys) \cup {None},
                 visible : BOOLEAN, first : SUBSET keys,
                 mixed : BOOLEAN, overlapped : BOOLEAN, lost : BOOLEAN,
                 ambiguous : BOOLEAN, astray : BOOLEAN]

\* Points, requests and the page have the shape the code gives them; what is
\* in db.json is in memory too.
TypeOK ==
    /\ now \in Int /\ made \in 0 .. MaxPoints
    /\ PointIds \subseteq 1 .. made /\ saved \subseteq PointIds
    /\ \A p \in PointIds : points[p] \in Point
    /\ DOMAIN open \subseteq 1 .. MaxOpen
    /\ \A s \in DOMAIN open : open[s] \in Request(KeysOf(reader.list))
    /\ reader \in Reader(KeysOf(reader.list))
    /\ budget \in [loads : 0 .. MaxLoads, failures : 0 .. MaxFailures]

\* What the documents say the lists hold (browse-search-object-explorer-
\* architecture.md, sections 3.3 to 4.2), without the order.
WantedIssue(i, q) ==
    /\ \A w \in q.words : w \in i.words
    /\ q.status # {} => i.status \in q.status
    /\ \/ q.assignee = {} \/ i.assignee \in q.assignee
       \/ i.assignee = None /\ "unassigned" \in q.assignee
    /\ \A l \in q.labels : l \in i.labels
    /\ q.resolved # None =>
          i.resolved # None /\ i.resolved \in q.resolved[1] .. q.resolved[2]

Wanted(list, arg) ==
    CASE list = "points" ->
            {p \in PointIds : arg.of = None \/ points[p].conn = arg.of}
      [] list = "issues" ->
            LET held == points[arg.of].manifest
            IN  {i \in DOMAIN held : WantedIssue(IssueOf[i][held[i]], arg.query)}
      [] OTHER -> {e.key : e \in EntriesOf(list, arg)}

Shown == ToSet(reader.rows)

\* The reader has come to the end of the list.
AtEnd == DOMAIN open = {} /\ reader.visible /\ reader.next = None

\* Hazards: points written, lost and paged over at once.  At the end of a list
\* everything is shown that was in it at the first page and still is, also
\* after a restart, when the entry of a cursor is gone, unless another has its id.
NothingSkipped ==
    /\ AtEnd /\ ~NotFound(reader.list, reader.arg)
    /\ ~reader.overlapped /\ ~reader.astray /\ reader.list # "global"
    => reader.first \cap Wanted(reader.list, reader.arg) \subseteq Shown

\* Hazard: filters, and answers that come late.  What is shown belongs to the
\* list and its filter, or to a backup point that a restart has lost.
NothingElse ==
    reader.list # None /\ ~reader.mixed /\ ~NotFound(reader.list, reader.arg) =>
        LET wanted == Wanted(reader.list, reader.arg)
            lost == (1 .. made) \ PointIds
        IN  \A key \in Shown \ wanted :
                CASE reader.list = "points" -> key \in lost
                  [] reader.list = "boards" -> key[2] \in lost
                  [] OTHER -> reader.list = "global"

\* Hazard: an insertion between two pages.  No entry is shown twice, unless
\* requests overlapped, the cursor's entry is gone, or its id is not its own.
NothingTwice ==
    ~(reader.overlapped \/ reader.lost \/ reader.ambiguous) =>
        Cardinality(Shown) = Len(reader.rows)

\* Hazards: points made at one time, or after the clock was set back, of several
\* integrations, and some lost in a crash.  A point has the one it is linked to
\* for as long as it is there, and has passed over another of its integration
\* only if the clock had not gone on between the two.
PriorPointChain ==
    \A p \in PointIds :
        LET k == points[p].prior
            passed == {q \in PointIds : /\ points[q].conn = points[p].conn
                                       /\ q < p /\ (k = None \/ k < q)}
        IN  /\ k # None => /\ k \in PointIds /\ k < p
                           /\ points[k].conn = points[p].conn
            /\ \A q \in passed : k # None /\ points[q].at <= points[k].at
=============================================================================
