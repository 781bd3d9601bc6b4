--------------------------- MODULE BackupScopeProofs ---------------------------
(***************************************************************************)
(* BackupScope for any projects, fields, webhooks and runs: what a run     *)
(* covers is complete, whatever is created and removed in Jira under its   *)
(* pages, and the webhook of a finished run stays registered.              *)
(***************************************************************************)
EXTENDS BackupScope, FiniteSetTheorems, TLAPS

Typed(run) ==
    run \in Run /\ run.hook <= made /\ run.waiting \cap run.todo = {}

\* While it lists, a run has the projects of the pages behind it, unless a
\* project before them vanished; and what was known is known still.
Listed(run) ==
    run.phase = "projects" =>
        /\ run.present \subseteq projects
        /\ run.known \subseteq store.known
        /\ ~run.fellBack
        /\ ~run.shifted =>
                \A p \in run.present : Rank(p) < run.startAt => p \in run.keys

Covered(run) ==
    /\ run.phase \in {"idle", "register", "answer"} =>
        run.present = {} /\ run.startAt = 0 /\ ~run.fellBack /\ ~run.shifted
    /\ run.phase = "work" =>
        IF run.fellBack
        THEN run.present \cap run.known \subseteq run.keys
        ELSE run.shifted \/ run.present \subseteq run.keys

\* Every custom field is still to be asked for, or asked for, or answered.
Contexts(run) ==
    /\ run.phase = "fields" =>
        run.contexts = {} /\ run.waiting = {} /\ run.todo = {}
    /\ run.phase = "contexts" =>
        /\ run.lists = {}
        /\ run.contexts \cup run.waiting \cup run.todo = CustomFields
    /\ run.phase \in {"boards", "write"} =>
        /\ run.lists = {} /\ run.waiting = {} /\ run.todo = {}
        /\ run.contexts = CustomFields

AfterHook == {"projects", "work", "fields", "contexts", "boards", "write", "done"}

\* The webhook of a run is registered once its answer is there, and in db.json
\* once its point is.
Registered(run) ==
    run.phase \in AfterHook /\ run.hook \in hooks =>
        /\ run.hook \in store.registered
        /\ run.phase = "done" => run.hook \in disk.registered

Good(run) ==
    /\ Typed(run) /\ Listed(run) /\ Covered(run) /\ Contexts(run) /\ Registered(run)

Records ==
    /\ projects \subseteq Projects
    /\ made \in 0 .. MaxHooks /\ hooks \subseteq 1 .. made
    /\ store \in Store /\ disk \in Store
    /\ store.registered \subseteq 1 .. made /\ disk.registered \subseteq 1 .. made

IInv == Records /\ runs \in [Runs -> Run] /\ \A r \in Runs : Good(runs[r])

-----------------------------------------------------------------------------
(* The order of the listing *)

LEMMA RankIs ==
    ASSUME projects \subseteq Projects, NEW p
    PROVE  /\ Rank(p) = Cardinality({q \in projects : q < p})
           /\ IsFiniteSet(projects) /\ IsFiniteSet({q \in projects : q < p})
           /\ Rank(p) \in Nat /\ Cardinality(projects) \in Nat
           /\ p \in projects => Rank(p) < Cardinality(projects)
<1> DEFINE B == {q \in projects : q < p}
<1>1. IsFiniteSet(projects) /\ Cardinality(projects) \in Nat
  BY ScopeAssumption, FS_Subset, FS_CardinalityType
<1>2. B \in SUBSET projects
  OBVIOUS
<1>3. IsFiniteSet(B) /\ Cardinality(B) \in Nat /\ Cardinality(B) <= Cardinality(projects)
      /\ (Cardinality(projects) = Cardinality(B) => projects = B)
  BY <1>1, <1>2, FS_Subset, FS_CardinalityType
<1>4. p \in projects => projects # B
  BY ScopeAssumption
<1> QED
  BY <1>1, <1>3, <1>4 DEF Rank

LEMMA RankMonotone ==
    ASSUME projects \subseteq Projects, NEW q \in projects, NEW p \in projects, q < p
    PROVE  Rank(q) < Rank(p)
<1> DEFINE Q == {x \in projects : x < q}
           P == {x \in projects : x < p}
<1>1. \A x \in projects : x \in Nat
  BY ScopeAssumption
<1>2. Q \in SUBSET P /\ q \in P /\ q \notin Q
  BY <1>1
<1>3. Cardinality(Q) <= Cardinality(P) /\ (Cardinality(P) = Cardinality(Q) => P = Q)
  BY <1>2, RankIs, FS_Subset
<1> QED
  BY <1>2, <1>3, RankIs

\* Ranks are the places of a list: each place is taken, once.
LEMMA Places ==
    ASSUME projects \subseteq Projects
    PROVE  [p \in projects |-> Rank(p)] \in
                Bijection(projects, 0 .. (Cardinality(projects) - 1))
<1> DEFINE c == Cardinality(projects)
           rank == [p \in projects |-> Rank(p)]
           T == 0 .. (c - 1)
<1>1. /\ c \in Nat /\ IsFiniteSet(projects)
      /\ \A p \in projects : Rank(p) \in Nat /\ Rank(p) < c
  <2>1. c \in Nat /\ IsFiniteSet(projects)
    BY RankIs
  <2>2. \A p \in projects : Rank(p) \in Nat /\ Rank(p) < c
    BY RankIs
  <2> QED
    BY <2>1, <2>2
<1>2. IsFiniteSet(T) /\ Cardinality(T) = c
  <2> HIDE DEF c
  <2>1. 0 \in Int /\ c - 1 \in Int
    BY <1>1
  <2>2. IsFiniteSet(T) /\ Cardinality(T) = IF 0 > c - 1 THEN 0 ELSE (c - 1) - 0 + 1
    BY <2>1, FS_Interval, Zenon
  <2> QED
    BY <1>1, <2>2
<1>3. rank \in Injection(projects, T)
  <2>1. rank \in [projects -> T]
    <3>1. \A p \in projects : Rank(p) \in T
      BY <1>1
    <3> HIDE DEF T
    <3> QED
      BY <3>1
  <2>2. \A p, q \in projects : rank[p] = rank[q] => p = q
    <3> SUFFICES ASSUME NEW p \in projects, NEW q \in projects, p # q
                 PROVE  rank[p] # rank[q]
      OBVIOUS
    <3>1. p < q \/ q < p
      BY ScopeAssumption
    <3>2. Rank(p) < Rank(q) \/ Rank(q) < Rank(p)
      BY <3>1, RankMonotone
    <3> QED
      BY <1>1, <3>2
  <2> HIDE DEF rank, T
  <2> QED
    BY <2>1, <2>2 DEF Injection, IsInjective
<1>4. rank \in Surjection(projects, T)
  <2> HIDE DEF rank, T
  <2> QED
    BY <1>1, <1>2, <1>3, FS_Injection
<1> QED
  BY <1>3, <1>4 DEF Bijection

\* A page holds no more than its size, and is not empty before the end.
LEMMA PageIs ==
    ASSUME projects \subseteq Projects, NEW o \in Nat
    PROVE  LET page == {p \in projects : Rank(p) \in o .. (o + PageSize) - 1}
           IN  /\ Cardinality(page) \in Nat /\ Cardinality(page) <= PageSize
               /\ \A p \in projects : Rank(p) >= o => page # {}
<1> DEFINE page == {p \in projects : Rank(p) \in o .. (o + PageSize) - 1}
           window == o .. (o + PageSize) - 1
           part == [p \in page |-> Rank(p)]
           rank == [p \in projects |-> Rank(p)]
           T == 0 .. (Cardinality(projects) - 1)
<1>1. PageSize \in Nat /\ PageSize > 0
  BY ScopeAssumption
<1>2. IsFiniteSet(window) /\ Cardinality(window) = PageSize
  <2>1. o \in Int /\ (o + PageSize) - 1 \in Int
    BY <1>1
  <2>2. IsFiniteSet(window) /\ Cardinality(window) =
            IF o > (o + PageSize) - 1 THEN 0 ELSE ((o + PageSize) - 1) - o + 1
    BY <2>1, FS_Interval, Zenon
  <2> QED
    BY <1>1, <2>2
<1>3. rank \in Injection(projects, T) /\ rank \in Surjection(projects, T)
  BY Places DEF Bijection
<1>4. part \in Injection(page, window)
  <2>1. part \in [page -> window]
    <3>1. \A p \in page : Rank(p) \in window
      OBVIOUS
    <3> HIDE DEF window, page
    <3> QED
      BY <3>1
  <2>2. \A p, q \in projects : rank[p] = rank[q] => p = q
    <3> HIDE DEF rank, T
    <3> QED
      BY <1>3 DEF Injection, IsInjective
  <2>3. \A p, q \in page : part[p] = part[q] => p = q
    BY <2>2
  <2> HIDE DEF part, page, rank
  <2> QED
    BY <2>1, <2>3 DEF Injection, IsInjective
<1>5. IsFiniteSet(page) /\ Cardinality(page) <= PageSize
  <2> HIDE DEF part, page, window
  <2> QED
    BY <1>2, <1>4, FS_Injection
<1>6. Cardinality(page) \in Nat
  BY <1>5, FS_CardinalityType
<1>7. ASSUME NEW p \in projects, Rank(p) >= o PROVE page # {}
  <2>1. Rank(p) \in Nat /\ Rank(p) < Cardinality(projects) /\ Cardinality(projects) \in Nat
    BY RankIs
  <2>2. o \in T
    BY <1>7, <2>1
  <2>3. PICK q \in projects : rank[q] = o
    <3> HIDE DEF rank, T
    <3> QED
      BY <1>3, <2>2 DEF Surjection
  <2>4. q \in page
    BY <1>1, <2>3
  <2> QED
    BY <2>4
<1> QED
  BY <1>5, <1>6, <1>7

\* A project that is created moves others back, never ahead.
LEMMA RankAfterCreate ==
    ASSUME projects \subseteq Projects, NEW p \in Projects, projects' = projects \cup {p},
           NEW q
    PROVE  Rank(q)' >= Rank(q) /\ Rank(q) \in Nat /\ Rank(q)' \in Nat
<1> DEFINE B == {x \in projects : x < q}
           C == {x \in projects' : x < q}
<1>1. projects' \subseteq Projects
  OBVIOUS
<1>2. IsFiniteSet(projects')
  BY <1>1, ScopeAssumption, FS_Subset
<1>3. C \in SUBSET projects' /\ B \in SUBSET C
  OBVIOUS
<1>4. IsFiniteSet(C)
  BY <1>2, <1>3, FS_Subset
<1>5. Cardinality(B) <= Cardinality(C) /\ Cardinality(B) \in Nat /\ Cardinality(C) \in Nat
  BY <1>3, <1>4, FS_Subset, FS_CardinalityType
<1>6. Rank(q) = Cardinality(B) /\ Rank(q)' = Cardinality(C)
  BY DEF Rank
<1> QED
  BY <1>5, <1>6

\* A project that is removed behind the pages seen moves none under them.
LEMMA RankAfterRemove ==
    ASSUME projects \subseteq Projects, NEW p \in projects, projects' = projects \ {p},
           NEW o \in Nat, ~(Rank(p) < o),
           NEW q \in projects, q # p, Rank(q)' < o
    PROVE  Rank(q) < o
<1> DEFINE B == {x \in projects : x < q}
           C == {x \in projects' : x < q}
<1>1. Rank(q) = Cardinality(B) /\ Rank(q)' = Cardinality(C)
  BY DEF Rank
<1>2. IsFiniteSet(B) /\ Rank(q) \in Nat /\ Rank(p) \in Nat
  BY RankIs
<1>3. p \in Nat /\ q \in Nat
  BY ScopeAssumption
<1>4. CASE p < q
  <2>1. C = B \ {p} /\ p \in B
    BY <1>4
  <2>2. Cardinality(B \ {p}) = Cardinality(B) - 1
    <3> HIDE DEF B
    <3> QED
      BY <1>2, <2>1, FS_RemoveElement
  <2>3. Rank(p) < Rank(q)
    BY <1>4, RankMonotone
  <2> QED
    BY <1>1, <1>2, <2>1, <2>2, <2>3
<1>5. CASE ~(p < q)
  <2>1. C = B
    BY <1>5
  <2> QED
    BY <1>1, <2>1
<1> QED
  BY <1>4, <1>5

-----------------------------------------------------------------------------
(* Steps of a run *)

\* A step of one run leaves what holds of the others.
LEMMA OneRun ==
    ASSUME IInv, Records', NEW r \in Runs, NEW run, runs' = [runs EXCEPT ![r] = run],
           Good(run)', \A x \in Run : Good(x) => Good(x)'
    PROVE  IInv'
<1>1. run \in Run
  BY DEF Good, Typed
<1>2. runs' \in [Runs -> Run]
  BY <1>1 DEF IInv
<1>3. ASSUME NEW q \in Runs PROVE Good(runs[q])'
  <2>1. CASE q = r
    BY <2>1 DEF IInv
  <2>2. CASE q # r
    <3>1. PICK x \in Run : x = runs[q] /\ Good(x)
      BY DEF IInv
    <3>2. x = runs'[q]
      BY <2>2, <3>1 DEF IInv
    <3> QED
      BY <3>1, <3>2
  <2> QED
    BY <2>1, <2>2
<1> QED
  BY <1>2, <1>3 DEF IInv

\* Nothing but the run changes.
LEMMA LocalStep ==
    ASSUME IInv, NEW r \in Runs, NEW run, runs' = [runs EXCEPT ![r] = run], Good(run),
           UNCHANGED <<projects, hooks, made, store, disk>>
    PROVE  IInv'
<1>1. Records'
  BY DEF IInv, Records
<1>2. Good(run)' /\ \A x \in Run : Good(x) => Good(x)'
  BY DEF Good, Typed, Listed, Covered, Contexts, Registered, Rank
<1> QED
  BY <1>1, <1>2, OneRun

\* From here a run takes its projects or lists them.
LEMMA ToProjectsIs ==
    ASSUME Records, NEW run \in Run, run.phase \in {"idle", "answer"},
           Typed(run), Covered(run)
    PROVE  /\ ToProjects(run).phase \in {"projects", "work"} /\ ToProjects(run).hook = run.hook
           /\ Typed(ToProjects(run)) /\ Listed(ToProjects(run))
           /\ Covered(ToProjects(run)) /\ Contexts(ToProjects(run))
<1> DEFINE new == ToProjects(run)
<1>1. projects \subseteq Projects /\ store \in Store
  BY DEF Records
<1>2. run.present = {} /\ run.startAt = 0 /\ ~run.fellBack /\ ~run.shifted
  BY DEF Covered
<1>3. CASE store.selected # {}
  <2>1. new = [run EXCEPT !.phase = "work", !.keys = store.selected]
    BY <1>3 DEF ToProjects
  <2>2. store.selected \subseteq Projects
    BY <1>1, ScopeAssumption DEF Store
  <2>3. new \in Run /\ new.phase = "work" /\ new.hook = run.hook /\ new.waiting = run.waiting
        /\ new.todo = run.todo /\ new.present = {} /\ ~new.fellBack
    BY <1>2, <2>1, <2>2 DEF Run, Phases
  <2> HIDE DEF new
  <2>4. Typed(new) /\ Listed(new) /\ Covered(new) /\ Contexts(new)
    BY <2>3 DEF Typed, Listed, Covered, Contexts
  <2> QED
    BY <2>3, <2>4 DEF new
<1>4. CASE store.selected = {}
  <2>1. new = [run EXCEPT !.phase = "projects", !.present = projects, !.known = store.known]
    BY <1>4 DEF ToProjects
  <2>2. \A p \in projects : ~(Rank(p) < 0)
    <3>1. ASSUME NEW p \in projects PROVE Rank(p) \in Nat
      BY <1>1, RankIs
    <3> QED
      BY <3>1
  <2>3. store.known \subseteq Projects
    BY <1>1 DEF Store
  <2>4. new \in Run /\ new.phase = "projects" /\ new.present = projects /\ new.known = store.known
        /\ new.hook = run.hook /\ new.waiting = run.waiting /\ new.todo = run.todo
        /\ new.startAt = 0 /\ ~new.fellBack
    <3>1. new \in Run
      BY <1>1, <2>1, <2>3 DEF Run, Phases
    <3>2. new.phase = "projects" /\ new.present = projects /\ new.known = store.known
          /\ new.hook = run.hook /\ new.waiting = run.waiting /\ new.todo = run.todo
          /\ new.startAt = run.startAt /\ new.fellBack = run.fellBack
      BY <2>1 DEF Run
    <3> QED
      BY <1>2, <3>1, <3>2
  <2> HIDE DEF new
  <2>5. Typed(new) /\ Listed(new) /\ Covered(new) /\ Contexts(new)
    BY <2>2, <2>4 DEF Typed, Listed, Covered, Contexts
  <2> QED
    BY <2>4, <2>5 DEF new
<1> QED
  BY <1>3, <1>4

LEMMA StartRunKeeps ==
    ASSUME IInv, NEW r \in Runs, StartRun(r) PROVE IInv'
<1> DEFINE found == [runs[r] EXCEPT !.hook = ActiveHook]
           run == IF HasWebhookScope /\ store.registered = {}
                  THEN [runs[r] EXCEPT !.phase = "register"]
                  ELSE ToProjects(found)
<1>1. runs[r] \in Run /\ Good(runs[r]) /\ runs[r].phase = "idle" /\ Records
  BY DEF IInv, StartRun
<1>2. ASSUME HasWebhookScope, store.registered = {} PROVE Good(run)
  BY <1>1, <1>2 DEF Good, Typed, Listed, Covered, Contexts, Registered, Run, Phases, AfterHook
<1>3. ASSUME ~(HasWebhookScope /\ store.registered = {}) PROVE Good(run)
  <2>1. ActiveHook \in 0 .. made /\ (ActiveHook # 0 => ActiveHook \in store.registered)
    BY <1>1, <1>3 DEF ActiveHook, Records
  <2>2. found \in Run /\ found.hook = ActiveHook /\ found.phase = "idle"
    BY <1>1, <2>1, ScopeAssumption DEF Run, Records
  <2>3. Typed(found) /\ Covered(found)
    BY <1>1, <2>1, <2>2 DEF Good, Typed, Covered, Run, Records
  <2>4. found.hook \in hooks => found.hook \in store.registered
    BY <1>1, <2>1, <2>2 DEF Records
  <2> DEFINE new == ToProjects(found)
  <2> HIDE DEF found
  <2>5. new.phase \in {"projects", "work"} /\ new.hook = found.hook
        /\ Typed(new) /\ Listed(new) /\ Covered(new) /\ Contexts(new)
    BY <1>1, <2>2, <2>3, ToProjectsIs
  <2>6. Registered(new)
    <3> HIDE DEF new
    <3> QED
      BY <2>4, <2>5 DEF Registered
  <2> QED
    BY <1>3, <2>5, <2>6 DEF Good
<1>4. runs' = [runs EXCEPT ![r] = run] /\ UNCHANGED <<projects, hooks, made, store, disk>>
  BY DEF StartRun
<1> HIDE DEF found, run
<1> QED
  BY <1>2, <1>3, <1>4, LocalStep

LEMMA FallBackKeeps ==
    ASSUME IInv, NEW r \in Runs, FallBack(r) PROVE IInv'
<1> DEFINE run == [ToWork(runs[r], store.known) EXCEPT !.fellBack = TRUE]
<1>1. runs[r] \in Run /\ Good(runs[r])
  BY DEF IInv
<1>4. store.known \subseteq Projects
  BY DEF IInv, Records, Store
<1>2. Good(run)
  BY <1>1, <1>4 DEF Good, Typed, Listed, Covered, Contexts, Registered, FallBack, Run, Phases, AfterHook, Listing, ToWork
<1>3. runs' = [runs EXCEPT ![r] = run] /\ UNCHANGED <<projects, hooks, made, store, disk>>
  BY DEF FallBack
<1> HIDE DEF run
<1> QED
  BY <1>2, <1>3, LocalStep

LEMMA FinishProjectsKeeps ==
    ASSUME IInv, NEW r \in Runs, FinishProjects(r) PROVE IInv'
<1> DEFINE run == [End(runs[r], "fields") EXCEPT !.lists = {"workflows", "fields"}]
<1>1. runs[r] \in Run /\ Good(runs[r])
  BY DEF IInv
<1>2. Good(run)
  BY <1>1 DEF Good, Typed, Listed, Covered, Contexts, Registered, FinishProjects, Run, Phases, AfterHook, End, NewRun
<1>3. runs' = [runs EXCEPT ![r] = run] /\ UNCHANGED <<projects, hooks, made, store, disk>>
  BY DEF FinishProjects
<1> HIDE DEF run
<1> QED
  BY <1>2, <1>3, LocalStep

LEMMA AnswerListKeeps ==
    ASSUME IInv, NEW r \in Runs, NEW call \in {"workflows", "fields"}, AnswerList(r, call) PROVE IInv'
<1> DEFINE run == IF runs[r].lists = {call}
                  THEN [runs[r] EXCEPT !.lists = {}, !.phase = "contexts", !.todo = CustomFields]
                  ELSE [runs[r] EXCEPT !.lists = runs[r].lists \ {call}]
<1>1. runs[r] \in Run /\ Good(runs[r])
  BY DEF IInv
<1>2. Good(run)
  BY <1>1 DEF Good, Typed, Listed, Covered, Contexts, Registered, AnswerList, Run, Phases, AfterHook
<1>3. runs' = [runs EXCEPT ![r] = run] /\ UNCHANGED <<projects, hooks, made, store, disk>>
  BY DEF AnswerList
<1> HIDE DEF run
<1> QED
  BY <1>2, <1>3, LocalStep

LEMMA AskContextsKeeps ==
    ASSUME IInv, NEW r \in Runs, AskContexts(r) PROVE IInv'
<1> DEFINE run == [runs[r] EXCEPT !.waiting = First(Chunk, runs[r].todo),
                                   !.todo = @ \ First(Chunk, @)]
<1>1. runs[r] \in Run /\ Good(runs[r])
  BY DEF IInv
<1>4. First(Chunk, runs[r].todo) \subseteq runs[r].todo
  BY DEF First
<1>2. Good(run)
  BY <1>1, <1>4 DEF Good, Typed, Listed, Covered, Contexts, Registered, AskContexts, Run, Phases, AfterHook
<1>3. runs' = [runs EXCEPT ![r] = run] /\ UNCHANGED <<projects, hooks, made, store, disk>>
  BY DEF AskContexts
<1> HIDE DEF run
<1> QED
  BY <1>2, <1>3, LocalStep

LEMMA AnswerContextsKeeps ==
    ASSUME IInv, NEW r \in Runs, NEW f \in CustomFields, AnswerContexts(r, f) PROVE IInv'
<1> DEFINE run == [runs[r] EXCEPT !.waiting = @ \ {f}, !.contexts = @ \cup {f}]
<1>1. runs[r] \in Run /\ Good(runs[r])
  BY DEF IInv
<1>2. /\ runs[r].phase = "contexts" /\ f \in runs[r].waiting
      /\ runs[r].waiting \cup runs[r].todo \cup runs[r].contexts = CustomFields
  BY <1>1 DEF AnswerContexts, Good, Contexts
<1>4. run \in Run /\ run.phase = "contexts" /\ run.hook = runs[r].hook /\ run.lists = runs[r].lists
      /\ run.waiting = runs[r].waiting \ {f} /\ run.todo = runs[r].todo
      /\ run.contexts = runs[r].contexts \cup {f}
  BY <1>1, <1>2 DEF Run
<1>5. Good(run)
  <2> HIDE DEF run
  <2>1. Typed(run) /\ Registered(run) /\ Listed(run) /\ Covered(run)
    BY <1>1, <1>2, <1>4 DEF Good, Typed, Registered, Listed, Covered, AfterHook
  <2>2. Contexts(run)
    BY <1>1, <1>2, <1>4 DEF Good, Contexts
  <2> QED
    BY <2>1, <2>2 DEF Good
<1>3. runs' = [runs EXCEPT ![r] = run] /\ UNCHANGED <<projects, hooks, made, store, disk>>
  BY DEF AnswerContexts
<1> HIDE DEF run
<1> QED
  BY <1>5, <1>3, LocalStep

LEMMA AskBoardsKeeps ==
    ASSUME IInv, NEW r \in Runs, AskBoards(r) PROVE IInv'
<1> DEFINE run == [runs[r] EXCEPT !.phase = "boards"]
<1>1. runs[r] \in Run /\ Good(runs[r])
  BY DEF IInv
<1>2. Good(run)
  BY <1>1 DEF Good, Typed, Listed, Covered, Contexts, Registered, AskBoards, Run, Phases, AfterHook
<1>3. runs' = [runs EXCEPT ![r] = run] /\ UNCHANGED <<projects, hooks, made, store, disk>>
  BY DEF AskBoards
<1> HIDE DEF run
<1> QED
  BY <1>2, <1>3, LocalStep

LEMMA AnswerBoardsKeeps ==
    ASSUME IInv, NEW r \in Runs, AnswerBoards(r) PROVE IInv'
<1> DEFINE run == [runs[r] EXCEPT !.phase = "write"]
<1>1. runs[r] \in Run /\ Good(runs[r])
  BY DEF IInv
<1>2. Good(run)
  BY <1>1 DEF Good, Typed, Listed, Covered, Contexts, Registered, AnswerBoards, Run, Phases, AfterHook
<1>3. runs' = [runs EXCEPT ![r] = run] /\ UNCHANGED <<projects, hooks, made, store, disk>>
  BY DEF AnswerBoards
<1> HIDE DEF run
<1> QED
  BY <1>2, <1>3, LocalStep

\* A failed run promises nothing.
LEMMA FailedIsGood ==
    ASSUME Records PROVE Failed \in Run /\ Failed.phase = "failed" /\ Good(Failed)
<1>1. MaxHooks \in Nat /\ made \in Nat
  BY ScopeAssumption DEF Records
<1>3. NewRun \in Run /\ NewRun.hook = 0 /\ NewRun.waiting = {}
  BY <1>1 DEF NewRun, Run, Phases
<1>2. Failed \in Run /\ Failed.phase = "failed" /\ Failed.hook = 0 /\ Failed.waiting = {}
  BY <1>3 DEF Failed, Run, Phases
<1> QED
  BY <1>1, <1>2 DEF Good, Typed, Listed, Covered, Contexts, Registered, AfterHook

LEMMA FailRunKeeps ==
    ASSUME IInv, NEW r \in Runs, FailRun(r) PROVE IInv'
<1> DEFINE run == Failed
<1>1. Records
  BY DEF IInv
<1>2. Good(run)
  BY <1>1, FailedIsGood
<1>3. runs' = [runs EXCEPT ![r] = run] /\ UNCHANGED <<projects, hooks, made, store, disk>>
  BY DEF FailRun
<1> HIDE DEF run
<1> QED
  BY <1>2, <1>3, LocalStep

-----------------------------------------------------------------------------
(* Steps that change what is shared *)

LEMMA RegisterHookKeeps ==
    ASSUME IInv, NEW r \in Runs, RegisterHook(r) PROVE IInv'
<1>0. PICK run : run = [runs[r] EXCEPT !.phase = "answer", !.hook = made + 1]
  OBVIOUS
<1>1. runs[r] \in Run /\ Good(runs[r]) /\ runs[r].phase = "register" /\ Records
      /\ made \in Nat /\ made + 1 \in 0 .. MaxHooks /\ MaxHooks \in Nat
  BY ScopeAssumption DEF IInv, RegisterHook, Records
<1>2. made' = made + 1 /\ hooks' = hooks \cup {made + 1} /\ UNCHANGED <<projects, store, disk>>
  BY DEF RegisterHook
<1>3. Records'
  BY <1>1, <1>2 DEF Records
<1>4. runs' = [runs EXCEPT ![r] = run]
  BY <1>0 DEF RegisterHook, IInv
<1>5. run \in Run /\ run.phase = "answer" /\ run.hook = made + 1 /\ run.waiting = runs[r].waiting
      /\ run.todo = runs[r].todo /\ run.present = runs[r].present /\ run.startAt = runs[r].startAt
      /\ run.fellBack = runs[r].fellBack /\ run.shifted = runs[r].shifted
  BY <1>0, <1>1 DEF Run, Phases
<1>6. Good(run)'
  BY <1>1, <1>2, <1>5
  DEF Good, Typed, Listed, Covered, Contexts, Registered, AfterHook
<1>7. ASSUME NEW x \in Run, Good(x) PROVE Good(x)'
  <2>1. x.hook \in Nat /\ x.hook <= made
    BY <1>7 DEF Good, Typed, Run
  <2>2. Typed(x)' /\ Registered(x)'
    BY <1>1, <1>2, <1>7, <2>1 DEF Good, Typed, Registered
  <2>3. Listed(x)' /\ Covered(x)' /\ Contexts(x)'
    BY <1>2, <1>7 DEF Good, Listed, Covered, Contexts, Rank
  <2> QED
    BY <2>2, <2>3 DEF Good
<1> QED
  BY <1>3, <1>4, <1>6, <1>7, OneRun

LEMMA StoreHookKeeps ==
    ASSUME IInv, NEW r \in Runs, StoreHook(r) PROVE IInv'
<1>0. PICK run : run = ToProjects(runs[r])
  OBVIOUS
<1>1. runs[r] \in Run /\ Good(runs[r]) /\ runs[r].phase = "answer" /\ Records
      /\ runs[r].hook \in hooks
  BY DEF IInv, StoreHook
<1>2. /\ store' = [store EXCEPT !.registered = @ \cup {runs[r].hook}]
      /\ UNCHANGED <<projects, hooks, made, disk>> /\ runs' = [runs EXCEPT ![r] = run]
  BY <1>0 DEF StoreHook
<1>3. runs[r].hook \in 1 .. made /\ runs[r].hook \in 1 .. MaxHooks
  <2>1. MaxHooks \in Nat
    BY ScopeAssumption
  <2>2. made \in 0 .. MaxHooks /\ runs[r].hook \in 1 .. made
    BY <1>1 DEF Records
  <2> QED
    BY <2>1, <2>2
<1>4. store' \in Store /\ store'.registered = store.registered \cup {runs[r].hook}
      /\ store'.known = store.known
  BY <1>1, <1>2, <1>3 DEF Store, Records
<1>5. Records'
  BY <1>1, <1>2, <1>3, <1>4 DEF Records
<1>6. run.phase \in {"projects", "work"} /\ run.hook = runs[r].hook
      /\ Typed(run) /\ Listed(run) /\ Covered(run) /\ Contexts(run)
  BY <1>0, <1>1, ToProjectsIs DEF Good
<1>7. Good(run)'
  <2>1. Registered(run)'
    BY <1>4, <1>6 DEF Registered
  <2>2. Typed(run)' /\ Listed(run)' /\ Covered(run)' /\ Contexts(run)'
    BY <1>2, <1>4, <1>6 DEF Typed, Listed, Covered, Contexts, Rank
  <2> QED
    BY <2>1, <2>2 DEF Good
<1>8. \A x \in Run : Good(x) => Good(x)'
  BY <1>2, <1>4 DEF Good, Typed, Listed, Covered, Contexts, Registered, Rank
<1> QED
  BY <1>2, <1>5, <1>7, <1>8, OneRun

LEMMA WritePointKeeps ==
    ASSUME IInv, NEW r \in Runs, WritePoint(r) PROVE IInv'
<1>0. PICK run : run = End(runs[r], "done")
  OBVIOUS
<1>1. runs[r] \in Run /\ Good(runs[r]) /\ runs[r].phase = "write" /\ Records
      /\ MaxHooks \in Nat
  BY ScopeAssumption DEF IInv, WritePoint
<1>2. disk' = store /\ UNCHANGED <<projects, hooks, made, store>> /\ runs' = [runs EXCEPT ![r] = run]
  BY <1>0 DEF WritePoint
<1>3. Records'
  BY <1>1, <1>2 DEF Records
<1>4. NewRun \in Run /\ NewRun.waiting = {}
  BY <1>1 DEF NewRun, Run, Phases
<1>5. run \in Run /\ run.phase = "done" /\ run.hook = runs[r].hook /\ run.waiting = {}
  BY <1>0, <1>1, <1>4 DEF End, Run, Phases
<1>6. Good(run)'
  BY <1>1, <1>2, <1>5 DEF Good, Typed, Listed, Covered, Contexts, Registered, AfterHook
<1>7. \A x \in Run : Good(x) => Good(x)'
  BY <1>2 DEF Good, Typed, Listed, Covered, Contexts, Registered, Rank
<1> QED
  BY <1>2, <1>3, <1>6, <1>7, OneRun

LEMMA ListProjectsKeeps ==
    ASSUME IInv, NEW r \in Runs, ListProjects(r) PROVE IInv'
<1> DEFINE o == runs[r].startAt
           page == Page(r)
           next == o + (IF page = {} THEN PageSize ELSE Cardinality(page))
           keys == runs[r].keys \cup page
           last == page = {} \/ next >= Cardinality(projects)
           new == IF last THEN ToWork(runs[r], keys)
                  ELSE [runs[r] EXCEPT !.keys = keys, !.startAt = next]
<1>0. PICK run : run = new
  OBVIOUS
<1>1. runs[r] \in Run /\ Good(runs[r]) /\ runs[r].phase = "projects" /\ Records /\ o \in Nat
      /\ projects \subseteq Projects /\ PageSize \in Nat \ {0} /\ Cardinality(projects) \in Nat
  BY ScopeAssumption, RankIs DEF IInv, ListProjects, Listing, Records, Run
<1>2. store' = [store EXCEPT !.known = @ \cup page] /\ runs' = [runs EXCEPT ![r] = run]
      /\ UNCHANGED <<projects, hooks, made, disk>>
  BY <1>0 DEF ListProjects
<1>3. page = {p \in projects : Rank(p) \in o .. (o + PageSize) - 1}
  BY <1>1 DEF Page
<1>4. Cardinality(page) \in Nat /\ Cardinality(page) <= PageSize
      /\ \A p \in projects : Rank(p) >= o => page # {}
  <2> HIDE DEF page
  <2> QED
    BY <1>1, <1>3, PageIs
<1>5. \A p \in projects : Rank(p) \in Nat /\ Rank(p) < Cardinality(projects)
  BY <1>1, RankIs
<1>6. store' \in Store /\ store'.known = store.known \cup page /\ store'.registered = store.registered
  BY <1>1, <1>2, <1>3 DEF Store, Records
<1>7. Records'
  BY <1>1, <1>2, <1>6 DEF Records
<1>8. next \in Nat /\ keys \subseteq Projects /\ runs[r].present \subseteq projects
      /\ runs[r].known \subseteq store.known /\ ~runs[r].fellBack
      /\ (~runs[r].shifted => \A p \in runs[r].present : Rank(p) < o => p \in runs[r].keys)
  BY <1>1, <1>3, <1>4 DEF Good, Listed, Run
\* The page holds what stands between its offset and the next.
<1>9. \A p \in projects : ~(Rank(p) < o) => page # {} /\ (Rank(p) < next => p \in page)
  <2> SUFFICES ASSUME NEW p \in projects, ~(Rank(p) < o)
               PROVE  page # {} /\ (Rank(p) < next => p \in page)
    OBVIOUS
  <2>1. page # {}
    BY <1>1, <1>4, <1>5
  <2>2. ASSUME Rank(p) < next PROVE p \in page
    <3>1. Rank(p) < o + Cardinality(page)
      BY <2>1, <2>2
    <3> QED
      BY <1>1, <1>3, <1>4, <1>5, <3>1
  <2> QED
    BY <2>1, <2>2
<1> HIDE DEF page, next
<1>10. ASSUME last PROVE Good(run)'
  <2>1. run \in Run /\ run.phase = "work" /\ run.keys = keys /\ run.hook = runs[r].hook
        /\ run.waiting = runs[r].waiting /\ run.todo = runs[r].todo /\ run.shifted = runs[r].shifted
        /\ run.present = runs[r].present /\ ~run.fellBack
    BY <1>0, <1>1, <1>8, <1>10 DEF ToWork, Run, Phases
  <2>2. run.shifted \/ run.present \subseteq run.keys
    <3> SUFFICES ASSUME ~run.shifted, NEW p \in run.present PROVE p \in run.keys
      OBVIOUS
    <3>1. p \in projects /\ p \in runs[r].present /\ ~runs[r].shifted
      BY <1>8, <2>1
    <3>2. CASE Rank(p) < o
      BY <1>8, <2>1, <3>1, <3>2
    <3>3. CASE ~(Rank(p) < o)
      <4>1. page # {} /\ (Rank(p) < next => p \in page)
        BY <1>9, <3>1, <3>3
      <4>2. next >= Cardinality(projects)
        BY <1>10, <4>1
      <4>3. Rank(p) < next
        BY <1>1, <1>5, <1>8, <3>1, <4>2
      <4> QED
        BY <2>1, <4>1, <4>3
    <3> QED
      BY <3>2, <3>3
  <2> HIDE DEF new, last
  <2> QED
    BY <1>1, <1>2, <1>6, <2>1, <2>2
    DEF Good, Typed, Listed, Covered, Contexts, Registered, AfterHook
<1>11. ASSUME ~last PROVE Good(run)'
  <2>1. run \in Run /\ run.phase = "projects" /\ run.keys = keys /\ run.hook = runs[r].hook
        /\ run.waiting = runs[r].waiting /\ run.todo = runs[r].todo /\ run.shifted = runs[r].shifted
        /\ run.present = runs[r].present /\ ~run.fellBack /\ run.startAt = next
        /\ run.known = runs[r].known
    BY <1>0, <1>1, <1>8, <1>11 DEF Run, Phases
  <2>2. ~run.shifted => \A p \in run.present : Rank(p) < next => p \in run.keys
    <3> SUFFICES ASSUME ~run.shifted, NEW p \in run.present, Rank(p) < next PROVE p \in run.keys
      OBVIOUS
    <3> QED
      BY <1>5, <1>8, <1>9, <2>1
  <2>3. ~run.shifted => \A p \in run.present : Rank(p)' < next => p \in run.keys
    BY <1>2, <2>2 DEF Rank
  <2> HIDE DEF new, last
  <2>4. Listed(run)'
    BY <1>2, <1>6, <1>8, <2>1, <2>3 DEF Listed
  <2>5. Typed(run)' /\ Covered(run)' /\ Contexts(run)' /\ Registered(run)'
    BY <1>1, <1>2, <1>6, <2>1 DEF Good, Typed, Covered, Contexts, Registered, AfterHook
  <2> QED
    BY <2>4, <2>5 DEF Good
<1>12. \A x \in Run : Good(x) => Good(x)'
  BY <1>2, <1>6 DEF Good, Typed, Listed, Covered, Contexts, Registered, Rank
<1> HIDE DEF new, last
<1> QED
  BY <1>2, <1>7, <1>10, <1>11, <1>12, OneRun

\* A step that leaves the runs alone.
LEMMA SharedStep ==
    ASSUME IInv, Records', runs' = runs, \A x \in Run : Good(x) => Good(x)'
    PROVE  IInv'
<1>1. ASSUME NEW q \in Runs PROVE Good(runs[q])'
  <2>1. PICK x \in Run : x = runs[q] /\ Good(x)
    BY DEF IInv
  <2> QED
    BY <2>1
<1> QED
  BY <1>1 DEF IInv

LEMMA SelectProjectsKeeps ==
    ASSUME IInv, NEW selection \in Selections, SelectProjects(selection) PROVE IInv'
<1>1. store' = [store EXCEPT !.selected = selection] /\ store \in Store
      /\ UNCHANGED <<projects, hooks, made, disk, runs>>
  BY DEF IInv, Records, SelectProjects
<1>2. store' \in Store /\ store'.known = store.known /\ store'.registered = store.registered
  BY <1>1 DEF Store
<1>3. Records'
  BY <1>1, <1>2 DEF IInv, Records
<1>4. \A x \in Run : Good(x) => Good(x)'
  BY <1>1, <1>2 DEF Good, Typed, Listed, Covered, Contexts, Registered, Rank
<1> QED
  BY <1>1, <1>3, <1>4, SharedStep

LEMMA AutosaveKeeps ==
    ASSUME IInv, Autosave PROVE IInv'
<1>1. disk' = store /\ UNCHANGED <<projects, hooks, made, store, runs>>
  BY DEF Autosave
<1>2. Records'
  BY <1>1 DEF IInv, Records
<1>3. \A x \in Run : Good(x) => Good(x)'
  BY <1>1 DEF Good, Typed, Listed, Covered, Contexts, Registered, Rank
<1> QED
  BY <1>1, <1>2, <1>3, SharedStep

LEMMA ExpireHookKeeps ==
    ASSUME IInv, NEW h \in hooks, ExpireHook(h) PROVE IInv'
<1>1. /\ store \in Store /\ disk \in Store
      /\ hooks' = hooks \ {h} /\ store' = [store EXCEPT !.registered = @ \ {h}]
      /\ disk' = [disk EXCEPT !.registered = @ \ {h}] /\ UNCHANGED <<projects, made, runs>>
  BY DEF IInv, Records, ExpireHook
<1>2. /\ store' \in Store /\ store'.known = store.known
      /\ store'.registered = store.registered \ {h}
      /\ disk' \in Store /\ disk'.registered = disk.registered \ {h}
  BY <1>1 DEF Store
<1>3. Records'
  BY <1>1, <1>2 DEF IInv, Records
<1>4. \A x \in Run : Good(x) => Good(x)'
  BY <1>1, <1>2 DEF Good, Typed, Listed, Covered, Contexts, Registered, Rank
<1> QED
  BY <1>1, <1>3, <1>4, SharedStep

LEMMA CreateProjectKeeps ==
    ASSUME IInv, NEW p \in Projects, CreateProject(p) PROVE IInv'
<1>1. projects' = projects \cup {p} /\ UNCHANGED <<hooks, made, store, disk, runs>>
      /\ projects \subseteq Projects
  BY DEF IInv, Records, CreateProject
<1>2. Records'
  BY <1>1 DEF IInv, Records
<1>3. \A q : Rank(q)' >= Rank(q) /\ Rank(q) \in Nat /\ Rank(q)' \in Nat
  BY <1>1, RankAfterCreate
<1>4. ASSUME NEW x \in Run, Good(x) PROVE Good(x)'
  <2>1. Typed(x)' /\ Covered(x)' /\ Contexts(x)' /\ Registered(x)'
    BY <1>1, <1>4 DEF Good, Typed, Covered, Contexts, Registered
  <2>2. ASSUME NEW q \in x.present, Rank(q)' < x.startAt PROVE Rank(q) < x.startAt
    <3>1. x.startAt \in Nat
      BY DEF Run
    <3>2. Rank(q)' >= Rank(q) /\ Rank(q) \in Nat /\ Rank(q)' \in Nat
      BY <1>3
    <3> QED
      BY <2>2, <3>1, <3>2
  <2>3. Listed(x)'
    <3>1. Listed(x)
      BY <1>4 DEF Good
    <3> QED
      BY <1>1, <2>2, <3>1 DEF Listed
  <2> QED
    BY <2>1, <2>3 DEF Good
<1> QED
  BY <1>1, <1>2, <1>4, SharedStep

LEMMA RemoveProjectKeeps ==
    ASSUME IInv, NEW p \in Projects, RemoveProject(p) PROVE IInv'
<1>1. /\ p \in projects /\ projects \subseteq Projects /\ projects' = projects \ {p}
      /\ UNCHANGED <<hooks, made, store, disk>>
  BY DEF IInv, Records, RemoveProject
<1>2. Records'
  BY <1>1 DEF IInv, Records
<1>3. ASSUME NEW r \in Runs PROVE runs'[r] \in Run /\ Good(runs[r])'
  <2>1. PICK old \in Run : old = runs[r] /\ Good(old)
    BY DEF IInv
  <2>2. CASE old.phase # "projects"
    <3>1. runs'[r] = old
      BY <2>1, <2>2 DEF RemoveProject, Listing
    <3>2. Good(old)'
      BY <1>1, <2>1, <2>2 DEF Good, Typed, Listed, Covered, Contexts, Registered
    <3> QED
      BY <3>1, <3>2
  <2>3. CASE old.phase = "projects"
    <3>1. PICK run : run = [old EXCEPT !.present = @ \ {p},
                                       !.shifted = @ \/ Rank(p) < old.startAt]
      OBVIOUS
    <3>2. runs'[r] = run
      BY <2>1, <2>3, <3>1 DEF RemoveProject, Listing
    <3>3. run \in Run /\ run.phase = "projects" /\ run.present = old.present \ {p}
          /\ run.shifted = (old.shifted \/ Rank(p) < old.startAt) /\ run.startAt = old.startAt
          /\ run.keys = old.keys /\ run.known = old.known /\ run.fellBack = old.fellBack
          /\ run.hook = old.hook /\ run.waiting = old.waiting /\ run.todo = old.todo
      BY <2>3, <3>1 DEF Run
    <3>4. Typed(run)' /\ Covered(run)' /\ Contexts(run)' /\ Registered(run)'
      BY <1>1, <2>1, <2>3, <3>3 DEF Good, Typed, Covered, Contexts, Registered, AfterHook
    <3>5. Listed(run)'
      <4>1. Listed(old) /\ old.startAt \in Nat
        BY <2>1 DEF Good, Run
      <4>2. ASSUME ~run.shifted, NEW q \in run.present, Rank(q)' < run.startAt
            PROVE  q \in run.keys
        <5>1. q \in projects /\ q # p /\ q \in old.present /\ ~old.shifted
              /\ ~(Rank(p) < old.startAt)
          BY <2>3, <3>3, <4>1, <4>2 DEF Listed
        <5>2. Rank(q) < old.startAt
          BY <1>1, <3>3, <4>1, <4>2, <5>1, RankAfterRemove
        <5> QED
          BY <2>3, <3>3, <4>1, <5>1, <5>2 DEF Listed
      <4> QED
        BY <1>1, <2>3, <3>3, <4>1, <4>2 DEF Listed
    <3> QED
      BY <3>2, <3>3, <3>4, <3>5 DEF Good
  <2> QED
    BY <2>2, <2>3
<1>4. runs' \in [Runs -> Run]
  BY <1>3 DEF RemoveProject
<1> QED
  BY <1>2, <1>3, <1>4 DEF IInv

LEMMA CrashKeeps ==
    ASSUME IInv, CrashAndRestart PROVE IInv'
<1>1. store' = disk /\ UNCHANGED <<projects, hooks, made, disk>>
  BY DEF CrashAndRestart
<1>2. Records' /\ Records
  BY <1>1 DEF IInv, Records
<1>3. ASSUME NEW r \in Runs PROVE runs'[r] \in Run /\ Good(runs[r])'
  <2>1. PICK old \in Run : old = runs[r] /\ Good(old)
    BY DEF IInv
  <2>2. CASE old.phase \in {"idle", "done"}
    <3>1. runs'[r] = old
      BY <2>1, <2>2 DEF CrashAndRestart
    <3>2. Good(old)'
      BY <1>1, <2>1, <2>2 DEF Good, Typed, Listed, Covered, Contexts, Registered, AfterHook
    <3> QED
      BY <3>1, <3>2
  <2>3. CASE ~(old.phase \in {"idle", "done"})
    <3>1. runs'[r] = Failed
      BY <2>1, <2>3 DEF CrashAndRestart
    <3>2. PICK run : run = Failed
      OBVIOUS
    <3>3. run \in Run /\ run.phase = "failed" /\ Good(run)
      BY <1>2, <3>2, FailedIsGood
    <3>4. Good(run)'
      BY <1>1, <3>3 DEF Good, Typed, Listed, Covered, Contexts, Registered, AfterHook
    <3> QED
      BY <3>1, <3>2, <3>3, <3>4
  <2> QED
    BY <2>2, <2>3
<1>4. runs' \in [Runs -> Run]
  BY <1>3 DEF CrashAndRestart
<1> QED
  BY <1>2, <1>3, <1>4 DEF IInv

-----------------------------------------------------------------------------
(* The theorems *)

LEMMA Initially == Init => IInv
<1> SUFFICES ASSUME Init PROVE IInv
  OBVIOUS
<1>1. MaxHooks \in Nat /\ {} \in Selections
  BY ScopeAssumption
<1>2. Records
  BY <1>1 DEF Init, Records, Store
<1>3. NewRun \in Run /\ NewRun.phase = "idle" /\ NewRun.hook = 0 /\ NewRun.waiting = {}
      /\ NewRun.present = {} /\ NewRun.startAt = 0 /\ ~NewRun.fellBack /\ ~NewRun.shifted
  BY <1>1 DEF NewRun, Run, Phases
<1>4. Good(NewRun)
  <2>1. made = 0
    BY DEF Init
  <2> QED
    BY <1>3, <2>1 DEF Good, Typed, Listed, Covered, Contexts, Registered, AfterHook
<1> QED
  BY <1>2, <1>3, <1>4 DEF Init, IInv

LEMMA Step == IInv /\ [Next]_vars => IInv'
<1> SUFFICES ASSUME IInv, [Next]_vars PROVE IInv'
  OBVIOUS
<1>1. CASE UNCHANGED vars
  <2>1. Records' /\ \A x \in Run : Good(x) => Good(x)'
    BY <1>1 DEF vars, IInv, Records, Good, Typed, Listed, Covered, Contexts, Registered, Rank
  <2> QED
    BY <1>1, <2>1, SharedStep DEF vars
<1>2. CASE \E p \in Projects : CreateProject(p)
  BY <1>2, CreateProjectKeeps
<1>3. CASE \E p \in Projects : RemoveProject(p)
  BY <1>3, RemoveProjectKeeps
<1>4. CASE \E h \in hooks : ExpireHook(h)
  BY <1>4, ExpireHookKeeps
<1>5. CASE \E r \in Runs : StartRun(r)
  BY <1>5, StartRunKeeps
<1>6. CASE \E r \in Runs : RegisterHook(r)
  BY <1>6, RegisterHookKeeps
<1>7. CASE \E r \in Runs : StoreHook(r)
  BY <1>7, StoreHookKeeps
<1>8. CASE \E selection \in Selections : SelectProjects(selection)
  BY <1>8, SelectProjectsKeeps
<1>9. CASE \E r \in Runs : ListProjects(r)
  BY <1>9, ListProjectsKeeps
<1>10. CASE \E r \in Runs : FallBack(r)
  BY <1>10, FallBackKeeps
<1>11. CASE \E r \in Runs : FinishProjects(r)
  BY <1>11, FinishProjectsKeeps
<1>12. CASE \E r \in Runs, call \in {"workflows", "fields"} : AnswerList(r, call)
  BY <1>12, AnswerListKeeps
<1>13. CASE \E r \in Runs : AskContexts(r)
  BY <1>13, AskContextsKeeps
<1>14. CASE \E r \in Runs, f \in CustomFields : AnswerContexts(r, f)
  BY <1>14, AnswerContextsKeeps
<1>15. CASE \E r \in Runs : AskBoards(r)
  BY <1>15, AskBoardsKeeps
<1>16. CASE \E r \in Runs : AnswerBoards(r)
  BY <1>16, AnswerBoardsKeeps
<1>17. CASE \E r \in Runs : WritePoint(r)
  BY <1>17, WritePointKeeps
<1>18. CASE \E r \in Runs : FailRun(r)
  BY <1>18, FailRunKeeps
<1>19. CASE Autosave
  BY <1>19, AutosaveKeeps
<1>20. CASE CrashAndRestart
  BY <1>20, CrashKeeps
<1> QED
  BY <1>1, <1>2, <1>3, <1>4, <1>5, <1>6, <1>7, <1>8, <1>9, <1>10, <1>11, <1>12, <1>13,
     <1>14, <1>15, <1>16, <1>17, <1>18, <1>19, <1>20 DEF Next

LEMMA Invariant == Spec => []IInv
  BY Initially, Step, PTL DEF Spec

\* A run covers every project that was there while it listed them, whatever
\* was created and removed under its pages (listProjects, its fallback).
THEOREM ScopeCovered == Spec => []ScopeIsComplete
<1>1. IInv => ScopeIsComplete
  BY DEF IInv, Good, Covered, ScopeIsComplete
<1> QED
  BY <1>1, Invariant, PTL

\* A point is written when every list of the site and the contexts of every
\* custom field have been answered (enumerateSiteObjects and its chunks).
THEOREM SiteAnswered == Spec => []SiteIsComplete
<1>1. IInv => SiteIsComplete
  BY DEF IInv, Good, Contexts, SiteIsComplete
<1> QED
  BY <1>1, Invariant, PTL

\* The webhook of a finished run is registered, in memory and in db.json, as
\* long as it is active in Jira (ensureWebhookRegistered, the save of the run).
THEOREM HookKept == Spec => []HookOutlivesRun
<1>1. IInv => HookOutlivesRun
  BY DEF IInv, Good, Registered, AfterHook, HookOutlivesRun
<1> QED
  BY <1>1, Invariant, PTL

\* Every record stays what its readers take it for.
THEOREM RunsTyped == Spec => []TypeOK
<1>1. IInv => TypeOK
  BY DEF IInv, Records, Good, Typed, TypeOK
<1> QED
  BY <1>1, Invariant, PTL
=============================================================================
