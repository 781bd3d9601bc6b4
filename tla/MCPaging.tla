------------------------------- MODULE MCPaging -------------------------------
(* Instances of Paging for TLC. *)
EXTENDS Paging

\* A first, full run; runs that see an issue changed and miss one.
ThreeManifests == << <<1, 1, 1>>, 1 :> 2 @@ 2 :> 1, 2 :> 2 @@ 3 :> 1 >>

Fix(words, assignee, labels, resolved, updated) ==
    [words |-> words, status |-> "open", assignee |-> assignee,
     labels |-> labels, resolved |-> resolved, updated |-> updated]

\* The fields of issues 1 to 3 in version 1 and 2.
ThreeIssues ==
    << << Fix({"a"}, None, {"x"}, None, 1), Fix({"a"}, "u", {"x", "y"}, 3, 3) >>,
       << Fix({"a", "b"}, "v", {"x", "y"}, 2, 1), Fix({"b"}, None, {}, None, 2) >>,
       << Fix({"b"}, "u", {"y"}, 1, 2), Fix({"a"}, None, {}, None, 3) >> >>

All == [words |-> {}, status |-> {}, assignee |-> {}, labels |-> {},
        resolved |-> None]

FourQueries ==
    {All, [All EXCEPT !.labels = {"x", "y"}],
     [All EXCEPT !.assignee = {"unassigned", "v"}],
     [All EXCEPT !.words = {"a"}, !.resolved = <<2, 3>>]}

\* What the runs find of boards and sprints; a board and a sprint share a
\* name, and boards get other names, behind those of the others or in front.
\* In the last run the sprints are not found.
Active == [name |-> 2, state |-> "active", start |-> 1, end |-> 5]
Closed == [name |-> 3, state |-> "closed", start |-> 1, end |-> 2]
BoardsFound == << 1 :> 1 @@ 2 :> 2, 5 :> 1, 1 :> 1 @@ 5 :> 4 >>
SprintsFound == << 3 :> Active, 3 :> Closed @@ 4 :> Active, <<>> >>

FourSprintQueries ==
    {[states |-> {}, dates |-> None], [states |-> {"active"}, dates |-> None],
     [states |-> {}, dates |-> <<2, 3>>], [states |-> {"active", "closed"}, dates |-> <<0, 1>>]}

\* The sites have one field name in common.
SiteFields == [c \in Conns |-> IF c = CHOOSE d \in Conns : TRUE THEN {1, 2} ELSE {2, 3}]
=============================================================================
