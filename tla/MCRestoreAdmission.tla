--------------------------- MODULE MCRestoreAdmission ---------------------------
(* Two sites with one connection each, one project key and two custom fields,*)
(* f1 of the second site being called as f2 of the first, but for the case.   *)
EXTENDS RestoreAdmission

MCSiteOf == <<"here", "there">>

\* Everything is granted, or one or both of the board scopes are not, or a
\* scope that is required.
MCUngranted == {{}, {BoardWrite}, BoardScopes, {"write:jira-work"}}

MCSiteFields ==
    [here |-> [f1 |-> "Team", f2 |-> "Risk"],
     there |-> [f1 |-> "risk", f2 |-> "Owner"]]

MCLower == [Team |-> "team", Risk |-> "risk", risk |-> "risk", Owner |-> "owner"]

\* The ids are f1 and f2; no id is part of the other.
MCContains == {<<"f1", "f1">>, <<"f2", "f2">>}

Item(type, id, fields) == [type |-> type, id |-> id, fields |-> fields, blank |-> FALSE]
MCItems ==
    {Item("issue", "i1", {"f1"}), Item("issue", "i2", {"f2"}), Item("board", "b1", {}),
     Item("project", "P", {}),
     [Item("workflow", "w1", {}) EXCEPT !.blank = TRUE]}

All == [types |-> None, projects |-> None, issues |-> None]
Only(types, issues) == [types |-> types, projects |-> {}, issues |-> issues]

Request(dest, target, cross, key, conn, selection) ==
    [dest |-> dest, source |-> "here", target |-> target, cross |-> cross,
     key |-> key, conn |-> conn, selection |-> selection]

MCRequests ==
    {Request("original", None, FALSE, None, 1, All),
     Request("original", None, FALSE, "P", None, Only({"board"}, None)),
     Request("export", None, FALSE, None, 1, All),
     Request("alternate", "there", TRUE, "P", 2, All),
     Request("alternate", "there", FALSE, "P", 1, Only({"issue", "board"}, {"i1"})),
     Request("alternate", None, FALSE, "P", 1, Only(None, {"i2"}))}
=============================================================================
