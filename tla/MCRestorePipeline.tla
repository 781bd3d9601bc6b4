-------------------------- MODULE MCRestorePipeline --------------------------
(* A basket with one item of most kinds, two of which conflict. *)
EXTENDS RestorePipeline

Basket == {"f", "p", "i", "b", "s"}
BasketKinds == [f |-> "field", p |-> "project", i |-> "issue", b |-> "board",
                s |-> "sprint"]
BasketBoards == [s |-> "b"]
Known == {"f", "p"}
=============================================================================
