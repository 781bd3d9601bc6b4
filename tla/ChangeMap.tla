------------------------------ MODULE ChangeMap ------------------------------
(***************************************************************************)
(* computeChangeMap of services/objectExplorerService.js: the change       *)
(* indicator of an object between the manifests of two backup points.  A   *)
(* manifest is a function from object ids to content hashes; two objects   *)
(* have the same hash when they have the same content.                     *)
(***************************************************************************)
Indicators == {"Added", "Modified", "Unchanged", "Deleted"}

ChangeMap(current, prior) ==
    [id \in DOMAIN current \cup DOMAIN prior |->
        IF id \notin DOMAIN current THEN "Deleted"
        ELSE IF id \notin DOMAIN prior THEN "Added"
        ELSE IF current[id] # prior[id] THEN "Modified"
        ELSE "Unchanged"]
=============================================================================
