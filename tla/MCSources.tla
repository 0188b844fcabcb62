------------------------------ MODULE MCSources ------------------------------
(* What a batch does beside its records: instances of CurrentList, Catalog *)
(* and Relations.  They share nothing, so a behaviour follows one of them  *)
(* while the others stay where they began.  Two entries of two contents    *)
(* each, a release that may be dated beyond what the clock allows; three   *)
(* events of which one has a single place among the relations of another.  *)
EXTENDS CurrentList, Catalog, Relations, TLC
CONSTANTS v1, v2
MCRank == (v1 :> 1) @@ (v2 :> 2)
Said(c, p, t, x) == [category |-> c, place |-> p, time |-> t, exact |-> x]
MCReports == {Said("earthquake", 0, 0, TRUE), Said("earthquake", 1, 1, TRUE),
              Said("disaster", 3, 1, TRUE), Said("disaster", 0, 0, FALSE)}
MCKm == ("possible_same_event" :> 1) @@ ("near_in_space_and_time" :> 2)
MCHours == ("possible_same_event" :> 1) @@ ("near_in_space_and_time" :> 3)

VARIABLE part
Init ==
  /\ part \in {"list", "catalog", "relations"}
  /\ ListInit /\ CatalogInit /\ RelationsInit
Next ==
  /\ UNCHANGED part
  /\ \/ part = "list" /\ ListNext /\ UNCHANGED <<catalogVars, relationVars>>
     \/ part = "catalog" /\ CatalogNext /\ UNCHANGED <<listVars, relationVars>>
     \/ part = "relations" /\ RelationsNext /\ UNCHANGED <<listVars, catalogVars>>
Spec == Init /\ [][Next]_<<part, listVars, catalogVars, relationVars>>
=============================================================================
