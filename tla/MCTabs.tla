------------------------------- MODULE MCTabs -------------------------------
(* What tabs of the public page keep in localStorage: an instance of       *)
(* Selections and one of ComparisonPoint.  The entries are independent, so *)
(* a behaviour follows one of them.  The publications are one, one of the  *)
(* same time with another content, and a later one.                        *)
EXTENDS Selections, ComparisonPoint
MCPublished == {Point(1, 1), Point(1, 2), Point(2, 1)}

VARIABLE entry
tabVars == <<entry, selectionVars, pointVars>>
Init ==
  /\ entry \in {"selection", "point"} /\ SelectionInit /\ PointInit
  /\ entry = "selection" => ~refusing
  /\ entry = "point" => ~full /\ ~guarded
Next ==
  /\ UNCHANGED entry
  /\ \/ entry = "selection" /\ SelectionNext /\ UNCHANGED pointVars
     \/ entry = "point" /\ PointNext /\ UNCHANGED selectionVars
Spec == Init /\ [][Next]_tabVars /\ Fairness
=============================================================================
