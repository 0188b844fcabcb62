------------------------------ MODULE MCCockpit ------------------------------
(* One page of the cockpit: an instance of Cockpit with two events, of     *)
(* which the second filters let one through, and one of BriefingPanel.     *)
(* They share nothing, so a behaviour follows one of them; where it is the *)
(* briefing, the page has read its list, and the fairness asks nothing.    *)
EXTENDS Cockpit, BriefingPanel, TLC
MCMatch == ("all" :> {"e1", "e2"}) @@ ("pl" :> {"e1"})

VARIABLE shown
ListRead ==
  /\ now = 0 /\ last_changed_at = [e \in Events |-> 0]
  /\ params = DEFAULT_QUERY /\ selectedId = NoOne /\ filterGeneration = 0 /\ chosen = NoOne
  /\ eventState = [key |-> params, last |-> [e \in Match[params] |-> 0]] /\ detailState = Nothing
  /\ errors = {} /\ loading = {} /\ due = {} /\ calls = {}
Init ==
  /\ PanelInit
  /\ \/ shown = "events" /\ CockpitInit /\ stored = 0
     \/ shown = "briefing" /\ ListRead
Next ==
  /\ UNCHANGED shown
  /\ \/ shown = "events" /\ CockpitNext /\ UNCHANGED panelVars
     \/ shown = "briefing" /\ PanelNext /\ UNCHANGED cockpitVars
Spec == Init /\ [][Next]_<<shown, cockpitVars, panelVars>> /\ CockpitFairness
=============================================================================
