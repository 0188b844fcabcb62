---------------------------- MODULE BriefingPanel ----------------------------
(***************************************************************************)
(* The briefing the cockpit shows (components/Monitor.tsx:92-99, 172-182): *)
(* the latest one is read when the page is opened, and the user may have   *)
(* one made before the answer is there.  The server numbers briefings in   *)
(* the order in which it stores them; a request the page has given up is   *)
(* carried out all the same, and other pages make briefings too.           *)
(***************************************************************************)
EXTENDS Naturals

CONSTANT MaxBriefings   \* bound of the model
ASSUME BriefingsAssumption == MaxBriefings \in Nat

VARIABLES
  stored,               \* the number of the briefing stored last
  reading, making,      \* the calls: GET latest and POST
  briefing,             \* what is shown, 0 for none
  briefingGeneration,
  briefLoading

panelVars == <<stored, reading, making, briefing, briefingGeneration, briefLoading>>

Answered(number) == [state |-> "answered", number |-> number]
Pending == [state |-> "asked", number |-> 0]
NoCall == [state |-> "none", number |-> 0]

PanelInit ==
  /\ stored \in 0..MaxBriefings
  /\ reading = Pending /\ making = NoCall
  /\ briefing = 0 /\ briefingGeneration = 0 /\ briefLoading = FALSE

Reload ==
  /\ reading' = Pending /\ making' = NoCall
  /\ briefing' = 0 /\ briefingGeneration' = 0 /\ briefLoading' = FALSE
  /\ UNCHANGED stored

(* the server *************************************************************)
Store ==
  /\ stored < MaxBriefings /\ stored' = stored + 1

ReadLatest ==
  /\ reading.state = "asked" /\ reading' = Answered(stored)
  /\ UNCHANGED <<stored, making, briefing, briefingGeneration, briefLoading>>

MakeBriefing ==
  /\ making.state = "asked" /\ Store
  /\ making' = Answered(stored')
  /\ UNCHANGED <<reading, briefing, briefingGeneration, briefLoading>>

(* For another page, or for a request that this one gave up.               *)
MakeUnseen ==
  /\ Store
  /\ UNCHANGED <<reading, making, briefing, briefingGeneration, briefLoading>>

(* the page ***************************************************************)
(* Faulty variant: the latest briefing is shown whenever it arrives.       *)
StillCurrent == TRUE

(* generation === briefingGeneration.current; the effect ran with 0.       *)
Current == briefingGeneration = 0

ShowLatest ==
  /\ reading.state = "answered" /\ reading' = NoCall
  /\ briefing' = IF Current THEN reading.number ELSE briefing
  /\ UNCHANGED <<stored, making, briefingGeneration, briefLoading>>

LatestFails ==
  /\ reading # NoCall /\ reading' = NoCall
  /\ UNCHANGED <<stored, making, briefing, briefingGeneration, briefLoading>>

CreateBriefing ==
  /\ ~briefLoading /\ briefLoading' = TRUE
  /\ briefingGeneration < MaxBriefings
  /\ briefingGeneration' = briefingGeneration + 1
  /\ making' = Pending
  /\ UNCHANGED <<stored, reading, briefing>>

ShowMade ==
  /\ making.state = "answered" /\ making' = NoCall
  /\ briefing' = making.number /\ briefLoading' = FALSE
  /\ UNCHANGED <<stored, reading, briefingGeneration>>

MakingFails ==
  /\ making # NoCall /\ making' = NoCall /\ briefLoading' = FALSE
  /\ UNCHANGED <<stored, reading, briefing, briefingGeneration>>

PanelNext ==
  \/ Reload \/ ReadLatest \/ MakeBriefing \/ MakeUnseen
  \/ ShowLatest \/ LatestFails \/ CreateBriefing \/ ShowMade \/ MakingFails

PanelSpec == PanelInit /\ [][PanelNext]_panelVars

(* properties *************************************************************)
(* A briefing on the page never gives way to an older one or to none,      *)
(* although the latest may be read before and arrive after the one the     *)
(* user had made, and requests that were given up still make theirs        *)
(* (briefingGeneration, Monitor.tsx:94-97, 175-179).                       *)
BriefingNeverOlder == [][Reload \/ briefing' >= briefing]_panelVars
=============================================================================
