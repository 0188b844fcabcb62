---------------------------- MODULE SingleWriter ----------------------------
(***************************************************************************)
(* What the lease protocol promises about every source: attempts are       *)
(* granted one after the other, each under a new number; only the attempt  *)
(* granted last may publish, at most once, and publishing or giving up     *)
(* ends it.                                                                *)
(***************************************************************************)
EXTENDS Integers

CONSTANTS Sources, MaxClaims

VARIABLES
  holder,      \* the attempt a source is granted to, 0 for none
  published,   \* the attempt whose result the source shows, 0 for none
  granted      \* attempts granted so far, over all sources

vars == <<holder, published, granted>>

Init ==
  /\ holder = [s \in Sources |-> 0]
  /\ published = [s \in Sources |-> 0]
  /\ granted = 0

Grant(s) ==
  /\ granted < MaxClaims
  /\ granted' = granted + 1
  /\ holder' = [holder EXCEPT ![s] = granted']
  /\ UNCHANGED published

Publish(s) ==
  /\ holder[s] # 0
  /\ published' = [published EXCEPT ![s] = holder[s]]
  /\ holder' = [holder EXCEPT ![s] = 0]
  /\ UNCHANGED granted

GiveUp(s) ==
  /\ holder[s] # 0
  /\ holder' = [holder EXCEPT ![s] = 0]
  /\ UNCHANGED <<published, granted>>

Next == \E s \in Sources : Grant(s) \/ Publish(s) \/ GiveUp(s)

Spec == Init /\ [][Next]_vars
=============================================================================
