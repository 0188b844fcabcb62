----------------------------- MODULE ChangeFeed -----------------------------
(***************************************************************************)
(* What the briefings of a scope promise about the changes of the events:  *)
(* each briefing reports, in one indivisible step, every present change    *)
(* stamped in the window since the previous one, and no later change may   *)
(* be stamped inside a window that has been reported.                      *)
(***************************************************************************)
EXTENDS Integers

CONSTANTS Events, Scopes, Matching

VARIABLES
  changedAt,   \* the time of the last change of an event, 0 for none
  cursor,      \* the end of the last window reported to a scope, 0 for none
  start,       \* the beginning of its first window
  told         \* the <<event, time>> pairs reported to a scope

vars == <<changedAt, cursor, start, told>>

Never == 0

Init ==
  /\ changedAt = [e \in Events |-> Never]
  /\ cursor = [sc \in Scopes |-> Never]
  /\ start = [sc \in Scopes |-> Never]
  /\ told = [sc \in Scopes |-> {}]

(* Events change, appear or vanish; the stamps lie behind no cursor.       *)
Change ==
  /\ \A e \in Events :
       \/ changedAt'[e] \in {changedAt[e], Never}
       \/ \A sc \in Scopes : cursor[sc] <= changedAt'[e]
  /\ UNCHANGED <<cursor, start, told>>

Present(sc, since, until) ==
  {<<e, changedAt[e]>> : e \in {x \in Matching[sc] :
     changedAt[x] # Never /\ since <= changedAt[x] /\ changedAt[x] < until}}

Brief(sc) ==
  LET since == IF cursor[sc] = Never THEN start'[sc] ELSE cursor[sc] IN
  /\ since < cursor'[sc] /\ cursor[sc] < cursor'[sc]
  /\ told' = [told EXCEPT ![sc] = @ \cup Present(sc, since, cursor'[sc])]
  /\ \A x \in Scopes \ {sc} : cursor'[x] = cursor[x] /\ start'[x] = start[x]
  /\ cursor[sc] # Never => start'[sc] = start[sc]
  /\ UNCHANGED changedAt

Next == Change \/ \E sc \in Scopes : Brief(sc)

Spec == Init /\ [][Next]_vars
=============================================================================
