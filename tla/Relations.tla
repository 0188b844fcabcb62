------------------------------ MODULE Relations ------------------------------
(***************************************************************************)
(* The relations of time and place between events (ingestion.py            *)
(* relate_events): at the end of a batch, and of a manual split, those of  *)
(* every event that changed are removed and found anew, one event after    *)
(* the other, up to a limit for each.  The transaction that does it holds  *)
(* the ingestion lock; todo is what it has left to do.                     *)
(***************************************************************************)
EXTENDS Naturals, FiniteSetsExt, SequencesExt

CONSTANTS
  Ids,              \* event ids
  Reports,          \* what an event may say: category, place, time, exact
  Km, Hours,        \* Km[kind], Hours[kind]: 25 km and 10 minutes, 100 km and 6 hours
  Limit             \* 20

Kind(r, s) ==
  IF r.category = "earthquake" /\ s.category = "earthquake" THEN "possible_same_event"
  ELSE "near_in_space_and_time"

ASSUME RelationsAssumption ==
  /\ Ids \subseteq Nat /\ IsFiniteSet(Ids) /\ Limit \in Nat
  /\ Reports \subseteq [category : STRING, place : Nat, time : Nat, exact : BOOLEAN]

VARIABLES
  report,           \* what each event in the database says
  relations,        \* event_relations: the pair and its relation_type
  todo,             \* the events whose relations the transaction has yet to find, in its order
  omitted           \* pairs that the limit has left out when they were last looked at

relationVars == <<report, relations, todo, omitted>>

RelationsInit == report = [e \in {} |-> 0] /\ relations = {} /\ todo = <<>> /\ omitted = {}

Live == DOMAIN report
Apart(m, n) == IF m > n THEN m - n ELSE n - m
Delay(e, f) == Apart(report[e].time, report[f].time)

(* The WHERE clause: exact points and times only, two earthquakes or two   *)
(* different categories.                                                   *)
Near(e, f) ==
  LET r == report[e]  s == report[f]  kind == Kind(r, s) IN
  /\ e # f /\ r.exact /\ s.exact
  /\ r.category = s.category => r.category = "earthquake"
  /\ Apart(r.place, s.place) <= Km[kind] /\ Delay(e, f) <= Hours[kind]

Relation(e, f) == [pair |-> {e, f}, type |-> Kind(report[e], report[f])]

Say(ids, said) ==
  /\ report' = [e \in Live \cup ids |-> IF e \in ids THEN said[e] ELSE report[e]]
  /\ UNCHANGED <<relations, omitted>>

(* persist_batch: new and changed events, in the order of their ids.       *)
InOrder(ids) ==
  {s \in [1..Cardinality(ids) -> ids] : Range(s) = ids /\ \A i, j \in DOMAIN s : i < j => s[i] < s[j]}

Batch(ids, said) ==
  /\ todo = <<>>
  /\ \A e \in ids \cap Live : said[e] # report[e]
  /\ Say(ids, said)
  /\ todo' \in InOrder(ids)

(* split_source: the event that stays, then the new one.                   *)
Split(e, f, said) ==
  /\ todo = <<>> /\ e \in Live /\ f \notin Live
  /\ Say({e, f}, said)
  /\ todo' = <<e, f>>

(* Faulty variant: only the rows in which the event comes first are removed*)
OldAsFirst(e) == {r \in relations : Min(r.pair) = e}
Old(e) == {r \in relations : e \in r.pair}

(* ORDER BY the difference in time LIMIT 20: which of those at one distance*)
(* is open.  ON CONFLICT DO NOTHING.                                       *)
Nearest(e, found) ==
  LET near == {f \in Live : Near(e, f)} IN
  /\ found \subseteq near /\ Cardinality(found) = Min({Limit, Cardinality(near)})
  /\ \A f \in found, g \in near \ found : Delay(e, f) <= Delay(e, g)

Relate(found) ==
  /\ todo # <<>>
  /\ LET e == Head(todo) IN
     /\ Nearest(e, found)
     /\ relations' = (relations \ Old(e)) \cup {Relation(e, f) : f \in found}
     /\ omitted' = {p \in omitted : e \notin p} \cup {{e, f} : f \in {g \in Live : Near(e, g)} \ found}
     /\ todo' = Tail(todo)
  /\ UNCHANGED report

(* Retention: the rows of an event go with it.                             *)
Forget(e) ==
  /\ todo = <<>> /\ e \in Live
  /\ report' = [f \in Live \ {e} |-> report[f]]
  /\ relations' = {r \in relations : e \notin r.pair}
  /\ omitted' = {p \in omitted : e \notin p}
  /\ UNCHANGED todo

RelationsNext ==
  \/ \E ids \in SUBSET Ids \ {{}} : \E said \in [ids -> Reports] : Batch(ids, said)
  \/ \E e, f \in Ids : \E said \in [{e, f} -> Reports] : Split(e, f, said)
  \/ \E found \in SUBSET Live : Relate(found)
  \/ \E e \in Ids : Forget(e)

RelationsSpec == RelationsInit /\ [][RelationsNext]_relationVars

(* properties *************************************************************)
(* "Relations are recalculated after a correction" (ingestion.py:498):     *)
(* outside of a transaction a relation is one by what both events say now, *)
(* whichever of them was corrected last; none is listed twice; and a pair  *)
(* that the rule relates is missing only if the limit left it out.         *)
RelationsAreCurrent ==
  todo = <<>> =>
    /\ \A r \in relations : \E e, f \in Live : Near(e, f) /\ r = Relation(e, f)
    /\ \A e, f \in Live : Near(e, f) => Relation(e, f) \in relations \/ {e, f} \in omitted
=============================================================================
