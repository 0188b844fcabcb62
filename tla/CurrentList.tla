----------------------------- MODULE CurrentList -----------------------------
(***************************************************************************)
(* The open-ended warnings of IMGW, whose source is a list of what holds   *)
(* now and no archive: a warning that a complete list no longer names is   *)
(* shown as unknown, never as withdrawn.  What a warning shows is derived  *)
(* by comparing two clocks of the host, the one of its last reading and the*)
(* one of the last complete list (_current_list_state); persist_batch must *)
(* therefore refuse any list whose clocks would put it in the wrong order. *)
(* One list is in flight at a time: the others' leases are lost (Leases).  *)
(***************************************************************************)
EXTENDS Integers, FiniteSets

CONSTANTS
  Records,      \* the warnings, each an event of its own
  Slack,        \* the 5 minutes by which a reading may seem to be in the future
  MaxClock      \* bound of the model

ASSUME SlackAssumption == Slack \in Nat
ASSUME ListBounds == MaxClock \in Nat \ {0}

Never == 0
NoList == [fetched |-> Never, records |-> {}, complete |-> FALSE]

VARIABLES
  clock,        \* utcnow(): the host may set it back
  listing,      \* what IMGW lists
  flight,       \* the list the leased worker has read and not yet stored
  cursor,       \* sources.cursor: current_list_* and latest_observed_* clocks
  seen,         \* provider_records.last_seen_at
  eventSeen,    \* events.last_seen_at
  status,       \* what the warning's event shows
  evidence      \* what the accepted lists have said of it, in their order

listVars == <<clock, listing, flight, cursor, seen, eventSeen, status, evidence>>

ListInit ==
  /\ clock = 1 /\ listing = {} /\ flight = NoList
  /\ cursor = [complete |-> Never, completeAt |-> Never, observed |-> Never, observedAt |-> Never]
  /\ seen = [r \in Records |-> Never]
  /\ eventSeen = [r \in Records |-> Never]
  /\ status = [r \in Records |-> "none"]
  /\ evidence = [r \in Records |-> "none"]

SetClock ==
  /\ clock' \in 1..MaxClock
  /\ UNCHANGED <<listing, flight, cursor, seen, eventSeen, status, evidence>>

Announce ==
  /\ listing' \in SUBSET Records
  /\ UNCHANGED <<clock, flight, cursor, seen, eventSeen, status, evidence>>

(* collect: a list with a warning, a rejected or an excluded record is not *)
(* complete.                                                               *)
Fetch ==
  /\ flight = NoList
  /\ \E S \in SUBSET listing, whole \in BOOLEAN :
       /\ whole => S = listing
       /\ flight' = [fetched |-> clock, records |-> S, complete |-> whole]
  /\ UNCHANGED <<clock, listing, cursor, seen, eventSeen, status, evidence>>

(* The lease ran out, or the process died: this list is never stored.      *)
Lost ==
  /\ flight # NoList /\ flight' = NoList
  /\ UNCHANGED <<clock, listing, cursor, seen, eventSeen, status, evidence>>

(* persist_batch **********************************************************)
Latest(a, b) == IF a > b THEN a ELSE b

(* Faulty variant: readings of one instant are taken as ordered.           *)
ClockInvalidSameNow(list, now) ==
  LET previous == Latest(cursor.complete, cursor.observed) IN
  \/ list.fetched > now + Slack \/ (previous # Never /\ list.fetched <= previous)
  \/ now < Latest(cursor.completeAt, cursor.observedAt)

(* _current_list_clock_invalid *)
ClockInvalid(list, now) ==
  LET previous == Latest(cursor.complete, cursor.observed)
      ingested == Latest(cursor.completeAt, cursor.observedAt)
  IN
  \/ list.fetched > now + Slack
  \/ previous # Never /\ list.fetched <= previous
  \/ ingested # Never /\ now <= ingested

(* _current_list_state of an open-ended active warning.                    *)
CurrentState(lastSeen, completeAt) ==
  IF completeAt # Never /\ lastSeen < completeAt THEN "missing" ELSE "active"

CanReconcile(list, accepted) == list.complete /\ accepted = list.records

(* rebuild_event stamps every event it writes, _reconcile_current_list puts*)
(* the clock of a missing one back.                                        *)
SeenOfMissing(r, now) == eventSeen[r]

Refuse ==
  /\ flight # NoList /\ ClockInvalid(flight, clock)
  /\ flight' = NoList
  /\ UNCHANGED <<clock, listing, cursor, seen, eventSeen, status, evidence>>

(* The records of the list, of which any may be rejected in its savepoint, *)
(* then the clocks of the cursor, then the warnings the list left out.     *)
PersistList ==
  /\ flight # NoList /\ ~ClockInvalid(flight, clock)
  /\ \E accepted \in SUBSET flight.records :
       LET now == clock
           whole == CanReconcile(flight, accepted)
           newSeen == [r \in Records |-> IF r \in accepted THEN now ELSE seen[r]]
           listed == [r \in Records |->
                        IF r \in accepted THEN CurrentState(now, cursor.completeAt) ELSE status[r]]
           absent == {r \in Records : listed[r] = "active" /\ newSeen[r] < now}
           dropped == {r \in absent : CurrentState(newSeen[r], now) # listed[r]}
       IN
       /\ seen' = newSeen
       /\ cursor' = [observed |-> flight.fetched, observedAt |-> now,
                     complete |-> IF whole THEN flight.fetched ELSE cursor.complete,
                     completeAt |-> IF whole THEN now ELSE cursor.completeAt]
       /\ status' = [r \in Records |->
            IF whole /\ r \in dropped THEN CurrentState(newSeen[r], now) ELSE listed[r]]
       /\ eventSeen' = [r \in Records |->
            IF r \in accepted THEN now
            ELSE IF whole /\ r \in dropped THEN SeenOfMissing(r, now) ELSE eventSeen[r]]
       /\ evidence' = [r \in Records |->
            IF r \in accepted THEN "active"
            ELSE IF /\ evidence[r] = "active"
                    /\ flight.complete /\ accepted = flight.records THEN "missing"
            ELSE evidence[r]]
  /\ flight' = NoList
  /\ UNCHANGED <<clock, listing>>

ListNext == SetClock \/ Announce \/ Fetch \/ Lost \/ Refuse \/ PersistList

ListSpec == ListInit /\ [][ListNext]_listVars

(* properties *************************************************************)
ListType == [fetched : Nat, records : SUBSET Records, complete : BOOLEAN]

ListTypeOK ==
  /\ clock \in Nat /\ listing \subseteq Records /\ flight \in ListType
  /\ cursor \in [complete : Nat, completeAt : Nat, observed : Nat, observedAt : Nat]
  /\ seen \in [Records -> Nat] /\ eventSeen \in [Records -> Nat]
  /\ status \in [Records -> {"none", "active", "missing"}]
  /\ evidence \in [Records -> {"none", "active", "missing"}]

(* A warning shows what the last accepted list that says anything of it    *)
(* said: listed there, or absent from a complete one.  The clocks it is    *)
(* derived from never disagree with that order, whatever the host's clock  *)
(* does (ingestion.py:355-387).                                            *)
EvidenceShown == \A r \in Records : status[r] = evidence[r]

(* A delayed or repeated list does not overrule newer evidence             *)
(* (ingestion.py:608-614): the reading the cursor stands for only advances.*)
CursorAdvances ==
  [][cursor' # cursor => cursor'.observed > Latest(cursor.complete, cursor.observed)]_cursor

(* Absence is not an observation (ingestion.py:488-491): the clock of an   *)
(* event moves only to the present, by a list that names its warning.      *)
SeenWhenListed ==
  [][\A r \in Records : eventSeen'[r] # eventSeen[r] => r \in flight.records]_listVars
=============================================================================
