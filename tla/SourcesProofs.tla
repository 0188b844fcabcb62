---------------------------- MODULE SourcesProofs ----------------------------
(* Proofs about a source: the theorems of CurrentList, and below them those*)
(* of Catalog, of Relations and of Fetches, the client that reads it.      *)
EXTENDS CurrentList, Catalog, Relations, Fetches, FiniteSetTheorems, SequenceTheorems,
        WellFoundedInduction, TLAPS

(***************************************************************************)
(* Proofs about CurrentList, for any set of warnings and whatever the      *)
(* host's clock does.  The argument: a list is stored only later than      *)
(* everything stored before it, so a clock that a warning or the cursor    *)
(* holds compares with `now` as the two readings followed each other.      *)
(***************************************************************************)

(* No reading is stored after the newest one, and the host has a clock.    *)
ClocksOrdered ==
  /\ clock > Never
  /\ flight # NoList => flight.fetched > Never
  /\ cursor.completeAt <= cursor.observedAt
  /\ \A r \in Records : seen[r] <= cursor.observedAt

(* The clocks of an active warning make it one.                            *)
ActiveIsRecent ==
  \A r \in Records : status[r] = "active" => cursor.completeAt = Never \/ seen[r] >= cursor.completeAt

ListInv == ListTypeOK /\ ClocksOrdered /\ ActiveIsRecent /\ EvidenceShown

LEMMA InitInv == ListInit => ListInv
BY ListBounds DEF ListInit, ListInv, ListTypeOK, ClocksOrdered, ActiveIsRecent, EvidenceShown, ListType,
   NoList, Never

(* What an accepted list leaves in the clocks: everything stored before it *)
(* is earlier than now.                                                    *)
LEMMA StoredEarlier ==
  ASSUME ListInv, flight # NoList, ~ClockInvalid(flight, clock)
  PROVE  /\ cursor.completeAt < clock /\ cursor.observedAt < clock
         /\ \A r \in Records : seen[r] < clock
         /\ flight.fetched > Latest(cursor.complete, cursor.observed)
<1>1. /\ clock \in Nat /\ clock > 0 /\ seen \in [Records -> Nat] /\ flight.fetched \in Nat
      /\ flight.fetched > 0 /\ cursor.completeAt \in Nat /\ cursor.observedAt \in Nat
      /\ cursor.complete \in Nat /\ cursor.observed \in Nat
      /\ cursor.completeAt <= cursor.observedAt
      /\ \A r \in Records : seen[r] <= cursor.observedAt
  BY DEF ListInv, ListTypeOK, ListType, ClocksOrdered, Never
<1>2. ~(Latest(cursor.completeAt, cursor.observedAt) # Never
        /\ clock <= Latest(cursor.completeAt, cursor.observedAt))
  BY DEF ClockInvalid
<1>3. Latest(cursor.completeAt, cursor.observedAt) = cursor.observedAt
  BY <1>1 DEF Latest
<1>4. cursor.observedAt < clock
  BY <1>1, <1>2, <1>3 DEF Never
<1>5. flight.fetched > Latest(cursor.complete, cursor.observed)
  BY <1>1 DEF ClockInvalid, Latest, Never
<1>6. QED BY <1>1, <1>4, <1>5

(* One list that is stored, with the records that were accepted of it.     *)
LEMMA PersistInv ==
  ASSUME ListInv, PersistList
  PROVE  ListInv'
<1>1. /\ flight # NoList /\ ~ClockInvalid(flight, clock)
      /\ clock' = clock /\ listing' = listing /\ flight' = NoList
  BY DEF PersistList
<1>2. /\ clock \in Nat /\ clock > 0 /\ seen \in [Records -> Nat] /\ eventSeen \in [Records -> Nat]
      /\ flight.fetched \in Nat /\ flight.records \subseteq Records
      /\ cursor.complete \in Nat /\ cursor.completeAt \in Nat /\ cursor.observedAt \in Nat
      /\ status \in [Records -> {"none", "active", "missing"}]
      /\ evidence \in [Records -> {"none", "active", "missing"}]
      /\ listing \subseteq Records
  BY DEF ListInv, ListTypeOK, ListType, ClocksOrdered, Never
<1>3. /\ cursor.completeAt < clock
      /\ \A r \in Records : seen[r] < clock
  BY <1>1, StoredEarlier
<1>4. PICK accepted \in SUBSET flight.records :
       LET now == clock
           whole == CanReconcile(flight, accepted)
           newSeen == [r \in Records |-> IF r \in accepted THEN now ELSE seen[r]]
           listed == [r \in Records |->
                        IF r \in accepted THEN CurrentState(now, cursor.completeAt) ELSE status[r]]
           absent == {r \in Records : listed[r] = "active" /\ newSeen[r] < now}
           dropped == {r \in absent : CurrentState(newSeen[r], now) # listed[r]}
       IN
       /\ seen' = newSeen
       /\ cursor' = [observed |-> flight.fetched, observedAt |-> now,
                     complete |-> IF whole THEN flight.fetched ELSE cursor.complete,
                     completeAt |-> IF whole THEN now ELSE cursor.completeAt]
       /\ status' = [r \in Records |->
            IF whole /\ r \in dropped THEN CurrentState(newSeen[r], now) ELSE listed[r]]
       /\ eventSeen' = [r \in Records |->
            IF r \in accepted THEN now
            ELSE IF whole /\ r \in dropped THEN SeenOfMissing(r, now) ELSE eventSeen[r]]
       /\ evidence' = [r \in Records |->
            IF r \in accepted THEN "active"
            ELSE IF /\ evidence[r] = "active"
                    /\ flight.complete /\ accepted = flight.records THEN "missing"
            ELSE evidence[r]]
  BY DEF PersistList
<1> DEFINE whole == CanReconcile(flight, accepted)
<1>5. /\ seen' = [r \in Records |-> IF r \in accepted THEN clock ELSE seen[r]]
      /\ cursor'.observedAt = clock /\ cursor'.observed = flight.fetched
      /\ cursor'.completeAt = IF whole THEN clock ELSE cursor.completeAt
      /\ cursor'.complete = IF whole THEN flight.fetched ELSE cursor.complete
      /\ cursor' \in [complete : Nat, completeAt : Nat, observed : Nat, observedAt : Nat]
  BY <1>2, <1>4
<1>6. CurrentState(clock, cursor.completeAt) = "active"
  BY <1>2, <1>3 DEF CurrentState
<1>7. \A r \in Records : seen[r] < clock /\ CurrentState(seen[r], clock) = "missing"
  BY <1>2, <1>3 DEF CurrentState, Never
<1>8. ASSUME NEW r \in Records
      PROVE  status'[r] = IF r \in accepted THEN "active"
                          ELSE IF whole /\ status[r] = "active" THEN "missing" ELSE status[r]
  <2>1. CASE r \in accepted
    BY <1>2, <1>4, <1>6, <2>1
  <2>2. CASE r \notin accepted
    BY <1>2, <1>4, <1>7, <2>2
  <2>3. QED BY <2>1, <2>2
<1>9. ASSUME NEW r \in Records
      PROVE  evidence'[r] = IF r \in accepted THEN "active"
                            ELSE IF whole /\ evidence[r] = "active" THEN "missing" ELSE evidence[r]
  BY <1>4, <1>9 DEF CanReconcile
<1>10. EvidenceShown'
  BY <1>8, <1>9 DEF EvidenceShown, ListInv
<1>11. ClocksOrdered'
  BY <1>1, <1>2, <1>3, <1>5 DEF ClocksOrdered, Never
<1>12. ActiveIsRecent'
  <2> SUFFICES ASSUME NEW r \in Records, status'[r] = "active"
               PROVE  cursor'.completeAt = Never \/ seen'[r] >= cursor'.completeAt
    BY DEF ActiveIsRecent
  <2>1. CASE r \in accepted
    BY <1>2, <1>3, <1>5, <2>1
  <2>2. CASE r \notin accepted /\ whole
    BY <1>8, <2>2
  <2>3. CASE r \notin accepted /\ ~whole
    <3>1. status[r] = "active" /\ seen'[r] = seen[r] /\ cursor'.completeAt = cursor.completeAt
      BY <1>5, <1>8, <2>3
    <3>2. QED BY <3>1 DEF ListInv, ActiveIsRecent
  <2>4. QED BY <2>1, <2>2, <2>3
<1>13. ListTypeOK'
  <2>1. eventSeen' \in [Records -> Nat] /\ seen' \in [Records -> Nat]
    BY <1>2, <1>4, <1>5 DEF SeenOfMissing
  <2>2. status' \in [Records -> {"none", "active", "missing"}]
    BY <1>2, <1>4 DEF CurrentState
  <2>3. evidence' \in [Records -> {"none", "active", "missing"}]
    BY <1>2, <1>4
  <2>4. flight' \in ListType
    BY <1>1 DEF NoList, ListType, Never
  <2>5. QED BY <1>1, <1>2, <1>5, <2>1, <2>2, <2>3, <2>4 DEF ListTypeOK
<1>14. QED BY <1>10, <1>11, <1>12, <1>13 DEF ListInv

(* Every other step leaves the stored clocks and states alone.             *)
LEMMA OtherInv ==
  ASSUME ListInv, UNCHANGED <<cursor, seen, eventSeen, status, evidence>>,
         clock' \in Nat, clock' > Never, listing' \subseteq Records, flight' \in ListType,
         flight' # NoList => flight'.fetched > Never
  PROVE  ListInv'
BY DEF ListInv, ListTypeOK, ClocksOrdered, ActiveIsRecent, EvidenceShown

LEMMA NextInv == ListInv /\ [ListNext]_listVars => ListInv'
<1> SUFFICES ASSUME ListInv, [ListNext]_listVars PROVE ListInv'
  OBVIOUS
<1> USE DEF Never
<1>1. /\ clock \in Nat /\ clock > 0 /\ listing \subseteq Records /\ flight \in ListType
      /\ flight # NoList => flight.fetched > 0
  BY DEF ListInv, ListTypeOK, ClocksOrdered
<1>2. NoList \in ListType
  BY DEF NoList, ListType
<1>3. CASE SetClock
  BY <1>1, <1>3, OtherInv, ListBounds DEF SetClock
<1>4. CASE Announce
  BY <1>1, <1>4, OtherInv DEF Announce
<1>5. CASE Fetch
  <2>1. flight' \in ListType /\ flight'.fetched > 0
    BY <1>1, <1>5 DEF Fetch, ListType
  <2>2. QED BY <1>1, <1>5, <2>1, OtherInv DEF Fetch
<1>6. CASE Lost
  BY <1>1, <1>2, <1>6, OtherInv DEF Lost
<1>7. CASE Refuse
  BY <1>1, <1>2, <1>7, OtherInv DEF Refuse
<1>8. CASE PersistList
  BY <1>8, PersistInv
<1>9. CASE UNCHANGED listVars
  BY <1>1, <1>9, OtherInv DEF listVars
<1>10. QED BY <1>3, <1>4, <1>5, <1>6, <1>7, <1>8, <1>9 DEF ListNext

LEMMA ListInvariant == ListSpec => []ListInv
BY InitInv, NextInv, PTL DEF ListSpec

(* Every variable keeps its type.                                          *)
THEOREM TypeCorrect == ListSpec => []ListTypeOK
BY ListInvariant, PTL DEF ListInv

(* A warning shows what the last accepted list that says anything of it    *)
(* said, whatever the host's clock does: _current_list_state may compare   *)
(* clocks because _current_list_clock_invalid keeps them in order.         *)
THEOREM StatusFollowsEvidence == ListSpec => []EvidenceShown
BY ListInvariant, PTL DEF ListInv

(* A delayed list never overrules a newer reading.                         *)
THEOREM CursorOnlyAdvances == ListSpec => CursorAdvances
<1>1. ListInv /\ [ListNext]_listVars =>
        [cursor' # cursor => cursor'.observed > Latest(cursor.complete, cursor.observed)]_cursor
  <2> SUFFICES ASSUME ListInv, [ListNext]_listVars, cursor' # cursor
               PROVE  cursor'.observed > Latest(cursor.complete, cursor.observed)
    OBVIOUS
  <2>1. PersistList
    BY DEF ListNext, listVars, SetClock, Announce, Fetch, Lost, Refuse
  <2>2. cursor'.observed = flight.fetched
    BY <2>1 DEF PersistList
  <2>3. QED BY <2>1, <2>2, StoredEarlier DEF PersistList
<1>2. QED BY <1>1, ListInvariant, PTL DEF ListSpec, CursorAdvances

(* Absence is not an observation: the clock of an event moves only when a  *)
(* list names its warning.                                                 *)
THEOREM ClocksAreObservations == ListSpec => SeenWhenListed
<1>1. [ListNext]_listVars => [\A r \in Records : eventSeen'[r] # eventSeen[r] => r \in flight.records]_listVars
  <2> SUFFICES ASSUME [ListNext]_listVars, NEW r \in Records, eventSeen'[r] # eventSeen[r]
               PROVE  r \in flight.records
    OBVIOUS
  <2>1. PersistList
    BY DEF ListNext, listVars, SetClock, Announce, Fetch, Lost, Refuse
  <2>2. QED BY <2>1 DEF PersistList, SeenOfMissing
<1>2. QED BY <1>1, PTL DEF ListSpec, SeenWhenListed

(***************************************************************************)
(* Proofs about Catalog, for any entries, contents, ranks and bounds.  The *)
(* argument: an accepted dated content is never older than the one it      *)
(* meets, and where the dates are equal the contents are, so the date and  *)
(* the content of an entry are always the newest pair it was heard with.   *)
(***************************************************************************)

(* What was heard of an entry is not later than what it shows, and what it *)
(* shows, if it is dated, was heard.                                       *)
ShownIsNewest ==
  /\ \A h \in heard :
       /\ h[2] > Undated /\ h[2] <= released[h[1]]
       /\ h[2] = released[h[1]] => h[3] = latest[h[1]]
  /\ \A r \in Entries : released[r] # Undated => <<r, released[r], latest[r]>> \in heard

CatalogInv == CatalogTypeOK /\ MarkCovers /\ ShownIsNewest

LEMMA CatalogInitInv == CatalogInit => CatalogInv
BY DEF CatalogInit, CatalogInv, CatalogTypeOK, MarkCovers, ShownIsNewest, Undated

(* What becomes of one entry of an accepted reading.                       *)
LEMMA AcceptedEntry ==
  ASSUME CatalogInv, NEW r \in Entries, NEW v \in Versions, NEW at \in Nat, ~Conflict(r, v, at)
  PROVE  /\ at = Undated => released[r] = Undated
         /\ at >= released[r]
         /\ at # Undated => Replaces(r, v, at)
         /\ at # Undated /\ at = released[r] => v = latest[r]
<1>1. /\ released[r] \in Nat /\ latest[r] \in Versions \cup {Absent}
      /\ \A w \in Versions : Rank[w] \in Nat
  BY EntryAssumption DEF CatalogInv, CatalogTypeOK
<1>2. released[r] = Undated \/ at > released[r] \/ (at = released[r] /\ v = latest[r])
  BY <1>1 DEF Conflict, Undated
<1>3. QED BY <1>1, <1>2 DEF Replaces, Undated

LEMMA CatalogPersistInv ==
  ASSUME CatalogInv,
         NEW date \in Undated..MaxRelease, NEW content \in [Entries -> Versions \cup {Absent}],
         NEW warned \in BOOLEAN, NEW accepted \in SUBSET Entries,
         PersistCatalog(date, content, warned, accepted)
  PROVE  CatalogInv'
<1> DEFINE at == IF Invalid(date) THEN Undated ELSE date
           offered == IF Invalid(date) /\ (mark # Undated \/ date # Undated) THEN {}
                      ELSE {r \in Entries : content[r] # Absent}
           partial == Invalid(date) \/ warned \/ accepted # offered
           replaced == {r \in accepted : Replaces(r, content[r], at)}
           news == IF at = Undated THEN {} ELSE {<<r, at, content[r]>> : r \in accepted}
<1>1. /\ accepted \subseteq {r \in offered : ~Conflict(r, content[r], at)}
      /\ latest' = [r \in Entries |-> IF r \in replaced THEN content[r] ELSE latest[r]]
      /\ released' = [r \in Entries |-> IF r \in replaced /\ at # Undated THEN at ELSE released[r]]
      /\ observed' = observed \cup {<<r, content[r]>> : r \in accepted}
      /\ mark' = Mark(at, accepted, partial)
      /\ heard' = heard \cup news
      /\ today' = today
  BY DEF PersistCatalog
<1>2. /\ today \in Nat /\ mark \in Nat /\ released \in [Entries -> Nat]
      /\ latest \in [Entries -> Versions \cup {Absent}]
      /\ observed \subseteq Entries \X Versions /\ heard \subseteq Entries \X Nat \X Versions
  BY DEF CatalogInv, CatalogTypeOK
<1>3. at \in Nat /\ (at # Undated => at >= mark)
  BY <1>2, CatalogBounds DEF Invalid, Undated
<1>4. ASSUME NEW r \in accepted
      PROVE  /\ content[r] \in Versions /\ r \in Entries
             /\ at = Undated => released[r] = Undated
             /\ at >= released[r]
             /\ at # Undated => r \in replaced
             /\ at # Undated /\ at = released[r] => content[r] = latest[r]
  <2>1. r \in Entries /\ content[r] \in Versions /\ ~Conflict(r, content[r], at)
    BY <1>1
  <2>2. QED BY <2>1, <1>3, AcceptedEntry
<1>5. \A r \in Entries :
        /\ released'[r] = IF r \in accepted /\ at # Undated THEN at ELSE released[r]
        /\ r \in accepted /\ at # Undated => latest'[r] = content[r]
        /\ r \notin accepted => latest'[r] = latest[r]
  BY <1>1, <1>2, <1>4
<1> HIDE DEF at, offered, partial, replaced
<1>6. CatalogTypeOK'
  <2>1. latest' \in [Entries -> Versions \cup {Absent}]
    BY <1>1, <1>2
  <2>2. released' \in [Entries -> Nat]
    BY <1>1, <1>2, <1>3
  <2>3. observed' \subseteq Entries \X Versions
    BY <1>1, <1>2, <1>4
  <2>4. heard' \subseteq Entries \X Nat \X Versions
    BY <1>1, <1>2, <1>3, <1>4
  <2>5. mark' \in Nat
    BY <1>1, <1>2, <1>3 DEF Mark
  <2>6. QED BY <1>1, <1>2, <2>1, <2>2, <2>3, <2>4, <2>5 DEF CatalogTypeOK
<1>7. MarkCovers'
  <2> SUFFICES ASSUME NEW r \in Entries PROVE released'[r] <= mark'
    BY DEF MarkCovers
  <2>1. released[r] <= mark /\ released[r] \in Nat /\ mark' \in Nat
    BY <1>2, <1>6 DEF CatalogInv, MarkCovers, CatalogTypeOK
  <2>2. mark' >= mark
    BY <1>1, <1>2, <1>3 DEF Mark
  <2>3. CASE r \in accepted /\ at # Undated
    <3>1. mark' = at
      BY <1>1, <2>3 DEF Mark
    <3>2. QED BY <1>3, <1>5, <2>3, <3>1
  <2>4. CASE ~(r \in accepted /\ at # Undated)
    BY <1>2, <1>5, <2>1, <2>2, <2>4
  <2>5. QED BY <2>3, <2>4
<1>8. ShownIsNewest'
  <2>1. ASSUME NEW h \in heard'
        PROVE  /\ h[2] > Undated /\ h[2] <= released'[h[1]]
               /\ h[2] = released'[h[1]] => h[3] = latest'[h[1]]
    <3>1. CASE h \in news
      <4>1. PICK r \in accepted : h = <<r, at, content[r]>> /\ at # Undated
        BY <3>1
      <4>2. h[1] = r /\ h[2] = at /\ h[3] = content[r] /\ r \in Entries
        BY <1>4, <4>1
      <4>3. QED BY <1>3, <1>5, <4>1, <4>2 DEF Undated
    <3>2. CASE h \in heard
      <4>1. /\ h[1] \in Entries /\ h[2] \in Nat /\ released[h[1]] \in Nat
            /\ h[2] > Undated /\ h[2] <= released[h[1]]
            /\ h[2] = released[h[1]] => h[3] = latest[h[1]]
        BY <1>2, <3>2 DEF CatalogInv, ShownIsNewest
      <4>2. CASE h[1] \notin accepted
        BY <1>5, <4>1, <4>2
      <4>3. CASE h[1] \in accepted
        <5>1. at # Undated /\ at >= released[h[1]]
          BY <1>4, <4>1, <4>3 DEF Undated
        <5>2. released'[h[1]] = at /\ latest'[h[1]] = content[h[1]]
          BY <1>5, <4>1, <4>3, <5>1
        <5>3. at = released[h[1]] => content[h[1]] = latest[h[1]]
          BY <1>4, <4>3, <5>1
        <5>4. QED BY <1>3, <4>1, <5>1, <5>2, <5>3
      <4>4. QED BY <4>2, <4>3
    <3>3. QED BY <1>1, <3>1, <3>2
  <2>2. ASSUME NEW r \in Entries, released'[r] # Undated
        PROVE  <<r, released'[r], latest'[r]>> \in heard'
    <3>1. CASE r \in accepted /\ at # Undated
      BY <1>1, <1>5, <3>1
    <3>2. CASE r \notin accepted
      <4>1. released'[r] = released[r] /\ latest'[r] = latest[r]
        BY <1>5, <3>2
      <4>2. QED BY <1>1, <2>2, <4>1 DEF CatalogInv, ShownIsNewest
    <3>3. CASE r \in accepted /\ at = Undated
      BY <1>4, <1>5, <2>2, <3>3
    <3>4. QED BY <3>1, <3>2, <3>3
  <2>3. QED BY <2>1, <2>2 DEF ShownIsNewest
<1>9. QED BY <1>6, <1>7, <1>8 DEF CatalogInv

LEMMA CatalogNextInv == CatalogInv /\ [CatalogNext]_catalogVars => CatalogInv'
<1> SUFFICES ASSUME CatalogInv, [CatalogNext]_catalogVars PROVE CatalogInv'
  OBVIOUS
<1>1. CASE Later
  BY <1>1 DEF Later, CatalogInv, CatalogTypeOK, MarkCovers, ShownIsNewest
<1>2. CASE UNCHANGED catalogVars
  BY <1>2 DEF catalogVars, CatalogInv, CatalogTypeOK, MarkCovers, ShownIsNewest
<1>3. ASSUME NEW date \in Undated..MaxRelease, NEW content \in [Entries -> Versions \cup {Absent}],
             NEW warned \in BOOLEAN, NEW accepted \in SUBSET Entries,
             PersistCatalog(date, content, warned, accepted)
      PROVE  CatalogInv'
  BY <1>3, CatalogPersistInv
<1>4. QED BY <1>1, <1>2, <1>3 DEF CatalogNext

LEMMA CatalogInvariant == CatalogSpec => []CatalogInv
BY CatalogInitInv, CatalogNextInv, PTL DEF CatalogSpec

(* Every variable keeps its type.                                          *)
THEOREM CatalogTypeCorrect == CatalogSpec => []CatalogTypeOK
BY CatalogInvariant, PTL DEF CatalogInv

(* No entry is dated beyond the high-water mark of the catalog.            *)
THEOREM MarkCoversEntries == CatalogSpec => []MarkCovers
BY CatalogInvariant, PTL DEF CatalogInv

(* An entry shows the newest dated content it was accepted with, however   *)
(* releases are delayed, repeated or partly rejected.                      *)
THEOREM EntriesAreNewest == CatalogSpec => []NewestShown
<1>1. CatalogInv => NewestShown
  <2> SUFFICES ASSUME CatalogInv, NEW h \in heard, \A g \in heard : g[1] = h[1] => g[2] <= h[2]
               PROVE  latest[h[1]] = h[3] /\ released[h[1]] = h[2]
    BY DEF NewestShown
  <2>1. h[1] \in Entries /\ h[2] \in Nat /\ released[h[1]] \in Nat
    BY DEF CatalogInv, CatalogTypeOK
  <2>2. /\ h[2] > Undated /\ h[2] <= released[h[1]]
        /\ h[2] = released[h[1]] => h[3] = latest[h[1]]
    BY DEF CatalogInv, ShownIsNewest
  <2>3. <<h[1], released[h[1]], latest[h[1]]>> \in heard
    BY <2>1, <2>2 DEF CatalogInv, ShownIsNewest, Undated
  <2>4. released[h[1]] <= h[2]
    BY <2>3
  <2>5. QED BY <2>1, <2>2, <2>4
<1>2. QED BY <1>1, CatalogInvariant, PTL

(* Dated material is replaced by material of a later date only.            *)
THEOREM MaterialNeverOlder == CatalogSpec => NoRollback
<1>1. CatalogInv /\ [CatalogNext]_catalogVars =>
        [\A r \in Entries : released[r] # Undated /\ latest'[r] # latest[r] => released'[r] > released[r]]_catalogVars
  <2> SUFFICES ASSUME CatalogInv, CatalogNext,
                      NEW r \in Entries, released[r] # Undated, latest'[r] # latest[r]
               PROVE  released'[r] > released[r]
    BY DEF catalogVars
  <2>1. PICK date \in Undated..MaxRelease, content \in [Entries -> Versions \cup {Absent}],
             warned \in BOOLEAN, accepted \in SUBSET Entries : PersistCatalog(date, content, warned, accepted)
    BY DEF CatalogNext, Later
  <2> DEFINE at == IF Invalid(date) THEN Undated ELSE date
  <2>2. at \in Nat
    BY CatalogBounds DEF Undated
  <2>3. r \in accepted /\ Replaces(r, content[r], at) /\ latest'[r] = content[r]
    BY <2>1 DEF PersistCatalog, CatalogInv, CatalogTypeOK
  <2>4. content[r] \in Versions /\ ~Conflict(r, content[r], at)
    BY <2>1, <2>3 DEF PersistCatalog
  <2>5. /\ at = Undated => released[r] = Undated
        /\ at >= released[r]
        /\ at # Undated /\ at = released[r] => content[r] = latest[r]
    BY <2>2, <2>4, AcceptedEntry
  <2>6. released'[r] = at
    BY <2>1, <2>3, <2>5 DEF PersistCatalog, CatalogInv, CatalogTypeOK
  <2>7. released[r] \in Nat
    BY DEF CatalogInv, CatalogTypeOK
  <2>8. QED BY <2>2, <2>3, <2>5, <2>6, <2>7
<1>2. QED BY <1>1, CatalogInvariant, PTL DEF CatalogSpec, NoRollback

-----------------------------------------------------------------------------
(***************************************************************************)
(* Proofs about Relations, for any events and reports, any distances and   *)
(* any limit.  The argument: what is not settled at a step of the          *)
(* transaction has an event in todo, and each step settles every pair of   *)
(* the event it takes out.                                                 *)
(***************************************************************************)
Pending == Range(todo)

RelationsTypeOK ==
  /\ Live \subseteq Ids /\ report \in [Live -> Reports]
  /\ todo \in Seq(Live)

(* A relation is current unless one of its events is still to be looked at.*)
SettledIsCurrent ==
  \A r \in relations : \E e, f \in Live :
    r.pair = {e, f} /\ (e \in Pending \/ (Near(e, f) /\ r = Relation(e, f)))

(* A pair that the rule relates is missing for the limit alone, unless one *)
(* of its events is still to be looked at.                                 *)
SettledIsComplete ==
  \A e, f \in Live \ Pending : Near(e, f) => Relation(e, f) \in relations \/ {e, f} \in omitted

RelationsInv == RelationsTypeOK /\ SettledIsCurrent /\ SettledIsComplete

LEMMA RelationsInitInv == RelationsInit => RelationsInv
<1>1. SUFFICES ASSUME RelationsInit PROVE RelationsInv OBVIOUS
<1>2. Live = {} /\ relations = {} /\ todo = <<>> BY <1>1 DEF RelationsInit, Live
<1>3. RelationsTypeOK BY <1>1, <1>2 DEF RelationsTypeOK, RelationsInit, Live
<1>4. SettledIsCurrent /\ SettledIsComplete BY <1>2 DEF SettledIsCurrent, SettledIsComplete
<1>5. QED BY <1>3, <1>4 DEF RelationsInv

(* A relation and the rule for it do not depend on the order of its events.*)
LEMMA NearSymmetric ==
  ASSUME NEW e \in Live, NEW f \in Live, report \in [Live -> Reports]
  PROVE  /\ Near(e, f) <=> Near(f, e)
         /\ Relation(e, f) = Relation(f, e)
<1>1. /\ report[e].place \in Nat /\ report[f].place \in Nat
      /\ report[e].time \in Nat /\ report[f].time \in Nat
  BY RelationsAssumption
<1>2. Kind(report[e], report[f]) = Kind(report[f], report[e]) BY DEF Kind
<1>3. /\ Apart(report[e].place, report[f].place) = Apart(report[f].place, report[e].place)
      /\ Delay(e, f) = Delay(f, e)
  BY <1>1 DEF Delay, Apart
<1>4. Near(e, f) <=> Near(f, e) BY <1>2, <1>3 DEF Near
<1>5. Relation(e, f) = Relation(f, e) BY <1>2 DEF Relation
<1>6. QED BY <1>4, <1>5

(* Two events that say the same as before are related as before.           *)
LEMMA SameReports ==
  ASSUME NEW e, NEW f, report'[e] = report[e], report'[f] = report[f]
  PROVE  /\ Near(e, f)' <=> Near(e, f)
         /\ Relation(e, f)' = Relation(e, f)
BY DEF Near, Delay, Relation

LEMMA RangeOfEmpty ==
  ASSUME NEW s, s = <<>>
  PROVE  Range(s) = {}
BY DEF Range

(* What is left of a sequence when its first element is taken out.         *)
LEMMA RangeOfTail ==
  ASSUME NEW S, NEW s \in Seq(S), s # <<>>
  PROVE  /\ Head(s) \in S /\ Tail(s) \in Seq(S)
         /\ Range(s) \subseteq {Head(s)} \cup Range(Tail(s))
         /\ Range(Tail(s)) \subseteq Range(s)
<1>1. /\ Len(s) \in Nat \ {0} /\ DOMAIN s = 1..Len(s) /\ Head(s) = s[1] /\ Tail(s) \in Seq(S)
      /\ DOMAIN Tail(s) = 1..(Len(s) - 1)
      /\ \A i \in 1..(Len(s) - 1) : Tail(s)[i] = s[i + 1]
  OBVIOUS
<1>2. Head(s) \in S BY <1>1
<1>3. ASSUME NEW i \in DOMAIN s PROVE s[i] \in {Head(s)} \cup Range(Tail(s))
  <2>1. CASE i = 1 BY <2>1, <1>1
  <2>2. CASE i # 1
    <3>1. i - 1 \in DOMAIN Tail(s) /\ Tail(s)[i - 1] = s[i] BY <2>2, <1>1
    <3>2. QED BY <3>1 DEF Range
  <2>3. QED BY <2>1, <2>2
<1>4. ASSUME NEW i \in DOMAIN Tail(s) PROVE Tail(s)[i] \in Range(s)
  BY <1>1 DEF Range
<1>5. Range(s) \subseteq {Head(s)} \cup Range(Tail(s)) BY <1>3 DEF Range
<1>6. Range(Tail(s)) \subseteq Range(s) BY <1>4 DEF Range
<1>7. QED BY <1>1, <1>2, <1>5, <1>6

(* The events of ids say something new, and are to be looked at.           *)
LEMMA SayInv ==
  ASSUME RelationsInv, todo = <<>>, NEW ids \in SUBSET Ids, NEW said \in [ids -> Reports],
         Say(ids, said), todo' \in Seq(ids), Range(todo') = ids
  PROVE  RelationsInv'
<1>1. /\ Live \subseteq Ids /\ report \in [Live -> Reports] /\ Pending = {} /\ Pending' = ids
      /\ relations' = relations /\ omitted' = omitted
      /\ report' = [e \in Live \cup ids |-> IF e \in ids THEN said[e] ELSE report[e]]
  BY RangeOfEmpty DEF RelationsInv, RelationsTypeOK, Pending, Say
<1>2. Live' = Live \cup ids BY <1>1 DEF Live
<1>3. RelationsTypeOK'
  <2>1. report' \in [Live' -> Reports] BY <1>1, <1>2
  <2>2. todo' \in Seq(Live') BY <1>2
  <2>3. QED BY <1>1, <1>2, <2>1, <2>2 DEF RelationsTypeOK
<1>4. ASSUME NEW e \in Live \ ids PROVE report'[e] = report[e]
  BY <1>1
<1>5. ASSUME NEW r \in relations
      PROVE  \E e, f \in Live' : r.pair = {e, f} /\ (e \in Pending' \/ (Near(e, f)' /\ r = Relation(e, f)'))
  <2>1. PICK e \in Live, f \in Live : r.pair = {e, f} /\ Near(e, f) /\ r = Relation(e, f)
    BY <1>1 DEF RelationsInv, SettledIsCurrent
  <2>2. CASE e \in ids BY <2>1, <2>2, <1>1, <1>2
  <2>3. CASE f \in ids
    <3>1. r.pair = {f, e} BY <2>1
    <3>2. QED BY <3>1, <2>3, <1>1, <1>2
  <2>4. CASE e \notin ids /\ f \notin ids
    <3>1. Near(e, f)' /\ r = Relation(e, f)' BY <2>1, <2>4, <1>4, SameReports
    <3>2. QED BY <3>1, <2>1, <1>2
  <2>5. QED BY <2>2, <2>3, <2>4
<1>6. ASSUME NEW e \in Live' \ ids, NEW f \in Live' \ ids, Near(e, f)'
      PROVE  Relation(e, f)' \in relations \/ {e, f} \in omitted
  <2>1. e \in Live \ ids /\ f \in Live \ ids BY <1>2
  <2>2. Near(e, f) /\ Relation(e, f)' = Relation(e, f) BY <1>6, <2>1, <1>4, SameReports
  <2>3. QED BY <2>1, <2>2, <1>1 DEF RelationsInv, SettledIsComplete
<1>7. SettledIsCurrent' BY <1>1, <1>5 DEF SettledIsCurrent
<1>8. SettledIsComplete' BY <1>1, <1>6 DEF SettledIsComplete
<1>9. QED BY <1>3, <1>7, <1>8 DEF RelationsInv

(* The relations of one event are found anew.                              *)
LEMMA RelateInv ==
  ASSUME RelationsInv, NEW found, Relate(found)
  PROVE  RelationsInv'
<1> DEFINE e == Head(todo)
<1> DEFINE near == {f \in Live : Near(e, f)}
<1>1. /\ todo # <<>> /\ todo' = Tail(todo) /\ report' = report /\ found \subseteq near
      /\ relations' = (relations \ Old(e)) \cup {Relation(e, f) : f \in found}
      /\ omitted' = {p \in omitted : e \notin p} \cup {{e, f} : f \in near \ found}
  BY DEF Relate, Nearest
<1>2. Live' = Live /\ Live \subseteq Ids /\ report \in [Live -> Reports] /\ todo \in Seq(Live)
  BY <1>1 DEF Live, RelationsInv, RelationsTypeOK
<1>3. /\ e \in Live /\ todo' \in Seq(Live)
      /\ Pending \subseteq {e} \cup Pending' /\ Pending' \subseteq Pending
  BY <1>1, <1>2, RangeOfTail DEF Pending
<1>4. \A a, b : (Near(a, b)' <=> Near(a, b)) /\ Relation(a, b)' = Relation(a, b)
  BY <1>1, SameReports
<1> HIDE DEF e
<1>5. RelationsTypeOK' BY <1>1, <1>2, <1>3 DEF RelationsTypeOK
<1>6. ASSUME NEW r \in relations'
      PROVE  \E a, b \in Live : r.pair = {a, b} /\ (a \in Pending' \/ (Near(a, b) /\ r = Relation(a, b)))
  <2>1. CASE r \in relations \ Old(e)
    <3>1. e \notin r.pair BY <2>1 DEF Old
    <3>2. PICK a \in Live, b \in Live :
            r.pair = {a, b} /\ (a \in Pending \/ (Near(a, b) /\ r = Relation(a, b)))
      BY <2>1 DEF RelationsInv, SettledIsCurrent
    <3>3. a # e BY <3>1, <3>2
    <3>4. QED BY <3>2, <3>3, <1>3
  <2>2. CASE r \in {Relation(e, f) : f \in found}
    <3>1. PICK f \in found : r = Relation(e, f) BY <2>2
    <3>2. f \in Live /\ Near(e, f) BY <1>1
    <3>3. r.pair = {e, f} BY <3>1 DEF Relation
    <3>4. QED BY <3>1, <3>2, <3>3, <1>3
  <2>3. QED BY <1>1, <1>6, <2>1, <2>2
<1>7. ASSUME NEW f \in Live, Near(e, f)
      PROVE  Relation(e, f) \in relations' \/ {e, f} \in omitted'
  BY <1>1, <1>7
<1>8. ASSUME NEW a \in Live \ Pending', NEW b \in Live \ Pending', Near(a, b)
      PROVE  Relation(a, b) \in relations' \/ {a, b} \in omitted'
  <2>1. CASE a = e BY <2>1, <1>7, <1>8
  <2>2. CASE b = e
    <3>1. Near(e, a) /\ Relation(e, a) = Relation(a, b) BY <2>2, <1>8, <1>2, NearSymmetric
    <3>2. {a, b} = {e, a} BY <2>2
    <3>3. QED BY <3>1, <3>2, <1>7
  <2>3. CASE a # e /\ b # e
    <3>1. a \in Live \ Pending /\ b \in Live \ Pending BY <2>3, <1>3
    <3>2. Relation(a, b) \in relations \/ {a, b} \in omitted
      BY <3>1, <1>8 DEF RelationsInv, SettledIsComplete
    <3>3. Relation(a, b) \notin Old(e) BY <2>3 DEF Old, Relation
    <3>4. QED BY <3>2, <3>3, <2>3, <1>1
  <2>4. QED BY <2>1, <2>2, <2>3
<1>9. SettledIsCurrent' BY <1>2, <1>4, <1>6 DEF SettledIsCurrent
<1>10. SettledIsComplete' BY <1>2, <1>4, <1>8 DEF SettledIsComplete
<1>11. QED BY <1>5, <1>9, <1>10 DEF RelationsInv

(* An event that retention deletes takes its relations with it.            *)
LEMMA ForgetInv ==
  ASSUME RelationsInv, NEW e, Forget(e)
  PROVE  RelationsInv'
<1>1. /\ todo = <<>> /\ todo' = todo
      /\ report' = [f \in Live \ {e} |-> report[f]]
      /\ relations' = {r \in relations : e \notin r.pair}
      /\ omitted' = {p \in omitted : e \notin p}
  BY DEF Forget
<1>2. /\ Live \subseteq Ids /\ report \in [Live -> Reports] /\ Live' = Live \ {e}
      /\ Pending = {} /\ Pending' = {}
  BY <1>1, RangeOfEmpty DEF RelationsInv, RelationsTypeOK, Live, Pending
<1>3. RelationsTypeOK'
  <2>1. report' \in [Live' -> Reports] BY <1>1, <1>2
  <2>2. todo' \in Seq(Live') BY <1>1
  <2>3. QED BY <1>2, <2>1, <2>2 DEF RelationsTypeOK
<1>4. \A a, b \in Live' : (Near(a, b)' <=> Near(a, b)) /\ Relation(a, b)' = Relation(a, b)
  <2>1. SUFFICES ASSUME NEW a \in Live', NEW b \in Live'
                 PROVE  (Near(a, b)' <=> Near(a, b)) /\ Relation(a, b)' = Relation(a, b)
    OBVIOUS
  <2>2. report'[a] = report[a] /\ report'[b] = report[b] BY <1>1, <1>2
  <2>3. QED BY <2>2, SameReports
<1>5. ASSUME NEW r \in relations'
      PROVE  \E a, b \in Live' : r.pair = {a, b} /\ Near(a, b) /\ r = Relation(a, b)
  <2>1. PICK a \in Live, b \in Live : r.pair = {a, b} /\ Near(a, b) /\ r = Relation(a, b)
    BY <1>1, <1>2 DEF RelationsInv, SettledIsCurrent
  <2>2. a \in Live' /\ b \in Live' BY <2>1, <1>1, <1>2
  <2>3. QED BY <2>1, <2>2
<1>6. ASSUME NEW a \in Live', NEW b \in Live', Near(a, b)
      PROVE  Relation(a, b) \in relations' \/ {a, b} \in omitted'
  <2>1. Relation(a, b) \in relations \/ {a, b} \in omitted
    BY <1>2, <1>6 DEF RelationsInv, SettledIsComplete
  <2>2. e \notin {a, b} /\ Relation(a, b).pair = {a, b} BY <1>2 DEF Relation
  <2>3. QED BY <2>1, <2>2, <1>1
<1>7. SettledIsCurrent' BY <1>4, <1>5 DEF SettledIsCurrent
<1>8. SettledIsComplete' BY <1>2, <1>4, <1>6 DEF SettledIsComplete
<1>9. QED BY <1>3, <1>7, <1>8 DEF RelationsInv

LEMMA RelationsNextInv == RelationsInv /\ [RelationsNext]_relationVars => RelationsInv'
<1>1. SUFFICES ASSUME RelationsInv, [RelationsNext]_relationVars PROVE RelationsInv' OBVIOUS
<1>2. ASSUME NEW ids \in SUBSET Ids \ {{}}, NEW said \in [ids -> Reports], Batch(ids, said)
      PROVE  RelationsInv'
  <2>1. todo = <<>> /\ Say(ids, said) /\ todo' \in [1..Cardinality(ids) -> ids] /\ Range(todo') = ids
    BY <1>2 DEF Batch, InOrder
  <2>2. Cardinality(ids) \in Nat BY RelationsAssumption, FS_Subset, FS_CardinalityType
  <2>3. todo' \in Seq(ids) BY <2>1, <2>2
  <2>4. QED BY <1>1, <2>1, <2>3, SayInv
<1>3. ASSUME NEW e \in Ids, NEW f \in Ids, NEW said \in [{e, f} -> Reports], Split(e, f, said)
      PROVE  RelationsInv'
  <2>1. todo = <<>> /\ Say({e, f}, said) /\ todo' = <<e, f>> BY <1>3 DEF Split
  <2>2. todo' \in Seq({e, f}) /\ Range(todo') = {e, f} BY <2>1 DEF Range
  <2>3. QED BY <1>1, <2>1, <2>2, SayInv
<1>4. CASE UNCHANGED relationVars
  <2>1. report' = report /\ relations' = relations /\ todo' = todo /\ omitted' = omitted
    BY <1>4 DEF relationVars
  <2>2. QED BY <1>1, <2>1
        DEF RelationsInv, RelationsTypeOK, SettledIsCurrent, SettledIsComplete, Pending, Live, Near, Delay, Relation
<1>5. QED BY <1>1, <1>2, <1>3, <1>4, RelateInv, ForgetInv DEF RelationsNext

LEMMA RelationsInvariant == RelationsSpec => []RelationsInv
BY RelationsInitInv, RelationsNextInv, PTL DEF RelationsSpec

(* Outside of a transaction the relations are those that the events have   *)
(* by what they say now, and a pair is missing only for the limit.         *)
THEOREM RelationsCorrect == RelationsSpec => []RelationsAreCurrent
<1>1. RelationsInv => RelationsAreCurrent
  <2>1. SUFFICES ASSUME RelationsInv, todo = <<>> PROVE RelationsAreCurrent
    BY DEF RelationsAreCurrent
  <2>2. Pending = {} BY <2>1, RangeOfEmpty DEF Pending
  <2>3. QED BY <2>1, <2>2 DEF RelationsInv, SettledIsCurrent, SettledIsComplete, RelationsAreCurrent
<1>2. QED BY <1>1, RelationsInvariant, PTL

-----------------------------------------------------------------------------
(***************************************************************************)
(* Proofs about Fetches, for any pages, hosts, validators, redirects and   *)
(* limits.  The argument: what the cache counts is the sum of the sizes of *)
(* its entries, however they are taken out, put back and dropped; and no   *)
(* body held anywhere is of a later version than its page, so that one     *)
(* that a server finds unchanged is the page's.  A sum is a recursive      *)
(* function; that it exists, and what it adds up to, is shown by induction *)
(* on numbers, from the least element of a set of them.                    *)
(***************************************************************************)

(* Every nonempty set of numbers has a least one, and what holds of zero   *)
(* and of the successor of every number it holds of is true of all.        *)
LEMMA LeastNat ==
  ASSUME NEW T \in SUBSET Nat, T # {}
  PROVE  \E x \in T : \A y \in T : x <= y
<1> DEFINE R == OpToRel(<, Nat)
<1>1. IsWellFoundedOn(R, Nat) BY NatLessThanWellFounded
<1>2. \A x, y \in Nat : <<x, y>> \in R <=> x < y BY DEF OpToRel
<1> HIDE DEF R
<1>3. PICK x \in T : \A y \in T : ~ (<<y, x>> \in R) BY <1>1, WFMin
<1>4. ASSUME NEW y \in T PROVE x <= y
  <2>1. x \in Nat /\ y \in Nat OBVIOUS
  <2>2. ~(y < x) BY <1>2, <1>3, <2>1
  <2>3. QED BY <2>1, <2>2
<1>5. QED BY <1>4

LEMMA Induction ==
  ASSUME NEW S, 0 \in S, \A n \in Nat : n \in S => n + 1 \in S
  PROVE  Nat \subseteq S
<1> DEFINE T == Nat \ S
<1>1. SUFFICES ASSUME T # {} PROVE FALSE OBVIOUS
<1>2. PICK x \in T : \A y \in T : x <= y
  <2>1. T \in SUBSET Nat OBVIOUS
  <2> HIDE DEF T
  <2>2. QED BY <1>1, <2>1, LeastNat
<1>3. x \in Nat /\ x # 0 /\ x - 1 \in Nat OBVIOUS
<1>4. CASE x - 1 \in T BY <1>2, <1>3, <1>4
<1>5. CASE x - 1 \in S
  <2>1. (x - 1) + 1 \in S BY <1>3, <1>5
  <2>2. (x - 1) + 1 = x BY <1>3
  <2>3. QED BY <2>1, <2>2
<1>6. QED BY <1>3, <1>4, <1>5

(* A function defined by recursion on the numbers up to N: base at zero,   *)
(* at n what step[n] makes of its value at n - 1.                          *)
Recurs(f, base, step, N) == f[0] = base /\ \A n \in 1..N : f[n] = step[n][f[n - 1]]

LEMMA RecursionExists ==
  ASSUME NEW A, NEW base \in A, NEW step \in [Nat -> [A -> A]], NEW M \in Nat
  PROVE  \E f \in [0..M -> A] : Recurs(f, base, step, M)
<1> DEFINE S == {N \in Nat : \E f \in [0..N -> A] : Recurs(f, base, step, N)}
<1>1. 0 \in S
  <2>1. [n \in 0..0 |-> base] \in [0..0 -> A] OBVIOUS
  <2>2. Recurs([n \in 0..0 |-> base], base, step, 0) BY DEF Recurs
  <2>3. QED BY <2>1, <2>2
<1>2. ASSUME NEW N \in Nat, N \in S PROVE N + 1 \in S
  <2>1. PICK f \in [0..N -> A] : Recurs(f, base, step, N) BY <1>2
  <2> DEFINE next == [n \in 0..(N + 1) |-> IF n = N + 1 THEN step[N + 1][f[N]] ELSE f[n]]
  <2>2. step[N + 1][f[N]] \in A /\ \A n \in 0..(N + 1) : n = N + 1 \/ n \in 0..N OBVIOUS
  <2>3. next \in [0..(N + 1) -> A] BY <2>2
  <2>4. next[N + 1] = step[N + 1][f[N]] /\ \A n \in 0..N : next[n] = f[n] OBVIOUS
  <2> HIDE DEF next
  <2>5. ASSUME NEW n \in 1..(N + 1) PROVE next[n] = step[n][next[n - 1]]
    <3>1. n - 1 \in 0..N /\ next[n - 1] = f[n - 1] BY <2>4
    <3>2. CASE n = N + 1 BY <3>1, <3>2, <2>4
    <3>3. CASE n \in 1..N BY <3>1, <3>3, <2>1, <2>4 DEF Recurs
    <3>4. QED BY <3>2, <3>3
  <2>6. Recurs(next, base, step, N + 1) BY <2>1, <2>4, <2>5 DEF Recurs
  <2>7. QED BY <2>3, <2>6
<1>3. Nat \subseteq S
  <2> HIDE DEF S
  <2>1. QED BY <1>1, <1>2, Induction
<1>4. QED BY <1>3

(***************************************************************************)
(* The length of a list of entries.                                        *)
(***************************************************************************)
Bodies == [page : Urls, version : Nat]
CacheEntries == [url : Urls, body : Bodies]
SizeOf(e) == Size[e.body.page]

LEMMA SizeType == ASSUME NEW e \in CacheEntries PROVE SizeOf(e) \in Nat /\ SizeOf(e) <= MaxBytes
BY UrlsAssumption, LimitsAssumption DEF CacheEntries, Bodies, SizeOf

(* sum[n] is the length of the first n entries.                            *)
Sums(sum, s) ==
  /\ sum \in [0..Len(s) -> Nat] /\ sum[0] = 0
  /\ \A n \in 1..Len(s) : sum[n] = sum[n - 1] + SizeOf(s[n])

LEMMA LengthIsSum ==
  ASSUME NEW s \in Seq(CacheEntries)
  PROVE  \E sum : Sums(sum, s) /\ Length(s) = sum[Len(s)]
<1> DEFINE N == Len(s)
<1> DEFINE step == [n \in Nat |-> [a \in Nat |-> IF n \in 1..N THEN a + SizeOf(s[n]) ELSE a]]
<1> DEFINE Is(sum) == sum = [n \in 0..N |-> IF n = 0 THEN 0 ELSE sum[n - 1] + SizeOf(s[n])]
<1>1. N \in Nat /\ s \in [1..N -> CacheEntries] OBVIOUS
<1> HIDE DEF N
<1>2. \A n \in 1..N : SizeOf(s[n]) \in Nat BY <1>1, SizeType
<1>3. step \in [Nat -> [Nat -> Nat]]
  <2>1. ASSUME NEW n \in Nat, NEW a \in Nat PROVE (IF n \in 1..N THEN a + SizeOf(s[n]) ELSE a) \in Nat
    BY <1>2
  <2>2. QED BY <2>1
<1>4. \A n \in 1..N, a \in Nat : step[n][a] = a + SizeOf(s[n]) BY <1>1
<1> HIDE DEF step
<1>5. PICK f \in [0..N -> Nat] : Recurs(f, 0, step, N) BY <1>1, <1>3, RecursionExists
<1>6. Is(f)
  <2>1. ASSUME NEW n \in 1..N PROVE f[n] = f[n - 1] + SizeOf(s[n])
    <3>1. n - 1 \in 0..N BY <1>1
    <3>2. QED BY <3>1, <1>4, <1>5 DEF Recurs
  <2>2. QED BY <2>1, <1>1, <1>5 DEF Recurs
<1> DEFINE sum == CHOOSE g : Is(g)
<1>7. Is(sum) BY <1>6
<1>8. Length(s) = sum[N] BY DEF Length, N, SizeOf
<1> HIDE DEF sum
<1>9. /\ sum[0] = 0 /\ DOMAIN sum = 0..N
      /\ \A n \in 1..N : sum[n] = sum[n - 1] + SizeOf(s[n])
  BY <1>1, <1>7
<1> DEFINE S == {n \in Nat : n <= N => sum[n] \in Nat}
<1>10. Nat \subseteq S
  <2>1. 0 \in S BY <1>9
  <2>2. ASSUME NEW n \in Nat, n \in S PROVE n + 1 \in S
    <3>1. CASE n + 1 \in 1..N
      <4>1. sum[n + 1] = sum[n] + SizeOf(s[n + 1]) BY <1>9, <3>1
      <4>2. sum[n] \in Nat /\ SizeOf(s[n + 1]) \in Nat BY <2>2, <3>1, <1>1, <1>2
      <4>3. QED BY <4>1, <4>2
    <3>2. QED BY <1>1, <3>1
  <2> HIDE DEF S
  <2>3. QED BY <2>1, <2>2, Induction
<1>11. \A n \in 0..N : sum[n] \in Nat BY <1>1, <1>10
<1>12. sum \in [0..N -> Nat] BY <1>7, <1>11
<1>13. QED BY <1>8, <1>9, <1>12 DEF N, Sums

(* The N first entries of t are those of u after its m first ones, and add *)
(* to the length of u what they are long.                                  *)
Follows(t, N, u, m) ==
  /\ m \in Nat /\ N \in Nat /\ m + N <= Len(u) /\ N <= Len(t)
  /\ \A i \in 1..N : u[m + i] = t[i]

LEMMA SumsShift ==
  ASSUME NEW u \in Seq(CacheEntries), NEW t \in Seq(CacheEntries), NEW f, NEW g,
         Sums(f, u), Sums(g, t), NEW m, NEW N, Follows(t, N, u, m)
  PROVE  f[m + N] = f[m] + g[N]
<1> DEFINE S == {n \in Nat : n <= N => f[m + n] = f[m] + g[n]}
<1>1. /\ f \in [0..Len(u) -> Nat] /\ g \in [0..Len(t) -> Nat] /\ g[0] = 0
      /\ \A n \in 1..Len(u) : f[n] = f[n - 1] + SizeOf(u[n])
      /\ \A n \in 1..Len(t) : g[n] = g[n - 1] + SizeOf(t[n])
      /\ Len(u) \in Nat /\ Len(t) \in Nat /\ m \in Nat /\ N \in Nat
      /\ m + N <= Len(u) /\ N <= Len(t) /\ \A i \in 1..N : u[m + i] = t[i]
  BY DEF Sums, Follows
<1>2. 0 \in S
  <2>1. m \in 0..Len(u) /\ f[m] \in Nat BY <1>1
  <2>2. QED BY <2>1, <1>1
<1>3. ASSUME NEW n \in Nat, n \in S PROVE n + 1 \in S
  <2>1. SUFFICES ASSUME n + 1 <= N PROVE f[m + (n + 1)] = f[m] + g[n + 1] OBVIOUS
  <2>2. f[m + n] = f[m] + g[n] BY <1>1, <1>3, <2>1
  <2>3. /\ n + 1 \in 1..N /\ m + (n + 1) \in 1..Len(u) /\ (m + (n + 1)) - 1 = m + n
        /\ (n + 1) - 1 = n /\ n + 1 \in 1..Len(t) /\ m \in 0..Len(u) /\ n \in 0..Len(t)
    BY <2>1, <1>1
  <2>4. f[m + (n + 1)] = f[m + n] + SizeOf(u[m + (n + 1)]) BY <1>1, <2>3
  <2>5. g[n + 1] = g[n] + SizeOf(t[n + 1]) BY <1>1, <2>3
  <2>6. u[m + (n + 1)] = t[n + 1] BY <1>1, <2>3
  <2>7. t[n + 1] \in CacheEntries BY <2>3
  <2>8. SizeOf(t[n + 1]) \in Nat /\ f[m] \in Nat /\ g[n] \in Nat BY <2>7, <2>3, <1>1, SizeType
  <2>9. QED BY <2>2, <2>4, <2>5, <2>6, <2>8
<1>4. Nat \subseteq S
  <2> HIDE DEF S
  <2>1. QED BY <1>2, <1>3, Induction
<1>5. QED BY <1>1, <1>4

LEMMA LengthType == ASSUME NEW s \in Seq(CacheEntries) PROVE Length(s) \in Nat
<1>1. PICK sum : Sums(sum, s) /\ Length(s) = sum[Len(s)] BY LengthIsSum
<1>2. Len(s) \in Nat OBVIOUS
<1>3. QED BY <1>1, <1>2 DEF Sums

LEMMA LengthOfConcat ==
  ASSUME NEW s \in Seq(CacheEntries), NEW t \in Seq(CacheEntries)
  PROVE  Length(s \o t) = Length(s) + Length(t)
<1> DEFINE u == s \o t
<1>1. /\ u \in Seq(CacheEntries) /\ Len(u) = Len(s) + Len(t) /\ Len(s) \in Nat /\ Len(t) \in Nat
      /\ \A i \in 1..Len(s) : u[i] = s[i]
      /\ \A i \in 1..Len(t) : u[Len(s) + i] = t[i]
  OBVIOUS
<1> HIDE DEF u
<1>2. PICK f : Sums(f, u) /\ Length(u) = f[Len(u)] BY <1>1, LengthIsSum
<1>3. PICK g : Sums(g, s) /\ Length(s) = g[Len(s)] BY LengthIsSum
<1>4. PICK h : Sums(h, t) /\ Length(t) = h[Len(t)] BY LengthIsSum
<1>5. f[0 + Len(s)] = f[0] + g[Len(s)]
  <2>1. Follows(s, Len(s), u, 0) BY <1>1 DEF Follows
  <2>2. QED BY <2>1, <1>1, <1>2, <1>3, SumsShift
<1>6. f[Len(s) + Len(t)] = f[Len(s)] + h[Len(t)]
  <2>1. Len(s) + Len(t) <= Len(u) /\ Len(t) <= Len(t) BY <1>1
  <2>2. \A i \in 1..Len(t) : u[Len(s) + i] = t[i] BY <1>1
  <2>3. Follows(t, Len(t), u, Len(s)) BY <2>1, <2>2, <1>1 DEF Follows
  <2>4. QED BY <2>3, <1>1, <1>2, <1>4, SumsShift
<1>7. f[0] = 0 /\ g[Len(s)] \in Nat
  <2>1. f[0] = 0 BY <1>2 DEF Sums
  <2>2. QED BY <2>1, <1>3, LengthType
<1>8. f[Len(s)] = g[Len(s)] BY <1>1, <1>5, <1>7
<1>9. QED BY <1>1, <1>2, <1>3, <1>4, <1>6, <1>8 DEF u

LEMMA LengthOfOne ==
  ASSUME NEW e \in CacheEntries
  PROVE  Length(<<e>>) = SizeOf(e) /\ Length(<<>>) = 0
<1>1. <<e>> \in Seq(CacheEntries) /\ Len(<<e>>) = 1 /\ <<e>>[1] = e OBVIOUS
<1>2. <<>> \in Seq(CacheEntries) /\ Len(<<>>) = 0 OBVIOUS
<1>3. PICK f : Sums(f, <<e>>) /\ Length(<<e>>) = f[1] BY <1>1, LengthIsSum
<1>4. f[0] = 0 /\ f[1] = f[1 - 1] + SizeOf(<<e>>[1]) BY <1>1, <1>3 DEF Sums
<1>5. PICK g : Sums(g, <<>>) /\ Length(<<>>) = g[0]
  <2>1. PICK g : Sums(g, <<>>) /\ Length(<<>>) = g[Len(<<>>)] BY <1>2, LengthIsSum
  <2>2. QED BY <2>1, <1>2
<1>6. g[0] = 0 BY <1>5 DEF Sums
<1>7. SizeOf(e) \in Nat BY SizeType
<1>8. QED BY <1>1, <1>3, <1>4, <1>5, <1>6, <1>7

(* A list with the n first entries dropped.                                *)
LEMMA Dropped ==
  ASSUME NEW s \in Seq(CacheEntries), NEW n \in 0..Len(s)
  PROVE  /\ SubSeq(s, 1, n) \in Seq(CacheEntries) /\ SubSeq(s, n + 1, Len(s)) \in Seq(CacheEntries)
         /\ Len(SubSeq(s, n + 1, Len(s))) = Len(s) - n
         /\ \A i \in 1..(Len(s) - n) : SubSeq(s, n + 1, Len(s))[i] = s[n + i]
         /\ Length(s) = Length(SubSeq(s, 1, n)) + Length(SubSeq(s, n + 1, Len(s)))
<1> DEFINE p == SubSeq(s, 1, n)
<1> DEFINE q == SubSeq(s, n + 1, Len(s))
<1>1. /\ Len(s) \in Nat /\ n \in Nat /\ n <= Len(s)
      /\ p \in Seq(CacheEntries) /\ q \in Seq(CacheEntries) /\ Len(q) = Len(s) - n
      /\ \A i \in 1..(Len(s) - n) : q[i] = s[n + i]
  OBVIOUS
<1>2. p \o q = s
  <2>1. n \in (1 - 1)..Len(s) /\ 1 \in 1..(Len(s) + 1) /\ Len(s) \in n..Len(s) BY <1>1
  <2>2. QED BY <2>1, ConcatAdjacentSubSeq, SubSeqFull
<1> HIDE DEF p, q
<1>3. QED BY <1>1, <1>2, LengthOfConcat DEF p, q

(***************************************************************************)
(* The cache and the requests.                                             *)
(***************************************************************************)
Requests ==
  [phase : {"asks", "reads", "ended"}, page : Urls \cup {"none"}, sends : BOOLEAN,
   cached : Bodies \cup {NoBody}, hops : Nat]

(* No body is of a later version than its page.                            *)
Past(body) == body \in Bodies => body.version <= changed[body.page]

(* A request under way is for a page, sends validators only of a body, and *)
(* holds the body that it reads.                                           *)
RequestOK(r) ==
  /\ r.phase # "ended" => r.page \in Urls
  /\ r.phase = "reads" => r.cached \in Bodies
  /\ r.sends => r.cached # NoBody
  /\ Past(r.cached)

PagesOK ==
  /\ changed \in [Urls -> Nat] /\ changes \in Nat
  /\ \A u \in Urls : changed[u] <= changes
RequestsOK == request \in [Urls -> Requests] /\ \A u \in Urls : RequestOK(request[u])
CacheOK ==
  /\ cache \in Seq(CacheEntries) /\ \A i \in DOMAIN cache : Past(cache[i].body)
  /\ bytes \in Nat /\ CacheCounted
ClientInv == PagesOK /\ RequestsOK /\ CacheOK /\ NotModifiedIsCurrent

FeedInv ==
  /\ feed \in [Docs -> {"idle", "waiting", "asking"}] /\ blocked \in Nat
  /\ IsFiniteSet(Asking) /\ Cardinality(Asking) <= FeedRequests
  /\ blocked # 0 => Cardinality(Asking) < FeedRequests
  /\ told \subseteq Nat /\ \A delay \in told : delay <= blocked

(* No URL has two entries.                                                 *)
Distinct(s) == \A i, j \in DOMAIN s : s[i].url = s[j].url => i = j

(* r is what is left of s without its entry k.                             *)
Lacks(r, s, k) ==
  /\ r \in Seq(CacheEntries) /\ Len(r) = Len(s) - 1
  /\ \A i \in 1..(Len(s) - 1) : r[i] = IF i < k THEN s[i] ELSE s[i + 1]
  /\ Length(s) = Length(r) + SizeOf(s[k])

LEMMA TakenOut ==
  ASSUME NEW s \in Seq(CacheEntries), NEW k \in 1..Len(s)
  PROVE  Lacks(RemoveAt(s, k), s, k)
<1> DEFINE p == SubSeq(s, 1, k - 1)
<1> DEFINE q == SubSeq(s, k + 1, Len(s))
<1> DEFINE e == s[k]
<1>1. /\ Len(s) \in Nat /\ k \in Nat /\ e \in CacheEntries /\ k - 1 \in 0..Len(s) /\ (k - 1) + 1 = k
      /\ <<e>> \in Seq(CacheEntries)
  OBVIOUS
<1>2. /\ p \in Seq(CacheEntries) /\ Len(p) = k - 1
      /\ \A i \in 1..(k - 1) : p[i] = s[i]
  OBVIOUS
<1>3. /\ q \in Seq(CacheEntries) /\ Len(q) = Len(s) - k
      /\ \A i \in 1..(Len(s) - k) : q[i] = s[k + i]
  <2>1. k \in 0..Len(s) BY <1>1
  <2>2. QED BY <2>1, Dropped, Zenon
<1>4. Length(s) = Length(p) + Length(SubSeq(s, k, Len(s))) BY <1>1, Dropped
<1>5. SubSeq(s, k, Len(s)) = <<e>> \o q
  <2>1. k \in 1..Len(s) /\ Len(s) \in k..Len(s) BY <1>1
  <2>2. QED BY <2>1, SubSeqRecursiveFirst
<1> HIDE DEF p, q, e
<1>6. Length(<<e>> \o q) = SizeOf(e) + Length(q) BY <1>1, <1>3, LengthOfConcat, LengthOfOne
<1>7. Length(p \o q) = Length(p) + Length(q) BY <1>2, <1>3, LengthOfConcat
<1>8. Length(p) \in Nat /\ Length(q) \in Nat /\ SizeOf(e) \in Nat BY <1>1, <1>2, <1>3, LengthType, SizeType
<1>9. Length(s) = Length(p \o q) + SizeOf(e) BY <1>4, <1>5, <1>6, <1>7, <1>8
<1> DEFINE r == p \o q
<1>10. /\ r \in Seq(CacheEntries) /\ Len(r) = Len(s) - 1
       /\ \A i \in 1..(Len(s) - 1) : r[i] = IF i <= k - 1 THEN p[i] ELSE q[i - (k - 1)]
  <2>1. Len(p) + Len(q) = Len(s) - 1 BY <1>1, <1>2, <1>3
  <2>2. /\ p \o q \in Seq(CacheEntries) /\ Len(p \o q) = Len(p) + Len(q)
        /\ \A i \in 1..(Len(p) + Len(q)) : (p \o q)[i] = IF i <= Len(p) THEN p[i] ELSE q[i - Len(p)]
    BY <1>2, <1>3, ConcatProperties
  <2>3. QED BY <2>1, <2>2, <1>2
<1> HIDE DEF r
<1>11. ASSUME NEW i \in 1..(Len(s) - 1) PROVE r[i] = IF i < k THEN s[i] ELSE s[i + 1]
  <2>1. CASE i < k
    <3>1. i \in 1..(k - 1) /\ i <= k - 1 BY <2>1, <1>1
    <3>2. QED BY <3>1, <2>1, <1>2, <1>10
  <2>2. CASE ~(i < k)
    <3>1. ~(i <= k - 1) /\ i - (k - 1) \in 1..(Len(s) - k) /\ k + (i - (k - 1)) = i + 1
      BY <2>2, <1>1
    <3>2. r[i] = q[i - (k - 1)] BY <3>1, <1>10
    <3>3. q[i - (k - 1)] = s[k + (i - (k - 1))] BY <3>1, <1>3
    <3>4. QED BY <2>2, <3>1, <3>2, <3>3
  <2>3. QED BY <2>1, <2>2
<1>12. RemoveAt(s, k) = r BY DEF RemoveAt, p, q, r
<1>13. QED BY <1>9, <1>11, <1>12, <1>10 DEF e, r, Lacks

(* The entries of other URLs, and that of a URL.                           *)
LEMMA OthersKept ==
  ASSUME CacheOK, NEW u \in Urls
  PROVE  /\ Other(u) \in Seq(CacheEntries) /\ EntryOf(u) \in Seq(CacheEntries)
         /\ Len(Other(u)) + Len(EntryOf(u)) = Len(cache)
         /\ Length(Other(u)) + Length(EntryOf(u)) = Length(cache)
         /\ \A i \in DOMAIN Other(u) : Other(u)[i].url # u /\ Past(Other(u)[i].body)
         /\ Distinct(Other(u))
         /\ EntryOf(u) # <<>> =>
              /\ Len(EntryOf(u)) = 1 /\ EntryOf(u) = <<EntryOf(u)[1]>>
              /\ EntryOf(u)[1] \in CacheEntries
              /\ EntryOf(u)[1].url = u /\ Past(EntryOf(u)[1].body)
<1>1. /\ cache \in Seq(CacheEntries) /\ Len(cache) \in Nat /\ DOMAIN cache = 1..Len(cache)
      /\ \A i \in 1..Len(cache) : Past(cache[i].body)
      /\ \A i, j \in 1..Len(cache) : cache[i].url = cache[j].url => i = j
  BY DEF CacheOK, CacheCounted
<1>2. CASE ~HasEntry(u)
  <2>1. /\ Other(u) = cache /\ EntryOf(u) = <<>>
        /\ \A i \in 1..Len(cache) : cache[i].url # u
    BY <1>1, <1>2 DEF Other, EntryOf, HasEntry
  <2>2. /\ <<>> \in Seq(CacheEntries) /\ Len(<<>>) = 0 /\ Length(<<>>) = 0 /\ Length(cache) \in Nat
    <3>1. <<>> \in Seq(CacheEntries) /\ Len(<<>>) = 0 OBVIOUS
    <3>2. PICK sum : Sums(sum, <<>>) /\ Length(<<>>) = sum[Len(<<>>)] BY <3>1, LengthIsSum
    <3>3. QED BY <3>1, <3>2, <1>1, LengthType DEF Sums
  <2>3. QED BY <2>1, <2>2, <1>1 DEF Distinct
<1>3. CASE HasEntry(u)
  <2> DEFINE k == Place(u)
  <2>1. k \in 1..Len(cache) /\ cache[k].url = u BY <1>1, <1>3 DEF HasEntry, Place
  <2>2. Other(u) = RemoveAt(cache, k) /\ EntryOf(u) = <<cache[k]>> BY <1>3 DEF Other, EntryOf
  <2> HIDE DEF k
  <2>3. /\ Other(u) \in Seq(CacheEntries) /\ Len(Other(u)) = Len(cache) - 1
        /\ \A i \in 1..(Len(cache) - 1) : Other(u)[i] = IF i < k THEN cache[i] ELSE cache[i + 1]
        /\ Length(cache) = Length(Other(u)) + SizeOf(cache[k])
    <3>1. Lacks(Other(u), cache, k) BY <1>1, <2>1, <2>2, TakenOut
    <3>2. QED BY <3>1 DEF Lacks
  <2>4. cache[k] \in CacheEntries /\ Past(cache[k].body) BY <1>1, <2>1
  <2>5. /\ EntryOf(u) \in Seq(CacheEntries) /\ Len(EntryOf(u)) = 1 /\ EntryOf(u)[1] = cache[k]
        /\ Length(EntryOf(u)) = SizeOf(cache[k])
    BY <2>2, <2>4, LengthOfOne
  <2>6. DOMAIN Other(u) = 1..(Len(cache) - 1) BY <2>3, <1>1
  <2>7. ASSUME NEW i \in 1..(Len(cache) - 1)
        PROVE  Other(u)[i].url # u /\ Past(Other(u)[i].body)
    <3>1. CASE i < k
      <4>1. i \in 1..Len(cache) /\ i # k /\ Other(u)[i] = cache[i] BY <3>1, <2>1, <2>3, <1>1
      <4>2. QED BY <4>1, <1>1, <2>1
    <3>2. CASE ~(i < k)
      <4>1. i + 1 \in 1..Len(cache) /\ i + 1 # k /\ Other(u)[i] = cache[i + 1] BY <3>2, <2>1, <2>3, <1>1
      <4>2. QED BY <4>1, <1>1, <2>1
    <3>3. QED BY <3>1, <3>2
  <2>8. ASSUME NEW i \in 1..(Len(cache) - 1), NEW j \in 1..(Len(cache) - 1),
               Other(u)[i].url = Other(u)[j].url
        PROVE  i = j
    <3> DEFINE at(n) == IF n < k THEN n ELSE n + 1
    <3>1. /\ at(i) \in 1..Len(cache) /\ at(j) \in 1..Len(cache)
          /\ Other(u)[i] = cache[at(i)] /\ Other(u)[j] = cache[at(j)]
      BY <1>1, <2>1, <2>3
    <3>2. at(i) = at(j)
      <4> HIDE DEF at
      <4>1. QED BY <3>1, <2>8, <1>1
    <3>3. QED BY <3>2, <2>1
  <2>9. Distinct(Other(u)) BY <2>6, <2>8 DEF Distinct
  <2>10. Length(Other(u)) \in Nat /\ SizeOf(cache[k]) \in Nat BY <2>3, <2>4, LengthType, SizeType
  <2>11. QED BY <2>1, <2>2, <2>3, <2>4, <2>5, <2>6, <2>7, <2>9, <2>10, <1>1
<1>4. QED BY <1>2, <1>3

(* A list that the cache may hold.                                         *)
Keeps(s) == s \in Seq(CacheEntries) /\ Distinct(s) /\ \A i \in DOMAIN s : Past(s[i].body)

LEMMA CacheKept ==
  ASSUME Keeps(cache)', bytes' \in Nat, bytes' = Length(cache'), bytes' <= MaxBytes, Len(cache') <= MaxEntries
  PROVE  CacheOK'
BY DEF CacheOK, CacheCounted, Keeps, Distinct

LEMMA Added ==
  ASSUME NEW s, Keeps(s), NEW e \in CacheEntries, Past(e.body),
         \A i \in DOMAIN s : s[i].url # e.url
  PROVE  /\ Keeps(Append(s, e)) /\ Append(s, e) = s \o <<e>>
         /\ Len(Append(s, e)) = Len(s) + 1
         /\ Length(Append(s, e)) = Length(s) + SizeOf(e)
<1> DEFINE t == Append(s, e)
<1>1. s \in Seq(CacheEntries) /\ <<e>> \in Seq(CacheEntries) BY DEF Keeps
<1>2. /\ t \in Seq(CacheEntries) /\ Len(t) = Len(s) + 1 /\ Len(s) \in Nat
      /\ DOMAIN s = 1..Len(s) /\ DOMAIN t = 1..(Len(s) + 1)
      /\ t[Len(s) + 1] = e /\ \A i \in 1..Len(s) : t[i] = s[i]
  BY <1>1
<1>3. t = s \o <<e>> BY <1>1, AppendIsConcat
<1> HIDE DEF t
<1>4. Length(t) = Length(s) + SizeOf(e) BY <1>1, <1>3, LengthOfConcat, LengthOfOne
<1>5. ASSUME NEW i \in DOMAIN t, NEW j \in DOMAIN t, t[i].url = t[j].url PROVE i = j
  <2>1. CASE i = Len(s) + 1 /\ j = Len(s) + 1 BY <2>1
  <2>2. CASE i \in 1..Len(s) /\ j = Len(s) + 1 BY <2>2, <1>2, <1>5
  <2>3. CASE i = Len(s) + 1 /\ j \in 1..Len(s) BY <2>3, <1>2, <1>5
  <2>4. CASE i \in 1..Len(s) /\ j \in 1..Len(s) BY <2>4, <1>2, <1>5 DEF Keeps, Distinct
  <2>5. QED BY <2>1, <2>2, <2>3, <2>4, <1>2
<1>6. ASSUME NEW i \in DOMAIN t PROVE Past(t[i].body)
  <2>1. CASE i = Len(s) + 1 BY <2>1, <1>2
  <2>2. CASE i \in 1..Len(s) BY <2>2, <1>2 DEF Keeps
  <2>3. QED BY <2>1, <2>2, <1>2
<1>7. Keeps(t) BY <1>2, <1>5, <1>6 DEF Keeps, Distinct
<1>8. QED BY <1>2, <1>3, <1>4, <1>7 DEF t

(* As few of the oldest entries are dropped as the limits allow.           *)
LEMMA DropsFit ==
  ASSUME NEW s \in Seq(CacheEntries)
  PROVE  /\ Drops(s, Length(s)) \in 0..Len(s)
         /\ Len(s) - Drops(s, Length(s)) <= MaxEntries
         /\ Length(s) <= Length(SubSeq(s, 1, Drops(s, Length(s)))) + MaxBytes
<1> DEFINE fits(k) == /\ Len(s) - k <= MaxEntries
                      /\ Length(s) <= Length(SubSeq(s, 1, k)) + MaxBytes
<1> DEFINE T == {n \in 0..Len(s) : fits(n) \/ n = Len(s)}
<1> DEFINE P(n) == (fits(n) \/ n = Len(s)) /\ \A k \in 0..(n - 1) : ~fits(k)
<1>1. Len(s) \in Nat OBVIOUS
<1>2. PICK n \in T : \A k \in T : n <= k
  <2>1. T \in SUBSET Nat /\ Len(s) \in T BY <1>1
  <2> HIDE DEF T
  <2>2. QED BY <2>1, LeastNat
<1>3. n \in 0..Len(s) /\ P(n)
  <2>1. ASSUME NEW k \in 0..(n - 1), fits(k) PROVE FALSE
    <3>1. k \in 0..Len(s) /\ ~(n <= k) BY <1>1, <2>1
    <3>2. k \in T BY <3>1, <2>1
    <3>3. QED BY <3>1, <3>2, <1>2
  <2>2. QED BY <2>1
<1> DEFINE d == CHOOSE m \in 0..Len(s) : P(m)
<1>4. Drops(s, Length(s)) = d BY DEF Drops
<1>5. d \in 0..Len(s) /\ P(d)
  <2> HIDE DEF P
  <2>1. QED BY <1>3
<1> HIDE DEF d
<1>6. d = Len(s) => fits(d)
  <2>1. SubSeq(s, 1, Len(s)) = s BY SubSeqFull
  <2>2. Length(s) \in Nat BY LengthType
  <2>3. MaxEntries \in Nat /\ MaxBytes \in Nat BY LimitsAssumption
  <2>4. Len(s) - Len(s) <= MaxEntries BY <2>3, <1>1
  <2>5. Length(SubSeq(s, 1, Len(s))) = Length(s) BY <2>1, Zenon
  <2>6. Length(s) <= Length(SubSeq(s, 1, Len(s))) + MaxBytes BY <2>2, <2>3, <2>5
  <2>7. QED BY <2>4, <2>6
<1>7. fits(d)
  <2> HIDE DEF fits
  <2>1. QED BY <1>5, <1>6
<1>8. QED BY <1>4, <1>5, <1>7

(* What a response leaves of the cache.                                    *)
LEMMA RememberInv ==
  ASSUME CacheOK, changed' = changed, NEW u \in Urls, NEW body \in Bodies, Past(body), Remember(u, body)
  PROVE  CacheOK'
<1> DEFINE e == Entry(u, body)
<1> DEFINE s == Append(Other(u), e)
<1> DEFINE count == CountWithout(u) + Size[body.page]
<1> DEFINE n == Drops(s, count)
<1>1. cache' = SubSeq(s, n + 1, Len(s)) /\ bytes' = count - Length(SubSeq(s, 1, n))
  BY DEF Remember
<1>2. /\ e \in CacheEntries /\ e.url = u /\ e.body = body /\ SizeOf(e) = Size[body.page]
      /\ SizeOf(e) \in Nat
  <2>1. e \in CacheEntries /\ e.url = u /\ e.body = body BY DEF Entry, CacheEntries
  <2>2. QED BY <2>1, SizeType DEF SizeOf
<1>3. /\ Keeps(Other(u)) /\ \A i \in DOMAIN Other(u) : Other(u)[i].url # e.url
      /\ Length(Other(u)) + Length(EntryOf(u)) = Length(cache)
      /\ Length(Other(u)) \in Nat /\ Length(EntryOf(u)) \in Nat /\ bytes = Length(cache)
  BY <1>2, OthersKept, LengthType DEF Keeps, CacheOK, CacheCounted
<1> HIDE DEF e
<1>4. Keeps(s) /\ Length(s) = Length(Other(u)) + SizeOf(e) BY <1>2, <1>3, Added
<1>5. count = Length(s) BY <1>2, <1>3, <1>4 DEF CountWithout
<1> HIDE DEF s, count
<1>6. s \in Seq(CacheEntries) /\ Len(s) \in Nat /\ DOMAIN s = 1..Len(s) BY <1>4 DEF Keeps
<1>7. /\ n \in 0..Len(s) /\ Len(s) - n <= MaxEntries
      /\ Length(s) <= Length(SubSeq(s, 1, n)) + MaxBytes
  BY <1>5, <1>6, DropsFit
<1> HIDE DEF n
<1> DEFINE t == SubSeq(s, n + 1, Len(s))
<1>8. /\ t \in Seq(CacheEntries) /\ Len(t) = Len(s) - n /\ SubSeq(s, 1, n) \in Seq(CacheEntries)
      /\ \A i \in 1..(Len(s) - n) : t[i] = s[n + i]
      /\ Length(s) = Length(SubSeq(s, 1, n)) + Length(t)
  BY <1>6, <1>7, Dropped
<1> HIDE DEF t
<1>9. Keeps(t)
  <2>1. DOMAIN t = 1..(Len(s) - n) BY <1>6, <1>7, <1>8
  <2>2. \A i \in 1..(Len(s) - n) : n + i \in DOMAIN s BY <1>6, <1>7
  <2>3. ASSUME NEW i \in DOMAIN t, NEW j \in DOMAIN t, t[i].url = t[j].url PROVE i = j
    <3>1. s[n + i].url = s[n + j].url BY <2>1, <2>3, <1>8
    <3>2. n + i = n + j BY <3>1, <2>1, <2>2, <1>4 DEF Keeps, Distinct
    <3>3. QED BY <3>2, <2>1, <1>6, <1>7
  <2>4. \A i \in DOMAIN t : Past(t[i].body) BY <2>1, <2>2, <1>4, <1>8 DEF Keeps
  <2>5. QED BY <2>3, <2>4, <1>8 DEF Keeps, Distinct
<1>10. Length(t) \in Nat /\ Length(SubSeq(s, 1, n)) \in Nat BY <1>8, LengthType
<1>11. cache' = t /\ bytes' = Length(t) BY <1>1, <1>5, <1>8, <1>10 DEF t
<1>12. Length(t) <= MaxBytes /\ Len(t) <= MaxEntries
  BY <1>7, <1>8, <1>10, LimitsAssumption
<1>13. Keeps(cache)' BY <1>9, <1>11 DEF Keeps, Distinct, Past
<1>14. QED BY <1>10, <1>11, <1>12, <1>13, CacheKept

(* A document of the cache that is asked for moves to its end.             *)
LEMMA MovedInv ==
  ASSUME CacheOK, changed' = changed, bytes' = bytes, NEW u \in Urls, cache' = Other(u) \o EntryOf(u)
  PROVE  CacheOK'
<1>1. /\ Keeps(Other(u)) /\ Length(Other(u)) + Length(EntryOf(u)) = Length(cache)
      /\ Len(Other(u)) + Len(EntryOf(u)) = Len(cache)
      /\ Other(u) \in Seq(CacheEntries) /\ EntryOf(u) \in Seq(CacheEntries)
  BY OthersKept DEF Keeps
<1>2. Keeps(cache')
  <2>1. CASE EntryOf(u) = <<>>
    <3>1. cache' = Other(u) BY <1>1, <2>1, ConcatEmptySeq
    <3>2. QED BY <1>1, <3>1
  <2>2. CASE EntryOf(u) # <<>>
    <3> DEFINE e == EntryOf(u)[1]
    <3>1. /\ EntryOf(u) = <<e>> /\ e \in CacheEntries /\ Past(e.body)
          /\ \A i \in DOMAIN Other(u) : Other(u)[i].url # e.url
      BY <2>2, OthersKept
    <3> HIDE DEF e
    <3>2. QED BY <1>1, <3>1, Added
  <2>3. QED BY <2>1, <2>2
<1>3. Length(cache') = Length(cache) BY <1>1, LengthOfConcat
<1>4. Len(cache') = Len(cache) BY <1>1
<1>5. Keeps(cache)' BY <1>2 DEF Keeps, Distinct, Past
<1>6. /\ bytes' \in Nat /\ bytes' = Length(cache') /\ bytes' <= MaxBytes /\ Len(cache') <= MaxEntries
  BY <1>3, <1>4 DEF CacheOK, CacheCounted
<1>7. QED BY <1>5, <1>6, CacheKept

(***************************************************************************)
(* The steps of the client.                                                *)
(***************************************************************************)
(* The pages and the requests are as good after a step of one request.     *)
LEMMA RequestStep ==
  ASSUME PagesOK, RequestsOK, changed' = changed, changes' = changes,
         NEW u \in Urls, NEW r \in Requests, RequestOK(r), To(u, r)
  PROVE  PagesOK' /\ RequestsOK'
<1>1. PagesOK' BY DEF PagesOK
<1>2. request' \in [Urls -> Requests] /\ \A v \in Urls : request'[v] = IF v = u THEN r ELSE request[v]
  BY DEF To, RequestsOK
<1>3. ASSUME NEW v \in Urls PROVE RequestOK(request[v])'
  <2>1. RequestOK(request'[v]) BY <1>2, <1>3 DEF RequestsOK
  <2>2. QED BY <2>1 DEF RequestOK, Past
<1>4. QED BY <1>1, <1>2, <1>3 DEF RequestsOK

LEMMA EndedOK == ASSUME PagesOK PROVE Ended \in Requests /\ RequestOK(Ended)
<1>1. Ended \in Requests BY DEF Ended, Request, Requests
<1>2. Past(NoBody)
  <2>1. ASSUME NoBody \in Bodies PROVE NoBody.version <= changed[NoBody.page]
    BY <2>1 DEF NoBody, Bodies, PagesOK
  <2>2. QED BY <2>1 DEF Past
<1>3. RequestOK(Ended) BY <1>2 DEF Ended, Request, RequestOK
<1>4. QED BY <1>1, <1>3

(* A step of one request after which nothing is reused and the cache is as *)
(* it was.                                                                 *)
LEMMA PlainStep ==
  ASSUME ClientInv, changed' = changed, changes' = changes, cache' = cache, bytes' = bytes,
         reused' = NothingReused, NEW u \in Urls, NEW r \in Requests, RequestOK(r), To(u, r)
  PROVE  ClientInv'
<1>1. PagesOK' /\ RequestsOK' BY RequestStep DEF ClientInv
<1>2. CacheOK' BY DEF ClientInv, CacheOK, CacheCounted, Past
<1>3. NotModifiedIsCurrent' BY DEF NotModifiedIsCurrent
<1>4. QED BY <1>1, <1>2, <1>3 DEF ClientInv

LEMMA PageChangesInv == ASSUME ClientInv, NEW u \in Urls, PageChanges(u) PROVE ClientInv'
<1>1. /\ changes' = changes + 1 /\ changed' = [changed EXCEPT ![u] = changes + 1]
      /\ reused' = NothingReused /\ request' = request /\ cache' = cache /\ bytes' = bytes
  BY DEF PageChanges
<1>2. /\ changed \in [Urls -> Nat] /\ changes \in Nat /\ \A v \in Urls : changed[v] <= changes
  BY DEF ClientInv, PagesOK
<1>3. PagesOK' BY <1>1, <1>2 DEF PagesOK
<1>4. \A v \in Urls : changed[v] <= changed'[v] BY <1>1, <1>2
<1>5. ASSUME NEW body, Past(body) PROVE Past(body)'
  <2>1. SUFFICES ASSUME body \in Bodies PROVE body.version <= changed'[body.page] BY DEF Past
  <2>2. body.version \in Nat /\ body.page \in Urls /\ body.version <= changed[body.page]
    BY <1>5, <2>1 DEF Past, Bodies
  <2>3. changed[body.page] \in Nat /\ changed'[body.page] \in Nat BY <2>2, <1>2, <1>3 DEF PagesOK
  <2>4. QED BY <2>2, <2>3, <1>4
<1>6. RequestsOK'
  <2>1. ASSUME NEW v \in Urls PROVE RequestOK(request[v])'
    <3>1. RequestOK(request[v]) BY DEF ClientInv, RequestsOK
    <3>2. PICK cached : cached = request[v].cached OBVIOUS
    <3>3. Past(cached)' BY <3>1, <3>2, <1>5 DEF RequestOK
    <3>4. QED BY <3>1, <3>2, <3>3, <1>1 DEF RequestOK
  <2>2. QED BY <2>1, <1>1 DEF ClientInv, RequestsOK
<1>7. CacheOK'
  <2>1. ASSUME NEW i \in DOMAIN cache PROVE Past(cache[i].body)'
    <3>1. PICK body : body = cache[i].body OBVIOUS
    <3>2. Past(body)' BY <3>1, <1>5 DEF ClientInv, CacheOK
    <3>3. QED BY <3>1, <3>2, <1>1
  <2>2. QED BY <2>1, <1>1 DEF ClientInv, CacheOK, CacheCounted
<1>8. NotModifiedIsCurrent' BY <1>1 DEF NotModifiedIsCurrent
<1>9. QED BY <1>3, <1>6, <1>7, <1>8 DEF ClientInv

(* The body that the cache has for a URL.                                  *)
LEMMA CachedBody ==
  ASSUME ClientInv, NEW u \in Urls
  PROVE  Cached(u) \in Bodies \cup {NoBody} /\ Past(Cached(u))
<1>1. CASE EntryOf(u) = <<>>
  <2>1. Cached(u) = NoBody BY <1>1 DEF Cached
  <2>2. Past(NoBody) BY EndedOK DEF ClientInv, RequestOK, Ended, Request
  <2>3. QED BY <2>1, <2>2
<1>2. CASE EntryOf(u) # <<>>
  <2>1. /\ EntryOf(u) = <<EntryOf(u)[1]>> /\ EntryOf(u)[1] \in CacheEntries
        /\ Past(EntryOf(u)[1].body)
    BY <1>2, OthersKept DEF ClientInv
  <2>2. Head(EntryOf(u)) = EntryOf(u)[1] BY <2>1
  <2>3. Cached(u) = EntryOf(u)[1].body BY <1>2, <2>2 DEF Cached
  <2>4. QED BY <2>1, <2>3 DEF CacheEntries
<1>3. QED BY <1>1, <1>2

LEMMA GetInv == ASSUME ClientInv, NEW u \in Urls, Get(u) PROVE ClientInv'
<1> DEFINE r == Request("asks", u, Cached(u) # NoBody, Cached(u), 0)
<1>1. /\ To(u, r) /\ cache' = Other(u) \o EntryOf(u)
      /\ reused' = NothingReused /\ changed' = changed /\ changes' = changes /\ bytes' = bytes
  BY DEF Get
<1>2. Cached(u) \in Bodies \cup {NoBody} /\ Past(Cached(u)) BY CachedBody
<1>3. r \in Requests /\ RequestOK(r) BY <1>2 DEF Request, Requests, RequestOK
<1> HIDE DEF r
<1>4. PICK s : s = r OBVIOUS
<1>5. PagesOK' /\ RequestsOK' BY <1>1, <1>3, <1>4, RequestStep DEF ClientInv
<1>6. CacheOK' BY <1>1, MovedInv DEF ClientInv
<1>7. NotModifiedIsCurrent' BY <1>1 DEF NotModifiedIsCurrent
<1>8. QED BY <1>5, <1>6, <1>7 DEF ClientInv

(* A redirect to another host stops the validators.                        *)
LEMMA RedirectedInv ==
  ASSUME ClientInv, NEW u \in Urls, NEW page \in Urls, Redirected(u, page)
  PROVE  ClientInv'
<1>1. PICK old : old = request[u] OBVIOUS
<1> DEFINE hop == Request("asks", page, old.sends /\ Host[page] = Host[old.page], old.cached, old.hops + 1)
<1>2. /\ old.phase = "asks" /\ To(u, IF old.hops = MaxHops THEN Ended ELSE hop)
      /\ reused' = NothingReused /\ changed' = changed /\ changes' = changes
      /\ cache' = cache /\ bytes' = bytes
  BY <1>1 DEF Redirected
<1>3. old \in Requests /\ RequestOK(old) BY <1>1 DEF ClientInv, RequestsOK
<1>4. hop \in Requests /\ RequestOK(hop)
  BY <1>3 DEF Request, Requests, RequestOK
<1>5. Ended \in Requests /\ RequestOK(Ended) BY EndedOK DEF ClientInv
<1> HIDE DEF hop
<1>6. CASE old.hops = MaxHops BY <1>2, <1>5, <1>6, PlainStep
<1>7. CASE old.hops # MaxHops
  <2>1. PICK r : r = hop OBVIOUS
  <2>2. QED BY <1>2, <1>4, <1>7, <2>1, PlainStep
<1>8. QED BY <1>6, <1>7

(* The answer 304: the validators that were sent are those of a body, and  *)
(* a body of this page that has not changed since is the page's.           *)
LEMMA NotModifiedInv == ASSUME ClientInv, NEW u \in Urls, NotModified(u) PROVE ClientInv'
<1>1. PICK r : r = request[u] OBVIOUS
<1>2. /\ r.phase = "asks" /\ r.sends /\ Matches(r.cached, r.page) /\ To(u, Ended)
      /\ reused' = [body |-> r.cached, said |-> Body(r.page, changed[r.page])]
      /\ changed' = changed /\ changes' = changes /\ cache' = cache /\ bytes' = bytes
  BY <1>1 DEF NotModified, Reused
<1>3. r \in Requests /\ RequestOK(r) BY <1>1 DEF ClientInv, RequestsOK
<1>4. r.cached # NoBody /\ r.cached \in Bodies /\ r.page \in Urls /\ Past(r.cached)
  BY <1>2, <1>3 DEF RequestOK, Requests
<1>5. ASSUME r.cached.page = r.page PROVE r.cached = Body(r.page, changed[r.page])
  <2>1. CASE r.cached = Body(r.page, changed[r.page]) BY <2>1
  <2>2. CASE changed[r.page] <= r.cached.version
    <3>1. r.cached.version \in Nat /\ changed[r.page] \in Nat /\ r.cached.version <= changed[r.page]
      BY <1>4, <1>5 DEF ClientInv, PagesOK, Past, Bodies
    <3>2. r.cached.version = changed[r.page] BY <2>2, <3>1
    <3>3. r.cached = [page |-> r.cached.page, version |-> r.cached.version] BY <1>4 DEF Bodies
    <3>4. QED BY <1>5, <3>2, <3>3 DEF Body
  <2>3. QED BY <1>2, <2>1, <2>2 DEF Matches
<1>6. NotModifiedIsCurrent'
  <2>1. reused'.body = r.cached /\ reused'.said = Body(r.page, changed[r.page]) BY <1>2
  <2>2. reused'.said.page = r.page BY <2>1 DEF Body
  <2>3. QED BY <1>4, <1>5, <2>1, <2>2 DEF NotModifiedIsCurrent
<1>7. PagesOK' /\ RequestsOK' BY <1>2, EndedOK, RequestStep DEF ClientInv
<1>8. CacheOK' BY <1>2 DEF ClientInv, CacheOK, CacheCounted, Past
<1>9. QED BY <1>6, <1>7, <1>8 DEF ClientInv

LEMMA AnswersInv == ASSUME ClientInv, NEW u \in Urls, Answers(u) PROVE ClientInv'
<1>1. PICK old : old = request[u] OBVIOUS
<1>2. PICK body : body = Body(old.page, changed[old.page]) OBVIOUS
<1>3. /\ old.phase = "asks" /\ To(u, Request("reads", old.page, FALSE, body, old.hops))
      /\ reused' = NothingReused /\ changed' = changed /\ changes' = changes
      /\ cache' = cache /\ bytes' = bytes
  BY <1>1, <1>2 DEF Answers
<1>4. old \in Requests /\ RequestOK(old) BY <1>1 DEF ClientInv, RequestsOK
<1>5. old.page \in Urls BY <1>3, <1>4 DEF RequestOK
<1>6. body \in Bodies /\ Past(body)
  <2>1. changed[old.page] \in Nat BY <1>5 DEF ClientInv, PagesOK
  <2>2. QED BY <1>2, <1>5, <2>1 DEF Body, Bodies, Past
<1> DEFINE r == Request("reads", old.page, FALSE, body, old.hops)
<1>7. r \in Requests /\ RequestOK(r) BY <1>4, <1>5, <1>6 DEF Request, Requests, RequestOK
<1> HIDE DEF r
<1>8. To(u, r) BY <1>3 DEF r
<1>9. QED BY <1>3, <1>7, <1>8, PlainStep

LEMMA ReceivedInv == ASSUME ClientInv, NEW u \in Urls, Received(u) PROVE ClientInv'
<1>1. PICK body : body = request[u].cached OBVIOUS
<1>2. /\ request[u].phase = "reads" /\ To(u, Ended) /\ Remember(u, body)
      /\ reused' = NothingReused /\ changed' = changed /\ changes' = changes
  BY <1>1 DEF Received
<1>3. body \in Bodies /\ Past(body) BY <1>1, <1>2 DEF ClientInv, RequestsOK, RequestOK
<1>4. CacheOK' BY <1>2, <1>3, RememberInv DEF ClientInv
<1>5. PagesOK' /\ RequestsOK' BY <1>2, EndedOK, RequestStep DEF ClientInv
<1>6. NotModifiedIsCurrent' BY <1>2 DEF NotModifiedIsCurrent
<1>7. QED BY <1>4, <1>5, <1>6 DEF ClientInv

LEMMA FailsInv == ASSUME ClientInv, NEW u \in Urls, Fails(u) PROVE ClientInv'
<1>1. Ended \in Requests /\ RequestOK(Ended) BY EndedOK DEF ClientInv
<1>2. QED BY <1>1, PlainStep DEF Fails

LEMMA CancelledInv == ASSUME ClientInv, Cancelled PROVE ClientInv'
<1>1. /\ request' = [u \in Urls |-> IF u \in Asking THEN Ended ELSE request[u]]
      /\ reused' = NothingReused /\ changed' = changed /\ changes' = changes
      /\ cache' = cache /\ bytes' = bytes
  BY DEF Cancelled
<1>2. Ended \in Requests /\ RequestOK(Ended) BY EndedOK DEF ClientInv
<1>3. RequestsOK'
  <2>1. request' \in [Urls -> Requests] BY <1>1, <1>2 DEF ClientInv, RequestsOK
  <2>2. ASSUME NEW u \in Urls PROVE RequestOK(request[u])'
    <3>1. request'[u] = Ended \/ request'[u] = request[u] BY <1>1
    <3>2. RequestOK(request'[u]) BY <3>1, <1>2 DEF ClientInv, RequestsOK
    <3>3. QED BY <3>2, <1>1 DEF RequestOK, Past
  <2>3. QED BY <2>1, <2>2 DEF RequestsOK
<1>4. PagesOK' BY <1>1 DEF ClientInv, PagesOK
<1>5. CacheOK' BY <1>1 DEF ClientInv, CacheOK, CacheCounted, Past
<1>6. NotModifiedIsCurrent' BY <1>1 DEF NotModifiedIsCurrent
<1>7. QED BY <1>3, <1>4, <1>5, <1>6 DEF ClientInv

LEMMA QuietInv == ASSUME ClientInv, UNCHANGED <<changed, changes, clientVars>> PROVE ClientInv'
BY DEF ClientInv, clientVars, PagesOK, RequestsOK, RequestOK, CacheOK, CacheCounted, NotModifiedIsCurrent, Past

LEMMA ClientInitInv == FetchInit => ClientInv
<1>1. SUFFICES ASSUME FetchInit PROVE ClientInv OBVIOUS
<1>2. /\ changed = [u \in Urls |-> 0] /\ changes = 0 /\ cache = <<>> /\ bytes = 0
      /\ request = [u \in Urls |-> Ended] /\ reused = NothingReused
  BY <1>1 DEF FetchInit
<1>3. PagesOK BY <1>2 DEF PagesOK
<1>4. RequestsOK BY <1>2, <1>3, EndedOK DEF RequestsOK
<1>5. CacheOK
  <2>1. cache \in Seq(CacheEntries) /\ Len(cache) = 0 /\ DOMAIN cache = {} BY <1>2
  <2>2. Length(cache) = 0
    <3>1. PICK sum : Sums(sum, <<>>) /\ Length(<<>>) = sum[Len(<<>>)] BY <1>2, <2>1, LengthIsSum
    <3>2. QED BY <3>1, <1>2, <2>1 DEF Sums
  <2>3. MaxEntries \in Nat /\ MaxBytes \in Nat BY LimitsAssumption
  <2>4. QED BY <1>2, <2>1, <2>2, <2>3 DEF CacheOK, CacheCounted
<1>6. NotModifiedIsCurrent BY <1>2 DEF NotModifiedIsCurrent
<1>7. QED BY <1>3, <1>4, <1>5, <1>6 DEF ClientInv

LEMMA ClientNextInv == ClientInv /\ [FetchNext]_fetchVars => ClientInv'
<1>1. SUFFICES ASSUME ClientInv, [FetchNext]_fetchVars PROVE ClientInv' OBVIOUS
<1>2. CASE UNCHANGED fetchVars BY <1>1, <1>2, QuietInv DEF fetchVars
<1>3. CASE \E u \in Urls : PageChanges(u) BY <1>1, <1>3, PageChangesInv
<1>4. CASE \E u \in Urls : Hop(u) /\ UNCHANGED feedVars
  BY <1>1, <1>4, AnswersInv, RedirectedInv DEF Hop
<1>5. CASE \E u \in Urls \ Docs : OtherFeed(u) /\ UNCHANGED feedVars
  BY <1>1, <1>5, GetInv, NotModifiedInv, ReceivedInv, FailsInv DEF OtherFeed
<1>6. CASE \E docs \in SUBSET Docs : Collect(docs) BY <1>1, <1>6, QuietInv DEF Collect
<1>7. ASSUME NEW d \in Docs, Ask(d) \/ Read(d) \/ NotRead(d) PROVE ClientInv'
  <2>1. d \in Urls BY UrlsAssumption
  <2>2. Get(d) \/ UNCHANGED <<changed, changes, clientVars>> \/ NotModified(d) \/ Received(d) \/ Fails(d)
    BY <1>7 DEF Ask, Read, NotRead
  <2>3. QED BY <1>1, <2>1, <2>2, GetInv, QuietInv, NotModifiedInv, ReceivedInv, FailsInv
<1>8. ASSUME NEW d \in Docs, NEW delay \in RetryAfters, Limited(d, delay) PROVE ClientInv'
  <2>1. d \in Urls /\ Fails(d) BY <1>8, UrlsAssumption DEF Limited
  <2>2. QED BY <1>1, <2>1, FailsInv
<1>9. CASE Cancelled BY <1>1, <1>9, CancelledInv
<1>10. QED BY <1>1, <1>2, <1>3, <1>4, <1>5, <1>6, <1>7, <1>8, <1>9 DEF FetchNext

LEMMA ClientInvariant == FetchSpec => []ClientInv
BY ClientInitInv, ClientNextInv, PTL DEF FetchSpec

(* A request answered 304 returns a body, and it is what the page has.     *)
THEOREM ReuseCorrect == FetchSpec => []NotModifiedIsCurrent
<1>1. ClientInv => NotModifiedIsCurrent BY DEF ClientInv
<1>2. QED BY <1>1, ClientInvariant, PTL

(* The cache counts the bytes it holds and keeps both limits.              *)
THEOREM CacheCorrect == FetchSpec => []CacheCounted
<1>1. ClientInv => CacheCounted BY DEF ClientInv, CacheOK
<1>2. QED BY <1>1, ClientInvariant, PTL

(***************************************************************************)
(* The documents of MeteoAlarm.  FeedInv: no more of them are asked for    *)
(* than their own semaphore admits, one fewer once the limit was met.      *)
(***************************************************************************)

(* A document that stops being asked for frees a place.                    *)
LEMMA PlaceFreed ==
  ASSUME FeedInv, NEW d \in Docs, feed[d] = "asking", Turn(d, "idle")
  PROVE  /\ feed' \in [Docs -> {"idle", "waiting", "asking"}]
         /\ Asking' \subseteq Asking
         /\ IsFiniteSet(Asking') /\ Cardinality(Asking') < FeedRequests
         /\ Cardinality(Asking') <= FeedRequests
<1>1. /\ feed \in [Docs -> {"idle", "waiting", "asking"}]
      /\ feed' = [feed EXCEPT ![d] = "idle"]
      /\ IsFiniteSet(Asking) /\ Cardinality(Asking) <= FeedRequests /\ FeedRequests \in Nat
  BY LimitsAssumption DEF FeedInv, Turn
<1>2. d \in Asking /\ Asking' = Asking \ {d} BY <1>1 DEF Asking
<1>3. /\ IsFiniteSet(Asking') /\ Cardinality(Asking') = Cardinality(Asking) - 1
      /\ Cardinality(Asking) \in Nat /\ Cardinality(Asking') \in Nat
  BY <1>1, <1>2, FS_RemoveElement, FS_CardinalityType
<1>4. QED BY <1>1, <1>2, <1>3

(* What a step may do to the feed while the limit stands.                  *)
Stops == blocked # 0 => Asking' \subseteq Asking

LEMMA FeedStep ==
  ASSUME FeedInv, [FetchNext]_fetchVars
  PROVE  FeedInv' /\ Stops
<1>1. /\ feed \in [Docs -> {"idle", "waiting", "asking"}] /\ blocked \in Nat
      /\ IsFiniteSet(Asking) /\ Cardinality(Asking) \in Nat /\ Cardinality(Asking) <= FeedRequests
      /\ FeedRequests \in Nat /\ told \subseteq Nat
  BY LimitsAssumption, FS_CardinalityType DEF FeedInv
<1>2. CASE UNCHANGED feedVars
  BY <1>2 DEF feedVars, FeedInv, Stops, Asking
<1>3. ASSUME NEW docs \in SUBSET Docs, Collect(docs) PROVE FeedInv' /\ Stops
  <2>1. /\ \A d \in Docs : feed[d] # "asking"
        /\ feed' = [d \in Docs |-> IF d \in docs THEN "waiting" ELSE "idle"]
        /\ blocked' = 0 /\ told' = {}
    BY <1>3 DEF Collect
  <2>2. Asking' = {} BY <2>1 DEF Asking
  <2>3. IsFiniteSet(Asking') /\ Cardinality(Asking') = 0 BY <2>2, FS_EmptySet
  <2>4. QED BY <2>1, <2>2, <2>3, <1>1 DEF FeedInv, Stops
<1>4. ASSUME NEW d \in Docs, Ask(d) PROVE FeedInv' /\ Stops
  <2>1. /\ feed[d] = "waiting" /\ Cardinality(Asking) < FeedRequests
        /\ blocked' = blocked /\ told' = told
    BY <1>4 DEF Ask
  <2>2. CASE MayAsk
    <3>1. blocked = 0 /\ feed' = [feed EXCEPT ![d] = "asking"] BY <1>4, <2>2 DEF Ask, MayAsk, Turn
    <3>2. Asking' = Asking \cup {d} /\ d \notin Asking BY <1>1, <2>1, <3>1 DEF Asking
    <3>3. IsFiniteSet(Asking') /\ Cardinality(Asking') = Cardinality(Asking) + 1
      BY <1>1, <3>2, FS_AddElement
    <3>4. Cardinality(Asking') <= FeedRequests BY <1>1, <2>1, <3>3
    <3>5. feed' \in [Docs -> {"idle", "waiting", "asking"}] BY <1>1, <3>1
    <3>6. QED BY <1>1, <2>1, <3>1, <3>3, <3>4, <3>5 DEF FeedInv, Stops
  <2>3. CASE ~MayAsk
    <3>1. feed' = [feed EXCEPT ![d] = "idle"] BY <1>4, <2>3 DEF Ask, Turn
    <3>2. Asking' = Asking /\ feed' \in [Docs -> {"idle", "waiting", "asking"}]
      BY <1>1, <2>1, <3>1 DEF Asking
    <3>3. QED BY <1>1, <2>1, <3>2 DEF FeedInv, Stops
  <2>4. QED BY <2>2, <2>3
<1>5. ASSUME NEW d \in Docs, Read(d) \/ NotRead(d) PROVE FeedInv' /\ Stops
  <2>1. feed[d] = "asking" /\ Turn(d, "idle") /\ blocked' = blocked /\ told' = told
    BY <1>5 DEF Read, NotRead
  <2>2. /\ feed' \in [Docs -> {"idle", "waiting", "asking"}] /\ Asking' \subseteq Asking
        /\ IsFiniteSet(Asking') /\ Cardinality(Asking') < FeedRequests
        /\ Cardinality(Asking') <= FeedRequests
    BY <2>1, PlaceFreed
  <2>3. QED BY <1>1, <2>1, <2>2 DEF FeedInv, Stops
<1>6. ASSUME NEW d \in Docs, NEW delay \in RetryAfters, Limited(d, delay) PROVE FeedInv' /\ Stops
  <2>1. /\ feed[d] = "asking" /\ Turn(d, "idle")
        /\ blocked' = Longer(blocked, delay) /\ told' = told \cup {delay}
    BY <1>6 DEF Limited
  <2>2. /\ feed' \in [Docs -> {"idle", "waiting", "asking"}] /\ Asking' \subseteq Asking
        /\ IsFiniteSet(Asking') /\ Cardinality(Asking') < FeedRequests
        /\ Cardinality(Asking') <= FeedRequests
    BY <2>1, PlaceFreed
  <2>3. delay \in Nat BY LimitsAssumption
  <2>4. blocked' \in Nat /\ blocked <= blocked' /\ delay <= blocked'
    BY <1>1, <2>1, <2>3 DEF Longer
  <2>5. told' \subseteq Nat /\ \A t \in told' : t <= blocked'
    <3>1. ASSUME NEW t \in told' PROVE t \in Nat /\ t <= blocked'
      <4>1. CASE t = delay BY <4>1, <2>3, <2>4
      <4>2. CASE t \in told
        <5>1. t \in Nat /\ t <= blocked BY <4>2, <1>1 DEF FeedInv
        <5>2. QED BY <5>1, <1>1, <2>4
      <4>3. QED BY <4>1, <4>2, <2>1
    <3>2. QED BY <3>1
  <2>6. QED BY <2>2, <2>4, <2>5 DEF FeedInv, Stops
<1>7. CASE Cancelled
  <2>1. feed' = [d \in Docs |-> "idle"] /\ blocked' = 0 /\ told' = {} BY <1>7 DEF Cancelled
  <2>2. Asking' = {} BY <2>1 DEF Asking
  <2>3. IsFiniteSet(Asking') /\ Cardinality(Asking') = 0 BY <2>2, FS_EmptySet
  <2>4. QED BY <2>1, <2>2, <2>3, <1>1 DEF FeedInv, Stops
<1>8. CASE \E u \in Urls : PageChanges(u)
  <2>1. UNCHANGED feedVars BY <1>8 DEF PageChanges
  <2>2. QED BY <2>1, <1>2
<1>9. CASE UNCHANGED fetchVars BY <1>2, <1>9 DEF fetchVars
<1>10. QED BY <1>2, <1>3, <1>4, <1>5, <1>6, <1>7, <1>8, <1>9 DEF FetchNext

LEMMA FeedInitInv == FetchInit => FeedInv
<1>1. SUFFICES ASSUME FetchInit PROVE FeedInv OBVIOUS
<1>2. Asking = {} BY <1>1 DEF FetchInit, Asking
<1>3. IsFiniteSet(Asking) /\ Cardinality(Asking) = 0 /\ FeedRequests \in Nat
  BY <1>2, FS_EmptySet, LimitsAssumption
<1>4. QED BY <1>1, <1>3 DEF FetchInit, FeedInv

LEMMA FeedInvariant == FetchSpec => []FeedInv
<1>1. FeedInv /\ [FetchNext]_fetchVars => FeedInv' BY FeedStep
<1>2. QED BY <1>1, FeedInitInv, PTL DEF FetchSpec

(* After a 429 no document is asked for, one at most is still under way,   *)
(* and the longest delay is told.                                          *)
THEOREM LimitCorrect == FetchSpec => LimitStopsFeed
<1> DEFINE Step ==
      /\ blocked # 0 => Asking' \subseteq Asking /\ Cardinality(Asking) < FeedRequests
      /\ \A delay \in told : delay <= blocked
<1>1. FeedInv /\ [FetchNext]_fetchVars => [Step]_fetchVars
  <2>1. SUFFICES ASSUME FeedInv, [FetchNext]_fetchVars PROVE Step OBVIOUS
  <2>2. Stops BY <2>1, FeedStep
  <2>3. QED BY <2>1, <2>2 DEF Stops, FeedInv
<1> HIDE DEF Step
<1>2. FetchSpec => [][Step]_fetchVars BY <1>1, FeedInvariant, PTL DEF FetchSpec
<1>3. QED BY <1>2 DEF Step, LimitStopsFeed
=============================================================================
