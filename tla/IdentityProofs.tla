--------------------------- MODULE IdentityProofs ----------------------------
(***************************************************************************)
(* Proofs about Identity, for any records, keys, payloads and order of     *)
(* sources.  The argument: a record enters an event only through a key or  *)
(* a decision that already points there, and every operation that moves or *)
(* forgets a record takes its key, its decision and its evidence with it.  *)
(* Retention looks at the event alone, so it matters that no clock of a    *)
(* record or of an observation is later than that of its event.            *)
(***************************************************************************)
EXTENDS Identity, TLAPS

(* types ******************************************************************)
ViewType ==
  [shown : Payloads \cup {NoPayload}, versions : SUBSET Payloads, sources : SUBSET Sources,
   closed : BOOLEAN]

EventTypeOK ==
  /\ clock \in Nat /\ clock > 0
  /\ made \in 0..MaxEvents /\ live \subseteq 1..made
  /\ view \in [EventIds -> ViewType]
  /\ lastSeen \in [EventIds -> Nat] /\ lastChanged \in [EventIds -> Nat]
  /\ history \in [EventIds -> SUBSET Nat]
  /\ feed \subseteq Payloads

RecordTypeOK ==
  /\ home \in [Records -> EventIds \cup {None}]
  /\ latest \in [Records -> Payloads \cup {NoPayload}]
  /\ seen \in [Records -> Nat] /\ retrieved \in [Payloads -> Nat]
  /\ linked \subseteq EventIds \X Payloads
  /\ keyed \in [AllKeys -> EventIds \cup {None}]
  /\ override \in [Records -> EventIds \cup {None}]

TypeOK == EventTypeOK /\ RecordTypeOK

(* the invariant **********************************************************)
(* The rows of a record: its event, its own key, the decision, its newest  *)
(* observation, the evidence of all of them.                               *)
Assigned ==
  /\ \A r \in Records : /\ home[r] \in live \cup {None} /\ keyed[r] = home[r]
                        /\ override[r] \in {None, home[r]}
  /\ \A k \in AllKeys : keyed[k] \in live \cup {None}

Observed ==
  /\ \A r \in Records : home[r] # None =>
       latest[r] \in Payloads /\ latest[r].rec = r /\ retrieved[latest[r]] # 0
  /\ \A p \in Payloads : retrieved[p] # 0 => home[p.rec] # None
  /\ \A e \in EventIds, p \in Payloads :
       <<e, p>> \in linked <=> retrieved[p] # 0 /\ e = home[p.rec]

ClocksAgree ==
  /\ \A p \in Payloads : retrieved[p] <= seen[p.rec]
  /\ \A r \in Records : seen[r] <= clock /\ (home[r] # None => seen[r] <= lastSeen[home[r]])
  /\ \A e \in EventIds : \A t \in history[e] : t <= clock

(* A key that points to an event no decision holds together was named by   *)
(* one of its records.                                                     *)
Undecided(e) == \A r \in Members(e, home) : override[r] = None
KeysHaveNames ==
  \A k \in AllKeys : keyed[k] # None /\ Undecided(keyed[k]) =>
    \E r \in Members(keyed[k], home) : k \in KeysEver(r)

IdentityInv ==
  /\ TypeOK /\ Assigned /\ Observed /\ ClocksAgree
  /\ EventsAreCurrent /\ KeysAgree /\ KeysHaveNames /\ HardTies

LEMMA PayloadFacts ==
  ASSUME NEW p \in Payloads
  PROVE  /\ p.rec \in Records /\ KeysOf(p) \subseteq AllKeys /\ p.rec \in KeysOf(p)
         /\ p.withdrawn \in BOOLEAN /\ p.ends \in Nat /\ p.rank \in Nat
         /\ SourceOf[p.rec] \in Sources
BY PayloadAssumption, SourceAssumption DEF PayloadType, KeysOf, AllKeys

LEMMA EventIdFacts == None \notin EventIds /\ EventIds \subseteq Nat
BY BoundAssumption DEF None, EventIds

LEMMA LiveFacts ==
  ASSUME TypeOK PROVE live \subseteq EventIds /\ made + 1 \notin live
BY BoundAssumption DEF TypeOK, EventTypeOK, EventIds

LEMMA OverIsBoolean ==
  ASSUME NEW p \in Payloads, NEW now \in Nat PROVE Over(p, now) \in BOOLEAN
BY PayloadFacts DEF Over

(* What a view of an event names, given the rows it is computed from.      *)
LEMMA ViewFacts ==
  ASSUME NEW rows \in SUBSET Payloads, NEW at, NEW v \in Views(rows, at), clock \in Nat
  PROVE  /\ v \in ViewType
         /\ v.versions = rows /\ v.sources = {SourceOf[q.rec] : q \in rows}
         /\ v.shown \in rows /\ \A q \in rows : v.shown.rec \notin q.refs
<1>1. PICK q \in Candidates(rows) : v = View(q, rows, Over(q, clock))
  BY DEF Views
<1>2. q \in rows /\ \A x \in rows : q.rec \notin x.refs
  BY <1>1 DEF Candidates
<1>3. Over(q, clock) \in BOOLEAN
  BY <1>2, OverIsBoolean
<1>4. {SourceOf[x.rec] : x \in rows} \in SUBSET Sources
  BY PayloadFacts
<1>5. v \in ViewType
  BY <1>1, <1>2, <1>3, <1>4 DEF View, ViewType
<1>6. QED BY <1>1, <1>2, <1>5 DEF View

LEMMA InitInv == Init => IdentityInv
<1> SUFFICES ASSUME Init PROVE IdentityInv
  OBVIOUS
<1>1. EventTypeOK
  <2>1. NoView \in ViewType
    BY DEF NoView, ViewType
  <2> QED BY <2>1, BoundAssumption DEF Init, EventTypeOK, Payloads
<1>2. RecordTypeOK
  BY DEF Init, RecordTypeOK
<1>3. Assigned /\ Observed
  BY DEF Init, Assigned, Observed, AllKeys
<1>4. ClocksAgree
  BY PayloadFacts, BoundAssumption DEF Init, ClocksAgree
<1>5. EventsAreCurrent /\ KeysAgree /\ KeysHaveNames /\ HardTies
  BY DEF Init, EventsAreCurrent, KeysAgree, KeysHaveNames, HardTies
<1> QED BY <1>1, <1>2, <1>3, <1>4, <1>5 DEF IdentityInv, TypeOK

(* _record ****************************************************************)
(* Where a payload goes: a new event, whose keys are all unknown, or the   *)
(* one event its keys or a decision point to.                              *)
LEMMA IngestTargets ==
  ASSUME IdentityInv, NEW p \in feed, NEW e \in EventIds, Ingest(p, e)
  PROVE  /\ p \in Payloads
         /\ home[p.rec] \in {None, e}
         /\ \/ /\ Targets(p) = {} /\ e = made + 1 /\ e \notin live
               /\ home[p.rec] = None /\ override[p.rec] = None
               /\ \A k \in KeysOf(p) : keyed[k] = None
            \/ /\ Targets(p) = {e} /\ e \in live
               /\ override[p.rec] = None => \A k \in KeysOf(p) : keyed[k] \in {None, e}
               /\ override[p.rec] # None => override[p.rec] = e /\ home[p.rec] = e
<1>1. p \in Payloads /\ home[p.rec] \in {None, e}
  BY DEF IdentityInv, TypeOK, EventTypeOK, Ingest
<1>2. p.rec \in Records /\ KeysOf(p) \subseteq AllKeys /\ p.rec \in KeysOf(p)
  BY <1>1, PayloadFacts
<1>3. CASE Targets(p) = {}
  <2>1. e = made + 1 /\ e \notin live
    BY <1>3, EventIdFacts DEF IdentityInv, TypeOK, EventTypeOK, Ingest
  <2>2. override[p.rec] = None /\ home[p.rec] = None /\ \A k \in KeysOf(p) : keyed[k] = None
    BY <1>3 DEF Targets
  <2> QED BY <1>1, <1>3, <2>1, <2>2
<1>4. CASE Targets(p) # {}
  <2>1. Targets(p) = {e}
    BY <1>4 DEF Ingest
  <2>2. CASE override[p.rec] # None
    <3>1. override[p.rec] = e /\ home[p.rec] = e
      BY <1>2, <2>1, <2>2 DEF Targets, IdentityInv, Assigned
    <3> QED BY <1>1, <1>2, <2>1, <2>2, <3>1, EventIdFacts DEF IdentityInv, Assigned
  <2>3. CASE override[p.rec] = None
    <3>1. \A k \in KeysOf(p) : keyed[k] \in {None, e}
      BY <2>1, <2>3 DEF Targets
    <3>2. e = home[p.rec] \/ \E k \in KeysOf(p) : e = keyed[k]
      BY <2>1, <2>3 DEF Targets
    <3>3. e \in live
      BY <1>2, <3>2, EventIdFacts DEF IdentityInv, Assigned
    <3> QED BY <1>1, <2>1, <2>3, <3>1, <3>3
  <2> QED BY <2>2, <2>3
<1> QED BY <1>3, <1>4

(* The rows after it, one by one.                                          *)
IngestEffect(p, e) ==
  /\ live' = live \cup {e} /\ clock' = clock
  /\ \A r \in Records : /\ home'[r] = IF r = p.rec THEN e ELSE home[r]
                        /\ seen'[r] = IF r = p.rec THEN clock ELSE seen[r]
                        /\ r # p.rec => latest'[r] = latest[r]
  /\ latest'[p.rec] = IF Replaces(p) THEN p ELSE latest[p.rec]
  /\ \A q \in Payloads : retrieved'[q] = IF q = p /\ retrieved[p] = 0 THEN clock ELSE retrieved[q]
  /\ \A x \in EventIds : lastSeen'[x] = IF x = e THEN clock ELSE lastSeen[x]
  /\ \A k \in AllKeys : keyed'[k] = IF k \in KeysOf(p) /\ keyed[k] = None THEN e ELSE keyed[k]
  /\ override' = override
  /\ linked' = linked \cup {<<e, p>>}

LEMMA IngestRows ==
  ASSUME IdentityInv, NEW p \in feed, NEW e \in EventIds, Ingest(p, e)
  PROVE  IngestEffect(p, e) /\ RecordTypeOK'
<1>1. p \in Payloads /\ p.rec \in Records /\ TypeOK
  BY IngestTargets, PayloadFacts DEF IdentityInv
<1>2. home' = [home EXCEPT ![p.rec] = e] /\ home' \in [Records -> EventIds \cup {None}]
  BY <1>1 DEF Ingest, TypeOK, RecordTypeOK
<1>3. /\ latest' = [latest EXCEPT ![p.rec] = IF Replaces(p) THEN p ELSE @]
      /\ latest' \in [Records -> Payloads \cup {NoPayload}]
  BY <1>1 DEF Ingest, TypeOK, RecordTypeOK
<1>4. seen' = [seen EXCEPT ![p.rec] = clock] /\ seen' \in [Records -> Nat]
  BY <1>1 DEF Ingest, TypeOK, RecordTypeOK, EventTypeOK
<1>5. /\ retrieved' = [retrieved EXCEPT ![p] = IF @ = 0 THEN clock ELSE @]
      /\ retrieved' \in [Payloads -> Nat]
  BY <1>1 DEF Ingest, TypeOK, RecordTypeOK, EventTypeOK
<1>6. lastSeen' = [lastSeen EXCEPT ![e] = clock]
  BY DEF Ingest
<1>7. /\ keyed' = [k \in AllKeys |-> IF k \in KeysOf(p) /\ keyed[k] = None THEN e ELSE keyed[k]]
      /\ keyed' \in [AllKeys -> EventIds \cup {None}]
  BY <1>1 DEF Ingest, TypeOK, RecordTypeOK
<1>8. linked' = linked \cup {<<e, p>>} /\ override' = override /\ live' = live \cup {e} /\ clock' = clock
  BY DEF Ingest
<1>9. RecordTypeOK'
  BY <1>1, <1>2, <1>3, <1>4, <1>5, <1>7, <1>8 DEF TypeOK, RecordTypeOK
<1>10. IngestEffect(p, e)
  BY <1>1, <1>2, <1>3, <1>4, <1>5, <1>6, <1>7, <1>8 DEF IngestEffect, TypeOK, RecordTypeOK, EventTypeOK
<1> QED BY <1>9, <1>10

LEMMA IngestAssigned ==
  ASSUME IdentityInv, NEW p \in feed, NEW e \in EventIds, Ingest(p, e)
  PROVE  Assigned' /\ Observed' /\ ClocksAgree' 
<1>1. p \in Payloads /\ p.rec \in Records /\ p.rec \in KeysOf(p) /\ KeysOf(p) \subseteq AllKeys
  BY IngestTargets, PayloadFacts
<1>2. IngestEffect(p, e)
  BY IngestRows
<1>3. home[p.rec] \in {None, e} /\ e # None
  BY IngestTargets, EventIdFacts
<1>4. Assigned'
  <2>1. keyed[p.rec] = home[p.rec] /\ override[p.rec] \in {None, home[p.rec]}
    BY <1>1 DEF IdentityInv, Assigned
  <2>2. override[p.rec] \in {None, e}
    BY <1>3, <2>1
  <2>3. ASSUME NEW r \in Records
        PROVE  /\ home'[r] \in live' \cup {None} /\ keyed'[r] = home'[r]
               /\ override'[r] \in {None, home'[r]}
    <3>1. /\ home[r] \in live \cup {None} /\ keyed[r] = home[r] /\ override[r] \in {None, home[r]}
          /\ r \in AllKeys
      BY DEF IdentityInv, Assigned, AllKeys
    <3>2. r # p.rec => r \notin KeysOf(p)
      BY <1>1, PayloadAssumption, KeyAssumption DEF KeysOf, PayloadType
    <3> QED BY <1>1, <1>2, <1>3, <2>1, <2>2, <3>1, <3>2 DEF IngestEffect
  <2>4. \A k \in AllKeys : keyed'[k] \in live' \cup {None}
    BY <1>2 DEF IngestEffect, IdentityInv, Assigned
  <2> QED BY <2>3, <2>4 DEF Assigned
<1>5. Observed'
  <2>0. clock \in Nat /\ clock > 0 /\ retrieved'[p] # 0
    BY <1>1, <1>2 DEF IngestEffect, IdentityInv, TypeOK, EventTypeOK
  <2>1. ASSUME NEW r \in Records, home'[r] # None
        PROVE  latest'[r] \in Payloads /\ latest'[r].rec = r /\ retrieved'[latest'[r]] # 0
    <3>1. CASE r = p.rec /\ Replaces(p)
      BY <1>1, <1>2, <2>0, <3>1 DEF IngestEffect
    <3>2. CASE ~(r = p.rec /\ Replaces(p))
      <4>1. home[r] # None /\ latest'[r] = latest[r]
        BY <1>1, <1>2, <1>3, <2>1, <3>2 DEF IngestEffect, Replaces
      <4> QED BY <1>2, <2>0, <4>1 DEF IngestEffect, IdentityInv, Observed
    <3> QED BY <3>1, <3>2
  <2>2. ASSUME NEW q \in Payloads, retrieved'[q] # 0 PROVE home'[q.rec] # None
    <3>1. q.rec \in Records
      BY PayloadFacts
    <3> QED BY <1>2, <1>3, <2>2, <3>1 DEF IngestEffect, IdentityInv, Observed
  <2>3. ASSUME NEW x \in EventIds, NEW q \in Payloads
        PROVE  <<x, q>> \in linked' <=> retrieved'[q] # 0 /\ x = home'[q.rec]
    <3>1. q.rec \in Records /\ (<<x, q>> \in linked <=> retrieved[q] # 0 /\ x = home[q.rec])
      BY PayloadFacts DEF IdentityInv, Observed
    <3>2. <<x, q>> \in linked' <=> <<x, q>> \in linked \/ (x = e /\ q = p)
      BY <1>2 DEF IngestEffect
    <3>3. CASE q = p
      <4>1. home'[q.rec] = e /\ retrieved'[q] # 0
        BY <1>1, <1>2, <2>0, <3>3 DEF IngestEffect
      <4>2. retrieved[q] # 0 => home[q.rec] = e
        BY <1>1, <1>3, <3>3 DEF IdentityInv, Observed
      <4> QED BY <3>1, <3>2, <3>3, <4>1, <4>2
    <3>4. CASE q # p
      <4>1. retrieved'[q] = retrieved[q]
        BY <1>2, <3>4 DEF IngestEffect
      <4>2. retrieved[q] # 0 => home'[q.rec] = home[q.rec]
        BY <1>2, <1>3, <3>1 DEF IngestEffect, IdentityInv, Observed
      <4> QED BY <3>1, <3>2, <3>4, <4>1, <4>2
    <3> QED BY <3>3, <3>4
  <2> QED BY <2>1, <2>2, <2>3 DEF Observed
<1>6. ClocksAgree'
  <2>0. clock \in Nat /\ seen \in [Records -> Nat] /\ retrieved \in [Payloads -> Nat]
    BY DEF IdentityInv, TypeOK, EventTypeOK, RecordTypeOK
  <2>1. ASSUME NEW q \in Payloads PROVE retrieved'[q] <= seen'[q.rec]
    <3>1. q.rec \in Records /\ retrieved[q] <= seen[q.rec] /\ seen[q.rec] <= clock
      BY PayloadFacts DEF IdentityInv, ClocksAgree
    <3> QED BY <1>1, <1>2, <2>0, <3>1 DEF IngestEffect
  <2>2. ASSUME NEW r \in Records
        PROVE  seen'[r] <= clock /\ (home'[r] # None => seen'[r] <= lastSeen'[home'[r]])
    <3>1. seen[r] <= clock /\ (home[r] # None => seen[r] <= lastSeen[home[r]])
      BY DEF IdentityInv, ClocksAgree
    <3>2. home[r] # None => home[r] \in EventIds
      BY DEF IdentityInv, TypeOK, RecordTypeOK
    <3> QED BY <1>2, <2>0, <3>1, <3>2 DEF IngestEffect
  <2>3. \A x \in EventIds : history'[x] \subseteq history[x] \cup {clock}
    <3>1. PICK v : history' = [history EXCEPT ![e] = IF Targets(p) = {} \/ v # view[e] THEN @ \cup {clock} ELSE @]
      BY DEF Ingest, Rebuild
    <3> QED BY <3>1 DEF IdentityInv, TypeOK, EventTypeOK
  <2>4. clock' = clock
    BY <1>2 DEF IngestEffect
  <2> QED BY <2>0, <2>1, <2>2, <2>3, <2>4 DEF ClocksAgree, IdentityInv
<1> QED BY <1>4, <1>5, <1>6

(* What the events show.  Only the event of the record is rebuilt.         *)
LEMMA IngestEvents ==
  ASSUME IdentityInv, NEW p \in feed, NEW e \in EventIds, Ingest(p, e)
  PROVE  EventTypeOK' /\ EventsAreCurrent'
<1>1. p \in Payloads /\ p.rec \in Records /\ TypeOK /\ home[p.rec] \in {None, e}
  BY IngestTargets, PayloadFacts DEF IdentityInv
<1>2. IngestEffect(p, e) /\ RecordTypeOK'
  BY IngestRows
<1>3. PICK v \in Views(Rows(e, home', latest'), retrieved') : Rebuild(e, v, Targets(p) = {})
  BY <1>1 DEF Ingest
<1>4. Observed' /\ clock \in Nat /\ e # None
  BY <1>1, IngestAssigned, EventIdFacts DEF TypeOK, EventTypeOK
<1>5. \A x \in EventIds : Rows(x, home', latest') \subseteq Payloads
  BY <1>4, EventIdFacts DEF Rows, Members, Observed
<1>6. /\ v \in ViewType
      /\ v.versions = Rows(e, home', latest')
      /\ v.sources = {SourceOf[q.rec] : q \in Rows(e, home', latest')}
      /\ v.shown \in Rows(e, home', latest')
      /\ \A q \in Rows(e, home', latest') : v.shown.rec \notin q.refs
  BY <1>4, <1>5, ViewFacts
<1>7. EventTypeOK'
  <2>1. made' \in 0..MaxEvents /\ live' \subseteq 1..made'
    <3>1. live' = live \cup {e}
      BY DEF Ingest
    <3>2. CASE Targets(p) = {}
      <4>1. made' = e /\ e = made + 1
        BY <3>2 DEF Ingest
      <4>2. e \in 1..MaxEvents /\ MaxEvents \in Nat
        BY BoundAssumption DEF EventIds
      <4>3. made \in Nat /\ live \subseteq 1..made
        BY <1>1 DEF TypeOK, EventTypeOK
      <4>4. made' \in 0..MaxEvents
        BY <4>1, <4>2
      <4>5. 1..made \subseteq 1..made' /\ e \in 1..made'
        BY <4>1, <4>2, <4>3
      <4> QED BY <3>1, <4>3, <4>4, <4>5
    <3>3. CASE Targets(p) # {}
      <4>1. made' = made /\ e \in live
        BY <3>3, IngestTargets DEF Ingest
      <4> QED BY <1>1, <3>1, <4>1 DEF TypeOK, EventTypeOK
    <3> QED BY <3>2, <3>3
  <2>2. view' \in [EventIds -> ViewType]
    BY <1>1, <1>3, <1>6 DEF Rebuild, TypeOK, EventTypeOK
  <2>3. lastSeen' \in [EventIds -> Nat]
    BY <1>1 DEF Ingest, TypeOK, EventTypeOK
  <2>4. lastChanged' \in [EventIds -> Nat] /\ history' \in [EventIds -> SUBSET Nat]
    BY <1>1, <1>3 DEF Rebuild, TypeOK, EventTypeOK
  <2>5. feed' = feed /\ clock' = clock
    BY DEF Ingest
  <2> QED BY <1>1, <2>1, <2>2, <2>3, <2>4, <2>5 DEF TypeOK, EventTypeOK
<1>8. ASSUME NEW x \in live', x # e
      PROVE  /\ x \in live /\ x \in EventIds /\ Members(x, home') = Members(x, home)
             /\ Rows(x, home', latest') = Rows(x, home, latest)
  <2>1. x \in live /\ x \in EventIds
    BY <1>1, <1>2, <1>8, LiveFacts DEF IngestEffect
  <2>2. Members(x, home') = Members(x, home)
    BY <1>1, <1>2, <1>4, <1>8, <2>1, EventIdFacts DEF IngestEffect, Members
  <2>3. p.rec \notin Members(x, home)
    BY <1>1, <1>8, <2>1, EventIdFacts DEF Members
  <2>4. \A r \in Members(x, home) : latest'[r] = latest[r]
    BY <1>2, <2>3 DEF IngestEffect, Members
  <2> QED BY <2>1, <2>2, <2>4 DEF Rows
<1>9. {SourceOf[q.rec] : q \in Rows(e, home', latest')} = {SourceOf[r] : r \in Members(e, home')}
  BY <1>4 DEF Rows, Members, Observed
<1>10. \A t \in history[e] : t <= clock
  BY DEF IdentityInv, ClocksAgree
<1>11. EventsAreCurrent'
  <2>1. ASSUME NEW x \in live', x # e
        PROVE  view'[x] = view[x] /\ lastChanged'[x] = lastChanged[x] /\ history'[x] = history[x]
    BY <1>1, <1>3, <1>8, <2>1 DEF Rebuild, TypeOK, EventTypeOK
  <2>2. view'[e] = v
    BY <1>1, <1>3 DEF Rebuild, TypeOK, EventTypeOK
  <2>3. lastChanged'[e] \in history'[e] /\ \A t \in history'[e] : t <= lastChanged'[e]
    <3>1. CASE Targets(p) = {} \/ v # view[e]
      <4>1. lastChanged'[e] = clock /\ history'[e] = history[e] \cup {clock}
        BY <1>1, <1>3, <3>1 DEF Rebuild, TypeOK, EventTypeOK
      <4> QED BY <1>4, <1>10, <4>1
    <3>2. CASE ~(Targets(p) = {} \/ v # view[e])
      <4>1. lastChanged'[e] = lastChanged[e] /\ history'[e] = history[e]
        BY <1>1, <1>3, <3>2 DEF Rebuild, TypeOK, EventTypeOK
      <4>2. e \in live
        BY <3>2, IngestTargets
      <4> QED BY <4>1, <4>2 DEF IdentityInv, EventsAreCurrent
    <3> QED BY <3>1, <3>2
  <2>4. ASSUME NEW x \in live', x # e
        PROVE  LET rows == Rows(x, home', latest') IN
               /\ view'[x].versions = rows /\ view'[x].sources = {SourceOf[r] : r \in Members(x, home')}
               /\ view'[x].shown \in rows /\ \A q \in rows : view'[x].shown.rec \notin q.refs
               /\ lastChanged'[x] \in history'[x] /\ \A t \in history'[x] : t <= lastChanged'[x]
    BY <1>8, <2>1, <2>4 DEF IdentityInv, EventsAreCurrent
  <2> QED BY <1>6, <1>9, <2>2, <2>3, <2>4 DEF EventsAreCurrent
<1> QED BY <1>7, <1>11

(* The keys.                                                               *)
LEMMA IngestKeys ==
  ASSUME IdentityInv, NEW p \in feed, NEW e \in EventIds, Ingest(p, e)
  PROVE  KeysAgree' /\ KeysHaveNames' /\ HardTies'
<1>1. p \in Payloads /\ p.rec \in Records /\ p.rec \in KeysOf(p) /\ KeysOf(p) \subseteq AllKeys
  BY IngestTargets, PayloadFacts
<1>2. IngestEffect(p, e) /\ Assigned' /\ Observed'
  BY IngestRows, IngestAssigned
<1>3. home[p.rec] \in {None, e} /\ e # None
  BY IngestTargets, EventIdFacts
<1>4. retrieved'[p] # 0 /\ \A q \in Payloads : retrieved[q] # 0 => retrieved'[q] # 0
  BY <1>1, <1>2 DEF IngestEffect, IdentityInv, TypeOK, EventTypeOK
<1>5. \A q \in Payloads : q # p => retrieved'[q] = retrieved[q]
  BY <1>2 DEF IngestEffect
<1>6. override[p.rec] = None => \A k \in KeysOf(p) : keyed[k] \in {None, e}
  BY IngestTargets
<1>7. KeysAgree'
  <2> SUFFICES ASSUME NEW q \in Payloads, retrieved'[q] # 0, override'[q.rec] = None,
                      NEW k \in KeysOf(q)
               PROVE  keyed'[k] = home'[q.rec]
    BY DEF KeysAgree
  <2>1. q.rec \in Records /\ k \in AllKeys /\ override[q.rec] = None
    BY <1>2, PayloadFacts DEF IngestEffect
  <2>2. CASE q = p
    BY <1>1, <1>2, <1>3, <1>6, <2>1, <2>2 DEF IngestEffect
  <2>3. CASE q # p
    <3>1. keyed[k] = home[q.rec] /\ home[q.rec] # None
      BY <1>5, <2>1, <2>3 DEF IdentityInv, KeysAgree, Observed
    <3>2. keyed'[k] = keyed[k]
      BY <1>2, <2>1, <3>1 DEF IngestEffect
    <3>3. home'[q.rec] = home[q.rec]
      BY <1>2, <1>3, <2>1, <3>1 DEF IngestEffect
    <3> QED BY <3>1, <3>2, <3>3
  <2> QED BY <2>2, <2>3
<1>8. \A r \in Records : KeysEver(r) \subseteq KeysEver(r)'
  BY <1>4 DEF KeysEver
<1>9. KeysOf(p) \subseteq KeysEver(p.rec)'
  BY <1>1, <1>4 DEF KeysEver
<1>10. /\ Members(e, home') = Members(e, home) \cup {p.rec}
       /\ \A x \in EventIds \ {e} : Members(x, home') = Members(x, home)
  BY <1>1, <1>2, <1>3, EventIdFacts DEF IngestEffect, Members
<1>11. KeysHaveNames'
  <2> SUFFICES ASSUME NEW k \in AllKeys, keyed'[k] # None,
                      \A r \in Members(keyed'[k], home') : override'[r] = None
               PROVE  \E r \in Members(keyed'[k], home') : k \in KeysEver(r)'
    BY DEF KeysHaveNames, Undecided
  <2>1. CASE k \in KeysOf(p) /\ keyed[k] = None
    <3>1. keyed'[k] = e /\ p.rec \in Members(e, home')
      BY <1>1, <1>2, <2>1 DEF IngestEffect, Members
    <3> QED BY <1>9, <2>1, <3>1
  <2>2. CASE ~(k \in KeysOf(p) /\ keyed[k] = None)
    <3>1. keyed'[k] = keyed[k] /\ keyed[k] \in EventIds
      BY <1>2, <2>2 DEF IngestEffect, IdentityInv, TypeOK, RecordTypeOK
    <3>2. Members(keyed[k], home) \subseteq Members(keyed[k], home')
      BY <1>10, <3>1
    <3>3. Undecided(keyed[k])
      BY <1>2, <3>1, <3>2 DEF Undecided, IngestEffect
    <3>4. PICK r \in Members(keyed[k], home) : k \in KeysEver(r)
      BY <3>1, <3>3 DEF IdentityInv, KeysHaveNames
    <3> QED BY <1>8, <3>1, <3>2, <3>4 DEF Members
  <2> QED BY <2>1, <2>2
<1>12. HardTies'
  <2> SUFFICES ASSUME NEW x \in live', \A r \in Members(x, home') : override'[r] = None,
                      NEW S \in (SUBSET Members(x, home')) \ {{}, Members(x, home')}
               PROVE  \E a \in S, b \in Members(x, home') \ S : KeysEver(a)' \cap KeysEver(b)' # {}
    BY DEF HardTies
  <2>1. x \in EventIds /\ (x # e => x \in live)
    BY <1>2, LiveFacts DEF IngestEffect, IdentityInv
  <2>2. Members(x, home) \subseteq Members(x, home')
    BY <1>10, <2>1
  <2>3. \A r \in Members(x, home) : override[r] = None
    BY <1>2, <2>2 DEF Undecided, IngestEffect
  <2>4. CASE S \cap Members(x, home) # {} /\ Members(x, home) \ S # {}
    <3>1. S \cap Members(x, home) \in (SUBSET Members(x, home)) \ {{}, Members(x, home)}
      BY <2>4
    <3>0. x \in live
      BY <2>1, <2>4, EventIdFacts DEF IdentityInv, Assigned, Members
    <3>2. PICK a \in S \cap Members(x, home), b \in Members(x, home) \ (S \cap Members(x, home)) :
            KeysEver(a) \cap KeysEver(b) # {}
      BY <2>3, <3>0, <3>1 DEF IdentityInv, HardTies
    <3>3. a \in S /\ b \in Members(x, home') \ S /\ a \in Records /\ b \in Records
      BY <2>2, <3>2 DEF Members
    <3> QED BY <1>8, <3>2, <3>3
  <2>5. CASE ~(S \cap Members(x, home) # {} /\ Members(x, home) \ S # {})
    <3>1. x = e /\ p.rec \notin Members(e, home) /\ (S = {p.rec} \/ Members(x, home') \ S = {p.rec})
      BY <1>10, <2>1, <2>2, <2>5
    <3>2. home[p.rec] = None /\ override[p.rec] = None
      BY <1>1, <1>3, <3>1 DEF Members, IdentityInv, Assigned
    <3>3. PICK r \in Members(e, home) : TRUE
      BY <1>10, <2>1, <3>1
    <3>4. e \in live
      BY <1>3, <3>3 DEF IdentityInv, Assigned, Members
    <3>5. PICK k \in KeysOf(p) : keyed[k] = e
      BY <1>3, <3>2, <3>4, IngestTargets DEF Targets
    <3>6. PICK m \in Members(e, home) : k \in KeysEver(m)
      BY <1>1, <1>3, <2>3, <3>1, <3>5 DEF IdentityInv, KeysHaveNames, Undecided
    <3>7. k \in KeysEver(m)' /\ k \in KeysEver(p.rec)' /\ m # p.rec /\ m \in Members(x, home')
      BY <1>8, <1>9, <2>2, <3>1, <3>5, <3>6 DEF Members
    <3>8. p.rec \in Members(x, home')
      BY <1>10, <2>1, <3>1
    <3>9. CASE S = {p.rec}
      BY <3>7, <3>9
    <3>10. CASE Members(x, home') \ S = {p.rec}
      <4>1. m \in S
        BY <3>7, <3>10
      <4> QED BY <3>7, <3>10, <4>1
    <3> QED BY <3>1, <3>9, <3>10
  <2> QED BY <2>4, <2>5
<1> QED BY <1>7, <1>11, <1>12

(* the clock, and expire_advisories ***************************************)
LEMMA TickInv == ASSUME IdentityInv, Tick PROVE IdentityInv'
<1> USE DEF Tick, eventVars, recordVars
<1>1. EventTypeOK' /\ RecordTypeOK'
  BY DEF IdentityInv, TypeOK, EventTypeOK, RecordTypeOK
<1>2. Assigned' /\ Observed'
  BY DEF IdentityInv, Assigned, Observed
<1>3. ClocksAgree'
  BY DEF IdentityInv, ClocksAgree, TypeOK, EventTypeOK, RecordTypeOK
<1>4. EventsAreCurrent'
  BY DEF IdentityInv, EventsAreCurrent
<1>5. KeysAgree' /\ KeysHaveNames' /\ HardTies'
  BY DEF IdentityInv, KeysAgree, KeysHaveNames, HardTies, Undecided, KeysEver
<1> QED BY <1>1, <1>2, <1>3, <1>4, <1>5 DEF IdentityInv, TypeOK

(* An advisory that is over shows the same and is closed.                  *)
LEMMA ExpireInv == ASSUME IdentityInv, Expire PROVE IdentityInv'
<1>1. UNCHANGED <<clock, made, live, lastSeen, recordVars, separated, feed>> /\ TypeOK
  BY DEF Expire, IdentityInv
<1>2. ASSUME NEW e \in EventIds
      PROVE  /\ e \notin Due => view'[e] = view[e] /\ lastChanged'[e] = lastChanged[e] /\ history'[e] = history[e]
             /\ e \in Due => /\ view'[e] = View(view[e].shown, view[e].versions, TRUE)
                             /\ lastChanged'[e] = clock /\ history'[e] = history[e] \cup {clock}
  BY DEF Expire
<1>3. ASSUME NEW e \in live
      PROVE  /\ e \in EventIds /\ view[e].shown \in Payloads \cup {NoPayload} /\ view[e].versions \subseteq Payloads
             /\ view'[e].shown = view[e].shown /\ view'[e].versions = view[e].versions
             /\ view'[e].sources = view[e].sources
  <2>1. e \in EventIds /\ view[e] \in ViewType
    BY <1>1, LiveFacts DEF TypeOK, EventTypeOK
  <2>2. {SourceOf[q.rec] : q \in view[e].versions} = view[e].sources
    <3>1. Observed /\ \A r \in Members(e, home) : latest[r].rec = r
      BY <2>1, EventIdFacts DEF IdentityInv, Observed, Members
    <3>2. view[e].versions = Rows(e, home, latest) /\ view[e].sources = {SourceOf[r] : r \in Members(e, home)}
      BY DEF IdentityInv, EventsAreCurrent
    <3> QED BY <3>1, <3>2 DEF Rows
  <2>3. CASE e \in Due
    <3>1. view'[e] = View(view[e].shown, view[e].versions, TRUE)
      BY <1>2, <2>1, <2>3
    <3> QED BY <2>1, <2>2, <3>1 DEF View, ViewType
  <2>4. CASE e \notin Due
    BY <1>2, <2>1, <2>4 DEF ViewType
  <2> QED BY <2>3, <2>4
<1>4. EventTypeOK'
  <2>1. view' \in [EventIds -> ViewType]
    <3>1. ASSUME NEW e \in EventIds PROVE view'[e] \in ViewType
      <4>1. CASE e \in Due
        <5>1. e \in live
          BY <4>1 DEF Due
        <5>2. view'[e] = View(view[e].shown, view[e].versions, TRUE)
          BY <1>2, <4>1
        <5>3. {SourceOf[q.rec] : q \in view[e].versions} \in SUBSET Sources
          BY <1>3, <5>1, PayloadFacts
        <5> QED BY <1>3, <5>1, <5>2, <5>3 DEF View, ViewType
      <4>2. CASE e \notin Due
        BY <1>1, <1>2, <4>2 DEF TypeOK, EventTypeOK
      <4> QED BY <4>1, <4>2
    <3> QED BY <3>1 DEF Expire
  <2>2. lastChanged' \in [EventIds -> Nat] /\ history' \in [EventIds -> SUBSET Nat]
    BY <1>1 DEF Expire, TypeOK, EventTypeOK
  <2> QED BY <1>1, <2>1, <2>2 DEF TypeOK, EventTypeOK
<1>5. RecordTypeOK' /\ Assigned' /\ Observed'
  BY <1>1 DEF recordVars, IdentityInv, TypeOK, RecordTypeOK, Assigned, Observed
<1>6. ClocksAgree'
  <2>1. ASSUME NEW e \in EventIds, NEW t \in history'[e] PROVE t <= clock
    <3>1. history'[e] \in {history[e], history[e] \cup {clock}}
      BY DEF Expire
    <3>2. t \in history[e] \/ t = clock
      BY <2>1, <3>1
    <3> QED BY <1>1, <3>2 DEF IdentityInv, ClocksAgree, TypeOK, EventTypeOK
  <2> QED BY <1>1, <2>1 DEF recordVars, IdentityInv, ClocksAgree
<1>7. EventsAreCurrent'
  <2> SUFFICES ASSUME NEW e \in live
               PROVE  LET rows == Rows(e, home, latest) IN
                      /\ view'[e].versions = rows /\ view'[e].sources = {SourceOf[r] : r \in Members(e, home)}
                      /\ view'[e].shown \in rows /\ \A q \in rows : view'[e].shown.rec \notin q.refs
                      /\ lastChanged'[e] \in history'[e] /\ \A t \in history'[e] : t <= lastChanged'[e]
    BY <1>1 DEF EventsAreCurrent, recordVars
  <2>1. lastChanged'[e] \in history'[e] /\ \A t \in history'[e] : t <= lastChanged'[e]
    <3>1. e \in EventIds /\ clock \in Nat /\ \A t \in history[e] : t <= clock
      BY <1>1, <1>3 DEF IdentityInv, ClocksAgree, TypeOK, EventTypeOK
    <3>2. CASE e \in Due
      <4>1. lastChanged'[e] = clock /\ history'[e] = history[e] \cup {clock}
        BY <3>1, <3>2 DEF Expire
      <4> QED BY <3>1, <4>1
    <3>3. CASE e \notin Due
      BY <1>2, <3>1, <3>3 DEF IdentityInv, EventsAreCurrent
    <3> QED BY <3>2, <3>3
  <2> QED BY <1>3, <2>1 DEF IdentityInv, EventsAreCurrent
<1>8. KeysAgree' /\ KeysHaveNames' /\ HardTies'
  BY <1>1 DEF recordVars, IdentityInv, KeysAgree, KeysHaveNames, HardTies, Undecided, KeysEver
<1> QED BY <1>4, <1>5, <1>6, <1>7, <1>8 DEF IdentityInv, TypeOK

(* apply_retention ********************************************************)
(* An event that is forgotten takes with it every record, decision and key *)
(* that points to it, and what its records have been: all of that is older *)
(* than the cutoff.                                                        *)
Stays(r) == home[r] \notin Gone

LEMMA RetentionRows ==
  ASSUME IdentityInv, Retention
  PROVE  /\ live' = live \ Gone /\ clock' = clock /\ made' = made /\ feed' = feed
         /\ \A r \in Records :
              /\ home'[r] = IF Stays(r) THEN home[r] ELSE None
              /\ override'[r] = IF Stays(r) THEN override[r] ELSE None
              /\ seen'[r] = IF Stays(r) THEN seen[r] ELSE 0
              /\ latest'[r] = IF Stays(r) THEN latest[r] ELSE NoPayload
         /\ \A k \in AllKeys : keyed'[k] = IF keyed[k] \in Gone THEN None ELSE keyed[k]
         /\ \A p \in Payloads : retrieved'[p] = IF Stays(p.rec) THEN retrieved[p] ELSE 0
         /\ linked' = {l \in linked : l[1] \notin Gone}
         /\ RecordTypeOK'
<1>1. TypeOK /\ Gone \subseteq live /\ None \notin Gone
  BY LiveFacts, EventIdFacts DEF IdentityInv, Gone
<1>2. \A r \in Records :
              /\ home'[r] = IF Stays(r) THEN home[r] ELSE None
              /\ override'[r] = IF Stays(r) THEN override[r] ELSE None
              /\ seen'[r] = IF Stays(r) THEN seen[r] ELSE 0
              /\ latest'[r] = IF Stays(r) THEN latest[r] ELSE NoPayload
  BY DEF Retention, Stays
<1>3. /\ \A k \in AllKeys : keyed'[k] = IF keyed[k] \in Gone THEN None ELSE keyed[k]
      /\ linked' = {l \in linked : l[1] \notin Gone}
      /\ live' = live \ Gone /\ clock' = clock /\ made' = made /\ feed' = feed
  BY DEF Retention, KeptKeys
<1>4. ASSUME NEW p \in Payloads
      PROVE  retrieved'[p] = IF Stays(p.rec) THEN retrieved[p] ELSE 0
  <2>1. /\ p.rec \in Records
        /\ retrieved'[p] = IF /\ retrieved[p] < Cutoff
                              /\ \A l \in linked' : l[2] # p
                              /\ latest'[p.rec] # p
                           THEN 0 ELSE retrieved[p]
    BY <1>3, PayloadFacts DEF Retention
  <2>2. CASE retrieved[p] = 0
    BY <2>1, <2>2
  <2>3. CASE retrieved[p] # 0 /\ Stays(p.rec)
    <3>1. home[p.rec] \in EventIds /\ <<home[p.rec], p>> \in linked
      BY <1>1, <2>1, <2>3 DEF IdentityInv, Observed, TypeOK, RecordTypeOK
    <3>2. <<home[p.rec], p>> \in linked'
      BY <1>3, <2>3, <3>1 DEF Stays
    <3> QED BY <2>1, <2>3, <3>2
  <2>4. CASE retrieved[p] # 0 /\ ~Stays(p.rec)
    <3>1. \A l \in linked' : l[2] # p
      BY <1>1, <1>3, <2>1, <2>4 DEF IdentityInv, Observed, Stays, TypeOK, RecordTypeOK
    <3>2. latest'[p.rec] # p
      BY <1>2, <2>1, <2>4, PayloadAssumption
    <3>3. retrieved[p] < Cutoff
      <4>1. home[p.rec] \in Gone /\ home[p.rec] # None
        BY <1>1, <2>4 DEF Stays
      <4>2. retrieved[p] <= seen[p.rec] /\ seen[p.rec] <= lastSeen[home[p.rec]]
        BY <2>1, <4>1 DEF IdentityInv, ClocksAgree
      <4>3. lastSeen[home[p.rec]] < Cutoff /\ home[p.rec] \in EventIds
        BY <1>1, <4>1, LiveFacts DEF Gone
      <4>4. Cutoff \in Int /\ retrieved[p] \in Nat /\ seen[p.rec] \in Nat /\ lastSeen[home[p.rec]] \in Nat
        BY <1>1, <2>1, <4>3, BoundAssumption DEF Cutoff, TypeOK, EventTypeOK, RecordTypeOK
      <4> QED BY <4>2, <4>3, <4>4
    <3> QED BY <2>1, <2>4, <3>1, <3>2, <3>3
  <2> QED BY <2>2, <2>3, <2>4
<1>5. RecordTypeOK'
  <2>1. home' \in [Records -> EventIds \cup {None}] /\ override' \in [Records -> EventIds \cup {None}]
    BY <1>1 DEF Retention, TypeOK, RecordTypeOK
  <2>2. latest' \in [Records -> Payloads \cup {NoPayload}] /\ seen' \in [Records -> Nat]
    BY <1>1 DEF Retention, TypeOK, RecordTypeOK
  <2>3. keyed' \in [AllKeys -> EventIds \cup {None}]
    BY <1>1 DEF Retention, KeptKeys, TypeOK, RecordTypeOK
  <2>4. retrieved' \in [Payloads -> Nat]
    BY <1>1, <1>4 DEF Retention, TypeOK, RecordTypeOK
  <2> QED BY <1>1, <1>3, <2>1, <2>2, <2>3, <2>4 DEF TypeOK, RecordTypeOK
<1> QED BY <1>2, <1>3, <1>4, <1>5

LEMMA RetentionInv == ASSUME IdentityInv, Retention PROVE IdentityInv'
<1>1. TypeOK /\ Gone \subseteq live /\ None \notin Gone /\ live \subseteq EventIds
  BY LiveFacts, EventIdFacts DEF IdentityInv, Gone
<1>2. /\ live' = live \ Gone /\ clock' = clock /\ made' = made /\ feed' = feed
      /\ \A r \in Records :
              /\ home'[r] = IF Stays(r) THEN home[r] ELSE None
              /\ override'[r] = IF Stays(r) THEN override[r] ELSE None
              /\ seen'[r] = IF Stays(r) THEN seen[r] ELSE 0
              /\ latest'[r] = IF Stays(r) THEN latest[r] ELSE NoPayload
      /\ \A k \in AllKeys : keyed'[k] = IF keyed[k] \in Gone THEN None ELSE keyed[k]
      /\ \A p \in Payloads : retrieved'[p] = IF Stays(p.rec) THEN retrieved[p] ELSE 0
      /\ linked' = {l \in linked : l[1] \notin Gone}
      /\ RecordTypeOK'
  BY RetentionRows
<1>3. /\ \A e \in EventIds : /\ view'[e] = IF e \in Gone THEN NoView ELSE view[e]
                             /\ lastSeen'[e] = IF e \in Gone THEN 0 ELSE lastSeen[e]
                             /\ lastChanged'[e] = IF e \in Gone THEN 0 ELSE lastChanged[e]
                             /\ history'[e] = IF e \in Gone THEN {} ELSE KeptRevisions(e)
  BY DEF Retention
<1>4. EventTypeOK'
  <2>1. view' \in [EventIds -> ViewType]
    <3>1. NoView \in ViewType
      BY DEF NoView, ViewType
    <3> QED BY <1>1, <3>1 DEF Retention, TypeOK, EventTypeOK
  <2>2. lastSeen' \in [EventIds -> Nat] /\ lastChanged' \in [EventIds -> Nat]
    BY <1>1 DEF Retention, TypeOK, EventTypeOK
  <2>3. history' \in [EventIds -> SUBSET Nat]
    <3>1. \A e \in EventIds : KeptRevisions(e) \subseteq Nat
      BY <1>1 DEF KeptRevisions, TypeOK, EventTypeOK
    <3> QED BY <3>1 DEF Retention
  <2> QED BY <1>1, <1>2, <2>1, <2>2, <2>3 DEF TypeOK, EventTypeOK
<1>5. Assigned'
  <2>1. ASSUME NEW r \in Records
        PROVE  /\ home'[r] \in live' \cup {None} /\ keyed'[r] = home'[r]
               /\ override'[r] \in {None, home'[r]}
    <3>1. r \in AllKeys /\ home[r] \in live \cup {None} /\ keyed[r] = home[r] /\ override[r] \in {None, home[r]}
      BY DEF IdentityInv, Assigned, AllKeys
    <3> QED BY <1>2, <3>1 DEF Stays
  <2>2. \A k \in AllKeys : keyed'[k] \in live' \cup {None}
    BY <1>2 DEF IdentityInv, Assigned
  <2> QED BY <2>1, <2>2 DEF Assigned
<1>6. Observed'
  <2>1. ASSUME NEW r \in Records, home'[r] # None
        PROVE  latest'[r] \in Payloads /\ latest'[r].rec = r /\ retrieved'[latest'[r]] # 0
    <3>1. Stays(r) /\ home[r] # None /\ latest'[r] = latest[r]
      BY <1>2, <2>1
    <3>2. latest[r] \in Payloads /\ latest[r].rec = r /\ retrieved[latest[r]] # 0
      BY <3>1 DEF IdentityInv, Observed
    <3> QED BY <1>2, <3>1, <3>2
  <2>2. ASSUME NEW p \in Payloads, retrieved'[p] # 0 PROVE home'[p.rec] # None
    BY <1>2, <2>2, PayloadFacts DEF IdentityInv, Observed
  <2>3. ASSUME NEW e \in EventIds, NEW p \in Payloads
        PROVE  <<e, p>> \in linked' <=> retrieved'[p] # 0 /\ e = home'[p.rec]
    <3>1. p.rec \in Records /\ (<<e, p>> \in linked <=> retrieved[p] # 0 /\ e = home[p.rec])
      BY PayloadFacts DEF IdentityInv, Observed
    <3>2. <<e, p>> \in linked' <=> <<e, p>> \in linked /\ e \notin Gone
      BY <1>2
    <3> QED BY <1>2, <3>1, <3>2, EventIdFacts DEF Stays
  <2> QED BY <2>1, <2>2, <2>3 DEF Observed
<1>7. ClocksAgree'
  <2>1. ASSUME NEW p \in Payloads PROVE retrieved'[p] <= seen'[p.rec]
    BY <1>2, PayloadFacts DEF IdentityInv, ClocksAgree
  <2>2. ASSUME NEW r \in Records
        PROVE  seen'[r] <= clock /\ (home'[r] # None => seen'[r] <= lastSeen'[home'[r]])
    <3>1. seen[r] <= clock /\ (home[r] # None => seen[r] <= lastSeen[home[r]]) /\ clock \in Nat
      BY <1>1 DEF IdentityInv, ClocksAgree, TypeOK, EventTypeOK
    <3>2. home[r] # None => home[r] \in EventIds
      BY <1>1 DEF TypeOK, RecordTypeOK
    <3> QED BY <1>2, <1>3, <3>1, <3>2 DEF Stays
  <2>3. ASSUME NEW e \in EventIds PROVE history'[e] \subseteq history[e]
    BY <1>3 DEF KeptRevisions
  <2> QED BY <1>2, <2>1, <2>2, <2>3 DEF ClocksAgree, IdentityInv
<1>8. ASSUME NEW e \in live'
      PROVE  /\ e \in live /\ e \notin Gone /\ e \in EventIds /\ e # None
             /\ Members(e, home') = Members(e, home)
             /\ \A r \in Members(e, home) : Stays(r) /\ latest'[r] = latest[r] /\ override'[r] = override[r]
             /\ Rows(e, home', latest') = Rows(e, home, latest)
  <2>1. e \in live /\ e \notin Gone /\ e \in EventIds /\ e # None
    BY <1>1, <1>2, EventIdFacts
  <2>2. Members(e, home') = Members(e, home)
    BY <1>2, <2>1 DEF Members, Stays
  <2>3. \A r \in Members(e, home) : Stays(r) /\ latest'[r] = latest[r] /\ override'[r] = override[r]
    BY <1>2, <2>1 DEF Members, Stays
  <2> QED BY <2>1, <2>2, <2>3 DEF Rows
<1>9. EventsAreCurrent'
  <2> SUFFICES ASSUME NEW e \in live'
               PROVE  LET rows == Rows(e, home, latest) IN
                      /\ view[e].versions = rows /\ view[e].sources = {SourceOf[r] : r \in Members(e, home)}
                      /\ view[e].shown \in rows /\ \A q \in rows : view[e].shown.rec \notin q.refs
                      /\ lastChanged[e] \in history'[e] /\ \A t \in history'[e] : t <= lastChanged[e]
    BY <1>3, <1>8 DEF EventsAreCurrent
  <2>1. lastChanged[e] \in history'[e] /\ \A t \in history'[e] : t <= lastChanged[e]
    BY <1>3, <1>8 DEF KeptRevisions, IdentityInv, EventsAreCurrent
  <2> QED BY <1>8, <2>1 DEF IdentityInv, EventsAreCurrent
<1>10. ASSUME NEW r \in Records, Stays(r) PROVE KeysEver(r)' = KeysEver(r)
  BY <1>2, <1>10 DEF KeysEver
<1>11. KeysAgree'
  <2> SUFFICES ASSUME NEW p \in Payloads, retrieved'[p] # 0, override'[p.rec] = None, NEW k \in KeysOf(p)
               PROVE  keyed'[k] = home'[p.rec]
    BY DEF KeysAgree
  <2>1. p.rec \in Records /\ k \in AllKeys
    BY PayloadFacts
  <2>2. Stays(p.rec) /\ retrieved[p] # 0 /\ override[p.rec] = None
    BY <1>2, <2>1
  <2>3. keyed[k] = home[p.rec]
    BY <2>2 DEF IdentityInv, KeysAgree
  <2> QED BY <1>2, <2>1, <2>2, <2>3 DEF Stays
<1>12. KeysHaveNames'
  <2> SUFFICES ASSUME NEW k \in AllKeys, keyed'[k] # None,
                      \A r \in Members(keyed'[k], home') : override'[r] = None
               PROVE  \E r \in Members(keyed'[k], home') : k \in KeysEver(r)'
    BY DEF KeysHaveNames, Undecided
  <2>1. keyed'[k] = keyed[k] /\ keyed[k] \in live'
    BY <1>2 DEF IdentityInv, Assigned
  <2>2. Undecided(keyed[k])
    BY <1>8, <2>1 DEF Undecided
  <2>3. PICK r \in Members(keyed[k], home) : k \in KeysEver(r)
    BY <2>1, <2>2 DEF IdentityInv, KeysHaveNames
  <2>4. r \in Records /\ Stays(r) /\ r \in Members(keyed'[k], home')
    BY <1>8, <2>1, <2>3 DEF Members
  <2> QED BY <1>10, <2>3, <2>4
<1>13. HardTies'
  <2> SUFFICES ASSUME NEW e \in live', \A r \in Members(e, home') : override'[r] = None,
                      NEW S \in (SUBSET Members(e, home')) \ {{}, Members(e, home')}
               PROVE  \E a \in S, b \in Members(e, home') \ S : KeysEver(a)' \cap KeysEver(b)' # {}
    BY DEF HardTies
  <2>1. PICK a \in S, b \in Members(e, home) \ S : KeysEver(a) \cap KeysEver(b) # {}
    BY <1>8 DEF IdentityInv, HardTies
  <2>2. a \in Records /\ Stays(a) /\ b \in Records /\ Stays(b) /\ b \in Members(e, home')
    BY <1>8, <2>1 DEF Members
  <2> QED BY <1>10, <2>1, <2>2
<1> QED BY <1>2, <1>4, <1>5, <1>6, <1>7, <1>9, <1>11, <1>12, <1>13 DEF IdentityInv, TypeOK

(* split_source ***********************************************************)
(* The records of one source move to a new event; a decision holds both    *)
(* sides.                                                                  *)
SplitEffect(e, s, n) ==
  /\ live' = live \cup {n} /\ clock' = clock /\ made' = n /\ feed' = feed
  /\ latest' = latest /\ seen' = seen /\ retrieved' = retrieved
  /\ \A r \in Records :
       /\ home'[r] = IF r \in Moving(e, s) THEN n ELSE home[r]
       /\ override'[r] = IF home[r] = e THEN home'[r] ELSE override[r]
  /\ \A k \in AllKeys : keyed'[k] = IF keyed[k] = e /\ OwnsKey(s, k) THEN n ELSE keyed[k]
  /\ linked' = {l \in linked : l[2] \notin Group(e, s)} \cup ({n} \X Group(e, s))

LEMMA SplitRows ==
  ASSUME IdentityInv, NEW e \in EventIds, NEW s \in Sources, Split(e, s), NEW n, n = made + 1
  PROVE  /\ e \in live /\ n \in EventIds /\ n \notin live /\ n # e /\ n # None /\ e # None
         /\ SplitEffect(e, s, n) /\ RecordTypeOK'
         /\ Moving(e, s) = {r \in Records : home[r] = e /\ SourceOf[r] = s}
         /\ Moving(e, s) # {} /\ Moving(e, s) # Members(e, home)
         /\ Members(n, home') = Moving(e, s) /\ Members(e, home') = Members(e, home) \ Moving(e, s)
<1>1. TypeOK /\ e \in live /\ n \in EventIds /\ n \notin live
  BY LiveFacts DEF IdentityInv, Split, CanSplit
<1>2. Moving(e, s) = {r \in Records : home[r] = e /\ SourceOf[r] = s}
  BY DEF Moving, Members
<1>3. home' = [r \in Records |-> IF r \in Moving(e, s) THEN n ELSE home[r]]
  BY DEF Split
<1>4. override' = [r \in Records |-> IF r \in Members(e, home) THEN home'[r] ELSE override[r]]
  BY DEF Split
<1>5. /\ keyed' = [k \in AllKeys |-> IF keyed[k] = e /\ OwnsKey(s, k) THEN n ELSE keyed[k]]
      /\ linked' = {l \in linked : l[2] \notin Group(e, s)} \cup ({n} \X Group(e, s))
      /\ live' = live \cup {n} /\ clock' = clock /\ made' = n /\ feed' = feed
      /\ latest' = latest /\ seen' = seen /\ retrieved' = retrieved
  BY DEF Split
<1>6. SplitEffect(e, s, n)
  BY <1>3, <1>4, <1>5 DEF SplitEffect, Members
<1>7. RecordTypeOK'
  <2>1. home' \in [Records -> EventIds \cup {None}]
    BY <1>1, <1>3 DEF TypeOK, RecordTypeOK
  <2>2. override' \in [Records -> EventIds \cup {None}]
    BY <1>1, <1>4, <2>1 DEF TypeOK, RecordTypeOK
  <2>3. keyed' \in [AllKeys -> EventIds \cup {None}]
    BY <1>1, <1>5 DEF TypeOK, RecordTypeOK
  <2>4. linked' \subseteq EventIds \X Payloads
    BY <1>1, <1>5 DEF Group, TypeOK, RecordTypeOK
  <2> QED BY <1>1, <1>5, <2>1, <2>2, <2>3, <2>4 DEF TypeOK, RecordTypeOK
<1>8. Moving(e, s) # {} /\ Moving(e, s) # Members(e, home)
  BY DEF Split, CanSplit
<1>9. \A r \in Records : home[r] # n
  BY <1>1, EventIdFacts DEF IdentityInv, Assigned
<1>10. Members(n, home') = Moving(e, s) /\ Members(e, home') = Members(e, home) \ Moving(e, s)
  BY <1>1, <1>2, <1>3, <1>9 DEF Members
<1> QED BY <1>1, <1>2, <1>6, <1>7, <1>8, <1>10, EventIdFacts

LEMMA SplitInv ==
  ASSUME IdentityInv, NEW e \in EventIds, NEW s \in Sources, Split(e, s)
  PROVE  IdentityInv'
<1> DEFINE n == made + 1
           moving == Moving(e, s)
<1>1. /\ e \in live /\ n \in EventIds /\ n \notin live /\ n # e /\ n # None /\ e # None
      /\ SplitEffect(e, s, n) /\ RecordTypeOK'
      /\ moving = {r \in Records : home[r] = e /\ SourceOf[r] = s}
      /\ moving # {} /\ moving # Members(e, home)
      /\ Members(n, home') = moving /\ Members(e, home') = Members(e, home) \ moving
  BY SplitRows
<1> HIDE DEF n, moving
<1>2. TypeOK /\ live \subseteq EventIds
  BY LiveFacts DEF IdentityInv
<1>3. PICK old \in Views(Rows(e, home', latest'), retrieved'), new \in Views(Rows(n, home', latest'), retrieved') :
        view' = [view EXCEPT ![e] = old, ![n] = new]
  BY <1>1 DEF Split, n, SplitEffect
<1>4. /\ lastChanged' = [lastChanged EXCEPT ![e] = clock, ![n] = clock]
      /\ history' = [history EXCEPT ![e] = @ \cup {clock}, ![n] = {clock}]
  BY DEF Split, n
<1>5. PICK r0 \in moving : (\A x \in moving : seen[x] <= seen[r0]) /\ lastSeen' = [lastSeen EXCEPT ![n] = seen[r0]]
  BY DEF Split, n, moving
<1>6. Assigned'
  <2>1. ASSUME NEW r \in Records
        PROVE  /\ home'[r] \in live' \cup {None} /\ keyed'[r] = home'[r]
               /\ override'[r] \in {None, home'[r]}
    <3>1. r \in AllKeys /\ home[r] \in live \cup {None} /\ keyed[r] = home[r] /\ override[r] \in {None, home[r]}
      BY DEF IdentityInv, Assigned, AllKeys
    <3>2. OwnsKey(s, r) <=> SourceOf[r] = s
      BY DEF OwnsKey
    <3> QED BY <1>1, <3>1, <3>2 DEF SplitEffect, moving
  <2>2. \A k \in AllKeys : keyed'[k] \in live' \cup {None}
    BY <1>1 DEF SplitEffect, IdentityInv, Assigned
  <2> QED BY <2>1, <2>2 DEF Assigned
<1>7. Observed'
  <2>1. ASSUME NEW r \in Records, home'[r] # None
        PROVE  latest'[r] \in Payloads /\ latest'[r].rec = r /\ retrieved'[latest'[r]] # 0
    <3>1. home[r] # None
      BY <1>1, <2>1 DEF SplitEffect, moving
    <3> QED BY <1>1, <3>1 DEF SplitEffect, IdentityInv, Observed
  <2>2. ASSUME NEW p \in Payloads, retrieved'[p] # 0 PROVE home'[p.rec] # None
    BY <1>1, <2>2, PayloadFacts DEF SplitEffect, IdentityInv, Observed
  <2>3. ASSUME NEW x \in EventIds, NEW p \in Payloads
        PROVE  <<x, p>> \in linked' <=> retrieved'[p] # 0 /\ x = home'[p.rec]
    <3>1. p.rec \in Records /\ (<<x, p>> \in linked <=> retrieved[p] # 0 /\ x = home[p.rec])
      BY PayloadFacts DEF IdentityInv, Observed
    <3>2. p \in Group(e, s) <=> retrieved[p] # 0 /\ p.rec \in moving
      BY DEF Group, moving
    <3>3. <<x, p>> \in linked' <=> (<<x, p>> \in linked /\ p \notin Group(e, s)) \/ (x = n /\ p \in Group(e, s))
      BY <1>1 DEF SplitEffect
    <3>4. home'[p.rec] = (IF p.rec \in moving THEN n ELSE home[p.rec]) /\ retrieved' = retrieved
      BY <1>1, <3>1 DEF SplitEffect, moving
    <3> QED BY <3>1, <3>2, <3>3, <3>4
  <2> QED BY <2>1, <2>2, <2>3 DEF Observed
<1>8. ClocksAgree'
  <2>1. ASSUME NEW p \in Payloads PROVE retrieved'[p] <= seen'[p.rec]
    BY <1>1 DEF SplitEffect, IdentityInv, ClocksAgree
  <2>2. ASSUME NEW r \in Records
        PROVE  seen'[r] <= clock' /\ (home'[r] # None => seen'[r] <= lastSeen'[home'[r]])
    <3>1. seen[r] <= clock /\ (home[r] # None => seen[r] <= lastSeen[home[r]])
      BY DEF IdentityInv, ClocksAgree
    <3>2. home[r] \in live \cup {None}
      BY DEF IdentityInv, Assigned
    <3>3. lastSeen \in [EventIds -> Nat]
      BY <1>2 DEF TypeOK, EventTypeOK
    <3>4. lastSeen'[n] = seen[r0] /\ \A x \in EventIds : x # n => lastSeen'[x] = lastSeen[x]
      BY <1>1, <1>5, <3>3
    <3>5. CASE r \in moving
      <4>1. home'[r] = n /\ seen' = seen /\ clock' = clock
        BY <1>1, <3>5 DEF SplitEffect, moving
      <4> QED BY <1>5, <3>1, <3>4, <3>5, <4>1
    <3>6. CASE r \notin moving
      <4>1. home'[r] = home[r] /\ seen' = seen /\ clock' = clock
        BY <1>1, <3>6 DEF SplitEffect, moving
      <4>2. home[r] # None => home[r] \in EventIds /\ home[r] # n
        BY <1>1, <1>2, <3>2
      <4> QED BY <3>1, <3>4, <4>1, <4>2
    <3> QED BY <3>5, <3>6
  <2>3. ASSUME NEW x \in EventIds, NEW t \in history'[x] PROVE t <= clock'
    <3>1. clock \in Nat /\ clock' = clock /\ history \in [EventIds -> SUBSET Nat]
      BY <1>1, <1>2 DEF SplitEffect, TypeOK, EventTypeOK
    <3>2. t \in history[x] \/ t = clock
      BY <1>1, <1>4, <2>3, <3>1
    <3> QED BY <3>1, <3>2 DEF IdentityInv, ClocksAgree
  <2> QED BY <2>1, <2>2, <2>3 DEF ClocksAgree
<1>9. ASSUME NEW x \in {e, n}, NEW v \in Views(Rows(x, home', latest'), retrieved')
      PROVE  /\ v \in ViewType
             /\ v.versions = Rows(x, home', latest') /\ v.sources = {SourceOf[r] : r \in Members(x, home')}
             /\ v.shown \in Rows(x, home', latest') /\ \A q \in Rows(x, home', latest') : v.shown.rec \notin q.refs
  <2>1. x # None /\ clock' = clock /\ clock \in Nat
    BY <1>1, <1>2 DEF SplitEffect, TypeOK, EventTypeOK
  <2>2. Rows(x, home', latest') \subseteq Payloads
    BY <1>7, <2>1 DEF Rows, Members, Observed
  <2>3. {SourceOf[q.rec] : q \in Rows(x, home', latest')} = {SourceOf[r] : r \in Members(x, home')}
    BY <1>7, <2>1 DEF Rows, Members, Observed
  <2> QED BY <1>9, <2>1, <2>2, <2>3, ViewFacts
<1>10. EventTypeOK'
  <2>1. made' \in 0..MaxEvents /\ live' \subseteq 1..made'
    BY <1>1, <1>2, BoundAssumption DEF SplitEffect, TypeOK, EventTypeOK, EventIds, n
  <2>2. view' \in [EventIds -> ViewType]
    BY <1>2, <1>3, <1>9 DEF TypeOK, EventTypeOK
  <2>3. lastSeen' \in [EventIds -> Nat]
    <3>1. seen[r0] \in Nat
      BY <1>1, <1>2, <1>5 DEF TypeOK, RecordTypeOK
    <3> QED BY <1>2, <1>5, <3>1 DEF TypeOK, EventTypeOK
  <2>4. lastChanged' \in [EventIds -> Nat] /\ history' \in [EventIds -> SUBSET Nat]
    BY <1>2, <1>4 DEF TypeOK, EventTypeOK
  <2> QED BY <1>1, <1>2, <2>1, <2>2, <2>3, <2>4 DEF SplitEffect, TypeOK, EventTypeOK
<1>11. ASSUME NEW x \in live', x # e, x # n
       PROVE  /\ x \in live /\ x \in EventIds /\ Members(x, home') = Members(x, home)
              /\ \A r \in Members(x, home) : override'[r] = override[r]
              /\ Rows(x, home', latest') = Rows(x, home, latest)
  <2>1. x \in live /\ x \in EventIds
    BY <1>1, <1>2, <1>11 DEF SplitEffect
  <2>2. Members(x, home') = Members(x, home)
    BY <1>1, <1>11 DEF SplitEffect, Members, moving
  <2>3. \A r \in Members(x, home) : override'[r] = override[r]
    BY <1>1, <1>11 DEF SplitEffect, Members
  <2>4. latest' = latest
    BY <1>1 DEF SplitEffect
  <2> QED BY <2>1, <2>2, <2>3, <2>4 DEF Rows
<1>12. EventsAreCurrent'
  <2> SUFFICES ASSUME NEW x \in live'
               PROVE  LET rows == Rows(x, home', latest') IN
                      /\ view'[x].versions = rows /\ view'[x].sources = {SourceOf[r] : r \in Members(x, home')}
                      /\ view'[x].shown \in rows /\ \A q \in rows : view'[x].shown.rec \notin q.refs
                      /\ lastChanged'[x] \in history'[x] /\ \A t \in history'[x] : t <= lastChanged'[x]
    BY DEF EventsAreCurrent
  <2>1. CASE x \in {e, n}
    <3>1. view'[x] \in Views(Rows(x, home', latest'), retrieved')
      BY <1>1, <1>2, <1>3, <2>1 DEF TypeOK, EventTypeOK
    <3>2. lastChanged'[x] = clock /\ history'[x] \subseteq history[e] \cup {clock} /\ clock \in history'[x]
      BY <1>1, <1>2, <1>4, <2>1 DEF TypeOK, EventTypeOK
    <3>3. clock \in Nat /\ \A t \in history[e] : t <= clock
      BY <1>2 DEF IdentityInv, ClocksAgree, TypeOK, EventTypeOK
    <3> QED BY <1>9, <2>1, <3>1, <3>2, <3>3
  <2>2. CASE x \notin {e, n}
    <3>1. view'[x] = view[x] /\ lastChanged'[x] = lastChanged[x] /\ history'[x] = history[x]
      BY <1>2, <1>3, <1>4, <1>11, <2>2 DEF TypeOK, EventTypeOK
    <3> QED BY <1>11, <2>2, <3>1 DEF IdentityInv, EventsAreCurrent
  <2> QED BY <2>1, <2>2
<1>13. \A r \in Records : KeysEver(r)' = KeysEver(r)
  BY <1>1 DEF SplitEffect, KeysEver
<1>14. \A x \in {e, n} : \E r \in Members(x, home') : override'[r] # None
  <2>1. \A r \in Members(e, home) : override'[r] # None
    BY <1>1 DEF SplitEffect, Members, moving
  <2>2. \A x \in {e, n} : Members(x, home') # {} /\ Members(x, home') \subseteq Members(e, home)
    BY <1>1 DEF Members
  <2> QED BY <2>1, <2>2
<1>15. KeysAgree'
  <2> SUFFICES ASSUME NEW p \in Payloads, retrieved'[p] # 0, override'[p.rec] = None, NEW k \in KeysOf(p)
               PROVE  keyed'[k] = home'[p.rec]
    BY DEF KeysAgree
  <2>1. p.rec \in Records /\ k \in AllKeys /\ retrieved[p] # 0
    BY <1>1, PayloadFacts DEF SplitEffect
  <2>2. home[p.rec] # e /\ override[p.rec] = None /\ home'[p.rec] = home[p.rec]
    BY <1>1, <2>1 DEF SplitEffect, moving
  <2>3. keyed[k] = home[p.rec]
    BY <2>1, <2>2 DEF IdentityInv, KeysAgree
  <2> QED BY <1>1, <2>1, <2>2, <2>3 DEF SplitEffect
<1>16. KeysHaveNames'
  <2> SUFFICES ASSUME NEW k \in AllKeys, keyed'[k] # None,
                      \A r \in Members(keyed'[k], home') : override'[r] = None
               PROVE  \E r \in Members(keyed'[k], home') : k \in KeysEver(r)'
    BY DEF KeysHaveNames, Undecided
  <2>1. keyed'[k] \notin {e, n} /\ keyed'[k] \in live'
    BY <1>6, <1>14 DEF Assigned
  <2>2. keyed'[k] = keyed[k]
    BY <1>1, <2>1 DEF SplitEffect
  <2>3. Undecided(keyed[k])
    BY <1>11, <2>1, <2>2 DEF Undecided
  <2>4. PICK r \in Members(keyed[k], home) : k \in KeysEver(r)
    BY <2>2, <2>3 DEF IdentityInv, KeysHaveNames
  <2> QED BY <1>11, <1>13, <2>1, <2>2, <2>4 DEF Members
<1>17. HardTies'
  <2> SUFFICES ASSUME NEW x \in live', \A r \in Members(x, home') : override'[r] = None,
                      NEW S \in (SUBSET Members(x, home')) \ {{}, Members(x, home')}
               PROVE  \E a \in S, b \in Members(x, home') \ S : KeysEver(a)' \cap KeysEver(b)' # {}
    BY DEF HardTies
  <2>1. x \notin {e, n}
    BY <1>14
  <2>2. PICK a \in S, b \in Members(x, home) \ S : KeysEver(a) \cap KeysEver(b) # {}
    BY <1>11, <2>1 DEF IdentityInv, HardTies
  <2> QED BY <1>11, <1>13, <2>1, <2>2 DEF Members
<1> QED BY <1>1, <1>6, <1>7, <1>8, <1>10, <1>12, <1>15, <1>16, <1>17 DEF IdentityInv, TypeOK

LEMMA NextInv == ASSUME IdentityInv, [Next]_vars PROVE IdentityInv'
<1>1. CASE \E p \in feed, e \in EventIds : Ingest(p, e)
  <2>1. PICK p \in feed, e \in EventIds : Ingest(p, e)
    BY <1>1
  <2> QED BY <2>1, IngestRows, IngestAssigned, IngestEvents, IngestKeys DEF IdentityInv, TypeOK
<1>2. CASE UNCHANGED vars
  <2>1. EventTypeOK' /\ RecordTypeOK'
    BY <1>2 DEF vars, eventVars, recordVars, IdentityInv, TypeOK, EventTypeOK, RecordTypeOK
  <2>2. Assigned' /\ Observed' /\ ClocksAgree'
    BY <1>2 DEF vars, eventVars, recordVars, IdentityInv, Assigned, Observed, ClocksAgree
  <2>3. EventsAreCurrent' /\ KeysAgree' /\ KeysHaveNames' /\ HardTies'
    BY <1>2 DEF vars, eventVars, recordVars, IdentityInv, EventsAreCurrent, KeysAgree, KeysHaveNames,
           HardTies, Undecided, KeysEver
  <2> QED BY <2>1, <2>2, <2>3 DEF IdentityInv, TypeOK
<1> QED BY <1>1, <1>2, TickInv, ExpireInv, RetentionInv, SplitInv DEF Next

(* theorems ***************************************************************)
(* Evidence, keys, decisions, views and clocks agree after every document, *)
(* expiry, retention and split (ingestion.py:220-329, 397-474, 678-732 and *)
(* identity_review.py:164-278): the invariant the theorems below rest on.  *)
THEOREM IdentityInvariant == Spec => []IdentityInv
BY InitInv, NextInv, PTL DEF Spec

(* The rows have the values their columns allow.                           *)
THEOREM IdentityTypeCorrect == Spec => []TypeOK
<1>1. IdentityInv => TypeOK
  BY DEF IdentityInv
<1> QED BY <1>1, IdentityInvariant, PTL

(* Records, own keys, decisions and evidence name one event                *)
(* (ingestion.py:253-256; identity_review.py:115-131).                     *)
THEOREM RecordsOfOneEvent == Spec => []RecordsAgree
<1>1. ASSUME IdentityInv PROVE RecordsAgree
  <2>1. ASSUME NEW p \in Payloads, retrieved[p] # 0
        PROVE  home[p.rec] # None /\ {e \in EventIds : <<e, p>> \in linked} = {home[p.rec]}
    <3>1. p.rec \in Records /\ home[p.rec] # None /\ home[p.rec] \in EventIds
      BY <1>1, <2>1, PayloadFacts DEF IdentityInv, Observed, TypeOK, RecordTypeOK
    <3> QED BY <1>1, <2>1, <3>1 DEF IdentityInv, Observed
  <2> QED BY <1>1, <2>1 DEF IdentityInv, Assigned, RecordsAgree
<1> QED BY <1>1, IdentityInvariant, PTL

(* Every event shows what its records say now (ingestion.py:400-448).      *)
THEOREM EventsShowTheirRecords == Spec => []EventsAreCurrent
<1>1. IdentityInv => EventsAreCurrent
  BY DEF IdentityInv
<1> QED BY <1>1, IdentityInvariant, PTL

(* Only hard identifiers and decisions merge (ARCHITECTURE.md:54).         *)
THEOREM OnlyKeysMerge == Spec => []HardTies
<1>1. IdentityInv => HardTies
  BY DEF IdentityInv
<1> QED BY <1>1, IdentityInvariant, PTL

(* Conflicting identifiers are refused (ingestion.py:257-258).             *)
THEOREM KeysStayTogether == Spec => []KeysAgree
<1>1. IdentityInv => KeysAgree
  BY DEF IdentityInv
<1> QED BY <1>1, IdentityInvariant, PTL

(* Retention, which asks only for the clocks of an event, forgets no record*)
(* read since the cutoff (ingestion.py:721-726).                           *)
THEOREM RecentRecordsStay == Spec => OnlyStaleForgotten
<1>1. ASSUME IdentityInv, [Next]_vars, NEW r \in Records, home[r] # None, home'[r] = None
      PROVE  seen[r] < Cutoff
  <2>1. Retention
    <3>1. ASSUME NEW p \in feed, NEW e \in EventIds PROVE ~Ingest(p, e)
      <4> SUFFICES ASSUME Ingest(p, e) PROVE FALSE
        OBVIOUS
      <4>1. IngestEffect(p, e) /\ e # None
        BY <1>1, IngestRows, EventIdFacts
      <4> QED BY <1>1, <4>1 DEF IngestEffect
    <3>2. ASSUME NEW e \in EventIds, NEW s \in Sources PROVE ~Split(e, s)
      <4> SUFFICES ASSUME Split(e, s) PROVE FALSE
        OBVIOUS
      <4>1. SplitEffect(e, s, made + 1) /\ made + 1 # None
        BY <1>1, SplitRows
      <4> QED BY <1>1, <4>1 DEF SplitEffect
    <3>3. home' # home
      BY <1>1
    <3> QED BY <1>1, <3>1, <3>2, <3>3 DEF Next, Tick, Expire, vars, recordVars
  <2>2. home[r] \in Gone
    BY <1>1, <2>1, RetentionRows DEF Stays
  <2>3. seen[r] <= lastSeen[home[r]] /\ lastSeen[home[r]] < Cutoff /\ home[r] \in EventIds
    BY <1>1, <2>2, LiveFacts DEF Gone, IdentityInv, ClocksAgree
  <2>4. seen[r] \in Nat /\ lastSeen[home[r]] \in Nat /\ Cutoff \in Int
    BY <1>1, <2>3, BoundAssumption DEF Cutoff, IdentityInv, TypeOK, EventTypeOK, RecordTypeOK
  <2> QED BY <2>3, <2>4
<1>2. IdentityInv /\ [Next]_vars
        => [\A r \in Records : home[r] # None /\ home'[r] = None => seen[r] < Cutoff]_vars
  BY <1>1
<1> QED BY <1>2, IdentityInvariant, PTL DEF Spec, OnlyStaleForgotten

(* No older or historical payload replaces a newer one (ARCHITECTURE.md:33;*)
(* ingestion.py:305-311).                                                  *)
THEOREM MaterialNeverGoesBack == Spec => NeverBackwards
<1>1. ASSUME IdentityInv, [Next]_vars, NEW r \in Records,
             home[r] # None, home'[r] # None, latest'[r] # latest[r]
      PROVE  latest'[r].rank >= latest[r].rank /\ retrieved[latest'[r]] = 0
  <2>1. CASE \E p \in feed, e \in EventIds : Ingest(p, e)
    <3>1. PICK p \in feed, e \in EventIds : Ingest(p, e)
      BY <2>1
    <3>2. IngestEffect(p, e)
      BY <1>1, <3>1, IngestRows
    <3>3. r = p.rec /\ Replaces(p) /\ latest'[r] = p
      BY <1>1, <3>2 DEF IngestEffect
    <3> QED BY <1>1, <3>3 DEF Replaces
  <2>2. CASE Retention
    <3>1. Stays(r)
      BY <1>1, <2>2, RetentionRows
    <3> QED BY <1>1, <2>2, <3>1, RetentionRows
  <2>3. CASE \E e \in EventIds, s \in Sources : Split(e, s)
    BY <1>1, <2>3 DEF Split
  <2>4. CASE Tick \/ Expire \/ UNCHANGED vars
    BY <1>1, <2>4 DEF Tick, Expire, vars, recordVars
  <2> QED BY <1>1, <2>1, <2>2, <2>3, <2>4 DEF Next
<1>2. IdentityInv /\ [Next]_vars
        => [\A r \in Records : home[r] # None /\ home'[r] # None /\ latest'[r] # latest[r] =>
              latest'[r].rank >= latest[r].rank /\ retrieved[latest'[r]] = 0]_vars
  BY <1>1
<1> QED BY <1>2, IdentityInvariant, PTL DEF Spec, NeverBackwards
=============================================================================
