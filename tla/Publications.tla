----------------------------- MODULE Publications -----------------------------
(***************************************************************************)
(* The chain of public snapshots.  Every build reads all sources into a    *)
(* new database and may read the publication that is on the page, to keep  *)
(* the records of sources that fail now; what it writes is what the next   *)
(* build may keep in its turn (public_snapshot.py).  Before it is deployed *)
(* the validator of the browser must accept it (build-pages.mjs).  The     *)
(* workflow runs one build at a time, on a new host with any clock.        *)
(***************************************************************************)
EXTENDS Integers, FiniteSets

CONSTANTS
  Sources,      \* PUBLIC_SOURCE_IDS
  Records,      \* pairs of a source and a provider_record_id
  SourceOf,     \* SourceOf[r]: the source of record r
  MaxEvents,    \* MAX_EVENTS
  MaxEvidence,  \* the 20 items of evidence both validators admit
  Slack,        \* the 5 minutes by which a publication may be in the future
  MaxClock, MaxReadings   \* bounds of the model

ASSUME SourceAssumption == SourceOf \in [Records -> Sources]
ASSUME FiniteAssumption == IsFiniteSet(Records)
ASSUME BoundAssumption ==
  /\ MaxEvents \in Nat /\ MaxEvidence \in Nat /\ Slack \in Nat
  /\ MaxClock \in Nat /\ MaxReadings \in Nat

Never == 0
SourceLine(status, success, count) == [status |-> status, success |-> success, count |-> count]
Snapshot(at, events, lines) == [at |-> at, events |-> events, lines |-> lines]
NoSnapshot == Snapshot(Never, {}, [s \in Sources |-> SourceLine("error", Never, 0)])

(* An event's public id is computed from its records alone, so the set of  *)
(* its records stands for it.                                              *)
Event(records, reading, cached, relations) ==
  [records |-> records, reading |-> reading, cached |-> cached, relations |-> relations]

VARIABLES
  clock,        \* utcnow() of the host that builds
  readings,     \* publications so far; their number stands for retrieved_at
  site,         \* the publication on the page
  building,     \* a build is under way
  previous,     \* the publication it may take records from
  artifact      \* web/public/snapshot.json of the build, once it is written

vars == <<clock, readings, site, building, previous, artifact>>

Init ==
  /\ clock = 1 /\ readings = 0 /\ site = NoSnapshot
  /\ building = FALSE /\ previous = NoSnapshot /\ artifact = NoSnapshot

(* A clock that changes between the file and its validation could only make*)
(* the build fail, which it may anyway.                                    *)
SetClock ==
  /\ artifact = NoSnapshot
  /\ clock' \in 1..MaxClock
  /\ UNCHANGED <<readings, site, building, previous, artifact>>

SourcesOf(e) == {SourceOf[r] : r \in e.records}
Ids(events) == {e.records : e \in events}
RecordsIn(events) == UNION Ids(events)
Own(s, records) == {r \in records : SourceOf[r] = s}

(* validate_previous_snapshot: its clock; unique ids and pairs of a source *)
(* and a record; the number of items of evidence; targets of relations.    *)
ValidClock(p, now) == p.at <= now + Slack
ValidContent(p) ==
  /\ Cardinality(p.events) <= MaxEvents
  /\ \A e, f \in p.events : e # f => e.records \cap f.records = {}
  /\ \A e \in p.events :
       /\ Cardinality(e.records) \in 1..MaxEvidence
       /\ e.relations \subseteq Ids(p.events)

(* load_previous_snapshot: without an address, an answer or a valid file,  *)
(* the build goes on without a previous publication.                       *)
Load ==
  /\ ~building /\ readings < MaxReadings
  /\ building' = TRUE
  /\ \/ previous' = NoSnapshot
     \/ ValidClock(site, clock) /\ ValidContent(site) /\ previous' = site
  /\ UNCHANGED <<clock, readings, site, artifact>>

(* The build or its deployment fails, for one of the reasons encode_snapshot*)
(* and the validators name or any other: the page stays as it is, and the  *)
(* file is gone with the host.                                             *)
Fail ==
  /\ building
  /\ building' = FALSE /\ previous' = NoSnapshot /\ artifact' = NoSnapshot
  /\ UNCHANGED <<clock, readings, site>>

(* How records share events in the new database is the business of         *)
(* Identity; any grouping may come.                                        *)
Groupings(records) ==
  {{{r \in records : leader[r] = leader[q]} : q \in records} : leader \in [records -> records]}

(* encode_snapshot ********************************************************)
(* Faulty variants: a partial read without records counts as a read; what  *)
(* was not read is kept, failed or not; relations are kept whole; a failed *)
(* source reports no last success.                                         *)
StatusNominal(outcome, accepted, s) == outcome[s]
KeptUnread(e, status) == TRUE
RelationsWhole(e, ids) == e.relations
FailedLineForgetful(s, kept) == SourceLine("error", Never, Cardinality(Own(s, RecordsIn(kept))))

(* A partial read that accepted nothing is a failure.                      *)
Status(outcome, accepted, s) ==
  IF outcome[s] = "partial" /\ Own(s, accepted) = {} THEN "error" ELSE outcome[s]

(* last_success_at of the new database: persist_batch.                     *)
Success(outcome, accepted, s) ==
  IF outcome[s] = "ok" \/ Own(s, accepted) # {} THEN readings + 1 ELSE Never

(* event_detail and sanitize_event of one event of the new database.       *)
FreshEvent(group, groups, related) ==
  Event(group, readings + 1, FALSE, {g \in groups : {g, group} \in related})

(* _retain_previous_reads: all sources of a kept event have failed.        *)
Kept(e, status) == \A s \in SourcesOf(e) : status[s] = "error"

Retained(fresh, status) ==
  {e \in previous.events :
     /\ Kept(e, status)
     /\ e.records \notin Ids(fresh) /\ e.records \cap RecordsIn(fresh) = {}
     /\ \A s \in SourcesOf(e) : previous.lines[s].success # Never}

Marked(e) == Event(e.records, e.reading, TRUE, e.relations)
Relations(e, ids) == e.relations \cap ids

Merge(fresh, kept) ==
  LET merged == fresh \cup {Marked(e) : e \in kept} IN
  {Event(e.records, e.reading, e.cached, Relations(e, Ids(merged))) : e \in merged}

(* The line of a failed source: its last known success, and what is kept.  *)
FailedLine(s, kept) ==
  SourceLine("error", previous.lines[s].success, Cardinality(Own(s, RecordsIn(kept))))

Encode(outcome, accepted, groups, related) ==
  LET status == [s \in Sources |-> Status(outcome, accepted, s)]
      fresh == {FreshEvent(g, groups, related) : g \in groups}
      kept == Retained(fresh, status)
      events == Merge(fresh, kept)
  IN
  /\ \E s \in Sources : status[s] # "error"
  /\ ValidClock(previous, clock)
  /\ Cardinality(fresh) <= MaxEvents /\ Cardinality(events) <= MaxEvents
  /\ artifact' = Snapshot(clock, events, [s \in Sources |->
                IF status[s] = "error" THEN FailedLine(s, kept)
                ELSE SourceLine(status[s], Success(outcome, accepted, s), Cardinality(Own(s, accepted)))])

(* The build writes its file; a source that fails leaves nothing in the new*)
(* database.                                                               *)
Write ==
  /\ building /\ artifact = NoSnapshot
  /\ \E outcome \in [Sources -> {"ok", "partial", "error"}], accepted \in SUBSET Records :
       /\ \A r \in accepted : outcome[SourceOf[r]] # "error"
       /\ \E groups \in Groupings(accepted) :
            \E related \in SUBSET {pair \in SUBSET groups : Cardinality(pair) = 2} :
               Encode(outcome, accepted, groups, related)
  /\ UNCHANGED <<clock, readings, site, building, previous>>

(* validatePublicSnapshot of the browser: unique ids, items of evidence,   *)
(* targets of relations.  Two events may share a record here.              *)
WebAccepts(p) ==
  /\ Cardinality(p.events) <= MaxEvents
  /\ \A e, f \in p.events : e # f => e.records # f.records
  /\ \A e \in p.events :
       /\ Cardinality(e.records) \in 1..MaxEvidence
       /\ e.relations \subseteq Ids(p.events)

(* build:pages validates the file; what it accepts is deployed.            *)
Publish ==
  /\ artifact # NoSnapshot /\ ValidClock(artifact, clock) /\ WebAccepts(artifact)
  /\ site' = artifact /\ readings' = readings + 1
  /\ building' = FALSE /\ previous' = NoSnapshot /\ artifact' = NoSnapshot
  /\ UNCHANGED clock

Next == SetClock \/ Load \/ Fail \/ Write \/ Publish

Spec == Init /\ [][Next]_vars

(* properties *************************************************************)
EventType == [records : SUBSET Records, reading : Nat, cached : BOOLEAN, relations : SUBSET SUBSET Records]
LineType == [status : {"ok", "partial", "error"}, success : Nat, count : Nat]
IsSnapshot(p) ==
  /\ p = Snapshot(p.at, p.events, p.lines)
  /\ p.at \in Nat /\ p.lines \in [Sources -> LineType]
  /\ \A e \in p.events : e \in EventType

(* Every variable keeps its type; a published line has a state the page     *)
(* knows.                                                                  *)
TypeOK ==
  /\ clock \in Nat /\ readings \in Nat /\ building \in BOOLEAN
  /\ IsSnapshot(site) /\ IsSnapshot(previous) /\ IsSnapshot(artifact)

(* A source that fails can be bridged again and again only while the next  *)
(* build can read the publication this one made (public_snapshot.py:301),  *)
(* so the page always passes validate_previous_snapshot, which asks for    *)
(* more than the browser does.  What encode_snapshot writes passes the     *)
(* browser's validator, but for an event of too many records, which nothing*)
(* there prevents.                                                         *)
PublishedIsReadable ==
  /\ ValidContent(site)
  /\ WebAccepts(artifact) \/ \E e \in artifact.events : Cardinality(e.records) > MaxEvidence

(* "Zachowano poprzednie publiczne dane z oryginalnymi datami" (:277): over*)
(* any number of failing builds, the last success a source reports is the  *)
(* very reading its records on the page come from.                         *)
DatesAgree ==
  \A e \in site.events : e.reading # Never /\ \A s \in SourcesOf(e) : site.lines[s].success = e.reading

(* An event is marked cached_public_data exactly if its sources failed, and*)
(* none mixes a failed source with one that was read (:260).               *)
MarksAgree ==
  \A e \in site.events : \A s \in SourcesOf(e) : e.cached = (site.lines[s].status = "error")

(* The number a source reports is the number of its records on the page,   *)
(* fresh or kept (:272).                                                   *)
CountsAgree ==
  site # NoSnapshot =>
    \A s \in Sources : site.lines[s].count = Cardinality(Own(s, RecordsIn(site.events)))

(* All that the page says of its sources is true of the records it shows.  *)
LinesAgree == DatesAgree /\ MarksAgree /\ CountsAgree

(* A total failure, even one that calls itself partial, never replaces a   *)
(* good publication by emptiness (:291): an event none of whose sources was*)
(* read anew stays, with its records and its date.                         *)
GoodReadsStay ==
  [][\A e \in previous.events :
       (readings' # readings /\ \A s \in SourcesOf(e) : site'.lines[s].success # readings') =>
         \E f \in site'.events : f.records = e.records /\ f.reading = e.reading]_vars

(* Of each source the page shows one reading, or what is left of it: the   *)
(* promise of PublicView.                                                  *)
Shown ==
  [s \in Sources |->
     UNION {{<<r, e.reading>> : r \in Own(s, e.records)} : e \in site.events}]

Page == INSTANCE PublicView WITH reading <- readings, shown <- Shown

RefinesPublicView == Page!Spec
=============================================================================
