-------------------------- MODULE PublicationsProofs --------------------------
(***************************************************************************)
(* Proofs about Publications, for any sources, records and bounds.  The    *)
(* argument: a build keeps only events all of whose sources failed, from a *)
(* publication that passed the validation, so what it writes is made of two*)
(* parts with no source in common, each of which agrees with its lines.    *)
(***************************************************************************)
EXTENDS Publications, FiniteSetTheorems, TLAPS

(* What a build may keep is what is on the page, if it can be read.        *)
PreviousIsSite == previous = NoSnapshot \/ (previous = site /\ ValidContent(site))

(* What the file of a build consists of, given the sources that failed.    *)
IsFresh(f, failed) ==
  f.reading = readings + 1 /\ f.cached = FALSE /\ SourcesOf(f) \cap failed = {}
IsKept(f, failed) ==
  /\ f.cached = TRUE /\ SourcesOf(f) \subseteq failed
  /\ \E e \in previous.events : f.records = e.records /\ f.reading = e.reading

WroteEvents(failed) ==
  /\ \A f \in artifact.events :
       /\ IsFresh(f, failed) \/ IsKept(f, failed)
       /\ f.records # {} /\ f.records \subseteq Records
       /\ f.relations \subseteq Ids(artifact.events)
       /\ f = Event(f.records, f.reading, f.cached, f.relations)
  /\ \A f, g \in artifact.events : f # g => f.records \cap g.records = {}
  /\ \A e \in previous.events : SourcesOf(e) \subseteq failed =>
       \E f \in artifact.events : f.records = e.records /\ f.reading = e.reading
  /\ Cardinality(artifact.events) <= MaxEvents

WroteLines(failed) ==
  /\ artifact.at \in Nat /\ artifact = Snapshot(artifact.at, artifact.events, artifact.lines)
  /\ artifact.lines \in [Sources -> LineType]
  /\ \A s \in failed :
       artifact.lines[s].status = "error" /\ artifact.lines[s].success = previous.lines[s].success
  /\ \A s \in Sources \ failed :
       artifact.lines[s].status # "error" /\ artifact.lines[s].success = readings + 1
  /\ \A s \in Sources : artifact.lines[s].count = Cardinality(Own(s, RecordsIn(artifact.events)))

Wrote(failed) == failed # Sources /\ WroteEvents(failed) /\ WroteLines(failed)
Built == artifact = NoSnapshot \/ \E failed \in SUBSET Sources : Wrote(failed)

PageInv ==
  /\ clock \in Nat /\ readings \in Nat /\ building \in BOOLEAN
  /\ IsSnapshot(site) /\ IsSnapshot(previous) /\ ValidContent(site)
  /\ PreviousIsSite /\ Built /\ (artifact # NoSnapshot => building)
  /\ DatesAgree /\ MarksAgree /\ CountsAgree

LEMMA GroupingFacts ==
  ASSUME NEW accepted \in SUBSET Records, NEW groups \in Groupings(accepted)
  PROVE  /\ \A g \in groups : g # {} /\ g \subseteq accepted
         /\ \A g, h \in groups : g # h => g \cap h = {}
         /\ \A r \in accepted : \E g \in groups : r \in g
<1>1. PICK leader \in [accepted -> accepted] :
        groups = {{r \in accepted : leader[r] = leader[q]} : q \in accepted}
  BY DEF Groupings
<1>2. ASSUME NEW g \in groups
      PROVE  \E q \in accepted : g = {r \in accepted : leader[r] = leader[q]}
  BY <1>1
<1>3. \A g \in groups : g # {} /\ g \subseteq accepted
  BY <1>2
<1>4. ASSUME NEW g \in groups, NEW h \in groups, g # h PROVE g \cap h = {}
  <2>1. PICK q \in accepted : g = {r \in accepted : leader[r] = leader[q]}
    BY <1>2
  <2>2. PICK p \in accepted : h = {r \in accepted : leader[r] = leader[p]}
    BY <1>2
  <2>3. leader[q] # leader[p]
    BY <1>4, <2>1, <2>2
  <2>4. QED BY <2>1, <2>2, <2>3
<1>5. ASSUME NEW r \in accepted PROVE \E g \in groups : r \in g
  <2>1. {p \in accepted : leader[p] = leader[r]} \in groups
    BY <1>1
  <2>2. QED BY <2>1
<1>6. QED BY <1>3, <1>4, <1>5

LEMMA Fields ==
  ASSUME NEW a, NEW b, NEW c, NEW d
  PROVE  /\ Event(a, b, c, d).records = a /\ Event(a, b, c, d).reading = b
         /\ Event(a, b, c, d).cached = c /\ Event(a, b, c, d).relations = d
         /\ SourceLine(a, b, c).status = a /\ SourceLine(a, b, c).success = b /\ SourceLine(a, b, c).count = c
         /\ Snapshot(a, b, c).at = a /\ Snapshot(a, b, c).events = b /\ Snapshot(a, b, c).lines = c
BY DEF Event, SourceLine, Snapshot

LEMMA FreshFields ==
  ASSUME NEW g, NEW groups, NEW related
  PROVE  /\ FreshEvent(g, groups, related).records = g
         /\ FreshEvent(g, groups, related).reading = readings + 1
         /\ FreshEvent(g, groups, related).cached = FALSE
<1>1. PICK relations : FreshEvent(g, groups, related) = Event(g, readings + 1, FALSE, relations)
  BY DEF FreshEvent
<1>2. QED BY <1>1 DEF Event

(* The events of a publication, from the fresh and the kept ones.          *)
Merged(fresh, kept, events) ==
  /\ \A f \in events :
       \/ \E e \in fresh : /\ f.records = e.records /\ f.reading = e.reading /\ f.cached = e.cached
                           /\ f.relations = e.relations \cap Ids(events)
       \/ \E e \in kept : /\ f.records = e.records /\ f.reading = e.reading /\ f.cached = TRUE
                          /\ f.relations = e.relations \cap Ids(events)
  /\ \A f \in events : /\ f.relations \subseteq Ids(events)
                       /\ f = Event(f.records, f.reading, f.cached, f.relations)
  /\ \A e \in fresh : \E f \in events : f.records = e.records /\ f.reading = e.reading
  /\ \A e \in kept : \E f \in events : f.records = e.records /\ f.reading = e.reading

LEMMA MergeFacts ==
  ASSUME NEW fresh, NEW kept
  PROVE  Merged(fresh, kept, Merge(fresh, kept))
<1> DEFINE merged == fresh \cup {Marked(e) : e \in kept}
           Out(e) == Event(e.records, e.reading, e.cached, Relations(e, Ids(merged)))
<1>1. Merge(fresh, kept) = {Out(e) : e \in merged}
  BY DEF Merge
<1>2. \A e : /\ Out(e).records = e.records /\ Out(e).reading = e.reading /\ Out(e).cached = e.cached
             /\ Out(e).relations = e.relations \cap Ids(merged)
  BY Fields DEF Relations
<1>3. \A e : /\ Marked(e).records = e.records /\ Marked(e).reading = e.reading /\ Marked(e).cached = TRUE
             /\ Marked(e).relations = e.relations
  BY DEF Marked, Event
<1>4. Ids(Merge(fresh, kept)) = Ids(merged)
  <2> HIDE DEF Out, merged
  <2>1. Ids(Merge(fresh, kept)) = {f.records : f \in {Out(e) : e \in merged}}
    BY <1>1 DEF Ids
  <2>2. QED BY <2>1, <1>2 DEF Ids
<1>5. \A e : Out(e) = Event(Out(e).records, Out(e).reading, Out(e).cached, Out(e).relations)
  BY Fields
<1> HIDE DEF Out
<1>6. ASSUME NEW f \in Merge(fresh, kept)
      PROVE  \/ \E e \in fresh : /\ f.records = e.records /\ f.reading = e.reading /\ f.cached = e.cached
                                 /\ f.relations = e.relations \cap Ids(Merge(fresh, kept))
             \/ \E e \in kept : /\ f.records = e.records /\ f.reading = e.reading /\ f.cached = TRUE
                                /\ f.relations = e.relations \cap Ids(Merge(fresh, kept))
  <2>1. PICK m \in merged : f = Out(m)
    BY <1>1
  <2>2. CASE m \in fresh
    BY <1>2, <1>4, <2>1, <2>2
  <2>3. CASE m \notin fresh
    <3>1. PICK e \in kept : m = Marked(e)
      BY <2>3
    <3>2. /\ f.records = e.records /\ f.reading = e.reading
          /\ f.relations = e.relations \cap Ids(Merge(fresh, kept))
      BY <1>2, <1>3, <1>4, <2>1, <3>1
    <3>3. f.cached = m.cached /\ m.cached = TRUE
      BY <1>2, <1>3, <2>1, <3>1
    <3>4. QED BY <3>2, <3>3
  <2>4. QED BY <2>2, <2>3
<1>7. ASSUME NEW e \in fresh
      PROVE  \E f \in Merge(fresh, kept) : f.records = e.records /\ f.reading = e.reading
  <2>1. Out(e) \in Merge(fresh, kept)
    BY <1>1
  <2>2. QED BY <2>1, <1>2
<1>8. ASSUME NEW e \in kept
       PROVE  \E f \in Merge(fresh, kept) : f.records = e.records /\ f.reading = e.reading
  <2>1. Out(Marked(e)) \in Merge(fresh, kept)
    BY <1>1
  <2>2. QED BY <2>1, <1>2, <1>3
<1>9. ASSUME NEW f \in Merge(fresh, kept)
      PROVE  /\ f.relations \subseteq Ids(Merge(fresh, kept))
             /\ f = Event(f.records, f.reading, f.cached, f.relations)
  <2>1. PICK m \in merged : f = Out(m)
    BY <1>1
  <2>2. QED BY <1>2, <1>4, <1>5, <2>1
<1>10. QED BY <1>6, <1>7, <1>9, <1>8 DEF Merged

(* What the invariant says of the publication a build may keep events of.  *)
LEMMA PreviousFacts ==
  ASSUME PageInv
  PROVE  /\ previous.lines \in [Sources -> LineType]
         /\ \A e, f \in previous.events : e # f => e.records \cap f.records = {}
         /\ \A e \in previous.events :
              /\ e.records # {} /\ e.records \subseteq Records /\ e.reading \in Nat /\ e.reading # Never
              /\ \A s \in SourcesOf(e) : previous.lines[s].success = e.reading
<1>1. CASE previous = NoSnapshot
  <2>1. previous.events = {} /\ previous.lines = [s \in Sources |-> SourceLine("error", Never, 0)]
    BY <1>1 DEF NoSnapshot, Snapshot
  <2>2. SourceLine("error", Never, 0) \in LineType
    BY DEF SourceLine, LineType, Never
  <2>3. QED BY <2>1, <2>2
<1>2. CASE previous = site /\ ValidContent(site)
  <2>1. \A e \in site.events : e.records # {}
    <3>1. Cardinality({}) = 0
      BY FS_EmptySet
    <3>2. \A e \in site.events : Cardinality(e.records) # 0
      BY <1>2, BoundAssumption DEF ValidContent
    <3>3. QED BY <3>1, <3>2
  <2>2. \A e \in site.events : e.records \subseteq Records /\ e.reading \in Nat
    BY DEF PageInv, IsSnapshot, EventType
  <2>3. site.lines \in [Sources -> LineType]
    BY DEF PageInv, IsSnapshot
  <2>4. QED BY <1>2, <2>1, <2>2, <2>3 DEF PageInv, DatesAgree, ValidContent
<1>3. QED BY <1>1, <1>2 DEF PageInv, PreviousIsSite

LEMMA EncodeFacts ==
  ASSUME PageInv, NEW outcome \in [Sources -> {"ok", "partial", "error"}], NEW accepted \in SUBSET Records,
         \A r \in accepted : outcome[SourceOf[r]] # "error",
         NEW groups \in Groupings(accepted), NEW related, Encode(outcome, accepted, groups, related),
         UNCHANGED <<readings, previous>>
  PROVE  \E failed \in SUBSET Sources : Wrote(failed)'
<1> DEFINE status == [s \in Sources |-> Status(outcome, accepted, s)]
           fresh == {FreshEvent(g, groups, related) : g \in groups}
           kept == Retained(fresh, status)
           events == Merge(fresh, kept)
           lines == [s \in Sources |->
                      IF status[s] = "error" THEN FailedLine(s, kept)
                      ELSE SourceLine(status[s], Success(outcome, accepted, s), Cardinality(Own(s, accepted)))]
           failed == {s \in Sources : status[s] = "error"}
<1>1. /\ \E s \in Sources : status[s] # "error"
      /\ Cardinality(events) <= MaxEvents
      /\ artifact' = Snapshot(clock, events, lines)
  BY DEF Encode
<1>2. artifact'.at = clock /\ artifact'.events = events /\ artifact'.lines = lines
  BY <1>1, Fields
<1>3. \A s \in Sources : status[s] \in {"ok", "partial", "error"}
  BY DEF Status
<1>4. \A r \in accepted : r \in Records /\ SourceOf[r] \in Sources /\ SourceOf[r] \notin failed
  BY SourceAssumption DEF Status, Own
<1>5. \A s \in Sources \ failed : Success(outcome, accepted, s) = readings + 1
  BY DEF Status, Success
<1>6. ASSUME NEW e \in fresh
      PROVE  \E g \in groups : /\ e = FreshEvent(g, groups, related)
                               /\ e.records = g /\ e.reading = readings + 1 /\ e.cached = FALSE
  <2>1. PICK g \in groups : e = FreshEvent(g, groups, related)
    OBVIOUS
  <2>2. /\ FreshEvent(g, groups, related).records = g
        /\ FreshEvent(g, groups, related).reading = readings + 1
        /\ FreshEvent(g, groups, related).cached = FALSE
    BY FreshFields
  <2>3. e.records = g /\ e.reading = readings + 1
    BY <2>1, <2>2
  <2>4. e.cached = FALSE
    BY <2>1, <2>2
  <2>5. QED BY <2>1, <2>3, <2>4
<1>7. ASSUME NEW g \in groups PROVE \E e \in fresh : e.records = g
  <2>1. FreshEvent(g, groups, related) \in fresh
    OBVIOUS
  <2>2. FreshEvent(g, groups, related).records = g
    BY FreshFields
  <2>3. QED BY <2>1, <2>2
<1>8. \A e \in previous.events :
        e \in kept <=> /\ Kept(e, status) /\ e.records \notin Ids(fresh) /\ e.records \cap RecordsIn(fresh) = {}
                       /\ \A s \in SourcesOf(e) : previous.lines[s].success # Never
  BY DEF Retained
<1>9. kept \subseteq previous.events
  BY DEF Retained
<1>10. \A e, d \in fresh : e.records = d.records => e = d
  <2> SUFFICES ASSUME NEW e \in fresh, NEW d \in fresh, e.records = d.records PROVE e = d
    OBVIOUS
  <2>1. PICK g \in groups : e = FreshEvent(g, groups, related) /\ e.records = g
    BY <1>6
  <2>2. PICK h \in groups : d = FreshEvent(h, groups, related) /\ d.records = h
    BY <1>6
  <2>3. g = h
    BY <2>1, <2>2
  <2>4. QED BY <2>1, <2>2, <2>3
<1> HIDE DEF status, fresh, kept, events, lines
<1>11. /\ \A g \in groups : g # {} /\ g \subseteq accepted
       /\ \A g, h \in groups : g # h => g \cap h = {}
       /\ \A r \in accepted : \E g \in groups : r \in g
  BY GroupingFacts
<1>12. \A e \in fresh : e.records \in groups /\ e.reading = readings + 1 /\ e.cached = FALSE
  BY <1>6
<1>13. RecordsIn(fresh) = accepted
  <2>1. \A r \in accepted : \E e \in fresh : r \in e.records
    BY <1>7, <1>11
  <2>2. \A e \in fresh : e.records \subseteq accepted
    BY <1>12, <1>11
  <2>3. QED BY <2>1, <2>2 DEF RecordsIn, Ids
<1>14. \A e \in kept :
         /\ e \in previous.events /\ SourcesOf(e) \subseteq failed /\ e.records \cap accepted = {}
         /\ e.records # {} /\ e.records \subseteq Records
  <2>1. ASSUME NEW e \in kept PROVE SourcesOf(e) \subseteq Sources
    BY <1>9, PreviousFacts, SourceAssumption DEF SourcesOf
  <2>2. QED BY <2>1, <1>8, <1>9, <1>13, PreviousFacts DEF Kept
<1>15. \A e \in fresh : /\ e.records # {} /\ e.records \subseteq accepted /\ SourcesOf(e) \cap failed = {}
  BY <1>4, <1>12, <1>11 DEF SourcesOf
<1>16. Merged(fresh, kept, events)
  BY MergeFacts DEF events
<1>17. ASSUME NEW f \in events
       PROVE  \/ \E e \in fresh : /\ f.records = e.records /\ f.reading = e.reading /\ f.cached = e.cached
                                  /\ f.relations = e.relations \cap Ids(events)
              \/ \E e \in kept : /\ f.records = e.records /\ f.reading = e.reading /\ f.cached = TRUE
                                 /\ f.relations = e.relations \cap Ids(events)
  BY <1>16 DEF Merged
<1>18. \A f \in events : f.relations \subseteq Ids(events) /\ f = Event(f.records, f.reading, f.cached, f.relations)
  BY <1>16 DEF Merged
<1>19. /\ \A e \in fresh : \E f \in events : f.records = e.records /\ f.reading = e.reading
       /\ \A e \in kept : \E f \in events : f.records = e.records /\ f.reading = e.reading
  BY <1>16 DEF Merged
<1>20. \A f \in events : IsFresh(f, failed) \/ IsKept(f, failed)
  <2> SUFFICES ASSUME NEW f \in events PROVE IsFresh(f, failed) \/ IsKept(f, failed)
    OBVIOUS
  <2>1. CASE \E e \in fresh : f.records = e.records /\ f.reading = e.reading /\ f.cached = e.cached
    <3>1. PICK e \in fresh : f.records = e.records /\ f.reading = e.reading /\ f.cached = e.cached
      BY <2>1
    <3>2. SourcesOf(f) = SourcesOf(e)
      BY <3>1 DEF SourcesOf
    <3>3. QED BY <1>12, <1>15, <3>1, <3>2 DEF IsFresh
  <2>2. CASE \E e \in kept : f.records = e.records /\ f.reading = e.reading /\ f.cached = TRUE
    <3>1. PICK e \in kept : f.records = e.records /\ f.reading = e.reading /\ f.cached = TRUE
      BY <2>2
    <3>2. SourcesOf(f) = SourcesOf(e)
      BY <3>1 DEF SourcesOf
    <3>3. QED BY <1>14, <3>1, <3>2 DEF IsKept
  <2>3. QED BY <1>17, <2>1, <2>2
<1>21. \A f \in events : f.records # {} /\ f.records \subseteq Records
  BY <1>14, <1>15, <1>17
<1>22. ASSUME NEW f \in events, NEW g \in events, f # g PROVE f.records \cap g.records = {}
  <2> DEFINE From(d, h) == /\ h.records = d.records /\ h.reading = d.reading
                           /\ h.relations = d.relations \cap Ids(events)
  <2>1. CASE \E d \in fresh, e \in fresh : From(d, f) /\ From(e, g) /\ f.cached = d.cached /\ g.cached = e.cached
    <3>1. PICK d \in fresh, e \in fresh : From(d, f) /\ From(e, g) /\ f.cached = d.cached /\ g.cached = e.cached
      BY <2>1
    <3>2. d = e => f = g
      BY <1>18, <3>1
    <3>3. d.records # e.records
      BY <1>10, <1>22, <3>2
    <3>4. d.records \in groups /\ e.records \in groups
      BY <1>12
    <3>5. QED BY <3>1, <3>3, <3>4, <1>11
  <2>2. CASE \E d \in kept, e \in kept : From(d, f) /\ From(e, g) /\ f.cached = TRUE /\ g.cached = TRUE
    <3>1. PICK d \in kept, e \in kept : From(d, f) /\ From(e, g) /\ f.cached = TRUE /\ g.cached = TRUE
      BY <2>2
    <3>2. ASSUME d = e PROVE f = g
      <4>1. f.records = g.records /\ f.reading = g.reading /\ f.relations = g.relations
        BY <3>1, <3>2
      <4>2. f.cached = g.cached
        BY <3>1
      <4>3. QED BY <4>1, <4>2, <1>18
    <3>3. QED BY <1>9, <1>22, <3>1, <3>2, PreviousFacts
  <2>3. CASE \E d \in fresh, e \in kept : (From(d, f) /\ From(e, g)) \/ (From(d, g) /\ From(e, f))
    <3>1. PICK d \in fresh, e \in kept : (From(d, f) /\ From(e, g)) \/ (From(d, g) /\ From(e, f))
      BY <2>3
    <3>2. d.records \cap e.records = {}
      BY <1>14, <1>15
    <3>3. QED BY <3>1, <3>2
  <2>4. /\ (\E d \in fresh : From(d, f) /\ f.cached = d.cached) \/ (\E d \in kept : From(d, f) /\ f.cached = TRUE)
        /\ (\E e \in fresh : From(e, g) /\ g.cached = e.cached) \/ (\E e \in kept : From(e, g) /\ g.cached = TRUE)
    BY <1>17
  <2> HIDE DEF From
  <2>5. QED BY <2>1, <2>2, <2>3, <2>4
<1>23. ASSUME NEW e \in previous.events, SourcesOf(e) \subseteq failed PROVE e \in kept
  <2>1. /\ e.records # {} /\ e.records \subseteq Records /\ e.reading # Never
        /\ \A s \in SourcesOf(e) : previous.lines[s].success = e.reading
    BY PreviousFacts
  <2>2. e.records \cap accepted = {}
    BY <1>4, <1>23 DEF SourcesOf
  <2>3. e.records \notin Ids(fresh)
    BY <1>15, <2>1, <2>2 DEF Ids
  <2>4. Kept(e, status)
    BY <1>23 DEF Kept
  <2>5. QED BY <1>8, <1>13, <2>1, <2>2, <2>3, <2>4
<1>24. WroteEvents(failed)'
  <2>1. \A e \in previous.events : SourcesOf(e) \subseteq failed =>
          \E f \in events : f.records = e.records /\ f.reading = e.reading
    BY <1>19, <1>23
  <2> HIDE DEF failed
  <2>2. \A f \in events : IsFresh(f, failed)' \/ IsKept(f, failed)'
    BY <1>20 DEF IsFresh, IsKept
  <2>3. QED BY <1>1, <1>2, <1>18, <1>21, <1>22, <2>1, <2>2 DEF WroteEvents
<1>25. ASSUME NEW s \in failed
       PROVE  /\ lines[s].status = "error" /\ lines[s].success = previous.lines[s].success
              /\ lines[s].count = Cardinality(Own(s, RecordsIn(events)))
              /\ lines[s] \in LineType
  <2>1. Own(s, RecordsIn(kept)) = Own(s, RecordsIn(events))
    <3>1. ASSUME NEW r, SourceOf[r] = s
          PROVE  r \in RecordsIn(kept) <=> r \in RecordsIn(events)
      <4>1. r \notin accepted
        BY <1>4, <3>1
      <4>2. (\E e \in kept : r \in e.records) <=> (\E f \in events : r \in f.records)
        BY <4>1, <1>15, <1>17, <1>19
      <4>3. QED BY <4>2 DEF RecordsIn, Ids
    <3>2. QED BY <3>1 DEF Own
  <2>2. lines[s] = FailedLine(s, kept)
    BY DEF lines
  <2>3. IsFiniteSet(Own(s, RecordsIn(kept)))
    <3>1. Own(s, RecordsIn(kept)) \subseteq Records
      BY <1>14 DEF Own, RecordsIn, Ids
    <3>2. QED BY <3>1, FiniteAssumption, FS_Subset
  <2>4. Cardinality(Own(s, RecordsIn(kept))) \in Nat
    BY <2>3, FS_CardinalityType
  <2>5. previous.lines[s].success \in Nat
    BY PreviousFacts DEF LineType
  <2>6. QED BY <2>1, <2>2, <2>4, <2>5 DEF FailedLine, SourceLine, LineType
<1>26. ASSUME NEW s \in Sources \ failed
       PROVE  /\ lines[s].status # "error" /\ lines[s].success = readings + 1
              /\ lines[s].count = Cardinality(Own(s, RecordsIn(events)))
              /\ lines[s] \in LineType
  <2>1. Own(s, accepted) = Own(s, RecordsIn(events))
    <3>1. ASSUME NEW r, SourceOf[r] = s
          PROVE  r \in accepted <=> r \in RecordsIn(events)
      <4>1. \A e \in kept : r \notin e.records
        BY <1>14, <1>26, <3>1 DEF SourcesOf
      <4>2. (\E e \in fresh : r \in e.records) <=> (\E f \in events : r \in f.records)
        BY <4>1, <1>17, <1>19
      <4>3. QED BY <4>2, <1>13 DEF RecordsIn, Ids
    <3>2. QED BY <3>1 DEF Own
  <2>2. lines[s] = SourceLine(status[s], readings + 1, Cardinality(Own(s, accepted)))
    BY <1>5 DEF lines
  <2>3. Own(s, accepted) \subseteq Records
    BY DEF Own
  <2>4. Cardinality(Own(s, accepted)) \in Nat
    BY <2>3, FiniteAssumption, FS_Subset, FS_CardinalityType
  <2>5. readings + 1 \in Nat
    BY DEF PageInv
  <2>6. QED BY <1>3, <2>1, <2>2, <2>4, <2>5 DEF SourceLine, LineType
<1>27. WroteLines(failed)'
  <2>1. lines \in [Sources -> LineType]
    <3>1. \A s \in Sources : lines[s] \in LineType
      BY <1>25, <1>26
    <3>2. QED BY <3>1 DEF lines
  <2>2. \A s \in Sources : lines[s].count = Cardinality(Own(s, RecordsIn(events)))
    BY <1>25, <1>26
  <2> HIDE DEF failed
  <2>3. clock \in Nat
    BY DEF PageInv
  <2>4. QED BY <1>1, <1>2, <1>25, <1>26, <2>1, <2>2, <2>3 DEF WroteLines
<1>28. failed # Sources
  BY <1>1
<1>29. QED BY <1>24, <1>27, <1>28 DEF Wrote

LEMMA WriteFacts ==
  ASSUME PageInv, Write
  PROVE  \E failed \in SUBSET Sources : Wrote(failed)'
<1>1. PICK outcome \in [Sources -> {"ok", "partial", "error"}], accepted \in SUBSET Records :
        /\ \A r \in accepted : outcome[SourceOf[r]] # "error"
        /\ \E groups \in Groupings(accepted) :
             \E related \in SUBSET {pair \in SUBSET groups : Cardinality(pair) = 2} :
                Encode(outcome, accepted, groups, related)
  BY DEF Write
<1>2. PICK groups \in Groupings(accepted) :
        \E related \in SUBSET {pair \in SUBSET groups : Cardinality(pair) = 2} :
           Encode(outcome, accepted, groups, related)
  BY <1>1
<1>3. PICK related \in SUBSET {pair \in SUBSET groups : Cardinality(pair) = 2} :
        Encode(outcome, accepted, groups, related)
  BY <1>2
<1>4. UNCHANGED <<readings, previous>>
  BY DEF Write
<1>5. QED BY <1>1, <1>3, <1>4, EncodeFacts

LEMMA NoSnapshotIsOne == IsSnapshot(NoSnapshot)
<1>1. NoSnapshot.at = 0 /\ NoSnapshot.events = {}
      /\ NoSnapshot.lines = [s \in Sources |-> SourceLine("error", 0, 0)]
  BY DEF NoSnapshot, Snapshot, Never
<1>2. SourceLine("error", 0, 0) \in LineType
  BY DEF SourceLine, LineType
<1>3. NoSnapshot = Snapshot(NoSnapshot.at, NoSnapshot.events, NoSnapshot.lines)
  BY <1>1 DEF NoSnapshot, Never
<1>4. QED BY <1>1, <1>2, <1>3 DEF IsSnapshot

LEMMA NoSnapshotIsValid == ValidContent(NoSnapshot) /\ WebAccepts(NoSnapshot)
<1>1. NoSnapshot.events = {}
  BY DEF NoSnapshot, Snapshot
<1>2. QED BY <1>1, FS_EmptySet, BoundAssumption DEF ValidContent, WebAccepts

LEMMA InitInv == Init => PageInv
<1> SUFFICES ASSUME Init PROVE PageInv
  OBVIOUS
<1>1. site.events = {} /\ site = NoSnapshot /\ previous = NoSnapshot /\ artifact = NoSnapshot
  BY DEF Init, NoSnapshot, Snapshot
<1>2. clock \in Nat /\ readings \in Nat /\ building \in BOOLEAN
  BY DEF Init
<1>3. QED
  BY <1>1, <1>2, NoSnapshotIsOne, NoSnapshotIsValid
     DEF PageInv, PreviousIsSite, Built, DatesAgree, MarksAgree, CountsAgree

(* The file of a build agrees with itself: each kind of event, each line.  *)
LEMMA FileFacts ==
  ASSUME PageInv, NEW failed \in SUBSET Sources, Wrote(failed)
  PROVE  \A f \in artifact.events :
           /\ f.reading \in Nat /\ f.reading # Never
           /\ f.cached \in BOOLEAN
           /\ \A s \in SourcesOf(f) : /\ artifact.lines[s].success = f.reading
                                      /\ f.cached = (artifact.lines[s].status = "error")
<1>1. WroteEvents(failed) /\ WroteLines(failed)
  BY DEF Wrote
<1>2. readings \in Nat
  BY DEF PageInv
<1>3. ASSUME NEW f \in artifact.events
      PROVE  /\ f.reading \in Nat /\ f.reading # Never
             /\ f.cached \in BOOLEAN
             /\ \A s \in SourcesOf(f) : /\ artifact.lines[s].success = f.reading
                                        /\ f.cached = (artifact.lines[s].status = "error")
  <2>1. SourcesOf(f) \subseteq Sources
    BY <1>1, SourceAssumption DEF WroteEvents, SourcesOf
  <2>2. CASE IsFresh(f, failed)
    <3>1. f.reading = readings + 1 /\ f.cached = FALSE
      BY <2>2 DEF IsFresh
    <3>2. \A s \in SourcesOf(f) : artifact.lines[s].status # "error" /\ artifact.lines[s].success = readings + 1
      BY <1>1, <2>1, <2>2 DEF IsFresh, WroteLines
    <3>3. f.reading \in Nat /\ f.reading # Never
      BY <1>2, <3>1 DEF Never
    <3>4. f.cached \in BOOLEAN /\ \A s \in SourcesOf(f) : f.cached = (artifact.lines[s].status = "error")
      BY <3>1, <3>2, Zenon
    <3>5. QED BY <3>1, <3>2, <3>3, <3>4
  <2>3. CASE IsKept(f, failed)
    <3>1. PICK e \in previous.events : f.records = e.records /\ f.reading = e.reading
      BY <2>3 DEF IsKept
    <3>2. SourcesOf(f) = SourcesOf(e) /\ SourcesOf(f) \subseteq failed /\ f.cached = TRUE
      BY <2>3, <3>1 DEF IsKept, SourcesOf
    <3>3. \A s \in SourcesOf(f) :
            artifact.lines[s].status = "error" /\ artifact.lines[s].success = previous.lines[s].success
      BY <1>1, <3>2 DEF WroteLines
    <3>4. /\ e.reading \in Nat /\ e.reading # Never
          /\ \A s \in SourcesOf(e) : previous.lines[s].success = e.reading
      BY PreviousFacts
    <3>5. QED BY <3>1, <3>2, <3>3, <3>4
  <2>4. QED BY <1>1, <2>2, <2>3 DEF WroteEvents
<1>4. QED BY <1>3

LEMMA FileIsOne ==
  ASSUME PageInv, NEW failed \in SUBSET Sources, Wrote(failed)
  PROVE  IsSnapshot(artifact)
<1>1. WroteEvents(failed) /\ WroteLines(failed)
  BY DEF Wrote
<1>2. ASSUME NEW f \in artifact.events PROVE f \in EventType
  <2>1. f.records \subseteq Records /\ f = Event(f.records, f.reading, f.cached, f.relations)
    BY <1>1 DEF WroteEvents
  <2>2. f.relations \subseteq SUBSET Records
    <3>1. f.relations \subseteq Ids(artifact.events)
      BY <1>1 DEF WroteEvents
    <3>2. Ids(artifact.events) \subseteq SUBSET Records
      BY <1>1 DEF WroteEvents, Ids
    <3>3. QED BY <3>1, <3>2
  <2>3. f.reading \in Nat /\ f.cached \in BOOLEAN
    BY FileFacts
  <2>4. QED BY <2>1, <2>2, <2>3 DEF Event, EventType
<1>3. QED BY <1>1, <1>2 DEF IsSnapshot, WroteLines

(* It passes the validator of the browser, but for an event too large.     *)
LEMMA FileIsAccepted ==
  ASSUME PageInv, NEW failed \in SUBSET Sources, Wrote(failed)
  PROVE  WebAccepts(artifact) \/ \E e \in artifact.events : Cardinality(e.records) > MaxEvidence
<1> SUFFICES ASSUME \A e \in artifact.events : ~(Cardinality(e.records) > MaxEvidence)
             PROVE  WebAccepts(artifact)
  OBVIOUS
<1>1. WroteEvents(failed)
  BY DEF Wrote
<1>2. ASSUME NEW e \in artifact.events PROVE Cardinality(e.records) \in 1..MaxEvidence
  <2>1. IsFiniteSet(e.records) /\ e.records # {}
    BY <1>1, FiniteAssumption, FS_Subset DEF WroteEvents
  <2>2. Cardinality(e.records) \in Nat /\ Cardinality(e.records) # 0
    BY <2>1, FS_CardinalityType, FS_EmptySet
  <2>3. QED BY <2>2, BoundAssumption
<1>3. \A e, f \in artifact.events : e # f => e.records # f.records
  BY <1>1 DEF WroteEvents
<1>4. QED BY <1>1, <1>2, <1>3 DEF WebAccepts, WroteEvents

LEMMA WriteInv ==
  ASSUME PageInv, Write
  PROVE  PageInv'
<1>1. building /\ UNCHANGED <<clock, readings, site, building, previous>>
  BY DEF Write
<1>2. Built'
  BY WriteFacts DEF Built
<1>3. building'
  BY <1>1
<1>4. building' \in BOOLEAN
  BY <1>1 DEF PageInv
<1>5. QED
  BY <1>1, <1>2, <1>3, <1>4 DEF PageInv, PreviousIsSite, DatesAgree, MarksAgree, CountsAgree

(* The file becomes the page.  Two events with a record in common, which   *)
(* the browser would let through, it does not have.                        *)
LEMMA PublishInv ==
  ASSUME PageInv, Publish
  PROVE  PageInv'
<1>1. PICK failed \in SUBSET Sources : Wrote(failed)
  BY DEF Publish, PageInv, Built
<1>2. WroteEvents(failed) /\ WroteLines(failed)
  BY <1>1 DEF Wrote
<1>3. /\ site' = artifact /\ readings' = readings + 1 /\ clock' = clock
      /\ building' = FALSE /\ previous' = NoSnapshot /\ artifact' = NoSnapshot
      /\ WebAccepts(artifact)
  BY DEF Publish
<1>4. \A f \in artifact.events : /\ f.reading # Never
                                 /\ \A s \in SourcesOf(f) : /\ artifact.lines[s].success = f.reading
                                                            /\ f.cached = (artifact.lines[s].status = "error")
  BY <1>1, FileFacts
<1>5. clock' \in Nat /\ readings' \in Nat
  BY <1>3 DEF PageInv
<1>6. building' \in BOOLEAN
  BY <1>3, Zenon
<1>7. IsSnapshot(site)' /\ IsSnapshot(previous)'
  <2>1. IsSnapshot(artifact)
    BY <1>1, FileIsOne
  <2>2. QED BY <1>3, <2>1, NoSnapshotIsOne DEF IsSnapshot
<1>8. ValidContent(site)'
  BY <1>2, <1>3 DEF ValidContent, WebAccepts, WroteEvents
<1>9. PreviousIsSite' /\ Built' /\ (artifact' # NoSnapshot => building')
  BY <1>3 DEF PreviousIsSite, Built
<1>10. DatesAgree'
  BY <1>3, <1>4 DEF DatesAgree
<1>11. MarksAgree'
  BY <1>3, <1>4 DEF MarksAgree
<1>12. CountsAgree'
  BY <1>2, <1>3 DEF CountsAgree, WroteLines
<1>13. QED BY <1>5, <1>6, <1>7, <1>8, <1>9, <1>10, <1>11, <1>12 DEF PageInv

(* A step that writes and publishes nothing.  The file, if there is one,   *)
(* still is what the same publication and readings give.                   *)
LEMMA OtherInv ==
  ASSUME PageInv, UNCHANGED <<readings, site>>, clock' \in Nat, building' \in BOOLEAN,
         previous' = NoSnapshot \/ (previous' = site /\ ValidContent(site)) \/ previous' = previous,
         artifact' = NoSnapshot \/ UNCHANGED <<artifact, previous, building>>
  PROVE  PageInv'
<1>1. IsSnapshot(site)' /\ IsSnapshot(previous)' /\ ValidContent(site)'
  BY NoSnapshotIsOne DEF PageInv, IsSnapshot, ValidContent
<1>2. PreviousIsSite'
  BY DEF PageInv, PreviousIsSite, ValidContent
<1>3. Built'
  <2>1. CASE artifact' = NoSnapshot
    BY <2>1 DEF Built
  <2>2. CASE artifact' # NoSnapshot /\ UNCHANGED <<artifact, previous>>
    <3>1. PICK failed \in SUBSET Sources : Wrote(failed)
      BY <2>2 DEF PageInv, Built
    <3>2. Wrote(failed)'
      BY <2>2, <3>1 DEF Wrote, WroteEvents, WroteLines, IsFresh, IsKept
    <3>3. QED BY <3>2 DEF Built
  <2>3. QED BY <2>1, <2>2
<1>4. DatesAgree' /\ MarksAgree' /\ CountsAgree'
  BY DEF PageInv, DatesAgree, MarksAgree, CountsAgree
<1>5. QED BY <1>1, <1>2, <1>3, <1>4 DEF PageInv

LEMMA NextInv == PageInv /\ [Next]_vars => PageInv'
<1> SUFFICES ASSUME PageInv, [Next]_vars PROVE PageInv'
  OBVIOUS
<1>1. CASE SetClock
  <2>1. clock' \in Nat
    BY <1>1, BoundAssumption DEF SetClock
  <2>2. UNCHANGED <<readings, site, building, previous, artifact>>
    BY <1>1 DEF SetClock
  <2>3. building' \in BOOLEAN
    BY <2>2 DEF PageInv
  <2>4. QED BY <2>1, <2>2, <2>3, OtherInv
<1>2. CASE Load
  <2>1. UNCHANGED <<clock, readings, site, artifact>>
    BY <1>2 DEF Load
  <2>2. previous' = NoSnapshot \/ (previous' = site /\ ValidContent(site))
    BY <1>2 DEF Load
  <2>3. building' \in BOOLEAN
    BY <1>2, Zenon DEF Load
  <2>4. clock' \in Nat
    BY <2>1 DEF PageInv
  <2>5. artifact' = NoSnapshot
    BY <1>2 DEF Load, PageInv
  <2>6. QED BY <2>1, <2>2, <2>3, <2>4, <2>5, OtherInv
<1>3. CASE Fail
  <2>1. /\ UNCHANGED <<clock, readings, site>>
        /\ previous' = NoSnapshot /\ artifact' = NoSnapshot
    BY <1>3 DEF Fail
  <2>2. building' \in BOOLEAN
    BY <1>3, Zenon DEF Fail
  <2>3. clock' \in Nat
    BY <2>1 DEF PageInv
  <2>4. QED BY <2>1, <2>2, <2>3, OtherInv
<1>4. CASE Write
  BY <1>4, WriteInv
<1>5. CASE Publish
  BY <1>5, PublishInv
<1>6. CASE UNCHANGED vars
  <2>1. UNCHANGED <<clock, readings, site, building, previous, artifact>>
    BY <1>6 DEF vars
  <2>2. clock' \in Nat /\ building' \in BOOLEAN
    BY <2>1 DEF PageInv
  <2>3. QED BY <2>1, <2>2, OtherInv
<1>7. QED BY <1>1, <1>2, <1>3, <1>4, <1>5, <1>6 DEF Next

LEMMA PageInvariant == Spec => []PageInv
BY InitInv, NextInv, PTL DEF Spec

(* Every variable keeps its type.                                          *)
THEOREM TypeCorrect == Spec => []TypeOK
<1>1. PageInv => TypeOK
  <2> SUFFICES ASSUME PageInv PROVE TypeOK
    OBVIOUS
  <2>1. IsSnapshot(artifact)
    BY FileIsOne, NoSnapshotIsOne DEF PageInv, Built
  <2>2. QED BY <2>1 DEF PageInv, TypeOK
<1>2. QED BY <1>1, PageInvariant, PTL

(* What is on the page passes validate_previous_snapshot in the next build,*)
(* and what encode_snapshot writes the validator of the browser, but for   *)
(* an event of too many records.                                           *)
THEOREM PublicationsAreReadable == Spec => []PublishedIsReadable
<1>1. PageInv => PublishedIsReadable
  <2> SUFFICES ASSUME PageInv PROVE PublishedIsReadable
    OBVIOUS
  <2>1. WebAccepts(artifact) \/ \E e \in artifact.events : Cardinality(e.records) > MaxEvidence
    BY FileIsAccepted, NoSnapshotIsValid DEF PageInv, Built
  <2>2. QED BY <2>1 DEF PageInv, PublishedIsReadable
<1>2. QED BY <1>1, PageInvariant, PTL

(* Records come from the reading their sources report as the last success. *)
THEOREM DatesAreOriginal == Spec => []DatesAgree
BY PageInvariant, PTL DEF PageInv

(* Exactly the events of failed sources are marked as kept.                *)
THEOREM MarksAreTrue == Spec => []MarksAgree
BY PageInvariant, PTL DEF PageInv

(* Each source reports as many records as the page has of it.              *)
THEOREM CountsAreTrue == Spec => []CountsAgree
BY PageInvariant, PTL DEF PageInv

(* What the page says of its sources is true of the records it shows.      *)
THEOREM LinesAreTrue == Spec => []LinesAgree
BY PageInvariant, PTL DEF PageInv, LinesAgree

(* An event none of whose sources was read anew stays on the page.         *)
THEOREM GoodReadsAreKept == Spec => GoodReadsStay
<1>1. PageInv /\ [Next]_vars =>
        [\A e \in previous.events :
           (readings' # readings /\ \A s \in SourcesOf(e) : site'.lines[s].success # readings') =>
             \E f \in site'.events : f.records = e.records /\ f.reading = e.reading]_vars
  <2> SUFFICES ASSUME PageInv, [Next]_vars, NEW e \in previous.events, readings' # readings,
                      \A s \in SourcesOf(e) : site'.lines[s].success # readings'
               PROVE  \E f \in site'.events : f.records = e.records /\ f.reading = e.reading
    OBVIOUS
  <2>1. Publish
    BY DEF Next, vars, SetClock, Load, Fail, Write
  <2>2. PICK failed \in SUBSET Sources : WroteEvents(failed) /\ WroteLines(failed)
    BY <2>1 DEF PageInv, Built, Wrote, Publish
  <2>3. readings' = readings + 1 /\ site' = artifact
    BY <2>1 DEF Publish
  <2>4. SourcesOf(e) \subseteq Sources
    BY PreviousFacts, SourceAssumption DEF SourcesOf
  <2>5. SourcesOf(e) \subseteq failed
    BY <2>2, <2>3, <2>4 DEF WroteLines
  <2>6. QED BY <2>2, <2>3, <2>5 DEF WroteEvents
<1>2. QED BY <1>1, PageInvariant, PTL DEF Spec, GoodReadsStay

LEMMA ShownFacts ==
  ASSUME NEW s \in Sources
  PROVE  \A x : x \in Shown[s] <=>
           \E e \in site.events : \E r \in Own(s, e.records) : x = <<r, e.reading>>
BY DEF Shown

LEMMA PublishShows ==
  ASSUME PageInv, Publish
  PROVE  Page!Publish
<1>1. PICK failed \in SUBSET Sources : failed # Sources /\ WroteEvents(failed) /\ WroteLines(failed)
  BY DEF PageInv, Built, Wrote, Publish
<1>2. readings' = readings + 1 /\ site' = artifact
  BY DEF Publish
<1>3. ASSUME NEW s \in Sources, NEW x \in Shown'[s]
      PROVE  \E f \in site'.events : \E r \in Own(s, f.records) :
               /\ x = <<r, f.reading>> /\ r \in Records
               /\ s \notin failed => f.reading = readings'
               /\ s \in failed => IsKept(f, failed)
  <2>1. PICK f \in site'.events : \E r \in Own(s, f.records) : x = <<r, f.reading>>
    BY <1>3 DEF Shown
  <2>2. PICK r \in Own(s, f.records) : x = <<r, f.reading>>
    BY <2>1
  <2>3. s \in SourcesOf(f) /\ r \in f.records
    BY <2>2 DEF Own, SourcesOf
  <2>4. /\ f.records \subseteq Records
        /\ IsFresh(f, failed) \/ IsKept(f, failed)
    BY <1>1, <1>2 DEF WroteEvents
  <2>5. IsFresh(f, failed) => s \notin failed /\ f.reading = readings'
    BY <1>2, <2>3 DEF IsFresh
  <2>6. IsKept(f, failed) => s \in failed
    BY <2>3 DEF IsKept
  <2>7. QED BY <2>2, <2>3, <2>4, <2>5, <2>6
<1>4. ASSUME NEW s \in Sources \ failed PROVE Shown'[s] \subseteq Records \X {readings'}
  BY <1>3
<1>5. ASSUME NEW s \in failed PROVE Shown'[s] \subseteq Shown[s]
  <2> SUFFICES ASSUME NEW x \in Shown'[s] PROVE x \in Shown[s]
    OBVIOUS
  <2>1. PICK f \in site'.events : \E r \in Own(s, f.records) : x = <<r, f.reading>> /\ IsKept(f, failed)
    BY <1>3, <1>5
  <2>2. PICK r \in Own(s, f.records) : x = <<r, f.reading>> /\ IsKept(f, failed)
    BY <2>1
  <2>3. PICK e \in previous.events : f.records = e.records /\ f.reading = e.reading
    BY <2>1 DEF IsKept
  <2>4. e \in site.events
    BY <2>3 DEF PageInv, PreviousIsSite, NoSnapshot, Snapshot
  <2>5. r \in Own(s, e.records) /\ x = <<r, e.reading>>
    BY <2>3, <2>2
  <2>6. QED BY <2>4, <2>5, ShownFacts
<1>6. Sources \ failed \in (SUBSET Sources) \ {{}}
  BY <1>1
<1>7. QED BY <1>2, <1>4, <1>5, <1>6 DEF Page!Publish

(* The chain of publications shows what PublicView promises: of each       *)
(* source one reading, or what is left of it.                              *)
THEOREM PublicationsRefinePublicView == Spec => RefinesPublicView
<1>1. Init => Page!Init
  BY DEF Init, Page!Init, Shown, NoSnapshot, Snapshot
<1>2. PageInv /\ [Next]_vars => [Page!Publish]_<<readings, Shown>>
  <2> SUFFICES ASSUME PageInv, [Next]_vars PROVE Page!Publish \/ UNCHANGED <<readings, Shown>>
    OBVIOUS
  <2>1. CASE Publish
    BY <2>1, PublishShows
  <2>2. CASE UNCHANGED <<readings, site>>
    BY <2>2 DEF Shown
  <2>3. QED BY <2>1, <2>2 DEF Next, SetClock, Load, Fail, Write, vars
<1>3. QED BY <1>1, <1>2, PageInvariant, PTL DEF Spec, Page!Spec, RefinesPublicView
=============================================================================
