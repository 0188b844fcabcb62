----------------------------- MODULE MCSituation -----------------------------
(* One or two rows of every source and shape; the two clocks are ten hours *)
(* after different midnights, so that days and windows cross.              *)
EXTENDS Situation, Questions, Narratives

Row(order, id, source, kind, category) == [
  id |-> id, order |-> order, source |-> source, sources |-> {source}, kind |-> kind,
  category |-> category, status |-> "unknown", occurred |-> Unknown, issued |-> Unknown,
  validFrom |-> Unknown, validTo |-> Unknown, dayPrecision |-> FALSE, dateOnly |-> FALSE,
  countries |-> {"PL"}, severity |-> 0, rated |-> FALSE, independent |-> 1, initial |-> TRUE,
  title |-> id, related |-> {}, retrieved |-> 99]

Quake(order, id, at) ==
  [Row(order, id, "usgs", "measurement", "earthquake") EXCEPT !.occurred = at, !.issued = at]
Strong == [Quake(1, "strong", 90) EXCEPT !.severity = 3, !.rated = TRUE, !.related = {"flood"}]
AtStart == [Quake(2, "at_start", 76) EXCEPT !.sources = {"usgs", "gdacs"}, !.independent = 2]
Again == [Quake(3, "again", 82) EXCEPT !.title = "strong", !.countries = {"PL"}]
NoDate == [Quake(4, "no_date", Unknown) EXCEPT !.countries = {}]

Flood == [Row(5, "flood", "gdacs", "incident", "disaster") EXCEPT
            !.occurred = 72, !.dayPrecision = TRUE, !.status = "active", !.countries = {"CZ"}]

Notice(order, id, day) ==
  [Row(order, id, "cisa_kev", "vulnerability_notice", "cyber") EXCEPT !.issued = day, !.dateOnly = TRUE]
Known1 == Notice(6, "known1", 96)
Known2 == [Notice(7, "known2", 72) EXCEPT !.title = "known1", !.countries = {}]
Known3 == [Notice(8, "known3", 48) EXCEPT !.countries = {}, !.related = {"known1"}]

Warning(order, id, source, from, to, status) ==
  [Row(order, id, source, "advisory", "weather") EXCEPT
     !.validFrom = from, !.validTo = to, !.occurred = from, !.issued = from, !.status = status]
Storm == Warning(9, "storm", "meteoalarm", 60, 110, "active")
Frost == [Warning(10, "frost", "meteoalarm", 110, 140, "unknown") EXCEPT !.issued = 95, !.severity = 3]
Fog == Warning(11, "fog", "meteoalarm", 80, 95, "expired")
Wind == Warning(12, "wind", "meteoalarm", 50, Unknown, "unknown")
Drought == [Warning(13, "drought", "imgw_hydro", 20, Unknown, "active") EXCEPT !.severity = 2]
High2 == Warning(14, "high_water", "imgw_hydro", 40, 120, "withdrawn")

Zone(order, id, from, to) ==
  [Row(order, id, "easa_czib", "advisory", "aviation") EXCEPT
     !.validFrom = from, !.validTo = to, !.issued = 99, !.status = "active", !.countries = {}]
Open == Zone(15, "open", 10, Unknown)
Inverted == Zone(16, "inverted", 90, 80)
Flare == [Row(17, "flare", "noaa_swpc", "advisory", "space_weather") EXCEPT
            !.issued = 95, !.validFrom = 96, !.validTo = 120, !.status = "active", !.countries = {}]
Outage == [Row(18, "outage", "github_status", "incident", "internet") EXCEPT
             !.issued = 98, !.occurred = 97, !.related = {"cables"}, !.countries = {}]
Cables == [Row(19, "cables", "github_status", "incident", "internet") EXCEPT
             !.issued = 97, !.occurred = 75, !.initial = FALSE, !.retrieved = 115, !.countries = {}]

Quakes == {Strong, AtStart, Again, NoDate}
Notices == {Known1, Known2, Known3}
Warnings == {Storm, Frost, Fog, Wind, Drought, High2}
MCRows == Quakes \cup Notices \cup Warnings \cup {Flood, Open, Inverted, Flare, Outage, Cables}
MCCatalogs == {MCRows, Quakes \cup Notices \cup {Open}, Warnings \cup {Flood, Outage, Cables}}

MCCategoriesOf == [
  usgs |-> {"earthquake"}, gdacs |-> {"earthquake", "disaster"}, cisa_kev |-> {"cyber"},
  meteoalarm |-> {"weather"}, easa_czib |-> {"aviation"}, noaa_swpc |-> {"space_weather"},
  github_status |-> {"internet"}, imgw_hydro |-> {"weather"}]
MCScopes == {None, {"PL"}}

(* questions **************************************************************)
(* Summer time from 97, its third night hour left out, until 169, with that*)
(* hour shown twice.                                                       *)
McOffset == [t \in 0..240 |-> IF t \in 97..168 THEN 2 ELSE 1]

Plain == [
  unfit |-> FALSE, other |-> FALSE, intent |-> TRUE, current |-> FALSE, changes |-> FALSE,
  radii |-> <<>>, countries |-> {"PL"}, europe |-> FALSE, world |-> FALSE, categories |-> {},
  thresholds |-> <<>>, hours |-> <<>>, clocks |-> <<>>, morning |-> FALSE, today |-> FALSE,
  yesterday |-> FALSE]

(* Every hour a question asks for, and no other, is in the window of its   *)
(* query, which EventQuery accepts; asked for in the hour that is shown    *)
(* twice or left out, it has none (query.py:89-104, 206-244).              *)
ASSUME WindowsAsked ==
  \A hours \in {<<>>, <<12>>, <<0>>, <<721>>, <<12, 24>>}, clocks \in {<<>>, <<1>>, <<2>>, <<3>>, <<25>>, <<3, 4>>},
     morning, today, yesterday \in BOOLEAN, now \in 60..230 :
    LET q == [Plain EXCEPT !.hours = hours, !.clocks = clocks, !.morning = morning,
                           !.today = today, !.yesterday = yesterday]
        found == Interpretations(q, now)
    IN /\ Cardinality(found) <= 1
       /\ \A i \in found :
            /\ i.query.hours \in 1..MaxHours /\ i.query.window.since < i.query.window.until
            /\ \A t \in DOMAIN Offset : HourAsked(t, q, now) <=> Within(t, i.query.window.since, i.query.window.until)
       /\ clocks = <<2>> /\ LocalDay(now) \in {LocalDay(97), LocalDay(169)} => found = {}

(* No constraint of a question is lost on its way to the database: the rows*)
(* its query selects are those that answer it, and nothing is selected by a*)
(* question with two areas, two categories or a word nothing recognises    *)
(* (query.py:116, 148-204, 250-300; db.py:45-110).                         *)
ASSUME NoConstraintLost ==
  \A countries \in {{}, {"PL"}, {"PL", "CZ"}}, categories \in SUBSET {"earthquake", "cyber", "weather"},
     thresholds \in {<<>>, <<2>>, <<2, 3>>, <<11>>}, hours \in {<<>>, <<30>>},
     radii \in {<<>>, <<5>>, <<QueryRadius>>}, flags \in SUBSET {"other", "intent", "current", "europe", "changes"} :
    LET q == [Plain EXCEPT
          !.countries = countries, !.categories = categories, !.thresholds = thresholds, !.hours = hours,
          !.radii = radii, !.other = "other" \in flags, !.intent = "intent" \in flags,
          !.current = "current" \in flags, !.europe = "europe" \in flags, !.changes = "changes" \in flags]
    IN \A now \in {100, 130} : \A i \in Interpretations(q, now) :
         /\ ~q.other /\ i.region = q.europe /\ i.radius = (q.radii # <<>>)
         /\ Cardinality(countries) + (IF q.europe THEN 1 ELSE 0) + Len(radii) <= 1
         /\ i.query.basis = "changed" <=> q.changes
         /\ IF q.changes THEN i.query.inactive
            ELSE {r \in Rows : Selects(r, i.query, now)} = {r \in Rows : AskedFor(r, q, now)}

(* briefings **************************************************************)
(* A briefing tells the same of its rows whatever the order and the batches*)
(* they come in, every row of its scope is counted once, as history, as    *)
(* without an address, as told or as left out, and what is told comes first*)
(* among all that could be (briefing.py:72-76, 118-127).                   *)
Change(row, change, changed, citable) ==
  [row |-> [row EXCEPT !.initial = change = "initial_import"], change |-> change,
   changed |-> changed, citable |-> citable]
Changes ==
  {Change(Strong, "updated", 80, TRUE), Change(AtStart, "initial_import", 95, TRUE),
   Change(Again, "new", 95, TRUE), Change(NoDate, "initial_import", 96, TRUE),
   Change(Known1, "initial_import", 97, TRUE), Change(Storm, "withdrawn", 96, FALSE),
   Change(Frost, "expired", Unknown, TRUE), Change(Fog, "identity_split", 97, TRUE)}
Orders(S) == {s \in [1..Cardinality(S) -> S] : IsInjective(s)}
OutRanked(c, cTime, d, dTime) ==
  d.row.severity > c.row.severity \/ (d.row.severity = c.row.severity /\ cTime <= dTime)
ASSUME BriefingAnyOrder == \A told \in {S \in SUBSET Changes : Cardinality(S) <= 4}, first \in BOOLEAN :
  LET current == {c \in told : Group(c, 76, 100, first) # None}
      citable == {c \in current : c.citable}
  IN \A order \in Orders(told) :
       LET b == BuildBriefing(order, 76, 100, first) IN
       /\ b.processed = Cardinality(told) /\ b.historical = Cardinality(told \ current)
       /\ b.uncitable = Cardinality(current \ citable)
       /\ Len(b.facts) + b.omitted = Cardinality(citable)
       /\ Len(b.facts) = Min({Cardinality(citable), MaxFacts})
       /\ b.facts = BuildBriefing(SetToSeq(told), 76, 100, first).facts
       /\ \A n \in DOMAIN b.facts : \A c \in citable \ ToSet(SubSeq(b.facts, 1, n)) :
            OutRanked(c, c.changed, b.facts[n], b.facts[n].changed)
       /\ UNION {ToSet(b.sections[g]) : g \in DOMAIN b.sections} = ToSet(b.facts)

(* An answer cites the same rows whatever their order, those that are dated*)
(* latest on the basis of its query among the most severe (query.py:       *)
(* 530-543).                                                               *)
ASSUME AnswerAnyOrder == \A told \in {S \in SUBSET Changes : Cardinality(S) <= 3}, basis \in Bases \cup {"changed"} :
  LET q == Query(24, None, basis, None, None, 0, 2, TRUE) IN
  \A order \in Orders(told), minSources \in {1, 2} :
    LET a == BuildAnswer(order, [q EXCEPT !.minSources = minSources])
        cited == {c \in ToSet(a.events) : c.citable}
    IN /\ ToSet(a.events) = {c \in told : c.row.independent >= minSources}
       /\ a.facts = BuildAnswer(SetToSeq(told), [q EXCEPT !.minSources = minSources]).facts
       /\ Len(a.facts) = Min({Cardinality(cited), MaxFacts})
       /\ \A n \in DOMAIN a.facts : \A c \in cited \ ToSet(SubSeq(a.facts, 1, n)) :
            OutRanked(c, AnswerTime(c, basis), a.facts[n], AnswerTime(a.facts[n], basis))
=============================================================================
