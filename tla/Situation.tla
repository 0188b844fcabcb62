------------------------------ MODULE Situation ------------------------------
(***************************************************************************)
(* The overview of the public page (situation.ts): which records of the    *)
(* publication a scope and a number of hours contain, the bars of their    *)
(* timeline, the status of advisories, and the highlights.  It is computed *)
(* from the file alone, at the clock of the file.                          *)
(***************************************************************************)
EXTENDS Explorer, Sequences, SequencesExt

CONSTANTS
  MaxHighlights,  \* 8
  Scopes          \* bound: the sets of countries an area stands for, or None

ASSUME HighlightsAssumption == MaxHighlights \in Nat /\ MaxHighlights >= Cardinality(Categories)

(* advisoryState.                                                          *)
Orderly(r) == Known(r.validFrom) /\ Known(r.validTo) => r.validTo > r.validFrom
AdvisoryStateFile(e, clock) ==      \* faulty variant: the status of the file is believed
  IF e.status \in Terminal \cup {"active"} THEN e.status ELSE "unknown"
AdvisoryState(e, clock) ==
  CASE e.status = "withdrawn" -> "withdrawn"
    [] e.status # "withdrawn" /\ ~Orderly(e.row) -> "unknown"
    [] OTHER ->
         IF e.status = "expired" \/ Ended(e.row, clock) THEN "expired"
         ELSE IF ~Known(e.row.validFrom) THEN "unknown"
         ELSE IF e.row.validFrom > clock THEN "upcoming"
         ELSE IF Known(e.row.validTo) \/ e.status = "active" THEN "active" ELSE "unknown"

(* eventSpan: a point, or an interval whose end may be open; none without  *)
(* the date that the category is counted by.                               *)
PublicTime(r) == EventTime(r, PublicBasis(r.category))
Point(t) == [start |-> t, end |-> Unknown, point |-> TRUE]
Interval(start, end) == [start |-> start, end |-> end, point |-> FALSE]

Dated(e) ==
  /\ Known(PublicTime(e.row))
  /\ PublicBasis(e.row.category) = "validity" => Orderly(e.row)

Span(e) ==
  LET r == e.row
      start == PublicTime(r)
  IN IF PublicBasis(r.category) = "validity"
     THEN IF ~Known(r.validTo) /\ e.status # "active" THEN Point(start) ELSE Interval(start, r.validTo)
     ELSE IF r.dayPrecision \/ r.dateOnly THEN Interval(DayOf(start), DayOf(start) + Day)
     ELSE Point(start)

MeetsClosed(span, since, until) ==      \* faulty variant: the end of a window belongs to it
  span.start <= until /\ (IF span.point THEN since <= span.start ELSE Known(span.end) => span.end >= since)
Meets(span, since, until) ==
  IF span.point THEN since <= span.start /\ span.start < until
  ELSE span.start < until /\ (Known(span.end) => span.end > since)

(* buildSituation: the records of a scope whose dates meet the window.     *)
InScope(e, scope) == scope = None \/ e.row.countries \cap scope # {}
Inside(ed, scope, hours) ==
  {e \in ed.events : InScope(e, scope) /\ Dated(e) /\ Meets(Span(e), ed.at - hours, ed.at)}

(* The bars of the timeline, the last one cut at the end of the window.    *)
BarHours(hours) == IF hours <= 24 THEN 1 ELSE IF hours <= 72 THEN 3 ELSE IF hours <= 168 THEN 6 ELSE 24
Bars(ed, hours) ==
  LET since == ed.at - hours
      width == BarHours(hours)
      starts == {t \in since..(ed.at - 1) : (t - since) % width = 0}
  IN {Window(t, IF t + width < ed.at THEN t + width ELSE ed.at) : t \in starts}
InBar(ed, scope, hours, bar) == {e \in Inside(ed, scope, hours) : Meets(Span(e), bar.since, bar.until)}

-----------------------------------------------------------------------------
(* chooseHighlights.  A record needs evidence of a source of the file; the *)
(* five minutes that its reading may be ahead of the clock of the file are *)
(* less than the hour instants are counted in.                             *)
Backed(e, ed) == e.row.retrieved <= ed.at /\ e.row.sources \cap ed.sources # {}
Recent(r, since, until) == Within(r.issued, since, until) \/ Within(r.validFrom, since, until)
Fresh(e, since, until) == PublicBasis(e.row.category) # "validity" \/ Recent(e.row, since, until)
High(r) == r.severity >= 3 /\ r.rated

(* Two records repeat one another: same category, title and countries, or  *)
(* a relation of one to the other.                                         *)
Repeats(e, f) ==
  \/ /\ e.row.category = f.row.category /\ e.row.title = f.row.title
     /\ e.row.countries = f.row.countries
  \/ f.row.id \in e.row.related \/ e.row.id \in f.row.related
RepeatsOne(e, chosen) == \E f \in Range(chosen) : Repeats(e, f)

(* Fresh records first, then high severity, then the later date.           *)
Rank(e, since, until) ==
  <<IF Fresh(e, since, until) THEN 1 ELSE 0, IF High(e.row) THEN 1 ELSE 0, PublicTime(e.row)>>
Above(a, b) ==
  \/ a[1] > b[1]
  \/ a[1] = b[1] /\ a[2] > b[2]
  \/ a[1] = b[1] /\ a[2] = b[2] /\ a[3] > b[3]

Candidates(ed, scope, hours) ==
  LET since == ed.at - hours
      ahead(e, f) == \/ Above(Rank(e, since, ed.at), Rank(f, since, ed.at))
                     \/ Rank(e, since, ed.at) = Rank(f, since, ed.at) /\ e.row.order < f.row.order
      backed == {e \in Inside(ed, scope, hours) : Backed(e, ed)}
  IN [i \in 1..Cardinality(backed) |->
        CHOOSE e \in backed : Cardinality({f \in backed : ahead(f, e)}) = i - 1]

(* One record of each category first.                                      *)
Representative(chosen, e) ==
  IF RepeatsOne(e, chosen) \/ \E f \in Range(chosen) : f.row.category = e.row.category
  THEN chosen ELSE Append(chosen, e)
Representatives(candidates) ==
  LET chosen[n \in 0..Len(candidates)] ==
        IF n = 0 THEN <<>> ELSE Representative(chosen[n - 1], candidates[n])
  IN chosen[Len(candidates)]

(* Then fresh ones, those of sources not yet shown before the others, up to*)
(* the limit.                                                              *)
FillerAny(chosen, e) ==      \* faulty variant: repetitions fill the places that are left
  IF Len(chosen) >= MaxHighlights THEN chosen ELSE Append(chosen, e)
Filler(chosen, e) ==
  IF Len(chosen) >= MaxHighlights \/ RepeatsOne(e, chosen) THEN chosen ELSE Append(chosen, e)

Filled(first, candidates, those) ==      \* with those of the candidates, in their order
  LET chosen[n \in 0..Len(candidates)] ==
        IF n = 0 THEN first
        ELSE IF candidates[n] \in those THEN Filler(chosen[n - 1], candidates[n]) ELSE chosen[n - 1]
  IN chosen[Len(candidates)]

Highlights(ed, scope, hours) ==
  LET candidates == Candidates(ed, scope, hours)
      first == Representatives(candidates)
      shown == UNION {e.row.sources : e \in Range(first)}
      rest == {e \in Range(candidates) \ Range(first) : Fresh(e, ed.at - hours, ed.at)}
      adding == {e \in rest : e.row.sources \ shown # {}}
  IN Filled(Filled(first, candidates, adding), candidates, rest \ adding)

-----------------------------------------------------------------------------
(* The overview depends on the publication alone, so what follows is stated*)
(* once for each of them, whatever the filters are moved to afterwards.    *)
OverviewShown == edition # None /\ filters = DefaultFilters

(* What the page says of an advisory is what the monitor says at the clock *)
(* of the publication: ended or withdrawn alike, and for the service whose *)
(* status is derived from the validity also active, even where the status  *)
(* in the file is that of an earlier build.                                *)
AdvisoriesAgree ==
  OverviewShown =>
    \A e \in edition.events :
      LET shown == AdvisoryState(e, edition.at)
          stored == EffectiveStatus(e.row, edition.at)
      IN PublicBasis(e.row.category) = "validity" /\ Orderly(e.row) =>
           /\ shown \in Terminal \/ stored \in Terminal => shown = stored
           /\ e.row.source = "meteoalarm" => (shown = "active" <=> stored = "active")

(* The bars divide the window, every record of the window is counted in    *)
(* one, a record of one instant in exactly one.                            *)
TimelineCovers ==
  OverviewShown =>
    \A scope \in Scopes, hours \in Hours :
      LET bars == Bars(edition, hours) IN
      /\ \A t \in (edition.at - hours)..(edition.at - 1) :
           Cardinality({b \in bars : b.since <= t /\ t < b.until}) = 1
      /\ \A e \in Inside(edition, scope, hours) :
           LET counted == {b \in bars : e \in InBar(edition, scope, hours, b)}
           IN counted # {} /\ (Span(e).point => Cardinality(counted) = 1)

(* No highlight repeats another; a category with a candidate is represented*)
(* unless all of its candidates repeat a highlight; an old advisory that is*)
(* still valid takes one place of its category at most; and a place stays  *)
(* free only if every fresh candidate is shown or repeats one that is.     *)
HighlightsFair ==
  OverviewShown =>
    \A scope \in Scopes, hours \in Hours :
      LET chosen == Highlights(edition, scope, hours)
          candidates == Range(Candidates(edition, scope, hours))
          fresh(e) == Fresh(e, edition.at - hours, edition.at)
      IN /\ \A i, j \in DOMAIN chosen : i # j => ~Repeats(chosen[i], chosen[j])
         /\ \A e \in candidates :
              \/ \E f \in Range(chosen) : f.row.category = e.row.category
              \/ RepeatsOne(e, chosen)
         /\ \A i, j \in DOMAIN chosen :
              i # j /\ ~fresh(chosen[i]) /\ ~fresh(chosen[j]) =>
                chosen[i].row.category # chosen[j].row.category
         /\ \/ Len(chosen) = MaxHighlights
            \/ \A e \in candidates : fresh(e) => e \in Range(chosen) \/ RepeatsOne(e, chosen)
=============================================================================
