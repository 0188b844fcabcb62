------------------------------- MODULE Records -------------------------------
(***************************************************************************)
(* What a stored record says of time, and the two readings of it that are  *)
(* written twice in the code: which records a window selects (db.py for    *)
(* the private monitor, public-snapshot.ts for the public page) and which  *)
(* records of a first import a briefing leaves aside (db.py in SQL,        *)
(* briefing.py in Python).  Instants are whole hours.                      *)
(***************************************************************************)
EXTENDS Integers, FiniteSets

CONSTANTS
  None,         \* no choice of a country, a category or a source
  Rows          \* the rows of the table events that databases may hold

Categories == {"earthquake", "disaster", "weather", "aviation", "cyber",
               "internet", "space_weather"}
Bases == {"occurred", "published", "validity"}
Terminal == {"expired", "withdrawn"}
Statuses == Terminal \cup {"active", "unknown"}
Kinds == {"incident", "measurement", "advisory", "vulnerability_notice"}
Unknown == -1                       \* NULL in a column of instants
Day == 24
Instants == Nat \cup {Unknown}

(* The columns of a row that any of the readings below tells apart.        *)
RowType == [
  id : STRING, order : Nat, source : STRING, sources : SUBSET STRING, kind : Kinds, category : Categories,
  status : Statuses, occurred : Instants, issued : Instants,
  validFrom : Instants, validTo : Instants,
  dayPrecision : BOOLEAN, dateOnly : BOOLEAN,
  countries : SUBSET STRING, severity : 0..4, rated : BOOLEAN, independent : Nat,
  initial : BOOLEAN, title : STRING, related : SUBSET STRING, retrieved : Nat]

(* A date without an hour is stored as the midnight of its day in UTC.     *)
Anchored(r) ==
  /\ r.dateOnly /\ r.issued # Unknown => r.issued % Day = 0
  /\ r.dayPrecision /\ r.occurred # Unknown => r.occurred % Day = 0

ASSUME RowAssumption == Rows \subseteq RowType /\ \A r \in Rows : Anchored(r)

(* The basis of the public page for every category, and the field an event *)
(* is dated by under a basis.                                              *)
PublicBasis(category) ==
  CASE category \in {"earthquake", "disaster"} -> "occurred"
    [] category \in {"weather", "aviation"} -> "validity"
    [] OTHER -> "published"

EventTime(r, basis) ==
  CASE basis = "occurred" -> r.occurred
    [] basis = "published" -> r.issued
    [] OTHER -> r.validFrom

DayOf(t) == (t \div Day) * Day

Known(t) == t # Unknown
Overlaps(start, end, since, until) == start < until /\ end > since
Within(t, since, until) == Known(t) /\ since <= t /\ t < until

Ended(r, now) == Known(r.validTo) /\ r.validTo <= now
Begun(r, now) == Known(r.validFrom) /\ r.validFrom <= now

(* effective_event_state: MeteoAlarm's and the space weather service's     *)
(* advisories take their status from their validity, the others only end.  *)
EffectiveStatus(r, now) ==
  LET dated == r.source = "meteoalarm" \/ (r.source = "noaa_swpc" /\ r.kind = "advisory")
  IN IF r.status \in Terminal THEN r.status
     ELSE IF Ended(r, now) THEN "expired"
     ELSE IF ~dated THEN r.status
     ELSE IF Known(r.validTo) /\ Begun(r, now) THEN "active" ELSE "unknown"

-----------------------------------------------------------------------------
(* A query, with an absolute window or one that ends at the reading clock. *)
Window(since, until) == [since |-> since, until |-> until]

Query(hours, window, basis, country, category, severity, sources, inactive) ==
  [hours |-> hours, window |-> window, basis |-> basis, country |-> country,
   category |-> category, severity |-> severity, minSources |-> sources, inactive |-> inactive]

Until(q, now) == IF q.window = None THEN now ELSE q.window.until
Since(q, now) == IF q.window = None THEN now - q.hours ELSE q.window.since

(* _select_events: the time condition of each basis, in SQL.               *)
InWindow(r, basis, since, until) ==
  CASE basis = "published" ->
         /\ Known(r.issued)
         /\ IF r.dateOnly THEN Overlaps(DayOf(r.issued), DayOf(r.issued) + Day, since, until)
            ELSE since <= r.issued /\ r.issued < until
    [] basis = "validity" ->
         /\ Known(r.validFrom) /\ r.validFrom < until
         /\ Known(r.validTo) => r.validTo > since /\ r.validTo > r.validFrom
    [] OTHER -> Within(r.occurred, since, until)

Selects(r, q, now) ==
  /\ InWindow(r, q.basis, Since(q, now), Until(q, now))
  /\ r.severity >= q.severity /\ r.independent >= q.minSources
  /\ ~q.inactive => r.status \notin Terminal /\ ~Ended(r, now)
  /\ q.category # None => r.category = q.category
  /\ q.country # None => q.country \in r.countries

(* The rows of a first import whose own dates do not touch the window: SQL *)
(* keeps them from the briefing's list and counts them.                    *)
Incidental(r) == r.kind \in {"incident", "measurement"}

Background(r, since, until) ==
  /\ r.initial
  /\ ~ \/ Within(r.issued, since, until)
       \/ r.dateOnly /\ Known(r.issued) /\ Overlaps(r.issued, r.issued + Day, since, until)
       \/ /\ Incidental(r)
          /\ \/ Within(r.occurred, since, until)
             \/ /\ r.dayPrecision /\ Known(r.occurred)
                /\ Overlaps(r.occurred, r.occurred + Day, since, until)

(* _publication_scope and _occurrence_scope: the group build_briefing puts *)
(* the same rows in, or None for its own count of the background.          *)
PublicationScopeAnchor(r, since, until) ==      \* faulty variant: the anchor taken for an hour
  IF Within(r.issued, since, until) THEN "published" ELSE None
PublicationScope(r, since, until) ==
  IF ~Known(r.issued) THEN None
  ELSE IF r.dateOnly
    THEN IF Overlaps(DayOf(r.issued), DayOf(r.issued) + Day, since, until)
         THEN "day_publication" ELSE None
  ELSE IF Within(r.issued, since, until) THEN "published" ELSE None

OccurrenceScope(r, since, until) ==
  IF ~Incidental(r) \/ ~Known(r.occurred) THEN None
  ELSE IF r.dayPrecision
    THEN IF Overlaps(DayOf(r.occurred), DayOf(r.occurred) + Day, since, until)
         THEN "day_occurrence" ELSE None
  ELSE IF Within(r.occurred, since, until) THEN "occurred" ELSE None

Groups == {"published", "day_publication", "occurred", "day_occurrence"}
ASSUME NoneAssumption == None \notin Groups

InitialScope(r, since, until) ==
  IF PublicationScope(r, since, until) # None THEN PublicationScope(r, since, until)
  ELSE OccurrenceScope(r, since, until)
=============================================================================
