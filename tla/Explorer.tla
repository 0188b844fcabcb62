------------------------------- MODULE Explorer -------------------------------
(***************************************************************************)
(* The detailed filters of the public page (DetailedExplorer.tsx): a copy  *)
(* of the publication, which a retry replaces, and the filters, which move *)
(* in steps of the panel.  public-snapshot.ts answers them from the copy;  *)
(* it claims to evaluate the predicates of the backend at the clock of the *)
(* publication.                                                            *)
(***************************************************************************)
EXTENDS Records

CONSTANTS
  CategoriesOf,   \* PUBLIC_SOURCE_INFO: the categories a source publishes
  Catalogs,       \* bound: the sets of rows a build's database may hold
  Clocks,         \* bound: the clocks of builds
  Hours, Backs, Countries, Topics, Severities   \* bounds: choices of the panel

Sources == DOMAIN CategoriesOf

ASSUME SourceAssumption ==
  /\ \A s \in Sources : CategoriesOf[s] # {} /\ CategoriesOf[s] \subseteq Categories
  /\ \A s \in Sources : \A c, d \in CategoriesOf[s] : PublicBasis(c) = PublicBasis(d)
  /\ None \notin Sources \cup Categories \cup Countries /\ Topics \subseteq Categories
  /\ \A r \in Rows : r.sources \subseteq Sources
ASSUME CatalogAssumption ==      \* order is that of the ids, which are distinct in a table
  \A rows \in Catalogs :
    /\ rows \subseteq Rows /\ IsFiniteSet(rows)
    /\ \A r, s \in rows : r.order = s.order => r = s
ASSUME ChoiceAssumption ==
  /\ Clocks \subseteq Nat /\ Hours \subseteq 1..720 /\ Backs \subseteq 0..168
  /\ 24 \in Hours /\ 0 \in Severities /\ Severities \subseteq 0..4

VARIABLES
  edition,   \* the publication read last, or None
  filters    \* PublicFilterState

vars == <<edition, filters>>

(* An event of the file is a row with the status it had at the build that  *)
(* read it.                                                                *)
Published(r, now) == [row |-> r, status |-> EffectiveStatus(r, now)]
Edition(at, events, sources) == [at |-> at, events |-> events, sources |-> sources]

Filters(query, source) == [query |-> query, source |-> source]
DefaultQuery == Query(24, None, "occurred", None, None, 0, 1, TRUE)
DefaultFilters == Filters(DefaultQuery, None)

Init == edition = None /\ filters = DefaultFilters

(* The page loads: what a build at clock at read, and what it kept of a    *)
(* build before it.  Any publication may be the one that answers, an older *)
(* one too; a file of another version may have no line of a source without *)
(* records, but every source of an event has one.                          *)
Read ==
  /\ \E at, before \in Clocks, rows \in Catalogs :
       \E kept \in {{}, rows}, sources \in {Sources, UNION {r.sources : r \in rows}} :
         /\ before <= at
         /\ edition' = Edition(at, {Published(r, IF r \in kept THEN before ELSE at) : r \in rows}, sources)
  /\ UNCHANGED filters

-----------------------------------------------------------------------------
(* changeQuery and changePublicFilters: what a choice of the panel makes   *)
(* of the filters.                                                         *)
WithHoursKept(q, hours) ==      \* faulty variant: the moved window stays
  Query(hours, q.window, q.basis, q.country, q.category, q.severity, q.minSources, q.inactive)
WithHours(q, hours) ==
  Query(hours, None, q.basis, q.country, q.category, q.severity, q.minSources, q.inactive)
WithWindow(q, window) ==
  Query(q.hours, window, q.basis, q.country, q.category, q.severity, q.minSources, q.inactive)
WithBasis(q, basis, inactive) ==
  Query(q.hours, q.window, basis, q.country, q.category, q.severity, q.minSources, inactive)
WithCategory(q, category) ==
  Query(q.hours, q.window, IF category = None THEN q.basis ELSE PublicBasis(category),
        q.country, category, q.severity, q.minSources, q.inactive)
WithCountry(q, country) ==
  Query(q.hours, q.window, q.basis, country, q.category, q.severity, q.minSources, q.inactive)
WithSeverity(q, severity) ==
  Query(q.hours, q.window, q.basis, q.country, q.category, severity, q.minSources, q.inactive)

(* timeWindowPatch, from the clock of the publication: the window keeps    *)
(* its width.                                                              *)
Width(q) == IF q.window = None THEN q.hours ELSE q.window.until - q.window.since
Moved(q, back, now) ==
  IF back = 0 THEN WithWindow(q, None)
  ELSE WithWindow(q, Window(now - back - Width(q), now - back))

(* The panel is there once a publication was read.                         *)
Chooses(f) == edition # None /\ filters' = f /\ UNCHANGED edition

PickHours == \E h \in Hours : Chooses(Filters(WithHours(filters.query, h), filters.source))

MoveWindow ==
  \E back \in Backs : edition # None /\ Chooses(Filters(Moved(filters.query, back, edition.at), filters.source))

PickBasis ==
  \E b \in Bases :
    Chooses(Filters(WithBasis(filters.query, b, b \in {"published", "validity"} \/ filters.query.inactive),
                    filters.source))

PickCountry ==
  \E c \in Countries \cup {None} : Chooses(Filters(WithCountry(filters.query, c), filters.source))

PickSeverity ==
  \E s \in Severities : Chooses(Filters(WithSeverity(filters.query, s), filters.source))

PickInactive ==
  \E i \in BOOLEAN : Chooses(Filters(WithBasis(filters.query, filters.query.basis, i), filters.source))

(* A source that does not publish the category is dropped, and so is every *)
(* source when the category is.                                            *)
Fits(source, category) == source # None /\ category # None /\ category \in CategoriesOf[source]

PickCategory ==
  \E c \in Topics \cup {None} :
    Chooses(Filters(WithCategory(filters.query, c),
                    IF Fits(filters.source, c) THEN filters.source ELSE None))

(* selectPublicSource: the only category of the source, or none; the basis *)
(* of its first one, which is the basis of all.  The panels offer sources  *)
(* that have a line.                                                       *)
BasisOf(source) == PublicBasis(CHOOSE c \in CategoriesOf[source] : TRUE)
OnlyCategory(source) ==
  IF \E c \in CategoriesOf[source] : CategoriesOf[source] = {c}
  THEN CHOOSE c \in CategoriesOf[source] : TRUE ELSE None
OfSource(q, source) ==
  LET narrowed == WithCategory(q, OnlyCategory(source))
  IN WithBasis(narrowed, BasisOf(source), narrowed.inactive)

PickSource ==
  \/ Chooses(Filters(filters.query, None))
  \/ \E s \in Sources :
       edition # None /\ s \in edition.sources /\ Chooses(Filters(OfSource(filters.query, s), s))

Reset == Chooses(DefaultFilters)

Next ==
  \/ Read \/ Reset
  \/ PickHours \/ MoveWindow \/ PickBasis
  \/ PickCountry \/ PickSeverity \/ PickInactive
  \/ PickCategory \/ PickSource

Spec == Init /\ [][Next]_vars

-----------------------------------------------------------------------------
(* filterPublicSnapshot.  Until and Since are those of the backend, with   *)
(* the clock of the publication for its now.                               *)
Answers ==
  LET q == filters.query IN
  /\ edition # None
  /\ filters.source # None => filters.source \in edition.sources
  /\ Since(q, edition.at) < Until(q, edition.at) /\ Until(q, edition.at) <= edition.at

InPublicWindowTouching(r, basis, since, until) ==      \* faulty variant: an end that only touches
  IF basis = "validity"
  THEN Known(r.validFrom) /\ r.validFrom < until /\ (Known(r.validTo) => r.validTo >= since)
  ELSE Within(EventTime(r, basis), since, until)
InPublicWindow(r, basis, since, until) ==
  IF basis = "validity"
  THEN /\ Known(r.validFrom) /\ r.validFrom < until
       /\ ~Known(r.validTo) \/ (r.validTo > since /\ r.validTo > r.validFrom)
  ELSE /\ Known(EventTime(r, basis))
       /\ IF basis = "published" /\ r.dateOnly
          THEN DayOf(r.issued) < until /\ DayOf(r.issued) + Day > since
          ELSE since <= EventTime(r, basis) /\ EventTime(r, basis) < until

Matches(e) ==
  LET q == filters.query
      r == e.row
  IN /\ filters.source # None => filters.source \in r.sources
     /\ q.category # None => r.category = q.category
     /\ q.country # None => q.country \in r.countries
     /\ r.severity >= q.severity /\ r.independent >= q.minSources
     /\ q.inactive \/ (e.status \notin Terminal /\ ~Ended(r, edition.at))
     /\ InPublicWindow(r, q.basis, Since(q, edition.at), Until(q, edition.at))

Listed == {e \in edition.events : Matches(e)}

-----------------------------------------------------------------------------
QueryType == [
  hours : 1..720, window : {None} \cup [since : Int, until : Int], basis : Bases,
  country : Countries \cup {None}, category : Categories \cup {None}, severity : 0..4,
  minSources : {1}, inactive : BOOLEAN]

(* Every choice of the panel is a query the private API has, too.          *)
TypeOK ==
  /\ edition # None =>
       edition.at \in Clocks /\ edition.events \subseteq [row : Rows, status : Statuses]
  /\ filters.query \in QueryType /\ filters.source \in Sources \cup {None}

(* The page lists what the private monitor would list, from the same rows, *)
(* for the same query at the clock of the publication ("The non-geospatial *)
(* backend predicates, evaluated at the snapshot clock"); also where the   *)
(* status in the file is that of an earlier build.                         *)
SameSelection ==
  Answers =>
    \A e \in edition.events :
      e \in Listed <=> /\ Selects(e.row, filters.query, edition.at)
                       /\ filters.source # None => filters.source \in e.row.sources

(* However the panel is used, a moved window has the width that it shows;  *)
(* the chosen source publishes the chosen category; and the only questions *)
(* the page refuses are those that an older publication, or one without    *)
(* the source, made void.                                                  *)
FiltersCoherent ==
  LET q == filters.query IN
  /\ q.window # None => q.window.until - q.window.since = q.hours
  /\ filters.source # None /\ q.category # None => q.category \in CategoriesOf[filters.source]
  /\ edition # None /\ ~Answers =>
       \/ q.window # None /\ q.window.until > edition.at
       \/ filters.source # None /\ filters.source \notin edition.sources

(* The rows that SQL keeps from a first briefing are those Python would    *)
(* count as background, so that none is left out of both counts and none   *)
(* is in both.                                                             *)
BackgroundAgrees ==
  edition # None =>
    LET since == Since(filters.query, edition.at)
        until == Until(filters.query, edition.at)
    IN \A e \in edition.events :
         Background(e.row, since, until) <=>
           e.row.initial /\ InitialScope(e.row, since, until) = None
=============================================================================
