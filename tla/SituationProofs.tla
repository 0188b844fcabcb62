--------------------------- MODULE SituationProofs ---------------------------
(***************************************************************************)
(* What the page and the private monitor say of the same rows agrees, for  *)
(* all rows whose dates without an hour are midnights, for all clocks and  *)
(* for every sequence of choices.  The invariant says where a status in    *)
(* the file comes from: from a reading at the clock of the file or before. *)
(***************************************************************************)
EXTENDS Situation, FiniteSetTheorems, SequenceTheorems, WellFoundedInduction, TLAPS

StatusesDated ==
  edition # None =>
    \A e \in edition.events :
      \E before \in Nat : before <= edition.at /\ e.status = EffectiveStatus(e.row, before)

(* The filters: a moved window keeps its width, and the source publishes   *)
(* the category.                                                           *)
WidthKept(q) == q.window # None => q.window.until - q.window.since = q.hours
SourceFits(f) ==
  f.source # None /\ f.query.category # None => f.query.category \in CategoriesOf[f.source]
Sound(f) ==
  /\ f.query \in QueryType /\ f.source \in Sources \cup {None}
  /\ WidthKept(f.query) /\ SourceFits(f)

PageInv == TypeOK /\ StatusesDated /\ Sound(filters)

-----------------------------------------------------------------------------
(* The status a reading gives is one of the four.                          *)
LEMMA StatusType ==
  ASSUME NEW r \in RowType, NEW now \in Nat
  PROVE  EffectiveStatus(r, now) \in Statuses
BY DEF EffectiveStatus, Statuses, Terminal, RowType

(* A reading calls a record terminal exactly if the row does, or its       *)
(* validity has ended by then.                                             *)
LEMMA TerminalWhen ==
  ASSUME NEW r \in RowType, NEW now \in Nat
  PROVE  EffectiveStatus(r, now) \in Terminal <=> r.status \in Terminal \/ Ended(r, now)
BY DEF EffectiveStatus, Statuses, Terminal, RowType

(* What has ended stays ended.                                             *)
LEMMA EndedStays ==
  ASSUME NEW r \in RowType, NEW before \in Nat, NEW now \in Nat, before <= now, Ended(r, before)
  PROVE  Ended(r, now)
BY DEF Ended, Known, RowType, Instants, Unknown

(* The initial state and every step keep the types.                        *)
LEMMA QueriesTyped ==
  ASSUME NEW q \in QueryType
  PROVE  /\ \A h \in Hours : WithHours(q, h) \in QueryType
         /\ \A w \in {None} \cup [since : Int, until : Int] : WithWindow(q, w) \in QueryType
         /\ \A b \in Bases, i \in BOOLEAN : WithBasis(q, b, i) \in QueryType
         /\ \A c \in Categories \cup {None} : WithCategory(q, c) \in QueryType
         /\ \A c \in Countries \cup {None} : WithCountry(q, c) \in QueryType
         /\ \A s \in Severities : WithSeverity(q, s) \in QueryType
<1>1. \A c \in Categories : PublicBasis(c) \in Bases
  BY DEF PublicBasis, Bases, Categories
<1>2. \A h \in Hours : WithHours(q, h) \in QueryType
  BY ChoiceAssumption DEF WithHours, Query, QueryType
<1>3. \A w \in {None} \cup [since : Int, until : Int] : WithWindow(q, w) \in QueryType
  BY DEF WithWindow, Query, QueryType
<1>4. \A b \in Bases, i \in BOOLEAN : WithBasis(q, b, i) \in QueryType
  BY DEF WithBasis, Query, QueryType
<1>5. \A c \in Categories \cup {None} : WithCategory(q, c) \in QueryType
  BY <1>1 DEF WithCategory, Query, QueryType
<1>6. \A c \in Countries \cup {None} : WithCountry(q, c) \in QueryType
  BY DEF WithCountry, Query, QueryType
<1>7. \A s \in Severities : WithSeverity(q, s) \in QueryType
  BY ChoiceAssumption DEF WithSeverity, Query, QueryType
<1> QED BY <1>2, <1>3, <1>4, <1>5, <1>6, <1>7

(* A choice that leaves the category alone keeps the filters sound; so does*)
(* a category with its source, and a source with its category.             *)
LEMMA DefaultSound == Sound(DefaultFilters)
<1>1. DefaultQuery \in QueryType
  BY ChoiceAssumption DEF DefaultQuery, Query, QueryType, Bases
<1> QED
  BY <1>1 DEF Sound, DefaultFilters, DefaultQuery, Filters, Query, WidthKept, SourceFits

LEMMA ChoicesSound ==
  ASSUME NEW f, Sound(f)
  PROVE  /\ \A h \in Hours : Sound(Filters(WithHours(f.query, h), f.source))
         /\ \A b \in Bases, i \in BOOLEAN : Sound(Filters(WithBasis(f.query, b, i), f.source))
         /\ \A c \in Countries \cup {None} : Sound(Filters(WithCountry(f.query, c), f.source))
         /\ \A s \in Severities : Sound(Filters(WithSeverity(f.query, s), f.source))
         /\ Sound(Filters(f.query, None))
<1> DEFINE q == f.query
<1>1. /\ q \in QueryType /\ f.source \in Sources \cup {None}
      /\ WidthKept(q) /\ SourceFits(f)
  BY DEF Sound
<1>2. ASSUME NEW h \in Hours PROVE Sound(Filters(WithHours(q, h), f.source))
  BY <1>1, QueriesTyped DEF Sound, Filters, WidthKept, SourceFits, WithHours, Query
<1>3. ASSUME NEW b \in Bases, NEW i \in BOOLEAN PROVE Sound(Filters(WithBasis(q, b, i), f.source))
  BY <1>1, QueriesTyped DEF Sound, Filters, WidthKept, SourceFits, WithBasis, Query
<1>4. ASSUME NEW c \in Countries \cup {None} PROVE Sound(Filters(WithCountry(q, c), f.source))
  BY <1>1, QueriesTyped DEF Sound, Filters, WidthKept, SourceFits, WithCountry, Query
<1>5. ASSUME NEW s \in Severities PROVE Sound(Filters(WithSeverity(q, s), f.source))
  BY <1>1, QueriesTyped DEF Sound, Filters, WidthKept, SourceFits, WithSeverity, Query
<1>6. Sound(Filters(q, None))
  BY <1>1 DEF Sound, Filters, SourceFits
<1> QED BY <1>2, <1>3, <1>4, <1>5, <1>6

(* A moved window is as wide as the one before it, which is as wide as the *)
(* hours that the panel shows.                                             *)
LEMMA MovesSound ==
  ASSUME NEW f, Sound(f), NEW back \in Backs, NEW now \in Nat
  PROVE  Sound(Filters(Moved(f.query, back, now), f.source))
<1> DEFINE q == f.query
           w == Window(now - back - Width(q), now - back)
<1>1. /\ q \in QueryType /\ f.source \in Sources \cup {None}
      /\ WidthKept(q) /\ SourceFits(f)
  BY DEF Sound
<1>2. Width(q) = q.hours /\ q.hours \in 1..720
  BY <1>1 DEF Width, WidthKept, QueryType
<1>3. w \in [since : Int, until : Int] /\ w.until - w.since = q.hours
  <2>1. w = [since |-> now - back - q.hours, until |-> now - back]
    BY <1>2 DEF Window
  <2>2. now \in Int /\ back \in Int /\ q.hours \in Int
    BY <1>2, ChoiceAssumption
  <2> HIDE DEF w, q
  <2> QED BY <2>1, <2>2
<1>4. \A v \in {None, w} : WithWindow(q, v) \in QueryType
  BY <1>1, <1>3, QueriesTyped
<1>5. \A v \in {None, w} : Sound(Filters(WithWindow(q, v), f.source))
  BY <1>1, <1>3, <1>4 DEF Sound, Filters, WidthKept, SourceFits, WithWindow, Query
<1> QED BY <1>5 DEF Moved

LEMMA CategoriesSound ==
  ASSUME NEW f, Sound(f), NEW c \in Topics \cup {None}
  PROVE  Sound(Filters(WithCategory(f.query, c), IF Fits(f.source, c) THEN f.source ELSE None))
<1> DEFINE q == f.query
<1>1. /\ q \in QueryType /\ f.source \in Sources \cup {None} /\ WidthKept(q)
  BY DEF Sound
<1>2. WithCategory(q, c) \in QueryType
  BY <1>1, QueriesTyped, SourceAssumption
<1>3. WithCategory(q, c).category = c /\ WidthKept(WithCategory(q, c))
  BY <1>1 DEF WithCategory, Query, WidthKept
<1> QED BY <1>1, <1>2, <1>3 DEF Sound, Filters, SourceFits, Fits

LEMMA SourcesSound ==
  ASSUME NEW f, Sound(f), NEW s \in Sources
  PROVE  Sound(Filters(OfSource(f.query, s), s))
<1> DEFINE q == f.query
           c == OnlyCategory(s)
           narrowed == WithCategory(q, c)
<1>1. q \in QueryType /\ WidthKept(q)
  BY DEF Sound
<1>2. c \in CategoriesOf[s] \cup {None} /\ CategoriesOf[s] \subseteq Categories
  BY SourceAssumption DEF OnlyCategory
<1>3. BasisOf(s) \in Bases
  BY SourceAssumption DEF BasisOf, PublicBasis, Bases, Categories
<1>4. narrowed \in QueryType
  BY <1>1, <1>2, QueriesTyped
<1>5. narrowed.inactive \in BOOLEAN
  BY <1>4 DEF QueryType
<1>6. OfSource(q, s) \in QueryType
  BY <1>3, <1>4, <1>5, QueriesTyped DEF OfSource
<1>7. OfSource(q, s).category = c /\ WidthKept(OfSource(q, s))
  BY <1>1 DEF OfSource, WithCategory, WithBasis, Query, WidthKept
<1> QED BY <1>2, <1>6, <1>7 DEF Sound, Filters, SourceFits

-----------------------------------------------------------------------------
(* A publication that is read has statuses of its own clock or an earlier  *)
(* one; it leaves the filters alone, and the panel leaves it alone.        *)
LEMMA ReadsDated ==
  ASSUME Sound(filters), Read
  PROVE  TypeOK' /\ StatusesDated' /\ filters' = filters
<1>1. PICK at \in Clocks, before \in Clocks, rows \in Catalogs :
        \E kept \in {{}, rows}, sources \in {Sources, UNION {r.sources : r \in rows}} :
          /\ before <= at
          /\ edition' = Edition(at, {Published(r, IF r \in kept THEN before ELSE at) : r \in rows}, sources)
  BY DEF Read
<1>2. PICK kept \in {{}, rows}, sources \in {Sources, UNION {r.sources : r \in rows}} :
        /\ before <= at
        /\ edition' = Edition(at, {Published(r, IF r \in kept THEN before ELSE at) : r \in rows}, sources)
  BY <1>1
<1>3. filters' = filters
  BY DEF Read
<1> DEFINE read(r) == IF r \in kept THEN before ELSE at
           events == {Published(r, read(r)) : r \in rows}
<1>4. /\ edition'.at = at /\ edition'.events = events
      /\ at \in Nat /\ before \in Nat /\ rows \subseteq Rows /\ Rows \subseteq RowType
  BY <1>2, ChoiceAssumption, CatalogAssumption, RowAssumption DEF Edition
<1>5. ASSUME NEW e \in events
      PROVE  /\ e \in [row : Rows, status : Statuses]
             /\ \E t \in Nat : t <= at /\ e.status = EffectiveStatus(e.row, t)
  <2>1. PICK r \in rows : e = Published(r, read(r))
    OBVIOUS
  <2>2. read(r) \in Nat /\ read(r) <= at /\ r \in RowType
    BY <1>2, <1>4
  <2>3. e.row = r /\ e.status = EffectiveStatus(r, read(r)) /\ e = [row |-> e.row, status |-> e.status]
    BY <2>1 DEF Published
  <2>4. EffectiveStatus(r, read(r)) \in Statuses
    BY <2>2, StatusType
  <2> HIDE DEF read
  <2> QED BY <1>4, <2>2, <2>3, <2>4
<1> HIDE DEF events
<1>6. TypeOK'
  BY <1>3, <1>4, <1>5 DEF TypeOK, Sound
<1>7. StatusesDated'
  BY <1>4, <1>5 DEF StatusesDated
<1> QED BY <1>3, <1>6, <1>7

LEMMA PanelSound ==
  ASSUME PageInv, Next, ~Read
  PROVE  edition' = edition /\ Sound(filters')
<1> USE DEF PageInv
<1>1. CASE Reset
  BY <1>1, DefaultSound DEF Reset, Chooses
<1>2. CASE PickHours
  BY <1>2, ChoicesSound DEF PickHours, Chooses
<1>3. CASE MoveWindow
  <2>1. PICK back \in Backs :
          edition # None /\ Chooses(Filters(Moved(filters.query, back, edition.at), filters.source))
    BY <1>3 DEF MoveWindow
  <2>2. edition.at \in Nat
    BY <2>1, ChoiceAssumption DEF TypeOK
  <2> QED BY <2>1, <2>2, MovesSound DEF Chooses
<1>4. CASE PickBasis
  <2>1. PICK b \in Bases :
          Chooses(Filters(WithBasis(filters.query, b,
                                    b \in {"published", "validity"} \/ filters.query.inactive),
                          filters.source))
    BY <1>4 DEF PickBasis
  <2>2. (b \in {"published", "validity"} \/ filters.query.inactive) \in BOOLEAN
    OBVIOUS
  <2> QED BY <2>1, <2>2, ChoicesSound DEF Chooses
<1>5. CASE PickCountry
  BY <1>5, ChoicesSound DEF PickCountry, Chooses
<1>6. CASE PickSeverity
  BY <1>6, ChoicesSound DEF PickSeverity, Chooses
<1>7. CASE PickInactive
  <2>1. filters.query.basis \in Bases
    BY DEF Sound, QueryType
  <2> QED BY <1>7, <2>1, ChoicesSound DEF PickInactive, Chooses
<1>8. CASE PickCategory
  BY <1>8, CategoriesSound DEF PickCategory, Chooses
<1>9. CASE PickSource
  BY <1>9, ChoicesSound, SourcesSound DEF PickSource, Chooses
<1> QED
  BY <1>1, <1>2, <1>3, <1>4, <1>5, <1>6, <1>7, <1>8, <1>9 DEF Next

LEMMA PageInvariant == Spec => []PageInv
<1>1. Init => PageInv
  BY DefaultSound DEF Init, PageInv, TypeOK, StatusesDated, Sound
<1>2. PageInv /\ [Next]_vars => PageInv'
  <2> SUFFICES ASSUME PageInv, [Next]_vars PROVE PageInv'
    OBVIOUS
  <2>1. CASE Read
    <3>1. TypeOK' /\ StatusesDated' /\ filters' = filters
      BY <2>1, ReadsDated DEF PageInv
    <3> QED BY <3>1 DEF PageInv
  <2>2. CASE Next /\ ~Read
    <3>1. edition' = edition /\ Sound(filters')
      BY <2>2, PanelSound
    <3>2. TypeOK' /\ StatusesDated' /\ Sound(filters)'
      BY <3>1 DEF PageInv, TypeOK, StatusesDated, Sound
    <3> QED BY <3>2 DEF PageInv
  <2>3. CASE UNCHANGED vars
    BY <2>3 DEF vars, PageInv, TypeOK, StatusesDated, Sound, WidthKept, SourceFits
  <2> QED BY <2>1, <2>2, <2>3
<1> QED BY <1>1, <1>2, PTL DEF Spec

(* Every variable keeps its type: each choice of the panel is a query that *)
(* the private monitor understands too.                                    *)
THEOREM TypeCorrect == Spec => []TypeOK
BY PageInvariant, PTL DEF PageInv

-----------------------------------------------------------------------------
(* The two readings of a window agree on every row.                        *)
LEMMA WindowsSame ==
  ASSUME NEW r \in RowType, NEW basis \in Bases, NEW since \in Int, NEW until \in Int
  PROVE  InPublicWindow(r, basis, since, until) <=> InWindow(r, basis, since, until)
<1>1. CASE basis = "validity"
  BY <1>1 DEF InPublicWindow, InWindow
<1>2. CASE basis = "published"
  BY <1>2 DEF InPublicWindow, InWindow, EventTime, Overlaps, Within
<1>3. CASE basis = "occurred"
  BY <1>3 DEF InPublicWindow, InWindow, EventTime, Within
<1> QED BY <1>1, <1>2, <1>3 DEF Bases

(* What the filters ask for, at the clock of the publication.              *)
LEMMA QueryAt ==
  ASSUME PageInv, edition # None
  PROVE  /\ edition.at \in Nat
         /\ Since(filters.query, edition.at) \in Int /\ Until(filters.query, edition.at) \in Int
         /\ filters.query.basis \in Bases
<1>1. edition.at \in Nat /\ filters.query \in QueryType
  BY ChoiceAssumption DEF PageInv, TypeOK
<1>2. filters.query.hours \in Int /\ filters.query.basis \in Bases
  BY <1>1 DEF QueryType
<1>3. filters.query.window \in {None} \cup [since : Int, until : Int]
  BY <1>1 DEF QueryType
<1>4. CASE filters.query.window = None
  <2>1. /\ Until(filters.query, edition.at) = edition.at
        /\ Since(filters.query, edition.at) = edition.at - filters.query.hours
    BY <1>4 DEF Since, Until
  <2> QED BY <1>1, <1>2, <2>1
<1>5. CASE filters.query.window # None
  <2>1. /\ Until(filters.query, edition.at) = filters.query.window.until
        /\ Since(filters.query, edition.at) = filters.query.window.since
    BY <1>5 DEF Since, Until
  <2> QED BY <1>1, <1>2, <1>3, <1>5, <2>1
<1> QED BY <1>4, <1>5

(* A record of the file is a row, terminal in the file or ended by its     *)
(* clock exactly if the row is.                                            *)
LEMMA EventAt ==
  ASSUME PageInv, edition # None, NEW e \in edition.events
  PROVE  /\ e.row \in Rows /\ e.row \in RowType
         /\ e.status \in Terminal \/ Ended(e.row, edition.at)
              <=> e.row.status \in Terminal \/ Ended(e.row, edition.at)
<1>1. e.row \in Rows /\ e.row \in RowType
  BY RowAssumption DEF PageInv, TypeOK
<1>2. edition.at \in Nat
  BY QueryAt
<1>3. PICK before \in Nat : before <= edition.at /\ e.status = EffectiveStatus(e.row, before)
  BY DEF PageInv, StatusesDated
<1>4. e.status \in Terminal <=> e.row.status \in Terminal \/ Ended(e.row, before)
  BY <1>1, <1>3, TerminalWhen
<1>5. Ended(e.row, before) => Ended(e.row, edition.at)
  BY <1>1, <1>2, <1>3, EndedStays
<1> QED BY <1>1, <1>4, <1>5

(* The page lists what the private monitor would list for the query.       *)
THEOREM PageListsTheSame == Spec => []SameSelection
<1>1. PageInv => SameSelection
  <2> SUFFICES ASSUME PageInv, Answers, NEW e \in edition.events
               PROVE  e \in Listed <=> /\ Selects(e.row, filters.query, edition.at)
                                       /\ filters.source # None => filters.source \in e.row.sources
    BY DEF SameSelection
  <2> DEFINE q == filters.query
             since == Since(q, edition.at)
             until == Until(q, edition.at)
  <2>1. edition # None
    BY DEF Answers
  <2>2. InPublicWindow(e.row, q.basis, since, until) <=> InWindow(e.row, q.basis, since, until)
    BY <2>1, QueryAt, EventAt, WindowsSame
  <2>3. e.status \notin Terminal /\ ~Ended(e.row, edition.at)
          <=> e.row.status \notin Terminal /\ ~Ended(e.row, edition.at)
    BY <2>1, EventAt
  <2>4. e \in Listed <=> Matches(e)
    BY DEF Listed
  <2>5. q.inactive \in BOOLEAN
    BY DEF PageInv, Sound, QueryType
  <2> QED BY <2>2, <2>3, <2>4, <2>5 DEF Matches, Selects
<1> QED BY <1>1, PageInvariant, PTL

(* A moved window keeps its width, the source publishes the category, and  *)
(* only an older publication or one without the source voids a question.   *)
THEOREM FiltersStayCoherent == Spec => []FiltersCoherent
<1>1. PageInv => FiltersCoherent
  <2> SUFFICES ASSUME PageInv PROVE FiltersCoherent
    OBVIOUS
  <2> DEFINE q == filters.query
  <2>1. /\ q.window # None => q.window.until - q.window.since = q.hours
        /\ filters.source # None /\ q.category # None => q.category \in CategoriesOf[filters.source]
    BY DEF PageInv, Sound, WidthKept, SourceFits
  <2>2. ASSUME edition # None, ~Answers
        PROVE  \/ q.window # None /\ q.window.until > edition.at
               \/ filters.source # None /\ filters.source \notin edition.sources
    <3>1. edition.at \in Int /\ q.hours \in Int /\ q.hours >= 1
      BY <2>2, QueryAt DEF PageInv, Sound, QueryType
    <3>0. q.window \in {None} \cup [since : Int, until : Int]
      BY DEF PageInv, Sound, QueryType
    <3>2. ~ /\ Since(q, edition.at) < Until(q, edition.at)
            /\ Until(q, edition.at) <= edition.at
            /\ filters.source # None => filters.source \in edition.sources
      BY <2>2 DEF Answers
    <3>3. CASE q.window = None
      <4>1. Until(q, edition.at) = edition.at /\ Since(q, edition.at) = edition.at - q.hours
        BY <3>3 DEF Since, Until
      <4>2. edition.at - q.hours < edition.at /\ edition.at <= edition.at
        <5> HIDE DEF q
        <5> QED BY <3>1
      <4> QED BY <3>2, <4>1, <4>2
    <3>4. CASE q.window # None
      <4>1. Until(q, edition.at) = q.window.until /\ Since(q, edition.at) = q.window.since
        BY <3>4 DEF Since, Until
      <4>2. q.window.since \in Int /\ q.window.until \in Int
        BY <3>4, <3>0
      <4>3. q.window.until - q.window.since = q.hours
        BY <2>1, <3>4
      <4>4. /\ q.window.since < q.window.until
            /\ ~(q.window.until <= edition.at) => q.window.until > edition.at
        <5> HIDE DEF q
        <5> QED BY <3>1, <4>2, <4>3
      <4> QED BY <3>2, <3>4, <4>1, <4>4
    <3> QED BY <3>3, <3>4
  <2> QED BY <2>1, <2>2 DEF FiltersCoherent
<1> QED BY <1>1, PageInvariant, PTL

-----------------------------------------------------------------------------
(* A midnight is the start of its day.                                     *)
LEMMA Midnights ==
  ASSUME NEW t \in Nat, t % Day = 0
  PROVE  DayOf(t) = t
BY DEF DayOf, Day

(* A publication: SQL looks at the stored instant and, where it stands for *)
(* a day, at the day that begins with it; Python at the day it lies in.    *)
LEMMA PublicationsSame ==
  ASSUME NEW r \in RowType, Anchored(r), NEW since \in Int, NEW until \in Int
  PROVE  PublicationScope(r, since, until) # None <=>
           \/ Within(r.issued, since, until)
           \/ r.dateOnly /\ Known(r.issued) /\ Overlaps(r.issued, r.issued + Day, since, until)
<1>1. r.issued \in Nat \/ r.issued = Unknown
  BY DEF RowType, Instants
<1>2. r.dateOnly \in BOOLEAN
  BY DEF RowType
<1>3. CASE ~Known(r.issued)
  BY <1>3 DEF PublicationScope, Within
<1>4. CASE Known(r.issued) /\ ~r.dateOnly
  BY <1>4, NoneAssumption DEF PublicationScope, Within, Groups
<1>5. CASE Known(r.issued) /\ r.dateOnly
  <2>1. r.issued \in Nat /\ r.issued % Day = 0
    BY <1>1, <1>5 DEF Known, Anchored
  <2>2. DayOf(r.issued) = r.issued
    BY <2>1, Midnights
  <2>3. PublicationScope(r, since, until) # None <=> Overlaps(r.issued, r.issued + Day, since, until)
    BY <1>5, <2>2, NoneAssumption DEF PublicationScope, Groups
  <2>4. Within(r.issued, since, until) => Overlaps(r.issued, r.issued + Day, since, until)
    BY <2>1 DEF Within, Overlaps, Day
  <2> QED BY <1>5, <2>3, <2>4
<1> QED BY <1>2, <1>3, <1>4, <1>5

(* An occurrence, likewise.                                                *)
LEMMA OccurrencesSame ==
  ASSUME NEW r \in RowType, Anchored(r), NEW since \in Int, NEW until \in Int
  PROVE  OccurrenceScope(r, since, until) # None <=>
           /\ Incidental(r)
           /\ \/ Within(r.occurred, since, until)
              \/ /\ r.dayPrecision /\ Known(r.occurred)
                 /\ Overlaps(r.occurred, r.occurred + Day, since, until)
<1>1. r.occurred \in Nat \/ r.occurred = Unknown
  BY DEF RowType, Instants
<1>2. r.dayPrecision \in BOOLEAN
  BY DEF RowType
<1>3. CASE ~Known(r.occurred) \/ ~Incidental(r)
  BY <1>3 DEF OccurrenceScope, Within
<1>4. CASE Known(r.occurred) /\ Incidental(r) /\ ~r.dayPrecision
  BY <1>4, NoneAssumption DEF OccurrenceScope, Within, Groups
<1>5. CASE Known(r.occurred) /\ Incidental(r) /\ r.dayPrecision
  <2>1. r.occurred \in Nat /\ r.occurred % Day = 0
    BY <1>1, <1>5 DEF Known, Anchored
  <2>2. DayOf(r.occurred) = r.occurred
    BY <2>1, Midnights
  <2>3. OccurrenceScope(r, since, until) # None <=> Overlaps(r.occurred, r.occurred + Day, since, until)
    BY <1>5, <2>2, NoneAssumption DEF OccurrenceScope, Groups
  <2>4. Within(r.occurred, since, until) => Overlaps(r.occurred, r.occurred + Day, since, until)
    BY <2>1 DEF Within, Overlaps, Day
  <2> QED BY <1>5, <2>3, <2>4
<1> QED BY <1>2, <1>3, <1>4, <1>5

(* SQL keeps from a first briefing what Python would count as background.  *)
THEOREM BackgroundIsTheSame == Spec => []BackgroundAgrees
<1>1. PageInv => BackgroundAgrees
  <2> DEFINE since == Since(filters.query, edition.at)
             until == Until(filters.query, edition.at)
  <2> SUFFICES ASSUME PageInv, edition # None, NEW e \in edition.events
               PROVE  Background(e.row, since, until) <=>
                        e.row.initial /\ InitialScope(e.row, since, until) = None
    BY DEF BackgroundAgrees
  <2>1. since \in Int /\ until \in Int
    BY QueryAt
  <2>2. e.row \in RowType /\ Anchored(e.row)
    BY EventAt, RowAssumption
  <2>3. InitialScope(e.row, since, until) = None <=>
          PublicationScope(e.row, since, until) = None /\ OccurrenceScope(e.row, since, until) = None
    BY DEF InitialScope
  <2> HIDE DEF since, until
  <2>4. /\ PublicationScope(e.row, since, until) # None <=>
             \/ Within(e.row.issued, since, until)
             \/ /\ e.row.dateOnly /\ Known(e.row.issued)
                /\ Overlaps(e.row.issued, e.row.issued + Day, since, until)
        /\ OccurrenceScope(e.row, since, until) # None <=>
             /\ Incidental(e.row)
             /\ \/ Within(e.row.occurred, since, until)
                \/ /\ e.row.dayPrecision /\ Known(e.row.occurred)
                   /\ Overlaps(e.row.occurred, e.row.occurred + Day, since, until)
    BY <2>1, <2>2, PublicationsSame, OccurrencesSame
  <2> QED BY <2>3, <2>4, Zenon DEF Background
<1> QED BY <1>1, PageInvariant, PTL

(* What the overview says of an advisory is what the monitor says at the   *)
(* clock of the publication.                                               *)
THEOREM AdvisoriesAreTheSame == Spec => []AdvisoriesAgree
<1>1. PageInv => AdvisoriesAgree
  <2> DEFINE shown(e) == AdvisoryState(e, edition.at)
             stored(e) == EffectiveStatus(e.row, edition.at)
  <2> SUFFICES ASSUME PageInv, edition # None, NEW e \in edition.events,
                      PublicBasis(e.row.category) = "validity", Orderly(e.row)
               PROVE  /\ shown(e) \in Terminal \/ stored(e) \in Terminal => shown(e) = stored(e)
                      /\ e.row.source = "meteoalarm" => (shown(e) = "active" <=> stored(e) = "active")
    BY DEF AdvisoriesAgree, OverviewShown
  <2>1. edition.at \in Nat
    BY QueryAt
  <2>2. e.row \in RowType
    BY EventAt
  <2>3. PICK before \in Nat : before <= edition.at /\ e.status = EffectiveStatus(e.row, before)
    BY DEF PageInv, StatusesDated
  <2>4. Ended(e.row, before) => Ended(e.row, edition.at)
    BY <2>1, <2>2, <2>3, EndedStays
  <2>5. /\ e.row.status \in Statuses
        /\ e.row.validFrom \in Int /\ e.row.validTo \in Int
    BY <2>2 DEF RowType, Instants, Unknown
  <2>6. e.row.status \in Terminal => e.status = e.row.status
    BY <2>3 DEF EffectiveStatus
  <2>7. e.row.status \notin Terminal =>
          e.status # "withdrawn" /\ (e.status = "expired" => Ended(e.row, edition.at))
    BY <2>3, <2>4, <2>5 DEF EffectiveStatus, Terminal, Statuses
  <2>8. shown(e) \in Terminal \/ stored(e) \in Terminal => shown(e) = stored(e)
    BY <2>5, <2>6, <2>7 DEF AdvisoryState, EffectiveStatus, Terminal, Statuses
  <2>9. e.row.source = "meteoalarm" => (shown(e) = "active" <=> stored(e) = "active")
    <3> SUFFICES ASSUME e.row.source = "meteoalarm"
                 PROVE  shown(e) = "active" <=> stored(e) = "active"
      OBVIOUS
    <3>1. e.status = "active" => Known(e.row.validTo)
      BY <2>3, <2>5, <2>6 DEF EffectiveStatus, Terminal, Statuses
    <3>2. Begun(e.row, edition.at) <=> Known(e.row.validFrom) /\ ~(e.row.validFrom > edition.at)
      BY <2>1, <2>5 DEF Begun
    <3> QED BY <2>5, <2>6, <2>7, <3>1, <3>2 DEF AdvisoryState, EffectiveStatus, Terminal, Statuses
  <2> QED BY <2>8, <2>9
<1> QED BY <1>1, PageInvariant, PTL

-----------------------------------------------------------------------------
(* The bars of a width divide the hours of a window.                       *)
Start(t, since, width) == since + ((t - since) \div width) * width

Begins(start, t, since, width) ==
  /\ start \in Int /\ since <= start /\ start <= t
  /\ t < start + width /\ (start - since) % width = 0
  /\ \A s \in Int : s <= t /\ t < s + width /\ (s - since) % width = 0 => s = start

LEMMA OneStart ==
  ASSUME NEW since \in Int, NEW t \in Int, since <= t, NEW width \in {1, 3, 6, 24}
  PROVE  Begins(Start(t, since, width), t, since, width)
<1>1. CASE width = 1
  BY <1>1 DEF Start, Begins
<1>2. CASE width = 3
  BY <1>2 DEF Start, Begins
<1>3. CASE width = 6
  BY <1>3 DEF Start, Begins
<1>4. CASE width = 24
  BY <1>4 DEF Start, Begins
<1> QED BY <1>1, <1>2, <1>3, <1>4

LEMMA OneBar ==
  ASSUME PageInv, edition # None, NEW hours \in Hours, NEW t \in (edition.at - hours)..(edition.at - 1)
  PROVE  \E bar \in Bars(edition, hours) :
           /\ bar.since \in Int /\ bar.until \in Int
           /\ edition.at - hours <= bar.since /\ bar.since <= t /\ t < bar.until
           /\ {b \in Bars(edition, hours) : b.since <= t /\ t < b.until} = {bar}
<1> DEFINE at == edition.at
           since == at - hours
           width == BarHours(hours)
           starts == {s \in since..(at - 1) : (s - since) % width = 0}
           bar(s) == Window(s, IF s + width < at THEN s + width ELSE at)
           start == Start(t, since, width)
<1>1. at \in Int /\ hours \in Int /\ hours >= 1
  BY QueryAt, ChoiceAssumption
<1>2. width \in {1, 3, 6, 24}
  BY <1>1 DEF BarHours
<1>3. since \in Int /\ t \in Int /\ since <= t /\ t < at
  BY <1>1
<1>4. Bars(edition, hours) = {bar(s) : s \in starts}
  BY DEF Bars
<1> HIDE DEF width, since, at
<1>5. Begins(start, t, since, width)
  BY <1>2, <1>3, OneStart
<1> HIDE DEF start
<1>6. at \in Int /\ width \in Int
  BY <1>1, <1>2
<1>7. ASSUME NEW s \in Int
      PROVE  /\ bar(s).since = s /\ bar(s).until \in Int
             /\ t < bar(s).until <=> t < s + width
  BY <1>3, <1>6 DEF Window
<1>8. start \in starts
  BY <1>3, <1>5, <1>6 DEF Begins
<1>9. ASSUME NEW s \in starts
      PROVE  s <= t /\ t < bar(s).until <=> s = start
  BY <1>3, <1>5, <1>6, <1>7 DEF Begins
<1> HIDE DEF bar
<1>10. {b \in {bar(s) : s \in starts} : b.since <= t /\ t < b.until} = {bar(start)}
  <2>1. ASSUME NEW s \in starts PROVE bar(s).since = s
    BY <1>3, <1>6, <1>7
  <2> HIDE DEF starts
  <2> QED BY <1>8, <1>9, <2>1
<1>11. /\ bar(start).since = start /\ bar(start).until \in Int /\ t < bar(start).until
       /\ bar(start) \in {bar(s) : s \in starts}
  BY <1>5, <1>7, <1>8 DEF Begins
<1> HIDE DEF starts
<1>12. /\ bar(start) \in Bars(edition, hours)
       /\ {b \in Bars(edition, hours) : b.since <= t /\ t < b.until} = {bar(start)}
  BY <1>4, <1>10, <1>11
<1> QED BY <1>5, <1>11, <1>12 DEF since, at, Begins

(* A dated record is a point or an interval that ends after it starts.     *)
LEMMA SpanSound ==
  ASSUME NEW e, e.row \in RowType, Dated(e)
  PROVE  /\ Span(e).start \in Int /\ Span(e).point \in BOOLEAN
         /\ ~Span(e).point /\ Known(Span(e).end) => Span(e).end \in Int /\ Span(e).end > Span(e).start
<1> DEFINE r == e.row
           start == PublicTime(r)
<1>1. /\ r.occurred \in Instants /\ r.issued \in Instants
      /\ r.validFrom \in Instants /\ r.validTo \in Instants /\ r.category \in Categories
  BY DEF RowType
<1>2. start \in Nat
  BY <1>1 DEF Dated, PublicTime, EventTime, Known, Instants
<1>3. DayOf(start) \in Int
  BY <1>2 DEF DayOf, Day
<1>4. CASE PublicBasis(r.category) = "validity"
  <2>1. start = r.validFrom /\ Orderly(r)
    BY <1>4 DEF Dated, PublicTime, EventTime
  <2>2. Span(e) = Point(start) \/ Span(e) = Interval(start, r.validTo)
    BY <1>4 DEF Span
  <2>3. CASE Span(e) = Point(start)
    BY <1>2, <2>3 DEF Point
  <2>4. CASE Span(e) = Interval(start, r.validTo)
    <3>1. Span(e).start = start /\ Span(e).end = r.validTo /\ Span(e).point = FALSE
      BY <2>4 DEF Interval
    <3>2. Known(r.validTo) => r.validTo \in Int /\ r.validTo > start
      BY <1>1, <1>2, <2>1 DEF Orderly, Known, Instants, Dated
    <3>3. Span(e).point \in BOOLEAN
      BY <3>1
    <3>4. start \in Int
      BY <1>2
    <3> HIDE DEF r, start
    <3> QED BY <3>1, <3>2, <3>3, <3>4
  <2> QED BY <2>2, <2>3, <2>4
<1>5. CASE PublicBasis(r.category) # "validity"
  <2>1. Span(e) = Point(start) \/ Span(e) = Interval(DayOf(start), DayOf(start) + Day)
    BY <1>5 DEF Span
  <2>2. CASE Span(e) = Point(start)
    BY <1>2, <2>2 DEF Point
  <2>3. CASE Span(e) = Interval(DayOf(start), DayOf(start) + Day)
    <3>1. /\ Span(e).start = DayOf(start) /\ Span(e).end = DayOf(start) + Day
          /\ Span(e).point = FALSE
      BY <2>3 DEF Interval
    <3>2. Span(e).point \in BOOLEAN
      BY <3>1
    <3>3. DayOf(start) + Day \in Int /\ DayOf(start) + Day > DayOf(start)
      BY <1>3 DEF Day
    <3> HIDE DEF r, start
    <3> QED BY <1>3, <3>1, <3>2, <3>3
  <2> QED BY <2>1, <2>2, <2>3
<1> QED BY <1>4, <1>5

(* The bars divide the window; every record of it is in one, a record of   *)
(* one instant in exactly one.                                             *)
THEOREM TimelineCoversAll == Spec => []TimelineCovers
<1>1. PageInv => TimelineCovers
  <2> SUFFICES ASSUME PageInv, edition # None, NEW scope \in Scopes, NEW hours \in Hours
               PROVE  LET bars == Bars(edition, hours) IN
                      /\ \A t \in (edition.at - hours)..(edition.at - 1) :
                           Cardinality({b \in bars : b.since <= t /\ t < b.until}) = 1
                      /\ \A e \in Inside(edition, scope, hours) :
                           LET counted == {b \in bars : e \in InBar(edition, scope, hours, b)}
                           IN counted # {} /\ (Span(e).point => Cardinality(counted) = 1)
    BY DEF TimelineCovers, OverviewShown
  <2> DEFINE bars == Bars(edition, hours)
             at == edition.at
             since == at - hours
  <2>1. at \in Int /\ hours \in Int /\ hours >= 1 /\ since \in Int
    BY QueryAt, ChoiceAssumption
  <2>2. ASSUME NEW t \in since..(at - 1)
        PROVE  Cardinality({b \in bars : b.since <= t /\ t < b.until}) = 1
    <3>1. PICK bar \in bars : {b \in bars : b.since <= t /\ t < b.until} = {bar}
      BY OneBar
    <3> QED BY <3>1, FS_Singleton
  <2>3. ASSUME NEW e \in Inside(edition, scope, hours)
        PROVE  LET counted == {b \in bars : e \in InBar(edition, scope, hours, b)}
               IN counted # {} /\ (Span(e).point => Cardinality(counted) = 1)
    <3> DEFINE counted == {b \in bars : e \in InBar(edition, scope, hours, b)}
               start == Span(e).start
               end == Span(e).end
    <3>1. e \in edition.events /\ Dated(e) /\ Meets(Span(e), since, at)
      BY DEF Inside
    <3>2. /\ start \in Int /\ Span(e).point \in BOOLEAN
          /\ ~Span(e).point /\ Known(end) => end \in Int /\ end > start
      BY <3>1, EventAt, SpanSound
    <3>3. \A b \in bars : b \in counted <=> Meets(Span(e), b.since, b.until)
      BY DEF InBar
    <3>4. CASE Span(e).point
      <4>1. since <= start /\ start < at
        BY <3>1, <3>4 DEF Meets
      <4>2. start \in since..(at - 1)
        BY <2>1, <3>2, <4>1
      <4>3. counted = {b \in bars : b.since <= start /\ start < b.until}
        BY <3>3, <3>4 DEF Meets
      <4>4. PICK bar \in bars : {b \in bars : b.since <= start /\ start < b.until} = {bar}
        BY <4>2, OneBar
      <4> QED BY <4>3, <4>4, FS_Singleton
    <3>5. CASE ~Span(e).point
      <4>1. start < at /\ (Known(end) => end > since)
        BY <3>1, <3>5 DEF Meets
      <4> DEFINE t == IF start < since THEN since ELSE start
      <4>2. t \in since..(at - 1) /\ start <= t
        BY <2>1, <3>2, <4>1
      <4>3. PICK bar \in bars :
              /\ bar.since \in Int /\ bar.until \in Int
              /\ since <= bar.since /\ bar.since <= t /\ t < bar.until
        BY <4>2, OneBar
      <4>4. start < bar.until
        BY <2>1, <3>2, <4>2, <4>3
      <4>5. Known(end) => end > bar.since
        BY <2>1, <3>2, <3>5, <4>1, <4>3
      <4>6. Meets(Span(e), bar.since, bar.until)
        BY <3>5, <4>4, <4>5 DEF Meets
      <4> QED BY <3>3, <3>5, <4>6
    <3> QED BY <3>2, <3>4, <3>5
  <2> QED BY <2>2, <2>3
<1> QED BY <1>1, PageInvariant, PTL

-----------------------------------------------------------------------------
(* The events of a publication are finitely many, and their ids distinct.  *)
FileOrdered ==
  edition # None =>
    /\ IsFiniteSet(edition.events)
    /\ \A e, f \in edition.events : e.row.order = f.row.order => e = f

LEMMA ReadsOrdered ==
  ASSUME Read
  PROVE  FileOrdered'
<1>1. PICK at \in Clocks, before \in Clocks, rows \in Catalogs :
        \E kept \in {{}, rows}, sources \in {Sources, UNION {r.sources : r \in rows}} :
          edition' = Edition(at, {Published(r, IF r \in kept THEN before ELSE at) : r \in rows}, sources)
  BY DEF Read
<1>2. PICK kept \in {{}, rows}, sources \in {Sources, UNION {r.sources : r \in rows}} :
        edition' = Edition(at, {Published(r, IF r \in kept THEN before ELSE at) : r \in rows}, sources)
  BY <1>1
<1> DEFINE event == [r \in rows |-> Published(r, IF r \in kept THEN before ELSE at)]
           events == {Published(r, IF r \in kept THEN before ELSE at) : r \in rows}
<1>3. edition'.events = events
  BY <1>2 DEF Edition
<1>4. IsFiniteSet(rows) /\ \A r, s \in rows : r.order = s.order => r = s
  BY CatalogAssumption
<1>5. event \in Surjection(rows, events)
  BY DEF Surjection
<1>6. IsFiniteSet(events)
  <2> HIDE DEF event, events
  <2> QED BY <1>4, <1>5, FS_Surjection
<1>7. ASSUME NEW e \in events, NEW f \in events, e.row.order = f.row.order
      PROVE  e = f
  <2>1. PICK r \in rows : e = Published(r, IF r \in kept THEN before ELSE at)
    OBVIOUS
  <2>2. PICK s \in rows : f = Published(s, IF s \in kept THEN before ELSE at)
    OBVIOUS
  <2>3. e.row = r /\ f.row = s
    BY <2>1, <2>2 DEF Published
  <2>4. r = s
    BY <1>4, <1>7, <2>3
  <2> QED BY <2>1, <2>2, <2>4
<1> HIDE DEF events
<1> QED BY <1>3, <1>6, <1>7 DEF FileOrdered

LEMMA FilesOrdered == Spec => []FileOrdered
<1>1. Init => FileOrdered
  BY DEF Init, FileOrdered
<1>2. PageInv /\ FileOrdered /\ [Next]_vars => FileOrdered'
  <2> SUFFICES ASSUME PageInv, FileOrdered, [Next]_vars PROVE FileOrdered'
    OBVIOUS
  <2>1. CASE Read
    BY <2>1, ReadsOrdered
  <2>2. CASE edition' = edition
    BY <2>2 DEF FileOrdered
  <2>3. CASE UNCHANGED vars
    BY <2>2, <2>3 DEF vars
  <2> QED BY <2>1, <2>2, <2>3, PanelSound
<1> QED BY <1>1, <1>2, PageInvariant, PTL DEF Spec

(* In a strict total order of a finite set every place up to the number of *)
(* its elements is taken.                                                  *)
LEMMA EveryPlaceTaken ==
  ASSUME NEW S, IsFiniteSet(S), NEW R,
         \A a \in S : <<a, a>> \notin R,
         \A a, b, c \in S : <<a, b>> \in R /\ <<b, c>> \in R => <<a, c>> \in R,
         \A a, b \in S : a # b => <<a, b>> \in R \/ <<b, a>> \in R
  PROVE  /\ Cardinality(S) \in Nat
         /\ \A i \in 1..Cardinality(S) :
              \E e \in S : Cardinality({f \in S : <<f, e>> \in R}) = i - 1
<1> DEFINE n == Cardinality(S)
           Ahead(e) == {f \in S : <<f, e>> \in R}
           place == [e \in S |-> Cardinality(Ahead(e))]
<1>1. n \in Nat
  BY FS_CardinalityType
<1>2. ASSUME NEW e \in S PROVE IsFiniteSet(Ahead(e)) /\ place[e] \in 0..(n - 1)
  <2>1. Ahead(e) \in SUBSET (S \ {e})
    OBVIOUS
  <2>2. IsFiniteSet(S \ {e}) /\ Cardinality(S \ {e}) = n - 1
    BY FS_RemoveElement
  <2> HIDE DEF Ahead
  <2>3. IsFiniteSet(Ahead(e)) /\ Cardinality(Ahead(e)) <= n - 1
    BY <2>1, <2>2, FS_Subset
  <2> QED BY <1>1, <2>3, FS_CardinalityType
<1>3. ASSUME NEW a \in S, NEW b \in S, <<a, b>> \in R PROVE place[a] # place[b]
  <2>1. Ahead(a) \in SUBSET Ahead(b) /\ a \in Ahead(b) /\ a \notin Ahead(a)
    BY <1>3
  <2>2. IsFiniteSet(Ahead(b))
    BY <1>2
  <2> HIDE DEF Ahead
  <2> QED BY <2>1, <2>2, FS_Subset
<1>4. place \in [S -> 0..(n - 1)] /\ \A a, b \in S : place[a] = place[b] => a = b
  BY <1>2, <1>3
<1> HIDE DEF place
<1>5. place \in Injection(S, 0..(n - 1))
  BY <1>4 DEF Injection, IsInjective
<1>6. ASSUME NEW i \in 1..n PROVE \E e \in S : place[e] = i - 1
  <2>1. IsFiniteSet(0..(n - 1)) /\ Cardinality(0..(n - 1)) = n
    <3>1. 0 \in Int /\ n - 1 \in Int
      BY <1>1
    <3> HIDE DEF n
    <3>2. /\ IsFiniteSet(0..(n - 1))
          /\ Cardinality(0..(n - 1)) = IF 0 > n - 1 THEN 0 ELSE (n - 1) - 0 + 1
      BY <3>1, FS_Interval
    <3> QED BY <1>1, <3>2
  <2>2. place \in Surjection(S, 0..(n - 1))
    BY <1>5, <2>1, FS_Injection
  <2>3. i - 1 \in 0..(n - 1)
    BY <1>1
  <2> QED BY <2>2, <2>3 DEF Surjection
<1> QED BY <1>1, <1>6 DEF place

(* The candidates are events of the publication.                           *)
LEMMA CandidatesTyped ==
  ASSUME PageInv, FileOrdered, edition # None, NEW scope, NEW hours \in Hours
  PROVE  Candidates(edition, scope, hours) \in Seq(edition.events)
<1> DEFINE since == edition.at - hours
           R(e) == Rank(e, since, edition.at)
           ahead(e, f) == \/ Above(R(e), R(f))
                          \/ R(e) = R(f) /\ e.row.order < f.row.order
           backed == {e \in Inside(edition, scope, hours) : Backed(e, edition)}
           pairs == {p \in backed \X backed : ahead(p[1], p[2])}
<1>1. backed \subseteq edition.events /\ IsFiniteSet(backed)
  <2>1. backed \in SUBSET edition.events
    BY DEF Inside
  <2> HIDE DEF backed
  <2> QED BY <2>1, FS_Subset DEF FileOrdered
<1> HIDE DEF backed
<1>2. ASSUME NEW e \in backed
      PROVE  \E x, y, z \in Int : R(e) = <<x, y, z>>
  <2>1. e.row \in RowType
    BY <1>1, EventAt
  <2>2. PublicTime(e.row) \in Int
    <3>1. e.row.occurred \in Instants /\ e.row.issued \in Instants /\ e.row.validFrom \in Instants
      BY <2>1 DEF RowType
    <3> QED BY <3>1 DEF PublicTime, EventTime, Instants, Unknown
  <2> QED BY <2>2 DEF Rank
<1>3. \A e \in backed : e.row.order \in Int
  BY <1>1, EventAt DEF RowType
<1>4. \A e, f \in backed : e # f => e.row.order # f.row.order
  BY <1>1 DEF FileOrdered
<1> HIDE DEF R
<1>5. /\ \A a \in backed : ~ahead(a, a)
      /\ \A a, b, c \in backed : ahead(a, b) /\ ahead(b, c) => ahead(a, c)
      /\ \A a, b \in backed : a # b => ahead(a, b) \/ ahead(b, a)
  <2>1. ASSUME NEW a \in backed PROVE ~ahead(a, a)
    BY <1>2, <1>3 DEF Above
  <2>2. ASSUME NEW a \in backed, NEW b \in backed, NEW c \in backed, ahead(a, b), ahead(b, c)
        PROVE  ahead(a, c)
    <3>1. PICK ax, ay, az \in Int : R(a) = <<ax, ay, az>> BY <1>2
    <3>2. PICK bx, by, bz \in Int : R(b) = <<bx, by, bz>> BY <1>2
    <3>3. PICK cx, cy, cz \in Int : R(c) = <<cx, cy, cz>> BY <1>2
    <3>4. a.row.order \in Int /\ b.row.order \in Int /\ c.row.order \in Int BY <1>3
    <3> QED BY <2>2, <3>1, <3>2, <3>3, <3>4 DEF Above
  <2>3. ASSUME NEW a \in backed, NEW b \in backed, a # b PROVE ahead(a, b) \/ ahead(b, a)
    <3>1. PICK ax, ay, az \in Int : R(a) = <<ax, ay, az>> BY <1>2
    <3>2. PICK bx, by, bz \in Int : R(b) = <<bx, by, bz>> BY <1>2
    <3>3. a.row.order \in Int /\ b.row.order \in Int /\ a.row.order # b.row.order BY <1>3, <1>4, <2>3
    <3> QED BY <3>1, <3>2, <3>3 DEF Above
  <2> QED BY <2>1, <2>2, <2>3
<1> HIDE DEF ahead
<1>6. \A a, b \in backed : <<a, b>> \in pairs <=> ahead(a, b)
  OBVIOUS
<1> HIDE DEF pairs
<1>7. /\ Cardinality(backed) \in Nat
      /\ \A i \in 1..Cardinality(backed) :
           \E e \in backed : Cardinality({f \in backed : <<f, e>> \in pairs}) = i - 1
  <2>1. /\ \A a \in backed : <<a, a>> \notin pairs
        /\ \A a, b, c \in backed : <<a, b>> \in pairs /\ <<b, c>> \in pairs => <<a, c>> \in pairs
        /\ \A a, b \in backed : a # b => <<a, b>> \in pairs \/ <<b, a>> \in pairs
    BY <1>5, <1>6
  <2> QED BY <1>1, <2>1, EveryPlaceTaken
<1>8. \A e \in backed : {f \in backed : ahead(f, e)} = {f \in backed : <<f, e>> \in pairs}
  BY <1>6
<1>9. ASSUME NEW i \in 1..Cardinality(backed)
      PROVE  (CHOOSE e \in backed : Cardinality({f \in backed : ahead(f, e)}) = i - 1) \in backed
  BY <1>7, <1>8
<1>10. Candidates(edition, scope, hours) =
         [i \in 1..Cardinality(backed) |->
           CHOOSE e \in backed : Cardinality({f \in backed : ahead(f, e)}) = i - 1]
  BY DEF Candidates, ahead, R, backed
<1>11. Candidates(edition, scope, hours) \in [1..Cardinality(backed) -> edition.events]
  BY <1>1, <1>9, <1>10
<1> QED BY <1>7, <1>11

-----------------------------------------------------------------------------
(* A sequence of highlights: none repeats another; no two of one category; *)
(* no two old ones of one category; what an event adds to it.              *)
Clean(c) == \A i, j \in DOMAIN c : i # j => ~Repeats(c[i], c[j])
OneEach(c) == \A i, j \in DOMAIN c : i # j => c[i].row.category # c[j].row.category
OldOnce(c, since, until) ==
  \A i, j \in DOMAIN c : i # j /\ ~Fresh(c[i], since, until) /\ ~Fresh(c[j], since, until) =>
    c[i].row.category # c[j].row.category
Extends(d, c) == Range(c) \subseteq Range(d) /\ Len(c) <= Len(d)
Represented(e, c) == (\E f \in Range(c) : f.row.category = e.row.category) \/ RepeatsOne(e, c)
Placed(e, c) == Len(c) = MaxHighlights \/ e \in Range(c) \/ RepeatsOne(e, c)

LEMMA AppendRange ==
  ASSUME NEW E, NEW c \in Seq(E), NEW e \in E
  PROVE  /\ Append(c, e) \in Seq(E) /\ Range(c) \subseteq E
         /\ Len(c) \in Nat /\ Len(Append(c, e)) = Len(c) + 1
         /\ Range(Append(c, e)) = Range(c) \cup {e}
         /\ DOMAIN c = 1..Len(c) /\ DOMAIN Append(c, e) = 1..(Len(c) + 1)
         /\ Append(c, e)[Len(c) + 1] = e
         /\ \A i \in 1..Len(c) : Append(c, e)[i] = c[i]
<1> DEFINE d == Append(c, e)
<1>1. /\ d \in Seq(E) /\ Len(c) \in Nat /\ Len(d) = Len(c) + 1
      /\ DOMAIN c = 1..Len(c) /\ DOMAIN d = 1..(Len(c) + 1)
      /\ d[Len(c) + 1] = e /\ \A i \in 1..Len(c) : d[i] = c[i] /\ c[i] \in E
  OBVIOUS
<1> HIDE DEF d
<1>2. Range(c) \subseteq E
  BY <1>1 DEF Range
<1>3. ASSUME NEW x \in Range(d) PROVE x \in Range(c) \cup {e}
  <2>1. PICK i \in 1..(Len(c) + 1) : d[i] = x
    BY <1>1 DEF Range
  <2>2. i = Len(c) + 1 \/ i \in 1..Len(c)
    BY <1>1
  <2> QED BY <1>1, <2>1, <2>2 DEF Range
<1>4. ASSUME NEW x \in Range(c) \cup {e} PROVE x \in Range(d)
  <2>1. CASE x = e
    BY <1>1, <2>1 DEF Range
  <2>2. CASE x \in Range(c)
    <3>1. PICK i \in 1..Len(c) : c[i] = x
      BY <1>1, <2>2 DEF Range
    <3>2. i \in 1..(Len(c) + 1)
      BY <1>1
    <3> QED BY <1>1, <3>1, <3>2 DEF Range
  <2> QED BY <2>1, <2>2
<1> QED BY <1>1, <1>2, <1>3, <1>4 DEF d

(* What repeats the one is repeated by the other.                          *)
LEMMA RepeatsBoth ==
  ASSUME NEW e, NEW f
  PROVE  Repeats(e, f) <=> Repeats(f, e)
BY DEF Repeats

LEMMA CleanAppend ==
  ASSUME NEW E, NEW c \in Seq(E), NEW e \in E, Clean(c), ~RepeatsOne(e, c)
  PROVE  Clean(Append(c, e))
<1> DEFINE d == Append(c, e)
<1>1. \A i \in 1..Len(c) : ~Repeats(e, c[i]) /\ ~Repeats(c[i], e)
  BY AppendRange, RepeatsBoth DEF RepeatsOne, Range
<1>2. /\ Len(c) \in Nat /\ DOMAIN c = 1..Len(c) /\ DOMAIN d = 1..(Len(c) + 1)
      /\ d[Len(c) + 1] = e /\ \A i \in 1..Len(c) : d[i] = c[i]
  BY AppendRange
<1> HIDE DEF d
<1>3. \A i \in 1..(Len(c) + 1) : i = Len(c) + 1 \/ i \in 1..Len(c)
  BY <1>2
<1>4. ASSUME NEW i \in DOMAIN d, NEW j \in DOMAIN d, i # j PROVE ~Repeats(d[i], d[j])
  <2>1. CASE i \in 1..Len(c) /\ j \in 1..Len(c)
    BY <1>2, <1>4, <2>1 DEF Clean
  <2>2. CASE i = Len(c) + 1 /\ j \in 1..Len(c)
    BY <1>1, <1>2, <2>2
  <2>3. CASE i \in 1..Len(c) /\ j = Len(c) + 1
    BY <1>1, <1>2, <2>3
  <2> QED BY <1>2, <1>3, <1>4, <2>1, <2>2, <2>3
<1> QED BY <1>4 DEF Clean, d

(* One more representative: what each step of the first pass keeps.        *)
LEMMA RepresentativeStep ==
  ASSUME NEW E, NEW c \in Seq(E), NEW e \in E, Clean(c), OneEach(c)
  PROVE  LET d == Representative(c, e)
         IN d \in Seq(E) /\ Clean(d) /\ OneEach(d) /\ Range(c) \subseteq Range(d) /\ Represented(e, d)
<1> DEFINE d == Representative(c, e)
           alike == \E f \in Range(c) : f.row.category = e.row.category
<1>1. CASE RepeatsOne(e, c) \/ alike
  <2>1. d = c
    BY <1>1 DEF Representative
  <2> HIDE DEF d
  <2> QED BY <1>1, <2>1 DEF Represented, d
<1>2. CASE ~RepeatsOne(e, c) /\ ~alike
  <2>1. d = Append(c, e)
    BY <1>2 DEF Representative
  <2>2. Clean(d)
    BY <1>2, <2>1, CleanAppend
  <2>3. /\ d \in Seq(E) /\ Range(d) = Range(c) \cup {e}
        /\ Len(c) \in Nat /\ DOMAIN c = 1..Len(c) /\ DOMAIN d = 1..(Len(c) + 1)
        /\ d[Len(c) + 1] = e /\ \A i \in 1..Len(c) : d[i] = c[i]
    BY <2>1, AppendRange
  <2> HIDE DEF d
  <2>4. \A i \in 1..Len(c) : c[i].row.category # e.row.category
    BY <1>2, <2>3 DEF Range
  <2>5. \A i \in 1..(Len(c) + 1) : i = Len(c) + 1 \/ i \in 1..Len(c)
    BY <2>3
  <2>6. ASSUME NEW i \in DOMAIN d, NEW j \in DOMAIN d, i # j
        PROVE  d[i].row.category # d[j].row.category
    <3>1. CASE i \in 1..Len(c) /\ j \in 1..Len(c)
      BY <2>3, <2>6, <3>1 DEF OneEach
    <3>2. CASE i = Len(c) + 1 /\ j \in 1..Len(c)
      BY <2>3, <2>4, <3>2
    <3>3. CASE i \in 1..Len(c) /\ j = Len(c) + 1
      BY <2>3, <2>4, <3>3
    <3> QED BY <2>3, <2>5, <2>6, <3>1, <3>2, <3>3
  <2>7. Range(c) \subseteq Range(d) /\ Represented(e, d)
    BY <2>3 DEF Represented
  <2> QED BY <2>2, <2>3, <2>6, <2>7 DEF OneEach, d
<1> QED BY <1>1, <1>2

(* One more of the others: what each step of the later passes keeps.       *)
LEMMA FillerStep ==
  ASSUME NEW E, NEW c \in Seq(E), NEW e \in E, Clean(c), Len(c) <= MaxHighlights,
         NEW since, NEW until, OldOnce(c, since, until), Fresh(e, since, until)
  PROVE  LET d == Filler(c, e)
         IN /\ d \in Seq(E) /\ Clean(d) /\ OldOnce(d, since, until) /\ Len(d) <= MaxHighlights
            /\ Extends(d, c) /\ Placed(e, d)
<1> DEFINE d == Filler(c, e)
<1>1. Len(c) \in Nat /\ MaxHighlights \in Nat
  BY HighlightsAssumption
<1>2. CASE Len(c) >= MaxHighlights \/ RepeatsOne(e, c)
  <2>1. d = c
    BY <1>2 DEF Filler
  <2>2. Placed(e, c)
    BY <1>1, <1>2 DEF Placed
  <2>3. Extends(c, c)
    BY <1>1 DEF Extends
  <2> QED BY <2>1, <2>2, <2>3
<1>3. CASE ~(Len(c) >= MaxHighlights \/ RepeatsOne(e, c))
  <2>1. d = Append(c, e)
    BY <1>3 DEF Filler
  <2>2. Clean(d)
    BY <1>3, <2>1, CleanAppend
  <2>3. /\ d \in Seq(E) /\ Range(d) = Range(c) \cup {e} /\ Len(d) = Len(c) + 1
        /\ DOMAIN c = 1..Len(c) /\ DOMAIN d = 1..(Len(c) + 1)
        /\ d[Len(c) + 1] = e /\ \A i \in 1..Len(c) : d[i] = c[i]
    BY <2>1, AppendRange
  <2> HIDE DEF d
  <2>4. \A i \in 1..(Len(c) + 1) : i = Len(c) + 1 \/ i \in 1..Len(c)
    BY <1>1
  <2>5. ASSUME NEW i \in DOMAIN d, NEW j \in DOMAIN d, i # j,
               ~Fresh(d[i], since, until), ~Fresh(d[j], since, until)
        PROVE  d[i].row.category # d[j].row.category
    <3>1. i \in 1..Len(c) /\ j \in 1..Len(c)
      BY <2>3, <2>4, <2>5
    <3> QED BY <2>3, <2>5, <3>1 DEF OldOnce
  <2>6. Len(d) <= MaxHighlights /\ Extends(d, c) /\ Placed(e, d)
    BY <1>1, <1>3, <2>3 DEF Extends, Placed
  <2> QED BY <2>2, <2>3, <2>5, <2>6 DEF OldOnce, d
<1> QED BY <1>2, <1>3

(* What was said of an event stays true of a longer choice.                *)
LEMMA RepresentedStays ==
  ASSUME NEW e, NEW c, NEW d, Range(c) \subseteq Range(d), Represented(e, c)
  PROVE  Represented(e, d)
BY DEF Represented, RepeatsOne

LEMMA PlacedStays ==
  ASSUME NEW E, NEW e, NEW c \in Seq(E), NEW d \in Seq(E), Extends(d, c), Len(d) <= MaxHighlights, Placed(e, c)
  PROVE  Placed(e, d)
<1>1. Len(c) \in Nat /\ Len(d) \in Nat /\ MaxHighlights \in Nat
  BY HighlightsAssumption
<1> QED BY <1>1 DEF Placed, Extends, RepeatsOne

-----------------------------------------------------------------------------
(* Every nonempty set of numbers has a least one, and what holds of zero   *)
(* and of the successor of every number it holds of is true of all.        *)
LEMMA LeastNat ==
  ASSUME NEW T \in SUBSET Nat, T # {}
  PROVE  \E x \in T : \A y \in T : x <= y
<1> DEFINE R == OpToRel(<, Nat)
<1>1. IsWellFoundedOn(R, Nat) BY NatLessThanWellFounded
<1>2. \A x, y \in Nat : <<x, y>> \in R <=> x < y BY DEF OpToRel
<1> HIDE DEF R
<1>3. PICK x \in T : \A y \in T : ~ (<<y, x>> \in R) BY <1>1, WFMin
<1>4. ASSUME NEW y \in T PROVE x <= y
  <2>1. x \in Nat /\ y \in Nat OBVIOUS
  <2>2. ~(y < x) BY <1>2, <1>3, <2>1
  <2>3. QED BY <2>1, <2>2
<1>5. QED BY <1>4

LEMMA Induction ==
  ASSUME NEW S, 0 \in S, \A n \in Nat : n \in S => n + 1 \in S
  PROVE  Nat \subseteq S
<1> DEFINE T == Nat \ S
<1>1. SUFFICES ASSUME T # {} PROVE FALSE OBVIOUS
<1>2. PICK x \in T : \A y \in T : x <= y
  <2>1. T \in SUBSET Nat OBVIOUS
  <2> HIDE DEF T
  <2>2. QED BY <1>1, <2>1, LeastNat
<1>3. x \in Nat /\ x # 0 /\ x - 1 \in Nat OBVIOUS
<1>4. CASE x - 1 \in T BY <1>2, <1>3, <1>4
<1>5. CASE x - 1 \in S
  <2>1. (x - 1) + 1 \in S BY <1>3, <1>5
  <2>2. (x - 1) + 1 = x BY <1>3
  <2>3. QED BY <2>1, <2>2
<1>6. QED BY <1>3, <1>4, <1>5

(* A function defined by recursion on the numbers up to N: base at zero,   *)
(* at n what step[n] makes of its value at n - 1.                          *)
Recurs(f, base, step, N) == f[0] = base /\ \A n \in 1..N : f[n] = step[n][f[n - 1]]

LEMMA RecursionExists ==
  ASSUME NEW A, NEW base \in A, NEW step \in [Nat -> [A -> A]], NEW M \in Nat
  PROVE  \E f \in [0..M -> A] : Recurs(f, base, step, M)
<1> DEFINE S == {N \in Nat : \E f \in [0..N -> A] : Recurs(f, base, step, N)}
<1>1. 0 \in S
  <2>1. [n \in 0..0 |-> base] \in [0..0 -> A] OBVIOUS
  <2>2. Recurs([n \in 0..0 |-> base], base, step, 0) BY DEF Recurs
  <2>3. QED BY <2>1, <2>2
<1>2. ASSUME NEW N \in Nat, N \in S PROVE N + 1 \in S
  <2>1. PICK f \in [0..N -> A] : Recurs(f, base, step, N) BY <1>2
  <2> DEFINE next == [n \in 0..(N + 1) |-> IF n = N + 1 THEN step[N + 1][f[N]] ELSE f[n]]
  <2>2. step[N + 1][f[N]] \in A /\ \A n \in 0..(N + 1) : n = N + 1 \/ n \in 0..N OBVIOUS
  <2>3. next \in [0..(N + 1) -> A] BY <2>2
  <2>4. next[N + 1] = step[N + 1][f[N]] /\ \A n \in 0..N : next[n] = f[n] OBVIOUS
  <2> HIDE DEF next
  <2>5. ASSUME NEW n \in 1..(N + 1) PROVE next[n] = step[n][next[n - 1]]
    <3>1. n - 1 \in 0..N /\ next[n - 1] = f[n - 1] BY <2>4
    <3>2. CASE n = N + 1 BY <3>1, <3>2, <2>4
    <3>3. CASE n \in 1..N BY <3>1, <3>3, <2>1, <2>4 DEF Recurs
    <3>4. QED BY <3>2, <3>3
  <2>6. Recurs(next, base, step, N + 1) BY <2>1, <2>4, <2>5 DEF Recurs
  <2>7. QED BY <2>3, <2>6
<1>3. Nat \subseteq S
  <2> HIDE DEF S
  <2>1. QED BY <1>1, <1>2, Induction
<1>4. QED BY <1>3


-----------------------------------------------------------------------------
(* The passes, step by step: the highlights after each candidate.          *)
LEMMA RepresentativesByStep ==
  ASSUME NEW E, NEW s \in Seq(E)
  PROVE  \E f \in [0..Len(s) -> Seq(E)] :
           /\ f[0] = <<>> /\ Representatives(s) = f[Len(s)]
           /\ \A n \in 1..Len(s) : f[n] = Representative(f[n - 1], s[n])
<1> DEFINE N == Len(s)
           A == Seq(E)
           step == [n \in Nat |-> [c \in A |-> IF n \in 1..N THEN Representative(c, s[n]) ELSE c]]
           Is(f) == f = [n \in 0..N |-> IF n = 0 THEN <<>> ELSE Representative(f[n - 1], s[n])]
<1>1. N \in Nat /\ \A n \in 1..N : s[n] \in E
  OBVIOUS
<1>2. <<>> \in A /\ \A c \in A, e \in E : Representative(c, e) \in A
  BY AppendRange DEF Representative
<1>3. Representatives(s) = (CHOOSE f : Is(f))[N]
  BY DEF Representatives
<1> HIDE DEF N, A
<1>4. step \in [Nat -> [A -> A]]
  BY <1>1, <1>2
<1>5. \A n \in 1..N, c \in A : step[n][c] = Representative(c, s[n])
  BY <1>1
<1> HIDE DEF step
<1>6. PICK g \in [0..N -> A] : Recurs(g, <<>>, step, N)
  BY <1>1, <1>2, <1>4, RecursionExists
<1>7. Is(g)
  <2>1. ASSUME NEW n \in 1..N PROVE g[n] = Representative(g[n - 1], s[n])
    <3>1. n - 1 \in 0..N
      BY <1>1
    <3> QED BY <1>5, <1>6, <3>1 DEF Recurs
  <2> QED BY <1>1, <1>6, <2>1 DEF Recurs
<1> DEFINE f == CHOOSE h : Is(h)
<1>8. Is(f)
  BY <1>7
<1> HIDE DEF f
<1>9. f[0] = <<>> /\ DOMAIN f = 0..N /\ \A n \in 1..N : f[n] = Representative(f[n - 1], s[n])
  BY <1>1, <1>8
<1> DEFINE S == {n \in Nat : n <= N => f[n] \in A}
<1>10. Nat \subseteq S
  <2>1. 0 \in S
    BY <1>2, <1>9
  <2>2. ASSUME NEW n \in Nat, n \in S PROVE n + 1 \in S
    <3>1. CASE n + 1 \in 1..N
      <4>1. f[n + 1] = Representative(f[n], s[n + 1])
        BY <1>9, <3>1
      <4> QED BY <1>1, <1>2, <2>2, <3>1, <4>1
    <3> QED BY <1>1, <3>1
  <2> HIDE DEF S
  <2> QED BY <2>1, <2>2, Induction
<1>11. f \in [0..N -> A]
  <2>1. \A n \in 0..N : f[n] \in A
    BY <1>1, <1>10
  <2> QED BY <1>8, <2>1
<1> QED BY <1>3, <1>9, <1>11 DEF f, N, A

Fills(f, first, s, those) ==
  /\ f[0] = first /\ Filled(first, s, those) = f[Len(s)]
  /\ \A n \in 1..Len(s) : f[n] = IF s[n] \in those THEN Filler(f[n - 1], s[n]) ELSE f[n - 1]

LEMMA FilledByStep ==
  ASSUME NEW E, NEW s \in Seq(E), NEW first \in Seq(E), NEW those
  PROVE  \E f \in [0..Len(s) -> Seq(E)] : Fills(f, first, s, those)
<1> DEFINE N == Len(s)
           A == Seq(E)
           Taken(c, n) == IF s[n] \in those THEN Filler(c, s[n]) ELSE c
           step == [n \in Nat |-> [c \in A |-> IF n \in 1..N THEN Taken(c, n) ELSE c]]
           Is(f) == f = [n \in 0..N |-> IF n = 0 THEN first ELSE
                                          IF s[n] \in those THEN Filler(f[n - 1], s[n]) ELSE f[n - 1]]
<1>1. N \in Nat /\ \A n \in 1..N : s[n] \in E
  OBVIOUS
<1>2. first \in A /\ \A c \in A, n \in 1..N : Taken(c, n) \in A
  BY <1>1, AppendRange DEF Filler
<1>3. Filled(first, s, those) = (CHOOSE f : Is(f))[N]
  BY DEF Filled
<1> HIDE DEF N, A
<1>4. step \in [Nat -> [A -> A]]
  <2>1. \A n \in Nat, c \in A : (IF n \in 1..N THEN Taken(c, n) ELSE c) \in A
    BY <1>2
  <2> QED BY <2>1
<1>5. \A n \in 1..N, c \in A : step[n][c] = Taken(c, n)
  BY <1>1
<1> HIDE DEF step
<1>6. PICK g \in [0..N -> A] : Recurs(g, first, step, N)
  BY <1>1, <1>2, <1>4, RecursionExists
<1>7. Is(g)
  <2>1. ASSUME NEW n \in 1..N PROVE g[n] = Taken(g[n - 1], n)
    <3>1. n - 1 \in 0..N
      BY <1>1
    <3> QED BY <1>5, <1>6, <3>1 DEF Recurs
  <2> QED BY <1>1, <1>6, <2>1 DEF Recurs
<1> DEFINE f == CHOOSE h : Is(h)
<1>8. Is(f)
  BY <1>7
<1> HIDE DEF f
<1>9. f[0] = first /\ DOMAIN f = 0..N /\ \A n \in 1..N : f[n] = Taken(f[n - 1], n)
  BY <1>1, <1>8
<1> DEFINE S == {n \in Nat : n <= N => f[n] \in A}
<1>10. Nat \subseteq S
  <2>1. 0 \in S
    BY <1>2, <1>9
  <2>2. ASSUME NEW n \in Nat, n \in S PROVE n + 1 \in S
    <3>1. CASE n + 1 \in 1..N
      <4>1. f[n + 1] = Taken(f[n], n + 1)
        BY <1>9, <3>1
      <4>2. f[n] \in A
        BY <2>2, <3>1, <1>1
      <4> HIDE DEF Taken
      <4> QED BY <1>2, <3>1, <4>1, <4>2
    <3> QED BY <1>1, <3>1
  <2> HIDE DEF S
  <2> QED BY <2>1, <2>2, Induction
<1>11. f \in [0..N -> A]
  <2>1. \A n \in 0..N : f[n] \in A
    BY <1>1, <1>10
  <2> QED BY <1>8, <2>1
<1> QED BY <1>3, <1>9, <1>11 DEF f, N, A, Fills

(* After the first pass every candidate is represented, by one highlight of*)
(* its category.                                                           *)
LEMMA RepresentativesFair ==
  ASSUME NEW E, NEW s \in Seq(E)
  PROVE  LET first == Representatives(s)
         IN first \in Seq(E) /\ Clean(first) /\ OneEach(first) /\ \A e \in Range(s) : Represented(e, first)
<1> DEFINE N == Len(s)
<1>1. N \in Nat /\ DOMAIN s = 1..N /\ \A n \in 1..N : s[n] \in E
  OBVIOUS
<1>2. PICK f \in [0..N -> Seq(E)] :
        /\ f[0] = <<>> /\ Representatives(s) = f[N]
        /\ \A n \in 1..N : f[n] = Representative(f[n - 1], s[n])
  BY RepresentativesByStep
<1> HIDE DEF N
<1> DEFINE Good(n) == Clean(f[n]) /\ OneEach(f[n]) /\ \A k \in 1..n : Represented(s[k], f[n])
           S == {n \in Nat : n <= N => Good(n)}
<1>3. 0 \in S
  <2>1. DOMAIN f[0] = {}
    BY <1>2
  <2> QED BY <2>1 DEF Clean, OneEach
<1>4. ASSUME NEW n \in Nat, n \in S PROVE n + 1 \in S
  <2>1. CASE n + 1 \in 1..N
    <3>1. n \in 0..N /\ n <= N /\ (n + 1) - 1 = n
      BY <1>1, <2>1
    <3>2. Good(n) /\ f[n] \in Seq(E) /\ s[n + 1] \in E
      BY <1>1, <1>2, <1>4, <2>1, <3>1
    <3>3. f[n + 1] = Representative(f[n], s[n + 1])
      BY <1>2, <2>1, <3>1
    <3>4. /\ Clean(f[n + 1]) /\ OneEach(f[n + 1])
          /\ Range(f[n]) \subseteq Range(f[n + 1]) /\ Represented(s[n + 1], f[n + 1])
      BY <3>2, <3>3, RepresentativeStep
    <3>5. ASSUME NEW k \in 1..(n + 1) PROVE Represented(s[k], f[n + 1])
      <4>1. CASE k \in 1..n
        BY <3>2, <3>4, <4>1, RepresentedStays
      <4> QED BY <3>4, <4>1
    <3> QED BY <3>4, <3>5
  <2> QED BY <1>1, <2>1
<1>5. Nat \subseteq S
  <2> HIDE DEF S
  <2> QED BY <1>3, <1>4, Induction
<1>6. Good(N) /\ f[N] \in Seq(E)
  BY <1>1, <1>2, <1>5
<1>7. ASSUME NEW e \in Range(s) PROVE Represented(e, f[N])
  <2>1. PICK k \in 1..N : e = s[k]
    BY <1>1 DEF Range
  <2> QED BY <1>6, <2>1
<1> QED BY <1>2, <1>6, <1>7

(* A later pass keeps what it was given and places all of those it was     *)
(* told to, as far as there is room.                                       *)
LEMMA FilledFair ==
  ASSUME NEW E, NEW s \in Seq(E), NEW first \in Seq(E), NEW those, NEW since, NEW until,
         Clean(first), OldOnce(first, since, until), Len(first) <= MaxHighlights,
         \A e \in those : Fresh(e, since, until)
  PROVE  LET c == Filled(first, s, those)
         IN /\ c \in Seq(E) /\ Clean(c) /\ OldOnce(c, since, until) /\ Len(c) <= MaxHighlights
            /\ Extends(c, first) /\ \A e \in Range(s) : e \in those => Placed(e, c)
<1>a. PICK f \in [0..Len(s) -> Seq(E)] : Fills(f, first, s, those)
  BY FilledByStep
<1> DEFINE N == Len(s)
<1>1. N \in Nat /\ DOMAIN s = 1..N /\ \A n \in 1..N : s[n] \in E
  OBVIOUS
<1>2. /\ f \in [0..N -> Seq(E)] /\ f[0] = first /\ Filled(first, s, those) = f[N]
      /\ \A n \in 1..N : f[n] = IF s[n] \in those THEN Filler(f[n - 1], s[n]) ELSE f[n - 1]
  BY <1>a DEF Fills
<1> HIDE DEF N
<1> DEFINE Good(n) ==
             /\ Clean(f[n]) /\ OldOnce(f[n], since, until) /\ Len(f[n]) <= MaxHighlights
             /\ Extends(f[n], first) /\ \A k \in 1..n : s[k] \in those => Placed(s[k], f[n])
           S == {n \in Nat : n <= N => Good(n)}
<1>3. 0 \in S
  <2>1. Extends(first, first)
    BY DEF Extends
  <2> QED BY <1>2, <2>1
<1>4. ASSUME NEW n \in Nat, n \in S PROVE n + 1 \in S
  <2>1. CASE n + 1 \in 1..N
    <3>1. n \in 0..N /\ n <= N /\ (n + 1) - 1 = n
      BY <1>1, <2>1
    <3>2. Good(n) /\ f[n] \in Seq(E) /\ f[n + 1] \in Seq(E) /\ s[n + 1] \in E
      BY <1>1, <1>2, <1>4, <2>1, <3>1
    <3>3. CASE s[n + 1] \in those
      <4>1. f[n + 1] = Filler(f[n], s[n + 1])
        BY <1>2, <2>1, <3>1, <3>3
      <4>2. Fresh(s[n + 1], since, until)
        BY <3>3
      <4>3. /\ Clean(f[n + 1]) /\ OldOnce(f[n + 1], since, until) /\ Len(f[n + 1]) <= MaxHighlights
            /\ Extends(f[n + 1], f[n]) /\ Placed(s[n + 1], f[n + 1])
        BY <3>2, <4>1, <4>2, FillerStep
      <4>4. Extends(f[n + 1], first)
        <5>1. Len(first) \in Nat /\ Len(f[n]) \in Nat /\ Len(f[n + 1]) \in Nat
          BY <3>2
        <5>2. Extends(f[n], first)
          BY <3>2
        <5> QED BY <4>3, <5>1, <5>2 DEF Extends
      <4>5. ASSUME NEW k \in 1..(n + 1), s[k] \in those PROVE Placed(s[k], f[n + 1])
        <5>1. CASE k \in 1..n
          <6>1. Placed(s[k], f[n])
            BY <3>2, <4>5, <5>1
          <6> HIDE DEF Good
          <6> QED BY <3>2, <4>3, <6>1, PlacedStays
        <5> QED BY <4>3, <5>1
      <4> QED BY <4>3, <4>4, <4>5
    <3>4. CASE s[n + 1] \notin those
      <4>1. f[n + 1] = f[n]
        BY <1>2, <2>1, <3>1, <3>4
      <4>2. \A k \in 1..(n + 1) : k = n + 1 \/ k \in 1..n
        OBVIOUS
      <4> QED BY <3>2, <3>4, <4>1, <4>2
    <3> QED BY <3>3, <3>4
  <2> QED BY <1>1, <2>1
<1>5. Nat \subseteq S
  <2> HIDE DEF S
  <2> QED BY <1>3, <1>4, Induction
<1>6. Good(N) /\ f[N] \in Seq(E)
  BY <1>1, <1>2, <1>5
<1>7. ASSUME NEW e \in Range(s), e \in those PROVE Placed(e, f[N])
  <2>1. PICK k \in 1..N : e = s[k]
    BY <1>1 DEF Range
  <2> QED BY <1>6, <1>7, <2>1
<1> QED BY <1>2, <1>6, <1>7

(* There is a place for a representative of every category.                *)
LEMMA RepresentativesFit ==
  ASSUME NEW E, \A e \in E : e.row.category \in Categories, NEW first \in Seq(E), OneEach(first)
  PROVE  Len(first) <= MaxHighlights
<1> DEFINE N == Len(first)
           category == [i \in 1..N |-> first[i].row.category]
<1>1. N \in Nat /\ DOMAIN first = 1..N /\ \A i \in 1..N : first[i] \in E
  OBVIOUS
<1>2. IsFiniteSet(Categories)
  <2>1. Categories = (((((({} \cup {"earthquake"}) \cup {"disaster"}) \cup {"weather"}) \cup {"aviation"})
                        \cup {"cyber"}) \cup {"internet"}) \cup {"space_weather"}
    BY DEF Categories
  <2> QED BY <2>1, FS_EmptySet, FS_AddElement
<1> HIDE DEF N
<1>3. category \in Injection(1..N, Categories)
  BY <1>1 DEF OneEach, Injection, IsInjective
<1>4. N <= Cardinality(Categories)
  <2>1. Cardinality(1..N) = N
    BY <1>1, FS_Interval
  <2> HIDE DEF category
  <2> QED BY <1>2, <1>3, <2>1, FS_Injection
<1>5. Cardinality(Categories) \in Nat /\ MaxHighlights \in Nat /\ MaxHighlights >= Cardinality(Categories)
  BY <1>2, FS_CardinalityType, HighlightsAssumption
<1> QED BY <1>1, <1>4, <1>5 DEF N

(* No highlight repeats another, every category with a candidate is shown  *)
(* unless a highlight repeats it, an old advisory has the one place of its *)
(* category, and no place stays free that a fresh candidate could have, for*)
(* publications of any size.                                               *)
THEOREM HighlightsAreFair == Spec => []HighlightsFair
<1>1. PageInv /\ FileOrdered => HighlightsFair
  <2> SUFFICES ASSUME PageInv, FileOrdered, edition # None, NEW scope \in Scopes, NEW hours \in Hours
               PROVE  LET chosen == Highlights(edition, scope, hours)
                          candidates == Range(Candidates(edition, scope, hours))
                          fresh(e) == Fresh(e, edition.at - hours, edition.at)
                      IN /\ \A i, j \in DOMAIN chosen : i # j => ~Repeats(chosen[i], chosen[j])
                         /\ \A e \in candidates :
                              \/ \E f \in Range(chosen) : f.row.category = e.row.category
                              \/ RepeatsOne(e, chosen)
                         /\ \A i, j \in DOMAIN chosen :
                              i # j /\ ~fresh(chosen[i]) /\ ~fresh(chosen[j]) =>
                                chosen[i].row.category # chosen[j].row.category
                         /\ \/ Len(chosen) = MaxHighlights
                            \/ \A e \in candidates :
                                 fresh(e) => e \in Range(chosen) \/ RepeatsOne(e, chosen)
    BY DEF HighlightsFair, OverviewShown
  <2> DEFINE E == edition.events
             since == edition.at - hours
             until == edition.at
             s == Candidates(edition, scope, hours)
             first == Representatives(s)
             shown == UNION {e.row.sources : e \in Range(first)}
             rest == {e \in Range(s) \ Range(first) : Fresh(e, since, until)}
             adding == {e \in rest : e.row.sources \ shown # {}}
             others == rest \ adding
             more == Filled(first, s, adding)
             chosen == Filled(more, s, others)
  <2>1. chosen = Highlights(edition, scope, hours)
    BY DEF Highlights
  <2>2. s \in Seq(E)
    BY CandidatesTyped
  <2>3. \A e \in E : e.row.category \in Categories
    BY EventAt DEF RowType
  <2>4. /\ \A e \in adding : Fresh(e, since, until)
        /\ \A e \in others : Fresh(e, since, until)
        /\ \A e \in Range(s) : Fresh(e, since, until) => e \in Range(first) \/ e \in adding \/ e \in others
    OBVIOUS
  <2> HIDE DEF E, s, adding, others, since, until
  <2>5. first \in Seq(E) /\ Clean(first) /\ OneEach(first) /\ \A e \in Range(s) : Represented(e, first)
    BY <2>2, RepresentativesFair
  <2> HIDE DEF first
  <2>6. Len(first) <= MaxHighlights /\ OldOnce(first, since, until)
    BY <2>3, <2>5, RepresentativesFit DEF OneEach, OldOnce
  <2>7. /\ more \in Seq(E) /\ Clean(more) /\ OldOnce(more, since, until) /\ Len(more) <= MaxHighlights
        /\ Extends(more, first) /\ \A e \in Range(s) : e \in adding => Placed(e, more)
    BY <2>2, <2>4, <2>5, <2>6, FilledFair
  <2> HIDE DEF more
  <2>8. /\ chosen \in Seq(E) /\ Clean(chosen) /\ OldOnce(chosen, since, until) /\ Len(chosen) <= MaxHighlights
        /\ Extends(chosen, more) /\ \A e \in Range(s) : e \in others => Placed(e, chosen)
    BY <2>2, <2>4, <2>7, FilledFair
  <2> HIDE DEF chosen
  <2>9. ASSUME NEW e \in Range(s) PROVE Represented(e, chosen)
    <3>1. Range(first) \subseteq Range(chosen)
      BY <2>7, <2>8 DEF Extends
    <3> QED BY <2>5, <3>1, RepresentedStays
  <2>10. ASSUME NEW e \in Range(s), Fresh(e, since, until) PROVE Placed(e, chosen)
    <3>1. CASE e \in Range(first)
      BY <2>7, <2>8, <3>1 DEF Extends, Placed
    <3>2. CASE e \in adding
      <4>1. Placed(e, more)
        BY <2>7, <3>2
      <4> QED BY <2>7, <2>8, <4>1, PlacedStays
    <3>3. CASE e \in others
      BY <2>8, <3>3
    <3> QED BY <2>4, <2>10, <3>1, <3>2, <3>3
  <2> QED BY <2>1, <2>8, <2>9, <2>10 DEF Clean, OldOnce, Represented, Placed, s, since, until
<1> QED BY <1>1, PageInvariant, FilesOrdered, PTL
=============================================================================
