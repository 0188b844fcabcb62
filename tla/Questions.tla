------------------------------ MODULE Questions ------------------------------
(***************************************************************************)
(* parse_question: the query for the database that a question stands for,  *)
(* or none.  A question is what the expressions of query.py find in it, in *)
(* the order in which they consume its words.  Hours of the local clock    *)
(* are looked up as _wall_time does, around the changes to and from summer *)
(* time.                                                                   *)
(***************************************************************************)
EXTENDS Records, Sequences

CONSTANTS
  Offset,       \* Offset[t]: how far the local clock is ahead of UTC at instant t
  QueryRadius,  \* the 800 km around Warsaw
  MaxHours, MaxSources      \* 720 and 10, the limits of EventQuery

Local(t) == t + Offset[t]
LocalDay(t) == Local(t) \div Day

(* unfit: empty, too long, about what no source holds, or with a negation; *)
(* other: a word that nothing recognises.                                  *)
Question == [
  unfit : BOOLEAN, other : BOOLEAN, intent : BOOLEAN, current : BOOLEAN, changes : BOOLEAN,
  radii : Seq(Nat), countries : SUBSET STRING, europe : BOOLEAN, world : BOOLEAN,
  categories : SUBSET Categories, thresholds : Seq(Nat),
  hours : Seq(Nat), clocks : Seq(Nat), morning : BOOLEAN, today : BOOLEAN, yesterday : BOOLEAN]

(* An hour that the local clock skips or shows twice is refused.           *)
WallTime(day, hour) ==
  LET at == {t \in DOMAIN Offset : Local(t) = day * Day + hour} IN
  IF hour < Day /\ Cardinality(at) = 1 THEN at ELSE {}

OneTime(q) ==
  LET hours == q.hours # <<>>
      clock == q.clocks # <<>>
  IN /\ Len(q.hours) <= 1 /\ Len(q.clocks) <= 1
     /\ ~(hours /\ (q.morning \/ clock \/ q.today \/ q.yesterday))
     /\ ~(q.yesterday /\ (q.morning \/ clock \/ q.today))
     /\ ~(q.morning /\ clock)

(* The window of a question, in a set that is empty if it has none.        *)
Windows(q, now) ==
  LET today(hour) == {Window(t, now) : t \in WallTime(LocalDay(now), hour)}
      found ==
        CASE q.hours # <<>> -> {Window(now - q.hours[1], now) : h \in {q.hours[1]} \cap 1..MaxHours}
          [] q.yesterday -> {Window(s, u) : s \in WallTime(LocalDay(now) - 1, 0), u \in WallTime(LocalDay(now), 0)}
          [] q.morning -> today(6)
          [] q.clocks # <<>> -> today(q.clocks[1])
          [] q.today -> today(0)
          [] OTHER -> {Window(now - Day, now)}
  IN {w \in found : w.since < w.until}

Areas(q) ==
  (IF q.countries # {} THEN {"country"} ELSE {}) \cup (IF q.europe THEN {"europe"} ELSE {})
    \cup (IF q.radii # <<>> THEN {"radius"} ELSE {}) \cup (IF q.world THEN {"world"} ELSE {})

OneArea(q) ==
  /\ q.radii \in {<<>>, <<QueryRadius>>}
  /\ Cardinality(q.countries) <= 1 /\ Cardinality(Areas(q)) <= 1

OneThreshold(q) == Len(q.thresholds) <= 1 /\ \A n \in DOMAIN q.thresholds : q.thresholds[n] \in 1..MaxSources

(* No question is about the whole database.                                *)
Specific(q) ==
  LET timed == q.hours # <<>> \/ q.clocks # <<>> \/ q.morning \/ q.today \/ q.yesterday
      placed == Areas(q) # {} \/ q.categories # {}
  IN (timed /\ placed) \/ ((q.intent \/ q.changes) /\ (timed \/ placed))

Choice(S) == IF S = {} THEN None ELSE CHOOSE x \in S : TRUE

Basis(q) ==
  CASE q.changes -> "changed"
    [] q.categories = {"cyber"} -> "published"
    [] q.categories \in {{"aviation"}, {"weather"}} -> "validity"
    [] OTHER -> "occurred"

(* At most one; the geography of a query is left to region and radius.     *)
Interpretations(q, now) ==
  {[query |-> Query(w.until - w.since, w, Basis(q), Choice(q.countries), Choice(q.categories), 0,
                    IF q.thresholds = <<>> THEN 1 ELSE q.thresholds[1], q.changes \/ ~q.current),
    region |-> q.europe, radius |-> q.radii # <<>>] :
     w \in {w \in Windows(q, now) :
              /\ ~q.unfit /\ ~q.other /\ Specific(q)
              /\ OneArea(q) /\ Cardinality(q.categories) <= 1 /\ OneThreshold(q) /\ OneTime(q)}}

-----------------------------------------------------------------------------
(* What a question asks for, in words of the local calendar, and whether a *)
(* row speaks of such an hour.                                             *)
HourAsked(t, q, now) ==
  LET day == LocalDay(t)
      hour == Local(t) % Day
  IN /\ \A n \in DOMAIN q.hours : now - q.hours[n] <= t
     /\ \A n \in DOMAIN q.clocks : day = LocalDay(now) /\ hour >= q.clocks[n]
     /\ q.morning => day = LocalDay(now) /\ hour >= 6
     /\ q.today => day = LocalDay(now)
     /\ IF q.yesterday THEN day = LocalDay(now) - 1 ELSE t < now
     /\ q.hours = <<>> /\ q.clocks = <<>> /\ ~q.morning /\ ~q.today /\ ~q.yesterday => now - Day <= t

SpeaksOf(r, t, basis) ==
  CASE basis = "published" -> /\ Known(r.issued)
                              /\ t = r.issued \/ (r.dateOnly /\ DayOf(t) = DayOf(r.issued))
    [] basis = "validity" -> Begun(r, t) /\ ~Ended(r, t)
    [] OTHER -> t = r.occurred

AskedFor(r, q, now) ==
  /\ \E t \in DOMAIN Offset : HourAsked(t, q, now) /\ SpeaksOf(r, t, Basis(q))
  /\ q.countries \subseteq r.countries /\ q.categories \subseteq {r.category}
  /\ \A n \in DOMAIN q.thresholds : r.independent >= q.thresholds[n]
  /\ q.current => r.status \notin Terminal /\ ~Ended(r, now)
=============================================================================
