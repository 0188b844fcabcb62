----------------------------- MODULE Narratives -----------------------------
(***************************************************************************)
(* What a briefing and an answer tell of the rows the database hands them. *)
(* build_briefing reads its rows once, in batches of any order, and holds  *)
(* no more than MAX_FACTS of them.  Wording is left out, and the relations *)
(* between facts.                                                          *)
(***************************************************************************)
EXTENDS Records, Sequences, SequencesExt

CONSTANTS
  MaxFacts      \* MAX_FACTS, 30

(* A row with the change that was last made to it, initial when that is its*)
(* first import; it can be cited if it has a title and an address.         *)
ChangeTypes == {"initial_import", "new", "updated", "withdrawn", "expired", "identity_split"}
ChangeType == [row : RowType, change : ChangeTypes, changed : Instants, citable : BOOLEAN]

(* _sort_events: severe first, then late ones, unknown times last.         *)
Ahead(c, d, cTime, dTime) ==
  \/ c.row.severity > d.row.severity
  \/ c.row.severity = d.row.severity /\ cTime > dTime
  \/ c.row.severity = d.row.severity /\ cTime = dTime /\ c.row.order < d.row.order
Later(c, d) == Ahead(c, d, c.changed, d.changed)

FirstFacts(changes) == SubSeq(changes, 1, Min({Len(changes), MaxFacts}))

(* build_briefing *********************************************************)
Group(c, since, until, first) ==
  CASE c.change = "initial_import" -> InitialScope(c.row, since, until)
    [] c.change \in {"withdrawn", "updated"} -> c.change
    [] c.change \notin {"initial_import", "withdrawn", "updated"} /\ first ->
         InitialScope(c.row, since, until)
    [] OTHER -> IF c.change = "new" THEN "new" ELSE "other"

NothingTold == [processed |-> 0, historical |-> 0, uncitable |-> 0, citable |-> 0, selected |-> <<>>]

Told(b, c, since, until, first) ==
  LET read == [b EXCEPT !.processed = @ + 1] IN
  IF Group(c, since, until, first) = None THEN [read EXCEPT !.historical = @ + 1]
  ELSE IF ~c.citable THEN [read EXCEPT !.uncitable = @ + 1]
  ELSE [read EXCEPT !.citable = @ + 1, !.selected = FirstFacts(SortSeq(Append(@, c), Later))]

BuildBriefing(changes, since, until, first) ==
  LET b == FoldLeft(LAMBDA sofar, c : Told(sofar, c, since, until, first), NothingTold, changes) IN
  [processed |-> b.processed, historical |-> b.historical, uncitable |-> b.uncitable,
   citable |-> b.citable, omitted |-> b.citable - Len(b.selected), facts |-> b.selected,
   sections |-> [g \in Groups \cup {"new", "updated", "withdrawn", "other"} |->
                   SelectSeq(b.selected, LAMBDA c : Group(c, since, until, first) = g)]]

(* build_answer ***********************************************************)
AnswerTime(c, basis) == IF basis = "changed" THEN c.changed ELSE EventTime(c.row, basis)

BuildAnswer(changes, q) ==
  LET selected == SortSeq(SelectSeq(changes, LAMBDA c : c.row.independent >= q.minSources),
                          LAMBDA c, d : Ahead(c, d, AnswerTime(c, q.basis), AnswerTime(d, q.basis)))
      cited == SelectSeq(selected, LAMBDA c : c.citable)
  IN [events |-> selected, facts |-> FirstFacts(cited), uncited |-> Len(selected) - Len(cited)]
=============================================================================
