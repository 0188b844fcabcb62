--------------------------- MODULE ComparisonPoint ---------------------------
(***************************************************************************)
(* The point of comparison of the public page, in localStorage: the first  *)
(* publication a browser reads sets it, the user moves it, and every tab   *)
(* reports changes against it (public-session.ts, PublicMonitor.tsx).  As  *)
(* in Selections a task of a tab reads and writes the storage in separate  *)
(* calls.  Caches may serve a tab any publication, older ones too.  A      *)
(* point dated more than five minutes ahead counts as an invalid entry.    *)
(***************************************************************************)
EXTENDS Pages, Sequences

CONSTANT Published      \* publications: their generated_at, and the fingerprints of their events

ASSUME PublishedAssumption == Published \subseteq [at : Nat \ {0}, content : Nat]

Point(at, content) == [at |-> at, content |-> content]
None == Point(0, 0)     \* no entry, or one that is not valid; no publication yet

(* A task: its next step, why it writes, the point to write, and the events*)
(* that had arrived when it began and when it compared.                    *)
Writing(step, why, point, began, compared) ==
  [step |-> step, why |-> why, point |-> point, began |-> began, compared |-> compared]
NotWriting == Writing("idle", "load", None, 0, 0)

VARIABLES
  reference,    \* the entry in localStorage
  refusing,     \* setItem throws
  visits,       \* tabs that show the page
  snapshot,     \* the publication a tab shows
  baseline,     \* the point a tab compares it with
  notices,      \* storage events the tab has not handled: their newValue
  writing       \* what the tab is doing

pointVars == <<reference, refusing, visits, snapshot, baseline, notices, writing>>

PointInit ==
  /\ reference = None /\ refusing \in BOOLEAN /\ visits = {}
  /\ snapshot = [t \in Tabs |-> None]
  /\ baseline = [t \in Tabs |-> None]
  /\ notices = [t \in Tabs |-> <<>>]
  /\ writing = [t \in Tabs |-> NotWriting]

Notice(others, value) ==
  notices' = [t \in Tabs |-> IF t \in others THEN Append(notices[t], value) ELSE notices[t]]
NoticeRoom(others) == \A t \in others : Len(notices[t]) < MaxEvents

(* Faulty variant of NoticedPoint: a notice is replayed as it was sent.    *)
PointReplay(t) == Head(notices[t])

Visit(t) ==
  /\ t \notin visits
  /\ visits' = visits \cup {t}
  /\ UNCHANGED <<reference, refusing, snapshot, baseline, notices, writing>>

Leave(t) ==
  /\ t \in visits
  /\ visits' = visits \ {t}
  /\ snapshot' = [snapshot EXCEPT ![t] = None]
  /\ baseline' = [baseline EXCEPT ![t] = None]
  /\ notices' = [notices EXCEPT ![t] = <<>>]
  /\ writing' = [writing EXCEPT ![t] = NotWriting]
  /\ UNCHANGED <<reference, refusing>>

RefusalChanges ==
  /\ refusing' = ~refusing
  /\ UNCHANGED <<reference, visits, snapshot, baseline, notices, writing>>

(* The entry is removed, or another version of the page overwrites it.     *)
ForgetPoint ==
  /\ reference # None /\ NoticeRoom(visits)
  /\ reference' = None
  /\ Notice(visits, None)
  /\ UNCHANGED <<refusing, visits, snapshot, baseline, writing>>

MakeBaseline(p) == Point(p.at, p.content)

(* A publication arrives; only without a point does it become one.         *)
SetsPoint == reference = None

Load(t, p) ==
  /\ t \in visits /\ writing[t] = NotWriting
  /\ snapshot' = [snapshot EXCEPT ![t] = p]
  /\ baseline' = [baseline EXCEPT ![t] = reference]
  /\ writing' = [writing EXCEPT ![t] =
       IF SetsPoint THEN Writing("compare", "load", MakeBaseline(p), Len(notices[t]), 0) ELSE NotWriting]
  /\ UNCHANGED <<reference, refusing, visits, notices>>

(* markBaseline: refused at once if the publication is out of order.       *)
Mark(t) ==
  /\ t \in visits /\ writing[t] = NotWriting /\ snapshot[t] # None
  /\ baseline[t].at <= snapshot[t].at
  /\ writing' = [writing EXCEPT ![t] = Writing("compare", "mark", MakeBaseline(snapshot[t]), Len(notices[t]), 0)]
  /\ UNCHANGED <<reference, refusing, visits, snapshot, baseline, notices>>

(* The end of a task; a point the user has set is the one to compare with. *)
EndWriting(t, saved) ==
  /\ writing' = [writing EXCEPT ![t] = NotWriting]
  /\ baseline' =
       [baseline EXCEPT ![t] = IF saved /\ writing[t].why = "mark" THEN writing[t].point ELSE @]

(* writeBaseline **********************************************************)
Refuses(p) == reference # None /\ p.at <= reference.at

ComparePoint(t) ==
  /\ writing[t].step = "compare"
  /\ IF Refuses(writing[t].point) THEN EndWriting(t, writing[t].point = reference)
     ELSE /\ writing' = [writing EXCEPT ![t] =
               Writing("set", writing[t].why, writing[t].point, writing[t].began, Len(notices[t]))]
          /\ UNCHANGED baseline
  /\ UNCHANGED <<reference, refusing, visits, snapshot, notices>>

SetPoint(t) ==
  /\ writing[t].step = "set"
  /\ \/ refusing /\ EndWriting(t, FALSE) /\ UNCHANGED <<reference, notices>>
     \/ /\ ~refusing /\ NoticeRoom(visits \ {t})
        /\ EndWriting(t, TRUE)
        /\ reference' = writing[t].point
        /\ Notice(visits \ {t}, writing[t].point)
  /\ UNCHANGED <<refusing, visits, snapshot>>

(* The listener of storage events.                                         *)
NoticedPoint(t) == reference

SyncPoint(t) ==
  /\ writing[t] = NotWriting /\ notices[t] # <<>>
  /\ baseline' = [baseline EXCEPT ![t] = NoticedPoint(t)]
  /\ notices' = [notices EXCEPT ![t] = Tail(@)]
  /\ UNCHANGED <<reference, refusing, visits, snapshot, writing>>

PointNext ==
  \/ RefusalChanges \/ ForgetPoint
  \/ \E t \in Tabs : Visit(t) \/ Leave(t) \/ Mark(t) \/ ComparePoint(t) \/ SetPoint(t) \/ SyncPoint(t)
  \/ \E t \in Tabs, p \in Published : Load(t, p)

PointSpec == PointInit /\ [][PointNext]_pointVars

(* properties *************************************************************)
Points == Published \cup {None}
WritingType ==
  [step : {"idle", "compare", "set"}, why : {"load", "mark"}, point : Points,
   began : Nat, compared : Nat]

(* Every variable keeps its type: a point is a publication, with its date. *)
PointTypeOK ==
  /\ reference \in Points /\ refusing \in BOOLEAN /\ visits \subseteq Tabs
  /\ snapshot \in [Tabs -> Points] /\ baseline \in [Tabs -> Points]
  /\ notices \in [Tabs -> Seq(Points)]
  /\ writing \in [Tabs -> WritingType]

(* A tab with nothing left to do compares with what is stored; or it made  *)
(* its first visit, and then what is stored is what it shows               *)
(* (web/README.md:25-27): no order of writes, refused writes and events    *)
(* leaves a tab with changes counted against a point nobody keeps.         *)
ComparesWithStored ==
  \A t \in visits : snapshot[t] # None /\ writing[t] = NotWriting /\ notices[t] = <<>> =>
    baseline[t] = reference \/ (baseline[t] = None /\ reference = snapshot[t])

Writes(t) == writing[t].step = "set" /\ writing'[t] = NotWriting /\ reference' # reference

(* "Older or conflicting equal-time baselines cannot deliberately replace a*)
(* newer saved reference" (web/README.md:25): unless another tab wrote     *)
(* between the comparison and the write, the point only advances.          *)
PointAdvances ==
  [][\A t \in Tabs : Writes(t) /\ Len(notices[t]) = writing[t].compared => reference'.at > reference.at]_pointVars

(* "A newer file alone does not silently discard the saved comparison      *)
(* point" (web/README.md:25), unless tabs that both saw none overlap.      *)
FileAloneKeepsPoint ==
  [][\A t \in Tabs :
       Writes(t) /\ writing[t].why = "load" /\ Len(notices[t]) = writing[t].began => reference = None]_pointVars
=============================================================================
