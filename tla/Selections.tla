----------------------------- MODULE Selections -----------------------------
(***************************************************************************)
(* The two selections the public page keeps in localStorage: pinned        *)
(* records (PublicMonitor.tsx, public-session.ts) and favourite areas      *)
(* (areas.ts).  Tabs are processes; each runs one task at a time, but a    *)
(* task reads and writes the storage in separate calls, between which      *)
(* other tabs may do the same, and a storage event waits for its turn.     *)
(* Both keep lists; their order is never used but to compare them.         *)
(***************************************************************************)
EXTENDS Pages, Sequences, FiniteSets

CONSTANTS
  Ids,
  MaxIds,       \* 30 pinned records, MAX_FAVORITE_COUNTRIES
  MaxToggles    \* bound of the model

ASSUME IdsAssumption == IsFiniteSet(Ids)
ASSUME SelectionBounds == MaxIds \in Nat /\ MaxToggles \in Nat

Entry(ids) == [there |-> TRUE, ids |-> ids]
Nothing == [there |-> FALSE, ids |-> {}]    \* no entry, or one that is not valid

(* A task: its next step, the item it toggles, the selection it will write,*)
(* and the events that had arrived when it began.                          *)
Task(step, item, next, since) == [step |-> step, item |-> item, next |-> next, since |-> since]
Idle == Task("idle", {}, {}, 0)

VARIABLES
  guarded,      \* favourites, which keep favoriteStorageBlocked; else pins; never changes
  stored,       \* the entry in localStorage
  full,         \* setItem throws: no room, or no permission
  open,         \* tabs that show the page
  shown,        \* pinnedIds, favoriteCountries
  refused,      \* the last write of the tab was refused: favoriteStorageBlocked
  events,       \* storage events the tab has not handled: their newValue
  task,         \* what the tab is doing
  toggles       \* toggles so far

selectionVars == <<guarded, stored, full, open, shown, refused, events, task, toggles>>

SelectionInit ==
  /\ guarded \in BOOLEAN
  /\ stored = Nothing /\ full \in BOOLEAN /\ open = {}
  /\ shown = [t \in Tabs |-> {}]
  /\ refused = [t \in Tabs |-> FALSE]
  /\ events = [t \in Tabs |-> <<>>]
  /\ task = [t \in Tabs |-> Idle]
  /\ toggles = 0

(* readWatchState, readFavoriteCountries                                   *)
Read(entry) == entry.ids

(* A storage event goes to every other tab.                                *)
Notify(others, value) ==
  events' = [t \in Tabs |-> IF t \in others THEN Append(events[t], value) ELSE events[t]]
Room(others) == \A t \in others : Len(events[t]) < MaxEvents

(* Faulty variants of definitions below: a toggle relies on what its tab   *)
(* shows; an event is replayed as it was sent.                             *)
CurrentShown(t) == shown[t]
SyncedReplay(t) == Read(Head(events[t]))

Open(t) ==
  /\ t \notin open
  /\ open' = open \cup {t}
  /\ shown' = [shown EXCEPT ![t] = Read(stored)]
  /\ UNCHANGED <<guarded, stored, full, refused, events, task, toggles>>

(* A tab may be closed at any time, in the middle of a task too.           *)
Close(t) ==
  /\ t \in open
  /\ open' = open \ {t}
  /\ shown' = [shown EXCEPT ![t] = {}]
  /\ refused' = [refused EXCEPT ![t] = FALSE]
  /\ events' = [events EXCEPT ![t] = <<>>]
  /\ task' = [task EXCEPT ![t] = Idle]
  /\ UNCHANGED <<guarded, stored, full, toggles>>

(* The quota, which other pages of the origin share, runs out or is freed. *)
Quota ==
  /\ full' = ~full
  /\ UNCHANGED <<guarded, stored, open, shown, refused, events, task, toggles>>

(* Another page of the origin, or the user, removes the entry.             *)
Clear ==
  /\ stored.there /\ Room(open)
  /\ stored' = Nothing
  /\ Notify(open, Nothing)
  /\ UNCHANGED <<guarded, full, open, shown, refused, task, toggles>>

(* togglePin, toggleFavorite **********************************************)
(* The selection a toggle starts from.                                     *)
Current(t) ==
  IF guarded THEN IF refused[t] THEN shown[t] ELSE Read(stored)
  ELSE IF stored.there THEN stored.ids ELSE shown[t]

Toggled(ids, id) == IF id \in ids THEN ids \ {id} ELSE ids \cup {id}

TooMany(current, next) == Cardinality(next) > MaxIds

Toggle(t, id) ==
  LET current == Current(t)
      next == Toggled(current, id)
  IN
  /\ t \in open /\ task[t] = Idle
  /\ toggles < MaxToggles
  /\ toggles' = toggles + 1
  /\ IF TooMany(current, next)
     THEN /\ shown' = IF guarded THEN [shown EXCEPT ![t] = current] ELSE shown
          /\ UNCHANGED task
     ELSE /\ task' = [task EXCEPT ![t] = Task("compare", {id}, next, Len(events[t]))]
          /\ UNCHANGED shown
  /\ UNCHANGED <<guarded, stored, full, open, refused, events>>

(* The end of a toggle, with the outcome of the write.                     *)
Finish(t, saved) ==
  /\ shown' = [shown EXCEPT ![t] = task[t].next]
  /\ refused' = [refused EXCEPT ![t] = IF guarded THEN ~saved ELSE @ \/ ~saved]
  /\ task' = [task EXCEPT ![t] = Idle]

(* writeWatchState, writeFavoriteCountries: an equal entry is not written. *)
Compare(t) ==
  /\ task[t].step = "compare"
  /\ IF stored = Entry(task[t].next) THEN Finish(t, TRUE)
     ELSE /\ task' = [task EXCEPT ![t] = Task("set", task[t].item, task[t].next, task[t].since)]
          /\ UNCHANGED <<shown, refused>>
  /\ UNCHANGED <<guarded, stored, full, open, events, toggles>>

Set(t) ==
  /\ task[t].step = "set"
  /\ \/ full /\ Finish(t, FALSE) /\ UNCHANGED <<stored, events>>
     \/ /\ ~full /\ Room(open \ {t})
        /\ Finish(t, TRUE)
        /\ stored' = Entry(task[t].next)
        /\ Notify(open \ {t}, Entry(task[t].next))
  /\ UNCHANGED <<guarded, full, open, toggles>>

(* The listener of storage events.                                         *)
Synced(t) == Read(stored)

Sync(t) ==
  /\ task[t] = Idle /\ events[t] # <<>>
  /\ shown' = [shown EXCEPT ![t] = Synced(t)]
  /\ refused' = [refused EXCEPT ![t] = IF guarded THEN FALSE ELSE @]
  /\ events' = [events EXCEPT ![t] = Tail(@)]
  /\ UNCHANGED <<guarded, stored, full, open, task, toggles>>

SelectionNext ==
  \/ Quota \/ Clear
  \/ \E t \in Tabs : Open(t) \/ Close(t) \/ Compare(t) \/ Set(t) \/ Sync(t)
  \/ \E t \in Tabs, id \in Ids : Toggle(t, id)

SelectionSpec == SelectionInit /\ [][SelectionNext]_selectionVars

(* A task runs to its end, and the browser delivers storage events.        *)
Fairness == \A t \in Tabs : WF_selectionVars(Compare(t)) /\ WF_selectionVars(Set(t)) /\ WF_selectionVars(Sync(t))

(* properties *************************************************************)
Selection == {ids \in SUBSET Ids : Cardinality(ids) <= MaxIds}
TaskType ==
  [step : {"idle", "compare", "set"}, item : SUBSET Ids, next : Selection, since : Nat]
EntryType == [there : BOOLEAN, ids : Selection]

(* Every variable keeps its type, and a selection its limit.               *)
SelectionTypeOK ==
  /\ stored \in EntryType
  /\ {guarded, full} \subseteq BOOLEAN /\ open \subseteq Tabs
  /\ shown \in [Tabs -> Selection]
  /\ refused \in [Tabs -> BOOLEAN]
  /\ events \in [Tabs -> Seq(EntryType)]
  /\ task \in [Tabs -> TaskType] /\ toggles \in Nat

(* "Cross-tab storage notifications re-read current storage rather than    *)
(* replaying a stale event value" (web/README.md:27): a tab with nothing   *)
(* left to do shows what is stored, whatever order the tabs wrote in,      *)
(* unless a write of its own was refused.                                  *)
TabsAgree ==
  \A t \in open : task[t] = Idle /\ events[t] = <<>> /\ ~refused[t] => shown[t] = Read(stored)

Difference(a, b) == (a \ b) \cup (b \ a)

(* "Odczyt storage przed pojedyncza zmiana ogranicza nadpisywanie stanu    *)
(* innej karty" (CHANGELOG.md:28): a toggle during which no other tab wrote*)
(* changes the stored selection in that one item, however long the events  *)
(* of earlier writes take to arrive.                                       *)
NoOverwriting ==
  [][\A t \in Tabs :
       (/\ task[t].step = "set" /\ stored' # stored /\ stored.there /\ ~refused[t]
        /\ task'[t] = Idle /\ Len(events[t]) = task[t].since)
       => Difference(stored'.ids, stored.ids) = task[t].item]_selectionVars

(* "Wybor dziala w tej karcie" (PublicMonitor.tsx:125, :115): a toggle     *)
(* changes what its tab shows in that one item, saved or not, unless       *)
(* another tab has written since.                                          *)
OneItem(t) ==
  (task[t] # Idle /\ task'[t] = Idle /\ events[t] = <<>>)
  => Difference(shown'[t], shown[t]) \subseteq task[t].item

OneAtATime == [][\A t \in open \cap open' : OneItem(t)]_selectionVars

(* For favourites, which remember that a write was refused, it holds.      *)
FavoritesOneAtATime == [][guarded => \A t \in open \cap open' : OneItem(t)]_selectionVars

(* Once nobody toggles any more, the tabs come to agree with the storage   *)
(* and stay so ("inne karty odczytuja zmieniony stan", PUBLIC_PAGES.md:27).*)
TabsSettle == <>[](\A t \in open : refused[t] \/ shown[t] = Read(stored))
=============================================================================
