----------------------------- MODULE TabsProofs ------------------------------
(* Proofs about what tabs keep in localStorage: the theorems of Selections *)
(* and, below them, those of ComparisonPoint.                              *)
EXTENDS Selections, ComparisonPoint, SequenceTheorems, FiniteSetTheorems, TLAPS

(***************************************************************************)
(* Proofs about Selections, for any number of tabs, items and toggles, and *)
(* any limit.  The argument: a tab that waits for no event shows what is   *)
(* stored, unless its last write was refused; and while a toggle is under  *)
(* way its selection differs in one item from what is stored, as long as   *)
(* no event has arrived that tells otherwise.                              *)
(***************************************************************************)

(* The selection under way: of a tab that is open, begun after the events  *)
(* it counts, one item away from the storage and, for favourites, from what*)
(* the tab shows.                                                          *)
Settled(t) == Len(events[t]) = task[t].since
OfStored(t) ==
  Settled(t) /\ ~refused[t] /\ stored.there => Difference(task[t].next, stored.ids) = task[t].item
OfShown(t) ==
  guarded /\ events[t] = <<>> => Difference(task[t].next, shown[t]) = task[t].item
TaskSound(t) ==
  /\ task[t].since <= Len(events[t])
  /\ task[t] # Idle => t \in open /\ OfStored(t) /\ OfShown(t)

SelectionInv == SelectionTypeOK /\ TabsAgree /\ \A t \in Tabs : TaskSound(t)

(* A toggled selection differs in the item that was toggled.               *)
LEMMA ToggledDiffers ==
  ASSUME NEW ids, NEW id PROVE Difference(Toggled(ids, id), ids) = {id}
BY DEF Difference, Toggled

LEMMA EmptyFits == {} \in Selection /\ Idle \in TaskType /\ Nothing \in EntryType
BY FS_EmptySet, SelectionBounds DEF Selection, Idle, Task, TaskType, Nothing, EntryType

(* An event that is delivered makes a queue longer, and not empty.         *)
LEMMA Notified ==
  ASSUME events \in [Tabs -> Seq(EntryType)], NEW others \in SUBSET Tabs,
         NEW value \in EntryType, Notify(others, value)
  PROVE  /\ events' \in [Tabs -> Seq(EntryType)]
         /\ \A t \in Tabs : t \notin others => events'[t] = events[t]
         /\ \A t \in others : Len(events'[t]) = Len(events[t]) + 1 /\ events'[t] # <<>>
<1>1. events' = [t \in Tabs |-> IF t \in others THEN Append(events[t], value) ELSE events[t]]
  BY DEF Notify
<1>2. \A t \in Tabs : /\ Append(events[t], value) \in Seq(EntryType)
                      /\ Len(Append(events[t], value)) = Len(events[t]) + 1
                      /\ Append(events[t], value) # <<>>
  BY AppendProperties
<1>3. QED BY <1>1, <1>2

LEMMA InitInv == SelectionInit => SelectionInv
<1> SUFFICES ASSUME SelectionInit PROVE SelectionInv OBVIOUS
<1>1. SelectionTypeOK
  <2>1. <<>> \in Seq(EntryType) OBVIOUS
  <2>2. QED BY <2>1, EmptyFits DEF SelectionInit, SelectionTypeOK
<1>2. Idle.since = 0 /\ Len(<<>>) = 0
  BY EmptySeq DEF Idle, Task
<1>3. \A t \in Tabs : TaskSound(t)
  <2>1. \A t \in Tabs : task[t] = Idle /\ events[t] = <<>>
    BY DEF SelectionInit
  <2>2. \A t \in Tabs : task[t].since = 0 /\ Len(events[t]) = 0
    BY <1>2, <2>1
  <2>3. QED BY <2>1, <2>2, 0 <= 0 DEF TaskSound
<1>4. QED BY <1>1, <1>3 DEF SelectionInv, TabsAgree, SelectionInit

(* What an action of one tab leaves alone keeps its part of the invariant. *)
LEMMA Frame ==
  ASSUME NEW t \in Tabs, TaskSound(t), task'[t] = task[t], events'[t] = events[t],
         shown'[t] = shown[t], refused'[t] = refused[t], guarded' = guarded,
         t \in open => t \in open', stored' = stored
  PROVE  TaskSound(t)'
BY DEF TaskSound, OfStored, OfShown, Settled

(* So does an event, which makes everything it says of the storage moot.   *)
LEMMA FrameNotified ==
  ASSUME NEW t \in Tabs, SelectionTypeOK, TaskSound(t), task'[t] = task[t], events'[t] # <<>>,
         Len(events'[t]) = Len(events[t]) + 1, t \in open => t \in open'
  PROVE  TaskSound(t)'
<1>1. task[t].since \in Nat /\ Len(events[t]) \in Nat
  BY LenProperties DEF SelectionTypeOK, TaskType
<1>2. ~Settled(t)' BY <1>1 DEF TaskSound, Settled
<1>3. QED BY <1>1, <1>2 DEF TaskSound, OfStored, OfShown

LEMMA OpenInv ==
  ASSUME SelectionInv, NEW t \in Tabs, Open(t) PROVE SelectionInv'
<1>1. SelectionTypeOK /\ stored.ids \in Selection BY DEF SelectionInv, SelectionTypeOK, EntryType
<1>2. SelectionTypeOK' BY <1>1 DEF SelectionTypeOK, Open, Read
<1>3. TabsAgree'
  BY <1>1 DEF SelectionInv, SelectionTypeOK, TabsAgree, Open, Read
<1>4. task[t] = Idle BY DEF SelectionInv, TaskSound, Open
<1>5. ASSUME NEW u \in Tabs PROVE TaskSound(u)'
  <2>1. CASE u = t
    BY <1>4, <2>1 DEF SelectionInv, TaskSound, Open
  <2>2. CASE u # t
    BY <1>1, <2>2, Frame DEF SelectionInv, Open, SelectionTypeOK
  <2>3. QED BY <2>1, <2>2
<1>6. QED BY <1>2, <1>3, <1>5 DEF SelectionInv

LEMMA CloseInv ==
  ASSUME SelectionInv, NEW t \in Tabs, Close(t) PROVE SelectionInv'
<1>1. SelectionTypeOK BY DEF SelectionInv
<1>2. SelectionTypeOK'
  <2>1. <<>> \in Seq(EntryType) OBVIOUS
  <2>2. QED BY <1>1, <2>1, EmptyFits DEF SelectionTypeOK, Close
<1>3. TabsAgree' BY <1>1 DEF SelectionInv, SelectionTypeOK, TabsAgree, Close
<1>4. ASSUME NEW u \in Tabs PROVE TaskSound(u)'
  <2>1. CASE u = t
    BY <1>1, <2>1, EmptySeq DEF TaskSound, Close, SelectionTypeOK, Idle, Task
  <2>2. CASE u # t
    BY <1>1, <2>2, Frame DEF SelectionInv, Close, SelectionTypeOK
  <2>3. QED BY <2>1, <2>2
<1>5. QED BY <1>2, <1>3, <1>4 DEF SelectionInv

LEMMA QuotaInv == ASSUME SelectionInv, Quota PROVE SelectionInv'
<1>1. SelectionTypeOK' BY DEF SelectionInv, SelectionTypeOK, Quota
<1>2. TabsAgree' BY DEF SelectionInv, TabsAgree, Quota
<1>3. ASSUME NEW u \in Tabs PROVE TaskSound(u)'
  BY Frame DEF SelectionInv, Quota
<1>4. QED BY <1>1, <1>2, <1>3 DEF SelectionInv

LEMMA ClearInv == ASSUME SelectionInv, Clear PROVE SelectionInv'
<1>1. SelectionTypeOK /\ open \in SUBSET Tabs BY DEF SelectionInv, SelectionTypeOK
<1>2. /\ events' \in [Tabs -> Seq(EntryType)]
      /\ \A u \in Tabs : u \notin open => events'[u] = events[u]
      /\ \A u \in open : Len(events'[u]) = Len(events[u]) + 1 /\ events'[u] # <<>>
  BY <1>1, EmptyFits, Notified DEF Clear, SelectionTypeOK
<1>3. SelectionTypeOK' BY <1>1, <1>2, EmptyFits DEF SelectionTypeOK, Clear
<1>4. TabsAgree' BY <1>2 DEF TabsAgree, Clear
<1>5. ASSUME NEW u \in Tabs PROVE TaskSound(u)'
  <2>1. CASE u \in open
    BY <1>1, <1>2, <2>1, FrameNotified DEF SelectionInv, Clear
  <2>2. CASE u \notin open
    BY <1>2, <2>2 DEF SelectionInv, TaskSound, Clear
  <2>3. QED BY <2>1, <2>2
<1>6. QED BY <1>3, <1>4, <1>5 DEF SelectionInv

(* The selection a toggle starts from is what is stored, or, for favourites*)
(* and where no event waits, what the tab shows.                           *)
LEMMA CurrentFits ==
  ASSUME SelectionInv, NEW t \in Tabs, t \in open, task[t] = Idle
  PROVE  /\ Current(t) \in Selection
         /\ ~refused[t] /\ stored.there => Current(t) = stored.ids
         /\ guarded /\ events[t] = <<>> => Current(t) = shown[t]
<1>1. stored.ids \in Selection /\ shown[t] \in Selection
  BY DEF SelectionInv, SelectionTypeOK, EntryType
<1>2. Current(t) \in Selection BY <1>1 DEF Current, Read
<1>3. ~refused[t] /\ stored.there => Current(t) = stored.ids BY DEF Current, Read
<1>4. guarded /\ events[t] = <<>> => Current(t) = shown[t]
  BY DEF SelectionInv, TabsAgree, Current
<1>5. QED BY <1>2, <1>3, <1>4

LEMMA ToggleInv ==
  ASSUME SelectionInv, NEW t \in Tabs, NEW id \in Ids, Toggle(t, id) PROVE SelectionInv'
<1> DEFINE current == Current(t)
           next == Toggled(current, id)
<1>1. /\ t \in open /\ task[t] = Idle /\ toggles' = toggles + 1
      /\ IF TooMany(current, next)
         THEN shown' = (IF guarded THEN [shown EXCEPT ![t] = current] ELSE shown) /\ task' = task
         ELSE /\ task' = [task EXCEPT ![t] = Task("compare", {id}, next, Len(events[t]))]
              /\ shown' = shown
      /\ UNCHANGED <<guarded, stored, full, open, refused, events>>
  BY DEF Toggle
<1>2. SelectionTypeOK BY DEF SelectionInv
<1>3. /\ current \in Selection
      /\ ~refused[t] /\ stored.there => current = stored.ids
      /\ guarded /\ events[t] = <<>> => current = shown[t]
  BY <1>1, CurrentFits
<1>4. Difference(next, current) = {id} BY ToggledDiffers
<1> HIDE DEF current, next
<1>5. CASE TooMany(current, next)
  <2>1. SelectionTypeOK'
    <3>1. shown' \in [Tabs -> Selection] /\ task' = task
      BY <1>1, <1>2, <1>3, <1>5 DEF SelectionTypeOK
    <3>2. toggles' \in Nat BY <1>1, <1>2 DEF SelectionTypeOK
    <3>3. QED BY <1>1, <1>2, <3>1, <3>2 DEF SelectionTypeOK
  <2>2. TabsAgree'
    <3>1. ASSUME NEW u \in open, task[u] = Idle, events[u] = <<>>, ~refused[u]
          PROVE  shown'[u] = stored.ids
      <4>1. u \in Tabs /\ shown[u] = stored.ids BY <3>1, <1>2 DEF SelectionInv, TabsAgree, Read, SelectionTypeOK
      <4>2. guarded /\ u = t => current = stored.ids BY <1>3, <3>1, <4>1
      <4>3. QED BY <1>1, <1>2, <1>5, <4>1, <4>2 DEF SelectionTypeOK
    <3>2. QED BY <1>1, <1>5, <3>1 DEF TabsAgree, Read
  <2>3. ASSUME NEW u \in Tabs PROVE TaskSound(u)'
    <3>1. CASE u = t BY <1>1, <1>5, <3>1 DEF SelectionInv, TaskSound
    <3>2. CASE u # t
      <4>1. shown'[u] = shown[u] BY <1>1, <1>2, <1>5, <3>2 DEF SelectionTypeOK
      <4>2. QED BY <1>1, <1>5, <4>1, Frame DEF SelectionInv
    <3>3. QED BY <3>1, <3>2
  <2>4. QED BY <2>1, <2>2, <2>3 DEF SelectionInv
<1>6. CASE ~TooMany(current, next)
  <2>1. next \in Selection
    <3>1. next \in SUBSET Ids BY <1>3 DEF next, Selection, Toggled
    <3>2. Cardinality(next) \in Nat BY <3>1, IdsAssumption, FS_Subset, FS_CardinalityType
    <3>3. QED BY <1>6, <3>1, <3>2, SelectionBounds DEF Selection, TooMany
  <2>2. Len(events[t]) \in Nat BY <1>2, LenProperties DEF SelectionTypeOK
  <2>3. Task("compare", {id}, next, Len(events[t])) \in TaskType
    BY <2>1, <2>2 DEF Task, TaskType
  <2>4. SelectionTypeOK'
    <3>1. task' \in [Tabs -> TaskType] BY <1>1, <1>2, <1>6, <2>3 DEF SelectionTypeOK
    <3>2. QED BY <1>1, <1>2, <1>6, <3>1 DEF SelectionTypeOK
  <2>5. Task("compare", {id}, next, Len(events[t])) # Idle BY DEF Task, Idle
  <2>6. TabsAgree' BY <1>1, <1>2, <1>6, <2>5 DEF SelectionInv, TabsAgree, SelectionTypeOK, Read
  <2>7. ASSUME NEW u \in Tabs PROVE TaskSound(u)'
    <3>1. CASE u = t
      <4>1. task'[t] = Task("compare", {id}, next, Len(events[t])) BY <1>1, <1>2, <1>6 DEF SelectionTypeOK
      <4>2. task'[t].next = next /\ task'[t].item = {id} /\ task'[t].since = Len(events[t])
        BY <4>1 DEF Task
      <4>3. OfStored(t)' BY <1>1, <1>3, <1>4, <4>2 DEF OfStored
      <4>4. OfShown(t)' BY <1>1, <1>3, <1>4, <1>6, <4>2 DEF OfShown
      <4>5. QED BY <1>1, <2>2, <3>1, <4>2, <4>3, <4>4 DEF TaskSound
    <3>2. CASE u # t
      <4>1. task'[u] = task[u] BY <1>1, <1>2, <1>6, <3>2 DEF SelectionTypeOK
      <4>2. QED BY <1>1, <1>6, <4>1, Frame DEF SelectionInv
    <3>3. QED BY <3>1, <3>2
  <2>8. QED BY <2>4, <2>6, <2>7 DEF SelectionInv
<1>7. QED BY <1>5, <1>6

(* What the end of a toggle leaves in its tab.                             *)
Ended(t, saved) ==
  /\ shown' \in [Tabs -> Selection] /\ shown'[t] = task[t].next
  /\ refused' \in [Tabs -> BOOLEAN] /\ (saved \/ refused'[t])
  /\ task' \in [Tabs -> TaskType] /\ task'[t] = Idle
  /\ \A u \in Tabs \ {t} :
       shown'[u] = shown[u] /\ refused'[u] = refused[u] /\ task'[u] = task[u]

LEMMA Finished ==
  ASSUME SelectionTypeOK, NEW t \in Tabs, NEW saved \in BOOLEAN, Finish(t, saved)
  PROVE  Ended(t, saved)
<1>1. task[t].next \in Selection BY DEF SelectionTypeOK, TaskType
<1>2. shown' \in [Tabs -> Selection] /\ shown'[t] = task[t].next BY <1>1 DEF SelectionTypeOK, Finish
<1>3. task' \in [Tabs -> TaskType] /\ task'[t] = Idle BY EmptyFits DEF SelectionTypeOK, Finish
<1>4. DEFINE value == IF guarded THEN ~saved ELSE refused[t] \/ ~saved
<1>5. refused' = [refused EXCEPT ![t] = value] BY DEF Finish
<1>6. value \in BOOLEAN /\ (saved \/ value) OBVIOUS
<1> HIDE DEF value
<1>7. refused' \in [Tabs -> BOOLEAN] /\ (saved \/ refused'[t]) BY <1>5, <1>6 DEF SelectionTypeOK
<1>8. \A u \in Tabs \ {t} :
        shown'[u] = shown[u] /\ refused'[u] = refused[u] /\ task'[u] = task[u]
  BY DEF SelectionTypeOK, Finish
<1>9. QED BY <1>2, <1>3, <1>7, <1>8 DEF Ended

LEMMA CompareInv ==
  ASSUME SelectionInv, NEW t \in Tabs, Compare(t) PROVE SelectionInv'
<1>1. /\ task[t].step = "compare" /\ UNCHANGED <<guarded, stored, full, open, events, toggles>>
      /\ IF stored = Entry(task[t].next) THEN Finish(t, TRUE)
         ELSE /\ task' = [task EXCEPT ![t] = Task("set", task[t].item, task[t].next, task[t].since)]
              /\ UNCHANGED <<shown, refused>>
  BY DEF Compare
<1>2. SelectionTypeOK /\ task[t] # Idle BY <1>1 DEF SelectionInv, Idle, Task
<1>3. CASE stored = Entry(task[t].next)
  <2>1. Finish(t, TRUE) BY <1>1, <1>3
  <2>2. /\ shown' \in [Tabs -> Selection] /\ shown'[t] = task[t].next
        /\ refused' \in [Tabs -> BOOLEAN]
        /\ task' \in [Tabs -> TaskType] /\ task'[t] = Idle
        /\ \A u \in Tabs \ {t} :
             shown'[u] = shown[u] /\ refused'[u] = refused[u] /\ task'[u] = task[u]
    <3>1. Ended(t, TRUE) BY <1>2, <2>1, Finished
    <3>2. QED BY <3>1 DEF Ended
  <2>3. SelectionTypeOK' BY <1>1, <1>2, <2>2 DEF SelectionTypeOK
  <2>4. TabsAgree'
    BY <1>1, <1>2, <1>3, <2>2 DEF SelectionInv, TabsAgree, Read, Entry, SelectionTypeOK
  <2>5. ASSUME NEW u \in Tabs PROVE TaskSound(u)'
    <3>1. CASE u = t
      <4>1. task'[t].since = 0 /\ Len(events'[t]) \in Nat
        BY <1>1, <1>2, <2>2, LenProperties DEF Idle, Task, SelectionTypeOK
      <4>2. QED BY <2>2, <3>1, <4>1 DEF TaskSound
    <3>2. CASE u # t
      <4>1. /\ shown'[u] = shown[u] /\ refused'[u] = refused[u] /\ task'[u] = task[u]
            /\ TaskSound(u)
        BY <2>2, <3>2 DEF SelectionInv
      <4>2. QED BY <1>1, <4>1, Frame
    <3>3. QED BY <3>1, <3>2
  <2>6. QED BY <2>3, <2>4, <2>5 DEF SelectionInv
<1>4. CASE stored # Entry(task[t].next)
  <2> DEFINE new == Task("set", task[t].item, task[t].next, task[t].since)
  <2>1. /\ new \in TaskType /\ new # Idle
        /\ new.next = task[t].next /\ new.item = task[t].item /\ new.since = task[t].since
    BY <1>2 DEF SelectionTypeOK, TaskType, Task, Idle
  <2> HIDE DEF new
  <2>2. task' = [task EXCEPT ![t] = new] /\ UNCHANGED <<shown, refused>>
    BY <1>1, <1>4 DEF new
  <2>3. SelectionTypeOK'
    <3>1. task' \in [Tabs -> TaskType] BY <1>2, <2>1, <2>2 DEF SelectionTypeOK
    <3>2. QED BY <1>1, <1>2, <2>2, <3>1 DEF SelectionTypeOK
  <2>4. TabsAgree' BY <1>1, <1>2, <2>1, <2>2 DEF SelectionInv, TabsAgree, SelectionTypeOK, Read
  <2>5. ASSUME NEW u \in Tabs PROVE TaskSound(u)'
    <3>1. CASE u = t
      <4>1. task'[t] = new BY <1>2, <2>2 DEF SelectionTypeOK
      <4>2. TaskSound(t) BY DEF SelectionInv
      <4>3. QED BY <1>1, <1>2, <2>1, <2>2, <3>1, <4>1, <4>2 DEF TaskSound, OfStored, OfShown, Settled
    <3>2. CASE u # t
      <4>1. task'[u] = task[u] /\ TaskSound(u) BY <1>2, <2>2, <3>2 DEF SelectionTypeOK, SelectionInv
      <4>2. QED BY <1>1, <2>2, <4>1, Frame
    <3>3. QED BY <3>1, <3>2
  <2>6. QED BY <2>3, <2>4, <2>5 DEF SelectionInv
<1>5. QED BY <1>3, <1>4

LEMMA SetInv ==
  ASSUME SelectionInv, NEW t \in Tabs, Set(t) PROVE SelectionInv'
<1>1. task[t].step = "set" /\ UNCHANGED <<guarded, full, open, toggles>> BY DEF Set
<1>2. SelectionTypeOK /\ task[t] # Idle /\ open \in SUBSET Tabs
  BY <1>1 DEF SelectionInv, Idle, Task, SelectionTypeOK
<1>3. t \in open BY <1>2 DEF SelectionInv, TaskSound
<1>4. CASE Finish(t, FALSE) /\ UNCHANGED <<stored, events>>
  <2>1. /\ shown' \in [Tabs -> Selection] /\ refused' \in [Tabs -> BOOLEAN] /\ refused'[t]
        /\ task' \in [Tabs -> TaskType] /\ task'[t] = Idle
        /\ \A u \in Tabs \ {t} :
             shown'[u] = shown[u] /\ refused'[u] = refused[u] /\ task'[u] = task[u]
    <3>1. Ended(t, FALSE) BY <1>2, <1>4, Finished
    <3>2. QED BY <3>1 DEF Ended
  <2>2. SelectionTypeOK' BY <1>1, <1>2, <1>4, <2>1 DEF SelectionTypeOK
  <2>3. TabsAgree' BY <1>1, <1>2, <1>4, <2>1 DEF SelectionInv, TabsAgree, Read, SelectionTypeOK
  <2>4. ASSUME NEW u \in Tabs PROVE TaskSound(u)'
    <3>1. CASE u = t
      <4>1. task'[t].since = 0 /\ Len(events'[t]) \in Nat
        BY <1>2, <1>4, <2>1, LenProperties DEF Idle, Task, SelectionTypeOK
      <4>2. QED BY <2>1, <3>1, <4>1 DEF TaskSound
    <3>2. CASE u # t
      <4>1. /\ shown'[u] = shown[u] /\ refused'[u] = refused[u] /\ task'[u] = task[u]
            /\ TaskSound(u)
        BY <2>1, <3>2 DEF SelectionInv
      <4>2. QED BY <1>1, <1>4, <4>1, Frame
    <3>3. QED BY <3>1, <3>2
  <2>5. QED BY <2>2, <2>3, <2>4 DEF SelectionInv
<1>5. CASE /\ Finish(t, TRUE) /\ stored' = Entry(task[t].next)
           /\ Notify(open \ {t}, Entry(task[t].next))
  <2>1. /\ shown' \in [Tabs -> Selection] /\ shown'[t] = task[t].next
        /\ refused' \in [Tabs -> BOOLEAN]
        /\ task' \in [Tabs -> TaskType] /\ task'[t] = Idle
        /\ \A u \in Tabs \ {t} :
             shown'[u] = shown[u] /\ refused'[u] = refused[u] /\ task'[u] = task[u]
    <3>1. Ended(t, TRUE) BY <1>2, <1>5, Finished
    <3>2. QED BY <3>1 DEF Ended
  <2>2. Entry(task[t].next) \in EntryType /\ Entry(task[t].next).ids = task[t].next
    BY <1>2 DEF SelectionTypeOK, TaskType, Entry, EntryType
  <2>3. /\ events' \in [Tabs -> Seq(EntryType)]
        /\ \A u \in Tabs : u \notin open \ {t} => events'[u] = events[u]
        /\ \A u \in open \ {t} : Len(events'[u]) = Len(events[u]) + 1 /\ events'[u] # <<>>
    BY <1>2, <1>5, <2>2, Notified DEF SelectionTypeOK
  <2>4. SelectionTypeOK' BY <1>1, <1>2, <1>5, <2>1, <2>2, <2>3 DEF SelectionTypeOK
  <2>5. TabsAgree' BY <1>1, <1>5, <2>1, <2>2, <2>3 DEF TabsAgree, Read
  <2>6. ASSUME NEW u \in Tabs PROVE TaskSound(u)'
    <3>1. CASE u = t
      <4>1. task'[t].since = 0 /\ Len(events'[t]) \in Nat
        BY <2>1, <2>3, LenProperties DEF Idle, Task
      <4>2. QED BY <2>1, <3>1, <4>1 DEF TaskSound
    <3>2. CASE u # t /\ u \in open
      <4>1. /\ task'[u] = task[u] /\ TaskSound(u)
            /\ Len(events'[u]) = Len(events[u]) + 1 /\ events'[u] # <<>>
        BY <2>1, <2>3, <3>2 DEF SelectionInv
      <4>2. QED BY <1>1, <1>2, <4>1, FrameNotified
    <3>3. CASE u # t /\ u \notin open
      <4>1. task'[u] = task[u] /\ TaskSound(u) /\ events'[u] = events[u]
        BY <2>1, <2>3, <3>3 DEF SelectionInv
      <4>2. QED BY <3>3, <4>1 DEF TaskSound
    <3>4. QED BY <3>1, <3>2, <3>3
  <2>7. QED BY <2>4, <2>5, <2>6 DEF SelectionInv
<1>6. QED BY <1>4, <1>5 DEF Set

LEMMA SyncInv ==
  ASSUME SelectionInv, NEW t \in Tabs, Sync(t) PROVE SelectionInv'
<1>1. /\ task[t] = Idle /\ events[t] # <<>>
      /\ shown' = [shown EXCEPT ![t] = stored.ids]
      /\ refused' = [refused EXCEPT ![t] = IF guarded THEN FALSE ELSE @]
      /\ events' = [events EXCEPT ![t] = Tail(@)]
      /\ UNCHANGED <<guarded, stored, full, open, task, toggles>>
  BY DEF Sync, Synced, Read
<1>2. SelectionTypeOK BY DEF SelectionInv
<1>3. events[t] \in Seq(EntryType) /\ Tail(events[t]) \in Seq(EntryType) /\ Len(Tail(events[t])) \in Nat
  <2>1. events[t] \in Seq(EntryType) BY <1>2 DEF SelectionTypeOK
  <2>2. Tail(events[t]) \in Seq(EntryType) BY <1>1, <2>1, HeadTailProperties
  <2>3. QED BY <2>1, <2>2, LenProperties
<1>4. SelectionTypeOK'
  <2>1. stored.ids \in Selection BY <1>2 DEF SelectionTypeOK, EntryType
  <2>2. shown' \in [Tabs -> Selection] /\ events' \in [Tabs -> Seq(EntryType)]
    BY <1>1, <1>2, <1>3, <2>1 DEF SelectionTypeOK
  <2>3. refused' \in [Tabs -> BOOLEAN] BY <1>1, <1>2 DEF SelectionTypeOK
  <2>4. QED BY <1>1, <1>2, <2>2, <2>3 DEF SelectionTypeOK
<1>5. TabsAgree' BY <1>1, <1>2 DEF SelectionInv, TabsAgree, SelectionTypeOK, Read
<1>6. ASSUME NEW u \in Tabs PROVE TaskSound(u)'
  <2>1. CASE u = t
    <3>1. task'[t].since = 0 /\ events'[t] = Tail(events[t])
      BY <1>1, <1>2 DEF Idle, Task, SelectionTypeOK
    <3>2. QED BY <1>1, <1>3, <2>1, <3>1 DEF TaskSound
  <2>2. CASE u # t
    <3>1. shown'[u] = shown[u] /\ refused'[u] = refused[u] /\ events'[u] = events[u] /\ TaskSound(u)
      BY <1>1, <1>2, <2>2 DEF SelectionTypeOK, SelectionInv
    <3>2. QED BY <1>1, <3>1, Frame
  <2>3. QED BY <2>1, <2>2
<1>7. QED BY <1>4, <1>5, <1>6 DEF SelectionInv

LEMMA NextInv == SelectionInv /\ [SelectionNext]_selectionVars => SelectionInv'
<1> SUFFICES ASSUME SelectionInv, [SelectionNext]_selectionVars PROVE SelectionInv' OBVIOUS
<1>1. CASE SelectionNext
  BY <1>1, QuotaInv, ClearInv, OpenInv, CloseInv, CompareInv, SetInv, SyncInv, ToggleInv DEF SelectionNext
<1>2. CASE UNCHANGED selectionVars
  BY <1>2 DEF selectionVars, SelectionInv, SelectionTypeOK, TabsAgree, TaskSound, OfStored, OfShown, Settled
<1>3. QED BY <1>1, <1>2

LEMMA Invariance == SelectionSpec => []SelectionInv
BY InitInv, NextInv, PTL DEF SelectionSpec

(* Only the step that ends a toggle, or closes its tab, makes a tab idle.  *)
LEMMA WhoEnds ==
  ASSUME SelectionInv, [SelectionNext]_selectionVars, NEW t \in Tabs, task[t] # Idle, task'[t] = Idle
  PROVE  \/ stored' = stored /\ Close(t)
         \/ stored' = stored /\ Ended(t, TRUE)
         \/ stored' = stored /\ Ended(t, FALSE)
         \/ stored' = Entry(task[t].next) /\ Ended(t, TRUE)
<1>1. SelectionTypeOK BY DEF SelectionInv
<1>2. SelectionNext BY DEF selectionVars
<1>3. ~Quota /\ ~Clear BY DEF Quota, Clear
<1>4. ASSUME NEW u \in Tabs, Open(u) \/ Sync(u) PROVE FALSE
  BY <1>4 DEF Open, Sync
<1>5. ASSUME NEW u \in Tabs, NEW id \in Ids, Toggle(u, id) PROVE FALSE
  <2>1. Task("compare", {id}, Toggled(Current(u), id), Len(events[u])) # Idle BY DEF Task, Idle
  <2>2. task[u] = Idle BY <1>5 DEF Toggle
  <2>3. u # t BY <2>2
  <2>4. task'[t] = task[t] BY <1>1, <1>5, <2>3 DEF Toggle, SelectionTypeOK
  <2>5. QED BY <2>4
<1>6. ASSUME NEW u \in Tabs, Close(u) PROVE u = t /\ stored' = stored
  BY <1>1, <1>6 DEF Close, SelectionTypeOK
<1>7. ASSUME NEW u \in Tabs, Compare(u) PROVE stored' = stored /\ Ended(t, TRUE)
  <2>1. u = t BY <1>1, <1>7 DEF Compare, Finish, SelectionTypeOK
  <2>2. Finish(t, TRUE)
    <3>1. CASE task' = [task EXCEPT ![t] = Task("set", task[t].item, task[t].next, task[t].since)]
      <4>1. task'[t] = Task("set", task[t].item, task[t].next, task[t].since) BY <1>1, <3>1 DEF SelectionTypeOK
      <4>2. QED BY <4>1 DEF Task, Idle
    <3>2. QED BY <1>7, <2>1, <3>1 DEF Compare
  <2>3. Ended(t, TRUE) BY <1>1, <2>2, Finished
  <2>4. QED BY <1>7, <2>3 DEF Compare
<1>8. ASSUME NEW u \in Tabs, Set(u)
      PROVE  \/ stored' = stored /\ Ended(t, FALSE)
             \/ stored' = Entry(task[t].next) /\ Ended(t, TRUE)
  <2>1. u = t BY <1>1, <1>8 DEF Set, Finish, SelectionTypeOK
  <2>2. CASE Finish(t, FALSE) /\ stored' = stored
    <3>1. Ended(t, FALSE) BY <1>1, <2>2, Finished
    <3>2. QED BY <2>2, <3>1
  <2>3. CASE Finish(t, TRUE) /\ stored' = Entry(task[t].next)
    <3>1. Ended(t, TRUE) BY <1>1, <2>3, Finished
    <3>2. QED BY <2>3, <3>1
  <2>4. QED BY <1>8, <2>1, <2>2, <2>3 DEF Set
<1>9. QED BY <1>2, <1>3, <1>4, <1>5, <1>6, <1>7, <1>8 DEF SelectionNext

(* Every variable keeps its type: no selection exceeds its limit.          *)
THEOREM TypeCorrect == SelectionSpec => []SelectionTypeOK
<1>1. SelectionInv => SelectionTypeOK BY DEF SelectionInv
<1>2. QED BY <1>1, Invariance, PTL

(* A tab with nothing left to do shows what is stored, whatever order the  *)
(* tabs wrote in and heard of each other (PublicMonitor.tsx:57-61).        *)
THEOREM TabsShowWhatIsStored == SelectionSpec => []TabsAgree
<1>1. SelectionInv => TabsAgree BY DEF SelectionInv
<1>2. QED BY <1>1, Invariance, PTL

(* A toggle during which no other tab wrote changes the stored selection in*)
(* its one item (PublicMonitor.tsx:108, :121).                             *)
THEOREM NothingIsOverwritten == SelectionSpec => NoOverwriting
<1>1. ASSUME SelectionInv, [SelectionNext]_selectionVars, NEW t \in Tabs,
             task[t].step = "set", stored' # stored, stored.there, ~refused[t],
             task'[t] = Idle, Len(events[t]) = task[t].since
      PROVE  Difference(stored'.ids, stored.ids) = task[t].item
  <2>1. task[t] # Idle BY <1>1 DEF Idle, Task
  <2>2. stored' = Entry(task[t].next)
    <3>1. \/ stored' = stored /\ Close(t)
          \/ stored' = stored /\ Ended(t, TRUE)
          \/ stored' = stored /\ Ended(t, FALSE)
          \/ stored' = Entry(task[t].next) /\ Ended(t, TRUE)
      BY <1>1, <2>1, WhoEnds
    <3>2. QED BY <1>1, <3>1
  <2>3. stored'.ids = task[t].next BY <2>2 DEF Entry
  <2>4. Difference(task[t].next, stored.ids) = task[t].item
    BY <1>1, <2>1 DEF SelectionInv, TaskSound, OfStored, Settled
  <2>5. QED BY <2>3, <2>4
<1>2. SelectionInv /\ [SelectionNext]_selectionVars =>
        [\A t \in Tabs :
           (/\ task[t].step = "set" /\ stored' # stored /\ stored.there /\ ~refused[t]
            /\ task'[t] = Idle /\ Len(events[t]) = task[t].since)
           => Difference(stored'.ids, stored.ids) = task[t].item]_selectionVars
  BY <1>1
<1>3. QED BY <1>2, Invariance, PTL DEF SelectionSpec, NoOverwriting

(* A toggle of a favourite changes what its tab shows in that one item,    *)
(* whether or not it could be stored (PublicMonitor.tsx:108-114).          *)
THEOREM FavoritesKeepUnsaved == SelectionSpec => FavoritesOneAtATime
<1>1. ASSUME SelectionInv, [SelectionNext]_selectionVars, guarded, NEW t \in open \cap open' PROVE OneItem(t)
  <2> SUFFICES ASSUME task[t] # Idle, task'[t] = Idle, events[t] = <<>>
               PROVE  Difference(shown'[t], shown[t]) \subseteq task[t].item
    BY DEF OneItem
  <2>1. t \in Tabs BY <1>1 DEF SelectionInv, SelectionTypeOK
  <2>2. \/ stored' = stored /\ Close(t)
        \/ stored' = stored /\ Ended(t, TRUE)
        \/ stored' = stored /\ Ended(t, FALSE)
        \/ stored' = Entry(task[t].next) /\ Ended(t, TRUE)
    BY <1>1, <2>1, WhoEnds
  <2>3. ~Close(t) BY <1>1 DEF Close
  <2>4. shown'[t] = task[t].next BY <2>2, <2>3 DEF Ended
  <2>5. Difference(task[t].next, shown[t]) = task[t].item
    BY <1>1, <2>1 DEF SelectionInv, TaskSound, OfShown
  <2>6. QED BY <2>4, <2>5
<1>2. SelectionInv /\ [SelectionNext]_selectionVars => [guarded => \A t \in open \cap open' : OneItem(t)]_selectionVars
  BY <1>1
<1>3. QED BY <1>2, Invariance, PTL DEF SelectionSpec, FavoritesOneAtATime

(***************************************************************************)
(* Proofs about ComparisonPoint, for any number of tabs and publications.  *)
(* The argument: what a task found in the storage when it looked is still  *)
(* there as long as no event has arrived since; and a tab for which no     *)
(* event waits compares with what is stored, or saw the first publication. *)
(***************************************************************************)

(* A first visit found no point; a comparison found an older one, or none. *)
FoundNone(t) == writing[t].why = "load" /\ Len(notices[t]) = writing[t].began => reference = None
FoundOlder(t) ==
  writing[t].step = "set" /\ Len(notices[t]) = writing[t].compared => writing[t].point.at > reference.at
PointTaskSound(t) ==
  /\ t \notin visits => snapshot[t] = None
  /\ writing[t].began <= Len(notices[t]) /\ writing[t].compared <= Len(notices[t])
  /\ writing[t] # NotWriting =>
       /\ t \in visits /\ writing[t].step # "idle"
       /\ writing[t].point = snapshot[t] /\ writing[t].point \in Published
       /\ FoundNone(t) /\ FoundOlder(t)

(* What a tab compares with is what is stored, or it made the first visit. *)
Agrees(t) ==
  t \in visits /\ snapshot[t] # None /\ notices[t] = <<>> =>
    baseline[t] = reference \/ (baseline[t] = None /\ reference = snapshot[t])

PointInv == PointTypeOK /\ \A t \in Tabs : PointTaskSound(t) /\ Agrees(t)

LEMMA PublishedPoints ==
  /\ None \in Points /\ None \notin Published /\ None.at = 0 /\ NotWriting \in WritingType
  /\ \A p \in Published : p \in Points /\ MakeBaseline(p) = p /\ p.at \in Nat /\ p.at > 0
  /\ \A p \in Points : p.at \in Nat
<1>1. None \in Points /\ None.at = 0 BY DEF Points, None, Point
<1>2. None \notin Published BY PublishedAssumption DEF None, Point
<1>3. NotWriting \in WritingType BY <1>1 DEF NotWriting, Writing, WritingType
<1>4. ASSUME NEW p \in Published
      PROVE  p \in Points /\ MakeBaseline(p) = p /\ p.at \in Nat /\ p.at > 0
  <2>1. p \in [at : Nat \ {0}, content : Nat] BY PublishedAssumption
  <2>2. QED BY <2>1 DEF Points, MakeBaseline, Point
<1>5. \A p \in Points : p.at \in Nat BY <1>1, <1>4 DEF Points
<1>6. QED BY <1>1, <1>2, <1>3, <1>4, <1>5

(* An event that is delivered makes a queue longer, and not empty.         *)
LEMMA PointNotified ==
  ASSUME notices \in [Tabs -> Seq(Points)], NEW others \in SUBSET Tabs,
         NEW value \in Points, Notice(others, value)
  PROVE  /\ notices' \in [Tabs -> Seq(Points)]
         /\ \A t \in Tabs : t \notin others => notices'[t] = notices[t]
         /\ \A t \in others : Len(notices'[t]) = Len(notices[t]) + 1 /\ notices'[t] # <<>>
<1>1. notices' = [t \in Tabs |-> IF t \in others THEN Append(notices[t], value) ELSE notices[t]]
  BY DEF Notice
<1>2. \A t \in Tabs : /\ Append(notices[t], value) \in Seq(Points)
                      /\ Len(Append(notices[t], value)) = Len(notices[t]) + 1
                      /\ Append(notices[t], value) # <<>>
  BY AppendProperties
<1>3. QED BY <1>1, <1>2

LEMMA PointInitInv == PointInit => PointInv
<1> SUFFICES ASSUME PointInit PROVE PointInv OBVIOUS
<1>1. PointTypeOK
  <2>1. <<>> \in Seq(Points) OBVIOUS
  <2>2. QED BY <2>1, PublishedPoints DEF PointInit, PointTypeOK
<1>2. ASSUME NEW t \in Tabs PROVE PointTaskSound(t) /\ Agrees(t)
  <2>1. /\ writing[t] = NotWriting /\ snapshot[t] = None /\ notices[t] = <<>> /\ t \notin visits
    BY DEF PointInit
  <2>2. Len(notices[t]) = 0 BY <2>1
  <2>3. writing[t].began = 0 /\ writing[t].compared = 0 BY <2>1 DEF NotWriting, Writing
  <2>4. QED BY <2>1, <2>2, <2>3 DEF PointTaskSound, Agrees
<1>3. QED BY <1>1, <1>2 DEF PointInv

(* What an action of one tab leaves alone keeps its part of the invariant. *)
LEMMA PointFrame ==
  ASSUME NEW t \in Tabs, PointTaskSound(t), Agrees(t), writing'[t] = writing[t], notices'[t] = notices[t],
         snapshot'[t] = snapshot[t], baseline'[t] = baseline[t],
         (t \in visits) = (t \in visits'), reference' = reference
  PROVE  PointTaskSound(t)' /\ Agrees(t)'
BY DEF PointTaskSound, Agrees, FoundNone, FoundOlder

(* So does an event, which makes everything found in the storage moot.     *)
LEMMA PointFrameNotified ==
  ASSUME NEW t \in Tabs, PointTypeOK, PointTaskSound(t), writing'[t] = writing[t], notices'[t] # <<>>,
         Len(notices'[t]) = Len(notices[t]) + 1, snapshot'[t] = snapshot[t], t \in visits'
  PROVE  PointTaskSound(t)' /\ Agrees(t)'
<1>1. writing[t].began \in Nat /\ writing[t].compared \in Nat /\ Len(notices[t]) \in Nat
  BY LenProperties DEF PointTypeOK, WritingType
<1>2. Len(notices'[t]) # writing[t].began /\ Len(notices'[t]) # writing[t].compared
  BY <1>1 DEF PointTaskSound
<1>3. QED BY <1>1, <1>2 DEF PointTaskSound, Agrees, FoundNone, FoundOlder

LEMMA PointOpenInv ==
  ASSUME PointInv, NEW t \in Tabs, Visit(t) PROVE PointInv'
<1>1. PointTypeOK BY DEF PointInv
<1>2. PointTypeOK' BY <1>1 DEF PointTypeOK, Visit
<1>3. ASSUME NEW u \in Tabs PROVE PointTaskSound(u)' /\ Agrees(u)'
  <2>1. CASE u = t BY <2>1 DEF PointInv, PointTaskSound, Agrees, Visit, FoundNone, FoundOlder
  <2>2. CASE u # t BY <2>2, PointFrame DEF PointInv, Visit
  <2>3. QED BY <2>1, <2>2
<1>4. QED BY <1>2, <1>3 DEF PointInv

LEMMA PointCloseInv ==
  ASSUME PointInv, NEW t \in Tabs, Leave(t) PROVE PointInv'
<1>1. PointTypeOK BY DEF PointInv
<1>2. PointTypeOK'
  <2>1. <<>> \in Seq(Points) OBVIOUS
  <2>2. QED BY <1>1, <2>1, PublishedPoints DEF PointTypeOK, Leave
<1>3. ASSUME NEW u \in Tabs PROVE PointTaskSound(u)' /\ Agrees(u)'
  <2>1. CASE u = t
    <3>1. /\ writing'[t] = NotWriting /\ snapshot'[t] = None /\ notices'[t] = <<>> /\ t \notin visits'
      BY <1>1 DEF Leave, PointTypeOK
    <3>2. Len(notices'[t]) = 0 BY <3>1
    <3>3. writing'[t].began = 0 /\ writing'[t].compared = 0 BY <3>1 DEF NotWriting, Writing
    <3>4. QED BY <2>1, <3>1, <3>2, <3>3 DEF PointTaskSound, Agrees
  <2>2. CASE u # t
    <3>1. /\ writing'[u] = writing[u] /\ notices'[u] = notices[u] /\ snapshot'[u] = snapshot[u]
          /\ baseline'[u] = baseline[u] /\ (u \in visits) = (u \in visits') /\ reference' = reference
      BY <1>1, <2>2 DEF Leave, PointTypeOK
    <3>2. QED BY <3>1, PointFrame DEF PointInv
  <2>3. QED BY <2>1, <2>2
<1>4. QED BY <1>2, <1>3 DEF PointInv

LEMMA PointQuotaInv == ASSUME PointInv, RefusalChanges PROVE PointInv'
<1>1. PointTypeOK' BY DEF PointInv, PointTypeOK, RefusalChanges
<1>2. ASSUME NEW u \in Tabs PROVE PointTaskSound(u)' /\ Agrees(u)'
  BY PointFrame DEF PointInv, RefusalChanges
<1>3. QED BY <1>1, <1>2 DEF PointInv

LEMMA PointClearInv == ASSUME PointInv, ForgetPoint PROVE PointInv'
<1>1. PointTypeOK /\ visits \in SUBSET Tabs BY DEF PointInv, PointTypeOK
<1>2. /\ notices' \in [Tabs -> Seq(Points)]
      /\ \A u \in Tabs : u \notin visits => notices'[u] = notices[u]
      /\ \A u \in visits : Len(notices'[u]) = Len(notices[u]) + 1 /\ notices'[u] # <<>>
  BY <1>1, PublishedPoints, PointNotified DEF ForgetPoint, PointTypeOK
<1>3. PointTypeOK' BY <1>1, <1>2, PublishedPoints DEF PointTypeOK, ForgetPoint
<1>4. ASSUME NEW u \in Tabs PROVE PointTaskSound(u)' /\ Agrees(u)'
  <2>1. CASE u \in visits
    BY <1>1, <1>2, <2>1, PointFrameNotified DEF PointInv, ForgetPoint
  <2>2. CASE u \notin visits
    <3>1. notices'[u] = notices[u] /\ PointTaskSound(u) BY <1>2, <2>2 DEF PointInv
    <3>2. QED BY <2>2, <3>1 DEF PointTaskSound, Agrees, ForgetPoint
  <2>3. QED BY <2>1, <2>2
<1>5. QED BY <1>3, <1>4 DEF PointInv

(* A task that begins now has found what is stored now.                    *)
Began(t, p, why) == Writing("compare", why, p, Len(notices[t]), 0)

LEMMA Beginning ==
  ASSUME PointTypeOK, NEW t \in Tabs, NEW p \in Published, NEW why \in {"load", "mark"}
  PROVE  /\ Began(t, p, why) \in WritingType /\ Began(t, p, why) # NotWriting
         /\ Began(t, p, why).step = "compare" /\ Began(t, p, why).point = p
         /\ Began(t, p, why).why = why
         /\ Began(t, p, why).began = Len(notices[t]) /\ Began(t, p, why).compared = 0
<1>1. Len(notices[t]) \in Nat BY LenProperties DEF PointTypeOK
<1>2. p \in Points BY PublishedPoints
<1>3. QED BY <1>1, <1>2 DEF Began, Writing, WritingType, NotWriting

LEMMA LoadInv ==
  ASSUME PointInv, NEW t \in Tabs, NEW p \in Published, Load(t, p) PROVE PointInv'
<1> DEFINE new == IF SetsPoint THEN Began(t, p, "load") ELSE NotWriting
<1>1. PointTypeOK /\ p \in Points /\ MakeBaseline(p) = p BY PublishedPoints DEF PointInv
<1>2. /\ t \in visits /\ writing[t] = NotWriting
      /\ snapshot' = [snapshot EXCEPT ![t] = p] /\ baseline' = [baseline EXCEPT ![t] = reference]
      /\ writing' = [writing EXCEPT ![t] = new]
      /\ UNCHANGED <<reference, refusing, visits, notices>>
  BY <1>1 DEF Load, Began
<1>3. new \in WritingType BY <1>1, Beginning, PublishedPoints
<1> HIDE DEF new
<1>4. PointTypeOK' BY <1>1, <1>2, <1>3 DEF PointTypeOK
<1>5. ASSUME NEW u \in Tabs PROVE PointTaskSound(u)' /\ Agrees(u)'
  <2>1. CASE u = t
    <3>1. writing'[t] = new /\ snapshot'[t] = p /\ baseline'[t] = reference
      BY <1>1, <1>2 DEF PointTypeOK
    <3>2. Agrees(u)' BY <1>2, <2>1, <3>1 DEF Agrees
    <3>3. Len(notices[t]) \in Nat BY <1>1, LenProperties DEF PointTypeOK
    <3>4. CASE SetsPoint
      <4>1. new = Began(t, p, "load") BY <3>4 DEF new
      <4>2. /\ new.step = "compare" /\ new.point = p
            /\ new.began = Len(notices[t]) /\ new.compared = 0
        BY <1>1, <4>1, Beginning
      <4>3. reference = None BY <3>4 DEF SetsPoint
      <4>4. QED BY <1>2, <2>1, <3>1, <3>2, <3>3, <4>2, <4>3 DEF PointTaskSound, FoundNone, FoundOlder
    <3>5. CASE ~SetsPoint
      <4>1. writing'[t] = NotWriting BY <3>1, <3>5 DEF new
      <4>2. writing'[t].began = 0 /\ writing'[t].compared = 0 BY <4>1 DEF NotWriting, Writing
      <4>3. QED BY <1>2, <2>1, <3>2, <3>3, <4>1, <4>2 DEF PointTaskSound
    <3>6. QED BY <3>4, <3>5
  <2>2. CASE u # t
    <3>1. /\ writing'[u] = writing[u] /\ snapshot'[u] = snapshot[u] /\ baseline'[u] = baseline[u]
          /\ PointTaskSound(u) /\ Agrees(u)
      BY <1>1, <1>2, <2>2 DEF PointTypeOK, PointInv
    <3>2. QED BY <1>2, <3>1, PointFrame
  <2>3. QED BY <2>1, <2>2
<1>6. QED BY <1>4, <1>5 DEF PointInv

LEMMA MarkInv == ASSUME PointInv, NEW t \in Tabs, Mark(t) PROVE PointInv'
<1> DEFINE new == Began(t, snapshot[t], "mark")
<1>1. PointTypeOK BY DEF PointInv
<1>2. snapshot[t] \in Published BY <1>1 DEF Mark, PointTypeOK, Points
<1>3. /\ t \in visits /\ writing[t] = NotWriting /\ writing' = [writing EXCEPT ![t] = new]
      /\ UNCHANGED <<reference, refusing, visits, snapshot, baseline, notices>>
  BY <1>2, PublishedPoints DEF Mark, Began
<1>4. /\ new \in WritingType /\ new # NotWriting /\ new.step = "compare" /\ new.point = snapshot[t]
      /\ new.why = "mark" /\ new.began = Len(notices[t]) /\ new.compared = 0
  BY <1>1, <1>2, Beginning
<1> HIDE DEF new
<1>5. PointTypeOK' BY <1>1, <1>3, <1>4 DEF PointTypeOK
<1>6. ASSUME NEW u \in Tabs PROVE PointTaskSound(u)' /\ Agrees(u)'
  <2>1. CASE u = t
    <3>1. writing'[t] = new /\ Len(notices[t]) \in Nat
      BY <1>1, <1>3, LenProperties DEF PointTypeOK
    <3>2. Agrees(u)' BY <1>3, <2>1 DEF PointInv, Agrees
    <3>3. QED BY <1>2, <1>3, <1>4, <2>1, <3>1, <3>2 DEF PointTaskSound, FoundNone, FoundOlder
  <2>2. CASE u # t
    <3>1. writing'[u] = writing[u] /\ PointTaskSound(u) /\ Agrees(u)
      BY <1>1, <1>3, <2>2 DEF PointTypeOK, PointInv
    <3>2. QED BY <1>3, <3>1, PointFrame
  <2>3. QED BY <2>1, <2>2
<1>7. QED BY <1>5, <1>6 DEF PointInv

(* What the end of a task leaves in its tab.                               *)
PointEnded(t, saved) ==
  /\ baseline' \in [Tabs -> Points]
  /\ baseline'[t] = IF saved /\ writing[t].why = "mark" THEN writing[t].point ELSE baseline[t]
  /\ writing' \in [Tabs -> WritingType] /\ writing'[t] = NotWriting
  /\ writing'[t].began = 0 /\ writing'[t].compared = 0
  /\ \A u \in Tabs \ {t} : baseline'[u] = baseline[u] /\ writing'[u] = writing[u]

LEMMA PointFinished ==
  ASSUME PointTypeOK, NEW t \in Tabs, NEW saved \in BOOLEAN, EndWriting(t, saved)
  PROVE  PointEnded(t, saved)
<1> DEFINE new == IF saved /\ writing[t].why = "mark" THEN writing[t].point ELSE baseline[t]
<1>1. new \in Points BY DEF PointTypeOK, WritingType
<1>2. baseline' = [baseline EXCEPT ![t] = new] BY DEF EndWriting
<1>3. writing' = [writing EXCEPT ![t] = NotWriting] BY DEF EndWriting
<1> HIDE DEF new
<1>4. baseline' \in [Tabs -> Points] /\ baseline'[t] = new BY <1>1, <1>2 DEF PointTypeOK
<1>5. writing' \in [Tabs -> WritingType] /\ writing'[t] = NotWriting BY <1>3, PublishedPoints DEF PointTypeOK
<1>6. writing'[t].began = 0 /\ writing'[t].compared = 0 BY <1>5 DEF NotWriting, Writing
<1>7. \A u \in Tabs \ {t} : baseline'[u] = baseline[u] /\ writing'[u] = writing[u]
  BY <1>2, <1>3 DEF PointTypeOK
<1>8. QED BY <1>4, <1>5, <1>6, <1>7 DEF PointEnded, new

(* A tab whose task has ended without a write is as sound as before.       *)
LEMMA EndedInv ==
  ASSUME PointInv, NEW t \in Tabs, writing[t] # NotWriting, NEW saved \in BOOLEAN, PointEnded(t, saved),
         saved => writing[t].point = reference,
         UNCHANGED <<reference, refusing, visits, snapshot, notices>>
  PROVE  PointInv'
<1>1. PointTypeOK BY DEF PointInv
<1>2. /\ baseline' \in [Tabs -> Points] /\ writing' \in [Tabs -> WritingType] /\ writing'[t] = NotWriting
      /\ baseline'[t] = IF saved /\ writing[t].why = "mark" THEN writing[t].point ELSE baseline[t]
      /\ writing'[t].began = 0 /\ writing'[t].compared = 0
      /\ \A u \in Tabs \ {t} : baseline'[u] = baseline[u] /\ writing'[u] = writing[u]
  BY DEF PointEnded
<1>3. PointTypeOK' BY <1>1, <1>2 DEF PointTypeOK
<1>4. ASSUME NEW u \in Tabs PROVE PointTaskSound(u)' /\ Agrees(u)'
  <2>1. CASE u = t
    <3>1. Len(notices[t]) \in Nat BY <1>1, LenProperties DEF PointTypeOK
    <3>2. PointTaskSound(t) /\ Agrees(t) BY DEF PointInv
    <3>3. baseline'[t] = reference \/ baseline'[t] = baseline[t] BY <1>2
    <3>4. Agrees(t)' BY <3>2, <3>3 DEF Agrees
    <3>5. PointTaskSound(t)' BY <1>2, <3>1, <3>2 DEF PointTaskSound
    <3>6. QED BY <2>1, <3>4, <3>5
  <2>2. CASE u # t
    <3>1. writing'[u] = writing[u] /\ baseline'[u] = baseline[u] /\ PointTaskSound(u) /\ Agrees(u)
      BY <1>2, <2>2 DEF PointInv
    <3>2. QED BY <3>1, PointFrame
  <2>3. QED BY <2>1, <2>2
<1>5. QED BY <1>3, <1>4 DEF PointInv

LEMMA PointCompareInv ==
  ASSUME PointInv, NEW t \in Tabs, ComparePoint(t) PROVE PointInv'
<1>1. /\ writing[t].step = "compare" /\ UNCHANGED <<reference, refusing, visits, snapshot, notices>>
      /\ IF Refuses(writing[t].point) THEN EndWriting(t, writing[t].point = reference)
         ELSE /\ writing' = [writing EXCEPT ![t] =
                   Writing("set", writing[t].why, writing[t].point, writing[t].began, Len(notices[t]))]
              /\ UNCHANGED baseline
  BY DEF ComparePoint
<1>2. PointTypeOK /\ writing[t] # NotWriting BY <1>1 DEF PointInv, NotWriting, Writing
<1>3. CASE Refuses(writing[t].point)
  <2> DEFINE saved == writing[t].point = reference
  <2>1. saved \in BOOLEAN /\ (saved => writing[t].point = reference) /\ EndWriting(t, saved)
    BY <1>1, <1>3
  <2> HIDE DEF saved
  <2>2. PointEnded(t, saved) BY <1>2, <2>1, PointFinished
  <2>3. QED BY <1>1, <1>2, <2>1, <2>2, EndedInv
<1>4. CASE ~Refuses(writing[t].point)
  <2> DEFINE new == Writing("set", writing[t].why, writing[t].point, writing[t].began, Len(notices[t]))
  <2>1. Len(notices[t]) \in Nat BY <1>2, LenProperties DEF PointTypeOK
  <2>2. new \in WritingType BY <1>2, <2>1 DEF PointTypeOK, WritingType, Writing
  <2>3. /\ new # NotWriting /\ new.step = "set" /\ new.why = writing[t].why
        /\ new.point = writing[t].point /\ new.began = writing[t].began
        /\ new.compared = Len(notices[t])
    BY DEF Writing, NotWriting
  <2> HIDE DEF new
  <2>4. writing' = [writing EXCEPT ![t] = new] /\ UNCHANGED baseline BY <1>1, <1>4 DEF new
  <2>5. PointTypeOK' BY <1>1, <1>2, <2>2, <2>4 DEF PointTypeOK
  <2>6. ASSUME NEW u \in Tabs PROVE PointTaskSound(u)' /\ Agrees(u)'
    <3>1. CASE u = t
      <4>1. writing'[t] = new /\ PointTaskSound(t) /\ Agrees(t) BY <1>2, <2>4 DEF PointTypeOK, PointInv
      <4>2. writing[t].point.at > reference.at
        <5>1. reference.at \in Nat /\ writing[t].point.at \in Nat /\ writing[t].point.at > 0
          BY <1>2, <4>1, PublishedPoints DEF PointTypeOK, PointTaskSound
        <5>2. QED BY <1>4, <5>1, PublishedPoints DEF Refuses
      <4>3. FoundOlder(t)' BY <1>1, <2>3, <4>1, <4>2 DEF FoundOlder
      <4>4. FoundNone(t)' BY <1>1, <1>2, <2>3, <4>1 DEF FoundNone, PointTaskSound
      <4>5. PointTaskSound(t)' BY <1>1, <1>2, <2>1, <2>3, <4>1, <4>3, <4>4 DEF PointTaskSound
      <4>6. Agrees(t)' BY <1>1, <2>4, <4>1 DEF Agrees
      <4>7. QED BY <3>1, <4>5, <4>6
    <3>2. CASE u # t
      <4>1. writing'[u] = writing[u] /\ PointTaskSound(u) /\ Agrees(u)
        BY <1>2, <2>4, <3>2 DEF PointTypeOK, PointInv
      <4>2. QED BY <1>1, <2>4, <4>1, PointFrame
    <3>3. QED BY <3>1, <3>2
  <2>7. QED BY <2>5, <2>6 DEF PointInv
<1>5. QED BY <1>3, <1>4

LEMMA PointSetInv == ASSUME PointInv, NEW t \in Tabs, SetPoint(t) PROVE PointInv'
<1>1. writing[t].step = "set" /\ UNCHANGED <<refusing, visits, snapshot>> BY DEF SetPoint
<1>2. PointTypeOK /\ writing[t] # NotWriting /\ visits \in SUBSET Tabs
  BY <1>1 DEF PointInv, NotWriting, Writing, PointTypeOK
<1>3. PointTaskSound(t) /\ Agrees(t) BY DEF PointInv
<1>4. CASE EndWriting(t, FALSE) /\ UNCHANGED <<reference, notices>>
  <2>1. PointEnded(t, FALSE) BY <1>2, <1>4, PointFinished
  <2>2. QED BY <1>1, <1>2, <1>4, <2>1, EndedInv
<1>5. CASE /\ EndWriting(t, TRUE) /\ reference' = writing[t].point
           /\ Notice(visits \ {t}, writing[t].point)
  <2>1. /\ baseline' \in [Tabs -> Points] /\ writing' \in [Tabs -> WritingType] /\ writing'[t] = NotWriting
        /\ baseline'[t] = IF writing[t].why = "mark" THEN writing[t].point ELSE baseline[t]
        /\ writing'[t].began = 0 /\ writing'[t].compared = 0
        /\ \A u \in Tabs \ {t} : baseline'[u] = baseline[u] /\ writing'[u] = writing[u]
    <3>1. PointEnded(t, TRUE) BY <1>2, <1>5, PointFinished
    <3>2. QED BY <3>1 DEF PointEnded
  <2>2. writing[t].point \in Points /\ writing[t].point = snapshot[t] /\ t \in visits
    BY <1>2, <1>3 DEF PointTypeOK, WritingType, PointTaskSound
  <2>3. /\ notices' \in [Tabs -> Seq(Points)]
        /\ \A u \in Tabs : u \notin visits \ {t} => notices'[u] = notices[u]
        /\ \A u \in visits \ {t} : Len(notices'[u]) = Len(notices[u]) + 1 /\ notices'[u] # <<>>
    BY <1>2, <1>5, <2>2, PointNotified DEF PointTypeOK
  <2>4. PointTypeOK' BY <1>1, <1>2, <1>5, <2>1, <2>2, <2>3 DEF PointTypeOK
  <2>5. ASSUME NEW u \in Tabs PROVE PointTaskSound(u)' /\ Agrees(u)'
    <3>1. CASE u = t
      <4>1. notices'[t] = notices[t] /\ Len(notices[t]) \in Nat
        BY <1>2, <2>3, LenProperties DEF PointTypeOK
      <4>2. PointTaskSound(t)' BY <1>1, <2>1, <2>2, <4>1 DEF PointTaskSound
      <4>3. Agrees(t)'
        <5>1. CASE writing[t].why = "mark" BY <1>5, <2>1, <5>1 DEF Agrees
        <5>2. CASE writing[t].why = "load" /\ notices[t] = <<>>
          <6>1. Len(notices[t]) = 0 /\ writing[t].began \in Nat
            BY <1>2, <5>2 DEF PointTypeOK, WritingType
          <6>2. reference = None BY <1>2, <1>3, <4>1, <5>2, <6>1 DEF PointTaskSound, FoundNone
          <6>3. snapshot[t] # None BY <1>2, <1>3, PublishedPoints DEF PointTaskSound
          <6>4. baseline'[t] = None BY <1>3, <2>1, <2>2, <5>2, <6>2, <6>3 DEF Agrees
          <6>5. QED BY <1>1, <1>5, <2>2, <6>4 DEF Agrees
        <5>3. CASE notices[t] # <<>> BY <4>1, <5>3 DEF Agrees
        <5>4. writing[t].why \in {"load", "mark"} BY <1>2 DEF PointTypeOK, WritingType
        <5>5. QED BY <5>1, <5>2, <5>3, <5>4
      <4>4. QED BY <3>1, <4>2, <4>3
    <3>2. CASE u # t /\ u \in visits
      <4>1. /\ writing'[u] = writing[u] /\ PointTaskSound(u) /\ u \in visits' /\ snapshot'[u] = snapshot[u]
            /\ Len(notices'[u]) = Len(notices[u]) + 1 /\ notices'[u] # <<>>
        BY <1>1, <2>1, <2>3, <3>2 DEF PointInv
      <4>2. QED BY <1>2, <4>1, PointFrameNotified
    <3>3. CASE u # t /\ u \notin visits
      <4>1. writing'[u] = writing[u] /\ PointTaskSound(u) /\ notices'[u] = notices[u]
        BY <2>1, <2>3, <3>3 DEF PointInv
      <4>2. QED BY <1>1, <3>3, <4>1 DEF PointTaskSound, Agrees
    <3>4. QED BY <3>1, <3>2, <3>3
  <2>6. QED BY <2>4, <2>5 DEF PointInv
<1>6. QED BY <1>4, <1>5 DEF SetPoint

LEMMA PointSyncInv == ASSUME PointInv, NEW t \in Tabs, SyncPoint(t) PROVE PointInv'
<1>1. /\ writing[t] = NotWriting /\ notices[t] # <<>>
      /\ baseline' = [baseline EXCEPT ![t] = reference]
      /\ notices' = [notices EXCEPT ![t] = Tail(@)]
      /\ UNCHANGED <<reference, refusing, visits, snapshot, writing>>
  BY DEF SyncPoint, NoticedPoint
<1>2. PointTypeOK BY DEF PointInv
<1>3. Tail(notices[t]) \in Seq(Points) /\ Len(Tail(notices[t])) \in Nat
  <2>1. notices[t] \in Seq(Points) BY <1>2 DEF PointTypeOK
  <2>2. Tail(notices[t]) \in Seq(Points) BY <1>1, <2>1, HeadTailProperties
  <2>3. QED BY <2>2, LenProperties
<1>4. PointTypeOK'
  <2>1. baseline' \in [Tabs -> Points] BY <1>1, <1>2 DEF PointTypeOK
  <2>2. notices' \in [Tabs -> Seq(Points)] BY <1>1, <1>2, <1>3 DEF PointTypeOK
  <2>3. QED BY <1>1, <1>2, <2>1, <2>2 DEF PointTypeOK
<1>5. ASSUME NEW u \in Tabs PROVE PointTaskSound(u)' /\ Agrees(u)'
  <2>1. CASE u = t
    <3>1. baseline'[t] = reference /\ notices'[t] = Tail(notices[t]) /\ writing'[t] = NotWriting
      BY <1>1, <1>2 DEF PointTypeOK
    <3>2. writing'[t].began = 0 /\ writing'[t].compared = 0 BY <3>1 DEF NotWriting, Writing
    <3>3. Agrees(t)' BY <1>1, <3>1 DEF Agrees
    <3>4. PointTaskSound(t) BY DEF PointInv
    <3>5. PointTaskSound(t)' BY <1>1, <1>3, <3>1, <3>2, <3>4 DEF PointTaskSound
    <3>6. QED BY <2>1, <3>3, <3>5
  <2>2. CASE u # t
    <3>1. baseline'[u] = baseline[u] /\ notices'[u] = notices[u] /\ PointTaskSound(u) /\ Agrees(u)
      BY <1>1, <1>2, <2>2 DEF PointTypeOK, PointInv
    <3>2. QED BY <1>1, <3>1, PointFrame
  <2>3. QED BY <2>1, <2>2
<1>6. QED BY <1>4, <1>5 DEF PointInv

LEMMA PointNextInv == PointInv /\ [PointNext]_pointVars => PointInv'
<1> SUFFICES ASSUME PointInv, [PointNext]_pointVars PROVE PointInv' OBVIOUS
<1>1. CASE PointNext
  BY <1>1, PointQuotaInv, PointClearInv, PointOpenInv, PointCloseInv, MarkInv, PointCompareInv, PointSetInv, PointSyncInv, LoadInv
  DEF PointNext
<1>2. CASE UNCHANGED pointVars
  BY <1>2 DEF pointVars, PointInv, PointTypeOK, PointTaskSound, Agrees, FoundNone, FoundOlder
<1>3. QED BY <1>1, <1>2

LEMMA PointInvariance == PointSpec => []PointInv
BY PointInitInv, PointNextInv, PTL DEF PointSpec

(* Only the write of a task stores a point and ends the task.              *)
LEMMA WhoWrites ==
  ASSUME PointInv, [PointNext]_pointVars, NEW t \in Tabs, Writes(t) PROVE reference' = writing[t].point
<1>1. PointTypeOK /\ writing[t].step = "set" /\ writing'[t] = NotWriting /\ reference' # reference
  BY DEF PointInv, Writes
<1>2. writing[t] # NotWriting BY <1>1 DEF NotWriting, Writing
<1>3. PointNext /\ ~RefusalChanges BY <1>1 DEF pointVars, RefusalChanges
<1>4. ~ForgetPoint BY <1>1, <1>2 DEF ForgetPoint
<1>5. ASSUME NEW u \in Tabs, Visit(u) \/ Leave(u) \/ Mark(u) \/ ComparePoint(u) \/ SyncPoint(u) PROVE FALSE
  BY <1>1, <1>5 DEF Visit, Leave, Mark, ComparePoint, SyncPoint
<1>6. ASSUME NEW u \in Tabs, NEW p \in Published, Load(u, p) PROVE FALSE
  BY <1>1, <1>6 DEF Load
<1>7. ASSUME NEW u \in Tabs, SetPoint(u) PROVE reference' = writing[t].point
  <2>1. reference' = writing[u].point BY <1>1, <1>7 DEF SetPoint
  <2>2. u = t BY <1>1, <1>2, <1>7 DEF SetPoint, EndWriting, PointTypeOK
  <2>3. QED BY <2>1, <2>2
<1>8. QED BY <1>3, <1>4, <1>5, <1>6, <1>7 DEF PointNext

(* Every variable keeps its type: a point is a publication, with its date. *)
THEOREM PointTypeCorrect == PointSpec => []PointTypeOK
<1>1. PointInv => PointTypeOK BY DEF PointInv
<1>2. QED BY <1>1, PointInvariance, PTL

(* A tab for which no event waits compares with what is stored, or it shows*)
(* the publication its own first visit stored (PublicMonitor.tsx:57-61).   *)
THEOREM ComparesAsStored == PointSpec => []ComparesWithStored
<1>1. PointInv => ComparesWithStored BY DEF PointInv, PointTypeOK, Agrees, ComparesWithStored
<1>2. QED BY <1>1, PointInvariance, PTL

(* Unless another tab wrote between the comparison and the write, what is  *)
(* written is newer than what it replaces (public-session.ts:191).         *)
THEOREM PointOnlyAdvances == PointSpec => PointAdvances
<1>1. ASSUME PointInv, [PointNext]_pointVars, NEW t \in Tabs, Writes(t), Len(notices[t]) = writing[t].compared
      PROVE  reference'.at > reference.at
  <2>1. reference' = writing[t].point BY <1>1, WhoWrites
  <2>2. writing[t].step = "set" /\ writing[t] # NotWriting BY <1>1 DEF Writes, NotWriting, Writing
  <2>3. writing[t].point.at > reference.at BY <1>1, <2>2 DEF PointInv, PointTaskSound, FoundOlder
  <2>4. QED BY <2>1, <2>3
<1>2. PointInv /\ [PointNext]_pointVars =>
        [\A t \in Tabs : Writes(t) /\ Len(notices[t]) = writing[t].compared => reference'.at > reference.at]_pointVars
  BY <1>1
<1>3. QED BY <1>2, PointInvariance, PTL DEF PointSpec, PointAdvances

(* A publication that arrives sets the point only where there was none     *)
(* (PublicMonitor.tsx:69-70).                                              *)
THEOREM FileKeepsPoint == PointSpec => FileAloneKeepsPoint
<1>1. ASSUME PointInv, [PointNext]_pointVars, NEW t \in Tabs, Writes(t), writing[t].why = "load",
             Len(notices[t]) = writing[t].began
      PROVE  reference = None
  <2>1. writing[t].step = "set" /\ writing[t] # NotWriting BY <1>1 DEF Writes, NotWriting, Writing
  <2>2. QED BY <1>1, <2>1 DEF PointInv, PointTaskSound, FoundNone
<1>2. PointInv /\ [PointNext]_pointVars =>
        [\A t \in Tabs :
           Writes(t) /\ writing[t].why = "load" /\ Len(notices[t]) = writing[t].began => reference = None]_pointVars
  BY <1>1
<1>3. QED BY <1>2, PointInvariance, PTL DEF PointSpec, FileAloneKeepsPoint
==============================================================================
