--------------------------- MODULE BriefingsProofs ---------------------------
(***************************************************************************)
(* Proofs about Briefings, for any number of events, scopes, writers and   *)
(* requests.  The argument is the one the comment in api.py makes: whoever *)
(* is past the advisory lock is alone, so between the sampling of a time   *)
(* and the commit that uses it no cursor and no row changes.               *)
(***************************************************************************)
EXTENDS Briefings, FiniteSetTheorems, TLAPS

(* The lock has at most one holder, and only holders are past it.          *)
Alone ==
  /\ \A x, y \in lock : x = y
  /\ \A w \in Writers : writer[w].phase # "idle" => w \in lock
  /\ \A r \in Requests : request[r].phase # "idle" => r \in lock

(* No stamp and no cursor lies in the future.                              *)
PastOnly ==
  /\ \A e \in Events : changedAt[e] <= clock
  /\ \A sc \in Scopes : cursor[sc] <= clock

(* A writer's sampled time is behind no cursor.                            *)
StampsAreLate ==
  \A w \in Writers : writer[w].phase = "open" =>
    writer[w].now <= clock /\ writer[w].now > 0 /\ \A sc \in Scopes : cursor[sc] <= writer[w].now

(* A request knows its scope; past the sampling its window is still the    *)
(* one that follows the cursor, and what it has read is still there.       *)
WindowsAreCurrent ==
  \A r \in Requests :
    /\ request[r].phase # "idle" => request[r].scope \in Scopes
    /\ request[r].phase \in {"open", "counted", "streamed"} =>
         /\ request[r].since = Since(request[r].scope, request[r].until)
         /\ request[r].since < request[r].until
         /\ cursor[request[r].scope] < request[r].until
         /\ request[r].until <= clock
    /\ request[r].phase \in {"counted", "streamed"} => request[r].total = Cardinality(Selected(r))
    /\ request[r].phase = "streamed" => request[r].items = Selected(r)

ToldIsPast == \A sc \in Scopes : \A p \in told[sc] : p[2] < cursor[sc]

FeedInv ==
  /\ TypeOK /\ Alone /\ PastOnly /\ StampsAreLate /\ WindowsAreCurrent /\ ToldIsPast
  /\ NothingMissed

LEMMA InitInv == Init => FeedInv
BY ScopeAssumption DEF Init, FeedInv, TypeOK, Alone, PastOnly, StampsAreLate, WindowsAreCurrent, ToldIsPast,
   NothingMissed, NoWriter, NoRequest, Writing, Request, Never

LEMMA SelectedType ==
  ASSUME TypeOK, NEW r \in Requests, request[r].scope \in Scopes
  PROVE  Selected(r) \in SUBSET (Events \X Nat) /\ Cardinality(Selected(r)) \in Nat
<1> DEFINE chosen == {x \in Matching[request[r].scope] : InWindow(r, x)}
<1>1. chosen \subseteq Events
  BY ScopeAssumption DEF TypeOK
<1>2. IsFiniteSet(chosen)
  BY <1>1, EventsAssumption, FS_Subset
<1>3. IsFiniteSet({<<e, changedAt[e]>> : e \in chosen})
  <2> DEFINE stamped == {<<e, changedAt[e]>> : e \in chosen}
             pair == [e \in chosen |-> <<e, changedAt[e]>>]
  <2>1. pair \in Surjection(chosen, stamped)
    BY DEF Surjection
  <2> QED
    BY <1>2, <2>1, FS_Surjection
<1>4. Selected(r) = {<<e, changedAt[e]>> : e \in chosen}
  BY DEF Selected
<1>5. Selected(r) \in SUBSET (Events \X Nat)
  BY <1>1, <1>4 DEF TypeOK
<1> QED
  BY <1>3, <1>4, <1>5, FS_CardinalityType

(* Nothing a request has read changes while rows, its record and the       *)
(* cursors stay.                                                           *)
LEMMA FeedFrame ==
  ASSUME FeedInv, TypeOK', Alone', StampsAreLate',
         UNCHANGED <<changedAt, cursor, start, told>>, clock' >= clock,
         \A r \in Requests : request'[r] = request[r] \/ request'[r].phase = "idle"
  PROVE  FeedInv'
<1>1. PastOnly'
  BY DEF FeedInv, PastOnly, TypeOK
<1>2. ToldIsPast' /\ NothingMissed'
  BY DEF FeedInv, ToldIsPast, NothingMissed
<1>3. WindowsAreCurrent'
  <2> SUFFICES ASSUME NEW r \in Requests, request'[r].phase # "idle"
      PROVE /\ request'[r].scope \in Scopes
            /\ request'[r].phase \in {"open", "counted", "streamed"} =>
                 /\ request'[r].since = Since(request[r].scope, request[r].until)'
                 /\ request'[r].since < request'[r].until
                 /\ cursor'[request'[r].scope] < request'[r].until
                 /\ request'[r].until <= clock'
            /\ request'[r].phase \in {"counted", "streamed"} =>
                 request'[r].total = Cardinality(Selected(r)')
            /\ request'[r].phase = "streamed" => request'[r].items = Selected(r)'
    BY DEF WindowsAreCurrent
  <2>1. request'[r] = request[r]
    OBVIOUS
  <2>2. Selected(r)' = Selected(r)
    BY <2>1 DEF Selected, InWindow
  <2>3. Since(request[r].scope, request[r].until)' = Since(request[r].scope, request[r].until)
    BY <2>1 DEF Since
  <2>4. request[r].until <= clock => request'[r].until <= clock'
    BY <2>1 DEF FeedInv, TypeOK
  <2> QED
    BY <2>1, <2>2, <2>3, <2>4 DEF FeedInv, WindowsAreCurrent
<1> QED
  BY <1>1, <1>2, <1>3 DEF FeedInv

LEMMA InvStep == FeedInv /\ [Next]_vars => FeedInv'
<1> SUFFICES ASSUME FeedInv, [Next]_vars PROVE FeedInv'
  OBVIOUS
<1> USE ScopeAssumption, ClockAssumption, ConnectionAssumption DEF FeedInv, LockFree
<1>1. CASE Tick
  <2>1. TypeOK' /\ clock' >= clock
    BY <1>1 DEF Tick, TypeOK
  <2>2. Alone' /\ StampsAreLate'
    BY <1>1 DEF Tick, Alone, StampsAreLate, TypeOK
  <2> QED
    BY <1>1, <2>1, <2>2, FeedFrame DEF Tick
<1>2. ASSUME NEW w \in Writers, NEW targets \in SUBSET Events, WriterBegin(w, targets)
      PROVE  FeedInv'
  <2>1. TypeOK'
    BY <1>2 DEF WriterBegin, TypeOK, Writing
  <2>2. Alone' /\ StampsAreLate'
    BY <1>2 DEF WriterBegin, Alone, StampsAreLate, TypeOK, Writing
  <2> QED
    BY <1>2, <2>1, <2>2, FeedFrame DEF WriterBegin, TypeOK
<1>3. ASSUME NEW w \in Writers, WriterSample(w)
      PROVE  FeedInv'
  <2>1. TypeOK'
    BY <1>3 DEF WriterSample, TypeOK, Writing
  <2>2. Alone' /\ StampsAreLate'
    BY <1>3 DEF WriterSample, Alone, StampsAreLate, PastOnly, TypeOK, Writing
  <2> QED
    BY <1>3, <2>1, <2>2, FeedFrame DEF WriterSample, TypeOK
<1>4. ASSUME NEW w \in Writers, WriterRollback(w)
      PROVE  FeedInv'
  <2>1. TypeOK'
    BY <1>4 DEF WriterRollback, TypeOK, NoWriter, Writing
  <2>2. Alone' /\ StampsAreLate'
    BY <1>4 DEF WriterRollback, Alone, StampsAreLate, TypeOK, NoWriter, Writing
  <2> QED
    BY <1>4, <2>1, <2>2, FeedFrame DEF WriterRollback, TypeOK
<1>5. ASSUME NEW w \in Writers, WriterCommit(w) \/ WriterRemove(w)
      PROVE  FeedInv'
  <2>1. writer[w].phase = "open" /\ UNCHANGED <<clock, request, cursor, start, told>>
    BY <1>5 DEF WriterCommit, WriterRemove
  <2>2. writer[w].targets \subseteq Events /\ writer[w].now \in Nat
    BY DEF TypeOK
  <2>3. TypeOK'
    <3>1. changedAt' \in [Events -> Nat]
      <4>1. CASE WriterCommit(w)
        BY <2>2, <4>1 DEF WriterCommit, TypeOK
      <4>2. CASE WriterRemove(w)
        BY <4>2 DEF WriterRemove, TypeOK, Never
      <4> QED
        BY <1>5, <4>1, <4>2
    <3>2. writer' = [writer EXCEPT ![w] = NoWriter] /\ lock' = lock \ {w}
      BY <1>5 DEF WriterCommit, WriterRemove
    <3> QED
      BY <2>1, <3>1, <3>2 DEF TypeOK, NoWriter, Writing
  <2>4. Alone' /\ StampsAreLate'
    BY <1>5 DEF WriterCommit, WriterRemove, Alone, StampsAreLate, TypeOK, NoWriter, Writing
  <2>5. \A r \in Requests : request[r].phase = "idle"
    BY <2>1 DEF Alone
  <2>6. WindowsAreCurrent' /\ ToldIsPast'
    BY <2>1, <2>5 DEF WindowsAreCurrent, ToldIsPast
  <2>7. \A e \in Events : changedAt'[e] \in {changedAt[e], Never, writer[w].now}
    BY <1>5 DEF WriterCommit, WriterRemove
  <2>8. PastOnly'
    BY <2>1, <2>7 DEF PastOnly, StampsAreLate, TypeOK, Never
  <2>9. NothingMissed'
    <3> SUFFICES ASSUME NEW sc \in Scopes, NEW e \in Matching[sc], changedAt'[e] # Never,
                        start[sc] <= changedAt'[e], changedAt'[e] < cursor[sc]
                 PROVE  <<e, changedAt'[e]>> \in told[sc]
      BY <2>1 DEF NothingMissed
    <3>1. e \in Events
      OBVIOUS
    <3>2. changedAt'[e] # writer[w].now
      BY <2>1, <2>2 DEF StampsAreLate, TypeOK
    <3> QED
      BY <2>7, <3>1, <3>2 DEF NothingMissed
  <2> QED
    BY <2>3, <2>4, <2>6, <2>8, <2>9
<1>6. ASSUME NEW r \in Requests, NEW sc \in Scopes, BriefingBegin(r, sc)
      PROVE  FeedInv'
  <2>1. TypeOK'
    BY <1>6 DEF BriefingBegin, TypeOK, Request
  <2>2. Alone' /\ StampsAreLate'
    BY <1>6 DEF BriefingBegin, Alone, StampsAreLate, TypeOK, Request
  <2>3. PastOnly' /\ ToldIsPast' /\ NothingMissed'
    BY <1>6 DEF BriefingBegin, PastOnly, ToldIsPast, NothingMissed
  <2>4. WindowsAreCurrent'
    <3>1. \A x \in Requests : x # r => request[x].phase = "idle" /\ request'[x] = request[x]
      BY <1>6 DEF BriefingBegin, Alone
    <3>2. request'[r].phase = "locked" /\ request'[r].scope = sc
      BY <1>6 DEF BriefingBegin, Request, TypeOK
    <3> QED
      BY <3>1, <3>2 DEF WindowsAreCurrent
  <2> QED
    BY <2>1, <2>2, <2>3, <2>4
<1>7. ASSUME NEW r \in Requests, BriefingSample(r) \/ BriefingCount(r) \/ BriefingStream(r)
      PROVE  FeedInv'
  <2> DEFINE sc == request[r].scope
  <2>1. /\ request[r].phase # "idle" /\ sc \in Scopes
        /\ UNCHANGED <<clock, lock, changedAt, writer, cursor, start, told>>
        /\ request'[r].phase # "idle" /\ request'[r].scope = sc
        /\ \A x \in Requests : x # r => request[x].phase = "idle" /\ request'[x] = request[x]
    BY <1>7 DEF BriefingSample, BriefingCount, BriefingStream, WindowsAreCurrent, Alone, Request, TypeOK
  <2>2. Selected(r) \in SUBSET (Events \X Nat) /\ Cardinality(Selected(r)) \in Nat
    BY <2>1, SelectedType
  <2>3. TypeOK'
    <3> DEFINE RequestType ==
          [phase : {"idle", "locked", "open", "counted", "streamed"}, scope : Scopes \cup {"none"},
           since : Int, until : Nat, total : Nat, items : SUBSET (Events \X Nat)]
    <3>1. request[r] \in RequestType /\ clock \in Nat /\ Since(sc, clock) \in Int
      BY <2>1 DEF TypeOK, Since
    <3>2. CASE BriefingSample(r)
      BY <3>1, <3>2, <2>1 DEF BriefingSample, TypeOK, Request
    <3>3. CASE BriefingCount(r)
      BY <3>1, <3>3, <2>1, <2>2 DEF BriefingCount, TypeOK, Request
    <3>4. CASE BriefingStream(r)
      BY <3>1, <3>4, <2>1, <2>2 DEF BriefingStream, TypeOK, Request
    <3> QED
      BY <1>7, <3>2, <3>3, <3>4
  <2>4. Alone' /\ StampsAreLate' /\ PastOnly' /\ ToldIsPast' /\ NothingMissed'
    BY <2>1 DEF Alone, StampsAreLate, PastOnly, ToldIsPast, NothingMissed
  <2>5. CASE BriefingSample(r)
    <3>1. request'[r] = Request("open", sc, Since(sc, clock), clock, 0, {}) /\ Since(sc, clock) < clock
      BY <2>5 DEF BriefingSample, TypeOK
    <3>2. cursor[sc] < clock
      BY <2>1, <3>1 DEF Since, PastOnly, TypeOK, Never
    <3>3. Since(sc, clock)' = Since(sc, clock)
      BY <2>1 DEF Since
    <3>4. WindowsAreCurrent'
      BY <2>1, <3>1, <3>2, <3>3 DEF WindowsAreCurrent, Request, Since, TypeOK
    <3> QED
      BY <2>3, <2>4, <3>4
  <2>6. CASE BriefingCount(r) \/ BriefingStream(r)
    <3>1. /\ request'[r].since = request[r].since /\ request'[r].until = request[r].until
          /\ request[r].phase \in {"open", "counted"}
          /\ \/ request'[r].phase = "counted" /\ request'[r].total = Cardinality(Selected(r))
             \/ /\ request'[r].phase = "streamed" /\ request[r].phase = "counted"
                /\ request'[r].items = Selected(r) /\ request'[r].total = request[r].total
      BY <2>6 DEF BriefingCount, BriefingStream, Request, TypeOK
    <3>2. Selected(r)' = Selected(r) /\ Since(sc, request[r].until)' = Since(sc, request[r].until)
      BY <2>1, <3>1 DEF Selected, InWindow, Since
    <3>3. WindowsAreCurrent'
      BY <2>1, <3>1, <3>2 DEF WindowsAreCurrent, Since
    <3> QED
      BY <2>3, <2>4, <3>3
  <2> QED
    BY <1>7, <2>5, <2>6
<1>8. ASSUME NEW r \in Requests, BriefingSave(r)
      PROVE  FeedInv'
  <2> DEFINE sc == request[r].scope
  <2>1. /\ request[r].phase = "streamed" /\ sc \in Scopes
        /\ request[r].items = Selected(r) /\ request[r].since = Since(sc, request[r].until)
        /\ cursor[sc] < request[r].until /\ request[r].until <= clock
        /\ request[r].since < request[r].until
        /\ request[r].until \in Nat /\ request[r].since \in Int
        /\ request[r].items \in SUBSET (Events \X Nat)
    BY <1>8 DEF BriefingSave, WindowsAreCurrent, TypeOK
  <2>2. /\ cursor' = [cursor EXCEPT ![sc] = request[r].until]
        /\ start' = [start EXCEPT ![sc] = IF cursor[sc] = Never THEN request[r].since ELSE @]
        /\ told' = [told EXCEPT ![sc] = @ \cup request[r].items]
        /\ request' = [request EXCEPT ![r] = NoRequest]
        /\ lock' = lock \ {r}
        /\ UNCHANGED <<clock, changedAt, writer>>
    BY <1>8 DEF BriefingSave
  <2>3. \A w \in Writers : writer[w].phase = "idle"
    BY <2>1 DEF Alone
  <2>4. TypeOK'
    BY <2>1, <2>2 DEF TypeOK, NoRequest, Request
  <2>5. Alone' /\ StampsAreLate' /\ PastOnly'
    BY <2>1, <2>2, <2>3 DEF Alone, StampsAreLate, PastOnly, TypeOK, NoRequest, Request
  <2>6. WindowsAreCurrent'
    <3>1. \A x \in Requests : request'[x].phase = "idle"
      BY <2>1, <2>2 DEF Alone, TypeOK, NoRequest, Request
    <3> QED
      BY <3>1 DEF WindowsAreCurrent
  <2>7. \A p \in request[r].items : p[2] < request[r].until
    BY <2>1 DEF Selected, InWindow
  <2>8. ToldIsPast'
    <3> SUFFICES ASSUME NEW x \in Scopes, NEW p \in told'[x] PROVE p[2] < cursor'[x]
      BY DEF ToldIsPast
    <3>1. CASE x # sc
      BY <2>2, <3>1 DEF ToldIsPast, TypeOK
    <3>2. CASE x = sc
      <4>1. told[sc] \in SUBSET (Events \X Nat) /\ cursor[sc] \in Nat
        BY <2>1 DEF TypeOK
      <4>2. CASE p \in told[sc]
        <5>1. p[2] < cursor[sc] /\ p[2] \in Nat
          BY <2>1, <4>1, <4>2 DEF ToldIsPast
        <5> QED
          BY <2>1, <2>2, <3>2, <4>1, <5>1 DEF TypeOK
      <4>3. CASE p \in request[r].items
        BY <2>1, <2>2, <2>7, <3>2, <4>3 DEF TypeOK
      <4> QED
        BY <2>1, <2>2, <3>2, <4>2, <4>3 DEF TypeOK
    <3> QED
      BY <3>1, <3>2
  <2>9. NothingMissed'
    <3> SUFFICES ASSUME NEW x \in Scopes, NEW e \in Matching[x], changedAt[e] # Never,
                        start'[x] <= changedAt[e], changedAt[e] < cursor'[x]
                 PROVE  <<e, changedAt[e]>> \in told'[x]
      BY <2>2 DEF NothingMissed
    <3>0. changedAt[e] \in Nat
      BY DEF TypeOK
    <3>1. CASE x # sc
      BY <2>2, <3>1 DEF NothingMissed, TypeOK
    <3>2. CASE x = sc
      <4>1. changedAt[e] < request[r].until
        BY <2>1, <2>2, <3>2 DEF TypeOK
      <4>2. CASE request[r].since <= changedAt[e]
        <5>1. <<e, changedAt[e]>> \in Selected(r)
          BY <3>2, <4>1, <4>2 DEF Selected, InWindow
        <5> QED
          BY <2>1, <2>2, <3>2, <5>1 DEF TypeOK
      <4>3. CASE ~(request[r].since <= changedAt[e])
        <5>1. cursor[sc] # Never
          BY <2>1, <2>2, <3>0, <3>2, <4>3 DEF TypeOK
        <5>2. changedAt[e] < cursor[sc] /\ start[sc] <= changedAt[e]
          BY <2>1, <2>2, <3>0, <3>2, <4>3, <5>1 DEF Since, TypeOK
        <5> QED
          BY <2>1, <2>2, <3>2, <5>2 DEF NothingMissed, TypeOK
      <4> QED
        BY <4>2, <4>3
    <3> QED
      BY <3>1, <3>2
  <2> QED
    BY <2>4, <2>5, <2>6, <2>8, <2>9
<1>9. ASSUME NEW r \in Requests, BriefingRollback(r)
      PROVE  FeedInv'
  <2>1. TypeOK'
    BY <1>9 DEF BriefingRollback, TypeOK, NoRequest, Request
  <2>2. Alone' /\ StampsAreLate'
    BY <1>9 DEF BriefingRollback, Alone, StampsAreLate, TypeOK, NoRequest, Request
  <2>3. \A x \in Requests : request'[x] = request[x] \/ request'[x].phase = "idle"
    BY <1>9 DEF BriefingRollback, TypeOK, NoRequest, Request
  <2> QED
    BY <1>9, <2>1, <2>2, <2>3, FeedFrame DEF BriefingRollback, TypeOK
<1>10. CASE UNCHANGED vars
  BY <1>10, FeedFrame DEF vars, TypeOK, Alone, StampsAreLate
<1> QED
  BY <1>1, <1>2, <1>3, <1>4, <1>5, <1>6, <1>7, <1>8, <1>9, <1>10 DEF Next, WriterStep, RequestStep

(***************************************************************************)
(* The theorems.                                                           *)
(***************************************************************************)
LEMMA FeedInvariant == Spec => []FeedInv
BY InitInv, InvStep, PTL DEF Spec

(* Every variable keeps its type.                                          *)
THEOREM TypeCorrect == Spec => []TypeOK
BY FeedInvariant, PTL DEF FeedInv

(* No present change older than a scope's cursor is missing from what its  *)
(* briefings reported (api.py:520-527).                                    *)
THEOREM NoChangeIsMissed == Spec => []NothingMissed
BY FeedInvariant, PTL DEF FeedInv

(* The count and the stream of a briefing always agree at the time of the  *)
(* comparison of api.py:544.                                               *)
THEOREM CountAndStreamAgree == Spec => []CountsAgree
<1>1. FeedInv => CountsAgree
  BY DEF FeedInv, WindowsAreCurrent, CountsAgree, CountMatches
<1> QED
  BY <1>1, FeedInvariant, PTL

(* No change is reported twice to a scope: a saved window holds only what  *)
(* lies at or after the cursor, and everything told lies before it.        *)
LEMMA SavesTellNew == FeedInv => TellsNew
<1> SUFFICES ASSUME FeedInv, NEW r \in Requests, request[r].phase = "streamed",
                    NEW p \in request[r].items, p \in told[request[r].scope]
             PROVE  FALSE
  BY DEF TellsNew
<1> DEFINE sc == request[r].scope
<1>1. /\ sc \in Scopes /\ request[r].items = Selected(r)
      /\ request[r].since = Since(sc, request[r].until)
      /\ told[sc] \in SUBSET (Events \X Nat) /\ cursor[sc] \in Nat
  BY DEF FeedInv, WindowsAreCurrent, TypeOK
<1>2. p[2] < cursor[sc] /\ p[2] \in Nat
  BY <1>1 DEF FeedInv, ToldIsPast
<1>3. request[r].since <= p[2]
  BY <1>1 DEF Selected, InWindow
<1>4. request[r].since = cursor[sc]
  BY <1>1, <1>2 DEF Since, Never
<1> QED
  BY <1>1, <1>2, <1>3, <1>4

(* The windows of a scope follow each other without gap or overlap: only a *)
(* save moves the cursor, to the end of the window that began there.       *)
LEMMA SavesFollow == FeedInv /\ Next => WindowFollows
<1> SUFFICES ASSUME FeedInv, Next, NEW sc \in Scopes, cursor'[sc] # cursor[sc]
             PROVE  /\ cursor'[sc] > cursor[sc]
                    /\ \E r \in Requests :
                         /\ request[r].scope = sc /\ request[r].until = cursor'[sc]
                         /\ cursor[sc] # Never => request[r].since = cursor[sc]
  BY DEF WindowFollows
<1>1. PICK r \in Requests : BriefingSave(r)
  BY DEF Next, Tick, WriterStep, RequestStep, WriterBegin, WriterSample, WriterCommit, WriterRemove,
     WriterRollback, BriefingBegin, BriefingSample, BriefingCount, BriefingStream, BriefingRollback
<1>2. /\ request[r].phase = "streamed"
      /\ cursor' = [cursor EXCEPT ![request[r].scope] = request[r].until]
  BY <1>1 DEF BriefingSave
<1>3. request[r].scope = sc /\ cursor'[sc] = request[r].until
  BY <1>2 DEF FeedInv, TypeOK
<1>4. /\ cursor[sc] < request[r].until /\ cursor[sc] \in Nat /\ request[r].until \in Nat
      /\ request[r].since = Since(sc, request[r].until)
  BY <1>2, <1>3 DEF FeedInv, WindowsAreCurrent, TypeOK
<1> QED
  BY <1>3, <1>4 DEF Since

(* Over any number of briefings a change is told once to a scope.          *)
THEOREM ChangesAreToldOnce == Spec => EachToldOnce
<1>1. FeedInv /\ [Next]_vars => [TellsNew /\ WindowFollows]_vars
  BY SavesTellNew, SavesFollow
<1> QED
  BY <1>1, FeedInvariant, PTL DEF Spec, EachToldOnce

(* The endpoint implements the atomic feed of ChangeFeed: a save is the    *)
(* Brief of its scope, a commit or a retention run a Change, every other   *)
(* step stutters.                                                          *)
THEOREM BriefingsRefineChangeFeed == Spec => RefinesChangeFeed
<1>1. Init => Feed!Init
  BY DEF Init, Feed!Init, Never, Feed!Never
<1>2. FeedInv /\ [Next]_vars => [Feed!Next]_(Feed!vars)
  <2> SUFFICES ASSUME FeedInv, [Next]_vars PROVE [Feed!Next]_(Feed!vars)
    OBVIOUS
  <2>1. ASSUME NEW w \in Writers, WriterCommit(w) \/ WriterRemove(w)
        PROVE  Feed!Change
    <3>1. /\ writer[w].phase = "open" /\ UNCHANGED <<cursor, start, told>>
          /\ \A e \in Events : changedAt'[e] \in {changedAt[e], Never, writer[w].now}
      BY <2>1 DEF WriterCommit, WriterRemove
    <3>2. \A sc \in Scopes : cursor[sc] <= writer[w].now
      BY <3>1 DEF FeedInv, StampsAreLate
    <3> QED
      BY <3>1, <3>2 DEF Feed!Change, Never, Feed!Never
  <2>2. ASSUME NEW r \in Requests, BriefingSave(r)
        PROVE  Feed!Brief(request[r].scope)
    <3> DEFINE sc == request[r].scope
    <3>1. /\ request[r].phase = "streamed"
          /\ cursor' = [cursor EXCEPT ![sc] = request[r].until]
          /\ start' = [start EXCEPT ![sc] = IF cursor[sc] = Never THEN request[r].since ELSE @]
          /\ told' = [told EXCEPT ![sc] = @ \cup request[r].items]
          /\ UNCHANGED changedAt
      BY <2>2 DEF BriefingSave
    <3>2. /\ sc \in Scopes /\ request[r].items = Selected(r)
          /\ request[r].since = Since(sc, request[r].until)
          /\ request[r].since < request[r].until /\ cursor[sc] < request[r].until
      BY <3>1 DEF FeedInv, WindowsAreCurrent
    <3>3. cursor'[sc] = request[r].until /\ start'[sc] = IF cursor[sc] = Never THEN request[r].since ELSE start[sc]
      BY <3>1, <3>2 DEF FeedInv, TypeOK
    <3>4. \A x \in Scopes \ {sc} : cursor'[x] = cursor[x] /\ start'[x] = start[x]
      BY <3>1, <3>2 DEF FeedInv, TypeOK
    <3>5. (IF cursor[sc] = Feed!Never THEN start'[sc] ELSE cursor[sc]) = request[r].since
      BY <3>2, <3>3 DEF Since, Never, Feed!Never
    <3>6. Feed!Present(sc, request[r].since, request[r].until) = Selected(r)
      BY DEF Feed!Present, Selected, InWindow, Never, Feed!Never
    <3> QED
      BY <3>1, <3>2, <3>3, <3>4, <3>5, <3>6 DEF Feed!Brief, Never, Feed!Never
  <2>3. ASSUME UNCHANGED <<changedAt, cursor, start, told>>
        PROVE  UNCHANGED Feed!vars
    BY <2>3 DEF Feed!vars
  <2>4. ASSUME NEW r \in Requests, BriefingSave(r)
        PROVE  Feed!Next
    BY <2>2, <2>4 DEF Feed!Next, BriefingSave, FeedInv, WindowsAreCurrent
  <2> QED
    BY <2>1, <2>3, <2>4 DEF Next, vars, Tick, WriterStep, RequestStep, WriterBegin, WriterSample,
       WriterRollback, BriefingBegin, BriefingSample, BriefingCount, BriefingStream, BriefingRollback, Feed!Next
<1> QED
  BY <1>1, <1>2, FeedInvariant, PTL DEF Spec, RefinesChangeFeed, Feed!Spec
==============================================================================
