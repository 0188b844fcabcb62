------------------------------ MODULE Briefings ------------------------------
(***************************************************************************)
(* POST /api/briefings against the writers of `events`.  A writer          *)
(* (persist_batch, expire_advisories, split_source) takes advisory lock    *)
(* 61704001, samples its `now`, and stamps last_changed_at with it; the    *)
(* change becomes visible at its commit, which returns the lock.  A        *)
(* briefing takes the same lock before it samples `until`, reads its       *)
(* window in several statements of a READ COMMITTED transaction and saves  *)
(* the window as the cursor of its scope.  The country filter is a constant*)
(* relation: a change that makes a row match is stamped like any other.    *)
(* The historical first imports that a briefing reports as a number apart  *)
(* are in neither of its two reads.                                        *)
(***************************************************************************)
EXTENDS Integers, FiniteSets

CONSTANTS
  Events,       \* rows of events
  Scopes,       \* the (country, window_hours) pairs asked for
  Matching,     \* Matching[sc]: the events the country filter of sc lets through
  Window,       \* Window[sc]: window_hours
  Writers,      \* connections of the worker and of the admin CLI
  Requests,     \* connections of the API serving POST /api/briefings
  MaxClock      \* bound of the model

ASSUME ScopeAssumption == Matching \in [Scopes -> SUBSET Events] /\ Window \in [Scopes -> Nat \ {0}]
ASSUME ClockAssumption == MaxClock \in Nat
ASSUME EventsAssumption == IsFiniteSet(Events)
ASSUME ConnectionAssumption == Writers \cap Requests = {}

Never == 0      \* no row, no briefing yet

VARIABLES
  clock,        \* utcnow(), common to the containers of one host
  lock,         \* the connections that hold advisory lock 61704001
  changedAt,    \* events.last_changed_at as committed
  writer,       \* open transactions of writers
  request,      \* open briefing transactions
  cursor,       \* until_at of the latest briefing_runs row of a scope
  start,        \* since_at of its first row
  told          \* <<event, time of change>> pairs its briefings have counted

vars == <<clock, lock, changedAt, writer, request, cursor, start, told>>

Writing(phase, now, targets) == [phase |-> phase, now |-> now, targets |-> targets]
Request(phase, scope, since, until, total, items) ==
  [phase |-> phase, scope |-> scope, since |-> since, until |-> until,
   total |-> total, items |-> items]
NoWriter  == Writing("idle", 0, {})
NoRequest == Request("idle", "none", 0, 0, 0, {})

Init ==
  /\ clock = 1
  /\ lock = {}
  /\ changedAt = [e \in Events |-> Never]
  /\ writer = [w \in Writers |-> NoWriter]
  /\ request = [r \in Requests |-> NoRequest]
  /\ cursor = [sc \in Scopes |-> Never]
  /\ start = [sc \in Scopes |-> Never]
  /\ told = [sc \in Scopes |-> {}]

Tick ==
  /\ clock < MaxClock
  /\ clock' = clock + 1
  /\ UNCHANGED <<lock, changedAt, writer, request, cursor, start, told>>

(* writers ****************************************************************)
(* Faulty variants: the lock not awaited, `now` sampled before it, the     *)
(* cursor of the scope ignored.                                            *)
LockFreeAlways == TRUE
SinceWindow(sc, until) == until - Window[sc]
WriterSampleEarly(w) ==
  /\ writer[w].phase = "locked"
  /\ writer' = [writer EXCEPT ![w] = Writing("open", clock - 1, writer[w].targets)]
  /\ UNCHANGED <<clock, lock, changedAt, request, cursor, start, told>>

(* pg_advisory_xact_lock, then utcnow(), then the rows to be written.      *)
LockFree == lock = {}

WriterBegin(w, targets) ==
  /\ writer[w].phase = "idle"
  /\ LockFree
  /\ lock' = {w}
  /\ writer' = [writer EXCEPT ![w] = Writing("locked", 0, targets)]
  /\ UNCHANGED <<clock, changedAt, request, cursor, start, told>>

WriterSample(w) ==
  /\ writer[w].phase = "locked"
  /\ writer' = [writer EXCEPT ![w] = Writing("open", clock, writer[w].targets)]
  /\ UNCHANGED <<clock, lock, changedAt, request, cursor, start, told>>

WriterCommit(w) ==
  /\ writer[w].phase = "open"
  /\ changedAt' = [e \in Events |-> IF e \in writer[w].targets THEN writer[w].now ELSE changedAt[e]]
  /\ writer' = [writer EXCEPT ![w] = NoWriter]
  /\ lock' = lock \ {w}
  /\ UNCHANGED <<clock, request, cursor, start, told>>

(* apply_retention, under the same lock, removes rows.                     *)
WriterRemove(w) ==
  /\ writer[w].phase = "open"
  /\ changedAt' = [e \in Events |-> IF e \in writer[w].targets THEN Never ELSE changedAt[e]]
  /\ writer' = [writer EXCEPT ![w] = NoWriter]
  /\ lock' = lock \ {w}
  /\ UNCHANGED <<clock, request, cursor, start, told>>

(* LeaseLost, a database error or the death of the process: rollback.      *)
WriterRollback(w) ==
  /\ writer[w].phase # "idle"
  /\ writer' = [writer EXCEPT ![w] = NoWriter]
  /\ lock' = lock \ {w}
  /\ UNCHANGED <<clock, changedAt, request, cursor, start, told>>

(* briefings **************************************************************)
InWindow(r, e) ==
  /\ changedAt[e] # Never
  /\ request[r].since <= changedAt[e] /\ changedAt[e] < request[r].until

Selected(r) ==
  {<<e, changedAt[e]>> : e \in {x \in Matching[request[r].scope] : InWindow(r, x)}}

BriefingBegin(r, sc) ==
  /\ request[r].phase = "idle"
  /\ LockFree
  /\ lock' = {r}
  /\ request' = [request EXCEPT ![r] = Request("locked", sc, 0, 0, 0, {})]
  /\ UNCHANGED <<clock, changedAt, writer, cursor, start, told>>

(* `until` is sampled under the lock; the cursor of the scope is the until *)
(* of its previous briefing, the window before `until` for a first one.    *)
Since(sc, until) == IF cursor[sc] = Never THEN until - Window[sc] ELSE cursor[sc]

BriefingSample(r) ==
  LET sc == request[r].scope IN
  /\ request[r].phase = "locked"
  /\ Since(sc, clock) < clock
  /\ request' = [request EXCEPT ![r] = Request("open", sc, Since(sc, clock), clock, 0, {})]
  /\ UNCHANGED <<clock, lock, changedAt, writer, cursor, start, told>>

(* SELECT count, and in a later statement the stream of the same window.   *)
BriefingCount(r) ==
  /\ request[r].phase = "open"
  /\ request' = [request EXCEPT ![r] =
       Request("counted", @.scope, @.since, @.until, Cardinality(Selected(r)), {})]
  /\ UNCHANGED <<clock, lock, changedAt, writer, cursor, start, told>>

BriefingStream(r) ==
  /\ request[r].phase = "counted"
  /\ request' = [request EXCEPT ![r] =
       Request("streamed", @.scope, @.since, @.until, @.total, Selected(r))]
  /\ UNCHANGED <<clock, lock, changedAt, writer, cursor, start, told>>

CountMatches(r) == Cardinality(request[r].items) = request[r].total

BriefingSave(r) ==
  LET sc == request[r].scope IN
  /\ request[r].phase = "streamed"
  /\ CountMatches(r)
  /\ cursor' = [cursor EXCEPT ![sc] = request[r].until]
  /\ start' = [start EXCEPT ![sc] = IF cursor[sc] = Never THEN request[r].since ELSE @]
  /\ told' = [told EXCEPT ![sc] = @ \cup request[r].items]
  /\ request' = [request EXCEPT ![r] = NoRequest]
  /\ lock' = lock \ {r}
  /\ UNCHANGED <<clock, changedAt, writer>>

(* 409 for a cursor that is not in the past or a count that does not       *)
(* match, a response that does not validate, a lost connection.            *)
BriefingRollback(r) ==
  /\ request[r].phase # "idle"
  /\ request' = [request EXCEPT ![r] = NoRequest]
  /\ lock' = lock \ {r}
  /\ UNCHANGED <<clock, changedAt, writer, cursor, start, told>>

(* specification **********************************************************)
WriterStep(w) ==
  \/ \E targets \in SUBSET Events : WriterBegin(w, targets)
  \/ WriterSample(w) \/ WriterCommit(w) \/ WriterRemove(w) \/ WriterRollback(w)

RequestStep(r) ==
  \/ \E sc \in Scopes : BriefingBegin(r, sc)
  \/ BriefingSample(r) \/ BriefingCount(r) \/ BriefingStream(r)
  \/ BriefingSave(r) \/ BriefingRollback(r)

Next ==
  \/ Tick
  \/ \E w \in Writers : WriterStep(w)
  \/ \E r \in Requests : RequestStep(r)

Spec == Init /\ [][Next]_vars

(* properties *************************************************************)
TypeOK ==
  /\ clock \in Nat \ {0}
  /\ lock \in SUBSET (Writers \cup Requests)
  /\ changedAt \in [Events -> Nat]
  /\ writer \in [Writers -> [phase : {"idle", "locked", "open"}, now : Nat, targets : SUBSET Events]]
  /\ request \in [Requests -> [phase : {"idle", "locked", "open", "counted", "streamed"},
       scope : Scopes \cup {"none"}, since : Int, until : Nat, total : Nat,
       items : SUBSET (Events \X Nat)]]
  /\ cursor \in [Scopes -> Nat]
  /\ start \in [Scopes -> Int]
  /\ told \in [Scopes -> SUBSET (Events \X Nat)]

(* A change that is older than the cursor of a scope, and not superseded   *)
(* by a later change of the same row, has been in a briefing of that scope *)
(* (api.py:520-527): no commit becomes visible behind the cursor.          *)
NothingMissed ==
  \A sc \in Scopes : \A e \in Matching[sc] :
    changedAt[e] # Never /\ start[sc] <= changedAt[e] /\ changedAt[e] < cursor[sc]
      => <<e, changedAt[e]>> \in told[sc]

(* A saved window brings only changes the scope has not been told, and the *)
(* windows of a scope are contiguous.                                      *)
TellsNew ==
  \A r \in Requests : LET sc == request[r].scope IN
    request[r].phase = "streamed" /\ request'[r].phase = "idle" /\ told' # told
      => request[r].items \cap told[sc] = {}
WindowFollows ==
  \A sc \in Scopes : cursor'[sc] # cursor[sc] =>
    /\ cursor'[sc] > cursor[sc]
    /\ \E r \in Requests :
         /\ request[r].scope = sc /\ request[r].until = cursor'[sc]
         /\ cursor[sc] # Never => request[r].since = cursor[sc]

(* No change is reported by two briefings of one scope and none falls      *)
(* between two, also when two requests for it are in flight                *)
(* (api.py:525-537).                                                       *)
EachToldOnce == [][TellsNew /\ WindowFollows]_vars

(* The count and the stream of a briefing are separate statements, each    *)
(* with a snapshot of its own; the lock makes them agree, so the 409 of    *)
(* api.py:544 is never the answer to a mere concurrent write.              *)
CountsAgree == \A r \in Requests : request[r].phase = "streamed" => CountMatches(r)

(* refinement *************************************************************)
Feed == INSTANCE ChangeFeed

RefinesChangeFeed == Feed!Spec
=============================================================================
