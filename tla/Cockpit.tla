------------------------------- MODULE Cockpit -------------------------------
(***************************************************************************)
(* The local cockpit (components/Monitor.tsx): what one page shows while   *)
(* answers of the API arrive after the filters or the selection they       *)
(* belong to were replaced.  A call is a request of the page, through the  *)
(* proxy, until its answer or its failure arrives; the server reads its    *)
(* data some time in between.  Effects run after the screen they belong to *)
(* was rendered (React), as a step of their own.  BriefingPanel has the    *)
(* calls for briefings, which share nothing with these.                    *)
(***************************************************************************)
EXTENDS Naturals

CONSTANTS
  Events,       \* events of the database
  Filters,      \* filters of the view, by their serialized form (params)
  DEFAULT_QUERY,
  Match,        \* Match[p]: the events that filters p let through
  MaxChanges, MaxEdits  \* bounds of the model

NoOne == "none"

ASSUME CockpitAssumption ==
  /\ NoOne \notin Events /\ NoOne \notin Filters
  /\ DEFAULT_QUERY \in Filters /\ Match \in [Filters -> SUBSET Events]
  /\ MaxChanges \in Nat /\ MaxEdits \in Nat

(* A call: what it asks for, of what, the generation it was sent in, and   *)
(* the answer on its way, if any: when each event it has last changed.     *)
Unread == [read |-> FALSE, last |-> [e \in {} |-> 0]]
Call(kind, arg, gen, answer) == [kind |-> kind, arg |-> arg, gen |-> gen, answer |-> answer]

VARIABLES
  now, last_changed_at, \* the database: the time, and when each event last changed
  params, selectedId,
  eventState, detailState,      \* the list and the evidence read last
  errors,               \* of "events" and "detail"
  loading,              \* of "events", "detail" and "query"
  due,                  \* the effects whose dependencies changed since they ran
  filterGeneration,
  chosen,               \* the filters set by hand since the last question was sent
  calls                 \* those whose answers the page waits for

databaseVars == <<now, last_changed_at>>
viewVars == <<params, selectedId, filterGeneration, chosen>>
readVars == <<eventState, detailState>>
cockpitVars == <<databaseVars, viewVars, readVars, errors, loading, due, calls>>

Nothing == [key |-> NoOne, last |-> Unread.last]

(* The page was rendered first, and its effects have run.                  *)
CockpitInit ==
  /\ now = 0 /\ last_changed_at = [e \in Events |-> 0]
  /\ params = DEFAULT_QUERY /\ selectedId = NoOne
  /\ eventState = Nothing /\ detailState = Nothing
  /\ errors = {} /\ loading = {"events"} /\ due = {}
  /\ filterGeneration = 0 /\ chosen = NoOne
  /\ calls = {Call("events", DEFAULT_QUERY, 0, Unread)}

(* selectedRevision: of the list read last, whatever filters it belongs to.*)
Undefined == MaxChanges + 1
Revision(list, id) == IF id \in DOMAIN list.last THEN list.last[id] ELSE Undefined

(* Faulty variants: a call replaced is still listened to; the evidence does*)
(* not depend on the revision, nor the list on the filters; the answer to a*)
(* question is applied whatever the user did since.                        *)
StillListening(kinds) == {}
RevisionIgnored(list, id) == {}
ParamsIgnored(p) == {}
AppliesAlways(c, p) == p # NoOne

Of(kinds) == {c \in calls : c.kind \in kinds}

(* The controllers of replaced calls are aborted; their answers are ignored*)
Aborted(kinds) == Of(kinds)

(* The effects that another list, selection or filters make due.           *)
RevisionMoved(list, id) ==
  IF Revision(list, id) = Revision(eventState, selectedId) THEN {} ELSE {"detail"}
ParamsMoved(p) == IF p = params THEN {} ELSE {"events"}

(* the server *************************************************************)
Change(e) ==
  /\ now < MaxChanges /\ now' = now + 1
  /\ last_changed_at' = [last_changed_at EXCEPT ![e] = now']
  /\ UNCHANGED <<viewVars, readVars, errors, loading, due, calls>>

(* /api/events and /api/events/{id}                                        *)
Found(c) == IF c.kind = "events" THEN Match[c.arg] ELSE {c.arg}

Answer(c) == [read |-> TRUE, last |-> [e \in Found(c) |-> last_changed_at[e]]]

Serve(c) ==
  /\ c.kind \in {"events", "detail"} /\ ~c.answer.read
  /\ calls' = (calls \ {c}) \cup {Call(c.kind, c.arg, c.gen, Answer(c))}
  /\ UNCHANGED <<databaseVars, viewVars, readVars, errors, loading, due>>

(* answers ****************************************************************)
End(c) == calls' = calls \ {c} /\ loading' = loading \ {c.kind}

ShowEvents(c) ==
  /\ c.kind = "events" /\ c.answer.read /\ End(c)
  /\ eventState' = [key |-> c.arg, last |-> c.answer.last]
  /\ due' = due \cup RevisionMoved(eventState', selectedId)
  /\ UNCHANGED <<databaseVars, viewVars, detailState, errors>>

ShowDetail(c) ==
  /\ c.kind = "detail" /\ c.answer.read /\ End(c)
  /\ detailState' = [key |-> c.arg, last |-> c.answer.last]
  /\ UNCHANGED <<databaseVars, viewVars, eventState, errors, due>>

(* submitQuestion after its await: the interpretation, or none of it.      *)
Applies(c, p) == p # NoOne /\ c.gen = filterGeneration

ApplyQuestion(c, p) ==
  /\ c.kind = "query" /\ End(c)
  /\ params' = IF Applies(c, p) THEN p ELSE params
  /\ due' = due \cup ParamsMoved(params')
  /\ UNCHANGED <<databaseVars, selectedId, filterGeneration, chosen, readVars, errors>>

(* No answer in 30 seconds, an error of the proxy or the API, or an answer *)
(* that breaks the contract.                                               *)
Fail(c) ==
  /\ End(c)
  /\ errors' = errors \cup ({c.kind} \cap {"events", "detail"})
  /\ eventState' = IF c.kind = "events" THEN Nothing ELSE eventState
  /\ due' = due \cup RevisionMoved(eventState', selectedId)
  /\ UNCHANGED <<databaseVars, viewVars, detailState>>

(* effects ****************************************************************)
Asked ==
  (IF "events" \in due THEN {Call("events", params, 0, Unread)} ELSE {}) \cup
  (IF "detail" \in due /\ selectedId # NoOne THEN {Call("detail", selectedId, 0, Unread)} ELSE {})

RunEffects ==
  /\ due # {} /\ due' = {}
  /\ calls' = (calls \ Aborted(due)) \cup Asked
  /\ loading' = loading \cup {c.kind : c \in Asked}
  /\ errors' = errors \ due
  /\ UNCHANGED <<databaseVars, viewVars, readVars>>

(* the user and the timer *************************************************)
Refresh ==
  /\ due' = due \cup {"events", "detail"} /\ due' # due
  /\ UNCHANGED <<databaseVars, viewVars, readVars, errors, loading, calls>>

Select(e) ==
  /\ selectedId' = e
  /\ due' = due \cup {"detail"} /\ errors' = errors \ {"detail"}
  /\ UNCHANGED <<databaseVars, params, filterGeneration, chosen, readVars, loading, calls>>

RetryDetail ==
  /\ selectedId # NoOne /\ due' = due \cup {"detail"} /\ due' # due
  /\ UNCHANGED <<databaseVars, viewVars, readVars, errors, loading, calls>>

(* updateFilters and resetFilters.                                         *)
SetFilters(p) ==
  /\ filterGeneration < MaxEdits
  /\ filterGeneration' = filterGeneration + 1
  /\ params' = p /\ chosen' = p
  /\ due' = due \cup ParamsMoved(p)
  /\ UNCHANGED <<databaseVars, selectedId, readVars, errors, loading, calls>>

SubmitQuestion ==
  /\ "query" \notin loading
  /\ calls' = (calls \ Aborted({"query"})) \cup {Call("query", NoOne, filterGeneration, Unread)}
  /\ loading' = loading \cup {"query"}
  /\ chosen' = NoOne
  /\ UNCHANGED <<databaseVars, params, selectedId, filterGeneration, readVars, errors, due>>

CockpitNext ==
  \/ \E e \in Events : Change(e) \/ Select(e)
  \/ \E c \in calls : Serve(c) \/ ShowEvents(c) \/ ShowDetail(c) \/ Fail(c)
  \/ \E c \in calls, p \in Filters \cup {NoOne} : ApplyQuestion(c, p)
  \/ \E p \in Filters : SetFilters(p)
  \/ RunEffects \/ Refresh \/ RetryDetail \/ SubmitQuestion

CockpitSpec == CockpitInit /\ [][CockpitNext]_cockpitVars

(* React runs effects, and a call ends after 30 seconds at the latest.     *)
Ends(kind) ==
  \E c \in Of({kind}), p \in Filters \cup {NoOne} :
    ShowEvents(c) \/ ShowDetail(c) \/ ApplyQuestion(c, p) \/ Fail(c)

CockpitFairness ==
  /\ WF_cockpitVars(RunEffects)
  /\ \A kind \in {"events", "detail", "query"} : WF_cockpitVars(Ends(kind))

(* properties *************************************************************)
(* What the page shows never gives way to an older reading of the same:    *)
(* the list of the same filters, the evidence of the same event, in        *)
(* whatever order their answers arrive (Monitor.tsx:67-75, 102-115).       *)
Newer(reading, old) ==
  reading.key = old.key => \A e \in DOMAIN old.last : reading.last[e] >= old.last[e]
ReadingsNeverGoBack ==
  [][Newer(eventState', eventState) /\ Newer(detailState', detailState)]_cockpitVars

(* Evidence that is neither being read nor marked as failed is that of the *)
(* selected event, and no older than its row in the list beside it, which  *)
(* is read by another call at another time (selectedRevision, :58, :115).  *)
EvidenceKeepsUp ==
  selectedId # NoOne /\ due = {} /\ Of({"detail"}) = {} /\ "detail" \notin errors =>
    /\ detailState.key = selectedId
    /\ selectedId \in DOMAIN eventState.last =>
         detailState.last[selectedId] >= eventState.last[selectedId]

(* "Zachowano filtry zmienione recznie po wyslaniu pytania"                *)
(* (Monitor.tsx:166): the answer to a question does not replace filters    *)
(* that were set by hand while it was on its way.                          *)
ManualFiltersStay == chosen # NoOne => params = chosen

(* Once the page is left alone, it settles: nothing is loading, and list   *)
(* and evidence are those of the filters and the selection, or an error    *)
(* says that they could not be read.                                       *)
Settled ==
  /\ loading = {}
  /\ eventState.key = params \/ "events" \in errors
  /\ selectedId # NoOne => detailState.key = selectedId \/ "detail" \in errors
Used == Refresh \/ RetryDetail \/ SubmitQuestion \/ \E e \in Events : Select(e)
ScreenSettles == <>[][~Used]_cockpitVars => <>[]Settled
=============================================================================
