------------------------------ MODULE Identity ------------------------------
(***************************************************************************)
(* Which provider records make up an event, and what the event shows:      *)
(* _record and rebuild_event, which persist_batch runs for each record in  *)
(* a savepoint, expire_advisories, apply_retention and split_source.  All  *)
(* of them hold advisory lock 61704001 until their commit, so each is one  *)
(* step here; a rejected record or split leaves no trace.  An observation  *)
(* is named by its payload: its key is (source, record, payload hash) as   *)
(* long as NORMALIZER_VERSION is "1".  The CISA snapshot clock, which      *)
(* overrides the ranks below, and the IMGW current list are left out.      *)
(***************************************************************************)
EXTENDS Integers, FiniteSets

CONSTANTS
  Records,      \* provider_records keys (source_id, provider_record_id)
  Sources, SourceOf,    \* their sources
  Priority,     \* Priority[s]: rebuild_event's order of preference, 0 first
  Owned,        \* Owned[s]: the external ids with the prefix of s
  Splittable,   \* the sources with a prefix in OWNED_PREFIXES
  Cap,          \* the source of CAP alerts, meteoalarm
  Keys,         \* external ids; a record also stands for its own key "record:..."
  Feeds,        \* what the providers may send: sets of payloads, see PayloadType
  NoPayload,
  Keep,         \* the 180 days of apply_retention
  Start, MaxEvents, MaxClock   \* the first time, and bounds of the model

(* ids: external_ids without the glide ones; refs, refKeys: CAP references *)
(* and their keys; rank: _source_rank; ends: valid_to, 0 for none;         *)
(* one before Start arrives as expired; incident: an earthquake, or an     *)
(* incident its source calls over, whose times are before it was last seen;*)
(* knownOnly: a reclassification by USGS.                                  *)
PayloadType ==
  [rec : Records, ids : SUBSET Keys, refs : SUBSET Records, refKeys : SUBSET Keys, rank : Nat,
   withdrawn : BOOLEAN, ends : Nat, incident : BOOLEAN, knownOnly : BOOLEAN]

Payloads == UNION Feeds

ASSUME PayloadAssumption ==
  /\ Payloads \subseteq PayloadType /\ NoPayload \notin Payloads
  /\ \A p \in Payloads : p.refs \cup p.refKeys # {} => SourceOf[p.rec] = Cap
  /\ \A p \in Payloads : p.knownOnly => p.ids \subseteq Owned[SourceOf[p.rec]]
ASSUME SourceAssumption ==
  /\ SourceOf \in [Records -> Sources] /\ Priority \in [Sources -> Nat]
  /\ Owned \in [Sources -> SUBSET Keys] /\ Splittable \subseteq Sources
ASSUME KeyAssumption == Keys \cap Records = {}
ASSUME BoundAssumption ==
  Keep \in Nat /\ Start \in Nat \ {0} /\ MaxEvents \in Nat /\ MaxClock \in Nat

None == 0       \* no event, no observation
EventIds == 1..MaxEvents
AllKeys == Keys \cup Records

VARIABLES
  clock,        \* utcnow() of the containers of one host
  made, live,   \* event ids drawn; rows of events
  view,         \* what an event shows: normal, evidence_version_ids, source_ids
  lastSeen, lastChanged, history,   \* its clocks, and the times of its revisions
  home, latest, seen,   \* provider_records: event_id, latest_observation_id, last_seen_at
  retrieved,    \* observations: retrieved_at, 0 where there is no row
  linked,       \* event_evidence
  keyed,        \* event_external_ids
  override,     \* identity_overrides
  separated,    \* the pairs of records an administrator has split so far
  feed          \* the payloads of this behaviour; never changes

eventVars  == <<made, live, view, lastSeen, lastChanged, history>>
recordVars == <<home, latest, seen, retrieved, linked, keyed, override>>
vars == <<clock, eventVars, recordVars, separated, feed>>

View(shown, rows, over) ==
  [shown |-> shown, versions |-> rows, sources |-> {SourceOf[q.rec] : q \in rows}, closed |-> over]
NoView == [shown |-> NoPayload, versions |-> {}, sources |-> {}, closed |-> FALSE]

Init ==
  /\ clock = Start /\ made = 0 /\ live = {}
  /\ view = [e \in EventIds |-> NoView]
  /\ lastSeen = [e \in EventIds |-> 0]
  /\ lastChanged = [e \in EventIds |-> 0]
  /\ history = [e \in EventIds |-> {}]
  /\ home = [r \in Records |-> None]
  /\ latest = [r \in Records |-> NoPayload]
  /\ seen = [r \in Records |-> 0]
  /\ retrieved = [p \in Payloads |-> 0]
  /\ linked = {}
  /\ keyed = [k \in AllKeys |-> None]
  /\ override = [r \in Records |-> None]
  /\ separated = {}
  /\ feed \in Feeds

Tick ==
  /\ clock < MaxClock
  /\ clock' = clock + 1
  /\ UNCHANGED <<eventVars, recordVars, separated, feed>>

(* Faulty variants of definitions below: only the shown record counts as a *)
(* change; the record's event hides a conflict of its keys; events of one  *)
(* time merge; a known payload comes back; events go by their last change; *)
(* a record's own key stays behind.                                        *)
RebuildShown(e, v, fresh) ==
  LET changed == fresh \/ v.shown # view[e].shown IN
  /\ view' = [view EXCEPT ![e] = IF changed THEN v ELSE @]
  /\ lastChanged' = [lastChanged EXCEPT ![e] = IF changed THEN clock ELSE @]
  /\ history' = [history EXCEPT ![e] = IF changed THEN @ \cup {clock} ELSE @]
TargetsOfRecord(p) ==
  IF home[p.rec] # None THEN {home[p.rec]}
  ELSE {keyed[k] : k \in p.ids \cup p.refKeys} \ {None}
TargetsByTime(p) ==
  LET known == {home[p.rec]} \cup {keyed[k] : k \in p.ids \cup p.refKeys} IN
  (IF known = {None} THEN {e \in live : view[e].shown.rank = p.rank} ELSE known) \ {None}
ReplacesKnown(p) == home[p.rec] = None \/ p.rank >= latest[p.rec].rank
GoneByChange ==
  {e \in live : lastChanged[e] < clock - Keep /\ (view[e].closed \/ view[e].shown.incident)}
OwnsKeyForeign(s, k) == k \in Owned[s]

(* rebuild_event **********************************************************)
Members(e, at) == {r \in Records : at[r] = e}
Rows(e, at, current) == {current[r] : r \in Members(e, at)}

(* No reference cycle: every set of the records has one that refers to     *)
(* none of them.                                                           *)
Acyclic(rows) ==
  \A S \in SUBSET {p.rec : p \in rows} : S # {} => \E p \in rows : p.rec \in S /\ p.refs \cap S = {}

Candidates(rows) == {p \in rows : \A q \in rows : p.rec \notin q.refs}

Beats(p, q, at) ==
  LET P(x) == Priority[SourceOf[x.rec]] IN
  \/ P(p) < P(q)
  \/ P(p) = P(q) /\ p.rank > q.rank
  \/ P(p) = P(q) /\ p.rank = q.rank /\ p.withdrawn /\ ~q.withdrawn
  \/ P(p) = P(q) /\ p.rank = q.rank /\ p.withdrawn = q.withdrawn /\ at[p] > at[q]

Over(p, now) == p.withdrawn \/ (p.ends # 0 /\ p.ends <= now)

(* Rows that tie are in the order of a SELECT without ORDER BY: any of     *)
(* them may be the first.                                                  *)
Views(rows, at) ==
  LET best == {p \in Candidates(rows) : \A q \in Candidates(rows) : ~Beats(q, p, at)} IN
  {View(p, rows, Over(p, clock)) : p \in best}

(* The event row and its revision, written only when something differs.    *)
Rebuild(e, v, fresh) ==
  LET changed == fresh \/ v # view[e] IN
  /\ view' = [view EXCEPT ![e] = v]
  /\ lastChanged' = [lastChanged EXCEPT ![e] = IF changed THEN clock ELSE @]
  /\ history' = [history EXCEPT ![e] = IF changed THEN @ \cup {clock} ELSE @]

(* _record ****************************************************************)
KeysOf(p) == p.ids \cup p.refKeys \cup {p.rec}

(* The events the identity rules point to: the administrator's decision,   *)
(* else the record itself and every hard key of the payload.               *)
Targets(p) ==
  IF override[p.rec] # None THEN {override[p.rec]}
  ELSE ({home[p.rec]} \cup {keyed[k] : k \in KeysOf(p)}) \ {None}

(* A CAP identifier that comes back under another sender.                  *)
OtherSender(p) ==
  /\ SourceOf[p.rec] = Cap /\ home[p.rec] # None
  /\ LET old == latest[p.rec].ids \cap Owned[Cap]
         new == p.ids \cap Owned[Cap]
     IN old # {} /\ new # {} /\ old \cap new = {}

(* Only a rank that is not lower replaces the current observation, and a   *)
(* historical payload that is sent again never does.                       *)
Replaces(p) ==
  LET q == latest[p.rec] IN
  home[p.rec] = None \/ (p.rank >= q.rank /\ (retrieved[p] = 0 \/ p = q))

Ingest(p, e) ==
  LET r == p.rec
      fresh == Targets(p) = {}
      newHome == [home EXCEPT ![r] = e]
      newLatest == [latest EXCEPT ![r] = IF Replaces(p) THEN p ELSE @]
      at == [retrieved EXCEPT ![p] = IF @ = 0 THEN clock ELSE @]
      rows == Rows(e, newHome, newLatest)
  IN
  /\ IF fresh THEN e = made + 1 /\ e \in EventIds ELSE Targets(p) = {e}
  /\ home[r] \in {None, e}
  /\ ~OtherSender(p)
  /\ p.knownOnly => ~fresh
  /\ Acyclic(rows)
  /\ \E v \in Views(rows, at) : Rebuild(e, v, fresh)
  /\ made' = IF fresh THEN e ELSE made
  /\ live' = live \cup {e}
  /\ lastSeen' = [lastSeen EXCEPT ![e] = clock]
  /\ home' = newHome /\ latest' = newLatest
  /\ seen' = [seen EXCEPT ![r] = clock]
  /\ retrieved' = at
  /\ linked' = linked \cup {<<e, p>>}
  /\ keyed' = [k \in AllKeys |-> IF k \in KeysOf(p) /\ keyed[k] = None THEN e ELSE keyed[k]]
  /\ UNCHANGED <<clock, override, separated, feed>>

(* expire_advisories ******************************************************)
Due == {e \in live : ~view[e].closed /\ Over(view[e].shown, clock)}

Expire ==
  /\ Due # {}
  /\ view' = [e \in EventIds |->
       IF e \in Due THEN View(view[e].shown, view[e].versions, TRUE) ELSE view[e]]
  /\ lastChanged' = [e \in EventIds |-> IF e \in Due THEN clock ELSE lastChanged[e]]
  /\ history' = [e \in EventIds |-> IF e \in Due THEN history[e] \cup {clock} ELSE history[e]]
  /\ UNCHANGED <<clock, made, live, lastSeen, recordVars, separated, feed>>

(* apply_retention: old revisions, then old events with everything that    *)
(* references them, then observations without evidence.                    *)
Cutoff == clock - Keep
Gone == {e \in live : lastSeen[e] < Cutoff /\ (view[e].closed \/ view[e].shown.incident)}

(* What the cascade of events leaves.                                      *)
KeptKeys == [k \in AllKeys |-> IF keyed[k] \in Gone THEN None ELSE keyed[k]]
KeptRevisions(e) == {t \in history[e] : t >= Cutoff \/ \A u \in history[e] : u <= t}

Retention ==
  LET kept == {l \in linked : l[1] \notin Gone}
      stays(r) == home[r] \notin Gone
      newLatest == [r \in Records |-> IF stays(r) THEN latest[r] ELSE NoPayload]
  IN
  /\ live' = live \ Gone
  /\ view' = [e \in EventIds |-> IF e \in Gone THEN NoView ELSE view[e]]
  /\ lastSeen' = [e \in EventIds |-> IF e \in Gone THEN 0 ELSE lastSeen[e]]
  /\ lastChanged' = [e \in EventIds |-> IF e \in Gone THEN 0 ELSE lastChanged[e]]
  /\ history' = [e \in EventIds |-> IF e \in Gone THEN {} ELSE KeptRevisions(e)]
  /\ home' = [r \in Records |-> IF stays(r) THEN home[r] ELSE None]
  /\ latest' = newLatest
  /\ seen' = [r \in Records |-> IF stays(r) THEN seen[r] ELSE 0]
  /\ override' = [r \in Records |-> IF stays(r) THEN override[r] ELSE None]
  /\ linked' = kept
  /\ keyed' = KeptKeys
  /\ retrieved' = [p \in Payloads |->
       IF /\ retrieved[p] < Cutoff
          /\ \A l \in kept : l[2] # p
          /\ newLatest[p.rec] # p
       THEN 0 ELSE retrieved[p]]
  /\ UNCHANGED <<clock, made, separated, feed>>

(* split_source ***********************************************************)
Moving(e, s) == {r \in Members(e, home) : SourceOf[r] = s}
Group(e, s) == {p \in Payloads : retrieved[p] # 0 /\ p.rec \in Moving(e, s)}

(* _load_plan: the assignments of the moving records are as they should be.*)
CanSplit(e, s) ==
  LET moving == Moving(e, s)
      group == Group(e, s)
      own == moving \cup {k \in Owned[s] : \E p \in group : k \in p.ids}
  IN
  /\ e \in live /\ s \in Splittable
  /\ moving # {} /\ moving # Members(e, home)
  /\ \A p \in group : {x \in EventIds : <<x, p>> \in linked} = {e}
  /\ \A r \in moving : latest[r] \in group
  /\ \A k \in own : keyed[k] = e
  /\ \A r \in Members(e, home) : override[r] \in {None, e}

OwnsKey(s, k) == IF k \in Records THEN SourceOf[k] = s ELSE k \in Owned[s]

Split(e, s) ==
  LET n == made + 1
      moving == Moving(e, s)
      staying == Members(e, home) \ moving
      newHome == [r \in Records |-> IF r \in moving THEN n ELSE home[r]]
  IN
  /\ CanSplit(e, s)
  /\ n \in EventIds
  /\ made' = n /\ live' = live \cup {n}
  /\ \E old \in Views(Rows(e, newHome, latest), retrieved), new \in Views(Rows(n, newHome, latest), retrieved) :
       view' = [view EXCEPT ![e] = old, ![n] = new]
  /\ lastChanged' = [lastChanged EXCEPT ![e] = clock, ![n] = clock]
  /\ history' = [history EXCEPT ![e] = @ \cup {clock}, ![n] = {clock}]
  /\ \E r \in moving : /\ \A x \in moving : seen[x] <= seen[r]
                       /\ lastSeen' = [lastSeen EXCEPT ![n] = seen[r]]
  /\ home' = newHome
  /\ linked' = {l \in linked : l[2] \notin Group(e, s)} \cup ({n} \X Group(e, s))
  /\ keyed' = [k \in AllKeys |-> IF keyed[k] = e /\ OwnsKey(s, k) THEN n ELSE keyed[k]]
  /\ override' = [r \in Records |-> IF r \in Members(e, home) THEN newHome[r] ELSE override[r]]
  /\ separated' = separated \cup {{a, b} : a \in moving, b \in staying}
  /\ UNCHANGED <<clock, latest, seen, retrieved, feed>>

(* specification **********************************************************)
Next ==
  \/ Tick
  \/ \E p \in feed, e \in EventIds : Ingest(p, e)
  \/ Expire
  \/ Retention
  \/ \E e \in EventIds, s \in Sources : Split(e, s)

Spec == Init /\ [][Next]_vars

(* properties *************************************************************)
(* Every stored observation is evidence of exactly one event, the one its  *)
(* record belongs to, through merges, splits and retention: what _load_plan*)
(* otherwise refuses for ever (identity_review.py:115-131).  A record and   *)
(* its own key never point to different events, and a manual decision never*)
(* contradicts the record (ingestion.py:253-256).  No key outlives its     *)
(* event, where the next record with that key would join it.               *)
RecordsAgree ==
  /\ \A k \in AllKeys : keyed[k] \in live \cup {None}
  /\ \A p \in Payloads : retrieved[p] # 0 =>
       home[p.rec] # None /\ {e \in EventIds : <<e, p>> \in linked} = {home[p.rec]}
  /\ \A r \in Records :
       /\ home[r] # None => keyed[r] = home[r]
       /\ override[r] # None => override[r] = home[r]

(* The versions and sources an event names are those of its records now,   *)
(* and it shows one of them that no other supersedes: no operation that    *)
(* moves or replaces records may leave an event behind (ingestion.py:      *)
(* 400-448).  Its newest revision dates from its last change, also after   *)
(* retention has removed older ones (ingestion.py:717-720).                *)
EventsAreCurrent ==
  \A e \in live :
    LET rows == Rows(e, home, latest) IN
    /\ view[e].versions = rows /\ view[e].sources = {SourceOf[r] : r \in Members(e, home)}
    /\ view[e].shown \in rows /\ \A q \in rows : view[e].shown.rec \notin q.refs
    /\ lastChanged[e] \in history[e] /\ \A t \in history[e] : t <= lastChanged[e]

(* Only hard identifiers merge (ARCHITECTURE.md:54): unless a manual       *)
(* decision holds it together, the records of an event cannot be parted    *)
(* into two groups that never had a key in common.                         *)
KeysEver(r) == {r} \cup UNION {KeysOf(p) : p \in {q \in Payloads : q.rec = r /\ retrieved[q] # 0}}

HardTies ==
  \A e \in live : (\A r \in Members(e, home) : override[r] = None) =>
    \A S \in (SUBSET Members(e, home)) \ {{}, Members(e, home)} :
      \E a \in S, b \in Members(e, home) \ S : KeysEver(a) \cap KeysEver(b) # {}

(* Conflicting identifiers are refused (ingestion.py:257-258): every key a  *)
(* record has ever named belongs to the event of the record, through later *)
(* records, retention and partial evidence, unless a manual decision places*)
(* the record.                                                             *)
KeysAgree ==
  \A p \in Payloads : retrieved[p] # 0 /\ override[p.rec] = None =>
    \A k \in KeysOf(p) : keyed[k] = home[p.rec]

(* A record that was read since the cutoff is not forgotten, although      *)
(* retention looks only at the clocks of its event (ingestion.py:721-726). *)
OnlyStaleForgotten ==
  [][\A r \in Records : home[r] # None /\ home'[r] = None => seen[r] < Cutoff]_vars

(* ARCHITECTURE.md:33: a late, older episode does not replace the current  *)
(* material by its time of retrieval, nor does a historical payload come   *)
(* back (ingestion.py:305-311).                                            *)
NeverBackwards ==
  [][\A r \in Records : home[r] # None /\ home'[r] # None /\ latest'[r] # latest[r] =>
       latest'[r].rank >= latest[r].rank /\ retrieved[latest'[r]] = 0]_vars

(* ARCHITECTURE.md:54: identity_overrides protects the present records of  *)
(* both sides of a split from another automatic merge.                     *)
SplitIsKept ==
  \A pair \in separated : \E a, b \in pair : home[a] # home[b] \/ home[a] = None
=============================================================================
