------------------------------- MODULE Catalog -------------------------------
(***************************************************************************)
(* The CISA KEV catalog, a document replaced as a whole whose release date *)
(* is its only order: a cache may serve an older release, an undated one,  *)
(* or two contents under one date.  persist_batch guards the catalog by    *)
(* cursor.latest_snapshot_at, _record guards each entry by                 *)
(* provider_records.source_snapshot_at, and a batch may store some entries *)
(* and reject others, to be tried again.                                   *)
(***************************************************************************)
EXTENDS Integers, FiniteSets

CONSTANTS
  Entries,      \* the CVEs
  Versions,     \* their contents
  Rank,         \* Rank[v]: _source_rank of a content
  Absent,       \* no content
  Ahead,        \* the 5 minutes by which a release may be in the future
  MaxToday, MaxRelease   \* bounds of the model

ASSUME EntryAssumption == Absent \notin Versions /\ Rank \in [Versions -> Nat]
ASSUME CatalogBounds == Ahead \in Nat /\ MaxToday \in Nat /\ MaxRelease \in Nat

Undated == 0

VARIABLES
  today,        \* utcnow()
  mark,       \* cursor.latest_snapshot_at
  latest,       \* the content of latest_observation_id
  released,     \* source_snapshot_at
  observed,     \* the observations
  heard         \* the dated contents that were accepted

catalogVars == <<today, mark, latest, released, observed, heard>>

CatalogInit ==
  /\ today = 1 /\ mark = Undated
  /\ latest = [r \in Entries |-> Absent]
  /\ released = [r \in Entries |-> Undated]
  /\ observed = {} /\ heard = {}

Later ==
  /\ today < MaxToday /\ today' = today + 1
  /\ UNCHANGED <<mark, latest, released, observed, heard>>

(* Faulty variant: the rank alone decides.                                 *)
ReplacesByRank(r, v, at) == latest[r] = Absent \/ Rank[v] >= Rank[latest[r]]

(* The catalog has no usable date: persist_batch.                          *)
Invalid(at) == at = Undated \/ at > today + Ahead \/ at < mark

(* An entry that is older than, or differs from, what has its date: _record*)
Conflict(r, v, at) ==
  released[r] # Undated /\ (at < released[r] \/ (at = released[r] /\ v # latest[r]))

(* A newer release makes any content current, also one of the past.        *)
Replaces(r, v, at) ==
  \/ latest[r] = Absent
  \/ at > released[r]
  \/ Rank[v] >= Rank[latest[r]] /\ (v = latest[r] \/ <<r, v>> \notin observed)

(* The later of the two dates, which is `at` where it is usable.           *)
Mark(at, accepted, partial) ==
  IF at # Undated /\ (accepted # {} \/ ~partial) THEN at ELSE mark

(* One reading of the catalog: its date, its entries, whether the parser   *)
(* had a warning; and the entries that are stored.  An undated first       *)
(* catalog is kept, as a partial one.                                      *)
PersistCatalog(date, content, warned, accepted) ==
  LET unusable == Invalid(date)
      at == IF unusable THEN Undated ELSE date
      offered == IF unusable /\ (mark # Undated \/ date # Undated) THEN {}
                 ELSE {r \in Entries : content[r] # Absent}
      partial == unusable \/ warned \/ accepted # offered
      replaced == {r \in accepted : Replaces(r, content[r], at)}
  IN
  /\ accepted \subseteq {r \in offered : ~Conflict(r, content[r], at)}
  /\ latest' = [r \in Entries |-> IF r \in replaced THEN content[r] ELSE latest[r]]
  /\ released' = [r \in Entries |-> IF r \in replaced /\ at # Undated THEN at ELSE released[r]]
  /\ observed' = observed \cup {<<r, content[r]>> : r \in accepted}
  /\ mark' = Mark(at, accepted, partial)
  /\ heard' = heard \cup (IF at = Undated THEN {} ELSE {<<r, at, content[r]>> : r \in accepted})
  /\ UNCHANGED today

CatalogNext ==
  \/ Later
  \/ \E date \in Undated..MaxRelease, content \in [Entries -> Versions \cup {Absent}],
        warned \in BOOLEAN, accepted \in SUBSET Entries : PersistCatalog(date, content, warned, accepted)

CatalogSpec == CatalogInit /\ [][CatalogNext]_catalogVars

(* properties *************************************************************)
CatalogTypeOK ==
  /\ today \in Nat /\ mark \in Nat
  /\ latest \in [Entries -> Versions \cup {Absent}]
  /\ released \in [Entries -> Nat]
  /\ observed \subseteq Entries \X Versions
  /\ heard \subseteq Entries \X Nat \X Versions

(* An entry shows the content of the latest release it was accepted from,  *)
(* although releases arrive late, twice or in part                         *)
(* (ingestion.py:270-277, 305-311, 545-560).                               *)
NewestShown ==
  \A h \in heard :
    (\A g \in heard : g[1] = h[1] => g[2] <= h[2]) => latest[h[1]] = h[3] /\ released[h[1]] = h[2]

(* No entry is from a release later than the high-water mark, which is what*)
(* keeps an older catalog from adding entries that were since withdrawn    *)
(* (ingestion.py:603-607).                                                 *)
MarkCovers == \A r \in Entries : released[r] <= mark

(* Dated material is replaced by material of a later date only             *)
(* (ingestion.py:272-277).                                                 *)
NoRollback ==
  [][\A r \in Entries : released[r] # Undated /\ latest'[r] # latest[r]
       => released'[r] > released[r]]_catalogVars
=============================================================================
