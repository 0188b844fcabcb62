----------------------------- MODULE Providers ------------------------------
(***************************************************************************)
(* What the parsers of five publishers make of a document: the payloads    *)
(* that Identity stores, in the order of persist_batch.  A document is a   *)
(* sequence of items, and an item holds what the readers of common.py      *)
(* return: a time is NoTime when it is absent or unreadable, and the flags *)
(* tell where reading the item raises, which costs this item only.  Texts, *)
(* geometry, countries, severity, tags and warnings are left out, and so is*)
(* a document that is refused as a whole.                                  *)
(***************************************************************************)
EXTENDS Integers, FiniteSets, Sequences, SequencesExt

CONSTANTS
  KeyOf,        \* KeyOf[r]: the external id of a record under its source's prefix
  CapKey,       \* CapKey[s][r]: the one of identifier r under sender s
  Bulletin,     \* Bulletin[<<code, serial, minute>>]: the record of a SWPC bulletin
  MaxTime, MaxEpisode,      \* bounds of times and of GDACS episodes
  MaxRecords,   \* MAX_RECORDS of EONET and of SWPC, 400 each
  MaxRequests,  \* MAX_CAP_REQUESTS of MeteoAlarm
  Skew, Window, \* the 5 minutes and the 30 days of EONET and SWPC
  Failed        \* the answer to a request that was not read or not made

NoTime == 0

FirstKnown(times) ==
  LET known == SelectSeq(times, LAMBDA t : t # NoTime) IN
  IF known = <<>> THEN NoTime ELSE Head(known)
Earliest(times) == IF times \subseteq {NoTime} THEN NoTime ELSE Min(times \ {NoTime})
Latest(times) == Max(times \cup {NoTime})

At(items, indexes) ==   \* the items at these indexes, in order
  LET chosen == SelectSeq([n \in DOMAIN items |-> n], LAMBDA n : n \in indexes) IN
  [n \in DOMAIN chosen |-> items[chosen[n]]]

(* _source_rank as a number: current before time before episode.           *)
RankOf(current, instant, episode) ==
  ((IF current THEN MaxTime + 1 ELSE 0) + instant) * (MaxEpisode + 1) + episode

(* A NormalizedEvent as PayloadType of Identity has it.                    *)
Normalized(rec, ids, rank) ==
  [rec |-> rec, ids |-> ids, refs |-> {}, refKeys |-> {}, rank |-> rank,
   withdrawn |-> FALSE, ends |-> NoTime, incident |-> FALSE, knownOnly |-> FALSE]

(* USGS *******************************************************************)
(* Its ids are only those the feature lists; a feature of another type than*)
(* earthquake only withdraws, after the earthquakes of the same document.  *)
UsgsEvent(f) ==
  LET rank == RankOf(TRUE, FirstKnown(<<f.updated, f.time>>), 0) IN
  [Normalized(f.rec, {KeyOf[f.rec]} \cup f.ids, rank)
     EXCEPT !.incident = f.time # NoTime,
            !.withdrawn = f.reclassified, !.knownOnly = f.reclassified]

UsgsBatch(features) ==
  LET read(late) == SelectSeq(features, LAMBDA f : f.reads /\ f.reclassified = late)
      ordered == read(FALSE) \o read(TRUE)
  IN [n \in DOMAIN ordered |-> UsgsEvent(ordered[n])]

(* GDACS ******************************************************************)
UsgsLinks(item) == {l.key : l \in {l \in item.links : l.page \in {"eventpage", "fdsnws"}}}

SameRevision(i, j) ==
  <<i.rec, i.episode, i.version, i.updated>> = <<j.rec, j.episode, j.version, j.updated>>

(* An end before the start is unknown.  Retention asks for a start, and for*)
(* an end too unless it is an earthquake; a current item stays active.     *)
GdacsEvent(i) ==
  LET instant == FirstKnown(<<i.updated, i.issued, i.start>>) IN
  [Normalized(i.rec, {KeyOf[i.rec]} \cup UsgsLinks(i), RankOf(i.current, instant, i.episode))
     EXCEPT !.incident = /\ i.start # NoTime
                         /\ \/ i.kind = "EQ"
                            \/ ~i.current /\ i.end # NoTime /\ i.end >= i.start]

(* A revision counts as seen before its title is read.  The records are in *)
(* any order, the revisions of each in that of their ranks.                *)
GdacsBatch(items) ==
  LET seen(n) == \E m \in 1 .. n - 1 : items[m].reads /\ SameRevision(items[m], items[n])
      kept == At(items, {n \in DOMAIN items : items[n].reads /\ ~seen(n) /\ items[n].titled})
      events == [n \in DOMAIN kept |-> GdacsEvent(kept[n])]
  IN SortSeq(events, LAMBDA p, q : p.rank < q.rank)

(* EONET ******************************************************************)
TypeOf == [wildfires |-> "WF", volcanoes |-> "VO", severeStorms |-> "TC"]   \* CATEGORIES
Categories(r) == r.categories \cap DOMAIN TypeOf

SourceTime(t, now) == IF t > now + Skew THEN NoTime ELSE t
Dates(r, now) == {SourceTime(t, now) : t \in r.dates} \ {NoTime}

Upstreams(r) ==
  LET joins(s) ==
        \/ s.id = "GDACS" /\ s.page = "report" /\ s.type \in {TypeOf[c] : c \in Categories(r)}
        \/ s.id = "USGS_EHP" /\ s.page = "eventpage"
  IN {s.key : s \in {s \in r.sources : joins(s)}}

(* Samples or a closing within the window, or no known time at all.        *)
Eligible(r, now) ==
  LET newest == Latest(Dates(r, now) \cup {SourceTime(r.closed, now)}) IN
  /\ Categories(r) # {} /\ r.titled /\ r.sampled
  /\ newest = NoTime \/ newest >= now - Window

EonetEvent(r, now) ==
  [Normalized(r.rec, {KeyOf[r.rec]} \cup Upstreams(r), RankOf(TRUE, Earliest(Dates(r, now)), 0))
     EXCEPT !.incident = SourceTime(r.closed, now) # NoTime]

(* Of equal records the first counts, of different ones under one id none. *)
EonetBatch(records, now) ==
  LET taken == SubSeq(records, 1, Min({Len(records), MaxRecords}))
      read == SelectSeq(taken, LAMBDA r : r.reads)
      twins(n) == {m \in DOMAIN read : read[m].rec = read[n].rec}
      kept == At(read, {n \in DOMAIN read :
                /\ \A m \in twins(n) : m >= n /\ read[m] = read[n]
                /\ Eligible(read[n], now)})
  IN [n \in DOMAIN kept |-> EonetEvent(kept[n], now)]

(* SWPC *******************************************************************)
(* from and to: the validity of a forecast, or an observation, whose times *)
(* are unknown when they are after the issue.                              *)
Identifier(b) == Bulletin[<<b.code, b.serial, b.minute>>]
BulletinTime(b, t) == IF ~b.forecast /\ t > b.minute + Skew THEN NoTime ELSE t

(* A reference is to an earlier bulletin of another serial number.         *)
BulletinReads(b, now) ==
  LET from == BulletinTime(b, b.from)
      to == BulletinTime(b, b.to)
  IN /\ b.reads /\ now - Window <= b.minute /\ b.minute <= now + Skew
     /\ NoTime \in {from, to} \/ from < to \/ (from = to /\ ~b.forecast)
     /\ \A ref \in b.references : ref.original < b.minute /\ ref.serial # b.serial

(* An observation whose end is known is over.                              *)
SwpcEvent(b, targets) ==
  [Normalized(Identifier(b), {KeyOf[r] : r \in {Identifier(b)} \cup targets}, RankOf(TRUE, b.minute, 0))
     EXCEPT !.withdrawn = b.cancelled, !.ends = BulletinTime(b, b.to)]

(* Different records of one identity count for none.  A reference that does*)
(* not give the time of its bulletin is to the only earlier one of its     *)
(* serial number; older bulletins come first, serials as numbers here.     *)
SwpcBatch(records, now) ==
  LET taken == SubSeq(records, 1, Min({Len(records), MaxRecords}))
      read == {b \in ToSet(taken) : BulletinReads(b, now)}
      conflicts == {Identifier(b) : b \in {b \in read : \E c \in read \ {b} : Identifier(c) = Identifier(b)}}
      kept == {b \in read : Identifier(b) \notin conflicts}
      prior(b, serial) == {c \in kept : c.code = b.code /\ c.serial = serial /\ c.minute < b.minute}
      named(b, ref) ==
        IF ref.original # NoTime THEN {Bulletin[<<b.code, ref.serial, ref.original>>]}
        ELSE IF Cardinality(prior(b, ref.serial)) = 1 THEN {Identifier(c) : c \in prior(b, ref.serial)}
        ELSE {}
      targets(b) == (UNION {named(b, ref) : ref \in b.references}) \ conflicts
      ordered == SetToSortSeq(kept, LAMBDA b, c :
        b.minute < c.minute \/ (b.minute = c.minute /\ b.serial < c.serial))
  IN [n \in DOMAIN ordered |-> SwpcEvent(ordered[n], targets(ordered[n]))]

(* CAP ********************************************************************)
Languages(m) == {i.language : i \in ToSet(m.infos)}

(* A Polish text, else an English one, else the first.                     *)
Language(m) ==
  IF m.infos = <<>> THEN "unknown"
  ELSE IF "pl" \in Languages(m) THEN "pl"
  ELSE IF "en" \in Languages(m) THEN "en"
  ELSE Head(m.infos).language

Infos(m) == {i \in ToSet(m.infos) : i.language = Language(m)}

References(m) ==
  {r.rec : r \in {r \in m.references : r.reads /\ r.sender = m.sender}} \ {m.rec}

(* The last expiry of the texts, unless one of them has none or it is      *)
(* before the alert takes effect or sets in.                               *)
ValidTo(m) ==
  LET field(f) == {i[f] : i \in Infos(m)}
      from == FirstKnown(<<Earliest(field("effective")), m.sent>>)
      to == Latest(field("expires"))
  IN IF NoTime \in field("expires") \/ to < from \/ to < Earliest(field("onset"))
     THEN NoTime ELSE to

Operational(m) ==
  /\ m.reads /\ m.status = "Actual" /\ m.scope = "Public"
  /\ m.type \in {"Alert", "Update", "Cancel"}
  /\ m.infos # <<>> \/ m.type = "Cancel"

CapEvent(m) ==
  LET refs == IF m.type = "Alert" THEN {} ELSE References(m) IN
  [Normalized(m.rec, {CapKey[m.sender][m.rec]}, RankOf(TRUE, m.sent, 0))
     EXCEPT !.refs = refs, !.refKeys = {CapKey[m.sender][r] : r \in refs},
            !.withdrawn = m.type = "Cancel", !.ends = ValidTo(m)]

(* The links of a feed that may be followed, each once, and not too many.  *)
CapUrls(entries) ==
  LET read == SelectSeq(entries, LAMBDA e : e.reads)
      once == At(read, {n \in DOMAIN read : \A m \in 1 .. n - 1 : read[m].url # read[n].url})
  IN SubSeq(once, 1, Min({Len(once), MaxRequests}))

Prefers(m, n) ==
  LET pl(x) == Language(x) = "pl"
      many(x) == Cardinality(Languages(x))
  IN \/ pl(m) /\ ~pl(n)
     \/ pl(m) = pl(n) /\ many(m) > many(n)
     \/ pl(m) = pl(n) /\ many(m) = many(n) /\ m.sent > n.sent

(* One message of an identifier, of the sender that comes first; answers is*)
(* what the requests returned, by their links.                             *)
CapBatch(entries, answers) ==
  LET urls == CapUrls(entries)
      read == SelectSeq([n \in DOMAIN urls |-> answers[urls[n].url]],
                        LAMBDA m : m # Failed /\ Operational(m))
      versions(n) == {m \in DOMAIN read : read[m].rec = read[n].rec}
      rivals(n) == {m \in versions(n) : read[m].sender = read[Min(versions(n))].sender}
      kept == At(read, {n \in DOMAIN read :
                /\ n \in rivals(n)
                /\ \A m \in rivals(n) : /\ ~Prefers(read[m], read[n])
                                        /\ m < n => Prefers(read[n], read[m])})
      events == [n \in DOMAIN kept |-> CapEvent(kept[n])]
  IN SortSeq(events, LAMBDA p, q :
       p.rank < q.rank \/ (p.rank = q.rank /\ ~p.withdrawn /\ q.withdrawn))
=============================================================================
