----------------------------- MODULE MCIdentity -----------------------------
(* Documents of three publishers that cite one another's identifiers, CAP  *)
(* alerts and SWPC bulletins that refer to one another, as their parsers   *)
(* read them.                                                              *)
EXTENDS Identity, Listings, Evidence, TLC

CONSTANTS
  usgs, gdacs, eonet, meteoalarm, swpc,   \* sources
  quake, episode, report,           \* records of the first three
  alert, update, cancel,            \* records of meteoalarm
  watch, extension, revocation,     \* records of swpc
  uKey, gKey, eKey,                 \* external ids: usgs:..., gdacs:..., eonet:...
  aKey, uKey2, cKey, otherKey,      \* cap:sender:identifier
  wKey, xKey, rKey                  \* swpc:code:serial:minute

McSourceOf ==
  (quake :> usgs) @@ (episode :> gdacs) @@ (report :> eonet)
    @@ [r \in {alert, update, cancel} |-> meteoalarm]
    @@ [r \in {watch, extension, revocation} |-> swpc]
McPriority == (meteoalarm :> 0) @@ (usgs :> 0) @@ (gdacs :> 1) @@ (eonet :> 2) @@ (swpc :> 2)
McOwned ==
  (usgs :> {uKey}) @@ (gdacs :> {gKey}) @@ (eonet :> {}) @@ (swpc :> {})
    @@ (meteoalarm :> {aKey, uKey2, cKey, otherKey})
McNames == {"WATA30", "outage"} \X (1..3) \X (1..9)   \* code, serial number, minute of a bulletin
McKeyOf ==
  (quake :> uKey) @@ (episode :> gKey) @@ (report :> eKey)
    @@ (watch :> wKey) @@ (extension :> xKey) @@ (revocation :> rKey) @@ [name \in McNames |-> name]
McCapKey ==
  [imgw |-> (alert :> aKey) @@ (update :> uKey2) @@ (cancel :> cKey),
   chmi |-> [r \in {alert, update, cancel} |-> otherKey]]

(* A quake, and what it is called later under the same date.               *)
Feature(reclassified) ==
  [rec |-> quake, reads |-> TRUE, ids |-> {}, reclassified |-> reclassified,
   time |-> 1, updated |-> 1]

(* A GDACS episode of the quake, which only its second revision cites.     *)
Item(current, updated, links) ==
  [rec |-> episode, reads |-> TRUE, titled |-> TRUE, kind |-> "EQ", episode |-> 0, version |-> 1,
   current |-> current, start |-> 1, end |-> 1, issued |-> NoTime, updated |-> updated,
   links |-> links]
Cited == {[page |-> "eventpage", key |-> uKey], [page |-> "other", key |-> gKey]}

(* A volcano whose unrest USGS reports as that quake, over by now.         *)
Volcano ==
  [rec |-> report, reads |-> TRUE, categories |-> {"volcanoes"}, titled |-> TRUE, sampled |-> TRUE,
   dates |-> {1, Start}, closed |-> Start,
   sources |-> {[id |-> "USGS_EHP", page |-> "eventpage", type |-> "EQ", key |-> uKey],
                [id |-> "GDACS", page |-> "report", type |-> "EQ", key |-> gKey]}]

PublisherPayloads ==
  ToSet(UsgsBatch(<<Feature(FALSE)>>)) \cup ToSet(UsgsBatch(<<Feature(TRUE)>>))
    \cup ToSet(GdacsBatch(<<Item(TRUE, 2, Cited), Item(TRUE, 1, {})>>))
    \cup ToSet(EonetBatch(<<Volcano>>, Start))

Info(language, expires) ==
  [language |-> language, onset |-> 1, effective |-> 1, expires |-> expires]
Message(rec, sender, type, sent, references) ==
  [rec |-> rec, reads |-> TRUE, sender |-> sender, status |-> "Actual", scope |-> "Public",
   type |-> type, sent |-> sent, references |-> references,
   infos |-> <<Info("en", Start), Info("pl", Start + 1)>>]
To(r) == {[rec |-> r, sender |-> "imgw", reads |-> TRUE]}

(* An alert, its update and a cancel of the update; an update that closes a*)
(* cycle, and an alert of another sender.                                  *)
Messages ==
  << Message(alert, "imgw", "Alert", 1, {}),
     Message(update, "imgw", "Update", 2, To(alert)),
     Message(cancel, "imgw", "Cancel", 3, To(update)),
     Message(alert, "imgw", "Update", 4, To(cancel)),
     Message(alert, "chmi", "Update", 5, To(update)) >>
Link(n) == [reads |-> TRUE, url |-> n]
CapPayloads == UNION {ToSet(CapBatch(<<Link(n)>>, Messages)) : n \in DOMAIN Messages}

(* A watch, its extension, which names only a serial number, and a         *)
(* cancellation that names the time as well; the watch may have left the   *)
(* document, or share its number with an older one.                        *)
McBulletin ==
  [name \in McNames |->
     CASE name = <<"WATA30", 1, 5>> -> watch
       [] name = <<"WATA30", 2, 6>> -> extension
       [] name = <<"WATA30", 3, 6>> -> revocation
       [] OTHER -> name]
Notice(serial, minute, to, references) ==
  [reads |-> TRUE, code |-> "WATA30", serial |-> serial, minute |-> minute, forecast |-> TRUE,
   cancelled |-> FALSE, from |-> 4, to |-> to, references |-> references]
Watch == Notice(1, 5, Start, {})
Extension == Notice(2, 6, Start + 1, {[serial |-> 1, original |-> NoTime]})
Cancellation ==
  [Notice(3, 6, NoTime, {[serial |-> 1, original |-> 5]}) EXCEPT !.cancelled = TRUE]
SwpcPayloads ==
  UNION {ToSet(SwpcBatch(doc, Start)) : doc \in {<<Extension, Watch>>, <<Cancellation, Extension>>}}

AllFeeds == {PublisherPayloads, CapPayloads, SwpcPayloads}
PublishersOnly == {PublisherPayloads}

(* the parsers ************************************************************)
Reordered(s) == {[n \in DOMAIN s |-> s[p[n]]] : p \in Permutations(DOMAIN s)}
UpTo3(S) == UNION {[1..n -> S] : n \in 0..3}
OneEach(batch) == \A m, n \in DOMAIN batch : batch[m].rec = batch[n].rec => m = n

(* One event for an EONET id, whatever the order of the records in the file*)
(* (eonet.py:120-138).                                                     *)
Volcanoes ==
  {Volcano} \cup {[Volcano EXCEPT !.closed = t] : t \in {NoTime, 1, Start + Skew + 1}}
    \cup {[Volcano EXCEPT !.categories = {"floods"}], [Volcano EXCEPT !.reads = FALSE]}
ASSUME EonetAnyOrder == \A doc \in UpTo3(Volcanoes) :
  LET batch == EonetBatch(doc, Start) IN
  /\ OneEach(batch)
  /\ \A other \in Reordered(doc) : ToSet(EonetBatch(other, Start)) = ToSet(batch)

(* Unless two items claim to be one revision, the GDACS item that is stored*)
(* last does not depend on their order (gdacs.py:143-148).                 *)
Items ==
  {Item(c, u, l) : c \in BOOLEAN, u \in {NoTime, 2}, l \in {{}, Cited}}
    \cup {[Item(TRUE, 2, {}) EXCEPT !.version = 2, !.titled = FALSE]}
ASSUME GdacsLastWins == \A doc \in UpTo3(Items) :
  (\A m, n \in DOMAIN doc : SameRevision(doc[m], doc[n]) => doc[m] = doc[n]) =>
    \A other \in Reordered(doc) :
      LET a == GdacsBatch(doc) b == GdacsBatch(other) IN
      /\ ToSet(a) = ToSet(b)
      /\ a # <<>> => Last(a).rank = Last(b).rank /\ \A n \in DOMAIN a : a[n].rank <= Last(a).rank

(* SWPC bulletins come in one order whatever the order of the records, and *)
(* name besides themselves only older ones: a serial number that two       *)
(* earlier bulletins have is not guessed, nor one told in two ways         *)
(* (swpc.py:204-232).                                                      *)
Notices ==
  {Watch, Extension, Cancellation}
    \cup {Notice(1, m, Start, {}) : m \in {3, 4}} \cup {[Watch EXCEPT !.to = 4], [Watch EXCEPT !.to = 7]}
    \cup {Notice(3, 6, NoTime, {[serial |-> s, original |-> NoTime]}) : s \in {1, 2}}
ASSUME SwpcAnyOrder == \A doc \in UpTo3(Notices) :
  LET batch == SwpcBatch(doc, Start)
      read == {b \in ToSet(doc) : BulletinReads(b, Start)}
      ambiguous(k) == \E c, d \in read : c # d /\ Identifier(c) = Identifier(d) /\ KeyOf[Identifier(c)] = k
  IN
  /\ OneEach(batch)
  /\ \A other \in Reordered(doc) : SwpcBatch(other, Start) = batch
  /\ \A n \in DOMAIN batch : \E b \in ToSet(doc) :
       /\ batch[n].rec = Identifier(b)
       /\ \A k \in batch[n].ids : ~ambiguous(k)
       /\ \A k \in batch[n].ids \ {KeyOf[batch[n].rec]} :
            \/ \E ref \in b.references :
                 ref.original # NoTime /\ KeyOf[Bulletin[<<b.code, ref.serial, ref.original>>]] = k
            \/ \E c \in read :
                 /\ KeyOf[Identifier(c)] = k /\ c.minute < b.minute
                 /\ \A d \in read : d.serial = c.serial /\ d.minute < b.minute
                                  => Identifier(d) = Identifier(c) \/ ambiguous(KeyOf[Identifier(d)])

(* An incident or a publication that cannot be read costs only itself: of  *)
(* each id the first readable one is stored, once (statuspage.py:100-107;  *)
(* cert.py:95-108).  Of a CZIB the first decides (easa.py:36-40).          *)
Outage(r, reads, status, end) ==
  [rec |-> r, reads |-> reads, status |-> status, start |-> 2, end |-> end, updated |-> 2, issued |-> 1]
Outages == {Outage(r, b, s, e) : r \in {quake, episode}, b \in BOOLEAN,
                                 s \in {"active", "ended"}, e \in {NoTime, 3}}
Publications == {[rec |-> r, reads |-> b, forUsers |-> u, issued |-> t] :
                   r \in {quake, episode}, b \in BOOLEAN, u \in BOOLEAN, t \in {NoTime, 1}}
Zones == {[rec |-> r, numbered |-> b, titled |-> t, status |-> "active", issued |-> 1, updated |-> 1,
           lastDay |-> NoTime] : r \in {quake, episode}, b \in BOOLEAN, t \in BOOLEAN}
Stored(batch) == {batch[n].rec : n \in DOMAIN batch}
ASSUME ListedOnce ==
  /\ \A doc \in UpTo3(Outages) :
       /\ OneEach(StatusBatch(doc)) /\ Stored(StatusBatch(doc)) = {i.rec : i \in {i \in ToSet(doc) : i.reads}}
  /\ \A doc \in UpTo3(Publications) :
       /\ OneEach(CertBatch(doc))
       /\ Stored(CertBatch(doc)) =
            {i.rec : i \in {i \in ToSet(SubSeq(doc, 1, Min({Len(doc), MaxItems}))) : i.reads /\ i.forUsers}}
  /\ \A doc \in UpTo3(Zones) :
       /\ OneEach(CzibBatch(doc))
       /\ \A r \in Stored(CzibBatch(doc)) : \E n \in DOMAIN doc :
            /\ doc[n].rec = r /\ doc[n].numbered /\ doc[n].titled
            /\ \A m \in 1 .. n - 1 : doc[m].rec # r \/ ~doc[m].numbered

(* A reading of Radar that is not partial holds every annotation that was  *)
(* listed when it began, although new ones push the others to later pages  *)
(* between two requests, and holds each once (radar.py:97-141).            *)
Annotation(n) == [rec |-> <<"outage", 1, n>>, reads |-> TRUE, start |-> 1, end |-> NoTime, outage |-> TRUE]
Listed(newest) == [n \in 1..newest |-> Annotation(newest + 1 - n)]
Page(newest, n) == SubSeq(Listed(newest), (n - 1) * PageSize + 1, Min({newest, n * PageSize}))
ASSUME RadarComplete == \A first \in 0..4, pushed \in [1..MaxPages -> 0..2], fails \in SUBSET (1..MaxPages) :
  LET newest(n) == first + FoldLeft(LAMBDA all, m : all + pushed[m], 0, [m \in 1 .. n - 1 |-> m])
      answers == [n \in 1..MaxPages |-> IF n \in fails THEN Failed ELSE Page(newest(n), n)]
      batch == RadarBatch(answers, Start)
  IN batch # Failed =>
       /\ OneEach(batch.events)
       /\ ~batch.partial => {Annotation(n).rec : n \in 1..first} \subseteq Stored(batch.events)

(* One message for a CAP identifier, of the sender that was read first, and*)
(* its references are to that sender's messages (meteoalarm.py:319-334).   *)
Alerts ==
  {Message(alert, s, t, n, To(update)) :
     s \in {"imgw", "chmi"}, t \in {"Alert", "Cancel"}, n \in 1..2}
    \cup {[Message(update, "imgw", "Update", 1, To(alert)) EXCEPT !.infos = i] :
            i \in {<<>>, <<Info("en", 2)>>}}
ASSUME CapOneSender == \A answers \in UpTo3(Alerts \cup {Failed}) :
  LET batch == CapBatch([n \in DOMAIN answers |-> Link(n)], answers) IN
  /\ OneEach(batch)
  /\ \A n \in DOMAIN batch : \E k \in DOMAIN answers :
       LET m == answers[k] IN
       /\ m # Failed /\ batch[n] = CapEvent(m)
       /\ \A r \in batch[n].refs : \E x \in m.references : x.rec = r /\ x.sender = m.sender
       /\ \A j \in 1 .. k - 1 :
            answers[j] # Failed /\ Operational(answers[j]) /\ answers[j].rec = m.rec
              => answers[j].sender = m.sender

(* evidence ***************************************************************)
McNetworkOrigin == [us |-> "usgs:us", ci |-> "usgs:ci"]
McUnknownOrigins == {"unknown:gdacs", "unknown:eonet"}

(* A publisher that repeats another adds no confirmation: an event of a    *)
(* USGS quake, a GDACS item that cites it, and an EONET record whose       *)
(* sources are pages of the two and others that are unknown, counts one    *)
(* origin, and so does a GDACS item with an EONET record that names nothing*)
(* else (README.md:114, ARCHITECTURE.md:56, ingestion.py:92-109).          *)
Quakes == {[networks |-> n] : n \in SUBSET {"us", "ci"}}
Repeating ==
  {[kind |-> k, declared |-> d, links |-> l] :
     k \in {"EQ", "VO", "WF"}, d \in SUBSET {"usgs", "emsc"}, l \in SUBSET Cited}
Curated ==
  {[categories |-> c, sources |-> {[id |-> i] : i \in names}] :
     c \in {{"volcanoes"}, {"wildfires"}}, names \in SUBSET {"GDACS", "USGS_EHP", "AVO", "other"}}
ASSUME RepeatsAddNothing ==
  \A i \in Repeating, r \in Curated :
    LET named == {s.id : s \in r.sources} \ {"other"} IN
    /\ (i.kind = "WF" <=> "wildfires" \in r.categories) /\ named \subseteq {"GDACS"} =>
         IndependentOrigins({GdacsOrigins(i), EonetOrigins(r)}) = 1
    /\ i.kind # "WF" /\ UsgsLinks(i) # {} /\ "volcanoes" \in r.categories =>
         \A f \in Quakes : IndependentOrigins({UsgsOrigins(f), GdacsOrigins(i), EonetOrigins(r)}) = 1

(* The order in which CAP records are taken off does not matter: all of    *)
(* them are visited exactly when no set of them refers to itself, which is *)
(* what Ingest asks for (ingestion.py:332-352).                            *)
Nodes == {alert, update, cancel, watch}
ASSUME CyclesFound == \A refs \in [Nodes -> SUBSET Nodes] :
  LET rows == {[rec |-> n, refs |-> refs[n] \cup {quake}] : n \in Nodes} IN
  VisitsAll(rows) <=> Acyclic(rows)
=============================================================================
