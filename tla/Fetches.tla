------------------------------- MODULE Fetches -------------------------------
(***************************************************************************)
(* The HTTP client the adapters share (network.py SafeHTTPClient), with its*)
(* bounded cache of bodies and validators, and the adapter that asks for   *)
(* many documents, MeteoAlarm.  A request is suspended while the server    *)
(* answers and while a body arrives, and others go on meanwhile.  No URL is*)
(* asked for twice at a time: a source has one lease, the list of CAP      *)
(* documents no duplicates.  Servers may redirect or not, change a page at *)
(* any time, and refuse or fail any request.                               *)
(***************************************************************************)
EXTENDS Naturals, Sequences, SequencesExt

CONSTANTS
  Urls,         \* a URL is also the page it names
  Docs,         \* those of the CAP documents of MeteoAlarm
  Host,         \* Host[u]
  Validator,    \* how the server of a page tells versions apart: "etag", "date", "none"
  Size,         \* Size[u]: the length of a body of the page
  Redirects,    \* the pairs of pages between which servers may redirect
  MaxRequests, MaxHops,     \* the semaphore (4) and the redirects followed (3)
  MaxEntries, MaxBytes,     \* the limits of the cache: 300 and 64 MiB
  FeedRequests,             \* MeteoAlarm's own semaphore (2)
  RetryAfters,              \* what RateLimited makes of Retry-After: 60..86400
  MaxChanges                \* bound of the model

ASSUME UrlsAssumption ==
  /\ Docs \subseteq Urls /\ DOMAIN Host = Urls
  /\ Validator \in [Urls -> {"etag", "date", "none"}]
  /\ Size \in [Urls -> 0..MaxBytes]
ASSUME LimitsAssumption ==
  /\ {MaxRequests, MaxHops, MaxEntries, MaxBytes, FeedRequests, MaxChanges} \subseteq Nat
  /\ RetryAfters \subseteq Nat \ {0}

(* A body: of which page, and the time of its last change.                 *)
Body(page, version) == [page |-> page, version |-> version]
NoBody == [page |-> "none", version |-> 0]

(* A request: where it is, the page it asks for, whether it still sends the*)
(* validators of its cached body, that body, and the redirects followed.   *)
Request(phase, page, sends, cached, hops) ==
  [phase |-> phase, page |-> page, sends |-> sends, cached |-> cached, hops |-> hops]
Ended == Request("ended", "none", FALSE, NoBody, 0)

VARIABLES
  changed,      \* the time each page last changed
  changes,      \* changes so far, which are the time
  cache, bytes, \* SafeHTTPClient.cache, a sequence with the oldest first, and cache_bytes
  request,      \* SafeHTTPClient.get, by URL
  reused,       \* a step that answers 304: the body it returns, and what the page has
  feed,         \* each CAP document: "idle", "waiting" for a permit, or "asking"
  blocked,      \* blocked_retry; 0 for None
  told          \* the delays the documents of this collect were told

clientVars == <<cache, bytes, request, reused>>
feedVars == <<feed, blocked, told>>
fetchVars == <<changed, changes, clientVars, feedVars>>

NothingReused == [body |-> NoBody, said |-> NoBody]

FetchInit ==
  /\ changed = [u \in Urls |-> 0] /\ changes = 0
  /\ cache = <<>> /\ bytes = 0
  /\ request = [u \in Urls |-> Ended]
  /\ reused = NothingReused
  /\ feed = [d \in Docs |-> "idle"]
  /\ blocked = 0 /\ told = {}

PageChanges(u) ==
  /\ changes < MaxChanges
  /\ changes' = changes + 1
  /\ changed' = [changed EXCEPT ![u] = changes + 1]
  /\ reused' = NothingReused
  /\ UNCHANGED <<cache, bytes, request, feedVars>>

(* the cache **************************************************************)
Entry(url, body) == [url |-> url, body |-> body]
HasEntry(url) == \E i \in DOMAIN cache : cache[i].url = url
Place(url) == CHOOSE i \in DOMAIN cache : cache[i].url = url
Other(url) == IF HasEntry(url) THEN RemoveAt(cache, Place(url)) ELSE cache
EntryOf(url) == IF HasEntry(url) THEN <<cache[Place(url)]>> ELSE <<>>
Cached(url) == IF EntryOf(url) = <<>> THEN NoBody ELSE Head(EntryOf(url)).body
Length(s) ==
  LET sum[n \in 0..Len(s)] == IF n = 0 THEN 0 ELSE sum[n - 1] + Size[s[n].body.page]
  IN  sum[Len(s)]

(* remember: what is left after the oldest entries were dropped, one by one*)
(* until the limits hold.                                                  *)
Drops(entries, count) ==
  CHOOSE n \in 0..Len(entries) :
    LET fits(k) == /\ Len(entries) - k <= MaxEntries
                   /\ count <= Length(SubSeq(entries, 1, k)) + MaxBytes
    IN  (fits(n) \/ n = Len(entries)) /\ \A k \in 0..(n - 1) : ~fits(k)

(* Faulty variants: an entry that is replaced stays counted; the answer 304*)
(* is given the body the cache holds by then; the wait for a permit comes  *)
(* after the check of the limit.                                           *)
CountWithoutOld(url) == bytes
ReusedNow(u) == Cached(u)
MayAskAlways == TRUE

CountWithout(url) == bytes - Length(EntryOf(url))

Remember(url, body) ==
  LET entries == Append(Other(url), Entry(url, body))
      count == CountWithout(url) + Size[body.page]
      n == Drops(entries, count)
  IN
  /\ cache' = SubSeq(entries, n + 1, Len(entries))
  /\ bytes' = count - Length(SubSeq(entries, 1, n))

(* get ********************************************************************)
Active == {u \in Urls : request[u].phase # "ended"}
To(u, r) == request' = [request EXCEPT ![u] = r]

(* The cached body and its validators are read here, and moved to the end; *)
(* the request may then be suspended for 25 seconds, again at each hop.    *)
Get(u) ==
  /\ request[u] = Ended /\ Cardinality(Active) < MaxRequests
  /\ To(u, Request("asks", u, Cached(u) # NoBody, Cached(u), 0))
  /\ cache' = Other(u) \o EntryOf(u)
  /\ reused' = NothingReused
  /\ UNCHANGED <<changed, changes, bytes>>

Redirected(u, page) ==
  LET r == request[u] IN
  /\ r.phase = "asks" /\ <<r.page, page>> \in Redirects
  /\ To(u, IF r.hops = MaxHops THEN Ended
           ELSE Request("asks", page, r.sends /\ Host[page] = Host[r.page], r.cached, r.hops + 1))
  /\ reused' = NothingReused
  /\ UNCHANGED <<changed, changes, cache, bytes>>

(* The server compares what the request sends with the page as it is.      *)
Matches(cached, page) ==
  \/ Validator[cached.page] = "etag" /\ cached = Body(page, changed[page])
  \/ Validator[cached.page] = "date" /\ changed[page] <= cached.version

(* The body returned for 304.                                              *)
Reused(u) == request[u].cached

NotModified(u) ==
  LET r == request[u] IN
  /\ r.phase = "asks" /\ r.sends /\ Matches(r.cached, r.page)
  /\ To(u, Ended)
  /\ reused' = [body |-> Reused(u), said |-> Body(r.page, changed[r.page])]
  /\ UNCHANGED <<changed, changes, cache, bytes>>

(* 200: the body is that of the time of the answer, and arrives later.     *)
Answers(u) ==
  LET r == request[u] IN
  /\ r.phase = "asks"
  /\ To(u, Request("reads", r.page, FALSE, Body(r.page, changed[r.page]), r.hops))
  /\ reused' = NothingReused
  /\ UNCHANGED <<changed, changes, cache, bytes>>

Received(u) ==
  /\ request[u].phase = "reads" /\ Size[request[u].page] > 0
  /\ To(u, Ended)
  /\ Remember(u, request[u].cached)
  /\ reused' = NothingReused
  /\ UNCHANGED <<changed, changes>>

(* A timeout, an error of transport or DNS, another status, a body that is *)
(* empty or too large; or the job is cancelled.                            *)
Fails(u) ==
  /\ request[u] # Ended /\ To(u, Ended)
  /\ reused' = NothingReused
  /\ UNCHANGED <<changed, changes, cache, bytes>>

(* meteoalarm.collect *****************************************************)
Asking == {d \in Docs : feed[d] = "asking"}
Turn(d, state) == feed' = [feed EXCEPT ![d] = state]

(* The index names some documents; the requests for them are created.      *)
Collect(docs) ==
  /\ \A d \in Docs : feed[d] \notin {"waiting", "asking"}
  /\ feed' = [d \in Docs |-> IF d \in docs THEN "waiting" ELSE "idle"]
  /\ blocked' = 0 /\ told' = {}
  /\ UNCHANGED <<changed, changes, clientVars>>

MayAsk == blocked = 0

Ask(d) ==
  /\ feed[d] = "waiting" /\ Cardinality(Asking) < FeedRequests
  /\ IF MayAsk THEN Turn(d, "asking") /\ Get(d)
     ELSE Turn(d, "idle") /\ UNCHANGED <<changed, changes, clientVars>>
  /\ UNCHANGED <<blocked, told>>

(* The end of a request for a document, and of one that met the limit.     *)
Read(d) ==
  /\ feed[d] = "asking" /\ (NotModified(d) \/ Received(d))
  /\ Turn(d, "idle") /\ UNCHANGED <<blocked, told>>

NotRead(d) ==
  /\ feed[d] = "asking" /\ Fails(d)
  /\ Turn(d, "idle") /\ UNCHANGED <<blocked, told>>

Longer(a, b) == IF a > b THEN a ELSE b

Limited(d, delay) ==
  /\ feed[d] = "asking" /\ request[d].phase = "asks" /\ Fails(d)
  /\ Turn(d, "idle")
  /\ blocked' = Longer(blocked, delay) /\ told' = told \cup {delay}

(* The timeout of collect, or the end of the process, cancels every one.   *)
Cancelled ==
  /\ Asking # {}
  /\ feed' = [d \in Docs |-> "idle"]
  /\ request' = [u \in Urls |-> IF u \in Asking THEN Ended ELSE request[u]]
  /\ blocked' = 0 /\ told' = {}
  /\ reused' = NothingReused
  /\ UNCHANGED <<changed, changes, cache, bytes>>

(* A feed of another source is one document, its 429 an error of the job.  *)
OtherFeed(u) ==
  \/ Get(u) \/ NotModified(u) \/ Received(u) \/ Fails(u)

Hop(u) == \/ Answers(u)
          \/ \E page \in Urls : Redirected(u, page)

FetchNext ==
  \/ \E u \in Urls : PageChanges(u)
  \/ \E u \in Urls : Hop(u) /\ UNCHANGED feedVars
  \/ \E u \in Urls \ Docs : OtherFeed(u) /\ UNCHANGED feedVars
  \/ \E docs \in SUBSET Docs : Collect(docs)
  \/ \E d \in Docs : Ask(d) \/ Read(d) \/ NotRead(d)
  \/ \E d \in Docs, delay \in RetryAfters : Limited(d, delay)
  \/ Cancelled

FetchSpec == FetchInit /\ [][FetchNext]_fetchVars

(* properties *************************************************************)
(* "304 jest uzyteczne tylko wraz z zachowanym body" (ARCHITECTURE.md:72): *)
(* a request answered 304 has a body, whatever the cache dropped while it  *)
(* was on its way, and it is what the page had then.  (Where a date is all *)
(* that tells versions apart and the server meanwhile redirects to another *)
(* page, the body is that of the page it came from.)                       *)
NotModifiedIsCurrent ==
  reused # NothingReused =>
    /\ reused.body # NoBody
    /\ reused.body.page = reused.said.page => reused.body = reused.said

(* The cache counts the bytes it holds, however entries are replaced and   *)
(* dropped, and so keeps both limits and one entry for a URL.              *)
CacheCounted ==
  /\ bytes = Length(cache) /\ bytes <= MaxBytes /\ Len(cache) <= MaxEntries
  /\ \A i, j \in DOMAIN cache : cache[i].url = cache[j].url => i = j

(* "MeteoAlarm nie zaczyna dalszych CAP po otrzymaniu limitu; juz trwajacy *)
(* odczyt moze sie zakonczyc" (ARCHITECTURE.md:74): after a 429 no document*)
(* is asked for, one at most is still under way (meteoalarm.py:290), and   *)
(* the batch tells the longest delay of those that met the limit.          *)
LimitStopsFeed ==
  [][/\ blocked # 0 => Asking' \subseteq Asking /\ Cardinality(Asking) < FeedRequests
     /\ \A delay \in told : delay <= blocked]_fetchVars
=============================================================================
