------------------------------ MODULE Listings ------------------------------
(***************************************************************************)
(* The parsers of the publishers whose records stand alone, in the manner  *)
(* of Providers: each payload has one key, its own.  Statuspage is GitHub's*)
(* and Cloudflare's.  A page of Cloudflare Radar is read at an offset into *)
(* a list that may change between two pages.                               *)
(***************************************************************************)
EXTENDS Providers

CONSTANTS
  Day,          \* of the last day of validity of a CZIB
  MaxItems,     \* MAX_ITEMS of CERT Polska, 10
  PageSize, MaxPages    \* PAGE_SIZE and MAX_PAGES of Radar, 100 and 5

Past == 1       \* the end of what is over without a known end

(* The indexes at which an id is the first among these.                    *)
Firsts(items, counted) == {n \in counted : \A m \in counted : items[m].rec = items[n].rec => m >= n}

Alone(i, times) == Normalized(i.rec, {KeyOf[i.rec]}, RankOf(TRUE, FirstKnown(times), 0))

(* Statuspage *************************************************************)
(* An id is taken by the first record that can be read as a whole.         *)
StatusEvent(i) ==
  [Alone(i, <<i.updated, i.issued, i.start>>)
     EXCEPT !.ends = IF i.status = "ended" THEN Past ELSE NoTime,
            !.incident = i.status # "active" /\ i.start # NoTime /\ i.end >= i.start]

StatusBatch(items) ==
  LET kept == At(items, Firsts(items, {n \in DOMAIN items : items[n].reads})) IN
  [n \in DOMAIN kept |-> StatusEvent(kept[n])]

(* EASA *******************************************************************)
(* An Nid is taken by its first record even if the rest of it is refused.  *)
CzibEvent(i) ==
  [Alone(i, <<i.updated, i.issued>>)
     EXCEPT !.withdrawn = i.status = "withdrawn",
            !.ends = IF i.status = "expired" THEN Past
                     ELSE IF i.lastDay = NoTime THEN NoTime ELSE i.lastDay + Day]

CzibBatch(items) ==
  LET kept == SelectSeq(At(items, Firsts(items, {n \in DOMAIN items : items[n].numbered})), LAMBDA i : i.titled) IN
  [n \in DOMAIN kept |-> CzibEvent(kept[n])]

(* CERT Polska ************************************************************)
(* Of the first items those for users, each publication once, newest first.*)
CertBatch(items) ==
  LET taken == SubSeq(items, 1, Min({Len(items), MaxItems}))
      kept == At(taken, Firsts(taken, {n \in DOMAIN taken : taken[n].reads /\ taken[n].forUsers}))
      events == [n \in DOMAIN kept |-> Alone(kept[n], <<kept[n].issued>>)]
  IN SortSeq(events, LAMBDA p, q : p.rank > q.rank)

(* Cloudflare Radar *******************************************************)
OutageEvent(i, now) ==
  LET end == IF i.start # NoTime /\ i.end < i.start THEN NoTime ELSE i.end
      over == end # NoTime /\ end <= now
  IN [Alone(i, <<i.start>>)
        EXCEPT !.ends = IF over THEN end ELSE NoTime,
               !.incident = i.outage /\ i.start # NoTime /\ over]

(* answers: what the requests of the pages return, or would return.  The   *)
(* first failure is that of the batch; a later one, a full page of nothing *)
(* new, or as many full pages as are asked for, make it partial.           *)
RadarBatch(answers, now) ==
  LET page(n) == IF answers[n] = Failed THEN <<>> ELSE SelectSeq(answers[n], LAMBDA i : i.reads)
      pages(n) == FoldLeft(LAMBDA all, m : all \o page(m), <<>>, [m \in 1..n |-> m])
      ids(n) == {i.rec : i \in ToSet(pages(n))}
      stops(n) ==
        \/ n = MaxPages \/ answers[n] = Failed
        \/ Len(answers[n]) < PageSize \/ ids(n) = ids(n - 1)
      last == Min({n \in 1..MaxPages : stops(n)})
      read == pages(last)
      kept == At(read, Firsts(read, DOMAIN read))
  IN IF answers[1] = Failed THEN Failed
     ELSE [partial |-> answers[last] = Failed \/ Len(answers[last]) >= PageSize,
           events |-> [n \in DOMAIN kept |-> OutageEvent(kept[n], now)]]
=============================================================================
