# TLA+ models of Sextet Monitor

Sextet Monitor reads public sources (earthquakes, disasters, weather, aviation,
vulnerabilities, service status), keeps what it read in PostgreSQL with full
provenance, and shows events, evidence and briefings.  These modules model the
parts of it whose correctness depends on the order in which things happen: the
leases of the polling worker and the turns of its sources, the shared HTTP cache,
the merging of records into events and their relations, the clocks of sources that
publish a current state instead of a history, the cursor of the briefings, the
copies of the database, the chain of public snapshots, what the public page keeps
in the browser and selects from a snapshot, and what the local cockpit shows while
answers arrive.  Paths are relative to the repository;
`ingestion.py`, `worker.py` and so on are in `backend/monitor/`.

## The system

Four services run under Compose: `db` (PostgreSQL/PostGIS), `worker`, `api`
(FastAPI, read role) and `web` (Next.js).  A fifth program, the public build,
makes a static snapshot for GitHub Pages; the admin CLI `scripts/manage.py`
runs migrations, backups and `detach-source`.

| Component | State | Operations | Talks to |
|---|---|---|---|
| Polling leases (`worker.py`, `ingestion.py`) | `sources`, `ingestion_runs`; tasks and threads of a process; its job slots | claim, fetch, persist, fail, release, expire maintenance, stop, rest | adapters, identity, advisory lock 61704001 |
| Provider HTTP client (`network.py`) | bounded cache of bodies and validators | get, redirect, remember | worker, providers; MeteoAlarm's rate limit |
| Provider adapters (`providers/*.py`) | none | document to normalized events | HTTP client, persist_batch |
| Event identity (`ingestion.py`, `identity_review.py`) | `events`, `observations`, `provider_records`, `event_evidence`, `event_external_ids`, `identity_overrides`, `event_revisions` | record, rebuild, expire, retention, split | persist_batch, admin CLI |
| IMGW current list (`ingestion.py`, `imgw_hydro.py`) | clocks in `sources.cursor`, `last_seen_at` | persist, reconcile | identity |
| CISA catalog (`ingestion.py`) | `cursor.latest_snapshot_at`, `source_snapshot_at` | persist, record | identity |
| Relations (`relate_events`) | `event_relations` | recalculate after a batch or a split | identity |
| Lifecycle (`lifecycle.py`) | none | effective state at a time | identity, queries |
| Queries and questions (`db.py`, `query.py`) | none | select, interpret | api |
| Briefings (`api.py`, `db.py`, `briefing.py`) | `briefing_runs` | latest, create | advisory lock, events |
| Public snapshot (`public_snapshot.py`) | the published document, a disposable database | collect, retain, encode | worker code, previous publication |
| Public web edition (`web/lib/public-session.ts`, `PublicMonitor.tsx`) | `localStorage`: pins, baseline, favourites | load, pin, accept baseline, sync | snapshot, other tabs |
| Detailed page and overview (`web/lib/public-snapshot.ts`, `filters.ts`, `situation.ts`, `DetailedExplorer.tsx`) | the publication read last, the filters | load, retry, choose filters, select, summarize | snapshot |
| Local cockpit (`Monitor.tsx`) | React state, requests in flight | filter, select, ask, brief, refresh | api through the proxy |
| Backup and restore check (`manage.py`) | dump and manifest, an exported snapshot | backup, detach-source --apply, restore-check | db |

What is hard in it:

* **Interleaving.**  Up to three jobs of a loop, a manual `--once` cycle, the
  admin CLI and the API share one database.  A cancelled job's thread goes on.
  Requests that share a cache, and calls of a page, are suspended at every await.
* **Time.**  `now` is sampled once per transaction, before or after a lock is
  awaited, and is then compared with clocks that others have written.
* **Failure.**  A process dies between claim and commit, a commit fails, a
  record is rejected in its savepoint while the batch goes on.
* **Ordering.**  Sources repeat, delay and withdraw; an older document may be
  read after a newer one; identifiers arrive before or after the events they tie;
  an answer arrives after the filters it belongs to were replaced.
* **Long histories.**  Retention, splits and returning records meet months apart.

What makes each part correct: one writer per source and no stale publication
(leases); every observation belongs to the event of its record, events show
what their records say now, only hard identifiers merge (identity); the order
of readings, not of arrival, decides (current list, catalog); no change is lost
or told twice (briefings); a snapshot never shows failed reads as current
(public snapshot); an older tab or answer never replaces a newer one, and the
page selects from a file what the private monitor would select (web); no source
waits for its turn forever (worker); what a 304 confirms is still there (HTTP
client); a dump is what its manifest says (backup).
`PROJECT.json` lists the hazards at their lines with the properties that cover
them, and those that are still open.

## The modules

**`Leases`** models `sources` and `ingestion_runs` and every process around
them.  One number names the lease owner, its run and its job.  A job is a task
(`job`), its database call a thread (`write`) that samples `now`, waits for the
advisory lock (`PersistOpen`), checks the lease under the row lock
(`PersistCheck`) and commits (`PersistCommit`), each a step of its own, so that
everything else may come between.  `Cancel` stops the task and not the thread.
`Crash` ends a process and rolls its transactions back; `WriteError` and
`ClaimError` fail a database call.  What a batch contains is reduced to "whose
batch the source shows" (`content`).  It implements **`SingleWriter`**, a
register that grants a source to one attempt at a time.  **`Rotation`** has what
`Leases` leaves out, the order of turns: sources past `next_due_at` form a queue,
the slots of the loop (`ClaimNext`, `Rest`, `Pass`) serve it, processes end with
leases in hand (`Ends`) and start again with the optional token or without
(`Restart`).  A lease there is held, free, or left to run out.

**`Fetches`** models `SafeHTTPClient.get` and its cache, and `collect` of
`meteoalarm.py`, which asks for many documents.  A request reads the cached body
and its validators (`Get`), follows redirects (`Redirected`), is answered
(`NotModified`, `Answers`) and stores what it received (`Received`), each a step,
because each is an await between which other requests store and evict.  A page
changes at any time; its server tells versions apart by an ETag, by a date, or not
at all.  `Limited` is a 429, with the longest delay kept in `blocked`.

**`Backup`** models `backup`, `restore-check` and `detach-source --apply` of
`manage.py`: a session exports a snapshot, the fingerprint and the dump are read
from it, the manifest is written last.  A command may fail or be killed at any
step, PostgreSQL may restart, files may be damaged and deleted, and commits go on.
A state of the database is the number of commits before it.

**`Briefings`** models `POST /api/briefings` against the writers of `events`.
A writer takes the lock, samples its time, commits; a request takes the lock,
samples `until`, counts, streams and saves in separate statements, any of which
may see other commits if the lock did not keep them out.  The country filter is
the constant `Matching`.  It implements **`ChangeFeed`**, in which a briefing
is one indivisible step.

**`Identity`** models `_record`, `rebuild_event`, `expire_advisories`,
`apply_retention` and `split_source`.  All of them hold the advisory lock to
their commit (that they do is what `Leases` checks), so each is one step.  A
payload carries only what the rules tell apart: its record, its identifiers,
its CAP references, its rank, whether it withdraws, when it ends.  `Targets` is
the identity rule, `Candidates`/`Beats` the choice of the shown record,
`Rebuild` the comparison that decides whether anything is written.  Rows that
tie are taken in any order, because the SELECT has none.  `feed`, which never
changes, says which of the sets of payloads in `Feeds` the providers send.

**`Providers`** has the parsers of USGS, GDACS, EONET, SWPC and MeteoAlarm as pure
operators, from the items of a document to the payloads of `Identity` in the
order of the batch: the identifiers a record claims, reclassifications, repeated
revisions, conflicting duplicates, the text and the expiry of an alert, its
references, the choice between two messages of one identifier, the bulletin that a
serial number stands for.  An item is what the readers of `common.py` return, with
flags where they raise.  **`Listings`** adds the publishers whose records name
nothing but themselves: Statuspage (GitHub and Cloudflare), EASA, CERT Polska, and
Cloudflare Radar with its pages, which are read at offsets into a list.
`MCIdentity` builds its feeds from documents with these operators and has TLC
evaluate six assumptions about them, over all documents of up to three of the items
it names: `EonetAnyOrder`, `GdacsLastWins`, `SwpcAnyOrder`, `CapOneSender`,
`ListedOnce` and `RadarComplete`.

**`Evidence`** has what `rebuild_event` works out from all rows of an event: the
independent origins, from the upstreams that the adapters read, and the search for
cycles of CAP references, which TLC compares with the definition `Identity` uses, over
all graphs of four records (`CyclesFound`).  `RepeatsAddNothing` says that a publisher
that repeats another is no confirmation, whatever it cites beside.

**`Relations`** models `relate_events`: a batch or a split leaves a sequence of
events whose relations are removed and found anew, one after the other
(`Relate`), up to a limit; retention takes an event's relations with it.  Place and
time are numbers on a line.  `omitted` is a history variable: the pairs that the
limit left out when they were last looked at.

**`CurrentList`** models the list of open-ended IMGW warnings: reading it,
refusing it for its clocks, storing it with records rejected one by one, and
marking the missing as unknown.  The host's clock may be set to any value at
any time.  `evidence` is a history variable: what the accepted lists said.

**`Catalog`** models the release dates of the CISA catalog, on the whole
document and on each entry, with entries rejected one by one.  `heard` is a
history variable: every dated content that was accepted.

**`Publications`** models the chain of public snapshots.  A build may read the
publication on the page (`Load`), reads all sources into a new database and
writes its file (`Write`), which is deployed (`Publish`) if the browser's own
validator accepts it (`WebAccepts`), or fails at any point (`Fail`).  What the sources give is any
outcome per source, any accepted records, any grouping of them into events and any
relations; `Encode` is `encode_snapshot` with `_retain_previous_reads`.  An
event's public id is a hash of its records, so their set stands for it.  The
number of the publication stands for `retrieved_at`.  That one build runs at a
time is the concurrency group of `.github/workflows/pages.yml`; the host, and
so its clock, is new for each.  It implements **`PublicView`**: of every source
the page shows one reading, or what is left of it.

**`Selections`** models the pins and the favourite areas of the public page
over several tabs and one `localStorage`.  A toggle reads the storage
(`Toggle`), `write...` reads it again to compare (`Compare`) and calls `setItem`
(`Set`), three steps between which other tabs may write: tabs run in processes
of their own and the storage has no transactions.  `setItem` may throw at any
time (`full`).  Storage events wait in `events` until the tab is idle.
`guarded`, chosen at the start, says whether the selection remembers a refused
write, as favourites do and pins do not.

**`ComparisonPoint`** models the baseline in the same manner: `Load` is a
publication that arrives, from whatever cache, `Mark` the user's wish to compare
with what is shown, `Refuses` the comparison in `writeBaseline`.

**`Cockpit`** models the local page of `Monitor.tsx`.  A call is served at some
moment (`Serve`), and its answer shown (`ShowEvents`, `ShowDetail`,
`ApplyQuestion`) or lost (`Fail`) at a later one.  React renders first and then
runs the effects whose dependencies have changed (`RunEffects`), which abort the
calls they replace; `due` holds them meanwhile.  An event is the time of its last
change, which is what the page uses to read the evidence again.  `chosen` is a
history variable: the filters set by hand since the last question was sent.
**`BriefingPanel`** has the calls for briefings of the same page, in which the
latest may be read before one that the user has made is shown.

**`Records`** is the algebra of time that the code has twice: which rows a query
selects (`_select_events` in SQL), which rows of a first import are background
(the same SELECT, and `_publication_scope` and `_occurrence_scope` in Python),
and the effective status of an advisory (`effective_event_state`).  Instants
are whole hours, `Unknown` is NULL.  **`Explorer`** is the detailed page: a
publication, read again at any time (`Read`), and filters that move one choice
of the panel at a time; `Listed` is `filterPublicSnapshot`.  A row in the file
carries the status it had when a build read it, which for a kept row may be an
earlier build.  **`Situation`** extends it with the overview that `situation.ts`
computes from the same file: spans, timeline bars, advisory states, highlights.
It depends on the publication alone, so its properties speak of the states in
which the filters are the default ones (`OverviewShown`), one for each
publication.

**`Questions`** is `parse_question`: what the expressions of `query.py` find in a
question, consumed in their order, and the query of the database it stands for, or
none.  `Offset` is the local clock, which has a day without one of its hours and one
with an hour twice.  Beside it stands what was asked for in words of the calendar
(`HourAsked`, `AskedFor`), and TLC checks in `MCSituation` that the two agree for
every instant and row (`WindowsAsked`, `NoConstraintLost`).  **`Narratives`** is what
`build_briefing` and `build_answer` tell of the rows they are handed; that the order
of the rows changes nothing, and that each row is counted once, are its assumptions
(`BriefingAnyOrder`, `AnswerAnyOrder`).

The definitions named as faulty variants in a module (`FirstById`,
`OldAsFirst`, ...) are forms of the definitions below them that a plausible
mistake would give.  No specification uses them: replacing the definition by
its variant must break a property, which shows that the property notices.

## The runs

Times are small numbers: only their order matters to any guard, so a lease or
a window of one tick has every order of expiry, sampling and commit.

| Run | Bounds | What it shows |
|---|---|---|
| `race` (`MCLeasesRace`) | one source, a loop and a `--once` process, two claims, clock to 3 | fencing: two claims suffice for a stale batch, an expired run and a takeover; the advisory lock is held by exactly the batch that has it; checks the refinement |
| `stop` (`MCLeasesStop`) | as `race` without crashes and database errors | **violated**: an orderly stop may leave a lease, see below |
| `worker` (`MCWorker`) | turns: four sources, two slots, one that needs a token, delays of 1 and 2, two faults; requests: three documents and a feed of twice the length, a cache of two entries and three bytes, two requests at a time, one redirect, one change; copies: two, three commits | no source starves (liveness); a 304 has its body whatever was evicted; the cache counts its bytes; a rate limit stops the feed; a dump is what its manifest says |
| `briefings` (`MCBriefings`) | two events, two scopes, two writers, two requests, clock to 3 | nothing missed, contiguous windows, refinement |
| `identity` (`MCIdentity`) | three feeds: five payloads read from documents of USGS, GDACS and EONET, or CAP alerts (alert, update, cancel, a cycle, another sender), or SWPC bulletins (a watch, its extension, its cancellation); four events, two clock values, retention of the present tick only | merges, references, withdrawals, splits, expiry and retention in every order |
| `split` (`MCIdentitySplit`) | the first feed, three events, three clock values, retention of two ticks | **violated**: a split is forgotten with one side, see below |
| `sources` (`MCSources`) | list: two warnings, clock 1 to 4, slack 1; catalog: two entries, two contents, three release dates, clock to 2; relations: three events, four things to say, a limit of one | clocks and evidence agree whatever the host's clock does; newest accepted content; relations follow every correction |
| `publications` (`MCPublications`) | three sources, three records, at most two events, evidence of at most two records, three publications, clock to 2, no slack | kept reads keep their dates, marks and counts; publications stay readable; refinement |
| `tabs` (`MCTabs`) | favourites or pins: two tabs, three ids of which two fit, three toggles; comparison: a publication, one of the same time, a later one; two events undelivered per tab | no lost update, tabs show and compare with what is stored, tabs settle (liveness) |
| `pinsrefused` (`Selections`) | two ids | **violated**: a refused pin is undone by the next, see below |
| `edition` (`MCSituation`) | nineteen rows of eight sources in three catalogs, clocks 100 and 130, windows of 24 and 72 hours moved by 0 or 24, eight highlights | page and monitor select alike, filters stay coherent, background, advisories, timeline, highlights; and the assumptions on questions, answers and briefings |
| `cockpit` (`MCCockpit`) | two events, two filters of which one lets one event through, one change, two edits by hand; two briefings | evidence keeps up with the list, filters set by hand stay, no reading goes back, the screen settles (liveness) |

Three runs put several modules side by side: `MCSources`, `MCTabs` and `MCWorker`
(and `MCCockpit` with the briefings) instantiate modules that share no variable,
and a behaviour follows one of them while the others stay where they began, so
that the states add up instead of multiplying.

The times of the documents in `identity` are before `Start`, the first value of
the clock; the alerts end at the second.  Retention forgets whatever is not of the
present tick, so that events are forgotten and made again in the middle of merges
and splits.

In `publications` both limits are reached: three records make three events,
which is refused, or one event of three records, which is written and cannot
be deployed.  The two quakes are symmetric.  Three publications are a good one, one that keeps it, and one
that keeps what was kept; a clock of two values lets a publication be in the
future of the next build.

In `worker` a cache of two entries, and of fewer bytes than three bodies, evicts at
the first or second request whatever is not in use, also what a request on its way
has sent validators of.  Two slots for four sources, with delays of one and two
ticks, let two sources be due often enough to fill every slot.  Two faults are a
process that dies with a lease in hand and a restart that dies again.  In `cockpit`
one change after the first reading is enough for two readings of one event to
differ; the two edits let filters be set before and after a question is sent.

Deadlock is checked in every run except where a specification may really stop:
none does so here.

Fairness is assumed for the three liveness properties alone:

* `TabsSettle` (`Selections`): weak fairness of `Compare`, `Set` and `Sync` of each
  tab, because a JavaScript task that has begun runs to its end and the browser
  delivers the storage events of a live tab.  Nothing says that a user toggles,
  closes tabs or frees the quota, and `MaxToggles` makes toggling stop, which is
  what `TabsSettle` is about.
* `EverySourcePolled` (`Rotation`): time passes; Compose restarts the worker
  (`restart: unless-stopped`); the loop goes on; a lease that was left runs out; a
  job ends, since its reading is limited by `asyncio.timeout` and its writing is
  one transaction.  Nothing says with which token a process is started, which is
  why a source may also stay switched off.  Faults are bounded: with a process
  that always dies before it has claimed no source is polled.
* `ScreenSettles` (`Cockpit`): React runs effects, and a call ends after 30 seconds
  at the latest.  The property is about a page that its user and its timer leave
  alone from some time on.

Every other property is a safety property and holds of behaviours that stop as
well.

In `tabs` and `pinsrefused` the bound on undelivered events blocks
the writer that would exceed it, not the reader; two events per tab suffice for
an event that is older than a write of its own receiver and one that is newer.
That tabs may overlap between comparing and writing is in the model, and the
properties say so: `NoOverwriting`, `PointAdvances` and `FileAloneKeepsPoint`
promise nothing of a write during which another tab has written, as the comment
at `writeBaseline` admits.

In `edition` the clocks are four and ten hours after different midnights, so that
days, windows and validities cross in every way; the rows include one on each
bound of a window, a day, an open end, an inverted validity, a date that is
missing, repeated titles and relations.  Eleven highlights would fit without the
limit of eight.  A publication may have no line of a source without records, as
one of an older version of the site does; the panel then does not offer the
source, but may still have it chosen from before.

The three runs that are violated state a sentence of the repository:

* `stop`: `release_interrupted_lease` says it releases this worker's lease on
  an intentional stop.  A lease that is claimed while the signal arrives goes
  to a task that is cancelled before its first statement, so the handler that
  releases it never runs (`worker.py:94-104`); the source waits for the lease
  to expire.
* `split`: ARCHITECTURE.md:54 and README.md:108 say that a split protects the
  present records of both sides from being merged again.  Retention deletes an
  event of one side, and the cascade deletes its records' decisions; when such
  a record is read again, its keys point to the side that still lives.
* `pinsrefused`: after a refused write the page says that the choice works in
  this tab (`web/components/PublicMonitor.tsx:125`).  The next toggle starts
  from the stored list (line 121) and drops the choice; favourites keep
  `favoriteStorageBlocked` against this (line 111).

`race` has `NeedsKey = {}`; a source that a process starting without its key
disables, perhaps while another one polls it, is covered by the proofs, which
hold for any `NeedsKey`.
Some properties are theorems only and are not checked again by a run: the type
invariants, `NoTakeover` and `NoStalePublication` of `Leases`, `EachToldOnce` of
`Briefings`, `CursorAdvances` and `SeenWhenListed` of `CurrentList`, `MarkCovers`
and `NoRollback` of `Catalog`, `FavoritesOneAtATime`, `PointAdvances` and
`FileAloneKeepsPoint` of the tabs, `AppliedAfterCopy` of `Backup`.

## The proofs

TLC checks the instances above; TLAPS proves the same properties for every
value of the constants, from the named ASSUMEs of each module only.

| Module | Inductive invariant | Theorems |
|---|---|---|
| `LeasesProofs` | `LeaseInv` | types, `RunningIffLeased`, `WriterIsAlone`, `NoStalePublication`, `OutcomeIsFinal`, `NoTakeover`, `RefinesSingleWriter` |
| `BriefingsProofs` | `FeedInv` | types, `NothingMissed`, `CountsAgree`, `EachToldOnce`, `RefinesChangeFeed` |
| `SourcesProofs` | `ListInv`, `CatalogInv`, `RelationsInv`, `ClientInv`, `FeedInv` | types, `EvidenceShown`, `CursorAdvances`, `SeenWhenListed`; `MarkCovers`, `NewestShown`, `NoRollback`; `RelationsAreCurrent`; `NotModifiedIsCurrent`, `CacheCounted`, `LimitStopsFeed` |
| `PublicationsProofs` | `PageInv` | types, `PublishedIsReadable`, `LinesAgree`, `GoodReadsStay`, `RefinesPublicView` |
| `TabsProofs` | `SelectionInv`, `PointInv` | types, `TabsAgree`, `NoOverwriting`, `FavoritesOneAtATime`; `ComparesWithStored`, `PointAdvances`, `FileAloneKeepsPoint` |
| `SituationProofs` | `PageInv`, `FileOrdered` | types, `SameSelection`, `FiltersCoherent`, `BackgroundAgrees`, `AdvisoriesAgree`, `TimelineCovers`, `HighlightsFair` |
| `LocalProofs` | `BackupInv`, `CockpitInv`, `PanelInv` | `PairsDescribeOneState`, `AppliedAfterCopy`; `EvidenceKeepsUp`, `ManualFiltersStay`, `ReadingsNeverGoBack`; `BriefingNeverOlder` |
| `IdentityProofs` | `IdentityInv` | types, `RecordsAgree`, `EventsAreCurrent`, `HardTies`, `KeysAgree`, `OnlyStaleForgotten`, `NeverBackwards` |

* `LeaseInv`: owners that were not drawn yet appear nowhere; a lease names a
  run of its source, and a running run is named by its source; the content of a
  source is never from a later owner than its lease; a claim sampled its time in
  the past.  `RunningIffLeased` alone is not inductive: a claim could draw an
  owner some row already holds.  For the advisory lock, `LockInv` adds that a
  job has no thread before it has fetched: otherwise a task could replace a
  thread that holds the lock.
* `FeedInv`: the lock has one holder and only holders are past it; no stamp and
  no cursor is in the future; a writer's sampled time is behind no cursor; what
  a request has counted is still there.  From these `NothingMissed` is kept by
  the commit of a writer, which is the step that could break it.
* `ListInv`: everything stored is earlier than the newest reading stored, and an
  active warning's clock is not before the last complete list.  The guard on
  `now` in `_current_list_clock_invalid` is what keeps this when the host's
  clock goes back.
* `CatalogInv`: what was heard of an entry is not later than what it shows, and
  equal dates have equal contents.
* `PageInv`: the properties of the page; that what a build may take records from
  is the page, or nothing; and `Built`, that the file of a build, if there is
  one, consists of what was read and what was kept of the failed sources.  The
  second is what makes the chain inductive: the validity of the old publication,
  which the build checks, and its dates and marks, which it does not, both pass
  to the new one.
* `SelectionInv`: a toggle under way is one item away from what is stored, as
  long as no event has arrived since it began, and for favourites from what its
  tab shows.  What makes this inductive is that every write to the storage
  lengthens the queue of events of every other open tab, so whatever a tab has
  found there either still holds or has an event that tells otherwise.
* `PointInv`: by the same argument a comparison that found an older point, or a
  first visit that found none, is still right unless an event has arrived; and a
  tab with no event waiting agrees with the storage also in the middle of its
  own task, which `ComparesWithStored` alone does not say.

* `PageInv` of `SituationProofs`: the status of a row in a publication is the one
  it had at some clock not after the publication's, and a filter's window has
  its width and its source the chosen category.  The first is why a status of an
  earlier build makes no difference: expiry is final, and the page looks at
  `valid_to` itself.  That a day's anchor is a midnight (`RowAssumption`) is what
  `BackgroundAgrees` rests on: SQL adds 24 hours to the stored instant, Python to
  the start of its day.  `providers/common.py:171-179` stores dates without an
  hour that way.

* `BackupInv`: from the export on, what a command has read and written so far is the
  exported state, which is not older than its beginning; where `--apply` follows,
  the pair is readable; a whole manifest beside a whole dump with the suffix `.dump`
  describes it.
* `CockpitInv`: at most one call of each kind is listened to; an answer on its way
  is not older than what is shown of the same; no question is unanswered that was
  sent in the present generation of filters, once some were set by hand.  Unless its
  effect is due, the evidence, or the answer that will replace it, covers its row in
  the list: the effect on the revision becomes due the moment that fails.
* `PanelInv`: what is shown or on its way was stored; the latest is still taken only
  while nothing was made by this page.
* `IdentityInv`: the properties of the run, and what they rest on.  The key a record
  has of its own points to its event, so a record never has two; an observation is
  evidence of its record's event and of no other.  No record or observation has a
  later clock than its event, so that retention, which looks at the clock of the
  event alone, forgets a record with everything that names it, and a record that
  returns starts anew.  A key that points to an event without a manual decision was
  named by a record of that event (`KeysHaveNames`): otherwise a stale key could draw
  a record into an event it shares nothing with, and `HardTies` would not be
  inductive.  A view is one that its rows could give when it was last written, by
  whatever choice among ties.

* `RelationsInv`: in the middle of a transaction too, a relation is one by what its
  events say now, or one of them is still to be looked at (`SettledIsCurrent`); and a
  pair of which neither is, and that the rule relates, is there or was left out by the
  limit (`SettledIsComplete`).  With nothing left to do that is `RelationsAreCurrent`.
  `InOrder` says of `todo` that it has every event the batch touched.
* `ClientInv`: a request sends validators only of a body that it holds itself, and no
  body, in a request or in the cache, is of a later version than its page.  Hence
  `NotModifiedIsCurrent`: what the cache drops or replaces while the request is on
  its way is no concern of it.  `CacheCounted` needs the sum of the lengths over a
  sequence from which entries are removed in the middle and at the front, and added
  at the end: the sum of a concatenation is that of its parts (`LengthOfConcat`).
* `FeedInv` of `SourcesProofs`: no more documents are asked for than there are
  permits, fewer after a 429, and no delay that was told is longer than `blocked`.
* `FileOrdered`: a publication has finitely many events, of distinct ids.  The order
  of the candidates is then total and strict, so that every place in it is taken
  (`EveryPlaceTaken`), and the highlights are a recursive function over that list.
  Each pass keeps what the property says of the highlights so far and of the
  candidates looked at (`RepresentativeStep`, `FillerStep`); the representatives fit
  because their categories differ and are no more than `MaxHighlights`.

Recursive functions are reasoned about by induction: a set of numbers that has zero
and the successor of each of its numbers has all of them (`Induction`, from the
existence of a least element, `LeastNat`), and so a function defined by recursion
exists (`RecursionExists`).  Both are stated with sets, because the induction theorems
of the library take an operator, which no prover here instantiates.  They appear in
`SourcesProofs` and `SituationProofs`, whose modules are about different programs and
do not extend one another.

`CatalogAssumption` says of the rows of a build's database that they are finitely
many and their ids distinct, as those of a table with a primary key are.

Only model-checked: the liveness of `TabsSettle`, `EverySourcePolled` and
`ScreenSettles`, since liveness and ENABLED are beyond the prover; and what the
operators of `Providers`, `Listings`, `Evidence`, `Questions` and `Narratives` compute,
which TLC compares with reference definitions over the bounded inputs of their
assumptions.  Each of these is an equality of two descriptions of one document or
question, through folds of the library whose parameters are operators; no state of the
system depends on more of them than the properties of `Identity` already allow for any
payload.

## What is not modelled

* Adapters: what makes a whole document unreadable, countries, geometry,
  severity and texts, and the rate limit of MeteoAlarm, of which only its outcome,
  `Failed`, is left.  Serials of SWPC are ordered as numbers where the code orders
  texts.  An annotation of Radar that is deleted while the pages are read moves
  another one to a page already read: that reading lacks it and is not called
  partial.  The page offset is all the API offers, the next reading has it, and
  nothing is concluded from its absence, so no property speaks of it.
* Rendering, maps, formatting, the request guard and the proxy: no state whose
  order matters.
* In `Questions`: the words of the grammar, of which `other` is what is left when all
  expressions have taken theirs.  In `Narratives`: the relations told between facts,
  and what is said about the state of sources.
* `raw` payloads expiring after 30 days, `ingestion_runs` cleanup, the texts of
  revisions, geometry and country lookup: data that no modelled guard reads.
* In `Publications`: the checks of fields, links, geometry and byte size of a
  publication (a `Fail`, or a previous one that is not used), titles and texts,
  `newest_content_at`, and the life of the disposable database.
* In `Selections` and `ComparisonPoint`: the order of the lists, `updatedAt`, and
  what makes an entry invalid, which counts as none; publications dated ahead of
  the browser, which `writeBaseline` refuses like a full storage.
* In `Relations`: distances on a sphere and PostGIS, whose place a line of numbers
  takes; scores and the wording of the basis.
* In `Fetches`: the checks of hosts and addresses, which only make a request fail;
  the parsing of `Retry-After`; the time between a 429 and the moment its exception
  has unwound, in which the document that waits for the same permit may begin.  A
  server that tells versions apart by date alone and redirects to another page of
  the same host may answer 304 for a body of the first page;
  `NotModifiedIsCurrent` leaves that case out.
* In `Rotation`: the maintenance of each pass and the length of leases, which are
  those of `Leases`.
* In `Cockpit`: the states of sources and of health, which are read with every
  refresh like the list; paging, maps, scrolling, layout; the proxy, whose answers
  and timeouts are those of the calls and whose policy is stateless.
* In `Records`, `Explorer`, `Situation`: radius, region and the basis `changed`,
  which the page refuses and `Briefings` models; the number and the order of the
  rows shown; texts, counters by category, and warnings about sources.  Hours are
  whole: the five minutes that an evidence may be ahead of its file are none.
* In `Identity`: which of the rows that tie in every sort key is shown is the
  database's choice (`ingestion.py:400-425`); any is, and no property says which.
* In `Identity`: the CISA clock and the IMGW list, which have modules of their
  own; a change of NORMALIZER_VERSION, which has always been "1".
* In `Briefings`: historical first imports, which are counted apart; which facts
  `build_briefing` chooses is in `Narratives`.

## Plan

1. `Leases`, `SingleWriter`, `LeasesProofs` - done.
2. `Briefings`, `ChangeFeed`, `BriefingsProofs` - done.
3. `Identity`, `IdentityProofs` - done.
4. `CurrentList`, `Catalog` and their proofs - done.
5. The public chain: `Publications`, `PublicView`, `PublicationsProofs` - done;
   `Selections`, `ComparisonPoint` and their proofs - done.
6. What is shown: `Records`, `Explorer`, `Situation`, `SituationProofs` - done.
7. The HTTP client, `Fetches`, and the turns of the sources, `Rotation` - done.
8. The cockpit, `Cockpit` and `BriefingPanel`, and the copies, `Backup`, with their
   proofs - done.
9. The relations of events, `Relations`, and the proofs of it and of `Fetches`, in
   `SourcesProofs` - done.
10. The adapters as operators from documents to the payloads of `Identity`,
    `Providers` and `Listings` - done.
11. The pure algorithms against reference definitions: questions and answers
    (`Questions`), briefings (`Narratives`), the CAP cycle check and independent
    origins (`Evidence`) - done.
