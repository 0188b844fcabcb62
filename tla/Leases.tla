------------------------------- MODULE Leases -------------------------------
(***************************************************************************)
(* The polling protocol of the worker: claim_source, run_source,           *)
(* persist_batch, fail_source, release_interrupted_lease and the loops of  *)
(* worker.py around them, seen from the rows of `sources` and              *)
(* `ingestion_runs`.  A claim creates one lease owner (a uuid4), one run   *)
(* row and one job; all three are named by the same number, in the order   *)
(* of the claims.  A database call of a job is a thread of its own: it     *)
(* samples its `now`, takes its locks and commits in separate steps, and   *)
(* cancelling the job does not stop a thread that has begun.               *)
(***************************************************************************)
EXTENDS Integers, FiniteSets

CONSTANTS
  Sources,        \* the ids of the sources table
  NeedsKey,       \* the sources whose spec has requires_key
  LoopWorkers,    \* processes in the polling loop
  OnceWorkers,    \* processes started with --once
  MaxJobs,        \* parallel jobs of one process (3)
  LeaseSeconds,   \* claim_source's lease_seconds (900)
  FetchLimit,     \* the timeout around collect (840)
  PollSeconds,    \* spec.poll_interval_seconds
  BackoffCap,     \* 21600, the cap of the exponential delay
  RetryAfters,    \* the Retry-After values a source may answer
  MaxClock, MaxClaims   \* bounds of the model

ASSUME LeaseSecondsAssumption == LeaseSeconds \in Nat \ {0}
ASSUME BoundsAssumption == MaxClock \in Nat /\ MaxClaims \in Nat
ASSUME DelaysAssumption ==
  /\ FetchLimit \in Nat /\ PollSeconds \in Nat /\ BackoffCap \in Nat
  /\ RetryAfters \subseteq Nat /\ MaxJobs \in Nat

Workers == LoopWorkers \cup OnceWorkers
Owners  == 1..MaxClaims
None    == 0                   \* SQL NULL in lease_owner, and in lease_until
AnySource == "any source"      \* claim_source without a source id

VARIABLES
  clock,      \* utcnow()
  enabled, owner, until, due, failures, status,   \* columns of sources
  content,    \* the owner whose batch last counted as a success of the source
  runSource, runStatus,      \* ingestion_runs
  issued,     \* number of owners drawn so far
  lock,       \* the transaction that holds advisory lock 61704001
  proc,       \* worker processes
  todo,       \* the sources a --once process has not tried yet
  claims,     \* open claim transactions of a process
  job, home, deadline,       \* the run_source task of an owner
  write       \* its persist_batch or fail_source thread

sourceVars == <<enabled, owner, until, due, failures, status, content>>
runVars    == <<runSource, runStatus, issued>>
procVars   == <<proc, todo, claims>>
jobVars    == <<job, home, deadline>>
vars == <<clock, sourceVars, runVars, lock, procVars, jobVars, write>>

Running == {"queued", "open", "locked"}
ThreadType == [kind : {"none", "persist", "fail"}, now : Nat,
               phase : Running \cup {"idle", "committed", "lost", "error"}]
Thread(kind, phase, now) == [kind |-> kind, phase |-> phase, now |-> now]
Idle == Thread("none", "idle", 0)
Queued(kind) == Thread(kind, "queued", 0)

JobsOf(w) == {o \in Owners : home[o] = w /\ job[o] \notin {"none", "done"}}
RowLocked(s) == \E o \in Owners : runSource[o] = s /\ write[o].phase = "locked"
Larger(a, b) == IF a >= b THEN a ELSE b
Smaller(a, b) == IF a <= b THEN a ELSE b

(* sources and workers ****************************************************)
Init ==
  /\ clock = 1
  /\ enabled = [s \in Sources |-> FALSE]
  /\ owner = [s \in Sources |-> None]
  /\ until = [s \in Sources |-> None]
  /\ due = [s \in Sources |-> 0]
  /\ failures = [s \in Sources |-> 0]
  /\ status = [s \in Sources |-> "pending"]
  /\ content = [s \in Sources |-> None]
  /\ runSource = [o \in Owners |-> "none"]
  /\ runStatus = [o \in Owners |-> "none"]
  /\ issued = 0
  /\ lock = None
  /\ proc = [w \in Workers |-> "down"]
  /\ todo = [w \in Workers |-> {}]
  /\ claims = [w \in Workers |-> {}]
  /\ job = [o \in Owners |-> "none"]
  /\ home = [o \in Owners |-> "none"]
  /\ deadline = [o \in Owners |-> 0]
  /\ write = [o \in Owners |-> Idle]

Tick ==
  /\ clock < MaxClock
  /\ clock' = clock + 1
  /\ UNCHANGED <<sourceVars, runVars, lock, procVars, jobVars, write>>

(* seed_sources at process start; `key` is whether the optional token of   *)
(* the sources in NeedsKey is configured.                                  *)
SeededStatus(s, on) ==
  IF ~on THEN "needs_credentials"
  ELSE IF status[s] \in {"disabled", "needs_credentials"} THEN "pending" ELSE status[s]

Start(w, key) ==
  LET on(s) == s \notin NeedsKey \/ key IN
  /\ proc[w] = "down"
  /\ proc' = [proc EXCEPT ![w] = "up"]
  /\ todo' = [todo EXCEPT ![w] = IF w \in OnceWorkers THEN Sources ELSE {}]
  /\ enabled' = [s \in Sources |-> on(s)]
  /\ status' = [s \in Sources |-> SeededStatus(s, on(s))]
  /\ UNCHANGED <<clock, owner, until, due, failures, content, runVars, lock,
                 claims, jobVars, write>>

(* SIGTERM, SIGINT, or a database error in the loop: every job is to be    *)
(* cancelled, and the process ends when its threads have ended.            *)
Stop(w) ==
  /\ proc[w] = "up"
  /\ proc' = [proc EXCEPT ![w] = "stopping"]
  /\ todo' = [todo EXCEPT ![w] = {}]
  /\ UNCHANGED <<clock, sourceVars, runVars, lock, claims, jobVars, write>>

Threads(w) ==
  {o \in Owners : home[o] = w /\ write[o].phase \in Running}

Exit(w) ==
  /\ proc[w] = "stopping" \/ (proc[w] = "up" /\ w \in OnceWorkers /\ todo[w] = {})
  /\ claims[w] = {} /\ JobsOf(w) = {} /\ Threads(w) = {}
  /\ proc' = [proc EXCEPT ![w] = "down"]
  /\ UNCHANGED <<clock, sourceVars, runVars, lock, todo, claims, jobVars, write>>

(* The process dies: its open transactions are rolled back by PostgreSQL.  *)
Crash(w) ==
  /\ proc[w] # "down"
  /\ proc' = [proc EXCEPT ![w] = "down"]
  /\ todo' = [todo EXCEPT ![w] = {}]
  /\ claims' = [claims EXCEPT ![w] = {}]
  /\ job' = [o \in Owners |-> IF o \in JobsOf(w) THEN "done" ELSE job[o]]
  /\ write' = [o \in Owners |-> IF home[o] = w THEN Idle ELSE write[o]]
  /\ lock' = IF lock # None /\ home[lock] = w THEN None ELSE lock
  /\ UNCHANGED <<clock, sourceVars, runVars, home, deadline>>

(* claim_source ***********************************************************)
BeginClaim(w, target) ==
  /\ proc[w] = "up"
  /\ \/ w \in LoopWorkers /\ target = AnySource /\ claims[w] = {}
     \/ w \in OnceWorkers /\ target \in todo[w]
  /\ Cardinality(JobsOf(w)) + Cardinality(claims[w]) < MaxJobs
  /\ todo' = [todo EXCEPT ![w] = @ \ {target}]
  /\ claims' = [claims EXCEPT ![w] = @ \cup {[target |-> target, now |-> clock]}]
  /\ UNCHANGED <<clock, sourceVars, runVars, lock, proc, jobVars, write>>

(* Faulty variants of the definitions below, one for each way the fence    *)
(* could be lost; they show that the properties notice it.                 *)
ClaimableLocked(w, c) ==    \* FOR UPDATE forgotten
  {s \in Sources : /\ enabled[s] /\ until[s] <= c.now
                   /\ w \in OnceWorkers \/ due[s] <= c.now
                   /\ c.target \in {AnySource, s}}
HoldsLeaseByClock(o, now) ==          \* the owner not compared
  until[runSource[o]] # None /\ until[runSource[o]] > now
SetRunNothing(o, value) == UNCHANGED runStatus          \* the run not closed
PersistOpenUnlocked(o) ==             \* the advisory lock not awaited
  /\ write[o].kind = "persist" /\ write[o].phase = "queued"
  /\ lock' = o
  /\ write' = [write EXCEPT ![o] = Thread(@.kind, "open", clock)]
  /\ UNCHANGED <<clock, sourceVars, runVars, procVars, jobVars>>

(* The rows the SELECT of a claim may return: SKIP LOCKED passes over a    *)
(* row whose writer has not committed yet, --once ignores next_due_at.     *)
Claimable(w, c) ==
  {s \in Sources : /\ enabled[s]
                   /\ until[s] <= c.now
                   /\ w \in OnceWorkers \/ due[s] <= c.now
                   /\ c.target \in {AnySource, s}
                   /\ ~RowLocked(s)}

Claim(w, c) ==
  /\ c \in claims[w]
  /\ issued < MaxClaims
  /\ \E s \in Claimable(w, c) :
       LET o == issued + 1 IN
       /\ \A x \in Claimable(w, c) : due[s] <= due[x]
       /\ owner' = [owner EXCEPT ![s] = o]
       /\ until' = [until EXCEPT ![s] = c.now + LeaseSeconds]
       /\ runSource' = [runSource EXCEPT ![o] = s]
       /\ runStatus' = [x \in Owners |->
            IF x = o THEN "running"
            ELSE IF runSource[x] = s /\ runStatus[x] = "running" THEN "lease_expired"
            ELSE runStatus[x]]
       /\ issued' = o
       /\ job' = [job EXCEPT ![o] = "unstarted"]
       /\ home' = [home EXCEPT ![o] = w]
  /\ claims' = [claims EXCEPT ![w] = @ \ {c}]
  /\ UNCHANGED <<clock, enabled, due, failures, status, content, lock, proc, todo,
                 deadline, write>>

ClaimNothing(w, c) ==
  /\ c \in claims[w]
  /\ Claimable(w, c) = {}
  /\ claims' = [claims EXCEPT ![w] = @ \ {c}]
  /\ UNCHANGED <<clock, sourceVars, runVars, lock, proc, todo, jobVars, write>>

ClaimError(w, c) ==
  /\ c \in claims[w]
  /\ claims' = [claims EXCEPT ![w] = @ \ {c}]
  /\ proc' = [proc EXCEPT ![w] = "stopping"]
  /\ todo' = [todo EXCEPT ![w] = {}]
  /\ UNCHANGED <<clock, sourceVars, runVars, lock, jobVars, write>>

(* run_source: the task of one owner **************************************)
StartJob(o) ==
  /\ job[o] = "unstarted" /\ proc[home[o]] = "up"
  /\ job' = [job EXCEPT ![o] = "fetching"]
  /\ deadline' = [deadline EXCEPT ![o] = clock + FetchLimit]
  /\ UNCHANGED <<clock, sourceVars, runVars, lock, procVars, home, write>>

Fetched(o) ==
  /\ job[o] = "fetching" /\ clock <= deadline[o]
  /\ job' = [job EXCEPT ![o] = "persisting"]
  /\ write' = [write EXCEPT ![o] = Queued("persist")]
  /\ deadline' = [deadline EXCEPT ![o] = 0]
  /\ UNCHANGED <<clock, sourceVars, runVars, lock, procVars, home>>

(* An adapter or transport error at any time, or the timeout of collect.   *)
FetchFailed(o) ==
  /\ job[o] = "fetching"
  /\ job' = [job EXCEPT ![o] = "failing"]
  /\ write' = [write EXCEPT ![o] = Queued("fail")]
  /\ deadline' = [deadline EXCEPT ![o] = 0]
  /\ UNCHANGED <<clock, sourceVars, runVars, lock, procVars, home>>

(* The coroutine sees the end of its thread.  LeaseLost and a database     *)
(* error while failing end the job; an error while persisting is reported  *)
(* with fail_source.                                                       *)
Resume(o) ==
  /\ job[o] \in {"persisting", "failing"}
  /\ write[o].phase \in {"committed", "lost", "error"}
  /\ IF job[o] = "persisting" /\ write[o].phase = "error"
     THEN /\ job' = [job EXCEPT ![o] = "failing"]
          /\ write' = [write EXCEPT ![o] = Queued("fail")]
     ELSE /\ job' = [job EXCEPT ![o] = "done"]
          /\ write' = [write EXCEPT ![o] = Idle]
  /\ UNCHANGED <<clock, sourceVars, runVars, lock, procVars, home, deadline>>

(* CancelledError reaches the task.  Before the first statement, or inside *)
(* the except-branch that reports a failure, there is no handler that      *)
(* releases the lease.  A thread not yet begun may be dropped.             *)
Cancel(o) ==
  /\ job[o] \in {"unstarted", "fetching", "persisting", "failing"}
  /\ proc[home[o]] = "stopping"
  /\ IF job[o] \in {"fetching", "persisting"}
     THEN job' = [job EXCEPT ![o] = "releasing"]
     ELSE job' = [job EXCEPT ![o] = "done"]
  /\ \/ UNCHANGED write
     \/ write[o].phase = "queued" /\ write' = [write EXCEPT ![o] = Idle]
  /\ deadline' = [deadline EXCEPT ![o] = 0]
  /\ UNCHANGED <<clock, sourceVars, runVars, lock, procVars, home>>

(* The fence: check_lease under the row lock ******************************)
HoldsLease(o, now) ==
  LET s == runSource[o] IN owner[s] = o /\ until[s] # None /\ until[s] > now

EndThread(o, phase) == write' = [write EXCEPT ![o] = Thread(@.kind, phase, 0)]
SetRun(o, value) == runStatus' = [runStatus EXCEPT ![o] = value]
FreeLease(s) ==
  /\ owner' = [owner EXCEPT ![s] = None]
  /\ until' = [until EXCEPT ![s] = None]

(* persist_batch: the advisory lock, then `now`, then the row lock.        *)
PersistOpen(o) ==
  /\ write[o].kind = "persist" /\ write[o].phase = "queued"
  /\ lock = None
  /\ lock' = o
  /\ write' = [write EXCEPT ![o] = Thread(@.kind, "open", clock)]
  /\ UNCHANGED <<clock, sourceVars, runVars, procVars, jobVars>>

PersistCheck(o) ==
  /\ write[o].kind = "persist" /\ write[o].phase = "open"
  /\ ~RowLocked(runSource[o])
  /\ IF HoldsLease(o, write[o].now)
     THEN /\ write' = [write EXCEPT ![o] = Thread(@.kind, "locked", @.now)]
          /\ UNCHANGED lock
     ELSE EndThread(o, "lost") /\ lock' = None
  /\ UNCHANGED <<clock, sourceVars, runVars, procVars, jobVars>>

PersistCommit(o, partial, hasData, retryAfter) ==
  LET s == runSource[o] IN
  /\ write[o].kind = "persist" /\ write[o].phase = "locked"
  /\ EndThread(o, "committed") /\ lock' = None
  /\ status' = [status EXCEPT ![s] = IF partial THEN "partial" ELSE "ok"]
  /\ content' = [content EXCEPT ![s] = IF hasData \/ ~partial THEN o ELSE @]
  /\ failures' = [failures EXCEPT ![s] = IF partial THEN @ ELSE 0]
  /\ due' = [due EXCEPT ![s] = write[o].now + Larger(PollSeconds, retryAfter)]
  /\ FreeLease(s)
  /\ SetRun(o, IF partial THEN "partial" ELSE "ok")
  /\ UNCHANGED <<clock, enabled, runSource, issued, procVars, jobVars>>

(* fail_source samples its `now` before it waits for the row.              *)
Doublings == <<1, 2, 4, 8, 16, 32, 64>>     \* 2 ** min(failures - 1, 6)

Backoff(failed, retryAfter) ==
  Larger(Smaller(BackoffCap, PollSeconds * Doublings[Smaller(failed, 7)]), retryAfter)

FailOpen(o) ==
  /\ write[o].kind = "fail" /\ write[o].phase = "queued"
  /\ write' = [write EXCEPT ![o] = Thread(@.kind, "open", clock)]
  /\ UNCHANGED <<clock, sourceVars, runVars, lock, procVars, jobVars>>

FailCommit(o, outcome, retryAfter) ==
  LET s == runSource[o] IN
  /\ write[o].kind = "fail" /\ write[o].phase = "open"
  /\ ~RowLocked(s)
  /\ HoldsLease(o, write[o].now)
  /\ EndThread(o, "committed")
  /\ status' = [status EXCEPT ![s] = outcome]
  /\ failures' = [failures EXCEPT ![s] = @ + 1]
  /\ due' = [due EXCEPT ![s] = write[o].now + Backoff(failures[s] + 1, retryAfter)]
  /\ FreeLease(s)
  /\ SetRun(o, outcome)
  /\ UNCHANGED <<clock, enabled, content, runSource, issued, lock, procVars, jobVars>>

FailLost(o) ==
  /\ write[o].kind = "fail" /\ write[o].phase = "open"
  /\ ~RowLocked(runSource[o])
  /\ ~HoldsLease(o, write[o].now)
  /\ EndThread(o, "lost")
  /\ UNCHANGED <<clock, sourceVars, runVars, lock, procVars, jobVars>>

(* The database fails the transaction before its commit: rollback.         *)
WriteError(o) ==
  /\ write[o].phase \in Running
  /\ EndThread(o, "error")
  /\ lock' = IF lock = o THEN None ELSE lock
  /\ UNCHANGED <<clock, sourceVars, runVars, procVars, jobVars>>

(* release_interrupted_lease, the thread of a cancelled job, compares only *)
(* the owner; a database error leaves the lease to expire.                 *)
Release(o) ==
  LET s == runSource[o] IN
  /\ job[o] = "releasing" /\ ~RowLocked(s)
  /\ job' = [job EXCEPT ![o] = "done"]
  /\ IF owner[s] = o
     THEN /\ FreeLease(s)
          /\ due' = [due EXCEPT ![s] = clock]
          /\ runStatus' = [runStatus EXCEPT ![o] = IF @ = "running" THEN "interrupted" ELSE @]
     ELSE UNCHANGED <<owner, until, due, runStatus>>
  /\ UNCHANGED <<clock, enabled, failures, status, content, runSource, issued, lock,
                 procVars, home, deadline, write>>

ReleaseError(o) ==
  /\ job[o] = "releasing"
  /\ job' = [job EXCEPT ![o] = "done"]
  /\ UNCHANGED <<clock, sourceVars, runVars, lock, procVars, home, deadline, write>>

(* specification **********************************************************)
ProcessStep(w) ==
  \/ \E key \in BOOLEAN : Start(w, key)
  \/ Stop(w) \/ Exit(w) \/ Crash(w)
  \/ \E target \in Sources \cup {AnySource} : BeginClaim(w, target)
  \/ \E c \in claims[w] : Claim(w, c) \/ ClaimNothing(w, c) \/ ClaimError(w, c)

JobStep(o) ==
  \/ StartJob(o) \/ Fetched(o) \/ FetchFailed(o) \/ Resume(o) \/ Cancel(o)

ThreadStep(o) ==
  \/ PersistOpen(o) \/ PersistCheck(o)
  \/ \E partial, hasData \in BOOLEAN, retryAfter \in RetryAfters :
       PersistCommit(o, partial, hasData, retryAfter)
  \/ FailOpen(o) \/ FailLost(o)
  \/ \E outcome \in {"error", "needs_credentials"}, retryAfter \in RetryAfters :
       FailCommit(o, outcome, retryAfter)
  \/ WriteError(o)
  \/ Release(o) \/ ReleaseError(o)

Next ==
  \/ Tick
  \/ \E w \in Workers : ProcessStep(w)
  \/ \E o \in Owners : JobStep(o) \/ ThreadStep(o)

Spec == Init /\ [][Next]_vars

(* properties *************************************************************)
SourceTypes ==
  /\ enabled \in [Sources -> BOOLEAN]
  /\ owner \in [Sources -> Owners \cup {None}]
  /\ until \in [Sources -> Nat]
  /\ due \in [Sources -> Nat]
  /\ failures \in [Sources -> Nat]
  /\ status \in [Sources -> {"pending", "needs_credentials", "ok", "partial", "error"}]
  /\ content \in [Sources -> Owners \cup {None}]

RunTypes ==
  /\ runSource \in [Owners -> Sources \cup {"none"}]
  /\ runStatus \in [Owners -> {"none", "running", "lease_expired", "ok", "partial",
                               "error", "needs_credentials", "interrupted"}]
  /\ issued \in 0..MaxClaims

ProcTypes ==
  /\ proc \in [Workers -> {"down", "up", "stopping"}]
  /\ todo \in [Workers -> SUBSET Sources]
  /\ claims \in [Workers -> SUBSET [target : Sources \cup {AnySource}, now : Nat]]

JobTypes ==
  /\ job \in [Owners -> {"none", "unstarted", "fetching", "persisting", "failing",
                         "releasing", "done"}]
  /\ home \in [Owners -> Workers \cup {"none"}]
  /\ deadline \in [Owners -> Nat]
  /\ write \in [Owners -> ThreadType]
  /\ lock \in Owners \cup {None}

TypeOK == clock \in Nat /\ SourceTypes /\ RunTypes /\ ProcTypes /\ JobTypes

(* The row of a source and its history agree: the run of an owner is       *)
(* 'running' exactly while that owner is in lease_owner.  Every commit that*)
(* clears or replaces the lease has to end the run in the same             *)
(* transaction, whichever of claim, persist, fail and release it is        *)
(* (ingestion.py:65-69, 641-654, 667-674, 738-747).                        *)
RunningIffLeased ==
  \A o \in Owners :
    runStatus[o] = "running" <=> (\E s \in Sources : owner[s] = o /\ runSource[o] = s)

(* While persist_batch is between its fence and its commit, its source     *)
(* still belongs to it, however far the clock has run past lease_until:    *)
(* the row lock of check_lease and SKIP LOCKED keep successors out         *)
(* (ingestion.py:61, 85).                                                  *)
WriterKeepsLease ==
  \A o \in Owners : write[o].phase = "locked" => owner[runSource[o]] = o

(* Advisory lock 61704001 is held exactly by the one persist_batch that is *)
(* past its first statement; a rollback or a dead process returns it       *)
(* (ingestion.py:532).                                                     *)
Persists(o) == write[o].kind = "persist" /\ write[o].phase \in {"open", "locked"}
AdvisoryLockExact == \A o \in Owners : Persists(o) <=> lock = o

(* A batch that is being stored is alone: no other writes events, whatever *)
(* its source, and none is granted its source.                             *)
WriterIsAlone == AdvisoryLockExact /\ WriterKeepsLease

(* ARCHITECTURE.md:29: the result of a late worker publishes no change.    *)
(* The batch a source shows never goes back to one of an earlier claim.    *)
NoStalePublication == [][\A s \in Sources : content'[s] >= content[s]]_vars

(* A run has one outcome: once it is ok, partial, failed, interrupted or   *)
(* lease_expired, no thread of any process changes it.                     *)
OutcomeIsFinal ==
  [][\A o \in Owners : runStatus[o] \notin {"none", "running"} => runStatus'[o] = runStatus[o]]_vars

(* ARCHITECTURE.md:26: a competing worker cannot take over an active       *)
(* lease.  The lease passes directly from one owner to another only after  *)
(* it has expired on the real clock, whatever `now` the claim sampled.     *)
NoTakeover ==
  [][\A s \in Sources : owner[s] # None /\ owner'[s] \notin {None, owner[s]} => until[s] <= clock]_vars

(* What ingestion.py:735-748 promises: an intentional stop releases the    *)
(* leases of the worker, so that when the process has ended in order no    *)
(* run of it is left 'running' under an unexpired lease.                   *)
ReliableNext ==
  \/ Tick
  \/ \E w \in Workers :
       \/ \E key \in BOOLEAN : Start(w, key)
       \/ Stop(w) \/ Exit(w)
       \/ \E target \in Sources \cup {AnySource} : BeginClaim(w, target)
       \/ \E c \in claims[w] : Claim(w, c) \/ ClaimNothing(w, c)
  \/ \E o \in Owners :
       \/ JobStep(o)
       \/ PersistOpen(o) \/ PersistCheck(o) \/ FailOpen(o) \/ FailLost(o) \/ Release(o)
       \/ \E partial, hasData \in BOOLEAN, retryAfter \in RetryAfters :
            PersistCommit(o, partial, hasData, retryAfter)
       \/ \E outcome \in {"error", "needs_credentials"}, retryAfter \in RetryAfters :
            FailCommit(o, outcome, retryAfter)

ReliableSpec == Init /\ [][ReliableNext]_vars

OrderlyStopReleases ==
  [][\A w \in Workers : proc[w] = "stopping" /\ proc'[w] = "down" =>
       \A o \in Owners : home[o] = w /\ runStatus[o] = "running" =>
         until[runSource[o]] <= clock]_vars

(* refinement *************************************************************)
(* Seen from lease_owner and the last published batch, the protocol is the *)
(* register of SingleWriter.                                               *)
Register == INSTANCE SingleWriter WITH holder <- owner, published <- content, granted <- issued

RefinesSingleWriter == Register!Spec
=============================================================================
