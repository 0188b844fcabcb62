---------------------------- MODULE LeasesProofs ----------------------------
(***************************************************************************)
(* Proofs about Leases, for every set of sources and workers, every lease  *)
(* length and every bound.  The inductive invariant LeaseInv says what the *)
(* fence of check_lease rests on: owners are numbered in the order of the  *)
(* claims, a lease and a running run name each other, and a row whose      *)
(* writer has passed the fence still carries that writer's owner.          *)
(***************************************************************************)
EXTENDS Leases, TLAPS

(* An owner not drawn yet has left no trace.                               *)
FreshOwners ==
  \A o \in Owners : o > issued =>
    runSource[o] = "none" /\ runStatus[o] = "none" /\ job[o] = "none" /\ write[o] = Idle

DrawnOwners == \A o \in Owners : o <= issued => runSource[o] \in Sources

LeaseNamesRun ==
  \A s \in Sources : owner[s] # None =>
    /\ runSource[owner[s]] = s /\ runStatus[owner[s]] = "running"
    /\ until[s] # None

RunNamesLease ==
  \A o \in Owners : runStatus[o] = "running" => runSource[o] \in Sources /\ owner[runSource[o]] = o

ContentIsPast ==
  \A s \in Sources : content[s] <= issued /\ (owner[s] # None => content[s] < owner[s])

ClaimsSampledBefore == \A w \in Workers : \A c \in claims[w] : c.now <= clock

LeaseInv ==
  /\ TypeOK /\ FreshOwners /\ DrawnOwners /\ LeaseNamesRun /\ RunNamesLease
  /\ ContentIsPast /\ ClaimsSampledBefore /\ WriterKeepsLease

LEMMA BackoffType ==
  ASSUME NEW f \in Nat, NEW r \in RetryAfters
  PROVE  Backoff(f + 1, r) \in Nat
<1>1. Smaller(f + 1, 7) \in 1..7
  BY DEF Smaller
<1>2. Doublings[Smaller(f + 1, 7)] \in Nat
  BY <1>1 DEF Doublings
<1>3. PollSeconds * Doublings[Smaller(f + 1, 7)] \in Nat
  BY <1>2, DelaysAssumption
<1> QED
  BY <1>3, DelaysAssumption DEF Backoff, Larger, Smaller
LEMMA ThreadTyped ==
  ASSUME NEW k \in {"none", "persist", "fail"}, NEW n \in Nat,
         NEW p \in Running \cup {"idle", "committed", "lost", "error"}
  PROVE  Thread(k, p, n) \in ThreadType
BY DEF Thread, ThreadType

(* An owner with a job or a thread has been drawn, so its run has a source. *)
LEMMA ActiveDrawn ==
  ASSUME TypeOK, FreshOwners, DrawnOwners, NEW o \in Owners,
         job[o] # "none" \/ write[o].phase # "idle"
  PROVE  o <= issued /\ runSource[o] \in Sources
<1>1. o <= issued
  BY BoundsAssumption DEF TypeOK, RunTypes, FreshOwners, Owners, Idle, Thread
<1> QED
  BY <1>1 DEF DrawnOwners

LEMMA InitInv == Init => LeaseInv
BY BoundsAssumption DEF Init, LeaseInv, TypeOK, FreshOwners, DrawnOwners, LeaseNamesRun,
   RunNamesLease, ContentIsPast, ClaimsSampledBefore, WriterKeepsLease, Idle, Owners, None, Running,
   Thread, ThreadType, SourceTypes, RunTypes, ProcTypes, JobTypes

LEMMA TypeStep == TypeOK /\ FreshOwners /\ DrawnOwners /\ [Next]_vars => TypeOK'
<1> SUFFICES ASSUME TypeOK, DrawnOwners, FreshOwners, [Next]_vars PROVE TypeOK'
  OBVIOUS
<1> USE BoundsAssumption, LeaseSecondsAssumption, DelaysAssumption DEF TypeOK
<1>1. ASSUME NEW w \in Workers, NEW key \in BOOLEAN, Start(w, key)
      PROVE  TypeOK'
  <2>1. clock' \in Nat
    BY <1>1 DEF Start
  <2>2. SourceTypes'
    BY <1>1 DEF Start, SeededStatus, SourceTypes, RunTypes, ProcTypes, JobTypes, ThreadType, Owners, None, sourceVars, runVars
  <2>3. RunTypes'
    BY <1>1 DEF Start, SeededStatus, RunTypes, Owners, runVars
  <2>4. ProcTypes'
    BY <1>1 DEF Start, SeededStatus, ProcTypes, procVars
  <2>5. JobTypes'
    BY <1>1, ThreadTyped DEF Start, SeededStatus, JobTypes, jobVars, Idle, Running, ThreadType
  <2> QED
    BY <2>1, <2>2, <2>3, <2>4, <2>5
<1>2. ASSUME NEW w \in Workers, Stop(w)
      PROVE  TypeOK'
  <2>1. clock' \in Nat
    BY <1>2 DEF Stop
  <2>2. SourceTypes'
    BY <1>2 DEF Stop, SourceTypes, RunTypes, ProcTypes, JobTypes, ThreadType, Owners, None, sourceVars, runVars
  <2>3. RunTypes'
    BY <1>2 DEF Stop, RunTypes, Owners, runVars
  <2>4. ProcTypes'
    BY <1>2 DEF Stop, ProcTypes, procVars
  <2>5. JobTypes'
    BY <1>2, ThreadTyped DEF Stop, JobTypes, jobVars, Idle, Running, ThreadType
  <2> QED
    BY <2>1, <2>2, <2>3, <2>4, <2>5
<1>3. ASSUME NEW w \in Workers, Exit(w)
      PROVE  TypeOK'
  <2>1. clock' \in Nat
    BY <1>3 DEF Exit
  <2>2. SourceTypes'
    BY <1>3 DEF Exit, SourceTypes, RunTypes, ProcTypes, JobTypes, ThreadType, Owners, None, sourceVars, runVars
  <2>3. RunTypes'
    BY <1>3 DEF Exit, RunTypes, Owners, runVars
  <2>4. ProcTypes'
    BY <1>3 DEF Exit, ProcTypes, procVars
  <2>5. JobTypes'
    BY <1>3, ThreadTyped DEF Exit, JobTypes, jobVars, Idle, Running, ThreadType
  <2> QED
    BY <2>1, <2>2, <2>3, <2>4, <2>5
<1>4. ASSUME NEW w \in Workers, Crash(w)
      PROVE  TypeOK'
  <2>1. clock' \in Nat
    BY <1>4 DEF Crash
  <2>2. SourceTypes'
    BY <1>4 DEF Crash, SourceTypes, RunTypes, ProcTypes, JobTypes, ThreadType, Owners, None, sourceVars, runVars
  <2>3. RunTypes'
    BY <1>4 DEF Crash, RunTypes, Owners, runVars
  <2>4. ProcTypes'
    BY <1>4 DEF Crash, ProcTypes, procVars
  <2>5. JobTypes'
    BY <1>4, ThreadTyped DEF Crash, JobTypes, jobVars, Idle, Running, ThreadType
  <2> QED
    BY <2>1, <2>2, <2>3, <2>4, <2>5
<1>5. ASSUME NEW w \in Workers, NEW target \in Sources \cup {AnySource}, BeginClaim(w, target)
      PROVE  TypeOK'
  <2>1. clock' \in Nat
    BY <1>5 DEF BeginClaim
  <2>2. SourceTypes'
    BY <1>5 DEF BeginClaim, SourceTypes, RunTypes, ProcTypes, JobTypes, ThreadType, Owners, None, sourceVars, runVars
  <2>3. RunTypes'
    BY <1>5 DEF BeginClaim, RunTypes, Owners, runVars
  <2>4. ProcTypes'
    BY <1>5 DEF BeginClaim, ProcTypes, procVars
  <2>5. JobTypes'
    BY <1>5, ThreadTyped DEF BeginClaim, JobTypes, jobVars, Idle, Running, ThreadType
  <2> QED
    BY <2>1, <2>2, <2>3, <2>4, <2>5
<1>6. ASSUME NEW w \in Workers, NEW c \in claims[w], Claim(w, c)
      PROVE  TypeOK'
  <2>1. clock' \in Nat /\ ProcTypes'
    BY <1>6 DEF Claim, ProcTypes
  <2>2. PICK s \in Claimable(w, c) :
          /\ owner' = [owner EXCEPT ![s] = issued + 1]
          /\ until' = [until EXCEPT ![s] = c.now + LeaseSeconds]
          /\ runSource' = [runSource EXCEPT ![issued + 1] = s]
          /\ runStatus' = [x \in Owners |->
               IF x = issued + 1 THEN "running"
               ELSE IF runSource[x] = s /\ runStatus[x] = "running" THEN "lease_expired"
               ELSE runStatus[x]]
          /\ issued' = issued + 1
          /\ job' = [job EXCEPT ![issued + 1] = "unstarted"]
          /\ home' = [home EXCEPT ![issued + 1] = w]
    BY <1>6 DEF Claim
  <2>3. s \in Sources /\ c.now \in Nat /\ issued + 1 \in Owners
    BY <1>6 DEF Claim, Claimable, ProcTypes, RunTypes, Owners
  <2>4. SourceTypes'
    <3>1. c.now + LeaseSeconds \in Nat
      BY <2>3
    <3>2. until' \in [Sources -> Nat] /\ owner' \in [Sources -> Owners \cup {None}]
      BY <2>2, <2>3, <3>1 DEF SourceTypes
    <3> QED
      BY <1>6, <3>2 DEF Claim, SourceTypes
  <2>5. RunTypes'
    BY <1>6, <2>2, <2>3 DEF RunTypes, Owners
  <2>6. JobTypes'
    BY <1>6, <2>2, <2>3 DEF Claim, JobTypes
  <2> QED
    BY <2>1, <2>4, <2>5, <2>6
<1>7. ASSUME NEW w \in Workers, NEW c \in claims[w], ClaimNothing(w, c)
      PROVE  TypeOK'
  <2>1. clock' \in Nat
    BY <1>7 DEF ClaimNothing
  <2>2. SourceTypes'
    BY <1>7 DEF ClaimNothing, SourceTypes, RunTypes, ProcTypes, JobTypes, ThreadType, Owners, None, sourceVars, runVars
  <2>3. RunTypes'
    BY <1>7 DEF ClaimNothing, RunTypes, Owners, runVars
  <2>4. ProcTypes'
    BY <1>7 DEF ClaimNothing, ProcTypes, procVars
  <2>5. JobTypes'
    BY <1>7, ThreadTyped DEF ClaimNothing, JobTypes, jobVars, Idle, Running, ThreadType
  <2> QED
    BY <2>1, <2>2, <2>3, <2>4, <2>5
<1>8. ASSUME NEW w \in Workers, NEW c \in claims[w], ClaimError(w, c)
      PROVE  TypeOK'
  <2>1. clock' \in Nat
    BY <1>8 DEF ClaimError
  <2>2. SourceTypes'
    BY <1>8 DEF ClaimError, SourceTypes, RunTypes, ProcTypes, JobTypes, ThreadType, Owners, None, sourceVars, runVars
  <2>3. RunTypes'
    BY <1>8 DEF ClaimError, RunTypes, Owners, runVars
  <2>4. ProcTypes'
    BY <1>8 DEF ClaimError, ProcTypes, procVars
  <2>5. JobTypes'
    BY <1>8, ThreadTyped DEF ClaimError, JobTypes, jobVars, Idle, Running, ThreadType
  <2> QED
    BY <2>1, <2>2, <2>3, <2>4, <2>5
<1>9. ASSUME NEW o \in Owners, StartJob(o)
      PROVE  TypeOK'
  <2>1. clock + FetchLimit \in Nat
    OBVIOUS
  <2>2. JobTypes'
    BY <1>9, <2>1 DEF StartJob, JobTypes
  <2> QED
    BY <1>9, <2>2 DEF StartJob, SourceTypes, RunTypes, ProcTypes, sourceVars, runVars, procVars
<1>10. ASSUME NEW o \in Owners, Fetched(o)
      PROVE  TypeOK'
  <2>1. clock' \in Nat
    BY <1>10 DEF Fetched
  <2>2. SourceTypes'
    BY <1>10 DEF Fetched, Queued, SourceTypes, RunTypes, ProcTypes, JobTypes, ThreadType, Owners, None, sourceVars, runVars
  <2>3. RunTypes'
    BY <1>10 DEF Fetched, Queued, RunTypes, Owners, runVars
  <2>4. ProcTypes'
    BY <1>10 DEF Fetched, Queued, ProcTypes, procVars
  <2>5. JobTypes'
    BY <1>10, ThreadTyped DEF Fetched, Queued, JobTypes, jobVars, Idle, Running, ThreadType
  <2> QED
    BY <2>1, <2>2, <2>3, <2>4, <2>5
<1>11. ASSUME NEW o \in Owners, FetchFailed(o)
      PROVE  TypeOK'
  <2>1. clock' \in Nat
    BY <1>11 DEF FetchFailed
  <2>2. SourceTypes'
    BY <1>11 DEF FetchFailed, Queued, SourceTypes, RunTypes, ProcTypes, JobTypes, ThreadType, Owners, None, sourceVars, runVars
  <2>3. RunTypes'
    BY <1>11 DEF FetchFailed, Queued, RunTypes, Owners, runVars
  <2>4. ProcTypes'
    BY <1>11 DEF FetchFailed, Queued, ProcTypes, procVars
  <2>5. JobTypes'
    BY <1>11, ThreadTyped DEF FetchFailed, Queued, JobTypes, jobVars, Idle, Running, ThreadType
  <2> QED
    BY <2>1, <2>2, <2>3, <2>4, <2>5
<1>12. ASSUME NEW o \in Owners, Resume(o)
      PROVE  TypeOK'
  <2>1. Idle \in ThreadType /\ Queued("fail") \in ThreadType
    BY ThreadTyped DEF Idle, Queued, Running
  <2>2. JobTypes'
    BY <1>12, <2>1 DEF Resume, JobTypes
  <2> QED
    BY <1>12, <2>2 DEF Resume, SourceTypes, RunTypes, ProcTypes, sourceVars, runVars, procVars
<1>13. ASSUME NEW o \in Owners, Cancel(o)
      PROVE  TypeOK'
  <2>1. Idle \in ThreadType
    BY ThreadTyped DEF Idle
  <2>2. write' \in [Owners -> ThreadType]
    BY <1>13, <2>1 DEF Cancel, JobTypes
  <2>3. JobTypes'
    BY <1>13, <2>2 DEF Cancel, JobTypes
  <2> QED
    BY <1>13, <2>3 DEF Cancel, SourceTypes, RunTypes, ProcTypes, sourceVars, runVars, procVars
<1>14. ASSUME NEW o \in Owners, PersistOpen(o)
      PROVE  TypeOK'
  <2>1. clock' \in Nat
    BY <1>14 DEF PersistOpen
  <2>2. SourceTypes'
    BY <1>14 DEF PersistOpen, SourceTypes, RunTypes, ProcTypes, JobTypes, ThreadType, Owners, None, sourceVars, runVars
  <2>3. RunTypes'
    BY <1>14 DEF PersistOpen, RunTypes, Owners, runVars
  <2>4. ProcTypes'
    BY <1>14 DEF PersistOpen, ProcTypes, procVars
  <2>5. JobTypes'
    BY <1>14, ThreadTyped DEF PersistOpen, JobTypes, jobVars, Idle, Running, ThreadType
  <2> QED
    BY <2>1, <2>2, <2>3, <2>4, <2>5
<1>15. ASSUME NEW o \in Owners, PersistCheck(o)
      PROVE  TypeOK'
  <2>1. /\ Thread(write[o].kind, "locked", write[o].now) \in ThreadType
        /\ Thread(write[o].kind, "lost", 0) \in ThreadType
    BY ThreadTyped DEF JobTypes, ThreadType, Running
  <2>2. JobTypes'
    <3>1. write' \in [Owners -> ThreadType]
      BY <1>15, <2>1 DEF PersistCheck, EndThread, JobTypes
    <3>2. lock' \in Owners \cup {None}
      BY <1>15 DEF PersistCheck, JobTypes
    <3> QED
      BY <1>15, <3>1, <3>2 DEF PersistCheck, JobTypes, jobVars
  <2> QED
    BY <1>15, <2>2 DEF PersistCheck, SourceTypes, RunTypes, ProcTypes, sourceVars, runVars, procVars
<1>16. ASSUME NEW o \in Owners, NEW partial \in BOOLEAN, NEW hasData \in BOOLEAN, NEW retryAfter \in RetryAfters, PersistCommit(o, partial, hasData, retryAfter)
      PROVE  TypeOK'
  <2> DEFINE s == runSource[o]
  <2>1. s \in Sources /\ write[o].now \in Nat
    BY <1>16, ActiveDrawn DEF PersistCommit, JobTypes, ThreadType
  <2>2. write[o].now + Larger(PollSeconds, retryAfter) \in Nat
    BY <2>1 DEF Larger
  <2>3. SourceTypes'
    BY <1>16, <2>1, <2>2 DEF PersistCommit, FreeLease, SourceTypes, None
  <2>4. RunTypes'
    BY <1>16 DEF PersistCommit, SetRun, RunTypes
  <2>5. JobTypes'
    BY <1>16, ThreadTyped DEF PersistCommit, EndThread, JobTypes, jobVars, ThreadType
  <2> QED
    BY <1>16, <2>3, <2>4, <2>5 DEF PersistCommit, ProcTypes, procVars
<1>17. ASSUME NEW o \in Owners, FailOpen(o)
      PROVE  TypeOK'
  <2>1. clock' \in Nat
    BY <1>17 DEF FailOpen
  <2>2. SourceTypes'
    BY <1>17 DEF FailOpen, SourceTypes, RunTypes, ProcTypes, JobTypes, ThreadType, Owners, None, sourceVars, runVars
  <2>3. RunTypes'
    BY <1>17 DEF FailOpen, RunTypes, Owners, runVars
  <2>4. ProcTypes'
    BY <1>17 DEF FailOpen, ProcTypes, procVars
  <2>5. JobTypes'
    BY <1>17, ThreadTyped DEF FailOpen, JobTypes, jobVars, Idle, Running, ThreadType
  <2> QED
    BY <2>1, <2>2, <2>3, <2>4, <2>5
<1>18. ASSUME NEW o \in Owners, NEW outcome \in {"error", "needs_credentials"}, NEW retryAfter \in RetryAfters, FailCommit(o, outcome, retryAfter)
      PROVE  TypeOK'
  <2> DEFINE s == runSource[o]
  <2>1. s \in Sources /\ write[o].now \in Nat
    BY <1>18, ActiveDrawn DEF FailCommit, JobTypes, ThreadType
  <2>2. write[o].now + Backoff(failures[s] + 1, retryAfter) \in Nat
    <3>1. failures[s] \in Nat
      BY <2>1 DEF SourceTypes
    <3>2. Backoff(failures[s] + 1, retryAfter) \in Nat
      BY <3>1, BackoffType
    <3> QED
      BY <2>1, <3>2
  <2>3. SourceTypes'
    BY <1>18, <2>1, <2>2 DEF FailCommit, FreeLease, SourceTypes, None
  <2>4. RunTypes'
    BY <1>18 DEF FailCommit, SetRun, RunTypes
  <2>5. JobTypes'
    BY <1>18, ThreadTyped DEF FailCommit, EndThread, JobTypes, jobVars, ThreadType
  <2> QED
    BY <1>18, <2>3, <2>4, <2>5 DEF FailCommit, ProcTypes, procVars
<1>19. ASSUME NEW o \in Owners, FailLost(o)
      PROVE  TypeOK'
  <2>1. clock' \in Nat
    BY <1>19 DEF FailLost
  <2>2. SourceTypes'
    BY <1>19 DEF FailLost, EndThread, SourceTypes, RunTypes, ProcTypes, JobTypes, ThreadType, Owners, None, sourceVars, runVars
  <2>3. RunTypes'
    BY <1>19 DEF FailLost, EndThread, RunTypes, Owners, runVars
  <2>4. ProcTypes'
    BY <1>19 DEF FailLost, EndThread, ProcTypes, procVars
  <2>5. JobTypes'
    BY <1>19, ThreadTyped DEF FailLost, EndThread, JobTypes, jobVars, Idle, Running, ThreadType
  <2> QED
    BY <2>1, <2>2, <2>3, <2>4, <2>5
<1>20. ASSUME NEW o \in Owners, WriteError(o)
      PROVE  TypeOK'
  <2>1. clock' \in Nat
    BY <1>20 DEF WriteError
  <2>2. SourceTypes'
    BY <1>20 DEF WriteError, EndThread, SourceTypes, RunTypes, ProcTypes, JobTypes, ThreadType, Owners, None, sourceVars, runVars
  <2>3. RunTypes'
    BY <1>20 DEF WriteError, EndThread, RunTypes, Owners, runVars
  <2>4. ProcTypes'
    BY <1>20 DEF WriteError, EndThread, ProcTypes, procVars
  <2>5. JobTypes'
    BY <1>20, ThreadTyped DEF WriteError, EndThread, JobTypes, jobVars, Idle, Running, ThreadType
  <2> QED
    BY <2>1, <2>2, <2>3, <2>4, <2>5
<1>21. ASSUME NEW o \in Owners, Release(o)
      PROVE  TypeOK'
  <2>1. runSource[o] \in Sources
    BY <1>21, ActiveDrawn DEF Release
  <2>2. SourceTypes'
    BY <1>21, <2>1 DEF Release, FreeLease, SourceTypes, None
  <2>3. RunTypes'
    BY <1>21 DEF Release, RunTypes
  <2> QED
    BY <1>21, <2>2, <2>3 DEF Release, JobTypes, ProcTypes, procVars
<1>22. ASSUME NEW o \in Owners, ReleaseError(o)
      PROVE  TypeOK'
  <2>1. clock' \in Nat
    BY <1>22 DEF ReleaseError
  <2>2. SourceTypes'
    BY <1>22 DEF ReleaseError, SourceTypes, RunTypes, ProcTypes, JobTypes, ThreadType, Owners, None, sourceVars, runVars
  <2>3. RunTypes'
    BY <1>22 DEF ReleaseError, RunTypes, Owners, runVars
  <2>4. ProcTypes'
    BY <1>22 DEF ReleaseError, ProcTypes, procVars
  <2>5. JobTypes'
    BY <1>22, ThreadTyped DEF ReleaseError, JobTypes, jobVars, Idle, Running, ThreadType
  <2> QED
    BY <2>1, <2>2, <2>3, <2>4, <2>5
<1>23. CASE Tick
  BY <1>23 DEF Tick, sourceVars, runVars, procVars, jobVars, SourceTypes, RunTypes, ProcTypes, JobTypes
<1>24. CASE UNCHANGED vars
  BY <1>24 DEF vars, sourceVars, runVars, procVars, jobVars, SourceTypes, RunTypes, ProcTypes, JobTypes
<1> QED
  BY <1>1, <1>2, <1>3, <1>4, <1>5, <1>6, <1>7, <1>8, <1>9, <1>10, <1>11, <1>12, <1>13, <1>14, <1>15, <1>16, <1>17, <1>18, <1>19, <1>20, <1>21, <1>22, <1>23, <1>24 DEF Next, ProcessStep, JobStep, ThreadStep

(* Most actions leave the leases and the runs alone: what remains to show  *)
(* is that no trace of a fresh owner appears, that a writer past the fence *)
(* was so before or owns its source, and that claims keep their times.     *)
LEMMA LeaseFrame ==
  ASSUME LeaseInv, TypeOK', ClaimsSampledBefore',
         UNCHANGED <<owner, until, content, runSource, runStatus, issued>>,
         \A x \in Owners : x > issued => job'[x] = "none" /\ write'[x] = Idle,
         \A x \in Owners : write'[x].phase = "locked" =>
           write[x].phase = "locked" \/ owner[runSource[x]] = x
  PROVE  LeaseInv'
<1>1. FreshOwners' /\ DrawnOwners'
  BY DEF LeaseInv, FreshOwners, DrawnOwners, Idle, Thread
<1>2. LeaseNamesRun' /\ RunNamesLease' /\ ContentIsPast'
  BY DEF LeaseInv, LeaseNamesRun, RunNamesLease, ContentIsPast
<1>3. WriterKeepsLease'
  BY DEF LeaseInv, WriterKeepsLease
<1> QED
  BY <1>1, <1>2, <1>3 DEF LeaseInv

LEMMA InvStep == LeaseInv /\ [Next]_vars => LeaseInv'
<1> SUFFICES ASSUME LeaseInv, [Next]_vars PROVE LeaseInv'
  OBVIOUS
<1>0. TypeOK'
  BY TypeStep DEF LeaseInv
<1> USE <1>0 DEF LeaseInv
<1>t. write \in [Owners -> ThreadType] /\ job \in [Owners -> {"none", "unstarted", "fetching",
        "persisting", "failing", "releasing", "done"}] /\ clock \in Nat /\ issued \in 0..MaxClaims
  BY DEF TypeOK, JobTypes, RunTypes
<1>c. UNCHANGED <<clock, claims>> => ClaimsSampledBefore'
  BY DEF ClaimsSampledBefore
<1> USE <1>t, <1>c
<1>1. ASSUME NEW w \in Workers, NEW key \in BOOLEAN, Start(w, key)
      PROVE  LeaseInv'
  <2>1. ClaimsSampledBefore'
    BY <1>1 DEF Start, procVars
  <2>2. UNCHANGED <<owner, until, content, runSource, runStatus, issued, job, write>>
    BY <1>1 DEF Start, sourceVars, runVars, jobVars
  <2> QED
    BY <2>1, <2>2, LeaseFrame DEF FreshOwners
<1>2. ASSUME NEW w \in Workers, Stop(w)
      PROVE  LeaseInv'
  <2>1. ClaimsSampledBefore'
    BY <1>2 DEF Stop, procVars
  <2>2. UNCHANGED <<owner, until, content, runSource, runStatus, issued, job, write>>
    BY <1>2 DEF Stop, sourceVars, runVars, jobVars
  <2> QED
    BY <2>1, <2>2, LeaseFrame DEF FreshOwners
<1>3. ASSUME NEW w \in Workers, Exit(w)
      PROVE  LeaseInv'
  <2>1. ClaimsSampledBefore'
    BY <1>3 DEF Exit, procVars
  <2>2. UNCHANGED <<owner, until, content, runSource, runStatus, issued, job, write>>
    BY <1>3 DEF Exit, sourceVars, runVars, jobVars
  <2> QED
    BY <2>1, <2>2, LeaseFrame DEF FreshOwners
<1>4. ASSUME NEW w \in Workers, Crash(w)
      PROVE  LeaseInv'
  <2>1. ClaimsSampledBefore'
    BY <1>4 DEF Crash, ClaimsSampledBefore, TypeOK, ProcTypes
  <2>2. UNCHANGED <<owner, until, content, runSource, runStatus, issued>>
    BY <1>4 DEF Crash, sourceVars, runVars
  <2>3. /\ \A x \in Owners : x > issued => job'[x] = "none" /\ write'[x] = Idle
        /\ \A x \in Owners : write'[x].phase = "locked" => write[x].phase = "locked"
    BY <1>4 DEF Crash, JobsOf, FreshOwners, Idle, Thread
  <2> QED
    BY <2>1, <2>2, <2>3, LeaseFrame
<1>5. ASSUME NEW w \in Workers, NEW target \in Sources \cup {AnySource}, BeginClaim(w, target)
      PROVE  LeaseInv'
  <2>1. ClaimsSampledBefore'
    BY <1>5 DEF BeginClaim, ClaimsSampledBefore
  <2>2. UNCHANGED <<owner, until, content, runSource, runStatus, issued, job, write>>
    BY <1>5 DEF BeginClaim, sourceVars, runVars, jobVars
  <2> QED
    BY <2>1, <2>2, LeaseFrame DEF FreshOwners
<1>6. ASSUME NEW w \in Workers, NEW c \in claims[w], Claim(w, c)
      PROVE  LeaseInv'
  <2>5. \A x \in Sources : owner[x] # None => owner[x] \in Owners /\ owner[x] <= issued
    <3> SUFFICES ASSUME NEW x \in Sources, owner[x] # None
                 PROVE  owner[x] \in Owners /\ owner[x] <= issued
      OBVIOUS
    <3>1. owner[x] \in Owners
      BY DEF TypeOK, SourceTypes
    <3>2. runStatus[owner[x]] = "running"
      BY DEF LeaseNamesRun
    <3> QED
      BY <3>1, <3>2, BoundsAssumption DEF FreshOwners, Owners
  <2>1. PICK s \in Claimable(w, c) :
          /\ owner' = [owner EXCEPT ![s] = issued + 1]
          /\ until' = [until EXCEPT ![s] = c.now + LeaseSeconds]
          /\ runSource' = [runSource EXCEPT ![issued + 1] = s]
          /\ runStatus' = [x \in Owners |->
               IF x = issued + 1 THEN "running"
               ELSE IF runSource[x] = s /\ runStatus[x] = "running" THEN "lease_expired"
               ELSE runStatus[x]]
          /\ issued' = issued + 1
          /\ job' = [job EXCEPT ![issued + 1] = "unstarted"]
    BY <1>6 DEF Claim
  <2>2. /\ s \in Sources /\ ~RowLocked(s) /\ issued + 1 \in Owners
        /\ c.now + LeaseSeconds > 0 /\ UNCHANGED <<content, write, clock>>
    BY <1>6, LeaseSecondsAssumption, BoundsAssumption
       DEF Claim, Claimable, TypeOK, ProcTypes, Owners
  <2> USE <2>1, <2>2
  <2>3. FreshOwners'
    BY DEF FreshOwners, Owners, TypeOK, RunTypes, JobTypes
  <2>4. DrawnOwners'
    BY DEF DrawnOwners, TypeOK, RunTypes, Owners
  <2>6. LeaseNamesRun'
    <3> SUFFICES ASSUME NEW x \in Sources, owner'[x] # None
                 PROVE  /\ runSource'[owner'[x]] = x /\ runStatus'[owner'[x]] = "running"
                        /\ until'[x] # None
      BY DEF LeaseNamesRun
    <3>1. CASE x = s
      BY <3>1 DEF TypeOK, SourceTypes, RunTypes, None
    <3>2. CASE x # s
      BY <3>2, <2>5 DEF LeaseNamesRun, TypeOK, SourceTypes, RunTypes, Owners
    <3> QED
      BY <3>1, <3>2
  <2>7. RunNamesLease'
    BY DEF RunNamesLease, TypeOK, SourceTypes, RunTypes, Owners
  <2>8. ContentIsPast'
    <3> SUFFICES ASSUME NEW x \in Sources
                 PROVE  content[x] <= issued + 1 /\ (owner'[x] # None => content[x] < owner'[x])
      BY DEF ContentIsPast
    <3>1. content[x] \in Nat /\ content[x] <= issued
      BY BoundsAssumption DEF ContentIsPast, TypeOK, SourceTypes, Owners, None
    <3>2. CASE x = s
      BY <3>1, <3>2, BoundsAssumption DEF TypeOK, SourceTypes
    <3>3. CASE x # s
      BY <3>1, <3>3, BoundsAssumption DEF ContentIsPast, TypeOK, SourceTypes
    <3> QED
      BY <3>2, <3>3
  <2>9. WriterKeepsLease'
    BY DEF WriterKeepsLease, RowLocked, FreshOwners, Idle, Thread, TypeOK, SourceTypes, RunTypes, Owners
  <2>10. ClaimsSampledBefore'
    BY <1>6 DEF Claim, ClaimsSampledBefore
  <2> QED
    BY <2>3, <2>4, <2>6, <2>7, <2>8, <2>9, <2>10
<1>7. ASSUME NEW w \in Workers, NEW c \in claims[w], ClaimNothing(w, c)
      PROVE  LeaseInv'
  <2>1. ClaimsSampledBefore'
    BY <1>7 DEF ClaimNothing, ClaimsSampledBefore
  <2>2. UNCHANGED <<owner, until, content, runSource, runStatus, issued, job, write>>
    BY <1>7 DEF ClaimNothing, sourceVars, runVars, jobVars
  <2> QED
    BY <2>1, <2>2, LeaseFrame DEF FreshOwners
<1>8. ASSUME NEW w \in Workers, NEW c \in claims[w], ClaimError(w, c)
      PROVE  LeaseInv'
  <2>1. ClaimsSampledBefore'
    BY <1>8 DEF ClaimError, ClaimsSampledBefore
  <2>2. UNCHANGED <<owner, until, content, runSource, runStatus, issued, job, write>>
    BY <1>8 DEF ClaimError, sourceVars, runVars, jobVars
  <2> QED
    BY <2>1, <2>2, LeaseFrame DEF FreshOwners
<1>9. ASSUME NEW o \in Owners, StartJob(o)
      PROVE  LeaseInv'
  <2>1. o <= issued
    BY <1>9, ActiveDrawn DEF StartJob
  <2>2. UNCHANGED <<owner, until, content, runSource, runStatus, issued, clock, claims>>
    BY <1>9 DEF StartJob, sourceVars, runVars, procVars
  <2>3. /\ \A x \in Owners : x > issued => job'[x] = "none" /\ write'[x] = Idle
        /\ \A x \in Owners : write'[x].phase = "locked" =>
             write[x].phase = "locked" \/ owner[runSource[x]] = x
    BY <1>9, <2>1 DEF StartJob, FreshOwners, Owners, ThreadType, jobVars
  <2> QED
    BY <2>2, <2>3, LeaseFrame
<1>10. ASSUME NEW o \in Owners, Fetched(o)
      PROVE  LeaseInv'
  <2>1. o <= issued
    BY <1>10, ActiveDrawn DEF Fetched
  <2>2. UNCHANGED <<owner, until, content, runSource, runStatus, issued, clock, claims>>
    BY <1>10 DEF Fetched, sourceVars, runVars, procVars
  <2>3. /\ \A x \in Owners : x > issued => job'[x] = "none" /\ write'[x] = Idle
        /\ \A x \in Owners : write'[x].phase = "locked" =>
             write[x].phase = "locked" \/ owner[runSource[x]] = x
    BY <1>10, <2>1 DEF Fetched, Queued, Thread, FreshOwners, Owners, ThreadType, jobVars
  <2> QED
    BY <2>2, <2>3, LeaseFrame
<1>11. ASSUME NEW o \in Owners, FetchFailed(o)
      PROVE  LeaseInv'
  <2>1. o <= issued
    BY <1>11, ActiveDrawn DEF FetchFailed
  <2>2. UNCHANGED <<owner, until, content, runSource, runStatus, issued, clock, claims>>
    BY <1>11 DEF FetchFailed, sourceVars, runVars, procVars
  <2>3. /\ \A x \in Owners : x > issued => job'[x] = "none" /\ write'[x] = Idle
        /\ \A x \in Owners : write'[x].phase = "locked" =>
             write[x].phase = "locked" \/ owner[runSource[x]] = x
    BY <1>11, <2>1 DEF FetchFailed, Queued, Thread, FreshOwners, Owners, ThreadType, jobVars
  <2> QED
    BY <2>2, <2>3, LeaseFrame
<1>12. ASSUME NEW o \in Owners, Resume(o)
      PROVE  LeaseInv'
  <2>1. o <= issued
    BY <1>12, ActiveDrawn DEF Resume
  <2>2. UNCHANGED <<owner, until, content, runSource, runStatus, issued, clock, claims>>
    BY <1>12 DEF Resume, sourceVars, runVars, procVars
  <2>3. \A x \in Owners : x # o => write'[x] = write[x] /\ job'[x] = job[x]
    BY <1>12 DEF Resume, EndThread, jobVars
  <2>4. \A x \in Owners : x > issued => job'[x] = "none" /\ write'[x] = Idle
    BY <2>1, <2>3, BoundsAssumption DEF FreshOwners, Owners
  <2>5. write'[o].phase = "locked" => write[o].phase = "locked"
    <3>1. write'[o] = Queued("fail") \/ write'[o] = Idle
      BY <1>12 DEF Resume
    <3> QED
      BY <3>1 DEF Queued, Idle, Thread
  <2> QED
    BY <2>2, <2>3, <2>4, <2>5, LeaseFrame
<1>13. ASSUME NEW o \in Owners, Cancel(o)
      PROVE  LeaseInv'
  <2>1. o <= issued
    BY <1>13, ActiveDrawn DEF Cancel
  <2>2. UNCHANGED <<owner, until, content, runSource, runStatus, issued, clock, claims>>
    BY <1>13 DEF Cancel, sourceVars, runVars, procVars
  <2>3. \A x \in Owners : x # o => write'[x] = write[x] /\ job'[x] = job[x]
    BY <1>13 DEF Cancel, EndThread, jobVars
  <2>4. \A x \in Owners : x > issued => job'[x] = "none" /\ write'[x] = Idle
    BY <2>1, <2>3, BoundsAssumption DEF FreshOwners, Owners
  <2>5. write'[o].phase = "locked" => write[o].phase = "locked"
    <3>1. write'[o] = write[o] \/ write'[o] = Idle
      BY <1>13 DEF Cancel
    <3> QED
      BY <3>1 DEF Idle, Thread
  <2> QED
    BY <2>2, <2>3, <2>4, <2>5, LeaseFrame
<1>14. ASSUME NEW o \in Owners, PersistOpen(o)
      PROVE  LeaseInv'
  <2>1. o <= issued
    BY <1>14, ActiveDrawn DEF PersistOpen
  <2>2. UNCHANGED <<owner, until, content, runSource, runStatus, issued, clock, claims>>
    BY <1>14 DEF PersistOpen, sourceVars, runVars, procVars
  <2>3. /\ \A x \in Owners : x > issued => job'[x] = "none" /\ write'[x] = Idle
        /\ \A x \in Owners : write'[x].phase = "locked" =>
             write[x].phase = "locked" \/ owner[runSource[x]] = x
    BY <1>14, <2>1 DEF PersistOpen, Thread, FreshOwners, Owners, ThreadType, jobVars
  <2> QED
    BY <2>2, <2>3, LeaseFrame
<1>15. ASSUME NEW o \in Owners, PersistCheck(o)
      PROVE  LeaseInv'
  <2>1. o <= issued
    BY <1>15, ActiveDrawn DEF PersistCheck
  <2>2. UNCHANGED <<owner, until, content, runSource, runStatus, issued, clock, claims>>
    BY <1>15 DEF PersistCheck, sourceVars, runVars, procVars
  <2>3. \A x \in Owners : x # o => write'[x] = write[x] /\ job'[x] = job[x]
    BY <1>15 DEF PersistCheck, EndThread, jobVars
  <2>4. \A x \in Owners : x > issued => job'[x] = "none" /\ write'[x] = Idle
    BY <2>1, <2>3, BoundsAssumption DEF FreshOwners, Owners
  <2>5. write'[o].phase = "locked" => owner[runSource[o]] = o
    BY <1>15 DEF PersistCheck, HoldsLease, EndThread, Thread
  <2> QED
    BY <2>2, <2>3, <2>4, <2>5, LeaseFrame
<1>16. ASSUME NEW o \in Owners, NEW partial \in BOOLEAN, NEW hasData \in BOOLEAN, NEW retryAfter \in RetryAfters, PersistCommit(o, partial, hasData, retryAfter)
      PROVE  LeaseInv'
  <2> DEFINE s == runSource[o]
  <2>1. o <= issued /\ s \in Sources
    BY <1>16, ActiveDrawn DEF PersistCommit
  <2>2. owner[s] = o /\ runStatus[o] = "running"
    BY <1>16, <2>1 DEF PersistCommit, WriterKeepsLease, LeaseNamesRun, Owners, None
  <2>3. /\ owner' = [owner EXCEPT ![s] = None] /\ until' = [until EXCEPT ![s] = None]
        /\ content' = [content EXCEPT ![s] = IF hasData \/ ~partial THEN o ELSE @]
        /\ runStatus' = [runStatus EXCEPT ![o] = IF partial THEN "partial" ELSE "ok"]
        /\ write' = [write EXCEPT ![o] = Thread(@.kind, "committed", 0)]
        /\ UNCHANGED <<runSource, issued, job, clock, claims>>
    BY <1>16 DEF PersistCommit, FreeLease, SetRun, EndThread, procVars, jobVars
  <2> USE <2>1, <2>2, <2>3
  <2>4. FreshOwners' /\ DrawnOwners'
    BY DEF FreshOwners, DrawnOwners, Owners, TypeOK, RunTypes
  <2>5. LeaseNamesRun' /\ RunNamesLease'
    BY DEF LeaseNamesRun, RunNamesLease, TypeOK, SourceTypes, RunTypes, None
  <2>6. ContentIsPast'
    BY DEF ContentIsPast, TypeOK, SourceTypes, RunTypes, Owners, None
  <2>7. WriterKeepsLease'
    BY DEF WriterKeepsLease, Thread, TypeOK, SourceTypes, RunTypes, ThreadType
  <2> QED
    BY <2>4, <2>5, <2>6, <2>7
<1>17. ASSUME NEW o \in Owners, FailOpen(o)
      PROVE  LeaseInv'
  <2>1. o <= issued
    BY <1>17, ActiveDrawn DEF FailOpen
  <2>2. UNCHANGED <<owner, until, content, runSource, runStatus, issued, clock, claims>>
    BY <1>17 DEF FailOpen, sourceVars, runVars, procVars
  <2>3. /\ \A x \in Owners : x > issued => job'[x] = "none" /\ write'[x] = Idle
        /\ \A x \in Owners : write'[x].phase = "locked" =>
             write[x].phase = "locked" \/ owner[runSource[x]] = x
    BY <1>17, <2>1 DEF FailOpen, Thread, FreshOwners, Owners, ThreadType, jobVars
  <2> QED
    BY <2>2, <2>3, LeaseFrame
<1>18. ASSUME NEW o \in Owners, NEW outcome \in {"error", "needs_credentials"}, NEW retryAfter \in RetryAfters, FailCommit(o, outcome, retryAfter)
      PROVE  LeaseInv'
  <2> DEFINE s == runSource[o]
  <2>1. o <= issued /\ s \in Sources
    BY <1>18, ActiveDrawn DEF FailCommit
  <2>2. owner[s] = o /\ runStatus[o] = "running" /\ ~RowLocked(s)
    BY <1>18, <2>1 DEF FailCommit, HoldsLease, LeaseNamesRun, Owners, None
  <2>3. /\ owner' = [owner EXCEPT ![s] = None] /\ until' = [until EXCEPT ![s] = None]
        /\ runStatus' = [runStatus EXCEPT ![o] = outcome]
        /\ write' = [write EXCEPT ![o] = Thread(@.kind, "committed", 0)]
        /\ UNCHANGED <<runSource, issued, content, job, clock, claims>>
    BY <1>18 DEF FailCommit, FreeLease, SetRun, EndThread, procVars, jobVars
  <2> USE <2>1, <2>2, <2>3
  <2>4. FreshOwners' /\ DrawnOwners'
    BY DEF FreshOwners, DrawnOwners, Owners, TypeOK, RunTypes
  <2>5. LeaseNamesRun' /\ RunNamesLease'
    BY DEF LeaseNamesRun, RunNamesLease, TypeOK, SourceTypes, RunTypes, None
  <2>6. ContentIsPast'
    BY DEF ContentIsPast, TypeOK, SourceTypes, RunTypes, Owners, None
  <2>7. WriterKeepsLease'
    BY DEF WriterKeepsLease, RowLocked, Thread, TypeOK, SourceTypes, RunTypes, ThreadType
  <2> QED
    BY <2>4, <2>5, <2>6, <2>7
<1>19. ASSUME NEW o \in Owners, FailLost(o)
      PROVE  LeaseInv'
  <2>1. o <= issued
    BY <1>19, ActiveDrawn DEF FailLost
  <2>2. UNCHANGED <<owner, until, content, runSource, runStatus, issued, clock, claims>>
    BY <1>19 DEF FailLost, sourceVars, runVars, procVars
  <2>3. /\ \A x \in Owners : x > issued => job'[x] = "none" /\ write'[x] = Idle
        /\ \A x \in Owners : write'[x].phase = "locked" =>
             write[x].phase = "locked" \/ owner[runSource[x]] = x
    BY <1>19, <2>1 DEF FailLost, EndThread, Thread, FreshOwners, Owners, ThreadType, jobVars
  <2> QED
    BY <2>2, <2>3, LeaseFrame
<1>20. ASSUME NEW o \in Owners, WriteError(o)
      PROVE  LeaseInv'
  <2>1. o <= issued
    BY <1>20, ActiveDrawn DEF WriteError, Running
  <2>2. UNCHANGED <<owner, until, content, runSource, runStatus, issued, clock, claims>>
    BY <1>20 DEF WriteError, sourceVars, runVars, procVars
  <2>3. /\ \A x \in Owners : x > issued => job'[x] = "none" /\ write'[x] = Idle
        /\ \A x \in Owners : write'[x].phase = "locked" =>
             write[x].phase = "locked" \/ owner[runSource[x]] = x
    BY <1>20, <2>1 DEF WriteError, EndThread, Running, Thread, FreshOwners, Owners, ThreadType, jobVars
  <2> QED
    BY <2>2, <2>3, LeaseFrame
<1>21. ASSUME NEW o \in Owners, Release(o)
      PROVE  LeaseInv'
  <2> DEFINE s == runSource[o]
  <2>1. o <= issued /\ s \in Sources /\ ~RowLocked(s)
    BY <1>21, ActiveDrawn DEF Release
  <2>2. CASE owner[s] # o
    <3>1. /\ UNCHANGED <<owner, until, content, runSource, runStatus, issued, write, clock, claims>>
          /\ job' = [job EXCEPT ![o] = "done"]
      BY <1>21, <2>2 DEF Release, procVars
    <3> QED
      BY <2>1, <3>1, LeaseFrame DEF FreshOwners, Owners
  <2>3. CASE owner[s] = o
    <3>1. /\ owner' = [owner EXCEPT ![s] = None] /\ until' = [until EXCEPT ![s] = None]
          /\ runStatus' = [runStatus EXCEPT ![o] = IF @ = "running" THEN "interrupted" ELSE @]
          /\ job' = [job EXCEPT ![o] = "done"]
          /\ UNCHANGED <<runSource, issued, content, write, clock, claims>>
      BY <1>21, <2>3 DEF Release, FreeLease, procVars
    <3>2. runStatus[o] = "running"
      BY <2>1, <2>3 DEF LeaseNamesRun, Owners, None
    <3> USE <2>1, <2>3, <3>1, <3>2
    <3>4. FreshOwners' /\ DrawnOwners'
      BY DEF FreshOwners, DrawnOwners, Owners, TypeOK, RunTypes
    <3>5. LeaseNamesRun' /\ RunNamesLease'
      BY DEF LeaseNamesRun, RunNamesLease, TypeOK, SourceTypes, RunTypes, None
    <3>6. ContentIsPast'
      BY DEF ContentIsPast, TypeOK, SourceTypes, RunTypes, Owners, None
    <3>7. WriterKeepsLease'
      BY DEF WriterKeepsLease, RowLocked, TypeOK, SourceTypes, RunTypes
    <3> QED
      BY <3>4, <3>5, <3>6, <3>7
  <2> QED
    BY <2>2, <2>3
<1>22. ASSUME NEW o \in Owners, ReleaseError(o)
      PROVE  LeaseInv'
  <2>1. o <= issued
    BY <1>22, ActiveDrawn DEF ReleaseError
  <2>2. UNCHANGED <<owner, until, content, runSource, runStatus, issued, clock, claims>>
    BY <1>22 DEF ReleaseError, sourceVars, runVars, procVars
  <2>3. /\ \A x \in Owners : x > issued => job'[x] = "none" /\ write'[x] = Idle
        /\ \A x \in Owners : write'[x].phase = "locked" =>
             write[x].phase = "locked" \/ owner[runSource[x]] = x
    BY <1>22, <2>1 DEF ReleaseError, FreshOwners, Owners, ThreadType, jobVars
  <2> QED
    BY <2>2, <2>3, LeaseFrame
<1>23. CASE Tick
  <2>1. ClaimsSampledBefore'
    BY <1>23 DEF Tick, ClaimsSampledBefore, TypeOK, ProcTypes, procVars
  <2> QED
    BY <1>23, <2>1, LeaseFrame DEF Tick, sourceVars, runVars, jobVars, FreshOwners
<1>24. CASE UNCHANGED vars
  BY <1>24, LeaseFrame DEF vars, sourceVars, runVars, procVars, jobVars, FreshOwners
<1> QED
  BY <1>1, <1>2, <1>3, <1>4, <1>5, <1>6, <1>7, <1>8, <1>9, <1>10, <1>11, <1>12, <1>13, <1>14, <1>15, <1>16, <1>17, <1>18, <1>19, <1>20, <1>21, <1>22, <1>23, <1>24 DEF Next, ProcessStep, JobStep, ThreadStep

(* Every step leaves leases, runs and published batches alone, or is the   *)
(* grant of an expired or free source to a new owner, or ends the lease of *)
(* its present owner, with or without publishing.                          *)
Kept == UNCHANGED <<owner, content, runStatus, issued>>

Granted(s) ==
  /\ issued < MaxClaims /\ issued' = issued + 1
  /\ until[s] <= clock
  /\ owner' = [owner EXCEPT ![s] = issued + 1]
  /\ content' = content
  /\ \A o \in Owners : runStatus[o] \notin {"none", "running"} => runStatus'[o] = runStatus[o]

Ended(s) ==
  /\ owner[s] # None
  /\ owner' = [owner EXCEPT ![s] = None]
  /\ content' = content \/ content' = [content EXCEPT ![s] = owner[s]]
  /\ \A o \in Owners : runStatus[o] # "running" => runStatus'[o] = runStatus[o]
  /\ issued' = issued

LEMMA LeaseStep ==
  LeaseInv /\ [Next]_vars => Kept \/ \E s \in Sources : Granted(s) \/ Ended(s)
<1> SUFFICES ASSUME LeaseInv, [Next]_vars
             PROVE  Kept \/ \E s \in Sources : Granted(s) \/ Ended(s)
  OBVIOUS
<1> USE DEF LeaseInv
<1>1. ASSUME NEW w \in Workers, NEW key \in BOOLEAN, Start(w, key)
      PROVE  Kept \/ \E s \in Sources : Granted(s) \/ Ended(s)
  BY <1>1 DEF Start, Kept, sourceVars, runVars
<1>2. ASSUME NEW w \in Workers, Stop(w)
      PROVE  Kept \/ \E s \in Sources : Granted(s) \/ Ended(s)
  BY <1>2 DEF Stop, Kept, sourceVars, runVars
<1>3. ASSUME NEW w \in Workers, Exit(w)
      PROVE  Kept \/ \E s \in Sources : Granted(s) \/ Ended(s)
  BY <1>3 DEF Exit, Kept, sourceVars, runVars
<1>4. ASSUME NEW w \in Workers, Crash(w)
      PROVE  Kept \/ \E s \in Sources : Granted(s) \/ Ended(s)
  BY <1>4 DEF Crash, Kept, sourceVars, runVars
<1>5. ASSUME NEW w \in Workers, NEW target \in Sources \cup {AnySource}, BeginClaim(w, target)
      PROVE  Kept \/ \E s \in Sources : Granted(s) \/ Ended(s)
  BY <1>5 DEF BeginClaim, Kept, sourceVars, runVars
<1>6. ASSUME NEW w \in Workers, NEW c \in claims[w], Claim(w, c)
      PROVE  Kept \/ \E s \in Sources : Granted(s) \/ Ended(s)
  <2>1. PICK s \in Claimable(w, c) :
          /\ owner' = [owner EXCEPT ![s] = issued + 1]
          /\ runStatus' = [x \in Owners |->
               IF x = issued + 1 THEN "running"
               ELSE IF runSource[x] = s /\ runStatus[x] = "running" THEN "lease_expired"
               ELSE runStatus[x]]
          /\ issued' = issued + 1
    BY <1>6 DEF Claim
  <2>2. issued < MaxClaims /\ UNCHANGED content
    BY <1>6 DEF Claim
  <2>3. s \in Sources /\ until[s] <= c.now /\ c.now <= clock
    BY <1>6 DEF Claimable, ClaimsSampledBefore
  <2>4. until[s] <= clock
    BY <2>3 DEF TypeOK, SourceTypes, ProcTypes
  <2>5. \A o \in Owners : runStatus[o] \notin {"none", "running"} => runStatus'[o] = runStatus[o]
    BY <2>1, <2>2, BoundsAssumption DEF FreshOwners, TypeOK, RunTypes, Owners
  <2>6. Granted(s)
    BY <2>1, <2>2, <2>4, <2>5 DEF Granted
  <2> QED
    BY <2>3, <2>6
<1>7. ASSUME NEW w \in Workers, NEW c \in claims[w], ClaimNothing(w, c)
      PROVE  Kept \/ \E s \in Sources : Granted(s) \/ Ended(s)
  BY <1>7 DEF ClaimNothing, Kept, sourceVars, runVars
<1>8. ASSUME NEW w \in Workers, NEW c \in claims[w], ClaimError(w, c)
      PROVE  Kept \/ \E s \in Sources : Granted(s) \/ Ended(s)
  BY <1>8 DEF ClaimError, Kept, sourceVars, runVars
<1>9. ASSUME NEW o \in Owners, StartJob(o)
      PROVE  Kept \/ \E s \in Sources : Granted(s) \/ Ended(s)
  BY <1>9 DEF StartJob, Kept, sourceVars, runVars
<1>10. ASSUME NEW o \in Owners, Fetched(o)
      PROVE  Kept \/ \E s \in Sources : Granted(s) \/ Ended(s)
  BY <1>10 DEF Fetched, Kept, sourceVars, runVars
<1>11. ASSUME NEW o \in Owners, FetchFailed(o)
      PROVE  Kept \/ \E s \in Sources : Granted(s) \/ Ended(s)
  BY <1>11 DEF FetchFailed, Kept, sourceVars, runVars
<1>12. ASSUME NEW o \in Owners, Resume(o)
      PROVE  Kept \/ \E s \in Sources : Granted(s) \/ Ended(s)
  BY <1>12 DEF Resume, Kept, sourceVars, runVars
<1>13. ASSUME NEW o \in Owners, Cancel(o)
      PROVE  Kept \/ \E s \in Sources : Granted(s) \/ Ended(s)
  BY <1>13 DEF Cancel, Kept, sourceVars, runVars
<1>14. ASSUME NEW o \in Owners, PersistOpen(o)
      PROVE  Kept \/ \E s \in Sources : Granted(s) \/ Ended(s)
  BY <1>14 DEF PersistOpen, Kept, sourceVars, runVars
<1>15. ASSUME NEW o \in Owners, PersistCheck(o)
      PROVE  Kept \/ \E s \in Sources : Granted(s) \/ Ended(s)
  BY <1>15 DEF PersistCheck, Kept, sourceVars, runVars
<1>16. ASSUME NEW o \in Owners, NEW partial \in BOOLEAN, NEW hasData \in BOOLEAN, NEW retryAfter \in RetryAfters, PersistCommit(o, partial, hasData, retryAfter)
      PROVE  Kept \/ \E s \in Sources : Granted(s) \/ Ended(s)
  <2>1. runSource[o] \in Sources /\ owner[runSource[o]] = o
    BY <1>16, ActiveDrawn DEF PersistCommit, WriterKeepsLease
  <2>2. runStatus[o] = "running" /\ o # None
    BY <2>1 DEF LeaseNamesRun, Owners, None
  <2>3. Ended(runSource[o])
    BY <1>16, <2>1, <2>2 DEF Ended, PersistCommit, FreeLease, SetRun, TypeOK, RunTypes, SourceTypes
  <2> QED
    BY <2>1, <2>3
<1>17. ASSUME NEW o \in Owners, FailOpen(o)
      PROVE  Kept \/ \E s \in Sources : Granted(s) \/ Ended(s)
  BY <1>17 DEF FailOpen, Kept, sourceVars, runVars
<1>18. ASSUME NEW o \in Owners, NEW outcome \in {"error", "needs_credentials"}, NEW retryAfter \in RetryAfters, FailCommit(o, outcome, retryAfter)
      PROVE  Kept \/ \E s \in Sources : Granted(s) \/ Ended(s)
  <2>1. runSource[o] \in Sources /\ owner[runSource[o]] = o
    BY <1>18, ActiveDrawn DEF FailCommit, HoldsLease
  <2>2. runStatus[o] = "running" /\ o # None
    BY <2>1 DEF LeaseNamesRun, Owners, None
  <2>3. Ended(runSource[o])
    BY <1>18, <2>1, <2>2 DEF Ended, FailCommit, FreeLease, SetRun, TypeOK, RunTypes
  <2> QED
    BY <2>1, <2>3
<1>19. ASSUME NEW o \in Owners, FailLost(o)
      PROVE  Kept \/ \E s \in Sources : Granted(s) \/ Ended(s)
  BY <1>19 DEF FailLost, Kept, sourceVars, runVars
<1>20. ASSUME NEW o \in Owners, WriteError(o)
      PROVE  Kept \/ \E s \in Sources : Granted(s) \/ Ended(s)
  BY <1>20 DEF WriteError, Kept, sourceVars, runVars
<1>21. ASSUME NEW o \in Owners, Release(o)
      PROVE  Kept \/ \E s \in Sources : Granted(s) \/ Ended(s)
  <2>1. runSource[o] \in Sources
    BY <1>21, ActiveDrawn DEF Release
  <2>2. CASE owner[runSource[o]] # o
    BY <1>21, <2>2 DEF Release, Kept
  <2>3. CASE owner[runSource[o]] = o
    <3>1. runStatus[o] = "running" /\ o # None
      BY <2>1, <2>3 DEF LeaseNamesRun, Owners, None
    <3>2. Ended(runSource[o])
      BY <1>21, <2>1, <2>3, <3>1 DEF Ended, Release, FreeLease, TypeOK, RunTypes
    <3> QED
      BY <2>1, <3>2
  <2> QED
    BY <2>2, <2>3
<1>22. ASSUME NEW o \in Owners, ReleaseError(o)
      PROVE  Kept \/ \E s \in Sources : Granted(s) \/ Ended(s)
  BY <1>22 DEF ReleaseError, Kept, sourceVars, runVars
<1>23. CASE Tick
  BY <1>23 DEF Tick, Kept, sourceVars, runVars
<1>24. CASE UNCHANGED vars
  BY <1>24 DEF vars, Kept, sourceVars, runVars
<1> QED
  BY <1>1, <1>2, <1>3, <1>4, <1>5, <1>6, <1>7, <1>8, <1>9, <1>10, <1>11, <1>12, <1>13, <1>14, <1>15, <1>16, <1>17, <1>18, <1>19, <1>20, <1>21, <1>22, <1>23, <1>24 DEF Next, ProcessStep, JobStep, ThreadStep

(* Every reachable state satisfies the inductive invariant, the types      *)
(* first of all.                                                           *)
THEOREM LeaseInvariant == Spec => []LeaseInv
<1>1. Init => LeaseInv
  BY InitInv
<1>2. LeaseInv /\ [Next]_vars => LeaseInv'
  BY InvStep
<1> QED
  BY <1>1, <1>2, PTL DEF Spec

THEOREM TypeCorrect == Spec => []TypeOK
<1>1. LeaseInv => TypeOK
  BY DEF LeaseInv
<1> QED
  BY <1>1, LeaseInvariant, PTL

(* A run is 'running' exactly while its owner is in lease_owner: no commit *)
(* of claim, persist, fail or release closes one without the other.        *)
THEOREM RunsAndLeasesAgree == Spec => []RunningIffLeased
<1>1. LeaseInv => RunningIffLeased
  BY DEF LeaseInv, RunningIffLeased, LeaseNamesRun, RunNamesLease, Owners, None
<1> QED
  BY <1>1, LeaseInvariant, PTL

-----------------------------------------------------------------------------
(* The advisory lock.  A job has no thread before it has fetched, so that  *)
(* the queue of threads that a task starts is never one that holds it.     *)
Early == {"none", "unstarted", "fetching"}
ThreadAfterFetch == \A o \in Owners : job[o] \in Early => write[o].phase = "idle"
LockInv == AdvisoryLockExact /\ ThreadAfterFetch

(* Steps of one owner's task or thread that leave the lock where it is.    *)
LEMMA LockFrame ==
  ASSUME LockInv, NEW o \in Owners, lock' = lock,
         \A x \in Owners \ {o} : write'[x] = write[x] /\ job'[x] = job[x],
         Persists(o)' <=> Persists(o), job'[o] \in Early => write'[o].phase = "idle"
  PROVE  LockInv'
<1>1. \A x \in Owners : Persists(x)' <=> Persists(x)
  BY DEF Persists
<1> QED
  BY <1>1 DEF LockInv, AdvisoryLockExact, ThreadAfterFetch

LEMMA LockStep == LeaseInv /\ LockInv /\ [Next]_vars => LockInv'
<1> SUFFICES ASSUME LeaseInv, LockInv, [Next]_vars PROVE LockInv'
  OBVIOUS
<1>t. /\ write \in [Owners -> ThreadType] /\ lock \in Owners \cup {None} /\ None \notin Owners
      /\ job \in [Owners -> {"none", "unstarted", "fetching", "persisting", "failing", "releasing", "done"}]
  BY DEF LeaseInv, TypeOK, JobTypes, None, Owners
<1>0. ASSUME UNCHANGED <<lock, job, write>>  PROVE LockInv'
  BY <1>0 DEF LockInv, AdvisoryLockExact, ThreadAfterFetch, Persists
<1>1. ASSUME NEW w \in Workers, ProcessStep(w)  PROVE LockInv'
  <2>1. CASE Crash(w)
    <3>1. \A x \in Owners : home[x] # w => write'[x] = write[x] /\ (lock' = x <=> lock = x)
      BY <2>1, <1>t DEF Crash
    <3>2. \A x \in Owners : home[x] = w => write'[x] = Idle /\ lock' # x
      BY <2>1, <1>t DEF Crash
    <3>3. AdvisoryLockExact'
      BY <3>1, <3>2 DEF LockInv, AdvisoryLockExact, Persists, Idle, Thread
    <3>4. \A x \in Owners : job'[x] \in Early => job[x] \in Early
      BY <2>1, <1>t DEF Crash, Early
    <3> QED
      BY <3>1, <3>2, <3>3, <3>4 DEF LockInv, ThreadAfterFetch, Idle, Thread
  <2>2. CASE \E c \in claims[w] : Claim(w, c)
    <3>1. UNCHANGED <<lock, write>> /\ issued + 1 \in Owners /\ issued < issued + 1
          /\ job' = [job EXCEPT ![issued + 1] = "unstarted"]
      BY <2>2, BoundsAssumption DEF Claim, LeaseInv, TypeOK, RunTypes, Owners
    <3>2. write[issued + 1] = Idle
      BY <3>1 DEF LeaseInv, FreshOwners
    <3> QED
      BY <1>t, <3>1, <3>2 DEF LockInv, AdvisoryLockExact, ThreadAfterFetch, Persists, Idle, Thread
  <2>3. CASE ~Crash(w) /\ ~ \E c \in claims[w] : Claim(w, c)
    <3>1. UNCHANGED <<lock, job, write>>
      BY <1>1, <2>3 DEF ProcessStep, Start, Stop, Exit, BeginClaim, ClaimNothing, ClaimError, jobVars
    <3> QED
      BY <3>1, <1>0
  <2> QED
    BY <2>1, <2>2, <2>3
<1>2. ASSUME NEW o \in Owners, JobStep(o)  PROVE LockInv'
  <2>1. lock' = lock /\ \A x \in Owners \ {o} : write'[x] = write[x] /\ job'[x] = job[x]
    BY <1>2, <1>t DEF JobStep, StartJob, Fetched, FetchFailed, Resume, Cancel
  <2>2. CASE StartJob(o)
    <3>1. write' = write /\ write[o].phase = "idle"
      BY <2>2 DEF StartJob, LockInv, ThreadAfterFetch, Early
    <3> QED
      BY <2>1, <3>1, LockFrame DEF Persists
  <2>3. CASE Fetched(o) \/ FetchFailed(o)
    <3>1. write[o].phase = "idle"
      BY <2>3 DEF Fetched, FetchFailed, LockInv, ThreadAfterFetch, Early
    <3>2. write'[o].phase = "queued" /\ job'[o] \notin Early
      BY <2>3, <1>t DEF Fetched, FetchFailed, Queued, Thread, Early
    <3> QED
      BY <2>1, <3>1, <3>2, LockFrame DEF Persists
  <2>4. CASE Resume(o)
    <3>1. write[o].phase \in {"committed", "lost", "error"} /\ write'[o].phase \in {"queued", "idle"}
      BY <2>4, <1>t DEF Resume, Queued, Idle, Thread
    <3>2. job'[o] \notin Early
      BY <2>4, <1>t DEF Resume, Early
    <3> QED
      BY <2>1, <3>1, <3>2, LockFrame DEF Persists
  <2>5. CASE Cancel(o)
    <3>1. \/ write'[o] = write[o]
          \/ write[o].phase = "queued" /\ write'[o].phase = "idle"
      BY <2>5, <1>t DEF Cancel, Idle, Thread
    <3>2. job'[o] \notin Early
      BY <2>5, <1>t DEF Cancel, Early
    <3> QED
      BY <2>1, <3>1, <3>2, LockFrame DEF Persists
  <2> QED
    BY <1>2, <2>2, <2>3, <2>4, <2>5 DEF JobStep
<1>3. ASSUME NEW o \in Owners, ThreadStep(o)  PROVE LockInv'
  <2>1. CASE Release(o) \/ ReleaseError(o)
    <3>1. UNCHANGED <<lock, write>> /\ job'[o] \notin Early
          /\ \A x \in Owners \ {o} : job'[x] = job[x]
      BY <2>1, <1>t DEF Release, ReleaseError, Early
    <3> QED
      BY <3>1, LockFrame DEF Persists
  <2>2. CASE ~Release(o) /\ ~ReleaseError(o)
    <3>1. /\ job' = job /\ \A x \in Owners \ {o} : write'[x] = write[x]
          /\ write[o].phase # "idle" /\ write'[o].kind = write[o].kind
      BY <1>3, <2>2, <1>t DEF ThreadStep, PersistOpen, PersistCheck, PersistCommit, FailOpen, FailLost,
         FailCommit, WriteError, EndThread, Thread, ThreadType, Running, jobVars
    <3>2. ThreadAfterFetch'
      BY <3>1 DEF LockInv, ThreadAfterFetch
    <3>3. CASE PersistOpen(o)
      <4>1. lock = None /\ lock' = o /\ Persists(o)'
        BY <3>3, <1>t DEF PersistOpen, Persists, Thread
      <4> QED
        BY <1>t, <3>1, <3>2, <4>1 DEF LockInv, AdvisoryLockExact, Persists
    <3>4. CASE PersistCheck(o) \/ (\E p, d \in BOOLEAN, r \in RetryAfters : PersistCommit(o, p, d, r))
               \/ WriteError(o)
      <4>1. \/ lock' = lock /\ Persists(o) /\ Persists(o)'
            \/ lock' = None /\ Persists(o) /\ ~Persists(o)'
            \/ WriteError(o) /\ ~Persists(o)' /\ lock' = IF lock = o THEN None ELSE lock
        BY <3>4, <1>t DEF PersistCheck, PersistCommit, WriteError, EndThread, Persists, Thread
      <4> QED
        BY <1>t, <3>1, <3>2, <4>1 DEF LockInv, AdvisoryLockExact, Persists
    <3>5. CASE FailOpen(o) \/ FailLost(o)
               \/ (\E u \in {"error", "needs_credentials"}, r \in RetryAfters : FailCommit(o, u, r))
      <4>1. lock' = lock /\ write[o].kind = "fail"
        BY <3>5 DEF FailOpen, FailLost, FailCommit
      <4> QED
        BY <3>1, <3>2, <4>1 DEF LockInv, AdvisoryLockExact, Persists
    <3> QED
      BY <1>3, <2>2, <3>3, <3>4, <3>5 DEF ThreadStep
  <2> QED
    BY <2>1, <2>2
<1>4. CASE Tick \/ UNCHANGED vars
  BY <1>0, <1>4 DEF Tick, vars, jobVars
<1> QED
  BY <1>1, <1>2, <1>3, <1>4 DEF Next

(* A persist_batch past check_lease keeps its source until it commits, and *)
(* the advisory lock is its own from its first statement to its last.      *)
THEOREM WritersAreAlone == Spec => []WriterIsAlone
<1>1. Init => LockInv
  BY DEF Init, LockInv, AdvisoryLockExact, ThreadAfterFetch, Persists, Early, Idle, Thread, Owners, None
<1>2. LeaseInv /\ LockInv => WriterIsAlone
  BY DEF LeaseInv, LockInv, WriterIsAlone
<1> QED
  BY <1>1, <1>2, LockStep, LeaseInvariant, PTL DEF Spec

(* No late worker puts a source back to the batch of an earlier claim.     *)
THEOREM PublicationsAreOrdered == Spec => NoStalePublication
<1>1. LeaseInv /\ [Next]_vars => [\A s \in Sources : content'[s] >= content[s]]_vars
  <2> SUFFICES ASSUME LeaseInv, [Next]_vars, NEW s \in Sources
               PROVE  content'[s] >= content[s]
    OBVIOUS
  <2>1. content[s] \in Nat
    BY DEF LeaseInv, TypeOK, SourceTypes, Owners, None
  <2>2. CASE Kept
    BY <2>1, <2>2 DEF Kept
  <2>3. ASSUME NEW x \in Sources, Granted(x)  PROVE content'[s] >= content[s]
    BY <2>1, <2>3 DEF Granted
  <2>4. ASSUME NEW x \in Sources, Ended(x)  PROVE content'[s] >= content[s]
    <3>1. content[x] < owner[x] /\ owner[x] \in Nat
      BY <2>4 DEF Ended, LeaseInv, ContentIsPast, TypeOK, SourceTypes, Owners, None
    <3>2. content'[s] = content[s] \/ (s = x /\ content'[s] = owner[x])
      BY <2>4 DEF Ended, LeaseInv, TypeOK, SourceTypes
    <3> QED
      BY <2>1, <3>1, <3>2
  <2> QED
    BY <2>2, <2>3, <2>4, LeaseStep
<1> QED
  BY <1>1, LeaseInvariant, PTL DEF Spec, NoStalePublication

(* A run that has ended keeps its outcome.                                 *)
THEOREM OutcomesAreFinal == Spec => OutcomeIsFinal
<1>1. LeaseInv /\ [Next]_vars =>
        [\A o \in Owners : runStatus[o] \notin {"none", "running"} => runStatus'[o] = runStatus[o]]_vars
  BY LeaseStep DEF Kept, Granted, Ended
<1> QED
  BY <1>1, LeaseInvariant, PTL DEF Spec, OutcomeIsFinal

(* A lease changes hands directly only after it expired on the real clock. *)
THEOREM LeasesAreNotTaken == Spec => NoTakeover
<1>1. LeaseInv /\ [Next]_vars =>
        [\A s \in Sources : owner[s] # None /\ owner'[s] \notin {None, owner[s]} => until[s] <= clock]_vars
  BY LeaseStep DEF Kept, Granted, Ended, LeaseInv, TypeOK, SourceTypes
<1> QED
  BY <1>1, LeaseInvariant, PTL DEF Spec, NoTakeover

(* The whole protocol, with its crashes, cancellations and orphaned        *)
(* threads, implements the register of SingleWriter.                       *)
THEOREM LeasesRefineSingleWriter == Spec => RefinesSingleWriter
<1>1. Init => Register!Init
  BY DEF Init, Register!Init, None
<1>2. LeaseInv /\ [Next]_vars => [Register!Next]_(Register!vars)
  <2> SUFFICES ASSUME LeaseInv, [Next]_vars PROVE [Register!Next]_(Register!vars)
    OBVIOUS
  <2>1. CASE Kept
    BY <2>1 DEF Kept, Register!vars
  <2>2. ASSUME NEW s \in Sources, Granted(s)  PROVE Register!Grant(s)
    BY <2>2 DEF Granted, Register!Grant
  <2>3. ASSUME NEW s \in Sources, Ended(s)  PROVE Register!Publish(s) \/ Register!GiveUp(s)
    BY <2>3 DEF Ended, Register!Publish, Register!GiveUp, None
  <2> QED
    BY <2>1, <2>2, <2>3, LeaseStep DEF Register!Next
<1> QED
  BY <1>1, <1>2, LeaseInvariant, PTL DEF Spec, RefinesSingleWriter, Register!Spec

=============================================================================
