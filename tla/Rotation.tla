------------------------------ MODULE Rotation -------------------------------
(***************************************************************************)
(* The turns of the polling loop (worker.py run): which source is claimed  *)
(* next, as long as processes die and are restarted only so often.  Leases *)
(* has what becomes of one lease; here a lease is held, free, or left to   *)
(* run out, and time is the order in which next_due_at is passed: the      *)
(* sources past it are a sequence in the order of ORDER BY next_due_at,id, *)
(* each of the others waits a number of ticks.                             *)
(***************************************************************************)
EXTENDS Naturals, Sequences, SequencesExt, FiniteSetsExt

CONSTANTS
  Polled,       \* the sources, numbered in the order of their ids
  Keyed,        \* those whose spec has requires_key
  Slots,        \* parallel jobs of the process (3)
  Delays,       \* ticks until a source that was just polled is due
  MaxFaults     \* stops, crashes, lost leases and database errors of a behaviour

ASSUME PolledAssumption == Polled \subseteq Nat /\ IsFiniteSet(Polled) /\ Keyed \subseteq Polled
ASSUME RotationAssumption == Slots \in Nat \ {0} /\ Delays \subseteq Nat \ {0} /\ MaxFaults \in Nat

VARIABLES
  past,         \* the sources past next_due_at, in its order
  wait,         \* ticks to the next_due_at of each of the others
  leased,       \* lease_until: "free", "held" by a live job, "left" by a dead one
  on,           \* enabled
  up,           \* the worker process: "down", "claiming" or "waiting" for 5 seconds
  jobs,         \* its tasks, among them those that have ended since it last looked
  faults

rotationVars == <<past, wait, leased, on, up, jobs, faults>>

RotationInit ==
  /\ past = SetToSortSeq(Polled, <) /\ wait = [s \in Polled |-> 0]
  /\ leased = [s \in Polled |-> "free"]
  /\ on = {} /\ up = "down" /\ jobs = {} /\ faults = 0

Held == {s \in Polled : leased[s] = "held"}
Without(s) == SelectSeq(past, LAMBDA x : x # s)

(* Time passes; sources reach next_due_at together in the order of ids.    *)
TimePasses ==
  LET reached == {s \in Polled : wait[s] = 1} IN
  /\ wait' = [s \in Polled |-> IF wait[s] > 0 THEN wait[s] - 1 ELSE 0]
  /\ past' = past \o SetToSortSeq(reached, <)
  /\ UNCHANGED <<leased, on, up, jobs, faults>>

LeaseRunsOut(s) ==
  /\ leased[s] = "left" /\ leased' = [leased EXCEPT ![s] = "free"]
  /\ UNCHANGED <<past, wait, on, up, jobs, faults>>

(* The process starts, or is restarted, with the optional token or without.*)
Restart(key) ==
  /\ up = "down"
  /\ up' = "claiming"
  /\ on' = IF key THEN Polled ELSE Polled \ Keyed
  /\ UNCHANGED <<past, wait, leased, jobs, faults>>

(* Faulty variant of First: the lowest id, however long others are due.    *)
FirstById == Min({s \in Range(past) : leased[s] = "free" /\ s \in on})

(* claim_source: the first that is enabled, due and not leased.            *)
Claimables == SelectSeq(past, LAMBDA s : leased[s] = "free" /\ s \in on)
First == Head(Claimables)

ClaimNext ==
  /\ up = "claiming" /\ Cardinality(jobs) < Slots /\ Claimables # <<>>
  /\ leased' = [leased EXCEPT ![First] = "held"]
  /\ jobs' = jobs \cup {First}
  /\ UNCHANGED <<past, wait, on, up, faults>>

Rest ==
  /\ up = "claiming" /\ (Cardinality(jobs) >= Slots \/ Claimables = <<>>)
  /\ up' = "waiting"
  /\ UNCHANGED <<past, wait, leased, on, jobs, faults>>

(* The next pass, after the maintenance; tasks that ended give their slots.*)
Live == jobs \cap Held

Pass ==
  /\ up = "waiting" /\ up' = "claiming"
  /\ jobs' = Live
  /\ UNCHANGED <<past, wait, leased, on, faults>>

(* persist_batch or fail_source: next_due_at is set from the present.      *)
Polls(s, delay) ==
  /\ leased[s] = "held"
  /\ leased' = [leased EXCEPT ![s] = "free"]
  /\ past' = Without(s) /\ wait' = [wait EXCEPT ![s] = delay]
  /\ UNCHANGED <<on, up, jobs, faults>>

(* LeaseLost: the lease had run out.  A database error: it is left.        *)
PollsInVain(s, lease) ==
  /\ leased[s] = "held" /\ faults < MaxFaults
  /\ leased' = [leased EXCEPT ![s] = lease]
  /\ faults' = faults + 1
  /\ UNCHANGED <<past, wait, on, up, jobs>>

(* The process ends, and with it its jobs; those that are cancelled in time*)
(* release their lease and are due at once (none does when it is killed).  *)
Ends(released) ==
  /\ up # "down" /\ faults < MaxFaults
  /\ released \subseteq Held
  /\ up' = "down" /\ jobs' = {}
  /\ leased' = [s \in Polled |->
       IF s \in released THEN "free" ELSE IF s \in Held THEN "left" ELSE leased[s]]
  /\ past' = SelectSeq(past, LAMBDA s : s \notin released) \o SetToSortSeq(released, <)
  /\ faults' = faults + 1
  /\ UNCHANGED <<wait, on>>

RotationNext ==
  \/ TimePasses \/ ClaimNext \/ Rest \/ Pass
  \/ \E key \in BOOLEAN : Restart(key)
  \/ \E s \in Polled : LeaseRunsOut(s)
  \/ \E s \in Polled, delay \in Delays : Polls(s, delay)
  \/ \E s \in Polled, lease \in {"free", "left"} : PollsInVain(s, lease)
  \/ \E released \in SUBSET Polled : Ends(released)

RotationSpec == RotationInit /\ [][RotationNext]_rotationVars

(* Time passes, compose restarts the worker, the loop goes on, and a job   *)
(* ends: its reading is limited to 840 seconds, its writing by the lock.   *)
RotationFairness ==
  /\ WF_rotationVars(TimePasses)
  /\ WF_rotationVars(\E key \in BOOLEAN : Restart(key))
  /\ WF_rotationVars(ClaimNext \/ Rest \/ Pass)
  /\ \A s \in Polled :
       /\ WF_rotationVars(LeaseRunsOut(s))
       /\ WF_rotationVars(\E delay \in Delays : Polls(s, delay))

(* properties *************************************************************)
(* No source waits forever for its turn, although there are fewer slots    *)
(* than sources, some are due more often than others, and processes die    *)
(* with leases in hand: each is polled again and again unless it is        *)
(* switched off (claim_source's ORDER BY, ingestion.py:61; worker.py:89).  *)
EverySourcePolled ==
  \A s \in Polled : []<>(leased[s] = "held") \/ <>[](s \notin on)
=============================================================================
