------------------------------- MODULE Backup --------------------------------
(***************************************************************************)
(* Copies of the database (scripts/manage.py): backup, the backup that     *)
(* detach-source --apply makes first, and restore-check, while the worker  *)
(* and the API go on committing.  A state of the database is the number of *)
(* commits before it.  A command is one process that may be killed at any  *)
(* step; PostgreSQL may be restarted, and a file may be damaged later.     *)
(***************************************************************************)
EXTENDS Naturals, FiniteSets

CONSTANTS
  Copies,         \* names of copies: a time and a random suffix
  MaxCommits      \* bound of the model

ASSUME CommitsAssumption == MaxCommits \in Nat

(* What a file holds: a state, nothing readable, or what damage left of it.*)
Holds(state) == [kind |-> "whole", state |-> state]
Partly == [kind |-> "part", state |-> 0]
Damaged == [kind |-> "damaged", state |-> 0]
NoFile == [kind |-> "none", state |-> 0]

VARIABLES
  live,         \* commits of the live database
  snapshot,     \* the session that exports a snapshot: "none", "open" or "lost"
  exported,     \* the state it sees
  step, copy,   \* the command under way: its next step, its copy
  detaches,     \* whether it is detach-source --apply
  began,        \* commits when it began
  expected,     \* the fingerprint, as the state it describes
  dump, suffix, manifest,   \* the files of each copy; the dump's suffix; what the manifest describes
  trial,        \* restore-check: the state of the temporary database, 0 when there is none
  verdict       \* its last report: "none", "matches" or "differs"

fileVars == <<dump, suffix, manifest>>
trialVars == <<trial, verdict>>
commandVars == <<step, copy, detaches, began, expected>>
backupVars == <<live, snapshot, exported, commandVars, fileVars, trialVars>>

NoCopy == "none"

BackupInit ==
  /\ live = 0 /\ snapshot = "none" /\ exported = 0
  /\ step = "idle" /\ copy = NoCopy /\ detaches = FALSE /\ began = 0 /\ expected = 0
  /\ dump = [c \in Copies |-> NoFile] /\ suffix = [c \in Copies |-> ".dump"]
  /\ manifest = [c \in Copies |-> NoFile]
  /\ trial = 0 /\ verdict = "none"

(* the database ***********************************************************)
Commit ==
  /\ live < MaxCommits /\ live' = live + 1
  /\ UNCHANGED <<snapshot, exported, commandVars, fileVars, trialVars>>

(* PostgreSQL is restarted: its sessions end.                              *)
DatabaseRestarts ==
  /\ snapshot = "open" /\ snapshot' = "lost"
  /\ UNCHANGED <<live, exported, commandVars, fileVars, trialVars>>

Damage(c) ==
  /\ dump[c].kind = "whole" /\ step = "idle"
  /\ dump' = [dump EXCEPT ![c] = Damaged]
  /\ UNCHANGED <<live, snapshot, exported, commandVars, suffix, manifest, trialVars>>

(* The operator deletes a copy.                                            *)
Deleted(c) ==
  /\ dump[c] # NoFile /\ step = "idle"
  /\ dump' = [dump EXCEPT ![c] = NoFile] /\ manifest' = [manifest EXCEPT ![c] = NoFile]
  /\ suffix' = [suffix EXCEPT ![c] = ".dump"]
  /\ UNCHANGED <<live, snapshot, exported, commandVars, trialVars>>

(* backup *****************************************************************)
(* Faulty variant: the fingerprint is read outside of the snapshot, as the *)
(* fingerprint command does.                                               *)
FingerprintLive == live

Go(next) == step' = next /\ UNCHANGED <<copy, detaches, began>>

Begin(c, apply) ==
  /\ step = "idle" /\ dump[c] = NoFile /\ manifest[c] = NoFile
  /\ step' = "export" /\ copy' = c /\ detaches' = apply /\ began' = live
  /\ verdict' = "none"
  /\ UNCHANGED <<live, snapshot, exported, expected, fileVars, trial>>

(* BEGIN ISOLATION LEVEL REPEATABLE READ; pg_export_snapshot()             *)
Export ==
  /\ step = "export" /\ Go("fingerprint")
  /\ snapshot' = "open" /\ exported' = live
  /\ UNCHANGED <<live, expected, fileVars, trialVars>>

Fingerprinted == exported

Fingerprint ==
  /\ step = "fingerprint" /\ snapshot = "open" /\ Go("dump")
  /\ expected' = Fingerprinted
  /\ dump' = [dump EXCEPT ![copy] = Partly]
  /\ UNCHANGED <<live, snapshot, exported, suffix, manifest, trialVars>>

(* pg_dump --snapshot needs the session that exported it to be alive.      *)
Dump ==
  /\ step = "dump" /\ snapshot = "open" /\ Go("manifest")
  /\ dump' = [dump EXCEPT ![copy] = Holds(exported)]
  /\ manifest' = [manifest EXCEPT ![copy] = Partly]
  /\ UNCHANGED <<live, snapshot, exported, expected, suffix, trialVars>>

AfterBackup == IF detaches THEN "apply" ELSE "idle"

Manifest ==
  /\ step = "manifest" /\ Go(AfterBackup)
  /\ manifest' = [manifest EXCEPT ![copy] = Holds(expected)]
  /\ snapshot' = "none"
  /\ UNCHANGED <<live, exported, expected, dump, suffix, trialVars>>

(* A step fails: the dump, if there is one, becomes .incomplete, and the   *)
(* error ends the command.                                                 *)
BackupFails ==
  /\ step \in {"export", "fingerprint", "dump", "manifest"} /\ Go("idle")
  /\ suffix' = [suffix EXCEPT ![copy] = IF dump[copy] = NoFile THEN @ ELSE ".incomplete"]
  /\ snapshot' = "none"
  /\ UNCHANGED <<live, exported, expected, dump, manifest, trialVars>>

Killed ==
  /\ step # "idle" /\ Go("idle")
  /\ snapshot' = "none"
  /\ UNCHANGED <<live, exported, expected, fileVars, trialVars>>

(* admin_module("detach-source", ..., "--apply"): one transaction, or none *)
Apply ==
  /\ step = "apply" /\ Go("idle")
  /\ live' \in {live, live + 1} \cap 0..MaxCommits
  /\ UNCHANGED <<snapshot, exported, expected, fileVars, trialVars>>

(* restore_check **********************************************************)
(* A pair: the file has the bytes whose SHA-256 the manifest was given.    *)
Readable(c) ==
  /\ suffix[c] = ".dump" /\ dump[c].kind = "whole" /\ manifest[c].kind = "whole"

Restore(c) ==
  /\ step = "idle" /\ Readable(c)
  /\ step' = "compare" /\ copy' = c
  /\ trial' = dump[c].state /\ verdict' = "none"
  /\ UNCHANGED <<live, snapshot, exported, detaches, began, expected, fileVars>>

(* The temporary database is dropped whether it matches or not.            *)
Compare ==
  /\ step = "compare" /\ Go("idle")
  /\ trial' = 0
  /\ verdict' = IF trial = manifest[copy].state THEN "matches" ELSE "differs"
  /\ UNCHANGED <<live, snapshot, exported, expected, fileVars>>

BackupNext ==
  \/ Commit \/ DatabaseRestarts
  \/ Export \/ Fingerprint \/ Dump \/ Manifest \/ BackupFails \/ Killed \/ Apply \/ Compare
  \/ \E c \in Copies : Damage(c) \/ Deleted(c) \/ Restore(c) \/ \E apply \in BOOLEAN : Begin(c, apply)

BackupSpec == BackupInit /\ [][BackupNext]_backupVars

(* properties *************************************************************)
(* "manifest i `pg_dump --snapshot` opisuja ten sam stan nawet wtedy, gdy  *)
(* worker dalej zapisuje" (README.md:86): a pair that restore-check accepts*)
(* holds what its manifest describes, wherever a command failed or was     *)
(* killed, and whatever was committed meanwhile; no comparison of the      *)
(* restored database with the manifest fails.                              *)
PairsDescribeOneState ==
  /\ \A c \in Copies : Readable(c) => dump[c].state = manifest[c].state
  /\ verdict # "differs"

(* "Wariant --apply automatycznie tworzy kopie przed zmiana"               *)
(* (README.md:108): the decision is written only when this command has left*)
(* a pair, of a state no older than its beginning and without the decision.*)
AppliedAfterCopy ==
  [][step = "apply" /\ live' # live =>
       Readable(copy) /\ dump[copy].state \in began..live]_backupVars
=============================================================================
