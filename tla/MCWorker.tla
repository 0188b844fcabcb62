------------------------------ MODULE MCWorker -------------------------------
(* What the worker process shares among its jobs, and the database it is   *)
(* copied from: an instance each of Rotation, Fetches and Backup.  They    *)
(* share nothing, so a behaviour follows one of them while the others stay *)
(* where they began.  Rotation: four sources, two slots, one source that   *)
(* needs a token, and two faults.  Fetches: three CAP documents and a feed *)
(* with a body twice as long; a document may be redirected to another one  *)
(* or to another host, and one of them has an ETag.                        *)
EXTENDS Rotation, Fetches, Backup, TLC

MCHost == ("d1" :> "meteoalarm") @@ ("d2" :> "meteoalarm") @@ ("d3" :> "meteoalarm") @@ ("g" :> "gdacs")
MCValidator == [u \in {"d1", "d2", "d3", "g"} |-> IF u = "d1" THEN "etag" ELSE "date"]
MCSize == [u \in {"d1", "d2", "d3", "g"} |-> IF u = "g" THEN 2 ELSE 1]
MCRedirects == {<<"d1", "d2">>, <<"d1", "g">>}

VARIABLE part
workerVars == <<part, rotationVars, fetchVars, backupVars>>

Init == part \in {"rotation", "fetches", "backup"} /\ RotationInit /\ FetchInit /\ BackupInit
Next ==
  /\ UNCHANGED part
  /\ \/ part = "rotation" /\ RotationNext /\ UNCHANGED <<fetchVars, backupVars>>
     \/ part = "fetches" /\ FetchNext /\ UNCHANGED <<rotationVars, backupVars>>
     \/ part = "backup" /\ BackupNext /\ UNCHANGED <<rotationVars, fetchVars>>
Fairness == part = "rotation" => RotationFairness
Spec == Init /\ [][Next]_workerVars /\ Fairness
=============================================================================
