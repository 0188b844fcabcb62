------------------------------ MODULE MCLeases ------------------------------
(* Instances of Leases: a looping worker and a manual --once cycle racing  *)
(* for the same source.                                                    *)
EXTENDS Leases
=============================================================================
