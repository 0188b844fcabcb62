----------------------------- MODULE MCBriefings -----------------------------
(* Two connections of writers and two of the API; one scope sees both      *)
(* events, the other only one.  Stamps and windows are bounded by the      *)
(* clock, which the abstract feed may use to choose from.                  *)
EXTENDS Briefings, TLC

CONSTANTS e1, e2, all, local

MCMatching == (all :> {e1, e2}) @@ (local :> {e2})
MCWindow == (all :> 1) @@ (local :> 2)
=============================================================================
