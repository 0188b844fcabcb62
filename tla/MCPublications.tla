--------------------------- MODULE MCPublications ---------------------------
(* Two quakes of USGS and an episode of GDACS; CISA's list is empty, and   *)
(* lets a build succeed in which the other two fail.                       *)
EXTENDS Publications, TLC
CONSTANTS usgs, gdacs, cisa, quake1, quake2, episode
MCSourceOf == (quake1 :> usgs) @@ (quake2 :> usgs) @@ (episode :> gdacs)
(* The two quakes differ in nothing, and no property is about liveness.    *)
MCSymmetry == Permutations({quake1, quake2})
=============================================================================
