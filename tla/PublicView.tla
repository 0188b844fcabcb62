------------------------------ MODULE PublicView ------------------------------
(***************************************************************************)
(* What a visitor of the public page may be shown of each source: the      *)
(* records of one reading of that source, whole or, while the source       *)
(* fails, what is left of it; never records of two readings, and never one *)
(* that a later successful reading did not contain.                        *)
(***************************************************************************)
EXTENDS Integers, FiniteSets

CONSTANTS Sources, Records

VARIABLES
  reading,      \* number of the last published collection
  shown         \* shown[s]: what is shown of s, each record with its reading

Init == reading = 0 /\ shown = [s \in Sources |-> {}]

(* A publication has read some source; of every other it may keep what was *)
(* shown, and nothing else.                                                *)
Publish ==
  /\ reading' = reading + 1
  /\ \E fresh \in (SUBSET Sources) \ {{}} :
       \A s \in Sources :
         IF s \in fresh THEN shown'[s] \subseteq Records \X {reading'} ELSE shown'[s] \subseteq shown[s]

Spec == Init /\ [][Publish]_<<reading, shown>>
=============================================================================
