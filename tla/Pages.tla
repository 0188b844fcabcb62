-------------------------------- MODULE Pages --------------------------------
(* What the entries of the public page in localStorage have in common: the *)
(* tabs that read and write them, and the storage events a tab may have    *)
(* left to handle (Selections, ComparisonPoint).                           *)
EXTENDS Naturals

CONSTANTS Tabs, MaxEvents   \* the second a bound of the model

ASSUME PagesAssumption == MaxEvents \in Nat
=============================================================================
