----------------------------- MODULE MCRegistry -----------------------------
(***************************************************************************)
(* Instances of Registry for TLC: the model values.                        *)
(***************************************************************************)
EXTENDS Registry

CONSTANTS d1, d2
=============================================================================
