---------------------------- MODULE LatestValue ----------------------------
(***************************************************************************)
(* What delivering settings promises: whatever is handed to the device for *)
(* a setting is the value last asked for.  Values may be superseded before *)
(* they are handed over and may be handed over more than once, never out   *)
(* of date; `owed' is what still has to be.                                *)
(***************************************************************************)
CONSTANTS Keys, Values

VARIABLES
    want,    \* the value last asked for, per setting
    told,    \* the value last handed to the device
    owed     \* the settings asked for and not handed over since

latest == <<want, told, owed>>

Init ==
    /\ want \in [Keys -> Values]
    /\ told = want
    /\ owed = {}

(* The settings of D are asked for anew; those of S are handed over.       *)
Step(D, S) ==
    /\ want' \in [Keys -> Values]
    /\ \A k \in Keys \ D : want'[k] = want[k]
    /\ told' = [k \in Keys |-> IF k \in S THEN want'[k] ELSE told[k]]
    /\ owed' = (owed \cup D) \ S

Next == \E D, S \in SUBSET Keys : Step(D, S)

Spec == Init /\ [][Next]_latest
=============================================================================
