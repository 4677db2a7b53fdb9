------------------------- MODULE MCSettingsDelivery -------------------------
(***************************************************************************)
(* Instances of SettingsDelivery for TLC: which writes are made, and by    *)
(* whom.                                                                   *)
(***************************************************************************)
EXTENDS SettingsDelivery, TLC

CONSTANTS k1, k2, v1, v2

NoWrites == {}
OneKey == {k1 :> v1, k1 :> v2}
Overlapping == {k1 :> v1, k1 :> v2, (k1 :> v2) @@ (k2 :> v1)}

(* Sift is the list comprehension it stands for.                           *)
ASSUME SiftIsSelection ==
    \A q \in UNION {[1..n -> {k1, v1, v2}] : n \in 0..5} :
        Sift(q, {i \in DOMAIN q : q[i] # v1}) = SelectSeq(q, LAMBDA x : x # v1)
=============================================================================
