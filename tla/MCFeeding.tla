----------------------------- MODULE MCFeeding -----------------------------
(* An instance of Feeding for TLC: a meal now and then, twice a day, and   *)
(* days apart, on whole seconds of two ticks.                              *)
EXTENDS Feeding

SomeSchedules == {{}, {<<0, 2>>}, {<<2, 0>>}, {<<0, 0>>, <<2, 2>>}, {<<1, 0>>, <<1, 2>>}}
=============================================================================
