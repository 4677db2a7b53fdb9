----------------------------- MODULE MCFootage -----------------------------
(***************************************************************************)
(* Instances of Footage for TLC: where the chunks start and what is wrong  *)
(* with them.                                                              *)
(***************************************************************************)
EXTENDS Footage

CONSTANTS c1, c2, c3, c4

New == {{}}
OnlyJoined == {{c1, c2}}
OneStream == [c \in Chunks |-> "main"]
TwoStreams == [c \in Chunks |-> IF c = c4 THEN "sub" ELSE "main"]

\* Two arrivals in one second, the late one in the first second, or none.
Twins == [c \in Chunks |-> CASE c = c1 -> 1 [] c \in {c2, c3} -> 2 [] c = c4 -> 3]
LateTwin == [c \in Chunks |-> CASE c \in {c1, c4} -> 1 [] c = c2 -> 2 [] c = c3 -> 3]
Apart == [c \in Chunks |-> CASE c = c1 -> 1 [] c = c2 -> 2 [] c = c3 -> 3 [] c = c4 -> 4]
=============================================================================
