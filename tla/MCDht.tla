------------------------------- MODULE MCDht -------------------------------
(***************************************************************************)
(* Readings at the corners of the encoding and counts at the threshold.     *)
(***************************************************************************)
EXTENDS Dht

Corners == { [h |-> 0, c |-> 0], [h |-> 256, c |-> -1], [h |-> 655, c |-> -400],
             [h |-> 1000, c |-> 1250] }

Counts == { [low |-> 50, zero |-> 27, one |-> 70], [low |-> 84, zero |-> 50, one |-> 51] }
=============================================================================
