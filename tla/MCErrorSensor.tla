--------------------------- MODULE MCErrorSensor ---------------------------
(***************************************************************************)
(* The script for TLC.  Both gateway answers and another sensor's reading   *)
(* may be heard.                                                            *)
(***************************************************************************)
EXTENDS ErrorSensor

CONSTANT Other  \* the MAC address of another sensor

Heardable == { [ack |-> 5, needReboot |-> TRUE],
               [mac |-> Other, count |-> 1, valid |-> TRUE, ok |-> TRUE] }
=============================================================================
