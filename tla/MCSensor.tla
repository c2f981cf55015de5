------------------------------ MODULE MCSensor ------------------------------
(***************************************************************************)
(* The sensor of LoraSensor for TLC.  An answer of the gateway and another  *)
(* sensor's reading may be heard.                                           *)
(***************************************************************************)
EXTENDS LoraSensor

CONSTANT Other  \* the MAC address of the other sensor

Heardable == { [ack |-> 1, needReboot |-> TRUE],
               [mac |-> Other, count |-> 1, valid |-> TRUE, ok |-> TRUE] }
=============================================================================
