--------------------------- MODULE MCLoraGateway ---------------------------
(***************************************************************************)
(* Both gateways of LoraGateway for TLC.  Each hears a sensor whose readings*)
(* go bad, recover and go bad again, and another one; the gateway without   *)
(* uplink, which no other model checks, hears all of their readings.  No    *)
(* symmetry: Service has liveness.                                          *)
(***************************************************************************)
EXTENDS LoraGateway

CONSTANTS Mac1, Mac2  \* the sensors' MAC addresses

Reading(m, c, v) == [mac |-> m, count |-> c, valid |-> v, ok |-> TRUE]

Damaged == [mac |-> Mac2, count |-> 2, valid |-> FALSE, ok |-> FALSE]

Few == {Reading(Mac1, 1, TRUE), Reading(Mac1, 2, FALSE), Reading(Mac2, 2, TRUE), Damaged}

Many == {Reading(Mac1, c, v) : c \in Counts, v \in BOOLEAN}
            \cup {Reading(Mac2, 2, v) : v \in BOOLEAN} \cup {Damaged}
=============================================================================
