------------------------------ MODULE Messages ------------------------------
(***************************************************************************)
(* The records that the programs exchange: the sensor's Data, the gateway's *)
(* Reply and the NB_Data record forwarded to the public server.             *)
(***************************************************************************)
EXTENDS Integers

CONSTANTS
    Macs,    \* the MAC addresses the sensors put in Data.mac_
    Counts,  \* the values of Data.count_ that occur
    NoData   \* the content of a buffer nothing was written to yet

ASSUME MessagesAssumption == /\ Macs # {}
                             /\ Counts # {}
                             /\ Counts \subseteq Nat

(***************************************************************************)
(* A frame as it came off the air: the fields of Data, and "ok", whether    *)
(* its payload survived.  The fields of a frame that did not are arbitrary. *)
(* Humidity, temperature, RSSI and SNR are carried and never looked at.     *)
(***************************************************************************)
Packets == [mac : Macs, count : Counts, valid : BOOLEAN, ok : BOOLEAN]

Corrupted == {p \in Packets : ~p.ok}

\* struct Reply_: ack_ is the count being acknowledged, -1, or 0 until it is set.
Replies == [ack : Counts \cup {-1, 0}, needReboot : BOOLEAN]

ZeroReply == [ack |-> 0, needReboot |-> FALSE]

\* A sensor casts whatever it receives to a Reply.  The first eight characters of
\* a MAC address then are an ack that is nobody's count, and a wish to reboot.
MacText == -2

MacTextReply == [ack |-> MacText, needReboot |-> TRUE]

AsReply(frame) == IF frame \in Replies THEN frame ELSE MacTextReply

\* enum class Status, and statusToint, its image in GatewayData.status_.
Status == {"Newby", "Good", "Bad"}

statusToint(s) == IF s = "Newby" THEN 0 ELSE IF s = "Good" THEN 1 ELSE 2

\* GatewayData (less the gateway's own MAC and the RSSI) and NB_Data.
GatewayData == [status : 0 .. 2, rcount : Nat]

NB_Data == [sensor : Packets, status : 0 .. 2, rcount : Nat, needReboot : BOOLEAN]

ASSUME NoDataAssumption == NoData \notin Packets \cup Replies \cup NB_Data
=============================================================================
