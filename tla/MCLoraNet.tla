----------------------------- MODULE MCLoraNet -----------------------------
(***************************************************************************)
(* Networks for TLC: a lone device and two devices on a channel that loses  *)
(* and damages frames, and on a quiet one the device of                     *)
(* mimicclientWithError.cpp beside another.  A device of lora_sensor.cpp is *)
(* named by its MAC address, counts its readings, and each may be invalid.  *)
(***************************************************************************)
EXTENDS LoraNet

CONSTANTS
    Mac1, Mac2, Mac3,  \* MAC addresses; the script uses the first and the third
    Script             \* the device that plays the script

Devices == {Mac1, Mac2, Mac3, Script}

Kinds == { [devices |-> {Mac3}, quiet |-> FALSE],
           [devices |-> {Mac1, Mac2}, quiet |-> FALSE],
           [devices |-> {Script, Mac2}, quiet |-> TRUE] }

Reading(m, c, v) == [mac |-> m, count |-> c, valid |-> v, ok |-> TRUE]

\* Bound: the count of a device's last reading.
Last(d) == CASE d = Mac1 -> 2 [] d = Mac2 -> 0 [] OTHER -> 4

Counting(d, a) ==
    IF a = NoData THEN {Reading(d, 0, v) : v \in BOOLEAN}
    ELSE IF a.count >= Last(d) THEN {}
    ELSE {Reading(d, a.count + 1, v) : v \in BOOLEAN}

Scripted(a) ==
    IF a = NoData THEN {Reading(Mac1, 0, FALSE)}
    ELSE IF a.mac = Mac3 THEN {}
    ELSE IF a.count >= 13 THEN {Reading(Mac3, 0, TRUE)}
    ELSE {Reading(Mac1, a.count + 1, (a.count + 1) % 7 = 6)}

Readings(d, a) == IF d = Script THEN Scripted(a) ELSE Counting(d, a)
=============================================================================
