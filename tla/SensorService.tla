--------------------------- MODULE SensorService ---------------------------
(***************************************************************************)
(* What a sensor promises: it radiates its readings in order, each once or, *)
(* when its modem cannot be opened, not at all, and shows every reply it    *)
(* hears unless it turns to its next reading first.                         *)
(***************************************************************************)
EXTENDS Messages

CONSTANT Follows(_, _)  \* (a, r): reading r may be taken after a (NoData: r is the first)

VARIABLES
    taken,    \* the last reading taken
    pending,  \* the reading that waits to be radiated
    air,      \* the last reading radiated
    heard,    \* an undamaged frame that waits to be shown
    shown     \* the last reply shown

sensor == <<taken, pending, air, heard, shown>>

Init == /\ taken = NoData /\ pending = NoData /\ air = NoData
        /\ heard = NoData /\ shown = NoData

Take ==
    /\ pending = NoData
    /\ pending' \in Packets
    /\ Follows(taken, pending')
    /\ taken' = pending'
    /\ UNCHANGED <<air, heard, shown>>

Radiate ==
    /\ pending # NoData
    /\ air' = pending
    /\ pending' = NoData
    /\ UNCHANGED <<taken, heard, shown>>

\* The modem could not be opened.
Lose ==
    /\ pending # NoData
    /\ pending' = NoData
    /\ UNCHANGED <<taken, air, heard, shown>>

Hear ==
    /\ heard = NoData
    /\ heard' \in Packets \cup Replies
    /\ UNCHANGED <<taken, pending, air, shown>>

Show ==
    /\ heard # NoData
    /\ shown' = AsReply(heard)
    /\ heard' = NoData
    /\ UNCHANGED <<taken, pending, air>>

\* The modem is closed before the frame is looked at.
Forget ==
    /\ heard # NoData
    /\ heard' = NoData
    /\ UNCHANGED <<taken, pending, air, shown>>

Next == Take \/ Radiate \/ Lose \/ Hear \/ Show \/ Forget

Fairness == WF_sensor(Radiate) /\ WF_sensor(Show \/ Forget)

Spec == Init /\ [][Next]_sensor

FairSpec == Spec /\ Fairness
=============================================================================
