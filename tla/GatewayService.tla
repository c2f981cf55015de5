--------------------------- MODULE GatewayService ---------------------------
(***************************************************************************)
(* What the gateway promises the sensors, with no threads, modes, maps or   *)
(* interrupts: it hears one frame at a time, serves it in one step, and     *)
(* radiates the one answer before it hears the next.                        *)
(***************************************************************************)
EXTENDS Messages

CONSTANT ErrorLimit  \* invalid readings in a row that are tolerated

VARIABLES
    streak,   \* per sensor: invalid readings since the last valid one
    reboots,  \* per sensor: how often a reboot was requested
    heard,    \* the frame that waits to be served
    answer,   \* the answer that waits to be radiated
    sent      \* the last answer radiated

service == <<streak, reboots, heard, answer, sent>>

Init ==
    /\ streak = [m \in Macs |-> 0]
    /\ reboots = [m \in Macs |-> 0]
    /\ heard = NoData
    /\ answer = NoData
    /\ sent = NoData

Hear ==
    /\ heard = NoData /\ answer = NoData
    /\ heard' \in Packets
    /\ UNCHANGED <<streak, reboots, answer, sent>>

\* Mutant: a damaged frame is acknowledged.
ServeDamagedAcks ==
    /\ heard # NoData /\ ~heard.ok
    /\ answer' = [ack |-> heard.count, needReboot |-> FALSE]
    /\ heard' = NoData
    /\ UNCHANGED <<streak, reboots, sent>>

\* A damaged frame counts for nobody and is answered with -1.
ServeDamaged ==
    /\ heard # NoData /\ ~heard.ok
    /\ answer' = [ack |-> -1, needReboot |-> FALSE]
    /\ heard' = NoData
    /\ UNCHANGED <<streak, reboots, sent>>

\* Mutant: the limit itself is one too many.
RebootWishAtLimit(s) == s >= ErrorLimit

RebootWish(s) == s > ErrorLimit

\* Mutant: one count for all sensors.
CountedTogether(m, s) == [x \in Macs |-> s]

Counted(m, s) == [streak EXCEPT ![m] = s]

AckOf(r) == r.count

\* A reading is acknowledged by its count; one too many invalid ones, and every
\* further one, asks for a reboot.
ServeReading ==
    /\ heard # NoData /\ heard.ok
    /\ LET m == heard.mac
           s == IF heard.valid THEN 0 ELSE streak[m] + 1
       IN  /\ streak' = Counted(m, s)
           /\ reboots' = [reboots EXCEPT ![m] = IF s > ErrorLimit THEN @ + 1 ELSE @]
           /\ answer' = [ack |-> AckOf(heard), needReboot |-> RebootWish(s)]
    /\ heard' = NoData
    /\ UNCHANGED sent

\* Mutant: the answer stays and is radiated again.
RadiateAgain ==
    /\ answer # NoData
    /\ sent' = answer
    /\ UNCHANGED <<streak, reboots, heard, answer>>

Radiate ==
    /\ answer # NoData
    /\ sent' = answer
    /\ answer' = NoData
    /\ UNCHANGED <<streak, reboots, heard>>

Serve == ServeDamaged \/ ServeReading

Next == Hear \/ Serve \/ Radiate

Spec == Init /\ [][Next]_service /\ WF_service(Serve) /\ WF_service(Radiate)
=============================================================================
