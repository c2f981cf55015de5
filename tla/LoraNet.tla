------------------------------ MODULE LoraNet ------------------------------
(***************************************************************************)
(* Sensors and a gateway on one radio channel.  The gateway is GatewayService*)
(* and each sensor is SensorService, which the programs are shown to        *)
(* implement elsewhere.  Everybody hears everybody; a frame reaches each    *)
(* listener intact, damaged or not at all, and a gateway that is busy with  *)
(* an earlier frame hears nothing.  Replies carry no address, and a reading *)
(* is sent once, or never if the modem cannot be opened, whether or not an  *)
(* answer comes.                                                            *)
(***************************************************************************)
EXTENDS Messages, Sequences, FiniteSets

CONSTANTS
    ErrorLimit,   \* invalid readings in a row that are tolerated
    Sensors,      \* the devices there are
    After(_, _),  \* (d, a): the readings device d may take after a (NoData: first)
    Networks      \* which of them are on the channel, and whether it is a quiet one

ASSUME NetAssumption ==
    ErrorLimit \in Nat /\ Networks \subseteq [devices : SUBSET Sensors, quiet : BOOLEAN]

\* A device sends frames of its own making, which are whole when they leave.
ASSUME ReadingsAssumption ==
    \A d \in Sensors, a \in Packets \cup {NoData} : After(d, a) \subseteq {r \in Packets : r.ok}

\* The devices of one network do not send under each other's MAC address.
ASSUME OwnMacAssumption ==
    \A n \in Networks, a, b \in Packets \cup {NoData} :
        \A d, e \in n.devices :
            d # e => \A r \in After(d, a), s \in After(e, b) : r.mac # s.mac

\* A device that has a network to itself counts its readings.
ASSUME CountingAssumption ==
    \A n \in Networks, d \in Sensors, a \in Packets :
        n.devices = {d} => \A r \in After(d, a) : r.count > a.count

VARIABLES
    streak, reboots, heard, answer, sent,  \* the gateway, see GatewayService
    taken, pending, air, ear, shown,       \* per device: SensorService, ear is heard
    net,                                   \* one of Networks, for the whole behaviour
    log,                                   \* history: the readings the gateway heard intact
    top                                    \* history, per device: the highest ack shown

gateway == <<streak, reboots, heard, answer, sent>>
vars == <<gateway, taken, pending, air, ear, shown, net, log, top>>

\* In a quiet network nothing fails or is lost, and an exchange is over before the next one.
Quiet == net.quiet

G == INSTANCE GatewayService

NetTypeOK ==
    /\ heard \in Packets \cup {NoData}
    /\ answer \in Replies \cup {NoData}
    /\ taken \in [Sensors -> Packets \cup {NoData}]
    /\ pending \in [Sensors -> Packets \cup {NoData}]
    /\ air \in [Sensors -> Packets \cup {NoData}]
    /\ ear \in [Sensors -> Packets \cup Replies \cup {NoData}]
    /\ shown \in [Sensors -> Replies \cup {MacTextReply, NoData}]
    /\ net \in Networks
    /\ log \in Seq(Packets)
    /\ top \in [Sensors -> Counts \cup {-1}]

Init ==
    /\ G!Init
    /\ taken = [d \in Sensors |-> NoData]
    /\ pending = [d \in Sensors |-> NoData]
    /\ air = [d \in Sensors |-> NoData]
    /\ ear = [d \in Sensors |-> NoData]
    /\ shown = [d \in Sensors |-> NoData]
    /\ net \in Networks
    /\ log = <<>>
    /\ top = [d \in Sensors |-> -1]

-----------------------------------------------------------------------------
(* The channel.                                                             *)

\* Mutant: a device listens for one answer only.
ListenersOnce == {d \in Sensors : air[d] # NoData /\ ear[d] = NoData /\ shown[d] = NoData}

\* A device listens after its first reading, and takes in one frame at a time.
Listeners == {d \in Sensors : air[d] # NoData /\ ear[d] = NoData}

Reach(frame, devices) ==
    \E H \in IF Quiet THEN {devices} ELSE SUBSET devices :
        ear' = [d \in Sensors |-> IF d \in H THEN frame ELSE ear[d]]

Lost == ~Quiet \/ heard # NoData \/ answer # NoData

GatewayGets(r) ==
    \/ Lost /\ UNCHANGED <<gateway, log>>
    \/ heard' = r /\ G!Hear /\ log' = Append(log, r)
    \/ ~Quiet /\ heard' = [r EXCEPT !.ok = FALSE] /\ G!Hear /\ UNCHANGED log

Settled == /\ heard = NoData /\ answer = NoData
           /\ \A d \in Sensors : pending[d] = NoData /\ ear[d] = NoData

-----------------------------------------------------------------------------
(* The actors.                                                              *)

Take(d) ==
    /\ d \in net.devices /\ pending[d] = NoData
    /\ Quiet => Settled
    /\ \E r \in After(d, taken[d]) : /\ taken' = [taken EXCEPT ![d] = r]
                                     /\ pending' = [pending EXCEPT ![d] = r]
    /\ UNCHANGED <<gateway, air, ear, shown, net, log, top>>

\* Mutant: the reading is sent again and again.
SensorRepeats(d) ==
    /\ pending[d] # NoData
    /\ air' = [air EXCEPT ![d] = pending[d]]
    /\ GatewayGets(pending[d])
    /\ Reach(pending[d], Listeners \ {d})
    /\ UNCHANGED <<taken, pending, shown, net, top>>

SensorRadiates(d) ==
    /\ pending[d] # NoData
    /\ air' = [air EXCEPT ![d] = pending[d]]
    /\ pending' = [pending EXCEPT ![d] = NoData]
    /\ GatewayGets(pending[d])
    /\ Reach(pending[d], Listeners \ {d})
    /\ UNCHANGED <<taken, shown, net, top>>

\* Its modem cannot be opened.
SensorLoses(d) ==
    /\ ~Quiet
    /\ pending[d] # NoData
    /\ pending' = [pending EXCEPT ![d] = NoData]
    /\ UNCHANGED <<gateway, taken, air, ear, shown, net, log, top>>

GatewayServes ==
    /\ G!Serve
    /\ UNCHANGED <<taken, pending, air, ear, shown, net, log, top>>

GatewayRadiates ==
    /\ G!Radiate
    /\ Reach(answer, Listeners)
    /\ UNCHANGED <<taken, pending, air, shown, net, log, top>>

SensorShows(d) ==
    /\ ear[d] # NoData
    /\ LET reply == AsReply(ear[d])
       IN  /\ shown' = [shown EXCEPT ![d] = reply]
           /\ top' = [top EXCEPT ![d] = IF reply.ack > @ THEN reply.ack ELSE @]
    /\ ear' = [ear EXCEPT ![d] = NoData]
    /\ UNCHANGED <<gateway, taken, pending, air, net, log>>

\* Its modem is closed for the next reading before the frame is looked at.
SensorForgets(d) ==
    /\ ~Quiet
    /\ ear[d] # NoData
    /\ ear' = [ear EXCEPT ![d] = NoData]
    /\ UNCHANGED <<gateway, taken, pending, air, shown, net, log, top>>

Next ==
    \/ \E d \in Sensors : \/ Take(d) \/ SensorRadiates(d) \/ SensorLoses(d)
                          \/ SensorShows(d) \/ SensorForgets(d)
    \/ GatewayServes
    \/ GatewayRadiates

\* Sensors send again and again, and what was started is finished.
Fairness ==
    /\ \A d \in Sensors : /\ WF_vars(Take(d))
                          /\ WF_vars(SensorRadiates(d))
                          /\ WF_vars(SensorShows(d) \/ SensorForgets(d))
    /\ WF_vars(GatewayServes)
    /\ WF_vars(GatewayRadiates)

Spec == Init /\ [][Next]_vars

FairSpec == Spec /\ Fairness

-----------------------------------------------------------------------------
(* Properties.                                                              *)

\* The readings of the sensor of entry n that were heard since its last valid one.
InARow(n) ==
    {i \in 1 .. n : /\ log[i].mac = log[n].mac
                    /\ \A j \in i .. n : log[j].mac = log[n].mac => ~log[j].valid}

\* The answer that entry n of the log deserves, by what was heard up to then.
Due(n) == [ack |-> log[n].count, needReboot |-> Cardinality(InARow(n)) > ErrorLimit]

NoReading == [ack |-> -1, needReboot |-> FALSE]

\* The gateway answers the reading heard last by the readings of that sensor it
\* has heard, and no loss, damage or other sensor makes a difference
\* (hybrid_gateway.cpp:33-69, 83-100).
AnswersByHistory ==
    answer # NoData => \/ answer = NoReading
                       \/ log # <<>> /\ answer = Due(Len(log))

\* A sensor is shown nothing but answers that some reading deserved, -1, or the
\* text of another sensor's reading: it cannot tell whose answer it is, but it is
\* never told of a reboot nobody had earned (lora_sensor.cpp:41-66).
ShownWasDue ==
    \A d \in Sensors :
        shown[d] \in {Due(n) : n \in 1 .. Len(log)} \cup {NoReading, MacTextReply, NoData}

\* A sensor that is alone never sees an answer twice, or one that is older than
\* one it has seen, although it sends without waiting (lora_sensor.cpp:98-118).
AcksInOrder ==
    [][\A d \in Sensors :
          net.devices = {d} /\ SensorShows(d) /\ ear[d] \in Replies /\ ear[d].ack >= 0
          => ear[d].ack > top[d]]_vars

\* In a quiet network the device whose reading was heard last has been shown its
\* answer before anybody sends again (lora_sensor.cpp:94-113).
EachAcknowledged ==
    \A d \in Sensors :
        Quiet /\ Settled /\ log # <<>> /\ air[d] = log[Len(log)]
        => shown[d] = Due(Len(log))

\* Whatever is under way comes to an end: the reading is answered, the answer shown
\* (hybrid_gateway.cpp:71-152).
Settles == ~Settled ~> Settled

Follows(a, r) == \E d \in Sensors : r \in After(d, a)

SS(d) == INSTANCE SensorService WITH taken <- taken[d], pending <- pending[d], air <- air[d],
                                     heard <- ear[d], shown <- shown[d]

\* The channel asks nothing of a sensor that SensorService does not promise: each
\* device's part of a behaviour is a behaviour of that service
\* (lora_sensor.cpp:94-118).
SensorsServe == /\ \A d \in Sensors : SS(d)!Init
                /\ [][\A d \in Sensors : [SS(d)!Next]_(SS(d)!sensor)]_vars
=============================================================================
