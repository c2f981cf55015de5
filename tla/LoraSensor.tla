----------------------------- MODULE LoraSensor -----------------------------
(***************************************************************************)
(* The sensor of main/lora_sensor.cpp: every 20 s main takes a reading,     *)
(* closes the modem under whatever else is running, reopens it and sends.   *)
(***************************************************************************)
EXTENDS Sensor

CONSTANTS
    Mac,   \* the sensor's MAC address
    Wrap   \* bound: data.count_ starts again after this many readings

ASSUME LoraSensorAssumption == Mac \in Macs /\ Wrap \in Nat \ {0} /\ 0 .. Wrap - 1 \subseteq Counts

vars == <<modemVars, sensorVars>>

\* The reading may or may not be valid; getSensorValue is in module Dht.
Reading(c) == [mac : {Mac}, count : {c}, valid : BOOLEAN, ok : {TRUE}]

FirstReading ==
    /\ At(Main, "set", "begin")
    /\ \E r \in Reading(0) : Fill(r)

NextReading ==
    /\ Rested
    /\ At(Main, "none", "end")
    /\ \E r \in Reading((data.count + 1) % Wrap) : Fill(r)

MainDriver == /\ \/ LoRa_end(Main, "begin")
                 \/ LoRa_begin(Main, "send")
                 \/ BeginFails
                 \/ LoRa_send(Main)
              /\ UNCHANGED sensorVars

MainStep == GetMac \/ FirstReading \/ NextReading \/ MainDriver

Init == SensorInit

Next == MainStep \/ Around

\* Threads are scheduled and transmissions end.  Removing a handler cancels the
\* interrupt thread and joins it: it cannot be overtaken by frame after frame.
\* pigpio may fail, but not for ever.
Fairness ==
    /\ SF_vars(MainStep)
    /\ SF_vars(BeginReset(Main) /\ UNCHANGED sensorVars)
    /\ SF_vars(BeginOpen(Main) /\ UNCHANGED sensorVars)
    /\ \A t \in Callbacks : WF_vars(CallbackStep(t))
    /\ WF_vars(Interrupt)
    /\ WF_vars(Transmitted)

Spec == Init /\ [][Next]_vars

FairSpec == Spec /\ Fairness

-----------------------------------------------------------------------------

Follows(a, r) == r \in Reading(IF a = NoData THEN 0 ELSE (a.count + 1) % Wrap)

\* From the memcpy to spiOpen: the modem is closed after the next reading is prepared.
CloseAndOpen == {"end", "end_standby", "end_close", "end_unset", "begin", "open"}

SS == INSTANCE SensorService WITH taken <- data, pending <- PendingFrom(CloseAndOpen),
                                  heard <- Heard, shown <- Shown

\* Every behaviour of the sensor is one of the service: the readings are radiated in
\* order, each exactly once or, if LoRa_begin fails for it, never, although main
\* reopens the modem in the middle of interrupts and callbacks; and while frames do
\* not overlap, the replies shown are the undamaged ones, in order
\* (lora_sensor.cpp:30-66, 98-118, lora.cpp:3-13).
ServesReadings == SS!FairSpec /\ [][SS!Lose => SS!Radiate \/ BeginFails]_vars

\* Its part without fairness, which module LoraSensor_proof proves.
ReadingsSafety ==
    SS!Init /\ [][SS!Next]_(SS!sensor) /\ [][SS!Lose => SS!Radiate \/ BeginFails]_vars

\* main never hangs in closing or reopening the modem, and a failure of LoRa_begin
\* costs it no more than the reading at hand (lora_sensor.cpp:98-118).
KeepsSending == []<>(mode = "TX")
=============================================================================
