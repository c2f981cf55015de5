---------------------------- MODULE ErrorSensor ----------------------------
(***************************************************************************)
(* The test sensor of main/mimicclientWithError.cpp: a script of fifteen    *)
(* readings, the modem opened and closed for each, and then a loop that     *)
(* waits for sleep mode.                                                    *)
(***************************************************************************)
EXTENDS Sensor, Sequences

CONSTANTS Mac1, Mac2  \* "00:00:00:00:00:01" and "00:00:00:00:00:02"

ASSUME ErrorSensorAssumption == {Mac1, Mac2} \subseteq Macs /\ 0 .. 13 \subseteq Counts

VARIABLES
    step,   \* readings sent so far: 7 * k + i, and the last one
    polled  \* what the last LoRa_get_op_mode returned, or NotPolled

vars == <<modemVars, sensorVars, step, polled>>

SLEEP_MODE == 0

OpModes == [SLEEP |-> SLEEP_MODE, STDBY |-> 1, TX |-> 3, RXCONT |-> 5]

NotPolled == -1

\* Reading 7 * k + i is valid for i = 6 only; the fifteenth is another sensor's.
Script ==
    [n \in 1 .. 14 |-> [mac |-> Mac1, count |-> n - 1, valid |-> (n - 1) % 7 = 6, ok |-> TRUE]]
    \o <<[mac |-> Mac2, count |-> 0, valid |-> TRUE, ok |-> TRUE]>>

TypeOK ==
    /\ SensorTypeOK
    /\ step \in 0 .. Len(Script)
    /\ polled \in 0 .. 7 \cup {NotPolled}

Init == SensorInit /\ step = 0 /\ polled = NotPolled

\* Mutant: the first reading of the second round is left out.
SendNextSkips ==
    /\ At(Main, "set", "begin")
    /\ LET n == IF step = 6 THEN 8 ELSE step + 1 IN step' = n /\ Fill(Script[n])
    /\ UNCHANGED polled

\* setData and memcpy.
SendNext ==
    /\ At(Main, "set", "begin")
    /\ step' = step + 1
    /\ Fill(Script[step + 1])
    /\ UNCHANGED polled

\* sleep(8), or sleep(5) after the last reading.
WakeUp ==
    /\ Rested
    /\ At(Main, "none", "end")
    /\ UNCHANGED <<chipVars, pinVars, open, spid, bufVars, sensorVars, step, polled>>


AfterEnd == IF step < Len(Script) THEN "set" ELSE "final"

MainDriver == /\ \/ LoRa_end(Main, AfterEnd)
                 \/ LoRa_begin(Main, "send")
                 \/ BeginFails
                 \/ LoRa_send(Main)
              /\ UNCHANGED <<sensorVars, step, polled>>

\* The low three bits of REG_OP_MODE, or of the error code 0xE7 of a bad handle.
LoRa_get_op_mode == IF Xfer THEN OpModes[mode] ELSE 7

\* while (LoRa_get_op_mode(&modem) != SLEEP_MODE) sleep(1).  What follows the loop
\* is never reached.
FinalPoll ==
    /\ pc[Main] = "final"
    /\ polled # SLEEP_MODE
    /\ polled' = LoRa_get_op_mode
    /\ UNCHANGED <<modemVars, sensorVars, step>>

scriptVars == <<step, polled>>

MainStep == \/ GetMac /\ UNCHANGED scriptVars
            \/ SendNext \/ WakeUp \/ MainDriver \/ FinalPoll

Next == \/ MainStep
        \/ Around /\ UNCHANGED scriptVars

\* As for LoraSensor, but pigpio may fail at every attempt.
Fairness ==
    /\ SF_vars(MainStep)
    /\ \A t \in Callbacks : WF_vars(CallbackStep(t) /\ UNCHANGED scriptVars)
    /\ WF_vars(Interrupt /\ UNCHANGED scriptVars)
    /\ WF_vars(Transmitted /\ UNCHANGED scriptVars)

Spec == Init /\ [][Next]_vars

FairSpec == Spec /\ Fairness

-----------------------------------------------------------------------------

Follows(a, r) == \E n \in 1 .. Len(Script) :
                    /\ r = Script[n]
                    /\ a = IF n = 1 THEN NoData ELSE Script[n - 1]

\* Here the modem is closed before the next reading is prepared.
SS == INSTANCE SensorService WITH taken <- data, pending <- PendingFrom({"begin", "open"}),
                                  heard <- Heard, shown <- Shown

\* The fifteen readings are radiated in the order of the script, each exactly once
\* or, if LoRa_begin fails for it, never, whatever is heard in between; replies as in
\* LoraSensor (mimicclientWithError.cpp:97-126, lora.cpp:3-13).
PlaysScript == SS!FairSpec /\ [][SS!Lose => SS!Radiate \/ BeginFails]_vars

=============================================================================
