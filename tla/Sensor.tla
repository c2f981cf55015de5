------------------------------- MODULE Sensor -------------------------------
(***************************************************************************)
(* What main/lora_sensor.cpp and main/mimicclientWithError.cpp have in      *)
(* common: the callbacks rx_f and tx_f, and the modem they share with main. *)
(* Unlike the gateway's, this rx_f does not stop the receiver, so frames,   *)
(* interrupts and callbacks go on while main closes and reopens the modem.  *)
(***************************************************************************)
EXTENDS LoraModem

CONSTANTS
    Main,     \* the main thread; every other thread runs callbacks
    Traffic,  \* the frames others radiate
    Overlaps, \* may a frame complete while the previous one is handled?  Both are tried
    Faults    \* what may fail in LoRa_begin: gpioInitialise ("init"), spiOpen ("spi")

ASSUME SensorAssumption == /\ Main \in Threads
                           /\ Traffic \subseteq Frames \ {NoData}
                           /\ Overlaps \subseteq BOOLEAN
                           /\ Faults \subseteq {"init", "spi"}

VARIABLES
    data,   \* main's data or errData, the reading it sends
    shown,  \* the last reply that rx_f printed
    overlap \* one of Overlaps, for the whole behaviour

sensorVars == <<data, shown, overlap>>

Callbacks == Threads \ {Main}

\* "mac" to "final" are main's own steps, "none" of main is a sleep of seconds.
SensorLabels == DriverLabels \cup {"mac", "set", "final", "rx_f", "show"}

ModemLabels == DriverLabels \ {"none"}

SensorTypeOK ==
    /\ ModemTypeOK(Traffic, Packets)
    /\ pc \in [Threads -> SensorLabels]
    /\ data \in Packets \cup {NoData}
    /\ shown \in Replies \cup {MacTextReply, NoData}
    /\ overlap \in BOOLEAN

SensorInit ==
    /\ ModemInit
    /\ pc = [t \in Threads |-> IF t = Main THEN "mac" ELSE "none"]
    /\ data = NoData /\ shown = NoData
    /\ overlap \in Overlaps

-----------------------------------------------------------------------------
(* Steps of main that both programs have.                                   *)

\* getMacAddress until it succeeds; an attempt that fails changes nothing.
GetMac ==
    /\ At(Main, "mac", "set")
    /\ UNCHANGED <<chipVars, pinVars, open, spid, bufVars, sensorVars>>

\* memcpy(modem.tx.data.buf, &data, sizeof(Data)).
Fill(reading) ==
    /\ data' = reading
    /\ txBuf' = reading
    /\ UNCHANGED <<chipVars, pinVars, open, spid, rxBuf, rxCrc, shown, overlap>>

\* LoRa_begin gives up; both programs ignore its result and go on to LoRa_send.
BeginFails ==
    /\ \/ "init" \in Faults /\ BeginInitFails(Main, "send")
       \/ ("spi" \in Faults \/ Handles \subseteq open) /\ BeginOpenFails(Main, "send")
    /\ UNCHANGED sensorVars

\* The sleep of several seconds outlasts a transmission and its tx_f, which
\* take tenths of one.
Rested ==
    /\ mode # "TX"
    /\ ~(edge /\ isr = "tx") /\ isrPc \notin {"tx_clear", "tx_standby", "tx_spawn"}
    /\ \A t \in Callbacks : pc[t] \notin ModemLabels

-----------------------------------------------------------------------------
(* The callbacks, the interrupt thread and the air.                         *)

\* Mutant: a damaged reply is shown like any other.
RxCrcIgnored(t) ==
    /\ At(t, "rx_f", "show")
    /\ UNCHANGED <<chipVars, pinVars, open, spid, bufVars, sensorVars>>

RxCrc(t) ==
    /\ At(t, "rx_f", IF rxCrc THEN "none" ELSE "show")
    /\ UNCHANGED <<chipVars, pinVars, open, spid, bufVars, sensorVars>>

RxShow(t) ==
    /\ At(t, "show", "none")
    /\ shown' = AsReply(rxBuf)
    /\ UNCHANGED <<chipVars, pinVars, open, spid, bufVars, data, overlap>>

\* tx_f is a LoRa_receive.
CallbackStep(t) == \/ RxCrc(t) \/ RxShow(t)
                   \/ LoRa_receive(t) /\ UNCHANGED sensorVars

\* A read through a closed handle would not return: see HandlerSafe.
Interrupt ==
    /\ \/ IsrEnter
       \/ RxDoneRead({fifo}) \/ RxDoneCrc \/ RxDoneClear
       \/ TxDoneClear \/ TxDoneStandby
       \/ \E t \in Callbacks : RxDoneSpawn(t, "rx_f") \/ TxDoneSpawn(t, "receive")
    /\ UNCHANGED sensorVars

Quiet == ~edge /\ isrPc = "idle" /\ \A t \in Threads : pc[t] \notin {"rx_f", "show"}

\* Bound: a callback thread is left for the frame.
RoomForCallback == \E t \in Callbacks : pc[t] = "none"

Hear(frame, damaged) ==
    /\ IF overlap THEN RoomForCallback ELSE Quiet
    /\ ChipReceive(frame, damaged)
    /\ UNCHANGED sensorVars

Transmitted == ChipTxDone /\ UNCHANGED sensorVars

Around == \/ \E t \in Callbacks : CallbackStep(t)
          \/ Interrupt
          \/ Transmitted
          \/ \E frame \in Traffic, damaged \in BOOLEAN : Hear(frame, damaged)

-----------------------------------------------------------------------------
(* Properties of both programs.                                             *)

\* No handler of the interrupt thread ever works through a closed handle, where a
\* read fails and its memcpy gets a negative size: LoRa_end removes the handler
\* before it closes, however often main reopens the modem (lora.cpp:234, 434).
HandlerSafe == isrPc # "idle" => Xfer

Idle == ~edge /\ isrPc = "idle" /\ \A t \in Threads : pc[t] = "none"

\* While main sleeps and nothing else runs, the sensor waits for a reply or for
\* the end of its transmission with everything set to notice it (lora.cpp:125-165),
\* unless LoRa_begin could not open the modem for this reading (lora.cpp:4-13).
Reachable == Idle /\ Xfer => Listening \/ Transmitting

-----------------------------------------------------------------------------
(* The mapping to SensorService.                                            *)

SendingLabels == {"config", "send", "write_fifo", "send_dio", "send_isr", "send_mode"}

\* A reading is pending from the memcpy, which comes before the calls at labels, to
\* the end of its transmission, or until LoRa_begin has failed to open the modem.
PendingFrom(labels) ==
    IF pc[Main] \in labels \/ (pc[Main] \in SendingLabels /\ Xfer) \/ mode = "TX"
    THEN data ELSE NoData

\* A frame that came is in the chip, and its CRC flag a little longer; then both
\* are in the modem's buffer.
InChip == isrPc = "rx_read" \/ (edge /\ isr = "rx")

InBuffer == \/ isrPc \in {"rx_crc", "rx_clear", "rx_spawn"}
            \/ \E t \in Threads : pc[t] \in {"rx_f", "show"}

Damaged == IF InChip \/ isrPc = "rx_crc" THEN "PayloadCrcError" \in irq ELSE rxCrc

\* The next frame overwrites it if it may overlap: nothing is promised of it then.
Heard == IF overlap \/ Damaged \/ ~(InChip \/ InBuffer) THEN NoData
         ELSE IF InChip THEN fifo ELSE rxBuf

Shown == IF overlap THEN NoData ELSE shown
=============================================================================
