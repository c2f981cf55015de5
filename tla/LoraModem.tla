------------------------------ MODULE LoraModem ------------------------------
(***************************************************************************)
(* The SX127x transceiver, the part of pigpio that delivers its interrupt,  *)
(* and the driver of src/lora/lora.cpp that sits on both.                   *)
(*                                                                          *)
(* A driver function is a sequence of thread steps, one per access to state *)
(* that another thread can touch; a program that calls it supplies the      *)
(* label to continue at.  The interrupt handlers run on one thread of their *)
(* own, whose position is isrPc.  How the chip and pigpio behave (marked    *)
(* external) is what the driver relies on.                                  *)
(***************************************************************************)
EXTENDS Messages

CONSTANTS
    Threads,   \* the main thread and the callback threads
    Handles,   \* the SPI handles spiOpen can return
    NoHandle   \* the value of spid that is no open handle (-1 or garbage)

ASSUME ModemAssumption == /\ Handles # {}
                          /\ NoHandle \notin Handles

VARIABLES
    mode,    \* chip: the mode bits of REG_OP_MODE
    dio,     \* chip: what REG_DIO_MAPPING_1 puts on pin DIO0
    irq,     \* chip: the flags raised in REG_IRQ_FLAGS
    fifo,    \* chip: the frame in the FIFO (TX and RX base address are both 0)
    air,     \* chip: the last frame it radiated
    gpio,    \* pigpio: gpioInitialise has succeeded
    isr,     \* pigpio: the function registered on DIO0
    isrPc,   \* pigpio: where the interrupt thread is in that function
    edge,    \* pigpio: a rising edge of DIO0 is waiting for the thread
    open,    \* pigpio: the open SPI handles
    spid,    \* modem->spid
    rxBuf,   \* *modem->rx.data.buf
    rxCrc,   \* modem->rx.data.CRC
    txBuf,   \* *modem->tx.data.buf
    pc       \* where each thread is

chipVars == <<mode, dio, irq, fifo, air>>
pinVars == <<gpio, isr, isrPc, edge>>
bufVars == <<rxBuf, rxCrc, txBuf>>
modemVars == <<chipVars, pinVars, open, spid, bufVars, pc>>

Frames == Packets \cup Replies \cup {NoData}

Modes == {"SLEEP", "STDBY", "TX", "RXCONT"}

Flags == {"RxDone", "PayloadCrcError", "TxDone"}

IsrLabels == {"idle", "rx_read", "rx_crc", "rx_clear", "rx_spawn",
              "tx_clear", "tx_standby", "tx_spawn"}

DriverLabels == {"none",
                 "begin", "open", "config",
                 "send", "write_fifo", "send_dio", "send_isr", "send_mode",
                 "receive", "receive_dio", "receive_isr", "receive_mode",
                 "end", "end_standby", "end_close", "end_unset"}

\* Received and Sent are what a program's two buffers may hold.
ModemTypeOK(Received, Sent) ==
    /\ mode \in Modes
    /\ dio \in {"rx", "tx"}
    /\ irq \subseteq Flags
    /\ fifo \in Frames
    /\ air \in Frames
    /\ gpio \in BOOLEAN
    /\ isr \in {"none", "rx", "tx"}
    /\ isrPc \in IsrLabels
    /\ edge \in BOOLEAN
    /\ open \subseteq Handles
    /\ spid \in Handles \cup {NoHandle}
    /\ rxBuf \in Received \cup {NoData}
    /\ rxCrc \in BOOLEAN
    /\ txBuf \in Sent \cup {NoData}

ModemInit ==
    /\ mode = "STDBY" /\ dio = "rx" /\ irq = {} /\ fifo = NoData /\ air = NoData
    /\ gpio = FALSE /\ isr = "none" /\ isrPc = "idle" /\ edge = FALSE
    /\ open = {} /\ spid = NoHandle
    /\ rxBuf = NoData /\ rxCrc = FALSE /\ txBuf = NoData

-----------------------------------------------------------------------------
(* The pin, the handle and the registers.                                   *)

\* DIO0 is high while the flag mapped to it is raised.
Pin(d, q) == \/ d = "rx" /\ "RxDone" \in q
             \/ d = "tx" /\ "TxDone" \in q

\* Set the mapping and the flags; a rising edge is remembered if someone listens.
DriveDio0(d, q) ==
    /\ dio' = d
    /\ irq' = q
    /\ edge' = (edge \/ (isr # "none" /\ ~Pin(dio, irq) /\ Pin(d, q)))

\* spiXfer works through an open handle only, and changes nothing otherwise.
Xfer == spid \in open

SetOpMode(m) == mode' = IF Xfer THEN m ELSE mode

\* Mutant: the chip is left in the mode it is in.
StandbySkipped == UNCHANGED mode

lora_set_satandby_mode == SetOpMode("STDBY")

lora_set_rxcont_mode == SetOpMode("RXCONT")

\* Mutant: the transmitter is not switched on.
TxModeNever == SetOpMode("STDBY")

lora_set_tx_mode == SetOpMode("TX")

SetDio(d) == IF Xfer THEN DriveDio0(d, irq) ELSE UNCHANGED <<dio, irq, edge>>

lora_set_dio_rx_mapping == SetDio("rx")

lora_set_dio_tx_mapping == SetDio("tx")

lora_reset_irq_flags ==
    IF Xfer THEN DriveDio0(dio, {}) ELSE UNCHANGED <<dio, irq, edge>>

\* A read through a bad handle returns the low byte of pigpio's error code,
\* 0xE7, which has the RxDone bit and not the TxDone bit.
IrqFlagSeen(f) == IF Xfer THEN f \in irq ELSE f = "RxDone"

\* The FIFO is out of reach in sleep mode.
lora_write_fifo == fifo' = IF Xfer /\ mode # "SLEEP" THEN txBuf ELSE fifo

lora_reset == /\ mode' = "STDBY"
              /\ DriveDio0("rx", {})

\* Registering on a running interrupt thread replaces the function it calls.
SetDioIsr(f) == isr' = IF gpio THEN f ELSE isr

lora_set_rxdone_dioISR == SetDioIsr("rx")

lora_set_txdone_dioISR == SetDioIsr("tx")

\* Mutant: the handler stays registered.
RemoveIsrKeeps == isrPc = "idle" /\ UNCHANGED <<isr, edge>>

\* Stopping the interrupt thread waits for a handler that is running, and
\* forgets an edge that was not delivered.
lora_remove_dioISR ==
    /\ isrPc = "idle"
    /\ isr' = "none"
    /\ edge' = FALSE

-----------------------------------------------------------------------------
(* What the chip does by itself.                                            *)

\* A frame is complete: it is in the FIFO and RxDone is raised.
ChipReceive(frame, damaged) ==
    /\ mode = "RXCONT"
    /\ fifo' = frame
    /\ DriveDio0(dio, irq \cup {"RxDone"}
                          \cup (IF damaged THEN {"PayloadCrcError"} ELSE {}))
    /\ UNCHANGED <<mode, air, gpio, isr, isrPc, open, spid, bufVars, pc>>

\* The FIFO has been radiated: TxDone is raised and the chip falls to standby.
ChipTxDone ==
    /\ mode = "TX"
    /\ air' = fifo
    /\ mode' = "STDBY"
    /\ DriveDio0(dio, irq \cup {"TxDone"})
    /\ UNCHANGED <<fifo, gpio, isr, isrPc, open, spid, bufVars, pc>>

\* Mode, pin mapping, handler and flag agree: the next event raises an edge.
Listening == mode = "RXCONT" /\ dio = "rx" /\ isr = "rx" /\ "RxDone" \notin irq

Transmitting == mode = "TX" /\ dio = "tx" /\ isr = "tx" /\ "TxDone" \notin irq

-----------------------------------------------------------------------------
(* Thread steps.                                                            *)

At(t, from, to) ==
    /\ pc[t] = from
    /\ pc' = [pc EXCEPT ![t] = to]

\* LoRa_stop_receive, in two steps; LoRa_end and the programs call it.
StopRemoveIsr(t, from, to) ==
    /\ At(t, from, to)
    /\ lora_remove_dioISR
    /\ UNCHANGED <<chipVars, gpio, isrPc, open, spid, bufVars>>

StopStandby(t, from, to) ==
    /\ At(t, from, to)
    /\ lora_set_satandby_mode
    /\ UNCHANGED <<dio, irq, fifo, air, pinVars, open, spid, bufVars>>

\* Mutant: the handle is not closed.
EndCloseForgotten(t) ==
    /\ At(t, "end_close", "end_unset")
    /\ UNCHANGED <<chipVars, pinVars, open, spid, bufVars>>

\* LoRa_end: LoRa_stop_receive, spiClose, spid = -1.
EndClose(t) ==
    /\ At(t, "end_close", "end_unset")
    /\ open' = open \ {spid}
    /\ UNCHANGED <<chipVars, pinVars, spid, bufVars>>

EndUnset(t, to) ==
    /\ At(t, "end_unset", to)
    /\ spid' = NoHandle
    /\ UNCHANGED <<chipVars, pinVars, open, bufVars>>

LoRa_end(t, to) ==
    \/ StopRemoveIsr(t, "end", "end_standby")
    \/ StopStandby(t, "end_standby", "end_close")
    \/ EndClose(t)
    \/ EndUnset(t, to)

\* LoRa_begin: gpioInitialise and lora_reset, spiOpen, then every register.
BeginInitFails(t, to) ==
    /\ ~gpio
    /\ At(t, "begin", to)
    /\ UNCHANGED <<chipVars, pinVars, open, spid, bufVars>>

BeginReset(t) ==
    /\ At(t, "begin", "open")
    /\ gpio' = TRUE
    /\ lora_reset
    /\ UNCHANGED <<fifo, air, isr, isrPc, open, spid, bufVars>>

BeginOpen(t) ==
    /\ At(t, "open", "config")
    /\ \E h \in Handles \ open : spid' = h /\ open' = open \cup {h}
    /\ UNCHANGED <<chipVars, pinVars, bufVars>>

BeginOpenFails(t, to) ==
    /\ At(t, "open", to)
    /\ spid' = NoHandle
    /\ UNCHANGED <<chipVars, pinVars, open, bufVars>>

\* lora_set_lora_mode leaves the chip asleep; no other register is modelled here.
BeginConfigure(t, to) ==
    /\ At(t, "config", to)
    /\ SetOpMode("SLEEP")
    /\ UNCHANGED <<dio, irq, fifo, air, pinVars, open, spid, bufVars>>

LoRa_begin(t, to) == BeginReset(t) \/ BeginOpen(t) \/ BeginConfigure(t, to)

\* Mutant: the FIFO is filled in whatever mode the chip is in.
SendStandbySkipped(t) ==
    /\ At(t, "send", "write_fifo")
    /\ UNCHANGED <<chipVars, pinVars, open, spid, bufVars>>

\* LoRa_send: standby, fill the FIFO, map DIO0, register the handler, transmit.
SendStandby(t) ==
    /\ At(t, "send", "write_fifo")
    /\ lora_set_satandby_mode
    /\ UNCHANGED <<dio, irq, fifo, air, pinVars, open, spid, bufVars>>

SendWriteFifo(t) ==
    /\ At(t, "write_fifo", "send_dio")
    /\ lora_write_fifo
    /\ UNCHANGED <<mode, dio, irq, air, pinVars, open, spid, bufVars>>

\* Mutant: DIO0 keeps signalling RxDone.
SendMapDioForgotten(t) ==
    /\ At(t, "send_dio", "send_isr")
    /\ UNCHANGED <<chipVars, pinVars, open, spid, bufVars>>

SendMapDio(t) ==
    /\ At(t, "send_dio", "send_isr")
    /\ lora_set_dio_tx_mapping
    /\ UNCHANGED <<mode, fifo, air, gpio, isr, isrPc, open, spid, bufVars>>

SendSetIsr(t) ==
    /\ At(t, "send_isr", "send_mode")
    /\ lora_set_txdone_dioISR
    /\ UNCHANGED <<chipVars, gpio, isrPc, edge, open, spid, bufVars>>

SendTransmit(t) ==
    /\ At(t, "send_mode", "none")
    /\ lora_set_tx_mode
    /\ UNCHANGED <<dio, irq, fifo, air, pinVars, open, spid, bufVars>>

LoRa_send(t) == \/ SendStandby(t) \/ SendWriteFifo(t) \/ SendMapDio(t)
                \/ SendSetIsr(t) \/ SendTransmit(t)

\* LoRa_receive: standby, map DIO0, register the handler, listen.
ReceiveStandby(t) ==
    /\ At(t, "receive", "receive_dio")
    /\ lora_set_satandby_mode
    /\ UNCHANGED <<dio, irq, fifo, air, pinVars, open, spid, bufVars>>

\* Mutant: DIO0 keeps signalling TxDone.
ReceiveMapDioForgotten(t) ==
    /\ At(t, "receive_dio", "receive_isr")
    /\ UNCHANGED <<chipVars, pinVars, open, spid, bufVars>>

ReceiveMapDio(t) ==
    /\ At(t, "receive_dio", "receive_isr")
    /\ lora_set_dio_rx_mapping
    /\ UNCHANGED <<mode, fifo, air, gpio, isr, isrPc, open, spid, bufVars>>

ReceiveSetIsr(t) ==
    /\ At(t, "receive_isr", "receive_mode")
    /\ lora_set_rxdone_dioISR
    /\ UNCHANGED <<chipVars, gpio, isrPc, edge, open, spid, bufVars>>

ReceiveListen(t) ==
    /\ At(t, "receive_mode", "none")
    /\ lora_set_rxcont_mode
    /\ UNCHANGED <<dio, irq, fifo, air, pinVars, open, spid, bufVars>>

LoRa_receive(t) == \/ ReceiveStandby(t) \/ ReceiveMapDio(t)
                   \/ ReceiveSetIsr(t) \/ ReceiveListen(t)

-----------------------------------------------------------------------------
(* The interrupt thread.  A handler that does not see its flag returns.     *)

IsrGoto(from, to) == isrPc = from /\ isrPc' = to

IsrEnter ==
    /\ edge /\ isrPc = "idle" /\ isr # "none"
    /\ edge' = FALSE
    /\ isrPc' = IF isr = "rx" /\ IrqFlagSeen("RxDone") THEN "rx_read"
                ELSE IF isr = "tx" /\ IrqFlagSeen("TxDone") THEN "tx_clear"
                ELSE "idle"
    /\ UNCHANGED <<chipVars, gpio, isr, open, spid, bufVars, pc>>

\* rxDoneISRf: the payload, then its CRC flag, then clear the flags, then the
\* callback thread.  Contents is what the FIFO's bytes may read as.
RxDoneRead(contents) ==
    /\ IsrGoto("rx_read", "rx_crc")
    /\ Xfer
    /\ rxBuf' \in contents
    /\ UNCHANGED <<chipVars, gpio, isr, edge, open, spid, rxCrc, txBuf, pc>>

RxDoneCrc ==
    /\ IsrGoto("rx_crc", "rx_clear")
    /\ rxCrc' = (Xfer => "PayloadCrcError" \in irq)
    /\ UNCHANGED <<chipVars, gpio, isr, edge, open, spid, rxBuf, txBuf, pc>>

RxDoneClear ==
    /\ IsrGoto("rx_clear", "rx_spawn")
    /\ lora_reset_irq_flags
    /\ UNCHANGED <<mode, fifo, air, gpio, isr, open, spid, bufVars, pc>>

RxDoneSpawn(t, callback) ==
    /\ IsrGoto("rx_spawn", "idle")
    /\ At(t, "none", callback)
    /\ UNCHANGED <<chipVars, gpio, isr, edge, open, spid, bufVars>>

\* txDoneISRf: clear the flags, standby, then the callback thread.
TxDoneClear ==
    /\ IsrGoto("tx_clear", "tx_standby")
    /\ lora_reset_irq_flags
    /\ UNCHANGED <<mode, fifo, air, gpio, isr, open, spid, bufVars, pc>>

TxDoneStandby ==
    /\ IsrGoto("tx_standby", "tx_spawn")
    /\ lora_set_satandby_mode
    /\ UNCHANGED <<dio, irq, fifo, air, gpio, isr, edge, open, spid, bufVars, pc>>

TxDoneSpawn(t, callback) ==
    /\ IsrGoto("tx_spawn", "idle")
    /\ At(t, "none", callback)
    /\ UNCHANGED <<chipVars, gpio, isr, edge, open, spid, bufVars>>
=============================================================================
