-------------------------- MODULE LoraSensor_proof --------------------------
(***************************************************************************)
(* The sensor, for any number of callback threads and handles and whatever  *)
(* it hears: main may close and reopen the modem under the callbacks, and   *)
(* yet no handler works through a closed handle, the sensor is never deaf   *)
(* while it sleeps unless the modem could not be opened, and its readings   *)
(* and replies are those of SensorService.                                  *)
(***************************************************************************)
EXTENDS LoraSensor, TLAPS

(***************************************************************************)
(* The inductive invariant.  What holds depends on where main is; while it  *)
(* sleeps it depends on how far the exchange it started has got.            *)
(***************************************************************************)

\* No interrupt is delivered and none is under way.
NoHandler == isr = "none" /\ isrPc = "idle" /\ ~edge

\* No callback uses the modem: tx_f has come to its end.
CallbacksRest == \A t \in Callbacks : pc[t] \notin ModemLabels

\* The chip radiates the reading, and TxDone will be noticed.
Radiating ==
    /\ mode = "TX" /\ dio = "tx" /\ isr = "tx" /\ irq = {} /\ isrPc = "idle" /\ ~edge
    /\ CallbacksRest

\* The handler of TxDone is about to run, or runs.
Radiated ==
    /\ mode = "STDBY" /\ dio = "tx" /\ isr = "tx"
    /\ \/ isrPc = "idle" /\ edge /\ irq = {"TxDone"}
       \/ isrPc = "tx_clear" /\ ~edge /\ irq = {"TxDone"}
       \/ isrPc \in {"tx_standby", "tx_spawn"} /\ ~edge /\ irq = {}
    /\ CallbacksRest

\* Thread t runs tx_f, which calls LoRa_receive.
Turning(t) ==
    /\ mode = "STDBY" /\ irq = {} /\ isrPc = "idle" /\ ~edge
    /\ \/ pc[t] \in {"receive", "receive_dio"} /\ dio = "tx" /\ isr = "tx"
       \/ pc[t] = "receive_isr" /\ dio = "rx" /\ isr = "tx"
       \/ pc[t] = "receive_mode" /\ dio = "rx" /\ isr = "rx"
    /\ \A u \in Callbacks \ {t} : pc[u] \notin ModemLabels

RxLabels == {"rx_read", "rx_crc", "rx_clear"}

\* The chip listens, and a frame that came is noticed.
Receiving ==
    /\ mode = "RXCONT" /\ dio = "rx" /\ isr = "rx"
    /\ isrPc \in RxLabels \cup {"idle", "rx_spawn"}
    /\ IF edge \/ isrPc \in RxLabels THEN "RxDone" \in irq /\ fifo \in Traffic ELSE irq = {}
    /\ isrPc \in RxLabels => ~edge
    /\ CallbacksRest

Asleep == Xfer /\ (Radiating \/ Radiated \/ (\E t \in Callbacks : Turning(t)) \/ Receiving)

\* The modem is closed, or open and not yet on the air.
Closed == NoHandler /\ CallbacksRest /\ mode = "STDBY"

\* LoRa_begin has failed: nothing main does until the next one reaches the chip.
Shut ==
    /\ ~Xfer /\ CallbacksRest /\ isrPc = "idle" /\ ~edge
    /\ mode = "STDBY" /\ isr \in {"none", "tx"}

\* main prepares a transmission: chip, mapping and handler are in mode m, and so on.
Preparing(m, d, f) ==
    /\ Xfer /\ gpio /\ CallbacksRest /\ isrPc = "idle" /\ ~edge /\ irq = {}
    /\ mode = m /\ dio = d /\ isr = f

PhaseInv ==
    /\ pc[Main] \in {"mac", "set", "begin"} => Closed /\ ~Xfer
    /\ pc[Main] = "open" => Closed /\ gpio /\ dio = "rx" /\ irq = {}
    /\ pc[Main] = "config" => Preparing("STDBY", "rx", "none")
    /\ pc[Main] = "send" => Preparing("SLEEP", "rx", "none") \/ Shut
    /\ pc[Main] \in {"write_fifo", "send_dio"} => Preparing("STDBY", "rx", "none") \/ Shut
    /\ pc[Main] = "send_isr" => Preparing("STDBY", "tx", "none") \/ Shut
    /\ pc[Main] = "send_mode" => Preparing("STDBY", "tx", "tx") \/ Shut
    /\ pc[Main] = "none" => (gpio /\ Asleep) \/ Shut
    /\ pc[Main] = "end" => (gpio /\ Xfer /\ Receiving) \/ Shut
    /\ pc[Main] = "end_standby" =>
          NoHandler /\ CallbacksRest /\ ((Xfer /\ mode = "RXCONT") \/ Shut)
    /\ pc[Main] \in {"end_close", "end_unset"} => Closed

MainLabels == {"mac", "set", "begin", "open", "config", "send", "write_fifo", "send_dio",
               "send_isr", "send_mode", "none", "end", "end_standby", "end_close", "end_unset"}

\* "none" of a callback is a thread that has not been started or has ended.
CallbackLabels == {"none", "receive", "receive_dio", "receive_isr", "receive_mode",
                   "rx_f", "show"}

LabelInv == pc[Main] \in MainLabels /\ \A t \in Callbacks : pc[t] \in CallbackLabels

\* The reading is in the buffer, then in the chip if that is open, then on the air.
ReadingInv ==
    /\ pc[Main] \in {"mac", "set"} => data = NoData
    /\ pc[Main] \in ModemLabels => data \in Packets /\ txBuf = data
    /\ pc[Main] \in {"send_dio", "send_isr", "send_mode"} /\ Xfer => fifo = data
    /\ pc[Main] = "none" => data \in Packets /\ (mode = "TX" => fifo = data)

Showing == {t \in Callbacks : pc[t] \in {"rx_f", "show"}}

\* While frames do not overlap, one frame is handled at a time, from the chip to the
\* callback that shows it, and a callback that shows one shows a whole one.
FrameInv ==
    ~overlap =>
      /\ (edge /\ isr = "rx") \/ isrPc \in RxLabels \cup {"rx_spawn"} => Showing = {}
      /\ isrPc # "idle" => ~edge
      /\ \A t, u \in Showing : t = u
      /\ isrPc \in {"rx_crc", "rx_clear", "rx_spawn"} \/ Showing # {} => rxBuf \in Traffic
      /\ \A t \in Showing : pc[t] = "show" => ~rxCrc

SensorInv == SensorTypeOK /\ LabelInv /\ PhaseInv

FrameOrder == ReadingInv /\ FrameInv

-----------------------------------------------------------------------------
(* The steps of main.                                                       *)

\* A sensor that has just been started has touched nothing.
LEMMA InitSensor == Init => SensorInv /\ FrameOrder
<1> SUFFICES ASSUME Init PROVE SensorInv /\ FrameOrder
  OBVIOUS
<1> USE DEF Init, SensorInit, ModemInit
<1>1. pc[Main] = "mac" /\ \A t \in Callbacks : pc[t] = "none"
  BY SensorAssumption DEF Callbacks
<1>2. SensorTypeOK
  BY SensorAssumption, ModemAssumption
     DEF SensorTypeOK, ModemTypeOK, SensorLabels, DriverLabels, Modes, Frames, IsrLabels
<1>3. LabelInv
  BY <1>1 DEF LabelInv, MainLabels, CallbackLabels
<1>4. PhaseInv
  BY <1>1 DEF PhaseInv, Closed, NoHandler, CallbacksRest, ModemLabels, Xfer
<1>5. ReadingInv
  BY <1>1 DEF ReadingInv, ModemLabels, DriverLabels
<1>6. FrameInv
  BY <1>1 DEF FrameInv, Showing, RxLabels
<1> QED
  BY <1>2, <1>3, <1>4, <1>5, <1>6 DEF SensorInv, FrameOrder

\* Where the threads are after a step of main.
LEMMA MainAt ==
  ASSUME SensorInv, NEW to \in MainLabels, NEW from, At(Main, from, to)
  PROVE  /\ pc[Main] = from /\ pc'[Main] = to
         /\ \A t \in Callbacks : pc'[t] = pc[t]
         /\ LabelInv'
         /\ pc' \in [Threads -> SensorLabels]
         /\ CallbacksRest => CallbacksRest'
<1>1. Main \in Threads /\ pc \in [Threads -> SensorLabels] /\ Main \notin Callbacks
  BY SensorAssumption DEF SensorInv, SensorTypeOK, Callbacks
<1>2. to \in SensorLabels
  BY DEF MainLabels, SensorLabels, DriverLabels
<1>3. pc[Main] = from /\ pc'[Main] = to /\ pc' \in [Threads -> SensorLabels]
  BY <1>1, <1>2 DEF At
<1>4. \A t \in Callbacks : pc'[t] = pc[t]
  BY <1>1 DEF At, Callbacks
<1> QED
  BY <1>3, <1>4 DEF SensorInv, LabelInv, CallbacksRest

\* main's own steps: the MAC address and a reading (lora_sensor.cpp:74-116).
LEMMA OwnSteps ==
  ASSUME SensorInv, ReadingInv, GetMac \/ FirstReading \/ NextReading
  PROVE  SensorInv'
<1> USE DEF SensorInv, SensorTypeOK, ModemTypeOK, chipVars, pinVars, bufVars, sensorVars
<1> USE DEF Closed, NoHandler, Xfer
<1>1. CASE GetMac
  <2>1. /\ pc[Main] = "mac" /\ pc'[Main] = "set"
        /\ LabelInv' /\ pc' \in [Threads -> SensorLabels]
        /\ CallbacksRest => CallbacksRest'
    BY <1>1, MainAt DEF GetMac, MainLabels
  <2>2. PhaseInv'
    BY <1>1, <2>1 DEF GetMac, PhaseInv
  <2> QED
    BY <1>1, <2>1, <2>2 DEF GetMac
<1>2. CASE FirstReading
  <2>1. PICK r \in Reading(0) : Fill(r)
    BY <1>2 DEF FirstReading
  <2>2. r \in Packets
    <3>1. 0 \in Counts
      BY LoraSensorAssumption
    <3> QED
      BY <3>1, LoraSensorAssumption DEF Reading, Packets
  <2>3. /\ pc[Main] = "set" /\ pc'[Main] = "begin"
        /\ LabelInv' /\ pc' \in [Threads -> SensorLabels]
        /\ CallbacksRest => CallbacksRest'
    BY <1>2, MainAt DEF FirstReading, MainLabels
  <2>4. PhaseInv'
    BY <2>1, <2>3 DEF Fill, PhaseInv
  <2> QED
    BY <2>1, <2>2, <2>3, <2>4 DEF Fill
<1>3. CASE NextReading
  <2>1. PICK r \in Reading((data.count + 1) % Wrap) : Fill(r)
    BY <1>3 DEF NextReading
  <2>2. /\ pc[Main] = "none" /\ pc'[Main] = "end"
        /\ LabelInv' /\ pc' \in [Threads -> SensorLabels]
        /\ CallbacksRest => CallbacksRest'
    BY <1>3, MainAt DEF NextReading, MainLabels
  <2>3. r \in Packets
    <3>1. data.count \in Nat
      BY <2>2, MessagesAssumption DEF ReadingInv, Packets
    <3>2. (data.count + 1) % Wrap \in 0 .. Wrap - 1
      BY <3>1, LoraSensorAssumption
    <3> QED
      BY <3>2, LoraSensorAssumption DEF Reading, Packets
  <2>4. (gpio /\ Asleep) \/ Shut
    BY <2>2 DEF PhaseInv
  <2>5. ~Radiating /\ ~Radiated /\ ~(\E t \in Callbacks : Turning(t))
    BY <1>3 DEF NextReading, Rested, Radiating, Radiated, Turning, ModemLabels, DriverLabels
  <2>6. (gpio /\ Xfer /\ Receiving) \/ Shut
    BY <2>4, <2>5 DEF Asleep
  <2>7. PhaseInv'
    BY <2>1, <2>2, <2>6 DEF Fill, PhaseInv, Receiving, Shut
  <2> QED
    BY <2>1, <2>2, <2>3, <2>7 DEF Fill
<1> QED
  BY <1>1, <1>2, <1>3

\* LoRa_end removes the handler while the modem is open and closes it when nothing
\* can interrupt any more (lora.cpp:234-243, 427-440).
LEMMA EndSteps ==
  ASSUME SensorInv, LoRa_end(Main, "begin"), UNCHANGED sensorVars
  PROVE  SensorInv'
<1> USE DEF SensorInv, SensorTypeOK, ModemTypeOK, chipVars, pinVars, bufVars, sensorVars
<1> USE DEF Closed, NoHandler, Xfer
<1>1. CASE StopRemoveIsr(Main, "end", "end_standby")
  <2>1. /\ pc[Main] = "end" /\ pc'[Main] = "end_standby"
        /\ LabelInv' /\ pc' \in [Threads -> SensorLabels]
        /\ CallbacksRest => CallbacksRest'
    BY <1>1, MainAt DEF StopRemoveIsr, MainLabels
  <2>2. PhaseInv'
    BY <1>1, <2>1 DEF StopRemoveIsr, lora_remove_dioISR, PhaseInv, Receiving, Shut
  <2> QED
    BY <1>1, <2>1, <2>2 DEF StopRemoveIsr, lora_remove_dioISR
<1>2. CASE StopStandby(Main, "end_standby", "end_close")
  <2>1. /\ pc[Main] = "end_standby" /\ pc'[Main] = "end_close"
        /\ LabelInv' /\ pc' \in [Threads -> SensorLabels]
        /\ CallbacksRest => CallbacksRest'
    BY <1>2, MainAt DEF StopStandby, MainLabels
  <2>2. mode' = "STDBY"
    BY <1>2, <2>1 DEF StopStandby, lora_set_satandby_mode, SetOpMode, PhaseInv, Shut
  <2>3. PhaseInv'
    BY <1>2, <2>1, <2>2 DEF StopStandby, PhaseInv
  <2> QED
    BY <1>2, <2>1, <2>2, <2>3 DEF StopStandby, Modes
<1>3. CASE EndClose(Main)
  <2>1. /\ pc[Main] = "end_close" /\ pc'[Main] = "end_unset"
        /\ LabelInv' /\ pc' \in [Threads -> SensorLabels]
        /\ CallbacksRest => CallbacksRest'
    BY <1>3, MainAt DEF EndClose, MainLabels
  <2>2. PhaseInv'
    BY <1>3, <2>1 DEF EndClose, PhaseInv
  <2> QED
    BY <1>3, <2>1, <2>2 DEF EndClose
<1>4. CASE EndUnset(Main, "begin")
  <2>1. /\ pc[Main] = "end_unset" /\ pc'[Main] = "begin"
        /\ LabelInv' /\ pc' \in [Threads -> SensorLabels]
        /\ CallbacksRest => CallbacksRest'
    BY <1>4, MainAt DEF EndUnset, MainLabels
  <2>2. spid' \notin open'
    BY <1>4, ModemAssumption DEF EndUnset
  <2>3. PhaseInv'
    BY <1>4, <2>1, <2>2 DEF EndUnset, PhaseInv
  <2> QED
    BY <1>4, <2>1, <2>2, <2>3 DEF EndUnset
<1> QED
  BY <1>1, <1>2, <1>3, <1>4 DEF LoRa_end

\* LoRa_begin resets the chip and opens it with nobody listening, or fails and leaves
\* it shut (lora.cpp:3-50).
LEMMA BeginSteps ==
  ASSUME SensorInv, LoRa_begin(Main, "send") \/ BeginFails, UNCHANGED sensorVars
  PROVE  SensorInv'
<1> USE DEF SensorInv, SensorTypeOK, ModemTypeOK, chipVars, pinVars, bufVars, sensorVars
<1> USE DEF Closed, NoHandler, Xfer
<1>1. CASE BeginReset(Main)
  <2>1. /\ pc[Main] = "begin" /\ pc'[Main] = "open"
        /\ LabelInv' /\ pc' \in [Threads -> SensorLabels]
        /\ CallbacksRest => CallbacksRest'
    BY <1>1, MainAt DEF BeginReset, MainLabels
  <2>2. /\ mode' = "STDBY" /\ dio' = "rx" /\ irq' = {} /\ gpio' = TRUE
        /\ UNCHANGED <<fifo, air, isr, isrPc, open, spid, bufVars>>
    BY <1>1 DEF BeginReset, lora_reset, DriveDio0
  <2>3. isr = "none" /\ ~edge
    BY <2>1 DEF PhaseInv
  <2>4. edge' = FALSE
    BY <1>1, <2>3 DEF BeginReset, lora_reset, DriveDio0
  <2>5. PhaseInv'
    BY <2>1, <2>2, <2>4 DEF PhaseInv
  <2> QED
    BY <2>1, <2>2, <2>4, <2>5 DEF Modes
<1>2. CASE BeginOpen(Main)
  <2>1. /\ pc[Main] = "open" /\ pc'[Main] = "config"
        /\ LabelInv' /\ pc' \in [Threads -> SensorLabels]
        /\ CallbacksRest => CallbacksRest'
    BY <1>2, MainAt DEF BeginOpen, MainLabels
  <2>2. PICK h \in Handles \ open : spid' = h /\ open' = open \cup {h}
    BY <1>2 DEF BeginOpen
  <2>3. PhaseInv'
    BY <1>2, <2>1, <2>2 DEF BeginOpen, PhaseInv, Preparing
  <2> QED
    BY <1>2, <2>1, <2>2, <2>3 DEF BeginOpen
<1>3. CASE BeginConfigure(Main, "send")
  <2>1. /\ pc[Main] = "config" /\ pc'[Main] = "send"
        /\ LabelInv' /\ pc' \in [Threads -> SensorLabels]
        /\ CallbacksRest => CallbacksRest'
    BY <1>3, MainAt DEF BeginConfigure, MainLabels
  <2>2. mode' = "SLEEP"
    BY <1>3, <2>1 DEF BeginConfigure, SetOpMode, PhaseInv, Preparing
  <2>3. PhaseInv'
    BY <1>3, <2>1, <2>2 DEF BeginConfigure, PhaseInv, Preparing
  <2> QED
    BY <1>3, <2>1, <2>2, <2>3 DEF BeginConfigure, Modes
<1>4. CASE BeginInitFails(Main, "send")
  <2>1. /\ pc[Main] = "begin" /\ pc'[Main] = "send"
        /\ LabelInv' /\ pc' \in [Threads -> SensorLabels]
        /\ CallbacksRest => CallbacksRest'
    BY <1>4, MainAt DEF BeginInitFails, MainLabels
  <2>2. PhaseInv'
    BY <1>4, <2>1 DEF BeginInitFails, PhaseInv, Shut
  <2> QED
    BY <1>4, <2>1, <2>2 DEF BeginInitFails
<1>5. CASE BeginOpenFails(Main, "send")
  <2>1. /\ pc[Main] = "open" /\ pc'[Main] = "send"
        /\ LabelInv' /\ pc' \in [Threads -> SensorLabels]
        /\ CallbacksRest => CallbacksRest'
    BY <1>5, MainAt DEF BeginOpenFails, MainLabels
  <2>2. spid' \notin open'
    BY <1>5, ModemAssumption DEF BeginOpenFails
  <2>3. PhaseInv'
    BY <1>5, <2>1, <2>2 DEF BeginOpenFails, PhaseInv, Shut
  <2> QED
    BY <1>5, <2>1, <2>2, <2>3 DEF BeginOpenFails
<1> QED
  BY <1>1, <1>2, <1>3, <1>4, <1>5 DEF LoRa_begin, BeginFails

\* LoRa_send maps the pin and registers the handler before the chip transmits; to a
\* modem that is shut it does nothing but register the handler (lora.cpp:125-147).
LEMMA SendSteps ==
  ASSUME SensorInv, LoRa_send(Main), UNCHANGED sensorVars
  PROVE  SensorInv'
<1> USE DEF SensorInv, SensorTypeOK, ModemTypeOK, chipVars, pinVars, bufVars, sensorVars
<1> USE DEF Closed, NoHandler, Xfer
<1>1. CASE SendStandby(Main)
  <2>1. /\ pc[Main] = "send" /\ pc'[Main] = "write_fifo"
        /\ LabelInv' /\ pc' \in [Threads -> SensorLabels]
        /\ CallbacksRest => CallbacksRest'
    BY <1>1, MainAt DEF SendStandby, MainLabels
  <2>2. mode' = "STDBY"
    BY <1>1, <2>1 DEF SendStandby, lora_set_satandby_mode, SetOpMode, PhaseInv, Preparing, Shut
  <2>3. PhaseInv'
    BY <1>1, <2>1, <2>2 DEF SendStandby, PhaseInv, Preparing, Shut
  <2> QED
    BY <1>1, <2>1, <2>2, <2>3 DEF SendStandby, Modes
<1>2. CASE SendWriteFifo(Main)
  <2>1. /\ pc[Main] = "write_fifo" /\ pc'[Main] = "send_dio"
        /\ LabelInv' /\ pc' \in [Threads -> SensorLabels]
        /\ CallbacksRest => CallbacksRest'
    BY <1>2, MainAt DEF SendWriteFifo, MainLabels
  <2>2. fifo' \in Frames
    BY <1>2 DEF SendWriteFifo, lora_write_fifo, Frames
  <2>3. PhaseInv'
    BY <1>2, <2>1 DEF SendWriteFifo, PhaseInv, Preparing, Shut
  <2> QED
    BY <1>2, <2>1, <2>2, <2>3 DEF SendWriteFifo
<1>3. CASE SendMapDio(Main)
  <2>1. /\ pc[Main] = "send_dio" /\ pc'[Main] = "send_isr"
        /\ LabelInv' /\ pc' \in [Threads -> SensorLabels]
        /\ CallbacksRest => CallbacksRest'
    BY <1>3, MainAt DEF SendMapDio, MainLabels
  <2>2. ~edge /\ ((Xfer /\ isr = "none") \/ Shut)
    BY <2>1 DEF PhaseInv, Preparing, Shut
  <2>3. dio' = (IF Xfer THEN "tx" ELSE dio) /\ irq' = irq /\ edge' = FALSE
    BY <1>3, <2>2 DEF SendMapDio, lora_set_dio_tx_mapping, SetDio, DriveDio0, Shut
  <2>4. PhaseInv'
    BY <1>3, <2>1, <2>3 DEF SendMapDio, PhaseInv, Preparing, Shut
  <2> QED
    BY <1>3, <2>1, <2>3, <2>4 DEF SendMapDio
<1>4. CASE SendSetIsr(Main)
  <2>1. /\ pc[Main] = "send_isr" /\ pc'[Main] = "send_mode"
        /\ LabelInv' /\ pc' \in [Threads -> SensorLabels]
        /\ CallbacksRest => CallbacksRest'
    BY <1>4, MainAt DEF SendSetIsr, MainLabels
  <2>2. isr' = IF gpio THEN "tx" ELSE isr
    BY <1>4 DEF SendSetIsr, lora_set_txdone_dioISR, SetDioIsr
  <2>3. PhaseInv'
    BY <1>4, <2>1, <2>2 DEF SendSetIsr, PhaseInv, Preparing, Shut
  <2> QED
    BY <1>4, <2>1, <2>2, <2>3 DEF SendSetIsr
<1>5. CASE SendTransmit(Main)
  <2>1. /\ pc[Main] = "send_mode" /\ pc'[Main] = "none"
        /\ LabelInv' /\ pc' \in [Threads -> SensorLabels]
        /\ CallbacksRest => CallbacksRest'
    BY <1>5, MainAt DEF SendTransmit, MainLabels
  <2>2. mode' = IF Xfer THEN "TX" ELSE mode
    BY <1>5 DEF SendTransmit, lora_set_tx_mode, SetOpMode
  <2>3. ASSUME Preparing("STDBY", "tx", "tx") PROVE PhaseInv'
    <3>1. Xfer' /\ Radiating' /\ gpio'
      BY <1>5, <2>1, <2>2, <2>3 DEF SendTransmit, Preparing, Radiating
    <3> QED
      BY <2>1, <3>1 DEF PhaseInv, Asleep
  <2>4. ASSUME Shut PROVE PhaseInv'
    <3>1. Shut'
      BY <1>5, <2>1, <2>2, <2>4 DEF SendTransmit, Shut
    <3> QED
      BY <2>1, <3>1 DEF PhaseInv
  <2>5. PhaseInv'
    BY <2>1, <2>3, <2>4 DEF SensorInv, PhaseInv
  <2> QED
    BY <1>5, <2>1, <2>2, <2>5 DEF SendTransmit, Modes
<1> QED
  BY <1>1, <1>2, <1>3, <1>4, <1>5 DEF LoRa_send

-----------------------------------------------------------------------------
(* The callbacks, the interrupt thread and the air.                         *)

\* Where the threads are after a step of a callback.
LEMMA CallbackAt ==
  ASSUME SensorInv, NEW t \in Callbacks, NEW to \in CallbackLabels, NEW from, At(t, from, to)
  PROVE  /\ pc[t] = from /\ pc'[t] = to
         /\ pc'[Main] = pc[Main]
         /\ \A u \in Callbacks \ {t} : pc'[u] = pc[u]
         /\ LabelInv'
         /\ pc' \in [Threads -> SensorLabels]
<1>1. /\ Main \in Threads /\ t \in Threads /\ t # Main
      /\ pc \in [Threads -> SensorLabels]
  BY SensorAssumption DEF SensorInv, SensorTypeOK, Callbacks
<1>2. to \in SensorLabels
  BY DEF CallbackLabels, SensorLabels, DriverLabels
<1>3. pc[t] = from /\ pc'[t] = to /\ pc' \in [Threads -> SensorLabels] /\ pc'[Main] = pc[Main]
  BY <1>1, <1>2 DEF At
<1>4. \A u \in Callbacks \ {t} : pc'[u] = pc[u]
  BY <1>1 DEF At, Callbacks
<1> QED
  BY <1>3, <1>4 DEF SensorInv, LabelInv, CallbackLabels

\* A step that keeps away from the modem keeps the phase.
LEMMA PhaseKept ==
  ASSUME PhaseInv, UNCHANGED <<chipVars, pinVars, open, spid>>, pc'[Main] = pc[Main],
         \A u \in Callbacks : pc'[u] = pc[u] \/ (pc[u] \notin ModemLabels /\ pc'[u] \notin ModemLabels)
  PROVE  PhaseInv'
<1> USE DEF chipVars, pinVars
<1>1. CallbacksRest => CallbacksRest'
  BY DEF CallbacksRest
<1>2. Closed => Closed'
  BY <1>1 DEF Closed, NoHandler
<1>3. \A m, d, f : Preparing(m, d, f) => Preparing(m, d, f)'
  BY <1>1 DEF Preparing, Xfer
<1>4. (Receiving => Receiving') /\ (Shut => Shut')
  BY <1>1 DEF Receiving, Shut, Xfer
<1>5. ASSUME NEW t \in Callbacks, Turning(t) PROVE Turning(t)'
  <2>1. pc[t] \in ModemLabels
    BY <1>5 DEF Turning, ModemLabels, DriverLabels
  <2>2. pc'[t] = pc[t] /\ \A u \in Callbacks \ {t} : pc'[u] \notin ModemLabels
    BY <1>5, <2>1 DEF Turning
  <2> QED
    BY <1>5, <2>2 DEF Turning
<1>6. Asleep => Asleep'
  BY <1>1, <1>4, <1>5 DEF Asleep, Xfer, Radiating, Radiated
<1> QED
  BY <1>1, <1>2, <1>3, <1>4, <1>6 DEF PhaseInv, Xfer, NoHandler

\* rx_f looks at the frame, and tx_f turns the modem round, which only the callback
\* of the last transmission does while main sleeps (lora_sensor.cpp:34-66).
LEMMA CallbackSteps ==
  ASSUME SensorInv, NEW t \in Callbacks, CallbackStep(t)
  PROVE  SensorInv'
<1> USE DEF SensorInv, SensorTypeOK, ModemTypeOK, chipVars, pinVars, bufVars, sensorVars
<1> USE DEF CallbackLabels
<1>1. CASE RxCrc(t)
  <2>1. pc[t] = "rx_f" /\ pc'[t] \in {"none", "show"} /\ pc'[Main] = pc[Main]
        /\ (\A u \in Callbacks \ {t} : pc'[u] = pc[u])
        /\ LabelInv' /\ pc' \in [Threads -> SensorLabels]
    BY <1>1, CallbackAt DEF RxCrc
  <2>2. PhaseInv'
    BY <1>1, <2>1, PhaseKept DEF RxCrc, ModemLabels, DriverLabels
  <2> QED
    BY <1>1, <2>1, <2>2 DEF RxCrc
<1>2. CASE RxShow(t)
  <2>1. pc[t] = "show" /\ pc'[t] = "none" /\ pc'[Main] = pc[Main]
        /\ (\A u \in Callbacks \ {t} : pc'[u] = pc[u])
        /\ LabelInv' /\ pc' \in [Threads -> SensorLabels]
    BY <1>2, CallbackAt DEF RxShow
  <2>2. PhaseInv'
    BY <1>2, <2>1, PhaseKept DEF RxShow, ModemLabels, DriverLabels
  <2>3. AsReply(rxBuf) \in Replies \cup {MacTextReply}
    BY DEF AsReply
  <2> QED
    BY <1>2, <2>1, <2>2, <2>3 DEF RxShow
<1>3. CASE LoRa_receive(t) /\ UNCHANGED sensorVars
  <2>1. pc[t] \in {"receive", "receive_dio", "receive_isr", "receive_mode"}
    BY <1>3 DEF LoRa_receive, ReceiveStandby, ReceiveMapDio, ReceiveSetIsr, ReceiveListen, At
  <2>2. pc[t] \in ModemLabels
    BY <2>1 DEF ModemLabels, DriverLabels
  <2>3. ~CallbacksRest
    BY <2>2 DEF CallbacksRest
  <2>4. pc[Main] = "none" /\ gpio /\ Asleep
    BY <2>3 DEF PhaseInv, LabelInv, MainLabels, Closed, Preparing, Receiving, Shut
  <2>5. PICK u \in Callbacks : Turning(u)
    BY <2>3, <2>4 DEF Asleep, Radiating, Radiated, Receiving
  <2>6. Turning(t) /\ Xfer
    BY <2>2, <2>4, <2>5 DEF Turning, Asleep
  <2>7. SUFFICES /\ LabelInv' /\ pc' \in [Threads -> SensorLabels]
                 /\ mode' \in Modes /\ dio' \in {"rx", "tx"} /\ irq' \subseteq Flags
                 /\ isr' \in {"rx", "tx"} /\ edge' \in BOOLEAN
                 /\ UNCHANGED <<fifo, air, gpio, isrPc, open, spid, bufVars>>
                 /\ pc'[Main] = "none" /\ Asleep'
    BY <1>3, <2>4 DEF PhaseInv
  <2>8. CASE ReceiveStandby(t)
    <3>1. pc[t] = "receive" /\ pc'[t] = "receive_dio" /\ pc'[Main] = pc[Main]
          /\ (\A v \in Callbacks \ {t} : pc'[v] = pc[v])
          /\ LabelInv' /\ pc' \in [Threads -> SensorLabels]
      BY <2>8, CallbackAt DEF ReceiveStandby
    <3>2. mode' = "STDBY" /\ UNCHANGED <<dio, irq, fifo, air, pinVars, open, spid, bufVars>>
      BY <2>6, <2>8 DEF ReceiveStandby, lora_set_satandby_mode, SetOpMode
    <3>3. Turning(t)' /\ Xfer'
      BY <2>6, <3>1, <3>2 DEF Turning, Xfer
    <3> QED
      BY <2>4, <2>6, <3>1, <3>2, <3>3 DEF Asleep, Turning, Modes
  <2>9. CASE ReceiveMapDio(t)
    <3>1. pc[t] = "receive_dio" /\ pc'[t] = "receive_isr" /\ pc'[Main] = pc[Main]
          /\ (\A v \in Callbacks \ {t} : pc'[v] = pc[v])
          /\ LabelInv' /\ pc' \in [Threads -> SensorLabels]
      BY <2>9, CallbackAt DEF ReceiveMapDio
    <3>2. dio' = "rx" /\ irq' = {} /\ edge' = FALSE
          /\ UNCHANGED <<mode, fifo, air, gpio, isr, isrPc, open, spid, bufVars>>
      BY <2>6, <2>9
         DEF ReceiveMapDio, lora_set_dio_rx_mapping, SetDio, DriveDio0, Pin, Turning
    <3>3. Turning(t)' /\ Xfer'
      BY <2>6, <3>1, <3>2 DEF Turning, Xfer
    <3> QED
      BY <2>4, <2>6, <3>1, <3>2, <3>3 DEF Asleep, Turning
  <2>10. CASE ReceiveSetIsr(t)
    <3>1. pc[t] = "receive_isr" /\ pc'[t] = "receive_mode" /\ pc'[Main] = pc[Main]
          /\ (\A v \in Callbacks \ {t} : pc'[v] = pc[v])
          /\ LabelInv' /\ pc' \in [Threads -> SensorLabels]
      BY <2>10, CallbackAt DEF ReceiveSetIsr
    <3>2. isr' = "rx" /\ UNCHANGED <<chipVars, gpio, isrPc, edge, open, spid, bufVars>>
      BY <2>4, <2>10 DEF ReceiveSetIsr, lora_set_rxdone_dioISR, SetDioIsr
    <3>3. Turning(t)' /\ Xfer'
      BY <2>6, <3>1, <3>2 DEF Turning, Xfer
    <3> QED
      BY <2>4, <2>6, <3>1, <3>2, <3>3 DEF Asleep, Turning
  <2>11. CASE ReceiveListen(t)
    <3>1. pc[t] = "receive_mode" /\ pc'[t] = "none" /\ pc'[Main] = pc[Main]
          /\ (\A v \in Callbacks \ {t} : pc'[v] = pc[v])
          /\ LabelInv' /\ pc' \in [Threads -> SensorLabels]
      BY <2>11, CallbackAt DEF ReceiveListen
    <3>2. mode' = "RXCONT" /\ UNCHANGED <<dio, irq, fifo, air, pinVars, open, spid, bufVars>>
      BY <2>6, <2>11 DEF ReceiveListen, lora_set_rxcont_mode, SetOpMode
    <3>3. CallbacksRest'
      BY <2>6, <3>1 DEF Turning, CallbacksRest, ModemLabels
    <3>4. Receiving' /\ Xfer'
      BY <2>6, <3>1, <3>2, <3>3 DEF Turning, Receiving, RxLabels, Xfer
    <3> QED
      BY <2>4, <2>6, <3>1, <3>2, <3>4 DEF Asleep, Turning, Modes
  <2> QED
    BY <1>3, <2>8, <2>9, <2>10, <2>11 DEF LoRa_receive
<1> QED
  BY <1>1, <1>2, <1>3 DEF CallbackStep

\* An interrupt is under way while the modem is open and main sleeps, or is about to
\* remove the handler, for which it has to wait.
LEMMA HandlerPhase ==
  ASSUME SensorInv, isrPc # "idle" \/ (edge /\ isr # "none")
  PROVE  /\ Xfer /\ gpio
         /\ \/ pc[Main] = "none" /\ (Radiated \/ Receiving)
            \/ pc[Main] = "end" /\ Receiving
<1>1. ~Shut /\ pc[Main] \in {"none", "end"}
  BY DEF SensorInv, LabelInv, MainLabels, PhaseInv, Closed, NoHandler, Preparing, Shut
<1> QED
  BY <1>1 DEF SensorInv, PhaseInv, Asleep, Radiating, Turning

\* What a handler leaves alone, and the phase it keeps.
LEMMA HandlerKeeps ==
  ASSUME SensorInv, UNCHANGED <<air, gpio, isr, open, spid>>, fifo' \in Frames,
         fifo' = fifo \/ fifo' \in Traffic,
         UNCHANGED sensorVars, txBuf' = txBuf,
         mode' \in Modes, dio' \in {"rx", "tx"}, irq' \subseteq Flags, edge' \in BOOLEAN,
         isrPc' \in IsrLabels, rxBuf' \in Traffic \cup {NoData}, rxCrc' \in BOOLEAN,
         LabelInv', pc' \in [Threads -> SensorLabels], pc'[Main] = pc[Main], Xfer, gpio,
         \/ pc[Main] = "none" /\ (Radiated' \/ (\E t \in Callbacks : Turning(t)') \/ Receiving')
         \/ pc[Main] = "end" /\ Receiving'
  PROVE  SensorInv'
<1>1. PhaseInv'
  BY DEF PhaseInv, Asleep, Xfer
<1> QED
  BY <1>1 DEF SensorInv, SensorTypeOK, ModemTypeOK, sensorVars

\* The handlers run to their end in the phase they were entered in, rxDoneISRf while
\* the chip listens and txDoneISRf after it has radiated (lora.cpp:340-425).
LEMMA InterruptSteps ==
  ASSUME SensorInv, Interrupt
  PROVE  SensorInv'
<1>0. /\ SensorTypeOK /\ LabelInv /\ ModemTypeOK(Traffic, Packets)
      /\ fifo \in Frames /\ mode \in Modes /\ dio \in {"rx", "tx"} /\ irq \subseteq Flags
      /\ edge \in BOOLEAN /\ isrPc \in IsrLabels /\ rxBuf \in Traffic \cup {NoData}
      /\ rxCrc \in BOOLEAN /\ pc \in [Threads -> SensorLabels] /\ UNCHANGED sensorVars
  BY DEF SensorInv, SensorTypeOK, ModemTypeOK, Interrupt
<1>a. ASSUME pc' = pc PROVE LabelInv' /\ (CallbacksRest => CallbacksRest')
  BY <1>0, <1>a DEF LabelInv, CallbacksRest
<1> USE DEF chipVars, bufVars, RxLabels
<1>1. CASE IsrEnter
  <2>1. /\ edge /\ isrPc = "idle" /\ isr # "none" /\ edge' = FALSE
        /\ UNCHANGED <<chipVars, gpio, isr, open, spid, bufVars, pc>>
    BY <1>1 DEF IsrEnter
  <2>2. /\ Xfer /\ gpio
        /\ \/ pc[Main] = "none" /\ (Radiated \/ Receiving)
           \/ pc[Main] = "end" /\ Receiving
    BY <2>1, HandlerPhase
  <2>3. isrPc' = IF isr = "rx" /\ "RxDone" \in irq THEN "rx_read"
                 ELSE IF isr = "tx" /\ "TxDone" \in irq THEN "tx_clear" ELSE "idle"
    BY <1>1, <2>2 DEF IsrEnter, IrqFlagSeen
  <2>4. Radiated => Radiated'
    BY <1>a, <2>1, <2>3 DEF Radiated
  <2>5. Receiving => Receiving'
    BY <1>a, <2>1, <2>3 DEF Receiving
  <2>6. isrPc' \in IsrLabels
    BY <2>3 DEF IsrLabels
  <2> QED
    BY <1>0, <1>a, <2>1, <2>2, <2>4, <2>5, <2>6, HandlerKeeps
<1>2. CASE RxDoneRead({fifo}) \/ RxDoneCrc \/ RxDoneClear
  <2>1. /\ isrPc \in RxLabels /\ UNCHANGED <<mode, fifo, air, gpio, isr, open, spid, txBuf, pc>>
    BY <1>2 DEF RxDoneRead, RxDoneCrc, RxDoneClear, IsrGoto
  <2>2. /\ Xfer /\ gpio
        /\ \/ pc[Main] = "none" /\ Receiving
           \/ pc[Main] = "end" /\ Receiving
    BY <2>1, HandlerPhase DEF Radiated
  <2>3. CASE RxDoneRead({fifo})
    <3>1. isrPc' = "rx_crc" /\ rxBuf' \in Traffic /\ UNCHANGED <<dio, irq, edge, rxCrc>>
      BY <2>1, <2>2, <2>3 DEF RxDoneRead, IsrGoto, Receiving
    <3>2. Receiving'
      BY <1>a, <2>1, <2>2, <3>1 DEF Receiving
    <3> QED
      BY <1>0, <1>a, <2>1, <2>2, <3>1, <3>2, HandlerKeeps DEF IsrLabels
  <2>4. CASE RxDoneCrc
    <3>1. isrPc' = "rx_clear" /\ UNCHANGED <<dio, irq, edge, rxBuf>> /\ rxCrc' \in BOOLEAN
      BY <2>4 DEF RxDoneCrc, IsrGoto
    <3>2. Receiving'
      BY <1>a, <2>1, <2>2, <3>1 DEF Receiving
    <3> QED
      BY <1>0, <1>a, <2>1, <2>2, <3>1, <3>2, HandlerKeeps DEF IsrLabels
  <2>5. CASE RxDoneClear
    <3>1. /\ isrPc' = "rx_spawn" /\ dio' = dio /\ irq' = {} /\ UNCHANGED <<rxBuf, rxCrc>>
          /\ edge' = FALSE
      BY <1>0, <2>1, <2>2, <2>5
         DEF RxDoneClear, IsrGoto, lora_reset_irq_flags, DriveDio0, Pin, Receiving
    <3>2. Receiving'
      BY <1>a, <2>1, <2>2, <3>1 DEF Receiving
    <3> QED
      BY <1>0, <1>a, <2>1, <2>2, <3>1, <3>2, HandlerKeeps DEF IsrLabels
  <2> QED
    BY <1>2, <2>3, <2>4, <2>5
<1>3. CASE TxDoneClear \/ TxDoneStandby
  <2>1. /\ isrPc \in {"tx_clear", "tx_standby"} /\ isrPc \notin RxLabels
        /\ UNCHANGED <<fifo, air, gpio, isr, open, spid, bufVars, pc>>
    BY <1>3 DEF TxDoneClear, TxDoneStandby, IsrGoto
  <2>2. Xfer /\ gpio /\ pc[Main] = "none" /\ Radiated
    BY <2>1, HandlerPhase DEF Receiving
  <2>3. CASE TxDoneClear
    <3>1. /\ isrPc = "tx_clear" /\ isrPc' = "tx_standby" /\ dio' = dio /\ irq' = {}
          /\ edge' = FALSE /\ mode' = mode
      BY <1>0, <2>2, <2>3
         DEF TxDoneClear, IsrGoto, lora_reset_irq_flags, DriveDio0, Pin, Radiated
    <3>2. Radiated'
      BY <1>a, <2>1, <2>2, <3>1 DEF Radiated
    <3> QED
      BY <1>0, <1>a, <2>1, <2>2, <3>1, <3>2, HandlerKeeps DEF IsrLabels
  <2>4. CASE TxDoneStandby
    <3>1. /\ isrPc = "tx_standby" /\ isrPc' = "tx_spawn" /\ mode' = "STDBY"
          /\ UNCHANGED <<dio, irq, edge>>
      BY <2>2, <2>4 DEF TxDoneStandby, IsrGoto, lora_set_satandby_mode, SetOpMode
    <3>2. Radiated'
      BY <1>a, <2>1, <2>2, <3>1 DEF Radiated
    <3> QED
      BY <1>0, <1>a, <2>1, <2>2, <3>1, <3>2, HandlerKeeps DEF IsrLabels, Modes
  <2> QED
    BY <1>3, <2>3, <2>4
<1>4. ASSUME NEW t \in Callbacks, RxDoneSpawn(t, "rx_f") PROVE SensorInv'
  <2>1. /\ isrPc = "rx_spawn" /\ isrPc' = "idle" /\ At(t, "none", "rx_f")
        /\ UNCHANGED <<chipVars, gpio, isr, edge, open, spid, bufVars>>
    BY <1>4 DEF RxDoneSpawn, IsrGoto
  <2>2. /\ pc'[t] = "rx_f" /\ pc'[Main] = pc[Main]
        /\ \A u \in Callbacks \ {t} : pc'[u] = pc[u]
        /\ LabelInv' /\ pc' \in [Threads -> SensorLabels]
    BY <2>1, CallbackAt DEF CallbackLabels
  <2>3. CallbacksRest => CallbacksRest'
    BY <2>2 DEF CallbacksRest, ModemLabels, DriverLabels
  <2>4. /\ Xfer /\ gpio
        /\ \/ pc[Main] = "none" /\ Receiving
           \/ pc[Main] = "end" /\ Receiving
    BY <2>1, HandlerPhase DEF Radiated
  <2>5. Receiving'
    BY <2>1, <2>3, <2>4 DEF Receiving
  <2> QED
    BY <1>0, <2>1, <2>2, <2>4, <2>5, HandlerKeeps DEF IsrLabels
<1>5. ASSUME NEW t \in Callbacks, TxDoneSpawn(t, "receive") PROVE SensorInv'
  <2>1. /\ isrPc = "tx_spawn" /\ isrPc' = "idle" /\ At(t, "none", "receive")
        /\ UNCHANGED <<chipVars, gpio, isr, edge, open, spid, bufVars>>
    BY <1>5 DEF TxDoneSpawn, IsrGoto
  <2>2. /\ pc'[t] = "receive" /\ pc'[Main] = pc[Main]
        /\ \A u \in Callbacks \ {t} : pc'[u] = pc[u]
        /\ LabelInv' /\ pc' \in [Threads -> SensorLabels]
    BY <2>1, CallbackAt DEF CallbackLabels
  <2>3. Xfer /\ gpio /\ pc[Main] = "none" /\ Radiated
    BY <2>1, HandlerPhase DEF Receiving
  <2>4. Turning(t)'
    BY <2>1, <2>2, <2>3 DEF Radiated, Turning, CallbacksRest
  <2> QED
    BY <1>0, <2>1, <2>2, <2>3, <2>4, HandlerKeeps DEF IsrLabels
<1> QED
  BY <1>1, <1>2, <1>3, <1>4, <1>5 DEF Interrupt

\* A transmission ends while main sleeps, and a frame comes while the chip listens.
LEMMA AirSteps ==
  ASSUME SensorInv,
         Transmitted \/ (\E frame \in Traffic, damaged \in BOOLEAN : Hear(frame, damaged))
  PROVE  SensorInv'
<1>0. /\ SensorTypeOK /\ LabelInv
      /\ fifo \in Frames /\ air \in Frames /\ irq \subseteq Flags /\ edge \in BOOLEAN
      /\ dio \in {"rx", "tx"}
  BY DEF SensorInv, SensorTypeOK, ModemTypeOK
<1> USE DEF bufVars, RxLabels
<1>1. CASE Transmitted
  <2>1. /\ mode = "TX" /\ mode' = "STDBY" /\ air' = fifo
        /\ irq' = irq \cup {"TxDone"} /\ dio' = dio
        /\ edge' = (edge \/ (isr # "none" /\ ~Pin(dio, irq) /\ Pin(dio, irq')))
        /\ UNCHANGED <<fifo, gpio, isr, isrPc, open, spid, bufVars, pc>> /\ UNCHANGED sensorVars
    BY <1>1 DEF Transmitted, ChipTxDone, DriveDio0
  <2>2. pc[Main] = "none" /\ gpio /\ Xfer /\ Radiating
    BY <2>1 DEF SensorInv, LabelInv, MainLabels, PhaseInv, Closed, Preparing, Receiving,
                Asleep, Radiated, Turning, Shut
  <2>3. edge' = TRUE
    BY <2>1, <2>2 DEF Radiating, Pin
  <2>4. Radiated'
    BY <2>1, <2>2, <2>3 DEF Radiated, Radiating, CallbacksRest
  <2>5. PhaseInv'
    BY <2>1, <2>2, <2>4 DEF PhaseInv, Asleep, Xfer
  <2> QED
    BY <1>0, <2>1, <2>3, <2>5
       DEF SensorInv, SensorTypeOK, ModemTypeOK, LabelInv, sensorVars, Modes, Flags
<1>2. ASSUME NEW frame \in Traffic, NEW damaged \in BOOLEAN, Hear(frame, damaged)
      PROVE  SensorInv'
  <2>1. /\ mode = "RXCONT" /\ fifo' = frame /\ dio' = dio
        /\ irq' = irq \cup {"RxDone"} \cup (IF damaged THEN {"PayloadCrcError"} ELSE {})
        /\ edge' = (edge \/ (isr # "none" /\ ~Pin(dio, irq) /\ Pin(dio, irq')))
        /\ UNCHANGED <<mode, air, gpio, isr, isrPc, open, spid, bufVars, pc>>
        /\ UNCHANGED sensorVars
    BY <1>2 DEF Hear, ChipReceive, DriveDio0
  <2>2. frame \in Frames /\ irq' \subseteq Flags /\ edge' \in BOOLEAN
    BY <1>0, <2>1, SensorAssumption DEF Flags
  <2>3. CallbacksRest => CallbacksRest'
    BY <2>1 DEF CallbacksRest
  <2>4. Receiving => Receiving'
    <3>1. SUFFICES ASSUME Receiving PROVE Receiving'
      OBVIOUS
    <3>2. CASE edge \/ isrPc \in RxLabels
      <4>1. "RxDone" \in irq /\ edge' = edge
        BY <1>0, <2>1, <3>1, <3>2 DEF Receiving, Pin
      <4> QED
        BY <2>1, <2>3, <3>1, <3>2, <4>1 DEF Receiving
    <3>3. CASE ~(edge \/ isrPc \in RxLabels)
      <4>1. edge' = TRUE
        BY <2>1, <3>1, <3>3 DEF Receiving, Pin
      <4> QED
        BY <2>1, <2>3, <3>1, <3>3, <4>1 DEF Receiving
    <3> QED
      BY <3>2, <3>3
  <2>5. \/ pc[Main] = "none" /\ Receiving /\ Xfer /\ gpio
        \/ pc[Main] = "end" /\ Receiving /\ Xfer /\ gpio
        \/ pc[Main] = "end_standby" /\ Xfer /\ NoHandler /\ CallbacksRest
    BY <2>1 DEF SensorInv, LabelInv, MainLabels, PhaseInv, Closed, Preparing,
                Asleep, Radiated, Radiating, Turning, Shut
  <2>6. pc[Main] = "end_standby" => NoHandler'
    BY <2>1, <2>5 DEF NoHandler
  <2>7. PhaseInv'
    BY <2>1, <2>3, <2>4, <2>5, <2>6 DEF PhaseInv, Asleep, Xfer
  <2> QED
    BY <1>0, <2>1, <2>2, <2>7 DEF SensorInv, SensorTypeOK, ModemTypeOK, LabelInv, sensorVars
<1> QED
  BY <1>1, <1>2

-----------------------------------------------------------------------------
(* Readings and frames, in the steps of main.                               *)

Pending == PendingFrom(CloseAndOpen)

\* A step of the service, and none that loses a reading which could have been sent.
Serves == [SS!Next]_(SS!sensor) /\ (SS!Lose => SS!Radiate \/ BeginFails)

\* What main leaves to the interrupt thread and to the callbacks.
LeavesFrames ==
    /\ UNCHANGED <<rxBuf, rxCrc, shown, overlap, isrPc, air>>
    /\ \/ UNCHANGED <<isr, edge, irq, fifo>>
       \/ isrPc = "idle" /\ ~edge' /\ Pending' = Pending

\* A reading is filled in when the previous one has been radiated or could not be
\* (lora_sensor.cpp:93-116).
LEMMA OwnReading ==
  ASSUME SensorInv, ReadingInv, GetMac \/ FirstReading \/ NextReading
  PROVE  /\ ReadingInv' /\ LeavesFrames
         /\ \/ Pending' = Pending /\ data' = data
            \/ Pending = NoData /\ Pending' \in Packets /\ Follows(data, Pending')
               /\ data' = Pending' /\ UNCHANGED <<isr, edge, irq, fifo>>
<1> USE DEF chipVars, pinVars, bufVars, sensorVars, ReadingInv, Pending, PendingFrom,
            ModemLabels, DriverLabels, LeavesFrames, CloseAndOpen, SendingLabels
<1>1. CASE GetMac
  <2>1. pc[Main] = "mac" /\ pc'[Main] = "set"
    BY <1>1, MainAt DEF GetMac, MainLabels
  <2>2. UNCHANGED <<chipVars, pinVars, bufVars, sensorVars>>
    BY <1>1 DEF GetMac
  <2> QED
    BY <2>1, <2>2
<1>2. CASE FirstReading
  <2>1. PICK r \in Reading(0) : Fill(r)
    BY <1>2 DEF FirstReading
  <2>2. pc[Main] = "set" /\ pc'[Main] = "begin"
    BY <1>2, MainAt DEF FirstReading, MainLabels
  <2>3. mode = "STDBY"
    BY <2>2 DEF SensorInv, PhaseInv, Closed
  <2>4. r \in Packets
    <3>1. 0 \in Counts
      BY LoraSensorAssumption
    <3> QED
      BY <3>1, LoraSensorAssumption DEF Reading, Packets
  <2> QED
    BY <2>1, <2>2, <2>3, <2>4, <1>2 DEF Fill, FirstReading, Follows
<1>3. CASE NextReading
  <2>1. PICK r \in Reading((data.count + 1) % Wrap) : Fill(r)
    BY <1>3 DEF NextReading
  <2>2. pc[Main] = "none" /\ pc'[Main] = "end"
    BY <1>3, MainAt DEF NextReading, MainLabels
  <2>3. mode # "TX" /\ data \in Packets
    BY <1>3, <2>2 DEF NextReading, Rested
  <2>4. r \in Packets
    <3>1. data.count \in Nat
      BY <2>3, MessagesAssumption DEF Packets
    <3>2. (data.count + 1) % Wrap \in 0 .. Wrap - 1
      BY <3>1, LoraSensorAssumption
    <3> QED
      BY <3>2, LoraSensorAssumption DEF Reading, Packets
  <2>5. data # NoData
    BY <2>3, NoDataAssumption
  <2>6. Follows(data, r)
    BY <2>1, <2>3, <2>5 DEF Follows
  <2> QED
    BY <2>1, <2>2, <2>3, <2>4, <2>6 DEF Fill
<1> QED
  BY <1>1, <1>2, <1>3

\* Between two of its steps the reading goes from main to the buffer, and from
\* there to the chip; closing and opening touch neither, and only a failure to open
\* gives the reading up (lora.cpp:3-50, 125-147).
LEMMA DriverReading ==
  ASSUME SensorInv, ReadingInv, MainDriver
  PROVE  /\ ReadingInv' /\ LeavesFrames /\ data' = data
         /\ \/ Pending' = Pending
            \/ BeginFails /\ Pending # NoData /\ Pending' = NoData
               /\ UNCHANGED <<isr, edge, irq, fifo>>
<1> USE DEF chipVars, pinVars, bufVars, sensorVars, ReadingInv, Pending, PendingFrom,
            ModemLabels, DriverLabels, LeavesFrames, CloseAndOpen, SendingLabels, Xfer
<1>0. UNCHANGED sensorVars /\ PhaseInv
  BY DEF MainDriver, SensorInv
<1>1. CASE LoRa_end(Main, "begin")
  <2>1. CASE StopRemoveIsr(Main, "end", "end_standby")
    <3>1. pc[Main] = "end" /\ pc'[Main] = "end_standby"
      BY <2>1, MainAt DEF StopRemoveIsr, MainLabels
    <3>2. isrPc = "idle" /\ edge' = FALSE /\ UNCHANGED <<chipVars, isrPc, bufVars>>
      BY <2>1 DEF StopRemoveIsr, lora_remove_dioISR
    <3> QED
      BY <1>0, <3>1, <3>2
  <2>2. CASE StopStandby(Main, "end_standby", "end_close")
    <3>1. pc[Main] = "end_standby" /\ pc'[Main] = "end_close"
      BY <2>2, MainAt DEF StopStandby, MainLabels
    <3>2. UNCHANGED <<dio, irq, fifo, air, pinVars, bufVars>>
      BY <2>2 DEF StopStandby
    <3> QED
      BY <1>0, <3>1, <3>2
  <2>3. CASE EndClose(Main)
    <3>1. pc[Main] = "end_close" /\ pc'[Main] = "end_unset"
      BY <2>3, MainAt DEF EndClose, MainLabels
    <3>2. UNCHANGED <<chipVars, pinVars, bufVars>>
      BY <2>3 DEF EndClose
    <3> QED
      BY <1>0, <3>1, <3>2
  <2>4. CASE EndUnset(Main, "begin")
    <3>1. pc[Main] = "end_unset" /\ pc'[Main] = "begin"
      BY <2>4, MainAt DEF EndUnset, MainLabels
    <3>2. UNCHANGED <<chipVars, pinVars, bufVars>>
      BY <2>4 DEF EndUnset
    <3> QED
      BY <1>0, <3>1, <3>2
  <2> QED
    BY <1>1, <2>1, <2>2, <2>3, <2>4 DEF LoRa_end
<1>2. CASE LoRa_begin(Main, "send")
  <2>1. CASE BeginReset(Main)
    <3>1. pc[Main] = "begin" /\ pc'[Main] = "open"
      BY <2>1, MainAt DEF BeginReset, MainLabels
    <3>2. isr = "none" /\ isrPc = "idle" /\ ~edge
      BY <1>0, <3>1 DEF PhaseInv, Closed, NoHandler
    <3>3. ~edge' /\ UNCHANGED <<fifo, air, isrPc, bufVars>>
      BY <2>1, <3>2 DEF BeginReset, lora_reset, DriveDio0
    <3> QED
      BY <1>0, <3>1, <3>2, <3>3
  <2>2. CASE BeginOpen(Main)
    <3>1. pc[Main] = "open" /\ pc'[Main] = "config"
      BY <2>2, MainAt DEF BeginOpen, MainLabels
    <3>2. UNCHANGED <<chipVars, pinVars, bufVars>> /\ Xfer'
      BY <2>2 DEF BeginOpen
    <3> QED
      BY <1>0, <3>1, <3>2
  <2>3. CASE BeginConfigure(Main, "send")
    <3>1. pc[Main] = "config" /\ pc'[Main] = "send"
      BY <2>3, MainAt DEF BeginConfigure, MainLabels
    <3>2. UNCHANGED <<dio, irq, fifo, air, pinVars, bufVars, open, spid>> /\ mode' # "TX"
      BY <1>0, <2>3, <3>1 DEF BeginConfigure, SetOpMode, PhaseInv, Preparing
    <3>3. mode # "TX"
      BY <1>0, <3>1 DEF PhaseInv, Preparing
    <3> QED
      BY <1>0, <3>1, <3>2, <3>3
  <2> QED
    BY <1>2, <2>1, <2>2, <2>3 DEF LoRa_begin
<1>4. CASE BeginFails
  <2>1. /\ pc[Main] \in {"begin", "open"} /\ pc'[Main] = "send"
        /\ UNCHANGED <<chipVars, pinVars, bufVars>>
    BY <1>4, MainAt DEF BeginFails, BeginInitFails, BeginOpenFails, MainLabels
  <2>2. ~Xfer' /\ mode # "TX"
    <3>1. CASE BeginInitFails(Main, "send")
      <4>1. pc[Main] = "begin"
        BY <3>1, MainAt DEF BeginInitFails, MainLabels
      <4> QED
        BY <1>0, <3>1, <4>1 DEF BeginInitFails, PhaseInv, Closed
    <3>2. CASE BeginOpenFails(Main, "send")
      <4>1. NoHandle \notin open
        BY ModemAssumption DEF SensorInv, SensorTypeOK, ModemTypeOK
      <4> QED
        BY <1>0, <2>1, <3>2, <4>1 DEF BeginOpenFails, PhaseInv, Closed
    <3> QED
      BY <1>4, <3>1, <3>2 DEF BeginFails
  <2>3. Pending = data /\ Pending' = NoData /\ data \in Packets
    BY <1>0, <2>1, <2>2
  <2> QED
    BY <1>0, <1>4, <2>1, <2>2, <2>3, NoDataAssumption
<1>3. CASE LoRa_send(Main)
  <2>1. CASE SendStandby(Main)
    <3>1. pc[Main] = "send" /\ pc'[Main] = "write_fifo"
      BY <2>1, MainAt DEF SendStandby, MainLabels
    <3>2. UNCHANGED <<dio, irq, fifo, air, pinVars, bufVars, open, spid>>
      BY <2>1 DEF SendStandby
    <3>3. mode # "TX" /\ mode' # "TX"
      BY <1>0, <2>1, <3>1
         DEF SendStandby, lora_set_satandby_mode, SetOpMode, PhaseInv, Preparing, Shut
    <3> QED
      BY <1>0, <3>1, <3>2, <3>3
  <2>2. CASE SendWriteFifo(Main)
    <3>1. pc[Main] = "write_fifo" /\ pc'[Main] = "send_dio"
      BY <2>2, MainAt DEF SendWriteFifo, MainLabels
    <3>2. mode = "STDBY" /\ isrPc = "idle" /\ ~edge
      BY <1>0, <3>1 DEF PhaseInv, Preparing, Shut
    <3>3. /\ fifo' = (IF Xfer THEN txBuf ELSE fifo)
          /\ UNCHANGED <<mode, dio, irq, air, pinVars, bufVars, open, spid>>
      BY <2>2, <3>2 DEF SendWriteFifo, lora_write_fifo
    <3> QED
      BY <1>0, <3>1, <3>2, <3>3
  <2>3. CASE SendMapDio(Main)
    <3>1. pc[Main] = "send_dio" /\ pc'[Main] = "send_isr"
      BY <2>3, MainAt DEF SendMapDio, MainLabels
    <3>2. isrPc = "idle" /\ ~edge /\ (isr = "none" \/ ~Xfer)
      BY <1>0, <3>1 DEF PhaseInv, Preparing, Shut
    <3>3. ~edge' /\ UNCHANGED <<mode, fifo, air, isrPc, bufVars, open, spid>>
      BY <2>3, <3>2 DEF SendMapDio, lora_set_dio_tx_mapping, SetDio, DriveDio0
    <3> QED
      BY <1>0, <3>1, <3>2, <3>3
  <2>4. CASE SendSetIsr(Main)
    <3>1. pc[Main] = "send_isr" /\ pc'[Main] = "send_mode"
      BY <2>4, MainAt DEF SendSetIsr, MainLabels
    <3>2. isrPc = "idle" /\ ~edge
      BY <1>0, <3>1 DEF PhaseInv, Preparing, Shut
    <3>3. UNCHANGED <<chipVars, isrPc, edge, bufVars, open, spid>>
      BY <2>4 DEF SendSetIsr
    <3> QED
      BY <1>0, <3>1, <3>2, <3>3
  <2>5. CASE SendTransmit(Main)
    <3>1. pc[Main] = "send_mode" /\ pc'[Main] = "none"
      BY <2>5, MainAt DEF SendTransmit, MainLabels
    <3>2. mode = "STDBY"
      BY <1>0, <3>1 DEF PhaseInv, Preparing, Shut
    <3>3. /\ mode' = (IF Xfer THEN "TX" ELSE "STDBY")
          /\ UNCHANGED <<dio, irq, fifo, air, pinVars, bufVars, open, spid>>
      BY <2>5, <3>2 DEF SendTransmit, lora_set_tx_mode, SetOpMode
    <3> QED
      BY <1>0, <3>1, <3>2, <3>3
  <2> QED
    BY <1>3, <2>1, <2>2, <2>3, <2>4, <2>5 DEF LoRa_send
<1> QED
  BY <1>1, <1>2, <1>3, <1>4 DEF MainDriver

-----------------------------------------------------------------------------
(* Readings and frames, as SensorService sees them.                         *)

\* A frame is in the modem's buffer until its callback has shown it.
LEMMA BufferAt ==
  ASSUME SensorInv, SensorInv'
  PROVE  /\ InBuffer <=> isrPc \in {"rx_crc", "rx_clear", "rx_spawn"} \/ Showing # {}
         /\ InBuffer' <=> isrPc' \in {"rx_crc", "rx_clear", "rx_spawn"} \/ Showing' # {}
<1>1. /\ pc[Main] \notin {"rx_f", "show"} /\ pc'[Main] \notin {"rx_f", "show"}
      /\ Threads = Callbacks \cup {Main}
  BY SensorAssumption DEF SensorInv, LabelInv, MainLabels, Callbacks
<1> QED
  BY <1>1 DEF InBuffer, Showing

\* Closing and reopening the modem disturbs no callback.
LEMMA MainAlone ==
  ASSUME SensorInv, MainStep
  PROVE  Showing' = Showing /\ \A t \in Showing : pc'[t] = pc[t]
<1>1. pc \in [Threads -> SensorLabels] /\ Main \notin Callbacks /\ Callbacks \subseteq Threads
  BY DEF SensorInv, SensorTypeOK, Callbacks
<1>2. \E to : pc' = [pc EXCEPT ![Main] = to]
  BY DEF MainStep, GetMac, FirstReading, NextReading, MainDriver, LoRa_end, LoRa_begin, LoRa_send,
         StopRemoveIsr, StopStandby, EndClose, EndUnset, BeginReset, BeginOpen, BeginConfigure,
         SendStandby, SendWriteFifo, SendMapDio, SendSetIsr, SendTransmit, At,
         BeginFails, BeginInitFails, BeginOpenFails
<1>3. \A t \in Callbacks : pc'[t] = pc[t]
  BY <1>1, <1>2
<1> QED
  BY <1>3 DEF Showing

\* What does not take the pending reading away does not lose it.
LEMMA PendingKept ==
  ASSUME [SS!Next]_(SS!sensor), Pending' = Pending
  PROVE  Serves
BY DEF Serves, SS!Lose, Pending

\* A step of main takes a reading, loses one because the modem cannot be opened, drops
\* a frame that nobody has looked at when it removes the handler, or does nothing the
\* service sees (lora_sensor.cpp:86-116, lora.cpp:3-13, 234-243).
LEMMA MainSteps ==
  ASSUME SensorInv, FrameOrder, MainStep
  PROVE  SensorInv' /\ FrameOrder' /\ Serves
<1>1. SensorInv'
  BY OwnSteps, EndSteps, BeginSteps, SendSteps DEF MainStep, MainDriver, FrameOrder
<1>2. /\ ReadingInv' /\ LeavesFrames
      /\ \/ Pending' = Pending /\ data' = data
         \/ Pending = NoData /\ Pending' \in Packets /\ Follows(data, Pending')
            /\ data' = Pending' /\ UNCHANGED <<isr, edge, irq, fifo>>
         \/ BeginFails /\ Pending # NoData /\ Pending' = NoData /\ data' = data
            /\ UNCHANGED <<isr, edge, irq, fifo>>
  BY OwnReading, DriverReading DEF MainStep, FrameOrder
<1>3. /\ Showing' = Showing /\ (\A t \in Showing : pc'[t] = pc[t])
      /\ UNCHANGED <<rxBuf, rxCrc, shown, overlap, isrPc, air>>
  BY <1>2, MainAlone DEF LeavesFrames
<1>4. InBuffer' <=> InBuffer
  BY <1>1, <1>3, BufferAt
<1>5. Shown' = Shown
  BY <1>3 DEF Shown
<1>6. CASE UNCHANGED <<isr, edge, irq, fifo>>
  <2>1. FrameInv'
    BY <1>3, <1>6 DEF FrameOrder, FrameInv
  <2>2. Heard' = Heard
    BY <1>3, <1>4, <1>6 DEF Heard, Damaged, InChip
  <2>3. CASE Pending' = Pending /\ data' = data
    <3>1. UNCHANGED SS!sensor
      BY <1>3, <1>5, <2>2, <2>3 DEF SS!sensor, Pending
    <3> QED
      BY <1>1, <1>2, <2>1, <2>3, <3>1, PendingKept DEF FrameOrder
  <2>4. CASE Pending = NoData /\ Pending' \in Packets /\ Follows(data, Pending') /\ data' = Pending'
    <3>1. SS!Take
      BY <1>3, <1>5, <2>2, <2>4 DEF SS!Take, SS!Packets, Packets, Pending
    <3> QED
      BY <1>1, <1>2, <2>1, <2>4, <3>1 DEF FrameOrder, Serves, SS!Next, SS!Lose, Pending
  <2>5. CASE BeginFails /\ Pending # NoData /\ Pending' = NoData /\ data' = data
    <3>1. SS!Lose
      BY <1>3, <1>5, <2>2, <2>5 DEF SS!Lose, Pending
    <3> QED
      BY <1>1, <1>2, <2>1, <2>5, <3>1 DEF FrameOrder, Serves, SS!Next
  <2> QED
    BY <1>2, <2>3, <2>4, <2>5
<1>7. CASE isrPc = "idle" /\ ~edge' /\ Pending' = Pending
  <2>0. data' = data
    BY <1>2, <1>7, NoDataAssumption
  <2>1. FrameInv'
    BY <1>3, <1>7 DEF FrameOrder, FrameInv, RxLabels
  <2>2. ~InChip'
    BY <1>3, <1>7 DEF InChip
  <2>3. CASE overlap \/ ~InChip
    <3>1. Heard' = Heard
      BY <1>3, <1>4, <1>7, <2>2, <2>3 DEF Heard, Damaged
    <3> QED
      BY <1>1, <1>2, <1>3, <1>5, <1>7, <2>1, <3>1, <2>0, PendingKept
         DEF FrameOrder, SS!sensor, Pending
  <2>4. CASE ~overlap /\ InChip
    <3>1. ~InBuffer
      BY <1>1, <1>7, <2>4, BufferAt DEF InChip, FrameOrder, FrameInv
    <3>2. Heard' = NoData
      BY <1>4, <2>2, <3>1 DEF Heard
    <3>3. [SS!Next]_(SS!sensor)
      BY <1>3, <1>5, <1>7, <2>0, <3>2 DEF SS!sensor, SS!Next, SS!Forget, Pending
    <3> QED
      BY <1>1, <1>2, <1>7, <2>1, <3>3, PendingKept DEF FrameOrder
  <2> QED
    BY <2>3, <2>4
<1> QED
  BY <1>2, <1>6, <1>7 DEF LeavesFrames

\* What is left to show when a step moves neither a reading nor a frame.
LEMMA Unseen ==
  ASSUME ReadingInv, UNCHANGED <<data, txBuf, fifo, air, shown, overlap, open, spid>>,
         pc'[Main] = pc[Main], mode' = "TX" <=> mode = "TX", Heard' = Heard
  PROVE  ReadingInv' /\ UNCHANGED SS!sensor /\ Serves
<1>1. ReadingInv' /\ UNCHANGED SS!sensor
  BY DEF ReadingInv, SS!sensor, PendingFrom, Shown, Xfer
<1> QED
  BY <1>1, PendingKept DEF SS!sensor, Pending

\* rx_f shows a whole frame and passes over a damaged one, and tx_f does neither
\* (lora_sensor.cpp:34-66).
LEMMA CallbackFrames ==
  ASSUME SensorInv, FrameOrder, NEW t \in Callbacks, CallbackStep(t)
  PROVE  FrameOrder' /\ Serves
<1>0. SensorInv' /\ pc \in [Threads -> SensorLabels] /\ t \in Threads /\ t # Main
      /\ rxBuf \in Traffic \cup {NoData}
  BY CallbackSteps DEF SensorInv, SensorTypeOK, ModemTypeOK, Callbacks
<1>1. CASE RxCrc(t)
  <2>1. /\ UNCHANGED <<chipVars, pinVars, open, spid, bufVars, sensorVars>>
        /\ pc[t] = "rx_f" /\ pc'[t] = (IF rxCrc THEN "none" ELSE "show")
        /\ pc'[Main] = pc[Main] /\ \A u \in Callbacks \ {t} : pc'[u] = pc[u]
    BY <1>0, <1>1, SensorAssumption DEF RxCrc, At, Callbacks
  <2>2. t \in Showing /\ Showing' = IF rxCrc THEN Showing \ {t} ELSE Showing
    BY <2>1 DEF Showing
  <2>3. CASE overlap
    <3>1. Heard' = Heard /\ FrameInv'
      BY <2>1, <2>3 DEF Heard, FrameInv, sensorVars
    <3> QED
      BY <2>1, <3>1, Unseen DEF FrameOrder, chipVars, bufVars, sensorVars
  <2>4. CASE ~overlap
    <3>1. /\ ~InChip /\ isrPc \notin {"rx_crc", "rx_clear", "rx_spawn"}
          /\ \A u \in Showing : u = t
      BY <2>2, <2>4 DEF FrameOrder, FrameInv, InChip, RxLabels
    <3>2. ~InChip' /\ rxCrc' = rxCrc /\ rxBuf' = rxBuf /\ isrPc' = isrPc /\ overlap' = overlap
      BY <2>1, <3>1 DEF InChip, pinVars, bufVars, sensorVars
    <3>3. InBuffer /\ (InBuffer' <=> ~rxCrc)
      BY <1>0, <2>2, <3>1, <3>2, BufferAt
    <3>4. Heard' = Heard
      BY <3>1, <3>2, <3>3 DEF Heard, Damaged
    <3>5. FrameInv'
      BY <2>1, <2>2, <3>1, <3>2 DEF FrameOrder, FrameInv, pinVars, RxLabels
    <3> QED
      BY <2>1, <3>4, <3>5, Unseen DEF FrameOrder, chipVars, bufVars, sensorVars
  <2> QED
    BY <2>3, <2>4
<1>2. CASE RxShow(t)
  <2>1. /\ UNCHANGED <<chipVars, pinVars, open, spid, bufVars, data, overlap>>
        /\ shown' = AsReply(rxBuf) /\ pc[t] = "show" /\ pc'[t] = "none"
        /\ pc'[Main] = pc[Main] /\ \A u \in Callbacks \ {t} : pc'[u] = pc[u]
    BY <1>0, <1>2, SensorAssumption DEF RxShow, At, Callbacks
  <2>2. t \in Showing /\ Showing' = Showing \ {t}
    BY <2>1 DEF Showing
  <2>3. ReadingInv' /\ air' = air /\ data' = data /\ Pending' = Pending
    BY <2>1 DEF FrameOrder, ReadingInv, Pending, PendingFrom, Xfer, chipVars, bufVars
  <2>4. CASE overlap
    <3>1. Heard' = Heard /\ FrameInv' /\ Shown' = Shown
      BY <2>1, <2>4 DEF Heard, FrameInv, Shown
    <3> QED
      BY <2>3, <3>1, PendingKept DEF FrameOrder, SS!sensor, Pending
  <2>5. CASE ~overlap
    <3>1. /\ ~InChip /\ isrPc \notin {"rx_crc", "rx_clear", "rx_spawn"}
          /\ (\A u \in Showing : u = t) /\ ~rxCrc /\ rxBuf \in Traffic
          /\ isrPc # "idle" => ~edge
      BY <2>1, <2>2, <2>5 DEF FrameOrder, FrameInv, InChip, RxLabels
    <3>2. ~InChip' /\ rxCrc' = rxCrc /\ rxBuf' = rxBuf /\ isrPc' = isrPc /\ overlap' = overlap
      BY <2>1, <3>1 DEF InChip, pinVars, bufVars
    <3>3. Showing' = {}
      BY <2>2, <3>1
    <3>4. InBuffer /\ ~InBuffer'
      BY <1>0, <2>2, <3>1, <3>2, <3>3, BufferAt
    <3>5. Heard = rxBuf /\ Heard' = NoData
      BY <2>5, <3>1, <3>2, <3>4 DEF Heard, Damaged
    <3>6. Heard # NoData /\ Shown' = AsReply(Heard)
      BY <2>1, <2>5, <3>1, <3>5, SensorAssumption DEF Shown
    <3>7. FrameInv'
      BY <2>1, <3>1, <3>2, <3>3 DEF FrameInv, RxLabels, pinVars
    <3>8. FrameInv' /\ SS!Show
      BY <2>3, <3>5, <3>6, <3>7
         DEF SS!Show, SS!AsReply, AsReply, SS!Replies, Replies, SS!MacTextReply, MacTextReply,
             SS!MacText, MacText, Pending
    <3> QED
      BY <2>3, <3>8, PendingKept DEF FrameOrder, SS!Next
  <2> QED
    BY <2>4, <2>5
<1>3. CASE LoRa_receive(t) /\ UNCHANGED sensorVars
  <2>1. /\ pc[t] \in {"receive", "receive_dio", "receive_isr", "receive_mode"}
        /\ pc'[t] \notin {"rx_f", "show"} /\ pc'[Main] = pc[Main]
        /\ \A u \in Callbacks \ {t} : pc'[u] = pc[u]
    BY <1>0, <1>3, SensorAssumption
       DEF LoRa_receive, ReceiveStandby, ReceiveMapDio, ReceiveSetIsr, ReceiveListen, At, Callbacks
  <2>2. Showing' = Showing
    BY <2>1 DEF Showing
  <2>3. pc[t] \in ModemLabels
    BY <2>1 DEF ModemLabels, DriverLabels
  <2>4. pc[Main] = "none" /\ Asleep
    BY <2>3 DEF SensorInv, PhaseInv, LabelInv, MainLabels, Closed, Preparing, Receiving, Shut,
                CallbacksRest
  <2>5. mode = "STDBY" /\ irq = {} /\ isrPc = "idle" /\ ~edge
    BY <2>3, <2>4 DEF Asleep, Turning, Radiating, Radiated, Receiving, CallbacksRest
  <2>6. /\ UNCHANGED <<fifo, air, isrPc, bufVars, irq, open, spid>>
        /\ mode' \in {"STDBY", "RXCONT"} /\ ~edge'
    <3>1. CASE ReceiveMapDio(t)
      BY <2>5, <3>1 DEF ReceiveMapDio, lora_set_dio_rx_mapping, SetDio, DriveDio0, Pin
    <3>2. CASE ReceiveSetIsr(t)
      BY <2>5, <3>2 DEF ReceiveSetIsr, chipVars
    <3>3. CASE ReceiveStandby(t)
      BY <2>5, <3>3 DEF ReceiveStandby, lora_set_satandby_mode, SetOpMode, pinVars
    <3>4. CASE ReceiveListen(t)
      BY <2>5, <3>4 DEF ReceiveListen, lora_set_rxcont_mode, SetOpMode, pinVars
    <3> QED
      BY <1>3, <3>1, <3>2, <3>3, <3>4 DEF LoRa_receive
  <2>7. ~InChip /\ ~InChip'
    BY <2>5, <2>6 DEF InChip
  <2>8. InBuffer' <=> InBuffer
    BY <1>0, <2>2, <2>6, BufferAt
  <2>9. Heard' = Heard
    BY <1>3, <2>5, <2>6, <2>7, <2>8 DEF Heard, Damaged, bufVars, sensorVars
  <2>10. FrameInv'
    BY <1>3, <2>1, <2>2, <2>5, <2>6
       DEF FrameOrder, FrameInv, RxLabels, Showing, bufVars, sensorVars
  <2> QED
    BY <1>3, <2>1, <2>5, <2>6, <2>9, <2>10, Unseen DEF FrameOrder, bufVars, sensorVars
<1> QED
  BY <1>1, <1>2, <1>3 DEF CallbackStep

\* The handlers carry the frame from the chip to the buffer with its CRC flag, and to
\* a callback of its own (lora.cpp:340-425).
LEMMA InterruptFrames ==
  ASSUME SensorInv, FrameOrder, Interrupt
  PROVE  FrameOrder' /\ Serves
<1>0. /\ SensorInv' /\ pc \in [Threads -> SensorLabels] /\ UNCHANGED sensorVars
      /\ irq \subseteq Flags /\ edge \in BOOLEAN /\ dio \in {"rx", "tx"} /\ rxCrc \in BOOLEAN
  BY InterruptSteps DEF SensorInv, SensorTypeOK, ModemTypeOK, Interrupt
<1>1. /\ Xfer
      /\ \/ pc[Main] = "none" /\ (Radiated \/ Receiving)
         \/ pc[Main] = "end" /\ Receiving
  BY HandlerPhase
     DEF Interrupt, IsrEnter, RxDoneRead, RxDoneCrc, RxDoneClear, TxDoneClear, TxDoneStandby,
         RxDoneSpawn, TxDoneSpawn, IsrGoto
<1>x. UNCHANGED <<open, spid>>
  BY DEF Interrupt, IsrEnter, RxDoneRead, RxDoneCrc, RxDoneClear, TxDoneClear, TxDoneStandby,
         RxDoneSpawn, TxDoneSpawn
<1>2. SUFFICES /\ UNCHANGED <<txBuf, fifo, air>> /\ pc'[Main] = pc[Main]
               /\ (mode' = "TX" <=> mode = "TX") /\ FrameInv' /\ Heard' = Heard
  BY <1>0, <1>x, Unseen DEF sensorVars, FrameOrder
<1>3. mode # "TX"
  BY <1>1 DEF Radiated, Receiving
<1> USE DEF chipVars, bufVars, sensorVars
<1>4. CASE \/ IsrEnter \/ RxDoneRead({fifo}) \/ RxDoneCrc \/ RxDoneClear
           \/ TxDoneClear \/ TxDoneStandby
  <2>0. pc' = pc
    BY <1>4 DEF IsrEnter, RxDoneRead, RxDoneCrc, RxDoneClear, TxDoneClear, TxDoneStandby
  <2>1. Showing' = Showing
    BY <2>0 DEF Showing
  <2>2. CASE IsrEnter
    <3>1. /\ edge /\ isrPc = "idle" /\ isr # "none" /\ edge' = FALSE
          /\ UNCHANGED <<chipVars, isr, bufVars>>
      BY <2>2 DEF IsrEnter
    <3>2. \/ isr = "rx" /\ isrPc' = "rx_read"
          \/ isr = "tx" /\ isrPc' = "tx_clear"
      BY <1>1, <2>2, <3>1 DEF IsrEnter, IrqFlagSeen, Radiated, Receiving
    <3>3. InChip' <=> InChip
      BY <3>1, <3>2 DEF InChip
    <3>4. InBuffer' <=> InBuffer
      BY <1>0, <2>1, <3>1, <3>2, BufferAt
    <3>5. Heard' = Heard
      BY <1>0, <3>1, <3>2, <3>3, <3>4 DEF Heard, Damaged
    <3>6. FrameInv'
      BY <1>0, <2>0, <2>1, <3>1, <3>2 DEF FrameOrder, FrameInv, RxLabels
    <3> QED
      BY <2>0, <3>1, <3>5, <3>6
  <2>3. CASE RxDoneRead({fifo}) \/ RxDoneCrc \/ RxDoneClear
    <3>1. isrPc \in RxLabels /\ UNCHANGED <<mode, fifo, air, isr, txBuf>>
      BY <2>3 DEF RxDoneRead, RxDoneCrc, RxDoneClear, IsrGoto, RxLabels
    <3>2. Receiving /\ ~edge /\ fifo \in Traffic
      BY <1>1, <3>1 DEF Radiated, Receiving, RxLabels
    <3>3. CASE RxDoneRead({fifo})
      <4>1. /\ isrPc = "rx_read" /\ isrPc' = "rx_crc" /\ rxBuf' = fifo
            /\ UNCHANGED <<irq, edge, rxCrc>>
        BY <3>3 DEF RxDoneRead, IsrGoto
      <4>2. InChip /\ ~InChip' /\ InBuffer'
        BY <1>0, <3>2, <4>1, BufferAt DEF InChip
      <4>3. Heard' = Heard
        BY <1>0, <3>1, <4>1, <4>2 DEF Heard, Damaged
      <4>4. FrameInv'
        BY <1>0, <2>1, <3>1, <3>2, <4>1 DEF FrameOrder, FrameInv, RxLabels
      <4> QED
        BY <2>0, <3>1, <4>3, <4>4
    <3>4. CASE RxDoneCrc
      <4>1. /\ isrPc = "rx_crc" /\ isrPc' = "rx_clear" /\ rxCrc' = ("PayloadCrcError" \in irq)
            /\ UNCHANGED <<irq, edge, rxBuf>>
        BY <1>1, <3>4 DEF RxDoneCrc, IsrGoto
      <4>2. ~InChip /\ ~InChip' /\ InBuffer /\ InBuffer'
        BY <1>0, <3>2, <4>1, BufferAt DEF InChip
      <4>3. Heard' = Heard
        BY <1>0, <3>1, <4>1, <4>2 DEF Heard, Damaged
      <4>4. FrameInv'
        BY <1>0, <2>1, <3>1, <3>2, <4>1 DEF FrameOrder, FrameInv, RxLabels
      <4> QED
        BY <2>0, <3>1, <4>3, <4>4
    <3>5. CASE RxDoneClear
      <4>1. /\ isrPc = "rx_clear" /\ isrPc' = "rx_spawn" /\ edge' = FALSE
            /\ UNCHANGED <<rxBuf, rxCrc>>
        BY <1>0, <1>1, <3>2, <3>5
           DEF RxDoneClear, IsrGoto, lora_reset_irq_flags, DriveDio0, Pin
      <4>2. ~InChip /\ ~InChip' /\ InBuffer /\ InBuffer'
        BY <1>0, <3>2, <4>1, BufferAt DEF InChip
      <4>3. Heard' = Heard
        BY <1>0, <3>1, <4>1, <4>2 DEF Heard, Damaged
      <4>4. FrameInv'
        BY <1>0, <2>1, <3>1, <3>2, <4>1 DEF FrameOrder, FrameInv, RxLabels
      <4> QED
        BY <2>0, <3>1, <4>3, <4>4
    <3> QED
      BY <2>3, <3>3, <3>4, <3>5
  <2>4. CASE TxDoneClear \/ TxDoneStandby
    <3>1. /\ isrPc \in {"tx_clear", "tx_standby"} /\ isrPc' \in {"tx_standby", "tx_spawn"}
          /\ UNCHANGED <<fifo, air, isr, bufVars>>
      BY <2>4 DEF TxDoneClear, TxDoneStandby, IsrGoto
    <3>2. isr = "tx" /\ mode = "STDBY" /\ ~edge
      BY <1>1, <3>1 DEF Radiated, Receiving, RxLabels
    <3>3. mode' = "STDBY" /\ ~edge'
      BY <1>0, <3>2, <2>4
         DEF TxDoneClear, TxDoneStandby, lora_reset_irq_flags, DriveDio0, Pin,
             lora_set_satandby_mode, SetOpMode
    <3>4. ~InChip /\ ~InChip'
      BY <3>1, <3>2, <3>3 DEF InChip
    <3>5. InBuffer' <=> InBuffer
      BY <1>0, <2>1, <3>1, BufferAt
    <3>6. Heard' = Heard
      BY <1>0, <3>1, <3>4, <3>5 DEF Heard, Damaged
    <3>7. FrameInv'
      BY <1>0, <2>0, <2>1, <3>1, <3>2, <3>3 DEF FrameOrder, FrameInv, RxLabels
    <3> QED
      BY <2>0, <3>1, <3>2, <3>3, <3>6, <3>7
  <2> QED
    BY <1>4, <2>2, <2>3, <2>4
<1>5. ASSUME NEW t \in Callbacks, RxDoneSpawn(t, "rx_f")
      PROVE  /\ UNCHANGED <<txBuf, fifo, air>> /\ pc'[Main] = pc[Main]
             /\ (mode' = "TX" <=> mode = "TX") /\ FrameInv' /\ Heard' = Heard
  <2>1. /\ isrPc = "rx_spawn" /\ isrPc' = "idle"
        /\ UNCHANGED <<chipVars, isr, edge, bufVars>>
        /\ pc[t] = "none" /\ pc'[t] = "rx_f"
        /\ pc'[Main] = pc[Main] /\ \A u \in Callbacks \ {t} : pc'[u] = pc[u]
    BY <1>0, <1>5, SensorAssumption DEF RxDoneSpawn, IsrGoto, At, Callbacks
  <2>2. t \notin Showing /\ Showing' = Showing \cup {t}
    BY <1>5, <2>1 DEF Showing
  <2>3. InBuffer /\ InBuffer' /\ (InChip' <=> InChip)
    BY <1>0, <2>1, <2>2, BufferAt DEF InChip
  <2>4. Heard' = Heard
    BY <1>0, <2>1, <2>3 DEF Heard, Damaged
  <2>5. FrameInv'
    <3>1. SUFFICES ASSUME ~overlap PROVE FrameInv'
      BY <1>0 DEF FrameInv
    <3>2. Showing = {} /\ ~edge /\ rxBuf \in Traffic
      BY <2>1, <3>1 DEF FrameOrder, FrameInv
    <3>3. Showing' = {t}
      BY <2>2, <3>2
    <3> QED
      BY <2>1, <3>2, <3>3 DEF FrameInv, RxLabels
  <2> QED
    BY <2>1, <2>4, <2>5
<1>6. ASSUME NEW t \in Callbacks, TxDoneSpawn(t, "receive")
      PROVE  /\ UNCHANGED <<txBuf, fifo, air>> /\ pc'[Main] = pc[Main]
             /\ (mode' = "TX" <=> mode = "TX") /\ FrameInv' /\ Heard' = Heard
  <2>1. /\ isrPc = "tx_spawn" /\ isrPc' = "idle"
        /\ UNCHANGED <<chipVars, isr, edge, bufVars>>
        /\ pc[t] = "none" /\ pc'[t] = "receive"
        /\ pc'[Main] = pc[Main] /\ \A u \in Callbacks \ {t} : pc'[u] = pc[u]
    BY <1>0, <1>6, SensorAssumption DEF TxDoneSpawn, IsrGoto, At, Callbacks
  <2>2. Showing' = Showing
    BY <2>1 DEF Showing
  <2>3. (InBuffer' <=> InBuffer) /\ (InChip' <=> InChip)
    BY <1>0, <2>1, <2>2, BufferAt DEF InChip
  <2>4. Heard' = Heard
    BY <1>0, <2>1, <2>3 DEF Heard, Damaged
  <2>5. FrameInv'
    BY <1>0, <2>1, <2>2 DEF FrameOrder, FrameInv, RxLabels, Showing
  <2> QED
    BY <2>1, <2>4, <2>5
<1> QED
  BY <1>4, <1>5, <1>6 DEF Interrupt

\* A transmission radiates the reading; a frame that comes waits in the chip, and a
\* damaged one is nobody's (lora.cpp:125-165).
LEMMA AirFrames ==
  ASSUME SensorInv, FrameOrder,
         Transmitted \/ (\E frame \in Traffic, damaged \in BOOLEAN : Hear(frame, damaged))
  PROVE  FrameOrder' /\ Serves
<1>0. SensorInv' /\ irq \subseteq Flags /\ edge \in BOOLEAN /\ dio \in {"rx", "tx"}
  BY AirSteps DEF SensorInv, SensorTypeOK, ModemTypeOK
<1> USE DEF bufVars, sensorVars
<1>1. CASE Transmitted
  <2>1. /\ mode = "TX" /\ mode' = "STDBY" /\ air' = fifo
        /\ UNCHANGED <<fifo, isr, isrPc, bufVars, pc, sensorVars>>
    BY <1>1 DEF Transmitted, ChipTxDone
  <2>2. pc[Main] = "none" /\ Radiating
    BY <2>1 DEF SensorInv, LabelInv, MainLabels, PhaseInv, Closed, Preparing, Receiving,
                Asleep, Radiated, Turning, Shut
  <2>3. data \in Packets /\ fifo = data /\ isr = "tx" /\ isrPc = "idle"
    BY <2>1, <2>2 DEF FrameOrder, ReadingInv, Radiating
  <2>4. Showing' = Showing
    BY <2>1 DEF Showing
  <2>5. InBuffer' <=> InBuffer
    BY <1>0, <2>1, <2>4, BufferAt
  <2>6. ~InChip /\ ~InChip'
    BY <2>1, <2>3 DEF InChip
  <2>7. Heard' = Heard
    BY <2>1, <2>3, <2>5, <2>6 DEF Heard, Damaged
  <2>8. Pending = data /\ Pending' = NoData /\ data # NoData
    BY <2>1, <2>2, <2>3, NoDataAssumption DEF Pending, PendingFrom, CloseAndOpen, SendingLabels
  <2>9. SS!Radiate
    BY <2>1, <2>3, <2>7, <2>8 DEF SS!Radiate, Pending, Shown
  <2>10. ReadingInv'
    BY <2>1, <2>2, <2>3 DEF ReadingInv, ModemLabels, DriverLabels
  <2>11. FrameInv'
    BY <2>1, <2>3, <2>4 DEF FrameOrder, FrameInv, RxLabels
  <2> QED
    BY <2>9, <2>10, <2>11 DEF FrameOrder, SS!Next, Serves
<1>2. ASSUME NEW frame \in Traffic, NEW damaged \in BOOLEAN, Hear(frame, damaged)
      PROVE  FrameOrder' /\ Serves
  <2>1. /\ mode = "RXCONT" /\ fifo' = frame /\ dio' = dio
        /\ irq' = irq \cup {"RxDone"} \cup (IF damaged THEN {"PayloadCrcError"} ELSE {})
        /\ edge' = (edge \/ (isr # "none" /\ ~Pin(dio, irq) /\ Pin(dio, irq')))
        /\ UNCHANGED <<mode, air, isr, isrPc, open, spid, bufVars, pc, sensorVars>>
    BY <1>2 DEF Hear, ChipReceive, DriveDio0
  <2>2. \/ pc[Main] \in {"none", "end"} /\ Receiving
        \/ pc[Main] = "end_standby" /\ NoHandler
    BY <2>1 DEF SensorInv, LabelInv, MainLabels, PhaseInv, Closed, Preparing,
                Asleep, Radiated, Radiating, Turning, Shut
  <2>3. Showing' = Showing
    BY <2>1 DEF Showing
  <2>4. InBuffer' <=> InBuffer
    BY <1>0, <2>1, <2>3, BufferAt
  <2>5. ReadingInv'
    BY <2>1, <2>2 DEF FrameOrder, ReadingInv, ModemLabels, DriverLabels
  <2>6. Pending' = Pending /\ air' = air /\ data' = data /\ Shown' = Shown
    BY <2>1 DEF Pending, PendingFrom, Xfer, Shown
  <2>7. CASE overlap
    <3>1. FrameInv' /\ Heard' = Heard
      BY <2>1, <2>7 DEF FrameInv, Heard
    <3> QED
      BY <2>5, <2>6, <3>1, PendingKept DEF FrameOrder, SS!sensor, Pending
  <2>8. CASE ~overlap
    <3>1. ~edge /\ isrPc = "idle" /\ Showing = {}
      BY <1>2, <2>8 DEF Hear, Quiet, Showing, Callbacks
    <3>2. ~InChip /\ ~InBuffer
      BY <1>0, <3>1, BufferAt DEF InChip
    <3>3. Heard = NoData
      BY <3>2 DEF Heard
    <3>4. FrameInv'
      BY <2>1, <2>3, <3>1 DEF FrameInv, RxLabels
    <3>5. Heard' = NoData \/ Heard' = fifo'
      BY <2>4, <3>2 DEF Heard
    <3>6. frame \in Packets \cup Replies
      BY SensorAssumption DEF Frames
    <3>7. Heard' = Heard \/ SS!Hear
      BY <2>1, <2>6, <3>3, <3>5, <3>6
         DEF SS!Hear, SS!Packets, Packets, SS!Replies, Replies, Pending
    <3> QED
      BY <2>5, <2>6, <3>4, <3>7, PendingKept DEF FrameOrder, SS!Next, SS!sensor, Pending
  <2> QED
    BY <2>7, <2>8
<1> QED
  BY <1>1, <1>2

-----------------------------------------------------------------------------
(* The theorems.                                                            *)

\* The whole invariant, and what each step is to the service.
LEMMA SensorStep ==
  ASSUME SensorInv, FrameOrder, [Next]_vars
  PROVE  SensorInv' /\ FrameOrder' /\ Serves
<1>1. CASE MainStep
  BY <1>1, MainSteps
<1>2. CASE \E t \in Callbacks : CallbackStep(t)
  BY <1>2, CallbackSteps, CallbackFrames
<1>3. CASE Interrupt
  BY <1>3, InterruptSteps, InterruptFrames
<1>4. CASE Transmitted \/ (\E frame \in Traffic, damaged \in BOOLEAN : Hear(frame, damaged))
  BY <1>4, AirSteps, AirFrames
<1>5. CASE UNCHANGED vars
  <2>1. UNCHANGED <<chipVars, pinVars, open, spid, bufVars, pc, sensorVars>>
    BY <1>5 DEF vars, modemVars
  <2> USE DEF chipVars, pinVars, bufVars, sensorVars
  <2>2. SensorTypeOK' /\ LabelInv'
    BY <2>1 DEF SensorInv, SensorTypeOK, ModemTypeOK, LabelInv
  <2>3. PhaseInv'
    BY <2>1, PhaseKept DEF SensorInv
  <2>4. Showing' = Showing /\ Pending' = Pending /\ Shown' = Shown
    BY <2>1 DEF Showing, Pending, PendingFrom, Xfer, Shown
  <2>5. (InBuffer' <=> InBuffer) /\ (InChip' <=> InChip) /\ (Damaged' <=> Damaged)
    BY <2>1 DEF InBuffer, InChip, Damaged
  <2>6. Heard' = Heard
    BY <2>1, <2>5 DEF Heard
  <2>7. FrameInv'
    BY <2>1, <2>4 DEF FrameOrder, FrameInv
  <2>8. ReadingInv'
    BY <2>1 DEF FrameOrder, ReadingInv, Xfer
  <2> QED
    BY <2>1, <2>2, <2>3, <2>4, <2>6, <2>7, <2>8, PendingKept
       DEF SensorInv, FrameOrder, SS!sensor, Pending
<1> QED
  BY <1>1, <1>2, <1>3, <1>4, <1>5 DEF Next, Around

\* The invariant holds of every sensor.
LEMMA SensorAlways == Spec => [](SensorInv /\ FrameOrder)
<1>1. Init => SensorInv /\ FrameOrder
  BY InitSensor
<1>2. SensorInv /\ FrameOrder /\ [Next]_vars => (SensorInv /\ FrameOrder)'
  BY SensorStep
<1> QED
  BY <1>1, <1>2, PTL DEF Spec

\* The chip, pigpio, the buffers and the threads of lora_sensor.cpp are always in one
\* of the states the driver knows.
THEOREM SensorTypes == Spec => []SensorTypeOK
<1>1. SensorInv => SensorTypeOK
  BY DEF SensorInv
<1> QED
  BY <1>1, SensorAlways, PTL

\* No handler works through a closed handle, whenever main closes and reopens the
\* modem: LoRa_end removes the handler first (lora.cpp:234-243, 427-440).
THEOREM HandlerNeverClosed == Spec => []HandlerSafe
<1>1. SensorInv => HandlerSafe
  BY HandlerPhase DEF HandlerSafe
<1> QED
  BY <1>1, SensorAlways, PTL

\* A sensor in which nothing runs and whose modem was opened waits for a frame or for
\* the end of its transmission with mode, mapping and handler set to notice it
\* (lora.cpp:125-165).
THEOREM NeverDeaf == Spec => []Reachable
<1>1. SensorInv => Reachable
  <2>1. SUFFICES ASSUME SensorInv, Idle, Xfer PROVE Listening \/ Transmitting
    BY DEF Reachable
  <2>2. pc[Main] = "none" /\ ~edge /\ isrPc = "idle" /\ CallbacksRest
    BY <2>1, SensorAssumption DEF Idle, CallbacksRest, Callbacks, ModemLabels, DriverLabels
  <2>3. Asleep
    BY <2>1, <2>2 DEF SensorInv, PhaseInv, Shut
  <2>4. ~Radiated /\ ~(\E t \in Callbacks : Turning(t))
    BY <2>1, <2>2 DEF Radiated, Turning, Idle, Callbacks
  <2>5. CASE Radiating
    BY <2>5 DEF Radiating, Transmitting
  <2>6. CASE Receiving
    BY <2>2, <2>6 DEF Receiving, Listening, RxLabels
  <2> QED
    BY <2>3, <2>4, <2>5, <2>6 DEF Asleep
<1> QED
  BY <1>1, SensorAlways, PTL

\* The sensor implements the safety part of SensorService: it radiates each reading once
\* and in order, or never if LoRa_begin fails for that reading and for no other reason,
\* shows only undamaged replies, each once and in order, and loses a reply only by
\* turning to its next reading (lora_sensor.cpp:34-66, 86-118, lora.cpp:3-13).
THEOREM ImplementsSensorService == Spec => ReadingsSafety
<1>1. Init => SS!Init
  <2>1. SUFFICES ASSUME Init PROVE SS!Init
    OBVIOUS
  <2>2. pc[Main] = "mac" /\ (\A t \in Threads : pc[t] \in {"mac", "none"})
        /\ mode = "STDBY" /\ isrPc = "idle" /\ ~edge
        /\ air = NoData /\ data = NoData /\ shown = NoData
    BY <2>1, SensorAssumption DEF Init, SensorInit, ModemInit
  <2>3. PendingFrom(CloseAndOpen) = NoData
    BY <2>2 DEF PendingFrom, CloseAndOpen, SendingLabels
  <2>4. Heard = NoData /\ Shown = NoData
    BY <2>2 DEF Heard, InChip, InBuffer, Shown
  <2> QED
    BY <2>2, <2>3, <2>4 DEF SS!Init
<1>2. SensorInv /\ FrameOrder /\ [Next]_vars =>
        [SS!Next]_(SS!sensor) /\ [SS!Lose => SS!Radiate \/ BeginFails]_vars
  BY SensorStep DEF Serves
<1> QED
  BY <1>1, <1>2, SensorAlways, PTL DEF Spec, ReadingsSafety
=============================================================================
