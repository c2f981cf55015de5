----------------------- MODULE GatewayRefinement_proof -----------------------
(***************************************************************************)
(* HybridGateway implements the safety part of GatewayService, for every    *)
(* set of sensors, threads and handles and every limit and capacity, while  *)
(* frames do not overlap and nothing but the connection to the NB-IoT       *)
(* server fails.                                                            *)
(***************************************************************************)
EXTENDS GatewayRefinement, GatewayData_proof

\* What the mapping rests on: the invariants of the components below it.
AllInv == TypeInv /\ TokenInv /\ DataInv /\ ServiceInv

\* Where a callback that holds a frame or its answer is.
Holding == RxLabels \cup InBuf

\* The steps of LoRa_send that do not end it stay on the answer's way to the air;
\* the one that does switches the transmitter on (lora.cpp:125-147, 234-243).
LEMMA DriverWay ==
  ASSUME NEW t \in Threads, NEW to \in DriverLabels, pc' = [pc EXCEPT ![t] = to],
         pc \in [Threads -> Labels], t # Main, pc[t] \in InBuf, Driver(t)
  PROVE  /\ pc[t] # "send_mode" => to \in InBuf
         /\ pc[t] = "send_mode" =>
              to = "none" /\ fifo' = fifo /\ mode' = IF Xfer THEN "TX" ELSE mode
<1>0. pc'[t] = to
  OBVIOUS
<1> USE DEF At, InBuf, chipVars, pinVars, bufVars
<1>1. CASE LoRa_end(t, "begin")
  BY <1>0, <1>1 DEF LoRa_end, StopRemoveIsr, StopStandby, EndClose, EndUnset
<1>2. CASE LoRa_begin(t, AfterBegin(t)) \/ BeginFails(t)
  <2>0. AfterBegin(t) = "send"
    BY DEF AfterBegin
  <2> QED
    BY <1>0, <1>2, <2>0 DEF LoRa_begin, BeginReset, BeginOpen, BeginConfigure, BeginFails,
       BeginInitFails, BeginOpenFails
<1>3. CASE LoRa_send(t)
  BY <1>0, <1>3 DEF LoRa_send, SendStandby, SendWriteFifo, SendMapDio, SendSetIsr, SendTransmit,
     lora_set_tx_mode, SetOpMode
<1>4. CASE LoRa_receive(t)
  BY <1>0, <1>4 DEF LoRa_receive, ReceiveStandby, ReceiveMapDio, ReceiveSetIsr, ReceiveListen
<1> QED
  BY <1>1, <1>2, <1>3, <1>4 DEF Driver

-----------------------------------------------------------------------------
(* ServiceInv is inductive.                                                 *)

\* Without a fault nothing kills the process (hybrid_gateway.cpp:48-64, 165).
LEMMA NeverDies ==
  ASSUME AllInv, Faults \subseteq {"connect"}
  PROVE  /\ ~NbPeerGone /\ ~RxDoneReadFails /\ ~Launch
         /\ \A t \in Threads : ~RxThrows(t)
<1>1. ~NbPeerGone /\ ~Launch
  BY DEF NbPeerGone, Launch, AllInv, ServiceInv
<1>2. ~RxDoneReadFails
  BY NoneActive DEF AllInv, RxDoneReadFails, Resting, RxRaised
<1>3. \A t \in Threads : ~RxThrows(t)
  BY NeverThrows DEF AllInv
<1> QED
  BY <1>1, <1>2, <1>3

\* A thread step on its way from the receive callback to the transmitter.
LEMMA ThreadService ==
  ASSUME AllInv, Faults \subseteq {"connect"}, NEW t \in Threads, ThreadStep(t)
  PROVE  ServiceInv'
<1>0. /\ TypeOK /\ pc \in [Threads -> Labels] /\ up
      /\ \A u \in Callbacks : pc[u] \in Holding => rxBuf \in Packets
      /\ mode = "TX" => rxBuf \in Packets
  BY DEF AllInv, TypeInv, TypeOK, ServiceInv, Holding
<1>1. ASSUME NEW to, pc' = [pc EXCEPT ![t] = to], UNCHANGED <<rxBuf, up>>,
             to \in Holding => pc[t] \in Holding,
             mode' = "TX" => mode = "TX" \/ pc[t] \in Holding \ {"begin", "open", "config"}
      PROVE  ServiceInv'
  <2>1. pc[t] \in Holding \ {"begin", "open", "config"} => t # Main
    BY DEF AllInv, TokenInv, MainLabels, Holding, RxLabels, InBuf
  <2>2. mode' = "TX" => rxBuf \in Packets
    BY <1>0, <1>1, <2>1 DEF Callbacks
  <2>3. ASSUME NEW u \in Callbacks, pc'[u] \in Holding
        PROVE  rxBuf \in Packets
    <3>1. u \in Threads /\ pc[u] \in Holding
      BY <1>0, <1>1, <2>3 DEF Callbacks
    <3> QED
      BY <1>0, <3>1
  <2> QED
    BY <1>0, <1>1, <2>2, <2>3 DEF ServiceInv, Holding
<1>2. ASSUME NEW from \in RxLabels, NEW to, RxGoto(t, from, to)
      PROVE  ServiceInv'
  BY <1>0, <1>1, <1>2 DEF RxGoto, At, Holding, chipVars, bufVars
<1>3. CASE Driver(t)
  <2>1. PICK to \in DriverLabels : DriverMove(t, to)
    BY <1>3, DriverMoves
  <2>2. SendMove(t, to)
    BY <1>0, <1>3, <2>1, DriverSendMoves DEF DriverMove
  <2>3. to \in Holding => pc[t] \in Holding
    BY <2>2 DEF SendMove, Holding, DriverLabels, RxLabels
  <2>4. mode' = "TX" => mode = "TX" \/ pc[t] = "send_mode"
    BY <2>1, <2>2 DEF DriverMove, SendMove
  <2>5. UNCHANGED <<rxBuf, up>> /\ pc' = [pc EXCEPT ![t] = to]
    BY <1>3, <2>1 DEF DriverMove, Driver, bufVars, gwVars
  <2> QED
    BY <1>1, <2>3, <2>4, <2>5 DEF Holding, InBuf
<1>4. CASE RxStop(t)
  <2>1. PICK from \in {"rx_f", "rx_standby"}, to \in {"rx_standby", "crc"} :
           pc[t] = from /\ pc' = [pc EXCEPT ![t] = to]
    BY <1>4 DEF RxStop, StopRemoveIsr, StopStandby, At
  <2>2. UNCHANGED <<rxBuf, up>> /\ (mode' = "TX" => mode = "TX")
    BY <1>4 DEF RxStop, StopRemoveIsr, StopStandby, lora_set_satandby_mode, SetOpMode,
       chipVars, bufVars, gwVars
  <2> QED
    BY <1>1, <2>1, <2>2 DEF Holding, RxLabels
<1>5. CASE RxReply(t)
  BY <1>1, <1>5 DEF RxReply, At, Holding, RxLabels, InBuf, chipVars
<1>6. ~RxThrows(t)
  BY NeverDies
<1> QED
  BY <1>2, <1>3, <1>4, <1>5, <1>6 DEF ThreadStep, rx_f, RxLabels, RxCrc, RxCopy, RxQuery,
     RxSave, RxActivate, RxValid, RxInvalid, RxLimit, RxReboot, RxInfo, RxPipe

\* The interrupt thread fills the buffer before it starts rx_f; nobody else starts
\* a callback or touches the buffer (lora.cpp:187-232).
LEMMA RestService ==
  ASSUME AllInv, Faults \subseteq {"connect"},
         Interrupt \/ NbStep \/ Environment \/ UNCHANGED vars
  PROVE  ServiceInv'
<1>0. /\ TypeOK /\ pc \in [Threads -> Labels] /\ up
      /\ \A u \in Callbacks : pc[u] \in Holding => rxBuf \in Packets
      /\ mode = "TX" => rxBuf \in Packets
      /\ isrPc = "rx_spawn" => rxBuf \in Packets
  BY DEF AllInv, TypeInv, TypeOK, ServiceInv, Holding
<1>1. ASSUME up' = up, mode' = "TX" => mode = "TX", rxBuf' = rxBuf \/ rxBuf' \in Packets,
             \A u \in Callbacks : pc'[u] \in Holding =>
                pc[u] \in Holding \/ isrPc = "rx_spawn"
      PROVE  ServiceInv'
  BY <1>0, <1>1 DEF ServiceInv, Holding
<1>2. CASE UNCHANGED gwVars /\ (IsrEnter \/ RxDoneCrc \/ RxDoneClear \/ TxDoneClear \/ TxDoneStandby)
  BY <1>1, <1>2 DEF gwVars, IsrEnter, RxDoneCrc, RxDoneClear, TxDoneClear, TxDoneStandby,
     lora_set_satandby_mode, SetOpMode, chipVars, bufVars
<1>3. CASE UNCHANGED gwVars /\ RxDoneRead(FifoRead)
  BY <1>1, <1>3 DEF gwVars, RxDoneRead, FifoRead, Corrupted, chipVars
<1>4. ASSUME NEW t \in Callbacks, UNCHANGED gwVars,
             RxDoneSpawn(t, "rx_f") \/ TxDoneSpawn(t, "receive")
      PROVE  ServiceInv'
  BY <1>0, <1>1, <1>4 DEF gwVars, RxDoneSpawn, TxDoneSpawn, IsrGoto, At, Callbacks, Holding,
     RxLabels, InBuf, chipVars, bufVars
<1>5. CASE NbStep
  BY <1>1, <1>5 DEF NbStep, NbConnect, NbRead, NbWrite, nbRest, modemVars, chipVars, bufVars
<1>6. CASE Environment \/ UNCHANGED vars
  <2>1. UNCHANGED <<up, rxBuf, pc>> /\ (mode' = "TX" => mode = "TX")
    BY <1>6 DEF Environment, Transmitted, Hear, ChipReceive, ChipTxDone, gwVars, vars,
       modemVars, chipVars, bufVars
  <2> QED
    BY <1>1, <2>1
<1>7. ~RxDoneReadFails
  BY NeverDies
<1> QED
  BY <1>2, <1>3, <1>4, <1>5, <1>6, <1>7 DEF Interrupt, RxDone, TxDone

\* All four invariants together always hold.
LEMMA ServiceAlways ==
  ASSUME ~Overlap, Faults \subseteq {"connect"}
  PROVE  Spec => []AllInv
<1>1. Init => AllInv
  <2>1. Init => ServiceInv
    BY DEF Init, Boot, ModemInit, BootPc, ServiceInv, Callbacks, RxLabels, InBuf
  <2> QED
    BY <2>1, InitTypeInv, InitToken, InitData DEF AllInv
<1>2. AllInv /\ [Next]_vars => AllInv'
  <2> SUFFICES ASSUME AllInv, [Next]_vars PROVE AllInv'
    OBVIOUS
  <2>1. TypeInv' /\ TokenInv' /\ DataInv'
    BY StepType, StepToken, StepData DEF AllInv
  <2>2. ServiceInv'
    BY ThreadService, RestService, NeverDies DEF Next
  <2> QED
    BY <2>1, <2>2 DEF AllInv
<1> QED
  BY <1>1, <1>2, PTL DEF Spec

-----------------------------------------------------------------------------
(* What the service sees, by who has the token.                             *)

\* The cases of AnswerOf.
AnswerView(t) ==
    /\ pc[t] \in {"limit", "reboot"} =>
          AnswerOf(t) = [ack |-> data[t].count, needReboot |-> OverLimit(Mac(t))]
    /\ pc[t] = "info" =>
          AnswerOf(t) = [ack |-> data[t].count, needReboot |-> reply[t].needReboot]
    /\ pc[t] \in {"pipe", "reply"} => AnswerOf(t) = reply[t]
    /\ pc[t] \in InBuf => AnswerOf(t) = txBuf
    /\ pc[t] \notin {"limit", "reboot", "info", "pipe", "reply"} \cup InBuf =>
          AnswerOf(t) = NoData

\* A callback: the frame is in the shared buffer until it is served, and the answer
\* where AnswerOf says; only its own sensor may have a reboot decided on.
ActiveView(t) ==
    /\ Heard = IF pc[t] \in ToServe THEN rxBuf ELSE NoData
    /\ Answer = AnswerOf(t)
    /\ AnswerView(t)
    /\ Reboots = [m \in Macs |-> IF Deciding(t, m) THEN rcount[m] + 1 ELSE rcount[m]]

\* main, which starts the gateway: there is nothing yet.
MainView ==
    /\ Heard = NoData /\ Answer = NoData
    /\ Reboots = [m \in Macs |-> rcount[m]]

\* Nobody: the chip or the interrupt thread has the frame, the chip the answer.
RestView ==
    /\ Heard = IF InChip THEN fifo
               ELSE IF isrPc \in {"rx_crc", "rx_clear", "rx_spawn"} THEN rxBuf ELSE NoData
    /\ Answer = IF mode = "TX" THEN fifo ELSE NoData
    /\ Reboots = [m \in Macs |-> rcount[m]]

View ==
    /\ \A t \in Callbacks : pc[t] # "none" => ActiveView(t)
    /\ pc[Main] # "none" => MainView
    /\ (\A t \in Threads : pc[t] = "none") => RestView

\* An answer under way is where its thread is.
LEMMA AnswerViews ==
  ASSUME NEW t \in Threads, reply \in [Threads -> Replies]
  PROVE  AnswerView(t)
<1> DEFINE Counting == pc[t] \in {"limit", "reboot"}
           Informing == pc[t] = "info"
           Answering == pc[t] \in {"pipe", "reply"}
           Sending   == pc[t] \in ToSend
<1>0. /\ Informing => ~Counting
      /\ Answering => ~Counting /\ ~Informing
      /\ Sending => ~Counting /\ ~Informing /\ ~Answering
  BY DEF ToSend
<1>1. AnswerOf(t) = CASE Counting -> [ack |-> data[t].count, needReboot |-> OverLimit(Mac(t))]
                      [] Informing -> [reply[t] EXCEPT !.ack = data[t].count]
                      [] Answering -> reply[t]
                      [] Sending   -> txBuf
                      [] OTHER     -> NoData
  BY Zenon DEF AnswerOf
<1>2. Informing => [reply[t] EXCEPT !.ack = data[t].count]
                     = [ack |-> data[t].count, needReboot |-> reply[t].needReboot]
  <2>1. ASSUME NEW r \in Replies, NEW a
        PROVE  [r EXCEPT !.ack = a] = [ack |-> a, needReboot |-> r.needReboot]
    BY <2>1 DEF Replies
  <2> QED
    BY <2>1, Zenon
<1> HIDE DEF Counting, Informing, Answering, Sending
<1>3. /\ Counting => AnswerOf(t) = [ack |-> data[t].count, needReboot |-> OverLimit(Mac(t))]
      /\ Informing => AnswerOf(t) = [ack |-> data[t].count, needReboot |-> reply[t].needReboot]
      /\ Answering => AnswerOf(t) = reply[t]
      /\ Sending => AnswerOf(t) = txBuf
      /\ ~Counting /\ ~Informing /\ ~Answering /\ ~Sending => AnswerOf(t) = NoData
  BY <1>0, <1>1, <1>2, Zenon
<1>4. ToSend = InBuf
  BY DEF ToSend, InBuf
<1> QED
  BY <1>3, <1>4 DEF AnswerView, Counting, Informing, Answering, Sending

\* The token has one holder, so these are the only cases.
LEMMA Views == AllInv => View
<1> SUFFICES ASSUME AllInv PROVE View
  OBVIOUS
<1>0. TypeOK /\ TokenInv /\ FrameInv /\ ServiceInv /\ Main \in Threads
      /\ NoData \notin Packets
  BY GatewayAssumption, NoDataAssumption DEF AllInv, DataInv, TypeInv
<1>1. ASSUME NEW t \in Threads, pc[t] # "none"
      PROVE  /\ ~InChip /\ isrPc = "idle" /\ mode # "TX"
             /\ \A u \in Threads \ {t} : pc[u] = "none"
             /\ Reboots = [m \in Macs |-> IF Deciding(t, m) THEN rcount[m] + 1 ELSE rcount[m]]
  <2>1. ~edge /\ isrPc = "idle" /\ \A u \in Threads \ {t} : pc[u] = "none"
    BY <1>0, <1>1, Alone
  <2>2. mode # "TX"
    BY <1>0, <1>1, ActiveNotTX DEF AllInv, DataInv, ServiceInv
  <2>3. \A m : (\E u \in Threads : Deciding(u, m)) <=> Deciding(t, m)
    BY <2>1 DEF Deciding
  <2> QED
    BY <2>1, <2>2, <2>3 DEF InChip, Reboots
<1>2. ASSUME NEW t \in Callbacks, pc[t] # "none"
      PROVE  ActiveView(t)
  <2>0. t \in Threads
    BY DEF Callbacks
  <2>1. Busy = {t}
    BY <1>1, <1>2, <2>0 DEF Busy, Callbacks
  <2>2. (CHOOSE u \in Busy : TRUE) = t
    BY <2>1
  <2>3. Answer = AnswerOf(t)
    BY <1>1, <1>2, <2>0, <2>1, <2>2 DEF Answer
  <2>6. AnswerView(t)
    BY <1>0, <2>0, AnswerViews DEF TypeOK
  <2>4. InBuffer <=> pc[t] \in ToServe
    BY <1>1, <1>2, <2>0 DEF InBuffer, ToServe
  <2>5. Heard = IF pc[t] \in ToServe THEN rxBuf ELSE NoData
    BY <1>1, <1>2, <2>0, <2>4 DEF Heard
  <2> QED
    BY <1>1, <1>2, <2>0, <2>3, <2>5, <2>6 DEF ActiveView
<1>3. ASSUME pc[Main] # "none"
      PROVE  MainView
  <2>1. pc[Main] \in MainLabels
    BY <1>0 DEF TokenInv
  <2>2. ~InBuffer /\ Busy = {}
    BY <1>0, <1>1, <1>3, <2>1 DEF InBuffer, Busy, Callbacks, MainLabels, ToServe
  <2>3. \A m : ~Deciding(Main, m)
    BY <2>1 DEF Deciding, MainLabels
  <2> QED
    BY <1>0, <1>1, <1>3, <2>2, <2>3 DEF MainView, Heard, Answer
<1>4. ASSUME \A t \in Threads : pc[t] = "none"
      PROVE  RestView
  <2>1. Busy = {} /\ \A m : ~\E t \in Threads : Deciding(t, m)
    BY <1>4 DEF Busy, Callbacks, Deciding
  <2>2. InBuffer <=> isrPc \in {"rx_crc", "rx_clear", "rx_spawn"}
    BY <1>4 DEF InBuffer, ToServe
  <2> QED
    BY <2>1, <2>2 DEF RestView, Heard, Answer, Reboots
<1> QED
  BY <1>2, <1>3, <1>4 DEF View

\* A step that the service does not see.
Unseen == UNCHANGED <<Streak, Reboots, Heard, Answer, air>>

\* The counts are what they were if the registry is.
LEMMA SameStreak ==
  ASSUME UNCHANGED vcount
  PROVE  Streak' = Streak
  BY DEF Streak

-----------------------------------------------------------------------------
(* Main and the driver.                                                     *)

\* What a thread step finds and leaves.
LEMMA StepViews ==
  ASSUME AllInv, View, AllInv', View', NEW t \in Threads, NEW to, pc[t] # "none",
         pc' = [pc EXCEPT ![t] = to]
  PROVE  /\ pc'[t] = to
         /\ t # Main => ActiveView(t) /\ (to # "none" => ActiveView(t)')
         /\ t = Main => MainView /\ (to # "none" => MainView')
         /\ to = "none" => RestView'
<1>1. pc \in [Threads -> Labels] /\ TokenInv
  BY DEF AllInv, TypeInv, TypeOK
<1>2. \A u \in Threads \ {t} : pc[u] = "none"
  BY <1>1, Alone
<1>3. pc'[t] = to /\ \A u \in Threads \ {t} : pc'[u] = "none"
  BY <1>1, <1>2
<1>4. to = "none" => RestView'
  BY <1>3 DEF View
<1> QED
  BY <1>3, <1>4 DEF View, Callbacks

\* Driver steps carry an answer to the air, if there is one (lora.cpp:125-165, 234-243).
LEMMA DriverUnseen ==
  ASSUME AllInv, View, AllInv', View', Faults \subseteq {"connect"},
         NEW t \in Threads, Driver(t)
  PROVE  Unseen
<1>0. TypeOK /\ TokenInv /\ pc \in [Threads -> Labels] /\ NoFault
  BY DEF AllInv, TypeInv, TypeOK, NoFault
<1>1. PICK to \in DriverLabels : DriverMove(t, to)
  BY DriverMoves
<1>2. SendMove(t, to)
  BY <1>0, <1>1, DriverSendMoves DEF DriverMove
<1>3. /\ pc[t] \in DriverLabels \ {"none"} /\ pc' = [pc EXCEPT ![t] = to]
      /\ UNCHANGED <<rxBuf, rxCrc, txBuf, isrPc, rcount, vcount, status, data, reply>>
  BY <1>1 DEF DriverMove, Driver, gwVars, dbVars, localVars, bufVars
<1>4. air' = air
  BY DEF Driver, LoRa_end, StopRemoveIsr, StopStandby, EndClose, EndUnset, LoRa_begin,
     BeginReset, BeginOpen, BeginConfigure, BeginFails, BeginInitFails, BeginOpenFails,
     LoRa_send, SendStandby, SendWriteFifo, SendMapDio, SendSetIsr, SendTransmit,
     LoRa_receive, ReceiveStandby, ReceiveMapDio, ReceiveSetIsr, ReceiveListen, chipVars
<1>5. /\ pc'[t] = to
      /\ t # Main => ActiveView(t) /\ (to # "none" => ActiveView(t)')
      /\ t = Main => MainView /\ (to # "none" => MainView')
      /\ to = "none" => RestView'
  BY <1>3, StepViews
<1>6. Stage(t) /\ isrPc = "idle" /\ ~edge /\ CallbackInv(t) /\ mode # "TX"
  <2>1. mode # "TX"
    BY <1>0, <1>3, ActiveNotTX, NoDataAssumption DEF AllInv, DataInv, ServiceInv
  <2> QED
    BY <1>0, <1>3, <2>1, Alone DEF AllInv, DataInv
<1>7. to = "none" => ~InChip' /\ isrPc' = "idle"
  BY <1>1, <1>3, <1>6 DEF DriverMove, InChip
<1>8. \A m : ~Deciding(t, m) /\ ~Deciding(t, m)'
  BY <1>3, <1>5 DEF Deciding, DriverLabels
<1>9. Reboots' = Reboots /\ Streak' = Streak
  BY <1>3, <1>5, <1>8, SameStreak DEF ActiveView, MainView, RestView
<1>10. Heard' = Heard
  BY <1>3, <1>5, <1>7 DEF ActiveView, MainView, RestView, ToServe, DriverLabels
<1>11. CASE t = Main
  <2>1. to = "none" => mode' # "TX"
    BY <1>0, <1>2, <1>6, <1>11 DEF SendMove, TokenInv, MainLabels
  <2>2. Answer' = Answer
    BY <1>5, <1>11, <2>1 DEF MainView, RestView
  <2> QED
    BY <1>4, <1>9, <1>10, <2>2 DEF Unseen
<1>12. CASE t # Main /\ pc[t] \in InBuf
  <2>1. AnswerOf(t) = txBuf
    BY <1>5, <1>12 DEF ActiveView, AnswerView
  <2>2. CASE pc[t] # "send_mode"
    <3>1. to \in InBuf
      BY <1>0, <1>3, <1>12, <2>2, DriverWay
    <3>2. AnswerOf(t)' = txBuf'
      BY <1>5, <1>12, <3>1 DEF ActiveView, AnswerView, InBuf
    <3> QED
      BY <1>3, <1>4, <1>5, <1>9, <1>10, <1>12, <2>1, <3>1, <3>2 DEF ActiveView, Unseen, InBuf
  <2>3. CASE pc[t] = "send_mode"
    <3>1. Xfer
      BY <1>0, <1>6, <2>3 DEF Stage, StageSend
    <3>2. to = "none" /\ fifo' = fifo /\ mode' = "TX"
      BY <1>0, <1>3, <1>12, <2>3, <3>1, DriverWay
    <3>3. fifo = txBuf
      BY <1>6, <1>12, <2>3, <3>1 DEF CallbackInv, InBuf, InFifo
    <3> QED
      BY <1>4, <1>5, <1>9, <1>10, <1>12, <2>1, <3>2, <3>3 DEF ActiveView, RestView, Unseen
  <2> QED
    BY <2>2, <2>3
<1>13. CASE t # Main /\ pc[t] \notin InBuf
  <2>1. to \notin InBuf /\ (to = "none" => mode' # "TX")
    BY <1>2, <1>6, <1>13 DEF SendMove, InBuf
  <2>2. AnswerOf(t) = NoData /\ (to # "none" => AnswerOf(t)' = NoData)
    BY <1>3, <1>5, <1>13, <2>1 DEF ActiveView, AnswerView, DriverLabels
  <2> QED
    BY <1>4, <1>5, <1>9, <1>10, <1>13, <2>1, <2>2 DEF ActiveView, RestView, Unseen
<1> QED
  BY <1>11, <1>12, <1>13

-----------------------------------------------------------------------------
(* The steps of rx_f.                                                       *)

\* What a step between two labels of rx_f finds and leaves.
RxView(t, from, to) ==
    /\ pc[t] = from /\ pc'[t] = to
    /\ ActiveView(t) /\ ActiveView(t)'
    /\ CallbackInv(t) /\ CallbackInv(t)'
    /\ Midway(t, Mac(t)) /\ Midway(t, Mac(t))'
    /\ rxBuf \in Packets /\ rxBuf # NoData
    /\ UNCHANGED <<rxBuf, rxCrc, air>>

\* A step between two labels of rx_f keeps the frame, and the views, and what they rest on,
\* hold before and after it.
LEMMA RxViews ==
  ASSUME AllInv, View, AllInv', View', NEW t \in Threads, NEW from \in RxLabels,
         NEW to \in RxLabels, RxGoto(t, from, to)
  PROVE  RxView(t, from, to)
<1>1. /\ pc[t] = from /\ pc' = [pc EXCEPT ![t] = to] /\ from # "none" /\ to # "none"
      /\ UNCHANGED <<rxBuf, rxCrc, air>>
  BY DEF RxGoto, At, RxLabels, chipVars, bufVars
<1>2. t # Main /\ t \in Callbacks
  BY <1>1 DEF AllInv, TokenInv, MainLabels, RxLabels, Callbacks
<1>3. pc'[t] = to /\ ActiveView(t) /\ ActiveView(t)'
  BY <1>1, <1>2, StepViews
<1>4. rxBuf \in Packets /\ rxBuf # NoData
  BY <1>1, <1>2, NoDataAssumption DEF AllInv, ServiceInv
<1>5. CallbackInv(t) /\ CallbackInv(t)' /\ Midway(t, Mac(t)) /\ Midway(t, Mac(t))'
  BY DEF AllInv, DataInv, RegistryInv
<1> QED
  BY <1>1, <1>3, <1>4, <1>5 DEF RxView

\* Stopping the receiver, the copy and the look-up are not seen by the service.
LEMMA RxPrepares ==
  ASSUME AllInv, View, AllInv', View', NEW t \in Threads,
         RxStop(t) \/ RxCopy(t) \/ RxQuery(t) \/ (RxCrc(t) /\ ~rxCrc)
  PROVE  Unseen
<1> DEFINE Early == {"rx_f", "rx_standby", "crc", "copy", "query", "save_info", "activate", "validity"}
<1>1. ASSUME NEW from \in Early, NEW to \in Early, pc[t] = from, pc' = [pc EXCEPT ![t] = to],
             UNCHANGED <<rxBuf, air, rcount, vcount>>
      PROVE  Unseen
  <2>1. t # Main /\ from # "none" /\ to # "none"
    BY <1>1 DEF AllInv, TokenInv, MainLabels
  <2>2. pc'[t] = to /\ ActiveView(t) /\ ActiveView(t)'
    BY <1>1, <2>1, StepViews
  <2>3. Heard' = Heard
    BY <1>1, <2>2 DEF ActiveView, ToServe
  <2>4. Answer' = Answer
    BY <1>1, <2>2 DEF ActiveView, AnswerView, InBuf
  <2>5. Reboots' = Reboots
    BY <1>1, <2>2 DEF ActiveView, Deciding
  <2> QED
    BY <1>1, <2>3, <2>4, <2>5, SameStreak DEF Unseen
<1>2. CASE RxStop(t)
  BY <1>1, <1>2 DEF RxStop, StopRemoveIsr, StopStandby, At, gwVars, dbVars, chipVars, bufVars
<1>3. CASE RxCopy(t)
  BY <1>1, <1>3 DEF RxCopy, RxGoto, At, dbVars, chipVars, bufVars
<1>4. CASE RxQuery(t)
  <2>1. data[t] \in Packets /\ Mac(t) \in Macs
    BY <1>4, MacType DEF RxQuery, HasData, AllInv
  <2>2. query(Mac(t)) \in Status
    BY <2>1 DEF query, AllInv, TypeInv, TypeOK, DbTypeOK
  <2>3. PICK to \in {"save_info", "activate", "validity"} : RxGoto(t, "query", to)
    BY <1>4, <2>2 DEF RxQuery, Status
  <2> QED
    BY <1>1, <1>4, <2>3 DEF RxQuery, RxGoto, At, dbVars, chipVars, bufVars
<1>5. CASE RxCrc(t) /\ ~rxCrc
  BY <1>1, <1>5 DEF RxCrc, RxGoto, At, dbVars, chipVars, bufVars
<1> QED
  BY <1>2, <1>3, <1>4, <1>5

\* Registering or reactivating a sensor starts no streak (DataBase.cpp:54-60, 79-90).
LEMMA RxRegisters ==
  ASSUME AllInv, View, AllInv', View', NEW t \in Threads, RxSave(t) \/ RxActivate(t)
  PROVE  Unseen
<1>1. PICK from \in {"save_info", "save_count", "activate"}, to \in {"save_count", "validity"} :
        RxGoto(t, from, to)
  BY DEF RxSave, RxActivate
<1>2. RxView(t, from, to) /\ rcount' = rcount
  BY <1>1, RxViews DEF RxLabels, RxSave, RxActivate, saveClientInfo, saveClientCount, activate
<1>3. Streak' = Streak
  <2>1. \A m \in Macs : vcount'[m] = vcount[m] \/ (vcount[m] = Absent /\ vcount'[m] = 0)
    <3>1. vcount \in [Macs -> Nat \cup {Absent}]
      BY DEF AllInv, TypeInv, TypeOK, DbTypeOK
    <3> QED
      BY <3>1 DEF RxSave, RxActivate, saveClientInfo, saveClientCount, activate
  <2> QED
    BY <2>1 DEF Streak, Absent
<1>4. Heard' = Heard /\ Answer' = Answer /\ Reboots' = Reboots
  BY <1>2 DEF RxView, ActiveView, ToServe, AnswerView, InBuf, Deciding
<1> QED
  BY <1>2, <1>3, <1>4 DEF RxView, Unseen

\* A damaged frame is answered with -1 and counts for nobody (hybrid_gateway.cpp:83-88).
LEMMA RxDamaged ==
  ASSUME AllInv, View, AllInv', View', NEW t \in Threads, RxCrc(t), rxCrc
  PROVE  GS!ServeDamaged
<1>1. RxGoto(t, "crc", "reply") /\ UNCHANGED <<vcount, rcount>>
  BY DEF RxCrc, dbVars
<1>2. RxView(t, "crc", "reply")
  BY <1>1, RxViews DEF RxLabels
<1>3. Heard = rxBuf /\ ~rxBuf.ok /\ Heard' = NoData
  BY <1>2 DEF RxView, ActiveView, ToServe, CallbackInv, HasFrame, Checked
<1>4. Answer' = [ack |-> -1, needReboot |-> FALSE]
  <2>1. reply'[t] = DueReply'
    BY <1>2 DEF RxView, CallbackInv
  <2>2. AnswerOf(t)' = reply'[t]
    BY <1>2 DEF RxView, ActiveView, AnswerView
  <2> QED
    BY <1>2, <2>1, <2>2 DEF RxView, ActiveView, DueReply
<1>5. Reboots' = Reboots /\ Streak' = Streak
  BY <1>1, <1>2, SameStreak DEF RxView, ActiveView, Deciding
<1> QED
  BY <1>2, <1>3, <1>4, <1>5 DEF RxView, GS!ServeDamaged

\* A valid reading ends the sensor's streak (hybrid_gateway.cpp:62-63).
LEMMA RxServesValid ==
  ASSUME AllInv, View, AllInv', View', NEW t \in Threads, RxValid(t)
  PROVE  GS!ServeReading
<1> DEFINE m == Mac(t)
<1>1. /\ RxGoto(t, "validity", "info") /\ resetErrorCount(m)
      /\ UNCHANGED <<data, status, rcount>> /\ data[t].valid
  BY DEF RxValid, localVars, resetErrorCount
<1>2. RxView(t, "validity", "info")
  BY <1>1, RxViews DEF RxLabels
<1>3. Heard = rxBuf /\ rxBuf.ok /\ rxBuf = data[t] /\ Heard' = NoData /\ status[m] = "Good"
  BY <1>2 DEF RxView, ActiveView, ToServe, CallbackInv, HasData, Checked, Midway
<1>4. m \in Macs /\ m = rxBuf.mac
  BY <1>2, <1>3 DEF RxView, Mac, Packets
<1>5. Answer' = [ack |-> rxBuf.count, needReboot |-> FALSE]
  <2>1. Answer' = [ack |-> data'[t].count, needReboot |-> reply'[t].needReboot]
    BY <1>2 DEF RxView, ActiveView, AnswerView
  <2>2. reply'[t] = [ack |-> 0, needReboot |-> status'[Mac(t)'] = "Bad"]
    BY <1>2 DEF RxView, CallbackInv
  <2>3. Mac(t)' = m /\ status'[Mac(t)'] = "Good"
    BY <1>1, <1>3 DEF Mac
  <2>4. (status'[Mac(t)'] = "Bad") = FALSE
    BY <2>3
  <2>5. reply'[t] = [ack |-> 0, needReboot |-> FALSE]
    BY <2>2, <2>4, Zenon
  <2> QED
    BY <1>1, <1>3, <2>1, <2>5
<1>6. Streak' = [Streak EXCEPT ![m] = 0]
  <2>1. vcount \in [Macs -> Nat \cup {Absent}]
    BY DEF AllInv, TypeInv, TypeOK, DbTypeOK
  <2> QED
    BY <1>1, <1>4, <2>1 DEF resetErrorCount, Streak, Absent
<1>7. Reboots' = Reboots /\ Reboots = [Reboots EXCEPT ![m] = IF 0 > ErrorLimit THEN @ + 1 ELSE @]
  BY <1>1, <1>2, GatewayAssumption DEF RxView, ActiveView, Deciding
<1>8. (IF Heard.valid THEN 0 ELSE Streak[Heard.mac] + 1) = 0 /\ (0 > ErrorLimit) = FALSE
  BY <1>1, <1>3, GatewayAssumption
<1> HIDE DEF m
<1> QED
  BY <1>2, <1>3, <1>4, <1>5, <1>6, <1>7, <1>8
     DEF RxView, GS!ServeReading, GS!Counted, GS!AckOf, GS!RebootWish

\* An invalid one makes it longer; over the limit a reboot is asked for
\* (hybrid_gateway.cpp:48-61).
LEMMA RxServesInvalid ==
  ASSUME AllInv, View, AllInv', View', NEW t \in Threads, RxInvalid(t)
  PROVE  GS!ServeReading
<1> DEFINE m == Mac(t)
<1>1. /\ RxGoto(t, "validity", "limit") /\ increaseErrorCount(m)
      /\ UNCHANGED <<data, status, rcount>> /\ ~data[t].valid /\ vcount[m] # Absent
      /\ Mac(t)' = m
  BY DEF RxInvalid, localVars, increaseErrorCount, AtThrows, Mac
<1>2. RxView(t, "validity", "limit")
  BY <1>1, RxViews DEF RxLabels
<1>3. Heard = rxBuf /\ rxBuf.ok /\ rxBuf = data[t] /\ Heard' = NoData
  BY <1>2 DEF RxView, ActiveView, ToServe, CallbackInv, HasData, Checked
<1>4. m \in Macs /\ m = rxBuf.mac
  BY <1>2, <1>3 DEF RxView, Mac, Packets
<1> DEFINE s == Streak[m] + 1
<1>5. /\ Streak' = [Streak EXCEPT ![m] = s]
      /\ vcount'[m] = s /\ vcount' = [vcount EXCEPT ![m] = s]
  <2>1. vcount \in [Macs -> Nat \cup {Absent}]
    BY DEF AllInv, TypeInv, TypeOK, DbTypeOK
  <2>2. Streak[m] = vcount[m] /\ vcount[m] \in Nat
    BY <1>1, <1>4, <2>1 DEF Streak
  <2>3. vcount' = [vcount EXCEPT ![m] = s]
    BY <1>1, <2>1, <2>2 DEF increaseErrorCount
  <2>4. s # Absent
    BY <2>2 DEF Absent
  <2> HIDE DEF s
  <2>5. vcount'[m] = s
    BY <1>4, <2>1, <2>3
  <2>6. ASSUME NEW x \in Macs
        PROVE  Streak'[x] = [Streak EXCEPT ![m] = s][x]
    BY <1>4, <2>1, <2>3, <2>4 DEF Streak
  <2> QED
    BY <2>3, <2>5, <2>6 DEF Streak
<1>6. OverLimit(m)' <=> s > ErrorLimit
  <2>1. OverLimit(m)' <=> vcount'[m] > ErrorLimit
    BY <1>1 DEF OverLimit, getErrorCount, Mac
  <2> QED
    BY <1>5, <2>1
<1> HIDE DEF s
<1>7. Answer' = [ack |-> rxBuf.count, needReboot |-> s > ErrorLimit]
  <2>1. Answer' = [ack |-> data'[t].count, needReboot |-> OverLimit(Mac(t))']
    BY <1>2 DEF RxView, ActiveView, AnswerView
  <2>2. OverLimit(Mac(t))' = (s > ErrorLimit)
    BY <1>1, <1>5 DEF OverLimit, getErrorCount
  <2> QED
    BY <1>1, <1>3, <2>1, <2>2
<1>8. Reboots' = [Reboots EXCEPT ![m] = IF s > ErrorLimit THEN @ + 1 ELSE @]
  <2>1. Reboots = [x \in Macs |-> rcount[x]]
    BY <1>2 DEF RxView, ActiveView, Deciding
  <2>2. Reboots' = [x \in Macs |-> IF x = m /\ s > ErrorLimit THEN rcount[x] + 1 ELSE rcount[x]]
    <3>1. \A x : Deciding(t, x)' <=> x = m /\ s > ErrorLimit
      BY <1>1, <1>2, <1>5 DEF Deciding, RxView, OverLimit, getErrorCount
    <3> QED
      BY <1>1, <1>2, <3>1 DEF RxView, ActiveView
  <2> QED
    BY <1>4, <2>1, <2>2
<1> QED
  BY <1>1, <1>2, <1>3, <1>4, <1>5, <1>7, <1>8
     DEF RxView, GS!ServeReading, GS!Counted, GS!AckOf, GS!RebootWish, s

\* Marking the sensor does what the service has already counted and answered
\* (hybrid_gateway.cpp:55-60).
LEMMA RxMarks ==
  ASSUME AllInv, View, AllInv', View', NEW t \in Threads, RxLimit(t) \/ RxReboot(t)
  PROVE  Unseen
<1> DEFINE m == Mac(t)
<1>0. /\ vcount' = vcount /\ data' = data /\ rcount \in [Macs -> Nat]
      /\ OverLimit(m)' = OverLimit(m) /\ Mac(t)' = m
  BY DEF RxLimit, RxReboot, localVars, dbVars, reboot, AllInv, TypeInv, TypeOK, DbTypeOK,
     OverLimit, getErrorCount, Mac
<1>1. CASE RxLimit(t)
  <2> DEFINE to == IF OverLimit(m) THEN "reboot" ELSE "info"
  <2>1. RxGoto(t, "limit", to) /\ UNCHANGED <<status, rcount>> /\ to \in RxLabels
    BY <1>1 DEF RxLimit, dbVars, RxLabels
  <2>2. RxView(t, "limit", to)
    BY <2>1, RxViews DEF RxLabels
  <2>3. Answer = [ack |-> data[t].count, needReboot |-> OverLimit(m)] /\ status[m] = "Good"
    BY <2>2 DEF RxView, ActiveView, AnswerView, Midway
  <2>4. CASE OverLimit(m)
    <3>1. Answer' = [ack |-> data'[t].count, needReboot |-> OverLimit(Mac(t))']
      BY <2>2, <2>4 DEF RxView, ActiveView, AnswerView
    <3>2. \A x : Deciding(t, x)' <=> Deciding(t, x)
      BY <1>0, <2>2, <2>4 DEF RxView, Deciding, OverLimit, getErrorCount
    <3> QED
      BY <1>0, <2>1, <2>2, <2>3, <2>4, <3>1, <3>2, SameStreak DEF RxView, ActiveView, ToServe, Unseen
  <2>5. CASE ~OverLimit(m)
    <3>1. Answer' = [ack |-> data'[t].count, needReboot |-> reply'[t].needReboot]
      BY <2>2, <2>5 DEF RxView, ActiveView, AnswerView
    <3>2. reply'[t] = [ack |-> 0, needReboot |-> status'[Mac(t)'] = "Bad"]
      BY <2>2, <2>5 DEF RxView, CallbackInv
    <3>3. (status'[Mac(t)'] = "Bad") = FALSE /\ OverLimit(m) = FALSE
      BY <1>0, <2>1, <2>3, <2>5 DEF OverLimit
    <3>4. reply'[t] = [ack |-> 0, needReboot |-> FALSE]
      BY <3>2, <3>3, Zenon
    <3>5. Answer' = Answer
      <4>1. Answer = [ack |-> data[t].count, needReboot |-> FALSE]
        BY <2>3, <3>3, Zenon
      <4> QED
        BY <1>0, <3>1, <3>4, <4>1
    <3>6. \A x : ~Deciding(t, x)' /\ ~Deciding(t, x)
      BY <2>2, <2>5 DEF RxView, Deciding
    <3> QED
      BY <1>0, <2>1, <2>2, <2>5, <3>5, <3>6, SameStreak DEF RxView, ActiveView, ToServe, Unseen
  <2> QED
    BY <2>4, <2>5
<1>2. CASE RxReboot(t)
  <2>1. RxGoto(t, "reboot", "info") /\ reboot(m)
    BY <1>2 DEF RxReboot
  <2>2. RxView(t, "reboot", "info")
    BY <2>1, RxViews DEF RxLabels
  <2>3. /\ Answer = [ack |-> data[t].count, needReboot |-> OverLimit(m)]
        /\ status[m] = "Good" /\ OverLimit(m)
    BY <2>2 DEF RxView, ActiveView, AnswerView, Midway
  <2>4. m \in Macs
    BY <2>1, MacType DEF HasData, AllInv
  <2>5. status'[m] = "Bad" /\ rcount' = [rcount EXCEPT ![m] = @ + 1]
    BY <2>1, <2>3, <2>4 DEF reboot, AllInv, TypeInv, TypeOK, DbTypeOK
  <2>6. Answer' = Answer
    <3>1. Answer' = [ack |-> data'[t].count, needReboot |-> reply'[t].needReboot]
      BY <2>2 DEF RxView, ActiveView, AnswerView
    <3>2. reply'[t] = [ack |-> 0, needReboot |-> status'[Mac(t)'] = "Bad"]
      BY <2>2 DEF RxView, CallbackInv
    <3>3. (status'[Mac(t)'] = "Bad") = TRUE /\ OverLimit(m) = TRUE
      BY <1>0, <2>3, <2>5 DEF OverLimit
    <3>4. reply'[t] = [ack |-> 0, needReboot |-> TRUE]
      BY <3>2, <3>3, Zenon
    <3> QED
      BY <1>0, <2>3, <3>1, <3>3, <3>4
  <2>7. Reboots' = Reboots
    <3>1. Reboots = [x \in Macs |-> IF x = m THEN rcount[x] + 1 ELSE rcount[x]]
      BY <2>2, <2>3 DEF RxView, ActiveView, Deciding
    <3>2. Reboots' = [x \in Macs |-> rcount'[x]]
      BY <2>2 DEF RxView, ActiveView, Deciding
    <3> QED
      BY <1>0, <2>4, <2>5, <3>1, <3>2
  <2> QED
    BY <1>0, <2>2, <2>6, <2>7, SameStreak DEF RxView, ActiveView, ToServe, Unseen
<1> QED
  BY <1>1, <1>2

\* The rest of rx_f completes the answer and hands it over (hybrid_gateway.cpp:98-147).
LEMMA RxReports ==
  ASSUME AllInv, View, AllInv', View', NEW t \in Threads, RxInfo(t) \/ RxPipe(t) \/ RxReply(t)
  PROVE  Unseen
<1>0. UNCHANGED <<vcount, rcount, status>>
  BY DEF RxInfo, RxPipe, RxReply, dbVars
<1>1. CASE RxInfo(t)
  <2>1. RxGoto(t, "info", "pipe") /\ RxView(t, "info", "pipe")
    BY <1>1, RxViews DEF RxLabels, RxInfo
  <2>2. Answer = [ack |-> data[t].count, needReboot |-> reply[t].needReboot]
    BY <2>1 DEF RxView, ActiveView, AnswerView
  <2>3. /\ reply[t] = [ack |-> 0, needReboot |-> status[Mac(t)] = "Bad"]
        /\ ~rxCrc /\ data[t] = rxBuf
    BY <2>1 DEF RxView, CallbackInv, HasData
  <2>4. Answer' = [ack |-> rxBuf.count, needReboot |-> status[rxBuf.mac] = "Bad"]
    <3>1. Answer' = reply'[t]
      BY <2>1 DEF RxView, ActiveView, AnswerView
    <3>2. reply'[t] = DueReply'
      BY <2>1 DEF RxView, CallbackInv
    <3>3. DueReply' = [ack |-> rxBuf.count, needReboot |-> status[rxBuf.mac] = "Bad"]
      BY <1>0, <2>1, <2>3 DEF RxView, DueReply
    <3> QED
      BY <3>1, <3>2, <3>3
  <2>5. Answer' = Answer
    <3>1. reply[t].needReboot = (status[Mac(t)] = "Bad")
      <4>1. ASSUME NEW r, NEW b, r = [ack |-> 0, needReboot |-> b]
            PROVE  r.needReboot = b
        BY <4>1
      <4> QED
        BY <2>3, <4>1, Zenon
    <3> QED
      BY <2>2, <2>3, <2>4, <3>1, Zenon DEF Mac
  <2> QED
    BY <1>0, <2>1, <2>5, SameStreak DEF RxView, ActiveView, ToServe, Deciding, Unseen
<1>2. CASE RxPipe(t)
  <2>1. RxGoto(t, "pipe", "reply") /\ RxView(t, "pipe", "reply") /\ reply' = reply
    BY <1>2, RxViews DEF RxLabels, RxPipe, localVars
  <2>2. Answer' = Answer
    BY <2>1 DEF RxView, ActiveView, AnswerView
  <2> QED
    BY <1>0, <2>1, <2>2, SameStreak DEF RxView, ActiveView, ToServe, Deciding, Unseen
<1>3. CASE RxReply(t)
  <2>1. pc[t] = "reply" /\ pc' = [pc EXCEPT ![t] = "end"] /\ txBuf' = reply[t] /\ air' = air
    BY <1>3 DEF RxReply, At, chipVars
  <2>2. t # Main
    BY <2>1 DEF AllInv, TokenInv, MainLabels
  <2>3. pc'[t] = "end" /\ ActiveView(t) /\ ActiveView(t)'
    BY <2>1, <2>2, StepViews
  <2>4. Answer' = Answer
    BY <2>1, <2>3 DEF ActiveView, AnswerView, InBuf
  <2> QED
    BY <1>0, <2>1, <2>3, <2>4, SameStreak DEF ActiveView, ToServe, Deciding, Unseen
<1> QED
  BY <1>1, <1>2, <1>3

-----------------------------------------------------------------------------
(* The interrupt thread and the air.                                        *)

\* The handlers move the frame towards rx_f and say when the answer is out
\* (lora.cpp:187-232).
LEMMA InterruptUnseen ==
  ASSUME AllInv, View, AllInv', View', Faults \subseteq {"connect"}, Interrupt
  PROVE  Unseen
<1>0. /\ (IsrEnter \/ RxDone \/ TxDone) /\ UNCHANGED gwVars
      /\ TypeOK /\ TokenInv /\ TokenInv' /\ FrameInv
  BY NeverDies DEF Interrupt, AllInv, TypeInv, DataInv
<1>1. /\ edge \/ isrPc # "idle"
      /\ UNCHANGED <<rcount, vcount, air, fifo>>
  BY <1>0 DEF IsrEnter, RxDone, TxDone, RxDoneRead, RxDoneCrc, RxDoneClear,
     RxDoneSpawn, TxDoneClear, TxDoneStandby, TxDoneSpawn, IsrGoto, gwVars, dbVars, chipVars
<1>2. (\A t \in Threads : pc[t] = "none") /\ Resting
  BY <1>0, <1>1, NoneActive
<1>3. RestView /\ mode # "TX" /\ Answer = NoData /\ Streak' = Streak
  <2>1. mode # "TX"
    BY <1>0, <1>1, <1>2 DEF Resting, RxRaised, TxRaised, Sleepy, TypeOK, ModemTypeOK, IsrLabels
  <2> QED
    BY <1>1, <1>2, <2>1, SameStreak DEF View, RestView
<1>4. ASSUME pc' = pc
      PROVE  RestView' /\ Reboots' = Reboots /\ (isrPc' # "idle" => ~edge')
  <2>1. RestView' /\ Resting'
    BY <1>0, <1>2, <1>4 DEF View, TokenInv
  <2> QED
    BY <1>1, <1>3, <2>1 DEF RestView, Resting
<1>5. CASE IsrEnter
  <2>1. mode' = mode /\ isr' = isr /\ ~edge' /\ edge /\ isrPc = "idle" /\ pc' = pc
    BY <1>5 DEF IsrEnter, chipVars
  <2>2. isr = "rx" => isrPc' = "rx_read"
    BY <1>2, <1>5, <2>1 DEF IsrEnter, IrqFlagSeen, Resting, RxRaised, TxRaised
  <2>3. isr # "rx" => isrPc' \in {"idle", "tx_clear"}
    BY <1>5 DEF IsrEnter
  <2>4. InChip' <=> InChip
    BY <2>1, <2>2, <2>3 DEF InChip
  <2> QED
    BY <1>1, <1>3, <1>4, <2>1, <2>2, <2>3, <2>4 DEF RestView, Unseen
<1>6. CASE RxDoneRead(FifoRead)
  <2>1. fifo \in Packets /\ rxBuf' = fifo /\ mode' = mode /\ isrPc = "rx_read"
        /\ isrPc' = "rx_crc" /\ pc' = pc
    BY <1>0, <1>6 DEF RxDoneRead, FifoRead, FrameInv, Flagged, IsrGoto, chipVars
  <2> QED
    BY <1>1, <1>3, <1>4, <2>1 DEF RestView, Unseen, InChip
<1>7. CASE RxDoneCrc \/ RxDoneClear
  <2>1. /\ rxBuf' = rxBuf /\ mode' = mode /\ isrPc \in {"rx_crc", "rx_clear"}
        /\ isrPc' \in {"rx_clear", "rx_spawn"} /\ pc' = pc
    BY <1>7 DEF RxDoneCrc, RxDoneClear, IsrGoto, chipVars, bufVars
  <2>2. ~edge
    BY <1>2, <2>1 DEF Resting
  <2> QED
    BY <1>1, <1>3, <1>4, <2>1, <2>2 DEF RestView, Unseen, InChip
<1>8. CASE TxDoneClear \/ TxDoneStandby
  <2>1. /\ mode' # "TX" /\ isrPc \in {"tx_clear", "tx_standby"}
        /\ isrPc' \in {"tx_standby", "tx_spawn"} /\ pc' = pc
    BY <1>3, <1>8 DEF TxDoneClear, TxDoneStandby, IsrGoto, lora_set_satandby_mode, SetOpMode
  <2>2. ~edge
    BY <1>2, <2>1 DEF Resting
  <2> QED
    BY <1>1, <1>3, <1>4, <2>1, <2>2 DEF RestView, Unseen, InChip
<1>9. ASSUME NEW t \in Callbacks, RxDoneSpawn(t, "rx_f") \/ TxDoneSpawn(t, "receive")
      PROVE  Unseen
  <2>0. t \in Threads
    BY DEF Callbacks
  <2>1. PICK to \in {"rx_f", "receive"} :
          /\ pc' = [pc EXCEPT ![t] = to]
          /\ to = "rx_f" => isrPc = "rx_spawn" /\ rxBuf' = rxBuf
          /\ to = "receive" => isrPc = "tx_spawn"
    BY <1>9 DEF RxDoneSpawn, TxDoneSpawn, At, IsrGoto, bufVars
  <2>2. pc'[t] = to
    BY <1>0, <2>0, <2>1 DEF TypeOK
  <2>3. ActiveView(t)'
    BY <2>0, <2>2 DEF View
  <2>4. ~edge
    BY <1>2, <2>1 DEF Resting
  <2>5. Answer' = NoData /\ Reboots' = Reboots
    BY <1>1, <1>3, <2>2, <2>3 DEF ActiveView, AnswerView, InBuf, RestView, Deciding
  <2>6. Heard' = Heard
    BY <1>3, <2>1, <2>2, <2>3, <2>4 DEF ActiveView, RestView, ToServe, InChip
  <2> QED
    BY <1>1, <1>3, <2>5, <2>6 DEF Unseen
<1> QED
  BY <1>0, <1>5, <1>6, <1>7, <1>8, <1>9 DEF RxDone, TxDone

\* A frame that raises the interrupt is heard, and only then: another one comes while
\* the receiver is being stopped and is lost (hybrid_gateway.cpp:73).
LEMMA HearSeen ==
  ASSUME AllInv, View, AllInv', View', ~Overlap, NEW p \in Packets, Hear(p)
  PROVE  GS!Hear \/ Unseen
<1>0. /\ mode = "RXCONT" /\ fifo' = p /\ ~edge /\ isrPc = "idle"
      /\ UNCHANGED <<mode, isr, isrPc, rxBuf, txBuf, pc, air, rcount, vcount, data, reply>>
  BY DEF Hear, Quiet, ChipReceive, bufVars, dbVars, localVars
<1>1. TypeOK /\ TokenInv /\ TokenInv' /\ Streak' = Streak
  BY <1>0, SameStreak DEF AllInv, TypeInv
<1>2. CASE \A t \in Threads : pc[t] = "none"
  <2>1. RestView /\ RestView' /\ Resting'
    BY <1>0, <1>1, <1>2 DEF View, TokenInv
  <2>2. Heard = NoData /\ Answer = NoData /\ Answer' = NoData /\ Reboots' = Reboots
    BY <1>0, <2>1 DEF RestView, InChip
  <2>3. CASE edge' /\ isr = "rx"
    <3>1. Heard' = p
      BY <1>0, <2>1, <2>3 DEF RestView, InChip
    <3> QED
      BY <1>0, <1>1, <2>2, <3>1 DEF GS!Hear, GS!Packets, Packets
  <2>4. CASE ~(edge' /\ isr = "rx")
    BY <1>0, <1>1, <2>1, <2>2, <2>4 DEF RestView, InChip, Unseen
  <2> QED
    BY <2>3, <2>4
<1>3. ASSUME NEW t \in Callbacks, pc[t] # "none"
      PROVE  Unseen
  <2>1. ActiveView(t) /\ ActiveView(t)'
    BY <1>0, <1>3 DEF View
  <2>2. \A m : Deciding(t, m)' <=> Deciding(t, m)
    BY <1>0 DEF Deciding, OverLimit, getErrorCount, Mac
  <2>3. OverLimit(Mac(t))' = OverLimit(Mac(t))
    BY <1>0 DEF OverLimit, getErrorCount, Mac
  <2>4. Answer' = Answer
    BY <1>0, <2>1, <2>3 DEF ActiveView, AnswerView
  <2> QED
    BY <1>0, <1>1, <2>1, <2>2, <2>4 DEF ActiveView, Unseen
<1>4. CASE pc[Main] # "none"
  BY <1>0, <1>1, <1>4 DEF View, MainView, Unseen
<1> QED
  BY <1>2, <1>3, <1>4 DEF Callbacks

\* What the chip radiates is the answer, once (lora.cpp:125-147).
LEMMA RadiateSeen ==
  ASSUME AllInv, View, AllInv', View', Faults \subseteq {"connect"}, Transmitted
  PROVE  GS!Radiate
<1>0. /\ mode = "TX" /\ mode' = "STDBY" /\ air' = fifo
      /\ UNCHANGED <<isr, isrPc, pc, rcount, vcount>>
  BY DEF Transmitted, ChipTxDone, gwVars, dbVars
<1>1. /\ TypeOK /\ TokenInv /\ FrameInv /\ ReplyMatches /\ up /\ NoFault
      /\ rxBuf \in Packets /\ rxBuf # NoData
  BY <1>0, NoDataAssumption DEF AllInv, TypeInv, DataInv, ServiceInv, NoFault
<1>2. \A t \in Threads : pc[t] = "none"
  BY <1>0, <1>1, ActiveNotTX DEF AllInv, DataInv
<1>3. isrPc = "idle" /\ isr = "tx"
  <2>1. Resting
    BY <1>1, <1>2 DEF TokenInv
  <2>2. isrPc = "idle"
    BY <1>0, <1>1, <2>1 DEF Resting, RxRaised, TxRaised, Sleepy, TypeOK, ModemTypeOK, IsrLabels
  <2>3. ~edge
    BY <1>0, <2>1, <2>2 DEF Resting, RxRaised, TxRaised, Sleepy
  <2> QED
    BY <1>0, <1>1, <2>1, <2>2, <2>3 DEF Resting, AtRest, Deaf, Sleepy, Listening, Transmitting
<1>4. RestView /\ RestView'
  BY <1>0, <1>2 DEF View
<1>5. Answer = fifo /\ fifo # NoData
  <2>1. fifo = DueReply
    BY <1>0, <1>1 DEF ReplyMatches, DueReply
  <2>2. DueReply \in Replies
    BY <1>1 DEF DueReply, Replies, Packets
  <2> QED
    BY <1>0, <1>4, <2>1, <2>2, NoDataAssumption DEF RestView
<1>6. Heard = NoData /\ Heard' = NoData /\ Answer' = NoData /\ Reboots' = Reboots
  BY <1>0, <1>3, <1>4 DEF RestView, InChip
<1> QED
  BY <1>0, <1>5, <1>6, SameStreak DEF GS!Radiate

-----------------------------------------------------------------------------
(* Every step maps to a step of the service or to none.                     *)

\* Every step of the gateway is one of the service, seen through the views, or none:
\* hearing at the interrupt, serving with rx_f, radiating with the mode of LoRa_send.
LEMMA StepImplements ==
  ASSUME ~Overlap, Faults \subseteq {"connect"}
  PROVE  AllInv /\ View /\ AllInv' /\ View' /\ [Next]_vars => [GS!Next]_(GS!service)
<1> SUFFICES ASSUME AllInv, View, AllInv', View', [Next]_vars
             PROVE  GS!Next \/ Unseen
  BY DEF Unseen, GS!service
<1>1. ASSUME NEW t \in Threads, ThreadStep(t)
      PROVE  GS!Next \/ Unseen
  <2>1. CASE RxCrc(t) /\ rxCrc
    BY <2>1, RxDamaged DEF GS!Next, GS!Serve
  <2>2. CASE RxValid(t) \/ RxInvalid(t)
    BY <2>2, RxServesValid, RxServesInvalid DEF GS!Next, GS!Serve
  <2>3. ~RxThrows(t)
    BY NeverDies
  <2> QED
    BY <1>1, <2>1, <2>2, <2>3, RxPrepares, RxRegisters, RxMarks, RxReports, DriverUnseen
       DEF ThreadStep, rx_f
<1>2. CASE NbStep \/ UNCHANGED vars
  <2>1. UNCHANGED <<modemVars, dbVars, localVars>>
    BY <1>2 DEF NbStep, NbConnect, NbRead, NbWrite, nbRest, vars
  <2> QED
    BY <2>1 DEF Unseen, modemVars, chipVars, pinVars, bufVars, dbVars, localVars, Streak,
       Reboots, Heard, Answer, InChip, InBuffer, Busy, AnswerOf, Deciding, OverLimit,
       getErrorCount, Mac
<1>3. CASE Environment
  BY <1>3, HearSeen, RadiateSeen DEF Environment, GS!Next
<1> QED
  BY <1>1, <1>2, <1>3, InterruptUnseen, NeverDies DEF Next

\* The gateway implements its service: while pigpio, SPI and the server's connection
\* work and frames do not overlap, every frame heard is served once, by the streak of
\* its own sensor, and its answer is the next thing radiated (hybrid_gateway.cpp:71-152).
THEOREM ImplementsService ==
  ASSUME ~Overlap, Faults \subseteq {"connect"}
  PROVE  Spec => ServiceSafety
<1>1. Init => GS!Init
  <2> SUFFICES ASSUME Init PROVE GS!Init
    OBVIOUS
  <2>1. AllInv
    BY InitTypeInv, InitToken, InitData
       DEF AllInv, Init, Boot, ModemInit, BootPc, ServiceInv, Callbacks, RxLabels, InBuf
  <2>2. MainView
    BY <2>1, Views, GatewayAssumption DEF View, Init, Boot, BootPc
  <2> QED
    BY <2>2 DEF MainView, GS!Init, Init, Boot, ModemInit, DbInit, Streak
<1>2. Spec => []AllInv
  BY ServiceAlways
<1> QED
  BY <1>1, <1>2, Views, StepImplements, PTL DEF Spec, ServiceSafety
=============================================================================
