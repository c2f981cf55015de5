------------------------- MODULE HybridGateway_proof -------------------------
(***************************************************************************)
(* Proofs about HybridGateway, for every set of sensors, threads, handles   *)
(* and faults and every limit and capacity.                                 *)
(***************************************************************************)
EXTENDS GatewayInvariant, TLAPS

\* A gateway that has just been started is well typed, its buffers untouched.
LEMMA InitTypeInv == Init => TypeInv
<1> SUFFICES ASSUME Init PROVE TypeInv
  OBVIOUS
<1>1. ModemTypeOK(Packets, Replies)
  BY ModemAssumption DEF Init, Boot, ModemInit, ModemTypeOK, Modes, Frames, IsrLabels
<1>2. DbTypeOK
  BY DEF Init, Boot, DbInit, DbTypeOK, Status, Absent
<1>3. pc \in [Threads -> Labels]
  BY DEF Init, Boot, BootPc, Labels, DriverLabels
<1>4. /\ up \in BOOLEAN
      /\ launches \in 0 .. MaxLaunches
      /\ frames \in 0 .. MaxFrames
      /\ data \in [Threads -> Packets \cup {NoData}]
      /\ pipe \in Seq(NB_Data)
      /\ Len(pipe) <= PipeCapacity
      /\ nbPc \in {"none", "connect", "read", "write"}
      /\ nbBuf \in NB_Data \cup {NoData}
      /\ sock \in {"none", "server", "stdout"}
  BY GatewayAssumption DEF Init, Boot
<1>5. reply \in [Threads -> Replies]
  BY DEF Init, Boot, Replies, ZeroReply
<1>6. info \in [Threads -> GatewayData]
  BY DEF Init, Boot, NoInfo, GatewayData
<1>7. \A t \in Threads : pc[t] \notin HasFrame \cup HasData
  BY DEF Init, Boot, ModemInit, BootPc, HasFrame, HasData
<1> QED
  BY <1>1, <1>2, <1>3, <1>4, <1>5, <1>6, <1>7 DEF TypeInv, TypeOK, Init, Boot, ModemInit

-----------------------------------------------------------------------------
(* What a driver step does to the types: the buffer that is read stays, the *)
(* thread goes on to a driver label, everything outside the modem stays.    *)

DriverShape(t) ==
    /\ ModemTypeOK(Packets, Replies)'
    /\ rxBuf' = rxBuf /\ isrPc' = isrPc
    /\ \E to \in DriverLabels : pc' = [pc EXCEPT ![t] = to]

\* The four steps of LoRa_end (lora.cpp:234-243).
LEMMA EndShape ==
  ASSUME ModemTypeOK(Packets, Replies), NEW t \in Threads, LoRa_end(t, "begin")
  PROVE  DriverShape(t)
<1> USE DEF ModemTypeOK, DriverShape, DriverLabels, At, chipVars, pinVars, bufVars
<1>1. CASE StopRemoveIsr(t, "end", "end_standby")
  BY <1>1 DEF StopRemoveIsr, lora_remove_dioISR
<1>2. CASE StopStandby(t, "end_standby", "end_close")
  BY <1>2 DEF StopStandby, lora_set_satandby_mode, SetOpMode, Modes
<1>3. CASE EndClose(t)
  BY <1>3 DEF EndClose
<1>4. CASE EndUnset(t, "begin")
  BY <1>4 DEF EndUnset
<1> QED
  BY <1>1, <1>2, <1>3, <1>4 DEF LoRa_end

\* The steps of LoRa_begin, those that fail included (lora.cpp:3-50).
LEMMA BeginShape ==
  ASSUME ModemTypeOK(Packets, Replies), NEW t \in Threads,
         LoRa_begin(t, AfterBegin(t)) \/ BeginFails(t)
  PROVE  DriverShape(t)
<1> USE DEF ModemTypeOK, DriverShape, DriverLabels, At, chipVars, pinVars, bufVars
<1>0. AfterBegin(t) \in {"receive", "send"}
  BY DEF AfterBegin
<1>1. CASE BeginReset(t)
  <2>1. mode' \in Modes
    BY <1>1 DEF BeginReset, lora_reset, Modes
  <2>2. dio' = "rx" /\ irq' = {} /\ edge' \in BOOLEAN
    BY <1>1 DEF BeginReset, lora_reset, DriveDio0
  <2>3. UNCHANGED <<fifo, air, isr, isrPc, open, spid, bufVars>> /\ gpio' = TRUE
    BY <1>1 DEF BeginReset
  <2>4. pc' = [pc EXCEPT ![t] = "open"]
    BY <1>1 DEF BeginReset
  <2>5. ModemTypeOK(Packets, Replies)'
    BY <2>1, <2>2, <2>3
  <2> QED
    BY <2>3, <2>4, <2>5, Zenon
<1>2. CASE BeginOpen(t)
  BY <1>2 DEF BeginOpen
<1>3. CASE BeginConfigure(t, AfterBegin(t))
  BY <1>0, <1>3 DEF BeginConfigure, SetOpMode, Modes
<1>4. CASE BeginInitFails(t, AfterBegin(t))
  BY <1>0, <1>4 DEF BeginInitFails
<1>5. CASE BeginOpenFails(t, AfterBegin(t))
  BY <1>0, <1>5 DEF BeginOpenFails
<1> QED
  BY <1>1, <1>2, <1>3, <1>4, <1>5 DEF LoRa_begin, BeginFails

\* The steps of LoRa_send (lora.cpp:125-147).
LEMMA SendShape ==
  ASSUME ModemTypeOK(Packets, Replies), NEW t \in Threads, LoRa_send(t)
  PROVE  DriverShape(t)
<1> USE DEF ModemTypeOK, DriverShape, DriverLabels, At, chipVars, pinVars, bufVars
<1>1. CASE SendStandby(t)
  BY <1>1 DEF SendStandby, lora_set_satandby_mode, SetOpMode, Modes
<1>2. CASE SendWriteFifo(t)
  BY <1>2 DEF SendWriteFifo, lora_write_fifo, Frames
<1>3. CASE SendMapDio(t)
  BY <1>3 DEF SendMapDio, lora_set_dio_tx_mapping, SetDio, DriveDio0
<1>4. CASE SendSetIsr(t)
  BY <1>4 DEF SendSetIsr, lora_set_txdone_dioISR, SetDioIsr
<1>5. CASE SendTransmit(t)
  BY <1>5 DEF SendTransmit, lora_set_tx_mode, SetOpMode, Modes
<1> QED
  BY <1>1, <1>2, <1>3, <1>4, <1>5 DEF LoRa_send

\* The steps of LoRa_receive (lora.cpp:149-165).
LEMMA ReceiveShape ==
  ASSUME ModemTypeOK(Packets, Replies), NEW t \in Threads, LoRa_receive(t)
  PROVE  DriverShape(t)
<1> USE DEF ModemTypeOK, DriverShape, DriverLabels, At, chipVars, pinVars, bufVars
<1>1. CASE ReceiveStandby(t)
  BY <1>1 DEF ReceiveStandby, lora_set_satandby_mode, SetOpMode, Modes
<1>2. CASE ReceiveMapDio(t)
  BY <1>2 DEF ReceiveMapDio, lora_set_dio_rx_mapping, SetDio, DriveDio0
<1>3. CASE ReceiveSetIsr(t)
  BY <1>3 DEF ReceiveSetIsr, lora_set_rxdone_dioISR, SetDioIsr
<1>4. CASE ReceiveListen(t)
  BY <1>4 DEF ReceiveListen, lora_set_rxcont_mode, SetOpMode, Modes
<1> QED
  BY <1>1, <1>2, <1>3, <1>4 DEF LoRa_receive

\* No driver call made by main or a callback breaks a type.
LEMMA DriverType ==
  ASSUME TypeInv, NEW t \in Threads, Driver(t)
  PROVE  TypeInv'
<1>1. DriverShape(t)
  BY EndShape, BeginShape, SendShape, ReceiveShape DEF Driver, TypeInv, TypeOK
<1>2. UNCHANGED gwVars
  BY DEF Driver
<1>3. PICK to \in DriverLabels : pc' = [pc EXCEPT ![t] = to]
  BY <1>1 DEF DriverShape
<1>4. pc' \in [Threads -> Labels]
  BY <1>3 DEF TypeInv, TypeOK, Labels
<1>5. \A u \in Threads : pc'[u] \in HasFrame \cup HasData => pc'[u] = pc[u]
  BY <1>3 DEF TypeInv, TypeOK, HasFrame, HasData, DriverLabels
<1>6. DbTypeOK'
  BY <1>2 DEF gwVars, dbVars, DbTypeOK, TypeInv, TypeOK
<1>7. TypeOK'
  BY <1>1, <1>2, <1>4, <1>6 DEF DriverShape, gwVars, localVars, nbVars, TypeInv, TypeOK
<1> QED
  BY <1>1, <1>2, <1>5, <1>7 DEF DriverShape, gwVars, localVars, TypeInv

-----------------------------------------------------------------------------
(* The steps of rx_f.                                                       *)

\* RxGoto keeps the modem and the process; what is left is the rest of TypeOK.
LEMMA RxGotoType ==
  ASSUME TypeInv, NEW t \in Threads, NEW from, NEW to \in Labels, RxGoto(t, from, to)
  PROVE  /\ ModemTypeOK(Packets, Replies)'
         /\ pc' = [pc EXCEPT ![t] = to] /\ pc[t] = from
         /\ pc' \in [Threads -> Labels]
         /\ UNCHANGED <<isrPc, rxBuf, up, launches, frames>>
  BY DEF RxGoto, At, TypeInv, TypeOK, ModemTypeOK, chipVars, pinVars, bufVars

\* What such a step has to show about the state outside the modem.
RxShape(t) ==
    /\ DbTypeOK'
    /\ data' \in [Threads -> Packets \cup {NoData}]
    /\ reply' \in [Threads -> Replies]
    /\ info' \in [Threads -> GatewayData]
    /\ pipe' \in Seq(NB_Data) /\ Len(pipe') <= PipeCapacity
    /\ UNCHANGED <<nbPc, nbBuf, sock>>
    /\ \A u \in Threads \ {t} : data'[u] = data[u]

\* A step of rx_f between two labels that leaves the registry's types intact.
LEMMA RxShapeType ==
  ASSUME TypeInv, NEW t \in Threads, NEW from, NEW to \in Labels, RxGoto(t, from, to),
         RxShape(t), to \in HasFrame => from \in HasFrame,
         to \in HasData => data'[t] \in Packets
  PROVE  TypeInv'
<1>1. /\ ModemTypeOK(Packets, Replies)'
      /\ pc' = [pc EXCEPT ![t] = to] /\ pc[t] = from
      /\ pc' \in [Threads -> Labels]
      /\ UNCHANGED <<isrPc, rxBuf, up, launches, frames>>
  BY RxGotoType
<1>2. TypeOK'
  BY <1>1 DEF RxShape, TypeInv, TypeOK
<1> QED
  BY <1>1, <1>2 DEF RxShape, TypeInv, TypeOK

\* A step of rx_f that touches the registry only.
LEMMA RxDbType ==
  ASSUME TypeInv, NEW t \in Threads, UNCHANGED <<localVars, nbVars>>, DbTypeOK'
  PROVE  RxShape(t)
  BY DEF RxShape, TypeInv, TypeOK, localVars, nbVars

\* The CRC check chooses between the -1 answer and the copy (hybrid_gateway.cpp:83-92).
LEMMA RxCrcType ==
  ASSUME TypeInv, NEW t \in Threads, RxCrc(t)
  PROVE  TypeInv'
<1>1. RxShape(t)
  BY DEF RxCrc, RxShape, TypeInv, TypeOK, Replies, DbTypeOK, dbVars, nbVars
<1>2. CASE rxCrc
  BY <1>1, <1>2, RxShapeType DEF RxCrc, Labels, RxLabels, HasFrame, HasData
<1>3. CASE ~rxCrc
  BY <1>1, <1>3, RxShapeType DEF RxCrc, Labels, RxLabels, HasFrame, HasData
<1> QED
  BY <1>2, <1>3

\* The copy of the shared buffer is a frame (hybrid_gateway.cpp:92).
LEMMA RxCopyType ==
  ASSUME TypeInv, NEW t \in Threads, RxCopy(t)
  PROVE  TypeInv'
<1>1. rxBuf \in Packets
  BY DEF RxCopy, RxGoto, At, TypeInv, HasFrame
<1>2. RxShape(t) /\ data'[t] = rxBuf
  BY <1>1 DEF RxCopy, RxShape, TypeInv, TypeOK, DbTypeOK, dbVars, nbVars
<1> QED
  BY <1>1, <1>2, RxShapeType DEF RxCopy, Labels, RxLabels, HasFrame, HasData

\* The steps between the copy and the record hold a frame.
LEMMA MacType ==
  ASSUME TypeInv, NEW t \in Threads, NEW from \in HasData, NEW to, RxGoto(t, from, to)
  PROVE  /\ data[t] \in Packets
         /\ Mac(t) \in Macs
         /\ data[t].count \in Counts
  BY DEF RxGoto, At, TypeInv, Mac, Packets

\* _processDBbyStatus branches on the status it finds (hybrid_gateway.cpp:33-46).
LEMMA RxQueryType ==
  ASSUME TypeInv, NEW t \in Threads, RxQuery(t)
  PROVE  TypeInv'
<1> DEFINE to == CASE query(Mac(t)) = "Newby" -> "save_info"
                   [] query(Mac(t)) = "Bad"   -> "activate"
                   [] query(Mac(t)) = "Good"  -> "validity"
<1>1. RxGoto(t, "query", to) /\ UNCHANGED <<dbVars, localVars, nbVars>>
  BY DEF RxQuery
<1>2. data[t] \in Packets /\ Mac(t) \in Macs
  BY <1>1, MacType DEF HasData
<1>3. to \in {"save_info", "activate", "validity"}
  BY <1>2 DEF query, TypeInv, TypeOK, DbTypeOK, Status
<1>4. RxShape(t)
  BY <1>1, RxDbType DEF dbVars, DbTypeOK, TypeInv, TypeOK
<1>5. data' = data
  BY <1>1 DEF localVars
<1> HIDE DEF to
<1> QED
  BY <1>1, <1>2, <1>3, <1>4, <1>5, RxShapeType DEF Labels, RxLabels, HasFrame, HasData

\* Registering and reactivating a sensor keep the maps typed (DataBase.cpp:54-60, 79-90).
LEMMA RxSaveType ==
  ASSUME TypeInv, NEW t \in Threads, RxSave(t) \/ RxActivate(t)
  PROVE  TypeInv'
<1>0. data' = data /\ UNCHANGED <<localVars, nbVars>>
  BY DEF RxSave, RxActivate, localVars
<1>1. CASE RxGoto(t, "save_info", "save_count") /\ saveClientInfo(Mac(t))
  <2>1. data[t] \in Packets
    BY <1>1, MacType DEF HasData
  <2>2. RxShape(t)
    BY <1>0, <1>1, RxDbType DEF saveClientInfo, DbTypeOK, Status, TypeInv, TypeOK
  <2> QED
    BY <1>0, <1>1, <2>1, <2>2, RxShapeType DEF Labels, RxLabels, HasFrame, HasData
<1>2. CASE RxGoto(t, "save_count", "validity") /\ saveClientCount(Mac(t))
  <2>1. data[t] \in Packets
    BY <1>2, MacType DEF HasData
  <2>2. RxShape(t)
    BY <1>0, <1>2, RxDbType DEF saveClientCount, DbTypeOK, TypeInv, TypeOK
  <2> QED
    BY <1>0, <1>2, <2>1, <2>2, RxShapeType DEF Labels, RxLabels, HasFrame, HasData
<1>3. CASE RxGoto(t, "activate", "validity") /\ activate(Mac(t))
  <2>1. data[t] \in Packets
    BY <1>3, MacType DEF HasData
  <2>2. RxShape(t)
    BY <1>0, <1>3, RxDbType DEF activate, DbTypeOK, Status, TypeInv, TypeOK
  <2> QED
    BY <1>0, <1>3, <2>1, <2>2, RxShapeType DEF Labels, RxLabels, HasFrame, HasData
<1> QED
  BY <1>1, <1>2, <1>3 DEF RxSave, RxActivate

\* Counting, resetting and comparing invalid readings (hybrid_gateway.cpp:48-64).
LEMMA RxValidityType ==
  ASSUME TypeInv, NEW t \in Threads, RxValid(t) \/ RxInvalid(t) \/ RxLimit(t)
  PROVE  TypeInv'
<1>0. data' = data /\ UNCHANGED <<localVars, nbVars>>
  BY DEF RxValid, RxInvalid, RxLimit, localVars
<1>1. CASE RxValid(t)
  <2>1. data[t] \in Packets
    BY <1>1, MacType DEF RxValid, HasData
  <2>2. RxShape(t)
    BY <1>0, <1>1, RxDbType DEF RxValid, resetErrorCount, DbTypeOK, TypeInv, TypeOK
  <2> QED
    BY <1>0, <1>1, <2>1, <2>2, RxShapeType DEF RxValid, Labels, RxLabels, HasFrame, HasData
<1>2. CASE RxInvalid(t)
  <2>1. data[t] \in Packets /\ Mac(t) \in Macs
    BY <1>2, MacType DEF RxInvalid, HasData
  <2>2. vcount[Mac(t)] + 1 \in Nat
    <3>1. vcount \in [Macs -> Nat \cup {Absent}]
      BY DEF DbTypeOK, TypeInv, TypeOK
    <3>2. vcount[Mac(t)] \in Nat \cup {Absent}
      BY <2>1, <3>1
    <3> QED
      BY <3>2 DEF Absent
  <2>3. DbTypeOK'
    BY <1>2, <2>2 DEF RxInvalid, increaseErrorCount, DbTypeOK, TypeInv, TypeOK
  <2>4. RxShape(t)
    BY <1>0, <2>3, RxDbType
  <2> QED
    BY <1>0, <1>2, <2>1, <2>4, RxShapeType DEF RxInvalid, Labels, RxLabels, HasFrame, HasData
<1>3. CASE RxLimit(t)
  <2> DEFINE to == IF OverLimit(Mac(t)) THEN "reboot" ELSE "info"
  <2>1. RxGoto(t, "limit", to) /\ to \in {"reboot", "info"}
    BY <1>3 DEF RxLimit
  <2>2. data[t] \in Packets
    BY <2>1, MacType DEF HasData
  <2>3. RxShape(t)
    BY <1>0, <1>3, RxDbType DEF RxLimit, dbVars, DbTypeOK, TypeInv, TypeOK
  <2> HIDE DEF to
  <2> QED
    BY <1>0, <2>1, <2>2, <2>3, RxShapeType DEF Labels, RxLabels, HasFrame, HasData
<1> QED
  BY <1>1, <1>2, <1>3

\* Asking for a reboot keeps counter and reply typed (DataBase.cpp:62-77).
LEMMA RxRebootType ==
  ASSUME TypeInv, NEW t \in Threads, RxReboot(t)
  PROVE  TypeInv'
<1>1. data[t] \in Packets
  BY MacType DEF RxReboot, HasData
<1>2. DbTypeOK'
  <2> DEFINE m == Mac(t)
  <2>1. reboot(m)
    BY DEF RxReboot
  <2>2. DbTypeOK
    BY DEF TypeInv, TypeOK
  <2> HIDE DEF m
  <2>3. CASE status[m] = "Newby"
    BY <2>1, <2>2, <2>3 DEF reboot, DbTypeOK
  <2>4. CASE status[m] # "Newby"
    BY <2>1, <2>2, <2>4 DEF reboot, DbTypeOK, Status
  <2> QED
    BY <2>3, <2>4
<1>3. RxShape(t)
  BY <1>2 DEF RxReboot, RxShape, TypeInv, TypeOK, Replies, nbVars
<1> QED
  BY <1>1, <1>3, RxShapeType DEF RxReboot, Labels, RxLabels, HasFrame, HasData

\* setInfo fills in a status code and a count (DataBase.cpp:177-187).
LEMMA RxInfoType ==
  ASSUME TypeInv, NEW t \in Threads, RxInfo(t)
  PROVE  TypeInv'
<1>1. data[t] \in Packets /\ Mac(t) \in Macs /\ data[t].count \in Counts
  BY MacType DEF RxInfo, HasData
<1>2. setInfo(Mac(t), info[t]) \in GatewayData
  BY <1>1 DEF setInfo, statusToint, GatewayData, TypeInv, TypeOK, DbTypeOK
<1>3. RxShape(t)
  BY <1>1, <1>2 DEF RxInfo, RxShape, TypeInv, TypeOK, Replies, nbVars, dbVars, DbTypeOK
<1> QED
  BY <1>1, <1>3, RxShapeType DEF RxInfo, Labels, RxLabels, HasFrame, HasData

\* The record written is an NB_Data and fits the pipe (hybrid_gateway.cpp:119).
LEMMA RxPipeType ==
  ASSUME TypeInv, NEW t \in Threads, RxPipe(t)
  PROVE  TypeInv'
<1>1. data[t] \in Packets
  BY MacType DEF RxPipe, HasData
<1>2. Record(t) \in NB_Data
  BY <1>1 DEF Record, NB_Data, TypeInv, TypeOK, GatewayData, Replies
<1>3. pipe' \in Seq(NB_Data) /\ Len(pipe') <= PipeCapacity
  BY <1>2, GatewayAssumption DEF RxPipe, TypeInv, TypeOK
<1>4. RxShape(t)
  BY <1>3 DEF RxPipe, RxShape, TypeInv, TypeOK, localVars, dbVars, DbTypeOK
<1> QED
  BY <1>1, <1>4, RxShapeType DEF RxPipe, Labels, RxLabels, HasFrame, HasData

\* The answer is left in the transmit buffer (hybrid_gateway.cpp:146-147).
LEMMA RxReplyType ==
  ASSUME TypeInv, NEW t \in Threads, RxReply(t)
  PROVE  TypeInv'
<1>1. ModemTypeOK(Packets, Replies)' /\ isrPc' = isrPc /\ rxBuf' = rxBuf
  BY DEF RxReply, At, TypeInv, TypeOK, ModemTypeOK, chipVars, pinVars
<1>2. pc' = [pc EXCEPT ![t] = "end"] /\ pc' \in [Threads -> Labels]
  BY DEF RxReply, At, TypeInv, TypeOK, Labels, DriverLabels
<1>3. DbTypeOK'
  BY DEF RxReply, dbVars, DbTypeOK, TypeInv, TypeOK
<1>4. ZeroReply \in Replies /\ NoInfo \in GatewayData
  BY DEF ZeroReply, Replies, NoInfo, GatewayData
<1>5. TypeOK'
  BY <1>1, <1>2, <1>3, <1>4 DEF RxReply, nbVars, TypeInv, TypeOK
<1> QED
  BY <1>1, <1>2, <1>5 DEF RxReply, TypeInv, TypeOK, HasFrame, HasData

\* Whatever kills the process, what is left is well typed.
LEMMA TerminateType ==
  ASSUME TypeInv, Terminate
  PROVE  TypeInv'
<1>1. ModemTypeOK(Packets, Replies)'
  BY DEF Terminate, TypeInv, TypeOK, ModemTypeOK, IsrLabels, chipVars
<1>2. DbTypeOK'
  BY DEF Terminate, DbLost, DbTypeOK, Status, Absent
<1>3. ZeroReply \in Replies /\ NoInfo \in GatewayData
  BY DEF ZeroReply, Replies, NoInfo, GatewayData
<1>4. pc' \in [Threads -> Labels]
  BY DEF Terminate, Labels, DriverLabels
<1>5. pipe' \in Seq(NB_Data) /\ Len(pipe') <= PipeCapacity
  BY GatewayAssumption DEF Terminate
<1>6. TypeOK'
  BY <1>1, <1>2, <1>3, <1>4, <1>5 DEF Terminate, TypeInv, TypeOK
<1> QED
  BY <1>6 DEF Terminate, TypeInv, HasFrame, HasData

\* Stopping the receiver from rx_f (hybrid_gateway.cpp:73, lora.cpp:240-243).
LEMMA RxStopType ==
  ASSUME TypeInv, NEW t \in Threads, RxStop(t)
  PROVE  TypeInv'
<1>1. ModemTypeOK(Packets, Replies)' /\ isrPc' = isrPc /\ rxBuf' = rxBuf
  BY DEF RxStop, StopRemoveIsr, StopStandby, lora_remove_dioISR,
         lora_set_satandby_mode, SetOpMode, At, Modes, TypeInv, TypeOK,
         ModemTypeOK, chipVars, pinVars, bufVars
<1>2. /\ pc[t] \in HasFrame
      /\ \E to \in HasFrame : pc' = [pc EXCEPT ![t] = to]
      /\ HasFrame \subseteq Labels
      /\ HasFrame \cap HasData = {}
  BY DEF RxStop, StopRemoveIsr, StopStandby, At, HasFrame, HasData, Labels, RxLabels
<1>3. UNCHANGED gwVars /\ DbTypeOK'
  BY DEF RxStop, gwVars, dbVars, DbTypeOK, TypeInv, TypeOK
<1>4. pc' \in [Threads -> Labels]
  BY <1>2 DEF TypeInv, TypeOK
<1>5. TypeOK'
  BY <1>1, <1>3, <1>4 DEF gwVars, localVars, nbVars, TypeInv, TypeOK
<1> QED
  BY <1>1, <1>2, <1>3, <1>5 DEF TypeInv, TypeOK, gwVars, localVars

\* Every step of main and of the callbacks keeps TypeInv.
LEMMA ThreadType ==
  ASSUME TypeInv, NEW t \in Threads, ThreadStep(t)
  PROVE  TypeInv'
<1>1. CASE RxThrows(t)
  BY <1>1, TerminateType DEF RxThrows
<1> QED
  BY <1>1, DriverType, RxStopType, RxCrcType, RxCopyType, RxQueryType, RxSaveType,
     RxValidityType, RxRebootType, RxInfoType, RxPipeType, RxReplyType
     DEF ThreadStep, rx_f

-----------------------------------------------------------------------------
(* The interrupt thread, the client, the environment.                       *)

\* A handler that stays on the interrupt thread: the threads do not move, and the
\* shared buffer holds a frame from rx_crc on.
LEMMA HandlerShape ==
  ASSUME TypeInv, UNCHANGED gwVars, ModemTypeOK(Packets, Replies)', pc' = pc,
         rxBuf' \in Packets \/ (rxBuf' = rxBuf /\ (isrPc' = isrPc \/ rxBuf \in Packets))
                            \/ (rxBuf' = rxBuf /\ isrPc' \in {"idle", "rx_read", "tx_clear",
                                                              "tx_standby", "tx_spawn"})
  PROVE  TypeInv'
<1>1. DbTypeOK' /\ UNCHANGED <<up, launches, frames, data, reply, info, pipe, nbPc, nbBuf, sock>>
  BY DEF gwVars, dbVars, localVars, nbVars, DbTypeOK, TypeInv, TypeOK
<1>2. TypeOK'
  BY <1>1 DEF TypeInv, TypeOK
<1> QED
  BY <1>1, <1>2 DEF TypeInv

\* The callback thread starts at rx_f or in LoRa_receive (lora.cpp:205, 224).
LEMMA SpawnType ==
  ASSUME TypeInv, UNCHANGED gwVars, NEW t \in Threads, NEW to \in {"rx_f", "receive"},
         At(t, "none", to), isrPc' = "idle",
         UNCHANGED <<chipVars, gpio, isr, edge, open, spid, bufVars>>,
         to = "rx_f" => rxBuf \in Packets
  PROVE  TypeInv'
<1>1. DbTypeOK' /\ UNCHANGED <<up, launches, frames, data, reply, info, pipe, nbPc, nbBuf, sock>>
  BY DEF gwVars, dbVars, localVars, nbVars, DbTypeOK, TypeInv, TypeOK
<1>2. ModemTypeOK(Packets, Replies)' /\ rxBuf' = rxBuf
  BY DEF chipVars, bufVars, IsrLabels, TypeInv, TypeOK, ModemTypeOK
<1>3. pc' = [pc EXCEPT ![t] = to] /\ pc' \in [Threads -> Labels]
  BY DEF At, TypeInv, TypeOK, Labels, RxLabels, DriverLabels
<1>4. TypeOK'
  BY <1>1, <1>2, <1>3 DEF TypeInv, TypeOK
<1> QED
  BY <1>1, <1>2, <1>3, <1>4 DEF TypeInv, TypeOK, HasFrame, HasData

\* Every step of rxDoneISRf and txDoneISRf keeps TypeInv (lora.cpp:187-227).
LEMMA InterruptType ==
  ASSUME TypeInv, Interrupt
  PROVE  TypeInv'
<1> USE DEF chipVars, bufVars
<1>0. CASE RxDoneReadFails
  BY <1>0, TerminateType DEF RxDoneReadFails
<1> SUFFICES ASSUME IsrEnter \/ RxDone \/ TxDone, UNCHANGED gwVars
             PROVE  TypeInv'
  BY <1>0 DEF Interrupt
<1>m. ModemTypeOK(Packets, Replies)
  BY DEF TypeInv, TypeOK
<1>2. CASE IsrEnter
  <2>1. isrPc' \in {"idle", "rx_read", "tx_clear"}
    BY <1>2 DEF IsrEnter
  <2>2. ModemTypeOK(Packets, Replies)' /\ pc' = pc /\ rxBuf' = rxBuf
    BY <1>2, <2>1, <1>m DEF IsrEnter, IsrLabels, ModemTypeOK
  <2> QED
    BY <2>1, <2>2, HandlerShape
<1>3. CASE RxDoneRead(FifoRead)
  <2>1. rxBuf' \in Packets
    BY <1>3 DEF RxDoneRead, FifoRead, Corrupted
  <2>2. ModemTypeOK(Packets, Replies)' /\ pc' = pc
    BY <1>3, <2>1, <1>m DEF RxDoneRead, IsrGoto, IsrLabels, ModemTypeOK
  <2> QED
    BY <2>1, <2>2, HandlerShape
<1>4. CASE RxDoneCrc
  <2>1. rxCrc' \in BOOLEAN
    BY <1>4 DEF RxDoneCrc
  <2> QED
    BY <1>4, <2>1, <1>m, HandlerShape DEF RxDoneCrc, IsrGoto, IsrLabels, ModemTypeOK, TypeInv
<1>5. CASE RxDoneClear \/ TxDoneClear
  <2>1. ModemTypeOK(Packets, Replies)' /\ pc' = pc /\ rxBuf' = rxBuf
    BY <1>5, <1>m DEF RxDoneClear, TxDoneClear, lora_reset_irq_flags, DriveDio0,
                      IsrGoto, IsrLabels, ModemTypeOK
  <2>2. rxBuf \in Packets \/ isrPc' = "tx_standby"
    BY <1>5 DEF RxDoneClear, TxDoneClear, IsrGoto, TypeInv
  <2> QED
    BY <2>1, <2>2, HandlerShape
<1>6. CASE TxDoneStandby
  <2>1. ModemTypeOK(Packets, Replies)' /\ pc' = pc /\ rxBuf' = rxBuf /\ isrPc' = "tx_spawn"
    BY <1>6, <1>m DEF TxDoneStandby, lora_set_satandby_mode, SetOpMode, Modes,
                      IsrGoto, IsrLabels, ModemTypeOK
  <2> QED
    BY <2>1, HandlerShape
<1>7. ASSUME NEW t \in Callbacks, RxDoneSpawn(t, "rx_f")
      PROVE  TypeInv'
  BY <1>7, SpawnType DEF RxDoneSpawn, IsrGoto, Callbacks, TypeInv
<1>8. ASSUME NEW t \in Callbacks, TxDoneSpawn(t, "receive")
      PROVE  TypeInv'
  BY <1>8, SpawnType DEF TxDoneSpawn, IsrGoto, Callbacks
<1> QED
  BY <1>2, <1>3, <1>4, <1>5, <1>6, <1>7, <1>8 DEF RxDone, TxDone

\* Every step of becomeNBIotClient keeps TypeInv (hybrid_gateway.cpp:161-168).
LEMMA NbType ==
  ASSUME TypeInv, NbStep
  PROVE  TypeInv'
<1>1. ModemTypeOK(Packets, Replies)' /\ DbTypeOK' /\ UNCHANGED <<isrPc, rxBuf, pc, up, launches, frames, data, reply, info>>
  BY DEF NbStep, NbConnect, NbRead, NbWrite, nbRest, modemVars, chipVars, pinVars,
         bufVars, dbVars, localVars, TypeInv, TypeOK, ModemTypeOK, DbTypeOK
<1>2. pipe' \in Seq(NB_Data) /\ Len(pipe') <= PipeCapacity
  <2>1. CASE NbRead
    <3>1. pipe \in Seq(NB_Data) /\ pipe # <<>> /\ pipe' = Tail(pipe)
      BY <2>1 DEF NbRead, TypeInv, TypeOK
    <3>2. pipe' \in Seq(NB_Data) /\ Len(pipe') = Len(pipe) - 1
      BY <3>1
    <3>3. Len(pipe) \in Nat /\ Len(pipe) <= PipeCapacity /\ PipeCapacity \in Nat
      BY <3>1, GatewayAssumption DEF TypeInv, TypeOK
    <3> QED
      BY <3>2, <3>3
  <2>2. CASE NbConnect \/ NbWrite
    BY <2>2 DEF NbConnect, NbWrite, TypeInv, TypeOK
  <2> QED
    BY <2>1, <2>2 DEF NbStep
<1>3. nbBuf' \in NB_Data \cup {NoData}
  BY DEF NbStep, NbConnect, NbRead, NbWrite, TypeInv, TypeOK
<1>4. nbPc' \in {"read", "write"} /\ sock' \in {"none", "server", "stdout"}
  BY DEF NbStep, NbConnect, NbRead, NbWrite, TypeInv, TypeOK
<1> QED
  BY <1>1, <1>2, <1>3, <1>4 DEF TypeInv, TypeOK

\* A frame received or radiated by the chip keeps TypeInv.
LEMMA EnvironmentType ==
  ASSUME TypeInv, Environment
  PROVE  TypeInv'
<1>0. frames' \in 0 .. MaxFrames
  BY GatewayAssumption DEF Environment, Transmitted, Hear, gwVars, TypeInv, TypeOK
<1>1. DbTypeOK' /\ UNCHANGED <<isrPc, rxBuf, pc, up, launches, data, reply, info,
                               pipe, nbPc, nbBuf, sock>>
  BY DEF Environment, Transmitted, Hear, ChipReceive, ChipTxDone, gwVars, dbVars,
         localVars, nbVars, bufVars, TypeInv, TypeOK, DbTypeOK
<1>2. CASE Transmitted
  <2>1. ModemTypeOK(Packets, Replies)'
    BY <1>2 DEF Transmitted, ChipTxDone, DriveDio0, Modes, Flags, bufVars, TypeInv,
                TypeOK, ModemTypeOK
  <2> QED
    BY <1>0, <1>1, <2>1 DEF TypeInv, TypeOK
<1>3. ASSUME NEW p \in Packets, Hear(p)
      PROVE  TypeInv'
  <2>1. ModemTypeOK(Packets, Replies)'
    BY <1>3 DEF Hear, ChipReceive, DriveDio0, Frames, Flags, bufVars, TypeInv,
                TypeOK, ModemTypeOK
  <2> QED
    BY <1>0, <1>1, <2>1 DEF TypeInv, TypeOK
<1> QED
  BY <1>2, <1>3 DEF Environment

\* So does starting the program again.
LEMMA LaunchType ==
  ASSUME TypeInv, Launch
  PROVE  TypeInv'
<1>1. ModemTypeOK(Packets, Replies)' /\ DbTypeOK' /\ UNCHANGED <<isrPc, rxBuf, data, reply, info, frames, pipe, nbBuf, sock>>
  BY DEF Launch, chipVars, pinVars, bufVars, dbVars, localVars, TypeInv, TypeOK,
         ModemTypeOK, DbTypeOK
<1>2. pc' \in [Threads -> Labels] /\ \A t \in Threads : pc'[t] \notin HasFrame \cup HasData
  BY DEF Launch, BootPc, Labels, DriverLabels, HasFrame, HasData
<1>3. launches' \in 0 .. MaxLaunches
  BY GatewayAssumption DEF Launch, TypeInv, TypeOK
<1> QED
  BY <1>1, <1>2, <1>3 DEF Launch, TypeInv, TypeOK

\* So does a step of something else.
LEMMA StutterType ==
  ASSUME TypeInv, UNCHANGED vars
  PROVE  TypeInv'
  BY DEF vars, modemVars, chipVars, pinVars, bufVars, dbVars, localVars, nbVars,
         TypeInv, TypeOK, ModemTypeOK, DbTypeOK

\* TypeInv is inductive.
LEMMA StepType == TypeInv /\ [Next]_vars => TypeInv'
<1> SUFFICES ASSUME TypeInv, [Next]_vars PROVE TypeInv'
  OBVIOUS
<1>1. CASE NbPeerGone
  BY <1>1, TerminateType DEF NbPeerGone
<1> QED
  BY <1>1, ThreadType, InterruptType, NbType, EnvironmentType, LaunchType, StutterType
     DEF Next

\* TypeOK: with all interleavings and faults, no variable leaves its type; in
\* particular rx_f never computes with a frame that was not read (hybrid_gateway.cpp:71-152).
THEOREM TypeCorrect == Spec => []TypeOK
<1>1. TypeInv => TypeOK
  BY DEF TypeInv
<1> QED
  BY InitTypeInv, StepType, <1>1, PTL DEF Spec

-----------------------------------------------------------------------------
(* The token discipline.  First the thread that has the token: the other    *)
(* threads, the pin and the interrupt thread are quiet around it.           *)

\* A thread that is somewhere is the only one that is (OneDriver).
LEMMA Alone ==
  ASSUME TokenInv, NEW t \in Threads, pc[t] # "none"
  PROVE  /\ ~edge /\ isrPc = "idle" /\ up
         /\ \A u \in Threads \ {t} : pc[u] = "none"
         /\ Stage(t)
  BY DEF TokenInv, OneDriver

\* A step of the thread that keeps the token.
LEMMA KeepToken ==
  ASSUME TypeOK, TokenInv, NEW t \in Threads,
         NEW to \in Labels \ {"none"}, pc[t] # "none", pc' = [pc EXCEPT ![t] = to],
         ~edge', isrPc' = "idle", up' = up,
         HandlesOwned', isr' # "none" => gpio', t = Main => to \in MainLabels, Stage(t)'
  PROVE  TokenInv'
<1>1. /\ ~edge /\ isrPc = "idle" /\ up
      /\ \A u \in Threads \ {t} : pc[u] = "none"
  BY Alone
<1>2. pc'[t] = to /\ \A u \in Threads \ {t} : pc'[u] = "none"
  BY <1>1 DEF TypeOK
<1>3. OneDriver'
  BY <1>2 DEF OneDriver
<1>4. ASSUME NEW u \in Threads \ {t}
      PROVE  Stage(u)'
  BY <1>2, <1>4 DEF Stage, StageRx, StageReopen, StageSend, StageReceive, StoppedLabels,
                    RxLabels, SendLabels, ReceiveLabels
<1>5. (pc[Main] \in MainLabels)'
  BY <1>2, GatewayAssumption DEF MainLabels
<1> QED
  BY <1>1, <1>2, <1>3, <1>4, <1>5 DEF TokenInv

\* A step with which the thread hands it to the chip.
LEMMA PassToken ==
  ASSUME TypeOK, TokenInv, NEW t \in Threads,
         pc[t] # "none", pc' = [pc EXCEPT ![t] = "none"],
         UNCHANGED <<edge, isrPc, isr, gpio, up, open, spid>>, Resting'
  PROVE  TokenInv'
<1>1. /\ ~edge /\ isrPc = "idle" /\ up
      /\ \A u \in Threads \ {t} : pc[u] = "none"
  BY Alone
<1>2. \A u \in Threads : pc'[u] = "none"
  BY <1>1 DEF TypeOK
<1>3. \A u \in Threads : Stage(u)'
  BY <1>2 DEF Stage, StageRx, StageReopen, StageSend, StageReceive, StoppedLabels,
              RxLabels, SendLabels, ReceiveLabels
<1> QED
  BY <1>1, <1>2, <1>3, GatewayAssumption DEF TokenInv, OneDriver, HandlesOwned, MainLabels

\* LoRa_end keeps the token: receiver off, then no handle (lora.cpp:234-243).
LEMMA EndToken ==
  ASSUME TypeOK, TokenInv, NEW t \in Threads, LoRa_end(t, "begin"), UNCHANGED gwVars
  PROVE  TokenInv'
<1>0. pc[t] \in {"end", "end_standby", "end_close", "end_unset"} /\ t # Main
  BY DEF LoRa_end, StopRemoveIsr, StopStandby, EndClose, EndUnset, At, TokenInv, MainLabels
<1>1. /\ ~edge /\ isrPc = "idle" /\ up' = up
      /\ isr = "none" /\ gpio /\ HandlesOwned /\ Sleepy
      /\ pc[t] # "end_unset" => Xfer
      /\ pc[t] = "end_unset" => open = {}
  BY <1>0, Alone DEF Stage, StageRx, StageReopen, StoppedLabels, TokenInv, gwVars
<1> USE DEF chipVars, pinVars, bufVars, At
<1>2. CASE StopRemoveIsr(t, "end", "end_standby")
  <2>1. Stage(t)'
    BY <1>1, <1>2 DEF StopRemoveIsr, lora_remove_dioISR, Xfer, Sleepy, TypeOK, Stage,
       StageRx, StageReopen, StageSend, StageReceive, StoppedLabels, RxLabels,
       SendLabels, ReceiveLabels
  <2> QED
    BY <1>0, <1>1, <1>2, <2>1, KeepToken DEF StopRemoveIsr, lora_remove_dioISR,
       HandlesOwned, Labels, DriverLabels
<1>3. CASE StopStandby(t, "end_standby", "end_close")
  <2>1. Stage(t)'
    BY <1>1, <1>3 DEF StopStandby, lora_set_satandby_mode, SetOpMode, Xfer, Sleepy,
       TypeOK, Stage, StageRx, StageReopen, StageSend, StageReceive, StoppedLabels,
       RxLabels, SendLabels, ReceiveLabels
  <2> QED
    BY <1>0, <1>1, <1>3, <2>1, KeepToken DEF StopStandby, HandlesOwned, Labels, DriverLabels
<1>4. CASE EndClose(t)
  <2>1. open' = {}
    BY <1>1, <1>4 DEF EndClose, HandlesOwned
  <2>2. Stage(t)'
    BY <1>1, <1>4, <2>1 DEF EndClose, Sleepy, TypeOK, Stage, StageRx, StageReopen,
       StageSend, StageReceive, StoppedLabels, RxLabels, SendLabels, ReceiveLabels
  <2> QED
    BY <1>0, <1>1, <1>4, <2>1, <2>2, KeepToken DEF EndClose, HandlesOwned, Labels, DriverLabels
<1>5. CASE EndUnset(t, "begin")
  <2>1. open' = {}
    BY <1>1, <1>5 DEF EndUnset
  <2>2. Stage(t)'
    BY <1>1, <1>5, <2>1 DEF EndUnset, Sleepy, TypeOK, Stage, StageRx, StageReopen,
       StageSend, StageReceive, StoppedLabels, RxLabels, SendLabels, ReceiveLabels
  <2> QED
    BY <1>0, <1>1, <1>5, <2>1, <2>2, KeepToken DEF EndUnset, HandlesOwned, Labels, DriverLabels
<1> QED
  BY <1>2, <1>3, <1>4, <1>5 DEF LoRa_end

\* LoRa_begin keeps the token and leaves a chip that raises nothing (lora.cpp:3-50).
LEMMA BeginToken ==
  ASSUME TypeOK, TokenInv, NEW t \in Threads, UNCHANGED gwVars,
         LoRa_begin(t, AfterBegin(t)) \/ BeginFails(t)
  PROVE  TokenInv'
<1> USE DEF chipVars, pinVars, bufVars, At
<1>0. pc[t] \in {"begin", "open", "config"}
  BY DEF LoRa_begin, BeginReset, BeginOpen, BeginConfigure, BeginFails, BeginInitFails,
         BeginOpenFails
<1>1. ~edge /\ isrPc = "idle" /\ up' = up /\ isr = "none" /\ HandlesOwned /\ Stage(t)
  BY <1>0, Alone DEF Stage, StageReopen, TokenInv, gwVars
<1>2. AfterBegin(t) = "receive" \/ (AfterBegin(t) = "send" /\ t # Main)
  BY DEF AfterBegin
<1>3. NoFault <=> "init" \notin Faults /\ "spi" \notin Faults
  BY DEF NoFault
<1>4. CASE BeginReset(t)
  <2>1. ~edge' /\ isr' = "none" /\ irq' = {} /\ mode' = "STDBY" /\ gpio' /\ open' = {}
    BY <1>1, <1>4 DEF BeginReset, lora_reset, DriveDio0, Stage, StageReopen
  <2>2. Stage(t)'
    BY <2>1, <1>4 DEF BeginReset, Sleepy, TypeOK, Stage, StageRx, StageReopen, StageSend,
       StageReceive, StoppedLabels, RxLabels, SendLabels, ReceiveLabels
  <2> QED
    BY <1>0, <1>1, <1>4, <2>1, <2>2, KeepToken
       DEF BeginReset, HandlesOwned, Labels, DriverLabels, MainLabels
<1>5. CASE BeginOpen(t)
  <2>1. open = {} /\ isr = "none" /\ gpio /\ Sleepy /\ irq = {}
    BY <1>1, <1>5 DEF BeginOpen, Stage, StageReopen
  <2>2. Xfer' /\ HandlesOwned'
    BY <1>5, <2>1 DEF BeginOpen, Xfer, HandlesOwned
  <2>3. Stage(t)'
    BY <2>1, <2>2, <1>5 DEF BeginOpen, Sleepy, TypeOK, Stage, StageRx, StageReopen,
       StageSend, StageReceive, StoppedLabels, RxLabels, SendLabels, ReceiveLabels
  <2> QED
    BY <1>0, <1>1, <1>5, <2>1, <2>2, <2>3, KeepToken
       DEF BeginOpen, Labels, DriverLabels, MainLabels
<1>6. CASE BeginConfigure(t, AfterBegin(t))
  <2>1. isr = "none" /\ gpio /\ Xfer /\ Sleepy /\ irq = {}
    BY <1>1, <1>6 DEF BeginConfigure, Stage, StageReopen
  <2>2. Stage(t)'
    BY <1>2, <2>1, <1>6 DEF BeginConfigure, SetOpMode, Xfer, Sleepy, TypeOK, Stage,
       StageRx, StageReopen, StageSend, StageReceive, StoppedLabels, RxLabels,
       SendLabels, ReceiveLabels, AfterBegin
  <2> QED
    BY <1>0, <1>1, <1>2, <1>6, <2>1, <2>2, KeepToken
       DEF BeginConfigure, HandlesOwned, Labels, DriverLabels, MainLabels
<1>7. CASE "init" \in Faults /\ BeginInitFails(t, AfterBegin(t))
  <2>1. isr = "none" /\ ~gpio /\ open = {} /\ t = Main /\ ~NoFault
    BY <1>1, <1>3, <1>7 DEF BeginInitFails, Stage, StageReopen
  <2>2. Stage(t)'
    BY <2>1, <1>7 DEF BeginInitFails, TypeOK, NoFault, Stage, StageRx, StageReopen,
       StageSend, StageReceive, StoppedLabels, RxLabels, SendLabels, ReceiveLabels,
       AfterBegin, Xfer
  <2> QED
    BY <1>0, <1>1, <1>2, <1>7, <2>1, <2>2, KeepToken
       DEF BeginInitFails, HandlesOwned, Labels, DriverLabels, MainLabels
<1>8. CASE /\ "spi" \in Faults \/ Handles \subseteq open
           /\ BeginOpenFails(t, AfterBegin(t))
  <2>1. isr = "none" /\ gpio /\ open = {} /\ Sleepy /\ irq = {}
    BY <1>1, <1>8 DEF BeginOpenFails, Stage, StageReopen
  <2>2. ~NoFault
    BY <1>3, <1>8, <2>1, ModemAssumption
  <2>3. Stage(t)'
    BY <1>2, <2>1, <2>2, <1>8 DEF BeginOpenFails, Sleepy, TypeOK, NoFault, Stage, StageRx,
       StageReopen, StageSend, StageReceive, StoppedLabels, RxLabels, SendLabels,
       ReceiveLabels, AfterBegin, Xfer
  <2> QED
    BY <1>0, <1>1, <1>2, <1>8, <2>1, <2>3, KeepToken
       DEF BeginOpenFails, HandlesOwned, Labels, DriverLabels, MainLabels
<1> QED
  BY <1>4, <1>5, <1>6, <1>7, <1>8 DEF LoRa_begin, BeginFails

\* LoRa_send gives the token to the chip, ready to signal TxDone (lora.cpp:125-147).
LEMMA SendToken ==
  ASSUME TypeOK, TokenInv, NEW t \in Threads, UNCHANGED gwVars, LoRa_send(t)
  PROVE  TokenInv'
<1> USE DEF chipVars, pinVars, bufVars, At
<1>0. pc[t] \in SendLabels \cup {"send_mode"} /\ t # Main
  BY DEF LoRa_send, SendStandby, SendWriteFifo, SendMapDio, SendSetIsr, SendTransmit,
         SendLabels, TokenInv, MainLabels
<1>1. ~edge /\ isrPc = "idle" /\ up' = up /\ HandlesOwned /\ Stage(t) /\ pc[t] # "none"
  BY <1>0, Alone DEF TokenInv, gwVars, SendLabels
<1>2. /\ Sleepy /\ irq = {} /\ (NoFault => Xfer)
      /\ pc[t] # "send_mode" => isr = "none" /\ gpio
  BY <1>0, <1>1 DEF Stage, StageSend
<1>3. CASE SendStandby(t)
  <2>1. Stage(t)'
    BY <1>2, <1>3 DEF SendStandby, lora_set_satandby_mode, SetOpMode, Xfer, Sleepy, TypeOK,
       NoFault, Stage, StageRx, StageReopen, StageSend, StageReceive, StoppedLabels,
       RxLabels, SendLabels, ReceiveLabels
  <2> QED
    BY <1>0, <1>1, <1>2, <1>3, <2>1, KeepToken DEF SendStandby, HandlesOwned, Labels, DriverLabels
<1>4. CASE SendWriteFifo(t)
  <2>1. Stage(t)'
    BY <1>2, <1>4 DEF SendWriteFifo, Xfer, Sleepy, TypeOK,
       NoFault, Stage, StageRx, StageReopen, StageSend, StageReceive, StoppedLabels,
       RxLabels, SendLabels, ReceiveLabels
  <2> QED
    BY <1>0, <1>1, <1>2, <1>4, <2>1, KeepToken DEF SendWriteFifo, HandlesOwned, Labels, DriverLabels
<1>5. CASE SendMapDio(t)
  <2>1. ~edge' /\ irq' = irq /\ (Xfer => dio' = "tx")
    BY <1>1, <1>2, <1>5 DEF SendMapDio, lora_set_dio_tx_mapping, SetDio, DriveDio0
  <2>2. Stage(t)'
    BY <1>2, <1>5, <2>1 DEF SendMapDio, Xfer, Sleepy, TypeOK,
       NoFault, Stage, StageRx, StageReopen, StageSend, StageReceive, StoppedLabels,
       RxLabels, SendLabels, ReceiveLabels
  <2> QED
    BY <1>0, <1>1, <1>2, <1>5, <2>1, <2>2, KeepToken DEF SendMapDio, HandlesOwned, Labels, DriverLabels
<1>6. CASE SendSetIsr(t)
  <2>0. isr' = "tx" /\ gpio' = gpio /\ gpio'
    BY <1>2, <1>6 DEF SendSetIsr, lora_set_txdone_dioISR, SetDioIsr
  <2>1. Stage(t)'
    BY <1>1, <1>2, <1>6, <2>0 DEF SendSetIsr, Xfer, Sleepy, TypeOK,
       NoFault, Stage, StageRx, StageReopen, StageSend, StageReceive, StoppedLabels,
       RxLabels, SendLabels, ReceiveLabels
  <2> QED
    BY <1>0, <1>1, <1>2, <1>6, <2>0, <2>1, KeepToken DEF SendSetIsr, HandlesOwned, Labels, DriverLabels
<1>7. CASE SendTransmit(t)
  <2>1. isr = "tx" /\ (Xfer => dio = "tx")
    BY <1>1, <1>7 DEF SendTransmit, Stage, StageSend
  <2>2. AtRest'
    <3>1. CASE Xfer
      BY <1>2, <1>7, <2>1, <3>1 DEF SendTransmit, lora_set_tx_mode, SetOpMode, AtRest,
         Transmitting, Xfer
    <3>2. CASE ~Xfer
      BY <1>2, <1>7, <2>1, <3>2 DEF SendTransmit, lora_set_tx_mode, SetOpMode, AtRest,
         Deaf, Sleepy, NoFault
    <3> QED
      BY <3>1, <3>2
  <2>3. Resting'
    BY <1>1, <1>7, <2>2 DEF SendTransmit, Resting
  <2> QED
    BY <1>1, <1>7, <2>3, PassToken DEF SendTransmit
<1> QED
  BY <1>3, <1>4, <1>5, <1>6, <1>7 DEF LoRa_send

\* LoRa_receive gives the token to the chip, ready to signal RxDone (lora.cpp:149-165).
LEMMA ReceiveToken ==
  ASSUME TypeOK, TokenInv, NEW t \in Threads, UNCHANGED gwVars, LoRa_receive(t)
  PROVE  TokenInv'
<1> USE DEF chipVars, pinVars, bufVars, At
<1>0. pc[t] \in ReceiveLabels \cup {"receive_mode"}
  BY DEF LoRa_receive, ReceiveStandby, ReceiveMapDio, ReceiveSetIsr, ReceiveListen,
         ReceiveLabels
<1>1. /\ ~edge /\ isrPc = "idle" /\ up' = up /\ HandlesOwned /\ StageReceive(t)
      /\ pc[t] # "none" /\ (isr # "none" => gpio)
  BY <1>0, Alone DEF TokenInv, gwVars, ReceiveLabels, Stage
<1>2. NoFault => gpio /\ Xfer
  BY <1>0, <1>1 DEF StageReceive
<1>3. CASE ReceiveStandby(t)
  <2>1. Stage(t)'
    BY <1>1, <1>2, <1>3 DEF ReceiveStandby, lora_set_satandby_mode, SetOpMode, Xfer, Sleepy,
       TypeOK, NoFault, Stage, StageRx, StageReopen, StageSend, StageReceive, StoppedLabels,
       RxLabels, SendLabels, ReceiveLabels
  <2> QED
    BY <1>0, <1>1, <1>3, <2>1, KeepToken
       DEF ReceiveStandby, HandlesOwned, Labels, DriverLabels, MainLabels
<1>4. CASE ReceiveMapDio(t)
  <2>0. isr = "none" \/ irq = {}
    BY <1>1, <1>4 DEF ReceiveMapDio, StageReceive, ReceiveLabels
  <2>1. ~edge' /\ irq' = irq /\ (Xfer => dio' = "rx")
    BY <1>1, <1>4, <2>0 DEF ReceiveMapDio, lora_set_dio_rx_mapping, SetDio, DriveDio0, Pin
  <2>2. Stage(t)'
    BY <1>1, <1>2, <1>4, <2>1 DEF ReceiveMapDio, Xfer, Sleepy,
       TypeOK, NoFault, Stage, StageRx, StageReopen, StageSend, StageReceive, StoppedLabels,
       RxLabels, SendLabels, ReceiveLabels
  <2> QED
    BY <1>0, <1>1, <1>4, <2>1, <2>2, KeepToken
       DEF ReceiveMapDio, HandlesOwned, Labels, DriverLabels, MainLabels
<1>5. CASE ReceiveSetIsr(t)
  <2>1. /\ isr' = (IF gpio THEN "rx" ELSE "none") /\ gpio' = gpio
        /\ isr' # "none" => gpio'
    BY <1>1, <1>5 DEF ReceiveSetIsr, lora_set_rxdone_dioISR, SetDioIsr
  <2>2. Stage(t)'
    BY <1>1, <1>2, <1>5, <2>1 DEF ReceiveSetIsr, Xfer, Sleepy,
       TypeOK, NoFault, Stage, StageRx, StageReopen, StageSend, StageReceive, StoppedLabels,
       RxLabels, SendLabels, ReceiveLabels
  <2> QED
    BY <1>0, <1>1, <1>5, <2>1, <2>2, KeepToken
       DEF ReceiveSetIsr, HandlesOwned, Labels, DriverLabels, MainLabels
<1>6. CASE ReceiveListen(t)
  <2>2. AtRest'
    <3>1. CASE gpio /\ Xfer
      BY <1>1, <1>6, <3>1 DEF ReceiveListen, lora_set_rxcont_mode, SetOpMode, AtRest,
         Listening, Xfer, StageReceive
    <3>2. CASE gpio /\ ~Xfer
      BY <1>1, <1>2, <1>6, <3>2 DEF ReceiveListen, lora_set_rxcont_mode, SetOpMode, AtRest,
         Deaf, Sleepy, NoFault, StageReceive
    <3>3. CASE ~gpio
      BY <1>1, <1>2, <1>6, <3>3 DEF ReceiveListen, AtRest, Deaf, NoFault, StageReceive
    <3> QED
      BY <3>1, <3>2, <3>3
  <2>3. Resting'
    BY <1>1, <1>6, <2>2 DEF ReceiveListen, Resting
  <2> QED
    BY <1>1, <1>6, <2>3, PassToken DEF ReceiveListen
<1> QED
  BY <1>3, <1>4, <1>5, <1>6 DEF LoRa_receive

\* With the receiver stopped, rx_f computes: the modem does not change.
LEMMA StayStopped ==
  ASSUME TypeOK, TokenInv, NEW t \in Threads, NEW to \in StoppedLabels,
         pc[t] \in StoppedLabels, pc' = [pc EXCEPT ![t] = to],
         UNCHANGED <<mode, gpio, isr, isrPc, edge, open, spid, up>>
  PROVE  TokenInv'
<1>1. /\ ~edge /\ isrPc = "idle" /\ Stage(t) /\ HandlesOwned
      /\ pc[t] # "none" /\ t # Main /\ (isr # "none" => gpio)
  BY Alone DEF StoppedLabels, RxLabels, TokenInv, MainLabels
<1>2. isr = "none" /\ gpio /\ Xfer /\ Sleepy
  BY <1>1 DEF Stage, StageRx
<1>3. Stage(t)'
  BY <1>2 DEF TypeOK, Xfer, Sleepy, Stage, StageRx, StageReopen, StageSend, StageReceive,
     StoppedLabels, RxLabels, SendLabels, ReceiveLabels
<1>4. to \in Labels \ {"none"}
  BY DEF StoppedLabels, Labels, RxLabels, DriverLabels
<1> QED
  BY <1>1, <1>2, <1>3, <1>4, KeepToken DEF HandlesOwned

\* rx_f's first act turns the receiver off for good (lora.cpp:240-243).
LEMMA RxStopToken ==
  ASSUME TypeOK, TokenInv, NEW t \in Threads, RxStop(t)
  PROVE  TokenInv'
<1> USE DEF chipVars, pinVars, bufVars, At
<1>0. pc[t] \in {"rx_f", "rx_standby"} /\ t # Main
  BY DEF RxStop, StopRemoveIsr, StopStandby, TokenInv, MainLabels
<1>1. /\ ~edge /\ isrPc = "idle" /\ up' = up /\ HandlesOwned
      /\ Stage(t) /\ (isr # "none" => gpio)
  BY <1>0, Alone DEF TokenInv, RxStop, gwVars
<1>2. CASE StopRemoveIsr(t, "rx_f", "rx_standby")
  <2>1. gpio /\ Xfer /\ mode = "RXCONT"
    BY <1>1, <1>2 DEF StopRemoveIsr, Stage, StageRx
  <2>2. Stage(t)'
    BY <1>2, <2>1 DEF StopRemoveIsr, lora_remove_dioISR, Xfer, Sleepy, TypeOK, Stage,
       StageRx, StageReopen, StageSend, StageReceive, StoppedLabels, RxLabels,
       SendLabels, ReceiveLabels
  <2> QED
    BY <1>0, <1>1, <1>2, <2>1, <2>2, KeepToken DEF StopRemoveIsr, lora_remove_dioISR,
       HandlesOwned, Labels, RxLabels, DriverLabels
<1>3. CASE StopStandby(t, "rx_standby", "crc")
  <2>1. isr = "none" /\ gpio /\ Xfer
    BY <1>1, <1>3 DEF StopStandby, Stage, StageRx
  <2>2. Stage(t)'
    BY <1>3, <2>1 DEF StopStandby, lora_set_satandby_mode, SetOpMode, Xfer, Sleepy,
       TypeOK, Stage, StageRx, StageReopen, StageSend, StageReceive, StoppedLabels,
       RxLabels, SendLabels, ReceiveLabels
  <2> QED
    BY <1>0, <1>1, <1>3, <2>1, <2>2, KeepToken
       DEF StopStandby, HandlesOwned, Labels, RxLabels, DriverLabels
<1> QED
  BY <1>2, <1>3 DEF RxStop

\* A dead process holds no handle and no thread.
LEMMA TerminateToken ==
  ASSUME Terminate
  PROVE  TokenInv'
<1>1. /\ \A t \in Threads : pc'[t] = "none"
      /\ ~up' /\ isr' = "none" /\ ~edge' /\ isrPc' = "idle" /\ open' = {}
  BY DEF Terminate
<1>2. \A t \in Threads : Stage(t)'
  BY <1>1 DEF Stage, StageRx, StageReopen, StageSend, StageReceive, StoppedLabels,
     RxLabels, SendLabels, ReceiveLabels
<1>3. Resting'
  BY <1>1 DEF Resting, AtRest, Deaf
<1> QED
  BY <1>1, <1>2, <1>3, GatewayAssumption
     DEF TokenInv, OneDriver, HandlesOwned, MainLabels, Down

\* Every step of main and of the callbacks keeps TokenInv.
LEMMA ThreadToken ==
  ASSUME TypeInv, TokenInv, NEW t \in Threads, ThreadStep(t)
  PROVE  TokenInv'
<1>0. TypeOK
  BY DEF TypeInv
<1> DEFINE Goto(from, to) ==
             /\ pc[t] = from /\ pc' = [pc EXCEPT ![t] = to]
             /\ UNCHANGED <<mode, gpio, isr, isrPc, edge, open, spid, up>>
<1>1. ASSUME NEW from \in StoppedLabels, NEW to \in StoppedLabels, Goto(from, to)
      PROVE  TokenInv'
  BY <1>0, <1>1, StayStopped
<1>2. ASSUME NEW from, NEW to, RxGoto(t, from, to)
      PROVE  Goto(from, to)
  BY <1>2 DEF RxGoto, At, chipVars, pinVars
<1> HIDE DEF Goto
<1>3. CASE RxCrc(t)
  <2>1. PICK to \in {"reply", "copy"} : RxGoto(t, "crc", to)
    BY <1>3 DEF RxCrc
  <2> QED
    BY <1>1, <1>2, <2>1 DEF StoppedLabels, RxLabels
<1>4. CASE RxCopy(t)
  BY <1>1, <1>2, <1>4 DEF RxCopy, StoppedLabels, RxLabels
<1>5. CASE RxQuery(t)
  <2>1. data[t] \in Packets /\ Mac(t) \in Macs
    BY <1>5, MacType DEF RxQuery, HasData
  <2>2. query(Mac(t)) \in Status
    BY <1>0, <2>1 DEF query, TypeOK, DbTypeOK
  <2>3. PICK to \in {"save_info", "activate", "validity"} : RxGoto(t, "query", to)
    BY <1>5, <2>2 DEF RxQuery, Status
  <2> QED
    BY <1>1, <1>2, <2>3 DEF StoppedLabels, RxLabels
<1>6. CASE RxSave(t)
  BY <1>1, <1>2, <1>6 DEF RxSave, StoppedLabels, RxLabels
<1>7. CASE RxActivate(t) \/ RxValid(t) \/ RxInvalid(t)
  BY <1>1, <1>2, <1>7 DEF RxActivate, RxValid, RxInvalid, StoppedLabels, RxLabels
<1>8. CASE RxLimit(t)
  <2>1. PICK to \in {"reboot", "info"} : RxGoto(t, "limit", to)
    BY <1>8 DEF RxLimit
  <2> QED
    BY <1>1, <1>2, <2>1 DEF StoppedLabels, RxLabels
<1>9. CASE RxReboot(t) \/ RxInfo(t) \/ RxPipe(t)
  BY <1>1, <1>2, <1>9 DEF RxReboot, RxInfo, RxPipe, StoppedLabels, RxLabels
<1>10. CASE RxReply(t)
  <2>1. Goto("reply", "end")
    BY <1>10 DEF Goto, RxReply, At, chipVars, pinVars
  <2> QED
    BY <1>1, <2>1 DEF StoppedLabels, RxLabels
<1>11. CASE RxStop(t)
  BY <1>0, <1>11, RxStopToken
<1>12. CASE RxThrows(t)
  BY <1>12, TerminateToken DEF RxThrows
<1>13. CASE Driver(t)
  BY <1>0, <1>13, EndToken, BeginToken, SendToken, ReceiveToken DEF Driver
<1> QED
  BY <1>3, <1>4, <1>5, <1>6, <1>7, <1>8, <1>9, <1>10, <1>11, <1>12, <1>13
     DEF ThreadStep, rx_f

-----------------------------------------------------------------------------
(* Then the steps taken while no thread has the token, and those that leave *)
(* it where it is.                                                          *)

\* While an interrupt is pending or handled the threads are at rest.
LEMMA NoneActive ==
  ASSUME TokenInv, edge \/ isrPc # "idle"
  PROVE  (\A t \in Threads : pc[t] = "none") /\ Resting
  BY DEF TokenInv, OneDriver

\* While no thread has the token, Resting is all there is to keep.
LEMMA StayResting ==
  ASSUME TokenInv, \A t \in Threads : pc[t] = "none", pc' = pc,
         UNCHANGED <<isr, gpio, up, open, spid>>, up, Resting'
  PROVE  TokenInv'
<1>1. \A t \in Threads : Stage(t)'
  BY DEF Stage, StageRx, StageReopen, StageSend, StageReceive, StoppedLabels,
     RxLabels, SendLabels, ReceiveLabels
<1> QED
  BY <1>1, GatewayAssumption DEF TokenInv, OneDriver, HandlesOwned, MainLabels

\* The interrupt thread starts a callback: it takes the token.
LEMMA TakeToken ==
  ASSUME TypeOK, TokenInv, \A u \in Threads : pc[u] = "none", NEW t \in Callbacks,
         NEW to \in Labels \ {"none"}, pc' = [pc EXCEPT ![t] = to],
         isrPc' = "idle", ~edge', UNCHANGED <<isr, gpio, up, open, spid>>, up, Stage(t)'
  PROVE  TokenInv'
<1>1. t # Main /\ t \in Threads
  BY DEF Callbacks
<1>2. pc'[t] = to /\ \A u \in Threads \ {t} : pc'[u] = "none"
  BY <1>1 DEF TypeOK
<1>3. \A u \in Threads \ {t} : Stage(u)'
  BY <1>2 DEF Stage, StageRx, StageReopen, StageSend, StageReceive, StoppedLabels,
     RxLabels, SendLabels, ReceiveLabels
<1>4. OneDriver'
  BY <1>2 DEF OneDriver
<1> QED
  BY <1>1, <1>2, <1>3, <1>4, GatewayAssumption DEF TokenInv, HandlesOwned, MainLabels

\* The handlers take the token from the chip and hand it to one callback (lora.cpp:187-232).
LEMMA InterruptToken ==
  ASSUME TypeOK, TokenInv, Interrupt
  PROVE  TokenInv'
<1> USE DEF chipVars, bufVars
<1>0. CASE RxDoneReadFails
  BY <1>0, TerminateToken DEF RxDoneReadFails
<1> SUFFICES ASSUME IsrEnter \/ RxDone \/ TxDone, UNCHANGED gwVars
             PROVE  TokenInv'
  BY <1>0 DEF Interrupt
<1>1. (\A t \in Threads : pc[t] = "none") /\ Resting
  BY NoneActive DEF IsrEnter, RxDone, TxDone, RxDoneRead, RxDoneCrc, RxDoneClear,
     RxDoneSpawn, TxDoneClear, TxDoneStandby, TxDoneSpawn, IsrGoto
<1>2. up /\ up' = up
  BY <1>1 DEF IsrEnter, RxDone, TxDone, RxDoneRead, RxDoneCrc, RxDoneClear, RxDoneSpawn,
     TxDoneClear, TxDoneStandby, TxDoneSpawn, IsrGoto, TokenInv, Down, gwVars
<1>3. CASE IsrEnter
  <2>1. RxRaised \/ TxRaised
    BY <1>1, <1>3 DEF IsrEnter, Resting
  <2>2. ASSUME RxRaised
        PROVE  Resting'
    <3>0. IrqFlagSeen("RxDone") /\ isr = "rx"
      BY <2>2 DEF IrqFlagSeen, RxRaised
    <3>1. isrPc' = "rx_read" /\ ~edge'
      BY <1>3, <3>0 DEF IsrEnter
    <3>2. RxRaised'
      BY <1>3, <2>2 DEF IsrEnter, RxRaised, Xfer
    <3> QED
      BY <3>1, <3>2 DEF Resting
  <2>3. ASSUME TxRaised
        PROVE  Resting'
    <3>0. IrqFlagSeen("TxDone") /\ isr = "tx"
      BY <2>3 DEF IrqFlagSeen, TxRaised
    <3>1. isrPc' = "tx_clear" /\ ~edge'
      BY <1>3, <3>0 DEF IsrEnter
    <3>2. TxRaised'
      BY <1>3, <2>3 DEF IsrEnter, TxRaised, Sleepy, Xfer
    <3> QED
      BY <3>1, <3>2 DEF Resting
  <2>4. Resting'
    BY <2>1, <2>2, <2>3
  <2> QED
    BY <1>1, <1>2, <1>3, <2>4, StayResting DEF IsrEnter
<1>4. CASE RxDoneRead(FifoRead) \/ RxDoneCrc
  <2>1. RxRaised /\ ~edge
    BY <1>1, <1>4 DEF RxDoneRead, RxDoneCrc, IsrGoto, Resting
  <2>2. Resting'
    BY <1>4, <2>1 DEF RxDoneRead, RxDoneCrc, IsrGoto, Resting, RxRaised, Xfer
  <2> QED
    BY <1>1, <1>2, <1>4, <2>2, StayResting DEF RxDoneRead, RxDoneCrc
<1>5. CASE RxDoneClear
  <2>1. RxRaised /\ ~edge
    BY <1>1, <1>5 DEF RxDoneClear, IsrGoto, Resting
  <2>2. ~edge'
    BY <1>5, <2>1 DEF RxDoneClear, lora_reset_irq_flags, DriveDio0, Pin
  <2>3. Resting'
    BY <1>5, <2>1, <2>2 DEF RxDoneClear, IsrGoto, Resting, RxRaised, Xfer
  <2> QED
    BY <1>1, <1>2, <1>5, <2>3, StayResting DEF RxDoneClear
<1>6. CASE TxDoneClear
  <2>1. TxRaised /\ ~edge
    BY <1>1, <1>6 DEF TxDoneClear, IsrGoto, Resting
  <2>2. ~edge' /\ irq' = {}
    BY <1>6, <2>1 DEF TxDoneClear, lora_reset_irq_flags, DriveDio0, Pin, TxRaised
  <2>3. Resting'
    BY <1>6, <2>1, <2>2 DEF TxDoneClear, IsrGoto, Resting, TxRaised, Xfer, Sleepy
  <2> QED
    BY <1>1, <1>2, <1>6, <2>3, StayResting DEF TxDoneClear
<1>7. CASE TxDoneStandby
  <2>1. Sleepy /\ isr = "tx" /\ Xfer /\ irq = {} /\ ~edge
    BY <1>1, <1>7 DEF TxDoneStandby, IsrGoto, Resting
  <2>2. Resting'
    BY <1>7, <2>1 DEF TxDoneStandby, lora_set_satandby_mode, SetOpMode, IsrGoto, Resting,
       Xfer, Sleepy
  <2> QED
    BY <1>1, <1>2, <1>7, <2>2, StayResting DEF TxDoneStandby
<1>8. ASSUME NEW t \in Callbacks, RxDoneSpawn(t, "rx_f")
      PROVE  TokenInv'
  <2>1. mode = "RXCONT" /\ isr = "rx" /\ Xfer /\ ~edge
    BY <1>1, <1>8 DEF RxDoneSpawn, IsrGoto, Resting
  <2>2. pc' = [pc EXCEPT ![t] = "rx_f"]
    BY <1>8 DEF RxDoneSpawn, At
  <2>3. Stage(t)'
    BY <1>8, <2>1, <2>2 DEF RxDoneSpawn, Callbacks, TypeOK, Xfer, Stage, StageRx,
       StageReopen, StageSend, StageReceive, StoppedLabels, RxLabels, SendLabels,
       ReceiveLabels
  <2> QED
    BY <1>1, <1>2, <1>8, <2>1, <2>2, <2>3, TakeToken
       DEF RxDoneSpawn, IsrGoto, Labels, RxLabels
<1>9. ASSUME NEW t \in Callbacks, TxDoneSpawn(t, "receive")
      PROVE  TokenInv'
  <2>1. Sleepy /\ isr = "tx" /\ Xfer /\ irq = {} /\ ~edge /\ gpio
    BY <1>1, <1>9 DEF TxDoneSpawn, IsrGoto, Resting, TokenInv
  <2>2. pc' = [pc EXCEPT ![t] = "receive"]
    BY <1>9 DEF TxDoneSpawn, At
  <2>3. Stage(t)'
    BY <1>9, <2>1, <2>2 DEF TxDoneSpawn, Callbacks, TypeOK, Xfer, Sleepy, Stage, StageRx,
       StageReopen, StageSend, StageReceive, StoppedLabels, RxLabels, SendLabels,
       ReceiveLabels
  <2> QED
    BY <1>1, <1>2, <1>9, <2>1, <2>2, <2>3, TakeToken
       DEF TxDoneSpawn, IsrGoto, Labels, DriverLabels
<1> QED
  BY <1>3, <1>4, <1>5, <1>6, <1>7, <1>8, <1>9 DEF RxDone, TxDone

\* A chip event reaches a thread with the token only where no handler is registered.
LEMMA ChipToken ==
  ASSUME TypeOK, TokenInv, Environment, ~Overlap,
         NEW t \in Threads, pc[t] # "none"
  PROVE  TokenInv'
<1>1. /\ ~edge /\ isrPc = "idle" /\ up /\ Stage(t)
      /\ \A u \in Threads \ {t} : pc[u] = "none"
  BY Alone
<1>2. /\ mode \in {"RXCONT", "TX"} /\ (mode = "RXCONT" => pc[t] # "rx_f")
      /\ mode' \in {mode, "STDBY"} /\ dio' = dio
      /\ isr = "none" => ~edge'
      /\ UNCHANGED <<pc, gpio, isr, isrPc, open, spid, up>>
  BY <1>1 DEF Environment, Transmitted, Hear, Quiet, ChipReceive, ChipTxDone, DriveDio0, gwVars
<1>3. ~Sleepy
  BY <1>2 DEF Sleepy
<1>4. /\ isr = "none"
      /\ pc[t] \notin StoppedLabels \cup SendLabels
      /\ pc[t] \notin {"rx_f", "end_unset", "open", "config", "send_mode"}
      /\ pc[t] = "begin" => t = Main
      /\ pc[t] \in ReceiveLabels => t = Main
      /\ pc[t] \in ReceiveLabels \cup {"receive_mode"} => ~gpio
  <2>1. pc[t] \notin StoppedLabels \cup SendLabels
    BY <1>1, <1>3 DEF Stage, StageRx, StageSend
  <2>2. pc[t] \notin {"rx_f", "end_unset", "open", "config", "send_mode"}
    BY <1>1, <1>2, <1>3 DEF Stage, StageRx, StageReopen, StageSend
  <2>3. pc[t] = "begin" => t = Main /\ isr = "none"
    BY <1>1, <1>3 DEF Stage, StageReopen
  <2>4. /\ pc[t] \in ReceiveLabels => t = Main /\ ~gpio /\ isr = "none"
        /\ pc[t] = "receive_mode" => ~gpio /\ isr = "none"
    BY <1>1, <1>3 DEF Stage, StageReceive
  <2>5. pc[t] = "rx_standby" => isr = "none"
    BY <1>1 DEF Stage, StageRx
  <2>6. pc[t] \in Labels
    BY DEF TypeOK
  <2> QED
    BY <2>1, <2>2, <2>3, <2>4, <2>5, <2>6 DEF Labels, RxLabels, DriverLabels, StoppedLabels,
       SendLabels, ReceiveLabels
<1>5. ~edge' /\ Stage(t)'
  BY <1>1, <1>2, <1>4 DEF Stage, StageRx, StageReopen, StageSend, StageReceive, Xfer
<1>6. pc' = [pc EXCEPT ![t] = pc[t]] /\ pc[t] \in Labels \ {"none"}
  BY <1>2 DEF TypeOK
<1>7. HandlesOwned' /\ (isr' # "none" => gpio') /\ (t = Main => pc[t] \in MainLabels)
  BY <1>2, <1>4 DEF TokenInv, HandlesOwned
<1> QED
  BY <1>1, <1>2, <1>5, <1>6, <1>7, KeepToken

\* A frame that does not overlap finds the chip with the token.
LEMMA EnvironmentToken ==
  ASSUME TypeOK, TokenInv, Environment, ~Overlap
  PROVE  TokenInv'
<1>1. CASE \E t \in Threads : pc[t] # "none"
  BY <1>1, ChipToken
<1>2. CASE \A t \in Threads : pc[t] = "none"
  <2>0. Resting /\ (up \/ Down)
    BY <1>2 DEF TokenInv
  <2>1. pc' = pc /\ UNCHANGED <<isr, isrPc, gpio, up, open, spid>>
    BY DEF Environment, Transmitted, Hear, ChipReceive, ChipTxDone, gwVars
  <2>2. Resting'
    <3>1. ASSUME NEW p \in Packets, Hear(p)
          PROVE  Resting'
      <4>1. /\ mode = "RXCONT" /\ mode' = mode /\ ~edge /\ isrPc = "idle"
            /\ dio' = dio /\ "RxDone" \in irq'
            /\ edge' <=> isr # "none" /\ ~Pin(dio, irq) /\ Pin(dio, irq')
        BY <3>1 DEF Hear, Quiet, ChipReceive, DriveDio0
      <4>2. AtRest
        BY <2>0, <4>1 DEF Resting
      <4>3. CASE Deaf /\ (NoFault => ~up)
        BY <2>1, <4>1, <4>3 DEF Deaf, Sleepy, Resting, AtRest, NoFault
      <4>4. CASE Listening /\ irq = {} /\ Xfer
        BY <2>1, <4>1, <4>4 DEF Listening, Pin, Resting, RxRaised, Xfer
      <4> QED
        BY <4>1, <4>2, <4>3, <4>4 DEF AtRest, Transmitting
    <3>2. CASE Transmitted
      <4>1. /\ mode = "TX" /\ mode' = "STDBY"
            /\ dio' = dio /\ irq' = irq \cup {"TxDone"}
            /\ edge' <=> edge \/ (isr # "none" /\ ~Pin(dio, irq) /\ Pin(dio, irq'))
        BY <3>2 DEF Transmitted, ChipTxDone, DriveDio0
      <4>2. isrPc = "idle" /\ ~edge /\ AtRest
        BY <2>0, <4>1 DEF Resting, RxRaised, TxRaised, Sleepy, TypeOK, ModemTypeOK, IsrLabels
      <4>3. CASE Deaf /\ (NoFault => ~up)
        BY <2>1, <4>1, <4>2, <4>3 DEF Deaf, Sleepy, Resting, AtRest, NoFault
      <4>4. CASE Transmitting /\ irq = {} /\ Xfer
        BY <2>1, <4>1, <4>2, <4>4 DEF Transmitting, Pin, Resting, TxRaised, Xfer, Sleepy
      <4> QED
        BY <4>1, <4>2, <4>3, <4>4 DEF AtRest, Listening
    <3> QED
      BY <3>1, <3>2 DEF Environment
  <2>3. CASE up
    BY <1>2, <2>1, <2>2, <2>3, StayResting
  <2>4. CASE ~up
    <3>1. ~edge'
      BY <2>0, <2>1, <2>4 DEF Down, Environment, Transmitted, Hear, ChipReceive,
         ChipTxDone, DriveDio0
    <3>2. \A t \in Threads : Stage(t)'
      BY <1>2, <2>1 DEF Stage, StageRx, StageReopen, StageSend, StageReceive,
         StoppedLabels, RxLabels, SendLabels, ReceiveLabels
    <3> QED
      BY <1>2, <2>0, <2>1, <2>2, <2>4, <3>1, <3>2, GatewayAssumption
         DEF TokenInv, OneDriver, HandlesOwned, MainLabels, Down
  <2> QED
    BY <2>3, <2>4
<1> QED
  BY <1>1, <1>2

\* A program started again finds the token with its main thread.
LEMMA LaunchToken ==
  ASSUME TypeOK, TokenInv, Launch
  PROVE  TokenInv'
<1>1. Down /\ UNCHANGED <<isr, edge, isrPc, open, spid, gpio>>
  BY DEF Launch, TokenInv, pinVars
<1>2. up' /\ \A t \in Threads : pc'[t] = IF t = Main THEN "begin" ELSE "none"
  BY DEF Launch, BootPc
<1>3. ASSUME NEW t \in Threads
      PROVE  Stage(t)'
  BY <1>1, <1>2, <1>3 DEF Down, Stage, StageRx, StageReopen, StageSend, StageReceive,
     StoppedLabels, RxLabels, SendLabels, ReceiveLabels
<1> QED
  BY <1>1, <1>2, <1>3, GatewayAssumption
     DEF TokenInv, OneDriver, HandlesOwned, MainLabels, Down

\* The client thread does not touch what TokenInv speaks of.
LEMMA QuietToken ==
  ASSUME TokenInv, NbStep \/ UNCHANGED vars
  PROVE  TokenInv'
<1>1. UNCHANGED <<modemVars, up>>
  BY DEF NbStep, NbConnect, NbRead, NbWrite, nbRest, vars
<1> QED
  BY <1>1 DEF modemVars, chipVars, pinVars, bufVars, TokenInv, OneDriver, HandlesOwned,
     Stage, StageRx, StageReopen, StageSend, StageReceive, Resting, AtRest, Deaf,
     RxRaised, TxRaised, Listening, Transmitting, Sleepy, Xfer, Down

\* The token starts with the main thread.
LEMMA InitToken == Init => TokenInv
<1> SUFFICES ASSUME Init PROVE TokenInv
  OBVIOUS
<1>1. Down /\ up /\ \A t \in Threads : pc[t] = IF t = Main THEN "begin" ELSE "none"
  BY DEF Init, Boot, ModemInit, BootPc, Down
<1>2. \A t \in Threads : Stage(t)
  BY <1>1 DEF Down, Stage, StageRx, StageReopen, StageSend, StageReceive, StoppedLabels,
     RxLabels, SendLabels, ReceiveLabels
<1> QED
  BY <1>1, <1>2, GatewayAssumption
     DEF TokenInv, OneDriver, HandlesOwned, MainLabels, Down

\* TokenInv is inductive relative to TypeInv while frames do not overlap.
LEMMA StepToken ==
  ASSUME ~Overlap
  PROVE  TypeInv /\ TokenInv /\ [Next]_vars => TokenInv'
<1> SUFFICES ASSUME TypeInv, TokenInv, [Next]_vars PROVE TokenInv'
  OBVIOUS
<1>1. TypeOK
  BY DEF TypeInv
<1>2. CASE NbPeerGone
  BY <1>2, TerminateToken DEF NbPeerGone
<1> QED
  BY <1>1, <1>2, ThreadToken, InterruptToken, EnvironmentToken, LaunchToken, QuietToken
     DEF Next

\* Whatever fails around it, the gateway passes control as the driver is written to
\* (lora.cpp:125-165, 187-243).
THEOREM TokenAlways ==
  ASSUME ~Overlap
  PROVE  Spec => []TokenInv
<1>1. TypeInv /\ TokenInv /\ [Next]_vars => TypeInv' /\ TokenInv'
  BY StepType, StepToken
<1> QED
  BY InitTypeInv, InitToken, <1>1, PTL DEF Spec

\* While frames do not overlap, at most one thread is inside the driver and the
\* callbacks, and none while an interrupt is pending: the unlocked buffers, handle
\* and registry have one user (lora.cpp:187-243, hybrid_gateway.cpp:71-152).
THEOREM MutualExclusion ==
  ASSUME ~Overlap
  PROVE  Spec => []OneDriver
<1>1. TokenInv => OneDriver
  BY DEF TokenInv
<1> QED
  BY TokenAlways, <1>1, PTL

\* LoRa_end and LoRa_begin in every callback leak no SPI handle, whichever of their
\* calls fail (lora.cpp:12-13, 234-238).
THEOREM NoHandleLeak ==
  ASSUME ~Overlap
  PROVE  Spec => []HandlesOwned
<1>1. TokenInv => HandlesOwned
  BY DEF TokenInv
<1> QED
  BY TokenAlways, <1>1, PTL

\* A gateway with nothing to do is woken by the next frame or the end of its answer,
\* unless pigpio refused it: no order of steps leaves it deaf (lora.cpp:125-165, 187-227).
THEOREM AlwaysReachable ==
  ASSUME ~Overlap
  PROVE  Spec => []NeverDeaf
<1>1. TokenInv => NeverDeaf
  BY DEF TokenInv, NeverDeaf, Idle, Resting, AtRest, NoFault
<1> QED
  BY TokenAlways, <1>1, PTL
=============================================================================
