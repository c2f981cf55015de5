-------------------------- MODULE GatewayData_proof --------------------------
(***************************************************************************)
(* What the gateway computes, for every set of sensors, threads, handles    *)
(* and faults: first while frames do not overlap, from TokenInv, then       *)
(* whether or not they do.                                                  *)
(***************************************************************************)
EXTENDS HybridGateway_proof, FiniteSetTheorems

\* A callback that does something has taken the chip out of transmission.
LEMMA ActiveNotTX ==
  ASSUME TypeOK, TokenInv, FrameInv, NEW t \in Threads, CallbackInv(t), pc[t] # "none",
         mode = "TX"
  PROVE  rxBuf = NoData
<1>1. CASE t = Main
  BY <1>1 DEF FrameInv
<1>2. CASE t # Main
  <2>1. Stage(t) /\ pc[t] \in Labels
    BY Alone DEF TypeOK
  <2>2. pc[t] \notin StoppedLabels \cup {"rx_f", "rx_standby"}
    BY <2>1 DEF Stage, StageRx, CallbackInv, Sleepy
  <2>3. pc[t] \notin {"end_unset", "begin", "open", "config"}
    BY <1>2, <2>1 DEF Stage, StageReopen, Sleepy
  <2>4. pc[t] \notin SendLabels \cup {"send_mode"}
    BY <2>1 DEF Stage, StageSend, Sleepy
  <2>5. pc[t] \notin ReceiveLabels \cup {"receive_mode"}
    BY <1>2, <2>1 DEF Stage, StageReceive, Sleepy, CallbackInv
  <2> QED
    BY <2>1, <2>2, <2>3, <2>4, <2>5
       DEF Labels, RxLabels, DriverLabels, StoppedLabels, SendLabels, ReceiveLabels
<1> QED
  BY <1>1, <1>2

\* A thread at rest has nothing in its locals.
LEMMA IdleCallback ==
  ASSUME NEW u \in Threads, pc'[u] = "none", reply'[u] = ZeroReply
  PROVE  CallbackInv(u)'
  BY DEF CallbackInv, HasFrame, HasData, InLocals, InBuf, InFifo

\* While a thread is active, no frame is under way outside it.
LEMMA ActiveFrame ==
  ASSUME TypeOK, TokenInv, FrameInv, NEW t \in Threads, NEW to, pc[t] # "none",
         pc' = [pc EXCEPT ![t] = to], ~edge', isrPc' = "idle",
         UNCHANGED <<rxBuf, up>>
  PROVE  FrameInv'
<1>1. up /\ (pc'[Main] # "none" => pc[Main] # "none")
  BY Alone, GatewayAssumption DEF TypeOK
<1> QED
  BY <1>1 DEF FrameInv

-----------------------------------------------------------------------------
(* The driver's calls.                                                      *)

\* Where a driver step goes, and that it leaves the buffers alone.
DriverMove(t, to) ==
    /\ pc[t] \in DriverLabels \ {"none"}
    /\ pc' = [pc EXCEPT ![t] = to]
    /\ to \in DriverLabels
    /\ UNCHANGED <<bufVars, isrPc>>
    /\ to = "none" => edge' = edge
    /\ to # "none" => (mode' = "TX" => mode = "TX")
    /\ to # "send_dio" => fifo' = fifo

\* Every step of LoRa_end, LoRa_begin, LoRa_send and LoRa_receive is such a move.
LEMMA DriverMoves ==
  ASSUME NEW t \in Threads, Driver(t)
  PROVE  \E to \in DriverLabels : DriverMove(t, to)
<1> USE DEF DriverMove, At, DriverLabels, chipVars, pinVars, bufVars
<1>1. CASE LoRa_end(t, "begin")
  BY <1>1 DEF LoRa_end, StopRemoveIsr, StopStandby, EndClose, EndUnset,
     lora_remove_dioISR, lora_set_satandby_mode, SetOpMode
<1>2. CASE LoRa_begin(t, AfterBegin(t)) \/ BeginFails(t)
  <2>0. AfterBegin(t) \in {"receive", "send"}
    BY DEF AfterBegin
  <2>1. CASE BeginReset(t)
    BY <2>1 DEF BeginReset, lora_reset
  <2>2. CASE BeginOpen(t)
    BY <2>2 DEF BeginOpen
  <2>3. CASE BeginConfigure(t, AfterBegin(t))
    BY <2>0, <2>3 DEF BeginConfigure, SetOpMode
  <2>4. CASE BeginFails(t)
    BY <2>0, <2>4 DEF BeginFails, BeginInitFails, BeginOpenFails
  <2> QED
    BY <1>2, <2>1, <2>2, <2>3, <2>4 DEF LoRa_begin
<1>3. CASE LoRa_send(t)
  BY <1>3 DEF LoRa_send, SendStandby, SendWriteFifo, SendMapDio, SendSetIsr, SendTransmit,
     lora_set_satandby_mode, lora_set_tx_mode, SetOpMode, lora_set_dio_tx_mapping, SetDio, DriveDio0
<1>4. CASE LoRa_receive(t)
  BY <1>4 DEF LoRa_receive, ReceiveStandby, ReceiveMapDio, ReceiveSetIsr, ReceiveListen,
     lora_set_satandby_mode, lora_set_rxcont_mode, SetOpMode, lora_set_dio_rx_mapping, SetDio, DriveDio0
<1> QED
  BY <1>1, <1>2, <1>3, <1>4 DEF Driver

\* What the sending half of a driver step does to FIFO, mode and handle.
SendMove(t, to) ==
    /\ to \in InBuf => pc[t] \in InBuf
    /\ to = "write_fifo" /\ Xfer' => mode' = "STDBY"
    /\ to = "send_dio" => /\ pc[t] = "write_fifo" /\ Xfer' = Xfer
                          /\ fifo' = IF Xfer /\ mode # "SLEEP" THEN txBuf ELSE fifo
    /\ to \in {"send_isr", "send_mode"} => /\ pc[t] \in InFifo
                                          /\ Xfer' = Xfer /\ fifo' = fifo
    /\ to = "receive_mode" => pc[t] = "receive_isr" /\ gpio' = gpio
    /\ to = "none" /\ mode' = "TX" /\ mode # "TX" =>
          pc[t] = "send_mode" /\ Xfer /\ fifo' = fifo

\* LoRa_send fills the FIFO out of sleep and transmits it (lora.cpp:125-147).
LEMMA DriverSendMoves ==
  ASSUME NEW t \in Threads, NEW to \in DriverLabels, pc' = [pc EXCEPT ![t] = to],
         pc \in [Threads -> Labels], Driver(t)
  PROVE  SendMove(t, to)
<1>0. pc'[t] = to
  OBVIOUS
<1> USE DEF SendMove, At, InBuf, InFifo, chipVars, pinVars, bufVars
<1>1. CASE LoRa_end(t, "begin")
  BY <1>0, <1>1 DEF LoRa_end, StopRemoveIsr, StopStandby, EndClose, EndUnset
<1>2. CASE LoRa_begin(t, AfterBegin(t)) \/ BeginFails(t)
  <2>0. AfterBegin(t) \in {"receive", "send"}
    BY DEF AfterBegin
  <2>1. CASE BeginReset(t) \/ BeginOpen(t)
    BY <1>0, <2>1 DEF BeginReset, BeginOpen
  <2>2. CASE BeginConfigure(t, AfterBegin(t)) \/ BeginFails(t)
    BY <1>0, <2>0, <2>2 DEF BeginConfigure, BeginFails, BeginInitFails, BeginOpenFails
  <2> QED
    BY <1>2, <2>1, <2>2 DEF LoRa_begin
<1>3. CASE LoRa_send(t)
  BY <1>0, <1>3 DEF LoRa_send, SendStandby, SendWriteFifo, SendMapDio, SendSetIsr, SendTransmit,
     lora_set_satandby_mode, lora_set_tx_mode, lora_write_fifo, SetOpMode, Xfer
<1>4. CASE LoRa_receive(t)
  BY <1>0, <1>4 DEF LoRa_receive, ReceiveStandby, ReceiveMapDio, ReceiveSetIsr, ReceiveListen,
     lora_set_rxcont_mode, SetOpMode
<1> QED
  BY <1>1, <1>2, <1>3, <1>4 DEF Driver

\* No driver step takes the answer from its way to the air, and what is radiated is
\* the answer (lora.cpp:125-147, 234-243).
LEMMA DriverData ==
  ASSUME TypeInv, TokenInv, DataInv, NEW t \in Threads, Driver(t), TokenInv'
  PROVE  DataInv'
<1>0. TypeOK /\ pc \in [Threads -> Labels]
  BY DEF TypeInv, TypeOK
<1>1. PICK to \in DriverLabels : DriverMove(t, to)
  BY DriverMoves
<1>2. SendMove(t, to)
  BY <1>0, <1>1, DriverSendMoves DEF DriverMove
<1>3. UNCHANGED <<status, vcount, rxBuf, rxCrc, txBuf, data, reply, info, nbBuf, pipe, up>>
  BY <1>1 DEF Driver, DriverMove, gwVars, dbVars, localVars, nbVars, bufVars
<1>4. /\ pc[t] \in DriverLabels \ {"none"} /\ pc'[t] = to
      /\ \A u \in Threads \ {t} : pc[u] = "none" /\ pc'[u] = "none"
      /\ ~edge /\ isrPc = "idle" /\ Stage(t)
  BY <1>0, <1>1, Alone DEF DriverMove
<1>5. ~edge' /\ isrPc' = "idle"
  BY <1>1, <1>4 DEF DriverMove, TokenInv, OneDriver
<1>6. CallbackInv(t) /\ DueReply' = DueReply
  BY <1>3 DEF DataInv, DueReply
<1>7. FrameInv'
  BY <1>0, <1>1, <1>3, <1>4, <1>5, ActiveFrame DEF DriverMove, DataInv
<1>8. CallbackInv(t)'
  <2>1. to \notin HasFrame \cup HasData \cup InLocals /\ reply'[t] = ZeroReply
    BY <1>3, <1>4, <1>6 DEF CallbackInv, DriverLabels, HasFrame, HasData, InLocals
  <2>2. to \in InBuf /\ t # Main => txBuf' = DueReply'
    BY <1>2, <1>3, <1>6 DEF SendMove, CallbackInv
  <2>3. to \in InFifo /\ Xfer' => fifo' = DueReply'
    <3>1. CASE to = "send_dio"
      <4>1. pc[t] = "write_fifo" /\ t # Main
        BY <1>2, <1>4, <3>1 DEF SendMove, TokenInv, MainLabels
      <4> QED
        BY <1>2, <1>3, <1>6, <3>1, <4>1 DEF SendMove, CallbackInv, InBuf
    <3> QED
      BY <1>2, <1>6, <3>1 DEF SendMove, CallbackInv, InFifo
  <2>4. to = "write_fifo" /\ Xfer' => mode' = "STDBY"
    BY <1>2 DEF SendMove
  <2>5. to = "receive_mode" /\ t # Main => gpio'
    BY <1>2, <1>4 DEF SendMove, Stage, StageReceive, ReceiveLabels
  <2> QED
    BY <1>4, <2>1, <2>2, <2>3, <2>4, <2>5
       DEF CallbackInv, HasFrame, HasData, InLocals, DriverLabels
<1>9. ASSUME NEW u \in Threads
      PROVE  CallbackInv(u)'
  <2>1. CASE u # t
    <3>1. reply'[u] = ZeroReply
      BY <1>3, <1>4, <2>1 DEF DataInv, CallbackInv, InLocals
    <3> QED
      BY <1>4, <2>1, <3>1, IdleCallback
  <2> QED
    BY <1>8, <2>1
<1>10. RegistryInv'
  <2>1. \A u \in Threads : pc[u] \notin DbLabels /\ pc'[u] \notin DbLabels
    BY <1>4 DEF DriverLabels, DbLabels
  <2> QED
    BY <1>3, <2>1 DEF DataInv, RegistryInv, Midway, Consistent, DbLabels
<1>11. ReplyMatches'
  <2>1. mode = "TX" => rxBuf = NoData
    BY <1>0, <1>4, <1>6, ActiveNotTX DEF DataInv
  <2>2. mode' = "TX" /\ rxBuf # NoData => pc[t] = "send_mode" /\ Xfer /\ fifo' = fifo
    BY <1>1, <1>2, <2>1 DEF DriverMove, SendMove
  <2>3. mode' = "TX" /\ rxBuf # NoData => fifo' = DueReply'
    BY <1>6, <2>2 DEF CallbackInv, InFifo
  <2> QED
    BY <1>3, <2>3 DEF ReplyMatches, DueReply
<1>12. StreamInv'
  BY <1>3 DEF DataInv, StreamInv
<1> QED
  BY <1>7, <1>9, <1>10, <1>11, <1>12 DEF DataInv

-----------------------------------------------------------------------------
(* The steps of rx_f.                                                       *)

\* While t is active, only the entry of its sensor is under way.
LEMMA OthersConsistent ==
  ASSUME RegistryInv, NEW t \in Threads, \A u \in Threads \ {t} : pc[u] = "none"
  PROVE  /\ Midway(t, Mac(t))
         /\ \A m \in Macs : Consistent(m) \/ (pc[t] \in DbLabels /\ Mac(t) = m)
  BY DEF RegistryInv, DbLabels

\* A step of rx_f keeps RegistryInv if it leaves its own entry as the next label says.
LEMMA RegistryKept ==
  ASSUME RegistryInv, NEW t \in Threads, NEW to,
         \A u \in Threads \ {t} : pc[u] = "none" /\ pc'[u] = "none",
         pc'[t] = to, Mac(t)' = Mac(t),
         \A m \in Macs \ {Mac(t)} : status'[m] = status[m] /\ vcount'[m] = vcount[m],
         Midway(t, Mac(t))',
         to \in DbLabels \/ (Mac(t) \in Macs => Consistent(Mac(t))')
  PROVE  RegistryInv'
<1>1. \A m \in Macs \ {Mac(t)} : Consistent(m)'
  BY OthersConsistent DEF Consistent
<1>2. \A u \in Threads \ {t} : Midway(u, Mac(u))'
  BY DEF Midway
<1> QED
  BY <1>1, <1>2 DEF RegistryInv

\* What a step of rx_f between two of its labels has left to show.
LEMMA RxData ==
  ASSUME TypeInv, TokenInv, DataInv, NEW t \in Threads,
         NEW from \in RxLabels, NEW to \in RxLabels, RxGoto(t, from, to),
         \A u \in Threads \ {t} : reply'[u] = reply[u],
         CallbackInv(t)', RegistryInv', StreamInv'
  PROVE  DataInv'
<1>0. TypeOK
  BY DEF TypeInv
<1>1. /\ pc[t] = from /\ from # "none" /\ pc' = [pc EXCEPT ![t] = to] /\ pc'[t] = to
      /\ UNCHANGED <<mode, irq, fifo, edge, isr, isrPc, rxBuf, rxCrc, up>>
  BY <1>0 DEF RxGoto, At, chipVars, pinVars, bufVars, RxLabels, TypeOK
<1>2. /\ ~edge /\ isrPc = "idle"
      /\ \A u \in Threads \ {t} : pc[u] = "none" /\ pc'[u] = "none"
  BY <1>0, <1>1, Alone DEF TypeOK
<1>3. FrameInv'
  BY <1>0, <1>1, <1>2, ActiveFrame DEF DataInv
<1>4. ASSUME NEW u \in Threads \ {t}
      PROVE  CallbackInv(u)'
  <2>1. reply'[u] = ZeroReply
    BY <1>2 DEF DataInv, CallbackInv, InLocals
  <2> QED
    BY <1>2, <2>1, IdleCallback
<1>5. ReplyMatches'
  BY <1>0, <1>1, ActiveNotTX DEF DataInv, ReplyMatches
<1> QED
  BY <1>3, <1>4, <1>5 DEF DataInv

\* The facts the lemmas below share.
RxFacts(t) ==
    /\ ~edge /\ isrPc = "idle" /\ pc[t] # "none"
    /\ \A u \in Threads \ {t} : pc[u] = "none" /\ pc'[u] = "none"
    /\ CallbackInv(t) /\ Midway(t, Mac(t))
    /\ \A m \in Macs : Consistent(m) \/ (pc[t] \in DbLabels /\ Mac(t) = m)

\* While frames do not overlap, rx_f has these facts at each of its labels.
LEMMA RxHasFacts ==
  ASSUME TypeInv, TokenInv, DataInv, NEW t \in Threads, NEW from \in RxLabels, NEW to,
         RxGoto(t, from, to)
  PROVE  /\ RxFacts(t)
         /\ pc[t] = from /\ pc' = [pc EXCEPT ![t] = to] /\ pc'[t] = to
         /\ UNCHANGED <<mode, fifo, open, spid, gpio, rxBuf, rxCrc, txBuf>>
<1>1. /\ TypeOK /\ pc[t] = from /\ pc' = [pc EXCEPT ![t] = to] /\ from # "none"
      /\ pc'[t] = to
      /\ UNCHANGED <<mode, fifo, open, spid, gpio, rxBuf, rxCrc, txBuf>>
  BY DEF RxGoto, At, RxLabels, TypeInv, TypeOK, chipVars, pinVars, bufVars
<1>2. \A u \in Threads \ {t} : pc[u] = "none" /\ pc'[u] = "none"
  BY <1>1, Alone DEF TypeOK
<1> QED
  BY <1>1, <1>2, Alone, OthersConsistent DEF RxFacts, DataInv

\* Setting one field of a thread's answer (hybrid_gateway.cpp:85, 99-100).
LEMMA SetReply ==
  ASSUME NEW g, reply \in [Threads -> Replies], NEW t \in Threads
  PROVE  /\ \A v \in Counts \cup {-1, 0} : g = [reply EXCEPT ![t].ack = v] =>
             /\ g[t] = [ack |-> v, needReboot |-> reply[t].needReboot]
             /\ \A u \in Threads \ {t} : g[u] = reply[u]
         /\ g = [reply EXCEPT ![t].needReboot = TRUE] =>
             /\ g[t] = [ack |-> reply[t].ack, needReboot |-> TRUE]
             /\ \A u \in Threads \ {t} : g[u] = reply[u]
  BY DEF Replies

\* The CRC flag decides; the copy is the undamaged frame (hybrid_gateway.cpp:83-92).
LEMMA RxCopyData ==
  ASSUME TypeInv, TokenInv, DataInv, NEW t \in Threads, RxCrc(t) \/ RxCopy(t)
  PROVE  DataInv'
<1>0. PICK from \in {"crc", "copy"}, to \in {"reply", "copy", "query"} : RxGoto(t, from, to)
  BY DEF RxCrc, RxCopy
<1>1. /\ RxFacts(t)
      /\ pc[t] = from /\ pc' = [pc EXCEPT ![t] = to] /\ pc'[t] = to
      /\ UNCHANGED <<mode, fifo, open, spid, gpio, rxBuf, rxCrc, txBuf>>
  BY <1>0, RxHasFacts DEF RxLabels
<1>2. UNCHANGED <<status, vcount, nbBuf, pipe>> /\ DueReply' = DueReply
  BY <1>1 DEF RxCrc, RxCopy, dbVars, nbVars, DueReply
<1>3. Checked /\ Checked' /\ reply[t] = ZeroReply
  BY <1>1 DEF RxFacts, CallbackInv, HasFrame, InLocals, Checked
<1>4. \A u \in Threads \ {t} : reply'[u] = reply[u]
  BY DEF RxCrc, RxCopy, TypeInv, TypeOK
<1>5. CallbackInv(t)'
  <2>1. CASE RxCrc(t) /\ rxCrc
    <3> DEFINE ack == IF rxCrc THEN -1 ELSE reply[t].ack
    <3>1. reply' = [reply EXCEPT ![t].ack = ack] /\ RxGoto(t, "crc", IF rxCrc THEN "reply" ELSE "copy")
      BY <2>1, Zenon DEF RxCrc
    <3>2. ack = -1 /\ to = "reply"
      BY <1>0, <1>1, <2>1, <3>1 DEF RxGoto, At, TypeInv, TypeOK
    <3> HIDE DEF ack
    <3>3. reply'[t] = [ack |-> -1, needReboot |-> FALSE]
      <4>1. reply' = [reply EXCEPT ![t].ack = -1]
        BY <3>1, <3>2, Zenon
      <4>2. reply'[t] = [ack |-> -1, needReboot |-> reply[t].needReboot]
        BY <4>1, SetReply DEF TypeInv, TypeOK
      <4> QED
        BY <1>3, <4>2 DEF ZeroReply
    <3> QED
      BY <1>1, <1>2, <2>1, <3>2, <3>3 DEF CallbackInv, DueReply, HasFrame, HasData, InLocals, InBuf, InFifo
  <2>2. CASE RxCrc(t) /\ ~rxCrc
    <3>1. to = "copy" /\ reply'[t] = ZeroReply
      BY <1>1, <1>3, <2>2 DEF RxCrc, RxGoto, At, ZeroReply, TypeInv, TypeOK
    <3> QED
      BY <1>1, <1>3, <2>2, <3>1 DEF CallbackInv, HasFrame, HasData, InLocals, InBuf, InFifo
  <2>3. CASE RxCopy(t)
    <3>1. to = "query" /\ reply'[t] = ZeroReply /\ data'[t] = rxBuf /\ ~rxCrc
      BY <1>1, <1>3, <2>3 DEF RxCopy, RxGoto, At, RxFacts, CallbackInv, TypeInv, TypeOK
    <3> QED
      BY <1>1, <1>3, <2>3, <3>1 DEF CallbackInv, HasFrame, HasData, InLocals, InBuf, InFifo
  <2> QED
    BY <2>1, <2>2, <2>3
<1>6. RegistryInv'
  <2>1. \A m \in Macs : Consistent(m)'
    BY <1>1, <1>2, <1>0 DEF RxFacts, DbLabels, Consistent
  <2>2. to = "query" => data'[t] \in Packets
    BY <1>3, <1>1, <1>0 DEF RxCrc, RxCopy, RxGoto, At, Checked, TypeInv, TypeOK
  <2>3. Midway(t, Mac(t))'
    BY <1>0, <1>1, <2>1, <2>2 DEF Midway, Mac, Packets
  <2>4. \A u \in Threads \ {t} : Midway(u, Mac(u))'
    BY <1>1 DEF RxFacts, Midway
  <2> QED
    BY <2>1, <2>3, <2>4 DEF RegistryInv
<1>7. StreamInv'
  BY <1>2 DEF DataInv, StreamInv
<1> QED
  BY <1>0, <1>4, <1>5, <1>6, <1>7, RxData DEF RxLabels

\* Up to the decision to reboot, rx_f works on the registry alone.
LEMMA RxDbData ==
  ASSUME TypeInv, TokenInv, DataInv, NEW t \in Threads,
         NEW from \in DbLabels \ {"reboot"}, NEW to \in (DbLabels \ {"query"}) \cup {"info"},
         RxGoto(t, from, to), UNCHANGED <<localVars, nbVars>>,
         \A m \in Macs \ {Mac(t)} : status'[m] = status[m] /\ vcount'[m] = vcount[m],
         Midway(t, Mac(t))',
         to = "info" => Consistent(Mac(t))' /\ status'[Mac(t)] = "Good"
  PROVE  DataInv'
<1>1. /\ RxFacts(t)
      /\ pc[t] = from /\ pc' = [pc EXCEPT ![t] = to] /\ pc'[t] = to
      /\ UNCHANGED <<mode, fifo, open, spid, gpio, rxBuf, rxCrc, txBuf>>
  BY RxHasFacts DEF RxLabels, DbLabels
<1>2. UNCHANGED <<data, reply, info, nbBuf, pipe>> /\ Mac(t)' = Mac(t)
  BY DEF localVars, nbVars, Mac
<1>3. from \in HasData /\ to \in HasData
  BY DEF DbLabels, HasData
<1>4. CallbackInv(t)'
  <2>1. Checked' /\ ~rxCrc' /\ data'[t] = rxBuf' /\ reply'[t] = ZeroReply
    BY <1>1, <1>2, <1>3 DEF RxFacts, CallbackInv, Checked, InLocals, DbLabels
  <2>2. to = "info" =>
           /\ reply'[t] = [ack |-> 0, needReboot |-> status'[Mac(t)] = "Bad"]
           /\ status'[Mac(t)] # "Newby"
    BY <2>1 DEF ZeroReply
  <2> QED
    BY <1>1, <1>2, <1>3, <2>1, <2>2
       DEF CallbackInv, DbLabels, HasFrame, HasData, InLocals, InBuf, InFifo
<1>5. RegistryInv'
  BY <1>1, <1>2, RegistryKept DEF RxFacts, DataInv
<1>6. StreamInv'
  BY <1>2 DEF DataInv, StreamInv
<1> QED
  BY <1>2, <1>4, <1>5, <1>6, RxData DEF RxLabels, DbLabels

\* _processDBbyStatus branches on the status, then registers the sensor or forgives it
\* (hybrid_gateway.cpp:33-46).
LEMMA RxStatusData ==
  ASSUME TypeInv, TokenInv, DataInv, NEW t \in Threads,
         RxQuery(t) \/ RxSave(t) \/ RxActivate(t)
  PROVE  DataInv'
<1>0. DbTypeOK /\ ErrorLimit \in Nat /\ UNCHANGED <<localVars, nbVars>> /\ data' = data
  BY GatewayAssumption DEF TypeInv, TypeOK, RxQuery, RxSave, RxActivate, localVars
<1>1. ASSUME NEW from \in HasData, NEW to, RxGoto(t, from, to)
      PROVE  Mac(t) \in Macs /\ pc[t] = from /\ pc'[t] = to /\ RxFacts(t)
  BY <1>1, MacType, RxHasFacts DEF RxLabels, HasData
<1>2. CASE RxQuery(t)
  <2> DEFINE to == CASE query(Mac(t)) = "Newby" -> "save_info"
                     [] query(Mac(t)) = "Bad"   -> "activate"
                     [] query(Mac(t)) = "Good"  -> "validity"
  <2>1. RxGoto(t, "query", to) /\ UNCHANGED dbVars
    BY <1>2 DEF RxQuery
  <2>2. Mac(t) \in Macs /\ pc[t] = "query" /\ pc'[t] = to /\ Consistent(Mac(t))
    BY <1>1, <2>1 DEF HasData, RxFacts, Midway
  <2>3. \/ status[Mac(t)] = "Newby" /\ to = "save_info"
        \/ status[Mac(t)] = "Bad" /\ to = "activate"
        \/ status[Mac(t)] = "Good" /\ to = "validity"
    BY <1>0, <2>2 DEF query, DbTypeOK, Status
  <2>4. Midway(t, Mac(t))'
    BY <1>0, <2>1, <2>2, <2>3
       DEF Midway, Consistent, AtThrows, OverLimit, getErrorCount, dbVars, Mac
  <2> HIDE DEF to
  <2> QED
    BY <1>0, <2>1, <2>3, <2>4, RxDbData DEF DbLabels, dbVars
<1>3. CASE RxGoto(t, "save_info", "save_count") /\ saveClientInfo(Mac(t))
  <2>1. Mac(t) \in Macs /\ pc'[t] = "save_count" /\ status[Mac(t)] = "Newby" /\ AtThrows(Mac(t))
    BY <1>1, <1>3 DEF HasData, RxFacts, Midway
  <2>2. Midway(t, Mac(t))'
    BY <1>0, <1>3, <2>1 DEF Midway, saveClientInfo, AtThrows, DbTypeOK, Mac
  <2> QED
    BY <1>0, <1>3, <2>1, <2>2, RxDbData DEF DbLabels, saveClientInfo, DbTypeOK
<1>4. CASE RxGoto(t, "save_count", "validity") /\ saveClientCount(Mac(t))
  <2>1. Mac(t) \in Macs /\ pc'[t] = "validity" /\ status[Mac(t)] = "Good" /\ AtThrows(Mac(t))
    BY <1>1, <1>4 DEF HasData, RxFacts, Midway
  <2>2. Midway(t, Mac(t))'
    BY <1>0, <1>4, <2>1 DEF Midway, saveClientCount, AtThrows, Absent, DbTypeOK, Mac
  <2> QED
    BY <1>0, <1>4, <2>1, <2>2, RxDbData DEF DbLabels, saveClientCount, DbTypeOK
<1>5. CASE RxActivate(t)
  <2>1. RxGoto(t, "activate", "validity") /\ activate(Mac(t))
    BY <1>5 DEF RxActivate
  <2>2. Mac(t) \in Macs /\ pc'[t] = "validity" /\ status[Mac(t)] = "Bad" /\ OverLimit(Mac(t))
    BY <1>1, <2>1 DEF HasData, RxFacts, Midway
  <2>3. Midway(t, Mac(t))'
    BY <1>0, <2>1, <2>2
       DEF Midway, activate, AtThrows, Absent, OverLimit, getErrorCount, DbTypeOK, Mac
  <2> QED
    BY <1>0, <2>1, <2>2, <2>3, RxDbData DEF DbLabels, activate, DbTypeOK
<1> QED
  BY <1>2, <1>3, <1>4, <1>5 DEF RxSave

\* _processReplybyValidity counts and compares (hybrid_gateway.cpp:48-64).
LEMMA RxValidityData ==
  ASSUME TypeInv, TokenInv, DataInv, NEW t \in Threads,
         RxValid(t) \/ RxInvalid(t) \/ RxLimit(t)
  PROVE  DataInv'
<1>0. DbTypeOK /\ ErrorLimit \in Nat /\ UNCHANGED <<localVars, nbVars>> /\ data' = data
  BY GatewayAssumption DEF TypeInv, TypeOK, RxValid, RxInvalid, RxLimit, localVars
<1>1. ASSUME NEW from \in {"validity", "limit"}, NEW to, RxGoto(t, from, to)
      PROVE  /\ Mac(t) \in Macs /\ pc'[t] = to
             /\ status[Mac(t)] = "Good" /\ ~AtThrows(Mac(t))
  BY <1>1, MacType, RxHasFacts DEF RxLabels, HasData, RxFacts, Midway
<1>2. CASE RxValid(t)
  <2>1. RxGoto(t, "validity", "info") /\ resetErrorCount(Mac(t))
    BY <1>2 DEF RxValid
  <2>2. Mac(t) \in Macs /\ pc'[t] = "info" /\ status'[Mac(t)] = "Good" /\ vcount'[Mac(t)] = 0
    BY <1>0, <1>1, <2>1 DEF resetErrorCount, DbTypeOK
  <2>3. Midway(t, Mac(t))' /\ Consistent(Mac(t))'
    BY <1>0, <2>2 DEF Midway, Consistent, Absent, Mac
  <2> QED
    BY <1>0, <2>1, <2>2, <2>3, RxDbData DEF DbLabels, resetErrorCount, DbTypeOK
<1>3. CASE RxInvalid(t)
  <2>1. RxGoto(t, "validity", "limit") /\ increaseErrorCount(Mac(t))
    BY <1>3 DEF RxInvalid
  <2>2. /\ Mac(t) \in Macs /\ pc'[t] = "limit" /\ status'[Mac(t)] = "Good"
        /\ vcount'[Mac(t)] = vcount[Mac(t)] + 1 /\ vcount[Mac(t)] \in Nat
    BY <1>0, <1>1, <2>1 DEF increaseErrorCount, DbTypeOK, AtThrows
  <2>3. Midway(t, Mac(t))'
    BY <1>0, <2>2 DEF Midway, AtThrows, Absent, Mac
  <2> QED
    BY <1>0, <2>1, <2>2, <2>3, RxDbData DEF DbLabels, increaseErrorCount, DbTypeOK
<1>4. CASE RxLimit(t)
  <2>1. PICK to \in {"reboot", "info"} :
           RxGoto(t, "limit", to) /\ (to = "reboot" <=> OverLimit(Mac(t))) /\ UNCHANGED dbVars
    BY <1>4 DEF RxLimit
  <2>2. /\ Mac(t) \in Macs /\ pc'[t] = to /\ status'[Mac(t)] = "Good"
        /\ vcount' = vcount /\ vcount[Mac(t)] \in Nat
    BY <1>0, <1>1, <2>1 DEF dbVars, DbTypeOK, AtThrows
  <2>3. /\ Midway(t, Mac(t))'
        /\ to = "info" => Consistent(Mac(t))'
    BY <1>0, <2>1, <2>2 DEF Midway, Consistent, OverLimit, getErrorCount, Absent, Mac
  <2> QED
    BY <1>0, <2>1, <2>2, <2>3, RxDbData DEF DbLabels, dbVars
<1> QED
  BY <1>2, <1>3, <1>4

\* The request to reboot is noted in the registry and in the answer
\* (hybrid_gateway.cpp:55-60).
LEMMA RxRebootData ==
  ASSUME TypeInv, TokenInv, DataInv, NEW t \in Threads, RxReboot(t)
  PROVE  DataInv'
<1>1. /\ RxFacts(t) /\ Mac(t) \in Macs
      /\ pc[t] = "reboot" /\ pc' = [pc EXCEPT ![t] = "info"] /\ pc'[t] = "info"
      /\ UNCHANGED <<mode, fifo, open, spid, gpio, rxBuf, rxCrc, txBuf>>
  BY RxHasFacts, MacType DEF RxReboot, RxLabels, HasData
<1>2. UNCHANGED <<data, info, nbBuf, pipe, vcount>> /\ Mac(t)' = Mac(t)
  BY DEF RxReboot, reboot, nbVars, Mac
<1>3. status[Mac(t)] = "Good" /\ OverLimit(Mac(t)) /\ reply[t] = ZeroReply
  BY <1>1 DEF RxFacts, Midway, CallbackInv, InLocals
<1>4. status' = [status EXCEPT ![Mac(t)] = "Bad"]
  BY <1>3 DEF RxReboot, reboot
<1>5. status'[Mac(t)] = "Bad" /\ \A m \in Macs \ {Mac(t)} : status'[m] = status[m]
  BY <1>1, <1>4 DEF TypeInv, TypeOK, DbTypeOK
<1>6. /\ reply'[t] = [ack |-> 0, needReboot |-> TRUE]
      /\ \A u \in Threads \ {t} : reply'[u] = reply[u]
  <2>1. /\ reply'[t] = [ack |-> reply[t].ack, needReboot |-> TRUE]
        /\ \A u \in Threads \ {t} : reply'[u] = reply[u]
    BY SetReply DEF RxReboot, TypeInv, TypeOK
  <2> QED
    BY <1>3, <2>1 DEF ZeroReply
<1>7. CallbackInv(t)'
  <2>1. reply'[t] = [ack |-> 0, needReboot |-> status'[Mac(t)] = "Bad"]
    BY <1>5, <1>6
  <2>2. Checked' /\ ~rxCrc' /\ data'[t] = rxBuf'
    BY <1>1, <1>2 DEF RxFacts, CallbackInv, Checked, HasData
  <2> QED
    BY <1>1, <1>2, <1>5, <2>1, <2>2 DEF CallbackInv, HasFrame, HasData, InLocals, InBuf, InFifo
<1>8. RegistryInv'
  <2>1. Consistent(Mac(t))' /\ Midway(t, Mac(t))'
    BY <1>1, <1>2, <1>3, <1>5, GatewayAssumption
       DEF Consistent, Midway, OverLimit, getErrorCount, Absent, TypeInv, TypeOK, DbTypeOK
  <2> QED
    BY <1>1, <1>2, <1>5, <2>1, RegistryKept DEF RxFacts, DataInv
<1>9. StreamInv'
  BY <1>2 DEF DataInv, StreamInv
<1> QED
  BY <1>6, <1>7, <1>8, <1>9, RxData DEF RxReboot, RxLabels

\* The steps after the registry leave it alone: the answer and the gateway's part of
\* the record, then the record itself (hybrid_gateway.cpp:98-119).
LEMMA RxInfoData ==
  ASSUME TypeInv, TokenInv, DataInv, NEW t \in Threads, RxInfo(t)
  PROVE  DataInv'
<1>1. /\ RxFacts(t) /\ Mac(t) \in Macs
      /\ pc[t] = "info" /\ pc' = [pc EXCEPT ![t] = "pipe"] /\ pc'[t] = "pipe"
      /\ UNCHANGED <<mode, fifo, open, spid, gpio, rxBuf, rxCrc, txBuf>>
  BY RxHasFacts, MacType DEF RxInfo, RxLabels, HasData
<1>2. UNCHANGED <<data, nbBuf, pipe, status, vcount>> /\ Mac(t)' = Mac(t) /\ DueReply' = DueReply
  BY <1>1 DEF RxInfo, nbVars, dbVars, Mac, DueReply
<1>3. /\ data[t] = rxBuf /\ Checked /\ ~rxCrc
      /\ reply[t] = [ack |-> 0, needReboot |-> status[Mac(t)] = "Bad"]
      /\ status[Mac(t)] # "Newby"
  BY <1>1 DEF RxFacts, CallbackInv, HasData
<1>4. /\ reply'[t] = [ack |-> data[t].count, needReboot |-> reply[t].needReboot]
      /\ \A u \in Threads \ {t} : reply'[u] = reply[u]
  <2>1. data[t].count \in Counts
    BY <1>3 DEF Checked, Packets
  <2> QED
    BY <2>1, SetReply DEF RxInfo, TypeInv, TypeOK
<1>5. reply'[t] = DueReply
  <2>1. Mac(t) = rxBuf.mac
    BY <1>3 DEF Mac
  <2> QED
    BY <1>3, <1>4, <2>1 DEF DueReply
<1>6. info'[t].status = statusToint(status[Mac(t)])
  <2>1. info'[t] = setInfo(Mac(t), info[t])
    BY DEF RxInfo, TypeInv, TypeOK
  <2> QED
    BY <1>3, <2>1 DEF setInfo
<1>7. CallbackInv(t)'
  <2>1. Checked' /\ ~rxCrc' /\ data'[t] = rxBuf'
    BY <1>1, <1>2, <1>3 DEF Checked
  <2> QED
    BY <1>1, <1>2, <1>5, <1>6, <2>1
       DEF CallbackInv, HasFrame, HasData, InLocals, InBuf, InFifo, Mac
<1>8. RegistryInv'
  <2>1. Consistent(Mac(t))' /\ Midway(t, Mac(t))'
    BY <1>1, <1>2 DEF RxFacts, DbLabels, Consistent, Midway
  <2> QED
    BY <1>1, <1>2, <2>1, RegistryKept DEF RxFacts, DataInv
<1>9. StreamInv'
  BY <1>2 DEF DataInv, StreamInv
<1> QED
  BY <1>4, <1>7, <1>8, <1>9, RxData DEF RxInfo, RxLabels

\* The record is honest because the answer is (hybrid_gateway.cpp:103-119).
LEMMA RxPipeData ==
  ASSUME TypeInv, TokenInv, DataInv, NEW t \in Threads, RxPipe(t)
  PROVE  DataInv'
<1>1. /\ RxFacts(t)
      /\ pc[t] = "pipe" /\ pc' = [pc EXCEPT ![t] = "reply"] /\ pc'[t] = "reply"
      /\ UNCHANGED <<mode, fifo, open, spid, gpio, rxBuf, rxCrc, txBuf>>
  BY RxHasFacts DEF RxPipe, RxLabels
<1>2. /\ UNCHANGED <<data, reply, info, nbBuf, status, vcount>>
      /\ Mac(t)' = Mac(t) /\ DueReply' = DueReply
  BY <1>1 DEF RxPipe, localVars, dbVars, Mac, DueReply
<1>3. /\ data[t] = rxBuf /\ Checked /\ ~rxCrc /\ reply[t] = DueReply
      /\ info[t].status = statusToint(status[Mac(t)])
  BY <1>1 DEF RxFacts, CallbackInv, HasData
<1>4. Honest(Record(t))
  <2>1. rxBuf.ok /\ Mac(t) = rxBuf.mac /\ rxBuf.mac \in Macs
    BY <1>3 DEF Checked, Mac, Packets
  <2>2. reply[t].needReboot = (status[Mac(t)] = "Bad")
    BY <1>3, <2>1 DEF DueReply
  <2>3. info[t].status = statusToint("Bad") <=> status[Mac(t)] = "Bad"
    BY <1>3, <2>1 DEF statusToint, TypeInv, TypeOK, DbTypeOK, Status
  <2>4. Record(t).sensor = data[t] /\ Record(t).status = info[t].status
        /\ Record(t).needReboot = reply[t].needReboot
    BY DEF Record
  <2> QED
    BY <1>3, <2>1, <2>2, <2>3, <2>4 DEF Honest
<1>5. StreamInv'
  <2>1. pipe' = Append(pipe, Record(t)) /\ pipe \in Seq(NB_Data)
    BY DEF RxPipe, TypeInv, TypeOK
  <2>2. ASSUME NEW i \in 1 .. Len(pipe')
        PROVE  Honest(pipe'[i])
    <3>1. Len(pipe) \in Nat /\ Len(pipe') = Len(pipe) + 1
      BY <2>1
    <3>2. CASE i = Len(pipe) + 1
      BY <1>4, <2>1, <3>2
    <3>3. CASE i # Len(pipe) + 1
      <4>1. i \in 1 .. Len(pipe) /\ pipe'[i] = pipe[i]
        BY <2>1, <2>2, <3>1, <3>3
      <4> QED
        BY <4>1 DEF DataInv, StreamInv
    <3> QED
      BY <3>2, <3>3
  <2> QED
    BY <1>2, <2>2 DEF DataInv, StreamInv, Honest
<1>6. CallbackInv(t)'
  BY <1>1, <1>2, <1>3 DEF CallbackInv, HasFrame, HasData, InLocals, InBuf, InFifo
<1>7. RegistryInv'
  <2>1. (Mac(t) \in Macs => Consistent(Mac(t))') /\ Midway(t, Mac(t))'
    BY <1>1, <1>2 DEF RxFacts, DbLabels, Consistent, Midway
  <2> QED
    BY <1>1, <1>2, <2>1, RegistryKept DEF RxFacts, DataInv
<1> QED
  BY <1>2, <1>5, <1>6, <1>7, RxData DEF RxPipe, RxLabels

\* The receiver is stopped, or the answer left in the buffer: the modem's state and
\* this thread's locals change, nothing else (hybrid_gateway.cpp:75-81, 146-147).
LEMMA RxEndsData ==
  ASSUME TypeInv, TokenInv, DataInv, NEW t \in Threads, RxStop(t) \/ RxReply(t)
  PROVE  DataInv'
<1>0. TypeOK
  BY DEF TypeInv
<1>1. PICK from \in {"rx_f", "rx_standby", "reply"}, to \in {"rx_standby", "crc", "end"} :
        /\ pc[t] = from /\ pc' = [pc EXCEPT ![t] = to] /\ pc'[t] = to /\ pc[t] # "none"
        /\ from = "rx_f" <=> to = "rx_standby"
        /\ from = "reply" <=> to = "end"
  BY <1>0 DEF RxStop, StopRemoveIsr, StopStandby, RxReply, At, TypeOK
<1>2. /\ UNCHANGED <<fifo, isrPc, rxBuf, rxCrc, status, vcount, nbBuf, pipe, up>>
      /\ DueReply' = DueReply
  BY DEF RxStop, StopRemoveIsr, StopStandby, RxReply, gwVars, dbVars, nbVars, chipVars,
         pinVars, bufVars, DueReply
<1>3. /\ ~edge /\ isrPc = "idle" /\ Stage(t) /\ CallbackInv(t)
      /\ \A u \in Threads \ {t} : pc[u] = "none" /\ pc'[u] = "none"
  BY <1>0, <1>1, Alone DEF DataInv
<1>4. ~edge' /\ (mode' = mode \/ mode' = "STDBY")
  BY <1>3 DEF RxStop, StopRemoveIsr, StopStandby, RxReply, lora_remove_dioISR,
     lora_set_satandby_mode, SetOpMode, chipVars, pinVars
<1>5. FrameInv'
  BY <1>0, <1>1, <1>2, <1>3, <1>4, ActiveFrame DEF DataInv
<1>6. from \in HasFrame => Checked'
  BY <1>1, <1>2, <1>3 DEF CallbackInv, Checked
<1>7. /\ \A u \in Threads : reply'[u] = ZeroReply
      /\ to = "end" => txBuf' = DueReply'
  <2>1. CASE RxStop(t)
    <3>1. \A u \in Threads : reply[u] = ZeroReply
      BY <1>1, <1>3, <2>1 DEF DataInv, CallbackInv, InLocals, RxStop, StopRemoveIsr, StopStandby, At
    <3> QED
      BY <1>1, <2>1, <3>1 DEF RxStop, StopRemoveIsr, StopStandby, At, gwVars, localVars
  <2>2. CASE RxReply(t)
    <3>1. reply' = [reply EXCEPT ![t] = ZeroReply] /\ txBuf' = reply[t] /\ pc[t] = "reply"
      BY <2>2 DEF RxReply, At
    <3>2. \A u \in Threads \ {t} : reply[u] = ZeroReply
      BY <1>3 DEF DataInv, CallbackInv, InLocals
    <3> QED
      BY <1>0, <1>2, <1>3, <3>1, <3>2 DEF TypeOK, CallbackInv
  <2> QED
    BY <2>1, <2>2
<1>8. from = "rx_f" => mode' = "RXCONT"
  BY <1>1, <1>3 DEF RxStop, StopRemoveIsr, StopStandby, RxReply, At, Stage, StageRx, chipVars
<1>9. ASSUME NEW u \in Threads
      PROVE  CallbackInv(u)'
  <2>1. CASE u # t
    BY <1>3, <1>7, <2>1, IdleCallback
  <2>2. CASE u = t
    BY <1>1, <1>6, <1>7, <1>8, <2>2
       DEF CallbackInv, HasFrame, HasData, InLocals, InBuf, InFifo
  <2> QED
    BY <2>1, <2>2
<1>10. RegistryInv'
  <2>1. \A u \in Threads : pc[u] \notin DbLabels /\ pc'[u] \notin DbLabels
    BY <1>1, <1>3 DEF DbLabels
  <2> QED
    BY <1>2, <2>1 DEF DataInv, RegistryInv, Midway, Consistent, DbLabels
<1>11. ReplyMatches'
  BY <1>0, <1>1, <1>2, <1>3, <1>4, ActiveNotTX DEF DataInv, ReplyMatches
<1>12. StreamInv'
  BY <1>2 DEF DataInv, StreamInv
<1> QED
  BY <1>5, <1>9, <1>10, <1>11, <1>12 DEF DataInv

\* While frames do not overlap at never throws (hybrid_gateway.cpp:48-53).
LEMMA NeverThrows ==
  ASSUME TypeInv, TokenInv, DataInv, NEW t \in Threads
  PROVE  ~RxThrows(t)
  BY DEF RxThrows, DataInv, RegistryInv, Midway

\* Every step of a thread.
LEMMA ThreadData ==
  ASSUME TypeInv, TokenInv, TokenInv', DataInv, NEW t \in Threads, ThreadStep(t)
  PROVE  DataInv'
  BY DriverData, RxEndsData, RxCopyData, RxStatusData, RxValidityData, RxRebootData,
     RxInfoData, RxPipeData, NeverThrows DEF ThreadStep, rx_f

-----------------------------------------------------------------------------
(* The interrupt thread, the client, the environment.                       *)

\* The interrupt thread runs while no thread does; it starts one or none
\* (lora.cpp:187-227).
LEMMA HandlerData ==
  ASSUME TypeInv, TokenInv, DataInv, UNCHANGED gwVars, \A u \in Threads : pc[u] = "none",
         FrameInv', mode' # "TX",
         \/ pc' = pc
         \/ \E t \in Callbacks, to \in {"rx_f", "receive"} :
               pc' = [pc EXCEPT ![t] = to] /\ (to = "rx_f" => Checked')
  PROVE  DataInv'
<1>1. UNCHANGED <<status, vcount, data, reply, info, nbBuf, pipe, up>>
  BY DEF gwVars, dbVars, localVars, nbVars
<1>2. /\ \A u \in Threads : pc'[u] \in {"none", "rx_f", "receive"}
      /\ \A u \in Threads : pc'[u] = "rx_f" => Checked'
  BY DEF TypeInv, TypeOK
<1>3. \A u \in Threads : reply'[u] = ZeroReply
  BY <1>1 DEF DataInv, CallbackInv, InLocals
<1>4. \A u \in Threads : CallbackInv(u)'
  BY <1>2, <1>3 DEF CallbackInv, HasFrame, HasData, InLocals, InBuf, InFifo
<1>5. RegistryInv'
  BY <1>1, <1>2 DEF DataInv, RegistryInv, Midway, Consistent, DbLabels
<1> QED
  BY <1>1, <1>4, <1>5 DEF DataInv, ReplyMatches, StreamInv

\* The payload and its CRC flag are read while the chip still holds both; the handler
\* of the other kind touches neither (lora.cpp:187-227).
LEMMA InterruptData ==
  ASSUME TypeInv, TokenInv, DataInv, IsrEnter \/ RxDone \/ TxDone, UNCHANGED gwVars
  PROVE  DataInv'
<1>0. TypeOK /\ pc \in [Threads -> Labels] /\ up' = up
  BY DEF TypeInv, TypeOK, gwVars
<1>1. edge \/ isrPc # "idle"
  BY DEF IsrEnter, RxDone, RxDoneRead, RxDoneCrc, RxDoneClear, RxDoneSpawn, TxDone,
     TxDoneClear, TxDoneStandby, TxDoneSpawn, IsrGoto
<1>2. (\A u \in Threads : pc[u] = "none") /\ Resting /\ up
  BY <1>1 DEF TokenInv, OneDriver, Down
<1>3. pc[Main] = "none"
  BY <1>2, GatewayAssumption
<1> USE DEF chipVars, pinVars, bufVars
<1>4. CASE IsrEnter
  <2>1. /\ edge /\ isrPc = "idle" /\ ~edge' /\ pc' = pc
        /\ UNCHANGED <<mode, irq, fifo, isr, open, spid, rxBuf, rxCrc>>
        /\ isrPc' \in {"idle", "rx_read", "tx_clear"}
        /\ isrPc' = "rx_read" => isr = "rx"
    BY <1>4 DEF IsrEnter
  <2>2. mode # "TX"
    BY <1>2, <2>1 DEF Resting, RxRaised, TxRaised, Sleepy
  <2>3. FrameInv'
    BY <1>0, <1>2, <1>3, <2>1 DEF DataInv, FrameInv, Flagged
  <2> QED
    BY <1>2, <2>1, <2>2, <2>3, HandlerData
<1>5. CASE RxDone
  <2>1. CASE RxDoneRead(FifoRead)
    <3>1. /\ isrPc = "rx_read" /\ isrPc' = "rx_crc" /\ rxBuf' \in FifoRead /\ pc' = pc
          /\ UNCHANGED <<mode, irq, edge, isr>>
      BY <2>1 DEF RxDoneRead, IsrGoto
    <3>2. Flagged(fifo) /\ ~edge /\ mode # "TX"
      BY <1>2, <3>1 DEF DataInv, FrameInv, Resting, RxRaised
    <3>3. FrameInv'
      BY <1>0, <1>2, <1>3, <3>1, <3>2 DEF FrameInv, Flagged, FifoRead
    <3> QED
      BY <1>2, <3>1, <3>2, <3>3, HandlerData
  <2>2. CASE RxDoneCrc
    <3>1. /\ isrPc = "rx_crc" /\ isrPc' = "rx_clear" /\ pc' = pc
          /\ rxCrc' = (Xfer => "PayloadCrcError" \in irq)
          /\ UNCHANGED <<mode, irq, edge, isr, rxBuf>>
      BY <2>2 DEF RxDoneCrc, IsrGoto
    <3>2. Flagged(rxBuf) /\ ~edge /\ mode # "TX" /\ Xfer
      BY <1>2, <3>1 DEF DataInv, FrameInv, Resting, RxRaised
    <3>3. FrameInv'
      BY <1>0, <1>2, <1>3, <3>1, <3>2 DEF FrameInv, Flagged, Checked
    <3> QED
      BY <1>2, <3>1, <3>2, <3>3, HandlerData
  <2>3. CASE RxDoneClear
    <3>1. /\ isrPc = "rx_clear" /\ isrPc' = "rx_spawn" /\ pc' = pc
          /\ edge' = edge \/ (edge' <=> edge \/ (isr # "none" /\ ~Pin(dio, irq) /\ Pin(dio, {})))
          /\ UNCHANGED <<mode, isr, rxBuf, rxCrc>>
      BY <2>3 DEF RxDoneClear, IsrGoto, lora_reset_irq_flags, DriveDio0
    <3>2. Checked /\ ~edge /\ mode # "TX"
      BY <1>2, <3>1 DEF DataInv, FrameInv, Resting, RxRaised
    <3>3. FrameInv'
      BY <1>0, <1>2, <1>3, <3>1, <3>2 DEF FrameInv, Checked, Pin
    <3> QED
      BY <1>2, <3>1, <3>2, <3>3, HandlerData
  <2>4. ASSUME NEW t \in Callbacks, RxDoneSpawn(t, "rx_f")
        PROVE  DataInv'
    <3>1. /\ isrPc = "rx_spawn" /\ isrPc' = "idle" /\ pc' = [pc EXCEPT ![t] = "rx_f"]
          /\ UNCHANGED <<mode, isr, edge, rxBuf, rxCrc>>
      BY <2>4 DEF RxDoneSpawn, IsrGoto, At
    <3>2. Checked' /\ ~edge /\ mode # "TX" /\ pc'[Main] = "none"
      BY <1>0, <1>2, <1>3, <3>1
         DEF DataInv, FrameInv, Resting, Checked, Callbacks
    <3>3. FrameInv'
      BY <1>0, <1>2, <3>1, <3>2 DEF FrameInv
    <3> QED
      BY <1>2, <3>1, <3>2, <3>3, HandlerData
  <2> QED
    BY <1>5, <2>1, <2>2, <2>3, <2>4 DEF RxDone
<1>6. CASE TxDone
  <2>1. /\ isrPc \in {"tx_clear", "tx_standby", "tx_spawn"}
        /\ isrPc' \in {"tx_standby", "tx_spawn", "idle"}
        /\ UNCHANGED <<isr, rxBuf, rxCrc>>
        /\ mode' = mode \/ mode' = "STDBY"
    BY <1>6 DEF TxDone, TxDoneClear, TxDoneStandby, TxDoneSpawn, IsrGoto,
       lora_set_satandby_mode, SetOpMode
  <2>2. isr = "tx" /\ Sleepy
    BY <1>2, <2>1 DEF Resting, TxRaised
  <2>3. pc' = pc \/ \E t \in Callbacks : pc' = [pc EXCEPT ![t] = "receive"]
    BY <1>6 DEF TxDone, TxDoneClear, TxDoneStandby, TxDoneSpawn, At
  <2>4. FrameInv' /\ mode' # "TX"
    BY <1>0, <1>2, <1>3, <2>1, <2>2, <2>3, GatewayAssumption DEF FrameInv, Sleepy, Callbacks
  <2> QED
    BY <1>2, <2>3, <2>4, HandlerData
<1> QED
  BY <1>4, <1>5, <1>6

\* A frame that does not overlap finds the chip cleared; the end of a transmission
\* disturbs nobody (lora.cpp:125-165).
LEMMA EnvironmentData ==
  ASSUME TypeInv, TokenInv, TokenInv', DataInv, Environment, ~Overlap
  PROVE  DataInv'
<1>0. TypeOK /\ pc \in [Threads -> Labels]
  BY DEF TypeInv, TypeOK
<1>1. /\ UNCHANGED <<isr, isrPc, gpio, open, spid, rxBuf, rxCrc, txBuf, pc>>
      /\ UNCHANGED <<up, status, vcount, data, reply, info, nbBuf, pipe>>
      /\ mode' # "TX"
  BY DEF Environment, Transmitted, Hear, ChipReceive, ChipTxDone, bufVars, gwVars, dbVars,
     localVars, nbVars
<1>d. DueReply' = DueReply
  BY <1>1 DEF DueReply
<1>2. edge' => (\A u \in Threads : pc[u] = "none") /\ Resting
  BY <1>1 DEF TokenInv, OneDriver
<1>3. RegistryInv' /\ ReplyMatches' /\ StreamInv'
  BY <1>1 DEF DataInv, RegistryInv, Midway, Consistent, ReplyMatches, StreamInv, Honest,
     AtThrows, OverLimit, getErrorCount, Mac
<1>4. CASE Transmitted
  <2>1. /\ mode = "TX" /\ mode' = "STDBY" /\ fifo' = fifo /\ irq' = irq \cup {"TxDone"}
        /\ edge' => edge \/ isr # "none"
    BY <1>4 DEF Transmitted, ChipTxDone, DriveDio0
  <2>2. ~(edge' /\ isr = "rx")
    BY <1>2, <2>1 DEF Resting, AtRest, Deaf, Sleepy, RxRaised, TxRaised, Listening, Transmitting,
       TypeInv, TypeOK, ModemTypeOK, IsrLabels
  <2>3. FrameInv'
    BY <1>1, <2>1, <2>2 DEF DataInv, FrameInv, Flagged, Checked
  <2>4. \A u \in Threads : CallbackInv(u)'
    BY <1>1, <1>d, <2>1 DEF DataInv, CallbackInv, Checked, Xfer, Mac
  <2> QED
    BY <1>3, <2>3, <2>4 DEF DataInv
<1>5. ASSUME NEW p \in Packets, Hear(p)
      PROVE  DataInv'
  <2>1. /\ mode = "RXCONT" /\ mode' = mode /\ fifo' = p /\ ~edge /\ isrPc = "idle"
        /\ irq' = irq \cup {"RxDone"} \cup (IF ~p.ok THEN {"PayloadCrcError"} ELSE {})
        /\ edge' => isr # "none"
    BY <1>5 DEF Hear, Quiet, ChipReceive, DriveDio0
  <2>2. edge' => irq = {}
    BY <1>2, <2>1 DEF Resting, AtRest, Deaf, Sleepy
  <2>3. edge' => Flagged(fifo)'
    BY <2>1, <2>2 DEF Flagged
  <2>4. FrameInv'
    BY <1>1, <2>1, <2>3 DEF DataInv, FrameInv
  <2>5. ASSUME NEW u \in Threads
        PROVE  CallbackInv(u)'
    <3>1. pc[u] \notin InFifo
      BY <2>1 DEF TokenInv, Stage, StageSend, SendLabels, InFifo, Sleepy
    <3> QED
      BY <1>1, <1>d, <2>1, <3>1 DEF DataInv, CallbackInv, Checked, Xfer, Mac
  <2> QED
    BY <1>3, <2>4, <2>5 DEF DataInv
<1> QED
  BY <1>4, <1>5 DEF Environment

\* The death of the process leaves nothing of it (hybrid_gateway.cpp:154-199).
LEMMA TerminateData ==
  ASSUME TypeInv, Terminate
  PROVE  DataInv'
<1>1. FrameInv' /\ \A t \in Threads : CallbackInv(t)'
  BY DEF Terminate, FrameInv, CallbackInv, HasFrame, HasData, InLocals, InBuf, InFifo
<1>2. RegistryInv'
  BY GatewayAssumption DEF Terminate, DbLost, RegistryInv, Midway, Consistent, Absent
<1>3. ReplyMatches' /\ StreamInv'
  BY DEF Terminate, ReplyMatches, StreamInv
<1> QED
  BY <1>1, <1>2, <1>3 DEF DataInv

\* A process that starts finds nothing of the one before.
LEMMA LaunchData ==
  ASSUME TypeInv, TokenInv, DataInv, Launch
  PROVE  DataInv'
<1>1. Down /\ \A t \in Threads : pc[t] = "none"
  BY DEF Launch, TokenInv
<1>2. /\ \A t \in Threads : pc'[t] = IF t = Main THEN "begin" ELSE "none"
      /\ UNCHANGED <<isr, isrPc, edge, rxBuf, rxCrc, status, vcount, data, reply, nbBuf, pipe>>
  BY DEF Launch, BootPc, pinVars, bufVars, dbVars, localVars
<1>3. rxBuf = NoData
  BY DEF Launch, DataInv, FrameInv
<1>4. FrameInv' /\ ReplyMatches' /\ StreamInv'
  BY <1>1, <1>2, <1>3 DEF Down, FrameInv, ReplyMatches, StreamInv, DataInv
<1>5. \A t \in Threads : CallbackInv(t)'
  BY <1>1, <1>2 DEF DataInv, CallbackInv, HasFrame, HasData, InLocals, InBuf, InFifo
<1>6. RegistryInv'
  BY <1>1, <1>2 DEF DataInv, RegistryInv, Midway, Consistent, DbLabels
<1> QED
  BY <1>4, <1>5, <1>6 DEF DataInv

\* The client thread takes the oldest record and changes none (hybrid_gateway.cpp:154-181).
LEMMA NbData ==
  ASSUME TypeInv, DataInv, NbStep \/ UNCHANGED vars
  PROVE  DataInv'
<1>1. UNCHANGED <<modemVars, status, vcount, data, reply, info, up>>
  BY DEF NbStep, NbConnect, NbRead, NbWrite, nbRest, vars, dbVars, localVars
<1>2. StreamInv'
  <2>1. CASE NbRead
    <3>1. pipe \in Seq(NB_Data) /\ pipe # <<>> /\ nbBuf' = Head(pipe) /\ pipe' = Tail(pipe)
      BY <2>1 DEF NbRead, TypeInv, TypeOK
    <3>2. /\ nbBuf' = pipe[1] /\ 1 \in 1 .. Len(pipe)
          /\ \A i \in 1 .. Len(pipe') : i + 1 \in 1 .. Len(pipe) /\ pipe'[i] = pipe[i + 1]
      BY <3>1
    <3> QED
      BY <3>2 DEF DataInv, StreamInv
  <2>2. CASE ~NbRead
    BY <2>2 DEF NbStep, NbConnect, NbWrite, vars, nbVars, DataInv, StreamInv
  <2> QED
    BY <2>1, <2>2
<1> QED
  BY <1>1, <1>2 DEF modemVars, chipVars, pinVars, bufVars, DataInv, FrameInv, Flagged,
     Checked, CallbackInv, DueReply, Xfer, Mac, RegistryInv, Midway, Consistent, AtThrows,
     OverLimit, getErrorCount, ReplyMatches

\* The registry, the buffers and the stream are empty at the start.
LEMMA InitData == Init => DataInv
<1> SUFFICES ASSUME Init PROVE DataInv
  OBVIOUS
<1>1. /\ \A t \in Threads : pc[t] \in {"begin", "none"} /\ (pc[t] = "begin" => t = Main)
      /\ \A t \in Threads : reply[t] = ZeroReply
      /\ edge = FALSE /\ isrPc = "idle" /\ rxBuf = NoData
      /\ nbBuf = NoData /\ pipe = <<>>
  BY DEF Init, Boot, ModemInit, BootPc
<1>2. FrameInv /\ ReplyMatches /\ StreamInv
  BY <1>1 DEF FrameInv, ReplyMatches, StreamInv
<1>3. \A t \in Threads : CallbackInv(t)
  BY <1>1 DEF CallbackInv, HasFrame, HasData, InLocals, InBuf, InFifo
<1>4. RegistryInv
  BY <1>1, GatewayAssumption
     DEF Init, Boot, DbInit, RegistryInv, Midway, Consistent, Absent
<1> QED
  BY <1>2, <1>3, <1>4 DEF DataInv

-----------------------------------------------------------------------------
(* What the gateway answers and reports while frames do not overlap.        *)

\* DataInv is inductive relative to TypeInv and TokenInv.
LEMMA StepData ==
  ASSUME ~Overlap
  PROVE  TypeInv /\ TokenInv /\ TokenInv' /\ DataInv /\ [Next]_vars => DataInv'
<1> SUFFICES ASSUME TypeInv, TokenInv, TokenInv', DataInv, [Next]_vars
             PROVE  DataInv'
  OBVIOUS
<1>1. CASE Interrupt
  BY <1>1, InterruptData, TerminateData DEF Interrupt, RxDoneReadFails
<1>2. CASE NbPeerGone
  BY <1>2, TerminateData DEF NbPeerGone
<1> QED
  BY <1>1, <1>2, ThreadData, EnvironmentData, LaunchData, NbData DEF Next

\* So all three always hold.
LEMMA DataAlways ==
  ASSUME ~Overlap
  PROVE  Spec => [](TypeInv /\ TokenInv /\ DataInv)
<1>1. TypeInv /\ TokenInv /\ DataInv /\ [Next]_vars => TypeInv' /\ TokenInv' /\ DataInv'
  BY StepType, StepToken, StepData
<1> QED
  BY InitTypeInv, InitToken, InitData, <1>1, PTL DEF Spec

\* A record on its way is in the client's buffer or in the pipe (pipe.cpp).
LEMMA StreamElements ==
  ASSUME TypeInv, NEW k \in 1 .. Len(Stream)
  PROVE  \/ nbBuf # NoData /\ Stream[k] = nbBuf
         \/ \E i \in 1 .. Len(pipe) : Stream[k] = pipe[i]
<1>1. pipe \in Seq(NB_Data)
  BY DEF TypeInv, TypeOK
<1>2. CASE nbBuf = NoData
  <2>1. Stream = pipe
    BY <1>1, <1>2 DEF Stream
  <2> QED
    BY <1>1, <2>1
<1>3. CASE nbBuf # NoData
  <2>1. Stream = <<nbBuf>> \o pipe /\ nbBuf \in NB_Data
    BY <1>3 DEF Stream, TypeInv, TypeOK
  <2>2. CASE k = 1
    BY <1>1, <1>3, <2>1, <2>2
  <2>3. CASE k # 1
    <3>1. Len(pipe) \in Nat /\ Len(Stream) = 1 + Len(pipe)
      BY <1>1, <2>1
    <3>2. k - 1 \in 1 .. Len(pipe) /\ Stream[k] = pipe[k - 1]
      BY <1>1, <2>1, <2>3, <3>1
    <3> QED
      BY <3>2
  <2> QED
    BY <2>2, <2>3
<1> QED
  BY <1>2, <1>3

\* Between two frames a sensor is Bad exactly while it is over the limit, and the two
\* maps know the same sensors (hybrid_gateway.cpp:33-64).
THEOREM RegistryAgrees ==
  ASSUME ~Overlap
  PROVE  Spec => []DbConsistent
<1>1. DataInv => DbConsistent
  BY DEF DataInv, RegistryInv, DbConsistent, Consistent
<1> QED
  BY DataAlways, <1>1, PTL

\* The answer on the air is the one the frame last read deserves
\* (hybrid_gateway.cpp:83-100, 146).
THEOREM AnswersMatch ==
  ASSUME ~Overlap
  PROVE  Spec => []ReplyMatches
<1>1. DataInv => ReplyMatches
  BY DEF DataInv
<1> QED
  BY DataAlways, <1>1, PTL

\* The public server is sent no damaged frame and no reboot request for a sensor that
\* is not Bad (hybrid_gateway.cpp:83-119).
THEOREM StreamHonest ==
  ASSUME ~Overlap
  PROVE  Spec => []RecordsHonest
<1>1. TypeInv /\ DataInv => RecordsHonest
  <2> SUFFICES ASSUME TypeInv, DataInv, NEW k \in 1 .. Len(Stream)
               PROVE  Honest(Stream[k])
    BY DEF RecordsHonest, Honest
  <2> QED
    BY StreamElements DEF DataInv, StreamInv
<1> QED
  BY DataAlways, <1>1, PTL

-----------------------------------------------------------------------------
(* What is left when frames overlap, whatever fails.                        *)

StreamKnown == /\ nbBuf # NoData => Known(nbBuf)
               /\ \A i \in 1 .. Len(pipe) : Known(pipe[i])

\* What a step of a running thread t that goes on to a label has left to show: the
\* registry forgets nothing, and only saveClient half-saves.
LEMMA OverlapStep ==
  ASSUME TypeInv, OverlapInv, NEW t \in Threads, NEW to, pc[t] # "none",
         pc' = [pc EXCEPT ![t] = to], up' = up,
         \A m \in Macs : /\ status[m] # "Newby" => status'[m] # "Newby"
                         /\ vcount[m] # Absent => vcount'[m] # Absent
                         /\ rcount[m] > 0 => rcount'[m] > 0,
         \A u \in Threads \ {t} : data'[u] = data[u] /\ reply'[u] = reply[u] /\ info'[u] = info[u],
         \A m \in Macs : status[m] = "Newby" /\ status'[m] # "Newby" =>
                            to = "save_count" /\ data'[t].mac = m,
         pc[t] = "save_count" => vcount'[Mac(t)] # Absent,
         Remembers(t)', StreamKnown'
  PROVE  OverlapInv'
<1>0. TypeOK /\ DbTypeOK /\ pc \in [Threads -> Labels] /\ pc'[t] = to
  BY DEF TypeInv, TypeOK
<1>1. up'
  BY DEF OverlapInv
<1>2. ASSUME NEW u \in Threads \ {t}
      PROVE  Remembers(u)'
  <2>1. Remembers(u) /\ pc'[u] = pc[u] /\ Mac(u)' = Mac(u)
    BY <1>0 DEF OverlapInv, Mac
  <2>2. pc[u] \in Registered => Mac(u) \in Macs
    BY DEF TypeInv, Registered, HasData, Mac, Packets
  <2>5. pc[u] = "info" /\ reply[u].needReboot => rcount'[Mac(u)] > 0
    BY <2>1, <2>2 DEF Registered, Remembers
  <2> QED
    BY <2>1, <2>2, <2>5 DEF Remembers
<1>3. ASSUME NEW m \in Macs
      PROVE  HalfSaved(m)'
  <2> SUFFICES ASSUME status'[m] # "Newby", vcount'[m] = Absent
               PROVE  \E u \in Threads : pc'[u] = "save_count" /\ Mac(u)' = m
    BY DEF HalfSaved, AtThrows
  <2>1. CASE status[m] = "Newby"
    BY <1>0, <2>1 DEF Mac
  <2>2. CASE status[m] # "Newby"
    <3>1. PICK u \in Threads : pc[u] = "save_count" /\ Mac(u) = m
      BY <2>2 DEF OverlapInv, HalfSaved, AtThrows
    <3>2. u # t
      BY <3>1
    <3> QED
      BY <1>0, <3>1, <3>2 DEF Mac
  <2> QED
    BY <2>1, <2>2
<1> QED
  BY <1>1, <1>2, <1>3 DEF OverlapInv, StreamKnown

\* The steps of rx_f on the registry.
LEMMA RxDbOverlap ==
  ASSUME TypeInv, OverlapInv, NEW t \in Threads,
         RxQuery(t) \/ RxSave(t) \/ RxActivate(t) \/ RxValid(t) \/ RxInvalid(t) \/ RxLimit(t)
  PROVE  OverlapInv'
<1>0. /\ TypeOK /\ DbTypeOK /\ UNCHANGED <<localVars, nbVars>> /\ UNCHANGED <<data, reply, info>>
      /\ up' = up
  BY DEF TypeInv, TypeOK, RxQuery, RxSave, RxActivate, RxValid, RxInvalid, RxLimit, RxGoto,
     localVars
<1>1. Remembers(t) /\ StreamKnown' /\ Mac(t)' = Mac(t)
  BY <1>0 DEF OverlapInv, StreamKnown, nbVars, Known, Mac
<1>2. ASSUME NEW from \in HasData, NEW to, RxGoto(t, from, to)
      PROVE  /\ Mac(t) \in Macs /\ pc[t] = from /\ pc[t] # "none"
             /\ pc' = [pc EXCEPT ![t] = to] /\ pc'[t] = to
             /\ from \notin InLocals => reply'[t] = ZeroReply
  BY <1>0, <1>1, <1>2, MacType DEF RxGoto, At, HasData, TypeOK, Remembers
<1>3. CASE RxQuery(t)
  <2> DEFINE to == CASE query(Mac(t)) = "Newby" -> "save_info"
                     [] query(Mac(t)) = "Bad"   -> "activate"
                     [] query(Mac(t)) = "Good"  -> "validity"
  <2>1. RxGoto(t, "query", to) /\ UNCHANGED dbVars
    BY <1>3 DEF RxQuery
  <2>2. \/ to = "save_info"
        \/ to \in {"activate", "validity"} /\ status[Mac(t)] # "Newby"
    BY <1>0, <1>2, <2>1 DEF query, DbTypeOK, Status, HasData
  <2> HIDE DEF to
  <2>3. Remembers(t)'
    BY <1>1, <1>2, <2>1, <2>2 DEF Remembers, Registered, InLocals, HasData, dbVars, Mac
  <2> QED
    BY <1>0, <1>1, <1>2, <2>1, <2>2, <2>3, OverlapStep DEF HasData, dbVars
<1>4. CASE RxGoto(t, "save_info", "save_count") /\ saveClientInfo(Mac(t))
  <2>1. /\ vcount' = vcount /\ rcount' = rcount /\ status'[Mac(t)] # "Newby"
        /\ \A m \in Macs : status[m] # "Newby" => status'[m] # "Newby"
        /\ \A m \in Macs \ {Mac(t)} : status'[m] = status[m]
    BY <1>0, <1>2, <1>4 DEF saveClientInfo, DbTypeOK, HasData
  <2>2. Remembers(t)'
    BY <1>1, <1>2, <1>4, <2>1 DEF Remembers, Registered, InLocals, HasData, Mac
  <2> QED
    BY <1>0, <1>1, <1>2, <1>4, <2>1, <2>2, OverlapStep DEF HasData, Mac
<1>5. ASSUME NEW from \in Registered \ {"info"}, NEW to \in {"validity", "limit", "reboot", "info"},
             RxGoto(t, from, to),
             \A m \in Macs : /\ (status'[m] = "Newby") = (status[m] = "Newby")
                             /\ vcount[m] # Absent => vcount'[m] # Absent,
             from = "save_count" => vcount'[Mac(t)] # Absent,
             rcount' = rcount
      PROVE  OverlapInv'
  <2>1. /\ Mac(t) \in Macs /\ pc[t] = from /\ pc[t] # "none" /\ reply'[t] = ZeroReply
        /\ pc' = [pc EXCEPT ![t] = to] /\ pc'[t] = to
    BY <1>2, <1>5 DEF HasData, Registered, InLocals
  <2>2. Remembers(t)'
    BY <1>1, <1>5, <2>1 DEF Remembers, Registered, ZeroReply, Mac
  <2> QED
    BY <1>0, <1>1, <1>5, <2>1, <2>2, OverlapStep
<1>6. CASE RxGoto(t, "save_count", "validity") /\ saveClientCount(Mac(t))
  <2>1. Mac(t) \in Macs
    BY <1>2, <1>6 DEF HasData
  <2> QED
    BY <1>0, <1>5, <1>6, <2>1 DEF saveClientCount, DbTypeOK, Absent, Registered
<1>7. CASE RxActivate(t)
  BY <1>0, <1>5, <1>7 DEF RxActivate, activate, DbTypeOK, Registered
<1>8. CASE RxValid(t)
  BY <1>0, <1>5, <1>8 DEF RxValid, resetErrorCount, DbTypeOK, Absent, Registered
<1>9. CASE RxInvalid(t)
  <2>1. \A m \in Macs : vcount[m] # Absent => vcount[m] + 1 # Absent
    BY <1>0 DEF DbTypeOK, Absent
  <2> QED
    BY <1>0, <1>5, <1>9, <2>1 DEF RxInvalid, increaseErrorCount, DbTypeOK, Registered
<1>10. CASE RxLimit(t)
  <2>1. PICK to \in {"reboot", "info"} : RxGoto(t, "limit", to) /\ UNCHANGED dbVars
    BY <1>10 DEF RxLimit
  <2> QED
    BY <1>5, <2>1 DEF dbVars, Registered
<1> QED
  BY <1>3, <1>4, <1>6, <1>7, <1>8, <1>9, <1>10 DEF RxSave

\* A reboot request is counted before it can be answered or reported
\* (hybrid_gateway.cpp:55-60, DataBase.cpp:62-77).
LEMMA RxRebootOverlap ==
  ASSUME TypeInv, OverlapInv, NEW t \in Threads, RxReboot(t)
  PROVE  OverlapInv'
<1>0. TypeOK /\ DbTypeOK /\ Remembers(t)
  BY DEF TypeInv, TypeOK, OverlapInv
<1>1. /\ Mac(t) \in Macs /\ pc[t] = "reboot" /\ pc' = [pc EXCEPT ![t] = "info"]
      /\ pc'[t] = "info" /\ UNCHANGED <<up, data, info, nbVars>> /\ reboot(Mac(t))
  BY <1>0, MacType DEF RxReboot, RxGoto, At, HasData, TypeOK
<1>2. status[Mac(t)] # "Newby"
  BY <1>0, <1>1 DEF Remembers, Registered
<1>3. /\ status'[Mac(t)] = "Bad" /\ \A m \in Macs \ {Mac(t)} : status'[m] = status[m]
      /\ vcount' = vcount
      /\ rcount'[Mac(t)] > 0 /\ \A m \in Macs \ {Mac(t)} : rcount'[m] = rcount[m]
  BY <1>0, <1>1, <1>2 DEF reboot, DbTypeOK
<1>4. \A u \in Threads \ {t} : reply'[u] = reply[u]
  BY <1>0 DEF RxReboot, TypeOK
<1>5. Remembers(t)' /\ StreamKnown'
  BY <1>1, <1>3 DEF Remembers, Registered, InLocals, Mac, OverlapInv, StreamKnown, nbVars, Known
<1> QED
  BY <1>1, <1>2, <1>3, <1>4, <1>5, OverlapStep

\* The steps of rx_f that leave the registry alone.
LEMMA RxLocalOverlap ==
  ASSUME TypeInv, OverlapInv, NEW t \in Threads,
         RxStop(t) \/ RxCrc(t) \/ RxCopy(t) \/ RxInfo(t) \/ RxPipe(t) \/ RxReply(t) \/ Driver(t)
  PROVE  OverlapInv'
<1>0. TypeOK /\ DbTypeOK /\ Remembers(t) /\ StreamKnown /\ UNCHANGED <<status, vcount, rcount, up>>
  BY DEF TypeInv, TypeOK, OverlapInv, StreamKnown, RxStop, RxCrc, RxCopy, RxInfo, RxPipe,
     RxReply, RxGoto, Driver, gwVars, dbVars
<1>1. ASSUME NEW from, NEW to, from \notin {"none", "save_count"}, pc[t] = from, pc' = [pc EXCEPT ![t] = to],
             \A u \in Threads \ {t} : data'[u] = data[u] /\ reply'[u] = reply[u] /\ info'[u] = info[u],
             Remembers(t)', StreamKnown'
      PROVE  OverlapInv'
  BY <1>0, <1>1, OverlapStep
<1>2. CASE RxStop(t) \/ Driver(t)
  <2>1. UNCHANGED <<data, reply, info, pipe, nbBuf>>
    BY <1>2 DEF RxStop, Driver, gwVars, localVars, nbVars
  <2>2. PICK from \in {"rx_f", "rx_standby"} \cup (DriverLabels \ {"none"}),
             to \in {"rx_standby", "crc"} \cup DriverLabels :
             pc[t] = from /\ pc' = [pc EXCEPT ![t] = to] /\ pc'[t] = to
    <3>1. CASE RxStop(t)
      BY <1>0, <3>1 DEF RxStop, StopRemoveIsr, StopStandby, At, TypeOK
    <3>2. CASE Driver(t)
      BY <1>0, <3>2, DriverMoves DEF DriverMove, TypeOK
    <3> QED
      BY <1>2, <3>1, <3>2
  <2>3. Remembers(t)' /\ StreamKnown'
    BY <1>0, <2>1, <2>2 DEF Remembers, StreamKnown, Known, Registered, InLocals, DriverLabels
  <2> QED
    BY <1>1, <2>1, <2>2, <2>3 DEF DriverLabels
<1>3. CASE RxCrc(t) \/ RxCopy(t)
  <2>1. PICK from \in {"crc", "copy"}, to \in {"reply", "copy", "query"} :
           pc[t] = from /\ pc' = [pc EXCEPT ![t] = to] /\ pc'[t] = to
    BY <1>0, <1>3 DEF RxCrc, RxCopy, RxGoto, At, TypeOK
  <2>2. /\ \A u \in Threads \ {t} : data'[u] = data[u] /\ reply'[u] = reply[u] /\ info'[u] = info[u]
        /\ UNCHANGED <<pipe, nbBuf>>
    BY <1>0, <1>3 DEF RxCrc, RxCopy, TypeOK, nbVars
  <2>3. to \in InLocals \/ reply'[t] = ZeroReply
    <3>1. reply[t] = ZeroReply
      BY <1>0, <2>1 DEF Remembers, InLocals
    <3>2. CASE RxCopy(t)
      BY <3>1, <3>2 DEF RxCopy
    <3>3. CASE RxCrc(t) /\ ~rxCrc
      BY <1>0, <3>1, <3>3 DEF RxCrc, TypeOK, ZeroReply
    <3>4. CASE RxCrc(t) /\ rxCrc
      BY <2>1, <1>0, <3>4 DEF RxCrc, RxGoto, At, TypeOK, InLocals
    <3> QED
      BY <1>3, <3>2, <3>3, <3>4
  <2>4. Remembers(t)' /\ StreamKnown'
    BY <1>0, <2>1, <2>2, <2>3 DEF Remembers, StreamKnown, Known, Registered, InLocals
  <2> QED
    BY <1>1, <2>1, <2>2, <2>4
<1>4. CASE RxInfo(t)
  <2>1. /\ Mac(t) \in Macs /\ pc[t] = "info" /\ pc' = [pc EXCEPT ![t] = "pipe"] /\ pc'[t] = "pipe"
        /\ data[t].count \in Counts /\ UNCHANGED <<data, pipe, nbBuf>>
    BY <1>0, <1>4, MacType DEF RxInfo, RxGoto, At, HasData, TypeOK, nbVars
  <2>2. /\ reply'[t].needReboot = reply[t].needReboot
        /\ \A u \in Threads \ {t} : reply'[u] = reply[u]
    <3>1. /\ reply'[t] = [ack |-> data[t].count, needReboot |-> reply[t].needReboot]
          /\ \A u \in Threads \ {t} : reply'[u] = reply[u]
      <4>1. data[t].count \in Counts \cup {-1, 0} /\ reply \in [Threads -> Replies]
        BY <1>0, <2>1 DEF TypeOK
      <4>2. reply' = [reply EXCEPT ![t].ack = data[t].count]
        BY <1>4, Zenon DEF RxInfo
      <4> QED
        BY <4>1, <4>2, SetReply, Zenon
    <3> QED
      BY <3>1
  <2>3. /\ info'[t] = [status |-> statusToint(status[Mac(t)]), rcount |-> rcount[Mac(t)]]
        /\ status[Mac(t)] # "Newby"
        /\ \A u \in Threads \ {t} : info'[u] = info[u]
    BY <1>0, <1>4, <2>1 DEF RxInfo, setInfo, TypeOK, Remembers, Registered
  <2>4. info'[t].status # statusToint("Newby") /\ info'[t].rcount = rcount[Mac(t)]
    BY <2>3 DEF statusToint
  <2>5. Remembers(t)' /\ StreamKnown'
    BY <1>0, <2>1, <2>2, <2>4 DEF Remembers, StreamKnown, Known, Registered, InLocals
  <2> QED
    BY <1>1, <2>1, <2>2, <2>3, <2>5
<1>5. CASE RxPipe(t)
  <2>1. /\ pc[t] = "pipe" /\ pc' = [pc EXCEPT ![t] = "reply"] /\ pc'[t] = "reply"
        /\ UNCHANGED <<data, reply, info, nbBuf>> /\ pipe' = Append(pipe, Record(t))
        /\ pipe \in Seq(NB_Data)
    BY <1>0, <1>5 DEF RxPipe, RxGoto, At, TypeOK, localVars
  <2>2. Known(Record(t))
    BY <1>0, <2>1 DEF Remembers, Known, Record
  <2>3. ASSUME NEW i \in 1 .. Len(pipe')
        PROVE  Known(pipe'[i])
    <3>1. Len(pipe) \in Nat /\ Len(pipe') = Len(pipe) + 1
      BY <2>1
    <3>2. CASE i = Len(pipe) + 1
      BY <2>1, <2>2, <3>2
    <3>3. CASE i # Len(pipe) + 1
      <4>1. i \in 1 .. Len(pipe) /\ pipe'[i] = pipe[i]
        BY <2>1, <2>3, <3>1, <3>3
      <4> QED
        BY <1>0, <4>1 DEF StreamKnown
    <3> QED
      BY <3>2, <3>3
  <2>4. Remembers(t)' /\ StreamKnown'
    BY <1>0, <2>1, <2>3 DEF Remembers, StreamKnown, Known, Registered, InLocals
  <2> QED
    BY <1>1, <2>1, <2>4
<1>6. CASE RxReply(t)
  <2>1. /\ pc[t] = "reply" /\ pc' = [pc EXCEPT ![t] = "end"] /\ pc'[t] = "end"
        /\ UNCHANGED <<pipe, nbBuf>> /\ reply'[t] = ZeroReply
        /\ \A u \in Threads \ {t} : data'[u] = data[u] /\ reply'[u] = reply[u] /\ info'[u] = info[u]
    BY <1>0, <1>6 DEF RxReply, At, TypeOK, nbVars
  <2>2. Remembers(t)' /\ StreamKnown'
    BY <1>0, <2>1 DEF Remembers, StreamKnown, Known, Registered, InLocals
  <2> QED
    BY <1>1, <2>1, <2>2
<1> QED
  BY <1>2, <1>3, <1>4, <1>5, <1>6

\* The interrupt thread, the client, the environment and the start of the program
\* forget nothing; the end of the process forgets everything.
LEMMA RestOverlap ==
  ASSUME TypeInv, OverlapInv,
         Interrupt \/ NbStep \/ NbPeerGone \/ Environment \/ Launch \/ UNCHANGED vars \/ Terminate
  PROVE  OverlapInv'
<1>0. TypeOK /\ pc \in [Threads -> Labels] /\ \A t \in Threads : Remembers(t)
  BY DEF TypeInv, TypeOK, OverlapInv
<1>1. CASE Terminate
  BY <1>1 DEF Terminate, DbLost, OverlapInv, Remembers, Registered, InLocals, HalfSaved
<1>2. ASSUME UNCHANGED <<dbVars, data, reply, info>>, StreamKnown',
             ~up' => isr' = "none" /\ isrPc' = "idle" /\ \A t \in Threads : pc'[t] = "none",
             \A t \in Threads : \/ pc'[t] = pc[t]
                                 \/ /\ pc[t] = "none"
                                    /\ pc'[t] \in {"rx_f", "receive", "begin"}
      PROVE  OverlapInv'
  <2>1. ASSUME NEW t \in Threads
        PROVE  Remembers(t)'
    BY <1>0, <1>2, <2>1 DEF Remembers, Registered, InLocals, dbVars, Mac
  <2>2. ASSUME NEW m \in Macs
        PROVE  HalfSaved(m)'
    BY <1>2, <2>2 DEF OverlapInv, HalfSaved, AtThrows, dbVars, Mac
  <2> QED
    BY <1>2, <2>1, <2>2 DEF OverlapInv, StreamKnown
<1>3. CASE UNCHANGED gwVars /\ (IsrEnter \/ RxDone \/ TxDone)
  <2>1. UNCHANGED <<dbVars, data, reply, info, pipe, nbBuf, up, isr>>
    BY <1>3 DEF gwVars, localVars, nbVars, IsrEnter, RxDone, RxDoneRead, RxDoneCrc, RxDoneClear,
       RxDoneSpawn, TxDone, TxDoneClear, TxDoneStandby, TxDoneSpawn
  <2>2. isr # "none" \/ isrPc # "idle"
    BY <1>3 DEF IsrEnter, RxDone, RxDoneRead, RxDoneCrc, RxDoneClear,
       RxDoneSpawn, TxDone, TxDoneClear, TxDoneStandby, TxDoneSpawn, IsrGoto
  <2>3. \A t \in Threads : pc'[t] = pc[t] \/ (pc[t] = "none" /\ pc'[t] \in {"rx_f", "receive"})
    BY <1>0, <1>3 DEF IsrEnter, RxDone, RxDoneRead, RxDoneCrc, RxDoneClear,
       RxDoneSpawn, TxDone, TxDoneClear, TxDoneStandby, TxDoneSpawn, At
  <2> QED
    BY <1>2, <2>1, <2>2, <2>3 DEF OverlapInv, StreamKnown, Known
<1>4. CASE NbStep
  <2>1. UNCHANGED <<dbVars, data, reply, info, up, isr, isrPc, pc>>
    BY <1>4 DEF NbStep, NbConnect, NbRead, NbWrite, nbRest, modemVars, pinVars, localVars
  <2>2. StreamKnown'
    <3>1. CASE NbRead
      <4>1. pipe \in Seq(NB_Data) /\ pipe # <<>> /\ nbBuf' = Head(pipe) /\ pipe' = Tail(pipe)
        BY <3>1 DEF NbRead, TypeInv, TypeOK
      <4>2. /\ nbBuf' = pipe[1] /\ 1 \in 1 .. Len(pipe)
            /\ \A i \in 1 .. Len(pipe') : i + 1 \in 1 .. Len(pipe) /\ pipe'[i] = pipe[i + 1]
        BY <4>1
      <4> QED
        BY <4>2 DEF OverlapInv, StreamKnown
    <3>2. CASE NbConnect \/ NbWrite
      BY <3>2 DEF NbConnect, NbWrite, OverlapInv, StreamKnown
    <3> QED
      BY <1>4, <3>1, <3>2 DEF NbStep
  <2> QED
    BY <1>2, <2>1, <2>2 DEF OverlapInv
<1>5. CASE Environment \/ UNCHANGED vars
  <2>1. UNCHANGED <<dbVars, data, reply, info, up, isr, isrPc, pc, pipe, nbBuf>>
    BY <1>5 DEF Environment, Transmitted, Hear, ChipReceive, ChipTxDone, gwVars, nbVars,
       localVars, vars, modemVars, pinVars
  <2> QED
    BY <1>2, <2>1 DEF OverlapInv, StreamKnown, Known
<1>6. CASE Launch
  <2>1. /\ UNCHANGED <<dbVars, data, reply, info, pipe, nbBuf>> /\ up'
        /\ \A t \in Threads : pc[t] = "none" /\ pc'[t] \in {"none", "begin"}
    BY <1>6 DEF Launch, BootPc, localVars, OverlapInv
  <2> QED
    BY <1>2, <2>1 DEF OverlapInv, StreamKnown, Known
<1> QED
  BY <1>1, <1>3, <1>4, <1>5, <1>6 DEF Interrupt, RxDoneReadFails, NbPeerGone

\* OverlapInv is inductive relative to TypeInv alone.
LEMMA StepOverlap == TypeInv /\ OverlapInv /\ [Next]_vars => OverlapInv'
  BY RxDbOverlap, RxRebootOverlap, RxLocalOverlap, RestOverlap
     DEF Next, ThreadStep, rx_f, RxThrows

\* Nothing is known at the start.
LEMMA InitOverlap == Init => OverlapInv
  BY DEF Init, Boot, ModemInit, BootPc, DbInit, OverlapInv, Remembers, Registered, InLocals,
     HalfSaved

\* So it always holds.
LEMMA OverlapAlways == Spec => [](TypeInv /\ OverlapInv)
<1>1. TypeInv /\ OverlapInv /\ [Next]_vars => TypeInv' /\ OverlapInv'
  BY StepType, StepOverlap
<1> QED
  BY InitTypeInv, InitOverlap, <1>1, PTL DEF Spec

\* However many callbacks run at once, std::map::at throws in one of them only while
\* another is between the two insertions of saveClient (DataBase.cpp:54-60, 155-164).
THEOREM ThrowsOnlyMidSave == Spec => []ThrowsMidSaveOnly
<1>1. TypeInv /\ OverlapInv => ThrowsMidSaveOnly
  <2> SUFFICES ASSUME TypeInv, OverlapInv, NEW t \in Threads,
                      pc[t] \in {"validity", "limit"}, AtThrows(Mac(t))
               PROVE  \E u \in Threads \ {t} : pc[u] = "save_count" /\ Mac(u) = Mac(t)
    BY DEF ThrowsMidSaveOnly
  <2>1. Mac(t) \in Macs /\ status[Mac(t)] # "Newby"
    BY DEF TypeInv, HasData, Mac, Packets, OverlapInv, Remembers, Registered
  <2> QED
    BY <2>1 DEF OverlapInv, HalfSaved
<1> QED
  BY OverlapAlways, <1>1, PTL

\* However many callbacks run at once, and whatever fails, no record leaves with the
\* status of an unknown sensor or an uncounted reboot request (hybrid_gateway.cpp:98-119).
THEOREM StreamKnows == Spec => []RecordsKnown
<1>1. TypeInv /\ OverlapInv => RecordsKnown
  <2> SUFFICES ASSUME TypeInv, OverlapInv, NEW k \in 1 .. Len(Stream)
               PROVE  Known(Stream[k])
    BY DEF RecordsKnown, Known
  <2> QED
    BY StreamElements DEF OverlapInv
<1> QED
  BY OverlapAlways, <1>1, PTL

-----------------------------------------------------------------------------
(* The reboot counts of the records on their way add up, while frames do not *)
(* overlap.                                                                 *)


\* The set that RebootsAddUp counts is finite.
LEMMA RequestsFinite ==
  ASSUME NEW s, NEW m, NEW i \in Int, NEW j \in Int
  PROVE  /\ IsFiniteSet(Requests(s, m, i, j))
         /\ Cardinality(Requests(s, m, i, j)) \in Nat
<1>1. IsFiniteSet(i .. j) /\ Requests(s, m, i, j) \in SUBSET (i .. j)
  BY FS_Interval DEF Requests
<1>2. IsFiniteSet(Requests(s, m, i, j))
  BY <1>1, FS_Subset
<1> QED
  BY <1>2, FS_CardinalityType

\* One record more: nothing changes for the records before it.
LEMMA RequestsKept ==
  ASSUME NEW s \in Seq(NB_Data), NEW r \in NB_Data, NEW m, NEW i \in Nat, NEW j \in 0 .. Len(s)
  PROVE  Requests(Append(s, r), m, i + 1, j) = Requests(s, m, i + 1, j)
<1>1. \A k \in i + 1 .. j : Append(s, r)[k] = s[k]
  OBVIOUS
<1> QED
  BY <1>1 DEF Requests

\* One record more: it counts if it is a request of m.
LEMMA RequestsAppend ==
  ASSUME NEW s \in Seq(NB_Data), NEW r \in NB_Data, NEW m, NEW i \in 0 .. Len(s)
  PROVE  Cardinality(Requests(Append(s, r), m, i + 1, Len(s) + 1)) =
           Cardinality(Requests(s, m, i + 1, Len(s)))
           + IF r.sensor.mac = m /\ r.needReboot THEN 1 ELSE 0
<1> DEFINE n == Len(s)
           s2 == Append(s, r)
           old == Requests(s, m, i + 1, n)
<1>1. n \in Nat /\ s2[n + 1] = r /\ IsFiniteSet(old) /\ Cardinality(old) \in Nat
  BY RequestsFinite
<1>2. Requests(s2, m, i + 1, n) = old
  BY <1>1, RequestsKept
<1>3. n + 1 \notin old
  BY <1>1 DEF Requests
<1>4. \A k \in i + 1 .. n + 1 : k \in i + 1 .. n \/ k = n + 1
  BY <1>1
<1>5. i + 1 .. n \subseteq i + 1 .. n + 1 /\ n + 1 \in i + 1 .. n + 1
  BY <1>1
<1> HIDE DEF s2, n
<1>6. CASE r.sensor.mac = m /\ r.needReboot
  <2>1. Requests(s2, m, i + 1, n + 1) = Requests(s2, m, i + 1, n) \cup {n + 1}
    BY <1>1, <1>4, <1>5, <1>6 DEF Requests
  <2>2. Cardinality(old \cup {n + 1}) = Cardinality(old) + 1
    BY <1>1, <1>3, FS_AddElement
  <2> QED
    BY <1>2, <1>6, <2>1, <2>2 DEF s2, n
<1>7. CASE ~(r.sensor.mac = m /\ r.needReboot)
  <2>1. Requests(s2, m, i + 1, n + 1) = Requests(s2, m, i + 1, n)
    BY <1>1, <1>4, <1>5, <1>7 DEF Requests
  <2> QED
    BY <1>1, <1>2, <1>7, <2>1 DEF s2, n
<1> QED
  BY <1>6, <1>7

\* One record less: the others move down by one.
LEMMA RequestsTail ==
  ASSUME NEW s \in Seq(NB_Data), s # <<>>, NEW m, NEW i \in Nat, NEW j \in 0 .. Len(s) - 1
  PROVE  Cardinality(Requests(Tail(s), m, i + 1, j)) = Cardinality(Requests(s, m, i + 2, j + 1))
<1> DEFINE new == Requests(Tail(s), m, i + 1, j)
           old == Requests(s, m, i + 2, j + 1)
           f == [k \in new |-> k + 1]
<1>0. Len(s) \in Nat
  OBVIOUS
<1>1. \A k \in i + 1 .. j : k + 1 \in i + 2 .. j + 1 /\ Tail(s)[k] = s[k + 1]
  BY <1>0
<1>2. \A k \in i + 2 .. j + 1 : k - 1 \in i + 1 .. j /\ k = (k - 1) + 1
  BY <1>0
<1>3. f \in [new -> old]
  BY <1>1 DEF Requests
<1>4. \A a, b \in new : f[a] = f[b] => a = b
  BY DEF Requests
<1>5. \A k \in old : k - 1 \in new /\ f[k - 1] = k
  BY <1>1, <1>2 DEF Requests
<1>6. f \in Bijection(new, old)
  BY <1>3, <1>4, <1>5 DEF Bijection, Injection, Surjection, IsInjective
<1>7. IsFiniteSet(new)
  BY <1>0, RequestsFinite
<1> HIDE DEF new, old, f
<1>8. Cardinality(old) = Cardinality(new)
  BY <1>6, <1>7, FS_Bijection DEF ExistsBijection
<1> QED
  BY <1>8 DEF new, old

-----------------------------------------------------------------------------
(* How each step of the gateway treats the counts.                          *)

\* The stream consists of records, the registry's counts are natural numbers.
LEMMA StreamType ==
  ASSUME TypeInv
  PROVE  Stream \in Seq(NB_Data) /\ rcount \in [Macs -> Nat]
<1>1. pipe \in Seq(NB_Data) /\ nbBuf \in NB_Data \cup {NoData} /\ rcount \in [Macs -> Nat]
  BY DEF TypeInv, TypeOK, DbTypeOK
<1> QED
  BY <1>1 DEF Stream

\* A step that neither counts a request nor writes, takes or drops a record.
LEMMA CountKept ==
  ASSUME CountInv, UNCHANGED <<rcount, nbBuf, pipe>>,
         ~up' => nbPc' = "none", nbPc' # "write" => nbBuf' = NoData,
         \A t \in Threads : pc'[t] = "pipe" => info'[t].rcount = rcount'[Mac(t)'],
         \A t \in Threads : Asks(t)' = Asks(t) /\ (Asks(t) => Mac(t)' = Mac(t))
  PROVE  CountInv'
<1>1. Stream' = Stream
  BY DEF Stream
<1>2. ASSUME NEW m
      PROVE  Pending(m)' = Pending(m)
  BY DEF Pending
<1>3. ASSUME NEW m \in Macs
      PROVE  Follows(Stream, m)' /\ AddsUp(Stream, m)'
  <2>1. Follows(Stream, m) /\ AddsUp(Stream, m)
    BY DEF CountInv
  <2> QED
    BY <1>1, <1>2, <2>1 DEF Follows, AddsUp, Requests
<1> QED
  BY <1>1, <1>3 DEF CountInv

\* A step that stays away from the end of rx_f's work on a frame.
LEMMA CountQuiet ==
  ASSUME CountInv, UNCHANGED <<rcount, nbBuf, pipe>>,
         ~up' => nbPc' = "none", nbPc' # "write" => nbBuf' = NoData,
         \A t \in Threads :
            \/ /\ pc'[t] = pc[t] /\ data'[t] = data[t] /\ reply'[t] = reply[t] /\ info'[t] = info[t]
            \/ /\ pc[t] \notin {"info", "pipe"} /\ pc'[t] # "pipe"
               /\ pc'[t] = "info" => ~reply'[t].needReboot
  PROVE  CountInv'
<1>1. \A t \in Threads : Asks(t)' = Asks(t) /\ (Asks(t) => Mac(t)' = Mac(t))
  BY DEF Asks, Mac
<1>2. \A t \in Threads : pc'[t] = "pipe" => info'[t].rcount = rcount'[Mac(t)']
  BY DEF CountInv, Mac
<1> QED
  BY <1>1, <1>2, CountKept

\* While t is active nobody else's request is open.
LEMMA OnlyPending ==
  ASSUME TypeInv, TokenInv, NEW t \in Threads, pc[t] # "none", NEW m
  PROVE  Pending(m) = IF Asks(t) /\ Mac(t) = m THEN 1 ELSE 0
<1>1. \A u \in Threads : Asks(u) => u = t
  BY DEF TokenInv, OneDriver, Asks
<1> QED
  BY <1>1 DEF Pending

\* The reboot request is counted before the record that carries it is written
\* (hybrid_gateway.cpp:55-60, DataBase.cpp:62-77).
LEMMA RxRebootCount ==
  ASSUME TypeInv, TokenInv, TokenInv', TypeInv', DataInv, CountInv, NEW t \in Threads, RxReboot(t)
  PROVE  CountInv'
<1>1. /\ RxFacts(t) /\ Mac(t) \in Macs /\ pc[t] = "reboot" /\ pc'[t] = "info" /\ Mac(t)' = Mac(t)
      /\ pc' = [pc EXCEPT ![t] = "info"]
  BY RxHasFacts, MacType DEF RxReboot, RxLabels, HasData, Mac
<1>2. UNCHANGED <<up, nbBuf, pipe, nbPc, data, info>> /\ Stream' = Stream
  BY DEF RxReboot, RxGoto, nbVars, Stream
<1>3. /\ rcount'[Mac(t)] = rcount[Mac(t)] + 1
      /\ \A m \in Macs \ {Mac(t)} : rcount'[m] = rcount[m]
  <2>1. status[Mac(t)] # "Newby"
    BY <1>1 DEF RxFacts, Midway
  <2> QED
    BY <1>1, <2>1, StreamType DEF RxReboot, reboot
<1>4. reply'[t].needReboot
  <2>1. reply'[t] = [ack |-> reply[t].ack, needReboot |-> TRUE]
    BY SetReply DEF RxReboot, TypeInv, TypeOK
  <2> QED
    BY <2>1
<1>5. \A m : Pending(m) = 0 /\ Pending(m)' = IF Mac(t) = m THEN 1 ELSE 0
  <2>1. ~Asks(t) /\ Asks(t)'
    BY <1>1, <1>4 DEF Asks
  <2>2. \A u \in Threads : (Asks(u) => u = t) /\ (Asks(u)' => u = t)
    BY <1>1 DEF RxFacts, Asks
  <2> QED
    BY <1>1, <2>1, <2>2 DEF Pending
<1>6. ASSUME NEW m \in Macs, NEW i \in 1 .. Len(Stream), Stream[i].sensor.mac = m
      PROVE  rcount'[m] = Stream[i].rcount
               + Cardinality(Requests(Stream, m, i + 1, Len(Stream))) + Pending(m)'
  <2>1. Stream[i] \in NB_Data /\ i \in Int /\ Len(Stream) \in Int /\ rcount[m] \in Nat
    BY StreamType
  <2>2. Stream[i].rcount \in Nat
    BY <2>1 DEF NB_Data
  <2>3. PICK n \in Nat : n = Cardinality(Requests(Stream, m, i + 1, Len(Stream)))
    BY <2>1, RequestsFinite
  <2>4. rcount[m] = Stream[i].rcount + n + 0
    BY <1>5, <1>6, <2>3 DEF CountInv, Follows
  <2>5. rcount'[m] = Stream[i].rcount + n + IF Mac(t) = m THEN 1 ELSE 0
    BY <1>3, <2>1, <2>2, <2>4
  <2> QED
    BY <1>5, <2>3, <2>5
<1>7. ASSUME NEW m \in Macs
      PROVE  Follows(Stream, m)' /\ AddsUp(Stream, m)'
  <2>1. Follows(Stream, m)'
    BY <1>2, <1>6 DEF Follows, Requests
  <2>2. AddsUp(Stream, m)'
    BY <1>2 DEF CountInv, AddsUp, Requests
  <2> QED
    BY <2>1, <2>2
<1>8. \A u \in Threads : pc'[u] # "pipe"
  BY <1>1 DEF RxFacts
<1> QED
  BY <1>2, <1>7, <1>8 DEF CountInv

\* A record written at the end follows the registry (hybrid_gateway.cpp:103-119).
LEMMA RxPipeCount ==
  ASSUME TypeInv, TokenInv, TypeInv', DataInv, CountInv, NEW t \in Threads, RxPipe(t)
  PROVE  CountInv'
<1> DEFINE r == Record(t)
           n == Len(Stream)
           m == Mac(t)
<1>1. /\ RxFacts(t) /\ m \in Macs /\ data[t] \in Packets /\ pc[t] = "pipe" /\ pc'[t] = "reply"
      /\ pc' = [pc EXCEPT ![t] = "reply"]
  BY RxHasFacts, MacType DEF RxPipe, RxLabels, HasData
<1>2. UNCHANGED <<up, nbBuf, nbPc, rcount, data, reply, info>>
  BY DEF RxPipe, RxGoto, dbVars, localVars
<1>3. r \in NB_Data
  BY <1>1 DEF Record, NB_Data, TypeInv, TypeOK, GatewayData, Replies
<1>4. Stream' = Append(Stream, r) /\ n \in Nat /\ Len(Stream') = n + 1
  <2>1. pipe' = Append(pipe, r) /\ pipe \in Seq(NB_Data) /\ nbBuf \in NB_Data \cup {NoData}
    BY DEF RxPipe, TypeInv, TypeOK
  <2> HIDE DEF r
  <2>2. Stream' = Append(Stream, r)
    BY <1>2, <1>3, <2>1 DEF Stream
  <2> QED
    BY <2>2, StreamType
<1>5. \A k \in 1 .. n : Stream'[k] = Stream[k]
  BY <1>4, StreamType
<1>6. Stream'[n + 1] = r
  BY <1>4, StreamType
<1>7. r.sensor.mac = m /\ r.rcount = rcount[m] /\ r.needReboot = reply[t].needReboot
  BY <1>1 DEF CountInv, Record, Mac
<1>8. \A x : Pending(x)' = 0 /\ Pending(x) = IF m = x /\ r.needReboot THEN 1 ELSE 0
  <2>1. \A x : Pending(x) = IF m = x /\ r.needReboot THEN 1 ELSE 0
    BY <1>1, <1>7, OnlyPending DEF Asks
  <2>2. \A u \in Threads : ~Asks(u)'
    BY <1>1 DEF RxFacts, Asks
  <2> QED
    BY <2>1, <2>2 DEF Pending
<1> HIDE DEF r, n, m
<1>9. ASSUME NEW x \in Macs, NEW i \in 1 .. n, Stream[i].sensor.mac = x
      PROVE  rcount[x] = Stream[i].rcount + Cardinality(Requests(Stream', x, i + 1, n + 1))
  <2>1. Stream[i] \in NB_Data /\ rcount[x] \in Nat /\ i \in 0 .. Len(Stream) /\ n = Len(Stream)
    BY <1>4, StreamType DEF n
  <2>2. Stream[i].rcount \in Nat
    BY <2>1 DEF NB_Data
  <2>3. PICK c \in Nat : c = Cardinality(Requests(Stream, x, i + 1, n))
    BY <1>4, <2>1, RequestsFinite
  <2>4. rcount[x] = Stream[i].rcount + c + Pending(x)
    BY <1>9, <2>1, <2>3 DEF CountInv, Follows
  <2>5. Cardinality(Requests(Stream', x, i + 1, n + 1)) = c + IF m = x /\ r.needReboot THEN 1 ELSE 0
    BY <1>3, <1>4, <1>7, <2>1, <2>3, StreamType, RequestsAppend
  <2> QED
    BY <1>8, <2>1, <2>2, <2>4, <2>5
<1>10. ASSUME NEW x \in Macs
       PROVE  Follows(Stream, x)'
  <2> SUFFICES ASSUME NEW i \in 1 .. n + 1, Stream'[i].sensor.mac = x
               PROVE  rcount[x] = Stream'[i].rcount
                        + Cardinality(Requests(Stream', x, i + 1, n + 1)) + 0
    BY <1>2, <1>4, <1>8 DEF Follows, Requests
  <2>1. CASE i = n + 1
    <3>1. Requests(Stream', x, n + 1 + 1, n + 1) = {}
      BY <1>4 DEF Requests
    <3>2. Cardinality(Requests(Stream', x, i + 1, n + 1)) = 0
      BY <2>1, <3>1, FS_EmptySet
    <3>3. rcount[x] \in Nat
      BY StreamType
    <3> QED
      BY <1>6, <1>7, <2>1, <3>2, <3>3
  <2>2. CASE i # n + 1
    <3>1. i \in 1 .. n /\ Stream'[i] = Stream[i]
      BY <1>4, <1>5, <2>2
    <3>2. Stream[i] \in NB_Data
      BY <3>1, StreamType DEF n
    <3>3. Stream[i].rcount \in Nat
      BY <3>2 DEF NB_Data
    <3>4. Cardinality(Requests(Stream', x, i + 1, n + 1)) \in Nat
      BY <1>4, <3>1, RequestsFinite
    <3> QED
      BY <1>9, <3>1, <3>3, <3>4
  <2> QED
    BY <2>1, <2>2
<1>11. ASSUME NEW x \in Macs
       PROVE  AddsUp(Stream, x)'
  <2> SUFFICES ASSUME NEW i \in 1 .. n + 1, NEW j \in 1 .. n + 1, i < j,
                      Stream'[i].sensor.mac = x, Stream'[j].sensor.mac = x
               PROVE  Stream'[j].rcount = Stream'[i].rcount
                        + Cardinality(Requests(Stream', x, i + 1, j))
    BY <1>4 DEF AddsUp, Requests
  <2>1. i \in 1 .. n /\ Stream'[i] = Stream[i]
    BY <1>4, <1>5
  <2>2. CASE j = n + 1
    BY <1>6, <1>7, <1>9, <2>1, <2>2
  <2>3. CASE j # n + 1
    <3>1. j \in 1 .. n /\ Stream'[j] = Stream[j]
      BY <1>4, <1>5, <2>3
    <3>2. Requests(Stream', x, i + 1, j) = Requests(Stream, x, i + 1, j)
      BY <1>3, <1>4, <2>1, <3>1, StreamType, RequestsKept DEF n
    <3> QED
      BY <2>1, <3>1, <3>2 DEF CountInv, AddsUp, n
  <2> QED
    BY <2>2, <2>3
<1>12. \A u \in Threads : pc'[u] # "pipe"
  BY <1>1 DEF RxFacts
<1> QED
  BY <1>2, <1>10, <1>11, <1>12 DEF CountInv

\* The gateway's part of the record is read after the last count (hybrid_gateway.cpp:98-107).
LEMMA RxInfoCount ==
  ASSUME TypeInv, TokenInv, DataInv, CountInv, NEW t \in Threads, RxInfo(t)
  PROVE  CountInv'
<1>1. /\ RxFacts(t) /\ Mac(t) \in Macs /\ pc[t] = "info" /\ pc'[t] = "pipe"
      /\ data[t].count \in Counts
  BY RxHasFacts, MacType DEF RxInfo, RxLabels, HasData
<1>2. UNCHANGED <<up, nbBuf, nbPc, pipe, rcount, data>> /\ Mac(t)' = Mac(t)
  BY DEF RxInfo, RxGoto, dbVars, nbVars, Mac
<1>3. reply'[t].needReboot = reply[t].needReboot
  <2>1. reply'[t] = [ack |-> data[t].count, needReboot |-> reply[t].needReboot]
    <3>1. data[t].count \in Counts \cup {-1, 0} /\ reply \in [Threads -> Replies]
      BY <1>1 DEF TypeInv, TypeOK
    <3>2. reply' = [reply EXCEPT ![t].ack = data[t].count]
      BY Zenon DEF RxInfo
    <3> QED
      BY <3>1, <3>2, SetReply, Zenon
  <2> QED
    BY <2>1
<1>4. info'[t].rcount = rcount[Mac(t)]
  <2>1. status[Mac(t)] # "Newby"
    BY <1>1 DEF RxFacts, CallbackInv
  <2>2. info'[t] = [status |-> statusToint(status[Mac(t)]), rcount |-> rcount[Mac(t)]]
    BY <2>1 DEF RxInfo, setInfo, TypeInv, TypeOK
  <2> QED
    BY <2>2
<1>5. \A u \in Threads : Asks(u)' = Asks(u) /\ (Asks(u) => Mac(u)' = Mac(u))
  BY <1>1, <1>2, <1>3 DEF RxFacts, Asks
<1>6. \A u \in Threads : pc'[u] = "pipe" => info'[u].rcount = rcount'[Mac(u)']
  BY <1>1, <1>2, <1>4 DEF RxFacts
<1> QED
  BY <1>2, <1>5, <1>6, CountKept DEF CountInv

\* The other steps of a thread count nothing and write nothing.
LEMMA ThreadCount ==
  ASSUME TypeInv, TypeInv', TokenInv, TokenInv', DataInv, CountInv, NEW t \in Threads, ThreadStep(t)
  PROVE  CountInv'
<1>0. TypeOK
  BY DEF TypeInv
<1>1. CASE RxReboot(t)
  BY <1>1, RxRebootCount
<1>2. CASE RxPipe(t)
  BY <1>2, RxPipeCount
<1>3. CASE RxInfo(t)
  BY <1>3, RxInfoCount
<1>4. ASSUME NEW from \in Labels \ {"none", "info", "pipe"}, NEW to \in Labels \ {"pipe"},
             pc[t] = from, pc' = [pc EXCEPT ![t] = to], UNCHANGED <<rcount, nbBuf, pipe, nbPc, up>>,
             \A u \in Threads \ {t} : data'[u] = data[u] /\ reply'[u] = reply[u] /\ info'[u] = info[u],
             to = "info" => reply' = reply /\ from # "reply"
      PROVE  CountInv'
  <2>1. pc'[t] = to /\ \A u \in Threads \ {t} : pc'[u] = pc[u]
    BY <1>0, <1>4 DEF TypeOK
  <2>2. to = "info" => ~reply'[t].needReboot
    <3>1. to = "info" => pc[t] \notin InLocals
      BY <1>4 DEF InLocals
    <3>2. to = "info" => reply[t] = ZeroReply
      BY <3>1 DEF DataInv, CallbackInv
    <3> QED
      BY <1>4, <3>2 DEF ZeroReply
  <2> QED
    BY <1>4, <2>1, <2>2, CountQuiet DEF CountInv
<1>5. CASE RxStop(t) \/ Driver(t)
  <2>1. UNCHANGED <<rcount, nbBuf, pipe, nbPc, up, data, reply, info>>
    BY <1>5 DEF RxStop, Driver, gwVars, dbVars, localVars, nbVars
  <2>2. PICK from \in {"rx_f", "rx_standby"} \cup (DriverLabels \ {"none"}),
             to \in {"rx_standby", "crc"} \cup DriverLabels :
             pc[t] = from /\ pc' = [pc EXCEPT ![t] = to]
    BY <1>5, DriverMoves DEF DriverMove, RxStop, StopRemoveIsr, StopStandby, At
  <2>3. from \in Labels \ {"none", "info", "pipe"} /\ to \in Labels \ {"info", "pipe"}
    BY <2>2 DEF Labels, RxLabels, DriverLabels
  <2> QED
    BY <1>4, <2>1, <2>2, <2>3
<1>6. CASE RxCrc(t) \/ RxCopy(t) \/ RxReply(t)
  <2>1. PICK from \in {"crc", "copy", "reply"}, to \in {"reply", "copy", "query", "end"} :
           pc[t] = from /\ pc' = [pc EXCEPT ![t] = to]
    BY <1>6 DEF RxCrc, RxCopy, RxReply, RxGoto, At
  <2>2. /\ \A u \in Threads \ {t} : data'[u] = data[u] /\ reply'[u] = reply[u] /\ info'[u] = info[u]
        /\ UNCHANGED <<rcount, nbBuf, pipe, nbPc, up>>
    BY <1>0, <1>6 DEF RxCrc, RxCopy, RxReply, RxGoto, dbVars, nbVars, TypeOK
  <2> QED
    BY <1>4, <2>1, <2>2 DEF Labels, RxLabels, DriverLabels
<1>7. CASE RxQuery(t) \/ RxSave(t) \/ RxActivate(t) \/ RxValid(t) \/ RxInvalid(t) \/ RxLimit(t)
  <2>1. UNCHANGED <<rcount, nbBuf, pipe, nbPc, up, data, reply, info>>
    BY <1>7 DEF RxQuery, RxSave, RxActivate, RxValid, RxInvalid, RxLimit, RxGoto, saveClientInfo,
       saveClientCount, activate, resetErrorCount, increaseErrorCount, dbVars, localVars, nbVars
  <2>2. PICK from \in {"query", "save_info", "save_count", "activate", "validity", "limit"},
             to \in {"save_info", "save_count", "activate", "validity", "limit", "reboot", "info"} :
             pc[t] = from /\ pc' = [pc EXCEPT ![t] = to]
    <3>1. CASE RxQuery(t)
      <4>1. data[t] \in Packets /\ Mac(t) \in Macs
        BY <3>1, MacType DEF RxQuery, HasData
      <4> QED
        BY <1>0, <3>1, <4>1 DEF RxQuery, RxGoto, At, query, TypeOK, DbTypeOK, Status
    <3>2. CASE RxSave(t) \/ RxActivate(t) \/ RxValid(t) \/ RxInvalid(t) \/ RxLimit(t)
      BY <3>2 DEF RxSave, RxActivate, RxValid, RxInvalid, RxLimit, RxGoto, At
    <3> QED
      BY <1>7, <3>1, <3>2
  <2> QED
    BY <1>4, <2>1, <2>2 DEF Labels, RxLabels
<1> QED
  BY <1>1, <1>2, <1>3, <1>5, <1>6, <1>7, NeverThrows DEF ThreadStep, rx_f

\* The client takes records in the order they were written (hybrid_gateway.cpp:154-181).
LEMMA NbCount ==
  ASSUME TypeInv, CountInv, NbStep
  PROVE  CountInv'
<1>1. UNCHANGED <<pc, data, reply, info, rcount, up>> /\ up
  BY DEF NbStep, NbConnect, NbRead, NbWrite, nbRest, modemVars, localVars, dbVars, CountInv
<1>2. \A m : Pending(m)' = Pending(m)
  BY <1>1 DEF Pending, Asks, Mac
<1>3. (nbPc' # "write" => nbBuf' = NoData)
      /\ \A t \in Threads : pc'[t] = "pipe" => info'[t].rcount = rcount'[Mac(t)']
  BY <1>1 DEF NbStep, NbConnect, NbRead, NbWrite, CountInv, Mac
<1>4. pipe \in Seq(NB_Data) /\ nbBuf \in NB_Data \cup {NoData}
  BY DEF TypeInv, TypeOK
<1>5. CASE Stream' = Stream
  BY <1>1, <1>2, <1>3, <1>5 DEF CountInv, Follows, AddsUp, Requests
<1>6. CASE Stream # <<>> /\ Stream' = Tail(Stream)
  <2> DEFINE s == Stream
  <2>1. /\ s \in Seq(NB_Data) /\ Len(s) \in Nat /\ Len(s) > 0 /\ Len(Stream') = Len(s) - 1
        /\ \A k \in 1 .. Len(s) - 1 : k + 1 \in 1 .. Len(s) /\ Stream'[k] = s[k + 1]
    BY <1>6, StreamType
  <2>2. ASSUME NEW m \in Macs, NEW i \in 1 .. Len(s) - 1, NEW j \in 1 .. Len(s) - 1
        PROVE  Cardinality(Requests(Stream', m, i + 1, j)) = Cardinality(Requests(s, m, i + 2, j + 1))
    BY <1>6, <2>1, RequestsTail
  <2> HIDE DEF s
  <2>3. ASSUME NEW m \in Macs, NEW i \in 1 .. Len(s) - 1, Stream'[i].sensor.mac = m
        PROVE  rcount[m] = Stream'[i].rcount
                 + Cardinality(Requests(Stream', m, i + 1, Len(s) - 1)) + Pending(m)
    <3>1. /\ i + 1 \in 1 .. Len(s) /\ Stream'[i] = s[i + 1] /\ s[i + 1].sensor.mac = m
          /\ Len(s) - 1 \in 1 .. Len(s) - 1 /\ (i + 1) + 1 = i + 2 /\ (Len(s) - 1) + 1 = Len(s)
      BY <2>1, <2>3
    <3>2. Follows(s, m)
      BY DEF CountInv, s
    <3>3. rcount[m] = s[i + 1].rcount + Cardinality(Requests(s, m, i + 2, Len(s))) + Pending(m)
      BY <3>1, <3>2 DEF Follows
    <3> QED
      BY <2>2, <3>1, <3>3
  <2>4. ASSUME NEW m \in Macs, NEW i \in 1 .. Len(s) - 1, NEW j \in 1 .. Len(s) - 1, i < j,
               Stream'[i].sensor.mac = m, Stream'[j].sensor.mac = m
        PROVE  Stream'[j].rcount = Stream'[i].rcount + Cardinality(Requests(Stream', m, i + 1, j))
    <3>0. i + 1 < j + 1 /\ (i + 1) + 1 = i + 2
      BY <2>1, <2>4
    <3>1. /\ i + 1 \in 1 .. Len(s) /\ Stream'[i] = s[i + 1] /\ s[i + 1].sensor.mac = m
          /\ j + 1 \in 1 .. Len(s) /\ Stream'[j] = s[j + 1] /\ s[j + 1].sensor.mac = m
      BY <2>1, <2>4, Zenon
    <3>2. AddsUp(s, m)
      BY DEF CountInv, s
    <3>3. s[j + 1].rcount = s[i + 1].rcount + Cardinality(Requests(s, m, i + 2, j + 1))
      BY <3>0, <3>1, <3>2 DEF AddsUp
    <3> QED
      BY <2>2, <3>1, <3>3
  <2>5. ASSUME NEW m \in Macs
        PROVE  Follows(Stream, m)' /\ AddsUp(Stream, m)'
    <3>1. Follows(Stream, m)'
      BY <1>1, <1>2, <2>1, <2>3 DEF Follows, Requests
    <3>2. AddsUp(Stream, m)'
      BY <2>1, <2>4 DEF AddsUp, Requests
    <3> QED
      BY <3>1, <3>2
  <2> QED
    BY <1>1, <1>3, <2>5 DEF CountInv
<1>7. CASE NbConnect
  BY <1>5, <1>7 DEF NbConnect, Stream
<1>8. CASE NbRead
  <2>1. nbBuf = NoData /\ pipe # <<>> /\ nbBuf' = Head(pipe) /\ pipe' = Tail(pipe)
    BY <1>8 DEF NbRead, CountInv
  <2>2. Head(pipe) \in NB_Data /\ <<Head(pipe)>> \o Tail(pipe) = pipe
    BY <1>4, <2>1
  <2>3. Stream = <<>> \o pipe /\ Stream' = <<Head(pipe)>> \o Tail(pipe)
    BY <2>1, <2>2, NoDataAssumption, Zenon DEF Stream
  <2> QED
    BY <1>4, <1>5, <2>2, <2>3
<1>9. CASE NbWrite
  <2>1. nbBuf' = NoData /\ pipe' = pipe
    BY <1>9 DEF NbWrite
  <2>2. CASE nbBuf = NoData
    BY <1>5, <2>1, <2>2 DEF Stream
  <2>3. CASE nbBuf # NoData
    <3>1. Stream = <<nbBuf>> \o pipe /\ Stream' = <<>> \o pipe
      BY <2>1, <2>3 DEF Stream
    <3>2. Stream # <<>> /\ Tail(<<nbBuf>> \o pipe) = pipe /\ <<>> \o pipe = pipe
      BY <1>4, <3>1
    <3> QED
      BY <1>6, <3>1, <3>2
  <2> QED
    BY <2>2, <2>3
<1> QED
  BY <1>7, <1>8, <1>9 DEF NbStep

\* The end of the process drops every record and every count.
LEMMA TerminateCount ==
  ASSUME Terminate
  PROVE  CountInv'
<1>1. /\ \A t \in Threads : pc'[t] = "none"
      /\ nbPc' = "none" /\ nbBuf' = NoData /\ pipe' = <<>>
  BY DEF Terminate
<1>2. Stream' = <<>>
  BY <1>1 DEF Stream
<1> QED
  BY <1>1, <1>2 DEF CountInv, Follows, AddsUp

\* The interrupt thread, the environment and the start of the program count nothing.
LEMMA RestCount ==
  ASSUME TypeInv, TokenInv, CountInv,
         (Interrupt /\ ~RxDoneReadFails) \/ Environment \/ Launch \/ UNCHANGED vars
  PROVE  CountInv'
<1>1. CASE Launch
  <2>1. /\ UNCHANGED <<rcount, nbBuf, pipe, data, reply, info>> /\ up' /\ nbBuf' = NoData
        /\ \A t \in Threads : pc[t] = "none" /\ pc'[t] \in {"none", "begin"}
    BY <1>1 DEF Launch, BootPc, dbVars, localVars, CountInv, TokenInv
  <2> QED
    BY <2>1, CountQuiet
<1>2. CASE (Interrupt /\ ~RxDoneReadFails) \/ Environment \/ UNCHANGED vars
  <2>1. UNCHANGED <<rcount, nbBuf, pipe, data, reply, info, nbPc, up>>
    BY <1>2 DEF Interrupt, Environment, Transmitted, Hear, gwVars, dbVars, localVars, nbVars, vars
  <2>2. \A t \in Threads : pc'[t] = pc[t] \/ (pc[t] = "none" /\ pc'[t] \in {"rx_f", "receive"})
    <3>1. pc \in [Threads -> Labels]
      BY DEF TypeInv, TypeOK
    <3> QED
      BY <1>2, <3>1 DEF Interrupt, IsrEnter, RxDone, RxDoneRead, RxDoneCrc, RxDoneClear,
         RxDoneSpawn, TxDone, TxDoneClear, TxDoneStandby, TxDoneSpawn, At, Environment,
         Transmitted, Hear, ChipReceive, ChipTxDone, vars, modemVars
  <2> QED
    BY <2>1, <2>2, CountQuiet DEF CountInv
<1> QED
  BY <1>1, <1>2

\* CountInv is inductive relative to the other invariants.
LEMMA StepCount ==
  ASSUME TypeInv, TypeInv', TokenInv, TokenInv', DataInv, CountInv, [Next]_vars
  PROVE  CountInv'
  BY ThreadCount, NbCount, TerminateCount, RestCount DEF Next, RxDoneReadFails, NbPeerGone

\* Nothing is counted at the start.
LEMMA InitCount == Init => CountInv
<1> SUFFICES ASSUME Init PROVE CountInv
  OBVIOUS
<1>1. /\ \A t \in Threads : pc[t] # "pipe"
      /\ up = TRUE /\ nbBuf = NoData /\ pipe = <<>>
  BY DEF Init, Boot, ModemInit, BootPc
<1>2. Stream = <<>>
  BY <1>1 DEF Stream
<1> QED
  BY <1>1, <1>2 DEF CountInv, Follows, AddsUp

\* Between two records of one sensor its reboot count grows by the reboot requests of
\* the later ones: the server can trust either (DataBase.cpp:62-77).
THEOREM CountsAddUp ==
  ASSUME ~Overlap
  PROVE  Spec => []RebootsAddUp
<1>1. TypeInv /\ CountInv => RebootsAddUp
  <2> SUFFICES ASSUME TypeInv, CountInv, NEW i \in 1 .. Len(Stream), NEW j \in 1 .. Len(Stream),
                      i < j, Stream[j].sensor.mac = Stream[i].sensor.mac
               PROVE  Stream[j].rcount = Stream[i].rcount
                        + Cardinality(Requests(Stream, Stream[i].sensor.mac, i + 1, j))
    BY DEF RebootsAddUp, Requests
  <2>0. Stream[i] \in NB_Data
    BY StreamType
  <2>1. Stream[i].sensor.mac \in Macs
    BY <2>0 DEF NB_Data, Packets
  <2> QED
    BY <2>1 DEF CountInv, AddsUp
<1>2. TypeInv /\ TokenInv /\ DataInv /\ CountInv /\ [Next]_vars
        => TypeInv' /\ TokenInv' /\ DataInv' /\ CountInv'
  BY StepType, StepToken, StepData, StepCount
<1> QED
  BY InitTypeInv, InitToken, InitData, InitCount, <1>1, <1>2, PTL DEF Spec
=============================================================================
