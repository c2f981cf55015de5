---------------------------- MODULE HybridGateway ----------------------------
(***************************************************************************)
(* The gateway process of main/hybrid_gateway.cpp: the LoRa driver, the     *)
(* sensor registry, the callbacks rx_f and tx_f that the driver runs on a   *)
(* new thread per interrupt, main, and the NB-IoT client thread behind the  *)
(* pipe.  Nothing in the program excludes two callbacks from running at the *)
(* same time; what keeps them apart is that a callback's first act is to    *)
(* stop the receiver.                                                       *)
(***************************************************************************)
EXTENDS LoraModem, DataBase, Sequences, FiniteSets

CONSTANTS
    Main,          \* the main thread; every other thread runs callbacks
    ErrorLimit,    \* invalid readings in a row that are tolerated: 5
    PipeCapacity,  \* NB_Data records the kernel's pipe buffer holds
    Overlap,       \* may a frame complete before the callback of the previous
                   \* one has stopped the receiver?
    Faults,        \* the external failures that may happen, see FaultNames
    MaxReboots,    \* bound: intact frames of a sensor asked to reboot this often are ignored
    MaxLaunches,   \* bound: how often the program is started again
    MaxFrames      \* bound: how many frames come, if they may overlap

FaultNames == {"init",     \* gpioInitialise fails
               "spi",      \* spiOpen fails
               "connect",  \* the NB-IoT server cannot be reached
               "peer"}     \* the NB-IoT server closes the connection

ASSUME GatewayAssumption ==
    /\ Main \in Threads
    /\ ErrorLimit \in Nat
    /\ PipeCapacity \in Nat \ {0}
    /\ Overlap \in BOOLEAN
    /\ Faults \subseteq FaultNames
    /\ MaxReboots \in Nat
    /\ MaxLaunches \in Nat
    /\ MaxFrames \in Nat

VARIABLES
    up,        \* the process is running
    launches,  \* how often it was started again
    frames,    \* how many frames came, counted if they may overlap
    data,      \* per thread: nbData_.sensorData_
    reply,     \* per thread: reply
    info,      \* per thread: nbData_.gatewayData_
    pipe,      \* the pipe's content
    nbPc,      \* where the NB-IoT client thread is
    nbBuf,     \* Pipe::buf_
    sock       \* client_socket: the server, or descriptor 1 after a failure

localVars == <<data, reply, info>>
nbVars == <<pipe, nbPc, nbBuf, sock>>
vars == <<modemVars, dbVars, up, launches, frames, localVars, nbVars>>

Callbacks == Threads \ {Main}

RxLabels == {"rx_f", "rx_standby", "crc", "copy", "query", "save_info",
             "save_count", "activate", "validity", "limit", "reboot",
             "info", "pipe", "reply"}

Labels == DriverLabels \cup RxLabels

NoInfo == [status |-> 0, rcount |-> 0]

TypeOK ==
    /\ ModemTypeOK(Packets, Replies)
    /\ DbTypeOK
    /\ pc \in [Threads -> Labels]
    /\ up \in BOOLEAN
    /\ launches \in 0 .. MaxLaunches
    /\ frames \in 0 .. MaxFrames
    /\ data \in [Threads -> Packets \cup {NoData}]
    /\ reply \in [Threads -> Replies]
    /\ info \in [Threads -> GatewayData]
    /\ pipe \in Seq(NB_Data)
    /\ Len(pipe) <= PipeCapacity
    /\ nbPc \in {"none", "connect", "read", "write"}
    /\ nbBuf \in NB_Data \cup {NoData}
    /\ sock \in {"none", "server", "stdout"}

-----------------------------------------------------------------------------
(* Start and end of the process.                                            *)

BootPc == [t \in Threads |-> IF t = Main THEN "begin" ELSE "none"]

\* The start of a gateway whose client thread, if it has one, is at nb.
Boot(nb) ==
    /\ ModemInit
    /\ pc = BootPc
    /\ DbInit
    /\ up = TRUE /\ launches = 0 /\ frames = 0
    /\ data = [t \in Threads |-> NoData]
    /\ reply = [t \in Threads |-> ZeroReply]
    /\ info = [t \in Threads |-> NoInfo]
    /\ pipe = <<>> /\ nbPc = nb /\ nbBuf = NoData /\ sock = "none"

Init == Boot("connect")

\* The process dies: its threads and its memory are gone, the chip is not.
Terminate ==
    /\ up' = FALSE
    /\ gpio' = FALSE /\ isr' = "none" /\ isrPc' = "idle" /\ edge' = FALSE
    /\ open' = {} /\ spid' = NoHandle
    /\ rxBuf' = NoData /\ rxCrc' = FALSE /\ txBuf' = NoData
    /\ pc' = [t \in Threads |-> "none"]
    /\ DbLost
    /\ data' = [t \in Threads |-> NoData]
    /\ reply' = [t \in Threads |-> ZeroReply]
    /\ info' = [t \in Threads |-> NoInfo]
    /\ pipe' = <<>> /\ nbPc' = "none" /\ nbBuf' = NoData /\ sock' = "none"
    /\ UNCHANGED <<chipVars, launches, frames>>

\* main up to LoRa_begin: start the client thread, fill in the configuration.
Launch ==
    /\ ~up
    /\ launches < MaxLaunches
    /\ up' = TRUE
    /\ launches' = launches + 1
    /\ pc' = BootPc
    /\ nbPc' = "connect"
    /\ UNCHANGED <<chipVars, pinVars, open, spid, bufVars, dbVars, localVars,
                   frames, pipe, nbBuf, sock>>

-----------------------------------------------------------------------------
(* rx_f, run by thread t, between the interrupt and LoRa_end.               *)

gwVars == <<dbVars, up, launches, frames, localVars, nbVars>>

Mac(t) == data[t].mac

\* Two locals of rx_f and one step: t goes on, the modem is not touched.
RxGoto(t, from, to) ==
    /\ At(t, from, to)
    /\ UNCHANGED <<chipVars, pinVars, open, spid, bufVars, up, launches, frames>>

RxStop(t) ==
    /\ \/ StopRemoveIsr(t, "rx_f", "rx_standby")
       \/ StopStandby(t, "rx_standby", "crc")
    /\ UNCHANGED gwVars

\* Mutant: a damaged frame is processed like any other.
RxCrcIgnored(t) ==
    /\ RxGoto(t, "crc", "copy")
    /\ UNCHANGED <<dbVars, localVars, nbVars>>

RxCrc(t) ==
    /\ RxGoto(t, "crc", IF rxCrc THEN "reply" ELSE "copy")
    /\ reply' = [reply EXCEPT ![t].ack = IF rxCrc THEN -1 ELSE @]
    /\ UNCHANGED <<dbVars, data, info, nbVars>>

RxCopy(t) ==
    /\ RxGoto(t, "copy", "query")
    /\ data' = [data EXCEPT ![t] = rxBuf]
    /\ UNCHANGED <<dbVars, reply, info, nbVars>>

\* _processDBbyStatus
RxQuery(t) ==
    /\ RxGoto(t, "query", CASE query(Mac(t)) = "Newby" -> "save_info"
                            [] query(Mac(t)) = "Bad"   -> "activate"
                            [] query(Mac(t)) = "Good"  -> "validity")
    /\ UNCHANGED <<dbVars, localVars, nbVars>>

RxSave(t) ==
    /\ \/ RxGoto(t, "save_info", "save_count") /\ saveClientInfo(Mac(t))
       \/ RxGoto(t, "save_count", "validity") /\ saveClientCount(Mac(t))
    /\ UNCHANGED <<localVars, nbVars>>

RxActivate(t) ==
    /\ RxGoto(t, "activate", "validity")
    /\ activate(Mac(t))
    /\ UNCHANGED <<localVars, nbVars>>

\* _processReplybyValidity
RxValid(t) ==
    /\ RxGoto(t, "validity", "info")
    /\ data[t].valid /\ ~AtThrows(Mac(t))
    /\ resetErrorCount(Mac(t))
    /\ UNCHANGED <<localVars, nbVars>>

RxInvalid(t) ==
    /\ RxGoto(t, "validity", "limit")
    /\ ~data[t].valid /\ ~AtThrows(Mac(t))
    /\ increaseErrorCount(Mac(t))
    /\ UNCHANGED <<localVars, nbVars>>

RxThrows(t) ==
    /\ pc[t] = "validity"
    /\ AtThrows(Mac(t))
    /\ Terminate

OverLimit(m) == getErrorCount(m) > ErrorLimit

RxLimit(t) ==
    /\ RxGoto(t, "limit", IF OverLimit(Mac(t)) THEN "reboot" ELSE "info")
    /\ UNCHANGED <<dbVars, localVars, nbVars>>

RxReboot(t) ==
    /\ RxGoto(t, "reboot", "info")
    /\ reboot(Mac(t))
    /\ reply' = [reply EXCEPT ![t].needReboot = TRUE]
    /\ UNCHANGED <<data, info, nbVars>>

RxInfo(t) ==
    /\ RxGoto(t, "info", "pipe")
    /\ reply' = [reply EXCEPT ![t].ack = data[t].count]
    /\ info' = [info EXCEPT ![t] = setInfo(Mac(t), @)]
    /\ UNCHANGED <<dbVars, data, nbVars>>

Record(t) == [sensor |-> data[t], status |-> info[t].status,
              rcount |-> info[t].rcount, needReboot |-> reply[t].needReboot]

\* Mutant: the record is written although the buffer is full.
RxPipeUnbounded(t) ==
    /\ RxGoto(t, "pipe", "reply")
    /\ pipe' = Append(pipe, Record(t))
    /\ UNCHANGED <<dbVars, localVars, nbPc, nbBuf, sock>>

\* Pipe::write blocks while the kernel's buffer is full.
RxPipe(t) ==
    /\ Len(pipe) < PipeCapacity
    /\ RxGoto(t, "pipe", "reply")
    /\ pipe' = Append(pipe, Record(t))
    /\ UNCHANGED <<dbVars, localVars, nbPc, nbBuf, sock>>

\* The last use of the locals; they are reset for the thread's next callback.
RxReply(t) ==
    /\ At(t, "reply", "end")
    /\ txBuf' = reply[t]
    /\ data' = [data EXCEPT ![t] = NoData]
    /\ reply' = [reply EXCEPT ![t] = ZeroReply]
    /\ info' = [info EXCEPT ![t] = NoInfo]
    /\ UNCHANGED <<chipVars, pinVars, open, spid, rxBuf, rxCrc, dbVars, up,
                   launches, frames, nbVars>>

rx_f(t) ==
    \/ RxStop(t) \/ RxCrc(t) \/ RxCopy(t) \/ RxQuery(t) \/ RxSave(t)
    \/ RxActivate(t) \/ RxValid(t) \/ RxInvalid(t) \/ RxThrows(t) \/ RxLimit(t)
    \/ RxReboot(t) \/ RxInfo(t) \/ RxPipe(t) \/ RxReply(t)

-----------------------------------------------------------------------------
(* The driver as the gateway calls it.                                      *)

\* main listens after LoRa_begin, rx_f answers; neither looks at its result.
AfterBegin(t) == IF t = Main THEN "receive" ELSE "send"

BeginFails(t) ==
    \/ "init" \in Faults /\ BeginInitFails(t, AfterBegin(t))
    \/ ("spi" \in Faults \/ Handles \subseteq open) /\ BeginOpenFails(t, AfterBegin(t))

Driver(t) ==
    /\ \/ LoRa_end(t, "begin")
       \/ LoRa_begin(t, AfterBegin(t))
       \/ BeginFails(t)
       \/ LoRa_send(t)
       \/ LoRa_receive(t)
    /\ UNCHANGED gwVars

ThreadStep(t) == rx_f(t) \/ Driver(t)

\* rx_f is the receive callback; tx_f is the transmit callback, a LoRa_receive.
\* A FIFO that holds no packet reads as a damaged one.
FifoRead == IF fifo \in Packets THEN {fifo} ELSE Corrupted

RxDone == \/ RxDoneRead(FifoRead) \/ RxDoneCrc \/ RxDoneClear
          \/ \E t \in Callbacks : RxDoneSpawn(t, "rx_f")

TxDone == \/ TxDoneClear \/ TxDoneStandby
          \/ \E t \in Callbacks : TxDoneSpawn(t, "receive")

\* memcpy with the size that the failed read returned, -1.
RxDoneReadFails == isrPc = "rx_read" /\ ~Xfer /\ Terminate

Interrupt ==
    \/ (IsrEnter \/ RxDone \/ TxDone) /\ UNCHANGED gwVars
    \/ RxDoneReadFails

-----------------------------------------------------------------------------
(* becomeNBIotClient.                                                       *)

nbRest == <<modemVars, dbVars, up, launches, frames, localVars>>

\* connectToNbIotServer returns EXIT_FAILURE, 1, when it fails.
NbConnect ==
    /\ nbPc = "connect"
    /\ nbPc' = "read"
    /\ sock' \in {"server"} \cup (IF "connect" \in Faults THEN {"stdout"} ELSE {})
    /\ UNCHANGED <<nbRest, pipe, nbBuf>>

NbRead ==
    /\ nbPc = "read"
    /\ pipe # <<>>
    /\ nbPc' = "write"
    /\ nbBuf' = Head(pipe)
    /\ pipe' = Tail(pipe)
    /\ UNCHANGED <<nbRest, sock>>

\* Mutant: the client thread ends after its first record.
NbWriteOnce ==
    /\ nbPc = "write"
    /\ nbPc' = "none"
    /\ nbBuf' = NoData
    /\ UNCHANGED <<nbRest, pipe, sock>>

NbWrite ==
    /\ nbPc = "write"
    /\ nbPc' = "read"
    /\ nbBuf' = NoData
    /\ UNCHANGED <<nbRest, pipe, sock>>

\* SIGPIPE: the server has closed the connection.
NbPeerGone ==
    /\ "peer" \in Faults
    /\ nbPc = "write" /\ sock = "server"
    /\ Terminate

NbStep == NbConnect \/ NbRead \/ NbWrite

-----------------------------------------------------------------------------
(* The air.  A frame is on the air for hundreds of milliseconds, far longer *)
(* than the handler needs to start the callback and the callback to remove  *)
(* the handler: with Overlap = FALSE no frame completes in between.         *)

Busy == {t \in Callbacks : pc[t] # "none"}

Quiet == ~edge /\ isrPc = "idle" /\ \A t \in Threads : pc[t] # "rx_f"

\* Bound: a callback thread is left for the frame.
RoomForCallback == Callbacks \ Busy # {}

Hear(p) ==
    /\ p.ok => rcount[p.mac] < MaxReboots
    /\ IF Overlap THEN RoomForCallback ELSE Quiet
    /\ IF Overlap THEN frames < MaxFrames /\ frames' = frames + 1
                  ELSE UNCHANGED frames
    /\ ChipReceive(p, ~p.ok)
    /\ UNCHANGED <<dbVars, up, launches, localVars, nbVars>>

Transmitted == ChipTxDone /\ UNCHANGED gwVars

Environment == Transmitted \/ \E p \in Packets : Hear(p)

Next ==
    \/ \E t \in Threads : ThreadStep(t)
    \/ Interrupt
    \/ NbStep
    \/ NbPeerGone
    \/ Environment
    \/ Launch

\* The operating system schedules every thread; the chip finishes what it sends.
Fairness ==
    /\ \A t \in Threads : WF_vars(ThreadStep(t))
    /\ WF_vars(Interrupt)
    /\ WF_vars(NbStep)
    /\ WF_vars(Transmitted)

Spec == Init /\ [][Next]_vars

FairSpec == Spec /\ Fairness

-----------------------------------------------------------------------------
(* Properties.  With Overlap = FALSE the claim is that stopping the receiver *)
(* is all the mutual exclusion the program needs.                           *)

\* At most one thread is inside the driver and the callbacks, and none while an
\* interrupt is pending or handled: the shared buffers, modem->spid and the
\* unlocked DataBase have one user at a time (lora.cpp:187-232).
OneDriver ==
    /\ \A t, u \in Threads : pc[t] # "none" /\ pc[u] # "none" => t = u
    /\ (\E t \in Threads : pc[t] # "none") => ~edge /\ isrPc = "idle"

\* No SPI handle outlives its use: the only open one is modem->spid, however
\* often LoRa_end and LoRa_begin reopen it (lora.cpp:12, 236).
HandlesOwned == open \subseteq {spid}

\* The steps of rx_f that touch the registry, _processDBbyStatus through
\* _processReplybyValidity.
DbLabels == {"query", "save_info", "save_count", "activate", "validity",
             "limit", "reboot"}

\* Between two frames a sensor is Bad exactly while it is over the limit, and
\* the two maps know the same sensors (hybrid_gateway.cpp:33-64).
DbConsistent ==
    (\A t \in Threads : pc[t] \notin DbLabels) =>
        \A m \in Macs : /\ status[m] = "Bad" <=> vcount[m] > ErrorLimit
                        /\ status[m] = "Newby" <=> vcount[m] = Absent

\* What is on the air answers the frame last read: its count, and a reboot
\* request exactly if its sensor is Bad; -1 for a damaged frame
\* (hybrid_gateway.cpp:83-100, 146).
ReplyMatches ==
    mode = "TX" /\ rxBuf # NoData =>
        fifo = IF rxCrc THEN [ack |-> -1, needReboot |-> FALSE]
               ELSE [ack |-> rxBuf.count,
                     needReboot |-> status[rxBuf.mac] = "Bad"]

\* The records on their way to the public server, oldest first.
Stream == (IF nbBuf = NoData THEN <<>> ELSE <<nbBuf>>) \o pipe

\* The server is sent no damaged frame and no reboot request for a sensor that
\* is not marked Bad (hybrid_gateway.cpp:83-119).
RecordsHonest ==
    \A i \in 1 .. Len(Stream) :
        /\ Stream[i].sensor.ok
        /\ Stream[i].needReboot <=> Stream[i].status = statusToint("Bad")

\* Between two records of one sensor its reboot count grows by the reboot
\* requests of the later ones: the server can trust either (DataBase.cpp:62-77).
RebootsAddUp ==
    \A i, j \in 1 .. Len(Stream) :
        LET Of(r) == r.sensor.mac = Stream[i].sensor.mac
            Later == {k \in i + 1 .. j : Of(Stream[k]) /\ Stream[k].needReboot}
        IN  i < j /\ Of(Stream[j])
            => Stream[j].rcount = Stream[i].rcount + Cardinality(Later)

Idle == up /\ ~edge /\ isrPc = "idle" /\ \A t \in Threads : pc[t] = "none"

\* As long as pigpio serves it, a gateway with nothing to do will be woken by
\* the next frame or by the end of its answer: mode, pin mapping, handler and
\* the flag that makes the next edge agree (lora.cpp:125-165, 187-227).
NeverDeaf == Faults \cap {"init", "spi"} = {} /\ Idle => Listening \/ Transmitting

\* A frame that raised the interrupt is answered on the air, through the full
\* pipe and the reopened modem (hybrid_gateway.cpp:71-152).
Answered == edge /\ isr = "rx" ~> mode = "TX"

\* However many frames come, the gateway always listens again (main never does
\* anything after its first LoRa_receive, hybrid_gateway.cpp:190-194).
ListensAgain == []<>Listening

\* With Overlap = TRUE callbacks do run at the same time.  What is left then:

\* std::map::at throws in one callback only while another one is between the two
\* insertions of saveClient for the same new sensor (DataBase.cpp:54-60, 155-164).
ThrowsMidSaveOnly ==
    \A t \in Threads :
        pc[t] \in {"validity", "limit"} /\ AtThrows(Mac(t)) =>
            \E u \in Threads \ {t} : pc[u] = "save_count" /\ Mac(u) = Mac(t)

\* No record leaves the gateway with a status it would give an unknown sensor, or
\* with a reboot request that was not counted (hybrid_gateway.cpp:98-119).
RecordsKnown ==
    \A i \in 1 .. Len(Stream) :
        /\ Stream[i].status # statusToint("Newby")
        /\ Stream[i].needReboot => Stream[i].rcount > 0
=============================================================================
