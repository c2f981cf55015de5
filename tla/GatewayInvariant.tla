-------------------------- MODULE GatewayInvariant --------------------------
(***************************************************************************)
(* The inductive invariants behind TypeOK and behind the token discipline.  *)
(*                                                                          *)
(* Why OneDriver, HandlesOwned and NeverDeaf hold while frames do not       *)
(* overlap.  Control is passed around like a token: chip, interrupt thread, *)
(* one callback, chip.  Stage says what the modem looks like while a thread *)
(* has the token, Resting while none has.                                   *)
(***************************************************************************)
EXTENDS HybridGateway

\* Where thread t holds a frame it copied from the shared buffer, and where the
\* shared buffer holds one.
HasData == {"query", "save_info", "save_count", "activate", "validity", "limit",
            "reboot", "info", "pipe"}

HasFrame == {"rx_f", "rx_standby", "crc", "copy"}

\* Inductive: TypeOK, and no step reads a buffer before it was filled.
TypeInv ==
    /\ TypeOK
    /\ isrPc \in {"rx_crc", "rx_clear", "rx_spawn"} => rxBuf \in Packets
    /\ \A t \in Threads : pc[t] \in HasFrame => rxBuf \in Packets
    /\ \A t \in Threads : pc[t] \in HasData => data[t] \in Packets

-----------------------------------------------------------------------------
\* The chip raises no flag in these modes.
Sleepy == mode \in {"STDBY", "SLEEP"}

NoFault == Faults \cap {"init", "spi"} = {}

MainLabels == {"none", "begin", "open", "config",
               "receive", "receive_dio", "receive_isr", "receive_mode"}

\* The receiver is off, the modem still open.
StoppedLabels == (RxLabels \ {"rx_f", "rx_standby"})
                 \cup {"end", "end_standby", "end_close"}

SendLabels == {"send", "write_fifo", "send_dio", "send_isr"}

ReceiveLabels == {"receive", "receive_dio", "receive_isr"}

StageRx(t) ==
    /\ pc[t] = "rx_f" => mode = "RXCONT" /\ isr = "rx" /\ Xfer
    /\ pc[t] = "rx_standby" => isr = "none" /\ gpio /\ Xfer
    /\ pc[t] \in StoppedLabels => isr = "none" /\ gpio /\ Xfer /\ Sleepy

StageReopen(t) ==
    /\ pc[t] = "end_unset" => isr = "none" /\ gpio /\ open = {} /\ Sleepy
    /\ pc[t] = "begin" => isr = "none" /\ open = {} /\ (t # Main => gpio /\ Sleepy)
    /\ pc[t] = "open" => isr = "none" /\ gpio /\ open = {} /\ Sleepy /\ irq = {}
    /\ pc[t] = "config" => isr = "none" /\ gpio /\ Xfer /\ Sleepy /\ irq = {}

StageSend(t) ==
    /\ pc[t] \in SendLabels => isr = "none" /\ gpio /\ Sleepy /\ irq = {}
    /\ pc[t] = "send_isr" /\ Xfer => dio = "tx"
    /\ pc[t] = "send_mode" => /\ isr = "tx" /\ Sleepy /\ irq = {}
                              /\ Xfer => dio = "tx"
    /\ pc[t] \in SendLabels \cup {"send_mode"} => (NoFault => Xfer)

StageReceive(t) ==
    /\ pc[t] \in ReceiveLabels =>
        IF t = Main THEN /\ isr = "none"
                         /\ IF gpio THEN Sleepy /\ irq = {} ELSE open = {}
                    ELSE isr = "tx" /\ gpio /\ Sleepy /\ irq = {} /\ Xfer
    /\ pc[t] = "receive_isr" /\ Xfer => dio = "rx"
    /\ pc[t] = "receive_mode" =>
        IF gpio THEN isr = "rx" /\ Sleepy /\ irq = {} /\ (Xfer => dio = "rx")
                ELSE isr = "none" /\ open = {}
    /\ pc[t] \in ReceiveLabels \cup {"receive_mode"} => (NoFault => gpio /\ Xfer)

Stage(t) == StageRx(t) /\ StageReopen(t) /\ StageSend(t) /\ StageReceive(t)

\* The token is with the chip or with the interrupt thread.
Deaf == isr = "none" \/ (Sleepy /\ irq = {})

RxRaised == mode = "RXCONT" /\ dio = "rx" /\ isr = "rx" /\ Xfer /\ "RxDone" \in irq

TxRaised == Sleepy /\ dio = "tx" /\ isr = "tx" /\ Xfer /\ "TxDone" \in irq

AtRest ==
    \/ Deaf /\ (NoFault => ~up)
    \/ Listening /\ irq = {} /\ Xfer
    \/ Transmitting /\ irq = {} /\ Xfer

Resting ==
    /\ isrPc = "idle" /\ ~edge => AtRest
    /\ isrPc = "idle" /\ edge => RxRaised \/ TxRaised
    /\ isrPc \in {"rx_read", "rx_crc", "rx_clear"} => RxRaised
    /\ isrPc = "rx_spawn" => mode = "RXCONT" /\ isr = "rx" /\ Xfer
    /\ isrPc = "tx_clear" => TxRaised
    /\ isrPc \in {"tx_standby", "tx_spawn"} =>
            Sleepy /\ isr = "tx" /\ Xfer /\ irq = {}
    /\ isrPc # "idle" => ~edge

Down == isr = "none" /\ ~edge /\ isrPc = "idle" /\ open = {}

\* Whatever fails around it, the gateway passes control as the driver is written
\* to: a callback finds the modem at each of its steps as the step before left
\* it, the chip waits or the interrupt thread runs while there is no callback,
\* and no flag is raised that nobody will see (lora.cpp:125-165, 187-243).
\* Inductive for Overlap = FALSE.
TokenInv ==
    /\ OneDriver
    /\ HandlesOwned
    /\ isr # "none" => gpio
    /\ pc[Main] \in MainLabels
    /\ ~up => Down /\ \A t \in Threads : pc[t] = "none"
    /\ \A t \in Threads : Stage(t)
    /\ (\A t \in Threads : pc[t] = "none") => Resting

-----------------------------------------------------------------------------
(* What the holder of the token computes, while frames do not overlap.      *)

\* The CRC flag of the chip, then that of the driver, tell a damaged frame.
Flagged(frame) == frame \in Packets /\ ("PayloadCrcError" \in irq <=> ~frame.ok)

Checked == rxBuf \in Packets /\ (rxCrc <=> ~rxBuf.ok)

FrameInv ==
    /\ (edge /\ isr = "rx") \/ isrPc = "rx_read" => Flagged(fifo)
    /\ isrPc = "rx_crc" => Flagged(rxBuf)
    /\ isrPc \in {"rx_clear", "rx_spawn"} => Checked
    /\ ~up \/ pc[Main] # "none" => rxBuf = NoData

\* The answer that the frame last read deserves (the right side of ReplyMatches).
DueReply == IF rxCrc THEN [ack |-> -1, needReboot |-> FALSE]
            ELSE [ack |-> rxBuf.count, needReboot |-> status[rxBuf.mac] = "Bad"]

\* The answer is computed in the locals, moved to the buffer, copied to the FIFO.
InLocals == {"info", "pipe", "reply"}

InBuf == {"end", "end_standby", "end_close", "end_unset", "begin", "open", "config",
          "send", "write_fifo", "send_dio", "send_isr", "send_mode"}

InFifo == {"send_dio", "send_isr", "send_mode"}

CallbackInv(t) ==
    /\ pc[t] = "rx_standby" => mode = "RXCONT"
    /\ pc[t] \in HasFrame => Checked
    /\ pc[t] = "copy" => ~rxCrc
    /\ pc[t] \in HasData => Checked /\ ~rxCrc /\ data[t] = rxBuf
    /\ pc[t] \notin InLocals => reply[t] = ZeroReply
    /\ pc[t] = "info" => /\ reply[t] = [ack |-> 0, needReboot |-> status[Mac(t)] = "Bad"]
                         /\ status[Mac(t)] # "Newby"
    /\ pc[t] = "pipe" => /\ reply[t] = DueReply
                         /\ info[t].status = statusToint(status[Mac(t)])
    /\ pc[t] = "reply" => reply[t] = DueReply
    /\ pc[t] \in InBuf /\ t # Main => txBuf = DueReply
    /\ pc[t] = "write_fifo" /\ Xfer => mode = "STDBY"
    /\ pc[t] \in InFifo /\ Xfer => fifo = DueReply
    /\ pc[t] = "receive_mode" /\ t # Main => gpio

\* Where rx_f leaves the entry of its sensor between two accesses to the registry.
Consistent(m) == /\ status[m] = "Bad" <=> vcount[m] > ErrorLimit
                 /\ status[m] = "Newby" <=> vcount[m] = Absent

Midway(t, m) ==
    /\ pc[t] = "query" => Consistent(m)
    /\ pc[t] = "save_info" => status[m] = "Newby" /\ AtThrows(m)
    /\ pc[t] = "save_count" => status[m] = "Good" /\ AtThrows(m)
    /\ pc[t] = "activate" => status[m] = "Bad" /\ OverLimit(m)
    /\ pc[t] \in {"validity", "limit"} => status[m] = "Good" /\ ~AtThrows(m)
    /\ pc[t] = "reboot" => status[m] = "Good" /\ OverLimit(m)

RegistryInv ==
    /\ \A t \in Threads : Midway(t, Mac(t))
    /\ \A m \in Macs : Consistent(m) \/ \E t \in Threads : pc[t] \in DbLabels /\ Mac(t) = m

Honest(r) == r.sensor.ok /\ (r.needReboot <=> r.status = statusToint("Bad"))

StreamInv == /\ nbBuf # NoData => Honest(nbBuf)
             /\ \A i \in 1 .. Len(pipe) : Honest(pipe[i])

\* Inductive for Overlap = FALSE, with TypeInv and TokenInv.
DataInv ==
    /\ FrameInv
    /\ \A t \in Threads : CallbackInv(t)
    /\ RegistryInv
    /\ ReplyMatches
    /\ StreamInv

\* The process never dies, and whatever it transmits answers a frame.  Inductive
\* for Overlap = FALSE and Faults \subseteq {"connect"}, with the three above.
ServiceInv ==
    /\ up
    /\ mode = "TX" => rxBuf \in Packets
    /\ \A t \in Callbacks : pc[t] \in RxLabels \cup InBuf => rxBuf \in Packets

-----------------------------------------------------------------------------
(* How the reboot counts of the records on their way add up.                *)

\* The records i to j of s that ask sensor m to reboot.
Requests(s, m, i, j) == {k \in i .. j : s[k].sensor.mac = m /\ s[k].needReboot}

\* RebootsAddUp for sensor m, of any sequence of records.
AddsUp(s, m) ==
    \A i, j \in 1 .. Len(s) :
        i < j /\ s[i].sensor.mac = m /\ s[j].sensor.mac = m =>
            s[j].rcount = s[i].rcount + Cardinality(Requests(s, m, i + 1, j))

\* The request of thread t is counted, its record not yet written.
Asks(t) == pc[t] \in {"info", "pipe"} /\ reply[t].needReboot

Pending(m) == IF \E t \in Threads : Asks(t) /\ Mac(t) = m THEN 1 ELSE 0

\* The registry is ahead of each record of sensor m by the requests after it.
Follows(s, m) ==
    \A i \in 1 .. Len(s) :
        s[i].sensor.mac = m =>
            rcount[m] = s[i].rcount + Cardinality(Requests(s, m, i + 1, Len(s))) + Pending(m)

\* Inductive for Overlap = FALSE, with TypeInv, TokenInv and DataInv.
CountInv ==
    /\ ~up => nbPc = "none"
    /\ nbPc # "write" => nbBuf = NoData
    /\ \A t \in Threads : pc[t] = "pipe" => info[t].rcount = rcount[Mac(t)]
    /\ \A m \in Macs : Follows(Stream, m) /\ AddsUp(Stream, m)

-----------------------------------------------------------------------------
(* What is left when frames overlap.                                        *)

Registered == {"save_count", "activate", "validity", "limit", "reboot", "info"}

Known(r) == r.status # statusToint("Newby") /\ (r.needReboot => r.rcount > 0)

\* What thread t knows of its sensor stays true, since no other thread forgets it.
Remembers(t) ==
    /\ pc[t] \in Registered => status[Mac(t)] # "Newby"
    /\ pc[t] \notin InLocals => reply[t] = ZeroReply
    /\ pc[t] = "info" /\ reply[t].needReboot => rcount[Mac(t)] > 0
    /\ pc[t] = "pipe" => /\ info[t].status # statusToint("Newby")
                         /\ reply[t].needReboot => info[t].rcount > 0

\* A sensor is in the first map and not in the second only inside saveClient.
HalfSaved(m) ==
    status[m] # "Newby" /\ AtThrows(m) =>
        \E u \in Threads : pc[u] = "save_count" /\ Mac(u) = m

\* Inductive with TypeInv, whether or not frames overlap and whatever fails.
OverlapInv ==
    /\ ~up => isr = "none" /\ isrPc = "idle" /\ \A t \in Threads : pc[t] = "none"
    /\ \A t \in Threads : Remembers(t)
    /\ \A m \in Macs : HalfSaved(m)
    /\ nbBuf # NoData => Known(nbBuf)
    /\ \A i \in 1 .. Len(pipe) : Known(pipe[i])
=============================================================================
