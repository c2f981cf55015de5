-------------------------- MODULE GatewayRefinement --------------------------
(***************************************************************************)
(* HybridGateway implements GatewayService while pigpio and SPI work and    *)
(* frames do not overlap.  A frame is served when rx_f changes the count of *)
(* invalid readings, or finds the frame damaged; the steps before and after *)
(* prepare that moment or carry its result to the air.                      *)
(***************************************************************************)
EXTENDS HybridGateway

\* Before the serving step the frame is in the chip, then in the shared buffer.
InChip == (edge /\ isr = "rx") \/ isrPc = "rx_read"

ToServe == {"rx_f", "rx_standby", "crc", "copy", "query", "save_info",
            "save_count", "activate", "validity"}

InBuffer == \/ isrPc \in {"rx_crc", "rx_clear", "rx_spawn"}
            \/ \E t \in Threads : pc[t] \in ToServe

Heard == IF InChip THEN fifo ELSE IF InBuffer THEN rxBuf ELSE NoData

\* After it the answer is what thread t is about to compute, what it computed,
\* or what it left in the transmit buffer.
ToSend == {"end", "end_standby", "end_close", "end_unset", "begin", "open",
           "config", "send", "write_fifo", "send_dio", "send_isr", "send_mode"}

AnswerOf(t) ==
    CASE pc[t] \in {"limit", "reboot"} ->
            [ack |-> data[t].count, needReboot |-> OverLimit(Mac(t))]
      [] pc[t] = "info" -> [reply[t] EXCEPT !.ack = data[t].count]
      [] pc[t] \in {"pipe", "reply"} -> reply[t]
      [] pc[t] \in ToSend -> txBuf
      [] OTHER -> NoData

Answer ==
    IF mode = "TX" THEN fifo
    ELSE IF Busy # {} THEN AnswerOf(CHOOSE t \in Busy : TRUE)
    ELSE NoData

\* An unknown sensor has no streak; a reboot decided on is a reboot requested.
Streak == [m \in Macs |-> IF vcount[m] = Absent THEN 0 ELSE vcount[m]]

Deciding(t, m) == pc[t] \in {"limit", "reboot"} /\ Mac(t) = m /\ OverLimit(m)

Reboots == [m \in Macs |-> IF \E t \in Threads : Deciding(t, m)
                           THEN rcount[m] + 1 ELSE rcount[m]]

GS == INSTANCE GatewayService WITH streak <- Streak, reboots <- Reboots,
                                   heard <- Heard, answer <- Answer, sent <- air

\* Every behaviour of the gateway is one of the service: one answer per frame, in
\* order, by the streak rule, and no frame that was heard stays unanswered.
Service == GS!Spec

\* Its safety part: nothing is served or radiated that the service would not.
ServiceSafety == GS!Init /\ [][GS!Next]_(GS!service)
=============================================================================
