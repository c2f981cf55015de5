---------------------------- MODULE LoraGateway ----------------------------
(***************************************************************************)
(* The gateway of main/lora_gateway.cpp: the hybrid gateway without pipe,   *)
(* client thread and records.  Its rx_f copies the reading before it looks  *)
(* at the CRC and fixes the ack before it asks the registry; the rest is    *)
(* line for line that of HybridGateway, whose steps are used.  wifiThread   *)
(* is never started, and without overlapping frames std::map::at cannot      *)
(* throw (ThrowsMidSaveOnly).                                               *)
(***************************************************************************)
EXTENDS GatewayRefinement

CONSTANTS
    HybridTraffic,  \* bound: the frames that reach the hybrid gateway
    LoraTraffic     \* bound: the frames that reach this one

ASSUME TrafficAssumption == HybridTraffic \cup LoraTraffic \subseteq Packets

\* Mutant: the ack of the previous reading stays.
LgCrcAckKept(t) ==
    /\ RxGoto(t, "crc", IF rxCrc THEN "reply" ELSE "copy")
    /\ reply' = [reply EXCEPT ![t].ack = IF rxCrc THEN -1 ELSE @]
    /\ UNCHANGED <<dbVars, data, info, nbVars>>

\* Data data = *(Data*)(rx->buf); if (rx->CRC) ... else reply.ack_ = data.count_.
LgCrc(t) ==
    /\ RxGoto(t, "crc", IF rxCrc THEN "reply" ELSE "copy")
    /\ reply' = [reply EXCEPT ![t].ack = IF rxCrc THEN -1 ELSE rxBuf.count]
    /\ UNCHANGED <<dbVars, data, info, nbVars>>

\* The reading is printed; no record is made of it.
LgPrint(t) ==
    /\ RxGoto(t, "info", "reply")
    /\ UNCHANGED <<dbVars, localVars, nbVars>>

lg_rx_f(t) ==
    \/ RxStop(t) \/ LgCrc(t) \/ RxCopy(t) \/ RxQuery(t) \/ RxSave(t)
    \/ RxActivate(t) \/ RxValid(t) \/ RxInvalid(t) \/ RxLimit(t)
    \/ RxReboot(t) \/ LgPrint(t) \/ RxReply(t)

LgThreadStep(t) == lg_rx_f(t) \/ Driver(t)

\* No client thread is ever started.
LgInit == Boot("none")

Uplink == nbPc # "none" \/ sock # "none"

-----------------------------------------------------------------------------
(* Either gateway.                                                          *)

EitherInit == Init \/ LgInit

EitherStep(t) == IF Uplink THEN ThreadStep(t) ELSE LgThreadStep(t)

EitherNext ==
    \/ \E t \in Threads : EitherStep(t)
    \/ Interrupt
    \/ NbStep
    \/ Transmitted
    \/ \E p \in IF Uplink THEN HybridTraffic ELSE LoraTraffic : Hear(p)

EitherFairness ==
    /\ \A t \in Threads : WF_vars(EitherStep(t))
    /\ WF_vars(Interrupt)
    /\ WF_vars(NbStep)
    /\ WF_vars(Transmitted)

EitherFairSpec == EitherInit /\ [][EitherNext]_vars /\ EitherFairness
=============================================================================
