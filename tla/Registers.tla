----------------------------- MODULE Registers -----------------------------
(***************************************************************************)
(* How the driver of src/lora/lora.cpp fills the registers of the           *)
(* transceiver from the Modem_cfg it is given, bit for bit: LoRa_begin      *)
(* after the reset, and the register writes of LoRa_send, LoRa_receive,     *)
(* LoRa_sleep and LoRa_end.  Interrupts, handles and the FIFO are the       *)
(* business of LoraModem; here a call runs alone, one setter a step.        *)
(***************************************************************************)
EXTENDS Integers, Sequences

CONSTANTS
    Configs,  \* the configurations a program may put in modem->eth
    Sizes     \* the frame sizes it may put in modem->tx.data.size

VARIABLES
    cfg,  \* modem->eth
    reg,  \* the registers of the chip
    pc    \* the step of the driver that comes next

vars == <<cfg, reg, pc>>

Byte == 0 .. 255

\* The enums of lora.h: a code is the bits it is stored as.
BandWidth == {16 * n : n \in 0 .. 9}

SpreadingFactor == {16 * n : n \in 7 .. 12}

ErrorCodingRate == {2 * n : n \in 1 .. 4}

OutputPower == (0 .. 17) \cup {20}

RFO == 112

PA_BOOST == 240

\* The carriers the chip can make, in kHz.
Carriers == {f \in Nat : f >= 137000 /\ f <= 1020000}

\* The fields of Modem_cfg that reach a register, freq in kHz.  lora_initiate
\* sets neither lnaGain nor lnaBoost: they hold what was in memory.
Modem_cfg ==
    [bw : BandWidth, sf : SpreadingFactor, ecr : ErrorCodingRate,
     freq : Carriers, preambleLen : Nat, outPower : OutputPower,
     powerOutPin : {RFO, PA_BOOST}, syncWord : Byte, lnaGain : 0 .. 7,
     lnaBoost : 0 .. 1, AGC : 0 .. 1, OCP : Byte, implicitHeader : BOOLEAN,
     payloadLen : Byte, CRC : BOOLEAN]

ASSUME RegistersAssumption == /\ Configs \subseteq Modem_cfg
                              /\ Sizes \subseteq Byte

\* lora_initiate; the last arguments are the garbage it leaves.
lora_initiate(bandwidth, gain, boost, len) ==
    [bw |-> CASE bandwidth = "best" -> 128
              [] bandwidth = "good" -> 112
              [] OTHER -> 96,
     sf |-> CASE bandwidth = "best" -> 112
              [] bandwidth = "good" -> 144
              [] OTHER -> 192,
     ecr |-> 8, freq |-> 434800, preambleLen |-> 6, outPower |-> 20,
     powerOutPin |-> PA_BOOST, syncWord |-> 18, lnaGain |-> gain,
     lnaBoost |-> boost, AGC |-> 1, OCP |-> 240, implicitHeader |-> FALSE,
     payloadLen |-> len, CRC |-> TRUE]

-----------------------------------------------------------------------------
(* Bits, and the chip.                                                      *)

\* The n bits of x from bit lo up, and x with those bits cleared.
Bits(x, lo, n) == (x \div 2^lo) % 2^n

Clear(x, lo, n) == x - Bits(x, lo, n) * 2^lo

SLEEP_MODE == 0
STDBY_MODE == 1
TX_MODE == 3
RXCONT_MODE == 5

Mode(r) == Bits(r.OP_MODE, 0, 3)

LongRange(r) == Bits(r.OP_MODE, 7, 1) = 1

OnAir(r) == Mode(r) \in {TX_MODE, RXCONT_MODE}

CommonRegisters == {"OP_MODE", "FR_MSB", "FR_MID", "FR_LSB", "PA_CONFIG",
                    "OCP", "LNA", "PA_DAC"}

\* These addresses are other registers while the chip is not in LoRa mode.
LoraRegisters == {"FIFO_TX_BASE_ADDR", "FIFO_RX_BASE_ADDR", "MODEM_CONFIG_1",
                  "MODEM_CONFIG_2", "MODEM_CONFIG_3", "PAYLOAD_LENGTH",
                  "PREAMBLE_MSB", "PREAMBLE_LSB", "SYNC_WORD",
                  "DETECT_OPTIMIZE", "DETECTION_THRESHOLD"}

\* What the chip holds after a reset.
ResetValues ==
    [OP_MODE |-> 9, FR_MSB |-> 108, FR_MID |-> 128, FR_LSB |-> 0,
     PA_CONFIG |-> 79, OCP |-> 43, LNA |-> 32, PA_DAC |-> 132,
     FIFO_TX_BASE_ADDR |-> 128, FIFO_RX_BASE_ADDR |-> 0,
     MODEM_CONFIG_1 |-> 114, MODEM_CONFIG_2 |-> 112, MODEM_CONFIG_3 |-> 4,
     PAYLOAD_LENGTH |-> 1, PREAMBLE_MSB |-> 0, PREAMBLE_LSB |-> 8,
     SYNC_WORD |-> 18, DETECT_OPTIMIZE |-> 195, DETECTION_THRESHOLD |-> 10]

\* The chip takes the LoRa bit in sleep mode only.
WriteOpMode(r, v) ==
    [r EXCEPT !.OP_MODE = IF Mode(r) = SLEEP_MODE THEN v
                          ELSE Clear(v, 7, 1) + 128 * Bits(@, 7, 1)]

\* lora_reg_write_byte, for the other registers.
Write(r, name, v) ==
    IF name \in LoraRegisters /\ ~LongRange(r) THEN r ELSE [r EXCEPT ![name] = v]

-----------------------------------------------------------------------------
(* The setters: what each makes of the registers r.                         *)

SetMode(r, m) == WriteOpMode(r, Clear(r.OP_MODE, 0, 3) + m)

\* Mutant: the other bits of REG_OP_MODE are not preserved.
StandbyUnmasked(r) == WriteOpMode(r, STDBY_MODE)

lora_set_satandby_mode(r) == SetMode(r, STDBY_MODE)

lora_set_sleep_mode(r) == SetMode(r, SLEEP_MODE)

lora_set_tx_mode(r) == SetMode(r, TX_MODE)

lora_set_rxcont_mode(r) == SetMode(r, RXCONT_MODE)

lora_set_lora_mode(r) ==
    LET asleep == lora_set_sleep_mode(r)
    IN  WriteOpMode(asleep, Clear(asleep.OP_MODE, 7, 1) + 128)

lora_set_payload(r, len) == Write(r, "PAYLOAD_LENGTH", len)

lora_set_implicit_header(r) ==
    Write(r, "MODEM_CONFIG_1", Clear(r.MODEM_CONFIG_1, 0, 1) + 1)

lora_set_explicit_header(r) ==
    Write(r, "MODEM_CONFIG_1", Clear(r.MODEM_CONFIG_1, 0, 1))

\* Mutant: the mask reaches one bit too low, into the header bit.
ErrorcrWideMask(r, cr) ==
    Write(r, "MODEM_CONFIG_1", Clear(r.MODEM_CONFIG_1, 0, 4) + cr)

lora_set_errorcr(r, cr) ==
    Write(r, "MODEM_CONFIG_1", Clear(r.MODEM_CONFIG_1, 1, 3) + cr)

lora_set_bandwidth(r, bw) ==
    Write(r, "MODEM_CONFIG_1", Clear(r.MODEM_CONFIG_1, 4, 4) + bw)

lora_set_sf(r, sf) ==
    Write(r, "MODEM_CONFIG_2", Clear(r.MODEM_CONFIG_2, 4, 4) + sf)

lora_set_crc_on(r) ==
    Write(r, "MODEM_CONFIG_2", Clear(r.MODEM_CONFIG_2, 2, 1) + 4)

lora_set_crc_off(r) ==
    Write(r, "MODEM_CONFIG_2", Clear(r.MODEM_CONFIG_2, 2, 1))

\* Mutant: the 2 dBm offset of PA_BOOST is forgotten.
TxPowerNoOffset(r, power, pin) ==
    Write(Write(Write(r, "OCP", 31), "PA_DAC", 132), "PA_CONFIG",
          pin + (IF pin = RFO /\ power >= 15 THEN 15 ELSE (power % 16)))

\* Over-current protection off, then the power by its pin.  power is at most
\* 20, so what it has beyond its low four bits is bit 4, which both pins have.
lora_set_tx_power(r, power, pin) ==
    LET off == Write(r, "OCP", 31)
        Amplifier(dac, p) == Write(Write(off, "PA_DAC", dac), "PA_CONFIG", pin + (p % 16))
    IN  IF pin = RFO THEN Amplifier(132, IF power >= 15 THEN 15 ELSE power)
        ELSE IF power = 20 THEN Amplifier(135, power - 2)
        ELSE Amplifier(132, (IF power >= 17 THEN 17
                             ELSE IF power <= 2 THEN 2 ELSE power) - 2)

lora_set_syncw(r, word) == Write(r, "SYNC_WORD", word)

lora_set_preamble(r, len) ==
    LET n == IF len < 6 THEN 6 ELSE IF len > 65535 THEN 65535 ELSE len
    IN  Write(Write(r, "PREAMBLE_MSB", (n \div 256) % 256), "PREAMBLE_LSB", n % 256)

lora_set_agc(r, agc) == Write(r, "MODEM_CONFIG_3", 4 * agc)

lora_set_lna(r, gain, boost) == Write(r, "LNA", 32 * gain + boost)

\* Mutant: a limit that divides evenly is rounded up a step.
OcpOneStepUp(r, ocp) ==
    IF ocp = 0 THEN Write(r, "OCP", Clear(r.OCP, 5, 1))
    ELSE IF ocp <= 120
    THEN Write(r, "OCP", ((IF ocp < 50 THEN 50 ELSE ocp) - 40) \div 5 + 32)
    ELSE Write(r, "OCP", ((IF ocp < 130 THEN 130 ELSE ocp) + 30) \div 10 + 32)

lora_set_ocp(r, ocp) ==
    IF ocp = 0 THEN Write(r, "OCP", Clear(r.OCP, 5, 1))
    ELSE IF ocp <= 120
    THEN Write(r, "OCP", ((IF ocp < 50 THEN 50 ELSE ocp) - 45) \div 5 + 32)
    ELSE Write(r, "OCP", ((IF ocp < 130 THEN 130 ELSE ocp) + 30) \div 10 + 32)

\* REG_FIFO_*_BASE_ADDR, REG_DETECT_OPTIMIZE and REG_DETECTION_THRESHOLD.
SetBaseAndDetection(r) ==
    Write(Write(Write(Write(r, "FIFO_TX_BASE_ADDR", 0), "FIFO_RX_BASE_ADDR", 0),
                "DETECT_OPTIMIZE", 195), "DETECTION_THRESHOLD", 10)

\* ceil(freq / 32 MHz * 2^19), high byte first.
Frf(freq) == -((-freq * 2048) \div 125)

\* Mutant: the low byte goes out first.
FreqLowFirst(r, freq) ==
    LET frf == Frf(freq)
    IN  Write(Write(Write(r, "FR_MSB", frf % 256),
                    "FR_MID", (frf \div 256) % 256), "FR_LSB", (frf \div 65536) % 256)

lora_set_freq(r, freq) ==
    LET frf == Frf(freq)
    IN  Write(Write(Write(r, "FR_MSB", (frf \div 65536) % 256),
                    "FR_MID", (frf \div 256) % 256), "FR_LSB", frf % 256)

\* The part of LoRa_calculate_packet_t that reaches a register: a symbol
\* takes more than 16 ms.
BW_VAL == <<7800, 10400, 15600, 20800, 31250, 41700, 62500, 125000, 250000, 500000>>

lowDataRateOptimize(c) == 2^(c.sf \div 16) * 1000 > 16 * BW_VAL[c.bw \div 16 + 1]

\* Mutant: the flag is written over the whole register.
LowDataRateUnmasked(r, on) ==
    Write(r, "MODEM_CONFIG_3", IF on THEN 8 ELSE 0)

lora_set_lowdatarateoptimize(r, on) ==
    Write(r, "MODEM_CONFIG_3", Clear(r.MODEM_CONFIG_3, 3, 1) + (IF on THEN 8 ELSE 0))

-----------------------------------------------------------------------------
(* The calls.                                                               *)

\* Where the driver is: the next setter of LoRa_begin, or of a call.
Labels == {"begin", "lora", "header", "errorcr", "bandwidth", "sf", "crc", "power",
           "syncw", "preamble", "agc", "lna", "ocp", "base", "freq", "ready",
           "send_rate", "send_fifo", "send_mode", "sent",
           "receive_standby", "receive_mode", "listening"}

\* The state is the one after power-up; LoRa_begin comes first.
Init == /\ cfg \in Configs
        /\ reg = ResetValues
        /\ pc = "begin"

Do(from, to, r) == /\ pc \in from
                   /\ pc' = to
                   /\ reg' = r
                   /\ UNCHANGED cfg

LoRa_begin ==
    \/ Do({"begin"}, "lora", ResetValues)
    \/ Do({"lora"}, "header", lora_set_lora_mode(reg))
    \/ Do({"header"}, "errorcr",
          IF cfg.implicitHeader
          THEN lora_set_payload(lora_set_implicit_header(reg), cfg.payloadLen)
          ELSE lora_set_explicit_header(reg))
    \/ Do({"errorcr"}, "bandwidth", lora_set_errorcr(reg, cfg.ecr))
    \/ Do({"bandwidth"}, "sf", lora_set_bandwidth(reg, cfg.bw))
    \/ Do({"sf"}, "crc", lora_set_sf(reg, cfg.sf))
    \/ Do({"crc"}, "power", IF cfg.CRC THEN lora_set_crc_on(reg) ELSE lora_set_crc_off(reg))
    \/ Do({"power"}, "syncw", lora_set_tx_power(reg, cfg.outPower, cfg.powerOutPin))
    \/ Do({"syncw"}, "preamble", lora_set_syncw(reg, cfg.syncWord))
    \/ Do({"preamble"}, "agc", lora_set_preamble(reg, cfg.preambleLen))
    \/ Do({"agc"}, "lna", lora_set_agc(reg, cfg.AGC))
    \/ Do({"lna"}, "ocp", lora_set_lna(reg, cfg.lnaGain, cfg.lnaBoost))
    \/ Do({"ocp"}, "base", lora_set_ocp(reg, cfg.OCP))
    \/ Do({"base"}, "freq", SetBaseAndDetection(reg))
    \/ Do({"freq"}, "ready", lora_set_freq(reg, cfg.freq))

\* Where the program may call the driver: a transmission or a reception may be on.
Open == {"ready", "sent", "listening"}

ToStandby == IF Mode(reg) = STDBY_MODE THEN reg ELSE lora_set_satandby_mode(reg)

LowRate == lora_set_lowdatarateoptimize(reg, lowDataRateOptimize(cfg))

LoRa_send ==
    \/ Do(Open, "send_rate", ToStandby)
    \/ Do({"send_rate"}, "send_fifo", LowRate)
    \/ \E size \in Sizes :
          Do({"send_fifo"}, "send_mode",
             lora_set_payload(reg, IF cfg.implicitHeader THEN cfg.payloadLen ELSE size))
    \/ Do({"send_mode"}, "sent", lora_set_tx_mode(reg))

\* The chip falls to standby, and so does txDoneISRf.
TxDone == /\ Mode(reg) = TX_MODE
          /\ Do({"sent"}, "ready", lora_set_satandby_mode(SetMode(reg, STDBY_MODE)))

LoRa_receive ==
    \/ Do(Open, "receive_standby", LowRate)
    \/ Do({"receive_standby"}, "receive_mode", ToStandby)
    \/ Do({"receive_mode"}, "listening", lora_set_rxcont_mode(reg))

LoRa_stop_receive == Do(Open, "ready", lora_set_satandby_mode(reg))

LoRa_sleep == Do(Open, "ready", lora_set_sleep_mode(reg))

LoRa_end == Do(Open, "begin", lora_set_satandby_mode(reg))

Next == \/ LoRa_begin \/ LoRa_send \/ LoRa_receive
        \/ TxDone \/ LoRa_stop_receive \/ LoRa_sleep \/ LoRa_end

Spec == Init /\ [][Next]_vars

-----------------------------------------------------------------------------
(* Properties.                                                              *)

\* Every register holds a byte: no setter adds where the code ors bits that
\* are already there.
RegTypeOK == /\ cfg \in Configs
             /\ reg \in [CommonRegisters \cup LoraRegisters -> Byte]
             /\ pc \in Labels

\* A chip that transmits or listens does so with the modulation, header,
\* sync word, preamble and payload length that modem->eth asks for, whatever
\* calls came before: two modems set up alike understand each other.
LinkAsConfigured ==
    OnAir(reg) =>
        /\ LongRange(reg)
        /\ reg.MODEM_CONFIG_1 = cfg.bw + cfg.ecr + (IF cfg.implicitHeader THEN 1 ELSE 0)
        /\ Bits(reg.MODEM_CONFIG_2, 4, 4) * 16 = cfg.sf
        /\ (Bits(reg.MODEM_CONFIG_2, 2, 1) = 1) = cfg.CRC
        /\ reg.SYNC_WORD = cfg.syncWord
        /\ cfg.preambleLen >= 6 /\ cfg.preambleLen <= 65535 =>
              reg.PREAMBLE_MSB * 256 + reg.PREAMBLE_LSB = cfg.preambleLen
        /\ cfg.implicitHeader => reg.PAYLOAD_LENGTH = cfg.payloadLen

\* On air the carrier is at most one synthesizer step (32 MHz / 2^19) above
\* the frequency asked for, never below, with its bytes in the right order.
CarrierWithinStep ==
    OnAir(reg) =>
        LET frf == reg.FR_MSB * 65536 + reg.FR_MID * 256 + reg.FR_LSB
        IN  frf * 125 - cfg.freq * 2048 \in 0 .. 124

\* On air the low-data-rate bit is set just when a symbol lasts over 16 ms,
\* and setting it leaves automatic gain control as asked: LoRa_send and
\* LoRa_receive both rewrite the register that lora_set_agc filled.
LowRateAndGainAgree ==
    OnAir(reg) =>
        /\ (Bits(reg.MODEM_CONFIG_3, 3, 1) = 1) = lowDataRateOptimize(cfg)
        /\ Bits(reg.MODEM_CONFIG_3, 2, 1) = cfg.AGC

\* Once in LoRa mode the chip leaves it by a reset only: the mode changes of
\* LoRa_send, LoRa_receive, LoRa_sleep and LoRa_end keep the other bits.
LoraModeKept == [][LongRange(reg) => (LongRange(reg') \/ pc = "begin")]_vars

\* What the chip makes of REG_OCP: no limit, or this many mA.
Protected == Bits(reg.OCP, 5, 1) = 1

TripCurrent == LET trim == Bits(reg.OCP, 0, 5)
               IN  IF trim <= 15 THEN 45 + 5 * trim
                   ELSE IF trim <= 27 THEN 10 * trim - 30 ELSE 240

\* The limit one gets for the one asked for, in mA.  1 .. 49 are raised to 50 and
\* 121 .. 129 to 130 (lora.cpp:59, 65), so that more may flow than was asked,
\* although lora.h:142 and lora.cpp:494 offer 45 to 240; the chip ends at 240.
LimitFor(ocp) == IF ocp < 50 THEN 50
                 ELSE IF ocp \in 121 .. 129 THEN 130
                 ELSE IF ocp > 240 THEN 240 ELSE ocp

\* A transmitting amplifier is protected when that was asked for, although
\* lora_set_tx_power switches protection off, and then trips less than a step of
\* 5 or 10 mA below LimitFor the current asked for, which is that current itself
\* in 50 .. 120 and 130 .. 240 and above it in 1 .. 49 and 121 .. 129.
OverCurrentTrips ==
    Mode(reg) = TX_MODE =>
        /\ Protected = (cfg.OCP # 0)
        /\ Protected => LET limit == LimitFor(cfg.OCP)
                            step == IF limit <= 120 THEN 5 ELSE 10
                        IN  TripCurrent \in limit - step + 1 .. limit

\* What the chip makes of REG_PA_CONFIG and REG_PA_DAC, in dBm.
Radiated == LET p == Bits(reg.PA_CONFIG, 0, 4)
            IN  IF Bits(reg.PA_CONFIG, 7, 1) = 0 THEN p
                ELSE IF reg.PA_DAC = 135 THEN p + 5 ELSE p + 2

\* Up to the 17 dBm of the regular amplifier setting, a transmitting chip
\* radiates the power asked for, clipped to the range of the chosen pin.
PowerAsAsked ==
    Mode(reg) = TX_MODE /\ cfg.outPower # 20 =>
        IF cfg.powerOutPin = RFO
        THEN Radiated = IF cfg.outPower > 15 THEN 15 ELSE cfg.outPower
        ELSE Radiated = IF cfg.outPower < 2 THEN 2 ELSE cfg.outPower

\* The comment in lora_set_tx_power: OP20 on PA_BOOST is "Max 20dBm power".
MaxPowerIs20dBm ==
    Mode(reg) = TX_MODE /\ cfg.outPower = 20 /\ cfg.powerOutPin = PA_BOOST =>
        Radiated = 20
=============================================================================
