---------------------------- MODULE MCRegisters ----------------------------
(* Configurations for TLC: what the programs use, and that with every value *)
(* of the fields that share a register or a setter.                         *)
EXTENDS Registers

Programs == {lora_initiate(b, g, t, 0) : b \in {"normal", "good", "best"},
                                         g \in {0, 7}, t \in 0 .. 1}

Base == lora_initiate("good", 3, 1, 20)

Varied ==
    UNION {
      {[Base EXCEPT !.bw = b, !.sf = s, !.AGC = a] :
          b \in BandWidth, s \in SpreadingFactor, a \in 0 .. 1},
      {[Base EXCEPT !.bw = b, !.ecr = e, !.implicitHeader = h, !.CRC = h] :
          b \in BandWidth, e \in ErrorCodingRate, h \in BOOLEAN},
      {[Base EXCEPT !.CRC = c, !.implicitHeader = h, !.payloadLen = n] :
          c \in BOOLEAN, h \in BOOLEAN, n \in {0, 20, 255}},
      {[Base EXCEPT !.outPower = p, !.powerOutPin = q, !.OCP = o] :
          p \in OutputPower, q \in {RFO, PA_BOOST}, o \in {0, 100}},
      {[Base EXCEPT !.OCP = o] : o \in Byte},
      {[Base EXCEPT !.preambleLen = n] : n \in {0, 5, 6, 255, 256, 65535, 65536}},
      {[Base EXCEPT !.freq = f, !.syncWord = w] :
          f \in {137000, 434000, 434800, 868100, 1020000}, w \in {0, 52, 255}} }

AllConfigs == Programs \cup Varied
=============================================================================
