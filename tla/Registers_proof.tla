-------------------------- MODULE Registers_proof --------------------------
(***************************************************************************)
(* What stands in the registers of the transceiver, for every set of        *)
(* configurations and of frame sizes: on air the chip does what modem->eth  *)
(* asks for, whatever calls came before.                                    *)
(***************************************************************************)
EXTENDS Registers, TLAPS

-----------------------------------------------------------------------------
(* Fields of a byte.                                                        *)

\* The fields of the registers, without powers.
LEMMA FieldForms ==
  ASSUME NEW x \in Int
  PROVE  /\ Bits(x, 0, 1) = x % 2 /\ Bits(x, 0, 3) = x % 8
         /\ Bits(x, 0, 4) = x % 16 /\ Bits(x, 0, 5) = x % 32
         /\ Bits(x, 1, 3) = (x \div 2) % 8 /\ Bits(x, 2, 1) = (x \div 4) % 2
         /\ Bits(x, 3, 1) = (x \div 8) % 2 /\ Bits(x, 4, 4) = (x \div 16) % 16
         /\ Bits(x, 5, 1) = (x \div 32) % 2 /\ Bits(x, 7, 1) = (x \div 128) % 2
         /\ Clear(x, 0, 1) = x - Bits(x, 0, 1) /\ Clear(x, 0, 3) = x - Bits(x, 0, 3)
         /\ Clear(x, 1, 3) = x - 2 * Bits(x, 1, 3) /\ Clear(x, 2, 1) = x - 4 * Bits(x, 2, 1)
         /\ Clear(x, 3, 1) = x - 8 * Bits(x, 3, 1) /\ Clear(x, 4, 4) = x - 16 * Bits(x, 4, 4)
         /\ Clear(x, 5, 1) = x - 32 * Bits(x, 5, 1) /\ Clear(x, 7, 1) = x - 128 * Bits(x, 7, 1)
<1>1. 2^0 = 1 /\ 2^1 = 2 /\ 2^2 = 4 /\ 2^3 = 8 /\ 2^4 = 16 /\ 2^5 = 32 /\ 2^7 = 128
  BY SMT
<1>2. x \div 1 = x
  BY SMT
<1>4. /\ Bits(x, 0, 1) = x % 2 /\ Bits(x, 0, 3) = x % 8
      /\ Bits(x, 0, 4) = x % 16 /\ Bits(x, 0, 5) = x % 32
      /\ Bits(x, 1, 3) = (x \div 2) % 8 /\ Bits(x, 2, 1) = (x \div 4) % 2
      /\ Bits(x, 3, 1) = (x \div 8) % 2 /\ Bits(x, 4, 4) = (x \div 16) % 16
      /\ Bits(x, 5, 1) = (x \div 32) % 2 /\ Bits(x, 7, 1) = (x \div 128) % 2
  BY <1>1, <1>2 DEF Bits
<1> QED
  BY <1>1, <1>4 DEF Clear

\* A byte is its eight bits.
LEMMA EightBits ==
  ASSUME NEW x \in Byte
  PROVE  \E b0, b1, b2, b3, b4, b5, b6, b7 \in 0 .. 1 :
           x = 128 * b7 + 64 * b6 + 32 * b5 + 16 * b4 + 8 * b3 + 4 * b2 + 2 * b1 + b0
<1>1. \A n \in Int : \E q \in Int, r \in 0 .. 1 : n = 2 * q + r
  <2> TAKE n \in Int
  <2> WITNESS n \div 2 \in Int, n % 2 \in 0 .. 1
  <2> QED
    OBVIOUS
<1>2. PICK q1 \in Int, q2 \in Int, q3 \in Int, q4 \in Int, q5 \in Int, q6 \in Int, q7 \in Int,
           r0 \in 0 .. 1, r1 \in 0 .. 1, r2 \in 0 .. 1, r3 \in 0 .. 1, r4 \in 0 .. 1,
           r5 \in 0 .. 1, r6 \in 0 .. 1 :
         /\ x = 2 * q1 + r0 /\ q1 = 2 * q2 + r1 /\ q2 = 2 * q3 + r2 /\ q3 = 2 * q4 + r3
         /\ q4 = 2 * q5 + r4 /\ q5 = 2 * q6 + r5 /\ q6 = 2 * q7 + r6
  BY <1>1 DEF Byte
<1>3. /\ q7 \in 0 .. 1
      /\ x = 128 * q7 + 64 * r6 + 32 * r5 + 16 * r4 + 8 * r3 + 4 * r2 + 2 * r1 + r0
  BY <1>2 DEF Byte
<1> USE <1>3
<1> WITNESS r0 \in 0 .. 1, r1 \in 0 .. 1, r2 \in 0 .. 1, r3 \in 0 .. 1,
            r4 \in 0 .. 1, r5 \in 0 .. 1, r6 \in 0 .. 1, q7 \in 0 .. 1
<1> QED
  BY <1>3

\* LoRa mode and the mode bits, of a new mode (lora.cpp:299-317).
LEMMA ModeField ==
  ASSUME NEW x \in Byte, NEW m \in 0 .. 7
  PROVE  /\ Clear(x, 0, 3) + m \in Byte
         /\ Bits(Clear(x, 0, 3) + m, 0, 3) = m
         /\ Bits(Clear(x, 0, 3) + m, 7, 1) = Bits(x, 7, 1)
         /\ Clear(Clear(x, 0, 3) + m, 7, 1) + 128 * Bits(x, 7, 1) = Clear(x, 0, 3) + m
<1>1. PICK q \in 0 .. 15, l \in 0 .. 1, r \in 0 .. 7 : x = 128 * l + 8 * q + r
  BY EightBits
<1>2. x \in Int /\ x % 8 = r /\ (x \div 128) % 2 = l
  BY <1>1
<1>3. Bits(x, 7, 1) = l /\ Clear(x, 0, 3) = 128 * l + 8 * q
  <2>1. /\ Bits(x, 7, 1) = (x \div 128) % 2 /\ Bits(x, 0, 3) = x % 8
        /\ Clear(x, 0, 3) = x - Bits(x, 0, 3)
    BY <1>2, FieldForms
  <2> QED
    BY <1>1, <1>2, <2>1
<1> DEFINE y == Clear(x, 0, 3) + m
<1>4. y = 128 * l + 8 * q + m
  BY <1>1, <1>3
<1>5. y \in Byte /\ y \in Int /\ y % 8 = m /\ (y \div 128) % 2 = l
  BY <1>1, <1>4 DEF Byte
<1> HIDE DEF y
<1>6. Bits(y, 0, 3) = m /\ Bits(y, 7, 1) = l /\ Clear(y, 7, 1) = y - 128 * l
  BY <1>5, FieldForms
<1>7. Clear(y, 7, 1) + 128 * l = y
  BY <1>1, <1>5, <1>6
<1> QED
  BY <1>3, <1>5, <1>6, <1>7 DEF y

\* The header bit, the coding rate and the bandwidth share a register.
LEMMA Config1Field ==
  ASSUME NEW x \in Byte, NEW h \in 0 .. 1, NEW e \in ErrorCodingRate, NEW b \in BandWidth
  PROVE  /\ Clear(x, 0, 1) + h \in Byte
         /\ Bits(Clear(x, 0, 1) + h, 0, 1) = h
         /\ Clear(x, 1, 3) + e \in Byte
         /\ Clear(Clear(x, 1, 3) + e, 4, 4) = e + Bits(x, 0, 1)
         /\ Clear(x, 4, 4) + b \in Byte
<1>0. PICK n \in 1 .. 4, w \in 0 .. 9 : e = 2 * n /\ b = 16 * w
  BY DEF ErrorCodingRate, BandWidth
<1>1. PICK q \in 0 .. 15, c \in 0 .. 7, r \in 0 .. 1 : x = 16 * q + 2 * c + r
  BY EightBits
<1>2. x \in Int /\ x % 2 = r /\ (x \div 2) % 8 = c /\ (x \div 16) % 16 = q
  BY <1>1
<1>3. /\ Bits(x, 0, 1) = r /\ Clear(x, 0, 1) = 16 * q + 2 * c
      /\ Clear(x, 1, 3) = 16 * q + r /\ Clear(x, 4, 4) = 2 * c + r
  <2>1. /\ Bits(x, 0, 1) = x % 2 /\ Bits(x, 1, 3) = (x \div 2) % 8
        /\ Bits(x, 4, 4) = (x \div 16) % 16 /\ Clear(x, 0, 1) = x - Bits(x, 0, 1)
        /\ Clear(x, 1, 3) = x - 2 * Bits(x, 1, 3) /\ Clear(x, 4, 4) = x - 16 * Bits(x, 4, 4)
    BY <1>2, FieldForms
  <2>2. Bits(x, 0, 1) = r /\ Bits(x, 1, 3) = c /\ Bits(x, 4, 4) = q
    BY <1>2, <2>1, Zenon
  <2>3. Clear(x, 0, 1) = x - r /\ Clear(x, 1, 3) = x - 2 * c /\ Clear(x, 4, 4) = x - 16 * q
    BY <2>1, <2>2, Zenon
  <2>4. x - r = 16 * q + 2 * c /\ x - 2 * c = 16 * q + r /\ x - 16 * q = 2 * c + r
    BY <1>1
  <2> QED
    BY <2>2, <2>3, <2>4, Zenon
<1>4. /\ Clear(x, 0, 1) + h \in Byte /\ Clear(x, 1, 3) + e \in Byte /\ Clear(x, 4, 4) + b \in Byte
      /\ Clear(x, 0, 1) + h \in Int /\ Clear(x, 1, 3) + e \in Int
  BY <1>0, <1>1, <1>3 DEF Byte
<1>5. Bits(Clear(x, 0, 1) + h, 0, 1) = h
  <2> DEFINE y == Clear(x, 0, 1) + h
  <2>1. y \in Int /\ y % 2 = h
    BY <1>1, <1>3
  <2> HIDE DEF y
  <2>2. Bits(y, 0, 1) = h
    BY <2>1, FieldForms
  <2> QED
    BY <2>2 DEF y
<1>6. Clear(Clear(x, 1, 3) + e, 4, 4) = e + Bits(x, 0, 1)
  <2> DEFINE y == Clear(x, 1, 3) + e
  <2>1. y \in Int /\ (y \div 16) % 16 = q /\ y = 16 * q + 2 * n + r
    BY <1>0, <1>1, <1>3
  <2> HIDE DEF y
  <2>2. Clear(y, 4, 4) = 2 * n + r
    <3>1. Clear(y, 4, 4) = y - 16 * ((y \div 16) % 16)
      BY <2>1, FieldForms
    <3> QED
      BY <1>0, <1>1, <2>1, <3>1
  <2> QED
    BY <1>0, <1>1, <1>3, <2>2 DEF y
<1> QED
  BY <1>4, <1>5, <1>6

\* The spreading factor and the CRC bit share a register.
LEMMA Config2Field ==
  ASSUME NEW x \in Byte, NEW s \in SpreadingFactor, NEW c \in 0 .. 1
  PROVE  /\ Clear(x, 4, 4) + s \in Byte
         /\ Bits(Clear(x, 4, 4) + s, 4, 4) * 16 = s
         /\ Clear(x, 2, 1) + 4 * c \in Byte
         /\ Bits(Clear(x, 2, 1) + 4 * c, 2, 1) = c
         /\ Bits(Clear(x, 2, 1) + 4 * c, 4, 4) = Bits(x, 4, 4)
<1>0. PICK n \in 7 .. 12 : s = 16 * n
  BY DEF SpreadingFactor
<1>1. PICK q \in 0 .. 15, u \in 0 .. 1, d \in 0 .. 1, v \in 0 .. 3 :
         x = 16 * q + 8 * u + 4 * d + v
  BY EightBits
<1>2. x \in Int /\ (x \div 4) % 2 = d /\ (x \div 16) % 16 = q
  BY <1>1
<1>3. Bits(x, 4, 4) = q /\ Clear(x, 4, 4) = 8 * u + 4 * d + v /\ Clear(x, 2, 1) = 16 * q + 8 * u + v
  <2>1. /\ Bits(x, 2, 1) = (x \div 4) % 2 /\ Bits(x, 4, 4) = (x \div 16) % 16
        /\ Clear(x, 2, 1) = x - 4 * Bits(x, 2, 1) /\ Clear(x, 4, 4) = x - 16 * Bits(x, 4, 4)
    BY <1>2, FieldForms
  <2>2. Bits(x, 2, 1) = d /\ Bits(x, 4, 4) = q
    BY <1>2, <2>1, Zenon
  <2>3. Clear(x, 2, 1) = x - 4 * d /\ Clear(x, 4, 4) = x - 16 * q
    BY <2>1, <2>2, Zenon
  <2>4. x - 4 * d = 16 * q + 8 * u + v /\ x - 16 * q = 8 * u + 4 * d + v
    BY <1>1
  <2> QED
    BY <2>2, <2>3, <2>4, Zenon
<1> DEFINE y == Clear(x, 4, 4) + s
           z == Clear(x, 2, 1) + 4 * c
<1>4. y \in Byte /\ y \in Int /\ (y \div 16) % 16 = n
  BY <1>0, <1>1, <1>3 DEF Byte
<1>5. z \in Byte /\ z \in Int /\ (z \div 16) % 16 = q /\ (z \div 4) % 2 = c
  BY <1>1, <1>3 DEF Byte
<1> HIDE DEF y, z
<1>6. Bits(y, 4, 4) = n
  BY <1>4, FieldForms
<1>7. Bits(z, 4, 4) = q /\ Bits(z, 2, 1) = c
  BY <1>5, FieldForms
<1> QED
  BY <1>0, <1>3, <1>4, <1>5, <1>6, <1>7 DEF y, z

\* Automatic gain control and the low-data-rate bit share a register.
LEMMA Config3Field ==
  ASSUME NEW a \in 0 .. 1, NEW x \in {4 * a, 4 * a + 8}, NEW b \in 0 .. 1
  PROVE  /\ 4 * a \in Byte
         /\ Clear(x, 3, 1) + 8 * b = 4 * a + 8 * b
         /\ 4 * a + 8 * b \in Byte
         /\ Bits(4 * a + 8 * b, 3, 1) = b
         /\ Bits(4 * a + 8 * b, 2, 1) = a
<1>1. x \in Int /\ x - 8 * ((x \div 8) % 2) = 4 * a
  <2>1. CASE a = 0
    BY <2>1
  <2>2. CASE a = 1
    BY <2>2
  <2> QED
    BY <2>1, <2>2
<1>2. Clear(x, 3, 1) = 4 * a
  <2>1. Clear(x, 3, 1) = x - 8 * Bits(x, 3, 1) /\ Bits(x, 3, 1) = (x \div 8) % 2
    BY <1>1, FieldForms
  <2> QED
    BY <1>1, <2>1
<1> DEFINE y == 4 * a + 8 * b
<1>3. y \in Int /\ y \in Byte /\ (y \div 8) % 2 = b /\ (y \div 4) % 2 = a
  BY DEF Byte
<1> HIDE DEF y
<1>4. Bits(y, 3, 1) = b /\ Bits(y, 2, 1) = a
  BY <1>3, FieldForms
<1> QED
  BY <1>2, <1>3, <1>4 DEF y, Byte

\* A pin and a level share a register.
LEMMA PowerField ==
  ASSUME NEW p \in 0 .. 31, NEW pin \in {RFO, PA_BOOST}
  PROVE  /\ pin + (p % 16) \in Byte
         /\ Bits(pin + (p % 16), 0, 4) = p % 16
         /\ Bits(pin + (p % 16), 7, 1) = IF pin = RFO THEN 0 ELSE 1
<1> DEFINE m == p % 16
           y == pin + m
<1>1. m \in 0 .. 15
  OBVIOUS
<1> HIDE DEF m
<1>2. /\ y \in Byte /\ y \in Int /\ y % 16 = m
      /\ (y \div 128) % 2 = IF pin = RFO THEN 0 ELSE 1
  BY <1>1 DEF RFO, PA_BOOST, Byte
<1> HIDE DEF y
<1>3. Bits(y, 0, 4) = y % 16 /\ Bits(y, 7, 1) = (y \div 128) % 2
  BY <1>2, FieldForms
<1> QED
  BY <1>2, <1>3 DEF y, m

\* The byte that lora_set_ocp makes of a limit (lora.cpp:53-70), and what the chip makes of it.
OcpByte(o) == IF o = 0 THEN 31
              ELSE IF o <= 120 THEN ((IF o < 50 THEN 50 ELSE o) - 45) \div 5 + 32
              ELSE ((IF o < 130 THEN 130 ELSE o) + 30) \div 10 + 32

Trip(v) == LET trim == Bits(v, 0, 5)
           IN  IF trim <= 15 THEN 45 + 5 * trim
               ELSE IF trim <= 27 THEN 10 * trim - 30 ELSE 240

\* The chip trips less than a step below the limit one gets.
TripsBy(o) == LET limit == LimitFor(o)
                  step == IF limit <= 120 THEN 5 ELSE 10
              IN  Trip(OcpByte(o)) \in limit - step + 1 .. limit

\* The byte switches protection on for every limit but 0, and holds the limit.
LEMMA OcpField ==
  ASSUME NEW o \in Byte
  PROVE  /\ OcpByte(o) \in Byte
         /\ (Bits(OcpByte(o), 5, 1) = 1) = (o # 0)
         /\ o # 0 => TripsBy(o)
<1> DEFINE v == OcpByte(o)
<1>1. CASE o = 0
  <2>1. v = 31
    BY <1>1 DEF OcpByte
  <2>2. 31 \in Int /\ (31 \div 32) % 2 = 0
    OBVIOUS
  <2>3. Bits(31, 5, 1) = 0
    BY <2>2, FieldForms
  <2> QED
    BY <1>1, <2>1, <2>3 DEF Byte
<1>2. CASE o # 0 /\ o <= 120
  <2> DEFINE w == IF o < 50 THEN 50 ELSE o
  <2>0. w \in 50 .. 120 /\ LimitFor(o) = w
    BY <1>2 DEF Byte, LimitFor
  <2>1. PICK t \in 1 .. 15 : v = t + 32 /\ 45 + 5 * t \in w - 4 .. w
    <3> DEFINE t == (w - 45) \div 5
    <3>1. w \in 50 .. 120
      BY <2>0
    <3>2. v = t + 32
      BY <1>2 DEF OcpByte
    <3> HIDE DEF w
    <3>3. t \in 1 .. 15 /\ 45 + 5 * t \in w - 4 .. w
      BY <3>1
    <3> HIDE DEF t, v
    <3> QED
      BY <3>1, <3>2, <3>3
  <2> HIDE DEF v, w
  <2>2. v \in Int /\ v \in Byte /\ (v \div 32) % 2 = 1 /\ v % 32 = t
    BY <2>1 DEF Byte
  <2>3. Bits(v, 5, 1) = 1 /\ Bits(v, 0, 5) = t
    BY <2>2, FieldForms
  <2>4. Trip(v) = 45 + 5 * t
    BY <2>1, <2>3 DEF Trip
  <2>5. Trip(v) \in w - 5 + 1 .. w /\ w <= 120
    BY <2>0, <2>1, <2>4
  <2>6. TripsBy(o)
    BY <2>0, <2>5, Zenon DEF TripsBy, v
  <2> QED
    BY <1>2, <2>2, <2>3, <2>6 DEF v
<1>3. CASE o > 120
  <2> DEFINE w == IF o < 130 THEN 130 ELSE o
  <2>0. w \in 130 .. 255 /\ LimitFor(o) = IF w > 240 THEN 240 ELSE w
    BY <1>3 DEF Byte, LimitFor
  <2>1. PICK t \in 16 .. 28 : /\ v = t + 32
                              /\ w <= 240 => t <= 27 /\ 10 * t - 30 \in w - 9 .. w
                              /\ w > 240 => t >= 27
    <3> DEFINE t == (w + 30) \div 10
    <3>1. w \in 130 .. 255
      BY <2>0
    <3>2. v = t + 32
      BY <1>3 DEF OcpByte, Byte
    <3> HIDE DEF w
    <3>3. /\ t \in 16 .. 28 /\ 10 * t - 30 \in w - 9 .. w
          /\ (w <= 240 => t <= 27) /\ (w > 240 => t >= 27)
      BY <3>1
    <3> HIDE DEF t, v
    <3> QED
      BY <3>1, <3>2, <3>3
  <2> HIDE DEF v, w
  <2>2. v \in Int /\ v \in Byte /\ (v \div 32) % 2 = 1 /\ v % 32 = t
    BY <2>1 DEF Byte
  <2>3. Bits(v, 5, 1) = 1 /\ Bits(v, 0, 5) = t
    BY <2>2, FieldForms
  <2> DEFINE limit == IF w > 240 THEN 240 ELSE w
  <2>4. Trip(v) = IF t <= 15 THEN 45 + 5 * t ELSE IF t <= 27 THEN 10 * t - 30 ELSE 240
    BY <2>3, Zenon DEF Trip
  <2>5. Trip(v) \in limit - 10 + 1 .. limit /\ ~(limit <= 120)
    BY <2>0, <2>1, <2>4
  <2> HIDE DEF limit
  <2>6. TripsBy(o)
    BY <2>0, <2>5, Zenon DEF TripsBy, v, limit
  <2>7. o # 0
    BY <1>3
  <2> QED
    BY <2>2, <2>3, <2>6, <2>7, Zenon DEF v
<1> QED
  BY <1>1, <1>2, <1>3 DEF Byte

\* Three bytes of a number.
LEMMA ThreeBytes ==
  ASSUME NEW n \in Nat, n < 16777216
  PROVE  /\ (n \div 65536) % 256 \in Byte /\ (n \div 256) % 256 \in Byte /\ n % 256 \in Byte
         /\ ((n \div 65536) % 256) * 65536 + ((n \div 256) % 256) * 256 + (n % 256) = n
<1>1. (n \div 65536) % 256 \in Byte /\ (n \div 256) % 256 \in Byte /\ n % 256 \in Byte
  BY SMT DEF Byte
<1>2. (n \div 65536) * 65536 + ((n \div 256) % 256) * 256 + (n % 256) = n
  BY SMT
<1>3. (n \div 65536) % 256 = n \div 65536
  BY SMT
<1> QED
  BY <1>1, <1>2, <1>3, SMT

\* Two bytes of a number.
LEMMA TwoBytes ==
  ASSUME NEW n \in Nat, n <= 65535
  PROVE  /\ (n \div 256) % 256 \in Byte /\ n % 256 \in Byte
         /\ ((n \div 256) % 256) * 256 + (n % 256) = n
<1>1. (n \div 256) % 256 \in Byte /\ n % 256 \in Byte
  BY SMT DEF Byte
<1>2. (n \div 256) * 256 + (n % 256) = n
  BY SMT
<1>3. (n \div 256) % 256 = n \div 256
  BY SMT
<1> QED
  BY <1>1, <1>2, <1>3, SMT

\* The carrier is rounded up to a step of the synthesizer.
LEMMA CarrierStep ==
  ASSUME NEW f \in Carriers
  PROVE  Frf(f) \in Nat /\ Frf(f) < 16777216 /\ Frf(f) * 125 - f * 2048 \in 0 .. 124
<1>1. Frf(f) \in Nat /\ Frf(f) < 16777216
  BY SMT DEF Frf, Carriers
<1>2. Frf(f) * 125 - f * 2048 \in 0 .. 124
  BY SMT DEF Frf, Carriers
<1> QED
  BY <1>1, <1>2, SMT

-----------------------------------------------------------------------------
(* The registers as a function.                                             *)

Regs == CommonRegisters \cup LoraRegisters

Chip == [Regs -> Byte]

LEMMA WriteFacts ==
  ASSUME NEW r \in Chip, NEW n \in Regs, n # "OP_MODE", n \in LoraRegisters => LongRange(r),
         NEW v \in Byte
  PROVE  /\ Write(r, n, v) \in Chip
         /\ Write(r, n, v)[n] = v
         /\ \A k \in Regs \ {n} : Write(r, n, v)[k] = r[k]
<1>1. Write(r, n, v) = [r EXCEPT ![n] = v]
  BY Zenon DEF Write
<1> QED
  BY <1>1 DEF Chip

LEMMA ResetType == ResetValues \in Chip
BY DEF ResetValues, Chip, Regs, CommonRegisters, LoraRegisters, Byte


\* The other registers are what they were.
Else(r, q, written) == \A k \in Regs \ written : q[k] = r[k]

\* A write to one register, by name.
LEMMA ElseNames ==
  ASSUME NEW r, NEW q, NEW W, Else(r, q, W)
  PROVE  /\ "OP_MODE" \notin W => q.OP_MODE = r.OP_MODE
         /\ "FR_MSB" \notin W => q.FR_MSB = r.FR_MSB
         /\ "FR_MID" \notin W => q.FR_MID = r.FR_MID
         /\ "FR_LSB" \notin W => q.FR_LSB = r.FR_LSB
         /\ "PA_CONFIG" \notin W => q.PA_CONFIG = r.PA_CONFIG
         /\ "PA_DAC" \notin W => q.PA_DAC = r.PA_DAC
         /\ "OCP" \notin W => q.OCP = r.OCP
         /\ "MODEM_CONFIG_1" \notin W => q.MODEM_CONFIG_1 = r.MODEM_CONFIG_1
         /\ "MODEM_CONFIG_2" \notin W => q.MODEM_CONFIG_2 = r.MODEM_CONFIG_2
         /\ "MODEM_CONFIG_3" \notin W => q.MODEM_CONFIG_3 = r.MODEM_CONFIG_3
         /\ "PAYLOAD_LENGTH" \notin W => q.PAYLOAD_LENGTH = r.PAYLOAD_LENGTH
         /\ "PREAMBLE_MSB" \notin W => q.PREAMBLE_MSB = r.PREAMBLE_MSB
         /\ "PREAMBLE_LSB" \notin W => q.PREAMBLE_LSB = r.PREAMBLE_LSB
         /\ "SYNC_WORD" \notin W => q.SYNC_WORD = r.SYNC_WORD
BY SMT DEF Else, Regs, CommonRegisters, LoraRegisters

\* What the mode setters do, whatever the mode before (lora.cpp:299-317).
LEMMA SetModeFacts ==
  ASSUME NEW r \in Chip, NEW m \in 0 .. 7
  PROVE  /\ SetMode(r, m) \in Chip
         /\ Mode(SetMode(r, m)) = m
         /\ LongRange(SetMode(r, m)) <=> LongRange(r)
         /\ Else(r, SetMode(r, m), {"OP_MODE"})
<1> DEFINE v == Clear(r.OP_MODE, 0, 3) + m
<1>1. r.OP_MODE \in Byte /\ "OP_MODE" \in Regs
  BY DEF Chip, Regs, CommonRegisters
<1>2. /\ v \in Byte /\ Bits(v, 0, 3) = m /\ Bits(v, 7, 1) = Bits(r.OP_MODE, 7, 1)
      /\ Clear(v, 7, 1) + 128 * Bits(r.OP_MODE, 7, 1) = v
  BY <1>1, ModeField
<1> HIDE DEF v
<1>3. SetMode(r, m) = [r EXCEPT !.OP_MODE = v]
  BY <1>2 DEF SetMode, WriteOpMode, v
<1>4. SetMode(r, m).OP_MODE = v
  BY <1>1, <1>3 DEF Chip
<1>5. SetMode(r, m) \in Chip /\ Else(r, SetMode(r, m), {"OP_MODE"})
  BY <1>1, <1>2, <1>3 DEF Chip, Else
<1> QED
  BY <1>2, <1>4, <1>5, Zenon DEF Mode, LongRange

\* LoRa mode is entered through sleep mode (lora.cpp:319-322).
LEMMA LoraModeFacts ==
  ASSUME NEW r \in Chip
  PROVE  /\ lora_set_lora_mode(r) \in Chip
         /\ Mode(lora_set_lora_mode(r)) = SLEEP_MODE
         /\ LongRange(lora_set_lora_mode(r))
<1> DEFINE a == SetMode(r, SLEEP_MODE)
           x == a.OP_MODE
           v == Clear(x, 7, 1) + 128
<1>1. a \in Chip /\ Mode(a) = 0
  BY SetModeFacts DEF SLEEP_MODE
<1> HIDE DEF a
<1>2. x \in Byte /\ Bits(x, 0, 3) = 0 /\ "OP_MODE" \in Regs
  BY <1>1 DEF Mode, Chip, Regs, CommonRegisters
<1> HIDE DEF x
<1>3. v \in Byte /\ Bits(v, 0, 3) = 0 /\ Bits(v, 7, 1) = 1
  <2>1. PICK q \in 0 .. 15, l \in 0 .. 1, n \in 0 .. 7 : x = 128 * l + 8 * q + n
    BY <1>2, EightBits
  <2>2. x \in Int /\ x % 8 = n /\ (x \div 128) % 2 = l
    BY <2>1
  <2>3. Bits(x, 0, 3) = n /\ Clear(x, 7, 1) = x - 128 * l
    BY <2>2, FieldForms
  <2>4. v = 128 + 8 * q
    BY <1>2, <2>1, <2>3
  <2> HIDE DEF v
  <2>5. v \in Int /\ v \in Byte /\ v % 8 = 0 /\ (v \div 128) % 2 = 1
    BY <2>4 DEF Byte
  <2> QED
    BY <2>5, FieldForms
<1> HIDE DEF v
<1>4. lora_set_lora_mode(r) = [a EXCEPT !.OP_MODE = v]
  BY <1>1, Zenon DEF lora_set_lora_mode, lora_set_sleep_mode, WriteOpMode, SLEEP_MODE, a, v, x
<1>5. lora_set_lora_mode(r).OP_MODE = v /\ lora_set_lora_mode(r) \in Chip
  BY <1>1, <1>2, <1>3, <1>4 DEF Chip
<1> QED
  BY <1>3, <1>5, Zenon DEF Mode, LongRange, SLEEP_MODE

-----------------------------------------------------------------------------
(* The inductive invariant.                                                 *)

\* Where the program is after each setter of LoRa_begin; Calls after all of them.
Calls == {"ready", "send_rate", "send_fifo", "send_mode", "sent",
          "receive_standby", "receive_mode", "listening"}
OcpDone == Calls \cup {"freq", "base"}
AgcDone == OcpDone \cup {"ocp", "lna"}
PreambleDone == AgcDone \cup {"agc"}
SyncDone == PreambleDone \cup {"preamble"}
PowerDone == SyncDone \cup {"syncw"}
CrcDone == PowerDone \cup {"power"}
SfDone == CrcDone \cup {"crc"}
BandwidthDone == SfDone \cup {"sf"}
HeaderDone == BandwidthDone \cup {"bandwidth", "errorcr"}

\* Where the low-data-rate bit is that of the configuration.
RateDone == {"send_fifo", "send_mode", "sent", "receive_standby", "receive_mode", "listening"}

\* Where a transmission or a reception may be on.
OnAirLabels == {"sent", "listening", "receive_standby"}

HeaderBit(c) == IF c.implicitHeader THEN 1 ELSE 0

RateBit(c) == IF lowDataRateOptimize(c) THEN 1 ELSE 0

\* What stands in the registers of the link at l.
LinkPart(c, r, l) ==
    /\ l = "errorcr" => Bits(r.MODEM_CONFIG_1, 0, 1) = HeaderBit(c)
    /\ l = "bandwidth" => Clear(r.MODEM_CONFIG_1, 4, 4) = c.ecr + HeaderBit(c)
    /\ l \in BandwidthDone => r.MODEM_CONFIG_1 = c.bw + c.ecr + HeaderBit(c)
    /\ l \in HeaderDone /\ c.implicitHeader => r.PAYLOAD_LENGTH = c.payloadLen
    /\ l \in SfDone => Bits(r.MODEM_CONFIG_2, 4, 4) * 16 = c.sf
    /\ l \in CrcDone => (Bits(r.MODEM_CONFIG_2, 2, 1) = 1) = c.CRC

\* The same for the sync word and the preamble.
SyncPart(c, r, l) ==
    /\ l \in SyncDone => r.SYNC_WORD = c.syncWord
    /\ l \in PreambleDone /\ c.preambleLen >= 6 /\ c.preambleLen <= 65535 =>
          r.PREAMBLE_MSB * 256 + r.PREAMBLE_LSB = c.preambleLen

\* The same for the power, the current limit switched off in between.
PowerSet(c, r) ==
    IF c.powerOutPin = RFO
    THEN /\ Bits(r.PA_CONFIG, 7, 1) = 0
         /\ Bits(r.PA_CONFIG, 0, 4) = IF c.outPower > 15 THEN 15 ELSE c.outPower
    ELSE c.outPower # 20 =>
         /\ Bits(r.PA_CONFIG, 7, 1) = 1
         /\ Bits(r.PA_CONFIG, 0, 4) = (IF c.outPower < 2 THEN 2 ELSE c.outPower) - 2
         /\ r.PA_DAC = 132

PowerPart(c, r, l) ==
    /\ l \in PowerDone => PowerSet(c, r)
    /\ l \in PowerDone \ OcpDone => r.OCP = 31
    /\ l \in OcpDone => r.OCP = OcpByte(c.OCP)

\* The same for gain control and the low-data-rate bit.
RatePart(c, r, l) ==
    /\ l \in AgcDone => r.MODEM_CONFIG_3 \in {4 * c.AGC, 4 * c.AGC + 8}
    /\ l \in RateDone => r.MODEM_CONFIG_3 = 4 * c.AGC + 8 * RateBit(c)

\* The same for the carrier.
CarrierPart(c, r, l) ==
    l \in Calls => r.FR_MSB * 65536 + r.FR_MID * 256 + r.FR_LSB = Frf(c.freq)

Parts(c, r, l) == /\ LinkPart(c, r, l) /\ SyncPart(c, r, l) /\ PowerPart(c, r, l)
                  /\ RatePart(c, r, l) /\ CarrierPart(c, r, l)

\* LoRa mode, and where the chip may be on air.
ModePart(r, l) == /\ l \notin {"begin", "lora"} => LongRange(r)
                  /\ OnAir(r) => l \in OnAirLabels

RegInv == /\ cfg \in Configs /\ reg \in Chip /\ pc \in Labels
          /\ ModePart(reg, pc)
          /\ Parts(cfg, reg, pc)

-----------------------------------------------------------------------------
(* Each setter of LoRa_begin.                                               *)

LEMMA ConfigType ==
  ASSUME NEW c \in Configs
  PROVE  /\ c.bw \in BandWidth /\ c.sf \in SpreadingFactor /\ c.ecr \in ErrorCodingRate
         /\ c.freq \in Carriers /\ c.preambleLen \in Nat /\ c.outPower \in OutputPower
         /\ c.powerOutPin \in {RFO, PA_BOOST} /\ c.syncWord \in Byte /\ c.lnaGain \in 0 .. 7
         /\ c.lnaBoost \in 0 .. 1 /\ c.AGC \in 0 .. 1 /\ c.OCP \in Byte
         /\ c.implicitHeader \in BOOLEAN /\ c.payloadLen \in Byte /\ c.CRC \in BOOLEAN
<1>1. c \in Modem_cfg
  BY RegistersAssumption
<1> QED
  BY <1>1 DEF Modem_cfg

\* A write to a register of LoRa mode, and what it leaves alone.
LEMMA WriteNamed ==
  ASSUME NEW r \in Chip, LongRange(r), NEW n \in Regs, n # "OP_MODE", NEW v \in Byte
  PROVE  /\ Write(r, n, v) \in Chip /\ Write(r, n, v)[n] = v
         /\ LongRange(Write(r, n, v)) /\ Else(r, Write(r, n, v), {n})
<1>1. /\ Write(r, n, v) \in Chip /\ Write(r, n, v)[n] = v
      /\ \A k \in Regs \ {n} : Write(r, n, v)[k] = r[k]
  BY WriteFacts
<1>2. Write(r, n, v).OP_MODE = r.OP_MODE
  BY <1>1 DEF Regs, CommonRegisters
<1> QED
  BY <1>1, <1>2, Zenon DEF Else, LongRange

\* Writes add up.
LEMMA ElseTwice ==
  ASSUME NEW r, NEW p, NEW q, NEW V, NEW W, Else(r, p, V), Else(p, q, W)
  PROVE  Else(r, q, V \cup W)
BY DEF Else

\* Whether the chip is in LoRa mode or on air is up to one register.
LEMMA SameMode ==
  ASSUME NEW r, NEW q, NEW l, NEW m, ModePart(r, l), q.OP_MODE = r.OP_MODE,
         l \notin {"begin", "lora"}, m \notin {"begin", "lora"},
         l \in OnAirLabels => m \in OnAirLabels
  PROVE  ModePart(q, m)
BY DEF ModePart, OnAir, Mode, LongRange

\* The registers have these names.
LEMMA Names ==
  /\ {"OP_MODE", "FR_MSB", "FR_MID", "FR_LSB", "PA_CONFIG", "OCP", "LNA", "PA_DAC",
      "FIFO_TX_BASE_ADDR", "FIFO_RX_BASE_ADDR", "MODEM_CONFIG_1", "MODEM_CONFIG_2",
      "MODEM_CONFIG_3", "PAYLOAD_LENGTH", "PREAMBLE_MSB", "PREAMBLE_LSB", "SYNC_WORD",
      "DETECT_OPTIMIZE", "DETECTION_THRESHOLD"} \subseteq Regs
BY DEF Regs, CommonRegisters, LoraRegisters

\* A setter of LoRa_begin that writes the registers W and settles its part.
LEMMA Settled ==
  ASSUME RegInv, NEW l, NEW m, NEW q, Do({l}, m, q), q \in Chip,
         l \notin {"begin", "lora"} \cup OnAirLabels, m \in Labels \ {"begin", "lora"},
         q.OP_MODE = reg.OP_MODE, Parts(cfg, q, m)
  PROVE  RegInv'
<1>1. cfg' = cfg /\ reg' = q /\ pc' = m /\ pc = l
  BY Zenon DEF Do
<1>2. ModePart(q, m)
  BY <1>1, SameMode DEF RegInv
<1> QED
  BY <1>1, <1>2, Zenon DEF RegInv

LEMMA HeaderStep ==
  ASSUME RegInv,
         Do({"header"}, "errorcr",
            IF cfg.implicitHeader
            THEN lora_set_payload(lora_set_implicit_header(reg), cfg.payloadLen)
            ELSE lora_set_explicit_header(reg))
  PROVE  RegInv'
<1> DEFINE h == HeaderBit(cfg)
           v == Clear(reg.MODEM_CONFIG_1, 0, 1) + h
           p == Write(reg, "MODEM_CONFIG_1", v)
           q == IF cfg.implicitHeader THEN Write(p, "PAYLOAD_LENGTH", cfg.payloadLen) ELSE p
<1>1. /\ reg \in Chip /\ LongRange(reg) /\ pc = "header" /\ cfg \in Configs
      /\ reg.MODEM_CONFIG_1 \in Byte
  BY Names DEF RegInv, ModePart, Do, Chip
<1>2. cfg.implicitHeader \in BOOLEAN /\ cfg.payloadLen \in Byte /\ h \in 0 .. 1
  BY <1>1, ConfigType DEF HeaderBit
<1>3. v \in Byte /\ Bits(v, 0, 1) = h
  <2>1. 2 \in ErrorCodingRate /\ 0 \in BandWidth
    BY SMT DEF ErrorCodingRate, BandWidth
  <2> QED
    BY <1>1, <1>2, <2>1, Config1Field
<1>4. Do({"header"}, "errorcr", q)
  <2>1. h = IF cfg.implicitHeader THEN 1 ELSE 0
    BY Zenon DEF HeaderBit
  <2>2. CASE cfg.implicitHeader
    BY <2>1, <2>2, Zenon DEF lora_set_payload, lora_set_implicit_header
  <2>3. CASE ~cfg.implicitHeader
    <3>1. v = Clear(reg.MODEM_CONFIG_1, 0, 1)
      BY <1>1, <2>1, <2>3, FieldForms DEF Byte, Bits
    <3> QED
      BY <2>3, <3>1, Zenon DEF lora_set_explicit_header
  <2> QED
    BY <2>2, <2>3
<1> HIDE DEF v, h
<1>5. /\ p \in Chip /\ p.MODEM_CONFIG_1 = v /\ LongRange(p)
      /\ Else(reg, p, {"MODEM_CONFIG_1"})
  BY <1>1, <1>3, WriteNamed, Names
<1> HIDE DEF p
<1>6. /\ q \in Chip /\ q.MODEM_CONFIG_1 = v /\ q.OP_MODE = p.OP_MODE
      /\ cfg.implicitHeader => q.PAYLOAD_LENGTH = cfg.payloadLen
  <2>1. CASE cfg.implicitHeader
    <3>1. /\ q \in Chip /\ q.PAYLOAD_LENGTH = cfg.payloadLen
          /\ Else(p, q, {"PAYLOAD_LENGTH"})
      BY <1>2, <1>5, <2>1, WriteNamed, Names
    <3> HIDE DEF q
    <3> QED
      BY <1>5, <3>1, ElseNames
  <2>2. CASE ~cfg.implicitHeader
    BY <1>5, <2>2
  <2> QED
    BY <2>1, <2>2
<1> HIDE DEF q
<1>7. p.OP_MODE = reg.OP_MODE
  BY <1>5, ElseNames
<1>8. Parts(cfg, q, "errorcr")
  BY <1>3, <1>6 DEF h, Parts, LinkPart, SyncPart, PowerPart, RatePart, CarrierPart, HeaderDone,
     BandwidthDone, SfDone, CrcDone, PowerDone, SyncDone, PreambleDone, AgcDone, OcpDone,
     Calls, RateDone
<1> QED
  BY <1>4, <1>6, <1>7, <1>8, Settled DEF OnAirLabels, Labels, HeaderDone

\* Within LoRa_begin.
Moves(l, m) == l \notin {"begin", "lora"} \cup OnAirLabels /\ m \in Labels \ {"begin", "lora"}

LEMMA BeginMoves ==
  /\ Moves("header", "errorcr") /\ Moves("errorcr", "bandwidth") /\ Moves("bandwidth", "sf")
  /\ Moves("sf", "crc") /\ Moves("crc", "power") /\ Moves("power", "syncw")
  /\ Moves("syncw", "preamble") /\ Moves("preamble", "agc") /\ Moves("agc", "lna")
  /\ Moves("lna", "ocp") /\ Moves("ocp", "base") /\ Moves("base", "freq")
  /\ Moves("freq", "ready") /\ Moves("send_rate", "send_fifo") /\ Moves("send_fifo", "send_mode")
BY DEF Moves, Labels, HeaderDone, BandwidthDone, SfDone, CrcDone, PowerDone, SyncDone,
   PreambleDone, AgcDone, OcpDone, Calls, OnAirLabels

\* One write of LoRa_begin.
LEMMA WriteStep ==
  ASSUME RegInv, NEW l, NEW m, NEW n \in Regs \ {"OP_MODE"}, NEW v \in Byte,
         Do({l}, m, Write(reg, n, v)), Moves(l, m)
  PROVE  /\ cfg \in Configs /\ reg \in Chip /\ pc = l /\ LongRange(reg) /\ Parts(cfg, reg, l)
         /\ Write(reg, n, v)[n] = v /\ Else(reg, Write(reg, n, v), {n})
         /\ Write(reg, n, v) \in Chip
         /\ Parts(cfg, Write(reg, n, v), m) => RegInv'
<1>1. cfg \in Configs /\ reg \in Chip /\ pc = l /\ LongRange(reg) /\ Parts(cfg, reg, l)
  BY DEF RegInv, ModePart, Do, Moves
<1>2. /\ Write(reg, n, v)[n] = v /\ Else(reg, Write(reg, n, v), {n})
      /\ Write(reg, n, v) \in Chip
  BY <1>1, WriteNamed
<1>3. Write(reg, n, v).OP_MODE = reg.OP_MODE
  BY <1>2, ElseNames
<1> QED
  BY <1>1, <1>2, <1>3, Settled DEF Moves

LEMMA ErrorcrStep ==
  ASSUME RegInv, Do({"errorcr"}, "bandwidth", lora_set_errorcr(reg, cfg.ecr))
  PROVE  RegInv'
<1> DEFINE x == reg.MODEM_CONFIG_1
           v == Clear(x, 1, 3) + cfg.ecr
           q == Write(reg, "MODEM_CONFIG_1", v)
<1>1. cfg \in Configs /\ x \in Byte
  BY Names DEF RegInv, Chip
<1>2. v \in Byte /\ Clear(v, 4, 4) = cfg.ecr + Bits(x, 0, 1)
  BY <1>1, ConfigType, Config1Field
<1>3. Do({"errorcr"}, "bandwidth", q)
  BY Zenon DEF lora_set_errorcr
<1> HIDE DEF v
<1>4. /\ Parts(cfg, reg, "errorcr") /\ q.MODEM_CONFIG_1 = v
      /\ Else(reg, q, {"MODEM_CONFIG_1"}) /\ (Parts(cfg, q, "bandwidth") => RegInv')
  <2>1. "MODEM_CONFIG_1" \in Regs \ {"OP_MODE"} /\ Moves("errorcr", "bandwidth")
    BY Names, BeginMoves
  <2> QED
    BY <1>2, <1>3, <2>1, WriteStep
<1> HIDE DEF q
<1>5. q.PAYLOAD_LENGTH = reg.PAYLOAD_LENGTH
  BY <1>4, ElseNames
<1>6. Parts(cfg, q, "bandwidth")
  BY <1>2, <1>4, <1>5 DEF Parts, LinkPart, SyncPart, PowerPart, RatePart, CarrierPart,
     HeaderDone, BandwidthDone, SfDone, CrcDone, PowerDone, SyncDone, PreambleDone, AgcDone,
     OcpDone, Calls, RateDone
<1> QED
  BY <1>4, <1>6

LEMMA BandwidthStep ==
  ASSUME RegInv, Do({"bandwidth"}, "sf", lora_set_bandwidth(reg, cfg.bw))
  PROVE  RegInv'
<1> DEFINE x == reg.MODEM_CONFIG_1
           v == Clear(x, 4, 4) + cfg.bw
           q == Write(reg, "MODEM_CONFIG_1", v)
<1>1. cfg \in Configs /\ x \in Byte
  BY Names DEF RegInv, Chip
<1>2. v \in Byte
  <2>1. 2 \in ErrorCodingRate /\ 0 \in 0 .. 1
    BY SMT DEF ErrorCodingRate
  <2> QED
    BY <1>1, <2>1, ConfigType, Config1Field
<1>3. Do({"bandwidth"}, "sf", q)
  BY Zenon DEF lora_set_bandwidth
<1> HIDE DEF v
<1>4. /\ Parts(cfg, reg, "bandwidth") /\ q.MODEM_CONFIG_1 = v
      /\ Else(reg, q, {"MODEM_CONFIG_1"}) /\ (Parts(cfg, q, "sf") => RegInv')
  <2>1. "MODEM_CONFIG_1" \in Regs \ {"OP_MODE"} /\ Moves("bandwidth", "sf")
    BY Names, BeginMoves
  <2> QED
    BY <1>2, <1>3, <2>1, WriteStep
<1> HIDE DEF q
<1>5. q.PAYLOAD_LENGTH = reg.PAYLOAD_LENGTH
  BY <1>4, ElseNames
<1>6. v = cfg.bw + cfg.ecr + HeaderBit(cfg)
  <2>1. Clear(x, 4, 4) = cfg.ecr + HeaderBit(cfg)
    BY <1>4, Zenon DEF Parts, LinkPart, x
  <2>2. cfg.bw \in Int /\ cfg.ecr \in Int /\ HeaderBit(cfg) \in Int
    BY <1>1, ConfigType DEF BandWidth, ErrorCodingRate, HeaderBit
  <2> QED
    BY <2>1, <2>2 DEF v
<1>7. Parts(cfg, q, "sf")
  BY <1>4, <1>5, <1>6 DEF Parts, LinkPart, SyncPart, PowerPart, RatePart, CarrierPart,
     HeaderDone, BandwidthDone, SfDone, CrcDone, PowerDone, SyncDone, PreambleDone, AgcDone,
     OcpDone, Calls, RateDone
<1> QED
  BY <1>4, <1>7

LEMMA SfStep ==
  ASSUME RegInv, Do({"sf"}, "crc", lora_set_sf(reg, cfg.sf))
  PROVE  RegInv'
<1> DEFINE x == reg.MODEM_CONFIG_2
           v == Clear(x, 4, 4) + cfg.sf
           q == Write(reg, "MODEM_CONFIG_2", v)
<1>1. cfg \in Configs /\ x \in Byte
  BY Names DEF RegInv, Chip
<1>2. v \in Byte /\ Bits(v, 4, 4) * 16 = cfg.sf
  <2>1. 0 \in 0 .. 1
    BY SMT
  <2> QED
    BY <1>1, <2>1, ConfigType, Config2Field
<1>3. Do({"sf"}, "crc", q)
  BY Zenon DEF lora_set_sf
<1> HIDE DEF v
<1>4. /\ Parts(cfg, reg, "sf") /\ q.MODEM_CONFIG_2 = v
      /\ Else(reg, q, {"MODEM_CONFIG_2"}) /\ (Parts(cfg, q, "crc") => RegInv')
  <2>1. "MODEM_CONFIG_2" \in Regs \ {"OP_MODE"} /\ Moves("sf", "crc")
    BY Names, BeginMoves
  <2> QED
    BY <1>2, <1>3, <2>1, WriteStep
<1> HIDE DEF q
<1>5. q.PAYLOAD_LENGTH = reg.PAYLOAD_LENGTH /\ q.MODEM_CONFIG_1 = reg.MODEM_CONFIG_1
  BY <1>4, ElseNames
<1>6. Parts(cfg, q, "crc")
  BY <1>2, <1>4, <1>5 DEF Parts, LinkPart, SyncPart, PowerPart, RatePart, CarrierPart,
     HeaderDone, BandwidthDone, SfDone, CrcDone, PowerDone, SyncDone, PreambleDone, AgcDone,
     OcpDone, Calls, RateDone
<1> QED
  BY <1>4, <1>6

LEMMA CrcStep ==
  ASSUME RegInv,
         Do({"crc"}, "power", IF cfg.CRC THEN lora_set_crc_on(reg) ELSE lora_set_crc_off(reg))
  PROVE  RegInv'
<1> DEFINE x == reg.MODEM_CONFIG_2
           b == IF cfg.CRC THEN 1 ELSE 0
           v == Clear(x, 2, 1) + 4 * b
           q == Write(reg, "MODEM_CONFIG_2", v)
<1>1. cfg \in Configs /\ x \in Byte /\ b \in 0 .. 1 /\ cfg.CRC \in BOOLEAN
  BY Names, ConfigType DEF RegInv, Chip
<1>2. /\ v \in Byte /\ Bits(v, 2, 1) = b /\ Bits(v, 4, 4) = Bits(x, 4, 4)
  <2>1. 112 \in SpreadingFactor
    BY SMT DEF SpreadingFactor
  <2> QED
    BY <1>1, <2>1, Config2Field
<1>3. Do({"crc"}, "power", q)
  <2>1. CASE cfg.CRC
    <3>1. v = Clear(x, 2, 1) + 4
      BY <2>1
    <3> QED
      BY <2>1, <3>1, Zenon DEF lora_set_crc_on
  <2>2. CASE ~cfg.CRC
    <3>1. v = Clear(x, 2, 1)
      BY <1>1, <2>2, FieldForms DEF Byte, Bits
    <3> QED
      BY <2>2, <3>1, Zenon DEF lora_set_crc_off
  <2> QED
    BY <2>1, <2>2
<1> HIDE DEF v
<1>4. /\ Parts(cfg, reg, "crc") /\ q.MODEM_CONFIG_2 = v
      /\ Else(reg, q, {"MODEM_CONFIG_2"}) /\ (Parts(cfg, q, "power") => RegInv')
  <2>1. "MODEM_CONFIG_2" \in Regs \ {"OP_MODE"} /\ Moves("crc", "power")
    BY Names, BeginMoves
  <2> QED
    BY <1>2, <1>3, <2>1, WriteStep
<1> HIDE DEF q
<1>5. q.PAYLOAD_LENGTH = reg.PAYLOAD_LENGTH /\ q.MODEM_CONFIG_1 = reg.MODEM_CONFIG_1
  BY <1>4, ElseNames
<1>6. (Bits(v, 2, 1) = 1) = cfg.CRC
  BY <1>1, <1>2
<1>7. Parts(cfg, q, "power")
  BY <1>2, <1>4, <1>5, <1>6 DEF Parts, LinkPart, SyncPart, PowerPart, RatePart, CarrierPart,
     HeaderDone, BandwidthDone, SfDone, CrcDone, PowerDone, SyncDone, PreambleDone, AgcDone,
     OcpDone, Calls, RateDone
<1> QED
  BY <1>4, <1>7

\* Two and three writes.
LEMMA TwoWrites ==
  ASSUME NEW r \in Chip, LongRange(r), NEW n1 \in Regs \ {"OP_MODE"},
         NEW n2 \in Regs \ {"OP_MODE", n1}, NEW v1 \in Byte, NEW v2 \in Byte, NEW q,
         q = Write(Write(r, n1, v1), n2, v2)
  PROVE  q \in Chip /\ LongRange(q) /\ q[n1] = v1 /\ q[n2] = v2 /\ Else(r, q, {n1, n2})
<1> DEFINE p == Write(r, n1, v1)
<1>1. p \in Chip /\ p[n1] = v1 /\ LongRange(p) /\ Else(r, p, {n1})
  BY WriteNamed
<1> HIDE DEF p
<1>2. q = Write(p, n2, v2)
  BY DEF p
<1>3. q \in Chip /\ q[n2] = v2 /\ LongRange(q) /\ Else(p, q, {n2})
  BY <1>1, <1>2, WriteNamed
<1>4. q[n1] = v1 /\ Else(r, q, {n1, n2})
  BY <1>1, <1>3 DEF Else
<1> QED
  BY <1>3, <1>4

LEMMA ThreeWrites ==
  ASSUME NEW r \in Chip, LongRange(r), NEW n1 \in Regs \ {"OP_MODE"},
         NEW n2 \in Regs \ {"OP_MODE", n1}, NEW n3 \in Regs \ {"OP_MODE", n1, n2},
         NEW v1 \in Byte, NEW v2 \in Byte, NEW v3 \in Byte, NEW q,
         q = Write(Write(Write(r, n1, v1), n2, v2), n3, v3)
  PROVE  /\ q \in Chip /\ LongRange(q) /\ q[n1] = v1 /\ q[n2] = v2 /\ q[n3] = v3
         /\ Else(r, q, {n1, n2, n3})
<1> DEFINE p == Write(Write(r, n1, v1), n2, v2)
<1>1. p \in Chip /\ p[n1] = v1 /\ p[n2] = v2 /\ LongRange(p) /\ Else(r, p, {n1, n2})
  BY TwoWrites
<1> HIDE DEF p
<1>2. q = Write(p, n3, v3)
  BY DEF p
<1>3. q \in Chip /\ q[n3] = v3 /\ LongRange(q) /\ Else(p, q, {n3})
  BY <1>1, <1>2, WriteNamed
<1>4. q[n1] = v1 /\ q[n2] = v2 /\ Else(r, q, {n1, n2, n3})
  BY <1>1, <1>3 DEF Else
<1> QED
  BY <1>3, <1>4

\* Several writes of LoRa_begin.
LEMMA WritesStep ==
  ASSUME RegInv, NEW l, NEW m, NEW q, Do({l}, m, q), Moves(l, m), q \in Chip,
         q.OP_MODE = reg.OP_MODE, Parts(cfg, q, m)
  PROVE  RegInv'
BY Settled DEF Moves

\* Before the writes.
LEMMA Before ==
  ASSUME RegInv, NEW l, NEW m, NEW q, Do({l}, m, q), Moves(l, m)
  PROVE  cfg \in Configs /\ reg \in Chip /\ LongRange(reg) /\ Parts(cfg, reg, l)
BY DEF RegInv, ModePart, Do, Moves

LEMMA PowerStep ==
  ASSUME RegInv,
         Do({"power"}, "syncw", lora_set_tx_power(reg, cfg.outPower, cfg.powerOutPin))
  PROVE  RegInv'
<1> DEFINE w == cfg.outPower
           pin == cfg.powerOutPin
           dac == IF pin # RFO /\ w = 20 THEN 135 ELSE 132
           p == IF pin = RFO THEN IF w >= 15 THEN 15 ELSE w
                ELSE IF w = 20 THEN w - 2
                ELSE (IF w >= 17 THEN 17 ELSE IF w <= 2 THEN 2 ELSE w) - 2
           v == pin + (p % 16)
           q == Write(Write(Write(reg, "OCP", 31), "PA_DAC", dac), "PA_CONFIG", v)
<1>1. Do({"power"}, "syncw", q)
  BY Zenon DEF lora_set_tx_power
<1>2. cfg \in Configs /\ reg \in Chip /\ LongRange(reg) /\ Parts(cfg, reg, "power")
  BY <1>1, Before, BeginMoves
<1>3. w \in OutputPower /\ pin \in {RFO, PA_BOOST}
  BY <1>2, ConfigType
<1> HIDE DEF w, pin
<1>4. /\ p \in 0 .. 31 /\ dac \in Byte /\ 31 \in Byte
      /\ pin = RFO => p % 16 = IF w > 15 THEN 15 ELSE w
      /\ pin # RFO /\ w # 20 => dac = 132 /\ p % 16 = (IF w < 2 THEN 2 ELSE w) - 2
  BY <1>3 DEF OutputPower, Byte
<1> HIDE DEF p, dac
<1>5. v \in Byte /\ Bits(v, 0, 4) = p % 16 /\ Bits(v, 7, 1) = IF pin = RFO THEN 0 ELSE 1
  BY <1>3, <1>4, PowerField
<1> HIDE DEF v
<1> HIDE DEF q
<1>6. /\ q \in Chip /\ q.OCP = 31 /\ q.PA_DAC = dac /\ q.PA_CONFIG = v
      /\ Else(reg, q, {"OCP", "PA_DAC", "PA_CONFIG"})
  <2>1. /\ "OCP" \in Regs \ {"OP_MODE"} /\ "PA_DAC" \in Regs \ {"OP_MODE", "OCP"}
        /\ "PA_CONFIG" \in Regs \ {"OP_MODE", "OCP", "PA_DAC"}
    BY Names
  <2>2. q = Write(Write(Write(reg, "OCP", 31), "PA_DAC", dac), "PA_CONFIG", v)
    BY DEF q
  <2> QED
    BY <1>2, <1>4, <1>5, <2>1, <2>2, ThreeWrites
<1>7. /\ q.OP_MODE = reg.OP_MODE /\ q.PAYLOAD_LENGTH = reg.PAYLOAD_LENGTH
      /\ q.MODEM_CONFIG_1 = reg.MODEM_CONFIG_1 /\ q.MODEM_CONFIG_2 = reg.MODEM_CONFIG_2
  BY <1>6, ElseNames
<1>8. PowerSet(cfg, q)
  BY <1>3, <1>4, <1>5, <1>6, Zenon DEF PowerSet, w, pin
<1>9. Parts(cfg, q, "syncw")
  BY <1>2, <1>6, <1>7, <1>8 DEF Parts, LinkPart, SyncPart, PowerPart, RatePart, CarrierPart,
     HeaderDone, BandwidthDone, SfDone, CrcDone, PowerDone, SyncDone, PreambleDone, AgcDone,
     OcpDone, Calls, RateDone
<1> QED
  BY <1>1, <1>6, <1>7, <1>9, WritesStep, BeginMoves

LEMMA SyncwStep ==
  ASSUME RegInv, Do({"syncw"}, "preamble", lora_set_syncw(reg, cfg.syncWord))
  PROVE  RegInv'
<1> DEFINE q == Write(reg, "SYNC_WORD", cfg.syncWord)
<1>1. Do({"syncw"}, "preamble", q)
  BY Zenon DEF lora_set_syncw
<1>2. /\ cfg.syncWord \in Byte /\ "SYNC_WORD" \in Regs \ {"OP_MODE"}
      /\ Moves("syncw", "preamble")
  BY Names, ConfigType, BeginMoves DEF RegInv
<1>3. /\ Parts(cfg, reg, "syncw") /\ q.SYNC_WORD = cfg.syncWord
      /\ Else(reg, q, {"SYNC_WORD"}) /\ (Parts(cfg, q, "preamble") => RegInv')
  BY <1>1, <1>2, WriteStep
<1> HIDE DEF q
<1>4. /\ q.PAYLOAD_LENGTH = reg.PAYLOAD_LENGTH /\ q.MODEM_CONFIG_1 = reg.MODEM_CONFIG_1
      /\ q.MODEM_CONFIG_2 = reg.MODEM_CONFIG_2 /\ q.OCP = reg.OCP
      /\ q.PA_CONFIG = reg.PA_CONFIG /\ q.PA_DAC = reg.PA_DAC
  BY <1>3, ElseNames
<1>5. Parts(cfg, q, "preamble")
  BY <1>3, <1>4 DEF Parts, LinkPart, SyncPart, PowerPart, RatePart, CarrierPart,
     HeaderDone, BandwidthDone, SfDone, CrcDone, PowerDone, SyncDone, PreambleDone, AgcDone,
     OcpDone, Calls, RateDone, PowerSet
<1> QED
  BY <1>3, <1>5

LEMMA PreambleStep ==
  ASSUME RegInv, Do({"preamble"}, "agc", lora_set_preamble(reg, cfg.preambleLen))
  PROVE  RegInv'
<1> DEFINE len == cfg.preambleLen
           n == IF len < 6 THEN 6 ELSE IF len > 65535 THEN 65535 ELSE len
           hi == (n \div 256) % 256
           lo == n % 256
           q == Write(Write(reg, "PREAMBLE_MSB", hi), "PREAMBLE_LSB", lo)
<1>1. Do({"preamble"}, "agc", q)
  BY SMT DEF lora_set_preamble
<1>2. cfg \in Configs /\ reg \in Chip /\ LongRange(reg) /\ Parts(cfg, reg, "preamble")
  BY <1>1, Before, BeginMoves
<1>3. n \in Nat /\ n <= 65535 /\ (len >= 6 /\ len <= 65535 => n = len)
  <2>1. len \in Nat
    BY <1>2, ConfigType
  <2> HIDE DEF len
  <2> QED
    BY <2>1, SMT
<1> HIDE DEF n
<1>4. hi \in Byte /\ lo \in Byte /\ hi * 256 + lo = n
  BY <1>3, TwoBytes, SMT
<1> HIDE DEF hi, lo
<1>5. /\ q \in Chip /\ q.PREAMBLE_MSB = hi /\ q.PREAMBLE_LSB = lo
      /\ Else(reg, q, {"PREAMBLE_MSB", "PREAMBLE_LSB"})
  <2>1. /\ "PREAMBLE_MSB" \in Regs \ {"OP_MODE"}
        /\ "PREAMBLE_LSB" \in Regs \ {"OP_MODE", "PREAMBLE_MSB"}
    BY Names
  <2> QED
    BY <1>2, <1>4, <2>1, TwoWrites
<1> HIDE DEF q
<1>6. /\ q.PAYLOAD_LENGTH = reg.PAYLOAD_LENGTH /\ q.MODEM_CONFIG_1 = reg.MODEM_CONFIG_1
      /\ q.MODEM_CONFIG_2 = reg.MODEM_CONFIG_2 /\ q.OCP = reg.OCP
      /\ q.PA_CONFIG = reg.PA_CONFIG /\ q.PA_DAC = reg.PA_DAC
      /\ q.SYNC_WORD = reg.SYNC_WORD /\ q.OP_MODE = reg.OP_MODE
  BY <1>5, ElseNames
<1>7. Parts(cfg, q, "agc")
  BY <1>2, <1>3, <1>4, <1>5, <1>6 DEF Parts, LinkPart, SyncPart, PowerPart, RatePart, CarrierPart,
     HeaderDone, BandwidthDone, SfDone, CrcDone, PowerDone, SyncDone, PreambleDone, AgcDone,
     OcpDone, Calls, RateDone, PowerSet
<1> QED
  BY <1>1, <1>5, <1>6, <1>7, WritesStep, BeginMoves

\* The power is up to two registers.
LEMMA SamePower ==
  ASSUME NEW c, NEW r, NEW q, q.PA_CONFIG = r.PA_CONFIG, q.PA_DAC = r.PA_DAC
  PROVE  PowerSet(c, r) <=> PowerSet(c, q)
BY Zenon DEF PowerSet

\* All that the parts of the invariant look at.
LEMMA PartsKept ==
  ASSUME NEW c, NEW r, NEW q, NEW l, NEW m, NEW W, Parts(c, r, l), Else(r, q, W),
         W \subseteq {"OP_MODE", "LNA", "FIFO_TX_BASE_ADDR", "FIFO_RX_BASE_ADDR",
                      "DETECT_OPTIMIZE", "DETECTION_THRESHOLD"},
         \/ m \in {"begin", "lora"}
         \/ l \in Calls /\ m \in Calls /\ (m \in RateDone => l \in RateDone)
         \/ l = "lna" /\ m = "ocp"
         \/ l = "base" /\ m = "freq"
  PROVE  Parts(c, q, m)
<1>1. /\ q.PAYLOAD_LENGTH = r.PAYLOAD_LENGTH /\ q.MODEM_CONFIG_1 = r.MODEM_CONFIG_1
      /\ q.MODEM_CONFIG_2 = r.MODEM_CONFIG_2 /\ q.MODEM_CONFIG_3 = r.MODEM_CONFIG_3
      /\ q.OCP = r.OCP /\ q.PA_CONFIG = r.PA_CONFIG /\ q.PA_DAC = r.PA_DAC
      /\ q.SYNC_WORD = r.SYNC_WORD /\ q.PREAMBLE_MSB = r.PREAMBLE_MSB
      /\ q.PREAMBLE_LSB = r.PREAMBLE_LSB /\ q.FR_MSB = r.FR_MSB /\ q.FR_MID = r.FR_MID
      /\ q.FR_LSB = r.FR_LSB
  BY ElseNames
<1>2. PowerSet(c, r) <=> PowerSet(c, q)
  BY <1>1, SamePower
<1>3. CASE m \in {"begin", "lora"}
  BY <1>3 DEF Parts, LinkPart, SyncPart, PowerPart, RatePart, CarrierPart,
     HeaderDone, BandwidthDone, SfDone, CrcDone, PowerDone, SyncDone, PreambleDone, AgcDone,
     OcpDone, Calls, RateDone
<1>4. CASE l \in Calls /\ m \in Calls /\ (m \in RateDone => l \in RateDone)
  BY <1>1, <1>2, <1>4 DEF Parts, LinkPart, SyncPart, PowerPart, RatePart, CarrierPart,
     HeaderDone, BandwidthDone, SfDone, CrcDone, PowerDone, SyncDone, PreambleDone, AgcDone,
     OcpDone, Calls, RateDone
<1>5. CASE l = "lna" /\ m = "ocp"
  BY <1>1, <1>2, <1>5 DEF Parts, LinkPart, SyncPart, PowerPart, RatePart, CarrierPart,
     HeaderDone, BandwidthDone, SfDone, CrcDone, PowerDone, SyncDone, PreambleDone, AgcDone,
     OcpDone, Calls, RateDone
<1>6. CASE l = "base" /\ m = "freq"
  BY <1>1, <1>2, <1>6 DEF Parts, LinkPart, SyncPart, PowerPart, RatePart, CarrierPart,
     HeaderDone, BandwidthDone, SfDone, CrcDone, PowerDone, SyncDone, PreambleDone, AgcDone,
     OcpDone, Calls, RateDone
<1> QED
  BY <1>3, <1>4, <1>5, <1>6

LEMMA AgcStep ==
  ASSUME RegInv, Do({"agc"}, "lna", lora_set_agc(reg, cfg.AGC))
  PROVE  RegInv'
<1> DEFINE v == 4 * cfg.AGC
           q == Write(reg, "MODEM_CONFIG_3", v)
<1>1. Do({"agc"}, "lna", q)
  BY Zenon DEF lora_set_agc
<1>2. v \in Byte /\ v = 4 * cfg.AGC
  <2>1. cfg.AGC \in 0 .. 1
    BY ConfigType DEF RegInv
  <2> QED
    BY <2>1 DEF Byte
<1> HIDE DEF v
<1>3. /\ Parts(cfg, reg, "agc") /\ q.MODEM_CONFIG_3 = v
      /\ Else(reg, q, {"MODEM_CONFIG_3"}) /\ (Parts(cfg, q, "lna") => RegInv')
  <2>1. "MODEM_CONFIG_3" \in Regs \ {"OP_MODE"} /\ Moves("agc", "lna")
    BY Names, BeginMoves
  <2> QED
    BY <1>1, <1>2, <2>1, WriteStep
<1> HIDE DEF q
<1>4. /\ q.PAYLOAD_LENGTH = reg.PAYLOAD_LENGTH /\ q.MODEM_CONFIG_1 = reg.MODEM_CONFIG_1
      /\ q.MODEM_CONFIG_2 = reg.MODEM_CONFIG_2 /\ q.OCP = reg.OCP
      /\ q.PA_CONFIG = reg.PA_CONFIG /\ q.PA_DAC = reg.PA_DAC /\ q.SYNC_WORD = reg.SYNC_WORD
      /\ q.PREAMBLE_MSB = reg.PREAMBLE_MSB /\ q.PREAMBLE_LSB = reg.PREAMBLE_LSB
  BY <1>3, ElseNames
<1>5. PowerSet(cfg, reg) <=> PowerSet(cfg, q)
  BY <1>4, SamePower
<1>6. q.MODEM_CONFIG_3 \in {4 * cfg.AGC, 4 * cfg.AGC + 8}
  BY <1>2, <1>3, Zenon
<1>7. Parts(cfg, q, "lna")
  BY <1>3, <1>4, <1>5, <1>6 DEF Parts, LinkPart, SyncPart, PowerPart, RatePart, CarrierPart,
     HeaderDone, BandwidthDone, SfDone, CrcDone, PowerDone, SyncDone, PreambleDone, AgcDone,
     OcpDone, Calls, RateDone
<1> QED
  BY <1>3, <1>7

LEMMA LnaStep ==
  ASSUME RegInv, Do({"lna"}, "ocp", lora_set_lna(reg, cfg.lnaGain, cfg.lnaBoost))
  PROVE  RegInv'
<1> DEFINE v == 32 * cfg.lnaGain + cfg.lnaBoost
           q == Write(reg, "LNA", v)
<1>1. Do({"lna"}, "ocp", q)
  BY Zenon DEF lora_set_lna
<1>2. v \in Byte
  <2>1. cfg.lnaGain \in 0 .. 7 /\ cfg.lnaBoost \in 0 .. 1
    BY ConfigType DEF RegInv
  <2> QED
    BY <2>1 DEF Byte
<1> HIDE DEF v
<1>3. /\ Parts(cfg, reg, "lna") /\ Else(reg, q, {"LNA"})
      /\ (Parts(cfg, q, "ocp") => RegInv')
  <2>1. "LNA" \in Regs \ {"OP_MODE"} /\ Moves("lna", "ocp")
    BY Names, BeginMoves
  <2> QED
    BY <1>1, <1>2, <2>1, WriteStep
<1> QED
  BY <1>3, PartsKept

LEMMA OcpStep ==
  ASSUME RegInv, Do({"ocp"}, "base", lora_set_ocp(reg, cfg.OCP))
  PROVE  RegInv'
<1> DEFINE o == cfg.OCP
           v == OcpByte(o)
           q == Write(reg, "OCP", v)
<1>1. o \in Byte /\ v \in Byte
  BY ConfigType, OcpField DEF RegInv
<1>2. lora_set_ocp(reg, o) = q
  <2>1. CASE o = 0
    <3>1. reg.OCP = 31
      BY DEF RegInv, Do, Parts, LinkPart, SyncPart, PowerPart, RatePart, CarrierPart,
     HeaderDone, BandwidthDone, SfDone, CrcDone, PowerDone, SyncDone, PreambleDone, AgcDone,
     OcpDone, Calls, RateDone
    <3>2. Clear(31, 5, 1) = 31
      <4>1. 31 \in Int /\ (31 \div 32) % 2 = 0
        OBVIOUS
      <4>2. Bits(31, 5, 1) = 0 /\ Clear(31, 5, 1) = 31 - 32 * Bits(31, 5, 1)
        BY <4>1, FieldForms
      <4> QED
        BY <4>2
    <3> QED
      BY <2>1, <3>1, <3>2, Zenon DEF lora_set_ocp, OcpByte
  <2>2. CASE o # 0
    BY <2>2, Zenon DEF lora_set_ocp, OcpByte
  <2> QED
    BY <2>1, <2>2
<1>3. Do({"ocp"}, "base", q)
  BY <1>2, Zenon
<1> HIDE DEF o, v
<1>4. /\ Parts(cfg, reg, "ocp") /\ q.OCP = v
      /\ Else(reg, q, {"OCP"}) /\ (Parts(cfg, q, "base") => RegInv')
  <2>1. "OCP" \in Regs \ {"OP_MODE"} /\ Moves("ocp", "base")
    BY Names, BeginMoves
  <2> QED
    BY <1>1, <1>3, <2>1, WriteStep
<1> HIDE DEF q
<1>5. /\ q.PAYLOAD_LENGTH = reg.PAYLOAD_LENGTH /\ q.MODEM_CONFIG_1 = reg.MODEM_CONFIG_1
      /\ q.MODEM_CONFIG_2 = reg.MODEM_CONFIG_2 /\ q.MODEM_CONFIG_3 = reg.MODEM_CONFIG_3
      /\ q.PA_CONFIG = reg.PA_CONFIG /\ q.PA_DAC = reg.PA_DAC /\ q.SYNC_WORD = reg.SYNC_WORD
      /\ q.PREAMBLE_MSB = reg.PREAMBLE_MSB /\ q.PREAMBLE_LSB = reg.PREAMBLE_LSB
  BY <1>4, ElseNames
<1>6. PowerSet(cfg, reg) <=> PowerSet(cfg, q)
  BY <1>5, SamePower
<1>7. q.OCP = OcpByte(cfg.OCP)
  BY <1>4, Zenon DEF v, o
<1>8. Parts(cfg, q, "base")
  BY <1>4, <1>5, <1>6, <1>7 DEF Parts, LinkPart, SyncPart, PowerPart, RatePart, CarrierPart,
     HeaderDone, BandwidthDone, SfDone, CrcDone, PowerDone, SyncDone, PreambleDone, AgcDone,
     OcpDone, Calls, RateDone
<1> QED
  BY <1>4, <1>8

LEMMA BaseStep ==
  ASSUME RegInv, Do({"base"}, "freq", SetBaseAndDetection(reg))
  PROVE  RegInv'
<1> DEFINE p == Write(Write(reg, "FIFO_TX_BASE_ADDR", 0), "FIFO_RX_BASE_ADDR", 0)
           q == Write(Write(p, "DETECT_OPTIMIZE", 195), "DETECTION_THRESHOLD", 10)
<1>1. Do({"base"}, "freq", q)
  BY Zenon DEF SetBaseAndDetection
<1>2. cfg \in Configs /\ reg \in Chip /\ LongRange(reg) /\ Parts(cfg, reg, "base")
  BY <1>1, Before, BeginMoves
<1>3. 0 \in Byte /\ 10 \in Byte /\ 195 \in Byte
  BY SMT DEF Byte
<1>4. /\ "FIFO_TX_BASE_ADDR" \in Regs \ {"OP_MODE"}
      /\ "FIFO_RX_BASE_ADDR" \in Regs \ {"OP_MODE", "FIFO_TX_BASE_ADDR"}
      /\ "DETECT_OPTIMIZE" \in Regs \ {"OP_MODE"}
      /\ "DETECTION_THRESHOLD" \in Regs \ {"OP_MODE", "DETECT_OPTIMIZE"}
  BY Names
<1> DEFINE W == {"FIFO_TX_BASE_ADDR", "FIFO_RX_BASE_ADDR",
                 "DETECT_OPTIMIZE", "DETECTION_THRESHOLD"}
<1>5. /\ p \in Chip /\ LongRange(p)
      /\ Else(reg, p, {"FIFO_TX_BASE_ADDR", "FIFO_RX_BASE_ADDR"})
  BY <1>2, <1>3, <1>4, TwoWrites
<1> HIDE DEF p
<1>6. q \in Chip /\ Else(p, q, {"DETECT_OPTIMIZE", "DETECTION_THRESHOLD"})
  BY <1>3, <1>4, <1>5, TwoWrites
<1> HIDE DEF q
<1>7. Else(reg, q, W)
  BY <1>5, <1>6 DEF Else
<1>8. q.OP_MODE = reg.OP_MODE
  BY <1>7, ElseNames
<1>9. Parts(cfg, q, "freq")
  BY <1>2, <1>7, PartsKept
<1> QED
  BY <1>1, <1>6, <1>8, <1>9, WritesStep, BeginMoves

LEMMA FreqStep ==
  ASSUME RegInv, Do({"freq"}, "ready", lora_set_freq(reg, cfg.freq))
  PROVE  RegInv'
<1> DEFINE n == Frf(cfg.freq)
           hi == (n \div 65536) % 256
           mid == (n \div 256) % 256
           lo == n % 256
           q == Write(Write(Write(reg, "FR_MSB", hi), "FR_MID", mid), "FR_LSB", lo)
<1>1. Do({"freq"}, "ready", q)
  BY SMT DEF lora_set_freq
<1>2. cfg \in Configs /\ reg \in Chip /\ LongRange(reg) /\ Parts(cfg, reg, "freq")
  BY <1>1, Before, BeginMoves
<1>3. n \in Nat /\ n < 16777216 /\ n = Frf(cfg.freq)
  BY <1>2, ConfigType, CarrierStep
<1> HIDE DEF n
<1>4. hi \in Byte /\ mid \in Byte /\ lo \in Byte
  BY <1>3, ThreeBytes, SMT
<1>10. hi * 65536 + mid * 256 + lo = n
  BY <1>3, ThreeBytes, SMT
<1> HIDE DEF hi, mid, lo, q
<1>5. /\ q \in Chip /\ q.FR_MSB = hi /\ q.FR_MID = mid /\ q.FR_LSB = lo
      /\ Else(reg, q, {"FR_MSB", "FR_MID", "FR_LSB"})
  <2> DEFINE p == Write(Write(reg, "FR_MSB", hi), "FR_MID", mid)
  <2>1. /\ "FR_MSB" \in Regs \ {"OP_MODE"} /\ "FR_MID" \in Regs \ {"OP_MODE", "FR_MSB"}
        /\ "FR_LSB" \in Regs /\ "FR_LSB" # "OP_MODE"
    BY Names
  <2>2. p \in Chip /\ p.FR_MSB = hi /\ p.FR_MID = mid /\ LongRange(p)
        /\ Else(reg, p, {"FR_MSB", "FR_MID"})
    BY <1>2, <1>4, <2>1, TwoWrites
  <2> HIDE DEF p
  <2>3. q = Write(p, "FR_LSB", lo)
    BY Zenon DEF p, q
  <2>4. q \in Chip /\ q.FR_LSB = lo /\ Else(p, q, {"FR_LSB"})
    BY <1>4, <2>1, <2>2, <2>3, WriteNamed
  <2>5. q.FR_MSB = p.FR_MSB /\ q.FR_MID = p.FR_MID
    BY <2>4, ElseNames
  <2>6. Else(reg, q, {"FR_MSB", "FR_MID", "FR_LSB"})
    BY <2>2, <2>4 DEF Else
  <2> QED
    BY <2>2, <2>4, <2>5, <2>6
<1>6. /\ q.PAYLOAD_LENGTH = reg.PAYLOAD_LENGTH /\ q.MODEM_CONFIG_1 = reg.MODEM_CONFIG_1
      /\ q.MODEM_CONFIG_2 = reg.MODEM_CONFIG_2 /\ q.MODEM_CONFIG_3 = reg.MODEM_CONFIG_3
      /\ q.PA_CONFIG = reg.PA_CONFIG /\ q.PA_DAC = reg.PA_DAC /\ q.SYNC_WORD = reg.SYNC_WORD
      /\ q.PREAMBLE_MSB = reg.PREAMBLE_MSB /\ q.PREAMBLE_LSB = reg.PREAMBLE_LSB
      /\ q.OCP = reg.OCP /\ q.OP_MODE = reg.OP_MODE
  BY <1>5, ElseNames
<1>7. PowerSet(cfg, reg) <=> PowerSet(cfg, q)
  BY <1>6, SamePower
<1>8. CarrierPart(cfg, q, "ready")
  BY <1>3, <1>5, <1>10, SMT DEF CarrierPart
<1>9. Parts(cfg, q, "ready")
  BY <1>2, <1>6, <1>7, <1>8 DEF Parts, LinkPart, SyncPart, PowerPart, RatePart,
     HeaderDone, BandwidthDone, SfDone, CrcDone, PowerDone, SyncDone, PreambleDone, AgcDone,
     OcpDone, Calls, RateDone
<1> QED
  BY <1>1, <1>5, <1>6, <1>9, WritesStep, BeginMoves

\* The reset, and the way into LoRa mode.
LEMMA ResetStep ==
  ASSUME RegInv, Do({"begin"}, "lora", ResetValues)
  PROVE  RegInv'
<1>1. cfg' = cfg /\ reg' = ResetValues /\ pc' = "lora" /\ cfg \in Configs
  BY Zenon DEF Do, RegInv
<1>2. ~OnAir(ResetValues)
  <2>1. ResetValues.OP_MODE = 9 /\ 9 \in Int /\ 9 % 8 = 1
    BY SMT DEF ResetValues
  <2>2. Mode(ResetValues) = 1
    BY <2>1, FieldForms DEF Mode
  <2> QED
    BY <2>2, SMT DEF OnAir, TX_MODE, RXCONT_MODE
<1>3. Parts(cfg, ResetValues, "lora") /\ "lora" \in Labels
  BY DEF Labels, Parts, LinkPart, SyncPart, PowerPart, RatePart, CarrierPart,
     HeaderDone, BandwidthDone, SfDone, CrcDone, PowerDone, SyncDone, PreambleDone, AgcDone,
     OcpDone, Calls, RateDone
<1> QED
  BY <1>1, <1>2, <1>3, ResetType DEF RegInv, ModePart

LEMMA LoraStep ==
  ASSUME RegInv, Do({"lora"}, "header", lora_set_lora_mode(reg))
  PROVE  RegInv'
<1> DEFINE q == lora_set_lora_mode(reg)
<1>1. cfg' = cfg /\ reg' = q /\ pc' = "header" /\ cfg \in Configs /\ reg \in Chip
  BY Zenon DEF Do, RegInv
<1>2. q \in Chip /\ Mode(q) = SLEEP_MODE /\ LongRange(q)
  BY <1>1, LoraModeFacts
<1> HIDE DEF q
<1>3. ~OnAir(q)
  BY <1>2, SMT DEF OnAir, TX_MODE, RXCONT_MODE, SLEEP_MODE
<1>4. Parts(cfg, q, "header") /\ "header" \in Labels
  BY DEF Labels, Parts, LinkPart, SyncPart, PowerPart, RatePart, CarrierPart,
     HeaderDone, BandwidthDone, SfDone, CrcDone, PowerDone, SyncDone, PreambleDone, AgcDone,
     OcpDone, Calls, RateDone
<1> QED
  BY <1>1, <1>2, <1>3, <1>4 DEF RegInv, ModePart

-----------------------------------------------------------------------------
(* Each step of the calls.                                                  *)

\* A change of mode, and nothing else.
LEMMA ModeStep ==
  ASSUME RegInv, pc \in Calls, NEW m \in Calls \cup {"begin"}, NEW q \in Chip, NEW k,
         cfg' = cfg, reg' = q, pc' = m, Else(reg, q, {"OP_MODE"}),
         LongRange(q) <=> LongRange(reg), Mode(q) = k,
         k \in {TX_MODE, RXCONT_MODE} => m \in OnAirLabels,
         m \in RateDone => pc \in RateDone
  PROVE  RegInv'
<1>1. LongRange(reg) /\ Parts(cfg, reg, pc) /\ cfg \in Configs
  BY DEF RegInv, ModePart, Calls
<1>2. Parts(cfg, q, m)
  BY <1>1, PartsKept
<1>3. ModePart(q, m)
  BY <1>1, Zenon DEF ModePart, OnAir
<1>4. m \in Labels
  BY DEF Labels, HeaderDone, BandwidthDone, SfDone, CrcDone, PowerDone,
     SyncDone, PreambleDone, AgcDone, OcpDone, Calls
<1> QED
  BY <1>1, <1>2, <1>3, <1>4, Zenon DEF RegInv

\* LoRa_send and LoRa_receive stand by first, if the chip does not (lora.cpp:126-128).
LEMMA StandbyStep ==
  ASSUME RegInv, NEW from \in SUBSET Calls, NEW m \in Calls, Do(from, m, ToStandby),
         m \in RateDone => from \subseteq RateDone
  PROVE  RegInv'
<1>1. pc \in Calls /\ reg \in Chip /\ cfg' = cfg /\ pc' = m /\ reg' = ToStandby
      /\ (m \in RateDone => pc \in RateDone)
  BY DEF Do, RegInv
<1>2. STDBY_MODE \in 0 .. 7 /\ STDBY_MODE \notin {TX_MODE, RXCONT_MODE}
  BY SMT DEF STDBY_MODE, TX_MODE, RXCONT_MODE
<1>3. CASE Mode(reg) = STDBY_MODE
  <2>1. reg' = reg
    BY <1>1, <1>3, Zenon DEF ToStandby
  <2>2. Else(reg, reg, {"OP_MODE"})
    BY DEF Else
  <2> QED
    BY <1>1, <1>2, <1>3, <2>1, <2>2, ModeStep
<1>4. CASE Mode(reg) # STDBY_MODE
  <2>1. reg' = SetMode(reg, STDBY_MODE)
    BY <1>1, <1>4, Zenon DEF ToStandby, lora_set_satandby_mode
  <2> QED
    BY <1>1, <1>2, <2>1, SetModeFacts, ModeStep
<1> QED
  BY <1>3, <1>4

\* The other changes of mode.
LEMMA SetModeStep ==
  ASSUME RegInv, NEW from \in SUBSET Calls, NEW m \in Calls \cup {"begin"}, NEW k \in 0 .. 7,
         Do(from, m, SetMode(reg, k)), k \in {TX_MODE, RXCONT_MODE} => m \in OnAirLabels,
         m \in RateDone => from \subseteq RateDone
  PROVE  RegInv'
<1>1. pc \in Calls /\ reg \in Chip /\ cfg' = cfg /\ pc' = m /\ reg' = SetMode(reg, k)
      /\ (m \in RateDone => pc \in RateDone)
  BY DEF Do, RegInv
<1> QED
  BY <1>1, SetModeFacts, ModeStep

\* After a transmission (lora.cpp:217-223).
LEMMA TxDoneStep ==
  ASSUME RegInv, TxDone
  PROVE  RegInv'
<1> DEFINE p == SetMode(reg, STDBY_MODE)
           q == SetMode(p, STDBY_MODE)
<1>1. pc = "sent" /\ reg \in Chip /\ cfg' = cfg /\ pc' = "ready" /\ reg' = q
  BY Zenon DEF TxDone, Do, RegInv, lora_set_satandby_mode
<1>2. STDBY_MODE \in 0 .. 7 /\ STDBY_MODE \notin {TX_MODE, RXCONT_MODE}
  BY SMT DEF STDBY_MODE, TX_MODE, RXCONT_MODE
<1>3. p \in Chip /\ (LongRange(p) <=> LongRange(reg)) /\ Else(reg, p, {"OP_MODE"})
  BY <1>1, <1>2, SetModeFacts
<1> HIDE DEF p
<1>4. /\ q \in Chip /\ (LongRange(q) <=> LongRange(p)) /\ Else(p, q, {"OP_MODE"})
      /\ Mode(q) = STDBY_MODE
  BY <1>2, <1>3, SetModeFacts
<1> HIDE DEF q
<1>5. Else(reg, q, {"OP_MODE"}) /\ (LongRange(q) <=> LongRange(reg))
  BY <1>3, <1>4 DEF Else
<1>6. pc \in Calls /\ "ready" \in Calls /\ "ready" \notin RateDone
  BY <1>1 DEF Calls, RateDone
<1> QED
  BY <1>1, <1>2, <1>4, <1>5, <1>6, ModeStep

\* The low-data-rate bit of the configuration (lora.cpp:129-135).
LEMMA RateStep ==
  ASSUME RegInv, NEW from \in SUBSET Calls, NEW m, Do(from, m, LowRate),
         \/ m = "receive_standby"
         \/ m = "send_fifo" /\ from = {"send_rate"}
  PROVE  RegInv'
<1> DEFINE a == cfg.AGC
           b == RateBit(cfg)
           x == reg.MODEM_CONFIG_3
           v == Clear(x, 3, 1) + (IF lowDataRateOptimize(cfg) THEN 8 ELSE 0)
           q == Write(reg, "MODEM_CONFIG_3", v)
<1>1. /\ pc \in from /\ pc \in Calls /\ reg \in Chip /\ cfg \in Configs
      /\ cfg' = cfg /\ pc' = m /\ reg' = q
  BY Zenon DEF Do, RegInv, LowRate, lora_set_lowdatarateoptimize
<1>2. LongRange(reg) /\ Parts(cfg, reg, pc) /\ ModePart(reg, pc)
  BY <1>1 DEF RegInv, ModePart, Calls
<1>3. v = 4 * a + 8 * b /\ v \in Byte
  <2>1. a \in 0 .. 1 /\ x \in {4 * a, 4 * a + 8}
    BY <1>1, <1>2, ConfigType DEF Parts, RatePart, AgcDone, OcpDone
  <2>2. b \in 0 .. 1 /\ 8 * b = IF lowDataRateOptimize(cfg) THEN 8 ELSE 0
    BY SMT DEF RateBit
  <2> HIDE DEF a, b, x
  <2>3. Clear(x, 3, 1) + 8 * b = 4 * a + 8 * b /\ 4 * a + 8 * b \in Byte
    BY <2>1, <2>2, Config3Field
  <2> QED
    BY <2>2, <2>3, Zenon
<1> HIDE DEF v
<1>4. q \in Chip /\ q.MODEM_CONFIG_3 = v /\ Else(reg, q, {"MODEM_CONFIG_3"})
  <2>1. "MODEM_CONFIG_3" \in Regs /\ "MODEM_CONFIG_3" # "OP_MODE"
    BY Names
  <2> QED
    BY <1>1, <1>2, <1>3, <2>1, WriteNamed
<1> HIDE DEF q
<1>5. /\ q.PAYLOAD_LENGTH = reg.PAYLOAD_LENGTH /\ q.MODEM_CONFIG_1 = reg.MODEM_CONFIG_1
      /\ q.MODEM_CONFIG_2 = reg.MODEM_CONFIG_2 /\ q.OCP = reg.OCP
      /\ q.PA_CONFIG = reg.PA_CONFIG /\ q.PA_DAC = reg.PA_DAC /\ q.SYNC_WORD = reg.SYNC_WORD
      /\ q.PREAMBLE_MSB = reg.PREAMBLE_MSB /\ q.PREAMBLE_LSB = reg.PREAMBLE_LSB
      /\ q.FR_MSB = reg.FR_MSB /\ q.FR_MID = reg.FR_MID /\ q.FR_LSB = reg.FR_LSB
      /\ q.OP_MODE = reg.OP_MODE
  BY <1>4, ElseNames
<1>6. PowerSet(cfg, reg) <=> PowerSet(cfg, q)
  BY <1>5, SamePower
<1>7. RatePart(cfg, q, m)
  <2>1. b \in 0 .. 1
    BY DEF RateBit
  <2>2. a \in 0 .. 1
    BY <1>1, ConfigType
  <2>3. b = RateBit(cfg) /\ a = cfg.AGC
    OBVIOUS
  <2> HIDE DEF a, b
  <2>4. 4 * a + 8 * b \in {4 * a, 4 * a + 8}
    BY <2>1, <2>2
  <2> QED
    BY <1>3, <1>4, <2>3, <2>4, Zenon DEF RatePart
<1>8. m \in Calls
  BY DEF Calls
<1>9. Parts(cfg, q, m)
  BY <1>1, <1>2, <1>5, <1>6, <1>7, <1>8 DEF Parts, LinkPart, SyncPart, PowerPart, CarrierPart,
     HeaderDone, BandwidthDone, SfDone, CrcDone, PowerDone, SyncDone, PreambleDone, AgcDone,
     OcpDone, Calls
<1>10. ModePart(q, m)
  <2>1. pc \notin {"begin", "lora"} /\ m \notin {"begin", "lora"}
    BY <1>1, <1>8 DEF Calls
  <2>2. pc \in OnAirLabels => m \in OnAirLabels
    BY <1>1 DEF OnAirLabels
  <2> QED
    BY <1>2, <1>5, <2>1, <2>2, SameMode
<1>11. m \in Labels
  BY <1>8 DEF Labels, HeaderDone, BandwidthDone, SfDone, CrcDone, PowerDone,
     SyncDone, PreambleDone, AgcDone, OcpDone, Calls
<1> QED
  BY <1>1, <1>4, <1>9, <1>10, <1>11, Zenon DEF RegInv

\* The length of a frame; with an implicit header that of the configuration (lora.cpp:136-141).
LEMMA LengthStep ==
  ASSUME RegInv, NEW size \in Sizes,
         Do({"send_fifo"}, "send_mode",
            lora_set_payload(reg, IF cfg.implicitHeader THEN cfg.payloadLen ELSE size))
  PROVE  RegInv'
<1> DEFINE v == IF cfg.implicitHeader THEN cfg.payloadLen ELSE size
           q == Write(reg, "PAYLOAD_LENGTH", v)
<1>1. Do({"send_fifo"}, "send_mode", q)
  BY Zenon DEF lora_set_payload
<1>2. v \in Byte /\ (cfg.implicitHeader => v = cfg.payloadLen)
  BY ConfigType, RegistersAssumption DEF RegInv
<1> HIDE DEF v
<1>3. /\ Parts(cfg, reg, "send_fifo") /\ q.PAYLOAD_LENGTH = v
      /\ Else(reg, q, {"PAYLOAD_LENGTH"}) /\ (Parts(cfg, q, "send_mode") => RegInv')
  <2>1. "PAYLOAD_LENGTH" \in Regs \ {"OP_MODE"} /\ Moves("send_fifo", "send_mode")
    BY Names, BeginMoves
  <2> QED
    BY <1>1, <1>2, <2>1, WriteStep
<1> HIDE DEF q
<1>4. /\ q.MODEM_CONFIG_1 = reg.MODEM_CONFIG_1 /\ q.MODEM_CONFIG_2 = reg.MODEM_CONFIG_2
      /\ q.MODEM_CONFIG_3 = reg.MODEM_CONFIG_3 /\ q.OCP = reg.OCP
      /\ q.PA_CONFIG = reg.PA_CONFIG /\ q.PA_DAC = reg.PA_DAC /\ q.SYNC_WORD = reg.SYNC_WORD
      /\ q.PREAMBLE_MSB = reg.PREAMBLE_MSB /\ q.PREAMBLE_LSB = reg.PREAMBLE_LSB
      /\ q.FR_MSB = reg.FR_MSB /\ q.FR_MID = reg.FR_MID /\ q.FR_LSB = reg.FR_LSB
  BY <1>3, ElseNames
<1>5. PowerSet(cfg, reg) <=> PowerSet(cfg, q)
  BY <1>4, SamePower
<1>6. Parts(cfg, q, "send_mode")
  BY <1>2, <1>3, <1>4, <1>5 DEF Parts, LinkPart, SyncPart, PowerPart, RatePart, CarrierPart,
     HeaderDone, BandwidthDone, SfDone, CrcDone, PowerDone, SyncDone, PreambleDone, AgcDone,
     OcpDone, Calls, RateDone
<1> QED
  BY <1>3, <1>6

-----------------------------------------------------------------------------
(* The invariant of every behaviour.                                        *)

LEMMA RegInit == Init => RegInv
<1> SUFFICES ASSUME Init PROVE RegInv
  OBVIOUS
<1>1. cfg \in Configs /\ reg = ResetValues /\ pc = "begin"
  BY DEF Init
<1>2. ~OnAir(ResetValues)
  <2>1. ResetValues.OP_MODE = 9 /\ 9 \in Int /\ 9 % 8 = 1
    BY SMT DEF ResetValues
  <2>2. Mode(ResetValues) = 1
    BY <2>1, FieldForms DEF Mode
  <2> QED
    BY <2>2, SMT DEF OnAir, TX_MODE, RXCONT_MODE
<1>3. Parts(cfg, ResetValues, "begin") /\ "begin" \in Labels
  BY DEF Labels, Parts, LinkPart, SyncPart, PowerPart, RatePart, CarrierPart,
     HeaderDone, BandwidthDone, SfDone, CrcDone, PowerDone, SyncDone, PreambleDone, AgcDone,
     OcpDone, Calls, RateDone
<1> QED
  BY <1>1, <1>2, <1>3, ResetType DEF RegInv, ModePart

\* The modes, and where a call may be.
LEMMA CallLabels ==
  /\ Open \in SUBSET Calls /\ {"send_mode"} \in SUBSET Calls /\ {"send_rate"} \in SUBSET Calls
  /\ {"receive_standby"} \in SUBSET Calls /\ {"receive_mode"} \in SUBSET Calls
  /\ {"sent", "listening", "receive_mode", "ready", "send_rate"} \subseteq Calls
  /\ {"sent", "listening"} \subseteq OnAirLabels
  /\ {"send_mode", "receive_mode", "receive_standby", "sent", "listening"} \subseteq RateDone
  /\ "ready" \notin RateDone /\ "begin" \notin RateDone /\ "send_rate" \notin RateDone
BY DEF Open, Calls, OnAirLabels, RateDone

LEMMA ModeCodes ==
  /\ {SLEEP_MODE, STDBY_MODE, TX_MODE, RXCONT_MODE} \subseteq 0 .. 7
  /\ SLEEP_MODE \notin {TX_MODE, RXCONT_MODE} /\ STDBY_MODE \notin {TX_MODE, RXCONT_MODE}
BY SMT DEF SLEEP_MODE, STDBY_MODE, TX_MODE, RXCONT_MODE

\* Every call fills the registers from the configuration, and from nothing else.
LEMMA RegStep == RegInv /\ [Next]_vars => RegInv'
<1> SUFFICES ASSUME RegInv, [Next]_vars PROVE RegInv'
  OBVIOUS
<1>1. CASE LoRa_begin
  BY <1>1, ResetStep, LoraStep, HeaderStep, ErrorcrStep, BandwidthStep, SfStep, CrcStep,
     PowerStep, SyncwStep, PreambleStep, AgcStep, LnaStep, OcpStep, BaseStep, FreqStep, Zenon
  DEF LoRa_begin
<1>2. CASE LoRa_send
  <2>1. CASE Do(Open, "send_rate", ToStandby)
    BY <2>1, CallLabels, StandbyStep
  <2>2. CASE Do({"send_rate"}, "send_fifo", LowRate)
    BY <2>2, CallLabels, RateStep
  <2>3. CASE Do({"send_mode"}, "sent", lora_set_tx_mode(reg))
    BY <2>3, CallLabels, ModeCodes, SetModeStep DEF lora_set_tx_mode
  <2> QED
    BY <1>2, <2>1, <2>2, <2>3, LengthStep, Zenon DEF LoRa_send
<1>3. CASE LoRa_receive
  <2>1. CASE Do(Open, "receive_standby", LowRate)
    BY <2>1, CallLabels, RateStep
  <2>2. CASE Do({"receive_standby"}, "receive_mode", ToStandby)
    BY <2>2, CallLabels, StandbyStep
  <2>3. CASE Do({"receive_mode"}, "listening", lora_set_rxcont_mode(reg))
    BY <2>3, CallLabels, ModeCodes, SetModeStep DEF lora_set_rxcont_mode
  <2> QED
    BY <1>3, <2>1, <2>2, <2>3, Zenon DEF LoRa_receive
<1>4. CASE TxDone
  BY <1>4, TxDoneStep
<1>5. CASE LoRa_stop_receive
  BY <1>5, CallLabels, ModeCodes, SetModeStep DEF LoRa_stop_receive, lora_set_satandby_mode
<1>6. CASE LoRa_sleep
  BY <1>6, CallLabels, ModeCodes, SetModeStep DEF LoRa_sleep, lora_set_sleep_mode
<1>7. CASE LoRa_end
  BY <1>7, CallLabels, ModeCodes, SetModeStep DEF LoRa_end, lora_set_satandby_mode
<1>8. CASE UNCHANGED vars
  BY <1>8, Zenon DEF vars, RegInv
<1> QED
  BY <1>1, <1>2, <1>3, <1>4, <1>5, <1>6, <1>7, <1>8, Zenon DEF Next

LEMMA RegAlways == Spec => []RegInv
<1> QED
  BY RegInit, RegStep, PTL DEF Spec

\* Every register holds a byte, whatever the configurations and the calls (lora.cpp:413-422).
THEOREM RegisterTypes == Spec => []RegTypeOK
<1>1. RegInv => RegTypeOK
  BY Zenon DEF RegInv, RegTypeOK, Chip, Regs
<1> QED
  BY <1>1, RegAlways, PTL

\* Where the chip is on air, what it needs has been set.
LEMMA OnAirParts ==
  ASSUME RegInv, OnAir(reg)
  PROVE  /\ pc \in RateDone /\ pc \in Calls /\ Parts(cfg, reg, pc) /\ LongRange(reg)
         /\ cfg \in Configs
<1>1. pc \in OnAirLabels /\ Parts(cfg, reg, pc) /\ cfg \in Configs
  BY DEF RegInv, ModePart
<1>2. pc \in RateDone /\ pc \in Calls
  BY <1>1 DEF OnAirLabels, RateDone, Calls
<1> QED
  BY <1>1, <1>2 DEF RegInv, ModePart, Calls

\* Whoever is on air uses the modulation, header, sync word and preamble that were asked
\* for, for every configuration (lora.cpp:3-50, 125-165).
THEOREM LinkAlwaysAsConfigured == Spec => []LinkAsConfigured
<1>1. RegInv => LinkAsConfigured
  <2> SUFFICES ASSUME RegInv, OnAir(reg) PROVE LinkAsConfigured
    BY DEF LinkAsConfigured
  <2>1. pc \in Calls /\ LinkPart(cfg, reg, pc) /\ SyncPart(cfg, reg, pc) /\ LongRange(reg)
    BY OnAirParts DEF Parts
  <2>2. /\ reg.MODEM_CONFIG_1 = cfg.bw + cfg.ecr + HeaderBit(cfg)
        /\ cfg.implicitHeader => reg.PAYLOAD_LENGTH = cfg.payloadLen
        /\ Bits(reg.MODEM_CONFIG_2, 4, 4) * 16 = cfg.sf
        /\ (Bits(reg.MODEM_CONFIG_2, 2, 1) = 1) = cfg.CRC
    BY <2>1, Zenon DEF LinkPart, HeaderDone, BandwidthDone, SfDone, CrcDone, PowerDone, SyncDone,
       PreambleDone, AgcDone, OcpDone
  <2>3. /\ reg.SYNC_WORD = cfg.syncWord
        /\ cfg.preambleLen >= 6 /\ cfg.preambleLen <= 65535 =>
              reg.PREAMBLE_MSB * 256 + reg.PREAMBLE_LSB = cfg.preambleLen
    BY <2>1, SMT DEF SyncPart, SyncDone, PreambleDone, AgcDone, OcpDone
  <2> QED
    BY <2>1, <2>2, <2>3, SMT DEF LinkAsConfigured, HeaderBit
<1> QED
  BY <1>1, RegAlways, PTL

\* For every frequency asked for, the carrier is less than a step above it (lora.cpp:352-359).
THEOREM CarrierAlwaysWithinStep == Spec => []CarrierWithinStep
<1>1. RegInv => CarrierWithinStep
  <2> SUFFICES ASSUME RegInv, OnAir(reg) PROVE CarrierWithinStep
    BY DEF CarrierWithinStep
  <2> DEFINE n == reg.FR_MSB * 65536 + reg.FR_MID * 256 + reg.FR_LSB
  <2>1. pc \in Calls /\ CarrierPart(cfg, reg, pc) /\ cfg \in Configs
    BY OnAirParts DEF Parts
  <2>2. n = Frf(cfg.freq)
    BY <2>1, SMT DEF CarrierPart
  <2> HIDE DEF n
  <2>3. n * 125 - cfg.freq * 2048 \in 0 .. 124
    BY <2>1, <2>2, ConfigType, CarrierStep
  <2> QED
    BY <2>3, SMT DEF CarrierWithinStep, n
<1> QED
  BY <1>1, RegAlways, PTL

\* The low-data-rate bit and gain control never get in each other's way (lora.cpp:76-78, 167-173).
THEOREM RateAndGainAlwaysAgree == Spec => []LowRateAndGainAgree
<1>1. RegInv => LowRateAndGainAgree
  <2> SUFFICES ASSUME RegInv, OnAir(reg) PROVE LowRateAndGainAgree
    BY DEF LowRateAndGainAgree
  <2> DEFINE a == cfg.AGC
             b == RateBit(cfg)
             x == reg.MODEM_CONFIG_3
  <2>1. x = 4 * a + 8 * b /\ cfg \in Configs
    BY OnAirParts DEF Parts, RatePart
  <2>2. a \in 0 .. 1 /\ b \in 0 .. 1 /\ 4 * a \in {4 * a, 4 * a + 8}
    BY <2>1, ConfigType DEF RateBit
  <2>3. (b = 1) = lowDataRateOptimize(cfg)
    BY SMT DEF RateBit, lowDataRateOptimize
  <2> HIDE DEF a, b, x
  <2>4. Bits(x, 3, 1) = b /\ Bits(x, 2, 1) = a
    BY <2>1, <2>2, Config3Field
  <2> QED
    BY <2>3, <2>4, Zenon DEF LowRateAndGainAgree, a, x
<1> QED
  BY <1>1, RegAlways, PTL

\* Whatever limit is asked for, protection is on while transmitting, and trips within a step
\* below the limit itself in 50 .. 120 and 130 .. 240, below 50 or 130 where the setter raises
\* it (1 .. 49, 121 .. 129), and below the chip's 240 above that (lora.cpp:53-70, 80-101).
THEOREM AlwaysTrips == Spec => []OverCurrentTrips
<1>1. RegInv => OverCurrentTrips
  <2> SUFFICES ASSUME RegInv, Mode(reg) = TX_MODE PROVE OverCurrentTrips
    BY DEF OverCurrentTrips
  <2>1. reg.OCP = OcpByte(cfg.OCP) /\ cfg.OCP \in Byte
    <3>1. OnAir(reg)
      BY DEF OnAir
    <3>2. pc \in Calls /\ PowerPart(cfg, reg, pc) /\ cfg \in Configs
      BY <3>1, OnAirParts DEF Parts
    <3> QED
      BY <3>2, ConfigType DEF PowerPart, OcpDone
  <2>2. TripCurrent = Trip(OcpByte(cfg.OCP)) /\ (Protected <=> Bits(OcpByte(cfg.OCP), 5, 1) = 1)
    BY <2>1, Zenon DEF TripCurrent, Trip, Protected
  <2>3. Protected = (cfg.OCP # 0)
    BY <2>1, <2>2, OcpField DEF Protected
  <2>4. Protected => TripsBy(cfg.OCP)
    BY <2>1, <2>3, OcpField, Zenon
  <2> QED
    BY <2>2, <2>3, <2>4, Zenon DEF OverCurrentTrips, TripsBy
<1> QED
  BY <1>1, RegAlways, PTL

\* For every power up to 17 dBm, the chip radiates it, clipped to the range of the pin
\* (lora.cpp:80-101).
THEOREM PowerAlwaysAsAsked == Spec => []PowerAsAsked
<1>1. RegInv => PowerAsAsked
  <2> SUFFICES ASSUME RegInv, Mode(reg) = TX_MODE, cfg.outPower # 20 PROVE PowerAsAsked
    BY DEF PowerAsAsked
  <2>1. PowerSet(cfg, reg) /\ cfg \in Configs
    <3>1. OnAir(reg)
      BY DEF OnAir
    <3>2. pc \in Calls /\ PowerPart(cfg, reg, pc) /\ cfg \in Configs
      BY <3>1, OnAirParts DEF Parts
    <3> QED
      BY <3>2 DEF PowerPart, PowerDone, SyncDone, PreambleDone, AgcDone, OcpDone
  <2>2. cfg.outPower \in Int /\ cfg.powerOutPin \in {RFO, PA_BOOST}
    BY <2>1, ConfigType DEF OutputPower
  <2> QED
    BY <2>1, <2>2, SMT DEF PowerSet, PowerAsAsked, Radiated
<1> QED
  BY <1>1, RegAlways, PTL

\* No call but LoRa_begin, with its reset, takes the chip out of LoRa mode
\* (lora.cpp:126-128, 217-248, 299-317).
THEOREM LoraModeAlwaysKept == Spec => LoraModeKept
<1>1. ASSUME RegInv, RegInv', [Next]_vars, LongRange(reg)
      PROVE  LongRange(reg') \/ pc = "begin"
  <2>1. CASE pc' \notin {"begin", "lora"}
    BY <1>1, <2>1, Zenon DEF RegInv, ModePart
  <2>2. CASE LoRa_end
    <3>1. reg' = SetMode(reg, STDBY_MODE) /\ reg \in Chip
      BY <1>1, <2>2, Zenon DEF LoRa_end, Do, lora_set_satandby_mode, RegInv
    <3> QED
      BY <1>1, <3>1, SetModeFacts, ModeCodes
  <2>3. CASE UNCHANGED vars
    BY <1>1, <2>3, Zenon DEF vars
  <2>4. CASE Next /\ ~LoRa_end
    BY <2>1, <2>4 DEF Next, LoRa_begin, LoRa_send, LoRa_receive, TxDone, LoRa_stop_receive,
       LoRa_sleep, Do
  <2> QED
    BY <1>1, <2>2, <2>3, <2>4
<1>2. RegInv /\ RegInv' /\ [Next]_vars => [LongRange(reg) => LongRange(reg') \/ pc = "begin"]_vars
  BY <1>1
<1> QED
  BY <1>2, RegAlways, PTL DEF Spec, LoraModeKept
=============================================================================
