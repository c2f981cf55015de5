----------------------------- MODULE Dht_proof -----------------------------
(***************************************************************************)
(* The decoder.  For every train of pulses the number of bits is a function *)
(* of the number of half waves, so that 85 of them give at most 41 bits, of *)
(* which only the last has no place.  For every reading and timing, what is *)
(* decoded is the reading, or nothing if the train lost a bit or half wave. *)
(***************************************************************************)
EXTENDS Dht, SequenceTheorems, TLAPS

\* The bits stored before half wave n (sensor.cpp:34, 49-53).
BitsBefore(n) == IF n <= 4 THEN 0 ELSE (n - 3) \div 2

IndexInv ==
    /\ i \in 0 .. MAX_TIMINGS
    /\ j = BitsBefore(i)
    /\ overrun \in BOOLEAN
    /\ overrun <=> i = MAX_TIMINGS

\* A half wave that is a bit adds one to the count, another adds nothing.
LEMMA BitsBeforeNext ==
    ASSUME NEW n \in 0 .. 84
    PROVE  /\ n >= 4 /\ n % 2 = 0 => BitsBefore(n + 1) = BitsBefore(n) + 1
           /\ ~(n >= 4 /\ n % 2 = 0) => BitsBefore(n + 1) = BitsBefore(n)
BY SMT DEF BitsBefore

\* 41 bits are stored in 85 half waves and no sooner.
LEMMA BitsBound ==
    ASSUME NEW n \in 0 .. 85
    PROVE  /\ BitsBefore(n) \in 0 .. 41
           /\ BitsBefore(n) = 41 <=> n = 85
BY SMT DEF BitsBefore

\* Before the first half wave no bit is stored (sensor.cpp:21-33).
LEMMA IndexInit == Init => IndexInv
<1> SUFFICES ASSUME Init
             PROVE  IndexInv
  OBVIOUS
<1>1. i = 0 /\ j = 0 /\ overrun = FALSE
  BY Zenon DEF Init
<1>2. i \in 0 .. MAX_TIMINGS /\ i # MAX_TIMINGS /\ j = BitsBefore(i)
  BY <1>1, SMT DEF BitsBefore, MAX_TIMINGS
<1> QED
  BY <1>1, <1>2, Zenon DEF IndexInv

\* Every round of the loop keeps the count of the bits in step with the half waves
\* (sensor.cpp:34-57).
LEMMA IndexStep == IndexInv /\ [Next]_vars => IndexInv'
<1> SUFFICES ASSUME IndexInv, [Next]_vars
             PROVE  IndexInv'
  OBVIOUS
<1> USE DEF MAX_TIMINGS
<1>1. CASE HalfWave
  <2>1. i \in 0 .. 84 /\ i' = i + 1
    BY <1>1 DEF HalfWave, IndexInv
  <2>2. BitsBefore(i) \in 0 .. 40 /\ ~overrun
    BY <2>1, BitsBound DEF IndexInv
  <2>3. CASE IsBit /\ StoreBit
    <3>1. j' = BitsBefore(i')
      BY <2>1, <2>3, BitsBeforeNext DEF IsBit, StoreBit, IndexInv
    <3>2. overrun' <=> j \div 8 >= 5
      BY <2>2, <2>3 DEF StoreBit, IndexInv
    <3>3. j \div 8 >= 5 <=> j = 40
      BY <2>2, SMT DEF IndexInv
    <3>4. j = 40 <=> i' = 85
      BY <2>1, <3>1, <2>3, <2>2, BitsBound DEF StoreBit, IndexInv
    <3>5. overrun' \in BOOLEAN
      BY <2>2, <2>3 DEF StoreBit, IndexInv
    <3> QED
      BY <2>1, <3>1, <3>2, <3>3, <3>4, <3>5 DEF IndexInv
  <2>4. CASE ~IsBit /\ UNCHANGED <<j, data, overrun>>
    <3>1. j' = BitsBefore(i')
      BY <2>1, <2>4, BitsBeforeNext DEF IsBit, IndexInv
    <3>2. i' # 85
      BY <2>1, <2>4, SMT DEF IsBit
    <3> QED
      BY <2>1, <2>2, <2>4, <3>1, <3>2 DEF IndexInv
  <2> QED
    BY <1>1, <2>3, <2>4 DEF HalfWave, StoreBit
<1>2. CASE Finish
  BY <1>2 DEF Finish, IndexInv
<1>3. CASE UNCHANGED vars
  BY <1>3 DEF vars, IndexInv
<1> QED
  BY <1>1, <1>2, <1>3 DEF Next

\* For every train the sensor can send, at most the 41st bit goes past the end of the five
\* bytes, in the last round of the loop (sensor.cpp:34, 49-54).
THEOREM OverrunBounded == Spec => []OneBitPast
<1>1. IndexInv => OneBitPast
  <2> SUFFICES ASSUME IndexInv
               PROVE  OneBitPast
    OBVIOUS
  <2>1. i \in 0 .. 85 /\ j = BitsBefore(i)
    BY DEF IndexInv, MAX_TIMINGS
  <2>2. j \in 0 .. 41 /\ (j = 41 <=> i = 85)
    BY <2>1, BitsBound
  <2> QED
    BY <2>2 DEF IndexInv, OneBitPast, MAX_TIMINGS
<1> QED
  BY <1>1, IndexInit, IndexStep, PTL DEF Spec

-----------------------------------------------------------------------------
(* Bytes and their bits, most significant first.                            *)

\* Bit m of byte x, and the number that its first m bits make.
BitAt(x, m) == (x \div 2^(7 - m)) % 2

Prefix(x, m) == x \div 2^(8 - m)

\* A byte of eight bits.
Byte(b) == 128 * b[0] + 64 * b[1] + 32 * b[2] + 16 * b[3]
             + 8 * b[4] + 4 * b[5] + 2 * b[6] + b[7]

Eight == [0 .. 7 -> 0 .. 1]

\* A byte with bit e inverted.
Flipped(x, e) == x + (1 - 2 * BitAt(x, e)) * 2^(7 - e)

\* The powers of two up to a byte.
LEMMA Powers ==
  /\ 2^0 = 1 /\ 2^1 = 2 /\ 2^2 = 4 /\ 2^3 = 8 /\ 2^4 = 16 /\ 2^5 = 32 /\ 2^6 = 64
  /\ 2^7 = 128 /\ 2^8 = 256
BY SMT

\* The bits a byte is made of are those that are read from it.
LEMMA BitsOfByte ==
  ASSUME NEW b \in Eight
  PROVE  /\ Byte(b) \in 0 .. 255
         /\ \A m \in 0 .. 7 : BitAt(Byte(b), m) = b[m]
<1>1. /\ b[0] \in 0 .. 1 /\ b[1] \in 0 .. 1 /\ b[2] \in 0 .. 1 /\ b[3] \in 0 .. 1
      /\ b[4] \in 0 .. 1 /\ b[5] \in 0 .. 1 /\ b[6] \in 0 .. 1 /\ b[7] \in 0 .. 1
  BY DEF Eight
<1>2. ASSUME NEW b0 \in 0 .. 1, NEW b1 \in 0 .. 1, NEW b2 \in 0 .. 1, NEW b3 \in 0 .. 1,
             NEW b4 \in 0 .. 1, NEW b5 \in 0 .. 1, NEW b6 \in 0 .. 1, NEW b7 \in 0 .. 1,
             NEW x, x = 128 * b0 + 64 * b1 + 32 * b2 + 16 * b3 + 8 * b4 + 4 * b5 + 2 * b6 + b7
      PROVE  /\ BitAt(x, 0) = b0 /\ BitAt(x, 1) = b1 /\ BitAt(x, 2) = b2
             /\ BitAt(x, 3) = b3 /\ BitAt(x, 4) = b4 /\ BitAt(x, 5) = b5
             /\ BitAt(x, 6) = b6 /\ BitAt(x, 7) = b7
  <2>0. x \in 0 .. 255
    BY <1>2
  <2>1. BitAt(x, 0) = b0
    <3>1. x \div 128 = b0
      BY <1>2, <2>0
    <3> QED
      BY <3>1, Powers DEF BitAt
  <2>2. BitAt(x, 1) = b1
    <3>1. x \div 64 = 2 * b0 + b1
      BY <1>2, <2>0
    <3> QED
      BY <3>1, Powers DEF BitAt
  <2>3. BitAt(x, 2) = b2
    <3>1. x \div 32 = 4 * b0 + 2 * b1 + b2
      BY <1>2, <2>0
    <3> QED
      BY <3>1, Powers DEF BitAt
  <2>4. BitAt(x, 3) = b3
    <3>1. x \div 16 = 8 * b0 + 4 * b1 + 2 * b2 + b3
      BY <1>2, <2>0
    <3> QED
      BY <3>1, Powers DEF BitAt
  <2>5. BitAt(x, 4) = b4
    <3>1. x \div 8 = 16 * b0 + 8 * b1 + 4 * b2 + 2 * b3 + b4
      BY <1>2, <2>0
    <3> QED
      BY <3>1, Powers DEF BitAt
  <2>6. BitAt(x, 5) = b5
    <3>1. x \div 4 = 32 * b0 + 16 * b1 + 8 * b2 + 4 * b3 + 2 * b4 + b5
      BY <1>2, <2>0
    <3> QED
      BY <3>1, Powers DEF BitAt
  <2>7. BitAt(x, 6) = b6
    <3>1. x \div 2 = 64 * b0 + 32 * b1 + 16 * b2 + 8 * b3 + 4 * b4 + 2 * b5 + b6
      BY <1>2, <2>0
    <3> QED
      BY <3>1, Powers DEF BitAt
  <2>8. BitAt(x, 7) = b7
    <3>1. x \div 1 = x
      BY <2>0
    <3>2. x % 2 = b7
      BY <1>2, <2>0
    <3> QED
      BY <3>1, <3>2, Powers DEF BitAt
  <2> QED
    BY <2>1, <2>2, <2>3, <2>4, <2>5, <2>6, <2>7, <2>8
<1> QED
  BY <1>1, <1>2 DEF Byte

\* Every byte is made of the bits that are read from it.
LEMMA ByteOfBits ==
  ASSUME NEW x \in 0 .. 255
  PROVE  \E b \in Eight : x = Byte(b)
<1>1. PICK q1 \in Int, q2 \in Int, q3 \in Int, q4 \in Int, q5 \in Int, q6 \in Int, q7 \in Int,
           r0 \in 0 .. 1, r1 \in 0 .. 1, r2 \in 0 .. 1, r3 \in 0 .. 1, r4 \in 0 .. 1,
           r5 \in 0 .. 1, r6 \in 0 .. 1 :
         /\ x = 2 * q1 + r0 /\ q1 = 2 * q2 + r1 /\ q2 = 2 * q3 + r2 /\ q3 = 2 * q4 + r3
         /\ q4 = 2 * q5 + r4 /\ q5 = 2 * q6 + r5 /\ q6 = 2 * q7 + r6
  <2>1. \A n \in Int : \E q \in Int, r \in 0 .. 1 : n = 2 * q + r
    <3> TAKE n \in Int
    <3> WITNESS n \div 2 \in Int, n % 2 \in 0 .. 1
    <3> QED
      OBVIOUS
  <2> QED
    BY <2>1
<1>2. q7 \in 0 .. 1
  BY <1>1
<1> DEFINE b == [m \in 0 .. 7 |-> CASE m = 0 -> q7 [] m = 1 -> r6 [] m = 2 -> r5 [] m = 3 -> r4
                                    [] m = 4 -> r3 [] m = 5 -> r2 [] m = 6 -> r1 [] OTHER -> r0]
<1>3. b \in Eight
  BY <1>1, <1>2 DEF Eight
<1>4. /\ b[0] = q7 /\ b[1] = r6 /\ b[2] = r5 /\ b[3] = r4
      /\ b[4] = r3 /\ b[5] = r2 /\ b[6] = r1 /\ b[7] = r0
  OBVIOUS
<1>5. x = 128 * q7 + 64 * r6 + 32 * r5 + 16 * r4 + 8 * r3 + 4 * r2 + 2 * r1 + r0
  BY <1>1, <1>2
<1> HIDE DEF b
<1>6. x = Byte(b)
  BY <1>4, <1>5 DEF Byte
<1> QED
  BY <1>3, <1>6

\* Inverting a bit changes that bit only, and by its weight.
LEMMA FlippedBits ==
  ASSUME NEW x \in 0 .. 255, NEW e \in 0 .. 7
  PROVE  /\ Flipped(x, e) \in 0 .. 255
         /\ \A m \in 0 .. 7 :
              BitAt(Flipped(x, e), m) = IF m = e THEN 1 - BitAt(x, m) ELSE BitAt(x, m)
         /\ Flipped(x, e) - x \in -128 .. 128
         /\ Flipped(x, e) # x
<1>1. PICK b \in Eight : x = Byte(b)
  BY ByteOfBits
<1>2. \A m \in 0 .. 7 : BitAt(x, m) = b[m] /\ b[m] \in 0 .. 1
  BY <1>1, BitsOfByte DEF Eight
<1> DEFINE c == [b EXCEPT ![e] = 1 - b[e]]
<1>3. c \in Eight
  BY <1>2 DEF Eight
<1>4. \A m \in 0 .. 7 : c[m] = IF m = e THEN 1 - b[m] ELSE b[m]
  BY <1>2 DEF Eight
<1>5. /\ Byte(c) = Flipped(x, e)
      /\ Flipped(x, e) - x \in -128 .. 128 /\ Flipped(x, e) # x
  <2>1. Flipped(x, e) = x + (1 - 2 * b[e]) * 2^(7 - e)
    BY <1>2 DEF Flipped
  <2> HIDE DEF c
  <2>2. /\ b[0] \in 0 .. 1 /\ b[1] \in 0 .. 1 /\ b[2] \in 0 .. 1 /\ b[3] \in 0 .. 1
        /\ b[4] \in 0 .. 1 /\ b[5] \in 0 .. 1 /\ b[6] \in 0 .. 1 /\ b[7] \in 0 .. 1
    BY <1>2
  <2>3. CASE e = 0
    <3>1. Flipped(x, e) = x + 128 - 256 * b[0]
      BY <1>1, <2>1, <2>2, <2>3, Powers
    <3>2. c[0] = 1 - b[0]
      BY <1>4, <2>3
    <3>3. c[1] = b[1] /\ c[2] = b[2] /\ c[3] = b[3] /\ c[4] = b[4] /\ c[5] = b[5] /\ c[6] = b[6] /\ c[7] = b[7]
      BY <1>4, <2>3
    <3>4. Byte(c) = Byte(b) + 128 - 256 * b[0]
      BY <3>2, <3>3, <2>2 DEF Byte
    <3> QED
      BY <1>1, <3>1, <3>4, <2>2
  <2>4. CASE e = 1
    <3>1. Flipped(x, e) = x + 64 - 128 * b[1]
      BY <1>1, <2>1, <2>2, <2>4, Powers
    <3>2. c[1] = 1 - b[1]
      BY <1>4, <2>4
    <3>3. c[0] = b[0] /\ c[2] = b[2] /\ c[3] = b[3] /\ c[4] = b[4] /\ c[5] = b[5] /\ c[6] = b[6] /\ c[7] = b[7]
      BY <1>4, <2>4
    <3>4. Byte(c) = Byte(b) + 64 - 128 * b[1]
      BY <3>2, <3>3, <2>2 DEF Byte
    <3> QED
      BY <1>1, <3>1, <3>4, <2>2
  <2>5. CASE e = 2
    <3>1. Flipped(x, e) = x + 32 - 64 * b[2]
      BY <1>1, <2>1, <2>2, <2>5, Powers
    <3>2. c[2] = 1 - b[2]
      BY <1>4, <2>5
    <3>3. c[0] = b[0] /\ c[1] = b[1] /\ c[3] = b[3] /\ c[4] = b[4] /\ c[5] = b[5] /\ c[6] = b[6] /\ c[7] = b[7]
      BY <1>4, <2>5
    <3>4. Byte(c) = Byte(b) + 32 - 64 * b[2]
      BY <3>2, <3>3, <2>2 DEF Byte
    <3> QED
      BY <1>1, <3>1, <3>4, <2>2
  <2>6. CASE e = 3
    <3>1. Flipped(x, e) = x + 16 - 32 * b[3]
      BY <1>1, <2>1, <2>2, <2>6, Powers
    <3>2. c[3] = 1 - b[3]
      BY <1>4, <2>6
    <3>3. c[0] = b[0] /\ c[1] = b[1] /\ c[2] = b[2] /\ c[4] = b[4] /\ c[5] = b[5] /\ c[6] = b[6] /\ c[7] = b[7]
      BY <1>4, <2>6
    <3>4. Byte(c) = Byte(b) + 16 - 32 * b[3]
      BY <3>2, <3>3, <2>2 DEF Byte
    <3> QED
      BY <1>1, <3>1, <3>4, <2>2
  <2>7. CASE e = 4
    <3>1. Flipped(x, e) = x + 8 - 16 * b[4]
      BY <1>1, <2>1, <2>2, <2>7, Powers
    <3>2. c[4] = 1 - b[4]
      BY <1>4, <2>7
    <3>3. c[0] = b[0] /\ c[1] = b[1] /\ c[2] = b[2] /\ c[3] = b[3] /\ c[5] = b[5] /\ c[6] = b[6] /\ c[7] = b[7]
      BY <1>4, <2>7
    <3>4. Byte(c) = Byte(b) + 8 - 16 * b[4]
      BY <3>2, <3>3, <2>2 DEF Byte
    <3> QED
      BY <1>1, <3>1, <3>4, <2>2
  <2>8. CASE e = 5
    <3>1. Flipped(x, e) = x + 4 - 8 * b[5]
      BY <1>1, <2>1, <2>2, <2>8, Powers
    <3>2. c[5] = 1 - b[5]
      BY <1>4, <2>8
    <3>3. c[0] = b[0] /\ c[1] = b[1] /\ c[2] = b[2] /\ c[3] = b[3] /\ c[4] = b[4] /\ c[6] = b[6] /\ c[7] = b[7]
      BY <1>4, <2>8
    <3>4. Byte(c) = Byte(b) + 4 - 8 * b[5]
      BY <3>2, <3>3, <2>2 DEF Byte
    <3> QED
      BY <1>1, <3>1, <3>4, <2>2
  <2>9. CASE e = 6
    <3>1. Flipped(x, e) = x + 2 - 4 * b[6]
      BY <1>1, <2>1, <2>2, <2>9, Powers
    <3>2. c[6] = 1 - b[6]
      BY <1>4, <2>9
    <3>3. c[0] = b[0] /\ c[1] = b[1] /\ c[2] = b[2] /\ c[3] = b[3] /\ c[4] = b[4] /\ c[5] = b[5] /\ c[7] = b[7]
      BY <1>4, <2>9
    <3>4. Byte(c) = Byte(b) + 2 - 4 * b[6]
      BY <3>2, <3>3, <2>2 DEF Byte
    <3> QED
      BY <1>1, <3>1, <3>4, <2>2
  <2>10. CASE e = 7
    <3>1. Flipped(x, e) = x + 1 - 2 * b[7]
      BY <1>1, <2>1, <2>2, <2>10, Powers
    <3>2. c[7] = 1 - b[7]
      BY <1>4, <2>10
    <3>3. c[0] = b[0] /\ c[1] = b[1] /\ c[2] = b[2] /\ c[3] = b[3] /\ c[4] = b[4] /\ c[5] = b[5] /\ c[6] = b[6]
      BY <1>4, <2>10
    <3>4. Byte(c) = Byte(b) + 1 - 2 * b[7]
      BY <3>2, <3>3, <2>2 DEF Byte
    <3> QED
      BY <1>1, <3>1, <3>4, <2>2
  <2> QED
    BY <2>3, <2>4, <2>5, <2>6, <2>7, <2>8, <2>9, <2>10
<1>6. Byte(c) \in 0 .. 255 /\ \A m \in 0 .. 7 : BitAt(Byte(c), m) = c[m]
  BY <1>3, BitsOfByte
<1> HIDE DEF c
<1>7. \A m \in 0 .. 7 : BitAt(Flipped(x, e), m) = IF m = e THEN 1 - BitAt(x, m) ELSE BitAt(x, m)
  BY <1>2, <1>4, <1>5, <1>6
<1> QED
  BY <1>5, <1>6, <1>7

\* One bit more of a byte; all eight are the byte.
LEMMA PrefixNext ==
  ASSUME NEW x \in 0 .. 255, NEW m \in 0 .. 7
  PROVE  Prefix(x, m + 1) = 2 * Prefix(x, m) + BitAt(x, m)
<1>1. ASSUME NEW a \in {1, 2, 4, 8, 16, 32, 64, 128}
      PROVE  x \div a = 2 * (x \div (2 * a)) + ((x \div a) % 2)
  <2>1. PICK q \in Int, r \in 0 .. a - 1, p \in Int, s \in 0 .. 1 :
           x = a * q + r /\ q = 2 * p + s
    <3>1. \A n \in Int : n = 2 * (n \div 2) + (n % 2) /\ n % 2 \in 0 .. 1 /\ n \div 2 \in Int
      OBVIOUS
    <3>2. x = a * (x \div a) + (x % a) /\ x % a \in 0 .. a - 1 /\ x \div a \in Int
      BY <1>1
    <3> DEFINE q == x \div a
               r == x % a
               p == q \div 2
               t == q % 2
    <3>3. q \in Int /\ r \in 0 .. a - 1 /\ p \in Int /\ t \in 0 .. 1
      BY <3>1, <3>2
    <3>4. x = a * q + r /\ q = 2 * p + t
      BY <3>1, <3>2
    <3> HIDE DEF q, r, p, t
    <3> QED
      BY <3>3, <3>4, Zenon
  <2>2. x \div a = q /\ x \div (2 * a) = p /\ q % 2 = s
    BY <1>1, <2>1
  <2> QED
    BY <2>1, <2>2
<1>2. CASE m = 0
  BY <1>1, <1>2, Powers DEF Prefix, BitAt
<1>3. CASE m = 1
  BY <1>1, <1>3, Powers DEF Prefix, BitAt
<1>4. CASE m = 2
  BY <1>1, <1>4, Powers DEF Prefix, BitAt
<1>5. CASE m = 3
  BY <1>1, <1>5, Powers DEF Prefix, BitAt
<1>6. CASE m = 4
  BY <1>1, <1>6, Powers DEF Prefix, BitAt
<1>7. CASE m = 5
  BY <1>1, <1>7, Powers DEF Prefix, BitAt
<1>8. CASE m = 6
  BY <1>1, <1>8, Powers DEF Prefix, BitAt
<1>9. CASE m = 7
  BY <1>1, <1>9, Powers DEF Prefix, BitAt
<1> QED
  BY <1>2, <1>3, <1>4, <1>5, <1>6, <1>7, <1>8, <1>9

\* No bits make zero, and all eight the byte.
LEMMA PrefixEnds ==
  ASSUME NEW x \in 0 .. 255
  PROVE  Prefix(x, 0) = 0 /\ Prefix(x, 8) = x
<1>1. x \div 256 = 0 /\ x \div 1 = x
  OBVIOUS
<1> QED
  BY <1>1, Powers DEF Prefix

\* What the first bits of a byte make is a number.
LEMMA PrefixInt ==
  ASSUME NEW x \in 0 .. 255, NEW m \in 0 .. 8
  PROVE  Prefix(x, m) \in Int
<1>1. CASE m = 0
  BY <1>1, Powers DEF Prefix
<1>2. CASE m = 1
  BY <1>2, Powers DEF Prefix
<1>3. CASE m = 2
  BY <1>3, Powers DEF Prefix
<1>4. CASE m = 3
  BY <1>4, Powers DEF Prefix
<1>5. CASE m = 4
  BY <1>5, Powers DEF Prefix
<1>6. CASE m = 5
  BY <1>6, Powers DEF Prefix
<1>7. CASE m = 6
  BY <1>7, Powers DEF Prefix
<1>8. CASE m = 7
  BY <1>8, Powers DEF Prefix
<1>9. CASE m = 8
  BY <1>9, Powers DEF Prefix
<1> QED
  BY <1>1, <1>2, <1>3, <1>4, <1>5, <1>6, <1>7, <1>8, <1>9

-----------------------------------------------------------------------------
(* What the line carries.                                                   *)

\* The bit that half wave n carries.
BitIndex(n) == (n - 5) \div 2

\* The frame as it arrives: a flip inverts one of its bits.
Sent ==
    LET k == BitIndex(noise.at)
    IN  IF noise.kind = "flip"
        THEN [Encode(reading) EXCEPT ![(k \div 8) + 1] = Flipped(@, k % 8)]
        ELSE Encode(reading)

\* All forty bits arrive.
Carries == noise.kind \in {"none", "late", "flip"} \/ noise = [kind |-> "stuck", at |-> 84]

Frames == [1 .. 5 -> 0 .. 255]

\* The two bytes of a value (sensor.cpp:61, 68).
LEMMA Words ==
  ASSUME NEW n \in 0 .. 1250
  PROVE  /\ n \div 256 \in 0 .. 4 /\ n % 256 \in 0 .. 255
         /\ n <= 1000 => n \div 256 <= 3
         /\ (n \div 256) * 256 + (n % 256) = n
OBVIOUS

\* The bytes of a reading, which decode to it.
LEMMA EncodeBytes ==
  ASSUME NEW r \in Readings
  PROVE  /\ Encode(r) \in Frames
         /\ SumOK(Encode(r))
         /\ Humidity(Encode(r)) = r.h
         /\ Temperature(Encode(r)) = r.c
<1> DEFINE h == r.h
           t == r.c
           a == Abs(t)
           s == IF t < 0 THEN 128 ELSE 0
           b == << h \div 256, h % 256, a \div 256 + s, a % 256 >>
           c == (b[1] + b[2] + b[3] + b[4]) % 256
           e == Encode(r)
<1>1. h \in 0 .. 1000 /\ t \in -400 .. 1250
  BY DhtAssumption
<1>4. e = Append(b, c)
  BY Zenon DEF Encode
<1> HIDE DEF h, t
<1>2. a \in 0 .. 1250 /\ (t < 0 => a <= 400 /\ t = -a) /\ (~(t < 0) => t = a)
  BY <1>1 DEF Abs
<1> HIDE DEF a
<1>3. /\ h \div 256 \in 0 .. 3 /\ h % 256 \in 0 .. 255
      /\ (h \div 256) * 256 + (h % 256) = h
      /\ a \div 256 \in 0 .. 4 /\ a % 256 \in 0 .. 255
      /\ (a \div 256) * 256 + (a % 256) = a
  <2>1. h \in 0 .. 1250 /\ h <= 1000
    BY <1>1
  <2>2. /\ h \div 256 \in 0 .. 4 /\ h % 256 \in 0 .. 255 /\ h \div 256 <= 3
        /\ (h \div 256) * 256 + (h % 256) = h
    BY <2>1, Words
  <2> QED
    BY <1>2, <2>2, Words
<1>5. b \in Seq(0 .. 255) /\ Len(b) = 4
  BY <1>3
<1>6. c \in 0 .. 255
  <2>1. b[1] \in 0 .. 255 /\ b[2] \in 0 .. 255 /\ b[3] \in 0 .. 255 /\ b[4] \in 0 .. 255
    BY <1>3
  <2>2. \A n \in Int : n % 256 \in 0 .. 255
    OBVIOUS
  <2>3. \A x, y, z, w \in 0 .. 255 : x + y + z + w \in Int
    OBVIOUS
  <2> HIDE DEF b
  <2>4. b[1] + b[2] + b[3] + b[4] \in Int
    BY <2>1, <2>3
  <2> QED
    BY <2>2, <2>4
<1> HIDE DEF e, c
<1>7. /\ e \in Seq(0 .. 255) /\ Len(e) = 5 /\ e[5] = c
      /\ e[1] = b[1] /\ e[2] = b[2] /\ e[3] = b[3] /\ e[4] = b[4]
  BY <1>4, <1>5, <1>6
<1>8. e \in Frames
  <2>1. e \in [1 .. Len(e) -> 0 .. 255]
    BY <1>7, LenProperties, Zenon
  <2> QED
    BY <1>7, <2>1, Zenon DEF Frames
<1>9. SumOK(e)
  BY <1>7 DEF SumOK, c
<1>10. Humidity(e) = h
  <2>1. e[1] = h \div 256 /\ e[2] = h % 256
    BY <1>7
  <2>2. e[1] * 256 + e[2] = h
    BY <1>3, <2>1
  <2> QED
    BY <1>1, <2>2 DEF Humidity
<1>11. Temperature(e) = t
  <2>1. e[3] = a \div 256 + s /\ e[4] = a % 256
    BY <1>7
  <2>2. e[3] % 128 = a \div 256 /\ (e[3] >= 128 <=> t < 0)
    BY <1>1, <1>3, <2>1
  <2>3. (e[3] % 128) * 256 + e[4] = a
    BY <1>3, <2>1, <2>2
  <2> QED
    BY <1>2, <2>2, <2>3 DEF Temperature
<1> QED
  BY <1>8, <1>9, <1>10, <1>11 DEF e, h, t

\* With one bit inverted the check sum does not agree.
LEMMA FlipBreaksSum ==
  ASSUME NEW f \in Frames, SumOK(f), NEW k \in 1 .. 5, NEW e \in 0 .. 7
  PROVE  ~SumOK([f EXCEPT ![k] = Flipped(f[k], e)])
<1> DEFINE y == Flipped(f[k], e)
           g == [f EXCEPT ![k] = y]
<1>1. f[k] \in 0 .. 255 /\ y \in 0 .. 255 /\ y - f[k] \in -128 .. 128 /\ y # f[k]
  BY FlippedBits DEF Frames
<1>2. \A n \in 1 .. 5 : f[n] \in 0 .. 255 /\ g[n] = IF n = k THEN y ELSE f[n]
  BY DEF Frames
<1>3. \A u, v \in Int : u # v /\ u - v \in -128 .. 128 => u % 256 # v % 256
  OBVIOUS
<1> HIDE DEF y, g
<1>4. CASE k = 5
  <2>1. g[1] = f[1] /\ g[2] = f[2] /\ g[3] = f[3] /\ g[4] = f[4] /\ g[5] # f[5]
    BY <1>1, <1>2, <1>4
  <2> QED
    BY <2>1 DEF SumOK, g, y
<1>5. CASE k # 5
  <2> DEFINE u == f[1] + f[2] + f[3] + f[4]
             v == g[1] + g[2] + g[3] + g[4]
  <2>1. u \in Int /\ v \in Int /\ v - u = y - f[k]
    <3>1. CASE k = 1
      <4>1. g[1] = y /\ g[2] = f[2] /\ g[3] = f[3] /\ g[4] = f[4]
        BY <1>2, <3>1
      <4>2. f[1] \in Int /\ f[2] \in Int /\ f[3] \in Int /\ f[4] \in Int /\ y \in Int /\ f[k] = f[1]
        BY <1>1, <1>2, <3>1
      <4> QED
        BY <4>1, <4>2
    <3>2. CASE k = 2
      <4>1. g[2] = y /\ g[1] = f[1] /\ g[3] = f[3] /\ g[4] = f[4]
        BY <1>2, <3>2
      <4>2. f[1] \in Int /\ f[2] \in Int /\ f[3] \in Int /\ f[4] \in Int /\ y \in Int /\ f[k] = f[2]
        BY <1>1, <1>2, <3>2
      <4> QED
        BY <4>1, <4>2
    <3>3. CASE k = 3
      <4>1. g[3] = y /\ g[1] = f[1] /\ g[2] = f[2] /\ g[4] = f[4]
        BY <1>2, <3>3
      <4>2. f[1] \in Int /\ f[2] \in Int /\ f[3] \in Int /\ f[4] \in Int /\ y \in Int /\ f[k] = f[3]
        BY <1>1, <1>2, <3>3
      <4> QED
        BY <4>1, <4>2
    <3>4. CASE k = 4
      <4>1. g[4] = y /\ g[1] = f[1] /\ g[2] = f[2] /\ g[3] = f[3]
        BY <1>2, <3>4
      <4>2. f[1] \in Int /\ f[2] \in Int /\ f[3] \in Int /\ f[4] \in Int /\ y \in Int /\ f[k] = f[4]
        BY <1>1, <1>2, <3>4
      <4> QED
        BY <4>1, <4>2
    <3> QED
      BY <1>5, <3>1, <3>2, <3>3, <3>4
  <2>2. g[5] = f[5] /\ f[5] = u % 256
    BY <1>2, <1>5 DEF SumOK
  <2>3. u # v /\ v - u \in -128 .. 128
    BY <1>1, <2>1
  <2>4. u % 256 # v % 256
    BY <1>3, <2>1, <2>3
  <2> QED
    BY <2>2, <2>4 DEF SumOK, g, y
<1> QED
  BY <1>4, <1>5

\* The frame as it arrives has five bytes; undisturbed it is the reading's.
LEMMA SentFacts ==
  ASSUME reading \in Readings, noise \in Disturbances
  PROVE  /\ Sent \in Frames
         /\ noise.kind # "flip" => Sent = Encode(reading)
         /\ noise.kind = "flip" =>
              /\ noise.at \in 5 .. 83 /\ noise.at % 2 = 1
              /\ ~SumOK(Sent)
              /\ \A k \in 0 .. 39 :
                   BitOf(Sent, k) = IF k = BitIndex(noise.at) THEN 1 - BitOf(Encode(reading), k)
                                    ELSE BitOf(Encode(reading), k)
<1> DEFINE f == Encode(reading)
           k0 == BitIndex(noise.at)
           q == (k0 \div 8) + 1
           e == k0 % 8
           y == Flipped(f[q], e)
<1>1. f \in Frames /\ SumOK(f)
  BY EncodeBytes
<1>2. CASE noise.kind # "flip"
  BY <1>1, <1>2 DEF Sent
<1>3. CASE noise.kind = "flip"
  <2>1. noise.at \in 5 .. 83 /\ noise.at % 2 = 1
    BY <1>3 DEF Disturbances
  <2>2. k0 \in 0 .. 39
    BY <2>1 DEF BitIndex
  <2> HIDE DEF k0
  <2>3. q \in 1 .. 5 /\ e \in 0 .. 7 /\ k0 = 8 * (q - 1) + e
    BY <2>2
  <2>4. Sent = [f EXCEPT ![q] = y]
    BY <1>3 DEF Sent, k0
  <2> HIDE DEF f, q, e
  <2>5. f[q] \in 0 .. 255 /\ y \in 0 .. 255
    BY <1>1, <2>3, FlippedBits DEF Frames
  <2>6. Sent \in Frames /\ Sent[q] = y /\ \A n \in 1 .. 5 \ {q} : Sent[n] = f[n]
    BY <1>1, <2>3, <2>4, <2>5 DEF Frames
  <2>7. ~SumOK(Sent)
    BY <1>1, <2>3, <2>4, FlipBreaksSum
  <2>8. ASSUME NEW k \in 0 .. 39
        PROVE  BitOf(Sent, k) = IF k = k0 THEN 1 - BitOf(f, k) ELSE BitOf(f, k)
    <3> DEFINE p == (k \div 8) + 1
               m == k % 8
    <3>1. p \in 1 .. 5 /\ m \in 0 .. 7 /\ k = 8 * (p - 1) + m
      BY <2>8
    <3>2. BitOf(Sent, k) = BitAt(Sent[p], m) /\ BitOf(f, k) = BitAt(f[p], m)
      BY DEF BitOf, BitAt
    <3> HIDE DEF p, m, y
    <3>3. CASE p # q
      BY <2>3, <2>6, <3>1, <3>2, <3>3
    <3>4. CASE p = q
      <4>1. k = k0 <=> m = e
        BY <2>3, <3>1, <3>4
      <4>2. BitAt(y, m) = IF m = e THEN 1 - BitAt(f[q], m) ELSE BitAt(f[q], m)
        BY <2>3, <2>5, <3>1, FlippedBits DEF y
      <4> QED
        BY <2>6, <3>2, <3>4, <4>1, <4>2
    <3> QED
      BY <3>3, <3>4
  <2> QED
    BY <1>3, <2>1, <2>6, <2>7, <2>8 DEF k0, f
<1> QED
  BY <1>2, <1>3

\* The train of a frame: no half wave looks like the end of the line, and a bit is a 1
\* when its half wave is longer than the threshold (sensor.cpp:50-51).
LEMMA TrainFacts ==
  ASSUME NEW f, NEW t \in Timings
  PROVE  /\ Train(f, t) \in [1 .. 84 -> 11 .. 84]
         /\ \A k \in 0 .. 39 :
              Train(f, t)[2 * k + 5] = IF BitOf(f, k) = 1 THEN t.one ELSE t.zero
<1>1. t.low \in 11 .. 84 /\ t.zero \in 11 .. 50 /\ t.one \in 51 .. 84
  BY DhtAssumption
<1>2. Train(f, t) \in [1 .. 84 -> 11 .. 84]
  BY <1>1 DEF Train
<1>3. ASSUME NEW k \in 0 .. 39
      PROVE  Train(f, t)[2 * k + 5] = IF BitOf(f, k) = 1 THEN t.one ELSE t.zero
  <2> DEFINE n == 2 * k + 5
  <2>1. n \in 1 .. 84 /\ ~(n <= 3) /\ n % 2 # 0 /\ (n - 5) \div 2 = k
    BY <1>3
  <2> HIDE DEF n
  <2>2. Train(f, t)[n] = IF n <= 3 THEN 80 ELSE IF n % 2 = 0 THEN t.low
                         ELSE IF BitOf(f, (n - 5) \div 2) = 1 THEN t.one ELSE t.zero
    BY <2>1 DEF Train
  <2> QED
    BY <2>1, <2>2 DEF n
<1> QED
  BY <1>2, <1>3

\* A function on an interval is a sequence.
LEMMA FunctionIsSeq ==
  ASSUME NEW S, NEW n \in Nat, NEW s \in [1 .. n -> S]
  PROVE  s \in Seq(S) /\ Len(s) = n
OBVIOUS

\* The same, for a train of 84 half waves.
LEMMA TrainIsSeq ==
  ASSUME NEW S, NEW s \in [1 .. 84 -> S]
  PROVE  s \in Seq(S) /\ Len(s) = 84
<1> DEFINE n == 84
<1>1. n \in Nat /\ s \in [1 .. n -> S]
  OBVIOUS
<1> HIDE DEF n
<1>2. s \in Seq(S) /\ Len(s) = n
  BY <1>1, FunctionIsSeq
<1> QED
  BY <1>2 DEF n

\* The line, as the decoder finds it.
LineInv ==
    /\ Carries =>
         /\ Len(line) \in 83 .. 84
         /\ \A n \in 1 .. Len(line) : line[n] \in 0 .. 84
         /\ \A k \in 0 .. 39 : line[2 * k + 5] > 50 <=> BitOf(Sent, k) = 1
    /\ noise.kind \in {"merge", "stuck"} /\ ~Carries => Len(line) \in 0 .. 82

\* A disturbance takes two half waves, inverts one bit or breaks the line off.
LEMMA LineInit == Init => reading \in Readings /\ noise \in Disturbances /\ LineInv
<1> SUFFICES ASSUME Init
             PROVE  reading \in Readings /\ noise \in Disturbances /\ LineInv
  OBVIOUS
<1>1. reading \in Readings /\ noise \in Disturbances
  BY Zenon DEF Init
<1> SUFFICES LineInv
  BY <1>1
<1>2. PICK t \in Timings : line = Disturbed(Train(Encode(reading), t), noise, t)
  BY Zenon DEF Init
<1> DEFINE f == Encode(reading)
           s == Train(f, t)
<1>3. /\ s \in [1 .. 84 -> 11 .. 84]
      /\ \A k \in 0 .. 39 : s[2 * k + 5] = IF BitOf(f, k) = 1 THEN t.one ELSE t.zero
  BY TrainFacts
<1>4. t.zero \in 11 .. 50 /\ t.one \in 51 .. 84
  BY DhtAssumption
<1>5. line = Disturbed(s, noise, t)
  BY <1>2
<1>6. \A k \in 0 .. 39 : 2 * k + 5 \in 5 .. 83
  OBVIOUS
<1>7. noise.kind # "flip" => Sent = f
  BY <1>1, SentFacts
<1> HIDE DEF s, f
<1>8. s \in Seq(11 .. 84) /\ Len(s) = 84
  BY <1>3, TrainIsSeq, Zenon
<1> DEFINE CarriesBits == \A k \in 0 .. 39 : line[2 * k + 5] > 50 <=> BitOf(Sent, k) = 1
<1>0. ASSUME \A k \in 0 .. 39 : line[2 * k + 5] = s[2 * k + 5], Sent = f
      PROVE  CarriesBits
  BY <1>0, <1>3, <1>4
<1> HIDE DEF CarriesBits
<1>9. CASE noise.kind = "none"
  <2>1. line = s
    BY <1>5, <1>9, Zenon DEF Disturbed
  <2>2. CarriesBits
    BY <1>0, <1>7, <1>9, <2>1
  <2>3. Len(line) = 84 /\ \A n \in 1 .. Len(line) : line[n] \in 0 .. 84
    <3>1. \A n \in 1 .. 84 : s[n] \in 0 .. 84
      BY <1>3
    <3> QED
      BY <1>8, <2>1, <3>1
  <2> QED
    BY <1>9, <2>2, <2>3 DEF LineInv, Carries, CarriesBits
<1>10. CASE noise.kind = "late"
  <2>1. line = [s EXCEPT ![1] = 0]
    BY <1>5, <1>10 DEF Disturbed
  <2>2. /\ line \in [1 .. 84 -> 0 .. 84] /\ Len(line) = 84
        /\ \A n \in 2 .. 84 : line[n] = s[n]
    <3>1. line \in [1 .. 84 -> 0 .. 84]
      BY <1>3, <2>1
    <3>3. \A n \in 2 .. 84 : line[n] = s[n]
      BY <1>3, <2>1
    <3>2. line \in Seq(0 .. 84) /\ Len(line) = 84
      BY <3>1, TrainIsSeq
    <3> QED
      BY <3>1, <3>2, <3>3
  <2>3. \A k \in 0 .. 39 : 2 * k + 5 \in 2 .. 84
    OBVIOUS
  <2>4. CarriesBits
    BY <1>0, <1>7, <1>10, <2>2, <2>3
  <2>5. Len(line) \in 83 .. 84 /\ \A n \in 1 .. Len(line) : line[n] \in 0 .. 84
    <3>1. Len(line) = 84 /\ \A n \in 1 .. 84 : line[n] \in 0 .. 84
      BY <2>2
    <3> QED
      BY <3>1
  <2>6. Carries
    BY <1>10 DEF Carries
  <2> QED
    BY <2>4, <2>5, <2>6 DEF LineInv, CarriesBits
<1>11. CASE noise.kind = "flip"
  <2> DEFINE a == noise.at
             k0 == BitIndex(a)
  <2>1. line = [s EXCEPT ![a] = IF s[a] = t.one THEN t.zero ELSE t.one]
    BY <1>5, <1>11 DEF Disturbed
  <2>2. /\ a \in 5 .. 83 /\ a % 2 = 1
        /\ \A k \in 0 .. 39 : BitOf(Sent, k) = IF k = k0 THEN 1 - BitOf(f, k) ELSE BitOf(f, k)
    BY <1>1, <1>11, SentFacts DEF f
  <2>3. k0 \in 0 .. 39 /\ a = 2 * k0 + 5
    BY <2>2 DEF BitIndex
  <2> HIDE DEF a, k0
  <2> DEFINE z == IF s[a] = t.one THEN t.zero ELSE t.one
  <2>4. z \in 0 .. 84 /\ line = [s EXCEPT ![a] = z]
    BY <1>4, <2>1
  <2> HIDE DEF z
  <2>6. /\ line \in [1 .. 84 -> 0 .. 84]
        /\ \A n \in 1 .. 84 : line[n] = IF n = a THEN z ELSE s[n]
    BY <1>3, <2>2, <2>4
  <2>7. Len(line) = 84
    <3>1. line \in [1 .. 84 -> 0 .. 84]
      BY <2>6
    <3>2. line \in Seq(0 .. 84) /\ Len(line) = 84
      BY <3>1, TrainIsSeq
    <3> QED
      BY <3>2
  <2>5. ASSUME NEW k \in 0 .. 39
        PROVE  line[2 * k + 5] > 50 <=> BitOf(Sent, k) = 1
    <3>1. BitOf(f, k) \in 0 .. 1
      <4>1. \A n \in Int : n % 2 \in 0 .. 1
        OBVIOUS
      <4> DEFINE p == (k \div 8) + 1
                 m == k % 8
      <4>2. p \in 1 .. 5 /\ m \in 0 .. 7
        BY <2>5
      <4> HIDE DEF p, m
      <4>3. f[p] \in 0 .. 255
        BY <1>1, <4>2, EncodeBytes DEF Frames, f
      <4>4. PICK b \in Eight : f[p] = Byte(b)
        BY <4>3, ByteOfBits
      <4>5. BitAt(f[p], m) \in 0 .. 1
        BY <4>2, <4>4, BitsOfByte DEF Eight
      <4> QED
        BY <4>5 DEF BitOf, BitAt, p, m
    <3>2. s[2 * k + 5] = IF BitOf(f, k) = 1 THEN t.one ELSE t.zero
      BY <1>3
    <3>3. BitOf(Sent, k) = IF k = k0 THEN 1 - BitOf(f, k) ELSE BitOf(f, k)
      BY <2>2
    <3>4. 2 * k + 5 \in 1 .. 84 /\ (2 * k + 5 = a <=> k = k0)
      BY <2>3
    <3> DEFINE n == 2 * k + 5
               x == BitOf(f, k)
               y == BitOf(Sent, k)
    <3> HIDE DEF n, x, y
    <3>5. n \in 1 .. 84 /\ (n = a <=> k = k0) /\ s[n] = (IF x = 1 THEN t.one ELSE t.zero)
          /\ y = (IF k = k0 THEN 1 - x ELSE x) /\ x \in 0 .. 1
      BY <3>1, <3>2, <3>3, <3>4 DEF n, x, y
    <3>6. line[n] > 50 <=> y = 1
      <4>1. s[n] > 50 <=> x = 1
        BY <1>4, <3>5
      <4>2. CASE n = a
        <5>1. line[n] = z /\ z = (IF s[n] = t.one THEN t.zero ELSE t.one)
          BY <2>6, <3>5, <4>2 DEF z
        <5> QED
          BY <1>4, <3>5, <4>1, <4>2, <5>1
      <4>3. CASE n # a
        BY <2>6, <3>5, <4>1, <4>3
      <4> QED
        BY <4>2, <4>3
    <3> QED
      BY <3>6 DEF n, y
  <2>8. \A n \in 1 .. Len(line) : line[n] \in 0 .. 84
    BY <2>6, <2>7
  <2> QED
    BY <1>11, <2>5, <2>7, <2>8 DEF LineInv, Carries
<1>12. CASE noise.kind = "merge"
  <2> DEFINE a == noise.at
             u == SubSeq(s, 1, a - 2)
             v == <<s[a - 1] + s[a] + s[a + 1]>>
             w == SubSeq(s, a + 2, 84)
  <2>1. line = u \o v \o w
    BY <1>5, <1>12, Zenon DEF Disturbed
  <2>2. a \in 2 .. 83
    BY <1>1, <1>12 DEF Disturbances
  <2>3. v \in Seq(Int) /\ Len(v) = 1
    <3>1. s[a - 1] + s[a] + s[a + 1] \in Int
      <4> HIDE DEF a
      <4>1. a - 1 \in 1 .. 84 /\ a \in 1 .. 84 /\ a + 1 \in 1 .. 84
        BY <2>2
      <4>2. s[a - 1] \in Int /\ s[a] \in Int /\ s[a + 1] \in Int
        BY <1>3, <4>1
      <4> QED
        BY <4>2
    <3> QED
      BY <3>1
  <2>4. u \in Seq(Int) /\ Len(u) = a - 2
    BY <1>3, <2>2, SubSeqProperties
  <2>5. w \in Seq(Int) /\ Len(w) = 83 - a
    BY <1>3, <2>2, SubSeqProperties
  <2>6. Len(line) = 82
    <3> HIDE DEF a, u, v, w
    <3>1. u \o v \in Seq(Int) /\ Len(u \o v) = Len(u) + Len(v)
      BY <2>3, <2>4, ConcatProperties
    <3>2. Len((u \o v) \o w) = Len(u \o v) + Len(w)
      BY <2>5, <3>1, ConcatProperties
    <3>3. line = (u \o v) \o w
      BY <2>1
    <3> QED
      BY <2>2, <2>3, <2>4, <2>5, <3>1, <3>2, <3>3
  <2>7. ~Carries
    BY <1>12 DEF Carries
  <2> QED
    BY <2>6, <2>7 DEF LineInv
<1>13. CASE noise.kind = "glitch"
  <2>1. ~Carries
    BY <1>13 DEF Carries
  <2> QED
    BY <1>13, <2>1 DEF LineInv
<1>14. CASE noise.kind = "stuck"
  <2>1. line = SubSeq(s, 1, noise.at - 1)
    BY <1>5, <1>14, Zenon DEF Disturbed
  <2>2. noise.at \in 1 .. 84 /\ (Carries <=> noise.at = 84)
    BY <1>1, <1>14 DEF Disturbances, Carries
  <2> DEFINE a == noise.at
  <2>3. Len(line) = a - 1 /\ \A n \in 1 .. a - 1 : line[n] = s[n]
    <3> HIDE DEF a
    <3>1. 1 \in Int /\ a - 1 \in Int /\ \A n \in 1 .. a - 1 : s[n] \in 0 .. 84
      BY <1>3, <2>2 DEF a
    <3>2. line = SubSeq(s, 1, a - 1)
      BY <2>1 DEF a
    <3>3. a \in 1 .. 84
      BY <2>2 DEF a
    <3>4. Len(line) = a - 1
      BY <3>1, <3>2, <3>3, SubSeqProperties
    <3>5. \A n \in 1 .. a - 1 : line[n] = s[n]
      BY <3>1, <3>2, <3>3
    <3> QED
      BY <3>4, <3>5
  <2>4. CASE a = 84
    <3>1. \A k \in 0 .. 39 : 2 * k + 5 \in 1 .. 83
      OBVIOUS
    <3>2. CarriesBits
      BY <1>0, <1>7, <1>14, <2>3, <2>4, <3>1
    <3>3. \A n \in 1 .. Len(line) : line[n] \in 0 .. 84
      BY <1>3, <2>3, <2>4
    <3>4. Carries /\ Len(line) = 83
      BY <2>2, <2>3, <2>4
    <3> QED
      BY <3>2, <3>3, <3>4 DEF LineInv, CarriesBits
  <2>5. CASE a # 84
    <3>1. ~Carries /\ a \in 1 .. 83
      BY <2>2, <2>5
    <3> HIDE DEF a
    <3>2. Len(line) \in 0 .. 82
      BY <2>3, <3>1
    <3> QED
      BY <3>1, <3>2 DEF LineInv
  <2> QED
    BY <2>4, <2>5
<1> QED
  BY <1>1, <1>9, <1>10, <1>11, <1>12, <1>13, <1>14 DEF Disturbances

-----------------------------------------------------------------------------
(* What the decoder makes of it.                                            *)

\* The bits that byte k has when n bits are stored (sensor.cpp:49-53).
Stored(k, n) == IF n <= 8 * (k - 1) THEN 0 ELSE IF n >= 8 * k THEN 8 ELSE n - 8 * (k - 1)

\* One bit more goes to one byte only.
LEMMA StoredNext ==
  ASSUME NEW n \in 0 .. 39
  PROVE  /\ (n \div 8) + 1 \in 1 .. 5 /\ n \div 8 < 5
         /\ n % 8 \in 0 .. 7
         /\ Stored((n \div 8) + 1, n) = n % 8
         /\ Stored((n \div 8) + 1, n + 1) = (n % 8) + 1
         /\ \A k \in 1 .. 5 : k # (n \div 8) + 1 => Stored(k, n + 1) = Stored(k, n)
BY DEF Stored

\* Before the first bit every byte is empty, after 40 bits all are full.
LEMMA StoredEnds ==
  ASSUME NEW k \in 1 .. 5
  PROVE  Stored(k, 0) = 0 /\ Stored(k, 40) = 8
BY DEF Stored

\* What getSensorValue returns for the bytes it has.
Result == IF EnoughBits /\ SumOK(data)
          THEN [validity |-> TRUE, h |-> Humidity(data), c |-> Temperature(data)]
          ELSE NoValue

\* The bytes hold the bits that arrived so far; a line that carries all of them is read
\* to its end, and another one that was cut is read no further than that.
ValueInv ==
    /\ reading \in Readings /\ noise \in Disturbances /\ LineInv
    /\ Carries => /\ i <= Len(line)
                  /\ data = [k \in 1 .. 5 |-> Prefix(Sent[k], Stored(k, j))]
    /\ noise.kind \in {"merge", "stuck"} /\ ~Carries => i <= 82
    /\ ~running => (Carries => i = Len(line)) /\ ret = Result

\* Before the first half wave the bytes are zero (sensor.cpp:21-25).
LEMMA ValueInit == Init => ValueInv
<1> SUFFICES ASSUME Init
             PROVE  ValueInv
  OBVIOUS
<1>1. reading \in Readings /\ noise \in Disturbances /\ LineInv
  BY LineInit
<1>2. i = 0 /\ j = 0 /\ data = [n \in 1 .. 5 |-> 0] /\ running
  BY Zenon DEF Init
<1>3. Carries => i <= Len(line)
  BY <1>1, <1>2 DEF LineInv
<1>4. data = [k \in 1 .. 5 |-> Prefix(Sent[k], Stored(k, j))]
  <2>1. ASSUME NEW k \in 1 .. 5
        PROVE  Prefix(Sent[k], Stored(k, j)) = 0
    <3>1. Sent[k] \in 0 .. 255
      BY <1>1, SentFacts DEF Frames
    <3> QED
      BY <1>2, <3>1, StoredEnds, PrefixEnds
  <2> QED
    BY <1>2, <2>1
<1>5. i <= 82
  BY <1>2
<1> QED
  BY <1>1, <1>2, <1>3, <1>4, <1>5, Zenon DEF ValueInv

\* A round of the loop stores the next bit of the frame in its place.
LEMMA BitStored ==
  ASSUME IndexInv, ValueInv, Carries, HalfWave
  PROVE  /\ i' <= Len(line)
         /\ data' = [k \in 1 .. 5 |-> Prefix(Sent[k], Stored(k, j'))]
<1>1. /\ Len(line) \in 83 .. 84 /\ i \in 0 .. 85 /\ j = BitsBefore(i)
      /\ \A k \in 0 .. 39 : line[2 * k + 5] > 50 <=> BitOf(Sent, k) = 1
      /\ data = [k \in 1 .. 5 |-> Prefix(Sent[k], Stored(k, j))]
  BY DEF ValueInv, LineInv, IndexInv, MAX_TIMINGS
<1>2. i < Len(line) /\ i' = i + 1 /\ Count = line[i + 1]
  BY DEF HalfWave, Count
<1>3. i' <= Len(line)
  BY <1>1, <1>2
<1>4. CASE ~IsBit
  BY <1>1, <1>3, <1>4 DEF HalfWave, StoreBit
<1>5. CASE IsBit
  <2>1. j \in 0 .. 39 /\ i = 2 * j + 4
    <3> DEFINE n == Len(line)
    <3>3. n \in 83 .. 84 /\ i < n /\ i \in 0 .. 85 /\ i >= 4 /\ i % 2 = 0
      BY <1>1, <1>2, <1>5 DEF IsBit
    <3> HIDE DEF n
    <3>1. i \in 4 .. 83 /\ i % 2 = 0
      BY <3>3
    <3>2. j = IF i <= 4 THEN 0 ELSE (i - 3) \div 2
      BY <1>1 DEF BitsBefore
    <3> QED
      BY <3>1, <3>2
  <2> DEFINE q == (j \div 8) + 1
             m == j % 8
             x == Sent[q]
             bit == BitAt(x, m)
  <2>2. /\ q \in 1 .. 5 /\ j \div 8 < 5 /\ m \in 0 .. 7
        /\ Stored(q, j) = m /\ Stored(q, j + 1) = m + 1
        /\ \A k \in 1 .. 5 : k # q => Stored(k, j + 1) = Stored(k, j)
    BY <2>1, StoredNext
  <2>3. StoreBit
    BY <1>5 DEF HalfWave
  <2>4. j' = j + 1 /\ data' = [data EXCEPT ![q] = @ * 2 + Bit]
    BY <2>1, <2>2, <2>3 DEF StoreBit
  <2>5. BitOf(Sent, j) = bit
    BY DEF BitOf, BitAt
  <2> HIDE DEF q, m
  <2>6. x \in 0 .. 255
    <3>1. Sent \in Frames
      BY SentFacts DEF ValueInv
    <3> QED
      BY <2>2, <3>1 DEF Frames
  <2>7. bit \in 0 .. 1
    <3>1. PICK b \in Eight : x = Byte(b)
      BY <2>6, ByteOfBits
    <3>2. BitAt(Byte(b), m) = b[m] /\ b[m] \in 0 .. 1
      BY <2>2, BitsOfByte DEF Eight
    <3> QED
      BY <3>1, <3>2
  <2> HIDE DEF x, bit
  <2>8. Bit = bit
    <3>1. Count = line[2 * j + 5]
      <4>1. i + 1 = 2 * j + 5
        BY <2>1
      <4> QED
        BY <1>2, <4>1
    <3>2. Count > 50 <=> bit = 1
      BY <1>1, <2>1, <2>5, <3>1
    <3> QED
      BY <2>7, <3>2 DEF Bit
  <2>9. Prefix(x, m + 1) = Prefix(x, m) * 2 + bit
    <3>1. Prefix(x, m + 1) = 2 * Prefix(x, m) + BitAt(x, m)
      BY <2>2, <2>6, PrefixNext
    <3>2. Prefix(x, m) \in Int
      BY <2>2, <2>6, PrefixInt
    <3> QED
      BY <2>7, <3>1, <3>2 DEF bit
  <2>10. \A k \in 1 .. 5 : data'[k] = Prefix(Sent[k], Stored(k, j + 1))
    <3> SUFFICES ASSUME NEW k \in 1 .. 5
                 PROVE  data'[k] = Prefix(Sent[k], Stored(k, j + 1))
      OBVIOUS
    <3>1. data[k] = Prefix(Sent[k], Stored(k, j))
      BY <1>1
    <3>2. CASE k = q
      <4>1. data'[k] = data[k] * 2 + bit
        BY <1>1, <2>4, <2>8, <3>2
      <4>2. Sent[k] = x /\ Stored(k, j) = m /\ Stored(k, j + 1) = m + 1
        BY <2>2, <3>2 DEF x
      <4> QED
        BY <2>9, <3>1, <4>1, <4>2
    <3>3. CASE k # q
      <4>1. data'[k] = data[k]
        BY <1>1, <2>4, <3>3
      <4> QED
        BY <2>2, <3>1, <3>3, <4>1
    <3> QED
      BY <3>2, <3>3
  <2>11. data' = [k \in 1 .. 5 |-> data'[k]]
    BY <1>1, <2>4
  <2> QED
    BY <1>3, <2>4, <2>10, <2>11
<1> QED
  BY <1>4, <1>5

\* Nothing but the decoder's variables changes, and only Finish gives a result.
LEMMA ValueStep == IndexInv /\ ValueInv /\ [Next]_vars => ValueInv'
<1> SUFFICES ASSUME IndexInv, ValueInv, [Next]_vars
             PROVE  ValueInv'
  OBVIOUS
<1>1. UNCHANGED <<reading, noise, line>>
  BY DEF Next, HalfWave, Finish, vars
<1>2. /\ (reading \in Readings /\ noise \in Disturbances /\ LineInv)'
      /\ Carries' = Carries /\ Sent' = Sent
  BY <1>1 DEF ValueInv, LineInv, Carries, Sent
<1>3. CASE HalfWave
  <2>1. running /\ running' = running
    BY <1>3 DEF HalfWave
  <2>2. Carries => i' <= Len(line)' /\ data' = [k \in 1 .. 5 |-> Prefix(Sent[k], Stored(k, j'))]
    BY <1>1, <1>3, BitStored
  <2>3. noise.kind \in {"merge", "stuck"} /\ ~Carries => i' <= 82
    <3> SUFFICES ASSUME noise.kind \in {"merge", "stuck"}, ~Carries
                 PROVE  i' <= 82
      OBVIOUS
    <3>1. Len(line) \in 0 .. 82 /\ i \in 0 .. 85
      BY DEF ValueInv, LineInv, IndexInv, MAX_TIMINGS
    <3>2. i < Len(line) /\ i' = i + 1
      BY <1>3 DEF HalfWave, Count
    <3> DEFINE n == Len(line)
    <3>3. n \in 0 .. 82 /\ i < n /\ i \in 0 .. 85
      BY <3>1, <3>2
    <3> HIDE DEF n
    <3> QED
      BY <3>2, <3>3
  <2> QED
    BY <1>1, <1>2, <2>1, <2>2, <2>3 DEF ValueInv
<1>4. CASE Finish
  <2>1. UNCHANGED <<i, j, data>> /\ ret' = Result' /\ ~running'
    BY <1>4 DEF Finish, Result, EnoughBits
  <2>2. Carries => i = Len(line)
    <3> SUFFICES ASSUME Carries
                 PROVE  i = Len(line)
      OBVIOUS
    <3>1. /\ Len(line) \in 83 .. 84 /\ i <= Len(line) /\ i \in 0 .. 85
          /\ \A n \in 1 .. Len(line) : line[n] \in 0 .. 84
      BY DEF ValueInv, LineInv, IndexInv, MAX_TIMINGS
    <3>2. Count = 255
      <4> DEFINE n == Len(line)
      <4>2. n \in 83 .. 84 /\ i <= n /\ i \in 0 .. 85
        BY <3>1
      <4> HIDE DEF n
      <4>1. i \in 0 .. 84
        BY <4>2
      <4> QED
        BY <1>4, <4>1 DEF Finish, Stuck, MAX_TIMINGS
    <3>3. i < Len(line) => Count \in 0 .. 84
      BY <3>1 DEF Count
    <3> QED
      BY <3>1, <3>2, <3>3
  <2> QED
    BY <1>1, <1>2, <2>1, <2>2 DEF ValueInv
<1>5. CASE UNCHANGED vars
  BY <1>1, <1>2, <1>5 DEF vars, ValueInv, Result, EnoughBits
<1> QED
  BY <1>3, <1>4, <1>5 DEF Next

\* Both invariants, always.
LEMMA ValueAlways == Spec => [](IndexInv /\ ValueInv)
<1>1. IndexInv /\ ValueInv /\ [Next]_vars => IndexInv' /\ ValueInv'
  BY IndexStep, ValueStep
<1> QED
  BY <1>1, IndexInit, ValueInit, PTL DEF Spec

\* When the loop ends, the bytes are the frame that arrived, if all of it did.
LEMMA AllRead ==
  ASSUME IndexInv, ValueInv, ~running
  PROVE  /\ Carries => data = Sent /\ EnoughBits
         /\ noise.kind \in {"merge", "stuck"} /\ ~Carries => ~EnoughBits
         /\ ret = Result
<1>1. /\ i \in 0 .. 85 /\ j = BitsBefore(i) /\ ret = Result
      /\ reading \in Readings /\ noise \in Disturbances
  BY DEF IndexInv, ValueInv, MAX_TIMINGS
<1>2. ASSUME Carries
      PROVE  data = Sent /\ EnoughBits
  <2>1. /\ i \in 83 .. 84
        /\ data = [k \in 1 .. 5 |-> Prefix(Sent[k], Stored(k, j))]
    BY <1>2 DEF ValueInv, LineInv
  <2>2. j = 40
    BY <1>1, <2>1 DEF BitsBefore
  <2>3. Sent \in Frames
    BY <1>1, SentFacts
  <2>4. \A k \in 1 .. 5 : Prefix(Sent[k], Stored(k, j)) = Sent[k]
    BY <2>2, <2>3, StoredEnds, PrefixEnds DEF Frames
  <2>5. data = [k \in 1 .. 5 |-> Sent[k]]
    BY <2>1, <2>4
  <2>6. data = Sent
    BY <2>3, <2>5 DEF Frames
  <2> QED
    BY <2>2, <2>6 DEF EnoughBits
<1>3. ASSUME noise.kind \in {"merge", "stuck"}, ~Carries
      PROVE  ~EnoughBits
  <2>1. i \in 0 .. 82
    BY <1>1, <1>3 DEF ValueInv
  <2>2. j <= 39
    BY <1>1, <2>1 DEF BitsBefore
  <2> QED
    BY <1>1, <2>2, BitsBound DEF EnoughBits
<1> QED
  BY <1>1, <1>2, <1>3

\* For every reading in the sensor's range, of either sign, and every timing on its side of
\* the threshold, getSensorValue returns the reading of a train that is not disturbed, or
\* whose start is missed (sensor.cpp:34-81).
THEOREM ReadsFaithfully == Spec => []Faithful
<1>1. IndexInv /\ ValueInv => Faithful
  <2> SUFFICES ASSUME IndexInv, ValueInv, ~running, noise.kind \in {"none", "late"}
               PROVE  ret = [validity |-> TRUE, h |-> reading.h, c |-> reading.c]
    BY DEF Faithful
  <2>1. Carries /\ reading \in Readings /\ noise \in Disturbances
    BY DEF Carries, ValueInv
  <2>2. data = Encode(reading) /\ EnoughBits /\ ret = Result
    BY <2>1, AllRead, SentFacts
  <2> QED
    BY <2>1, <2>2, EncodeBytes DEF Result
<1> QED
  BY <1>1, ValueAlways, PTL

\* For every reading and timing, a flipped bit, a missed half wave or a broken line, wherever
\* it is, is never accepted as another reading; only the last pause may be missing
\* (sensor.cpp:58-59, 46-47).
THEOREM LossesDetected == Spec => []LossDetected
<1>1. IndexInv /\ ValueInv => LossDetected
  <2> SUFFICES ASSUME IndexInv, ValueInv, ~running, noise.kind \in {"flip", "merge", "stuck"}
               PROVE  ret = IF noise = [kind |-> "stuck", at |-> 84]
                            THEN [validity |-> TRUE, h |-> reading.h, c |-> reading.c]
                            ELSE NoValue
    BY DEF LossDetected
  <2>1. reading \in Readings /\ noise \in Disturbances
    BY DEF ValueInv
  <2>2. CASE noise = [kind |-> "stuck", at |-> 84]
    <3>1. Carries /\ noise.kind # "flip"
      BY <2>2 DEF Carries
    <3>2. data = Encode(reading) /\ EnoughBits /\ ret = Result
      BY <2>1, <3>1, AllRead, SentFacts
    <3> QED
      BY <2>1, <2>2, <3>2, EncodeBytes DEF Result
  <2>3. CASE noise.kind = "flip"
    <3>1. Carries /\ noise # [kind |-> "stuck", at |-> 84]
      BY <2>3 DEF Carries
    <3>2. data = Sent /\ ~SumOK(Sent) /\ ret = Result
      BY <2>1, <2>3, <3>1, AllRead, SentFacts
    <3> QED
      BY <3>1, <3>2 DEF Result
  <2>4. CASE noise.kind # "flip" /\ noise # [kind |-> "stuck", at |-> 84]
    <3>1. ~Carries /\ noise.kind \in {"merge", "stuck"}
      BY <2>4 DEF Carries
    <3>2. ~EnoughBits /\ ret = Result
      BY <3>1, AllRead
    <3> QED
      BY <2>4, <3>2 DEF Result
  <2> QED
    BY <2>2, <2>3, <2>4
<1> QED
  BY <1>1, ValueAlways, PTL
=============================================================================
