-------------------------------- MODULE Dht --------------------------------
(***************************************************************************)
(* getSensorValue of src/sensor/sensor.cpp: a DHT sensor answers with a     *)
(* train of pulses, timed by counting reads of the pin at one level; 40 of  *)
(* them are the bits of five bytes, the last of which is a check sum.       *)
(*                                                                         *)
(* Half a wave is the count it takes, and the line beyond the train stays   *)
(* high for good.  One disturbance of the train is chosen at the start.     *)
(***************************************************************************)
EXTENDS Integers, Sequences

CONSTANTS
    Readings,  \* what the sensor measures: [h, c] in tenths
    Timings    \* the counts [low, zero, one] of a pause, a 0 and a 1

MAX_TIMINGS == 85
Stuck == 255

ASSUME DhtAssumption ==
    /\ Readings \subseteq [h : 0 .. 1000, c : -400 .. 1250]
    /\ Timings \subseteq [low : 11 .. 84, zero : 11 .. 50, one : 51 .. 84]

VARIABLES
    reading,   \* what the sensor measured
    noise,     \* the disturbance: its kind and the half wave it hits
    line,      \* the counts of the half waves
    i, j,      \* the half wave that is read, and the bits stored
    data,      \* the five bytes
    overrun,   \* data[5] was written
    running,   \* the loop has not ended
    ret        \* what getSensorValue returns, in tenths

vars == <<reading, noise, line, i, j, data, overrun, running, ret>>

-----------------------------------------------------------------------------
(* The sensor and the line.                                                 *)

Abs(n) == IF n < 0 THEN -n ELSE n

\* The five bytes of a reading, the sign in the top bit of the third.
Encode(r) ==
    LET b == << r.h \div 256, r.h % 256,
                Abs(r.c) \div 256 + (IF r.c < 0 THEN 128 ELSE 0), Abs(r.c) % 256 >>
    IN  Append(b, (b[1] + b[2] + b[3] + b[4]) % 256)

BitOf(frame, k) == (frame[(k \div 8) + 1] \div 2^(7 - (k % 8))) % 2

\* The train: the idle line, the answer, and a pause and a pulse for every bit.
Train(frame, t) ==
    [n \in 1 .. 84 |->
        IF n <= 3 THEN 80
        ELSE IF n % 2 = 0 THEN t.low
        ELSE IF BitOf(frame, (n - 5) \div 2) = 1 THEN t.one ELSE t.zero]

Disturbances == [kind : {"none"}, at : {1}] \cup [kind : {"late"}, at : {1}]
    \cup [kind : {"flip"}, at : {n \in 5 .. 83 : n % 2 = 1}]
    \cup [kind : {"merge"}, at : 2 .. 83]
    \cup [kind : {"glitch", "stuck"}, at : 1 .. 84]

\* late: the first reading comes after the idle line; merge: a half wave is missed,
\* and its neighbours are one; glitch: a half wave is cut in two by a short one.
Disturbed(s, d, t) ==
    CASE d.kind = "none" -> s
      [] d.kind = "late" -> [s EXCEPT ![1] = 0]
      [] d.kind = "flip" -> [s EXCEPT ![d.at] = IF @ = t.one THEN t.zero ELSE t.one]
      [] d.kind = "merge" ->
            SubSeq(s, 1, d.at - 2) \o <<s[d.at - 1] + s[d.at] + s[d.at + 1]>>
               \o SubSeq(s, d.at + 2, 84)
      [] d.kind = "glitch" ->
            SubSeq(s, 1, d.at - 1) \o <<5, 5, s[d.at] - 10>> \o SubSeq(s, d.at + 1, 84)
      [] d.kind = "stuck" -> SubSeq(s, 1, d.at - 1)

-----------------------------------------------------------------------------
(* getSensorValue.                                                          *)

Count == IF i < Len(line) THEN line[i + 1] ELSE Stuck

NoValue == [validity |-> FALSE, h |-> 0, c |-> 0]

\* A value that does not fit is that of a sensor with whole bytes.
Humidity(d) == IF d[1] * 256 + d[2] > 1000 THEN d[1] * 10 ELSE d[1] * 256 + d[2]

Temperature(d) ==
    LET c == (d[3] % 128) * 256 + d[4]
        abs == IF c > 1250 THEN d[3] * 10 ELSE c
    IN  IF d[3] >= 128 THEN -abs ELSE abs

\* Mutant: the check sum is not looked at.
SumIgnored(d) == TRUE

SumOK(d) == d[5] = (d[1] + d[2] + d[3] + d[4]) % 256

EnoughBits == j >= 40

\* Mutant: the bits start one wave too early.
IsBitEarly == i >= 2 /\ i % 2 = 0

IsBit == i >= 4 /\ i % 2 = 0

\* Mutant: the threshold counts as a 1.
BitAtThreshold == IF Count >= 50 THEN 1 ELSE 0

Bit == IF Count > 50 THEN 1 ELSE 0

Init ==
    /\ reading \in Readings
    /\ noise \in Disturbances
    /\ \E t \in Timings : line = Disturbed(Train(Encode(reading), t), noise, t)
    /\ i = 0 /\ j = 0
    /\ data = [n \in 1 .. 5 |-> 0]
    /\ overrun = FALSE /\ running = TRUE
    /\ ret = NoValue

\* The 41st bit goes past the end of the array.
StoreBit ==
    /\ IsBit
    /\ j' = j + 1
    /\ \/ j \div 8 < 5 /\ data' = [data EXCEPT ![(j \div 8) + 1] = @ * 2 + Bit]
                       /\ UNCHANGED overrun
       \/ j \div 8 >= 5 /\ overrun' = TRUE /\ UNCHANGED data

\* One round of the loop.
HalfWave ==
    /\ running /\ i < MAX_TIMINGS /\ Count # Stuck
    /\ StoreBit \/ (~IsBit /\ UNCHANGED <<j, data, overrun>>)
    /\ i' = i + 1
    /\ UNCHANGED <<reading, noise, line, running, ret>>

Finish ==
    /\ running
    /\ i = MAX_TIMINGS \/ Count = Stuck
    /\ running' = FALSE
    /\ ret' = IF EnoughBits /\ SumOK(data)
              THEN [validity |-> TRUE, h |-> Humidity(data), c |-> Temperature(data)]
              ELSE NoValue
    /\ UNCHANGED <<reading, noise, line, i, j, data, overrun>>

Next == HalfWave \/ Finish

Spec == Init /\ [][Next]_vars

-----------------------------------------------------------------------------
(* Properties.                                                              *)

TypeOK ==
    /\ i \in 0 .. MAX_TIMINGS /\ j \in 0 .. 41
    /\ data \in [1 .. 5 -> 0 .. 255]
    /\ overrun \in BOOLEAN /\ running \in BOOLEAN

\* A train without a disturbance, or whose start is missed, gives the reading, with
\* its sign, at every timing on its side of the threshold (sensor.cpp:34-81).
Faithful ==
    ~running /\ noise.kind \in {"none", "late"} =>
        ret = [validity |-> TRUE, h |-> reading.h, c |-> reading.c]

\* A flipped bit, a missed half wave or a line that breaks off is never accepted as
\* another reading; only the last pause may be missing (sensor.cpp:58-59, 46-47).
LossDetected ==
    ~running /\ noise.kind \in {"flip", "merge", "stuck"} =>
        ret = IF noise = [kind |-> "stuck", at |-> 84]
              THEN [validity |-> TRUE, h |-> reading.h, c |-> reading.c]
              ELSE NoValue

\* Whatever the line does, at most one bit goes past the end, the 41st, in the last
\* round: the five bytes are never written again (sensor.cpp:34, 49-54).
OneBitPast ==
    /\ overrun => i = MAX_TIMINGS /\ j = 41
    /\ j <= 40 => ~overrun
=============================================================================
