--------------------------- MODULE LoraNet_proof ---------------------------
(***************************************************************************)
(* The radio channel, for any number of devices and networks.  An answer    *)
(* depends on nothing but the readings that were heard, a device is shown   *)
(* only what some reading deserved, a quiet network acknowledges each       *)
(* reading, and a lone device sees its acks in order.                       *)
(***************************************************************************)
EXTENDS LoraNet, FiniteSetTheorems, TLAPS

(***************************************************************************)
(* The history, as operators on the sequence of readings.                   *)
(***************************************************************************)

\* The readings of m among the first n of s since its last valid one.
RowIn(s, m, n) ==
    {i \in 1 .. n : s[i].mac = m /\ \A j \in i .. n : s[j].mac = m => ~s[j].valid}

\* The answer that entry n of s deserves.
DueIn(s, n) ==
    [ack |-> s[n].count, needReboot |-> Cardinality(RowIn(s, s[n].mac, n)) > ErrorLimit]

\* How many of the readings heard are already in the gateway's counts.
Served == IF heard # NoData /\ heard.ok THEN Len(log) - 1 ELSE Len(log)

(***************************************************************************)
(* The inductive invariants.                                                *)
(***************************************************************************)

\* The gateway serves one frame at a time, and its counts are those of the log.
GatewayInv ==
    /\ heard # NoData => answer = NoData
    /\ heard # NoData /\ heard.ok => log # <<>> /\ heard = log[Len(log)]
    /\ streak = [m \in Macs |-> Cardinality(RowIn(log, m, Served))]
    /\ AnswersByHistory

\* What may reach a device, besides the text of another device's reading.
WereDue == {Due(n) : n \in 1 .. Len(log)} \cup {NoReading, NoData}

\* What a device heard is a frame of another one or an answer that was due.
DeviceInv ==
    /\ \A d \in Sensors : pending[d] # NoData => pending[d].ok
    /\ \A d \in Sensors : ear[d] \in WereDue \cup Packets
    /\ ShownWasDue

NetInv == NetTypeOK /\ GatewayInv /\ DeviceInv

\* Reading r is one that device d sends.
SentBy(d, r) == \E a \in Packets \cup {NoData} : r \in After(d, a)

OwnReadings ==
    \A d \in Sensors : \A r \in {pending[d], air[d]} \ {NoData} :
        d \in net.devices /\ SentBy(d, r)

\* Nothing is under way besides the reading of d that waits to be sent.
AloneWith(d) ==
    /\ heard = NoData /\ answer = NoData
    /\ \A e \in Sensors : ear[e] = NoData /\ (e # d => pending[e] = NoData)

\* The device whose reading was heard last is yet to be answered, to be shown
\* its answer, or was shown it.
OnItsWay(d) ==
    log # <<>> /\ air[d] = log[Len(log)]
    => IF heard # NoData \/ answer # NoData
       THEN ear[d] = NoData
       ELSE \/ ear[d] = Due(Len(log))
            \/ ear[d] = NoData /\ shown[d] = Due(Len(log))

\* In a quiet network nothing is damaged, and an exchange ends before the next.
QuietInv ==
    Quiet =>
      /\ \A d \in Sensors : pending[d] # NoData => AloneWith(d)
      /\ heard # NoData => heard.ok
      /\ answer # NoData => log # <<>> /\ answer = Due(Len(log))
      /\ \A d \in Sensors : OnItsWay(d)

\* Nobody else is heard on the channel of a lone device.
OthersSilent(d) ==
    \A e \in Sensors \ {d} : pending[e] = NoData /\ air[e] = NoData /\ ear[e] = NoData

\* n comes after the ack in a lone device's ear and those it was shown.
AfterEar(d, n) == (ear[d] # NoData => ear[d].ack < n) /\ top[d] < n

\* Between a lone device and the gateway: the acks come closer in the order in
\* which the readings were sent.
InOrder(d) ==
    /\ air[d].count <= taken[d].count
    /\ pending[d] # NoData => pending[d].count > air[d].count
    /\ AfterEar(d, air[d].count + 1)
    /\ heard # NoData /\ heard.ok =>
         heard.count <= air[d].count /\ AfterEar(d, heard.count)
    /\ answer # NoData /\ answer.ack >= 0 =>
         answer.ack <= air[d].count /\ AfterEar(d, answer.ack)
    /\ ear[d] # NoData /\ ear[d].ack >= 0 => ear[d].ack > top[d]

\* The device has sent nothing yet.
NothingSent(d) == heard = NoData /\ answer = NoData /\ ear[d] = NoData /\ top[d] = -1

\* What waits to be sent is the last reading taken, and none was sent before.
Latest(d) == /\ pending[d] # NoData => pending[d] = taken[d]
             /\ air[d] # NoData => taken[d] # NoData

Lone(d) == /\ OthersSilent(d)
           /\ Latest(d)
           /\ ear[d] \in Replies \cup {NoData}
           /\ air[d] = NoData => NothingSent(d)
           /\ air[d] # NoData => InOrder(d)

LoneInv == \A d \in Sensors : net.devices = {d} => Lone(d)

-----------------------------------------------------------------------------
(* Lemmas on the history.                                                   *)

\* A row is finite, and an answer to a reading is a reply.
LEMMA RowFinite ==
  ASSUME NEW s, NEW m, NEW n \in Nat
  PROVE  IsFiniteSet(RowIn(s, m, n)) /\ Cardinality(RowIn(s, m, n)) \in Nat
<1>1. IsFiniteSet(1 .. n) /\ RowIn(s, m, n) \in SUBSET (1 .. n)
  BY FS_Interval DEF RowIn
<1>2. IsFiniteSet(RowIn(s, m, n))
  BY <1>1, FS_Subset
<1> QED
  BY <1>2, FS_CardinalityType

\* What is heard later makes no difference to a row.
LEMMA RowKept ==
  ASSUME NEW s \in Seq(Packets), NEW r \in Packets, NEW m, NEW n \in 0 .. Len(s)
  PROVE  RowIn(Append(s, r), m, n) = RowIn(s, m, n)
<1>1. \A k \in 1 .. n : Append(s, r)[k] = s[k]
  OBVIOUS
<1>2. \A i \in 1 .. n : \A j \in i .. n : j \in 1 .. n
  OBVIOUS
<1> QED
  BY <1>1, <1>2 DEF RowIn

\* One more reading continues the row of its device, or ends it, and is nothing
\* to the rows of the others.
LEMMA RowStep ==
  ASSUME NEW s \in Seq(Packets), NEW m, NEW n \in 1 .. Len(s)
  PROVE  Cardinality(RowIn(s, m, n)) =
           IF s[n].mac # m THEN Cardinality(RowIn(s, m, n - 1))
           ELSE IF s[n].valid THEN 0 ELSE Cardinality(RowIn(s, m, n - 1)) + 1
<1> DEFINE old == RowIn(s, m, n - 1)
<1>1. IsFiniteSet(old) /\ Cardinality(old) \in Nat
  BY RowFinite
<1>2. n \notin old
  BY DEF RowIn
<1>3. /\ \A k : k \in 1 .. n <=> k \in 1 .. n - 1 \/ k = n
      /\ \A i \in 1 .. n : \A k : k \in i .. n <=> k \in i .. n - 1 \/ k = n
  OBVIOUS
<1>4. CASE s[n].mac # m
  <2>1. RowIn(s, m, n) = old
    BY <1>3, <1>4 DEF RowIn
  <2> QED
    BY <1>4, <2>1
<1>5. CASE s[n].mac = m /\ s[n].valid
  <2>1. RowIn(s, m, n) = {}
    BY <1>3, <1>5 DEF RowIn
  <2> QED
    BY <1>5, <2>1, FS_EmptySet
<1>6. CASE s[n].mac = m /\ ~s[n].valid
  <2>1. \A j \in n .. n - 1 : FALSE
    OBVIOUS
  <2>2. RowIn(s, m, n) = old \cup {n}
    BY <1>3, <1>6 DEF RowIn
  <2>3. Cardinality(old \cup {n}) = Cardinality(old) + 1
    BY <1>1, <1>2, FS_AddElement
  <2> QED
    BY <1>6, <2>2, <2>3
<1> QED
  BY <1>4, <1>5, <1>6

\* What is heard later makes no difference to the answer that was due.
LEMMA DueKept ==
  ASSUME NEW s \in Seq(Packets), NEW r \in Packets, NEW n \in 1 .. Len(s)
  PROVE  DueIn(Append(s, r), n) = DueIn(s, n)
<1>1. Append(s, r)[n] = s[n]
  OBVIOUS
<1> QED
  BY <1>1, RowKept DEF DueIn

\* The answer that is due to a reading is a reply.
LEMMA DueReply ==
  ASSUME NEW s \in Seq(Packets), NEW n \in 1 .. Len(s)
  PROVE  DueIn(s, n) \in Replies /\ DueIn(s, n).ack = s[n].count
<1>1. s[n] \in Packets
  OBVIOUS
<1> QED
  BY <1>1 DEF DueIn, Replies, Packets

\* The answer of the properties is that of the operators above.
LEMMA DueIsDueIn ==
  /\ \A n : Due(n) = DueIn(log, n)
  /\ \A n : Due(n)' = DueIn(log', n)
  BY DEF Due, DueIn, InARow, RowIn

-----------------------------------------------------------------------------
(* What the parts of a step do.                                             *)

\* Readings and replies are records of different fields.
LEMMA Disjoint ==
  /\ Packets \cap Replies = {}
  /\ NoData \notin Packets /\ NoData \notin Replies
<1>1. \A p \in Packets : "mac" \in DOMAIN p
  BY DEF Packets
<1>2. \A p \in Replies : "mac" \notin DOMAIN p
  BY DEF Replies
<1> QED
  BY <1>1, <1>2, NoDataAssumption

\* The gateway misses a frame, hears it, or hears it damaged.
LEMMA GetsFacts ==
  ASSUME NetTypeOK, NEW r \in Packets, GatewayGets(r)
  PROVE  /\ streak' = streak /\ answer' = answer
         /\ \/ Lost /\ heard' = heard /\ log' = log
            \/ /\ heard = NoData /\ answer = NoData
               /\ heard' = r /\ log' = Append(log, r)
            \/ /\ ~Quiet /\ heard = NoData /\ answer = NoData
               /\ heard' \in Packets /\ ~heard'.ok /\ log' = log
<1>1. CASE Lost /\ UNCHANGED <<gateway, log>>
  BY <1>1 DEF gateway
<1>2. CASE heard' = r /\ G!Hear /\ log' = Append(log, r)
  BY <1>2 DEF G!Hear
<1>3. CASE ~Quiet /\ heard' = [r EXCEPT !.ok = FALSE] /\ G!Hear /\ UNCHANGED log
  <2>1. [r EXCEPT !.ok = FALSE] \in Packets /\ ~[r EXCEPT !.ok = FALSE].ok
    BY DEF Packets
  <2> QED
    BY <1>3, <2>1 DEF G!Hear
<1> QED
  BY <1>1, <1>2, <1>3 DEF GatewayGets

\* A frame reaches some of the devices, and all of them in a quiet network.
LEMMA ReachFacts ==
  ASSUME NetTypeOK, NEW frame \in Packets \cup Replies, NEW D \in SUBSET Sensors,
         Reach(frame, D)
  PROVE  /\ ear' \in [Sensors -> Packets \cup Replies \cup {NoData}]
         /\ \A d \in Sensors : ear'[d] = ear[d] \/ ear'[d] = frame
         /\ \A d \in Sensors : d \notin D => ear'[d] = ear[d]
         /\ \A d \in D : Quiet => ear'[d] = frame
<1>1. PICK H \in IF Quiet THEN {D} ELSE SUBSET D :
              ear' = [d \in Sensors |-> IF d \in H THEN frame ELSE ear[d]]
  BY DEF Reach
<1>2. ear \in [Sensors -> Packets \cup Replies \cup {NoData}]
  BY DEF NetTypeOK
<1>3. \A d \in H : d \in D
  BY <1>1
<1>4. Quiet => H = D
  BY <1>1
<1> QED
  BY <1>1, <1>2, <1>3, <1>4

\* Serving a reading brings the counts up to the log, and its answer is due.
LEMMA ServeFacts ==
  ASSUME NetInv, G!Serve
  PROVE  /\ heard # NoData /\ heard' = NoData
         /\ answer' = IF heard.ok THEN Due(Len(log)) ELSE NoReading
         /\ answer' \in Replies
         /\ heard.ok => log # <<>> /\ heard = log[Len(log)]
         /\ streak' = [m \in Macs |-> Cardinality(RowIn(log, m, Len(log)))]
<1> USE DEF NetInv, GatewayInv, NetTypeOK
<1>1. CASE G!ServeDamaged
  <2>1. NoReading \in Replies
    BY DEF NoReading, Replies
  <2> QED
    BY <1>1, <2>1 DEF G!ServeDamaged, NoReading, Served
<1>2. CASE G!ServeReading
  <2> DEFINE n == Len(log)
             m == heard.mac
             s == IF heard.valid THEN 0 ELSE streak[m] + 1
  <2>1. heard # NoData /\ heard.ok /\ log # <<>> /\ heard = log[n] /\ Served = n - 1
    BY <1>2 DEF G!ServeReading, Served
  <2>2. n \in 1 .. Len(log) /\ n \in Nat /\ n - 1 \in Nat /\ log[n] \in Packets
    BY <2>1
  <2>3. m \in Macs /\ heard.valid \in BOOLEAN
    BY <2>1, <2>2 DEF Packets
  <2>4. s = Cardinality(RowIn(log, m, n))
    BY <2>1, <2>2, <2>3, RowStep
  <2>5. \A x \in Macs : x # m => Cardinality(RowIn(log, x, n)) = streak[x]
    BY <2>1, <2>2, RowStep
  <2>6. streak' = [streak EXCEPT ![m] = s]
    BY <1>2 DEF G!ServeReading, G!Counted
  <2>7. streak' = [x \in Macs |-> Cardinality(RowIn(log, x, n))]
    BY <2>4, <2>5, <2>6, Zenon
  <2>8. answer' = [ack |-> heard.count, needReboot |-> s > ErrorLimit]
    BY <1>2 DEF G!ServeReading, G!AckOf, G!RebootWish
  <2>9. answer' = DueIn(log, n)
    BY <2>1, <2>4, <2>8, Zenon DEF DueIn
  <2> QED
    BY <1>2, <2>1, <2>2, <2>7, <2>9, DueReply, DueIsDueIn DEF G!ServeReading
<1> QED
  BY <1>1, <1>2 DEF G!Serve

-----------------------------------------------------------------------------
(* NetInv is inductive.                                                     *)

\* Nothing was heard yet.
LEMMA InitNet == Init => NetInv
<1> SUFFICES ASSUME Init PROVE NetInv
  OBVIOUS
<1> USE DEF Init, G!Init
<1>1. NetTypeOK
  BY DEF NetTypeOK
<1>2. \A m : Cardinality(RowIn(log, m, 0)) = 0
  <2>1. \A i \in 1 .. 0 : FALSE
    OBVIOUS
  <2>2. \A m : RowIn(log, m, 0) = {}
    BY <2>1 DEF RowIn
  <2> QED
    BY <2>2, FS_EmptySet
<1>3. GatewayInv
  BY <1>2 DEF GatewayInv, Served, AnswersByHistory
<1>4. DeviceInv
  BY DEF DeviceInv, WereDue, ShownWasDue
<1> QED
  BY <1>1, <1>3, <1>4 DEF NetInv

\* What a device radiates is the whole reading it took.
LEMMA RadiatedFacts ==
  ASSUME NetInv, NEW d \in Sensors, SensorRadiates(d)
  PROVE  /\ pending[d] \in Packets /\ pending[d].ok
         /\ GatewayGets(pending[d]) /\ Reach(pending[d], Listeners \ {d})
         /\ Listeners \ {d} \in SUBSET Sensors
         /\ UNCHANGED <<shown, net, top>>
  BY DEF NetInv, NetTypeOK, DeviceInv, SensorRadiates, Listeners

\* An answer that was due is a reply that acknowledges a count or nothing.
LEMMA WereDueFacts ==
  ASSUME NetTypeOK, NEW x \in WereDue, x # NoData
  PROVE  x \in Replies /\ AsReply(x) = x /\ x.ack \in Counts \cup {-1}
<1>1. NoReading \in Replies /\ NoReading.ack = -1
  BY DEF NoReading, Replies
<1>2. ASSUME NEW n \in 1 .. Len(log), x = Due(n)
      PROVE  x \in Replies /\ x.ack \in Counts
  <2>1. log \in Seq(Packets) /\ log[n] \in Packets
    BY DEF NetTypeOK
  <2>2. log[n].count \in Counts
    BY <2>1 DEF Packets
  <2> QED
    BY <1>2, <2>1, <2>2, DueReply, DueIsDueIn
<1>3. x \in Replies /\ x.ack \in Counts \cup {-1}
  BY <1>1, <1>2 DEF WereDue
<1> QED
  BY <1>3 DEF AsReply

\* Every variable keeps its type: a device takes whole readings, and an ack that
\* it shows is a count or none.
LEMMA TypeNext == NetInv /\ [Next]_vars => NetTypeOK'
<1> SUFFICES ASSUME NetInv, [Next]_vars PROVE NetTypeOK'
  OBVIOUS
<1>0. NetTypeOK /\ DeviceInv
  BY DEF NetInv
<1>1. ASSUME NEW d \in Sensors, Take(d) PROVE NetTypeOK'
  <2>1. After(d, taken[d]) \subseteq Packets
    BY <1>0, ReadingsAssumption DEF NetTypeOK
  <2> QED
    BY <1>0, <1>1, <2>1 DEF Take, gateway, NetTypeOK
<1>2. ASSUME NEW d \in Sensors, SensorRadiates(d) PROVE NetTypeOK'
  <2> DEFINE r == pending[d]
  <2>1. /\ r \in Packets /\ GatewayGets(r)
        /\ Reach(r, Listeners \ {d}) /\ Listeners \ {d} \in SUBSET Sensors
    BY <1>2, RadiatedFacts
  <2> HIDE DEF r
  <2>2. /\ heard' \in Packets \cup {NoData} /\ answer' \in Replies \cup {NoData}
        /\ log' \in Seq(Packets)
    BY <1>0, <2>1, GetsFacts DEF NetTypeOK
  <2>3. ear' \in [Sensors -> Packets \cup Replies \cup {NoData}]
    BY <1>0, <2>1, ReachFacts
  <2> QED
    BY <1>0, <1>2, <2>1, <2>2, <2>3 DEF SensorRadiates, NetTypeOK, r
<1>3. ASSUME NEW d \in Sensors, SensorShows(d) PROVE NetTypeOK'
  <2>1. AsReply(ear[d]) \in Replies \cup {MacTextReply}
    BY DEF AsReply
  <2>2. CASE ear[d] \in Packets
    <3>0. top[d] \in Counts \cup {-1}
      BY <1>0 DEF NetTypeOK
    <3>1. AsReply(ear[d]).ack = -2
      BY <2>2, Disjoint DEF AsReply, MacTextReply, MacText
    <3>2. top[d] \in Nat \cup {-1}
      BY <3>0, MessagesAssumption
    <3>3. ~(AsReply(ear[d]).ack > top[d])
      BY <3>1, <3>2
    <3>4. top' = [top EXCEPT ![d] = top[d]]
      BY <1>3, <3>3, Zenon DEF SensorShows
    <3> QED
      BY <1>0, <1>3, <2>1, <3>0, <3>4 DEF SensorShows, gateway, NetTypeOK
  <2>3. CASE ear[d] \in WereDue
    <3>1. AsReply(ear[d]) = ear[d] /\ ear[d].ack \in Counts \cup {-1}
      BY <1>0, <1>3, <2>3, WereDueFacts DEF SensorShows
    <3> QED
      BY <1>0, <1>3, <2>1, <3>1 DEF SensorShows, gateway, NetTypeOK
  <2> QED
    BY <1>0, <2>2, <2>3 DEF DeviceInv
<1>4. ASSUME NEW d \in Sensors, SensorForgets(d) \/ SensorLoses(d) PROVE NetTypeOK'
  BY <1>0, <1>4 DEF SensorForgets, SensorLoses, gateway, NetTypeOK
<1>5. CASE GatewayServes
  <2>1. G!Serve /\ UNCHANGED <<taken, pending, air, ear, shown, net, log, top>>
    BY <1>5 DEF GatewayServes
  <2> QED
    BY <1>0, <2>1, ServeFacts DEF NetTypeOK
<1>6. CASE GatewayRadiates
  <2>1. /\ G!Radiate /\ Reach(answer, Listeners) /\ Listeners \in SUBSET Sensors
        /\ UNCHANGED <<taken, pending, air, shown, net, log, top>>
    BY <1>6 DEF GatewayRadiates, Listeners
  <2>2. /\ answer \in Replies /\ answer' = NoData /\ heard' = heard
    BY <1>0, <2>1 DEF G!Radiate, NetTypeOK
  <2>3. ear' \in [Sensors -> Packets \cup Replies \cup {NoData}]
    BY <1>0, <2>1, <2>2, ReachFacts
  <2> QED
    BY <1>0, <2>1, <2>2, <2>3 DEF NetTypeOK
<1>7. CASE UNCHANGED vars
  BY <1>0, <1>7 DEF vars, gateway, NetTypeOK
<1> QED
  BY <1>1, <1>2, <1>3, <1>4, <1>5, <1>6, <1>7 DEF Next

\* The gateway's part of the invariant is about the gateway and the log alone.
LEMMA GatewayFrame ==
  ASSUME GatewayInv, UNCHANGED <<heard, answer, streak, log>>
  PROVE  GatewayInv'
  BY DueIsDueIn DEF GatewayInv, Served, AnswersByHistory

\* The gateway's counts follow the log, and its answer is the one that is due.
LEMMA GatewayNext == NetInv /\ [Next]_vars => GatewayInv'
<1> SUFFICES ASSUME NetInv, [Next]_vars PROVE GatewayInv'
  OBVIOUS
<1>0. NetTypeOK /\ GatewayInv
  BY DEF NetInv
<1>1. ASSUME NEW d \in Sensors,
             Take(d) \/ SensorLoses(d) \/ SensorShows(d) \/ SensorForgets(d)
      PROVE  GatewayInv'
  BY <1>0, <1>1, GatewayFrame DEF Take, SensorLoses, SensorShows, SensorForgets, gateway
<1>2. ASSUME NEW d \in Sensors, SensorRadiates(d) PROVE GatewayInv'
  <2> DEFINE r == pending[d]
  <2>1. r \in Packets /\ GatewayGets(r) /\ log \in Seq(Packets)
    BY <1>0, <1>2, RadiatedFacts DEF NetTypeOK
  <2> HIDE DEF r
  <2>2. streak' = streak /\ answer' = answer
    BY <1>0, <2>1, GetsFacts
  <2>3. CASE heard' = heard /\ log' = log
    BY <1>0, <2>2, <2>3, GatewayFrame
  <2>4. CASE heard = NoData /\ answer = NoData /\ heard' = r /\ log' = Append(log, r)
    <3>1. Len(log') = Len(log) + 1 /\ log'[Len(log')] = r /\ log' # <<>>
      BY <2>1, <2>4
    <3>2. CASE r.ok
      <4>1. heard' # NoData /\ Served' = Len(log) /\ Served = Len(log)
        BY <2>1, <2>4, <3>1, <3>2, NoDataAssumption DEF Served
      <4>2. \A m \in Macs : RowIn(log', m, Served') = RowIn(log, m, Served)
        BY <2>1, <2>4, <4>1, RowKept
      <4> QED
        BY <1>0, <2>2, <2>4, <3>1, <4>2 DEF GatewayInv, AnswersByHistory
    <3>3. r.ok
      BY <1>2, RadiatedFacts DEF r
    <3> QED
      BY <3>2, <3>3
  <2>5. CASE heard = NoData /\ answer = NoData /\ heard' \in Packets /\ ~heard'.ok
             /\ log' = log
    <3>1. Served' = Served
      BY <2>5 DEF Served
    <3> QED
      BY <1>0, <2>2, <2>5, <3>1 DEF GatewayInv, AnswersByHistory
  <2> QED
    BY <1>0, <2>1, <2>3, <2>4, <2>5, GetsFacts
<1>3. CASE GatewayServes
  <2>1. G!Serve /\ log' = log
    BY <1>3 DEF GatewayServes
  <2>2. Served' = Len(log)
    BY <2>1, ServeFacts DEF Served
  <2> QED
    BY <1>0, <2>1, <2>2, ServeFacts, DueIsDueIn DEF GatewayInv, AnswersByHistory
<1>4. CASE GatewayRadiates
  <2>1. /\ answer # NoData /\ answer' = NoData /\ heard' = heard
        /\ streak' = streak /\ log' = log
    BY <1>4 DEF GatewayRadiates, G!Radiate
  <2>2. Served' = Served
    BY <2>1 DEF Served
  <2> QED
    BY <1>0, <2>1, <2>2 DEF GatewayInv, AnswersByHistory
<1>5. CASE UNCHANGED vars
  BY <1>0, <1>5, GatewayFrame DEF vars, gateway
<1> QED
  BY <1>1, <1>2, <1>3, <1>4, <1>5 DEF Next

\* What was due stays so, whatever is heard later.
LEMMA DueStays ==
  ASSUME NetTypeOK, NEW x \in WereDue,
         log' = log \/ \E r \in Packets : log' = Append(log, r)
  PROVE  x \in WereDue'
<1>0. log \in Seq(Packets)
  BY DEF NetTypeOK
<1>1. CASE log' = log
  BY <1>1, DueIsDueIn DEF WereDue, NoReading
<1>2. ASSUME NEW r \in Packets, log' = Append(log, r) PROVE x \in WereDue'
  <2>1. Len(log') = Len(log) + 1
    BY <1>0, <1>2
  <2>2. \A n \in 1 .. Len(log) : n \in 1 .. Len(log')
    BY <1>0, <2>1
  <2>3. \A n \in 1 .. Len(log) : Due(n) = Due(n)'
    BY <1>0, <1>2, DueKept, DueIsDueIn
  <2> QED
    BY <2>2, <2>3 DEF WereDue, NoReading
<1> QED
  BY <1>1, <1>2

\* A device hears and shows frames of others and answers that were due.
LEMMA DeviceNext == NetInv /\ [Next]_vars => DeviceInv'
<1> SUFFICES ASSUME NetInv, [Next]_vars PROVE DeviceInv'
  OBVIOUS
<1>0. /\ NetTypeOK /\ GatewayInv
      /\ \A e \in Sensors : /\ pending[e] # NoData => pending[e].ok
                           /\ ear[e] \in WereDue \cup Packets
                           /\ shown[e] \in WereDue \cup {MacTextReply}
  BY DEF NetInv, DeviceInv, ShownWasDue, WereDue
<1> DEFINE Fine(e) == /\ pending'[e] # NoData => pending'[e].ok
                      /\ ear'[e] \in WereDue' \cup Packets
                      /\ shown'[e] \in WereDue' \cup {MacTextReply}
<1>a. SUFFICES \A e \in Sensors : Fine(e)
  BY DEF DeviceInv, ShownWasDue, WereDue
<1>b. ASSUME log' = log PROVE \A x \in WereDue : x \in WereDue'
  BY <1>0, <1>b, DueStays
<1>c. NoData \in WereDue'
  BY DEF WereDue
<1>t. NetTypeOK
  BY <1>0
<1> SUFFICES ASSUME NEW e \in Sensors PROVE Fine(e)
  BY <1>a
<1>1. ASSUME NEW d \in Sensors, Take(d)
      PROVE  pending'[e] # NoData => pending'[e].ok
  <2>1. PICK r \in After(d, taken[d]) : pending' = [pending EXCEPT ![d] = r]
    BY <1>1 DEF Take
  <2>2. r.ok /\ pending \in [Sensors -> Packets \cup {NoData}]
    BY <1>0, ReadingsAssumption DEF NetTypeOK
  <2> QED
    BY <1>0, <2>1, <2>2
<1>2. ASSUME NEW d \in Sensors, Take(d)
      PROVE  /\ ear'[e] \in WereDue' \cup Packets
             /\ shown'[e] \in WereDue' \cup {MacTextReply}
  BY <1>0, <1>b, <1>2 DEF Take
<1>3. ASSUME NEW d \in Sensors, SensorRadiates(d)
      PROVE  Fine(e)
  <2> DEFINE r == pending[d]
  <2>1. /\ r \in Packets /\ GatewayGets(r) /\ shown' = shown
        /\ Reach(r, Listeners \ {d}) /\ Listeners \ {d} \in SUBSET Sensors
    BY <1>3, RadiatedFacts
  <2>2. pending' = [pending EXCEPT ![d] = NoData]
    BY <1>3 DEF SensorRadiates
  <2> HIDE DEF r
  <2>3. \A x \in WereDue : x \in WereDue'
    BY <1>0, <2>1, GetsFacts, DueStays
  <2>4. ear'[e] = ear[e] \/ ear'[e] = r
    BY <1>t, <2>1, ReachFacts
  <2>5. pending'[e] # NoData => pending'[e].ok
    BY <1>0, <2>2 DEF NetTypeOK
  <2> QED
    BY <1>0, <2>1, <2>3, <2>4, <2>5
<1>4. ASSUME NEW d \in Sensors, SensorShows(d)
      PROVE  Fine(e)
  <2>1. /\ pending' = pending /\ log' = log /\ ear[d] # NoData
        /\ ear' = [ear EXCEPT ![d] = NoData]
        /\ shown' = [shown EXCEPT ![d] = AsReply(ear[d])]
    BY <1>4 DEF SensorShows
  <2>2. AsReply(ear[d]) \in WereDue \cup {MacTextReply}
    <3>1. CASE ear[d] \in WereDue
      BY <1>0, <2>1, <3>1, WereDueFacts
    <3>2. CASE ear[d] \in Packets
      BY <3>2, Disjoint DEF AsReply
    <3> QED
      BY <1>0, <3>1, <3>2
  <2>3. ear'[e] = ear[e] \/ ear'[e] = NoData
    BY <1>0, <2>1 DEF NetTypeOK
  <2>4. shown'[e] = shown[e] \/ shown'[e] = AsReply(ear[d])
    BY <1>0, <2>1 DEF NetTypeOK
  <2> QED
    BY <1>0, <1>b, <1>c, <2>1, <2>2, <2>3, <2>4
<1>5. ASSUME NEW d \in Sensors, SensorForgets(d)
      PROVE  Fine(e)
  <2>1. /\ pending' = pending /\ log' = log /\ shown' = shown
        /\ ear' = [ear EXCEPT ![d] = NoData]
    BY <1>5 DEF SensorForgets
  <2>2. ear'[e] = ear[e] \/ ear'[e] = NoData
    BY <1>0, <2>1 DEF NetTypeOK
  <2> QED
    BY <1>0, <1>b, <1>c, <2>1, <2>2
<1>9. ASSUME NEW d \in Sensors, SensorLoses(d)
      PROVE  Fine(e)
  <2>1. /\ pending' = [pending EXCEPT ![d] = NoData]
        /\ UNCHANGED <<ear, shown, log>>
    BY <1>9 DEF SensorLoses
  <2>2. pending'[e] = pending[e] \/ pending'[e] = NoData
    BY <1>0, <2>1 DEF NetTypeOK
  <2> QED
    BY <1>0, <1>b, <2>1, <2>2
<1>6. CASE GatewayServes
  BY <1>0, <1>b, <1>6 DEF GatewayServes
<1>7. CASE GatewayRadiates
  <2>1. /\ answer # NoData /\ answer \in Replies /\ log' = log
        /\ Reach(answer, Listeners) /\ Listeners \in SUBSET Sensors
        /\ pending' = pending /\ shown' = shown
    BY <1>0, <1>7 DEF GatewayRadiates, G!Radiate, Listeners, NetTypeOK
  <2>2. answer \in WereDue
    <3>1. log # <<>> => Len(log) \in 1 .. Len(log)
      BY <1>0 DEF NetTypeOK
    <3> QED
      BY <1>0, <2>1, <3>1 DEF GatewayInv, AnswersByHistory, WereDue
  <2>3. ear'[e] = ear[e] \/ ear'[e] = answer
    BY <1>t, <2>1, ReachFacts
  <2> QED
    BY <1>0, <1>b, <2>1, <2>2, <2>3
<1>8. CASE UNCHANGED vars
  BY <1>0, <1>b, <1>8 DEF vars, gateway
<1> QED
  BY <1>1, <1>2, <1>3, <1>4, <1>5, <1>6, <1>7, <1>8, <1>9 DEF Next

\* NetInv holds in every state.
LEMMA NetInvariant == Spec => []NetInv
<1>1. NetInv /\ [Next]_vars => NetInv'
  BY TypeNext, GatewayNext, DeviceNext DEF NetInv
<1> QED
  BY InitNet, <1>1, PTL DEF Spec

\* The gateway answers a reading by the readings of that sensor it has heard,
\* however many sensors share the channel and whatever it loses or damages
\* (hybrid_gateway.cpp:33-69, 83-100).
THEOREM AnswersFollowHistory == Spec => []AnswersByHistory
<1>1. NetInv => AnswersByHistory
  BY DEF NetInv, GatewayInv
<1> QED
  BY <1>1, NetInvariant, PTL

\* No sensor is ever told of a reboot that nobody had earned, although replies
\* carry no address (lora_sensor.cpp:41-66).
THEOREM ShownOnlyDue == Spec => []ShownWasDue
<1>1. NetInv => ShownWasDue
  BY DEF NetInv, DeviceInv
<1> QED
  BY <1>1, NetInvariant, PTL

-----------------------------------------------------------------------------
(* A quiet network.                                                         *)

\* A device sends readings of its own, and nobody else's.
LEMMA OwnNext == NetInv /\ OwnReadings /\ [Next]_vars => OwnReadings'
<1> SUFFICES ASSUME NetInv, OwnReadings, [Next]_vars PROVE OwnReadings'
  OBVIOUS
<1>0. NetTypeOK
  BY DEF NetInv
<1> DEFINE Own(d, r) == r # NoData => d \in net.devices /\ SentBy(d, r)
<1>1. SUFFICES ASSUME NEW e \in Sensors
               PROVE  net' = net /\ Own(e, pending'[e]) /\ Own(e, air'[e])
  BY DEF OwnReadings, Next, vars, Take, SensorRadiates, SensorLoses, SensorShows,
         SensorForgets, GatewayServes, GatewayRadiates, SentBy
<1>2. Own(e, pending[e]) /\ Own(e, air[e])
  BY DEF OwnReadings
<1>3. ASSUME NEW d \in Sensors, Take(d)
      PROVE  net' = net /\ Own(e, pending'[e]) /\ Own(e, air'[e])
  <2>1. PICK r \in After(d, taken[d]) : pending' = [pending EXCEPT ![d] = r]
    BY <1>3 DEF Take
  <2>2. d \in net.devices /\ SentBy(d, r)
    BY <1>0, <1>3 DEF Take, SentBy, NetTypeOK
  <2> QED
    BY <1>0, <1>2, <1>3, <2>1, <2>2 DEF Take, NetTypeOK
<1>4. ASSUME NEW d \in Sensors, SensorRadiates(d)
      PROVE  net' = net /\ Own(e, pending'[e]) /\ Own(e, air'[e])
  BY <1>0, <1>2, <1>4 DEF SensorRadiates, NetTypeOK
<1>5. CASE UNCHANGED <<net, pending, air>>
  BY <1>2, <1>5
<1>6. ASSUME NEW d \in Sensors, SensorLoses(d)
      PROVE  net' = net /\ Own(e, pending'[e]) /\ Own(e, air'[e])
  BY <1>0, <1>2, <1>6 DEF SensorLoses, NetTypeOK
<1> QED
  BY <1>3, <1>4, <1>5, <1>6
     DEF Next, SensorShows, SensorForgets, GatewayServes, GatewayRadiates, vars

\* No other device of the network sent the reading that d sends.
LEMMA NotAnothers ==
  ASSUME NetInv, OwnReadings, NEW d \in Sensors, NEW e \in Sensors, d # e,
         pending[d] # NoData, air[e] # NoData
  PROVE  air[e] # pending[d]
<1>0. net \in Networks
  BY DEF NetInv, NetTypeOK
<1>1. d \in net.devices /\ e \in net.devices /\ SentBy(d, pending[d]) /\ SentBy(e, air[e])
  BY DEF OwnReadings
<1>2. PICK a \in Packets \cup {NoData} : pending[d] \in After(d, a)
  BY <1>1 DEF SentBy
<1>3. PICK b \in Packets \cup {NoData} : air[e] \in After(e, b)
  BY <1>1 DEF SentBy
<1>4. pending[d].mac # air[e].mac
  BY <1>0, <1>1, <1>2, <1>3, OwnMacAssumption
<1> QED
  BY <1>4

\* A reading is radiated when nothing else is under way: the gateway hears it, and
\* its device still waits for the answer.
LEMMA QuietRadiates ==
  ASSUME NetInv, OwnReadings, QuietInv, Quiet,
         NEW d \in Sensors, SensorRadiates(d)
  PROVE  QuietInv'
<1> DEFINE r == pending[d]
<1>0. NetTypeOK /\ log \in Seq(Packets)
  BY DEF NetInv, NetTypeOK
<1>1. /\ r \in Packets /\ r.ok /\ GatewayGets(r) /\ shown' = shown /\ net' = net
      /\ Reach(r, Listeners \ {d}) /\ Listeners \ {d} \in SUBSET Sensors
  BY RadiatedFacts
<1>2. r # NoData /\ pending' = [pending EXCEPT ![d] = NoData] /\ air' = [air EXCEPT ![d] = r]
  BY DEF SensorRadiates
<1>3. AloneWith(d)
  BY <1>2 DEF QuietInv
<1>4. \A e \in Sensors : pending'[e] = NoData
  BY <1>0, <1>2, <1>3 DEF AloneWith, NetTypeOK
<1>5. \A e \in Sensors \ {d} : air[e] # r
  BY <1>2, NotAnothers
<1> HIDE DEF r
<1>6. ~Lost
  BY <1>3 DEF Lost, AloneWith
<1>7. heard' = r /\ answer' = NoData /\ log' = Append(log, r)
  BY <1>0, <1>1, <1>3, <1>6, GetsFacts DEF AloneWith
<1>8. log' # <<>> /\ log'[Len(log')] = r
  BY <1>0, <1>1, <1>7
<1>9. ear'[d] = ear[d] /\ ear[d] = NoData
  BY <1>0, <1>1, <1>3, ReachFacts DEF AloneWith
<1>10. \A e \in Sensors : air'[e] = r => e = d
  BY <1>0, <1>2, <1>5 DEF NetTypeOK
<1>11. heard'.ok /\ heard' # NoData
  BY <1>1, <1>2, <1>7
<1>12. \A e \in Sensors : OnItsWay(e)'
  BY <1>8, <1>9, <1>10, <1>11 DEF OnItsWay
<1> QED
  BY <1>4, <1>7, <1>11, <1>12 DEF QuietInv

\* In a quiet network the answer to the last reading is on its way until the
\* device was shown it, and only then anybody sends.
LEMMA QuietNext == NetInv /\ OwnReadings /\ QuietInv /\ [Next]_vars => QuietInv'
<1> SUFFICES ASSUME NetInv, OwnReadings, QuietInv, [Next]_vars, Quiet'
             PROVE  QuietInv'
  BY DEF QuietInv
<1>0. NetTypeOK
  BY DEF NetInv
<1>q. Quiet /\ net' = net
  BY DEF Quiet, Next, vars, Take, SensorRadiates, SensorLoses, SensorShows,
         SensorForgets, GatewayServes, GatewayRadiates
<1>i. /\ \A d \in Sensors : pending[d] # NoData => AloneWith(d)
      /\ heard # NoData => heard.ok
      /\ answer # NoData => log # <<>> /\ answer = Due(Len(log))
      /\ \A d \in Sensors : OnItsWay(d)
  BY <1>q DEF QuietInv
<1>d. log' = log => \A n : Due(n)' = Due(n)
  BY DueIsDueIn
<1>1. ASSUME NEW d \in Sensors, Take(d) PROVE QuietInv'
  <2>1. /\ Settled /\ UNCHANGED <<heard, answer, log, air, ear, shown>>
        /\ \E r : pending' = [pending EXCEPT ![d] = r]
    BY <1>q, <1>1 DEF Take, gateway
  <2>2. \A e \in Sensors : pending'[e] # NoData => e = d
    BY <1>0, <2>1 DEF Settled, NetTypeOK
  <2>3. \A e \in Sensors : pending'[e] # NoData => AloneWith(e)'
    BY <2>1, <2>2 DEF Settled, AloneWith
  <2>4. \A e \in Sensors : OnItsWay(e)'
    BY <1>i, <1>d, <2>1 DEF OnItsWay
  <2> QED
    BY <1>i, <1>d, <2>1, <2>3, <2>4 DEF QuietInv
<1>2. ASSUME NEW d \in Sensors, SensorRadiates(d) PROVE QuietInv'
  BY <1>q, <1>2, QuietRadiates
<1>3. ASSUME NEW d \in Sensors, SensorShows(d) PROVE QuietInv'
  <2>1. /\ UNCHANGED <<heard, answer, log, air, pending>> /\ ear[d] # NoData
        /\ ear' = [ear EXCEPT ![d] = NoData]
        /\ shown' = [shown EXCEPT ![d] = AsReply(ear[d])]
    BY <1>3 DEF SensorShows, gateway
  <2>2. \A e \in Sensors : pending'[e] = NoData
    BY <1>i, <2>1 DEF AloneWith
  <2>3. ear'[d] = NoData /\ shown'[d] = AsReply(ear[d])
    BY <1>0, <2>1 DEF NetTypeOK
  <2>4. \A e \in Sensors \ {d} : ear'[e] = ear[e] /\ shown'[e] = shown[e]
    BY <1>0, <2>1 DEF NetTypeOK
  <2>5. ASSUME log # <<>>, ear[d] = Due(Len(log)) PROVE AsReply(ear[d]) = Due(Len(log))
    <3>1. Len(log) \in 1 .. Len(log) /\ log \in Seq(Packets)
      BY <1>0, <2>5 DEF NetTypeOK
    <3> QED
      BY <2>5, <3>1, DueReply, DueIsDueIn DEF AsReply
  <2>6. OnItsWay(d)'
    BY <1>i, <1>d, <2>1, <2>3, <2>5 DEF OnItsWay
  <2>7. \A e \in Sensors \ {d} : OnItsWay(e)'
    BY <1>i, <1>d, <2>1, <2>4 DEF OnItsWay
  <2> QED
    BY <1>i, <1>d, <2>1, <2>2, <2>6, <2>7 DEF QuietInv
<1>4. ASSUME NEW d \in Sensors, SensorForgets(d) \/ SensorLoses(d) PROVE QuietInv'
  BY <1>q, <1>4 DEF SensorForgets, SensorLoses
<1>5. CASE GatewayServes
  <2>1. G!Serve /\ UNCHANGED <<pending, air, ear, shown, log>>
    BY <1>5 DEF GatewayServes
  <2>2. /\ heard # NoData /\ heard' = NoData /\ heard.ok
        /\ log # <<>> /\ answer' = Due(Len(log)) /\ answer' # NoData
    BY <1>i, <2>1, ServeFacts, Disjoint
  <2>3. \A e \in Sensors : pending'[e] = NoData
    BY <1>i, <2>1, <2>2 DEF AloneWith
  <2>4. \A e \in Sensors : OnItsWay(e)'
    BY <1>i, <1>d, <2>1, <2>2 DEF OnItsWay
  <2> QED
    BY <1>d, <2>1, <2>2, <2>3, <2>4 DEF QuietInv
<1>6. CASE GatewayRadiates
  <2>1. /\ answer # NoData /\ answer \in Replies /\ answer' = NoData /\ heard' = heard
        /\ Reach(answer, Listeners) /\ Listeners \in SUBSET Sensors
        /\ UNCHANGED <<pending, air, shown, log>>
    BY <1>0, <1>6 DEF GatewayRadiates, G!Radiate, Listeners, NetTypeOK
  <2>2. heard = NoData
    BY <2>1 DEF NetInv, GatewayInv
  <2>3. \A e \in Sensors : pending'[e] = NoData
    BY <1>i, <2>1 DEF AloneWith
  <2>4. ASSUME NEW e \in Sensors, log # <<>>, air[e] = log[Len(log)]
        PROVE  ear'[e] = Due(Len(log))
    <3>1. ear[e] = NoData
      BY <1>i, <2>1, <2>4 DEF OnItsWay
    <3>2. log[Len(log)] \in Packets
      BY <1>0, <2>4 DEF NetTypeOK
    <3>3. e \in Listeners
      BY <2>4, <3>1, <3>2, NoDataAssumption DEF Listeners
    <3>4. ear'[e] = answer
      BY <1>0, <1>q, <2>1, <3>3, ReachFacts
    <3> QED
      BY <1>i, <2>1, <3>4
  <2>5. \A e \in Sensors : OnItsWay(e)'
    BY <1>d, <2>1, <2>2, <2>4 DEF OnItsWay
  <2> QED
    BY <2>1, <2>2, <2>3, <2>5 DEF QuietInv
<1>7. CASE UNCHANGED vars
  <2>1. UNCHANGED <<pending, air, ear, shown, log, heard, answer>>
    BY <1>7 DEF vars, gateway
  <2> QED
    BY <1>i, <1>d, <2>1 DEF QuietInv, AloneWith, OnItsWay
<1> QED
  BY <1>1, <1>2, <1>3, <1>4, <1>5, <1>6, <1>7 DEF Next

\* In a quiet network the device whose reading was heard last has been shown its
\* answer before anybody sends again, whatever the number of devices
\* (lora_sensor.cpp:94-113).
THEOREM QuietAcknowledges == Spec => []EachAcknowledged
<1>1. Init => OwnReadings /\ QuietInv
  BY DEF Init, G!Init, OwnReadings, QuietInv, OnItsWay
<1>2. OwnReadings /\ QuietInv /\ NetInv /\ [Next]_vars => (OwnReadings /\ QuietInv)'
  BY OwnNext, QuietNext
<1>3. NetInv /\ QuietInv => EachAcknowledged
  <2> SUFFICES ASSUME NetInv, QuietInv, NEW d \in Sensors,
                      Quiet, Settled, log # <<>>, air[d] = log[Len(log)]
               PROVE  shown[d] = Due(Len(log))
    BY DEF EachAcknowledged
  <2>1. OnItsWay(d)
    BY DEF QuietInv
  <2>2. Due(Len(log)) # NoData
    <3>1. Len(log) \in 1 .. Len(log) /\ log \in Seq(Packets)
      BY DEF NetInv, NetTypeOK
    <3> QED
      BY <3>1, DueReply, DueIsDueIn, Disjoint
  <2> QED
    BY <2>1, <2>2 DEF OnItsWay, Settled
<1> QED
  BY <1>1, <1>2, <1>3, NetInvariant, PTL DEF Spec

-----------------------------------------------------------------------------
(* A lone device.                                                           *)

\* The acks of the readings and replies there are, and the highest one shown, are
\* numbers.
LEMMA AcksAreNumbers ==
  ASSUME NetTypeOK, NEW d \in Sensors
  PROVE  /\ \A p \in Packets : p.count \in Nat
         /\ \A p \in Replies : p.ack \in Int /\ (p.ack >= 0 \/ p.ack = -1)
         /\ top[d] \in Int /\ top[d] >= -1
<1>1. top[d] \in Counts \cup {-1}
  BY DEF NetTypeOK
<1>2. \A c \in Counts \cup {-1, 0} : c \in Int /\ (c >= 0 \/ c = -1)
  BY MessagesAssumption
<1>3. \A p \in Packets : p.count \in Nat
  BY MessagesAssumption DEF Packets
<1>4. \A p \in Replies : p.ack \in Counts \cup {-1, 0}
  BY DEF Replies
<1>5. top[d] \in Int /\ top[d] >= -1
  BY <1>1, <1>2
<1> QED
  BY <1>2, <1>3, <1>4, <1>5

\* The lone device takes a reading with a count above that of the last one.
LEMMA LoneTakes ==
  ASSUME NetInv, NEW d \in Sensors, net.devices = {d}, Lone(d), Take(d)
  PROVE  Lone(d)'
<1>0. NetTypeOK
  BY DEF NetInv
<1>1. PICK r \in After(d, taken[d]) : /\ taken' = [taken EXCEPT ![d] = r]
                                     /\ pending' = [pending EXCEPT ![d] = r]
  BY DEF Take
<1>2. UNCHANGED <<heard, answer, air, ear, top>>
  BY DEF Take, gateway
<1>4. /\ taken'[d] = r /\ pending'[d] = r
      /\ \A e \in Sensors \ {d} : pending'[e] = pending[e]
  BY <1>0, <1>1 DEF NetTypeOK
<1>7. r \in Packets /\ r # NoData
  BY <1>0, ReadingsAssumption, NoDataAssumption DEF NetTypeOK
<1>3. ASSUME air[d] # NoData
      PROVE  r.count > air[d].count /\ air[d].count <= r.count
  <2>1. taken[d] \in Packets /\ air[d] \in Packets
    BY <1>0, <1>3 DEF Lone, Latest, NetTypeOK
  <2>2. r.count > taken[d].count
    BY <1>0, <2>1, CountingAssumption DEF NetTypeOK
  <2>3. air[d].count <= taken[d].count
    BY <1>3 DEF Lone, InOrder
  <2>4. r.count \in Nat /\ taken[d].count \in Nat /\ air[d].count \in Nat
    BY <1>0, <1>7, <2>1, AcksAreNumbers
  <2> QED
    BY <2>2, <2>3, <2>4
<1>5. OthersSilent(d)'
  BY <1>2, <1>4 DEF Lone, OthersSilent
<1>6. air[d] # NoData => InOrder(d)'
  BY <1>2, <1>3, <1>4 DEF Lone, InOrder, AfterEar
<1> QED
  BY <1>2, <1>4, <1>5, <1>6, <1>7 DEF Lone, Latest, NothingSent

\* What it radiates comes after all that is on its way back.
LEMMA LoneRadiates ==
  ASSUME NetInv, NEW d \in Sensors, net.devices = {d}, Lone(d), SensorRadiates(d)
  PROVE  Lone(d)'
<1> DEFINE r == pending[d]
<1>0. NetTypeOK
  BY DEF NetInv
<1>1. /\ r \in Packets /\ GatewayGets(r) /\ top' = top
      /\ Reach(r, Listeners \ {d}) /\ Listeners \ {d} \in SUBSET Sensors
  BY RadiatedFacts
<1>2. /\ r # NoData /\ pending' = [pending EXCEPT ![d] = NoData]
      /\ air' = [air EXCEPT ![d] = r] /\ taken' = taken
  BY DEF SensorRadiates
<1>15. r = taken[d]
  BY <1>2 DEF Lone, Latest
<1>3. /\ pending'[d] = NoData /\ air'[d] = r
      /\ \A e \in Sensors \ {d} : pending'[e] = pending[e] /\ air'[e] = air[e]
  BY <1>0, <1>2 DEF NetTypeOK
<1>4. \A e \in Sensors : e \notin Listeners \ {d}
  BY DEF Lone, OthersSilent, Listeners
<1>5. \A e \in Sensors : ear'[e] = ear[e]
  BY <1>0, <1>1, <1>4, ReachFacts
<1>6. OthersSilent(d)'
  BY <1>3, <1>5 DEF Lone, OthersSilent
<1>7. /\ air[d] \in Packets \cup {NoData} /\ heard \in Packets \cup {NoData}
      /\ answer \in Replies \cup {NoData} /\ ear[d] \in Replies \cup {NoData}
  BY <1>0 DEF NetTypeOK, Lone
<1>8. AfterEar(d, r.count) /\ AfterEar(d, r.count + 1)
  <2>1. r.count \in Nat /\ top[d] \in Int /\ (ear[d] # NoData => ear[d].ack \in Int)
    BY <1>0, <1>1, <1>7, AcksAreNumbers
  <2>2. CASE air[d] = NoData
    BY <2>1, <2>2 DEF Lone, NothingSent, AfterEar
  <2>3. CASE air[d] # NoData
    <3>1. air[d].count \in Nat
      BY <1>0, <1>7, <2>3, AcksAreNumbers
    <3>2. r.count > air[d].count /\ AfterEar(d, air[d].count + 1)
      BY <1>2, <2>3 DEF Lone, InOrder
    <3> QED
      BY <2>1, <3>1, <3>2 DEF AfterEar
  <2> QED
    BY <2>2, <2>3
<1>9. ASSUME heard # NoData, heard.ok PROVE heard.count <= r.count /\ AfterEar(d, heard.count)
  <2>1. air[d] # NoData /\ InOrder(d)
    BY <1>9 DEF Lone, NothingSent
  <2>2. heard.count \in Nat /\ air[d].count \in Nat /\ r.count \in Nat
    BY <1>0, <1>1, <1>7, <1>9, <2>1, AcksAreNumbers
  <2> QED
    BY <1>2, <1>9, <2>1, <2>2 DEF InOrder
<1>10. ASSUME answer # NoData, answer.ack >= 0
       PROVE  answer.ack <= r.count /\ AfterEar(d, answer.ack)
  <2>1. air[d] # NoData /\ InOrder(d)
    BY <1>10 DEF Lone, NothingSent
  <2>2. answer.ack \in Int /\ air[d].count \in Nat /\ r.count \in Nat
    BY <1>0, <1>1, <1>7, <1>10, <2>1, AcksAreNumbers
  <2> QED
    BY <1>2, <1>10, <2>1, <2>2 DEF InOrder
<1>11. ear[d] # NoData /\ ear[d].ack >= 0 => ear[d].ack > top[d]
  BY DEF Lone, NothingSent, InOrder
<1>12. /\ answer' = answer
       /\ heard' # NoData /\ heard'.ok => heard' = heard \/ heard' = r
  BY <1>0, <1>1, GetsFacts
<1>13. r.count \in Nat
  BY <1>0, <1>1, AcksAreNumbers
<1> HIDE DEF r
<1>14. InOrder(d)'
  BY <1>1, <1>2, <1>3, <1>5, <1>8, <1>9, <1>10, <1>11, <1>12, <1>13, <1>15
     DEF InOrder, AfterEar
<1> QED
  BY <1>2, <1>3, <1>5, <1>6, <1>7, <1>14, <1>15 DEF Lone, Latest

\* The answer acknowledges the reading that was served, or nothing.
LEMMA LoneServed ==
  ASSUME NetInv, NEW d \in Sensors, net.devices = {d}, Lone(d), GatewayServes
  PROVE  Lone(d)'
<1>1. G!Serve /\ UNCHANGED <<taken, pending, air, ear, top, log>>
  BY DEF GatewayServes
<1>2. /\ heard # NoData /\ heard' = NoData
      /\ answer' = IF heard.ok THEN Due(Len(log)) ELSE NoReading
      /\ heard.ok => log # <<>> /\ heard = log[Len(log)]
  BY <1>1, ServeFacts
<1>3. heard.ok => Due(Len(log)).ack = heard.count
  <2>1. log # <<>> => Len(log) \in 1 .. Len(log) /\ log \in Seq(Packets)
    BY DEF NetInv, NetTypeOK
  <2> QED
    BY <1>2, <2>1, DueReply, DueIsDueIn
<1>4. answer'.ack >= 0 => heard.ok /\ answer'.ack = heard.count
  BY <1>2, <1>3 DEF NoReading
<1>5. air[d] # NoData /\ InOrder(d)
  BY <1>2 DEF Lone, NothingSent
<1>6. InOrder(d)'
  BY <1>1, <1>2, <1>4, <1>5 DEF InOrder, AfterEar
<1> QED
  BY <1>1, <1>5, <1>6 DEF Lone, Latest, OthersSilent

\* The device hears the answer or misses it, and nobody else listens.
LEMMA LoneAnswered ==
  ASSUME NetInv, NEW d \in Sensors, net.devices = {d}, Lone(d), GatewayRadiates
  PROVE  Lone(d)'
<1>0. NetTypeOK
  BY DEF NetInv
<1>1. /\ answer # NoData /\ answer \in Replies /\ answer' = NoData /\ heard' = heard
      /\ Reach(answer, Listeners) /\ Listeners \in SUBSET Sensors
      /\ UNCHANGED <<taken, pending, air, top>>
  BY <1>0 DEF GatewayRadiates, G!Radiate, Listeners, NetTypeOK
<1>2. heard = NoData
  BY <1>1 DEF NetInv, GatewayInv
<1>3. \A e \in Sensors \ {d} : e \notin Listeners
  BY DEF Lone, OthersSilent, Listeners
<1>4. \A e \in Sensors \ {d} : ear'[e] = ear[e]
  BY <1>0, <1>1, <1>3, ReachFacts
<1>5. ear'[d] = ear[d] \/ ear'[d] = answer
  BY <1>0, <1>1, ReachFacts
<1>6. air[d] # NoData /\ InOrder(d)
  BY <1>1 DEF Lone, NothingSent
<1>7. /\ answer.ack \in Int /\ (answer.ack >= 0 \/ answer.ack = -1)
      /\ air[d].count \in Nat /\ top[d] \in Int
  <2>1. air[d] \in Packets
    BY <1>0, <1>6 DEF NetTypeOK
  <2> QED
    BY <1>0, <1>1, <2>1, AcksAreNumbers
<1>8. answer.ack < air[d].count + 1 /\ (answer.ack >= 0 => answer.ack > top[d])
  BY <1>1, <1>6, <1>7 DEF InOrder, AfterEar
<1>9. InOrder(d)'
  BY <1>1, <1>2, <1>5, <1>6, <1>8 DEF InOrder, AfterEar
<1> QED
  BY <1>1, <1>4, <1>5, <1>6, <1>9 DEF Lone, Latest, OthersSilent

\* What the device heard is looked at or forgotten: what is on its way comes later.
LEMMA LoneHeard ==
  ASSUME NetInv, NEW d \in Sensors, net.devices = {d}, Lone(d),
         SensorShows(d) \/ SensorForgets(d)
  PROVE  Lone(d)'
<1>0. NetTypeOK
  BY DEF NetInv
<1>1. /\ ear[d] # NoData /\ ear' = [ear EXCEPT ![d] = NoData]
      /\ UNCHANGED <<heard, answer, taken, pending, air>>
  BY DEF SensorShows, SensorForgets, gateway
<1>2. ear'[d] = NoData /\ \A e \in Sensors \ {d} : ear'[e] = ear[e]
  BY <1>0, <1>1 DEF NetTypeOK
<1>3. ear[d] \in Replies /\ AsReply(ear[d]) = ear[d]
  BY <1>1 DEF Lone, AsReply
<1>4. top'[d] = top[d] \/ top'[d] = ear[d].ack
  <2>1. CASE SensorShows(d)
    <3>1. top' = [top EXCEPT ![d] = IF ear[d].ack > @ THEN ear[d].ack ELSE @]
      BY <1>3, <2>1 DEF SensorShows
    <3> QED
      BY <1>0, <3>1 DEF NetTypeOK
  <2>2. CASE SensorForgets(d)
    BY <2>2 DEF SensorForgets
  <2> QED
    BY <2>1, <2>2
<1>5. air[d] # NoData /\ InOrder(d)
  BY <1>1 DEF Lone, NothingSent
<1>6. \A n : AfterEar(d, n) => AfterEar(d, n)'
  BY <1>1, <1>2, <1>4 DEF AfterEar
<1>7. InOrder(d)'
  BY <1>1, <1>2, <1>4, <1>5 DEF InOrder, AfterEar
<1> QED
  BY <1>1, <1>2, <1>5, <1>7 DEF Lone, Latest, OthersSilent

\* The device gives its reading up: what is on its way back stays in order.
LEMMA LoneLoses ==
  ASSUME NetInv, NEW d \in Sensors, net.devices = {d}, Lone(d), SensorLoses(d)
  PROVE  Lone(d)'
<1>1. /\ pending' = [pending EXCEPT ![d] = NoData]
      /\ UNCHANGED <<heard, answer, taken, air, ear, top>>
  BY DEF SensorLoses, gateway
<1>2. pending'[d] = NoData /\ \A e \in Sensors \ {d} : pending'[e] = pending[e]
  BY <1>1 DEF NetInv, NetTypeOK
<1>3. OthersSilent(d)' /\ Latest(d)'
  BY <1>1, <1>2 DEF Lone, OthersSilent, Latest
<1>4. air[d] # NoData => InOrder(d)'
  BY <1>1, <1>2 DEF Lone, InOrder, AfterEar
<1> QED
  BY <1>1, <1>3, <1>4 DEF Lone, NothingSent

\* On the channel of a lone device the acks stay in order.
LEMMA LoneNext == NetInv /\ LoneInv /\ [Next]_vars => LoneInv'
<1> SUFFICES ASSUME NetInv, LoneInv, [Next]_vars, NEW d \in Sensors, net'.devices = {d}
             PROVE  Lone(d)'
  BY DEF LoneInv
<1>1. net.devices = {d} /\ Lone(d)
  BY DEF LoneInv, Next, vars, Take, SensorRadiates, SensorLoses, SensorShows,
         SensorForgets, GatewayServes, GatewayRadiates
<1>2. ASSUME NEW e \in Sensors,
             \/ Take(e) \/ SensorRadiates(e) \/ SensorLoses(e)
             \/ SensorShows(e) \/ SensorForgets(e)
      PROVE  Lone(d)'
  <2>1. e = d
    BY <1>1, <1>2 DEF Lone, OthersSilent, Take, SensorRadiates, SensorLoses, SensorShows,
                      SensorForgets
  <2> QED
    BY <1>1, <1>2, <2>1, LoneTakes, LoneRadiates, LoneLoses, LoneHeard
<1>3. CASE UNCHANGED vars
  <2>1. UNCHANGED <<taken, pending, air, ear, heard, answer, top>>
    BY <1>3 DEF vars, gateway
  <2> QED
    BY <1>1, <2>1 DEF Lone, Latest, OthersSilent, NothingSent, InOrder, AfterEar
<1> QED
  BY <1>1, <1>2, <1>3, LoneServed, LoneAnswered DEF Next

\* A device that is alone never sees an answer twice or one older than the last,
\* although it sends without waiting and the channel loses and damages frames
\* (lora_sensor.cpp:98-118).
THEOREM LoneAcksInOrder == Spec => AcksInOrder
<1>1. Init => LoneInv
  BY DEF Init, G!Init, LoneInv, Lone, Latest, OthersSilent, NothingSent
<1>2. LoneInv /\ NetInv /\ [Next]_vars => LoneInv'
  BY LoneNext
<1>3. LoneInv => [\A d \in Sensors :
                     net.devices = {d} /\ SensorShows(d) /\ ear[d] \in Replies /\ ear[d].ack >= 0
                     => ear[d].ack > top[d]]_vars
  BY DEF LoneInv, Lone, NothingSent, InOrder, SensorShows
<1> QED
  BY <1>1, <1>2, <1>3, NetInvariant, PTL DEF Spec, AcksInOrder

-----------------------------------------------------------------------------
(* What the channel asks of a sensor.                                       *)

\* Whatever frame is on the air, a device hears it whole, or hears nothing.
LEMMA OthersHear ==
  ASSUME NetTypeOK, NEW frame \in Packets \cup Replies, NEW D \in SUBSET Listeners,
         Reach(frame, D), NEW e \in Sensors,
         taken'[e] = taken[e], pending'[e] = pending[e], air'[e] = air[e],
         shown'[e] = shown[e]
  PROVE  [SS(e)!Next]_(SS(e)!sensor)
<1>1. D \in SUBSET Sensors
  BY DEF Listeners
<1>2. CASE ear'[e] = ear[e]
  BY <1>2 DEF SS!sensor
<1>3. CASE ear'[e] # ear[e]
  <2>1. e \in Listeners /\ ear'[e] = frame
    BY <1>1, <1>3, ReachFacts
  <2>2. SS(e)!Hear
    BY <2>1 DEF Listeners, SS!Hear, SS!Packets, Packets, SS!Replies, Replies
  <2> QED
    BY <2>2 DEF SS!Next
<1> QED
  BY <1>2, <1>3

\* A step of the channel is a step of SensorService for each device, or none.
LEMMA SensorStep ==
  ASSUME NetInv, Next, NEW e \in Sensors
  PROVE  [SS(e)!Next]_(SS(e)!sensor)
<1>0. NetTypeOK
  BY DEF NetInv
<1>1. ASSUME NEW d \in Sensors, Take(d) PROVE [SS(e)!Next]_(SS(e)!sensor)
  <2>1. PICK r \in After(d, taken[d]) : /\ taken' = [taken EXCEPT ![d] = r]
                                       /\ pending' = [pending EXCEPT ![d] = r]
    BY <1>1 DEF Take
  <2>2. pending[d] = NoData /\ UNCHANGED <<air, ear, shown>>
    BY <1>1 DEF Take
  <2>3. r \in Packets
    BY <1>0, ReadingsAssumption DEF NetTypeOK
  <2>4. CASE e = d
    <3>1. taken'[e] = r /\ pending'[e] = r
      BY <1>0, <2>1, <2>4 DEF NetTypeOK
    <3>2. SS(e)!Take
      BY <2>1, <2>2, <2>3, <2>4, <3>1 DEF SS!Take, SS!Packets, Packets, Follows
    <3> QED
      BY <3>2 DEF SS!Next
  <2>5. CASE e # d
    BY <1>0, <2>1, <2>2, <2>5 DEF SS!sensor, NetTypeOK
  <2> QED
    BY <2>4, <2>5
<1>2. ASSUME NEW d \in Sensors, SensorRadiates(d) PROVE [SS(e)!Next]_(SS(e)!sensor)
  <2>1. /\ pending[d] \in Packets /\ Reach(pending[d], Listeners \ {d}) /\ shown' = shown
        /\ taken' = taken
        /\ Listeners \ {d} \in SUBSET Listeners /\ Listeners \ {d} \in SUBSET Sensors
    BY <1>2, RadiatedFacts DEF SensorRadiates
  <2>2. /\ pending[d] # NoData /\ pending' = [pending EXCEPT ![d] = NoData]
        /\ air' = [air EXCEPT ![d] = pending[d]]
    BY <1>2 DEF SensorRadiates
  <2>3. CASE e = d
    <3>1. pending'[e] = NoData /\ air'[e] = pending[e]
      BY <1>0, <2>2, <2>3 DEF NetTypeOK
    <3>2. ear'[e] = ear[e]
      BY <1>0, <2>1, <2>3, ReachFacts
    <3>3. SS(e)!Radiate
      BY <2>1, <2>2, <2>3, <3>1, <3>2 DEF SS!Radiate
    <3> QED
      BY <3>3 DEF SS!Next
  <2>4. CASE e # d
    <3>1. pending'[e] = pending[e] /\ air'[e] = air[e]
      BY <1>0, <2>2, <2>4 DEF NetTypeOK
    <3> QED
      BY <1>0, <2>1, <3>1, OthersHear
  <2> QED
    BY <2>3, <2>4
<1>3. ASSUME NEW d \in Sensors, SensorShows(d) PROVE [SS(e)!Next]_(SS(e)!sensor)
  <2>1. /\ ear[d] # NoData /\ ear' = [ear EXCEPT ![d] = NoData]
        /\ shown' = [shown EXCEPT ![d] = AsReply(ear[d])] /\ UNCHANGED <<taken, pending, air>>
    BY <1>3 DEF SensorShows
  <2>2. CASE e = d
    <3>1. ear'[e] = NoData /\ shown'[e] = AsReply(ear[e])
      BY <1>0, <2>1, <2>2 DEF NetTypeOK
    <3>2. SS(e)!Show
      BY <2>1, <2>2, <3>1
         DEF SS!Show, SS!AsReply, AsReply, SS!Replies, Replies, SS!MacTextReply, MacTextReply,
             SS!MacText, MacText
    <3> QED
      BY <3>2 DEF SS!Next
  <2>3. CASE e # d
    BY <1>0, <2>1, <2>3 DEF SS!sensor, NetTypeOK
  <2> QED
    BY <2>2, <2>3
<1>4. ASSUME NEW d \in Sensors, SensorForgets(d) PROVE [SS(e)!Next]_(SS(e)!sensor)
  <2>1. /\ ear[d] # NoData /\ ear' = [ear EXCEPT ![d] = NoData]
        /\ UNCHANGED <<taken, pending, air, shown>>
    BY <1>4 DEF SensorForgets
  <2>2. CASE e = d
    <3>1. SS(e)!Forget
      BY <1>0, <2>1, <2>2 DEF SS!Forget, NetTypeOK
    <3> QED
      BY <3>1 DEF SS!Next
  <2>3. CASE e # d
    BY <1>0, <2>1, <2>3 DEF SS!sensor, NetTypeOK
  <2> QED
    BY <2>2, <2>3
<1>7. ASSUME NEW d \in Sensors, SensorLoses(d) PROVE [SS(e)!Next]_(SS(e)!sensor)
  <2>1. /\ pending[d] # NoData /\ pending' = [pending EXCEPT ![d] = NoData]
        /\ UNCHANGED <<taken, air, ear, shown>>
    BY <1>7 DEF SensorLoses
  <2>2. CASE e = d
    <3>1. SS(e)!Lose
      BY <1>0, <2>1, <2>2 DEF SS!Lose, NetTypeOK
    <3> QED
      BY <3>1 DEF SS!Next
  <2>3. CASE e # d
    BY <1>0, <2>1, <2>3 DEF SS!sensor, NetTypeOK
  <2> QED
    BY <2>2, <2>3
<1>5. CASE GatewayServes
  BY <1>5 DEF GatewayServes, SS!sensor
<1>6. CASE GatewayRadiates
  <2>1. answer \in Replies /\ Reach(answer, Listeners) /\ UNCHANGED <<taken, pending, air, shown>>
    BY <1>0, <1>6 DEF GatewayRadiates, G!Radiate, NetTypeOK
  <2> QED
    BY <1>0, <2>1, OthersHear
<1> QED
  BY <1>1, <1>2, <1>3, <1>4, <1>5, <1>6, <1>7 DEF Next

\* Each device's part of what happens on the channel is a behaviour of the sensor
\* service, however many devices and networks there are: the channel asks nothing
\* of a sensor that it does not promise (lora_sensor.cpp:94-118).
THEOREM ChannelServesSensors == Spec => SensorsServe
<1>1. Init => \A d \in Sensors : SS(d)!Init
  BY DEF Init, SS!Init
<1>2. NetInv /\ [Next]_vars => [\A d \in Sensors : [SS(d)!Next]_(SS(d)!sensor)]_vars
  BY SensorStep
<1> QED
  BY <1>1, <1>2, NetInvariant, PTL DEF Spec, SensorsServe
=============================================================================
