-------------------------- MODULE EpollServer_proof --------------------------
(***************************************************************************)
(* The loop of both servers, for any number of clients, faults and records: *)
(* its one thread never blocks, every stream is printed as it was sent, an  *)
(* empty record is printed for a reset only, and no connection shifts the   *)
(* records of another.                                                      *)
(*                                                                         *)
(* The streams are concatenations (FlattenSeq), which are recursive; what   *)
(* is needed of them is proved first, by induction over the naturals.       *)
(***************************************************************************)
EXTENDS EpollServer, FiniteSetTheorems, SequenceTheorems, WellFoundedInduction, TLAPS

-----------------------------------------------------------------------------
(* Concatenations.                                                          *)

\* Induction over the naturals, for a set: a least number outside it would not be 0 and
\* would have a predecessor outside it.
LEMMA NatSetInduction ==
  ASSUME NEW S, 0 \in S, \A n \in Nat : n \in S => n + 1 \in S
  PROVE Nat \subseteq S
<1> DEFINE R == {ss \in Nat \X Nat : ss[1] < ss[2]}
<1>1. IsWellFoundedOn(R, Nat)
  BY NatLessThanWellFounded DEF OpToRel
<1>2. SUFFICES ASSUME Nat \ S # {} PROVE FALSE
  OBVIOUS
<1>3. \A x, y \in Nat : x < y => <<x, y>> \in R
  OBVIOUS
<1> HIDE DEF R
<1>4. PICK x \in Nat \ S : \A y \in Nat \ S : <<y, x>> \notin R
  BY <1>1, <1>2, WFMin
<1>5. x \in Nat /\ x # 0
  BY <1>4
<1>6. x - 1 \in Nat /\ x - 1 < x
  BY <1>5
<1>7. x - 1 \in S
  BY <1>3, <1>4, <1>5, <1>6
<1> QED
  BY <1>4, <1>6, <1>7

\* f holds the partial concatenations of seqs.
Concats(f, seqs) == f = [i \in 1 .. Len(seqs) |->
                          IF i = 1 THEN seqs[i] ELSE f[i - 1] \o seqs[i]]

\* Every sequence has its partial concatenations: FlattenSeq is what it says it is.
LEMMA ConcatsExist ==
  ASSUME NEW U, NEW s \in Seq(Seq(U))
  PROVE  \E f : Concats(f, s)
<1> DEFINE Good(n) == \E f : f = [i \in 1 .. n |-> IF i = 1 THEN s[i] ELSE f[i - 1] \o s[i]]
           S == {n \in Nat : Good(n)}
<1>1. 0 \in S
  <2> DEFINE f == [i \in 1 .. 0 |-> s]
  <2>1. f = [i \in 1 .. 0 |-> IF i = 1 THEN s[i] ELSE f[i - 1] \o s[i]]
    OBVIOUS
  <2> QED
    BY <2>1
<1>2. ASSUME NEW n \in Nat, n \in S PROVE n + 1 \in S
  <2>1. PICK g : g = [i \in 1 .. n |-> IF i = 1 THEN s[i] ELSE g[i - 1] \o s[i]]
    BY <1>2
  <2> DEFINE f == [i \in 1 .. n + 1 |-> IF i <= n THEN g[i]
                                         ELSE IF i = 1 THEN s[i] ELSE g[i - 1] \o s[i]]
  <2>2. ASSUME NEW i \in 1 .. n + 1
        PROVE  f[i] = IF i = 1 THEN s[i] ELSE f[i - 1] \o s[i]
    <3>1. CASE i = 1 /\ n = 0
      BY <3>1
    <3>2. CASE i = 1 /\ n # 0
      <4>1. f[i] = g[i] /\ g[i] = s[i]
        BY <2>1, <3>2
      <4> QED
        BY <3>2, <4>1
    <3>3. CASE i # 1
      <4>1. i - 1 \in 1 .. n /\ f[i - 1] = g[i - 1]
        BY <3>3
      <4>2. CASE i <= n
        <5>1. f[i] = g[i]
          BY <4>2
        <5>2. i \in 1 .. n
          BY <4>2
        <5> HIDE DEF f
        <5>3. g[i] = g[i - 1] \o s[i]
          BY <2>1, <3>3, <5>2
        <5> QED
          BY <3>3, <4>1, <5>1, <5>3
      <4>3. CASE ~(i <= n)
        BY <3>3, <4>1, <4>3
      <4> QED
        BY <4>2, <4>3
    <3> QED
      BY <3>1, <3>2, <3>3
  <2>3. f = [i \in 1 .. n + 1 |-> IF i = 1 THEN s[i] ELSE f[i - 1] \o s[i]]
    BY <2>2
  <2>4. Good(n + 1)
    <3> HIDE DEF f
    <3> QED
      BY <2>3
  <2> HIDE DEF Good
  <2> QED
    BY <2>4
<1>3. Nat \subseteq S
  <2> HIDE DEF S
  <2> QED
    BY <1>1, <1>2, NatSetInduction
<1>4. Len(s) \in S
  <2> HIDE DEF S
  <2> QED
    BY <1>3
<1> QED
  BY <1>4 DEF Concats

\* It has no others, so that FlattenSeq is the last of them.
LEMMA ConcatsUnique ==
  ASSUME NEW U, NEW s \in Seq(Seq(U)), NEW f, Concats(f, s)
  PROVE  FlattenSeq(s) = IF s = <<>> THEN <<>> ELSE f[Len(s)]
<1>1. SUFFICES ASSUME s # <<>> PROVE FlattenSeq(s) = f[Len(s)]
  BY DEF FlattenSeq
<1> DEFINE h == CHOOSE h : Concats(h, s)
<1>2. Concats(h, s)
  BY ConcatsExist
<1>3. FlattenSeq(s) = h[Len(s)]
  BY <1>1 DEF FlattenSeq, Concats
<1> HIDE DEF h
<1> DEFINE S == {n \in Nat : n \in 1 .. Len(s) => h[n] = f[n]}
<1>4. 0 \in S
  OBVIOUS
<1>5. ASSUME NEW n \in Nat, n \in S PROVE n + 1 \in S
  <2>1. SUFFICES ASSUME n + 1 \in 1 .. Len(s) PROVE h[n + 1] = f[n + 1]
    OBVIOUS
  <2>2. CASE n = 0
    BY <1>2, <2>1, <2>2 DEF Concats
  <2>3. CASE n # 0
    <3>1. n \in 1 .. Len(s) /\ h[n] = f[n] /\ (n + 1) - 1 = n /\ n + 1 # 1
      BY <1>5, <2>1, <2>3
    <3>2. h[n + 1] = h[n] \o s[n + 1]
      BY <1>2, <2>1, <3>1 DEF Concats
    <3>3. f[n + 1] = f[n] \o s[n + 1]
      BY <2>1, <3>1 DEF Concats
    <3> QED
      BY <3>1, <3>2, <3>3
  <2> QED
    BY <2>2, <2>3
<1>6. Nat \subseteq S
  <2> HIDE DEF S
  <2> QED
    BY <1>4, <1>5, NatSetInduction
<1> QED
  BY <1>1, <1>3, <1>6

\* The partial concatenations, and with them the whole, are sequences over the same set.
LEMMA FlattenType ==
  ASSUME NEW U, NEW s \in Seq(Seq(U)), NEW f, Concats(f, s)
  PROVE  /\ \A n \in 1 .. Len(s) : f[n] \in Seq(U)
         /\ FlattenSeq(s) \in Seq(U)
<1> DEFINE S == {n \in Nat : n \in 1 .. Len(s) => f[n] \in Seq(U)}
<1>1. 0 \in S
  OBVIOUS
<1>2. ASSUME NEW n \in Nat, n \in S PROVE n + 1 \in S
  <2>1. SUFFICES ASSUME n + 1 \in 1 .. Len(s) PROVE f[n + 1] \in Seq(U)
    OBVIOUS
  <2>2. s[n + 1] \in Seq(U)
    BY <2>1
  <2>3. CASE n = 0
    BY <2>1, <2>2, <2>3 DEF Concats
  <2>4. CASE n # 0
    <3>1. n \in 1 .. Len(s) /\ f[n] \in Seq(U) /\ (n + 1) - 1 = n /\ n + 1 # 1
      BY <1>2, <2>1, <2>4
    <3>2. f[n + 1] = f[n] \o s[n + 1]
      BY <2>1, <3>1 DEF Concats
    <3> QED
      BY <2>2, <3>1, <3>2, ConcatProperties
  <2> QED
    BY <2>3, <2>4
<1>3. Nat \subseteq S
  <2> HIDE DEF S
  <2> QED
    BY <1>1, <1>2, NatSetInduction
<1>4. \A n \in 1 .. Len(s) : f[n] \in Seq(U)
  BY <1>3
<1>5. FlattenSeq(s) = IF s = <<>> THEN <<>> ELSE f[Len(s)]
  BY ConcatsUnique
<1> QED
  BY <1>4, <1>5

\* A sequence more appends its elements: a record printed, a segment sent.
LEMMA FlattenAppend ==
  ASSUME NEW U, NEW s \in Seq(Seq(U)), NEW x \in Seq(U)
  PROVE  /\ FlattenSeq(s) \in Seq(U)
         /\ FlattenSeq(Append(s, x)) = FlattenSeq(s) \o x
<1>1. PICK f : Concats(f, s)
  BY ConcatsExist
<1> DEFINE g == [i \in 1 .. Len(s) + 1 |-> IF i <= Len(s) THEN f[i] ELSE FlattenSeq(s) \o x]
           t == Append(s, x)
<1>2. FlattenSeq(s) = IF s = <<>> THEN <<>> ELSE f[Len(s)]
  BY <1>1, ConcatsUnique
<1>3. FlattenSeq(s) \in Seq(U)
  BY <1>1, FlattenType
<1>4. /\ t \in Seq(Seq(U)) /\ Len(t) = Len(s) + 1 /\ t # <<>>
      /\ (\A i \in 1 .. Len(s) : t[i] = s[i]) /\ t[Len(s) + 1] = x
  <2> HIDE DEF g
  <2>1. t \in Seq(Seq(U)) /\ Len(t) = Len(s) + 1
    OBVIOUS
  <2>2. t # <<>>
    <3> HIDE DEF t
    <3> QED
      BY <2>1
  <2>3. \A i \in 1 .. Len(s) : t[i] = s[i]
    OBVIOUS
  <2>4. t[Len(s) + 1] = x
    OBVIOUS
  <2> QED
    BY <2>1, <2>2, <2>3, <2>4
<1>5. \A i \in 1 .. Len(s) : g[i] = f[i]
  OBVIOUS
<1>6. g[Len(s) + 1] = FlattenSeq(s) \o x
  OBVIOUS
<1>7. g = [i \in 1 .. Len(t) |-> g[i]]
  BY <1>4
<1> HIDE DEF g, t
<1>8. ASSUME NEW i \in 1 .. Len(t) PROVE g[i] = IF i = 1 THEN t[i] ELSE g[i - 1] \o t[i]
  <2>1. CASE i <= Len(s) /\ i = 1
    BY <1>1, <1>4, <1>5, <2>1 DEF Concats
  <2>2. CASE i <= Len(s) /\ i # 1
    <3>1. i \in 1 .. Len(s) /\ i - 1 \in 1 .. Len(s)
      BY <1>4, <2>2
    <3>2. f[i] = f[i - 1] \o s[i]
      BY <1>1, <2>2, <3>1 DEF Concats
    <3> QED
      BY <1>4, <1>5, <2>2, <3>1, <3>2
  <2>3. CASE i = Len(s) + 1 /\ s = <<>>
    <3>1. <<>> \o x = x
      BY ConcatEmptySeq
    <3> QED
      BY <1>2, <1>4, <1>6, <2>3, <3>1
  <2>4. CASE i = Len(s) + 1 /\ s # <<>>
    <3>1. Len(s) \in 1 .. Len(s) /\ i - 1 = Len(s) /\ i # 1
      BY <2>4
    <3> QED
      BY <1>2, <1>4, <1>5, <1>6, <2>4, <3>1
  <2> QED
    BY <1>4, <2>1, <2>2, <2>3, <2>4
<1>9. Concats(g, t)
  BY <1>7, <1>8 DEF Concats
<1>10. FlattenSeq(t) = g[Len(t)]
  BY <1>4, <1>9, ConcatsUnique
<1> QED
  BY <1>3, <1>4, <1>6, <1>10 DEF t

\* The whole is the first sequence and the rest: a segment that arrives.
LEMMA FlattenHead ==
  ASSUME NEW U, NEW s \in Seq(Seq(U)), s # <<>>
  PROVE  FlattenSeq(s) = Head(s) \o FlattenSeq(Tail(s))
<1> DEFINE t == Tail(s)
<1>1. t \in Seq(Seq(U)) /\ Len(t) = Len(s) - 1 /\ \A i \in 1 .. Len(t) : t[i] = s[i + 1]
  BY HeadTailProperties
<1>2. Head(s) = s[1] /\ s[1] \in Seq(U) /\ Len(s) \in Nat \ {0}
  OBVIOUS
<1> HIDE DEF t
<1>3. PICK f : Concats(f, s)
  BY ConcatsExist
<1>4. PICK g : Concats(g, t)
  BY <1>1, ConcatsExist
<1>5. \A n \in 1 .. Len(t) : g[n] \in Seq(U)
  BY <1>1, <1>4, FlattenType
<1>6. FlattenSeq(s) = f[Len(s)]
  BY <1>3, ConcatsUnique
<1>7. FlattenSeq(t) = IF t = <<>> THEN <<>> ELSE g[Len(t)]
  BY <1>1, <1>4, ConcatsUnique
<1>8. f[1] = s[1]
  BY <1>2, <1>3 DEF Concats
<1> DEFINE Good(n) == n \in 1 .. Len(t) => f[n + 1] = s[1] \o g[n]
           S == {n \in Nat : Good(n)}
<1>9. 0 \in S
  OBVIOUS
<1>10. ASSUME NEW n \in Nat, n \in S PROVE n + 1 \in S
  <2>0. Good(n) /\ n + 1 \in Nat
    <3> HIDE DEF Good
    <3> QED
      BY <1>10
  <2> SUFFICES Good(n + 1)
    <3> HIDE DEF Good
    <3> QED
      BY <2>0
  <2>1. SUFFICES ASSUME n + 1 \in 1 .. Len(t) PROVE f[(n + 1) + 1] = s[1] \o g[n + 1]
    OBVIOUS
  <2> HIDE DEF S
  <2>2. /\ (n + 1) + 1 \in 1 .. Len(s) /\ ((n + 1) + 1) - 1 = n + 1 /\ (n + 1) + 1 # 1
        /\ t[n + 1] = s[(n + 1) + 1]
    BY <1>1, <2>1
  <2>3. f[(n + 1) + 1] = f[n + 1] \o s[(n + 1) + 1]
    BY <1>3, <2>2 DEF Concats
  <2>4. CASE n = 0
    <3>1. g[n + 1] = t[n + 1] /\ n + 1 = 1
      BY <1>4, <2>1, <2>4 DEF Concats
    <3> QED
      BY <1>8, <2>2, <2>3, <2>4, <3>1
  <2>5. CASE n # 0
    <3>1. n \in 1 .. Len(t) /\ (n + 1) - 1 = n /\ n + 1 # 1
      BY <2>1, <2>5
    <3>2. f[n + 1] = s[1] \o g[n]
      BY <2>0, <3>1
    <3>3. g[n + 1] = g[n] \o t[n + 1]
      BY <1>4, <2>1, <3>1 DEF Concats
    <3>4. g[n] \in Seq(U) /\ t[n + 1] \in Seq(U) /\ s[1] \in Seq(U)
      BY <1>1, <1>2, <1>5, <2>1, <3>1
    <3>5. PICK a \in Seq(U), b \in Seq(U), c \in Seq(U) : a = s[1] /\ b = g[n] /\ c = t[n + 1]
      BY <3>4
    <3>6. (a \o b) \o c = a \o (b \o c)
      BY ConcatAssociative
    <3> QED
      BY <2>2, <2>3, <3>2, <3>3, <3>5, <3>6
  <2> QED
    BY <2>4, <2>5
<1>11. Nat \subseteq S
  <2> HIDE DEF S
  <2> QED
    BY <1>9, <1>10, NatSetInduction
<1>12. CASE t = <<>>
  <2>1. Len(s) = 1
    BY <1>1, <1>2, <1>12
  <2>2. s[1] \o <<>> = s[1]
    BY <1>2, ConcatEmptySeq
  <2> QED
    BY <1>2, <1>6, <1>7, <1>8, <1>12, <2>1, <2>2 DEF t
<1>13. CASE t # <<>>
  <2>1. Len(t) \in 1 .. Len(t) /\ Len(t) + 1 = Len(s)
    BY <1>1, <1>2, <1>13
  <2>2. Len(t) \in S
    <3> HIDE DEF S
    <3> QED
      BY <1>1, <1>11
  <2>3. f[Len(t) + 1] = s[1] \o g[Len(t)]
    BY <2>1, <2>2
  <2> QED
    BY <1>2, <1>6, <1>7, <1>13, <2>1, <2>3 DEF t
<1> QED
  BY <1>12, <1>13

-----------------------------------------------------------------------------
(* What the steps do to a stream.                                           *)

\* Concatenation is associative.
LEMMA Concat3 == \A a, b, c \in Seq(Part) : (a \o b) \o c = a \o (b \o c)
BY ConcatAssociative

\* A segment that arrives moves from the network to the socket.
LEMMA ArriveMoves ==
  ASSUME NEW p \in Seq(Part), NEW w \in Seq(Part), NEW fl \in Seq(Seq(Part)), fl # <<>>
  PROVE  p \o (w \o Head(fl)) \o FlattenSeq(Tail(fl)) = p \o w \o FlattenSeq(fl)
<1> DEFINE h == Head(fl)  f == FlattenSeq(Tail(fl))
<1>1. h \in Seq(Part) /\ Tail(fl) \in Seq(Seq(Part))
  BY HeadTailProperties
<1>2. f \in Seq(Part)
  <2>1. <<>> \in Seq(Part)
    OBVIOUS
  <2> QED
    BY <1>1, <2>1, FlattenAppend
<1>3. FlattenSeq(fl) = h \o f
  BY FlattenHead
<1> HIDE DEF h, f
<1>4. p \o w \in Seq(Part)
  BY ConcatProperties
<1>5. (p \o w) \o h = p \o (w \o h)
  BY <1>1, Concat3, Zenon
<1>6. ((p \o w) \o h) \o f = (p \o w) \o (h \o f)
  BY <1>1, <1>2, <1>4, Concat3, Zenon
<1> QED
  BY <1>3, <1>5, <1>6, Zenon DEF h, f

\* What a read takes from the socket is printed, the rest stays.
LEMMA ReadMoves ==
  ASSUME NEW pr \in Seq(Seq(Part)), NEW w \in Seq(Part), NEW n \in 1 .. Len(w)
  PROVE  /\ SubSeq(w, 1, n) \in Seq(Part) /\ SubSeq(w, 1, n) # <<>>
         /\ SubSeq(w, n + 1, Len(w)) \in Seq(Part)
         /\ FlattenSeq(Append(pr, SubSeq(w, 1, n))) \o SubSeq(w, n + 1, Len(w))
               = FlattenSeq(pr) \o w
<1>1. PICK a \in Seq(Part) : a = SubSeq(w, 1, n) /\ Len(a) = n /\ \A k \in 1 .. n : a[k] = w[k]
  <2>1. /\ SubSeq(w, 1, n) \in Seq(Part)
        /\ Len(SubSeq(w, 1, n)) = n
        /\ \A k \in 1 .. n - 1 + 1 : SubSeq(w, 1, n)[k] = w[1 + k - 1]
    BY SubSeqProperties
  <2>2. \A k \in 1 .. n : SubSeq(w, 1, n)[k] = w[k]
    BY <2>1
  <2> QED
    BY <2>1, <2>2
<1>2. PICK b \in Seq(Part) : /\ b = SubSeq(w, n + 1, Len(w)) /\ Len(b) = Len(w) - n
                          /\ \A k \in 1 .. Len(w) - n : b[k] = w[n + k]
  <2>1. /\ SubSeq(w, n + 1, Len(w)) \in Seq(Part)
        /\ Len(SubSeq(w, n + 1, Len(w))) = Len(w) - n
        /\ \A k \in 1 .. Len(w) - (n + 1) + 1 : SubSeq(w, n + 1, Len(w))[k] = w[(n + 1) + k - 1]
    BY SubSeqProperties
  <2>2. \A k \in 1 .. Len(w) - n : SubSeq(w, n + 1, Len(w))[k] = w[n + k]
    BY <2>1
  <2> QED
    BY <2>1, <2>2
<1>3. a \o b = w
  <2>1. a \o b \in Seq(Part) /\ Len(a \o b) = Len(w)
    BY <1>1, <1>2, ConcatProperties
  <2>2. \A k \in 1 .. Len(w) : (a \o b)[k] = w[k]
    BY <1>1, <1>2
  <2> QED
    BY <2>1, <2>2, SeqEqual
<1>4. PICK p \in Seq(Part) : p = FlattenSeq(pr) /\ FlattenSeq(Append(pr, a)) = p \o a
  BY <1>1, FlattenAppend
<1>5. (p \o a) \o b = p \o (a \o b)
  BY <1>1, <1>2, <1>4, Concat3, Zenon
<1>6. a # <<>>
  <2>1. Len(a) # 0
    BY <1>1
  <2>2. Len(<<>>) = 0
    OBVIOUS
  <2> QED
    BY <2>1, <2>2, Zenon
<1> QED
  BY <1>1, <1>2, <1>3, <1>4, <1>5, <1>6

\* A record joins the stream, whether it leaves in one segment or in two.
LEMMA WriteMoves ==
  ASSUME NEW n \in 0 .. MaxRecords - 1, NEW c \in Clients, NEW fl \in Seq(Seq(Part)),
         NEW segments \in Segmentations(c, RecordOf(c, n + 1))
  PROVE  /\ fl \o segments \in Seq(Seq(Part))
         /\ FlattenSeq(fl \o segments) = FlattenSeq(fl) \o RecordOf(c, n + 1)
<1> DEFINE r == RecordOf(c, n + 1)  a == << <<n + 1, 1>> >>  b == << <<n + 1, 2>> >>
<1>1. <<n + 1, 1>> \in Part /\ <<n + 1, 2>> \in Part
  BY ServerAssumption DEF Part
<1>2. a \in Seq(Part) /\ b \in Seq(Part) /\ r \in Seq(Part) /\ r = a \o b
  BY <1>1 DEF RecordOf
<1>3. segments = <<r>> \/ segments = <<a, b>>
  BY DEF Segmentations, RecordOf
<1> HIDE DEF r, a, b
<1>4. CASE segments = <<r>>
  <2>1. fl \o segments = Append(fl, r)
    BY <1>2, <1>4
  <2> QED
    BY <1>2, <2>1, FlattenAppend DEF r
<1>5. CASE segments = <<a, b>>
  <2>1. fl \o segments = Append(Append(fl, a), b) /\ Append(fl, a) \in Seq(Seq(Part))
    BY <1>2, <1>5
  <2>2. PICK f \in Seq(Part) : f = FlattenSeq(fl) /\ FlattenSeq(Append(fl, a)) = f \o a
    BY <1>2, FlattenAppend
  <2>3. FlattenSeq(Append(Append(fl, a), b)) = (f \o a) \o b
    BY <1>2, <2>1, <2>2, FlattenAppend
  <2>4. (f \o a) \o b = f \o (a \o b)
    BY <1>2, Concat3
  <2>5. fl \o segments \in Seq(Seq(Part))
    BY <1>2, <2>1
  <2>6. FlattenSeq(fl \o segments) = f \o r
    BY <1>2, <2>1, <2>3, <2>4
  <2> QED
    BY <2>2, <2>5, <2>6 DEF r
<1> QED
  BY <1>3, <1>4, <1>5

\* The end of a stream, or a reset, adds nothing to it.
LEMMA FlattenEmpty ==
  /\ FlattenSeq(<<>>) = <<>>
  /\ \A s \in Seq(Seq(Part)) : /\ FlattenSeq(s) \in Seq(Part)
                              /\ FlattenSeq(Append(s, <<>>)) = FlattenSeq(s)
<1>1. FlattenSeq(<<>>) = <<>>
  BY DEF FlattenSeq
<1>2. ASSUME NEW s \in Seq(Seq(Part))
      PROVE  FlattenSeq(s) \in Seq(Part) /\ FlattenSeq(Append(s, <<>>)) = FlattenSeq(s)
  <2>1. <<>> \in Seq(Part)
    OBVIOUS
  <2>2. PICK p \in Seq(Part) : p = FlattenSeq(s) /\ FlattenSeq(Append(s, <<>>)) = p \o <<>>
    BY <2>1, FlattenAppend
  <2>3. p \o <<>> = p
    BY ConcatEmptySeq
  <2> QED
    BY <2>2, <2>3, Zenon
<1> QED
  BY <1>1, <1>2

\* What came before a part that is lost is a prefix of the whole.
LEMMA PrefixOfConcat == \A a, b \in Seq(Part) : IsPrefix(a, a \o b)
<1>1. SUFFICES ASSUME NEW a \in Seq(Part), NEW b \in Seq(Part) PROVE IsPrefix(a, a \o b)
  OBVIOUS
<1> DEFINE t == a \o b
<1>2. t \in Seq(Part) /\ Len(a) <= Len(t) /\ \A i \in 1 .. Len(a) : t[i] = a[i]
  BY ConcatProperties
<1> HIDE DEF t
<1>3. SubSeq(a, 1, Len(a)) = SubSeq(t, 1, Len(a))
  <2>1. \A i \in 1 .. Len(a) : a[i] \in Part /\ t[i] \in Part
    BY <1>2
  <2>2. /\ SubSeq(a, 1, Len(a)) \in Seq(Part) /\ Len(SubSeq(a, 1, Len(a))) = Len(a)
        /\ \A i \in 1 .. Len(a) : SubSeq(a, 1, Len(a))[i] = a[i]
    BY <2>1, SubSeqProperties
  <2>3. /\ SubSeq(t, 1, Len(a)) \in Seq(Part) /\ Len(SubSeq(t, 1, Len(a))) = Len(a)
        /\ \A i \in 1 .. Len(a) : SubSeq(t, 1, Len(a))[i] = t[i]
    BY <2>1, SubSeqProperties
  <2> QED
    BY <1>2, <2>2, <2>3, SeqEqual
<1> QED
  BY <1>2, <1>3 DEF IsPrefix, t

\* No segment of a record is empty: the empty one is the end of the stream.
LEMMA SegmentsFull ==
  ASSUME NEW n \in 0 .. MaxRecords - 1, NEW c \in Clients,
         NEW segments \in Segmentations(c, RecordOf(c, n + 1))
  PROVE  /\ segments \in Seq(Seq(Part))
         /\ \A i \in 1 .. Len(segments) : segments[i] # <<>>
<1> DEFINE r == RecordOf(c, n + 1)  a == << <<n + 1, 1>> >>  b == << <<n + 1, 2>> >>
<1>1. <<n + 1, 1>> \in Part /\ <<n + 1, 2>> \in Part
  BY ServerAssumption DEF Part
<1>2. a \in Seq(Part) /\ b \in Seq(Part) /\ r \in Seq(Part)
  BY <1>1 DEF RecordOf
<1>3. Len(a) # Len(<<>>) /\ Len(b) # Len(<<>>) /\ Len(r) # Len(<<>>)
  BY DEF RecordOf
<1>5. segments = <<r>> \/ segments = <<a, b>>
  BY DEF Segmentations, RecordOf
<1> HIDE DEF r, a, b
<1>6. a # <<>> /\ b # <<>> /\ r # <<>>
  BY <1>3, Zenon
<1>7. CASE segments = <<r>>
  <2>1. segments \in Seq(Seq(Part)) /\ Len(segments) = 1 /\ segments[1] = r
    BY <1>2, <1>7
  <2> QED
    BY <1>6, <2>1
<1>8. CASE segments = <<a, b>>
  <2>1. /\ segments \in Seq(Seq(Part)) /\ Len(segments) = 2
        /\ segments[1] = a /\ segments[2] = b
    BY <1>2, <1>8
  <2>2. \A i \in 1 .. 2 : i = 1 \/ i = 2
    OBVIOUS
  <2> QED
    BY <1>6, <2>1, <2>2
<1> QED
  BY <1>5, <1>7, <1>8

\* The stream of n + 1 records is that of n and one more.
LEMMA StreamNext ==
  ASSUME NEW c \in Clients, NEW n \in 0 .. MaxRecords
  PROVE  /\ Stream(c, n) \in Seq(Part)
         /\ n < MaxRecords => Stream(c, n + 1) = Stream(c, n) \o RecordOf(c, n + 1)
<1> DEFINE s(m) == [i \in 1 .. m |-> RecordOf(c, i)]
<1>1. \A i \in 1 .. MaxRecords : RecordOf(c, i) \in Seq(Part)
  BY DEF RecordOf, Part
<1>2. MaxRecords \in Nat
  BY ServerAssumption
<1>3. \A m \in 0 .. MaxRecords : s(m) \in Seq(Seq(Part))
  BY <1>1, <1>2
<1>4. ASSUME n < MaxRecords PROVE s(n + 1) = Append(s(n), RecordOf(c, n + 1))
  BY <1>1, <1>2, <1>4
<1>5. Stream(c, n) = FlattenSeq(s(n)) /\ Stream(c, n + 1) = FlattenSeq(s(n + 1))
  BY DEF Stream
<1>6. <<>> \in Seq(Part)
  OBVIOUS
<1> HIDE DEF s
<1>7. Stream(c, n) \in Seq(Part)
  BY <1>2, <1>3, <1>5, <1>6, FlattenAppend
<1>8. ASSUME n < MaxRecords PROVE Stream(c, n + 1) = Stream(c, n) \o RecordOf(c, n + 1)
  <2>1. s(n) \in Seq(Seq(Part)) /\ RecordOf(c, n + 1) \in Seq(Part)
    BY <1>1, <1>2, <1>3, <1>8
  <2> QED
    BY <1>4, <1>5, <1>8, <2>1, FlattenAppend
<1> QED
  BY <1>7, <1>8

-----------------------------------------------------------------------------
(* The invariant.                                                           *)

\* A client and its connection: what is empty before it connects, after it broke and
\* where the network has nothing more for it.
ConnOf(c) ==
    /\ client[c] = "new" => /\ conn[c] = "none" /\ sent[c] = 0
                            /\ flight[c] = <<>> /\ wire[c] = <<>> /\ printed[c] = <<>>
    /\ client[c] \in {"new", "connected"} => over[c] = "no"
    /\ over[c] \in {"rst", "rst_seen"} => client[c] = "gone" /\ flight[c] = <<>>
    /\ over[c] = "rst_seen" => wire[c] = <<>>
    /\ \A i \in 1 .. Len(flight[c]) :
          flight[c][i] = <<>> => client[c] = "gone" /\ i = Len(flight[c])

ConnInv == \A c \in Clients : ConnOf(c)

\* An event is in the batch once, and still to be had.
BatchInv ==
    server # "none" =>
        /\ \A i \in 1 .. Len(batch) : batch[i] \in Ready
        /\ \A i, j \in 1 .. Len(batch) : batch[i] = batch[j] => i = j

\* k whole records w, from the record n + 1 on.
WholeFrom(w, n, k) ==
    /\ Len(w) = 2 * k
    /\ \A j \in 1 .. k : w[2 * j - 1] = <<n + j, 1>> /\ w[2 * j] = <<n + j, 2>>

\* A connection whose records arrive whole, at the server that reads one by one: as many
\* are printed, wait in the socket and are under way as were sent, in this order.
InStepOf(c) ==
    LET p == Len(printed[c])
    IN  /\ \A i \in 1 .. p : printed[c][i] \in {<<>>, RecordOf(c, i)}
        /\ \E k \in Nat :
              /\ WholeFrom(wire[c], p, k)
              /\ \A i \in 1 .. Len(flight[c]) : flight[c][i] \in {<<>>, RecordOf(c, p + k + i)}
              /\ client[c] = "connected" => sent[c] = p + k + Len(flight[c])

StepInv == server = "public" => \A c \in Clients \ Cut : InStepOf(c)

\* StreamKept and GhostsAreResets, for one connection.
StreamOf(c) ==
    LET got == FlattenSeq(printed[c]) \o wire[c] \o FlattenSeq(flight[c])
    IN  IF over[c] \in {"rst", "rst_seen"}
        THEN IsPrefix(got, Stream(c, sent[c]))
        ELSE got = Stream(c, sent[c])

GhostsOf(c) ==
    \A i \in 1 .. Len(printed[c]) :
        printed[c][i] = <<>> => over[c] = "rst_seen" /\ i = Len(printed[c])

IInv == TypeOK /\ ConnInv /\ BatchInv /\ StreamKept /\ GhostsAreResets /\ StepInv

\* Both properties are about one connection at a time.
LEMMA ByConnection == /\ StreamKept <=> \A c \in Clients : StreamOf(c)
                      /\ GhostsAreResets <=> \A c \in Clients : GhostsOf(c)
BY DEF StreamKept, GhostsAreResets, StreamOf, GhostsOf

\* Nothing happens to connection d.
Untouched(d) ==
    /\ client'[d] = client[d] /\ sent'[d] = sent[d] /\ flight'[d] = flight[d]
    /\ wire'[d] = wire[d] /\ over'[d] = over[d] /\ printed'[d] = printed[d]
    /\ conn[d] = "none" => conn'[d] = "none"

\* A connection to which nothing happens keeps all that is said of it.
LEMMA UntouchedKept ==
  ASSUME NEW d \in Clients, Untouched(d)
  PROVE  /\ ConnOf(d) => ConnOf(d)'
         /\ StreamOf(d) => StreamOf(d)'
         /\ GhostsOf(d) => GhostsOf(d)'
         /\ InStepOf(d) => InStepOf(d)'
<1>1. ConnOf(d) => ConnOf(d)'
  BY DEF Untouched, ConnOf
<1>2. StreamOf(d) => StreamOf(d)'
  BY DEF Untouched, StreamOf
<1>3. GhostsOf(d) => GhostsOf(d)'
  BY DEF Untouched, GhostsOf
<1>4. InStepOf(d) => InStepOf(d)'
  BY DEF Untouched, InStepOf
<1> QED
  BY <1>1, <1>2, <1>3, <1>4

USE ServerAssumption

\* How many parts one read of the running server takes.
PartsOf(program) == IF program = "public" THEN RecordParts ELSE DataParts

\* The steps of the system, one by one; those of the loop are the running server's.
LEMMA Steps ==
  ASSUME Next
  PROVE  \/ \E c \in Clients : \/ Connect(c) \/ WriteRecord(c) \/ Quit(c) \/ Reset(c)
                               \/ Vanish(c) \/ Arrive(c)
         \/ EpollWait \/ EpollWaitFails \/ Accept \/ AcceptUnregistered \/ AcceptFails
         \/ \E c \in Clients : Read(c, PartsOf(server))
BY Zenon DEF Next, Network, ClientStep, Server, PublicServer, startEpollWait, EventLoop,
             PartsOf

\* RecordOf and PartsOf have the types that the steps need.
LEMMA RecordType == \A c \in Clients, n \in 1 .. MaxRecords : RecordOf(c, n) \in Seq(Part)
BY DEF RecordOf, Part

\* A read takes something.
LEMMA PartsType == PartsOf(server) \in Nat \ {0}
BY DEF PartsOf, RecordParts, DataParts

\* Every step keeps the types.
LEMMA TypeStep == TypeOK /\ [Next]_vars => TypeOK'
<1> SUFFICES ASSUME TypeOK, [Next]_vars PROVE TypeOK'
  OBVIOUS
<1>1. CASE UNCHANGED vars
  BY <1>1 DEF TypeOK, vars, netVars
<1>2. ASSUME NEW c \in Clients, Connect(c) PROVE TypeOK'
  <2>0. PICK x \in {"connected", "stdout"} : client' = [client EXCEPT ![c] = x]
    BY <1>2 DEF Connect
  <2>1. client' \in [Clients -> {"new", "connected", "stdout", "gone"}]
    BY <2>0 DEF TypeOK
  <2>2. conn' \in [Clients -> {"none", "backlog", "open", "closed", "refused"}]
    BY <1>2 DEF TypeOK, Connect
  <2> QED
    BY <1>2, <2>1, <2>2 DEF TypeOK, Connect
<1>3. ASSUME NEW c \in Clients, WriteRecord(c) PROVE TypeOK'
  <2>1. sent[c] \in 0 .. MaxRecords - 1 /\ sent[c] + 1 \in 0 .. MaxRecords
    BY <1>3 DEF TypeOK, WriteRecord
  <2>2. PICK segments \in Segmentations(c, RecordOf(c, sent[c] + 1)) :
           flight' = [flight EXCEPT ![c] = @ \o segments]
    BY <1>3 DEF WriteRecord
  <2>3. flight[c] \o segments \in Seq(Seq(Part))
    BY <2>1, WriteMoves DEF TypeOK
  <2>4. flight' \in [Clients -> Seq(Seq(Part))]
    BY <2>2, <2>3 DEF TypeOK
  <2>5. sent' \in [Clients -> 0 .. MaxRecords]
    BY <1>3, <2>1 DEF TypeOK, WriteRecord
  <2> QED
    BY <1>3, <2>4, <2>5 DEF TypeOK, WriteRecord
<1>4. ASSUME NEW c \in Clients, Quit(c) PROVE TypeOK'
  <2>1. Append(flight[c], <<>>) \in Seq(Seq(Part))
    BY DEF TypeOK
  <2> QED
    BY <1>4, <2>1 DEF TypeOK, Quit
<1>5. ASSUME NEW c \in Clients, Reset(c) PROVE TypeOK'
  BY <1>5 DEF TypeOK, Reset
<1>6. ASSUME NEW c \in Clients, Vanish(c) PROVE TypeOK'
  BY <1>6 DEF TypeOK, Vanish
<1>7. ASSUME NEW c \in Clients, Arrive(c) PROVE TypeOK'
  <2>1. flight[c] \in Seq(Seq(Part)) /\ flight[c] # <<>> /\ wire[c] \in Seq(Part)
    BY <1>7 DEF TypeOK, Arrive
  <2>2. Head(flight[c]) \in Seq(Part) /\ Tail(flight[c]) \in Seq(Seq(Part))
    BY <2>1, HeadTailProperties
  <2>3. wire[c] \o Head(flight[c]) \in Seq(Part)
    BY <2>1, <2>2, ConcatProperties
  <2>4. flight' \in [Clients -> Seq(Seq(Part))]
    BY <1>7, <2>2 DEF TypeOK, Arrive
  <2>5. wire' \in [Clients -> Seq(Part)]
    BY <1>7, <2>3 DEF TypeOK, Arrive
  <2>6. over' \in [Clients -> {"no", "fin", "rst", "rst_seen"}]
    BY <1>7 DEF TypeOK, Arrive
  <2> QED
    BY <1>7, <2>4, <2>5, <2>6 DEF TypeOK, Arrive
<1>8. CASE EpollWait
  <2>1. PICK n \in 1 .. Cardinality(Ready) : batch' \in [1 .. n -> Ready]
    BY <1>8 DEF EpollWait
  <2>2. Ready \subseteq Clients \cup {Listener} /\ IsFiniteSet(Clients)
    BY DEF Ready, HasInput
  <2>3. Cardinality(Ready) \in Nat
    BY <2>2, FS_Subset, FS_AddElement, FS_CardinalityType
  <2>4. batch' \in Seq(Clients \cup {Listener})
    BY <2>1, <2>2, <2>3
  <2> QED
    BY <1>8, <2>4 DEF TypeOK, EpollWait, netVars
<1>9. CASE Accept
  <2>1. conn' \in [Clients -> {"none", "backlog", "open", "closed", "refused"}]
    BY <1>9 DEF TypeOK, Accept, InBacklog
  <2>2. batch' \in Seq(Clients \cup {Listener})
    BY <1>9 DEF TypeOK, Accept, EventFor
  <2> QED
    BY <1>9, <2>1, <2>2 DEF TypeOK, Accept, netVars
<1>10. CASE AcceptUnregistered
  <2>1. conn' \in [Clients -> {"none", "backlog", "open", "closed", "refused"}]
    BY <1>10 DEF TypeOK, AcceptUnregistered, InBacklog
  <2>2. batch' \in Seq(Clients \cup {Listener})
    BY <1>10 DEF TypeOK, AcceptUnregistered, EventFor
  <2> QED
    BY <1>10, <2>1, <2>2 DEF TypeOK, AcceptUnregistered, netVars
<1>11. CASE EpollWaitFails \/ AcceptFails
  <2>1. /\ conn' \in [Clients -> {"none", "backlog", "open", "closed", "refused"}]
        /\ server' = "none" /\ UNCHANGED <<netVars, printed>>
    BY <1>11 DEF TypeOK, EpollWaitFails, AcceptFails, Exit
  <2>2. batch' \in Seq(Clients \cup {Listener})
    <3>1. batch' = batch \/ (batch # <<>> /\ batch' = Tail(batch))
      BY <1>11 DEF EpollWaitFails, AcceptFails, EventFor
    <3> DEFINE S == Clients \cup {Listener}
    <3>2. batch \in Seq(S)
      BY DEF TypeOK
    <3> HIDE DEF S
    <3>3. batch # <<>> => Tail(batch) \in Seq(S)
      BY <3>2, HeadTailProperties
    <3> QED
      BY <3>1, <3>2, <3>3 DEF S
  <2> QED
    BY <2>1, <2>2 DEF TypeOK, netVars
<1>12. ASSUME NEW c \in Clients, Read(c, PartsOf(server)) PROVE TypeOK'
  <2>1. batch' \in Seq(Clients \cup {Listener})
    BY <1>12 DEF TypeOK, Read, EventFor
  <2>2. CASE wire[c] # <<>> /\ over' = over /\ conn' = conn
    <3>1. PICK n \in {Len(wire[c]), PartsOf(server)} :
             /\ n <= Len(wire[c]) /\ n <= PartsOf(server)
             /\ printed' = [printed EXCEPT ![c] = Append(@, Received(c, n))]
             /\ wire' = [wire EXCEPT ![c] = Left(c, n)]
      BY <1>12, <2>2 DEF Read
    <3>2. n \in 1 .. Len(wire[c]) /\ wire[c] \in Seq(Part) /\ printed[c] \in Seq(Seq(Part))
      BY <2>2, <3>1, PartsType DEF TypeOK
    <3>3. Received(c, n) \in Seq(Part) /\ Left(c, n) \in Seq(Part)
      BY <3>2, ReadMoves DEF Received, Left
    <3>4. printed' \in [Clients -> Seq(Seq(Part))] /\ wire' \in [Clients -> Seq(Part)]
      BY <3>1, <3>3 DEF TypeOK
    <3> QED
      BY <1>12, <2>1, <2>2, <3>4 DEF TypeOK, Read
  <2>3. CASE wire[c] = <<>> /\ over[c] = "rst"
    <3>1. printed' = [printed EXCEPT ![c] = Append(@, <<>>)]
      BY <1>12, <2>3 DEF Read
    <3>2. printed[c] \in Seq(Seq(Part)) /\ <<>> \in Seq(Part)
      BY DEF TypeOK
    <3>3. Append(printed[c], <<>>) \in Seq(Seq(Part))
      BY <3>2
    <3>4. printed' \in [Clients -> Seq(Seq(Part))]
      BY <3>1, <3>3 DEF TypeOK
    <3> QED
      BY <1>12, <2>1, <2>3, <3>4 DEF TypeOK, Read
  <2>4. CASE wire[c] = <<>> /\ over[c] \in {"fin", "rst_seen"}
    <3>1. conn' = [conn EXCEPT ![c] = "closed"]
          /\ UNCHANGED <<printed, wire, over, client, sent, flight, server>>
      BY <1>12, <2>4 DEF Read, Close
    <3> QED
      BY <2>1, <3>1 DEF TypeOK
  <2> QED
    BY <1>12, <2>2, <2>3, <2>4 DEF Read
<1> QED
  BY <1>1, <1>2, <1>3, <1>4, <1>5, <1>6, <1>7, <1>8, <1>9, <1>10, <1>11, <1>12, Steps

\* A step happens to one connection at most.
LEMMA OneTouched ==
  ASSUME TypeOK, Next
  PROVE  \/ \A d \in Clients : Untouched(d)
         \/ \E c \in Clients :
               /\ \/ Connect(c) \/ WriteRecord(c) \/ Quit(c) \/ Reset(c) \/ Vanish(c)
                  \/ Arrive(c) \/ Read(c, PartsOf(server))
               /\ \A d \in Clients \ {c} : Untouched(d)
<1>1. ASSUME NEW c \in Clients, NEW d \in Clients \ {c},
             \/ Connect(c) \/ WriteRecord(c) \/ Quit(c) \/ Reset(c) \/ Vanish(c) \/ Arrive(c)
             \/ Read(c, PartsOf(server))
      PROVE  Untouched(d)
  <2>1. CASE Connect(c)
    BY <2>1 DEF TypeOK, Connect, Untouched
  <2>2. CASE WriteRecord(c)
    BY <2>2 DEF TypeOK, WriteRecord, Untouched
  <2>3. CASE Quit(c) \/ Reset(c) \/ Vanish(c)
    BY <2>3 DEF TypeOK, Quit, Reset, Vanish, Untouched
  <2>4. CASE Arrive(c)
    BY <2>4 DEF TypeOK, Arrive, Untouched
  <2>5. CASE Read(c, PartsOf(server))
    BY <2>5 DEF TypeOK, Read, Close, Untouched
  <2> QED
    BY <1>1, <2>1, <2>2, <2>3, <2>4, <2>5
<1>2. ASSUME NEW d \in Clients,
             EpollWait \/ EpollWaitFails \/ Accept \/ AcceptUnregistered \/ AcceptFails
      PROVE  Untouched(d)
  BY <1>2 DEF TypeOK, EpollWait, EpollWaitFails, Accept, AcceptUnregistered, AcceptFails,
              Exit, InBacklog, netVars, Untouched
<1> QED
  BY <1>1, <1>2, Steps

\* What is said of the connections stays true if it does for the one the step is about.
LEMMA ConnStep ==
  ASSUME TypeOK, ConnInv, Next
  PROVE  ConnInv'
<1>1. SUFFICES
        ASSUME NEW c \in Clients,
               \/ Connect(c) \/ WriteRecord(c) \/ Quit(c) \/ Reset(c) \/ Vanish(c)
               \/ Arrive(c) \/ Read(c, PartsOf(server))
        PROVE  ConnOf(c)'
  BY OneTouched, UntouchedKept DEF ConnInv
<1>2. ConnOf(c)
  BY DEF ConnInv
<1>3. CASE Connect(c)
  BY <1>2, <1>3 DEF TypeOK, Connect, ConnOf
<1>4. CASE WriteRecord(c)
  <2>1. sent[c] \in 0 .. MaxRecords - 1 /\ client[c] = "connected" /\ over[c] = "no"
    BY <1>2, <1>4 DEF TypeOK, WriteRecord, ConnOf
  <2>2. PICK segments \in Segmentations(c, RecordOf(c, sent[c] + 1)) :
           flight' = [flight EXCEPT ![c] = @ \o segments]
    BY <1>4 DEF WriteRecord
  <2>3. segments \in Seq(Seq(Part)) /\ \A i \in 1 .. Len(segments) : segments[i] # <<>>
    BY <2>1, <2>2, SegmentsFull
  <2>4. \A i \in 1 .. Len(flight[c]) : flight[c][i] # <<>>
    BY <1>2, <2>1 DEF ConnOf
  <2>5. flight[c] \in Seq(Seq(Part)) /\ flight'[c] = flight[c] \o segments
    BY <2>2 DEF TypeOK
  <2>6. \A i \in 1 .. Len(flight'[c]) : flight'[c][i] # <<>>
    BY <2>3, <2>4, <2>5, ConcatProperties
  <2> QED
    BY <1>2, <1>4, <2>1, <2>6 DEF TypeOK, WriteRecord, ConnOf
<1>5. CASE Quit(c)
  <2>1. client[c] = "connected" /\ client'[c] = "gone" /\ over'[c] = "no"
    BY <1>2, <1>5 DEF TypeOK, Quit, ConnOf
  <2>2. flight'[c] = Append(flight[c], <<>>) /\ flight[c] \in Seq(Seq(Part))
    BY <1>5 DEF TypeOK, Quit
  <2>3. \A i \in 1 .. Len(flight[c]) : flight[c][i] # <<>>
    BY <1>2, <2>1 DEF ConnOf
  <2>4. \A i \in 1 .. Len(flight'[c]) : flight'[c][i] = <<>> => i = Len(flight'[c])
    BY <2>2, <2>3
  <2> QED
    BY <2>1, <2>4 DEF ConnOf
<1>6. CASE Reset(c)
  BY <1>2, <1>6 DEF TypeOK, Reset, ConnOf
<1>7. CASE Vanish(c)
  BY <1>2, <1>7 DEF TypeOK, Vanish, ConnOf
<1>8. CASE Arrive(c)
  BY <1>2, <1>8 DEF TypeOK, Arrive, ConnOf
<1>9. CASE Read(c, PartsOf(server))
  BY <1>2, <1>9 DEF TypeOK, Read, Close, ConnOf
<1> QED
  BY <1>1, <1>3, <1>4, <1>5, <1>6, <1>7, <1>8, <1>9

\* An empty record is printed when the reset is seen, and nothing after it.
LEMMA GhostStep ==
  ASSUME TypeOK, ConnInv, GhostsAreResets, Next
  PROVE  GhostsAreResets'
<1>1. SUFFICES
        ASSUME NEW c \in Clients,
               \/ Connect(c) \/ WriteRecord(c) \/ Quit(c) \/ Reset(c) \/ Vanish(c)
               \/ Arrive(c) \/ Read(c, PartsOf(server))
        PROVE  GhostsOf(c)'
  <2>1. ASSUME \A c \in Clients : GhostsOf(c)' PROVE GhostsAreResets'
    BY <2>1 DEF GhostsAreResets, GhostsOf
  <2> QED
    BY <2>1, OneTouched, UntouchedKept, ByConnection
<1>2. ConnOf(c) /\ GhostsOf(c)
  BY ByConnection DEF ConnInv
<1>3. CASE Connect(c) \/ WriteRecord(c) \/ Quit(c) \/ Vanish(c)
  BY <1>2, <1>3 DEF Connect, WriteRecord, Quit, Vanish, GhostsOf
<1>4. CASE Reset(c)
  BY <1>2, <1>4 DEF TypeOK, Reset, ConnOf, GhostsOf
<1>5. CASE Arrive(c)
  BY <1>2, <1>5 DEF TypeOK, Arrive, ConnOf, GhostsOf
<1>6. CASE Read(c, PartsOf(server))
  <2>1. printed[c] \in Seq(Seq(Part)) /\ wire[c] \in Seq(Part)
    BY DEF TypeOK
  <2>2. CASE wire[c] # <<>> /\ over' = over
    <3>1. PICK n \in {Len(wire[c]), PartsOf(server)} :
             /\ n <= Len(wire[c]) /\ n <= PartsOf(server)
             /\ printed' = [printed EXCEPT ![c] = Append(@, Received(c, n))]
      BY <1>6, <2>2 DEF Read
    <3>2. n \in 1 .. Len(wire[c])
      BY <2>1, <2>2, <3>1, PartsType
    <3>3. Received(c, n) \in Seq(Part) /\ Received(c, n) # <<>>
      BY <2>1, <3>2, ReadMoves DEF Received
    <3>4. \A i \in 1 .. Len(printed[c]) : printed[c][i] # <<>>
      BY <1>2, <2>2 DEF TypeOK, ConnOf, GhostsOf
    <3>5. printed'[c] = Append(printed[c], Received(c, n))
      BY <3>1 DEF TypeOK
    <3> HIDE DEF Received
    <3>6. \A i \in 1 .. Len(printed'[c]) : printed'[c][i] # <<>>
      BY <2>1, <3>3, <3>4, <3>5
    <3> QED
      BY <3>6 DEF GhostsOf
  <2>3. CASE wire[c] = <<>> /\ over[c] = "rst"
    <3>1. printed'[c] = Append(printed[c], <<>>) /\ over'[c] = "rst_seen"
      BY <1>6, <2>3 DEF TypeOK, Read
    <3>2. \A i \in 1 .. Len(printed[c]) : printed[c][i] # <<>>
      BY <1>2, <2>3 DEF GhostsOf
    <3>3. \A i \in 1 .. Len(printed'[c]) : printed'[c][i] = <<>> => i = Len(printed'[c])
      BY <2>1, <3>1, <3>2
    <3> QED
      BY <3>1, <3>3 DEF GhostsOf
  <2>4. CASE wire[c] = <<>> /\ over[c] \in {"fin", "rst_seen"}
    BY <1>2, <1>6, <2>4 DEF Read, Close, GhostsOf
  <2> QED
    BY <1>6, <2>2, <2>3, <2>4 DEF Read
<1> QED
  BY <1>1, <1>3, <1>4, <1>5, <1>6

\* A descriptor with input keeps it until it is served, whatever happens elsewhere.
LEMMA BatchStep ==
  ASSUME TypeOK, ConnInv, BatchInv, Next
  PROVE  BatchInv'
<1>1. SUFFICES ASSUME server' # "none" PROVE BatchInv'
  BY DEF BatchInv
<1>2. \A fd : fd \in Ready <=> \/ fd \in Clients /\ HasInput(fd)
                               \/ fd = Listener /\ \E c \in Clients : conn[c] = "backlog"
  BY DEF Ready, InBacklog
<1>3. \A fd : fd \in Ready' <=> \/ fd \in Clients /\ HasInput(fd)'
                                \/ fd = Listener /\ \E c \in Clients : conn'[c] = "backlog"
  BY DEF Ready, InBacklog
<1>4. /\ batch \in Seq(Clients \cup {Listener})
      /\ \A i \in 1 .. Len(batch) : batch[i] \in Clients \cup {Listener}
  BY DEF TypeOK
<1>5. ASSUME batch' = batch, server # "none", \A fd \in Clients \cup {Listener} : fd \in Ready => fd \in Ready'
      PROVE  BatchInv'
  BY <1>4, <1>5 DEF BatchInv
<1>6. ASSUME NEW c \in Clients,
             Connect(c) \/ WriteRecord(c) \/ Quit(c) \/ Reset(c) \/ Vanish(c) \/ Arrive(c)
      PROVE  BatchInv'
  <2>1. batch' = batch /\ server' = server
    BY <1>6 DEF Connect, WriteRecord, Quit, Reset, Vanish, Arrive
  <2>2. \A d \in Clients : HasInput(d) => HasInput(d)'
    <3>1. CASE Connect(c)
      BY <3>1 DEF TypeOK, ConnInv, ConnOf, Connect, HasInput
    <3>2. CASE WriteRecord(c) \/ Quit(c) \/ Vanish(c)
      BY <3>2 DEF WriteRecord, Quit, Vanish, HasInput
    <3>3. CASE Reset(c)
      BY <3>3 DEF TypeOK, Reset, HasInput
    <3>4. CASE Arrive(c)
      <4>1. wire[c] # <<>> => wire'[c] # <<>>
        <5>1. wire[c] \in Seq(Part) /\ Head(flight[c]) \in Seq(Part)
          BY <3>4 DEF TypeOK, Arrive
        <5>2. wire'[c] = wire[c] \o Head(flight[c])
          BY <3>4 DEF TypeOK, Arrive
        <5> QED
          BY <5>1, <5>2, ConcatEqualIffEmpty
      <4>2. over[c] # "no" => over'[c] # "no"
        BY <3>4 DEF TypeOK, Arrive
      <4>3. \A d \in Clients \ {c} : wire'[d] = wire[d] /\ over'[d] = over[d]
        BY <3>4 DEF TypeOK, Arrive
      <4>4. conn' = conn
        BY <3>4 DEF Arrive
      <4> QED
        BY <4>1, <4>2, <4>3, <4>4 DEF HasInput
    <3> QED
      BY <1>6, <3>1, <3>2, <3>3, <3>4
  <2>3. (\E d \in Clients : conn[d] = "backlog") => \E d \in Clients : conn'[d] = "backlog"
    BY <1>6 DEF TypeOK, ConnInv, ConnOf, Connect, WriteRecord, Quit, Reset, Vanish, Arrive
  <2> QED
    BY <1>1, <1>2, <1>3, <1>5, <2>1, <2>2, <2>3
<1>7. CASE EpollWait
  <2>1. PICK n \in 1 .. Cardinality(Ready) : batch' \in {s \in [1 .. n -> Ready] : IsInjective(s)}
    BY <1>7 DEF EpollWait
  <2>2. Cardinality(Ready) \in Nat
    <3>1. Ready \subseteq Clients \cup {Listener}
      BY DEF Ready
    <3> QED
      BY <3>1, FS_Subset, FS_AddElement, FS_CardinalityType
  <2>3. Ready' = Ready
    BY <1>7 DEF EpollWait, netVars, Ready, HasInput, InBacklog
  <2>4. Len(batch') = n /\ DOMAIN batch' = 1 .. n
    BY <2>1, <2>2
  <2>5. \A i, j \in 1 .. n : batch'[i] = batch'[j] => i = j
    BY <2>1, <2>4 DEF IsInjective
  <2> QED
    BY <2>1, <2>3, <2>4, <2>5 DEF BatchInv
<1>8. ASSUME NEW fd \in Clients \cup {Listener}, EventFor(fd),
             \A d \in (Clients \cup {Listener}) \ {fd} : d \in Ready => d \in Ready'
      PROVE  BatchInv'
  <2>1. batch # <<>> /\ Head(batch) = fd /\ batch' = Tail(batch) /\ server # "none"
    BY <1>8 DEF EventFor
  <2>2. /\ Len(batch') = Len(batch) - 1 /\ batch[1] = fd
        /\ \A i \in 1 .. Len(batch') : batch'[i] = batch[i + 1]
    BY <1>4, <2>1
  <2>3. ASSUME NEW i \in 1 .. Len(batch') PROVE batch'[i] \in Ready'
    <3>1. i + 1 \in 1 .. Len(batch) /\ 1 \in 1 .. Len(batch) /\ i + 1 # 1
      BY <1>4, <2>2
    <3>2. batch[i + 1] # fd
      BY <2>1, <2>2, <3>1 DEF BatchInv
    <3>3. batch[i + 1] \in (Clients \cup {Listener}) /\ batch[i + 1] \in Ready
      BY <1>4, <2>1, <3>1 DEF BatchInv
    <3> QED
      BY <1>8, <2>2, <3>2, <3>3
  <2>4. ASSUME NEW i \in 1 .. Len(batch'), NEW j \in 1 .. Len(batch'), batch'[i] = batch'[j]
        PROVE  i = j
    <3>1. i + 1 \in 1 .. Len(batch) /\ j + 1 \in 1 .. Len(batch)
      BY <1>4, <2>2
    <3>2. i + 1 = j + 1
      BY <2>1, <2>2, <2>4, <3>1 DEF BatchInv
    <3> QED
      BY <1>4, <2>2, <3>2
  <2> QED
    BY <2>3, <2>4 DEF BatchInv
<1>9. CASE Accept \/ AcceptUnregistered
  <2>1. EventFor(Listener)
    BY <1>9 DEF Accept, AcceptUnregistered
  <2>2. \A d \in Clients : HasInput(d) => HasInput(d)'
    BY <1>9 DEF TypeOK, Accept, AcceptUnregistered, InBacklog, HasInput, netVars
  <2> QED
    BY <1>2, <1>3, <1>8, <2>1, <2>2
<1>10. CASE EpollWaitFails \/ AcceptFails
  BY <1>1, <1>10 DEF EpollWaitFails, AcceptFails, Exit
<1>11. ASSUME NEW c \in Clients, Read(c, PartsOf(server)) PROVE BatchInv'
  <2>1. EventFor(c)
    BY <1>11 DEF Read
  <2>2. \A d \in Clients \ {c} : HasInput(d) => HasInput(d)'
    BY <1>11 DEF TypeOK, Read, Close, HasInput
  <2>3. \A d \in Clients : conn[d] = "backlog" /\ d # c => conn'[d] = "backlog"
    BY <1>11 DEF TypeOK, Read, Close
  <2>4. conn[c] # "backlog"
    <3>1. c \in Ready
      BY <1>4, <2>1 DEF EventFor, BatchInv
    <3> QED
      BY <1>2, <3>1 DEF HasInput
  <2> QED
    BY <1>2, <1>3, <1>8, <2>1, <2>2, <2>3, <2>4
<1> QED
  BY <1>6, <1>7, <1>9, <1>10, <1>11, Steps

\* Whatever moves from a client over the network and the socket into print keeps its
\* place in the stream.
LEMMA StreamStep ==
  ASSUME TypeOK, ConnInv, StreamKept, Next
  PROVE  StreamKept'
<1>1. SUFFICES
        ASSUME NEW c \in Clients,
               \/ Connect(c) \/ WriteRecord(c) \/ Quit(c) \/ Reset(c) \/ Vanish(c)
               \/ Arrive(c) \/ Read(c, PartsOf(server))
        PROVE  StreamOf(c)'
  <2>1. ASSUME \A c \in Clients : StreamOf(c)' PROVE StreamKept'
    BY <2>1 DEF StreamKept, StreamOf
  <2> QED
    BY <2>1, OneTouched, UntouchedKept, ByConnection
<1>2. ConnOf(c) /\ StreamOf(c)
  BY ByConnection DEF ConnInv
<1> DEFINE pr == printed[c]
           w == wire[c]
           fl == flight[c]
           p == FlattenSeq(pr)
           f == FlattenSeq(fl)
           pw == p \o w
           n == sent[c]
           s == Stream(c, n)
           broken == over[c] \in {"rst", "rst_seen"}
<1>3. /\ pr \in Seq(Seq(Part)) /\ w \in Seq(Part) /\ fl \in Seq(Seq(Part))
      /\ n \in 0 .. MaxRecords
  BY DEF TypeOK
<1>4. p \in Seq(Part) /\ f \in Seq(Part) /\ pw \in Seq(Part) /\ s \in Seq(Part)
  BY <1>3, FlattenEmpty, StreamNext, ConcatProperties
<1>5. IF broken THEN IsPrefix(pw \o f, s) ELSE pw \o f = s
  BY <1>2 DEF StreamOf
<1>6. ASSUME sent'[c] = n, broken' <=> broken,
             FlattenSeq(printed'[c]) \o wire'[c] \o FlattenSeq(flight'[c]) = pw \o f
      PROVE  StreamOf(c)'
  BY <1>5, <1>6 DEF StreamOf
<1>7. CASE Connect(c) \/ Vanish(c)
  BY <1>2, <1>7 DEF Connect, Vanish, StreamOf
<1>8. CASE WriteRecord(c)
  <2>1. n \in 0 .. MaxRecords - 1 /\ ~broken /\ over' = over /\ sent'[c] = n + 1
    BY <1>2, <1>3, <1>8 DEF TypeOK, WriteRecord, ConnOf
  <2>2. PICK segments \in Segmentations(c, RecordOf(c, n + 1)) :
           flight'[c] = fl \o segments
    BY <1>8 DEF TypeOK, WriteRecord
  <2>3. printed'[c] = printed[c] /\ wire'[c] = wire[c]
    BY <1>8 DEF WriteRecord
  <2> DEFINE r == RecordOf(c, n + 1)
  <2>4. FlattenSeq(flight'[c]) = f \o r
    <3> HIDE DEF fl, n
    <3>1. FlattenSeq(fl \o segments) = FlattenSeq(fl) \o RecordOf(c, n + 1)
      BY <1>3, <2>1, WriteMoves
    <3> QED
      BY <2>2, <3>1
  <2>5. Stream(c, n + 1) = s \o r /\ r \in Seq(Part)
    <3>1. n < MaxRecords /\ n + 1 \in 1 .. MaxRecords
      BY <2>1
    <3> QED
      BY <1>3, <3>1, StreamNext, RecordType, Zenon
  <2> HIDE DEF r, f, pw, s
  <2>6. (pw \o f) \o r = pw \o (f \o r)
    BY <1>4, <2>5, Concat3, Zenon
  <2>7. pw \o f = s
    BY <1>5, <2>1
  <2>8. pw \o (f \o r) = Stream(c, n + 1)
    BY <2>5, <2>6, <2>7, Zenon
  <2> QED
    BY <2>1, <2>3, <2>4, <2>8 DEF StreamOf, pw
<1>9. CASE Quit(c)
  <2>1. flight'[c] = Append(flight[c], <<>>) /\ UNCHANGED <<printed, wire, over, sent>>
    BY <1>9 DEF TypeOK, Quit
  <2>2. FlattenSeq(flight'[c]) = f
    BY <1>3, <2>1, FlattenEmpty
  <2> QED
    BY <1>6, <2>1, <2>2
<1>10. CASE Reset(c)
  <2>1. ~broken /\ broken' /\ flight'[c] = <<>> /\ UNCHANGED <<printed, wire, sent>>
    BY <1>2, <1>10 DEF TypeOK, Reset, ConnOf
  <2>2. FlattenSeq(flight'[c]) = <<>>
    BY <2>1, FlattenEmpty
  <2> HIDE DEF f, pw, s
  <2>3. pw \o <<>> = pw
    BY <1>4, ConcatEmptySeq
  <2>4. IsPrefix(pw, pw \o f)
    BY <1>4, PrefixOfConcat
  <2>5. IsPrefix(pw \o <<>>, s)
    BY <1>5, <2>1, <2>3, <2>4
  <2> QED
    BY <2>1, <2>2, <2>5 DEF StreamOf, pw, s
<1>11. CASE Arrive(c)
  <2>1. /\ fl # <<>> /\ flight'[c] = Tail(fl) /\ wire'[c] = w \o Head(fl)
        /\ UNCHANGED <<printed, sent>>
    BY <1>11 DEF TypeOK, Arrive
  <2>2. ~broken /\ ~broken'
    BY <1>2, <1>11 DEF TypeOK, Arrive, ConnOf
  <2>3. p \o (w \o Head(fl)) \o FlattenSeq(Tail(fl)) = pw \o f
    <3>1. p \in Seq(Part) /\ w \in Seq(Part) /\ fl \in Seq(Seq(Part)) /\ fl # <<>>
      BY <1>3, <1>4, <2>1
    <3> HIDE DEF p, w, fl
    <3> QED
      BY <3>1, ArriveMoves
  <2> QED
    BY <1>6, <2>1, <2>2, <2>3
<1>12. CASE Read(c, PartsOf(server))
  <2>1. UNCHANGED <<flight, sent>>
    BY <1>12 DEF Read
  <2>2. CASE wire[c] # <<>> /\ over' = over
    <3>1. PICK m \in {Len(w), PartsOf(server)} :
             /\ m <= Len(w) /\ m <= PartsOf(server)
             /\ printed'[c] = Append(pr, SubSeq(w, 1, m))
             /\ wire'[c] = SubSeq(w, m + 1, Len(w))
      BY <1>12, <2>2 DEF TypeOK, Read, Received, Left
    <3>2. m \in 1 .. Len(w)
      BY <1>3, <2>2, <3>1, PartsType
    <3>3. FlattenSeq(printed'[c]) \o wire'[c] = pw
      <4> HIDE DEF pr, w
      <4>1. FlattenSeq(Append(pr, SubSeq(w, 1, m))) \o SubSeq(w, m + 1, Len(w))
               = FlattenSeq(pr) \o w
        BY <1>3, <3>2, ReadMoves
      <4> QED
        BY <3>1, <4>1
    <3> QED
      BY <1>6, <2>1, <2>2, <3>3
  <2>3. CASE wire[c] = <<>> /\ over[c] = "rst" /\ over' = [over EXCEPT ![c] = "rst_seen"]
    <3>1. printed'[c] = Append(printed[c], <<>>) /\ UNCHANGED wire /\ over'[c] = "rst_seen"
      BY <1>12, <2>3 DEF TypeOK, Read
    <3>2. FlattenSeq(printed'[c]) = p
      BY <1>3, <3>1, FlattenEmpty
    <3> QED
      BY <1>6, <2>1, <2>3, <3>1, <3>2
  <2>4. CASE UNCHANGED <<printed, wire, over>>
    BY <1>6, <2>1, <2>4
  <2> QED
    BY <1>12, <2>2, <2>3, <2>4 DEF Read, Close
<1> QED
  BY <1>1, <1>7, <1>8, <1>9, <1>10, <1>11, <1>12

\* A whole record more, or less, in the socket.
LEMMA WholeMore ==
  ASSUME NEW c \in Clients, NEW w \in Seq(Part), NEW p \in Nat, NEW k \in Nat,
         WholeFrom(w, p, k)
  PROVE  WholeFrom(w \o RecordOf(c, p + k + 1), p, k + 1)
<1> DEFINE r == RecordOf(c, p + k + 1)
           v == w \o r
<1>1. Len(r) = 2 /\ r[1] = <<p + k + 1, 1>> /\ r[2] = <<p + k + 1, 2>>
  BY DEF RecordOf
<1>2. r \in Seq(Nat \X {1, 2}) /\ w \in Seq(Nat \X {1, 2})
  <2>1. Part \subseteq Nat \X {1, 2}
    BY DEF Part
  <2> QED
    BY <2>1 DEF RecordOf
<1>3. /\ Len(v) = Len(w) + 2 /\ v[Len(w) + 1] = r[1] /\ v[Len(w) + 2] = r[2]
      /\ \A i \in 1 .. Len(w) : v[i] = w[i]
  <2> HIDE DEF r
  <2>1. /\ Len(v) = Len(w) + Len(r)
        /\ \A i \in 1 .. Len(w) + Len(r) : v[i] = IF i <= Len(w) THEN w[i] ELSE r[i - Len(w)]
    BY <1>2, ConcatProperties
  <2> HIDE DEF v
  <2>2. Len(w) \in Nat
    OBVIOUS
  <2>3. Len(w) + 1 \in 1 .. Len(w) + Len(r) /\ Len(w) + 2 \in 1 .. Len(w) + Len(r)
    BY <1>1, <2>2
  <2>4. v[Len(w) + 1] = r[(Len(w) + 1) - Len(w)] /\ v[Len(w) + 2] = r[(Len(w) + 2) - Len(w)]
    BY <2>1, <2>2, <2>3
  <2> QED
    BY <1>1, <2>1, <2>2, <2>4
<1> HIDE DEF r, v
<1>4. Len(w) = 2 * k /\ Len(v) = 2 * (k + 1)
  BY <1>3 DEF WholeFrom
<1>5. ASSUME NEW j \in 1 .. k + 1
      PROVE  v[2 * j - 1] = <<p + j, 1>> /\ v[2 * j] = <<p + j, 2>>
  <2>1. CASE j = k + 1
    <3>1. 2 * j - 1 = Len(w) + 1 /\ 2 * j = Len(w) + 2 /\ p + k + 1 = p + j
      BY <1>4, <2>1
    <3> QED
      BY <1>1, <1>3, <3>1
  <2>2. CASE j # k + 1
    <3>1. j \in 1 .. k /\ 2 * j - 1 \in 1 .. Len(w) /\ 2 * j \in 1 .. Len(w)
      BY <1>4, <2>2
    <3>2. w[2 * j - 1] = <<p + j, 1>> /\ w[2 * j] = <<p + j, 2>>
      BY <3>1 DEF WholeFrom
    <3> QED
      BY <1>3, <3>1, <3>2
  <2> QED
    BY <2>1, <2>2
<1> QED
  BY <1>4, <1>5 DEF WholeFrom, v, r

\* A read of one record takes the first whole record and leaves the rest.
LEMMA WholeLess ==
  ASSUME NEW c \in Clients, NEW w \in Seq(Part), NEW p \in Nat, NEW k \in Nat \ {0},
         WholeFrom(w, p, k)
  PROVE  /\ SubSeq(w, 1, 2) = RecordOf(c, p + 1)
         /\ WholeFrom(SubSeq(w, 3, Len(w)), p + 1, k - 1)
<1>1. Len(w) = 2 * k /\ 1 \in 1 .. k /\ 2 \in 1 .. Len(w)
  BY DEF WholeFrom
<1> DEFINE a == SubSeq(w, 1, 2)  b == SubSeq(w, 3, Len(w))
<1>2. \A i \in 1 .. Len(w) : w[i] \in Part
  OBVIOUS
<1>3. a \in Seq(Part) /\ Len(a) = 2 /\ a[1] = w[1] /\ a[2] = w[2]
  <2>1. \A i \in 1 .. 2 : w[i] \in Part
    BY <1>1, <1>2
  <2>2. \A i \in 1 .. 2 : a[i] = w[i]
    BY <2>1, SubSeqProperties
  <2> QED
    BY <2>1, <2>2, SubSeqProperties
<1>4. w[1] = <<p + 1, 1>> /\ w[2] = <<p + 1, 2>>
  <2>1. w[2 * 1 - 1] = <<p + 1, 1>> /\ w[2 * 1] = <<p + 1, 2>>
    BY <1>1 DEF WholeFrom
  <2> QED
    BY <2>1
<1>5. Len(b) = Len(w) - 2 /\ \A i \in 1 .. Len(w) - 2 : b[i] = w[i + 2]
  <2>1. \A i \in 3 .. Len(w) : w[i] \in Part
    BY <1>2
  <2>2. /\ Len(b) = IF 3 <= Len(w) THEN Len(w) - 3 + 1 ELSE 0
        /\ \A i \in 1 .. Len(w) - 3 + 1 : b[i] = w[3 + i - 1]
    BY <2>1, SubSeqProperties
  <2>3. Len(b) = Len(w) - 2
    BY <1>1, <2>2
  <2> QED
    BY <1>1, <2>2, <2>3
<1> HIDE DEF a, b
<1>6. a = RecordOf(c, p + 1)
  <2> DEFINE r == RecordOf(c, p + 1)
  <2>1. r \in Seq(Part) /\ Len(r) = 2 /\ r[1] = w[1] /\ r[2] = w[2]
    <3>1. w[1] \in Part /\ w[2] \in Part
      BY <1>1, <1>2
    <3> QED
      BY <1>4, <3>1 DEF RecordOf
  <2> HIDE DEF r
  <2>2. \A i \in 1 .. Len(a) : a[i] = r[i]
    BY <1>3, <2>1
  <2>3. a = r
    BY <1>3, <2>1, <2>2, SeqEqual
  <2> QED
    BY <2>3 DEF r
<1>7. Len(b) = 2 * (k - 1)
  BY <1>1, <1>5
<1>8. ASSUME NEW j \in 1 .. k - 1
      PROVE  b[2 * j - 1] = <<p + 1 + j, 1>> /\ b[2 * j] = <<p + 1 + j, 2>>
  <2>1. /\ 2 * j - 1 \in 1 .. Len(w) - 2 /\ 2 * j \in 1 .. Len(w) - 2 /\ j + 1 \in 1 .. k
        /\ 2 * j - 1 + 2 = 2 * (j + 1) - 1 /\ 2 * j + 2 = 2 * (j + 1)
        /\ p + 1 + j = p + (j + 1)
    BY <1>1
  <2>2. w[2 * (j + 1) - 1] = <<p + (j + 1), 1>> /\ w[2 * (j + 1)] = <<p + (j + 1), 2>>
    BY <2>1 DEF WholeFrom
  <2> QED
    BY <1>5, <2>1, <2>2
<1> QED
  BY <1>6, <1>7, <1>8 DEF WholeFrom, a, b

\* Where records arrive whole and are read one by one, print, socket and network hold
\* whole records, numbered from the first on.
LEMMA InStepStep ==
  ASSUME TypeOK, ConnInv, StepInv, Next
  PROVE  StepInv'
<1>1. SUFFICES ASSUME server' = "public", NEW d \in Clients \ Cut PROVE InStepOf(d)'
  BY DEF StepInv
<1>2. server = "public"
  <2>1. Next => server' = server \/ server' = "none"
    BY Zenon DEF Next, Network, ClientStep, Connect, WriteRecord, Quit, Reset, Vanish, Arrive,
                 Server, PublicServer, startEpollWait, EventLoop, EpollWait,
                 EpollWaitFails, Accept, AcceptUnregistered, AcceptFails, Exit, Read
  <2> QED
    BY <1>1, <2>1
<1>3. InStepOf(d)
  BY <1>2 DEF StepInv
<1>4. SUFFICES
        ASSUME NEW c \in Clients \ Cut,
               \/ Connect(c) \/ WriteRecord(c) \/ Quit(c) \/ Reset(c) \/ Vanish(c)
               \/ Arrive(c) \/ Read(c, PartsOf(server))
        PROVE  InStepOf(c)'
  BY <1>3, OneTouched, UntouchedKept
<1>5. ConnOf(c) /\ InStepOf(c)
  BY <1>2 DEF ConnInv, StepInv
<1> DEFINE pr == printed[c]  p == Len(pr)  w == wire[c]  fl == flight[c]  m == Len(fl)
           n == sent[c]
<1>6. /\ pr \in Seq(Seq(Part)) /\ w \in Seq(Part) /\ fl \in Seq(Seq(Part))
      /\ p \in Nat /\ m \in Nat /\ n \in Nat
  BY DEF TypeOK
<1>7. PICK k \in Nat :
        /\ WholeFrom(w, p, k)
        /\ \A i \in 1 .. m : fl[i] \in {<<>>, RecordOf(c, p + k + i)}
        /\ client[c] = "connected" => n = p + k + m
  BY <1>5 DEF InStepOf
<1>16. client[c] = "connected" => n = p + k + m
  BY <1>7
<1>17. p \in Nat /\ m \in Nat /\ n \in Nat /\ k \in Nat
  BY <1>6
<1>8. \A i \in 1 .. p : pr[i] \in {<<>>, RecordOf(c, i)}
  BY <1>5 DEF InStepOf
<1>9. CASE Connect(c)
  <2>1. sent[c] = 0 /\ fl = <<>> /\ w = <<>> /\ pr = <<>>
    BY <1>5, <1>9 DEF Connect, ConnOf
  <2>2. UNCHANGED <<sent, flight, wire, printed>>
    BY <1>9 DEF Connect
  <2>3. k = 0 /\ p = 0 /\ Len(fl) = 0
    BY <1>7, <2>1 DEF WholeFrom
  <2>4. WholeFrom(wire'[c], 0, 0) /\ 0 \in Nat
    BY <1>7, <2>2, <2>3
  <2>5. Len(printed'[c]) = 0 /\ Len(flight'[c]) = 0 /\ sent'[c] = 0 + 0 + 0
    BY <2>1, <2>2
  <2>6. \A i \in 1 .. 0 : FALSE
    OBVIOUS
  <2> QED
    BY <2>4, <2>5, <2>6, Zenon DEF InStepOf
<1>10. CASE WriteRecord(c)
  <2>1. /\ client[c] = "connected" /\ sent'[c] = n + 1 /\ UNCHANGED <<wire, printed>>
        /\ n \in 0 .. MaxRecords - 1
    BY <1>10 DEF TypeOK, WriteRecord
  <2> DEFINE r == RecordOf(c, p + k + m + 1)
  <2>2. flight'[c] = fl \o <<r>> /\ r \in Seq(Part)
    <3>1. PICK segments \in Segmentations(c, RecordOf(c, n + 1)) :
             flight'[c] = fl \o segments
      BY <1>10 DEF TypeOK, WriteRecord
    <3>2. segments = <<RecordOf(c, n + 1)>>
      BY <3>1 DEF Segmentations
    <3>3. RecordOf(c, n + 1) \in Seq(Part)
      BY <2>1, RecordType
    <3> QED
      BY <1>7, <2>1, <3>1, <3>2, <3>3
  <2> HIDE DEF r
  <2>3. Len(flight'[c]) = m + 1
    BY <1>6, <2>2
  <2>4. ASSUME NEW i \in 1 .. m + 1
        PROVE  flight'[c][i] \in {<<>>, RecordOf(c, p + k + i)}
    <3>1. CASE i = m + 1
      <4>1. flight'[c][i] = r
        BY <1>6, <2>2, <3>1
      <4>2. p + k + m + 1 = p + k + i
        <5> HIDE DEF p, m
        <5> QED
          BY <1>17, <3>1
      <4> QED
        BY <4>1, <4>2 DEF r
    <3>2. CASE i # m + 1
      <4>1. i \in 1 .. m /\ flight'[c][i] = fl[i]
        BY <1>6, <2>2, <3>2
      <4> QED
        BY <1>7, <4>1
    <3> QED
      BY <3>1, <3>2
  <2>5. sent'[c] = p + k + Len(flight'[c])
    <3> HIDE DEF p, m, n
    <3> QED
      BY <1>16, <1>17, <2>1, <2>3
  <2> QED
    BY <1>7, <1>8, <2>1, <2>3, <2>4, <2>5 DEF InStepOf
<1>11. CASE Quit(c)
  <2>1. flight'[c] = Append(fl, <<>>) /\ UNCHANGED <<wire, printed>> /\ client'[c] = "gone"
    BY <1>11 DEF TypeOK, Quit
  <2>2. \A i \in 1 .. Len(flight'[c]) : flight'[c][i] \in {<<>>, RecordOf(c, p + k + i)}
    BY <1>6, <1>7, <2>1
  <2> QED
    BY <1>7, <1>8, <2>1, <2>2 DEF InStepOf
<1>12. CASE Reset(c)
  <2>1. flight'[c] = <<>> /\ UNCHANGED <<wire, printed>> /\ client'[c] = "gone"
    BY <1>12 DEF TypeOK, Reset
  <2> QED
    BY <1>7, <1>8, <2>1 DEF InStepOf
<1>13. CASE Vanish(c)
  <2>1. UNCHANGED <<flight, wire, printed>> /\ client'[c] = "gone"
    BY <1>13 DEF TypeOK, Vanish
  <2> QED
    BY <1>7, <1>8, <2>1 DEF InStepOf
<1>14. CASE Arrive(c)
  <2>1. /\ fl # <<>> /\ flight'[c] = Tail(fl) /\ wire'[c] = w \o Head(fl)
        /\ UNCHANGED <<client, sent, printed>>
    BY <1>14 DEF TypeOK, Arrive
  <2>2. /\ m >= 1 /\ Len(flight'[c]) = m - 1 /\ Head(fl) = fl[1]
        /\ \A i \in 1 .. m - 1 : flight'[c][i] = fl[i + 1]
    BY <1>6, <2>1
  <2>3. CASE Head(fl) = <<>>
    <3>0. 1 \in 1 .. Len(flight[c]) /\ flight[c][1] = <<>>
      BY <1>17, <2>2, <2>3
    <3>1. client[c] = "gone" /\ m = 1
      BY <1>5, <3>0 DEF ConnOf
    <3>2. wire'[c] = w
      BY <1>6, <2>1, <2>3, ConcatEmptySeq
    <3>3. \A i \in 1 .. Len(flight'[c]) : FALSE
      BY <2>2, <3>1
    <3>4. client'[c] # "connected" /\ printed'[c] = pr
      BY <2>1, <3>1
    <3> QED
      BY <1>7, <1>8, <3>2, <3>3, <3>4 DEF InStepOf
  <2>4. CASE Head(fl) = RecordOf(c, p + k + 1)
    <3>1. WholeFrom(wire'[c], p, k + 1)
      <4> HIDE DEF w, p
      <4> QED
        BY <1>6, <1>7, <2>1, <2>4, WholeMore
    <3>2. ASSUME NEW i \in 1 .. Len(flight'[c])
          PROVE  flight'[c][i] \in {<<>>, RecordOf(c, p + (k + 1) + i)}
      <4>1. i + 1 \in 1 .. m /\ i \in 1 .. m - 1 /\ p + k + (i + 1) = p + (k + 1) + i
        <5>1. Len(flight'[c]) = m - 1
          BY <2>2
        <5> HIDE DEF p, m
        <5> QED
          BY <1>17, <5>1
      <4>2. fl[i + 1] \in {<<>>, RecordOf(c, p + k + (i + 1))}
        BY <1>7, <4>1
      <4> QED
        BY <2>2, <4>1, <4>2
    <3>3. client'[c] = "connected" => sent'[c] = p + (k + 1) + Len(flight'[c])
      <4>1. Len(flight'[c]) = m - 1 /\ client'[c] = client[c] /\ sent'[c] = n
        BY <2>1, <2>2
      <4> HIDE DEF p, m, n
      <4> QED
        BY <1>16, <1>17, <4>1
    <3>4. k + 1 \in Nat
      OBVIOUS
    <3> QED
      BY <1>8, <2>1, <3>1, <3>2, <3>3, <3>4 DEF InStepOf
  <2> QED
    <3>1. fl[1] \in {<<>>, RecordOf(c, p + k + 1)}
      <4>1. 1 \in 1 .. m
        BY <1>17, <2>2
      <4> QED
        BY <1>7, <4>1
    <3> QED
      BY <2>2, <2>3, <2>4, <3>1
<1>15. CASE Read(c, PartsOf(server))
  <2>1. UNCHANGED <<client, sent, flight>> /\ PartsOf(server) = 2
    BY <1>2, <1>15 DEF Read, PartsOf, RecordParts
  <2>2. CASE wire[c] # <<>> /\ over' = over
    <3>1. PICK x \in {Len(w), 2} :
             /\ x <= Len(w) /\ x <= 2
             /\ printed'[c] = Append(pr, SubSeq(w, 1, x))
             /\ wire'[c] = SubSeq(w, x + 1, Len(w))
      <4>1. PICK x \in {Len(w), PartsOf(server)} :
               /\ x <= Len(w) /\ x <= PartsOf(server)
               /\ printed' = [printed EXCEPT ![c] = Append(@, Received(c, x))]
               /\ wire' = [wire EXCEPT ![c] = Left(c, x)]
        BY <1>15, <2>2 DEF Read
      <4>2. /\ printed'[c] = Append(pr, SubSeq(w, 1, x))
            /\ wire'[c] = SubSeq(w, x + 1, Len(w))
        BY <4>1 DEF TypeOK, Received, Left
      <4> QED
        BY <2>1, <4>1, <4>2
    <3>2. x = 2 /\ k \in Nat \ {0} /\ x + 1 = 3
      BY <1>6, <1>7, <2>2, <3>1 DEF WholeFrom
    <3>3. /\ SubSeq(w, 1, 2) = RecordOf(c, p + 1)
          /\ WholeFrom(SubSeq(w, 3, Len(w)), p + 1, k - 1)
      <4> HIDE DEF w, p
      <4> QED
        BY <1>6, <1>7, <3>2, WholeLess
    <3>4. printed'[c] = Append(pr, RecordOf(c, p + 1)) /\ wire'[c] = SubSeq(w, 3, Len(w))
      BY <3>1, <3>2, <3>3
    <3> DEFINE q == printed'[c]
    <3>5. Len(q) = p + 1 /\ q[p + 1] = RecordOf(c, p + 1) /\ \A i \in 1 .. p : q[i] = pr[i]
      <4>1. RecordOf(c, p + 1) \in Seq(Nat \X {1, 2}) /\ pr \in Seq(Seq(Nat \X {1, 2}))
        BY <1>6 DEF RecordOf, Part
      <4> DEFINE r == RecordOf(c, p + 1)
      <4> HIDE DEF r
      <4> QED
        BY <1>6, <3>4, <4>1 DEF r
    <3> HIDE DEF q
    <3>6. ASSUME NEW i \in 1 .. Len(q) PROVE q[i] \in {<<>>, RecordOf(c, i)}
      <4>1. i \in 1 .. p \/ i = p + 1
        <5> HIDE DEF p
        <5> QED
          BY <1>17, <3>5
      <4> QED
        BY <1>8, <3>5, <4>1
    <3>7. WholeFrom(wire'[c], Len(q), k - 1) /\ k - 1 \in Nat
      BY <3>2, <3>3, <3>4, <3>5
    <3>8. \A i \in 1 .. m : fl[i] \in {<<>>, RecordOf(c, Len(q) + (k - 1) + i)}
      <4>1. \A i \in 1 .. m : Len(q) + (k - 1) + i = p + k + i
        <5> HIDE DEF p, m
        <5> QED
          BY <1>17, <3>5
      <4> QED
        BY <1>7, <4>1
    <3>9. client[c] = "connected" => n = Len(q) + (k - 1) + m
      <4>1. Len(q) = p + 1
        BY <3>5
      <4> HIDE DEF p, m, n
      <4> QED
        BY <1>16, <1>17, <4>1
    <3> QED
      BY <2>1, <3>6, <3>7, <3>8, <3>9 DEF InStepOf, q
  <2>3. CASE wire[c] = <<>> /\ over[c] = "rst"
    <3>1. printed'[c] = Append(pr, <<>>) /\ wire' = wire /\ fl = <<>> /\ client[c] = "gone"
      BY <1>5, <1>15, <2>3 DEF TypeOK, Read, ConnOf
    <3>2. Len(printed'[c]) = p + 1 /\ \A i \in 1 .. p + 1 : printed'[c][i] \in {<<>>, RecordOf(c, i)}
      BY <1>6, <1>8, <3>1
    <3>3. WholeFrom(wire'[c], p + 1, 0) /\ 0 \in Nat
      BY <2>3, <3>1 DEF WholeFrom
    <3> QED
      BY <2>1, <3>1, <3>2, <3>3 DEF InStepOf
  <2>4. CASE UNCHANGED <<printed, wire>>
    BY <1>5, <2>1, <2>4 DEF InStepOf
  <2> QED
    BY <1>15, <2>2, <2>3, <2>4 DEF Read, Close
<1> QED
  BY <1>4, <1>9, <1>10, <1>11, <1>12, <1>13, <1>14, <1>15

-----------------------------------------------------------------------------
(* The theorems.                                                            *)

\* Before the first client connects there is nothing anywhere.
LEMMA IInvInit == Init => IInv
<1> SUFFICES ASSUME Init PROVE IInv
  OBVIOUS
<1>1. TypeOK
  BY DEF Init, TypeOK
<1>2. ConnInv
  BY DEF Init, ConnInv, ConnOf
<1>3. BatchInv
  BY DEF Init, BatchInv
<1>4. StreamKept
  <2>1. SUFFICES ASSUME NEW c \in Clients PROVE StreamOf(c)
    BY ByConnection
  <2>2. printed[c] = <<>> /\ wire[c] = <<>> /\ flight[c] = <<>> /\ sent[c] = 0 /\ over[c] = "no"
    BY DEF Init
  <2>3. Stream(c, 0) = <<>>
    <3>1. [i \in 1 .. 0 |-> RecordOf(c, i)] = <<>>
      OBVIOUS
    <3> QED
      BY <3>1, FlattenEmpty DEF Stream
  <2>4. FlattenSeq(<<>>) \o <<>> \o FlattenSeq(<<>>) = <<>>
    BY FlattenEmpty
  <2> QED
    BY <2>2, <2>3, <2>4 DEF StreamOf
<1>5. GhostsAreResets
  BY DEF Init, GhostsAreResets
<1>6. StepInv
  <2>1. SUFFICES ASSUME NEW c \in Clients PROVE InStepOf(c)
    BY DEF StepInv
  <2>2. printed[c] = <<>> /\ wire[c] = <<>> /\ flight[c] = <<>> /\ client[c] = "new"
    BY DEF Init
  <2>3. WholeFrom(<<>>, 0, 0) /\ 0 \in Nat
    BY DEF WholeFrom
  <2> QED
    BY <2>2, <2>3 DEF InStepOf
<1> QED
  BY <1>1, <1>2, <1>3, <1>4, <1>5, <1>6 DEF IInv

\* Every step of the clients, the network and the loop keeps the invariant.
LEMMA IInvStep == IInv /\ [Next]_vars => IInv'
<1>1. ASSUME IInv, Next PROVE IInv'
  <2>1. TypeOK'
    BY <1>1, TypeStep DEF IInv
  <2>2. ConnInv' /\ BatchInv'
    BY <1>1, ConnStep, BatchStep DEF IInv
  <2>3. StreamKept' /\ GhostsAreResets'
    BY <1>1, StreamStep, GhostStep DEF IInv
  <2>4. StepInv'
    BY <1>1, InStepStep DEF IInv
  <2> QED
    BY <2>1, <2>2, <2>3, <2>4 DEF IInv
<1>2. ASSUME IInv, UNCHANGED vars PROVE IInv'
  BY <1>2 DEF IInv, TypeOK, ConnInv, ConnOf, BatchInv, Ready, HasInput, InBacklog, StreamKept,
              GhostsAreResets, StepInv, InStepOf, vars, netVars
<1> QED
  BY <1>1, <1>2

\* The invariant of both servers and their clients holds for ever.
THEOREM Invariant == Spec => []IInv
BY IInvInit, IInvStep, PTL DEF Spec

\* For any number of clients and whatever fails, the descriptor of every event still to
\* be handled is open and has input: accept and read never block the one thread that
\* serves them all (public_server.cpp:87-138, epolls.cpp).
THEOREM NeverBlocked == Spec => []NeverBlocks
<1>1. IInv => NeverBlocks
  BY DEF IInv, BatchInv, NeverBlocks
<1> QED
  BY <1>1, Invariant, PTL

\* However the streams of any number of clients are cut, read and interleaved, what a
\* connection printed, holds and has under way is what its client sent
\* (public_server.cpp:116-136).
THEOREM StreamsKept == Spec => []StreamKept
<1>1. IInv => StreamKept
  BY DEF IInv
<1> QED
  BY <1>1, Invariant, PTL

\* The empty record that a failed read prints appears for a connection that broke, as
\* its last, and for no other (public_server.cpp:114-131).
THEOREM GhostsFromResets == Spec => []GhostsAreResets
<1>1. IInv => GhostsAreResets
  BY DEF IInv
<1> QED
  BY <1>1, Invariant, PTL

\* At the server that reads record by record, a connection whose records arrive whole
\* is printed record by record, whatever the other connections do
\* (public_server.cpp:114-131).
THEOREM StaysInStep == Spec => []InStep
<1>1. IInv => InStep
  BY DEF IInv, StepInv, InStepOf, InStep
<1> QED
  BY <1>1, Invariant, PTL
=============================================================================
