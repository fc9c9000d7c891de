------------------------- MODULE RtpReceiverProofs -------------------------
(***************************************************************************)
(* For every set of datagrams, formats, caller's buffers and bounds: what  *)
(* is in RtpReceiver's ring and in its one-packet hold, how the bytes of   *)
(* samples and frames lie in the ring, and what readEncoded() returns.     *)
(***************************************************************************)
EXTENDS RtpReceiver, PcmProofs

\* The hold and what the codec has read come from datagrams already taken.
HoldInv ==
  /\ taken \in Nat
  /\ hold \in Seq([arrival : 1 .. taken, at : Nat])
  /\ codecReads \in Seq(1 .. taken)
  /\ CodecReadOnce

LEMMA FirstOfSeq ==
  ASSUME NEW S, NEW s \in Seq(S), s # <<>>
  PROVE  s[1] \in S /\ s[Len(s)] \in S
OBVIOUS

\* Calls that neither read nor fill the hold: it stays or is emptied, while at
\* most one datagram is taken.
LEMMA HoldKept ==
  ASSUME HoldInv,
         UNCHANGED codecReads,
         UNCHANGED <<hold, encodedReady>> \/ hold' = <<>>,
         taken' = taken \/ taken' = taken + 1
  PROVE  HoldInv'
<1>1. taken' \in Nat /\ 1 .. taken \subseteq 1 .. taken'
  BY DEF HoldInv
<1>2. codecReads' \in Seq(1 .. taken')
  BY <1>1 DEF HoldInv
<1>3. hold' \in Seq([arrival : 1 .. taken', at : Nat])
  <2>1. CASE hold' = <<>>  BY <2>1
  <2>2. CASE UNCHANGED <<hold, encodedReady>>
    <3>1. [arrival : 1 .. taken, at : Nat] \subseteq [arrival : 1 .. taken', at : Nat]
      BY <1>1
    <3>2. hold \in Seq([arrival : 1 .. taken, at : Nat])  BY DEF HoldInv
    <3>3. hold \in Seq([arrival : 1 .. taken', at : Nat])
      BY <3>1, <3>2, SeqWidens
    <3> QED  BY <2>2, <3>3
  <2> QED  BY <2>1, <2>2
<1>4. CodecReadOnce'
  BY DEF HoldInv, CodecReadOnce
<1> QED  BY <1>1, <1>2, <1>3, <1>4 DEF HoldInv

\* A packet the codec is to read: younger than everything read so far.
LEMMA HoldFilled ==
  ASSUME HoldInv, NEW a \in Arrivals, PollEncoded(Arriving(a))
  PROVE  HoldInv'
<1> DEFINE new == [i \in 1 .. a.payload |-> [arrival |-> taken + 1, at |-> i]]
<1>1. a.payload \in Nat /\ Arriving(a).payload = new
  BY ArrivalAssumption DEF Arriving
<1>2. hold' = new /\ taken' = taken + 1 /\ codecReads' = codecReads
  BY <1>1 DEF PollEncoded, Take
<1>3. taken' \in Nat /\ 1 .. taken \subseteq 1 .. taken' /\ taken + 1 \in 1 .. taken'
  BY <1>2 DEF HoldInv
<1>4. hold' \in Seq([arrival : 1 .. taken', at : Nat])
  <2>1. \A i \in 1 .. a.payload :
          [arrival |-> taken + 1, at |-> i] \in [arrival : 1 .. taken', at : Nat]
    BY <1>1, <1>3
  <2> DEFINE B == [arrival : 1 .. taken', at : Nat]
  <2>2. \A i \in 1 .. a.payload : new[i] \in B  BY <2>1
  <2>3. new = [i \in 1 .. a.payload |-> new[i]]  OBVIOUS
  <2> HIDE DEF B, new
  <2>4. new \in Seq(B)  BY <1>1, <2>2, <2>3
  <2> QED  BY <1>2, <2>4 DEF B
<1>5. codecReads' \in Seq(1 .. taken')
  BY <1>2, <1>3 DEF HoldInv
<1>6. hold' # <<>> => hold'[1].arrival = taken + 1
  <2>1. Len(new) = a.payload /\ (new # <<>> => a.payload # 0)
    BY <1>1
  <2> QED  BY <1>1, <1>2, <2>1
<1>7. CodecReadOnce'
  <2>1. codecReads # <<>> => codecReads[Len(codecReads)] \in 1 .. taken
    BY DEF HoldInv
  <2> QED  BY <1>2, <1>6, <2>1 DEF HoldInv, CodecReadOnce
<1> QED  BY <1>3, <1>4, <1>5, <1>7 DEF HoldInv

\* readEncoded(): what it returns is younger than what it returned before.
LEMMA HoldRead ==
  ASSUME HoldInv, NEW size \in ReadSizes, ReadEncoded(size)
  PROVE  HoldInv'
<1>1. hold' = <<>> /\ taken' = taken /\ encodedReady
  BY DEF ReadEncoded, AfterRead
<1>2. CASE hold = <<>>
  BY <1>1, <1>2, HoldKept DEF ReadEncoded
<1>3. CASE hold # <<>>
  <2> DEFINE x == hold[1].arrival
  <2>1. x \in 1 .. taken
    <3>1. hold[1] \in [arrival : 1 .. taken, at : Nat]
      BY <1>3, FirstOfSeq DEF HoldInv
    <3> QED  BY <3>1
  <2>2. codecReads' = Append(codecReads, x)  BY <1>3 DEF ReadEncoded
  <2>3. codecReads' \in Seq(1 .. taken')  BY <1>1, <2>1, <2>2 DEF HoldInv
  <2>4. codecReads # <<>> => x > codecReads[Len(codecReads)]
    BY <1>1, <1>3 DEF HoldInv, CodecReadOnce
  <2>5. ASSUME NEW i \in 1 .. Len(codecReads') - 1
        PROVE  codecReads'[i] < codecReads'[i + 1]
    <3> DEFINE n == Len(codecReads)
    <3>1. /\ codecReads \in Seq(1 .. taken) /\ n \in Nat
          /\ Len(codecReads') = n + 1 /\ codecReads'[n + 1] = x
          /\ \A j \in 1 .. n : codecReads'[j] = codecReads[j]
      BY <2>1, <2>2 DEF HoldInv
    <3>2. CASE i < n
      <4>1. i \in 1 .. n - 1  BY <3>1, <3>2
      <4>2. codecReads'[i] = codecReads[i] /\ codecReads'[i + 1] = codecReads[i + 1]
        BY <3>1, <4>1
      <4>3. codecReads[i] < codecReads[i + 1]
        BY <4>1 DEF HoldInv, CodecReadOnce
      <4> QED  BY <4>2, <4>3
    <3>3. CASE i = n
      <4>1. n > 0  BY <3>1, <3>3
      <4>2. codecReads # <<>>  BY <3>1, <4>1
      <4>3. codecReads[n] \in 1 .. taken  BY <3>1, <4>2, FirstOfSeq
      <4> QED  BY <2>1, <2>4, <3>1, <3>3, <4>2, <4>3
    <3> QED  BY <2>5, <3>1, <3>2, <3>3
  <2>6. CodecReadOnce'  BY <1>1, <2>5 DEF CodecReadOnce
  <2> QED  BY <1>1, <2>3, <2>6 DEF HoldInv
<1> QED  BY <1>2, <1>3

LEMMA HoldInductive == HoldInv /\ [Next]_vars => HoldInv'
<1> SUFFICES ASSUME HoldInv, [Next]_vars PROVE HoldInv'
  OBVIOUS
<1> USE HoldKept
<1>1. CASE Begin  BY <1>1 DEF Begin, DropHold
<1>2. CASE BeginFails  BY <1>2 DEF BeginFails
<1>3. CASE End  BY <1>3 DEF End, DropHold
<1>4. CASE SetPcmBufferRefused  BY <1>4 DEF SetPcmBufferRefused
<1>5. ASSUME NEW size \in CallerSizes, SetPcmBuffer(size) PROVE HoldInv'
  BY <1>5 DEF SetPcmBuffer
<1>6. ASSUME NEW f \in Formats, SetFormatRejected(f) \/ SetFormat(f) PROVE HoldInv'
  BY <1>6 DEF SetFormatRejected, SetFormat
<1>7. ASSUME NEW p \in Dynamics, SetDynamicRejected(p) \/ SetDynamic(p) PROVE HoldInv'
  BY <1>7 DEF SetDynamicRejected, SetDynamic
<1>8. ASSUME NEW a \in Arrivals,
             PollRunt(Arriving(a)) \/ PollBad(Arriving(a)) \/ PollPcm(Arriving(a))
      PROVE  HoldInv'
  BY <1>8 DEF PollRunt, PollBad, PollPcm, Take
<1>9. ASSUME NEW a \in Arrivals, PollEncoded(Arriving(a)) PROVE HoldInv'
  BY <1>9, HoldFilled
<1>10. ASSUME NEW n \in 1 .. MaxTake, ReadFrames(n) PROVE HoldInv'
  BY <1>10 DEF ReadFrames
<1>11. ASSUME NEW size \in ReadSizes, ReadEncoded(size) PROVE HoldInv'
  BY <1>11, HoldRead
<1>12. CASE UNCHANGED vars  BY <1>12 DEF vars
<1> QED
  BY <1>1, <1>2, <1>3, <1>4, <1>5, <1>6, <1>7, <1>8, <1>9, <1>10, <1>11, <1>12 DEF Next

\* A codec never gets a packet twice and never one older than the last it got,
\* over every sequence of polls, failed and successful begin(), end() and
\* readEncoded() calls, for every set of datagrams.
THEOREM HoldIsReadOnce == Spec => []CodecReadOnce
<1>1. Init => HoldInv
  BY DEF Init, HoldInv, CodecReadOnce
<1>2. HoldInv => CodecReadOnce  BY DEF HoldInv
<1> QED  BY <1>1, <1>2, HoldInductive, PTL DEF Spec

-----------------------------------------------------------------------------
\* Bytes that arrived since the receiver was opened.
Fresh == {b \in PayloadByte : b.arrival > opened}

\* What the receiver's memory holds between calls.  A closed one may hold bytes
\* of the last session, in the hold or, after a begin() that could not bind, in
\* the ring: it is emptied before it opens again.
MemoryInv ==
  /\ TypeOK
  /\ last \in [pt : Nat, seq : Nat, ssrc : Nat]
  /\ format \in [rate : Nat, channels : Nat]
  /\ format # NoFormat => format.channels # 0
  /\ Queued \in Seq(PayloadByte)
  /\ ready => Queued \in Seq(Fresh) /\ hold \in Seq(Fresh)

\* What arrives is what was offered, with the bytes told apart.
LEMMA ArrivingFacts ==
  ASSUME NEW a \in Arrivals
  PROVE  LET d == Arriving(a)
         IN  /\ d.payload = [i \in 1 .. a.payload |-> [arrival |-> taken + 1, at |-> i]]
             /\ a.payload \in Nat
             /\ d.pt = a.pt /\ a.pt \in 0 .. 127
             /\ Header(d) \in [pt : Nat, seq : Nat, ssrc : Nat] /\ Header(d).pt = a.pt
<1>1. a \in [parse : {"Ok", "runt", "TooShort", "BadVersion"}, pt : 0 .. 127,
             seq : Nat, ssrc : Nat, payload : Nat]
  BY ArrivalAssumption
<1>2. Arriving(a) = [a EXCEPT !.payload =
        [i \in 1 .. a.payload |-> [arrival |-> taken + 1, at |-> i]]]
  BY DEF Arriving
<1> DEFINE d == Arriving(a)
<1>3. /\ d.payload = [i \in 1 .. a.payload |-> [arrival |-> taken + 1, at |-> i]]
      /\ d.pt = a.pt /\ d.seq = a.seq /\ d.ssrc = a.ssrc
  BY <1>1, <1>2
<1> HIDE DEF d
<1>4. Header(d) = [pt |-> a.pt, seq |-> a.seq, ssrc |-> a.ssrc]
  BY <1>3 DEF Header
<1>5. a.pt \in 0 .. 127 /\ a.seq \in Nat /\ a.ssrc \in Nat /\ a.payload \in Nat
  BY <1>1
<1>6. Header(d) \in [pt : Nat, seq : Nat, ssrc : Nat] /\ Header(d).pt = a.pt
  BY <1>4, <1>5
<1> QED  BY <1>3, <1>5, <1>6 DEF d

\* The layout a packet is given: a channel count the application declared, or
\* that of the static type; never none.
LEMMA LayoutOfPacket ==
  ASSUME MemoryInv, NEW a \in Arrivals
  PROVE  LET d == Arriving(a)
         IN  /\ ChannelsOf(d) \in Channels /\ ChannelsOf(d) \in Nat \ {0}
             /\ FormatAfter(d) \in [rate : Nat, channels : Nat]
             /\ FormatAfter(d).rate # 0
             /\ FormatAfter(d).channels = ChannelsOf(d)
<1> DEFINE d == Arriving(a)
<1>1. d.pt \in 0 .. 127  BY ArrivingFacts
<1>2. format.rate \in Nat /\ DefaultRate \in Nat \ {0}
  BY DEF MemoryInv, DefaultRate
<1>3. dynamic = NoDynamic \/ (dynamic \in Dynamics /\ dynamic.pt <= 127 /\ dynamic.channels # 0)
  BY DEF MemoryInv, TypeOK
<1> HIDE DEF d
<1>4. ChannelsOf(d) \in Channels /\ ChannelsOf(d) \in Nat \ {0}
  <2>1. CASE d.pt = dynamic.pt
    <3>1. dynamic \in Dynamics /\ dynamic.pt <= 127 /\ dynamic.channels # 0
      BY <1>1, <1>3, <2>1 DEF NoDynamic, NoType
    <3>2. dynamic.channels \in Nat  BY <3>1, SetterAssumption
    <3>3. ChannelsOf(d) = dynamic.channels  BY <2>1 DEF ChannelsOf
    <3> QED  BY <3>1, <3>2, <3>3 DEF Channels
  <2>2. CASE d.pt # dynamic.pt
    BY <2>2 DEF ChannelsOf, Channels
  <2> QED  BY <2>1, <2>2
<1> QED  BY <1>2, <1>4 DEF FormatAfter, d

-----------------------------------------------------------------------------
\* n bytes of the t-th datagram in host order: the bytes of a sample swapped.
Swapped(src, n, t) ==
  /\ Len(src) = n
  /\ \A i \in 1 .. n :
       src[i] = [arrival |-> t, at |-> IF i % 2 = 1 THEN i + 1 ELSE i - 1]

\* What poll() pushes of an L16 packet: whole frames of it, in host order.
LEMMA PushedFacts ==
  ASSUME MemoryInv, NEW a \in Arrivals,
         NEW S, \A i \in Nat : [arrival |-> taken + 1, at |-> i] \in S
  PROVE  LET d   == Arriving(a)
             src == HostOrder(WholeFrames(d))
         IN  /\ src \in Seq(S)
             /\ Len(src) \in Nat /\ Len(src) % BytesPerFrame(FormatAfter(d)) = 0
             /\ Len(src) % 2 = 0
             /\ Swapped(src, Len(src), taken + 1)
<1> DEFINE d   == Arriving(a)
           k   == BytesPerFrame(FormatAfter(d))
           c   == ChannelsOf(d)
           n   == a.payload - (a.payload % k)
           byte(i) == [arrival |-> taken + 1, at |-> i]
           x   == [i \in 1 .. a.payload |-> byte(i)]
           cut == SubSeq(x, 1, n)
           src == HostOrder(cut)
           at(i) == IF i % 2 = 1 THEN i + 1 ELSE i - 1
<1>1. d.payload = x /\ a.payload \in Nat  BY ArrivingFacts
<1>2. k = 2 * c /\ c \in Nat \ {0}
  BY LayoutOfPacket DEF BytesPerFrame
<1>3. WholeFrames(d) = cut
  <2>1. WholeFrames(d) = SubSeq(d.payload, 1, Len(d.payload) - (Len(d.payload) % k))
    BY DEF WholeFrames
  <2>2. Len(x) = a.payload  BY <1>1
  <2> HIDE DEF x, d, k
  <2> QED  BY <1>1, <2>1, <2>2
<1> HIDE DEF k, c, d
<1>4. k \in Nat \ {0}  BY <1>2
<1>5. n \in Nat /\ n <= a.payload /\ n % k = 0  BY <1>1, <1>4, CutToFrames
<1> HIDE DEF n
<1>6. n % 2 = 0 /\ 2 * (n \div 2) = n
  <2>1. n % 2 = 0  BY <1>2, <1>5, FramesAreEven
  <2> QED  BY <1>5, <2>1
<1>7. cut \in Seq({byte(i) : i \in 1 .. a.payload}) /\ Len(cut) = n
      /\ \A i \in 1 .. n : cut[i] = byte(i)
  <2> HIDE DEF byte
  <2>1. x \in Seq({byte(i) : i \in 1 .. a.payload}) /\ Len(x) = a.payload
    BY <1>1
  <2>2. \A i \in 1 .. n : i \in 1 .. a.payload  BY <1>1, <1>5
  <2>3. /\ cut \in Seq({byte(i) : i \in 1 .. a.payload}) /\ Len(cut) = n
        /\ \A i \in 1 .. n : cut[i] = x[i]
    <3> HIDE DEF x
    <3> QED  BY <1>5, <2>1, PrefixOfSeq
  <2> QED  BY <2>2, <2>3
<1> HIDE DEF cut, x
<1>8. src = [i \in 1 .. n |-> byte(at(i))]
  <2>1. src = [i \in 1 .. n |-> IF i % 2 = 1 THEN cut[i + 1] ELSE cut[i - 1]]
    BY <1>6, <1>7 DEF HostOrder
  <2>2. ASSUME NEW i \in 1 .. n
        PROVE  (IF i % 2 = 1 THEN cut[i + 1] ELSE cut[i - 1]) = byte(at(i))
    <3>1. CASE i % 2 = 1
      <4>1. i + 1 \in 1 .. n  BY <1>5, <1>6, <3>1
      <4> QED  BY <1>7, <3>1, <4>1
    <3>2. CASE i % 2 # 1
      <4>1. i - 1 \in 1 .. n  BY <1>5, <1>6, <3>2
      <4> QED  BY <1>7, <3>2, <4>1
    <3> QED  BY <3>1, <3>2
  <2> HIDE DEF src, byte, at
  <2> QED  BY <2>1, <2>2
<1>9. \A i \in 1 .. n : at(i) \in Nat  BY <1>5
<1>10. \A i \in 1 .. n : byte(at(i)) \in S  BY <1>9
<1> HIDE DEF src
<1>11. src \in Seq(S) /\ Len(src) = n /\ \A i \in 1 .. n : src[i] = byte(at(i))
  <2> HIDE DEF byte, at
  <2> QED  BY <1>5, <1>8, <1>10
<1>12. Swapped(src, n, taken + 1)
  BY <1>11 DEF Swapped
<1> QED  BY <1>3, <1>5, <1>6, <1>11, <1>12 DEF d, k, src

-----------------------------------------------------------------------------
\* More datagrams taken, more bytes there may be.
LEMMA BytesWiden ==
  ASSUME taken \in Nat, taken' = taken \/ taken' = taken + 1
  PROVE  /\ PayloadByte \subseteq PayloadByte'
         /\ PayloadByte \cup {Silence} \subseteq (PayloadByte \cup {Silence})'
         /\ opened' = opened => Fresh \subseteq Fresh'
<1>1. 1 .. taken \subseteq 1 .. taken'  OBVIOUS
<1>2. PayloadByte \subseteq PayloadByte'  BY <1>1 DEF PayloadByte
<1> QED  BY <1>2 DEF Fresh

\* The facts about the constants and the counters that the steps use.
LEMMA Ranges ==
  ASSUME TypeOK
  PROVE  /\ taken \in Nat /\ MaxArrivals \in Nat /\ taken <= MaxArrivals
         /\ opened \in 0 .. taken
         /\ capacity \in Nat \ {0} /\ QueueBytes \in Nat \ {0}
         /\ ring.count \in 0 .. capacity /\ ring.count \in Nat
<1>1. MaxArrivals \in Nat /\ QueueBytes \in Nat \ {0} /\ CallerSizes \subseteq Nat
  BY BoundAssumption, CapacityAssumption
<1>2. capacity \in Nat \ {0}
  <2>1. capacity \in {QueueBytes} \cup (CallerSizes \ {0})  BY DEF TypeOK
  <2> QED  BY <1>1, <2>1
<1>3. ring.count \in 0 .. capacity  BY DEF TypeOK, Rings
<1>4. taken \in 0 .. MaxArrivals /\ opened \in 0 .. taken  BY DEF TypeOK
<1> QED  BY <1>1, <1>2, <1>3, <1>4

LEMMA MemoryInit == Init => MemoryInv
<1> SUFFICES ASSUME Init PROVE MemoryInv
  OBVIOUS
<1> DEFINE B == PayloadByte \cup {Silence}
<1>1. Silence \in B  OBVIOUS
<1> HIDE DEF B
<1>2. QueueBytes \in Nat \ {0} /\ MaxArrivals \in Nat
  BY CapacityAssumption, BoundAssumption
<1>3. /\ ring \in Rings(capacity, B) /\ WellFormed(capacity, ring)
      /\ Content(capacity, ring) = <<>>
  BY <1>1, <1>2, EmptyRingFacts DEF Init
<1>4. last \in [pt : Nat, seq : Nat, ssrc : Nat] /\ last.pt \in (0 .. 127) \cup {NoType}
  BY DEF Init, NoHeader, NoType
<1>5. format \in [rate : Nat, channels : Nat] /\ format = NoFormat
  BY DEF Init, NoFormat
<1>6. TypeOK
  <2>1. ready \in BOOLEAN /\ relaid \in BOOLEAN /\ encodedReady \in BOOLEAN
    BY DEF Init
  <2>2. taken \in 0 .. MaxArrivals /\ opened \in 0 .. taken
    BY <1>2 DEF Init
  <2>3. hold \in Seq(PayloadByte) /\ hold = <<>>  BY DEF Init
  <2>4. capacity \in {QueueBytes} \cup (CallerSizes \ {0})  BY DEF Init
  <2>5. error \in {"None", "NotReady", "BindFailed", "BadHeader"} /\ dynamic = NoDynamic
    BY DEF Init
  <2> QED  BY <1>3, <1>4, <1>5, <2>1, <2>2, <2>3, <2>4, <2>5, Zenon DEF TypeOK, B
<1>7. Queued \in Seq(PayloadByte)  BY <1>3 DEF Queued
<1>8. ~ ready  BY DEF Init
<1> QED  BY <1>4, <1>5, <1>6, <1>7, <1>8, Zenon DEF MemoryInv

\* Calls that touch neither the memory nor the registers it is read by, while at
\* most one datagram is taken.
LEMMA QuietKeepsMemory ==
  ASSUME MemoryInv,
         taken' \in 0 .. MaxArrivals, taken' = taken \/ taken' = taken + 1,
         error' \in {"None", "NotReady", "BindFailed", "BadHeader"},
         UNCHANGED <<dynamic, last, format, capacity, ring, hold, encodedReady, opened>>,
         ready' = ready \/ ready' = FALSE, relaid' \in BOOLEAN
  PROVE  MemoryInv'
<1>1. TypeOK /\ taken \in Nat /\ opened \in 0 .. taken
  BY Ranges DEF MemoryInv
<1>2. /\ PayloadByte \subseteq PayloadByte' /\ Fresh \subseteq Fresh'
      /\ PayloadByte \cup {Silence} \subseteq (PayloadByte \cup {Silence})'
  BY <1>1, BytesWiden
<1>3. ring' \in Rings(capacity', PayloadByte' \cup {Silence})
  BY <1>1, <1>2, RingWidens DEF TypeOK
<1>4. hold' \in Seq(PayloadByte')
  BY <1>1, <1>2, SeqWidens DEF TypeOK
<1>5. Queued' \in Seq(PayloadByte')
  <2>1. Queued' = Queued  BY DEF Queued
  <2> QED  BY <1>2, <2>1, SeqWidens DEF MemoryInv
<1>6. ready' => Queued' \in Seq(Fresh') /\ hold' \in Seq(Fresh')
  <2> SUFFICES ASSUME ready' PROVE Queued' \in Seq(Fresh') /\ hold' \in Seq(Fresh')
    OBVIOUS
  <2>1. Queued \in Seq(Fresh) /\ hold \in Seq(Fresh)  BY DEF MemoryInv
  <2>2. Queued \in Seq(Fresh') /\ hold \in Seq(Fresh')  BY <1>2, <2>1, SeqWidens
  <2>3. Queued' = Queued  BY DEF Queued
  <2> QED  BY <2>2, <2>3
<1>7. TypeOK'
  <2>1. ready' \in BOOLEAN  BY <1>1, Zenon DEF TypeOK
  <2>2. opened' \in 0 .. taken'  BY <1>1
  <2>3. format' = NoFormat \/ (format'.rate \in Nat \ {0} /\ format'.channels \in Channels)
    BY <1>1 DEF TypeOK
  <2>4. /\ dynamic' = NoDynamic \/ (dynamic' \in Dynamics /\ dynamic'.pt <= 127 /\ dynamic'.channels # 0)
        /\ last'.pt \in (0 .. 127) \cup {NoType}
        /\ capacity' \in {QueueBytes} \cup (CallerSizes \ {0})
        /\ WellFormed(capacity', ring') /\ (~ encodedReady' => hold' = <<>>)
        /\ encodedReady' \in BOOLEAN
    BY <1>1, Zenon DEF TypeOK
  <2> QED  BY <1>3, <1>4, <2>1, <2>2, <2>3, <2>4, Zenon DEF TypeOK
<1> QED  BY <1>5, <1>6, <1>7 DEF MemoryInv

\* begin() and end(): nothing is queued and nothing is held.
LEMMA DropKeepsMemory ==
  ASSUME MemoryInv, Begin \/ End
  PROVE  MemoryInv'
<1>1. /\ TypeOK /\ taken \in Nat /\ opened \in 0 .. taken /\ taken <= MaxArrivals
      /\ MaxArrivals \in Nat /\ capacity \in Nat \ {0}
  BY Ranges DEF MemoryInv
<1> DEFINE B == PayloadByte \cup {Silence}
<1>2. /\ ring' = Emptied(ring) /\ hold' = <<>> /\ encodedReady' = FALSE
      /\ relaid' = FALSE /\ ready' \in BOOLEAN
      /\ error' \in {"None", "NotReady", "BindFailed", "BadHeader"}
      /\ taken' = taken /\ opened' \in 0 .. taken /\ capacity' = capacity
      /\ format' = format /\ dynamic' = dynamic
  <2>1. CASE Begin
    <3>1. opened' = taken /\ ready' = TRUE  BY <2>1, Zenon DEF Begin
    <3>2. opened' \in 0 .. taken  BY <1>1, <3>1
    <3> QED  BY <2>1, <3>1, <3>2, Zenon DEF Begin, DropQueue, DropHold
  <2>2. CASE End
    <3>1. opened' = opened /\ ready' = FALSE  BY <2>2, Zenon DEF End
    <3> QED  BY <1>1, <2>2, <3>1, Zenon DEF End, DropQueue, DropHold
  <2> QED  BY <2>1, <2>2
<1>3. /\ ring' \in Rings(capacity, B) /\ WellFormed(capacity, ring')
      /\ Content(capacity, ring') = <<>>
  BY <1>1, <1>2, EmptiedFacts DEF TypeOK
<1>4. B' = B  BY <1>2 DEF PayloadByte
<1>5. last' \in [pt : Nat, seq : Nat, ssrc : Nat] /\ last'.pt \in (0 .. 127) \cup {NoType}
  <2>1. last \in [pt : Nat, seq : Nat, ssrc : Nat] /\ last.pt \in (0 .. 127) \cup {NoType}
    BY DEF MemoryInv, TypeOK
  <2>2. last' = last \/ last' = [last EXCEPT !.pt = NoType]
    BY DEF Begin, End
  <2> QED  BY <2>1, <2>2 DEF NoType
<1>6. TypeOK'
  <2>1. taken' \in 0 .. MaxArrivals /\ opened' \in 0 .. taken'  BY <1>1, <1>2
  <2>2. hold' \in Seq(PayloadByte')  BY <1>2
  <2>3. relaid' \in BOOLEAN /\ encodedReady' \in BOOLEAN  BY <1>2
  <2>4. ring' \in Rings(capacity', (PayloadByte \cup {Silence})') /\ WellFormed(capacity', ring')
    BY <1>2, <1>3, <1>4
  <2>5. /\ format' = NoFormat \/ (format'.rate \in Nat \ {0} /\ format'.channels \in Channels)
        /\ dynamic' = NoDynamic \/ (dynamic' \in Dynamics /\ dynamic'.pt <= 127 /\ dynamic'.channels # 0)
        /\ capacity' \in {QueueBytes} \cup (CallerSizes \ {0})
    BY <1>1, <1>2, Zenon DEF TypeOK
  <2> QED  BY <1>2, <1>5, <2>1, <2>2, <2>3, <2>4, <2>5, Zenon DEF TypeOK
<1>7. Queued' = <<>>  BY <1>2, <1>3 DEF Queued
<1>8. Queued' \in Seq(PayloadByte') /\ Queued' \in Seq(Fresh') /\ hold' \in Seq(Fresh')
  BY <1>2, <1>7
<1>9. format' \in [rate : Nat, channels : Nat] /\ (format' # NoFormat => format'.channels # 0)
  BY <1>2 DEF MemoryInv
<1> QED  BY <1>5, <1>6, <1>8, <1>9, Zenon DEF MemoryInv

\* setPcmBuffer(): an empty ring in the new array; the receiver is closed.
LEMMA SetPcmBufferKeepsMemory ==
  ASSUME MemoryInv, NEW size \in CallerSizes, SetPcmBuffer(size)
  PROVE  MemoryInv'
<1>1. /\ TypeOK /\ taken \in Nat /\ opened \in 0 .. taken /\ taken <= MaxArrivals
      /\ QueueBytes \in Nat \ {0} /\ size \in Nat
  BY Ranges, CapacityAssumption DEF MemoryInv
<1> DEFINE B == PayloadByte \cup {Silence}
<1>2. /\ ~ ready /\ capacity' = (IF size = 0 THEN QueueBytes ELSE size)
      /\ ring' = EmptyRing(capacity', Silence) /\ relaid' = FALSE
      /\ UNCHANGED <<ready, error, format, dynamic, last, hold, encodedReady, taken, opened>>
  BY DEF SetPcmBuffer
<1>3. capacity' \in Nat \ {0} /\ capacity' \in {QueueBytes} \cup (CallerSizes \ {0})
  BY <1>1, <1>2
<1>4. /\ ring' \in Rings(capacity', B) /\ WellFormed(capacity', ring')
      /\ Content(capacity', ring') = <<>>
  <2>1. Silence \in B  OBVIOUS
  <2> HIDE DEF B
  <2> QED  BY <1>2, <1>3, <2>1, EmptyRingFacts
<1>5. PayloadByte' = PayloadByte  BY <1>2 DEF PayloadByte
<1>6. TypeOK'
  <2>1. taken' \in 0 .. MaxArrivals /\ opened' \in 0 .. taken' /\ relaid' \in BOOLEAN
    BY <1>1, <1>2 DEF TypeOK
  <2>2. ring' \in Rings(capacity', (PayloadByte \cup {Silence})')
    BY <1>4, <1>5
  <2>3. hold' \in Seq(PayloadByte') /\ (~ encodedReady' => hold' = <<>>)
    BY <1>1, <1>2, <1>5 DEF TypeOK
  <2>4. /\ ready' \in BOOLEAN /\ error' \in {"None", "NotReady", "BindFailed", "BadHeader"}
        /\ format' = NoFormat \/ (format'.rate \in Nat \ {0} /\ format'.channels \in Channels)
        /\ dynamic' = NoDynamic \/ (dynamic' \in Dynamics /\ dynamic'.pt <= 127 /\ dynamic'.channels # 0)
        /\ last'.pt \in (0 .. 127) \cup {NoType} /\ encodedReady' \in BOOLEAN
    BY <1>1, <1>2, Zenon DEF TypeOK
  <2> QED  BY <1>3, <1>4, <2>1, <2>2, <2>3, <2>4, Zenon DEF TypeOK
<1>7. Queued' \in Seq(PayloadByte')  BY <1>4 DEF Queued
<1>8. ~ ready'  BY <1>2
<1> QED  BY <1>2, <1>6, <1>7, <1>8, Zenon DEF MemoryInv

\* setFormat() and setDynamicL16PayloadType() accept only what poll() can use.
LEMMA SettersKeepMemory ==
  ASSUME MemoryInv,
         \/ \E f \in Formats : SetFormat(f)
         \/ \E p \in Dynamics : SetDynamic(p)
  PROVE  MemoryInv'
<1>1. TypeOK  BY DEF MemoryInv
<1>2. ASSUME NEW f \in Formats, SetFormat(f) PROVE MemoryInv'
  <2>1. f \in [rate : Nat, channels : Nat, bits : Nat]  BY SetterAssumption
  <2>2. f.rate # 0 /\ f.channels # 0 /\ f.bits = 16  BY <1>2 DEF SetFormat, IsValid
  <2>3. format' = [rate |-> f.rate, channels |-> f.channels]
    BY <1>2 DEF SetFormat, Layout
  <2>4. f.channels \in Channels  BY <2>2 DEF Channels
  <2>5. relaid' \in BOOLEAN
    BY <1>1, <1>2, Zenon DEF SetFormat, Relaid, TypeOK
  <2>6. /\ format' \in [rate : Nat, channels : Nat] /\ format'.channels # 0
        /\ format'.rate \in Nat \ {0} /\ format'.channels \in Channels
    BY <2>1, <2>2, <2>3, <2>4
  <2>7. UNCHANGED <<ready, error, dynamic, last, capacity, ring, hold, encodedReady,
                    taken, opened>>
    BY <1>2 DEF SetFormat
  <2>8. Queued' = Queued /\ PayloadByte' = PayloadByte /\ Fresh' = Fresh
    BY <2>7 DEF Queued, PayloadByte, Fresh
  <2>9. TypeOK'
    BY <1>1, <2>5, <2>6, <2>7, <2>8, Zenon DEF TypeOK
  <2> QED  BY <2>6, <2>7, <2>8, <2>9, Zenon DEF MemoryInv
<1>3. ASSUME NEW p \in Dynamics, SetDynamic(p) PROVE MemoryInv'
  <2>1. /\ dynamic' \in Dynamics /\ dynamic'.pt <= 127 /\ dynamic'.channels # 0
        /\ UNCHANGED <<ready, error, format, last, capacity, ring, hold, encodedReady,
                       taken, opened, relaid>>
    BY <1>3 DEF SetDynamic
  <2>2. Queued' = Queued /\ PayloadByte' = PayloadByte /\ Fresh' = Fresh
    BY <2>1 DEF Queued, PayloadByte, Fresh
  <2>3. TypeOK'
    BY <1>1, <2>1, <2>2, Zenon DEF TypeOK
  <2> QED  BY <2>1, <2>2, <2>3, Zenon DEF MemoryInv
<1> QED  BY <1>2, <1>3

\* poll() queues an L16 packet: its bytes are younger than the session.
LEMMA PollPcmKeepsMemory ==
  ASSUME MemoryInv, NEW a \in Arrivals, PollPcm(Arriving(a))
  PROVE  MemoryInv'
<1> DEFINE d   == Arriving(a)
           src == HostOrder(WholeFrames(d))
           B   == PayloadByte \cup {Silence}
<1>1. /\ TypeOK /\ taken \in Nat /\ opened \in 0 .. taken /\ MaxArrivals \in Nat
      /\ capacity \in Nat \ {0}
  BY Ranges DEF MemoryInv
<1>2. /\ ready /\ taken < MaxArrivals /\ taken' = taken + 1
      /\ last' = Header(d) /\ format' = FormatAfter(d)
      /\ ring' = RingPush(capacity, ring, src)
      /\ relaid' = Relaid(ChannelsOf(d))
      /\ UNCHANGED <<ready, error, dynamic, capacity, hold, encodedReady, opened>>
  BY DEF PollPcm, Take
<1>3. /\ PayloadByte \subseteq PayloadByte' /\ Fresh \subseteq Fresh' /\ B \subseteq B'
  BY <1>1, <1>2, BytesWiden
<1>4. Fresh' \subseteq PayloadByte' /\ PayloadByte' \subseteq B'
  BY DEF Fresh
<1>5. \A i \in Nat : [arrival |-> taken + 1, at |-> i] \in Fresh'
  <2>1. taken + 1 \in 1 .. taken' /\ taken + 1 > opened'  BY <1>1, <1>2
  <2> QED  BY <2>1 DEF Fresh, PayloadByte
<1>6. src \in Seq(Fresh')  BY <1>5, PushedFacts
<1> HIDE DEF src, d
<1>7. ring \in Rings(capacity, B') /\ WellFormed(capacity, ring)
  BY <1>1, <1>3, RingWidens DEF TypeOK
<1> HIDE DEF B
<1>8. Content(capacity, ring) \in Seq(Fresh')
  <2>1. Queued \in Seq(Fresh)  BY <1>2 DEF MemoryInv
  <2> QED  BY <1>3, <2>1, SeqWidens DEF Queued
<1>9. /\ ring' \in Rings(capacity, B') /\ WellFormed(capacity, ring')
      /\ Content(capacity, ring') \in Seq(Fresh')
  <2>1. Fresh' \subseteq B'  BY <1>4
  <2> QED  BY <1>1, <1>2, <1>6, <1>7, <1>8, <2>1, PushKeepsKind
<1>10. Queued' \in Seq(Fresh') /\ Queued' \in Seq(PayloadByte')
  <2>1. Queued' \in Seq(Fresh')  BY <1>2, <1>9 DEF Queued
  <2> QED  BY <1>4, <2>1, SeqWidens
<1>11. hold' \in Seq(Fresh') /\ hold' \in Seq(PayloadByte')
  <2>1. hold \in Seq(Fresh)  BY <1>2 DEF MemoryInv
  <2>2. hold \in Seq(Fresh')  BY <1>3, <2>1, SeqWidens
  <2> QED  BY <1>2, <1>4, <2>2, SeqWidens
<1>12. /\ format' \in [rate : Nat, channels : Nat] /\ format'.channels # 0
       /\ format'.rate \in Nat \ {0} /\ format'.channels \in Channels
  <2>1. /\ ChannelsOf(d) \in Channels /\ ChannelsOf(d) \in Nat \ {0}
        /\ FormatAfter(d) \in [rate : Nat, channels : Nat]
        /\ FormatAfter(d).rate # 0
        /\ FormatAfter(d).channels = ChannelsOf(d)
    BY LayoutOfPacket DEF d
  <2> QED  BY <1>2, <2>1
<1>13. last' \in [pt : Nat, seq : Nat, ssrc : Nat] /\ last'.pt \in 0 .. 127
  BY <1>2, ArrivingFacts DEF d
<1>14. TypeOK'
  <2>1. taken' \in 0 .. MaxArrivals /\ opened' \in 0 .. taken'
    BY <1>1, <1>2
  <2>2. relaid' \in BOOLEAN  BY <1>1, <1>2, Zenon DEF TypeOK, Relaid
  <2>3. ring' \in Rings(capacity', (PayloadByte \cup {Silence})') /\ WellFormed(capacity', ring')
    BY <1>2, <1>9 DEF B
  <2>4. /\ ready' \in BOOLEAN /\ error' \in {"None", "NotReady", "BindFailed", "BadHeader"}
        /\ dynamic' = NoDynamic \/ (dynamic' \in Dynamics /\ dynamic'.pt <= 127 /\ dynamic'.channels # 0)
        /\ capacity' \in {QueueBytes} \cup (CallerSizes \ {0})
        /\ (~ encodedReady' => hold' = <<>>) /\ encodedReady' \in BOOLEAN
    BY <1>1, <1>2, Zenon DEF TypeOK
  <2>5. last'.pt \in (0 .. 127) \cup {NoType}  BY <1>13
  <2> QED  BY <1>11, <1>12, <2>1, <2>2, <2>3, <2>4, <2>5, Zenon DEF TypeOK
<1> QED  BY <1>10, <1>11, <1>12, <1>13, <1>14, Zenon DEF MemoryInv

\* poll() holds a codec packet: it is younger than the session, too.
LEMMA PollEncodedKeepsMemory ==
  ASSUME MemoryInv, NEW a \in Arrivals, PollEncoded(Arriving(a))
  PROVE  MemoryInv'
<1> DEFINE d == Arriving(a)
           x == [i \in 1 .. a.payload |-> [arrival |-> taken + 1, at |-> i]]
<1>1. /\ TypeOK /\ taken \in Nat /\ opened \in 0 .. taken /\ MaxArrivals \in Nat
  BY Ranges DEF MemoryInv
<1>2. /\ ready /\ taken < MaxArrivals /\ taken' = taken + 1
      /\ last' = Header(d) /\ hold' = d.payload /\ encodedReady' = TRUE
      /\ UNCHANGED <<ready, error, format, dynamic, capacity, ring, opened, relaid>>
  BY DEF PollEncoded, Take
<1>3. /\ PayloadByte \subseteq PayloadByte' /\ Fresh \subseteq Fresh'
      /\ (PayloadByte \cup {Silence}) \subseteq (PayloadByte \cup {Silence})'
  BY <1>1, <1>2, BytesWiden
<1>4. \A i \in Nat : [arrival |-> taken + 1, at |-> i] \in Fresh'
  <2>1. taken + 1 \in 1 .. taken' /\ taken + 1 > opened'  BY <1>1, <1>2
  <2> QED  BY <2>1 DEF Fresh, PayloadByte
<1>5. a.payload \in Nat /\ d.payload = x
  BY ArrivingFacts
<1>6. last' \in [pt : Nat, seq : Nat, ssrc : Nat] /\ last'.pt \in 0 .. 127
  BY <1>2, ArrivingFacts
<1> HIDE DEF d
<1>7. x \in Seq(Fresh')
  <2> DEFINE S == Fresh'
             byte(i) == [arrival |-> taken + 1, at |-> i]
  <2>1. \A i \in 1 .. a.payload : byte(i) \in S  BY <1>4
  <2>2. x = [i \in 1 .. a.payload |-> byte(i)]  OBVIOUS
  <2> HIDE DEF S, byte, x
  <2>3. x \in Seq(S)  BY <1>5, <2>1, <2>2
  <2> QED  BY <2>3 DEF S
<1> HIDE DEF x
<1>8. hold' \in Seq(Fresh') /\ hold' \in Seq(PayloadByte')
  <2>1. Fresh' \subseteq PayloadByte'  BY DEF Fresh
  <2> QED  BY <1>2, <1>5, <1>7, <2>1, SeqWidens
<1>9. Queued' = Queued  BY <1>2 DEF Queued
<1>10. Queued' \in Seq(Fresh') /\ Queued' \in Seq(PayloadByte')
  <2>1. Queued \in Seq(Fresh) /\ Queued \in Seq(PayloadByte)  BY <1>2 DEF MemoryInv
  <2>2. Queued \in Seq(Fresh') /\ Queued \in Seq(PayloadByte')
    BY <1>3, <2>1, SeqWidens
  <2> QED  BY <1>9, <2>2
<1>11. TypeOK'
  <2>1. taken' \in 0 .. MaxArrivals /\ opened' \in 0 .. taken'  BY <1>1, <1>2
  <2>2. ring \in Rings(capacity, (PayloadByte \cup {Silence})')
    BY <1>1, <1>3, RingWidens DEF TypeOK
  <2>3. ring' \in Rings(capacity', (PayloadByte \cup {Silence})')
    BY <1>2, <2>2
  <2>4. /\ ready' \in BOOLEAN /\ error' \in {"None", "NotReady", "BindFailed", "BadHeader"}
        /\ format' = NoFormat \/ (format'.rate \in Nat \ {0} /\ format'.channels \in Channels)
        /\ dynamic' = NoDynamic \/ (dynamic' \in Dynamics /\ dynamic'.pt <= 127 /\ dynamic'.channels # 0)
        /\ capacity' \in {QueueBytes} \cup (CallerSizes \ {0})
        /\ WellFormed(capacity', ring') /\ relaid' \in BOOLEAN
    BY <1>1, <1>2, Zenon DEF TypeOK
  <2>5. last'.pt \in (0 .. 127) \cup {NoType} /\ encodedReady' \in BOOLEAN
        /\ (~ encodedReady' => hold' = <<>>)
    BY <1>2, <1>6
  <2> QED  BY <1>8, <2>1, <2>3, <2>4, <2>5, Zenon DEF TypeOK
<1> QED  BY <1>2, <1>6, <1>8, <1>10, <1>11, Zenon DEF MemoryInv

\* readFrames() asks the ring for whole frames that it has.
LEMMA TakeBytesFacts ==
  ASSUME MemoryInv, NEW n \in 1 .. MaxTake, ReadFrames(n)
  PROVE  /\ format.channels \in Nat \ {0}
         /\ BytesPerFrame(format) = 2 * format.channels
         /\ BytesPerFrame(format) \in Nat \ {0}
         /\ TakeBytes(n) \in Nat /\ TakeBytes(n) <= ring.count
         /\ TakeBytes(n) % BytesPerFrame(format) = 0
<1> DEFINE k == BytesPerFrame(format)
           m == Least(n, ring.count \div k)
<1>1. ring.count \in Nat /\ n \in Nat
  BY Ranges, BoundAssumption DEF MemoryInv
<1>2. Least(n, AvailableFrames) > 0  BY DEF ReadFrames
<1>3. format.channels # 0
  <2>1. CASE format.channels = 0
    <3>1. AvailableFrames = 0  BY <2>1 DEF AvailableFrames
    <3> QED  BY <1>1, <1>2, <3>1 DEF Least
  <2> QED  BY <2>1
<1>4. format.channels \in Nat \ {0}
  BY <1>3 DEF MemoryInv
<1>5. k = 2 * format.channels /\ k \in Nat \ {0}
  BY <1>4 DEF BytesPerFrame
<1>6. TakeBytes(n) = m * k
  BY <1>3 DEF TakeBytes, AvailableFrames
<1> HIDE DEF k
<1>7. m \in Nat /\ m <= ring.count \div k
  <2>1. ring.count \div k \in Nat  BY <1>1, <1>5
  <2> QED  BY <1>1, <2>1 DEF Least
<1> HIDE DEF m
<1>8. m * k \in Nat /\ m * k <= ring.count /\ (m * k) % k = 0
  BY <1>1, <1>5, <1>7, BytesOfFrames
<1> QED  BY <1>4, <1>5, <1>6, <1>8 DEF k

LEMMA ReadKeepsMemory ==
  ASSUME MemoryInv, NEW n \in 1 .. MaxTake, ReadFrames(n)
  PROVE  MemoryInv'
<1> DEFINE t == TakeBytes(n)
           B == PayloadByte \cup {Silence}
<1>1. TypeOK /\ capacity \in Nat \ {0} /\ taken \in 0 .. MaxArrivals /\ opened \in 0 .. taken
  BY Ranges DEF MemoryInv, TypeOK
<1>2. /\ ready /\ ring' = RingPop(capacity, ring, t)
      /\ relaid' = (relaid /\ ring'.count # 0)
      /\ UNCHANGED <<ready, error, format, dynamic, last, capacity, hold, encodedReady,
                     taken, opened>>
  BY DEF ReadFrames
<1>3. t \in Nat  BY TakeBytesFacts
<1>4. PayloadByte' = PayloadByte /\ Fresh' = Fresh  BY <1>2 DEF PayloadByte, Fresh
<1>5. ring \in Rings(capacity, B) /\ WellFormed(capacity, ring)
  BY <1>1 DEF TypeOK
<1> HIDE DEF t, B
<1>6. Queued \in Seq(PayloadByte) /\ Queued \in Seq(Fresh)
  BY <1>2 DEF MemoryInv
<1>7. /\ ring' \in Rings(capacity, B) /\ WellFormed(capacity, ring')
      /\ Content(capacity, ring') \in Seq(PayloadByte)
      /\ Content(capacity, ring') \in Seq(Fresh)
  BY <1>1, <1>2, <1>3, <1>5, <1>6, PopKeepsKind DEF Queued
<1>8. Queued' \in Seq(PayloadByte') /\ Queued' \in Seq(Fresh')
  BY <1>2, <1>4, <1>7 DEF Queued
<1>9. hold' \in Seq(PayloadByte') /\ hold' \in Seq(Fresh')
  BY <1>1, <1>2, <1>4 DEF MemoryInv, TypeOK
<1>10. TypeOK'
  <2>1. relaid' \in BOOLEAN  BY <1>2, Zenon
  <2>2. ring' \in Rings(capacity', (PayloadByte \cup {Silence})') /\ WellFormed(capacity', ring')
    BY <1>2, <1>4, <1>7 DEF B
  <2> QED  BY <1>1, <1>2, <1>9, <2>1, <2>2, Zenon DEF TypeOK
<1> QED  BY <1>2, <1>8, <1>9, <1>10, Zenon DEF MemoryInv

\* readEncoded() empties the hold.
LEMMA ReadEncodedKeepsMemory ==
  ASSUME MemoryInv, NEW size \in ReadSizes, ReadEncoded(size)
  PROVE  MemoryInv'
<1>1. /\ hold' = <<>> /\ encodedReady' = FALSE
      /\ UNCHANGED <<ready, error, format, dynamic, last, capacity, ring,
                     taken, opened, relaid>>
  BY DEF ReadEncoded, AfterRead
<1>2. Queued' = Queued /\ PayloadByte' = PayloadByte /\ Fresh' = Fresh
  BY <1>1 DEF Queued, PayloadByte, Fresh
<1>3. hold' \in Seq(PayloadByte') /\ hold' \in Seq(Fresh')  BY <1>1
<1>4. encodedReady' \in BOOLEAN  BY <1>1
<1>5. TypeOK'  BY <1>1, <1>2, <1>3, <1>4, Zenon DEF TypeOK, MemoryInv
<1> QED  BY <1>1, <1>2, <1>3, <1>5, Zenon DEF MemoryInv

LEMMA StepKeepsMemory == MemoryInv /\ [Next]_vars => MemoryInv'
<1> SUFFICES ASSUME MemoryInv, [Next]_vars PROVE MemoryInv'
  OBVIOUS
<1>1. /\ TypeOK /\ taken \in 0 .. MaxArrivals /\ taken \in Nat /\ MaxArrivals \in Nat
      /\ error \in {"None", "NotReady", "BindFailed", "BadHeader"} /\ relaid \in BOOLEAN
  BY Ranges, Zenon DEF MemoryInv, TypeOK
<1>2. CASE Begin \/ End  BY <1>2, DropKeepsMemory
<1>3. CASE BeginFails \/ SetPcmBufferRefused
  BY <1>1, <1>3, QuietKeepsMemory DEF BeginFails, SetPcmBufferRefused
<1>4. ASSUME NEW size \in CallerSizes, SetPcmBuffer(size) PROVE MemoryInv'
  BY <1>4, SetPcmBufferKeepsMemory
<1>5. ASSUME NEW f \in Formats, SetFormatRejected(f) PROVE MemoryInv'
  BY <1>1, <1>5, QuietKeepsMemory DEF SetFormatRejected
<1>6. ASSUME NEW p \in Dynamics, SetDynamicRejected(p) PROVE MemoryInv'
  BY <1>1, <1>6, QuietKeepsMemory DEF SetDynamicRejected
<1>7. ASSUME (\E f \in Formats : SetFormat(f)) \/ (\E p \in Dynamics : SetDynamic(p))
      PROVE  MemoryInv'
  BY <1>7, SettersKeepMemory
<1>8. ASSUME NEW a \in Arrivals, PollRunt(Arriving(a)) \/ PollBad(Arriving(a))
      PROVE  MemoryInv'
  <2>1. /\ taken < MaxArrivals /\ taken' = taken + 1 /\ error' \in {error, "BadHeader"}
        /\ UNCHANGED <<ready, format, dynamic, last, capacity, ring, hold, encodedReady,
                       opened, relaid>>
    BY <1>8 DEF PollRunt, PollBad, Take
  <2>2. taken' \in 0 .. MaxArrivals  BY <1>1, <2>1
  <2> QED  BY <1>1, <2>1, <2>2, QuietKeepsMemory
<1>9. ASSUME NEW a \in Arrivals, PollPcm(Arriving(a)) PROVE MemoryInv'
  BY <1>9, PollPcmKeepsMemory
<1>10. ASSUME NEW a \in Arrivals, PollEncoded(Arriving(a)) PROVE MemoryInv'
  BY <1>10, PollEncodedKeepsMemory
<1>11. ASSUME NEW n \in 1 .. MaxTake, ReadFrames(n) PROVE MemoryInv'
  BY <1>11, ReadKeepsMemory
<1>12. ASSUME NEW size \in ReadSizes, ReadEncoded(size) PROVE MemoryInv'
  BY <1>12, ReadEncodedKeepsMemory
<1>13. CASE UNCHANGED vars
  BY <1>1, <1>13, QuietKeepsMemory DEF vars
<1> QED
  BY <1>2, <1>3, <1>4, <1>5, <1>6, <1>7, <1>8, <1>9, <1>10, <1>11, <1>12, <1>13 DEF Next

LEMMA MemoryInvHolds == Spec => []MemoryInv
BY MemoryInit, StepKeepsMemory, PTL DEF Spec

\* Every variable of the receiver keeps its range: the indices stay inside the
\* array of either origin, a declared or heard layout is one the application
\* offered, and the hold is empty unless a packet waits in it.
THEOREM ReceiverIsTypeCorrect == Spec => []TypeOK
BY MemoryInvHolds, PTL DEF MemoryInv

\* No byte of an earlier session comes out of an open receiver, by readFrames()
\* or by readEncoded(), over every order of begin(), failed begin(), end(),
\* setPcmBuffer() and polls, and for buffers of every size.
THEOREM SessionsNeverMix == Spec => []OnlyFreshAudio
<1>1. MemoryInv => OnlyFreshAudio
  <2> SUFFICES ASSUME MemoryInv, ready
               PROVE  /\ \A i \in 1 .. ring.count : Queued[i].arrival > opened
                      /\ encodedReady /\ hold # <<>> => hold[1].arrival > opened
    BY DEF OnlyFreshAudio
  <2>1. Queued \in Seq(Fresh) /\ hold \in Seq(Fresh)  BY DEF MemoryInv
  <2>2. Len(Queued) = ring.count
    <3>1. capacity \in Nat \ {0} /\ ring \in Rings(capacity, PayloadByte \cup {Silence})
      BY Ranges DEF MemoryInv, TypeOK
    <3> QED  BY <3>1, ContentType DEF Queued
  <2>3. \A i \in 1 .. ring.count : Queued[i] \in Fresh  BY <2>1, <2>2
  <2>4. hold # <<>> => hold[1] \in Fresh  BY <2>1, FirstOfSeq
  <2> QED  BY <2>3, <2>4 DEF Fresh
<1> QED  BY <1>1, MemoryInvHolds, PTL

-----------------------------------------------------------------------------
(* How the bytes of samples lie in the ring.                                *)

Bytes == [arrival : Int, at : Int]

\* Whole samples, high byte at the odd places, each byte followed by the next
\* one of the audio as it was sent.
SampleBytes(s) ==
  /\ Len(s) % 2 = 0
  /\ \A i \in 1 .. Len(s) : s[i].at % 2 = (i - 1) % 2
  /\ \A i \in 1 .. Len(s) - 1 : NextByte(s[i], s[i + 1])

\* src begins with the first sample of a packet younger than all of old.
Younger(old, src) ==
  \A i \in 1 .. Len(old), j \in 1 .. Len(src) :
    src[j].arrival > old[i].arrival /\ (j = 1 => src[j].at = 2)

LEMMA SwappedIsSamples ==
  ASSUME NEW src, NEW n \in Nat, NEW t \in Int, n % 2 = 0, Swapped(src, n, t)
  PROVE  SampleBytes(src)
<1>1. ASSUME NEW i \in 1 .. n PROVE src[i].at % 2 = (i - 1) % 2
  <2>1. src[i] = [arrival |-> t, at |-> IF i % 2 = 1 THEN i + 1 ELSE i - 1]
    BY DEF Swapped
  <2>2. src[i].at = IF i % 2 = 1 THEN i + 1 ELSE i - 1  BY <2>1
  <2> QED  BY <2>2
<1>2. ASSUME NEW i \in 1 .. n - 1 PROVE NextByte(src[i], src[i + 1])
  <2>1. i \in 1 .. n /\ i + 1 \in 1 .. n  OBVIOUS
  <2>2. /\ src[i] = [arrival |-> t, at |-> IF i % 2 = 1 THEN i + 1 ELSE i - 1]
        /\ src[i + 1] = [arrival |-> t, at |-> IF (i + 1) % 2 = 1 THEN (i + 1) + 1 ELSE (i + 1) - 1]
    BY <2>1, Zenon DEF Swapped
  <2>3. /\ src[i].arrival = t /\ src[i + 1].arrival = t
        /\ src[i].at = IF i % 2 = 1 THEN i + 1 ELSE i - 1
        /\ src[i + 1].at = IF i % 2 = 1 THEN i ELSE i + 2
    BY <2>2
  <2>4. CASE i % 2 = 1
    <3>1. src[i].at = i + 1 /\ src[i + 1].at = i /\ (i + 1) % 2 = 0
      BY <2>3, <2>4
    <3> QED  BY <2>3, <3>1 DEF NextByte
  <2>5. CASE i % 2 # 1
    <3>1. src[i].at = i - 1 /\ src[i + 1].at = i + 2 /\ (i - 1) % 2 = 1
      BY <2>3, <2>5
    <3> QED  BY <2>3, <3>1 DEF NextByte
  <2> QED  BY <2>4, <2>5
<1>3. Len(src) = n  BY DEF Swapped
<1> QED  BY <1>1, <1>2, <1>3 DEF SampleBytes

LEMMA SameParity ==
  ASSUME NEW d \in Int, NEW p \in Int, d % 2 = 0
  PROVE  ((d + p) - 1) % 2 = (p - 1) % 2 /\ ((p + d) - 1) % 2 = (p - 1) % 2
OBVIOUS

\* A push onto a ring of an even size leaves whole samples in order.
LEMMA PushKeepsSamples ==
  ASSUME NEW cap \in Nat \ {0}, cap % 2 = 0,
         NEW old \in Seq(Bytes), NEW src \in Seq(Bytes), NEW new \in Seq(Bytes),
         Overrun(cap, old, src, new),
         SampleBytes(old), SampleBytes(src), Younger(old, src)
  PROVE  SampleBytes(new)
<1> DEFINE d == Len(old) + Len(src) - Len(new)
           both(q) == IF q <= Len(old) THEN old[q] ELSE src[q - Len(old)]
           l == Len(old)
           m == Len(src)
           n == Len(new)
<1>1. /\ l \in Nat /\ m \in Nat /\ n \in Nat /\ l % 2 = 0 /\ m % 2 = 0
      /\ n = IF l + m <= cap THEN l + m ELSE cap
  <2>1. l \in Nat /\ m \in Nat /\ n \in Nat  OBVIOUS
  <2>2. l % 2 = 0 /\ m % 2 = 0  BY Zenon DEF SampleBytes
  <2>3. n = IF l + m <= cap THEN l + m ELSE cap  BY Zenon DEF Overrun
  <2> QED  BY <2>1, <2>2, <2>3
<1>2. ASSUME NEW p \in 1 .. n
      PROVE  new[p] = both(d + p)
  BY <1>2 DEF Overrun
<1>3. d = l + m - n  OBVIOUS
<1>4. \A q \in 1 .. l : both(q) = old[q]  BY <1>1
<1>5. \A q \in l + 1 .. l + m : both(q) = src[q - l]  BY <1>1
<1>6. \A i \in 1 .. l : old[i].at % 2 = (i - 1) % 2
  BY DEF SampleBytes
<1>7. \A i \in 1 .. m : src[i].at % 2 = (i - 1) % 2
  BY DEF SampleBytes
<1>8. \A i \in 1 .. l - 1 : NextByte(old[i], old[i + 1])
  BY DEF SampleBytes
<1>9. \A i \in 1 .. m - 1 : NextByte(src[i], src[i + 1])
  BY DEF SampleBytes
<1>10. ASSUME l > 0, m > 0 PROVE NextByte(old[l], src[1])
  <2>1. l \in 1 .. l /\ 1 \in 1 .. m  BY <1>1, <1>10, SMTT(30)
  <2>2. src[1].arrival > old[l].arrival /\ src[1].at = 2
    BY <2>1 DEF Younger
  <2>3. old[l].at % 2 = 1
    <3>1. old[l].at % 2 = (l - 1) % 2  BY <1>6, <2>1, Zenon
    <3> HIDE DEF l
    <3>2. (l - 1) % 2 = 1  BY <1>1, SMTT(30)
    <3> QED  BY <3>1, <3>2
  <2> QED  BY <2>2, <2>3 DEF NextByte
<1>11. n % 2 = 0 /\ d \in Nat /\ d % 2 = 0
  <2> HIDE DEF d, l, m, n
  <2> QED  BY <1>1, <1>3
<1>12. \A p \in 1 .. n : d + p \in 1 .. l + m
  <2> HIDE DEF d, l, m, n
  <2> QED  BY <1>1, <1>3, <1>11
<1> HIDE DEF d, both
<1>13. ASSUME NEW p \in 1 .. n PROVE new[p].at % 2 = (p - 1) % 2
  <2> HIDE DEF l, m, n
  <2>1. new[p] = both(d + p) /\ d + p \in 1 .. l + m  BY <1>2, <1>12
  <2>2. CASE d + p <= l
    <3>1. d + p \in 1 .. l  BY <1>1, <2>1, <2>2
    <3>2. new[p].at % 2 = ((d + p) - 1) % 2  BY <1>4, <1>6, <2>1, <3>1, Zenon
    <3>3. ((d + p) - 1) % 2 = (p - 1) % 2  BY <1>11, SameParity
    <3> QED  BY <3>2, <3>3
  <2>3. CASE d + p > l
    <3> DEFINE x == d + p
    <3>1. x \in 1 .. l + m /\ x > l  BY <2>1, <2>3
    <3> HIDE DEF x
    <3>2. x \in l + 1 .. l + m /\ x - l \in 1 .. m  BY <1>1, <3>1
    <3>3. new[p] = both(x)  BY <2>1 DEF x
    <3>4. new[p].at % 2 = ((x - l) - 1) % 2  BY <1>5, <1>7, <3>2, <3>3, Zenon
    <3>5. (d - l) \in Int /\ (d - l) % 2 = 0 /\ x - l = (d - l) + p
      BY <1>1, <1>11 DEF x
    <3>6. (((d - l) + p) - 1) % 2 = (p - 1) % 2  BY <3>5, SameParity, SMTT(30)
    <3> QED  BY <3>4, <3>5, <3>6
  <2> QED  BY <1>1, <1>11, <2>2, <2>3
<1>14. ASSUME NEW p \in 1 .. n - 1 PROVE NextByte(new[p], new[p + 1])
  <2> DEFINE q == d + p
  <2> HIDE DEF l, m, n
  <2>1. p \in 1 .. n /\ p + 1 \in 1 .. n  BY <1>1
  <2>2. d + (p + 1) = q + 1 /\ q \in 1 .. l + m /\ q + 1 \in 1 .. l + m
    BY <1>11, <1>12, <2>1
  <2>3. new[p] = both(q) /\ new[p + 1] = both(q + 1)  BY <1>2, <2>1, <2>2
  <2> HIDE DEF q
  <2>4. CASE q < l
    <3>1. q \in 1 .. l /\ q + 1 \in 1 .. l /\ q \in 1 .. l - 1  BY <1>1, <2>2, <2>4
    <3> QED  BY <1>4, <1>8, <2>3, <3>1
  <2>5. CASE q = l
    <3>1. /\ q \in 1 .. l /\ q + 1 \in l + 1 .. l + m /\ (q + 1) - l = 1
          /\ l > 0 /\ m > 0
      BY <1>1, <2>2, <2>5
    <3>2. both(q) = old[q] /\ both(q + 1) = src[1]  BY <1>4, <1>5, <3>1
    <3> QED  BY <1>10, <2>3, <2>5, <3>1, <3>2
  <2>6. CASE q > l
    <3>1. /\ q \in l + 1 .. l + m /\ q + 1 \in l + 1 .. l + m /\ q - l \in 1 .. m - 1
          /\ (q + 1) - l = (q - l) + 1
      BY <1>1, <2>2, <2>6
    <3>2. both(q) = src[q - l] /\ both(q + 1) = src[(q - l) + 1]  BY <1>5, <3>1
    <3> QED  BY <1>9, <2>3, <3>1, <3>2
  <2> QED  BY <1>1, <2>2, <2>4, <2>5, <2>6
<1> QED  BY <1>11, <1>13, <1>14 DEF SampleBytes

\* A read of an even number of bytes, too.
LEMMA PopKeepsSamples ==
  ASSUME NEW old \in Seq(Bytes), NEW n \in Nat, n <= Len(old), n % 2 = 0,
         NEW read, NEW new \in Seq(Bytes), SplitAt(n, old, read, new),
         SampleBytes(old)
  PROVE  SampleBytes(new)
<1> DEFINE l == Len(old)
           m == Len(new)
<1>1. l \in Nat /\ m = l - n /\ l % 2 = 0 /\ \A p \in 1 .. m : new[p] = old[n + p]
  <2>1. l \in Nat  OBVIOUS
  <2>2. l % 2 = 0  BY Zenon DEF SampleBytes
  <2>3. m = l - n /\ \A p \in 1 .. m : new[p] = old[n + p]  BY Zenon DEF SplitAt
  <2> QED  BY <2>1, <2>2, <2>3
<1>2. \A i \in 1 .. l : old[i].at % 2 = (i - 1) % 2  BY DEF SampleBytes
<1>3. \A i \in 1 .. l - 1 : NextByte(old[i], old[i + 1])  BY DEF SampleBytes
<1>4. ASSUME NEW p \in 1 .. m PROVE new[p].at % 2 = (p - 1) % 2
  <2> HIDE DEF l, m
  <2>1. n + p \in 1 .. l  BY <1>1
  <2>2. new[p].at % 2 = ((n + p) - 1) % 2  BY <1>1, <1>2, <2>1, Zenon
  <2>3. ((n + p) - 1) % 2 = (p - 1) % 2  BY <1>1, SameParity
  <2> QED  BY <2>2, <2>3
<1>5. ASSUME NEW p \in 1 .. m - 1 PROVE NextByte(new[p], new[p + 1])
  <2> HIDE DEF l, m
  <2>1. /\ n + p \in 1 .. l - 1 /\ p \in 1 .. m /\ p + 1 \in 1 .. m
        /\ n + (p + 1) = (n + p) + 1
    BY <1>1
  <2> QED  BY <1>1, <1>3, <2>1
<1>6. m % 2 = 0
  <2> HIDE DEF l, m
  <2> QED  BY <1>1
<1> QED  BY <1>4, <1>5, <1>6 DEF SampleBytes

-----------------------------------------------------------------------------
(* How the bytes of frames of k bytes lie in the ring.                      *)

\* The k bytes of s behind the p-th are a frame: of one packet, from the start
\* of one of its frames.
FrameBehind(s, k, p) ==
  /\ p + k <= Len(s)
  /\ (s[p + 1].at - 2) % k = 0
  /\ \A j \in 1 .. k : s[p + j].arrival = s[p + 1].arrival

WholeFrameBytes(s, k) ==
  /\ Len(s) % k = 0
  /\ \A p \in 0 .. Len(s) - 1 : p % k = 0 => FrameBehind(s, k, p)

LEMMA SwappedIsFrames ==
  ASSUME NEW c \in Nat \ {0}, NEW k, k = 2 * c, NEW src, NEW n \in Nat, NEW t \in Int,
         n % k = 0, Swapped(src, n, t)
  PROVE  WholeFrameBytes(src, k)
<1>1. Len(src) = n /\ k \in Nat \ {0}  BY DEF Swapped
<1>2. ASSUME NEW p \in 0 .. n - 1, p % k = 0 PROVE FrameBehind(src, k, p)
  <2>1. p + k <= n
    <3>1. p \in Int /\ n \in Int /\ p < n  OBVIOUS
    <3> QED  BY <1>1, <1>2, <3>1, MultiplesApart, Zenon
  <2>2. \A j \in 1 .. k : p + j \in 1 .. n  BY <1>1, <2>1
  <2>3. \A i \in 1 .. n : src[i].arrival = t
    <3>1. \A i \in 1 .. n :
            src[i] = [arrival |-> t, at |-> IF i % 2 = 1 THEN i + 1 ELSE i - 1]
      BY Zenon DEF Swapped
    <3> SUFFICES ASSUME NEW i \in 1 .. n PROVE src[i].arrival = t
      OBVIOUS
    <3>2. src[i] = [arrival |-> t, at |-> IF i % 2 = 1 THEN i + 1 ELSE i - 1]
      BY <3>1
    <3> QED  BY <3>2
  <2>4. p % 2 = 0
    <3>1. p \in Int /\ p % (2 * c) = 0  BY <1>2
    <3> QED  BY <3>1, FramesAreEven, Zenon
  <2>5. src[p + 1].at = p + 2
    <3>1. p + 1 \in 1 .. n /\ (p + 1) % 2 = 1  BY <2>4
    <3>2. src[p + 1] = [arrival |-> t, at |-> IF (p + 1) % 2 = 1 THEN (p + 1) + 1 ELSE (p + 1) - 1]
      BY <3>1, Zenon DEF Swapped
    <3> QED  BY <3>1, <3>2
  <2>6. (src[p + 1].at - 2) % k = 0
    <3>1. src[p + 1].at - 2 = p  BY <2>5
    <3> QED  BY <1>2, <3>1
  <2>7. 1 \in 1 .. k  BY <1>1
  <2>8. \A j \in 1 .. k : src[p + j].arrival = src[p + 1].arrival
    BY <2>2, <2>3, <2>7
  <2> QED  BY <1>1, <2>1, <2>6, <2>8 DEF FrameBehind
<1> QED  BY <1>1, <1>2 DEF WholeFrameBytes

\* The same frame at another place.
LEMMA FrameMoved ==
  ASSUME NEW k \in Nat \ {0}, NEW s, NEW r, NEW p \in Nat, NEW q \in Nat,
         FrameBehind(s, k, p), q + k <= Len(r),
         \A j \in 1 .. k : r[q + j] = s[p + j]
  PROVE  FrameBehind(r, k, q)
<1>1. 1 \in 1 .. k  OBVIOUS
<1>2. r[q + 1] = s[p + 1]  BY <1>1
<1> QED  BY <1>2 DEF FrameBehind

\* A push onto a ring that is a whole number of frames leaves whole frames.
LEMMA PushKeepsFrames ==
  ASSUME NEW k \in Nat \ {0}, NEW cap \in Nat \ {0}, cap % k = 0,
         NEW old \in Seq(Bytes), NEW src \in Seq(Bytes), NEW new \in Seq(Bytes),
         Overrun(cap, old, src, new),
         WholeFrameBytes(old, k), WholeFrameBytes(src, k)
  PROVE  WholeFrameBytes(new, k)
<1> DEFINE l == Len(old)
           m == Len(src)
           n == Len(new)
           d == l + m - n
           both(q) == IF q <= l THEN old[q] ELSE src[q - l]
<1>1. /\ l \in Nat /\ m \in Nat /\ n \in Nat /\ l % k = 0 /\ m % k = 0
      /\ n = IF l + m <= cap THEN l + m ELSE cap
  <2>1. l \in Nat /\ m \in Nat /\ n \in Nat  OBVIOUS
  <2>2. l % k = 0 /\ m % k = 0  BY Zenon DEF WholeFrameBytes
  <2>3. n = IF l + m <= cap THEN l + m ELSE cap  BY Zenon DEF Overrun
  <2> QED  BY <2>1, <2>2, <2>3
<1>2. ASSUME NEW p \in 1 .. n PROVE new[p] = both(d + p)
  BY <1>2 DEF Overrun
<1>3. d = l + m - n  OBVIOUS
<1>4. \A q \in 1 .. l : both(q) = old[q]  BY <1>1
<1>5. \A q \in l + 1 .. l + m : both(q) = src[q - l]  BY <1>1
<1>6. \A p \in 0 .. l - 1 : p % k = 0 => FrameBehind(old, k, p)
  BY DEF WholeFrameBytes
<1>7. \A p \in 0 .. m - 1 : p % k = 0 => FrameBehind(src, k, p)
  BY DEF WholeFrameBytes
<1>8. (l + m) % k = 0 /\ n % k = 0
  <2> HIDE DEF l, m, n, d, both
  <2>1. l \in Int /\ m \in Int  BY <1>1
  <2>2. (l + m) % k = 0  BY <1>1, <2>1, MultiplesAdd, Zenon
  <2>3. n = l + m \/ n = cap  BY <1>1
  <2> QED  BY <2>2, <2>3
<1> HIDE DEF l, m, d, both
<1>9. d \in Nat /\ d + n = l + m /\ d % k = 0
  <2> HIDE DEF n
  <2>1. d \in Nat /\ d + n = l + m  BY <1>1, <1>3
  <2>2. l + m \in Int /\ n \in Int  BY <1>1
  <2>3. ((l + m) - n) % k = 0  BY <1>8, <2>2, MultiplesAdd, Zenon
  <2>4. d % k = 0
    <3>1. d = (l + m) - n  BY <1>1, <1>3
    <3> QED  BY <2>3, <3>1
  <2> QED  BY <2>1, <2>4
<1>10. ASSUME NEW p \in 0 .. n - 1, p % k = 0 PROVE FrameBehind(new, k, p)
  <2> DEFINE q == d + p
  <2>1. /\ q \in 0 .. (l + m) - 1 /\ q % k = 0 /\ p + k <= n
        /\ \A j \in 1 .. k : p + j \in 1 .. n
    <3> HIDE DEF n
    <3>1. q \in 0 .. (l + m) - 1  BY <1>1, <1>9
    <3>2. d \in Int /\ p \in Int /\ n \in Int /\ p < n  BY <1>1, <1>9
    <3>3. p + k <= n  BY <1>8, <1>10, <3>2, MultiplesApart, Zenon
    <3>4. q % k = 0  BY <1>9, <1>10, <3>2, MultiplesAdd, Zenon
    <3> HIDE DEF q
    <3> QED  BY <1>1, <3>1, <3>2, <3>3, <3>4
  <2>2. \A j \in 1 .. k : new[p + j] = both(q + j)
    <3>1. \A j \in 1 .. k : d + (p + j) = q + j  BY <1>9
    <3> QED  BY <1>2, <2>1, <3>1
  <2> HIDE DEF q
  <2>3. CASE q < l
    <3>0. q \in Int /\ l \in Int  BY <1>1, <2>1
    <3>1. q + k <= l  BY <1>1, <2>1, <2>3, <3>0, MultiplesApart, Zenon
    <3>2. q \in 0 .. l - 1  BY <1>1, <2>1, <2>3
    <3>3. FrameBehind(old, k, q)  BY <1>6, <2>1, <3>2, Zenon
    <3>4. \A j \in 1 .. k : q + j \in 1 .. l  BY <1>1, <2>1, <3>1, <3>2
    <3>5. \A j \in 1 .. k : new[p + j] = old[q + j]
      BY <1>4, <2>2, <3>4, Zenon
    <3>6. q \in Nat /\ p \in Nat /\ p + k <= Len(new)  BY <2>1, <3>2
    <3> QED  BY <3>3, <3>5, <3>6, FrameMoved, Zenon
  <2>4. CASE q >= l
    <3> DEFINE x == q - l
    <3>1. x \in 0 .. m - 1 /\ q = l + x  BY <1>1, <2>1, <2>4
    <3>2. x % k = 0
      <4>1. q \in Int /\ l \in Int  BY <1>1, <2>1
      <4> QED  BY <1>1, <2>1, <4>1, MultiplesAdd, Zenon
    <3> HIDE DEF x
    <3>3. FrameBehind(src, k, x)  BY <1>7, <3>1, <3>2, Zenon
    <3>4. x + k <= m
      <4>1. x \in Int /\ m \in Int /\ x < m  BY <1>1, <3>1
      <4> QED  BY <1>1, <3>2, <4>1, MultiplesApart, Zenon
    <3>5. \A j \in 1 .. k : q + j \in l + 1 .. l + m /\ (q + j) - l = x + j
      BY <1>1, <3>1, <3>4
    <3>6. \A j \in 1 .. k : new[p + j] = src[x + j]
      BY <1>5, <2>2, <3>5
    <3>7. x \in Nat /\ p \in Nat /\ p + k <= Len(new)  BY <2>1, <3>1
    <3> QED  BY <3>3, <3>6, <3>7, FrameMoved, Zenon
  <2> QED  BY <1>1, <2>1, <2>3, <2>4
<1> QED  BY <1>8, <1>10 DEF WholeFrameBytes

\* A read of whole frames, too.
LEMMA PopKeepsFrames ==
  ASSUME NEW k \in Nat \ {0}, NEW old \in Seq(Bytes), NEW n \in Nat, n <= Len(old),
         n % k = 0, NEW read, NEW new \in Seq(Bytes), SplitAt(n, old, read, new),
         WholeFrameBytes(old, k)
  PROVE  WholeFrameBytes(new, k)
<1> DEFINE l == Len(old)
           m == Len(new)
<1>1. l \in Nat /\ m = l - n /\ l % k = 0 /\ \A p \in 1 .. m : new[p] = old[n + p]
  <2>1. l \in Nat  OBVIOUS
  <2>2. l % k = 0  BY Zenon DEF WholeFrameBytes
  <2>3. m = l - n /\ \A p \in 1 .. m : new[p] = old[n + p]  BY Zenon DEF SplitAt
  <2> QED  BY <2>1, <2>2, <2>3
<1>2. \A p \in 0 .. l - 1 : p % k = 0 => FrameBehind(old, k, p)
  BY DEF WholeFrameBytes
<1> HIDE DEF l
<1>3. m % k = 0
  <2>1. l \in Int /\ n \in Int  BY <1>1
  <2>2. (l - n) % k = 0  BY <1>1, <2>1, MultiplesAdd, Zenon
  <2> QED  BY <1>1, <2>2
<1>4. ASSUME NEW p \in 0 .. m - 1, p % k = 0 PROVE FrameBehind(new, k, p)
  <2>1. p + k <= m /\ n + p \in 0 .. l - 1 /\ (n + p) % k = 0
    <3> HIDE DEF m
    <3>1. m \in Int /\ p < m /\ p \in Int /\ n \in Int  BY <1>1
    <3>2. p + k <= m  BY <1>3, <1>4, <3>1, MultiplesApart, Zenon
    <3>3. (n + p) % k = 0  BY <1>4, <3>1, MultiplesAdd, Zenon
    <3> QED  BY <1>1, <3>1, <3>2, <3>3
  <2>2. FrameBehind(old, k, n + p)  BY <1>2, <2>1, Zenon
  <2>3. \A j \in 1 .. k : new[p + j] = old[(n + p) + j]
    <3>1. \A j \in 1 .. k : p + j \in 1 .. m /\ n + (p + j) = (n + p) + j
      BY <1>1, <2>1
    <3> QED  BY <1>1, <3>1
  <2>4. p \in Nat /\ n + p \in Nat  OBVIOUS
  <2> QED  BY <2>1, <2>2, <2>3, <2>4, FrameMoved, Zenon
<1> QED  BY <1>3, <1>4 DEF WholeFrameBytes

-----------------------------------------------------------------------------
\* How the ring lies, step by step.  Frames are whole under the layout they are
\* to be read by, unless the channel count changed over them.
LayoutInv ==
  /\ capacity % 2 = 0 => SampleBytes(Queued)
  /\ format.channels # 0 /\ ~ relaid /\ capacity % BytesPerFrame(format) = 0 =>
       WholeFrameBytes(Queued, BytesPerFrame(format))

LEMMA NothingIsWhole ==
  /\ SampleBytes(<<>>)
  /\ \A k \in Nat \ {0} : WholeFrameBytes(<<>>, k)
BY DEF SampleBytes, WholeFrameBytes

\* The queue as a sequence.
LEMMA QueueFacts ==
  ASSUME MemoryInv
  PROVE  /\ Queued \in Seq(Bytes) /\ Len(Queued) = ring.count
         /\ ring.count = 0 => Queued = <<>>
         /\ \A i \in 1 .. Len(Queued) : Queued[i].arrival \in Int /\ Queued[i].arrival <= taken
<1>1. Queued \in Seq(PayloadByte)  BY DEF MemoryInv
<1>2. taken \in Nat  BY Ranges DEF MemoryInv
<1>3. PayloadByte \subseteq Bytes  BY <1>2 DEF PayloadByte, Bytes
<1>4. Len(Queued) = ring.count
  <2>1. capacity \in Nat \ {0} /\ ring \in Rings(capacity, PayloadByte \cup {Silence})
    BY Ranges DEF MemoryInv, TypeOK
  <2> QED  BY <2>1, ContentType DEF Queued
<1>5. Queued \in Seq(Bytes)  BY <1>1, <1>3, SeqWidens
<1>6. ring.count = 0 => Queued = <<>>  BY <1>4, <1>5, EmptySeq
<1>7. \A i \in 1 .. Len(Queued) : Queued[i] \in PayloadByte  BY <1>1
<1> QED  BY <1>2, <1>4, <1>5, <1>6, <1>7 DEF PayloadByte

QueueIsBytes == Queued \in Seq(Bytes) /\ (ring.count = 0 => Queued = <<>>)

LEMMA QueueFactsNext == MemoryInv' => QueueIsBytes'
<1>1. MemoryInv => QueueIsBytes  BY QueueFacts DEF QueueIsBytes
<1> QED  BY <1>1, PTL

\* The queue is read by n channels from now on: nothing is queued, or it was read
\* so before.
LEMMA StillWhole ==
  ASSUME MemoryInv, LayoutInv, NEW n \in Nat \ {0}, ~ Relaid(n),
         capacity % (2 * n) = 0
  PROVE  WholeFrameBytes(Queued, 2 * n)
<1>1. CASE ring.count = 0
  <2>1. Queued = <<>>  BY <1>1, QueueFacts
  <2>2. 2 * n \in Nat \ {0}  OBVIOUS
  <2> QED  BY <2>1, <2>2, NothingIsWhole
<1>2. CASE ring.count # 0
  <2>1. ~ relaid /\ format.channels = n  BY <1>2 DEF Relaid
  <2>2. BytesPerFrame(format) = 2 * n  BY <2>1 DEF BytesPerFrame
  <2> QED  BY <2>1, <2>2 DEF LayoutInv
<1> QED  BY <1>1, <1>2

\* What one L16 packet does to the queue, byte by byte.
LEMMA PollPcmQueue ==
  ASSUME MemoryInv, NEW a \in Arrivals, PollPcm(Arriving(a))
  PROVE  LET src == HostOrder(WholeFrames(Arriving(a)))
             n   == ChannelsOf(Arriving(a))
         IN  /\ src \in Seq(Bytes) /\ Queued' \in Seq(Bytes)
             /\ Len(src) \in Nat /\ Len(src) % 2 = 0 /\ Len(src) % (2 * n) = 0
             /\ Swapped(src, Len(src), taken + 1) /\ Younger(Queued, src)
             /\ Overrun(capacity, Queued, src, Queued')
             /\ n \in Nat \ {0} /\ capacity' = capacity
             /\ format'.channels = n /\ relaid' = Relaid(n)
<1> DEFINE d   == Arriving(a)
           n   == ChannelsOf(d)
           src == HostOrder(WholeFrames(d))
           B   == (PayloadByte \cup {Silence})'
<1>1. /\ capacity' = capacity /\ ring' = RingPush(capacity, ring, src)
      /\ taken' = taken + 1 /\ relaid' = Relaid(n) /\ format' = FormatAfter(d)
  BY DEF PollPcm, Take
<1>2. MemoryInv'  BY PollPcmKeepsMemory
<1>3. TypeOK /\ taken \in Nat /\ capacity \in Nat \ {0}
  BY Ranges DEF MemoryInv
<1>4. n \in Nat \ {0} /\ FormatAfter(d).channels = n
  BY LayoutOfPacket
<1>5. \A i \in Nat : [arrival |-> taken + 1, at |-> i] \in PayloadByte'
  <2>1. taken + 1 \in 1 .. taken'  BY <1>1, <1>3
  <2> QED  BY <2>1 DEF PayloadByte
<1>6. /\ src \in Seq(PayloadByte') /\ Len(src) \in Nat /\ Len(src) % 2 = 0
      /\ Len(src) % BytesPerFrame(FormatAfter(d)) = 0
      /\ Swapped(src, Len(src), taken + 1)
  BY <1>5, PushedFacts
<1>7. Len(src) % (2 * n) = 0
  BY <1>4, <1>6 DEF BytesPerFrame
<1> HIDE DEF src, n, d
<1>8. PayloadByte' \subseteq Bytes /\ PayloadByte' \subseteq B
  <2>1. taken' \in Nat  BY <1>1, <1>3
  <2> QED  BY <2>1 DEF PayloadByte, Bytes
<1>9. src \in Seq(Bytes) /\ src \in Seq(B)  BY <1>6, <1>8, SeqWidens
<1>10. ring \in Rings(capacity, B) /\ WellFormed(capacity, ring)
  BY <1>1, <1>3, BytesWiden, RingWidens DEF TypeOK
<1> HIDE DEF B
<1>11. Overrun(capacity, Queued, src, Queued')
  BY <1>1, <1>3, <1>9, <1>10, PushElements DEF Queued
<1>12. Queued' \in Seq(Bytes)
  <2>1. Queued' \in Seq(PayloadByte')  BY <1>2 DEF MemoryInv
  <2> QED  BY <1>8, <2>1, SeqWidens
<1>13. Younger(Queued, src)
  <2> SUFFICES ASSUME NEW i \in 1 .. Len(Queued), NEW j \in 1 .. Len(src)
               PROVE  src[j].arrival > Queued[i].arrival /\ (j = 1 => src[j].at = 2)
    BY DEF Younger
  <2>1. Queued[i].arrival \in Int /\ Queued[i].arrival <= taken
    BY QueueFacts, Zenon
  <2>2. src[j] = [arrival |-> taken + 1, at |-> IF j % 2 = 1 THEN j + 1 ELSE j - 1]
    BY <1>6, Zenon DEF Swapped
  <2>3. src[j].arrival = taken + 1 /\ (j = 1 => src[j].at = 2)  BY <2>2
  <2> QED  BY <1>3, <2>1, <2>3
<1> QED
  BY <1>1, <1>4, <1>6, <1>7, <1>9, <1>11, <1>12, <1>13 DEF src, n, d

LEMMA PollPcmKeepsLayout ==
  ASSUME MemoryInv, LayoutInv, NEW a \in Arrivals, PollPcm(Arriving(a))
  PROVE  LayoutInv'
<1> DEFINE src == HostOrder(WholeFrames(Arriving(a)))
           n   == ChannelsOf(Arriving(a))
           k   == 2 * n
<1>1. /\ src \in Seq(Bytes) /\ Queued' \in Seq(Bytes)
      /\ Len(src) \in Nat /\ Len(src) % 2 = 0 /\ Len(src) % k = 0
      /\ Swapped(src, Len(src), taken + 1) /\ Younger(Queued, src)
      /\ Overrun(capacity, Queued, src, Queued')
      /\ n \in Nat \ {0} /\ capacity' = capacity
      /\ format'.channels = n /\ relaid' = Relaid(n)
  BY PollPcmQueue
<1>2. Queued \in Seq(Bytes)  BY QueueFacts
<1>3. capacity \in Nat \ {0} /\ taken \in Nat /\ taken + 1 \in Int
  BY Ranges DEF MemoryInv
<1> HIDE DEF src, n
<1>4. k \in Nat \ {0} /\ BytesPerFrame(format') = k
  BY <1>1 DEF BytesPerFrame
<1>5. ASSUME capacity % 2 = 0 PROVE SampleBytes(Queued')
  <2>1. SampleBytes(Queued)  BY <1>5 DEF LayoutInv
  <2>2. SampleBytes(src)  BY <1>1, <1>3, SwappedIsSamples, Zenon
  <2> QED  BY <1>1, <1>2, <1>3, <1>5, <2>1, <2>2, PushKeepsSamples, Zenon
<1>6. ASSUME ~ relaid', capacity % k = 0 PROVE WholeFrameBytes(Queued', k)
  <2>1. WholeFrameBytes(Queued, k)  BY <1>1, <1>6, StillWhole
  <2>2. WholeFrameBytes(src, k)  BY <1>1, <1>3, SwappedIsFrames, Zenon
  <2> HIDE DEF k
  <2> QED  BY <1>1, <1>2, <1>3, <1>4, <1>6, <2>1, <2>2, PushKeepsFrames, Zenon
<1> HIDE DEF k
<1> QED  BY <1>1, <1>4, <1>5, <1>6, Zenon DEF LayoutInv

LEMMA ReadKeepsLayout ==
  ASSUME MemoryInv, LayoutInv, NEW n \in 1 .. MaxTake, ReadFrames(n)
  PROVE  LayoutInv'
<1> DEFINE t == TakeBytes(n)
           c == format.channels
           k == BytesPerFrame(format)
           B == PayloadByte \cup {Silence}
           read == RingPopBytes(capacity, ring, t)
<1>1. /\ c \in Nat \ {0} /\ k = 2 * c /\ k \in Nat \ {0}
      /\ t \in Nat /\ t <= ring.count /\ t % k = 0
  BY TakeBytesFacts
<1>2. /\ ring' = RingPop(capacity, ring, t)
      /\ relaid' = (relaid /\ ring'.count # 0)
      /\ format' = format /\ capacity' = capacity
  BY DEF ReadFrames
<1>3. MemoryInv'  BY ReadKeepsMemory
<1>4. /\ capacity \in Nat \ {0} /\ ring \in Rings(capacity, B) /\ WellFormed(capacity, ring)
  BY Ranges DEF MemoryInv, TypeOK
<1> HIDE DEF t, B, k, c
<1>5. SplitAt(t, Queued, read, Queued')
  BY <1>1, <1>2, <1>4, PopElements DEF Queued
<1> HIDE DEF read
<1>6. Queued \in Seq(Bytes) /\ Len(Queued) = ring.count  BY QueueFacts
<1>7. Queued' \in Seq(Bytes) /\ (ring'.count = 0 => Queued' = <<>>)
  BY <1>3, QueueFactsNext DEF QueueIsBytes
<1>8. t % 2 = 0
  <2>1. t \in Int /\ t % (2 * c) = 0  BY <1>1
  <2> QED  BY <1>1, <2>1, FramesAreEven, Zenon
<1>9. t <= Len(Queued)  BY <1>1, <1>6
<1>10. ASSUME capacity % 2 = 0 PROVE SampleBytes(Queued')
  <2>1. SampleBytes(Queued)  BY <1>10 DEF LayoutInv
  <2> QED  BY <1>1, <1>5, <1>6, <1>7, <1>8, <1>9, <2>1, PopKeepsSamples, Zenon
<1>11. ASSUME ~ relaid', capacity % k = 0 PROVE WholeFrameBytes(Queued', k)
  <2>1. CASE ring'.count = 0  BY <1>1, <1>7, <2>1, NothingIsWhole
  <2>2. CASE ring'.count # 0
    <3>1. ~ relaid /\ c # 0  BY <1>1, <1>2, <1>11, <2>2
    <3>2. WholeFrameBytes(Queued, k)  BY <1>11, <3>1, Zenon DEF LayoutInv, k, c
    <3> QED  BY <1>1, <1>5, <1>6, <1>7, <1>9, <3>2, PopKeepsFrames, Zenon
  <2> QED  BY <2>1, <2>2
<1>12. BytesPerFrame(format') = k  BY <1>2 DEF k
<1> QED  BY <1>2, <1>10, <1>11, <1>12, Zenon DEF LayoutInv

\* An emptied ring, or the array of another buffer.
LEMMA EmptiedKeepsLayout ==
  ASSUME MemoryInv', ring'.count = 0
  PROVE  LayoutInv'
<1>1. Queued' = <<>>  BY QueueFactsNext DEF QueueIsBytes
<1>2. format'.channels # 0 => BytesPerFrame(format') \in Nat \ {0}
  <2>1. format'.channels \in Nat  BY DEF MemoryInv
  <2> QED  BY <2>1 DEF BytesPerFrame
<1> QED  BY <1>1, <1>2, NothingIsWhole DEF LayoutInv

LEMMA StepKeepsLayout == MemoryInv /\ LayoutInv /\ [Next]_vars => LayoutInv'
<1> SUFFICES ASSUME MemoryInv, LayoutInv, [Next]_vars PROVE LayoutInv'
  OBVIOUS
<1>1. MemoryInv'  BY StepKeepsMemory
<1>2. ASSUME UNCHANGED <<format, capacity, ring, relaid>> PROVE LayoutInv'
  BY <1>2 DEF LayoutInv, Queued
<1>3. ASSUME ring'.count = 0 PROVE LayoutInv'
  BY <1>1, <1>3, EmptiedKeepsLayout
<1>4. CASE Begin \/ End
  BY <1>3, <1>4 DEF Begin, End, DropQueue, Emptied
<1>5. CASE BeginFails \/ SetPcmBufferRefused
  BY <1>2, <1>5 DEF BeginFails, SetPcmBufferRefused
<1>6. ASSUME NEW size \in CallerSizes, SetPcmBuffer(size) PROVE LayoutInv'
  BY <1>3, <1>6 DEF SetPcmBuffer, EmptyRing
<1>7. ASSUME NEW f \in Formats, SetFormatRejected(f) PROVE LayoutInv'
  BY <1>2, <1>7 DEF SetFormatRejected
<1>8. ASSUME NEW f \in Formats, SetFormat(f) PROVE LayoutInv'
  <2> DEFINE n == f.channels
  <2>1. n \in Nat \ {0}
    BY <1>8, SetterAssumption DEF SetFormat, IsValid
  <2>2. format'.channels = n /\ relaid' = Relaid(n) /\ capacity' = capacity /\ ring' = ring
    BY <1>8 DEF SetFormat, Layout
  <2>3. BytesPerFrame(format') = 2 * n  BY <2>2 DEF BytesPerFrame
  <2>4. Queued' = Queued  BY <2>2 DEF Queued
  <2> HIDE DEF n
  <2>5. ~ relaid' /\ capacity % (2 * n) = 0 => WholeFrameBytes(Queued, 2 * n)
    BY <2>1, <2>2, StillWhole
  <2> QED  BY <2>2, <2>3, <2>4, <2>5, Zenon DEF LayoutInv
<1>9. ASSUME NEW p \in Dynamics, SetDynamicRejected(p) \/ SetDynamic(p) PROVE LayoutInv'
  BY <1>2, <1>9 DEF SetDynamicRejected, SetDynamic
<1>10. ASSUME NEW a \in Arrivals,
              PollRunt(Arriving(a)) \/ PollBad(Arriving(a)) \/ PollEncoded(Arriving(a))
       PROVE  LayoutInv'
  BY <1>2, <1>10 DEF PollRunt, PollBad, PollEncoded
<1>11. ASSUME NEW a \in Arrivals, PollPcm(Arriving(a)) PROVE LayoutInv'
  BY <1>11, PollPcmKeepsLayout
<1>12. ASSUME NEW n \in 1 .. MaxTake, ReadFrames(n) PROVE LayoutInv'
  BY <1>12, ReadKeepsLayout
<1>13. ASSUME NEW size \in ReadSizes, ReadEncoded(size) PROVE LayoutInv'
  BY <1>2, <1>13 DEF ReadEncoded
<1>14. CASE UNCHANGED vars
  BY <1>2, <1>14 DEF vars
<1> QED
  BY <1>4, <1>5, <1>6, <1>7, <1>8, <1>9, <1>10, <1>11, <1>12, <1>13, <1>14 DEF Next

LEMMA LayoutInvHolds == Spec => []LayoutInv
<1>1. Init => MemoryInv /\ LayoutInv
  <2> SUFFICES ASSUME Init PROVE MemoryInv /\ LayoutInv
    OBVIOUS
  <2>1. MemoryInv  BY MemoryInit
  <2>2. Queued = <<>>  BY <2>1, QueueFacts DEF Init, EmptyRing
  <2>3. format.channels = 0  BY DEF Init, NoFormat
  <2> QED  BY <2>1, <2>2, <2>3, NothingIsWhole DEF LayoutInv
<1> QED  BY <1>1, StepKeepsLayout, MemoryInvHolds, PTL DEF Spec

\* No sample in the queue is torn, swapped or out of order, for every mixture of
\* channel counts and payload lengths, every overflow and every read, and for
\* buffers of every even size.
THEOREM SamplesStayInOrder == Spec => []SamplesInOrder
<1>1. MemoryInv /\ LayoutInv => SamplesInOrder
  <2> SUFFICES ASSUME MemoryInv, LayoutInv, capacity % 2 = 0
               PROVE  /\ ring.count > 0 => Queued[1].at % 2 = 0
                      /\ \A i \in 1 .. ring.count - 1 : NextByte(Queued[i], Queued[i + 1])
    BY DEF SamplesInOrder
  <2>1. SampleBytes(Queued)  BY DEF LayoutInv
  <2>2. Len(Queued) = ring.count /\ ring.count \in Nat
    BY QueueFacts, Ranges DEF MemoryInv
  <2>3. \A i \in 1 .. ring.count - 1 : NextByte(Queued[i], Queued[i + 1])
    BY <2>1, <2>2 DEF SampleBytes
  <2>4. ASSUME ring.count > 0 PROVE Queued[1].at % 2 = 0
    <3>1. 1 \in 1 .. Len(Queued)  BY <2>2, <2>4
    <3>2. Queued[1].at % 2 = (1 - 1) % 2  BY <2>1, <3>1, Zenon DEF SampleBytes
    <3> QED  BY <3>2
  <2> QED  BY <2>3, <2>4
<1> QED  BY <1>1, MemoryInvHolds, LayoutInvHolds, PTL

\* What readFrames() will return are whole frames of one packet each, for every
\* channel count an application may declare and every payload length, unless the
\* channel count changed under queued audio or the buffer is no whole number of
\* frames.
THEOREM FramesStayWhole == Spec => []FramesWhole
<1>1. MemoryInv /\ LayoutInv => FramesWhole
  <2> SUFFICES ASSUME MemoryInv, LayoutInv, format.channels # 0, ~ relaid,
                      capacity % BytesPerFrame(format) = 0
               PROVE  LET k == BytesPerFrame(format)
                      IN  /\ ring.count % k = 0
                          /\ \A i \in 1 .. ring.count \div k :
                               LET f == Frames(Queued, k)[i]
                               IN  /\ (f[1].at - 2) % k = 0
                                   /\ \A j \in 1 .. k : f[j].arrival = f[1].arrival
    BY DEF FramesWhole
  <2> DEFINE k == BytesPerFrame(format)
             x == Queued
             c == ring.count
  <2>1. WholeFrameBytes(x, k)  BY DEF LayoutInv
  <2>2. k \in Nat \ {0}
    <3>1. format.channels \in Nat  BY DEF MemoryInv
    <3> QED  BY <3>1 DEF BytesPerFrame
  <2>3. x \in Seq(Bytes) /\ Len(x) = c /\ c \in Nat
    BY QueueFacts, Ranges DEF MemoryInv
  <2> HIDE DEF k, x, c
  <2>4. c % k = 0 /\ \A p \in 0 .. c - 1 : p % k = 0 => FrameBehind(x, k, p)
    BY <2>1, <2>3, Zenon DEF WholeFrameBytes
  <2>5. CutInto(Frames(x, k), x, k, Bytes)  BY <2>2, <2>3, FramesFacts
  <2>6. ASSUME NEW i \in 1 .. c \div k
        PROVE  LET f == Frames(x, k)[i]
               IN  /\ (f[1].at - 2) % k = 0
                   /\ \A j \in 1 .. k : f[j].arrival = f[1].arrival
    <3> DEFINE p == (i - 1) * k
               f == Frames(x, k)[i]
    <3>1. p \in Nat /\ p + k = i * k /\ i * k <= c /\ p % k = 0
      BY <2>2, <2>3, FramePosition
    <3>2. \A j \in 1 .. k : f[j] = x[p + j]
      BY <2>3, <2>5, Zenon DEF CutInto
    <3> HIDE DEF p, f
    <3>3. p \in 0 .. c - 1
      <4>1. p + k <= c  BY <3>1
      <4> QED  BY <2>2, <2>3, <3>1, <4>1
    <3>4. FrameBehind(x, k, p)  BY <2>4, <3>1, <3>3, Zenon
    <3>5. 1 \in 1 .. k  BY <2>2
    <3>6. f[1] = x[p + 1]  BY <3>2, <3>5, Zenon
    <3>7. /\ (f[1].at - 2) % k = 0
          /\ \A j \in 1 .. k : f[j].arrival = f[1].arrival
      BY <3>2, <3>4, <3>6 DEF FrameBehind
    <3> QED  BY <3>7 DEF f
  <2> QED  BY <2>4, <2>6 DEF k, x, c
<1> QED  BY <1>1, MemoryInvHolds, LayoutInvHolds, PTL
=============================================================================
