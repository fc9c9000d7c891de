--------------------------- MODULE VbanLinkProofs ---------------------------
(***************************************************************************)
(* For every set of formats, payload size, packet size and counter width:  *)
(* the sender is type correct, its scratch buffer holds part of one packet *)
(* in the current format, every datagram can be decoded by its own header, *)
(* a failed packet stays visible in lastError() until a call that sends    *)
(* nothing overwrites it, no frame is                                      *)
(* lost without account, doubled or reordered, and the frame counters on   *)
(* the wire show where packets failed.  And for every queue size, network  *)
(* and listener: the receiver holds no torn and no misread frame, and      *)
(* sender, network and receiver are together a lossy frame channel.        *)
(*                                                                         *)
(* SenderInv is about the buffer and single datagrams.  BookInv is about   *)
(* all packets ever built: they partition the frames that left the buffer  *)
(* into runs that ascend.  StreamInv names the frames whose bytes the ring *)
(* of the receiver holds, and says where they and those heard come from.   *)
(***************************************************************************)
EXTENDS VbanLink, PcmProofs

\* The frames a call under format f can hold when w have been written.
FramesOf(f, w) == [id : 1 .. w, format : {f}]

\* samplesPerPacket_ is what setFormat() computed for the current format.
PacketSizeOfFormat ==
  samplesPerPacket = IF format = NoFormat THEN 0 ELSE ComputeSamplesPerPacket(format.channels)

\* The scratch buffer, in the form a step preserves: what is pending was
\* written under the current format, to a sender that is still ready, and is
\* less than a packet.
PendingOfFormat ==
  /\ pending \in Seq(FramesOf(format, written))
  /\ pending # <<>> => ready /\ Len(pending) < samplesPerPacket

LostWereWritten == lost \subseteq 1 .. written

\* The datagrams carry the numbers of packets that were built.
NumbersGiven ==
  answered <= emissions /\ \A d \in wire : d.number \in 1 .. emissions

\* The inductive invariant.
SenderInv ==
  /\ TypeOK
  /\ PacketSizeOfFormat
  /\ PendingOfFormat
  /\ LostWereWritten
  /\ NumbersGiven
  /\ HeaderDescribesPayload
  /\ LossStaysReported

-----------------------------------------------------------------------------
\* The initial frame counter and packet size are in range.
LEMMA ZeroInRange == 0 \in 0 .. CounterMod - 1 /\ 0 \in 0 .. MaxSamples
  BY LimitAssumption

-----------------------------------------------------------------------------
\* What HeaderDescribesPayload says of one datagram.
SelfDescribing(d) ==
  /\ d.samples = Len(d.frames) /\ d.samples \in 1 .. MaxSamples
  /\ 2 * d.channels * d.samples <= MaxPayload
  /\ \A i \in 1 .. Len(d.frames) :
       /\ d.frames[i].format.rate = d.rate
       /\ d.frames[i].format.channels = d.channels

\* The packet size setFormat() computes is positive and fits.
LEMMA PacketSizeFits ==
  ASSUME NEW f \in Formats, IsSendable(f)
  PROVE  /\ f.channels \in 1 .. 255 /\ f.rate \in Nat
         /\ ComputeSamplesPerPacket(f.channels) \in 1 .. MaxSamples
         /\ 2 * f.channels * ComputeSamplesPerPacket(f.channels) <= MaxPayload
         /\ BytesPerFrame(f) = 2 * f.channels
  <1> DEFINE c == f.channels
             fits == MaxPayload \div (2 * c)
  <1>1. c \in 1 .. 255 /\ f.rate \in Nat /\ f.bits = 16
    BY FormatAssumption DEF PCMFormat, IsSendable, IsValid
  <1>2. MaxPayload \in Nat /\ MaxSamples \in Nat \ {0} /\ 2 * c <= MaxPayload
    BY LimitAssumption
  <1>3. BytesPerFrame(f) = 2 * c
    BY <1>1 DEF BytesPerFrame
  <1> HIDE DEF c
  <1>4. 2 * c \in Nat \ {0}  BY <1>1
  <1>5. fits \in Nat /\ 2 * c * fits <= MaxPayload /\ MaxPayload < 2 * c * fits + 2 * c
    BY <1>2, <1>4, DivBounds
  <1> HIDE DEF fits
  <1>6. fits >= 1
    <2>1. CASE fits = 0  BY <2>1, <1>2, <1>4, <1>5
    <2> QED  BY <2>1, <1>5
  <1>7. \A m \in Nat : m <= fits => 2 * c * m <= 2 * c * fits
    BY <1>4, <1>5, SMTT(30)
  <1>8. ComputeSamplesPerPacket(c) = IF fits < MaxSamples THEN fits ELSE MaxSamples
    BY DEF ComputeSamplesPerPacket, fits
  <1>9. ComputeSamplesPerPacket(c) \in 1 .. MaxSamples /\ ComputeSamplesPerPacket(c) <= fits
    BY <1>2, <1>5, <1>6, <1>8
  <1>10. 2 * c * ComputeSamplesPerPacket(c) <= MaxPayload
    <2> DEFINE m == ComputeSamplesPerPacket(c)
    <2>1. m \in Nat /\ m <= fits  BY <1>9, <1>2
    <2> HIDE DEF m
    <2>2. 2 * c * m <= 2 * c * fits  BY <2>1, <1>7
    <2>3. 2 * c * m \in Nat /\ 2 * c * fits \in Nat  BY <2>1, <1>4, <1>5
    <2>4. 2 * c * m <= MaxPayload  BY <2>2, <2>3, <1>2, <1>5
    <2> QED  BY <2>4 DEF m
  <1> QED  BY <1>1, <1>3, <1>9, <1>10 DEF c

\* A sender that can write has a format, and packets that fit.
LEMMA FormatSet ==
  ASSUME TypeOK, PacketSizeOfFormat, samplesPerPacket > 0
  PROVE  /\ format \in Formats /\ IsSendable(format)
         /\ format.channels \in 1 .. 255 /\ format.rate \in Nat
         /\ samplesPerPacket \in 1 .. MaxSamples
         /\ 2 * format.channels * samplesPerPacket <= MaxPayload
         /\ BytesPerFrame(format) = 2 * format.channels
  <1>1. format # NoFormat  BY DEF PacketSizeOfFormat
  <1>2. format \in Formats /\ IsSendable(format)  BY <1>1 DEF TypeOK
  <1>3. samplesPerPacket = ComputeSamplesPerPacket(format.channels)
    BY <1>1 DEF PacketSizeOfFormat
  <1> QED  BY <1>2, <1>3, PacketSizeFits

\* The frames of a call, behind the pending ones, are all of the current format.
LEMMA GatheredOfFormat ==
  ASSUME TypeOK, PacketSizeOfFormat, PendingOfFormat, NEW n \in WriteSizes
  PROVE  /\ Gathered(n) \in Seq(FramesOf(format, written + n))
         /\ Len(Gathered(n)) = Len(pending) + n
  <1> DEFINE S == FramesOf(format, written + n)
             new == [i \in 1 .. n |-> [id |-> written + i, format |-> format]]
  <1>1. n \in Nat \ {0} /\ written \in Nat  BY BoundAssumption DEF TypeOK
  <1>2. FramesOf(format, written) \subseteq S
    <2>1. 1 .. written \subseteq 1 .. written + n  BY <1>1
    <2> QED  BY <2>1 DEF FramesOf
  <1>3. pending \in Seq(S)  BY <1>2, SeqWidens DEF PendingOfFormat
  <1>4. new \in Seq(S) /\ Len(new) = n
    <2>1. \A i \in 1 .. n : [id |-> written + i, format |-> format] \in S
      BY <1>1 DEF FramesOf
    <2>2. new \in [1 .. n -> S]  BY <2>1
    <2> HIDE DEF S
    <2> QED  BY <1>1, <2>2
  <1>5. Gathered(n) = pending \o new  BY DEF Gathered
  <1> HIDE DEF S, new
  <1>6. Gathered(n) \in Seq(S) /\ Len(Gathered(n)) = Len(pending) + n
    BY <1>3, <1>4, <1>5, ConcatProperties
  <1> QED  BY <1>6 DEF S

\* A packet of frames of the current format, no longer than samplesPerPacket_,
\* makes a well-typed datagram that its header describes.
LEMMA DatagramDescribed ==
  ASSUME TypeOK, PacketSizeOfFormat, samplesPerPacket > 0, NEW w \in Nat,
         NEW frames \in Seq(FramesOf(format, w)), Len(frames) \in 1 .. samplesPerPacket,
         NEW i \in Nat \ {0}
  PROVE  Datagram(frames, i) \in Datagrams /\ SelfDescribing(Datagram(frames, i))
  <1> DEFINE d == Datagram(frames, i)
  <1>1. /\ format \in Formats /\ format.channels \in 1 .. 255 /\ format.rate \in Nat
        /\ samplesPerPacket \in 1 .. MaxSamples
        /\ 2 * format.channels * samplesPerPacket <= MaxPayload
    BY FormatSet
  <1>2. /\ CounterMod \in Nat \ {0} /\ MaxSamples \in Nat \ {0} /\ MaxPayload \in Nat
    BY LimitAssumption
  <1>3. (frameCounter + i - 1) % CounterMod \in 0 .. CounterMod - 1
    BY <1>2 DEF TypeOK
  <1>4. frames \in Seq(Frame)
    <2>1. FramesOf(format, w) \subseteq Frame  BY <1>1 DEF FramesOf, Frame
    <2> QED  BY <2>1, SeqWidens
  <1>5. Len(frames) \in Nat /\ Len(frames) \in 1 .. MaxSamples  BY <1>1, <1>2
  <1>6. d \in Datagrams
    BY <1>1, <1>3, <1>4, <1>5 DEF d, Datagram, Datagrams, TypeOK
  <1>7. 2 * format.channels * Len(frames) <= MaxPayload
    <2> DEFINE c == 2 * format.channels
    <2>1. c \in Nat
      <3>1. \A x \in 1 .. 255 : 2 * x \in Nat  OBVIOUS
      <3> QED  BY <1>1, <3>1
    <2>2. samplesPerPacket \in Nat  BY <1>1, <1>2
    <2>3. Len(frames) <= samplesPerPacket  OBVIOUS
    <2>4. c * samplesPerPacket <= MaxPayload  BY <1>1
    <2> HIDE DEF c
    <2>5. c * Len(frames) <= c * samplesPerPacket
      BY <2>1, <2>2, <2>3, <1>5, SMTT(30)
    <2>6. c * Len(frames) \in Nat /\ c * samplesPerPacket \in Nat
      BY <2>1, <2>2, <1>5
    <2>7. c * Len(frames) <= MaxPayload  BY <2>4, <2>5, <2>6, <1>2
    <2> QED  BY <2>7 DEF c
  <1>8. \A j \in 1 .. Len(frames) : frames[j].format = format
    <2>1. ASSUME NEW j \in 1 .. Len(frames) PROVE frames[j] \in FramesOf(format, w)
      BY ElementOfSeq
    <2> QED  BY <2>1 DEF FramesOf
  <1>9. SelfDescribing(d)
    BY <1>5, <1>7, <1>8 DEF SelfDescribing, d, Datagram
  <1> QED  BY <1>6, <1>9

-----------------------------------------------------------------------------
\* In these terms HeaderDescribesPayload is about each datagram.
LEMMA HeadersByDatagram ==
  /\ HeaderDescribesPayload <=> \A d \in wire : SelfDescribing(d)
  /\ HeaderDescribesPayload' <=> \A d \in wire' : SelfDescribing(d)
  BY DEF HeaderDescribesPayload, SelfDescribing

\* The numbers of frames written under one format are numbers of written frames.
LEMMA IdsOfWritten ==
  ASSUME NEW f, NEW w \in Nat, NEW s \in Seq(FramesOf(f, w))
  PROVE  Ids(s) \subseteq 1 .. w
  <1>1. \A i \in 1 .. Len(s) : s[i] \in FramesOf(f, w)  BY ElementOfSeq
  <1> QED  BY <1>1 DEF Ids, FramesOf

\* k packets more, of which those in sent go out: the answer of lastError()
\* follows the books.
LEMMA EmittedAreReported ==
  ASSUME SenderInv, NEW k \in Nat, NEW sent \in SUBSET (1 .. k), wire \subseteq wire',
         \A d \in wire' : d \in wire \/ \E i \in sent : d.number = emissions + i,
         \A i \in sent : \E d \in wire' : d.number = emissions + i,
         error' = IF sent = 1 .. k THEN error ELSE "SendFailed",
         emissions' = emissions + k, answered' = answered
  PROVE  NumbersGiven' /\ LossStaysReported'
  <1>1. emissions \in Nat /\ answered \in Nat /\ answered <= emissions
        /\ \A d \in wire : d.number \in 1 .. emissions
    BY DEF SenderInv, TypeOK, NumbersGiven
  <1>2. error = "SendFailed" <=> \E m \in answered + 1 .. emissions : \A d \in wire : d.number # m
    BY DEF SenderInv, LossStaysReported, FailedSince
  <1>3. NumbersGiven'
    <2>1. ASSUME NEW d \in wire' PROVE d.number \in 1 .. emissions + k
      <3>1. CASE d \in wire
        <4>1. d.number \in 1 .. emissions  BY <1>1, <3>1
        <4> QED  BY <1>1, <4>1
      <3>2. ASSUME NEW i \in sent, d.number = emissions + i
            PROVE  d.number \in 1 .. emissions + k
        <4>1. i \in 1 .. k  OBVIOUS
        <4> QED  BY <1>1, <3>2, <4>1
      <3> QED  BY <3>1, <3>2
    <2> QED  BY <1>1, <2>1 DEF NumbersGiven
  <1>4. ASSUME NEW m \in answered + 1 .. emissions
        PROVE  (\A d \in wire' : d.number # m) <=> (\A d \in wire : d.number # m)
    <2>1. \A i \in sent : emissions + i # m
      <3>1. \A i \in sent : i \in 1 .. k  OBVIOUS
      <3> QED  BY <1>1, <3>1
    <2> QED  BY <2>1
  <1>5. answered + 1 .. emissions \subseteq answered + 1 .. emissions + k  BY <1>1
  <1>6. CASE sent = 1 .. k
    <2>1. ASSUME NEW m \in answered + 1 .. emissions + k, \A d \in wire' : d.number # m
          PROVE  m \in answered + 1 .. emissions
      <3>1. CASE m > emissions
        <4>1. m - emissions \in sent /\ emissions + (m - emissions) = m  BY <1>1, <1>6, <3>1
        <4> QED  BY <2>1, <4>1
      <3> QED  BY <1>1, <3>1
    <2>2. FailedSince' <=> \E m \in answered + 1 .. emissions : \A d \in wire : d.number # m
      BY <1>4, <1>5, <2>1 DEF FailedSince
    <2> QED  BY <1>2, <1>3, <1>6, <2>2 DEF LossStaysReported
  <1>7. CASE sent # 1 .. k
    <2>1. PICK i \in 1 .. k : i \notin sent  BY <1>7
    <2>2. emissions + i \in answered + 1 .. emissions + k  BY <1>1
    <2>3. ASSUME NEW d \in wire' PROVE d.number # emissions + i
      <3>1. CASE d \in wire
        <4>1. d.number \in 1 .. emissions  BY <1>1, <3>1
        <4> QED  BY <1>1, <4>1
      <3>2. ASSUME NEW j \in sent, d.number = emissions + j
            PROVE  d.number # emissions + i
        <4>1. j \in 1 .. k /\ j # i  BY <2>1
        <4> QED  BY <1>1, <3>2, <4>1
      <3> QED  BY <3>1, <3>2
    <2>4. FailedSince'  BY <2>2, <2>3 DEF FailedSince
    <2> QED  BY <1>3, <1>7, <2>4 DEF LossStaysReported
  <1> QED  BY <1>6, <1>7

\* writeFrames(): several packets, any of which may fail.
LEMMA WriteKeepsInv ==
  ASSUME SenderInv, NEW n \in WriteSizes, WriteFrames(n)
  PROVE  SenderInv'
  <1> DEFINE G == Gathered(n)
             k == FullPackets(n)
             S == FramesOf(format, written + n)
  <1>1. PICK sent \in SUBSET (1 .. k) : Emit(n, sent)
    BY DEF WriteFrames
  <1>2. /\ ready /\ samplesPerPacket > 0 /\ written + n <= MaxWritten
        /\ pending' = Remainder(n) /\ written' = written + n
        /\ UNCHANGED <<ready, format, samplesPerPacket, streamName,
                        dropped, opened, answered, lastFlush>>
    BY DEF WriteFrames
  <1>3. TypeOK /\ PacketSizeOfFormat /\ PendingOfFormat /\ LostWereWritten
        /\ HeaderDescribesPayload /\ LossStaysReported
    BY DEF SenderInv
  <1>4. n \in Nat \ {0} /\ written \in Nat /\ written + n \in Nat /\ MaxWritten \in Nat
    BY <1>3, BoundAssumption DEF TypeOK
  <1>5. samplesPerPacket \in Nat \ {0} /\ format \in Formats
    BY <1>2, <1>3, FormatSet, LimitAssumption
  <1>6. G \in Seq(S)  BY <1>3, GatheredOfFormat
  <1>7. k = Len(G) \div samplesPerPacket  BY DEF FullPackets
  <1>8. k \in Nat  BY <1>5, <1>6, <1>7, DivBounds, LenProperties
  <1>9. \A i \in 1 .. k :
          PacketFrames(n, i) \in Seq(S) /\ Len(PacketFrames(n, i)) = samplesPerPacket
    <2> SUFFICES ASSUME NEW i \in 1 .. k
                 PROVE  PacketFrames(n, i) \in Seq(S) /\ Len(PacketFrames(n, i)) = samplesPerPacket
      OBVIOUS
    <2>1. PacketFrames(n, i) = SubSeq(G, (i - 1) * samplesPerPacket + 1, i * samplesPerPacket)
      BY DEF PacketFrames
    <2> HIDE DEF G, k, S
    <2>2. i \in 1 .. Len(G) \div samplesPerPacket  BY <1>7
    <2> QED  BY <2>1, <2>2, <1>5, <1>6, PacketCut
  <1>10. /\ Remainder(n) \in Seq(S)
         /\ Len(Remainder(n)) \in Nat /\ Len(Remainder(n)) < samplesPerPacket
    <2>1. Remainder(n) = SubSeq(G, (Len(G) \div samplesPerPacket) * samplesPerPacket + 1, Len(G))
      BY DEF Remainder, FullPackets
    <2> HIDE DEF G, S
    <2> QED  BY <2>1, <1>5, <1>6, RestCut
  <1>11. \A i \in sent : LET d == Datagram(PacketFrames(n, i), i)
                         IN  d \in Datagrams /\ SelfDescribing(d)
    <2> SUFFICES ASSUME NEW i \in sent
                 PROVE  LET d == Datagram(PacketFrames(n, i), i)
                        IN  d \in Datagrams /\ SelfDescribing(d)
      OBVIOUS
    <2>1. i \in 1 .. k /\ i \in Nat \ {0}  BY <1>1, <1>8
    <2>2. PacketFrames(n, i) \in Seq(S) /\ Len(PacketFrames(n, i)) = samplesPerPacket
      BY <1>9, <2>1
    <2>3. Len(PacketFrames(n, i)) \in 1 .. samplesPerPacket  BY <1>5, <2>2
    <2> QED  BY <1>2, <1>3, <1>4, <2>1, <2>2, <2>3, DatagramDescribed
  <1>12. wire' = wire \cup {Datagram(PacketFrames(n, i), i) : i \in sent}
    BY <1>1 DEF Emit
  <1>13. lost' = lost \cup UNION {Ids(PacketFrames(n, i)) : i \in (1 .. k) \ sent}
    BY <1>1 DEF Emit
  <1>14. frameCounter' = (frameCounter + k) % CounterMod /\ emissions' = emissions + k
    BY <1>1 DEF Emit, CounterAfter
  <1>15. error' = IF sent = 1 .. k THEN error ELSE "SendFailed"
    BY <1>1 DEF Emit, ErrorAfter
  <1> HIDE DEF G, k
  <1>16. lost' \subseteq 1 .. written'
    <2>1. \A i \in 1 .. k : Ids(PacketFrames(n, i)) \subseteq 1 .. written + n
      BY <1>4, <1>9, IdsOfWritten
    <2>2. lost \subseteq 1 .. written + n  BY <1>3, <1>4 DEF LostWereWritten
    <2> QED  BY <1>2, <1>13, <2>1, <2>2
  <1>17. PendingOfFormat'
    BY <1>2, <1>10 DEF PendingOfFormat
  <1>18. TypeOK'
    <2>1. pending' \in Seq(Frame)
      <3>1. S \subseteq Frame  BY <1>5 DEF FramesOf, Frame
      <3> QED  BY <1>2, <1>10, <3>1, SeqWidens
    <2>2. frameCounter' \in 0 .. CounterMod - 1 /\ emissions' \in Nat
      BY <1>3, <1>8, <1>14, LimitAssumption DEF TypeOK
    <2>3. wire' \subseteq Datagrams  BY <1>3, <1>11, <1>12 DEF TypeOK
    <2>4. lost' \subseteq Nat  BY <1>2, <1>4, <1>16
    <2>5. error' \in Errors  BY <1>3, <1>15 DEF TypeOK, Errors
    <2> QED  BY <1>2, <1>3, <1>4, <2>1, <2>2, <2>3, <2>4, <2>5 DEF TypeOK
  <1>19. HeaderDescribesPayload'
    BY <1>3, <1>11, <1>12, HeadersByDatagram
  <1>20. NumbersGiven' /\ LossStaysReported'
    <2>1. \A i \in sent : Datagram(PacketFrames(n, i), i).number = emissions + i
      BY DEF Datagram
    <2>2. \A d \in wire' : d \in wire \/ \E i \in sent : d.number = emissions + i
      BY <1>12, <2>1
    <2>3. \A i \in sent : \E d \in wire' : d.number = emissions + i
      BY <1>12, <2>1
    <2>4. wire \subseteq wire'  BY <1>12
    <2> QED  BY <1>2, <1>8, <1>14, <1>15, <2>2, <2>3, <2>4, EmittedAreReported
  <1>21. PacketSizeOfFormat'
    BY <1>2, <1>3 DEF PacketSizeOfFormat, ComputeSamplesPerPacket
  <1> QED  BY <1>16, <1>17, <1>18, <1>19, <1>20, <1>21 DEF SenderInv, LostWereWritten

\* flush(): one short packet.
LEMMA FlushKeepsInv ==
  ASSUME SenderInv, NEW ok \in BOOLEAN, Flush(ok)
  PROVE  SenderInv'
  <1> DEFINE sent == IF ok THEN {1} ELSE {}
  <1>1. TypeOK /\ PacketSizeOfFormat /\ PendingOfFormat /\ LostWereWritten
        /\ HeaderDescribesPayload /\ LossStaysReported
    BY DEF SenderInv
  <1>2. /\ wire' = wire \cup {Datagram(pending, i) : i \in sent}
        /\ lost' = IF ok THEN lost ELSE lost \cup Ids(pending)
        /\ frameCounter' = (frameCounter + 1) % CounterMod
        /\ error' = IF sent = 1 .. 1 THEN error ELSE "SendFailed"
        /\ emissions' = emissions + 1
        /\ lastFlush' = [returned |-> error' = error, sent |-> ok]
        /\ pending' = <<>>
        /\ UNCHANGED <<ready, format, samplesPerPacket, streamName,
                        written, dropped, opened, answered>>
    BY DEF Flush, CounterAfter, ErrorAfter
  <1>3. Len(pending) > 0  BY DEF Flush, FramesPending
  <1>4. written \in Nat  BY <1>1 DEF TypeOK
  <1>5. pending \in Seq(FramesOf(format, written)) /\ Len(pending) < samplesPerPacket
    BY <1>1, <1>3, EmptySeq DEF PendingOfFormat
  <1>6. Len(pending) \in Nat  BY <1>5, LenProperties
  <1>7. samplesPerPacket \in Nat  BY <1>1, LimitAssumption DEF TypeOK
  <1>8. samplesPerPacket > 0 /\ Len(pending) \in 1 .. samplesPerPacket
    BY <1>3, <1>5, <1>6, <1>7
  <1>9. Datagram(pending, 1) \in Datagrams /\ SelfDescribing(Datagram(pending, 1))
    BY <1>1, <1>4, <1>5, <1>8, DatagramDescribed
  <1>10. \A d \in wire' : d \in wire \/ d = Datagram(pending, 1)
    BY <1>2
  <1>11. ok => sent = 1 .. 1  OBVIOUS
  <1> HIDE DEF sent
  <1>12. lost' \subseteq 1 .. written'
    <2>1. Ids(pending) \subseteq 1 .. written  BY <1>4, <1>5, IdsOfWritten
    <2> QED  BY <1>1, <1>2, <2>1 DEF LostWereWritten
  <1>13. PendingOfFormat'
    BY <1>2, EmptySeq DEF PendingOfFormat
  <1>14. TypeOK'
    <2>1. frameCounter' \in 0 .. CounterMod - 1 /\ emissions' \in Nat
      BY <1>1, <1>2, LimitAssumption DEF TypeOK
    <2>2. wire' \subseteq Datagrams  BY <1>1, <1>9, <1>10 DEF TypeOK
    <2>3. lost' \subseteq Nat  BY <1>2, <1>4, <1>12
    <2>4. error' \in Errors  BY <1>1, <1>2 DEF TypeOK, Errors
    <2>5. lastFlush' \in [returned : BOOLEAN, sent : BOOLEAN]  BY <1>2
    <2>6. pending' \in Seq(Frame)  BY <1>2, EmptySeq
    <2> QED  BY <1>1, <1>2, <2>1, <2>2, <2>3, <2>4, <2>5, <2>6 DEF TypeOK
  <1>15. HeaderDescribesPayload'
    BY <1>1, <1>9, <1>10, HeadersByDatagram
  <1>16. NumbersGiven' /\ LossStaysReported'
    <2>1. sent \in SUBSET (1 .. 1)  BY DEF sent
    <2>2. \A i \in sent : Datagram(pending, i).number = emissions + i  BY DEF Datagram
    <2>3. \A d \in wire' : d \in wire \/ \E i \in sent : d.number = emissions + i
      BY <1>2, <2>2
    <2>4. \A i \in sent : \E d \in wire' : d.number = emissions + i
      BY <1>2, <2>2
    <2>5. wire \subseteq wire'  BY <1>2
    <2> QED  BY <1>2, <2>1, <2>3, <2>4, <2>5, EmittedAreReported
  <1>17. PacketSizeOfFormat'
    BY <1>1, <1>2 DEF PacketSizeOfFormat, ComputeSamplesPerPacket
  <1> QED  BY <1>12, <1>13, <1>14, <1>15, <1>16, <1>17 DEF SenderInv, LostWereWritten

\* The calls that send nothing: they leave wire and lost alone, and what they do
\* with the pending frames fits the format they leave behind.
LEMMA QuietCallKeepsInv ==
  ASSUME SenderInv, UNCHANGED <<wire, written, lost, emissions>>,
         ready' \in BOOLEAN, error' \in Errors,
         \/ UNCHANGED <<format, samplesPerPacket>>
         \/ /\ format' \in Formats /\ IsSendable(format')
            /\ samplesPerPacket' = ComputeSamplesPerPacket(format'.channels)
            /\ pending' = <<>>,
         pending' = <<>> \/ UNCHANGED <<pending, format, samplesPerPacket, ready>>,
         frameCounter' = 0 \/ UNCHANGED frameCounter,
         streamName' \in Names \cup {NoName},
         dropped' = dropped \/ dropped' = dropped \cup Ids(pending),
         opened' = written \/ opened' = opened,
         \/ answered' = emissions /\ error' # "SendFailed"
         \/ UNCHANGED <<answered, error>>,
         lastFlush' \in [returned : BOOLEAN, sent : BOOLEAN]
  PROVE  SenderInv'
  <1>1. TypeOK /\ PacketSizeOfFormat /\ PendingOfFormat /\ LostWereWritten
        /\ HeaderDescribesPayload /\ LossStaysReported
    BY DEF SenderInv
  <1>2. written \in Nat /\ opened' \in Nat /\ answered' \in Nat  BY <1>1 DEF TypeOK
  <1>3. PacketSizeOfFormat' /\ format' \in {f \in Formats : IsSendable(f)} \cup {NoFormat}
        /\ samplesPerPacket' \in 0 .. MaxSamples
    <2>1. CASE UNCHANGED format /\ UNCHANGED samplesPerPacket
      BY <1>1, <2>1 DEF TypeOK, PacketSizeOfFormat, ComputeSamplesPerPacket
    <2>2. CASE /\ format' \in Formats /\ IsSendable(format')
               /\ samplesPerPacket' = ComputeSamplesPerPacket(format'.channels)
      <3>1. format' # NoFormat  BY <2>2 DEF IsSendable, IsValid, NoFormat
      <3>2. samplesPerPacket' \in 1 .. MaxSamples  BY <2>2, PacketSizeFits
      <3>3. samplesPerPacket' \in 0 .. MaxSamples  BY <3>2, LimitAssumption
      <3> QED  BY <2>2, <3>1, <3>3 DEF PacketSizeOfFormat, ComputeSamplesPerPacket
    <2> QED  BY <2>1, <2>2
  <1>4. PendingOfFormat' /\ pending' \in Seq(Frame)
    <2>1. CASE pending' = <<>>
      BY <2>1, EmptySeq DEF PendingOfFormat
    <2>2. CASE UNCHANGED <<pending, format, samplesPerPacket, ready>>
      BY <1>1, <2>2 DEF PendingOfFormat, TypeOK, FramesOf
    <2> QED  BY <2>1, <2>2
  <1>5. dropped' \subseteq Nat
    <2>1. Ids(pending) \subseteq 1 .. written
      BY <1>1, <1>2, IdsOfWritten DEF PendingOfFormat
    <2>2. 1 .. written \subseteq Nat /\ dropped \subseteq Nat  BY <1>1, <1>2 DEF TypeOK
    <2> QED  BY <2>1, <2>2
  <1>6. TypeOK'
    <2>1. frameCounter' \in 0 .. CounterMod - 1
      <3>1. frameCounter \in 0 .. CounterMod - 1  BY <1>1 DEF TypeOK
      <3> QED  BY <3>1, ZeroInRange
    <2>2. wire' \subseteq Datagrams /\ written' \in Nat /\ emissions' \in Nat /\ lost' \subseteq Nat
      BY <1>1 DEF TypeOK
    <2>3. /\ ready' \in BOOLEAN /\ error' \in Errors /\ streamName' \in Names \cup {NoName}
          /\ lastFlush' \in [returned : BOOLEAN, sent : BOOLEAN]
      OBVIOUS
    <2> QED  BY <1>2, <1>3, <1>4, <1>5, <2>1, <2>2, <2>3, Zenon DEF TypeOK
  <1>7. HeaderDescribesPayload'
    BY <1>1, HeadersByDatagram
  <1>8. NumbersGiven' /\ LossStaysReported'
    <2>1. emissions \in Nat /\ NumbersGiven  BY DEF SenderInv, TypeOK
    <2>2. CASE answered' = emissions /\ error' # "SendFailed"
      <3>1. answered' + 1 .. emissions' = {}  BY <2>1, <2>2
      <3>2. ~ FailedSince'  BY <3>1 DEF FailedSince
      <3> QED  BY <2>1, <2>2, <3>2 DEF NumbersGiven, LossStaysReported
    <2>3. CASE UNCHANGED <<answered, error>>
      BY <1>1, <2>1, <2>3 DEF NumbersGiven, LossStaysReported, FailedSince
    <2> QED  BY <2>2, <2>3
  <1> QED
    BY <1>1, <1>3, <1>4, <1>6, <1>7, <1>8 DEF SenderInv, LostWereWritten

\* The invariant holds initially.
LEMMA InitInv == Init => SenderInv
  <1> SUFFICES ASSUME Init PROVE SenderInv
    OBVIOUS
  <1>1. TypeOK
    BY EmptySeq, ZeroInRange DEF Init, TypeOK, Errors, NoFormat
  <1>2. PacketSizeOfFormat /\ LostWereWritten /\ HeaderDescribesPayload
    BY DEF Init, PacketSizeOfFormat, LostWereWritten, HeaderDescribesPayload
  <1>4. NumbersGiven /\ LossStaysReported
    BY DEF Init, NumbersGiven, LossStaysReported, FailedSince
  <1>3. PendingOfFormat
    BY EmptySeq DEF Init, PendingOfFormat
  <1> QED  BY <1>1, <1>2, <1>3, <1>4 DEF SenderInv

\* Every call keeps the invariant.
LEMMA StepKeepsInv ==
  ASSUME SenderInv, [Next]_vars
  PROVE  SenderInv'
  <1>1. TypeOK /\ PendingOfFormat  BY DEF SenderInv
  <1>2. ASSUME NEW port \in {0, 1}, NEW name \in Names, Begin(port, name)
        PROVE  SenderInv'
    BY <1>1, <1>2, QuietCallKeepsInv DEF Begin, DropPending, Errors, TypeOK
  <1>3. CASE End
    BY <1>1, <1>3, QuietCallKeepsInv DEF End, DropPending, Errors, TypeOK
  <1>4. ASSUME NEW f \in Formats, SetFormatRejected(f)
        PROVE  SenderInv'
    BY <1>1, <1>4, QuietCallKeepsInv DEF SetFormatRejected, Errors, TypeOK
  <1>5. ASSUME NEW f \in Formats, SetFormat(f)
        PROVE  SenderInv'
    BY <1>1, <1>5, QuietCallKeepsInv DEF SetFormat, DropPending, TypeOK
  <1>6. ASSUME NEW name \in Names, SetStreamName(name)
        PROVE  SenderInv'
    BY <1>1, <1>6, QuietCallKeepsInv DEF SetStreamName, history, TypeOK
  <1>7. CASE WriteRefused
    BY <1>1, <1>7, QuietCallKeepsInv DEF WriteRefused, Errors, TypeOK
  <1>8. ASSUME NEW n \in WriteSizes, WriteFrames(n)
        PROVE  SenderInv'
    BY <1>8, WriteKeepsInv
  <1>9. CASE FlushRefused
    BY <1>1, <1>9, QuietCallKeepsInv DEF FlushRefused, Errors, TypeOK
  <1>10. CASE FlushNothing
    BY <1>1, <1>10, QuietCallKeepsInv DEF FlushNothing, state, TypeOK
  <1>11. ASSUME NEW ok \in BOOLEAN, Flush(ok)
         PROVE  SenderInv'
    BY <1>11, FlushKeepsInv
  <1>12. CASE UNCHANGED vars
    BY <1>1, <1>12, QuietCallKeepsInv DEF vars, state, history, TypeOK
  <1> QED
    BY <1>2, <1>3, <1>4, <1>5, <1>6, <1>7, <1>8, <1>9, <1>10, <1>11, <1>12 DEF Next

\* So it holds throughout.
LEMMA SenderInvHolds == Spec => []SenderInv
  BY InitInv, StepKeepsInv, PTL DEF Spec

-----------------------------------------------------------------------------
\* The book-keeping of frames.  Settled: the frames that left the scratch buffer.
Settled == written - Len(pending)

\* The pending frames are the newest ones written, and of this session.
PendingIsNewest ==
  /\ opened <= Settled
  /\ \A j \in 1 .. Len(pending) : pending[j].id = Settled + j

\* p[m] are the numbers of the frames of the m-th packet that was built: no packet
\* is empty, and a later one holds later frames.
PacketsAscend(p) ==
  /\ p \in [1 .. emissions -> SUBSET (1 .. Settled)]
  /\ \A m \in 1 .. emissions : p[m] # {}
  /\ \A m, n \in 1 .. emissions : m < n => \A i \in p[m], j \in p[n] : i < j

\* A packet is on the wire, once, or its frames are lost.
WireHolds(p) ==
  /\ \A d \in wire : d.number \in 1 .. emissions /\ Ids(d.frames) = p[d.number]
  /\ \A d, e \in wire : d.number = e.number => d = e

LostAre(p) ==
  \A i : i \in lost <=>
    \E m \in 1 .. emissions : i \in p[m] /\ \A d \in wire : d.number # m

\* Frames that no packet holds were discarded.
DroppedAre(p) ==
  \A i : i \in dropped <=> i \in 1 .. Settled /\ \A m \in 1 .. emissions : i \notin p[m]

Accounted(p) == PacketsAscend(p) /\ WireHolds(p) /\ LostAre(p) /\ DroppedAre(p)

\* A run of frames behind the number `from`.
IsRun(s, from) == \A j \in 1 .. Len(s) : s[j].id = from + j

PacketsAreRuns == \A d \in wire : \E from \in Nat : IsRun(d.frames, from)

\* The counter of a packet gives its place in its session; a session holds
\* frames written after it began.
CounterTellsPlace ==
  /\ \A d \in wire : \A i \in Ids(d.frames) : d.session < i
  /\ \A d \in wire : d.session = opened =>
       frameCounter = (d.counter + (emissions + 1 - d.number)) % CounterMod
  /\ \A d, e \in wire : d.session = e.session /\ d.number < e.number =>
       e.counter = (d.counter + (e.number - d.number)) % CounterMod

\* The second inductive invariant.
BookInv ==
  /\ PendingIsNewest
  /\ \E p : Accounted(p)
  /\ PacketsAreRuns
  /\ CounterTellsPlace

\* What the invariants say of the scratch buffer and the counters.
LEMMA SenderTypes ==
  ASSUME SenderInv
  PROVE  /\ Len(pending) \in Nat /\ written \in Nat /\ opened \in Nat /\ emissions \in Nat
         /\ frameCounter \in 0 .. CounterMod - 1 /\ frameCounter \in Nat
         /\ CounterMod \in Nat \ {0, 1}
         /\ \A d \in wire : /\ d \in Datagrams /\ d.counter \in Nat
                            /\ d.session \in Nat /\ d.number \in Nat
                            /\ d.frames \in Seq(Frame)
                            /\ Len(d.frames) \in Nat \ {0}
  <1>1. TypeOK /\ HeaderDescribesPayload  BY DEF SenderInv
  <1>2. /\ pending \in Seq(Frame) /\ written \in Nat /\ opened \in Nat /\ emissions \in Nat
        /\ frameCounter \in 0 .. CounterMod - 1 /\ wire \subseteq Datagrams
    BY <1>1, Zenon DEF TypeOK
  <1>3. CounterMod \in Nat \ {0, 1} /\ MaxSamples \in Nat \ {0}  BY LimitAssumption
  <1>4. ASSUME NEW d \in wire
        PROVE  /\ d \in Datagrams /\ d.counter \in Nat /\ d.session \in Nat /\ d.number \in Nat
               /\ d.frames \in Seq(Frame) /\ Len(d.frames) \in Nat \ {0}
    <2>1. d \in Datagrams  BY <1>2
    <2>2. /\ d.counter \in 0 .. CounterMod - 1 /\ d.session \in Nat /\ d.number \in Nat
          /\ d.frames \in Seq(Frame)
      BY <2>1 DEF Datagrams
    <2>3. Len(d.frames) \in 1 .. MaxSamples  BY <1>1 DEF HeaderDescribesPayload
    <2> QED  BY <1>3, <2>1, <2>2, <2>3
  <1> QED  BY <1>2, <1>3, <1>4, LenProperties

LEMMA IdsOfRun ==
  ASSUME NEW S, NEW s \in Seq(S), NEW from \in Nat, IsRun(s, from)
  PROVE  /\ Ids(s) = from + 1 .. from + Len(s)
         /\ \A j \in 1 .. Len(s) - 1 : s[j + 1].id = s[j].id + 1
  <1>1. Len(s) \in Nat  BY LenProperties
  <1>2. \A j \in 1 .. Len(s) : s[j].id = from + j  BY DEF IsRun
  <1>3. ASSUME NEW x \in Ids(s) PROVE x \in from + 1 .. from + Len(s)
    <2>1. PICK j \in 1 .. Len(s) : x = s[j].id  BY DEF Ids
    <2>2. x = from + j  BY <1>2, <2>1
    <2> QED  BY <1>1, <2>2
  <1>4. ASSUME NEW x \in from + 1 .. from + Len(s) PROVE x \in Ids(s)
    <2>1. x - from \in 1 .. Len(s) /\ from + (x - from) = x  BY <1>1
    <2>2. x = s[x - from].id  BY <1>2, <2>1
    <2> QED  BY <2>1, <2>2 DEF Ids
  <1>5. ASSUME NEW j \in 1 .. Len(s) - 1 PROVE s[j + 1].id = s[j].id + 1
    <2>1. j \in 1 .. Len(s) /\ j + 1 \in 1 .. Len(s)  BY <1>1
    <2>2. s[j].id = from + j /\ s[j + 1].id = from + (j + 1)  BY <1>2, <2>1
    <2> QED  BY <2>2
  <1> QED  BY <1>3, <1>4, <1>5

-----------------------------------------------------------------------------
\* Named for the provers: products of variables hide a sum from them.
LEMMA NatSum == \A x, y \in Nat : x + y \in Nat
  OBVIOUS

\* F[1], ..., F[k] are packets of b frames cut in a row behind the settled ones.
CutInRows(F, k, b) ==
  \A i \in 1 .. k : /\ F[i] \in Seq(Frame) /\ Len(F[i]) = b
                    /\ IsRun(F[i], Settled + (i - 1) * b)

\* Packets that are cut in a row out of what is gathered extend the books.
LEMMA EmitKeepsBook ==
  ASSUME SenderInv, BookInv, NEW k \in Nat, NEW b \in Nat \ {0}, NEW F,
         NEW sent \in SUBSET (1 .. k),
         CutInRows(F, k, b),
         wire' = wire \cup {Datagram(F[i], i) : i \in sent},
         lost' = lost \cup UNION {Ids(F[i]) : i \in (1 .. k) \ sent},
         frameCounter' = (frameCounter + k) % CounterMod,
         emissions' = emissions + k, dropped' = dropped, opened' = opened,
         Settled' = Settled + k * b
  PROVE  (\E p : Accounted(p))' /\ PacketsAreRuns' /\ CounterTellsPlace'
  <1>1. /\ Len(pending) \in Nat /\ written \in Nat /\ opened \in Nat /\ emissions \in Nat
        /\ frameCounter \in Nat /\ CounterMod \in Nat \ {0, 1}
    BY SenderTypes
  <1>2. Settled \in Nat /\ opened <= Settled
    BY <1>1 DEF BookInv, PendingIsNewest, Settled
  <1>3. PICK p : Accounted(p)  BY DEF BookInv
  <1>4. PICK q : q = [m \in 1 .. emissions + k |->
                        IF m <= emissions THEN p[m] ELSE Row(Settled, b, m - emissions)]
    OBVIOUS
  <1> DEFINE S == Settled
             e == emissions
  <1>5. S \in Nat /\ e \in Nat  BY <1>1, <1>2
  <1>6. /\ \A m \in 1 .. e : q[m] = p[m]
        /\ \A i \in 1 .. k : q[e + i] = Row(S, b, i)
    <2>1. ASSUME NEW m \in 1 .. e PROVE q[m] = p[m]
      BY <1>4, <1>5
    <2>2. ASSUME NEW i \in 1 .. k PROVE q[e + i] = Row(S, b, i)
      <3>1. e + i \in 1 .. e + k /\ ~ (e + i <= e) /\ (e + i) - e = i  BY <1>5
      <3> QED  BY <1>4, <3>1
    <2> QED  BY <2>1, <2>2
  <1>7. \A m \in 1 .. e + k : m \in 1 .. e \/ \E i \in 1 .. k : m = e + i
    <2>1. ASSUME NEW m \in 1 .. e + k, m \notin 1 .. e  PROVE \E i \in 1 .. k : m = e + i
      <3>1. m - e \in 1 .. k /\ m = e + (m - e)  BY <1>5, <2>1
      <3> QED  BY <3>1
    <2> QED  BY <2>1
  <1>8. /\ RowsCover(S, b, k) /\ RowsWithin(S, b, k) /\ RowsAscend(S, b, k)
        /\ \A i \in 1 .. k : S + i * b \in Row(S, b, i)
    BY <1>5, RowsPartition
  <1>9. \A i \in 1 .. k : Ids(F[i]) = Row(S, b, i)
    <2> SUFFICES ASSUME NEW i \in 1 .. k PROVE Ids(F[i]) = Row(S, b, i)
      OBVIOUS
    <2>1. (i - 1) * b \in Nat /\ i * b = (i - 1) * b + b  BY RowsFit
    <2>2. S + (i - 1) * b \in Nat  BY <1>5, <2>1, NatSum, Zenon
    <2>3. Ids(F[i]) = S + (i - 1) * b + 1 .. S + (i - 1) * b + Len(F[i]) /\ Len(F[i]) = b
      BY <2>2, IdsOfRun DEF CutInRows
    <2>4. S + (i - 1) * b + b = S + i * b  BY <1>5, <2>1
    <2> QED  BY <2>3, <2>4 DEF Row
  <1>10. k * b \in Nat  BY SMTT(30)
  <1>11. \A d \in wire' : d \in wire \/ \E i \in sent : d = Datagram(F[i], i)
    OBVIOUS
  <1>12. \A i \in sent : /\ i \in 1 .. k
                         /\ Datagram(F[i], i).number = e + i
                         /\ Datagram(F[i], i).frames = F[i]
                         /\ Datagram(F[i], i).session = opened
                         /\ Datagram(F[i], i).counter = (frameCounter + i - 1) % CounterMod
    BY DEF Datagram
  <1>13. emissions' = e + k /\ Settled' = S + k * b  OBVIOUS
  <1>14. /\ p \in [1 .. e -> SUBSET (1 .. S)]
         /\ \A m \in 1 .. e : p[m] # {}
         /\ \A m, n \in 1 .. e : m < n => \A i \in p[m], j \in p[n] : i < j
         /\ \A d \in wire : d.number \in 1 .. e /\ Ids(d.frames) = p[d.number]
         /\ \A d, g \in wire : d.number = g.number => d = g
         /\ \A i : i \in lost <=> \E m \in 1 .. e : i \in p[m] /\ \A d \in wire : d.number # m
         /\ \A i : i \in dropped <=> i \in 1 .. S /\ \A m \in 1 .. e : i \notin p[m]
    BY <1>3 DEF Accounted, PacketsAscend, WireHolds, LostAre, DroppedAre
  <1> HIDE DEF S, e
  <1>15. \A d \in wire : d.number \in 1 .. e /\ Ids(d.frames) \subseteq 1 .. S
    BY <1>14
  \* Old packets hold what was settled, new ones what was not.
  <1>16. \A m \in 1 .. e, i \in 1 .. k : \A x \in q[m], y \in q[e + i] : x < y
    <2> SUFFICES ASSUME NEW m \in 1 .. e, NEW i \in 1 .. k, NEW x \in q[m], NEW y \in q[e + i]
                 PROVE  x < y
      OBVIOUS
    <2>1. x \in 1 .. S  BY <1>6, <1>14
    <2>2. y \in S + 1 .. S + k * b  BY <1>6, <1>8 DEF RowsWithin
    <2> QED  BY <1>5, <1>10, <2>1, <2>2
  <1>17. PacketsAscend(q)'
    <2>1. ASSUME NEW m \in 1 .. e + k
          PROVE  q[m] \subseteq 1 .. S + k * b /\ q[m] # {}
      <3>1. CASE m \in 1 .. e
        <4>1. q[m] \subseteq 1 .. S /\ q[m] # {}  BY <1>6, <1>14, <3>1
        <4>2. 1 .. S \subseteq 1 .. S + k * b  BY <1>5, <1>10
        <4> QED  BY <4>1, <4>2
      <3>2. ASSUME NEW i \in 1 .. k, m = e + i
            PROVE  q[m] \subseteq 1 .. S + k * b /\ q[m] # {}
        <4>1. q[m] = Row(S, b, i)  BY <1>6, <3>2
        <4>2. S + 1 .. S + k * b \subseteq 1 .. S + k * b  BY <1>5, <1>10
        <4> QED  BY <1>8, <4>1, <4>2 DEF RowsWithin
      <3> QED  BY <1>7, <3>1, <3>2
    <2>2. q \in [1 .. e + k -> SUBSET (1 .. S + k * b)]
      <3>1. DOMAIN q = 1 .. e + k /\ q = [m \in 1 .. e + k |-> q[m]]  BY <1>4 DEF e
      <3> QED  BY <2>1, <3>1
    <2>3. ASSUME NEW m \in 1 .. e + k, NEW n \in 1 .. e + k, m < n, NEW x \in q[m], NEW y \in q[n]
          PROVE  x < y
      <3>1. CASE m \in 1 .. e /\ n \in 1 .. e  BY <1>6, <1>14, <2>3, <3>1
      <3>2. ASSUME m \in 1 .. e, NEW i \in 1 .. k, n = e + i  PROVE x < y
        BY <1>16, <2>3, <3>2
      <3>3. ASSUME NEW i \in 1 .. k, m = e + i, NEW j \in 1 .. k, n = e + j  PROVE x < y
        <4>1. i < j  BY <1>5, <2>3, <3>3
        <4>2. x \in Row(S, b, i) /\ y \in Row(S, b, j)  BY <1>6, <2>3, <3>3
        <4> QED  BY <1>8, <4>1, <4>2 DEF RowsAscend
      <3>4. ASSUME NEW i \in 1 .. k, m = e + i, n \in 1 .. e  PROVE x < y
        BY <1>5, <2>3, <3>4
      <3> QED  BY <1>7, <3>1, <3>2, <3>3, <3>4
    <2> QED  BY <1>13, <2>1, <2>2, <2>3 DEF PacketsAscend
  <1>18. WireHolds(q)'
    <2>1. ASSUME NEW d \in wire' PROVE d.number \in 1 .. e + k /\ Ids(d.frames) = q[d.number]
      <3>1. CASE d \in wire
        <4>1. d.number \in 1 .. e /\ Ids(d.frames) = p[d.number]  BY <1>14, <3>1
        <4> QED  BY <1>5, <1>6, <4>1
      <3>2. ASSUME NEW i \in sent, d = Datagram(F[i], i)
            PROVE  d.number \in 1 .. e + k /\ Ids(d.frames) = q[d.number]
        <4>1. i \in 1 .. k /\ d.number = e + i /\ d.frames = F[i]  BY <1>12, <3>2
        <4> QED  BY <1>5, <1>6, <1>9, <4>1
      <3> QED  BY <1>11, <3>1, <3>2
    <2>2. ASSUME NEW d \in wire', NEW g \in wire', d.number = g.number PROVE d = g
      <3>1. CASE d \in wire /\ g \in wire  BY <1>14, <2>2, <3>1
      <3>2. ASSUME NEW i \in sent, d = Datagram(F[i], i), g \in wire  PROVE FALSE
        BY <1>5, <1>12, <1>14, <2>2, <3>2
      <3>3. ASSUME NEW i \in sent, g = Datagram(F[i], i), d \in wire  PROVE FALSE
        BY <1>5, <1>12, <1>14, <2>2, <3>3
      <3>4. ASSUME NEW i \in sent, d = Datagram(F[i], i), NEW j \in sent, g = Datagram(F[j], j)
            PROVE  d = g
        <4>1. i \in 1 .. k /\ j \in 1 .. k /\ e + i = e + j  BY <1>12, <2>2, <3>4
        <4>2. i = j  BY <1>5, <4>1
        <4> QED  BY <3>4, <4>2
      <3> QED  BY <1>11, <2>2, <3>1, <3>2, <3>3, <3>4
    <2> QED  BY <1>13, <2>1, <2>2 DEF WireHolds
  <1>19. LostAre(q)'
    <2>1. ASSUME NEW x \in lost'
          PROVE  \E m \in 1 .. e + k : x \in q[m] /\ \A d \in wire' : d.number # m
      <3>1. CASE x \in lost
        <4>1. PICK m \in 1 .. e : x \in p[m] /\ \A d \in wire : d.number # m
          BY <1>14, <3>1
        <4>2. m \in 1 .. e + k  BY <1>5
        <4>4. x \in q[m]  BY <1>6, <4>1, Zenon
        <4>3. \A d \in wire' : d.number # m
          <5>1. \A i \in sent : e + i # m  BY <1>5, <1>12
          <5> QED  BY <1>11, <1>12, <4>1, <5>1
        <4> QED  BY <4>2, <4>3, <4>4
      <3>2. ASSUME NEW i \in (1 .. k) \ sent, x \in Ids(F[i])
            PROVE  \E m \in 1 .. e + k : x \in q[m] /\ \A d \in wire' : d.number # m
        <4>1. e + i \in 1 .. e + k /\ x \in q[e + i]  BY <1>5, <1>6, <1>9, <3>2
        <4>2. \A d \in wire' : d.number # e + i
          <5>1. \A d \in wire : d.number # e + i  BY <1>5, <1>14
          <5>2. \A j \in sent : e + j # e + i  BY <1>5, <1>12, <3>2
          <5> QED  BY <1>11, <1>12, <5>1, <5>2
        <4> QED  BY <4>1, <4>2
      <3> QED  BY <2>1, <3>1, <3>2
    <2>2. ASSUME NEW x, NEW m \in 1 .. e + k, x \in q[m], \A d \in wire' : d.number # m
          PROVE  x \in lost'
      <3>1. CASE m \in 1 .. e
        <4>1. x \in p[m] /\ \A d \in wire : d.number # m  BY <1>6, <2>2, <3>1
        <4>2. x \in lost  BY <1>14, <3>1, <4>1
        <4> QED  BY <4>2
      <3>2. ASSUME NEW i \in 1 .. k, m = e + i  PROVE x \in lost'
        <4>1. i \notin sent
          <5>1. ASSUME i \in sent PROVE FALSE
            <6>1. Datagram(F[i], i) \in wire'  BY <5>1
            <6> QED  BY <1>12, <2>2, <3>2, <5>1, <6>1
          <5> QED  BY <5>1
        <4>2. x \in Ids(F[i])  BY <1>6, <1>9, <2>2, <3>2
        <4> QED  BY <4>1, <4>2
      <3> QED  BY <1>7, <3>1, <3>2
    <2> QED  BY <1>13, <2>1, <2>2 DEF LostAre
  <1>20. DroppedAre(q)'
    <2>1. ASSUME NEW x \in dropped PROVE x \in 1 .. S + k * b /\ \A m \in 1 .. e + k : x \notin q[m]
      <3>1. x \in 1 .. S /\ \A m \in 1 .. e : x \notin p[m]  BY <1>14
      <3>2. ASSUME NEW i \in 1 .. k PROVE x \notin q[e + i]
        <4>1. \A y \in Row(S, b, i) : y \in S + 1 .. S + k * b  BY <1>8 DEF RowsWithin
        <4>2. x \notin S + 1 .. S + k * b  BY <1>5, <1>10, <3>1
        <4> QED  BY <1>6, <4>1, <4>2
      <3>3. x \in 1 .. S + k * b  BY <1>5, <1>10, <3>1
      <3>4. \A m \in 1 .. e + k : x \notin q[m]  BY <1>6, <1>7, <3>1, <3>2, Zenon
      <3> QED  BY <3>3, <3>4
    <2>2. ASSUME NEW x \in 1 .. S + k * b, \A m \in 1 .. e + k : x \notin q[m]
          PROVE  x \in dropped
      <3>1. x \in 1 .. S
        <4>1. CASE x \in S + 1 .. S + k * b
          <5>1. PICK i \in 1 .. k : x \in Row(S, b, i)  BY <1>8, <4>1 DEF RowsCover
          <5>2. e + i \in 1 .. e + k /\ q[e + i] = Row(S, b, i)  BY <1>5, <1>6
          <5> QED  BY <2>2, <5>1, <5>2
        <4> QED  BY <1>5, <1>10, <4>1
      <3>2. \A m \in 1 .. e : x \notin p[m]
        <4>1. \A m \in 1 .. e : m \in 1 .. e + k  BY <1>5
        <4> QED  BY <1>6, <2>2, <4>1
      <3> QED  BY <1>14, <3>1, <3>2
    <2> QED  BY <1>13, <2>1, <2>2 DEF DroppedAre
  <1>21. (\E x : Accounted(x))'
    BY <1>17, <1>18, <1>19, <1>20 DEF Accounted
  <1>22. PacketsAreRuns'
    <2>1. ASSUME NEW i \in 1 .. k PROVE \E from \in Nat : IsRun(F[i], from)
      <3>1. (i - 1) * b \in Nat  BY RowsFit
      <3>2. Settled + (i - 1) * b \in Nat  BY <1>2, <3>1, NatSum, Zenon
      <3>3. IsRun(F[i], Settled + (i - 1) * b)  BY DEF CutInRows
      <3> QED  BY <3>2, <3>3, Zenon
    <2>2. \A d \in wire : \E from \in Nat : IsRun(d.frames, from)
      BY DEF BookInv, PacketsAreRuns
    <2>3. ASSUME NEW d \in wire' PROVE \E from \in Nat : IsRun(d.frames, from)
      <3>1. CASE d \in wire  BY <2>2, <3>1
      <3>2. ASSUME NEW i \in sent, d = Datagram(F[i], i)
            PROVE  \E from \in Nat : IsRun(d.frames, from)
        <4>1. i \in 1 .. k /\ d.frames = F[i]  BY <1>12, <3>2
        <4> QED  BY <2>1, <4>1
      <3> QED  BY <1>11, <3>1, <3>2
    <2> QED  BY <2>3, Zenon DEF PacketsAreRuns
  <1>23. CounterTellsPlace'
    <2> DEFINE M == CounterMod
               f == frameCounter
    <2>1. M \in Nat \ {0} /\ f \in Nat  BY <1>1
    <2>2. CounterTellsPlace  BY DEF BookInv
    <2>3. ASSUME NEW d \in wire' PROVE \A x \in Ids(d.frames) : d.session < x
      <3>1. CASE d \in wire  BY <2>2, <3>1 DEF CounterTellsPlace
      <3>2. ASSUME NEW i \in sent, d = Datagram(F[i], i), NEW x \in Ids(d.frames)
            PROVE  d.session < x
        <4>1. d.session = opened /\ x \in Row(S, b, i) /\ i \in 1 .. k  BY <1>9, <1>12, <3>2
        <4>2. x \in S + 1 .. S + k * b  BY <1>8, <4>1 DEF RowsWithin
        <4>3. opened <= S  BY <1>2 DEF S
        <4> QED  BY <1>1, <1>5, <1>10, <4>1, <4>2, <4>3
      <3> QED  BY <1>11, <3>1, <3>2
    <2>4. ASSUME NEW d \in wire, d.session = opened
          PROVE  /\ d.counter \in Nat /\ d.number \in 1 .. e
                 /\ f = (d.counter + (e + 1 - d.number)) % M
      BY <1>14, <2>2, <2>4, SenderTypes DEF CounterTellsPlace, e
    <2> HIDE DEF M, f
    \* The i-th packet from here, as seen from an earlier one of the session.
    <2>5. ASSUME NEW d \in wire, d.session = opened, NEW i \in Nat \ {0}
          PROVE  (f + i - 1) % M = (d.counter + ((e + i) - d.number)) % M
      <3> DEFINE a == d.counter + (e + 1 - d.number)
      <3>0. d.counter \in Nat /\ d.number \in 1 .. e /\ f = a % M  BY <2>4, <2>5
      <3>1. a \in Nat /\ i - 1 \in Nat  BY <1>5, <3>0
      <3>2. a + (i - 1) = d.counter + ((e + i) - d.number)  BY <1>5, <3>0
      <3> HIDE DEF a
      <3>3. ((a % M) + (i - 1)) % M = (a + (i - 1)) % M  BY <2>1, <3>1, ModSum
      <3>4. f + i - 1 = (a % M) + (i - 1)  BY <2>1, <3>0
      <3> QED  BY <3>0, <3>2, <3>3, <3>4
    <2>6. ASSUME NEW i \in Nat \ {0}, NEW j \in Nat, i <= j
          PROVE  (f + j - 1) % M = (((f + i - 1) % M) + (j - i)) % M
      <3> DEFINE a == f + i - 1
      <3>1. a \in Nat /\ j - i \in Nat /\ a + (j - i) = f + j - 1  BY <2>1, <2>6
      <3> HIDE DEF a
      <3>2. ((a % M) + (j - i)) % M = (a + (j - i)) % M  BY <2>1, <3>1, ModSum
      <3> QED  BY <3>1, <3>2 DEF a
    <2>7. ASSUME NEW d \in wire', d.session = opened
          PROVE  frameCounter' = (d.counter + ((e + k) + 1 - d.number)) % M
      <3>1. frameCounter' = (f + (k + 1) - 1) % M
        <4>1. f + (k + 1) - 1 = f + k  BY <2>1
        <4> QED  BY <4>1 DEF f, M
      <3>2. k + 1 \in Nat \ {0} /\ k + 1 \in Nat  OBVIOUS
      <3>3. CASE d \in wire
        <4>1. (f + (k + 1) - 1) % M = (d.counter + ((e + (k + 1)) - d.number)) % M
          BY <2>5, <2>7, <3>2, <3>3
        <4>3. d.number \in 1 .. e  BY <1>14, <3>3
        <4>2. (e + (k + 1)) - d.number = (e + k) + 1 - d.number  BY <1>5, <4>3
        <4> QED  BY <3>1, <4>1, <4>2
      <3>4. ASSUME NEW i \in sent, d = Datagram(F[i], i)
            PROVE  frameCounter' = (d.counter + ((e + k) + 1 - d.number)) % M
        <4>1. i \in 1 .. k /\ d.number = e + i /\ d.counter = (f + i - 1) % M
          BY <1>12, <3>4 DEF f, M
        <4>2. i \in Nat \ {0} /\ i <= k + 1 /\ (k + 1) - i = (e + k) + 1 - (e + i)
          BY <1>5, <4>1
        <4>3. (f + (k + 1) - 1) % M = (((f + i - 1) % M) + ((k + 1) - i)) % M
          BY <2>6, <3>2, <4>2
        <4> QED  BY <3>1, <4>1, <4>2, <4>3
      <3> QED  BY <1>11, <3>3, <3>4
    <2>8. ASSUME NEW d \in wire', NEW g \in wire', d.session = g.session, d.number < g.number
          PROVE  g.counter = (d.counter + (g.number - d.number)) % M
      <3>1. CASE d \in wire /\ g \in wire
        BY <2>2, <2>8, <3>1 DEF CounterTellsPlace, M
      <3>2. ASSUME d \in wire, NEW i \in sent, g = Datagram(F[i], i)
            PROVE  g.counter = (d.counter + (g.number - d.number)) % M
        <4>1. /\ i \in 1 .. k /\ g.number = e + i /\ g.counter = (f + i - 1) % M
              /\ d.session = opened /\ i \in Nat \ {0}
          BY <1>12, <2>8, <3>2 DEF f, M
        <4>2. (f + i - 1) % M = (d.counter + ((e + i) - d.number)) % M
          BY <2>5, <3>2, <4>1
        <4> QED  BY <4>1, <4>2
      <3>3. ASSUME NEW i \in sent, d = Datagram(F[i], i), g \in wire  PROVE FALSE
        <4>1. i \in 1 .. k /\ d.number = e + i /\ g.number \in 1 .. e  BY <1>12, <1>14, <3>3
        <4> QED  BY <1>5, <2>8, <4>1
      <3>4. ASSUME NEW i \in sent, d = Datagram(F[i], i), NEW j \in sent, g = Datagram(F[j], j)
            PROVE  g.counter = (d.counter + (g.number - d.number)) % M
        <4>1. /\ i \in 1 .. k /\ d.number = e + i /\ d.counter = (f + i - 1) % M
              /\ j \in 1 .. k /\ g.number = e + j /\ g.counter = (f + j - 1) % M
          BY <1>12, <3>4 DEF f, M
        <4>2. i \in Nat \ {0} /\ j \in Nat /\ i <= j /\ j - i = (e + j) - (e + i)
          BY <1>5, <2>8, <4>1
        <4>3. (f + j - 1) % M = (((f + i - 1) % M) + (j - i)) % M
          BY <2>6, <4>2
        <4> QED  BY <4>1, <4>2, <4>3
      <3> QED  BY <1>11, <2>8, <3>1, <3>2, <3>3, <3>4
    <2> QED  BY <1>13, <2>3, <2>7, <2>8 DEF CounterTellsPlace, M
  <1> QED  BY <1>21, <1>22, <1>23

-----------------------------------------------------------------------------
\* A piece of a run is a run.
LEMMA RunOfCut ==
  ASSUME NEW S, NEW g \in Seq(S), NEW T, NEW s \in Seq(T), NEW from \in Nat, NEW x \in Nat,
         IsRun(g, from), CutAt(s, g, x), x + Len(s) <= Len(g)
  PROVE  IsRun(s, from + x)
  <1> SUFFICES ASSUME NEW j \in 1 .. Len(s) PROVE s[j].id = (from + x) + j
    BY DEF IsRun
  <1>1. Len(s) \in Nat /\ Len(g) \in Nat  BY LenProperties
  <1>2. x + j \in 1 .. Len(g) /\ from + (x + j) = (from + x) + j  BY <1>1
  <1>3. g[x + j].id = from + (x + j)  BY <1>2 DEF IsRun
  <1>4. s[j] = g[x + j]  BY DEF CutAt
  <1> QED  BY <1>2, <1>3, <1>4

\* What a call gathers is a run behind the settled frames.
LEMMA GatheredIsRun ==
  ASSUME SenderInv, BookInv, samplesPerPacket > 0, NEW n \in WriteSizes
  PROVE  /\ Gathered(n) \in Seq(Frame) /\ Len(Gathered(n)) = Len(pending) + n
         /\ n \in Nat \ {0} /\ samplesPerPacket \in Nat \ {0}
         /\ Settled \in Nat /\ Settled + Len(pending) = written /\ opened <= Settled
         /\ IsRun(Gathered(n), Settled)
  <1> DEFINE new == [i \in 1 .. n |-> [id |-> written + i, format |-> format]]
  <1>1. TypeOK /\ PacketSizeOfFormat /\ PendingOfFormat  BY DEF SenderInv
  <1>2. n \in Nat \ {0}  BY BoundAssumption
  <1>3. format \in Formats /\ samplesPerPacket \in Nat \ {0}
    BY <1>1, FormatSet, LimitAssumption
  <1>4. Len(pending) \in Nat /\ written \in Nat /\ opened \in Nat
    BY SenderTypes
  <1>5. Settled \in Nat /\ Settled + Len(pending) = written /\ opened <= Settled
    BY <1>4 DEF BookInv, PendingIsNewest, Settled
  <1>6. pending \in Seq(Frame)  BY <1>1 DEF TypeOK
  <1>7. new \in Seq(Frame) /\ Len(new) = n
    <2>1. \A i \in 1 .. n : [id |-> written + i, format |-> format] \in Frame
      BY <1>2, <1>3, <1>4 DEF Frame
    <2>2. new \in [1 .. n -> Frame]  BY <2>1
    <2> QED  BY <1>2, <2>2
  <1>8. \A i \in 1 .. n : new[i].id = written + i  OBVIOUS
  <1>9. Gathered(n) = pending \o new  BY DEF Gathered
  <1> HIDE DEF new
  <1>10. /\ Gathered(n) \in Seq(Frame) /\ Len(Gathered(n)) = Len(pending) + n
         /\ \A j \in 1 .. Len(pending) + n :
              Gathered(n)[j] = IF j <= Len(pending) THEN pending[j] ELSE new[j - Len(pending)]
    <2>1. /\ pending \o new \in Seq(Frame) /\ Len(pending \o new) = Len(pending) + Len(new)
          /\ \A j \in 1 .. Len(pending) + Len(new) :
               (pending \o new)[j] = IF j <= Len(pending) THEN pending[j] ELSE new[j - Len(pending)]
      BY <1>6, <1>7, ConcatProperties
    <2> QED  BY <1>7, <1>9, <2>1
  <1>11. IsRun(Gathered(n), Settled)
    <2> SUFFICES ASSUME NEW j \in 1 .. Len(pending) + n PROVE Gathered(n)[j].id = Settled + j
      BY <1>10 DEF IsRun
    <2>1. CASE j <= Len(pending)
      <3>1. j \in 1 .. Len(pending)  BY <1>2, <1>4, <2>1
      <3>2. pending[j].id = Settled + j  BY <3>1 DEF BookInv, PendingIsNewest
      <3> QED  BY <1>10, <2>1, <3>2
    <2>2. CASE ~ (j <= Len(pending))
      <3>1. j - Len(pending) \in 1 .. n /\ written + (j - Len(pending)) = Settled + j
        BY <1>2, <1>4, <1>5, <2>2
      <3>2. new[j - Len(pending)].id = Settled + j  BY <1>8, <3>1
      <3> QED  BY <1>10, <2>2, <3>2
    <2> QED  BY <2>1, <2>2
  <1> QED  BY <1>2, <1>3, <1>5, <1>10, <1>11

\* writeFrames(): the packets it cuts go into the books, the rest stays pending.
LEMMA WriteKeepsBook ==
  ASSUME SenderInv, BookInv, NEW n \in WriteSizes, WriteFrames(n)
  PROVE  BookInv'
  <1> DEFINE g == Gathered(n)
             b == samplesPerPacket
             k == FullPackets(n)
             S == Settled
  <1>1. PICK sent \in SUBSET (1 .. k) : Emit(n, sent)  BY DEF WriteFrames
  <1>2. /\ b > 0 /\ pending' = Remainder(n) /\ written' = written + n
        /\ UNCHANGED <<dropped, opened>>
    BY DEF WriteFrames
  <1>3. /\ g \in Seq(Frame) /\ Len(g) = Len(pending) + n /\ n \in Nat \ {0} /\ b \in Nat \ {0}
        /\ S \in Nat /\ S + Len(pending) = written /\ opened <= S /\ IsRun(g, S)
    BY <1>2, GatheredIsRun
  <1>4. k = Len(g) \div b  BY DEF FullPackets
  <1>5. Len(pending) \in Nat /\ Len(g) \in Nat /\ opened \in Nat  BY <1>3, SenderTypes, LenProperties
  <1>6. k \in Nat /\ b * k <= Len(g)  BY <1>3, <1>4, <1>5, DivBounds
  <1>7. PICK F : F = [i \in 1 .. k |-> PacketFrames(n, i)]  OBVIOUS
  <1>8. \A i \in 1 .. k : F[i] = PacketFrames(n, i)  BY <1>7
  <1>9. wire' = wire \cup {Datagram(F[i], i) : i \in sent}
    <2>1. wire' = wire \cup {Datagram(PacketFrames(n, i), i) : i \in sent}
      BY <1>1 DEF Emit
    <2>2. \A i \in sent : F[i] = PacketFrames(n, i)  BY <1>1, <1>8
    <2> HIDE DEF k
    <2>3. {Datagram(F[i], i) : i \in sent} = {Datagram(PacketFrames(n, i), i) : i \in sent}
      BY <2>2
    <2> QED  BY <2>1, <2>3
  <1>10. lost' = lost \cup UNION {Ids(F[i]) : i \in (1 .. k) \ sent}
    <2>1. lost' = lost \cup UNION {Ids(PacketFrames(n, i)) : i \in (1 .. k) \ sent}
      BY <1>1 DEF Emit
    <2> HIDE DEF k
    <2>2. {Ids(F[i]) : i \in (1 .. k) \ sent} = {Ids(PacketFrames(n, i)) : i \in (1 .. k) \ sent}
      BY <1>8
    <2> QED  BY <2>1, <2>2
  <1>11. frameCounter' = (frameCounter + k) % CounterMod /\ emissions' = emissions + k
    BY <1>1 DEF Emit, CounterAfter
  <1>12. \A i \in 1 .. k : PacketFrames(n, i) = SubSeq(g, (i - 1) * b + 1, i * b)
    BY DEF PacketFrames
  <1>13. Remainder(n) = SubSeq(g, (Len(g) \div b) * b + 1, Len(g))
    BY DEF Remainder, FullPackets
  <1> HIDE DEF g, b, k, S
  <1>14. CutInRows(F, k, b)
    <2> SUFFICES ASSUME NEW i \in 1 .. k
                 PROVE  F[i] \in Seq(Frame) /\ Len(F[i]) = b /\ IsRun(F[i], S + (i - 1) * b)
      BY DEF CutInRows, S
    <2>1. F[i] = SubSeq(g, (i - 1) * b + 1, i * b)  BY <1>8, <1>12
    <2>2. i \in 1 .. Len(g) \div b  BY <1>4
    <2>3. F[i] \in Seq(Frame) /\ Len(F[i]) = b /\ CutAt(F[i], g, (i - 1) * b)
      <3>1. g \in Seq(Frame) /\ b \in Nat \ {0}  BY <1>3
      <3>2. /\ SubSeq(g, (i - 1) * b + 1, i * b) \in Seq(Frame)
            /\ Len(SubSeq(g, (i - 1) * b + 1, i * b)) = b
            /\ CutAt(SubSeq(g, (i - 1) * b + 1, i * b), g, (i - 1) * b)
        BY <2>2, <3>1, PacketCut
      <3> QED  BY <2>1, <3>2, Zenon
    <2>4. (i - 1) * b \in Nat /\ i * b = (i - 1) * b + b /\ i * b <= k * b
      BY <1>3, <1>6, RowsFit
    <2>5. (i - 1) * b + Len(F[i]) <= Len(g)
      <3>1. k * b = b * k /\ b * k \in Nat  BY <1>3, <1>6
      <3> QED  BY <1>5, <1>6, <2>3, <2>4, <3>1
    <2>6. IsRun(F[i], S + (i - 1) * b)
      BY <1>3, <2>3, <2>4, <2>5, RunOfCut
    <2> QED  BY <2>3, <2>6
  <1>15. /\ pending' \in Seq(Frame) /\ Len(pending') \in Nat
         /\ Len(pending') + k * b = Len(g) /\ CutAt(pending', g, k * b)
    BY <1>2, <1>3, <1>4, <1>13, RestCut
  <1>16. k * b \in Nat  BY <1>3, <1>6, SMTT(30)
  <1>17. Settled' = S + k * b
    <2> DEFINE x == k * b
    <2>1. x \in Nat /\ Len(pending') + x = Len(g)  BY <1>15, <1>16
    <2> HIDE DEF x
    <2>2. (written + n) - Len(pending') = S + x
      <3>1. PICK y : y = Len(pending')  OBVIOUS
      <3>2. PICK m : m = Len(g)  OBVIOUS
      <3>3. y \in Nat /\ y + x = m  BY <1>15, <2>1, <3>1, <3>2, Zenon
      <3>4. QED  BY <1>3, <1>5, <2>1, <3>1, <3>2, <3>3
    <2> QED  BY <1>2, <2>2 DEF Settled, x
  <1>18. PendingIsNewest'
    <2>1. IsRun(pending', S + k * b)
      <3>1. k * b + Len(pending') <= Len(g)
        BY <1>5, <1>15, <1>16
      <3> QED  BY <1>3, <1>15, <1>16, <3>1, RunOfCut
    <2>2. opened' <= S + k * b
      BY <1>2, <1>3, <1>5, <1>16
    <2> QED  BY <1>17, <2>1, <2>2 DEF PendingIsNewest, IsRun
  <1>19. (\E p : Accounted(p))' /\ PacketsAreRuns' /\ CounterTellsPlace'
    BY <1>2, <1>3, <1>6, <1>9, <1>10, <1>11, <1>14, <1>17, <1>1, EmitKeepsBook DEF S
  <1> QED  BY <1>18, <1>19 DEF BookInv

\* flush(): one packet of everything pending.
LEMMA FlushKeepsBook ==
  ASSUME SenderInv, BookInv, NEW ok \in BOOLEAN, Flush(ok)
  PROVE  BookInv'
  <1> DEFINE b == Len(pending)
             sent == IF ok THEN {1} ELSE {}
             F == <<pending>>
  <1>1. Len(pending) \in Nat /\ written \in Nat /\ opened \in Nat  BY SenderTypes
  <1>2. b \in Nat \ {0}  BY <1>1 DEF Flush, FramesPending
  <1>3. Settled \in Nat /\ Settled + b = written /\ opened <= Settled
    BY <1>1 DEF BookInv, PendingIsNewest, Settled
  <1>4. /\ wire' = wire \cup {Datagram(pending, i) : i \in sent}
        /\ lost' = IF ok THEN lost ELSE lost \cup Ids(pending)
        /\ frameCounter' = (frameCounter + 1) % CounterMod
        /\ emissions' = emissions + 1 /\ pending' = <<>>
        /\ UNCHANGED <<written, dropped, opened>>
    BY DEF Flush, CounterAfter
  <1>5. sent \in SUBSET (1 .. 1) /\ F[1] = pending  OBVIOUS
  <1>6. wire' = wire \cup {Datagram(F[i], i) : i \in sent}
    BY <1>4
  <1>7. lost' = lost \cup UNION {Ids(F[i]) : i \in (1 .. 1) \ sent}
    <2>1. CASE ok
      <3>1. (1 .. 1) \ sent = {}  BY <2>1
      <3> QED  BY <1>4, <2>1, <3>1
    <2>2. CASE ~ ok
      <3>1. (1 .. 1) \ sent = {1}  BY <2>2
      <3>2. UNION {Ids(F[i]) : i \in {1}} = Ids(F[1])  OBVIOUS
      <3> QED  BY <1>4, <1>5, <2>2, <3>1, <3>2
    <2> QED  BY <2>1, <2>2
  <1>8. CutInRows(F, 1, b)
    <2>1. pending \in Seq(Frame)  BY DEF SenderInv, TypeOK
    <2>2. IsRun(pending, Settled)  BY DEF BookInv, PendingIsNewest, IsRun
    <2>3. \A i \in 1 .. 1 : i = 1  OBVIOUS
    <2>4. Settled + (1 - 1) * b = Settled  BY <1>2, <1>3
    <2> QED  BY <1>5, <2>1, <2>2, <2>3, <2>4 DEF CutInRows
  <1>9. Settled' = Settled + 1 * b
    <2>1. Settled' = written - 0  BY <1>4 DEF Settled
    <2>2. written - 0 = Settled + 1 * b  BY <1>1, <1>2, <1>3
    <2> QED  BY <2>1, <2>2
  <1>10. PendingIsNewest'
    <2>1. opened' <= Settled'  BY <1>1, <1>2, <1>3, <1>4, <1>9
    <2> QED  BY <1>4, <2>1 DEF PendingIsNewest
  <1> HIDE DEF b, sent, F
  <1>11. 1 \in Nat  OBVIOUS
  <1>12. (\E p : Accounted(p))' /\ PacketsAreRuns' /\ CounterTellsPlace'
    BY <1>2, <1>4, <1>5, <1>6, <1>7, <1>8, <1>9, <1>11, EmitKeepsBook
  <1> QED  BY <1>10, <1>12 DEF BookInv

-----------------------------------------------------------------------------
\* The calls that send nothing: either they leave the scratch buffer alone, or
\* they discard it; only begin() opens a session, and it discards.
LEMMA QuietCallKeepsBook ==
  ASSUME SenderInv, BookInv, UNCHANGED <<wire, written, lost, emissions>>,
         \/ UNCHANGED <<pending, dropped, opened, frameCounter>>
         \/ /\ pending' = <<>> /\ dropped' = dropped \cup Ids(pending)
            /\ \/ UNCHANGED <<opened, frameCounter>>
               \/ opened' = written /\ frameCounter' = 0
  PROVE  BookInv'
  <1>1. Len(pending) \in Nat /\ written \in Nat /\ opened \in Nat /\ emissions \in Nat
    BY SenderTypes
  <1>2. Settled \in Nat /\ Settled + Len(pending) = written /\ opened <= Settled
    BY <1>1 DEF BookInv, PendingIsNewest, Settled
  <1>3. PICK p : Accounted(p)  BY DEF BookInv
  <1>4. PacketsAreRuns' /\ (WireHolds(p) /\ LostAre(p))'
    BY <1>3 DEF BookInv, PacketsAreRuns, Accounted, WireHolds, LostAre
  <1>5. CASE UNCHANGED <<pending, dropped, opened, frameCounter>>
    <2>1. Settled' = Settled  BY <1>5 DEF Settled
    <2>2. PendingIsNewest'  BY <1>5, <2>1 DEF BookInv, PendingIsNewest
    <2>3. Accounted(p)'
      BY <1>3, <1>4, <1>5, <2>1 DEF Accounted, PacketsAscend, DroppedAre
    <2>4. CounterTellsPlace'  BY <1>5 DEF BookInv, CounterTellsPlace
    <2> QED  BY <1>4, <2>2, <2>3, <2>4 DEF BookInv
  <1>6. CASE /\ pending' = <<>> /\ dropped' = dropped \cup Ids(pending)
             /\ \/ UNCHANGED <<opened, frameCounter>>
                \/ opened' = written /\ frameCounter' = 0
    <2>1. Settled' = written
      <3>1. Settled' = written - 0  BY <1>6 DEF Settled
      <3> QED  BY <1>1, <3>1
    <2>2. PendingIsNewest'
      <3>1. opened' <= Settled'  BY <1>1, <1>2, <1>6, <2>1
      <3> QED  BY <1>6, <3>1 DEF PendingIsNewest
    <2>3. Ids(pending) = Settled + 1 .. written
      <3>1. IsRun(pending, Settled)  BY DEF BookInv, PendingIsNewest, IsRun
      <3>2. pending \in Seq(Frame)  BY DEF SenderInv, TypeOK
      <3> QED  BY <1>2, <3>1, <3>2, IdsOfRun
    <2>4. 1 .. Settled \subseteq 1 .. written  BY <1>1, <1>2
    <2>5. PacketsAscend(p)'
      <3>1. PacketsAscend(p)  BY <1>3 DEF Accounted
      <3>2. p \in [1 .. emissions -> SUBSET (1 .. written)]
        BY <2>4, <3>1 DEF PacketsAscend
      <3> QED  BY <2>1, <3>1, <3>2 DEF PacketsAscend
    <2>6. DroppedAre(p)'
      <3>1. \A m \in 1 .. emissions : p[m] \subseteq 1 .. Settled
        BY <1>3 DEF Accounted, PacketsAscend
      <3>2. \A x : x \in dropped <=> x \in 1 .. Settled /\ \A m \in 1 .. emissions : x \notin p[m]
        BY <1>3 DEF Accounted, DroppedAre
      <3>3. \A x : x \in dropped' <=> x \in 1 .. written /\ \A m \in 1 .. emissions : x \notin p[m]
        <4>1. \A x : x \in 1 .. written <=> x \in 1 .. Settled \/ x \in Ids(pending)
          BY <1>1, <1>2, <2>3
        <4>2. \A x : x \in Ids(pending) => x \notin 1 .. Settled
          BY <1>1, <1>2, <2>3
        <4> QED  BY <1>6, <3>1, <3>2, <4>1, <4>2, Zenon
      <3> QED  BY <2>1, <3>3 DEF DroppedAre
    <2>7. CounterTellsPlace'
      <3>1. CASE UNCHANGED <<opened, frameCounter>>
        BY <3>1 DEF BookInv, CounterTellsPlace
      <3>2. CASE opened' = written /\ frameCounter' = 0
        <4>1. ASSUME NEW d \in wire PROVE d.session # written
          <5>1. Len(d.frames) \in Nat \ {0} /\ d.session \in Nat  BY SenderTypes
          <5>2. d.frames[1].id \in Ids(d.frames)  BY <5>1 DEF Ids
          <5>3. d.frames[1].id \in 1 .. Settled
            BY <1>3, <5>2 DEF Accounted, WireHolds, PacketsAscend
          <5>4. d.session < d.frames[1].id  BY <5>2 DEF BookInv, CounterTellsPlace
          <5> QED  BY <1>1, <1>2, <5>1, <5>3, <5>4
        <4>2. CounterTellsPlace  BY DEF BookInv
        <4> QED  BY <3>2, <4>1, <4>2 DEF CounterTellsPlace
      <3> QED  BY <1>6, <3>1, <3>2
    <2>8. Accounted(p)'  BY <1>4, <2>5, <2>6 DEF Accounted
    <2> QED  BY <1>4, <2>2, <2>7, <2>8 DEF BookInv
  <1> QED  BY <1>5, <1>6

\* Nothing is written, and no packet built, at the start.
LEMMA InitBook == Init => BookInv
  <1> SUFFICES ASSUME Init PROVE BookInv
    OBVIOUS
  <1>1. /\ pending = <<>> /\ written = 0 /\ opened = 0 /\ emissions = 0
        /\ wire = {} /\ lost = {} /\ dropped = {}
    BY DEF Init
  <1>2. Settled = 0
    <2>1. Len(<<>>) = 0 /\ 0 - 0 = 0  OBVIOUS
    <2> QED  BY <1>1, <2>1 DEF Settled
  <1>3. PendingIsNewest  BY <1>1, <1>2 DEF PendingIsNewest
  <1>4. PICK p : p = [m \in 1 .. 0 |-> {}]  OBVIOUS
  <1>5. Accounted(p)
    <2>1. 1 .. 0 = {}  OBVIOUS
    <2>2. PacketsAscend(p)  BY <1>1, <1>2, <1>4 DEF PacketsAscend
    <2>3. WireHolds(p) /\ LostAre(p) /\ DroppedAre(p)
      BY <1>1, <1>2, <2>1 DEF WireHolds, LostAre, DroppedAre
    <2> QED  BY <2>2, <2>3 DEF Accounted
  <1>6. PacketsAreRuns /\ CounterTellsPlace
    BY <1>1 DEF PacketsAreRuns, CounterTellsPlace
  <1> QED  BY <1>3, <1>5, <1>6 DEF BookInv

\* Every call keeps the books.
LEMMA StepKeepsBook ==
  ASSUME SenderInv, BookInv, [Next]_vars
  PROVE  BookInv'
  <1>1. ASSUME NEW port \in {0, 1}, NEW name \in Names, Begin(port, name)
        PROVE  BookInv'
    BY <1>1, QuietCallKeepsBook DEF Begin, DropPending
  <1>2. CASE End
    BY <1>2, QuietCallKeepsBook DEF End, DropPending
  <1>3. ASSUME NEW f \in Formats, SetFormatRejected(f)
        PROVE  BookInv'
    BY <1>3, QuietCallKeepsBook DEF SetFormatRejected
  <1>4. ASSUME NEW f \in Formats, SetFormat(f)
        PROVE  BookInv'
    BY <1>4, QuietCallKeepsBook DEF SetFormat, DropPending
  <1>5. ASSUME NEW name \in Names, SetStreamName(name)
        PROVE  BookInv'
    BY <1>5, QuietCallKeepsBook DEF SetStreamName, history
  <1>6. CASE WriteRefused
    BY <1>6, QuietCallKeepsBook DEF WriteRefused
  <1>7. ASSUME NEW n \in WriteSizes, WriteFrames(n)
        PROVE  BookInv'
    BY <1>7, WriteKeepsBook
  <1>8. CASE FlushRefused
    BY <1>8, QuietCallKeepsBook DEF FlushRefused
  <1>9. CASE FlushNothing
    BY <1>9, QuietCallKeepsBook DEF FlushNothing, state
  <1>10. ASSUME NEW ok \in BOOLEAN, Flush(ok)
         PROVE  BookInv'
    BY <1>10, FlushKeepsBook
  <1>11. CASE UNCHANGED vars
    BY <1>11, QuietCallKeepsBook DEF vars, state, history
  <1> QED
    BY <1>1, <1>2, <1>3, <1>4, <1>5, <1>6, <1>7, <1>8, <1>9, <1>10, <1>11 DEF Next

LEMMA BookHolds == Spec => []BookInv
  <1>1. Init => BookInv  BY InitBook
  <1>2. SenderInv /\ BookInv /\ [Next]_vars => BookInv'  BY StepKeepsBook
  <1> QED  BY <1>1, <1>2, SenderInvHolds, PTL DEF Spec

-----------------------------------------------------------------------------
\* Every variable of the sender keeps its type, the frame counter its width.
THEOREM SenderIsTypeCorrect == Spec => []TypeOK
  BY SenderInvHolds, PTL DEF SenderInv

\* writeFrames() never runs past the scratch buffer and never meets pending
\* frames of another layout, whatever calls were made before it.
THEOREM ScratchIsSafe == Spec => []ScratchHoldsPartOfAPacket
  <1>1. SenderInv => ScratchHoldsPartOfAPacket
    <2> SUFFICES ASSUME SenderInv PROVE ScratchHoldsPartOfAPacket
      OBVIOUS
    <2>1. TypeOK /\ PacketSizeOfFormat /\ PendingOfFormat  BY DEF SenderInv
    <2>2. samplesPerPacket * BytesPerFrame(format) <= MaxPayload
      <3>1. CASE samplesPerPacket > 0
        <4> DEFINE c == 2 * format.channels
        <4>1. c \in Nat /\ samplesPerPacket \in Nat /\ c * samplesPerPacket <= MaxPayload
              /\ BytesPerFrame(format) = c
          <5>1. /\ format.channels \in 1 .. 255 /\ samplesPerPacket \in 1 .. MaxSamples
                /\ 2 * format.channels * samplesPerPacket <= MaxPayload
                /\ BytesPerFrame(format) = 2 * format.channels
            BY <2>1, <3>1, FormatSet
          <5>2. \A x \in 1 .. 255 : 2 * x \in Nat  OBVIOUS
          <5> QED  BY <5>1, <5>2, LimitAssumption
        <4> HIDE DEF c
        <4>2. samplesPerPacket * c = c * samplesPerPacket  BY <4>1
        <4> QED  BY <4>1, <4>2
      <3>2. CASE ~ (samplesPerPacket > 0)
        <4>1. samplesPerPacket = 0  BY <2>1, <3>2, LimitAssumption DEF TypeOK
        <4>2. format = NoFormat
          <5>1. CASE format # NoFormat
            <6>1. ComputeSamplesPerPacket(format.channels) \in 1 .. MaxSamples
              BY <2>1, <5>1, PacketSizeFits DEF TypeOK
            <6>2. samplesPerPacket = ComputeSamplesPerPacket(format.channels)
              BY <2>1, <5>1 DEF PacketSizeOfFormat
            <6> QED  BY <4>1, <6>1, <6>2
          <5> QED  BY <5>1
        <4>3. BytesPerFrame(format) = 0  BY <4>2 DEF NoFormat, BytesPerFrame
        <4> QED  BY <4>1, <4>3, LimitAssumption
      <3> QED  BY <3>1, <3>2
    <2>3. \A i \in 1 .. Len(pending) : pending[i].format = format
      <3>1. \A i \in 1 .. Len(pending) : pending[i] \in FramesOf(format, written)
        BY <2>1, ElementOfSeq DEF PendingOfFormat
      <3> QED  BY <3>1 DEF FramesOf
    <2> QED  BY <2>1, <2>2, <2>3 DEF ScratchHoldsPartOfAPacket, PendingOfFormat
  <1> QED  BY <1>1, SenderInvHolds, PTL

\* Every datagram can be decoded by its own header.
THEOREM DatagramsDescribeThemselves == Spec => []HeaderDescribesPayload
  BY SenderInvHolds, PTL DEF SenderInv

\* lastError() says SendFailed exactly when a packet failed since the last
\* begin(), end() or refused call.
THEOREM FailuresStayReported == Spec => []LossStaysReported
  BY SenderInvHolds, PTL DEF SenderInv

\* Every frame writeFrames accepted is in exactly one place, however the stack,
\* begin(), end() and setFormat() come between the calls.
THEOREM FramesAreAccountedFor == Spec => []EveryFrameOnce
  <1>1. SenderInv /\ BookInv => EveryFrameOnce
    <2> SUFFICES ASSUME SenderInv, BookInv PROVE EveryFrameOnce
      OBVIOUS
    <2>1. PICK p : Accounted(p)  BY DEF BookInv
    <2>2. Len(pending) \in Nat /\ written \in Nat /\ opened \in Nat /\ emissions \in Nat
      BY SenderTypes
    <2>3. Settled \in Nat /\ Settled + Len(pending) = written
      BY <2>2 DEF BookInv, PendingIsNewest, Settled
    <2>4. Ids(pending) = Settled + 1 .. written
      <3>1. IsRun(pending, Settled)  BY DEF BookInv, PendingIsNewest, IsRun
      <3>2. pending \in Seq(Frame)  BY DEF SenderInv, TypeOK
      <3> QED  BY <2>3, <3>1, <3>2, IdsOfRun
    <2>5. /\ \A x : x \in 1 .. written <=> x \in 1 .. Settled \/ x \in Ids(pending)
          /\ \A x : x \in Ids(pending) => x \notin 1 .. Settled
      BY <2>2, <2>3, <2>4
    <2>6. /\ \A m \in 1 .. emissions : p[m] \subseteq 1 .. Settled
          /\ \A d \in wire : d.number \in 1 .. emissions /\ Ids(d.frames) = p[d.number]
          /\ \A d, e \in wire : d.number = e.number => d = e
          /\ \A x : x \in lost <=> \E m \in 1 .. emissions : x \in p[m] /\ \A d \in wire : d.number # m
          /\ \A x : x \in dropped <=> x \in 1 .. Settled /\ \A m \in 1 .. emissions : x \notin p[m]
      BY <2>1 DEF Accounted, PacketsAscend, WireHolds, LostAre, DroppedAre
    \* A frame is in one packet only.
    <2>7. \A m, n \in 1 .. emissions : \A x : x \in p[m] /\ x \in p[n] => m = n
      <3> SUFFICES ASSUME NEW m \in 1 .. emissions, NEW n \in 1 .. emissions, NEW x \in p[m], x \in p[n],
                          m # n
                   PROVE  FALSE
        BY Zenon
      <3>1. \A i, j \in 1 .. emissions : i < j => \A y \in p[i], z \in p[j] : y < z
        BY <2>1 DEF Accounted, PacketsAscend
      <3>2. x \in Nat  BY <2>6
      <3>3. m < n \/ n < m  BY <2>2
      <3>4. x < x  BY <3>1, <3>3
      <3> QED  BY <3>2, <3>4
    <2>8. \A x : x \in OnWire <=> \E d \in wire : x \in Ids(d.frames)
      BY DEF OnWire
    <2>9. ASSUME NEW x \in 1 .. Settled PROVE x \in OnWire \/ x \in lost \/ x \in dropped
      BY <2>6, <2>8
    <2>10. ASSUME NEW x, x \in OnWire \/ x \in lost \/ x \in dropped PROVE x \in 1 .. Settled
      BY <2>6, <2>8, <2>10
    <2>11. 1 .. written = OnWire \cup lost \cup dropped \cup Ids(pending)
      BY <2>5, <2>9, <2>10
    <2>12. OnWire \cap (lost \cup dropped \cup Ids(pending)) = {}
      <3>1. ASSUME NEW x \in OnWire PROVE x \notin lost /\ x \notin dropped
        <4>1. PICK d \in wire : x \in Ids(d.frames)  BY <2>8
        <4>2. d.number \in 1 .. emissions /\ x \in p[d.number]  BY <2>6, <4>1
        <4>3. x \notin dropped  BY <2>6, <4>2
        <4>4. x \notin lost
          <5>1. ASSUME NEW m \in 1 .. emissions, x \in p[m], \A e \in wire : e.number # m
                PROVE  FALSE
            BY <2>7, <4>2, <5>1
          <5> QED  BY <2>6, <5>1
        <4> QED  BY <4>3, <4>4
      <3> QED  BY <2>5, <2>10, <3>1
    <2>13. lost \cap (dropped \cup Ids(pending)) = {}
      BY <2>5, <2>6, <2>10
    <2>14. dropped \cap Ids(pending) = {}
      BY <2>5, <2>10
    <2>15. ASSUME NEW d \in wire, NEW e \in wire, d # e PROVE Ids(d.frames) \cap Ids(e.frames) = {}
      BY <2>6, <2>7, <2>15
    <2> QED  BY <2>11, <2>12, <2>13, <2>14, <2>15 DEF EveryFrameOnce
  <1> QED  BY <1>1, SenderInvHolds, BookHolds, PTL

\* Audio leaves in the order in which it was written.
THEOREM FramesLeaveInOrder == Spec => []SentInOrder
  <1>1. SenderInv /\ BookInv => SentInOrder
    <2> SUFFICES ASSUME SenderInv, BookInv PROVE SentInOrder
      OBVIOUS
    <2>1. PICK p : Accounted(p)  BY DEF BookInv
    <2>2. ASSUME NEW d \in wire, NEW e \in wire, d.number < e.number,
                 NEW i \in Ids(d.frames), NEW j \in Ids(e.frames)
          PROVE  i < j
      <3>1. /\ d.number \in 1 .. emissions /\ i \in p[d.number]
            /\ e.number \in 1 .. emissions /\ j \in p[e.number]
        BY <2>1, <2>2 DEF Accounted, WireHolds
      <3> QED  BY <2>1, <2>2, <3>1 DEF Accounted, PacketsAscend
    <2>3. ASSUME NEW d \in wire, NEW i \in 1 .. Len(d.frames) - 1
          PROVE  d.frames[i + 1].id = d.frames[i].id + 1
      <3>1. PICK from \in Nat : IsRun(d.frames, from)  BY DEF BookInv, PacketsAreRuns
      <3>2. d.frames \in Seq(Frame)  BY SenderTypes
      <3> QED  BY <3>1, <3>2, IdsOfRun
    <2> QED  BY <2>2, <2>3 DEF SentInOrder
  <1> QED  BY <1>1, SenderInvHolds, BookHolds, PTL

\* A packet that failed leaves a gap in the counters of the datagrams that
\* arrive, and nothing else does.
THEOREM LossIsVisible == Spec => []GapVisible
  <1>1. SenderInv /\ BookInv => GapVisible
    <2> SUFFICES ASSUME SenderInv, BookInv, NEW d \in wire, NEW e \in wire,
                        d.session = e.session,
                        d.number < e.number, e.number - d.number < CounterMod,
                        ~ \E g \in wire : d.number < g.number /\ g.number < e.number
                 PROVE  (\E i \in lost : LastId(d) < i /\ i < FirstId(e))
                          <=> e.counter # (d.counter + 1) % CounterMod
      BY DEF GapVisible
    <2>1. PICK p : Accounted(p)  BY DEF BookInv
    <2>2. emissions \in Nat /\ CounterMod \in Nat \ {0, 1}  BY SenderTypes
    <2>3. /\ d.number \in 1 .. emissions /\ Ids(d.frames) = p[d.number]
          /\ e.number \in 1 .. emissions /\ Ids(e.frames) = p[e.number]
      BY <2>1 DEF Accounted, WireHolds
    <2>4. LastId(d) \in p[d.number] /\ FirstId(e) \in p[e.number]
      <3>1. Len(d.frames) \in Nat \ {0} /\ Len(e.frames) \in Nat \ {0}  BY SenderTypes
      <3>2. Len(d.frames) \in 1 .. Len(d.frames) /\ 1 \in 1 .. Len(e.frames)  BY <3>1
      <3> QED  BY <2>3, <3>2 DEF Ids, LastId, FirstId
    <2>5. /\ \A m, n \in 1 .. emissions : m < n => \A i \in p[m], j \in p[n] : i < j
          /\ \A m \in 1 .. emissions : p[m] # {} /\ p[m] \subseteq Nat
      BY <2>1 DEF Accounted, PacketsAscend
    <2>6. \A i : i \in lost <=> \E m \in 1 .. emissions : i \in p[m] /\ \A g \in wire : g.number # m
      BY <2>1 DEF Accounted, LostAre
    <2>7. ASSUME e.number = d.number + 1, NEW i \in lost, LastId(d) < i, i < FirstId(e)
          PROVE  FALSE
      <3>1. PICK m \in 1 .. emissions : i \in p[m] /\ \A g \in wire : g.number # m
        BY <2>6
      <3>2. m # d.number /\ m # e.number  BY <3>1
      <3>3. m < d.number \/ e.number < m  BY <2>2, <2>3, <2>7, <3>2
      <3>4. i \in Nat /\ LastId(d) \in Nat /\ FirstId(e) \in Nat  BY <2>3, <2>4, <2>5, <3>1
      <3>5. CASE m < d.number
        <4>1. i < LastId(d)  BY <2>3, <2>4, <2>5, <3>1, <3>5
        <4> QED  BY <2>7, <3>4, <4>1
      <3>6. CASE e.number < m
        <4>1. FirstId(e) < i  BY <2>3, <2>4, <2>5, <3>1, <3>6
        <4> QED  BY <2>7, <3>4, <4>1
      <3> QED  BY <3>3, <3>5, <3>6
    <2>8. ASSUME e.number # d.number + 1
          PROVE  \E i \in lost : LastId(d) < i /\ i < FirstId(e)
      <3> DEFINE m == d.number + 1
      <3>1. m \in 1 .. emissions /\ d.number < m /\ m < e.number  BY <2>2, <2>3, <2>8
      <3> HIDE DEF m
      <3>2. PICK i : i \in p[m]  BY <2>5, <3>1
      <3>3. \A g \in wire : g.number # m  BY <3>1
      <3>4. i \in lost  BY <2>6, <3>1, <3>2, <3>3
      <3>5. LastId(d) < i /\ i < FirstId(e)  BY <2>3, <2>4, <2>5, <3>1, <3>2
      <3> QED  BY <3>4, <3>5
    <2>9. e.counter # (d.counter + 1) % CounterMod <=> e.number # d.number + 1
      <3> DEFINE M == CounterMod
                 c == d.counter
                 x == e.number - d.number
      <3>1. x \in 1 .. M - 1 /\ c \in 0 .. M - 1 /\ M \in Nat \ {0, 1}
        <4>1. d \in Datagrams  BY SenderTypes
        <4>2. c \in 0 .. M - 1  BY <4>1 DEF Datagrams
        <4> QED  BY <2>2, <2>3, <4>2
      <3>2. e.counter = (c + x) % M  BY DEF BookInv, CounterTellsPlace
      <3>3. x = 1 <=> e.number = d.number + 1  BY <2>2, <2>3
      <3> HIDE DEF M, c, x
      <3>4. (c + x) % M = Wrap(M, c + x) /\ (c + 1) % M = Wrap(M, c + 1)
        <4>1. /\ M \in Nat \ {0} /\ c + x \in Int /\ 0 <= c + x /\ c + x < 2 * M
              /\ c + 1 \in Int /\ 0 <= c + 1 /\ c + 1 < 2 * M
          BY <3>1
        <4> QED  BY <4>1, WrapOnce
      <3>5. Wrap(M, c + x) = Wrap(M, c + 1) <=> x = 1
        BY <3>1 DEF Wrap
      <3> QED  BY <3>2, <3>3, <3>4, <3>5 DEF M, c
    <2> QED  BY <2>7, <2>8, <2>9
  <1> QED  BY <1>1, SenderInvHolds, BookHolds, PTL

-----------------------------------------------------------------------------
\* The sender's frame numbers, in the words of PcmProofs.
LEMMA IdsAreNumbers == \A g : Ids(g) = Numbers(g)
  BY DEF Ids, Numbers

\* What both invariants say of one datagram on the wire.
LEMMA OnTheWire ==
  ASSUME SenderInv, BookInv, NEW d \in wire
  PROVE  /\ d.frames \in Seq(Frame) /\ Len(d.frames) \in Nat \ {0}
         /\ d.rate \in Nat /\ d.channels \in Nat /\ d.samples = Len(d.frames)
         /\ 2 * d.channels * d.samples <= MaxPayload
         /\ \A i \in 1 .. Len(d.frames) : /\ d.frames[i].format.rate = d.rate
                                          /\ d.frames[i].format.channels = d.channels
         /\ Rising(d.frames)
         /\ Ids(d.frames) \subseteq 1 .. written
  <1>1. /\ d \in Datagrams /\ d.frames \in Seq(Frame) /\ Len(d.frames) \in Nat \ {0}
        /\ Len(pending) \in Nat /\ written \in Nat /\ opened \in Nat
    BY SenderTypes
  <1>2. d.rate \in Nat /\ d.channels \in Nat
    <2>1. d.rate \in Nat /\ d.channels \in 0 .. 255  BY <1>1 DEF Datagrams
    <2>2. \A x \in 0 .. 255 : x \in Nat  OBVIOUS
    <2> QED  BY <2>1, <2>2
  <1>3. /\ d.samples = Len(d.frames) /\ 2 * d.channels * d.samples <= MaxPayload
        /\ \A i \in 1 .. Len(d.frames) : /\ d.frames[i].format.rate = d.rate
                                         /\ d.frames[i].format.channels = d.channels
    BY DEF SenderInv, HeaderDescribesPayload
  <1>4. Rising(d.frames)
    <2>1. PICK from \in Nat : IsRun(d.frames, from)  BY DEF BookInv, PacketsAreRuns
    <2> SUFFICES ASSUME NEW i \in 1 .. Len(d.frames), NEW j \in 1 .. Len(d.frames), i < j
                 PROVE  d.frames[i].id < d.frames[j].id
      BY DEF Rising
    <2>2. d.frames[i].id = from + i /\ d.frames[j].id = from + j  BY <2>1 DEF IsRun
    <2> QED  BY <1>1, <2>2
  <1>5. Ids(d.frames) \subseteq 1 .. written
    <2>1. PICK p : Accounted(p)  BY DEF BookInv
    <2>2. Ids(d.frames) \subseteq 1 .. Settled
      BY <2>1 DEF Accounted, WireHolds, PacketsAscend
    <2>3. Settled \in Nat /\ Settled <= written
      BY <1>1 DEF BookInv, PendingIsNewest, Settled
    <2> QED  BY <1>1, <2>2, <2>3
  <1> QED  BY <1>1, <1>2, <1>3, <1>4, <1>5

\* The sender never reorders: a later datagram holds later frames.
LEMMA LaterFrames ==
  ASSUME SenderInv, BookInv, NEW d \in wire, NEW e \in wire, d.number < e.number,
         NEW i \in Ids(d.frames), NEW j \in Ids(e.frames)
  PROVE  i < j
  <1>1. PICK p : Accounted(p)  BY DEF BookInv
  <1>2. /\ d.number \in 1 .. emissions /\ i \in p[d.number]
        /\ e.number \in 1 .. emissions /\ j \in p[e.number]
    BY <1>1 DEF Accounted, WireHolds
  <1> QED  BY <1>1, <1>2 DEF Accounted, PacketsAscend

-----------------------------------------------------------------------------
\* The receiver's ring functions are those of PcmRing.
LEMMA SameRing ==
  /\ \A c, r, s : R!RingPush(c, r, s) = RingPush(c, r, s)
  /\ \A c, r, n : /\ R!RingPop(c, r, n) = RingPop(c, r, n)
                  /\ R!RingPopBytes(c, r, n) = RingPopBytes(c, r, n)
  /\ \A c, r : R!Content(c, r) = Content(c, r)
  /\ \A r : R!Emptied(r) = Emptied(r)
  /\ \A c, z : R!EmptyRing(c, z) = EmptyRing(c, z)
  /\ \A b, k : R!Frames(b, k) = Frames(b, k)
  <1>1. \A c, r, s : R!RingPush(c, r, s) = RingPush(c, r, s)
    <2>1. \A c, r, s : R!Store(c, r, s) = Store(c, r, s)
      BY DEF R!Store, Store, R!Offset, Offset, R!Slots, Slots
    <2>2. \A c, r, n : R!MakeRoom(c, r, n) = MakeRoom(c, r, n)
      BY DEF R!MakeRoom, MakeRoom, R!Advanced, Advanced
    <2>3. \A s, n : R!Newest(s, n) = Newest(s, n)  BY DEF R!Newest, Newest
    <2>4. \A r : R!Emptied(r) = Emptied(r)  BY DEF R!Emptied, Emptied
    <2> QED  BY <2>1, <2>2, <2>3, <2>4 DEF R!RingPush, RingPush
  <1>2. \A c, r, n : /\ R!RingPop(c, r, n) = RingPop(c, r, n)
                     /\ R!RingPopBytes(c, r, n) = RingPopBytes(c, r, n)
    BY DEF R!RingPop, RingPop, R!RingPopBytes, RingPopBytes, R!Taken, Taken,
           R!Advanced, Advanced
  <1>3. \A c, r : R!Content(c, r) = Content(c, r)  BY DEF R!Content, Content
  <1>4. \A r : R!Emptied(r) = Emptied(r)  BY DEF R!Emptied, Emptied
  <1>5. \A c, z : R!EmptyRing(c, z) = EmptyRing(c, z)
    BY DEF R!EmptyRing, EmptyRing, R!Slots, Slots
  <1>6. \A b, k : R!Frames(b, k) = Frames(b, k)  BY DEF R!Frames, Frames
  <1> QED  BY <1>1, <1>2, <1>3, <1>4, <1>5, <1>6

-----------------------------------------------------------------------------
\* The numbers of the frames that the datagrams numbered in a have brought.
Delivered(w, a) == UNION {Ids(d.frames) : d \in {e \in w : e.number \in a}}

\* The content c of the ring is the bytes of the frames g, all of layout l.
OfLayout(l, g) ==
  \A i \in 1 .. Len(g) : g[i].format.rate = l.rate /\ g[i].format.channels = l.channels

Carries(c, l, g) == c = BytesIn(g, 2 * l.channels) /\ OfLayout(l, g)

\* The frames g are what an open receiver holds for the listener.
Holds(g) ==
  /\ g \in Seq(Frame)
  /\ rFormat = R!Unlocked => g = <<>>
  /\ Carries(Content(QueueBytes, ring), rFormat, g)
  /\ Waits(g, Delivered(wire, arrived), heard, orderly)

RingByte == BytesOver(Frame) \cup {Silence}

\* The inductive invariant of receiver, network and listener.
StreamInv ==
  /\ ring \in Rings(QueueBytes, RingByte) /\ WellFormed(QueueBytes, ring)
  /\ rFormat = R!Unlocked \/ rFormat.channels \in 1 .. 2
  /\ heard \in Seq(Nat) /\ Ascends(heard)
  /\ Elements(heard) \subseteq Delivered(wire, arrived)
  /\ rReady => \E g : Holds(g)

LinkInv == SenderInv /\ BookInv /\ StreamInv

LEMMA DeliveredGrows ==
  ASSUME NEW w, NEW v, NEW a, NEW b, w \subseteq v, a \subseteq b
  PROVE  Delivered(w, a) \subseteq Delivered(v, b)
  BY DEF Delivered

LEMMA NoBytes ==
  ASSUME NEW k \in Nat
  PROVE  BytesIn(<<>>, k) = <<>> /\ Numbers(<<>>) = {} /\ Rising(<<>>) /\ <<>> \in Seq(Frame)
  <1>1. 1 .. k * Len(<<>>) = {}  OBVIOUS
  <1>2. BytesIn(<<>>, k) = [x \in {} |-> ByteAt(<<>>, k, x)]  BY <1>1 DEF BytesIn
  <1>3. BytesIn(<<>>, k) = <<>>  BY <1>2
  <1> QED  BY <1>3 DEF Numbers, Rising

\* A step that leaves the receiver's queue and lock alone.
LEMMA QuietStepKeepsStream ==
  ASSUME StreamInv, wire \subseteq wire', arrived \subseteq arrived', orderly' => orderly,
         UNCHANGED <<rReady, rFormat, ring, heard>>
  PROVE  StreamInv'
  <1>1. Delivered(wire, arrived) \subseteq Delivered(wire', arrived')
    BY DeliveredGrows
  <1>2. ASSUME NEW g, Holds(g) PROVE Holds(g)'
    <2>1. Waits(g, Delivered(wire', arrived'), heard, orderly')
      BY <1>1, <1>2, WaitsLonger DEF Holds
    <2> QED  BY <1>2, <2>1 DEF Holds
  <1> QED  BY <1>1, <1>2 DEF StreamInv

\* What opening and closing the receiver leave: nothing held, no lock.
LEMMA EmptiedKeepsStream ==
  ASSUME StreamInv, ring' = R!Emptied(ring), UNCHANGED <<wire, arrived, orderly, heard>>,
         rReady' => rFormat' = R!Unlocked,
         rFormat' = R!Unlocked \/ rFormat' = rFormat
  PROVE  StreamInv'
  <1>1. QueueBytes \in Nat \ {0}  BY QueueAssumption
  <1>2. /\ ring' \in Rings(QueueBytes, RingByte) /\ WellFormed(QueueBytes, ring')
        /\ Content(QueueBytes, ring') = <<>>
    BY <1>1, SameRing, EmptiedFacts DEF StreamInv
  <1>3. ASSUME rReady' PROVE Holds(<<>>)'
    <2>1. rFormat' = R!Unlocked /\ 2 * rFormat'.channels \in Nat
      BY <1>3 DEF R!Unlocked
    <2>2. Carries(Content(QueueBytes, ring'), rFormat', <<>>)
      BY <1>2, <2>1, NoBytes DEF Carries, OfLayout
    <2>3. Waits(<<>>, Delivered(wire, arrived), heard, orderly)
      BY NoBytes DEF Waits, Before
    <2> QED  BY <2>2, <2>3, NoBytes DEF Holds
  <1> QED  BY <1>2, <1>3 DEF StreamInv

-----------------------------------------------------------------------------
\* The payload of a datagram is the bytes of its frames, and poll() takes it whole.
LEMMA WholePayloadTaken ==
  ASSUME SenderInv, BookInv, NEW d \in wire, d.channels \in 1 .. 2
  PROVE  LET k == 2 * d.channels
         IN  SubSeq(Arrival(d).payload, 1, R!UsableBytes(Arrival(d))) = BytesIn(d.frames, k)
  <1> DEFINE k == 2 * d.channels
             b == BytesIn(d.frames, k)
  <1>1. /\ d.frames \in Seq(Frame) /\ Len(d.frames) \in Nat \ {0}
        /\ d.samples = Len(d.frames) /\ 2 * d.channels * d.samples <= MaxPayload
    BY OnTheWire
  <1>2. k \in {2, 4}  OBVIOUS
  <1>3. Arrival(d).payload = b /\ Arrival(d).samples = d.samples
        /\ R!BytesPerFrame(R!Layout(Arrival(d))) = k
    BY DEF Arrival, BytesIn, ByteAt, R!BytesPerFrame, R!Layout
  <1>4. /\ b \in Seq(BytesOver(Frame)) /\ Len(b) = k * Len(d.frames)
        /\ k * Len(d.frames) \in Nat
    BY <1>1, <1>2, BytesInFacts
  <1>5. k * Len(d.frames) <= MaxPayload /\ MaxPayload \in Nat
    BY <1>1, LimitAssumption
  <1> HIDE DEF k, b
  <1>6. d.samples * k = Len(b) /\ Len(b) % k = 0 /\ Len(b) <= MaxPayload /\ Len(b) \in Nat
    <2>1. \A n \in Nat : n * k = k * n /\ (k * n) % k = 0
      <3>1. CASE k = 2  BY <3>1
      <3>2. CASE k = 4  BY <3>2
      <3> QED  BY <1>2, <3>1, <3>2
    <2>2. Len(d.frames) \in Nat  BY <1>1
    <2>3. d.samples * k = Len(b) /\ Len(b) % k = 0  BY <1>1, <1>4, <2>1, <2>2
    <2> QED  BY <1>4, <1>5, <2>3
  <1>7. R!UsableBytes(Arrival(d)) = Len(b)
    <2>1. R!Least(R!Least(Len(b), MaxPayload), d.samples * k) = Len(b)
      BY <1>5, <1>6 DEF R!Least
    <2> QED  BY <1>3, <1>6, <2>1 DEF R!UsableBytes
  <1>8. SubSeq(b, 1, Len(b)) = b  BY <1>4, SubSeqFull
  <1> QED  BY <1>3, <1>7, <1>8 DEF k, b

LEMMA LayoutStays ==
  ASSUME NEW l, NEW f, NEW g, NEW h, OfLayout(l, f), OfLayout(l, g),
         Elements(h) \subseteq Elements(f) \cup Elements(g)
  PROVE  OfLayout(l, h)
  <1> SUFFICES ASSUME NEW i \in 1 .. Len(h)
               PROVE  h[i].format.rate = l.rate /\ h[i].format.channels = l.channels
    BY DEF OfLayout
  <1>1. h[i] \in Elements(f) \cup Elements(g)  BY DEF Elements
  <1>2. CASE h[i] \in Elements(f)  BY <1>2 DEF Elements, OfLayout
  <1>3. CASE h[i] \in Elements(g)  BY <1>3 DEF Elements, OfLayout
  <1> QED  BY <1>1, <1>2, <1>3

\* The capacity in frames.
LEMMA WholeFramesFit ==
  ASSUME NEW k \in {2, 4}
  PROVE  QueueBytes \div k \in Nat /\ QueueBytes % k = 0
  <1>1. QueueBytes \in Nat /\ QueueBytes % 4 = 0  BY QueueAssumption
  <1>2. CASE k = 2  BY <1>1, <1>2
  <1>3. CASE k = 4  BY <1>1, <1>3
  <1> QED  BY <1>2, <1>3

\* The datagram that comes in is later than everything before it, as long as the
\* network keeps the order.
LEMMA ArrivalIsLater ==
  ASSUME SenderInv, BookInv, NEW d \in wire, NEW X, X \subseteq Delivered(wire, arrived),
         \A n \in arrived : n < d.number
  PROVE  Before(X, Ids(d.frames))
  <1> SUFFICES ASSUME NEW x \in X, NEW y \in Ids(d.frames) PROVE x < y
    BY DEF Before
  <1>1. PICK e \in wire : e.number \in arrived /\ x \in Ids(e.frames)  BY DEF Delivered
  <1>2. e.number < d.number  BY <1>1
  <1> QED  BY <1>1, <1>2, LaterFrames

\* poll() puts the frames of a datagram behind those held; the oldest may go.
LEMMA PushKeepsStream ==
  ASSUME LinkInv, NEW d \in wire, R!PollAudio(Arrival(d)),
         arrived' = arrived \cup {d.number},
         orderly' = (orderly /\ \A n \in arrived : n < d.number),
         UNCHANGED <<wire, heard>>
  PROVE  StreamInv'
  <1> DEFINE l == R!Layout(Arrival(d))
             k == 2 * l.channels
             q == QueueBytes \div k
             f == d.frames
             b == BytesIn(f, k)
  <1>1. /\ rReady /\ rFormat' = l /\ (rFormat = R!Unlocked \/ rFormat = l)
        /\ Arrival(d).channels \in 1 .. 2
        /\ ring' = RingPush(QueueBytes, ring,
                            SubSeq(Arrival(d).payload, 1, R!UsableBytes(Arrival(d))))
    BY SameRing DEF R!PollAudio, R!Take, R!MatchesLock, R!Decodable
  <1>2. l.rate = d.rate /\ l.channels = d.channels /\ d.channels \in 1 .. 2
    BY <1>1 DEF R!Layout, Arrival
  <1>3. ring' = RingPush(QueueBytes, ring, b)
    BY <1>1, <1>2, WholePayloadTaken DEF LinkInv
  <1>4. f \in Seq(Frame) /\ Rising(f) /\ OfLayout(l, f)
    BY <1>2, OnTheWire DEF LinkInv, OfLayout
  <1>5. k \in {2, 4} /\ k \in Nat  BY <1>2
  <1>6. PICK g : Holds(g)  BY <1>1 DEF LinkInv, StreamInv
  <1>7. g \in Seq(Frame) /\ Content(QueueBytes, ring) = BytesIn(g, k) /\ OfLayout(l, g)
    <2>1. CASE rFormat = l  BY <1>6, <2>1 DEF Holds, Carries
    <2>2. CASE rFormat = R!Unlocked
      <3>1. g = <<>> /\ 2 * rFormat.channels \in Nat
        BY <1>6, <2>2 DEF Holds, R!Unlocked
      <3>2. Content(QueueBytes, ring) = <<>>
        BY <1>6, <3>1, NoBytes DEF Holds, Carries
      <3>3. BytesIn(<<>>, k) = <<>> /\ OfLayout(l, <<>>) /\ <<>> \in Seq(Frame)
        BY <1>5, NoBytes DEF OfLayout
      <3> QED  BY <3>1, <3>2, <3>3
    <2> QED  BY <1>1, <2>1, <2>2
  <1>8. Waits(g, Delivered(wire, arrived), heard, orderly)  BY <1>6 DEF Holds
  <1> HIDE DEF l, k, f, b
  <1>9. q \in Nat /\ QueueBytes % k = 0 /\ QueueBytes \in Nat \ {0}
    BY <1>5, WholeFramesFit, QueueAssumption
  <1> HIDE DEF q
  <1> DEFINE h == Newest(g \o f, q)
  <1>10. h \in Seq(Frame) /\ OfLayout(l, h)
    <2>1. h \in Seq(Frame) /\ Elements(h) \subseteq Elements(g) \cup Elements(f)
      BY <1>4, <1>7, <1>9, NewestInOrder
    <2> HIDE DEF h
    <2> QED  BY <1>4, <1>7, <2>1, LayoutStays
  <1>11. /\ ring' \in Rings(QueueBytes, RingByte) /\ WellFormed(QueueBytes, ring')
         /\ Content(QueueBytes, ring') = BytesIn(h, k)
    <2>1. b \in Seq(RingByte)
      <3>1. b \in Seq(BytesOver(Frame))  BY <1>4, <1>5, BytesInFacts DEF b
      <3> QED  BY <3>1, SeqWidens DEF RingByte
    <2>2. /\ ring' \in Rings(QueueBytes, RingByte) /\ WellFormed(QueueBytes, ring')
          /\ Content(QueueBytes, ring') = Newest(BytesIn(g, k) \o b, QueueBytes)
      BY <1>3, <1>7, <1>9, <2>1, PushKeepsNewest DEF LinkInv, StreamInv
    <2>3. BytesIn(g, k) \o b = BytesIn(g \o f, k) /\ g \o f \in Seq(Frame)
      BY <1>4, <1>5, <1>7, BytesJoin DEF b
    <2>4. Newest(BytesIn(g \o f, k), QueueBytes) = BytesIn(h, k)
      BY <1>5, <1>9, <2>3, BytesNewest, ZenonT(60) DEF q
    <2> QED  BY <1>9, <2>2, <2>3, <2>4
  <1>12. Delivered(wire, arrived) \subseteq Delivered(wire', arrived')
    BY DeliveredGrows
  <1>13. Numbers(f) \subseteq Delivered(wire', arrived')
    BY IdsAreNumbers DEF Delivered, f
  <1>14. Waits(h, Delivered(wire', arrived'), heard, orderly')
    <2>1. orderly' => orderly /\ Before(Delivered(wire, arrived), Numbers(f))
      BY IdsAreNumbers, ArrivalIsLater DEF LinkInv, f
    <2>2. Elements(heard) \subseteq Delivered(wire, arrived)  BY DEF LinkInv, StreamInv
    <2> QED  BY <1>4, <1>7, <1>8, <1>9, <1>12, <1>13, <2>1, <2>2, WaitsBehind
  <1> HIDE DEF h
  <1>15. rFormat' # R!Unlocked /\ rFormat'.channels \in 1 .. 2
    BY <1>1, <1>2 DEF R!Unlocked
  <1>16. Holds(h)'
    <2>1. Carries(Content(QueueBytes, ring'), rFormat', h)
      BY <1>1, <1>10, <1>11 DEF Carries, k
    <2> QED  BY <1>10, <1>14, <1>15, <2>1 DEF Holds
  <1>17. /\ heard' \in Seq(Nat) /\ Ascends(heard')
         /\ Elements(heard') \subseteq Delivered(wire', arrived')
    BY <1>12 DEF LinkInv, StreamInv
  <1> QED  BY <1>11, <1>15, <1>16, <1>17 DEF StreamInv

\* What readFrames(n) returns and leaves, in frames.
LEMMA ReadTakesFrames ==
  ASSUME LinkInv, NEW n \in Nat, R!ReadFrames(n), NEW g, Holds(g)
  PROVE  \E m \in 0 .. Len(g) :
           /\ ring' \in Rings(QueueBytes, RingByte) /\ WellFormed(QueueBytes, ring')
           /\ Content(QueueBytes, ring') =
                BytesIn(SubSeq(g, m + 1, Len(g)), 2 * rFormat.channels)
           /\ Len(out') = m
           /\ \A i \in 1 .. m : out'[i][1].frame = SubSeq(g, 1, m)[i]
  <1> DEFINE k == 2 * rFormat.channels
             c == Content(QueueBytes, ring)
             m == R!Least(n, Len(g))
             x == R!TakeBytes(n)
  <1>1. /\ rReady /\ rFormat # R!Unlocked
        /\ out' = Frames(RingPopBytes(QueueBytes, ring, x), k)
        /\ ring' = RingPop(QueueBytes, ring, x)
    BY SameRing DEF R!ReadFrames, R!BytesPerFrame
  <1>2. k \in {2, 4}  BY <1>1 DEF LinkInv, StreamInv
  <1>3. g \in Seq(Frame) /\ c = BytesIn(g, k)  BY DEF Holds, Carries
  <1>4. /\ ring \in Rings(QueueBytes, RingByte) /\ WellFormed(QueueBytes, ring)
        /\ QueueBytes \in Nat \ {0}
    BY QueueAssumption DEF LinkInv, StreamInv
  <1>5. c \in Seq(RingByte) /\ Len(c) = ring.count
    BY <1>4, ContentType
  <1>6. Len(c) = k * Len(g) /\ Len(g) \in Nat  BY <1>2, <1>3, BytesInFacts
  <1>7. x = R!Least(n, ring.count \div k) * k  BY DEF R!TakeBytes, R!BytesPerFrame
  <1> HIDE DEF k, c, m, x
  <1>8. /\ m \in 0 .. Len(g) /\ m \in Nat /\ x = k * m /\ x \in Nat
        /\ Taken(ring, x) = x /\ x <= Len(c)
    <2>1. (k * Len(g)) \div k = Len(g)
      <3>1. CASE k = 2  BY <1>6, <3>1
      <3>2. CASE k = 4  BY <1>6, <3>2
      <3> QED  BY <1>2, <3>1, <3>2
    <2>2. m \in 0 .. Len(g) /\ m \in Nat  BY <1>6 DEF m, R!Least
    <2>3. x = m * k  BY <1>5, <1>6, <1>7, <2>1 DEF m
    <2>4. x = k * m /\ x \in Nat /\ x <= k * Len(g)
      <3>1. CASE k = 2  BY <1>6, <2>2, <2>3, <3>1
      <3>2. CASE k = 4  BY <1>6, <2>2, <2>3, <3>2
      <3> QED  BY <1>2, <3>1, <3>2
    <2>5. ring.count \in Nat  BY <1>2, <1>5, <1>6
    <2>6. Taken(ring, x) = x  BY <1>5, <1>6, <2>4, <2>5 DEF Taken
    <2> QED  BY <1>6, <2>2, <2>4, <2>6
  <1>9. /\ ring' \in Rings(QueueBytes, RingByte) /\ WellFormed(QueueBytes, ring')
        /\ RingPopBytes(QueueBytes, ring, x) = SubSeq(c, 1, x)
        /\ Content(QueueBytes, ring') = SubSeq(c, x + 1, Len(c))
    <2> DEFINE r == RingPop(QueueBytes, ring, x)
    <2>1. /\ r \in Rings(QueueBytes, RingByte) /\ WellFormed(QueueBytes, r)
          /\ RingPopBytes(QueueBytes, ring, x) = SubSeq(c, 1, Taken(ring, x))
          /\ Content(QueueBytes, r) = SubSeq(c, Taken(ring, x) + 1, Len(c))
      BY <1>4, <1>8, PopTakesOldest, ZenonT(60) DEF c
    <2> HIDE DEF r
    <2>2. ring' = r  BY <1>1 DEF r
    <2> QED  BY <1>8, <2>1, <2>2
  <1>10. SubSeq(c, 1, x) = BytesIn(SubSeq(g, 1, m), k) /\ SubSeq(g, 1, m) \in Seq(Frame)
         /\ Len(SubSeq(g, 1, m)) = m
    <2>1. /\ CutBytes(BytesIn(g, k), k, 0, m) = BytesIn(SubSeq(g, 0 + 1, m), k)
          /\ SubSeq(g, 0 + 1, m) \in Seq(Frame) /\ Len(SubSeq(g, 0 + 1, m)) = m - 0
      <3>1. 0 \in Nat /\ 0 <= m /\ m <= Len(g)  BY <1>6, <1>8
      <3> QED  BY <1>2, <1>3, <1>8, <3>1, BytesCut
    <2>2. k * 0 + 1 = 1 /\ 0 + 1 = 1 /\ m - 0 = m  BY <1>2, <1>8
    <2> QED  BY <1>3, <1>8, <2>1, <2>2 DEF CutBytes
  <1>11. SubSeq(c, x + 1, Len(c)) = BytesIn(SubSeq(g, m + 1, Len(g)), k)
    <2>1. PICK z : z = Len(g)  OBVIOUS
    <2>2. z \in Nat /\ m <= z /\ z <= Len(g)  BY <1>6, <1>8, <2>1
    <2>3. CutBytes(BytesIn(g, k), k, m, z) = BytesIn(SubSeq(g, m + 1, z), k)
      BY <1>2, <1>3, <1>8, <2>2, BytesCut
    <2> QED  BY <1>3, <1>6, <1>8, <2>1, <2>3 DEF CutBytes
  <1>12. /\ Len(out') = m
         /\ \A i \in 1 .. m : out'[i][1].frame = SubSeq(g, 1, m)[i]
    <2> DEFINE a == SubSeq(g, 1, m)
    <2>1. out' = Frames(BytesIn(a, k), k)  BY <1>1, <1>9, <1>10
    <2>2. a \in Seq(Frame) /\ Len(a) = m  BY <1>10
    <2> HIDE DEF a
    <2>3. PICK f : f = Frames(BytesIn(a, k), k)  OBVIOUS
    <2>4. Len(f) = m /\ \A i \in 1 .. m : \A j \in 1 .. k : f[i][j] = [frame |-> a[i], at |-> j]
      <3>1. /\ Len(Frames(BytesIn(a, k), k)) = Len(a)
            /\ \A i \in 1 .. Len(a) : \A j \in 1 .. k :
                 Frames(BytesIn(a, k), k)[i][j] = [frame |-> a[i], at |-> j]
        BY <1>2, <2>2, FramesOfBytes, ZenonT(60)
      <3> QED  BY <2>2, <2>3, <3>1
    <2>5. 1 \in 1 .. k  BY <1>2
    <2>6. ASSUME NEW i \in 1 .. m PROVE f[i][1].frame = a[i]
      <3>1. f[i][1] = [frame |-> a[i], at |-> 1]  BY <2>4, <2>5
      <3> QED  BY <3>1
    <2>7. out' = f  BY <2>1, <2>3
    <2> QED  BY <2>4, <2>6, <2>7 DEF a
  <1> QED  BY <1>8, <1>9, <1>11, <1>12 DEF k

\* readFrames(): what the listener hears goes behind what it heard.
LEMMA ReadKeepsStream ==
  ASSUME LinkInv, NEW n \in 1 .. MaxTake, Read(n)
  PROVE  StreamInv' /\ [Channel!Hear]_(Channel!cvars)
  <1>1. /\ n \in Nat /\ rReady /\ R!ReadFrames(n) /\ rReady' = rReady /\ rFormat' = rFormat
        /\ wire' = wire /\ written' = written /\ arrived' = arrived /\ orderly' = orderly
        /\ heard' = IF orderly
                    THEN heard \o [i \in 1 .. Len(out') |-> out'[i][1].frame.id]
                    ELSE heard
    BY DEF Read, ReceiverStep, R!ReadFrames, vars, state, history, netVars
  <1>2. PICK g : Holds(g)  BY <1>1 DEF LinkInv, StreamInv
  <1>3. PICK m \in 0 .. Len(g) :
           /\ ring' \in Rings(QueueBytes, RingByte) /\ WellFormed(QueueBytes, ring')
           /\ Content(QueueBytes, ring') =
                BytesIn(SubSeq(g, m + 1, Len(g)), 2 * rFormat.channels)
           /\ Len(out') = m
           /\ \A i \in 1 .. m : out'[i][1].frame = SubSeq(g, 1, m)[i]
    BY <1>1, <1>2, ReadTakesFrames
  <1> DEFINE b == Rest(g, m)
             t == Heard(heard, g, m, orderly)
  <1>4. /\ g \in Seq(Frame) /\ OfLayout(rFormat, g) /\ Len(g) \in Nat
        /\ Waits(g, Delivered(wire, arrived), heard, orderly) /\ rFormat # R!Unlocked
    BY <1>1, <1>2, LenProperties DEF Holds, Carries, R!ReadFrames
  <1>5. heard \in Seq(Nat) /\ Ascends(heard) /\ Elements(heard) \subseteq Delivered(wire, arrived)
    BY DEF LinkInv, StreamInv
  <1>6. heard' = t
    <2>1. \A i \in 1 .. m : SubSeq(g, 1, m)[i] = g[i]
      <3>1. m \in Nat /\ m <= Len(g)  BY <1>4
      <3> QED  BY <1>4, <3>1, PrefixOfSeq
    <2>2. [i \in 1 .. Len(out') |-> out'[i][1].frame.id] = [i \in 1 .. m |-> g[i].id]
      BY <1>3, <2>1
    <2> QED  BY <1>1, <2>2 DEF Heard
  <1>7. /\ b \in Seq(Frame) /\ Elements(b) \subseteq Elements(g)
        /\ t \in Seq(Nat) /\ Ascends(t) /\ Elements(t) \subseteq Delivered(wire, arrived)
        /\ Waits(b, Delivered(wire, arrived), t, orderly)
        /\ t = heard \/ GoesOn(t, heard)
    <2>1. \A x \in Frame : x.id \in Nat  BY DEF Frame
    <2>2. PICK D : D = Delivered(wire, arrived)  OBVIOUS
    <2>3. Elements(heard) \subseteq D /\ Waits(g, D, heard, orderly)  BY <1>4, <1>5, <2>2
    <2>4. m \in 0 .. Len(g)  BY <1>3
    <2>5. /\ b \in Seq(Frame) /\ Elements(b) \subseteq Elements(g)
          /\ t \in Seq(Nat) /\ Ascends(t) /\ Elements(t) \subseteq D
          /\ Waits(b, D, t, orderly)
          /\ t = heard \/ GoesOn(t, heard)
      BY <1>4, <1>5, <2>1, <2>3, <2>4, WaitsRead
    <2> HIDE DEF b, t
    <2> QED  BY <2>2, <2>5
  <1> HIDE DEF b, t
  <1>8. OfLayout(rFormat, b)  BY <1>4, <1>7, LayoutStays
  <1>9. /\ heard' \in Seq(Nat) /\ Ascends(heard')
        /\ Elements(heard') \subseteq Delivered(wire, arrived)
    BY <1>6, <1>7
  <1>10. Holds(b)'
    <2>1. Carries(Content(QueueBytes, ring'), rFormat, b)  BY <1>3, <1>8 DEF Carries, b, Rest
    <2>2. Waits(b, Delivered(wire', arrived'), heard', orderly') /\ rFormat' # R!Unlocked
      BY <1>1, <1>4, <1>6, <1>7
    <2>3. Carries(Content(QueueBytes, ring'), rFormat', b)  BY <1>1, <2>1
    <2> QED  BY <1>7, <2>2, <2>3 DEF Holds
  <1>11. StreamInv'
    <2>1. rFormat' = R!Unlocked \/ rFormat'.channels \in 1 .. 2
      BY <1>1 DEF LinkInv, StreamInv
    <2> QED  BY <1>1, <1>3, <1>9, <1>10, <2>1 DEF StreamInv
  <1>12. Delivered(wire, arrived) \subseteq 1 .. written
    BY OnTheWire DEF Delivered, LinkInv
  <1>13. heard' = heard \/ Channel!Hear
    <2>1. \A i \in 1 .. Len(heard') : heard'[i] \in 1 .. written
      BY <1>9, <1>12 DEF Elements
    <2>2. Channel!Increasing(heard')  BY <1>9 DEF Ascends, Channel!Increasing
    <2> QED  BY <1>1, <1>6, <1>7, <2>1, <2>2 DEF Channel!Hear, GoesOn
  <1> QED  BY <1>1, <1>11, <1>13 DEF Channel!cvars

-----------------------------------------------------------------------------
\* Every step of the link is one of the sender, or leaves the sender alone.
LEMMA LinkStepsSender == [LinkNext]_linkVars => [Next]_vars
  <1> SUFFICES ASSUME [LinkNext]_linkVars, ~ UNCHANGED vars PROVE Next
    OBVIOUS
  <1>1. ~ (CloseReceiver \/ Poll \/ Unheard)
    BY DEF CloseReceiver, ReceiverStep, Poll, Unheard
  <1>2. ~ \E name \in Filters : OpenReceiver(name)  BY DEF OpenReceiver, ReceiverStep
  <1>3. ~ \E n \in 1 .. MaxTake : Read(n)  BY DEF Read, ReceiverStep
  <1>4. ~ UNCHANGED linkVars  BY DEF linkVars
  <1> QED
    BY <1>1, <1>2, <1>3, <1>4
    DEF LinkNext, Next, SenderStep, OpenSender, ChangeFormat, WriteSender, FlushSender

\* The sender adds to the wire, and what it writes goes into the channel.
LEMMA SenderStepWrites ==
  ASSUME LinkInv,
         \/ \E name \in Names : OpenSender(name)
         \/ \E f \in Formats : ChangeFormat(f)
         \/ \E n \in WriteSizes : WriteSender(n)
         \/ FlushSender
  PROVE  /\ wire \subseteq wire' /\ UNCHANGED <<receiverVars, netVars, heard>>
         /\ [Channel!Write]_(Channel!cvars)
  <1>1. UNCHANGED <<receiverVars, netVars, heard>>
    BY DEF OpenSender, ChangeFormat, WriteSender, FlushSender, SenderStep
  <1>2. CASE \/ \E name \in Names : OpenSender(name)
             \/ \E f \in Formats : ChangeFormat(f)
    <2>1. wire' = wire /\ written' = written
      BY <1>2 DEF OpenSender, ChangeFormat, SenderStep, Begin, SetFormat
    <2> QED  BY <1>1, <2>1 DEF Channel!cvars
  <1>3. CASE FlushSender
    <2>1. wire \subseteq wire' /\ written' = written
      BY <1>3 DEF FlushSender, SenderStep, Flush
    <2> QED  BY <1>1, <2>1 DEF Channel!cvars
  <1>4. ASSUME NEW n \in WriteSizes, WriteSender(n)
        PROVE  wire \subseteq wire' /\ [Channel!Write]_(Channel!cvars)
    <2>1. wire \subseteq wire' /\ written' = written + n /\ written + n <= MaxWritten
      BY <1>4 DEF WriteSender, SenderStep, WriteFrames, Emit
    <2>2. n \in Nat \ {0} /\ written \in Nat /\ MaxWritten \in Nat
      BY BoundAssumption DEF LinkInv, SenderInv, TypeOK
    <2>3. n \in 1 .. MaxWritten  BY <2>1, <2>2
    <2> QED  BY <1>1, <2>1, <2>3 DEF Channel!Write
  <1> QED  BY <1>1, <1>2, <1>3, <1>4

\* poll(): what it ignores or refuses changes nothing, audio is pushed.
LEMMA PollKeepsStream ==
  ASSUME LinkInv, Poll
  PROVE  StreamInv' /\ UNCHANGED <<written, heard>>
  <1>1. PICK d \in wire :
          /\ R!Poll(Arrival(d))
          /\ arrived' = arrived \cup {d.number}
          /\ orderly' = (orderly /\ \A n \in arrived : n < d.number)
    BY DEF Poll
  <1>2. wire' = wire /\ written' = written /\ heard' = heard
    BY DEF Poll, vars, history
  <1>3. CASE R!PollAudio(Arrival(d))
    BY <1>1, <1>2, <1>3, PushKeepsStream
  <1>4. CASE ~ R!PollAudio(Arrival(d))
    <2>1. UNCHANGED <<rReady, rFormat, ring>>
      BY <1>1, <1>4 DEF R!Poll, R!PollService, R!PollIgnored, R!PollUnsupported
    <2>2. wire \subseteq wire' /\ arrived \subseteq arrived' /\ (orderly' => orderly)
      BY <1>1, <1>2
    <2> QED  BY <1>2, <2>1, <2>2, QuietStepKeepsStream DEF LinkInv
  <1> QED  BY <1>2, <1>3, <1>4

LEMMA LinkStep ==
  LinkInv /\ [LinkNext]_linkVars =>
    StreamInv' /\ [Channel!Write \/ Channel!Hear]_(Channel!cvars)
  <1> DEFINE Goal == StreamInv' /\ [Channel!Write \/ Channel!Hear]_(Channel!cvars)
  <1> SUFFICES ASSUME LinkInv, [LinkNext]_linkVars PROVE Goal
    OBVIOUS
  <1>1. CASE \/ \E name \in Names : OpenSender(name)
             \/ \E f \in Formats : ChangeFormat(f)
             \/ \E n \in WriteSizes : WriteSender(n)
             \/ FlushSender
    <2>1. /\ wire \subseteq wire' /\ UNCHANGED <<receiverVars, netVars, heard>>
          /\ [Channel!Write]_(Channel!cvars)
      BY <1>1, SenderStepWrites
    <2>2. StreamInv'
      BY <2>1, QuietStepKeepsStream DEF LinkInv, receiverVars, netVars
    <2> QED  BY <2>1, <2>2
  <1>2. CASE (\E name \in Filters : OpenReceiver(name)) \/ CloseReceiver
    <2>1. /\ ring' = R!Emptied(ring) /\ UNCHANGED <<wire, written, arrived, orderly, heard>>
          /\ rReady' => rFormat' = R!Unlocked
          /\ rFormat' = R!Unlocked \/ rFormat' = rFormat
      BY <1>2 DEF OpenReceiver, CloseReceiver, ReceiverStep, R!Begin, R!End, R!RingAtBegin,
                  vars, history, netVars
    <2>2. StreamInv'  BY <2>1, EmptiedKeepsStream DEF LinkInv
    <2> QED  BY <2>1, <2>2 DEF Channel!cvars
  <1>3. CASE Poll
    BY <1>3, PollKeepsStream DEF Channel!cvars
  <1>4. CASE Unheard
    <2>1. /\ wire' = wire /\ written' = written /\ arrived \subseteq arrived'
          /\ UNCHANGED <<orderly, rReady, rFormat, ring, heard>>
      BY <1>4 DEF Unheard, vars, history, receiverVars
    <2>2. StreamInv'  BY <2>1, QuietStepKeepsStream DEF LinkInv
    <2> QED  BY <2>1, <2>2 DEF Channel!cvars
  <1>5. ASSUME NEW n \in 1 .. MaxTake, Read(n) PROVE Goal
    <2>1. StreamInv' /\ [Channel!Hear]_(Channel!cvars)  BY <1>5, ReadKeepsStream
    <2> QED  BY <2>1
  <1>6. CASE UNCHANGED linkVars
    <2>1. /\ UNCHANGED <<wire, written, arrived, orderly, rReady, rFormat, ring, heard>>
      BY <1>6 DEF linkVars, vars, history, receiverVars, netVars
    <2>2. StreamInv'  BY <2>1, QuietStepKeepsStream DEF LinkInv
    <2> QED  BY <2>1, <2>2 DEF Channel!cvars
  <1> HIDE DEF Goal
  <1> QED  BY <1>1, <1>2, <1>3, <1>4, <1>5, <1>6 DEF LinkNext

LEMMA LinkInvHolds == LinkSpec => []LinkInv
  <1>1. LinkInit => LinkInv
    <2> SUFFICES ASSUME LinkInit PROVE LinkInv
      OBVIOUS
    <2>1. /\ ring = EmptyRing(QueueBytes, Silence) /\ rReady = FALSE
          /\ rFormat = R!Unlocked /\ heard = <<>>
      BY SameRing DEF LinkInit, R!Init
    <2>2. ring \in Rings(QueueBytes, RingByte) /\ WellFormed(QueueBytes, ring)
      <3>1. Silence \in RingByte  BY DEF RingByte
      <3> QED  BY <2>1, <3>1, QueueAssumption, EmptyRingFacts
    <2>3. heard \in Seq(Nat) /\ Len(heard) = 0 /\ Elements(heard) = {}
      BY <2>1 DEF Elements
    <2>4. Ascends(heard)  BY <2>3 DEF Ascends
    <2>5. StreamInv  BY <2>1, <2>2, <2>3, <2>4 DEF StreamInv
    <2> QED  BY <2>5, InitInv, InitBook DEF LinkInit, LinkInv
  <1>2. LinkInv /\ [LinkNext]_linkVars => LinkInv'
    BY LinkStep, LinkStepsSender, StepKeepsInv, StepKeepsBook DEF LinkInv
  <1> QED  BY <1>1, <1>2, PTL DEF LinkSpec

\* What an open receiver holds is, frame by frame, what was written, under the rate
\* and channel count it was written with: for every payload size, ring size, format
\* set and counter width, whatever the network loses, doubles and reorders, and
\* however often either end is opened again or the format changes.
THEOREM NoFrameIsTorn == LinkSpec => []QueuedAsWritten
  <1>1. LinkInv => QueuedAsWritten
    <2> DEFINE k == 2 * rFormat.channels
               f == R!Frames(R!Queued, k)
    <2> SUFFICES ASSUME LinkInv, rReady, rFormat # R!Unlocked
                 PROVE  /\ ring.count % k = 0
                        /\ \A i \in 1 .. Len(f) :
                             /\ \A j \in 1 .. k : f[i][j] = [frame |-> f[i][1].frame, at |-> j]
                             /\ f[i][1].frame.format.rate = rFormat.rate
                             /\ f[i][1].frame.format.channels = rFormat.channels
      BY DEF QueuedAsWritten
    <2>1. PICK g : Holds(g)  BY DEF LinkInv, StreamInv
    <2>2. k \in {2, 4}  BY DEF LinkInv, StreamInv
    <2>3. /\ g \in Seq(Frame) /\ Content(QueueBytes, ring) = BytesIn(g, k)
          /\ OfLayout(rFormat, g)
      BY <2>1 DEF Holds, Carries
    <2>4. f = Frames(BytesIn(g, k), k)
      BY <2>3, SameRing DEF R!Queued
    <2>5. ring.count = k * Len(g) /\ Len(g) \in Nat
      <3>1. Len(Content(QueueBytes, ring)) = ring.count
        BY QueueAssumption, ContentType DEF LinkInv, StreamInv
      <3> QED  BY <2>2, <2>3, <3>1, BytesInFacts
    <2> HIDE DEF k, f
    <2>6. ring.count % k = 0
      <3>1. CASE k = 2  BY <2>5, <3>1
      <3>2. CASE k = 4  BY <2>5, <3>2
      <3> QED  BY <2>2, <3>1, <3>2
    <2>7. Len(f) = Len(g) /\ \A i \in 1 .. Len(g) : \A j \in 1 .. k :
                                f[i][j] = [frame |-> g[i], at |-> j]
      <3>1. /\ Len(Frames(BytesIn(g, k), k)) = Len(g)
            /\ \A i \in 1 .. Len(g) : \A j \in 1 .. k :
                 Frames(BytesIn(g, k), k)[i][j] = [frame |-> g[i], at |-> j]
        BY <2>2, <2>3, FramesOfBytes, ZenonT(60)
      <3> QED  BY <2>4, <3>1
    <2>8. ASSUME NEW i \in 1 .. Len(f)
          PROVE  /\ \A j \in 1 .. k : f[i][j] = [frame |-> f[i][1].frame, at |-> j]
                 /\ f[i][1].frame.format.rate = rFormat.rate
                 /\ f[i][1].frame.format.channels = rFormat.channels
      <3>1. 1 \in 1 .. k /\ i \in 1 .. Len(g)  BY <2>2, <2>7
      <3>2. f[i][1] = [frame |-> g[i], at |-> 1]  BY <2>7, <3>1
      <3>3. f[i][1].frame = g[i]  BY <3>2
      <3> QED  BY <2>3, <2>7, <3>1, <3>3 DEF OfLayout
    <2> QED  BY <2>6, <2>8
  <1> QED  BY <1>1, LinkInvHolds, PTL

\* Sender, network and receiver are together the lossy frame channel, on every
\* network, through every begin(), end() and setFormat(), failed packet and full ring.
THEOREM LinkIsALossyChannel == LinkSpec => ChannelSpec
  <1>1. LinkInit => Channel!Init  BY DEF LinkInit, Init, Channel!Init
  <1>2. LinkInv /\ [LinkNext]_linkVars => [Channel!Write \/ Channel!Hear]_(Channel!cvars)
    BY LinkStep
  <1> QED  BY <1>1, <1>2, LinkInvHolds, PTL DEF LinkSpec, ChannelSpec, Channel!Spec
=============================================================================
