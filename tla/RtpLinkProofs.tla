--------------------------- MODULE RtpLinkProofs -----------------------------
(***************************************************************************)
(* For every set of formats and payload types, payload size and counter    *)
(* width: the RTP sender is type correct, no frame is lost without account *)
(* or sent twice, also where writeEncoded() writes over pending frames;    *)
(* what is on the wire is numbered and stamped without a break; an L16     *)
(* packet holds whole frames of its payload type; and an armed marker goes *)
(* out on exactly one packet.  For every queue size, network and listener: *)
(* the receiver sees every lost packet in the sequence numbers, and        *)
(* sender, network and receiver are together a lossy frame channel.        *)
(*                                                                         *)
(* SenderInv is about the buffer and single packets, BookInv about all     *)
(* packets ever built, StampInv about their numbering, OrderInv and        *)
(* CountInv about the order and the number of those on the wire; WireInv   *)
(* is what the link's calls add.  StreamInv names the frames whose bytes   *)
(* the ring of the receiver holds, and says where they and those heard     *)
(* come from.                                                              *)
(***************************************************************************)
EXTENDS RtpLink, PcmProofs, FiniteSetTheorems, WellFoundedInduction

\* The slots the scratch buffer can hold under format f when w have been written.
SlotsOf(f, w) == [id : 1 .. w, channels : {f.channels}] \cup {Overwritten}

\* samplesPerPacket_ is 0, or what setFormat() computed for the current format,
\* and then the payload type is an L16 type.
PacketSizeOfFormat ==
  samplesPerPacket # 0 =>
    /\ isL16 /\ payloadType \in {L16Mono, L16Stereo}
    /\ format \in L16Formats
    /\ samplesPerPacket = ComputeSamplesPerPacket(format.rate, format.channels)

\* What is pending was written under the current format to a sender that is still
\* ready, and is less than a packet.
PendingOfFormat ==
  /\ pending \in Seq(SlotsOf(format, written))
  /\ pending # <<>> => ready /\ Len(pending) < samplesPerPacket

\* begin() sets the SSRC before the sender is ready.
SourceOfSession == ready => ssrc \in Ssrcs

SettledWereWritten == lost \subseteq 1 .. written /\ dropped \subseteq 1 .. written

\* The inductive invariant for the types.
SenderInv ==
  /\ TypeOK
  /\ PacketSizeOfFormat
  /\ PendingOfFormat
  /\ SourceOfSession
  /\ SettledWereWritten

-----------------------------------------------------------------------------
\* The packet size setFormat() computes is positive and fits.
LEMMA PacketSizeFits ==
  ASSUME NEW f \in L16Formats
  PROVE  /\ f \in Formats /\ f.channels \in 1 .. 255 /\ f.rate \in Nat
         /\ ComputeSamplesPerPacket(f.rate, f.channels) \in Nat \ {0}
         /\ 2 * f.channels * ComputeSamplesPerPacket(f.rate, f.channels) <= MaxPayload
  <1> DEFINE c == 2 * f.channels
             byTime == f.rate \div 50
             fits == MaxPayload \div c
             m == ComputeSamplesPerPacket(f.rate, f.channels)
  <1>1. f \in Formats /\ f.channels \in 1 .. 255 /\ f.rate \in Nat
    BY FormatAssumption DEF L16Formats, IsValid
  <1>2. MaxPayload \in Nat /\ c <= MaxPayload /\ c \in Nat \ {0}
    BY <1>1, LimitAssumption
  <1>3. byTime \in Nat  BY <1>1, DivBounds
  <1> HIDE DEF c
  <1>4. fits \in Nat /\ c * fits <= MaxPayload /\ MaxPayload < c * fits + c
    BY <1>2, DivBounds
  <1>5. m = IF (IF byTime < fits THEN byTime ELSE fits) = 0
            THEN 1 ELSE (IF byTime < fits THEN byTime ELSE fits)
    BY DEF ComputeSamplesPerPacket, c
  <1> HIDE DEF byTime, fits, m
  <1>6. fits >= 1
    <2>1. CASE fits = 0  BY <2>1, <1>2, <1>4
    <2> QED  BY <2>1, <1>4
  <1>7. m \in Nat \ {0} /\ m <= fits  BY <1>3, <1>4, <1>5, <1>6
  <1>8. c * m <= c * fits /\ c * m \in Nat /\ c * fits \in Nat
    BY <1>2, <1>4, <1>7, SMTT(30)
  <1>9. c * m <= MaxPayload  BY <1>2, <1>4, <1>8
  <1> QED  BY <1>1, <1>7, <1>9 DEF c, m

\* A sender that can gather frames has a format, and packets that fit.
LEMMA FormatSet ==
  ASSUME TypeOK, PacketSizeOfFormat, samplesPerPacket > 0
  PROVE  /\ format \in L16Formats /\ format.channels \in 1 .. 255
         /\ payloadType \in {L16Mono, L16Stereo} /\ payloadType \in 0 .. 127
         /\ samplesPerPacket \in Nat \ {0}
         /\ 2 * format.channels * samplesPerPacket <= MaxPayload
  <1>1. samplesPerPacket # 0  OBVIOUS
  <1> QED  BY <1>1, PacketSizeFits DEF PacketSizeOfFormat, L16Mono, L16Stereo

\* The packets of one call that go out before the i-th are counted by a number.
LEMMA SentBeforeType ==
  ASSUME NEW k \in Nat, NEW sent \in SUBSET (1 .. k)
  PROVE  /\ IsFiniteSet(sent) /\ Cardinality(sent) \in Nat
         /\ \A i : /\ IsFiniteSet({j \in sent : j < i})
                   /\ SentBefore(sent, i) \in Nat
  <1>1. IsFiniteSet(1 .. k)  BY FS_Interval
  <1>2. \A t \in SUBSET (1 .. k) : IsFiniteSet(t) /\ Cardinality(t) \in Nat
    BY <1>1, FS_Subset, FS_CardinalityType
  <1>3. \A i : {j \in sent : j < i} \in SUBSET (1 .. k)  OBVIOUS
  <1> QED  BY <1>2, <1>3 DEF SentBefore

\* A datagram of well-typed slots under a payload type is well typed.
LEMMA DatagramTyped ==
  ASSUME SenderInv, ready, NEW kind \in {"l16", "encoded"}, payloadType \in 0 .. 127,
         NEW s \in Seq(Slot), NEW k \in Nat, NEW sent \in SUBSET (1 .. k), NEW i \in 1 .. k,
         NEW ticks \in Nat
  PROVE  Datagram(kind, s, i, sent, ticks) \in Datagrams
  <1>1. TypeOK /\ ssrc \in Ssrcs  BY DEF SenderInv, SourceOfSession
  <1>2. SentBefore(sent, i) \in Nat  BY SentBeforeType
  <1> DEFINE c == SentBefore(sent, i)
  <1>3. /\ sequenceNumber \in Nat /\ timestamp \in Nat /\ armMarker \in BOOLEAN
        /\ packets \in Nat /\ restamps \in 0 .. MaxRestamps
    BY <1>1, BoundAssumption, LimitAssumption DEF TypeOK
  <1>4. SeqMod \in Nat \ {0} /\ TsMod \in Nat \ {0}  BY LimitAssumption
  <1> HIDE DEF c
  <1>5. (sequenceNumber + c) % SeqMod \in 0 .. SeqMod - 1
    BY <1>2, <1>3, <1>4 DEF c
  <1>6. (timestamp + ticks * c) % TsMod \in 0 .. TsMod - 1
    <2> DEFINE x == ticks * c
    <2>1. x \in Nat  BY <1>2, SMTT(30) DEF c
    <2> HIDE DEF x
    <2>2. (timestamp + x) % TsMod \in 0 .. TsMod - 1  BY <1>3, <1>4, <2>1
    <2> QED  BY <2>2 DEF x
  <1>7. packets + i \in Nat  BY <1>3
  <1>8. (armMarker /\ c = 0) \in BOOLEAN  OBVIOUS
  <1> QED  BY <1>1, <1>3, <1>5, <1>6, <1>7, <1>8 DEF Datagram, Datagrams, c

\* Advancing the numbering keeps its width.
LEMMA AdvanceTyped ==
  ASSUME TypeOK, NEW k \in Nat, NEW sent \in SUBSET (1 .. k), NEW ticks \in Nat,
         Advance(sent, ticks)
  PROVE  /\ sequenceNumber' \in 0 .. SeqMod - 1 /\ timestamp' \in 0 .. TsMod - 1
         /\ armMarker' \in BOOLEAN
  <1> DEFINE c == Cardinality(sent)
             x == ticks * c
  <1>1. c \in Nat  BY SentBeforeType
  <1>2. x \in Nat  BY <1>1, SMTT(30)
  <1>3. /\ sequenceNumber \in 0 .. SeqMod - 1 /\ timestamp \in 0 .. TsMod - 1
        /\ armMarker \in BOOLEAN
    BY DEF TypeOK
  <1>4. SeqMod \in Nat \ {0} /\ TsMod \in Nat \ {0}  BY LimitAssumption
  <1>5. /\ sequenceNumber' = (sequenceNumber + c) % SeqMod
        /\ timestamp' = (timestamp + x) % TsMod
        /\ armMarker' = (armMarker /\ sent = {})
    BY DEF Advance
  <1> HIDE DEF c, x
  <1> QED  BY <1>1, <1>2, <1>3, <1>4, <1>5

\* The numbers of the slots of one format are numbers of written frames.
LEMMA IdsOfWritten ==
  ASSUME NEW f, NEW w \in Nat, NEW s \in Seq(SlotsOf(f, w))
  PROVE  Ids(s) \subseteq 1 .. w
  <1>1. \A i \in 1 .. Len(s) : s[i] \in SlotsOf(f, w)  BY ElementOfSeq
  <1>2. \A x \in SlotsOf(f, w) : x.id # 0 => x.id \in 1 .. w
    BY DEF SlotsOf, Overwritten
  <1> QED  BY <1>1, <1>2 DEF Ids

\* Slots of the current format are well-typed slots.
LEMMA SlotsTyped ==
  ASSUME format \in L16Formats, NEW w \in Nat, w <= MaxWritten
  PROVE  SlotsOf(format, w) \subseteq Slot
  <1>1. 1 .. w \subseteq 1 .. MaxWritten  BY BoundAssumption
  <1> QED  BY <1>1 DEF SlotsOf, Slot

\* The frames of a call, behind the pending ones, are all of the current format.
LEMMA GatheredOfFormat ==
  ASSUME TypeOK, PendingOfFormat, NEW n \in WriteSizes
  PROVE  /\ Gathered(n) \in Seq(SlotsOf(format, written + n))
         /\ Len(Gathered(n)) = Len(pending) + n
         /\ \A j \in 1 .. Len(pending) + n :
              Gathered(n)[j] = IF j <= Len(pending) THEN pending[j]
                               ELSE [id |-> written + (j - Len(pending)), channels |-> format.channels]
  <1> DEFINE S == SlotsOf(format, written + n)
             new == [i \in 1 .. n |-> [id |-> written + i, channels |-> format.channels]]
  <1>1. n \in Nat \ {0} /\ written \in Nat
    BY ApplicationAssumption, BoundAssumption DEF TypeOK
  <1>2. SlotsOf(format, written) \subseteq S
    <2>1. 1 .. written \subseteq 1 .. written + n  BY <1>1
    <2> QED  BY <2>1 DEF SlotsOf
  <1>3. pending \in Seq(S) /\ Len(pending) \in Nat
    <2>1. pending \in Seq(SlotsOf(format, written))  BY DEF PendingOfFormat
    <2> HIDE DEF S
    <2> QED  BY <1>2, <2>1, SeqWidens, LenProperties
  <1>4. new \in Seq(S) /\ Len(new) = n
    <2>1. \A i \in 1 .. n : [id |-> written + i, channels |-> format.channels] \in S
      BY <1>1 DEF SlotsOf
    <2>2. new \in [1 .. n -> S]  BY <2>1
    <2> HIDE DEF S
    <2> QED  BY <1>1, <2>2
  <1>5. \A j \in 1 .. n : new[j] = [id |-> written + j, channels |-> format.channels]
    OBVIOUS
  <1>6. Gathered(n) = pending \o new  BY DEF Gathered
  <1> HIDE DEF S, new
  <1>7. /\ pending \o new \in Seq(S) /\ Len(pending \o new) = Len(pending) + Len(new)
        /\ \A j \in 1 .. Len(pending) + Len(new) :
             (pending \o new)[j] = IF j <= Len(pending) THEN pending[j] ELSE new[j - Len(pending)]
    BY <1>3, <1>4, ConcatProperties
  <1>8. \A j \in 1 .. Len(pending) + n : ~ (j <= Len(pending)) => j - Len(pending) \in 1 .. n
    BY <1>1, <1>3
  <1> QED  BY <1>4, <1>5, <1>6, <1>7, <1>8 DEF S

\* writeFrames(): several packets, any of which may fail.
LEMMA WriteKeepsInv ==
  ASSUME SenderInv, NEW n \in WriteSizes, WriteFrames(n)
  PROVE  SenderInv'
  <1> DEFINE G == Gathered(n)
             k == FullPackets(n)
             b == samplesPerPacket
             S == SlotsOf(format, written + n)
  <1>1. PICK sent \in SUBSET (1 .. k) : Emit(n, sent)
    BY DEF WriteFrames
  <1>2. /\ ready /\ b > 0 /\ written + n <= MaxWritten /\ packets + k <= MaxPackets
        /\ pending' = Remainder(n) /\ written' = written + n
        /\ UNCHANGED <<config, dropped, restamps>>
    BY DEF WriteFrames
  <1>3. /\ TypeOK /\ PacketSizeOfFormat /\ PendingOfFormat /\ SourceOfSession /\ SettledWereWritten
    BY DEF SenderInv
  <1>4. n \in Nat \ {0} /\ written \in Nat /\ written + n \in Nat /\ MaxWritten \in Nat
    BY <1>3, BoundAssumption, ApplicationAssumption DEF TypeOK
  <1>5. b \in Nat \ {0} /\ format \in L16Formats /\ payloadType \in 0 .. 127
    BY <1>2, <1>3, FormatSet
  <1>6. G \in Seq(S)  BY <1>3, GatheredOfFormat
  <1>7. k = Len(G) \div b  BY DEF FullPackets
  <1>8. k \in Nat  BY <1>5, <1>6, <1>7, DivBounds, LenProperties
  <1>9. S \subseteq Slot  BY <1>2, <1>4, <1>5, SlotsTyped
  <1>10. \A i \in 1 .. k : PacketSlots(n, i) \in Seq(S)
    <2> SUFFICES ASSUME NEW i \in 1 .. k PROVE PacketSlots(n, i) \in Seq(S)
      OBVIOUS
    <2>1. PacketSlots(n, i) = SubSeq(G, (i - 1) * b + 1, i * b)
      BY DEF PacketSlots
    <2> HIDE DEF G, k, S, b
    <2>2. i \in 1 .. Len(G) \div b  BY <1>7
    <2>3. SubSeq(G, (i - 1) * b + 1, i * b) \in Seq(S)  BY <2>2, <1>5, <1>6, PacketCut
    <2> QED  BY <2>1, <2>3
  <1>11. /\ Remainder(n) \in Seq(S)
         /\ Len(Remainder(n)) \in Nat /\ Len(Remainder(n)) < b
    <2>1. Remainder(n) = SubSeq(G, (Len(G) \div b) * b + 1, Len(G))
      BY DEF Remainder, FullPackets
    <2> HIDE DEF G, S, b
    <2>2. LET r == SubSeq(G, (Len(G) \div b) * b + 1, Len(G))
          IN  r \in Seq(S) /\ Len(r) \in Nat /\ Len(r) < b
      BY <1>5, <1>6, RestCut
    <2> QED  BY <2>1, <2>2
  <1>12. wire' = wire \cup {Datagram("l16", PacketSlots(n, i), i, sent, b) : i \in sent}
    BY <1>1 DEF Emit
  <1>13. lost' = lost \cup UNION {Ids(PacketSlots(n, i)) : i \in (1 .. k) \ sent}
    BY <1>1 DEF Emit
  <1>14. Advance(sent, b) /\ packets' = packets + k
         /\ error' = IF sent = 1 .. k THEN error ELSE "SendFailed"
    BY <1>1 DEF Emit
  <1> HIDE DEF G, k
  <1>15. SettledWereWritten'
    <2>1. \A i \in 1 .. k : Ids(PacketSlots(n, i)) \subseteq 1 .. written + n
      BY <1>4, <1>10, IdsOfWritten
    <2>2. lost \subseteq 1 .. written + n /\ dropped \subseteq 1 .. written + n
      BY <1>3, <1>4 DEF SettledWereWritten
    <2> QED  BY <1>2, <1>13, <2>1, <2>2 DEF SettledWereWritten
  <1>16. PendingOfFormat'
    BY <1>2, <1>11 DEF PendingOfFormat, config
  <1>17. TypeOK'
    <2>1. pending' \in Seq(Slot)  BY <1>2, <1>9, <1>11, SeqWidens
    <2>2. /\ sequenceNumber' \in 0 .. SeqMod - 1 /\ timestamp' \in 0 .. TsMod - 1
          /\ armMarker' \in BOOLEAN
      BY <1>1, <1>3, <1>5, <1>8, <1>14, AdvanceTyped
    <2>3. wire' \subseteq Datagrams
      <3>1. ASSUME NEW i \in sent
            PROVE  Datagram("l16", PacketSlots(n, i), i, sent, b) \in Datagrams
        <4>1. i \in 1 .. k  BY <1>1
        <4>2. PacketSlots(n, i) \in Seq(Slot)  BY <1>9, <1>10, <4>1, SeqWidens
        <4> QED  BY <1>1, <1>2, <1>5, <1>8, <4>1, <4>2, DatagramTyped
      <3> QED  BY <1>3, <1>12, <3>1 DEF TypeOK
    <2>4. /\ lost' \subseteq 1 .. MaxWritten /\ dropped' \subseteq 1 .. MaxWritten
          /\ written' \in 0 .. MaxWritten
      <3>1. 1 .. written + n \subseteq 1 .. MaxWritten  BY <1>2, <1>4
      <3> QED  BY <1>2, <1>4, <1>15, <3>1 DEF SettledWereWritten
    <2>5. error' \in Errors  BY <1>3, <1>14 DEF TypeOK, Errors
    <2>6. packets' \in 0 .. MaxPackets
      BY <1>2, <1>3, <1>8, <1>14, BoundAssumption DEF TypeOK
    <2>7. /\ ready' \in BOOLEAN /\ format' \in L16Formats \cup {NoFormat}
          /\ payloadType' \in (0 .. 127) \cup {Unset} /\ isL16' \in BOOLEAN
          /\ samplesPerPacket' \in Nat
          /\ tsIncrement' \in Increments \cup {0} /\ ssrc' \in Ssrcs \cup {0}
          /\ restamps' \in 0 .. MaxRestamps
      BY <1>2, <1>3 DEF TypeOK, config
    <2> QED  BY <2>1, <2>2, <2>3, <2>4, <2>5, <2>6, <2>7, Zenon DEF TypeOK
  <1>18. PacketSizeOfFormat' /\ SourceOfSession'
    BY <1>2, <1>3 DEF PacketSizeOfFormat, ComputeSamplesPerPacket, SourceOfSession, config
  <1> QED  BY <1>15, <1>16, <1>17, <1>18 DEF SenderInv

\* What flush() sends.
LEMMA FlushSends ==
  ASSUME SenderInv, NEW ok \in BOOLEAN, Flush(ok)
  PROVE  /\ pending \in Seq(Slot) /\ Len(pending) \in Nat \ {0}
         /\ Len(pending) < samplesPerPacket /\ samplesPerPacket \in Nat \ {0}
         /\ payloadType \in {L16Mono, L16Stereo} /\ payloadType \in 0 .. 127
         /\ ready
  <1>1. pending # <<>> /\ pending \in Seq(Slot) /\ samplesPerPacket \in Nat
    BY DEF Flush, SenderInv, TypeOK
  <1>2. ready /\ Len(pending) < samplesPerPacket
    BY <1>1 DEF SenderInv, PendingOfFormat
  <1>3. Len(pending) \in Nat \ {0}  BY <1>1, LenProperties, EmptySeq
  <1>4. samplesPerPacket > 0  BY <1>1, <1>2, <1>3
  <1> QED  BY <1>1, <1>2, <1>3, <1>4, FormatSet DEF SenderInv

\* flush() and writeEncoded(): one packet.
LEMMA PacketKeepsInv ==
  ASSUME SenderInv, ready, payloadType \in 0 .. 127,
         NEW kind \in {"l16", "encoded"}, NEW s \in Seq(Slot), NEW ticks \in Nat,
         NEW sent \in SUBSET {1},
         wire' = wire \cup {Datagram(kind, s, i, sent, ticks) : i \in sent},
         Advance(sent, ticks),
         lost' = lost \/ (lost' \subseteq lost \cup Ids(pending)),
         pending' \in Seq(SlotsOf(format, written)),
         pending' # <<>> => Len(pending') = Len(pending) /\ pending # <<>>,
         error' \in {error, "SendFailed"},
         packets < MaxPackets, packets' = packets + 1,
         UNCHANGED <<config, written, dropped, restamps>>
  PROVE  SenderInv'
  <1>1. /\ TypeOK /\ PacketSizeOfFormat /\ PendingOfFormat /\ SourceOfSession /\ SettledWereWritten
    BY DEF SenderInv
  <1>2. sent \in SUBSET (1 .. 1) /\ 1 \in Nat  OBVIOUS
  <1>3. SettledWereWritten'
    <2>1. written \in Nat  BY <1>1, BoundAssumption DEF TypeOK
    <2>2. Ids(pending) \subseteq 1 .. written
      BY <1>1, <2>1, IdsOfWritten DEF PendingOfFormat
    <2> QED  BY <1>1, <2>2 DEF SettledWereWritten
  <1>4. PendingOfFormat'
    BY <1>1 DEF PendingOfFormat, config
  <1>5. TypeOK'
    <2>1. pending' \in Seq(Slot)
      <3>1. CASE pending' = <<>>  BY <3>1, EmptySeq
      <3>2. CASE pending' # <<>>
        <4>1. written \in Nat /\ written <= MaxWritten /\ samplesPerPacket \in Nat
          BY <1>1, BoundAssumption DEF TypeOK
        <4>2. pending \in Seq(Slot) /\ Len(pending) \in Nat /\ Len(pending) < samplesPerPacket
          BY <1>1, <3>2, LenProperties DEF TypeOK, PendingOfFormat
        <4>3. samplesPerPacket > 0  BY <4>1, <4>2
        <4>4. SlotsOf(format, written) \subseteq Slot
          BY <1>1, <4>1, <4>3, FormatSet, SlotsTyped
        <4> QED  BY <4>4, SeqWidens
      <3> QED  BY <3>1, <3>2
    <2>2. /\ sequenceNumber' \in 0 .. SeqMod - 1 /\ timestamp' \in 0 .. TsMod - 1
          /\ armMarker' \in BOOLEAN
      BY <1>1, <1>2, AdvanceTyped
    <2>3. wire' \subseteq Datagrams
      <3>1. \A i \in sent : i \in 1 .. 1  OBVIOUS
      <3>2. \A i \in 1 .. 1 : Datagram(kind, s, i, sent, ticks) \in Datagrams
        BY <1>2, DatagramTyped
      <3> QED  BY <1>1, <3>1, <3>2 DEF TypeOK
    <2>4. /\ lost' \subseteq 1 .. MaxWritten /\ dropped' \subseteq 1 .. MaxWritten
          /\ written' \in 0 .. MaxWritten
      <3>1. 1 .. written \subseteq 1 .. MaxWritten  BY <1>1, BoundAssumption DEF TypeOK
      <3> QED  BY <1>1, <1>3, <3>1 DEF SettledWereWritten, TypeOK
    <2>5. error' \in Errors  BY <1>1 DEF TypeOK, Errors
    <2>6. packets' \in 0 .. MaxPackets
      BY <1>1, BoundAssumption DEF TypeOK
    <2>7. /\ ready' \in BOOLEAN /\ format' \in L16Formats \cup {NoFormat}
          /\ payloadType' \in (0 .. 127) \cup {Unset} /\ isL16' \in BOOLEAN
          /\ samplesPerPacket' \in Nat
          /\ tsIncrement' \in Increments \cup {0} /\ ssrc' \in Ssrcs \cup {0}
          /\ restamps' \in 0 .. MaxRestamps
      BY <1>1 DEF TypeOK, config
    <2> QED  BY <2>1, <2>2, <2>3, <2>4, <2>5, <2>6, <2>7, Zenon DEF TypeOK
  <1>6. PacketSizeOfFormat' /\ SourceOfSession'
    BY <1>1 DEF PacketSizeOfFormat, ComputeSamplesPerPacket, SourceOfSession, config
  <1> QED  BY <1>3, <1>4, <1>5, <1>6 DEF SenderInv

LEMMA FlushKeepsInv ==
  ASSUME SenderInv, NEW ok \in BOOLEAN, Flush(ok)
  PROVE  SenderInv'
  <1> DEFINE sent == IF ok THEN {1} ELSE {}
  <1>1. /\ wire' = wire \cup {Datagram("l16", pending, i, sent, Len(pending)) : i \in sent}
        /\ lost' = IF ok THEN lost ELSE lost \cup Ids(pending)
        /\ Advance(sent, Len(pending))
        /\ error' = IF ok THEN error ELSE "SendFailed"
        /\ packets < MaxPackets /\ packets' = packets + 1 /\ pending' = <<>>
        /\ UNCHANGED <<config, written, dropped, restamps>>
    BY DEF Flush
  <1>2. sent \in SUBSET {1}  OBVIOUS
  <1> HIDE DEF sent
  <1>3. /\ pending \in Seq(Slot) /\ Len(pending) \in Nat /\ payloadType \in 0 .. 127 /\ ready
    BY FlushSends
  <1>4. pending' \in Seq(SlotsOf(format, written))  BY <1>1, EmptySeq
  <1>5. /\ lost' = lost \/ (lost' \subseteq lost \cup Ids(pending))
        /\ error' \in {error, "SendFailed"}
    BY <1>1
  <1> QED  BY <1>1, <1>2, <1>3, <1>4, <1>5, PacketKeepsInv

\* What writeEncoded() leaves of the pending slots.
LEMMA ClobberedSlots ==
  ASSUME SenderInv, NEW count \in Nat
  PROVE  /\ Clobbered(count) \in Seq(SlotsOf(format, written))
         /\ Len(Clobbered(count)) = Len(pending)
         /\ \A j \in 1 .. Len(pending) : Clobbered(count)[j] \in {pending[j], Overwritten}
  <1> DEFINE S == SlotsOf(format, written)
             c == Clobbered(count)
  <1>1. pending \in Seq(S) /\ Len(pending) \in Nat
    BY LenProperties DEF SenderInv, PendingOfFormat
  <1>2. \A j \in 1 .. Len(pending) : pending[j] \in S  BY <1>1, ElementOfSeq
  <1>3. Overwritten \in S  BY DEF SlotsOf
  <1>4. /\ c = [j \in 1 .. Len(pending) |-> c[j]]
        /\ \A j \in 1 .. Len(pending) : c[j] \in {pending[j], Overwritten}
    BY DEF Clobbered
  <1> HIDE DEF S, c
  <1>5. c \in [1 .. Len(pending) -> S]  BY <1>2, <1>3, <1>4
  <1>6. c \in Seq(S) /\ Len(c) = Len(pending)  BY <1>1, <1>5
  <1> QED  BY <1>4, <1>6 DEF S, c

LEMMA EncodedKeepsInv ==
  ASSUME SenderInv, NEW count \in EncodedSizes, NEW ok \in BOOLEAN, WriteEncoded(count, ok)
  PROVE  SenderInv'
  <1> DEFINE sent == IF ok THEN {1} ELSE {}
  <1>1. /\ ready /\ payloadType # Unset /\ packets < MaxPackets
        /\ wire' = wire \cup {Datagram("encoded", <<>>, i, sent, tsIncrement) : i \in sent}
        /\ Advance(sent, tsIncrement)
        /\ pending' = Clobbered(count)
        /\ lost' = lost \cup (Ids(pending) \ Ids(Clobbered(count)))
        /\ error' = IF ok THEN error ELSE "SendFailed"
        /\ packets' = packets + 1
        /\ UNCHANGED <<config, written, dropped, restamps>>
    BY DEF WriteEncoded
  <1>2. sent \in SUBSET {1}  OBVIOUS
  <1> HIDE DEF sent
  <1>3. tsIncrement \in Nat /\ payloadType \in 0 .. 127
    BY <1>1, ApplicationAssumption DEF SenderInv, TypeOK
  <1>4. count \in Nat  BY ApplicationAssumption
  <1>5. /\ pending' \in Seq(SlotsOf(format, written)) /\ Len(pending') = Len(pending)
    BY <1>1, <1>4, ClobberedSlots
  <1>6. <<>> \in Seq(Slot)  BY EmptySeq
  <1>7. /\ lost' \subseteq lost \cup Ids(pending) /\ error' \in {error, "SendFailed"}
    BY <1>1
  <1>8. pending' # <<>> => pending # <<>>
    <2>1. CASE pending = <<>>
      <3>1. Len(pending') = 0  BY <1>5, <2>1
      <3> QED  BY <1>5, <3>1, EmptySeq
    <2> QED  BY <2>1
  <1> QED  BY <1>1, <1>2, <1>3, <1>5, <1>6, <1>7, <1>8, PacketKeepsInv

\* The calls that build no packet.
LEMMA QuietCallKeepsInv ==
  ASSUME SenderInv, UNCHANGED <<wire, written, lost, packets>>,
         \/ UNCHANGED <<pending, dropped, ready, format, payloadType, isL16, samplesPerPacket>>
         \/ pending' = <<>> /\ dropped' = dropped \cup Ids(pending),
         ready' \in BOOLEAN, error' \in Errors,
         format' \in L16Formats \cup {NoFormat},
         payloadType' \in (0 .. 127) \cup {Unset}, isL16' \in BOOLEAN,
         samplesPerPacket' \in Nat, PacketSizeOfFormat',
         sequenceNumber' \in 0 .. SeqMod - 1, timestamp' \in 0 .. TsMod - 1,
         tsIncrement' \in Increments \cup {0}, ssrc' \in Ssrcs \cup {0},
         ready' => (ssrc' \in Ssrcs),
         armMarker' \in BOOLEAN, restamps' \in 0 .. MaxRestamps
  PROVE  SenderInv'
  <1>1. /\ TypeOK /\ PacketSizeOfFormat /\ PendingOfFormat /\ SourceOfSession /\ SettledWereWritten
    BY DEF SenderInv
  <1>2. written \in Nat  BY <1>1, BoundAssumption DEF TypeOK
  <1>3. Ids(pending) \subseteq 1 .. written
    BY <1>1, <1>2, IdsOfWritten DEF PendingOfFormat
  <1>4. SettledWereWritten'
    BY <1>1, <1>3 DEF SettledWereWritten
  <1>5. PendingOfFormat' /\ pending' \in Seq(Slot)
    <2>1. CASE pending' = <<>>
      BY <2>1, EmptySeq DEF PendingOfFormat
    <2>2. CASE UNCHANGED <<pending, dropped, ready, format, payloadType, isL16, samplesPerPacket>>
      BY <1>1, <2>2 DEF PendingOfFormat, TypeOK, SlotsOf
    <2> QED  BY <2>1, <2>2
  <1>6. /\ lost' \subseteq 1 .. MaxWritten /\ dropped' \subseteq 1 .. MaxWritten
        /\ written' \in 0 .. MaxWritten /\ wire' \subseteq Datagrams /\ packets' \in 0 .. MaxPackets
    <2>1. 1 .. written \subseteq 1 .. MaxWritten  BY <1>1, BoundAssumption DEF TypeOK
    <2> QED  BY <1>1, <1>4, <2>1 DEF SettledWereWritten, TypeOK
  <1>7. TypeOK'
    BY <1>5, <1>6, Zenon DEF TypeOK
  <1> QED  BY <1>4, <1>5, <1>7 DEF SenderInv, SourceOfSession

\* The initial numbering is in range.
LEMMA ZeroInRange == 0 \in 0 .. SeqMod - 1 /\ 0 \in 0 .. TsMod - 1 /\ 0 \in 0 .. MaxRestamps
  BY LimitAssumption, BoundAssumption

LEMMA InitInv == Init => SenderInv
  <1> SUFFICES ASSUME Init PROVE SenderInv
    OBVIOUS
  <1>1. pending \in Seq(Slot) /\ pending \in Seq(SlotsOf(format, written)) /\ pending = <<>>
    BY EmptySeq DEF Init
  <1>2. /\ ready = FALSE /\ error = "NotReady" /\ format = NoFormat
        /\ payloadType = Unset /\ isL16 = FALSE /\ samplesPerPacket = 0
        /\ sequenceNumber = 0 /\ timestamp = 0 /\ tsIncrement = 0 /\ ssrc = 0
        /\ armMarker = FALSE
        /\ wire = {} /\ written = 0 /\ lost = {} /\ dropped = {}
        /\ packets = 0 /\ restamps = 0
    BY DEF Init
  <1>3. TypeOK
    <2>1. 0 \in 0 .. MaxWritten /\ 0 \in 0 .. MaxPackets  BY BoundAssumption
    <2> QED  BY <1>1, <1>2, <2>1, ZeroInRange DEF TypeOK, Errors
  <1>4. PacketSizeOfFormat /\ PendingOfFormat /\ SourceOfSession /\ SettledWereWritten
    BY <1>1, <1>2 DEF PacketSizeOfFormat, PendingOfFormat, SourceOfSession, SettledWereWritten
  <1> QED  BY <1>3, <1>4 DEF SenderInv

\* What setFormat() leaves fits the new format.
LEMMA SetFormatFits ==
  ASSUME NEW f \in Formats, SetFormat(f)
  PROVE  /\ format' \in L16Formats /\ payloadType' \in 0 .. 127
         /\ samplesPerPacket' \in Nat /\ PacketSizeOfFormat'
  <1>1. f \in L16Formats  BY DEF SetFormat, L16Formats
  <1>2. ComputeSamplesPerPacket(f.rate, f.channels) \in Nat  BY <1>1, PacketSizeFits
  <1>3. /\ payloadType' \in {L16Mono, L16Stereo} /\ isL16' = TRUE /\ format' = f
        /\ samplesPerPacket' = ComputeSamplesPerPacket(f.rate, f.channels)
    BY DEF SetFormat
  <1>4. PacketSizeOfFormat'
    BY <1>1, <1>3 DEF PacketSizeOfFormat, ComputeSamplesPerPacket
  <1> QED  BY <1>1, <1>2, <1>3, <1>4 DEF L16Mono, L16Stereo

\* Every call keeps the invariant.
LEMMA StepKeepsInv ==
  ASSUME SenderInv, [Next]_vars
  PROVE  SenderInv'
  <1>1. TypeOK /\ PacketSizeOfFormat /\ SourceOfSession  BY DEF SenderInv
  <1>2. /\ ready \in BOOLEAN /\ error \in Errors /\ format \in L16Formats \cup {NoFormat}
        /\ payloadType \in (0 .. 127) \cup {Unset} /\ isL16 \in BOOLEAN
        /\ samplesPerPacket \in Nat
        /\ sequenceNumber \in 0 .. SeqMod - 1 /\ timestamp \in 0 .. TsMod - 1
        /\ tsIncrement \in Increments \cup {0} /\ ssrc \in Ssrcs \cup {0}
        /\ armMarker \in BOOLEAN /\ restamps \in 0 .. MaxRestamps
    BY <1>1, Zenon DEF TypeOK
  <1>3. ready => ssrc \in Ssrcs  BY <1>1 DEF SourceOfSession
  <1>4. UNCHANGED <<format, payloadType, isL16, samplesPerPacket>> => PacketSizeOfFormat'
    BY <1>1 DEF PacketSizeOfFormat, ComputeSamplesPerPacket
  <1>5. restamps < MaxRestamps => restamps + 1 \in 0 .. MaxRestamps
    BY <1>2, BoundAssumption
  <1>6. Starts \subseteq 0 .. SeqMod - 1 /\ Starts \subseteq 0 .. TsMod - 1
    BY LimitAssumption
  <1>7. ASSUME NEW port \in {0, 1}, NEW source \in Ssrcs, NEW seq \in Starts, NEW ts \in Starts,
               Begin(port, source, seq, ts)
        PROVE  SenderInv'
    BY <1>2, <1>3, <1>4, <1>5, <1>6, <1>7, QuietCallKeepsInv DEF Begin, DropPending, Errors
  <1>8. CASE End
    BY <1>2, <1>3, <1>4, <1>8, QuietCallKeepsInv DEF End, DropPending, numbering, Errors
  <1>9. ASSUME NEW pt, NEW clockRate, SetPayloadTypeRejected(pt, clockRate)
        PROVE  SenderInv'
    BY <1>2, <1>3, <1>4, <1>9, QuietCallKeepsInv
       DEF SetPayloadTypeRejected, config, numbering, history, Errors
  <1>10. ASSUME NEW pt \in CodecTypes, SetPayloadType(pt, 8000)
         PROVE  SenderInv'
    <2>1. /\ payloadType' = pt /\ isL16' = (pt \in {L16Mono, L16Stereo})
          /\ samplesPerPacket' = IF pt \in {L16Mono, L16Stereo} THEN samplesPerPacket ELSE 0
          /\ format' = format
      BY <1>10 DEF SetPayloadType
    <2>2. pt \in 0 .. 127  BY ApplicationAssumption
    <2>3. PacketSizeOfFormat'
      BY <1>1, <2>1 DEF PacketSizeOfFormat, ComputeSamplesPerPacket
    <2>4. isL16' \in BOOLEAN /\ samplesPerPacket' \in Nat  BY <1>2, <2>1
    <2> QED
      BY <1>2, <1>3, <1>10, <2>1, <2>2, <2>3, <2>4, QuietCallKeepsInv
         DEF SetPayloadType, DropPending, numbering
  <1>11. ASSUME NEW f \in Formats, SetFormatRejected(f)
         PROVE  SenderInv'
    BY <1>2, <1>3, <1>4, <1>11, QuietCallKeepsInv
       DEF SetFormatRejected, config, numbering, history, Errors
  <1>12. ASSUME NEW f \in Formats, SetFormat(f)
         PROVE  SenderInv'
    <2>1. /\ format' \in L16Formats /\ payloadType' \in 0 .. 127
          /\ samplesPerPacket' \in Nat /\ PacketSizeOfFormat'
      BY <1>12, SetFormatFits
    <2> QED
      BY <1>2, <1>3, <1>12, <2>1, QuietCallKeepsInv DEF SetFormat, DropPending, numbering
  <1>13. ASSUME NEW inc \in Increments, SetTimestampIncrement(inc)
         PROVE  SenderInv'
    BY <1>2, <1>3, <1>4, <1>13, QuietCallKeepsInv
       DEF SetTimestampIncrement, numbering, history
  <1>14. ASSUME NEW source \in Ssrcs, SetSsrc(source)
         PROVE  SenderInv'
    BY <1>2, <1>3, <1>4, <1>14, QuietCallKeepsInv DEF SetSsrc, numbering, history
  <1>15. ASSUME NEW m \in BOOLEAN, SetMarker(m)
         PROVE  SenderInv'
    BY <1>2, <1>3, <1>4, <1>15, QuietCallKeepsInv DEF SetMarker, config, history
  <1>16. ASSUME NEW seq \in Starts, SetSequenceNumber(seq)
         PROVE  SenderInv'
    BY <1>2, <1>3, <1>4, <1>5, <1>6, <1>16, QuietCallKeepsInv DEF SetSequenceNumber, config
  <1>17. ASSUME NEW ts \in Starts, SetTimestamp(ts)
         PROVE  SenderInv'
    BY <1>2, <1>3, <1>4, <1>5, <1>6, <1>17, QuietCallKeepsInv DEF SetTimestamp, config
  <1>18. CASE WriteRefused
    BY <1>2, <1>3, <1>4, <1>18, QuietCallKeepsInv
       DEF WriteRefused, config, numbering, history, Errors
  <1>19. ASSUME NEW n \in WriteSizes, WriteFrames(n)
         PROVE  SenderInv'
    BY <1>19, WriteKeepsInv
  <1>20. CASE FlushRefused
    BY <1>2, <1>3, <1>4, <1>20, QuietCallKeepsInv
       DEF FlushRefused, config, numbering, history, Errors
  <1>21. ASSUME NEW ok \in BOOLEAN, Flush(ok)
         PROVE  SenderInv'
    BY <1>21, FlushKeepsInv
  <1>22. ASSUME NEW count, EncodedRefused(count)
         PROVE  SenderInv'
    BY <1>2, <1>3, <1>4, <1>22, QuietCallKeepsInv
       DEF EncodedRefused, config, numbering, history, Errors
  <1>23. ASSUME NEW count \in EncodedSizes, NEW ok \in BOOLEAN, WriteEncoded(count, ok)
         PROVE  SenderInv'
    BY <1>23, EncodedKeepsInv
  <1>24. CASE UNCHANGED vars
    BY <1>2, <1>3, <1>4, <1>24, QuietCallKeepsInv DEF vars, config, numbering, history
  <1> QED
    BY <1>7, <1>8, <1>9, <1>10, <1>11, <1>12, <1>13, <1>14, <1>15, <1>16, <1>17, <1>18,
       <1>19, <1>20, <1>21, <1>22, <1>23, <1>24 DEF Next

LEMMA SenderInvHolds == Spec => []SenderInv
  BY InitInv, StepKeepsInv, PTL DEF Spec

-----------------------------------------------------------------------------
\* The frames that have left the scratch buffer.
Settled == written - Len(pending)

\* The slots of g hold the frames behind the first `from`, in order, but for
\* those that writeEncoded() wrote over.
Numbered(g, from) == \A j \in 1 .. Len(g) : g[j].id \in {0, from + j}

\* The inductive invariant for the frames: what is pending is the newest.
BookInv ==
  /\ Len(pending) <= written
  /\ Numbered(pending, Settled)
  /\ EveryFrameOnce

\* A cut piece of numbered slots holds the frames of its place.
LEMMA IdsOfCut ==
  ASSUME NEW S, NEW g \in Seq(S), NEW s \in Seq(S), NEW from \in Nat, NEW x \in Nat,
         Numbered(g, from), CutAt(s, g, x), x + Len(s) <= Len(g)
  PROVE  /\ Ids(s) = Ids(g) \cap ((from + x) + 1 .. (from + x) + Len(s))
         /\ Numbered(s, from + x)
  <1>1. Len(s) \in Nat /\ Len(g) \in Nat  BY LenProperties
  <1>2. ASSUME NEW j \in 1 .. Len(s)
        PROVE  x + j \in 1 .. Len(g) /\ from + (x + j) = (from + x) + j /\ s[j] = g[x + j]
    BY <1>1 DEF CutAt
  <1>3. \A j \in 1 .. Len(g) : g[j].id \in {0, from + j}  BY DEF Numbered
  <1>4. Numbered(s, from + x)
    BY <1>2, <1>3 DEF Numbered
  <1>5. ASSUME NEW y \in Ids(s)
        PROVE  y \in Ids(g) /\ y \in (from + x) + 1 .. (from + x) + Len(s)
    <2>1. PICK j \in 1 .. Len(s) : y = s[j].id /\ y # 0  BY DEF Ids
    <2>2. y = (from + x) + j  BY <1>4, <2>1 DEF Numbered
    <2>3. y \in Ids(g)  BY <1>2, <2>1 DEF Ids
    <2> QED  BY <1>1, <2>2, <2>3
  <1>6. ASSUME NEW y \in Ids(g), y \in (from + x) + 1 .. (from + x) + Len(s)
        PROVE  y \in Ids(s)
    <2>1. PICK j \in 1 .. Len(g) : y = g[j].id /\ y # 0  BY DEF Ids
    <2>2. y = from + j  BY <1>3, <2>1
    <2>3. j - x \in 1 .. Len(s) /\ x + (j - x) = j  BY <1>1, <1>6, <2>2
    <2>4. s[j - x] = g[j]  BY <1>2, <2>3
    <2> QED  BY <2>1, <2>3, <2>4 DEF Ids
  <1> QED  BY <1>4, <1>5, <1>6

\* The frames of T went into the packets F of sent, were lost or stayed, each once.
SharedOut(T, F, sent, L, K) ==
  /\ \A x : x \in T <=> x \in L \/ x \in K \/ \E i \in sent : x \in Ids(F[i])
  /\ L \cap K = {}
  /\ \A i \in sent : Ids(F[i]) \cap L = {} /\ Ids(F[i]) \cap K = {}
  /\ \A i, j \in sent : i # j => Ids(F[i]) \cap Ids(F[j]) = {}

\* What the packets F of sent are on the wire.
PacketsOf(kind, F, sent, ticks) == {Datagram(kind, F[i], i, sent, ticks) : i \in sent}

\* A call that shares the pending and the new frames out balances the books.
LEMMA SharingBalances ==
  ASSUME EveryFrameOnce, written \in Nat, written' \in Nat, written <= written',
         NEW sent, NEW F, NEW kind, NEW ticks, NEW L, NEW K,
         wire' = wire \cup PacketsOf(kind, F, sent, ticks),
         lost' = lost \cup L, dropped' = dropped, Ids(pending)' = K,
         SharedOut(Ids(pending) \cup (written + 1 .. written'), F, sent, L, K)
  PROVE  EveryFrameOnce'
  <1> DEFINE P == Ids(pending)
             N == written + 1 .. written'
             D(i) == Datagram(kind, F[i], i, sent, ticks)
  <1>1. /\ 1 .. written = OnWire \cup lost \cup dropped \cup P
        /\ OnWire \cap (lost \cup dropped \cup P) = {}
        /\ lost \cap (dropped \cup P) = {}
        /\ dropped \cap P = {}
        /\ \A d, e \in wire : d # e => Ids(d.slots) \cap Ids(e.slots) = {}
    BY DEF EveryFrameOnce
  <1>2. 1 .. written' = (1 .. written) \cup N /\ (1 .. written) \cap N = {}
    OBVIOUS
  <1>3. /\ \A x : x \in OnWire <=> \E d \in wire : x \in Ids(d.slots)
        /\ \A x : x \in OnWire' <=> \E d \in wire' : x \in Ids(d.slots)
    BY DEF OnWire, Ids
  <1>4. \A i \in sent : D(i).slots = F[i]  BY DEF Datagram
  <1>5. \A d \in wire' : d \in wire \/ \E i \in sent : d = D(i)  BY DEF PacketsOf
  <1>6. \A i \in sent : D(i) \in wire'  BY DEF PacketsOf
  <1> HIDE DEF P, N, D
  <1>7. \A x : x \in OnWire' <=> x \in OnWire \/ \E i \in sent : x \in Ids(F[i])
    BY <1>3, <1>4, <1>5, <1>6
  \* What is shared out was in no other place.
  <1>8. \A x : x \in P \/ x \in N <=> x \in L \/ x \in K \/ \E i \in sent : x \in Ids(F[i])
    BY DEF SharedOut, P, N
  <1>9. \A x : x \in P \/ x \in N => x \notin OnWire /\ x \notin lost /\ x \notin dropped
    BY <1>1, <1>2
  <1>10. /\ \A x : ~ (x \in L /\ x \in K)
         /\ \A i \in sent : \A x \in Ids(F[i]) : x \notin L /\ x \notin K
         /\ \A i, j \in sent : \A x : x \in Ids(F[i]) /\ x \in Ids(F[j]) => i = j
    BY DEF SharedOut
  <1>11. 1 .. written' = OnWire' \cup lost' \cup dropped' \cup Ids(pending)'
    BY <1>1, <1>2, <1>7, <1>8
  <1>12. OnWire' \cap (lost' \cup dropped' \cup Ids(pending)') = {}
    BY <1>1, <1>7, <1>8, <1>9, <1>10
  <1>13. lost' \cap (dropped' \cup Ids(pending)') = {}
    BY <1>1, <1>8, <1>9, <1>10
  <1>14. dropped' \cap Ids(pending)' = {}
    BY <1>8, <1>9
  <1>15. ASSUME NEW d \in wire', NEW e \in wire', d # e, NEW x, x \in Ids(d.slots), x \in Ids(e.slots)
         PROVE  FALSE
    <2>1. CASE d \in wire /\ e \in wire  BY <1>1, <1>15, <2>1
    <2>2. ASSUME d \in wire, NEW i \in sent, e = D(i)  PROVE FALSE
      BY <1>3, <1>4, <1>8, <1>9, <1>15, <2>2
    <2>3. ASSUME e \in wire, NEW i \in sent, d = D(i)  PROVE FALSE
      BY <1>3, <1>4, <1>8, <1>9, <1>15, <2>3
    <2>4. ASSUME NEW i \in sent, d = D(i), NEW j \in sent, e = D(j)  PROVE FALSE
      BY <1>4, <1>10, <1>15, <2>4
    <2> QED  BY <1>5, <1>15, <2>1, <2>2, <2>3, <2>4
  <1>16. \A d, e \in wire' : d # e => Ids(d.slots) \cap Ids(e.slots) = {}
    BY <1>15
  <1> QED  BY <1>11, <1>12, <1>13, <1>14, <1>16 DEF EveryFrameOnce, Ids

\* What is pending, and what a call gathers behind it, as frames that are left.
LEMMA PendingFacts ==
  ASSUME SenderInv, BookInv
  PROVE  /\ written \in Nat /\ Len(pending) \in Nat /\ pending \in Seq(Slot)
         /\ Settled \in Nat /\ Settled + Len(pending) = written
         /\ Ids(pending) \subseteq Settled + 1 .. written
  <1>1. written \in Nat /\ pending \in Seq(Slot)
    BY BoundAssumption DEF SenderInv, TypeOK
  <1>2. Len(pending) \in Nat /\ Len(pending) <= written
    BY <1>1, LenProperties DEF BookInv
  <1>3. Settled \in Nat /\ Settled + Len(pending) = written
    BY <1>1, <1>2 DEF Settled
  <1>4. ASSUME NEW y \in Ids(pending) PROVE y \in Settled + 1 .. written
    <2>1. PICK j \in 1 .. Len(pending) : y = pending[j].id /\ y # 0  BY DEF Ids
    <2>2. y = Settled + j  BY <2>1 DEF BookInv, Numbered
    <2> QED  BY <1>1, <1>2, <1>3, <2>2
  <1> QED  BY <1>1, <1>2, <1>3, <1>4

LEMMA GatheredIds ==
  ASSUME SenderInv, BookInv, NEW n \in WriteSizes
  PROVE  /\ n \in Nat \ {0}
         /\ Gathered(n) \in Seq(SlotsOf(format, written + n))
         /\ Len(Gathered(n)) = Len(pending) + n
         /\ Numbered(Gathered(n), Settled)
         /\ Ids(Gathered(n)) = Ids(pending) \cup (written + 1 .. written + n)
  <1> DEFINE g == Gathered(n)
             l == Len(pending)
  <1>1. /\ written \in Nat /\ l \in Nat /\ Settled \in Nat /\ Settled + l = written
    BY PendingFacts
  <1>2. n \in Nat \ {0}  BY ApplicationAssumption
  <1>3. /\ g \in Seq(SlotsOf(format, written + n)) /\ Len(g) = l + n
        /\ \A j \in 1 .. l + n :
             g[j] = IF j <= l THEN pending[j]
                    ELSE [id |-> written + (j - l), channels |-> format.channels]
    BY GatheredOfFormat DEF SenderInv
  <1>4. \A j \in 1 .. l : pending[j].id \in {0, Settled + j}
    BY DEF BookInv, Numbered
  <1>5. Ids(pending) = {pending[j].id : j \in 1 .. l} \ {0}
        /\ Ids(g) = {g[j].id : j \in 1 .. l + n} \ {0}
    BY <1>3 DEF Ids
  <1> HIDE DEF g, l
  <1>6. \A j \in 1 .. l : j \in 1 .. l + n /\ g[j] = pending[j]
    BY <1>1, <1>2, <1>3
  <1>7. \A j \in 1 .. l + n : j \in 1 .. l \/ (j - l \in 1 .. n /\ g[j].id = written + (j - l))
    BY <1>1, <1>2, <1>3
  <1>8. \A i \in 1 .. n : l + i \in 1 .. l + n /\ g[l + i].id = written + i
    <2> SUFFICES ASSUME NEW i \in 1 .. n PROVE l + i \in 1 .. l + n /\ g[l + i].id = written + i
      OBVIOUS
    <2>1. l + i \in 1 .. l + n /\ ~ (l + i <= l) /\ (l + i) - l = i  BY <1>1, <1>2
    <2> QED  BY <1>3, <2>1
  <1>9. Numbered(g, Settled)
    <2> SUFFICES ASSUME NEW j \in 1 .. l + n PROVE g[j].id \in {0, Settled + j}
      BY <1>3 DEF Numbered
    <2>1. CASE j \in 1 .. l  BY <1>4, <1>6, <2>1
    <2>2. CASE j - l \in 1 .. n /\ g[j].id = written + (j - l)
      BY <1>1, <1>2, <2>2
    <2> QED  BY <1>7, <2>1, <2>2
  <1>10. Ids(g) = Ids(pending) \cup (written + 1 .. written + n)
    <2>1. ASSUME NEW y \in Ids(g) PROVE y \in Ids(pending) \/ y \in written + 1 .. written + n
      <3>1. PICK j \in 1 .. l + n : y = g[j].id /\ y # 0  BY <1>5
      <3>2. CASE j \in 1 .. l  BY <1>5, <1>6, <3>1, <3>2
      <3>3. CASE j - l \in 1 .. n /\ g[j].id = written + (j - l)
        BY <1>1, <1>2, <3>1, <3>3
      <3> QED  BY <1>7, <3>2, <3>3
    <2>2. ASSUME NEW y \in Ids(pending) PROVE y \in Ids(g)
      <3>1. PICK j \in 1 .. l : y = pending[j].id /\ y # 0  BY <1>5
      <3>2. y = g[j].id /\ j \in 1 .. l + n  BY <1>6, <3>1
      <3> QED  BY <1>5, <3>1, <3>2
    <2>3. ASSUME NEW y \in written + 1 .. written + n PROVE y \in Ids(g)
      <3>1. y - written \in 1 .. n /\ written + (y - written) = y /\ y # 0  BY <1>1, <1>2
      <3>2. l + (y - written) \in 1 .. l + n /\ g[l + (y - written)].id = y  BY <1>8, <3>1
      <3> QED  BY <1>5, <3>1, <3>2
    <2> QED  BY <2>1, <2>2, <2>3
  <1> QED  BY <1>2, <1>3, <1>9, <1>10 DEF g, l

\* The packets F are cut in a row out of g, and r is what is left.
CutInRows(F, r, g, k, b) ==
  /\ \A i \in 1 .. k : Ids(F[i]) = Ids(g) \cap Row(Settled, b, i)
  /\ Ids(r) = Ids(g) \cap ((Settled + k * b) + 1 .. Settled + Len(g))

\* What the packets that fail hold.
LostOf(F, k, sent) == UNION {Ids(F[i]) : i \in (1 .. k) \ sent}

\* Packets in a row share out what is gathered.
LEMMA RowsShareOut ==
  ASSUME NEW F, NEW r, NEW g, NEW k \in Nat, NEW b \in Nat \ {0}, NEW sent \in SUBSET (1 .. k),
         Settled \in Nat, Len(g) \in Nat,
         Ids(g) \subseteq Settled + 1 .. Settled + Len(g),
         CutInRows(F, r, g, k, b)
  PROVE  SharedOut(Ids(g), F, sent, LostOf(F, k, sent), Ids(r))
  <1> DEFINE L == LostOf(F, k, sent)
             e == Settled + Len(g)
             m == Settled + k * b
  <1>1. k * b \in Nat  BY SMTT(30)
  <1>2. /\ RowsCover(Settled, b, k) /\ RowsWithin(Settled, b, k) /\ RowsAscend(Settled, b, k)
    BY RowsPartition
  <1>3. /\ \A i \in 1 .. k : Ids(F[i]) = Ids(g) \cap Row(Settled, b, i)
        /\ Ids(r) = Ids(g) \cap (m + 1 .. e)
    BY DEF CutInRows
  <1>4. \A x \in Ids(g) : x \in Settled + 1 .. e  OBVIOUS
  <1>5. m \in Nat /\ Settled <= m /\ e \in Nat
    <2> DEFINE p == k * b
    <2>1. p \in Nat  BY <1>1
    <2> HIDE DEF p
    <2>2. Settled + p \in Nat /\ Settled <= Settled + p  BY <2>1
    <2> QED  BY <2>2 DEF p
  <1>6. /\ \A x \in Settled + 1 .. m : \E i \in 1 .. k : x \in Row(Settled, b, i)
        /\ \A i \in 1 .. k : \A x \in Row(Settled, b, i) : x \in Settled + 1 .. m
        /\ \A i, j \in 1 .. k : i < j =>
             \A x \in Row(Settled, b, i), y \in Row(Settled, b, j) : x < y
    BY <1>2 DEF RowsCover, RowsWithin, RowsAscend
  <1> HIDE DEF L, m, e
  <1>7. ASSUME NEW i \in 1 .. k, NEW j \in 1 .. k, NEW x \in Ids(F[i]), x \in Ids(F[j])
        PROVE  i = j
    <2>1. x \in Row(Settled, b, i) /\ x \in Row(Settled, b, j)  BY <1>3, <1>7
    <2>2. x \in Int  BY <1>5, <1>6, <2>1
    <2>3. ~ (i < j) /\ ~ (j < i)
      <3>1. ~ (x < x)  BY <2>2
      <3> QED  BY <1>6, <2>1, <3>1
    <2> QED  BY <2>3
  <1>8. ASSUME NEW i \in 1 .. k, NEW x \in Ids(F[i]) PROVE x \notin Ids(r) /\ x \in Ids(g)
    <2>1. x \in Settled + 1 .. m /\ x \in Ids(g)  BY <1>3, <1>6
    <2>2. x \notin m + 1 .. e  BY <1>5, <2>1
    <2> QED  BY <1>3, <2>1, <2>2
  <1>9. ASSUME NEW x \in Ids(g) PROVE x \in Ids(r) \/ \E i \in 1 .. k : x \in Ids(F[i])
    <2>1. x \in Settled + 1 .. e  BY <1>4
    <2>2. x \in Settled + 1 .. m \/ x \in m + 1 .. e  BY <1>5, <2>1
    <2> QED  BY <1>3, <1>6, <2>2
  <1>10. \A x : x \in L <=> \E i \in (1 .. k) \ sent : x \in Ids(F[i])
    BY DEF L, LostOf
  <1>11. \A i \in sent : i \in 1 .. k  OBVIOUS
  <1>12. \A x : x \in Ids(g) <=> x \in L \/ x \in Ids(r) \/ \E i \in sent : x \in Ids(F[i])
    BY <1>3, <1>8, <1>9, <1>10, <1>11
  <1>13. \A x \in L : x \notin Ids(r)  BY <1>8, <1>10
  <1>14. ASSUME NEW i \in sent, NEW x \in Ids(F[i]) PROVE x \notin L /\ x \notin Ids(r)
    BY <1>7, <1>8, <1>10, <1>11
  <1>15. ASSUME NEW i \in sent, NEW j \in sent, NEW x \in Ids(F[i]), x \in Ids(F[j]) PROVE i = j
    BY <1>7, <1>11, <1>15
  <1>16. SharedOut(Ids(g), F, sent, L, Ids(r))
    BY <1>12, <1>13, <1>14, <1>15 DEF SharedOut
  <1> QED  BY <1>16 DEF L

\* The packets and the remainder of writeFrames() are cut in a row.
LEMMA WriteCuts ==
  ASSUME SenderInv, BookInv, NEW n \in WriteSizes, samplesPerPacket > 0, NEW F,
         F = [i \in 1 .. FullPackets(n) |-> PacketSlots(n, i)]
  PROVE  /\ CutInRows(F, Remainder(n), Gathered(n), FullPackets(n), samplesPerPacket)
         /\ FullPackets(n) \in Nat
         /\ Numbered(Remainder(n), Settled + FullPackets(n) * samplesPerPacket)
         /\ Len(Remainder(n)) \in Nat
         /\ FullPackets(n) * samplesPerPacket \in Nat
         /\ Len(Remainder(n)) + FullPackets(n) * samplesPerPacket = Len(Gathered(n))
  <1> DEFINE g == Gathered(n)
             b == samplesPerPacket
             k == FullPackets(n)
             r == Remainder(n)
             T == SlotsOf(format, written + n)
  <1>1. b \in Nat \ {0}  BY FormatSet DEF SenderInv
  <1>2. g \in Seq(T) /\ Numbered(g, Settled)  BY GatheredIds
  <1>3. Settled \in Nat  BY PendingFacts
  <1>4. k = Len(g) \div b  BY DEF FullPackets
  <1>5. Len(g) \in Nat  BY <1>2, LenProperties
  <1>6. k \in Nat /\ b * k <= Len(g)  BY <1>1, <1>4, <1>5, DivBounds
  <1>7. k * b = b * k /\ k * b \in Nat  BY <1>1, <1>6, SMTT(30)
  <1>8. \A i \in 1 .. k : F[i] = SubSeq(g, (i - 1) * b + 1, i * b)
    BY DEF PacketSlots
  <1>9. r = SubSeq(g, (Len(g) \div b) * b + 1, Len(g))
    BY DEF Remainder, FullPackets
  <1> HIDE DEF g, b, k, r, T
  <1>10. r \in Seq(T) /\ Len(r) \in Nat /\ Len(r) + k * b = Len(g) /\ CutAt(r, g, k * b)
    BY <1>1, <1>2, <1>4, <1>9, RestCut
  <1>11. ASSUME NEW i \in 1 .. k PROVE Ids(F[i]) = Ids(g) \cap Row(Settled, b, i)
    <2> DEFINE x == (i - 1) * b
    <2>1. i \in 1 .. Len(g) \div b  BY <1>4
    <2>2. F[i] \in Seq(T) /\ Len(F[i]) = b /\ CutAt(F[i], g, (i - 1) * b)
      <3>1. /\ SubSeq(g, (i - 1) * b + 1, i * b) \in Seq(T)
            /\ Len(SubSeq(g, (i - 1) * b + 1, i * b)) = b
            /\ CutAt(SubSeq(g, (i - 1) * b + 1, i * b), g, (i - 1) * b)
        BY <1>1, <1>2, <2>1, PacketCut
      <3> QED  BY <1>8, <3>1, Zenon
    <2>3. x \in Nat /\ i * b = x + b /\ i * b <= k * b /\ i * b \in Nat  BY <1>1, <1>6, RowsFit
    <2>4. Row(Settled, b, i) = (Settled + x) + 1 .. Settled + i * b  BY DEF Row
    <2> HIDE DEF x
    <2>5. x + Len(F[i]) <= Len(g)  BY <1>1, <1>5, <1>6, <1>7, <2>2, <2>3
    <2>6. F[i] \in Seq(T) /\ CutAt(F[i], g, x) /\ x \in Nat  BY <2>2, <2>3 DEF x
    <2>7. Ids(F[i]) = Ids(g) \cap ((Settled + x) + 1 .. (Settled + x) + Len(F[i]))
      <3>1. PICK y : y = F[i]  OBVIOUS
      <3>2. y \in Seq(T) /\ CutAt(y, g, x) /\ x \in Nat /\ x + Len(y) <= Len(g)
        BY <2>5, <2>6, <3>1
      <3>3. Ids(y) = Ids(g) \cap ((Settled + x) + 1 .. (Settled + x) + Len(y))
        BY <1>2, <1>3, <3>2, IdsOfCut
      <3> QED  BY <3>1, <3>3
    <2>8. (Settled + x) + b = Settled + i * b  BY <1>1, <1>3, <2>3
    <2> QED  BY <2>2, <2>4, <2>7, <2>8
  <1>12. /\ Ids(r) = Ids(g) \cap ((Settled + k * b) + 1 .. Settled + Len(g))
         /\ Numbered(r, Settled + k * b)
    <2> DEFINE x == k * b
    <2>1. x \in Nat /\ Len(r) + x = Len(g) /\ CutAt(r, g, x)  BY <1>7, <1>10
    <2> HIDE DEF x
    <2>2. x + Len(r) <= Len(g)  BY <1>5, <1>10, <2>1
    <2>3. /\ Ids(r) = Ids(g) \cap ((Settled + x) + 1 .. (Settled + x) + Len(r))
          /\ Numbered(r, Settled + x)
      BY <1>2, <1>3, <1>10, <2>1, <2>2, IdsOfCut
    <2>4. (Settled + x) + Len(r) = Settled + Len(g)  BY <1>3, <1>5, <1>10, <2>1
    <2> QED  BY <2>3, <2>4 DEF x
  <1> QED  BY <1>6, <1>7, <1>10, <1>11, <1>12 DEF CutInRows, g, b, k, r

\* writeFrames(): its packets take the oldest, the rest stays pending.
LEMMA WriteKeepsBook ==
  ASSUME SenderInv, BookInv, NEW n \in WriteSizes, WriteFrames(n)
  PROVE  BookInv'
  <1> DEFINE g == Gathered(n)
             b == samplesPerPacket
             k == FullPackets(n)
             r == Remainder(n)
  <1>1. PICK sent \in SUBSET (1 .. k) : Emit(n, sent)  BY DEF WriteFrames
  <1>2. /\ b > 0 /\ pending' = r /\ written' = written + n /\ dropped' = dropped
    BY DEF WriteFrames
  <1>3. PICK F : F = [i \in 1 .. k |-> PacketSlots(n, i)]  OBVIOUS
  <1>4. /\ CutInRows(F, r, g, k, b) /\ k \in Nat /\ Numbered(r, Settled + k * b)
        /\ Len(r) \in Nat /\ k * b \in Nat /\ Len(r) + k * b = Len(g)
    BY <1>2, <1>3, WriteCuts
  <1>5. /\ n \in Nat \ {0} /\ Len(g) = Len(pending) + n
        /\ Ids(g) = Ids(pending) \cup (written + 1 .. written + n)
    BY GatheredIds
  <1>6. /\ written \in Nat /\ Len(pending) \in Nat
        /\ Settled \in Nat /\ Settled + Len(pending) = written
        /\ Ids(pending) \subseteq Settled + 1 .. written
    BY PendingFacts
  <1>7. b \in Nat \ {0}  BY <1>2, FormatSet DEF SenderInv
  <1>8. wire' = wire \cup {Datagram("l16", PacketSlots(n, i), i, sent, b) : i \in sent}
        /\ lost' = lost \cup UNION {Ids(PacketSlots(n, i)) : i \in (1 .. k) \ sent}
    BY <1>1 DEF Emit
  <1> DEFINE L == LostOf(F, k, sent)
             x == k * b
  <1> HIDE DEF g, b, k, r
  <1>9. wire' = wire \cup PacketsOf("l16", F, sent, b) /\ lost' = lost \cup L
    <2>1. \A i \in 1 .. k : F[i] = PacketSlots(n, i)  BY <1>3
    <2>2. PacketsOf("l16", F, sent, b)
            = {Datagram("l16", PacketSlots(n, i), i, sent, b) : i \in sent}
      BY <1>1, <2>1 DEF PacketsOf
    <2>3. L = UNION {Ids(PacketSlots(n, i)) : i \in (1 .. k) \ sent}
      BY <2>1 DEF LostOf
    <2> QED  BY <1>8, <2>2, <2>3
  <1>10. Settled + Len(g) = written + n  BY <1>5, <1>6
  <1>11. Ids(g) \subseteq Settled + 1 .. Settled + Len(g)  BY <1>5, <1>6, <1>10
  <1>12. Len(g) \in Nat  BY <1>5, <1>6
  <1>13. SharedOut(Ids(g), F, sent, L, Ids(r))
    <2>1. k \in Nat /\ CutInRows(F, r, g, k, b)  BY <1>4
    <2> QED  BY <1>1, <1>6, <1>7, <1>11, <1>12, <2>1, RowsShareOut
  <1> HIDE DEF L, x
  <1>14. Ids(pending)' = Ids(r)  BY <1>2 DEF Ids
  <1>15. written' \in Nat /\ written <= written'  BY <1>2, <1>5, <1>6
  <1>16. EveryFrameOnce  BY DEF BookInv
  <1>17. SharedOut(Ids(pending) \cup (written + 1 .. written'), F, sent, L, Ids(r))
    BY <1>2, <1>5, <1>13
  <1>18. EveryFrameOnce'
    BY <1>2, <1>6, <1>9, <1>14, <1>15, <1>16, <1>17, SharingBalances
  <1>19. x \in Nat /\ Len(r) + x = Len(g) /\ Numbered(r, Settled + x)  BY <1>4 DEF x
  <1>20. Len(r) <= written + n /\ (written + n) - Len(r) = Settled + x
    BY <1>4, <1>5, <1>6, <1>19, SMTT(30)
  <1>21. Settled' = Settled + x  BY <1>2, <1>20 DEF Settled
  <1>22. Numbered(pending, Settled)'
    BY <1>2, <1>19, <1>21 DEF Numbered
  <1> QED  BY <1>2, <1>18, <1>20, <1>22 DEF BookInv

\* flush(): the pending frames go out or are lost.
LEMMA FlushKeepsBook ==
  ASSUME SenderInv, BookInv, NEW ok \in BOOLEAN, Flush(ok)
  PROVE  BookInv'
  <1> DEFINE sent == IF ok THEN {1} ELSE {}
             L == IF ok THEN {} ELSE Ids(pending)
             F == <<pending>>
  <1>1. /\ wire' = wire \cup {Datagram("l16", pending, i, sent, Len(pending)) : i \in sent}
        /\ lost' = lost \cup L /\ dropped' = dropped /\ pending' = <<>> /\ written' = written
    BY DEF Flush
  <1>2. written \in Nat  BY PendingFacts
  <1>3. wire' = wire \cup PacketsOf("l16", F, sent, Len(pending))
    BY <1>1 DEF PacketsOf
  <1>4. Ids(pending)' = {}
    BY <1>1 DEF Ids
  <1>5. written + 1 .. written = {}  BY <1>2
  <1>6. \A x : x \in Ids(pending) \cup (written + 1 .. written')
               <=> x \in L \/ \E i \in sent : x \in Ids(F[i])
    BY <1>1, <1>5
  <1>7. SharedOut(Ids(pending) \cup (written + 1 .. written'), F, sent, L, {})
    BY <1>6 DEF SharedOut
  <1>8. EveryFrameOnce /\ written' \in Nat /\ written <= written'  BY <1>1, <1>2 DEF BookInv
  <1>9. lost' = lost \cup L /\ dropped' = dropped  BY <1>1
  <1> HIDE DEF sent, L, F
  <1>10. EveryFrameOnce'
    BY <1>2, <1>3, <1>4, <1>6, <1>7, <1>8, <1>9, SharingBalances
  <1>11. Len(pending') <= written' /\ Numbered(pending, Settled)'
    BY <1>1, <1>2 DEF Numbered
  <1> QED  BY <1>10, <1>11 DEF BookInv

\* writeEncoded(): the pending frames it writes over are lost, whether its packet
\* goes out or not.
LEMMA EncodedKeepsBook ==
  ASSUME SenderInv, BookInv, NEW count \in EncodedSizes, NEW ok \in BOOLEAN,
         WriteEncoded(count, ok)
  PROVE  BookInv'
  <1> DEFINE sent == IF ok THEN {1} ELSE {}
             K == Ids(Clobbered(count))
             L == Ids(pending) \ K
             F == <<<<>>>>
  <1>1. /\ wire' = wire \cup {Datagram("encoded", <<>>, i, sent, tsIncrement) : i \in sent}
        /\ lost' = lost \cup L /\ dropped' = dropped /\ written' = written
        /\ pending' = Clobbered(count)
    BY DEF WriteEncoded
  <1>2. written \in Nat /\ Len(pending) \in Nat  BY PendingFacts
  <1>3. wire' = wire \cup PacketsOf("encoded", F, sent, tsIncrement)
    BY <1>1 DEF PacketsOf
  <1>4. Ids(pending)' = K  BY <1>1 DEF Ids
  <1>5. written + 1 .. written = {}  BY <1>2
  <1>6. \A i \in sent : Ids(F[i]) = {}
    <2>1. \A i \in sent : F[i] = <<>>  OBVIOUS
    <2>2. Ids(<<>>) = {}  BY DEF Ids
    <2> QED  BY <2>1, <2>2
  <1>7. /\ Len(Clobbered(count)) = Len(pending)
        /\ \A j \in 1 .. Len(pending) : Clobbered(count)[j] \in {pending[j], Overwritten}
    BY ApplicationAssumption, ClobberedSlots
  <1>8. K \subseteq Ids(pending)
    <2>1. ASSUME NEW y \in K PROVE y \in Ids(pending)
      <3>1. PICK j \in 1 .. Len(pending) : y = Clobbered(count)[j].id /\ y # 0
        BY <1>7 DEF Ids
      <3>2. Clobbered(count)[j] = pending[j]  BY <1>7, <3>1 DEF Overwritten
      <3> QED  BY <3>1, <3>2 DEF Ids
    <2> QED  BY <2>1
  <1> HIDE DEF sent, K, F
  <1>9. Ids(pending) \cup (written + 1 .. written') = L \cup K  BY <1>1, <1>5, <1>8
  <1>10. L \cap K = {}  OBVIOUS
  <1> HIDE DEF L
  <1>11. SharedOut(Ids(pending) \cup (written + 1 .. written'), F, sent, L, K)
    BY <1>6, <1>9, <1>10 DEF SharedOut
  <1>12. EveryFrameOnce /\ written' \in Nat /\ written <= written'  BY <1>1, <1>2 DEF BookInv
  <1>13. lost' = lost \cup L /\ dropped' = dropped  BY <1>1
  <1>14. EveryFrameOnce'
    BY <1>2, <1>3, <1>4, <1>11, <1>12, <1>13, SharingBalances
  <1>15. Len(pending') <= written' /\ Settled' = Settled
    BY <1>1, <1>7 DEF BookInv, Settled
  <1>16. \A j \in 1 .. Len(pending) : pending[j].id \in {0, Settled + j}
    BY DEF BookInv, Numbered
  <1>17. Numbered(pending, Settled)'
    <2> SUFFICES ASSUME NEW j \in 1 .. Len(pending)
                 PROVE  Clobbered(count)[j].id \in {0, Settled + j}
      BY <1>1, <1>7, <1>15 DEF Numbered
    <2>1. Clobbered(count)[j] \in {pending[j], Overwritten}  BY <1>7
    <2> QED  BY <1>16, <2>1 DEF Overwritten
  <1> QED  BY <1>14, <1>15, <1>17 DEF BookInv

\* The calls that build no packet keep the pending frames or discard them.
LEMMA QuietCallKeepsBook ==
  ASSUME SenderInv, BookInv, UNCHANGED <<wire, written, lost>>,
         \/ UNCHANGED <<pending, dropped>>
         \/ pending' = <<>> /\ dropped' = dropped \cup Ids(pending)
  PROVE  BookInv'
  <1>1. written \in Nat  BY PendingFacts
  <1>2. CASE UNCHANGED <<pending, dropped>>
    <2>1. EveryFrameOnce /\ OnWire' = OnWire  BY DEF BookInv, OnWire, Ids
    <2>2. EveryFrameOnce'
      <3>1. Ids(pending)' = Ids(pending)  BY <1>2 DEF Ids
      <3>2. /\ 1 .. written' = OnWire' \cup lost' \cup dropped' \cup Ids(pending)'
            /\ OnWire' \cap (lost' \cup dropped' \cup Ids(pending)') = {}
            /\ lost' \cap (dropped' \cup Ids(pending)') = {}
            /\ dropped' \cap Ids(pending)' = {}
        BY <1>2, <2>1, <3>1 DEF EveryFrameOnce
      <3>3. \A d, e \in wire' : d # e => (Ids(d.slots) \cap Ids(e.slots) = {})
        BY <2>1 DEF EveryFrameOnce
      <3> QED  BY <3>2, <3>3 DEF EveryFrameOnce, Ids
    <2>3. Settled' = Settled  BY <1>2 DEF Settled
    <2>4. Len(pending') <= written' /\ Numbered(pending, Settled)'
      BY <1>2, <2>3 DEF BookInv, Numbered
    <2> QED  BY <2>2, <2>4 DEF BookInv
  <1>3. CASE pending' = <<>> /\ dropped' = dropped \cup Ids(pending)
    <2>1. Ids(pending)' = {}  BY <1>3 DEF Ids
    <2>2. OnWire' = OnWire  BY DEF OnWire, Ids
    <2>3. \A d, e \in wire' : d # e => (Ids(d.slots) \cap Ids(e.slots) = {})
      BY DEF BookInv, EveryFrameOnce
    <2>4. EveryFrameOnce'
      <3>1. /\ 1 .. written' = OnWire' \cup lost' \cup dropped' \cup Ids(pending)'
            /\ OnWire' \cap (lost' \cup dropped' \cup Ids(pending)') = {}
            /\ lost' \cap (dropped' \cup Ids(pending)') = {}
            /\ dropped' \cap Ids(pending)' = {}
        BY <1>3, <2>1, <2>2 DEF BookInv, EveryFrameOnce
      <3> QED  BY <2>3, <3>1 DEF EveryFrameOnce, Ids
    <2>5. Len(pending') <= written' /\ Numbered(pending, Settled)'
      BY <1>1, <1>3 DEF Numbered
    <2> QED  BY <2>4, <2>5 DEF BookInv
  <1> QED  BY <1>2, <1>3

LEMMA InitBook == Init => BookInv
  <1> SUFFICES ASSUME Init PROVE BookInv
    OBVIOUS
  <1>1. pending = <<>> /\ written = 0 /\ wire = {} /\ lost = {} /\ dropped = {}
    BY DEF Init
  <1>2. Ids(pending) = {} /\ OnWire = {}  BY <1>1 DEF Ids, OnWire
  <1>3. 1 .. 0 = {} /\ Len(<<>>) = 0  OBVIOUS
  <1> QED  BY <1>1, <1>2, <1>3 DEF BookInv, Numbered, EveryFrameOnce

\* What a call that builds no packet does: it keeps the pending frames or discards
\* them, and changes the numbering only as an override.
QuietCall ==
  /\ UNCHANGED <<wire, written, lost, packets>>
  /\ \/ UNCHANGED <<pending, dropped>>
     \/ pending' = <<>> /\ dropped' = dropped \cup Ids(pending)
  /\ \/ UNCHANGED <<sequenceNumber, timestamp, restamps>>
     \/ restamps' = restamps + 1

PacketCall ==
  \/ \E n \in WriteSizes : WriteFrames(n)
  \/ \E ok \in BOOLEAN : Flush(ok)
  \/ \E count \in EncodedSizes, ok \in BOOLEAN : WriteEncoded(count, ok)

\* Every call is the one or the other.
LEMMA CallsSplit ==
  ASSUME [Next]_vars
  PROVE  PacketCall \/ QuietCall
  <1>1. ASSUME NEW port \in {0, 1}, NEW source \in Ssrcs, NEW seq \in Starts, NEW ts \in Starts,
               Begin(port, source, seq, ts)
        PROVE  QuietCall
    BY <1>1 DEF QuietCall, Begin, DropPending
  <1>2. CASE End
    BY <1>2 DEF QuietCall, End, DropPending, numbering
  <1>3. ASSUME NEW pt, NEW clockRate, SetPayloadTypeRejected(pt, clockRate)
        PROVE  QuietCall
    BY <1>3 DEF QuietCall, SetPayloadTypeRejected, numbering, history
  <1>4. ASSUME NEW pt \in CodecTypes, SetPayloadType(pt, 8000)
        PROVE  QuietCall
    BY <1>4 DEF QuietCall, SetPayloadType, DropPending, numbering
  <1>5. ASSUME NEW f \in Formats, SetFormatRejected(f)
        PROVE  QuietCall
    BY <1>5 DEF QuietCall, SetFormatRejected, numbering, history
  <1>6. ASSUME NEW f \in Formats, SetFormat(f)
        PROVE  QuietCall
    BY <1>6 DEF QuietCall, SetFormat, DropPending, numbering
  <1>7. ASSUME NEW inc \in Increments, SetTimestampIncrement(inc)
        PROVE  QuietCall
    BY <1>7 DEF QuietCall, SetTimestampIncrement, numbering, history
  <1>8. ASSUME NEW source \in Ssrcs, SetSsrc(source)
        PROVE  QuietCall
    BY <1>8 DEF QuietCall, SetSsrc, numbering, history
  <1>9. ASSUME NEW m \in BOOLEAN, SetMarker(m)
        PROVE  QuietCall
    BY <1>9 DEF QuietCall, SetMarker, history
  <1>10. ASSUME NEW seq \in Starts, SetSequenceNumber(seq)
        PROVE  QuietCall
    BY <1>10 DEF QuietCall, SetSequenceNumber
  <1>11. ASSUME NEW ts \in Starts, SetTimestamp(ts)
        PROVE  QuietCall
    BY <1>11 DEF QuietCall, SetTimestamp
  <1>12. CASE WriteRefused
    BY <1>12 DEF QuietCall, WriteRefused, numbering, history
  <1>13. CASE FlushRefused
    BY <1>13 DEF QuietCall, FlushRefused, numbering, history
  <1>14. ASSUME NEW count, EncodedRefused(count)
         PROVE  QuietCall
    BY <1>14 DEF QuietCall, EncodedRefused, numbering, history
  <1>15. CASE UNCHANGED vars
    BY <1>15 DEF QuietCall, vars, numbering, history
  <1>16. PacketCall <=> \/ \E n \in WriteSizes : WriteFrames(n)
                        \/ \E ok \in BOOLEAN : Flush(ok)
                        \/ \E count \in EncodedSizes, ok \in BOOLEAN : WriteEncoded(count, ok)
    BY DEF PacketCall
  <1> QED
    BY <1>1, <1>2, <1>3, <1>4, <1>5, <1>6, <1>7, <1>8, <1>9, <1>10, <1>11,
       <1>12, <1>13, <1>14, <1>15, <1>16 DEF Next

LEMMA BookHolds == Spec => []BookInv
  <1>1. SenderInv /\ BookInv /\ [Next]_vars => BookInv'
    <2> SUFFICES ASSUME SenderInv, BookInv, [Next]_vars PROVE BookInv'
      OBVIOUS
    <2>1. PacketCall => BookInv'
      BY WriteKeepsBook, FlushKeepsBook, EncodedKeepsBook DEF PacketCall
    <2>2. QuietCall => BookInv'
      BY QuietCallKeepsBook DEF QuietCall
    <2> QED  BY <2>1, <2>2, CallsSplit
  <1> QED  BY <1>1, InitBook, SenderInvHolds, PTL DEF Spec

-----------------------------------------------------------------------------
\* seq and ts are the numbering behind datagram d.
Continues(d, seq, ts) == seq = (d.seq + 1) % SeqMod /\ ts = (d.ts + d.ticks) % TsMod

IsNewest(d) == \A g \in wire : g.number <= d.number

\* The inductive invariant for the numbering: the next packet continues the newest
\* one on the wire, unless the application has renumbered the stream since.
StampInv ==
  /\ \A d \in wire : d.number \in 1 .. packets /\ d.restamps \in 0 .. restamps
  /\ \A d \in wire : d.restamps = restamps /\ IsNewest(d) => Continues(d, sequenceNumber, timestamp)
  /\ StampsFollow

\* The packets of sent before the i-th.
Earlier(sent, i) == {j \in sent : j < i}

\* The packets of a call that go out are counted without a gap: the first has none
\* before it, the next one more than its predecessor, and the last all but itself.
LEMMA SentInTurn ==
  ASSUME NEW k \in Nat, NEW sent \in SUBSET (1 .. k), NEW i \in sent
  PROVE  /\ SentBefore(sent, i) \in Nat
         /\ (\A h \in sent : i <= h) => SentBefore(sent, i) = 0
         /\ (\A h \in sent : h <= i) => Cardinality(sent) = SentBefore(sent, i) + 1
         /\ \A j \in sent : i < j /\ (~ \E h \in sent : i < h /\ h < j)
              => SentBefore(sent, j) = SentBefore(sent, i) + 1
  <1>1. /\ \A j \in sent : j \in Nat
        /\ \A j, h : h \in Earlier(sent, j) <=> h \in sent /\ h < j
    BY DEF Earlier
  <1>2. /\ IsFiniteSet(Earlier(sent, i)) /\ Cardinality(Earlier(sent, i)) \in Nat /\ i \notin Earlier(sent, i)
        /\ \A j : SentBefore(sent, j) = Cardinality(Earlier(sent, j))
    <2>1. IsFiniteSet(1 .. k)  BY FS_Interval
    <2>2. \A t \in SUBSET (1 .. k) : IsFiniteSet(t) /\ Cardinality(t) \in Nat
      BY <2>1, FS_Subset, FS_CardinalityType
    <2>3. Earlier(sent, i) \in SUBSET (1 .. k)  BY DEF Earlier
    <2>4. i \notin Earlier(sent, i)  BY <1>1 DEF Earlier
    <2> QED  BY <2>2, <2>3, <2>4 DEF SentBefore, Earlier
  <1>3. IsFiniteSet(Earlier(sent, i) \cup {i}) /\ Cardinality(Earlier(sent, i) \cup {i}) = Cardinality(Earlier(sent, i)) + 1
    BY <1>2, FS_AddElement
  <1>4. ASSUME \A h \in sent : i <= h PROVE Cardinality(Earlier(sent, i)) = 0
    <2>1. ASSUME NEW h \in Earlier(sent, i) PROVE FALSE
      <3>1. h \in sent /\ h < i /\ h \in Nat /\ i \in Nat  BY <1>1
      <3>2. i <= h  BY <1>4, <3>1
      <3> QED  BY <3>1, <3>2
    <2>2. Earlier(sent, i) = {}  BY <2>1
    <2> QED  BY <2>2, FS_EmptySet
  <1>5. ASSUME \A h \in sent : h <= i PROVE Cardinality(sent) = Cardinality(Earlier(sent, i)) + 1
    <2>1. ASSUME NEW h \in sent PROVE h \in Earlier(sent, i) \/ h = i
      <3>1. h \in Nat /\ i \in Nat /\ h <= i  BY <1>1, <1>5
      <3>2. h < i \/ h = i  BY <3>1
      <3> QED  BY <1>1, <3>2
    <2>2. \A h \in Earlier(sent, i) : h \in sent  BY <1>1
    <2>3. sent = Earlier(sent, i) \cup {i}  BY <2>1, <2>2
    <2> QED  BY <2>3, <1>3
  <1>6. ASSUME NEW j \in sent, i < j, ~ \E h \in sent : i < h /\ h < j
        PROVE  Cardinality(Earlier(sent, j)) = Cardinality(Earlier(sent, i)) + 1
    <2>1. i \in Nat /\ j \in Nat  BY <1>1
    <2>2. ASSUME NEW h \in sent PROVE h < j <=> h < i \/ h = i
      <3>1. h \in Nat /\ ~ (i < h /\ h < j)  BY <1>1, <1>6
      <3> QED  BY <1>6, <2>1, <3>1
    <2>3. \A h : h \in Earlier(sent, j) <=> h \in Earlier(sent, i) \/ h = i
      BY <1>1, <2>2
    <2>4. Earlier(sent, j) = Earlier(sent, i) \cup {i}  BY <2>3
    <2> QED  BY <2>4, <1>3
  <1> QED  BY <1>2, <1>4, <1>5, <1>6

\* What follows the i-th packet of a call.
LEMMA StampsInTurn ==
  ASSUME TypeOK, NEW kind, NEW s, NEW i, NEW sent, NEW ticks \in Nat, SentBefore(sent, i) \in Nat
  PROVE  LET c == SentBefore(sent, i) + 1
         IN  Continues(Datagram(kind, s, i, sent, ticks),
                       (sequenceNumber + c) % SeqMod, (timestamp + ticks * c) % TsMod)
  <1> DEFINE d == Datagram(kind, s, i, sent, ticks)
             c == SentBefore(sent, i)
             x == ticks * c
  <1>1. /\ sequenceNumber \in Nat /\ timestamp \in Nat /\ SeqMod \in Nat \ {0} /\ TsMod \in Nat \ {0}
    BY LimitAssumption DEF TypeOK
  <1>2. /\ d.seq = (sequenceNumber + c) % SeqMod /\ d.ts = (timestamp + x) % TsMod /\ d.ticks = ticks
    BY DEF Datagram
  <1>3. x \in Nat /\ ticks * (c + 1) = x + ticks /\ c \in Nat  BY SMTT(30)
  <1> HIDE DEF d, c, x
  <1>4. (d.seq + 1) % SeqMod = (sequenceNumber + (c + 1)) % SeqMod
    <2>1. (((sequenceNumber + c) % SeqMod) + 1) % SeqMod = ((sequenceNumber + c) + 1) % SeqMod
      <3>1. sequenceNumber + c \in Nat /\ 1 \in Nat  BY <1>1, <1>3
      <3> QED  BY <1>1, <3>1, ModSum
    <2>2. (sequenceNumber + c) + 1 = sequenceNumber + (c + 1)  BY <1>1, <1>3
    <2> QED  BY <1>2, <2>1, <2>2
  <1>5. (d.ts + d.ticks) % TsMod = (timestamp + ticks * (c + 1)) % TsMod
    <2>1. (((timestamp + x) % TsMod) + ticks) % TsMod = ((timestamp + x) + ticks) % TsMod
      <3>1. timestamp + x \in Nat  BY <1>1, <1>3
      <3> QED  BY <1>1, <3>1, ModSum
    <2>2. (timestamp + x) + ticks = timestamp + (x + ticks)  BY <1>1, <1>3
    <2> QED  BY <1>2, <1>3, <2>1, <2>2
  <1> QED  BY <1>4, <1>5 DEF Continues, d, c

\* A call that builds the packets F, k of them, of which those in sent go out.
Sends(kind, F, k, sent, ticks) ==
  /\ wire' = wire \cup PacketsOf(kind, F, sent, ticks)
  /\ Advance(sent, ticks)
  /\ packets' = packets + k
  /\ restamps' = restamps

\* Packets that go out are numbered on from the newest before them.
LEMMA EmitKeepsStamps ==
  ASSUME SenderInv, StampInv, NEW kind, NEW F, NEW k \in Nat, NEW sent \in SUBSET (1 .. k),
         NEW ticks \in Nat, Sends(kind, F, k, sent, ticks)
  PROVE  StampInv'
  <1> DEFINE D(i) == Datagram(kind, F[i], i, sent, ticks)
             c(i) == SentBefore(sent, i)
             n == packets
  <1>1. TypeOK /\ n \in Nat /\ restamps \in Nat
        /\ sequenceNumber \in 0 .. SeqMod - 1 /\ timestamp \in 0 .. TsMod - 1
    BY BoundAssumption DEF SenderInv, TypeOK
  <1>2. SeqMod \in Nat \ {0} /\ TsMod \in Nat \ {0}  BY LimitAssumption
  <1>3. /\ \A d \in wire : d.number \in 1 .. n /\ d.restamps \in 0 .. restamps
        /\ \A d \in wire : d.restamps = restamps /\ (\A g \in wire : g.number <= d.number)
             => Continues(d, sequenceNumber, timestamp)
        /\ \A d, e \in wire :
             /\ d.number < e.number /\ d.restamps = e.restamps
             /\ ~ \E g \in wire : d.number < g.number /\ g.number < e.number
             => Continues(d, e.seq, e.ts)
    BY DEF StampInv, IsNewest, StampsFollow, Follows, Continues
  <1>4. \A d \in wire' : d \in wire \/ \E i \in sent : d = D(i)
    BY DEF Sends, PacketsOf
  <1>5. (\A i \in sent : D(i) \in wire') /\ \A d \in wire : d \in wire'
    BY DEF Sends, PacketsOf
  <1>6. \A i \in sent : /\ i \in 1 .. k /\ D(i).number = n + i /\ D(i).restamps = restamps
                        /\ D(i).seq = (sequenceNumber + c(i)) % SeqMod
                        /\ D(i).ts = (timestamp + ticks * c(i)) % TsMod
    BY DEF Datagram
  <1>7. ASSUME NEW i \in sent
        PROVE  /\ (\A h \in sent : i <= h) => c(i) = 0
               /\ (\A h \in sent : h <= i) => Cardinality(sent) = c(i) + 1
               /\ \A j \in sent : i < j /\ (~ \E h \in sent : i < h /\ h < j) => c(j) = c(i) + 1
               /\ Continues(D(i), (sequenceNumber + (c(i) + 1)) % SeqMod,
                                  (timestamp + ticks * (c(i) + 1)) % TsMod)
    <2>1. SentBefore(sent, i) \in Nat  BY SentInTurn
    <2> QED  BY <1>1, <2>1, SentInTurn, StampsInTurn
  <1>8. sequenceNumber % SeqMod = sequenceNumber /\ timestamp % TsMod = timestamp
    BY <1>1, <1>2
  <1>9. /\ sequenceNumber' = (sequenceNumber + Cardinality(sent)) % SeqMod
        /\ timestamp' = (timestamp + ticks * Cardinality(sent)) % TsMod
    BY DEF Sends, Advance
  <1>10. sequenceNumber + 0 = sequenceNumber /\ timestamp + ticks * 0 = timestamp
    BY <1>1
  <1> HIDE DEF D, c, n
  <1>11. \A d \in wire' : d.number \in 1 .. n + k /\ d.restamps \in 0 .. restamps
    <2>1. \A d \in wire : d.number \in 1 .. n + k  BY <1>1, <1>3
    <2>2. \A i \in sent : D(i).number \in 1 .. n + k /\ D(i).restamps \in 0 .. restamps
      BY <1>1, <1>6
    <2> QED  BY <1>3, <1>4, <2>1, <2>2
  <1>12. ASSUME NEW d \in wire', d.restamps = restamps, \A g \in wire' : g.number <= d.number
         PROVE  Continues(d, sequenceNumber', timestamp')
    <2>1. CASE d \in wire
      <3>1. sent = {}
        <4>1. ASSUME NEW i \in sent PROVE FALSE
          <5>1. n + i <= d.number  BY <1>5, <1>6, <1>12
          <5>2. d.number \in 1 .. n /\ i \in 1 .. k  BY <1>3, <1>6, <2>1
          <5> QED  BY <1>1, <5>1, <5>2
        <4> QED  BY <4>1
      <3>2. Cardinality(sent) = 0  BY <3>1, FS_EmptySet
      <3>3. sequenceNumber' = sequenceNumber /\ timestamp' = timestamp
        BY <1>8, <1>9, <1>10, <3>2
      <3>4. \A g \in wire : g.number <= d.number  BY <1>5, <1>12
      <3> QED  BY <1>3, <1>12, <2>1, <3>3, <3>4
    <2>2. ASSUME NEW i \in sent, d = D(i)
          PROVE  Continues(d, sequenceNumber', timestamp')
      <3>1. ASSUME NEW h \in sent PROVE h <= i
        <4>1. n + h <= n + i  BY <1>5, <1>6, <1>12, <2>2
        <4>2. h \in Nat /\ i \in Nat  BY <1>6
        <4> QED  BY <1>1, <4>1, <4>2
      <3>2. Cardinality(sent) = c(i) + 1  BY <1>7, <3>1
      <3> QED  BY <1>7, <1>9, <2>2, <3>2
    <2> QED  BY <1>4, <2>1, <2>2
  <1>13. ASSUME NEW d \in wire', NEW e \in wire', d.number < e.number, d.restamps = e.restamps,
                ~ \E g \in wire' : d.number < g.number /\ g.number < e.number
         PROVE  Continues(d, e.seq, e.ts)
    <2>1. CASE d \in wire /\ e \in wire
      <3>1. ~ \E g \in wire : d.number < g.number /\ g.number < e.number  BY <1>5, <1>13
      <3> QED  BY <1>3, <1>13, <2>1, <3>1
    <2>2. ASSUME d \in wire, NEW i \in sent, e = D(i)
          PROVE  Continues(d, e.seq, e.ts)
      <3>1. d.number \in 1 .. n /\ e.number = n + i /\ e.restamps = restamps /\ i \in 1 .. k
        BY <1>3, <1>6, <2>2
      <3>2. ASSUME NEW g \in wire PROVE g.number <= d.number
        <4>1. g.number \in 1 .. n /\ g \in wire'  BY <1>3, <1>5
        <4>2. g.number < e.number  BY <1>1, <3>1, <4>1
        <4>3. ~ (d.number < g.number)  BY <1>13, <4>1, <4>2
        <4> QED  BY <3>1, <4>1, <4>3
      <3>3. Continues(d, sequenceNumber, timestamp)
        BY <1>3, <1>13, <2>2, <3>1, <3>2
      <3>4. ASSUME NEW h \in sent PROVE i <= h
        <4>1. h \in 1 .. k /\ D(h).number = n + h /\ D(h) \in wire'  BY <1>5, <1>6
        <4>2. d.number < n + h  BY <1>1, <3>1, <4>1
        <4>3. ~ (n + h < n + i)  BY <1>13, <3>1, <4>1, <4>2
        <4> QED  BY <1>1, <3>1, <4>1, <4>3
      <3>5. c(i) = 0  BY <1>7, <3>4
      <3>6. e.seq = sequenceNumber /\ e.ts = timestamp
        BY <1>6, <1>8, <1>10, <2>2, <3>5
      <3> QED  BY <3>3, <3>6
    <2>3. ASSUME NEW i \in sent, d = D(i), e \in wire
          PROVE  FALSE
      <3>1. d.number = n + i /\ i \in 1 .. k /\ e.number \in 1 .. n  BY <1>3, <1>6, <2>3
      <3> QED  BY <1>1, <1>13, <3>1
    <2>4. ASSUME NEW i \in sent, d = D(i), NEW j \in sent, e = D(j)
          PROVE  Continues(d, e.seq, e.ts)
      <3>1. d.number = n + i /\ e.number = n + j /\ i \in 1 .. k /\ j \in 1 .. k
        BY <1>6, <2>4
      <3>2. i < j  BY <1>1, <1>13, <3>1
      <3>3. ASSUME NEW h \in sent, i < h, h < j PROVE FALSE
        <4>1. h \in 1 .. k /\ D(h).number = n + h /\ D(h) \in wire'  BY <1>5, <1>6
        <4>2. n + i < n + h /\ n + h < n + j  BY <1>1, <3>1, <3>3, <4>1
        <4> QED  BY <1>13, <3>1, <4>1, <4>2
      <3>4. c(j) = c(i) + 1  BY <1>7, <3>2, <3>3
      <3>5. e.seq = (sequenceNumber + c(j)) % SeqMod /\ e.ts = (timestamp + ticks * c(j)) % TsMod
        BY <1>6, <2>4
      <3> QED  BY <1>7, <2>4, <3>4, <3>5
    <2> QED  BY <1>4, <2>1, <2>2, <2>3, <2>4
  <1>14. (\A d \in wire : d.number \in 1 .. packets /\ d.restamps \in 0 .. restamps)'
    BY <1>11 DEF Sends, n
  <1>15. (\A d \in wire : d.restamps = restamps /\ IsNewest(d)
            => Continues(d, sequenceNumber, timestamp))'
    BY <1>12 DEF Sends, IsNewest, Continues
  <1>16. StampsFollow'
    BY <1>13 DEF StampsFollow, Follows, Continues
  <1> QED  BY <1>14, <1>15, <1>16 DEF StampInv

\* A call that builds no packet leaves the numbering, or overrides it.
LEMMA QuietCallKeepsStamps ==
  ASSUME SenderInv, StampInv, QuietCall
  PROVE  StampInv'
  <1>1. restamps \in Nat  BY BoundAssumption DEF SenderInv, TypeOK
  <1>2. wire' = wire /\ packets' = packets  BY DEF QuietCall
  <1>3. /\ \A d \in wire : d.number \in 1 .. packets /\ d.restamps \in 0 .. restamps
        /\ \A d \in wire : d.restamps = restamps /\ IsNewest(d)
             => Continues(d, sequenceNumber, timestamp)
        /\ StampsFollow
    BY DEF StampInv
  <1>4. StampsFollow'  BY <1>2, <1>3 DEF StampsFollow, Follows
  <1>5. CASE UNCHANGED <<sequenceNumber, timestamp, restamps>>
    <2>1. (\A d \in wire : d.restamps = restamps /\ IsNewest(d)
             => Continues(d, sequenceNumber, timestamp))'
      BY <1>2, <1>3, <1>5 DEF IsNewest, Continues
    <2>2. (\A d \in wire : d.number \in 1 .. packets /\ d.restamps \in 0 .. restamps)'
      BY <1>2, <1>3, <1>5
    <2> QED  BY <1>4, <2>1, <2>2 DEF StampInv
  <1>6. CASE restamps' = restamps + 1
    <2>1. \A d \in wire : d.restamps # restamps + 1 /\ d.restamps \in 0 .. restamps + 1
      BY <1>1, <1>3
    <2>2. (\A d \in wire : d.restamps = restamps /\ IsNewest(d)
             => Continues(d, sequenceNumber, timestamp))'
      BY <1>2, <1>6, <2>1
    <2>3. (\A d \in wire : d.number \in 1 .. packets /\ d.restamps \in 0 .. restamps)'
      BY <1>2, <1>3, <1>6, <2>1
    <2> QED  BY <1>4, <2>2, <2>3 DEF StampInv
  <1> QED  BY <1>5, <1>6 DEF QuietCall

SendsSome ==
  \E kind, F : \E k \in Nat : \E sent \in SUBSET (1 .. k), ticks \in Nat :
    Sends(kind, F, k, sent, ticks)

\* writeFrames(), flush() and writeEncoded() all do that.
LEMMA PacketCallSends ==
  ASSUME SenderInv, PacketCall
  PROVE  SendsSome
  <1>1. ASSUME NEW n \in WriteSizes, WriteFrames(n)
        PROVE  SendsSome
    <2> DEFINE k == FullPackets(n)
    <2>1. PICK sent \in SUBSET (1 .. k) : Emit(n, sent)  BY <1>1 DEF WriteFrames
    <2>2. samplesPerPacket > 0 /\ restamps' = restamps  BY <1>1 DEF WriteFrames
    <2>3. samplesPerPacket \in Nat \ {0}  BY <2>2, FormatSet DEF SenderInv
    <2>4. k \in Nat
      <3>1. Len(Gathered(n)) \in Nat  BY GatheredOfFormat, LenProperties DEF SenderInv
      <3> QED  BY <2>3, <3>1, DivBounds DEF FullPackets
    <2>5. PICK F : F = [i \in 1 .. k |-> PacketSlots(n, i)]  OBVIOUS
    <2>6. /\ wire' = wire \cup {Datagram("l16", PacketSlots(n, i), i, sent, samplesPerPacket) : i \in sent}
          /\ Advance(sent, samplesPerPacket) /\ packets' = packets + k
      BY <2>1 DEF Emit
    <2> HIDE DEF k
    <2>7. PacketsOf("l16", F, sent, samplesPerPacket)
            = {Datagram("l16", PacketSlots(n, i), i, sent, samplesPerPacket) : i \in sent}
      <3>1. \A i \in sent : F[i] = PacketSlots(n, i)  BY <2>1, <2>5
      <3> QED  BY <3>1 DEF PacketsOf
    <2>8. Sends("l16", F, k, sent, samplesPerPacket)  BY <2>2, <2>6, <2>7 DEF Sends
    <2> QED  BY <2>1, <2>3, <2>4, <2>8 DEF SendsSome
  <1>2. ASSUME NEW ok \in BOOLEAN, Flush(ok)
        PROVE  SendsSome
    <2> DEFINE sent == IF ok THEN {1} ELSE {}
               F == <<pending>>
    <2>1. /\ wire' = wire \cup {Datagram("l16", pending, i, sent, Len(pending)) : i \in sent}
          /\ Advance(sent, Len(pending)) /\ packets' = packets + 1 /\ restamps' = restamps
      BY <1>2 DEF Flush
    <2>2. wire' = wire \cup PacketsOf("l16", F, sent, Len(pending))
      BY <2>1 DEF PacketsOf
    <2>3. Len(pending) \in Nat /\ 1 \in Nat /\ sent \in SUBSET (1 .. 1)
      BY <1>2, FlushSends
    <2>4. Sends("l16", F, 1, sent, Len(pending))  BY <2>1, <2>2 DEF Sends
    <2> HIDE DEF sent, F
    <2> QED  BY <2>3, <2>4 DEF SendsSome
  <1>3. ASSUME NEW count \in EncodedSizes, NEW ok \in BOOLEAN, WriteEncoded(count, ok)
        PROVE  SendsSome
    <2> DEFINE sent == IF ok THEN {1} ELSE {}
               F == <<<<>>>>
    <2>1. /\ wire' = wire \cup {Datagram("encoded", <<>>, i, sent, tsIncrement) : i \in sent}
          /\ Advance(sent, tsIncrement) /\ packets' = packets + 1 /\ restamps' = restamps
      BY <1>3 DEF WriteEncoded
    <2>2. wire' = wire \cup PacketsOf("encoded", F, sent, tsIncrement)
      BY <2>1 DEF PacketsOf
    <2>3. tsIncrement \in Nat /\ 1 \in Nat /\ sent \in SUBSET (1 .. 1)
      BY ApplicationAssumption DEF SenderInv, TypeOK
    <2>4. Sends("encoded", F, 1, sent, tsIncrement)  BY <2>1, <2>2 DEF Sends
    <2> HIDE DEF sent, F
    <2> QED  BY <2>3, <2>4 DEF SendsSome
  <1> QED  BY <1>1, <1>2, <1>3 DEF PacketCall

LEMMA StampsHold == Spec => []StampInv
  <1>1. Init => StampInv
    <2> SUFFICES ASSUME Init PROVE StampInv
      OBVIOUS
    <2>1. wire = {}  BY DEF Init
    <2> QED  BY <2>1 DEF StampInv, StampsFollow
  <1>2. SenderInv /\ StampInv /\ [Next]_vars => StampInv'
    <2> SUFFICES ASSUME SenderInv, StampInv, [Next]_vars PROVE StampInv'
      OBVIOUS
    <2>1. PacketCall => StampInv'  BY PacketCallSends, EmitKeepsStamps DEF SendsSome
    <2>2. QuietCall => StampInv'  BY QuietCallKeepsStamps
    <2> QED  BY <2>1, <2>2, CallsSplit
  <1> QED  BY <1>1, <1>2, SenderInvHolds, PTL DEF Spec

-----------------------------------------------------------------------------
\* What L16PacketsAreWhole says of one packet.
Whole(d) ==
  /\ d.pt \in {L16Mono, L16Stereo}
  /\ d.slots # <<>>
  /\ LET used == {d.slots[i] : i \in 1 .. Len(d.slots)} \ {Overwritten}
     IN  /\ \A x, y \in used : x.channels = y.channels
         /\ \A x \in used : 2 * x.channels * Len(d.slots) <= MaxPayload
         /\ \A x \in used : x.channels = 2 <=> d.pt = L16Stereo

\* The application sets no L16 payload type itself, as RtpSender.h asks of it.
CodecTypesAreNotL16 == CodecTypes \cap {L16Mono, L16Stereo} = {}

\* Then the L16 payload type is the one setFormat() chose for the current format.
L16TypeOfFormat ==
  isL16 => payloadType = IF format.channels = 2 THEN L16Stereo ELSE L16Mono

LEMMA L16TypeHolds ==
  ASSUME CodecTypesAreNotL16
  PROVE  Spec => []L16TypeOfFormat
  <1>1. Init => L16TypeOfFormat  BY DEF Init, L16TypeOfFormat
  <1>2. L16TypeOfFormat /\ [Next]_vars => L16TypeOfFormat'
    <2> SUFFICES ASSUME L16TypeOfFormat, [Next]_vars PROVE L16TypeOfFormat'
      OBVIOUS
    <2>1. UNCHANGED <<isL16, payloadType, format>> => L16TypeOfFormat'
      BY DEF L16TypeOfFormat
    <2>2. UNCHANGED config => L16TypeOfFormat'  BY <2>1 DEF config
    <2>3. ASSUME NEW port \in {0, 1}, NEW source \in Ssrcs, NEW seq \in Starts, NEW ts \in Starts,
                 Begin(port, source, seq, ts)
          PROVE  L16TypeOfFormat'
      BY <2>1, <2>3 DEF Begin
    <2>4. CASE End
      BY <2>1, <2>4 DEF End
    <2>5. ASSUME NEW pt, NEW clockRate, SetPayloadTypeRejected(pt, clockRate)
          PROVE  L16TypeOfFormat'
      BY <2>2, <2>5 DEF SetPayloadTypeRejected
    <2>6. ASSUME NEW pt \in CodecTypes, SetPayloadType(pt, 8000)
          PROVE  L16TypeOfFormat'
      <3>1. pt \notin {L16Mono, L16Stereo}  BY DEF CodecTypesAreNotL16
      <3>2. isL16' = (pt \in {L16Mono, L16Stereo})  BY <2>6 DEF SetPayloadType
      <3>3. ~ isL16'  BY <3>1, <3>2
      <3> QED  BY <3>3 DEF L16TypeOfFormat
    <2>7. ASSUME NEW f \in Formats, SetFormatRejected(f)
          PROVE  L16TypeOfFormat'
      BY <2>2, <2>7 DEF SetFormatRejected
    <2>8. ASSUME NEW f \in Formats, SetFormat(f)
          PROVE  L16TypeOfFormat'
      BY <2>8 DEF SetFormat, L16TypeOfFormat
    <2>9. ASSUME NEW inc \in Increments, SetTimestampIncrement(inc)
          PROVE  L16TypeOfFormat'
      BY <2>1, <2>9 DEF SetTimestampIncrement
    <2>10. ASSUME NEW source \in Ssrcs, SetSsrc(source)
           PROVE  L16TypeOfFormat'
      BY <2>1, <2>10 DEF SetSsrc
    <2>11. ASSUME NEW m \in BOOLEAN, SetMarker(m)
           PROVE  L16TypeOfFormat'
      BY <2>2, <2>11 DEF SetMarker
    <2>12. ASSUME NEW seq \in Starts, SetSequenceNumber(seq)
           PROVE  L16TypeOfFormat'
      BY <2>2, <2>12 DEF SetSequenceNumber
    <2>13. ASSUME NEW ts \in Starts, SetTimestamp(ts)
           PROVE  L16TypeOfFormat'
      BY <2>2, <2>13 DEF SetTimestamp
    <2>14. CASE WriteRefused
      BY <2>2, <2>14 DEF WriteRefused
    <2>15. ASSUME NEW n \in WriteSizes, WriteFrames(n)
           PROVE  L16TypeOfFormat'
      BY <2>2, <2>15 DEF WriteFrames
    <2>16. CASE FlushRefused
      BY <2>2, <2>16 DEF FlushRefused
    <2>17. ASSUME NEW ok \in BOOLEAN, Flush(ok)
           PROVE  L16TypeOfFormat'
      BY <2>2, <2>17 DEF Flush
    <2>18. ASSUME NEW count, EncodedRefused(count)
           PROVE  L16TypeOfFormat'
      BY <2>2, <2>18 DEF EncodedRefused
    <2>19. ASSUME NEW count \in EncodedSizes, NEW ok \in BOOLEAN, WriteEncoded(count, ok)
           PROVE  L16TypeOfFormat'
      BY <2>2, <2>19 DEF WriteEncoded
    <2>20. CASE UNCHANGED vars
      BY <2>2, <2>20 DEF vars
    <2> QED
      BY <2>3, <2>4, <2>5, <2>6, <2>7, <2>8, <2>9, <2>10, <2>11, <2>12, <2>13, <2>14,
         <2>15, <2>16, <2>17, <2>18, <2>19, <2>20 DEF Next
  <1> QED  BY <1>1, <1>2, PTL DEF Spec

\* A packet of slots of the current format, no longer than samplesPerPacket_, is
\* whole.
LEMMA PacketIsWhole ==
  ASSUME SenderInv, L16TypeOfFormat, samplesPerPacket > 0,
         NEW w, NEW s \in Seq(SlotsOf(format, w)), Len(s) \in Nat \ {0}, Len(s) <= samplesPerPacket,
         NEW kind, NEW i, NEW sent, NEW ticks
  PROVE  Whole(Datagram(kind, s, i, sent, ticks))
  <1> DEFINE d == Datagram(kind, s, i, sent, ticks)
             c == 2 * format.channels
             used == {s[j] : j \in 1 .. Len(s)} \ {Overwritten}
  <1>1. /\ format.channels \in 1 .. 255 /\ payloadType \in {L16Mono, L16Stereo}
        /\ samplesPerPacket \in Nat \ {0} /\ c * samplesPerPacket <= MaxPayload
    BY FormatSet DEF SenderInv
  <1>2. d.pt = payloadType /\ d.slots = s  BY DEF Datagram
  <1>3. s # <<>>  BY EmptySeq
  <1>4. \A x \in used : x.channels = format.channels
    <2>1. \A j \in 1 .. Len(s) : s[j] \in SlotsOf(format, w)  BY ElementOfSeq
    <2> QED  BY <2>1 DEF SlotsOf
  <1>5. c * Len(s) <= MaxPayload
    <2>1. c \in Nat /\ MaxPayload \in Nat
      <3>1. \A x \in 1 .. 255 : 2 * x \in Nat  OBVIOUS
      <3> QED  BY <1>1, <3>1, LimitAssumption
    <2> HIDE DEF c
    <2>2. c * Len(s) <= c * samplesPerPacket /\ c * Len(s) \in Nat /\ c * samplesPerPacket \in Nat
      BY <1>1, <2>1, SMTT(30)
    <2> QED  BY <1>1, <2>1, <2>2
  <1>6. format.channels = 2 <=> payloadType = L16Stereo
    <2>1. isL16  BY DEF SenderInv, PacketSizeOfFormat
    <2> QED  BY <2>1 DEF L16TypeOfFormat, L16Mono, L16Stereo
  <1>7. \A x \in used : 2 * x.channels * Len(s) = c * Len(s)  BY <1>4
  <1> HIDE DEF c, used
  <1>8. /\ \A x, y \in used : x.channels = y.channels
        /\ \A x \in used : 2 * x.channels * Len(s) <= MaxPayload
        /\ \A x \in used : x.channels = 2 <=> payloadType = L16Stereo
    BY <1>4, <1>5, <1>6, <1>7
  <1> HIDE DEF d
  <1> QED  BY <1>1, <1>2, <1>3, <1>8 DEF Whole, d, used

\* Every packet that writeFrames() and flush() add is whole.
LEMMA PacketCallsKeepWhole ==
  ASSUME SenderInv, L16TypeOfFormat, PacketCall,
         \A d \in wire : d.kind = "l16" => Whole(d)
  PROVE  \A d \in wire' : d.kind = "l16" => Whole(d)
  <1>1. ASSUME NEW n \in WriteSizes, WriteFrames(n), NEW d \in wire'
        PROVE  d.kind = "l16" => Whole(d)
    <2> DEFINE k == FullPackets(n)
               b == samplesPerPacket
               g == Gathered(n)
               T == SlotsOf(format, written + n)
    <2>1. PICK sent \in SUBSET (1 .. k) : Emit(n, sent)  BY <1>1 DEF WriteFrames
    <2>2. wire' = wire \cup {Datagram("l16", PacketSlots(n, i), i, sent, b) : i \in sent}
      BY <2>1 DEF Emit
    <2>3. b > 0 /\ b \in Nat \ {0}
      <3>1. b > 0  BY <1>1 DEF WriteFrames
      <3> QED  BY <3>1, FormatSet DEF SenderInv
    <2>4. g \in Seq(T)  BY GatheredOfFormat DEF SenderInv
    <2>5. k = Len(g) \div b  BY DEF FullPackets
    <2>6. \A i \in 1 .. k : PacketSlots(n, i) = SubSeq(g, (i - 1) * b + 1, i * b)
      BY DEF PacketSlots
    <2> HIDE DEF k, b, g, T
    <2>7. ASSUME NEW i \in sent PROVE Whole(Datagram("l16", PacketSlots(n, i), i, sent, b))
      <3>1. i \in 1 .. k  BY <2>1
      <3>2. /\ SubSeq(g, (i - 1) * b + 1, i * b) \in Seq(T)
            /\ Len(SubSeq(g, (i - 1) * b + 1, i * b)) = b
            /\ CutAt(SubSeq(g, (i - 1) * b + 1, i * b), g, (i - 1) * b)
        <4>1. i \in 1 .. Len(g) \div b /\ b \in Nat \ {0}  BY <2>3, <2>5, <3>1
        <4> QED  BY <2>4, <4>1, PacketCut
      <3>3. PacketSlots(n, i) \in Seq(T) /\ Len(PacketSlots(n, i)) = b
        BY <2>6, <3>1, <3>2, Zenon
      <3>4. Len(PacketSlots(n, i)) \in Nat \ {0} /\ Len(PacketSlots(n, i)) <= samplesPerPacket
        BY <2>3, <3>3 DEF b
      <3> QED  BY <2>3, <3>3, <3>4, PacketIsWhole DEF b, T
    <2>8. d \in wire \/ \E i \in sent : d = Datagram("l16", PacketSlots(n, i), i, sent, b)
      BY <1>1, <2>2
    <2> QED  BY <2>7, <2>8
  <1>2. ASSUME NEW ok \in BOOLEAN, Flush(ok), NEW d \in wire'
        PROVE  d.kind = "l16" => Whole(d)
    <2> DEFINE sent == IF ok THEN {1} ELSE {}
    <2>1. wire' = wire \cup {Datagram("l16", pending, i, sent, Len(pending)) : i \in sent}
      BY <1>2 DEF Flush
    <2>2. d \in wire \/ \E i \in sent : d = Datagram("l16", pending, i, sent, Len(pending))
      BY <1>2, <2>1
    <2>3. /\ Len(pending) \in Nat \ {0} /\ samplesPerPacket > 0
          /\ Len(pending) <= samplesPerPacket /\ pending \in Seq(SlotsOf(format, written))
      <3>1. Len(pending) \in Nat \ {0} /\ Len(pending) < samplesPerPacket
            /\ samplesPerPacket \in Nat \ {0}
        BY <1>2, FlushSends
      <3> QED  BY <3>1 DEF SenderInv, PendingOfFormat
    <2> HIDE DEF sent
    <2>4. \A i \in sent : Whole(Datagram("l16", pending, i, sent, Len(pending)))
      BY <2>3, PacketIsWhole
    <2> QED  BY <2>2, <2>4
  <1>3. ASSUME NEW count \in EncodedSizes, NEW ok \in BOOLEAN, WriteEncoded(count, ok),
               NEW d \in wire'
        PROVE  d.kind = "l16" => Whole(d)
    <2> DEFINE sent == IF ok THEN {1} ELSE {}
    <2>1. wire' = wire \cup {Datagram("encoded", <<>>, i, sent, tsIncrement) : i \in sent}
      BY <1>3 DEF WriteEncoded
    <2> HIDE DEF sent
    <2>2. d \in wire \/ \E i \in sent : d = Datagram("encoded", <<>>, i, sent, tsIncrement)
      BY <1>3, <2>1
    <2>3. \A i \in sent : Datagram("encoded", <<>>, i, sent, tsIncrement).kind = "encoded"
      BY DEF Datagram
    <2> QED  BY <2>2, <2>3
  <1> QED  BY <1>1, <1>2, <1>3 DEF PacketCall

-----------------------------------------------------------------------------
LEMMA LeastSent ==
  ASSUME NEW k \in Nat, NEW sent \in SUBSET (1 .. k), sent # {}
  PROVE  \E i \in sent : \A j \in sent : i <= j
  <1>1. sent \subseteq Nat /\ \A j \in sent : j \in Nat  OBVIOUS
  <1>2. PICK rel : rel = OpToRel(<, Nat)  OBVIOUS
  <1>3. IsWellFoundedOn(rel, Nat)  BY <1>2, NatLessThanWellFounded
  <1>4. PICK i \in sent : \A j \in sent : ~ (<<j, i>> \in rel)  BY <1>1, <1>3, WFMin
  <1>5. ASSUME NEW j \in sent PROVE i <= j
    <2>1. i \in Nat /\ j \in Nat /\ <<j, i>> \in Nat \X Nat  BY <1>1
    <2>2. ~ (j < i)  BY <1>2, <1>4, <2>1 DEF OpToRel
    <2> QED  BY <2>1, <2>2
  <1> QED  BY <1>5

\* What MarkerGoesOutOnce asks of a step.
MarkedOnce ==
  /\ SentNow # {} =>
       /\ ~ armMarker'
       /\ Cardinality(MarkedNow) = IF armMarker THEN 1 ELSE 0
       /\ \A d \in MarkedNow, e \in SentNow : d.number <= e.number
  /\ SentNow = {} /\ packets' # packets => armMarker' = armMarker

\* Of the packets of a call that go out, the first carries the armed marker, and no
\* packet after it does; without an armed marker none does.
LEMMA FirstSentIsMarked ==
  ASSUME SenderInv, StampInv, NEW kind, NEW F, NEW k \in Nat, NEW sent \in SUBSET (1 .. k),
         NEW ticks \in Nat, Sends(kind, F, k, sent, ticks)
  PROVE  MarkedOnce
  <1> DEFINE D(i) == Datagram(kind, F[i], i, sent, ticks)
  <1>1. armMarker \in BOOLEAN /\ packets \in Nat  BY DEF SenderInv, TypeOK
  <1>2. armMarker' = (armMarker /\ sent = {})  BY DEF Sends, Advance
  <1>3. \A j \in sent : D(j).marker = (armMarker /\ SentBefore(sent, j) = 0)
                        /\ D(j).number = packets + j
    BY DEF Datagram
  <1>4. wire' = wire \cup {D(j) : j \in sent}  BY DEF Sends, PacketsOf
  <1>5. \A j \in sent : D(j) \notin wire
    <2> SUFFICES ASSUME NEW j \in sent, D(j) \in wire PROVE FALSE
      OBVIOUS
    <2>1. D(j).number \in 1 .. packets  BY DEF StampInv
    <2>2. D(j).number = packets + j /\ j \in Nat \ {0}  BY <1>3
    <2> HIDE DEF D
    <2> QED  BY <1>1, <2>1, <2>2
  <1> HIDE DEF D
  <1>6. SentNow = {D(j) : j \in sent}  BY <1>4, <1>5 DEF SentNow
  <1>7. CASE sent = {}
    <2>1. SentNow = {} /\ armMarker' = armMarker  BY <1>1, <1>2, <1>6, <1>7
    <2> QED  BY <2>1 DEF MarkedOnce
  <1>8. CASE sent # {}
    <2>1. PICK i \in sent : \A j \in sent : i <= j  BY <1>8, LeastSent
    <2>2. SentNow # {} /\ ~ armMarker'  BY <1>2, <1>6, <1>8
    <2>3. CASE armMarker
      <3>1. SentBefore(sent, i) = 0  BY <2>1, SentInTurn
      <3>2. ASSUME NEW j \in sent, j # i PROVE SentBefore(sent, j) # 0
        <4>1. i < j /\ i \in Earlier(sent, j)
          <5>1. i <= j /\ i \in Nat /\ j \in Nat  BY <2>1
          <5>2. i < j  BY <3>2, <5>1
          <5> QED  BY <5>2 DEF Earlier
        <4>2. IsFiniteSet(Earlier(sent, j))
          <5>1. IsFiniteSet(1 .. k)  BY FS_Interval
          <5>2. Earlier(sent, j) \in SUBSET (1 .. k)  BY DEF Earlier
          <5> QED  BY <5>1, <5>2, FS_Subset
        <4>3. Cardinality(Earlier(sent, j)) # 0  BY <4>1, <4>2, FS_EmptySet
        <4> QED  BY <4>3 DEF SentBefore, Earlier
      <3>3. MarkedNow = {D(i)}
        <4>1. D(i) \in MarkedNow  BY <1>3, <1>6, <2>3, <3>1 DEF MarkedNow
        <4>2. ASSUME NEW d \in MarkedNow PROVE d = D(i)
          <5>1. d \in SentNow /\ d.marker  BY DEF MarkedNow
          <5>2. PICK j \in sent : d = D(j)  BY <1>6, <5>1
          <5>3. SentBefore(sent, j) = 0  BY <1>3, <5>1, <5>2
          <5> QED  BY <3>2, <5>2, <5>3
        <4> QED  BY <4>1, <4>2
      <3>4. Cardinality(MarkedNow) = 1  BY <3>3, FS_Singleton
      <3>5. ASSUME NEW d \in MarkedNow, NEW e \in SentNow PROVE d.number <= e.number
        <4>1. d = D(i)  BY <3>3
        <4>2. PICK j \in sent : e = D(j)  BY <1>6
        <4>3. d.number = packets + i /\ e.number = packets + j  BY <1>3, <4>1, <4>2
        <4>4. i <= j /\ i \in Nat /\ j \in Nat  BY <2>1
        <4> QED  BY <1>1, <4>3, <4>4
      <3> QED  BY <2>2, <2>3, <3>4, <3>5 DEF MarkedOnce
    <2>4. CASE ~ armMarker
      <3>1. MarkedNow = {}  BY <1>3, <1>6, <2>4 DEF MarkedNow
      <3>2. Cardinality(MarkedNow) = 0  BY <3>1, FS_EmptySet
      <3> QED  BY <2>2, <2>4, <3>1, <3>2 DEF MarkedOnce
    <2> QED  BY <2>3, <2>4
  <1> QED  BY <1>7, <1>8

-----------------------------------------------------------------------------
\* Every variable of the sender keeps its type, both counters their width.
THEOREM SenderIsTypeCorrect == Spec => []TypeOK
  BY SenderInvHolds, PTL DEF SenderInv

\* Every frame writeFrames() accepted is in exactly one place, also where
\* writeEncoded() writes over frames that are pending.
THEOREM FramesAreAccountedFor == Spec => []EveryFrameOnce
  BY BookHolds, PTL DEF BookInv

\* A receiver that orders and times packets by their header is right: each packet
\* on the wire continues its predecessor, over both wraps, over full, flushed and
\* encoded packets and over packets that failed to go.
THEOREM StampsAreUnbroken == Spec => []StampsFollow
  BY StampsHold, PTL DEF StampInv

\* An L16 packet fits, and holds frames of the channel count its payload type
\* says, when the application leaves the L16 payload types to setFormat().
THEOREM L16PacketsStayWhole ==
  ASSUME CodecTypesAreNotL16
  PROVE  Spec => []L16PacketsAreWhole
  <1> DEFINE AllWhole == \A d \in wire : d.kind = "l16" => Whole(d)
  <1>1. L16PacketsAreWhole <=> AllWhole
    BY DEF L16PacketsAreWhole, Whole
  <1>2. Init => L16PacketsAreWhole
    BY DEF Init, L16PacketsAreWhole
  <1>3. SenderInv /\ L16TypeOfFormat /\ L16PacketsAreWhole /\ [Next]_vars => L16PacketsAreWhole'
    <2> SUFFICES ASSUME SenderInv, L16TypeOfFormat, L16PacketsAreWhole, [Next]_vars
                 PROVE  L16PacketsAreWhole'
      OBVIOUS
    <2>1. PacketCall => L16PacketsAreWhole'
      <3>1. PacketCall => \A d \in wire' : d.kind = "l16" => Whole(d)
        BY <1>1, PacketCallsKeepWhole
      <3> QED  BY <3>1 DEF L16PacketsAreWhole, Whole
    <2>2. QuietCall => L16PacketsAreWhole'
      BY DEF QuietCall, L16PacketsAreWhole
    <2> QED  BY <2>1, <2>2, CallsSplit
  <1> QED  BY <1>2, <1>3, SenderInvHolds, L16TypeHolds, PTL DEF Spec

\* An armed marker goes out on exactly one packet, the first that leaves, and no
\* other packet has one; packets that fail leave it armed.
THEOREM ArmedMarkerGoesOutOnce == Spec => MarkerGoesOutOnce
  <1>1. SenderInv /\ StampInv /\ [Next]_vars => [MarkedOnce]_vars
    <2> SUFFICES ASSUME SenderInv, StampInv, [Next]_vars
                 PROVE  MarkedOnce
      OBVIOUS
    <2>1. CASE PacketCall
      <3>1. SendsSome  BY <2>1, PacketCallSends
      <3> QED  BY <3>1, FirstSentIsMarked DEF SendsSome
    <2>2. CASE QuietCall
      <3>1. SentNow = {} /\ packets' = packets  BY <2>2 DEF QuietCall, SentNow
      <3> QED  BY <3>1 DEF MarkedOnce
    <2> QED  BY <2>1, <2>2, CallsSplit
  <1>2. MarkerGoesOutOnce <=> [][MarkedOnce]_vars
    BY PTL DEF MarkerGoesOutOnce, MarkedOnce
  <1> QED  BY <1>1, <1>2, SenderInvHolds, StampsHold, PTL DEF Spec

-----------------------------------------------------------------------------
\* Every step of the link is one of the sender, or leaves the sender alone.
LEMMA LinkStepsSender == [LinkNext]_linkVars => [Next]_vars
  <1> SUFFICES ASSUME [LinkNext]_linkVars, ~ UNCHANGED vars PROVE Next
    OBVIOUS
  <1>1. ~ (OpenReceiver \/ CloseReceiver \/ Poll)
    BY DEF OpenReceiver, CloseReceiver, ReceiverStep, Poll
  <1>2. ~ \E size \in ReadSizes : ReadEncoded(size)  BY DEF ReadEncoded, ReceiverStep
  <1>3. ~ \E n \in 1 .. MaxTake : Read(n)  BY DEF Read
  <1>4. ~ UNCHANGED linkVars  BY DEF linkVars
  <1>5. ASSUME NEW source \in Ssrcs, NEW seq \in Starts, NEW ts \in Starts,
               OpenSender(source, seq, ts)
        PROVE  Next
    BY <1>5 DEF OpenSender, SenderStep, Next
  <1>6. ASSUME NEW f \in Formats, ChangeFormat(f) PROVE Next
    BY <1>6 DEF ChangeFormat, SenderStep, Next
  <1>7. ASSUME NEW pt \in CodecTypes, ChangePayloadType(pt) PROVE Next
    BY <1>7 DEF ChangePayloadType, SenderStep, Next
  <1>8. ASSUME NEW n \in WriteSizes, WriteSender(n) PROVE Next
    BY <1>8 DEF WriteSender, SenderStep, Next
  <1>9. ASSUME NEW ok \in BOOLEAN, FlushSender(ok) PROVE Next
    BY <1>9 DEF FlushSender, SenderStep, Next
  <1>10. ASSUME NEW count \in EncodedSizes, NEW ok \in BOOLEAN, SendEncoded(count, ok) PROVE Next
    BY <1>10 DEF SendEncoded, SenderStep, Next
  <1> QED
    BY <1>1, <1>2, <1>3, <1>4, <1>5, <1>6, <1>7, <1>8, <1>9, <1>10 DEF LinkNext

LEMMA SenderOfLink == LinkSpec => Spec
  <1>1. LinkInit => Init  BY DEF LinkInit
  <1> QED  BY <1>1, LinkStepsSender, PTL DEF LinkSpec, Spec

-----------------------------------------------------------------------------
\* What is in front of and what is behind the seam of two sequences.
LEMMA JoinedParts ==
  ASSUME NEW S, NEW a \in Seq(S), NEW b \in Seq(S)
  PROVE  /\ a \o b \in Seq(S) /\ Len(a \o b) = Len(a) + Len(b)
         /\ Len(a) \in Nat /\ Len(b) \in Nat
         /\ \A i \in 1 .. Len(a) : (a \o b)[i] = a[i]
         /\ SubSeq(a \o b, Len(a) + 1, Len(a \o b)) = b
  <1> DEFINE c == a \o b
             n == Len(a)
             t == SubSeq(c, n + 1, Len(c))
  <1>1. n \in Nat /\ Len(b) \in Nat  BY LenProperties
  <1>2. /\ c \in Seq(S) /\ Len(c) = n + Len(b)
        /\ \A i \in 1 .. n + Len(b) : c[i] = IF i <= n THEN a[i] ELSE b[i - n]
    BY ConcatProperties
  <1> HIDE DEF c, n
  <1>3. \A i \in 1 .. n : c[i] = a[i]  BY <1>1, <1>2
  <1>4. \A i \in 1 .. Len(b) : c[n + i] = b[i]
    <2> SUFFICES ASSUME NEW i \in 1 .. Len(b) PROVE c[n + i] = b[i]
      OBVIOUS
    <2>1. n + i \in 1 .. n + Len(b) /\ ~ (n + i <= n) /\ (n + i) - n = i  BY <1>1
    <2> QED  BY <1>2, <2>1
  <1>5. t = b
    <2>1. t \in Seq(S) /\ Len(t) = Len(b) /\ \A i \in 1 .. Len(b) : t[i] = c[n + i]
      BY <1>1, <1>2
    <2> HIDE DEF t
    <2> QED  BY <1>4, <2>1, SeqEqual
  <1> QED  BY <1>1, <1>2, <1>3, <1>5 DEF c, n

LEMMA ReversedFour ==
  ASSUME NEW x \in Int
  PROVE  W!Reversed32(x) \in Seq(Int) /\ Len(W!Reversed32(x)) = 4
  <1>1. PICK n \in Nat : n = 4  OBVIOUS
  <1>2. PICK o : o = W!Octets32(x)  OBVIOUS
  <1>3. o \in Seq(Int) /\ Len(o) = n  BY <1>1, <1>2 DEF W!Octets32
  <1>4. \A i \in 1 .. n : o[(n + 1) - i] \in Int
    <2> SUFFICES ASSUME NEW i \in 1 .. n PROVE o[(n + 1) - i] \in Int
      OBVIOUS
    <2>1. (n + 1) - i \in 1 .. Len(o)  BY <1>3
    <2> QED  BY <1>3, <2>1, ElementOfSeq
  <1>5. PICK r : r = [i \in 1 .. n |-> o[(n + 1) - i]]  OBVIOUS
  <1>6. r \in Seq(Int) /\ Len(r) = n  BY <1>4, <1>5
  <1>7. W!Reversed32(x) = r
    <2>1. n + 1 = 5  BY <1>1
    <2> QED  BY <1>1, <1>2, <1>5, <2>1 DEF W!Reversed32
  <1> QED  BY <1>1, <1>6, <1>7

\* The fixed header is twelve bytes, of which the parser needs these.
HeaderBytes(d) ==
  W!EncodeRtp([marker |-> d.marker, payloadType |-> d.pt, sequenceNumber |-> d.seq,
               timestamp |-> d.ts, ssrc |-> d.ssrc])

LEMMA HeaderFacts ==
  ASSUME NEW d, d.pt \in Nat, d.pt < 128, d.seq \in Nat, d.seq \div 256 < 256,
         d.ts \in Int, d.ssrc \in Int
  PROVE  /\ HeaderBytes(d) \in Seq(Int) /\ Len(HeaderBytes(d)) = 12
         /\ HeaderBytes(d)[1] = 128
         /\ HeaderBytes(d)[2] % 128 = d.pt
         /\ HeaderBytes(d)[4] + 256 * HeaderBytes(d)[3] = d.seq
  <1> DEFINE m == (IF d.marker THEN 128 ELSE 0) + (d.pt % 128)
             q == d.seq
             a == <<128, m, (q \div 256) % 256, q % 256>>
             t == W!Reversed32(d.ts)
             s == W!Reversed32(d.ssrc)
  <1>1. HeaderBytes(d) = (a \o t) \o s
    BY ZenonT(60) DEF HeaderBytes, W!EncodeRtp, W!Octets16
  <1>2. t \in Seq(Int) /\ Len(t) = 4 /\ s \in Seq(Int) /\ Len(s) = 4
    BY ReversedFour
  <1>3. m \in Int /\ m % 128 = d.pt
    OBVIOUS
  <1>4. (q % 256) + 256 * ((q \div 256) % 256) = q /\ q % 256 \in Int /\ (q \div 256) % 256 \in Int
    OBVIOUS
  <1> HIDE DEF m, q, t, s
  <1>5. /\ a \in Seq(Int) /\ Len(a) = 4 /\ a[1] = 128 /\ a[2] = m
        /\ a[3] = (q \div 256) % 256 /\ a[4] = q % 256
    BY <1>3, <1>4
  <1> HIDE DEF a
  <1>6. PICK x : x = a \o t  OBVIOUS
  <1>7. PICK y : y = x \o s  OBVIOUS
  <1>8. x \in Seq(Int) /\ Len(x) = 8 /\ \A i \in 1 .. Len(a) : x[i] = a[i]
    <2>1. a \in Seq(Int) /\ t \in Seq(Int)  BY <1>2, <1>5
    <2>2. /\ a \o t \in Seq(Int) /\ Len(a \o t) = Len(a) + Len(t)
          /\ \A i \in 1 .. Len(a) : (a \o t)[i] = a[i]
      BY <2>1, JoinedParts
    <2>3. x \in Seq(Int) /\ \A i \in 1 .. Len(a) : x[i] = a[i]  BY <1>6, <2>2, Zenon
    <2>4. Len(x) = Len(a) + Len(t)  BY <1>6, <2>2, Zenon
    <2>5. Len(x) = 8
      <3>1. Len(a) = 4 /\ Len(t) = 4  BY <1>2, <1>5
      <3> QED  BY <2>4, <3>1
    <2> QED  BY <2>3, <2>5
  <1>9. y \in Seq(Int) /\ Len(y) = 12 /\ \A i \in 1 .. Len(x) : y[i] = x[i]
    <2>1. Len(y) = Len(x) + Len(s)  BY <1>2, <1>7, <1>8, JoinedParts
    <2>2. y \in Seq(Int) /\ \A i \in 1 .. Len(x) : y[i] = x[i]
      BY <1>2, <1>7, <1>8, JoinedParts, ZenonT(60)
    <2>3. Len(y) = 12
      <3>1. Len(x) = 8 /\ Len(s) = 4  BY <1>2, <1>8
      <3> QED  BY <2>1, <3>1
    <2> QED  BY <2>2, <2>3
  <1>10. y[1] = a[1] /\ y[2] = a[2] /\ y[3] = a[3] /\ y[4] = a[4]
    <2>1. \A i \in Nat : 1 <= i /\ i <= 4 => i \in 1 .. Len(a) /\ i \in 1 .. Len(x)
      BY <1>5, <1>8
    <2>2. \A i \in Nat : 1 <= i /\ i <= 4 => y[i] = a[i]
      BY <1>8, <1>9, <2>1
    <2> QED  BY <2>2
  <1>11. HeaderBytes(d) = y  BY <1>1, <1>6, <1>7
  <1>12. y[4] + 256 * y[3] = d.seq  BY <1>4, <1>5, <1>10 DEF q
  <1> QED  BY <1>3, <1>5, <1>9, <1>10, <1>11, <1>12

\* The receiver's parser gives back what the sender put in.
LEMMA HeaderComesBack ==
  ASSUME NEW d, d.pt \in Nat, d.pt < 128, d.seq \in Nat, d.seq \div 256 < 256,
         d.ts \in Int, d.ssrc \in Int,
         NEW S, PayloadBytes(d) \in Seq(S)
  PROVE  /\ Arrival(d).parse = "Ok" /\ Arrival(d).pt = d.pt /\ Arrival(d).seq = d.seq
         /\ Arrival(d).payload = PayloadBytes(d)
  <1> DEFINE h == HeaderBytes(d)
             p == PayloadBytes(d)
             b == h \o p
  <1>1. /\ h \in Seq(Int) /\ Len(h) = 12 /\ h[1] = 128 /\ h[2] % 128 = d.pt
        /\ h[4] + 256 * h[3] = d.seq
    BY HeaderFacts
  <1>2. p \in Seq(S)  OBVIOUS
  <1>3. Bytes(d) = b  BY DEF Bytes, HeaderBytes
  <1> HIDE DEF h, p
  <1>4. /\ b \in Seq(Int \cup S) /\ Len(b) = 12 + Len(p) /\ Len(p) \in Nat
        /\ \A i \in 1 .. 12 : b[i] = h[i]
        /\ SubSeq(b, 12 + 1, Len(b)) = p
    <2>1. h \in Seq(Int \cup S) /\ p \in Seq(Int \cup S)
      BY <1>1, <1>2, SeqWidens
    <2>2. /\ b \in Seq(Int \cup S) /\ Len(b) = Len(h) + Len(p) /\ Len(p) \in Nat
          /\ \A i \in 1 .. Len(h) : b[i] = h[i]
          /\ SubSeq(b, Len(h) + 1, Len(b)) = p
      BY <2>1, JoinedParts
    <2> HIDE DEF b
    <2> QED  BY <1>1, <2>2
  <1> HIDE DEF b
  <1>5. b[1] = 128 /\ b[2] = h[2] /\ b[3] = h[3] /\ b[4] = h[4]
    BY <1>1, <1>4
  <1>6. W!Version(b) = 2 /\ ~ W!Extended(b) /\ W!AfterCsrcs(b) = 12 /\ W!PayloadOffset(b) = 12
    <2>1. W!Version(b) = 2  BY <1>5 DEF W!Version
    <2>2. ~ W!Extended(b)  BY <1>5 DEF W!Extended
    <2>3. W!AfterCsrcs(b) = 12  BY <1>5 DEF W!AfterCsrcs, W!CsrcCount, W!FixedBytes
    <2> QED  BY <2>1, <2>2, <2>3 DEF W!PayloadOffset
  <1>7. W!RtpResult(b) = "Ok"
    BY <1>4, <1>6 DEF W!RtpResult, W!FixedBytes
  <1>8. W!RtpFields(b).payloadType = d.pt /\ W!RtpFields(b).sequenceNumber = d.seq
    BY <1>1, <1>5 DEF W!RtpFields, W!Value16
  <1>9. W!RtpPayload(b) = p  BY <1>4, <1>6 DEF W!RtpPayload
  <1> QED  BY <1>3, <1>7, <1>8, <1>9 DEF Arrival, p

-----------------------------------------------------------------------------
\* The packets on the wire after number n, and between two numbers.
After(n) == {g \in wire : n < g.number}
Between(m, n) == {g \in wire : m < g.number /\ g.number < n}

\* The sequence number `count` packets after seq.
SeqAfter(seq, count) == (seq + count) % SeqMod

\* The inductive invariant for the gaps: as long as the application does not renumber
\* the stream, a packet's sequence number says how many packets came before it.
CountInv ==
  /\ IsFiniteSet(wire)
  /\ \A d \in wire : d.restamps = restamps =>
       sequenceNumber = SeqAfter(d.seq, 1 + Cardinality(After(d.number)))
  /\ \A d, e \in wire : d.number < e.number /\ d.restamps = e.restamps =>
       e.seq = SeqAfter(d.seq, 1 + Cardinality(Between(d.number, e.number)))

LEMMA SeqAfterSum ==
  ASSUME NEW s \in Nat, NEW a \in Nat, NEW b \in Nat
  PROVE  /\ SeqAfter(SeqAfter(s, a), b) = SeqAfter(s, a + b)
         /\ SeqAfter(s, a) \in 0 .. SeqMod - 1
  <1>1. SeqMod \in Nat \ {0}  BY LimitAssumption
  <1>2. s + a \in Nat /\ (s + a) + b = s + (a + b)  OBVIOUS
  <1>3. (((s + a) % SeqMod) + b) % SeqMod = ((s + a) + b) % SeqMod
    BY <1>1, <1>2, ModSum
  <1>4. (s + a) % SeqMod \in 0 .. SeqMod - 1  BY <1>1, <1>2
  <1> QED  BY <1>2, <1>3, <1>4 DEF SeqAfter

\* The distance of two sequence numbers tells the count, up to the width.
LEMMA SeqDistance ==
  ASSUME NEW s \in Nat, NEW a \in Nat
  PROVE  (SeqAfter(s, a) - s) % SeqMod = a % SeqMod
  <1> DEFINE M == SeqMod
             q == (s + a) \div M
             r == (s + a) % M
             p == a \div M
             t == a % M
  <1>1. M \in Nat \ {0}  BY LimitAssumption
  <1>2. s + a = M * q + r /\ q \in Nat /\ r \in 0 .. M - 1
    <2>1. s + a \in Nat  OBVIOUS
    <2> QED  BY <1>1, <2>1, SMTT(30)
  <1>3. a = M * p + t /\ p \in Nat /\ t \in 0 .. M - 1
    BY <1>1, SMTT(30)
  <1>4. SeqAfter(s, a) = r  BY DEF SeqAfter
  <1> HIDE DEF M, q, r, p, t
  <1>5. r - s = M * (p - q) + t
    <2>1. M * (p - q) = M * p - M * q /\ M * p \in Int /\ M * q \in Int
      BY <1>1, <1>2, <1>3, SMTT(30)
    <2> QED  BY <1>2, <1>3, <2>1
  <1>6. (r - s) % M = t
    <2> DEFINE u == p - q
    <2>1. u \in Int /\ r - s = M * u + t  BY <1>2, <1>3, <1>5
    <2> HIDE DEF u
    <2> QED  BY <1>1, <1>3, <2>1, SMTT(30)
  <1> QED  BY <1>4, <1>6 DEF M, t

\* The packets numbered T of a call of which those in sent go out.
SomePackets(kind, F, sent, ticks, T) == {Datagram(kind, F[i], i, sent, ticks) : i \in T}

AsMany(P, T) == IsFiniteSet(P) /\ Cardinality(P) = Cardinality(T)

\* Numbering tells the packets of a call apart: there are as many as indices.
LEMMA AsManyPackets ==
  ASSUME NEW kind, NEW F, NEW sent, NEW ticks, NEW T,
         packets \in Nat, IsFiniteSet(T), T \subseteq Nat
  PROVE  AsMany(SomePackets(kind, F, sent, ticks, T), T)
  <1> DEFINE D(i) == Datagram(kind, F[i], i, sent, ticks)
             P == {D(i) : i \in T}
             f == [i \in T |-> D(i)]
  <1>1. \A i \in T : D(i).number = packets + i  BY DEF Datagram
  <1> HIDE DEF D
  <1>2. \A i, j \in T : f[i] = f[j] => i = j
    <2> SUFFICES ASSUME NEW i \in T, NEW j \in T, D(i) = D(j) PROVE i = j
      OBVIOUS
    <2>1. packets + i = packets + j  BY <1>1
    <2>2. i \in Nat /\ j \in Nat  OBVIOUS
    <2> QED  BY <2>1, <2>2
  <1>3. f \in [T -> P] /\ \A y \in P : \E i \in T : f[i] = y
    OBVIOUS
  <1>4. f \in Bijection(T, P)
    BY <1>2, <1>3 DEF Bijection, Injection, Surjection, IsInjective
  <1>5. ExistsBijection(T, P)  BY <1>4 DEF ExistsBijection
  <1>6. IsFiniteSet(P) /\ Cardinality(P) = Cardinality(T)  BY <1>5, FS_Bijection
  <1>7. SomePackets(kind, F, sent, ticks, T) = P  BY DEF SomePackets, D
  <1> HIDE DEF P
  <1> QED  BY <1>6, <1>7 DEF AsMany

\* The packets of a call after the i-th, and between the i-th and the j-th.
Later(sent, i) == {j \in sent : i < j}
Amid(sent, i, j) == {h \in sent : i < h /\ h < j}

LEMMA SentCounts ==
  ASSUME NEW k \in Nat, NEW sent \in SUBSET (1 .. k), NEW i \in sent
  PROVE  /\ IsFiniteSet(sent) /\ sent \subseteq Nat
         /\ IsFiniteSet(Later(sent, i)) /\ Cardinality(Later(sent, i)) \in Nat
         /\ SentBefore(sent, i) = Cardinality(Earlier(sent, i))
         /\ IsFiniteSet(Earlier(sent, i)) /\ Cardinality(Earlier(sent, i)) \in Nat
         /\ Cardinality(sent) = Cardinality(Earlier(sent, i)) + (1 + Cardinality(Later(sent, i)))
         /\ \A j \in sent : i < j =>
              /\ IsFiniteSet(Amid(sent, i, j)) /\ Cardinality(Amid(sent, i, j)) \in Nat
              /\ Cardinality(Earlier(sent, j))
                   = Cardinality(Earlier(sent, i)) + (1 + Cardinality(Amid(sent, i, j)))
  <1>1. IsFiniteSet(1 .. k) /\ 1 .. k \subseteq Nat  BY FS_Interval
  <1>2. \A T \in SUBSET sent : IsFiniteSet(T) /\ Cardinality(T) \in Nat
    BY <1>1, FS_Subset, FS_CardinalityType
  <1>3. \A j \in sent : j \in Nat  BY <1>1
  <1>4. ASSUME NEW T, NEW U, T \in SUBSET sent, U \in SUBSET sent, T \cap U = {},
               i \notin T, i \notin U
        PROVE  Cardinality(T \cup {i} \cup U) = Cardinality(T) + (1 + Cardinality(U))
    <2>1. /\ IsFiniteSet(T \cup {i}) /\ Cardinality(T \cup {i}) = Cardinality(T) + 1
      BY <1>2, <1>4, FS_AddElement
    <2>2. (T \cup {i}) \cap U = {} /\ IsFiniteSet(U)  BY <1>2, <1>4
    <2>3. Cardinality(T \cup {i} \cup U) = Cardinality(T) + 1 + Cardinality(U) - 0
      BY <2>1, <2>2, FS_Union, FS_EmptySet
    <2> QED  BY <1>2, <1>4, <2>3
  <1>5. Earlier(sent, i) \in SUBSET sent /\ Later(sent, i) \in SUBSET sent
    BY DEF Earlier, Later
  <1>6. Cardinality(sent) = Cardinality(Earlier(sent, i)) + (1 + Cardinality(Later(sent, i)))
    <2>1. sent = Earlier(sent, i) \cup {i} \cup Later(sent, i)
      <3>1. ASSUME NEW h \in sent PROVE h < i \/ h = i \/ i < h  BY <1>3
      <3> QED  BY <3>1 DEF Earlier, Later
    <2>2. /\ Earlier(sent, i) \cap Later(sent, i) = {}
          /\ i \notin Earlier(sent, i) /\ i \notin Later(sent, i)
      <3>1. \A h \in sent : ~ (h < i /\ i < h) /\ ~ (i < i)  BY <1>3
      <3> QED  BY <3>1 DEF Earlier, Later
    <2> QED  BY <1>4, <1>5, <2>1, <2>2
  <1>7. ASSUME NEW j \in sent, i < j
        PROVE  /\ Amid(sent, i, j) \in SUBSET sent
               /\ Cardinality(Earlier(sent, j))
                    = Cardinality(Earlier(sent, i)) + (1 + Cardinality(Amid(sent, i, j)))
    <2>1. Earlier(sent, j) = Earlier(sent, i) \cup {i} \cup Amid(sent, i, j)
      <3>1. ASSUME NEW h \in sent PROVE h < j <=> h < i \/ h = i \/ (i < h /\ h < j)
        BY <1>3, <1>7
      <3> QED  BY <3>1 DEF Earlier, Amid
    <2>2. Amid(sent, i, j) \in SUBSET sent  BY DEF Amid
    <2>3. /\ Earlier(sent, i) \cap Amid(sent, i, j) = {}
          /\ i \notin Earlier(sent, i) /\ i \notin Amid(sent, i, j)
      <3>1. \A h \in sent : ~ (h < i /\ i < h) /\ ~ (i < i)  BY <1>3
      <3> QED  BY <3>1 DEF Earlier, Amid
    <2> QED  BY <1>4, <1>5, <2>1, <2>2, <2>3
  <1>8. SentBefore(sent, i) = Cardinality(Earlier(sent, i))  BY DEF SentBefore, Earlier
  <1> QED  BY <1>2, <1>3, <1>5, <1>6, <1>7, <1>8

\* A call that sends keeps the count.
LEMMA EmitKeepsCount ==
  ASSUME SenderInv, StampInv, CountInv, NEW kind, NEW F, NEW k \in Nat,
         NEW sent \in SUBSET (1 .. k), NEW ticks \in Nat, Sends(kind, F, k, sent, ticks)
  PROVE  CountInv'
  <1> DEFINE D(i) == Datagram(kind, F[i], i, sent, ticks)
             P(T) == SomePackets(kind, F, sent, ticks, T)
             s == sequenceNumber
             c(i) == Cardinality(Earlier(sent, i))
             C(S) == Cardinality(S)
  <1>1. PICK n : n = packets  OBVIOUS
  <1>2. n \in Nat /\ s \in Nat /\ SeqAfter(s, 0) = s
    <2>1. n \in Nat /\ s \in 0 .. SeqMod - 1 /\ SeqMod \in Nat \ {0}
      BY <1>1, BoundAssumption, LimitAssumption DEF SenderInv, TypeOK
    <2> QED  BY <2>1 DEF SeqAfter
  <1>3. /\ IsFiniteSet(wire)
        /\ \A d \in wire : d.restamps = restamps => s = SeqAfter(d.seq, 1 + C(After(d.number)))
        /\ \A d, e \in wire : d.number < e.number /\ d.restamps = e.restamps =>
             e.seq = SeqAfter(d.seq, 1 + C(Between(d.number, e.number)))
    BY DEF CountInv
  <1>4. \A d \in wire : d.number \in Nat /\ d.number <= n /\ d.seq \in Nat
    <2>1. \A d \in wire : d.number \in 1 .. n  BY <1>1 DEF StampInv
    <2>2. \A d \in wire : d.seq \in Nat
      <3>1. \A d \in wire : d.seq \in 0 .. SeqMod - 1 /\ SeqMod \in Nat
        BY LimitAssumption DEF SenderInv, TypeOK, Datagrams
      <3> QED  BY <3>1
    <2> QED  BY <1>2, <2>1, <2>2
  <1>5. wire' = wire \cup P(sent) /\ restamps' = restamps /\ s' = SeqAfter(s, C(sent))
    BY DEF Sends, PacketsOf, SomePackets, Advance, SeqAfter
  <1>6. IsFiniteSet(sent) /\ sent \subseteq Nat /\ \A i \in sent : i \in Nat /\ i >= 1
    <2>1. \A i \in sent : i \in 1 .. k  OBVIOUS
    <2>2. IsFiniteSet(1 .. k)  BY FS_Interval
    <2>3. IsFiniteSet(sent)  BY <2>2, FS_Subset
    <2>4. \A i \in 1 .. k : i \in Nat /\ i >= 1  OBVIOUS
    <2> QED  BY <2>1, <2>3, <2>4
  <1>7. \A i \in sent : /\ D(i).number = n + i /\ D(i).restamps = restamps
                        /\ D(i).seq = SeqAfter(s, c(i)) /\ c(i) \in Nat
    <2>1. \A i \in sent : c(i) = SentBefore(sent, i) /\ c(i) \in Nat  BY SentCounts
    <2> QED  BY <1>1, <2>1 DEF Datagram, SeqAfter
  <1>8. ASSUME NEW i \in sent
         PROVE  /\ C(sent) = c(i) + (1 + C(Later(sent, i))) /\ C(Later(sent, i)) \in Nat
                /\ \A j \in sent : i < j =>
                     c(j) = c(i) + (1 + C(Amid(sent, i, j))) /\ C(Amid(sent, i, j)) \in Nat
    BY SentCounts
  <1>9. \A T \in SUBSET sent : IsFiniteSet(P(T)) /\ C(P(T)) = C(T) /\ C(T) \in Nat
    <2> SUFFICES ASSUME NEW T \in SUBSET sent
                 PROVE  IsFiniteSet(P(T)) /\ C(P(T)) = C(T) /\ C(T) \in Nat
      OBVIOUS
    <2>1. IsFiniteSet(T) /\ T \subseteq Nat  BY <1>6, FS_Subset
    <2>2. AsMany(P(T), T)
      <3>1. packets \in Nat  BY <1>1, <1>2
      <3> QED  BY <2>1, <3>1, AsManyPackets
    <2> QED  BY <2>1, <2>2, FS_CardinalityType DEF AsMany
  <1>10. \A T : \A g \in P(T) : \E i \in T : g = D(i)  BY DEF SomePackets
  <1>11. \A T : \A i \in T : D(i) \in P(T)  BY DEF SomePackets
  <1> HIDE DEF D, P, s, c
  <1>12. \A d \in wire : \A T \in SUBSET sent : d \notin P(T)
    <2> SUFFICES ASSUME NEW d \in wire, NEW T \in SUBSET sent, d \in P(T)
                 PROVE  FALSE
      OBVIOUS
    <2> PICK i \in T : d = D(i)  BY <1>10
    <2>1. d.number = n + i /\ i \in Nat /\ i >= 1  BY <1>6, <1>7
    <2> QED  BY <1>2, <1>4, <2>1
  <1>13. ASSUME NEW S, S \subseteq wire, NEW T \in SUBSET sent
         PROVE  C(S \cup P(T)) = C(S) + C(T) /\ C(S) \in Nat /\ C(T) \in Nat
    <2>1. IsFiniteSet(S) /\ C(S) \in Nat  BY <1>3, <1>13, FS_Subset, FS_CardinalityType
    <2>2. S \cap P(T) = {}  BY <1>12, <1>13
    <2>3. IsFiniteSet(P(T)) /\ C(P(T)) = C(T) /\ C(T) \in Nat  BY <1>9
    <2>4. C(S \cup P(T)) = C(S) + C(P(T)) - 0  BY <2>1, <2>2, <2>3, FS_Union, FS_EmptySet
    <2> QED  BY <2>1, <2>3, <2>4
  <1>14. IsFiniteSet(wire')
    BY <1>3, <1>5, <1>9, FS_Union
  <1>15. \A d \in wire' : d \in wire \/ \E i \in sent : d = D(i)  BY <1>5, <1>10
  \* The packets behind and between, old and new.
  <1>16. ASSUME NEW d \in wire
         PROVE  /\ After(d.number)' = After(d.number) \cup P(sent) /\ After(d.number) \subseteq wire
                /\ \A i \in sent : Between(d.number, n + i)'
                                     = After(d.number) \cup P(Earlier(sent, i))
    <2>1. \A i \in sent : d.number < n + i  BY <1>2, <1>4, <1>6
    <2>2. After(d.number)' = After(d.number) \cup P(sent)
      <3>1. ASSUME NEW g \in P(sent) PROVE d.number < g.number
        <4>1. PICK i \in sent : g = D(i)  BY <1>10
        <4> QED  BY <1>7, <2>1, <4>1
      <3> QED  BY <1>5, <3>1 DEF After
    <2>3. ASSUME NEW i \in sent
          PROVE  Between(d.number, n + i)' = After(d.number) \cup P(Earlier(sent, i))
      <3>1. \A g \in wire : g.number < n + i  BY <1>2, <1>4, <1>6
      <3>2. \A g \in P(Earlier(sent, i)) : g \in wire' /\ d.number < g.number /\ g.number < n + i
        <4>1. ASSUME NEW h \in Earlier(sent, i)
              PROVE  D(h) \in wire' /\ d.number < D(h).number /\ D(h).number < n + i
          <5>1. h \in sent /\ h < i  BY DEF Earlier
          <5>2. h \in Nat /\ i \in Nat  BY <1>6, <5>1
          <5> QED  BY <1>2, <1>5, <1>7, <1>11, <2>1, <5>1, <5>2
        <4> QED  BY <1>10, <4>1
      <3>3. ASSUME NEW g \in P(sent), g.number < n + i
            PROVE  g \in P(Earlier(sent, i))
        <4>1. PICK h \in sent : g = D(h)  BY <1>10
        <4>2. n + h < n + i /\ h \in Nat /\ i \in Nat  BY <1>6, <1>7, <3>3, <4>1
        <4>3. h < i  BY <1>2, <4>2
        <4>4. h \in Earlier(sent, i)  BY <4>3 DEF Earlier
        <4> QED  BY <1>11, <4>1, <4>4
      <3>4. \A g : g \in Between(d.number, n + i)' <=>
                     g \in wire' /\ d.number < g.number /\ g.number < n + i
        BY DEF Between
      <3>5. \A g : g \in After(d.number) <=> g \in wire /\ d.number < g.number
        BY DEF After
      <3>6. \A g : g \in Between(d.number, n + i)' <=>
                     g \in After(d.number) \/ g \in P(Earlier(sent, i))
        BY <1>5, <3>1, <3>2, <3>3, <3>4, <3>5
      <3> QED  BY <3>6
    <2> QED  BY <2>2, <2>3 DEF After
  <1>17. ASSUME NEW i \in sent
         PROVE  /\ After(n + i)' = {} \cup P(Later(sent, i))
                /\ \A j \in sent : Between(n + i, n + j)' = {} \cup P(Amid(sent, i, j))
    <2>1. \A g \in wire : ~ (n + i < g.number)  BY <1>2, <1>4, <1>6
    <2>2. \A h \in sent : n + i < D(h).number <=> h \in Later(sent, i)
      <3>1. \A h \in sent : h \in Nat /\ i \in Nat  BY <1>6
      <3> QED  BY <1>2, <1>7, <3>1 DEF Later
    <2>3. \A j \in sent : \A h \in sent :
             n + i < D(h).number /\ D(h).number < n + j <=> h \in Amid(sent, i, j)
      <3>1. \A h \in sent : h \in Nat /\ i \in Nat  BY <1>6
      <3> QED  BY <1>2, <1>7, <3>1 DEF Amid
    <2>4. ASSUME NEW T \in SUBSET sent, NEW g \in P(T) PROVE g \in P(sent)
      <3>1. PICK h \in T : g = D(h)  BY <1>10
      <3> QED  BY <1>11, <3>1
    <2>5. Later(sent, i) \in SUBSET sent /\ \A j : Amid(sent, i, j) \in SUBSET sent
      BY DEF Later, Amid
    <2>6. \A g : g \in After(n + i)' <=> g \in wire' /\ n + i < g.number
      BY DEF After
    <2>7. \A g : g \in After(n + i)' <=> g \in P(Later(sent, i))
      <3>1. ASSUME NEW g \in P(sent), n + i < g.number PROVE g \in P(Later(sent, i))
        <4>1. PICK h \in sent : g = D(h)  BY <1>10
        <4> QED  BY <1>11, <2>2, <3>1, <4>1
      <3>2. ASSUME NEW g \in P(Later(sent, i)) PROVE g \in P(sent) /\ n + i < g.number
        <4>1. PICK h \in Later(sent, i) : g = D(h)  BY <1>10
        <4> QED  BY <2>2, <2>4, <2>5, <4>1
      <3> QED  BY <1>5, <2>1, <2>6, <3>1, <3>2
    <2>8. ASSUME NEW j \in sent
          PROVE  \A g : g \in Between(n + i, n + j)' <=> g \in P(Amid(sent, i, j))
      <3>1. ASSUME NEW g \in P(sent), n + i < g.number, g.number < n + j
            PROVE  g \in P(Amid(sent, i, j))
        <4>1. PICK h \in sent : g = D(h)  BY <1>10
        <4> QED  BY <1>11, <2>3, <3>1, <4>1
      <3>2. ASSUME NEW g \in P(Amid(sent, i, j))
            PROVE  g \in P(sent) /\ n + i < g.number /\ g.number < n + j
        <4>1. PICK h \in Amid(sent, i, j) : g = D(h)  BY <1>10
        <4> QED  BY <2>3, <2>4, <2>5, <4>1
      <3>3. \A g : g \in Between(n + i, n + j)' <=>
                     g \in wire' /\ n + i < g.number /\ g.number < n + j
        BY DEF Between
      <3> QED  BY <1>5, <2>1, <3>1, <3>2, <3>3
    <2> QED  BY <2>7, <2>8
  <1>18. \A d, e \in wire : Between(d.number, e.number)' = Between(d.number, e.number)
    <2> SUFFICES ASSUME NEW d \in wire, NEW e \in wire
                 PROVE  Between(d.number, e.number)' = Between(d.number, e.number)
      OBVIOUS
    <2>1. ASSUME NEW g \in P(sent) PROVE ~ (g.number < e.number)
      <3>1. PICK i \in sent : g = D(i)  BY <1>10
      <3>2. g.number = n + i /\ i \in Nat  BY <1>6, <1>7, <3>1
      <3> QED  BY <1>2, <1>4, <3>2
    <2> QED  BY <1>5, <2>1 DEF Between
  \* What they come to.
  <1>19. ASSUME NEW d \in wire', d.restamps = restamps
         PROVE  s' = SeqAfter(d.seq, 1 + C(After(d.number)'))
    <2>1. CASE d \in wire
      <3>1. C(After(d.number)') = C(After(d.number)) + C(sent)
            /\ C(After(d.number)) \in Nat /\ C(sent) \in Nat
        BY <1>13, <1>16, <2>1
      <3>2. s = SeqAfter(d.seq, 1 + C(After(d.number))) /\ d.seq \in Nat
        BY <1>3, <1>4, <1>19, <2>1
      <3>3. SeqAfter(s, C(sent)) = SeqAfter(d.seq, (1 + C(After(d.number))) + C(sent))
        <4>1. 1 + C(After(d.number)) \in Nat  BY <3>1
        <4> QED  BY <3>1, <3>2, <4>1, SeqAfterSum, ZenonT(60)
      <3>4. (1 + C(After(d.number))) + C(sent) = 1 + C(After(d.number)')
        BY <3>1
      <3> QED  BY <1>5, <3>3, <3>4
    <2>2. ASSUME NEW i \in sent, d = D(i)
          PROVE  s' = SeqAfter(d.seq, 1 + C(After(d.number)'))
      <3>1. d.number = n + i /\ d.seq = SeqAfter(s, c(i)) /\ c(i) \in Nat  BY <1>7, <2>2
      <3>2. C(After(n + i)') = C(Later(sent, i))
        <4>1. {} \subseteq wire /\ Later(sent, i) \in SUBSET sent  BY DEF Later
        <4>2. C({} \cup P(Later(sent, i))) = C({}) + C(Later(sent, i)) /\ C(Later(sent, i)) \in Nat
          BY <1>13, <4>1
        <4>3. C({}) = 0  BY FS_EmptySet
        <4> QED  BY <1>17, <4>2, <4>3
      <3>3. C(sent) = c(i) + (1 + C(Later(sent, i))) /\ 1 + C(Later(sent, i)) \in Nat
        BY <1>8
      <3>4. SeqAfter(SeqAfter(s, c(i)), 1 + C(Later(sent, i)))
              = SeqAfter(s, c(i) + (1 + C(Later(sent, i))))
        BY <1>2, <3>1, <3>3, SeqAfterSum
      <3> QED  BY <1>5, <3>1, <3>2, <3>3, <3>4
    <2> QED  BY <1>15, <2>1, <2>2
  <1>20. ASSUME NEW d \in wire', NEW e \in wire', d.number < e.number, d.restamps = e.restamps
         PROVE  e.seq = SeqAfter(d.seq, 1 + C(Between(d.number, e.number)'))
    <2>1. CASE d \in wire /\ e \in wire
      BY <1>3, <1>18, <1>20, <2>1
    <2>2. ASSUME d \in wire, NEW i \in sent, e = D(i)
          PROVE  e.seq = SeqAfter(d.seq, 1 + C(Between(d.number, e.number)'))
      <3>1. e.number = n + i /\ e.seq = SeqAfter(s, c(i)) /\ c(i) \in Nat
            /\ e.restamps = restamps
        BY <1>7, <2>2
      <3>2. Earlier(sent, i) \in SUBSET sent  BY DEF Earlier
      <3>3. C(Between(d.number, n + i)') = C(After(d.number)) + c(i)
            /\ C(After(d.number)) \in Nat
        BY <1>13, <1>16, <2>2, <3>2 DEF c
      <3>4. s = SeqAfter(d.seq, 1 + C(After(d.number))) /\ d.seq \in Nat
        BY <1>3, <1>4, <1>20, <2>2, <3>1
      <3>5. SeqAfter(s, c(i)) = SeqAfter(d.seq, (1 + C(After(d.number))) + c(i))
        <4>1. 1 + C(After(d.number)) \in Nat  BY <3>3
        <4> QED  BY <3>1, <3>4, <4>1, SeqAfterSum
      <3>6. (1 + C(After(d.number))) + c(i) = 1 + C(Between(d.number, n + i)')
        BY <3>1, <3>3
      <3> QED  BY <3>1, <3>5, <3>6
    <2>3. ASSUME NEW i \in sent, d = D(i), e \in wire
          PROVE  FALSE
      <3>1. d.number = n + i /\ i \in Nat  BY <1>6, <1>7, <2>3
      <3> QED  BY <1>2, <1>4, <1>20, <2>3, <3>1
    <2>4. ASSUME NEW i \in sent, d = D(i), NEW j \in sent, e = D(j)
          PROVE  e.seq = SeqAfter(d.seq, 1 + C(Between(d.number, e.number)'))
      <3>1. /\ d.number = n + i /\ d.seq = SeqAfter(s, c(i)) /\ c(i) \in Nat
            /\ e.number = n + j /\ e.seq = SeqAfter(s, c(j)) /\ i \in Nat /\ j \in Nat
        BY <1>6, <1>7, <2>4
      <3>2. i < j  BY <1>2, <1>20, <3>1
      <3>3. Amid(sent, i, j) \in SUBSET sent /\ {} \subseteq wire  BY DEF Amid
      <3>4. C(Between(n + i, n + j)') = C(Amid(sent, i, j)) /\ C(Amid(sent, i, j)) \in Nat
        <4>1. C({} \cup P(Amid(sent, i, j))) = C({}) + C(Amid(sent, i, j))
              /\ C(Amid(sent, i, j)) \in Nat
          BY <1>13, <3>3
        <4>2. C({}) = 0  BY FS_EmptySet
        <4> QED  BY <1>17, <4>1, <4>2
      <3>5. c(j) = c(i) + (1 + C(Amid(sent, i, j))) /\ 1 + C(Amid(sent, i, j)) \in Nat
        BY <1>8, <3>2, <3>4
      <3>6. SeqAfter(SeqAfter(s, c(i)), 1 + C(Amid(sent, i, j)))
              = SeqAfter(s, c(i) + (1 + C(Amid(sent, i, j))))
        BY <1>2, <3>1, <3>5, SeqAfterSum
      <3> QED  BY <3>1, <3>4, <3>5, <3>6
    <2> QED  BY <1>15, <1>20, <2>1, <2>2, <2>3, <2>4
  <1>21. (\A d \in wire : d.restamps = restamps =>
            sequenceNumber = SeqAfter(d.seq, 1 + Cardinality(After(d.number))))'
    BY <1>5, <1>19 DEF s
  <1>22. (\A d, e \in wire : d.number < e.number /\ d.restamps = e.restamps =>
            e.seq = SeqAfter(d.seq, 1 + Cardinality(Between(d.number, e.number))))'
    BY <1>20
  <1> QED  BY <1>14, <1>21, <1>22 DEF CountInv

LEMMA CountHolds == Spec => []CountInv
  <1>1. Init => CountInv
    <2> SUFFICES ASSUME Init PROVE CountInv
      OBVIOUS
    <2>1. wire = {}  BY DEF Init
    <2> QED  BY <2>1, FS_EmptySet DEF CountInv
  <1>2. SenderInv /\ StampInv /\ CountInv /\ [Next]_vars => CountInv'
    <2> SUFFICES ASSUME SenderInv, StampInv, CountInv, [Next]_vars PROVE CountInv'
      OBVIOUS
    <2>1. PacketCall => CountInv'  BY PacketCallSends, EmitKeepsCount DEF SendsSome
    <2>2. ASSUME QuietCall PROVE CountInv'
      <3>1. wire' = wire  BY <2>2 DEF QuietCall
      <3>2. \A n : After(n)' = After(n) /\ \A m : Between(m, n)' = Between(m, n)
        BY <3>1 DEF After, Between
      <3>3. CASE UNCHANGED <<sequenceNumber, timestamp, restamps>>
        BY <3>1, <3>2, <3>3 DEF CountInv
      <3>4. CASE restamps' = restamps + 1
        <4>1. \A d \in wire : d.restamps # restamps + 1
          <5>1. restamps \in Nat  BY BoundAssumption DEF SenderInv, TypeOK
          <5>2. \A d \in wire : d.restamps \in 0 .. restamps  BY DEF StampInv
          <5> QED  BY <5>1, <5>2
        <4> QED  BY <3>1, <3>2, <3>4, <4>1 DEF CountInv
      <3> QED  BY <2>2, <3>3, <3>4 DEF QuietCall
    <2> QED  BY <2>1, <2>2, CallsSplit
  <1> QED  BY <1>1, <1>2, SenderInvHolds, StampsHold, PTL DEF Spec

-----------------------------------------------------------------------------
\* The slots of s are numbered on from somewhere.
InTurn(s) == \E from \in Nat : Numbered(s, from)

\* The inductive invariant for the order: a later packet holds later frames, and
\* what is pending is later than all of them.
OrderInv ==
  /\ \A d \in wire : InTurn(d.slots) /\ Ids(d.slots) \subseteq 1 .. Settled
  /\ \A d, e \in wire : d.number < e.number => Before(Ids(d.slots), Ids(e.slots))

\* The packets F hold in turn frames behind the first `from`, up to `to`.
PacketsInTurn(F, k, from, to) ==
  /\ \A i \in 1 .. k : InTurn(F[i]) /\ \A x \in Ids(F[i]) : from < x /\ x <= to
  /\ \A i, j \in 1 .. k : i < j => Before(Ids(F[i]), Ids(F[j]))

LEMMA EmitKeepsOrder ==
  ASSUME SenderInv, StampInv, OrderInv, Settled \in Nat, NEW t \in Nat, Settled <= t, Settled' = t,
         NEW kind, NEW F, NEW k \in Nat, NEW sent \in SUBSET (1 .. k), NEW ticks,
         PacketsInTurn(F, k, Settled, t),
         wire' = wire \cup PacketsOf(kind, F, sent, ticks)
  PROVE  OrderInv'
  <1> DEFINE D(i) == Datagram(kind, F[i], i, sent, ticks)
  <1>1. PICK n : n = packets  OBVIOUS
  <1>2. n \in Nat /\ \A d \in wire : d.number \in Nat /\ d.number <= n
    <2>1. n \in Nat  BY <1>1, BoundAssumption DEF SenderInv, TypeOK
    <2>2. \A d \in wire : d.number \in 1 .. n  BY <1>1 DEF StampInv
    <2> QED  BY <2>1, <2>2
  <1>3. \A d \in wire' : d \in wire \/ \E i \in sent : d = D(i)  BY DEF PacketsOf
  <1>4. \A i \in sent : /\ D(i).number = n + i /\ D(i).slots = F[i]
                        /\ i \in 1 .. k /\ i \in Nat /\ i >= 1
    BY <1>1 DEF Datagram
  <1>5. PICK m : m = Settled  OBVIOUS
  <1>6. /\ \A d \in wire : InTurn(d.slots) /\ \A x \in Ids(d.slots) : x \in Nat /\ 1 <= x /\ x <= m
        /\ \A d, e \in wire : d.number < e.number => Before(Ids(d.slots), Ids(e.slots))
    BY <1>5 DEF OrderInv
  <1>7. /\ \A i \in 1 .. k : InTurn(F[i]) /\ \A x \in Ids(F[i]) : m < x /\ x <= t
        /\ \A i, j \in 1 .. k : i < j => Before(Ids(F[i]), Ids(F[j]))
        /\ m \in Nat /\ m <= t
    BY <1>5 DEF PacketsInTurn
  <1>8. \A i \in 1 .. k : \A x \in Ids(F[i]) : x \in Nat
    <2> SUFFICES ASSUME NEW i \in 1 .. k, NEW x \in Ids(F[i]) PROVE x \in Nat
      OBVIOUS
    <2>1. PICK from \in Nat : Numbered(F[i], from)  BY <1>7 DEF InTurn
    <2>2. PICK j \in 1 .. Len(F[i]) : x = F[i][j].id /\ x # 0  BY DEF Ids
    <2>3. x = from + j  BY <2>1, <2>2 DEF Numbered
    <2>4. j \in Nat  OBVIOUS
    <2> QED  BY <2>3, <2>4
  <1> HIDE DEF D
  <1>9. ASSUME NEW d \in wire' PROVE InTurn(d.slots) /\ Ids(d.slots) \subseteq 1 .. t
    <2>1. CASE d \in wire
      <3>1. \A x \in Ids(d.slots) : x \in Nat /\ 1 <= x /\ x <= t  BY <1>6, <1>7, <2>1
      <3> QED  BY <1>6, <2>1, <3>1
    <2>2. ASSUME NEW i \in sent, d = D(i) PROVE InTurn(d.slots) /\ Ids(d.slots) \subseteq 1 .. t
      <3>1. d.slots = F[i] /\ i \in 1 .. k  BY <1>4, <2>2
      <3>2. \A x \in Ids(F[i]) : x \in 1 .. t
        <4>1. \A x \in Ids(F[i]) : x \in Nat /\ m < x /\ x <= t  BY <1>7, <1>8, <3>1
        <4> QED  BY <1>7, <4>1
      <3> QED  BY <1>7, <3>1, <3>2
    <2> QED  BY <1>3, <2>1, <2>2
  <1>10. ASSUME NEW d \in wire', NEW e \in wire', d.number < e.number,
                NEW x \in Ids(d.slots), NEW y \in Ids(e.slots)
         PROVE  x < y
    <2>1. CASE d \in wire /\ e \in wire  BY <1>6, <1>10, <2>1 DEF Before
    <2>2. ASSUME d \in wire, NEW i \in sent, e = D(i) PROVE x < y
      <3>1. y \in Ids(F[i]) /\ i \in 1 .. k  BY <1>4, <1>10, <2>2
      <3>2. m < y /\ y \in Nat  BY <1>7, <1>8, <3>1
      <3>3. x <= m /\ x \in Nat  BY <1>6, <1>10, <2>2
      <3> QED  BY <1>7, <3>2, <3>3
    <2>3. ASSUME NEW i \in sent, d = D(i), e \in wire PROVE FALSE
      BY <1>2, <1>4, <1>10, <2>3
    <2>4. ASSUME NEW i \in sent, d = D(i), NEW j \in sent, e = D(j) PROVE x < y
      <3>1. i < j  BY <1>2, <1>4, <1>10, <2>4
      <3>2. x \in Ids(F[i]) /\ y \in Ids(F[j])  BY <1>4, <1>10, <2>4
      <3> QED  BY <1>4, <1>7, <3>1, <3>2 DEF Before
    <2> QED  BY <1>3, <1>10, <2>1, <2>2, <2>3, <2>4
  <1>11. (\A d \in wire : InTurn(d.slots) /\ Ids(d.slots) \subseteq 1 .. Settled)'
    BY <1>9 DEF InTurn, Numbered, Ids
  <1>12. (\A d, e \in wire : d.number < e.number => Before(Ids(d.slots), Ids(e.slots)))'
    BY <1>10 DEF Before, Ids
  <1> QED  BY <1>11, <1>12 DEF OrderInv

\* The packets of one writeFrames() are cut in a row, out of the slots gathered.
LEMMA PacketIsCut ==
  ASSUME SenderInv, BookInv, NEW n \in WriteSizes, samplesPerPacket > 0,
         NEW i \in 1 .. FullPackets(n)
  PROVE  InTurn(PacketSlots(n, i)) /\ Elements(PacketSlots(n, i)) \subseteq Elements(Gathered(n))
  <1> DEFINE g == Gathered(n)
             b == samplesPerPacket
             k == FullPackets(n)
             s == PacketSlots(n, i)
             T == SlotsOf(format, written + n)
             x == (i - 1) * b
  <1>1. b \in Nat \ {0}  BY FormatSet DEF SenderInv
  <1>2. g \in Seq(T) /\ Numbered(g, Settled) /\ Settled \in Nat  BY GatheredIds, PendingFacts
  <1>3. k = Len(g) \div b /\ s = SubSeq(g, (i - 1) * b + 1, i * b)  BY DEF FullPackets, PacketSlots
  <1> HIDE DEF g, b, k, s, T
  <1>4. Len(g) \in Nat  BY <1>2, LenProperties
  <1>5. k \in Nat /\ b * k <= Len(g) /\ i \in 1 .. Len(g) \div b
    <2>1. k \in Nat /\ b * k <= Len(g)  BY <1>1, <1>3, <1>4, DivBounds
    <2> QED  BY <1>3, <2>1 DEF k
  <1>6. s \in Seq(T) /\ Len(s) = b /\ CutAt(s, g, (i - 1) * b)
    <2>1. /\ SubSeq(g, (i - 1) * b + 1, i * b) \in Seq(T)
          /\ Len(SubSeq(g, (i - 1) * b + 1, i * b)) = b
          /\ CutAt(SubSeq(g, (i - 1) * b + 1, i * b), g, (i - 1) * b)
      BY <1>1, <1>2, <1>5, PacketCut
    <2> QED  BY <1>3, <2>1, Zenon
  <1>7. x \in Nat /\ i * b = x + b /\ i * b <= k * b /\ i * b \in Nat
    BY <1>1, <1>5, RowsFit DEF k
  <1>8. k * b = b * k  BY <1>1, <1>5, SMTT(30)
  <1>9. CutAt(s, g, x)  BY <1>6
  <1> HIDE DEF x
  <1>10. x + Len(s) <= Len(g) /\ Settled + x \in Nat
    <2>1. k * b <= Len(g)  BY <1>5, <1>8
    <2>2. k * b \in Int /\ i * b \in Int /\ i * b <= k * b /\ i * b = x + b
      BY <1>1, <1>5, <1>7
    <2>3. PICK y : y = k * b  OBVIOUS
    <2>4. PICK z : z = i * b  OBVIOUS
    <2>5. z \in Int /\ y \in Int /\ z <= y /\ y <= Len(g) /\ z = x + b
      BY <2>1, <2>2, <2>3, <2>4
    <2> QED  BY <1>1, <1>2, <1>4, <1>6, <1>7, <2>5
  <1>11. Numbered(s, Settled + x)
    <2>1. PICK y : y = s  OBVIOUS
    <2>2. y \in Seq(T) /\ CutAt(y, g, x) /\ x \in Nat /\ x + Len(y) <= Len(g)
      BY <1>6, <1>7, <1>9, <1>10, <2>1
    <2>3. Numbered(y, Settled + x)  BY <1>2, <2>2, IdsOfCut
    <2> QED  BY <2>1, <2>3
  <1>12. InTurn(s)
    <2>1. PICK y : y = Settled + x  OBVIOUS
    <2> QED  BY <1>10, <1>11, <2>1 DEF InTurn
  <1>13. ASSUME NEW j \in 1 .. Len(s) PROVE s[j] \in Elements(g)
    <2>1. s[j] = g[x + j]  BY <1>9 DEF CutAt
    <2>2. x + j \in 1 .. Len(g)  BY <1>1, <1>4, <1>6, <1>7, <1>10
    <2> QED  BY <2>1, <2>2 DEF Elements
  <1>14. Elements(s) \subseteq Elements(g)  BY <1>13 DEF Elements
  <1> QED  BY <1>12, <1>14 DEF s, g

LEMMA RemainderIsCut ==
  ASSUME SenderInv, BookInv, NEW n \in WriteSizes, samplesPerPacket > 0
  PROVE  Elements(Remainder(n)) \subseteq Elements(Gathered(n))
  <1> DEFINE g == Gathered(n)
             b == samplesPerPacket
             r == Remainder(n)
             T == SlotsOf(format, written + n)
             x == (Len(g) \div b) * b
  <1>1. b \in Nat \ {0}  BY FormatSet DEF SenderInv
  <1>2. g \in Seq(T)  BY GatheredIds
  <1>3. r = SubSeq(g, (Len(g) \div b) * b + 1, Len(g))  BY DEF Remainder, FullPackets
  <1> HIDE DEF g, b, r, T
  <1>4. Len(r) \in Nat /\ Len(r) + x = Len(g) /\ CutAt(r, g, x)
    BY <1>1, <1>2, <1>3, RestCut
  <1>5. Len(g) \in Nat /\ x \in Nat
    <2>1. Len(g) \in Nat  BY <1>2, LenProperties
    <2>2. Len(g) \div b \in Nat  BY <1>1, <2>1, DivBounds
    <2> QED  BY <1>1, <2>1, <2>2, SMTT(30)
  <1> HIDE DEF x
  <1>6. ASSUME NEW j \in 1 .. Len(r) PROVE r[j] \in Elements(g)
    <2>1. r[j] = g[x + j]  BY <1>4 DEF CutAt
    <2>2. x + j \in 1 .. Len(g)  BY <1>4, <1>5
    <2> QED  BY <2>1, <2>2 DEF Elements
  <1>7. Elements(r) \subseteq Elements(g)  BY <1>6 DEF Elements
  <1> QED  BY <1>7 DEF r, g

LEMMA WriteKeepsOrder ==
  ASSUME SenderInv, StampInv, BookInv, OrderInv, NEW n \in WriteSizes, WriteFrames(n)
  PROVE  OrderInv'
  <1> DEFINE g == Gathered(n)
             b == samplesPerPacket
             k == FullPackets(n)
             r == Remainder(n)
  <1>1. PICK sent \in SUBSET (1 .. k) : Emit(n, sent)  BY DEF WriteFrames
  <1>2. b > 0 /\ pending' = r /\ written' = written + n  BY DEF WriteFrames
  <1>3. PICK F : F = [i \in 1 .. k |-> PacketSlots(n, i)]  OBVIOUS
  <1>4. /\ CutInRows(F, r, g, k, b) /\ k \in Nat
        /\ Len(r) \in Nat /\ k * b \in Nat /\ Len(r) + k * b = Len(g)
    BY <1>2, <1>3, WriteCuts
  <1>5. n \in Nat \ {0} /\ Len(g) = Len(pending) + n  BY GatheredIds
  <1>6. /\ written \in Nat /\ Len(pending) \in Nat /\ Settled \in Nat
        /\ Settled + Len(pending) = written
    BY PendingFacts
  <1>7. b \in Nat \ {0}  BY <1>2, FormatSet DEF SenderInv
  <1>8. wire' = wire \cup PacketsOf("l16", F, sent, b)
    <2>1. wire' = wire \cup {Datagram("l16", PacketSlots(n, i), i, sent, b) : i \in sent}
      BY <1>1 DEF Emit
    <2>2. \A i \in sent : F[i] = PacketSlots(n, i)  BY <1>1, <1>3
    <2> QED  BY <2>1, <2>2 DEF PacketsOf
  <1>9. \A i \in 1 .. k : InTurn(F[i])
    <2> SUFFICES ASSUME NEW i \in 1 .. k PROVE InTurn(F[i])
      OBVIOUS
    <2>1. F[i] = PacketSlots(n, i)  BY <1>3
    <2>2. InTurn(PacketSlots(n, i))  BY <1>2, PacketIsCut
    <2> QED  BY <2>1, <2>2
  <1> HIDE DEF g, b, k, r
  <1>10. PICK x : x = k * b  OBVIOUS
  <1>11. PICK t : t = Settled + x  OBVIOUS
  <1>12. x \in Nat /\ t \in Nat /\ Settled <= t  BY <1>4, <1>6, <1>10, <1>11
  <1>13. Settled' = t
    <2>1. Len(r) + x = Len(pending) + n /\ Len(r) \in Nat  BY <1>4, <1>5, <1>10
    <2>2. (written + n) - Len(r) = Settled + x  BY <1>5, <1>6, <1>12, <2>1
    <2>3. Settled' = (written + n) - Len(r)  BY <1>2 DEF Settled
    <2> QED  BY <1>11, <2>2, <2>3
  <1>14. PacketsInTurn(F, k, Settled, t)
    <2>1. RowsWithin(Settled, b, k) /\ RowsAscend(Settled, b, k)
      BY <1>4, <1>6, <1>7, RowsPartition
    <2>2. \A i \in 1 .. k : Ids(F[i]) \subseteq Row(Settled, b, i)
      BY <1>4 DEF CutInRows
    <2>3. \A i \in 1 .. k : \A y \in Row(Settled, b, i) : Settled < y /\ y <= t
      <3>1. \A i \in 1 .. k : \A y \in Row(Settled, b, i) : y \in Settled + 1 .. Settled + k * b
        BY <2>1 DEF RowsWithin
      <3>2. \A y \in Settled + 1 .. t : Settled < y /\ y <= t  BY <1>6, <1>12
      <3> QED  BY <1>10, <1>11, <3>1, <3>2
    <2>4. \A i, j \in 1 .. k : i < j => Before(Row(Settled, b, i), Row(Settled, b, j))
      BY <2>1 DEF RowsAscend, Before
    <2>5. \A i \in 1 .. k : \A y \in Ids(F[i]) : Settled < y /\ y <= t  BY <2>2, <2>3
    <2>6. \A i, j \in 1 .. k : i < j => Before(Ids(F[i]), Ids(F[j]))
      BY <2>2, <2>4 DEF Before
    <2> QED  BY <1>9, <2>5, <2>6 DEF PacketsInTurn
  <1>15. sent \in SUBSET (1 .. k)  BY <1>1 DEF k
  <1> QED  BY <1>4, <1>6, <1>8, <1>12, <1>13, <1>14, <1>15, EmitKeepsOrder

\* flush() and writeEncoded(): one packet, of what is pending or of no frame.
LEMMA OnePacketKeepsOrder ==
  ASSUME SenderInv, StampInv, BookInv, OrderInv,
         \/ \E ok \in BOOLEAN : Flush(ok)
         \/ \E count \in EncodedSizes, ok \in BOOLEAN : WriteEncoded(count, ok)
  PROVE  OrderInv'
  <1>1. /\ written \in Nat /\ Len(pending) \in Nat /\ Settled \in Nat
        /\ Settled + Len(pending) = written /\ Ids(pending) \subseteq Settled + 1 .. written
    BY PendingFacts
  <1>2. ASSUME NEW ok \in BOOLEAN, Flush(ok) PROVE OrderInv'
    <2>1. PICK sent : sent = IF ok THEN {1} ELSE {}  OBVIOUS
    <2>2. PICK F : F = <<pending>>  OBVIOUS
    <2>3. /\ wire' = wire \cup PacketsOf("l16", F, sent, Len(pending))
          /\ pending' = <<>> /\ written' = written
      BY <1>2, <2>1, <2>2 DEF Flush, PacketsOf
    <2>4. Settled' = written /\ Settled <= written  BY <1>1, <2>3 DEF Settled
    <2>5. PacketsInTurn(F, 1, Settled, written)
      <3>1. InTurn(pending)  BY <1>1 DEF InTurn, BookInv
      <3>2. \A x \in Ids(pending) : Settled < x /\ x <= written  BY <1>1
      <3>3. \A i \in 1 .. 1 : F[i] = pending /\ \A j \in 1 .. 1 : ~ (i < j)  BY <2>2
      <3> QED  BY <3>1, <3>2, <3>3 DEF PacketsInTurn
    <2>6. sent \in SUBSET (1 .. 1) /\ 1 \in Nat  BY <2>1
    <2> QED  BY <1>1, <2>3, <2>4, <2>5, <2>6, EmitKeepsOrder
  <1>3. ASSUME NEW count \in EncodedSizes, NEW ok \in BOOLEAN, WriteEncoded(count, ok)
        PROVE  OrderInv'
    <2>1. PICK sent : sent = IF ok THEN {1} ELSE {}  OBVIOUS
    <2>2. PICK F : F = <<<<>>>>  OBVIOUS
    <2>3. /\ wire' = wire \cup PacketsOf("encoded", F, sent, tsIncrement)
          /\ pending' = Clobbered(count) /\ written' = written
      BY <1>3, <2>1, <2>2 DEF WriteEncoded, PacketsOf
    <2>4. Len(pending') = Len(pending)  BY <2>3, ApplicationAssumption, ClobberedSlots
    <2>5. Settled' = Settled  BY <2>3, <2>4 DEF Settled
    <2>6. PacketsInTurn(F, 1, Settled, Settled)
      <3>1. Ids(<<>>) = {} /\ Numbered(<<>>, 0)  BY DEF Ids, Numbered
      <3>2. \A i \in 1 .. 1 : F[i] = <<>> /\ \A j \in 1 .. 1 : ~ (i < j)  BY <2>2
      <3> QED  BY <3>1, <3>2 DEF PacketsInTurn, InTurn
    <2>7. sent \in SUBSET (1 .. 1) /\ 1 \in Nat /\ Settled <= Settled  BY <1>1, <2>1
    <2> QED  BY <1>1, <2>3, <2>5, <2>6, <2>7, EmitKeepsOrder
  <1> QED  BY <1>2, <1>3

LEMMA OrderHolds == Spec => []OrderInv
  <1>1. Init => OrderInv
    <2> SUFFICES ASSUME Init PROVE OrderInv
      OBVIOUS
    <2>1. wire = {}  BY DEF Init
    <2> QED  BY <2>1 DEF OrderInv
  <1>2. SenderInv /\ StampInv /\ BookInv /\ OrderInv /\ [Next]_vars => OrderInv'
    <2> SUFFICES ASSUME SenderInv, StampInv, BookInv, OrderInv, [Next]_vars PROVE OrderInv'
      OBVIOUS
    <2>1. PacketCall => OrderInv'
      BY WriteKeepsOrder, OnePacketKeepsOrder DEF PacketCall
    <2>2. ASSUME QuietCall PROVE OrderInv'
      <3>1. /\ wire' = wire /\ written' = written
            /\ pending' = pending \/ pending' = <<>>
        BY <2>2 DEF QuietCall
      <3>2. /\ written \in Nat /\ Len(pending) \in Nat /\ Settled \in Nat
            /\ Settled + Len(pending) = written
        BY PendingFacts
      <3>3. Settled' = Settled \/ Settled' = written  BY <3>1, <3>2 DEF Settled
      <3>4. 1 .. Settled \subseteq 1 .. Settled'  BY <3>2, <3>3
      <3>5. (\A d \in wire : InTurn(d.slots) /\ Ids(d.slots) \subseteq 1 .. Settled)'
        <4>1. \A d \in wire : InTurn(d.slots) /\ Ids(d.slots) \subseteq 1 .. Settled'
          BY <3>4 DEF OrderInv
        <4> QED  BY <3>1, <4>1 DEF InTurn, Numbered, Ids
      <3>6. (\A d, e \in wire : d.number < e.number => Before(Ids(d.slots), Ids(e.slots)))'
        BY <3>1 DEF OrderInv, Before, Ids
      <3> QED  BY <3>5, <3>6 DEF OrderInv
    <2> QED  BY <2>1, <2>2, CallsSplit
  <1> QED  BY <1>1, <1>2, SenderInvHolds, StampsHold, BookHolds, PTL DEF Spec

-----------------------------------------------------------------------------
\* None of these slots was written over.
Intact(slots) == \A s \in Elements(slots) : s.id # 0

\* What the link's packets hold: frames, or for a codec packet none and a payload
\* type that is not the receiver's for L16.
LinkPacket(d) ==
  /\ d.kind = "l16" => Intact(d.slots)
  /\ d.kind = "encoded" => d.slots = <<>> /\ d.pt \notin {L16Mono, L16Stereo}

\* The inductive invariant for the wire: writeEncoded() is called for codec types
\* only, and then there is nothing pending to write over.
WireInv ==
  /\ Intact(pending)
  /\ payloadType \in {L16Mono, L16Stereo} => isL16
  /\ \A d \in wire : LinkPacket(d)

LEMMA NoSlots == Intact(<<>>)
  BY DEF Intact, Elements

LEMMA WireStep ==
  ASSUME SenderInv, BookInv, WireInv, [LinkNext]_linkVars
  PROVE  WireInv'
  <1>1. ASSUME UNCHANGED vars PROVE WireInv'
    BY <1>1 DEF WireInv, vars, config, history
  <1>2. ASSUME NEW source \in Ssrcs, NEW seq \in Starts, NEW ts \in Starts,
               OpenSender(source, seq, ts)
        PROVE  WireInv'
    <2>1. pending' = <<>> /\ UNCHANGED <<wire, payloadType, isL16>>
      BY <1>2 DEF OpenSender, SenderStep, Begin, DropPending
    <2> QED  BY <2>1, NoSlots DEF WireInv
  <1>3. ASSUME NEW f \in Formats, ChangeFormat(f) PROVE WireInv'
    <2>1. pending' = <<>> /\ wire' = wire /\ isL16' = TRUE
      BY <1>3 DEF ChangeFormat, SenderStep, SetFormat, DropPending
    <2> QED  BY <2>1, NoSlots DEF WireInv
  <1>4. ASSUME NEW pt \in CodecTypes, ChangePayloadType(pt) PROVE WireInv'
    <2>1. /\ pending' = <<>> /\ wire' = wire
          /\ payloadType' = pt /\ isL16' = (pt \in {L16Mono, L16Stereo})
      BY <1>4 DEF ChangePayloadType, SenderStep, SetPayloadType, DropPending
    <2> QED  BY <2>1, NoSlots DEF WireInv
  <1>5. ASSUME NEW n \in WriteSizes, WriteSender(n) PROVE WireInv'
    <2>1. WriteFrames(n)  BY <1>5 DEF WriteSender, SenderStep
    <2>2. PICK sent \in SUBSET (1 .. FullPackets(n)) : Emit(n, sent)  BY <2>1 DEF WriteFrames
    <2>3. /\ samplesPerPacket > 0 /\ pending' = Remainder(n)
          /\ payloadType' = payloadType /\ isL16' = isL16
      BY <2>1 DEF WriteFrames, config
    <2>4. wire' = wire \cup
            {Datagram("l16", PacketSlots(n, i), i, sent, samplesPerPacket) : i \in sent}
      BY <2>2 DEF Emit
    <2>5. Intact(Gathered(n))
      <3>1. /\ n \in Nat /\ written \in Nat /\ Len(pending) \in Nat
            /\ Len(Gathered(n)) = Len(pending) + n
            /\ \A j \in 1 .. Len(pending) + n :
                 Gathered(n)[j] = IF j <= Len(pending) THEN pending[j]
                                  ELSE [id |-> written + (j - Len(pending)), channels |-> format.channels]
        BY GatheredOfFormat, GatheredIds, PendingFacts DEF SenderInv
      <3>2. \A j \in 1 .. Len(pending) : pending[j].id # 0  BY DEF WireInv, Intact, Elements
      <3> SUFFICES ASSUME NEW j \in 1 .. Len(Gathered(n)) PROVE Gathered(n)[j].id # 0
        BY DEF Intact, Elements
      <3>3. CASE j <= Len(pending)
        <4>1. j \in 1 .. Len(pending)  BY <3>1, <3>3
        <4> QED  BY <3>1, <3>2, <3>3, <4>1
      <3>4. CASE ~ (j <= Len(pending))
        <4>1. Gathered(n)[j] = [id |-> written + (j - Len(pending)), channels |-> format.channels]
          BY <3>1, <3>4
        <4>2. written + (j - Len(pending)) # 0  BY <3>1, <3>4
        <4> QED  BY <4>1, <4>2
      <3> QED  BY <3>3, <3>4
    <2>6. Intact(Remainder(n))
      BY <2>3, <2>5, RemainderIsCut DEF Intact
    <2>7. ASSUME NEW i \in sent PROVE Intact(PacketSlots(n, i))
      <3>1. i \in 1 .. FullPackets(n)  BY <2>2
      <3> QED  BY <2>3, <2>5, <3>1, PacketIsCut DEF Intact
    <2>8. \A i \in sent : LinkPacket(Datagram("l16", PacketSlots(n, i), i, sent, samplesPerPacket))
      BY <2>7 DEF Datagram, LinkPacket
    <2> QED  BY <2>3, <2>4, <2>6, <2>8 DEF WireInv
  <1>6. ASSUME NEW ok \in BOOLEAN, FlushSender(ok) PROVE WireInv'
    <2>1. PICK sent : sent = IF ok THEN {1} ELSE {}  OBVIOUS
    <2>2. /\ wire' = wire \cup {Datagram("l16", pending, i, sent, Len(pending)) : i \in sent}
          /\ pending' = <<>> /\ UNCHANGED <<payloadType, isL16>>
      BY <1>6, <2>1 DEF FlushSender, SenderStep, Flush, config
    <2>3. \A i \in sent : LinkPacket(Datagram("l16", pending, i, sent, Len(pending)))
      BY DEF Datagram, LinkPacket, WireInv
    <2> QED  BY <2>2, <2>3, NoSlots DEF WireInv
  <1>7. ASSUME NEW count \in EncodedSizes, NEW ok \in BOOLEAN, SendEncoded(count, ok)
        PROVE  WireInv'
    <2>1. PICK sent : sent = IF ok THEN {1} ELSE {}  OBVIOUS
    <2>2. /\ ~ isL16
          /\ wire' = wire \cup {Datagram("encoded", <<>>, i, sent, tsIncrement) : i \in sent}
          /\ pending' = Clobbered(count) /\ UNCHANGED <<payloadType, isL16>>
      BY <1>7, <2>1 DEF SendEncoded, SenderStep, WriteEncoded, config
    <2>3. pending = <<>>
      <3>1. samplesPerPacket = 0  BY <2>2 DEF SenderInv, PacketSizeOfFormat
      <3>2. pending \in Seq(Slot)  BY PendingFacts
      <3> QED  BY <3>1, <3>2 DEF SenderInv, PendingOfFormat
    <2>4. pending' = <<>>
      <3>1. 1 .. Len(<<>>) = {}  OBVIOUS
      <3> QED  BY <2>2, <2>3, <3>1 DEF Clobbered
    <2>5. \A i \in sent : LinkPacket(Datagram("encoded", <<>>, i, sent, tsIncrement))
      BY <2>2 DEF Datagram, LinkPacket, WireInv
    <2> QED  BY <2>2, <2>4, <2>5, NoSlots DEF WireInv
  <1>8. CASE OpenReceiver \/ CloseReceiver \/ Poll \/ \E size \in ReadSizes : ReadEncoded(size)
    BY <1>1, <1>8 DEF OpenReceiver, CloseReceiver, ReadEncoded, ReceiverStep, Poll
  <1>9. CASE \E n \in 1 .. MaxTake : Read(n)
    BY <1>1, <1>9 DEF Read
  <1>10. CASE UNCHANGED linkVars
    BY <1>1, <1>10 DEF linkVars
  <1> QED
    BY <1>2, <1>3, <1>4, <1>5, <1>6, <1>7, <1>8, <1>9, <1>10 DEF LinkNext

LEMMA WireHolds == LinkSpec => []WireInv
  <1>1. LinkInit => WireInv
    <2> SUFFICES ASSUME LinkInit PROVE WireInv
      OBVIOUS
    <2>1. pending = <<>> /\ payloadType = Unset /\ wire = {}  BY DEF LinkInit, Init
    <2> QED  BY <2>1, NoSlots DEF WireInv, Unset, L16Mono, L16Stereo
  <1>2. SenderInv /\ BookInv /\ WireInv /\ [LinkNext]_linkVars => WireInv'
    BY WireStep
  <1> QED  BY <1>1, <1>2, SenderOfLink, SenderInvHolds, BookHolds, PTL DEF LinkSpec

-----------------------------------------------------------------------------
\* The channel count of all formats.
LinkChannels == CHOOSE n \in 1 .. 2 : \A f \in Formats : f.channels = n

FrameBytes == 2 * LinkChannels

LEMMA ChannelCount ==
  /\ LinkChannels \in {1, 2} /\ FrameBytes \in {2, 4}
  /\ \A f \in Formats : f.channels = LinkChannels
  <1>1. \E n \in 1 .. 2 : \A f \in Formats : f.channels = n
    <2>1. CASE Formats = {}  BY <2>1
    <2>2. CASE Formats # {}
      <3>1. PICK g \in Formats : TRUE  BY <2>2
      <3> QED  BY <3>1, ChannelsAssumption
    <2> QED  BY <2>1, <2>2
  <1>2. LinkChannels \in 1 .. 2 /\ \A f \in Formats : f.channels = LinkChannels
    BY <1>1 DEF LinkChannels
  <1> QED  BY <1>2 DEF FrameBytes

\* All that the sender's invariants say of the link.
SenderSide == SenderInv /\ BookInv /\ StampInv /\ CountInv /\ OrderInv /\ WireInv
              /\ L16PacketsAreWhole

LEMMA SenderSideHolds == LinkSpec => []SenderSide
  <1>1. CodecTypesAreNotL16  BY TypesAssumption DEF CodecTypesAreNotL16
  <1>2. Spec => []L16PacketsAreWhole  BY <1>1, L16PacketsStayWhole
  <1>3. LinkSpec => []L16PacketsAreWhole  BY <1>2, SenderOfLink, PTL
  <1>4. LinkSpec => [](SenderInv /\ BookInv /\ StampInv /\ CountInv /\ OrderInv /\ WireInv)
    BY SenderOfLink, SenderInvHolds, BookHolds, StampsHold, CountHolds, OrderHolds, WireHolds, PTL
  <1> QED  BY <1>3, <1>4, PTL DEF SenderSide

\* The frames of a packet, as receiver and listener know them: a datagram's number
\* and a frame's.
SentFrame == [arrival : Nat, id : Nat]

FramesOf(d) == [i \in 1 .. Len(d.slots) |-> [arrival |-> d.number, id |-> d.slots[i].id]]

\* A byte of a frame as it crosses the network.
SentByte(b) == [arrival |-> b.frame.arrival, frame |-> b.frame.id, at |-> b.at]

SentBytes(s) == [x \in 1 .. Len(s) |-> SentByte(s[x])]

Traveller == [arrival : Nat, frame : Nat, at : Int]

LEMMA PacketFacts ==
  ASSUME SenderSide, NEW d \in wire
  PROVE  /\ d.pt \in Nat /\ d.pt < 128 /\ d.seq \in Nat /\ d.seq \div 256 < 256
         /\ d.ts \in Int /\ d.ssrc \in Int /\ d.number \in Nat
         /\ d.kind \in {"l16", "encoded"}
  <1>1. d \in Datagrams  BY DEF SenderSide, SenderInv, TypeOK
  <1>2. /\ d.pt \in 0 .. 127 /\ d.seq \in 0 .. SeqMod - 1 /\ d.ts \in 0 .. TsMod - 1
        /\ d.ssrc \in Ssrcs /\ d.number \in Nat /\ d.kind \in {"l16", "encoded"}
    BY <1>1 DEF Datagrams
  <1>3. d.pt \in Nat /\ d.pt < 128  BY <1>2
  <1>4. d.seq \in Nat /\ d.seq \div 256 < 256
    BY <1>2, LimitAssumption, WidthAssumption, SMT
  <1>5. d.ts \in Int
    <2>1. TsMod \in Nat  BY LimitAssumption
    <2>2. \A x \in 0 .. TsMod - 1 : x \in Int  BY <2>1
    <2> QED  BY <1>2, <2>2
  <1>6. d.ssrc \in Int
    <2>1. d.ssrc \in Ssrcs  BY <1>2
    <2>2. d.ssrc \in Nat  BY <2>1, ApplicationAssumption
    <2> QED  BY <2>2
  <1> QED  BY <1>2, <1>3, <1>4, <1>5, <1>6

\* An L16 packet of the link: frames of the one channel count, each with its number.
LEMMA L16Facts ==
  ASSUME SenderSide, NEW d \in wire, d.kind = "l16"
  PROVE  /\ Len(d.slots) \in Nat \ {0} /\ d.slots[1].channels = LinkChannels
         /\ \A i \in 1 .. Len(d.slots) : d.slots[i].id \in Nat \ {0}
         /\ d.pt = IF LinkChannels = 2 THEN L16Stereo ELSE L16Mono
         /\ FramesOf(d) \in Seq(SentFrame) /\ Len(FramesOf(d)) = Len(d.slots)
         /\ Numbers(FramesOf(d)) = Ids(d.slots) /\ Rising(FramesOf(d))
  <1>1. d \in Datagrams  BY DEF SenderSide, SenderInv, TypeOK
  <1>2. d.slots \in Seq(Slot) /\ d.number \in Nat  BY <1>1 DEF Datagrams
  <1>3. Len(d.slots) \in Nat  BY <1>2, LenProperties
  <1>4. d.slots # <<>> /\ d.pt \in {L16Mono, L16Stereo}
    BY DEF SenderSide, L16PacketsAreWhole
  <1>5. Len(d.slots) \in Nat \ {0}  BY <1>2, <1>3, <1>4, EmptySeq
  <1>6. ASSUME NEW i \in 1 .. Len(d.slots)
        PROVE  d.slots[i].id \in Nat \ {0} /\ d.slots[i].channels = LinkChannels
    <2>1. d.slots[i] \in Slot  BY <1>2, ElementOfSeq
    <2>2. d.slots[i].id # 0
      BY DEF SenderSide, WireInv, LinkPacket, Intact, Elements
    <2>3. d.slots[i] \in [id : 1 .. MaxWritten, channels : {f.channels : f \in L16Formats}]
      BY <2>1, <2>2 DEF Slot, Overwritten
    <2>4. PICK f \in L16Formats : d.slots[i].channels = f.channels  BY <2>3
    <2>5. f \in Formats  BY DEF L16Formats
    <2>6. d.slots[i].id \in Nat  BY <2>3, BoundAssumption
    <2> QED  BY <2>2, <2>4, <2>5, <2>6, ChannelCount
  <1>7. 1 \in 1 .. Len(d.slots)  BY <1>5
  <1>8. d.slots[1].channels = 2 <=> d.pt = L16Stereo
    <2>1. d.slots[1] # Overwritten
      <3>1. d.slots[1].id # 0  BY <1>6, <1>7
      <3> QED  BY <3>1 DEF Overwritten
    <2>2. PICK used : used = {d.slots[i] : i \in 1 .. Len(d.slots)} \ {Overwritten}  OBVIOUS
    <2>3. \A x \in used : x.channels = 2 <=> d.pt = L16Stereo
      BY <2>2 DEF SenderSide, L16PacketsAreWhole
    <2>4. d.slots[1] \in used  BY <1>7, <2>1, <2>2
    <2> QED  BY <2>3, <2>4
  <1>9. d.pt = IF LinkChannels = 2 THEN L16Stereo ELSE L16Mono
    BY <1>4, <1>6, <1>7, <1>8
  <1> DEFINE g == FramesOf(d)
  <1>10. g \in Seq(SentFrame) /\ Len(g) = Len(d.slots)
    <2>1. \A i \in 1 .. Len(d.slots) : [arrival |-> d.number, id |-> d.slots[i].id] \in SentFrame
      BY <1>2, <1>6 DEF SentFrame
    <2>2. g \in [1 .. Len(d.slots) -> SentFrame]  BY <2>1 DEF FramesOf
    <2> HIDE DEF g
    <2> QED  BY <1>3, <2>2
  <1>11. \A i \in 1 .. Len(d.slots) : g[i].id = d.slots[i].id  BY DEF FramesOf
  <1> HIDE DEF g
  <1>12. Numbers(g) = Ids(d.slots)
    <2>1. Numbers(g) = {d.slots[i].id : i \in 1 .. Len(d.slots)}  BY <1>10, <1>11 DEF Numbers
    <2>2. 0 \notin Numbers(g)  BY <1>6, <2>1
    <2> QED  BY <2>1, <2>2 DEF Ids
  <1>13. Rising(g)
    <2>1. PICK from \in Nat : Numbered(d.slots, from)  BY DEF SenderSide, OrderInv, InTurn
    <2>2. \A i \in 1 .. Len(d.slots) : d.slots[i].id = from + i
      BY <1>6, <2>1 DEF Numbered
    <2> SUFFICES ASSUME NEW i \in 1 .. Len(g), NEW j \in 1 .. Len(g), i < j
                 PROVE  g[i].id < g[j].id
      BY DEF Rising
    <2>3. g[i].id = from + i /\ g[j].id = from + j  BY <1>10, <1>11, <2>2
    <2> QED  BY <1>3, <1>10, <2>3
  <1> QED  BY <1>5, <1>6, <1>7, <1>9, <1>10, <1>12, <1>13 DEF g

\* What is behind the header: the frames' bytes, or the one byte of a codec packet.
LEMMA PayloadFacts ==
  ASSUME SenderSide, NEW d \in wire
  PROVE  /\ PayloadBytes(d) \in Seq(Traveller)
         /\ d.kind = "l16" =>
              /\ PayloadBytes(d) = SentBytes(BytesIn(FramesOf(d), FrameBytes))
              /\ Len(PayloadBytes(d)) = FrameBytes * Len(d.slots)
  <1>1. CASE d.kind = "encoded"
    <2>1. d.number \in Nat  BY PacketFacts
    <2>2. [arrival |-> d.number, frame |-> 0, at |-> 1] \in Traveller  BY <2>1 DEF Traveller
    <2>3. PayloadBytes(d) = <<[arrival |-> d.number, frame |-> 0, at |-> 1]>>
      BY <1>1 DEF PayloadBytes
    <2> QED  BY <1>1, <2>2, <2>3
  <1>2. CASE d.kind = "l16"
    <2> DEFINE k == FrameBytes
               g == FramesOf(d)
               b == BytesIn(g, k)
    <2>1. /\ Len(d.slots) \in Nat /\ d.slots[1].channels = LinkChannels
          /\ g \in Seq(SentFrame) /\ Len(g) = Len(d.slots)
      BY <1>2, L16Facts
    <2>2. k \in {2, 4}  BY ChannelCount
    <2>3. /\ b \in Seq(BytesOver(SentFrame)) /\ Len(b) = k * Len(g) /\ k * Len(g) \in Nat
          /\ \A x \in 1 .. k * Len(g) : b[x] = ByteAt(g, k, x)
      BY <2>1, <2>2, BytesInFacts
    <2>4. PayloadBytes(d) =
            [i \in 1 .. k * Len(d.slots) |->
               [arrival |-> d.number, frame |-> d.slots[(i - 1) \div k + 1].id,
                at |-> ((i - 1) % k) + 1]]
      <3>1. d.kind # "encoded" /\ 2 * d.slots[1].channels = k  BY <1>2, <2>1 DEF FrameBytes
      <3> QED  BY <3>1 DEF PayloadBytes
    <2>5. \A i \in 1 .. Len(d.slots) : g[i] = [arrival |-> d.number, id |-> d.slots[i].id]
      BY DEF FramesOf
    <2> HIDE DEF b, g, k
    <2>6. PICK n : n = k * Len(g)  OBVIOUS
    <2>7. ASSUME NEW x \in 1 .. n
          PROVE  /\ SentByte(b[x]) = [arrival |-> d.number, frame |-> d.slots[(x - 1) \div k + 1].id,
                                      at |-> ((x - 1) % k) + 1]
                 /\ SentByte(b[x]) \in Traveller
      <3>1. PICK i : i = (x - 1) \div k + 1  OBVIOUS
      <3>2. PICK j : j = ((x - 1) % k) + 1  OBVIOUS
      <3>3. i \in 1 .. Len(g) /\ j \in 1 .. k
        BY <2>1, <2>2, <2>6, <3>1, <3>2, ByteIndex
      <3>4. j \in Nat  BY <2>2, <3>3
      <3>5. b[x] = [frame |-> g[i], at |-> j]  BY <2>3, <2>6, <3>1, <3>2 DEF ByteAt
      <3>6. g[i] = [arrival |-> d.number, id |-> d.slots[i].id]  BY <2>1, <2>5, <3>3
      <3>7. g[i] \in SentFrame  BY <2>1, <3>3, ElementOfSeq
      <3>8. SentByte(b[x]) = [arrival |-> d.number, frame |-> d.slots[i].id, at |-> j]
        BY <3>5, <3>6 DEF SentByte
      <3>9. SentByte(b[x]) \in Traveller
        BY <3>4, <3>6, <3>7, <3>8 DEF Traveller, SentFrame
      <3> QED  BY <3>1, <3>2, <3>8, <3>9
    <2>8. PICK p : p = SentBytes(b)  OBVIOUS
    <2>9. p = [x \in 1 .. n |-> SentByte(b[x])]
      BY <2>3, <2>6, <2>8 DEF SentBytes
    <2>10. PayloadBytes(d) = p
      <3>1. n = k * Len(d.slots)  BY <2>1, <2>6
      <3> QED  BY <2>4, <2>7, <2>9, <3>1
    <2>11. n \in Nat  BY <2>3, <2>6
    <2>12. p \in Seq(Traveller) /\ Len(p) = n
      <3>1. p \in [1 .. n -> Traveller]
        <4>1. \A x \in 1 .. n : SentByte(b[x]) \in Traveller  BY <2>7
        <4> QED  BY <2>9, <4>1
      <3> QED  BY <2>11, <3>1
    <2> QED  BY <1>2, <2>1, <2>6, <2>8, <2>10, <2>12 DEF b, g, k
  <1> QED  BY <1>1, <1>2, PacketFacts

\* So the receiver parses every packet of the sender.
LEMMA ArrivalFacts ==
  ASSUME SenderSide, NEW d \in wire
  PROVE  /\ Arrival(d).parse = "Ok" /\ Arrival(d).pt = d.pt /\ Arrival(d).seq = d.seq
         /\ Arrival(d).payload = PayloadBytes(d)
  <1>1. /\ d.pt \in Nat /\ d.pt < 128 /\ d.seq \in Nat /\ d.seq \div 256 < 256
        /\ d.ts \in Int /\ d.ssrc \in Int
    BY PacketFacts
  <1>2. PayloadBytes(d) \in Seq(Traveller)  BY PayloadFacts
  <1> QED  BY <1>1, <1>2, HeaderComesBack

-----------------------------------------------------------------------------
\* The receiver's summary of the last header tells the newest packet's number.
IsHeader(h) == h = [pt |-> h.pt, seq |-> h.seq, ssrc |-> h.ssrc]

LatestInv ==
  /\ IsHeader(last)
  /\ latest \subseteq wire
  /\ \A d \in latest : last.seq = d.seq
  /\ \A d, e \in latest : d = e

\* poll() takes one packet and parses it.
LEMMA PollTakes ==
  ASSUME SenderSide, Poll
  PROVE  \E d \in wire : latest' = {d} /\ last'.seq = d.seq /\ IsHeader(last')
  <1>1. PICK d \in wire : R!Poll(Arrival(d)) /\ latest' = {d}  BY DEF Poll
  <1>2. Arrival(d).parse = "Ok" /\ Arrival(d).pt = d.pt /\ Arrival(d).seq = d.seq
    BY ArrivalFacts
  <1>3. last' = R!Header(Arrival(d))
    <2>1. R!PollPcm(Arrival(d)) \/ R!PollEncoded(Arrival(d))
      BY <1>1, <1>2 DEF R!Poll, R!PollRunt, R!PollBad
    <2> QED  BY <2>1 DEF R!PollPcm, R!PollEncoded
  <1> QED  BY <1>1, <1>2, <1>3 DEF R!Header, IsHeader

LEMMA OtherStepsKeepLatest ==
  ASSUME LatestInv, [LinkNext]_linkVars, ~ Poll
  PROVE  latest' = latest /\ last'.seq = last.seq /\ IsHeader(last')
  <1>1. latest' = latest /\ (last' = last \/ last' = [last EXCEPT !.pt = R!NoType])
    <2>1. CASE UNCHANGED linkVars  BY <2>1 DEF linkVars, receiverVars, netVars
    <2>2. CASE LinkNext
      <3>1. CASE \E n \in 1 .. MaxTake : Read(n)
        BY <3>1 DEF Read, R!ReadFrames, netVars
      <3>2. CASE (\E size \in ReadSizes : ReadEncoded(size)) \/ OpenReceiver \/ CloseReceiver
        BY <3>2 DEF ReadEncoded, OpenReceiver, CloseReceiver, ReceiverStep, netVars,
                    R!ReadEncoded, R!Begin, R!End
      <3> QED
        BY <2>2, <3>1, <3>2
        DEF LinkNext, OpenSender, ChangeFormat, ChangePayloadType, WriteSender, FlushSender,
            SendEncoded, SenderStep, receiverVars, netVars
    <2> QED  BY <2>1, <2>2
  <1>2. IsHeader(last)  BY DEF LatestInv
  <1>3. CASE last' = last  BY <1>1, <1>2, <1>3
  <1>4. CASE last' = [last EXCEPT !.pt = R!NoType]
    <2>1. last' = [pt |-> R!NoType, seq |-> last.seq, ssrc |-> last.ssrc]
      BY <1>2, <1>4 DEF IsHeader
    <2> QED  BY <1>1, <2>1 DEF IsHeader
  <1> QED  BY <1>1, <1>3, <1>4

LEMMA SenderGrowsWire == ASSUME [Next]_vars PROVE wire \subseteq wire'
  BY CallsSplit DEF PacketCall, QuietCall, WriteFrames, Emit, Flush, WriteEncoded

LEMMA LatestHolds == LinkSpec => []LatestInv
  <1>1. LinkInit => LatestInv
    BY DEF LinkInit, R!Init, R!NoHeader, LatestInv, IsHeader
  <1>2. SenderSide /\ LatestInv /\ [LinkNext]_linkVars => LatestInv'
    <2> SUFFICES ASSUME SenderSide, LatestInv, [LinkNext]_linkVars PROVE LatestInv'
      OBVIOUS
    <2>1. wire \subseteq wire'  BY LinkStepsSender, SenderGrowsWire
    <2>2. CASE Poll  BY <2>1, <2>2, PollTakes DEF LatestInv
    <2>3. CASE ~ Poll  BY <2>1, <2>3, OtherStepsKeepLatest DEF LatestInv
    <2> QED  BY <2>2, <2>3
  <1> QED  BY <1>1, <1>2, SenderSideHolds, PTL DEF LinkSpec

\* Sequence gaps are observable: from one successful poll() to the next the sequence
\* number grows by one more than the packets in between that reached the wire, over
\* the wrap, over L16 and codec packets, through every packet that failed and every
\* begin() of the receiver, as long as the sender is not renumbered.
THEOREM GapsAreVisible == LinkSpec => GapsShowLosses
  <1> DEFINE Shown ==
        \A d \in latest, e \in latest' :
          d.number < e.number /\ d.restamps = e.restamps =>
            (last'.seq - last.seq) % SeqMod
              = (1 + Cardinality({g \in wire : d.number < g.number /\ g.number < e.number}))
                  % SeqMod
  <1>1. SenderSide /\ LatestInv /\ [LinkNext]_linkVars => [Shown]_linkVars
    <2> SUFFICES ASSUME SenderSide, LatestInv, [LinkNext]_linkVars,
                        NEW d \in latest, NEW e \in latest', d.number < e.number,
                        d.restamps = e.restamps
                 PROVE  (last'.seq - last.seq) % SeqMod
                          = (1 + Cardinality({g \in wire : d.number < g.number /\ g.number < e.number}))
                              % SeqMod
      OBVIOUS
    <2>1. d \in wire /\ last.seq = d.seq /\ d.seq \in Nat  BY PacketFacts DEF LatestInv
    <2>2. Poll
      <3> SUFFICES ASSUME ~ Poll PROVE FALSE
        OBVIOUS
      <3>1. d = e  BY OtherStepsKeepLatest DEF LatestInv
      <3>2. d.number \in Nat  BY <2>1, PacketFacts
      <3> QED  BY <3>1, <3>2
    <2>3. e \in wire /\ last'.seq = e.seq  BY <2>2, PollTakes
    <2> DEFINE c == Cardinality(Between(d.number, e.number))
    <2>4. e.seq = SeqAfter(d.seq, 1 + c)
      BY <2>1, <2>3 DEF SenderSide, CountInv
    <2>5. c \in Nat
      <3>1. Between(d.number, e.number) \subseteq wire  BY DEF Between
      <3> QED  BY <3>1, FS_Subset, FS_CardinalityType DEF SenderSide, CountInv
    <2>6. Between(d.number, e.number) = {g \in wire : d.number < g.number /\ g.number < e.number}
      BY DEF Between
    <2> HIDE DEF c
    <2>7. 1 + c \in Nat  BY <2>5
    <2>8. (SeqAfter(d.seq, 1 + c) - d.seq) % SeqMod = (1 + c) % SeqMod
      BY <2>1, <2>7, SeqDistance
    <2> QED  BY <2>1, <2>3, <2>4, <2>6, <2>8 DEF c
  <1> QED  BY <1>1, SenderSideHolds, LatestHolds, PTL DEF LinkSpec, GapsShowLosses

-----------------------------------------------------------------------------
\* A byte of a frame in the receiver's queue: the two of a sample have changed places.
Swapped(at) == IF at % 2 = 1 THEN at + 1 ELSE at - 1

HostByte(b) == [arrival |-> b.frame.arrival, frame |-> b.frame.id, at |-> Swapped(b.at)]

Hosted(s) == [x \in 1 .. Len(s) |-> HostByte(s[x])]

NetBytes == Seq(BytesOver(SentFrame))

LEMMA HostedFacts ==
  ASSUME NEW s \in NetBytes
  PROVE  /\ Hosted(s) \in Seq(Traveller) /\ Len(Hosted(s)) = Len(s) /\ Len(s) \in Nat
         /\ \A x \in 1 .. Len(s) : Hosted(s)[x] = HostByte(s[x])
  <1>1. Len(s) \in Nat  BY LenProperties DEF NetBytes
  <1>2. ASSUME NEW x \in 1 .. Len(s) PROVE HostByte(s[x]) \in Traveller
    <2>1. s[x] \in BytesOver(SentFrame)  BY ElementOfSeq DEF NetBytes
    <2>2. s[x].frame.arrival \in Nat /\ s[x].frame.id \in Nat /\ s[x].at \in Nat
      BY <2>1 DEF BytesOver, SentFrame
    <2>3. Swapped(s[x].at) \in Int  BY <2>2 DEF Swapped
    <2> QED  BY <2>2, <2>3 DEF HostByte, Traveller
  <1>3. Hosted(s) \in [1 .. Len(s) -> Traveller]  BY <1>2 DEF Hosted
  <1>4. Hosted(s) \in Seq(Traveller) /\ Len(Hosted(s)) = Len(s)  BY <1>1, <1>3
  <1> QED  BY <1>1, <1>4 DEF Hosted

LEMMA HostedJoin ==
  ASSUME NEW a \in NetBytes, NEW b \in NetBytes
  PROVE  Hosted(a) \o Hosted(b) = Hosted(a \o b) /\ a \o b \in NetBytes
  <1> DEFINE p == Hosted(a)
             q == Hosted(b)
             c == a \o b
             r == Hosted(c)
  <1>1. /\ c \in NetBytes /\ Len(c) = Len(a) + Len(b)
        /\ \A x \in 1 .. Len(a) + Len(b) : c[x] = IF x <= Len(a) THEN a[x] ELSE b[x - Len(a)]
    BY ConcatProperties DEF NetBytes
  <1> HIDE DEF c
  <1>2. /\ p \in Seq(Traveller) /\ Len(p) = Len(a) /\ Len(a) \in Nat
        /\ \A x \in 1 .. Len(a) : p[x] = HostByte(a[x])
    BY HostedFacts
  <1>3. /\ q \in Seq(Traveller) /\ Len(q) = Len(b) /\ Len(b) \in Nat
        /\ \A x \in 1 .. Len(b) : q[x] = HostByte(b[x])
    BY HostedFacts
  <1>4. /\ r \in Seq(Traveller) /\ Len(r) = Len(c)
        /\ \A x \in 1 .. Len(c) : r[x] = HostByte(c[x])
    BY <1>1, HostedFacts
  <1> HIDE DEF p, q, r
  <1>5. /\ p \o q \in Seq(Traveller) /\ Len(p \o q) = Len(p) + Len(q)
        /\ \A x \in 1 .. Len(p) + Len(q) :
             (p \o q)[x] = IF x <= Len(p) THEN p[x] ELSE q[x - Len(p)]
    <2>1. p \in Seq(Traveller) /\ q \in Seq(Traveller)  BY <1>2, <1>3
    <2> QED  BY <2>1, ConcatProperties, Zenon
  <1>6. ASSUME NEW x \in 1 .. Len(a) + Len(b) PROVE (p \o q)[x] = r[x]
    <2>1. r[x] = HostByte(c[x])  BY <1>1, <1>4
    <2>2. CASE x <= Len(a)
      <3>1. x \in 1 .. Len(a)  BY <1>2, <1>3, <2>2
      <3> QED  BY <1>1, <1>2, <1>3, <1>5, <2>1, <2>2, <3>1
    <2>3. CASE ~ (x <= Len(a))
      <3>1. x - Len(a) \in 1 .. Len(b)  BY <1>2, <1>3, <2>3
      <3> QED  BY <1>1, <1>2, <1>3, <1>5, <2>1, <2>3, <3>1
    <2> QED  BY <2>2, <2>3
  <1>7. p \o q = r  BY <1>1, <1>2, <1>3, <1>4, <1>5, <1>6, SeqEqual
  <1> QED  BY <1>1, <1>7 DEF p, q, r, c

\* Elements m + 1 .. n.
Piece(s, m, n) == SubSeq(s, m + 1, n)

LEMMA PieceFacts ==
  ASSUME NEW S, NEW s \in Seq(S), NEW m \in Nat, NEW n \in Nat, m <= n, n <= Len(s)
  PROVE  /\ Piece(s, m, n) \in Seq(S) /\ Len(Piece(s, m, n)) = n - m
         /\ \A x \in 1 .. n - m : Piece(s, m, n)[x] = s[m + x]
  <1> DEFINE t == SubSeq(s, m + 1, n)
  <1>1. Len(s) \in Nat  BY LenProperties
  <1>2. \A x \in m + 1 .. n : s[x] \in S  BY <1>1, ElementOfSeq
  <1>3. /\ t \in Seq(S) /\ Len(t) = IF m + 1 <= n THEN n - (m + 1) + 1 ELSE 0
        /\ \A x \in 1 .. n - (m + 1) + 1 : t[x] = s[m + 1 + x - 1]
    BY <1>2, SubSeqProperties
  <1>4. n - (m + 1) + 1 = n - m /\ \A x \in Int : m + 1 + x - 1 = m + x  OBVIOUS
  <1> HIDE DEF t
  <1>5. t \in Seq(S) /\ Len(t) = n - m /\ \A x \in 1 .. n - m : t[x] = s[m + x]
    BY <1>3, <1>4
  <1> QED  BY <1>5 DEF Piece, t

LEMMA HostedPiece ==
  ASSUME NEW s \in NetBytes, NEW m \in Nat, NEW n \in Nat, m <= n, n <= Len(s)
  PROVE  Piece(Hosted(s), m, n) = Hosted(Piece(s, m, n)) /\ Piece(s, m, n) \in NetBytes
  <1> DEFINE h == Hosted(s)
             t == Piece(s, m, n)
             u == Piece(h, m, n)
             v == Hosted(t)
  <1>1. /\ h \in Seq(Traveller) /\ Len(h) = Len(s) /\ Len(s) \in Nat
        /\ \A x \in 1 .. Len(s) : h[x] = HostByte(s[x])
    BY HostedFacts
  <1> HIDE DEF h
  <1>2. t \in NetBytes /\ Len(t) = n - m /\ \A x \in 1 .. n - m : t[x] = s[m + x]
    BY PieceFacts DEF NetBytes
  <1>3. u \in Seq(Traveller) /\ Len(u) = n - m /\ \A x \in 1 .. n - m : u[x] = h[m + x]
    BY <1>1, PieceFacts
  <1> HIDE DEF t, u
  <1>4. /\ v \in Seq(Traveller) /\ Len(v) = Len(t)
        /\ \A x \in 1 .. Len(t) : v[x] = HostByte(t[x])
    BY <1>2, HostedFacts
  <1> HIDE DEF v
  <1>5. ASSUME NEW x \in 1 .. n - m PROVE u[x] = v[x]
    <2>1. m + x \in 1 .. Len(s)  BY <1>1
    <2> QED  BY <1>1, <1>2, <1>3, <1>4, <2>1
  <1>6. u = v  BY <1>2, <1>3, <1>4, <1>5, SeqEqual
  <1> QED  BY <1>2, <1>6 DEF u, v, t, h

LEMMA HostedNewest ==
  ASSUME NEW s \in NetBytes, NEW n \in Nat
  PROVE  Newest(Hosted(s), n) = Hosted(Newest(s, n))
  <1>1. Len(Hosted(s)) = Len(s) /\ Len(s) \in Nat  BY HostedFacts
  <1>2. CASE Len(s) <= n  BY <1>1, <1>2 DEF Newest
  <1>3. CASE ~ (Len(s) <= n)
    <2>1. PICK m : m = Len(s) - n  OBVIOUS
    <2>2. PICK l : l = Len(s)  OBVIOUS
    <2>3. m \in Nat /\ l \in Nat /\ m <= l /\ l <= Len(s)  BY <1>1, <1>3, <2>1, <2>2
    <2>4. Newest(Hosted(s), n) = Piece(Hosted(s), m, l) /\ Newest(s, n) = Piece(s, m, l)
      BY <1>1, <1>3, <2>1, <2>2 DEF Newest, Piece
    <2> QED  BY <2>3, <2>4, HostedPiece
  <1> QED  BY <1>2, <1>3

\* The receiver's change of byte order does that to the bytes of whole frames.
LEMMA HostOrderOfFrames ==
  ASSUME NEW g \in Seq(SentFrame), NEW k \in {2, 4}
  PROVE  R!HostOrder(SentBytes(BytesIn(g, k))) = Hosted(BytesIn(g, k))
  <1> DEFINE b == BytesIn(g, k)
             s == SentBytes(b)
  <1>1. /\ b \in Seq(BytesOver(SentFrame)) /\ Len(b) = k * Len(g)
        /\ k * Len(g) \in Nat /\ Len(g) \in Nat
        /\ \A x \in 1 .. k * Len(g) : b[x] = ByteAt(g, k, x)
    BY BytesInFacts
  <1> HIDE DEF b
  <1>2. PICK n : n = Len(b)  OBVIOUS
  <1>3. s = [x \in 1 .. n |-> SentByte(b[x])]  BY <1>2 DEF SentBytes
  <1>4. n \in Nat /\ Len(s) = n  BY <1>1, <1>2, <1>3
  <1> HIDE DEF s
  <1>5. 2 * (n \div 2) = n /\ n % 2 = 0
    <2>1. CASE k = 2  BY <1>1, <1>2, <2>1
    <2>2. CASE k = 4  BY <1>1, <1>2, <2>2
    <2> QED  BY <2>1, <2>2
  <1>6. ASSUME NEW x \in 1 .. n
        PROVE  (IF x % 2 = 1 THEN s[x + 1] ELSE s[x - 1]) = HostByte(b[x])
    <2>1. PICK y : y = Swapped(x)  OBVIOUS
    <2>2. PICK i : i = (x - 1) \div k + 1  OBVIOUS
    <2>3. PICK j : j = ((x - 1) % k) + 1  OBVIOUS
    <2>4. y \in 1 .. n /\ (IF x % 2 = 1 THEN s[x + 1] ELSE s[x - 1]) = s[y]
      BY <1>4, <1>5, <2>1 DEF Swapped
    <2>5. (y - 1) \div k + 1 = i /\ ((y - 1) % k) + 1 = Swapped(j)
      <3>1. CASE k = 2  BY <1>4, <2>1, <2>2, <2>3, <3>1 DEF Swapped
      <3>2. CASE k = 4  BY <1>4, <2>1, <2>2, <2>3, <3>2 DEF Swapped
      <3> QED  BY <3>1, <3>2
    <2>6. b[x] = [frame |-> g[i], at |-> j]
      BY <1>1, <1>2, <2>2, <2>3 DEF ByteAt
    <2>7. b[y] = [frame |-> g[i], at |-> Swapped(j)]
      BY <1>1, <1>2, <2>4, <2>5 DEF ByteAt
    <2>8. s[y] = SentByte(b[y])  BY <1>3, <2>4
    <2> QED  BY <2>4, <2>6, <2>7, <2>8 DEF SentByte, HostByte
  <1>7. R!HostOrder(s) = [x \in 1 .. n |-> IF x % 2 = 1 THEN s[x + 1] ELSE s[x - 1]]
    BY <1>4, <1>5 DEF R!HostOrder
  <1>8. Hosted(b) = [x \in 1 .. n |-> HostByte(b[x])]  BY <1>2 DEF Hosted
  <1>9. R!HostOrder(s) = Hosted(b)  BY <1>6, <1>7, <1>8
  <1> QED  BY <1>9 DEF s, b

\* The frames that readFrames() makes of those bytes, and the number FrameOf sees.
LEMMA FramesOfHosted ==
  ASSUME NEW g \in Seq(SentFrame), NEW k \in {2, 4}
  PROVE  /\ Len(Frames(Hosted(BytesIn(g, k)), k)) = Len(g)
         /\ \A i \in 1 .. Len(g) : FrameOf(Frames(Hosted(BytesIn(g, k)), k)[i]) = g[i].id
  <1> DEFINE b == BytesIn(g, k)
             h == Hosted(b)
             f == Frames(h, k)
  <1>1. /\ b \in NetBytes /\ Len(b) = k * Len(g)
        /\ k * Len(g) \in Nat /\ Len(g) \in Nat
        /\ \A x \in 1 .. k * Len(g) : b[x] = ByteAt(g, k, x)
    BY BytesInFacts DEF NetBytes
  <1> HIDE DEF b
  <1>2. /\ h \in Seq(Traveller) /\ Len(h) = Len(b) /\ Len(b) \in Nat
        /\ \A x \in 1 .. Len(b) : h[x] = HostByte(b[x])
    BY <1>1, HostedFacts
  <1> HIDE DEF h
  <1>3. k \in Nat \ {0}  OBVIOUS
  <1>4. CutInto(f, h, k, Traveller)  BY <1>2, <1>3, FramesFacts
  <1> HIDE DEF f
  <1>5. Len(h) \div k = Len(g)
    <2>1. CASE k = 2  BY <1>1, <1>2, <2>1
    <2>2. CASE k = 4  BY <1>1, <1>2, <2>2
    <2> QED  BY <2>1, <2>2
  <1>6. /\ Len(f) = Len(g)
        /\ \A i \in 1 .. Len(g) : /\ Len(f[i]) = k
                                  /\ \A j \in 1 .. k : f[i][j] = h[(i - 1) * k + j]
    BY <1>4, <1>5 DEF CutInto
  <1>7. ASSUME NEW i \in 1 .. Len(g) PROVE FrameOf(f[i]) = g[i].id
    <2>1. PICK a : a = g[i].arrival  OBVIOUS
    <2>2. PICK c : c = g[i].id  OBVIOUS
    <2>3. ASSUME NEW j \in 1 .. k
          PROVE  f[i][j] = [arrival |-> a, frame |-> c, at |-> Swapped(j)]
      <3>1. PICK x : x = (i - 1) * k + j  OBVIOUS
      <3>2. x \in 1 .. k * Len(g) /\ (x - 1) \div k + 1 = i /\ ((x - 1) % k) + 1 = j
        <4>1. CASE k = 2  BY <1>1, <3>1, <4>1
        <4>2. CASE k = 4  BY <1>1, <3>1, <4>2
        <4> QED  BY <4>1, <4>2
      <3>3. b[x] = [frame |-> g[i], at |-> j]  BY <1>1, <3>2 DEF ByteAt
      <3>4. h[x] = HostByte(b[x])  BY <1>1, <1>2, <3>2
      <3> QED  BY <1>6, <2>1, <2>2, <3>1, <3>3, <3>4 DEF HostByte
    <2>4. PICK t : t = f[i]  OBVIOUS
    <2>5. Len(t) = k /\ \A j \in 1 .. k : t[j] = [arrival |-> a, frame |-> c, at |-> Swapped(j)]
      BY <1>6, <2>3, <2>4
    <2>6. 1 \in 1 .. k  OBVIOUS
    <2>7. t[1] = [arrival |-> a, frame |-> c, at |-> Swapped(1)]  BY <2>5, <2>6
    <2>8. \A j \in 1 .. Len(t) : t[j] = [t[1] EXCEPT !.at = IF j % 2 = 1 THEN j + 1 ELSE j - 1]
      BY <2>5, <2>7 DEF Swapped
    <2>9. t[1].frame = c  BY <2>7
    <2> QED  BY <2>2, <2>4, <2>8, <2>9 DEF FrameOf
  <1> QED  BY <1>6, <1>7 DEF f, h, b

-----------------------------------------------------------------------------
\* The receiver's ring functions are those of PcmRing.
LEMMA SameRing ==
  /\ \A c, r, s : R!RingPush(c, r, s) = RingPush(c, r, s)
  /\ \A c, r, n : /\ R!RingPop(c, r, n) = RingPop(c, r, n)
                  /\ R!RingPopBytes(c, r, n) = RingPopBytes(c, r, n)
  /\ \A r : R!Emptied(r) = Emptied(r)
  /\ \A c, z : R!EmptyRing(c, z) = EmptyRing(c, z)
  /\ \A b, k : R!Frames(b, k) = Frames(b, k)
  <1>1. \A c, r, s : R!RingPush(c, r, s) = RingPush(c, r, s)
    <2>1. \A c, r, s : R!Store(c, r, s) = Store(c, r, s)
      BY DEF R!Store, Store, R!Offset, Offset, R!Slots, Slots
    <2>2. \A c, r, n : R!MakeRoom(c, r, n) = MakeRoom(c, r, n)
      BY DEF R!MakeRoom, MakeRoom, R!Advanced, Advanced
    <2>3. \A s, n : R!Newest(s, n) = Newest(s, n)  BY DEF R!Newest, Newest
    <2>4. \A r : R!Emptied(r) = Emptied(r)  BY DEF R!Emptied, Emptied
    <2> QED  BY <2>1, <2>2, <2>3, <2>4 DEF R!RingPush, RingPush
  <1>2. \A c, r, n : /\ R!RingPop(c, r, n) = RingPop(c, r, n)
                     /\ R!RingPopBytes(c, r, n) = RingPopBytes(c, r, n)
    BY DEF R!RingPop, RingPop, R!RingPopBytes, RingPopBytes, R!Taken, Taken,
           R!Advanced, Advanced
  <1>3. \A r : R!Emptied(r) = Emptied(r)  BY DEF R!Emptied, Emptied
  <1>4. \A c, z : R!EmptyRing(c, z) = EmptyRing(c, z)
    BY DEF R!EmptyRing, EmptyRing, R!Slots, Slots
  <1>5. \A b, k : R!Frames(b, k) = Frames(b, k)  BY DEF R!Frames, Frames
  <1> QED  BY <1>1, <1>2, <1>3, <1>4, <1>5

-----------------------------------------------------------------------------
\* The numbers of the frames that the datagrams numbered in a have brought.
Delivered(w, a) == UNION {Ids(d.slots) : d \in {e \in w : e.number \in a}}

\* The frames g are what the receiver holds for the listener.
Holds(g) ==
  /\ g \in Seq(SentFrame)
  /\ Content(QueueBytes, ring) = Hosted(BytesIn(g, FrameBytes))
  /\ Waits(g, Delivered(wire, arrived), heard, orderly)

RingByte == Traveller \cup {Silence}

\* The receiver is as constructed but for what it heard: the channel count is that
\* of the formats, or none yet.
ReceiverAsBuilt ==
  /\ capacity = QueueBytes /\ dynamic = R!NoDynamic
  /\ rFormat.channels \in {0, LinkChannels}
  /\ ring \in Rings(QueueBytes, RingByte) /\ WellFormed(QueueBytes, ring)

\* The inductive invariant of receiver, network and listener.
StreamInv ==
  /\ ReceiverAsBuilt
  /\ heard \in Seq(Nat) /\ Ascends(heard)
  /\ Elements(heard) \subseteq Delivered(wire, arrived)
  /\ \E g : Holds(g)

LEMMA DeliveredGrows ==
  ASSUME NEW w, NEW v, NEW a, NEW b, w \subseteq v, a \subseteq b
  PROVE  Delivered(w, a) \subseteq Delivered(v, b)
  BY DEF Delivered

LEMMA NoFrames ==
  /\ Hosted(BytesIn(<<>>, FrameBytes)) = <<>>
  /\ Numbers(<<>>) = {} /\ Rising(<<>>) /\ <<>> \in Seq(SentFrame)
  <1>1. <<>> \in Seq(SentFrame) /\ Len(<<>>) = 0  OBVIOUS
  <1>2. /\ BytesIn(<<>>, FrameBytes) \in NetBytes
        /\ Len(BytesIn(<<>>, FrameBytes)) = FrameBytes * Len(<<>>)
    BY <1>1, ChannelCount, BytesInFacts DEF NetBytes
  <1>3. Len(BytesIn(<<>>, FrameBytes)) = 0  BY <1>1, <1>2, ChannelCount
  <1>4. Hosted(BytesIn(<<>>, FrameBytes)) = <<>>  BY <1>2, <1>3, HostedFacts, EmptySeq
  <1> QED  BY <1>1, <1>4 DEF Numbers, Rising

\* A step that leaves the receiver's queue and layout alone.
LEMMA QuietStepKeepsStream ==
  ASSUME StreamInv, wire \subseteq wire', arrived \subseteq arrived', orderly' => orderly,
         UNCHANGED <<rFormat, capacity, dynamic, ring, heard>>
  PROVE  StreamInv'
  <1>1. Delivered(wire, arrived) \subseteq Delivered(wire', arrived')
    BY DeliveredGrows
  <1>2. ASSUME NEW g, Holds(g) PROVE Holds(g)'
    <2>1. Waits(g, Delivered(wire', arrived'), heard, orderly')
      BY <1>1, <1>2, WaitsLonger DEF Holds
    <2> QED  BY <1>2, <2>1 DEF Holds
  <1>3. ReceiverAsBuilt'  BY DEF StreamInv, ReceiverAsBuilt
  <1> QED  BY <1>1, <1>2, <1>3 DEF StreamInv

\* What opening and closing the receiver leave: nothing held; the format stays.
LEMMA EmptiedKeepsStream ==
  ASSUME StreamInv, ring' = R!Emptied(ring),
         UNCHANGED <<rFormat, capacity, dynamic, wire, arrived, orderly, heard>>
  PROVE  StreamInv'
  <1>1. QueueBytes \in Nat \ {0}  BY QueueAssumption
  <1>2. /\ ring' \in Rings(QueueBytes, RingByte) /\ WellFormed(QueueBytes, ring')
        /\ Content(QueueBytes, ring') = <<>>
    BY <1>1, SameRing, EmptiedFacts DEF StreamInv, ReceiverAsBuilt
  <1>3. Waits(<<>>, Delivered(wire, arrived), heard, orderly)
    BY NoFrames DEF Waits, Before
  <1>4. Holds(<<>>)'  BY <1>2, <1>3, NoFrames DEF Holds
  <1>5. ReceiverAsBuilt'  BY <1>2 DEF StreamInv, ReceiverAsBuilt
  <1> QED  BY <1>4, <1>5 DEF StreamInv

\* The capacity in frames.
LEMMA WholeFramesFit ==
  QueueBytes \div FrameBytes \in Nat /\ QueueBytes % FrameBytes = 0
  <1>1. QueueBytes \in Nat /\ QueueBytes % 4 = 0  BY QueueAssumption
  <1>2. CASE FrameBytes = 2  BY <1>1, <1>2
  <1>3. CASE FrameBytes = 4  BY <1>1, <1>3
  <1> QED  BY <1>2, <1>3, ChannelCount

\* The packet that comes in is later than everything before it, as long as the
\* network keeps the order.
LEMMA ArrivalIsLater ==
  ASSUME SenderSide, NEW d \in wire, NEW X, X \subseteq Delivered(wire, arrived),
         \A n \in arrived : n < d.number
  PROVE  Before(X, Ids(d.slots))
  <1> SUFFICES ASSUME NEW x \in X, NEW y \in Ids(d.slots) PROVE x < y
    BY DEF Before
  <1>1. PICK e \in wire : e.number \in arrived /\ x \in Ids(e.slots)  BY DEF Delivered
  <1>2. e.number < d.number  BY <1>1
  <1> QED  BY <1>1, <1>2 DEF SenderSide, OrderInv, Before

\* What poll() makes of an L16 packet of the link: all of its frames' bytes, in host
\* order, under the channel count of the formats.
LEMMA PcmArrival ==
  ASSUME SenderSide, ReceiverAsBuilt, NEW d \in wire, R!IsPcm(Arrival(d))
  PROVE  /\ d.kind = "l16" /\ R!ChannelsOf(Arrival(d)) = LinkChannels
         /\ R!HostOrder(R!WholeFrames(Arrival(d))) = Hosted(BytesIn(FramesOf(d), FrameBytes))
  <1>1. /\ Arrival(d).pt = d.pt /\ Arrival(d).payload = PayloadBytes(d)
    BY ArrivalFacts
  <1>2. dynamic.channels = 0 /\ dynamic.pt = 255
    BY DEF ReceiverAsBuilt, R!NoDynamic, R!NoType
  <1>3. d.pt \in {L16Mono, L16Stereo}
    BY <1>1, <1>2 DEF R!IsPcm, R!L16Mono, R!L16Stereo, L16Mono, L16Stereo
  <1>4. d.kind = "l16"
    BY <1>3, PacketFacts DEF SenderSide, WireInv, LinkPacket
  <1>5. R!ChannelsOf(Arrival(d)) = LinkChannels
    <2>1. d.pt = IF LinkChannels = 2 THEN L16Stereo ELSE L16Mono  BY <1>4, L16Facts
    <2>2. d.pt # dynamic.pt  BY <1>2, <1>3 DEF L16Mono, L16Stereo
    <2>3. R!ChannelsOf(Arrival(d)) = IF d.pt = 10 THEN 2 ELSE 1
      BY <1>1, <2>2 DEF R!ChannelsOf, R!L16Stereo
    <2> QED  BY <2>1, <2>3, ChannelCount DEF L16Stereo, L16Mono
  <1>6. R!BytesPerFrame(R!FormatAfter(Arrival(d))) = FrameBytes
    BY <1>5 DEF R!BytesPerFrame, R!FormatAfter, FrameBytes
  <1> DEFINE p == PayloadBytes(d)
             g == FramesOf(d)
  <1>7. p \in Seq(Traveller) /\ p = SentBytes(BytesIn(g, FrameBytes))
        /\ Len(p) = FrameBytes * Len(d.slots)
    BY <1>4, PayloadFacts
  <1>8. g \in Seq(SentFrame) /\ Len(d.slots) \in Nat  BY <1>4, L16Facts
  <1> HIDE DEF p, g
  <1>9. Len(p) % FrameBytes = 0 /\ Len(p) \in Nat
    <2>1. PICK n : n = Len(d.slots)  OBVIOUS
    <2>2. PICK l : l = Len(p)  OBVIOUS
    <2>3. n \in Nat /\ l = FrameBytes * n  BY <1>7, <1>8, <2>1, <2>2
    <2>4. CASE FrameBytes = 2
      <3>1. n \in Nat /\ l = 2 * n  BY <2>3, <2>4
      <3>2. l % 2 = 0 /\ l \in Nat  BY <3>1
      <3>3. l % FrameBytes = 0 /\ l \in Nat  BY <2>4, <3>2
      <3> QED  BY <2>2, <3>3
    <2>5. CASE FrameBytes = 4
      <3>1. n \in Nat /\ l = 4 * n  BY <2>3, <2>5
      <3>2. l % 4 = 0 /\ l \in Nat  BY <3>1
      <3>3. l % FrameBytes = 0 /\ l \in Nat  BY <2>5, <3>2
      <3> QED  BY <2>2, <3>3
    <2> QED  BY <2>4, <2>5, ChannelCount
  <1>10. R!WholeFrames(Arrival(d)) = p
    <2>1. R!WholeFrames(Arrival(d)) = SubSeq(p, 1, Len(p) - (Len(p) % FrameBytes))
      BY <1>1, <1>6 DEF R!WholeFrames, p
    <2>2. Len(p) - (Len(p) % FrameBytes) = Len(p)  BY <1>9
    <2> QED  BY <1>7, <2>1, <2>2, SubSeqFull
  <1>11. R!HostOrder(SentBytes(BytesIn(g, FrameBytes))) = Hosted(BytesIn(g, FrameBytes))
    BY <1>8, ChannelCount, HostOrderOfFrames
  <1> QED  BY <1>4, <1>5, <1>7, <1>10, <1>11 DEF g

\* poll() puts the frames of an L16 packet behind those held; the oldest may go.
LEMMA PushKeepsStream ==
  ASSUME SenderSide, StreamInv, NEW d \in wire, R!PollPcm(Arrival(d)),
         arrived' = arrived \cup {d.number},
         orderly' = (orderly /\ \A n \in arrived : n < d.number),
         UNCHANGED <<wire, heard>>
  PROVE  StreamInv'
  <1> DEFINE k == FrameBytes
             q == QueueBytes \div k
             f == FramesOf(d)
             b == Hosted(BytesIn(f, k))
  <1>1. /\ R!IsPcm(Arrival(d)) /\ capacity' = capacity /\ dynamic' = dynamic
        /\ rFormat' = R!FormatAfter(Arrival(d))
        /\ ring' = RingPush(capacity, ring, R!HostOrder(R!WholeFrames(Arrival(d))))
    BY SameRing DEF R!PollPcm
  <1>2. ReceiverAsBuilt  BY DEF StreamInv
  <1>3. ring' = RingPush(QueueBytes, ring, b) /\ d.kind = "l16" /\ rFormat'.channels = LinkChannels
    BY <1>1, <1>2, PcmArrival DEF ReceiverAsBuilt, R!FormatAfter
  <1>4. f \in Seq(SentFrame) /\ Rising(f) /\ Numbers(f) = Ids(d.slots)
    BY <1>3, L16Facts
  <1>5. k \in {2, 4}  BY ChannelCount
  <1>6. PICK g : Holds(g)  BY DEF StreamInv
  <1>7. g \in Seq(SentFrame) /\ Content(QueueBytes, ring) = Hosted(BytesIn(g, k))
        /\ Waits(g, Delivered(wire, arrived), heard, orderly)
    BY <1>6 DEF Holds
  <1>8. q \in Nat /\ QueueBytes % k = 0 /\ QueueBytes \in Nat \ {0}
    BY WholeFramesFit, QueueAssumption
  <1> HIDE DEF k, f, b, q
  <1> DEFINE h == Newest(g \o f, q)
  <1>9. h \in Seq(SentFrame)  BY <1>4, <1>7, <1>8, NewestInOrder
  <1>10. /\ ring' \in Rings(QueueBytes, RingByte) /\ WellFormed(QueueBytes, ring')
         /\ Content(QueueBytes, ring') = Hosted(BytesIn(h, k))
    <2>1. BytesIn(f, k) \in NetBytes /\ BytesIn(g, k) \in NetBytes
      BY <1>4, <1>5, <1>7, BytesInFacts DEF NetBytes
    <2>2. b \in Seq(RingByte)
      <3>1. b \in Seq(Traveller)  BY <2>1, HostedFacts DEF b
      <3> QED  BY <3>1, SeqWidens DEF RingByte
    <2>3. /\ ring' \in Rings(QueueBytes, RingByte) /\ WellFormed(QueueBytes, ring')
          /\ Content(QueueBytes, ring') = Newest(Hosted(BytesIn(g, k)) \o b, QueueBytes)
      BY <1>2, <1>3, <1>7, <1>8, <2>2, PushKeepsNewest DEF ReceiverAsBuilt
    <2>4. BytesIn(g, k) \o BytesIn(f, k) = BytesIn(g \o f, k) /\ g \o f \in Seq(SentFrame)
      BY <1>4, <1>5, <1>7, BytesJoin
    <2>5. Hosted(BytesIn(g, k)) \o b = Hosted(BytesIn(g \o f, k)) /\ BytesIn(g \o f, k) \in NetBytes
      BY <2>1, <2>4, HostedJoin DEF b
    <2>6. Newest(Hosted(BytesIn(g \o f, k)), QueueBytes)
            = Hosted(Newest(BytesIn(g \o f, k), QueueBytes))
      BY <1>8, <2>5, HostedNewest
    <2>7. Newest(BytesIn(g \o f, k), QueueBytes) = BytesIn(h, k)
      BY <1>5, <1>8, <2>4, BytesNewest DEF q
    <2> QED  BY <2>3, <2>5, <2>6, <2>7
  <1>11. Delivered(wire, arrived) \subseteq Delivered(wire', arrived')
    BY DeliveredGrows
  <1>12. Numbers(f) \subseteq Delivered(wire', arrived')
    BY <1>4 DEF Delivered
  <1>13. Waits(h, Delivered(wire', arrived'), heard, orderly')
    <2>1. orderly' => orderly /\ Before(Delivered(wire, arrived), Numbers(f))
      BY <1>4, ArrivalIsLater
    <2>2. Elements(heard) \subseteq Delivered(wire, arrived)  BY DEF StreamInv
    <2> QED  BY <1>4, <1>7, <1>8, <1>11, <1>12, <2>1, <2>2, WaitsBehind
  <1> HIDE DEF h
  <1>14. Holds(h)'
    <2>1. Content(QueueBytes, ring') = Hosted(BytesIn(h, FrameBytes))  BY <1>10 DEF k
    <2> QED  BY <1>9, <1>13, <2>1 DEF Holds
  <1>15. /\ heard' \in Seq(Nat) /\ Ascends(heard')
         /\ Elements(heard') \subseteq Delivered(wire', arrived')
    BY <1>11 DEF StreamInv
  <1>16. ReceiverAsBuilt'
    BY <1>1, <1>2, <1>3, <1>10 DEF ReceiverAsBuilt
  <1> QED  BY <1>14, <1>15, <1>16 DEF StreamInv

-----------------------------------------------------------------------------
\* Frames m + 1 .. n of those held are bytes k * m + 1 .. k * n, in host order too.
LEMMA HostedCut ==
  ASSUME NEW g \in Seq(SentFrame), NEW k \in {2, 4}, NEW m \in Nat, NEW n \in Nat,
         m <= n, n <= Len(g)
  PROVE  /\ CutBytes(Hosted(BytesIn(g, k)), k, m, n) = Hosted(BytesIn(Piece(g, m, n), k))
         /\ Piece(g, m, n) \in Seq(SentFrame) /\ Len(Piece(g, m, n)) = n - m
  <1> DEFINE b == BytesIn(g, k)
  <1>1. /\ b \in NetBytes /\ Len(b) = k * Len(g) /\ k * Len(g) \in Nat /\ Len(g) \in Nat
    BY BytesInFacts DEF NetBytes
  <1>2. /\ CutBytes(b, k, m, n) = BytesIn(Piece(g, m, n), k)
        /\ Piece(g, m, n) \in Seq(SentFrame) /\ Len(Piece(g, m, n)) = n - m
    BY BytesCut DEF Piece
  <1> HIDE DEF b
  <1>3. PICK u : u = k * m  OBVIOUS
  <1>4. PICK v : v = k * n  OBVIOUS
  <1>5. u \in Nat /\ v \in Nat /\ u <= v /\ v <= Len(b)
    <2>1. CASE k = 2  BY <1>1, <1>3, <1>4, <2>1
    <2>2. CASE k = 4  BY <1>1, <1>3, <1>4, <2>2
    <2> QED  BY <2>1, <2>2
  <1>6. Piece(Hosted(b), u, v) = Hosted(Piece(b, u, v))
    BY <1>1, <1>5, HostedPiece
  <1>7. \A s : CutBytes(s, k, m, n) = Piece(s, u, v)
    BY <1>3, <1>4 DEF CutBytes, Piece
  <1> QED  BY <1>2, <1>6, <1>7 DEF b

\* What readFrames(n) returns and leaves, in frames.
LEMMA ReadTakesFrames ==
  ASSUME StreamInv, NEW n \in Nat, R!ReadFrames(n), NEW g, Holds(g)
  PROVE  \E m \in 0 .. Len(g) :
           /\ ring' \in Rings(QueueBytes, RingByte) /\ WellFormed(QueueBytes, ring')
           /\ Content(QueueBytes, ring') = Hosted(BytesIn(Rest(g, m), FrameBytes))
           /\ Len(R!FramesRead(n)) = m
           /\ \A i \in 1 .. m : FrameOf(R!FramesRead(n)[i]) = g[i].id
  <1> DEFINE k == FrameBytes
             c == Content(QueueBytes, ring)
             m == R!Least(n, Len(g))
             x == R!TakeBytes(n)
             out == R!FramesRead(n)
  <1>1. ReceiverAsBuilt  BY DEF StreamInv
  <1>2. k \in {2, 4}  BY ChannelCount
  <1>3. rFormat.channels = LinkChannels
    <2>1. rFormat.channels \in {0, LinkChannels}  BY <1>1 DEF ReceiverAsBuilt
    <2>2. CASE rFormat.channels = 0
      <3>1. R!AvailableFrames = 0 /\ R!Least(n, R!AvailableFrames) > 0
        BY <2>2 DEF R!AvailableFrames, R!ReadFrames
      <3> QED  BY <3>1 DEF R!Least
    <2> QED  BY <2>1, <2>2
  <1>4. R!BytesPerFrame(rFormat) = k /\ rFormat.channels # 0
    BY <1>3, ChannelCount DEF R!BytesPerFrame, FrameBytes
  <1>5. /\ out = Frames(RingPopBytes(QueueBytes, ring, x), k)
        /\ ring' = RingPop(QueueBytes, ring, x)
    BY <1>1, <1>4, SameRing DEF R!ReadFrames, R!FramesRead, ReceiverAsBuilt
  <1>6. g \in Seq(SentFrame) /\ c = Hosted(BytesIn(g, k))  BY DEF Holds
  <1>7. /\ ring \in Rings(QueueBytes, RingByte) /\ WellFormed(QueueBytes, ring)
        /\ QueueBytes \in Nat \ {0}
    BY <1>1, QueueAssumption DEF ReceiverAsBuilt
  <1>8. c \in Seq(RingByte) /\ Len(c) = ring.count
    BY <1>7, ContentType
  <1>9. Len(c) = k * Len(g) /\ Len(g) \in Nat
    <2>1. /\ BytesIn(g, k) \in NetBytes /\ Len(BytesIn(g, k)) = k * Len(g) /\ Len(g) \in Nat
      BY <1>2, <1>6, BytesInFacts DEF NetBytes
    <2>2. Len(Hosted(BytesIn(g, k))) = Len(BytesIn(g, k))  BY <2>1, HostedFacts
    <2> QED  BY <1>6, <2>1, <2>2
  <1>10. x = R!Least(n, ring.count \div k) * k
    BY <1>4 DEF R!TakeBytes, R!AvailableFrames
  <1> HIDE DEF k, c, m, x, out
  <1>11. /\ m \in 0 .. Len(g) /\ m \in Nat /\ x = k * m /\ x \in Nat
         /\ Taken(ring, x) = x /\ x <= Len(c)
    <2>1. (k * Len(g)) \div k = Len(g)
      <3>1. CASE k = 2  BY <1>9, <3>1
      <3>2. CASE k = 4  BY <1>9, <3>2
      <3> QED  BY <1>2, <3>1, <3>2
    <2>2. m \in 0 .. Len(g) /\ m \in Nat  BY <1>9 DEF m, R!Least
    <2>3. x = m * k  BY <1>8, <1>9, <1>10, <2>1 DEF m
    <2>4. x = k * m /\ x \in Nat /\ x <= k * Len(g)
      <3>1. CASE k = 2  BY <1>9, <2>2, <2>3, <3>1
      <3>2. CASE k = 4  BY <1>9, <2>2, <2>3, <3>2
      <3> QED  BY <1>2, <3>1, <3>2
    <2>5. ring.count \in Nat
      <3>1. CASE k = 2  BY <1>8, <1>9, <3>1
      <3>2. CASE k = 4  BY <1>8, <1>9, <3>2
      <3> QED  BY <1>2, <3>1, <3>2
    <2>6. Taken(ring, x) = x  BY <1>8, <1>9, <2>4, <2>5 DEF Taken
    <2> QED  BY <1>9, <2>2, <2>4, <2>6
  <1>12. /\ ring' \in Rings(QueueBytes, RingByte) /\ WellFormed(QueueBytes, ring')
         /\ RingPopBytes(QueueBytes, ring, x) = SubSeq(c, 1, x)
         /\ Content(QueueBytes, ring') = SubSeq(c, x + 1, Len(c))
    <2> DEFINE r == RingPop(QueueBytes, ring, x)
    <2>1. /\ r \in Rings(QueueBytes, RingByte) /\ WellFormed(QueueBytes, r)
          /\ RingPopBytes(QueueBytes, ring, x) = SubSeq(c, 1, Taken(ring, x))
          /\ Content(QueueBytes, r) = SubSeq(c, Taken(ring, x) + 1, Len(c))
      BY <1>7, <1>11, PopTakesOldest, ZenonT(60) DEF c
    <2> HIDE DEF r
    <2>2. ring' = r  BY <1>5 DEF r
    <2> QED  BY <1>11, <2>1, <2>2
  <1> DEFINE a == Piece(g, 0, m)
  <1>13. SubSeq(c, 1, x) = Hosted(BytesIn(a, k)) /\ a \in Seq(SentFrame) /\ Len(a) = m
    <2>1. 0 \in Nat /\ 0 <= m /\ m <= Len(g)  BY <1>9, <1>11
    <2>2. /\ CutBytes(Hosted(BytesIn(g, k)), k, 0, m) = Hosted(BytesIn(a, k))
          /\ a \in Seq(SentFrame) /\ Len(a) = m - 0
      BY <1>2, <1>6, <1>11, <2>1, HostedCut
    <2>3. k * 0 + 1 = 1 /\ m - 0 = m  BY <1>2, <1>11
    <2> HIDE DEF a
    <2> QED  BY <1>6, <1>11, <2>2, <2>3 DEF CutBytes
  <1>14. SubSeq(c, x + 1, Len(c)) = Hosted(BytesIn(Rest(g, m), k))
    <2>1. PICK z : z = Len(g)  OBVIOUS
    <2>2. z \in Nat /\ m <= z /\ z <= Len(g)  BY <1>9, <1>11, <2>1
    <2>3. CutBytes(Hosted(BytesIn(g, k)), k, m, z) = Hosted(BytesIn(Piece(g, m, z), k))
      BY <1>2, <1>6, <1>11, <2>2, HostedCut
    <2>4. Piece(g, m, z) = Rest(g, m)  BY <2>1 DEF Piece, Rest
    <2> QED  BY <1>6, <1>9, <1>11, <2>1, <2>3, <2>4 DEF CutBytes
  <1>15. \A i \in 1 .. m : a[i] = g[i]
    <2>1. m \in Nat /\ m <= Len(g)  BY <1>9, <1>11
    <2>2. \A i \in 1 .. m : SubSeq(g, 1, m)[i] = g[i]  BY <1>6, <2>1, PrefixOfSeq
    <2>3. 0 + 1 = 1  OBVIOUS
    <2> QED  BY <2>2, <2>3 DEF Piece
  <1> HIDE DEF a
  <1>16. Len(out) = m /\ \A i \in 1 .. m : FrameOf(out[i]) = g[i].id
    <2>1. out = Frames(Hosted(BytesIn(a, k)), k)  BY <1>5, <1>12, <1>13
    <2>2. /\ Len(Frames(Hosted(BytesIn(a, k)), k)) = Len(a)
          /\ \A i \in 1 .. Len(a) : FrameOf(Frames(Hosted(BytesIn(a, k)), k)[i]) = a[i].id
      BY <1>2, <1>13, FramesOfHosted, Zenon
    <2> QED  BY <1>13, <1>15, <2>1, <2>2
  <1> QED  BY <1>11, <1>12, <1>14, <1>16 DEF k, out

\* The frames that were delivered were written.
LEMMA DeliveredWasWritten ==
  ASSUME SenderSide
  PROVE  Delivered(wire, arrived) \subseteq 1 .. written
  <1>1. Settled \in Nat /\ Settled <= written /\ written \in Nat
    BY PendingFacts DEF SenderSide
  <1>2. \A d \in wire : Ids(d.slots) \subseteq 1 .. Settled
    BY DEF SenderSide, OrderInv
  <1>3. 1 .. Settled \subseteq 1 .. written  BY <1>1
  <1> QED  BY <1>2, <1>3 DEF Delivered

\* readFrames(): what the listener hears goes behind what it heard.
LEMMA ReadKeepsStream ==
  ASSUME SenderSide, StreamInv, NEW n \in 1 .. MaxTake, Read(n)
  PROVE  StreamInv' /\ [Channel!Hear]_(Channel!cvars)
  <1>1. /\ n \in Nat /\ R!ReadFrames(n)
        /\ rFormat' = rFormat /\ capacity' = capacity /\ dynamic' = dynamic
        /\ wire' = wire /\ written' = written /\ arrived' = arrived /\ orderly' = orderly
        /\ heard' = IF orderly
                    THEN heard \o [i \in 1 .. Len(R!FramesRead(n)) |-> FrameOf(R!FramesRead(n)[i])]
                    ELSE heard
    BY DEF Read, R!ReadFrames, vars, history, netVars
  <1>2. PICK g : Holds(g)  BY DEF StreamInv
  <1>3. PICK m \in 0 .. Len(g) :
           /\ ring' \in Rings(QueueBytes, RingByte) /\ WellFormed(QueueBytes, ring')
           /\ Content(QueueBytes, ring') = Hosted(BytesIn(Rest(g, m), FrameBytes))
           /\ Len(R!FramesRead(n)) = m
           /\ \A i \in 1 .. m : FrameOf(R!FramesRead(n)[i]) = g[i].id
    BY <1>1, <1>2, ReadTakesFrames
  <1> DEFINE b == Rest(g, m)
             t == Heard(heard, g, m, orderly)
  <1>4. /\ g \in Seq(SentFrame) /\ Len(g) \in Nat
        /\ Waits(g, Delivered(wire, arrived), heard, orderly)
    BY <1>2, LenProperties DEF Holds
  <1>5. heard \in Seq(Nat) /\ Ascends(heard) /\ Elements(heard) \subseteq Delivered(wire, arrived)
    BY DEF StreamInv
  <1>6. heard' = t
    <2>1. [i \in 1 .. Len(R!FramesRead(n)) |-> FrameOf(R!FramesRead(n)[i])]
            = [i \in 1 .. m |-> g[i].id]
      BY <1>3
    <2> QED  BY <1>1, <2>1 DEF Heard
  <1>7. /\ b \in Seq(SentFrame)
        /\ t \in Seq(Nat) /\ Ascends(t) /\ Elements(t) \subseteq Delivered(wire, arrived)
        /\ Waits(b, Delivered(wire, arrived), t, orderly)
        /\ t = heard \/ GoesOn(t, heard)
    <2>1. \A x \in SentFrame : x.id \in Nat  BY DEF SentFrame
    <2>2. PICK D : D = Delivered(wire, arrived)  OBVIOUS
    <2>3. Elements(heard) \subseteq D /\ Waits(g, D, heard, orderly)  BY <1>4, <1>5, <2>2
    <2>4. m \in 0 .. Len(g)  BY <1>3
    <2>5. /\ b \in Seq(SentFrame) /\ Elements(b) \subseteq Elements(g)
          /\ t \in Seq(Nat) /\ Ascends(t) /\ Elements(t) \subseteq D
          /\ Waits(b, D, t, orderly)
          /\ t = heard \/ GoesOn(t, heard)
      BY <1>4, <1>5, <2>1, <2>3, <2>4, WaitsRead
    <2> HIDE DEF b, t
    <2> QED  BY <2>2, <2>5
  <1> HIDE DEF b, t
  <1>8. /\ heard' \in Seq(Nat) /\ Ascends(heard')
        /\ Elements(heard') \subseteq Delivered(wire, arrived)
    BY <1>6, <1>7
  <1>9. Holds(b)'
    <2>1. Content(QueueBytes, ring') = Hosted(BytesIn(b, FrameBytes))  BY <1>3 DEF b
    <2>2. Waits(b, Delivered(wire', arrived'), heard', orderly')
      BY <1>1, <1>6, <1>7
    <2> QED  BY <1>7, <2>1, <2>2 DEF Holds
  <1>10. ReceiverAsBuilt'  BY <1>1, <1>3 DEF StreamInv, ReceiverAsBuilt
  <1>11. StreamInv'
    <2>1. Elements(heard') \subseteq Delivered(wire', arrived')  BY <1>1, <1>8
    <2> QED  BY <1>8, <1>9, <1>10, <2>1 DEF StreamInv
  <1>12. heard' = heard \/ Channel!Hear
    <2>1. \A i \in 1 .. Len(heard') : heard'[i] \in 1 .. written
      BY <1>8, DeliveredWasWritten DEF Elements
    <2>2. Channel!Increasing(heard')  BY <1>8 DEF Ascends, Channel!Increasing
    <2> QED  BY <1>1, <1>6, <1>7, <2>1, <2>2 DEF Channel!Hear, GoesOn
  <1> QED  BY <1>1, <1>11, <1>12 DEF Channel!cvars

-----------------------------------------------------------------------------
\* The calls of the sending side.
SenderCall ==
  \/ \E source \in Ssrcs, seq, ts \in Starts : OpenSender(source, seq, ts)
  \/ \E f \in Formats : ChangeFormat(f)
  \/ \E pt \in CodecTypes : ChangePayloadType(pt)
  \/ \E n \in WriteSizes : WriteSender(n)
  \/ \E ok \in BOOLEAN : FlushSender(ok)
  \/ \E count \in EncodedSizes, ok \in BOOLEAN : SendEncoded(count, ok)

\* The sender adds to the wire, and what it writes goes into the channel.
LEMMA SenderStepWrites ==
  ASSUME SenderSide, SenderCall
  PROVE  /\ wire \subseteq wire' /\ UNCHANGED <<receiverVars, netVars, heard>>
         /\ [Channel!Write]_(Channel!cvars)
  <1>1. UNCHANGED <<receiverVars, netVars, heard>>
    BY DEF SenderCall, OpenSender, ChangeFormat, ChangePayloadType, WriteSender, FlushSender,
           SendEncoded, SenderStep
  <1>2. ASSUME NEW count \in EncodedSizes, NEW ok \in BOOLEAN, SendEncoded(count, ok)
        PROVE  wire \subseteq wire' /\ written' = written
    BY <1>2 DEF SendEncoded, SenderStep, WriteEncoded
  <1>3. ASSUME NEW n \in WriteSizes, WriteSender(n)
        PROVE  wire \subseteq wire' /\ [Channel!Write]_(Channel!cvars)
    <2>1. wire \subseteq wire' /\ written' = written + n /\ written + n <= MaxWritten
      BY <1>3 DEF WriteSender, SenderStep, WriteFrames, Emit
    <2>2. n \in Nat \ {0} /\ written \in Nat /\ MaxWritten \in Nat
      BY ApplicationAssumption, BoundAssumption DEF SenderSide, SenderInv, TypeOK
    <2>3. n \in 1 .. MaxWritten  BY <2>1, <2>2
    <2> QED  BY <1>1, <2>1, <2>3 DEF Channel!Write
  <1>4. ASSUME NEW ok \in BOOLEAN, FlushSender(ok)
        PROVE  wire \subseteq wire' /\ written' = written
    BY <1>4 DEF FlushSender, SenderStep, Flush
  <1>5. ASSUME \/ \E source \in Ssrcs, seq, ts \in Starts : OpenSender(source, seq, ts)
               \/ \E f \in Formats : ChangeFormat(f)
               \/ \E pt \in CodecTypes : ChangePayloadType(pt)
        PROVE  wire \subseteq wire' /\ written' = written
    <2>1. ASSUME NEW source \in Ssrcs, NEW seq \in Starts, NEW ts \in Starts,
                 OpenSender(source, seq, ts)
          PROVE  wire' = wire /\ written' = written
      BY <2>1 DEF OpenSender, SenderStep, Begin
    <2>2. ASSUME NEW f \in Formats, ChangeFormat(f)
          PROVE  wire' = wire /\ written' = written
      BY <2>2 DEF ChangeFormat, SenderStep, SetFormat
    <2>3. ASSUME NEW pt \in CodecTypes, ChangePayloadType(pt)
          PROVE  wire' = wire /\ written' = written
      BY <2>3 DEF ChangePayloadType, SenderStep, SetPayloadType
    <2>4. wire' = wire /\ written' = written  BY <1>5, <2>1, <2>2, <2>3
    <2> QED  BY <2>4
  <1>6. \/ wire \subseteq wire' /\ written' = written
        \/ \E n \in WriteSizes : WriteSender(n)
    BY <1>2, <1>4, <1>5 DEF SenderCall
  <1>7. CASE wire \subseteq wire' /\ written' = written
    BY <1>1, <1>7 DEF Channel!cvars
  <1> QED  BY <1>1, <1>3, <1>6, <1>7

\* poll(): L16 goes into the queue, a codec packet past it.
LEMMA PollKeepsStream ==
  ASSUME SenderSide, StreamInv, Poll
  PROVE  StreamInv' /\ UNCHANGED <<written, heard>>
  <1>1. PICK d \in wire :
          /\ R!Poll(Arrival(d))
          /\ arrived' = arrived \cup {d.number}
          /\ orderly' = (orderly /\ \A n \in arrived : n < d.number)
    BY DEF Poll
  <1>2. wire' = wire /\ written' = written /\ heard' = heard
    BY DEF Poll, vars, history
  <1>3. CASE R!PollPcm(Arrival(d))
    BY <1>1, <1>2, <1>3, PushKeepsStream
  <1>4. CASE ~ R!PollPcm(Arrival(d))
    <2>1. UNCHANGED <<rFormat, capacity, dynamic, ring>>
      BY <1>1, <1>4 DEF R!Poll, R!PollRunt, R!PollBad, R!PollEncoded
    <2>2. wire \subseteq wire' /\ arrived \subseteq arrived' /\ (orderly' => orderly)
      BY <1>1, <1>2
    <2> QED  BY <1>2, <2>1, <2>2, QuietStepKeepsStream
  <1> QED  BY <1>2, <1>3, <1>4

LEMMA LinkStep ==
  SenderSide /\ StreamInv /\ [LinkNext]_linkVars =>
    StreamInv' /\ [Channel!Write \/ Channel!Hear]_(Channel!cvars)
  <1> DEFINE Goal == StreamInv' /\ [Channel!Write \/ Channel!Hear]_(Channel!cvars)
  <1> SUFFICES ASSUME SenderSide, StreamInv, [LinkNext]_linkVars PROVE Goal
    OBVIOUS
  <1>1. CASE SenderCall
    <2>1. /\ wire \subseteq wire' /\ UNCHANGED <<receiverVars, netVars, heard>>
          /\ [Channel!Write]_(Channel!cvars)
      BY <1>1, SenderStepWrites
    <2>2. StreamInv'
      BY <2>1, QuietStepKeepsStream DEF receiverVars, netVars
    <2> QED  BY <2>1, <2>2
  <1>2. CASE OpenReceiver \/ CloseReceiver
    <2>1. /\ ring' = R!Emptied(ring)
          /\ UNCHANGED <<rFormat, capacity, dynamic, wire, written, arrived, orderly, heard>>
      BY <1>2 DEF OpenReceiver, CloseReceiver, ReceiverStep, R!Begin, R!End, R!DropQueue,
                  vars, history, netVars
    <2>2. StreamInv'  BY <2>1, EmptiedKeepsStream
    <2> QED  BY <2>1, <2>2 DEF Channel!cvars
  <1>3. CASE Poll
    BY <1>3, PollKeepsStream DEF Channel!cvars
  <1>4. ASSUME NEW n \in 1 .. MaxTake, Read(n) PROVE Goal
    <2>1. StreamInv' /\ [Channel!Hear]_(Channel!cvars)  BY <1>4, ReadKeepsStream
    <2> QED  BY <2>1
  <1>5. CASE (\E size \in ReadSizes : ReadEncoded(size)) \/ UNCHANGED linkVars
    <2>1. UNCHANGED <<rFormat, capacity, dynamic, ring, wire, written, arrived, orderly, heard>>
      BY <1>5 DEF ReadEncoded, ReceiverStep, R!ReadEncoded, linkVars, vars, history,
                  receiverVars, netVars
    <2>2. StreamInv'  BY <2>1, QuietStepKeepsStream
    <2> QED  BY <2>1, <2>2 DEF Channel!cvars
  <1> HIDE DEF Goal
  <1> QED  BY <1>1, <1>2, <1>3, <1>4, <1>5 DEF LinkNext, SenderCall

LEMMA StreamHolds == LinkSpec => []StreamInv
  <1>1. LinkInit => StreamInv
    <2> SUFFICES ASSUME LinkInit PROVE StreamInv
      OBVIOUS
    <2>1. /\ ring = EmptyRing(QueueBytes, Silence) /\ capacity = QueueBytes
          /\ rFormat.channels = 0 /\ dynamic = R!NoDynamic /\ heard = <<>>
      BY SameRing DEF LinkInit, R!Init, R!NoFormat
    <2>2. /\ ring \in Rings(QueueBytes, RingByte) /\ WellFormed(QueueBytes, ring)
          /\ Content(QueueBytes, ring) = <<>>
      <3>1. Silence \in RingByte  BY DEF RingByte
      <3> QED  BY <2>1, <3>1, QueueAssumption, EmptyRingFacts
    <2>3. heard \in Seq(Nat) /\ Len(heard) = 0 /\ Elements(heard) = {}
      BY <2>1 DEF Elements
    <2>4. Ascends(heard)  BY <2>3 DEF Ascends
    <2>5. Waits(<<>>, Delivered(wire, arrived), heard, orderly)
      BY NoFrames DEF Waits, Before
    <2>6. Holds(<<>>)  BY <2>2, <2>5, NoFrames DEF Holds
    <2> QED  BY <2>1, <2>2, <2>3, <2>4, <2>6 DEF StreamInv, ReceiverAsBuilt
  <1> QED  BY <1>1, LinkStep, SenderSideHolds, PTL DEF LinkSpec

\* Sender, network and receiver are together the lossy frame channel: while the
\* network keeps the order, frames are heard whole and in host byte order, each at
\* most once and in the order written, on every network, with codec packets in
\* between, through every begin(), end() and setFormat(), failed packet and full ring.
THEOREM LinkIsALossyChannel == LinkSpec => ChannelSpec
  <1>1. LinkInit => Channel!Init  BY DEF LinkInit, Init, Channel!Init
  <1>2. SenderSide /\ StreamInv /\ [LinkNext]_linkVars
          => [Channel!Write \/ Channel!Hear]_(Channel!cvars)
    BY LinkStep
  <1> QED  BY <1>1, <1>2, SenderSideHolds, StreamHolds, PTL
           DEF LinkSpec, ChannelSpec, Channel!Spec
=============================================================================
