------------------------------ MODULE RtpSender ------------------------------
(***************************************************************************)
(* RtpSender: PCM frames gathered into L16 packets (writeFrames), or codec *)
(* bytes sent one packet per call (writeEncoded).  Both build the packet   *)
(* in the same scratch buffer, packet_.                                    *)
(*                                                                         *)
(* A slot of the scratch buffer is a frame (its number and the channel     *)
(* count it was written with) or Overwritten.  Calls are atomic; which     *)
(* packets the UDP stack takes is the stack's choice.                      *)
(***************************************************************************)
EXTENDS Integers, Sequences, FiniteSets

CONSTANTS Formats,      \* PCM formats an application may ask for
          CodecTypes,   \* payload types an application may set itself
          Starts,       \* random first sequence numbers and timestamps
          Ssrcs,        \* synchronisation sources
          Increments,   \* values of setTimestampIncrement()
          EncodedSizes, \* byte counts of one writeEncoded()
          WriteSizes,   \* frame counts of one writeFrames()
          MaxPayload,   \* kRtpMaxPayloadBytes, 1440
          SeqMod,       \* sequenceNumber_ is a uint16_t
          TsMod,        \* timestamp_ is a uint32_t
          MaxWritten,   \* bound: frames written in a behaviour
          MaxPackets,   \* bound: packets built in a behaviour
          MaxEncoded,   \* bound: codec packets on the wire of a behaviour
          MaxRestamps   \* bound: overrides of the numbering in a behaviour

L16Stereo == 10
L16Mono == 11
Unset == 255
NoFormat == [rate |-> 0, channels |-> 0, bits |-> 0]
Overwritten == [id |-> 0, channels |-> 0]

ASSUME FormatAssumption == Formats \subseteq [rate : Nat, channels : 0 .. 255, bits : Nat]
ASSUME LimitAssumption ==
  /\ SeqMod \in Nat \ {0, 1} /\ TsMod \in Nat \ {0, 1} /\ MaxPayload \in Nat
  /\ Starts \subseteq 0 .. SeqMod - 1 /\ Starts \subseteq 0 .. TsMod - 1
  /\ \A f \in Formats : 2 * f.channels <= MaxPayload
ASSUME ApplicationAssumption ==
  /\ CodecTypes \subseteq 0 .. 127 /\ Ssrcs \subseteq Nat /\ Increments \subseteq Nat
  /\ EncodedSizes \subseteq Nat /\ WriteSizes \subseteq Nat \ {0}
ASSUME BoundAssumption ==
  /\ MaxWritten \in Nat /\ MaxPackets \in Nat
  /\ MaxEncoded \in Nat /\ MaxRestamps \in Nat

VARIABLES
  ready, error, format,
  payloadType,      \* payloadType_
  isL16,            \* isL16_
  samplesPerPacket, \* samplesPerPacket_
  pending,          \* the pendingFrames_ slots at packet_[12..]
  sequenceNumber, timestamp, tsIncrement, ssrc,
  armMarker,        \* armMarker_
  wire,             \* the datagrams the UDP stack has taken
  written,          \* history: frames accepted
  lost,             \* history: numbers of frames in packets that failed to go
  dropped,          \* history: numbers of pending frames a call discarded
  packets,          \* history: packets built
  restamps          \* history: begin(), setSequenceNumber(), setTimestamp() calls

numbering == <<sequenceNumber, timestamp, armMarker>>
config == <<ready, format, payloadType, isL16, samplesPerPacket, tsIncrement, ssrc>>
history == <<wire, written, lost, dropped, packets, restamps>>
vars == <<error, config, numbering, pending, history>>

-----------------------------------------------------------------------------
IsValid(f) == f.rate # 0 /\ f.channels # 0 /\ f.bits # 0

Ids(slots) == {slots[i].id : i \in 1 .. Len(slots)} \ {0}

\* 20 ms of the clock or what fits the payload, at least one frame.
\* Faulty variant: the payload limit is forgotten.
SamplesBy20ms(rate, channels) == IF rate \div 50 = 0 THEN 1 ELSE rate \div 50

ComputeSamplesPerPacket(rate, channels) ==
  LET byTime    == rate \div 50
      byPayload == MaxPayload \div (2 * channels)
      least     == IF byTime < byPayload THEN byTime ELSE byPayload
  IN  IF least = 0 THEN 1 ELSE least

Gathered(n) ==
  pending \o [i \in 1 .. n |-> [id |-> written + i, channels |-> format.channels]]

FullPackets(n) == Len(Gathered(n)) \div samplesPerPacket

PacketSlots(n, i) ==
  SubSeq(Gathered(n), (i - 1) * samplesPerPacket + 1, i * samplesPerPacket)

\* Faulty variant: the loop ends with the last full packet.
RemainderForgotten(n) == IF FullPackets(n) = 0 THEN Gathered(n) ELSE <<>>

Remainder(n) ==
  SubSeq(Gathered(n), FullPackets(n) * samplesPerPacket + 1, Len(Gathered(n)))

\* Faulty variant: all packets of a call are numbered alike.
NoneBefore(sent, i) == 0

\* Only a packet that goes out advances the numbering: the packets of `sent`
\* before the i-th one.
SentBefore(sent, i) == Cardinality({j \in sent : j < i})

\* The i-th packet from here, if those in sent go out and each takes `ticks`.
Datagram(kind, slots, i, sent, ticks) ==
  [kind |-> kind, pt |-> payloadType, ssrc |-> ssrc,
   marker |-> armMarker /\ SentBefore(sent, i) = 0,
   seq |-> (sequenceNumber + SentBefore(sent, i)) % SeqMod,
   ts |-> (timestamp + ticks * SentBefore(sent, i)) % TsMod,
   slots |-> slots, ticks |-> ticks,
   number |-> packets + i, restamps |-> restamps]

\* Faulty variants: the sequence number advances once per call; a packet that
\* failed disarms the marker; no wrap.
AdvanceSeqOnce(sent, ticks) ==
  /\ sequenceNumber' = IF sent = {} THEN sequenceNumber ELSE (sequenceNumber + 1) % SeqMod
  /\ timestamp' = (timestamp + ticks * Cardinality(sent)) % TsMod
  /\ armMarker' = (armMarker /\ sent = {})

AdvanceDisarmed(sent, ticks) ==
  /\ sequenceNumber' = (sequenceNumber + Cardinality(sent)) % SeqMod
  /\ timestamp' = (timestamp + ticks * Cardinality(sent)) % TsMod
  /\ armMarker' = FALSE

AdvanceUnwrapped(sent, ticks) ==
  /\ sequenceNumber' = sequenceNumber + Cardinality(sent)
  /\ timestamp' = timestamp + ticks * Cardinality(sent)
  /\ armMarker' = (armMarker /\ sent = {})

\* ++sequenceNumber_, timestamp_ += ticks, armMarker_ = false, for each sent.
Advance(sent, ticks) ==
  /\ sequenceNumber' = (sequenceNumber + Cardinality(sent)) % SeqMod
  /\ timestamp' = (timestamp + ticks * Cardinality(sent)) % TsMod
  /\ armMarker' = (armMarker /\ sent = {})

-----------------------------------------------------------------------------
Init ==
  /\ ready = FALSE /\ error = "NotReady" /\ format = NoFormat
  /\ payloadType = Unset /\ isL16 = FALSE /\ samplesPerPacket = 0 /\ pending = <<>>
  /\ sequenceNumber = 0 /\ timestamp = 0 /\ tsIncrement = 0 /\ ssrc = 0
  /\ armMarker = FALSE
  /\ wire = {} /\ written = 0 /\ lost = {} /\ dropped = {}
  /\ packets = 0 /\ restamps = 0

\* pendingFrames_ = 0 where the frames have not been sent.
\* Faulty variant: the frames stay in the scratch buffer.
KeepPending == UNCHANGED <<pending, dropped>>

DropPending == pending' = <<>> /\ dropped' = dropped \cup Ids(pending)

Begin(port, source, seq, ts) ==
  /\ restamps < MaxRestamps
  /\ ssrc' = source /\ sequenceNumber' = seq /\ timestamp' = ts
  /\ DropPending
  /\ armMarker' = TRUE
  /\ ready' = (port # 0)
  /\ error' = IF port # 0 THEN "None" ELSE "NotReady"
  /\ restamps' = restamps + 1
  /\ UNCHANGED <<format, payloadType, isL16, samplesPerPacket, tsIncrement,
                 wire, written, lost, packets>>

End ==
  /\ DropPending
  /\ ready' = FALSE /\ error' = "NotReady"
  /\ UNCHANGED <<format, payloadType, isL16, samplesPerPacket, tsIncrement, ssrc,
                 numbering, wire, written, lost, packets, restamps>>

SetPayloadTypeRejected(pt, clockRate) ==
  /\ pt > 127 \/ clockRate = 0
  /\ error' = "UnsupportedFormat"
  /\ UNCHANGED <<config, numbering, pending, history>>

\* setPayloadType(): a codec type forgets the L16 packet size, an L16 type
\* keeps whatever setFormat() computed last.
SetPayloadType(pt, clockRate) ==
  /\ pt <= 127 /\ clockRate # 0
  /\ payloadType' = pt
  /\ isL16' = (pt \in {L16Mono, L16Stereo})
  /\ samplesPerPacket' = IF pt \in {L16Mono, L16Stereo} THEN samplesPerPacket ELSE 0
  /\ DropPending
  /\ UNCHANGED <<ready, error, format, tsIncrement, ssrc, numbering,
                 wire, written, lost, packets, restamps>>

SetFormatRejected(f) ==
  /\ ~ IsValid(f) \/ f.bits # 16
  /\ error' = "UnsupportedFormat"
  /\ UNCHANGED <<config, numbering, pending, history>>

SetFormat(f) ==
  /\ IsValid(f) /\ f.bits = 16
  /\ payloadType' = IF f.channels = 2 THEN L16Stereo ELSE L16Mono
  /\ isL16' = TRUE
  /\ format' = f
  /\ samplesPerPacket' = ComputeSamplesPerPacket(f.rate, f.channels)
  /\ DropPending
  /\ UNCHANGED <<ready, error, tsIncrement, ssrc, numbering,
                 wire, written, lost, packets, restamps>>

SetTimestampIncrement(inc) ==
  /\ tsIncrement' = inc
  /\ UNCHANGED <<ready, error, format, payloadType, isL16, samplesPerPacket, ssrc,
                 numbering, pending, history>>

SetSsrc(source) ==
  /\ ssrc' = source
  /\ UNCHANGED <<ready, error, format, payloadType, isL16, samplesPerPacket, tsIncrement,
                 numbering, pending, history>>

SetMarker(m) ==
  /\ armMarker' = m
  /\ UNCHANGED <<error, config, sequenceNumber, timestamp, pending, history>>

SetSequenceNumber(seq) ==
  /\ restamps < MaxRestamps /\ restamps' = restamps + 1
  /\ sequenceNumber' = seq
  /\ UNCHANGED <<error, config, timestamp, armMarker, pending,
                 wire, written, lost, dropped, packets>>

SetTimestamp(ts) ==
  /\ restamps < MaxRestamps /\ restamps' = restamps + 1
  /\ timestamp' = ts
  /\ UNCHANGED <<error, config, sequenceNumber, armMarker, pending,
                 wire, written, lost, dropped, packets>>

WriteRefused ==
  /\ ~ ready \/ ~ isL16 \/ samplesPerPacket = 0
  /\ error' = IF ~ ready THEN "NotReady" ELSE "WrongPath"
  /\ UNCHANGED <<config, numbering, pending, history>>

\* The L16 packets of one writeFrames(n), of which those in sent go out.
Emit(n, sent) ==
  LET k == FullPackets(n)
  IN  /\ wire' = wire \cup
           {Datagram("l16", PacketSlots(n, i), i, sent, samplesPerPacket) : i \in sent}
      /\ lost' = lost \cup UNION {Ids(PacketSlots(n, i)) : i \in (1 .. k) \ sent}
      /\ Advance(sent, samplesPerPacket)
      /\ error' = IF sent = 1 .. k THEN error ELSE "SendFailed"
      /\ packets' = packets + k

WriteFrames(n) ==
  /\ ready /\ isL16 /\ samplesPerPacket > 0
  /\ written + n <= MaxWritten /\ packets + FullPackets(n) <= MaxPackets
  /\ \E sent \in SUBSET (1 .. FullPackets(n)) : Emit(n, sent)
  /\ pending' = Remainder(n)
  /\ written' = written + n
  /\ UNCHANGED <<config, dropped, restamps>>

FlushRefused ==
  /\ ~ ready
  /\ error' = "NotReady"
  /\ UNCHANGED <<config, numbering, pending, history>>

\* flush() with frames pending; without, it changes nothing.
Flush(ok) ==
  /\ ready /\ pending # <<>> /\ packets < MaxPackets
  /\ LET sent == IF ok THEN {1} ELSE {}
     IN  /\ wire' = wire \cup {Datagram("l16", pending, i, sent, Len(pending)) : i \in sent}
         /\ lost' = IF ok THEN lost ELSE lost \cup Ids(pending)
         /\ Advance(sent, Len(pending))
  /\ error' = IF ok THEN error ELSE "SendFailed"
  /\ packets' = packets + 1
  /\ pending' = <<>>
  /\ UNCHANGED <<config, written, dropped, restamps>>

EncodedRefused(count) ==
  /\ ~ ready \/ payloadType = Unset \/ count = 0 \/ count > MaxPayload
  /\ error' = IF ~ ready THEN "NotReady"
              ELSE IF payloadType = Unset THEN "WrongPath" ELSE "UnsupportedFormat"
  /\ UNCHANGED <<config, numbering, pending, history>>

\* The slots of the scratch buffer that the first count bytes reach.
Clobbered(count) ==
  [i \in 1 .. Len(pending) |->
     IF (i - 1) * 2 * format.channels < count THEN Overwritten ELSE pending[i]]

\* writeEncoded(): the bytes are copied into packet_ and sent from there.
WriteEncoded(count, ok) ==
  /\ ready /\ payloadType # Unset /\ count \in 1 .. MaxPayload
  /\ packets < MaxPackets /\ Cardinality({d \in wire : d.kind = "encoded"}) < MaxEncoded
  /\ LET sent == IF ok THEN {1} ELSE {}
     IN  /\ wire' = wire \cup {Datagram("encoded", <<>>, i, sent, tsIncrement) : i \in sent}
         /\ Advance(sent, tsIncrement)
  /\ pending' = Clobbered(count)
  /\ lost' = lost \cup (Ids(pending) \ Ids(Clobbered(count)))
  /\ error' = IF ok THEN error ELSE "SendFailed"
  /\ packets' = packets + 1
  /\ UNCHANGED <<config, written, dropped, restamps>>

Next ==
  \/ \E port \in {0, 1}, source \in Ssrcs, seq, ts \in Starts : Begin(port, source, seq, ts)
  \/ End
  \/ \E pt \in CodecTypes \cup {128}, clockRate \in {0, 8000} :
       SetPayloadTypeRejected(pt, clockRate)
  \/ \E pt \in CodecTypes : SetPayloadType(pt, 8000)
  \/ \E f \in Formats : SetFormatRejected(f)
  \/ \E f \in Formats : SetFormat(f)
  \/ \E inc \in Increments : SetTimestampIncrement(inc)
  \/ \E source \in Ssrcs : SetSsrc(source)
  \/ \E m \in BOOLEAN : SetMarker(m)
  \/ \E seq \in Starts : SetSequenceNumber(seq)
  \/ \E ts \in Starts : SetTimestamp(ts)
  \/ WriteRefused
  \/ \E n \in WriteSizes : WriteFrames(n)
  \/ FlushRefused
  \/ \E ok \in BOOLEAN : Flush(ok)
  \/ \E count \in EncodedSizes \cup {0, MaxPayload + 1} : EncodedRefused(count)
  \/ \E count \in EncodedSizes, ok \in BOOLEAN : WriteEncoded(count, ok)

Spec == Init /\ [][Next]_vars

-----------------------------------------------------------------------------
Errors == {"None", "NotReady", "UnsupportedFormat", "WrongPath", "SendFailed"}

L16Formats == {f \in Formats : IsValid(f) /\ f.bits = 16}

Slot == [id : 1 .. MaxWritten, channels : {f.channels : f \in L16Formats}] \cup {Overwritten}

Datagrams ==
  [kind : {"l16", "encoded"}, pt : 0 .. 127, ssrc : Ssrcs, marker : BOOLEAN,
   seq : 0 .. SeqMod - 1, ts : 0 .. TsMod - 1, slots : Seq(Slot),
   ticks : Nat, number : Nat, restamps : 0 .. MaxRestamps]

TypeOK ==
  /\ ready \in BOOLEAN /\ error \in Errors
  /\ format \in L16Formats \cup {NoFormat}
  /\ payloadType \in (0 .. 127) \cup {Unset} /\ isL16 \in BOOLEAN
  /\ samplesPerPacket \in Nat
  /\ pending \in Seq(Slot)
  /\ sequenceNumber \in 0 .. SeqMod - 1 /\ timestamp \in 0 .. TsMod - 1
  /\ tsIncrement \in Increments \cup {0} /\ ssrc \in Ssrcs \cup {0}
  /\ armMarker \in BOOLEAN
  /\ wire \subseteq Datagrams
  /\ written \in 0 .. MaxWritten
  /\ lost \subseteq 1 .. MaxWritten /\ dropped \subseteq 1 .. MaxWritten
  /\ packets \in 0 .. MaxPackets /\ restamps \in 0 .. MaxRestamps

\* A packet of writeFrames() or flush() is an L16 packet, it fits the payload
\* area of packet_, and its frames were all written with the channel count of
\* the format set when it left, however setPayloadType(), setFormat(), begin()
\* and writeEncoded() were mixed in between.  It holds for mono and stereo
\* formats; an application that calls setPayloadType() with PT 10 or 11, which
\* RtpSender.h tells it not to, is left out by CodecTypes.
L16PacketsAreWhole ==
  \A d \in wire : d.kind = "l16" =>
    /\ d.pt \in {L16Mono, L16Stereo}
    /\ d.slots # <<>>
    /\ LET used == {d.slots[i] : i \in 1 .. Len(d.slots)} \ {Overwritten}
       IN  /\ \A x, y \in used : x.channels = y.channels
           /\ \A x \in used : 2 * x.channels * Len(d.slots) <= MaxPayload
           /\ \A x \in used : x.channels = 2 <=> d.pt = L16Stereo

\* e is the first packet on the wire after d.
Follows(d, e) ==
  /\ d.number < e.number
  /\ ~ \E g \in wire : d.number < g.number /\ g.number < e.number

\* A receiver that orders and times packets by their header is right: while the
\* application does not restart or renumber the stream, each packet on the wire
\* has the sequence number after its predecessor's and a timestamp the duration
\* of its predecessor later, over the wraps of both counters, over full, flushed
\* and encoded packets and over packets that failed to go.
StampsFollow ==
  \A d, e \in wire :
    Follows(d, e) /\ d.restamps = e.restamps =>
      /\ e.seq = (d.seq + 1) % SeqMod
      /\ e.ts = (d.ts + d.ticks) % TsMod

\* The datagrams one call puts on the wire, and which of them have the marker.
SentNow == wire' \ wire
MarkedNow == {d \in SentNow : d.marker}

\* The marker an application arms (begin() or setMarker(true)) goes out on exactly
\* one packet, the first that leaves, and every other packet has none: a call that
\* sends anything disarms it, whatever packets of the call fail; a call that sends
\* while it is not armed marks nothing; a call whose packets all fail keeps it.
MarkerGoesOutOnce ==
  [][/\ SentNow # {} =>
          /\ ~ armMarker'
          /\ Cardinality(MarkedNow) = IF armMarker THEN 1 ELSE 0
          /\ \A d \in MarkedNow, e \in SentNow : d.number <= e.number
     /\ SentNow = {} /\ packets' # packets => armMarker' = armMarker]_vars

OnWire == UNION {Ids(d.slots) : d \in wire}

\* Every frame writeFrames() accepted is in exactly one place: in one packet on
\* the wire, lost, discarded by a call, or pending.
EveryFrameOnce ==
  /\ 1 .. written = OnWire \cup lost \cup dropped \cup Ids(pending)
  /\ OnWire \cap (lost \cup dropped \cup Ids(pending)) = {}
  /\ lost \cap (dropped \cup Ids(pending)) = {}
  /\ dropped \cap Ids(pending) = {}
  /\ \A d, e \in wire : d # e => Ids(d.slots) \cap Ids(e.slots) = {}
=============================================================================
