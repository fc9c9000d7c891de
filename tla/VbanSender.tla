----------------------------- MODULE VbanSender -----------------------------
(***************************************************************************)
(* VbanSender: PCM frames written by an application are gathered in the    *)
(* packet scratch buffer and leave as VBAN audio datagrams.                *)
(*                                                                         *)
(* A frame is a record of its number (the order in which it was written)   *)
(* and the format that was set when it was written.  The calls are atomic: *)
(* the class is single-threaded.  writeFrames may emit several packets;    *)
(* which of them the UDP stack takes (beginPacket and endPacket both       *)
(* return 1) is the stack's choice.                                        *)
(***************************************************************************)
EXTENDS Integers, Sequences

CONSTANTS Names,          \* stream names after truncation to 16 bytes
          Formats,        \* the PCM formats an application may ask for
          SupportedRates, \* the rates of the VBAN table, kVbanSampleRates
          MaxPayload,     \* kVbanMaxPayloadBytes, 1408
          MaxSamples,     \* samples per packet the header can say, 256
          CounterMod,     \* frameCounter is a uint32_t: 2^32
          WriteSizes,     \* frame counts of one writeFrames call
          MaxWritten      \* bound: frames written in a behaviour

NoFormat == [rate |-> 0, channels |-> 0, bits |-> 0]
NoName == "none"

PCMFormat == [rate : Nat, channels : 0 .. 255, bits : {0, 8, 16, 24, 32}]

\* PCMFormat::isValid(), of the PCMFlow library.
IsValid(f) == f.rate # 0 /\ f.channels # 0 /\ f.bits # 0

ASSUME FormatAssumption == Formats \subseteq PCMFormat /\ NoName \notin Names
ASSUME LimitAssumption ==
  /\ MaxPayload \in Nat /\ MaxSamples \in Nat \ {0} /\ CounterMod \in Nat \ {0, 1}
  /\ \A f \in Formats : 2 * f.channels <= MaxPayload
ASSUME BoundAssumption ==
  WriteSizes \subseteq Nat \ {0} /\ MaxWritten \in Nat

VARIABLES
  ready,            \* ready_
  error,            \* error_
  format,           \* format_, and sampleRateIndex_ with it
  samplesPerPacket, \* samplesPerPacket_
  pending,          \* the pendingFrames_ frames at packet_[28..], in order
  frameCounter,     \* frameCounter_
  streamName,       \* streamName_
  wire,             \* the datagrams the UDP stack has taken
  written,          \* history: frames accepted by writeFrames
  lost,             \* history: numbers of frames in packets that failed to go
  dropped,          \* history: numbers of pending frames a call discarded
  opened,           \* history: written at the last begin(), which names the session
  emissions,        \* history: emitPacket() calls that built a packet
  answered,         \* history: emissions when error_ was last set by another call
  lastFlush         \* history: what the last flush() returned and did

state == <<ready, error, format, samplesPerPacket, pending, frameCounter, streamName>>
history == <<wire, written, lost, dropped, opened, emissions, answered, lastFlush>>
vars == <<state, history>>

-----------------------------------------------------------------------------
Ids(frames) == {frames[i].id : i \in 1 .. Len(frames)}

IsSendable(f) == IsValid(f) /\ f.bits = 16 /\ f.rate \in SupportedRates

BytesPerFrame(f) == (f.channels * f.bits) \div 8

\* Faulty variant: the limit of the header's sample field is forgotten.
SamplesByPayloadOnly(channels) == MaxPayload \div (2 * channels)

ComputeSamplesPerPacket(channels) ==
  LET fits == MaxPayload \div (2 * channels)
  IN  IF fits < MaxSamples THEN fits ELSE MaxSamples

\* Faulty variant: the new frames overwrite the start of the buffer.
GatheredInFront(n) ==
  [i \in 1 .. n |-> [id |-> written + i, format |-> format]] \o pending

\* The frames of one writeFrames(n) call, behind what is already pending.
Gathered(n) ==
  pending \o [i \in 1 .. n |-> [id |-> written + i, format |-> format]]

\* How many packets the loop of writeFrames fills with them; the frames of
\* the i-th; and those that stay.
FullPackets(n) == Len(Gathered(n)) \div samplesPerPacket

PacketFrames(n, i) ==
  SubSeq(Gathered(n), (i - 1) * samplesPerPacket + 1, i * samplesPerPacket)

\* Faulty variant: the loop ends with the last full packet.
RemainderForgotten(n) == IF FullPackets(n) = 0 THEN Gathered(n) ELSE <<>>

Remainder(n) ==
  SubSeq(Gathered(n), FullPackets(n) * samplesPerPacket + 1, Len(Gathered(n)))

\* The datagram of the i-th emitPacket() from here.  number and session are
\* history, they are not sent.
Datagram(frames, i) ==
  [name |-> streamName, rate |-> format.rate, channels |-> format.channels,
   samples |-> Len(frames), counter |-> (frameCounter + i - 1) % CounterMod,
   frames |-> frames, number |-> emissions + i, session |-> opened]

\* Faulty variants: the counter does not wrap; a failed packet leaves it.
CounterUnwrapped(k, sent) == frameCounter + k

CounterAfterSent(k, sent) == (frameCounter + (IF sent = 1 .. k THEN k ELSE 0)) % CounterMod

\* frameCounter_ after k packets, of which those in sent went out.
CounterAfter(k, sent) == (frameCounter + k) % CounterMod

\* Faulty variant: a failure is forgotten when the last packet goes out.
ErrorOfLast(k, sent) == IF k \in sent THEN "None" ELSE "SendFailed"

\* error_ after k packets: a failed one leaves SendFailed, a good one nothing.
ErrorAfter(k, sent) == IF sent = 1 .. k THEN error ELSE "SendFailed"

-----------------------------------------------------------------------------
Init ==
  /\ ready = FALSE /\ error = "NotReady" /\ format = NoFormat
  /\ samplesPerPacket = 0 /\ pending = <<>> /\ frameCounter = 0
  /\ streamName = NoName
  /\ wire = {} /\ written = 0 /\ lost = {} /\ dropped = {}
  /\ opened = 0 /\ emissions = 0 /\ answered = 0
  /\ lastFlush = [returned |-> TRUE, sent |-> TRUE]

\* pendingFrames_ = 0 where the frames have not been sent.
\* Faulty variant: the frames stay in the scratch buffer.
KeepPending == UNCHANGED <<pending, dropped>>

DropPending == pending' = <<>> /\ dropped' = dropped \cup Ids(pending)

\* begin(): a port of 0 leaves the sender not ready.
Begin(port, name) ==
  /\ streamName' = name
  /\ frameCounter' = 0
  /\ DropPending
  /\ ready' = (port # 0)
  /\ error' = IF port # 0 THEN "None" ELSE "NotReady"
  /\ opened' = written
  /\ answered' = emissions
  /\ UNCHANGED <<format, samplesPerPacket, wire, written, lost, emissions, lastFlush>>

End ==
  /\ DropPending
  /\ ready' = FALSE
  /\ error' = "NotReady"
  /\ answered' = emissions
  /\ UNCHANGED <<format, samplesPerPacket, frameCounter, streamName,
                 wire, written, lost, opened, emissions, lastFlush>>

\* setFormat(): a format PCM16 / VBAN cannot carry changes only the error.
SetFormatRejected(f) ==
  /\ ~ IsSendable(f)
  /\ error' = "UnsupportedFormat"
  /\ answered' = emissions
  /\ UNCHANGED <<ready, format, samplesPerPacket, pending, frameCounter, streamName,
                 wire, written, lost, dropped, opened, emissions, lastFlush>>

SetFormat(f) ==
  /\ IsSendable(f)
  /\ format' = f
  /\ samplesPerPacket' = ComputeSamplesPerPacket(f.channels)
  /\ DropPending
  /\ UNCHANGED <<ready, error, frameCounter, streamName,
                 wire, written, lost, opened, emissions, answered, lastFlush>>

SetStreamName(name) ==
  /\ streamName' = name
  /\ UNCHANGED <<ready, error, format, samplesPerPacket, pending, frameCounter, history>>

\* The early returns of writeFrames().
WriteRefused ==
  /\ ~ ready \/ samplesPerPacket = 0
  /\ error' = IF ~ ready THEN "NotReady" ELSE "UnsupportedFormat"
  /\ answered' = emissions
  /\ UNCHANGED <<ready, format, samplesPerPacket, pending, frameCounter, streamName,
                 wire, written, lost, dropped, opened, emissions, lastFlush>>

\* The packets of one writeFrames(n), of which those in sent go out.
Emit(n, sent) ==
  LET k == FullPackets(n)
  IN  /\ wire' = wire \cup {Datagram(PacketFrames(n, i), i) : i \in sent}
      /\ lost' = lost \cup UNION {Ids(PacketFrames(n, i)) : i \in (1 .. k) \ sent}
      /\ frameCounter' = CounterAfter(k, sent)
      /\ error' = ErrorAfter(k, sent)
      /\ emissions' = emissions + k

\* writeFrames(n): fill and emit packet after packet, keep what is left over.
WriteFrames(n) ==
  /\ ready /\ samplesPerPacket > 0
  /\ written + n <= MaxWritten
  /\ \E sent \in SUBSET (1 .. FullPackets(n)) : Emit(n, sent)
  /\ pending' = Remainder(n)
  /\ written' = written + n
  /\ UNCHANGED <<ready, format, samplesPerPacket, streamName,
                 dropped, opened, answered, lastFlush>>

FlushRefused ==
  /\ ~ ready
  /\ error' = "NotReady"
  /\ lastFlush' = [returned |-> FALSE, sent |-> TRUE]
  /\ answered' = emissions
  /\ UNCHANGED <<ready, format, samplesPerPacket, pending, frameCounter, streamName,
                 wire, written, lost, dropped, opened, emissions>>

\* What makes flush() send: frames pending.  Faulty variant: a full packet.
FullPacketPending == Len(pending) >= samplesPerPacket

FramesPending == Len(pending) > 0

FlushNothing ==
  /\ ready /\ ~ FramesPending
  /\ lastFlush' = [returned |-> TRUE, sent |-> TRUE]
  /\ UNCHANGED <<state, wire, written, lost, dropped, opened, emissions, answered>>

\* flush(): one short packet.  The answer compares error_ before and after.
Flush(ok) ==
  /\ ready /\ FramesPending
  /\ LET sent == IF ok THEN {1} ELSE {}
     IN  /\ wire' = wire \cup {Datagram(pending, i) : i \in sent}
         /\ lost' = IF ok THEN lost ELSE lost \cup Ids(pending)
         /\ frameCounter' = CounterAfter(1, sent)
         /\ error' = ErrorAfter(1, sent)
  /\ emissions' = emissions + 1
  /\ lastFlush' = [returned |-> error' = error, sent |-> ok]
  /\ pending' = <<>>
  /\ UNCHANGED <<ready, format, samplesPerPacket, streamName,
                 written, dropped, opened, answered>>

Next ==
  \/ \E port \in {0, 1}, name \in Names : Begin(port, name)
  \/ End
  \/ \E f \in Formats : SetFormatRejected(f)
  \/ \E f \in Formats : SetFormat(f)
  \/ \E name \in Names : SetStreamName(name)
  \/ WriteRefused
  \/ \E n \in WriteSizes : WriteFrames(n)
  \/ FlushRefused
  \/ FlushNothing
  \/ \E ok \in BOOLEAN : Flush(ok)

Spec == Init /\ [][Next]_vars

-----------------------------------------------------------------------------
Errors == {"None", "NotReady", "UnsupportedFormat", "SendFailed"}

Frame == [id : Nat, format : Formats]

Datagrams ==
  [name : Names \cup {NoName}, rate : Nat, channels : 0 .. 255, samples : Nat,
   counter : 0 .. CounterMod - 1, frames : Seq(Frame), number : Nat, session : Nat]

TypeOK ==
  /\ ready \in BOOLEAN
  /\ error \in Errors
  /\ format \in {f \in Formats : IsSendable(f)} \cup {NoFormat}
  /\ samplesPerPacket \in 0 .. MaxSamples
  /\ pending \in Seq(Frame)
  /\ frameCounter \in 0 .. CounterMod - 1
  /\ streamName \in Names \cup {NoName}
  /\ wire \subseteq Datagrams
  /\ written \in Nat /\ opened \in Nat /\ emissions \in Nat /\ answered \in Nat
  /\ lost \subseteq Nat /\ dropped \subseteq Nat
  /\ lastFlush \in [returned : BOOLEAN, sent : BOOLEAN]

\* The scratch buffer never overflows and the loop of writeFrames always has
\* room to advance: between calls less than one packet is pending, every
\* pending frame has the layout of the current format, and a sender that is
\* not ready holds none.  A call that changes the format, or begin(), with
\* frames still pending is what could break it.
ScratchHoldsPartOfAPacket ==
  /\ pending # <<>> => ready /\ Len(pending) < samplesPerPacket
  /\ samplesPerPacket * BytesPerFrame(format) <= MaxPayload
  /\ \A i \in 1 .. Len(pending) : pending[i].format = format

\* Every datagram can be decoded by its own header: the sample count fits the
\* field (1 .. 256) and the payload area, and every frame in it was written
\* under the rate and channel count the header names.
HeaderDescribesPayload ==
  \A d \in wire :
    /\ d.samples = Len(d.frames) /\ d.samples \in 1 .. MaxSamples
    /\ 2 * d.channels * d.samples <= MaxPayload
    /\ \A i \in 1 .. Len(d.frames) :
         /\ d.frames[i].format.rate = d.rate
         /\ d.frames[i].format.channels = d.channels

OnWire == UNION {Ids(d.frames) : d \in wire}

\* Every frame writeFrames accepted is in exactly one place: on the wire in one
\* datagram, in a packet the stack refused, discarded by begin(), end() or
\* setFormat(), or pending; and these are all.
EveryFrameOnce ==
  /\ 1 .. written = OnWire \cup lost \cup dropped \cup Ids(pending)
  /\ OnWire \cap (lost \cup dropped \cup Ids(pending)) = {}
  /\ lost \cap (dropped \cup Ids(pending)) = {}
  /\ dropped \cap Ids(pending) = {}
  /\ \A d, e \in wire : d # e => Ids(d.frames) \cap Ids(e.frames) = {}

\* Audio is never reordered inside the sender: a later datagram carries later
\* frames, in the order written.
SentInOrder ==
  \A d, e \in wire :
    /\ d.number < e.number => \A i \in Ids(d.frames), j \in Ids(e.frames) : i < j
    /\ \A i \in 1 .. Len(d.frames) - 1 : d.frames[i + 1].id = d.frames[i].id + 1

LastId(d) == d.frames[Len(d.frames)].id
FirstId(d) == d.frames[1].id

\* A loss in the sender is observable at the receiver (SPEC: "sequence gaps
\* should be observable"): of two datagrams that follow each other on the
\* wire in one session, the second has the next frameCounter exactly when no
\* packet failed between them, up to the wrap of the counter.
GapVisible ==
  \A d, e \in wire :
    /\ d.session = e.session
    /\ d.number < e.number /\ e.number - d.number < CounterMod
    /\ ~ \E g \in wire : d.number < g.number /\ g.number < e.number
    => ((\E i \in lost : LastId(d) < i /\ i < FirstId(e))
          <=> e.counter # (d.counter + 1) % CounterMod)

\* Packets built and refused by the stack since another call set error_.
FailedSince == \E m \in answered + 1 .. emissions : \A d \in wire : d.number # m

\* lastError() is SendFailed exactly when a packet failed since the last begin(),
\* end() or refused call: no later good packet, no accepted setFormat() and no
\* flush() takes the report back, and there is no false one.  A refused call,
\* such as setFormat() of a format VBAN cannot carry, replaces it by its own
\* error, so a caller has to look before that.
LossStaysReported == error = "SendFailed" <=> FailedSince

\* VbanSender.h: flush "Returns false on UDP send failure or NotReady".
FlushReportsFailure == lastFlush.returned => lastFlush.sent
=============================================================================
