------------------------------- MODULE RtpLink -------------------------------
(***************************************************************************)
(* An RtpSender, a UDP network that loses, duplicates and reorders, and an *)
(* RtpReceiver.  The sender changes between L16 of one format and codec    *)
(* packets; as SPEC.md asks, writeEncoded() is called for codec types      *)
(* only.  Headers cross the network as the bytes of RtpWire.               *)
(***************************************************************************)
EXTENDS RtpSender

CONSTANTS Silence, QueueBytes, ReadSizes, MaxTake, MaxArrivals

\* One channel count: the receiver reads its whole queue with the last one heard.
\* The static payload types name mono and stereo only.
ASSUME ChannelsAssumption ==
  \A f, g \in Formats : f.channels = g.channels /\ f.channels \in 1 .. 2
\* RtpSender.h leaves payload types 10 and 11 to setFormat().
ASSUME TypesAssumption == CodecTypes \cap {L16Mono, L16Stereo} = {}
\* The header has two bytes for the sequence number.
ASSUME WidthAssumption == SeqMod <= 65536
ASSUME QueueAssumption == QueueBytes \in Nat \ {0} /\ QueueBytes % 4 = 0
ASSUME ReadAssumption == MaxTake \in Nat /\ MaxArrivals \in Nat /\ ReadSizes \subseteq Nat

VARIABLES
  rReady, rError, rFormat, dynamic, last, capacity, ring, hold, encodedReady,
  taken, opened, relaid, codecReads,
  arrived, \* numbers of the datagrams the network has delivered
  orderly, \* it has delivered each at most once and none late
  latest,  \* the datagrams of the last successful poll(), none or one
  heard    \* numbers of the frames read while the network was orderly

R == INSTANCE RtpReceiver WITH
       Arrivals <- {}, Formats <- {}, Dynamics <- {}, CallerSizes <- {},
       ready <- rReady, error <- rError, format <- rFormat

W == INSTANCE RtpWire

receiverVars == <<rReady, rError, rFormat, dynamic, last, capacity, ring, hold,
                  encodedReady, taken, opened, relaid, codecReads>>
netVars == <<arrived, orderly, latest>>
linkVars == <<vars, receiverVars, netVars, heard>>

-----------------------------------------------------------------------------
\* The bytes behind the header: of each frame the samples, high byte first; of a
\* codec packet one byte stands for all.
PayloadBytes(d) ==
  IF d.kind = "encoded" THEN <<[arrival |-> d.number, frame |-> 0, at |-> 1]>>
  ELSE LET k == 2 * d.slots[1].channels
       IN  [i \in 1 .. k * Len(d.slots) |->
              [arrival |-> d.number, frame |-> d.slots[(i - 1) \div k + 1].id,
               at |-> ((i - 1) % k) + 1]]

Bytes(d) ==
  W!EncodeRtp([marker |-> d.marker, payloadType |-> d.pt, sequenceNumber |-> d.seq,
               timestamp |-> d.ts, ssrc |-> d.ssrc]) \o PayloadBytes(d)

\* What the receiver's parser makes of it.
Arrival(d) ==
  LET bytes == Bytes(d)
      h == W!RtpFields(bytes)
  IN  [parse |-> W!RtpResult(bytes), pt |-> h.payloadType, seq |-> h.sequenceNumber,
       ssrc |-> h.ssrc, payload |-> W!RtpPayload(bytes)]

LinkInit ==
  /\ Init /\ R!Init
  /\ arrived = {} /\ orderly = TRUE /\ latest = {} /\ heard = <<>>

SenderStep(A) == A /\ UNCHANGED <<receiverVars, netVars, heard>>
ReceiverStep(A) == A /\ UNCHANGED <<vars, netVars, heard>>

OpenSender(source, seq, ts) == SenderStep(Begin(1, source, seq, ts))
ChangeFormat(f) == SenderStep(SetFormat(f))
ChangePayloadType(pt) == SenderStep(SetPayloadType(pt, 8000))
WriteSender(n) == SenderStep(WriteFrames(n))
FlushSender(ok) == SenderStep(Flush(ok))
SendEncoded(count, ok) == ~ isL16 /\ SenderStep(WriteEncoded(count, ok))

OpenReceiver == ReceiverStep(R!Begin)
CloseReceiver == ReceiverStep(R!End)
ReadEncoded(size) == ReceiverStep(R!ReadEncoded(size))

\* Any datagram of the wire may come next, also one that came before.
Poll == \E d \in wire :
  /\ R!Poll(Arrival(d))
  /\ arrived' = arrived \cup {d.number}
  /\ orderly' = (orderly /\ \A n \in arrived : n < d.number)
  /\ latest' = {d}
  /\ UNCHANGED <<vars, heard>>

\* The number of the frame whose samples, in host order, these bytes are; 0 if
\* they are no frame.
FrameOf(f) ==
  IF \A j \in 1 .. Len(f) :
       f[j] = [f[1] EXCEPT !.at = IF j % 2 = 1 THEN j + 1 ELSE j - 1]
  THEN f[1].frame ELSE 0

Read(n) ==
  /\ R!ReadFrames(n)
  /\ heard' = IF orderly
              THEN heard \o [i \in 1 .. Len(R!FramesRead(n)) |-> FrameOf(R!FramesRead(n)[i])]
              ELSE heard
  /\ UNCHANGED <<vars, netVars>>

LinkNext ==
  \/ \E source \in Ssrcs, seq, ts \in Starts : OpenSender(source, seq, ts)
  \/ \E f \in Formats : ChangeFormat(f)
  \/ \E pt \in CodecTypes : ChangePayloadType(pt)
  \/ \E n \in WriteSizes : WriteSender(n)
  \/ \E ok \in BOOLEAN : FlushSender(ok)
  \/ \E count \in EncodedSizes, ok \in BOOLEAN : SendEncoded(count, ok)
  \/ OpenReceiver
  \/ CloseReceiver
  \/ Poll
  \/ \E n \in 1 .. MaxTake : Read(n)
  \/ \E size \in ReadSizes : ReadEncoded(size)

LinkSpec == LinkInit /\ [][LinkNext]_linkVars

-----------------------------------------------------------------------------
\* Sender, network and receiver are together a lossy frame channel: while the
\* network keeps the order, L16 frames of one format are heard whole, in host
\* byte order, each at most once and in the order written, with codec packets
\* in between, packets that failed, a queue that overflows and both ends opened
\* again.
Channel == INSTANCE LossyFrameChannel

ChannelSpec == Channel!Spec

\* SPEC.md: "Sequence gaps ... should be observable".  An application that looks
\* at sequenceNumber() after each successful poll() can count what the network
\* lost, L16 and codec packets alike, over the wrap of the counter: the step from
\* one packet to the next is one more than the number of packets between them
\* that reached the wire, as long as the sender did not restart its numbering.
GapsShowLosses ==
  [][\A d \in latest, e \in latest' :
       d.number < e.number /\ d.restamps = e.restamps =>
         (last'.seq - last.seq) % SeqMod
           = (1 + Cardinality({g \in wire : d.number < g.number /\ g.number < e.number}))
               % SeqMod]_linkVars
=============================================================================
