---------------------------- MODULE RtpReceiver ----------------------------
(***************************************************************************)
(* RtpReceiver: poll() takes one datagram from the UDP socket.  The        *)
(* payload of an L16 packet goes, in host byte order, into the byte ring   *)
(* readFrames() pops from; any other payload replaces the one-packet hold  *)
(* readEncoded() empties.                                                  *)
(*                                                                         *)
(* A datagram is a record: parse (what parseRtpHeader makes of it, or runt *)
(* when it is shorter than a header), pt, seq, ssrc, and payload, the      *)
(* sequence of bytes behind the header.  Calls are atomic.  A poll() that  *)
(* finds no datagram or a receiver that is not ready, and a read that      *)
(* returns 0 and keeps the hold, change nothing and are not actions.       *)
(***************************************************************************)
EXTENDS PcmRing

CONSTANTS Arrivals,    \* what may arrive: datagrams whose payload is a length
          Formats,     \* formats an application may declare
          Dynamics,    \* [pt, channels] it may declare as L16
          CallerSizes, \* sizes of PCM buffers it may provide
          Silence,     \* what a queue array holds before any audio
          QueueBytes,  \* kQueueBytes, 2048
          ReadSizes,   \* capacities of the readEncoded() buffers
          MaxTake,     \* bound: frames one readFrames() asks for
          MaxArrivals  \* bound: datagrams taken in a behaviour

L16Stereo == 10
L16Mono == 11
NoType == 255
DefaultRate == 8000
NoFormat == [rate |-> 0, channels |-> 0]
NoHeader == [pt |-> NoType, seq |-> 0, ssrc |-> 0]
NoDynamic == [pt |-> NoType, channels |-> 0]

ASSUME CapacityAssumption == QueueBytes \in Nat \ {0} /\ CallerSizes \subseteq Nat
\* What parseRtpHeader can make of a datagram, and what the setters accept.
ASSUME ArrivalAssumption ==
  Arrivals \subseteq [parse : {"Ok", "runt", "TooShort", "BadVersion"}, pt : 0 .. 127,
                     seq : Nat, ssrc : Nat, payload : Nat]
ASSUME SetterAssumption ==
  /\ Formats \subseteq [rate : Nat, channels : Nat, bits : Nat]
  /\ Dynamics \subseteq [pt : Nat, channels : Nat]
ASSUME BoundAssumption == ReadSizes \subseteq Nat /\ MaxTake \in Nat /\ MaxArrivals \in Nat

VARIABLES
  ready,        \* ready_
  error,        \* error_
  format,       \* format_: rate and channels, 0 until declared or heard
  dynamic,      \* dynamicL16Pt_, dynamicL16Channels_
  last,         \* lastPt_, lastSeq_, lastSsrc_
  capacity,     \* queueCapacity_
  ring,         \* queue_, queueHead_, queueTail_, queueCount_
  hold,         \* encoded_[0 .. encodedBytes_ - 1]
  encodedReady, \* encodedReady_
  taken,        \* history: datagrams taken from the socket
  opened,       \* history: taken at the last successful begin()
  relaid,       \* history: the channel count changed under queued audio
  codecReads    \* history: the datagrams readEncoded() has returned, in order

vars == <<ready, error, format, dynamic, last, capacity, ring, hold, encodedReady,
          taken, opened, relaid, codecReads>>

-----------------------------------------------------------------------------
BytesPerFrame(f) == 2 * f.channels

IsValid(f) == f.rate # 0 /\ f.channels # 0 /\ f.bits # 0

Layout(f) == [rate |-> f.rate, channels |-> f.channels]

\* isPcm(), of the packet at hand.
IsPcm(d) ==
  d.pt \in {L16Mono, L16Stereo} \/ (dynamic.channels # 0 /\ d.pt = dynamic.pt)

\* The wire names no channel count: the application's, or that of the static type.
ChannelsOf(d) ==
  IF d.pt = dynamic.pt THEN dynamic.channels ELSE IF d.pt = L16Stereo THEN 2 ELSE 1

\* The format every L16 packet leaves behind.
FormatAfter(d) ==
  [rate |-> IF format.rate = 0 THEN DefaultRate ELSE format.rate,
   channels |-> ChannelsOf(d)]

\* Faulty variant: a mono frame is assumed.
WholeSamples(d) == SubSeq(d.payload, 1, Len(d.payload) - (Len(d.payload) % 2))

\* The payload cut to whole frames.
WholeFrames(d) ==
  SubSeq(d.payload, 1, Len(d.payload) - (Len(d.payload) % BytesPerFrame(FormatAfter(d))))

\* Big-endian samples to host order; a last odd byte would not be copied.
\* Faulty variant: the samples are copied as they came.
NoSwap(s) == s

HostOrder(s) ==
  [i \in 1 .. 2 * (Len(s) \div 2) |-> IF i % 2 = 1 THEN s[i + 1] ELSE s[i - 1]]

\* The channel count becomes n: does queued audio change its meaning?
Relaid(n) == relaid \/ (ring.count # 0 /\ n # format.channels)

-----------------------------------------------------------------------------
Init ==
  /\ ready = FALSE /\ error = "NotReady" /\ format = NoFormat
  /\ dynamic = NoDynamic /\ last = NoHeader
  /\ capacity = QueueBytes /\ ring = EmptyRing(QueueBytes, Silence)
  /\ hold = <<>> /\ encodedReady = FALSE
  /\ taken = 0 /\ opened = 0 /\ relaid = FALSE /\ codecReads = <<>>

\* Nothing queued.
DropQueue == ring' = Emptied(ring) /\ relaid' = FALSE

\* Nothing held.  Faulty variant: the hold stays.
KeepHold == UNCHANGED <<hold, encodedReady>>

DropHold == hold' = <<>> /\ encodedReady' = FALSE

\* begin(): of the last header only the payload type is forgotten, the format
\* stays.
Begin ==
  /\ DropQueue /\ DropHold
  /\ last' = [last EXCEPT !.pt = NoType]
  /\ ready' = TRUE /\ error' = "None"
  /\ opened' = taken
  /\ UNCHANGED <<format, dynamic, capacity, taken, codecReads>>

BeginFails ==
  /\ ready' = FALSE /\ error' = "BindFailed"
  /\ UNCHANGED <<format, dynamic, last, capacity, ring, hold, encodedReady,
                 taken, opened, relaid, codecReads>>

End ==
  /\ DropQueue /\ DropHold
  /\ ready' = FALSE /\ error' = "NotReady"
  /\ UNCHANGED <<format, dynamic, last, capacity, taken, opened, codecReads>>

SetPcmBufferRefused ==
  /\ ready
  /\ error' = "NotReady"
  /\ UNCHANGED <<ready, format, dynamic, last, capacity, ring, hold, encodedReady,
                 taken, opened, relaid, codecReads>>

\* setPcmBuffer(): size 0 stands for a null buffer, too.
SetPcmBuffer(size) ==
  /\ ~ ready
  /\ capacity' = IF size = 0 THEN QueueBytes ELSE size
  /\ ring' = EmptyRing(capacity', Silence) /\ relaid' = FALSE
  /\ UNCHANGED <<ready, error, format, dynamic, last, hold, encodedReady,
                 taken, opened, codecReads>>

SetFormatRejected(f) ==
  /\ ~ IsValid(f) \/ f.bits # 16
  /\ error' = "BadHeader"
  /\ UNCHANGED <<ready, format, dynamic, last, capacity, ring, hold, encodedReady,
                 taken, opened, relaid, codecReads>>

SetFormat(f) ==
  /\ IsValid(f) /\ f.bits = 16
  /\ format' = Layout(f)
  /\ relaid' = Relaid(f.channels)
  /\ UNCHANGED <<ready, error, dynamic, last, capacity, ring, hold, encodedReady,
                 taken, opened, codecReads>>

SetDynamicRejected(p) ==
  /\ p.pt > 127 \/ p.channels = 0
  /\ error' = "BadHeader"
  /\ UNCHANGED <<ready, format, dynamic, last, capacity, ring, hold, encodedReady,
                 taken, opened, relaid, codecReads>>

SetDynamic(p) ==
  /\ p.pt <= 127 /\ p.channels # 0
  /\ dynamic' = p
  /\ UNCHANGED <<ready, error, format, last, capacity, ring, hold, encodedReady,
                 taken, opened, relaid, codecReads>>

\* poll() takes d from the socket.
Take(d) == ready /\ taken < MaxArrivals /\ taken' = taken + 1

PollRunt(d) ==
  /\ Take(d)
  /\ d.parse = "runt"
  /\ UNCHANGED <<ready, error, format, dynamic, last, capacity, ring, hold, encodedReady,
                 opened, relaid, codecReads>>

PollBad(d) ==
  /\ Take(d)
  /\ d.parse \in {"TooShort", "BadVersion"}
  /\ error' = "BadHeader"
  /\ UNCHANGED <<ready, format, dynamic, last, capacity, ring, hold, encodedReady,
                 opened, relaid, codecReads>>

Header(d) == [pt |-> d.pt, seq |-> d.seq, ssrc |-> d.ssrc]

\* An L16 packet.
PollPcm(d) ==
  /\ Take(d)
  /\ d.parse = "Ok" /\ IsPcm(d)
  /\ last' = Header(d)
  /\ format' = FormatAfter(d)
  /\ ring' = RingPush(capacity, ring, HostOrder(WholeFrames(d)))
  /\ relaid' = Relaid(ChannelsOf(d))
  /\ UNCHANGED <<ready, error, dynamic, capacity, hold, encodedReady,
                 opened, codecReads>>

\* Any other packet: it takes the place of one that was not read.
PollEncoded(d) ==
  /\ Take(d)
  /\ d.parse = "Ok" /\ ~ IsPcm(d)
  /\ last' = Header(d)
  /\ hold' = d.payload /\ encodedReady' = TRUE
  /\ UNCHANGED <<ready, error, format, dynamic, capacity, ring,
                 opened, relaid, codecReads>>

Poll(d) == PollRunt(d) \/ PollBad(d) \/ PollPcm(d) \/ PollEncoded(d)

Least(m, n) == IF m < n THEN m ELSE n

AvailableFrames == IF format.channels = 0 THEN 0 ELSE ring.count \div BytesPerFrame(format)

\* The bytes of up to n whole frames, and the frames they are.
TakeBytes(n) == Least(n, AvailableFrames) * BytesPerFrame(format)

FramesRead(n) == Frames(RingPopBytes(capacity, ring, TakeBytes(n)), BytesPerFrame(format))

ReadFrames(n) ==
  /\ ready /\ Least(n, AvailableFrames) > 0
  /\ ring' = RingPop(capacity, ring, TakeBytes(n))
  /\ relaid' = (relaid /\ ring'.count # 0)
  /\ UNCHANGED <<ready, error, format, dynamic, last, capacity, hold, encodedReady,
                 taken, opened, codecReads>>

\* What a successful readEncoded() leaves.
AfterRead == hold' = <<>> /\ encodedReady' = FALSE

\* readEncoded(): all of the hold or nothing, whether or not the receiver is
\* ready.
ReadEncoded(size) ==
  /\ encodedReady /\ size >= Len(hold)
  /\ AfterRead
  /\ codecReads' = IF hold = <<>> THEN codecReads ELSE Append(codecReads, hold[1].arrival)
  /\ UNCHANGED <<ready, error, format, dynamic, last, capacity, ring,
                 taken, opened, relaid>>

\* What arrives: its bytes are told apart by datagram and position.
Arriving(a) ==
  [a EXCEPT !.payload = [i \in 1 .. a.payload |-> [arrival |-> taken + 1, at |-> i]]]

Next ==
  \/ Begin
  \/ BeginFails
  \/ End
  \/ SetPcmBufferRefused
  \/ \E size \in CallerSizes : SetPcmBuffer(size)
  \/ \E f \in Formats : SetFormatRejected(f)
  \/ \E f \in Formats : SetFormat(f)
  \/ \E p \in Dynamics : SetDynamicRejected(p)
  \/ \E p \in Dynamics : SetDynamic(p)
  \/ \E a \in Arrivals : PollRunt(Arriving(a))
  \/ \E a \in Arrivals : PollBad(Arriving(a))
  \/ \E a \in Arrivals : PollPcm(Arriving(a))
  \/ \E a \in Arrivals : PollEncoded(Arriving(a))
  \/ \E n \in 1 .. MaxTake : ReadFrames(n)
  \/ \E size \in ReadSizes : ReadEncoded(size)

Spec == Init /\ [][Next]_vars

-----------------------------------------------------------------------------
PayloadByte == [arrival : 1 .. taken, at : Nat]

Channels ==
  {1, 2} \cup {p.channels : p \in {q \in Dynamics : q.pt <= 127}}
         \cup {f.channels : f \in {g \in Formats : g.bits = 16}}

TypeOK ==
  /\ ready \in BOOLEAN
  /\ error \in {"None", "NotReady", "BindFailed", "BadHeader"}
  /\ format = NoFormat \/ (format.rate \in Nat \ {0} /\ format.channels \in Channels)
  /\ dynamic = NoDynamic \/ (dynamic \in Dynamics /\ dynamic.pt <= 127 /\ dynamic.channels # 0)
  /\ last.pt \in (0 .. 127) \cup {NoType}
  /\ capacity \in {QueueBytes} \cup (CallerSizes \ {0})
  /\ ring \in Rings(capacity, PayloadByte \cup {Silence})
  /\ WellFormed(capacity, ring)
  /\ hold \in Seq(PayloadByte) /\ (~ encodedReady => hold = <<>>)
  /\ taken \in 0 .. MaxArrivals /\ opened \in 0 .. taken
  /\ relaid \in BOOLEAN /\ encodedReady \in BOOLEAN

Queued == Content(capacity, ring)

\* y is the byte after x in the audio as it was sent, in host order: the high
\* byte of the same sample, or the low byte of the next sample, of the same
\* packet or the first of a later one.
NextByte(x, y) ==
  \/ x.at % 2 = 0 /\ y.arrival = x.arrival /\ y.at = x.at - 1
  \/ x.at % 2 = 1 /\ y.arrival = x.arrival /\ y.at = x.at + 3
  \/ x.at % 2 = 1 /\ y.arrival > x.arrival /\ y.at = 2

\* No sample is ever torn, swapped or out of order in the queue, whatever
\* mixture of channel counts and payload lengths arrived, however often the
\* ring overflowed, and whoever read or declared what in between.  A caller's
\* buffer of an odd size is the exception: the drop of an overflow is then odd.
SamplesInOrder ==
  capacity % 2 = 0 =>
    /\ ring.count > 0 => Queued[1].at % 2 = 0
    /\ \A i \in 1 .. ring.count - 1 : NextByte(Queued[i], Queued[i + 1])

\* What readFrames() will return are whole frames of one packet: as long as the
\* channel count has not changed under queued audio (a packet of another type,
\* setFormat(), setDynamicL16PayloadType()) and the buffer is a whole number of
\* frames.
FramesWhole ==
  format.channels # 0 /\ ~ relaid =>
    LET k == BytesPerFrame(format)
    IN  capacity % k = 0 =>
          /\ ring.count % k = 0
          /\ \A i \in 1 .. ring.count \div k :
               LET f == Frames(Queued, k)[i]
               IN  /\ (f[1].at - 2) % k = 0
                   /\ \A j \in 1 .. k : f[j].arrival = f[1].arrival

\* Nothing of an earlier session comes out of an open receiver, from the queue
\* or from the hold, whatever begin(), end(), failed begin() and setPcmBuffer()
\* calls came between.
OnlyFreshAudio ==
  ready =>
    /\ \A i \in 1 .. ring.count : Queued[i].arrival > opened
    /\ encodedReady /\ hold # <<>> => hold[1].arrival > opened

\* readEncoded() returns a packet at most once and never goes back to an older
\* one, also across sessions and when it is called on a receiver that is closed.
CodecReadOnce ==
  /\ \A i \in 1 .. Len(codecReads) - 1 : codecReads[i] < codecReads[i + 1]
  /\ encodedReady /\ hold # <<>> /\ codecReads # <<>> =>
       hold[1].arrival > codecReads[Len(codecReads)]

\* RtpReceiver.cpp: "Lock format from wire on first L16 packet": a packet that
\* arrives while audio is queued does not change its layout.
FormatStaysLocked ==
  [][taken' # taken /\ ring.count > 0 => format'.channels = format.channels]_vars
=============================================================================
