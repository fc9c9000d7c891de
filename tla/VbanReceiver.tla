---------------------------- MODULE VbanReceiver ----------------------------
(***************************************************************************)
(* VbanReceiver: poll() takes one datagram from the UDP socket, and audio  *)
(* that passes its checks goes into the byte ring readFrames() pops from.  *)
(*                                                                         *)
(* A datagram is a record: runt (shorter than a header), signature, sub    *)
(* (the sub-protocol), the header fields, and payload, a sequence of       *)
(* bytes.  Each call is atomic: the class is polled from one thread.       *)
(* A poll() that finds no datagram or a receiver that is not ready, and a  *)
(* readFrames() that returns 0, change nothing and are not actions.        *)
(***************************************************************************)
EXTENDS PcmRing

CONSTANTS Arrivals,    \* what may arrive: datagrams whose payload is a length
          AnyName,     \* begin(port, nullptr): no filter
          Names,       \* stream names
          Silence,     \* what the queue array holds before any audio
          QueueBytes,  \* kQueueBytes, 2048
          MaxPayload,  \* the bytes of a datagram behind the header that fit buf
          MaxTake,     \* bound: frames one readFrames() asks for
          MaxArrivals  \* bound: datagrams taken in a behaviour

VARIABLES
  filter,           \* filterEnabled_, filterName_
  ready,            \* ready_
  error,            \* error_
  format,           \* format_: rate and channels, 0 until locked
  currentStream,    \* currentStream_
  lastFrameCounter, \* lastFrameCounter_
  ring,             \* queue_, queueHead_, queueTail_, queueCount_
  taken,            \* history: datagrams taken from the socket
  opened,           \* history: taken at the last successful begin()
  out               \* history: the frames the last readFrames() returned

vars == <<filter, ready, error, format, currentStream, lastFrameCounter, ring,
          taken, opened, out>>

Unlocked == [rate |-> 0, channels |-> 0]
NoStream == "empty"

\* kQueueBytes is a whole number of mono and of stereo frames.
ASSUME QueueAssumption == QueueBytes \in Nat \ {0} /\ QueueBytes % 4 = 0
ASSUME BoundAssumption == MaxPayload \in Nat /\ MaxTake \in Nat /\ MaxArrivals \in Nat
\* What parseServiceHeader and parseAudioHeader can make of a datagram.
ASSUME ArrivalAssumption ==
  Arrivals \subseteq [runt : BOOLEAN, signature : BOOLEAN, sub : STRING, name : Names,
                     rate : Nat, channels : Nat, codec : STRING, samples : Nat,
                     counter : Nat, payload : Nat]
ASSUME NameAssumption == AnyName \notin Names /\ NoStream \notin Names

-----------------------------------------------------------------------------
BytesPerFrame(f) == 2 * f.channels

Layout(d) == [rate |-> d.rate, channels |-> d.channels]

Least(m, n) == IF m < n THEN m ELSE n

\* parseServiceHeader and parseAudioHeader; a rate index above 20 has rate 0.
IsService(d) == ~ d.runt /\ d.signature /\ d.sub = "service"
IsAudio(d) == ~ d.runt /\ d.signature /\ d.sub = "audio" /\ d.rate # 0

\* The stream-name filter, the codec and channel checks.
\* Faulty variant: names are compared only until the format is locked.
PassesOnceLocked(d) == filter = AnyName \/ format # Unlocked \/ d.name = filter

Passes(d) == filter = AnyName \/ d.name = filter

Decodable(d) == d.codec = "PCM16" /\ d.channels \in 1 .. 2

\* The format lock.  Faulty variant: the channel count is not compared.
MatchesRate(d) == format = Unlocked \/ format.rate = d.rate

MatchesLock(d) == format = Unlocked \/ format = Layout(d)

\* The payload bytes that go into the ring: no more than buf holds and than the
\* header's sample count says, cut to whole frames.
\* Faulty variant: the partial frame at the end stays.
UsableUncut(d) == Least(Least(Len(d.payload), MaxPayload), d.samples * BytesPerFrame(Layout(d)))

UsableBytes(d) ==
  LET bpf    == BytesPerFrame(Layout(d))
      usable == Least(Least(Len(d.payload), MaxPayload), d.samples * bpf)
  IN  usable - (usable % bpf)

-----------------------------------------------------------------------------
Init ==
  /\ filter = AnyName /\ ready = FALSE /\ error = "NotReady"
  /\ format = Unlocked /\ currentStream = NoStream /\ lastFrameCounter = 0
  /\ ring = EmptyRing(QueueBytes, Silence)
  /\ taken = 0 /\ opened = 0 /\ out = <<>>

\* What begin() does to the queue.  Faulty variant: it leaves it to end().
RingKept == ring

RingAtBegin == Emptied(ring)

\* begin(): the filter changes even if the socket cannot be bound; the rest
\* only when it can.
Begin(name) ==
  /\ filter' = name
  /\ ready' = TRUE /\ error' = "None"
  /\ ring' = RingAtBegin
  /\ lastFrameCounter' = 0 /\ format' = Unlocked /\ currentStream' = NoStream
  /\ opened' = taken
  /\ UNCHANGED <<taken, out>>

BeginFails(name) ==
  /\ filter' = name
  /\ ready' = FALSE /\ error' = "BindFailed"
  /\ UNCHANGED <<format, currentStream, lastFrameCounter, ring,
                 taken, opened, out>>

End ==
  /\ ring' = Emptied(ring)
  /\ ready' = FALSE /\ error' = "NotReady"
  /\ UNCHANGED <<filter, format, currentStream, lastFrameCounter,
                 taken, opened, out>>

\* poll() takes d from the socket.
Take(d) == ready /\ taken < MaxArrivals /\ taken' = taken + 1

\* A service packet: poll() returns right after the callback, if one is set, so
\* what the callback calls are the calls that follow.
PollService(d) ==
  /\ Take(d)
  /\ IsService(d)
  /\ UNCHANGED <<filter, ready, error, format, currentStream, lastFrameCounter, ring,
                 opened, out>>

\* Not VBAN, another sub-protocol, another stream, or another layout: dropped.
PollIgnored(d) ==
  /\ Take(d)
  /\ ~ IsService(d)
  /\ IsAudio(d) /\ Passes(d) => Decodable(d) /\ ~ MatchesLock(d)
  /\ UNCHANGED <<filter, ready, error, format, currentStream, lastFrameCounter, ring,
                 opened, out>>

PollUnsupported(d) ==
  /\ Take(d)
  /\ IsAudio(d) /\ Passes(d) /\ ~ Decodable(d)
  /\ error' = "FormatUnsupported"
  /\ UNCHANGED <<filter, ready, format, currentStream, lastFrameCounter, ring,
                 opened, out>>

PollAudio(d) ==
  /\ Take(d)
  /\ IsAudio(d) /\ Passes(d) /\ Decodable(d) /\ MatchesLock(d)
  /\ format' = IF format = Unlocked THEN Layout(d) ELSE format
  /\ ring' = RingPush(QueueBytes, ring, SubSeq(d.payload, 1, UsableBytes(d)))
  /\ currentStream' = d.name
  /\ lastFrameCounter' = d.counter
  /\ UNCHANGED <<filter, ready, error, opened, out>>

Poll(d) == PollService(d) \/ PollIgnored(d) \/ PollUnsupported(d) \/ PollAudio(d)

\* readFrames(n): whole frames only, never more than are queued.
TakeBytes(n) ==
  Least(n, ring.count \div BytesPerFrame(format)) * BytesPerFrame(format)

ReadFrames(n) ==
  /\ ready /\ format # Unlocked
  /\ TakeBytes(n) > 0
  /\ out' = Frames(RingPopBytes(QueueBytes, ring, TakeBytes(n)), BytesPerFrame(format))
  /\ ring' = RingPop(QueueBytes, ring, TakeBytes(n))
  /\ UNCHANGED <<filter, ready, error, format, currentStream, lastFrameCounter,
                 taken, opened>>

\* The part of a header that says how its payload must be heard.
Stream(d) == [name |-> d.name, rate |-> d.rate, channels |-> d.channels, codec |-> d.codec]

\* What arrives: the payload bytes are told apart by datagram and position,
\* and say which header they came under.
Arriving(a) ==
  [a EXCEPT !.payload =
     [i \in 1 .. a.payload |-> [arrival |-> taken + 1, at |-> i, of |-> Stream(a)]]]

Next ==
  \/ \E name \in Names \cup {AnyName} : Begin(name)
  \/ \E name \in Names \cup {AnyName} : BeginFails(name)
  \/ End
  \/ \E a \in Arrivals : PollService(Arriving(a))
  \/ \E a \in Arrivals : PollIgnored(Arriving(a))
  \/ \E a \in Arrivals : PollUnsupported(Arriving(a))
  \/ \E a \in Arrivals : PollAudio(Arriving(a))
  \/ \E n \in 1 .. MaxTake : ReadFrames(n)

Spec == Init /\ [][Next]_vars

-----------------------------------------------------------------------------
Layouts == {Layout(a) : a \in {b \in Arrivals : IsAudio(b) /\ Decodable(b)}}

PayloadByte ==
  [arrival : 1 .. taken, at : 1 .. MaxPayload, of : {Stream(a) : a \in Arrivals}]

TypeOK ==
  /\ filter \in Names \cup {AnyName}
  /\ ready \in BOOLEAN
  /\ error \in {"None", "NotReady", "BindFailed", "FormatUnsupported"}
  /\ format \in Layouts \cup {Unlocked}
  /\ currentStream \in Names \cup {NoStream}
  /\ lastFrameCounter \in Nat
  /\ ring \in Rings(QueueBytes, PayloadByte \cup {Silence})
  /\ WellFormed(QueueBytes, ring)
  /\ taken \in 0 .. MaxArrivals /\ opened \in 0 .. taken

Queued == Content(QueueBytes, ring)

\* Everything a reader will get was sent in the layout the receiver reports
\* through format(), in a codec it decodes, and, if begin() was given a name, in
\* the stream of that name.  The lock is on the layout alone: without a name,
\* streams of one layout share the queue.
OnlyLockedAudio ==
  ready => \A i \in 1 .. ring.count :
             /\ Layout(Queued[i].of) = format
             /\ Queued[i].of.codec = "PCM16"
             /\ filter # AnyName => Queued[i].of.name = filter

\* No audio from before begin(): whatever begin(), end() and failed begin()
\* calls came between, a receiver that is ready holds only what arrived since
\* it was opened.
OnlyFreshAudio ==
  ready => \A i \in 1 .. ring.count : Queued[i].arrival > opened

\* A datagram the caller of begin(name) wants to hear.
Wanted(a, name) == IsAudio(a) /\ Decodable(a) /\ (name = AnyName \/ a.name = name)

\* The frames datagram a brings as the n-th to arrive: those that its header
\* counts and that are whole in what the receive buffer takes of it.
Carried(a, n) ==
  LET k == BytesPerFrame(Layout(a))
      whole == Least(a.payload, MaxPayload) \div k
  IN  [i \in 1 .. Least(whole, a.samples) |->
         [j \in 1 .. k |-> [arrival |-> n, at |-> (i - 1) * k + j, of |-> Stream(a)]]]

FrameCapacity(l) == QueueBytes \div BytesPerFrame(l)

\* The byte ring behind poll() and readFrames() is the frame queue a PCMSource
\* promises: every wanted datagram of the locked layout adds its whole frames, in
\* order of arrival, exactly the oldest frames go when there is no room, and no
\* reader gets a frame twice, out of order or in two halves.
Source == INSTANCE LockedFrameQueue WITH
  Datagrams <- Arrivals, Filters <- Names \cup {AnyName}, Nobody <- NoStream,
  Unlocked <- Unlocked, MaxTake <- MaxTake,
  Wanted <- Wanted, LayoutOf <- Layout, Carried <- Carried, Capacity <- FrameCapacity,
  open <- ready,
  asked <- IF ready THEN filter ELSE NoStream,
  layout <- IF ready THEN format ELSE Unlocked,
  arrived <- taken,
  frames <- IF ready /\ format # Unlocked THEN Frames(Queued, BytesPerFrame(format)) ELSE <<>>,
  out <- out

SourceSpec == Source!Spec
=============================================================================
