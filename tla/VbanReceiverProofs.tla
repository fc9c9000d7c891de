------------------------- MODULE VbanReceiverProofs -------------------------
(***************************************************************************)
(* For every set of datagrams, names and bounds, and every ring size: what *)
(* is in VbanReceiver's ring, and that ring and format lock together are   *)
(* the frame queue a PCMSource promises.                                   *)
(***************************************************************************)
EXTENDS VbanReceiver, PcmProofs

\* The bytes a reader may be given while the receiver stands as it does.
Audible ==
  {b \in PayloadByte : /\ b.arrival > opened
                       /\ Layout(b.of) = format
                       /\ b.of.codec = "PCM16"
                       /\ filter # AnyName => b.of.name = filter}

\* A closed receiver may hold anything: its filter may have changed under old
\* audio (a begin() that could not bind).  It is emptied before it opens again.
ReceiverInv ==
  /\ TypeOK
  /\ ready => Queued \in Seq(Audible)
  /\ ready /\ format = Unlocked => ring.count = 0

-----------------------------------------------------------------------------
\* What arrives is what was offered, with the bytes told apart.
LEMMA ArrivingFacts ==
  ASSUME NEW a \in Arrivals
  PROVE  LET d == Arriving(a)
         IN  /\ d.payload = [i \in 1 .. a.payload |->
                               [arrival |-> taken + 1, at |-> i, of |-> Stream(a)]]
             /\ Stream(d) = Stream(a) /\ Layout(d) = Layout(a)
             /\ IsAudio(d) = IsAudio(a) /\ Decodable(d) = Decodable(a)
             /\ a.payload \in Nat
             /\ d.name \in Names /\ d.counter \in Nat /\ d.samples \in Nat
             /\ d.codec = Stream(a).codec /\ d.name = Stream(a).name /\ d.name = a.name
             /\ Layout(d) = Layout(Stream(a)) /\ d.samples = a.samples
<1>1. a \in [runt : BOOLEAN, signature : BOOLEAN, sub : STRING, name : Names,
             rate : Nat, channels : Nat, codec : STRING, samples : Nat,
             counter : Nat, payload : Nat]
  BY ArrivalAssumption
<1>2. Arriving(a) = [a EXCEPT !.payload =
        [i \in 1 .. a.payload |-> [arrival |-> taken + 1, at |-> i, of |-> Stream(a)]]]
  BY DEF Arriving
<1> QED  BY <1>1, <1>2 DEF Stream, Layout, IsAudio, Decodable

\* poll() takes no more than buf holds, and whole frames of it.
LEMMA UsableFacts ==
  ASSUME NEW d, Len(d.payload) \in Nat, Decodable(d), d.samples \in Nat
  PROVE  /\ BytesPerFrame(Layout(d)) \in {2, 4}
         /\ UsableBytes(d) \in Nat
         /\ UsableBytes(d) <= Len(d.payload) /\ UsableBytes(d) <= MaxPayload
         /\ UsableBytes(d) % BytesPerFrame(Layout(d)) = 0
<1> DEFINE k == BytesPerFrame(Layout(d))
           l == Len(d.payload)
           u == Least(Least(l, MaxPayload), d.samples * k)
<1>1. k = 2 \/ k = 4
  BY DEF Decodable, BytesPerFrame, Layout
<1>2. l \in Nat /\ MaxPayload \in Nat
  BY BoundAssumption
<1>3. d.samples * k \in Nat
  BY <1>1
<1>4. UsableBytes(d) = u - (u % k)
  BY DEF UsableBytes
<1> HIDE DEF k, l
<1>5. u \in Nat /\ u <= l /\ u <= MaxPayload
  BY <1>2, <1>3 DEF Least
<1> HIDE DEF u
<1>6. /\ u - (u % k) \in Nat /\ u - (u % k) <= u
      /\ (u - (u % k)) % k = 0
  BY <1>1, <1>5
<1> QED  BY <1>1, <1>2, <1>4, <1>5, <1>6 DEF k, l

-----------------------------------------------------------------------------
\* The bytes poll() pushes for d: those that are taken of its payload, each of
\* this datagram and with the header they came under.
LEMMA PushedFacts ==
  ASSUME TypeOK, NEW a \in Arrivals, PollAudio(Arriving(a)),
         NEW S, \A i \in 1 .. MaxPayload :
                  [arrival |-> taken + 1, at |-> i, of |-> Stream(a)] \in S
  PROVE  LET d   == Arriving(a)
             src == SubSeq(d.payload, 1, UsableBytes(d))
         IN  /\ src \in Seq(S)
             /\ Len(src) = UsableBytes(d)
             /\ UsableBytes(d) \in Nat
             /\ BytesPerFrame(Layout(d)) \in {2, 4}
             /\ UsableBytes(d) % BytesPerFrame(Layout(d)) = 0
             /\ \A i \in 1 .. UsableBytes(d) :
                  src[i] = [arrival |-> taken + 1, at |-> i, of |-> Stream(a)]
<1> DEFINE d == Arriving(a)
           n == UsableBytes(d)
           x == [i \in 1 .. a.payload |->
                   [arrival |-> taken + 1, at |-> i, of |-> Stream(a)]]
<1>1. d.payload = x /\ a.payload \in Nat /\ d.samples \in Nat
  BY ArrivingFacts
<1>2. Decodable(d)  BY DEF PollAudio
<1> HIDE DEF d
<1>3. Len(x) = a.payload  BY <1>1
<1>4. /\ BytesPerFrame(Layout(d)) \in {2, 4}
      /\ n \in Nat /\ n <= a.payload /\ n <= MaxPayload
      /\ n % BytesPerFrame(Layout(d)) = 0
  BY <1>1, <1>2, <1>3, UsableFacts
<1> HIDE DEF n
<1> DEFINE src == SubSeq(x, 1, n)
           byte(i) == [arrival |-> taken + 1, at |-> i, of |-> Stream(a)]
<1>5. src = [i \in 1 .. n |-> byte(i)]
  <2>1. x = [i \in 1 .. a.payload |-> byte(i)]  OBVIOUS
  <2> HIDE DEF byte, x
  <2>2. x \in Seq({byte(i) : i \in 1 .. a.payload})
    BY <1>1, <2>1
  <2>3. /\ src \in Seq({byte(i) : i \in 1 .. a.payload}) /\ Len(src) = n
        /\ \A i \in 1 .. n : src[i] = x[i]
    BY <1>3, <1>4, <2>2, PrefixOfSeq
  <2> HIDE DEF src
  <2>4. ASSUME NEW i \in 1 .. n PROVE src[i] = byte(i)
    <3>1. i \in 1 .. a.payload  BY <1>1, <1>4
    <3>2. x[i] = byte(i)  BY <2>1, <3>1
    <3> QED  BY <2>3, <3>2
  <2> QED  BY <2>3, <2>4
<1>6. \A i \in 1 .. n : byte(i) \in S
  BY <1>4, BoundAssumption
<1>7. src \in Seq(S) /\ Len(src) = n /\ \A i \in 1 .. n : src[i] = byte(i)
  <2> HIDE DEF byte, src
  <2> QED  BY <1>4, <1>5, <1>6
<1> QED  BY <1>1, <1>4, <1>7 DEF d, n

-----------------------------------------------------------------------------
\* More datagrams taken, more bytes there may be.
LEMMA BytesWiden ==
  ASSUME taken \in Nat, taken' = taken \/ taken' = taken + 1
  PROVE  /\ PayloadByte \subseteq PayloadByte'
         /\ PayloadByte \cup {Silence} \subseteq (PayloadByte \cup {Silence})'
<1>1. 1 .. taken \subseteq 1 .. taken'  OBVIOUS
<1> QED  BY <1>1 DEF PayloadByte

\* A layout the receiver can be locked to has frames of two or of four bytes.
LEMMA LayoutFacts ==
  ASSUME NEW l \in Layouts
  PROVE  BytesPerFrame(l) \in {2, 4} /\ l # Unlocked
BY DEF Layouts, Layout, Decodable, BytesPerFrame, Unlocked

LEMMA InvInit == Init => ReceiverInv
<1> SUFFICES ASSUME Init PROVE ReceiverInv
  OBVIOUS
<1> DEFINE B == PayloadByte \cup {Silence}
<1>1. Silence \in B  OBVIOUS
<1> HIDE DEF B
<1>2. QueueBytes \in Nat \ {0} /\ MaxArrivals \in Nat
  BY QueueAssumption, BoundAssumption
<1>3. ring \in Rings(QueueBytes, B) /\ WellFormed(QueueBytes, ring)
  BY <1>1, <1>2, EmptyRingFacts DEF Init
<1>4. TypeOK
  <2>1. ready \in BOOLEAN  BY DEF Init
  <2>2. taken \in 0 .. MaxArrivals /\ opened \in 0 .. taken /\ lastFrameCounter \in Nat
    BY <1>2 DEF Init
  <2> QED  BY <1>3, <2>1, <2>2, Zenon DEF Init, TypeOK, B
<1>5. ~ ready  BY DEF Init
<1> QED  BY <1>4, <1>5, Zenon DEF ReceiverInv

\* A call that leaves the ring and what it means alone: a datagram that is
\* ignored, refused, or not audio.
LEMMA QuietPoll ==
  ASSUME ReceiverInv, taken < MaxArrivals, taken' = taken + 1,
         error' \in {error, "FormatUnsupported"},
         UNCHANGED <<filter, ready, format, currentStream, lastFrameCounter, ring, opened>>
  PROVE  ReceiverInv'
<1>1. TypeOK /\ taken \in Nat /\ MaxArrivals \in Nat
  BY BoundAssumption DEF ReceiverInv, TypeOK
<1>2. ring' \in Rings(QueueBytes, PayloadByte \cup {Silence})'
  <2>1. ring \in Rings(QueueBytes, (PayloadByte \cup {Silence})')
    BY <1>1, BytesWiden, RingWidens DEF TypeOK
  <2> QED  BY <2>1
<1>3. TypeOK'
  BY <1>1, <1>2 DEF TypeOK
<1>4. Audible \subseteq Audible'
  BY <1>1, BytesWiden DEF Audible
<1>5. ready' => Queued' \in Seq(Audible')
  <2>1. Queued' = Queued  BY DEF Queued
  <2>2. ready => Queued \in Seq(Audible')  BY <1>4, SeqWidens DEF ReceiverInv
  <2> QED  BY <2>1, <2>2
<1> QED  BY <1>3, <1>5 DEF ReceiverInv

\* begin() and end(): nothing is queued, nothing is locked.
LEMMA BeginKeepsInv ==
  ASSUME ReceiverInv, NEW name \in Names \cup {AnyName}, Begin(name)
  PROVE  ReceiverInv'
<1>1. TypeOK /\ taken \in Nat /\ QueueBytes \in Nat \ {0}
  BY QueueAssumption, BoundAssumption DEF ReceiverInv, TypeOK
<1>2. /\ ring' \in Rings(QueueBytes, PayloadByte \cup {Silence})
      /\ WellFormed(QueueBytes, ring') /\ Content(QueueBytes, ring') = <<>>
      /\ ring'.count = 0
  BY <1>1, EmptiedFacts DEF TypeOK, Begin, RingAtBegin, Emptied
<1>3. (PayloadByte \cup {Silence})' = PayloadByte \cup {Silence}
  BY DEF Begin, PayloadByte
<1>4. TypeOK'
  <2>1. ready' \in BOOLEAN  BY DEF Begin
  <2>2. /\ taken' \in 0 .. MaxArrivals /\ opened' \in 0 .. taken'
        /\ lastFrameCounter' \in Nat
    BY <1>1 DEF TypeOK, Begin
  <2> QED  BY <1>2, <1>3, <2>1, <2>2, Zenon DEF TypeOK, Begin
<1>5. Queued' \in Seq(Audible')
  BY <1>2 DEF Queued
<1> QED  BY <1>2, <1>4, <1>5 DEF ReceiverInv

LEMMA CloseKeepsInv ==
  ASSUME ReceiverInv, End \/ \E name \in Names \cup {AnyName} : BeginFails(name)
  PROVE  ReceiverInv'
<1>1. TypeOK /\ taken \in Nat /\ QueueBytes \in Nat \ {0}
  BY QueueAssumption, BoundAssumption DEF ReceiverInv, TypeOK
<1>2. /\ ring' \in Rings(QueueBytes, PayloadByte \cup {Silence})
      /\ WellFormed(QueueBytes, ring')
  BY <1>1, EmptiedFacts DEF TypeOK, End, BeginFails
<1>3. (PayloadByte \cup {Silence})' = PayloadByte \cup {Silence}
  BY DEF End, BeginFails, PayloadByte
<1>4. TypeOK'
  BY <1>1, <1>2, <1>3 DEF TypeOK, End, BeginFails
<1>5. ~ ready'  BY DEF End, BeginFails
<1> QED  BY <1>4, <1>5, Zenon DEF ReceiverInv

\* poll() queues audio: it is of the layout the queue is locked to, and an
\* unlocked receiver has nothing queued.
LEMMA PollAudioKeepsInv ==
  ASSUME ReceiverInv, NEW a \in Arrivals, PollAudio(Arriving(a))
  PROVE  ReceiverInv'
<1> DEFINE d   == Arriving(a)
           src == SubSeq(d.payload, 1, UsableBytes(d))
           B   == PayloadByte \cup {Silence}
<1>1. /\ TypeOK /\ taken \in Nat /\ QueueBytes \in Nat \ {0} /\ MaxArrivals \in Nat
      /\ opened \in 0 .. taken
  BY QueueAssumption, BoundAssumption DEF ReceiverInv, TypeOK
<1>2. /\ ready /\ ready' /\ taken < MaxArrivals /\ taken' = taken + 1
      /\ filter' = filter /\ error' = error /\ opened' = opened
      /\ IsAudio(a) /\ Decodable(a) /\ a.codec = "PCM16"
      /\ format' = Layout(Stream(a))
      /\ format = Unlocked \/ format = Layout(Stream(a))
      /\ filter # AnyName => Stream(a).name = filter
      /\ currentStream' \in Names /\ lastFrameCounter' \in Nat
  <2>1. /\ IsAudio(d) /\ Decodable(d) /\ MatchesLock(d) /\ Passes(d)
        /\ ready /\ taken < MaxArrivals /\ taken' = taken + 1
        /\ format' = IF format = Unlocked THEN Layout(d) ELSE format
        /\ currentStream' = d.name /\ lastFrameCounter' = d.counter
        /\ UNCHANGED <<filter, ready, error, opened>>
    BY DEF PollAudio, Take
  <2>2. IsAudio(a) /\ Decodable(a) /\ Layout(d) = Layout(Stream(a)) /\ d.name = Stream(a).name
        /\ d.name \in Names /\ d.counter \in Nat
    BY <2>1, ArrivingFacts
  <2> HIDE DEF d
  <2> QED  BY <2>1, <2>2 DEF Decodable, MatchesLock, Passes
<1>3. B \subseteq B'  BY <1>1, <1>2, BytesWiden
<1>4. Queued \in Seq(Audible')
  <2>1. CASE format = Unlocked
    <3>1. ring.count = 0  BY <1>2, <2>1 DEF ReceiverInv
    <3>2. Len(Queued) = 0 /\ Queued \in Seq(B)
      <4>1. QueueBytes \in Nat \ {0} /\ ring \in Rings(QueueBytes, B)  BY <1>1 DEF TypeOK
      <4> HIDE DEF B
      <4>2. Queued \in Seq(B) /\ Len(Queued) = ring.count
        BY <4>1, ContentType, ZenonT(60) DEF Queued
      <4> QED  BY <3>1, <4>2
    <3> QED  BY <3>2, EmptySeq
  <2>2. CASE format # Unlocked
    <3>1. format' = format  BY <1>2, <2>2
    <3>2. Audible \subseteq Audible'
      BY <1>1, <1>2, <3>1, BytesWiden DEF Audible
    <3> QED  BY <1>2, <3>2, SeqWidens DEF ReceiverInv
  <2> QED  BY <2>1, <2>2
<1>5. \A i \in 1 .. MaxPayload :
        [arrival |-> taken + 1, at |-> i, of |-> Stream(a)] \in Audible'
  <2>1. Stream(a).codec = "PCM16"  BY <1>2 DEF Stream
  <2>2. taken + 1 \in 1 .. taken' /\ taken + 1 > opened'
    BY <1>1, <1>2
  <2>3. ASSUME NEW i \in 1 .. MaxPayload
        PROVE  [arrival |-> taken + 1, at |-> i, of |-> Stream(a)] \in PayloadByte'
    BY <2>2 DEF PayloadByte
  <2> QED  BY <1>2, <2>1, <2>2, <2>3 DEF Audible
<1>6. src \in Seq(Audible')
  BY <1>1, <1>5, PushedFacts
<1>7. Audible' \subseteq B'  BY DEF Audible
<1>8. ring' = RingPush(QueueBytes, ring, src)  BY DEF PollAudio
<1> HIDE DEF src, B
<1>9. /\ ring' \in Rings(QueueBytes, B') /\ WellFormed(QueueBytes, ring')
      /\ Content(QueueBytes, ring') \in Seq(Audible')
  <2>1. ring \in Rings(QueueBytes, B') /\ WellFormed(QueueBytes, ring)
    BY <1>1, <1>3, RingWidens DEF TypeOK, B
  <2>2. Content(QueueBytes, ring) \in Seq(Audible')
    BY <1>4 DEF Queued
  <2> QED  BY <1>1, <1>6, <1>7, <1>8, <2>1, <2>2, PushKeepsKind
<1>10. format' \in Layouts
  BY <1>2 DEF Layouts, Layout, Stream
<1>11. TypeOK'
  BY <1>1, <1>2, <1>9, <1>10 DEF TypeOK, B
<1>12. format' # Unlocked  BY <1>10, LayoutFacts
<1>13. Queued' \in Seq(Audible')  BY <1>9 DEF Queued
<1> QED  BY <1>11, <1>12, <1>13 DEF ReceiverInv

\* readFrames() asks the ring for a number of bytes it has.
LEMMA TakeBytesFacts ==
  ASSUME TypeOK, format # Unlocked, NEW n \in Nat
  PROVE  /\ BytesPerFrame(format) \in {2, 4} /\ format \in Layouts
         /\ TakeBytes(n) \in 0 .. ring.count
         /\ TakeBytes(n) % BytesPerFrame(format) = 0
         /\ TakeBytes(n) \div BytesPerFrame(format)
              = Least(n, ring.count \div BytesPerFrame(format))
<1> DEFINE k == BytesPerFrame(format)
           m == Least(n, ring.count \div k)
<1>1. format \in Layouts  BY DEF TypeOK
<1>2. k = 2 \/ k = 4  BY <1>1, LayoutFacts
<1>3. ring.count \in Nat
  <2>1. ring.count \in 0 .. QueueBytes  BY DEF TypeOK, Rings
  <2> QED  BY <2>1, QueueAssumption
<1>4. TakeBytes(n) = m * k  BY DEF TakeBytes
<1> HIDE DEF k
<1>5. m \in Nat /\ m <= ring.count \div k
  BY <1>2, <1>3 DEF Least
<1> HIDE DEF m
<1>6. m * k \in 0 .. ring.count /\ (m * k) % k = 0 /\ (m * k) \div k = m
  BY <1>2, <1>3, <1>5
<1> QED  BY <1>1, <1>2, <1>4, <1>6 DEF k, m

LEMMA ReadKeepsInv ==
  ASSUME ReceiverInv, NEW n \in 1 .. MaxTake, ReadFrames(n)
  PROVE  ReceiverInv'
<1>1. TypeOK /\ QueueBytes \in Nat \ {0} /\ n \in Nat
  BY QueueAssumption, BoundAssumption DEF ReceiverInv
<1>2. /\ ready /\ format # Unlocked /\ Queued \in Seq(Audible)
      /\ UNCHANGED <<filter, ready, error, format, currentStream, lastFrameCounter,
                     taken, opened>>
      /\ ring' = RingPop(QueueBytes, ring, TakeBytes(n))
  BY DEF ReadFrames, ReceiverInv
<1>3. TakeBytes(n) \in Nat
  <2>1. ring.count \in 0 .. QueueBytes  BY <1>1 DEF TypeOK, Rings
  <2> QED  BY <1>1, <1>2, <2>1, TakeBytesFacts
<1>4. PayloadByte' = PayloadByte /\ Audible' = Audible
  BY <1>2 DEF PayloadByte, Audible
<1>5. /\ ring' \in Rings(QueueBytes, PayloadByte \cup {Silence})
      /\ WellFormed(QueueBytes, ring')
      /\ Content(QueueBytes, ring') \in Seq(Audible)
  BY <1>1, <1>2, <1>3, PopKeepsKind DEF TypeOK, Queued
<1>6. TypeOK'
  BY <1>1, <1>2, <1>4, <1>5 DEF TypeOK
<1> QED  BY <1>2, <1>4, <1>5, <1>6 DEF ReceiverInv, Queued

LEMMA ReceiverInvHolds == Spec => []ReceiverInv
<1>1. ReceiverInv /\ [Next]_vars => ReceiverInv'
  <2> SUFFICES ASSUME ReceiverInv, [Next]_vars PROVE ReceiverInv'
    OBVIOUS
  <2>1. ASSUME NEW name \in Names \cup {AnyName}, Begin(name) PROVE ReceiverInv'
    BY <2>1, BeginKeepsInv
  <2>2. ASSUME NEW name \in Names \cup {AnyName}, BeginFails(name) PROVE ReceiverInv'
    BY <2>2, CloseKeepsInv
  <2>3. CASE End  BY <2>3, CloseKeepsInv
  <2>4. ASSUME NEW a \in Arrivals, PollService(Arriving(a)) PROVE ReceiverInv'
    BY <2>4, QuietPoll DEF PollService, Take
  <2>5. ASSUME NEW a \in Arrivals, PollIgnored(Arriving(a)) PROVE ReceiverInv'
    BY <2>5, QuietPoll DEF PollIgnored, Take
  <2>6. ASSUME NEW a \in Arrivals, PollUnsupported(Arriving(a)) PROVE ReceiverInv'
    BY <2>6, QuietPoll DEF PollUnsupported, Take
  <2>7. ASSUME NEW a \in Arrivals, PollAudio(Arriving(a)) PROVE ReceiverInv'
    BY <2>7, PollAudioKeepsInv
  <2>8. ASSUME NEW n \in 1 .. MaxTake, ReadFrames(n) PROVE ReceiverInv'
    BY <2>8, ReadKeepsInv
  <2>9. CASE UNCHANGED vars
    BY <2>9 DEF vars, ReceiverInv, TypeOK, Queued, Audible, PayloadByte
  <2> QED  BY <2>1, <2>2, <2>3, <2>4, <2>5, <2>6, <2>7, <2>8, <2>9 DEF Next
<1> QED  BY <1>1, InvInit, PTL DEF Spec

\* Every variable of the receiver keeps its range: the indices stay inside the
\* array, the lock is a layout some datagram declared, and what is queued are
\* bytes that arrived.
THEOREM ReceiverIsTypeCorrect == Spec => []TypeOK
BY ReceiverInvHolds, PTL DEF ReceiverInv

LEMMA QueuedIsAudible ==
  ASSUME ReceiverInv, ready, NEW i \in 1 .. ring.count
  PROVE  Queued[i] \in Audible
<1>1. Len(Queued) = ring.count
  BY QueueAssumption, ContentType DEF ReceiverInv, TypeOK, Queued
<1>2. Queued \in Seq(Audible)  BY DEF ReceiverInv
<1> HIDE DEF Queued, Audible
<1> QED  BY <1>1, <1>2

\* Everything queued is of the locked layout, decodable, and, when begin() was given
\* a name, of the stream of that name, across every begin(), end() and failed
\* begin().  Which streams share a layout, the lock does not tell apart.
THEOREM QueueIsAsLocked == Spec => []OnlyLockedAudio
<1>1. ReceiverInv => OnlyLockedAudio
  BY QueuedIsAudible DEF OnlyLockedAudio, Audible
<1> QED  BY <1>1, ReceiverInvHolds, PTL

\* No audio of an earlier session is ever heard.
THEOREM SessionsNeverMix == Spec => []OnlyFreshAudio
<1>1. ReceiverInv => OnlyFreshAudio
  BY QueuedIsAudible DEF OnlyFreshAudio, Audible
<1> QED  BY <1>1, ReceiverInvHolds, PTL

-----------------------------------------------------------------------------
\* The ring of a locked receiver holds whole frames.
WholeQueued ==
  ready /\ format # Unlocked => ring.count % BytesPerFrame(format) = 0

\* What one poll() does to the queue, byte by byte: the newest of what was there
\* and of the m bytes taken from the datagram.
LEMMA PollAudioElements ==
  ASSUME ReceiverInv, WholeQueued, NEW a \in Arrivals, PollAudio(Arriving(a))
  PROVE  LET k   == BytesPerFrame(format')
             m   == UsableBytes(Arriving(a))
             src == SubSeq(Arriving(a).payload, 1, m)
             B   == (PayloadByte \cup {Silence})'
         IN  /\ k \in {2, 4} /\ format' \in Layouts
             /\ format' = Layout(Stream(a)) /\ format \in {Unlocked, format'}
             /\ ready /\ ready' = ready /\ out' = out
             /\ m \in Nat /\ m % k = 0 /\ QueueBytes % k = 0
             /\ src \in Seq(B) /\ Len(src) = m
             /\ \A i \in 1 .. m :
                  src[i] = [arrival |-> taken + 1, at |-> i, of |-> Stream(a)]
             /\ Queued \in Seq(B) /\ Queued' \in Seq(B)
             /\ Len(Queued) = ring.count /\ Len(Queued') = ring'.count
             /\ Len(Queued) % k = 0
             /\ format = Unlocked => Queued = <<>>
             /\ Overrun(QueueBytes, Queued, src, Queued')
<1> DEFINE d    == Arriving(a)
           k    == BytesPerFrame(format')
           m    == UsableBytes(d)
           src  == SubSeq(d.payload, 1, m)
           B    == (PayloadByte \cup {Silence})'
           byte(i) == [arrival |-> taken + 1, at |-> i, of |-> Stream(a)]
<1>1. /\ TypeOK /\ TypeOK' /\ taken \in Nat
      /\ QueueBytes \in Nat \ {0} /\ QueueBytes % 4 = 0
      /\ ReceiverInv'
  <2>1. ReceiverInv'  BY PollAudioKeepsInv
  <2>2. TypeOK /\ TypeOK'  BY <2>1 DEF ReceiverInv
  <2>3. taken \in Nat  BY BoundAssumption, <2>2 DEF TypeOK
  <2> QED  BY <2>1, <2>2, <2>3, QueueAssumption
<1>2. /\ ready /\ ready' = ready /\ out' = out
      /\ format' = Layout(Stream(a)) /\ format \in {Unlocked, format'}
      /\ Layout(d) = format' /\ taken' = taken + 1
      /\ Decodable(a) /\ IsAudio(a)
      /\ ring' = RingPush(QueueBytes, ring, src)
  <2>1. /\ MatchesLock(d) /\ ready /\ taken' = taken + 1
        /\ format' = IF format = Unlocked THEN Layout(d) ELSE format
        /\ UNCHANGED <<ready, out>>
        /\ Decodable(d) /\ IsAudio(d)
        /\ ring' = RingPush(QueueBytes, ring, src)
    BY DEF PollAudio, Take
  <2>2. Layout(d) = Layout(Stream(a)) /\ Decodable(d) = Decodable(a) /\ IsAudio(d) = IsAudio(a)
    BY ArrivingFacts
  <2> HIDE DEF d, src
  <2>3. format' = Layout(d) /\ format \in {Unlocked, format'}
    BY <2>1 DEF MatchesLock
  <2> QED  BY <2>1, <2>2, <2>3, Zenon
<1>3. format' \in Layouts
  BY <1>2 DEF Layouts, Layout, Stream
<1>4. k \in {2, 4}  BY <1>3, LayoutFacts
<1>5. QueueBytes % k = 0
  <2> HIDE DEF k
  <2>1. CASE k = 2  BY <1>1, <2>1
  <2>2. CASE k = 4  BY <1>1, <2>2
  <2> QED  BY <1>4, <2>1, <2>2
<1>6. \A i \in 1 .. MaxPayload : byte(i) \in PayloadByte'
  <2>1. taken + 1 \in 1 .. taken'  BY <1>1, <1>2
  <2> QED  BY <2>1 DEF PayloadByte
<1>7. /\ src \in Seq(PayloadByte') /\ Len(src) = m /\ m \in Nat /\ m % k = 0
      /\ \A i \in 1 .. m : src[i] = byte(i)
  BY <1>1, <1>2, <1>6, PushedFacts
<1>8. src \in Seq(B)
  BY <1>7, SeqWidens
<1>9. ring \in Rings(QueueBytes, B) /\ WellFormed(QueueBytes, ring)
  BY <1>1, <1>2, BytesWiden, RingWidens DEF TypeOK
<1>10. ring' \in Rings(QueueBytes, B)
  BY <1>1 DEF TypeOK
<1> HIDE DEF k, m, B, byte, src, d
<1>11. /\ Queued \in Seq(B) /\ Len(Queued) = ring.count
       /\ Queued' \in Seq(B) /\ Len(Queued') = ring'.count
  BY <1>1, <1>9, <1>10, ContentType DEF Queued
<1>12. Overrun(QueueBytes, Queued, src, Queued')
  BY <1>1, <1>2, <1>8, <1>9, PushElements DEF Queued
<1>13. /\ Len(Queued) % k = 0
       /\ format = Unlocked => Queued = <<>>
  <2>1. CASE format = Unlocked
    <3>1. ring.count = 0  BY <1>2, <2>1 DEF ReceiverInv
    <3>2. Queued = <<>>  BY <1>11, <3>1, EmptySeq
    <3>3. 0 % k = 0  BY <1>4
    <3> QED  BY <1>11, <3>1, <3>2, <3>3
  <2>2. CASE format # Unlocked
    <3>1. format = format'  BY <1>2, <2>2
    <3>2. ring.count % BytesPerFrame(format) = 0  BY <1>2, <2>2 DEF WholeQueued
    <3> QED  BY <1>11, <2>2, <3>1, <3>2 DEF k
  <2> QED  BY <2>1, <2>2
<1> QED
  BY <1>2, <1>3, <1>4, <1>5, <1>7, <1>8, <1>11, <1>12, <1>13 DEF k, m, B, d, byte, src

\* What poll() takes of x bytes under a header that counts s frames, in frames.
LEMMA WholeFramesTaken ==
  ASSUME NEW k \in {2, 4}, NEW x \in Nat, NEW s \in Nat
  PROVE  LET u == Least(x, s * k)
         IN  (u - (u % k)) \div k = Least(x \div k, s)
<1>1. CASE k = 2 /\ x < s * k  BY <1>1 DEF Least
<1>2. CASE k = 2 /\ ~ (x < s * k)  BY <1>2 DEF Least
<1>3. CASE k = 4 /\ x < s * k  BY <1>3 DEF Least
<1>4. CASE k = 4 /\ ~ (x < s * k)  BY <1>4 DEF Least
<1> QED  BY <1>1, <1>2, <1>3, <1>4

\* The bytes poll() pushes, cut into frames, are the frames the datagram carries.
LEMMA PushedAreCarried ==
  ASSUME ReceiverInv, WholeQueued, NEW a \in Arrivals, PollAudio(Arriving(a))
  PROVE  Frames(SubSeq(Arriving(a).payload, 1, UsableBytes(Arriving(a))),
                BytesPerFrame(format')) = Carried(a, taken + 1)
<1> DEFINE k   == BytesPerFrame(format')
           d   == Arriving(a)
           m   == UsableBytes(d)
           src == SubSeq(d.payload, 1, m)
           B   == (PayloadByte \cup {Silence})'
           f   == Frames(src, k)
           n   == Least(Least(a.payload, MaxPayload) \div k, a.samples)
           c(i) == [j \in 1 .. k |-> [arrival |-> taken + 1, at |-> (i - 1) * k + j,
                                      of |-> Stream(a)]]
<1>1. /\ k \in {2, 4} /\ m \in Nat /\ src \in Seq(B) /\ Len(src) = m
      /\ \A i \in 1 .. m : src[i] = [arrival |-> taken + 1, at |-> i, of |-> Stream(a)]
  BY PollAudioElements
<1>2. /\ Layout(d) = format' /\ Layout(a) = format' /\ d.samples = a.samples
      /\ d.payload = [i \in 1 .. a.payload |->
                        [arrival |-> taken + 1, at |-> i, of |-> Stream(a)]]
      /\ a.payload \in Nat /\ a.samples \in Nat
  <2>1. format' = Layout(Stream(a))  BY PollAudioElements
  <2> QED  BY <2>1, ArrivingFacts
<1>3. Carried(a, taken + 1) = [i \in 1 .. n |-> c(i)]
  BY <1>2 DEF Carried
<1>4. m \div k = n /\ n \in Nat
  <2> DEFINE x == Least(a.payload, MaxPayload)
             u == Least(x, a.samples * k)
  <2>1. Len(d.payload) = a.payload  BY <1>2
  <2>2. m = u - (u % k)
    BY <1>2, <2>1 DEF UsableBytes
  <2>3. x \in Nat  BY <1>2, BoundAssumption DEF Least
  <2> HIDE DEF x, k, m, d
  <2>4. (u - (u % k)) \div k = Least(x \div k, a.samples)
    BY <1>1, <1>2, <2>3, WholeFramesTaken
  <2>5. x \div k \in Nat  BY <1>1, <2>3
  <2>6. Least(x \div k, a.samples) \in Nat  BY <1>2, <2>5 DEF Least
  <2> QED  BY <2>2, <2>4, <2>6 DEF x
<1> HIDE DEF k, m, src, B, d, n
<1>5. CutInto(f, src, k, B)
  BY <1>1, FramesFacts
<1> HIDE DEF f
<1>6. f \in Seq(Seq(B)) /\ Len(f) = n
  BY <1>1, <1>4, <1>5 DEF CutInto
<1>7. ASSUME NEW i \in 1 .. n
      PROVE  f[i] = c(i)
  <2>1. /\ f[i] \in Seq(B) /\ Len(f[i]) = k
        /\ \A j \in 1 .. k : f[i][j] = src[(i - 1) * k + j]
    BY <1>1, <1>4, <1>5, Zenon DEF CutInto
  <2>2. ASSUME NEW j \in 1 .. k
        PROVE  (i - 1) * k + j \in 1 .. m
    <3>1. i \in 1 .. m \div k  BY <1>4
    <3>2. CASE k = 2  BY <1>1, <3>1, <3>2
    <3>3. CASE k = 4  BY <1>1, <3>1, <3>3
    <3> QED  BY <1>1, <3>2, <3>3
  <2>3. ASSUME NEW j \in 1 .. k
        PROVE  f[i][j] = [arrival |-> taken + 1, at |-> (i - 1) * k + j, of |-> Stream(a)]
    BY <1>1, <2>1, <2>2, Zenon
  <2>4. f[i] = [j \in 1 .. k |-> f[i][j]]
    <3> DEFINE g == f[i]
    <3>1. g \in Seq(B) /\ Len(g) = k  BY <2>1
    <3> HIDE DEF g
    <3>2. g = [j \in 1 .. k |-> g[j]]  BY <3>1
    <3> QED  BY <3>2 DEF g
  <2> QED  BY <2>3, <2>4, Zenon
<1>8. f = [i \in 1 .. n |-> f[i]]
  BY <1>6
<1>9. f = [i \in 1 .. n |-> c(i)]
  <2> HIDE DEF c
  <2> QED  BY <1>7, <1>8, Zenon
<1> QED  BY <1>3, <1>9 DEF f, k, m, src, d

\* The frames the queue stands for, as the refinement mapping gives them.
QueuedFrames ==
  IF ready /\ format # Unlocked THEN Frames(Queued, BytesPerFrame(format)) ELSE <<>>

\* One poll() that accepts a datagram adds the frames it carries to the queue, and
\* the newest there is room for stay.
LEMMA PollAudioDelivers ==
  ASSUME ReceiverInv, WholeQueued, NEW a \in Arrivals, PollAudio(Arriving(a))
  PROVE  Source!Deliver(a)
<1> DEFINE k   == BytesPerFrame(format')
           m   == UsableBytes(Arriving(a))
           src == SubSeq(Arriving(a).payload, 1, m)
           B   == (PayloadByte \cup {Silence})'
           old == Queued
           new == Queued'
<1>1. /\ k \in {2, 4} /\ format' \in Layouts
      /\ format' = Layout(Stream(a)) /\ format \in {Unlocked, format'}
      /\ ready /\ ready' = ready /\ out' = out
      /\ m \in Nat /\ m % k = 0 /\ QueueBytes % k = 0
      /\ src \in Seq(B) /\ Len(src) = m
      /\ old \in Seq(B) /\ new \in Seq(B) /\ Len(old) % k = 0
      /\ format = Unlocked => old = <<>>
      /\ Overrun(QueueBytes, old, src, new)
  BY PollAudioElements
<1>2. /\ IsAudio(a) /\ Decodable(a) /\ (filter = AnyName \/ a.name = filter)
      /\ Layout(a) = format' /\ taken' = taken + 1 /\ filter' = filter
  <2>1. /\ IsAudio(Arriving(a)) /\ Decodable(Arriving(a)) /\ Passes(Arriving(a))
        /\ taken' = taken + 1 /\ filter' = filter
    BY DEF PollAudio, Take
  <2> QED  BY <1>1, <2>1, ArrivingFacts DEF Passes
<1>3. format' # Unlocked /\ QueueBytes \in Nat
  BY <1>1, LayoutFacts, QueueAssumption
<1>4. /\ QueuedFrames = Frames(old, k)
      /\ QueuedFrames' = Frames(new, k)
  <2>1. QueuedFrames' = Frames(new, k)  BY <1>1, <1>3 DEF QueuedFrames
  <2>2. CASE format = Unlocked
    <3>1. QueuedFrames = <<>>  BY <2>2 DEF QueuedFrames
    <3>2. CutInto(Frames(old, k), old, k, B)  BY <1>1, FramesFacts
    <3>3. Len(old) = 0  BY <1>1, <2>2
    <3> HIDE DEF k
    <3>4. 0 \div k = 0  BY <1>1
    <3>5. Len(Frames(old, k)) = 0 /\ Frames(old, k) \in Seq(Seq(B))
      BY <3>2, <3>3, <3>4 DEF CutInto
    <3> QED  BY <2>1, <3>1, <3>5, EmptySeq
  <2>3. CASE format # Unlocked
    <3>1. format = format'  BY <1>1, <2>3
    <3>2. QueuedFrames = Frames(old, k)  BY <1>1, <2>3, <3>1 DEF QueuedFrames
    <3> QED  BY <2>1, <3>2
  <2> QED  BY <2>2, <2>3
<1>5. Frames(src, k) = Carried(a, taken')
  BY <1>2, PushedAreCarried
<1> HIDE DEF k, m, src, B, old, new
<1>6. Frames(new, k) = Newest(Frames(old, k) \o Frames(src, k), QueueBytes \div k)
  BY <1>1, <1>3, FramesOfOverrun
<1>7. QueuedFrames' = Source!Newest(QueuedFrames \o Carried(a, taken'), FrameCapacity(Layout(a)))
  <2>1. FrameCapacity(Layout(a)) = QueueBytes \div k
    BY <1>2 DEF FrameCapacity, k
  <2> QED  BY <1>4, <1>5, <1>6, <2>1 DEF Source!Newest, Newest
<1>8. Source!Fits(a)
  BY <1>1, <1>2 DEF Source!Fits, Wanted
<1> QED
  BY <1>1, <1>2, <1>3, <1>7, <1>8 DEF Source!Deliver, QueuedFrames

\* Every step keeps whole frames in the queue.
LEMMA WholeQueuedKept ==
  ASSUME ReceiverInv, WholeQueued, [Next]_vars
  PROVE  WholeQueued'
<1>1. ASSUME UNCHANGED <<ready, format, ring>>
      PROVE  WholeQueued'
  BY <1>1 DEF WholeQueued
<1>2. ASSUME NEW name \in Names \cup {AnyName}, Begin(name) PROVE WholeQueued'
  BY <1>2 DEF Begin, WholeQueued
<1>3. ASSUME NEW name \in Names \cup {AnyName}, BeginFails(name) PROVE WholeQueued'
  BY <1>3 DEF BeginFails, WholeQueued
<1>4. CASE End
  BY <1>4 DEF End, WholeQueued
<1>5. ASSUME NEW a \in Arrivals,
             PollService(Arriving(a)) \/ PollIgnored(Arriving(a)) \/ PollUnsupported(Arriving(a))
      PROVE  WholeQueued'
  BY <1>1, <1>5 DEF PollService, PollIgnored, PollUnsupported
<1>6. ASSUME NEW a \in Arrivals, PollAudio(Arriving(a)) PROVE WholeQueued'
  <2> DEFINE k == BytesPerFrame(format')
             m == UsableBytes(Arriving(a))
  <2>1. /\ k \in {2, 4} /\ m \in Nat /\ m % k = 0 /\ QueueBytes % k = 0
        /\ Len(Queued) % k = 0 /\ Len(Queued) = ring.count /\ Len(Queued') = ring'.count
        /\ Len(Queued') = IF Len(Queued) + m <= QueueBytes THEN Len(Queued) + m ELSE QueueBytes
        /\ Queued \in Seq((PayloadByte \cup {Silence})')
    BY <1>6, PollAudioElements DEF Overrun
  <2>2. Len(Queued) \in Nat  BY <2>1
  <2> HIDE DEF k, m
  <2>3. ring'.count % k = 0
    <3>1. CASE k = 2  BY <2>1, <2>2, <3>1
    <3>2. CASE k = 4  BY <2>1, <2>2, <3>2
    <3> QED  BY <2>1, <3>1, <3>2
  <2> QED  BY <2>3 DEF WholeQueued, k
<1>7. ASSUME NEW n \in 1 .. MaxTake, ReadFrames(n) PROVE WholeQueued'
  <2> DEFINE k == BytesPerFrame(format)
             t == TakeBytes(n)
  <2>1. TypeOK /\ ready /\ format # Unlocked /\ format' = format
        /\ ring' = RingPop(QueueBytes, ring, t) /\ n \in Nat
    BY <1>7 DEF ReadFrames, ReceiverInv
  <2>2. k \in {2, 4} /\ t \in 0 .. ring.count /\ t % k = 0
    BY <2>1, TakeBytesFacts
  <2>3. ring.count % k = 0  BY <2>1 DEF WholeQueued
  <2>4. ring.count \in Nat
    <3>1. ring.count \in 0 .. QueueBytes  BY <2>1 DEF TypeOK, Rings
    <3> QED  BY <3>1, QueueAssumption
  <2>5. ring'.count = ring.count - t
    BY <2>1, <2>2, <2>4 DEF RingPop, Advanced, Taken
  <2> HIDE DEF k, t
  <2>6. ring'.count % k = 0
    <3>1. CASE k = 2  BY <2>2, <2>3, <2>4, <2>5, <3>1
    <3>2. CASE k = 4  BY <2>2, <2>3, <2>4, <2>5, <3>2
    <3> QED  BY <2>2, <3>1, <3>2
  <2> QED  BY <2>1, <2>6 DEF WholeQueued, k
<1>8. CASE UNCHANGED vars
  BY <1>1, <1>8 DEF vars
<1> QED  BY <1>2, <1>3, <1>4, <1>5, <1>6, <1>7, <1>8 DEF Next

\* t of c bytes, both whole frames of k.
LEMMA PartArithmetic ==
  ASSUME NEW k \in {2, 4}, NEW c \in Nat, NEW t \in Nat, t <= c, t > 0,
         t % k = 0, c % k = 0
  PROVE  /\ (t \div k) * k = t /\ t \div k > 0
         /\ (c \div k - t \div k) * k = c - t /\ (c - t) \div k = c \div k - t \div k
<1>1. CASE k = 2  BY <1>1
<1>2. CASE k = 4  BY <1>2
<1> QED  BY <1>1, <1>2

\* readFrames() hands out the oldest frames and keeps the others.
LEMMA ReadFramesReads ==
  ASSUME ReceiverInv, WholeQueued, NEW n \in 1 .. MaxTake, ReadFrames(n)
  PROVE  Source!Read(n)
<1> DEFINE k   == BytesPerFrame(format)
           t   == TakeBytes(n)
           B   == PayloadByte \cup {Silence}
           old == Queued
           new == Queued'
           got == RingPopBytes(QueueBytes, ring, t)
           f   == Frames(old, k)
           h   == IF n < Len(f) THEN n ELSE Len(f)
<1>1. /\ TypeOK /\ ready /\ format # Unlocked /\ n \in Nat
      /\ ready' = ready /\ format' = format /\ filter' = filter /\ taken' = taken
      /\ ring' = RingPop(QueueBytes, ring, t) /\ t > 0
      /\ out' = Frames(got, k)
      /\ QueueBytes \in Nat \ {0}
  BY QueueAssumption DEF ReadFrames, ReceiverInv
<1>2. /\ k \in {2, 4} /\ t \in 0 .. ring.count /\ t % k = 0
      /\ t \div k = Least(n, ring.count \div k)
  BY <1>1, TakeBytesFacts
<1>3. ring \in Rings(QueueBytes, B) /\ WellFormed(QueueBytes, ring)
  BY <1>1 DEF TypeOK
<1>4. ring.count \in Nat /\ t \in Nat /\ t <= ring.count
  <2>1. ring.count \in 0 .. QueueBytes  BY <1>3 DEF Rings
  <2> QED  BY <1>1, <1>2, <2>1
<1>5. /\ old \in Seq(B) /\ Len(old) = ring.count
  BY <1>1, <1>3, ContentType DEF Queued
<1>6. new \in Seq(B) /\ got \in Seq(B) /\ SplitAt(t, old, got, new)
  BY <1>1, <1>3, <1>4, PopElements DEF Queued
<1>7. CutInto(f, old, k, B)  BY <1>2, <1>5, FramesFacts
<1>8. ring.count % k = 0  BY <1>1 DEF WholeQueued
<1>9. QueuedFrames = f /\ QueuedFrames' = Frames(new, k)
  BY <1>1 DEF QueuedFrames
<1> HIDE DEF k, t, B, old, new, got
<1>10. Len(f) = ring.count \div k  BY <1>5, <1>7 DEF CutInto
<1> HIDE DEF f
<1>11. ring.count \div k \in Nat  BY <1>2, <1>4
<1>12. h = t \div k /\ h \in Nat /\ h * k = t /\ h > 0 /\ h <= Len(f)
       /\ (Len(f) - h) * k = ring.count - t /\ (ring.count - t) \div k = Len(f) - h
  <2>1. h = t \div k /\ h \in Nat /\ h <= Len(f)
    BY <1>1, <1>2, <1>10, <1>11 DEF Least
  <2>2. t > 0 /\ t % k = 0 /\ t <= ring.count  BY <1>1, <1>2, <1>4
  <2>3. k \in {2, 4}  BY <1>2
  <2> HIDE DEF h
  <2>4. /\ h * k = t /\ h > 0
        /\ (Len(f) - h) * k = ring.count - t /\ (ring.count - t) \div k = Len(f) - h
    <3>1. /\ (t \div k) * k = t /\ t \div k > 0
          /\ (ring.count \div k - t \div k) * k = ring.count - t
          /\ (ring.count - t) \div k = ring.count \div k - t \div k
      BY <1>4, <1>8, <2>2, <2>3, PartArithmetic
    <3> QED  BY <1>10, <2>1, <3>1, Zenon
  <2> QED  BY <2>1, <2>4
<1> HIDE DEF h
<1>13. Frames(got, k) = SubSeq(f, 1, h)
  <2>1. CutInto(Frames(got, k), got, k, B)  BY <1>2, <1>6, FramesFacts
  <2>2. Frames(got, k) \in Seq(Seq(B)) /\ Len(Frames(got, k)) = h
    BY <1>6, <1>12, <2>1 DEF CutInto, SplitAt
  <2>3. Shifted(old, got, k, 0, h)
    <3>1. \A p \in 1 .. h * k : got[p] = old[0 * k + p]
      <4>1. 0 * k = 0 /\ \A p \in 1 .. h * k : p \in 1 .. t /\ 0 + p = p
        BY <1>2, <1>4, <1>12
      <4> QED  BY <1>6, <4>1 DEF SplitAt
    <3>2. 0 + h <= Len(old) \div k /\ h <= Len(got) \div k
      BY <1>5, <1>6, <1>10, <1>12 DEF SplitAt
    <3> QED  BY <3>1, <3>2 DEF Shifted
  <2>4. SubSeq(Frames(got, k), 1, h) = SubSeq(f, 0 + 1, 0 + h)
    <3>1. /\ k \in {2, 4} /\ old \in Seq(B) /\ got \in Seq(B) /\ h \in Nat /\ 0 \in Nat
      BY <1>2, <1>5, <1>6, <1>12
    <3>2. SubSeq(Frames(got, k), 1, h) = SubSeq(Frames(old, k), 0 + 1, 0 + h)
      BY <2>3, <3>1, SameFrames
    <3> QED  BY <3>2 DEF f
  <2>5. SubSeq(Frames(got, k), 1, h) = Frames(got, k)
    BY <2>2, SubSeqFull
  <2>6. 0 + 1 = 1 /\ 0 + h = h  BY <1>12
  <2> QED  BY <2>4, <2>5, <2>6
<1>14. Frames(new, k) = SubSeq(f, h + 1, Len(f))
  <2> DEFINE r == Len(f) - h
  <2>1. r \in Nat /\ r * k = ring.count - t /\ (ring.count - t) \div k = r
    BY <1>10, <1>11, <1>12
  <2>2. CutInto(Frames(new, k), new, k, B)  BY <1>2, <1>6, FramesFacts
  <2>3. h + r = Len(f)  BY <1>10, <1>11, <1>12
  <2> HIDE DEF r
  <2>4. Frames(new, k) \in Seq(Seq(B)) /\ Len(Frames(new, k)) = r
    BY <1>5, <1>6, <2>1, <2>2 DEF CutInto, SplitAt
  <2>5. Shifted(old, new, k, h, r)
    <3>1. \A p \in 1 .. r * k : new[p] = old[h * k + p]
      BY <1>5, <1>6, <1>12, <2>1 DEF SplitAt
    <3>2. h + r <= Len(old) \div k /\ r <= Len(new) \div k
      BY <1>5, <1>6, <1>10, <2>1, <2>3 DEF SplitAt
    <3> QED  BY <3>1, <3>2 DEF Shifted
  <2>6. SubSeq(Frames(new, k), 1, r) = SubSeq(f, h + 1, h + r)
    <3>1. k \in {2, 4} /\ old \in Seq(B) /\ new \in Seq(B) /\ h \in Nat /\ r \in Nat
      BY <1>2, <1>5, <1>6, <1>12, <2>1
    <3>2. SubSeq(Frames(new, k), 1, r) = SubSeq(Frames(old, k), h + 1, h + r)
      BY <2>5, <3>1, SameFrames
    <3> QED  BY <3>2 DEF f
  <2>7. SubSeq(Frames(new, k), 1, r) = Frames(new, k)
    BY <2>4, SubSeqFull
  <2> QED  BY <2>3, <2>6, <2>7
<1>15. f # <<>>
  BY <1>12
<1>16. QueuedFrames = f /\ QueuedFrames' = SubSeq(f, h + 1, Len(f)) /\ out' = SubSeq(f, 1, h)
  BY <1>1, <1>9, <1>13, <1>14
<1> QED
  BY <1>1, <1>15, <1>16 DEF Source!Read, QueuedFrames, h

\* A datagram poll() turns away is none a listener wants, or of another layout.
LEMMA TurnedAwayIsIgnored ==
  ASSUME NEW a \in Arrivals,
         PollService(Arriving(a)) \/ PollIgnored(Arriving(a)) \/ PollUnsupported(Arriving(a))
  PROVE  Source!Ignore(a)
<1>1. /\ ready /\ taken' = taken + 1
      /\ UNCHANGED <<filter, ready, format, ring, out>>
  BY DEF PollService, PollIgnored, PollUnsupported, Take
<1>2. ~ (Wanted(a, filter) /\ format \in {Unlocked, Layout(a)})
  <2> DEFINE d == Arriving(a)
  <2>1. /\ IsAudio(d) = IsAudio(a) /\ Decodable(d) = Decodable(a)
        /\ Layout(d) = Layout(a) /\ d.name = a.name
    BY ArrivingFacts
  <2>2. ~ (IsAudio(d) /\ Passes(d) /\ Decodable(d) /\ MatchesLock(d))
    <3>1. CASE PollService(d)
      BY <3>1 DEF PollService, IsService, IsAudio
    <3>2. CASE PollIgnored(d)
      BY <3>2 DEF PollIgnored
    <3>3. CASE PollUnsupported(d)
      BY <3>3 DEF PollUnsupported
    <3> QED  BY <3>1, <3>2, <3>3
  <2> HIDE DEF d
  <2> QED  BY <2>1, <2>2 DEF Wanted, Passes, MatchesLock
<1>3. ~ Source!Fits(a)
  BY <1>1, <1>2 DEF Source!Fits
<1> QED
  BY <1>1, <1>3 DEF Source!Ignore, Queued

\* begin() opens an empty stream, end() and a failed begin() close it.
LEMMA OtherCallsRefine ==
  /\ \A name \in Names \cup {AnyName} : Begin(name) => Source!Open(name)
  /\ \A name \in Names \cup {AnyName} : BeginFails(name) => Source!Close
  /\ End => Source!Close
  /\ UNCHANGED vars => UNCHANGED Source!fvars
<1>1. ASSUME NEW name \in Names \cup {AnyName}, Begin(name) PROVE Source!Open(name)
  BY <1>1 DEF Begin, Source!Open
<1>2. ASSUME NEW name \in Names \cup {AnyName}, BeginFails(name) PROVE Source!Close
  BY <1>2 DEF BeginFails, Source!Close
<1>3. ASSUME End PROVE Source!Close
  BY <1>3 DEF End, Source!Close
<1>4. ASSUME UNCHANGED vars PROVE UNCHANGED Source!fvars
  BY <1>4 DEF vars, Source!fvars, Queued
<1> QED  BY <1>1, <1>2, <1>3, <1>4

\* VbanReceiver is the bounded queue its reader takes it for, whatever arrives and
\* however it is opened and closed: the whole frames of every wanted datagram of
\* the locked layout, in order of arrival, of which only the oldest ever go.
THEOREM ReceiverIsAFrameQueue == Spec => SourceSpec
<1>1. Init => Source!Init /\ WholeQueued
  BY DEF Init, Source!Init, WholeQueued
<1>2. ReceiverInv /\ WholeQueued /\ [Next]_vars => [Source!Next]_(Source!fvars)
  <2> SUFFICES ASSUME ReceiverInv, WholeQueued, [Next]_vars
               PROVE  Source!Next \/ UNCHANGED Source!fvars
    OBVIOUS
  <2>1. ASSUME NEW name \in Names \cup {AnyName}, Begin(name) \/ BeginFails(name)
        PROVE  Source!Next
    BY <2>1, OtherCallsRefine DEF Source!Next
  <2>2. CASE End  BY <2>2, OtherCallsRefine DEF Source!Next
  <2>3. ASSUME NEW a \in Arrivals,
               PollService(Arriving(a)) \/ PollIgnored(Arriving(a)) \/ PollUnsupported(Arriving(a))
        PROVE  Source!Next
    BY <2>3, TurnedAwayIsIgnored DEF Source!Next
  <2>4. ASSUME NEW a \in Arrivals, PollAudio(Arriving(a))
        PROVE  Source!Next
    BY <2>4, PollAudioDelivers DEF Source!Next
  <2>5. ASSUME NEW n \in 1 .. MaxTake, ReadFrames(n)
        PROVE  Source!Next
    BY <2>5, ReadFramesReads DEF Source!Next
  <2>6. CASE UNCHANGED vars
    BY <2>6, OtherCallsRefine
  <2> QED  BY <2>1, <2>2, <2>3, <2>4, <2>5, <2>6 DEF Next
<1>3. ReceiverInv /\ WholeQueued /\ [Next]_vars => WholeQueued'
  BY WholeQueuedKept
<1>4. Spec => []WholeQueued
  BY <1>1, <1>3, ReceiverInvHolds, PTL DEF Spec
<1> QED
  BY <1>1, <1>2, <1>4, ReceiverInvHolds, PTL DEF Spec, SourceSpec, Source!Spec
=============================================================================
