# PCMFlowUDP in TLA+

A model of the C++ library under `src/src`, which carries PCM audio over UDP on
Arduino-class boards: VBAN, RTP and raw datagrams. TLC checks the modules on
small instances; TLAPS proves the theorems for every value of the constants.
Paths and line numbers below refer to `src/src` unless they say otherwise.

## 1. Inventory

The library has no threads of its own. An application's `loop()` calls the
classes; the only concurrency is between two boards and the network between
them, and a user callback that runs inside `VbanReceiver::poll()`. What is hard
is therefore not locking but *sequences of calls*: reconfiguration with audio
pending, a send that fails in the middle of a batch, queues that overflow,
counters that wrap, and datagrams that come late, twice, never, or from
somebody else.

| Component | State | Operations | What makes it correct |
|---|---|---|---|
| byte ring (`ringPush`, `ringPop` in `VbanReceiver.cpp` and `RtpReceiver.cpp`) | array, head, tail, count | push, pop, clear | a bounded FIFO that loses only its oldest bytes |
| `VbanSender` | ready, error, format, packet size, scratch buffer with pending frames, frame counter, stream name | begin, end, setFormat, setStreamName, writeFrames, flush | packets describe themselves; no frame twice, reordered or silently gone; failures visible |
| `VbanReceiver` | filter, ready, error, locked format, ring, header summary, service callback | begin, end, poll, readFrames, setServiceCallback | whole frames of one layout and one session, of the stream asked for if one was, in order of arrival |
| `VbanProtocol` | none | encode / parse of audio and service headers, rate table | parse inverts encode; anything else is refused |
| `RtpSender` | payload type, L16 packet size, scratch buffer, sequence number, timestamp, SSRC, marker | begin, end, setters, writeFrames, flush, writeEncoded | header numbering follows the audio; L16 packets whole; marker once |
| `RtpReceiver` | format, dynamic payload type, ring in own or caller's buffer, one-packet hold, last header | begin, end, setPcmBuffer, setFormat, setDynamicL16PayloadType, poll, readFrames, readEncoded | whole frames; a hold read at most once; nothing from an earlier session |
| `RtpProtocol` | none | encode / parse of the RTP header | payload offset inside the datagram |
| `RawUdpSink` | packet buffer, used, destination | begin, end, setPacketBuffer, write, flush | bytes of one packet in order, to the peer they were written for, cut where `write` says; none sent twice |
| `RawUdpStream` | remote address (the rest of a datagram is in the UDP object) | begin, end, poll, read | one datagram after the other, each byte under its sender's address |
| UDP stack, PCMFlow | external | `beginPacket`, `write`, `endPacket`, `parsePacket`, `read`; `PCMFormat` | modelled from how the library uses them |

How they interact: an application writes frames into a sender (`PCMSink`), which
hands datagrams to the injected `UDP` object; the network delivers some of them
to the `UDP` object of a receiver, whose `poll()` parses one datagram per call
and pushes its payload into the ring that `readFrames()` (`PCMSource`) pops
from. Nothing acknowledges or retransmits.

`PROJECT.json` lists the hazards found while reading, each at its line.

## 2. Modules

| Module | What it is | Source |
|---|---|---|
| `PcmRing` | the ring as pure operators on a record `[q, head, tail, count]` | `VbanReceiver.cpp:22-62` |
| `RingQueue` | the ring as a state machine: Push, Pop, Clear | the same, as the receivers call it |
| `DropOldestQueue` | abstract: a bounded FIFO that loses its oldest bytes | what `RingQueue` implements |
| `VbanSender` | one action per call, refusals apart | `VbanSender.cpp` |
| `VbanReceiver` | begin (bound or not), end, poll split by its outcome, readFrames | `VbanReceiver.cpp` |
| `LockedFrameQueue` | abstract: the queue a `PCMSource` promises between two `begin()` calls: what each datagram brings, in order of arrival, the newest that fit | what `VbanReceiver` implements |
| `VbanLink` | `VbanSender` (EXTENDed), UDP network and `VbanReceiver` (INSTANCEd) | both |
| `LossyFrameChannel` | abstract: numbered items heard at most once and in the order written | what the three links implement |
| `RtpSender` | one action per call; L16 and encoded path share the scratch buffer | `RtpSender.cpp` |
| `RtpReceiver` | one action per call, poll split by its outcome; ring in own or caller's buffer, one-packet hold | `RtpReceiver.cpp` |
| `RtpLink` | `RtpSender` (EXTENDed), UDP network and `RtpReceiver` (INSTANCEd), headers crossing as bytes of `RtpWire` | both and `RtpProtocol.cpp` |
| `Octets` | numbers as octets | shifts and masks of both codecs |
| `VbanWire` | audio and service header: encode, parse, refusal | `VbanProtocol.cpp` |
| `RtpWire` | RTP header: encode, parse with CSRCs and extension, refusal | `RtpProtocol.cpp` |
| `WireFormats` | a datagram from encoder to parser, possibly cut or changed, or from a foreign sender | both codecs |
| `RawUdpSink` | one action per call | `RawUdpSink.cpp` |
| `RawUdpStream` | one action per call and outcome, over the datagram the UDP object holds; used by `RawLink` | `RawUdpStream.cpp` |
| `RawLink` | `RawUdpSink` (EXTENDed), UDP network, `RawUdpStream` (INSTANCEd), and a foreign sender on the same port | both |
| `PcmProofs`, `RingQueueProofs`, `VbanLinkProofs`, `VbanReceiverProofs`, `RtpLinkProofs`, `RtpReceiverProofs`, `WireFormatsProofs`, `RawLinkProofs` | theorems, section 4 | |
| `MC*` | instances for TLC | |

How state and actions correspond to the code:

* **Atomic calls.** The classes are driven from one thread and no call yields,
  so one call is one action. A call with several sends (`writeFrames` over
  several packets) is one action that chooses the set of packets the stack
  takes, `\E sent \in SUBSET ...`.
* **Frames and bytes.** A frame in a sender is its number in the order of writing
  with the format it was written under; a byte in a receiver says which datagram
  and position it came from, or (in a link) which frame and position in it; a byte
  in the raw sink has a number and the peer the sink was open for. Values of
  samples do not matter to any property, where they come from does. The byte order
  of L16 samples does matter: `PayloadBytes` of `RtpLink` writes the high byte first,
  `HostOrder` of `RtpReceiver` swaps, `FrameOf` accepts only whole frames in host order.
* **Headers** are parsed records in `VbanLink` and the single components, where a
  datagram has a flag for each reason a parser refuses it. `VbanWire` and `RtpWire`
  give the bytes; `RtpLink` sends its headers through them.
* **The UDP object** on the receiving side holds one datagram. `RawUdpStream` reads
  it piece by piece, so it is a variable there (`held`); the other receivers read
  it whole within `poll()`. A foreign datagram is one no sender of the model sent.
* **History variables** (`written`, `given`, `lost`, `dropped`, `opened`, `taken`,
  `heard`, `settled`, `orderly`, `relaid`, `swapped`, `codecReads`, ...) are marked as
  such where they are declared; no guard of a code action depends on them except
  for the bounds. `orderly` is true as long as the network has delivered each
  datagram at most once and none late: a link promises order only that long, since
  no receiver reorders.
* **Refusals** are actions of their own (`WriteRefused`, `SetFormatRejected`,
  ...), since they set `error_`. Calls that change nothing (a null pointer, a
  count of 0, a poll without a datagram) are stuttering steps and left out.
* **Operators called faulty variants** in the modules are not used by any
  action: they say which mistakes the properties were tried against
  (`PROJECT.json`, "mutants").

## 3. Runs

| Run | Checks | Shows |
|---|---|---|
| `ring` | `TypeOK`, `CursorsAgree`, `QueueSpec` | the ring implements `DropOldestQueue` |
| `vban_sender` | `TypeOK` and six invariants | frames whole, in order, accounted for; a failed packet shows as a counter gap and, until another call sets it, in `lastError()` |
| `vban_receiver` | `TypeOK`, `OnlyLockedAudio`, `OnlyFreshAudio`, `SourceSpec` | the receiver implements `LockedFrameQueue`; layouts, sessions and, under a name filter, streams do not mix |
| `vban_link` | `QueuedAsWritten`, `ChannelSpec` | end to end over loss, duplication, reordering and reopening at both ends: never a torn or misread frame, and a lossy channel while the order is kept |
| `vban_link_live` | `NewestHeard` | audio that is pending or on the wire comes out, or newer audio does |
| `rtp_sender` | `TypeOK`, `L16PacketsAreWhole`, `EveryFrameOnce`, `StampsFollow`, `MarkerGoesOutOnce` | L16 packets survive every mixture of calls; numbering follows what reached the wire; an armed marker goes out once, an unarmed one never |
| `rtp_receiver` | `TypeOK`, `SamplesInOrder`, `FramesWhole`, `OnlyFreshAudio`, `CodecReadOnce` | no sample torn whatever arrives; frames whole until the channel count changes under queued audio; sessions and the hold |
| `rtp_link` | `ChannelSpec`, `GapsShowLosses` | L16 end to end with codec packets in between; network losses countable from the sequence numbers over their wrap |
| `wire_formats` | `RoundTrip`, `OneReader`, `FieldsInRange`, `CutHeaderRefused` | parse inverts encode; no datagram has two readings; no damaged one gives a number outside what receivers can use |
| `raw_udp` | `TypeOK`, `BufferHoldsPending`, `BytesGoToTheirPeer`, `EveryByteOnce`, `ChannelSpec`, `EveryByteSettled` | sink, network and stream are a lossy byte channel; no byte waits for ever |
| `vban_flush_answer`, `rtp_receiver_lock` | one property each, violated | places where code and documentation disagree (section 6) |

Bounds, and why they are enough:

* `ring`: capacity 4, payloads of 0 to 5 bytes over two values, pops of 0 to 5:
  every cursor position meets every wrap, drop, exact fit and overrun; the two
  values tell the bytes apart, and the proofs cover every capacity.
* `vban_sender`: packets of at most 3 samples and 8 bytes, so mono is cut by the
  sample field and stereo by the payload; writes of 1 and 4 frames, 5 in all: a
  call can fill two stereo packets, or complete a packet and leave a rest. The
  counter wraps at 3, so every gap class and the wrap occur. One format has a rate
  VBAN lacks and one a depth the sender refuses.
* `vban_receiver`: a ring of 8 bytes (4 mono frames, 2 stereo frames), 4
  datagrams out of ten kinds: payload shorter, longer and odd against the
  header, larger than `buf` (6 bytes), two rates, three layouts, two streams that share
  a layout (so that they meet in the queue when no name is asked for, and only the filter
  tells them apart when one is), another codec, a Service packet, no VBAN at all. Two of
  them overflow the ring.
* `vban_link`, `vban_link_live`: packets of at most 2 samples, a ring that two packets
  overflow, 3 (4) frames in writes of 1 and 3, 3 (4) arrivals, so a packet can be
  delivered twice, late, or never between others. `Reopening`, `Losing`,
  `Duplicating`, `Reordering` are the hazards: all on in the first, off in the second,
  where they would refute liveness trivially. The bounds on
  frames and arrivals stop the link and codec runs (`vban_link`, `rtp_link`, `raw_udp`,
  `wire_formats`), which is why they do not check for deadlock; the others do.
* `rtp_sender`: a clock of 40 Hz, of which 20 ms hold no frame, and stereo at 200 Hz, of
  which 20 ms are four frames and the payload of 8 bytes takes two; a third format has a
  depth the sender refuses. Three frames in writes of 1 and 3 and three packets counting
  those that fail, so one that fails lies between two that go out, and the marked packet
  can be the second of a call; at most one encoded packet reaches the wire, before, between
  or after L16 packets; two `begin()` / renumbering calls. Sequence number and timestamp
  start at 2 and wrap at 3, also between two packets with a failed one between them. The
  `VIEW` leaves out `error`: no guard reads it, no other variable and no property but its
  type depends on it, and every call that sets it sets it to a constant of `Errors`.
* `rtp_receiver`: a ring of 8 bytes and caller's buffers of 6 and 5: a whole number of
  mono frames but not of stereo, and of neither. Four datagrams out of nine: mono
  and stereo of two sources, lengths that end inside a frame or a sample, codec
  packets of which one is empty and one becomes L16 when its type is declared, a
  runt, a wrong version. Three of them overflow any of the buffers.
* `rtp_link`: stereo packets of 2 frames, a queue one flushed frame and one packet
  overflow, 4 frames, 3 packets and 3 arrivals, counters that wrap at 3 and 5: a
  failed packet between two that are sent, and a lost one between two delivered.
* `wire_formats`: every field at its extremes and counters with four different
  octets; names empty, short and filling their 16 bytes; 0, 2 and 15 CSRCs, extensions of 0,
  1 and 256 words (the second octet of the length). Cuts around each
  place where a part of a header ends; one changed byte, at each of the header's
  bytes, over values that flip version, extension bit, CSRC count, sub-protocol and rate
  index. TLC's integers have 32 bits with a sign, so counters stay below 2^31; the proofs
  cover all 32 bits.
* `raw_udp`: a default buffer of 3 bytes (a write of 3 fits it exactly and is cut
  after one of 1), a caller's buffer of 2 and one of 0, a null pointer that comes with a
  capacity, two peers of which
  one is the listener, 3 bytes, 2 arrivals, foreign datagrams at any time.

Fairness. `LinkFairSpec` of `VbanLink` is weak fairness of `flush()`, `poll()` and of reading:
an application that ends a stream flushes, as the test sketches do
(`src/tests/manual/core2_vban_mic/core2_vban_mic.ino:181-182`,
`src/tests/vban_dut_to_python/vban_dut_to_python.ino:91-92`; `src/examples/VbanMicToPc` never
flushes, and the rest of its last packet waits until it writes again), and every receiving
sketch polls and reads from `loop()`; the outcome of a send is left open. The run
is on a network that loses nothing: no fairness makes a lossy network deliver.
`LinkFairSpec` of `RawLink` is weak fairness of `flush()`, of reading what the UDP object holds,
and of the loss of each datagram still on its way: the network may deliver or lose
it, but does not keep it for ever. No fairness is assumed of writes, opens, or delivery.

## 4. Proofs

Each module of theorems EXTENDS the component's module; the theorems hold for every
value of its constants under the named assumptions of that module, which TLC evaluates
in the component's run. Every state invariant that the passing runs check is proved, and
so are all five refinements, the properties over steps (`MarkerGoesOutOnce`, `GapsShowLosses`,
and `CodecReadOnce` by its history) and what a push and a pop do.

The theorems about a sender are in the module of its link, which EXTENDS the sender:
`LinkSpec => Spec` then carries its invariants over to the link. They cite none of the
link's own assumptions, so they hold of the sender alone.

**Ring** (`PcmProofs`, `RingQueueProofs`), for every capacity (`Cap \in Nat \ {0}`), byte set,
payload set and pop size:

* `PushKeepsNewest`, `PopTakesOldest`: what one push or pop does to the content. They
  speak of `PcmRing` alone, and both receivers rest on them. A push is cut as the code
  is: `NewestOfLongTail` / `NewestOfShortTail` for a payload that overruns the ring or
  not, `AdvanceForgets` for the drop, `StoreAppends` for the copying loop; `WrapOnce`,
  `WrapSum` and `OffsetOfContent` are the modular arithmetic.
* `RingIsTypeCorrect`, `RingIsWellFormed`: `TypeOK` and `CursorsAgree`, inductive only
  together: where the next byte goes depends on tail being head + count modulo the
  capacity.
* `RingImplementsQueue`: `Spec => QueueSpec`, by the two theorems for each action.
* `PcmProofs` also has what the two links share: `BytesJoin`, `BytesCut`, `BytesNewest` and
  `FramesOfBytes` turn statements about the bytes of whole frames (`BytesIn`) into statements
  about the frames, `WaitsBehind` and `WaitsRead` say how a queue of numbered frames stays in
  order, behind what was heard, when frames come in, are dropped or are read.

**VBAN sender** (`VbanLinkProofs`), for every set of formats, payload and packet limit,
counter width and bound on the calls:

* `SenderIsTypeCorrect`, `ScratchIsSafe`, `DatagramsDescribeThemselves`,
  `FailuresStayReported` (`LossStaysReported`: `error_` is `SendFailed` exactly when a packet
  failed since `begin()`, `end()` or a refused call last set it; such a call does replace the
  report, a packet that goes out does not) follow from `SenderInv`. It adds to `TypeOK` that the packet size is
  the one `setFormat()` computed for the current format (`PacketSizeOfFormat`, without
  which nothing bounds a datagram's sample count), that the pending frames are of that
  format and only a ready sender has any (`PendingOfFormat`, which makes the packet that
  joins scratch and caller's frames uniform), and `LostWereWritten`. `DivBounds`, `PacketCut` and
  `RestCut` are the arithmetic of the packet loop.
* `FramesAreAccountedFor`, `FramesLeaveInOrder`, `LossIsVisible`: `EveryFrameOnce`,
  `SentInOrder`, `GapVisible`. None is inductive: which frame a counter value stands for is
  nowhere in the state once packets failed. The second invariant `BookInv` therefore says
  that there *is* a numbering `p` of all packets of the past, ascending, such that the wire
  holds those that went, `lost` those that failed and `dropped` what no packet
  held (`Accounted(p)`), and that a packet's counter gives its place in its session
  (`CounterTellsPlace`). `GapVisible` then is counting between two places.

**VBAN link** (`VbanLinkProofs`), for every ring size that is a multiple of 4, set of filters, and
network (all values of `Losing`, `Duplicating`, `Reordering`, `Reopening`):

* `NoFrameIsTorn` (`QueuedAsWritten`) and `LinkIsALossyChannel` (`LinkSpec => ChannelSpec`), from
  `LinkInv`, which is `SenderInv`, `BookInv` and `StreamInv`. `StreamInv` says that there *is* a
  sequence of written frames whose bytes, under the locked layout, are the content of the
  ring; that all of them have that rate and channel count; that they and the frames heard
  came in delivered datagrams; and that, while the network keeps the order, they ascend
  and come after all that was heard (`Holds`, `Waits`). Neither property is inductive: that a
  push keeps frames whole needs the payload to be the bytes of whole frames of the layout in its
  header (`WholePayloadTaken`, from `SenderInv`), and that a poll brings later frames needs
  `BookInv` (`LaterFrames`, `ArrivalIsLater`). `PushKeepsStream` and `ReadKeepsStream` are the two steps that
  change the ring.

**VBAN receiver** (`VbanReceiverProofs`), for every set of datagrams, names, ring size:

* `ReceiverIsTypeCorrect`, `QueueIsAsLocked` (`OnlyLockedAudio`), `SessionsNeverMix`
  (`OnlyFreshAudio`), from `ReceiverInv`: an open receiver's ring holds bytes of the set
  `Audible` only, which depends on session, filter and lock. A closed receiver may hold
  anything, since a `begin()` that could not bind has already changed the filter; what
  makes this safe is that opening empties the ring.
* `ReceiverIsAFrameQueue`: `Spec => SourceSpec`, with `WholeQueued`: once a layout is locked
  the ring holds whole frames, because both what a poll pushes and the ring size
  (`QueueAssumption`, a multiple of 4) are whole frames. `PollAudioElements` says what a
  poll does to the bytes of the ring, `PushedAreCarried` that the bytes it pushes are the
  frames the datagram carries, and `FramesOfOverrun` (`PcmProofs`) that a push of whole
  frames leaves exactly the newest frames that fit; `TurnedAwayIsIgnored` that what poll()
  turns away is what the listener does not want.

**RTP sender** (`RtpLinkProofs`), for every set of formats, payload types, clock rates,
codec sizes and counter widths:

* `SenderIsTypeCorrect`, `FramesAreAccountedFor` (`EveryFrameOnce`, also where `writeEncoded()`
  writes over pending frames), from `SenderInv` and `BookInv`.
* `StampsAreUnbroken` (`StampsFollow`), from `StampInv`: the newest packet of the
  current numbering is continued by the sender's own counters. `EmitKeepsStamps` is the call
  that sends several packets of which some fail: those that go are counted without a gap.
* `L16PacketsStayWhole` (`L16PacketsAreWhole`), from `L16TypeOfFormat`, under
  `CodecTypesAreNotL16`: the application sets no L16 payload type itself. `RtpSender.h`
  asks that of it and the code does not enforce it; the run has it in its cfg
  (`CodecTypes = {0}`), where the theorem states it as a hypothesis.
* `ArmedMarkerGoesOutOnce` (`MarkerGoesOutOnce`): of the packets of one call the first that
  goes out, a least element of a set of numbers, takes the marker if it is armed, and the
  call disarms it; a call that sends unarmed marks none (`src/SPEC.md:206`).

**RTP link** (`RtpLinkProofs`), for every queue size that is a multiple of 4, under the assumptions
`RtpLink` adds: one channel count, mono or stereo (`ChannelsAssumption`; the receiver reads its
whole queue with the last count heard, finding 2 of section 6), codec types other
than 10 and 11 (`TypesAssumption`), a sequence number of at most 16 bits (`WidthAssumption`):

* `GapsAreVisible` (`GapsShowLosses`). `CountInv` says of any two packets of one numbering that their
  sequence numbers differ by one more than the packets between them, which is a
  cardinality: `EmitKeepsCount` counts the packets of a call that go out (`AsManyPackets`). `LatestInv`
  ties the receiver's `lastSeq_` to the last packet, through `HeaderComesBack`: parsing the bytes of
  a header gives the header.
* `LinkIsALossyChannel` (`LinkSpec => ChannelSpec`), as for VBAN. `OrderInv` says that later packets carry
  later frames, also where `writeEncoded()` overwrote some; `WireInv` that on a link the frames
  of an L16 packet are all intact, since `writeEncoded()` is called for codec types only. Here the
  ring holds the frames' bytes in host order (`Hosted`), so `HostOrderOfFrames` shows the
  receiver's swap to turn the sent bytes into those, and `FramesOfHosted` that a listener
  gets the frames back from them.

**RTP receiver** (`RtpReceiverProofs`), for every set of datagrams, formats, dynamic types and
buffers:

* `HoldIsReadOnce` (`CodecReadOnce`), from `HoldInv`: the hold and what was read come from
  datagrams already taken, so a packet that fills the hold is younger than all read.
* `ReceiverIsTypeCorrect`, `SessionsNeverMix` (`OnlyFreshAudio`), from `MemoryInv`, as in
  `VbanReceiver`.
* `SamplesStayInOrder`, `FramesStayWhole` (`SamplesInOrder`, `FramesWhole`), from `LayoutInv`. The first
  needs a ring of an even capacity, the second one of whole frames, as the properties
  say: an overrun drops bytes until the new ones fit, so it is the capacity that decides
  where the oldest byte left begins.

**Wire formats** (`WireFormatsProofs`), for every set of headers, names, payloads, CSRC counts,
extensions, cuts and changes, and all 32 bits of the counters:

* `OneReaderAtMost`, `ParsedFieldsAreInRange`, `CutHeadersAreRefused`, `EncodedReadsBack`: the four
  properties of `wire_formats`. The first needs no state at all: it is proved of every
  sequence. The others follow from `DatagramInv`, which says that an undamaged datagram is a
  head an encoder writes followed by the payload; `Agrees` says what a parser still
  finds of a head when the end is missing, and every parsed field is shown to depend on
  that alone. `Halves` and `Digits` are shifts
  and masks, `NameSurvives` the padding and cutting of names. The assumptions (`HeaderAssumption`, `DatagramAssumption`) give the C++ types of
  the fields.

**Raw link** (`RawLinkProofs`), for every set of peers and buffers, default capacity, write and
read sizes, foreign datagrams and bounds:

* `SinkIsTypeCorrect`, `BytesFitTheBuffer`, `PeersAreKeptApart`, `BytesAreAccountedFor`:
  the invariants of the sink. Their conjunction `SinkInv` is inductive: that a flushed
  datagram goes to its bytes' peer needs the peer of the pending bytes; that no byte
  goes out twice needs every number to be in one place. `SinkAssumption` only types the
  buffers: a null pointer or the caller's memory, each with any capacity, 0 included.
  `BytesFitTheBuffer` therefore also says when an open sink has no room at all: the
  caller's own buffer has capacity 0 (`begin()` restores the default for a null pointer
  only), or `setPacketBuffer()` was called since `begin()`.
* `LinkIsALossyChannel`: `LinkSpec => ChannelSpec`, the refinement of `LossyFrameChannel` that
  `raw_udp` checks. `LinkInv` adds `WireInOrder` (bytes leave the sink in the order written,
  within a datagram and between two) and `StreamInOrder`: what was heard, and what the
  UDP object holds under the sink's address, are bytes the network has brought, and while it
  keeps the order those held come after those heard. A read cuts what is held
  (`ReadCuts`) or an arriving datagram (`ArrivalIsFresh`), a sink step only adds to the
  wire (`WireGrows`).

Only model-checked:

* `EveryByteSettled` and `NewestHeard`: liveness under fairness (and `ENABLED`, which weak fairness
  rests on) is out of the prover's reach.
* The violated properties of section 6.

## 5. What is not modelled

* The payload handed to a service callback, and the static `buf` it points into
  (`VbanReceiver.cpp:134`), shared by all receivers: a callback that polls another
  receiver overwrites what it was handed. `poll()` returns right after the callback,
  so what a callback calls on its own receiver is the calls that follow `PollService`.
* The padding bit of RTP, which is parsed and never used; the result of
  `udp_.write()`, which no class looks at; what an `UDP` core does with a payload it
  cannot hold.
* A prebuffer target larger than the ring, and `framesForMs()`: both are arithmetic in
  `size_t` for the application's own use.
* The random SSRC, sequence number and timestamp of `RtpSender::begin()` are any of a set.
* Sample values, IP addresses beyond their identity, logging; null pointers.
* `clockRate_` of `RtpSender`, which the class stores and never reads.
* The application's contracts that the code does not check are kept by the
  models: no `write()` into a null packet buffer that was given a capacity on an open sink
  (`RawUdpSink`; the code would copy through the null pointer), and `writeEncoded()` in
  `RtpLink` for codec types only (`src/SPEC.md:164`; `RtpSender` itself is checked without it).
* Examples, tests, release tooling: not part of the library's behaviour.

## 6. Where code and documentation disagree

1. `VbanSender::flush()` compares `error_` before and after (`VbanSender.cpp:125-127`):
   after one failed packet, which leaves `SendFailed`, the next failed flush
   returns true. `VbanSender.h:61-62` says it returns false on UDP send failure.
   Run `vban_flush_answer`. (`RtpSender::flush()` has the same comparison.)
2. `RtpReceiver::poll()` says it locks the format "from wire on first L16 packet"
   (`RtpReceiver.cpp:154`), but every L16 packet sets the channel count
   (`RtpReceiver.cpp:169`): mono audio in the queue is read as stereo after one
   stereo packet. Run `rtp_receiver_lock`; `SamplesInOrder` and `FramesWhole` say what
   remains true.

Observations that no run is spent on:

* `VbanReceiver` locks the rate and the channel count, not the stream
  (`VbanReceiver.cpp:166-176`): opened without a name, it queues the frames of all streams
  of that layout one after the other, as `LockedFrameQueue` says and `vban_receiver` has
  it. `currentStreamName()` then names the last one heard.
* `RawUdpSink::begin()` opens with a caller's buffer of capacity 0 (`RawUdpSink.cpp:17-21`);
  every write then takes 0 bytes and `flush()` has nothing to send.
* `VbanReceiver::poll()` returns true for a Service packet (`VbanReceiver.cpp:136`)
  although no audio header has been seen; `VbanReceiver.h:85-86` calls the header
  summary valid once `poll()` has returned true. `VbanReceiver.h:18` announces a
  Service responder that `src/SPEC.md:55` excludes.
* `RtpSender` does not number a packet the stack refused but drops its frames
  (`RtpSender.cpp:196-202`), so its neighbours on the wire look adjacent;
  `src/SPEC.md:45` wants gaps observable. `GapsShowLosses` therefore speaks of what the
  network lost; `VbanSender` counts the failed packet (`GapVisible`).
* `writeEncoded()` is accepted under PT 10 / 11 and overwrites pending L16 frames
  (`RtpSender.cpp:212-230`, `src/SPEC.md:164`), which the model shows as
  `Overwritten` slots. `RtpSender::setFormat` puts three and more channels under
  PT 11, "L16 mono" (`RtpSender.cpp:102-105`, `src/SPEC.md:157`).
* `VbanProtocol.h:42-43` gives the sub-codec the "low 5 bits of header byte 7"; encoder
  and parser use the whole byte, as `VbanWire` does.
* `emitPacket()` ignores the result of `encodeAudioHeader()` (`VbanSender.cpp:142`),
  which `HeaderDescribesPayload` shows to be harmless for formats `setFormat()` accepts.
* `examples/RtpVoipG711` never calls `begin()` on its receiver, so its `poll()` returns
  false for ever; `examples/EspToEspRaw` polls one datagram per loop while its own
  broadcasts arrive on the port it listens to.

## 7. Plan

Done: every component and link modelled and checked; every state invariant, every
refinement and the action properties proved. Left, in this order:

1. A receiver on an RTP link whose sender changes the channel count: what a listener
   hears then is no frame of either count (finding 2 of section 6), so the abstract channel
   would have to speak of samples.
2. The static datagram buffer as shared state of two receivers, with a service
   callback that polls the other one.
