------------------------------- MODULE RawLink -------------------------------
(***************************************************************************)
(* A RawUdpSink, a UDP network that loses, duplicates and reorders, and a  *)
(* RawUdpStream on a port where datagrams of others arrive too (the boards *)
(* of EspToEspRaw broadcast and hear themselves).  The listener keeps what *)
(* it reads when remoteIP() then names the sink's board.  The sink's state *)
(* and calls are those of RawUdpSink, which this module extends.           *)
(***************************************************************************)
EXTENDS RawUdpSink

CONSTANTS MaxTake,     \* bound: bytes one read() asks for
          Here,        \* the peer the stream's board is
          ForeignSize, \* bytes in a datagram of another sender
          MaxArrivals  \* bound: datagrams the socket delivers

Sender == "sink"
Foreign == [from |-> "other", bytes |-> [i \in 1 .. ForeignSize |-> [number |-> 0, to |-> Here]]]

ASSUME LinkAssumption == Here \in Peers /\ ForeignSize \in Nat \ {0} /\ MaxArrivals \in Nat

VARIABLES
  rReady, rError, remote, held,
  taken,    \* datagrams the stream's socket has delivered
  gone,     \* indices in wire of the datagrams delivered or lost on the way
  orderly,  \* the network has delivered each at most once and none late
  heard,    \* numbers of the bytes the listener kept while the network was orderly
  settled   \* numbers of the bytes heard, lost on the way, or left unread

R == INSTANCE RawUdpStream WITH ready <- rReady, error <- rError

streamVars == <<rReady, rError, remote, held>>
netVars == <<taken, gone, orderly>>
linkVars == <<vars, streamVars, netVars, heard, settled>>

-----------------------------------------------------------------------------
LinkInit ==
  /\ Init /\ R!Init
  /\ taken = 0 /\ gone = {} /\ orderly = TRUE /\ heard = <<>> /\ settled = {}

SinkStep(A) == A /\ UNCHANGED <<streamVars, netVars, heard, settled>>

OpenSink(peer, port) == SinkStep(Begin(peer, port))
CloseSink == SinkStep(End)
ChangeBuffer(b) == SinkStep(SetPacketBuffer(b))
RefusedBySink == SinkStep(Refused)
WriteSink(count) == SinkStep(Write(count))
FlushSink == \E ok \in BOOLEAN : SinkStep(Flush(ok))

\* What the UDP object still held is never read.
StreamStep(A) ==
  /\ A
  /\ settled' = settled \cup Numbers(held)
  /\ UNCHANGED <<vars, netVars, heard>>

OpenStream == StreamStep(R!Begin)
OpenStreamFails == StreamStep(R!BeginFails)
CloseStream == StreamStep(R!End)

\* Datagram i of the wire, a copy of it or a foreign one (0) reaches the socket.
InFlight == {0} \cup {i \in 1 .. Len(wire) : wire[i].to = Here}

Arrival(i) == IF i = 0 THEN Foreign ELSE [from |-> Sender, bytes |-> wire[i].bytes]

Arrives(i) ==
  /\ taken < MaxArrivals /\ taken' = taken + 1
  /\ gone' = gone \cup ({i} \ {0})
  /\ orderly' = (orderly /\ (i = 0 \/ \A j \in gone : j < i))

\* The network loses a datagram, or brings it to a board that is not listening.
Lose(i) ==
  /\ i \in InFlight \ (gone \cup {0})
  /\ gone' = gone \cup {i}
  /\ settled' = settled \cup Numbers(wire[i].bytes)
  /\ UNCHANGED <<vars, streamVars, taken, orderly, heard>>

Poll ==
  /\ \E i \in InFlight : R!Poll(Arrival(i)) /\ Arrives(i)
  /\ settled' = settled \cup Numbers(held)
  /\ UNCHANGED <<vars, heard>>

\* The listener keeps what a read returned by the sender's address.
Keep(bytes) ==
  /\ heard' = IF orderly' /\ remote' = Sender
              THEN heard \o [i \in 1 .. Len(bytes) |-> bytes[i].number] ELSE heard
  /\ settled' = IF remote' = Sender THEN settled \cup Numbers(bytes) ELSE settled
  /\ UNCHANGED vars

ReadHeld(n) == R!ReadHeld(n) /\ UNCHANGED netVars /\ Keep(R!Returned(held, n))

ReadNext(n) == \E i \in InFlight :
  /\ R!ReadNext(Arrival(i), n)
  /\ Arrives(i)
  /\ Keep(R!Returned(Arrival(i).bytes, n))

LinkNext ==
  \/ \E peer \in Peers, port \in {0, 1} : OpenSink(peer, port)
  \/ CloseSink
  \/ \E b \in Buffers : ChangeBuffer(b)
  \/ RefusedBySink
  \/ \E count \in WriteSizes : WriteSink(count)
  \/ FlushSink
  \/ OpenStream
  \/ OpenStreamFails
  \/ CloseStream
  \/ \E i \in 1 .. Len(wire) : Lose(i)
  \/ Poll
  \/ \E n \in 1 .. MaxTake : ReadHeld(n)
  \/ \E n \in 1 .. MaxTake : ReadNext(n)

LinkSpec == LinkInit /\ [][LinkNext]_linkVars

\* The owner of the sink flushes what it wrote and the listener keeps reading,
\* as the sketches' loop() does; a datagram does not stay on the way for ever.
Reading == \E n \in 1 .. MaxTake : ReadHeld(n)

LinkFairSpec ==
  /\ LinkSpec
  /\ WF_linkVars(FlushSink) /\ WF_linkVars(Reading)
  /\ \A i \in 1 .. MaxGiven : WF_linkVars(Lose(i))

\* Bytes that were meant for another board and went there.
Elsewhere ==
  UNION {Numbers(wire[i].bytes) : i \in {j \in 1 .. Len(wire) : wire[j].to # Here}}

-----------------------------------------------------------------------------
\* What sink, network and stream do together is a lossy channel of bytes: as
\* long as the network keeps the order, a listener that goes by remoteIP()
\* hears only bytes write() accepted, each once and in the order written, and
\* no foreign byte, not even when a read() moves on to the next datagram by
\* itself or the sink was closed, given another buffer or cut short.
Channel == INSTANCE LossyFrameChannel WITH written <- given, MaxWritten <- MaxGiven

ChannelSpec == Channel!Spec

\* A byte write() accepted does not wait for ever, neither in the sink nor in
\* the UDP object of the stream: it is heard, or a failed flush(), another call,
\* the network or a poll() that moves on has thrown it away.
EveryByteSettled ==
  \A i \in 1 .. MaxGiven :
    i <= given ~> i \in lost \cup dropped \cup settled \cup Elsewhere
=============================================================================
