------------------------------ MODULE VbanLink ------------------------------
(***************************************************************************)
(* A VbanSender and a VbanReceiver with a UDP network between them, which  *)
(* may lose, duplicate or reorder datagrams, and a listener that reads the *)
(* receiver.  Either end may be opened again at any time.  The sender's    *)
(* state and calls are those of VbanSender, which this module extends.     *)
(***************************************************************************)
EXTENDS VbanSender

CONSTANTS AnyName, Silence, QueueBytes, MaxTake, MaxArrivals,
          Filters,     \* the stream names a receiver may be opened for
          Losing,      \* the network may lose datagrams
          Duplicating, \* it may deliver one more than once
          Reordering,  \* a later datagram may overtake an earlier one
          Reopening    \* begin() may be called again, the format may change

ASSUME QueueAssumption == QueueBytes \in Nat \ {0} /\ QueueBytes % 4 = 0
ASSUME ReadAssumption == MaxTake \in Nat
ASSUME NetworkAssumption == {Losing, Duplicating, Reordering, Reopening} \subseteq BOOLEAN

VARIABLES
  filter, rReady, rError, rFormat, currentStream, lastFrameCounter, ring,
  taken, rOpened, out,
  arrived, \* numbers of the datagrams the receiver's socket has delivered
  orderly, \* it has delivered each at most once and none late
  heard    \* numbers of the frames read while the network was orderly

R == INSTANCE VbanReceiver WITH
       Arrivals <- {}, ready <- rReady, error <- rError, format <- rFormat,
       opened <- rOpened

receiverVars == <<filter, rReady, rError, rFormat, currentStream, lastFrameCounter, ring,
                  taken, rOpened, out>>

netVars == <<arrived, orderly>>

linkVars == <<vars, receiverVars, netVars, heard>>

-----------------------------------------------------------------------------
\* The datagram as the receiver parses it: the payload is the bytes of the
\* frames, interleaved channels of two bytes each.
Arrival(d) ==
  LET bpf == 2 * d.channels
  IN  [runt |-> FALSE, signature |-> TRUE, sub |-> "audio", name |-> d.name,
       rate |-> d.rate, channels |-> d.channels, codec |-> "PCM16",
       samples |-> d.samples, counter |-> d.counter,
       payload |-> [i \in 1 .. bpf * Len(d.frames) |->
                      [frame |-> d.frames[(i - 1) \div bpf + 1],
                       at |-> ((i - 1) % bpf) + 1]]]

\* Which datagrams the network may hand over next.
MayArrive(d) ==
  /\ Duplicating \/ d.number \notin arrived
  /\ Reordering \/ \A n \in arrived : n <= d.number
  /\ Losing \/ \A e \in wire : e.number < d.number => e.number \in arrived

LinkInit == Init /\ R!Init /\ arrived = {} /\ orderly = TRUE /\ heard = <<>>

SenderStep(A) == A /\ UNCHANGED <<receiverVars, netVars, heard>>
ReceiverStep(A) == A /\ UNCHANGED <<vars, netVars>>

OpenSender(name) == (Reopening \/ ~ ready) /\ SenderStep(Begin(1, name))
ChangeFormat(f) == (Reopening \/ format = NoFormat) /\ SenderStep(SetFormat(f))
WriteSender(n) == SenderStep(WriteFrames(n))
FlushSender == \E ok \in BOOLEAN : SenderStep(Flush(ok))

OpenReceiver(name) ==
  (Reopening \/ ~ rReady) /\ ReceiverStep(R!Begin(name)) /\ UNCHANGED heard
CloseReceiver == Reopening /\ ReceiverStep(R!End) /\ UNCHANGED heard

Poll == \E d \in wire :
  /\ MayArrive(d)
  /\ R!Poll(Arrival(d))
  /\ arrived' = arrived \cup {d.number}
  /\ orderly' = (orderly /\ \A n \in arrived : n < d.number)
  /\ UNCHANGED <<vars, heard>>

\* A datagram that comes while no socket is bound.
Unheard == \E d \in wire :
  /\ ~ rReady /\ MayArrive(d) /\ d.number \notin arrived
  /\ arrived' = arrived \cup {d.number}
  /\ UNCHANGED <<vars, receiverVars, orderly, heard>>

Read(n) ==
  /\ ReceiverStep(R!ReadFrames(n))
  /\ heard' = IF orderly
              THEN heard \o [i \in 1 .. Len(out') |-> out'[i][1].frame.id]
              ELSE heard

LinkNext ==
  \/ \E name \in Names : OpenSender(name)
  \/ \E f \in Formats : ChangeFormat(f)
  \/ \E n \in WriteSizes : WriteSender(n)
  \/ FlushSender
  \/ \E name \in Filters : OpenReceiver(name)
  \/ CloseReceiver
  \/ Poll
  \/ Unheard
  \/ \E n \in 1 .. MaxTake : Read(n)

LinkSpec == LinkInit /\ [][LinkNext]_linkVars

\* The application flushes what it has written, as the test sketches do after every
\* write (VbanMicToPc never does); the receiver's owner keeps calling poll() and the
\* listener keeps reading, as loop() does in every receiving sketch.
Reading == \E n \in 1 .. MaxTake : Read(n)

LinkFairSpec ==
  LinkSpec /\ WF_linkVars(FlushSender) /\ WF_linkVars(Poll) /\ WF_linkVars(Reading)

-----------------------------------------------------------------------------
\* What the sender, the network and the receiver do together is a lossy frame
\* channel: while the network keeps the order no frame is heard that was not
\* written, none twice and none early, whatever was lost, dropped by the ring,
\* opened again or switched to another format on the way.
Channel == INSTANCE LossyFrameChannel

ChannelSpec == Channel!Spec

\* No torn and no misread frame: what the receiver holds for the listener is,
\* frame by frame, the bytes of one written frame from first to last, under the
\* rate and the channel count it was written with, even on a network that
\* reorders and duplicates and with a sender that changes its format.
QueuedAsWritten ==
  LET k == 2 * rFormat.channels
      f == R!Frames(R!Queued, k)
  IN  rReady /\ rFormat # R!Unlocked =>
        /\ ring.count % k = 0
        /\ \A i \in 1 .. Len(f) :
             /\ \A j \in 1 .. k : f[i][j] = [frame |-> f[i][1].frame, at |-> j]
             /\ f[i][1].frame.format.rate = rFormat.rate
             /\ f[i][1].frame.format.channels = rFormat.channels

\* A frame on its way: in the sender's scratch buffer or on the wire.
OnItsWay(i) ==
  \/ i \in Ids(pending)
  \/ \E d \in wire : i \in Ids(d.frames) /\ d.number \notin arrived

\* No frame waits for ever, in the scratch buffer, the network or the queue: one
\* on its way while the receiver is open is refused by the stack, or it is heard
\* or a later one is, on a network that loses nothing and with ends that stay
\* open.  Audio never stops short of the newest frame sent.
NewestHeard ==
  \A i \in 1 .. MaxWritten :
    (rReady /\ OnItsWay(i)) ~> (i \in lost \/ \E j \in 1 .. Len(heard) : heard[j] >= i)
=============================================================================
