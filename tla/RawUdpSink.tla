----------------------------- MODULE RawUdpSink -----------------------------
(***************************************************************************)
(* RawUdpSink: write() gathers bytes in a packet buffer, flush() sends     *)
(* them as one datagram.  A write() that does not fit is cut, and the      *)
(* caller goes on at the count it returned.                                *)
(*                                                                         *)
(* Bytes are numbered as write() accepts them and remember the peer the    *)
(* sink was open for.  The application may give the sink any pointer with  *)
(* any capacity at any time; it does not write() to an open sink that has  *)
(* a null pointer with a capacity, which the code copies through.  Calls   *)
(* are atomic; a write() of nothing and a flush() with nothing pending     *)
(* change nothing.                                                         *)
(***************************************************************************)
EXTENDS Integers, Sequences

CONSTANTS Peers,           \* destinations
          Buffers,         \* what setPacketBuffer() may be given: [at, cap]
          DefaultCapacity, \* kDefaultCapacity, 1500
          WriteSizes,      \* byte counts of one write()
          MaxGiven         \* bound: bytes accepted in a behaviour

NoPeer == "none"
NullBuffer == [at |-> "null", cap |-> 0]
DefaultBuffer == [at |-> "default", cap |-> DefaultCapacity]

ASSUME SinkAssumption ==
  /\ DefaultCapacity \in Nat \ {0} /\ MaxGiven \in Nat
  /\ WriteSizes \subseteq Nat \ {0}
  /\ Buffers \subseteq [at : {"null", "callers"}, cap : Nat]
  /\ NoPeer \notin Peers

VARIABLES
  ready, error,
  dest,     \* dest_
  buffer,   \* buf_, cap_
  pending,  \* buf_[0 .. used_ - 1]
  swapped,  \* history: setPacketBuffer() was called since begin()
  wire,     \* the datagrams the UDP stack has taken, in order
  given,    \* history: bytes accepted
  lost,     \* history: numbers of the bytes a failed flush() threw away
  dropped   \* history: numbers of the bytes another call threw away

vars == <<ready, error, dest, buffer, pending, swapped, wire, given, lost, dropped>>

-----------------------------------------------------------------------------
Numbers(bytes) == {bytes[i].number : i \in 1 .. Len(bytes)}

Least(m, n) == IF m < n THEN m ELSE n

\* The buffer begin() works with.  Faulty variant: cap_ is not set.
UnsizedBuffer == IF buffer.at = "null" THEN [DefaultBuffer EXCEPT !.cap = 0] ELSE buffer

BufferAtBegin == IF buffer.at = "null" THEN DefaultBuffer ELSE buffer

\* How many bytes of one write() are taken.  Faulty variant: used_ is forgotten.
FitsEmpty(count) == Least(count, buffer.cap)

Fits(count) == Least(count, buffer.cap - Len(pending))

\* The bytes write() takes are the first of those it was offered.
Taken(n) == [i \in 1 .. n |-> [number |-> given + i, to |-> dest]]

Init ==
  /\ ready = FALSE /\ error = "NotReady" /\ dest = NoPeer
  /\ buffer = NullBuffer /\ pending = <<>> /\ swapped = FALSE
  /\ wire = <<>> /\ given = 0 /\ lost = {} /\ dropped = {}

\* used_ = 0 with bytes that were not sent.  Faulty variant: they stay.
KeepPending == UNCHANGED <<pending, dropped>>

DropPending == pending' = <<>> /\ dropped' = dropped \cup Numbers(pending)

Begin(peer, port) ==
  /\ dest' = peer
  /\ buffer' = BufferAtBegin
  /\ DropPending
  /\ ready' = (port # 0)
  /\ error' = IF port # 0 THEN "None" ELSE "NotReady"
  /\ swapped' = FALSE
  /\ UNCHANGED <<wire, given, lost>>

End ==
  /\ DropPending
  /\ ready' = FALSE /\ error' = "NotReady"
  /\ UNCHANGED <<dest, buffer, swapped, wire, given, lost>>

SetPacketBuffer(b) ==
  /\ buffer' = b
  /\ DropPending
  /\ swapped' = TRUE
  /\ UNCHANGED <<ready, error, dest, wire, given, lost>>

Refused ==
  /\ ~ ready
  /\ error' = "NotReady"
  /\ UNCHANGED <<ready, dest, buffer, pending, swapped, wire, given, lost, dropped>>

Write(count) ==
  /\ ready
  /\ buffer.at = "null" => buffer.cap = 0
  /\ given + Fits(count) <= MaxGiven
  /\ pending' = pending \o Taken(Fits(count))
  /\ given' = given + Fits(count)
  /\ error' = IF Fits(count) < count THEN "BufferOverflow" ELSE error
  /\ UNCHANGED <<ready, dest, buffer, swapped, wire, lost, dropped>>

\* What flush() leaves in the buffer, sent or not.  Faulty variant: all of it.
StillPending == pending

AfterFlush == <<>>

\* flush() with bytes pending: the UDP stack sends them, or refuses the packet
\* when it is begun or when it is ended.
Flush(ok) ==
  /\ ready /\ pending # <<>>
  /\ wire' = IF ok THEN Append(wire, [to |-> dest, bytes |-> pending]) ELSE wire
  /\ lost' = IF ok THEN lost ELSE lost \cup Numbers(pending)
  /\ error' = IF ok THEN error ELSE "SendFailed"
  /\ pending' = AfterFlush
  /\ UNCHANGED <<ready, dest, buffer, swapped, given, dropped>>

Next ==
  \/ \E peer \in Peers, port \in {0, 1} : Begin(peer, port)
  \/ End
  \/ \E b \in Buffers : SetPacketBuffer(b)
  \/ Refused
  \/ \E count \in WriteSizes : Write(count)
  \/ \E ok \in BOOLEAN : Flush(ok)

Spec == Init /\ [][Next]_vars

-----------------------------------------------------------------------------
Byte == [number : 1 .. MaxGiven, to : Peers]

TypeOK ==
  /\ ready \in BOOLEAN /\ swapped \in BOOLEAN
  /\ error \in {"None", "NotReady", "SendFailed", "BufferOverflow"}
  /\ dest \in Peers \cup {NoPeer} /\ (ready => dest \in Peers)
  /\ buffer \in Buffers \cup {NullBuffer, DefaultBuffer}
  /\ pending \in Seq(Byte)
  /\ wire \in Seq([to : Peers, bytes : Seq(Byte)])
  /\ given \in 0 .. MaxGiven
  /\ lost \subseteq 1 .. MaxGiven /\ dropped \subseteq 1 .. MaxGiven

\* The bytes gathered so far fit the buffer the sink has now, also when the
\* application changes it in the middle of a packet, and none is gathered behind
\* a null pointer.  begin() leaves an open sink with memory behind it and room for
\* a byte, unless the application's own buffer has none: only that, or
\* setPacketBuffer() since begin(), can take the room away.
BufferHoldsPending ==
  /\ Len(pending) <= buffer.cap
  /\ buffer.at = "null" => pending = <<>>
  /\ ready /\ ~ swapped =>
       buffer.at # "null" /\ (buffer.cap = 0 => buffer.at = "callers")

\* A byte written while the sink was open for one peer never goes to another,
\* whatever begin(), end(), failed and cut calls came between write() and
\* flush().
BytesGoToTheirPeer ==
  /\ \A i \in 1 .. Len(wire) : \A j \in 1 .. Len(wire[i].bytes) :
       wire[i].bytes[j].to = wire[i].to
  /\ \A i \in 1 .. Len(pending) : pending[i].to = dest

Sent == UNION {Numbers(wire[i].bytes) : i \in 1 .. Len(wire)}

\* Every byte write() accepted is in exactly one place: in one datagram, thrown
\* away by a failed flush(), discarded by another call, or pending.
EveryByteOnce ==
  /\ 1 .. given = Sent \cup lost \cup dropped \cup Numbers(pending)
  /\ Sent \cap (lost \cup dropped \cup Numbers(pending)) = {}
  /\ lost \cap (dropped \cup Numbers(pending)) = {}
  /\ dropped \cap Numbers(pending) = {}
  /\ \A i, j \in 1 .. Len(wire) :
       i # j => Numbers(wire[i].bytes) \cap Numbers(wire[j].bytes) = {}
=============================================================================
