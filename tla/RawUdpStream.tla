---------------------------- MODULE RawUdpStream ----------------------------
(***************************************************************************)
(* RawUdpStream: the datagram the UDP object holds is read piece by piece; *)
(* poll(), and a read() that finds the datagram used up, take the next one *)
(* and note its sender.  A datagram is [from, bytes], never empty: a       *)
(* parsePacket() of no bytes is no packet.  Calls are atomic; a poll() or  *)
(* read() that gets nothing from the UDP object changes nothing, and the   *)
(* object may refuse to move on as long as it holds bytes.                 *)
(***************************************************************************)
EXTENDS Integers, Sequences

CONSTANTS NoPeer,  \* remoteIP() before the first datagram
          MaxTake  \* bound: bytes one read() asks for

VARIABLES
  ready, error,
  remote,  \* remoteIp_, remotePort_
  held     \* what is left of the datagram in the UDP object

vars == <<ready, error, remote, held>>

-----------------------------------------------------------------------------
Init ==
  ready = FALSE /\ error = "NotReady" /\ remote = NoPeer /\ held = <<>>

\* Binding and stopping empty the UDP object; the sender noted last stays.
Begin ==
  /\ ready' = TRUE /\ error' = "None" /\ held' = <<>>
  /\ UNCHANGED remote

BeginFails ==
  /\ ready' = FALSE /\ error' = "BindFailed" /\ held' = <<>>
  /\ UNCHANGED remote

End ==
  /\ ready' = FALSE /\ error' = "NotReady" /\ held' = <<>>
  /\ UNCHANGED remote

\* poll() moves on to d, and what was left of the datagram before is gone.
Poll(d) ==
  /\ ready
  /\ held' = d.bytes /\ remote' = d.from
  /\ UNCHANGED <<ready, error>>

\* What a read of n bytes leaves.  Faulty variant: the datagram is used up.
NothingAfter(bytes, n) == <<>>

RestAfter(bytes, n) == SubSeq(bytes, n + 1, Len(bytes))

\* What it returns: as many of the bytes as it asks for and the UDP object has.
Returned(bytes, n) == SubSeq(bytes, 1, IF n < Len(bytes) THEN n ELSE Len(bytes))

ReadHeld(n) ==
  /\ ready /\ held # <<>>
  /\ held' = RestAfter(held, n)
  /\ UNCHANGED <<ready, error, remote>>

\* The sender a read() that takes d notes: it does so through poll().
\* Faulty variant: it calls parsePacket() itself.
SameRemote(d) == remote

RemoteOf(d) == d.from

\* read() of a datagram used up polls once.
ReadNext(d, n) ==
  /\ ready /\ held = <<>>
  /\ held' = RestAfter(d.bytes, n) /\ remote' = RemoteOf(d)
  /\ UNCHANGED <<ready, error>>
=============================================================================
