----------------------------- MODULE RingQueue -----------------------------
(***************************************************************************)
(* A receiver's queue as the code drives it: ringPush with what a datagram *)
(* carried, ringPop for a reader, and the clearing in begin() and end().   *)
(***************************************************************************)
EXTENDS PcmRing

CONSTANTS Cap,     \* capacity in bytes (kQueueBytes, or the caller's buffer)
          Byte,    \* byte values
          Zero,    \* the value the array starts with
          Chunks,  \* payloads that may be pushed
          MaxTake  \* the most bytes one pop asks for

ASSUME CapAssumption == Cap \in Nat \ {0}
ASSUME ByteAssumption == Zero \in Byte /\ Chunks \subseteq Seq(Byte)
ASSUME TakeAssumption == MaxTake \in Nat

VARIABLES ring,
          in,   \* history: what the last call pushed
          out   \* history: what the last call popped

vars == <<ring, in, out>>

TypeOK == ring \in Rings(Cap, Byte) /\ in \in Seq(Byte) /\ out \in Seq(Byte)

Init == ring = EmptyRing(Cap, Zero) /\ in = <<>> /\ out = <<>>

Push(s) == ring' = RingPush(Cap, ring, s) /\ in' = s /\ out' = <<>>

Pop(n) == /\ out' = RingPopBytes(Cap, ring, n)
          /\ ring' = RingPop(Cap, ring, n)
          /\ in' = <<>>

Clear == ring' = Emptied(ring) /\ in' = <<>> /\ out' = <<>>

Next == \/ \E s \in Chunks : Push(s)
        \/ \E n \in 0 .. MaxTake : Pop(n)
        \/ Clear

Spec == Init /\ [][Next]_vars

-----------------------------------------------------------------------------
(* The write cursor and the read cursor agree: tail, which the code keeps  *)
(* in a variable of its own, is always head + count modulo the capacity,   *)
(* after any sequence of wrapping pushes, overruns, partial pops and       *)
(* clears.                                                                 *)
CursorsAgree == WellFormed(Cap, ring)

(* ringPush and ringPop together are a FIFO that loses only its oldest     *)
(* bytes: wrapping, dropping and overrunning never lose, repeat or reorder *)
(* a byte that should still be there.                                      *)
Queue == INSTANCE DropOldestQueue WITH content <- Content(Cap, ring)

QueueSpec == Queue!Spec
=============================================================================
