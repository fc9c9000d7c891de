-------------------------- MODULE DropOldestQueue --------------------------
(***************************************************************************)
(* What a receiver's queue promises: a bounded FIFO that, when more arrives *)
(* than it holds, loses its oldest bytes and never a newer one ("Real-time *)
(* audio prefers lose old samples over grow latency").                     *)
(***************************************************************************)
EXTENDS Integers, Sequences

CONSTANTS Cap,     \* bytes the queue holds
          Chunks,  \* the byte sequences that may arrive
          MaxTake  \* the most bytes one read asks for

VARIABLES content, \* the bytes queued, oldest first
          in,      \* the bytes that arrived in the last step
          out      \* the bytes read in the last step

qvars == <<content, in, out>>

LastN(s, n) == IF Len(s) <= n THEN s ELSE SubSeq(s, Len(s) - n + 1, Len(s))

Init == content = <<>> /\ in = <<>> /\ out = <<>>

Enqueue(s) == content' = LastN(content \o s, Cap) /\ in' = s /\ out' = <<>>

Dequeue(n) ==
  LET k == IF n < Len(content) THEN n ELSE Len(content)
  IN  /\ out' = SubSeq(content, 1, k)
      /\ content' = SubSeq(content, k + 1, Len(content))
      /\ in' = <<>>

Clear == content' = <<>> /\ in' = <<>> /\ out' = <<>>

Next == \/ \E s \in Chunks : Enqueue(s)
        \/ \E n \in 0 .. MaxTake : Dequeue(n)
        \/ Clear

Spec == Init /\ [][Next]_qvars
=============================================================================
