------------------------- MODULE LossyFrameChannel -------------------------
(***************************************************************************)
(* What a stream over UDP promises from end to end while the network keeps *)
(* the order.  Frames (bytes, on the raw path) are numbered as they are    *)
(* written.  A listener hears what was written, each at most once and in   *)
(* the order written; any may be lost.                                     *)
(***************************************************************************)
EXTENDS Integers, Sequences

CONSTANT MaxWritten  \* bound: frames written

VARIABLES written, heard

cvars == <<written, heard>>

Init == written = 0 /\ heard = <<>>

Write == \E n \in 1 .. MaxWritten : written' = written + n /\ heard' = heard

Increasing(s) == \A i \in 1 .. Len(s) - 1 : s[i] < s[i + 1]

Hear ==
  /\ Len(heard') > Len(heard)
  /\ SubSeq(heard', 1, Len(heard)) = heard
  /\ \A i \in 1 .. Len(heard') : heard'[i] \in 1 .. written
  /\ Increasing(heard')
  /\ written' = written

Spec == Init /\ [][Write \/ Hear]_cvars
=============================================================================
