---------------------------- MODULE MCRtpSender ----------------------------
(***************************************************************************)
(* RtpSender with three packets and two counters that wrap at 3, so that a *)
(* packet may fail between two that go out over a wrap.  One clock is so   *)
(* slow that 20 ms hold no frame, of the other 20 ms do not fit the        *)
(* payload; one format has a depth the sender refuses.                     *)
(***************************************************************************)
EXTENDS RtpSender

Slow == [rate |-> 40, channels |-> 1, bits |-> 16]

Stereo == [rate |-> 200, channels |-> 2, bits |-> 16]

MCFormats == {Slow, Stereo, [Stereo EXCEPT !.bits = 24]}

\* All variables but error: no guard reads it and no other variable depends on
\* it, so states that differ in it alone have the same future.
MCView == <<config, numbering, pending, history>>
=============================================================================
