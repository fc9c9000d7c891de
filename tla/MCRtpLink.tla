------------------------------ MODULE MCRtpLink ------------------------------
(***************************************************************************)
(* The RTP link with stereo packets of two frames and a queue of two       *)
(* frames, which a packet that follows a flushed one overflows.            *)
(***************************************************************************)
EXTENDS RtpLink

MCFormats == {[rate |-> 100, channels |-> 2, bits |-> 16]}
=============================================================================
