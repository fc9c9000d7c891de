---------------------------- MODULE MCVbanSender ----------------------------
(***************************************************************************)
(* VbanSender with an 8-byte payload and 3 samples per packet: a mono      *)
(* packet is bounded by the sample field, a stereo packet by the payload.  *)
(* One format has a rate VBAN lacks, one a depth the sender refuses.       *)
(***************************************************************************)
EXTENDS VbanSender

MCFormats ==
  {[rate |-> 48000, channels |-> 1, bits |-> 16],
   [rate |-> 48000, channels |-> 2, bits |-> 16],
   [rate |-> 47999, channels |-> 1, bits |-> 16],
   [rate |-> 48000, channels |-> 1, bits |-> 24]}
=============================================================================
