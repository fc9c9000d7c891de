----------------------------- MODULE MCVbanLink -----------------------------
(***************************************************************************)
(* The link with a mono and a stereo format, packets of two samples or 8   *)
(* bytes and a ring of 8 bytes, which two packets overflow.                *)
(***************************************************************************)
EXTENDS VbanLink

MCFormats ==
  {[rate |-> 48000, channels |-> 1, bits |-> 16],
   [rate |-> 48000, channels |-> 2, bits |-> 16]}
=============================================================================
