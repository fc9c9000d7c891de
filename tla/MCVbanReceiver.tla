--------------------------- MODULE MCVbanReceiver ---------------------------
(***************************************************************************)
(* VbanReceiver with a ring of 8 bytes.  The arrivals: mono and stereo of  *)
(* two streams, both of which also send mono of one rate, so that without  *)
(* a name they share the queue; payloads shorter and longer than the       *)
(* header says, odd, larger than the ring leaves room for; and one         *)
(* datagram of each kind poll() turns away.                                *)
(***************************************************************************)
EXTENDS VbanReceiver

Audio(name, rate, channels, samples, bytes, counter) ==
  [runt |-> FALSE, signature |-> TRUE, sub |-> "audio", name |-> name, rate |-> rate,
   channels |-> channels, codec |-> "PCM16", samples |-> samples, counter |-> counter,
   payload |-> bytes]

MCArrivals ==
  {Audio("a", 48000, 1, 3, 6, 1),
   Audio("a", 48000, 1, 2, 5, 2),
   Audio("b", 48000, 2, 2, 7, 3),
   Audio("b", 48000, 2, 1, 4, 4),
   Audio("b", 48000, 1, 2, 4, 10),
   Audio("a", 44100, 1, 5, 9, 5),
   Audio("a", 48000, 3, 1, 6, 6),
   [Audio("a", 48000, 1, 1, 2, 7) EXCEPT !.codec = "PCM24"],
   [Audio("a", 48000, 1, 1, 2, 8) EXCEPT !.sub = "service"],
   [Audio("a", 48000, 1, 1, 2, 9) EXCEPT !.signature = FALSE]}
=============================================================================
