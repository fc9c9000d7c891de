--------------------------- MODULE MCRtpReceiver ---------------------------
(***************************************************************************)
(* RtpReceiver with a ring of 8 bytes and caller's buffers of 6 and 5.     *)
(* The arrivals: mono and stereo L16 of two sources with payloads that     *)
(* overflow the ring or end inside a frame, codec packets, one of them     *)
(* empty and one of the dynamic type, and datagrams that do not parse.     *)
(***************************************************************************)
EXTENDS RtpReceiver

Packet(pt, seq, ssrc, bytes) ==
  [parse |-> "Ok", pt |-> pt, seq |-> seq, ssrc |-> ssrc, payload |-> bytes]

MCArrivals ==
  {Packet(11, 1, 1, 6), Packet(11, 2, 1, 3), Packet(10, 1, 2, 7), Packet(10, 2, 2, 4),
   Packet(0, 3, 1, 2), Packet(0, 4, 1, 0), Packet(96, 5, 1, 4),
   [Packet(11, 6, 1, 0) EXCEPT !.parse = "runt"],
   [Packet(11, 7, 1, 0) EXCEPT !.parse = "BadVersion"]}

MCFormats ==
  {[rate |-> 16000, channels |-> 2, bits |-> 16],
   [rate |-> 16000, channels |-> 1, bits |-> 24]}

MCDynamics == {[pt |-> 96, channels |-> 1], [pt |-> 128, channels |-> 1]}

MCNoFormats == {}
=============================================================================
