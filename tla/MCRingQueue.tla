---------------------------- MODULE MCRingQueue ----------------------------
(***************************************************************************)
(* RingQueue with 4 slots and two sample values: payloads of every length  *)
(* up to one more than the ring, so that pushes wrap, drop and overrun.    *)
(***************************************************************************)
EXTENDS RingQueue

MCByte == {0, 1, 2}
MCChunks == UNION {[1 .. n -> {1, 2}] : n \in 0 .. 5}
=============================================================================
