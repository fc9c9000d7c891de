----------------------------- MODULE MCRawLink -----------------------------
(***************************************************************************)
(* The raw link with a default buffer of three bytes, callers' buffers of  *)
(* two and of none, and a null pointer with a capacity.  A write of three  *)
(* bytes fits the default buffer alone.                                    *)
(***************************************************************************)
EXTENDS RawLink

MCBuffers ==
  {[at |-> "null", cap |-> 2], [at |-> "callers", cap |-> 2], [at |-> "callers", cap |-> 0]}
=============================================================================
