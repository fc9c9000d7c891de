--------------------------- MODULE MCWireFormats ---------------------------
(***************************************************************************)
(* Headers with the extremes of their fields.  TLC's integers have 32 bits *)
(* with a sign, so 32-bit fields stay below 2^31 and no change touches the *)
(* octet that would take them above.                                       *)
(***************************************************************************)
EXTENDS WireFormats

Full == [i \in 1 .. NameBytes |-> 64 + i]

Counters == {0, 258, 16909060, 2147483647}

MCAudio ==
  [sampleRateIndex : {0, 20}, numSamples : {1, 256}, numChannels : {1, 256},
   subCodec : {1, 255}, streamName : {<<>>, <<86>>, Full}, frameCounter : Counters]

MCService ==
  [serviceFunction : {0, 31}, serviceFlags : {128}, rawByte6 : {7}, rawByte7 : {9},
   streamName : {<<>>, Full}, frameCounter : Counters]

MCRtp ==
  [marker : BOOLEAN, payloadType : {0, 127}, sequenceNumber : {0, 258, 65535},
   timestamp : {1, 2147483647}, ssrc : {16909060}]

MCPayloads == {<<>>, <<86, 66, 65, 78>>}

MCChanges ==
  {[at |-> i, to |-> b] :
     i \in 1 .. 24, b \in {0, 32, 85, 96, 127}} \cup
  {[at |-> i, to |-> b] : i \in {1, 2, 4, 6, 7, 8, 10}, b \in {31, 53, 129, 144, 159, 255}}
  \cup {[at |-> 5, to |-> 31]}
=============================================================================
