CONSTANTS
  Formats <- MCFormats
  CodecTypes = {0}
  Starts = {2}
  Ssrcs = {1}
  Increments = {2}
  EncodedSizes = {2}
  WriteSizes = {1, 3}
  MaxPayload = 8
  SeqMod = 3
  TsMod = 3
  MaxWritten = 3
  MaxPackets = 3
  MaxEncoded = 1
  MaxRestamps = 2
VIEW MCView
SPECIFICATION Spec
INVARIANTS
  TypeOK
  L16PacketsAreWhole
  EveryFrameOnce
  StampsFollow
PROPERTY MarkerGoesOutOnce
