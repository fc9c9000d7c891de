CONSTANTS
  Formats <- MCFormats
  CodecTypes = {0}
  Starts = {2}
  Ssrcs = {1}
  Increments = {}
  EncodedSizes = {3}
  WriteSizes = {1, 3}
  MaxPayload = 8
  SeqMod = 3
  TsMod = 5
  MaxWritten = 4
  MaxPackets = 3
  MaxEncoded = 3
  MaxRestamps = 1
  Silence = Silence
  QueueBytes = 8
  ReadSizes = {1}
  MaxTake = 2
  MaxArrivals = 3
SPECIFICATION LinkSpec
PROPERTIES
  ChannelSpec
  GapsShowLosses
CHECK_DEADLOCK FALSE
