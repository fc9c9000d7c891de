CONSTANTS
  Peers = {"a", "b"}
  Buffers <- MCBuffers
  DefaultCapacity = 3
  WriteSizes = {1, 3}
  MaxGiven = 3
  MaxTake = 2
  Here = "a"
  ForeignSize = 1
  MaxArrivals = 2
SPECIFICATION LinkFairSpec
INVARIANTS
  TypeOK
  BufferHoldsPending
  BytesGoToTheirPeer
  EveryByteOnce
PROPERTIES
  ChannelSpec
  EveryByteSettled
CHECK_DEADLOCK FALSE
