CONSTANTS
  Names = {"a"}
  Formats <- MCFormats
  SupportedRates = {48000}
  MaxPayload = 8
  MaxSamples = 2
  CounterMod = 3
  WriteSizes = {1, 3}
  MaxWritten = 3
  AnyName = "any"
  Filters = {"any"}
  Silence = Silence
  QueueBytes = 8
  MaxTake = 2
  MaxArrivals = 3
  Losing = TRUE
  Duplicating = TRUE
  Reordering = TRUE
  Reopening = TRUE
SPECIFICATION LinkSpec
INVARIANT QueuedAsWritten
PROPERTY ChannelSpec
CHECK_DEADLOCK FALSE
