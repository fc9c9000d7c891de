CONSTANTS
  Names = {"a"}
  Formats <- MCFormats
  SupportedRates = {48000}
  MaxPayload = 8
  MaxSamples = 2
  CounterMod = 3
  WriteSizes = {1, 3}
  MaxWritten = 4
  AnyName = "any"
  Filters = {"any"}
  Silence = Silence
  QueueBytes = 8
  MaxTake = 2
  MaxArrivals = 4
  Losing = FALSE
  Duplicating = FALSE
  Reordering = FALSE
  Reopening = FALSE
SPECIFICATION LinkFairSpec
PROPERTY NewestHeard
CHECK_DEADLOCK FALSE
