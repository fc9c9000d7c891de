CONSTANTS
  Arrivals <- MCArrivals
  AnyName = "any"
  Names = {"a", "b"}
  Silence = Silence
  QueueBytes = 8
  MaxPayload = 6
  MaxTake = 3
  MaxArrivals = 4
SPECIFICATION Spec
INVARIANTS
  TypeOK
  OnlyLockedAudio
  OnlyFreshAudio
PROPERTY SourceSpec
