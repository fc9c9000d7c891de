CONSTANTS
  Arrivals <- MCArrivals
  Formats <- MCFormats
  Dynamics <- MCDynamics
  CallerSizes = {0, 5, 6}
  Silence = Silence
  QueueBytes = 8
  ReadSizes = {1, 4}
  MaxTake = 3
  MaxArrivals = 4
SPECIFICATION Spec
INVARIANTS
  TypeOK
  SamplesInOrder
  FramesWhole
  OnlyFreshAudio
  CodecReadOnce
