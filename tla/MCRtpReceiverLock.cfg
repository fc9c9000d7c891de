CONSTANTS
  Arrivals <- MCArrivals
  Formats <- MCNoFormats
  Dynamics <- MCDynamics
  CallerSizes = {0, 5, 6}
  Silence = Silence
  QueueBytes = 8
  ReadSizes = {1, 4}
  MaxTake = 3
  MaxArrivals = 3
SPECIFICATION Spec
PROPERTY FormatStaysLocked
