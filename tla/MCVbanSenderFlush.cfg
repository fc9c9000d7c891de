CONSTANTS
  Names = {"n1"}
  Formats <- MCFormats
  SupportedRates = {48000}
  MaxPayload = 8
  MaxSamples = 3
  CounterMod = 3
  WriteSizes = {1, 4}
  MaxWritten = 5
SPECIFICATION Spec
INVARIANT FlushReportsFailure
