CONSTANTS
  AudioSent <- MCAudio
  ServiceSent <- MCService
  RtpSent <- MCRtp
  Payloads <- MCPayloads
  CsrcCounts = {0, 2, 15}
  Extensions = {0, 1, 256}
  Cuts = {0, 11, 12, 13, 15, 17, 23, 24, 27, 28, 30, 75, 79}
  Changes <- MCChanges
SPECIFICATION Spec
INVARIANTS
  RoundTrip
  OneReader
  FieldsInRange
  CutHeaderRefused
CHECK_DEADLOCK FALSE
