------------------------------ MODULE VbanWire ------------------------------
(***************************************************************************)
(* The VBAN header as bytes: what the encoders write and the parsers read. *)
(* A header array of C is a sequence here, byte i of the code is bytes[i + *)
(* 1].  A stream name is the sequence of its characters, none of them NUL. *)
(***************************************************************************)
EXTENDS Octets

HeaderBytes == 28
NameBytes == 16
Signature == <<86, 66, 65, 78>>
RateCount == 21

\* Sub-protocols, in the upper three bits of byte 4.
Audio == 0
Service == 96

Names == {s \in Seq(1 .. 255) : Len(s) <= NameBytes}

AudioHeaders ==
  [sampleRateIndex : 0 .. RateCount - 1, numSamples : 1 .. 256, numChannels : 1 .. 256,
   subCodec : Octet, streamName : Names, frameCounter : Word32]

ServiceHeaders ==
  [serviceFunction : 0 .. 31, serviceFlags : Octet, rawByte6 : Octet, rawByte7 : Octet,
   streamName : Names, frameCounter : Word32]

-----------------------------------------------------------------------------
\* The name field: zeroes behind the name, and no NUL when it fills the field.
Padded(name) == [i \in 1 .. NameBytes |-> IF i <= Len(name) THEN name[i] ELSE 0]

\* The C string a name field reads as: what stands in front of its first NUL.
CString(field) ==
  SubSeq(field, 1,
    CHOOSE n \in 0 .. NameBytes :
      /\ \A i \in 1 .. n : field[i] # 0
      /\ n = NameBytes \/ field[n + 1] = 0)

EncodeAudio(h) ==
  Signature
    \o <<Audio + (h.sampleRateIndex % 32), Low(h.numSamples - 1), Low(h.numChannels - 1),
         h.subCodec>>
    \o Padded(h.streamName)
    \o Octets32(h.frameCounter)

EncodeService(h) ==
  Signature
    \o <<Service + (h.serviceFunction % 32), h.serviceFlags, h.rawByte6, h.rawByte7>>
    \o Padded(h.streamName)
    \o Octets32(h.frameCounter)

SubProtocol(bytes) == bytes[5] - (bytes[5] % 32)

NameField(bytes) == [i \in 1 .. NameBytes |-> bytes[8 + i]]

\* Faulty variant: the counter is read in network order.
CounterSwapped(bytes) == Value32(bytes[28], bytes[27], bytes[26], bytes[25])

Counter(bytes) == Value32(bytes[25], bytes[26], bytes[27], bytes[28])

AudioFields(bytes) ==
  [sampleRateIndex |-> bytes[5] % 32,
   numSamples |-> bytes[6] + 1,
   numChannels |-> bytes[7] + 1,
   subCodec |-> bytes[8],
   streamName |-> CString(NameField(bytes)),
   frameCounter |-> Counter(bytes)]

ServiceFields(bytes) ==
  [serviceFunction |-> bytes[5] % 32,
   serviceFlags |-> bytes[6],
   rawByte6 |-> bytes[7],
   rawByte7 |-> bytes[8],
   streamName |-> CString(NameField(bytes)),
   frameCounter |-> Counter(bytes)]

Signed(bytes) == \A i \in 1 .. 4 : bytes[i] = Signature[i]

AudioResult(bytes) ==
  IF Len(bytes) < HeaderBytes THEN "TooShort"
  ELSE IF ~ Signed(bytes) THEN "BadSignature"
  ELSE IF SubProtocol(bytes) # Audio THEN "NotAudio"
  ELSE IF bytes[5] % 32 >= RateCount THEN "SampleRateInvalid"
  ELSE "Ok"

\* Faulty variant: the sub-protocol of a service packet is not looked at.
ServiceResultAny(bytes) ==
  IF Len(bytes) < HeaderBytes THEN "TooShort"
  ELSE IF ~ Signed(bytes) THEN "BadSignature"
  ELSE "Ok"

ServiceResult(bytes) ==
  IF Len(bytes) < HeaderBytes THEN "TooShort"
  ELSE IF ~ Signed(bytes) THEN "BadSignature"
  ELSE IF SubProtocol(bytes) # Service THEN "NotService"
  ELSE "Ok"
=============================================================================
