------------------------------- MODULE RtpWire -------------------------------
(***************************************************************************)
(* The RTP header as bytes.  The encoder writes the fixed header only; the *)
(* parser also skips the CSRCs and the extension other senders add.  Byte  *)
(* i of the code is bytes[i + 1].                                          *)
(***************************************************************************)
EXTENDS Octets

FixedBytes == 12

RtpHeaders ==
  [marker : BOOLEAN, payloadType : 0 .. 127, sequenceNumber : Word16,
   timestamp : Word32, ssrc : Word32]

\* Big-endian: the highest octet first.
Reversed32(x) == [i \in 1 .. 4 |-> Octets32(x)[5 - i]]

EncodeRtp(h) ==
  <<128, (IF h.marker THEN 128 ELSE 0) + (h.payloadType % 128),
    Octets16(h.sequenceNumber)[2], Octets16(h.sequenceNumber)[1]>>
    \o Reversed32(h.timestamp)
    \o Reversed32(h.ssrc)

-----------------------------------------------------------------------------
Version(bytes) == bytes[1] \div 64

Extended(bytes) == (bytes[1] \div 16) % 2 = 1

CsrcCount(bytes) == bytes[1] % 16

\* The length the extension behind byte `at` gives for itself, in words.
ExtensionWords(bytes, at) == Value16(bytes[at + 4], bytes[at + 3])

AfterCsrcs(bytes) == FixedBytes + 4 * CsrcCount(bytes)

\* Where the payload begins, if the header is all there.
\* Faulty variant: the four bytes that head the extension are forgotten.
OffsetWithoutHead(bytes) ==
  IF Extended(bytes)
  THEN AfterCsrcs(bytes) + 4 * ExtensionWords(bytes, AfterCsrcs(bytes))
  ELSE AfterCsrcs(bytes)

PayloadOffset(bytes) ==
  IF Extended(bytes)
  THEN AfterCsrcs(bytes) + 4 + 4 * ExtensionWords(bytes, AfterCsrcs(bytes))
  ELSE AfterCsrcs(bytes)

\* Faulty variant: the extension may be longer than the datagram.
RtpResultHeadOnly(bytes) ==
  IF Len(bytes) < FixedBytes THEN "TooShort"
  ELSE IF Version(bytes) # 2 THEN "BadVersion"
  ELSE IF Len(bytes) < AfterCsrcs(bytes) THEN "TooShort"
  ELSE IF Extended(bytes) /\ Len(bytes) < AfterCsrcs(bytes) + 4 THEN "TooShort"
  ELSE "Ok"

RtpResult(bytes) ==
  IF Len(bytes) < FixedBytes THEN "TooShort"
  ELSE IF Version(bytes) # 2 THEN "BadVersion"
  ELSE IF Len(bytes) < AfterCsrcs(bytes) THEN "TooShort"
  ELSE IF Extended(bytes) /\ Len(bytes) < AfterCsrcs(bytes) + 4 THEN "TooShort"
  ELSE IF Len(bytes) < PayloadOffset(bytes) THEN "TooShort"
  ELSE "Ok"

RtpFields(bytes) ==
  [marker |-> bytes[2] >= 128,
   payloadType |-> bytes[2] % 128,
   sequenceNumber |-> Value16(bytes[4], bytes[3]),
   timestamp |-> Value32(bytes[8], bytes[7], bytes[6], bytes[5]),
   ssrc |-> Value32(bytes[12], bytes[11], bytes[10], bytes[9])]

RtpPayload(bytes) == SubSeq(bytes, PayloadOffset(bytes) + 1, Len(bytes))
=============================================================================
