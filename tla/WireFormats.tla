---------------------------- MODULE WireFormats ----------------------------
(***************************************************************************)
(* A datagram on its way through the codecs: an encoder writes its header, *)
(* the payload is put behind it, and it may lose its end or have a byte    *)
(* changed before the parsers look at it.  RTP datagrams may also come     *)
(* from a foreign sender that adds CSRCs and a header extension.           *)
(***************************************************************************)
EXTENDS VbanWire, RtpWire

CONSTANTS AudioSent, ServiceSent, RtpSent, \* headers the encoders are given
          Payloads,   \* byte sequences behind a header
          CsrcCounts, \* numbers of CSRCs a foreign RTP sender adds
          Extensions, \* lengths in words of the extensions it adds
          Cuts,       \* lengths a datagram may be cut to
          Changes     \* [at, to]: the bytes that may change

\* The encoders are given headers whose fields are in range, and the four bits of
\* the CSRC count and the word of the extension's length bound a foreign sender.
ASSUME HeaderAssumption ==
  /\ AudioSent \subseteq AudioHeaders /\ ServiceSent \subseteq ServiceHeaders
  /\ RtpSent \subseteq RtpHeaders
ASSUME DatagramAssumption ==
  /\ Payloads \subseteq Seq(Octet) /\ CsrcCounts \subseteq 0 .. 15
  /\ Extensions \subseteq Word16
  /\ Cuts \subseteq Nat /\ Changes \subseteq [at : Nat, to : Octet]

VARIABLES
  kind,    \* "none", "audio", "service" or "rtp"
  header,  \* the header that was encoded
  payload, \* the payload that was put behind it
  behind,  \* the length of everything in front of the payload
  bytes,   \* the datagram
  damage   \* "none", "cut" or "changed"

vars == <<kind, header, payload, behind, bytes, damage>>

-----------------------------------------------------------------------------
Init ==
  /\ kind = "none" /\ header = <<>> /\ payload = <<>> /\ behind = 0
  /\ bytes = <<>> /\ damage = "none"

Send(k, h, head, p) ==
  /\ kind = "none"
  /\ kind' = k /\ header' = h /\ payload' = p /\ behind' = Len(head)
  /\ bytes' = head \o p
  /\ damage' = damage

SendAudio(h, p) == Send("audio", h, EncodeAudio(h), p)
SendService(h, p) == Send("service", h, EncodeService(h), p)
SendRtp(h, p) == Send("rtp", h, EncodeRtp(h), p)

\* RFC 3550: the CSRC count and the extension bit in the first byte, four bytes
\* for each CSRC, and an extension headed by its length in words.
Zeroes(n) == [i \in 1 .. n |-> 0]

ForeignHeader(h, csrcs, extended, words) ==
  <<128 + csrcs + (IF extended THEN 16 ELSE 0)>>
    \o Tail(EncodeRtp(h))
    \o Zeroes(4 * csrcs)
    \o IF extended
       THEN <<0, 0, Octets16(words)[2], Octets16(words)[1]>> \o Zeroes(4 * words)
       ELSE <<>>

SendForeignRtp(h, csrcs, extended, words, p) ==
  Send("rtp", h, ForeignHeader(h, csrcs, extended, words), p)

Cut(n) ==
  /\ damage = "none" /\ n < Len(bytes)
  /\ bytes' = SubSeq(bytes, 1, n) /\ damage' = "cut"
  /\ UNCHANGED <<kind, header, payload, behind>>

Change(c) ==
  /\ damage = "none" /\ c.at \in 1 .. Len(bytes)
  /\ bytes' = [bytes EXCEPT ![c.at] = c.to] /\ damage' = "changed"
  /\ UNCHANGED <<kind, header, payload, behind>>

Next ==
  \/ \E h \in AudioSent, p \in Payloads : SendAudio(h, p)
  \/ \E h \in ServiceSent, p \in Payloads : SendService(h, p)
  \/ \E h \in RtpSent, p \in Payloads : SendRtp(h, p)
  \/ \E h \in RtpSent, csrcs \in CsrcCounts, extended \in BOOLEAN, words \in Extensions,
        p \in Payloads : SendForeignRtp(h, csrcs, extended, words, p)
  \/ \E n \in Cuts : Cut(n)
  \/ \E c \in Changes : Change(c)

Spec == Init /\ [][Next]_vars

-----------------------------------------------------------------------------
\* The parsers that accept the datagram.
Readers ==
  {r \in {"audio", "service", "rtp"} :
     CASE r = "audio"   -> AudioResult(bytes) = "Ok"
       [] r = "service" -> ServiceResult(bytes) = "Ok"
       [] r = "rtp"     -> RtpResult(bytes) = "Ok"}

\* A datagram that arrives as it was sent is accepted by the parser of its kind,
\* which returns the header that was encoded, over the extremes of every field
\* and names that fill their field, and finds the payload, behind foreign CSRCs
\* and extensions too.
RoundTrip ==
  kind # "none" /\ damage = "none" =>
    /\ kind \in Readers
    /\ kind = "audio"   => AudioFields(bytes) = header
    /\ kind = "service" => ServiceFields(bytes) = header
    /\ kind = "rtp"     => RtpFields(bytes) = header /\ RtpPayload(bytes) = payload

\* No datagram, damaged or not, is accepted by two parsers: neither as VBAN
\* audio and service nor as VBAN and RTP.
OneReader == \A r, s \in Readers : r = s

\* Whatever byte was changed, the numbers a parser returns are ones the receivers
\* can work with: a rate of the table, 1 to 256 samples and channels, a payload
\* that begins inside the datagram (RtpReceiver subtracts its offset from the
\* length).
FieldsInRange ==
  /\ "audio" \in Readers =>
       LET h == AudioFields(bytes)
       IN  /\ h.sampleRateIndex < RateCount
           /\ h.numSamples \in 1 .. 256 /\ h.numChannels \in 1 .. 256
           /\ h.streamName \in Names
  /\ "service" \in Readers => ServiceFields(bytes).streamName \in Names
  /\ "rtp" \in Readers =>
       /\ RtpFields(bytes).payloadType \in 0 .. 127
       /\ PayloadOffset(bytes) \in FixedBytes .. Len(bytes)

\* A datagram cut inside its header, its CSRCs or its extension is refused by
\* every parser; cut in the payload it still is what it was, with the payload
\* that is left.
CutHeaderRefused ==
  damage = "cut" =>
    IF Len(bytes) < behind
    THEN Readers = {}
    ELSE /\ Readers = {kind} \ {"none"}
         /\ kind = "rtp" => RtpPayload(bytes) = SubSeq(payload, 1, Len(bytes) - behind)
=============================================================================
