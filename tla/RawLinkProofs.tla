--------------------------- MODULE RawLinkProofs ---------------------------
(***************************************************************************)
(* For every set of peers, buffers and sizes: the bytes RawUdpSink gathers *)
(* fit its buffer, go to the peer they were written for, and none is sent  *)
(* twice or lost from the books; and sink, network and RawUdpStream are    *)
(* together a lossy channel of bytes.                                      *)
(***************************************************************************)
EXTENDS RawLink, SequenceTheorems, TLAPS

\* The inductive invariant of the sink.
SinkInv ==
  /\ TypeOK
  /\ BufferHoldsPending
  /\ BytesGoToTheirPeer
  /\ EveryByteOnce

\* Two datagrams of w have no byte in common.
NoByteTwice(w) ==
  \A i, j \in 1 .. Len(w) : i # j => Numbers(w[i].bytes) \cap Numbers(w[j].bytes) = {}

\* The books, with the datagrams apart.
InOnePlace ==
  /\ 1 .. given = Sent \cup lost \cup dropped \cup Numbers(pending)
  /\ Sent \cap (lost \cup dropped \cup Numbers(pending)) = {}
  /\ lost \cap (dropped \cup Numbers(pending)) = {}
  /\ dropped \cap Numbers(pending) = {}

-----------------------------------------------------------------------------
LEMMA BooksByParts == EveryByteOnce <=> InOnePlace /\ NoByteTwice(wire)
  BY DEF EveryByteOnce, InOnePlace, NoByteTwice

\* Every buffer has a capacity; the one that is no caller's and not null has room.
LEMMA BufferKinds ==
  ASSUME NEW b \in Buffers \cup {NullBuffer, DefaultBuffer}
  PROVE  /\ b.cap \in Nat
         /\ b.at # "null" /\ b.cap = 0 => b.at = "callers"
  BY SinkAssumption DEF NullBuffer, DefaultBuffer

\* The numbers in a sequence of bytes that grows by another.
LEMMA NumbersOfConcat ==
  ASSUME NEW s \in Seq(Byte), NEW t \in Seq(Byte)
  PROVE  /\ Numbers(s \o t) = Numbers(s) \cup Numbers(t)
         /\ s \o t \in Seq(Byte) /\ Len(s \o t) = Len(s) + Len(t)
  <1>1. Len(s) \in Nat /\ Len(t) \in Nat  BY LenProperties
  <1>2. s \o t \in Seq(Byte) /\ Len(s \o t) = Len(s) + Len(t)
    BY ConcatProperties
  <1>3. \A i \in 1 .. Len(s) + Len(t) :
          (s \o t)[i] = IF i <= Len(s) THEN s[i] ELSE t[i - Len(s)]
    BY ConcatProperties
  <1>4. Numbers(s \o t) \subseteq Numbers(s) \cup Numbers(t)
    <2> SUFFICES ASSUME NEW i \in 1 .. Len(s) + Len(t)
                 PROVE  (s \o t)[i].number \in Numbers(s) \cup Numbers(t)
      BY <1>2 DEF Numbers
    <2>1. CASE i <= Len(s)
      <3>1. i \in 1 .. Len(s)  BY <1>1, <2>1
      <3> QED  BY <3>1, <2>1, <1>3 DEF Numbers
    <2>2. CASE ~ (i <= Len(s))
      <3>1. i - Len(s) \in 1 .. Len(t)  BY <1>1, <2>2
      <3> QED  BY <3>1, <2>2, <1>3 DEF Numbers
    <2> QED  BY <2>1, <2>2
  <1>5. Numbers(s) \subseteq Numbers(s \o t)
    <2> SUFFICES ASSUME NEW i \in 1 .. Len(s)
                 PROVE  s[i].number \in Numbers(s \o t)
      BY DEF Numbers
    <2>1. i \in 1 .. Len(s) + Len(t) /\ i <= Len(s)  BY <1>1
    <2>2. (s \o t)[i] = s[i]  BY <2>1, <1>3
    <2> QED  BY <2>1, <2>2, <1>2 DEF Numbers
  <1>6. Numbers(t) \subseteq Numbers(s \o t)
    <2> SUFFICES ASSUME NEW i \in 1 .. Len(t)
                 PROVE  t[i].number \in Numbers(s \o t)
      BY DEF Numbers
    <2> DEFINE j == i + Len(s)
    <2>1. j \in 1 .. Len(s) + Len(t) /\ ~ (j <= Len(s)) /\ j - Len(s) = i  BY <1>1
    <2>2. (s \o t)[j] = t[i]  BY <2>1, <1>3
    <2> QED  BY <2>1, <2>2, <1>2 DEF Numbers
  <1> QED  BY <1>2, <1>4, <1>5, <1>6

\* The bytes one write() takes.
LEMMA TakenBytes ==
  ASSUME TypeOK, BufferHoldsPending, NEW count \in Nat, ready,
         given + Fits(count) <= MaxGiven
  PROVE  /\ Fits(count) \in Nat /\ Len(pending) + Fits(count) <= buffer.cap
         /\ Taken(Fits(count)) \in Seq(Byte)
         /\ Len(Taken(Fits(count))) = Fits(count)
         /\ Numbers(Taken(Fits(count))) = given + 1 .. given + Fits(count)
         /\ \A i \in 1 .. Fits(count) : Taken(Fits(count))[i].to = dest
  <1> DEFINE n == Fits(count)
  <1>1. buffer.cap \in Nat  BY BufferKinds DEF TypeOK
  <1>2. Len(pending) \in Nat /\ Len(pending) <= buffer.cap
    BY LenProperties DEF TypeOK, BufferHoldsPending
  <1>3. n \in Nat /\ Len(pending) + n <= buffer.cap
    BY <1>1, <1>2 DEF Fits, Least
  <1>4. given \in Nat /\ dest \in Peers /\ given + n <= MaxGiven /\ MaxGiven \in Nat
    BY SinkAssumption DEF TypeOK
  <1> HIDE DEF n
  <1>5. \A i \in 1 .. n : [number |-> given + i, to |-> dest] \in Byte
    BY <1>3, <1>4 DEF Byte
  <1>6. Taken(n) \in Seq(Byte) /\ Len(Taken(n)) = n
    <2>1. Taken(n) \in [1 .. n -> Byte]  BY <1>5 DEF Taken
    <2>2. Taken(n) \in Seq(Byte)  BY <2>1, <1>3
    <2>3. DOMAIN Taken(n) = 1 .. n  BY DEF Taken
    <2>4. Len(Taken(n)) \in Nat /\ DOMAIN Taken(n) = 1 .. Len(Taken(n))
      BY <2>2, LenProperties
    <2> QED  BY <2>2, <2>3, <2>4, <1>3
  <1>7. Numbers(Taken(n)) = {given + i : i \in 1 .. n}
    BY <1>6 DEF Numbers, Taken
  <1>8. {given + i : i \in 1 .. n} = given + 1 .. given + n
    <2>1. ASSUME NEW i \in 1 .. n  PROVE given + i \in given + 1 .. given + n
      BY <1>3, <1>4
    <2>2. ASSUME NEW j \in given + 1 .. given + n
          PROVE  \E i \in 1 .. n : j = given + i
      <3>1. j - given \in 1 .. n /\ j = given + (j - given)  BY <1>3, <1>4
      <3> QED  BY <3>1
    <2> QED  BY <2>1, <2>2
  <1>9. \A i \in 1 .. n : Taken(n)[i].to = dest  BY DEF Taken
  <1> QED  BY <1>3, <1>6, <1>7, <1>8, <1>9 DEF n

\* The datagram that joins the wire.
LEMMA SentOfAppend ==
  ASSUME TypeOK, NEW d \in [to : Peers, bytes : Seq(Byte)]
  PROVE  LET w == Append(wire, d)
         IN  /\ w \in Seq([to : Peers, bytes : Seq(Byte)])
             /\ Len(w) = Len(wire) + 1 /\ Len(wire) \in Nat
             /\ \A i \in 1 .. Len(wire) : w[i] = wire[i]
             /\ w[Len(wire) + 1] = d
  <1>1. wire \in Seq([to : Peers, bytes : Seq(Byte)])  BY DEF TypeOK
  <1> QED  BY <1>1, AppendProperties, LenProperties

-----------------------------------------------------------------------------
LEMMA InitInv == Init => SinkInv
  <1> SUFFICES ASSUME Init PROVE SinkInv
    OBVIOUS
  <1>1. TypeOK
    <2>1. pending \in Seq(Byte) /\ wire \in Seq([to : Peers, bytes : Seq(Byte)])
      BY EmptySeq DEF Init
    <2>2. given \in 0 .. MaxGiven  BY SinkAssumption DEF Init
    <2> QED  BY <2>1, <2>2 DEF Init, TypeOK
  <1>2. pending = <<>> /\ Len(pending) = 0 /\ wire = <<>> /\ Len(wire) = 0
    BY EmptySeq DEF Init
  <1>3. Numbers(pending) = {} /\ Sent = {}
    BY <1>2 DEF Numbers, Sent
  <1>4. BufferHoldsPending
    BY <1>2, BufferKinds DEF Init, BufferHoldsPending, NullBuffer
  <1>5. BytesGoToTheirPeer
    BY <1>2 DEF BytesGoToTheirPeer
  <1>6. EveryByteOnce
    BY <1>2, <1>3 DEF Init, EveryByteOnce
  <1> QED  BY <1>1, <1>4, <1>5, <1>6 DEF SinkInv

LEMMA PendingInRange ==
  ASSUME SinkInv
  PROVE  Numbers(pending) \subseteq 1 .. MaxGiven
  <1>1. Numbers(pending) \subseteq 1 .. given  BY DEF SinkInv, EveryByteOnce
  <1>2. 1 .. given \subseteq 1 .. MaxGiven  BY SinkAssumption DEF SinkInv, TypeOK
  <1> QED  BY <1>1, <1>2

\* What an empty buffer and a grown set of dropped bytes leave of the books.
LEMMA DropKeepsBooks ==
  ASSUME SinkInv, DropPending, UNCHANGED <<wire, given, lost>>
  PROVE  /\ EveryByteOnce'
         /\ pending' \in Seq(Byte) /\ Len(pending') = 0 /\ pending' = <<>>
         /\ dropped' \subseteq 1 .. MaxGiven
  <1>1. pending' = <<>> /\ Len(pending') = 0 /\ pending' \in Seq(Byte)
    BY EmptySeq DEF DropPending
  <1>2. Numbers(pending)' = {}  BY <1>1 DEF Numbers
  <1>3. dropped' = dropped \cup Numbers(pending)  BY DEF DropPending
  <1>4. Sent' = Sent  BY DEF Sent, Numbers
  <1>5. EveryByteOnce'
    <2>1. 1 .. given' = Sent' \cup lost' \cup dropped' \cup Numbers(pending)'
      BY <1>2, <1>3, <1>4 DEF SinkInv, EveryByteOnce
    <2>2. /\ Sent' \cap (lost' \cup dropped' \cup Numbers(pending)') = {}
          /\ lost' \cap (dropped' \cup Numbers(pending)') = {}
          /\ dropped' \cap Numbers(pending)' = {}
      BY <1>2, <1>3, <1>4 DEF SinkInv, EveryByteOnce
    <2>3. NoByteTwice(wire)'  BY BooksByParts DEF SinkInv
    <2>4. InOnePlace'  BY <2>1, <2>2 DEF InOnePlace
    <2> QED  BY <2>4, <2>3, BooksByParts, PTL
  <1>6. Numbers(pending) \subseteq 1 .. MaxGiven
    BY PendingInRange
  <1>7. dropped' \subseteq 1 .. MaxGiven
    BY <1>3, <1>6 DEF SinkInv, TypeOK
  <1> QED  BY <1>1, <1>5, <1>7

LEMMA BeginKeepsInv ==
  ASSUME SinkInv, NEW peer \in Peers, NEW port \in {0, 1}, Begin(peer, port)
  PROVE  SinkInv'
  <1> USE DEF Begin
  <1>1. /\ EveryByteOnce' /\ pending' \in Seq(Byte) /\ Len(pending') = 0 /\ pending' = <<>>
        /\ dropped' \subseteq 1 .. MaxGiven
    BY DropKeepsBooks
  <1>2. buffer' \in Buffers \cup {NullBuffer, DefaultBuffer} /\ buffer'.at # "null"
    BY DEF SinkInv, TypeOK, BufferAtBegin, DefaultBuffer
  <1>3. buffer'.cap \in Nat /\ (buffer'.cap = 0 => buffer'.at = "callers")
    BY <1>2, BufferKinds
  <1>4. TypeOK'
    <2>1. /\ ready' \in BOOLEAN /\ swapped' \in BOOLEAN /\ dest' \in Peers
          /\ error' \in {"None", "NotReady", "SendFailed", "BufferOverflow"}
      OBVIOUS
    <2>2. UNCHANGED <<wire, given, lost>>  OBVIOUS
    <2>3. TypeOK  BY DEF SinkInv
    <2>4. buffer' \in Buffers \cup {NullBuffer, DefaultBuffer}  BY <1>2
    <2> QED  BY <1>1, <2>1, <2>2, <2>3, <2>4, Zenon DEF TypeOK
  <1>5. BufferHoldsPending'  BY <1>1, <1>2, <1>3 DEF BufferHoldsPending
  <1>6. BytesGoToTheirPeer'  BY <1>1 DEF SinkInv, BytesGoToTheirPeer
  <1> QED  BY <1>1, <1>4, <1>5, <1>6 DEF SinkInv

LEMMA EndKeepsInv ==
  ASSUME SinkInv, End
  PROVE  SinkInv'
  <1> USE DEF End
  <1>1. /\ EveryByteOnce' /\ pending' \in Seq(Byte) /\ Len(pending') = 0 /\ pending' = <<>>
        /\ dropped' \subseteq 1 .. MaxGiven
    BY DropKeepsBooks
  <1>2. buffer'.cap \in Nat  BY BufferKinds DEF SinkInv, TypeOK
  <1>3. TypeOK'  BY <1>1 DEF SinkInv, TypeOK
  <1>4. BufferHoldsPending'  BY <1>1, <1>2 DEF BufferHoldsPending
  <1>5. BytesGoToTheirPeer'  BY <1>1 DEF SinkInv, BytesGoToTheirPeer
  <1> QED  BY <1>1, <1>3, <1>4, <1>5 DEF SinkInv

LEMMA SetPacketBufferKeepsInv ==
  ASSUME SinkInv, NEW b \in Buffers, SetPacketBuffer(b)
  PROVE  SinkInv'
  <1> USE DEF SetPacketBuffer
  <1>1. /\ EveryByteOnce' /\ pending' \in Seq(Byte) /\ Len(pending') = 0 /\ pending' = <<>>
        /\ dropped' \subseteq 1 .. MaxGiven
    BY DropKeepsBooks
  <1>2. buffer'.cap \in Nat  BY BufferKinds
  <1>3. TypeOK'  BY <1>1 DEF SinkInv, TypeOK
  <1>4. BufferHoldsPending'  BY <1>1, <1>2 DEF BufferHoldsPending
  <1>5. BytesGoToTheirPeer'  BY <1>1 DEF SinkInv, BytesGoToTheirPeer
  <1> QED  BY <1>1, <1>3, <1>4, <1>5 DEF SinkInv

\* A step that leaves bytes, buffer and peer alone.
LEMMA QuietStepKeepsInv ==
  ASSUME SinkInv, Refused \/ UNCHANGED vars
  PROVE  SinkInv'
  <1>1. UNCHANGED <<ready, dest, buffer, pending, swapped, wire, given, lost, dropped>>
        /\ error' \in {error, "NotReady"}
    BY DEF Refused, vars
  <1>2. TypeOK'  BY <1>1 DEF SinkInv, TypeOK
  <1>3. BufferHoldsPending'  BY <1>1 DEF SinkInv, BufferHoldsPending
  <1>4. BytesGoToTheirPeer'  BY <1>1 DEF SinkInv, BytesGoToTheirPeer
  <1>5. EveryByteOnce'
    <2>1. InOnePlace'  BY <1>1, BooksByParts DEF SinkInv, InOnePlace, Sent
    <2>2. NoByteTwice(wire)'  BY <1>1, BooksByParts DEF SinkInv
    <2> QED  BY <2>1, <2>2, BooksByParts, PTL
  <1> QED  BY <1>2, <1>3, <1>4, <1>5 DEF SinkInv

LEMMA WriteKeepsInv ==
  ASSUME SinkInv, NEW count \in WriteSizes, Write(count)
  PROVE  SinkInv'
  <1> DEFINE n == Fits(count)
  <1> USE DEF Write
  <1>1. count \in Nat /\ TypeOK /\ BufferHoldsPending
    BY SinkAssumption DEF SinkInv
  <1>2. /\ n \in Nat /\ Len(pending) + n <= buffer.cap
        /\ Taken(n) \in Seq(Byte) /\ Len(Taken(n)) = n
        /\ Numbers(Taken(n)) = given + 1 .. given + n
        /\ \A i \in 1 .. n : Taken(n)[i].to = dest
    BY <1>1, TakenBytes
  <1> HIDE DEF n
  <1>3. pending' = pending \o Taken(n) /\ given' = given + n /\ given + n <= MaxGiven
    BY DEF n
  <1>4. pending \in Seq(Byte) /\ given \in Nat /\ MaxGiven \in Nat
    BY SinkAssumption DEF SinkInv, TypeOK
  <1>5. /\ Numbers(pending') = Numbers(pending) \cup (given + 1 .. given + n)
        /\ pending' \in Seq(Byte) /\ Len(pending') = Len(pending) + n
    BY <1>2, <1>3, <1>4, NumbersOfConcat
  <1>6. TypeOK'
    BY <1>2, <1>3, <1>4, <1>5 DEF SinkInv, TypeOK
  <1>7. BufferHoldsPending'
    <2>1. Len(pending') <= buffer'.cap  BY <1>2, <1>5
    <2>2. buffer'.at = "null" => pending' = <<>>
      <3>1. SUFFICES ASSUME buffer.at = "null" PROVE Len(pending') = 0
        BY <1>5, EmptySeq
      <3>2. buffer.cap = 0  BY <3>1
      <3>3. Len(pending') \in Nat  BY <1>5, LenProperties
      <3> QED  BY <2>1, <3>2, <3>3
    <2> QED  BY <2>1, <2>2 DEF SinkInv, BufferHoldsPending
  <1>8. BytesGoToTheirPeer'
    <2>1. \A i \in 1 .. Len(pending') : pending'[i].to = dest'
      <3> SUFFICES ASSUME NEW i \in 1 .. Len(pending') PROVE pending'[i].to = dest
        OBVIOUS
      <3>1. Len(pending) \in Nat  BY <1>4, LenProperties
      <3>2. pending'[i] = IF i <= Len(pending) THEN pending[i] ELSE Taken(n)[i - Len(pending)]
        BY <1>2, <1>3, <1>4, <1>5, ConcatProperties
      <3>3. CASE i <= Len(pending)
        <4>1. i \in 1 .. Len(pending)  BY <3>1, <3>3, <1>5, <1>2
        <4> QED  BY <3>2, <3>3, <4>1 DEF SinkInv, BytesGoToTheirPeer
      <3>4. CASE ~ (i <= Len(pending))
        <4>1. i - Len(pending) \in 1 .. n  BY <3>1, <3>4, <1>2, <1>5
        <4> QED  BY <3>2, <3>4, <4>1, <1>2
      <3> QED  BY <3>3, <3>4
    <2> QED  BY <2>1 DEF SinkInv, BytesGoToTheirPeer
  <1>9. EveryByteOnce'
    <2> DEFINE new == given + 1 .. given + n
    <2>1. 1 .. given' = (1 .. given) \cup new /\ (1 .. given) \cap new = {}
      BY <1>2, <1>3, <1>4
    <2>2. Sent' = Sent  BY DEF Sent, Numbers
    <2>3. Numbers(pending)' = Numbers(pending) \cup new
      BY <1>5 DEF Numbers
    <2> HIDE DEF new
    <2>4. 1 .. given' = Sent' \cup lost' \cup dropped' \cup Numbers(pending)'
      BY <2>1, <2>2, <2>3 DEF SinkInv, EveryByteOnce
    <2>5. /\ Sent' \cap (lost' \cup dropped' \cup Numbers(pending)') = {}
          /\ lost' \cap (dropped' \cup Numbers(pending)') = {}
          /\ dropped' \cap Numbers(pending)' = {}
      BY <2>1, <2>2, <2>3 DEF SinkInv, EveryByteOnce
    <2>6. NoByteTwice(wire)'  BY BooksByParts DEF SinkInv
    <2>7. InOnePlace'  BY <2>4, <2>5 DEF InOnePlace
    <2> QED  BY <2>7, <2>6, BooksByParts, PTL
  <1> QED  BY <1>6, <1>7, <1>8, <1>9 DEF SinkInv

LEMMA FlushKeepsInv ==
  ASSUME SinkInv, NEW ok \in BOOLEAN, Flush(ok)
  PROVE  SinkInv'
  <1> DEFINE d == [to |-> dest, bytes |-> pending]
  <1> USE DEF Flush
  <1>1. /\ pending' = <<>> /\ Len(pending') = 0 /\ pending' \in Seq(Byte)
        /\ Numbers(pending)' = {}
    BY EmptySeq DEF AfterFlush, Numbers
  <1>2. d \in [to : Peers, bytes : Seq(Byte)]  BY DEF SinkInv, TypeOK
  <1>3. Numbers(pending) \subseteq 1 .. MaxGiven
    BY PendingInRange
  <1>4. buffer.cap \in Nat  BY BufferKinds DEF SinkInv, TypeOK
  <1>5. BufferHoldsPending'
    BY <1>1, <1>4 DEF SinkInv, BufferHoldsPending
  <1>6. TypeOK /\ BytesGoToTheirPeer /\ EveryByteOnce  BY DEF SinkInv
  <1>7. CASE ok
    <2>1. wire' = Append(wire, d) /\ lost' = lost /\ error' = error  BY <1>7
    <2>2. /\ wire' \in Seq([to : Peers, bytes : Seq(Byte)])
          /\ Len(wire') = Len(wire) + 1 /\ Len(wire) \in Nat
          /\ \A i \in 1 .. Len(wire) : wire'[i] = wire[i]
          /\ wire'[Len(wire) + 1] = d
      BY <2>1, <1>2, <1>6, SentOfAppend, ZenonT(60)
    <2>3. \A i \in 1 .. Len(wire') : i \in 1 .. Len(wire) \/ i = Len(wire) + 1
      BY <2>2
    <2>4. TypeOK'  BY <1>1, <1>6, <2>1, <2>2 DEF TypeOK
    <2>5. BytesGoToTheirPeer'
      <3>1. ASSUME NEW i \in 1 .. Len(wire')
            PROVE  \A j \in 1 .. Len(wire'[i].bytes) : wire'[i].bytes[j].to = wire'[i].to
        BY <1>6, <2>2, <2>3 DEF BytesGoToTheirPeer
      <3> QED  BY <3>1, <1>1 DEF BytesGoToTheirPeer
    <2>6. Sent' = Sent \cup Numbers(pending)
      <3>1. Sent' = UNION {Numbers(wire'[i].bytes) : i \in 1 .. Len(wire')}
        BY DEF Sent, Numbers
      <3>2. 1 .. Len(wire') = (1 .. Len(wire)) \cup {Len(wire) + 1}  BY <2>2
      <3> QED  BY <3>1, <3>2, <2>2 DEF Sent
    <2>7. EveryByteOnce'
      <3>1. 1 .. given' = Sent' \cup lost' \cup dropped' \cup Numbers(pending)'
        BY <1>1, <1>6, <2>1, <2>6 DEF EveryByteOnce
      <3>2. /\ Sent' \cap (lost' \cup dropped' \cup Numbers(pending)') = {}
            /\ lost' \cap (dropped' \cup Numbers(pending)') = {}
            /\ dropped' \cap Numbers(pending)' = {}
        BY <1>1, <1>6, <2>1, <2>6 DEF EveryByteOnce
      <3>3. \A i \in 1 .. Len(wire) : Numbers(wire[i].bytes) \cap Numbers(pending) = {}
        BY <1>6 DEF EveryByteOnce, Sent
      <3>4. ASSUME NEW i \in 1 .. Len(wire'), NEW j \in 1 .. Len(wire'), i # j
            PROVE  Numbers(wire'[i].bytes) \cap Numbers(wire'[j].bytes) = {}
        <4>1. CASE i \in 1 .. Len(wire) /\ j \in 1 .. Len(wire)
          BY <4>1, <3>4, <1>6, <2>2 DEF EveryByteOnce
        <4>2. CASE i = Len(wire) + 1 /\ j \in 1 .. Len(wire)
          BY <4>2, <3>3, <2>2
        <4>3. CASE j = Len(wire) + 1 /\ i \in 1 .. Len(wire)
          BY <4>3, <3>3, <2>2
        <4> QED  BY <4>1, <4>2, <4>3, <3>4, <2>3
      <3>5. NoByteTwice(wire)'  BY <3>4 DEF NoByteTwice
      <3>6. InOnePlace'  BY <3>1, <3>2 DEF InOnePlace
      <3> QED  BY <3>6, <3>5, BooksByParts, PTL
    <2> QED  BY <1>5, <2>4, <2>5, <2>7 DEF SinkInv
  <1>8. CASE ~ ok
    <2>1. wire' = wire /\ lost' = lost \cup Numbers(pending) /\ error' = "SendFailed"
      BY <1>8
    <2>2. TypeOK'  BY <1>1, <1>3, <1>6, <2>1 DEF TypeOK
    <2>3. BytesGoToTheirPeer'  BY <1>1, <1>6, <2>1 DEF BytesGoToTheirPeer
    <2>4. Sent' = Sent  BY <2>1 DEF Sent, Numbers
    <2>5. EveryByteOnce'
      <3>1. 1 .. given' = Sent' \cup lost' \cup dropped' \cup Numbers(pending)'
        BY <1>1, <1>6, <2>1, <2>4 DEF EveryByteOnce
      <3>2. /\ Sent' \cap (lost' \cup dropped' \cup Numbers(pending)') = {}
            /\ lost' \cap (dropped' \cup Numbers(pending)') = {}
            /\ dropped' \cap Numbers(pending)' = {}
        BY <1>1, <1>6, <2>1, <2>4 DEF EveryByteOnce
      <3>3. NoByteTwice(wire)'  BY <1>6, <2>1, BooksByParts
      <3>4. InOnePlace'  BY <3>1, <3>2 DEF InOnePlace
      <3> QED  BY <3>4, <3>3, BooksByParts, PTL
    <2> QED  BY <1>5, <2>2, <2>3, <2>5 DEF SinkInv
  <1> QED  BY <1>7, <1>8

LEMMA StepKeepsInv == SinkInv /\ [Next]_vars => SinkInv'
  <1> SUFFICES ASSUME SinkInv, [Next]_vars PROVE SinkInv'
    OBVIOUS
  <1>1. ASSUME NEW peer \in Peers, NEW port \in {0, 1}, Begin(peer, port) PROVE SinkInv'
    BY <1>1, BeginKeepsInv
  <1>2. CASE End  BY <1>2, EndKeepsInv
  <1>3. ASSUME NEW b \in Buffers, SetPacketBuffer(b) PROVE SinkInv'
    BY <1>3, SetPacketBufferKeepsInv
  <1>4. CASE Refused  BY <1>4, QuietStepKeepsInv
  <1>5. ASSUME NEW count \in WriteSizes, Write(count) PROVE SinkInv'
    BY <1>5, WriteKeepsInv
  <1>6. ASSUME NEW ok \in BOOLEAN, Flush(ok) PROVE SinkInv'
    BY <1>6, FlushKeepsInv
  <1>7. CASE UNCHANGED vars  BY <1>7, QuietStepKeepsInv
  <1> QED  BY <1>1, <1>2, <1>3, <1>4, <1>5, <1>6, <1>7 DEF Next

LEMMA SinkInvHolds == Spec => []SinkInv
  BY InitInv, StepKeepsInv, PTL DEF Spec

-----------------------------------------------------------------------------
\* RawUdpSink keeps the type of its state: used_ and every byte number stay in
\* range whatever buffers the application hands over.
THEOREM SinkIsTypeCorrect == Spec => []TypeOK
  <1>1. SinkInv => TypeOK  BY DEF SinkInv
  <1> QED  BY <1>1, SinkInvHolds, PTL

\* For every buffer an application gives the sink, and at any time, the bytes of
\* write() fit it; a sink begin() opened has room, save in an empty caller's buffer.
THEOREM BytesFitTheBuffer == Spec => []BufferHoldsPending
  <1>1. SinkInv => BufferHoldsPending  BY DEF SinkInv
  <1> QED  BY <1>1, SinkInvHolds, PTL

\* For every set of peers, no byte goes to a peer it was not written for.
THEOREM PeersAreKeptApart == Spec => []BytesGoToTheirPeer
  <1>1. SinkInv => BytesGoToTheirPeer  BY DEF SinkInv
  <1> QED  BY <1>1, SinkInvHolds, PTL

\* For every sequence of calls, each byte write() accepted is sent once, lost
\* once, dropped once or still pending.
THEOREM BytesAreAccountedFor == Spec => []EveryByteOnce
  <1>1. SinkInv => EveryByteOnce  BY DEF SinkInv
  <1> QED  BY <1>1, SinkInvHolds, PTL

-----------------------------------------------------------------------------
\* The bytes of s are numbered in their order.
Rising(s) == \A i, j \in 1 .. Len(s) : i < j => s[i].number < s[j].number

Before(S, T) == \A x \in S, y \in T : x < y

\* The datagrams of w, and behind them the bytes of p, are in the order written.
InOrder(w, p) ==
  /\ \A i \in 1 .. Len(w) :
       Rising(w[i].bytes) /\ Before(Numbers(w[i].bytes), Numbers(p))
  /\ \A i, j \in 1 .. Len(w) :
       i < j => Before(Numbers(w[i].bytes), Numbers(w[j].bytes))
  /\ Rising(p)

\* Bytes leave the sink in the order written, within a datagram and between two.
WireInOrder == InOrder(wire, pending)

AnyByte == [number : Nat, to : Peers]

LEMMA ByteIsAny == Seq(Byte) \subseteq Seq(AnyByte)
  <1>1. Byte \subseteq AnyByte  BY SinkAssumption DEF Byte, AnyByte
  <1> QED  BY <1>1

LEMMA NumberOf ==
  ASSUME NEW s \in Seq(AnyByte), NEW i \in 1 .. Len(s)
  PROVE  s[i].number \in Nat /\ s[i].number \in Numbers(s)
  <1>1. s[i] \in AnyByte  BY ElementOfSeq
  <1> QED  BY <1>1 DEF AnyByte, Numbers

\* Of nothing, nothing is out of order.
LEMMA NothingRises == Rising(<<>>) /\ Numbers(<<>>) = {} /\ <<>> \in Seq(AnyByte)
  <1>1. Len(<<>>) = 0 /\ <<>> \in Seq(AnyByte)  BY EmptySeq
  <1> QED  BY <1>1 DEF Rising, Numbers

LEMMA RisingJoins ==
  ASSUME NEW s \in Seq(AnyByte), NEW t \in Seq(AnyByte), Rising(s), Rising(t),
         Before(Numbers(s), Numbers(t))
  PROVE  Rising(s \o t)
  <1>1. Len(s) \in Nat /\ Len(t) \in Nat  BY LenProperties
  <1>2. /\ Len(s \o t) = Len(s) + Len(t)
        /\ \A i \in 1 .. Len(s) + Len(t) :
             (s \o t)[i] = IF i <= Len(s) THEN s[i] ELSE t[i - Len(s)]
    BY ConcatProperties
  <1> SUFFICES ASSUME NEW i \in 1 .. Len(s) + Len(t), NEW j \in 1 .. Len(s) + Len(t), i < j
               PROVE  (s \o t)[i].number < (s \o t)[j].number
    BY <1>2 DEF Rising
  <1>3. CASE j <= Len(s)
    <2>1. i \in 1 .. Len(s) /\ j \in 1 .. Len(s) /\ i <= Len(s)  BY <1>1, <1>3
    <2>2. (s \o t)[i] = s[i] /\ (s \o t)[j] = s[j]  BY <1>2, <1>3, <2>1
    <2> QED  BY <2>1, <2>2 DEF Rising
  <1>4. CASE i <= Len(s) /\ ~ (j <= Len(s))
    <2>1. i \in 1 .. Len(s) /\ j - Len(s) \in 1 .. Len(t)  BY <1>1, <1>4
    <2>2. (s \o t)[i] = s[i] /\ (s \o t)[j] = t[j - Len(s)]  BY <1>2, <1>4
    <2>3. s[i].number \in Numbers(s) /\ t[j - Len(s)].number \in Numbers(t)
      BY <2>1, NumberOf
    <2> QED  BY <2>2, <2>3 DEF Before
  <1>5. CASE ~ (i <= Len(s))
    <2>1. /\ i - Len(s) \in 1 .. Len(t) /\ j - Len(s) \in 1 .. Len(t)
          /\ i - Len(s) < j - Len(s) /\ ~ (j <= Len(s))
      BY <1>1, <1>5
    <2>2. (s \o t)[i] = t[i - Len(s)] /\ (s \o t)[j] = t[j - Len(s)]  BY <1>2, <1>5, <2>1
    <2> QED  BY <2>1, <2>2 DEF Rising
  <1> QED  BY <1>1, <1>3, <1>4, <1>5

\* The bytes of a datagram on the wire, and those pending, were accepted.
LEMMA WireBytes ==
  ASSUME SinkInv
  PROVE  /\ \A i \in 1 .. Len(wire) :
              wire[i].bytes \in Seq(Byte) /\ Numbers(wire[i].bytes) \subseteq 1 .. given
         /\ Numbers(pending) \subseteq 1 .. given
  <1>1. TypeOK /\ EveryByteOnce  BY DEF SinkInv
  <1>2. ASSUME NEW i \in 1 .. Len(wire)
        PROVE  wire[i].bytes \in Seq(Byte) /\ Numbers(wire[i].bytes) \subseteq 1 .. given
    <2>1. wire[i] \in [to : Peers, bytes : Seq(Byte)]
      BY <1>1, ElementOfSeq DEF TypeOK
    <2>2. Numbers(wire[i].bytes) \subseteq Sent  BY DEF Sent
    <2> QED  BY <1>1, <2>1, <2>2 DEF EveryByteOnce
  <1> QED  BY <1>1, <1>2 DEF EveryByteOnce

LEMMA DroppedStaysInOrder ==
  ASSUME WireInOrder, wire' = wire, pending' = <<>>
  PROVE  WireInOrder'
  BY NothingRises DEF WireInOrder, InOrder, Before

LEMMA WriteKeepsOrder ==
  ASSUME SinkInv, WireInOrder, NEW count \in WriteSizes, Write(count)
  PROVE  WireInOrder'
  <1> DEFINE n == Fits(count)
             t == Taken(n)
  <1>1. count \in Nat /\ TypeOK /\ BufferHoldsPending
    BY SinkAssumption DEF SinkInv
  <1>2. n \in Nat /\ t \in Seq(Byte) /\ Len(t) = n /\ Numbers(t) = given + 1 .. given + n
    BY <1>1, TakenBytes DEF Write
  <1>3. given \in Nat /\ pending \in Seq(Byte)  BY <1>1 DEF TypeOK
  <1>4. Rising(t)
    <2> SUFFICES ASSUME NEW i \in 1 .. n, NEW j \in 1 .. n, i < j
                 PROVE  t[i].number < t[j].number
      BY <1>2 DEF Rising
    <2>1. t[i].number = given + i /\ t[j].number = given + j  BY DEF Taken
    <2> QED  BY <1>2, <1>3, <2>1
  <1> HIDE DEF n, t
  <1>5. /\ wire' = wire /\ pending' = pending \o t
    BY DEF Write, n, t
  <1>6. ASSUME NEW S, S \subseteq 1 .. given PROVE Before(S, Numbers(t))
    <2>1. \A x \in 1 .. given, y \in given + 1 .. given + n : x < y  BY <1>2, <1>3
    <2> QED  BY <1>2, <1>6, <2>1 DEF Before
  <1>7. Rising(pending')
    <2>1. Before(Numbers(pending), Numbers(t))  BY <1>6, WireBytes
    <2>2. Rising(pending)  BY DEF WireInOrder, InOrder
    <2> QED  BY <1>2, <1>3, <1>4, <1>5, <2>1, <2>2, ByteIsAny, RisingJoins
  <1>8. Numbers(pending') = Numbers(pending) \cup Numbers(t)
    BY <1>2, <1>3, <1>5, NumbersOfConcat
  <1>9. ASSUME NEW i \in 1 .. Len(wire)
        PROVE  Before(Numbers(wire[i].bytes), Numbers(pending'))
    <2>1. Before(Numbers(wire[i].bytes), Numbers(pending))  BY DEF WireInOrder, InOrder
    <2>2. Before(Numbers(wire[i].bytes), Numbers(t))  BY <1>6, WireBytes
    <2> QED  BY <1>8, <2>1, <2>2 DEF Before
  <1>10. InOrder(wire, pending')  BY <1>7, <1>9 DEF WireInOrder, InOrder
  <1> QED  BY <1>5, <1>10 DEF WireInOrder

LEMMA FlushKeepsOrder ==
  ASSUME SinkInv, WireInOrder, NEW ok \in BOOLEAN, Flush(ok)
  PROVE  WireInOrder'
  <1>1. pending' = <<>>  BY DEF Flush, AfterFlush
  <1>2. CASE ~ ok
    BY <1>1, <1>2, DroppedStaysInOrder DEF Flush
  <1>3. CASE ok
    <2> DEFINE d == [to |-> dest, bytes |-> pending]
    <2>1. wire' = Append(wire, d)  BY <1>3 DEF Flush
    <2>2. TypeOK /\ d \in [to : Peers, bytes : Seq(Byte)]  BY DEF SinkInv, TypeOK, Flush
    <2>3. /\ Len(wire') = Len(wire) + 1 /\ Len(wire) \in Nat
          /\ \A i \in 1 .. Len(wire) : wire'[i] = wire[i]
          /\ wire'[Len(wire) + 1] = d
      BY <2>1, <2>2, SentOfAppend
    <2>4. d.bytes = pending  OBVIOUS
    <2> HIDE DEF d
    <2>5. \A i \in 1 .. Len(wire') : i \in 1 .. Len(wire) \/ i = Len(wire) + 1  BY <2>3
    <2>6. ASSUME NEW i \in 1 .. Len(wire')
          PROVE  Rising(wire'[i].bytes) /\ Before(Numbers(wire'[i].bytes), Numbers(pending'))
      <3>1. Before(Numbers(wire'[i].bytes), Numbers(pending'))
        BY <1>1, NothingRises DEF Before
      <3>2. Rising(wire'[i].bytes)
        BY <2>3, <2>4, <2>5 DEF WireInOrder, InOrder
      <3> QED  BY <3>1, <3>2
    <2>7. ASSUME NEW i \in 1 .. Len(wire'), NEW j \in 1 .. Len(wire'), i < j
          PROVE  Before(Numbers(wire'[i].bytes), Numbers(wire'[j].bytes))
      <3>1. i \in 1 .. Len(wire)  BY <2>3, <2>7
      <3>2. CASE j \in 1 .. Len(wire)
        BY <2>3, <2>7, <3>1, <3>2 DEF WireInOrder, InOrder
      <3>3. CASE j = Len(wire) + 1
        BY <2>3, <2>4, <3>1, <3>3 DEF WireInOrder, InOrder
      <3> QED  BY <2>5, <3>2, <3>3
    <2> QED  BY <1>1, <2>6, <2>7, NothingRises DEF WireInOrder, InOrder
  <1> QED  BY <1>2, <1>3

LEMMA StepKeepsOrder == SinkInv /\ WireInOrder /\ [Next]_vars => WireInOrder'
  <1> SUFFICES ASSUME SinkInv, WireInOrder, [Next]_vars PROVE WireInOrder'
    OBVIOUS
  <1>1. ASSUME NEW peer \in Peers, NEW port \in {0, 1}, Begin(peer, port) PROVE WireInOrder'
    BY <1>1, DroppedStaysInOrder DEF Begin, DropPending
  <1>2. CASE End
    BY <1>2, DroppedStaysInOrder DEF End, DropPending
  <1>3. ASSUME NEW b \in Buffers, SetPacketBuffer(b) PROVE WireInOrder'
    BY <1>3, DroppedStaysInOrder DEF SetPacketBuffer, DropPending
  <1>4. CASE Refused \/ UNCHANGED vars
    <2>1. wire' = wire /\ pending' = pending  BY <1>4 DEF Refused, vars
    <2> QED  BY <2>1 DEF WireInOrder
  <1>5. ASSUME NEW count \in WriteSizes, Write(count) PROVE WireInOrder'
    BY <1>5, WriteKeepsOrder
  <1>6. ASSUME NEW ok \in BOOLEAN, Flush(ok) PROVE WireInOrder'
    BY <1>6, FlushKeepsOrder
  <1> QED  BY <1>1, <1>2, <1>3, <1>4, <1>5, <1>6 DEF Next

-----------------------------------------------------------------------------
\* The bytes of the datagrams g of w.
BytesOf(w, g) == UNION {Numbers(w[i].bytes) : i \in g}

Elements(h) == {h[i] : i \in 1 .. Len(h)}

\* What the stream holds and the listener has heard are bytes the network has
\* brought; and as long as it keeps the order, those held come after those heard.
StreamInOrder ==
  /\ gone \subseteq 1 .. Len(wire)
  /\ held \in Seq(AnyByte)
  /\ heard \in Seq(Nat) /\ Elements(heard) \subseteq BytesOf(wire, gone)
  /\ Channel!Increasing(heard)
  /\ remote = Sender =>
       /\ Rising(held) /\ Numbers(held) \subseteq BytesOf(wire, gone)
       /\ orderly => Before(Elements(heard), Numbers(held))

\* The inductive invariant of the link.
LinkInv == SinkInv /\ WireInOrder /\ StreamInOrder

\* The listener's numbers grow by those of the bytes a.
LEMMA HeardGrows ==
  ASSUME NEW h \in Seq(Nat), NEW a \in Seq(AnyByte), Channel!Increasing(h), Rising(a),
         Before(Elements(h), Numbers(a))
  PROVE  LET g == h \o [i \in 1 .. Len(a) |-> a[i].number]
         IN  /\ g \in Seq(Nat) /\ Len(g) = Len(h) + Len(a)
             /\ SubSeq(g, 1, Len(h)) = h
             /\ Elements(g) = Elements(h) \cup Numbers(a)
             /\ Channel!Increasing(g)
  <1> DEFINE t == [i \in 1 .. Len(a) |-> a[i].number]
             g == h \o t
  <1>1. Len(h) \in Nat /\ Len(a) \in Nat  BY LenProperties
  <1>2. t \in Seq(Nat) /\ Len(t) = Len(a)
    <2>1. t \in [1 .. Len(a) -> Nat]  BY NumberOf
    <2>2. t \in Seq(Nat) /\ DOMAIN t = 1 .. Len(a)  BY <1>1, <2>1
    <2>3. Len(t) \in Nat /\ DOMAIN t = 1 .. Len(t)  BY <2>2, LenProperties
    <2> HIDE DEF t
    <2> QED  BY <1>1, <2>2, <2>3
  <1>3. \A i \in 1 .. Len(a) : t[i] = a[i].number  OBVIOUS
  <1> HIDE DEF t
  <1>4. /\ g \in Seq(Nat) /\ Len(g) = Len(h) + Len(a)
        /\ \A i \in 1 .. Len(h) + Len(a) : g[i] = IF i <= Len(h) THEN h[i] ELSE t[i - Len(h)]
    <2>1. /\ g \in Seq(Nat) /\ Len(g) = Len(h) + Len(t)
          /\ \A i \in 1 .. Len(h) + Len(t) :
               g[i] = IF i <= Len(h) THEN h[i] ELSE t[i - Len(h)]
      BY <1>2, ConcatProperties
    <2> HIDE DEF g
    <2> QED  BY <1>2, <2>1
  <1> HIDE DEF g
  <1>5. \A i \in 1 .. Len(h) : i \in 1 .. Len(g) /\ g[i] = h[i]
    <2> SUFFICES ASSUME NEW i \in 1 .. Len(h) PROVE i \in 1 .. Len(g) /\ g[i] = h[i]
      OBVIOUS
    <2>1. i \in 1 .. Len(h) + Len(a) /\ i <= Len(h)  BY <1>1
    <2> QED  BY <1>4, <2>1
  <1>6. \A i \in 1 .. Len(a) : i + Len(h) \in 1 .. Len(g) /\ g[i + Len(h)] = a[i].number
    <2> SUFFICES ASSUME NEW i \in 1 .. Len(a)
                 PROVE  i + Len(h) \in 1 .. Len(g) /\ g[i + Len(h)] = a[i].number
      OBVIOUS
    <2> DEFINE j == i + Len(h)
    <2>1. j \in 1 .. Len(h) + Len(a) /\ ~ (j <= Len(h)) /\ j - Len(h) = i  BY <1>1
    <2> QED  BY <1>3, <1>4, <2>1
  <1>7. \A j \in 1 .. Len(g) : \/ j \in 1 .. Len(h)
                                \/ \E i \in 1 .. Len(a) : j = i + Len(h)
    <2> SUFFICES ASSUME NEW j \in 1 .. Len(g), ~ (j \in 1 .. Len(h))
                 PROVE  \E i \in 1 .. Len(a) : j = i + Len(h)
      OBVIOUS
    <2>1. j - Len(h) \in 1 .. Len(a) /\ j = (j - Len(h)) + Len(h)  BY <1>1, <1>4
    <2> QED  BY <2>1
  <1>8. SubSeq(g, 1, Len(h)) = h
    <2>1. SubSeq(g, 1, Len(h)) \in Seq(Nat) /\ Len(SubSeq(g, 1, Len(h))) = Len(h)
      BY <1>1, <1>4, SubSeqProperties
    <2>2. \A i \in 1 .. Len(h) : SubSeq(g, 1, Len(h))[i] = g[i]
      BY <1>1, <1>4, SubSeqProperties
    <2>3. \A i \in 1 .. Len(h) : SubSeq(g, 1, Len(h))[i] = h[i]  BY <1>5, <2>2
    <2> QED  BY <2>1, <2>3, SeqEqual
  <1>9. Elements(g) = Elements(h) \cup Numbers(a)
    <2>1. ASSUME NEW j \in 1 .. Len(g) PROVE g[j] \in Elements(h) \cup Numbers(a)
      <3>1. CASE j \in 1 .. Len(h)
        BY <1>5, <3>1 DEF Elements
      <3>2. ASSUME NEW i \in 1 .. Len(a), j = i + Len(h) PROVE g[j] \in Numbers(a)
        BY <1>6, <3>2, NumberOf
      <3> QED  BY <1>7, <3>1, <3>2
    <2>2. Elements(h) \subseteq Elements(g)  BY <1>5 DEF Elements
    <2>3. Numbers(a) \subseteq Elements(g)  BY <1>6 DEF Elements, Numbers
    <2> QED  BY <2>1, <2>2, <2>3 DEF Elements
  <1>10. Channel!Increasing(g)
    <2> SUFFICES ASSUME NEW i \in 1 .. Len(g) - 1 PROVE g[i] < g[i + 1]
      BY DEF Channel!Increasing
    <2>1. CASE i + 1 <= Len(h)
      <3>1. i \in 1 .. Len(h) - 1 /\ i \in 1 .. Len(h) /\ i + 1 \in 1 .. Len(h)
        BY <1>1, <2>1
      <3> QED  BY <1>5, <3>1 DEF Channel!Increasing
    <2>2. CASE i = Len(h)
      <3>1. i \in 1 .. Len(h) /\ 1 \in 1 .. Len(a) /\ 1 + Len(h) = i + 1
        BY <1>1, <1>4, <2>2
      <3>2. g[i] = h[i] /\ g[i + 1] = a[1].number  BY <1>5, <1>6, <3>1
      <3>3. h[i] \in Elements(h) /\ a[1].number \in Numbers(a)
        BY <3>1 DEF Elements, Numbers
      <3> QED  BY <3>2, <3>3 DEF Before
    <2>3. CASE i > Len(h)
      <3>1. /\ i - Len(h) \in 1 .. Len(a) /\ i + 1 - Len(h) \in 1 .. Len(a)
            /\ i - Len(h) < i + 1 - Len(h)
            /\ i = (i - Len(h)) + Len(h) /\ i + 1 = (i + 1 - Len(h)) + Len(h)
        BY <1>1, <1>4, <2>3
      <3>2. g[i] = a[i - Len(h)].number  BY <1>6, <3>1
      <3>3. g[i + 1] = a[i + 1 - Len(h)].number  BY <1>6, <3>1
      <3>4. a[i - Len(h)].number < a[i + 1 - Len(h)].number  BY <3>1 DEF Rising
      <3> QED  BY <3>2, <3>3, <3>4
    <2> QED  BY <1>1, <1>4, <2>1, <2>2, <2>3
  <1> QED  BY <1>4, <1>8, <1>9, <1>10 DEF g, t

LEMMA RestIsBytes ==
  ASSUME NEW s \in Seq(AnyByte), NEW n \in Nat
  PROVE  R!RestAfter(s, n) \in Seq(AnyByte)
  <1>1. Len(s) \in Nat  BY LenProperties
  <1>2. \A i \in n + 1 .. Len(s) : s[i] \in AnyByte  BY <1>1, ElementOfSeq
  <1> QED  BY <1>1, <1>2, SubSeqProperties DEF R!RestAfter

\* What a read returns comes before what it leaves.
LEMMA ReadCuts ==
  ASSUME NEW s \in Seq(AnyByte), NEW n \in Nat, Rising(s)
  PROVE  LET a == R!Returned(s, n)
             b == R!RestAfter(s, n)
         IN  /\ a \in Seq(AnyByte) /\ b \in Seq(AnyByte)
             /\ Rising(a) /\ Rising(b)
             /\ Numbers(a) \subseteq Numbers(s) /\ Numbers(b) \subseteq Numbers(s)
             /\ Before(Numbers(a), Numbers(b))
  <1> DEFINE m == IF n < Len(s) THEN n ELSE Len(s)
             a == SubSeq(s, 1, m)
             b == SubSeq(s, n + 1, Len(s))
  <1>1. Len(s) \in Nat /\ m \in Nat /\ m <= Len(s) /\ m <= n  BY LenProperties
  <1> HIDE DEF m
  <1>2. /\ a \in Seq(AnyByte) /\ Len(a) = m
        /\ \A i \in 1 .. m : i \in 1 .. Len(s) /\ a[i] = s[i]
    <2>1. \A i \in 1 .. m : s[i] \in AnyByte  BY <1>1, ElementOfSeq
    <2> QED  BY <1>1, <2>1, SubSeqProperties
  <1>3. /\ b \in Seq(AnyByte) /\ Len(b) \in Nat
        /\ \A i \in 1 .. Len(b) : n + i \in 1 .. Len(s) /\ b[i] = s[n + i]
    <2>1. \A i \in n + 1 .. Len(s) : s[i] \in AnyByte  BY <1>1, ElementOfSeq
    <2>2. /\ b \in Seq(AnyByte)
          /\ Len(b) = IF n + 1 <= Len(s) THEN Len(s) - (n + 1) + 1 ELSE 0
          /\ \A i \in 1 .. Len(s) - (n + 1) + 1 : b[i] = s[n + 1 + i - 1]
      BY <1>1, <2>1, SubSeqProperties
    <2> HIDE DEF b
    <2>3. ASSUME NEW i \in 1 .. Len(b) PROVE n + i \in 1 .. Len(s) /\ b[i] = s[n + i]
      <3>1. i \in 1 .. Len(s) - (n + 1) + 1 /\ n + i \in 1 .. Len(s) /\ n + 1 + i - 1 = n + i
        BY <1>1, <2>2
      <3> QED  BY <2>2, <3>1
    <2> QED  BY <1>1, <2>2, <2>3
  <1> HIDE DEF a, b
  <1>4. Rising(a) /\ Numbers(a) \subseteq Numbers(s)
    BY <1>2 DEF Rising, Numbers
  <1>5. Rising(b) /\ Numbers(b) \subseteq Numbers(s)
    <2>1. ASSUME NEW i \in 1 .. Len(b), NEW j \in 1 .. Len(b), i < j
          PROVE  b[i].number < b[j].number
      <3>1. n + i \in 1 .. Len(s) /\ n + j \in 1 .. Len(s) /\ n + i < n + j
        BY <1>3, <2>1
      <3> QED  BY <1>3, <3>1 DEF Rising
    <2> QED  BY <1>3, <2>1 DEF Rising, Numbers
  <1>6. Before(Numbers(a), Numbers(b))
    <2> SUFFICES ASSUME NEW i \in 1 .. Len(a), NEW j \in 1 .. Len(b)
                 PROVE  a[i].number < b[j].number
      BY DEF Before, Numbers
    <2>1. i \in 1 .. Len(s) /\ n + j \in 1 .. Len(s) /\ i < n + j  BY <1>1, <1>2, <1>3
    <2> QED  BY <1>2, <1>3, <2>1 DEF Rising
  <1>7. a = R!Returned(s, n) /\ b = R!RestAfter(s, n)
    BY DEF R!Returned, R!RestAfter, a, b, m
  <1> QED  BY <1>2, <1>3, <1>4, <1>5, <1>6, <1>7

-----------------------------------------------------------------------------
\* The sink can only add to the wire.
LEMMA WireGrows ==
  ASSUME SinkInv, [Next]_vars, NEW g, g \subseteq 1 .. Len(wire)
  PROVE  g \subseteq 1 .. Len(wire') /\ BytesOf(wire', g) = BytesOf(wire, g)
  <1>1. CASE wire' = wire  BY <1>1
  <1>2. ASSUME Flush(TRUE) PROVE g \subseteq 1 .. Len(wire') /\ BytesOf(wire', g) = BytesOf(wire, g)
    <2> DEFINE d == [to |-> dest, bytes |-> pending]
    <2>1. wire' = Append(wire, d)  BY <1>2 DEF Flush
    <2>2. TypeOK /\ d \in [to : Peers, bytes : Seq(Byte)]
      BY <1>2 DEF SinkInv, TypeOK, Flush
    <2> HIDE DEF d
    <2>3. /\ Len(wire') = Len(wire) + 1 /\ Len(wire) \in Nat
          /\ \A i \in 1 .. Len(wire) : wire'[i] = wire[i]
      BY <2>1, <2>2, SentOfAppend
    <2>4. 1 .. Len(wire) \subseteq 1 .. Len(wire')  BY <2>3
    <2>5. \A i \in g : wire'[i] = wire[i]  BY <2>3
    <2> QED  BY <2>4, <2>5 DEF BytesOf
  <1>3. wire' = wire \/ Flush(TRUE)
    <2>1. ASSUME NEW ok \in BOOLEAN, Flush(ok) PROVE wire' = wire \/ Flush(TRUE)
      BY <2>1 DEF Flush
    <2>2. (\E ok \in BOOLEAN : Flush(ok)) \/ wire' = wire
      BY DEF Next, vars, Begin, End, SetPacketBuffer, Refused, Write
    <2> QED  BY <2>1, <2>2
  <1> QED  BY <1>1, <1>2, <1>3

\* A step of the sink leaves the stream and the listener in order.
LEMMA SinkStepKeepsStream ==
  ASSUME LinkInv, [Next]_vars, UNCHANGED <<streamVars, netVars, heard>>
  PROVE  StreamInOrder'
  <1>1. /\ gone' = gone /\ held' = held /\ remote' = remote /\ orderly' = orderly
        /\ heard' = heard
    BY DEF streamVars, netVars
  <1>2. gone \subseteq 1 .. Len(wire') /\ BytesOf(wire', gone) = BytesOf(wire, gone)
    BY WireGrows DEF LinkInv, StreamInOrder
  <1> QED  BY <1>1, <1>2 DEF LinkInv, StreamInOrder

\* What opening and closing the stream leave: nothing held.
LEMMA EmptyStreamInOrder ==
  ASSUME LinkInv, held' = <<>>, UNCHANGED <<wire, gone, heard>>
  PROVE  StreamInOrder'
  <1>1. /\ Rising(held') /\ Numbers(held') = {} /\ held' \in Seq(AnyByte)
    BY NothingRises
  <1>2. Before(Elements(heard'), Numbers(held'))  BY <1>1 DEF Before
  <1> QED  BY <1>1, <1>2 DEF LinkInv, StreamInOrder

LEMMA LoseKeepsStream ==
  ASSUME LinkInv, NEW i \in 1 .. Len(wire), Lose(i)
  PROVE  StreamInOrder'
  <1>1. /\ wire' = wire /\ gone' = gone \cup {i} /\ held' = held /\ remote' = remote
        /\ orderly' = orderly /\ heard' = heard
    BY DEF Lose, vars, streamVars
  <1>2. gone' \subseteq 1 .. Len(wire')  BY <1>1 DEF LinkInv, StreamInOrder
  <1>3. BytesOf(wire, gone) \subseteq BytesOf(wire', gone')  BY <1>1 DEF BytesOf
  <1> QED  BY <1>1, <1>2, <1>3 DEF LinkInv, StreamInOrder

\* The bytes s come from the sink, and while the network keeps the order from
\* behind all the listener has heard.
Fresh(s, w, g, h, inOrder) ==
  /\ Rising(s) /\ Numbers(s) \subseteq BytesOf(w, g)
  /\ inOrder => Before(Elements(h), Numbers(s))

\* The datagram that arrives.
LEMMA ArrivalIsFresh ==
  ASSUME LinkInv, NEW i \in InFlight, Arrives(i), wire' = wire
  PROVE  /\ gone' \subseteq 1 .. Len(wire')
         /\ BytesOf(wire, gone) \subseteq BytesOf(wire', gone')
         /\ orderly' => orderly
         /\ Arrival(i).bytes \in Seq(AnyByte)
         /\ Arrival(i).from = Sender =>
              Fresh(Arrival(i).bytes, wire', gone', heard, orderly')
  <1>1. gone' = gone \cup ({i} \ {0})
        /\ orderly' = (orderly /\ (i = 0 \/ \A j \in gone : j < i))
    BY DEF Arrives
  <1>2. Len(wire) \in Nat /\ (i = 0 \/ i \in 1 .. Len(wire))
    <2>1. Len(wire) \in Nat  BY LenProperties DEF LinkInv, SinkInv, TypeOK
    <2> QED  BY <2>1 DEF InFlight
  <1>3. gone \subseteq 1 .. Len(wire) /\ gone' \subseteq 1 .. Len(wire')
    BY <1>1, <1>2 DEF LinkInv, StreamInOrder
  <1>4. BytesOf(wire, gone) \subseteq BytesOf(wire', gone')  BY <1>1 DEF BytesOf
  <1>5. CASE i = 0
    <2>1. Arrival(i) = Foreign  BY <1>5 DEF Arrival
    <2>2. Foreign.from # Sender  BY DEF Foreign, Sender
    <2>3. Foreign.bytes \in Seq(AnyByte)
      <3>1. [number |-> 0, to |-> Here] \in AnyByte  BY LinkAssumption DEF AnyByte
      <3>2. Foreign.bytes \in [1 .. ForeignSize -> AnyByte]  BY <3>1 DEF Foreign
      <3> QED  BY <3>2, LinkAssumption
    <2> QED  BY <1>1, <1>3, <1>4, <2>1, <2>2, <2>3
  <1>6. CASE i \in 1 .. Len(wire)
    <2>1. i # 0 /\ i \in gone'  BY <1>1, <1>2, <1>6
    <2>2. Arrival(i).bytes = wire[i].bytes  BY <2>1 DEF Arrival
    <2>3. wire[i].bytes \in Seq(AnyByte)
      BY <1>6, WireBytes, ByteIsAny DEF LinkInv
    <2>4. Rising(wire[i].bytes)  BY <1>6 DEF LinkInv, WireInOrder, InOrder
    <2>5. Numbers(wire[i].bytes) \subseteq BytesOf(wire', gone')
      BY <2>1 DEF BytesOf
    <2>6. ASSUME orderly' PROVE Before(Elements(heard), Numbers(wire[i].bytes))
      <3>1. ASSUME NEW x \in Elements(heard), NEW y \in Numbers(wire[i].bytes) PROVE x < y
        <4>1. PICK j \in gone : x \in Numbers(wire[j].bytes)
          BY <3>1 DEF LinkInv, StreamInOrder, BytesOf
        <4>2. j \in 1 .. Len(wire) /\ j < i  BY <1>1, <1>3, <2>1, <2>6
        <4>3. Before(Numbers(wire[j].bytes), Numbers(wire[i].bytes))
          BY <1>6, <4>2 DEF LinkInv, WireInOrder, InOrder
        <4> QED  BY <3>1, <4>1, <4>3 DEF Before
      <3> QED  BY <3>1 DEF Before
    <2> QED  BY <1>1, <1>3, <1>4, <2>2, <2>3, <2>4, <2>5, <2>6 DEF Fresh
  <1> QED  BY <1>2, <1>5, <1>6

LEMMA PollKeepsStream ==
  ASSUME LinkInv, Poll
  PROVE  StreamInOrder' /\ UNCHANGED <<given, heard>>
  <1>1. PICK i \in InFlight : R!Poll(Arrival(i)) /\ Arrives(i)  BY DEF Poll
  <1>2. wire' = wire /\ given' = given /\ heard' = heard  BY DEF Poll, vars
  <1>3. held' = Arrival(i).bytes /\ remote' = Arrival(i).from  BY <1>1 DEF R!Poll
  <1>4. /\ gone' \subseteq 1 .. Len(wire')
        /\ BytesOf(wire, gone) \subseteq BytesOf(wire', gone')
        /\ Arrival(i).bytes \in Seq(AnyByte)
        /\ Arrival(i).from = Sender =>
             Fresh(Arrival(i).bytes, wire', gone', heard, orderly')
    BY <1>1, <1>2, ArrivalIsFresh
  <1> QED  BY <1>2, <1>3, <1>4 DEF LinkInv, StreamInOrder, Fresh

\* The listener keeps what a read of n of the fresh bytes s returned.
LEMMA ReadKeepsStream ==
  ASSUME LinkInv, NEW n \in Nat, NEW s \in Seq(AnyByte),
         wire' = wire, gone' \subseteq 1 .. Len(wire'),
         BytesOf(wire, gone) \subseteq BytesOf(wire', gone'),
         orderly' => orderly,
         remote' = Sender => Fresh(s, wire', gone', heard, orderly'),
         held' = R!RestAfter(s, n), Keep(R!Returned(s, n))
  PROVE  StreamInOrder' /\ [Channel!Hear]_(Channel!cvars)
  <1> DEFINE a == R!Returned(s, n)
             b == R!RestAfter(s, n)
             h == heard \o [i \in 1 .. Len(a) |-> a[i].number]
  <1>1. /\ heard \in Seq(Nat) /\ Elements(heard) \subseteq BytesOf(wire', gone')
        /\ Channel!Increasing(heard)
    BY DEF LinkInv, StreamInOrder
  <1>2. b \in Seq(AnyByte)
    BY RestIsBytes
  <1>3. given' = given /\ heard' = IF orderly' /\ remote' = Sender THEN h ELSE heard
    BY DEF Keep, vars
  <1>4. ASSUME remote' = Sender
        PROVE  /\ a \in Seq(AnyByte) /\ Rising(a) /\ Rising(b)
               /\ Numbers(a) \subseteq BytesOf(wire', gone')
               /\ Numbers(b) \subseteq BytesOf(wire', gone')
               /\ Before(Numbers(a), Numbers(b))
               /\ orderly' => Before(Elements(heard), Numbers(a))
               /\ orderly' => Before(Elements(heard), Numbers(b))
    <2>1. Fresh(s, wire', gone', heard, orderly') /\ Rising(s)  BY <1>4 DEF Fresh
    <2>2. /\ a \in Seq(AnyByte) /\ Rising(a) /\ Rising(b)
          /\ Numbers(a) \subseteq Numbers(s) /\ Numbers(b) \subseteq Numbers(s)
          /\ Before(Numbers(a), Numbers(b))
      BY <2>1, ReadCuts
    <2> HIDE DEF a, b
    <2> QED  BY <2>1, <2>2 DEF Fresh, Before
  <1> HIDE DEF a, b
  <1>5. ASSUME orderly', remote' = Sender
        PROVE  /\ h \in Seq(Nat) /\ Len(h) = Len(heard) + Len(a)
               /\ SubSeq(h, 1, Len(heard)) = heard
               /\ Elements(h) = Elements(heard) \cup Numbers(a)
               /\ Channel!Increasing(h)
    BY <1>1, <1>4, <1>5, HeardGrows
  <1> HIDE DEF h
  <1>6. /\ heard' \in Seq(Nat) /\ Elements(heard') \subseteq BytesOf(wire', gone')
        /\ Channel!Increasing(heard')
    BY <1>1, <1>3, <1>4, <1>5
  <1>7. ASSUME remote' = Sender, orderly' PROVE Before(Elements(heard'), Numbers(held'))
    <2>1. heard' = h /\ held' = b  BY <1>3, <1>7 DEF b
    <2>2. Elements(h) = Elements(heard) \cup Numbers(a)  BY <1>5, <1>7
    <2> QED  BY <1>4, <1>7, <2>1, <2>2 DEF Before
  <1>8. held' = b  BY DEF b
  <1>9. StreamInOrder'
    BY <1>2, <1>4, <1>6, <1>7, <1>8 DEF StreamInOrder
  <1>10. Elements(heard') \subseteq 1 .. given
    <2>1. BytesOf(wire', gone') \subseteq 1 .. given
      BY WireBytes DEF BytesOf, LinkInv
    <2> QED  BY <1>6, <2>1
  <1>11. heard' = heard \/ Channel!Hear
    <2>1. CASE ~ (orderly' /\ remote' = Sender)  BY <1>3, <2>1
    <2>2. CASE orderly' /\ remote' = Sender
      <3>1. heard' = h /\ Len(a) \in Nat /\ Len(heard) \in Nat
        BY <1>1, <1>3, <1>4, <2>2, LenProperties
      <3>2. CASE Len(a) = 0
        <4>1. SubSeq(h, 1, Len(h)) = h  BY <1>5, <2>2, SubSeqFull
        <4> QED  BY <1>5, <2>2, <3>1, <3>2, <4>1
      <3>3. CASE Len(a) > 0
        <4>1. Len(heard') > Len(heard) /\ SubSeq(heard', 1, Len(heard)) = heard
          BY <1>5, <2>2, <3>1, <3>3
        <4>2. \A i \in 1 .. Len(heard') : heard'[i] \in 1 .. given
          BY <1>10 DEF Elements
        <4> QED  BY <1>3, <1>6, <4>1, <4>2 DEF Channel!Hear
      <3> QED  BY <3>1, <3>2, <3>3
    <2> QED  BY <2>1, <2>2
  <1> QED  BY <1>3, <1>9, <1>11 DEF Channel!cvars

-----------------------------------------------------------------------------
\* A step of the sink is one of its own module, and writes to the channel or
\* leaves it alone.
LEMMA SinkStepWrites ==
  ASSUME LinkInv, Next, heard' = heard
  PROVE  [Channel!Write]_(Channel!cvars)
  <1>1. given' = given \/ \E count \in WriteSizes : Write(count)
    BY DEF Next, Begin, End, SetPacketBuffer, Refused, Flush
  <1>2. ASSUME NEW count \in WriteSizes, Write(count), given' # given
        PROVE  Channel!Write
    <2>1. count \in Nat /\ TypeOK /\ BufferHoldsPending
      BY SinkAssumption DEF LinkInv, SinkInv
    <2>2. /\ Fits(count) \in Nat /\ given' = given + Fits(count)
          /\ given + Fits(count) <= MaxGiven
      BY <1>2, <2>1, TakenBytes DEF Write
    <2>3. given \in Nat /\ MaxGiven \in Nat  BY <2>1, SinkAssumption DEF TypeOK
    <2>4. Fits(count) \in 1 .. MaxGiven  BY <1>2, <2>2, <2>3
    <2> QED  BY <2>2, <2>4 DEF Channel!Write
  <1> QED  BY <1>1, <1>2 DEF Channel!cvars

LEMMA SinkStepInLink ==
  ASSUME LinkInv, Next, UNCHANGED <<streamVars, netVars, heard, settled>>
  PROVE  StreamInOrder' /\ [Channel!Write \/ Channel!Hear]_(Channel!cvars)
  <1>1. StreamInOrder'  BY SinkStepKeepsStream
  <1>2. [Channel!Write]_(Channel!cvars)  BY SinkStepWrites
  <1> QED  BY <1>1, <1>2

\* Every step of the link is one of the sink, or leaves the sink alone.
LEMMA LinkStepsSink == [LinkNext]_linkVars => [Next]_vars
  <1> SUFFICES ASSUME [LinkNext]_linkVars, ~ UNCHANGED vars PROVE Next
    OBVIOUS
  <1>1. ~ (OpenStream \/ OpenStreamFails \/ CloseStream \/ Poll)
    BY DEF OpenStream, OpenStreamFails, CloseStream, StreamStep, Poll
  <1>2. ~ \E i \in 1 .. Len(wire) : Lose(i)  BY DEF Lose
  <1>3. ~ \E n \in 1 .. MaxTake : ReadHeld(n) \/ ReadNext(n)
    BY DEF ReadHeld, ReadNext, Keep
  <1>4. ~ UNCHANGED linkVars  BY DEF linkVars
  <1> QED
    BY <1>1, <1>2, <1>3, <1>4
    DEF LinkNext, Next, SinkStep, OpenSink, CloseSink, ChangeBuffer, RefusedBySink,
        WriteSink, FlushSink

LEMMA ReadStepInLink ==
  ASSUME LinkInv, NEW n \in 1 .. MaxTake, ReadHeld(n) \/ ReadNext(n)
  PROVE  StreamInOrder' /\ [Channel!Hear]_(Channel!cvars)
  <1>1. n \in Nat  OBVIOUS
  <1>2. CASE ReadHeld(n)
    <2>1. /\ held' = R!RestAfter(held, n) /\ remote' = remote
          /\ gone' = gone /\ orderly' = orderly /\ wire' = wire
          /\ Keep(R!Returned(held, n))
      BY <1>2 DEF ReadHeld, R!ReadHeld, netVars, Keep, vars
    <2>2. /\ held \in Seq(AnyByte) /\ gone \subseteq 1 .. Len(wire)
          /\ remote = Sender => Fresh(held, wire, gone, heard, orderly)
      BY DEF LinkInv, StreamInOrder, Fresh
    <2> QED  BY <1>1, <2>1, <2>2, ReadKeepsStream
  <1>3. CASE ReadNext(n)
    <2>1. PICK i \in InFlight :
            /\ R!ReadNext(Arrival(i), n)
            /\ Arrives(i)
            /\ Keep(R!Returned(Arrival(i).bytes, n))
      BY <1>3 DEF ReadNext
    <2>2. /\ held' = R!RestAfter(Arrival(i).bytes, n) /\ remote' = Arrival(i).from
          /\ wire' = wire
      BY <2>1 DEF R!ReadNext, R!RemoteOf, Keep, vars
    <2>3. /\ gone' \subseteq 1 .. Len(wire')
          /\ BytesOf(wire, gone) \subseteq BytesOf(wire', gone')
          /\ orderly' => orderly
          /\ Arrival(i).bytes \in Seq(AnyByte)
          /\ Arrival(i).from = Sender =>
               Fresh(Arrival(i).bytes, wire', gone', heard, orderly')
      BY <2>1, <2>2, ArrivalIsFresh
    <2> QED  BY <1>1, <2>1, <2>2, <2>3, ReadKeepsStream
  <1> QED  BY <1>2, <1>3

LEMMA LinkStep ==
  LinkInv /\ [LinkNext]_linkVars =>
    StreamInOrder' /\ [Channel!Write \/ Channel!Hear]_(Channel!cvars)
  <1> DEFINE Goal == StreamInOrder' /\ [Channel!Write \/ Channel!Hear]_(Channel!cvars)
  <1> SUFFICES ASSUME LinkInv, [LinkNext]_linkVars PROVE Goal
    OBVIOUS
  <1>1. ASSUME Next, UNCHANGED <<streamVars, netVars, heard, settled>> PROVE Goal
    BY <1>1, SinkStepInLink
  <1>2. CASE OpenStream \/ OpenStreamFails \/ CloseStream
    <2>1. held' = <<>> /\ UNCHANGED <<wire, gone, heard, given>>
      BY <1>2 DEF OpenStream, OpenStreamFails, CloseStream, StreamStep, R!Begin,
                  R!BeginFails, R!End, vars, netVars
    <2>2. StreamInOrder'  BY <2>1, EmptyStreamInOrder
    <2> QED  BY <2>1, <2>2 DEF Channel!cvars
  <1>3. ASSUME NEW i \in 1 .. Len(wire), Lose(i) PROVE Goal
    <2>1. StreamInOrder'  BY <1>3, LoseKeepsStream
    <2>2. given' = given /\ heard' = heard  BY <1>3 DEF Lose, vars
    <2> QED  BY <2>1, <2>2 DEF Channel!cvars
  <1>4. CASE Poll
    BY <1>4, PollKeepsStream DEF Channel!cvars
  <1>5. ASSUME NEW n \in 1 .. MaxTake, ReadHeld(n) \/ ReadNext(n) PROVE Goal
    <2>1. StreamInOrder' /\ [Channel!Hear]_(Channel!cvars)  BY <1>5, ReadStepInLink
    <2> QED  BY <2>1
  <1>6. CASE UNCHANGED linkVars
    <2>1. /\ wire' = wire /\ given' = given /\ gone' = gone /\ held' = held
          /\ remote' = remote /\ orderly' = orderly /\ heard' = heard
      BY <1>6 DEF linkVars, vars, streamVars, netVars
    <2> QED  BY <2>1 DEF LinkInv, StreamInOrder, Channel!cvars
  <1> HIDE DEF Goal
  <1> QED
    BY <1>1, <1>2, <1>3, <1>4, <1>5, <1>6
    DEF LinkNext, Next, SinkStep, OpenSink, CloseSink, ChangeBuffer, RefusedBySink,
        WriteSink, FlushSink

LEMMA LinkInvHolds == LinkSpec => []LinkInv
  <1>1. LinkInit => LinkInv
    <2> SUFFICES ASSUME LinkInit PROVE LinkInv
      OBVIOUS
    <2>1. /\ wire = <<>> /\ pending = <<>> /\ gone = {} /\ held = <<>> /\ heard = <<>>
          /\ Len(wire) = 0 /\ Len(heard) = 0 /\ heard \in Seq(Nat)
      BY EmptySeq DEF LinkInit, Init, R!Init
    <2>2. WireInOrder  BY <2>1, NothingRises DEF WireInOrder, InOrder
    <2>3. Elements(heard) = {} /\ Channel!Increasing(heard)
      BY <2>1 DEF Elements, Channel!Increasing
    <2>4. StreamInOrder  BY <2>1, <2>3, NothingRises DEF StreamInOrder, Before
    <2> QED  BY <2>2, <2>4, InitInv DEF LinkInit, LinkInv
  <1>2. LinkInv /\ [LinkNext]_linkVars => LinkInv'
    BY LinkStep, LinkStepsSink, StepKeepsInv, StepKeepsOrder DEF LinkInv
  <1> QED  BY <1>1, <1>2, PTL DEF LinkSpec

\* Sink, network and stream are together the lossy channel of bytes, for every set
\* of peers, buffers and read sizes, whatever the network does and foreign senders
\* add, and whatever is opened, closed or exchanged in between.
THEOREM LinkIsALossyChannel == LinkSpec => ChannelSpec
  <1>1. LinkInit => Channel!Init  BY DEF LinkInit, Init, Channel!Init
  <1>2. LinkInv /\ [LinkNext]_linkVars => [Channel!Write \/ Channel!Hear]_(Channel!cvars)
    BY LinkStep
  <1> QED  BY <1>1, <1>2, LinkInvHolds, PTL DEF LinkSpec, ChannelSpec, Channel!Spec
=============================================================================
