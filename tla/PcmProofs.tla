----------------------------- MODULE PcmProofs -----------------------------
(***************************************************************************)
(* Facts about sequences of PCM bytes and frames, for every length: what   *)
(* ringPush and ringPop do to the content of a ring, bytes as whole frames *)
(* and frames as their bytes, and gathered frames cut into packets.  The   *)
(* proofs about the queue, the receivers, the senders and the links cite   *)
(* them.                                                                   *)
(***************************************************************************)
EXTENDS PcmRing, SequenceTheorems, TLAPS

Wrap(cap, x) == IF x < cap THEN x ELSE x - cap

\* Every index the ring computes is below 2 * cap, so % subtracts cap at
\* most once.
LEMMA WrapOnce ==
  ASSUME NEW cap \in Nat \ {0}, NEW x \in Int, 0 <= x, x < 2 * cap
  PROVE  x % cap = Wrap(cap, x)
BY SMT DEF Wrap

\* Reducing a summand modulo the capacity first changes nothing.
LEMMA WrapSum ==
  ASSUME NEW cap \in Nat \ {0}, NEW h \in Slots(cap), NEW c \in Nat, NEW n \in Nat,
         c + n <= cap
  PROVE  Wrap(cap, Wrap(cap, h + c) + n) = Wrap(cap, h + (c + n))
BY SMT DEF Wrap, Slots

\* The slot of the i-th byte of the content, seen from the tail: the c bytes
\* already there lie cap - c slots ahead, new ones start at the tail itself.
LEMMA OffsetOfContent ==
  ASSUME NEW cap \in Nat \ {0}, NEW h \in Slots(cap), NEW c \in 0 .. cap,
         NEW i \in 1 .. cap
  PROVE  Offset(cap, Wrap(cap, h + c), Wrap(cap, h + i - 1))
           = IF i <= c THEN cap - c + i - 1 ELSE i - c - 1
BY SMT DEF Wrap, Slots, Offset

\* Content is a sequence of count bytes.
LEMMA ContentType ==
  ASSUME NEW cap \in Nat \ {0}, NEW B, NEW r \in Rings(cap, B)
  PROVE  /\ Content(cap, r) \in Seq(B)
         /\ Len(Content(cap, r)) = r.count
         /\ \A i \in 1 .. r.count : Content(cap, r)[i] = r.q[Wrap(cap, r.head + i - 1)]
<1>1. r.count \in 0 .. cap /\ r.head \in Slots(cap) /\ r.q \in [Slots(cap) -> B]
  BY DEF Rings
<1>2. ASSUME NEW i \in 1 .. r.count
      PROVE  /\ (r.head + i - 1) % cap = Wrap(cap, r.head + i - 1)
             /\ r.q[(r.head + i - 1) % cap] \in B
  <2>1. r.head + i - 1 \in Int /\ 0 <= r.head + i - 1 /\ r.head + i - 1 < 2 * cap
    BY <1>1 DEF Slots
  <2>2. (r.head + i - 1) % cap = Wrap(cap, r.head + i - 1)
    BY <2>1, WrapOnce
  <2>3. Wrap(cap, r.head + i - 1) \in Slots(cap)
    BY <1>1 DEF Wrap, Slots
  <2> QED  BY <1>1, <2>2, <2>3
<1> QED  BY <1>1, <1>2 DEF Content

\* Storing what fits appends it.
LEMMA StoreAppends ==
  ASSUME NEW cap \in Nat \ {0}, NEW B, NEW r \in Rings(cap, B), WellFormed(cap, r),
         NEW s \in Seq(B), r.count + Len(s) <= cap
  PROVE  /\ Store(cap, r, s) \in Rings(cap, B)
         /\ WellFormed(cap, Store(cap, r, s))
         /\ Content(cap, Store(cap, r, s)) = Content(cap, r) \o s
<1> DEFINE t == Store(cap, r, s)
<1>1. /\ r.count \in 0 .. cap /\ r.head \in Slots(cap) /\ r.tail \in Slots(cap)
      /\ r.q \in [Slots(cap) -> B]
      /\ Len(s) \in Nat
  BY DEF Rings
<1>2. /\ t = [q |-> t.q, head |-> t.head, tail |-> t.tail, count |-> t.count]
      /\ t.head = r.head /\ t.count = r.count + Len(s)
      /\ t.tail = (r.tail + Len(s)) % cap
      /\ t.q = [i \in Slots(cap) |-> IF Offset(cap, r.tail, i) < Len(s)
                                     THEN s[Offset(cap, r.tail, i) + 1] ELSE r.q[i]]
  BY <1>1 DEF Store
<1> HIDE DEF t
<1>3. r.tail = Wrap(cap, r.head + r.count)
  <2>1. r.head + r.count \in Int /\ 0 <= r.head + r.count /\ r.head + r.count < 2 * cap
    BY <1>1 DEF Slots
  <2> QED  BY <2>1, WrapOnce DEF WellFormed
<1>4. t.tail = Wrap(cap, r.tail + Len(s))
  <2>1. r.tail + Len(s) \in Int /\ 0 <= r.tail + Len(s) /\ r.tail + Len(s) < 2 * cap
    BY <1>1 DEF Slots
  <2> QED  BY <1>2, <2>1, WrapOnce
<1>5. t \in Rings(cap, B)
  <2>1. ASSUME NEW i \in Slots(cap)
        PROVE  Offset(cap, r.tail, i) \in 0 .. cap - 1
    BY <1>1 DEF Offset, Slots
  <2>2. t.q \in [Slots(cap) -> B]
    BY <1>1, <1>2, <2>1
  <2>3. t.tail \in Slots(cap)
    BY <1>1, <1>4 DEF Wrap, Slots
  <2>4. t.count \in 0 .. cap
    BY <1>1, <1>2
  <2> QED  BY <1>1, <1>2, <2>2, <2>3, <2>4 DEF Rings
<1>6. WellFormed(cap, t)
  <2>1. t.head + t.count \in Int /\ 0 <= t.head + t.count /\ t.head + t.count < 2 * cap
    BY <1>1, <1>2, SMTT(30) DEF Slots
  <2>2. (t.head + t.count) % cap = Wrap(cap, t.head + t.count)
    BY <2>1, WrapOnce
  <2>3. Wrap(cap, Wrap(cap, r.head + r.count) + Len(s))
          = Wrap(cap, r.head + (r.count + Len(s)))
    BY <1>1, WrapSum
  <2> QED  BY <1>2, <1>3, <1>4, <2>2, <2>3 DEF WellFormed
<1>7. /\ Content(cap, t) \in Seq(B) /\ Len(Content(cap, t)) = t.count
      /\ Content(cap, r) \in Seq(B) /\ Len(Content(cap, r)) = r.count
  BY <1>5, ContentType
<1>8. ASSUME NEW i \in 1 .. r.count + Len(s)
      PROVE  Content(cap, t)[i] = (Content(cap, r) \o s)[i]
  <2> DEFINE j == Wrap(cap, r.head + i - 1)
  <2>1. j \in Slots(cap)
    BY <1>1, SMTT(30) DEF Wrap, Slots
  <2>2. Content(cap, t)[i] = t.q[j]
    <3>1. i \in 1 .. t.count  BY <1>2
    <3>2. Content(cap, t)[i] = t.q[Wrap(cap, t.head + i - 1)]
      BY <1>5, <3>1, ContentType
    <3> QED  BY <1>2, <3>2
  <2>3. t.q[j] = IF Offset(cap, r.tail, j) < Len(s)
                 THEN s[Offset(cap, r.tail, j) + 1] ELSE r.q[j]
    BY <1>2, <2>1
  <2>4. Offset(cap, r.tail, j) = IF i <= r.count THEN cap - r.count + i - 1
                                 ELSE i - r.count - 1
    <3>1. i \in 1 .. cap  BY <1>1
    <3> QED  BY <1>1, <1>3, <3>1, OffsetOfContent
  <2>5. CASE i <= r.count
    <3>1. Content(cap, r)[i] = r.q[j]
      BY <2>5, <1>1, ContentType
    <3> HIDE DEF j
    <3>2. Content(cap, t)[i] = r.q[j]
      BY <1>1, <2>2, <2>3, <2>4, <2>5
    <3> QED  BY <1>1, <1>7, <2>5, <3>1, <3>2
  <2>6. CASE i > r.count
    <3> HIDE DEF j
    <3>1. t.q[j] = s[i - r.count]
      BY <1>1, <2>3, <2>4, <2>6
    <3>2. (Content(cap, r) \o s)[i] = s[i - Len(Content(cap, r))]
      BY <1>1, <1>7, <2>6, SMTT(30)
    <3> QED  BY <1>7, <2>2, <3>1, <3>2
  <2>7. i <= r.count \/ i > r.count  BY <1>1
  <2> QED  BY <2>5, <2>6, <2>7, Zenon
<1>9. Content(cap, t) = Content(cap, r) \o s
  <2>1. /\ (Content(cap, r) \o s) \in Seq(B)
        /\ Len(Content(cap, r) \o s) = Len(Content(cap, r)) + Len(s)
    BY <1>7, ConcatProperties
  <2>2. Len(Content(cap, t)) = r.count + Len(s)
    BY <1>2, <1>7
  <2>3. \A i \in 1 .. Len(Content(cap, t)) : Content(cap, t)[i] = (Content(cap, r) \o s)[i]
    BY <1>8, <2>2, Zenon
  <2>4. Len(Content(cap, t)) = Len(Content(cap, r) \o s)
    BY <1>7, <2>1, <2>2
  <2> QED  BY <1>7, <2>1, <2>3, <2>4, SeqEqual, Zenon
<1> QED  BY <1>5, <1>6, <1>9 DEF t

\* Moving head forward by k forgets the k oldest bytes.
LEMMA AdvanceForgets ==
  ASSUME NEW cap \in Nat \ {0}, NEW B, NEW r \in Rings(cap, B), WellFormed(cap, r),
         NEW k \in 0 .. r.count
  PROVE  /\ Advanced(cap, r, k) \in Rings(cap, B)
         /\ WellFormed(cap, Advanced(cap, r, k))
         /\ Advanced(cap, r, k).count = r.count - k
         /\ Content(cap, Advanced(cap, r, k)) = SubSeq(Content(cap, r), k + 1, r.count)
<1> DEFINE t == Advanced(cap, r, k)
<1>1. /\ r.count \in 0 .. cap /\ r.head \in Slots(cap) /\ r.tail \in Slots(cap)
      /\ r.q \in [Slots(cap) -> B]
  BY DEF Rings
<1>2. /\ t = [q |-> t.q, head |-> t.head, tail |-> t.tail, count |-> t.count]
      /\ t.head = (r.head + k) % cap /\ t.count = r.count - k
      /\ t.tail = r.tail /\ t.q = r.q
  BY DEF Advanced, Rings
<1> HIDE DEF t
<1>3. r.tail = Wrap(cap, r.head + r.count)
  <2>1. r.head + r.count \in Int /\ 0 <= r.head + r.count /\ r.head + r.count < 2 * cap
    BY <1>1 DEF Slots
  <2> QED  BY <2>1, WrapOnce DEF WellFormed
<1>4. t.head = Wrap(cap, r.head + k) /\ t.head \in Slots(cap)
  <2>1. r.head + k \in Int /\ 0 <= r.head + k /\ r.head + k < 2 * cap
    BY <1>1 DEF Slots
  <2>2. t.head = Wrap(cap, r.head + k)
    BY <1>2, <2>1, WrapOnce
  <2>3. Wrap(cap, r.head + k) \in Slots(cap)
    BY <1>1 DEF Wrap, Slots
  <2> QED  BY <2>2, <2>3
<1>5. t \in Rings(cap, B)
  <2>1. t.count \in 0 .. cap  BY <1>1, <1>2
  <2> QED  BY <1>1, <1>2, <1>4, <2>1 DEF Rings
<1>6. WellFormed(cap, t)
  <2>1. t.head + t.count \in Int /\ 0 <= t.head + t.count /\ t.head + t.count < 2 * cap
    BY <1>1, <1>2, <1>4 DEF Slots
  <2>2. (t.head + t.count) % cap = Wrap(cap, t.head + t.count)
    BY <2>1, WrapOnce
  <2>3. Wrap(cap, Wrap(cap, r.head + k) + (r.count - k))
          = Wrap(cap, r.head + (k + (r.count - k)))
    BY <1>1, WrapSum
  <2>4. k + (r.count - k) = r.count
    BY <1>1
  <2> QED  BY <1>2, <1>3, <1>4, <2>2, <2>3, <2>4 DEF WellFormed
<1>7. /\ Content(cap, t) \in Seq(B) /\ Len(Content(cap, t)) = r.count - k
      /\ Content(cap, r) \in Seq(B) /\ Len(Content(cap, r)) = r.count
  BY <1>2, <1>5, ContentType
<1> DEFINE u == SubSeq(Content(cap, r), k + 1, r.count)
<1>8. /\ u \in Seq(B) /\ Len(u) = r.count - k
      /\ \A i \in 1 .. r.count - k : u[i] = Content(cap, r)[k + i]
  <2>1. \A i \in (k + 1) .. r.count : Content(cap, r)[i] \in B
    BY <1>1, <1>7
  <2>2. k + 1 \in Int /\ r.count \in Int
    BY <1>1
  <2> QED  BY <1>1, <2>1, <2>2, SubSeqProperties
<1>9. ASSUME NEW i \in 1 .. r.count - k
      PROVE  Content(cap, t)[i] = u[i]
  <2>1. Wrap(cap, Wrap(cap, r.head + k) + (i - 1)) = Wrap(cap, r.head + (k + (i - 1)))
    BY <1>1, WrapSum
  <2>2. Content(cap, t)[i] = t.q[Wrap(cap, t.head + i - 1)]
    <3>1. i \in 1 .. t.count  BY <1>2
    <3> QED  BY <1>5, <3>1, ContentType
  <2>3. Content(cap, r)[k + i] = r.q[Wrap(cap, r.head + (k + i) - 1)]
    <3>1. k + i \in 1 .. r.count  BY <1>1
    <3> QED  BY <3>1, ContentType
  <2>4. /\ t.head + i - 1 = Wrap(cap, r.head + k) + (i - 1)
        /\ r.head + (k + i) - 1 = r.head + (k + (i - 1))
    BY <1>1, <1>4 DEF Slots
  <2> HIDE DEF u
  <2> QED  BY <1>2, <1>8, <2>1, <2>2, <2>3, <2>4
<1>10. Content(cap, t) = u
  <2> HIDE DEF u
  <2>1. \A i \in 1 .. Len(u) : u[i] = Content(cap, t)[i]
    BY <1>8, <1>9
  <2>2. Len(u) = Len(Content(cap, t))
    BY <1>7, <1>8
  <2> QED  BY <1>7, <1>8, <2>1, <2>2, SeqEqual
<1> QED  BY <1>2, <1>5, <1>6, <1>10 DEF t

\* The last n elements of s, described element by element.
LEMMA NewestProperties ==
  ASSUME NEW B, NEW s \in Seq(B), NEW n \in Nat
  PROVE  /\ Newest(s, n) \in Seq(B)
         /\ Len(Newest(s, n)) = IF Len(s) <= n THEN Len(s) ELSE n
         /\ \A i \in 1 .. Len(Newest(s, n)) :
              Newest(s, n)[i] = s[Len(s) - Len(Newest(s, n)) + i]
<1>1. CASE Len(s) <= n
  <2>1. Newest(s, n) = s  BY <1>1 DEF Newest
  <2> QED  BY <1>1, <2>1
<1>2. CASE ~(Len(s) <= n)
  <2> DEFINE u == SubSeq(s, Len(s) - n + 1, Len(s))
  <2>1. /\ Len(s) - n + 1 \in Int /\ Len(s) \in Int
        /\ \A i \in (Len(s) - n + 1) .. Len(s) : s[i] \in B
        /\ Len(s) - (Len(s) - n + 1) + 1 = n
    BY <1>2
  <2>2. /\ u \in Seq(B)
        /\ Len(u) = n
        /\ \A i \in 1 .. n : u[i] = s[Len(s) - n + i]
    BY <1>2, <2>1, SubSeqProperties
  <2>3. Newest(s, n) = u  BY <1>2 DEF Newest
  <2> HIDE DEF u
  <2> QED  BY <1>2, <2>2, <2>3
<1> QED  BY <1>1, <1>2, Zenon

\* The newest n bytes of old \o new are all from new when new is that long ...
LEMMA NewestOfLongTail ==
  ASSUME NEW B, NEW a \in Seq(B), NEW b \in Seq(B), NEW n \in Nat, Len(b) >= n
  PROVE  Newest(a \o b, n) = Newest(b, n)
<1> DEFINE x == Newest(a \o b, n)
           y == Newest(b, n)
<1>1. /\ a \o b \in Seq(B) /\ Len(a \o b) = Len(a) + Len(b)
      /\ \A i \in 1 .. Len(a) + Len(b) :
           (a \o b)[i] = IF i <= Len(a) THEN a[i] ELSE b[i - Len(a)]
  BY ConcatProperties
<1>2. /\ x \in Seq(B) /\ y \in Seq(B) /\ Len(x) = n /\ Len(y) = n
      /\ \A i \in 1 .. n : x[i] = (a \o b)[Len(a) + Len(b) - n + i]
      /\ \A i \in 1 .. n : y[i] = b[Len(b) - n + i]
  <2>1. /\ x \in Seq(B) /\ Len(x) = IF Len(a \o b) <= n THEN Len(a \o b) ELSE n
        /\ \A i \in 1 .. Len(x) : x[i] = (a \o b)[Len(a \o b) - Len(x) + i]
    BY <1>1, NewestProperties, ZenonT(60)
  <2>2. /\ y \in Seq(B) /\ Len(y) = IF Len(b) <= n THEN Len(b) ELSE n
        /\ \A i \in 1 .. Len(y) : y[i] = b[Len(b) - Len(y) + i]
    BY NewestProperties
  <2> HIDE DEF x, y
  <2>3. Len(x) = n /\ Len(y) = n
    BY <1>1, <2>1, <2>2
  <2>4. ASSUME NEW i \in 1 .. n
        PROVE  /\ x[i] = (a \o b)[Len(a) + Len(b) - n + i]
               /\ y[i] = b[Len(b) - n + i]
    <3>1. i \in 1 .. Len(x) /\ i \in 1 .. Len(y)
      BY <2>3
    <3>2. /\ Len(a \o b) - Len(x) + i = Len(a) + Len(b) - n + i
          /\ Len(b) - Len(y) + i = Len(b) - n + i
      BY <1>1, <2>3
    <3> QED  BY <2>1, <2>2, <3>1, <3>2, Zenon
  <2> QED  BY <2>1, <2>2, <2>3, <2>4
<1> HIDE DEF x, y
<1>3. ASSUME NEW i \in 1 .. Len(x)
      PROVE  x[i] = y[i]
  <2>1. /\ i \in 1 .. n
        /\ Len(a) + Len(b) - n + i \in 1 .. Len(a) + Len(b)
        /\ (Len(a) + Len(b) - n + i) - Len(a) = Len(b) - n + i
        /\ ~(Len(a) + Len(b) - n + i <= Len(a))
    BY <1>2
  <2>2. (a \o b)[Len(a) + Len(b) - n + i] = b[Len(b) - n + i]
    BY <1>1, <2>1
  <2> QED  BY <1>2, <2>1, <2>2
<1>4. x = y
  BY <1>2, <1>3, SeqEqual
<1> QED  BY <1>4 DEF x, y

\* ... and otherwise are what is newest in old, followed by new.
LEMMA NewestOfShortTail ==
  ASSUME NEW B, NEW a \in Seq(B), NEW b \in Seq(B), NEW n \in Nat, Len(b) <= n
  PROVE  Newest(a \o b, n) = Newest(a, n - Len(b)) \o b
<1> DEFINE x == Newest(a \o b, n)
           y == Newest(a, n - Len(b))
<1>1. /\ a \o b \in Seq(B) /\ Len(a \o b) = Len(a) + Len(b)
      /\ \A i \in 1 .. Len(a) + Len(b) :
           (a \o b)[i] = IF i <= Len(a) THEN a[i] ELSE b[i - Len(a)]
  BY ConcatProperties
<1>2. /\ x \in Seq(B) /\ Len(x) = IF Len(a \o b) <= n THEN Len(a \o b) ELSE n
      /\ \A i \in 1 .. Len(x) : x[i] = (a \o b)[Len(a \o b) - Len(x) + i]
  BY <1>1, NewestProperties, ZenonT(60)
<1>3. /\ y \in Seq(B) /\ Len(y) = IF Len(a) <= n - Len(b) THEN Len(a) ELSE n - Len(b)
      /\ \A i \in 1 .. Len(y) : y[i] = a[Len(a) - Len(y) + i]
  <2>1. n - Len(b) \in Nat  OBVIOUS
  <2> QED  BY <2>1, NewestProperties
<1> HIDE DEF x, y
<1>4. /\ y \o b \in Seq(B) /\ Len(y \o b) = Len(y) + Len(b)
      /\ \A i \in 1 .. Len(y) + Len(b) :
           (y \o b)[i] = IF i <= Len(y) THEN y[i] ELSE b[i - Len(y)]
  BY <1>3, ConcatProperties
<1>5. Len(x) = Len(y) + Len(b)
  BY <1>1, <1>2, <1>3
<1>6. ASSUME NEW i \in 1 .. Len(x)
      PROVE  x[i] = (y \o b)[i]
  <2> DEFINE k == Len(a) - Len(y) + i
  <2>1. /\ k \in 1 .. Len(a) + Len(b)
        /\ k = Len(a \o b) - Len(x) + i
        /\ k <= Len(a) <=> i <= Len(y)
        /\ k - Len(a) = i - Len(y)
        /\ i \in 1 .. Len(y) + Len(b)
    <3>1. Len(y) \in Nat /\ Len(y) <= Len(a)
      BY <1>3
    <3>2. Len(a \o b) - Len(x) = Len(a) - Len(y)
      BY <1>1, <1>5, <3>1
    <3>3. i \in 1 .. Len(y) + Len(b)
      BY <1>5
    <3> QED  BY <3>1, <3>2, <3>3
  <2> HIDE DEF k
  <2>2. x[i] = IF k <= Len(a) THEN a[k] ELSE b[k - Len(a)]
    <3>1. x[i] = (a \o b)[k]  BY <1>2, <2>1, Zenon
    <3> QED  BY <1>1, <2>1, <3>1, Zenon
  <2>3. (y \o b)[i] = IF i <= Len(y) THEN y[i] ELSE b[i - Len(y)]
    BY <1>4, <2>1, Zenon
  <2>4. i <= Len(y) => y[i] = a[k]
    <3>1. i <= Len(y) => i \in 1 .. Len(y)  BY <1>3
    <3> QED  BY <1>3, <3>1, Zenon DEF k
  <2> QED  BY <2>1, <2>2, <2>3, <2>4
<1>7. x = y \o b
  BY <1>2, <1>4, <1>5, <1>6, SeqEqual
<1> QED  BY <1>7 DEF x, y

\* MakeRoom keeps what is newest, and then n bytes fit.
LEMMA MakeRoomKeepsNewest ==
  ASSUME NEW cap \in Nat \ {0}, NEW B, NEW r \in Rings(cap, B), WellFormed(cap, r),
         NEW n \in 0 .. cap
  PROVE  /\ MakeRoom(cap, r, n) \in Rings(cap, B)
         /\ WellFormed(cap, MakeRoom(cap, r, n))
         /\ MakeRoom(cap, r, n).count + n <= cap
         /\ Content(cap, MakeRoom(cap, r, n)) = Newest(Content(cap, r), cap - n)
<1>1. r.count \in 0 .. cap  BY DEF Rings
<1>2. Len(Content(cap, r)) = r.count  BY ContentType
<1>3. CASE r.count + n > cap
  <2> DEFINE k == r.count + n - cap
  <2>1. k \in 0 .. r.count  BY <1>1, <1>3
  <2>2. /\ k + 1 = r.count - (cap - n) + 1
        /\ r.count - k + n <= cap
        /\ ~(r.count <= cap - n)
    BY <1>1, <1>3
  <2>3. MakeRoom(cap, r, n) = Advanced(cap, r, k)
    BY <1>3 DEF MakeRoom
  <2> HIDE DEF k
  <2>4. Newest(Content(cap, r), cap - n) = SubSeq(Content(cap, r), k + 1, r.count)
    BY <1>2, <2>2 DEF Newest
  <2> QED  BY <2>1, <2>2, <2>3, <2>4, AdvanceForgets, ZenonT(60)
<1>4. CASE ~(r.count + n > cap)
  <2>1. r.count <= cap - n /\ r.count + n <= cap  BY <1>1, <1>4
  <2>2. MakeRoom(cap, r, n) = r  BY <1>4 DEF MakeRoom
  <2>3. Newest(Content(cap, r), cap - n) = Content(cap, r)
    BY <1>2, <2>1 DEF Newest
  <2> QED  BY <2>1, <2>2, <2>3
<1> QED  BY <1>3, <1>4

\* ringPush: afterwards the ring holds the newest cap bytes of what it held
\* followed by the source, for every fill level and every source length.
THEOREM PushKeepsNewest ==
  ASSUME NEW cap \in Nat \ {0}, NEW B, NEW r \in Rings(cap, B), WellFormed(cap, r),
         NEW src \in Seq(B)
  PROVE  /\ RingPush(cap, r, src) \in Rings(cap, B)
         /\ WellFormed(cap, RingPush(cap, r, src))
         /\ Content(cap, RingPush(cap, r, src)) = Newest(Content(cap, r) \o src, cap)
<1> DEFINE kept == Newest(src, cap)
           n    == Len(kept)
           base == IF Len(src) >= cap THEN Emptied(r) ELSE r
           room == MakeRoom(cap, base, n)
<1>1. /\ kept \in Seq(B)
      /\ n = IF Len(src) <= cap THEN Len(src) ELSE cap
      /\ n \in 0 .. cap
  BY NewestProperties
<1>2. base \in Rings(cap, B) /\ WellFormed(cap, base)
  <2>1. Emptied(r) \in Rings(cap, B)
    BY DEF Emptied, Rings, Slots
  <2>2. WellFormed(cap, Emptied(r))
    <3>1. 0 % cap = Wrap(cap, 0)  BY WrapOnce
    <3> QED  BY <3>1 DEF WellFormed, Emptied, Wrap
  <2> QED  BY <2>1, <2>2
<1>3. RingPush(cap, r, src) = Store(cap, room, kept)
  BY DEF RingPush
<1> HIDE DEF kept, base
<1>4. /\ room \in Rings(cap, B) /\ WellFormed(cap, room) /\ room.count + n <= cap
      /\ Content(cap, room) = Newest(Content(cap, base), cap - n)
  BY <1>1, <1>2, MakeRoomKeepsNewest
<1> HIDE DEF room
<1>5. /\ Store(cap, room, kept) \in Rings(cap, B)
      /\ WellFormed(cap, Store(cap, room, kept))
      /\ Content(cap, Store(cap, room, kept))
           = Newest(Content(cap, base), cap - n) \o kept
  BY <1>1, <1>4, StoreAppends
<1>6. Content(cap, r) \in Seq(B)  BY ContentType
<1>7. CASE Len(src) >= cap
  <2>1. Newest(Content(cap, r) \o src, cap) = kept
    BY <1>6, <1>7, NewestOfLongTail DEF kept
  <2>2. Content(cap, base) \in Seq(B) /\ Len(Content(cap, base)) = 0
    <3>1. base.count = 0  BY <1>7 DEF base, Emptied
    <3> QED  BY <1>2, <3>1, ContentType
  <2>3. n = cap  BY <1>1, <1>7
  <2>4. Newest(Content(cap, base), cap - n) = <<>>
    <3>1. Content(cap, base) = <<>>  BY <2>2, EmptySeq
    <3> QED  BY <2>2, <2>3, <3>1 DEF Newest
  <2>5. <<>> \o kept = kept  BY <1>1, ConcatEmptySeq
  <2> QED  BY <1>3, <1>5, <2>1, <2>4, <2>5
<1>8. CASE ~(Len(src) >= cap)
  <2>1. base = r /\ Len(src) <= cap  BY <1>8 DEF base
  <2>2. kept = src  BY <2>1 DEF kept, Newest
  <2>3. Newest(Content(cap, r) \o src, cap) = Newest(Content(cap, r), cap - Len(src)) \o src
    BY <1>6, <2>1, NewestOfShortTail
  <2> QED  BY <1>3, <1>5, <2>1, <2>2, <2>3
<1> QED  BY <1>7, <1>8

\* ringPop: the reader gets the oldest bytes, the ring keeps the others.
THEOREM PopTakesOldest ==
  ASSUME NEW cap \in Nat \ {0}, NEW B, NEW r \in Rings(cap, B), WellFormed(cap, r),
         NEW n \in Nat
  PROVE  /\ RingPop(cap, r, n) \in Rings(cap, B)
         /\ WellFormed(cap, RingPop(cap, r, n))
         /\ Taken(r, n) \in 0 .. r.count
         /\ RingPopBytes(cap, r, n) = SubSeq(Content(cap, r), 1, Taken(r, n))
         /\ Content(cap, RingPop(cap, r, n))
              = SubSeq(Content(cap, r), Taken(r, n) + 1, Len(Content(cap, r)))
<1> DEFINE k == Taken(r, n)
           c == Content(cap, r)
<1>1. r.count \in 0 .. cap  BY DEF Rings
<1>2. k \in 0 .. r.count  BY <1>1 DEF Taken
<1>3. RingPop(cap, r, n) = Advanced(cap, r, k)  BY DEF RingPop
<1>4. RingPopBytes(cap, r, n) = [i \in 1 .. k |-> r.q[(r.head + i - 1) % cap]]
  BY DEF RingPopBytes
<1>5. c \in Seq(B) /\ Len(c) = r.count  BY ContentType
<1>6. SubSeq(c, 1, k) = [i \in 1 .. k |-> c[i]]
  <2> HIDE DEF k, c
  <2> QED  BY <1>1, <1>2, <1>5
<1>7. ASSUME NEW i \in 1 .. k PROVE c[i] = r.q[(r.head + i - 1) % cap]
  <2>1. i \in 1 .. r.count  BY <1>1, <1>2
  <2> QED  BY <2>1 DEF Content
<1> HIDE DEF k
<1>8. RingPopBytes(cap, r, n) = SubSeq(c, 1, k)
  BY <1>4, <1>6, <1>7
<1> QED  BY <1>2, <1>3, <1>5, <1>8, AdvanceForgets DEF k

-----------------------------------------------------------------------------
\* A ring with count 0 has agreeing cursors and no content.
LEMMA NothingQueued ==
  ASSUME NEW cap \in Nat \ {0}, NEW B, NEW r \in Rings(cap, B),
         r.head = 0, r.tail = 0, r.count = 0
  PROVE  WellFormed(cap, r) /\ Content(cap, r) = <<>>
<1>1. 0 % cap = Wrap(cap, 0)  BY WrapOnce
<1>2. WellFormed(cap, r)
  BY <1>1 DEF WellFormed, Wrap
<1>3. Content(cap, r) \in Seq(B) /\ Len(Content(cap, r)) = 0
  BY ContentType
<1> QED  BY <1>2, <1>3, EmptySeq

\* The ring a receiver is constructed with, and a caller's buffer.
LEMMA EmptyRingFacts ==
  ASSUME NEW cap \in Nat \ {0}, NEW B, NEW zero \in B
  PROVE  /\ EmptyRing(cap, zero) \in Rings(cap, B)
         /\ WellFormed(cap, EmptyRing(cap, zero))
         /\ Content(cap, EmptyRing(cap, zero)) = <<>>
<1>1. EmptyRing(cap, zero) \in Rings(cap, B)
  BY DEF EmptyRing, Rings, Slots
<1> QED  BY <1>1, NothingQueued DEF EmptyRing

\* begin() and end(): the emptied ring.
LEMMA EmptiedFacts ==
  ASSUME NEW cap \in Nat \ {0}, NEW B, NEW r \in Rings(cap, B)
  PROVE  /\ Emptied(r) \in Rings(cap, B)
         /\ WellFormed(cap, Emptied(r))
         /\ Content(cap, Emptied(r)) = <<>>
<1>1. Emptied(r) \in Rings(cap, B)
  BY DEF Emptied, Rings, Slots
<1> QED  BY <1>1, NothingQueued DEF Emptied

\* A set of bytes may be widened under a ring.
LEMMA RingWidens ==
  ASSUME NEW cap, NEW B, NEW C, B \subseteq C, NEW r \in Rings(cap, B)
  PROVE  r \in Rings(cap, C)
BY DEF Rings

\* Sequences over a set.
LEMMA SeqWidens ==
  ASSUME NEW S, NEW T, S \subseteq T, NEW s \in Seq(S)
  PROVE  s \in Seq(T)
OBVIOUS

\* The kind of bytes a ring holds: if everything queued is of kind S and so is
\* everything pushed, what is queued then is of kind S.
LEMMA PushKeepsKind ==
  ASSUME NEW cap \in Nat \ {0}, NEW B, NEW r \in Rings(cap, B), WellFormed(cap, r),
         NEW S, S \subseteq B, Content(cap, r) \in Seq(S), NEW src \in Seq(S)
  PROVE  /\ RingPush(cap, r, src) \in Rings(cap, B)
         /\ WellFormed(cap, RingPush(cap, r, src))
         /\ Content(cap, RingPush(cap, r, src)) \in Seq(S)
<1>1. src \in Seq(B)  BY SeqWidens
<1>2. /\ RingPush(cap, r, src) \in Rings(cap, B)
      /\ WellFormed(cap, RingPush(cap, r, src))
      /\ Content(cap, RingPush(cap, r, src)) = Newest(Content(cap, r) \o src, cap)
  BY <1>1, PushKeepsNewest
<1>3. Content(cap, r) \o src \in Seq(S)  BY ConcatProperties
<1>4. Newest(Content(cap, r) \o src, cap) \in Seq(S)  BY <1>3, NewestProperties
<1> QED  BY <1>2, <1>4

\* ... and a pop leaves and returns bytes of that kind.
LEMMA PopKeepsKind ==
  ASSUME NEW cap \in Nat \ {0}, NEW B, NEW r \in Rings(cap, B), WellFormed(cap, r),
         NEW S, Content(cap, r) \in Seq(S), NEW n \in Nat
  PROVE  /\ RingPop(cap, r, n) \in Rings(cap, B)
         /\ WellFormed(cap, RingPop(cap, r, n))
         /\ RingPop(cap, r, n).count = r.count - Taken(r, n)
         /\ Content(cap, RingPop(cap, r, n)) \in Seq(S)
         /\ RingPopBytes(cap, r, n) \in Seq(S)
<1> DEFINE c == Content(cap, r)
           k == Taken(r, n)
<1>1. /\ RingPop(cap, r, n) \in Rings(cap, B) /\ WellFormed(cap, RingPop(cap, r, n))
      /\ k \in 0 .. r.count
      /\ RingPopBytes(cap, r, n) = SubSeq(c, 1, k)
      /\ Content(cap, RingPop(cap, r, n)) = SubSeq(c, k + 1, Len(c))
  BY PopTakesOldest
<1>2. Len(c) = r.count /\ r.count \in Nat
  <2>1. r.count \in 0 .. cap  BY DEF Rings
  <2> QED  BY <2>1, ContentType
<1>3. RingPop(cap, r, n).count = r.count - k
  BY <1>2 DEF RingPop, Advanced
<1> HIDE DEF c, k
<1>4. SubSeq(c, 1, k) \in Seq(S) /\ SubSeq(c, k + 1, Len(c)) \in Seq(S)
  <2>1. c \in Seq(S)  BY DEF c
  <2>2. \A i \in 1 .. Len(c) : c[i] \in S  BY <2>1
  <2>3. k \in Int /\ k <= Len(c) /\ 0 <= k  BY <1>1, <1>2
  <2> HIDE DEF c
  <2>4. SubSeq(c, 1, k) \in Seq(S)  BY <2>1, <2>2, <2>3, SubSeqProperties
  <2>5. SubSeq(c, k + 1, Len(c)) \in Seq(S)  BY <1>2, <2>1, <2>2, <2>3, SubSeqProperties
  <2> QED  BY <2>4, <2>5
<1> QED  BY <1>1, <1>3, <1>4 DEF c, k

\* Where each byte of a ring comes from after a push of src onto old: new holds
\* the newest bytes of the two, byte p is the q-th of old followed by src.
Overrun(cap, old, src, new) ==
  /\ Len(new) = IF Len(old) + Len(src) <= cap THEN Len(old) + Len(src) ELSE cap
  /\ \A p \in 1 .. Len(new) :
       LET q == Len(old) + Len(src) - Len(new) + p
       IN  new[p] = IF q <= Len(old) THEN old[q] ELSE src[q - Len(old)]

LEMMA PushElements ==
  ASSUME NEW cap \in Nat \ {0}, NEW B, NEW r \in Rings(cap, B), WellFormed(cap, r),
         NEW src \in Seq(B)
  PROVE  /\ Content(cap, RingPush(cap, r, src)) \in Seq(B)
         /\ Overrun(cap, Content(cap, r), src, Content(cap, RingPush(cap, r, src)))
<1> DEFINE old  == Content(cap, r)
           both == old \o src
           new  == Content(cap, RingPush(cap, r, src))
<1>1. new = Newest(both, cap)  BY PushKeepsNewest
<1>2. old \in Seq(B)  BY ContentType
<1> HIDE DEF old
<1>3. /\ both \in Seq(B) /\ Len(both) = Len(old) + Len(src)
      /\ \A i \in 1 .. Len(old) + Len(src) :
           both[i] = IF i <= Len(old) THEN old[i] ELSE src[i - Len(old)]
  BY <1>2, ConcatProperties
<1> HIDE DEF both, new
<1>4. /\ new \in Seq(B)
      /\ Len(new) = IF Len(both) <= cap THEN Len(both) ELSE cap
      /\ \A p \in 1 .. Len(new) : new[p] = both[Len(both) - Len(new) + p]
  <2>1. cap \in Nat /\ both \in Seq(B)  BY <1>3
  <2> QED  BY <1>1, <2>1, NewestProperties, Zenon
<1>5. ASSUME NEW p \in 1 .. Len(new)
      PROVE  LET q == Len(old) + Len(src) - Len(new) + p
             IN  new[p] = IF q <= Len(old) THEN old[q] ELSE src[q - Len(old)]
  <2> DEFINE q == Len(old) + Len(src) - Len(new) + p
  <2>1. /\ Len(both) - Len(new) + p = q
        /\ q \in 1 .. Len(old) + Len(src)
    BY <1>2, <1>3, <1>4
  <2> HIDE DEF q
  <2>2. new[p] = both[q]  BY <1>4, <2>1
  <2>3. new[p] = IF q <= Len(old) THEN old[q] ELSE src[q - Len(old)]
    BY <1>3, <2>1, <2>2
  <2> QED  BY <2>3 DEF q
<1>6. /\ new \in Seq(B)
      /\ Len(new) = IF Len(old) + Len(src) <= cap THEN Len(old) + Len(src) ELSE cap
  BY <1>3, <1>4
<1> QED  BY <1>5, <1>6 DEF old, new, Overrun

\* ... and after a pop of n bytes: read are the first n of old, new the others.
SplitAt(n, old, read, new) ==
  /\ Len(read) = n /\ Len(new) = Len(old) - n
  /\ \A p \in 1 .. n : read[p] = old[p]
  /\ \A p \in 1 .. Len(new) : new[p] = old[n + p]

LEMMA PopElements ==
  ASSUME NEW cap \in Nat \ {0}, NEW B, NEW r \in Rings(cap, B), WellFormed(cap, r),
         NEW n \in Nat, n <= r.count
  PROVE  /\ Content(cap, RingPop(cap, r, n)) \in Seq(B)
         /\ RingPopBytes(cap, r, n) \in Seq(B)
         /\ SplitAt(n, Content(cap, r), RingPopBytes(cap, r, n),
                    Content(cap, RingPop(cap, r, n)))
<1> DEFINE old  == Content(cap, r)
           new  == Content(cap, RingPop(cap, r, n))
           read == RingPopBytes(cap, r, n)
<1>1. /\ old \in Seq(B) /\ Len(old) = r.count /\ r.count \in Nat
  <2>1. r.count \in 0 .. cap  BY DEF Rings
  <2> QED  BY <2>1, ContentType
<1>2. Taken(r, n) = n  BY <1>1 DEF Taken
<1>3. new = SubSeq(old, n + 1, Len(old)) /\ read = SubSeq(old, 1, n)
  <2>1. /\ read = SubSeq(old, 1, Taken(r, n))
        /\ new = SubSeq(old, Taken(r, n) + 1, Len(old))
    BY PopTakesOldest
  <2> QED  BY <1>2, <2>1, Zenon
<1> HIDE DEF old, new, read
<1>4. \A i \in 1 .. Len(old) : old[i] \in B  BY <1>1
<1>5. /\ new \in Seq(B) /\ Len(new) = Len(old) - n
      /\ \A p \in 1 .. Len(old) - n : new[p] = old[n + p]
  <2>1. /\ n + 1 \in Int /\ Len(old) \in Int
        /\ \A i \in n + 1 .. Len(old) : old[i] \in B
    BY <1>1, <1>4
  <2>2. /\ new \in Seq(B)
        /\ Len(new) = IF n + 1 <= Len(old) THEN Len(old) - (n + 1) + 1 ELSE 0
        /\ \A i \in 1 .. Len(old) - (n + 1) + 1 : new[i] = old[(n + 1) + i - 1]
    BY <1>3, <2>1, SubSeqProperties
  <2>3. Len(old) - (n + 1) + 1 = Len(old) - n /\ \A p \in Int : (n + 1) + p - 1 = n + p
    BY <1>1
  <2> QED  BY <1>1, <2>2, <2>3
<1>6. /\ read \in Seq(B) /\ Len(read) = n
      /\ \A p \in 1 .. n : read[p] = old[p]
  BY <1>1, <1>3, <1>4, SubSeqProperties
<1> QED  BY <1>5, <1>6 DEF old, new, read, SplitAt

-----------------------------------------------------------------------------
\* Arithmetic of whole frames: multiples of the k bytes of a frame.
LEMMA MultipleOf ==
  ASSUME NEW k \in Nat \ {0}, NEW x \in Int, x % k = 0
  PROVE  x \div k \in Int /\ x = (x \div k) * k
OBVIOUS

LEMMA ProductIsMultiple ==
  ASSUME NEW k \in Nat \ {0}, NEW x \in Int
  PROVE  (x * k) % k = 0
OBVIOUS

LEMMA MultiplesAdd ==
  ASSUME NEW k \in Nat \ {0}, NEW x \in Int, NEW y \in Int, x % k = 0, y % k = 0
  PROVE  (x + y) % k = 0 /\ (x - y) % k = 0
<1> DEFINE a == x \div k
           b == y \div k
<1>1. a \in Int /\ b \in Int /\ x = a * k /\ y = b * k  BY MultipleOf
<1> HIDE DEF a, b
<1>2. x + y = (a + b) * k /\ x - y = (a - b) * k  BY <1>1
<1>3. a + b \in Int /\ a - b \in Int  BY <1>1
<1> QED  BY <1>2, <1>3, ProductIsMultiple

LEMMA MultiplesApart ==
  ASSUME NEW k \in Nat \ {0}, NEW x \in Int, NEW y \in Int, x % k = 0, y % k = 0, x < y
  PROVE  x + k <= y
<1> DEFINE a == x \div k
           b == y \div k
<1>1. a \in Int /\ b \in Int /\ x = a * k /\ y = b * k  BY MultipleOf
<1> HIDE DEF a, b
<1>2. a < b  BY <1>1
<1>3. (b - a) * k >= k  BY <1>1, <1>2
<1> QED  BY <1>1, <1>3

LEMMA FramesAreEven ==
  ASSUME NEW c \in Nat \ {0}, NEW x \in Int, x % (2 * c) = 0
  PROVE  x % 2 = 0
<1> DEFINE a == x \div (2 * c)
<1>1. 2 * c \in Nat \ {0}  OBVIOUS
<1>2. a \in Int /\ x = a * (2 * c)  BY <1>1, MultipleOf
<1> HIDE DEF a
<1>3. x = (a * c) * 2 /\ a * c \in Int  BY <1>2
<1> QED  BY <1>3

LEMMA CutToFrames ==
  ASSUME NEW k \in Nat \ {0}, NEW x \in Nat
  PROVE  x - (x % k) \in Nat /\ x - (x % k) <= x /\ (x - (x % k)) % k = 0
<1>1. x - (x % k) = (x \div k) * k /\ x \div k \in Nat  OBVIOUS
<1>2. ((x \div k) * k) % k = 0  BY <1>1, ProductIsMultiple
<1>3. (x \div k) * k \in Nat /\ (x \div k) * k <= x  BY <1>1
<1> QED  BY <1>1, <1>2, <1>3

\* The bytes of m frames out of x bytes, and of the i-th frame among x bytes.
LEMMA BytesOfFrames ==
  ASSUME NEW k \in Nat \ {0}, NEW x \in Nat, NEW m \in Nat, m <= x \div k
  PROVE  m * k \in Nat /\ m * k <= x /\ (m * k) % k = 0
<1>1. x \div k \in Nat /\ (x \div k) * k <= x  OBVIOUS
<1>2. m * k <= (x \div k) * k  BY <1>1
<1>3. (m * k) % k = 0  BY ProductIsMultiple
<1> QED  BY <1>1, <1>2, <1>3

LEMMA FramePosition ==
  ASSUME NEW k \in Nat \ {0}, NEW x \in Nat, NEW i \in 1 .. x \div k
  PROVE  /\ (i - 1) * k \in Nat /\ (i - 1) * k + k = i * k /\ i * k <= x
         /\ ((i - 1) * k) % k = 0
<1>1. i * k <= x  BY BytesOfFrames
<1>2. (i - 1) * k + k = i * k /\ (i - 1) * k \in Nat  OBVIOUS
<1>3. ((i - 1) * k) % k = 0  BY ProductIsMultiple
<1> QED  BY <1>1, <1>2, <1>3

\* The byte sequence x cut into frames f: how many, and which bytes each one has.
CutInto(f, x, k, B) ==
  /\ f \in Seq(Seq(B))
  /\ Len(f) = Len(x) \div k
  /\ \A i \in 1 .. Len(x) \div k :
       /\ f[i] \in Seq(B)
       /\ Len(f[i]) = k
       /\ \A j \in 1 .. k : f[i][j] = x[(i - 1) * k + j]

LEMMA FramesFacts ==
  ASSUME NEW B, NEW x \in Seq(B), NEW k \in Nat \ {0}
  PROVE  CutInto(Frames(x, k), x, k, B)
<1> DEFINE n == Len(x) \div k
           f(i) == SubSeq(x, (i - 1) * k + 1, i * k)
<1>1. n \in Nat  OBVIOUS
<1>2. ASSUME NEW i \in 1 .. n
      PROVE  /\ f(i) \in Seq(B) /\ Len(f(i)) = k
             /\ \A j \in 1 .. k : f(i)[j] = x[(i - 1) * k + j]
  <2>1. (i - 1) * k \in Nat /\ (i - 1) * k + k = i * k /\ i * k <= Len(x)
    <3> DEFINE l == Len(x)
    <3>1. l \in Nat /\ i \in 1 .. l \div k  OBVIOUS
    <3> HIDE DEF l, f
    <3> QED  BY <3>1, FramePosition DEF l
  <2> DEFINE m == (i - 1) * k
  <2>2. f(i) = SubSeq(x, m + 1, m + k)  BY <2>1
  <2>3. m \in Nat /\ m + k <= Len(x)  BY <2>1
  <2> HIDE DEF m, f
  <2>4. \A h \in m + 1 .. m + k : x[h] \in B  BY <2>3
  <2>5. m + 1 \in Int /\ m + k \in Int /\ m + 1 <= m + k /\ (m + k) - (m + 1) + 1 = k
    BY <2>3
  <2>6. /\ f(i) \in Seq(B) /\ Len(f(i)) = k
        /\ \A j \in 1 .. k : f(i)[j] = x[(m + 1) + j - 1]
    BY <2>2, <2>4, <2>5, SubSeqProperties
  <2>7. \A j \in 1 .. k : (m + 1) + j - 1 = m + j  BY <2>3
  <2> QED  BY <2>6, <2>7 DEF m
<1>3. Frames(x, k) = [i \in 1 .. n |-> f(i)]  BY DEF Frames
<1> HIDE DEF n, f
<1>4. Frames(x, k) \in Seq(Seq(B)) /\ Len(Frames(x, k)) = n
  BY <1>1, <1>2, <1>3
<1>5. \A i \in 1 .. n : Frames(x, k)[i] = f(i)  BY <1>3
<1> QED  BY <1>2, <1>4, <1>5 DEF n, CutInto

\* A sequence cut short.
LEMMA PrefixOfSeq ==
  ASSUME NEW S, NEW s \in Seq(S), NEW n \in Nat, n <= Len(s)
  PROVE  SubSeq(s, 1, n) \in Seq(S) /\ Len(SubSeq(s, 1, n)) = n
         /\ \A i \in 1 .. n : SubSeq(s, 1, n)[i] = s[i]
<1>1. \A i \in 1 .. Len(s) : s[i] \in S  OBVIOUS
<1> QED  BY <1>1, SubSeqProperties

\* The first n frames of y are those of x that follow its first s.
Shifted(x, y, k, s, n) ==
  /\ s + n <= Len(x) \div k /\ n <= Len(y) \div k
  /\ \A p \in 1 .. n * k : y[p] = x[s * k + p]

LEMMA SameFrames ==
  ASSUME NEW B, NEW x \in Seq(B), NEW y \in Seq(B), NEW k \in {2, 4},
         NEW s \in Nat, NEW n \in Nat,
         Shifted(x, y, k, s, n)
  PROVE  SubSeq(Frames(y, k), 1, n) = SubSeq(Frames(x, k), s + 1, s + n)
<1> DEFINE fx == Frames(x, k)
           fy == Frames(y, k)
<1>1. CutInto(fx, x, k, B)  BY FramesFacts
<1>2. CutInto(fy, y, k, B)  BY FramesFacts
<1> HIDE DEF fx, fy
<1>3. ASSUME NEW i \in 1 .. n PROVE fy[i] = fx[s + i]
  <2>1. i \in 1 .. Len(y) \div k /\ s + i \in 1 .. Len(x) \div k
    BY DEF Shifted
  <2>2. /\ fy[i] \in Seq(B) /\ Len(fy[i]) = k
        /\ \A j \in 1 .. k : fy[i][j] = y[(i - 1) * k + j]
    BY <1>2, <2>1, Zenon DEF CutInto
  <2>3. /\ fx[s + i] \in Seq(B) /\ Len(fx[s + i]) = k
        /\ \A j \in 1 .. k : fx[s + i][j] = x[((s + i) - 1) * k + j]
    BY <1>1, <2>1, Zenon DEF CutInto
  <2>4. ASSUME NEW j \in 1 .. k PROVE fy[i][j] = fx[s + i][j]
    <3> DEFINE p == (i - 1) * k + j
    <3>1. p \in 1 .. n * k /\ ((s + i) - 1) * k + j = s * k + p
      <4>1. CASE k = 2  BY <4>1
      <4>2. CASE k = 4  BY <4>2
      <4> QED  BY <4>1, <4>2
    <3> HIDE DEF p
    <3>2. y[p] = x[s * k + p]  BY <3>1 DEF Shifted
    <3>3. fy[i][j] = y[p]  BY <2>2 DEF p
    <3>4. fx[s + i][j] = x[s * k + p]  BY <2>3, <3>1
    <3> QED  BY <3>2, <3>3, <3>4
  <2> QED  BY <2>2, <2>3, <2>4, SeqEqual
<1> DEFINE u == SubSeq(fy, 1, n)
           v == SubSeq(fx, s + 1, s + n)
<1>4. /\ u \in Seq(Seq(B)) /\ Len(u) = n /\ \A i \in 1 .. n : u[i] = fy[i]
  <2>1. n <= Len(fy)  BY <1>2 DEF Shifted, CutInto
  <2>2. fy \in Seq(Seq(B))  BY <1>2 DEF CutInto
  <2> QED  BY <2>1, <2>2, PrefixOfSeq
<1>5. /\ v \in Seq(Seq(B)) /\ Len(v) = n /\ \A i \in 1 .. n : v[i] = fx[s + i]
  <2>1. s + n <= Len(fx)  BY <1>1 DEF Shifted, CutInto
  <2>2. \A i \in 1 .. Len(fx) : fx[i] \in Seq(B)  BY <1>1 DEF CutInto
  <2>3. \A i \in s + 1 .. s + n : fx[i] \in Seq(B)  BY <2>1, <2>2
  <2>4. /\ v \in Seq(Seq(B))
        /\ Len(v) = IF s + 1 <= s + n THEN (s + n) - (s + 1) + 1 ELSE 0
        /\ \A i \in 1 .. (s + n) - (s + 1) + 1 : v[i] = fx[(s + 1) + i - 1]
    BY <2>3, SubSeqProperties
  <2>5. (s + n) - (s + 1) + 1 = n /\ \A i \in Int : (s + 1) + i - 1 = s + i
    OBVIOUS
  <2> HIDE DEF v
  <2> QED  BY <2>4, <2>5
<1> HIDE DEF u, v
<1>6. \A i \in 1 .. Len(u) : u[i] = v[i]
  BY <1>3, <1>4, <1>5
<1>7. u = v
  BY <1>4, <1>5, <1>6, SeqEqual
<1> QED  BY <1>7 DEF u, v, fx, fy

\* Byte j of the i-th of z frames, which are the last of x and then y frames.
LEMMA ByteOfLastFrames ==
  ASSUME NEW k \in {2, 4}, NEW x \in Nat, NEW y \in Nat, NEW z \in Nat,
         NEW d \in Nat, d = x + y - z, NEW i \in 1 .. z, NEW j \in 1 .. k
  PROVE  LET q == (d + i - 1) * k + j
         IN  /\ (i - 1) * k + j \in 1 .. z * k
             /\ x * k + y * k - z * k + ((i - 1) * k + j) = q
             /\ q <= x * k <=> d + i <= x
             /\ q - x * k = (d + i - x - 1) * k + j
<1>1. CASE k = 2  BY <1>1
<1>2. CASE k = 4  BY <1>2
<1> QED  BY <1>1, <1>2

\* The same in frames: when all of it is whole frames, a push leaves the newest
\* frames of the old ones and of the ones pushed behind them.
LEMMA FramesOfOverrun ==
  ASSUME NEW B, NEW k \in {2, 4}, NEW cap \in Nat,
         NEW old \in Seq(B), NEW src \in Seq(B), NEW new \in Seq(B),
         Len(old) % k = 0, Len(src) % k = 0, cap % k = 0,
         Overrun(cap, old, src, new)
  PROVE  Frames(new, k) = Newest(Frames(old, k) \o Frames(src, k), cap \div k)
<1> DEFINE fo == Frames(old, k)
           fs == Frames(src, k)
           fn == Frames(new, k)
           e  == fo \o fs
           v  == Newest(e, cap \div k)
           d  == Len(fo) + Len(fs) - Len(fn)
<1>1. CutInto(fo, old, k, B) /\ CutInto(fs, src, k, B) /\ CutInto(fn, new, k, B)
  BY FramesFacts
<1>2. /\ fo \in Seq(Seq(B)) /\ fs \in Seq(Seq(B)) /\ fn \in Seq(Seq(B))
      /\ Len(fo) = Len(old) \div k /\ Len(fs) = Len(src) \div k /\ Len(fn) = Len(new) \div k
  BY <1>1 DEF CutInto
<1> HIDE DEF fo, fs, fn
<1>3. Len(new) = IF Len(old) + Len(src) <= cap THEN Len(old) + Len(src) ELSE cap
  BY DEF Overrun
<1>4. /\ Len(fo) * k = Len(old) /\ Len(fs) * k = Len(src) /\ Len(fn) * k = Len(new)
      /\ Len(fn) = IF Len(fo) + Len(fs) <= cap \div k THEN Len(fo) + Len(fs) ELSE cap \div k
      /\ cap \div k \in Nat
  <2> DEFINE o == Len(old)
             m == Len(src)
             n == Len(new)
  <2>1. /\ o \in Nat /\ m \in Nat /\ n \in Nat /\ o % k = 0 /\ m % k = 0
        /\ n = IF o + m <= cap THEN o + m ELSE cap
    BY <1>3
  <2>2. Len(fo) = o \div k /\ Len(fs) = m \div k /\ Len(fn) = n \div k
    BY <1>2
  <2> HIDE DEF o, m, n
  <2>3. /\ (o \div k) * k = o /\ (m \div k) * k = m /\ (n \div k) * k = n
        /\ n \div k = IF o \div k + m \div k <= cap \div k THEN o \div k + m \div k ELSE cap \div k
        /\ cap \div k \in Nat
    <3>1. CASE k = 2 /\ o + m <= cap  BY <2>1, <3>1
    <3>2. CASE k = 2 /\ ~ (o + m <= cap)  BY <2>1, <3>2
    <3>3. CASE k = 4 /\ o + m <= cap  BY <2>1, <3>3
    <3>4. CASE k = 4 /\ ~ (o + m <= cap)  BY <2>1, <3>4
    <3> QED  BY <3>1, <3>2, <3>3, <3>4
  <2>4. /\ Len(fo) * k = o /\ Len(fs) * k = m /\ Len(fn) * k = n
        /\ Len(fn) = IF Len(fo) + Len(fs) <= cap \div k THEN Len(fo) + Len(fs) ELSE cap \div k
        /\ cap \div k \in Nat
    BY <2>2, <2>3, Zenon
  <2> QED  BY <2>4 DEF o, m, n
<1>5. /\ e \in Seq(Seq(B)) /\ Len(e) = Len(fo) + Len(fs)
      /\ \A i \in 1 .. Len(fo) + Len(fs) :
           e[i] = IF i <= Len(fo) THEN fo[i] ELSE fs[i - Len(fo)]
  BY <1>2, ConcatProperties
<1> HIDE DEF e
<1>6. /\ v \in Seq(Seq(B)) /\ Len(v) = Len(fn) /\ d \in Nat
      /\ \A i \in 1 .. Len(fn) : v[i] = e[d + i]
  <2>1. /\ v \in Seq(Seq(B)) /\ Len(v) = IF Len(e) <= cap \div k THEN Len(e) ELSE cap \div k
        /\ \A i \in 1 .. Len(v) : v[i] = e[Len(e) - Len(v) + i]
    BY <1>4, <1>5, NewestProperties
  <2> HIDE DEF v
  <2>2. Len(v) = Len(fn) /\ Len(e) - Len(v) = d /\ d \in Nat
    <3> DEFINE x == Len(fo)
               y == Len(fs)
               z == Len(fn)
               c == cap \div k
    <3>1. x \in Nat /\ y \in Nat /\ z \in Nat  BY <1>2, LenProperties
    <3>2. c \in Nat /\ z = IF x + y <= c THEN x + y ELSE c  BY <1>4, Zenon
    <3>3. Len(e) = x + y  BY <1>5, Zenon
    <3>4. Len(v) = IF Len(e) <= c THEN Len(e) ELSE c  BY <2>1, Zenon
    <3>5. d = x + y - z  BY Zenon
    <3> HIDE DEF c, d, x, y, z
    <3>6. Len(v) = z /\ Len(e) - Len(v) = d /\ d \in Nat
      BY <3>1, <3>2, <3>3, <3>4, <3>5
    <3> QED  BY <3>6 DEF x, y, z
  <2> HIDE DEF d
  <2> QED  BY <2>1, <2>2
<1> HIDE DEF v
<1>7. ASSUME NEW i \in 1 .. Len(fn)
      PROVE  fn[i] = v[i]
  <2>1. d + i \in 1 .. Len(fo) + Len(fs)  BY <1>2, <1>6
  <2>2. /\ Len(fn[i]) = k /\ fn[i] \in Seq(B)
        /\ \A j \in 1 .. k : fn[i][j] = new[(i - 1) * k + j]
    BY <1>1, <1>2, Zenon DEF CutInto
  <2>3. ASSUME NEW j \in 1 .. k
        PROVE  LET q == (d + i - 1) * k + j
               IN  /\ (i - 1) * k + j \in 1 .. Len(new)
                   /\ Len(old) + Len(src) - Len(new) + ((i - 1) * k + j) = q
                   /\ q <= Len(old) <=> d + i <= Len(fo)
                   /\ q - Len(old) = (d + i - Len(fo) - 1) * k + j
    <3> DEFINE x == Len(fo)
               y == Len(fs)
               z == Len(fn)
    <3>1. x \in Nat /\ y \in Nat /\ z \in Nat /\ i \in 1 .. z /\ d = x + y - z /\ d \in Nat
      BY <1>2, <1>6
    <3>2. Len(old) = x * k /\ Len(src) = y * k /\ Len(new) = z * k
      BY <1>4
    <3> HIDE DEF x, y, z, d
    <3>3. LET q == (d + i - 1) * k + j
          IN  /\ (i - 1) * k + j \in 1 .. z * k
              /\ x * k + y * k - z * k + ((i - 1) * k + j) = q
              /\ q <= x * k <=> d + i <= x
              /\ q - x * k = (d + i - x - 1) * k + j
      BY <3>1, ByteOfLastFrames
    <3> QED  BY <3>2, <3>3, Zenon DEF x
  <2>4. ASSUME NEW j \in 1 .. k
        PROVE  LET q == (d + i - 1) * k + j
               IN  fn[i][j] = IF q <= Len(old) THEN old[q] ELSE src[q - Len(old)]
    <3> DEFINE p == (i - 1) * k + j
    <3>1. new[p] = LET q == Len(old) + Len(src) - Len(new) + p
                   IN  IF q <= Len(old) THEN old[q] ELSE src[q - Len(old)]
      BY <2>3, Zenon DEF Overrun
    <3>2. fn[i][j] = new[p]  BY <2>2
    <3>3. Len(old) + Len(src) - Len(new) + p = (d + i - 1) * k + j
      BY <2>3
    <3> HIDE DEF p, d
    <3> QED  BY <3>1, <3>2, <3>3
  <2> DEFINE g == d + i
             h == g - Len(fo)
  <2>5. /\ g \in 1 .. Len(fo) + Len(fs) /\ v[i] = e[g]
        /\ g \in Int /\ Len(fo) \in Nat /\ Len(fs) \in Nat
    BY <1>2, <1>6, <2>1
  <2>6. ASSUME NEW j \in 1 .. k
        PROVE  /\ g <= Len(fo) => fn[i][j] = old[(g - 1) * k + j]
               /\ ~ (g <= Len(fo)) => fn[i][j] = src[(h - 1) * k + j]
    <3> DEFINE q == (d + i - 1) * k + j
               r == (d + i - Len(fo) - 1) * k + j
    <3>1. /\ fn[i][j] = IF q <= Len(old) THEN old[q] ELSE src[q - Len(old)]
          /\ q <= Len(old) <=> g <= Len(fo)
          /\ q - Len(old) = r
      BY <2>3, <2>4
    <3>2. q = (g - 1) * k + j /\ r = (h - 1) * k + j
      OBVIOUS
    <3> HIDE DEF q, r, g, h
    <3> QED  BY <3>1, <3>2
  <2> HIDE DEF d, g
  <2>7. CASE g <= Len(fo)
    <3> DEFINE w == fo[g]
               x == fn[i]
    <3>1. g \in 1 .. Len(fo) /\ g \in 1 .. Len(old) \div k
      BY <1>2, <2>5, <2>7
    <3>2. v[i] = w
      <4>1. e[g] = fo[g]  BY <1>5, <2>5, <2>7
      <4> QED  BY <2>5, <4>1
    <3>3. Len(w) = k /\ w \in Seq(B) /\ \A j \in 1 .. k : w[j] = old[(g - 1) * k + j]
      BY <1>1, <3>1, Zenon DEF CutInto
    <3>4. \A j \in 1 .. k : x[j] = w[j]
      BY <2>6, <2>7, <3>3
    <3>5. x \in Seq(B) /\ Len(x) = k  BY <2>2
    <3> HIDE DEF w, x
    <3>6. x = w  BY <3>3, <3>4, <3>5, SeqEqual
    <3> QED  BY <3>2, <3>6 DEF x
  <2>8. CASE ~ (g <= Len(fo))
    <3>1. h \in 1 .. Len(fs) /\ e[g] = fs[h]
      <4>1. h \in 1 .. Len(fs)  BY <2>5, <2>8
      <4>2. e[g] = IF g <= Len(fo) THEN fo[g] ELSE fs[h]
        BY <1>5, <2>5, Zenon
      <4>3. (IF g <= Len(fo) THEN fo[g] ELSE fs[h]) = fs[h]
        BY <2>8, Zenon
      <4> QED  BY <4>1, <4>2, <4>3
    <3> HIDE DEF h
    <3> DEFINE w == fs[h]
               x == fn[i]
    <3>2. h \in 1 .. Len(src) \div k  BY <1>2, <3>1
    <3>3. Len(w) = k /\ w \in Seq(B) /\ \A j \in 1 .. k : w[j] = src[(h - 1) * k + j]
      BY <1>1, <3>2, Zenon DEF CutInto
    <3>4. \A j \in 1 .. k : x[j] = w[j]
      BY <2>6, <2>8, <3>3
    <3>5. x \in Seq(B) /\ Len(x) = k  BY <2>2
    <3>6. v[i] = w  BY <2>5, <3>1
    <3> HIDE DEF w, x
    <3>7. x = w  BY <3>3, <3>4, <3>5, SeqEqual
    <3> QED  BY <3>6, <3>7 DEF x
  <2> QED  BY <2>7, <2>8
<1>8. fn = v
  BY <1>2, <1>6, <1>7, SeqEqual
<1> QED  BY <1>8 DEF fn, v, e, fo, fs

-----------------------------------------------------------------------------
\* Integer division, as computeSamplesPerPacket() and the packet loop use it.
LEMMA DivBounds ==
  ASSUME NEW a \in Nat, NEW b \in Nat \ {0}
  PROVE  /\ a \div b \in Nat
         /\ b * (a \div b) <= a
         /\ a < b * (a \div b) + b
  BY SMTT(30)

\* The packets before the last are shorter together: rows of equal length.
LEMMA RowsFit ==
  ASSUME NEW b \in Nat \ {0}, NEW k \in Nat, NEW i \in 1 .. k
  PROVE  /\ (i - 1) * b \in Nat /\ i * b \in Nat /\ k * b \in Nat
         /\ i * b = (i - 1) * b + b
         /\ i * b <= k * b
  BY SMTT(30)

\* s is a piece of g: the elements behind the first `from`.
CutAt(s, g, from) == \A j \in 1 .. Len(s) : s[j] = g[from + j]

\* One packet cut out of the gathered frames is a full packet of them.
LEMMA PacketCut ==
  ASSUME NEW S, NEW g \in Seq(S), NEW b \in Nat \ {0}, NEW i \in 1 .. Len(g) \div b
  PROVE  /\ SubSeq(g, (i - 1) * b + 1, i * b) \in Seq(S)
         /\ Len(SubSeq(g, (i - 1) * b + 1, i * b)) = b
         /\ CutAt(SubSeq(g, (i - 1) * b + 1, i * b), g, (i - 1) * b)
  <1> DEFINE k == Len(g) \div b
             lo == (i - 1) * b + 1
             hi == i * b
  <1>1. Len(g) \in Nat  BY LenProperties
  <1>2. k \in Nat /\ b * k <= Len(g)  BY <1>1, DivBounds
  <1>3. lo \in Int /\ hi \in Int /\ lo >= 1 /\ hi = lo + b - 1 /\ hi <= k * b
    BY <1>2, RowsFit
  <1>4. hi <= Len(g)
    <2>1. k * b = b * k  BY <1>2
    <2> QED  BY <2>1, <1>1, <1>2, <1>3
  <1> HIDE DEF lo, hi
  <1>5. \A j \in lo .. hi : g[j] \in S
    <2>1. ASSUME NEW j \in lo .. hi  PROVE j \in 1 .. Len(g)
      BY <2>1, <1>1, <1>3, <1>4
    <2> QED  BY <2>1, ElementOfSeq
  <1>6. SubSeq(g, lo, hi) \in Seq(S) /\ Len(SubSeq(g, lo, hi)) = IF lo <= hi THEN hi - lo + 1 ELSE 0
    BY <1>3, <1>5, SubSeqProperties
  <1>7. lo <= hi /\ hi - lo + 1 = b  BY <1>3
  <1>8. CutAt(SubSeq(g, lo, hi), g, lo - 1)
    <2>1. \A j \in 1 .. hi - lo + 1 : SubSeq(g, lo, hi)[j] = g[lo + j - 1]
      BY <1>3, <1>5, SubSeqProperties
    <2>2. \A j \in 1 .. hi - lo + 1 : lo + j - 1 = lo - 1 + j  BY <1>3
    <2> QED  BY <1>6, <1>7, <2>1, <2>2 DEF CutAt
  <1>9. lo - 1 = (i - 1) * b
    <2>1. (i - 1) * b \in Nat  BY <1>2, RowsFit
    <2> QED  BY <2>1 DEF lo
  <1> QED  BY <1>6, <1>7, <1>8, <1>9 DEF lo, hi

\* What the packet loop leaves over is less than a packet.
LEMMA RestCut ==
  ASSUME NEW S, NEW g \in Seq(S), NEW b \in Nat \ {0}
  PROVE  /\ SubSeq(g, (Len(g) \div b) * b + 1, Len(g)) \in Seq(S)
         /\ Len(SubSeq(g, (Len(g) \div b) * b + 1, Len(g))) \in Nat
         /\ Len(SubSeq(g, (Len(g) \div b) * b + 1, Len(g))) < b
         /\ Len(SubSeq(g, (Len(g) \div b) * b + 1, Len(g))) + (Len(g) \div b) * b = Len(g)
         /\ CutAt(SubSeq(g, (Len(g) \div b) * b + 1, Len(g)), g, (Len(g) \div b) * b)
  <1> DEFINE k == Len(g) \div b
             lo == k * b + 1
  <1>1. Len(g) \in Nat  BY LenProperties
  <1>2. k \in Nat /\ b * k <= Len(g) /\ Len(g) < b * k + b  BY <1>1, DivBounds
  <1>3. k * b = b * k /\ b * k \in Nat  BY <1>2
  <1>4. lo \in Int /\ lo >= 1 /\ Len(g) - lo + 1 < b /\ Len(g) - lo + 1 >= 0
    BY <1>1, <1>2, <1>3
  <1> HIDE DEF lo
  <1>5. \A j \in lo .. Len(g) : g[j] \in S
    <2>1. ASSUME NEW j \in lo .. Len(g)  PROVE j \in 1 .. Len(g)
      BY <2>1, <1>1, <1>4
    <2> QED  BY <2>1, ElementOfSeq
  <1>6. /\ SubSeq(g, lo, Len(g)) \in Seq(S)
        /\ Len(SubSeq(g, lo, Len(g))) = IF lo <= Len(g) THEN Len(g) - lo + 1 ELSE 0
    BY <1>1, <1>4, <1>5, SubSeqProperties
  <1>7. Len(SubSeq(g, lo, Len(g))) \in Nat /\ Len(SubSeq(g, lo, Len(g))) < b
    BY <1>1, <1>4, <1>6
  <1>8. lo - 1 = k * b  BY <1>3 DEF lo
  <1>9. Len(SubSeq(g, lo, Len(g))) + k * b = Len(g)
    <2>1. Len(SubSeq(g, lo, Len(g))) = Len(g) - lo + 1  BY <1>1, <1>4, <1>6
    <2> QED  BY <2>1, <1>1, <1>4, <1>8
  <1>10. CutAt(SubSeq(g, lo, Len(g)), g, lo - 1)
    <2>1. \A j \in 1 .. Len(g) - lo + 1 : SubSeq(g, lo, Len(g))[j] = g[lo + j - 1]
      BY <1>1, <1>4, <1>5, SubSeqProperties
    <2>2. \A j \in 1 .. Len(g) - lo + 1 : lo + j - 1 = lo - 1 + j  BY <1>4
    <2>3. Len(SubSeq(g, lo, Len(g))) \in 0 .. Len(g) - lo + 1  BY <1>1, <1>4, <1>6
    <2> QED  BY <1>1, <1>4, <2>1, <2>2, <2>3 DEF CutAt
  <1> QED  BY <1>6, <1>7, <1>8, <1>9, <1>10 DEF lo

\* The numbers of the elements in the i-th of several rows of b behind `from`.
Row(from, b, i) == (from + (i - 1) * b + 1) .. (from + i * b)

\* Rows of one length are not empty, ascend, and leave no number out.
RowsCover(from, b, k) == \A x \in from + 1 .. from + k * b : \E i \in 1 .. k : x \in Row(from, b, i)
RowsWithin(from, b, k) == \A i \in 1 .. k : \A x \in Row(from, b, i) : x \in from + 1 .. from + k * b
RowsAscend(from, b, k) ==
  \A i, j \in 1 .. k : i < j => \A x \in Row(from, b, i), y \in Row(from, b, j) : x < y

LEMMA RowsPartition ==
  ASSUME NEW from \in Nat, NEW b \in Nat \ {0}, NEW k \in Nat
  PROVE  /\ RowsCover(from, b, k) /\ RowsWithin(from, b, k) /\ RowsAscend(from, b, k)
         /\ \A i \in 1 .. k : from + i * b \in Row(from, b, i)
  <1>1. ASSUME NEW x \in from + 1 .. from + k * b
        PROVE  \E i \in 1 .. k : x \in Row(from, b, i)
    <2> DEFINE a == x - from - 1
               q == a \div b
    <2>1. k * b \in Nat /\ a \in Nat /\ a < k * b
      <3>1. k * b \in Nat  BY SMTT(30)
      <3> QED  BY <3>1
    <2>2. q \in Nat /\ b * q <= a /\ a < b * q + b
      BY <2>1, DivBounds
    <2> HIDE DEF q
    <2>3. q < k
      <3>1. CASE q >= k
        <4>1. b * q >= k * b  BY <2>2, <3>1, SMTT(30)
        <4>2. b * q \in Nat  BY <2>2, SMTT(30)
        <4> HIDE DEF a
        <4> QED  BY <2>1, <2>2, <4>1, <4>2
      <3> QED  BY <3>1, <2>2
    <2>4. q + 1 \in 1 .. k /\ (q + 1) - 1 = q  BY <2>2, <2>3
    <2>5. q * b = b * q /\ (q + 1) * b = b * q + b /\ b * q \in Nat  BY <2>2, SMTT(30)
    <2>6. x \in Row(from, b, q + 1)
      <3>1. x \in Int /\ from + b * q + 1 <= x /\ x <= from + (b * q + b)
        BY <2>1, <2>2, <2>5
      <3>2. Row(from, b, q + 1) = (from + q * b + 1) .. (from + (q + 1) * b)
        BY <2>4 DEF Row
      <3> HIDE DEF a
      <3> QED  BY <2>5, <3>1, <3>2
    <2> QED  BY <2>4, <2>6
  <1>2. ASSUME NEW i \in 1 .. k
        PROVE  /\ (i - 1) * b \in Nat /\ i * b \in Nat /\ k * b \in Nat
               /\ i * b = (i - 1) * b + b /\ i * b <= k * b
    BY RowsFit
  <1>3. ASSUME NEW i \in 1 .. k, NEW x \in Row(from, b, i)
        PROVE  x \in from + 1 .. from + k * b
    <2>1. x \in (from + (i - 1) * b + 1) .. (from + i * b)  BY <1>3 DEF Row
    <2> QED  BY <1>2, <2>1
  <1>4. ASSUME NEW i \in 1 .. k, NEW j \in 1 .. k, i < j,
               NEW x \in Row(from, b, i), NEW y \in Row(from, b, j)
        PROVE  x < y
    <2>1. x \in (from + (i - 1) * b + 1) .. (from + i * b)  BY <1>4 DEF Row
    <2>2. y \in (from + (j - 1) * b + 1) .. (from + j * b)  BY <1>4 DEF Row
    <2>3. i \in 1 .. j - 1 /\ j - 1 \in Nat  BY <1>4
    <2>4. i * b <= (j - 1) * b  BY <2>3, RowsFit
    <2> QED  BY <1>2, <2>1, <2>2, <2>4
  <1>5. ASSUME NEW i \in 1 .. k  PROVE from + i * b \in Row(from, b, i)
    <2>1. from + (i - 1) * b + 1 <= from + i * b  BY <1>2
    <2>2. from + i * b \in (from + (i - 1) * b + 1) .. (from + i * b)  BY <1>2, <2>1
    <2> QED  BY <2>2 DEF Row
  <1> QED  BY <1>1, <1>3, <1>4, <1>5 DEF RowsCover, RowsWithin, RowsAscend

\* A remainder that was taken before is taken once.
LEMMA ModSum ==
  ASSUME NEW M \in Nat \ {0}, NEW a \in Nat, NEW b \in Nat
  PROVE  ((a % M) + b) % M = (a + b) % M
  <1>1. a = M * (a \div M) + (a % M) /\ a \div M \in Nat /\ a % M \in 0 .. M - 1
    BY SMTT(30)
  <1> DEFINE r == a % M
             q == a \div M
             t == (r + b) \div M
             s == (r + b) % M
  <1>2. r + b \in Nat  BY <1>1
  <1>3. r + b = M * t + s /\ t \in Nat /\ s \in 0 .. M - 1
    BY <1>2, SMTT(30)
  <1>4. a = M * q + r /\ q \in Nat /\ r \in Nat  BY <1>1
  <1> HIDE DEF r, q, t, s
  <1>5. a + b = M * (q + t) + s
    <2>1. M * (q + t) = M * q + M * t /\ M * q \in Nat /\ M * t \in Nat
      BY <1>3, <1>4, SMTT(30)
    <2> QED  BY <1>3, <1>4, <2>1
  <1>6. (a + b) % M = s
    <2> DEFINE u == q + t
    <2>1. u \in Nat  BY <1>3, <1>4
    <2>2. a + b = M * u + s  BY <1>5
    <2> HIDE DEF u
    <2>3. (M * u + s) % M = s  BY <1>3, <2>1, SMTT(30)
    <2> QED  BY <2>2, <2>3
  <1> QED  BY <1>6 DEF s, r

-----------------------------------------------------------------------------
\* Byte x of the payload that carries the frames g, of k bytes each, and all of it.
ByteAt(g, k, x) == [frame |-> g[(x - 1) \div k + 1], at |-> ((x - 1) % k) + 1]

BytesIn(g, k) == [x \in 1 .. k * Len(g) |-> ByteAt(g, k, x)]

BytesOver(F) == [frame : F, at : Nat]

\* Where byte x lies: in which frame, and behind m other frames.
LEMMA ByteIndex ==
  ASSUME NEW k \in {2, 4}, NEW n \in Nat, NEW x \in 1 .. k * n
  PROVE  /\ (x - 1) \div k + 1 \in 1 .. n /\ ((x - 1) % k) + 1 \in 1 .. k
         /\ k * n \in Nat
<1>1. CASE k = 2  BY <1>1
<1>2. CASE k = 4  BY <1>2
<1> QED  BY <1>1, <1>2

LEMMA ByteBehind ==
  ASSUME NEW k \in {2, 4}, NEW m \in Nat, NEW x \in Nat \ {0}
  PROVE  /\ (k * m + x - 1) \div k + 1 = m + ((x - 1) \div k + 1)
         /\ ((k * m + x - 1) % k) + 1 = ((x - 1) % k) + 1
         /\ k * m \in Nat /\ m * k = k * m
<1>1. CASE k = 2  BY <1>1
<1>2. CASE k = 4  BY <1>2
<1> QED  BY <1>1, <1>2

LEMMA BytesInFacts ==
  ASSUME NEW F, NEW g \in Seq(F), NEW k \in {2, 4}
  PROVE  /\ BytesIn(g, k) \in Seq(BytesOver(F)) /\ Len(BytesIn(g, k)) = k * Len(g)
         /\ k * Len(g) \in Nat /\ Len(g) \in Nat
         /\ \A x \in 1 .. k * Len(g) : BytesIn(g, k)[x] = ByteAt(g, k, x)
<1>1. Len(g) \in Nat  BY LenProperties
<1>2. PICK n : n = k * Len(g)  OBVIOUS
<1>3. n \in Nat
  <2>1. CASE k = 2  BY <1>1, <1>2, <2>1
  <2>2. CASE k = 4  BY <1>1, <1>2, <2>2
  <2> QED  BY <2>1, <2>2
<1>4. ASSUME NEW x \in 1 .. n PROVE ByteAt(g, k, x) \in BytesOver(F)
  <2>1. (x - 1) \div k + 1 \in 1 .. Len(g) /\ ((x - 1) % k) + 1 \in Nat
    BY <1>1, <1>2, ByteIndex
  <2>2. g[(x - 1) \div k + 1] \in F  BY <2>1, ElementOfSeq
  <2> QED  BY <2>1, <2>2 DEF ByteAt, BytesOver
<1>5. BytesIn(g, k) = [x \in 1 .. n |-> ByteAt(g, k, x)]  BY <1>2 DEF BytesIn
<1>6. BytesIn(g, k) \in Seq(BytesOver(F)) /\ Len(BytesIn(g, k)) = n
  BY <1>3, <1>4, <1>5
<1> QED  BY <1>1, <1>2, <1>3, <1>5, <1>6

\* The payloads of two datagrams behind each other carry the frames of both.
LEMMA BytesJoin ==
  ASSUME NEW F, NEW g \in Seq(F), NEW h \in Seq(F), NEW k \in {2, 4}
  PROVE  /\ BytesIn(g, k) \o BytesIn(h, k) = BytesIn(g \o h, k)
         /\ g \o h \in Seq(F)
<1> DEFINE a == BytesIn(g, k)
           b == BytesIn(h, k)
           B == BytesOver(F)
<1>1. /\ a \in Seq(B) /\ Len(a) = k * Len(g) /\ Len(g) \in Nat /\ Len(a) \in Nat
      /\ \A x \in 1 .. Len(a) : a[x] = ByteAt(g, k, x)
  BY BytesInFacts
<1>2. /\ b \in Seq(B) /\ Len(b) = k * Len(h) /\ Len(h) \in Nat /\ Len(b) \in Nat
      /\ \A x \in 1 .. Len(b) : b[x] = ByteAt(h, k, x)
  BY BytesInFacts
<1>3. /\ g \o h \in Seq(F) /\ Len(g \o h) = Len(g) + Len(h)
      /\ \A i \in 1 .. Len(g) + Len(h) :
           (g \o h)[i] = IF i <= Len(g) THEN g[i] ELSE h[i - Len(g)]
  BY ConcatProperties
<1> DEFINE c == BytesIn(g \o h, k)
<1>4. /\ c \in Seq(B) /\ Len(c) = k * Len(g \o h)
      /\ \A x \in 1 .. Len(c) : c[x] = ByteAt(g \o h, k, x)
  BY <1>3, BytesInFacts
<1> HIDE DEF a, b, c, B
<1>5. Len(c) = Len(a) + Len(b)
  <2>1. CASE k = 2  BY <1>1, <1>2, <1>3, <1>4, <2>1
  <2>2. CASE k = 4  BY <1>1, <1>2, <1>3, <1>4, <2>2
  <2> QED  BY <2>1, <2>2
<1>6. /\ a \o b \in Seq(B) /\ Len(a \o b) = Len(a) + Len(b)
      /\ \A x \in 1 .. Len(a) + Len(b) :
           (a \o b)[x] = IF x <= Len(a) THEN a[x] ELSE b[x - Len(a)]
  BY <1>1, <1>2, ConcatProperties
<1>7. ASSUME NEW x \in 1 .. Len(a) + Len(b) PROVE (a \o b)[x] = c[x]
  <2> DEFINE i == (x - 1) \div k + 1
             j == ((x - 1) % k) + 1
  <2>1. c[x] = [frame |-> (g \o h)[i], at |-> j]
    BY <1>4, <1>5 DEF ByteAt
  <2>2. CASE x <= Len(a)
    <3>1. x \in 1 .. Len(a)  BY <1>1, <1>2, <2>2
    <3>2. i \in 1 .. Len(g)  BY <1>1, <3>1, ByteIndex
    <3>3. (a \o b)[x] = [frame |-> g[i], at |-> j]
      BY <1>1, <1>6, <2>2, <3>1 DEF ByteAt
    <3> HIDE DEF i, j
    <3>4. i \in 1 .. Len(g) + Len(h) /\ i <= Len(g)  BY <1>1, <1>2, <3>2
    <3>5. (g \o h)[i] = g[i]  BY <1>3, <3>4
    <3> QED  BY <2>1, <3>3, <3>5
  <2>3. CASE ~ (x <= Len(a))
    <3>1. PICK y : y = x - Len(a)  OBVIOUS
    <3>2. y \in 1 .. Len(b) /\ y \in Nat \ {0} /\ x = Len(a) + y
      BY <1>1, <1>2, <2>3, <3>1
    <3> DEFINE p == (y - 1) \div k + 1
               q == ((y - 1) % k) + 1
    <3>3. p \in 1 .. Len(h)  BY <1>2, <3>2, ByteIndex
    <3>4. i = Len(g) + p /\ j = q
      <4>1. x - 1 = k * Len(g) + y - 1  BY <1>1, <3>2
      <4>2. /\ (k * Len(g) + y - 1) \div k + 1 = Len(g) + p
            /\ ((k * Len(g) + y - 1) % k) + 1 = q
        BY <1>1, <3>2, ByteBehind
      <4> QED  BY <4>1, <4>2
    <3>5. (a \o b)[x] = [frame |-> h[p], at |-> q]
      <4>1. (a \o b)[x] = b[y]  BY <1>6, <2>3, <3>1
      <4> QED  BY <1>2, <3>2, <4>1 DEF ByteAt
    <3> HIDE DEF i, j, p, q
    <3>6. i \in 1 .. Len(g) + Len(h) /\ ~ (i <= Len(g)) /\ i - Len(g) = p
      BY <1>1, <1>2, <3>3, <3>4
    <3>7. (g \o h)[i] = h[p]  BY <1>3, <3>6
    <3> QED  BY <2>1, <3>4, <3>5, <3>7
  <2> QED  BY <2>2, <2>3
<1>8. a \o b = c  BY <1>4, <1>5, <1>6, <1>7, SeqEqual
<1> QED  BY <1>3, <1>8 DEF a, b, c

\* The frames m + 1 .. n, and their bytes.
CutBytes(b, k, m, n) == SubSeq(b, k * m + 1, k * n)

LEMMA BytesCut ==
  ASSUME NEW F, NEW g \in Seq(F), NEW k \in {2, 4}, NEW m \in Nat, NEW n \in Nat,
         m <= n, n <= Len(g)
  PROVE  /\ CutBytes(BytesIn(g, k), k, m, n) = BytesIn(SubSeq(g, m + 1, n), k)
         /\ SubSeq(g, m + 1, n) \in Seq(F) /\ Len(SubSeq(g, m + 1, n)) = n - m
         /\ \A i \in 1 .. n - m : SubSeq(g, m + 1, n)[i] = g[m + i]
<1> DEFINE a == BytesIn(g, k)
           B == BytesOver(F)
           s == SubSeq(g, m + 1, n)
           c == BytesIn(s, k)
           t == SubSeq(a, k * m + 1, k * n)
<1>1. /\ a \in Seq(B) /\ Len(a) = k * Len(g) /\ Len(g) \in Nat /\ Len(a) \in Nat
      /\ \A x \in 1 .. Len(a) : a[x] = ByteAt(g, k, x)
  BY BytesInFacts
<1>2. /\ s \in Seq(F) /\ Len(s) = n - m
      /\ \A i \in 1 .. n - m : s[i] = g[m + i]
  <2>1. \A i \in m + 1 .. n : g[i] \in F  BY <1>1, ElementOfSeq
  <2>2. /\ s \in Seq(F) /\ Len(s) = IF m + 1 <= n THEN n - (m + 1) + 1 ELSE 0
        /\ \A i \in 1 .. n - (m + 1) + 1 : s[i] = g[m + 1 + i - 1]
    BY <2>1, SubSeqProperties
  <2>3. n - (m + 1) + 1 = n - m /\ \A i \in Int : m + 1 + i - 1 = m + i  OBVIOUS
  <2> HIDE DEF s
  <2> QED  BY <2>2, <2>3
<1> HIDE DEF s
<1>3. /\ c \in Seq(B) /\ Len(c) = k * Len(s)
      /\ \A x \in 1 .. k * Len(s) : c[x] = ByteAt(s, k, x)
  BY <1>2, BytesInFacts
<1> HIDE DEF a, c
<1>4. /\ k * m \in Nat /\ k * n \in Nat /\ k * m <= k * n /\ k * n <= Len(a)
      /\ k * n - k * m = k * Len(s)
  <2>1. CASE k = 2  BY <1>1, <1>2, <2>1
  <2>2. CASE k = 4  BY <1>1, <1>2, <2>2
  <2> QED  BY <2>1, <2>2
<1>5. /\ t \in Seq(B) /\ Len(t) = k * Len(s)
      /\ \A x \in 1 .. k * Len(s) : t[x] = a[k * m + x]
  <2>1. PICK u, v : u = k * m /\ v = k * n  OBVIOUS
  <2>2. u \in Nat /\ v \in Nat /\ u <= v /\ v <= Len(a) /\ v - u = k * Len(s)
    BY <1>4, <2>1
  <2>3. \A i \in u + 1 .. v : a[i] \in B  BY <1>1, <2>2, ElementOfSeq
  <2>4. t = SubSeq(a, u + 1, v)  BY <2>1
  <2> HIDE DEF t
  <2>5. /\ t \in Seq(B) /\ Len(t) = IF u + 1 <= v THEN v - (u + 1) + 1 ELSE 0
        /\ \A i \in 1 .. v - (u + 1) + 1 : t[i] = a[u + 1 + i - 1]
    BY <2>2, <2>3, <2>4, SubSeqProperties
  <2>6. v - (u + 1) + 1 = v - u /\ \A i \in Int : u + 1 + i - 1 = u + i  BY <2>2
  <2> QED  BY <2>1, <2>2, <2>5, <2>6
<1> HIDE DEF t
<1>6. ASSUME NEW x \in 1 .. k * Len(s) PROVE t[x] = c[x]
  <2>1. Len(s) \in Nat  BY <1>2
  <2> DEFINE p == (x - 1) \div k + 1
             q == ((x - 1) % k) + 1
  <2>2. p \in 1 .. n - m /\ x \in Nat \ {0}  BY <1>2, <2>1, ByteIndex
  <2>3. c[x] = [frame |-> s[p], at |-> q]  BY <1>3 DEF ByteAt
  <2>4. k * m + x \in 1 .. Len(a)  BY <1>4, <2>2
  <2>5. ByteAt(g, k, k * m + x) = [frame |-> g[m + p], at |-> q]
    BY <2>2, ByteBehind DEF ByteAt
  <2>6. t[x] = [frame |-> g[m + p], at |-> q]  BY <1>1, <1>5, <2>4, <2>5
  <2> HIDE DEF p, q
  <2>7. s[p] = g[m + p]  BY <1>2, <2>2
  <2> QED  BY <2>3, <2>6, <2>7
<1>7. t = c  BY <1>3, <1>5, <1>6, SeqEqual
<1> QED  BY <1>2, <1>7 DEF a, c, s, t, CutBytes

\* The newest bytes that fit into a whole number of frames are those of as many
\* newest frames.
LEMMA BytesNewest ==
  ASSUME NEW F, NEW g \in Seq(F), NEW k \in {2, 4}, NEW cap \in Nat, cap % k = 0
  PROVE  Newest(BytesIn(g, k), cap) = BytesIn(Newest(g, cap \div k), k)
<1> DEFINE a == BytesIn(g, k)
           q == cap \div k
<1>0. q \in Nat /\ cap = k * q
  <2>1. CASE k = 2  BY <2>1
  <2>2. CASE k = 4  BY <2>2
  <2> QED  BY <2>1, <2>2
<1>1. a \in Seq(BytesOver(F)) /\ Len(a) = k * Len(g) /\ Len(g) \in Nat
  BY BytesInFacts
<1> HIDE DEF a, q
<1>2. CASE Len(g) <= q
  <2>1. k * Len(g) <= cap
    <3>1. CASE k = 2  BY <1>0, <1>1, <1>2, <3>1
    <3>2. CASE k = 4  BY <1>0, <1>1, <1>2, <3>2
    <3> QED  BY <3>1, <3>2
  <2>2. Newest(a, cap) = a /\ Newest(g, q) = g  BY <1>1, <1>2, <2>1 DEF Newest
  <2> QED  BY <2>2 DEF a, q
<1>3. CASE ~ (Len(g) <= q)
  <2>1. PICK m : m = Len(g) - q  OBVIOUS
  <2>2. m \in Nat /\ m <= Len(g) /\ Len(g) - q + 1 = m + 1  BY <1>0, <1>1, <1>3, <2>1
  <2>3. ~ (k * Len(g) <= cap) /\ k * Len(g) - cap = k * m
    <3>1. CASE k = 2  BY <1>0, <1>1, <1>3, <2>1, <3>1
    <3>2. CASE k = 4  BY <1>0, <1>1, <1>3, <2>1, <3>2
    <3> QED  BY <3>1, <3>2
  <2>4. Newest(a, cap) = SubSeq(a, k * m + 1, k * Len(g))
    BY <1>1, <2>3 DEF Newest
  <2>5. Newest(g, q) = SubSeq(g, m + 1, Len(g))  BY <1>3, <2>2 DEF Newest
  <2>6. /\ SubSeq(a, k * m + 1, k * Len(g)) = BytesIn(SubSeq(g, m + 1, Len(g)), k)
        /\ SubSeq(g, m + 1, Len(g)) \in Seq(F) /\ Len(SubSeq(g, m + 1, Len(g))) = Len(g) - m
        /\ \A i \in 1 .. Len(g) - m : SubSeq(g, m + 1, Len(g))[i] = g[m + i]
    <3>1. PICK n : n = Len(g)  OBVIOUS
    <3>2. n \in Nat /\ m <= n /\ n <= Len(g)  BY <1>1, <2>2, <3>1
    <3> DEFINE s == SubSeq(g, m + 1, n)
    <3>3. /\ CutBytes(BytesIn(g, k), k, m, n) = BytesIn(s, k)
          /\ s \in Seq(F) /\ Len(s) = n - m
          /\ \A i \in 1 .. n - m : s[i] = g[m + i]
      <4> HIDE DEF s
      <4>1. n \in Nat /\ m \in Nat /\ m <= n /\ n <= Len(g)  BY <2>2, <3>2
      <4>2. CutBytes(BytesIn(g, k), k, m, n) = BytesIn(SubSeq(g, m + 1, n), k)
        BY <4>1, BytesCut
      <4> QED  BY <4>1, <4>2, BytesCut DEF s
    <3> QED  BY <3>1, <3>3 DEF a, CutBytes
  <2> QED  BY <2>4, <2>5, <2>6 DEF a, q
<1> QED  BY <1>2, <1>3

\* What readFrames() makes of the bytes of frames: those frames, one by one.
LEMMA FramesOfBytes ==
  ASSUME NEW F, NEW g \in Seq(F), NEW k \in {2, 4}
  PROVE  /\ Len(Frames(BytesIn(g, k), k)) = Len(g)
         /\ \A i \in 1 .. Len(g) : \A j \in 1 .. k :
              Frames(BytesIn(g, k), k)[i][j] = [frame |-> g[i], at |-> j]
<1> DEFINE a == BytesIn(g, k)
           f == Frames(a, k)
<1>1. /\ a \in Seq(BytesOver(F)) /\ Len(a) = k * Len(g) /\ Len(g) \in Nat
      /\ \A x \in 1 .. k * Len(g) : a[x] = ByteAt(g, k, x)
  BY BytesInFacts
<1> HIDE DEF a
<1>2. CutInto(f, a, k, BytesOver(F))  BY <1>1, FramesFacts
<1> HIDE DEF f
<1>3. (k * Len(g)) \div k = Len(g)
  <2>1. CASE k = 2  BY <1>1, <2>1
  <2>2. CASE k = 4  BY <1>1, <2>2
  <2> QED  BY <2>1, <2>2
<1>4. Len(f) = Len(g)  BY <1>1, <1>2, <1>3 DEF CutInto
<1>5. ASSUME NEW i \in 1 .. Len(g), NEW j \in 1 .. k
      PROVE  f[i][j] = [frame |-> g[i], at |-> j]
  <2>1. f[i][j] = a[(i - 1) * k + j]  BY <1>1, <1>2, <1>3 DEF CutInto
  <2>2. /\ (i - 1) * k + j \in 1 .. k * Len(g)
        /\ ((i - 1) * k + j - 1) \div k + 1 = i
        /\ (((i - 1) * k + j - 1) % k) + 1 = j
    <3>1. CASE k = 2  BY <1>1, <3>1
    <3>2. CASE k = 4  BY <1>1, <3>2
    <3> QED  BY <3>1, <3>2
  <2>3. PICK x : x = (i - 1) * k + j  OBVIOUS
  <2>4. a[x] = ByteAt(g, k, x)  BY <1>1, <2>2, <2>3
  <2>5. ByteAt(g, k, x) = [frame |-> g[i], at |-> j]  BY <2>2, <2>3 DEF ByteAt
  <2> QED  BY <2>1, <2>3, <2>4, <2>5
<1> QED  BY <1>4, <1>5 DEF f, a

-----------------------------------------------------------------------------
\* Frames known by a number, id: the numbers of the frames g, and when they rise.
Numbers(g) == {g[i].id : i \in 1 .. Len(g)}

Rising(g) == \A i, j \in 1 .. Len(g) : i < j => g[i].id < g[j].id

Elements(s) == {s[i] : i \in 1 .. Len(s)}

Before(A, B) == \A x \in A, y \in B : x < y

Ascends(h) == \A i \in 1 .. Len(h) - 1 : h[i] < h[i + 1]

\* The newest q of the frames g and, behind them, f.
LEMMA NewestInOrder ==
  ASSUME NEW F, NEW g \in Seq(F), NEW f \in Seq(F), NEW q \in Nat
  PROVE  LET h == Newest(g \o f, q)
         IN  /\ h \in Seq(F) /\ Elements(h) \subseteq Elements(g) \cup Elements(f)
             /\ Numbers(h) \subseteq Numbers(g) \cup Numbers(f)
             /\ Rising(g) /\ Rising(f) /\ Before(Numbers(g), Numbers(f)) => Rising(h)
<1> DEFINE c == g \o f
           h == Newest(c, q)
<1>1. /\ c \in Seq(F) /\ Len(c) = Len(g) + Len(f)
      /\ \A i \in 1 .. Len(g) + Len(f) :
           c[i] = IF i <= Len(g) THEN g[i] ELSE f[i - Len(g)]
      /\ Len(g) \in Nat /\ Len(f) \in Nat
  BY ConcatProperties
<1> HIDE DEF c
<1>2. /\ h \in Seq(F)
      /\ \E m \in Nat : m + Len(h) = Len(c) /\ \A i \in 1 .. Len(h) : h[i] = c[m + i]
  <2>1. /\ h \in Seq(F)
        /\ Len(h) = IF Len(c) <= q THEN Len(c) ELSE q
        /\ \A i \in 1 .. Len(h) : h[i] = c[Len(c) - Len(h) + i]
    <3>1. c \in Seq(F)  BY <1>1
    <3> QED  BY <3>1, NewestProperties, Zenon
  <2> HIDE DEF h
  <2>2. Len(c) - Len(h) \in Nat /\ (Len(c) - Len(h)) + Len(h) = Len(c)  BY <1>1, <2>1
  <2> QED  BY <2>1, <2>2
<1> HIDE DEF h
<1>3. PICK m \in Nat : m + Len(h) = Len(c) /\ \A i \in 1 .. Len(h) : h[i] = c[m + i]
  BY <1>2
<1>4. Len(h) \in Nat  BY <1>2, LenProperties
\* An element of h is one of g, or one of f.
<1>5. ASSUME NEW i \in 1 .. Len(h)
      PROVE  \/ m + i \in 1 .. Len(g) /\ h[i] = g[m + i]
             \/ m + i - Len(g) \in 1 .. Len(f) /\ h[i] = f[m + i - Len(g)]
  <2>1. m + i \in 1 .. Len(g) + Len(f) /\ h[i] = c[m + i]  BY <1>1, <1>3, <1>4
  <2>2. CASE m + i <= Len(g)
    <3>1. m + i \in 1 .. Len(g)  BY <1>1, <2>1, <2>2
    <3> QED  BY <1>1, <2>1, <2>2, <3>1
  <2>3. CASE ~ (m + i <= Len(g))
    <3>1. m + i - Len(g) \in 1 .. Len(f)  BY <1>1, <2>1, <2>3
    <3> QED  BY <1>1, <2>1, <2>3, <3>1
  <2> QED  BY <2>2, <2>3
<1>6. Elements(h) \subseteq Elements(g) \cup Elements(f)  BY <1>5 DEF Elements
<1>7. Numbers(h) \subseteq Numbers(g) \cup Numbers(f)  BY <1>5 DEF Numbers
<1>8. ASSUME Rising(g), Rising(f), Before(Numbers(g), Numbers(f)) PROVE Rising(h)
  <2> SUFFICES ASSUME NEW i \in 1 .. Len(h), NEW j \in 1 .. Len(h), i < j
               PROVE  h[i].id < h[j].id
    BY DEF Rising
  <2>1. m + i < m + j /\ m + i - Len(g) < m + j - Len(g)  BY <1>1, <1>4
  <2>2. CASE m + i \in 1 .. Len(g) /\ h[i] = g[m + i]
    <3>1. CASE m + j \in 1 .. Len(g) /\ h[j] = g[m + j]
      BY <1>8, <2>1, <2>2, <3>1 DEF Rising
    <3>2. CASE m + j - Len(g) \in 1 .. Len(f) /\ h[j] = f[m + j - Len(g)]
      BY <1>8, <2>2, <3>2 DEF Before, Numbers
    <3> QED  BY <1>5, <3>1, <3>2
  <2>3. CASE m + i - Len(g) \in 1 .. Len(f) /\ h[i] = f[m + i - Len(g)]
    <3>1. CASE m + j - Len(g) \in 1 .. Len(f) /\ h[j] = f[m + j - Len(g)]
      BY <1>8, <2>1, <2>3, <3>1 DEF Rising
    <3>2. ASSUME m + j \in 1 .. Len(g) PROVE FALSE
      BY <1>1, <1>4, <2>1, <2>3, <3>2
    <3> QED  BY <1>5, <3>1, <3>2
  <2> QED  BY <1>5, <2>2, <2>3
<1> QED  BY <1>2, <1>6, <1>7, <1>8 DEF h, c

\* The first m of the frames g, and the rest.
LEMMA CutInOrder ==
  ASSUME NEW F, NEW g \in Seq(F), NEW m \in 0 .. Len(g)
  PROVE  LET a == SubSeq(g, 1, m)
             b == SubSeq(g, m + 1, Len(g))
         IN  /\ a \in Seq(F) /\ Len(a) = m
             /\ b \in Seq(F) /\ Elements(b) \subseteq Elements(g)
             /\ Numbers(a) \subseteq Numbers(g) /\ Numbers(b) \subseteq Numbers(g)
             /\ Rising(g) => Rising(a) /\ Rising(b) /\ Before(Numbers(a), Numbers(b))
<1> DEFINE a == SubSeq(g, 1, m)
           b == SubSeq(g, m + 1, Len(g))
<1>1. Len(g) \in Nat /\ m \in Nat /\ m <= Len(g)  BY LenProperties
<1>2. /\ a \in Seq(F) /\ Len(a) = m
      /\ \A i \in 1 .. m : i \in 1 .. Len(g) /\ a[i] = g[i]
  BY <1>1, PrefixOfSeq
<1>3. /\ b \in Seq(F) /\ Len(b) = Len(g) - m
      /\ \A i \in 1 .. Len(b) : m + i \in 1 .. Len(g) /\ b[i] = g[m + i]
  <2>1. \A i \in m + 1 .. Len(g) : g[i] \in F  BY <1>1, ElementOfSeq
  <2>2. /\ b \in Seq(F)
        /\ Len(b) = IF m + 1 <= Len(g) THEN Len(g) - (m + 1) + 1 ELSE 0
        /\ \A i \in 1 .. Len(g) - (m + 1) + 1 : b[i] = g[m + 1 + i - 1]
    BY <1>1, <2>1, SubSeqProperties
  <2> HIDE DEF b
  <2>3. Len(b) = Len(g) - m  BY <1>1, <2>2
  <2>4. ASSUME NEW i \in 1 .. Len(b) PROVE m + i \in 1 .. Len(g) /\ b[i] = g[m + i]
    <3>1. i \in 1 .. Len(g) - (m + 1) + 1 /\ m + 1 + i - 1 = m + i /\ m + i \in 1 .. Len(g)
      BY <1>1, <2>3
    <3> QED  BY <2>2, <3>1
  <2> QED  BY <2>2, <2>3, <2>4
<1> HIDE DEF a, b
<1>4. Elements(b) \subseteq Elements(g) /\ Numbers(b) \subseteq Numbers(g)
  BY <1>3 DEF Elements, Numbers
<1>5. Numbers(a) \subseteq Numbers(g)  BY <1>2 DEF Numbers
<1>6. ASSUME Rising(g) PROVE Rising(a) /\ Rising(b) /\ Before(Numbers(a), Numbers(b))
  <2>1. Rising(a)  BY <1>2, <1>6 DEF Rising
  <2>2. ASSUME NEW i \in 1 .. Len(b), NEW j \in 1 .. Len(b), i < j PROVE b[i].id < b[j].id
    <3>1. m + i < m + j  BY <1>1, <1>3, <2>2
    <3> QED  BY <1>3, <1>6, <3>1 DEF Rising
  <2>3. ASSUME NEW i \in 1 .. Len(a), NEW j \in 1 .. Len(b) PROVE a[i].id < b[j].id
    <3>1. i < m + j  BY <1>1, <1>2, <1>3
    <3> QED  BY <1>2, <1>3, <1>6, <3>1 DEF Rising
  <2> QED  BY <2>1, <2>2, <2>3 DEF Rising, Before, Numbers
<1> QED  BY <1>2, <1>3, <1>4, <1>5, <1>6 DEF a, b

\* The numbers of the frames a, behind the numbers h.
LEMMA HeardInOrder ==
  ASSUME NEW h \in Seq(Nat), NEW F, NEW a \in Seq(F), \A x \in F : x.id \in Nat,
         Ascends(h), Rising(a),
         Before(Elements(h), Numbers(a))
  PROVE  LET g == h \o [i \in 1 .. Len(a) |-> a[i].id]
         IN  /\ g \in Seq(Nat) /\ Len(g) = Len(h) + Len(a)
             /\ SubSeq(g, 1, Len(h)) = h
             /\ Elements(g) = Elements(h) \cup Numbers(a)
             /\ Ascends(g)
<1> DEFINE t == [i \in 1 .. Len(a) |-> a[i].id]
           g == h \o t
<1>1. Len(h) \in Nat /\ Len(a) \in Nat  BY LenProperties
<1>2. t \in Seq(Nat) /\ Len(t) = Len(a)
  <2>1. ASSUME NEW i \in 1 .. Len(a) PROVE a[i].id \in Nat
    <3>1. a[i] \in F  BY ElementOfSeq
    <3> QED  BY <3>1
  <2>2. t \in [1 .. Len(a) -> Nat]  BY <2>1
  <2> QED  BY <1>1, <2>2
<1>3. \A i \in 1 .. Len(a) : t[i] = a[i].id  OBVIOUS
<1> HIDE DEF t
<1>4. /\ g \in Seq(Nat) /\ Len(g) = Len(h) + Len(a)
      /\ \A i \in 1 .. Len(h) + Len(a) : g[i] = IF i <= Len(h) THEN h[i] ELSE t[i - Len(h)]
  <2>1. /\ g \in Seq(Nat) /\ Len(g) = Len(h) + Len(t)
        /\ \A i \in 1 .. Len(h) + Len(t) :
             g[i] = IF i <= Len(h) THEN h[i] ELSE t[i - Len(h)]
    BY <1>2, ConcatProperties
  <2> HIDE DEF g
  <2> QED  BY <1>2, <2>1
<1> HIDE DEF g
<1>5. \A i \in 1 .. Len(h) : i \in 1 .. Len(g) /\ g[i] = h[i]
  <2> SUFFICES ASSUME NEW i \in 1 .. Len(h) PROVE i \in 1 .. Len(g) /\ g[i] = h[i]
    OBVIOUS
  <2>1. i \in 1 .. Len(h) + Len(a) /\ i <= Len(h)  BY <1>1
  <2> QED  BY <1>4, <2>1
<1>6. \A i \in 1 .. Len(a) : i + Len(h) \in 1 .. Len(g) /\ g[i + Len(h)] = a[i].id
  <2> SUFFICES ASSUME NEW i \in 1 .. Len(a)
               PROVE  i + Len(h) \in 1 .. Len(g) /\ g[i + Len(h)] = a[i].id
    OBVIOUS
  <2> DEFINE j == i + Len(h)
  <2>1. j \in 1 .. Len(h) + Len(a) /\ ~ (j <= Len(h)) /\ j - Len(h) = i  BY <1>1
  <2> QED  BY <1>3, <1>4, <2>1
<1>7. \A j \in 1 .. Len(g) : \/ j \in 1 .. Len(h)
                              \/ \E i \in 1 .. Len(a) : j = i + Len(h)
  <2> SUFFICES ASSUME NEW j \in 1 .. Len(g), ~ (j \in 1 .. Len(h))
               PROVE  \E i \in 1 .. Len(a) : j = i + Len(h)
    OBVIOUS
  <2>1. j - Len(h) \in 1 .. Len(a) /\ j = (j - Len(h)) + Len(h)  BY <1>1, <1>4
  <2> QED  BY <2>1
<1>8. SubSeq(g, 1, Len(h)) = h
  <2>1. /\ SubSeq(g, 1, Len(h)) \in Seq(Nat) /\ Len(SubSeq(g, 1, Len(h))) = Len(h)
        /\ \A i \in 1 .. Len(h) : SubSeq(g, 1, Len(h))[i] = g[i]
    BY <1>1, <1>4, PrefixOfSeq
  <2>2. \A i \in 1 .. Len(h) : SubSeq(g, 1, Len(h))[i] = h[i]  BY <1>5, <2>1
  <2> QED  BY <2>1, <2>2, SeqEqual
<1>9. Elements(g) = Elements(h) \cup Numbers(a)
  <2>1. ASSUME NEW j \in 1 .. Len(g) PROVE g[j] \in Elements(h) \cup Numbers(a)
    <3>1. CASE j \in 1 .. Len(h)
      BY <1>5, <3>1 DEF Elements
    <3>2. ASSUME NEW i \in 1 .. Len(a), j = i + Len(h) PROVE g[j] \in Numbers(a)
      BY <1>6, <3>2 DEF Numbers
    <3> QED  BY <1>7, <3>1, <3>2
  <2>2. Elements(h) \subseteq Elements(g)  BY <1>5 DEF Elements
  <2>3. Numbers(a) \subseteq Elements(g)  BY <1>6 DEF Elements, Numbers
  <2> QED  BY <2>1, <2>2, <2>3 DEF Elements
<1>10. Ascends(g)
  <2> SUFFICES ASSUME NEW i \in 1 .. Len(g) - 1 PROVE g[i] < g[i + 1]
    BY DEF Ascends
  <2>1. CASE i + 1 <= Len(h)
    <3>1. i \in 1 .. Len(h) - 1 /\ i \in 1 .. Len(h) /\ i + 1 \in 1 .. Len(h)
      BY <1>1, <2>1
    <3> QED  BY <1>5, <3>1 DEF Ascends
  <2>2. CASE i = Len(h)
    <3>1. i \in 1 .. Len(h) /\ 1 \in 1 .. Len(a) /\ 1 + Len(h) = i + 1
      BY <1>1, <1>4, <2>2
    <3>2. g[i] = h[i] /\ g[i + 1] = a[1].id  BY <1>5, <1>6, <3>1
    <3>3. h[i] \in Elements(h) /\ a[1].id \in Numbers(a)
      BY <3>1 DEF Elements, Numbers
    <3> QED  BY <3>2, <3>3 DEF Before
  <2>3. CASE i > Len(h)
    <3>1. /\ i - Len(h) \in 1 .. Len(a) /\ i + 1 - Len(h) \in 1 .. Len(a)
          /\ i - Len(h) < i + 1 - Len(h)
          /\ i = (i - Len(h)) + Len(h) /\ i + 1 = (i + 1 - Len(h)) + Len(h)
      BY <1>1, <1>4, <2>3
    <3>2. g[i] = a[i - Len(h)].id  BY <1>6, <3>1
    <3>3. g[i + 1] = a[i + 1 - Len(h)].id  BY <1>6, <3>1
    <3>4. a[i - Len(h)].id < a[i + 1 - Len(h)].id  BY <3>1 DEF Rising
    <3> QED  BY <3>2, <3>3, <3>4
  <2> QED  BY <1>1, <1>4, <2>1, <2>2, <2>3
<1> QED  BY <1>4, <1>8, <1>9, <1>10 DEF g, t

\* The frames g wait to be read by a listener that has heard h: they are among the
\* delivered ones, D, and while the network keeps the order they rise and are later
\* than all heard.
Waits(g, D, h, inOrder) ==
  /\ Numbers(g) \subseteq D
  /\ inOrder => Rising(g) /\ Before(Elements(h), Numbers(g))

LEMMA WaitsLonger ==
  ASSUME NEW g, NEW h, NEW D, NEW E, NEW o, NEW q, D \subseteq E, q => o, Waits(g, D, h, o)
  PROVE  Waits(g, E, h, q)
BY DEF Waits

\* Frames that come in behind them; the oldest may go.
LEMMA WaitsBehind ==
  ASSUME NEW F, NEW g \in Seq(F), NEW f \in Seq(F), NEW n \in Nat, NEW h, NEW D, NEW E,
         NEW o, NEW q, Waits(g, D, h, o), Elements(h) \subseteq D, D \subseteq E,
         Numbers(f) \subseteq E, Rising(f), q => o /\ Before(D, Numbers(f))
  PROVE  Waits(Newest(g \o f, n), E, h, q)
<1> DEFINE w == Newest(g \o f, n)
<1>1. /\ Numbers(w) \subseteq Numbers(g) \cup Numbers(f)
      /\ Rising(g) /\ Rising(f) /\ Before(Numbers(g), Numbers(f)) => Rising(w)
  BY NewestInOrder
<1> HIDE DEF w
<1>2. Numbers(w) \subseteq E  BY <1>1 DEF Waits
<1>3. ASSUME q PROVE Rising(w) /\ Before(Elements(h), Numbers(w))
  <2>1. Rising(g) /\ Before(Elements(h), Numbers(g)) /\ Before(D, Numbers(f))
    BY <1>3 DEF Waits
  <2>2. Before(Numbers(g), Numbers(f)) /\ Before(Elements(h), Numbers(f))
    BY <2>1 DEF Waits, Before
  <2> QED  BY <1>1, <2>1, <2>2 DEF Before
<1> QED  BY <1>2, <1>3 DEF Waits, w

\* The first m of them are read; a listener that trusts the order takes notice.
Heard(h, g, m, inOrder) == IF inOrder THEN h \o [i \in 1 .. m |-> g[i].id] ELSE h

GoesOn(t, h) == Len(t) > Len(h) /\ SubSeq(t, 1, Len(h)) = h

\* The frames that are left.
Rest(g, m) == SubSeq(g, m + 1, Len(g))

LEMMA WaitsRead ==
  ASSUME NEW F, \A x \in F : x.id \in Nat, NEW g \in Seq(F), NEW m \in 0 .. Len(g),
         NEW D, NEW h \in Seq(Nat), NEW o, Ascends(h), Elements(h) \subseteq D,
         Waits(g, D, h, o)
  PROVE  /\ Rest(g, m) \in Seq(F) /\ Elements(Rest(g, m)) \subseteq Elements(g)
         /\ Heard(h, g, m, o) \in Seq(Nat) /\ Ascends(Heard(h, g, m, o))
         /\ Elements(Heard(h, g, m, o)) \subseteq D
         /\ Waits(Rest(g, m), D, Heard(h, g, m, o), o)
         /\ Heard(h, g, m, o) = h \/ GoesOn(Heard(h, g, m, o), h)
<1> DEFINE a == SubSeq(g, 1, m)
           b == Rest(g, m)
           t == Heard(h, g, m, o)
           u == h \o [i \in 1 .. Len(a) |-> a[i].id]
<1> SUFFICES /\ b \in Seq(F) /\ Elements(b) \subseteq Elements(g)
             /\ t \in Seq(Nat) /\ Ascends(t) /\ Elements(t) \subseteq D
             /\ Waits(b, D, t, o)
             /\ t = h \/ GoesOn(t, h)
  OBVIOUS
<1>1. /\ a \in Seq(F) /\ Len(a) = m
      /\ b \in Seq(F) /\ Elements(b) \subseteq Elements(g)
      /\ Numbers(a) \subseteq Numbers(g) /\ Numbers(b) \subseteq Numbers(g)
      /\ Rising(g) => Rising(a) /\ Rising(b) /\ Before(Numbers(a), Numbers(b))
  BY CutInOrder DEF Rest
<1> HIDE DEF b
<1>2. Numbers(a) \subseteq D /\ Numbers(b) \subseteq D
  <2> HIDE DEF a
  <2> QED  BY <1>1 DEF Waits
<1>3. CASE ~ o
  <2> HIDE DEF a
  <2>1. t = h  BY <1>3 DEF Heard
  <2>2. Waits(b, D, h, o)  BY <1>2, <1>3 DEF Waits
  <2> HIDE DEF t
  <2> QED  BY <1>1, <2>1, <2>2
<1>4. CASE o
  <2>1. t = u
    <3>1. Len(g) \in Nat /\ m \in Nat /\ m <= Len(g)  BY LenProperties
    <3>2. \A i \in 1 .. m : a[i] = g[i]  BY <3>1, PrefixOfSeq
    <3> HIDE DEF a
    <3>3. [i \in 1 .. m |-> g[i].id] = [i \in 1 .. Len(a) |-> a[i].id]  BY <1>1, <3>2
    <3> QED  BY <1>4, <3>3 DEF Heard
  <2> HIDE DEF a, t
  <2>2. Rising(g) /\ Before(Elements(h), Numbers(g))  BY <1>4 DEF Waits
  <2>3. Rising(a) /\ Rising(b) /\ Before(Numbers(a), Numbers(b))  BY <1>1, <2>2
  <2>4. Before(Elements(h), Numbers(a)) /\ Before(Elements(h), Numbers(b))
    BY <1>1, <2>2 DEF Before
  <2>5. /\ t \in Seq(Nat) /\ Len(t) = Len(h) + Len(a)
        /\ SubSeq(t, 1, Len(h)) = h
        /\ Elements(t) = Elements(h) \cup Numbers(a)
        /\ Ascends(t)
    <3>1. /\ u \in Seq(Nat) /\ Len(u) = Len(h) + Len(a)
          /\ SubSeq(u, 1, Len(h)) = h
          /\ Elements(u) = Elements(h) \cup Numbers(a)
          /\ Ascends(u)
      BY <1>1, <2>3, <2>4, HeardInOrder
    <3> HIDE DEF u
    <3> QED  BY <2>1, <3>1
  <2>6. Elements(t) \subseteq D  BY <1>2, <2>5
  <2>7. Before(Elements(t), Numbers(b))  BY <2>3, <2>4, <2>5 DEF Before
  <2>8. Waits(b, D, t, o)  BY <1>2, <2>3, <2>7 DEF Waits
  <2>9. t = h \/ GoesOn(t, h)
    <3>1. Len(h) \in Nat /\ Len(a) \in Nat /\ Len(t) \in Nat
      BY <1>1, <2>5, LenProperties
    <3>2. CASE Len(a) = 0
      <4>1. Len(t) = Len(h)  BY <2>5, <3>1, <3>2
      <4>2. SubSeq(t, 1, Len(t)) = t  BY <2>5, SubSeqFull
      <4> QED  BY <2>5, <4>1, <4>2
    <3>3. CASE Len(a) # 0
      BY <2>5, <3>1, <3>3 DEF GoesOn
    <3> QED  BY <3>2, <3>3
  <2> QED  BY <1>1, <2>5, <2>6, <2>8, <2>9
<1> QED  BY <1>3, <1>4
=============================================================================
