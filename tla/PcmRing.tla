------------------------------ MODULE PcmRing ------------------------------
(***************************************************************************)
(* The byte ring in which both receivers keep decoded PCM: ringPush and    *)
(* ringPop, of which VbanReceiver.cpp and RtpReceiver.cpp each hold a      *)
(* copy.  A ring is a record of the four variables those functions take by *)
(* reference: the array q, and head, tail and count.  The copying loops    *)
(* are given by the array they leave behind.                               *)
(***************************************************************************)
EXTENDS Integers, Sequences

\* Array indices of a ring of cap bytes.
Slots(cap) == 0 .. cap - 1

\* A ring of cap bytes that holds nothing; every slot has the value zero.
EmptyRing(cap, zero) ==
  [q |-> [i \in Slots(cap) |-> zero], head |-> 0, tail |-> 0, count |-> 0]

\* head = tail = count = 0: what begin() and end() do; the array stays.
Emptied(r) == [q |-> r.q, head |-> 0, tail |-> 0, count |-> 0]

\* The bytes a reader would still get, oldest first.
Content(cap, r) == [i \in 1 .. r.count |-> r.q[(r.head + i - 1) % cap]]

\* Faulty variant: src is not moved to its end.
Oldest(s, n) == IF Len(s) <= n THEN s ELSE SubSeq(s, 1, n)

\* The last n elements of s: src += (n - cap).
Newest(s, n) == IF Len(s) <= n THEN s ELSE SubSeq(s, Len(s) - n + 1, Len(s))

\* Steps the write cursor takes from slot `from` to slot i.
Offset(cap, from, i) == IF i >= from THEN i - from ELSE i + cap - from

\* The k oldest bytes go: head moves past them.
Advanced(cap, r, k) ==
  [q |-> r.q, head |-> (r.head + k) % cap, tail |-> r.tail, count |-> r.count - k]

\* Faulty variants: no room is made; the bytes are uncounted but head stays.
MakeRoomNever(cap, r, n) == r

MakeRoomHeadStays(cap, r, n) ==
  IF r.count + n > cap THEN [r EXCEPT !.count = cap - n] ELSE r

\* Drop the oldest bytes so that n more fit.
MakeRoom(cap, r, n) ==
  IF r.count + n > cap THEN Advanced(cap, r, r.count + n - cap) ELSE r

\* Copy s behind the tail; s fits.
Store(cap, r, s) ==
  [q     |-> [i \in Slots(cap) |->
                LET o == Offset(cap, r.tail, i)
                IN  IF o < Len(s) THEN s[o + 1] ELSE r.q[i]],
   head  |-> r.head,
   tail  |-> (r.tail + Len(s)) % cap,
   count |-> r.count + Len(s)]

\* Faulty variant: a full ring turns the newest bytes away.
RingPushDropsNewest(cap, r, src) ==
  LET room == cap - r.count
  IN  Store(cap, r, IF Len(src) <= room THEN src ELSE SubSeq(src, 1, room))

\* ringPush: a source longer than the ring replaces everything by its end.
RingPush(cap, r, src) ==
  LET kept == Newest(src, cap)
      base == IF Len(src) >= cap THEN Emptied(r) ELSE r
  IN  Store(cap, MakeRoom(cap, base, Len(kept)), kept)

\* The bytes ringPop(n) copies out, and the ring it leaves.
Taken(r, n) == IF n < r.count THEN n ELSE r.count

RingPopBytes(cap, r, n) == [i \in 1 .. Taken(r, n) |-> r.q[(r.head + i - 1) % cap]]

RingPop(cap, r, n) == Advanced(cap, r, Taken(r, n))

\* What readFrames() hands out: bytes cut into frames of k bytes each; an
\* incomplete one is left out.
Frames(bytes, k) ==
  [i \in 1 .. Len(bytes) \div k |-> SubSeq(bytes, (i - 1) * k + 1, i * k)]

\* The rings the two functions keep: tail is where head and count say it is.
Rings(cap, Byte) ==
  [q : [Slots(cap) -> Byte], head : Slots(cap), tail : Slots(cap), count : 0 .. cap]

WellFormed(cap, r) == r.tail = (r.head + r.count) % cap
=============================================================================
