-------------------------- MODULE RingQueueProofs --------------------------
(***************************************************************************)
(* For every capacity and every set of payloads: the ring stays well       *)
(* formed and implements DropOldestQueue.                                  *)
(***************************************************************************)
EXTENDS RingQueue, PcmProofs

IInv == TypeOK /\ CursorsAgree

\* What one push, one pop and one clear do to the content.
LEMMA PushStep ==
  ASSUME IInv, NEW s \in Chunks, Push(s)
  PROVE  IInv' /\ Queue!Enqueue(s)
<1>1. s \in Seq(Byte)  BY ByteAssumption
<1>2. ring \in Rings(Cap, Byte) /\ WellFormed(Cap, ring) /\ out \in Seq(Byte)
  BY DEF IInv, TypeOK, CursorsAgree
<1>3. /\ ring' \in Rings(Cap, Byte) /\ WellFormed(Cap, ring')
      /\ Content(Cap, ring') = Newest(Content(Cap, ring) \o s, Cap)
  BY <1>1, <1>2, CapAssumption, PushKeepsNewest DEF Push
<1> QED
  BY <1>1, <1>2, <1>3, EmptySeq
     DEF Push, IInv, TypeOK, CursorsAgree, Queue!Enqueue, Queue!LastN, Newest

\* ... one pop ...
LEMMA PopStep ==
  ASSUME IInv, NEW n \in 0 .. MaxTake, Pop(n)
  PROVE  IInv' /\ Queue!Dequeue(n)
<1> DEFINE c == Content(Cap, ring)
           k == Taken(ring, n)
<1>1. n \in Nat  BY TakeAssumption
<1>2. ring \in Rings(Cap, Byte) /\ WellFormed(Cap, ring)
  BY DEF IInv, TypeOK, CursorsAgree
<1>3. /\ ring' \in Rings(Cap, Byte) /\ WellFormed(Cap, ring')
      /\ k \in 0 .. ring.count
      /\ out' = SubSeq(c, 1, k)
      /\ Content(Cap, ring') = SubSeq(c, k + 1, Len(c))
  BY <1>1, <1>2, CapAssumption, PopTakesOldest DEF Pop
<1>4. c \in Seq(Byte) /\ Len(c) = ring.count
  BY <1>2, CapAssumption, ContentType
<1>5. k = IF n < Len(c) THEN n ELSE Len(c)
  BY <1>4 DEF Taken
<1> HIDE DEF k, c
<1>6. SubSeq(c, 1, k) \in Seq(Byte)
  <2>1. ring.count \in 0 .. Cap  BY <1>2 DEF Rings
  <2> QED  BY <1>3, <1>4, <2>1, CapAssumption
<1> QED
  BY <1>3, <1>5, <1>6, EmptySeq DEF Pop, IInv, TypeOK, CursorsAgree, Queue!Dequeue, c

\* ... and one clear.
LEMMA ClearStep ==
  ASSUME IInv, Clear
  PROVE  IInv' /\ Queue!Clear
BY CapAssumption, EmptiedFacts, EmptySeq
   DEF Clear, IInv, TypeOK, CursorsAgree, Queue!Clear

\* Every step keeps the invariant.
LEMMA IInvHolds == Spec => []IInv
<1>1. Init => IInv
  BY CapAssumption, ByteAssumption, EmptyRingFacts, EmptySeq
     DEF Init, IInv, TypeOK, CursorsAgree
<1>2. IInv /\ [Next]_vars => IInv'
  <2> SUFFICES ASSUME IInv, [Next]_vars PROVE IInv'
    OBVIOUS
  <2>1. ASSUME NEW s \in Chunks, Push(s) PROVE IInv'
    BY <2>1, PushStep
  <2>2. ASSUME NEW n \in 0 .. MaxTake, Pop(n) PROVE IInv'
    BY <2>2, PopStep
  <2>3. CASE Clear
    BY <2>3, ClearStep
  <2>4. CASE UNCHANGED vars
    BY <2>4 DEF vars, IInv, TypeOK, CursorsAgree
  <2> QED  BY <2>1, <2>2, <2>3, <2>4 DEF Next
<1> QED  BY <1>1, <1>2, PTL DEF Spec

\* Whatever is pushed, popped and cleared: the indices stay inside the array,
\* the count within the capacity, and what comes out are bytes that went in.
THEOREM RingIsTypeCorrect == Spec => []TypeOK
BY IInvHolds, PTL DEF IInv

\* The ring's cursors agree after any sequence of pushes, pops and clears,
\* whatever the capacity and the payloads.
THEOREM RingIsWellFormed == Spec => []CursorsAgree
BY IInvHolds, PTL DEF IInv

\* The ring implements the bounded FIFO that drops its oldest bytes: what a
\* receiver's queue does to the audio it holds, for every capacity.
THEOREM RingImplementsQueue == Spec => QueueSpec
<1>1. Init => Queue!Init
  BY CapAssumption, ByteAssumption, EmptyRingFacts DEF Init, Queue!Init
<1>2. IInv /\ [Next]_vars => [Queue!Next]_(Queue!qvars)
  <2> SUFFICES ASSUME IInv, [Next]_vars PROVE [Queue!Next]_(Queue!qvars)
    OBVIOUS
  <2>1. ASSUME NEW s \in Chunks, Push(s) PROVE Queue!Next
    BY <2>1, PushStep DEF Queue!Next
  <2>2. ASSUME NEW n \in 0 .. MaxTake, Pop(n) PROVE Queue!Next
    BY <2>2, PopStep DEF Queue!Next
  <2>3. CASE Clear
    BY <2>3, ClearStep DEF Queue!Next
  <2>4. CASE UNCHANGED vars
    BY <2>4 DEF vars, Queue!qvars, Content
  <2> QED  BY <2>1, <2>2, <2>3, <2>4 DEF Next
<1>3. Spec => []IInv
  BY IInvHolds
<1> QED  BY <1>1, <1>2, <1>3, PTL DEF Spec, QueueSpec, Queue!Spec
=============================================================================
