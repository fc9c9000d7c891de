-------------------------- MODULE LockedFrameQueue --------------------------
(***************************************************************************)
(* What VbanReceiver promises the pipeline that reads it as a PCMSource:   *)
(* between one begin() and the next, a bounded queue of whole frames of    *)
(* the layout locked by the first datagram that was wanted.  Every wanted  *)
(* datagram of that layout brings the whole frames it carries, in their    *)
(* order and in the order of arrival, and every other one brings nothing;  *)
(* the queue is the newest frames there is room for, of those the readers  *)
(* have not taken.                                                         *)
(***************************************************************************)
EXTENDS Integers, Sequences

CONSTANTS Datagrams,      \* what may arrive
          Filters,        \* what begin() can be asked to listen to
          Nobody,         \* not listening
          Unlocked,       \* no layout yet
          Wanted(_, _),   \* Wanted(d, f): d is audio that filter f lets through
          LayoutOf(_),    \* the layout of such a datagram
          Carried(_, _),  \* Carried(d, n): the whole frames of d, the n-th arrival
          Capacity(_),    \* frames of a layout the queue holds
          MaxTake         \* the most frames one read asks for

VARIABLES open, asked, layout, arrived, frames, out

fvars == <<open, asked, layout, arrived, frames, out>>

\* The last n elements of s, or all of them.
Newest(s, n) == IF Len(s) <= n THEN s ELSE SubSeq(s, Len(s) - n + 1, Len(s))

Init == /\ open = FALSE /\ asked = Nobody /\ layout = Unlocked
        /\ arrived = 0 /\ frames = <<>> /\ out = <<>>

\* A successful begin() starts an empty, unlocked stream.
Open(f) == /\ open' = TRUE /\ asked' = f /\ layout' = Unlocked /\ frames' = <<>>
           /\ UNCHANGED <<arrived, out>>

\* end(), and a begin() that could not bind.
Close == /\ open' = FALSE /\ asked' = Nobody /\ layout' = Unlocked /\ frames' = <<>>
         /\ UNCHANGED <<arrived, out>>

Fits(d) == Wanted(d, asked) /\ layout \in {Unlocked, LayoutOf(d)}

\* The frames of d go behind those that wait, and only the oldest of all of
\* them go, as many as there is no room for.
Deliver(d) ==
  /\ open /\ Fits(d)
  /\ layout' = LayoutOf(d)
  /\ arrived' = arrived + 1
  /\ frames' = Newest(frames \o Carried(d, arrived'), Capacity(LayoutOf(d)))
  /\ UNCHANGED <<open, asked, out>>

Ignore(d) ==
  /\ open /\ ~ Fits(d)
  /\ arrived' = arrived + 1
  /\ UNCHANGED <<open, asked, layout, frames, out>>

Read(n) ==
  /\ open /\ frames # <<>>
  /\ LET k == IF n < Len(frames) THEN n ELSE Len(frames)
     IN  /\ out' = SubSeq(frames, 1, k)
         /\ frames' = SubSeq(frames, k + 1, Len(frames))
  /\ UNCHANGED <<open, asked, layout, arrived>>

Next ==
  \/ \E f \in Filters : Open(f)
  \/ Close
  \/ \E d \in Datagrams : Deliver(d) \/ Ignore(d)
  \/ \E n \in 1 .. MaxTake : Read(n)

Spec == Init /\ [][Next]_fvars
=============================================================================
