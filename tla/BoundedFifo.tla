---------------------------- MODULE BoundedFifo ----------------------------
(***************************************************************************)
(* What IngestQueue promises its two threads (spec.md 4.1): a FIFO of at  *)
(* most Cap frames.  A push either appends at the back or is refused,     *)
(* a pop removes the front, and clear() empties it.  Refused pushes       *)
(* leave q alone, so they are stuttering steps of this specification.     *)
(***************************************************************************)
EXTENDS Naturals, Sequences

CONSTANTS Cap,      \* capacity() of the ring
          Frames    \* the frames that can be pushed

VARIABLE q

Init == q = <<>>

Enqueue(f) ==
    /\ Len(q) < Cap
    /\ q' = Append(q, f)

Dequeue ==
    /\ q # <<>>
    /\ q' = Tail(q)

Reset == q' = <<>>

Next ==
    \/ \E f \in Frames : Enqueue(f)
    \/ Dequeue
    \/ Reset

Spec == Init /\ [][Next]_q
=============================================================================
