----------------------------- MODULE BatchStream -----------------------------
(***************************************************************************)
(* What record() promises the reader of recording.stream, with no clock,   *)
(* no schedule and no tasks: batches are published in increasing order of  *)
(* slot and read in that order, and the overflow policy alone decides      *)
(* which batch is given up when the stream is full.                        *)
(***************************************************************************)
EXTENDS Integers, Sequences

CONSTANT
  Capacity \* batches the stream buffers, at least one

VARIABLES
  overflow, \* the policy, fixed for the run
  newest,   \* slot of the last batch polled, -1 before the first
  pending,  \* batches published and not yet read
  read      \* batches the reader has got

vars == <<overflow, newest, pending, read>>

Init ==
  /\ overflow \in {"BLOCK", "DROP_NEWEST", "DROP_OLDEST"}
  /\ newest = -1
  /\ pending = <<>>
  /\ read = <<>>

\* A batch is its slot; the next one polled is of a later slot.
Polled == newest' \in Nat /\ newest' > newest

\* A newer batch joins the stream.  Only BLOCK may exceed the capacity, by the
\* one batch whose publisher is waiting.
Publish ==
  /\ Polled
  /\ Len(pending) < Capacity \/ (overflow = "BLOCK" /\ Len(pending) = Capacity)
  /\ pending' = Append(pending, newest')
  /\ UNCHANGED <<overflow, read>>

DropNewest ==
  /\ Polled
  /\ overflow = "DROP_NEWEST"
  /\ Len(pending) = Capacity
  /\ UNCHANGED <<overflow, pending, read>>

DropOldest ==
  /\ Polled
  /\ overflow = "DROP_OLDEST"
  /\ Len(pending) = Capacity
  /\ pending' = Append(Tail(pending), newest')
  /\ UNCHANGED <<overflow, read>>

Read ==
  /\ pending # <<>>
  /\ read' = Append(read, Head(pending))
  /\ pending' = Tail(pending)
  /\ UNCHANGED <<overflow, newest>>

Next == Publish \/ DropNewest \/ DropOldest \/ Read

Spec == Init /\ [][Next]_vars
=============================================================================
