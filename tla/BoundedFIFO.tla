---------------------------- MODULE BoundedFIFO -----------------------------
(***************************************************************************)
(* What an idlog is meant to be, and how module HW uses queuedids and      *)
(* flyingids: a queue of at most Max ids, none of them 0.                  *)
(***************************************************************************)
EXTENDS Integers, Sequences

CONSTANTS
  Max,    \* capacity
  Ids     \* the ids that may be added

VARIABLE queue

FIFOInit == queue = <<>>

\* Adding 0, or to a full queue, is an error and changes nothing.
Put(id) ==
  queue' = IF id = 0 \/ Len(queue) = Max THEN queue ELSE Append(queue, id)

\* Removing from an empty queue is an error and changes nothing.
Take == queue' = IF queue = <<>> THEN queue ELSE Tail(queue)

FIFONext == Take \/ \E id \in Ids : Put(id)
FIFOSpec == FIFOInit /\ [][FIFONext]_queue
=============================================================================
