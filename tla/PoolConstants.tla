--------------------------- MODULE PoolConstants ----------------------------
(* The parameters of the transcription worker pool, and what they are.     *)
EXTENDS Integers

CONSTANTS
  Producers,     \* goroutines that call Enqueue
  Workers,       \* worker goroutines
  Capacity,      \* opts.QueueSize, the capacity of wp.jobs
  RingSize,      \* perfRingSize
  MaxEnqueues    \* bound: how many times Enqueue is called

ASSUME PoolAssumption ==
  Capacity \in Nat \ {0} /\ RingSize \in Nat \ {0} /\ MaxEnqueues \in Nat

\* opts.Workers is at least 1: a pool without workers would stop over its queue.
ASSUME WorkersAssumption == Workers # {}
=============================================================================
