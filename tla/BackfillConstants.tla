------------------------- MODULE BackfillConstants --------------------------
(* The parameters of the transcription backfill manager, and what they are. *)
EXTENDS Integers, FiniteSets

CONSTANTS
  Calls,         \* calls, numbered in backfill order
  Filters,       \* the sets of calls a job's filters can select
  Handlers,      \* HTTP handler goroutines that submit jobs
  MaxJobs,       \* bound: how many jobs are ever submitted
  MaxLive,       \* bound: how many calls the live pipeline enqueues
  BatchSize,     \* backfillBatchSize
  QueueSize,     \* capacity of the transcription queue
  StoreOrdered   \* ListUntranscribedCalls returns calls after the cursor, in order

ASSUME CallsAssumption   == Calls \subseteq Nat \ {0} /\ IsFiniteSet(Calls)
ASSUME FiltersAssumption == Filters \subseteq SUBSET Calls
ASSUME BoundsAssumption  == MaxJobs \in Nat /\ MaxLive \in Nat
ASSUME SizesAssumption   == BatchSize \in Nat \ {0} /\ QueueSize \in Nat \ {0}
ASSUME StoreAssumption   == StoreOrdered \in BOOLEAN
=============================================================================
