------------------------------ MODULE Batcher ------------------------------
(***************************************************************************)
(* The batchers of the ingest pipeline (internal/ingest/batcher.go): rows  *)
(* collect under a mutex and go to the database in batches, when MaxSize   *)
(* of them have come or when a timer, started by the first, runs out.      *)
(*                                                                         *)
(* One action is one critical section of the mutex.  A timer that has run  *)
(* out waits for the mutex as a goroutine of its own: Stop no longer       *)
(* reaches it, and it may find the rows of a later batch.                  *)
(***************************************************************************)
EXTENDS Naturals, Sequences, FiniteSets

CONSTANTS
  BatchRow, \* the rows a producer may add
  MaxSize   \* rows that are flushed without waiting for the timer, at least 1

VARIABLES
  items,     \* the batch being collected
  timer,     \* the batch's timer: not started, running, or waiting for the mutex
  late,      \* callbacks waiting for the mutex whose batch was flushed without them
  stopped,   \* set by Stop
  flights,   \* batches handed to flushFn, each in a goroutine
  fate       \* what has become of each row

batcherVars == <<items, timer, late, stopped, flights, fate>>

Collected(q) == {q[i] : i \in DOMAIN q}

BatcherTypeOK ==
  /\ items \in Seq(BatchRow)
  /\ timer \in {"none", "running", "waiting"}
  /\ late \in Nat
  /\ stopped \in BOOLEAN
  /\ flights \in SUBSET Seq(BatchRow)
  /\ fate \in [BatchRow -> {"new", "held", "stored", "failed", "refused"}]

BatcherInit ==
  /\ items = <<>>
  /\ timer = "none"
  /\ late = 0
  /\ stopped = FALSE
  /\ flights = {}
  /\ fate = [r \in BatchRow |-> "new"]

-----------------------------------------------------------------------------
\* A slip: the batch is handed over and kept.
FlushKeeps(q, ownTimer) ==
  /\ flights' = flights \cup {q}
  /\ timer' = "none"
  /\ UNCHANGED items
  /\ late' = IF timer = "waiting" /\ ~ownTimer THEN late + 1 ELSE late

(* flushLocked of the batch q.  A timer already waiting for the mutex      *)
(* stays, late, unless it is the one that flushes.                         *)
FlushLocked(q, ownTimer) ==
  /\ flights' = flights \cup {q}
  /\ items' = <<>>
  /\ timer' = "none"
  /\ late' = IF timer = "waiting" /\ ~ownTimer THEN late + 1 ELSE late

Refuse(r) ==
  /\ stopped
  /\ fate' = [fate EXCEPT ![r] = "refused"]
  /\ UNCHANGED <<items, timer, late, stopped, flights>>

Collect(r) ==
  /\ ~stopped
  /\ fate' = [fate EXCEPT ![r] = "held"]
  /\ IF Len(items) + 1 >= MaxSize
       THEN FlushLocked(Append(items, r), FALSE)
       ELSE /\ items' = Append(items, r)
            /\ timer' = IF items = <<>> THEN "running" ELSE timer
            /\ UNCHANGED <<late, flights>>
  /\ UNCHANGED stopped

Add(r) == fate[r] = "new" /\ (Refuse(r) \/ Collect(r))

TimerRunsOut ==
  /\ timer = "running"
  /\ timer' = "waiting"
  /\ UNCHANGED <<items, late, stopped, flights, fate>>

\* The callback of the batch's own timer gets the mutex.
TimerFlushes ==
  /\ timer = "waiting"
  /\ IF ~stopped /\ items # <<>>
       THEN FlushLocked(items, TRUE)
       ELSE timer' = "none" /\ UNCHANGED <<items, late, flights>>
  /\ UNCHANGED <<stopped, fate>>

\* The callback of an earlier batch's timer gets the mutex: it flushes what it finds.
LateTimerFlushes ==
  /\ late > 0
  /\ IF ~stopped /\ items # <<>>
       THEN /\ flights' = flights \cup {items}
            /\ items' = <<>>
            /\ timer' = "none"
            /\ late' = IF timer = "waiting" THEN late ELSE late - 1
       ELSE late' = late - 1 /\ UNCHANGED <<items, timer, flights>>
  /\ UNCHANGED <<stopped, fate>>

\* flushFn returns: the rows are in the database, or the error was logged.
FlushReturns(q, outcome) ==
  /\ q \in flights
  /\ flights' = flights \ {q}
  /\ fate' = [r \in BatchRow |-> IF r \in Collected(q) THEN outcome ELSE fate[r]]
  /\ UNCHANGED <<items, timer, late, stopped>>

\* Stop up to its wait for the goroutines.
StopBatcher ==
  /\ ~stopped
  /\ stopped' = TRUE
  /\ IF items # <<>>
       THEN FlushLocked(items, FALSE)
       ELSE UNCHANGED <<items, timer, late, flights>>
  /\ UNCHANGED fate

\* wg.Wait of Stop returns.
BatcherIdle == stopped /\ flights = {}

BatcherNext ==
  \/ \E r \in BatchRow : Add(r)
  \/ TimerRunsOut
  \/ TimerFlushes
  \/ LateTimerFlushes
  \/ \E q \in flights, outcome \in {"stored", "failed"} : FlushReturns(q, outcome)
  \/ StopBatcher

BatcherSpec == BatcherInit /\ [][BatcherNext]_batcherVars

-----------------------------------------------------------------------------
(* Every row a producer handed over is in exactly one place: in the batch, *)
(* in one batch on its way, or settled.  A row is never dropped by a       *)
(* timer's callback, a flush by size and Stop meeting at the mutex, and    *)
(* never written twice.                                                    *)
Holders(r) == {q \in flights : r \in Collected(q)}

RowsConserved ==
  \A r \in BatchRow :
    /\ fate[r] = "held" <=> r \in Collected(items) \/ Holders(r) # {}
    /\ r \in Collected(items) => Holders(r) = {}
    /\ \A p, q \in Holders(r) : p = q

\* Rows that wait have a timer that will flush them; after Stop none wait.
RowsDoNotWait == items # <<>> => timer # "none" /\ ~stopped
=============================================================================
