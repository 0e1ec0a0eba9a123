------------------------------ MODULE Backfill ------------------------------
(***************************************************************************)
(* The transcription backfill manager (internal/ingest/backfill.go).       *)
(*                                                                         *)
(* HTTP handlers submit and cancel jobs; one goroutine, loop, takes the    *)
(* jobs in order and walks the untranscribed calls that match each job's   *)
(* filters with a keyset cursor, handing one call at a time to the         *)
(* transcription queue.  Meanwhile calls arrive, are transcribed by other  *)
(* means, and the queue fills and drains.                                  *)
(*                                                                         *)
(* A call is its place in backfill order (start_time DESC, call_id DESC),  *)
(* so the keyset cursor is a number and 0 is the nil cursor.  What the     *)
(* code does under bm.mu is one step; a goroutine can be interrupted       *)
(* wherever it releases the mutex, queries the database or uses a channel. *)
(***************************************************************************)
EXTENDS BackfillConstants, SequencesExt

VARIABLES
  nextID,        \* bm.nextID, the last job id given out
  queue,         \* bm.queue, job ids
  active,        \* bm.active, 0 for nil
  signal,        \* bm.submit holds a token
  cancelled,     \* the jobs removed by Cancel or whose cancelFn it called
  filter,        \* job.Filters
  total,         \* job.Total
  completed,     \* job.Completed
  failed,        \* job.Failed
  handler,       \* where each handler is in Submit, and with what
  down,          \* bm.ctx is done: the pipeline shuts down
  pc,            \* where the loop goroutine is
  job,           \* its local job, 0 for none
  cursor,        \* its local cursor
  batch,         \* the calls of the current page not yet visited
  lastPage,      \* the current page was a short one
  enqueued,      \* the result of the last enqueueCall
  untranscribed, \* the calls the backfill queries can return
  arrived,       \* the calls that have been in that set
  pending,       \* Stats().Pending, the length of the transcription queue
  liveLeft,      \* how many enqueues the live pipeline has left
  tried,         \* history: the calls each job passed to enqueueCall
  late,          \* history: how many of the running job's, after its Cancel
  steady,        \* history: the running job's matching calls that have been
                 \* untranscribed since its recount
  ending         \* history: how processJob returned, "none" while it has not

mgrVars  == <<nextID, queue, active, signal, cancelled>>
recVars  == <<filter, total, completed, failed>>
loopVars == <<job, cursor, batch, lastPage, enqueued>>
envVars  == <<untranscribed, arrived, pending, liveLeft>>
histVars == <<tried, late, steady, ending>>
vars     == <<mgrVars, recVars, handler, down, pc, loopVars, envVars, histVars>>

Jobs == 1..MaxJobs
Queued == ToSet(queue)
Matching(j) == filter[j] \cap untranscribed
Done(j) == completed[j] + failed[j]

\* jobCtx.Err() # nil
Cancelled(j) == down \/ j \in cancelled

Idle == [pc |-> "idle", filter |-> {}, total |-> 0]

Init ==
  /\ nextID = 0 /\ queue = <<>> /\ active = 0 /\ signal = FALSE /\ cancelled = {}
  /\ filter = [j \in Jobs |-> {}] /\ total = [j \in Jobs |-> 0]
  /\ completed = [j \in Jobs |-> 0] /\ failed = [j \in Jobs |-> 0]
  /\ handler = [h \in Handlers |-> Idle] /\ down = FALSE
  /\ pc = "grab" /\ job = 0 /\ cursor = 0 /\ batch = {}
  /\ lastPage = FALSE /\ enqueued = FALSE
  /\ untranscribed \in SUBSET Calls /\ arrived = untranscribed
  /\ pending = 0 /\ liveLeft = MaxLive
  /\ tried = [j \in Jobs |-> {}] /\ late = 0 /\ steady = {}
  /\ ending = [j \in Jobs |-> "none"]

-----------------------------------------------------------------------------
(* Submit: count, append under bm.mu, then signal the loop.                *)

SubmitCount(h, f) ==
  /\ handler[h].pc = "idle"
  /\ handler' = [handler EXCEPT ![h] =
                   [pc |-> "append", filter |-> f,
                    total |-> Cardinality(f \cap untranscribed)]]
  /\ UNCHANGED <<mgrVars, recVars, down, pc, loopVars, envVars, histVars>>

SubmitAppend(h) ==
  /\ handler[h].pc = "append"
  /\ nextID < MaxJobs
  /\ nextID' = nextID + 1
  /\ queue' = Append(queue, nextID')
  /\ filter' = [filter EXCEPT ![nextID'] = handler[h].filter]
  /\ total' = [total EXCEPT ![nextID'] = handler[h].total]
  /\ handler' = [handler EXCEPT ![h].pc = "signal"]
  /\ UNCHANGED <<active, signal, cancelled, completed, failed,
                 down, pc, loopVars, envVars, histVars>>

\* A non-blocking send: a token already in the channel is enough.
SubmitSignal(h) ==
  /\ handler[h].pc = "signal"
  /\ signal' = TRUE
  /\ handler' = [handler EXCEPT ![h] = Idle]
  /\ UNCHANGED <<nextID, queue, active, cancelled, recVars,
                 down, pc, loopVars, envVars, histVars>>

-----------------------------------------------------------------------------
(* Cancel, one critical section.                                           *)

\* Cancel(id <= 0): forget the queue, cancel the running job.
CancelAll ==
  /\ queue' = <<>>
  /\ cancelled' = cancelled \cup Queued \cup ({active} \ {0})
  /\ UNCHANGED <<nextID, active, signal, recVars, handler,
                 down, pc, loopVars, envVars, histVars>>

\* Cancel(id) of the running job cancels its context and lets it return.
CancelActive ==
  /\ active # 0
  /\ cancelled' = cancelled \cup {active}
  /\ UNCHANGED <<nextID, queue, active, signal, recVars, handler,
                 down, pc, loopVars, envVars, histVars>>

\* Cancel(id) of a queued job removes it.
CancelQueued(i) ==
  /\ i \in DOMAIN queue
  /\ queue' = RemoveAt(queue, i)
  /\ cancelled' = cancelled \cup {queue[i]}
  /\ UNCHANGED <<nextID, active, signal, recVars, handler,
                 down, pc, loopVars, envVars, histVars>>

-----------------------------------------------------------------------------
(* loop                                                                    *)

NothingQueued ==
  /\ pc = "grab" /\ queue = <<>>
  /\ pc' = "wait"
  /\ UNCHANGED <<mgrVars, recVars, handler, down, loopVars, envVars, histVars>>

\* Mutant: the newest job first.
GrabNewest ==
  /\ pc = "grab" /\ queue # <<>>
  /\ job' = Last(queue) /\ active' = Last(queue) /\ queue' = Front(queue)
  /\ pc' = "recount"
  /\ UNCHANGED <<nextID, signal, cancelled, recVars, handler, down,
                 cursor, batch, lastPage, enqueued, envVars, histVars>>

GrabJob ==
  /\ pc = "grab" /\ queue # <<>>
  /\ job' = Head(queue) /\ active' = Head(queue) /\ queue' = Tail(queue)
  /\ pc' = "recount"
  /\ UNCHANGED <<nextID, signal, cancelled, recVars, handler, down,
                 cursor, batch, lastPage, enqueued, envVars, histVars>>

WakeUp ==
  /\ pc = "wait" /\ signal
  /\ signal' = FALSE
  /\ pc' = "grab"
  /\ UNCHANGED <<nextID, queue, active, cancelled, recVars, handler, down,
                 loopVars, envVars, histVars>>

LoopExit ==
  /\ pc = "wait" /\ down
  /\ pc' = "exited"
  /\ UNCHANGED <<mgrVars, recVars, handler, down, loopVars, envVars, histVars>>

\* Mutant: one job for each token, an "if" where loop has a "for".
FinishThenWait ==
  /\ pc = "finish"
  /\ active' = 0 /\ job' = 0 /\ cursor' = 0 /\ batch' = {}
  /\ late' = 0 /\ steady' = {}
  /\ pc' = "wait"
  /\ UNCHANGED <<nextID, queue, signal, cancelled, recVars, handler, down,
                 lastPage, enqueued, envVars, tried, ending>>

\* The tail of loop: cancel() releases the context and bm.active is cleared.
FinishJob ==
  /\ pc = "finish"
  /\ active' = 0 /\ job' = 0 /\ cursor' = 0 /\ batch' = {}
  /\ late' = 0 /\ steady' = {}
  /\ pc' = "grab"
  /\ UNCHANGED <<nextID, queue, signal, cancelled, recVars, handler, down,
                 lastPage, enqueued, envVars, tried, ending>>

-----------------------------------------------------------------------------
(* processJob                                                              *)

\* processJob returns; loop goes on at FinishJob.
Return(how) ==
  /\ pc' = "finish"
  /\ ending' = [ending EXCEPT ![job] = how]
  /\ UNCHANGED <<mgrVars, recVars, handler, down, envVars, tried, late, steady,
                 job, batch, lastPage, enqueued>>

\* A recount that fails (always, once the job is cancelled) keeps the total
\* taken when the job was submitted.
Recount ==
  /\ pc = "recount"
  /\ \/ ~Cancelled(job) /\ total' = [total EXCEPT ![job] = Cardinality(Matching(job))]
     \/ UNCHANGED total
  /\ steady' = Matching(job)
  /\ pc' = "query"
  /\ UNCHANGED <<mgrVars, filter, completed, failed, handler, down, loopVars, envVars,
                 tried, late, ending>>

\* ListUntranscribedCalls(filter, cursor, BatchSize): the first BatchSize
\* matching calls after the cursor.  A store that regresses, which processJob
\* guards against, may return any matching calls.
Pages ==
  LET after == IF StoreOrdered THEN {c \in Matching(job) : c > cursor} ELSE Matching(job)
  IN {page \in SUBSET after :
        /\ Cardinality(page) <= BatchSize
        /\ Cardinality(page) < BatchSize => page = after
        /\ StoreOrdered => \A c \in page, d \in after \ page : c < d}

\* Mutant: a full page taken for the last one.
QueryFullIsLast ==
  /\ pc = "query" /\ ~Cancelled(job)
  /\ \E page \in Pages :
       /\ batch' = page
       /\ lastPage' = (Cardinality(page) <= BatchSize)
  /\ pc' = "next"
  /\ UNCHANGED <<mgrVars, recVars, handler, down, job, cursor, enqueued, envVars, histVars>>

QueryPage ==
  /\ pc = "query" /\ ~Cancelled(job)
  /\ \E page \in Pages :
       /\ batch' = page
       /\ lastPage' = (Cardinality(page) < BatchSize)
  /\ pc' = "next"
  /\ UNCHANGED <<mgrVars, recVars, handler, down, job, cursor, enqueued, envVars, histVars>>

QueryStops ==
  /\ pc = "query"
  /\ \/ Cancelled(job) /\ Return("cancelled")
     \/ ~Cancelled(job) /\ Return("error")
  /\ UNCHANGED cursor

\* Mutant: asks for another page even after a short one.
EndAsksAgain ==
  /\ pc = "next" /\ batch = {} /\ pc' = "query"
  /\ UNCHANGED <<mgrVars, recVars, handler, down, loopVars, envVars, histVars>>

EndOfPage ==
  /\ pc = "next" /\ batch = {}
  /\ \/ lastPage /\ Return("done") /\ UNCHANGED cursor
     \/ /\ ~lastPage /\ pc' = "query"
        /\ UNCHANGED <<mgrVars, recVars, handler, down, loopVars, envVars, histVars>>

\* The page's calls are visited in its order; one at or before the cursor
\* stops the job, as does a cancelled context.
NextInPage == {c \in batch : StoreOrdered => \A d \in batch : c <= d}

\* Mutant: no look at the context and no wait for room between two calls.
NextUnchecked ==
  /\ pc = "next"
  /\ \E c \in NextInPage :
       /\ c > cursor
       /\ cursor' = c /\ batch' = batch \ {c}
       /\ pc' = "handout"
       /\ UNCHANGED <<mgrVars, recVars, handler, down, job, lastPage, enqueued,
                      envVars, histVars>>

NextCall ==
  /\ pc = "next"
  /\ \E c \in NextInPage :
       \/ c <= cursor /\ Return("error") /\ UNCHANGED cursor
       \/ c > cursor /\ Cancelled(job) /\ Return("cancelled") /\ cursor' = c
       \/ /\ c > cursor /\ ~Cancelled(job)
          /\ cursor' = c /\ batch' = batch \ {c}
          /\ pc' = "room"
          /\ UNCHANGED <<mgrVars, recVars, handler, down, job, lastPage, enqueued,
                         envVars, histVars>>

\* waitForQueueRoom, and the check of the context after it.
QueueRoom ==
  /\ pc = "room"
  /\ \/ Cancelled(job) /\ Return("cancelled") /\ UNCHANGED cursor
     \/ /\ ~Cancelled(job) /\ pending <= 1
        /\ pc' = "handout"
        /\ UNCHANGED <<mgrVars, recVars, handler, down, loopVars, envVars, histVars>>

\* enqueueCall: the call cannot be loaded (always, once the job is cancelled)
\* or the provider does not take it; or it goes to the transcription queue,
\* which refuses it when it is full.
HandOut(ok) ==
  /\ pc = "handout"
  /\ enqueued' = ok
  /\ tried' = [tried EXCEPT ![job] = @ \cup {cursor}]
  /\ late' = IF Cancelled(job) THEN late + 1 ELSE late
  /\ pc' = "record"
  /\ UNCHANGED <<mgrVars, recVars, handler, down, job, cursor, batch, lastPage,
                 untranscribed, arrived, liveLeft, steady, ending>>

\* Mutant: a call that was taken is sent again.
EnqueueTwice ==
  \/ HandOut(FALSE) /\ UNCHANGED pending
  \/ pending < QueueSize /\ HandOut(TRUE) /\ pending' = pending + 2

EnqueueCall ==
  \/ HandOut(FALSE) /\ UNCHANGED pending
  \/ pending < QueueSize /\ HandOut(TRUE) /\ pending' = pending + 1

\* Mutant: the total stays what the recount found.
RecordInFixedTotal ==
  /\ pc = "record"
  /\ completed' = [completed EXCEPT ![job] = IF enqueued THEN @ + 1 ELSE @]
  /\ failed' = [failed EXCEPT ![job] = IF enqueued THEN @ ELSE @ + 1]
  /\ pc' = "next"
  /\ UNCHANGED <<mgrVars, filter, total, handler, down, loopVars, envVars, histVars>>

\* Mutant: Completed counts every call, also one that failed.
RecordTwice ==
  /\ pc = "record"
  /\ completed' = [completed EXCEPT ![job] = @ + 1]
  /\ failed' = [failed EXCEPT ![job] = IF enqueued THEN @ ELSE @ + 1]
  /\ total' = [total EXCEPT ![job] = completed'[job] + failed'[job]]
  /\ pc' = "next"
  /\ UNCHANGED <<mgrVars, filter, handler, down, loopVars, envVars, histVars>>

RecordResult ==
  /\ pc = "record"
  /\ completed' = [completed EXCEPT ![job] = IF enqueued THEN @ + 1 ELSE @]
  /\ failed' = [failed EXCEPT ![job] = IF enqueued THEN @ ELSE @ + 1]
  /\ total' = [total EXCEPT ![job] = IF Done(job) + 1 > @ THEN Done(job) + 1 ELSE @]
  /\ pc' = "next"
  /\ UNCHANGED <<mgrVars, filter, handler, down, loopVars, envVars, histVars>>

-----------------------------------------------------------------------------
(* What the manager runs beside.                                           *)

\* A call gets its audio and becomes a candidate, at any place in the order.
CallArrives(c) ==
  /\ c \notin arrived
  /\ arrived' = arrived \cup {c} /\ untranscribed' = untranscribed \cup {c}
  /\ UNCHANGED <<mgrVars, recVars, handler, down, pc, loopVars, pending, liveLeft, histVars>>

\* A worker or a user transcribes a call, or its status leaves "none".
CallTranscribed(c) ==
  /\ c \in untranscribed
  /\ untranscribed' = untranscribed \ {c} /\ steady' = steady \ {c}
  /\ UNCHANGED <<mgrVars, recVars, handler, down, pc, loopVars, arrived, pending, liveLeft,
                 tried, late, ending>>

LiveEnqueue ==
  /\ liveLeft > 0 /\ pending < QueueSize
  /\ pending' = pending + 1 /\ liveLeft' = liveLeft - 1
  /\ UNCHANGED <<mgrVars, recVars, handler, down, pc, loopVars, untranscribed, arrived, histVars>>

WorkerTakes ==
  /\ pending > 0
  /\ pending' = pending - 1
  /\ UNCHANGED <<mgrVars, recVars, handler, down, pc, loopVars, untranscribed, arrived,
                 liveLeft, histVars>>

\* Pipeline.Stop cancels the context the manager was built with.
Shutdown ==
  /\ ~down
  /\ down' = TRUE
  /\ UNCHANGED <<mgrVars, recVars, handler, pc, loopVars, envVars, histVars>>

-----------------------------------------------------------------------------
Submit(h) == (\E f \in Filters : SubmitCount(h, f)) \/ SubmitAppend(h) \/ SubmitSignal(h)
Cancel == CancelAll \/ CancelActive \/ \E i \in DOMAIN queue : CancelQueued(i)
ProcessJob == \/ Recount \/ QueryPage \/ QueryStops \/ EndOfPage \/ NextCall
              \/ QueueRoom \/ EnqueueCall \/ RecordResult
Loop == NothingQueued \/ GrabJob \/ WakeUp \/ LoopExit \/ ProcessJob \/ FinishJob
Database == \E c \in Calls : CallArrives(c) \/ CallTranscribed(c)

Next ==
  \/ \E h \in Handlers : Submit(h)
  \/ Cancel
  \/ Loop
  \/ Database
  \/ LiveEnqueue \/ WorkerTakes
  \/ Shutdown

\* Goroutines are scheduled; workers drain the queue, since every job they
\* run has a timeout.  Nothing forces a submission, a Cancel or a shutdown.
Fairness ==
  /\ WF_vars(Loop)
  /\ WF_vars(WorkerTakes)
  /\ \A h \in Handlers : WF_vars(SubmitAppend(h)) /\ WF_vars(SubmitSignal(h))

Spec == Init /\ [][Next]_vars
FairSpec == Spec /\ Fairness

-----------------------------------------------------------------------------
TypeOK ==
  /\ nextID \in 0..MaxJobs /\ queue \in Seq(Jobs) /\ active \in {0} \cup Jobs
  /\ signal \in BOOLEAN /\ cancelled \subseteq Jobs /\ down \in BOOLEAN
  /\ filter \in [Jobs -> SUBSET Calls]
  /\ total \in [Jobs -> Nat] /\ completed \in [Jobs -> Nat] /\ failed \in [Jobs -> Nat]
  /\ handler \in [Handlers -> [pc : {"idle", "append", "signal"},
                               filter : SUBSET Calls, total : Nat]]
  /\ pc \in {"grab", "wait", "exited", "recount", "query", "next", "room", "handout",
             "record", "finish"}
  /\ job \in {0} \cup Jobs /\ cursor \in {0} \cup Calls /\ batch \subseteq Calls
  /\ lastPage \in BOOLEAN /\ enqueued \in BOOLEAN
  /\ untranscribed \subseteq arrived /\ arrived \subseteq Calls
  /\ pending \in 0..QueueSize /\ liveLeft \in Nat
  /\ tried \in [Jobs -> SUBSET Calls] /\ late \in Nat /\ steady \subseteq Calls
  /\ ending \in [Jobs -> {"none", "done", "cancelled", "error"}]

\* Each call is counted at most once per job: the counters add up to the
\* number of distinct calls the job handed out, but for the one whose result
\* is being recorded (backfill.go:18, openapi.yaml:7073).
CountsDistinctCalls ==
  \A j \in Jobs :
    Cardinality(tried[j]) = Done(j) + (IF job = j /\ pc = "record" THEN 1 ELSE 0)

\* What Status shows never exceeds its total, although the total was counted
\* before the job ran and calls keep arriving (backfill.go:22-23, :334).
ProgressWithinTotal == \A j \in Jobs : Done(j) <= total[j]

\* The loop never sleeps over a queued job: while it waits and a job is
\* queued, a token is in the channel or a handler is about to send one.
NoLostWakeup ==
  pc = "wait" /\ queue # <<>> => signal \/ \E h \in Handlers : handler[h].pc = "signal"

\* One pass covers the set: a job that ran to its end has handed out every
\* call that matched from its recount on, whatever was transcribed or arrived
\* between two pages (backfill.go:281-286).
FullPass ==
  StoreOrdered /\ pc = "finish" /\ ending[job] = "done" => steady \subseteq tried[job]

\* After a Cancel of the running job at most the call already past the last
\* check of its context is still handed out.
CancelStopsTheJob == late <= 1

\* Jobs start in the order they were submitted, one at a time, and a job
\* Cancel removed from the queue never starts.
StartsInOrder ==
  [][active' # active /\ active' # 0 =>
       /\ active = 0
       /\ active' \notin cancelled
       /\ \A j \in Jobs : j >= active' => tried[j] = {} /\ ending[j] = "none"]_vars

\* Every submitted job returns, is cancelled, or is overtaken by a shutdown;
\* calls whose transcription fails stay untranscribed and do not keep the job
\* running (backfill.go:281-286, issue #59).
JobsEnd ==
  \A j \in Jobs :
    nextID >= j ~> ending[j] # "none" \/ Cancelled(j)
=============================================================================
