----------------------------- MODULE WorkerPool -----------------------------
(***************************************************************************)
(* The transcription worker pool (internal/transcribe/worker.go) and the   *)
(* goroutines around it: producers (ingest handlers, the backfill loop,    *)
(* HTTP handlers) that call Enqueue, workers, and Pipeline.Stop, which     *)
(* stops the pool before it cancels the context the producers run under.   *)
(*                                                                         *)
(* Enqueue looks at an atomic flag and then sends on the channel: two      *)
(* steps.  A send on the closed channel panics and takes the process down. *)
(***************************************************************************)
EXTENDS PoolConstants, FiniteSets, SequencesExt

Jobs == 1..MaxEnqueues

VARIABLES
  calls,         \* the last job an Enqueue was called with
  jobs,          \* the channel wp.jobs
  closed,        \* close(wp.jobs) has run
  stopped,       \* wp.stopped
  producer,      \* the job each producer passed the check of wp.stopped with
  worker,        \* where each worker is, and its job
  stopper,       \* where Stop is
  panicked,      \* a goroutine panicked: the process is gone
  completed,     \* wp.completed
  failed,        \* wp.failed
  buf,           \* perfRing.buf, the jobs whose records it holds
  pos,           \* perfRing.pos
  count,         \* perfRing.count
  accepted,      \* history: the jobs Enqueue returned true for
  answered,      \* history: the jobs a worker counted
  pushed         \* history: the jobs pushed to the ring, in order

chanVars == <<jobs, closed, stopped>>
ringVars == <<buf, pos, count, pushed>>
countVars == <<completed, failed, answered>>
vars == <<calls, chanVars, producer, worker, stopper, panicked, countVars, ringVars, accepted>>

Idle == [pc |-> "idle", job |-> 0]

Init ==
  /\ calls = 0 /\ jobs = <<>> /\ closed = FALSE /\ stopped = FALSE
  /\ producer = [p \in Producers |-> 0]
  /\ worker = [w \in Workers |-> Idle]
  /\ stopper = "running" /\ panicked = FALSE
  /\ completed = 0 /\ failed = 0
  /\ buf = [i \in 0..(RingSize - 1) |-> 0] /\ pos = 0 /\ count = 0
  /\ accepted = {} /\ answered = {} /\ pushed = <<>>

-----------------------------------------------------------------------------
(* Enqueue                                                                 *)

EnqueueCheck(p) ==
  /\ ~panicked /\ producer[p] = 0 /\ calls < MaxEnqueues
  /\ calls' = calls + 1
  /\ producer' = [producer EXCEPT ![p] = IF stopped THEN 0 ELSE calls']
  /\ UNCHANGED <<chanVars, worker, stopper, panicked, countVars, ringVars, accepted>>

\* Mutant: a full queue is taken for one with room.
SendDropsOldest(p) ==
  /\ ~panicked /\ producer[p] # 0
  /\ producer' = [producer EXCEPT ![p] = 0]
  /\ \/ closed /\ panicked' = TRUE /\ UNCHANGED <<jobs, accepted>>
     \/ /\ ~closed
        /\ jobs' = Append(IF Len(jobs) < Capacity THEN jobs ELSE Tail(jobs), producer[p])
        /\ accepted' = accepted \cup {producer[p]}
        /\ UNCHANGED panicked
  /\ UNCHANGED <<calls, closed, stopped, worker, stopper, countVars, ringVars>>

\* Mutant: it blocks until there is room, and the channel grows meanwhile.
SendUnbounded(p) ==
  /\ ~panicked /\ producer[p] # 0 /\ ~closed
  /\ producer' = [producer EXCEPT ![p] = 0]
  /\ jobs' = Append(jobs, producer[p])
  /\ accepted' = accepted \cup {producer[p]}
  /\ UNCHANGED <<calls, closed, stopped, worker, stopper, panicked, countVars, ringVars>>

\* select with default: the send panics on a closed channel, is refused when
\* the channel is full.
EnqueueSend(p) ==
  /\ ~panicked /\ producer[p] # 0
  /\ producer' = [producer EXCEPT ![p] = 0]
  /\ \/ closed /\ panicked' = TRUE /\ UNCHANGED <<jobs, accepted>>
     \/ /\ ~closed /\ Len(jobs) < Capacity
        /\ jobs' = Append(jobs, producer[p])
        /\ accepted' = accepted \cup {producer[p]}
        /\ UNCHANGED panicked
     \/ /\ ~closed /\ Len(jobs) >= Capacity
        /\ UNCHANGED <<jobs, accepted, panicked>>
  /\ UNCHANGED <<calls, closed, stopped, worker, stopper, countVars, ringVars>>

-----------------------------------------------------------------------------
(* worker and processJob                                                   *)

Step(w, from, to) ==
  /\ ~panicked
  /\ worker[w].pc = from
  /\ worker' = [worker EXCEPT ![w].pc = to]

TakeJob(w) ==
  /\ ~panicked
  /\ worker[w] = Idle /\ jobs # <<>>
  /\ jobs' = Tail(jobs)
  /\ worker' = [worker EXCEPT ![w] = [pc |-> "transcribe", job |-> Head(jobs)]]
  /\ UNCHANGED <<calls, closed, stopped, producer, stopper, panicked, countVars, ringVars,
                 accepted>>

\* No audio, the provider or the insert fails; or the text is empty, when the
\* result of the status update is ignored; or the transcription is stored.
Transcribe(w) ==
  /\ \E to \in {"failed", "counted", "stored"} : Step(w, "transcribe", to)
  /\ UNCHANGED <<calls, chanVars, producer, stopper, panicked, countVars, ringVars, accepted>>

\* Mutant: the write position stays inside the part of the ring in use.
PushLate(w) ==
  /\ Step(w, "stored", "counted")
  /\ buf' = [buf EXCEPT ![pos] = worker[w].job]
  /\ count' = IF count < RingSize THEN count + 1 ELSE count
  /\ pos' = (pos + 1) % count'
  /\ pushed' = Append(pushed, worker[w].job)
  /\ UNCHANGED <<calls, chanVars, producer, stopper, panicked, countVars, accepted>>

\* perfRing.push, under its mutex, and PublishEvent.
PushRecord(w) ==
  /\ Step(w, "stored", "counted")
  /\ buf' = [buf EXCEPT ![pos] = worker[w].job]
  /\ pos' = (pos + 1) % RingSize
  /\ count' = IF count < RingSize THEN count + 1 ELSE count
  /\ pushed' = Append(pushed, worker[w].job)
  /\ UNCHANGED <<calls, chanVars, producer, stopper, panicked, countVars, accepted>>

Count(w) ==
  /\ ~panicked
  /\ worker[w].pc \in {"failed", "counted"}
  /\ worker' = [worker EXCEPT ![w] = Idle]
  /\ IF worker[w].pc = "failed"
     THEN failed' = failed + 1 /\ UNCHANGED completed
     ELSE completed' = completed + 1 /\ UNCHANGED failed
  /\ answered' = answered \cup {worker[w].job}
  /\ UNCHANGED <<calls, chanVars, producer, stopper, panicked, ringVars, accepted>>

\* range over the closed and empty channel ends.
WorkerExit(w) ==
  /\ ~panicked
  /\ worker[w] = Idle /\ closed /\ jobs = <<>>
  /\ worker' = [worker EXCEPT ![w].pc = "done"]
  /\ UNCHANGED <<calls, chanVars, producer, stopper, panicked, countVars, ringVars, accepted>>

-----------------------------------------------------------------------------
(* Stop                                                                    *)

SetStopped ==
  /\ ~panicked /\ stopper = "running"
  /\ stopped' = TRUE /\ stopper' = "close"
  /\ UNCHANGED <<calls, jobs, closed, producer, worker, panicked, countVars, ringVars, accepted>>

\* Mutant: the channel is left open.
CloseForgotten ==
  /\ ~panicked /\ stopper = "close"
  /\ stopper' = "wait"
  /\ UNCHANGED <<calls, chanVars, producer, worker, panicked, countVars, ringVars, accepted>>

CloseJobs ==
  /\ ~panicked /\ stopper = "close"
  /\ closed' = TRUE /\ stopper' = "wait"
  /\ UNCHANGED <<calls, jobs, stopped, producer, worker, panicked, countVars, ringVars, accepted>>

\* Mutant: Stop returns once the queue is empty.
WaitForQueue ==
  /\ ~panicked /\ stopper = "wait" /\ jobs = <<>>
  /\ stopper' = "returned"
  /\ UNCHANGED <<calls, chanVars, producer, worker, panicked, countVars, ringVars, accepted>>

\* wp.wg.Wait, then wp.cancel, which no job is left to notice.
WaitForWorkers ==
  /\ ~panicked /\ stopper = "wait" /\ \A w \in Workers : worker[w].pc = "done"
  /\ stopper' = "returned"
  /\ UNCHANGED <<calls, chanVars, producer, worker, panicked, countVars, ringVars, accepted>>

-----------------------------------------------------------------------------
Enqueue(p) == EnqueueCheck(p) \/ EnqueueSend(p)
Work(w) == TakeJob(w) \/ Transcribe(w) \/ PushRecord(w) \/ Count(w) \/ WorkerExit(w)
Stop == SetStopped \/ CloseJobs \/ WaitForWorkers

Next ==
  \/ \E p \in Producers : Enqueue(p)
  \/ \E w \in Workers : Work(w)
  \/ Stop

\* Every job a worker runs ends, at the latest by its timeout.  A producer
\* and the stopper finish what they began.
Fairness ==
  /\ \A w \in Workers : WF_vars(Work(w))
  /\ \A p \in Producers : WF_vars(EnqueueSend(p))
  /\ WF_vars(CloseJobs \/ WaitForWorkers)

Spec == Init /\ [][Next]_vars
FairSpec == Spec /\ Fairness

-----------------------------------------------------------------------------
TypeOK ==
  /\ calls \in 0..MaxEnqueues
  /\ jobs \in Seq(Jobs) /\ Len(jobs) <= Capacity
  /\ closed \in BOOLEAN /\ stopped \in BOOLEAN /\ panicked \in BOOLEAN
  /\ producer \in [Producers -> {0} \cup Jobs]
  /\ worker \in [Workers -> [pc : {"idle", "transcribe", "stored", "failed", "counted", "done"},
                             job : {0} \cup Jobs]]
  /\ stopper \in {"running", "close", "wait", "returned"}
  /\ completed \in Nat /\ failed \in Nat
  /\ buf \in [0..(RingSize - 1) -> {0} \cup Jobs] /\ pos \in 0..(RingSize - 1) /\ count \in 0..RingSize
  /\ accepted \subseteq Jobs /\ answered \subseteq Jobs /\ pushed \in Seq(Jobs)

\* What the pool is to its callers (refinement): accepted jobs wait in the
\* channel or with a worker until one worker counts them, once.
Phase ==
  IF panicked THEN "crashed"
  ELSE CASE stopper = "returned" -> "stopped"
         [] closed /\ stopper # "returned" -> "draining"
         [] OTHER -> "open"

Service == INSTANCE JobService WITH
             phase <- Phase, outstanding <- accepted \ answered, answered <- answered

\* Enqueue and Stop keep JobService's promise: a job Enqueue accepted is
\* answered once, and Stop returns only when none is left (worker.go:244-254).
ServiceSpec == Service!Spec

\* The counters Stats reports add up to the jobs answered, each counted once
\* and held by nobody any more (worker.go:299-314).
CountersAddUp ==
  /\ completed + failed = Cardinality(answered)
  /\ answered \subseteq accepted
  /\ accepted = answered \cup ToSet(jobs) \cup {worker[w].job : w \in {v \in Workers : worker[v].job # 0}}

\* snapshot: the records in the order they are copied out.
Snapshot ==
  [i \in 1..count |-> IF count < RingSize THEN buf[i - 1] ELSE buf[(pos + i - 1) % RingSize]]

\* A snapshot of the ring is the latest RingSize completions, oldest first
\* (worker.go:66-97).
RingIsLatest == Snapshot = SubSeq(pushed, Len(pushed) - count + 1, Len(pushed))

\* Once Stop is called it returns, unless a producer's send panicked.
StopReturns == stopped ~> stopper = "returned" \/ panicked

\* Enqueue answers false once the pool has been stopped (worker.go:256-257),
\* and so never fails.
EnqueueNeverPanics == ~panicked
=============================================================================
