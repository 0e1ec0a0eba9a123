--------------------------- MODULE MCTranscribing ---------------------------
(***************************************************************************)
(* What hands calls to transcription, part by part: a pass of the backfill *)
(* over its calls (Backfill), backfill jobs that queue up behind each      *)
(* other, over a store that keeps no order (Backfill once more), and the   *)
(* worker pool (WorkerPool).  They share no state: a behaviour is that of  *)
(* one of them, told by part; the others keep still.                       *)
(***************************************************************************)
EXTENDS Backfill, PoolConstants

\* One job over three calls, in pages of two.
ThreeCalls == 1..3
AllOfThree == {1..3}

CONSTANTS
  Parts        \* the parts that are followed

VARIABLES
  part,
  nextIDJobs, queueJobs, activeJobs, signalJobs, cancelledJobs, filterJobs, totalJobs,
  completedJobs, failedJobs, handlerJobs, downJobs, pcJobs, jobJobs, cursorJobs, batchJobs,
  lastPageJobs, enqueuedJobs, untranscribedJobs, arrivedJobs, pendingJobs, liveLeftJobs,
  triedJobs, lateJobs, steadyJobs, endingJobs,
  calls, jobs, closed, stopped, producer, worker, stopper, panicked, completedPool, failedPool,
  buf, pos, count, accepted, answered, pushed

\* Two jobs over one call, so that one queues behind the other and is cancelled there.
J == INSTANCE Backfill WITH
  Calls <- {1}, Filters <- {{1}}, MaxJobs <- 2, MaxLive <- 1, BatchSize <- 1,
  QueueSize <- 2, StoreOrdered <- FALSE,
  nextID <- nextIDJobs, queue <- queueJobs, active <- activeJobs, signal <- signalJobs,
  cancelled <- cancelledJobs, filter <- filterJobs, total <- totalJobs,
  completed <- completedJobs, failed <- failedJobs, handler <- handlerJobs, down <- downJobs,
  pc <- pcJobs, job <- jobJobs, cursor <- cursorJobs, batch <- batchJobs,
  lastPage <- lastPageJobs, enqueued <- enqueuedJobs, untranscribed <- untranscribedJobs,
  arrived <- arrivedJobs, pending <- pendingJobs, liveLeft <- liveLeftJobs,
  tried <- triedJobs, late <- lateJobs, steady <- steadyJobs, ending <- endingJobs

P == INSTANCE WorkerPool WITH completed <- completedPool, failed <- failedPool

jobsVars == <<nextIDJobs, queueJobs, activeJobs, signalJobs, cancelledJobs, filterJobs, totalJobs,
    completedJobs, failedJobs, handlerJobs, downJobs, pcJobs, jobJobs, cursorJobs, batchJobs,
    lastPageJobs, enqueuedJobs, untranscribedJobs, arrivedJobs, pendingJobs, liveLeftJobs,
    triedJobs, lateJobs, steadyJobs, endingJobs>>
poolVars == <<calls, jobs, closed, stopped, producer, worker, stopper, panicked, completedPool,
    failedPool, buf, pos, count, accepted, answered, pushed>>
transcribingVars == <<part, vars, jobsVars, poolVars>>

\* The pass begins with the first and the last call: the second arrives meanwhile, behind
\* the cursor or ahead of it.  The jobs find their call there, or transcribed meanwhile.
\* A part that is not followed starts in one state only.
TranscribingInit ==
  /\ part \in Parts
  /\ Init /\ J!Init /\ P!Init
  /\ untranscribed = IF part = "pass" THEN {1, 3} ELSE {}
  /\ untranscribedJobs = IF part = "jobs" THEN {1} ELSE {}

TranscribingNext ==
  \/ part = "pass" /\ Next /\ UNCHANGED <<part, jobsVars, poolVars>>
  \/ part = "jobs" /\ J!Next /\ UNCHANGED <<part, vars, poolVars>>
  \/ part = "pool" /\ P!Next /\ UNCHANGED <<part, vars, jobsVars>>

\* The fairness of the part that is followed: goroutines are scheduled, workers finish
\* their jobs.  Nothing makes a producer send what it holds.
PartFairness ==
  /\ WF_jobsVars(part = "jobs" /\ J!Loop)
  /\ WF_jobsVars(part = "jobs" /\ J!WorkerTakes)
  /\ \A h \in Handlers : WF_jobsVars(part = "jobs" /\ (J!SubmitAppend(h) \/ J!SubmitSignal(h)))
  /\ \A w \in Workers : WF_poolVars(part = "pool" /\ P!Work(w))
  /\ WF_poolVars(part = "pool" /\ (P!CloseJobs \/ P!WaitForWorkers))

TranscribingSpec == TranscribingInit /\ [][TranscribingNext]_transcribingVars /\ PartFairness

-----------------------------------------------------------------------------
\* The loop never sleeps over a queued job (backfill.go:147-155, 221-233).
WakeupsKept == J!TypeOK /\ J!NoLostWakeup

\* Jobs start in the order of their submission, none after its Cancel (backfill.go:189-243).
JobsStartInOrder == J!StartsInOrder

\* Every submitted job ends (backfill.go:281-286, issue #59).
SubmittedJobsEnd == J!JobsEnd

\* Counters and jobs add up (worker.go:299-314).
PoolCountersAddUp == P!TypeOK /\ P!CountersAddUp

\* A snapshot of the ring is the latest completions (worker.go:66-97).
PoolRingIsLatest == P!RingIsLatest

\* The pool does what JobService says (worker.go:244-254).
PoolIsJobService == P!ServiceSpec

\* Stop returns (worker.go:244-254).
PoolStopReturns == P!StopReturns
=============================================================================
