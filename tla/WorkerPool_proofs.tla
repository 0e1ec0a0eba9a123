------------------------- MODULE WorkerPool_proofs --------------------------
(***************************************************************************)
(* Proofs about WorkerPool, for any producers, any workers (at least one), *)
(* any capacity of the queue and of the ring and any number of jobs.       *)
(*                                                                         *)
(* That Stop loses no job needs to know where every accepted job is, that  *)
(* no two goroutines have the same one, and that a worker leaves only an   *)
(* empty and closed channel.  IInv names these parts.                      *)
(***************************************************************************)
EXTENDS WorkerPool, FiniteSetTheorems, SequenceTheorems, TLAPS

\* The flags agree with where Stop is; a worker leaves a closed, empty channel.
StageInv ==
  /\ stopper = "running" <=> ~stopped
  /\ closed <=> stopper \in {"wait", "returned"}
  /\ \A w \in Workers : worker[w].job = 0 <=> worker[w].pc \in {"idle", "done"}
  /\ \A w \in Workers : worker[w].pc = "done" => closed /\ jobs = <<>>
  /\ stopper = "returned" => \A w \in Workers : worker[w].pc = "done"

\* The job a producer is about to send is new, and nobody else's.
TicketInv ==
  /\ \A j \in accepted : j <= calls
  /\ \A p \in Producers : producer[p] <= calls /\ producer[p] \notin accepted
  /\ \A p, q \in Producers : producer[p] = producer[q] /\ p # q => producer[p] = 0

\* Every accepted job is in one place: answered, in the channel, or a worker's.
Waiting(j) == j \in accepted /\ j \notin answered

PlaceInv ==
  /\ answered \subseteq accepted
  /\ \A j \in accepted :
       \/ j \in answered
       \/ \E i \in DOMAIN jobs : jobs[i] = j
       \/ \E w \in Workers : worker[w].job = j
  /\ \A i \in DOMAIN jobs : Waiting(jobs[i])
  /\ \A w \in Workers : worker[w].job # 0 => Waiting(worker[w].job)
  /\ \A i, k \in DOMAIN jobs : jobs[i] = jobs[k] => i = k
  /\ \A i \in DOMAIN jobs, w \in Workers : jobs[i] # worker[w].job
  /\ \A v, w \in Workers : worker[v].job = worker[w].job /\ v # w => worker[v].job = 0

CountInv == completed + failed = Cardinality(answered)

\* Where the record of each of the latest completions is, without the modulus.
RingInv ==
  /\ count <= Len(pushed)
  /\ count < RingSize =>
       /\ pos = count /\ Len(pushed) = count
       /\ \A i \in 1..count : buf[i - 1] = pushed[i]
  /\ count = RingSize =>
       \A k \in 0..(RingSize - 1) :
         buf[k] = pushed[Len(pushed) - RingSize + 1 + (IF k >= pos THEN k - pos ELSE k - pos + RingSize)]

IInv == TypeOK /\ StageInv /\ TicketInv /\ PlaceInv /\ CountInv /\ RingInv

-----------------------------------------------------------------------------
\* A set of jobs is finite.
LEMMA JobsFinite ==
  ASSUME NEW S \in SUBSET Jobs
  PROVE  IsFiniteSet(S) /\ Cardinality(S) \in Nat
<1>1. IsFiniteSet(Jobs)
  BY PoolAssumption, 1 \in Int, MaxEnqueues \in Int, FS_Interval DEF Jobs
<1>2. IsFiniteSet(S)
  BY <1>1, FS_Subset
<1> QED
  BY <1>2, FS_CardinalityType

-----------------------------------------------------------------------------
(* IInv holds initially and every step preserves it, part by part.         *)

LEMMA InitInv == Init => IInv
<1> SUFFICES ASSUME Init PROVE IInv
  OBVIOUS
<1>1. TypeOK
  <2>1. buf \in [0..(RingSize - 1) -> {0} \cup Jobs] /\ pos \in 0..(RingSize - 1) /\ count \in 0..RingSize
    BY PoolAssumption DEF Init
  <2>2. jobs \in Seq(Jobs) /\ Len(jobs) <= Capacity /\ pushed \in Seq(Jobs)
    BY EmptySeq, PoolAssumption DEF Init
  <2>3. worker \in [Workers -> [pc : {"idle", "transcribe", "stored", "failed", "counted", "done"},
                                job : {0} \cup Jobs]]
    BY DEF Init, Idle
  <2> QED
    BY SMTT(30), <2>1, <2>2, <2>3, PoolAssumption DEF Init, TypeOK
<1>2. CountInv
  BY FS_EmptySet DEF Init, CountInv
<1>3. StageInv /\ TicketInv /\ PlaceInv
  BY <1>1 DEF Init, StageInv, TicketInv, PlaceInv, Waiting, Idle, TypeOK
<1>4. RingInv
  BY EmptySeq, PoolAssumption DEF Init, RingInv
<1> QED
  BY <1>1, <1>2, <1>3, <1>4 DEF IInv

LEMMA TypeStep == IInv /\ [Next]_vars => TypeOK'
<1> SUFFICES ASSUME IInv, [Next]_vars PROVE TypeOK'
  OBVIOUS
<1>0. TypeOK /\ StageInv
  BY DEF IInv
<1> USE PoolAssumption DEF TypeOK, chanVars, countVars, ringVars
<1>1. ASSUME NEW p \in Producers, Enqueue(p) PROVE TypeOK'
  <2>1. CASE EnqueueCheck(p)
    BY <1>0, <2>1 DEF EnqueueCheck, Jobs
  <2>2. CASE EnqueueSend(p)
    <3>1. producer[p] \in Jobs
      BY <1>0, <2>2 DEF EnqueueSend
    <3>2. Append(jobs, producer[p]) \in Seq(Jobs) /\ Len(Append(jobs, producer[p])) = Len(jobs) + 1
      BY <1>0, <3>1, AppendProperties
    <3>3. jobs' \in Seq(Jobs) /\ Len(jobs') <= Capacity
      <4>1. jobs' = jobs \/ (jobs' = Append(jobs, producer[p]) /\ Len(jobs) < Capacity)
        BY <2>2 DEF EnqueueSend
      <4>2. Len(jobs) \in Nat
        BY <1>0, LenProperties
      <4>3. CASE jobs' = jobs
        BY <1>0, <4>3
      <4>4. CASE jobs' = Append(jobs, producer[p]) /\ Len(jobs) < Capacity
        BY <3>2, <4>2, <4>4
      <4> QED
        BY <4>1, <4>3, <4>4
    <3> QED
      BY <1>0, <2>2, <3>1, <3>3 DEF EnqueueSend
  <2> QED
    BY <1>1, <2>1, <2>2 DEF Enqueue
<1>2. ASSUME NEW w \in Workers, Work(w) PROVE TypeOK'
  <2>1. CASE TakeJob(w)
    <3>1. Head(jobs) \in Jobs /\ jobs' \in Seq(Jobs) /\ Len(jobs') <= Capacity
      BY <1>0, <2>1, HeadTailProperties, LenProperties DEF TakeJob
    <3> QED
      BY <1>0, <2>1, <3>1 DEF TakeJob
  <2>2. CASE Transcribe(w)
    <3>1. PICK to \in {"failed", "counted", "stored"} : worker' = [worker EXCEPT ![w].pc = to]
      BY <2>2 DEF Transcribe, Step
    <3>2. worker' \in [Workers -> [pc : {"idle", "transcribe", "stored", "failed", "counted", "done"},
                                   job : {0} \cup Jobs]]
      <4>1. worker \in [Workers -> [pc : {"idle", "transcribe", "stored", "failed", "counted", "done"},
                                    job : {0} \cup Jobs]]
        BY <1>0
      <4>2. [worker[w] EXCEPT !.pc = to]
              \in [pc : {"idle", "transcribe", "stored", "failed", "counted", "done"},
                  job : {0} \cup Jobs]
        BY <4>1
      <4> QED
        BY ONLY <3>1, <4>1, <4>2
    <3>3. UNCHANGED <<calls, chanVars, producer, stopper, panicked, countVars, ringVars, accepted>>
      BY <2>2 DEF Transcribe
    <3> QED
      BY <1>0, <3>2, <3>3
  <2>3. CASE PushRecord(w)
    <3>1. worker[w].job \in Jobs
      BY <1>0, <2>3 DEF PushRecord, Step, StageInv
    <3>2. pushed' \in Seq(Jobs)
      BY <1>0, <2>3, <3>1, AppendProperties DEF PushRecord
    <3>3. pos' \in 0..(RingSize - 1)
      BY <1>0, <2>3, SMT DEF PushRecord
    <3>4. buf' \in [0..(RingSize - 1) -> {0} \cup Jobs] /\ count' \in 0..RingSize
      BY <1>0, <2>3, <3>1 DEF PushRecord
    <3>5. worker' \in [Workers -> [pc : {"idle", "transcribe", "stored", "failed", "counted", "done"},
                                   job : {0} \cup Jobs]]
      BY <1>0, <2>3 DEF PushRecord, Step
    <3> QED
      BY <1>0, <2>3, <3>2, <3>3, <3>4, <3>5 DEF PushRecord
  <2>4. CASE Count(w)
    BY <1>0, <2>4 DEF Count, Idle, StageInv
  <2>5. CASE WorkerExit(w)
    BY <1>0, <2>5 DEF WorkerExit
  <2> QED
    BY <1>2, <2>1, <2>2, <2>3, <2>4, <2>5 DEF Work
<1>3. CASE Stop
  BY <1>0, <1>3 DEF Stop, SetStopped, CloseJobs, WaitForWorkers
<1>4. CASE UNCHANGED vars
  BY <1>0, <1>4 DEF vars
<1> QED
  BY <1>1, <1>2, <1>3, <1>4 DEF Next

LEMMA StageStep == IInv /\ [Next]_vars => StageInv'
<1> SUFFICES ASSUME IInv, [Next]_vars PROVE StageInv'
  OBVIOUS
<1>0. TypeOK /\ StageInv
  BY DEF IInv
<1> USE DEF StageInv, chanVars, countVars, ringVars
<1>1. ASSUME NEW p \in Producers, Enqueue(p) PROVE StageInv'
  <2>1. ~closed \/ (jobs' = jobs)
    BY <1>1 DEF Enqueue, EnqueueCheck, EnqueueSend
  <2>2. UNCHANGED <<stopper, stopped, closed, worker>>
    BY <1>1 DEF Enqueue, EnqueueCheck, EnqueueSend
  <2> QED
    BY <1>0, <2>1, <2>2
<1>2. ASSUME NEW w \in Workers, Work(w) PROVE StageInv'
  <2>1. UNCHANGED <<stopper, stopped, closed>>
    BY <1>2 DEF Work, TakeJob, Transcribe, PushRecord, Count, WorkerExit, Step
  <2>2. worker[w].pc # "done" /\ stopper # "returned"
    BY <1>0, <1>2 DEF Work, TakeJob, Transcribe, PushRecord, Count, WorkerExit, Step, Idle
  <2>3. CASE TakeJob(w)
    <3>1. Head(jobs) # 0
      <4>1. Head(jobs) \in Jobs
        BY <1>0, <2>3, HeadTailProperties DEF TakeJob, TypeOK
      <4> QED
        BY <4>1 DEF Jobs
    <3>2. \A v \in Workers : worker[v].pc # "done"
      BY <1>0, <2>3 DEF TakeJob
    <3> QED
      BY <1>0, <2>1, <2>2, <2>3, <3>1, <3>2 DEF TakeJob, TypeOK
  <2>4. CASE Transcribe(w) \/ PushRecord(w)
    <3>1. /\ jobs' = jobs /\ worker[w].pc \in {"transcribe", "stored"}
          /\ \E to \in {"failed", "counted", "stored"} : worker' = [worker EXCEPT ![w].pc = to]
      BY <2>4 DEF Transcribe, PushRecord, Step
    <3> QED
      BY <1>0, <2>1, <2>2, <3>1 DEF TypeOK
  <2>5. CASE Count(w)
    BY <1>0, <2>1, <2>2, <2>5 DEF Count, Idle, TypeOK
  <2>6. CASE WorkerExit(w)
    BY <1>0, <2>1, <2>2, <2>6 DEF WorkerExit, Idle, TypeOK
  <2> QED
    BY <1>2, <2>3, <2>4, <2>5, <2>6 DEF Work
<1>3. CASE Stop
  BY <1>0, <1>3 DEF Stop, SetStopped, CloseJobs, WaitForWorkers
<1>4. CASE UNCHANGED vars
  BY <1>0, <1>4 DEF vars
<1> QED
  BY <1>1, <1>2, <1>3, <1>4 DEF Next

LEMMA TicketStep == IInv /\ [Next]_vars => TicketInv'
<1> SUFFICES ASSUME IInv, [Next]_vars PROVE TicketInv'
  OBVIOUS
<1>0. TypeOK /\ TicketInv
  BY DEF IInv
<1> USE DEF TicketInv, TypeOK
<1>1. ASSUME NEW p \in Producers, EnqueueCheck(p) PROVE TicketInv'
  <2>1. calls \in Nat /\ calls' = calls + 1 /\ accepted' = accepted
    BY <1>0, <1>1 DEF EnqueueCheck
  <2>2. \A q \in Producers : producer'[q] = producer[q] \/ (q = p /\ producer'[q] = calls + 1)
        \/ producer'[q] = 0
    BY <1>0, <1>1 DEF EnqueueCheck
  <2>3. 0 \notin accepted /\ accepted \subseteq Nat /\ \A q \in Producers : producer[q] \in Nat
    BY <1>0 DEF Jobs
  <2> QED
    BY SMTT(30), <1>0, <2>1, <2>2, <2>3
<1>2. ASSUME NEW p \in Producers, EnqueueSend(p) PROVE TicketInv'
  <2>1. accepted' \in {accepted, accepted \cup {producer[p]}} /\ calls' = calls
    BY <1>2 DEF EnqueueSend
  <2>2. /\ producer[p] # 0 /\ producer'[p] = 0
        /\ \A q \in Producers : q # p => producer'[q] = producer[q]
    BY <1>0, <1>2 DEF EnqueueSend
  <2>3. 0 \notin accepted
    BY <1>0 DEF Jobs
  <2> QED
    BY <1>0, <2>1, <2>2, <2>3
<1>3. CASE (\E w \in Workers : Work(w)) \/ Stop \/ UNCHANGED vars
  <2>1. UNCHANGED <<calls, producer, accepted>>
    BY <1>3 DEF Work, TakeJob, Transcribe, PushRecord, Count, WorkerExit,
       Stop, SetStopped, CloseJobs, WaitForWorkers, vars
  <2> QED
    BY <1>0, <2>1
<1> QED
  BY <1>1, <1>2, <1>3 DEF Next, Enqueue

LEMMA PlaceStep == IInv /\ [Next]_vars => PlaceInv'
<1> SUFFICES ASSUME IInv, [Next]_vars PROVE PlaceInv'
  OBVIOUS
<1>0. TypeOK /\ StageInv /\ TicketInv /\ PlaceInv
  BY DEF IInv
<1>1. Len(jobs) \in Nat /\ DOMAIN jobs = 1..Len(jobs) /\ \A i \in DOMAIN jobs : jobs[i] \in Jobs
  BY <1>0, LenProperties, ElementOfSeq DEF TypeOK
\* A step that moves no job.
<1>2. ASSUME UNCHANGED <<jobs, accepted, answered>>, \A w \in Workers : worker'[w].job = worker[w].job
      PROVE  PlaceInv'
  BY <1>0, <1>2 DEF PlaceInv, Waiting
<1>3. ASSUME NEW p \in Producers, EnqueueSend(p), jobs' # jobs PROVE PlaceInv'
  <2> DEFINE j == producer[p]
  <2>1. /\ jobs' = Append(jobs, j) /\ accepted' = accepted \cup {j}
        /\ UNCHANGED <<answered, worker>>
    BY <1>3 DEF EnqueueSend, countVars
  <2>2. j \in Jobs /\ j # 0 /\ j \notin accepted
    BY <1>0, <1>3 DEF EnqueueSend, TypeOK, TicketInv, Jobs
  <2>3. /\ DOMAIN jobs' = 1..(Len(jobs) + 1) /\ jobs'[Len(jobs) + 1] = j
        /\ \A i \in DOMAIN jobs : jobs'[i] = jobs[i]
    <3>1. jobs \in Seq(Jobs)
      BY <1>0 DEF TypeOK
    <3> HIDE DEF j
    <3>2. Append(jobs, j) \in Seq(Jobs)
      BY <2>2, <3>1, AppendProperties
    <3>3. DOMAIN Append(jobs, j) = 1..(Len(jobs) + 1)
      BY <2>2, <3>1, <3>2, AppendProperties, LenProperties
    <3> QED
      BY <1>1, <2>1, <2>2, <3>1, <3>3, AppendProperties
  <2> HIDE DEF j
  <2>4. \A i \in DOMAIN jobs' : i = Len(jobs) + 1 \/ i \in DOMAIN jobs
    BY <1>1, <2>3
  <2>5. Len(jobs) + 1 \notin DOMAIN jobs /\ DOMAIN jobs \subseteq DOMAIN jobs'
    BY <1>1, <2>3
  <2>6. Len(jobs) + 1 \in DOMAIN jobs'
    BY <1>1, <2>3
  <2>7. \A i \in DOMAIN jobs : jobs[i] # j
    BY <1>0, <2>2 DEF PlaceInv, Waiting
  <2>8. \A w \in Workers : worker[w].job # j
    BY <1>0, <2>2 DEF PlaceInv, Waiting
  <2>9. answered \subseteq accepted /\ j \notin answered
    BY <1>0, <2>2 DEF PlaceInv
  <2>10. \A k \in accepted' :
           \/ k \in answered'
           \/ \E i \in DOMAIN jobs' : jobs'[i] = k
           \/ \E w \in Workers : worker'[w].job = k
    BY <1>0, <2>1, <2>3, <2>5, <2>6 DEF PlaceInv
  <2>11. \A i \in DOMAIN jobs' : jobs'[i] \in accepted' /\ jobs'[i] \notin answered'
    BY <1>0, <2>1, <2>3, <2>4, <2>9 DEF PlaceInv, Waiting
  <2>12. \A i, k \in DOMAIN jobs' : jobs'[i] = jobs'[k] => i = k
    BY <1>0, <2>3, <2>4, <2>7 DEF PlaceInv
  <2>13. \A i \in DOMAIN jobs', w \in Workers : jobs'[i] # worker'[w].job
    BY <1>0, <2>1, <2>3, <2>4, <2>8 DEF PlaceInv
  <2> QED
    BY <1>0, <2>1, <2>9, <2>10, <2>11, <2>12, <2>13 DEF PlaceInv, Waiting
<1>4. ASSUME NEW w \in Workers, TakeJob(w) PROVE PlaceInv'
  <2> DEFINE j == Head(jobs)
  <2>1. jobs # <<>> /\ jobs' = Tail(jobs) /\ UNCHANGED <<accepted, answered>>
    BY <1>4 DEF TakeJob, countVars
  <2>2. /\ worker'[w].job = j /\ worker[w].job = 0
        /\ \A v \in Workers : v # w => worker'[v] = worker[v]
    BY <1>0, <1>4 DEF TakeJob, Idle, TypeOK
  <2>3. /\ 1 \in DOMAIN jobs /\ j = jobs[1] /\ DOMAIN jobs' = 1..(Len(jobs) - 1)
        /\ \A i \in DOMAIN jobs' : i + 1 \in DOMAIN jobs /\ jobs'[i] = jobs[i + 1]
        /\ \A i \in DOMAIN jobs : i # 1 => i - 1 \in DOMAIN jobs'
    <3>1. jobs \in Seq(Jobs)
      BY <1>0 DEF TypeOK
    <3>2. jobs' \in Seq(Jobs) /\ Len(jobs') = Len(jobs) - 1 /\ \A i \in 1..Len(jobs') : jobs'[i] = jobs[i + 1]
      BY <2>1, <3>1, HeadTailProperties
    <3>3. DOMAIN jobs' = 1..(Len(jobs) - 1)
      BY <3>2, LenProperties
    <3>4. Len(jobs) # 0
      BY <2>1, <3>1, EmptySeq
    <3> QED
      BY <1>1, <2>1, <3>1, <3>2, <3>3, <3>4
  <2> HIDE DEF j
  <2>4. \A i \in DOMAIN jobs : i \in Nat
    BY <1>1
  <2>5. DOMAIN jobs' \subseteq DOMAIN jobs
    BY <1>1, <2>3
  <2>6. j # 0 /\ Waiting(j)
    BY <1>0, <1>1, <2>3 DEF PlaceInv, Jobs
  <2>7. \A i \in DOMAIN jobs' : jobs'[i] # j
    <3>1. \A i \in DOMAIN jobs' : i + 1 # 1
      BY <1>1, <2>3
    <3> QED
      BY <1>0, <2>3, <3>1 DEF PlaceInv
  <2>8. \A k \in accepted' :
           \/ k \in answered'
           \/ \E i \in DOMAIN jobs' : jobs'[i] = k
           \/ \E v \in Workers : worker'[v].job = k
    <3> SUFFICES ASSUME NEW k \in accepted, k \notin answered
                 PROVE  \/ \E i \in DOMAIN jobs' : jobs'[i] = k
                        \/ \E v \in Workers : worker'[v].job = k
      BY <2>1
    <3>1. CASE \E v \in Workers : worker[v].job = k
      <4>1. k # 0
        BY <1>0 DEF TypeOK, Jobs
      <4> QED
        BY <2>2, <3>1, <4>1
    <3>2. ASSUME NEW i \in DOMAIN jobs, jobs[i] = k
          PROVE  (\E m \in DOMAIN jobs' : jobs'[m] = k) \/ k = j
      <4>1. CASE i = 1
        BY <2>3, <3>2, <4>1
      <4>2. CASE i # 1
        BY <2>3, <2>4, <3>2, <4>2
      <4> QED
        BY <4>1, <4>2
    <3> QED
      BY <1>0, <2>2, <3>1, <3>2 DEF PlaceInv
  <2>9. \A i \in DOMAIN jobs' : jobs'[i] \in accepted' /\ jobs'[i] \notin answered'
    BY <1>0, <2>1, <2>3 DEF PlaceInv, Waiting
  <2>10. \A v \in Workers : worker'[v].job # 0 => worker'[v].job \in accepted' /\ worker'[v].job \notin answered'
    BY <1>0, <2>1, <2>2, <2>6 DEF PlaceInv, Waiting
  <2>11. \A i, k \in DOMAIN jobs' : jobs'[i] = jobs'[k] => i = k
    <3> SUFFICES ASSUME NEW i \in DOMAIN jobs', NEW k \in DOMAIN jobs', jobs'[i] = jobs'[k]
                 PROVE  i = k
      OBVIOUS
    <3>1. i + 1 = k + 1
      BY <1>0, <2>3 DEF PlaceInv
    <3>2. i \in Int /\ k \in Int
      BY <1>1, <2>3
    <3> QED
      BY <3>1, <3>2
  <2>12. \A i \in DOMAIN jobs', v \in Workers : jobs'[i] # worker'[v].job
    BY <1>0, <2>2, <2>3, <2>7 DEF PlaceInv
  <2>13. \A u, v \in Workers : worker'[u].job = worker'[v].job /\ u # v => worker'[u].job = 0
    BY <1>0, <2>2, <2>3 DEF PlaceInv
  <2> QED
    BY <1>0, <2>1, <2>8, <2>9, <2>10, <2>11, <2>12, <2>13 DEF PlaceInv, Waiting
<1>5. ASSUME NEW w \in Workers, Count(w) PROVE PlaceInv'
  <2>1. worker[w].job # 0
    BY <1>0, <1>5 DEF Count, StageInv
  <2>2. /\ worker'[w].job = 0 /\ \A v \in Workers : v # w => worker'[v] = worker[v]
        /\ answered' = answered \cup {worker[w].job} /\ UNCHANGED <<jobs, accepted>>
    BY <1>0, <1>5 DEF Count, Idle, TypeOK, chanVars
  <2>3. \A k \in accepted : k # 0
    BY <1>0 DEF TypeOK, Jobs
  <2> QED
    BY <1>0, <1>1, <2>1, <2>2, <2>3 DEF PlaceInv, Waiting, Jobs
<1>6. ASSUME NEW p \in Producers, EnqueueCheck(p) \/ (EnqueueSend(p) /\ jobs' = jobs) PROVE PlaceInv'
  <2>1. accepted' = accepted
    BY <1>0, <1>1, <1>6, AppendProperties DEF EnqueueCheck, EnqueueSend, TypeOK
  <2> QED
    BY <1>2, <1>6, <2>1 DEF EnqueueCheck, EnqueueSend, chanVars, countVars
<1>7. ASSUME NEW w \in Workers, Transcribe(w) \/ PushRecord(w) \/ WorkerExit(w) PROVE PlaceInv'
  <2>1. \A v \in Workers : worker'[v].job = worker[v].job
    <3>1. \E to \in {"failed", "counted", "stored", "done"} : worker' = [worker EXCEPT ![w].pc = to]
      BY <1>7 DEF Transcribe, PushRecord, WorkerExit, Step
    <3> QED
      BY <1>0, <3>1 DEF TypeOK
  <2> QED
    BY <1>2, <1>7, <2>1 DEF Transcribe, PushRecord, WorkerExit, chanVars, countVars
<1>8. CASE Stop \/ UNCHANGED vars
  BY <1>2, <1>8 DEF Stop, SetStopped, CloseJobs, WaitForWorkers, vars, chanVars, countVars
<1> QED
  BY <1>3, <1>4, <1>5, <1>6, <1>7, <1>8 DEF Next, Enqueue, Work

LEMMA CountStep == IInv /\ [Next]_vars => CountInv'
<1> SUFFICES ASSUME IInv, [Next]_vars PROVE CountInv'
  OBVIOUS
<1>0. TypeOK /\ StageInv /\ PlaceInv /\ CountInv
  BY DEF IInv
<1>1. ASSUME NEW w \in Workers, Count(w) PROVE CountInv'
  <2>1. worker[w].job \notin answered /\ answered' = answered \cup {worker[w].job}
    BY <1>0, <1>1 DEF Count, StageInv, PlaceInv, Waiting
  <2>2. Cardinality(answered') = Cardinality(answered) + 1
    BY <1>0, <2>1, JobsFinite, FS_AddElement DEF TypeOK
  <2>3. completed' + failed' = completed + failed + 1
    BY <1>0, <1>1 DEF Count, TypeOK
  <2> QED
    BY <1>0, <2>2, <2>3 DEF CountInv
<1>2. CASE \/ \E p \in Producers : Enqueue(p)
           \/ \E w \in Workers : TakeJob(w) \/ Transcribe(w) \/ PushRecord(w) \/ WorkerExit(w)
           \/ Stop
           \/ UNCHANGED vars
  BY <1>0, <1>2 DEF CountInv, Enqueue, EnqueueCheck, EnqueueSend, TakeJob, Transcribe, PushRecord,
     WorkerExit, Stop, SetStopped, CloseJobs, WaitForWorkers, vars, countVars
<1> QED
  BY <1>1, <1>2 DEF Next, Work

LEMMA RingStep == IInv /\ [Next]_vars => RingInv'
<1> SUFFICES ASSUME IInv, [Next]_vars PROVE RingInv'
  OBVIOUS
<1>0. TypeOK /\ StageInv /\ RingInv
  BY DEF IInv
<1>1. ASSUME NEW w \in Workers, PushRecord(w) PROVE RingInv'
  <2> DEFINE j == worker[w].job
             L == Len(pushed)
             At(k, p, n) == n - RingSize + 1 + (IF k >= p THEN k - p ELSE k - p + RingSize)
  <2>1. /\ buf' = [buf EXCEPT ![pos] = j] /\ pos' = (pos + 1) % RingSize
        /\ count' = IF count < RingSize THEN count + 1 ELSE count
        /\ pushed' = Append(pushed, j)
    BY <1>1 DEF PushRecord
  <2>2. /\ pos \in 0..(RingSize - 1) /\ count \in 0..RingSize /\ RingSize \in Nat \ {0}
        /\ L \in Nat /\ count <= L
    BY <1>0, PoolAssumption, LenProperties DEF TypeOK, RingInv
  <2>3. pos' = IF pos + 1 < RingSize THEN pos + 1 ELSE 0
    <3>1. CASE pos + 1 < RingSize
      BY <2>1, <2>2, <3>1, SMTT(30)
    <3>2. CASE pos + 1 = RingSize
      BY <2>1, <2>2, <3>2, SMTT(30)
    <3> QED
      BY <2>2, <3>1, <3>2
  <2>4. Len(pushed') = L + 1 /\ pushed'[L + 1] = j /\ \A i \in 1..L : pushed'[i] = pushed[i]
    BY <1>0, <1>1, <2>1, AppendProperties DEF TypeOK, StageInv, PushRecord, Step
  <2>5. buf'[pos] = j /\ \A k \in 0..(RingSize - 1) : k # pos => buf'[k] = buf[k]
    BY <1>0, <2>1, <2>2 DEF TypeOK
  <2> HIDE DEF j, L
  <2>6. CASE count < RingSize
    <3>1. pos = count /\ L = count /\ count' = count + 1 /\ \A i \in 1..count : buf[i - 1] = pushed[i]
      BY <1>0, <2>1, <2>6 DEF RingInv, L
    <3>2. \A i \in 1..(count + 1) : buf'[i - 1] = pushed'[i]
      <4> SUFFICES ASSUME NEW i \in 1..(count + 1) PROVE buf'[i - 1] = pushed'[i]
        OBVIOUS
      <4>1. CASE i = count + 1
        BY <2>2, <2>4, <2>5, <3>1, <4>1
      <4>2. CASE i \in 1..count
        <5>1. i - 1 \in 0..(RingSize - 1) /\ i - 1 # pos
          BY <2>2, <2>6, <3>1, <4>2
        <5> QED
          BY <2>4, <2>5, <3>1, <4>2, <5>1
      <4> QED
        BY <2>2, <4>1, <4>2
    <3>3. CASE count + 1 < RingSize
      BY <2>2, <2>3, <2>4, <3>1, <3>2, <3>3 DEF RingInv
    <3>4. CASE count + 1 = RingSize
      <4>1. pos' = 0 /\ Len(pushed') = RingSize
        BY <2>2, <2>3, <2>4, <3>1, <3>4
      <4>2. \A k \in 0..(RingSize - 1) : At(k, 0, RingSize) = k + 1
        BY <2>2
      <4>3. \A k \in 0..(RingSize - 1) : buf'[k] = pushed'[k + 1]
        <5> TAKE k \in 0..(RingSize - 1)
        <5>1. k + 1 \in 1..(count + 1) /\ (k + 1) - 1 = k
          BY <2>2, <3>4
        <5> QED
          BY <3>2, <5>1
      <4>4. \A k \in 0..(RingSize - 1) : buf'[k] = pushed'[At(k, pos', Len(pushed'))]
        BY <4>1, <4>2, <4>3
      <4> QED
        BY <2>2, <3>1, <3>4, <4>1, <4>4 DEF RingInv
    <3> QED
      BY <2>2, <2>6, <3>3, <3>4
  <2>7. CASE count = RingSize
    <3>1. count' = RingSize /\ \A k \in 0..(RingSize - 1) : buf[k] = pushed[At(k, pos, L)]
      BY <1>0, <2>1, <2>2, <2>7 DEF RingInv, L
    <3>2. \A k \in 0..(RingSize - 1) : buf'[k] = pushed'[At(k, pos', L + 1)]
      <4> SUFFICES ASSUME NEW k \in 0..(RingSize - 1) PROVE buf'[k] = pushed'[At(k, pos', L + 1)]
        OBVIOUS
      <4>1. CASE k = pos
        <5>1. At(k, pos', L + 1) = L + 1
          BY <2>2, <2>3, <4>1
        <5> QED
          BY <2>4, <2>5, <4>1, <5>1
      <4>2. CASE k # pos
        <5>1. At(k, pos', L + 1) = At(k, pos, L)
          BY <2>2, <2>3, <4>2
        <5>2. At(k, pos, L) \in 1..L
          BY <2>2, <2>7, <4>2
        <5> HIDE DEF At
        <5> QED
          BY <2>4, <2>5, <3>1, <4>2, <5>1, <5>2
      <4> QED
        BY <4>1, <4>2
    <3> QED
      BY <2>2, <2>4, <2>7, <3>1, <3>2 DEF RingInv
  <2> QED
    BY <2>2, <2>6, <2>7
<1>2. CASE \/ \E p \in Producers : Enqueue(p)
           \/ \E w \in Workers : TakeJob(w) \/ Transcribe(w) \/ Count(w) \/ WorkerExit(w)
           \/ Stop
           \/ UNCHANGED vars
  BY <1>0, <1>2 DEF RingInv, Enqueue, EnqueueCheck, EnqueueSend, TakeJob, Transcribe, Count,
     WorkerExit, Stop, SetStopped, CloseJobs, WaitForWorkers, vars, ringVars
<1> QED
  BY <1>1, <1>2 DEF Next, Work

LEMMA Invariance == Spec => []IInv
<1>1. IInv /\ [Next]_vars => IInv'
  BY TypeStep, StageStep, TicketStep, PlaceStep, CountStep, RingStep DEF IInv
<1> QED
  BY InitInv, <1>1, PTL DEF Spec

-----------------------------------------------------------------------------
(* What IInv says of the properties of WorkerPool.                         *)

\* The latest count completions are what snapshot copies out.
LEMMA RingInvSuffices == IInv => RingIsLatest
<1> SUFFICES ASSUME IInv PROVE RingIsLatest
  OBVIOUS
<1> DEFINE L == Len(pushed)
           T == SubSeq(pushed, L - count + 1, L)
<1>0. /\ pos \in 0..(RingSize - 1) /\ count \in 0..RingSize /\ RingSize \in Nat \ {0}
      /\ L \in Nat /\ count <= L /\ pushed \in Seq(Jobs)
  BY PoolAssumption, LenProperties DEF IInv, TypeOK, RingInv
<1>1. \A i \in (L - count + 1)..L : pushed[i] \in Jobs
  <2> TAKE i \in (L - count + 1)..L
  <2>1. i \in 1..L
    BY <1>0
  <2> QED
    BY <1>0, <2>1, ElementOfSeq
<1>2. /\ T \in Seq(Jobs) /\ Len(T) = count
      /\ \A i \in 1..count : T[i] = pushed[L - count + 1 + i - 1]
  <2>1. L - count + 1 \in Int /\ L \in Int /\ L - (L - count + 1) + 1 = count
    BY <1>0
  <2>2. (IF L - count + 1 <= L THEN L - (L - count + 1) + 1 ELSE 0) = count
    BY <1>0
  <2>3. /\ T \in Seq(Jobs)
        /\ Len(T) = IF L - count + 1 <= L THEN L - (L - count + 1) + 1 ELSE 0
        /\ \A i \in 1..(L - (L - count + 1) + 1) : T[i] = pushed[L - count + 1 + i - 1]
    <3> HIDE DEF L
    <3> QED
      BY <1>1, <2>1, SubSeqProperties
  <2> HIDE DEF T, L
  <2> QED
    BY <2>1, <2>2, <2>3
<1>3. T \in [1..count -> Jobs]
  BY <1>2, LenProperties
<1> HIDE DEF T
<1>4. ASSUME NEW i \in 1..count PROVE Snapshot[i] = T[i]
  <2>1. CASE count < RingSize
    <3>1. Snapshot[i] = pushed[i] /\ L = count
      BY <2>1 DEF Snapshot, IInv, RingInv
    <3>2. L - count + 1 + i - 1 = i
      BY <1>0, <3>1
    <3> QED
      BY <1>2, <3>1, <3>2
  <2>2. CASE count = RingSize
    <3> DEFINE k == IF pos + i - 1 < RingSize THEN pos + i - 1 ELSE pos + i - 1 - RingSize
    <3>1. pos + i - 1 \in 0..(2 * RingSize - 1)
      BY <1>0
    <3>2. Snapshot[i] = buf[(pos + i - 1) % RingSize]
      <4>1. ~(count < RingSize)
        BY <1>0, <2>2
      <4> QED
        BY <4>1 DEF Snapshot
    <3>3. (pos + i - 1) % RingSize = k
      <4>1. CASE pos + i - 1 < RingSize
        BY <1>0, <3>1, <4>1, SMTT(30)
      <4>2. CASE pos + i - 1 >= RingSize
        BY <1>0, <3>1, <4>2, SMTT(30)
      <4> QED
        BY <1>0, <4>1, <4>2
    <3>4. k \in 0..(RingSize - 1) /\ (IF k >= pos THEN k - pos ELSE k - pos + RingSize) = i - 1
      BY <1>0, <2>2
    <3> HIDE DEF k
    <3>5. buf[k] = pushed[L - RingSize + 1 + (i - 1)]
      BY <2>2, <3>4 DEF IInv, RingInv
    <3>6. L - RingSize + 1 + (i - 1) = L - count + 1 + i - 1
      BY <1>0, <2>2
    <3> QED
      BY <1>2, <3>2, <3>3, <3>5, <3>6
  <2> QED
    BY <1>0, <2>1, <2>2
<1>5. Snapshot = [i \in 1..count |-> Snapshot[i]]
  BY DEF Snapshot
<1>6. T = [i \in 1..count |-> T[i]]
  BY <1>3
<1>7. Snapshot = T
  BY <1>4, <1>5, <1>6
<1> QED
  BY <1>7 DEF RingIsLatest, T

\* Phase is "stopped" only when every accepted job was answered.
LEMMA StoppedIsEmpty ==
  ASSUME IInv, \A w \in Workers : worker[w].pc = "done"
  PROVE  accepted = answered
<1>1. \A w \in Workers : worker[w].job = 0
  BY DEF IInv, StageInv
<1>2. jobs = <<>>
  BY WorkersAssumption DEF IInv, StageInv
<1>3. DOMAIN jobs = {}
  BY <1>2, EmptySeq, LenProperties
<1>4. 0 \notin accepted
  BY DEF IInv, TypeOK, Jobs
<1> QED
  BY <1>1, <1>3, <1>4 DEF IInv, PlaceInv

\* The pool starts as the service does.
LEMMA ImplementsInit == Init => Service!Init
BY DEF Init, Service!Init, Phase

\* Each of the pool's steps is one of the service's, or none.
LEMMA ImplementsStep == IInv /\ [Next]_vars => [Service!Next]_Service!vars
<1> SUFFICES ASSUME IInv, [Next]_vars
             PROVE  Service!Next \/ UNCHANGED Service!vars
  OBVIOUS
<1>0. TypeOK /\ StageInv /\ TicketInv /\ PlaceInv
  BY DEF IInv
<1> USE DEF Service!vars, Phase
<1>1. ASSUME NEW p \in Producers, EnqueueCheck(p) PROVE UNCHANGED Service!vars
  BY <1>1 DEF EnqueueCheck, chanVars, countVars
<1>2. ASSUME NEW p \in Producers, EnqueueSend(p) PROVE Service!Next \/ UNCHANGED Service!vars
  <2>1. CASE closed
    <3>1. ~panicked /\ panicked' /\ UNCHANGED <<accepted, answered>>
      BY <1>2, <2>1 DEF EnqueueSend, countVars
    <3>2. Service!Crash
      BY <3>1 DEF Service!Crash
    <3> QED
      BY <3>2 DEF Service!Next
  <2>2. CASE ~closed /\ accepted' # accepted
    <3> DEFINE j == producer[p]
    <3>1. /\ accepted' = accepted \cup {j} /\ ~panicked
          /\ UNCHANGED <<answered, closed, stopper, panicked>>
      BY <1>2, <2>2 DEF EnqueueSend, countVars
    <3>2. j \in Jobs /\ j \notin accepted /\ answered \subseteq accepted
      BY <1>0, <1>2 DEF EnqueueSend, TypeOK, TicketInv, PlaceInv
    <3>3. stopper # "returned"
      BY <1>0, <2>2 DEF StageInv
    <3> HIDE DEF j
    <3>4. Service!Accept(j)
      BY <2>2, <3>1, <3>2, <3>3 DEF Service!Accept
    <3> QED
      BY <3>2, <3>4 DEF Service!Next
  <2>3. CASE ~closed /\ accepted' = accepted
    BY <1>2, <2>3 DEF EnqueueSend, countVars
  <2> QED
    BY <2>1, <2>2, <2>3
<1>3. ASSUME NEW w \in Workers, Count(w) PROVE Service!Next
  <2> DEFINE j == worker[w].job
  <2>1. /\ answered' = answered \cup {j} /\ ~panicked
        /\ UNCHANGED <<accepted, closed, stopper, panicked>>
    BY <1>3 DEF Count, chanVars
  <2>2. worker[w].pc # "done" /\ j # 0
    BY <1>0, <1>3 DEF Count, StageInv
  <2>3. j \in Jobs /\ j \in accepted /\ j \notin answered /\ stopper # "returned"
    BY <1>0, <2>2 DEF TypeOK, StageInv, PlaceInv, Waiting
  <2> HIDE DEF j
  <2>4. Service!Answer(j)
    BY <2>1, <2>3 DEF Service!Answer
  <2> QED
    BY <2>3, <2>4 DEF Service!Next
<1>4. ASSUME NEW w \in Workers, TakeJob(w) \/ Transcribe(w) \/ PushRecord(w) \/ WorkerExit(w)
      PROVE  UNCHANGED Service!vars
  BY <1>4 DEF TakeJob, Transcribe, PushRecord, WorkerExit, Step, chanVars, countVars
<1>5. CASE SetStopped
  BY <1>0, <1>5 DEF SetStopped, StageInv, countVars
<1>6. CASE CloseJobs
  <2>1. ~panicked /\ ~closed /\ closed' /\ stopper # "returned" /\ stopper' = "wait"
        /\ UNCHANGED <<panicked, accepted, answered>>
    BY <1>0, <1>6 DEF CloseJobs, StageInv, countVars
  <2>2. Service!Drain
    BY <2>1 DEF Service!Drain
  <2> QED
    BY <2>2 DEF Service!Next
<1>7. CASE WaitForWorkers
  <2>1. ~panicked /\ closed /\ stopper = "wait" /\ stopper' = "returned"
        /\ UNCHANGED <<panicked, closed, accepted, answered>>
    BY <1>0, <1>7 DEF WaitForWorkers, StageInv, chanVars, countVars
  <2>2. accepted \ answered = {}
    BY <1>7, StoppedIsEmpty DEF WaitForWorkers
  <2>3. Service!Stopped
    BY <2>1, <2>2 DEF Service!Stopped
  <2> QED
    BY <2>3 DEF Service!Next
<1>8. CASE UNCHANGED vars
  BY <1>8 DEF vars, chanVars, countVars
<1> QED
  BY <1>1, <1>2, <1>3, <1>4, <1>5, <1>6, <1>7, <1>8 DEF Next, Enqueue, Work, Stop

-----------------------------------------------------------------------------
(* Theorems                                                                *)

\* Every variable keeps its type; the queue never exceeds its capacity.
THEOREM TypeCorrect == Spec => []TypeOK
BY Invariance, PTL DEF IInv

\* Stats' counters add up to the answered jobs, and no accepted job is lost
\* between the channel, the workers and the counters (worker, Enqueue).
THEOREM CountersAreExact == Spec => []CountersAddUp
<1>1. IInv => CountersAddUp
  <2> SUFFICES ASSUME IInv PROVE CountersAddUp
    OBVIOUS
  <2> DEFINE H == {worker[w].job : w \in {v \in Workers : worker[v].job # 0}}
  <2>1. TypeOK /\ PlaceInv /\ CountInv
    BY DEF IInv
  <2>2. accepted \subseteq answered \cup ToSet(jobs) \cup H
    BY <2>1 DEF PlaceInv, ToSet, TypeOK, Jobs
  <2>3. answered \cup ToSet(jobs) \cup H \subseteq accepted
    BY <2>1 DEF PlaceInv, Waiting, ToSet
  <2> QED
    BY <2>1, <2>2, <2>3 DEF CountersAddUp, PlaceInv, CountInv
<1> QED
  BY Invariance, <1>1, PTL

\* snapshot returns the latest RingSize completions, oldest first, however
\* often the ring has wrapped around (perfRing).
THEOREM RingHoldsTheLatest == Spec => []RingIsLatest
BY Invariance, RingInvSuffices, PTL

\* The pool implements JobService: a job Enqueue accepts is answered once, and
\* Stop returns only when none is left (Enqueue, worker, Stop).
THEOREM ImplementsJobService == Spec => ServiceSpec
<1>1. Spec => Service!Init
  BY ImplementsInit, PTL DEF Spec
<1>2. Spec => [][Service!Next]_Service!vars
  BY Invariance, ImplementsStep, PTL DEF Spec
<1> QED
  BY <1>1, <1>2, PTL DEF ServiceSpec, Service!Spec
=============================================================================
