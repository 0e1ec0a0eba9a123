-------------------------- MODULE Backfill_proofs ---------------------------
(***************************************************************************)
(* Proofs about Backfill, for every set of calls, filters and handlers and *)
(* every bound.                                                            *)
(*                                                                         *)
(* No property of Backfill is inductive alone: that a call is handed out   *)
(* once rests on the cursor bounding what was handed out, which rests on   *)
(* where the loop is; that jobs start in order rests on the queue being    *)
(* sorted and on nothing queued having started.  IInv names these parts.   *)
(***************************************************************************)
EXTENDS Backfill, FiniteSetTheorems, SequenceTheorems, TLAPS

Resting == {"grab", "wait", "exited"}

\* The goroutine's locals and bm.active agree, and are clear between jobs.
LoopInv ==
  /\ active = job
  /\ job = 0 <=> pc \in Resting
  /\ job = 0 => cursor = 0 /\ batch = {} /\ steady = {}
  /\ job # 0 => job <= nextID
  /\ job # 0 /\ pc # "finish" => ending[job] = "none"
  /\ pc = "recount" => tried[job] = {} /\ Done(job) = 0
  /\ pc \in {"recount"} => cursor = 0
  /\ pc \in {"room", "handout", "record"} => cursor # 0

\* A job that has not been started, nor cancelled.
Fresh(j) ==
  /\ j # job /\ j \notin cancelled
  /\ tried[j] = {} /\ Done(j) = 0 /\ ending[j] = "none"

\* The queue is sorted by id, and nothing in it or submitted after it started.
QueueInv ==
  /\ \A i, k \in DOMAIN queue : i < k => queue[i] < queue[k]
  /\ \A i \in DOMAIN queue : queue[i] <= nextID /\ queue[i] \notin cancelled
  /\ \A i \in DOMAIN queue : \A j \in Jobs :
       j >= queue[i] => j # job /\ tried[j] = {} /\ Done(j) = 0 /\ ending[j] = "none"
  /\ \A j \in Jobs : j > nextID => Fresh(j)

\* What the job has handed out is bounded by its cursor.
CursorInv ==
  /\ \A j \in Jobs : IsFiniteSet(tried[j])
  /\ job # 0 => \A c \in tried[job] : c <= cursor
  /\ pc \in {"room", "handout"} => cursor \notin tried[job]

LateInv ==
  /\ late <= 1
  /\ late > 0 => job # 0 /\ Cancelled(job) /\ pc \in {"record", "next", "query", "finish"}

\* Every steady call is behind the cursor and handed out, or ahead of it and
\* on the page or on a later one.
PassInv ==
  /\ job # 0 => steady \subseteq Matching(job)
  /\ StoreOrdered /\ pc \in {"next", "room", "handout", "record"} =>
       /\ \A b \in batch : b > cursor
       /\ \A c \in steady : c > cursor => c \in batch \/ (~lastPage /\ \A b \in batch : b < c)
  /\ StoreOrdered /\ pc \in {"query", "next", "room", "handout", "record"} =>
       \A c \in steady : c <= cursor =>
         c \in tried[job] \/ (c = cursor /\ pc \in {"room", "handout"})

IInv ==
  /\ TypeOK
  /\ LoopInv
  /\ QueueInv
  /\ CursorInv
  /\ CountsDistinctCalls
  /\ ProgressWithinTotal
  /\ NoLostWakeup
  /\ LateInv
  /\ PassInv
  /\ FullPass

-----------------------------------------------------------------------------
(* Facts about the operators Backfill is built from.                       *)

\* Cancel of a queued job leaves the other jobs in their order.
LEMMA RemoveAtFacts ==
  ASSUME NEW S, NEW s \in Seq(S), NEW i \in DOMAIN s
  PROVE  /\ RemoveAt(s, i) \in Seq(S)
         /\ Len(RemoveAt(s, i)) = Len(s) - 1
         /\ \A k \in 1..(Len(s) - 1) :
              RemoveAt(s, i)[k] = IF k < i THEN s[k] ELSE s[k + 1]
<1> DEFINE l == SubSeq(s, 1, i - 1)
           r == SubSeq(s, i + 1, Len(s))
<1>0. i \in 1..Len(s) /\ Len(s) \in Nat
  BY LenProperties
<1>1. l \in Seq(S) /\ Len(l) = i - 1 /\ \A k \in 1..(i - 1) : l[k] = s[k]
  BY <1>0, SubSeqProperties, ElementOfSeq, Z3
<1>2. r \in Seq(S) /\ Len(r) = Len(s) - i /\ \A k \in 1..(Len(s) - i) : r[k] = s[i + k]
  BY <1>0, SubSeqProperties, ElementOfSeq, Z3
<1> HIDE DEF l, r
<1>3. /\ l \o r \in Seq(S)
      /\ Len(l \o r) = Len(s) - 1
      /\ \A k \in 1..(Len(s) - 1) :
           (l \o r)[k] = IF k < i THEN s[k] ELSE s[k + 1]
  BY <1>0, <1>1, <1>2, ConcatProperties, Z3
<1> QED
  BY <1>3 DEF RemoveAt, l, r

\* A page of a subset of the calls is finite.
LEMMA CallsFinite ==
  ASSUME NEW S \in SUBSET Calls
  PROVE  IsFiniteSet(S) /\ Cardinality(S) \in Nat
BY CallsAssumption, FS_Subset, FS_CardinalityType

-----------------------------------------------------------------------------
(* IInv holds initially and every step preserves it, part by part.         *)

LEMMA InitInv == Init => IInv
<1> SUFFICES ASSUME Init PROVE IInv
  OBVIOUS
<1>1. TypeOK
  <2>1. nextID \in 0..MaxJobs /\ pending \in 0..QueueSize /\ liveLeft \in Nat
    BY BoundsAssumption, SizesAssumption DEF Init
  <2> QED
    BY <2>1, EmptySeq DEF Init, TypeOK, Idle
<1>2. CountsDistinctCalls /\ \A j \in Jobs : IsFiniteSet(tried[j])
  BY FS_EmptySet DEF Init, CountsDistinctCalls, Done
<1> QED
  BY <1>1, <1>2 DEF Init, IInv, LoopInv, QueueInv, Fresh, CursorInv, ProgressWithinTotal,
     NoLostWakeup, LateInv, PassInv, FullPass, Resting, Done, Jobs

LEMMA TypeStep == IInv /\ [Next]_vars => TypeOK'
<1> SUFFICES ASSUME IInv, [Next]_vars PROVE TypeOK'
  OBVIOUS
<1>0. TypeOK /\ LoopInv /\ CursorInv /\ active = job
  BY DEF IInv, LoopInv
<1> USE DEF TypeOK
<1>1. ASSUME NEW h \in Handlers, Submit(h) PROVE TypeOK'
  <2>1. ASSUME NEW f \in Filters, SubmitCount(h, f) PROVE TypeOK'
    <3>1. f \cap untranscribed \in SUBSET Calls
      BY <1>0, FiltersAssumption
    <3> QED
      BY <1>0, <2>1, <3>1, CallsFinite, FiltersAssumption
      DEF SubmitCount, mgrVars, recVars, loopVars, envVars, histVars
  <2>2. CASE SubmitAppend(h)
    <3>1. nextID' \in Jobs
      BY SMTT(30), <1>0, <2>2, BoundsAssumption DEF SubmitAppend, Jobs
    <3>2. queue' \in Seq(Jobs)
      BY <1>0, <2>2, <3>1, AppendProperties DEF SubmitAppend
    <3>3. /\ filter' \in [Jobs -> SUBSET Calls]
          /\ total' \in [Jobs -> Nat]
          /\ handler' \in [Handlers -> [pc : {"idle", "append", "signal"},
                                        filter : SUBSET Calls, total : Nat]]
      BY ZenonT(60), <1>0, <2>2, <3>1 DEF SubmitAppend
    <3>4. nextID' \in 0..MaxJobs
      BY <3>1, BoundsAssumption DEF Jobs
    <3> QED
      BY ZenonT(60), <1>0, <2>2, <3>2, <3>3, <3>4
      DEF SubmitAppend, loopVars, envVars, histVars, Jobs
  <2>3. CASE SubmitSignal(h)
    BY <1>0, <2>3 DEF SubmitSignal, Idle, recVars, loopVars, envVars, histVars
  <2> QED
    BY <1>1, <2>1, <2>2, <2>3 DEF Submit
<1>2. CASE CancelAll
  BY <1>0, <1>2, EmptySeq, ElementOfSeq, LenProperties
  DEF CancelAll, Queued, ToSet, recVars, loopVars, envVars, histVars
<1>3. CASE CancelActive
  BY <1>0, <1>3 DEF CancelActive, recVars, loopVars, envVars, histVars
<1>4. ASSUME NEW i \in DOMAIN queue, CancelQueued(i) PROVE TypeOK'
  <2>1. queue' \in Seq(Jobs) /\ queue[i] \in Jobs
    BY <1>0, <1>4, RemoveAtFacts, ElementOfSeq, LenProperties DEF CancelQueued
  <2> QED
    BY SMTT(30), <1>0, <1>4, <2>1 DEF CancelQueued, recVars, loopVars, envVars, histVars
<1>5. CASE NothingQueued
  BY <1>0, <1>5 DEF NothingQueued, mgrVars, recVars, loopVars, envVars, histVars
<1>6. CASE GrabJob
  BY <1>0, <1>6, HeadTailProperties DEF GrabJob, recVars, envVars, histVars
<1>7. CASE WakeUp
  BY <1>0, <1>7 DEF WakeUp, recVars, loopVars, envVars, histVars
<1>8. CASE LoopExit
  BY <1>0, <1>8 DEF LoopExit, mgrVars, recVars, loopVars, envVars, histVars
<1>9. CASE FinishJob
  BY <1>0, <1>9 DEF FinishJob, recVars, envVars
<1>10. CASE Recount
  <2>1. Matching(job) \in SUBSET Calls /\ Cardinality(Matching(job)) \in Nat
    <3>1. Matching(job) \subseteq Calls
      BY <1>0 DEF Matching
    <3> QED
      BY <3>1, CallsFinite
  <2> QED
    BY ZenonT(60), <1>0, <1>10, <2>1 DEF Recount, mgrVars, loopVars, envVars
<1>11. CASE QueryPage
  BY <1>0, <1>11
  DEF QueryPage, Pages, Matching, mgrVars, recVars, envVars, histVars
<1>12. CASE QueryStops
  BY <1>0, <1>12 DEF QueryStops, Return, mgrVars, recVars, envVars
<1>13. CASE EndOfPage
  BY <1>0, <1>13 DEF EndOfPage, Return, mgrVars, recVars, loopVars, envVars, histVars
<1>14. CASE NextCall
  BY <1>0, <1>14 DEF NextCall, NextInPage, Return, mgrVars, recVars, envVars, histVars
<1>15. CASE QueueRoom
  BY <1>0, <1>15 DEF QueueRoom, Return, mgrVars, recVars, loopVars, envVars, histVars
<1>16. CASE EnqueueCall
  <2>1. cursor \in Calls
    BY <1>0, <1>16 DEF EnqueueCall, HandOut, LoopInv
  <2>2. pending' \in 0..QueueSize /\ late' \in Nat
    BY SMTT(30), <1>0, <1>16, SizesAssumption DEF EnqueueCall, HandOut
  <2>3. enqueued' \in BOOLEAN /\ tried' = [tried EXCEPT ![job] = @ \cup {cursor}]
    BY <1>16 DEF EnqueueCall, HandOut
  <2>4. tried' \in [Jobs -> SUBSET Calls]
    BY <1>0, <2>1, <2>3
  <2> QED
    BY <1>0, <1>16, <2>2, <2>3, <2>4 DEF EnqueueCall, HandOut, mgrVars, recVars
<1>17. CASE RecordResult
  <2>1. total' \in [Jobs -> Nat] /\ completed' \in [Jobs -> Nat] /\ failed' \in [Jobs -> Nat]
    BY SMTT(30), <1>0, <1>17 DEF RecordResult, Done, LoopInv
  <2> QED
    BY <1>0, <1>17, <2>1 DEF RecordResult, mgrVars, loopVars, envVars, histVars
<1>18. ASSUME NEW c \in Calls, CallArrives(c) \/ CallTranscribed(c) PROVE TypeOK'
  BY SMTT(30), <1>0, <1>18
  DEF CallArrives, CallTranscribed, mgrVars, recVars, loopVars, histVars
<1>19. CASE LiveEnqueue \/ WorkerTakes
  <2>1. pending' \in 0..QueueSize /\ liveLeft' \in Nat
    BY <1>0, <1>19, SizesAssumption DEF LiveEnqueue, WorkerTakes
  <2> QED
    BY SMTT(30), <1>0, <1>19, <2>1 DEF LiveEnqueue, WorkerTakes, mgrVars, recVars, loopVars, histVars
<1>20. CASE Shutdown
  BY <1>0, <1>20 DEF Shutdown, mgrVars, recVars, loopVars, envVars, histVars
<1>21. CASE UNCHANGED vars
  BY <1>0, <1>21 DEF vars, mgrVars, recVars, loopVars, envVars, histVars
<1> QED
  BY <1>1, <1>2, <1>3, <1>4, <1>5, <1>6, <1>7, <1>8, <1>9, <1>10, <1>11, <1>12, <1>13,
     <1>14, <1>15, <1>16, <1>17, <1>18, <1>19, <1>20, <1>21
  DEF Next, Cancel, Loop, ProcessJob, Database

\* What the steps of the other goroutines leave alone.
LEMMA OthersFrame ==
  ASSUME TypeOK, [Next]_vars, ~Loop
  PROVE  /\ UNCHANGED <<pc, job, active, cursor, batch, lastPage, enqueued>>
         /\ UNCHANGED <<completed, failed, tried, late, ending>>
         /\ down => down'
         /\ cancelled \subseteq cancelled' /\ steady' \subseteq steady
         /\ nextID' >= nextID
<1>0. nextID \in Int
  BY BoundsAssumption DEF TypeOK
<1>1. CASE UNCHANGED vars
  BY <1>0, <1>1 DEF vars, mgrVars, recVars, loopVars, histVars
<1>2. ASSUME NEW h \in Handlers, Submit(h) PROVE nextID' >= nextID
  <2>1. nextID' = nextID \/ nextID' = nextID + 1
    BY <1>2 DEF Submit, SubmitCount, SubmitAppend, SubmitSignal, mgrVars
  <2> QED
    BY <1>0, <2>1
<1>3. ASSUME NEW h \in Handlers, Submit(h)
      PROVE /\ UNCHANGED <<pc, job, active, cursor, batch, lastPage, enqueued, down>>
            /\ UNCHANGED <<completed, failed, tried, late, ending, cancelled, steady>>
  BY <1>3 DEF Submit, SubmitCount, SubmitAppend, SubmitSignal, mgrVars, recVars, loopVars,
     histVars
<1>4. ASSUME Cancel
      PROVE /\ UNCHANGED <<pc, job, active, cursor, batch, lastPage, enqueued, down, nextID>>
            /\ UNCHANGED <<completed, failed, tried, late, ending, steady>>
            /\ cancelled \subseteq cancelled'
  BY <1>4 DEF Cancel, CancelAll, CancelActive, CancelQueued, recVars, loopVars, histVars
<1>5. ASSUME Database \/ LiveEnqueue \/ WorkerTakes \/ Shutdown
      PROVE /\ UNCHANGED <<pc, job, active, cursor, batch, lastPage, enqueued, nextID>>
            /\ UNCHANGED <<completed, failed, tried, late, ending, cancelled>>
            /\ steady' \subseteq steady /\ (down => down')
  BY <1>5 DEF Database, CallArrives, CallTranscribed, LiveEnqueue, WorkerTakes, Shutdown,
     mgrVars, recVars, loopVars, histVars
<1> QED
  BY <1>0, <1>1, <1>2, <1>3, <1>4, <1>5 DEF Next

\* processJob only runs with a job, which it never changes.
LEMMA ProcessJobFrame ==
  ASSUME TypeOK, LoopInv, ProcessJob
  PROVE  /\ job \in Jobs /\ pc \notin Resting /\ pc' \notin Resting
         /\ UNCHANGED <<job, active, nextID, queue, cancelled, signal, filter, handler, down>>
<1>1. job # 0 /\ pc \notin Resting /\ pc' \notin Resting
  BY DEF LoopInv, Resting, ProcessJob, Recount, QueryPage, QueryStops, EndOfPage, NextCall,
     QueueRoom, EnqueueCall, HandOut, RecordResult, Return
<1>2. UNCHANGED <<job, active, nextID, queue, cancelled, signal, filter, handler, down>>
  BY DEF ProcessJob, Recount, QueryPage, QueryStops, EndOfPage, NextCall,
     QueueRoom, EnqueueCall, HandOut, RecordResult, Return, mgrVars, recVars, loopVars
<1> QED
  BY <1>1, <1>2 DEF TypeOK

LEMMA LoopStep == IInv /\ [Next]_vars => LoopInv'
<1> SUFFICES ASSUME IInv, [Next]_vars PROVE LoopInv'
  OBVIOUS
<1>0. TypeOK /\ LoopInv /\ QueueInv
  BY DEF IInv
<1>1. CASE ~Loop
  <2>0. nextID \in Int /\ nextID' \in Int /\ (job # 0 => job \in Int)
    BY <1>0, TypeStep, BoundsAssumption DEF TypeOK, Jobs
  <2>1. job # 0 => job' <= nextID'
    BY <1>0, <1>1, <2>0, OthersFrame DEF LoopInv
  <2> QED
    BY <1>0, <1>1, <2>1, OthersFrame DEF LoopInv, Resting, Done
<1>2. CASE NothingQueued \/ WakeUp \/ LoopExit
  BY <1>0, <1>2 DEF NothingQueued, WakeUp, LoopExit, LoopInv, Resting, Done,
     mgrVars, recVars, loopVars, histVars
<1>3. CASE GrabJob
  <2>1. /\ job' = queue[1] /\ job' \in Jobs /\ 1 \in DOMAIN queue
    BY <1>0, <1>3, HeadTailProperties, ElementOfSeq, LenProperties DEF GrabJob, TypeOK
  <2>2. /\ job' <= nextID' /\ job' # 0
        /\ tried[job'] = {} /\ Done(job') = 0 /\ ending[job'] = "none"
    BY <1>0, <1>3, <2>1 DEF GrabJob, QueueInv, Jobs
  <2> QED
    BY <1>0, <1>3, <2>2 DEF GrabJob, LoopInv, Resting, Done, recVars, histVars
<1>4. CASE FinishJob
  BY <1>0, <1>4 DEF FinishJob, LoopInv, Resting
<1>5. CASE ProcessJob
  <2>0. job \in Jobs /\ pc \notin Resting /\ pc' \notin Resting /\ job # 0 /\ job <= nextID
        /\ UNCHANGED <<job, active, nextID>> /\ active = job
    BY <1>0, <1>5, ProcessJobFrame DEF LoopInv
  <2>1. CASE Recount \/ QueryPage \/ QueryStops \/ EndOfPage \/ QueueRoom
    BY <1>0, <2>0, <2>1 DEF LoopInv, Recount, QueryPage, QueryStops, EndOfPage,
       QueueRoom, Return, Resting, loopVars, histVars
  <2>2. CASE NextCall
    BY <1>0, <2>0, <2>2, CallsAssumption
    DEF LoopInv, NextCall, NextInPage, Return, Resting, histVars, TypeOK
  <2>3. CASE EnqueueCall \/ RecordResult
    BY <1>0, <2>0, <2>3 DEF LoopInv, EnqueueCall, HandOut, RecordResult, Resting,
       loopVars, histVars
  <2> QED
    BY <1>5, <2>1, <2>2, <2>3 DEF ProcessJob
<1> QED
  BY <1>1, <1>2, <1>3, <1>4, <1>5 DEF Loop

LEMMA QueueStep == IInv /\ [Next]_vars => QueueInv'
<1> SUFFICES ASSUME IInv, [Next]_vars PROVE QueueInv'
  OBVIOUS
<1>0. TypeOK /\ TypeOK' /\ LoopInv /\ QueueInv /\ CursorInv /\ CountsDistinctCalls
  BY TypeStep DEF IInv
<1>1. /\ nextID \in Int /\ nextID' \in Int /\ Len(queue) \in Nat
      /\ DOMAIN queue = 1..Len(queue) /\ \A i \in DOMAIN queue : queue[i] \in Jobs
      /\ \A j \in Jobs : j \in Int
  <2>1. Len(queue) \in Nat /\ DOMAIN queue = 1..Len(queue) /\ \A i \in DOMAIN queue : queue[i] \in Jobs
    BY <1>0, ElementOfSeq, LenProperties DEF TypeOK
  <2>2. nextID \in Int /\ nextID' \in Int
    BY <1>0, BoundsAssumption DEF TypeOK
  <2>3. \A j \in Jobs : j \in Int
    BY BoundsAssumption DEF Jobs
  <2> QED
    BY <2>1, <2>2, <2>3
\* A step that leaves the queue and the other parts alone.
<1>2. ASSUME UNCHANGED <<queue, nextID, job, cancelled, completed, failed, tried, ending>>
      PROVE QueueInv'
  BY <1>0, <1>2 DEF QueueInv, Fresh, Done
<1>3. ASSUME NEW h \in Handlers, Submit(h) PROVE QueueInv'
  <2>1. CASE SubmitAppend(h)
    <3>1. /\ nextID' = nextID + 1 /\ nextID' \in Jobs
          /\ Len(queue') = Len(queue) + 1 /\ DOMAIN queue' = 1..Len(queue')
          /\ queue'[Len(queue) + 1] = nextID'
          /\ \A i \in DOMAIN queue : queue'[i] = queue[i]
          /\ UNCHANGED <<job, cancelled, completed, failed, tried, ending>>
      BY <1>0, <1>1, <2>1, AppendProperties, BoundsAssumption
      DEF SubmitAppend, loopVars, histVars, TypeOK, Jobs
    <3>2. \A i \in DOMAIN queue' : i = Len(queue) + 1 \/ i \in DOMAIN queue
      BY <1>1, <3>1
    <3>3. \A i \in DOMAIN queue : queue[i] <= nextID
      BY <1>0 DEF QueueInv
    <3>4. \A j \in Jobs : j >= nextID' => Fresh(j)
      BY <1>0, <1>1, <3>1 DEF QueueInv
    <3>5. \A i \in DOMAIN queue : queue[i] < nextID' /\ queue[i] \notin cancelled
      <4>1. \A i \in DOMAIN queue : queue[i] \notin cancelled
        BY <1>0 DEF QueueInv
      <4>2. nextID' = nextID + 1
        BY <3>1
      <4> QED
        BY <1>1, <3>3, <4>1, <4>2
    <3>6. \A i, k \in DOMAIN queue' : i < k => queue'[i] < queue'[k]
      <4> SUFFICES ASSUME NEW i \in DOMAIN queue', NEW k \in DOMAIN queue', i < k
                   PROVE  queue'[i] < queue'[k]
        OBVIOUS
      <4>1. i \in DOMAIN queue
        BY <1>1, <3>1, <3>2
      <4>2. CASE k \in DOMAIN queue
        BY <1>0, <3>1, <4>1, <4>2 DEF QueueInv
      <4>3. CASE k = Len(queue) + 1
        BY <3>1, <3>5, <4>1, <4>3
      <4> QED
        BY <3>2, <4>2, <4>3
    <3>9. \A i \in DOMAIN queue' : queue'[i] <= nextID' /\ queue'[i] \notin cancelled'
      <4>1. nextID' \notin cancelled
        BY <1>1, <3>1, <3>4 DEF Fresh
      <4>2. \A i \in DOMAIN queue : queue'[i] <= nextID' /\ queue'[i] \notin cancelled'
        <5>1. \A i \in DOMAIN queue : queue[i] <= nextID'
          BY <1>1, <3>5
        <5> QED
          BY <3>1, <3>5, <5>1
      <4> QED
        BY <1>1, <3>1, <3>2, <4>1, <4>2
    <3>7. \A i \in DOMAIN queue' : \A j \in Jobs :
            j >= queue'[i] => j # job /\ tried[j] = {} /\ Done(j) = 0 /\ ending[j] = "none"
      BY <1>0, <1>1, <3>1, <3>2, <3>4 DEF QueueInv, Fresh
    <3>8. \A j \in Jobs : j > nextID' => Fresh(j)
      BY <1>1, <3>1, <3>4
    <3> QED
      BY <3>1, <3>6, <3>7, <3>8, <3>9 DEF QueueInv, Fresh, Done
  <2>2. CASE ~SubmitAppend(h)
    BY <1>2, <1>3, <2>2 DEF Submit, SubmitCount, SubmitSignal, mgrVars, recVars, loopVars,
       histVars
  <2> QED
    BY <2>1, <2>2
\* Cancel only takes jobs out of the queue, and only marks jobs up to nextID.
<1>4. CASE Cancel
  <2>1. UNCHANGED <<nextID, job, completed, failed, tried, ending>>
    BY <1>4 DEF Cancel, CancelAll, CancelActive, CancelQueued, recVars, loopVars, histVars
  <2>2. CASE CancelAll
    <3>1. queue' = <<>> /\ \A j \in cancelled' : j \in cancelled \/ j <= nextID
      BY <1>0, <1>1, <2>2 DEF CancelAll, Queued, ToSet, QueueInv, LoopInv
    <3> QED
      BY <1>0, <1>1, <2>1, <3>1 DEF QueueInv, Fresh, Done
  <2>3. CASE CancelActive
    <3>1. queue' = queue /\ cancelled' = cancelled \cup {job} /\ job \in Jobs /\ job <= nextID
      BY <1>0, <2>3 DEF CancelActive, LoopInv, TypeOK
    <3>2. \A i \in DOMAIN queue : queue[i] # job
      BY <1>0, <1>1 DEF QueueInv
    <3> QED
      BY <1>0, <1>1, <2>1, <3>1, <3>2 DEF QueueInv, Fresh, Done
  <2>4. ASSUME NEW i \in DOMAIN queue, CancelQueued(i) PROVE QueueInv'
    <3>1. /\ DOMAIN queue' = 1..(Len(queue) - 1)
          /\ \A k \in DOMAIN queue' : queue'[k] = IF k < i THEN queue[k] ELSE queue[k + 1]
          /\ cancelled' = cancelled \cup {queue[i]}
      <4>1. /\ queue' = RemoveAt(queue, i) /\ queue \in Seq(Jobs)
            /\ cancelled' = cancelled \cup {queue[i]}
        BY <1>0, <2>4 DEF CancelQueued, TypeOK
      <4>2. queue' \in Seq(Jobs) /\ Len(queue') = Len(queue) - 1
            /\ \A k \in 1..(Len(queue) - 1) : queue'[k] = IF k < i THEN queue[k] ELSE queue[k + 1]
        BY <4>1, RemoveAtFacts
      <4>3. DOMAIN queue' = 1..(Len(queue) - 1)
        BY <4>2, LenProperties
      <4> QED
        BY <4>1, <4>2, <4>3
    <3>2. \A k \in DOMAIN queue' : /\ k < i => k \in DOMAIN queue
                                   /\ k >= i => k + 1 \in DOMAIN queue
      BY <1>1, <3>1
    <3>3. \A k, m \in DOMAIN queue' : k < m => queue'[k] < queue'[m]
      BY <1>0, <1>1, <3>1, <3>2 DEF QueueInv
    <3>4. \A k \in DOMAIN queue' : \E m \in DOMAIN queue : m # i /\ queue'[k] = queue[m]
      BY <1>1, <3>1, <3>2
    <3>5. \A m \in DOMAIN queue : m # i => queue[m] # queue[i]
      BY <1>0, <1>1 DEF QueueInv
    <3> QED
      BY <1>0, <1>1, <2>1, <3>1, <3>3, <3>4, <3>5 DEF QueueInv, Fresh, Done
  <2> QED
    BY <1>4, <2>2, <2>3, <2>4 DEF Cancel
<1>5. CASE NothingQueued \/ WakeUp \/ LoopExit
  BY <1>2, <1>5 DEF NothingQueued, WakeUp, LoopExit, mgrVars, recVars, loopVars, histVars
<1>6. CASE GrabJob
  <2>1. /\ job' = queue[1] /\ 1 \in DOMAIN queue
        /\ DOMAIN queue' = 1..(Len(queue) - 1)
        /\ \A i \in DOMAIN queue' : i + 1 \in DOMAIN queue /\ queue'[i] = queue[i + 1]
        /\ UNCHANGED <<nextID, cancelled, completed, failed, tried, ending>>
    <3>1. /\ queue' = Tail(queue) /\ job' = Head(queue) /\ queue \in Seq(Jobs) /\ queue # <<>>
          /\ UNCHANGED <<nextID, cancelled, completed, failed, tried, ending>>
      BY <1>0, <1>6 DEF GrabJob, recVars, histVars, TypeOK
    <3>2. /\ queue' \in Seq(Jobs) /\ Len(queue') = Len(queue) - 1 /\ Len(queue) # 0
          /\ \A i \in 1..Len(queue') : queue'[i] = queue[i + 1]
          /\ job' = queue[1]
      BY <3>1, HeadTailProperties, EmptySeq
    <3>3. DOMAIN queue' = 1..Len(queue')
      BY <3>2, LenProperties
    <3> QED
      BY <1>1, <3>1, <3>2, <3>3
  <2>2. \A i \in DOMAIN queue' : job' < queue'[i]
    BY <1>0, <1>1, <2>1 DEF QueueInv
  <2>3. \A i, k \in DOMAIN queue' : i < k => queue'[i] < queue'[k]
    BY <1>0, <1>1, <2>1 DEF QueueInv
  <2>4. job' \in Jobs /\ job' <= nextID
    BY <1>0, <1>1, <2>1 DEF QueueInv
  <2> QED
    BY <1>0, <1>1, <2>1, <2>2, <2>3, <2>4 DEF QueueInv, Fresh, Done
<1>7. CASE FinishJob
  BY <1>0, <1>7, CallsAssumption DEF FinishJob, QueueInv, Fresh, Done, recVars, Jobs
\* The running job is not at or after a queued one, so its records are free.
<1>8. CASE ProcessJob
  <2>1. job \in Jobs /\ UNCHANGED <<job, nextID, queue, cancelled>> /\ job <= nextID
    BY <1>0, <1>8, ProcessJobFrame DEF LoopInv
  <2>2. \A j \in Jobs \ {job} : /\ completed'[j] = completed[j] /\ failed'[j] = failed[j]
                                /\ tried'[j] = tried[j] /\ ending'[j] = ending[j]
    <3> USE <1>0 DEF TypeOK, recVars, histVars
    <3>1. CASE Recount \/ QueryPage
      BY <3>1 DEF Recount, QueryPage
    <3>2. CASE QueryStops \/ EndOfPage
      BY <3>2 DEF QueryStops, EndOfPage, Return
    <3>3. CASE NextCall \/ QueueRoom
      BY <3>3 DEF NextCall, QueueRoom, Return
    <3>4. CASE EnqueueCall
      BY <3>4 DEF EnqueueCall, HandOut
    <3>5. CASE RecordResult
      BY <3>5 DEF RecordResult
    <3> QED
      BY <1>8, <3>1, <3>2, <3>3, <3>4, <3>5 DEF ProcessJob
  <2> QED
    BY <1>0, <1>1, <2>1, <2>2 DEF QueueInv, Fresh, Done
<1>9. CASE Database \/ LiveEnqueue \/ WorkerTakes \/ Shutdown
  BY <1>2, <1>9 DEF Database, CallArrives, CallTranscribed, LiveEnqueue, WorkerTakes,
     Shutdown, mgrVars, recVars, loopVars, histVars
<1>10. CASE UNCHANGED vars
  BY <1>2, <1>10 DEF vars, mgrVars, recVars, loopVars, histVars
<1> QED
  BY <1>3, <1>4, <1>5, <1>6, <1>7, <1>8, <1>9, <1>10 DEF Next, Loop

\* The cursor only moves forward, to a call not handed out before.
LEMMA CursorStep == IInv /\ [Next]_vars => CursorInv' /\ CountsDistinctCalls'
<1> SUFFICES ASSUME IInv, [Next]_vars PROVE CursorInv' /\ CountsDistinctCalls'
  OBVIOUS
<1>0. TypeOK /\ LoopInv /\ QueueInv /\ CursorInv /\ CountsDistinctCalls
  BY DEF IInv
<1>1. /\ cursor \in Int /\ job \in {0} \cup Jobs /\ 0 \notin Jobs
      /\ \A j \in Jobs : tried[j] \subseteq Int /\ Done(j) \in Nat
      /\ \A c \in Calls : c \in Int
  <2>1. \A c \in Calls : c \in Int
    BY CallsAssumption
  <2>2. \A j \in Jobs : Done(j) \in Nat /\ tried[j] \subseteq Calls
    BY <1>0 DEF TypeOK, Done
  <2>3. cursor \in {0} \cup Calls /\ job \in {0} \cup Jobs /\ 0 \notin Jobs
    BY <1>0, BoundsAssumption DEF TypeOK, Jobs
  <2> QED
    BY <2>1, <2>2, <2>3
<1>2. CASE ~Loop
  BY <1>0, <1>2, OthersFrame DEF CursorInv, CountsDistinctCalls, Done
<1>3. CASE NothingQueued \/ WakeUp \/ LoopExit
  BY <1>0, <1>3 DEF NothingQueued, WakeUp, LoopExit, CursorInv, CountsDistinctCalls, Done,
     LoopInv, Resting, mgrVars, recVars, loopVars, histVars
<1>4. CASE GrabJob
  <2>1. /\ LoopInv' /\ pc' = "recount" /\ pc = "grab"
        /\ UNCHANGED <<completed, failed, tried>>
    BY <1>4, LoopStep DEF GrabJob, recVars, histVars
  <2> QED
    BY <1>0, <2>1 DEF CursorInv, CountsDistinctCalls, Done, LoopInv
<1>5. CASE FinishJob
  BY <1>0, <1>5 DEF FinishJob, CursorInv, CountsDistinctCalls, Done, recVars
<1>6. CASE Recount \/ QueryPage \/ QueryStops \/ EndOfPage \/ QueueRoom
  <2>1. /\ UNCHANGED <<job, completed, failed, tried, cursor>> /\ pc # "record" /\ pc' # "record"
        /\ pc' = "handout" => pc = "room"
        /\ pc' # "room"
    BY <1>6 DEF Recount, QueryPage, QueryStops, EndOfPage, QueueRoom, Return,
       recVars, loopVars, histVars
  <2> QED
    BY <1>0, <2>1 DEF CursorInv, CountsDistinctCalls, Done
<1>7. CASE NextCall
  <2>1. /\ UNCHANGED <<job, completed, failed, tried>> /\ pc = "next" /\ pc' \in {"room", "finish"}
        /\ cursor' \in Calls \cup {cursor} /\ cursor' >= cursor
        /\ pc' = "room" => cursor' > cursor
    BY <1>0, <1>1, <1>7 DEF NextCall, NextInPage, Return, recVars, histVars, TypeOK
  <2>2. job # 0 => \A c \in tried[job] : c <= cursor /\ c \in Int
    BY <1>0, <1>1 DEF CursorInv
  <2>3. cursor' \in Int
    BY <1>1, <2>1
  <2>4. job # 0 => \A c \in tried[job] : c <= cursor' /\ (pc' = "room" => c # cursor')
    BY <1>1, <2>1, <2>2, <2>3
  <2>5. pc' = "room" => job # 0
    BY <1>0, <2>1 DEF LoopInv, Resting
  <2> QED
    BY <1>0, <2>1, <2>4, <2>5 DEF CursorInv, CountsDistinctCalls, Done
<1>8. CASE EnqueueCall
  <2>1. /\ UNCHANGED <<job, completed, failed, cursor>> /\ pc = "handout" /\ pc' = "record"
        /\ tried' = [tried EXCEPT ![job] = @ \cup {cursor}]
        /\ job \in Jobs /\ tried \in [Jobs -> SUBSET Calls]
    BY <1>0, <1>8 DEF EnqueueCall, HandOut, recVars, LoopInv, Resting, TypeOK
  <2>2. /\ IsFiniteSet(tried[job] \cup {cursor})
        /\ Cardinality(tried[job] \cup {cursor}) = Cardinality(tried[job]) + 1
    BY <1>0, <2>1, FS_AddElement DEF CursorInv
  <2>3. \A c \in tried[job] \cup {cursor} : c <= cursor
    BY <1>0, <1>1, <2>1 DEF CursorInv
  <2>4. Cardinality(tried[job]) = Done(job)
    BY <1>0, <1>1, <2>1 DEF CountsDistinctCalls
  <2>5. CursorInv'
    BY <1>0, <1>1, <2>1, <2>2, <2>3 DEF CursorInv
  <2>6. CountsDistinctCalls'
    BY <1>0, <1>1, <2>1, <2>2, <2>4 DEF CountsDistinctCalls, Done
  <2> QED
    BY <2>5, <2>6
<1>9. CASE RecordResult
  <2>1. /\ UNCHANGED <<job, tried, cursor>> /\ pc = "record" /\ pc' = "next" /\ job \in Jobs
        /\ \A j \in Jobs : Done(j)' = IF j = job THEN Done(j) + 1 ELSE Done(j)
    <3>1. job \in Jobs /\ completed \in [Jobs -> Nat] /\ failed \in [Jobs -> Nat]
      BY <1>0, <1>9 DEF RecordResult, LoopInv, Resting, TypeOK
    <3> QED
      BY <1>9, <3>1 DEF RecordResult, Done, loopVars, histVars
  <2>2. CountsDistinctCalls'
    BY <1>0, <1>1, <2>1 DEF CountsDistinctCalls
  <2> QED
    BY <1>0, <2>1, <2>2 DEF CursorInv
<1> QED
  BY <1>2, <1>3, <1>4, <1>5, <1>6, <1>7, <1>8, <1>9 DEF Loop, ProcessJob

\* Only RecordResult moves the counters and it raises the total with them; the
\* recount comes before any of them moved.
LEMMA ProgressStep == IInv /\ [Next]_vars => ProgressWithinTotal'
<1> SUFFICES ASSUME IInv, [Next]_vars PROVE ProgressWithinTotal'
  OBVIOUS
<1>0. TypeOK /\ TypeOK' /\ LoopInv /\ QueueInv /\ ProgressWithinTotal
  BY TypeStep DEF IInv
<1>1. /\ total \in [Jobs -> Nat] /\ completed \in [Jobs -> Nat] /\ failed \in [Jobs -> Nat]
      /\ total' \in [Jobs -> Nat]
  BY <1>0 DEF TypeOK
<1>2. ASSUME NEW h \in Handlers, SubmitAppend(h) PROVE ProgressWithinTotal'
  <2>1. nextID + 1 \in Jobs => Done(nextID + 1) = 0
    BY <1>0, BoundsAssumption DEF QueueInv, Fresh, TypeOK, Jobs
  <2>2. /\ UNCHANGED <<completed, failed>>
        /\ \A j \in Jobs : j # nextID + 1 => total'[j] = total[j]
    BY <1>1, <1>2 DEF SubmitAppend
  <2> QED
    BY <1>0, <1>1, <2>1, <2>2 DEF ProgressWithinTotal, Done
<1>3. CASE Recount
  <2>1. /\ UNCHANGED <<completed, failed>> /\ Done(job) = 0
        /\ \A j \in Jobs : j # job => total'[j] = total[j]
    BY <1>0, <1>1, <1>3 DEF Recount, LoopInv
  <2> QED
    BY <1>0, <1>1, <2>1 DEF ProgressWithinTotal, Done
<1>4. CASE RecordResult
  <2>1. job \in Jobs
    BY <1>0, <1>4 DEF RecordResult, LoopInv, Resting, TypeOK
  <2>2. /\ \A j \in Jobs : Done(j)' = IF j = job THEN Done(j) + 1 ELSE Done(j)
        /\ \A j \in Jobs : total'[j] = IF j = job /\ Done(j) + 1 > total[j]
                                       THEN Done(j) + 1 ELSE total[j]
    BY <1>1, <1>4, <2>1 DEF RecordResult, Done
  <2>3. \A j \in Jobs : Done(j) \in Nat
    BY <1>1 DEF Done
  <2> QED
    BY <1>0, <1>1, <2>2, <2>3 DEF ProgressWithinTotal
<1>5. ASSUME ~Recount, ~RecordResult, ~\E h \in Handlers : SubmitAppend(h)
      PROVE  UNCHANGED <<total, completed, failed>>
  BY <1>5 DEF Next, vars, Submit, SubmitCount, SubmitSignal, Cancel, CancelAll, CancelActive,
     CancelQueued, Loop, NothingQueued, GrabJob, WakeUp, LoopExit, FinishJob, ProcessJob,
     QueryPage, QueryStops, EndOfPage, NextCall, QueueRoom, EnqueueCall, HandOut, Return,
     Database, CallArrives, CallTranscribed, LiveEnqueue, WorkerTakes, Shutdown,
     recVars
<1> QED
  BY <1>0, <1>2, <1>3, <1>4, <1>5 DEF ProgressWithinTotal, Done

\* A job is appended before its token is sent, and the loop looks at the queue
\* again after it takes a token.
LEMMA WakeupStep == IInv /\ [Next]_vars => NoLostWakeup'
<1> SUFFICES ASSUME IInv, [Next]_vars PROVE NoLostWakeup'
  OBVIOUS
<1>0. NoLostWakeup /\ handler \in [Handlers -> [pc : {"idle", "append", "signal"},
                                              filter : SUBSET Calls, total : Nat]]
  BY DEF IInv, TypeOK
<1>1. ASSUME NEW h \in Handlers, Submit(h) PROVE NoLostWakeup'
  <2>1. CASE \E f \in Filters : SubmitCount(h, f)
    BY <1>0, <2>1 DEF SubmitCount, NoLostWakeup, mgrVars
  <2>2. CASE SubmitAppend(h)
    BY <1>0, <2>2 DEF SubmitAppend, NoLostWakeup
  <2>3. CASE SubmitSignal(h)
    BY <2>3 DEF SubmitSignal, NoLostWakeup
  <2> QED
    BY <1>1, <2>1, <2>2, <2>3 DEF Submit
<1>2. CASE CancelAll \/ CancelActive
  BY <1>0, <1>2 DEF CancelAll, CancelActive, NoLostWakeup
<1>3. ASSUME NEW i \in DOMAIN queue, CancelQueued(i) PROVE NoLostWakeup'
  <2>1. queue # <<>>
    BY <1>3
  <2> QED
    BY <1>0, <1>3, <2>1 DEF CancelQueued, NoLostWakeup
<1>4. CASE NothingQueued \/ GrabJob \/ WakeUp \/ LoopExit \/ FinishJob
  BY <1>0, <1>4 DEF NothingQueued, GrabJob, WakeUp, LoopExit, FinishJob, NoLostWakeup, mgrVars
<1>5. CASE ProcessJob
  <2>1. pc' # "wait"
    BY <1>5, ProcessJobFrame DEF IInv, Resting
  <2> QED
    BY <2>1 DEF NoLostWakeup
<1>6. CASE Database \/ LiveEnqueue \/ WorkerTakes \/ Shutdown \/ UNCHANGED vars
  BY <1>0, <1>6 DEF Database, CallArrives, CallTranscribed, LiveEnqueue, WorkerTakes,
     Shutdown, vars, mgrVars, NoLostWakeup
<1> QED
  BY <1>1, <1>2, <1>3, <1>4, <1>5, <1>6 DEF Next, Cancel, Loop

\* Once a call was handed out after the Cancel, the next look at the context
\* makes processJob return.
LEMMA LateStep == IInv /\ [Next]_vars => LateInv'
<1> SUFFICES ASSUME IInv, [Next]_vars PROVE LateInv'
  OBVIOUS
<1>0. LoopInv /\ LateInv /\ late \in Nat
  BY DEF IInv, TypeOK
<1>1. CASE ~Loop
  <2>1. late > 0 /\ Cancelled(job) => Cancelled(job)'
    BY <1>1, OthersFrame DEF IInv, Cancelled
  <2> QED
    BY <1>0, <1>1, <2>1, OthersFrame DEF IInv, LateInv
<1>2. CASE NothingQueued \/ GrabJob \/ WakeUp \/ LoopExit
  BY <1>0, <1>2 DEF NothingQueued, GrabJob, WakeUp, LoopExit, LateInv, histVars
<1>3. CASE FinishJob
  BY <1>3 DEF FinishJob, LateInv
<1>4. CASE ProcessJob
  <2>1. job # 0 /\ UNCHANGED <<job, cancelled, down>>
    BY <1>0, <1>4, ProcessJobFrame DEF IInv, LoopInv, Resting
  <2>2. CASE EnqueueCall
    BY <1>0, <2>1, <2>2 DEF EnqueueCall, HandOut, LateInv, Cancelled
  <2>3. CASE ~EnqueueCall
    BY <1>0, <1>4, <2>1, <2>3 DEF ProcessJob, Recount, QueryPage, QueryStops, EndOfPage,
       NextCall, QueueRoom, RecordResult, Return, histVars, LateInv, Cancelled
  <2> QED
    BY <2>2, <2>3
<1> QED
  BY <1>1, <1>2, <1>3, <1>4 DEF Loop

\* The pages partition what is ahead of the cursor, so a call that stays
\* untranscribed cannot fall between two of them.
LEMMA PassStep == IInv /\ [Next]_vars => PassInv' /\ FullPass'
<1> SUFFICES ASSUME IInv, [Next]_vars PROVE PassInv' /\ FullPass'
  OBVIOUS
<1>0. TypeOK /\ LoopInv /\ QueueInv /\ PassInv /\ FullPass
  BY DEF IInv
<1>1. /\ \A c \in Calls : c \in Int /\ c > 0
      /\ cursor \in Int /\ steady \subseteq Calls /\ batch \subseteq Calls
  BY <1>0, CallsAssumption DEF TypeOK
<1>2. CASE ~Loop
  <2>1. /\ UNCHANGED <<pc, job, cursor, batch, lastPage, tried, ending>> /\ steady' \subseteq steady
    BY <1>0, <1>2, OthersFrame
  <2>2. job # 0 => steady' \subseteq Matching(job)'
    <3>1. CASE \E h \in Handlers : Submit(h)
      <4>1. /\ UNCHANGED <<untranscribed, steady>>
            /\ \A j \in Jobs : j # nextID + 1 => filter'[j] = filter[j]
        BY <1>0, <3>1 DEF Submit, SubmitCount, SubmitAppend, SubmitSignal, recVars, envVars,
           histVars, TypeOK
      <4>2. job # 0 => job \in Jobs /\ job # nextID + 1
        BY <1>0, BoundsAssumption DEF LoopInv, TypeOK, Jobs
      <4> QED
        BY <1>0, <2>1, <4>1, <4>2 DEF PassInv, Matching
    <3>2. CASE \E c \in Calls : CallTranscribed(c)
      BY <1>0, <2>1, <3>2 DEF CallTranscribed, PassInv, Matching, recVars
    <3>3. CASE ~(\E h \in Handlers : Submit(h)) /\ ~(\E c \in Calls : CallTranscribed(c))
      <4>1. filter' = filter /\ untranscribed \subseteq untranscribed' /\ steady' = steady
        BY <1>2, <3>3 DEF Next, vars, Cancel, CancelAll, CancelActive, CancelQueued, Database,
           CallArrives, LiveEnqueue, WorkerTakes, Shutdown, recVars, envVars, histVars
      <4> QED
        BY <1>0, <2>1, <4>1 DEF PassInv, Matching
    <3> QED
      BY <3>1, <3>2, <3>3
  <2> QED
    BY <1>0, <2>1, <2>2 DEF PassInv, FullPass
<1>3. CASE NothingQueued \/ WakeUp \/ LoopExit
  BY <1>0, <1>3 DEF NothingQueued, WakeUp, LoopExit, PassInv, FullPass, Matching, LoopInv,
     Resting, recVars, loopVars, envVars, histVars
<1>4. CASE GrabJob \/ FinishJob
  BY <1>0, <1>4 DEF GrabJob, FinishJob, PassInv, FullPass, Matching, LoopInv, Resting, histVars
<1>5. CASE Recount
  <2>1. /\ pc = "recount" /\ pc' = "query" /\ cursor' = 0 /\ job' = job
        /\ steady' = Matching(job) /\ Matching(job)' = Matching(job)
    BY <1>0, <1>5 DEF Recount, LoopInv, Matching, loopVars, envVars
  <2>2. \A c \in Matching(job) : c > 0 /\ c \in Int
    BY <1>0, <1>1 DEF Matching, TypeOK
  <2> QED
    BY <2>1, <2>2 DEF PassInv, FullPass
<1>6. CASE QueryPage
  <2>1. PICK page \in Pages : batch' = page /\ lastPage' = (Cardinality(page) < BatchSize)
    BY <1>6 DEF QueryPage
  <2>2. /\ pc = "query" /\ pc' = "next" /\ job # 0
        /\ UNCHANGED <<job, cursor, steady, untranscribed, filter, tried>>
    BY <1>0, <1>6 DEF QueryPage, LoopInv, Resting, recVars, envVars, histVars
  <2>3. steady \subseteq Matching(job)
    BY <1>0, <2>2 DEF PassInv
  <2>4. ASSUME StoreOrdered
        PROVE  /\ \A b \in batch' : b > cursor
               /\ \A c \in steady : c > cursor =>
                    c \in batch' \/ (~lastPage' /\ \A b \in batch' : b < c)
    BY <2>1, <2>3, <2>4 DEF Pages
  <2> QED
    BY <1>0, <2>2, <2>3, <2>4 DEF PassInv, FullPass, Matching
<1>12. ASSUME NEW how \in {"error", "cancelled"}, pc \notin Resting, Return(how)
       PROVE  PassInv' /\ FullPass'
  <2>1. job \in Jobs
    BY <1>0, <1>12 DEF LoopInv, TypeOK
  <2>2. ending'[job] # "done" /\ job' = job
    BY <1>0, <1>12, <2>1 DEF Return, TypeOK
  <2> QED
    BY <1>0, <1>12, <2>2 DEF Return, PassInv, FullPass, Matching, recVars, envVars
<1>7. CASE QueryStops \/ QueueRoom
  <2>1. CASE QueryStops \/ pc' = "finish"
    BY <1>7, <1>12, <2>1 DEF QueryStops, QueueRoom, Resting
  <2>2. CASE QueueRoom /\ pc' # "finish"
    BY <1>0, <2>2 DEF QueueRoom, Return, PassInv, FullPass, Matching, recVars, loopVars,
       envVars, histVars
  <2> QED
    BY <1>7, <2>1, <2>2
<1>8. CASE EndOfPage
  BY <1>0, <1>1, <1>8 DEF EndOfPage, Return, PassInv, FullPass, Matching, recVars, loopVars,
     envVars, histVars, TypeOK
<1>9. CASE NextCall
  <2>1. PICK c \in NextInPage :
          \/ Return("error") \/ Return("cancelled")
          \/ /\ c > cursor /\ cursor' = c /\ batch' = batch \ {c} /\ pc' = "room"
             /\ UNCHANGED <<job, lastPage, filter, untranscribed, tried, steady>>
    BY <1>9 DEF NextCall, recVars, envVars, histVars
  <2>2. pc = "next" /\ job # 0 /\ c \in batch /\ c \in Int
    BY <1>0, <1>1, <1>9 DEF NextCall, NextInPage, LoopInv, Resting
  <2>3. CASE Return("error") \/ Return("cancelled")
    BY <1>12, <2>2, <2>3 DEF Resting
  <2>4. CASE pc' = "room"
    <3>1. /\ c > cursor /\ cursor' = c /\ batch' = batch \ {c}
          /\ UNCHANGED <<job, lastPage, filter, untranscribed, tried, steady>>
      BY <2>1, <2>4 DEF Return
    <3>2. ASSUME StoreOrdered PROVE \A b \in batch : c <= b
      BY <3>2, <2>1 DEF NextInPage
    <3>3. ASSUME StoreOrdered PROVE \A b \in batch' : b > c
      BY <1>1, <2>2, <3>1, <3>2, <3>3
    <3>4. ASSUME StoreOrdered, NEW s \in steady, s > c
          PROVE  s \in batch' \/ (~lastPage /\ \A b \in batch' : b < s)
      <4>1. s > cursor /\ s \in Int
        BY <1>1, <2>2, <3>1, <3>4
      <4> QED
        BY <1>0, <2>2, <3>1, <3>4, <4>1 DEF PassInv
    <3>5. ASSUME StoreOrdered, NEW s \in steady, s <= c PROVE s \in tried[job] \/ s = c
      <4>1. CASE s <= cursor
        BY <1>0, <2>2, <3>5, <4>1 DEF PassInv
      <4>2. CASE s > cursor
        <5>1. s \in Int /\ c \in Int
          BY <1>1, <2>2
        <5>2. s \in batch \/ \A b \in batch : b < s
          BY <1>0, <2>2, <3>5, <4>2 DEF PassInv
        <5> QED
          BY <2>2, <3>2, <3>5, <5>1, <5>2
      <4> QED
        BY <1>1, <4>1, <4>2
    <3> QED
      BY <1>0, <2>2, <2>4, <3>1, <3>3, <3>4, <3>5 DEF PassInv, FullPass, Matching
  <2> QED
    BY <2>1, <2>3, <2>4
<1>10. CASE EnqueueCall
  <2>1. /\ pc = "handout" /\ pc' = "record" /\ job \in Jobs
        /\ UNCHANGED <<job, cursor, batch, lastPage, filter, untranscribed, steady>>
        /\ tried'[job] = tried[job] \cup {cursor}
    BY <1>0, <1>10 DEF EnqueueCall, HandOut, recVars, LoopInv, Resting, TypeOK
  <2> QED
    BY <1>0, <2>1 DEF PassInv, FullPass, Matching
<1>11. CASE RecordResult
  BY <1>0, <1>11 DEF RecordResult, PassInv, FullPass, Matching, loopVars, envVars, histVars
<1> QED
  BY <1>2, <1>3, <1>4, <1>5, <1>6, <1>7, <1>8, <1>9, <1>10, <1>11
  DEF Loop, ProcessJob

-----------------------------------------------------------------------------
(* The theorems.                                                           *)

THEOREM Invariance == Spec => []IInv
<1>1. IInv /\ [Next]_vars => IInv'
  BY TypeStep, LoopStep, QueueStep, CursorStep, ProgressStep, WakeupStep, LateStep, PassStep
  DEF IInv
<1> QED
  BY InitInv, <1>1, PTL DEF Spec

\* Every variable keeps its type.
THEOREM TypeCorrect == Spec => []TypeOK
BY Invariance, PTL DEF IInv

\* However the pages move under it, a job counts each call at most once
\* (processJob's cursor check, recordResult).
THEOREM AtMostOncePerJob == Spec => []CountsDistinctCalls
BY Invariance, PTL DEF IInv

\* Completed plus failed never exceeds the total a reader of Status sees
\* (recordResult).
THEOREM ProgressBounded == Spec => []ProgressWithinTotal
BY Invariance, PTL DEF IInv

\* The loop never waits with a job queued and no token on its way (Submit, loop).
THEOREM WakeupNeverLost == Spec => []NoLostWakeup
BY Invariance, PTL DEF IInv

\* A job that ran to its end handed out every call that matched throughout
\* (processJob, ListUntranscribedCalls).
THEOREM PassIsComplete == Spec => []FullPass
BY Invariance, PTL DEF IInv

\* A Cancel lets at most one more call through (processJob's context checks).
THEOREM CancelIsPrompt == Spec => []CancelStopsTheJob
<1>1. IInv => CancelStopsTheJob
  BY DEF IInv, LateInv, CancelStopsTheJob
<1> QED
  BY Invariance, <1>1, PTL

\* Jobs run one at a time, in submission order, and never after they were
\* cancelled in the queue (loop, Submit, Cancel).
THEOREM OrderOfJobs == Spec => StartsInOrder
<1>1. IInv /\ [Next]_vars =>
        [active' # active /\ active' # 0 =>
           /\ active = 0
           /\ active' \notin cancelled
           /\ \A j \in Jobs : j >= active' => tried[j] = {} /\ ending[j] = "none"]_vars
  <2> SUFFICES ASSUME IInv, [Next]_vars, active' # active, active' # 0
               PROVE  /\ active = 0 /\ active' \notin cancelled
                      /\ \A j \in Jobs : j >= active' => tried[j] = {} /\ ending[j] = "none"
    OBVIOUS
  <2>1. TypeOK /\ LoopInv /\ QueueInv
    BY DEF IInv
  <2>2. GrabJob
    BY <2>1, OthersFrame, ProcessJobFrame DEF Loop, NothingQueued, WakeUp, LoopExit, FinishJob,
       mgrVars
  <2>3. active' = queue[1] /\ 1 \in DOMAIN queue /\ active = 0
    BY <2>1, <2>2, HeadTailProperties, EmptySeq, LenProperties
    DEF GrabJob, TypeOK, LoopInv, Resting
  <2> QED
    BY <2>1, <2>3 DEF QueueInv
<1> QED
  BY Invariance, <1>1, PTL DEF Spec, StartsInOrder
=============================================================================
