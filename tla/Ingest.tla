------------------------------- MODULE Ingest -------------------------------
(***************************************************************************)
(* The way of a message into the engine: the MQTT client's queue           *)
(* (internal/mqttclient/client.go), HandleMessage and the warmup gate of   *)
(* the pipeline (internal/ingest/pipeline.go), the batcher of the raw      *)
(* archive, and the order in which main.go starts and stops them.          *)
(*                                                                         *)
(* The broker publishes Traffic[1], Traffic[2], ...  Two goroutines handle *)
(* messages: the client's dispatch loop, and, when it ends the warmup, the *)
(* gate's timer.  One action is what a goroutine does between two reads or *)
(* writes of what the other one uses.                                      *)
(***************************************************************************)
EXTENDS Batcher

CONSTANTS
  Traffic,     \* the kinds of the messages, in the order the broker sends them;
               \* the rows of the batcher are the messages
  QueueSize    \* capacity of msgCh (1000)

Msg == DOMAIN Traffic

\* What dispatch tells apart.  "register" is a systems or system message that
\* carries a type or a sysid; "passes" is config or status, or a systems message
\* without either; "unknown" has no route.
Kind == {"register", "passes", "call", "unknown"}

Goroutine == {"loop", "timer"}

\* Each message has a row in the archive.
ASSUME IngestAssumption == Traffic \in Seq(Kind) /\ Msg \subseteq BatchRow /\ QueueSize \in Nat

VARIABLES
  sent,      \* messages the broker has published
  msgCh,     \* messages received and not yet taken by the dispatch loop
  gate,      \* warmupDone
  opener,    \* who opened the gate
  warmup,    \* the gate's timer: off, running, or its callback under way
  buffer,    \* warmupBuf
  pc,        \* where each goroutine is
  work,      \* the messages each goroutine has before it, first the current one
  handled,   \* messages whose handler has run, in that order
  lost,      \* messages received that no handler has run, and why
  phase      \* of the process

ingestVars ==
  <<sent, msgCh, gate, opener, warmup, buffer, pc, work, handled, lost, phase>>
vars == <<ingestVars, batcherVars>>

Lost == {"no handler yet", "queue full", "cancelled", "exit"}

IngestTypeOK ==
  /\ sent \in 0 .. Len(Traffic)
  /\ msgCh \in Seq(Msg) /\ Len(msgCh) <= QueueSize
  /\ gate \in BOOLEAN
  /\ opener \in {"nobody", "start"} \cup Goroutine
  /\ warmup \in {"off", "running", "fired"}
  /\ buffer \in Seq(Msg)
  /\ pc \in [Goroutine -> {"idle", "gate", "lock", "handle", "complete"}]
  /\ work \in [Goroutine -> Seq(Msg)]
  /\ handled \in Seq(Msg)
  /\ lost \subseteq Msg \X Lost
  /\ phase \in {"connecting", "running", "stopping", "cancelled", "exited"}

TypeOK == BatcherTypeOK /\ IngestTypeOK

Init ==
  /\ BatcherInit
  /\ sent = 0
  /\ msgCh = <<>>
  /\ gate = FALSE
  /\ opener = "nobody"
  /\ warmup = "off"
  /\ buffer = <<>>
  /\ pc = [g \in Goroutine |-> "idle"]
  /\ work = [g \in Goroutine |-> <<>>]
  /\ handled = <<>>
  /\ lost = {}
  /\ phase = "connecting"

-----------------------------------------------------------------------------
(* The MQTT client.                                                        *)

\* onMessage: without a handler the message is only logged; a full queue drops it.
Receive ==
  /\ phase # "exited"
  /\ sent < Len(Traffic)
  /\ sent' = sent + 1
  /\ \/ /\ phase = "connecting"
        /\ lost' = lost \cup {<<sent + 1, "no handler yet">>}
        /\ UNCHANGED msgCh
     \/ /\ phase # "connecting" /\ Len(msgCh) < QueueSize
        /\ msgCh' = Append(msgCh, sent + 1)
        /\ UNCHANGED lost
     \/ /\ phase # "connecting" /\ Len(msgCh) = QueueSize
        /\ lost' = lost \cup {<<sent + 1, "queue full">>}
        /\ UNCHANGED msgCh
  /\ UNCHANGED <<gate, opener, warmup, buffer, pc, work, handled, phase, batcherVars>>

-----------------------------------------------------------------------------
(* Handling one message.                                                   *)

\* dispatchLoop takes a message; HandleMessage archives it and looks for a route.
TakeMessage ==
  /\ pc["loop"] = "idle" /\ work["loop"] = <<>>
  /\ msgCh # <<>>
  /\ phase \notin {"connecting", "exited"}
  /\ msgCh' = Tail(msgCh)
  /\ Add(Head(msgCh))
  /\ IF Traffic[Head(msgCh)] = "unknown"
       THEN UNCHANGED <<pc, work>>
       ELSE /\ pc' = [pc EXCEPT !["loop"] = "gate"]
            /\ work' = [work EXCEPT !["loop"] = <<Head(msgCh)>>]
  /\ UNCHANGED <<sent, gate, opener, warmup, buffer, handled, lost, phase>>

\* A goroutine that replays the buffer goes on to its next message.
NextReplayed(g) ==
  /\ pc[g] = "idle" /\ work[g] # <<>>
  /\ pc' = [pc EXCEPT ![g] = "gate"]
  /\ UNCHANGED <<sent, msgCh, gate, opener, warmup, buffer, work, handled, lost, phase,
                 batcherVars>>

\* dispatch reads warmupDone.
ReadGate(g) ==
  /\ pc[g] = "gate"
  /\ pc' = [pc EXCEPT ![g] = IF gate \/ Traffic[Head(work[g])] # "call" THEN "handle" ELSE "lock"]
  /\ UNCHANGED <<sent, msgCh, gate, opener, warmup, buffer, work, handled, lost, phase,
                 batcherVars>>

\* A slip: warmupDone is not read again under the mutex.
BufferAlways(g) ==
  /\ pc[g] = "lock"
  /\ buffer' = Append(buffer, Head(work[g]))
  /\ work' = [work EXCEPT ![g] = Tail(work[g])]
  /\ pc' = [pc EXCEPT ![g] = "idle"]
  /\ UNCHANGED <<sent, msgCh, gate, opener, warmup, handled, lost, phase, batcherVars>>

\* dispatch holds warmupMu and reads warmupDone again.
BufferUnlessOpen(g) ==
  /\ pc[g] = "lock"
  /\ IF gate
       THEN pc' = [pc EXCEPT ![g] = "handle"] /\ UNCHANGED <<buffer, work>>
       ELSE /\ buffer' = Append(buffer, Head(work[g]))
            /\ work' = [work EXCEPT ![g] = Tail(work[g])]
            /\ pc' = [pc EXCEPT ![g] = "idle"]
  /\ UNCHANGED <<sent, msgCh, gate, opener, warmup, handled, lost, phase, batcherVars>>

\* The handler runs; with the context cancelled its statements fail.
Handle(g) ==
  LET m == Head(work[g]) IN
  /\ pc[g] = "handle"
  /\ work' = [work EXCEPT ![g] = Tail(work[g])]
  /\ \/ /\ phase # "cancelled"
        /\ handled' = Append(handled, m)
        /\ pc' = [pc EXCEPT ![g] = IF Traffic[m] = "register" THEN "complete" ELSE "idle"]
        /\ UNCHANGED lost
     \/ /\ phase = "cancelled"
        /\ lost' = lost \cup {<<m, "cancelled">>}
        /\ pc' = [pc EXCEPT ![g] = "idle"]
        /\ UNCHANGED handled
  /\ UNCHANGED <<sent, msgCh, gate, opener, warmup, buffer, phase, batcherVars>>

\* A slip: the buffer is replayed in a goroutine of its own.
CompleteWarmupElsewhere(g) ==
  /\ pc[g] = "complete"
  /\ pc' = [pc EXCEPT ![g] = "idle"]
  /\ gate' = TRUE
  /\ opener' = IF gate THEN opener ELSE g
  /\ warmup' = IF warmup = "running" THEN "off" ELSE warmup
  /\ work' = [work EXCEPT !["timer"] = buffer \o @]
  /\ buffer' = <<>>
  /\ UNCHANGED <<sent, msgCh, handled, lost, phase, batcherVars>>

\* completeWarmup: the first call opens the gate and has the buffer to replay.
CompleteWarmup(g) ==
  /\ pc[g] = "complete"
  /\ pc' = [pc EXCEPT ![g] = "idle"]
  /\ IF gate
       THEN UNCHANGED <<gate, opener, buffer, work, warmup>>
       ELSE /\ gate' = TRUE
            /\ opener' = g
            /\ work' = [work EXCEPT ![g] = buffer \o work[g]]
            /\ buffer' = <<>>
            /\ warmup' = IF warmup = "running" THEN "off" ELSE warmup
  /\ UNCHANGED <<sent, msgCh, handled, lost, phase, batcherVars>>

\* Five seconds after Start the gate's timer calls completeWarmup.
WarmupTimeout ==
  /\ warmup = "running" /\ phase # "exited"
  /\ warmup' = "fired"
  /\ pc' = [pc EXCEPT !["timer"] = "complete"]
  /\ UNCHANGED <<sent, msgCh, gate, opener, buffer, work, handled, lost, phase, batcherVars>>

-----------------------------------------------------------------------------
(* Start and stop, in the order of main.go.                                *)

\* Pipeline.Start, which skips the gate when the database knew systems, and then
\* SetMessageHandler.
Start ==
  /\ phase = "connecting"
  /\ phase' = "running"
  /\ \/ gate' = TRUE /\ opener' = "start" /\ UNCHANGED warmup
     \/ warmup' = "running" /\ UNCHANGED <<gate, opener>>
  /\ UNCHANGED <<sent, msgCh, buffer, pc, work, handled, lost, batcherVars>>

\* A signal; Pipeline.Stop stops the gate's timer, ... and then the batchers.
StopPipeline ==
  /\ phase = "running"
  /\ phase' = "stopping"
  /\ warmup' = IF warmup = "running" THEN "off" ELSE warmup
  /\ StopBatcher
  /\ UNCHANGED <<sent, msgCh, gate, opener, buffer, pc, work, handled, lost>>

\* The batchers' flushes have returned; Pipeline.Stop cancels the context.
Cancel ==
  /\ phase = "stopping" /\ BatcherIdle
  /\ phase' = "cancelled"
  /\ UNCHANGED <<sent, msgCh, gate, opener, warmup, buffer, pc, work, handled, lost,
                 batcherVars>>

\* mqtt.Close, and main returns: what is still in memory is gone.  The dispatch loop
\* may have taken more messages before it saw done.
Pending == Collected(msgCh) \cup Collected(buffer) \cup UNION {Collected(work[g]) : g \in Goroutine}

Exit ==
  /\ phase = "cancelled"
  /\ phase' = "exited"
  /\ lost' = lost \cup {<<m, "exit">> : m \in Pending}
  /\ msgCh' = <<>> /\ buffer' = <<>>
  /\ work' = [g \in Goroutine |-> <<>>]
  /\ pc' = [g \in Goroutine |-> "idle"]
  /\ UNCHANGED <<sent, gate, opener, warmup, handled, batcherVars>>

Goes(g) ==
  \/ NextReplayed(g) \/ ReadGate(g) \/ BufferUnlessOpen(g) \/ Handle(g) \/ CompleteWarmup(g)

BatcherGoes ==
  /\ \/ TimerRunsOut
     \/ TimerFlushes
     \/ LateTimerFlushes
     \/ \E q \in flights, outcome \in {"stored", "failed"} : FlushReturns(q, outcome)
  /\ UNCHANGED ingestVars

Next ==
  \/ Receive \/ TakeMessage
  \/ \E g \in Goroutine : Goes(g)
  \/ WarmupTimeout
  \/ BatcherGoes
  \/ Start \/ StopPipeline \/ Cancel \/ Exit

Spec ==
  /\ Init /\ [][Next]_vars
  /\ WF_vars(TakeMessage) /\ \A g \in Goroutine : WF_vars(Goes(g))
  /\ WF_vars(WarmupTimeout) /\ WF_vars(BatcherGoes)

-----------------------------------------------------------------------------
(* Properties.                                                             *)

Positions(m) == {i \in DOMAIN handled : handled[i] = m}
Reasons(m) == {r \in Lost : <<m, r>> \in lost}

\* Every message received has one place: it waits in the queue, the buffer or a
\* goroutine, was handled, or was lost for one known reason.  The gate neither
\* loses a message nor has it handled twice, whichever of the two goroutines
\* opens it and however the other one's reads of warmupDone fall around that.
HandledOnce ==
  \A m \in Msg :
    /\ Cardinality(Positions(m)) + Cardinality(Reasons(m)) <= 1
    /\ m \in Pending => Positions(m) = {} /\ Reasons(m) = {}

\* No message waits in the buffer once the gate is open: nobody would come for it.
NothingStranded == gate => buffer = <<>>

\* Calls are handled in the order they were received when a message opened the gate.
\* Nothing is said of the timer's gate: it replays while later messages are handled.
CallsBefore(i, j) ==
  i < j /\ Traffic[handled[i]] = "call" /\ Traffic[handled[j]] = "call"

OrderKept ==
  opener # "timer" =>
    \A i, j \in DOMAIN handled : CallsBefore(i, j) => handled[i] < handled[j]

\* What must hold of a message on its way, and of its row in the raw archive.
HandledInOrder == TypeOK /\ HandledOnce /\ NothingStranded /\ OrderKept
RowsReachTheirBatch == RowsConserved /\ RowsDoNotWait

\* Every message with a route is handled, unless the client refused it or the
\* process stops first: none stays in the queue, the buffer or a goroutine's hands.
MessagesHandled ==
  []<>(phase \in {"connecting", "running"} =>
         \A m \in 1 .. sent :
           Traffic[m] = "unknown" \/ Positions(m) # {} \/ Reasons(m) # {})
=============================================================================
