--------------------------- MODULE Ingest_proofs ----------------------------
(***************************************************************************)
(* Proofs about Batcher and Ingest, for any messages, kinds, order of      *)
(* sending, batch size and capacity of the client's queue.                 *)
(*                                                                         *)
(* That nothing is handled twice or left behind by the gate needs to know  *)
(* what the two goroutines can hold while it is closed (GateInv), that     *)
(* what is on its way is in the order of sending and so all distinct       *)
(* (OrderInv), and that a message is in one place (OnceInv).  Before the   *)
(* gate opens no call has been handled, and after that the calls a         *)
(* goroutine replays come before those it has yet to take (CallsInv).      *)
(***************************************************************************)
EXTENDS Ingest, SequenceTheorems, FiniteSetTheorems, TLAPS

BatcherInv == BatcherTypeOK /\ RowsConserved /\ RowsDoNotWait

\* A queue of messages is in the order in which they were sent.
Ordered(q) == \A i, j \in DOMAIN q : i < j => q[i] < q[j]
Before(P, Q) == \A x \in P, y \in Q : x < y
Way(g) == Collected(work[g])

\* While the gate is closed the timer has no messages and the loop at most one, and no
\* call is handled; once it is open none is left in the buffer.
GateInv ==
  /\ opener = "timer" => gate
  /\ gate => buffer = <<>>
  /\ ~gate => /\ work["timer"] = <<>> /\ Len(work["loop"]) <= 1
              /\ pc["loop"] = "complete" => work["loop"] = <<>>
              /\ \A m \in Collected(handled) : Traffic[m] # "call"
              /\ pc["loop"] = "handle" => Traffic[Head(work["loop"])] # "call"
  /\ \A g \in Goroutine : pc[g] \in {"gate", "lock", "handle"} => work[g] # <<>>
  /\ phase = "connecting" =>
       /\ ~gate /\ warmup = "off" /\ buffer = <<>>
       /\ \A g \in Goroutine : work[g] = <<>> /\ pc[g] = "idle"

\* What is on its way is in the order in which it was sent: first what the timer
\* replays or the buffer has, then what the loop has, then the client's queue.
OrderInv ==
  /\ Ordered(msgCh) /\ Ordered(buffer) /\ \A g \in Goroutine : Ordered(work[g])
  /\ Before(Way("timer"), Way("loop"))
  /\ Before(Collected(buffer), Way("loop"))
  /\ Before(Way("timer") \cup Collected(buffer) \cup Way("loop") \cup Collected(handled),
            Collected(msgCh))

\* A message is in one place, and only what was sent is anywhere.
Somewhere(m) == m \in Pending \/ m \in Collected(handled) \/ Reasons(m) # {}

OnceInv ==
  /\ \A i, j \in DOMAIN handled : handled[i] = handled[j] => i = j
  /\ \A m \in Msg :
       /\ Somewhere(m) => m <= sent
       /\ m \in Pending => m \notin Collected(handled) /\ Reasons(m) = {}
       /\ m \in Collected(handled) => Reasons(m) = {}
       /\ \A x, y \in Reasons(m) : x = y

\* When it is not the timer that opens the gate, calls are handled in order.
CallsInv ==
  opener # "timer" =>
    /\ work["timer"] = <<>>
    /\ \A i, j \in DOMAIN handled : CallsBefore(i, j) => handled[i] < handled[j]
    /\ \A m \in Collected(handled), n \in Way("loop") : Traffic[m] = "call" => m < n

IInv == IngestTypeOK /\ GateInv /\ OrderInv /\ OnceInv /\ CallsInv

-----------------------------------------------------------------------------
(* Sequences and the sets of what they hold.                               *)

LEMMA AppendHolds ==
  ASSUME NEW S, NEW q \in Seq(S), NEW r \in S
  PROVE  /\ Append(q, r) \in Seq(S)
         /\ Collected(Append(q, r)) = Collected(q) \cup {r}
<1>1. Append(q, r) \in Seq(S)
  OBVIOUS
<1>2. Collected(q) \cup {r} \subseteq Collected(Append(q, r))
  <2>1. ASSUME NEW i \in DOMAIN q PROVE q[i] \in Collected(Append(q, r))
    <3>1. i \in DOMAIN Append(q, r) /\ Append(q, r)[i] = q[i]
      OBVIOUS
    <3> QED
      BY <3>1 DEF Collected
  <2>2. r \in Collected(Append(q, r))
    <3>1. Len(q) + 1 \in DOMAIN Append(q, r) /\ Append(q, r)[Len(q) + 1] = r
      OBVIOUS
    <3> QED
      BY <3>1 DEF Collected
  <2> QED
    BY <2>1, <2>2 DEF Collected
<1>3. ASSUME NEW i \in DOMAIN Append(q, r) PROVE Append(q, r)[i] \in Collected(q) \cup {r}
  <2>1. \/ i \in DOMAIN q /\ Append(q, r)[i] = q[i]
        \/ i = Len(q) + 1 /\ Append(q, r)[i] = r
    OBVIOUS
  <2> QED
    BY <2>1 DEF Collected
<1> QED
  BY <1>1, <1>2, <1>3 DEF Collected

LEMMA TailHolds ==
  ASSUME NEW S, NEW q \in Seq(S), q # <<>>
  PROVE  /\ Head(q) \in S /\ Tail(q) \in Seq(S) /\ Len(Tail(q)) = Len(q) - 1
         /\ Collected(q) = {Head(q)} \cup Collected(Tail(q))
<1>1. Head(q) \in S /\ Tail(q) \in Seq(S) /\ Len(q) > 0 /\ Len(Tail(q)) = Len(q) - 1 /\ Head(q) = q[1]
  OBVIOUS
<1>2. \A i \in DOMAIN Tail(q) : i + 1 \in DOMAIN q /\ Tail(q)[i] = q[i + 1]
  BY <1>1
<1>3. ASSUME NEW i \in DOMAIN q PROVE q[i] \in {Head(q)} \cup Collected(Tail(q))
  <2>1. CASE i = 1
    BY <1>1, <2>1
  <2>2. CASE i # 1
    <3>1. i - 1 \in DOMAIN Tail(q) /\ q[i] = Tail(q)[i - 1]
      BY <1>1, <2>2
    <3> QED
      BY <3>1 DEF Collected
  <2> QED
    BY <2>1, <2>2
<1>4. Head(q) \in Collected(q)
  <2>1. 1 \in DOMAIN q
    BY <1>1
  <2> QED
    BY <1>1, <2>1 DEF Collected
<1> QED
  BY <1>1, <1>2, <1>3, <1>4 DEF Collected

LEMMA ConcatHolds ==
  ASSUME NEW S, NEW p \in Seq(S), NEW q \in Seq(S)
  PROVE  p \o q \in Seq(S) /\ Collected(p \o q) = Collected(p) \cup Collected(q)
<1>1. p \o q \in Seq(S) /\ Len(p \o q) = Len(p) + Len(q)
  OBVIOUS
<1>2. ASSUME NEW i \in DOMAIN p PROVE i \in DOMAIN (p \o q) /\ (p \o q)[i] = p[i]
  OBVIOUS
<1>3. ASSUME NEW i \in DOMAIN q PROVE Len(p) + i \in DOMAIN (p \o q) /\ (p \o q)[Len(p) + i] = q[i]
  OBVIOUS
<1>4. ASSUME NEW i \in DOMAIN (p \o q) PROVE (p \o q)[i] \in Collected(p) \cup Collected(q)
  <2>1. \/ i \in DOMAIN p /\ (p \o q)[i] = p[i]
        \/ i - Len(p) \in DOMAIN q /\ (p \o q)[i] = q[i - Len(p)]
    OBVIOUS
  <2> QED
    BY <2>1 DEF Collected
<1>5. Collected(p) \cup Collected(q) \subseteq Collected(p \o q)
  BY <1>2, <1>3 DEF Collected
<1>6. Collected(p \o q) \subseteq Collected(p) \cup Collected(q)
  BY <1>4 DEF Collected
<1> QED
  BY <1>1, <1>5, <1>6

LEMMA NoneHeld == Collected(<<>>) = {}
BY DEF Collected

LEMMA EmptyHoldsNone ==
  ASSUME NEW S, NEW q \in Seq(S)
  PROVE  q = <<>> <=> Collected(q) = {}
<1>1. ASSUME q # <<>> PROVE Collected(q) # {}
  <2>1. Collected(q) = {Head(q)} \cup Collected(Tail(q))
    BY <1>1, TailHolds
  <2> QED
    BY <2>1
<1> QED
  BY <1>1, NoneHeld

-----------------------------------------------------------------------------
(* Ordered queues.                                                         *)

LEMMA OrderedAppend ==
  ASSUME NEW q \in Seq(Nat), NEW r \in Nat, Ordered(q), \A x \in Collected(q) : x < r
  PROVE  Ordered(Append(q, r))
<1> SUFFICES ASSUME NEW i \in DOMAIN Append(q, r), NEW j \in DOMAIN Append(q, r), i < j
             PROVE  Append(q, r)[i] < Append(q, r)[j]
  BY DEF Ordered
<1>1. i \in DOMAIN q /\ Append(q, r)[i] = q[i] /\ q[i] \in Collected(q)
  BY DEF Collected
<1>2. CASE j \in DOMAIN q
  <2>1. Append(q, r)[j] = q[j]
    BY <1>2
  <2> QED
    BY <1>1, <1>2, <2>1 DEF Ordered
<1>3. CASE j \notin DOMAIN q
  <2>1. Append(q, r)[j] = r
    BY <1>3
  <2> QED
    BY <1>1, <2>1
<1> QED
  BY <1>2, <1>3

LEMMA OrderedTail ==
  ASSUME NEW q \in Seq(Nat), q # <<>>, Ordered(q)
  PROVE  Ordered(Tail(q)) /\ \A x \in Collected(Tail(q)) : Head(q) < x
<1>1. \A i \in DOMAIN Tail(q) : i + 1 \in DOMAIN q /\ Tail(q)[i] = q[i + 1]
  OBVIOUS
<1>2. Head(q) = q[1] /\ 1 \in DOMAIN q /\ \A i \in DOMAIN Tail(q) : i \in Nat /\ 1 < i + 1
  OBVIOUS
<1> QED
  BY <1>1, <1>2 DEF Ordered, Collected

LEMMA OrderedConcat ==
  ASSUME NEW p \in Seq(Nat), NEW q \in Seq(Nat), Ordered(p), Ordered(q),
         \A x \in Collected(p), y \in Collected(q) : x < y
  PROVE  Ordered(p \o q)
<1> SUFFICES ASSUME NEW i \in DOMAIN (p \o q), NEW j \in DOMAIN (p \o q), i < j
             PROVE  (p \o q)[i] < (p \o q)[j]
  BY DEF Ordered
<1>1. CASE j \in DOMAIN p
  <2>1. i \in DOMAIN p /\ (p \o q)[i] = p[i] /\ (p \o q)[j] = p[j]
    BY <1>1
  <2> QED
    BY <1>1, <2>1 DEF Ordered
<1>2. CASE j \notin DOMAIN p /\ i \in DOMAIN p
  <2>1. (p \o q)[i] = p[i] /\ j - Len(p) \in DOMAIN q /\ (p \o q)[j] = q[j - Len(p)]
    BY <1>2
  <2>2. p[i] \in Collected(p) /\ q[j - Len(p)] \in Collected(q)
    BY <1>2, <2>1 DEF Collected
  <2> QED
    BY <2>1, <2>2
<1>3. CASE j \notin DOMAIN p /\ i \notin DOMAIN p
  <2>1. /\ i - Len(p) \in DOMAIN q /\ (p \o q)[i] = q[i - Len(p)]
        /\ j - Len(p) \in DOMAIN q /\ (p \o q)[j] = q[j - Len(p)]
        /\ i - Len(p) < j - Len(p)
    BY <1>3
  <2> QED
    BY <2>1 DEF Ordered
<1> QED
  BY <1>1, <1>2, <1>3

-----------------------------------------------------------------------------
(* The batcher.                                                            *)

\* A batch on its way is written once, and its rows are no longer held elsewhere.
LEMMA BatcherInitInv == BatcherInit => BatcherInv
<1> SUFFICES ASSUME BatcherInit PROVE BatcherInv
  OBVIOUS
<1>1. BatcherTypeOK
  BY EmptySeq DEF BatcherInit, BatcherTypeOK
<1>2. RowsConserved /\ RowsDoNotWait
  BY NoneHeld DEF BatcherInit, RowsConserved, RowsDoNotWait, Holders
<1> QED
  BY <1>1, <1>2 DEF BatcherInv

LEMMA RefuseInv ==
  ASSUME BatcherInv, NEW r \in BatchRow, fate[r] = "new", Refuse(r)
  PROVE  BatcherInv'
<1>1. BatcherTypeOK'
  BY DEF BatcherInv, BatcherTypeOK, Refuse
<1>2. RowsConserved'
  BY DEF BatcherInv, BatcherTypeOK, RowsConserved, Holders, Refuse
<1>3. RowsDoNotWait'
  BY DEF BatcherInv, RowsDoNotWait, Refuse
<1> QED
  BY <1>1, <1>2, <1>3 DEF BatcherInv

LEMMA CollectInv ==
  ASSUME BatcherInv, NEW r \in BatchRow, fate[r] = "new", Collect(r)
  PROVE  BatcherInv'
<1> DEFINE q == Append(items, r)
<1>1. q \in Seq(BatchRow) /\ Collected(q) = Collected(items) \cup {r}
  BY AppendHolds DEF BatcherInv, BatcherTypeOK
<1>2. /\ ~stopped /\ fate' = [fate EXCEPT ![r] = "held"] /\ stopped' = stopped
      /\ \/ items' = q /\ flights' = flights
         \/ items' = <<>> /\ flights' = flights \cup {q}
  BY DEF Collect, FlushLocked
<1>3. BatcherTypeOK'
  <2>1. items \in Seq(BatchRow) /\ <<>> \in Seq(BatchRow) /\ flights \in SUBSET Seq(BatchRow)
    BY EmptySeq DEF BatcherInv, BatcherTypeOK
  <2>2. items' \in Seq(BatchRow) /\ flights' \in SUBSET Seq(BatchRow)
    BY <1>1, <1>2, <2>1
  <2>3. timer' \in {"none", "running", "waiting"} /\ late' \in Nat
    BY DEF BatcherInv, BatcherTypeOK, Collect, FlushLocked
  <2>4. stopped' \in BOOLEAN /\ fate' \in [BatchRow -> {"new", "held", "stored", "failed", "refused"}]
    BY <1>2 DEF BatcherInv, BatcherTypeOK
  <2> QED
    BY <2>2, <2>3, <2>4 DEF BatcherTypeOK
<1>4. Collected(items') = Collected(q) \/ Collected(items') = {}
  BY <1>2, NoneHeld
<1>5. RowsConserved'
  <2> SUFFICES ASSUME NEW s \in BatchRow
               PROVE  /\ fate'[s] = "held" <=> s \in Collected(items') \/ Holders(s)' # {}
                      /\ s \in Collected(items') => Holders(s)' = {}
                      /\ \A p1, p2 \in Holders(s)' : p1 = p2
    BY DEF RowsConserved
  <2>1. /\ fate[s] = "held" <=> s \in Collected(items) \/ Holders(s) # {}
        /\ s \in Collected(items) => Holders(s) = {}
        /\ \A p1, p2 \in Holders(s) : p1 = p2
    BY DEF BatcherInv, RowsConserved
  <2>2. fate'[s] = IF s = r THEN "held" ELSE fate[s]
    BY <1>2 DEF BatcherInv, BatcherTypeOK
  <2>3. CASE items' = q /\ flights' = flights
    <3>1. Holders(s)' = Holders(s)
      BY <2>3 DEF Holders
    <3> QED
      BY <1>1, <2>1, <2>2, <2>3, <3>1
  <2>4. CASE items' = <<>> /\ flights' = flights \cup {q}
    <3>1. Holders(s)' = Holders(s) \cup (IF s \in Collected(q) THEN {q} ELSE {})
      BY <2>4 DEF Holders
    <3>2. Collected(items') = {}
      BY <2>4, NoneHeld
    <3> QED
      BY <1>1, <2>1, <2>2, <3>1, <3>2
  <2> QED
    BY <1>2, <2>3, <2>4
<1>6. RowsDoNotWait'
  BY <1>2 DEF BatcherInv, RowsDoNotWait, Collect, FlushLocked
<1> QED
  BY <1>3, <1>5, <1>6 DEF BatcherInv

\* A flush of the batch as it is: by its timer, an earlier batch's, or Stop.
LEMMA FlushInv ==
  ASSUME BatcherInv, items' = <<>>, flights' = flights \cup {items}, UNCHANGED fate,
         timer' = "none", late' \in Nat, stopped' \in BOOLEAN
  PROVE  BatcherInv'
<1>1. BatcherTypeOK'
  BY DEF BatcherInv, BatcherTypeOK
<1>2. RowsConserved'
  <2> SUFFICES ASSUME NEW s \in BatchRow
               PROVE  /\ fate'[s] = "held" <=> s \in Collected(items') \/ Holders(s)' # {}
                      /\ s \in Collected(items') => Holders(s)' = {}
                      /\ \A p1, p2 \in Holders(s)' : p1 = p2
    BY DEF RowsConserved
  <2>1. /\ fate[s] = "held" <=> s \in Collected(items) \/ Holders(s) # {}
        /\ s \in Collected(items) => Holders(s) = {}
        /\ \A p1, p2 \in Holders(s) : p1 = p2
    BY DEF BatcherInv, RowsConserved
  <2>2. Holders(s)' = Holders(s) \cup (IF s \in Collected(items) THEN {items} ELSE {})
    BY DEF Holders
  <2>3. Collected(items') = {}
    BY NoneHeld
  <2> QED
    BY <2>1, <2>2, <2>3
<1>3. RowsDoNotWait'
  BY DEF RowsDoNotWait
<1> QED
  BY <1>1, <1>2, <1>3 DEF BatcherInv

\* What leaves batch, flights and fates alone, and a waiting batch its timer.
LEMMA StayInv ==
  ASSUME BatcherInv, UNCHANGED <<items, flights, fate>>,
         timer' \in {"none", "running", "waiting"}, late' \in Nat, stopped' \in BOOLEAN,
         items # <<>> => timer' # "none" /\ ~stopped'
  PROVE  BatcherInv'
<1>1. BatcherTypeOK'
  BY DEF BatcherInv, BatcherTypeOK
<1>2. RowsConserved' /\ RowsDoNotWait'
  BY DEF BatcherInv, RowsConserved, RowsDoNotWait, Holders
<1> QED
  BY <1>1, <1>2 DEF BatcherInv

LEMMA FlushReturnsInv ==
  ASSUME BatcherInv, NEW q \in flights, NEW outcome \in {"stored", "failed"},
         FlushReturns(q, outcome)
  PROVE  BatcherInv'
<1>1. BatcherTypeOK'
  BY DEF BatcherInv, BatcherTypeOK, FlushReturns
<1>2. RowsConserved'
  <2> SUFFICES ASSUME NEW s \in BatchRow
               PROVE  /\ fate'[s] = "held" <=> s \in Collected(items') \/ Holders(s)' # {}
                      /\ s \in Collected(items') => Holders(s)' = {}
                      /\ \A p1, p2 \in Holders(s)' : p1 = p2
    BY DEF RowsConserved
  <2>1. /\ fate[s] = "held" <=> s \in Collected(items) \/ Holders(s) # {}
        /\ s \in Collected(items) => Holders(s) = {}
        /\ \A p1, p2 \in Holders(s) : p1 = p2
    BY DEF BatcherInv, RowsConserved
  <2>2. Holders(s)' = Holders(s) \ {q} /\ items' = items /\ (q \in Holders(s) <=> s \in Collected(q))
    BY DEF Holders, FlushReturns
  <2>3. fate'[s] = IF s \in Collected(q) THEN outcome ELSE fate[s]
    BY DEF FlushReturns
  <2>4. CASE s \in Collected(q)
    <3>1. Holders(s)' = {} /\ s \notin Collected(items')
      BY <2>1, <2>2, <2>4
    <3> QED
      BY <2>3, <2>4, <3>1
  <2>5. CASE s \notin Collected(q)
    BY <2>1, <2>2, <2>3, <2>5
  <2> QED
    BY <2>4, <2>5
<1>3. RowsDoNotWait'
  BY DEF BatcherInv, RowsDoNotWait, FlushReturns
<1> QED
  BY <1>1, <1>2, <1>3 DEF BatcherInv

LEMMA BatcherStep == BatcherInv /\ [BatcherNext]_batcherVars => BatcherInv'
<1> SUFFICES ASSUME BatcherInv, [BatcherNext]_batcherVars PROVE BatcherInv'
  OBVIOUS
<1> USE DEF BatcherTypeOK
<1>1. ASSUME NEW r \in BatchRow, Add(r) PROVE BatcherInv'
  BY <1>1, RefuseInv, CollectInv DEF Add
<1>2. CASE TimerRunsOut
  BY <1>2, StayInv DEF TimerRunsOut, BatcherInv, RowsDoNotWait
<1>3. CASE TimerFlushes
  <2>1. CASE ~stopped /\ items # <<>>
    BY <1>3, <2>1, FlushInv DEF TimerFlushes, FlushLocked, BatcherInv
  <2>2. CASE ~(~stopped /\ items # <<>>)
    BY <1>3, <2>2, StayInv DEF TimerFlushes, BatcherInv, RowsDoNotWait
  <2> QED
    BY <2>1, <2>2
<1>4. CASE LateTimerFlushes
  <2>0. late \in Nat /\ late - 1 \in Nat
    BY <1>4 DEF LateTimerFlushes, BatcherInv
  <2>1. CASE ~stopped /\ items # <<>>
    BY <1>4, <2>0, <2>1, FlushInv DEF LateTimerFlushes, BatcherInv
  <2>2. CASE ~(~stopped /\ items # <<>>)
    BY <1>4, <2>0, <2>2, StayInv DEF LateTimerFlushes, BatcherInv, RowsDoNotWait
  <2> QED
    BY <2>1, <2>2
<1>5. ASSUME NEW q \in flights, NEW outcome \in {"stored", "failed"}, FlushReturns(q, outcome)
      PROVE  BatcherInv'
  BY <1>5, FlushReturnsInv
<1>6. CASE StopBatcher
  <2>1. CASE items # <<>>
    BY <1>6, <2>1, FlushInv DEF StopBatcher, FlushLocked, BatcherInv
  <2>2. CASE items = <<>>
    BY <1>6, <2>2, StayInv DEF StopBatcher, BatcherInv
  <2> QED
    BY <2>1, <2>2
<1>7. CASE UNCHANGED batcherVars
  BY <1>7, StayInv DEF batcherVars, BatcherInv, RowsDoNotWait
<1> QED
  BY <1>1, <1>2, <1>3, <1>4, <1>5, <1>6, <1>7 DEF BatcherNext

\* Whatever order the timers' callbacks, flushes by size and Stop take the mutex in, a
\* batcher holds each row it accepted in one place until it is written or its flush has
\* failed, and lets none wait without a timer (batcher.go).
THEOREM BatcherKeepsRows == BatcherSpec => [](RowsConserved /\ RowsDoNotWait)
<1>1. BatcherInv => RowsConserved /\ RowsDoNotWait
  BY DEF BatcherInv
<1> QED
  BY BatcherInitInv, BatcherStep, <1>1, PTL DEF BatcherSpec

-----------------------------------------------------------------------------
(* The types of the way of a message, and the batcher on it.               *)

LEMMA MsgIs == Len(Traffic) \in Nat /\ Msg = 1 .. Len(Traffic)
BY IngestAssumption DEF Msg

LEMMA TypeInit == Init => IngestTypeOK
<1> SUFFICES ASSUME Init PROVE IngestTypeOK
  OBVIOUS
<1> QED
  <2>1. Len(Traffic) \in Nat /\ <<>> \in Seq(Msg) /\ Len(<<>>) <= QueueSize
    BY MsgIs, EmptySeq, IngestAssumption
  <2>2. sent \in 0 .. Len(Traffic) /\ lost \subseteq Msg \X Lost
    BY <2>1 DEF Init
  <2> QED
    BY <2>1, <2>2 DEF Init, IngestTypeOK, Goroutine

LEMMA TypeStep == IInv /\ [Next]_vars => IngestTypeOK'
<1> SUFFICES ASSUME IngestTypeOK, GateInv, [Next]_vars PROVE IngestTypeOK'
  BY DEF IInv
<1> USE DEF IngestTypeOK
<1>0. /\ <<>> \in Seq(Msg) /\ QueueSize \in Nat
      /\ Len(Traffic) \in Nat /\ Msg = 1 .. Len(Traffic)
  BY EmptySeq, MsgIs, IngestAssumption
<1>1. CASE Receive
  <2>0. sent \in 0 .. Len(Traffic) /\ sent < Len(Traffic) /\ sent' = sent + 1
    BY <1>1 DEF Receive
  <2>1. sent + 1 \in Msg /\ sent' \in 0 .. Len(Traffic)
    BY ONLY <1>0, <2>0
  <2>2. <<sent + 1, "no handler yet">> \in Msg \X Lost /\ <<sent + 1, "queue full">> \in Msg \X Lost
    BY <2>1 DEF Lost
  <2>3. lost' \subseteq Msg \X Lost
    BY <1>1, <2>2 DEF Receive
  <2>4. msgCh' \in Seq(Msg) /\ Len(msgCh') <= QueueSize
    <3>1. CASE UNCHANGED msgCh
      BY <3>1
    <3>2. CASE Len(msgCh) < QueueSize /\ msgCh' = Append(msgCh, sent + 1)
      BY <1>0, <2>1, <3>2, AppendHolds
    <3> QED
      BY <1>1, <3>1, <3>2 DEF Receive
  <2> QED
    BY <1>1, <2>1, <2>3, <2>4 DEF Receive
<1>2. CASE TakeMessage
  <2>1. Head(msgCh) \in Msg /\ msgCh' \in Seq(Msg) /\ Len(msgCh') <= QueueSize
    BY SMTT(30), <1>0, <1>2, TailHolds DEF TakeMessage
  <2>2. pc' \in [Goroutine -> {"idle", "gate", "lock", "handle", "complete"}]
    BY <1>2 DEF TakeMessage
  <2>3. <<Head(msgCh)>> \in Seq(Msg)
    BY <2>1
  <2>4. work' \in [Goroutine -> Seq(Msg)]
    BY <1>2, <2>3 DEF TakeMessage
  <2> QED
    BY <1>2, <2>1, <2>2, <2>4 DEF TakeMessage
<1>3. ASSUME NEW g \in Goroutine, NextReplayed(g) PROVE IngestTypeOK'
  BY <1>3 DEF NextReplayed
<1>4. ASSUME NEW g \in Goroutine, ReadGate(g) PROVE IngestTypeOK'
  BY <1>4 DEF ReadGate
<1>5. ASSUME NEW g \in Goroutine, BufferUnlessOpen(g) PROVE IngestTypeOK'
  <2>1. Head(work[g]) \in Msg /\ Tail(work[g]) \in Seq(Msg)
    BY <1>5, TailHolds DEF BufferUnlessOpen, GateInv
  <2>2. Append(buffer, Head(work[g])) \in Seq(Msg)
    BY <2>1, AppendHolds
  <2>3. buffer' \in Seq(Msg) /\ work' \in [Goroutine -> Seq(Msg)]
    BY <1>5, <2>1, <2>2 DEF BufferUnlessOpen
  <2> QED
    BY <1>5, <2>3 DEF BufferUnlessOpen
<1>6. ASSUME NEW g \in Goroutine, Handle(g) PROVE IngestTypeOK'
  <2>1. Head(work[g]) \in Msg /\ Tail(work[g]) \in Seq(Msg)
    BY <1>6, TailHolds DEF Handle, GateInv
  <2>2. Append(handled, Head(work[g])) \in Seq(Msg)
    BY <2>1, AppendHolds
  <2>3. <<Head(work[g]), "cancelled">> \in Msg \X Lost
    BY <2>1 DEF Lost
  <2>4. work' \in [Goroutine -> Seq(Msg)]
    BY <1>6, <2>1 DEF Handle
  <2>5. pc' \in [Goroutine -> {"idle", "gate", "lock", "handle", "complete"}]
    BY <1>6 DEF Handle
  <2>6. handled' \in Seq(Msg) /\ lost' \subseteq Msg \X Lost
    BY <1>6, <2>2, <2>3 DEF Handle
  <2> QED
    BY <1>6, <2>4, <2>5, <2>6 DEF Handle
<1>7. ASSUME NEW g \in Goroutine, CompleteWarmup(g) PROVE IngestTypeOK'
  <2>1. buffer \o work[g] \in Seq(Msg)
    BY ConcatHolds
  <2>2. buffer' \in Seq(Msg) /\ work' \in [Goroutine -> Seq(Msg)]
    BY <1>0, <1>7, <2>1 DEF CompleteWarmup
  <2>3. pc' \in [Goroutine -> {"idle", "gate", "lock", "handle", "complete"}]
    BY <1>7 DEF CompleteWarmup
  <2>4. /\ gate' \in BOOLEAN /\ opener' \in {"nobody", "start"} \cup Goroutine
        /\ warmup' \in {"off", "running", "fired"}
    BY <1>7 DEF CompleteWarmup
  <2> QED
    BY <1>7, <2>2, <2>3, <2>4 DEF CompleteWarmup
<1>8. CASE WarmupTimeout
  BY <1>8 DEF WarmupTimeout, Goroutine
<1>9. CASE BatcherGoes
  BY <1>9 DEF BatcherGoes, ingestVars
<1>10. CASE Start
  BY <1>10 DEF Start
<1>11. CASE StopPipeline
  BY <1>11 DEF StopPipeline
<1>12. CASE Cancel
  BY <1>12 DEF Cancel
<1>13. CASE Exit
  <2>1. Pending \subseteq Msg
    BY DEF Pending, Collected
  <2>2. \A m \in Pending : <<m, "exit">> \in Msg \X Lost
    BY <2>1 DEF Lost
  <2>3. lost' \subseteq Msg \X Lost
    BY <1>13, <2>2 DEF Exit
  <2> QED
    BY <1>0, <1>13, <2>3 DEF Exit
<1>14. CASE UNCHANGED vars
  BY <1>14 DEF vars, ingestVars
<1> QED
  BY <1>1, <1>2, <1>3, <1>4, <1>5, <1>6, <1>7, <1>8, <1>9, <1>10, <1>11, <1>12, <1>13, <1>14
  DEF Next, Goes

\* To the batcher a step of Ingest is one of its own, or none.
LEMMA BatcherSteps == IngestTypeOK /\ [Next]_vars => [BatcherNext]_batcherVars
<1> SUFFICES ASSUME IngestTypeOK, [Next]_vars PROVE [BatcherNext]_batcherVars
  OBVIOUS
<1>1. CASE TakeMessage
  <2>1. Head(msgCh) \in BatchRow
    BY <1>1, TailHolds, IngestAssumption DEF IngestTypeOK, TakeMessage
  <2> QED
    BY <1>1, <2>1 DEF TakeMessage, BatcherNext
<1>2. CASE BatcherGoes
  BY <1>2 DEF BatcherGoes, BatcherNext
<1>3. CASE StopPipeline
  BY <1>3 DEF StopPipeline, BatcherNext
<1>4. ASSUME NEW g \in Goroutine, Goes(g) PROVE UNCHANGED batcherVars
  BY <1>4 DEF Goes, NextReplayed, ReadGate, BufferUnlessOpen, Handle, CompleteWarmup
<1> QED
  BY <1>1, <1>2, <1>3, <1>4 DEF Next, Receive, WarmupTimeout, Start, Cancel, Exit, vars

-----------------------------------------------------------------------------
(* The gate.                                                               *)

LEMMA GateInit == Init => GateInv /\ OrderInv /\ OnceInv /\ CallsInv
<1> SUFFICES ASSUME Init PROVE GateInv /\ OrderInv /\ OnceInv /\ CallsInv
  OBVIOUS
<1>1. /\ msgCh = <<>> /\ buffer = <<>> /\ handled = <<>> /\ lost = {}
      /\ work["loop"] = <<>> /\ work["timer"] = <<>> /\ pc["loop"] = "idle"
      /\ \A g \in Goroutine : work[g] = <<>> /\ pc[g] = "idle"
  BY DEF Init, Goroutine
<1>2. GateInv
  <2>1. Len(<<>>) <= 1
    OBVIOUS
  <2> QED
    BY <1>1, <2>1, NoneHeld DEF Init, GateInv
<1>3. OrderInv
  BY <1>1, NoneHeld DEF OrderInv, Ordered, Before, Way
<1>4. \A m \in Msg : ~Somewhere(m) /\ Reasons(m) = {}
  BY <1>1, NoneHeld DEF Somewhere, Pending, Reasons
<1>5. OnceInv
  BY <1>1, <1>4 DEF OnceInv, Somewhere
<1>6. CallsInv
  BY <1>1, NoneHeld DEF CallsInv, CallsBefore
<1> QED
  BY <1>2, <1>3, <1>5, <1>6

LEMMA GateStep == IInv /\ [Next]_vars => GateInv'
<1> SUFFICES ASSUME IngestTypeOK, GateInv, [Next]_vars PROVE GateInv'
  BY DEF IInv
<1> USE DEF GateInv
<1>0. /\ pc \in [Goroutine -> {"idle", "gate", "lock", "handle", "complete"}]
      /\ work \in [Goroutine -> Seq(Msg)] /\ msgCh \in Seq(Msg) /\ buffer \in Seq(Msg)
      /\ handled \in Seq(Msg) /\ Goroutine = {"loop", "timer"}
  BY DEF IngestTypeOK, Goroutine
<1>1. CASE Receive
  BY <1>1 DEF Receive
<1>2. CASE TakeMessage
  <2>1. Len(<<Head(msgCh)>>) <= 1 /\ <<Head(msgCh)>> # <<>>
    OBVIOUS
  <2>2. CASE Traffic[Head(msgCh)] = "unknown"
    BY <1>2, <2>2 DEF TakeMessage
  <2>3. CASE Traffic[Head(msgCh)] # "unknown"
    BY <1>0, <1>2, <2>1, <2>3 DEF TakeMessage
  <2> QED
    BY <2>2, <2>3
<1>3. ASSUME NEW g \in Goroutine, NextReplayed(g) PROVE GateInv'
  BY <1>0, <1>3 DEF NextReplayed
<1>4. ASSUME NEW g \in Goroutine, ReadGate(g) PROVE GateInv'
  BY <1>0, <1>4 DEF ReadGate
<1>5. ASSUME NEW g \in Goroutine, BufferUnlessOpen(g) PROVE GateInv'
  <2>1. CASE gate
    BY <1>0, <1>5, <2>1 DEF BufferUnlessOpen
  <2>2. CASE ~gate
    <3>1. g = "loop" /\ work["loop"] # <<>>
      BY <1>0, <1>5, <2>2 DEF BufferUnlessOpen
    <3>2. Tail(work["loop"]) = <<>>
      BY <1>0, <2>2, <3>1
    <3> QED
      BY <1>0, <1>5, <2>2, <3>1, <3>2 DEF BufferUnlessOpen
  <2> QED
    BY <2>1, <2>2
<1>6. ASSUME NEW g \in Goroutine, Handle(g) PROVE GateInv'
  <2>1. work[g] # <<>> /\ phase # "connecting"
    BY <1>0, <1>6 DEF Handle
  <2>2. CASE gate
    BY <1>0, <1>6, <2>1, <2>2 DEF Handle
  <2>3. CASE ~gate
    <3>1. g = "loop"
      BY <1>0, <2>1, <2>3
    <3>2. Tail(work["loop"]) = <<>> /\ Head(work["loop"]) \in Msg
      BY <1>0, <2>1, <2>3, <3>1
    <3>3. Traffic[Head(work["loop"])] # "call"
      BY <1>6, <2>3, <3>1 DEF Handle
    <3>4. Collected(Append(handled, Head(work["loop"]))) = Collected(handled) \cup {Head(work["loop"])}
      BY <1>0, <3>2, AppendHolds
    <3>5. \A m \in Collected(handled') : Traffic[m] # "call"
      BY <1>6, <2>3, <3>1, <3>3, <3>4 DEF Handle
    <3> QED
      BY <1>0, <1>6, <2>1, <2>3, <3>1, <3>2, <3>5, EmptySeq DEF Handle
  <2> QED
    BY <2>2, <2>3
<1>7. ASSUME NEW g \in Goroutine, CompleteWarmup(g) PROVE GateInv'
  BY <1>0, <1>7 DEF CompleteWarmup
<1>8. CASE WarmupTimeout
  BY <1>0, <1>8 DEF WarmupTimeout
<1>9. CASE BatcherGoes
  BY <1>9 DEF BatcherGoes, ingestVars
<1>10. CASE Start
  BY <1>0, <1>10 DEF Start
<1>11. CASE StopPipeline
  BY <1>11 DEF StopPipeline
<1>12. CASE Cancel
  BY <1>12 DEF Cancel
<1>13. CASE Exit
  BY <1>0, <1>13 DEF Exit
<1>14. CASE UNCHANGED vars
  BY <1>14 DEF vars, ingestVars
<1> QED
  BY <1>1, <1>2, <1>3, <1>4, <1>5, <1>6, <1>7, <1>8, <1>9, <1>10, <1>11, <1>12, <1>13, <1>14
  DEF Next, Goes

-----------------------------------------------------------------------------
(* The order on the way.                                                   *)

\* The message a goroutine is done with is nowhere else, and the rest stays in order.
LEMMA HeadLeaves ==
  ASSUME IInv, NEW g \in Goroutine, work[g] # <<>>,
         work' = [work EXCEPT ![g] = Tail(work[g])], UNCHANGED <<msgCh, buffer>>
  PROVE  /\ Head(work[g]) \in Msg /\ Head(work[g]) \in Pending
         /\ Pending' = Pending \ {Head(work[g])}
         /\ Way(g)' = Way(g) \ {Head(work[g])}
         /\ \A h \in Goroutine \ {g} : Way(h)' = Way(h)
         /\ \A h \in Goroutine : Ordered(work'[h])
         /\ \A x \in Way(g)' : Head(work[g]) < x
<1> DEFINE m == Head(work[g])
<1>0. /\ work \in [Goroutine -> Seq(Msg)] /\ work[g] \in Seq(Msg) /\ Msg \subseteq Nat
      /\ Goroutine = {"loop", "timer"} /\ work[g] \in Seq(Nat)
  BY MsgIs DEF IInv, IngestTypeOK, Goroutine
<1>1. /\ m \in Msg /\ Tail(work[g]) \in Seq(Msg)
      /\ Way(g) = {m} \cup Collected(Tail(work[g]))
  BY <1>0, TailHolds DEF Way
<1>2. Ordered(Tail(work[g])) /\ \A x \in Collected(Tail(work[g])) : m < x
  BY <1>0, OrderedTail DEF IInv, OrderInv
<1>3. work'[g] = Tail(work[g]) /\ \A h \in Goroutine \ {g} : work'[h] = work[h]
  BY <1>0
<1>4. m \notin Collected(Tail(work[g]))
  BY <1>0, <1>1, <1>2
<1>5. Way(g)' = Way(g) \ {m} /\ \A h \in Goroutine \ {g} : Way(h)' = Way(h)
  BY <1>1, <1>3, <1>4 DEF Way
<1>6. ~(m < m) /\ m \in Way(g)
  BY <1>0, <1>1
<1>10. m \notin Collected(msgCh)
  BY <1>0, <1>6 DEF IInv, OrderInv, Before
<1>11. \A h \in Goroutine \ {g} : m \notin Way(h)
  BY <1>0, <1>6 DEF IInv, OrderInv, Before
<1>7. m \notin Collected(buffer)
  <2>1. CASE g = "loop"
    BY <1>0, <1>6, <2>1 DEF IInv, OrderInv, Before
  <2>2. CASE g = "timer"
    BY <2>2, NoneHeld DEF IInv, GateInv
  <2> QED
    BY <1>0, <2>1, <2>2
<1>8. Pending' = Pending \ {m} /\ m \in Pending
  BY <1>0, <1>1, <1>5, <1>7, <1>10, <1>11 DEF Pending, Way
<1>9. \A h \in Goroutine : Ordered(work'[h])
  BY <1>2, <1>3 DEF IInv, OrderInv
<1> QED
  BY <1>1, <1>2, <1>3, <1>5, <1>8, <1>9 DEF Way

\* What moves no message.
Quiet == UNCHANGED <<sent, msgCh, buffer, work, handled, lost>>

LEMMA QuietSteps ==
  ASSUME Quiet, OrderInv, OnceInv
  PROVE  OrderInv' /\ OnceInv'
<1>1. OrderInv'
  BY DEF Quiet, OrderInv, Ordered, Before, Way
<1>2. \A m \in Msg : (Somewhere(m)' <=> Somewhere(m)) /\ Reasons(m)' = Reasons(m)
  BY DEF Quiet, Somewhere, Pending, Reasons
<1>3. Pending' = Pending
  BY DEF Quiet, Pending
<1>4. OnceInv'
  BY <1>2, <1>3 DEF Quiet, OnceInv
<1> QED
  BY <1>1, <1>4

\* The steps that move a message: the client receives one, the loop takes one or drops
\* it for want of a route, a call is buffered, a goroutine is done with one, the gate
\* opens, the process ends.
LEMMA Moves ==
  ASSUME IInv, [Next]_vars
  PROVE  \/ Quiet
         \/ Receive
         \/ TakeMessage
         \/ ~gate /\ BufferUnlessOpen("loop")
         \/ \E g \in Goroutine : Handle(g)
         \/ \E g \in Goroutine : ~gate /\ CompleteWarmup(g)
         \/ Exit
<1>0. Goroutine = {"loop", "timer"}
  BY DEF Goroutine
<1>1. ASSUME NEW g \in Goroutine, BufferUnlessOpen(g), gate PROVE Quiet
  BY <1>1 DEF BufferUnlessOpen, Quiet
<1>6. ASSUME NEW g \in Goroutine, BufferUnlessOpen(g), ~gate PROVE g = "loop"
  <2>1. work[g] # <<>>
    BY <1>6 DEF BufferUnlessOpen, IInv, GateInv
  <2> QED
    BY <1>0, <1>6, <2>1 DEF IInv, GateInv
<1>2. ASSUME NEW g \in Goroutine, CompleteWarmup(g), gate PROVE Quiet
  BY <1>2 DEF CompleteWarmup, Quiet
<1>3. ASSUME NEW g \in Goroutine, NextReplayed(g) \/ ReadGate(g) PROVE Quiet
  BY <1>3 DEF NextReplayed, ReadGate, Quiet
<1>4. CASE WarmupTimeout \/ Start \/ StopPipeline \/ Cancel
  BY <1>4 DEF WarmupTimeout, Start, StopPipeline, Cancel, Quiet
<1>5. CASE BatcherGoes \/ UNCHANGED vars
  BY <1>5 DEF BatcherGoes, vars, ingestVars, Quiet
<1> QED
  BY <1>1, <1>2, <1>3, <1>4, <1>5, <1>6 DEF Next, Goes

LEMMA SeqIsWider ==
  ASSUME NEW S, NEW T, S \subseteq T, NEW q \in Seq(S)
  PROVE  q \in Seq(T)
OBVIOUS

LEMMA OrderStep == IInv /\ [Next]_vars => OrderInv'
<1> SUFFICES ASSUME IInv, [Next]_vars PROVE OrderInv'
  OBVIOUS
<1> USE DEF Before
<1>0. /\ work \in [Goroutine -> Seq(Msg)] /\ msgCh \in Seq(Msg) /\ buffer \in Seq(Msg)
      /\ handled \in Seq(Msg) /\ Goroutine = {"loop", "timer"} /\ Msg \subseteq Nat
  BY MsgIs DEF IInv, IngestTypeOK, Goroutine
<1>00. /\ sent \in Nat
       /\ sent < Len(Traffic) => sent + 1 \in Msg
  BY MsgIs DEF IInv, IngestTypeOK
<1>01. msgCh \in Seq(Nat) /\ buffer \in Seq(Nat)
  BY <1>0, SeqIsWider
<1>1. CASE Receive
  <2>1. CASE UNCHANGED msgCh
    BY <1>1, <2>1, <1>0 DEF IInv, Receive, OrderInv, Way, Ordered
  <2>2. CASE msgCh' = Append(msgCh, sent + 1)
    <3>1. sent + 1 \in Msg
      BY <1>00, <1>1 DEF Receive
    <3>2. Collected(msgCh') = Collected(msgCh) \cup {sent + 1}
      BY <1>0, <2>2, <3>1, AppendHolds
    <3>3. \A m \in Way("timer") \cup Collected(buffer) \cup Way("loop") \cup Collected(handled)
               \cup Collected(msgCh) : m \in Msg /\ Somewhere(m)
      BY <1>0 DEF Somewhere, Pending, Way, Collected
    <3>4. \A m \in Way("timer") \cup Collected(buffer) \cup Way("loop") \cup Collected(handled)
               \cup Collected(msgCh) : m < sent + 1
      <4>1. \A m \in Msg : m <= sent => m < sent + 1
        BY <1>0, <1>00
      <4> QED
        BY <3>3, <4>1 DEF IInv, OnceInv
    <3>5. Ordered(msgCh')
      BY <1>0, <1>01, <2>2, <3>1, <3>4, OrderedAppend DEF IInv, OrderInv
    <3>6. UNCHANGED <<buffer, work, handled>>
      BY <1>1 DEF Receive
    <3> QED
      BY <3>2, <3>4, <3>5, <3>6 DEF IInv, OrderInv, Way, Ordered
  <2> QED
    BY <1>1, <2>1, <2>2 DEF Receive
<1>2. CASE TakeMessage
  <2> DEFINE h == Head(msgCh)
  <2>1. /\ msgCh # <<>> /\ msgCh' = Tail(msgCh) /\ UNCHANGED <<buffer, handled>>
        /\ work["loop"] = <<>>
        /\ \/ UNCHANGED work
           \/ work' = [work EXCEPT !["loop"] = <<h>>]
    BY <1>2 DEF TakeMessage
  <2>2. /\ h \in Msg /\ Tail(msgCh) \in Seq(Msg)
        /\ Collected(msgCh) = {h} \cup Collected(Tail(msgCh))
    BY <1>0, <2>1, TailHolds
  <2>3. Ordered(Tail(msgCh)) /\ \A x \in Collected(Tail(msgCh)) : h < x
    BY <1>01, <2>1, OrderedTail DEF IInv, OrderInv
  <2>4. Collected(<<h>>) = {h} /\ Ordered(<<h>>)
    BY DEF Collected, Ordered
  <2>5. Way("timer")' = Way("timer") /\ Way("loop")' \subseteq {h}
    BY <1>0, <2>1, <2>4, NoneHeld DEF Way
  <2>6. \A g \in Goroutine : Ordered(work'[g])
    BY <1>0, <2>1, <2>4 DEF IInv, OrderInv
  <2> QED
    BY <2>1, <2>2, <2>3, <2>5, <2>6 DEF IInv, OrderInv
<1>3. CASE ~gate /\ BufferUnlessOpen("loop")
  <2> DEFINE h == Head(work["loop"])
  <2>1. /\ work["loop"] # <<>> /\ work' = [work EXCEPT !["loop"] = Tail(work["loop"])]
        /\ buffer' = Append(buffer, h) /\ UNCHANGED <<msgCh, handled>>
    BY <1>0, <1>3 DEF BufferUnlessOpen, IInv, GateInv
  <2>2. work["timer"] = <<>> /\ Len(work["loop"]) <= 1
    BY <1>3 DEF IInv, GateInv
  <2>3. /\ h \in Msg /\ Way("loop") = {h} \cup Collected(Tail(work["loop"]))
        /\ Tail(work["loop"]) = <<>>
    BY <1>0, <2>1, <2>2, TailHolds DEF Way
  <2>4. Collected(buffer') = Collected(buffer) \cup {h}
    BY <1>0, <2>1, <2>3, AppendHolds
  <2>5. Ordered(buffer')
    <3>1. h \in Nat /\ \A x \in Collected(buffer) : x < h
      BY <1>0, <2>3 DEF IInv, OrderInv
    <3> QED
      BY <1>01, <2>1, <3>1, OrderedAppend DEF IInv, OrderInv
  <2>6. work'["loop"] = <<>> /\ work'["timer"] = <<>>
    BY <1>0, <2>1, <2>2, <2>3
  <2>7. Way("loop")' = {} /\ Way("timer")' = {} /\ Ordered(<<>>)
    BY <2>6, NoneHeld DEF Way, Ordered
  <2> QED
    BY <1>0, <2>1, <2>3, <2>4, <2>5, <2>6, <2>7 DEF IInv, OrderInv
<1>4. ASSUME NEW g \in Goroutine, Handle(g) PROVE OrderInv'
  <2> DEFINE m == Head(work[g])
  <2>1. /\ work[g] # <<>> /\ work' = [work EXCEPT ![g] = Tail(work[g])]
        /\ UNCHANGED <<msgCh, buffer>>
        /\ handled' = handled \/ handled' = Append(handled, m)
    BY <1>4 DEF Handle, IInv, GateInv
  <2>2. /\ m \in Msg
        /\ \A h \in Goroutine : Way(h)' \subseteq Way(h) /\ Ordered(work'[h])
    BY <2>1, HeadLeaves
  <2>3. m \in Way(g)
    BY <1>0, <2>1, TailHolds DEF Way
  <2>4. Collected(handled') \subseteq Collected(handled) \cup {m}
    <3>1. Collected(Append(handled, m)) = Collected(handled) \cup {m}
      BY <1>0, <2>2, AppendHolds
    <3> QED
      BY <2>1, <3>1
  <2> QED
    BY <1>0, <2>1, <2>2, <2>3, <2>4 DEF IInv, OrderInv
<1>5. ASSUME NEW g \in Goroutine, ~gate, CompleteWarmup(g) PROVE OrderInv'
  <2>1. work[g] = <<>> /\ work["timer"] = <<>>
    BY <1>0, <1>5 DEF CompleteWarmup, IInv, GateInv
  <2>2. /\ work' = [work EXCEPT ![g] = buffer \o work[g]] /\ buffer' = <<>>
        /\ UNCHANGED <<msgCh, handled>>
    BY <1>5 DEF CompleteWarmup
  <2>3. work' = [work EXCEPT ![g] = buffer]
    BY <1>0, <2>1, <2>2
  <2>4. Way(g)' = Collected(buffer) /\ \A h \in Goroutine \ {g} : Way(h)' = Way(h)
    BY <1>0, <2>3 DEF Way
  <2>5. \A h \in Goroutine : Ordered(work'[h])
    BY <1>0, <2>3 DEF IInv, OrderInv
  <2>6. Ordered(<<>>) /\ Way("timer") = {} /\ Collected(buffer') = {}
    BY <2>1, <2>2, NoneHeld DEF Ordered, Way
  <2>7. CASE g = "loop"
    BY <1>0, <2>1, <2>2, <2>4, <2>5, <2>6, <2>7 DEF IInv, OrderInv
  <2>8. CASE g = "timer"
    BY <1>0, <2>1, <2>2, <2>4, <2>5, <2>6, <2>8 DEF IInv, OrderInv
  <2> QED
    BY <1>0, <2>7, <2>8
<1>6. CASE Exit
  <2>1. msgCh' = <<>> /\ buffer' = <<>> /\ \A g \in Goroutine : work'[g] = <<>> /\ Way(g)' = {}
    BY <1>6, NoneHeld DEF Exit, Way
  <2>2. Ordered(<<>>)
    BY DEF Ordered
  <2> QED
    BY <1>0, <2>1, <2>2, NoneHeld DEF OrderInv
<1>7. CASE Quiet
  BY <1>7, QuietSteps DEF IInv
<1> QED
  BY <1>1, <1>2, <1>3, <1>4, <1>5, <1>6, <1>7, Moves

-----------------------------------------------------------------------------
(* One place for each message.                                             *)

LEMMA FewerPending ==
  ASSUME OnceInv, Pending' \subseteq Pending, UNCHANGED <<sent, handled, lost>>
  PROVE  OnceInv'
<1>1. \A m : Reasons(m)' = Reasons(m)
  BY DEF Reasons
<1>2. \A m : Somewhere(m)' => Somewhere(m)
  BY <1>1 DEF Somewhere
<1> QED
  BY <1>1, <1>2 DEF OnceInv

LEMMA LoseOne ==
  ASSUME NEW m, NEW r \in Lost, lost' = lost \cup {<<m, r>>}
  PROVE  /\ Reasons(m)' = Reasons(m) \cup {r}
         /\ \A n : n # m => Reasons(n)' = Reasons(n)
BY DEF Reasons

LEMMA OnceStep == IInv /\ [Next]_vars => OnceInv'
<1> SUFFICES ASSUME IInv, [Next]_vars PROVE OnceInv'
  OBVIOUS
<1>0. /\ work \in [Goroutine -> Seq(Msg)] /\ msgCh \in Seq(Msg) /\ buffer \in Seq(Msg)
      /\ handled \in Seq(Msg) /\ Goroutine = {"loop", "timer"} /\ Msg \subseteq Nat
  BY MsgIs DEF IInv, IngestTypeOK, Goroutine
<1>00. /\ sent \in Nat
       /\ sent < Len(Traffic) => sent + 1 \in Msg
  BY MsgIs DEF IInv, IngestTypeOK
<1>01. OnceInv
  BY DEF IInv
<1>1. CASE Receive
  <2>0. PICK x \in Msg : x = sent + 1
    BY <1>00, <1>1 DEF Receive
  <2>1. sent' = x /\ x <= x /\ ~(x <= sent) /\ \A m \in Msg : m <= sent => m <= x
    <3>1. sent' = sent + 1
      BY <1>1 DEF Receive
    <3> QED
      BY <1>0, <1>00, <2>0, <3>1
  <2>2. ~Somewhere(x)
    BY <1>01, <2>1 DEF OnceInv
  <2>3. UNCHANGED <<buffer, work, handled>>
    BY <1>1 DEF Receive
  <2>4. ASSUME NEW r \in Lost, lost' = lost \cup {<<x, r>>}, UNCHANGED msgCh PROVE OnceInv'
    <3>1. Pending' = Pending
      BY <2>3, <2>4 DEF Pending
    <3>2. Reasons(x)' = {r} /\ \A n \in Msg : n # x => Reasons(n)' = Reasons(n)
      BY <2>2, <2>4, LoseOne DEF Somewhere
    <3>3. \A m \in Msg : m # x => (Somewhere(m)' <=> Somewhere(m))
      BY <2>3, <3>1, <3>2 DEF Somewhere
    <3>4. x \notin Pending /\ x \notin Collected(handled)
      BY <2>2 DEF Somewhere
    <3> QED
      BY <1>01, <2>1, <2>3, <3>1, <3>2, <3>3, <3>4 DEF OnceInv
  <2>5. CASE msgCh' = Append(msgCh, x) /\ UNCHANGED lost
    <3>1. Collected(msgCh') = Collected(msgCh) \cup {x}
      BY <1>0, <2>1, <2>5, AppendHolds
    <3>2. Pending' = Pending \cup {x}
      BY <2>3, <3>1 DEF Pending
    <3>3. \A m : Reasons(m)' = Reasons(m)
      BY <2>5 DEF Reasons
    <3>4. \A m \in Msg : m # x => (Somewhere(m)' <=> Somewhere(m))
      BY <2>3, <3>2, <3>3 DEF Somewhere
    <3>5. x \notin Pending /\ x \notin Collected(handled) /\ Reasons(x) = {}
      BY <2>2 DEF Somewhere
    <3> QED
      BY <1>01, <2>1, <2>3, <3>2, <3>3, <3>4, <3>5 DEF OnceInv
  <2> QED
    BY <1>1, <2>0, <2>4, <2>5 DEF Receive, Lost
<1>2. CASE TakeMessage
  <2> DEFINE h == Head(msgCh)
  <2>1. /\ msgCh # <<>> /\ msgCh' = Tail(msgCh) /\ UNCHANGED <<sent, buffer, handled, lost>>
        /\ \/ UNCHANGED work
           \/ work' = [work EXCEPT !["loop"] = <<h>>]
    BY <1>2 DEF TakeMessage
  <2>2. Collected(msgCh) = {h} \cup Collected(Tail(msgCh)) /\ Collected(<<h>>) = {h}
    <3>1. Collected(<<h>>) = {h}
      BY DEF Collected
    <3> QED
      BY <1>0, <2>1, <3>1, TailHolds
  <2>3. \A g \in Goroutine : Collected(work'[g]) \subseteq Collected(work[g]) \cup {h}
    BY <1>0, <2>1, <2>2
  <2>4. Pending' \subseteq Pending
    BY <2>1, <2>2, <2>3 DEF Pending
  <2> QED
    BY <1>01, <2>1, <2>4, FewerPending
<1>3. CASE ~gate /\ BufferUnlessOpen("loop")
  <2> DEFINE h == Head(work["loop"])
  <2>1. /\ work["loop"] # <<>> /\ work' = [work EXCEPT !["loop"] = Tail(work["loop"])]
        /\ buffer' = Append(buffer, h) /\ UNCHANGED <<sent, msgCh, handled, lost>>
    BY <1>0, <1>3 DEF BufferUnlessOpen, IInv, GateInv
  <2>2. h \in Msg /\ Collected(work["loop"]) = {h} \cup Collected(Tail(work["loop"]))
    BY <1>0, <2>1, TailHolds
  <2>3. Collected(buffer') = Collected(buffer) \cup {h}
    BY <1>0, <2>1, <2>2, AppendHolds
  <2>4. \A g \in Goroutine : Collected(work'[g]) \subseteq Collected(work[g])
    BY <1>0, <2>1, <2>2
  <2>5. h \in Pending
    BY <1>0, <2>2 DEF Pending
  <2>6. Pending' \subseteq Pending
    BY SMTT(30), <2>1, <2>3, <2>4, <2>5 DEF Pending
  <2> QED
    BY <1>01, <2>1, <2>6, FewerPending
<1>4. ASSUME NEW g \in Goroutine, Handle(g) PROVE OnceInv'
  <2>0. PICK m : m = Head(work[g])
    OBVIOUS
  <2>1. /\ work[g] # <<>> /\ work' = [work EXCEPT ![g] = Tail(work[g])]
        /\ UNCHANGED <<msgCh, buffer, sent>>
        /\ \/ handled' = Append(handled, m) /\ UNCHANGED lost
           \/ handled' = handled /\ lost' = lost \cup {<<m, "cancelled">>}
    BY <1>4, <2>0 DEF Handle, IInv, GateInv
  <2>2. m \in Msg /\ m \in Pending /\ Pending' = Pending \ {m}
    BY <2>0, <2>1, HeadLeaves
  <2>3. m \notin Collected(handled) /\ Reasons(m) = {} /\ m <= sent
    BY <1>01, <2>2 DEF OnceInv, Somewhere
  <2>4. CASE handled' = Append(handled, m) /\ UNCHANGED lost
    <3>1. Collected(handled') = Collected(handled) \cup {m}
      BY <1>0, <2>2, <2>4, AppendHolds
    <3>2. \A n : Reasons(n)' = Reasons(n)
      BY <2>4 DEF Reasons
    <3>3. \A n \in Msg : Somewhere(n)' => Somewhere(n)
      BY <2>2, <3>1, <3>2 DEF Somewhere
    <3>4. ASSUME NEW i \in DOMAIN handled', NEW j \in DOMAIN handled', handled'[i] = handled'[j]
          PROVE  i = j
      <4>1. \A k \in DOMAIN handled : handled[k] # m
        BY <2>3 DEF Collected
      <4>2. \A k \in DOMAIN handled' : \/ k \in DOMAIN handled /\ handled'[k] = handled[k]
                                       \/ k = Len(handled) + 1 /\ handled'[k] = m
        BY <1>0, <2>2, <2>4
      <4> QED
        BY <1>01, <3>4, <4>1, <4>2 DEF OnceInv
    <3> QED
      BY <1>01, <2>1, <2>2, <2>3, <3>1, <3>2, <3>3, <3>4 DEF OnceInv
  <2>5. CASE handled' = handled /\ lost' = lost \cup {<<m, "cancelled">>}
    <3>1. Reasons(m)' = {"cancelled"} /\ \A n \in Msg : n # m => Reasons(n)' = Reasons(n)
      BY <2>3, <2>5, LoseOne DEF Lost
    <3>2. \A n \in Msg : Somewhere(n)' => Somewhere(n)
      BY <2>2, <2>5, <3>1 DEF Somewhere
    <3> QED
      BY <1>01, <2>1, <2>2, <2>3, <2>5, <3>1, <3>2 DEF OnceInv
  <2> QED
    BY <2>1, <2>4, <2>5
<1>5. ASSUME NEW g \in Goroutine, ~gate, CompleteWarmup(g) PROVE OnceInv'
  <2>1. /\ work' = [work EXCEPT ![g] = buffer \o work[g]] /\ buffer' = <<>>
        /\ UNCHANGED <<sent, msgCh, handled, lost>>
    BY <1>5 DEF CompleteWarmup
  <2>2. Collected(buffer \o work[g]) = Collected(buffer) \cup Collected(work[g])
    BY <1>0, ConcatHolds
  <2>3. \A h \in Goroutine : Collected(work'[h]) \subseteq Collected(work[h]) \cup Collected(buffer)
    BY <1>0, <2>1, <2>2
  <2>4. Pending' \subseteq Pending
    BY <2>1, <2>3, NoneHeld DEF Pending
  <2> QED
    BY <1>01, <2>1, <2>4, FewerPending
<1>6. CASE Exit
  <2>1. /\ msgCh' = <<>> /\ buffer' = <<>> /\ \A g \in Goroutine : work'[g] = <<>>
        /\ UNCHANGED <<sent, handled>>
    BY <1>6 DEF Exit
  <2>2. Pending' = {}
    BY <2>1, NoneHeld DEF Pending
  <2>3. \A m \in Msg : Reasons(m)' = IF m \in Pending THEN Reasons(m) \cup {"exit"} ELSE Reasons(m)
    BY <1>6 DEF Exit, Reasons, Lost
  <2>4. \A m \in Msg : Somewhere(m)' => Somewhere(m)
    BY <2>1, <2>2, <2>3 DEF Somewhere
  <2> QED
    BY <1>01, <2>1, <2>2, <2>3, <2>4 DEF OnceInv
<1>7. CASE Quiet
  BY <1>7, QuietSteps DEF IInv
<1> QED
  BY <1>1, <1>2, <1>3, <1>4, <1>5, <1>6, <1>7, Moves

-----------------------------------------------------------------------------
(* The order in which calls are handled.                                   *)

\* Once the timer has opened the gate nothing takes that back.
LEMMA OpenerStays ==
  ASSUME IInv, [Next]_vars, opener = "timer"
  PROVE  opener' = "timer"
<1>1. gate /\ phase # "connecting"
  BY DEF IInv, GateInv
<1>2. ASSUME NEW g \in Goroutine, Goes(g) PROVE opener' = opener
  BY <1>1, <1>2 DEF Goes, NextReplayed, ReadGate, BufferUnlessOpen, Handle, CompleteWarmup
<1> QED
  BY <1>1, <1>2 DEF Next, Receive, TakeMessage, WarmupTimeout, BatcherGoes, Start, StopPipeline,
     Cancel, Exit, vars, ingestVars

LEMMA CallsStep == IInv /\ [Next]_vars => CallsInv'
<1> SUFFICES ASSUME IInv, [Next]_vars, opener' # "timer"
             PROVE  /\ work'["timer"] = <<>>
                    /\ \A i, j \in DOMAIN handled' : CallsBefore(i, j)' => handled'[i] < handled'[j]
                    /\ \A m \in Collected(handled'), n \in Way("loop")' : Traffic[m] = "call" => m < n
  BY DEF CallsInv
<1>0. /\ work \in [Goroutine -> Seq(Msg)] /\ msgCh \in Seq(Msg) /\ buffer \in Seq(Msg)
      /\ handled \in Seq(Msg) /\ Goroutine = {"loop", "timer"} /\ Msg \subseteq Nat
  BY MsgIs DEF IInv, IngestTypeOK, Goroutine
<1>01. /\ work["timer"] = <<>>
       /\ \A i, j \in DOMAIN handled : CallsBefore(i, j) => handled[i] < handled[j]
       /\ \A m \in Collected(handled), n \in Way("loop") : Traffic[m] = "call" => m < n
  BY OpenerStays DEF IInv, CallsInv
<1>02. ASSUME UNCHANGED handled, work'["timer"] = <<>>,
              \A m \in Collected(handled), n \in Way("loop")' : Traffic[m] = "call" => m < n
       PROVE  /\ work'["timer"] = <<>>
              /\ \A i, j \in DOMAIN handled' : CallsBefore(i, j)' => handled'[i] < handled'[j]
              /\ \A m \in Collected(handled'), n \in Way("loop")' : Traffic[m] = "call" => m < n
  BY <1>01, <1>02 DEF CallsBefore
<1>1. CASE UNCHANGED <<handled, work>>
  BY <1>01, <1>02, <1>1 DEF Way
<1>2. CASE TakeMessage
  <2> DEFINE h == Head(msgCh)
  <2>1. /\ msgCh # <<>> /\ UNCHANGED handled
        /\ \/ UNCHANGED work
           \/ work' = [work EXCEPT !["loop"] = <<h>>]
    BY <1>2 DEF TakeMessage
  <2>2. h \in Collected(msgCh) /\ Collected(<<h>>) = {h}
    BY <1>0, <2>1, TailHolds DEF Collected
  <2>3. work'["timer"] = <<>> /\ Way("loop")' \subseteq Way("loop") \cup {h}
    BY <1>0, <1>01, <2>1, <2>2 DEF Way
  <2>4. \A m \in Collected(handled) : m < h
    BY <2>2 DEF IInv, OrderInv, Before
  <2> QED
    BY <1>01, <1>02, <2>1, <2>3, <2>4
<1>3. CASE ~gate /\ BufferUnlessOpen("loop")
  <2>1. /\ work["loop"] # <<>> /\ work' = [work EXCEPT !["loop"] = Tail(work["loop"])]
        /\ UNCHANGED handled
    BY <1>0, <1>3 DEF BufferUnlessOpen, IInv, GateInv
  <2>2. work'["timer"] = <<>> /\ Way("loop")' \subseteq Way("loop")
    BY <1>0, <1>01, <2>1, TailHolds DEF Way
  <2> QED
    BY <1>01, <1>02, <2>1, <2>2
<1>4. ASSUME NEW g \in Goroutine, Handle(g)
      PROVE  /\ work'["timer"] = <<>>
             /\ \A i, j \in DOMAIN handled' : CallsBefore(i, j)' => handled'[i] < handled'[j]
             /\ \A m \in Collected(handled'), n \in Way("loop")' : Traffic[m] = "call" => m < n
  <2> DEFINE c == Head(work[g])
  <2>1. /\ work[g] # <<>> /\ work' = [work EXCEPT ![g] = Tail(work[g])]
        /\ UNCHANGED <<msgCh, buffer>>
        /\ handled' = handled \/ handled' = Append(handled, c)
    BY <1>4 DEF Handle, IInv, GateInv
  <2>2. g = "loop"
    BY <1>0, <1>01, <2>1
  <2>3. /\ c \in Msg /\ Way("loop")' \subseteq Way("loop")
        /\ \A x \in Way("loop")' : c < x
    BY <2>1, <2>2, HeadLeaves
  <2>4. c \in Way("loop") /\ work'["timer"] = <<>>
    BY <1>0, <1>01, <2>1, <2>2, TailHolds DEF Way
  <2>5. CASE handled' = handled
    BY <1>01, <1>02, <2>3, <2>4, <2>5
  <2>6. CASE handled' = Append(handled, c)
    <3>1. Collected(handled') = Collected(handled) \cup {c}
      BY <1>0, <2>3, <2>6, AppendHolds
    <3>2. ASSUME NEW i \in DOMAIN handled', NEW j \in DOMAIN handled', CallsBefore(i, j)'
          PROVE  handled'[i] < handled'[j]
      <4>1. /\ i \in DOMAIN handled /\ handled'[i] = handled[i] /\ i < j
            /\ Traffic[handled[i]] = "call" /\ Traffic[handled'[j]] = "call"
        BY <1>0, <2>3, <2>6, <3>2 DEF CallsBefore
      <4>2. CASE j \in DOMAIN handled
        <5>1. handled'[j] = handled[j]
          BY <1>0, <2>3, <2>6, <4>2
        <5> QED
          BY <1>01, <4>1, <4>2, <5>1 DEF CallsBefore
      <4>3. CASE j \notin DOMAIN handled
        <5>1. handled'[j] = c
          BY <1>0, <2>3, <2>6, <4>3
        <5>2. handled[i] \in Collected(handled)
          BY <4>1 DEF Collected
        <5> QED
          BY <1>01, <2>4, <4>1, <5>1, <5>2
      <4> QED
        BY <4>2, <4>3
    <3>3. \A m \in Collected(handled'), n \in Way("loop")' : Traffic[m] = "call" => m < n
      BY <1>01, <2>3, <3>1
    <3> QED
      BY <2>4, <3>2, <3>3
  <2> QED
    BY <2>1, <2>5, <2>6
<1>5. ASSUME NEW g \in Goroutine, ~gate, CompleteWarmup(g)
      PROVE  /\ work'["timer"] = <<>>
             /\ \A i, j \in DOMAIN handled' : CallsBefore(i, j)' => handled'[i] < handled'[j]
             /\ \A m \in Collected(handled'), n \in Way("loop")' : Traffic[m] = "call" => m < n
  <2>1. /\ opener' = g /\ work' = [work EXCEPT ![g] = buffer \o work[g]] /\ UNCHANGED handled
    BY <1>5 DEF CompleteWarmup
  <2>2. g = "loop" /\ work'["timer"] = <<>>
    BY <1>0, <1>01, <2>1
  <2>3. \A m \in Collected(handled) : Traffic[m] # "call"
    BY <1>5 DEF IInv, GateInv
  <2> QED
    BY <1>02, <2>1, <2>2, <2>3
<1>6. CASE Exit
  <2>1. UNCHANGED handled /\ \A g \in Goroutine : work'[g] = <<>>
    BY <1>6 DEF Exit
  <2>2. work'["timer"] = <<>> /\ Way("loop")' = {}
    BY <1>0, <2>1, NoneHeld DEF Way
  <2> QED
    BY <1>02, <2>1, <2>2
<1> QED
  BY <1>1, <1>2, <1>3, <1>4, <1>5, <1>6, Moves DEF Quiet, Receive

-----------------------------------------------------------------------------
(* The theorems.                                                           *)

LEMMA IInvInit == Init => IInv
BY TypeInit, GateInit DEF IInv

LEMMA IInvStep == IInv /\ [Next]_vars => IInv'
BY TypeStep, GateStep, OrderStep, OnceStep, CallsStep DEF IInv

LEMMA AlwaysIInv == Spec => []IInv
BY IInvInit, IInvStep, PTL DEF Spec

\* The pipeline uses its batcher only in the ways batcher.go allows: every behaviour of
\* it is, seen from the raw archive's batcher, a behaviour of BatcherSpec.
THEOREM IngestUsesBatcher == Spec => BatcherSpec
<1>1. Init => BatcherInit
  BY DEF Init
<1>2. IInv => IngestTypeOK
  BY DEF IInv
<1> QED
  BY AlwaysIInv, BatcherSteps, <1>1, <1>2, PTL DEF Spec, BatcherSpec

\* The variables keep to their types, the queue to its capacity.
THEOREM IngestTyped == Spec => []TypeOK
<1>1. BatcherInv /\ IInv => TypeOK
  BY DEF BatcherInv, IInv, TypeOK
<1> QED
  BY IngestUsesBatcher, AlwaysIInv, BatcherInitInv, BatcherStep, <1>1, PTL DEF BatcherSpec

\* So no message archived by HandleMessage is dropped or written twice by the raw
\* archive's batcher, whatever else the pipeline does at the time, Stop included.
THEOREM ArchiveKeepsRows == Spec => []RowsReachTheirBatch
BY IngestUsesBatcher, BatcherKeepsRows, PTL DEF RowsReachTheirBatch

\* However the dispatch loop's two reads of warmupDone and the timer's completeWarmup
\* fall, each message received waits in one place, was handled once, or was lost for one
\* reason (pipeline.go dispatch, completeWarmup).
THEOREM MessagesHandledOnce == Spec => []HandledOnce
<1>1. ASSUME IInv PROVE HandledOnce
  <2> SUFFICES ASSUME NEW m \in Msg
               PROVE  /\ Cardinality(Positions(m)) + Cardinality(Reasons(m)) <= 1
                      /\ m \in Pending => Positions(m) = {} /\ Reasons(m) = {}
    BY DEF HandledOnce
  <2>0. OnceInv
    BY <1>1 DEF IInv
  <2>1. m \in Collected(handled) <=> Positions(m) # {}
    BY DEF Collected, Positions
  <2>2. Positions(m) = {} \/ \E i : Positions(m) = {i}
    BY <2>0 DEF OnceInv, Positions
  <2>3. Reasons(m) = {} \/ \E r : Reasons(m) = {r}
    <3>1. \A x, y \in Reasons(m) : x = y
      BY <2>0 DEF OnceInv
    <3> QED
      BY <3>1
  <2>4. Positions(m) = {} \/ Reasons(m) = {}
    BY <2>0, <2>1 DEF OnceInv
  <2>5. Cardinality({}) = 0 /\ \A x : Cardinality({x}) = 1
    BY FS_EmptySet, FS_Singleton
  <2>6. Cardinality(Positions(m)) \in {0, 1} /\ (Positions(m) = {} => Cardinality(Positions(m)) = 0)
    BY <2>2, <2>5
  <2>7. Cardinality(Reasons(m)) \in {0, 1} /\ (Reasons(m) = {} => Cardinality(Reasons(m)) = 0)
    BY <2>3, <2>5
  <2>8. Cardinality(Positions(m)) + Cardinality(Reasons(m)) <= 1
    BY ONLY <2>4, <2>6, <2>7
  <2> QED
    BY <2>0, <2>1, <2>8 DEF OnceInv
<1> QED
  BY AlwaysIInv, <1>1, PTL

\* No message stays in the warmup buffer once the gate is open: the mutex and the second
\* read of warmupDone under it leave no interleaving in which one is put there late.
THEOREM NoneStranded == Spec => []NothingStranded
<1>1. IInv => NothingStranded
  BY DEF IInv, GateInv, NothingStranded
<1> QED
  BY AlwaysIInv, <1>1, PTL

\* Unless the timer opened the gate, calls are handled in the order in which the broker
\* sent them, through the buffer's replay and around it.
THEOREM CallsInOrder == Spec => []OrderKept
<1>1. IInv => OrderKept
  BY DEF IInv, CallsInv, OrderKept
<1> QED
  BY AlwaysIInv, <1>1, PTL

\* All that the run checks of a message on its way, for every value of the constants.
THEOREM MessagesAreKept == Spec => []HandledInOrder
BY IngestTyped, MessagesHandledOnce, NoneStranded, CallsInOrder, PTL DEF HandledInOrder
=============================================================================
