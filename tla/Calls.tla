------------------------------- MODULE Calls -------------------------------
(***************************************************************************)
(* The life of a call record (internal/ingest/handler_calls.go,            *)
(* handler_audio.go, activeCallMap in pipeline.go).  Of one transmission   *)
(* trunk-recorder sends call_start, call_end and the audio, in messages    *)
(* that may be lost and overtake each other (client.go:67), lists it in    *)
(* calls_active while it is on the air, and writes a file that the watcher *)
(* or an upload brings in from another goroutine.  Whichever comes first   *)
(* inserts the row; the others have to find it, by the id trunk-recorder   *)
(* gave the call or by talkgroup and a start time that trunk-recorder may  *)
(* have adjusted in between.                                               *)
(*                                                                         *)
(* One system.  Talkgroups, units, call groups and published events, which *)
(* the handlers write beside the row, do not change what is found.         *)
(***************************************************************************)
EXTENDS Integers, FiniteSets, FiniteSetsExt, SequencesExt, Functions

CONSTANTS
  Txs,           \* transmissions
  Plans,         \* what may be transmitted: of each its talkgroup, its start in
                 \* seconds, the start as call_end and audio correct it, the
                 \* trunk-recorder instance that hears it, and whether its file
                 \* is watched or uploaded; and how often the process restarts
  Window         \* tolerance of the lookups by time

ASSUME InputsAssumption ==
  /\ \A p \in Plans : p.restarts \in Nat /\ \A t \in Txs :
       /\ p.air[t].tgid \in Nat \ {0} /\ p.air[t].start \in Nat /\ p.air[t].final \in Nat
       /\ p.air[t].filed \in BOOLEAN
  /\ Window \in Nat

VARIABLES
  plan,          \* what is transmitted
  radio,         \* "silent", "on air" or "over"
  inbox,         \* messages sent and not handled: late or lost
  snapshot,      \* the calls_active message sent last, until it is handled
  mqtt,          \* where the goroutine that handles the messages is
  watcher,       \* where the one that handles files is
  filed,         \* the files that have been handled
  rows,          \* the calls table, in order of insertion
  active,        \* p.activeCalls
  restarts,      \* how often the process has restarted
  startLate,     \* history: transmissions whose call_start came after call_end
  wronged        \* history: those ended by a calls_active taken while they
                 \* were on the air

radioVars == <<plan, radio>>
vars == <<radioVars, inbox, snapshot, mqtt, watcher, filed, rows, active, restarts,
          startLate, wronged>>

Idle == [pc |-> "idle"]
None == [from |-> "none"]
NoId == <<0, 0>>

Init ==
  /\ plan \in Plans
  /\ radio = [t \in Txs |-> "silent"]
  /\ inbox = {} /\ snapshot = None /\ mqtt = Idle /\ watcher = Idle /\ filed = {}
  /\ rows = <<>> /\ active = << >> /\ restarts = 0 /\ startLate = {} /\ wronged = {}

-----------------------------------------------------------------------------
(* trunk-recorder: the environment                                         *)

\* The id embeds the start, as it is known when the message is sent.
Tgid(t)     == plan.air[t].tgid
StartAt(t)  == plan.air[t].start
FinalAt(t)  == plan.air[t].final
Instance(t) == plan.air[t].instance
Filed       == {t \in Txs : plan.air[t].filed}
StartId(t)  == <<Tgid(t), StartAt(t)>>
EndId(t)    == <<Tgid(t), FinalAt(t)>>
OnAir       == {t \in Txs : radio[t] = "on air"}

Transmit(t) ==
  /\ radio[t] = "silent"
  /\ \A u \in Txs : Tgid(u) = Tgid(t) /\ StartAt(u) < StartAt(t) => radio[u] = "over"
  /\ radio' = [radio EXCEPT ![t] = "on air"]
  /\ inbox' = inbox \cup {[kind |-> "start", tx |-> t]}
  /\ UNCHANGED <<plan, snapshot, mqtt, watcher, filed, rows, active, restarts,
                 startLate, wronged>>

EndOfTransmission(t) ==
  /\ radio[t] = "on air"
  /\ radio' = [radio EXCEPT ![t] = "over"]
  /\ inbox' = inbox \cup {[kind |-> "end", tx |-> t], [kind |-> "audio", tx |-> t]}
  /\ UNCHANGED <<plan, snapshot, mqtt, watcher, filed, rows, active, restarts,
                 startLate, wronged>>

\* calls_active of one instance: the calls it has on the air.  The one before
\* may not have been handled: then it is lost.
ReportActive(i) ==
  /\ snapshot' = [from |-> i, ids |-> {StartId(t) : t \in {u \in OnAir : Instance(u) = i}},
                  onAir |-> OnAir]
  /\ UNCHANGED <<radioVars, inbox, mqtt, watcher, filed, rows, active, restarts,
                 startLate, wronged>>

-----------------------------------------------------------------------------
(* Lookups                                                                 *)

Dist(a, b) == IF a < b THEN b - a ELSE a - b

\* Mutant: only the very same start.
FindExact(tgid, at) == {r \in DOMAIN rows : rows[r].tgid = tgid /\ rows[r].start = at}

\* FindCallForAudio: the rows it may return.
FindCallForAudio(tgid, at) ==
  LET near == {r \in DOMAIN rows : rows[r].tgid = tgid /\ Dist(rows[r].start, at) <= Window}
  IN {r \in near : \A s \in near : Dist(rows[r].start, at) <= Dist(rows[s].start, at)}

\* FindCallByTrCallID: of the rows with this id the one that starts last.
FindCallByTrCallID(id, at) ==
  LET known == {r \in DOMAIN rows : rows[r].id = id /\ Dist(rows[r].start, at) <= 30}
  IN {r \in known : \A s \in known : rows[s].start <= rows[r].start}

\* Mutant: the talkgroup is not compared.
FindByTime(tgid, at) == {k \in DOMAIN active : Dist(active[k].start, at) <= Window}

\* FindByTgidAndTime: calls that started before or at the time come first,
\* then the closest.
FindByTgidAndTime(tgid, at) ==
  LET near  == {k \in DOMAIN active : active[k].tgid = tgid /\ Dist(active[k].start, at) <= Window}
      first == {k \in near : active[k].start <= at}
      best  == IF first # {} THEN first ELSE near
  IN {k \in best : \A j \in best : Dist(active[k].start, at) <= Dist(active[j].start, at)}

-----------------------------------------------------------------------------
(* Statements                                                              *)

\* InsertCall.  seen: how many rows there were when the handler last looked.
InsertCall(t, at, id, end, seen) ==
  rows' = Append(rows, [tgid |-> Tgid(t), start |-> at, id |-> id, end |-> end,
                        full |-> end = "full", by |-> {t}, seen |-> seen])

\* UpdateCallEnd with what call_end says.
UpdateCallEnd(r, t) ==
  rows' = [rows EXCEPT ![r].end = "full", ![r].full = TRUE, ![r].by = @ \cup {t}]

\* UpdateCallAudio, UpdateCallFilename and the source lists.
UpdateCallAudio(r, t) == rows' = [rows EXCEPT ![r].by = @ \cup {t}]

\* Mutant: the entry keeps the time of the message, not of the row it found.
TrackMessage(t, r) ==
  active' = [k \in DOMAIN active \cup {StartId(t)} |->
               IF k = StartId(t) THEN [row |-> r, tgid |-> Tgid(t), start |-> StartAt(t)]
               ELSE active[k]]

\* activeCalls.Set.
Track(t, r) ==
  active' = [k \in DOMAIN active \cup {StartId(t)} |->
               IF k = StartId(t) THEN [row |-> r, tgid |-> Tgid(t), start |-> rows'[r].start]
               ELSE active[k]]

Untrack(keys) == active' = Restrict(active, DOMAIN active \ keys)

-----------------------------------------------------------------------------
(* The handlers of the MQTT messages, one message at a time                *)

Take(kind, t) ==
  /\ mqtt = Idle
  /\ [kind |-> kind, tx |-> t] \in inbox
  /\ inbox' = inbox \ {[kind |-> kind, tx |-> t]}
  /\ UNCHANGED <<radioVars, snapshot, watcher, filed, restarts, wronged>>

\* A step of the handler of t's message: it has not looked at the inbox again.
Go(pc, t) ==
  /\ mqtt.pc = pc /\ mqtt.tx = t
  /\ UNCHANGED <<radioVars, inbox, snapshot, watcher, filed, restarts, wronged>>

Done        == mqtt' = Idle
GoOn(pc, t) == mqtt' = [pc |-> pc, tx |-> t, seen |-> Len(rows)]

CallStart(t) ==
  /\ Take("start", t)
  /\ startLate' = IF \E r \in DOMAIN rows : t \in rows[r].by /\ rows[r].full
                  THEN startLate \cup {t} ELSE startLate
  /\ LET found == FindCallForAudio(Tgid(t), StartAt(t)) IN
       \/ StartId(t) \in DOMAIN active /\ Done /\ UNCHANGED <<rows, active>>
       \/ /\ StartId(t) \notin DOMAIN active
          /\ \E r \in found :
               \* UpdateCallStartFields may fail
               /\ \/ rows' = [rows EXCEPT ![r].id = StartId(t), ![r].by = @ \cup {t}]
                  \/ UNCHANGED rows
               /\ Track(t, r)
          /\ Done
       \/ /\ StartId(t) \notin DOMAIN active /\ found = {}
          /\ GoOn("start insert", t) /\ UNCHANGED <<rows, active>>

CallStartInsert(t) ==
  /\ Go("start insert", t)
  /\ InsertCall(t, StartAt(t), StartId(t), "open", mqtt.seen)
  /\ Track(t, Len(rows) + 1)
  /\ Done /\ UNCHANGED startLate

\* Mutant: deletes the id of the message, not the one that matched.
CallEndKeepsKey(t) ==
  /\ Take("end", t)
  /\ UNCHANGED startLate
  /\ LET keys == IF EndId(t) \in DOMAIN active THEN {EndId(t)}
                 ELSE FindByTgidAndTime(Tgid(t), FinalAt(t))
         known == FindCallByTrCallID(EndId(t), FinalAt(t))
         found == IF known # {} THEN known ELSE FindCallForAudio(Tgid(t), FinalAt(t))
     IN \/ \E k \in keys : UpdateCallEnd(active[k].row, t) /\ Untrack({EndId(t)}) /\ Done
        \/ /\ keys = {} /\ \E r \in found : UpdateCallEnd(r, t)
           /\ Done /\ UNCHANGED active
        \/ /\ keys = {} /\ found = {}
           /\ GoOn("end retry", t) /\ UNCHANGED <<rows, active>>

CallEnd(t) ==
  /\ Take("end", t)
  /\ UNCHANGED startLate
  /\ LET keys == IF EndId(t) \in DOMAIN active THEN {EndId(t)}
                 ELSE FindByTgidAndTime(Tgid(t), FinalAt(t))
         known == FindCallByTrCallID(EndId(t), FinalAt(t))
         found == IF known # {} THEN known ELSE FindCallForAudio(Tgid(t), FinalAt(t))
     IN \/ \E k \in keys : UpdateCallEnd(active[k].row, t) /\ Untrack({k}) /\ Done
        \/ /\ keys = {} /\ \E r \in found : UpdateCallEnd(r, t)
           /\ Done /\ UNCHANGED active
        \/ /\ keys = {} /\ found = {}
           /\ GoOn("end retry", t) /\ UNCHANGED <<rows, active>>

\* handleCallStartFromEnd looks again before it inserts.
CallEndRetry(t) ==
  /\ Go("end retry", t)
  /\ LET found == FindCallForAudio(Tgid(t), FinalAt(t)) IN
       \/ \E r \in found : UpdateCallEnd(r, t) /\ Done
       \/ found = {} /\ GoOn("end insert", t) /\ UNCHANGED rows
  /\ UNCHANGED <<active, startLate>>

CallEndInsert(t) ==
  /\ Go("end insert", t)
  /\ InsertCall(t, FinalAt(t), EndId(t), "full", mqtt.seen)
  /\ Done /\ UNCHANGED <<active, startLate>>

Audio(t) ==
  /\ Take("audio", t)
  /\ LET found == FindCallForAudio(Tgid(t), FinalAt(t)) IN
       \/ \E r \in found : UpdateCallAudio(r, t) /\ Done
       \/ found = {} /\ GoOn("audio retry", t) /\ UNCHANGED rows
  /\ UNCHANGED <<active, startLate>>

\* createCallFromAudio looks again before it inserts.
AudioRetry(t) ==
  /\ Go("audio retry", t)
  /\ LET found == FindCallForAudio(Tgid(t), FinalAt(t)) IN
       \/ \E r \in found : UpdateCallAudio(r, t) /\ Done
       \/ found = {} /\ GoOn("audio insert", t) /\ UNCHANGED rows
  /\ UNCHANGED <<active, startLate>>

AudioInsert(t) ==
  /\ Go("audio insert", t)
  /\ InsertCall(t, FinalAt(t), NoId, "audio", mqtt.seen)
  /\ Done /\ UNCHANGED <<active, startLate>>

\* Mutant: it leaves the entry of a call it ended.
CallsActiveKeeps ==
  /\ mqtt = Idle /\ snapshot # None
  /\ LET gone == {active[k].row : k \in DOMAIN active \ snapshot.ids}
     IN rows' = [r \in DOMAIN rows |->
                   IF r \in gone THEN [rows[r] EXCEPT !.end = "estimated"] ELSE rows[r]]
  /\ snapshot' = None
  /\ UNCHANGED <<radioVars, inbox, mqtt, watcher, filed, active, restarts, startLate, wronged>>

\* Calls that vanished get an estimated end, which a failing statement may keep
\* from the row.  The elapsed time of the others is not modelled.
CallsActive ==
  /\ mqtt = Idle /\ snapshot # None
  /\ LET gone == DOMAIN active \ snapshot.ids IN
       /\ \E written \in SUBSET gone :
            rows' = [r \in DOMAIN rows |->
                       IF r \in {active[k].row : k \in written}
                       THEN [rows[r] EXCEPT !.end = "estimated"] ELSE rows[r]]
       /\ Untrack(gone)
       /\ wronged' = wronged \cup {t \in snapshot.onAir : StartId(t) \in gone}
  /\ snapshot' = None
  /\ UNCHANGED <<radioVars, inbox, mqtt, watcher, filed, restarts, startLate>>

\* A statement fails or times out in the middle of a handler.
Abandon ==
  /\ mqtt # Idle /\ Done
  /\ UNCHANGED <<radioVars, inbox, snapshot, watcher, filed, rows, active, restarts,
                 startLate, wronged>>

-----------------------------------------------------------------------------
(* A file, watched or uploaded: another goroutine                          *)

FileVars == <<radioVars, inbox, snapshot, mqtt, active, restarts, startLate, wronged>>

\* An existing call is left alone.
File(t) ==
  /\ watcher = Idle /\ t \in Filed \ filed /\ radio[t] = "over"
  /\ filed' = filed \cup {t}
  /\ IF FindCallForAudio(Tgid(t), FinalAt(t)) # {} THEN UNCHANGED watcher
     ELSE watcher' = [pc |-> "retry", tx |-> t]
  /\ UNCHANGED <<rows, FileVars>>

FileRetry(t) ==
  /\ watcher = [pc |-> "retry", tx |-> t]
  /\ LET found == FindCallForAudio(Tgid(t), FinalAt(t)) IN
       \/ \E r \in found : UpdateCallAudio(r, t) /\ watcher' = Idle
       \/ /\ found = {} /\ watcher' = [pc |-> "insert", tx |-> t, seen |-> Len(rows)]
          /\ UNCHANGED rows
  /\ UNCHANGED <<filed, FileVars>>

FileInsert(t) ==
  /\ watcher # Idle /\ watcher.pc = "insert" /\ watcher.tx = t
  /\ InsertCall(t, FinalAt(t), NoId, "audio", watcher.seen)
  /\ watcher' = Idle
  /\ UNCHANGED <<filed, FileVars>>

FileFails ==
  /\ watcher # Idle /\ watcher' = Idle
  /\ UNCHANGED <<rows, filed, FileVars>>

\* The map of active calls is in memory; the watcher goes over all files again.
Restart ==
  /\ restarts < plan.restarts /\ restarts' = restarts + 1
  /\ mqtt' = Idle /\ watcher' = Idle /\ active' = << >> /\ filed' = {}
  /\ snapshot' = None
  /\ UNCHANGED <<radioVars, inbox, rows, startLate, wronged>>

-----------------------------------------------------------------------------
Radio    == \E t \in Txs : Transmit(t) \/ EndOfTransmission(t)
Report   == \E i \in {Instance(t) : t \in Txs} : ReportActive(i)
Handle(t) ==
  \/ CallStart(t) \/ CallStartInsert(t)
  \/ CallEnd(t) \/ CallEndRetry(t) \/ CallEndInsert(t)
  \/ Audio(t) \/ AudioRetry(t) \/ AudioInsert(t)
Files(t) == File(t) \/ FileRetry(t) \/ FileInsert(t)

Next ==
  \/ Radio \/ Report
  \/ \E t \in Txs : Handle(t) \/ Files(t)
  \/ CallsActive \/ Abandon \/ FileFails \/ Restart

\* Every transmission ends, calls_active keeps coming and is not always lost,
\* and a handler that has begun returns.  Nothing says that call_start, call_end
\* or audio are handled: a message that stays in the inbox is one that is lost on
\* its way, refused by the full queue, or whose handler fails at once.
Fairness ==
  /\ \A t \in Txs : WF_vars(EndOfTransmission(t))
  /\ WF_vars(Report) /\ SF_vars(CallsActive)
  /\ WF_vars(mqtt # Idle /\ \E t \in Txs : Handle(t))

Spec == Init /\ [][Next]_vars
FairSpec == Spec /\ Fairness

-----------------------------------------------------------------------------
Ids == {NoId} \cup {StartId(t) : t \in Txs} \cup {EndId(t) : t \in Txs}

TypeOK ==
  /\ plan \in Plans /\ radio \in [Txs -> {"silent", "on air", "over"}]
  /\ inbox \subseteq [kind : {"start", "end", "audio"}, tx : Txs]
  /\ snapshot = None \/ snapshot.ids \subseteq Ids
  /\ mqtt.pc \in {"idle", "start insert", "end retry", "end insert", "audio retry", "audio insert"}
  /\ watcher.pc \in {"idle", "retry", "insert"}
  /\ filed \subseteq Filed /\ restarts \in 0..plan.restarts
  /\ rows \in Seq([tgid : Nat, start : Nat, id : Ids, full : BOOLEAN, by : SUBSET Txs, seen : Nat,
                   end : {"open", "estimated", "audio", "full"}])
  /\ DOMAIN active \subseteq Ids
  /\ startLate \subseteq Txs /\ wronged \subseteq Txs

\* A row is about one transmission: no handler takes another call's row for
\* its own, whatever is lost, late or corrected (pipeline.go:1625-1628).
RowsNotMixed == \A r \in DOMAIN rows : Cardinality(rows[r].by) = 1

\* The list of live calls points at rows of those calls, at the start they
\* have there, which is half of the key the updates use.
ActiveIsOwn ==
  \A t \in Txs : StartId(t) \in DOMAIN active =>
    LET e == active[StartId(t)] IN
      /\ e.row \in DOMAIN rows
      /\ rows[e.row].start = e.start /\ rows[e.row].tgid = e.tgid
      /\ t \in rows[e.row].by \/ \A u \in rows[e.row].by : u = t

\* Every state is well typed, and the list of live calls is right (handler_calls.go).
LiveCallsAreOwn == TypeOK /\ ActiveIsOwn

\* A transmission has a second row only if both handlers looked before either
\* inserted (handler_audio.go:146-151).
SecondRowRaced ==
  \A r, s \in DOMAIN rows :
    r < s /\ rows[r].by \cap rows[s].by # {} => rows[s].seen < r

\* A row that has what call_end said keeps it: calls_active does not put an
\* estimate over it, unless call_start came only after call_end.
FullEndKept ==
  \A r \in DOMAIN rows : rows[r].full /\ rows[r].by \cap startLate = {} => rows[r].end = "full"

\* No call stays in the list of live calls for ever, whether its call_end is
\* lost, late or under another id (handler_calls.go:662-664).
CallsDoNotHang ==
  \A t \in Txs : StartId(t) \in DOMAIN active ~> StartId(t) \notin DOMAIN active

\* Only calls that have ended are closed because a calls_active does not list
\* them (handler_calls.go:663-664).
NoLiveCallClosed == wronged = {}
=============================================================================
