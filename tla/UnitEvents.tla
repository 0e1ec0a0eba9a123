----------------------------- MODULE UnitEvents -----------------------------
(***************************************************************************)
(* The events of one unit (internal/ingest/handler_units.go): every site   *)
(* of a system reports them, the first report is stored and the others are *)
(* dropped as duplicates, and each moves the unit in the map of            *)
(* affiliations, which a restart rebuilds from the stored events           *)
(* (pipeline.go, affiliations.go, sql/queries/unit_events.sql).            *)
(*                                                                         *)
(* "on" stands for the kinds that only count as activity.  The loop        *)
(* handles messages one at a time; beside it, after the start of a fresh   *)
(* database, the warmup buffer is replayed.                                *)
(***************************************************************************)
EXTENDS Integers, FiniteSets

CONSTANTS
  Talkgroup,
  EventType,    \* of "join", "off", "on" and Located
  Window,       \* ten seconds
  StaleAfter,   \* twenty-four hours
  Delay,        \* how late a report may be
  MaxTime, MaxEvents,
  MaxTroubles   \* failed inserts and restarts together

NoTalkgroup == "none"
Worker == {"loop", "replay"}
Located == {"call", "end", "location"}   \* the kinds that say where the unit is
Now == 0 .. MaxTime

VARIABLES
  now, sweepAt,   \* the clock, and the next tick of dedupCleanupLoop
  dedup,          \* unitEventDedup: per key the time of the accepted event
  rows,           \* unit_events
  failed,         \* events whose insert failed, or that a stop of the process left
  dropped,        \* events dropped as duplicates
  affiliation,    \* the unit's entry in the map
  at,             \* what each worker is handling
  blurred,        \* an event moved the unit without a row, out of order or with another
  newest,         \* the latest event time that moved the unit
  count, faults, restarts

vars == <<now, sweepAt, dedup, rows, failed, dropped, affiliation, at, blurred, newest, count,
          faults, restarts>>

\* A join has a talkgroup, one of Located may; that of the others is only part of the key.
Event ==
  {e \in [type : EventType, tg : Talkgroup \cup {NoTalkgroup}, ts : -Delay .. MaxTime] :
     /\ e.type = "join" => e.tg # NoTalkgroup
     /\ e.type \in {"off", "on"} => e.tg = NoTalkgroup}
Handled == [e : Event, n : 1 .. MaxEvents, at : Now, run : 0 .. MaxTroubles]
Entry == [tg : Talkgroup, status : {"affiliated", "off"}, last : -Delay .. MaxTime]
NoEntry == [tg |-> NoTalkgroup, status |-> "off", last |-> 0]
Idle == [pc |-> "idle"]

\* unitDedupKey: the time of the event and its site are not in it.
DedupKey(e) == <<e.type, e.tg>>

TypeOK ==
  /\ now \in Now /\ sweepAt \in Nat
  /\ DOMAIN dedup \subseteq EventType \X (Talkgroup \cup {NoTalkgroup})
  /\ \A k \in DOMAIN dedup : dedup[k] \in Now
  /\ rows \subseteq Handled /\ failed \subseteq Handled /\ dropped \subseteq Handled
  /\ affiliation \in Entry \cup {NoEntry}
  /\ \A w \in Worker :
       at[w] = Idle \/ (at[w].pc \in {"insert", "affiliate", "move"} /\ at[w].h \in Handled)
  /\ blurred \in BOOLEAN

Init ==
  /\ now = 0 /\ sweepAt = Window
  /\ dedup = [k \in {} |-> 0]
  /\ rows = {} /\ failed = {} /\ dropped = {}
  /\ affiliation = NoEntry
  /\ at = [w \in Worker |-> Idle]
  /\ blurred = FALSE /\ newest = -Delay - 1
  /\ count = 0 /\ faults = 0 /\ restarts = 0

-----------------------------------------------------------------------------
(* The two timers.                                                         *)

Tick ==
  /\ now < MaxTime /\ now < sweepAt
  /\ now' = now + 1
  /\ UNCHANGED <<sweepAt, dedup, rows, failed, dropped, affiliation, at, blurred, newest, count,
                 faults, restarts>>

\* A slip: every sweep empties the map.
SweepAll ==
  /\ now = sweepAt
  /\ sweepAt' = now + Window
  /\ dedup' = [k \in {} |-> 0]
  /\ UNCHANGED <<now, rows, failed, dropped, affiliation, at, blurred, newest, count, faults,
                 restarts>>

\* dedupCleanupLoop.
Sweep ==
  LET young == {k \in DOMAIN dedup : now - dedup[k] <= Window} IN
  /\ now = sweepAt
  /\ sweepAt' = now + Window
  /\ dedup' = [k \in young |-> dedup[k]]
  /\ UNCHANGED <<now, rows, failed, dropped, affiliation, at, blurred, newest, count, faults,
                 restarts>>

EvictStale ==
  /\ affiliation # NoEntry /\ affiliation.last < now - StaleAfter
  /\ affiliation' = NoEntry
  /\ UNCHANGED <<now, sweepAt, dedup, rows, failed, dropped, at, blurred, newest, count, faults,
                 restarts>>

-----------------------------------------------------------------------------
(* handleUnitEvent.                                                        *)

\* A report arrives, its identity and names are settled, and LoadOrStore says whether one
\* like it was accepted before.
LoadOrStore(w, e) ==
  LET k == DedupKey(e)
      h == [e |-> e, n |-> count + 1, at |-> now, run |-> restarts]
      dup == k \in DOMAIN dedup IN
  /\ at[w] = Idle /\ count < MaxEvents
  /\ w = "replay" => restarts = 0 /\ now = 0
  /\ e.ts \in now - Delay .. now
  /\ count' = count + 1
  /\ dedup' = [j \in DOMAIN dedup \cup {k} |-> IF dup \/ j # k THEN dedup[j] ELSE now]
  /\ dropped' = IF dup THEN dropped \cup {h} ELSE dropped
  /\ at' = [at EXCEPT ![w] = [pc |-> IF dup THEN "affiliate" ELSE "insert", h |-> h, to |-> NoEntry]]
  /\ blurred' = (blurred \/ dup \/ e.ts <= newest \/ \E v \in Worker : at[v] # Idle)
  /\ newest' = IF e.ts > newest THEN e.ts ELSE newest
  /\ UNCHANGED <<now, sweepAt, rows, failed, affiliation, faults, restarts>>

\* InsertUnitEvent.  On an error the handler returns, and the key stays in the map.
InsertUnitEvent(w) ==
  /\ at[w].pc = "insert"
  /\ \/ /\ rows' = rows \cup {at[w].h}
        /\ at' = [at EXCEPT ![w].pc = "affiliate"]
        /\ UNCHANGED <<failed, faults>>
     \/ /\ faults + restarts < MaxTroubles /\ faults' = faults + 1
        /\ failed' = failed \cup {at[w].h}
        /\ at' = [at EXCEPT ![w] = Idle]
        /\ UNCHANGED rows
  /\ UNCHANGED <<now, sweepAt, dedup, dropped, affiliation, blurred, newest, count, restarts>>

\* The map of affiliations: Get, MarkOff or UpdateActivity.  A duplicate counts too.
Affiliate(w) ==
  LET e == at[w].h.e
      known == affiliation # NoEntry IN
  /\ at[w].pc = "affiliate"
  /\ IF \/ e.type = "join"
        \/ e.type \in Located /\ e.tg # NoTalkgroup /\ known /\ affiliation.tg # e.tg
       THEN /\ at' = [at EXCEPT ![w].pc = "move",
                                ![w].to = [tg |-> e.tg, status |-> "affiliated", last |-> e.ts]]
            /\ UNCHANGED affiliation
       ELSE /\ affiliation' =
                 CASE ~known -> affiliation
                   [] known /\ e.type = "off" -> [affiliation EXCEPT !.status = "off", !.last = e.ts]
                   [] OTHER -> [affiliation EXCEPT !.last = e.ts]
            /\ at' = [at EXCEPT ![w] = Idle]
  /\ UNCHANGED <<now, sweepAt, dedup, rows, failed, dropped, blurred, newest, count, faults, restarts>>

\* Update: whatever became of the entry since Get.
Move(w) ==
  /\ at[w].pc = "move"
  /\ affiliation' = at[w].to
  /\ at' = [at EXCEPT ![w] = Idle]
  /\ UNCHANGED <<now, sweepAt, dedup, rows, failed, dropped, blurred, newest, count, faults, restarts>>

-----------------------------------------------------------------------------
(* The start.                                                              *)

Recent(r) == r.e.ts > now - StaleAfter
Joins == {r \in rows : r.e.type = "join" /\ Recent(r)}

\* LoadRecentAffiliations: something later took the unit away from the join's talkgroup.
WentOff(j) ==
  \E r \in rows :
    /\ Recent(r) /\ r.e.ts > j.e.ts
    /\ \/ r.e.type = "off"
       \/ r.e.type \in Located /\ r.e.tg # NoTalkgroup /\ r.e.tg # j.e.tg

\* The entries it may give: of the latest joins, any.
LoadRecentAffiliations ==
  IF Joins = {} THEN {NoEntry}
  ELSE {[tg |-> j.e.tg, status |-> IF WentOff(j) THEN "off" ELSE "affiliated", last |-> j.e.ts] :
          j \in {j \in Joins : \A r \in Joins : r.e.ts <= j.e.ts}}

\* The process ends and starts: the duplicates and the affiliations are in memory, and
\* an event that was to be inserted is gone.
Restart ==
  /\ faults + restarts < MaxTroubles
  /\ restarts' = restarts + 1
  /\ dedup' = [k \in {} |-> 0]
  /\ sweepAt' = now + Window
  /\ failed' = failed \cup {at[w].h : w \in {w \in Worker : at[w].pc = "insert"}}
  /\ at' = [w \in Worker |-> Idle]
  /\ affiliation' \in LoadRecentAffiliations
  /\ blurred' = (blurred \/ \E w \in Worker : at[w] # Idle)
  /\ UNCHANGED <<now, rows, dropped, newest, count, faults>>

Next ==
  \/ Tick \/ Sweep \/ EvictStale
  \/ \E w \in Worker, e \in Event : LoadOrStore(w, e)
  \/ \E w \in Worker : InsertUnitEvent(w) \/ Affiliate(w) \/ Move(w)
  \/ Restart

Spec == Init /\ [][Next]_vars

-----------------------------------------------------------------------------
\* An event dropped as a duplicate has one like it accepted at most two windows before
\* it, stored unless its insert failed: nothing else is lost.
NoneLost ==
  \A d \in dropped :
    \E r \in rows \cup failed \cup {at[w].h : w \in {w \in Worker : at[w] # Idle}} :
      r.n # d.n /\ DedupKey(r.e) = DedupKey(d.e) /\ d.at - r.at \in 0 .. 2 * Window

\* Two rows alike were accepted more than a window apart, or by two runs of the process.
NoneTwice ==
  \A r, q \in rows :
    r.n < q.n /\ r.run = q.run /\ DedupKey(r.e) = DedupKey(q.e) => q.at - r.at > Window

\* The reports of the sites count as one event each.
EventsCountOnce == NoneLost /\ NoneTwice

\* A restart gives no affiliation that the unit does not have: where the stored events
\* say it is affiliated, the map has it so.  Not so when a duplicate or a failed insert
\* left no row, or when reports were handled out of order, together, or in one second.
RestartAgrees ==
  ~blurred /\ failed = {} /\ (\A w \in Worker : at[w] = Idle) =>
    \A e \in LoadRecentAffiliations :
      e.status = "affiliated" => affiliation.tg = e.tg /\ affiliation.status = "affiliated"
=============================================================================
