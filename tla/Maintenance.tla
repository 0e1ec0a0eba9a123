----------------------------- MODULE Maintenance -----------------------------
(***************************************************************************)
(* Maintenance and its settings (internal/ingest/pipeline.go,              *)
(* internal/database/maintenance.go, config_overrides.go,                  *)
(* internal/api/admin.go, storage.go, schema.sql): a run at each start and *)
(* then daily, or when asked, creates partitions ahead of time, thins      *)
(* snapshots and purges what is older than a retention setting, which an   *)
(* administrator changes in the database and in the running process.       *)
(*                                                                         *)
(* Time is in weeks.  One setting stands for the six, which do not meet;   *)
(* one table for each kind.  The purge of calls is in module CallRecord.   *)
(***************************************************************************)
EXTENDS Integers, FiniteSets

CONSTANTS
  MonthWeeks,             \* weeks of a month
  Default,                \* the retention without a setting
  Retention,              \* what the environment and administrators set
  Request,                \* administrators' requests that are served at a time
  MaxTime, MaxRequests, MaxFaults

Month(week) == week \div MonthWeeks
Unset == 0                \* no variable in the environment, no row in config_overrides

VARIABLES
  now,
  up,        \* the process runs
  env,       \* the setting's variable in the environment
  override,  \* its row in config_overrides
  live,      \* its value in the process
  req,       \* requests under way
  asked,     \* requests so far
  run,       \* the maintenance run, and the retention it drops partitions by
  ran,       \* a run has ended this week, in this process
  months,    \* months of the monthly partitions: calls, unit_events, ...
  weeks,     \* weeks of the weekly partitions: mqtt_raw_messages
  oldest,    \* the oldest week of console_messages, plugin_statuses, ...
  thinned,   \* the weeks before which snapshots are one a minute, one an hour
  made,      \* history: months a run that worked made partitions in
  lost,      \* history: months in which a unit event found no partition
  unsure,    \* history: the database and the process may differ
  faults

setting == <<env, override, live, req, asked, unsure>>
tables == <<months, weeks, oldest, thinned, made, lost>>
vars == <<now, up, setting, run, ran, tables, faults>>

Idle == [pc |-> "idle", value |-> Unset]
Still == [pc |-> "idle", kept |-> Unset]
Value == Retention \cup {Unset}

TypeOK ==
  /\ now \in 0 .. MaxTime /\ up \in BOOLEAN
  /\ env \in Value /\ override \in Value /\ live \in Retention \cup {Default}
  /\ req \in [Request -> [pc : {"idle", "persist", "apply"}, value : Value]]
  /\ asked \in 0 .. MaxRequests
  /\ run \in [pc : {"idle", "monthly", "weekly", "thin", "purge", "drop", "dropped"},
              kept : Retention \cup {Default, Unset}]
  /\ ran \in BOOLEAN
  /\ months \subseteq Nat /\ weeks \subseteq Nat /\ oldest \in 0 .. MaxTime
  /\ thinned \in [minute : 0 .. MaxTime, hour : 0 .. MaxTime]
  /\ made \subseteq Nat /\ lost \subseteq 0 .. Month(MaxTime)
  /\ unsure \in BOOLEAN /\ faults \in 0 .. MaxFaults

\* schema.sql creates this month's partitions and the next three, and four weeks.
Init ==
  /\ now = 0 /\ up = FALSE
  /\ env \in Value /\ override = Unset /\ live = Default
  /\ req = [r \in Request |-> Idle] /\ asked = 0
  /\ run = Still /\ ran = FALSE
  /\ months = 0 .. 3 /\ weeks = 0 .. 3
  /\ oldest = 0 /\ thinned = [minute |-> 0, hour |-> 0]
  /\ made = {} /\ lost = {} /\ unsure = FALSE /\ faults = 0

Later(a, b) == IF a > b THEN a ELSE b
Fails == faults < MaxFaults /\ faults' = faults + 1
Works == UNCHANGED faults

-----------------------------------------------------------------------------
(* The setting.                                                            *)

Configured == IF env # Unset THEN env ELSE Default
Locked == env # Unset

\* loadRetentionOverrides: the environment goes before the database.
Loaded == IF Locked \/ override = Unset THEN Configured ELSE override

Start ==
  /\ ~up /\ up' = TRUE
  /\ \/ Works /\ live' = Loaded /\ unsure' = FALSE
     \/ Fails /\ live' = Configured /\ unsure' = TRUE
  /\ UNCHANGED <<now, env, override, req, asked, run, ran, tables>>

\* The process ends, and its environment may be another when it starts again.
Stop ==
  /\ up /\ up' = FALSE
  /\ env' \in Value
  /\ req' = [r \in Request |-> Idle] /\ run' = Still /\ ran' = FALSE
  /\ UNCHANGED <<now, override, live, asked, unsure, tables, faults>>

\* SetRetention and DeleteRetention: a value, or Unset to be rid of the row.
Ask(r) ==
  /\ up /\ asked < MaxRequests /\ asked' = asked + 1
  /\ req[r] = Idle /\ ~Locked
  /\ \E v \in Value : req' = [req EXCEPT ![r] = [pc |-> "persist", value |-> v]]
  /\ unsure' = (unsure \/ \E q \in Request : req[q] # Idle)      \* they overlap
  /\ UNCHANGED <<now, up, env, override, live, run, ran, tables, faults>>

\* A slip: the process takes the value whether the database has it or not.
PersistAndApply(r) ==
  /\ req[r].pc = "persist"
  /\ \/ Works /\ override' = req[r].value
     \/ Fails /\ UNCHANGED override
  /\ req' = [req EXCEPT ![r].pc = "apply"]
  /\ UNCHANGED <<now, up, env, live, asked, unsure, run, ran, tables>>

\* SetConfigOverride, DeleteConfigOverride: an error ends the request, also one
\* after the database has the value.
Persist(r) ==
  /\ req[r].pc = "persist"
  /\ \/ /\ Works /\ override' = req[r].value
        /\ req' = [req EXCEPT ![r].pc = "apply"] /\ UNCHANGED unsure
     \/ /\ Fails /\ req' = [req EXCEPT ![r] = Idle]
        /\ \/ UNCHANGED <<override, unsure>>
           \/ override' = req[r].value /\ unsure' = TRUE
  /\ UNCHANGED <<now, up, env, live, asked, run, ran, tables>>

\* setRetentionValue, or resetRetentionValue.
Apply(r) ==
  /\ req[r].pc = "apply"
  /\ live' = IF req[r].value = Unset THEN Configured ELSE req[r].value
  /\ req' = [req EXCEPT ![r] = Idle]
  /\ UNCHANGED <<now, up, env, override, asked, unsure, run, ran, tables, faults>>

-----------------------------------------------------------------------------
(* A maintenance run.  Each step may fail, which is logged.                *)

Step(pc, next) == run.pc = pc /\ run' = [run EXCEPT !.pc = next]

\* One run at a time: maintenanceRunning.
Begin ==
  /\ up /\ run.pc = "idle" /\ ~ran
  /\ run' = [Still EXCEPT !.pc = "monthly"]
  /\ UNCHANGED <<now, up, setting, ran, tables, faults>>

\* A slip: the month after it.
CreateFourAhead ==
  /\ Step("monthly", "weekly")
  /\ \/ /\ Works /\ months' = months \cup {Month(now) + 4}
        /\ made' = made \cup {Month(now)}
     \/ Fails /\ UNCHANGED <<months, made>>
  /\ UNCHANGED <<now, up, setting, ran, weeks, oldest, thinned, lost>>

\* The month three months ahead, and no other.
CreateMonthlyPartition ==
  /\ Step("monthly", "weekly")
  /\ \/ /\ Works /\ months' = months \cup {Month(now) + 3}
        /\ made' = made \cup {Month(now)}
     \/ Fails /\ UNCHANGED <<months, made>>
  /\ UNCHANGED <<now, up, setting, ran, weeks, oldest, thinned, lost>>

CreateWeeklyPartition ==
  /\ Step("weekly", "thin")
  /\ \/ Works /\ weeks' = weeks \cup (now .. now + 3)
     \/ Fails /\ UNCHANGED weeks
  /\ UNCHANGED <<now, up, setting, ran, months, oldest, thinned, made, lost>>

\* decimate_state_table: the first row of a minute is kept, of an hour after a month.
DecimateStateTable ==
  /\ Step("thin", "purge")
  /\ \/ /\ Works
        /\ thinned' = [minute |-> Later(thinned.minute, now - 1),
                       hour |-> Later(thinned.hour, now - MonthWeeks)]
     \/ Fails /\ UNCHANGED thinned
  /\ UNCHANGED <<now, up, setting, ran, months, weeks, oldest, made, lost>>

\* Rows of every week are there, to the oldest that is not purged.
PurgeOlderThan(kept) == oldest' = Later(oldest, now - kept)

Purge ==
  /\ Step("purge", "drop")
  /\ \/ Works /\ PurgeOlderThan(live)
     \/ Fails /\ UNCHANGED oldest
  /\ UNCHANGED <<now, up, setting, ran, months, weeks, thinned, made, lost>>

\* How the database shows the upper bound of a partition by a timestamp: a date and
\* a time.
UpperBound(w) == [date |-> w + 1, withTime |-> TRUE]

\* DropOldWeeklyPartitions skips a bound that does not parse as a date alone.
Droppable(kept) ==
  {w \in weeks : ~UpperBound(w).withTime /\ UpperBound(w).date < now - kept}

DropOldWeeklyPartitions ==
  /\ run.pc = "drop"
  /\ \/ Works /\ weeks' = weeks \ Droppable(live) /\ run' = [pc |-> "dropped", kept |-> live]
     \/ Fails /\ UNCHANGED weeks /\ run' = [run EXCEPT !.pc = "dropped"]
  /\ UNCHANGED <<now, up, setting, ran, months, oldest, thinned, made, lost>>

End ==
  /\ run.pc = "dropped" /\ run' = Still /\ ran' = TRUE
  /\ UNCHANGED <<now, up, setting, tables, faults>>

\* An administrator purges a table, by an age of his own.
PurgeTable ==
  /\ up /\ asked < MaxRequests /\ asked' = asked + 1
  /\ \E v \in Retention : \/ PurgeOlderThan(v) /\ UNCHANGED weeks
                          \/ weeks' = weeks \ Droppable(v) /\ UNCHANGED oldest
  /\ UNCHANGED <<now, up, env, override, live, req, unsure, run, ran, months, thinned, made,
                 lost, faults>>

-----------------------------------------------------------------------------
(* What is written meanwhile.                                              *)

\* A unit event is not tried again; a call has the partitions of all tables created
\* (ensurePartitionsFor).
InsertUnitEvent ==
  /\ up /\ Month(now) \notin months /\ lost' = lost \cup {Month(now)}
  /\ UNCHANGED <<now, up, setting, run, ran, months, weeks, oldest, thinned, made, faults>>

InsertCall ==
  /\ up /\ Month(now) \notin months /\ months' = months \cup {Month(now)}
  /\ UNCHANGED <<now, up, setting, run, ran, weeks, oldest, thinned, made, lost, faults>>

\* A week passes: a process that is up has had its daily runs.
Tick ==
  /\ now < MaxTime /\ now' = now + 1
  /\ up => ran /\ \A r \in Request : req[r] = Idle
  /\ run.pc = "idle" /\ ran' = FALSE
  /\ UNCHANGED <<up, setting, run, tables, faults>>

Next ==
  \/ Start \/ Stop
  \/ \E r \in Request : Ask(r) \/ Persist(r) \/ Apply(r)
  \/ Begin \/ CreateMonthlyPartition \/ CreateWeeklyPartition \/ DecimateStateTable
  \/ Purge \/ DropOldWeeklyPartitions \/ End
  \/ PurgeTable \/ InsertUnitEvent \/ InsertCall \/ Tick

Spec == Init /\ [][Next]_vars

-----------------------------------------------------------------------------
(* Properties.                                                             *)

\* The process keeps data as long as it would after a restart, also when a request ends
\* between database and process, unless requests overlapped, an error was reported after
\* the database had the value, or the settings could not be loaded at the start
\* (SetRetention, DeleteRetention, loadRetentionOverrides).
SettingSurvivesRestart ==
  (up /\ ~unsure /\ \A r \in Request : req[r] = Idle) => live = Loaded

\* A unit event finds no partition only in a month three months after one without a
\* run that worked: what a run makes is enough for a process that runs once a month
\* (CreateMonthlyPartition).
EventsFindPartition == \A m \in lost : m - 3 \notin made /\ m > 3

\* docs/architecture.md, Partition Maintenance: "Drop old weekly partitions
\* (mqtt_raw_messages, 7-day retention)".
RawIsDropped ==
  run.pc = "dropped" /\ run.kept # Unset => \A w \in weeks : w + 1 >= now - run.kept
=============================================================================
