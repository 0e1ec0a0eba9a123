--------------------------- MODULE Records_proofs ---------------------------
(***************************************************************************)
(* Proofs about parts of MCRecords, for every value of their constants:    *)
(* that of Transcriptions for any number of transactions, those of         *)
(* Maintenance for any weeks, requests and faults, that of Identity for    *)
(* any sites, systems, faults and merges, that of UnitEvents for any       *)
(* window, delay, kinds of events, reports, faults and restarts, and that  *)
(* of Attribution for any lists of transmissions, words and texts.         *)
(*                                                                         *)
(* Each part has an inductive invariant of its own (TextsInv, SettingsInv, *)
(* PartitionsInv, IdentityInv, UnitsInv, WordsInv); a theorem says that it *)
(* holds while its part is followed, or, where nothing else writes to the  *)
(* part's variables, always.                                               *)
(***************************************************************************)
EXTENDS MCRecords, Integers, FiniteSetTheorems, SequenceTheorems, WellFoundedInduction, TLAPS

-----------------------------------------------------------------------------
(* Transcriptions.                                                         *)

Held == {"row", "call", "group", "commit"}

\* A row is there only of a transaction that is over; what a transaction saw was a
\* row, and what it saw and is still primary it has cleared; what is written to the
\* call has passed the CHECK on its status; rows, call and group are locked in this order.
TextInv(t) ==
  /\ t > begunTranscriptions => pcTranscriptions[t] = "begin"
  /\ t \in rowsTranscriptions => pcTranscriptions[t] = "ended"
  /\ seen[t] \subseteq rowsTranscriptions
  /\ pcTranscriptions[t] \in Held /\ kind[t] = "insert" => seen[t] \cap primary \subseteq cleared[t]
  /\ pcTranscriptions[t] \in {"group", "commit"} => status[t] \in T!Statuses
  /\ cleared[t] # {} => pcTranscriptions[t] \in Held
  /\ callLock = t => pcTranscriptions[t] \in {"group", "commit"}
  /\ groupLock = t => pcTranscriptions[t] = "commit"

TextsInv ==
  /\ T!TypeOK /\ T!CallTextIsPrimary /\ T!SeenRowsAreCleared
  /\ \A t \in T!Tx : TextInv(t)
  /\ ~missed => groupTranscriptions = call

LEMMA TextsInit == T!Init => TextsInv
BY TextsAssumption DEF T!Init, TextsInv, TextInv, T!TypeOK, T!CallTextIsPrimary,
   T!SeenRowsAreCleared, T!Tx, T!Empty, T!Statuses, Held

\* What all steps but the last of a transaction leave alone.
LEMMA TextsKept ==
  ASSUME TextsInv, T!TypeOK', UNCHANGED T!dataVars, NEW t \in T!Tx,
         begunTranscriptions' \in {begunTranscriptions, t},
         \A u \in T!Tx \ {t} : /\ pcTranscriptions'[u] = pcTranscriptions[u]
                               /\ kind'[u] = kind[u] /\ status'[u] = status[u]
                               /\ seen'[u] = seen[u] /\ cleared'[u] = cleared[u],
         begunTranscriptions' >= begunTranscriptions, TextInv(t)',
         callLock' \in {callLock, t}, groupLock' \in {groupLock, t},
         t \notin rowsTranscriptions
  PROVE  TextsInv'
<1>1. \A u \in T!Tx \ {t} : TextInv(u)'
  BY TextsAssumption DEF TextsInv, T!TypeOK, T!dataVars, TextInv, T!Tx, Held
<1>2. (T!CallTextIsPrimary /\ T!SeenRowsAreCleared)' /\ (~missed => groupTranscriptions = call)'
  BY DEF TextsInv, T!TypeOK, T!dataVars, T!CallTextIsPrimary, T!SeenRowsAreCleared
<1> QED
  BY <1>1, <1>2 DEF TextsInv

LEMMA TextsBegins ==
  ASSUME TextsInv,
         (\E s \in SourcesTranscriptions : T!BeginInsert(s)) \/ (\E v \in Verdicts : T!BeginVerdict(v))
  PROVE  TextsInv'
<1>1. /\ \A s \in SourcesTranscriptions : T!StatusOf(s) \in T!Statuses \cup {"llm"}
      /\ \A v \in Verdicts : v \in T!Statuses
  BY TextsAssumption DEF T!StatusOf, T!Statuses
<1>2. PICK b : b = begunTranscriptions'
  OBVIOUS
<1>3. /\ begunTranscriptions \in Nat /\ MaxTx \in Nat /\ b = begunTranscriptions + 1
      /\ b \in T!Tx /\ b \in 0 .. MaxTx
  BY <1>2, TextsAssumption DEF TextsInv, T!TypeOK, T!BeginInsert, T!BeginVerdict, T!Tx
<1>4. /\ UNCHANGED <<seen, cleared, callLock, groupLock, linked>> /\ UNCHANGED T!dataVars
      /\ pcTranscriptions' = [pcTranscriptions EXCEPT ![b] = IF kind'[b] = "insert" THEN "clear" ELSE "call"]
      /\ kind' = [kind EXCEPT ![b] = kind'[b]] /\ kind'[b] \in {"insert", "verdict"}
      /\ status' = [status EXCEPT ![b] = status'[b]] /\ status'[b] \in T!Statuses \cup {"llm"}
  BY <1>1, <1>2, <1>3 DEF TextsInv, T!TypeOK, T!BeginInsert, T!BeginVerdict, T!Goto
<1>5. T!TypeOK'
  BY <1>2, <1>3, <1>4 DEF TextsInv, T!TypeOK, T!dataVars
<1>6. TextInv(b)' /\ b \notin rowsTranscriptions
  BY <1>2, <1>3, <1>4 DEF TextsInv, T!TypeOK, TextInv, T!dataVars, Held
<1> QED
  BY <1>2, <1>3, <1>4, <1>5, <1>6, TextsKept DEF TextsInv, T!TypeOK

LEMMA TextsGoesOn ==
  ASSUME TextsInv, NEW t \in T!Tx,
         T!ClearBegins(t) \/ T!ClearEnds(t) \/ T!InsertRow(t) \/ T!UpdateCall(t) \/ T!UpdateGroup(t)
  PROVE  TextsInv'
<1>1. UNCHANGED T!dataVars /\ begunTranscriptions' = begunTranscriptions
  BY DEF T!ClearBegins, T!ClearEnds, T!InsertRow, T!UpdateCall, T!UpdateGroup
<1>2. T!TypeOK'
  BY DEF TextsInv, T!TypeOK, T!dataVars, T!Goto, T!ClearBegins, T!ClearEnds, T!InsertRow, T!UpdateCall, T!UpdateGroup
<1>3. TextInv(t)' /\ t \notin rowsTranscriptions
  BY DEF TextsInv, T!TypeOK, TextInv, T!dataVars, T!Goto, Held, T!ClearBegins, T!ClearEnds, T!InsertRow, T!UpdateCall, T!UpdateGroup
<1>4. \A u \in T!Tx \ {t} : /\ pcTranscriptions'[u] = pcTranscriptions[u]
                            /\ kind'[u] = kind[u] /\ status'[u] = status[u]
                            /\ seen'[u] = seen[u] /\ cleared'[u] = cleared[u]
  BY DEF TextsInv, T!TypeOK, T!Goto, T!ClearBegins, T!ClearEnds, T!InsertRow, T!UpdateCall, T!UpdateGroup
<1>5. callLock' \in {callLock, t} /\ groupLock' \in {groupLock, t}
  BY DEF T!ClearBegins, T!ClearEnds, T!InsertRow, T!UpdateCall, T!UpdateGroup
<1> QED
  BY <1>1, <1>2, <1>3, <1>4, <1>5, TextsKept DEF TextsInv, T!TypeOK

\* What the end of a transaction leaves to the others, and that it holds no lock any more.
LEMMA TextsReleased ==
  ASSUME TextsInv, T!TypeOK', NEW t \in T!Tx, T!Release(t), t \notin rowsTranscriptions,
         pcTranscriptions[t] # "begin",
         rowsTranscriptions \subseteq rowsTranscriptions', primary' \subseteq primary \cup {t},
         rowsTranscriptions' \subseteq rowsTranscriptions \cup {t}
  PROVE  \A u \in T!Tx : TextInv(u)'
<1>1. TextInv(t)'
  BY TextsAssumption DEF TextsInv, TextInv, T!TypeOK, T!Release, T!Goto, T!Tx, Held
<1>2. ASSUME NEW u \in T!Tx, u # t PROVE TextInv(u)'
  <2>1. /\ begunTranscriptions' = begunTranscriptions
        /\ pcTranscriptions'[u] = pcTranscriptions[u] /\ kind'[u] = kind[u]
        /\ status'[u] = status[u] /\ seen'[u] = seen[u] /\ cleared'[u] = cleared[u]
        /\ callLock' = u => callLock = u
        /\ groupLock' = u => groupLock = u
    BY <1>2, TextsAssumption DEF TextsInv, T!TypeOK, T!Release, T!Goto, T!Tx
  <2>2. t \notin seen[u] /\ TextInv(u)
    BY DEF TextsInv, TextInv
  <2> QED
    BY <1>2, <2>1, <2>2 DEF TextInv
<1> QED
  BY <1>1, <1>2

\* The end of a transaction: its row, if it has one, takes the mark from the rows it saw.
LEMMA TextsCommit ==
  ASSUME TextsInv, NEW t \in T!Tx, T!Commit(t)
  PROVE  TextsInv'
<1> USE DEF TextsInv
<1>1. T!Written(t, call) \in [text : {0} \cup T!Tx, status : T!Statuses]
      /\ T!Written(t, groupTranscriptions) \in [text : {0} \cup T!Tx, status : T!Statuses]
  BY DEF T!Commit, T!Written, T!TypeOK, TextInv
<1>2. T!TypeOK'
  BY <1>1 DEF T!TypeOK, T!Commit, T!Release, T!Goto
<1>3. t \notin rowsTranscriptions /\ pcTranscriptions'[t] = "ended" /\ seen' = seen
  BY DEF T!TypeOK, T!Commit, T!Release, T!Goto, TextInv
<1>4. \A u \in T!Tx : TextInv(u)'
  <2>1. /\ rowsTranscriptions' \in {rowsTranscriptions, rowsTranscriptions \cup {t}}
        /\ primary' \subseteq primary \cup {t} /\ T!Release(t) /\ pcTranscriptions[t] # "begin"
    BY DEF T!Commit
  <2> QED
    BY <1>2, <1>3, <2>1, TextsReleased
<1>5. T!CallTextIsPrimary'
  <2>1. CASE kind[t] = "insert"
    BY <2>1, TextsAssumption DEF T!Commit, T!CallTextIsPrimary, T!Written, T!Tx
  <2>2. CASE kind[t] # "insert"
    BY <2>2 DEF T!Commit, T!CallTextIsPrimary, T!Written
  <2> QED
    BY <2>1, <2>2
<1>6. T!SeenRowsAreCleared'
  BY <1>3 DEF T!TypeOK, T!Commit, T!Release, T!SeenRowsAreCleared, TextInv, Held
<1>7. (~missed => groupTranscriptions = call)'
  BY DEF T!Commit, T!Written
<1> QED
  BY <1>2, <1>4, <1>5, <1>6, <1>7

LEMMA TextsRollback ==
  ASSUME TextsInv, NEW t \in T!Tx, T!Rollback(t)
  PROVE  TextsInv'
<1>1. T!TypeOK'
  BY DEF TextsInv, T!TypeOK, T!Rollback, T!Release, T!Goto, T!dataVars
<1>2. \A u \in T!Tx : TextInv(u)'
  <2>1. /\ t \notin rowsTranscriptions /\ UNCHANGED T!dataVars /\ T!Release(t)
        /\ pcTranscriptions[t] # "begin"
    BY DEF TextsInv, TextInv, T!Rollback
  <2> QED
    BY <1>1, <2>1, TextsReleased DEF T!dataVars
<1> QED
  BY <1>1, <1>2 DEF TextsInv, T!Rollback, T!Release, T!dataVars, T!CallTextIsPrimary, T!SeenRowsAreCleared

LEMMA TextsStep == TextsInv /\ [T!Next]_textsVars => TextsInv'
<1> SUFFICES ASSUME TextsInv, [T!Next]_textsVars PROVE TextsInv'
  OBVIOUS
<1>1. CASE (\E s \in SourcesTranscriptions : T!BeginInsert(s)) \/ (\E v \in Verdicts : T!BeginVerdict(v))
  BY <1>1, TextsBegins
<1>2. ASSUME NEW t \in T!Tx, T!Statement(t) \/ T!Rollback(t) PROVE TextsInv'
  BY <1>2, TextsGoesOn, TextsCommit, TextsRollback DEF T!Statement
<1>3. CASE T!LinkGroup \/ UNCHANGED textsVars
  <2>1. /\ UNCHANGED <<begunTranscriptions, pcTranscriptions, kind, status, seen, cleared, callLock,
                       groupLock>>
        /\ UNCHANGED <<rowsTranscriptions, primary, call, groupTranscriptions, missed>>
        /\ linked' \in BOOLEAN
    BY <1>3 DEF TextsInv, T!TypeOK, T!LinkGroup, textsVars, T!txVars, T!dataVars
  <2>2. T!TypeOK' /\ (T!CallTextIsPrimary /\ T!SeenRowsAreCleared)'
    BY <2>1 DEF TextsInv, T!TypeOK, T!CallTextIsPrimary, T!SeenRowsAreCleared
  <2>3. \A t \in T!Tx : TextInv(t)'
    BY <2>1 DEF TextsInv, TextInv
  <2> QED
    BY <2>1, <2>2, <2>3 DEF TextsInv
<1> QED
  BY <1>1, <1>2, <1>3 DEF T!Next

\* Whoever waits does so for one that is at a later statement: of some transactions, one
\* that is furthest waits for none.
LEMMA NobodyWaits == TextsInv => T!NobodyWaitsInACircle
<1> SUFFICES ASSUME TextsInv PROVE T!NobodyWaitsInACircle
  OBVIOUS
<1>1. ASSUME NEW t \in T!Tx, NEW u \in T!Tx, T!WaitsFor(t, u)
      PROVE  \/ pcTranscriptions[t] = "clearing" /\ pcTranscriptions[u] \in Held
             \/ pcTranscriptions[t] = "call" /\ pcTranscriptions[u] \in {"group", "commit"}
             \/ pcTranscriptions[t] = "group" /\ pcTranscriptions[u] = "commit"
  BY <1>1 DEF T!WaitsFor, TextsInv, TextInv
<1>2. ASSUME NEW ts \in SUBSET T!Tx, ts # {}
      PROVE  \E t \in ts : \A u \in ts : ~T!WaitsFor(t, u)
  <2>1. CASE \E t \in ts : pcTranscriptions[t] \notin {"clearing", "call", "group"}
    BY <1>1, <1>2, <2>1
  <2>2. CASE /\ \A t \in ts : pcTranscriptions[t] \in {"clearing", "call", "group"}
             /\ \E t \in ts : pcTranscriptions[t] = "group"
    BY <1>1, <1>2, <2>2
  <2>3. CASE /\ \A t \in ts : pcTranscriptions[t] \in {"clearing", "call"}
             /\ \E t \in ts : pcTranscriptions[t] = "call"
    BY <1>1, <1>2, <2>3
  <2>4. CASE \A t \in ts : pcTranscriptions[t] = "clearing"
    BY <1>1, <1>2, <2>4 DEF Held
  <2> QED
    BY <2>1, <2>2, <2>3, <2>4
<1> QED
  BY <1>1, <1>2 DEF T!NobodyWaitsInACircle, Held

LEMMA TextsFollowed ==
  ASSUME part = "texts", [RecordsNext]_recordsVars
  PROVE  part' = "texts" /\ [T!Next]_textsVars
BY DEF RecordsNext, recordsVars

\* The call shows the text of a transcription that is marked primary, and no two of the
\* transactions that write it wait for each other.
THEOREM TextsAlwaysAgree == RecordsSpec => []TextsAgree
<1> DEFINE Inv == part = "texts" => TextsInv
<1>1. RecordsInit => Inv
  BY TextsInit DEF RecordsInit
<1>2. Inv /\ [RecordsNext]_recordsVars => Inv'
  <2> SUFFICES ASSUME Inv, [RecordsNext]_recordsVars, part' = "texts" PROVE TextsInv'
    OBVIOUS
  <2>1. part = "texts"
    BY DEF RecordsNext, recordsVars
  <2> QED
    BY <2>1, TextsStep, TextsFollowed
<1>3. Inv => TextsAgree
  BY NobodyWaits DEF TextsInv, TextsAgree, T!GroupMirrorsCall
<1> QED
  BY <1>1, <1>2, <1>3, PTL DEF RecordsSpec
-----------------------------------------------------------------------------
(* Maintenance.                                                            *)

\* Of a month there are some weeks, so it comes no earlier in a later week.
LEMMA MonthsAscend ==
  ASSUME NEW a \in Nat, NEW b \in Nat, a <= b
  PROVE  a \div MonthWeeks \in Nat /\ a \div MonthWeeks <= b \div MonthWeeks
<1>1. MonthWeeks \in Nat \ {0}
  BY MaintenanceAssumption
<1> QED
  BY <1>1

LEMMA SettingsMonths ==
  ASSUME M!TypeOK
  PROVE  M!Month(nowSettings) \in 0 .. M!Month(MaxTimeSettings)
BY MonthsAscend, MaintenanceAssumption DEF M!TypeOK, M!Month

LEMMA SettingsNumbers ==
  /\ Default \in Nat \ {0} /\ RetentionSettings \subseteq Nat \ {0} /\ MonthWeeks \in Nat \ {0}
  /\ MaxTimeSettings \in Nat /\ MaxRequestsSettings \in Nat /\ MaxFaultsSettings \in Nat
BY MaintenanceAssumption

\* What does not fail, and what fails once more, keep the bound on failures.
LEMMA SettingsFaults ==
  ASSUME M!TypeOK, M!Works \/ M!Fails
  PROVE  faultsSettings' \in 0 .. MaxFaultsSettings
BY SettingsNumbers DEF M!TypeOK, M!Works, M!Fails

LEMMA SettingsTyped == M!TypeOK /\ [M!Next]_settingsVars => M!TypeOK'
<1> SUFFICES ASSUME M!TypeOK, [M!Next]_settingsVars PROVE M!TypeOK'
  OBVIOUS
<1> DEFINE Live == RetentionSettings \cup {Default}
<1> DEFINE Asks == [pc : {"idle", "persist", "apply"}, value : M!Value]
<1> DEFINE Runs == [pc : {"idle", "monthly", "weekly", "thin", "purge", "drop", "dropped"},
                    kept : RetentionSettings \cup {Default, M!Unset}]
<1> DEFINE Thins == [minute : 0 .. MaxTimeSettings, hour : 0 .. MaxTimeSettings]
<1>a. /\ envSettings \in M!Value /\ overrideSettings \in M!Value /\ liveSettings \in Live
      /\ reqSettings \in [RequestSettings -> Asks] /\ runSettings \in Runs /\ thinnedSettings \in Thins
      /\ oldestSettings \in 0 .. MaxTimeSettings /\ nowSettings \in 0 .. MaxTimeSettings
      /\ upSettings \in BOOLEAN /\ unsureSettings \in BOOLEAN /\ ranSettings \in BOOLEAN
      /\ monthsSettings \subseteq Nat /\ weeksSettings \subseteq Nat /\ madeSettings \subseteq Nat
      /\ lostSettings \subseteq 0 .. M!Month(MaxTimeSettings)
      /\ askedSettings \in 0 .. MaxRequestsSettings /\ faultsSettings \in 0 .. MaxFaultsSettings
  BY DEF M!TypeOK
<1>b. SUFFICES
      /\ (envSettings \in M!Value /\ overrideSettings \in M!Value /\ liveSettings \in Live)'
      /\ (reqSettings \in [RequestSettings -> Asks])' /\ (runSettings \in Runs)' /\ (thinnedSettings \in Thins)'
      /\ (oldestSettings \in 0 .. MaxTimeSettings)' /\ (nowSettings \in 0 .. MaxTimeSettings)'
      /\ (upSettings \in BOOLEAN /\ unsureSettings \in BOOLEAN /\ ranSettings \in BOOLEAN)'
      /\ (monthsSettings \subseteq Nat /\ weeksSettings \subseteq Nat /\ madeSettings \subseteq Nat)'
      /\ (lostSettings \subseteq 0 .. M!Month(MaxTimeSettings))'
      /\ (askedSettings \in 0 .. MaxRequestsSettings)' /\ (faultsSettings \in 0 .. MaxFaultsSettings)'
  BY DEF M!TypeOK
<1>c. M!Idle \in Asks /\ M!Still \in Runs /\ M!Unset \in M!Value /\ RetentionSettings \subseteq M!Value
  BY DEF M!Idle, M!Still, M!Value
<1>d. M!Value \subseteq Nat /\ Live \subseteq Nat
  BY SettingsNumbers DEF M!Value, M!Unset
<1>e. M!Loaded \in Live /\ M!Configured \in Live
  BY <1>a DEF M!Loaded, M!Configured, M!Locked, M!Value
<1>f. \A kept \in Nat : M!Later(oldestSettings, nowSettings - kept) \in 0 .. MaxTimeSettings
  BY <1>a, SettingsNumbers DEF M!Later
<1>g. \A next \in {"weekly", "thin", "purge", "drop", "dropped"} : [runSettings EXCEPT !.pc = next] \in Runs
  BY <1>a
<1>h. M!Month(nowSettings) \in Nat /\ M!Month(nowSettings) \in 0 .. M!Month(MaxTimeSettings)
  BY SettingsMonths
<1> HIDE DEF Live, Asks, Runs, Thins
<1>1. CASE M!Start
  <2>1. UNCHANGED <<nowSettings, envSettings, overrideSettings, reqSettings, askedSettings, runSettings, ranSettings, M!tables>>
    BY <1>1 DEF M!Start
  <2>2. liveSettings' \in Live /\ upSettings' \in BOOLEAN /\ unsureSettings' \in BOOLEAN /\ (M!Works \/ M!Fails)
    BY <1>1, <1>e DEF M!Start
  <2> QED
    BY <1>a, <2>1, <2>2, SettingsFaults DEF M!tables
<1>2. CASE M!Stop
  <2>1. reqSettings' \in [RequestSettings -> Asks] /\ runSettings' \in Runs
    BY <1>2, <1>c DEF M!Stop
  <2> QED
    BY <1>2, <1>a, <2>1 DEF M!Stop, M!tables
<1>3. CASE \E r \in RequestSettings : M!Ask(r) \/ M!Persist(r) \/ M!Apply(r)
  <2>a. PICK r \in RequestSettings : M!Ask(r) \/ M!Persist(r) \/ M!Apply(r)
    BY <1>3
  <2>1. CASE M!Ask(r)
    <3>1. \A v \in M!Value : [pc |-> "persist", value |-> v] \in Asks
      BY DEF Asks
    <3>2. reqSettings' \in [RequestSettings -> Asks] /\ askedSettings' \in 0 .. MaxRequestsSettings /\ unsureSettings' \in BOOLEAN
      BY <2>1, <3>1, <1>a, SettingsNumbers DEF M!Ask
    <3> QED
      BY <2>1, <1>a, <3>2 DEF M!Ask, M!tables
  <2>2. CASE M!Persist(r)
    <3>1. reqSettings[r].value \in M!Value /\ [reqSettings[r] EXCEPT !.pc = "apply"] \in Asks
      BY <1>a DEF Asks
    <3>2. reqSettings' \in [RequestSettings -> Asks] /\ overrideSettings' \in M!Value /\ unsureSettings' \in BOOLEAN
      BY <2>2, <3>1, <1>a, <1>c DEF M!Persist
    <3>3. M!Works \/ M!Fails
      BY <2>2 DEF M!Persist
    <3>4. UNCHANGED <<nowSettings, upSettings, envSettings, liveSettings, askedSettings, runSettings, ranSettings, M!tables>>
      BY <2>2 DEF M!Persist
    <3> QED
      BY <1>a, <3>2, <3>3, <3>4, SettingsFaults DEF M!tables
  <2>3. CASE M!Apply(r)
    <3>1. reqSettings[r].value \in M!Value
      BY <1>a DEF Asks
    <3>2. reqSettings' \in [RequestSettings -> Asks] /\ liveSettings' \in Live
      BY <2>3, <3>1, <1>a, <1>c, <1>e DEF M!Apply, M!Value, Live
    <3> QED
      BY <2>3, <1>a, <3>2 DEF M!Apply, M!tables
  <2> QED
    BY <2>a, <2>1, <2>2, <2>3
<1>4. CASE M!Begin
  <2>1. [M!Still EXCEPT !.pc = "monthly"] \in Runs
    BY DEF M!Still, Runs
  <2> QED
    BY <1>4, <1>a, <2>1 DEF M!Begin, M!setting, M!tables
<1>5. CASE M!End
  BY <1>5, <1>a, <1>c DEF M!End, M!setting, M!tables
<1>6. CASE M!CreateMonthlyPartition
  <2>1. monthsSettings' \subseteq Nat /\ madeSettings' \subseteq Nat /\ (M!Works \/ M!Fails)
    <3>1. {M!Month(nowSettings) + 3} \subseteq Nat /\ {M!Month(nowSettings)} \subseteq Nat
      BY <1>h
    <3> QED
      BY <1>6, <1>a, <3>1 DEF M!CreateMonthlyPartition
  <2> QED
    BY <1>6, <1>a, <1>g, <2>1, SettingsFaults DEF M!CreateMonthlyPartition, M!Step, M!setting
<1>7. CASE M!CreateWeeklyPartition
  <2>1. weeksSettings' \subseteq Nat /\ (M!Works \/ M!Fails)
    <3>1. nowSettings .. nowSettings + 3 \subseteq Nat
      BY <1>a
    <3> QED
      BY <1>7, <1>a, <3>1 DEF M!CreateWeeklyPartition
  <2> QED
    BY <1>7, <1>a, <1>g, <2>1, SettingsFaults DEF M!CreateWeeklyPartition, M!Step, M!setting
<1>8. CASE M!DecimateStateTable
  <2>1. /\ M!Later(thinnedSettings.minute, nowSettings - 1) \in 0 .. MaxTimeSettings
        /\ M!Later(thinnedSettings.hour, nowSettings - MonthWeeks) \in 0 .. MaxTimeSettings
    BY <1>a, SettingsNumbers DEF M!Later, Thins
  <2>2. thinnedSettings' \in Thins /\ (M!Works \/ M!Fails)
    BY <1>8, <1>a, <2>1 DEF M!DecimateStateTable, Thins
  <2> QED
    BY <1>8, <1>a, <1>g, <2>2, SettingsFaults DEF M!DecimateStateTable, M!Step, M!setting
<1>9. CASE M!Purge
  <2>1. oldestSettings' \in 0 .. MaxTimeSettings /\ (M!Works \/ M!Fails)
    BY <1>9, <1>a, <1>d, <1>f DEF M!Purge, M!PurgeOlderThan
  <2> QED
    BY <1>9, <1>a, <1>g, <2>1, SettingsFaults DEF M!Purge, M!Step, M!setting
<1>10. CASE M!DropOldWeeklyPartitions
  <2>1. [pc |-> "dropped", kept |-> liveSettings] \in Runs
    BY <1>a DEF Runs, Live
  <2>2. weeksSettings' \subseteq Nat /\ runSettings' \in Runs /\ (M!Works \/ M!Fails)
    BY <1>10, <1>a, <1>g, <2>1 DEF M!DropOldWeeklyPartitions
  <2> QED
    BY <1>10, <1>a, <2>2, SettingsFaults DEF M!DropOldWeeklyPartitions, M!setting
<1>11. CASE M!PurgeTable
  <2>1. oldestSettings' \in 0 .. MaxTimeSettings /\ weeksSettings' \subseteq Nat
    BY <1>11, <1>a, <1>c, <1>d, <1>f DEF M!PurgeTable, M!PurgeOlderThan
  <2>2. askedSettings' \in 0 .. MaxRequestsSettings
    BY <1>11, <1>a, SettingsNumbers DEF M!PurgeTable
  <2> QED
    BY <1>11, <1>a, <2>1, <2>2 DEF M!PurgeTable
<1>12. CASE M!InsertUnitEvent
  BY <1>12, <1>a, SettingsMonths DEF M!InsertUnitEvent, M!setting
<1>13. CASE M!InsertCall
  <2>1. monthsSettings' \subseteq Nat
    BY <1>13, <1>a, <1>h DEF M!InsertCall
  <2> QED
    BY <1>13, <1>a, <2>1 DEF M!InsertCall, M!setting
<1>14. CASE M!Tick
  <2>1. nowSettings < MaxTimeSettings /\ nowSettings' = nowSettings + 1
    BY <1>14 DEF M!Tick
  <2>2. nowSettings \in 0 .. MaxTimeSettings /\ MaxTimeSettings \in Nat
    BY <1>a, SettingsNumbers
  <2>3. nowSettings' \in 0 .. MaxTimeSettings
    BY <2>1, <2>2
  <2> QED
    BY <1>14, <1>a, <2>3 DEF M!Tick, M!setting, M!tables
<1>15. CASE UNCHANGED settingsVars
  BY <1>15, <1>a DEF settingsVars
<1> QED
  BY <1>1, <1>2, <1>3, <1>4, <1>5, <1>6, <1>7, <1>8, <1>9, <1>10, <1>11, <1>12, <1>13, <1>14, <1>15
     DEF M!Next, M!TypeOK, Live, Asks, Runs, Thins

LEMMA PartitionsMonths ==
  ASSUME P!TypeOK
  PROVE  P!Month(nowPartitions) \in 0 .. P!Month(MaxTimePartitions)
BY MonthsAscend, MaintenanceAssumption DEF P!TypeOK, P!Month

LEMMA PartitionsNumbers ==
  /\ Default \in Nat \ {0} /\ RetentionPartitions \subseteq Nat \ {0} /\ MonthWeeks \in Nat \ {0}
  /\ MaxTimePartitions \in Nat /\ MaxRequestsPartitions \in Nat /\ MaxFaultsPartitions \in Nat
BY MaintenanceAssumption

\* What does not fail, and what fails once more, keep the bound on failures.
LEMMA PartitionsFaults ==
  ASSUME P!TypeOK, P!Works \/ P!Fails
  PROVE  faultsPartitions' \in 0 .. MaxFaultsPartitions
BY PartitionsNumbers DEF P!TypeOK, P!Works, P!Fails

LEMMA PartitionsTyped == P!TypeOK /\ [P!Next]_partitionsVars => P!TypeOK'
<1> SUFFICES ASSUME P!TypeOK, [P!Next]_partitionsVars PROVE P!TypeOK'
  OBVIOUS
<1> DEFINE Live == RetentionPartitions \cup {Default}
<1> DEFINE Asks == [pc : {"idle", "persist", "apply"}, value : P!Value]
<1> DEFINE Runs == [pc : {"idle", "monthly", "weekly", "thin", "purge", "drop", "dropped"},
                    kept : RetentionPartitions \cup {Default, P!Unset}]
<1> DEFINE Thins == [minute : 0 .. MaxTimePartitions, hour : 0 .. MaxTimePartitions]
<1>a. /\ envPartitions \in P!Value /\ overridePartitions \in P!Value /\ livePartitions \in Live
      /\ reqPartitions \in [RequestPartitions -> Asks] /\ runPartitions \in Runs /\ thinnedPartitions \in Thins
      /\ oldestPartitions \in 0 .. MaxTimePartitions /\ nowPartitions \in 0 .. MaxTimePartitions
      /\ upPartitions \in BOOLEAN /\ unsurePartitions \in BOOLEAN /\ ranPartitions \in BOOLEAN
      /\ monthsPartitions \subseteq Nat /\ weeksPartitions \subseteq Nat /\ madePartitions \subseteq Nat
      /\ lostPartitions \subseteq 0 .. P!Month(MaxTimePartitions)
      /\ askedPartitions \in 0 .. MaxRequestsPartitions /\ faultsPartitions \in 0 .. MaxFaultsPartitions
  BY DEF P!TypeOK
<1>b. SUFFICES
      /\ (envPartitions \in P!Value /\ overridePartitions \in P!Value /\ livePartitions \in Live)'
      /\ (reqPartitions \in [RequestPartitions -> Asks])' /\ (runPartitions \in Runs)' /\ (thinnedPartitions \in Thins)'
      /\ (oldestPartitions \in 0 .. MaxTimePartitions)' /\ (nowPartitions \in 0 .. MaxTimePartitions)'
      /\ (upPartitions \in BOOLEAN /\ unsurePartitions \in BOOLEAN /\ ranPartitions \in BOOLEAN)'
      /\ (monthsPartitions \subseteq Nat /\ weeksPartitions \subseteq Nat /\ madePartitions \subseteq Nat)'
      /\ (lostPartitions \subseteq 0 .. P!Month(MaxTimePartitions))'
      /\ (askedPartitions \in 0 .. MaxRequestsPartitions)' /\ (faultsPartitions \in 0 .. MaxFaultsPartitions)'
  BY DEF P!TypeOK
<1>c. P!Idle \in Asks /\ P!Still \in Runs /\ P!Unset \in P!Value /\ RetentionPartitions \subseteq P!Value
  BY DEF P!Idle, P!Still, P!Value
<1>d. P!Value \subseteq Nat /\ Live \subseteq Nat
  BY PartitionsNumbers DEF P!Value, P!Unset
<1>e. P!Loaded \in Live /\ P!Configured \in Live
  BY <1>a DEF P!Loaded, P!Configured, P!Locked, P!Value
<1>f. \A kept \in Nat : P!Later(oldestPartitions, nowPartitions - kept) \in 0 .. MaxTimePartitions
  BY <1>a, PartitionsNumbers DEF P!Later
<1>g. \A next \in {"weekly", "thin", "purge", "drop", "dropped"} : [runPartitions EXCEPT !.pc = next] \in Runs
  BY <1>a
<1>h. P!Month(nowPartitions) \in Nat /\ P!Month(nowPartitions) \in 0 .. P!Month(MaxTimePartitions)
  BY PartitionsMonths
<1> HIDE DEF Live, Asks, Runs, Thins
<1>1. CASE P!Start
  <2>1. UNCHANGED <<nowPartitions, envPartitions, overridePartitions, reqPartitions, askedPartitions, runPartitions, ranPartitions, P!tables>>
    BY <1>1 DEF P!Start
  <2>2. livePartitions' \in Live /\ upPartitions' \in BOOLEAN /\ unsurePartitions' \in BOOLEAN /\ (P!Works \/ P!Fails)
    BY <1>1, <1>e DEF P!Start
  <2> QED
    BY <1>a, <2>1, <2>2, PartitionsFaults DEF P!tables
<1>2. CASE P!Stop
  <2>1. reqPartitions' \in [RequestPartitions -> Asks] /\ runPartitions' \in Runs
    BY <1>2, <1>c DEF P!Stop
  <2> QED
    BY <1>2, <1>a, <2>1 DEF P!Stop, P!tables
<1>3. CASE \E r \in RequestPartitions : P!Ask(r) \/ P!Persist(r) \/ P!Apply(r)
  <2>a. PICK r \in RequestPartitions : P!Ask(r) \/ P!Persist(r) \/ P!Apply(r)
    BY <1>3
  <2>1. CASE P!Ask(r)
    <3>1. \A v \in P!Value : [pc |-> "persist", value |-> v] \in Asks
      BY DEF Asks
    <3>2. reqPartitions' \in [RequestPartitions -> Asks] /\ askedPartitions' \in 0 .. MaxRequestsPartitions /\ unsurePartitions' \in BOOLEAN
      BY <2>1, <3>1, <1>a, PartitionsNumbers DEF P!Ask
    <3> QED
      BY <2>1, <1>a, <3>2 DEF P!Ask, P!tables
  <2>2. CASE P!Persist(r)
    <3>1. reqPartitions[r].value \in P!Value /\ [reqPartitions[r] EXCEPT !.pc = "apply"] \in Asks
      BY <1>a DEF Asks
    <3>2. reqPartitions' \in [RequestPartitions -> Asks] /\ overridePartitions' \in P!Value /\ unsurePartitions' \in BOOLEAN
      BY <2>2, <3>1, <1>a, <1>c DEF P!Persist
    <3>3. P!Works \/ P!Fails
      BY <2>2 DEF P!Persist
    <3>4. UNCHANGED <<nowPartitions, upPartitions, envPartitions, livePartitions, askedPartitions, runPartitions, ranPartitions, P!tables>>
      BY <2>2 DEF P!Persist
    <3> QED
      BY <1>a, <3>2, <3>3, <3>4, PartitionsFaults DEF P!tables
  <2>3. CASE P!Apply(r)
    <3>1. reqPartitions[r].value \in P!Value
      BY <1>a DEF Asks
    <3>2. reqPartitions' \in [RequestPartitions -> Asks] /\ livePartitions' \in Live
      BY <2>3, <3>1, <1>a, <1>c, <1>e DEF P!Apply, P!Value, Live
    <3> QED
      BY <2>3, <1>a, <3>2 DEF P!Apply, P!tables
  <2> QED
    BY <2>a, <2>1, <2>2, <2>3
<1>4. CASE P!Begin
  <2>1. [P!Still EXCEPT !.pc = "monthly"] \in Runs
    BY DEF P!Still, Runs
  <2> QED
    BY <1>4, <1>a, <2>1 DEF P!Begin, P!setting, P!tables
<1>5. CASE P!End
  BY <1>5, <1>a, <1>c DEF P!End, P!setting, P!tables
<1>6. CASE P!CreateMonthlyPartition
  <2>1. monthsPartitions' \subseteq Nat /\ madePartitions' \subseteq Nat /\ (P!Works \/ P!Fails)
    <3>1. {P!Month(nowPartitions) + 3} \subseteq Nat /\ {P!Month(nowPartitions)} \subseteq Nat
      BY <1>h
    <3> QED
      BY <1>6, <1>a, <3>1 DEF P!CreateMonthlyPartition
  <2> QED
    BY <1>6, <1>a, <1>g, <2>1, PartitionsFaults DEF P!CreateMonthlyPartition, P!Step, P!setting
<1>7. CASE P!CreateWeeklyPartition
  <2>1. weeksPartitions' \subseteq Nat /\ (P!Works \/ P!Fails)
    <3>1. nowPartitions .. nowPartitions + 3 \subseteq Nat
      BY <1>a
    <3> QED
      BY <1>7, <1>a, <3>1 DEF P!CreateWeeklyPartition
  <2> QED
    BY <1>7, <1>a, <1>g, <2>1, PartitionsFaults DEF P!CreateWeeklyPartition, P!Step, P!setting
<1>8. CASE P!DecimateStateTable
  <2>1. /\ P!Later(thinnedPartitions.minute, nowPartitions - 1) \in 0 .. MaxTimePartitions
        /\ P!Later(thinnedPartitions.hour, nowPartitions - MonthWeeks) \in 0 .. MaxTimePartitions
    BY <1>a, PartitionsNumbers DEF P!Later, Thins
  <2>2. thinnedPartitions' \in Thins /\ (P!Works \/ P!Fails)
    BY <1>8, <1>a, <2>1 DEF P!DecimateStateTable, Thins
  <2> QED
    BY <1>8, <1>a, <1>g, <2>2, PartitionsFaults DEF P!DecimateStateTable, P!Step, P!setting
<1>9. CASE P!Purge
  <2>1. oldestPartitions' \in 0 .. MaxTimePartitions /\ (P!Works \/ P!Fails)
    BY <1>9, <1>a, <1>d, <1>f DEF P!Purge, P!PurgeOlderThan
  <2> QED
    BY <1>9, <1>a, <1>g, <2>1, PartitionsFaults DEF P!Purge, P!Step, P!setting
<1>10. CASE P!DropOldWeeklyPartitions
  <2>1. [pc |-> "dropped", kept |-> livePartitions] \in Runs
    BY <1>a DEF Runs, Live
  <2>2. weeksPartitions' \subseteq Nat /\ runPartitions' \in Runs /\ (P!Works \/ P!Fails)
    BY <1>10, <1>a, <1>g, <2>1 DEF P!DropOldWeeklyPartitions
  <2> QED
    BY <1>10, <1>a, <2>2, PartitionsFaults DEF P!DropOldWeeklyPartitions, P!setting
<1>11. CASE P!PurgeTable
  <2>1. oldestPartitions' \in 0 .. MaxTimePartitions /\ weeksPartitions' \subseteq Nat
    BY <1>11, <1>a, <1>c, <1>d, <1>f DEF P!PurgeTable, P!PurgeOlderThan
  <2>2. askedPartitions' \in 0 .. MaxRequestsPartitions
    BY <1>11, <1>a, PartitionsNumbers DEF P!PurgeTable
  <2> QED
    BY <1>11, <1>a, <2>1, <2>2 DEF P!PurgeTable
<1>12. CASE P!InsertUnitEvent
  BY <1>12, <1>a, PartitionsMonths DEF P!InsertUnitEvent, P!setting
<1>13. CASE P!InsertCall
  <2>1. monthsPartitions' \subseteq Nat
    BY <1>13, <1>a, <1>h DEF P!InsertCall
  <2> QED
    BY <1>13, <1>a, <2>1 DEF P!InsertCall, P!setting
<1>14. CASE P!Tick
  <2>1. nowPartitions < MaxTimePartitions /\ nowPartitions' = nowPartitions + 1
    BY <1>14 DEF P!Tick
  <2>2. nowPartitions \in 0 .. MaxTimePartitions /\ MaxTimePartitions \in Nat
    BY <1>a, PartitionsNumbers
  <2>3. nowPartitions' \in 0 .. MaxTimePartitions
    BY <2>1, <2>2
  <2> QED
    BY <1>14, <1>a, <2>3 DEF P!Tick, P!setting, P!tables
<1>15. CASE UNCHANGED partitionsVars
  BY <1>15, <1>a DEF partitionsVars
<1> QED
  BY <1>1, <1>2, <1>3, <1>4, <1>5, <1>6, <1>7, <1>8, <1>9, <1>10, <1>11, <1>12, <1>13, <1>14, <1>15
     DEF P!Next, P!TypeOK, Live, Asks, Runs, Thins


-----------------------------------------------------------------------------
\* While the process has what the database says, at most one request is under way; one
\* that has persisted its value has yet to apply it.
SettingInv ==
  /\ ~upSettings => \A r \in RequestSettings : reqSettings[r] = M!Idle
  /\ \A r \in RequestSettings : reqSettings[r].pc = "idle" => reqSettings[r] = M!Idle
  /\ upSettings /\ ~unsureSettings =>
       /\ \A r, q \in RequestSettings :
            reqSettings[r].pc # "idle" /\ reqSettings[q].pc # "idle" => r = q
       /\ \A r \in RequestSettings : reqSettings[r].pc # "idle" => ~M!Locked
       /\ \A r \in RequestSettings :
            reqSettings[r].pc = "apply" => overrideSettings = reqSettings[r].value
       /\ (\A r \in RequestSettings : reqSettings[r].pc # "apply") => liveSettings = M!Loaded

SettingsInv == M!TypeOK /\ SettingInv

LEMMA SettingsInit == M!Init => SettingsInv
<1> SUFFICES ASSUME M!Init PROVE SettingsInv
  OBVIOUS
<1> USE DEF M!Init, M!Value, M!Unset, M!Idle, M!Still
<1>1. SettingInv
  BY DEF SettingInv
<1>2. /\ 0 .. 3 \subseteq Nat /\ 0 \in 0 .. MaxTimeSettings /\ 0 \in 0 .. MaxRequestsSettings
      /\ 0 \in 0 .. MaxFaultsSettings
  BY SettingsNumbers
<1> QED
  BY <1>1, <1>2 DEF SettingsInv, M!TypeOK

\* What does not touch the setting, or requests about it.
LEMMA SettingKept ==
  ASSUME SettingInv, UNCHANGED <<upSettings, envSettings, overrideSettings, liveSettings, reqSettings,
                                 unsureSettings>>
  PROVE  SettingInv'
BY DEF SettingInv, M!Locked, M!Loaded, M!Configured

LEMMA SettingsStep == SettingsInv /\ [M!Next]_settingsVars => SettingsInv'
<1> SUFFICES ASSUME M!TypeOK, SettingInv, [M!Next]_settingsVars PROVE SettingInv'
  BY SettingsTyped DEF SettingsInv
<1>a. /\ reqSettings \in [RequestSettings -> [pc : {"idle", "persist", "apply"}, value : M!Value]]
      /\ M!Idle.pc = "idle" /\ upSettings \in BOOLEAN /\ unsureSettings \in BOOLEAN
  BY DEF M!TypeOK, M!Idle
<1>1. CASE M!Start
  BY <1>1, <1>a DEF SettingInv, M!Start, M!Loaded, M!Locked, M!Configured
<1>2. CASE M!Stop
  BY <1>2, <1>a DEF SettingInv, M!Stop
<1>3. ASSUME NEW r \in RequestSettings, M!Ask(r) PROVE SettingInv'
  <2>1. PICK v \in M!Value : reqSettings' = [reqSettings EXCEPT ![r] = [pc |-> "persist", value |-> v]]
    BY <1>3 DEF M!Ask
  <2>2. /\ reqSettings'[r] = [pc |-> "persist", value |-> v]
        /\ \A q \in RequestSettings \ {r} : reqSettings'[q] = reqSettings[q]
        /\ reqSettings[r].pc = "idle" /\ upSettings' /\ ~M!Locked
        /\ UNCHANGED <<upSettings, envSettings, overrideSettings, liveSettings>>
        /\ ~unsureSettings' => ~unsureSettings /\ \A q \in RequestSettings : reqSettings[q].pc = "idle"
    BY <1>3, <1>a, <2>1 DEF M!Ask
  <2>3. M!Loaded' = M!Loaded /\ M!Locked' = M!Locked
    BY <2>2 DEF M!Loaded, M!Locked, M!Configured
  <2> QED
    BY <2>2, <2>3, <1>a DEF SettingInv
<1>4. ASSUME NEW r \in RequestSettings, M!Persist(r) PROVE SettingInv'
  <2>1. CASE reqSettings' = [reqSettings EXCEPT ![r].pc = "apply"]
    <3>1. /\ reqSettings'[r].pc = "apply" /\ reqSettings'[r].value = reqSettings[r].value
          /\ \A q \in RequestSettings \ {r} : reqSettings'[q] = reqSettings[q]
          /\ reqSettings[r].pc = "persist" /\ M!Locked' = M!Locked
          /\ UNCHANGED <<upSettings, envSettings, liveSettings>>
          /\ (unsureSettings' = unsureSettings /\ overrideSettings' = reqSettings[r].value)
      BY <1>4, <1>a, <2>1 DEF M!Persist, M!Locked
    <3> QED
      BY <1>a, <3>1 DEF SettingInv
  <2>2. CASE reqSettings' = [reqSettings EXCEPT ![r] = M!Idle]
    <3>1. /\ reqSettings'[r] = M!Idle
          /\ \A q \in RequestSettings \ {r} : reqSettings'[q] = reqSettings[q]
          /\ reqSettings[r].pc = "persist" /\ M!Locked' = M!Locked
          /\ UNCHANGED <<upSettings, envSettings, liveSettings>>
          /\ unsureSettings' \/ UNCHANGED <<overrideSettings, unsureSettings>>
      BY <1>4, <1>a, <2>2 DEF M!Persist, M!Locked
    <3>2. UNCHANGED overrideSettings => M!Loaded' = M!Loaded
      BY <3>1 DEF M!Loaded, M!Configured, M!Locked
    <3> QED
      BY <1>a, <3>1, <3>2 DEF SettingInv
  <2> QED
    BY <1>4, <2>1, <2>2 DEF M!Persist
<1>5. ASSUME NEW r \in RequestSettings, M!Apply(r) PROVE SettingInv'
  <2>1. /\ reqSettings'[r] = M!Idle /\ reqSettings[r].pc = "apply"
        /\ \A q \in RequestSettings \ {r} : reqSettings'[q] = reqSettings[q]
        /\ UNCHANGED <<upSettings, envSettings, overrideSettings, unsureSettings>>
        /\ liveSettings' = IF reqSettings[r].value = M!Unset THEN M!Configured ELSE reqSettings[r].value
    BY <1>5, <1>a DEF M!Apply
  <2>2. upSettings /\ ~unsureSettings => liveSettings' = M!Loaded'
    BY <2>1 DEF SettingInv, M!Loaded, M!Locked, M!Configured
  <2>3. M!Locked' = M!Locked
    BY <2>1 DEF M!Locked
  <2> QED
    BY <1>a, <2>1, <2>2, <2>3 DEF SettingInv
<1>6. CASE \/ M!Begin \/ M!CreateMonthlyPartition \/ M!CreateWeeklyPartition \/ M!DecimateStateTable
           \/ M!Purge \/ M!DropOldWeeklyPartitions \/ M!End \/ M!PurgeTable \/ M!InsertUnitEvent
           \/ M!InsertCall \/ M!Tick \/ UNCHANGED settingsVars
  <2>1. UNCHANGED <<upSettings, envSettings, overrideSettings, liveSettings, reqSettings, unsureSettings>>
    BY <1>6 DEF M!Begin, M!CreateMonthlyPartition, M!CreateWeeklyPartition, M!DecimateStateTable,
       M!Purge, M!DropOldWeeklyPartitions, M!End, M!PurgeTable, M!InsertUnitEvent, M!InsertCall,
       M!Tick, settingsVars, M!setting
  <2> QED
    BY <2>1, SettingKept
<1> QED
  BY <1>1, <1>2, <1>3, <1>4, <1>5, <1>6 DEF M!Next

\* Wherever requests end and the process restarts, what it keeps data by is what it would
\* load, unless requests overlapped, an error was reported after the database had the value,
\* or the start could not load it (pipeline.go SetRetention, loadRetentionOverrides).
THEOREM SettingAlwaysSurvives == RecordsSpec => []SettingSurvivesRestart
<1> DEFINE Inv == part = "settings" => SettingsInv
<1>1. RecordsInit => Inv
  BY SettingsInit DEF RecordsInit
<1>2. Inv /\ [RecordsNext]_recordsVars => Inv'
  BY SettingsStep DEF RecordsNext, recordsVars
<1>3. Inv => SettingSurvivesRestart
  <2>1. SettingsInv /\ (\A r \in RequestSettings : reqSettings[r] = M!Idle) =>
          \A r \in RequestSettings : reqSettings[r].pc # "apply"
    BY DEF M!Idle
  <2> QED
    BY <2>1 DEF SettingSurvivesRestart, SettingsInv, SettingInv, M!SettingSurvivesRestart
<1> QED
  BY <1>1, <1>2, <1>3, PTL DEF RecordsSpec

-----------------------------------------------------------------------------
\* A month in which a run made partitions has one three months later; a month whose events
\* were lost has begun.
PartitionInv ==
  /\ 0 .. 3 \subseteq monthsPartitions
  /\ \A m \in madePartitions : m + 3 \in monthsPartitions
  /\ \A m \in lostPartitions : m <= P!Month(nowPartitions)

PartitionsInv == P!TypeOK /\ PartitionInv /\ P!EventsFindPartition

LEMMA PartitionsInit == P!Init => PartitionsInv
<1> SUFFICES ASSUME P!Init PROVE PartitionsInv
  OBVIOUS
<1> USE DEF P!Init, P!Value, P!Unset, P!Idle, P!Still
<1>1. PartitionInv /\ P!EventsFindPartition
  BY DEF PartitionInv, P!EventsFindPartition
<1>2. /\ 0 .. 3 \subseteq Nat /\ 0 \in 0 .. MaxTimePartitions /\ 0 \in 0 .. MaxRequestsPartitions
      /\ 0 \in 0 .. MaxFaultsPartitions
  BY PartitionsNumbers
<1> QED
  BY <1>1, <1>2 DEF PartitionsInv, P!TypeOK

LEMMA PartitionsStep == PartitionsInv /\ [P!Next]_partitionsVars => PartitionsInv'
<1> SUFFICES ASSUME PartitionsInv, [P!Next]_partitionsVars PROVE (PartitionInv /\ P!EventsFindPartition)'
  BY PartitionsTyped DEF PartitionsInv
<1>a. PICK now : now = P!Month(nowPartitions)
  OBVIOUS
<1>b. /\ now \in Nat /\ nowPartitions \in Nat /\ monthsPartitions \subseteq Nat
      /\ madePartitions \subseteq Nat /\ lostPartitions \subseteq Nat
  BY <1>a, PartitionsMonths DEF PartitionsInv, P!TypeOK
<1>c. /\ 0 .. 3 \subseteq monthsPartitions
      /\ \A m \in madePartitions : m + 3 \in monthsPartitions
      /\ \A m \in lostPartitions : m <= now
      /\ \A m \in lostPartitions : m - 3 \notin madePartitions /\ m > 3
  BY <1>a DEF PartitionsInv, PartitionInv, P!EventsFindPartition
<1>1. CASE P!CreateMonthlyPartition
  <2>1. /\ nowPartitions' = nowPartitions /\ lostPartitions' = lostPartitions
        /\ \/ monthsPartitions' = monthsPartitions \cup {now + 3} /\ madePartitions' = madePartitions \cup {now}
           \/ UNCHANGED <<monthsPartitions, madePartitions>>
    BY <1>1, <1>a DEF P!CreateMonthlyPartition
  <2>2. P!Month(nowPartitions)' = now
    BY <2>1, <1>a DEF P!Month
  <2>3. \A m \in madePartitions' : m + 3 \in monthsPartitions'
    BY <1>c, <2>1
  <2>4. \A m \in lostPartitions' : m <= now /\ m - 3 \notin madePartitions' /\ m > 3
    BY <1>b, <1>c, <2>1
  <2>5. 0 .. 3 \subseteq monthsPartitions'
    BY <1>c, <2>1
  <2> QED
    BY <2>2, <2>3, <2>4, <2>5 DEF PartitionInv, P!EventsFindPartition
<1>2. CASE P!InsertUnitEvent \/ P!InsertCall
  <2>1. /\ nowPartitions' = nowPartitions /\ madePartitions' = madePartitions
        /\ \/ monthsPartitions' = monthsPartitions \cup {now} /\ lostPartitions' = lostPartitions
           \/ monthsPartitions' = monthsPartitions /\ lostPartitions' = lostPartitions \cup {now}
        /\ now \notin monthsPartitions
    BY <1>2, <1>a DEF P!InsertUnitEvent, P!InsertCall
  <2>2. P!Month(nowPartitions)' = now
    BY <2>1, <1>a DEF P!Month
  <2>3. now > 3 /\ now - 3 \notin madePartitions
    BY <1>b, <1>c, <2>1
  <2>4. \A m \in madePartitions' : m + 3 \in monthsPartitions'
    BY <1>b, <1>c, <2>1
  <2>5. \A m \in lostPartitions' : m <= now /\ m - 3 \notin madePartitions' /\ m > 3
    <3>1. \A m \in lostPartitions' : m \in lostPartitions \/ m = now
      BY <2>1
    <3>2. /\ madePartitions' = madePartitions /\ now \in Nat
          /\ \A m \in lostPartitions : m <= now /\ m - 3 \notin madePartitions /\ m > 3
      BY <1>b, <1>c, <2>1
    <3> QED
      BY <2>3, <3>1, <3>2
  <2>6. 0 .. 3 \subseteq monthsPartitions'
    BY <1>c, <2>1
  <2> QED
    BY <2>2, <2>4, <2>5, <2>6 DEF PartitionInv, P!EventsFindPartition
<1>3. CASE P!Tick
  <2>1. nowPartitions' = nowPartitions + 1 /\ UNCHANGED <<monthsPartitions, madePartitions, lostPartitions>>
    BY <1>3 DEF P!Tick, P!tables
  <2>2. PICK then : then = P!Month(nowPartitions)'
    OBVIOUS
  <2>3. now <= then /\ then \in Int
    BY <1>a, <1>b, <2>1, <2>2, MonthsAscend DEF P!Month
  <2> QED
    BY <1>b, <1>c, <2>1, <2>2, <2>3 DEF PartitionInv, P!EventsFindPartition
<1>4. ASSUME UNCHANGED <<nowPartitions, monthsPartitions, madePartitions, lostPartitions>>
      PROVE  (PartitionInv /\ P!EventsFindPartition)'
  BY <1>4 DEF PartitionsInv, PartitionInv, P!EventsFindPartition, P!Month
<1>5. CASE \/ P!Start \/ P!Stop \/ (\E r \in RequestPartitions : P!Ask(r) \/ P!Persist(r) \/ P!Apply(r))
           \/ P!Begin \/ P!CreateWeeklyPartition \/ P!DecimateStateTable
           \/ P!Purge \/ P!DropOldWeeklyPartitions \/ P!End \/ P!PurgeTable \/ UNCHANGED partitionsVars
  BY <1>4, <1>5 DEF P!Start, P!Stop, P!Ask, P!Persist, P!Apply, P!Begin, P!CreateWeeklyPartition,
     P!DecimateStateTable, P!Purge, P!DropOldWeeklyPartitions, P!End, P!PurgeTable, partitionsVars,
     P!tables
<1> QED
  BY <1>1, <1>2, <1>3, <1>5 DEF P!Next

\* A run that works makes the partitions unit events will need in three months: only a
\* month three months after one without such a run can lack them (maintenance.go).
THEOREM PartitionAlwaysFound == RecordsSpec => []EventsFindPartition
<1> DEFINE Inv == part = "partitions" => PartitionsInv
<1>1. RecordsInit => Inv
  BY PartitionsInit DEF RecordsInit
<1>2. Inv /\ [RecordsNext]_recordsVars => Inv'
  BY PartitionsStep DEF RecordsNext, recordsVars
<1>3. Inv => EventsFindPartition
  BY DEF EventsFindPartition, PartitionsInv
<1> QED
  BY <1>1, <1>2, <1>3, PTL DEF RecordsSpec

-----------------------------------------------------------------------------
(* Identity.                                                               *)

\* Where an actor has the identity it resolved, and where a merge is in its hands.
Resolved == {"site", "write", "find", "update", "merge", "rewrite"}
Merging == {"merge", "rewrite"}

\* Only who holds r.mu is on the slow path, and only the loop reads system information,
\* so that an upload merges nothing.
ActorsInv ==
  \A a \in I!Actor : LET w == atIdentity[a] IN
    /\ w.pc \in {"lookup", "create", "site"} => mu = a
    /\ w.does = "info" => a = "loop"
    /\ w.pc \in {"find", "merge", "rewrite"} => a # "upload"

\* What an actor has in its hands: the identity it resolved, a merge of two systems, and
\* from the commit of the merge on a source that is deleted.
HandsInv ==
  \A a \in I!Actor : LET w == atIdentity[a] IN
    /\ w.pc \in Resolved => w.id \in I!System
    /\ w.pc \in Merging => w.into \in I!System /\ w.into # w.id
    /\ w.pc = "rewrite" => systems[w.id].state = "deleted"

\* What a lookup said of a site stays true while r.mu is held, or the key is in doubt.
LookupInv ==
  \A a \in I!Actor : LET w == atIdentity[a] IN
    /\ w.pc = "create" => siteOfIdentity[w.key] = 0 \/ w.key \in misled
    /\ w.pc = "site" => siteOfIdentity[w.key] \in {0, w.id} \/ w.key \in misled

\* Between commit and rewrite no site outside doubt is under the source: neither one there
\* is, nor one that is about to be created (Arriving); none is cached under it that another
\* merge of the source moved; and if the rewrite of the same merge has been done by another,
\* no merge into the source is on its way.
SourceInv ==
  \A a \in I!Actor : LET w == atIdentity[a] IN w.pc = "rewrite" =>
    /\ \A k \in KeyIdentity : siteOfIdentity[k] = w.id => k \in misled
    /\ \A k \in KeyIdentity, t \in I!System :
         (<<w.id, t>> \in merging /\ t # w.into /\ cache[k] = w.id /\ siteOfIdentity[k] = t)
           => k \in misled
    /\ \A b \in I!Actor : LET v == atIdentity[b] IN
         /\ (v.pc = "site" /\ siteOfIdentity[v.key] = 0 /\ v.id = w.id) => v.key \in misled
         /\ (v.pc = "merge" /\ v.into = w.id) => <<w.id, w.into>> \in merging

MergesInv == \A m \in merging : m[1] # m[2]

IdentityInv ==
  /\ I!TypeOK /\ I!CacheAgrees /\ I!RowsFollowTheirSite
  /\ IsFiniteSet(rowsIdentity)
  /\ ActorsInv /\ HandsInv /\ LookupInv /\ SourceInv /\ MergesInv

Place == [pc : {"idle", "lookup", "create", "site", "write", "find", "merge", "update", "rewrite"},
          key : KeyIdentity, does : {"row", "info"}, id : I!System \cup {0}, into : I!System \cup {0}]

LEMMA IdleIsPlace == I!Idle \in Place /\ I!Idle.pc = "idle" /\ I!Idle.does = "row"
BY IdentityAssumption DEF I!Idle, Place, I!NoSystem

\* How an actor's step changes where the actors are.
Goes(a, q) == q \in Place /\ atIdentity' = [atIdentity EXCEPT ![a] = q]

LEMMA GoesFacts ==
  ASSUME IdentityInv, NEW a \in I!Actor, NEW q, Goes(a, q)
  PROVE  /\ atIdentity' \in [I!Actor -> Place] /\ atIdentity'[a] = q
         /\ \A b \in I!Actor : b # a => atIdentity'[b] = atIdentity[b]
BY DEF IdentityInv, I!TypeOK, Goes, Place, I!NoSystem

LEMMA PlaceTyped ==
  ASSUME IdentityInv, NEW a \in I!Actor
  PROVE  atIdentity[a] \in Place
BY DEF IdentityInv, I!TypeOK, Place, I!NoSystem

\* The parts about actors and their hands, from what a step of one of them does.
LEMMA ActorsKept ==
  ASSUME IdentityInv, NEW a \in I!Actor, NEW q, Goes(a, q),
         mu' = mu \/ (mu = "free" /\ mu' = a) \/ (mu = a /\ mu' = "free"),
         q.pc \in {"lookup", "create", "site"} => mu' = a,
         mu = a /\ mu' = "free" => q.pc \notin {"lookup", "create", "site"},
         q.does = "info" => a = "loop",
         q.pc \in {"find", "merge", "rewrite"} => a # "upload"
  PROVE  ActorsInv'
<1> SUFFICES ASSUME NEW b \in I!Actor
             PROVE /\ atIdentity'[b].pc \in {"lookup", "create", "site"} => mu' = b
                   /\ atIdentity'[b].does = "info" => b = "loop"
                   /\ atIdentity'[b].pc \in {"find", "merge", "rewrite"} => b # "upload"
  BY DEF ActorsInv
<1>1. CASE b = a
  BY <1>1, GoesFacts
<1>2. CASE b # a
  BY <1>2, GoesFacts DEF IdentityInv, ActorsInv, I!Actor
<1> QED
  BY <1>1, <1>2

LEMMA HandsKept ==
  ASSUME IdentityInv, NEW a \in I!Actor, NEW q, Goes(a, q),
         q.pc \in Resolved => q.id \in I!System,
         q.pc \in Merging => q.into \in I!System /\ q.into # q.id,
         q.pc = "rewrite" => systems'[q.id].state = "deleted",
         \A s \in I!System : systems[s].state = "deleted" => systems'[s].state = "deleted"
  PROVE  HandsInv'
<1> SUFFICES ASSUME NEW b \in I!Actor
             PROVE /\ atIdentity'[b].pc \in Resolved => atIdentity'[b].id \in I!System
                   /\ atIdentity'[b].pc \in Merging => atIdentity'[b].into \in I!System
                                                       /\ atIdentity'[b].into # atIdentity'[b].id
                   /\ atIdentity'[b].pc = "rewrite" => systems'[atIdentity'[b].id].state = "deleted"
  BY DEF HandsInv
<1>1. CASE b = a
  BY <1>1, GoesFacts
<1>2. CASE b # a
  BY <1>2, GoesFacts DEF IdentityInv, HandsInv, Resolved
<1> QED
  BY <1>1, <1>2

\* A step that leaves the tables of sites, the cache and the merges alone, and misleads no
\* key less, disturbs what LookupInv, SourceInv and the agreement of the cache say only of
\* the actor that takes it.
LEMMA TablesKept ==
  ASSUME IdentityInv, NEW a \in I!Actor, NEW q, Goes(a, q),
         UNCHANGED <<siteOfIdentity, cache, rowsIdentity, merging>>, misled \subseteq misled',
         q.pc = "create" => siteOfIdentity[q.key] = 0 \/ q.key \in misled',
         q.pc = "site" => siteOfIdentity[q.key] \in {0, q.id} \/ q.key \in misled',
         q.pc = "site" /\ siteOfIdentity[q.key] = 0 =>
           \A b \in I!Actor : atIdentity[b].pc = "rewrite" => atIdentity[b].id # q.id,
         q.pc = "merge" =>
           \A b \in I!Actor : atIdentity[b].pc = "rewrite" => atIdentity[b].id # q.into,
         q.pc # "rewrite"
  PROVE  /\ LookupInv' /\ SourceInv' /\ MergesInv' /\ IsFiniteSet(rowsIdentity)'
         /\ I!CacheAgrees' /\ I!RowsFollowTheirSite'
<1>1. \A b \in I!Actor : \/ b = a /\ atIdentity'[b] = q
                         \/ b # a /\ atIdentity'[b] = atIdentity[b]
  BY GoesFacts
<1>2. LookupInv'
  BY <1>1 DEF IdentityInv, LookupInv
<1>3. SourceInv'
  <2> SUFFICES ASSUME NEW b \in I!Actor, atIdentity'[b].pc = "rewrite"
               PROVE
    /\ \A k \in KeyIdentity : siteOfIdentity'[k] = atIdentity'[b].id => k \in misled'
    /\ \A k \in KeyIdentity, t \in I!System :
         (/\ <<atIdentity'[b].id, t>> \in merging' /\ t # atIdentity'[b].into
          /\ cache'[k] = atIdentity'[b].id /\ siteOfIdentity'[k] = t) => k \in misled'
    /\ \A c \in I!Actor :
         /\ (/\ atIdentity'[c].pc = "site" /\ siteOfIdentity'[atIdentity'[c].key] = 0
             /\ atIdentity'[c].id = atIdentity'[b].id) => atIdentity'[c].key \in misled'
         /\ (atIdentity'[c].pc = "merge" /\ atIdentity'[c].into = atIdentity'[b].id)
              => <<atIdentity'[b].id, atIdentity'[b].into>> \in merging'
    BY DEF SourceInv
  <2>1. b # a /\ atIdentity'[b] = atIdentity[b]
    BY <1>1
  <2>2. /\ \A k \in KeyIdentity : siteOfIdentity[k] = atIdentity[b].id => k \in misled
        /\ \A k \in KeyIdentity, t \in I!System :
             (/\ <<atIdentity[b].id, t>> \in merging /\ t # atIdentity[b].into
              /\ cache[k] = atIdentity[b].id /\ siteOfIdentity[k] = t) => k \in misled
        /\ \A c \in I!Actor :
             /\ (/\ atIdentity[c].pc = "site" /\ siteOfIdentity[atIdentity[c].key] = 0
                 /\ atIdentity[c].id = atIdentity[b].id) => atIdentity[c].key \in misled
             /\ (atIdentity[c].pc = "merge" /\ atIdentity[c].into = atIdentity[b].id)
                  => <<atIdentity[b].id, atIdentity[b].into>> \in merging
    BY <2>1 DEF IdentityInv, SourceInv
  <2> QED
    BY <1>1, <2>1, <2>2
<1>4. I!CacheAgrees'
  BY DEF IdentityInv, I!CacheAgrees, I!NoSystem
<1>5. I!RowsFollowTheirSite'
  BY DEF IdentityInv, I!RowsFollowTheirSite
<1> QED
  BY <1>2, <1>3, <1>4, <1>5 DEF IdentityInv, MergesInv

\* The types, from those of the parts.
LEMMA TypesKept ==
  ASSUME IdentityInv, NEW a \in I!Actor, NEW q, Goes(a, q),
         systems' \in [I!System -> [state : {"free", "live", "deleted"}, net : {Net[k] : k \in KeyIdentity} \cup {"0"}]],
         siteOfIdentity' \in [KeyIdentity -> I!System \cup {0}], cache' \in [KeyIdentity -> I!System \cup {0}],
         rowsIdentity' \subseteq I!Row, mu' \in I!Actor \cup {"free"},
         merging' \subseteq I!System \X I!System, misled' \subseteq KeyIdentity
  PROVE  I!TypeOK'
BY GoesFacts DEF I!TypeOK, Place, I!NoSystem, I!NoNet

LEMMA IdentityMessage ==
  ASSUME IdentityInv, NEW a \in I!Actor, NEW k \in KeyIdentity, NEW d \in {"row", "info"}, I!Message(a, k, d)
  PROVE  IdentityInv'
<1>1. PICK q : q = atIdentity'[a]
  OBVIOUS
<1>2. CASE I!ResolveCached(a, k, d)
  <2>1. /\ Goes(a, q) /\ q.pc = I!AfterResolve(d) /\ q.does = d /\ q.id \in I!System
        /\ UNCHANGED <<systems, siteOfIdentity, cache, rowsIdentity, mu, merging, misled>>
    BY <1>1, <1>2 DEF I!ResolveCached, Goes, Place, IdentityInv, I!TypeOK, I!NoSystem, I!AfterResolve
  <2>2. q.pc \in {"write", "find"} /\ (q.pc = "find" => d = "info") /\ a # "admin" /\ (d = "info" => a = "loop")
    BY <2>1 DEF I!AfterResolve, I!Message
  <2>3. ActorsInv'
    BY <2>1, <2>2, ActorsKept
  <2>4. HandsInv'
    BY <2>1, <2>2, HandsKept DEF Merging
  <2>5. /\ LookupInv' /\ SourceInv' /\ MergesInv' /\ IsFiniteSet(rowsIdentity)'
        /\ I!CacheAgrees' /\ I!RowsFollowTheirSite'
    BY <2>1, <2>2, TablesKept
  <2>6. I!TypeOK'
    BY <2>1, TypesKept DEF IdentityInv, I!TypeOK, I!NoSystem, I!NoNet
  <2> QED
    BY <2>3, <2>4, <2>5, <2>6 DEF IdentityInv
<1>3. CASE I!ResolveSlowly(a, k, d)
  <2>1. /\ Goes(a, q) /\ q.pc = "lookup" /\ q.does = d
        /\ UNCHANGED <<systems, siteOfIdentity, cache, rowsIdentity, merging, misled>>
        /\ mu = "free" /\ mu' = a
    BY <1>1, <1>3, IdleIsPlace DEF I!ResolveSlowly, Goes, Place, IdentityInv, I!TypeOK, I!NoSystem
  <2>2. a # "admin" /\ (d = "info" => a = "loop")
    BY DEF I!Message
  <2>3. ActorsInv'
    BY <2>1, <2>2, ActorsKept DEF I!Actor
  <2>4. HandsInv'
    BY <2>1, HandsKept DEF Merging, Resolved
  <2>5. /\ LookupInv' /\ SourceInv' /\ MergesInv' /\ IsFiniteSet(rowsIdentity)'
        /\ I!CacheAgrees' /\ I!RowsFollowTheirSite'
    BY <2>1, TablesKept
  <2>6. I!TypeOK'
    BY <2>1, TypesKept DEF IdentityInv, I!TypeOK, I!NoSystem, I!NoNet
  <2> QED
    BY <2>3, <2>4, <2>5, <2>6 DEF IdentityInv
<1> QED
  BY <1>2, <1>3 DEF I!Message

LEMMA IdentityLookup ==
  ASSUME IdentityInv, NEW a \in I!Actor, I!Lookup(a)
  PROVE  IdentityInv'
<1>1. PICK q : q = atIdentity'[a]
  OBVIOUS
<1>2. atIdentity[a] \in Place
  BY PlaceTyped
<1>3. /\ Goes(a, q) /\ q.does = atIdentity[a].does /\ q.key = atIdentity[a].key
      /\ UNCHANGED <<systems, siteOfIdentity, cache, rowsIdentity, mu, merging>>
      /\ misled \subseteq misled' /\ misled' \subseteq KeyIdentity
      /\ \/ q.pc = "create" /\ (siteOfIdentity[q.key] = 0 \/ q.key \in misled')
         \/ q.pc = "site" /\ q.id = siteOfIdentity[q.key] /\ q.id # 0
  <2>1. CASE /\ siteOfIdentity[atIdentity[a].key] # 0
             /\ atIdentity' = [atIdentity EXCEPT ![a].pc = "site", ![a].id = siteOfIdentity[atIdentity[a].key]]
             /\ misled' = misled
    <3>1. PICK r : r = [atIdentity[a] EXCEPT !.pc = "site", !.id = siteOfIdentity[atIdentity[a].key]]
      OBVIOUS
    <3>2. /\ r \in Place /\ r.pc = "site" /\ r.id = siteOfIdentity[atIdentity[a].key]
          /\ r.key = atIdentity[a].key /\ r.does = atIdentity[a].does
      BY <1>2, <3>1 DEF Place, IdentityInv, I!TypeOK, I!NoSystem
    <3>3. atIdentity' = [atIdentity EXCEPT ![a] = r]
      BY <2>1, <3>1 DEF IdentityInv, I!TypeOK
    <3>4. q = r
      BY <1>1, <3>3 DEF IdentityInv, I!TypeOK
    <3> QED
      BY <2>1, <3>2, <3>3, <3>4 DEF Goes, I!Lookup, IdentityInv, I!TypeOK
  <2>2. CASE /\ I!Goto(a, "create") /\ misled \subseteq misled' /\ misled' \subseteq KeyIdentity
             /\ siteOfIdentity[atIdentity[a].key] = 0 \/ atIdentity[a].key \in misled'
    <3>1. PICK r : r = [atIdentity[a] EXCEPT !.pc = "create"]
      OBVIOUS
    <3>2. /\ r \in Place /\ r.pc = "create" /\ r.key = atIdentity[a].key /\ r.does = atIdentity[a].does
      BY <1>2, <3>1 DEF Place
    <3>3. atIdentity' = [atIdentity EXCEPT ![a] = r]
      BY <2>2, <3>1 DEF IdentityInv, I!TypeOK, I!Goto
    <3>4. q = r
      BY <1>1, <3>3 DEF IdentityInv, I!TypeOK
    <3> QED
      BY <2>2, <3>2, <3>3, <3>4 DEF Goes, I!Lookup
  <2> QED
    BY <1>2, <2>1, <2>2 DEF I!Lookup, IdentityInv, I!TypeOK, I!NoSystem, Place
<1>4. mu = a /\ (q.does = "info" => a = "loop")
  BY <1>3 DEF I!Lookup, IdentityInv, ActorsInv
<1>5. ActorsInv'
  BY <1>3, <1>4, ActorsKept DEF I!Actor
<1>6. HandsInv'
  BY <1>3, HandsKept DEF Merging, Resolved, Goes, Place
<1>7. /\ LookupInv' /\ SourceInv' /\ MergesInv' /\ IsFiniteSet(rowsIdentity)'
      /\ I!CacheAgrees' /\ I!RowsFollowTheirSite'
  BY <1>3, TablesKept
<1>8. I!TypeOK'
  BY <1>3, TypesKept DEF IdentityInv, I!TypeOK, I!NoSystem, I!NoNet
<1> QED
  BY <1>5, <1>6, <1>7, <1>8 DEF IdentityInv

LEMMA IdentityCreates ==
  ASSUME IdentityInv, NEW a \in I!Actor, I!CreateSystem(a)
  PROVE  IdentityInv'
<1>1. PICK q : q = atIdentity'[a]
  OBVIOUS
<1>2. atIdentity[a] \in Place
  BY PlaceTyped
<1>3. PICK s \in I!System :
        /\ systems[s].state = "free"
        /\ systems' = [systems EXCEPT ![s].state = "live"]
        /\ atIdentity' = [atIdentity EXCEPT ![a].pc = "site", ![a].id = s]
  BY DEF I!CreateSystem
<1>4. PICK r : r = [atIdentity[a] EXCEPT !.pc = "site", !.id = s]
  OBVIOUS
<1>5. /\ r \in Place /\ r.pc = "site" /\ r.id = s
      /\ r.key = atIdentity[a].key /\ r.does = atIdentity[a].does
  BY <1>2, <1>4 DEF Place
<1>6. Goes(a, q) /\ q = r
  <2>1. atIdentity' = [atIdentity EXCEPT ![a] = r]
    BY <1>3, <1>4 DEF IdentityInv, I!TypeOK
  <2> QED
    BY <1>1, <1>5, <2>1 DEF IdentityInv, I!TypeOK, Goes
<1>7. /\ UNCHANGED <<siteOfIdentity, cache, rowsIdentity, mu, merging, misled>>
      /\ atIdentity[a].pc = "create"
  BY DEF I!CreateSystem
<1>8. /\ mu = a /\ (q.does = "info" => a = "loop")
      /\ siteOfIdentity[q.key] = 0 \/ q.key \in misled
  BY <1>5, <1>6, <1>7 DEF IdentityInv, ActorsInv, LookupInv
<1>9. \A b \in I!Actor : atIdentity[b].pc = "rewrite" => atIdentity[b].id # s
  BY <1>3 DEF IdentityInv, HandsInv
<1>10. /\ systems' \in [I!System -> [state : {"free", "live", "deleted"}, net : {Net[k] : k \in KeyIdentity} \cup {"0"}]]
       /\ \A t \in I!System : systems[t].state = "deleted" => systems'[t].state = "deleted"
  BY <1>3 DEF IdentityInv, I!TypeOK, I!NoNet
<1>11. ActorsInv'
  BY <1>5, <1>6, <1>7, <1>8, ActorsKept DEF I!Actor
<1>12. HandsInv'
  BY <1>5, <1>6, <1>10, HandsKept DEF Merging
<1>13. /\ LookupInv' /\ SourceInv' /\ MergesInv' /\ IsFiniteSet(rowsIdentity)'
       /\ I!CacheAgrees' /\ I!RowsFollowTheirSite'
  BY <1>5, <1>6, <1>7, <1>8, <1>9, TablesKept
<1>14. I!TypeOK'
  BY <1>6, <1>7, <1>10, TypesKept DEF IdentityInv, I!TypeOK, I!NoSystem
<1> QED
  BY <1>11, <1>12, <1>13, <1>14 DEF IdentityInv

\* The site is put under the system found or created before, unless it has one, and the
\* key may be cached with it.
LEMMA SiteCreated ==
  ASSUME IdentityInv, NEW a \in I!Actor, atIdentity[a].pc = "site", NEW q, Goes(a, q),
         q.pc \notin {"create", "site", "merge", "rewrite"},
         UNCHANGED <<rowsIdentity, merging, misled>>,
         siteOfIdentity' \in
           {siteOfIdentity,
            [siteOfIdentity EXCEPT ![atIdentity[a].key] = IF @ = 0 THEN atIdentity[a].id ELSE @]},
         \/ cache' = cache
         \/ /\ cache' = [cache EXCEPT ![atIdentity[a].key] = atIdentity[a].id]
            /\ siteOfIdentity'[atIdentity[a].key] \in {atIdentity[a].id, siteOfIdentity[atIdentity[a].key]} \ {0}
  PROVE  /\ LookupInv' /\ SourceInv' /\ MergesInv' /\ IsFiniteSet(rowsIdentity)'
         /\ I!CacheAgrees' /\ I!RowsFollowTheirSite'
<1>1. PICK here, s : here = atIdentity[a].key /\ s = atIdentity[a].id
  OBVIOUS
<1>2. /\ here \in KeyIdentity /\ s \in I!System /\ s # 0
      /\ siteOfIdentity[here] \in {0, s} \/ here \in misled
  BY <1>1, PlaceTyped DEF IdentityInv, HandsInv, LookupInv, Resolved, Place, I!System
<1>3. \A b \in I!Actor : \/ b = a /\ atIdentity'[b] = q
                         \/ b # a /\ atIdentity'[b] = atIdentity[b]
  BY GoesFacts
<1>4. \A b \in I!Actor : b # a => atIdentity[b].pc \notin {"create", "site"}
  BY DEF IdentityInv, ActorsInv
<1>5. /\ \A k \in KeyIdentity : k # here => siteOfIdentity'[k] = siteOfIdentity[k] /\ cache'[k] = cache[k]
      /\ \/ siteOfIdentity'[here] = siteOfIdentity[here]
         \/ siteOfIdentity[here] = 0 /\ siteOfIdentity'[here] = s
      /\ \/ cache'[here] = cache[here]
         \/ cache'[here] = s /\ siteOfIdentity'[here] \in {s, siteOfIdentity[here]} \ {0}
  BY <1>1, <1>2 DEF IdentityInv, I!TypeOK
<1>6. LookupInv'
  BY <1>3, <1>4 DEF LookupInv
<1>7. I!CacheAgrees'
  <2> SUFFICES ASSUME NEW k \in KeyIdentity
               PROVE  \/ cache'[k] = siteOfIdentity'[k] \/ cache'[k] = 0 \/ k \in misled
                      \/ <<cache'[k], siteOfIdentity'[k]>> \in merging
    BY DEF I!CacheAgrees, I!NoSystem
  <2>1. \/ cache[k] = siteOfIdentity[k] \/ cache[k] = 0 \/ k \in misled
        \/ <<cache[k], siteOfIdentity[k]>> \in merging
    BY DEF IdentityInv, I!CacheAgrees, I!NoSystem
  <2>2. \A m \in merging : m[2] # 0
    BY DEF IdentityInv, I!TypeOK, I!System
  <2>3. CASE k # here
    BY <1>5, <2>1, <2>3
  <2>4. CASE k = here /\ cache'[here] = s /\ siteOfIdentity'[here] \in {s, siteOfIdentity[here]} \ {0}
    BY <1>2, <2>4
  <2>5. CASE k = here /\ cache'[here] = cache[here]
    <3>1. CASE siteOfIdentity'[here] = siteOfIdentity[here]
      BY <2>1, <2>5, <3>1
    <3>2. CASE siteOfIdentity[here] = 0 /\ siteOfIdentity'[here] = s
      BY <2>1, <2>2, <2>5, <3>2
    <3> QED
      BY <1>5, <3>1, <3>2
  <2> QED
    BY <1>5, <2>3, <2>4, <2>5
<1>8. I!RowsFollowTheirSite'
  <2> SUFFICES ASSUME NEW r \in rowsIdentity, ~r.stale PROVE r.system = siteOfIdentity'[r.key]
    BY DEF I!RowsFollowTheirSite
  <2>1. r.key \in KeyIdentity /\ r.system \in I!System /\ r.system = siteOfIdentity[r.key]
    BY DEF IdentityInv, I!TypeOK, I!Row, I!RowsFollowTheirSite
  <2> QED
    BY <1>5, <2>1 DEF I!System
<1>9. SourceInv'
  <2> SUFFICES ASSUME NEW b \in I!Actor, atIdentity'[b].pc = "rewrite"
               PROVE
    /\ \A k \in KeyIdentity : siteOfIdentity'[k] = atIdentity'[b].id => k \in misled'
    /\ \A k \in KeyIdentity, t \in I!System :
         (/\ <<atIdentity'[b].id, t>> \in merging' /\ t # atIdentity'[b].into
          /\ cache'[k] = atIdentity'[b].id /\ siteOfIdentity'[k] = t) => k \in misled'
    /\ \A c \in I!Actor :
         /\ (/\ atIdentity'[c].pc = "site" /\ siteOfIdentity'[atIdentity'[c].key] = 0
             /\ atIdentity'[c].id = atIdentity'[b].id) => atIdentity'[c].key \in misled'
         /\ (atIdentity'[c].pc = "merge" /\ atIdentity'[c].into = atIdentity'[b].id)
              => <<atIdentity'[b].id, atIdentity'[b].into>> \in merging'
    BY DEF SourceInv
  <2>1. b # a /\ atIdentity'[b] = atIdentity[b]
    BY <1>3
  <2>2. PICK w : w = atIdentity[b]
    OBVIOUS
  <2>3. /\ \A k \in KeyIdentity : siteOfIdentity[k] = w.id => k \in misled
        /\ \A k \in KeyIdentity, t \in I!System :
             (/\ <<w.id, t>> \in merging /\ t # w.into
              /\ cache[k] = w.id /\ siteOfIdentity[k] = t) => k \in misled
        /\ siteOfIdentity[here] = 0 /\ s = w.id => here \in misled
        /\ \A c \in I!Actor : (atIdentity[c].pc = "merge" /\ atIdentity[c].into = w.id)
                                => <<w.id, w.into>> \in merging
    BY <1>1, <2>1, <2>2 DEF IdentityInv, SourceInv
  <2>4. \A t \in I!System : t # 0 /\ (<<w.id, t>> \in merging => w.id # t)
    BY DEF IdentityInv, MergesInv, I!System
  <2>5. \A k \in KeyIdentity : siteOfIdentity'[k] = w.id => k \in misled
    BY <1>5, <2>3
  <2>6. \A k \in KeyIdentity, t \in I!System :
          (/\ <<w.id, t>> \in merging /\ t # w.into
           /\ cache'[k] = w.id /\ siteOfIdentity'[k] = t) => k \in misled
    <3> SUFFICES ASSUME NEW k \in KeyIdentity, NEW t \in I!System, <<w.id, t>> \in merging, t # w.into,
                        cache'[k] = w.id, siteOfIdentity'[k] = t
                 PROVE  k \in misled
      OBVIOUS
    <3>1. CASE cache'[k] = cache[k] /\ siteOfIdentity'[k] = siteOfIdentity[k]
      BY <2>3, <3>1
    <3>2. CASE k = here /\ cache[here] = cache'[here] /\ siteOfIdentity[here] = 0 /\ siteOfIdentity'[here] = s
      <4>1. cache[here] = 0 \/ here \in misled \/ <<cache[here], 0>> \in merging \/ cache[here] = siteOfIdentity[here]
        BY <1>2, <3>2 DEF IdentityInv, I!CacheAgrees, I!NoSystem
      <4>2. \A m \in merging : m[1] # 0 /\ m[2] # 0
        BY DEF IdentityInv, I!TypeOK, I!System
      <4> QED
        BY <3>2, <4>1, <4>2
    <3>3. CASE k = here /\ cache'[here] = s /\ siteOfIdentity'[here] \in {s, siteOfIdentity[here]} \ {0}
      BY <1>2, <2>4, <3>3
    <3> QED
      BY <1>5, <3>1, <3>2, <3>3
  <2> QED
    BY <1>3, <1>4, <2>1, <2>2, <2>3, <2>5, <2>6
<1> QED
  BY <1>6, <1>7, <1>8, <1>9 DEF IdentityInv, MergesInv

LEMMA GotoGoes ==
  ASSUME IdentityInv, NEW a \in I!Actor, I!Goto(a, "idle") \/ I!Goto(a, "lookup") \/ I!Goto(a, "create")
           \/ I!Goto(a, "write") \/ I!Goto(a, "find") \/ I!Goto(a, "update") \/ I!Goto(a, "rewrite")
  PROVE  /\ Goes(a, atIdentity'[a]) /\ I!Goto(a, atIdentity'[a].pc)
         /\ atIdentity'[a].key = atIdentity[a].key /\ atIdentity'[a].does = atIdentity[a].does
         /\ atIdentity'[a].id = atIdentity[a].id /\ atIdentity'[a].into = atIdentity[a].into
<1>1. ASSUME NEW x \in {"idle", "lookup", "create", "write", "find", "update", "rewrite"}, I!Goto(a, x)
      PROVE  /\ Goes(a, atIdentity'[a]) /\ I!Goto(a, atIdentity'[a].pc)
             /\ atIdentity'[a].key = atIdentity[a].key /\ atIdentity'[a].does = atIdentity[a].does
             /\ atIdentity'[a].id = atIdentity[a].id /\ atIdentity'[a].into = atIdentity[a].into
  <2>1. PICK r : r = [atIdentity[a] EXCEPT !.pc = x]
    OBVIOUS
  <2>2. /\ r \in Place /\ r.pc = x /\ r.key = atIdentity[a].key /\ r.does = atIdentity[a].does
        /\ r.id = atIdentity[a].id /\ r.into = atIdentity[a].into
    BY <2>1, PlaceTyped DEF Place
  <2>3. atIdentity' = [atIdentity EXCEPT ![a] = r]
    BY <1>1, <2>1 DEF IdentityInv, I!TypeOK, I!Goto
  <2>4. atIdentity'[a] = r
    BY <2>3 DEF IdentityInv, I!TypeOK
  <2> QED
    BY <1>1, <2>2, <2>3, <2>4 DEF Goes
<1> QED
  BY <1>1

\* The name of the step tells where it goes.
LEMMA GotoWhere ==
  ASSUME IdentityInv, NEW a \in I!Actor, NEW x, I!Goto(a, x)
  PROVE  atIdentity'[a].pc = x
BY PlaceTyped DEF IdentityInv, I!TypeOK, I!Goto, Place

LEMMA IdleGoes ==
  ASSUME IdentityInv, NEW a \in I!Actor, atIdentity' = [atIdentity EXCEPT ![a] = I!Idle]
  PROVE  Goes(a, I!Idle)
BY IdleIsPlace DEF Goes

\* The rest of a step after which its actor is idle and the sites are what they were.
LEMMA IdleKept ==
  ASSUME IdentityInv, NEW a \in I!Actor, atIdentity' = [atIdentity EXCEPT ![a] = I!Idle],
         mu' = mu \/ (mu = a /\ mu' = "free"),
         \A s \in I!System : systems[s].state = "deleted" => systems'[s].state = "deleted"
  PROVE  ActorsInv' /\ HandsInv'
<1>1. ActorsInv'
  BY IdleGoes, IdleIsPlace, ActorsKept
<1>2. HandsInv'
  BY IdleGoes, IdleIsPlace, HandsKept DEF Resolved, Merging
<1> QED
  BY <1>1, <1>2

LEMMA IdentityFindOrCreates ==
  ASSUME IdentityInv, NEW a \in I!Actor, I!FindOrCreateSite(a)
  PROVE  IdentityInv'
<1>1. PICK q : q = atIdentity'[a]
  OBVIOUS
<1>2. /\ I!Goto(a, I!AfterResolve(atIdentity[a].does)) /\ atIdentity[a].pc = "site"
      /\ UNCHANGED <<systems, rowsIdentity, merging, misled>> /\ mu' = "free"
      /\ siteOfIdentity' = [siteOfIdentity EXCEPT ![atIdentity[a].key] = IF @ = 0 THEN atIdentity[a].id ELSE @]
      /\ cache' = [cache EXCEPT ![atIdentity[a].key] = atIdentity[a].id]
  BY DEF I!FindOrCreateSite, I!NoSystem
<1>3. I!AfterResolve(atIdentity[a].does) \in {"write", "find"}
      /\ (I!AfterResolve(atIdentity[a].does) = "find" => atIdentity[a].does = "info")
  BY PlaceTyped DEF I!AfterResolve, Place
<1>4. /\ Goes(a, q) /\ q.does = atIdentity[a].does /\ q.id = atIdentity[a].id
      /\ q.pc \in {"write", "find"} /\ (q.pc = "find" => q.does = "info")
  BY <1>1, <1>2, <1>3, GotoGoes, GotoWhere
<1>5. /\ mu = a /\ (q.does = "info" => a = "loop") /\ q.id \in I!System
      /\ atIdentity[a].key \in KeyIdentity
  BY <1>2, <1>4, PlaceTyped DEF IdentityInv, ActorsInv, HandsInv, Resolved, Place
<1>6. ActorsInv'
  BY <1>2, <1>4, <1>5, ActorsKept
<1>7. HandsInv'
  BY <1>2, <1>4, <1>5, HandsKept DEF Merging
<1>8. /\ siteOfIdentity' \in [KeyIdentity -> I!System \cup {0}] /\ cache' \in [KeyIdentity -> I!System \cup {0}]
      /\ siteOfIdentity'[atIdentity[a].key] \in {atIdentity[a].id, siteOfIdentity[atIdentity[a].key]} \ {0}
  BY <1>2, <1>4, <1>5 DEF IdentityInv, I!TypeOK, I!NoSystem, I!System
<1>9. /\ LookupInv' /\ SourceInv' /\ MergesInv' /\ IsFiniteSet(rowsIdentity)'
      /\ I!CacheAgrees' /\ I!RowsFollowTheirSite'
  BY <1>2, <1>4, <1>8, SiteCreated
<1>10. I!TypeOK'
  BY <1>2, <1>4, <1>8, TypesKept DEF IdentityInv, I!TypeOK, I!NoNet
<1> QED
  BY <1>6, <1>7, <1>9, <1>10 DEF IdentityInv

LEMMA IdentityResolveFails ==
  ASSUME IdentityInv, NEW a \in I!Actor, I!ResolveFails(a)
  PROVE  IdentityInv'
<1>1. /\ atIdentity[a].pc \in {"create", "site"} /\ atIdentity' = [atIdentity EXCEPT ![a] = I!Idle]
      /\ UNCHANGED <<systems, cache, rowsIdentity, merging, misled>> /\ mu' = "free"
      /\ \/ siteOfIdentity' = siteOfIdentity
         \/ /\ atIdentity[a].pc = "site"
            /\ siteOfIdentity' = [siteOfIdentity EXCEPT ![atIdentity[a].key] = IF @ = 0 THEN atIdentity[a].id ELSE @]
  BY DEF I!ResolveFails, I!NoSystem
<1>2. mu = a
  BY <1>1 DEF IdentityInv, ActorsInv
<1>3. ActorsInv' /\ HandsInv'
  BY <1>1, <1>2, IdleKept
<1>4. siteOfIdentity' \in [KeyIdentity -> I!System \cup {0}]
  BY <1>1, PlaceTyped DEF IdentityInv, I!TypeOK, I!NoSystem, HandsInv, Resolved, Place
<1>5. /\ LookupInv' /\ SourceInv' /\ MergesInv' /\ IsFiniteSet(rowsIdentity)'
      /\ I!CacheAgrees' /\ I!RowsFollowTheirSite'
  <2>1. CASE siteOfIdentity' = siteOfIdentity
    BY <1>1, <2>1, IdleGoes, IdleIsPlace, TablesKept
  <2>2. CASE atIdentity[a].pc = "site"
    BY <1>1, <2>2, IdleGoes, IdleIsPlace, SiteCreated
  <2> QED
    BY <1>1, <2>1, <2>2
<1>6. I!TypeOK'
  BY <1>1, <1>4, IdleGoes, TypesKept DEF IdentityInv, I!TypeOK, I!NoSystem, I!NoNet
<1> QED
  BY <1>3, <1>5, <1>6 DEF IdentityInv

LEMMA RowsCounted == \A E : I!Cardinality(E) = Cardinality(E)
BY DEF I!Cardinality, Cardinality

\* A row is one more, under what its handler resolved.
LEMMA IdentityWritesRow ==
  ASSUME IdentityInv, NEW a \in I!Actor, I!WriteRow(a)
  PROVE  IdentityInv'
<1>1. /\ atIdentity[a].pc = "write" /\ atIdentity' = [atIdentity EXCEPT ![a] = I!Idle]
      /\ UNCHANGED <<systems, siteOfIdentity, cache, mu, merging, misled>>
  BY DEF I!WriteRow
<1>2. PICK r : r = [n |-> Cardinality(rowsIdentity) + 1, key |-> atIdentity[a].key,
                    system |-> atIdentity[a].id,
                    stale |-> atIdentity[a].id # siteOfIdentity[atIdentity[a].key]]
  OBVIOUS
<1>3. /\ rowsIdentity' = rowsIdentity \/ rowsIdentity' = rowsIdentity \cup {r}
      /\ rowsIdentity' # rowsIdentity => Cardinality(rowsIdentity) < MaxRowsIdentity
  BY <1>2, RowsCounted DEF I!WriteRow
<1>4. Cardinality(rowsIdentity) \in Nat /\ IsFiniteSet(rowsIdentity)'
  BY <1>3, FS_CardinalityType, FS_AddElement DEF IdentityInv
<1>5. rowsIdentity' # rowsIdentity => Cardinality(rowsIdentity) + 1 \in 1 .. MaxRowsIdentity
  BY <1>3, <1>4, IdentityAssumption
<1>6. atIdentity[a].id \in I!System /\ atIdentity[a].key \in KeyIdentity
  BY <1>1, PlaceTyped DEF IdentityInv, HandsInv, Resolved, Place
<1>7. rowsIdentity' \subseteq I!Row
  <2>1. CASE rowsIdentity' = rowsIdentity
    BY <2>1 DEF IdentityInv, I!TypeOK
  <2>2. CASE rowsIdentity' # rowsIdentity
    <3>1. PICK m, z : m = Cardinality(rowsIdentity) + 1 /\ z = (atIdentity[a].id # siteOfIdentity[atIdentity[a].key])
      OBVIOUS
    <3>2. m \in 1 .. MaxRowsIdentity
      BY <1>5, <2>2, <3>1
    <3>3. z \in BOOLEAN
      BY <3>1
    <3>4. r \in I!Row
      BY <1>2, <1>6, <3>1, <3>2, <3>3 DEF I!Row
    <3> QED
      BY <1>3, <2>2, <3>4 DEF IdentityInv, I!TypeOK
  <2> QED
    BY <2>1, <2>2
<1>8. I!RowsFollowTheirSite'
  <2>1. r.stale \/ r.system = siteOfIdentity[r.key]
    BY <1>2
  <2> QED
    BY <1>1, <1>3, <2>1 DEF IdentityInv, I!RowsFollowTheirSite
<1>9. ActorsInv' /\ HandsInv'
  BY <1>1, IdleKept
<1>10. LookupInv' /\ SourceInv' /\ MergesInv' /\ I!CacheAgrees'
  <2>1. \A b \in I!Actor : \/ atIdentity'[b].pc = "idle"
                           \/ atIdentity'[b] = atIdentity[b]
    BY <1>1, IdleGoes, IdleIsPlace, GoesFacts
  <2>2. LookupInv' /\ MergesInv' /\ I!CacheAgrees'
    BY <1>1, <2>1 DEF IdentityInv, LookupInv, MergesInv, I!CacheAgrees
  <2>3. SourceInv'
    BY <1>1, <2>1 DEF IdentityInv, SourceInv
  <2> QED
    BY <2>2, <2>3
<1>11. I!TypeOK'
  BY <1>1, <1>7, IdleGoes, TypesKept DEF IdentityInv, I!TypeOK, I!NoSystem, I!NoNet
<1> QED
  BY <1>4, <1>8, <1>9, <1>10, <1>11 DEF IdentityInv

\* A search that ends in an update, an update, and a statement that fails.
LEMMA IdentitySearches ==
  ASSUME IdentityInv, NEW a \in I!Actor, I!FindSystemBySysidWacn(a)
  PROVE  IdentityInv'
<1>1. PICK q : q = atIdentity'[a]
  OBVIOUS
<1>2. /\ atIdentity[a].pc = "find"
      /\ UNCHANGED <<systems, siteOfIdentity, cache, rowsIdentity, mu, merging, misled>>
      /\ \/ I!Goto(a, "update")
         \/ \E s \in I!System : /\ systems[s].state = "live" /\ s # atIdentity[a].id
                                /\ atIdentity' = [atIdentity EXCEPT ![a].pc = "merge", ![a].into = s]
  BY DEF I!FindSystemBySysidWacn, I!Live
<1>3. /\ atIdentity[a].id \in I!System /\ atIdentity[a] \in Place /\ a # "upload"
      /\ (atIdentity[a].does = "info" => a = "loop")
  BY <1>2, PlaceTyped DEF IdentityInv, HandsInv, ActorsInv, Resolved
<1>4. /\ Goes(a, q) /\ q.does = atIdentity[a].does /\ q.id = atIdentity[a].id
      /\ \/ q.pc = "update"
         \/ q.pc = "merge" /\ q.into \in I!System /\ q.into # q.id /\ systems[q.into].state = "live"
  <2>1. CASE I!Goto(a, "update")
    BY <1>1, <2>1, GotoGoes, GotoWhere
  <2>2. ASSUME NEW s \in I!System, systems[s].state = "live", s # atIdentity[a].id,
               atIdentity' = [atIdentity EXCEPT ![a].pc = "merge", ![a].into = s]
        PROVE  /\ Goes(a, q) /\ q.does = atIdentity[a].does /\ q.id = atIdentity[a].id
               /\ q.pc = "merge" /\ q.into = s
    <3>1. PICK r : r = [atIdentity[a] EXCEPT !.pc = "merge", !.into = s]
      OBVIOUS
    <3>2. /\ r \in Place /\ r.pc = "merge" /\ r.into = s /\ r.id = atIdentity[a].id
          /\ r.does = atIdentity[a].does
      BY <1>3, <3>1 DEF Place
    <3>3. atIdentity' = [atIdentity EXCEPT ![a] = r]
      BY <2>2, <3>1 DEF IdentityInv, I!TypeOK
    <3>4. q = r
      BY <1>1, <3>3 DEF IdentityInv, I!TypeOK
    <3> QED
      BY <3>2, <3>3, <3>4 DEF Goes
  <2> QED
    BY <1>2, <2>1, <2>2
<1>5. ActorsInv'
  BY <1>2, <1>3, <1>4, ActorsKept DEF I!Actor
<1>6. HandsInv'
  BY <1>2, <1>3, <1>4, HandsKept DEF Merging
<1>7. q.pc = "merge" => \A b \in I!Actor : atIdentity[b].pc = "rewrite" => atIdentity[b].id # q.into
  BY <1>4 DEF IdentityInv, HandsInv
<1>8. /\ LookupInv' /\ SourceInv' /\ MergesInv' /\ IsFiniteSet(rowsIdentity)'
      /\ I!CacheAgrees' /\ I!RowsFollowTheirSite'
  BY <1>2, <1>4, <1>7, TablesKept
<1>9. I!TypeOK'
  BY <1>2, <1>4, TypesKept DEF IdentityInv, I!TypeOK, I!NoSystem, I!NoNet
<1> QED
  BY <1>5, <1>6, <1>8, <1>9 DEF IdentityInv

LEMMA IdentityEnds ==
  ASSUME IdentityInv, NEW a \in I!Actor, I!UpdateSystemIdentity(a) \/ I!StatementFails(a)
  PROVE  IdentityInv'
<1>1. /\ atIdentity' = [atIdentity EXCEPT ![a] = I!Idle]
      /\ UNCHANGED <<siteOfIdentity, cache, rowsIdentity, mu, merging, misled>>
  BY DEF I!UpdateSystemIdentity, I!StatementFails
<1>2. /\ systems' \in [I!System -> [state : {"free", "live", "deleted"}, net : {Net[k] : k \in KeyIdentity} \cup {"0"}]]
      /\ \A s \in I!System : systems'[s].state = systems[s].state
  <2>1. CASE I!StatementFails(a)
    BY <2>1 DEF IdentityInv, I!TypeOK, I!StatementFails, I!NoNet
  <2>2. CASE I!UpdateSystemIdentity(a)
    <3>1. /\ atIdentity[a].id \in I!System /\ atIdentity[a].key \in KeyIdentity
      BY <2>2, PlaceTyped DEF IdentityInv, HandsInv, Resolved, Place, I!UpdateSystemIdentity
    <3>2. PICK y : /\ y \in {Net[k] : k \in KeyIdentity} \cup {"0"}
                   /\ systems' = [systems EXCEPT ![atIdentity[a].id].net = y]
      BY <2>2, <3>1 DEF IdentityInv, I!TypeOK, I!UpdateSystemIdentity, I!NoNet
    <3> QED
      BY <3>1, <3>2 DEF IdentityInv, I!TypeOK, I!NoNet
  <2> QED
    BY <2>1, <2>2
<1>3. ActorsInv' /\ HandsInv'
  BY <1>1, <1>2, IdleKept
<1>4. /\ LookupInv' /\ SourceInv' /\ MergesInv' /\ IsFiniteSet(rowsIdentity)'
      /\ I!CacheAgrees' /\ I!RowsFollowTheirSite'
  BY <1>1, IdleGoes, IdleIsPlace, TablesKept
<1>5. I!TypeOK'
  BY <1>1, <1>2, IdleGoes, TypesKept DEF IdentityInv, I!TypeOK, I!NoSystem
<1> QED
  BY <1>3, <1>4, <1>5 DEF IdentityInv

LEMMA IdentityAsks ==
  ASSUME IdentityInv, NEW s \in I!System, NEW t \in I!System, I!AskMerge(s, t)
  PROVE  IdentityInv'
<1>1. PICK q : q = [I!Idle EXCEPT !.pc = "merge", !.id = s, !.into = t]
  OBVIOUS
<1>2. q \in Place /\ q.pc = "merge" /\ q.id = s /\ q.into = t /\ q.does = "row"
  BY <1>1, IdleIsPlace DEF Place
<1>3. /\ Goes("admin", q) /\ s # t /\ systems[t].state = "live" /\ "admin" \in I!Actor
      /\ UNCHANGED <<systems, siteOfIdentity, cache, rowsIdentity, mu, merging, misled>>
  BY <1>1, <1>2 DEF I!AskMerge, I!Live, Goes, I!Actor
<1>4. ActorsInv'
  BY <1>2, <1>3, ActorsKept
<1>5. HandsInv'
  BY <1>2, <1>3, HandsKept
<1>6. \A b \in I!Actor : atIdentity[b].pc = "rewrite" => atIdentity[b].id # q.into
  BY <1>2, <1>3 DEF IdentityInv, HandsInv
<1>7. /\ LookupInv' /\ SourceInv' /\ MergesInv' /\ IsFiniteSet(rowsIdentity)'
      /\ I!CacheAgrees' /\ I!RowsFollowTheirSite'
  BY <1>2, <1>3, <1>6, TablesKept
<1>8. I!TypeOK'
  BY <1>3, TypesKept DEF IdentityInv, I!TypeOK, I!NoSystem, I!NoNet
<1> QED
  BY <1>4, <1>5, <1>7, <1>8 DEF IdentityInv

\* What the transaction of a merge of s into t does to the sites, and the keys it leaves in
\* doubt.
LEMMA MergeFacts ==
  ASSUME IdentityInv, NEW a \in I!Actor, I!MergeSystems(a), NEW s, NEW t,
         s = atIdentity[a].id, t = atIdentity[a].into
  PROVE  /\ s \in I!System /\ t \in I!System /\ s # t /\ s # 0 /\ t # 0
         /\ Goes(a, atIdentity'[a]) /\ atIdentity'[a].pc = "rewrite"
         /\ atIdentity'[a].id = s /\ atIdentity'[a].into = t /\ atIdentity'[a].does = atIdentity[a].does
         /\ atIdentity[a].pc = "merge" /\ UNCHANGED <<cache, mu>>
         /\ merging' = merging \cup {<<s, t>>}
         /\ \A k \in KeyIdentity : siteOfIdentity'[k] = IF siteOfIdentity[k] = s THEN t ELSE siteOfIdentity[k]
         /\ misled \subseteq misled' /\ misled' \subseteq KeyIdentity
         /\ \A b \in I!Actor : atIdentity[b].pc = "site" /\ atIdentity[b].id = s => atIdentity[b].key \in misled'
         /\ \A m \in merging, k \in KeyIdentity : siteOfIdentity[k] \in {s, m[1], m[2]} => k \in misled'
<1> USE DEF I!MergeSystems
<1>1. s \in I!System /\ t \in I!System /\ s # t /\ s # 0 /\ t # 0
  BY DEF IdentityInv, HandsInv, Resolved, Merging, I!System
<1>2. /\ Goes(a, atIdentity'[a]) /\ atIdentity'[a].pc = "rewrite"
      /\ atIdentity'[a].id = s /\ atIdentity'[a].into = t /\ atIdentity'[a].does = atIdentity[a].does
  BY GotoGoes, GotoWhere
<1>3. \A k \in KeyIdentity : siteOfIdentity'[k] = IF siteOfIdentity[k] = s THEN t ELSE siteOfIdentity[k]
  BY DEF I!SitesMoved, I!Under
<1>4. misled' = misled \cup I!InDoubt(s)
  OBVIOUS
<1>5. I!InDoubt(s) \subseteq KeyIdentity
  BY PlaceTyped DEF I!InDoubt, Place
<1>6. \A b \in I!Actor : atIdentity[b].pc = "site" /\ atIdentity[b].id = s => atIdentity[b].key \in I!InDoubt(s)
  BY DEF I!InDoubt
<1>7. ASSUME NEW m \in merging, NEW k \in KeyIdentity, siteOfIdentity[k] \in {s, m[1], m[2]}
      PROVE  k \in I!InDoubt(s)
  <2>1. {m[1], m[2]} \in {{n[1], n[2]} : n \in merging}
    OBVIOUS
  <2>2. siteOfIdentity[k] \in {s} \cup UNION {{n[1], n[2]} : n \in merging}
    BY <1>7, <2>1
  <2>3. merging # {}
    OBVIOUS
  <2> QED
    BY <2>2, <2>3 DEF I!InDoubt
<1> QED
  BY <1>1, <1>2, <1>3, <1>4, <1>5, <1>6, <1>7 DEF IdentityInv, I!TypeOK

LEMMA IdentityMerges ==
  ASSUME IdentityInv, NEW a \in I!Actor, I!MergeSystems(a)
  PROVE  IdentityInv'
<1>1. PICK s, t, q : s = atIdentity[a].id /\ t = atIdentity[a].into /\ q = atIdentity'[a]
  OBVIOUS
<1>2. /\ s \in I!System /\ t \in I!System /\ s # t /\ s # 0 /\ t # 0
      /\ Goes(a, q) /\ q.pc = "rewrite" /\ q.id = s /\ q.into = t /\ q.does = atIdentity[a].does
      /\ atIdentity[a].pc = "merge" /\ UNCHANGED <<cache, mu>>
      /\ merging' = merging \cup {<<s, t>>}
      /\ misled \subseteq misled' /\ misled' \subseteq KeyIdentity
  BY <1>1, MergeFacts
<1>3. \A k \in KeyIdentity : siteOfIdentity'[k] = IF siteOfIdentity[k] = s THEN t ELSE siteOfIdentity[k]
  BY <1>1, MergeFacts
<1>4. \A b \in I!Actor : atIdentity[b].pc = "site" /\ atIdentity[b].id = s => atIdentity[b].key \in misled'
  BY <1>1, MergeFacts
<1>5. \A m \in merging, k \in KeyIdentity : siteOfIdentity[k] \in {s, m[1], m[2]} => k \in misled'
  BY <1>1, MergeFacts
<1>6. \A b \in I!Actor : \/ b = a /\ atIdentity'[b] = q
                         \/ b # a /\ atIdentity'[b] = atIdentity[b]
  BY <1>2, GoesFacts
<1>7. /\ systems' \in [I!System -> [state : {"free", "live", "deleted"}, net : {Net[k] : k \in KeyIdentity} \cup {"0"}]]
      /\ systems'[s].state = "deleted"
      /\ \A u \in I!System : systems[u].state = "deleted" => systems'[u].state = "deleted"
  <2>1. systems' = [systems EXCEPT ![s].state = "deleted"]
    BY <1>1 DEF I!MergeSystems
  <2>2. PICK y : y = [systems[s] EXCEPT !.state = "deleted"]
    OBVIOUS
  <2>3. systems \in [I!System -> [state : {"free", "live", "deleted"}, net : {Net[k] : k \in KeyIdentity} \cup {"0"}]]
    BY DEF IdentityInv, I!TypeOK, I!NoNet
  <2>4. y \in [state : {"free", "live", "deleted"}, net : {Net[k] : k \in KeyIdentity} \cup {"0"}] /\ y.state = "deleted"
    BY <1>2, <2>2, <2>3
  <2>5. systems' = [systems EXCEPT ![s] = y]
    BY <1>2, <2>1, <2>2, <2>3
  <2> QED
    BY <1>2, <2>3, <2>4, <2>5
<1>8. ActorsInv'
  BY <1>2, ActorsKept DEF IdentityInv, ActorsInv
<1>9. HandsInv'
  BY <1>2, <1>7, HandsKept
<1>10. LookupInv'
  BY <1>2, <1>3, <1>4, <1>6, PlaceTyped DEF IdentityInv, LookupInv, Place
<1>11. MergesInv'
  BY <1>2 DEF IdentityInv, MergesInv
<1>12. rowsIdentity' \subseteq I!Row /\ IsFiniteSet(rowsIdentity)' /\ I!RowsFollowTheirSite'
  <2>1. rowsIdentity' = {[r EXCEPT !.system = I!Under(t, s, @)] : r \in rowsIdentity}
    BY <1>1 DEF I!MergeSystems, I!RowsMoved
  <2>2. \A r \in rowsIdentity :
          LET y == [r EXCEPT !.system = I!Under(t, s, @)]
          IN  y \in I!Row /\ (y.stale \/ y.system = siteOfIdentity'[y.key])
    BY <1>2, <1>3 DEF IdentityInv, I!TypeOK, I!Row, I!RowsFollowTheirSite, I!Under
  <2>3. IsFiniteSet(rowsIdentity)'
    <3>1. PICK f : f = [r \in rowsIdentity |-> [r EXCEPT !.system = I!Under(t, s, @)]]
      OBVIOUS
    <3>2. f \in Surjection(rowsIdentity, rowsIdentity')
      BY <2>1, <3>1 DEF Surjection
    <3> QED
      BY <3>2, FS_Surjection DEF IdentityInv
  <2> QED
    BY <2>1, <2>2, <2>3 DEF I!RowsFollowTheirSite
<1>13. I!CacheAgrees'
  <2> SUFFICES ASSUME NEW k \in KeyIdentity
               PROVE  \/ cache[k] = siteOfIdentity'[k] \/ cache[k] = 0 \/ k \in misled'
                      \/ <<cache[k], siteOfIdentity'[k]>> \in merging'
    BY <1>2 DEF I!CacheAgrees, I!NoSystem
  <2>1. \/ cache[k] = siteOfIdentity[k] \/ cache[k] = 0 \/ k \in misled
        \/ <<cache[k], siteOfIdentity[k]>> \in merging
    BY DEF IdentityInv, I!CacheAgrees, I!NoSystem
  <2>2. CASE siteOfIdentity[k] = s
    BY <1>2, <1>3, <1>5, <2>1, <2>2
  <2>3. CASE siteOfIdentity[k] # s
    BY <1>2, <1>3, <2>1, <2>3
  <2> QED
    BY <2>2, <2>3
<1>14. SourceInv'
  <2> SUFFICES ASSUME NEW b \in I!Actor, atIdentity'[b].pc = "rewrite"
               PROVE
    /\ \A k \in KeyIdentity : siteOfIdentity'[k] = atIdentity'[b].id => k \in misled'
    /\ \A k \in KeyIdentity, u \in I!System :
         (/\ <<atIdentity'[b].id, u>> \in merging' /\ u # atIdentity'[b].into
          /\ cache'[k] = atIdentity'[b].id /\ siteOfIdentity'[k] = u) => k \in misled'
    /\ \A c \in I!Actor :
         /\ (/\ atIdentity'[c].pc = "site" /\ siteOfIdentity'[atIdentity'[c].key] = 0
             /\ atIdentity'[c].id = atIdentity'[b].id) => atIdentity'[c].key \in misled'
         /\ (atIdentity'[c].pc = "merge" /\ atIdentity'[c].into = atIdentity'[b].id)
              => <<atIdentity'[b].id, atIdentity'[b].into>> \in merging'
    BY DEF SourceInv
  <2>1. PICK w : w = atIdentity'[b]
    OBVIOUS
  <2>2. CASE b = a
    <3>1. w = q
      BY <1>1, <2>1, <2>2
    <3>2. \A k \in KeyIdentity : siteOfIdentity'[k] # s
      BY <1>2, <1>3
    <3>3. ASSUME NEW k \in KeyIdentity, NEW u \in I!System, <<s, u>> \in merging', u # t, cache[k] = s,
                 siteOfIdentity'[k] = u
          PROVE  k \in misled'
      <4>1. <<s, u>> \in merging
        BY <1>2, <3>3
      <4>2. siteOfIdentity[k] = u
        BY <1>3, <3>3
      <4> QED
        BY <1>5, <4>1, <4>2
    <3>4. \A c \in I!Actor : /\ (atIdentity'[c].pc = "site" /\ atIdentity'[c].id = s) => atIdentity'[c].key \in misled'
      BY <1>2, <1>4, <1>6
    <3> QED
      BY <1>2, <2>1, <3>1, <3>2, <3>3, <3>4
  <2>3. CASE b # a
    <3>1. w = atIdentity[b] /\ w.pc = "rewrite"
      BY <1>6, <2>1, <2>3
    <3>2. /\ \A k \in KeyIdentity : siteOfIdentity[k] = w.id => k \in misled
          /\ \A k \in KeyIdentity, u \in I!System :
               (/\ <<w.id, u>> \in merging /\ u # w.into
                /\ cache[k] = w.id /\ siteOfIdentity[k] = u) => k \in misled
          /\ \A c \in I!Actor :
               /\ (/\ atIdentity[c].pc = "site" /\ siteOfIdentity[atIdentity[c].key] = 0
                   /\ atIdentity[c].id = w.id) => atIdentity[c].key \in misled
               /\ (atIdentity[c].pc = "merge" /\ atIdentity[c].into = w.id) => <<w.id, w.into>> \in merging
      BY <3>1 DEF IdentityInv, SourceInv
    <3>3. w.id \in I!System /\ w.into \in I!System
      BY <3>1 DEF IdentityInv, HandsInv, Resolved, Merging
    <3>4. t = w.id => <<w.id, w.into>> \in merging
      BY <1>1, <1>2, <3>2
    <3>5. \A k \in KeyIdentity : siteOfIdentity'[k] = w.id => k \in misled'
      <4> SUFFICES ASSUME NEW k \in KeyIdentity, siteOfIdentity'[k] = w.id PROVE k \in misled'
        OBVIOUS
      <4>1. CASE siteOfIdentity[k] = s
        BY <1>3, <1>5, <3>4, <4>1
      <4>2. CASE siteOfIdentity[k] # s
        BY <1>2, <1>3, <3>2, <4>2
      <4> QED
        BY <4>1, <4>2
    <3>6. ASSUME NEW k \in KeyIdentity, NEW u \in I!System, <<w.id, u>> \in merging', u # w.into,
                 cache[k] = w.id, siteOfIdentity'[k] = u
          PROVE  k \in misled'
      <4>1. CASE siteOfIdentity[k] = u /\ <<w.id, u>> \in merging
        BY <1>2, <3>2, <3>6, <4>1
      <4>2. CASE siteOfIdentity[k] # u /\ <<w.id, u>> \in merging
        BY <1>3, <1>5, <3>6, <4>2
      <4>3. CASE <<w.id, u>> \notin merging
        <5>1. w.id = s /\ u = t
          BY <1>2, <3>6, <4>3
        <5>2. \/ cache[k] = siteOfIdentity[k] \/ cache[k] = 0 \/ k \in misled
              \/ <<cache[k], siteOfIdentity[k]>> \in merging
          BY DEF IdentityInv, I!CacheAgrees, I!NoSystem
        <5> QED
          BY <1>2, <1>3, <3>2, <3>6, <4>3, <5>1, <5>2
      <4> QED
        BY <4>1, <4>2, <4>3
    <3>7. \A c \in I!Actor :
            (/\ atIdentity'[c].pc = "site" /\ siteOfIdentity'[atIdentity'[c].key] = 0
             /\ atIdentity'[c].id = w.id) => atIdentity'[c].key \in misled'
      <4> SUFFICES ASSUME NEW c \in I!Actor, atIdentity'[c].pc = "site",
                          siteOfIdentity'[atIdentity'[c].key] = 0, atIdentity'[c].id = w.id
                   PROVE  atIdentity'[c].key \in misled'
        OBVIOUS
      <4>1. atIdentity'[c] = atIdentity[c] /\ atIdentity[c].key \in KeyIdentity
        BY <1>2, <1>6, PlaceTyped DEF Place
      <4>2. siteOfIdentity[atIdentity[c].key] = 0
        BY <1>2, <1>3, <4>1
      <4> QED
        BY <1>2, <3>2, <4>1, <4>2
    <3>8. \A c \in I!Actor :
            (atIdentity'[c].pc = "merge" /\ atIdentity'[c].into = w.id) => <<w.id, w.into>> \in merging'
      BY <1>2, <1>6, <3>2
    <3> QED
      BY <1>2, <2>1, <3>5, <3>6, <3>7, <3>8
  <2> QED
    BY <2>2, <2>3
<1>15. I!TypeOK'
  <2>1. siteOfIdentity' = [k \in KeyIdentity |-> I!Under(t, s, siteOfIdentity[k])]
    BY <1>1 DEF I!MergeSystems, I!SitesMoved
  <2>2. siteOfIdentity' \in [KeyIdentity -> I!System \cup {0}]
    BY <1>2, <2>1 DEF IdentityInv, I!TypeOK, I!Under, I!NoSystem
  <2> QED
    BY <1>2, <1>7, <1>12, <2>2, TypesKept DEF IdentityInv, I!TypeOK, I!NoSystem
<1> QED
  BY <1>8, <1>9, <1>10, <1>11, <1>12, <1>13, <1>14, <1>15 DEF IdentityInv

\* The rewrite of the cache, under r.mu: nobody is on the slow path.
LEMMA IdentityRewrites ==
  ASSUME IdentityInv, NEW a \in I!Actor, I!RewriteSystemID(a)
  PROVE  IdentityInv'
<1>1. PICK s, t : s = atIdentity[a].id /\ t = atIdentity[a].into
  OBVIOUS
<1>2. /\ atIdentity[a].pc = "rewrite" /\ mu = "free" /\ merging' = merging \ {<<s, t>>}
      /\ cache' = [k \in KeyIdentity |-> IF cache[k] = s THEN t ELSE cache[k]]
      /\ atIdentity' = [atIdentity EXCEPT ![a] = I!Idle]
      /\ UNCHANGED <<systems, siteOfIdentity, rowsIdentity, mu, misled>>
  BY <1>1 DEF I!RewriteSystemID, I!Under
<1>3. s \in I!System /\ t \in I!System /\ s # t /\ s # 0 /\ t # 0
  BY <1>1, <1>2 DEF IdentityInv, HandsInv, Resolved, Merging, I!System
<1>4. ActorsInv' /\ HandsInv'
  BY <1>2, IdleKept
<1>5. \A b \in I!Actor : \/ b = a /\ atIdentity'[b] = I!Idle
                         \/ b # a /\ atIdentity'[b] = atIdentity[b]
  BY <1>2, IdleGoes, GoesFacts
<1>6. LookupInv' /\ MergesInv' /\ IsFiniteSet(rowsIdentity)' /\ I!RowsFollowTheirSite'
  BY <1>2, <1>5, IdleIsPlace DEF IdentityInv, LookupInv, MergesInv, I!RowsFollowTheirSite
<1>7. /\ \A k \in KeyIdentity : siteOfIdentity[k] = s => k \in misled
      /\ \A k \in KeyIdentity, u \in I!System :
           (<<s, u>> \in merging /\ u # t /\ cache[k] = s /\ siteOfIdentity[k] = u) => k \in misled
  BY <1>1, <1>2 DEF IdentityInv, SourceInv
<1>8. \A k \in KeyIdentity : \/ cache[k] = siteOfIdentity[k] \/ cache[k] = 0 \/ k \in misled
                     \/ <<cache[k], siteOfIdentity[k]>> \in merging
  BY DEF IdentityInv, I!CacheAgrees, I!NoSystem
<1>9. \A m \in merging : m[1] # m[2] /\ m \in I!System \X I!System
  BY DEF IdentityInv, I!TypeOK, MergesInv
<1>10. I!CacheAgrees'
  <2> SUFFICES ASSUME NEW k \in KeyIdentity
               PROVE  \/ cache'[k] = siteOfIdentity[k] \/ cache'[k] = 0 \/ k \in misled
                      \/ <<cache'[k], siteOfIdentity[k]>> \in merging'
    BY <1>2 DEF I!CacheAgrees, I!NoSystem
  <2>1. CASE cache[k] = s
    <3>1. cache'[k] = t
      BY <1>2, <2>1
    <3>2. CASE <<s, siteOfIdentity[k]>> \in merging
      BY <1>7, <1>9, <2>1, <3>1, <3>2
    <3> QED
      BY <1>3, <1>7, <1>8, <2>1, <3>2
  <2>2. CASE cache[k] # s
    BY <1>2, <1>8, <2>2
  <2> QED
    BY <2>1, <2>2
<1>11. SourceInv'
  <2> SUFFICES ASSUME NEW b \in I!Actor, atIdentity'[b].pc = "rewrite"
               PROVE
    /\ \A k \in KeyIdentity : siteOfIdentity'[k] = atIdentity'[b].id => k \in misled'
    /\ \A k \in KeyIdentity, u \in I!System :
         (/\ <<atIdentity'[b].id, u>> \in merging' /\ u # atIdentity'[b].into
          /\ cache'[k] = atIdentity'[b].id /\ siteOfIdentity'[k] = u) => k \in misled'
    /\ \A c \in I!Actor :
         /\ (/\ atIdentity'[c].pc = "site" /\ siteOfIdentity'[atIdentity'[c].key] = 0
             /\ atIdentity'[c].id = atIdentity'[b].id) => atIdentity'[c].key \in misled'
         /\ (atIdentity'[c].pc = "merge" /\ atIdentity'[c].into = atIdentity'[b].id)
              => <<atIdentity'[b].id, atIdentity'[b].into>> \in merging'
    BY DEF SourceInv
  <2>1. PICK w : w = atIdentity[b]
    OBVIOUS
  <2>2. b # a /\ atIdentity'[b] = w /\ w.pc = "rewrite"
    BY <1>5, <2>1, IdleIsPlace
  <2>3. /\ \A k \in KeyIdentity : siteOfIdentity[k] = w.id => k \in misled
        /\ \A k \in KeyIdentity, u \in I!System :
             (/\ <<w.id, u>> \in merging /\ u # w.into
              /\ cache[k] = w.id /\ siteOfIdentity[k] = u) => k \in misled
    BY <2>1, <2>2 DEF IdentityInv, SourceInv
  <2>4. ASSUME NEW k \in KeyIdentity, NEW u \in I!System, <<w.id, u>> \in merging', u # w.into,
               cache'[k] = w.id, siteOfIdentity[k] = u
        PROVE  k \in misled
    <3>1. CASE cache[k] = s
      <4>1. w.id = t
        BY <1>2, <2>4, <3>1
      <4> QED
        BY <1>2, <1>3, <1>7, <1>8, <1>9, <2>4, <3>1, <4>1
    <3>2. CASE cache[k] # s
      BY <1>2, <2>3, <2>4, <3>2
    <3> QED
      BY <3>1, <3>2
  <2>5. \A c \in I!Actor : atIdentity'[c].pc \notin {"site", "merge"}
    <3> SUFFICES ASSUME NEW c \in I!Actor PROVE atIdentity'[c].pc \notin {"site", "merge"}
      OBVIOUS
    <3>1. CASE c = a \/ c = b
      BY <1>5, <2>2, <3>1, IdleIsPlace
    <3>2. CASE c # a /\ c # b
      <4>1. a # "upload" /\ b # "upload"
        BY <1>2, <2>1, <2>2 DEF IdentityInv, ActorsInv
      <4>2. c = "upload"
        BY <2>2, <3>2, <4>1 DEF I!Actor
      <4> QED
        BY <1>2, <1>5, <3>2, <4>2 DEF IdentityInv, ActorsInv, I!Actor
    <3> QED
      BY <3>1, <3>2
  <2> QED
    BY <1>2, <2>2, <2>3, <2>4, <2>5
<1>12. I!TypeOK'
  <2>1. cache' \in [KeyIdentity -> I!System \cup {0}] /\ merging' \subseteq I!System \X I!System
    BY <1>2, <1>3 DEF IdentityInv, I!TypeOK, I!NoSystem
  <2> QED
    BY <1>2, <2>1, IdleGoes, TypesKept DEF IdentityInv, I!TypeOK, I!NoSystem, I!NoNet
<1> QED
  BY <1>4, <1>6, <1>10, <1>11, <1>12 DEF IdentityInv

\* A restart reads every site into the cache, and nobody holds anything.
LEMMA IdentityLoads ==
  ASSUME IdentityInv, I!LoadCache
  PROVE  IdentityInv'
<1> USE DEF I!LoadCache
<1>1. \A b \in I!Actor : atIdentity'[b] = I!Idle
  OBVIOUS
<1>2. ActorsInv' /\ HandsInv' /\ LookupInv' /\ SourceInv' /\ MergesInv'
  BY <1>1, IdleIsPlace DEF ActorsInv, HandsInv, LookupInv, SourceInv, MergesInv, Resolved, Merging
<1>3. I!CacheAgrees' /\ I!RowsFollowTheirSite' /\ IsFiniteSet(rowsIdentity)'
  BY DEF IdentityInv, I!CacheAgrees, I!RowsFollowTheirSite
<1>4. atIdentity' \in [I!Actor -> Place]
  BY IdleIsPlace
<1>5. I!TypeOK'
  BY <1>4 DEF IdentityInv, I!TypeOK, Place, I!NoSystem
<1> QED
  BY <1>2, <1>3, <1>5 DEF IdentityInv

LEMMA IdentityInit == I!Init => IdentityInv
<1> SUFFICES ASSUME I!Init PROVE IdentityInv
  OBVIOUS
<1> USE DEF I!Init
<1>1. \A b \in I!Actor : atIdentity[b] = I!Idle
  OBVIOUS
<1>2. ActorsInv /\ HandsInv /\ LookupInv /\ SourceInv /\ MergesInv
  BY <1>1, IdleIsPlace DEF ActorsInv, HandsInv, LookupInv, SourceInv, MergesInv, Resolved, Merging
<1>3. I!CacheAgrees /\ I!RowsFollowTheirSite /\ IsFiniteSet(rowsIdentity)
  BY FS_EmptySet DEF I!CacheAgrees, I!RowsFollowTheirSite
<1>4. atIdentity \in [I!Actor -> Place]
  BY IdleIsPlace
<1>5. I!TypeOK
  BY <1>4 DEF I!TypeOK, Place, I!NoSystem, I!NoNet
<1> QED
  BY <1>2, <1>3, <1>5 DEF IdentityInv

LEMMA IdentityStep == IdentityInv /\ [I!Next]_identityVars => IdentityInv'
<1> SUFFICES ASSUME IdentityInv, [I!Next]_identityVars PROVE IdentityInv'
  OBVIOUS
<1>1. ASSUME NEW a \in I!Actor, I!Steps(a) PROVE IdentityInv'
  BY <1>1, IdentityLookup, IdentityCreates, IdentityFindOrCreates, IdentityResolveFails,
     IdentityWritesRow, IdentitySearches, IdentityEnds, IdentityMerges, IdentityRewrites DEF I!Steps
<1>2. CASE UNCHANGED identityVars
  BY <1>2 DEF identityVars, IdentityInv, I!TypeOK, I!CacheAgrees, I!RowsFollowTheirSite,
     ActorsInv, HandsInv, LookupInv, SourceInv, MergesInv
<1> QED
  BY <1>1, <1>2, IdentityMessage, IdentityAsks, IdentityLoads DEF I!Next

\* The cache resolves to a site's system, or the key is one that a failed lookup or merges
\* that overtook each other misled; a row written under its site's system stays with the
\* site through every merge (identity.go, systems.go).
THEOREM SystemsAlwaysAgree == RecordsSpec => []SystemsAgree
<1> DEFINE Inv == part = "identity" => IdentityInv
<1>1. RecordsInit => Inv
  BY IdentityInit DEF RecordsInit
<1>2. Inv /\ [RecordsNext]_recordsVars => Inv'
  BY IdentityStep DEF RecordsNext, recordsVars
<1>3. Inv => SystemsAgree
  BY DEF SystemsAgree, IdentityInv
<1> QED
  BY <1>1, <1>2, <1>3, PTL DEF RecordsSpec

-----------------------------------------------------------------------------
(* UnitEvents.                                                             *)

\* Events that were accepted: stored, not stored because their insert failed, or about to
\* be stored.
Accepted ==
  rowsUnitEvents \cup failed
    \cup {atUnitEvents[w].h : w \in {w \in U!Worker : atUnitEvents[w].pc = "insert"}}

Alike(g, h) == U!DedupKey(g.e) = U!DedupKey(h.e)

\* Accepted events are numbered and timed as they came, those of this run after the others.
AcceptedInv ==
  /\ \A h \in Accepted : h.n <= count /\ h.at <= nowUnitEvents /\ h.run <= restartsUnitEvents
  /\ \A d \in dropped : \E h \in Accepted :
       h.n # d.n /\ Alike(h, d) /\ d.at - h.at \in 0 .. 2 * WindowUnits
  /\ \A g, h \in Accepted :
       g.n < h.n /\ g.run = h.run /\ Alike(g, h) => h.at - g.at > WindowUnits

\* The window: an entry is an accepted event's, and no older than two windows at the next
\* sweep; an accepted event of this run that has no entry as young as itself is older than
\* a window.
DedupInv ==
  /\ nowUnitEvents <= sweepAt /\ sweepAt <= nowUnitEvents + WindowUnits
  /\ \A k \in DOMAIN dedup :
       /\ dedup[k] <= nowUnitEvents /\ sweepAt <= dedup[k] + 2 * WindowUnits
       /\ \E h \in Accepted : U!DedupKey(h.e) = k /\ h.at = dedup[k]
  /\ \A h \in Accepted : h.run = restartsUnitEvents =>
       \/ U!DedupKey(h.e) \in DOMAIN dedup /\ h.at <= dedup[U!DedupKey(h.e)]
       \/ nowUnitEvents - h.at > WindowUnits

\* What a worker has in hand; the event that moves the unit goes with the entry it makes.
Holding == [pc : {"insert", "affiliate", "move"}, h : U!Handled, to : U!Entry \cup {U!NoEntry}]

WorkersInv ==
  /\ atUnitEvents \in [U!Worker -> Holding \cup {U!Idle}]
  /\ \A w \in U!Worker : LET p == atUnitEvents[w] IN p.pc = "move" =>
       /\ p.to = [tg |-> p.h.e.tg, status |-> "affiliated", last |-> p.h.e.ts]
       /\ p.to \in U!Entry /\ p.h.e.tg # U!NoTalkgroup
       /\ p.h.e.type \in {"join"} \cup U!Located

\* As long as reports come in order and one at a time, the one in hand is the latest; it is
\* not yet a row, or it is one.
OrderInv ==
  /\ \A h \in Accepted : h.e.ts <= newest
  /\ ~blurred =>
       /\ \A g, h \in rowsUnitEvents : g.e.ts = h.e.ts => g = h
       /\ \A v, w \in U!Worker : atUnitEvents[v] # U!Idle /\ atUnitEvents[w] # U!Idle => v = w
       /\ \A w \in U!Worker : LET p == atUnitEvents[w] IN
            /\ p.pc = "insert" => p.h.e.ts = newest /\ \A h \in rowsUnitEvents : h.e.ts < newest
            /\ p.pc \in {"affiliate", "move"} => p.h \in rowsUnitEvents /\ p.h.e.ts = newest

\* The row of a join that nothing stored later took back, as a restart would find it.
TakesBack(h, j) ==
  \/ h.e.type \in {"off", "join"}
  \/ h.e.type \in U!Located /\ h.e.tg # U!NoTalkgroup /\ h.e.tg # j.e.tg
Stands(j) ==
  /\ j.e.type = "join" /\ j.e.ts > nowUnitEvents - StaleAfter
  /\ \A h \in rowsUnitEvents : h.e.ts > j.e.ts => ~TakesBack(h, j)

\* Then the map has it, unless it is being handled.
MapInv ==
  ~blurred /\ failed = {} => \A j \in rowsUnitEvents : Stands(j) =>
    \/ affiliation.tg = j.e.tg /\ affiliation.status = "affiliated" /\ affiliation.last >= j.e.ts
    \/ \E w \in U!Worker : atUnitEvents[w].pc \in {"affiliate", "move"} /\ atUnitEvents[w].h = j

CountersInv ==
  /\ count \in 0 .. MaxEvents /\ faultsUnitEvents \in Nat
  /\ restartsUnitEvents \in 0 .. MaxTroublesUnits /\ newest \in Int

UnitsInv ==
  /\ U!TypeOK /\ CountersInv /\ WorkersInv
  /\ AcceptedInv /\ DedupInv
  /\ OrderInv /\ MapInv

LEMMA UnitNumbers ==
  /\ WindowUnits \in Nat /\ StaleAfter \in Nat /\ Delay \in Nat /\ MaxTimeUnits \in Nat
  /\ MaxEvents \in Nat /\ MaxTroublesUnits \in Nat
BY UnitsAssumption

\* What events and accepted events are made of.
LEMMA EventFacts ==
  ASSUME NEW e \in U!Event
  PROVE  /\ e.type \in EventType /\ e.tg \in Talkgroup \cup {U!NoTalkgroup}
         /\ e.ts \in -Delay .. MaxTimeUnits /\ e.ts \in Int
         /\ e.type = "join" => e.tg # U!NoTalkgroup
         /\ U!DedupKey(e) \in EventType \X (Talkgroup \cup {U!NoTalkgroup})
BY UnitNumbers DEF U!Event, U!DedupKey

LEMMA HandledFacts ==
  ASSUME NEW h \in U!Handled
  PROVE  /\ h.e \in U!Event /\ h.e.ts \in Int
         /\ h.n \in Nat /\ h.at \in Nat /\ h.run \in Nat
BY UnitNumbers, EventFacts DEF U!Handled, U!Now

LEMMA WorkerFacts ==
  ASSUME UnitsInv, NEW w \in U!Worker
  PROVE  /\ atUnitEvents[w] = U!Idle \/ atUnitEvents[w] \in Holding
         /\ U!Idle.pc = "idle"
         /\ atUnitEvents[w] # U!Idle => /\ atUnitEvents[w].pc \in {"insert", "affiliate", "move"}
                                        /\ atUnitEvents[w].h \in U!Handled
         /\ atUnitEvents[w].pc # "idle" => atUnitEvents[w] \in Holding
BY DEF UnitsInv, WorkersInv, Holding, U!Idle

LEMMA AcceptedFacts ==
  ASSUME UnitsInv
  PROVE  Accepted \subseteq U!Handled /\ rowsUnitEvents \subseteq Accepted
BY WorkerFacts DEF UnitsInv, U!TypeOK, Accepted, U!Idle

LEMMA NumberFacts ==
  ASSUME UnitsInv
  PROVE  /\ nowUnitEvents \in Nat /\ sweepAt \in Nat /\ count \in Nat
         /\ restartsUnitEvents \in Nat /\ newest \in Int
         /\ \A k \in DOMAIN dedup : dedup[k] \in Nat
BY UnitNumbers DEF UnitsInv, U!TypeOK, CountersInv, U!Now

\* A step of one worker.
Turns(w, y) == y \in Holding \cup {U!Idle} /\ atUnitEvents' = [atUnitEvents EXCEPT ![w] = y]

LEMMA TurnFacts ==
  ASSUME UnitsInv, NEW w \in U!Worker, NEW y, Turns(w, y)
  PROVE  /\ atUnitEvents' \in [U!Worker -> Holding \cup {U!Idle}]
         /\ atUnitEvents'[w] = y
         /\ \A v \in U!Worker : v # w => atUnitEvents'[v] = atUnitEvents[v]
BY DEF UnitsInv, WorkersInv, Turns

\* A step that accepts nothing new.
LEMMA AcceptedKept ==
  ASSUME UnitsInv, Accepted' = Accepted, UNCHANGED <<dropped, count>>,
         nowUnitEvents' \in Nat, nowUnitEvents <= nowUnitEvents',
         restartsUnitEvents' \in Nat, restartsUnitEvents <= restartsUnitEvents'
  PROVE  AcceptedInv'
<1>1. /\ \A h \in Accepted : h.n <= count /\ h.at <= nowUnitEvents' /\ h.run <= restartsUnitEvents'
  <2> SUFFICES ASSUME NEW h \in Accepted
               PROVE  h.n <= count /\ h.at <= nowUnitEvents' /\ h.run <= restartsUnitEvents'
    OBVIOUS
  <2>1. h.n <= count /\ h.at <= nowUnitEvents /\ h.run <= restartsUnitEvents
    BY DEF UnitsInv, AcceptedInv
  <2>2. h.at \in Nat /\ h.run \in Nat /\ nowUnitEvents \in Nat /\ restartsUnitEvents \in Nat
    BY AcceptedFacts, HandledFacts, NumberFacts
  <2> QED
    BY <2>1, <2>2
<1>2. \A d \in dropped : \E h \in Accepted :
        h.n # d.n /\ Alike(h, d) /\ d.at - h.at \in 0 .. 2 * WindowUnits
  BY DEF UnitsInv, AcceptedInv
<1>3. \A g, h \in Accepted :
        g.n < h.n /\ g.run = h.run /\ Alike(g, h) => h.at - g.at > WindowUnits
  BY DEF UnitsInv, AcceptedInv
<1> QED
  BY <1>1, <1>2, <1>3 DEF AcceptedInv, Alike, U!DedupKey

\* The window, when neither it nor what was accepted changes.
LEMMA DedupKept ==
  ASSUME UnitsInv, Accepted' = Accepted, UNCHANGED <<nowUnitEvents, sweepAt, dedup, restartsUnitEvents>>
  PROVE  DedupInv'
BY DEF UnitsInv, DedupInv, U!DedupKey

\* That the map has what stands, when rows, map and time are as they were.
LEMMA MapKept ==
  ASSUME UnitsInv, UNCHANGED <<rowsUnitEvents, affiliation, nowUnitEvents>>,
         ~blurred' /\ failed' = {} =>
           /\ ~blurred /\ failed = {}
           /\ \A w \in U!Worker : atUnitEvents[w].pc \in {"affiliate", "move"} =>
                atUnitEvents'[w].pc \in {"affiliate", "move"} /\ atUnitEvents'[w].h = atUnitEvents[w].h
  PROVE  MapInv'
<1>1. \A j \in rowsUnitEvents : Stands(j)' => Stands(j)
  BY DEF Stands, TakesBack
<1> QED
  BY <1>1 DEF UnitsInv, MapInv, Stands, TakesBack

-----------------------------------------------------------------------------
LEMMA UnitsInit == U!Init => UnitsInv
<1> SUFFICES ASSUME U!Init PROVE UnitsInv
  OBVIOUS
<1> USE DEF U!Init
<1>1. Accepted = {} /\ atUnitEvents \in [U!Worker -> {U!Idle}] /\ U!Idle.pc = "idle"
  BY DEF Accepted, U!Idle
<1>2. U!TypeOK
  <2>1. 0 \in U!Now /\ WindowUnits \in Nat
    BY UnitNumbers DEF U!Now
  <2> QED
    BY <1>1, <2>1 DEF U!TypeOK
<1>3. CountersInv
  BY UnitNumbers DEF CountersInv
<1>4. WorkersInv
  BY <1>1 DEF WorkersInv
<1>5. AcceptedInv /\ DedupInv
  BY <1>1, UnitNumbers DEF AcceptedInv, DedupInv
<1>6. OrderInv /\ MapInv
  BY <1>1 DEF OrderInv, MapInv
<1> QED
  BY <1>2, <1>3, <1>4, <1>5, <1>6 DEF UnitsInv

LEMMA UnitsTick ==
  ASSUME UnitsInv, U!Tick
  PROVE  UnitsInv'
<1>1. /\ nowUnitEvents < MaxTimeUnits /\ nowUnitEvents < sweepAt /\ nowUnitEvents' = nowUnitEvents + 1
      /\ UNCHANGED <<sweepAt, dedup, rowsUnitEvents, failed, dropped, affiliation, atUnitEvents, blurred,
                     newest, count, faultsUnitEvents, restartsUnitEvents>>
  BY DEF U!Tick
<1>2. nowUnitEvents \in Nat /\ sweepAt \in Nat /\ restartsUnitEvents \in Nat /\ nowUnitEvents' \in U!Now
  BY <1>1, NumberFacts, UnitNumbers DEF U!Now
<1>3. U!TypeOK' /\ CountersInv' /\ WorkersInv'
  BY <1>1, <1>2 DEF UnitsInv, U!TypeOK, CountersInv, WorkersInv
<1>4. Accepted' = Accepted
  BY <1>1 DEF Accepted
<1>5. AcceptedInv'
  BY <1>1, <1>2, <1>4, AcceptedKept
<1>6. DedupInv'
  <2>1. nowUnitEvents' <= sweepAt /\ sweepAt <= nowUnitEvents' + WindowUnits
    BY <1>1, <1>2, UnitNumbers DEF UnitsInv, DedupInv
  <2>2. \A k \in DOMAIN dedup :
          /\ dedup[k] <= nowUnitEvents' /\ sweepAt <= dedup[k] + 2 * WindowUnits
          /\ \E h \in Accepted : U!DedupKey(h.e) = k /\ h.at = dedup[k]
    <3> SUFFICES ASSUME NEW k \in DOMAIN dedup
                 PROVE  /\ dedup[k] <= nowUnitEvents' /\ sweepAt <= dedup[k] + 2 * WindowUnits
                        /\ \E h \in Accepted : U!DedupKey(h.e) = k /\ h.at = dedup[k]
      OBVIOUS
    <3>1. /\ dedup[k] <= nowUnitEvents /\ sweepAt <= dedup[k] + 2 * WindowUnits
          /\ \E h \in Accepted : U!DedupKey(h.e) = k /\ h.at = dedup[k]
      BY DEF UnitsInv, DedupInv
    <3> QED
      BY <1>1, <1>2, <3>1, NumberFacts
  <2>3. \A h \in Accepted : h.run = restartsUnitEvents =>
          \/ U!DedupKey(h.e) \in DOMAIN dedup /\ h.at <= dedup[U!DedupKey(h.e)]
          \/ nowUnitEvents' - h.at > WindowUnits
    <3> SUFFICES ASSUME NEW h \in Accepted, h.run = restartsUnitEvents, nowUnitEvents - h.at > WindowUnits
                 PROVE  nowUnitEvents' - h.at > WindowUnits
      BY DEF UnitsInv, DedupInv
    <3> QED
      BY <1>1, <1>2, AcceptedFacts, HandledFacts, UnitNumbers
  <2> QED
    BY <1>1, <1>4, <2>1, <2>2, <2>3 DEF DedupInv, U!DedupKey
<1>7. OrderInv'
  BY <1>1, <1>4 DEF UnitsInv, OrderInv
<1>8. MapInv'
  <2>1. ASSUME NEW j \in rowsUnitEvents, Stands(j)' PROVE Stands(j)
    <3>1. j.e.ts \in Int
      BY AcceptedFacts, HandledFacts
    <3>2. j.e.ts > nowUnitEvents - StaleAfter
      BY <1>1, <1>2, <2>1, <3>1, UnitNumbers DEF Stands
    <3> QED
      BY <1>1, <2>1, <3>2 DEF Stands, TakesBack
  <2> QED
    BY <1>1, <2>1 DEF UnitsInv, MapInv
<1> QED
  BY <1>3, <1>5, <1>6, <1>7, <1>8 DEF UnitsInv

LEMMA UnitsSweep ==
  ASSUME UnitsInv, U!Sweep
  PROVE  UnitsInv'
<1>1. PICK young : young = {k \in DOMAIN dedup : nowUnitEvents - dedup[k] <= WindowUnits}
  OBVIOUS
<1>2. /\ nowUnitEvents = sweepAt /\ sweepAt' = nowUnitEvents + WindowUnits
      /\ dedup' = [k \in young |-> dedup[k]]
      /\ UNCHANGED <<nowUnitEvents, rowsUnitEvents, failed, dropped, affiliation, atUnitEvents, blurred,
                     newest, count, faultsUnitEvents, restartsUnitEvents>>
  BY <1>1 DEF U!Sweep
<1>3. nowUnitEvents \in Nat /\ restartsUnitEvents \in Nat /\ sweepAt' \in Nat
  BY <1>2, NumberFacts, UnitNumbers
<1>4. U!TypeOK' /\ CountersInv' /\ WorkersInv'
  BY <1>1, <1>2, <1>3 DEF UnitsInv, U!TypeOK, CountersInv, WorkersInv
<1>5. Accepted' = Accepted
  BY <1>2 DEF Accepted
<1>6. AcceptedInv'
  BY <1>2, <1>3, <1>5, AcceptedKept
<1>7. DedupInv'
  <2>1. nowUnitEvents <= sweepAt' /\ sweepAt' <= nowUnitEvents + WindowUnits
    BY <1>2, <1>3, UnitNumbers
  <2>2. ASSUME NEW k \in young
        PROVE  /\ dedup[k] <= nowUnitEvents /\ sweepAt' <= dedup[k] + 2 * WindowUnits
               /\ \E h \in Accepted : U!DedupKey(h.e) = k /\ h.at = dedup[k]
    <3>1. k \in DOMAIN dedup /\ dedup[k] \in Nat /\ nowUnitEvents - dedup[k] <= WindowUnits
      BY <1>1, NumberFacts
    <3>2. dedup[k] <= nowUnitEvents /\ \E h \in Accepted : U!DedupKey(h.e) = k /\ h.at = dedup[k]
      BY <3>1 DEF UnitsInv, DedupInv
    <3>3. sweepAt' <= dedup[k] + 2 * WindowUnits
      BY <1>2, <1>3, <3>1, UnitNumbers
    <3> QED
      BY <3>2, <3>3
  <2>3. ASSUME NEW h \in Accepted, h.run = restartsUnitEvents, NEW k, k = U!DedupKey(h.e)
        PROVE  (k \in young /\ h.at <= dedup[k]) \/ nowUnitEvents - h.at > WindowUnits
    <3>1. h.at \in Nat
      BY AcceptedFacts, HandledFacts
    <3>2. (k \in DOMAIN dedup /\ h.at <= dedup[k]) \/ nowUnitEvents - h.at > WindowUnits
      BY <2>3 DEF UnitsInv, DedupInv
    <3>3. ASSUME k \in DOMAIN dedup, h.at <= dedup[k], k \notin young PROVE nowUnitEvents - h.at > WindowUnits
      <4>1. dedup[k] \in Nat /\ ~(nowUnitEvents - dedup[k] <= WindowUnits)
        BY <1>1, <3>3, NumberFacts
      <4> QED
        BY <1>3, <3>1, <3>3, <4>1, UnitNumbers
    <3> QED
      BY <3>2, <3>3
  <2>4. DOMAIN dedup' = young /\ \A k \in young : dedup'[k] = dedup[k]
    BY <1>2
  <2>5. \A k \in DOMAIN dedup' :
          /\ dedup'[k] <= nowUnitEvents /\ sweepAt' <= dedup'[k] + 2 * WindowUnits
          /\ \E h \in Accepted : U!DedupKey(h.e) = k /\ h.at = dedup'[k]
    BY <2>2, <2>4
  <2>6. \A h \in Accepted : h.run = restartsUnitEvents =>
          \/ U!DedupKey(h.e) \in DOMAIN dedup' /\ h.at <= dedup'[U!DedupKey(h.e)]
          \/ nowUnitEvents - h.at > WindowUnits
    BY <2>3, <2>4
  <2> QED
    BY <1>2, <1>5, <2>1, <2>5, <2>6 DEF DedupInv, U!DedupKey
<1>8. OrderInv'
  BY <1>2, <1>5 DEF UnitsInv, OrderInv
<1>9. MapInv'
  BY <1>2, MapKept
<1> QED
  BY <1>4, <1>6, <1>7, <1>8, <1>9 DEF UnitsInv

LEMMA UnitsEvict ==
  ASSUME UnitsInv, U!EvictStale
  PROVE  UnitsInv'
<1>1. /\ affiliation.last < nowUnitEvents - StaleAfter /\ affiliation' = U!NoEntry
      /\ UNCHANGED <<nowUnitEvents, sweepAt, dedup, rowsUnitEvents, failed, dropped, atUnitEvents, blurred,
                     newest, count, faultsUnitEvents, restartsUnitEvents>>
      /\ affiliation # U!NoEntry
  BY DEF U!EvictStale
<1>2. U!TypeOK' /\ CountersInv' /\ WorkersInv'
  BY <1>1 DEF UnitsInv, U!TypeOK, CountersInv, WorkersInv
<1>3. Accepted' = Accepted
  BY <1>1 DEF Accepted
<1>4. AcceptedInv' /\ DedupInv'
  BY <1>1, <1>3, AcceptedKept, DedupKept, NumberFacts
<1>5. OrderInv'
  BY <1>1, <1>3 DEF UnitsInv, OrderInv
<1>6. MapInv'
  <2>1. affiliation.last \in Int
    BY <1>1, UnitNumbers DEF UnitsInv, U!TypeOK, U!Entry
  <2>2. ASSUME NEW j \in rowsUnitEvents, Stands(j) PROVE ~(affiliation.last >= j.e.ts)
    <3>1. j.e.ts \in Int /\ j.e.ts > nowUnitEvents - StaleAfter /\ nowUnitEvents \in Nat
      BY <2>2, AcceptedFacts, HandledFacts, NumberFacts DEF Stands
    <3> QED
      BY <1>1, <2>1, <3>1, UnitNumbers
  <2>3. \A j \in rowsUnitEvents : Stands(j)' => Stands(j)
    BY <1>1 DEF Stands, TakesBack
  <2> QED
    BY <1>1, <2>2, <2>3 DEF UnitsInv, MapInv
<1> QED
  BY <1>2, <1>4, <1>5, <1>6 DEF UnitsInv

-----------------------------------------------------------------------------
(* A report arrives.                                                       *)

\* The report that arrives, as its worker holds it.
Arrived(e) == [e |-> e, n |-> count + 1, at |-> nowUnitEvents, run |-> restartsUnitEvents]

\* What arriving does, whether like one before or not.
Arrives(w, e, h, k) ==
  /\ h = Arrived(e) /\ k = U!DedupKey(e)
  /\ atUnitEvents[w] = U!Idle /\ count < MaxEvents /\ count' = count + 1
  /\ newest' = (IF e.ts > newest THEN e.ts ELSE newest)
  /\ DOMAIN dedup' = DOMAIN dedup \cup {k}
  /\ UNCHANGED <<nowUnitEvents, sweepAt, rowsUnitEvents, failed, affiliation, faultsUnitEvents,
                 restartsUnitEvents>>

LEMMA ArrivalFacts ==
  ASSUME UnitsInv, NEW w \in U!Worker, NEW e \in U!Event, NEW h, NEW k, Arrives(w, e, h, k)
  PROVE  /\ h \in U!Handled /\ h.e = e /\ h.n = count + 1 /\ h.at = nowUnitEvents
         /\ h.run = restartsUnitEvents
         /\ k \in EventType \X (Talkgroup \cup {U!NoTalkgroup})
         /\ count' \in 0 .. MaxEvents /\ newest' \in Int /\ newest <= newest' /\ e.ts <= newest'
<1>1. count + 1 \in 1 .. MaxEvents /\ count' \in 0 .. MaxEvents
  BY NumberFacts, UnitNumbers DEF Arrives
<1>2. nowUnitEvents \in U!Now /\ restartsUnitEvents \in 0 .. MaxTroublesUnits
  BY DEF UnitsInv, U!TypeOK, CountersInv
<1>3. h = [e |-> e, n |-> count + 1, at |-> nowUnitEvents, run |-> restartsUnitEvents]
  BY DEF Arrives, Arrived
<1>4. h \in U!Handled
  BY <1>1, <1>2, <1>3 DEF U!Handled
<1>5. k \in EventType \X (Talkgroup \cup {U!NoTalkgroup})
  BY EventFacts DEF Arrives
<1>6. newest' \in Int /\ newest <= newest' /\ e.ts <= newest'
  BY EventFacts, NumberFacts DEF Arrives
<1> QED
  BY <1>1, <1>3, <1>4, <1>5, <1>6

\* Types and workers.
LEMMA ArrivalTypes ==
  ASSUME UnitsInv, NEW w \in U!Worker, NEW e \in U!Event, NEW h, NEW k, Arrives(w, e, h, k),
         NEW y, Turns(w, y), y.h = h, y.pc \in {"insert", "affiliate"}, y \in Holding,
         \A j \in DOMAIN dedup' : dedup'[j] \in U!Now,
         dropped' \subseteq U!Handled, blurred' \in BOOLEAN
  PROVE  U!TypeOK' /\ CountersInv' /\ WorkersInv'
<1>1. U!Idle.pc = "idle" /\ h \in U!Handled
  BY ArrivalFacts DEF U!Idle
<1>2. WorkersInv'
  <2>1. atUnitEvents'[w] = y /\ atUnitEvents' \in [U!Worker -> Holding \cup {U!Idle}]
        /\ \A v \in U!Worker : v # w => atUnitEvents'[v] = atUnitEvents[v]
    BY TurnFacts
  <2>2. ASSUME NEW v \in U!Worker, atUnitEvents'[v].pc = "move"
        PROVE  /\ atUnitEvents'[v].to = [tg |-> atUnitEvents'[v].h.e.tg, status |-> "affiliated",
                                         last |-> atUnitEvents'[v].h.e.ts]
               /\ atUnitEvents'[v].to \in U!Entry /\ atUnitEvents'[v].h.e.tg # U!NoTalkgroup
               /\ atUnitEvents'[v].h.e.type \in {"join"} \cup U!Located
    <3>1. v # w
      BY <2>1, <2>2
    <3> QED
      BY <2>1, <2>2, <3>1 DEF UnitsInv, WorkersInv
  <2> QED
    BY <2>1, <2>2 DEF WorkersInv
<1>3. CountersInv'
  BY ArrivalFacts DEF UnitsInv, CountersInv, Arrives
<1>4. U!TypeOK'
  <2>1. \A v \in U!Worker :
          atUnitEvents'[v] = U!Idle
            \/ (atUnitEvents'[v].pc \in {"insert", "affiliate", "move"} /\ atUnitEvents'[v].h \in U!Handled)
    BY TurnFacts, <1>1 DEF UnitsInv, U!TypeOK
  <2>2. DOMAIN dedup' \subseteq EventType \X (Talkgroup \cup {U!NoTalkgroup})
    BY ArrivalFacts DEF UnitsInv, U!TypeOK, Arrives
  <2> QED
    BY <2>1, <2>2 DEF UnitsInv, U!TypeOK, Arrives
<1> QED
  BY <1>2, <1>3, <1>4

\* A report like one accepted within the window: it counts as activity, and is dropped.
LEMMA UnitsDuplicate ==
  ASSUME UnitsInv, NEW w \in U!Worker, NEW e \in U!Event, NEW h, NEW k, Arrives(w, e, h, k),
         k \in DOMAIN dedup, \A j \in DOMAIN dedup : dedup'[j] = dedup[j],
         dropped' = dropped \cup {h}, blurred' = TRUE,
         Turns(w, [pc |-> "affiliate", h |-> h, to |-> U!NoEntry])
  PROVE  UnitsInv'
<1>1. PICK y : y = [pc |-> "affiliate", h |-> h, to |-> U!NoEntry]
  OBVIOUS
<1>2. h \in U!Handled /\ h.e = e /\ h.n = count + 1 /\ h.at = nowUnitEvents /\ U!DedupKey(h.e) = k
  BY ArrivalFacts DEF Arrives
<1>3. y \in Holding /\ y.h = h /\ y.pc = "affiliate" /\ Turns(w, y)
  BY <1>1, <1>2 DEF Holding
<1>4. DOMAIN dedup' = DOMAIN dedup
  BY DEF Arrives
<1>5. U!TypeOK' /\ CountersInv' /\ WorkersInv'
  <2>1. \A j \in DOMAIN dedup' : dedup'[j] \in U!Now
    BY <1>4 DEF UnitsInv, U!TypeOK
  <2>2. dropped' \subseteq U!Handled
    BY <1>2 DEF UnitsInv, U!TypeOK
  <2> QED
    BY <1>3, <2>1, <2>2, ArrivalTypes
<1>6. Accepted' = Accepted
  <2>1. /\ atUnitEvents'[w].pc = "affiliate" /\ atUnitEvents[w].pc = "idle"
        /\ \A v \in U!Worker : v # w => atUnitEvents'[v] = atUnitEvents[v]
    BY <1>3, TurnFacts DEF Arrives, U!Idle
  <2> QED
    BY <2>1 DEF Accepted, Arrives
<1>7. AcceptedInv'
  <2>1. \A g \in Accepted : g.n <= count' /\ g.at <= nowUnitEvents /\ g.run <= restartsUnitEvents
    <3> SUFFICES ASSUME NEW g \in Accepted
                 PROVE  g.n <= count' /\ g.at <= nowUnitEvents /\ g.run <= restartsUnitEvents
      OBVIOUS
    <3>1. g.n <= count /\ g.at <= nowUnitEvents /\ g.run <= restartsUnitEvents /\ g.n \in Nat
      BY AcceptedFacts, HandledFacts DEF UnitsInv, AcceptedInv
    <3> QED
      BY <3>1, NumberFacts DEF Arrives
  <2>2. \E g \in Accepted : g.n # h.n /\ Alike(g, h) /\ h.at - g.at \in 0 .. 2 * WindowUnits
    <3>1. PICK g \in Accepted : U!DedupKey(g.e) = k /\ g.at = dedup[k]
      BY DEF UnitsInv, DedupInv
    <3>2. g.n <= count /\ g.n \in Nat /\ g.at \in Nat
      BY AcceptedFacts, HandledFacts DEF UnitsInv, AcceptedInv
    <3>3. g.n # h.n
      BY <1>2, <3>2, NumberFacts
    <3>4. nowUnitEvents <= sweepAt /\ dedup[k] <= nowUnitEvents /\ sweepAt <= dedup[k] + 2 * WindowUnits
      BY DEF UnitsInv, DedupInv
    <3>5. nowUnitEvents - g.at \in 0 .. 2 * WindowUnits
      BY <3>1, <3>2, <3>4, NumberFacts, UnitNumbers
    <3> QED
      BY <1>2, <3>1, <3>3, <3>5 DEF Alike
  <2>3. \A d \in dropped' : \E g \in Accepted :
          g.n # d.n /\ Alike(g, d) /\ d.at - g.at \in 0 .. 2 * WindowUnits
    BY <2>2 DEF UnitsInv, AcceptedInv
  <2>4. \A f, g \in Accepted :
          f.n < g.n /\ f.run = g.run /\ Alike(f, g) => g.at - f.at > WindowUnits
    BY DEF UnitsInv, AcceptedInv
  <2> QED
    BY <1>6, <2>1, <2>3, <2>4 DEF AcceptedInv, Alike, U!DedupKey, Arrives
<1>8. DedupInv'
  BY <1>4, <1>6 DEF UnitsInv, DedupInv, U!DedupKey, Arrives
<1>9. OrderInv'
  <2>1. \A g \in Accepted : g.e.ts <= newest'
    <3> SUFFICES ASSUME NEW g \in Accepted PROVE g.e.ts <= newest'
      OBVIOUS
    <3> QED
      BY AcceptedFacts, HandledFacts, ArrivalFacts, NumberFacts DEF UnitsInv, OrderInv
  <2> QED
    BY <1>6, <2>1 DEF OrderInv
<1>10. MapInv'
  BY DEF MapInv
<1> QED
  BY <1>5, <1>7, <1>8, <1>9, <1>10 DEF UnitsInv

\* A report like none accepted within the window is to be stored.
LEMMA UnitsFresh ==
  ASSUME UnitsInv, NEW w \in U!Worker, NEW e \in U!Event, NEW h, NEW k, Arrives(w, e, h, k),
         k \notin DOMAIN dedup, dedup'[k] = nowUnitEvents,
         \A j \in DOMAIN dedup : dedup'[j] = dedup[j],
         dropped' = dropped, blurred' \in BOOLEAN,
         ~blurred' => ~blurred /\ e.ts > newest /\ \A v \in U!Worker : atUnitEvents[v] = U!Idle,
         Turns(w, [pc |-> "insert", h |-> h, to |-> U!NoEntry])
  PROVE  UnitsInv'
<1>1. PICK y : y = [pc |-> "insert", h |-> h, to |-> U!NoEntry]
  OBVIOUS
<1>2. h \in U!Handled /\ h.e = e /\ h.n = count + 1 /\ h.at = nowUnitEvents /\ U!DedupKey(h.e) = k
      /\ h.run = restartsUnitEvents
  BY ArrivalFacts DEF Arrives
<1>3. y \in Holding /\ y.h = h /\ y.pc = "insert" /\ Turns(w, y)
  BY <1>1, <1>2 DEF Holding
<1>4. DOMAIN dedup' = DOMAIN dedup \cup {k}
  BY DEF Arrives
<1>5. U!TypeOK' /\ CountersInv' /\ WorkersInv'
  <2>1. \A j \in DOMAIN dedup' : dedup'[j] \in U!Now
    BY <1>4 DEF UnitsInv, U!TypeOK
  <2>2. dropped' \subseteq U!Handled
    BY DEF UnitsInv, U!TypeOK
  <2> QED
    BY <1>3, <2>1, <2>2, ArrivalTypes
<1>6. /\ atUnitEvents'[w] = y /\ atUnitEvents[w].pc = "idle"
      /\ \A v \in U!Worker : v # w => atUnitEvents'[v] = atUnitEvents[v]
  BY <1>3, TurnFacts DEF Arrives, U!Idle
<1>7. Accepted' = Accepted \cup {h}
  BY <1>3, <1>6 DEF Accepted, Arrives
<1>8. ASSUME NEW g \in Accepted
      PROVE  /\ g \in U!Handled /\ g.n <= count /\ g.n \in Nat /\ g.at \in Nat
             /\ g.at <= nowUnitEvents /\ g.run <= restartsUnitEvents /\ g.e.ts <= newest
             /\ g.e.ts \in Int
  BY <1>8, AcceptedFacts, HandledFacts DEF UnitsInv, AcceptedInv, OrderInv
<1>9. AcceptedInv'
  <2>1. ASSUME NEW g \in Accepted'
        PROVE  g.n <= count' /\ g.at <= nowUnitEvents /\ g.run <= restartsUnitEvents
    <3>1. CASE g \in Accepted
      BY <1>8, <3>1, NumberFacts DEF Arrives
    <3>2. CASE g = h
      BY <1>2, <3>2, NumberFacts DEF Arrives
    <3> QED
      BY <1>7, <2>1, <3>1, <3>2
  <2>2. \A d \in dropped' : \E g \in Accepted' :
          g.n # d.n /\ Alike(g, d) /\ d.at - g.at \in 0 .. 2 * WindowUnits
    BY <1>7 DEF UnitsInv, AcceptedInv
  <2>3. ASSUME NEW f \in Accepted', NEW g \in Accepted', f.n < g.n, f.run = g.run, Alike(f, g)
        PROVE  g.at - f.at > WindowUnits
    <3>1. CASE f \in Accepted /\ g \in Accepted
      BY <2>3, <3>1 DEF UnitsInv, AcceptedInv
    <3>2. CASE f \in Accepted /\ g = h
      <4>1. f.run = restartsUnitEvents /\ U!DedupKey(f.e) = k
        BY <1>2, <2>3, <3>2 DEF Alike
      <4>2. nowUnitEvents - f.at > WindowUnits
        BY <3>2, <4>1 DEF UnitsInv, DedupInv
      <4> QED
        BY <1>2, <3>2, <4>2
    <3>3. CASE f = h
      <4>1. g.n <= count + 1 /\ g.n \in Nat
        BY <1>2, <1>7, <1>8, NumberFacts
      <4> QED
        BY <1>2, <2>3, <3>3, <4>1, NumberFacts
    <3> QED
      BY <1>7, <2>3, <3>1, <3>2, <3>3
  <2> QED
    BY <2>1, <2>2, <2>3 DEF AcceptedInv, Alike, U!DedupKey, Arrives
<1>10. DedupInv'
  <2>1. nowUnitEvents <= sweepAt /\ sweepAt <= nowUnitEvents + WindowUnits
    BY DEF UnitsInv, DedupInv
  <2>2. ASSUME NEW j \in DOMAIN dedup'
        PROVE  /\ dedup'[j] <= nowUnitEvents /\ sweepAt <= dedup'[j] + 2 * WindowUnits
               /\ \E g \in Accepted' : U!DedupKey(g.e) = j /\ g.at = dedup'[j]
    <3>1. CASE j \in DOMAIN dedup
      BY <1>7, <3>1 DEF UnitsInv, DedupInv
    <3>2. CASE j = k
      <4>1. sweepAt <= nowUnitEvents + 2 * WindowUnits
        BY <2>1, NumberFacts, UnitNumbers
      <4> QED
        BY <1>2, <1>7, <3>2, <4>1, NumberFacts
    <3> QED
      BY <1>4, <3>1, <3>2
  <2>3. ASSUME NEW g \in Accepted', g.run = restartsUnitEvents
        PROVE  \/ U!DedupKey(g.e) \in DOMAIN dedup' /\ g.at <= dedup'[U!DedupKey(g.e)]
               \/ nowUnitEvents - g.at > WindowUnits
    <3>1. CASE g \in Accepted
      <4>1. \/ U!DedupKey(g.e) \in DOMAIN dedup /\ g.at <= dedup[U!DedupKey(g.e)]
            \/ nowUnitEvents - g.at > WindowUnits
        BY <2>3, <3>1 DEF UnitsInv, DedupInv
      <4> QED
        BY <1>4, <4>1
    <3>2. CASE g = h
      BY <1>2, <1>4, <3>2, NumberFacts
    <3> QED
      BY <1>7, <3>1, <3>2
  <2> QED
    BY <2>1, <2>2, <2>3 DEF DedupInv, U!DedupKey, Arrives
<1>11. OrderInv'
  <2>1. ASSUME NEW g \in Accepted' PROVE g.e.ts <= newest'
    <3>1. CASE g \in Accepted
      BY <1>8, <3>1, ArrivalFacts, NumberFacts
    <3>2. CASE g = h
      BY <1>2, <3>2, ArrivalFacts
    <3> QED
      BY <1>7, <3>1, <3>2
  <2>2. ASSUME ~blurred'
        PROVE  /\ \A g, f \in rowsUnitEvents : g.e.ts = f.e.ts => g = f
               /\ \A v, u \in U!Worker : atUnitEvents'[v] # U!Idle /\ atUnitEvents'[u] # U!Idle => v = u
               /\ \A v \in U!Worker :
                    /\ atUnitEvents'[v].pc = "insert" =>
                         atUnitEvents'[v].h.e.ts = newest' /\ \A g \in rowsUnitEvents : g.e.ts < newest'
                    /\ atUnitEvents'[v].pc \in {"affiliate", "move"} =>
                         atUnitEvents'[v].h \in rowsUnitEvents /\ atUnitEvents'[v].h.e.ts = newest'
    <3>1. ~blurred /\ e.ts > newest /\ (\A v \in U!Worker : atUnitEvents[v] = U!Idle)
      BY <2>2
    <3>2. newest' = e.ts
      BY <3>1 DEF Arrives
    <3>3. ASSUME NEW g \in rowsUnitEvents PROVE g.e.ts < newest'
      BY <1>8, <3>1, <3>2, <3>3, AcceptedFacts, EventFacts, NumberFacts
    <3>4. \A v \in U!Worker : v # w => atUnitEvents'[v] = U!Idle /\ atUnitEvents'[v].pc = "idle"
      BY <1>6, <3>1 DEF U!Idle
    <3>5. \A g, f \in rowsUnitEvents : g.e.ts = f.e.ts => g = f
      BY <3>1 DEF UnitsInv, OrderInv
    <3> QED
      BY <1>2, <1>3, <1>6, <3>2, <3>3, <3>4, <3>5
  <2> QED
    BY <2>1, <2>2 DEF OrderInv, Arrives
<1>12. MapInv'
  <2>1. UNCHANGED <<rowsUnitEvents, affiliation, nowUnitEvents, failed>>
    BY DEF Arrives
  <2>2. ~blurred' => ~blurred /\ \A v \in U!Worker : atUnitEvents[v].pc \notin {"affiliate", "move"}
    BY DEF U!Idle
  <2> QED
    BY <2>1, <2>2, MapKept
<1> QED
  BY <1>5, <1>9, <1>10, <1>11, <1>12 DEF UnitsInv

LEMMA UnitsArrive ==
  ASSUME UnitsInv, NEW w \in U!Worker, NEW e \in U!Event, U!LoadOrStore(w, e)
  PROVE  UnitsInv'
<1>1. PICK k, h : k = U!DedupKey(e) /\ h = Arrived(e)
  OBVIOUS
<1>2. Arrives(w, e, h, k)
  BY <1>1 DEF U!LoadOrStore, Arrives, Arrived
<1>3. \A j \in DOMAIN dedup \cup {k} :
        dedup'[j] = IF k \in DOMAIN dedup \/ j # k THEN dedup[j] ELSE nowUnitEvents
  BY <1>1 DEF U!LoadOrStore
<1>4. blurred' = (blurred \/ k \in DOMAIN dedup \/ e.ts <= newest
                    \/ \E v \in U!Worker : atUnitEvents[v] # U!Idle)
  BY <1>1 DEF U!LoadOrStore
<1>5. h \in U!Handled
  BY <1>2, ArrivalFacts
<1>6. CASE k \in DOMAIN dedup
  <2>1. blurred' = TRUE
    BY <1>4, <1>6
  <2>2. dropped' = dropped \cup {h}
    BY <1>1, <1>6 DEF U!LoadOrStore, Arrived
  <2>3. Turns(w, [pc |-> "affiliate", h |-> h, to |-> U!NoEntry])
    <3>1. atUnitEvents' = [atUnitEvents EXCEPT ![w] = [pc |-> "affiliate", h |-> h, to |-> U!NoEntry]]
      BY <1>1, <1>6 DEF U!LoadOrStore, Arrived
    <3> QED
      BY <1>5, <3>1 DEF Turns, Holding
  <2>4. \A j \in DOMAIN dedup : dedup'[j] = dedup[j]
    BY <1>3, <1>6
  <2> QED
    BY <1>2, <1>6, <2>1, <2>2, <2>3, <2>4, UnitsDuplicate
<1>7. CASE k \notin DOMAIN dedup
  <2>1. blurred' \in BOOLEAN /\ (~blurred' => ~blurred /\ ~(e.ts <= newest)
                                   /\ \A v \in U!Worker : atUnitEvents[v] = U!Idle)
    BY <1>4
  <2>2. ~(e.ts <= newest) => e.ts > newest
    BY EventFacts, NumberFacts
  <2>3. dropped' = dropped
    BY <1>1, <1>7 DEF U!LoadOrStore
  <2>4. Turns(w, [pc |-> "insert", h |-> h, to |-> U!NoEntry])
    <3>1. atUnitEvents' = [atUnitEvents EXCEPT ![w] = [pc |-> "insert", h |-> h, to |-> U!NoEntry]]
      BY <1>1, <1>7 DEF U!LoadOrStore, Arrived
    <3> QED
      BY <1>5, <3>1 DEF Turns, Holding
  <2>5. dedup'[k] = nowUnitEvents /\ \A j \in DOMAIN dedup : dedup'[j] = dedup[j]
    BY <1>3, <1>7
  <2>6. ~blurred' => ~blurred /\ e.ts > newest /\ \A v \in U!Worker : atUnitEvents[v] = U!Idle
    BY <2>1, <2>2
  <2> QED
    BY <1>2, <1>7, <2>1, <2>3, <2>4, <2>5, <2>6, UnitsFresh
<1> QED
  BY <1>6, <1>7

-----------------------------------------------------------------------------
(* What a worker does next, and a restart.                                 *)

\* A turn leaves the others as they were; one about to move the unit knows where to.
LEMMA TurnTypes ==
  ASSUME UnitsInv, NEW w \in U!Worker, NEW y, Turns(w, y),
         y.pc = "move" => /\ y.to = [tg |-> y.h.e.tg, status |-> "affiliated", last |-> y.h.e.ts]
                          /\ y.to \in U!Entry /\ y.h.e.tg # U!NoTalkgroup
                          /\ y.h.e.type \in {"join"} \cup U!Located
  PROVE  /\ WorkersInv'
         /\ \A v \in U!Worker :
              atUnitEvents'[v] = U!Idle
                \/ (atUnitEvents'[v].pc \in {"insert", "affiliate", "move"} /\ atUnitEvents'[v].h \in U!Handled)
<1>1. /\ atUnitEvents'[w] = y /\ atUnitEvents' \in [U!Worker -> Holding \cup {U!Idle}]
      /\ \A v \in U!Worker : v # w => atUnitEvents'[v] = atUnitEvents[v]
  BY TurnFacts
<1>2. ASSUME NEW v \in U!Worker, atUnitEvents'[v].pc = "move"
      PROVE  /\ atUnitEvents'[v].to = [tg |-> atUnitEvents'[v].h.e.tg, status |-> "affiliated",
                                       last |-> atUnitEvents'[v].h.e.ts]
             /\ atUnitEvents'[v].to \in U!Entry /\ atUnitEvents'[v].h.e.tg # U!NoTalkgroup
             /\ atUnitEvents'[v].h.e.type \in {"join"} \cup U!Located
  <2>1. CASE v = w
    BY <1>1, <1>2, <2>1
  <2>2. CASE v # w
    BY <1>1, <1>2, <2>2 DEF UnitsInv, WorkersInv
  <2> QED
    BY <2>1, <2>2
<1> QED
  BY <1>1, <1>2 DEF WorkersInv, Holding

\* While reports come one at a time nobody else is at work, and the one in hand is the latest.
LEMMA OnlyOne ==
  ASSUME UnitsInv, ~blurred, NEW w \in U!Worker, atUnitEvents[w] # U!Idle
  PROVE  /\ \A v \in U!Worker : v # w => atUnitEvents[v] = U!Idle
         /\ \A h \in rowsUnitEvents : h.e.ts <= newest
         /\ atUnitEvents[w].pc = "insert" =>
              atUnitEvents[w].h.e.ts = newest /\ \A h \in rowsUnitEvents : h.e.ts < newest
         /\ atUnitEvents[w].pc \in {"affiliate", "move"} =>
              atUnitEvents[w].h \in rowsUnitEvents /\ atUnitEvents[w].h.e.ts = newest
BY AcceptedFacts DEF UnitsInv, OrderInv

\* Of two rows, the one in hand is the later.
LEMMA InHandLatest ==
  ASSUME UnitsInv, ~blurred, NEW w \in U!Worker, atUnitEvents[w].pc \in {"affiliate", "move"},
         NEW j \in rowsUnitEvents, j # atUnitEvents[w].h
  PROVE  /\ atUnitEvents[w].h \in rowsUnitEvents
         /\ atUnitEvents[w].h.e.ts \in Int /\ j.e.ts \in Int
         /\ atUnitEvents[w].h.e.ts > j.e.ts
<1>1. atUnitEvents[w] # U!Idle
  BY DEF U!Idle
<1>2. /\ atUnitEvents[w].h \in rowsUnitEvents /\ atUnitEvents[w].h.e.ts = newest
      /\ j.e.ts <= newest
  BY <1>1, OnlyOne
<1>3. j.e.ts \in Int /\ newest \in Int
  BY AcceptedFacts, HandledFacts, NumberFacts
<1>4. j.e.ts # newest
  BY <1>2 DEF UnitsInv, OrderInv
<1> QED
  BY <1>2, <1>3, <1>4

LEMMA UnitsStored ==
  ASSUME UnitsInv, NEW w \in U!Worker, atUnitEvents[w].pc = "insert",
         rowsUnitEvents' = rowsUnitEvents \cup {atUnitEvents[w].h},
         atUnitEvents' = [atUnitEvents EXCEPT ![w].pc = "affiliate"],
         UNCHANGED <<nowUnitEvents, sweepAt, dedup, failed, dropped, affiliation, blurred, newest,
                     count, faultsUnitEvents, restartsUnitEvents>>
  PROVE  UnitsInv'
<1>1. PICK h, y : h = atUnitEvents[w].h /\ y = [atUnitEvents[w] EXCEPT !.pc = "affiliate"]
  OBVIOUS
<1>2. atUnitEvents[w] \in Holding /\ h \in U!Handled /\ atUnitEvents[w] # U!Idle
  BY <1>1, WorkerFacts DEF Holding, U!Idle
<1>3. y \in Holding /\ y.pc = "affiliate" /\ y.h = h /\ Turns(w, y)
  BY <1>1, <1>2 DEF Holding, Turns
<1>4. /\ atUnitEvents'[w] = y /\ \A v \in U!Worker : v # w => atUnitEvents'[v] = atUnitEvents[v]
  BY <1>3, TurnFacts
<1>5. U!TypeOK' /\ CountersInv' /\ WorkersInv'
  BY <1>1, <1>2, <1>3, TurnTypes DEF UnitsInv, U!TypeOK, CountersInv
<1>6. Accepted' = Accepted
  BY <1>1, <1>3, <1>4 DEF Accepted
<1>7. AcceptedInv' /\ DedupInv'
  BY <1>6, AcceptedKept, DedupKept, NumberFacts
<1>8. OrderInv'
  <2>1. \A g \in Accepted' : g.e.ts <= newest'
    BY <1>6 DEF UnitsInv, OrderInv
  <2>2. ASSUME ~blurred
        PROVE  /\ \A g, f \in rowsUnitEvents' : g.e.ts = f.e.ts => g = f
               /\ \A v, u \in U!Worker : atUnitEvents'[v] # U!Idle /\ atUnitEvents'[u] # U!Idle => v = u
               /\ \A v \in U!Worker :
                    /\ atUnitEvents'[v].pc = "insert" =>
                         atUnitEvents'[v].h.e.ts = newest /\ \A g \in rowsUnitEvents' : g.e.ts < newest
                    /\ atUnitEvents'[v].pc \in {"affiliate", "move"} =>
                         atUnitEvents'[v].h \in rowsUnitEvents' /\ atUnitEvents'[v].h.e.ts = newest
    <3>1. /\ h.e.ts = newest /\ (\A g \in rowsUnitEvents : g.e.ts < newest)
          /\ \A v \in U!Worker : v # w => atUnitEvents[v] = U!Idle
      BY <1>1, <1>2, <2>2, OnlyOne
    <3>2. newest \in Int /\ \A g \in rowsUnitEvents : g.e.ts # newest
      BY <3>1, NumberFacts, AcceptedFacts, HandledFacts
    <3>3. \A g, f \in rowsUnitEvents : g.e.ts = f.e.ts => g = f
      BY <2>2 DEF UnitsInv, OrderInv
    <3>4. \A g, f \in rowsUnitEvents' : g.e.ts = f.e.ts => g = f
      BY <1>1, <3>1, <3>2, <3>3
    <3>5. \A v \in U!Worker : v # w => atUnitEvents'[v] = U!Idle /\ atUnitEvents'[v].pc = "idle"
      BY <1>4, <3>1 DEF U!Idle
    <3>6. /\ atUnitEvents'[w].pc = "affiliate" /\ atUnitEvents'[w].h = h
          /\ h \in rowsUnitEvents' /\ h.e.ts = newest
      BY <1>1, <1>3, <1>4, <3>1
    <3> QED
      BY <3>4, <3>5, <3>6
  <2> QED
    BY <2>1, <2>2 DEF OrderInv
<1>9. MapInv'
  <2> SUFFICES ASSUME ~blurred, failed = {}, NEW j \in rowsUnitEvents', Stands(j)'
               PROVE  \/ affiliation.tg = j.e.tg /\ affiliation.status = "affiliated"
                           /\ affiliation.last >= j.e.ts
                      \/ \E v \in U!Worker :
                           atUnitEvents'[v].pc \in {"affiliate", "move"} /\ atUnitEvents'[v].h = j
    BY DEF MapInv
  <2>1. CASE j = h
    BY <1>3, <1>4, <2>1
  <2>2. CASE j \in rowsUnitEvents
    <3>1. Stands(j)
      BY DEF Stands, TakesBack
    <3>2. \A v \in U!Worker : atUnitEvents[v].pc \notin {"affiliate", "move"}
      BY <1>2, OnlyOne DEF U!Idle
    <3> QED
      BY <2>2, <3>1, <3>2 DEF UnitsInv, MapInv
  <2> QED
    BY <1>1, <2>1, <2>2
<1> QED
  BY <1>5, <1>7, <1>8, <1>9 DEF UnitsInv

\* A turn that ends with nothing in hand leaves the order as it was.
LEMMA OrderKept ==
  ASSUME UnitsInv, NEW w \in U!Worker, Turns(w, U!Idle), Accepted' = Accepted,
         UNCHANGED <<rowsUnitEvents, newest, blurred>>
  PROVE  OrderInv'
<1>1. /\ atUnitEvents'[w] = U!Idle /\ U!Idle.pc = "idle"
      /\ \A v \in U!Worker : v # w => atUnitEvents'[v] = atUnitEvents[v]
  BY TurnFacts DEF U!Idle
<1>2. \A g \in Accepted' : g.e.ts <= newest'
  BY DEF UnitsInv, OrderInv
<1>3. ASSUME ~blurred
      PROVE  /\ \A g, f \in rowsUnitEvents : g.e.ts = f.e.ts => g = f
             /\ \A v, u \in U!Worker : atUnitEvents'[v] # U!Idle /\ atUnitEvents'[u] # U!Idle => v = u
             /\ \A v \in U!Worker :
                  /\ atUnitEvents'[v].pc = "insert" =>
                       atUnitEvents'[v].h.e.ts = newest /\ \A g \in rowsUnitEvents : g.e.ts < newest
                  /\ atUnitEvents'[v].pc \in {"affiliate", "move"} =>
                       atUnitEvents'[v].h \in rowsUnitEvents /\ atUnitEvents'[v].h.e.ts = newest
  BY <1>1, <1>3 DEF UnitsInv, OrderInv
<1> QED
  BY <1>2, <1>3 DEF OrderInv

LEMMA UnitsNotStored ==
  ASSUME UnitsInv, NEW w \in U!Worker, atUnitEvents[w].pc = "insert",
         failed' = failed \cup {atUnitEvents[w].h}, faultsUnitEvents' = faultsUnitEvents + 1,
         atUnitEvents' = [atUnitEvents EXCEPT ![w] = U!Idle],
         UNCHANGED <<nowUnitEvents, sweepAt, dedup, rowsUnitEvents, dropped, affiliation, blurred,
                     newest, count, restartsUnitEvents>>
  PROVE  UnitsInv'
<1>1. Turns(w, U!Idle) /\ U!Idle.pc = "idle" /\ atUnitEvents[w].h \in U!Handled
  BY WorkerFacts DEF Turns, Holding, U!Idle
<1>2. /\ atUnitEvents'[w] = U!Idle /\ \A v \in U!Worker : v # w => atUnitEvents'[v] = atUnitEvents[v]
  BY <1>1, TurnFacts
<1>3. U!TypeOK' /\ CountersInv' /\ WorkersInv'
  <2>1. WorkersInv' /\ \A v \in U!Worker :
          atUnitEvents'[v] = U!Idle
            \/ (atUnitEvents'[v].pc \in {"insert", "affiliate", "move"} /\ atUnitEvents'[v].h \in U!Handled)
    BY <1>1, TurnTypes
  <2> QED
    BY <1>1, <2>1 DEF UnitsInv, U!TypeOK, CountersInv
<1>4. Accepted' = Accepted
  BY <1>1, <1>2 DEF Accepted
<1>5. AcceptedInv' /\ DedupInv'
  BY <1>4, AcceptedKept, DedupKept, NumberFacts
<1>6. OrderInv' /\ MapInv'
  BY <1>1, <1>4, OrderKept DEF MapInv
<1> QED
  BY <1>3, <1>5, <1>6 DEF UnitsInv

LEMMA UnitsInsert ==
  ASSUME UnitsInv, NEW w \in U!Worker, U!InsertUnitEvent(w)
  PROVE  UnitsInv'
BY UnitsStored, UnitsNotStored DEF U!InsertUnitEvent

\* It will move the unit.
LEMMA UnitsToMove ==
  ASSUME UnitsInv, NEW w \in U!Worker, atUnitEvents[w].pc = "affiliate",
         NEW e, e = atUnitEvents[w].h.e,
         e.type = "join" \/ (e.type \in U!Located /\ e.tg # U!NoTalkgroup),
         NEW y,
         y = [atUnitEvents[w] EXCEPT
                !.pc = "move", !.to = [tg |-> e.tg, status |-> "affiliated", last |-> e.ts]],
         atUnitEvents' = [atUnitEvents EXCEPT ![w] = y],
         UNCHANGED <<nowUnitEvents, sweepAt, dedup, rowsUnitEvents, failed, dropped, affiliation,
                     blurred, newest, count, faultsUnitEvents, restartsUnitEvents>>
  PROVE  UnitsInv'
<1>2. atUnitEvents[w] \in Holding /\ atUnitEvents[w] # U!Idle /\ e \in U!Event
  BY WorkerFacts, HandledFacts DEF Holding, U!Idle
<1>3. [tg |-> e.tg, status |-> "affiliated", last |-> e.ts] \in U!Entry /\ e.tg # U!NoTalkgroup
  BY <1>2, EventFacts DEF U!Entry
<1>4. /\ y \in Holding /\ y.pc = "move" /\ y.h = atUnitEvents[w].h
      /\ y.to = [tg |-> e.tg, status |-> "affiliated", last |-> e.ts]
  BY <1>2, <1>3 DEF Holding
<1>5. Turns(w, y)
  BY <1>4 DEF Turns
<1>6. /\ atUnitEvents'[w] = y /\ \A v \in U!Worker : v # w => atUnitEvents'[v] = atUnitEvents[v]
  BY <1>5, TurnFacts
<1>7. U!TypeOK' /\ CountersInv' /\ WorkersInv'
  <2>1. WorkersInv' /\ \A v \in U!Worker :
          atUnitEvents'[v] = U!Idle
            \/ (atUnitEvents'[v].pc \in {"insert", "affiliate", "move"} /\ atUnitEvents'[v].h \in U!Handled)
    BY <1>3, <1>4, <1>5, TurnTypes
  <2> QED
    BY <2>1 DEF UnitsInv, U!TypeOK, CountersInv
<1>8. Accepted' = Accepted
  <2>1. \A v \in U!Worker :
          /\ atUnitEvents'[v].pc = "insert" <=> atUnitEvents[v].pc = "insert"
          /\ atUnitEvents'[v].h = atUnitEvents[v].h
    BY <1>4, <1>6
  <2> QED
    BY <2>1 DEF Accepted
<1>9. AcceptedInv' /\ DedupInv'
  BY <1>8, AcceptedKept, DedupKept, NumberFacts
<1>10. OrderInv'
  <2>1. \A g \in Accepted' : g.e.ts <= newest'
    BY <1>8 DEF UnitsInv, OrderInv
  <2>2. ASSUME ~blurred
        PROVE  /\ \A g, f \in rowsUnitEvents : g.e.ts = f.e.ts => g = f
               /\ \A v, u \in U!Worker : atUnitEvents'[v] # U!Idle /\ atUnitEvents'[u] # U!Idle => v = u
               /\ \A v \in U!Worker :
                    /\ atUnitEvents'[v].pc = "insert" =>
                         atUnitEvents'[v].h.e.ts = newest /\ \A g \in rowsUnitEvents : g.e.ts < newest
                    /\ atUnitEvents'[v].pc \in {"affiliate", "move"} =>
                         atUnitEvents'[v].h \in rowsUnitEvents /\ atUnitEvents'[v].h.e.ts = newest
    <3>1. /\ atUnitEvents[w].h \in rowsUnitEvents /\ atUnitEvents[w].h.e.ts = newest
          /\ \A v \in U!Worker : v # w => atUnitEvents[v] = U!Idle
      BY <1>2, <2>2, OnlyOne
    <3>2. \A v \in U!Worker : v # w => atUnitEvents'[v] = U!Idle /\ atUnitEvents'[v].pc = "idle"
      BY <1>6, <3>1 DEF U!Idle
    <3>3. \A g, f \in rowsUnitEvents : g.e.ts = f.e.ts => g = f
      BY <2>2 DEF UnitsInv, OrderInv
    <3> QED
      BY SMTT(30), <1>4, <1>6, <3>1, <3>2, <3>3
  <2> QED
    BY <2>1, <2>2 DEF OrderInv
<1>11. MapInv'
  BY <1>4, <1>6, MapKept
<1> QED
  BY <1>7, <1>9, <1>10, <1>11 DEF UnitsInv

\* It counts as activity, or takes the unit off.
LEMMA UnitsActive ==
  ASSUME UnitsInv, NEW w \in U!Worker, atUnitEvents[w].pc = "affiliate",
         NEW e, e = atUnitEvents[w].h.e, e.type # "join",
         affiliation = U!NoEntry => affiliation' = affiliation,
         affiliation # U!NoEntry /\ e.type = "off" =>
           affiliation' = [affiliation EXCEPT !.status = "off", !.last = e.ts],
         affiliation # U!NoEntry /\ e.type # "off" => affiliation' = [affiliation EXCEPT !.last = e.ts],
         atUnitEvents' = [atUnitEvents EXCEPT ![w] = U!Idle],
         UNCHANGED <<nowUnitEvents, sweepAt, dedup, rowsUnitEvents, failed, dropped,
                     blurred, newest, count, faultsUnitEvents, restartsUnitEvents>>
  PROVE  UnitsInv'
<1>1. Turns(w, U!Idle) /\ U!Idle.pc = "idle"
  BY DEF Turns, U!Idle
<1>2. /\ atUnitEvents'[w] = U!Idle /\ \A v \in U!Worker : v # w => atUnitEvents'[v] = atUnitEvents[v]
  BY <1>1, TurnFacts
<1>3. e \in U!Event /\ e.ts \in -Delay .. MaxTimeUnits
  BY WorkerFacts, HandledFacts, EventFacts DEF Holding
<1>4. ASSUME affiliation # U!NoEntry
      PROVE  /\ affiliation \in U!Entry /\ affiliation' \in U!Entry
             /\ affiliation'.tg = affiliation.tg /\ affiliation'.last = e.ts
             /\ e.type # "off" => affiliation'.status = affiliation.status
  <2>1. affiliation \in U!Entry
    BY <1>4 DEF UnitsInv, U!TypeOK
  <2>2. CASE e.type = "off"
    BY <1>3, <1>4, <2>1, <2>2 DEF U!Entry
  <2>3. CASE e.type # "off"
    BY <1>3, <1>4, <2>1, <2>3 DEF U!Entry
  <2> QED
    BY <2>1, <2>2, <2>3
<1>5. U!TypeOK' /\ CountersInv' /\ WorkersInv'
  <2>1. affiliation' \in U!Entry \cup {U!NoEntry}
    BY <1>4
  <2>2. WorkersInv' /\ \A v \in U!Worker :
          atUnitEvents'[v] = U!Idle
            \/ (atUnitEvents'[v].pc \in {"insert", "affiliate", "move"} /\ atUnitEvents'[v].h \in U!Handled)
    BY <1>1, TurnTypes
  <2> QED
    BY <2>1, <2>2 DEF UnitsInv, U!TypeOK, CountersInv
<1>6. Accepted' = Accepted
  BY <1>1, <1>2 DEF Accepted
<1>7. AcceptedInv' /\ DedupInv'
  BY <1>6, AcceptedKept, DedupKept, NumberFacts
<1>8. OrderInv'
  BY <1>1, <1>6, OrderKept
<1>9. MapInv'
  <2> SUFFICES ASSUME ~blurred, failed = {}, NEW j \in rowsUnitEvents, Stands(j)
               PROVE  affiliation'.tg = j.e.tg /\ affiliation'.status = "affiliated"
                        /\ affiliation'.last >= j.e.ts
    BY DEF MapInv, Stands, TakesBack
  <2>1. j.e.type = "join" /\ j # atUnitEvents[w].h
    BY DEF Stands
  <2>2. atUnitEvents[w] # U!Idle
    BY <1>1
  <2>3. \A v \in U!Worker : atUnitEvents[v].pc \in {"affiliate", "move"} => v = w
    BY <1>1, <2>2, OnlyOne
  <2>4. affiliation.tg = j.e.tg /\ affiliation.status = "affiliated"
    BY <2>1, <2>3 DEF UnitsInv, MapInv
  <2>5. affiliation # U!NoEntry
    BY <2>4 DEF U!NoEntry
  <2>6. /\ atUnitEvents[w].h \in rowsUnitEvents /\ e.ts \in Int /\ j.e.ts \in Int
        /\ e.ts > j.e.ts
    BY <2>1, InHandLatest
  <2>7. e.type # "off"
    BY <2>6 DEF Stands, TakesBack
  <2> QED
    BY <1>4, <2>4, <2>5, <2>6, <2>7
<1> QED
  BY <1>5, <1>7, <1>8, <1>9 DEF UnitsInv

LEMMA UnitsAffiliate ==
  ASSUME UnitsInv, NEW w \in U!Worker, U!Affiliate(w)
  PROVE  UnitsInv'
<1>1. PICK e : e = atUnitEvents[w].h.e
  OBVIOUS
<1>2. /\ atUnitEvents[w].pc = "affiliate"
      /\ UNCHANGED <<nowUnitEvents, sweepAt, dedup, rowsUnitEvents, failed, dropped,
                     blurred, newest, count, faultsUnitEvents, restartsUnitEvents>>
  BY DEF U!Affiliate
<1> DEFINE moves == e.type = "join" \/ (e.type \in U!Located /\ e.tg # U!NoTalkgroup
                       /\ affiliation # U!NoEntry /\ affiliation.tg # e.tg)
<1>3. CASE moves
  <2>1. /\ atUnitEvents' = [atUnitEvents EXCEPT
             ![w].pc = "move", ![w].to = [tg |-> e.tg, status |-> "affiliated", last |-> e.ts]]
        /\ UNCHANGED affiliation
    BY <1>1, <1>3 DEF U!Affiliate
  <2>2. PICK y : y = [atUnitEvents[w] EXCEPT
                        !.pc = "move", !.to = [tg |-> e.tg, status |-> "affiliated", last |-> e.ts]]
    OBVIOUS
  <2>3. atUnitEvents' = [atUnitEvents EXCEPT ![w] = y]
    BY <2>1, <2>2 DEF UnitsInv, WorkersInv
  <2>4. UNCHANGED <<nowUnitEvents, sweepAt, dedup, rowsUnitEvents, failed, dropped, affiliation,
                    blurred, newest, count, faultsUnitEvents, restartsUnitEvents>>
    BY <1>2, <2>1
  <2>5. e.type = "join" \/ (e.type \in U!Located /\ e.tg # U!NoTalkgroup)
    BY <1>3
  <2> QED
    BY <1>1, <1>2, <2>2, <2>3, <2>4, <2>5, UnitsToMove
<1>4. CASE ~moves
  <2> DEFINE known == affiliation # U!NoEntry
  <2> HIDE DEF known
  <2>1. /\ affiliation' =
             (CASE ~known -> affiliation
                [] known /\ e.type = "off" -> [affiliation EXCEPT !.status = "off", !.last = e.ts]
                [] OTHER -> [affiliation EXCEPT !.last = e.ts])
        /\ atUnitEvents' = [atUnitEvents EXCEPT ![w] = U!Idle]
    BY <1>1, <1>4 DEF U!Affiliate, known
  <2>2. affiliation = U!NoEntry => affiliation' = affiliation
    BY <2>1 DEF known
  <2>3. affiliation # U!NoEntry /\ e.type = "off" =>
          affiliation' = [affiliation EXCEPT !.status = "off", !.last = e.ts]
    BY <2>1 DEF known
  <2>4. affiliation # U!NoEntry /\ e.type # "off" => affiliation' = [affiliation EXCEPT !.last = e.ts]
    BY <2>1 DEF known
  <2>5. e.type # "join"
    BY <1>4
  <2> QED
    BY <1>1, <1>2, <2>1, <2>2, <2>3, <2>4, <2>5, UnitsActive
<1> QED
  BY <1>3, <1>4

LEMMA UnitsMove ==
  ASSUME UnitsInv, NEW w \in U!Worker, U!Move(w)
  PROVE  UnitsInv'
<1>1. /\ atUnitEvents[w].pc = "move" /\ affiliation' = atUnitEvents[w].to
      /\ atUnitEvents' = [atUnitEvents EXCEPT ![w] = U!Idle]
      /\ UNCHANGED <<nowUnitEvents, sweepAt, dedup, rowsUnitEvents, failed, dropped,
                     blurred, newest, count, faultsUnitEvents, restartsUnitEvents>>
  BY DEF U!Move
<1>2. Turns(w, U!Idle) /\ U!Idle.pc = "idle"
  BY <1>1 DEF Turns, U!Idle
<1>3. /\ atUnitEvents'[w] = U!Idle /\ \A v \in U!Worker : v # w => atUnitEvents'[v] = atUnitEvents[v]
  BY <1>2, TurnFacts
<1>4. PICK h : h = atUnitEvents[w].h
  OBVIOUS
<1>5. /\ affiliation' = [tg |-> h.e.tg, status |-> "affiliated", last |-> h.e.ts]
      /\ affiliation' \in U!Entry /\ h.e.tg # U!NoTalkgroup /\ h.e.type \in {"join"} \cup U!Located
  BY <1>1, <1>4 DEF UnitsInv, WorkersInv
<1>6. U!TypeOK' /\ CountersInv' /\ WorkersInv'
  <2>1. WorkersInv' /\ \A v \in U!Worker :
          atUnitEvents'[v] = U!Idle
            \/ (atUnitEvents'[v].pc \in {"insert", "affiliate", "move"} /\ atUnitEvents'[v].h \in U!Handled)
    BY <1>2, TurnTypes
  <2> QED
    BY <1>1, <1>5, <2>1 DEF UnitsInv, U!TypeOK, CountersInv
<1>7. Accepted' = Accepted
  BY <1>1, <1>2, <1>3 DEF Accepted
<1>8. AcceptedInv' /\ DedupInv'
  BY <1>1, <1>7, AcceptedKept, DedupKept, NumberFacts
<1>9. OrderInv'
  BY <1>1, <1>2, <1>7, OrderKept
<1>10. MapInv'
  <2> SUFFICES ASSUME ~blurred, failed = {}, NEW j \in rowsUnitEvents, Stands(j)
               PROVE  affiliation'.tg = j.e.tg /\ affiliation'.status = "affiliated"
                        /\ affiliation'.last >= j.e.ts
    BY <1>1 DEF MapInv, Stands, TakesBack
  <2>1. CASE j = h
    <3>1. j.e.ts \in Int
      BY AcceptedFacts, HandledFacts
    <3> QED
      BY <1>5, <2>1, <3>1
  <2>2. CASE j # h
    <3>1. h \in rowsUnitEvents /\ h.e.ts \in Int /\ j.e.ts \in Int /\ h.e.ts > j.e.ts
      BY <1>1, <1>4, <2>2, InHandLatest
    <3>2. ~TakesBack(h, j)
      BY <3>1 DEF Stands
    <3>3. h.e.tg = j.e.tg
      BY <1>5, <3>2 DEF TakesBack
    <3> QED
      BY <1>5, <3>1, <3>3
  <2> QED
    BY <2>1, <2>2
<1> QED
  BY <1>6, <1>8, <1>9, <1>10 DEF UnitsInv

\* What a start finds: nothing, or the latest of the recent joins.
LEMMA LoadedFacts ==
  ASSUME UnitsInv, NEW a \in U!LoadRecentAffiliations
  PROVE  \/ a = U!NoEntry /\ \A r \in rowsUnitEvents : r.e.type = "join" => ~U!Recent(r)
         \/ \E j \in rowsUnitEvents :
              /\ j.e.type = "join" /\ U!Recent(j)
              /\ \A r \in rowsUnitEvents : r.e.type = "join" /\ U!Recent(r) => r.e.ts <= j.e.ts
              /\ a = [tg |-> j.e.tg, status |-> IF U!WentOff(j) THEN "off" ELSE "affiliated",
                      last |-> j.e.ts]
              /\ a \in U!Entry
<1>1. CASE U!Joins = {}
  BY <1>1 DEF U!LoadRecentAffiliations, U!Joins
<1>2. CASE U!Joins # {}
  <2>1. PICK j \in U!Joins :
          /\ \A r \in U!Joins : r.e.ts <= j.e.ts
          /\ a = [tg |-> j.e.tg, status |-> IF U!WentOff(j) THEN "off" ELSE "affiliated",
                  last |-> j.e.ts]
    BY <1>2 DEF U!LoadRecentAffiliations
  <2>2. j \in rowsUnitEvents /\ j.e.type = "join" /\ U!Recent(j)
    BY DEF U!Joins
  <2>3. j.e.tg \in Talkgroup /\ j.e.ts \in -Delay .. MaxTimeUnits
    BY <2>2, AcceptedFacts, HandledFacts, EventFacts
  <2>4. a \in U!Entry
    BY <2>1, <2>3 DEF U!Entry
  <2> QED
    BY <2>1, <2>2, <2>4 DEF U!Joins
<1> QED
  BY <1>1, <1>2

LEMMA UnitsRestart ==
  ASSUME UnitsInv, U!Restart
  PROVE  UnitsInv'
<1>1. /\ faultsUnitEvents + restartsUnitEvents < MaxTroublesUnits
      /\ restartsUnitEvents' = restartsUnitEvents + 1
      /\ DOMAIN dedup' = {} /\ sweepAt' = nowUnitEvents + WindowUnits
      /\ failed' = failed \cup {atUnitEvents[w].h : w \in {w \in U!Worker : atUnitEvents[w].pc = "insert"}}
      /\ atUnitEvents' = [w \in U!Worker |-> U!Idle]
      /\ affiliation' \in U!LoadRecentAffiliations
      /\ blurred' = (blurred \/ \E w \in U!Worker : atUnitEvents[w] # U!Idle)
      /\ UNCHANGED <<nowUnitEvents, rowsUnitEvents, dropped, newest, count, faultsUnitEvents>>
  BY DEF U!Restart
<1>2. U!Idle.pc = "idle" /\ \A w \in U!Worker : atUnitEvents'[w] = U!Idle
  BY <1>1 DEF U!Idle
<1>3. /\ nowUnitEvents \in Nat /\ restartsUnitEvents \in Nat /\ sweepAt' \in Nat
      /\ restartsUnitEvents' \in 0 .. MaxTroublesUnits /\ restartsUnitEvents < restartsUnitEvents'
  BY <1>1, NumberFacts, UnitNumbers DEF UnitsInv, CountersInv
<1>4. U!TypeOK' /\ CountersInv' /\ WorkersInv'
  <2>1. failed' \subseteq U!Handled
    BY <1>1, <1>2, WorkerFacts DEF UnitsInv, U!TypeOK
  <2>2. affiliation' \in U!Entry \cup {U!NoEntry}
    BY <1>1, LoadedFacts
  <2>3. blurred' \in BOOLEAN
    BY <1>1
  <2>4. U!TypeOK'
    BY <1>1, <1>2, <1>3, <2>1, <2>2, <2>3 DEF UnitsInv, U!TypeOK
  <2>5. CountersInv'
    BY <1>1, <1>3 DEF UnitsInv, CountersInv
  <2>6. WorkersInv'
    BY <1>1, <1>2 DEF WorkersInv
  <2> QED
    BY <2>4, <2>5, <2>6
<1>5. Accepted' = Accepted
  BY <1>1, <1>2 DEF Accepted
<1>6. AcceptedInv'
  BY <1>1, <1>3, <1>5, AcceptedKept
<1>7. DedupInv'
  <2>1. \A h \in Accepted : h.run # restartsUnitEvents'
    <3> SUFFICES ASSUME NEW h \in Accepted PROVE h.run # restartsUnitEvents'
      OBVIOUS
    <3>1. h.run \in Nat /\ h.run <= restartsUnitEvents
      BY AcceptedFacts, HandledFacts DEF UnitsInv, AcceptedInv
    <3> QED
      BY <1>3, <3>1
  <2>2. nowUnitEvents <= sweepAt' /\ sweepAt' <= nowUnitEvents + WindowUnits
    BY <1>1, <1>3, UnitNumbers
  <2> QED
    BY <1>1, <1>5, <2>1, <2>2 DEF DedupInv
<1>8. OrderInv'
  BY <1>1, <1>2, <1>5 DEF UnitsInv, OrderInv
<1>9. MapInv'
  <2>1. ASSUME ~blurred, NEW j \in rowsUnitEvents, Stands(j)
        PROVE  affiliation'.tg = j.e.tg /\ affiliation'.status = "affiliated"
                 /\ affiliation'.last >= j.e.ts
    <3>1. j.e.type = "join" /\ U!Recent(j) /\ j.e.ts \in Int
      BY <2>1, AcceptedFacts, HandledFacts DEF Stands, U!Recent
    <3>2. PICK q \in rowsUnitEvents :
            /\ q.e.type = "join" /\ j.e.ts <= q.e.ts
            /\ affiliation' = [tg |-> q.e.tg, status |-> IF U!WentOff(q) THEN "off" ELSE "affiliated",
                               last |-> q.e.ts]
      BY <1>1, <3>1, LoadedFacts
    <3>3. q = j
      <4>1. q.e.ts \in Int
        BY AcceptedFacts, HandledFacts
      <4>2. ~(q.e.ts > j.e.ts)
        BY <2>1, <3>2 DEF Stands, TakesBack
      <4>3. q.e.ts = j.e.ts
        BY <3>1, <3>2, <4>1, <4>2
      <4> QED
        BY <2>1, <4>3 DEF UnitsInv, OrderInv
    <3>4. ~U!WentOff(j)
      BY <2>1 DEF U!WentOff, Stands, TakesBack
    <3> QED
      BY <3>1, <3>2, <3>3, <3>4
  <2>2. ~blurred' => ~blurred
    BY <1>1
  <2>3. \A j \in rowsUnitEvents : Stands(j)' => Stands(j)
    BY <1>1 DEF Stands, TakesBack
  <2> QED
    BY <1>1, <2>1, <2>2, <2>3 DEF MapInv
<1> QED
  BY <1>4, <1>6, <1>7, <1>8, <1>9 DEF UnitsInv

LEMMA UnitsStay ==
  ASSUME UnitsInv, UNCHANGED unitsVars
  PROVE  UnitsInv'
<1>1. Accepted' = Accepted
  BY DEF Accepted, unitsVars
<1>2. AcceptedInv' /\ DedupInv'
  BY <1>1, AcceptedKept, DedupKept, NumberFacts DEF unitsVars
<1>3. MapInv'
  BY MapKept DEF unitsVars
<1>4. OrderInv'
  BY <1>1 DEF UnitsInv, OrderInv, unitsVars
<1>5. U!TypeOK' /\ CountersInv' /\ WorkersInv'
  BY DEF UnitsInv, U!TypeOK, CountersInv, WorkersInv, unitsVars
<1> QED
  BY <1>2, <1>3, <1>4, <1>5 DEF UnitsInv

\* The inductive invariant of the unit events: every step of the records keeps it.
LEMMA UnitsKept ==
  ASSUME UnitsInv, [RecordsNext]_recordsVars
  PROVE  UnitsInv'
<1>1. CASE U!Next
  BY <1>1, UnitsTick, UnitsSweep, UnitsEvict, UnitsArrive, UnitsInsert, UnitsAffiliate, UnitsMove,
     UnitsRestart DEF U!Next
<1>2. CASE UNCHANGED unitsVars
  BY <1>2, UnitsStay
<1>3. U!Next \/ UNCHANGED unitsVars
  BY DEF RecordsNext, recordsVars
<1> QED
  BY <1>1, <1>2, <1>3

\* The invariant gives what the runs check of the unit events.
LEMMA UnitsImplied ==
  ASSUME UnitsInv
  PROVE  UnitsAgree
<1>1. U!NoneLost
  <2> SUFFICES ASSUME NEW d \in dropped
               PROVE  \E r \in rowsUnitEvents \cup failed
                                \cup {atUnitEvents[w].h : w \in {w \in U!Worker : atUnitEvents[w] # U!Idle}} :
                        r.n # d.n /\ U!DedupKey(r.e) = U!DedupKey(d.e)
                          /\ d.at - r.at \in 0 .. 2 * WindowUnits
    BY DEF U!NoneLost
  <2>1. PICK g \in Accepted : g.n # d.n /\ Alike(g, d) /\ d.at - g.at \in 0 .. 2 * WindowUnits
    BY DEF UnitsInv, AcceptedInv
  <2>2. g \in rowsUnitEvents \cup failed
               \cup {atUnitEvents[w].h : w \in {w \in U!Worker : atUnitEvents[w] # U!Idle}}
    BY DEF Accepted, U!Idle
  <2> QED
    BY <2>1, <2>2 DEF Alike
<1>2. U!NoneTwice
  BY AcceptedFacts DEF U!NoneTwice, UnitsInv, AcceptedInv, Alike
<1>3. U!RestartAgrees
  <2> SUFFICES ASSUME ~blurred, failed = {}, \A w \in U!Worker : atUnitEvents[w] = U!Idle,
                      NEW a \in U!LoadRecentAffiliations, a.status = "affiliated"
               PROVE  affiliation.tg = a.tg /\ affiliation.status = "affiliated"
    BY DEF U!RestartAgrees
  <2>1. a # U!NoEntry
    BY DEF U!NoEntry
  <2>2. PICK j \in rowsUnitEvents :
          /\ j.e.type = "join" /\ U!Recent(j)
          /\ \A r \in rowsUnitEvents : r.e.type = "join" /\ U!Recent(r) => r.e.ts <= j.e.ts
          /\ a = [tg |-> j.e.tg, status |-> IF U!WentOff(j) THEN "off" ELSE "affiliated",
                  last |-> j.e.ts]
    BY <2>1, LoadedFacts
  <2>3. a.tg = j.e.tg /\ ~U!WentOff(j)
    BY <2>2
  <2>4. Stands(j)
    <3> SUFFICES ASSUME NEW h \in rowsUnitEvents, h.e.ts > j.e.ts PROVE ~TakesBack(h, j)
      BY <2>2 DEF Stands, U!Recent
    <3>1. h.e.ts \in Int /\ j.e.ts \in Int /\ nowUnitEvents \in Nat
      BY AcceptedFacts, HandledFacts, NumberFacts
    <3>2. U!Recent(h)
      BY <2>2, <3>1, UnitNumbers DEF U!Recent
    <3>3. h.e.type # "join"
      BY <2>2, <3>1, <3>2
    <3>4. ~(h.e.type = "off" \/ (h.e.type \in U!Located /\ h.e.tg # U!NoTalkgroup /\ h.e.tg # j.e.tg))
      BY <2>3, <3>2 DEF U!WentOff
    <3> QED
      BY <3>3, <3>4 DEF TakesBack
  <2>5. \A w \in U!Worker : atUnitEvents[w].pc \notin {"affiliate", "move"}
    BY DEF U!Idle
  <2> QED
    BY <2>3, <2>4, <2>5 DEF UnitsInv, MapInv
<1> QED
  BY <1>1, <1>2, <1>3 DEF UnitsAgree, U!EventsCountOnce, UnitsInv

\* Whatever the window, the delay, the kinds of events, the number of reports, failures and
\* restarts: the reports of the sites count as one event each, and a restart gives no
\* affiliation that the map did not have (handler_units.go, affiliations.go).
THEOREM UnitsAlwaysAgree == RecordsSpec => []UnitsAgree
<1>1. RecordsInit => UnitsInv
  BY UnitsInit DEF RecordsInit
<1>2. UnitsInv /\ [RecordsNext]_recordsVars => UnitsInv'
  BY UnitsKept
<1>3. UnitsInv => UnitsAgree
  BY UnitsImplied
<1> QED
  BY <1>1, <1>2, <1>3, PTL DEF RecordsSpec

-----------------------------------------------------------------------------
(* Attribution.                                                            *)

Sources == {0} \cup {txs[n].src : n \in DOMAIN txs}
UnitAt(k) == W!FindTransmission(input[k].start)

\* Until the boundaries and the speakers' segments are looked at, a word is with the unit
\* that was transmitting, then perhaps a blip with another, then a word brushed over.
WordInv(k) ==
  /\ pcAttribution \in {"boundary", "snap"} => src[k] = UnitAt(k) \/ W!Brief(k)
  /\ pcAttribution \in {"segments", "done"} =>
       src[k] = UnitAt(k) \/ W!Brief(k) \/ W!Brushes(k, UnitAt(k))

WordsInv ==
  /\ pcAttribution \in {"idle", "attribute", "boundary", "snap", "segments", "done"}
  /\ pcAttribution = "idle" => input = <<>>
  /\ pcAttribution # "idle" => input \in Words /\ text \in Texts
  /\ txs \in Seq([src : Int, pos : Int, duration : Nat])
  /\ src \in [W!Index -> Sources] /\ i \in Nat
  /\ pcAttribution \in {"idle", "attribute"} => i = 1
  /\ pcAttribution = "boundary" => i \in 1 .. Len(input) - 1
  /\ \A k \in W!Index : WordInv(k)
  /\ W!SegmentsAreTheText

-----------------------------------------------------------------------------
(* Sets of positions, and sequences in parts.                              *)

\* A set of naturals that is not empty has a least element.
LEMMA FirstNatural ==
  ASSUME NEW E \in SUBSET Nat, E # {}
  PROVE  \E n \in E : \A m \in E : n <= m
<1> DEFINE Less == {ss \in Nat \X Nat : ss[1] < ss[2]}
<1>1. IsWellFoundedOn(Less, Nat)
  BY NatLessThanWellFounded DEF OpToRel
<1>2. \E n \in E : \A m \in E : <<m, n>> \notin Less
  <2> HIDE DEF Less
  <2> QED
    BY <1>1, WFMin
<1>3. PICK n \in E : \A m \in E : <<m, n>> \notin Less
  BY <1>2
<1>4. ASSUME NEW m \in E PROVE n <= m
  <2>1. ~(m < n)
    BY <1>3
  <2> QED
    BY <2>1
<1> QED
  BY <1>4

\* Counting up to each element numbers a set of positions in order.
LEMMA Ranked ==
  ASSUME NEW top \in Nat, NEW E \in SUBSET (1 .. top)
  PROVE  /\ Cardinality(E) \in Nat
         /\ \A k, l \in E : k < l => Cardinality({j \in E : j <= k}) < Cardinality({j \in E : j <= l})
         /\ \A k \in E : Cardinality({j \in E : j <= k}) \in 1 .. Cardinality(E)
         /\ \A n \in 1 .. Cardinality(E) : \E k \in E : Cardinality({j \in E : j <= k}) = n
<1> DEFINE Upto(k) == {j \in E : j <= k}
<1>1. IsFiniteSet(E) /\ Cardinality(E) \in Nat
  <2>1. 1 \in Int /\ top \in Int
    OBVIOUS
  <2>2. IsFiniteSet(1 .. top)
    BY <2>1, FS_Interval
  <2> QED
    BY <2>2, FS_Subset, FS_CardinalityType
<1>2. ASSUME NEW k \in E
      PROVE  IsFiniteSet(Upto(k)) /\ Cardinality(Upto(k)) \in Nat /\ Cardinality(Upto(k)) <= Cardinality(E)
  BY <1>1, FS_Subset, FS_CardinalityType
<1>3. ASSUME NEW k \in E, NEW l \in E, k < l
      PROVE  Cardinality(Upto(k)) < Cardinality(Upto(l))
  <2>0. k \in Nat /\ l \in Nat /\ \A j \in E : j \in Nat
    OBVIOUS
  <2>1. Upto(k) \in SUBSET Upto(l) /\ l \in Upto(l) /\ l \notin Upto(k)
    <3>1. \A j \in E : j <= k => j <= l
      BY <1>3, <2>0
    <3>2. l <= l /\ ~(l <= k)
      BY <1>3, <2>0
    <3> QED
      BY <3>1, <3>2
  <2> HIDE DEF Upto
  <2>2. Cardinality(Upto(k)) <= Cardinality(Upto(l)) /\ Cardinality(Upto(k)) # Cardinality(Upto(l))
    BY <1>2, <2>1, FS_Subset
  <2> QED
    BY <1>2, <2>2
<1>4. ASSUME NEW k \in E PROVE Cardinality(Upto(k)) \in 1 .. Cardinality(E)
  <2>1. k \in Upto(k)
    OBVIOUS
  <2>2. Cardinality(Upto(k)) # 0
    BY <1>2, <2>1, FS_EmptySet
  <2> QED
    BY <1>1, <1>2, <2>2
<1>5. ASSUME NEW n \in 1 .. Cardinality(E) PROVE \E k \in E : Cardinality(Upto(k)) = n
  <2> HIDE DEF Upto
  <2>1. PICK c : c = Cardinality(E)
    OBVIOUS
  <2>2. PICK f : f = [k \in E |-> Cardinality(Upto(k))]
    OBVIOUS
  <2>3. f \in [E -> 1 .. c]
    BY <1>4, <2>1, <2>2
  <2>4. ASSUME NEW k \in E, NEW l \in E, f[k] = f[l] PROVE k = l
    <3>1. Cardinality(Upto(k)) = Cardinality(Upto(l)) /\ Cardinality(Upto(k)) \in Nat
      BY <1>2, <2>2, <2>4
    <3>2. ~(k < l) /\ ~(l < k)
      BY <1>2, <1>3, <3>1
    <3> QED
      BY <3>2
  <2>5. f \in Injection(E, 1 .. c)
    BY <2>3, <2>4 DEF Injection, IsInjective
  <2>6. 1 \in Int /\ c \in Int /\ c \in Nat
    BY <1>1, <2>1
  <2>7. IsFiniteSet(1 .. c) /\ Cardinality(1 .. c) = IF 1 > c THEN 0 ELSE c - 1 + 1
    BY <2>6, FS_Interval
  <2>8. Cardinality(E) = Cardinality(1 .. c)
    BY <2>1, <2>6, <2>7
  <2>9. f \in Surjection(E, 1 .. c)
    BY <2>5, <2>7, <2>8, FS_Injection
  <2>10. \E k \in E : f[k] = n
    BY <2>1, <2>9 DEF Surjection
  <2> QED
    BY <2>2, <2>10
<1> QED
  BY <1>1, <1>3, <1>4, <1>5

\* What flattening sequences gives is what any function with the same steps gives.
LEMMA FlattenIs ==
  ASSUME NEW parts, Len(parts) \in Nat \ {0},
         NEW h, \A n \in 1 .. Len(parts) : h[n] = IF n = 1 THEN parts[n] ELSE h[n - 1] \o parts[n],
         h = [n \in 1 .. Len(parts) |-> h[n]]
  PROVE  W!FlattenSeq(parts) = h[Len(parts)]
<1> DEFINE Flattens(f) == f = [n \in 1 .. Len(parts) |-> IF n = 1 THEN parts[n] ELSE f[n - 1] \o parts[n]]
<1>1. Flattens(h)
  <2>1. [n \in 1 .. Len(parts) |-> h[n]]
          = [n \in 1 .. Len(parts) |-> IF n = 1 THEN parts[n] ELSE h[n - 1] \o parts[n]]
    OBVIOUS
  <2> QED
    BY <2>1
<1>2. PICK g : g = CHOOSE f : Flattens(f)
  OBVIOUS
<1>3. Flattens(g)
  BY <1>1, <1>2
<1>4. W!FlattenSeq(parts) = g[Len(parts)]
  BY <1>2 DEF W!FlattenSeq
<1>5. \A n \in 1 .. Len(parts) : g[n] = IF n = 1 THEN parts[n] ELSE g[n - 1] \o parts[n]
  BY <1>3
<1> HIDE DEF Flattens
<1> DEFINE Wrong == {n \in 1 .. Len(parts) : g[n] # h[n]}
<1>6. Wrong = {}
  <2>1. SUFFICES ASSUME Wrong # {} PROVE FALSE
    OBVIOUS
  <2>2. Wrong \in SUBSET Nat
    OBVIOUS
  <2>3. PICK n \in Wrong : \A m \in Wrong : n <= m
    <3> HIDE DEF Wrong
    <3> QED
      BY <2>1, <2>2, FirstNatural
  <2>4. CASE n = 1
    BY <1>5, <2>4
  <2>5. CASE n # 1
    <3>1. n - 1 \in 1 .. Len(parts) /\ n - 1 \notin Wrong
      <4>1. n - 1 \in 1 .. Len(parts) /\ ~(n <= n - 1)
        BY <2>5
      <4> HIDE DEF Wrong
      <4> QED
        BY <2>3, <4>1
    <3>2. g[n - 1] = h[n - 1]
      BY <3>1
    <3> QED
      BY <1>5, <2>5, <3>2
  <2> QED
    BY <2>4, <2>5
<1> QED
  BY <1>4, <1>6

\* A sequence cut at some places and put together again.
LEMMA PutTogether ==
  ASSUME NEW Y, NEW s \in Seq(Y), NEW N \in Nat \ {0},
         NEW cut \in [1 .. N + 1 -> 1 .. Len(s) + 1],
         \A n \in 1 .. N : cut[n] <= cut[n + 1], cut[N + 1] = Len(s) + 1,
         NEW parts, parts = [n \in 1 .. N |-> SubSeq(s, cut[n], cut[n + 1] - 1)]
  PROVE  W!FlattenSeq(parts) = SubSeq(s, cut[1], Len(s))
<1>1. Len(parts) = N /\ Len(s) \in Nat
  OBVIOUS
<1> DEFINE Before == {n \in 1 .. N : cut[1] > cut[n + 1]}
<1>2. Before = {}
  <2>1. SUFFICES ASSUME Before # {} PROVE FALSE
    OBVIOUS
  <2>2. Before \in SUBSET Nat
    OBVIOUS
  <2>3. PICK n \in Before : \A m \in Before : n <= m
    <3> HIDE DEF Before
    <3> QED
      BY <2>1, <2>2, FirstNatural
  <2>4. n \in 1 .. N /\ cut[1] > cut[n + 1] /\ cut[1] \in Nat /\ cut[n] \in Nat /\ cut[n + 1] \in Nat
    OBVIOUS
  <2>5. CASE n = 1
    BY <2>4, <2>5
  <2>6. CASE n # 1
    <3>1. n - 1 \in 1 .. N /\ ~(n <= n - 1) /\ (n - 1) + 1 = n
      BY <2>4, <2>6
    <3>2. n - 1 \notin Before
      <4> HIDE DEF Before
      <4> QED
        BY <2>3, <3>1
    <3>3. ~(cut[1] > cut[n])
      BY <3>1, <3>2
    <3>4. cut[n] <= cut[n + 1]
      BY <2>4
    <3> QED
      BY <2>4, <3>3, <3>4
  <2> QED
    BY <2>5, <2>6
<1>3. \A n \in 1 .. N : cut[1] <= cut[n + 1] /\ cut[1] \in Nat /\ cut[n] \in Nat /\ cut[n + 1] \in Nat
  <2> SUFFICES ASSUME NEW n \in 1 .. N
               PROVE  cut[1] <= cut[n + 1] /\ cut[1] \in Nat /\ cut[n] \in Nat /\ cut[n + 1] \in Nat
    OBVIOUS
  <2>1. cut[1] \in Nat /\ cut[n] \in Nat /\ cut[n + 1] \in Nat
    OBVIOUS
  <2>2. ~(cut[1] > cut[n + 1])
    BY <1>2
  <2> QED
    BY <2>1, <2>2
<1>4. PICK h : h = [n \in 1 .. N |-> SubSeq(s, cut[1], cut[n + 1] - 1)]
  OBVIOUS
<1>5. ASSUME NEW n \in 1 .. N
      PROVE  h[n] = IF n = 1 THEN parts[n] ELSE h[n - 1] \o parts[n]
  <2>1. CASE n = 1
    BY <1>4, <2>1
  <2>2. CASE n # 1
    <3>1. n - 1 \in 1 .. N /\ (n - 1) + 1 = n
      BY <2>2
    <3>2. PICK a, b, c : a = cut[1] /\ b = cut[n] - 1 /\ c = cut[n + 1] - 1
      OBVIOUS
    <3>3. /\ a \in 1 .. Len(s) + 1 /\ cut[n] \in 1 .. Len(s) + 1 /\ cut[n + 1] \in 1 .. Len(s) + 1
          /\ a <= cut[n] /\ cut[n] <= cut[n + 1]
      <4>1. a <= cut[n]
        BY <1>3, <3>1, <3>2
      <4> QED
        BY <3>2, <4>1
    <3>4. a \in 1 .. Len(s) + 1 /\ b \in a - 1 .. Len(s) /\ c \in b .. Len(s) /\ b + 1 = cut[n]
      <4>1. PICK x, y, z : x = cut[n] /\ y = cut[n + 1] /\ z = Len(s)
        OBVIOUS
      <4>2. /\ a \in 1 .. z + 1 /\ x \in 1 .. z + 1 /\ y \in 1 .. z + 1 /\ a <= x /\ x <= y /\ z \in Nat
            /\ b = x - 1 /\ c = y - 1
        BY <1>1, <3>2, <3>3, <4>1
      <4>3. b \in a - 1 .. z /\ c \in b .. z /\ b + 1 = x
        BY ONLY <4>2
      <4> QED
        BY <3>3, <4>1, <4>3
    <3>5. SubSeq(s, a, b) \o SubSeq(s, b + 1, c) = SubSeq(s, a, c)
      BY <3>4, ConcatAdjacentSubSeq
    <3>6. h[n - 1] = SubSeq(s, a, b) /\ parts[n] = SubSeq(s, b + 1, c) /\ h[n] = SubSeq(s, a, c)
      BY <1>4, <3>1, <3>2, <3>4
    <3> QED
      BY <2>2, <3>5, <3>6
  <2> QED
    BY <2>1, <2>2
<1>6. h = [n \in 1 .. Len(parts) |-> h[n]]
  BY <1>1, <1>4
<1>7. W!FlattenSeq(parts) = h[N]
  <2>1. \A n \in 1 .. Len(parts) : h[n] = IF n = 1 THEN parts[n] ELSE h[n - 1] \o parts[n]
    BY <1>1, <1>5
  <2>2. Len(parts) \in Nat \ {0}
    BY <1>1
  <2>3. W!FlattenSeq(parts) = h[Len(parts)]
    BY <1>6, <2>1, <2>2, FlattenIs
  <2> QED
    BY <1>1, <2>3
<1>8. h[N] = SubSeq(s, cut[1], Len(s))
  <2>1. N \in 1 .. N /\ cut[N + 1] - 1 = Len(s)
    BY <1>1
  <2> QED
    BY <1>4, <2>1
<1> QED
  BY <1>7, <1>8

-----------------------------------------------------------------------------
(* Units and words.                                                        *)

LEMMA WordsCounted == \A E : W!Cardinality(E) = Cardinality(E)
BY DEF W!Cardinality, Cardinality

\* What a transmission list and a word list make of a word, they still make of it.
LEMMA WordKept ==
  ASSUME UNCHANGED <<txs, input>>, NEW k
  PROVE  /\ UnitAt(k)' = UnitAt(k)
         /\ W!Brief(k)' = W!Brief(k)
         /\ W!Brushes(k, UnitAt(k))' = W!Brushes(k, UnitAt(k))
         /\ Sources' = Sources
<1>1. UnitAt(k)' = UnitAt(k)
  BY DEF UnitAt, W!FindTransmission, W!FindContainingTx, W!Nearest, W!TxEnd, W!FirstOf
<1>2. W!Brief(k)' = W!Brief(k)
  BY DEF W!Brief
<1>3. Sources' = Sources
  BY DEF Sources
<1>4. W!Brushes(k, UnitAt(k))' = W!Brushes(k, UnitAt(k))
  <2>1. PICK u : u = UnitAt(k)
    OBVIOUS
  <2>2. W!Overlap(k, u, Len(txs))' = W!Overlap(k, u, Len(txs))
    BY DEF W!Overlap, W!OverlapTx, W!SameUtterance, W!Index, W!TxEnd, W!FirstOf, W!Max, W!MapThenSumSet, W!MapThenFoldSet
  <2> QED
    BY <1>1, <2>1, <2>2 DEF W!Brushes
<1> QED
  BY <1>1, <1>2, <1>3, <1>4

LEMMA FirstIs ==
  ASSUME NEW E \in SUBSET Nat, E # {}
  PROVE  W!FirstOf(E) \in E /\ \A m \in E : W!FirstOf(E) <= m
BY FirstNatural DEF W!FirstOf

LEMMA ElementIs ==
  ASSUME NEW Y, NEW s \in Seq(Y)
  PROVE  /\ Len(s) \in Nat /\ DOMAIN s = 1 .. Len(s) /\ (s = <<>> <=> Len(s) = 0)
         /\ \A n \in 1 .. Len(s) : s[n] \in Y
OBVIOUS

\* What comes in.
LEMMA WordFacts ==
  ASSUME WordsInv
  PROVE  /\ Len(input) \in Nat /\ W!Index = 1 .. Len(input)
         /\ input = <<>> <=> Len(input) = 0
         /\ \A k \in W!Index : /\ input[k].start \in Int /\ input[k].end \in Int
                               /\ input[k].utterance \in Nat
         /\ txs \in Seq([src : Int, pos : Int, duration : Nat]) /\ Len(txs) \in Nat
<1>1. CASE pcAttribution = "idle"
  BY <1>1 DEF WordsInv, W!Index
<1>2. CASE pcAttribution # "idle"
  <2>1. PICK Y : input \in Seq([token : Y, start : Int, end : Int, utterance : Nat])
    BY <1>2, WordsAssumption DEF WordsInv
  <2>2. Len(input) \in Nat /\ DOMAIN input = 1 .. Len(input) /\ (input = <<>> <=> Len(input) = 0)
    BY <2>1, ElementIs
  <2>3. \A k \in 1 .. Len(input) : input[k] \in [token : Y, start : Int, end : Int, utterance : Nat]
    BY <2>1, ElementIs
  <2>4. \A k \in 1 .. Len(input) : /\ input[k].start \in Int /\ input[k].end \in Int
                                   /\ input[k].utterance \in Nat
    BY <2>3
  <2> QED
    BY <2>2, <2>4 DEF WordsInv, W!Index
<1> QED
  BY <1>1, <1>2

\* The unit of a time is a transmission's, or nobody.
LEMMA SourceFound ==
  ASSUME txs \in Seq([src : Int, pos : Int, duration : Nat]), NEW t \in Int
  PROVE  W!FindTransmission(t) \in Sources
<1>1. CASE txs = <<>>
  BY <1>1 DEF W!FindTransmission, Sources
<1>2. CASE txs # <<>>
  <2>1. DOMAIN txs = 1 .. Len(txs) /\ Len(txs) \in Nat /\ 1 \in DOMAIN txs
    BY <1>2
  <2>2. \A n \in DOMAIN txs : W!Distance(t, txs[n].pos) \in Nat
    <3>1. \A n \in 1 .. Len(txs) : txs[n] \in [src : Int, pos : Int, duration : Nat]
      BY ElementIs
    <3>2. \A n \in DOMAIN txs : txs[n].pos \in Int
      BY <2>1, <3>1
    <3>3. \A p \in Int : W!Distance(t, p) \in Nat
      BY DEF W!Distance
    <3> QED
      BY <3>2, <3>3
  <2>3. W!Nearest(t) # {}
    <3>1. PICK E : E = {W!Distance(t, txs[n].pos) : n \in DOMAIN txs}
      OBVIOUS
    <3>2. E \in SUBSET Nat /\ E # {}
      BY <2>1, <2>2, <3>1
    <3>3. PICK d \in E : \A m \in E : d <= m
      BY <3>2, FirstNatural
    <3>4. PICK n \in DOMAIN txs : d = W!Distance(t, txs[n].pos)
      BY <3>1
    <3>5. \A m \in DOMAIN txs : W!Distance(t, txs[n].pos) <= W!Distance(t, txs[m].pos)
      BY <3>1, <3>3, <3>4
    <3> QED
      BY <3>5 DEF W!Nearest
  <2>4. PICK E : E = IF W!FindContainingTx(t) # {} THEN W!FindContainingTx(t) ELSE W!Nearest(t)
    OBVIOUS
  <2>5. E \in SUBSET DOMAIN txs /\ E # {}
    BY <2>3, <2>4 DEF W!FindContainingTx, W!Nearest
  <2>6. E \in SUBSET Nat
    BY <2>1, <2>5
  <2>7. W!FirstOf(E) \in DOMAIN txs
    BY <2>5, <2>6, FirstIs
  <2>8. W!FindTransmission(t) = txs[W!FirstOf(E)].src
    BY <1>2, <2>4 DEF W!FindTransmission
  <2> QED
    BY <2>7, <2>8 DEF Sources
<1> QED
  BY <1>1, <1>2

\* A word that its speaker's segment takes along goes to a transmission's unit.
LEMMA SourceSnapped ==
  ASSUME WordsInv, NEW k \in W!Index
  PROVE  W!Best(k) \in Sources
<1>1. src[k] \in Sources
  BY DEF WordsInv
<1>2. DOMAIN txs \in SUBSET Nat
  BY WordFacts
<1>3. PICK reached : reached = [m \in DOMAIN txs |-> W!Overlap(k, txs[m].src, m)]
  OBVIOUS
<1>4. PICK top : top = {m \in DOMAIN txs : reached[m] > 0 /\ \A l \in DOMAIN txs : reached[m] >= reached[l]}
  OBVIOUS
<1>5. W!Best(k) = IF top = {} THEN src[k] ELSE txs[W!FirstOf(top)].src
  BY <1>3, <1>4 DEF W!Best
<1>6. CASE top # {}
  <2>1. top \in SUBSET DOMAIN txs
    BY <1>4
  <2>2. top \in SUBSET Nat
    BY <1>2, <2>1
  <2>3. W!FirstOf(top) \in DOMAIN txs
    BY <1>6, <2>1, <2>2, FirstIs
  <2> QED
    BY <1>5, <1>6, <2>3 DEF Sources
<1> QED
  BY <1>1, <1>5, <1>6

-----------------------------------------------------------------------------
(* The actions.                                                            *)

LEMMA WordsReceive ==
  ASSUME WordsInv, W!Receive
  PROVE  WordsInv'
<1> USE DEF W!Receive
<1>1. PICK list \in SrcLists : txs' = W!ParseSrcList(list)
  OBVIOUS
<1>2. list \in Seq([src : Int, pos : Int]) /\ Duration \in Int
  BY WordsAssumption
<1>3. txs' \in Seq([src : Int, pos : Int, duration : Nat])
  <2>0. /\ DOMAIN list = 1 .. Len(list) /\ Len(list) \in Nat
        /\ \A n \in 1 .. Len(list) : list[n].src \in Int /\ list[n].pos \in Int
    <3>1. \A n \in 1 .. Len(list) : list[n] \in [src : Int, pos : Int]
      BY <1>2, ElementIs
    <3>2. \A n \in 1 .. Len(list) : list[n].src \in Int /\ list[n].pos \in Int
      BY <3>1
    <3> QED
      BY <1>2, <3>2, ElementIs
  <2>1. ASSUME NEW n \in DOMAIN list
        PROVE  \E x : /\ x = (IF n < Len(list) THEN list[n + 1].pos ELSE Duration) - list[n].pos
                      /\ x \in Int
    <3>1. CASE n < Len(list)
      <4>1. n + 1 \in 1 .. Len(list) /\ n \in 1 .. Len(list)
        BY <2>0, <2>1, <3>1
      <4>2. list[n + 1].pos \in Int /\ list[n].pos \in Int
        BY <2>0, <4>1
      <4> QED
        BY <3>1, <4>2
    <3>2. CASE ~(n < Len(list))
      BY <1>2, <2>0, <2>1, <3>2
    <3> QED
      BY <3>1, <3>2
  <2> DEFINE upTo(n) == (IF n < Len(list) THEN list[n + 1].pos ELSE Duration) - list[n].pos
             tx(n) == [src |-> list[n].src, pos |-> list[n].pos,
                       duration |-> IF upTo(n) < 0 THEN 0 ELSE upTo(n)]
  <2>2. txs' = [n \in DOMAIN list |-> tx(n)]
    BY <1>1 DEF W!ParseSrcList
  <2>3. ASSUME NEW n \in DOMAIN list PROVE tx(n) \in [src : Int, pos : Int, duration : Nat]
    <3>1. upTo(n) \in Int
      BY <2>1, <2>3
    <3>3. list[n].src \in Int /\ list[n].pos \in Int
      BY <2>0, <2>3
    <3> HIDE DEF upTo
    <3>4. (IF upTo(n) < 0 THEN 0 ELSE upTo(n)) \in Nat
      BY <3>1
    <3> QED
      BY <3>3, <3>4
  <2> HIDE DEF tx
  <2>4. DOMAIN list = 1 .. Len(list) /\ Len(list) \in Nat
    BY <1>2
  <2> QED
    BY <2>2, <2>3, <2>4
<1>4. src' \in [W!Index' -> Sources']
  BY DEF W!Index, Sources
<1>5. \A k \in W!Index' : WordInv(k)'
  BY DEF WordInv
<1>6. W!SegmentsAreTheText'
  BY DEF W!SegmentsAreTheText
<1> QED
  BY <1>3, <1>4, <1>5, <1>6 DEF WordsInv

LEMMA WordsAttribute ==
  ASSUME WordsInv, W!AttributeWords
  PROVE  WordsInv'
<1> USE DEF W!AttributeWords
<1>1. \A k \in W!Index : UnitAt(k) \in Sources
  BY WordFacts, SourceFound DEF UnitAt
<1>2. W!Index' = W!Index
  BY DEF W!Index
<1>3. Sources' = Sources /\ \A k : UnitAt(k)' = UnitAt(k)
  BY WordKept
<1>4. src' = [k \in W!Index |-> UnitAt(k)]
  BY DEF UnitAt
<1>5. src' \in [W!Index' -> Sources']
  BY <1>1, <1>2, <1>3, <1>4
<1>6. \A k \in W!Index' : WordInv(k)'
  BY <1>2, <1>3, <1>4 DEF WordInv
<1>7. W!SegmentsAreTheText'
  BY DEF W!SegmentsAreTheText
<1>8. pcAttribution' = "boundary" => i' \in 1 .. Len(input') - 1
  BY WordFacts DEF WordsInv
<1> QED
  BY <1>5, <1>6, <1>7, <1>8 DEF WordsInv

LEMMA WordsFixed ==
  ASSUME WordsInv, W!FixBoundaryWords
  PROVE  WordsInv'
<1> USE DEF W!FixBoundaryWords
<1>0. Len(input) \in Nat /\ W!Index = 1 .. Len(input) /\ i \in 1 .. Len(input) - 1
  BY WordFacts DEF WordsInv
<1>1. i + 1 \in W!Index
  BY <1>0
<1>2. W!Index' = W!Index
  BY DEF W!Index
<1>3. Sources' = Sources /\ \A k : UnitAt(k)' = UnitAt(k) /\ W!Brief(k)' = W!Brief(k)
  BY WordKept
<1>4. \A k \in W!Reassigned(i) : W!Brief(k)
  <2> SUFFICES ASSUME NEW k \in W!Reassigned(i) PROVE W!Brief(k)
    OBVIOUS
  <2>1. k \in 1 .. i /\ \A j \in k .. i : W!IsArtifact(j)
    BY DEF W!Reassigned
  <2>2. k \in k .. i
    BY <1>0, <2>1
  <2> QED
    BY <2>1, <2>2 DEF W!IsArtifact
<1>5. \A k \in W!Index : /\ src[k] \in Sources
                         /\ src[k] = UnitAt(k) \/ W!Brief(k)
  BY DEF WordsInv, WordInv
<1>6. src \in [W!Index -> Sources]
  BY DEF WordsInv
<1>7. /\ src' \in [W!Index -> Sources]
      /\ \A k \in W!Index : src'[k] = UnitAt(k) \/ W!Brief(k)
  <2>1. CASE src' = src
    BY <1>5, <1>6, <2>1
  <2>2. CASE src' = [k \in W!Index |-> IF k \in W!Reassigned(i) THEN src[i + 1] ELSE src[k]]
    BY <1>1, <1>4, <1>5, <2>2
  <2> QED
    BY <2>1, <2>2
<1>8. \A k \in W!Index' : WordInv(k)'
  BY <1>2, <1>3, <1>7 DEF WordInv
<1>9. W!SegmentsAreTheText'
  BY DEF W!SegmentsAreTheText
<1>10. i' \in Nat /\ pcAttribution' \in {"boundary", "snap"} /\ (pcAttribution' = "boundary" => i' \in 1 .. Len(input') - 1)
  BY <1>0
<1> QED
  BY <1>2, <1>3, <1>7, <1>8, <1>9, <1>10 DEF WordsInv

LEMMA WordsSnapped ==
  ASSUME WordsInv, W!SnapUtterances
  PROVE  WordsInv'
<1> USE DEF W!SnapUtterances
<1>1. W!Index' = W!Index
  BY DEF W!Index
<1>2. Sources' = Sources /\ \A k : /\ UnitAt(k)' = UnitAt(k) /\ W!Brief(k)' = W!Brief(k)
                                   /\ W!Brushes(k, UnitAt(k))' = W!Brushes(k, UnitAt(k))
  BY WordKept
<1>3. \A k \in W!Index : src[k] = UnitAt(k) \/ W!Brief(k)
  BY DEF WordsInv, WordInv
<1>4. src' \in [W!Index -> Sources]
  BY SourceSnapped DEF WordsInv
<1>5. \A k \in W!Index : src'[k] = UnitAt(k) \/ W!Brief(k) \/ W!Brushes(k, UnitAt(k))
  BY <1>3
<1>6. \A k \in W!Index' : WordInv(k)'
  BY <1>1, <1>2, <1>5 DEF WordInv
<1>7. W!SegmentsAreTheText'
  BY DEF W!SegmentsAreTheText
<1> QED
  BY <1>1, <1>2, <1>4, <1>6, <1>7 DEF WordsInv

-----------------------------------------------------------------------------
(* Where the words are in the text.                                        *)

LEMMA TextFacts ==
  ASSUME WordsInv, pcAttribution # "idle"
  PROVE  \E Y : text \in Seq(Y)
BY WordsAssumption DEF WordsInv

\* A word is no earlier than where it is looked for, and the next one is behind it.
LEMMA PlaceFacts ==
  ASSUME Len(text) \in Nat, NEW k, NEW from \in 1 .. Len(text) + 1
  PROVE  /\ W!Place(k, from) \in from .. Len(text) + 1
         /\ W!Behind(k, from) \in W!Place(k, from) .. Len(text) + 1
<1>1. CASE W!Found(k, from) = {}
  BY <1>1 DEF W!Place, W!Behind
<1>2. CASE W!Found(k, from) # {}
  <2>1. W!Found(k, from) \in SUBSET (from .. Len(text))
    BY DEF W!Found
  <2>2. W!Found(k, from) \in SUBSET Nat
    BY <2>1
  <2>3. W!FirstOf(W!Found(k, from)) \in from .. Len(text)
    BY <1>2, <2>1, <2>2, FirstIs
  <2> QED
    BY <1>2, <2>3 DEF W!Place, W!Behind
<1> QED
  BY <1>1, <1>2

\* From where the words are looked for: what the recursive definition unfolds to.
LooksFor(f, m) == f = [k \in 0 .. m |-> IF k = 0 THEN 1 ELSE W!Behind(k, f[k - 1])]

LEMMA LookingFor ==
  ASSUME NEW m \in Nat
  PROVE  \E f : LooksFor(f, m)
<1> DEFINE Missing == {k \in Nat : ~\E f : LooksFor(f, k)}
<1>1. SUFFICES ASSUME Missing # {} PROVE FALSE
  OBVIOUS
<1>2. PICK k \in Missing : \A n \in Missing : k <= n
  BY <1>1, FirstNatural
<1>3. k # 0
  <2>1. PICK f : f = [n \in 0 .. 0 |-> 1]
    OBVIOUS
  <2>2. LooksFor(f, 0)
    BY <2>1 DEF LooksFor
  <2> QED
    BY <2>2
<1>4. k - 1 \in Nat /\ k - 1 \notin Missing
  BY <1>2, <1>3
<1>5. PICK f : LooksFor(f, k - 1)
  BY <1>4
<1>6. PICK g : g = [n \in 0 .. k |-> IF n = k THEN W!Behind(k, f[k - 1]) ELSE f[n]]
  OBVIOUS
<1>7. ASSUME NEW n \in 0 .. k
      PROVE  g[n] = IF n = 0 THEN 1 ELSE W!Behind(n, g[n - 1])
  <2>1. CASE n = 0
    <3>1. f[0] = 1
      BY <1>4, <1>5 DEF LooksFor
    <3> QED
      BY <1>3, <1>6, <2>1, <3>1
  <2>2. CASE n # 0 /\ n # k
    <3>1. n \in 0 .. k - 1 /\ n - 1 \in 0 .. k - 1 /\ n - 1 \in 0 .. k /\ n - 1 # k
      BY <1>4, <2>2
    <3>2. f[n] = W!Behind(n, f[n - 1])
      BY <1>5, <2>2, <3>1 DEF LooksFor
    <3>3. g[n] = f[n] /\ g[n - 1] = f[n - 1]
      BY <1>6, <2>2, <3>1
    <3> QED
      BY <2>2, <3>2, <3>3
  <2>3. CASE n = k
    <3>1. k - 1 \in 0 .. k /\ k - 1 # k
      BY <1>4
    <3>2. g[k] = W!Behind(k, f[k - 1]) /\ g[k - 1] = f[k - 1]
      BY <1>6, <2>3, <3>1
    <3> QED
      BY <1>3, <2>3, <3>2
  <2> QED
    BY <2>1, <2>2, <2>3
<1>8. LooksFor(g, k)
  <2>1. g = [n \in 0 .. k |-> g[n]]
    BY <1>6
  <2> QED
    BY <1>7, <2>1 DEF LooksFor
<1> QED
  BY <1>8

\* What grows from each number to the next grows.
LEMMA Grows ==
  ASSUME NEW top \in Nat, NEW f, \A k \in 1 .. top : f[k] \in Nat,
         \A k \in 1 .. top : k < top => f[k] <= f[k + 1],
         NEW a \in 1 .. top, NEW b \in 1 .. top, a <= b
  PROVE  f[a] <= f[b]
<1> DEFINE Smaller == {k \in a .. top : ~(f[a] <= f[k])}
<1>1. SUFFICES ASSUME Smaller # {} PROVE FALSE
  <2>1. b \in a .. top
    OBVIOUS
  <2> QED
    BY <1>1, <2>1
<1>2. Smaller \in SUBSET Nat
  OBVIOUS
<1>3. PICK k \in Smaller : \A n \in Smaller : k <= n
  <2> HIDE DEF Smaller
  <2> QED
    BY <1>1, <1>2, FirstNatural
<1>4. k # a /\ k \in a .. top
  OBVIOUS
<1>5. k - 1 \in a .. top /\ k - 1 \in 1 .. top /\ k - 1 < top /\ (k - 1) + 1 = k /\ ~(k <= k - 1)
  BY <1>4
<1>6. k - 1 \notin Smaller
  <2> HIDE DEF Smaller
  <2> QED
    BY <1>3, <1>5
<1>7. f[a] <= f[k - 1]
  BY <1>5, <1>6
<1>8. f[k - 1] <= f[k]
  BY <1>5
<1>9. f[a] \in Nat /\ f[k - 1] \in Nat /\ f[k] \in Nat
  BY <1>4, <1>5
<1>10. ~(f[a] <= f[k])
  OBVIOUS
<1> QED
  BY <1>7, <1>8, <1>9, <1>10

LEMMA PositionsFound ==
  ASSUME WordsInv, pcAttribution # "idle"
  PROVE  /\ W!MapWordPositions \in [W!Index -> 1 .. Len(text) + 1]
         /\ \A k, l \in W!Index : k <= l => W!MapWordPositions[k] <= W!MapWordPositions[l]
<1>1. PICK Y : text \in Seq(Y)
  BY TextFacts
<1>2. Len(text) \in Nat
  BY <1>1
<1>3. PICK len : len = Len(input) /\ len \in Nat /\ W!Index = 1 .. len
  BY WordFacts
<1>4. PICK f : f = CHOOSE g : LooksFor(g, len)
  OBVIOUS
<1>5. LooksFor(f, len)
  BY <1>3, <1>4, LookingFor
<1>6. W!MapWordPositions = [k \in W!Index |-> W!Place(k, f[k - 1])]
  BY <1>3, <1>4 DEF W!MapWordPositions, LooksFor
<1>7. f[0] = 1 /\ \A k \in 1 .. len : f[k] = W!Behind(k, f[k - 1])
  <2>1. 0 \in 0 .. len
    BY <1>3
  <2>2. \A k \in 1 .. len : k \in 0 .. len /\ k # 0
    BY <1>3
  <2> QED
    BY <1>5, <2>1, <2>2 DEF LooksFor
<1>8. \A k \in 0 .. len : f[k] \in 1 .. Len(text) + 1
  <2> DEFINE Out == {k \in 0 .. len : f[k] \notin 1 .. Len(text) + 1}
  <2>1. SUFFICES ASSUME Out # {} PROVE FALSE
    OBVIOUS
  <2>2. Out \in SUBSET Nat
    BY <1>3
  <2>3. PICK k \in Out : \A n \in Out : k <= n
    <3> HIDE DEF Out
    <3> QED
      BY <2>1, <2>2, FirstNatural
  <2>4. k # 0 /\ k \in 0 .. len
    BY <1>2, <1>7
  <2>5. k \in 1 .. len /\ k - 1 \in 0 .. len /\ ~(k <= k - 1)
    BY <1>3, <2>4
  <2>6. k - 1 \notin Out
    <3> HIDE DEF Out
    <3> QED
      BY <2>3, <2>5
  <2>7. f[k - 1] \in 1 .. Len(text) + 1
    BY <2>5, <2>6
  <2>8. f[k] \in W!Place(k, f[k - 1]) .. Len(text) + 1 /\ W!Place(k, f[k - 1]) \in f[k - 1] .. Len(text) + 1
    BY <1>2, <1>7, <2>5, <2>7, PlaceFacts
  <2>9. PICK x, y, z : x = f[k - 1] /\ y = W!Place(k, f[k - 1]) /\ z = f[k]
    OBVIOUS
  <2>10. z \in 1 .. Len(text) + 1
    BY <1>2, <2>7, <2>8, <2>9
  <2> QED
    BY <2>9, <2>10
<1>9. ASSUME NEW k \in 1 .. len
      PROVE  /\ W!MapWordPositions[k] \in f[k - 1] .. Len(text) + 1
             /\ f[k] \in W!MapWordPositions[k] .. Len(text) + 1
             /\ f[k - 1] \in 1 .. Len(text) + 1
  <2>1. f[k - 1] \in 1 .. Len(text) + 1
    <3>1. k - 1 \in 0 .. len
      BY <1>3
    <3> QED
      BY <1>8, <3>1
  <2>2. W!MapWordPositions[k] = W!Place(k, f[k - 1])
    BY <1>3, <1>6
  <2>3. f[k] = W!Behind(k, f[k - 1])
    BY <1>7
  <2> QED
    BY <1>2, <2>1, <2>2, <2>3, PlaceFacts
<1>10. PICK at : at = W!MapWordPositions
  OBVIOUS
<1>11. \A k \in 1 .. len : at[k] \in 1 .. Len(text) + 1
  <2> SUFFICES ASSUME NEW k \in 1 .. len PROVE at[k] \in 1 .. Len(text) + 1
    OBVIOUS
  <2>1. PICK x, y : x = f[k - 1] /\ y = at[k]
    OBVIOUS
  <2>2. y \in x .. Len(text) + 1 /\ x \in 1 .. Len(text) + 1
    BY <1>9, <1>10, <2>1
  <2> QED
    BY <1>2, <2>1, <2>2
<1>12. \A k \in 1 .. len : k < len => at[k] <= at[k + 1]
  <2> SUFFICES ASSUME NEW k \in 1 .. len, k < len PROVE at[k] <= at[k + 1]
    OBVIOUS
  <2>1. k + 1 \in 1 .. len /\ (k + 1) - 1 = k
    BY <1>3
  <2>2. PICK x, y, z : x = at[k] /\ y = f[k] /\ z = at[k + 1]
    OBVIOUS
  <2>3. y \in x .. Len(text) + 1 /\ x \in 1 .. Len(text) + 1
    BY <1>9, <1>10, <1>11, <2>2
  <2>4. z \in y .. Len(text) + 1
    BY <1>9, <1>10, <2>1, <2>2
  <2>5. x <= z
    BY <1>2, <2>3, <2>4
  <2> QED
    BY <2>2, <2>5
<1>13. \A k \in 1 .. len : at[k] \in Nat
  BY <1>2, <1>11
<1>14. \A k, l \in 1 .. len : k <= l => at[k] <= at[l]
  BY <1>3, <1>12, <1>13, Grows
<1>15. at \in [W!Index -> 1 .. Len(text) + 1]
  BY <1>3, <1>6, <1>10, <1>11
<1> QED
  BY <1>3, <1>10, <1>14, <1>15

-----------------------------------------------------------------------------
(* Where the segments start.                                               *)

LEMMA StartFacts ==
  ASSUME WordsInv, input # <<>>, NEW many, many = W!Cardinality(W!Starts)
  PROVE  /\ many \in Nat \ {0}
         /\ \A n \in 1 .. many : W!StartOf(n) \in 1 .. Len(input) /\ W!StartOf(n) \in W!Starts
         /\ W!StartOf(1) = 1
         /\ \A n \in 1 .. many : n < many =>
              /\ W!StartOf(n) < W!StartOf(n + 1)
              /\ src[W!StartOf(n)] # src[W!StartOf(n + 1)]
<1>1. PICK len : len = Len(input) /\ len \in Nat \ {0} /\ W!Index = 1 .. len
  BY WordFacts
<1>2. PICK E : E = W!Starts
  OBVIOUS
<1>3. E \in SUBSET (1 .. len) /\ 1 \in E
  BY <1>1, <1>2 DEF W!Starts
<1>4. many = Cardinality(E)
  BY <1>2, WordsCounted
<1> DEFINE Rank(k) == Cardinality({j \in E : j <= k})
<1>5. /\ many \in Nat
      /\ \A k, l \in E : k < l => Rank(k) < Rank(l)
      /\ \A k \in E : Rank(k) \in 1 .. many
      /\ \A n \in 1 .. many : \E k \in E : Rank(k) = n
  <2>1. len \in Nat /\ E \in SUBSET (1 .. len)
    BY <1>1, <1>3
  <2>2. /\ Cardinality(E) \in Nat
        /\ \A k, l \in E : k < l => Cardinality({j \in E : j <= k}) < Cardinality({j \in E : j <= l})
        /\ \A k \in E : Cardinality({j \in E : j <= k}) \in 1 .. Cardinality(E)
        /\ \A n \in 1 .. Cardinality(E) : \E k \in E : Cardinality({j \in E : j <= k}) = n
    BY <2>1, Ranked
  <2>3. \A k : Rank(k) = Cardinality({j \in E : j <= k})
    OBVIOUS
  <2> HIDE DEF Rank
  <2> QED
    BY <1>4, <2>2, <2>3
<1>6. \A n : W!StartOf(n) = CHOOSE k \in E : Rank(k) = n
  BY <1>2, WordsCounted DEF W!StartOf
<1> HIDE DEF Rank
<1>7. \A n \in 1 .. many : W!StartOf(n) \in E /\ Rank(W!StartOf(n)) = n
  BY <1>5, <1>6
<1>8. \A k \in E : k \in Nat /\ k \in 1 .. len
  BY <1>3
<1>9. many # 0 /\ 1 \in 1 .. many
  BY <1>3, <1>5
<1>10. W!StartOf(1) = 1
  <2>1. PICK k : k = W!StartOf(1)
    OBVIOUS
  <2>2. k \in E /\ Rank(k) = 1 /\ k \in 1 .. len
    BY <1>7, <1>8, <1>9, <2>1
  <2>3. 1 < k => Rank(1) < 1 /\ Rank(1) \in 1 .. many
    BY <1>3, <1>5, <2>2
  <2>4. ~(1 < k)
    BY <1>5, <2>3
  <2> QED
    BY <1>1, <2>1, <2>2, <2>4
<1>11. ASSUME NEW n \in 1 .. many, n < many
       PROVE  W!StartOf(n) < W!StartOf(n + 1) /\ src[W!StartOf(n)] # src[W!StartOf(n + 1)]
  <2>1. PICK a, b : a = W!StartOf(n) /\ b = W!StartOf(n + 1)
    OBVIOUS
  <2>2. n + 1 \in 1 .. many /\ n \in Nat
    BY <1>5, <1>11
  <2>3. a \in E /\ Rank(a) = n /\ b \in E /\ Rank(b) = n + 1 /\ a \in 1 .. len /\ b \in 1 .. len
    BY <1>7, <1>8, <2>1, <2>2
  <2>4. a < b
    <3>1. a # b
      BY <2>2, <2>3
    <3>2. b < a => n + 1 < n
      BY <1>5, <2>3
    <3>3. ~(b < a)
      BY <2>2, <3>2
    <3> QED
      BY <1>1, <2>3, <3>1, <3>3
  <2>5. ASSUME NEW k \in E, a < k, k < b PROVE FALSE
    <3>1. n < Rank(k) /\ Rank(k) < n + 1 /\ Rank(k) \in 1 .. many
      BY <1>5, <2>3, <2>5
    <3> QED
      BY <1>5, <2>2, <3>1
  <2>6. \A k \in 1 .. len : k \notin E => k # 1 /\ src[k] = src[k - 1]
    BY <1>1, <1>2 DEF W!Starts
  <2> DEFINE Other == {k \in a .. b - 1 : src[k] # src[a]}
  <2>7. Other = {}
    <3>1. SUFFICES ASSUME Other # {} PROVE FALSE
      OBVIOUS
    <3>2. Other \in SUBSET Nat
      BY <2>3
    <3>3. PICK k \in Other : \A m \in Other : k <= m
      <4> HIDE DEF Other
      <4> QED
        BY <3>1, <3>2, FirstNatural
    <3>4. k \in a .. b - 1 /\ src[k] # src[a] /\ k # a
      OBVIOUS
    <3>5. /\ a < k /\ k < b /\ k \in 1 .. len
          /\ k - 1 \in a .. b - 1 /\ ~(k <= k - 1)
      BY <1>1, <2>3, <3>4
    <3>6. k - 1 \notin Other
      <4> HIDE DEF Other
      <4> QED
        BY <3>3, <3>5
    <3>7. src[k - 1] = src[a]
      BY <3>5, <3>6
    <3>8. src[k] = src[k - 1]
      BY <2>5, <2>6, <3>5
    <3> QED
      BY <3>4, <3>7, <3>8
  <2>8. b - 1 \in a .. b - 1 /\ b # 1
    BY <1>1, <2>3, <2>4
  <2>9. src[b - 1] = src[a]
    BY <2>7, <2>8
  <2>10. src[b] # src[b - 1]
    BY <1>2, <2>3, <2>8 DEF W!Starts
  <2> QED
    BY <2>1, <2>4, <2>9, <2>10
<1>12. \A n \in 1 .. many : W!StartOf(n) \in 1 .. Len(input) /\ W!StartOf(n) \in W!Starts
  BY <1>1, <1>2, <1>7, <1>8
<1> QED
  BY <1>5, <1>9, <1>10, <1>11, <1>12

-----------------------------------------------------------------------------
(* The segments.                                                           *)

LEMMA SegmentsKept ==
  ASSUME UNCHANGED <<txs, input, text, src>>
  PROVE  /\ W!MapWordPositions' = W!MapWordPositions
         /\ W!Tokens' = W!Tokens
         /\ W!Index' = W!Index
BY DEF W!MapWordPositions, W!Tokens, W!Index, W!Place, W!Behind, W!Found, W!FirstOf

\* Without words there is no segment; else the text is cut where the unit changes.
LEMMA SegmentsBuilt ==
  ASSUME WordsInv, W!BuildSegments, NEW many, many = W!Cardinality(W!Starts)
  PROVE  /\ DOMAIN segments' = 1 .. many
         /\ \A n \in 1 .. many :
              /\ segments'[n].src = src[W!StartOf(n)]
              /\ text = <<>> =>
                   segments'[n].text = SubSeq(W!Tokens, W!StartOf(n),
                                              (IF n < many THEN W!StartOf(n + 1) ELSE Len(input) + 1) - 1)
              /\ text # <<>> =>
                   segments'[n].text = SubSeq(text, W!MapWordPositions[W!StartOf(n)],
                                              (IF n < many THEN W!MapWordPositions[W!StartOf(n + 1)]
                                               ELSE Len(text) + 1) - 1)
<1> DEFINE at == W!MapWordPositions
           last(n) == IF n < many THEN W!StartOf(n + 1) - 1 ELSE Len(input)
           end(n) == IF n < many THEN at[W!StartOf(n + 1)] - 1 ELSE Len(text)
           Segment(n) == [src |-> src[W!StartOf(n)],
                          text |-> IF text = <<>> THEN SubSeq(W!Tokens, W!StartOf(n), last(n))
                                   ELSE SubSeq(text, at[W!StartOf(n)], end(n))]
<1>1. segments' = [n \in 1 .. many |-> Segment(n)]
  BY DEF W!BuildSegments
<1>2. \A n : /\ Segment(n).src = src[W!StartOf(n)]
             /\ text = <<>> => Segment(n).text = SubSeq(W!Tokens, W!StartOf(n), last(n))
             /\ text # <<>> => Segment(n).text = SubSeq(text, at[W!StartOf(n)], end(n))
  OBVIOUS
<1>3. Len(input) \in Nat /\ Len(text) \in Nat
  <2>1. pcAttribution # "idle"
    BY DEF W!BuildSegments
  <2> QED
    BY <2>1, WordFacts, TextFacts
<1>4. \A n : /\ last(n) = (IF n < many THEN W!StartOf(n + 1) ELSE Len(input) + 1) - 1
             /\ end(n) = (IF n < many THEN at[W!StartOf(n + 1)] ELSE Len(text) + 1) - 1
  BY <1>3
<1> HIDE DEF Segment, last, end
<1>5. DOMAIN segments' = 1 .. many /\ \A n \in 1 .. many : segments'[n] = Segment(n)
  BY <1>1
<1> QED
  BY <1>2, <1>4, <1>5

LEMMA WordsSegmented ==
  ASSUME WordsInv, W!BuildSegments
  PROVE  WordsInv'
<1>1. pcAttribution = "segments" /\ pcAttribution' = "done" /\ UNCHANGED <<txs, input, text, src, i>>
  BY DEF W!BuildSegments
<1>2. W!Index' = W!Index /\ W!MapWordPositions' = W!MapWordPositions /\ W!Tokens' = W!Tokens
  BY <1>1, SegmentsKept
<1>3. Sources' = Sources
      /\ \A k : /\ UnitAt(k)' = UnitAt(k) /\ W!Brief(k)' = W!Brief(k)
                /\ W!Brushes(k, UnitAt(k))' = W!Brushes(k, UnitAt(k))
  BY <1>1, WordKept
<1>4. \A k \in W!Index' : WordInv(k)'
  BY <1>1, <1>2, <1>3 DEF WordsInv, WordInv
<1>5. PICK many : many = W!Cardinality(W!Starts)
  OBVIOUS
<1>6. PICK segs : segs = segments'
  OBVIOUS
<1>7. PICK parts : parts = [n \in DOMAIN segs |-> segs[n].text]
  OBVIOUS
<1>8. PICK len : len = Len(input) /\ len \in Nat /\ W!Index = 1 .. len /\ (input = <<>> <=> len = 0)
  BY WordFacts
<1>9. PICK Y : text \in Seq(Y)
  BY <1>1, TextFacts
<1>10. DOMAIN segs = 1 .. many
  BY <1>5, <1>6, SegmentsBuilt
<1>11. CASE input = <<>>
  <2>1. W!Starts = {}
    BY <1>8, <1>11 DEF W!Starts
  <2>2. many = 0
    BY <1>5, <2>1, WordsCounted, FS_EmptySet
  <2>3. parts = <<>> /\ W!Tokens = <<>> /\ Len(segs) = 0
    BY <1>7, <1>8, <1>10, <1>11, <2>2 DEF W!Tokens
  <2>4. W!FlattenSeq(parts) = <<>>
    BY <2>3 DEF W!FlattenSeq
  <2>5. \A n \in 1 .. Len(segs) - 1 : segs[n].src # segs[n + 1].src
    BY <2>3
  <2>6. W!SegmentsAreTheText'
    BY <1>1, <1>2, <1>6, <1>7, <1>11, <2>3, <2>4, <2>5 DEF W!SegmentsAreTheText
  <2> QED
    BY <1>1, <1>2, <1>3, <1>4, <2>6 DEF WordsInv
<1>12. CASE input # <<>>
  <2>1. /\ many \in Nat \ {0}
        /\ \A n \in 1 .. many : W!StartOf(n) \in 1 .. len
        /\ W!StartOf(1) = 1
        /\ \A n \in 1 .. many : n < many => /\ W!StartOf(n) < W!StartOf(n + 1)
                                            /\ src[W!StartOf(n)] # src[W!StartOf(n + 1)]
    BY <1>5, <1>8, <1>12, StartFacts
  <2>2. \A n \in 1 .. many :
          /\ segs[n].src = src[W!StartOf(n)]
          /\ text = <<>> =>
               segs[n].text = SubSeq(W!Tokens, W!StartOf(n), (IF n < many THEN W!StartOf(n + 1) ELSE len + 1) - 1)
          /\ text # <<>> =>
               segs[n].text = SubSeq(text, W!MapWordPositions[W!StartOf(n)],
                                     (IF n < many THEN W!MapWordPositions[W!StartOf(n + 1)] ELSE Len(text) + 1) - 1)
    BY <1>5, <1>6, <1>8, SegmentsBuilt
  <2>3. Len(segs) = many
    BY <1>10, <2>1
  <2>4. \A n \in 1 .. Len(segs) - 1 : segs[n].src # segs[n + 1].src
    <3> SUFFICES ASSUME NEW n \in 1 .. many - 1 PROVE segs[n].src # segs[n + 1].src
      BY <2>3
    <3>1. n \in 1 .. many /\ n + 1 \in 1 .. many /\ n < many
      BY <2>1
    <3> QED
      BY <2>1, <2>2, <3>1
  <2>5. CASE text = <<>>
    <3>1. PICK words : words = W!Tokens
      OBVIOUS
    <3>2. PICK Z : Z = {input[k].token : k \in 1 .. len}
      OBVIOUS
    <3>3. words \in Seq(Z) /\ Len(words) = len
      BY <1>8, <3>1, <3>2 DEF W!Tokens
    <3>4. PICK cut : cut = [n \in 1 .. many + 1 |-> IF n < many + 1 THEN W!StartOf(n) ELSE len + 1]
      OBVIOUS
    <3>5. \A n \in 1 .. many : /\ cut[n] = W!StartOf(n)
                               /\ cut[n + 1] = IF n < many THEN W!StartOf(n + 1) ELSE len + 1
      BY <2>1, <3>4
    <3>6. cut[1] = 1 /\ cut[many + 1] = Len(words) + 1
      BY <2>1, <3>3, <3>4
    <3>7. cut \in [1 .. many + 1 -> 1 .. Len(words) + 1]
      <4>1. \A n \in 1 .. many + 1 : (IF n < many + 1 THEN W!StartOf(n) ELSE len + 1) \in 1 .. Len(words) + 1
        <5> SUFFICES ASSUME NEW n \in 1 .. many + 1
                     PROVE  (IF n < many + 1 THEN W!StartOf(n) ELSE len + 1) \in 1 .. Len(words) + 1
          OBVIOUS
        <5>1. CASE n < many + 1
          <6>1. n \in 1 .. many
            BY <2>1, <5>1
          <6>2. PICK x : x = W!StartOf(n) /\ x \in 1 .. len
            BY <2>1, <6>1
          <6> QED
            BY <1>8, <3>3, <5>1, <6>2
        <5>2. CASE ~(n < many + 1)
          BY <1>8, <3>3, <5>2
        <5> QED
          BY <5>1, <5>2
      <4> QED
        BY <3>4, <4>1
    <3>8. \A n \in 1 .. many : cut[n] <= cut[n + 1]
      <4> SUFFICES ASSUME NEW n \in 1 .. many PROVE cut[n] <= cut[n + 1]
        OBVIOUS
      <4>1. PICK x : x = W!StartOf(n) /\ x \in 1 .. len
        BY <2>1
      <4>2. CASE n < many
        <5>1. n + 1 \in 1 .. many
          BY <2>1, <4>2
        <5>2. PICK y : y = W!StartOf(n + 1) /\ y \in 1 .. len
          BY <2>1, <5>1
        <5>3. x < y
          BY <2>1, <4>1, <4>2, <5>2
        <5>4. x <= y
          BY <1>8, <4>1, <5>2, <5>3
        <5> QED
          BY <3>5, <4>1, <4>2, <5>2, <5>4
      <4>3. CASE ~(n < many)
        <5>1. x <= len + 1
          BY <1>8, <4>1
        <5> QED
          BY <3>5, <4>1, <4>3, <5>1
      <4> QED
        BY <4>2, <4>3
    <3>9. parts = [n \in 1 .. many |-> SubSeq(words, cut[n], cut[n + 1] - 1)]
      <4>1. \A n \in 1 .. many : segs[n].text = SubSeq(words, cut[n], cut[n + 1] - 1)
        BY <2>2, <2>5, <3>1, <3>5
      <4> QED
        BY <1>7, <1>10, <4>1
    <3>10. W!FlattenSeq(parts) = SubSeq(words, cut[1], Len(words))
      BY <2>1, <3>3, <3>6, <3>7, <3>8, <3>9, PutTogether
    <3>11. SubSeq(words, 1, Len(words)) = words
      BY <3>3, SubSeqFull
    <3>12. W!FlattenSeq(parts) = W!Tokens
      BY <3>1, <3>6, <3>10, <3>11
    <3>13. W!SegmentsAreTheText'
      BY <1>1, <1>2, <1>6, <1>7, <2>4, <2>5, <3>12 DEF W!SegmentsAreTheText
    <3> QED
      BY <1>1, <1>2, <1>3, <1>4, <3>13 DEF WordsInv
  <2>6. CASE text # <<>>
    <3>1. PICK at : at = W!MapWordPositions
      OBVIOUS
    <3>2. /\ \A k \in 1 .. len : at[k] \in 1 .. Len(text) + 1
          /\ \A k, l \in 1 .. len : k <= l => at[k] <= at[l]
          /\ Len(text) \in Nat
      BY <1>1, <1>8, <1>9, <3>1, PositionsFound
    <3>3. PICK cut : cut = [n \in 1 .. many + 1 |-> IF n < many + 1 THEN at[W!StartOf(n)] ELSE Len(text) + 1]
      OBVIOUS
    <3>4. \A n \in 1 .. many : /\ cut[n] = at[W!StartOf(n)]
                               /\ cut[n + 1] = IF n < many THEN at[W!StartOf(n + 1)] ELSE Len(text) + 1
      BY <2>1, <3>3
    <3>5. cut[1] = at[1] /\ cut[many + 1] = Len(text) + 1
      BY <2>1, <3>3
    <3>6. cut \in [1 .. many + 1 -> 1 .. Len(text) + 1]
      <4>1. \A n \in 1 .. many + 1 :
              (IF n < many + 1 THEN at[W!StartOf(n)] ELSE Len(text) + 1) \in 1 .. Len(text) + 1
        <5> SUFFICES ASSUME NEW n \in 1 .. many + 1
                     PROVE  (IF n < many + 1 THEN at[W!StartOf(n)] ELSE Len(text) + 1) \in 1 .. Len(text) + 1
          OBVIOUS
        <5>1. CASE n < many + 1
          <6>1. n \in 1 .. many
            BY <2>1, <5>1
          <6>2. at[W!StartOf(n)] \in 1 .. Len(text) + 1
            BY <2>1, <3>2, <6>1
          <6> QED
            BY <5>1, <6>2
        <5>2. CASE ~(n < many + 1)
          BY <3>2, <5>2
        <5> QED
          BY <5>1, <5>2
      <4> QED
        BY <3>3, <4>1
    <3>7. \A n \in 1 .. many : cut[n] <= cut[n + 1]
      <4> SUFFICES ASSUME NEW n \in 1 .. many PROVE cut[n] <= cut[n + 1]
        OBVIOUS
      <4>1. PICK x : x = W!StartOf(n) /\ x \in 1 .. len
        BY <2>1
      <4>2. CASE n < many
        <5>1. n + 1 \in 1 .. many
          BY <2>1, <4>2
        <5>2. PICK y : y = W!StartOf(n + 1) /\ y \in 1 .. len
          BY <2>1, <5>1
        <5>3. x < y
          BY <2>1, <4>1, <4>2, <5>2
        <5>4. x <= y
          BY <1>8, <4>1, <5>2, <5>3
        <5>5. at[x] <= at[y]
          BY <3>2, <4>1, <5>2, <5>4
        <5> QED
          BY <3>4, <4>1, <4>2, <5>2, <5>5
      <4>3. CASE ~(n < many)
        <5>1. PICK p : p = at[x] /\ p \in 1 .. Len(text) + 1
          BY <3>2, <4>1
        <5>2. p <= Len(text) + 1
          BY <3>2, <5>1
        <5> QED
          BY <3>4, <4>1, <4>3, <5>1, <5>2
      <4> QED
        BY <4>2, <4>3
    <3>8. parts = [n \in 1 .. many |-> SubSeq(text, cut[n], cut[n + 1] - 1)]
      <4>1. \A n \in 1 .. many : segs[n].text = SubSeq(text, cut[n], cut[n + 1] - 1)
        BY <2>2, <2>6, <3>1, <3>4
      <4> QED
        BY <1>7, <1>10, <4>1
    <3>9. W!FlattenSeq(parts) = SubSeq(text, cut[1], Len(text))
      BY <1>9, <2>1, <3>5, <3>6, <3>7, <3>8, PutTogether
    <3>10. W!FlattenSeq(parts) = SubSeq(text, W!MapWordPositions[1], Len(text))
      BY <3>1, <3>5, <3>9
    <3>11. W!SegmentsAreTheText'
      BY <1>1, <1>2, <1>6, <1>7, <1>12, <2>4, <2>6, <3>10 DEF W!SegmentsAreTheText
    <3> QED
      BY <1>1, <1>2, <1>3, <1>4, <3>11 DEF WordsInv
  <2> QED
    BY <2>5, <2>6
<1> QED
  BY <1>11, <1>12

LEMMA WordsInit == W!Init => WordsInv
BY DEF W!Init, WordsInv, WordInv, W!Index, Sources, W!SegmentsAreTheText

LEMMA WordsStep == WordsInv /\ [W!Next]_wordsVars => WordsInv'
<1> SUFFICES ASSUME WordsInv, [W!Next]_wordsVars PROVE WordsInv'
  OBVIOUS
<1>1. CASE UNCHANGED wordsVars
  <2>1. UNCHANGED <<txs, input, text, src, i, segments, pcAttribution>>
    BY <1>1 DEF wordsVars
  <2>2. /\ Sources' = Sources /\ W!Index' = W!Index
        /\ \A k : /\ UnitAt(k)' = UnitAt(k) /\ W!Brief(k)' = W!Brief(k)
                  /\ W!Brushes(k, UnitAt(k))' = W!Brushes(k, UnitAt(k))
    BY <2>1, WordKept DEF W!Index
  <2>3. W!MapWordPositions' = W!MapWordPositions /\ W!Tokens' = W!Tokens
    BY <2>1, SegmentsKept
  <2>4. W!SegmentsAreTheText'
    BY <2>1, <2>3 DEF WordsInv, W!SegmentsAreTheText
  <2>5. \A k \in W!Index' : WordInv(k)'
    BY <2>1, <2>2 DEF WordsInv, WordInv
  <2> QED
    BY <2>1, <2>2, <2>4, <2>5 DEF WordsInv
<1> QED
  BY <1>1, WordsReceive, WordsAttribute, WordsFixed, WordsSnapped, WordsSegmented DEF W!Next

\* A word that is no blip stays with the unit that was transmitting when it started,
\* unless its speaker's segment merely brushes that unit's transmissions; the segments
\* are the text, each token once and in order, cut where the unit changes (units.go).
THEOREM WordsAlwaysAttributed == RecordsSpec => []WordsKeepTheirUnit
<1>1. RecordsInit => WordsInv
  BY WordsInit DEF RecordsInit
<1>2. WordsInv /\ [RecordsNext]_recordsVars => WordsInv'
  BY WordsStep DEF RecordsNext, recordsVars
<1>3. WordsInv => WordsKeepTheirUnit
  <2> SUFFICES ASSUME WordsInv PROVE WordsKeepTheirUnit
    OBVIOUS
  <2>1. W!TypeOK
    BY DEF WordsInv, W!TypeOK, Sources
  <2>2. W!WordsKeepTheirUnit
    BY DEF WordsInv, WordInv, UnitAt, W!WordsKeepTheirUnit
  <2> QED
    BY <2>1, <2>2 DEF WordsInv, WordsKeepTheirUnit
<1> QED
  BY <1>1, <1>2, <1>3, PTL DEF RecordsSpec
=============================================================================
