----------------------------- MODULE MCRecords ------------------------------
(***************************************************************************)
(* What the database keeps: systems and sites (Identity), suggested        *)
(* names (Suggestions), the events of units (UnitEvents), transcriptions   *)
(* (Transcriptions) and their words (Attribution), the rows of a call      *)
(* (CallRecord), accounts (Accounts), what maintenance makes and purges    *)
(* (Maintenance), and the move to another database (Transfer).  They share *)
(* no state: a behaviour is that of one of them, told by part, and each    *)
(* property is about its part, that in Accounts about the accounts.        *)
(***************************************************************************)
EXTENDS Accounts, Sequences, Integers

\* The sites of both keys report one network.
MCNet == [k \in {"k1", "k2"} |-> "n"]

\* Two calls of the P25 system within the window of the lookup, but not within that of the
\* docs, and one of the conventional system.
MCRecorded == {[site |-> "p", start |-> 0], [site |-> "p", start |-> 8], [site |-> "c", start |-> 0]}

\* An audio message with both lists, a file with that of the frequencies only; a form
\* of each format, one of them without a time that can be read.
MCBrings == [audio |-> {"src", "freq"}, file |-> {"freq"}]
MCForms ==
  {[n \in {"audio", "talkgroup", "dateTime", "sources"} |-> "good"],
   [n \in {"call", "talkgroup_num", "start_time", "freq_list"} |->
      IF n = "start_time" THEN "bad" ELSE "good"]}

\* Two systems record one transmission.
MCHeardIn == <<"s", "t">>
MCTransmission == <<"x", "x">>

\* Two units in turns, also with a list that is out of order, or nobody; three words, a
\* blip or 0.2 s each, 0, 0.1 or 0.3 s apart, the first two perhaps of one speaker, or none.
MCTx(s, p) == [src |-> s, pos |-> p]
MCSrcLists == {<<>>, <<MCTx(1, 0), MCTx(2, 16), MCTx(1, 22)>>, <<MCTx(1, 2), MCTx(2, 20), MCTx(1, 12)>>}
MCWord(t, from, length, u) == [token |-> t, start |-> from, end |-> from + length, utterance |-> u]
MCWords ==
  {<<>>} \cup
  {<<MCWord("a", f, d[1], u), MCWord("b", f + d[1] + g[1], d[2], u),
     MCWord("a", f + d[1] + g[1] + d[2] + g[2], d[3], 2 * u)>> :
     f \in {10, 18}, g \in [1 .. 2 -> {0, 2, 6}], d \in [1 .. 3 -> {0, 4}], u \in {0, 1}}

MCTexts == {<<>>, <<"x", "a", "x">>}

\* Demoting, disabling, and the opposite of both.
MCUpdates ==
  {[role |-> "viewer", enabled |-> "keep"], [role |-> "keep", enabled |-> "no"],
   [role |-> "admin", enabled |-> "yes"]}

\* Two requests that overlap; one at a time, a token and a key that outlive it; and a
\* request that overlaps one that logs in or refreshes.
MCConfig ==
  {[writeToken |-> TRUE, adminPassword |-> TRUE, secretKept |-> TRUE, accessLife |-> 0,
    refreshLife |-> 0, requests |-> {1, 2}, sessions |-> {}, maxKeys |-> 0, maxTokens |-> 0],
   [writeToken |-> FALSE, adminPassword |-> FALSE, secretKept |-> FALSE, accessLife |-> 1,
    refreshLife |-> 2, requests |-> {1}, sessions |-> {1}, maxKeys |-> 1, maxTokens |-> 1],
   [writeToken |-> TRUE, adminPassword |-> TRUE, secretKept |-> TRUE, accessLife |-> 1,
    refreshLife |-> 1, requests |-> {1}, sessions |-> {2}, maxKeys |-> 0, maxTokens |-> 1]}

CONSTANTS
  Parts,                                     \* the components whose behaviours are followed
  KeyIdentity, Net, MaxSystemIdentity, MaxRowsIdentity, MaxTroublesIdentity,
  MaxRequestsIdentity,                       \* of Identity
  Recording, HeardIn, Transmission, Scanner, BatchSize, EvidenceCap, MaxIdSuggestions,
  MaxFaultsSuggestions,                      \* of Suggestions
  Talkgroup, EventType, WindowUnits, StaleAfter, Delay, MaxTimeUnits, MaxEvents,
  MaxTroublesUnits,                          \* of UnitEvents
  Recorded, ConvSite, LiveStart, MaxRowsTransfer, MaxSystemTransfer, MaxImports,
  MaxFaultsTransfer,                         \* of Transfer
  MaxTx, SourcesTranscriptions, Verdicts,    \* of Transcriptions
  TrAudioDir, Brings, Forms, SourcesCallRecord, MaxRowsCallRecord, MaxFaultsCallRecord,
  MaxTries,                                  \* of CallRecord
  SrcLists, Duration, Words, Texts,          \* of Attribution
  MonthWeeks, Default,                       \* of Maintenance, followed for its settings
  RetentionSettings, RequestSettings, MaxTimeSettings, MaxRequestsSettings, MaxFaultsSettings,
  RetentionPartitions, RequestPartitions, MaxTimePartitions, MaxRequestsPartitions,
  MaxFaultsPartitions                        \* and for its partitions
ASSUME PartsAssumption == Parts \subseteq {"identity", "suggestions", "units", "transfer", "texts", "call", "words", "accounts", "settings", "partitions"}

VARIABLES
  part,  \* the component of this behaviour
  systems, siteOfIdentity, cache, rowsIdentity, mu, atIdentity, merging, misled,
  faultsIdentity, requests, restartsIdentity,
  tr, age, cursor, sugg, scan, merged, scanned, faultsSuggestions,
  nowUnitEvents, sweepAt, dedup, rowsUnitEvents, failed, dropped, affiliation,
  atUnitEvents, blurred, newest, count, faultsUnitEvents, restartsUnitEvents,
  source, archive, madeTransfer, p25, siteOfTransfer, names, rowsTransfer, groupsTransfer,
  texts, stage, mode, sysMap, siteMap, sites, todo, blind, clean, done, imports,
  faultsTransfer,
  begunTranscriptions, pcTranscriptions, kind, status, seen, cleared, callLock, groupLock,
  linked, rowsTranscriptions, primary, call, groupTranscriptions, missed,
  row, groupCallRecord, groupsCallRecord, tables, partitions, atCallRecord, form, answer,
  tries, old, reported, ungrouped, bereft, unsaved, faultsCallRecord,
  txs, input, text, src, i, segments, pcAttribution,
  nowSettings, upSettings, envSettings, overrideSettings, liveSettings, reqSettings,
  askedSettings, runSettings, ranSettings, monthsSettings, weeksSettings, oldestSettings,
  thinnedSettings, madeSettings, lostSettings, unsureSettings, faultsSettings,
  nowPartitions, upPartitions, envPartitions, overridePartitions, livePartitions,
  reqPartitions, askedPartitions, runPartitions, ranPartitions, monthsPartitions,
  weeksPartitions, oldestPartitions, thinnedPartitions, madePartitions, lostPartitions,
  unsurePartitions, faultsPartitions

I == INSTANCE Identity WITH
  Key <- KeyIdentity, MaxSystem <- MaxSystemIdentity, MaxRows <- MaxRowsIdentity,
  MaxTroubles <- MaxTroublesIdentity, MaxRequests <- MaxRequestsIdentity,
  siteOf <- siteOfIdentity, rows <- rowsIdentity, at <- atIdentity,
  faults <- faultsIdentity, restarts <- restartsIdentity
G == INSTANCE Suggestions WITH
  Call <- Recording, SystemOf <- HeardIn, MaxId <- MaxIdSuggestions,
  MaxFaults <- MaxFaultsSuggestions, faults <- faultsSuggestions
U == INSTANCE UnitEvents WITH
  Window <- WindowUnits, MaxTime <- MaxTimeUnits, MaxTroubles <- MaxTroublesUnits,
  now <- nowUnitEvents, rows <- rowsUnitEvents, at <- atUnitEvents,
  faults <- faultsUnitEvents, restarts <- restartsUnitEvents
X == INSTANCE Transfer WITH
  MaxRows <- MaxRowsTransfer, MaxSystem <- MaxSystemTransfer,
  MaxFaults <- MaxFaultsTransfer, made <- madeTransfer,
  siteOf <- siteOfTransfer, rows <- rowsTransfer, groups <- groupsTransfer,
  faults <- faultsTransfer
T == INSTANCE Transcriptions WITH
  Sources <- SourcesTranscriptions,
  begun <- begunTranscriptions, pc <- pcTranscriptions, rows <- rowsTranscriptions,
  group <- groupTranscriptions
C == INSTANCE CallRecord WITH
  Sources <- SourcesCallRecord, MaxRows <- MaxRowsCallRecord,
  MaxFaults <- MaxFaultsCallRecord, group <- groupCallRecord, groups <- groupsCallRecord,
  at <- atCallRecord, faults <- faultsCallRecord
W == INSTANCE Attribution WITH pc <- pcAttribution
M == INSTANCE Maintenance WITH
  Retention <- RetentionSettings, Request <- RequestSettings, MaxTime <- MaxTimeSettings,
  MaxRequests <- MaxRequestsSettings, MaxFaults <- MaxFaultsSettings, now <- nowSettings, up <- upSettings,
  env <- envSettings, override <- overrideSettings, live <- liveSettings,
  req <- reqSettings, asked <- askedSettings, run <- runSettings, ran <- ranSettings,
  months <- monthsSettings, weeks <- weeksSettings, oldest <- oldestSettings,
  thinned <- thinnedSettings, made <- madeSettings, lost <- lostSettings,
  unsure <- unsureSettings, faults <- faultsSettings
P == INSTANCE Maintenance WITH
  Retention <- RetentionPartitions, Request <- RequestPartitions, MaxTime <- MaxTimePartitions,
  MaxRequests <- MaxRequestsPartitions, MaxFaults <- MaxFaultsPartitions, now <- nowPartitions, up <- upPartitions,
  env <- envPartitions, override <- overridePartitions, live <- livePartitions,
  req <- reqPartitions, asked <- askedPartitions, run <- runPartitions,
  ran <- ranPartitions, months <- monthsPartitions, weeks <- weeksPartitions,
  oldest <- oldestPartitions, thinned <- thinnedPartitions, made <- madePartitions,
  lost <- lostPartitions, unsure <- unsurePartitions, faults <- faultsPartitions

\* There is a site; what is counted is a number.
ASSUME IdentityAssumption ==
  KeyIdentity # {} /\ {MaxSystemIdentity, MaxRowsIdentity} \subseteq Nat
ASSUME SuggestionsAssumption ==
  /\ Recording \subseteq Nat /\ Recording # {} /\ IsFiniteSet(Recording)
  /\ HeardIn \in [Recording -> G!Sys]
  /\ {BatchSize, EvidenceCap, MaxIdSuggestions, MaxFaultsSuggestions} \subseteq Nat
ASSUME UnitsAssumption ==
  {WindowUnits, StaleAfter, Delay, MaxTimeUnits, MaxEvents, MaxTroublesUnits} \subseteq Nat
\* A call starts some seconds after the first there can be.
ASSUME TransferAssumption ==
  /\ Recorded \subseteq [site : X!Site \cup {X!NoSite}, start : Nat]
  /\ LiveStart \subseteq Nat
  /\ {X!P25Site, X!NoSite} \cap ConvSite = {}
  /\ {MaxRowsTransfer, MaxImports, MaxFaultsTransfer} \subseteq Nat
  /\ MaxSystemTransfer \in Nat \ {0}
\* What the sources and verdicts are in the code; a retention is a number of weeks.
ASSUME TextsAssumption ==
  /\ MaxTx \in Nat
  /\ SourcesTranscriptions \subseteq {"auto", "human", "llm"}
  /\ Verdicts \subseteq T!Statuses \ {"none"}
\* An audio message and a file bring some of the two lists.
ASSUME CallRecordAssumption ==
  /\ TrAudioDir \in BOOLEAN
  /\ Brings \in [{"audio", "file"} -> SUBSET {"src", "freq"}]
  /\ {MaxRowsCallRecord, MaxFaultsCallRecord, MaxTries} \subseteq Nat
\* Lists of words and tokens; a unit is a number, a time an integer.
ASSUME WordsAssumption ==
  /\ SrcLists \subseteq Seq([src : Int, pos : Int]) /\ Duration \in Int
  /\ \A w \in Words :
       w \in Seq([token : {w[k].token : k \in DOMAIN w}, start : Int, end : Int, utterance : Nat])
  /\ \A t \in Texts : t \in Seq({t[p] : p \in DOMAIN t})
ASSUME MaintenanceAssumption ==
  /\ {MonthWeeks, Default} \subseteq Nat \ {0}
  /\ RetentionSettings \subseteq Nat \ {0} /\ RetentionPartitions \subseteq Nat \ {0}
  /\ {MaxTimeSettings, MaxRequestsSettings, MaxFaultsSettings} \subseteq Nat
  /\ {MaxTimePartitions, MaxRequestsPartitions, MaxFaultsPartitions} \subseteq Nat

identityVars == <<systems, siteOfIdentity, cache, rowsIdentity, mu, atIdentity, merging, misled,
    faultsIdentity, requests, restartsIdentity>>
suggestionsVars == <<tr, age, cursor, sugg, scan, merged, scanned, faultsSuggestions>>
unitsVars == <<nowUnitEvents, sweepAt, dedup, rowsUnitEvents, failed, dropped, affiliation,
    atUnitEvents, blurred, newest, count, faultsUnitEvents, restartsUnitEvents>>
transferVars == <<source, archive, madeTransfer, p25, siteOfTransfer, names, rowsTransfer,
    groupsTransfer, texts, stage, mode, sysMap, siteMap, sites, todo, blind, clean,
    done, imports, faultsTransfer>>
textsVars == <<begunTranscriptions, pcTranscriptions, kind, status, seen, cleared, callLock,
    groupLock, linked, rowsTranscriptions, primary, call, groupTranscriptions,
    missed>>
callVars == <<row, groupCallRecord, groupsCallRecord, tables, partitions, atCallRecord, form,
    answer, tries, old, reported, ungrouped, bereft, unsaved, faultsCallRecord>>
wordsVars == <<txs, input, text, src, i, segments, pcAttribution>>
accountsVars == <<config, users, ids, keys, access, refresh, req, begun, excused, since>>
settingsVars == <<nowSettings, upSettings, envSettings, overrideSettings, liveSettings,
    reqSettings, askedSettings, runSettings, ranSettings, monthsSettings,
    weeksSettings, oldestSettings, thinnedSettings, madeSettings, lostSettings,
    unsureSettings, faultsSettings>>
partitionsVars == <<nowPartitions, upPartitions, envPartitions, overridePartitions, livePartitions,
    reqPartitions, askedPartitions, runPartitions, ranPartitions, monthsPartitions,
    weeksPartitions, oldestPartitions, thinnedPartitions, madePartitions,
    lostPartitions, unsurePartitions, faultsPartitions>>
recordsVars == <<part, identityVars, suggestionsVars, unitsVars, transferVars, textsVars, callVars, wordsVars, accountsVars, settingsVars, partitionsVars>>

\* A part that is not followed starts in one state only.
RecordsInit ==
  /\ part \in Parts
  /\ I!Init /\ G!Init /\ U!Init /\ X!Init /\ T!Init /\ C!Init /\ W!Init /\ Init /\ M!Init /\ P!Init
  /\ part # "transfer" => madeTransfer = 0
  /\ part = "transfer" => madeTransfer = 0
  /\ part # "texts" => ~linked
  /\ part = "call" => partitions = {} /\ (atCallRecord["upload"].pc = "done" => "audio" \in DOMAIN form)
  /\ part # "call" => partitions = {} /\ "audio" \in DOMAIN form /\ atCallRecord["radio"].pc = "look" /\ atCallRecord["audio"].pc = "look"
  /\ part # "settings" => envSettings = 0
  /\ part # "accounts" => config.maxTokens = 0

RecordsNext ==
  \/ part = "identity" /\ I!Next /\ UNCHANGED <<part, suggestionsVars, unitsVars, transferVars, textsVars, callVars, wordsVars, accountsVars, settingsVars, partitionsVars>>
  \/ part = "suggestions" /\ G!Next /\ UNCHANGED <<part, identityVars, unitsVars, transferVars, textsVars, callVars, wordsVars, accountsVars, settingsVars, partitionsVars>>
  \/ part = "units" /\ U!Next /\ UNCHANGED <<part, identityVars, suggestionsVars, transferVars, textsVars, callVars, wordsVars, accountsVars, settingsVars, partitionsVars>>
  \/ part = "transfer" /\ X!Next /\ UNCHANGED <<part, identityVars, suggestionsVars, unitsVars, textsVars, callVars, wordsVars, accountsVars, settingsVars, partitionsVars>>
  \/ part = "texts" /\ T!Next /\ UNCHANGED <<part, identityVars, suggestionsVars, unitsVars, transferVars, callVars, wordsVars, accountsVars, settingsVars, partitionsVars>>
  \/ part = "call" /\ C!Next /\ UNCHANGED <<part, identityVars, suggestionsVars, unitsVars, transferVars, textsVars, wordsVars, accountsVars, settingsVars, partitionsVars>>
  \/ part = "words" /\ W!Next /\ UNCHANGED <<part, identityVars, suggestionsVars, unitsVars, transferVars, textsVars, callVars, accountsVars, settingsVars, partitionsVars>>
  \/ part = "accounts" /\ Next /\ UNCHANGED <<part, identityVars, suggestionsVars, unitsVars, transferVars, textsVars, callVars, wordsVars, settingsVars, partitionsVars>>
  \/ part = "settings" /\ M!Next /\ UNCHANGED <<part, identityVars, suggestionsVars, unitsVars, transferVars, textsVars, callVars, wordsVars, accountsVars, partitionsVars>>
  \/ part = "partitions" /\ P!Next /\ UNCHANGED <<part, identityVars, suggestionsVars, unitsVars, transferVars, textsVars, callVars, wordsVars, accountsVars, settingsVars>>

\* The fairness of the part that is followed.
Fairness ==
  /\ \A t \in T!Tx : WF_textsVars(part = "texts" /\ T!Statement(t))
  /\ \A t \in T!Tx : WF_textsVars(part = "texts" /\ T!CheckFails(t))

RecordsSpec == RecordsInit /\ [][RecordsNext]_recordsVars /\ Fairness

-----------------------------------------------------------------------------
\* The cache resolves to systems that are there, and rows are under their site's
\* system, also after a merge (identity.go, systems.go).
SystemsAgree == part = "identity" => I!TypeOK /\ I!CacheAgrees /\ I!RowsFollowTheirSite

\* Each recording of a unit's name counts once, and none is skipped (unittags).
EvidenceIsExact == part = "suggestions" => G!TypeOK /\ G!EvidenceIsExact

\* The reports of all sites count as one event each, and a restart gives no
\* affiliation the unit does not have (handler_units.go, unit_events.sql).
UnitsAgree == part = "units" => U!TypeOK /\ U!EventsCountOnce /\ U!RestartAgrees

\* No archived call is there twice after imports, and none is given up but for one of
\* its system within ten seconds (import.go).
CallsImportedOnce == part = "transfer" => X!TypeOK /\ X!CallsImportedOnce

\* Nor but for one within the five seconds of comment and docs (import.go:534).
ImportedUnlessNear == part = "transfer" => X!ImportedUnlessNear

\* The call shows a primary row's text, the group what the call shows, and a
\* transcription takes the mark from the rows it saw (transcriptions.go).
TextsAgree == part = "texts" => T!TypeOK /\ T!CallTextIsPrimary /\ T!GroupMirrorsCall /\ T!SeenRowsAreCleared
                              /\ T!NobodyWaitsInACircle

\* A list made of unit events does not replace a reported one (handler_audio.go).
RealListsStay == part = "call" => C!TypeOK /\ C!RealListsStay

\* Each call is in the group of its start, which is there, unless a statement failed or
\* the group was purged before the call referred to it.
CallsAreGrouped == part = "call" => C!CallsAreGrouped

\* Recordings of one start share a group (openapi.yaml:4758).
RecordingsShareGroup == part = "call" => C!RecordingsShareGroup

\* An upload that was answered has its audio (handler_upload.go).
UploadsAreStored == part = "call" => C!UploadsAreStored

\* Words stay with the unit that said them, and the text is all there (units.go).
WordsKeepTheirUnit == part = "words" => W!TypeOK /\ W!WordsKeepTheirUnit /\ W!SegmentsAreTheText

\* A retention setting is what a restart would load (pipeline.go).
SettingSurvivesRestart == part = "settings" => M!TypeOK /\ M!SettingSurvivesRestart

\* Monthly runs leave no month without a partition (maintenance.go).
EventsFindPartition == part = "partitions" => P!TypeOK /\ P!EventsFindPartition

\* Every transaction ends without a timeout (transcriptions.go).
TransactionsEnd == part = "texts" => T!TransactionsEnd

\* docs/architecture.md: weekly partitions of raw messages are dropped after the retention.
RawIsDropped == part = "partitions" => P!RawIsDropped
=============================================================================
