----------------------------- MODULE MCStreams ------------------------------
(***************************************************************************)
(* What flows through the engine: messages (Ingest), audio files           *)
(* (Storage), recordings on the disk (Watcher), names of talkgroups and    *)
(* units (Tags), live audio (LiveAudio), events (EventBus).  They share no *)
(* state: a behaviour is that of one of them, told by part, and each       *)
(* property is about its part, those in Ingest about the messages.         *)
(***************************************************************************)
EXTENDS Ingest

\* A call, a message without a route, one that opens the gate, another call.
MCTraffic == <<"call", "unknown", "register", "call">>

CONSTANTS
  Parts,                                                      \* the components followed
  Workers, QueueSizeStorage, MaxVersions, MaxFaultsStorage, MaxRestartsStorage,  \* of Storage
  Recorder, StreamInstanceID, IdleTimeout, InputSize, BufferSize, ControlSize,
  MaxTime, MaxPackets, MaxAsks,                               \* of LiveAudio
  Writeback, MaxWrites, MaxPatches, MaxArchives, MaxFaultsTags, MaxRestartsTags,
  MaxTogether,                                                \* of Tags
  MaxFaultsWatcher, MaxStops,                                 \* of Watcher
  Publishers, RingSize, ChanSize, MaxEvents, MaxConnects      \* of EventBus
ASSUME PartsAssumption == Parts \subseteq {"storage", "watcher", "tags", "audio", "messages", "events"}
ASSUME StreamsAssumption ==
  /\ {MaxVersions, IdleTimeout, InputSize, BufferSize, ControlSize, MaxTime} \subseteq Nat
  /\ {ChanSize, MaxEvents, MaxConnects} \subseteq Nat
  /\ {RingSize, MaxWrites} \subseteq Nat \ {0}
  /\ "nobody" \notin Recorder

VARIABLES
  part,  \* the component of this behaviour
  mode, local, s3, dirStorage, temps, over, writer, upload, pruner, recon, saves, saved,
  faultsStorage, restartsStorage,
  backfills, dirWatcher, fileWatcher, watched, events, start, loop, back, status,
  timerWatcher, ingested, passedBy, faultsWatcher, stops,
  kind, row, dirTags, edit, fileTags, disc, fixed, phaseTags, watch, imp, heard, patch,
  merged, missed, faultsTags, patches, archives, restartsTags,
  now, known, input, sourceMap, stream, packets, ch, filter, control, asks, gotLiveAudio,
  seq, publisher, ring, ringHead, channel, client, lastEventID, connects, gotEventBus, log,
  owner, dropped, exposed, resumed

S == INSTANCE Storage WITH
  QueueSize <- QueueSizeStorage, MaxFaults <- MaxFaultsStorage,
  MaxRestarts <- MaxRestartsStorage, dir <- dirStorage, faults <- faultsStorage,
  restarts <- restartsStorage
W == INSTANCE Watcher WITH
  MaxFaults <- MaxFaultsWatcher, dir <- dirWatcher, file <- fileWatcher,
  timer <- timerWatcher, faults <- faultsWatcher
T == INSTANCE Tags WITH
  MaxFaults <- MaxFaultsTags, MaxRestarts <- MaxRestartsTags, dir <- dirTags,
  file <- fileTags, phase <- phaseTags, faults <- faultsTags, restarts <- restartsTags
L == INSTANCE LiveAudio WITH
  got <- gotLiveAudio
E == INSTANCE EventBus WITH
  got <- gotEventBus

storageVars == <<mode, local, s3, dirStorage, temps, over, writer, upload, pruner, recon, saves,
    saved, faultsStorage, restartsStorage>>
watcherVars == <<backfills, dirWatcher, fileWatcher, watched, events, start, loop, back, status,
    timerWatcher, ingested, passedBy, faultsWatcher, stops>>
tagsVars == <<kind, row, dirTags, edit, fileTags, disc, fixed, phaseTags, watch, imp, heard,
    patch, merged, missed, faultsTags, patches, archives, restartsTags>>
audioVars == <<now, known, input, sourceMap, stream, packets, ch, filter, control, asks,
    gotLiveAudio>>
messagesVars == <<sent, msgCh, gate, opener, warmup, buffer, pc, work, handled, lost, phase,
    items, timer, late, stopped, flights, fate>>
eventsVars == <<seq, publisher, ring, ringHead, channel, client, lastEventID, connects,
    gotEventBus, log, owner, dropped, exposed, resumed>>
streamsVars == <<part, storageVars, watcherVars, tagsVars, audioVars, messagesVars, eventsVars>>

\* A part that is not followed starts in one state only.
StreamsInit ==
  /\ part \in Parts
  /\ S!Init /\ W!Init /\ T!Init /\ L!Init /\ Init /\ E!Init
  /\ part # "storage" => mode = "async"
  /\ part # "watcher" => ~backfills /\ ~dirWatcher
  /\ part # "tags" => kind = "unit" /\ row = [s \in T!Sys |-> CHOOSE r \in T!OldRow : TRUE]
  /\ part # "audio" => known = {}

StreamsNext ==
  \/ part = "storage" /\ S!Next /\ UNCHANGED <<part, watcherVars, tagsVars, audioVars, messagesVars, eventsVars>>
  \/ part = "watcher" /\ W!Next /\ UNCHANGED <<part, storageVars, tagsVars, audioVars, messagesVars, eventsVars>>
  \/ part = "tags" /\ T!Next /\ UNCHANGED <<part, storageVars, watcherVars, audioVars, messagesVars, eventsVars>>
  \/ part = "audio" /\ L!Next /\ UNCHANGED <<part, storageVars, watcherVars, tagsVars, messagesVars, eventsVars>>
  \/ part = "messages" /\ Next /\ UNCHANGED <<part, storageVars, watcherVars, tagsVars, audioVars, eventsVars>>
  \/ part = "events" /\ E!Next /\ UNCHANGED <<part, storageVars, watcherVars, tagsVars, audioVars, messagesVars>>

\* The fairness of the part that is followed.
Fairness ==
  /\ WF_storageVars(part = "storage" /\ S!Reconciler)
  /\ WF_watcherVars(part = "watcher" /\ W!Starting)
  /\ WF_watcherVars(part = "watcher" /\ W!Loop)
  /\ WF_watcherVars(part = "watcher" /\ W!Timer)
  /\ WF_watcherVars(part = "watcher" /\ W!Backfilling)
  /\ WF_tagsVars(part = "tags" /\ T!KeepPreUpgradeTagEdits)
  /\ WF_tagsVars(part = "tags" /\ T!Import)
  /\ WF_tagsVars(part = "tags" /\ T!EnrichHeard)
  /\ WF_messagesVars(part = "messages" /\ TakeMessage)
  /\ \A g \in Goroutine : WF_messagesVars(part = "messages" /\ Goes(g))
  /\ WF_messagesVars(part = "messages" /\ WarmupTimeout)
  /\ WF_messagesVars(part = "messages" /\ BatcherGoes)

StreamsSpec == StreamsInit /\ [][StreamsNext]_streamsVars /\ Fairness

-----------------------------------------------------------------------------
\* A file a call refers to can be opened, on the disk or in S3 (storage).
SavedStays == part = "storage" => S!TypeOK /\ S!SavedStays

\* A saved file is in S3 at last, or its date was over before (reconciler.go).
ReachesS3 == part = "storage" => S!ReachesS3

\* A whole recording stays in hand and is ingested, unless passed by, lost or stopped (watcher.go).
FilesAreIngested == part = "watcher" => W!FilesAreIngested

\* What a user named stays named so (unittags, talkgroups.go, units.go, main.go).
EditsKept == part = "tags" => T!TypeOK /\ T!EditsKept

\* The CSV file's last name reaches the rows (filewatch.go).
CsvReachesRows == part = "tags" => T!CsvReachesRows

\* A client hears a talkgroup from one recorder at a time (router.go).
OneVoice == part = "audio" => L!TypeOK /\ L!OneVoice

\* A replay is the rest of the ring, no publisher's events swap, and a missed event was
\* dropped, overwritten, or published while connecting (eventbus.go, events.go).
EventsDelivered == part = "events" => E!TypeOK /\ E!ReplayIsTheRest /\ E!OwnersOrderKept /\ E!MissesAreAccounted
=============================================================================
