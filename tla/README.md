# tr-engine in TLA+

tr-engine receives what trunk-recorder instances publish about radio calls (MQTT
messages, watched files, HTTP uploads, live audio over UDP), keeps the calls in
PostgreSQL, transcribes their audio and serves them to clients, live and by query. This
directory models the parts of it in which the order of steps matters, checks them with
TLC and proves their safety for every value of the constants with TLAPS.

To check a run: `tlc -config Streams.cfg MCStreams`. To check a proof: `tlapm
Backfill_proofs.tla`. `PROJECT.json` lists the runs, which definition models which
lines, a mutation of the model each property catches, the disagreements found between
code and documentation, and the hazards the properties are aimed at.

## The system

    trunk-recorder --MQTT--> mqttclient --> warmup gate --> handlers --> PostgreSQL
       files ----> FileWatcher --------------------------------^   |  |     ^    ^
       uploads --> HTTP API -----------------------------------^   |  +--> EventBus --> SSE
       UDP ------> audio.Router --> AudioBus --> WebSocket         v            |    |
              BackfillManager ---------------> transcribe.WorkerPool     Maintenance |
                     ^                               ^                               |
              HTTP API (submit, cancel, transcribe, accounts, settings) -- Import, Scanner

| component | state | operations | what is hard |
|---|---|---|---|
| MQTT client (`mqttclient/client.go`) | queue of 1000 messages, handler | onMessage, dispatchLoop, Close | messages are unordered (`SetOrderMatters(false)`), QoS 0, dropped when the queue is full |
| Pipeline (`ingest/pipeline.go`, `router.go`) | warmup gate and its buffer, caches, batchers, the parts below | HandleMessage, dispatch, completeWarmup, Start, Stop | buffered and live messages overtake each other; the order of Stop |
| Batchers (`batcher.go`) | buffer and timer | Add, flush, Stop | the timer against a size flush and Stop |
| Call life cycle (`handler_calls.go`, `handler_audio.go`, `handler_upload.go`, `calls.go`, `activeCallMap`) | call rows, groups, map of active calls | call_start, call_end, calls_active, audio, file, upload | call_start, call_end, audio, files and uploads describe one call in any order, each in several statements; matching by id or by time |
| Unit events (`handler_units.go`, `affiliations.go`) | deduplication map, affiliation map | insert or drop, sweep, reload | the window against the sweep and restarts |
| Identity (`identity.go`, `systems.go`, `sites.go`) | cache of instance and short name to system and site | Resolve, merge of systems | a cached id of a system that was merged away |
| File watcher (`watcher.go`) | watched directories, debounce timers | Start, backfill, event, Stop | files and directories that appear during the backfill |
| Event bus (`eventbus.go`, `api/events.go`) | subscribers, ring of events | Publish, Subscribe, ReplaySince, stream | order, slow subscribers, reconnection |
| Backfill (`backfill.go`) | queue of jobs, active job, cursor | Submit, Cancel, loop, Status | lost wakeups, a set that changes under the cursor, cancel races |
| Worker pool (`transcribe/worker.go`) | channel, counters, ring of records | Enqueue, workers, Stats, Stop | shutdown against producers |
| Transcription store (`database/transcriptions.go`) | transcription rows, copies on call and group | insert, correct, verdict | concurrent transactions, three copies |
| Word attribution (`transcribe/units.go`) | words, transmissions | AttributeWords | words at a boundary, four thresholds |
| Storage tiers (`storage/`) | local cache, S3, upload queue | Save, Open, upload, prune, reconcile | a file pruned before it is stored elsewhere |
| Live audio (`audio/`, `api/audio_stream.go`) | sources, active streams, subscribers | route, idle sweep, subscribe | which of two sites a talkgroup is heard from |
| Talkgroups, tags and units (`talkgroups.go`, `units.go`, `tag_fixups.go`, `trconfig/filewatch.go`) | names with their source, CSV files | upsert, import, edit, write back | nine writers, one priority |
| Tag suggestions (`unit_tag_suggestions.go`, `unittags/`) | cursor, evidence per unit and name | scan, approve, dismiss | transactions that commit behind the cursor |
| Maintenance (`maintenance.go`, `config_overrides.go`) | partitions, retention settings | create, thin, purge, set | purges beside ingest, missed months |
| Accounts (`auth.go`, `users.go`, `setup.go`, `keys.go`) | users, tokens, keys | setup, update, delete, login, refresh | check and write in two statements; tokens that outlive a role |
| Export and import (`internal/export`) | archive, maps of ids | export, import | an import that ends early and is run again |
| Queries, configuration, providers, tools, pages | | reads, parsing, requests to services | |

What makes each right: a message is handled once and in order; a transmission is one row
that no other transmission writes and that ends; a saved file can be opened; what a user
named stays named so; no accepted transcription job is lost or answered twice; a call's
text, its group's text and its transcriptions agree; a job submitted to the backfill
runs once, in order, over each call once, and stops when told; a client that reconnects
sees what it missed, and hears one recorder at a time; an administrator is left; an
import may be repeated. `PROJECT.json` has the hazards line by line, and every component
with what is modelled of it.

## The modules

An action is what a goroutine or a request does between two things it shares with
others: a critical section, a statement on the database, a call of the file system, a
send on a channel. Inputs are chosen with `\E`; failing statements, restarts and the
like are counted by `faults`, `restarts` or `MaxTroubles`. A variable marked "history"
is read by properties only: it remembers which exception of a property applies.

### What flows through the engine

**Batcher** (`batcher.go`). `Add`, the flush by size, the timer's expiry and the run of
its callback, `Stop` and its wait are one critical section each. A timer that ran out
before its Stop is `late`, a goroutine of its own that may find the next batch. Where a
row is stands in `fate` and `flights`.

**Ingest** extends Batcher with the way of a message: `Receive` (the MQTT client's
callback and its bounded queue), `TakeMessage` (its loop), then `HandleMessage` in steps:
the gate read without the lock, read again with it (`BufferUnlessOpen`), the handler;
`CompleteWarmup` opens the gate and replays the buffer from the goroutine it runs in,
the loop's or the timer's. Process stop is `main.go`'s order. Every message adds a row of
the raw archive to the batcher.

**Storage** (`storage/`). One key, written more than once: versions are numbers, `local`
and `s3` what each tier holds. Save, the uploader's channel and workers, Open with its
caching of what it fetched, `WalkCache`, `AskBeforeRemove`, `RemoveFile` of the pruner,
`Reconciler`, each file operation a step; S3 and the disk may fail.

**Watcher** (`watcher.go`). One JSON file, written in two steps, in a directory that may
be made at any time; `Starting` is the walk that adds directories, `Loop` the fsnotify
loop with `AddDirectory`, `Timer` the debounce, `Backfilling` the walk over old files.

**Tags** (`talkgroups.go`, `units.go`, `tag_fixups.go`, `filewatch.go`, `main.go`). One
name in two systems with its source, and all that writes it: fixup, import, `Poll` of the
CSV file, `Upsert` and `Enrich` by messages, `Patch`, `WriteBack`, archives, `Merge`.

**LiveAudio** (`audio/router.go`, `bus.go`, `api/audio_stream.go`). Packets of two
recorders, the address learned for each (`sourceMap`), the active `stream` with its idle
sweep, and one client with its channel, filter and control channel.

**EventBus** (`eventbus.go`, `api/events.go`). `Publish` is Number, Store and Send, each
under a lock of its own or none; the stream handler is Connect (with ReplaySince),
Subscribe, Receive and Disconnect, where the client's last id is any it has received. One
subscriber stands for all: they share nothing but the ring.

**MCStreams** runs these side by side: a behaviour is that of one component, chosen by
`part` in the initial state; the others do not move. They share no state, so that one run
over their union shows what six runs would. MCStreams extends Ingest, so that what the run
checks of messages is what `Ingest_proofs` proves, and instantiates the others.

### What the database keeps

**Calls** (`handler_calls.go`, `handler_audio.go`, `activeCallMap`). trunk-recorder is the
environment: it sends call_start, call_end and audio, and calls_active at any time. A
message in `inbox` may be handled in any order or never. The MQTT goroutine handles one
message at a time, in a step per statement that another goroutine can come between: the
lookup, the second lookup, the insert. A file is handled beside it. The plans of
`MCCalls` say when and on which talkgroup the transmissions are; times are seconds and
`Window` is the code's 10.

**CallRecord** (`handler_audio.go`, `handler_upload.go`, `handler_calls.go`, `calls.go`)
is one call instead, with what Calls leaves out: every statement that the radio's messages,
a call_end whose call_start was missed (`handleCallStartFromEnd`, the source "end"), an
audio message, a file and an upload make on the row, its group, its lists of units and
frequencies and its audio, with the purges of maintenance in between. Each kind of
statement can fail, with what the handler then does. `bereft` remembers the rows whose group
was purged before they were linked to it. `form` is what an upload's client
sends, whose fields are read, defaulted or refused by `Take`.

**UnitEvents** (`handler_units.go`, `affiliations.go`). Reports of a unit's events by two
sites, of every kind (`EventType`; the run has three); `LoadOrStore` and `Sweep` on the deduplication map, the insert, the affiliation
map, `EvictStale`, and `Restart`, which rebuilds the map from the stored rows.

**Identity** (`identity.go`, `systems.go`, `sites.go`, `handler_systems.go`). `Resolve` by
the cache or by the slow path under its mutex, system and site rows, the merge as a
transaction and the rewriting of the cache after it (`RewriteSystemID`). A merge may also
commit and its answer be lost: the handler takes it for failed, and the cache stays as it
was, which `misled` has.

**Suggestions** (`unit_tag_suggestions.go`, `scanner.go`). Transcriptions get their ids
before they commit; `ScanOnce` reads a batch past the cursor, and counts it in a
transaction of its own; `Fold` is what a merge of systems does with evidence.

**Transcriptions** (`database/transcriptions.go`, `sql/queries/transcriptions.sql`). One
call, its group and its transcription rows, written by transactions at READ COMMITTED.
An update first takes a snapshot (`ClearBegins`), then waits for the rows it found and
looks at those again (`ClearEnds`): that PostgreSQL may leave two rows primary depends on
this. A transaction is its number, which also stands for its text and its created_at.
A call may get its group while transactions run (`LinkGroup`).

**Attribution** (`transcribe/units.go`). A pure algorithm, one action per pass:
`AttributeWords`, `FixBoundaryWords`, `SnapUtterances`, `BuildSegments`.

**Accounts** (`auth.go`, `users.go`, `setup.go`, `keys.go`, `main.go`). Requests read, check
and write in steps of their own, and a login or refresh reads the account (`Login`,
`Refresh`) and signs what it read later (`Issue`), with changes in between; tokens are records with the role they carry and the
time they have left, in ticks. `config` is the configuration a process was started with,
chosen from `Config` in the beginning, with the bounds of the behaviour.

**Maintenance** (`pipeline.go`, `maintenance.go`, `config_overrides.go`, `admin.go`,
`storage.go`). A run creates, thins, purges and drops; `Ask`, `Persist` and `Apply` change
a setting in the database and in the process. Time is in weeks.

**Transfer** (`internal/export`). `Export` writes the archive while the source records on;
the import goes stage by stage through systems, sites, names, calls and transcriptions,
and may fail, be aborted and be run again on a target that records calls itself.

**MCRecords** runs Identity, Suggestions, UnitEvents, Transfer, Transcriptions,
CallRecord, Attribution, Accounts (in three configurations: overlapping requests, tokens
and keys, and a request that overlaps a login or refresh) and Maintenance (twice: settings, and partitions over months) side by side, as
MCStreams does; it extends Accounts.

### Transcription

**Backfill** (`backfill.go`). Its variables are the fields of `BackfillManager` and of the
jobs, the locals of `processJob`, and the store and queue it works on. What happens
under `bm.mu` is one step. `Submit` is SubmitCount, SubmitAppend, SubmitSignal; the loop is
`NothingQueued`, `WakeUp`, `GrabJob`, then per page `QueryPage` and per call `NextCall`,
`QueueRoom`, `EnqueueCall`, `RecordResult`, and `FinishJob`. A call is its place in backfill
order, so the keyset cursor is a number. The environment lets calls arrive and be
transcribed, the queue fill and drain, and the pipeline shut down. `StoreOrdered = FALSE`
lets a page be any matching calls: what must not depend on the order is checked and
proved without it. Its parameters and what they must be are in **BackfillConstants**.

**JobService** and **WorkerPool** (`transcribe/worker.go`). JobService is what the pool
promises: an accepted job is answered once, and the pool is stopped only when none is
left. WorkerPool is the code: `Enqueue` in its two steps, the check of the flag and the
send; the workers, the counters, the ring of performance records; `Stop` in its three.
It implements JobService under the mapping `Service`. Its parameters are in
**PoolConstants**.

**MCTranscribing** runs a pass of the backfill, jobs that queue up behind each other (a
second instance of Backfill, `J`, with `StoreOrdered = FALSE`) and the pool (`P`) side by
side. The pass's properties are Backfill's own; `WakeupsKept`, `JobsStartInOrder` and
`SubmittedJobsEnd` are Backfill's `NoLostWakeup`, `StartsInOrder` and `JobsEnd` of `J`, and
the properties that begin with `Pool` are WorkerPool's of `P`.

## The runs

| run | bounds | what it shows |
|---|---|---|
| transcribing | MCTranscribing: pass, jobs and pool, below | what hands calls to transcription does each of them once, in order, and ends |
| pool_stop | 2 producers, 2 workers, queue of 2 | a producer sends on the closed channel (violation) |
| transcripts_served | 2 transactions | the primary that is served is not the one the call shows (violation) |
| events_gap | 3 events, ring of 2, channel of 1 | a reconnecting client misses an event (violation) |
| calls | 2 transmissions, 2 plans (one with a file, one with a restart) | every order and loss of their messages, calls_active from any moment |
| calls_back_to_back | 2 calls 6 s apart | two calls share a row (violation) |
| calls_instances | 2 instances, a call each | the calls_active of one ends the other's call (violation) |
| streams | MCStreams, all parts, below | what flows is neither lost nor doubled nor swapped, but for the reasons the properties name |
| records | MCRecords, all parts, below | what is stored agrees, through concurrent writers, failures and restarts |
| raw_kept | MCRecords, its partitions | raw messages are not dropped after their retention (violation) |
| import_window | MCRecords, its import | a call is given up for another eight seconds away (violation) |
| groups_shared | MCRecords, its call, no statement fails of itself | a purge leaves calls without a group (violation) |

| part | bounds | why they are enough |
|---|---|---|
| pass | 3 calls, pages of 2, 1 job, queue of 2; the second call arrives late | a pass takes two pages; the call arrives before and after the cursor; Cancel or shutdown falls between any two steps, also while the queue is full |
| jobs | 1 handler, 2 jobs, 1 call there at the start, pages of 1, queue of 2, 1 live enqueue, any store order | a job waits behind another and is cancelled in the queue; every submitted job ends, even when the store returns the same call again |
| pool | 2 producers, 2 workers, queue of 2, ring of 2, 4 jobs | the queue and the ring overflow; Stop meets jobs in every state |
| messages | 4 messages of 3 kinds, queue of 2, batches of 2 | the queue overflows; two messages are buffered when the gate opens while another comes; a second batch meets the first one's timer |
| storage | 2 versions, 2 workers, queue of 1, 1 fault, 1 restart | every tier holds an older version than another; the queue is full |
| watcher | 1 file, 1 fault, 1 stop | the file comes before, during and after each stage of the start |
| tags | 2 systems, 2 file versions; 2 of edits, archives, faults, restarts together | each pair of writers in both orders, and the merge |
| audio | 2 recorders, 3 packets, time to 2, idle after 1, channels of 1 and 2 | one takes over from the other and gives it back; channels overflow |
| events | 2 publishers, 3 events, ring of 2, channel of 1, 2 connections | ring and channel overflow; the client reconnects from any event |
| identity | 2 keys of one network, 3 systems, 1 trouble, 1 admin merge | a merge with a message under way and a second system for the key |
| suggestions | 2 calls, 2 systems, 2 scanners, 3 transcriptions, batches of 2 | a transaction commits behind either scanner's cursor; the cap of evidence is not reached (what holds past it is proved) |
| units | 2 events, 3 kinds, 2 talkgroups, window of 2, 4 ticks, a restart or a fault | the second report comes within the window, at its end and past it, before and after the sweep |
| texts | 3 transactions; auto, human, llm; verified, empty | each pair of kinds overlaps, with a third before or after; rollbacks anywhere |
| transfer | 2 calls of a P25 system, 1 conventional, 1 recorded live, 2 imports, 1 fault | two calls are 8 s apart, between the 5 of the docs and the code's 10; a call is within the window of two others; the second import meets all the first left |
| call | 2 of the 5 sources at a time, 2 rows, 2 tries, 1 fault | each pair of handlers, statement by statement, a failure or a purge between any two |
| words | 3 words, 3 transmissions, or none, times of 50 ms | each threshold is met on both sides |
| accounts | 2 accounts; 2 requests; or 1 with 1 token, 1 key, lives of 1 and 2; or 1 beside a login or refresh | any two requests overlap; the token, the refresh token and the change of an account in each order, and a change between the reading and the signing |
| settings | 2 requests, 1 fault, restarts | both orders of two changes, with a failure in either |
| partitions | 5 weeks as months, 1 fault | a month without a run, and the month three later |

Why two or three suffice: the code compares a pair of things at a time (two writers of a
row, a publisher and a subscriber, the job taken and the one behind it), and its limits
(page, queue, ring, channel) enter only as full or not full, so a bound that is reached
and passed shows what a larger one would. Deadlock is not checked: every model stops
when its bounded inputs are used up.

Properties of the composed runs are named after what they promise and are conjunctions
of the component's invariants with its type invariant (`SystemsAgree` is `CacheAgrees` and
`RowsFollowTheirSite` of Identity; `HandledInOrder` is in Ingest, `AccountsAgree` and
`TokensCatchUp` are in Accounts). FilesAreIngested and CsvReachesRows are the safety they
rest on (`FileInHand`, `ImportedIsThere`) together with the liveness. Where the code keeps a promise only outside certain
events, the property says which: `excused` in Accounts, `misled` in Identity, `unsure` in
Maintenance, `blind` in Transfer, `ungrouped`, `bereft` and `unsaved` in CallRecord name what
has to have happened. What is excepted there is what the code does in those cases, and no
property here is against it: two requests that overlap and leave no administrator
(`excused`), a setting that the database has and the process has not (`unsure`), and the
retry of an upload, which is answered "duplicate" while its audio is lost (UploadsAreStored
is about clients that were told "created").

**Fairness.** Goroutines are scheduled: weak fairness of the loop, of each worker, of a
producer or stopper in the middle of its call, of the watcher's goroutines, of the
dispatch loop, the gate's timer and the batcher's. Tickers tick: the reconciler and the
CSV poll are weakly fair. Every transcription has a timeout, so the queue drains. A
transaction whose next statement is not blocked goes on; none is ended by a timeout in
the model: TextsAgree has that none wait for each other in a circle, TransactionsEnd that
each comes to its end. trunk-recorder
repeats calls_active every second: strong fairness of handling one, and none of handling
call_start, call_end or audio, which may be lost. No run assumes that a client submits,
cancels, edits or connects, that a message arrives, or that the process restarts.

## What the violation runs found

Eight disagreements between the code and what it, its comments or its documentation say;
`findings` in `PROJECT.json` quotes them. Two calls of one talkgroup that start within ten
seconds share a row; calls_active of one instance ends the calls of the others; Enqueue
can panic during shutdown; a call's text may not be that of the transcription served as
primary; a reconnecting client can miss an event; weekly partitions of raw messages are
never dropped, since the bound that is parsed carries a time; an import takes calls up to
ten seconds apart for the same where its comment and design document say five
(`import.go:534`), so that of two archived calls eight seconds apart one is given up; a
group of calls that is purged between its creation and the link of its call leaves that
call without a group, since the foreign key's error is only logged or dropped
(`calls.sql:130`, `handler_calls.go:207`, `handler_audio.go:206`), where the API's
documentation says that recordings of one transmission share one.

CallsImportedOnce and CallsAreGrouped are what holds beside the last two: no call is there
twice, and none is given up but for one within the ten seconds; no call refers to a group
that is gone or is another start's, whatever is purged.

Seen while modelling and not turned into runs; the modules have the behaviour:

- Calls and call rows: a call_start handled after its call_end puts the ended call back
  into the map (`handler_calls.go:167`); `UpdateCallElapsed` writes a live call's duration
  once (`sql/queries/calls.sql:57`); an upload refused because only call_start's row is
  there loses its audio (`handler_upload.go:75`), also when the client tries again after
  the insert; an audio message after call_end doubles the rows of frequencies and
  transmissions; a report with frequencies only sets src_list to NULL, and the list made
  of events then overwrites the frequencies; a failed lookup counts as "not found" and
  makes a second row; a form whose time cannot be read is stored at 1970, and the next
  such one is a duplicate of it; `PurgeStaleCalls` is one DELETE that a row of a table
  without CASCADE stops (`schema.sql:387`); a purged primary hides the rest of its group
  from the deduplicated list (`queries_calls.go:90`).
- Transcriptions: the source `llm`, which `openapi.yaml:5232` lists, fails the CHECK on
  `calls.transcription_status`; a worker's verdict `empty` overwrites a user's `verified`
  (`worker.go:392`); a call can be queued twice (`worker.go:317`). The backfill calls
  `cancel()` before it tests `jobCtx.Err()` (`backfill.go:246`), so that every job is
  logged as cancelled. A word goes by its start, where the comment says its midpoint
  (`units.go:89`), and text before the first word that is found is left out.
- Import: of conventional systems talkgroups, units and
  transcriptions are not imported; one with two sites becomes two systems; a second
  import adds each transcription again, which
  `docs/plans/2026-03-02-export-import-design.md:312` rules out; audio cut short is kept.
- Accounts: disabling the last administrator is not refused (`openapi.yaml:598` says it
  is); two requests can together remove the last; `CreateFirstUser` is not atomic at READ
  COMMITTED as its comment says; a key keeps its role when its owner loses it.
- Maintenance: setting a retention is two writes, not one
  (`docs/superpowers/specs/2026-05-05-storage-management-design.md:189`); after it the
  setting's source still reads "default"; negative durations are accepted.
- Storage: a second save under the same key can leave the older version in S3; the
  pruner removes a directory between MkdirAll and CreateTemp of a save; the reconciler
  looks back 24 hours only (`reconciler.go:79`); the uploader can send on a closed channel.
- Live audio: the encoder keeps the first chunk's sample rate after a takeover; packets of
  `sendTGID` are always dropped; a client's own numbering hides frames that were dropped.
- Watcher: a directory that appears while the backfill works is only registered
  (`watcher.go:182`); the end of the backfill sets "watching" after Stop set "stopped".

## The proofs

`Backfill_proofs` proves the backfill's type invariant and every safety property of the
parts pass and jobs, for any set of calls, number of handlers and jobs, page and queue size.
None of these is inductive. `IInv` adds what the loop's place says about its locals
(`LoopInv`), that queued jobs are distinct, increasing, newer than every job that has
run and have handed out nothing (`QueueInv`), that the page lies behind the cursor and
the calls handed out do not (`CursorInv`), and what has been visited of the calls that
were there all along (`PassInv`). A lemma per part shows that every step keeps it.
WakeupNeverLost covers what the run leaves out, two handlers whose submissions share a
token. For AtMostOncePerJob the guard in NextCall, not the order of the store, is what is
needed; only PassIsComplete assumes StoreOrdered.

`WorkerPool_proofs` proves all of the pool's safety, for any producers, at least one
worker, any capacities and number of jobs, and that it implements JobService. Its `IInv`
says how the flags follow Stop and that a worker leaves only a closed, empty channel
(`StageInv`), that a producer's job is new and its own (`TicketInv`), that every accepted
job is in one place only (`PlaceInv`), and where in the buffer each of the latest
completions is, without the modulus (`RingInv`). `StoppedIsEmpty` is where the assumption
of a worker is needed: with none, Stop would return over a queue. A refinement step is
then: the send is Accept or Crash, Count is Answer, closing the channel is Drain, the end
of the wait is Stopped, everything else stutters.

`Ingest_proofs` proves the safety of Batcher and Ingest, for any messages, kinds, order
of sending, batch size and capacity of the queue; `IngestAssumption` says only that each
message has a row. For the batcher `RowsConserved`, `RowsDoNotWait` and the types are
inductive together. The message path is a behaviour of BatcherSpec (`IngestUsesBatcher`),
which carries the result over (`ArchiveKeepsRows`). For the gate `IInv` adds what either
goroutine can hold while the gate is closed (`GateInv`: the timer nothing, the loop one
message), that what is on its way is in the order of sending, first what the timer
replays or the buffer has, then the loop's, then the queue (`OrderInv`), that a message is
in one place and only sent ones are anywhere (`OnceInv`), and that a call handled comes
before those the loop still has (`CallsInv`). OrderInv is why a message a goroutine is
done with is nowhere else, on which both HandledOnce and OrderKept rest.

`Accounts_proofs` proves the safety of Accounts, for any roles in use, requests, updates,
accounts and configurations, so that one theorem is about overlapping requests, tokens,
keys and any lives of tokens at once. `CheckedInv` says what a request about to
write has found out: unless it is stale, its target is no administrator or there is
another one. `TokenInv` says that a token which no longer tells the truth has at most as
much of its life left as has not passed since its account was changed, and `SignInv` that
what is about to be signed is so, or the account was changed within the tick.
`AccountsAssumption` gives tokens, where there are any, an hour at least.

`Calls_proofs` proves the safety of the run calls, for any transmissions, any losses and
order of their messages and any restarts. Two assumptions are about the plan of a
behaviour: transmissions of a talkgroup are further apart than the tolerance of the
lookups (`Apart`; what happens without it is the run calls_back_to_back), and a start is
corrected by no more than the tolerance (`Corrected`, for SecondRowRaced and FullEndKept).
`OwnInv` says that each row and each entry of the active map is one transmission's, id,
talkgroup and start included, which is what the three lookups compare. `RaceInv` adds
that a handler about to insert saw no row of its transmission when it looked
(`InsertsUnseen`), and that an entry of the map leads to a row without a full end, but for
late call_starts (`ActiveNotFull`).

`Records_proofs` and `Recordings_proofs` are about the parts of MCRecords, one inductive
invariant each. The assumptions, named in MCRecords, say what the constants are: numbers,
statuses the code knows, at least one site.

- Transcriptions (`TextsInv`): a transaction has cleared what it saw and is still
  primary from its first update on; before a failure the group holds what the call holds.
  A transaction that waits holds locks of earlier statements only (cleared rows, then the
  call, then the group), so whoever has come furthest of those that wait waits for none
  of them (`NobodyWaits`), for any number of transactions: there is no deadlock.
- Maintenance (`SettingsInv`, `PartitionsInv`): outside the doubtful cases one request is
  under way, and between its two writes the database is one value ahead; a month with
  a working run has a partition three months on.
- Identity (`IdentityInv`): what a lookup said stays so while `r.mu` is held (`LookupInv`);
  between the commit of a merge and the rewrite of the cache no site outside doubt is
  under the system that went (`SourceInv`). This is where CacheAgrees is not inductive.
- Unit events (`UnitsInv`): accepted events of one kind in one run are more than the
  window apart, since each has an entry at least as young or is older than the window
  (`AcceptedInv`, `DedupInv`); the row of a join that nothing took back is in the map or
  in a worker's hands (`OrderInv`, `MapInv`).
- Call rows (`CallInv`): what a handler knows of its row and of its group while other
  handlers, failures and purges go on (`KeyInv`, `GroupInv`); of a handler
  whose group is gone the row is bereft, purged, or linked already (`LostInv`); a reported list stays
  (`ListInv`); an upload past its audio has it at its row (`StoredInv`).
- Import (`TransferInv`): what is done of an import without failures is in the target,
  and the call in hand is not until it is inserted, unless its lookup failed.
- Tag suggestions (`SuggestionsInv`): the cursor passed only what was scanned, did not
  come about, or was waited for in vain; a batch in hand holds all there was up to its
  last id (`Passed`). ScannerSkipsNone needs nothing else. The code keeps the newest ten
  calls as evidence, and another transcription of one that was pushed out counts again.
  EvidenceAlwaysExact is for every `EvidenceCap`: a suggestion never counts less than was
  heard, and exactly that while its count is no greater than the cap, through the merge
  of two suggestions too, because what was kept until then is all there was.
- Word attribution (`WordsInv`): what each pass may have done to a word. That the
  segments are the text needs that positions ascend, that the starts of segments are
  numbered in order, and that a sequence cut at ascending places is put together again.

`Streams_proofs` does the same for five parts of MCStreams, under `StreamsAssumption`:

- Files in two tiers (`StorageInv`): what is about to be written is a version, what is
  about to be pruned is in S3.
- Streams of voice (`AudioInv`): a frame on its way is still its stream's, or older than
  the timeout.
- Events (`EventsInv`): the ring is the end of the log, without the modulus; what a replay
  lacks was overwritten or is in a publisher's hands.
- Names (`TagsInv`): once the fixup is done, a name is the user's exactly if there is an
  edit. Of the CSV file (`VersionsInv`, `CsvInv`): a version in the import's hands is later
  than the one imported, and what was read of the present version is its name, so that a
  version which counts as imported has passed the directory and the rows. That the file
  may be saved between the poll and its load is why: the stamp of the poll is recorded,
  and the later one is seen again.
- Watcher (`WatcherInv`): the directory is in somebody's hands until it is watched, and
  from then on a file in it is in the hands of an event, of the walk that follows the
  registration, of the backfill or of a timer. FilesStayInHand is not inductive without
  where Start and the backfill are.

Only checked is liveness: SubmittedJobsEnd, PoolStopReturns, MessagesHandled, ReachesS3,
FilesAreIngested, CsvReachesRows, TransactionsEnd, CallsDoNotHang. The prover does no
ENABLED, so nothing that rests on fairness. The safety each of them rests on is proved:
that no wakeup is lost and a cancelled job hands out no further call (WakeupNeverLost,
CancelIsPrompt), that the pool's queue is empty when Stop is done (ImplementsJobService),
that no message is stranded behind the gate (NoneStranded), that a file missing in S3 is
on the disk (SavedAlwaysStays), that a file is in hand (FilesStayInHand), that what counts
as imported is there (ImportedAlwaysThere), that nobody waits in a circle
(TextsAlwaysAgree), and that live calls lead to their rows (LiveCallsAlwaysOwn).

What a recursive definition computes for every input (the folds of evidence, the search
for words) is proved through its unfolding and least counterexamples, not by induction
over data, which the prover does not do.

## Not modelled

- Transcription providers (`whisper.go`, `deepinfra.go`, `elevenlabs.go`, `imbe.go`): one
  request, one answer or error, which WorkerPool has as an outcome.
- Query and report endpoints, statistics, pages: reads. What other parts depend on in
  them (the list of untranscribed calls, the replay of events) is in their modules.
- The handlers for recorders, rates, status, config, console and trunking messages: each
  writes rows or a cached value without a condition on earlier ones.
- The jitter buffer and the encoder of live audio; the text patterns by which a name is
  found in a transcription; the parsing of trunk-recorder's and the engine's
  configuration: functions of text or samples without state that others share.
- Of call rows: how elapsed times grow, and the expiry of map entries older than an hour
  (`runMaintenance`). Of talkgroups: cached statistics. Of accounts: the rate limiter.
- Migrations, generated queries, metrics, debug tools.

## What is open

Every safety property the passing runs check is proved, for all values of the constants
that the assumptions named above allow. Worth doing next:

- Abstract specifications for Storage and EventBus (a recording that can be opened; an
  ordered log with marked gaps), refined as JobService is by WorkerPool.
- UnitEvents without `blurred`: which pairs of concurrent reports keep a restart right.
- A count of a suggestion past `EvidenceCap`: how far above the transmissions heard it
  can get depends on how often a forgotten call is transcribed again.
- The parts that are not modelled, should they come to share state: the handlers for
  recorders and trunking messages, and the patterns by which a name is found.
