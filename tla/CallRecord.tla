----------------------------- MODULE CallRecord -----------------------------
(***************************************************************************)
(* The rows of one call, statement by statement                            *)
(* (internal/ingest/handler_audio.go, handler_upload.go, handler_calls.go, *)
(* internal/database/calls.go): the call comes by the radio's messages, or *)
(* its end alone, by an audio message, as a file in the watched directory  *)
(* and as an upload whose client tries again; each looks for a row,        *)
(* inserts one, gives it a group, and writes its audio and its lists of    *)
(* units and frequencies, while maintenance purges stale calls and groups  *)
(* without calls.                                                          *)
(*                                                                         *)
(* Every step is one statement on the database.  One that fails is only    *)
(* logged, unless it looks up the system or inserts the call.  Module      *)
(* Calls has what is left out here: the list of live calls, and other      *)
(* calls of the talkgroup.                                                 *)
(***************************************************************************)
EXTENDS Naturals, Sequences, FiniteSets

CONSTANTS
  TrAudioDir,   \* TR_AUDIO_DIR is set: audio stays on trunk-recorder's disk
  Brings,       \* the lists in the metadata of an audio message and of a file
  Forms,        \* what clients upload: of each field's name, "good" or "bad"
  Sources, MaxRows, MaxFaults, MaxTries   \* Sources: by how many the call comes

Source == {"radio", "end", "audio", "file", "upload"}
Id == 1 .. MaxRows
Unread == 0                        \* the time of a form whose time cannot be read
StartOf == [radio |-> 1, end |-> 1, audio |-> 2, file |-> 2, upload |-> 2]
Time == {Unread, 1, 2}             \* 1 and 2 are within ten seconds
Month(t) == IF t = Unread THEN "1970" ELSE "now"

VARIABLES
  row,          \* the rows of calls
  group,        \* call_groups: the group of each start time
  groups,       \* how many groups there have ever been
  tables,       \* the calls that rows of call_frequencies and call_transmissions refer to
  partitions,   \* months whose partition exists
  at,           \* where each source's handler is
  form,         \* what the upload's client sends
  answer,       \* what it was told last
  tries,        \* how often it has sent
  old,          \* the call is older than RETENTION_STALE_CALLS
  reported,     \* history: rows whose last report had a list of units
  ungrouped,    \* history: rows which a statement that failed kept from a group
  bereft,       \* history: rows whose group was purged before they were linked to it
  unsaved,      \* history: rows whose uploaded audio failed to be saved
  faults

history == <<reported, ungrouped, bereft, unsaved>>
client == <<form, answer, tries>>
vars == <<row, group, groups, tables, partitions, at, client, old, history, faults>>

Step == {"idle", "look", "again", "insert", "fields", "group", "link", "primary", "air", "events",
         "ifnull", "synthesized", "save", "audio", "filename", "lists", "rows", "end", "done"}
Column == {"null", "synthesized", "real"}
NoRow == [is |-> "none", start |-> Unread, recording |-> FALSE, ended |-> FALSE,
          audio |-> FALSE, file |-> FALSE, src |-> "null", freq |-> "null", group |-> 0]
NoGroup == [id |-> 0, primary |-> 0]

TypeOK ==
  /\ row \in [Id -> [is : {"none", "there", "purged"}, start : Time, recording : BOOLEAN,
                     ended : BOOLEAN, audio : BOOLEAN, file : BOOLEAN,
                     src : Column, freq : Column,
                     group : 0 .. groups]]
  /\ group \in [Time -> [id : 0 .. groups, primary : 0 .. MaxRows]]
  /\ tables \subseteq Id
  /\ partitions \subseteq {"1970", "now"}
  /\ at \in [Source -> [pc : Step, row : 0 .. MaxRows, start : Time, group : 0 .. groups,
                        lists : SUBSET {"src", "freq"}, retried : BOOLEAN, gone : BOOLEAN]]
  /\ form \in Forms /\ answer \in {"none", "created", "duplicate", "error", "bad"}
  /\ tries \in 0 .. MaxTries /\ faults \in 0 .. MaxFaults /\ old \in BOOLEAN
  /\ {reported, ungrouped, bereft, unsaved} \subseteq SUBSET Id

Init ==
  /\ row = [r \in Id |-> NoRow]
  /\ group = [t \in Time |-> NoGroup] /\ groups = 0 /\ tables = {}
  /\ partitions \in {{"now"}, {}}
  /\ \E comes \in SUBSET Source :
       /\ Cardinality(comes) = Sources /\ ~({"radio", "end"} \subseteq comes)
       /\ at = [s \in Source |->
                  [pc |-> CASE s \notin comes -> "done"
                            [] s \in comes /\ s = "upload" -> "idle"
                            [] OTHER -> "look",
                   row |-> 0, start |-> StartOf[s], group |-> 0,
                   lists |-> IF s \in {"audio", "file"} THEN Brings[s] ELSE {},
                   retried |-> FALSE, gone |-> FALSE]]
  /\ form \in Forms /\ answer = "none" /\ tries = 0 /\ old = FALSE
  /\ reported = {} /\ ungrouped = {} /\ bereft = {} /\ unsaved = {} /\ faults = 0

-----------------------------------------------------------------------------
(* The steps of a handler.                                                 *)

At(s, pc) == at[s].pc = pc
Goto(s, pc) == at' = [at EXCEPT ![s].pc = pc]
Works(s) == ~at[s].gone /\ UNCHANGED faults

\* A statement fails, or the context of the upload's request is over.
Fails(s) ==
  \/ at[s].gone /\ UNCHANGED faults
  \/ ~at[s].gone /\ faults < MaxFaults /\ faults' = faults + 1

\* The row of the talkgroup within ten seconds that is nearest in time.
Far(a, b) == IF a > b THEN a - b ELSE b - a
FindCallForAudio(t) ==
  LET near == {r \in Id : row[r].is = "there" /\ Month(row[r].start) = Month(t)}
  IN {r \in near : \A q \in near : Far(row[r].start, t) <= Far(row[q].start, t)}

\* UPDATE ... WHERE call_id = $1 AND start_time = $2: a row that is not there is no error.
Hits(s) ==
  at[s].row \in {r \in Id : row[r].is = "there" /\ row[r].start = at[s].start}
Update(s, new) == row' = IF Hits(s) THEN [row EXCEPT ![at[s].row] = new] ELSE row
This(s) == row[at[s].row]

\* What follows when the source has its row: an existing one, or its own.
Existing(s) == CASE s = "radio" -> "fields"
                 [] s = "end" -> "air"
                 [] s = "audio" -> IF TrAudioDir THEN "lists" ELSE "save"
                 [] s = "file" -> "filename"
                 [] s = "upload" -> "save"
Grouped(s) == CASE s = "radio" -> "air"
                [] s = "end" -> "events"
                [] OTHER -> Existing(s)

\* A slip: the row, with the start of the message.
TakeAsSent(s, r) == at' = [at EXCEPT ![s].row = r, ![s].pc = Existing(s)]

\* The row, and the start it has there: half of the key the later updates use.
Take(s, r) == at' = [at EXCEPT ![s].row = r, ![s].start = row[r].start, ![s].pc = Existing(s)]

\* Only an upload is answered.  An audio message and a file end with an error logged.
End(s, told) ==
  /\ at' = [at EXCEPT ![s].pc = "done"]
  /\ answer' = IF s = "upload" /\ ~at[s].gone THEN told ELSE answer

\* Resolve, and FindCallForAudio: an error of the second counts as no row.
Look(s) ==
  /\ At(s, "look")
  /\ \/ Fails(s) /\ End(s, "error")
     \/ /\ \/ Works(s) /\ FindCallForAudio(at[s].start) = {}
           \/ Fails(s)
        /\ Goto(s, IF s = "radio" THEN "insert" ELSE "again") /\ UNCHANGED answer
     \/ /\ Works(s)
        /\ \E r \in FindCallForAudio(at[s].start) :
             CASE s = "file" -> End(s, "none")
               [] s = "upload" -> End(s, "duplicate")
               [] OTHER -> Take(s, r) /\ UNCHANGED answer
  /\ UNCHANGED <<row, group, groups, tables, partitions, form, tries, old, history>>

\* createCallFromAudio and handleCallStartFromEnd look once more before they insert.
Again(s) ==
  /\ At(s, "again")
  /\ \/ Works(s) /\ \E r \in FindCallForAudio(at[s].start) : Take(s, r)
     \/ Works(s) /\ FindCallForAudio(at[s].start) = {} /\ Goto(s, "insert")
     \/ Fails(s) /\ Goto(s, "insert")
  /\ UNCHANGED <<row, group, groups, tables, partitions, client, old, history>>

\* The row of a call: the radio's is being recorded, the others' is over.
NewRow(s) ==
  [NoRow EXCEPT !.is = "there", !.start = at[s].start, !.recording = (s = "radio"),
                !.ended = (s # "radio")]

Insert(s) ==
  /\ At(s, "insert") /\ Works(s)
  /\ Month(at[s].start) \in partitions
  /\ \E r \in Id :
       /\ row[r].is = "none" /\ \A q \in 1 .. r - 1 : row[q].is # "none"
       /\ row' = [row EXCEPT ![r] = NewRow(s)]
       /\ at' = [at EXCEPT ![s].row = r, ![s].pc = "group"]
  /\ UNCHANGED <<group, groups, tables, partitions, client, old, history>>

\* "no partition": ensurePartitionsFor creates it, and a file, an upload or a message of
\* the radio tries once more.
EnsurePartitionsFor(s) ==
  /\ At(s, "insert") /\ Works(s)
  /\ Month(at[s].start) \notin partitions /\ s # "audio" /\ ~at[s].retried
  /\ partitions' = partitions \cup {Month(at[s].start)}
  /\ at' = [at EXCEPT ![s].retried = TRUE, ![s].pc = IF s \in {"radio", "end"} THEN "insert" ELSE "again"]
  /\ UNCHANGED <<row, group, groups, tables, client, old, history>>

InsertFails(s) ==
  /\ At(s, "insert")
  /\ \/ Fails(s)
     \/ /\ Works(s) /\ Month(at[s].start) \notin partitions
        /\ s = "audio" \/ at[s].retried
  /\ End(s, "error")
  /\ UNCHANGED <<row, group, groups, tables, partitions, form, tries, old, history>>

-----------------------------------------------------------------------------
(* The group of a call.                                                    *)

\* A slip: ON CONFLICT DO NOTHING, which returns no id for a group that is there.
UpsertOrNothing(s) ==
  /\ At(s, "group") /\ Works(s)
  /\ LET t == at[s].start
     IN IF group[t].id # 0
        THEN Goto(s, Grouped(s)) /\ UNCHANGED <<group, groups>>
        ELSE /\ groups' = groups + 1
             /\ group' = [group EXCEPT ![t] = [id |-> groups + 1, primary |-> 0]]
             /\ at' = [at EXCEPT ![s].group = groups + 1, ![s].pc = "link"]
  /\ UNCHANGED <<row, tables, partitions, client, old, history>>

\* UpsertCallGroup: by the start time, which is unique.
UpsertCallGroup(s) ==
  /\ At(s, "group") /\ Works(s)
  /\ LET t == at[s].start
     IN IF group[t].id # 0
        THEN /\ at' = [at EXCEPT ![s].group = group[t].id, ![s].pc = "link"]
             /\ UNCHANGED <<group, groups>>
        ELSE /\ groups' = groups + 1
             /\ group' = [group EXCEPT ![t] = [id |-> groups + 1, primary |-> 0]]
             /\ at' = [at EXCEPT ![s].group = groups + 1, ![s].pc = "link"]
  /\ UNCHANGED <<row, tables, partitions, client, old, history>>

GroupFails(s) ==
  /\ At(s, "group") /\ Fails(s)
  /\ Goto(s, Grouped(s)) /\ ungrouped' = ungrouped \cup {at[s].row}
  /\ UNCHANGED <<row, group, groups, tables, partitions, client, old, reported, bereft, unsaved>>

\* SetCallGroupID refers to the group: it fails if maintenance has purged it.
GroupThere(s) == \E t \in Time : group[t].id = at[s].group

SetCallGroupID(s) ==
  /\ At(s, "link") /\ Goto(s, "primary")
  /\ \/ /\ Works(s) /\ GroupThere(s)
        /\ Update(s, [This(s) EXCEPT !.group = at[s].group])
        /\ ungrouped' = ungrouped \ {at[s].row} /\ bereft' = bereft \ {at[s].row}
     \/ Works(s) /\ ~GroupThere(s) /\ UNCHANGED <<row, ungrouped, bereft>>
     \/ Fails(s) /\ ungrouped' = ungrouped \cup {at[s].row} /\ UNCHANGED <<row, bereft>>
  /\ UNCHANGED <<group, groups, tables, partitions, client, old, reported, unsaved>>

\* SetCallGroupPrimary: a group's first call stays its primary.
SetCallGroupPrimary(s) ==
  /\ At(s, "primary") /\ Goto(s, Grouped(s))
  /\ \/ /\ Works(s)
        /\ group' = [t \in Time |->
                       IF group[t].id = at[s].group /\ group[t].primary = 0
                       THEN [group[t] EXCEPT !.primary = at[s].row] ELSE group[t]]
     \/ Fails(s) /\ UNCHANGED group
  /\ UNCHANGED <<row, groups, tables, partitions, client, old, history>>

-----------------------------------------------------------------------------
(* The radio's messages after the start.                                   *)

\* handleCallStart on a row that is there: UpdateCallStartFields, which says
\* that the call is being recorded.
UpdateCallStartFields(s) ==
  /\ At(s, "fields") /\ Goto(s, "group")
  /\ \/ /\ Works(s)
        /\ \E recording \in BOOLEAN : Update(s, [This(s) EXCEPT !.recording = recording])
     \/ Fails(s) /\ UNCHANGED row
  /\ UNCHANGED <<group, groups, tables, partitions, client, old, history>>

\* calls_active has the call: UpdateCallElapsed, once.
UpdateCallElapsed(s) ==
  /\ s = "radio" /\ At(s, "air") /\ Hits(s) /\ ~This(s).ended
  /\ row' = [row EXCEPT ![at[s].row].ended = TRUE]
  /\ UNCHANGED <<group, groups, tables, partitions, at, client, old, history, faults>>

\* call_end, which may name a file, or calls_active without the call, which names
\* none.  When the update fails the first returns, and its call, if it has been on air,
\* stays so; the second goes on.
UpdateCallEnd(s) ==
  /\ At(s, "air")
  /\ \/ /\ Works(s) /\ Goto(s, "events")
        /\ \E file \in BOOLEAN :
             Update(s, [This(s) EXCEPT !.recording = FALSE, !.ended = TRUE, !.file = file])
     \/ Fails(s) /\ UNCHANGED row /\ IF s = "end" THEN Goto(s, "done") ELSE UNCHANGED at
     \/ s = "radio" /\ Fails(s) /\ UNCHANGED row /\ Goto(s, "events")
  /\ UNCHANGED <<group, groups, tables, partitions, client, old, history>>

\* synthesizeSrcList: the events of units during the call, if there are any.
GetUnitEventsForCall(s) ==
  /\ At(s, "events")
  /\ \/ Works(s) /\ (Goto(s, "ifnull") \/ Goto(s, "done"))
     \/ Fails(s) /\ Goto(s, "done")
  /\ UNCHANGED <<row, group, groups, tables, partitions, client, old, history>>

\* A slip: for a row without any list.
Bare(s) == Hits(s) /\ This(s).freq = "null"

\* Synthesized lists are for a row without a list of units.
Unlisted(s) == Hits(s) /\ This(s).src = "null"

UpdateCallSrcFreqIfNull(s) ==
  /\ At(s, "ifnull")
  /\ \/ /\ Works(s) /\ Unlisted(s) /\ Goto(s, "synthesized")
        /\ \E freq \in {"null", "synthesized"} :
             Update(s, [This(s) EXCEPT !.src = "synthesized", !.freq = freq])
     \/ /\ \/ Works(s) /\ ~Unlisted(s)
           \/ Fails(s)
        /\ Goto(s, "done") /\ UNCHANGED row
  /\ UNCHANGED <<group, groups, tables, partitions, client, old, history>>

\* The rows of the two tables refer to the call's row, each table in a statement.
InsertRows(s, pc, next) ==
  /\ At(s, pc) /\ Goto(s, next)
  /\ \/ Works(s) /\ tables' = IF Hits(s) THEN tables \cup {at[s].row} ELSE tables
     \/ Fails(s) /\ UNCHANGED tables
  /\ UNCHANGED <<row, group, groups, partitions, client, old, history>>

-----------------------------------------------------------------------------
(* The audio and the lists of a report.                                    *)

\* A form's format is told by the fields it has.
DetectUploadFormat(f) ==
  IF DOMAIN f \cap {"audio", "audioName", "systemLabel"} # {} THEN "rdio-scanner"
  ELSE IF DOMAIN f \cap {"call", "talkgroup_num"} # {} THEN "openmhz"
  ELSE "none"

\* The first of a field's names that the form has.
FirstNonEmpty(f, names) ==
  LET given == SelectSeq(names, LAMBDA n : n \in DOMAIN f)
  IN IF given = <<>> THEN "missing" ELSE f[given[1]]

Parsed(f, tg, time, units, freqs) ==
  [ok |-> FirstNonEmpty(f, tg) = "good",
   start |-> IF FirstNonEmpty(f, time) = "good" THEN StartOf.upload ELSE Unread,
   lists |-> {l \in {"src", "freq"} :
                FirstNonEmpty(f, IF l = "src" THEN units ELSE freqs) = "good"}]

ParseRdioScannerFields(f) ==
  Parsed(f, <<"talkgroup">>, <<"dateTime">>, <<"sources", "source_list">>,
         <<"frequencies", "freq_list">>)

ParseOpenMHzFields(f) ==
  Parsed(f, <<"talkgroup_num">>, <<"start_time">>, <<"source_list">>, <<"freq_list">>)

Parse(f) == IF DetectUploadFormat(f) = "openmhz" THEN ParseOpenMHzFields(f)
            ELSE ParseRdioScannerFields(f)
HasAudio(f) == (IF DetectUploadFormat(f) = "openmhz" THEN "call" ELSE "audio") \in DOMAIN f

\* A client sends its call, and once more when it was told of an error or hung up.
Upload ==
  /\ tries < MaxTries /\ tries' = tries + 1
  /\ LET up == at["upload"]
         p == Parse(form)
     IN /\ up.pc = "idle" \/ (up.pc = "done" /\ tries > 0 /\ (up.gone \/ answer = "error"))
        /\ answer' = IF DetectUploadFormat(form) = "none" THEN "bad"
                     ELSE IF ~p.ok THEN "error" ELSE "none"
        /\ at' = [at EXCEPT !["upload"] =
                    [pc |-> IF answer' = "none" THEN "look" ELSE "done", row |-> 0, group |-> 0,
                     start |-> p.start, lists |-> p.lists, retried |-> FALSE, gone |-> FALSE]]
  /\ UNCHANGED <<row, group, groups, tables, partitions, form, old, history, faults>>

ClientLeaves ==
  /\ at["upload"].pc \notin {"idle", "done"} /\ ~at["upload"].gone
  /\ faults < MaxFaults /\ faults' = faults + 1
  /\ at' = [at EXCEPT !["upload"].gone = TRUE]
  /\ UNCHANGED <<row, group, groups, tables, partitions, client, old, history>>

\* The store of audio files; an audio message of an encrypted call has no audio.
SaveAudio(s) ==
  /\ At(s, "save")
  /\ \/ (s = "upload" => HasAudio(form)) /\ Goto(s, "audio") /\ UNCHANGED <<unsaved, faults>>
     \/ (s = "upload" => ~HasAudio(form)) /\ Goto(s, "lists") /\ UNCHANGED <<unsaved, faults>>
     \/ /\ Fails(s) /\ Goto(s, "lists")
        /\ unsaved' = IF s = "upload" THEN unsaved \cup {at[s].row} ELSE unsaved
  /\ UNCHANGED <<row, group, groups, tables, partitions, client, old, reported, ungrouped, bereft>>

UpdateCallAudio(s) ==
  /\ At(s, "audio") /\ Goto(s, "lists")
  /\ \/ Works(s) /\ Update(s, [This(s) EXCEPT !.audio = TRUE]) /\ UNCHANGED unsaved
     \/ /\ Fails(s) /\ UNCHANGED row
        /\ unsaved' = IF s = "upload" THEN unsaved \cup {at[s].row} ELSE unsaved
  /\ UNCHANGED <<group, groups, tables, partitions, client, old, reported, ungrouped, bereft>>

\* UpdateCallFilename: the audio file next to the metadata, if there is one.
UpdateCallFilename(s) ==
  /\ At(s, "filename") /\ Goto(s, "lists")
  /\ \/ Works(s) /\ \E file \in BOOLEAN : Update(s, [This(s) EXCEPT !.file = @ \/ file])
     \/ Fails(s) /\ UNCHANGED row
  /\ UNCHANGED <<group, groups, tables, partitions, client, old, history>>

\* UpdateCallSrcFreq writes both columns: one the report does not bring becomes NULL.
Brought(s, l) == IF l \in at[s].lists THEN "real" ELSE "null"

UpdateCallSrcFreq(s) ==
  /\ At(s, "lists")
  /\ IF at[s].lists = {}
     THEN Goto(s, "end") /\ UNCHANGED <<row, reported, faults>>
     ELSE /\ Goto(s, "rows")
          /\ \/ /\ Works(s)
                /\ Update(s, [This(s) EXCEPT !.src = Brought(s, "src"),
                                             !.freq = Brought(s, "freq")])
                /\ reported' = IF ~Hits(s) THEN reported
                               ELSE IF "src" \in at[s].lists THEN reported \cup {at[s].row}
                               ELSE reported \ {at[s].row}
             \/ Fails(s) /\ UNCHANGED <<row, reported>>
  /\ UNCHANGED <<group, groups, tables, partitions, client, old, ungrouped, bereft, unsaved>>

Answer(s) ==
  /\ At(s, "end") /\ End(s, "created")
  /\ UNCHANGED <<row, group, groups, tables, partitions, form, tries, old, history, faults>>

-----------------------------------------------------------------------------
(* Maintenance.                                                            *)

\* Messages are handled within seconds: the call is old when none is.
Ages ==
  /\ ~old /\ old' = TRUE
  /\ \A s \in Source : at[s].pc \in {"idle", "air", "done"}
  /\ UNCHANGED <<row, group, groups, tables, partitions, at, client, history, faults>>

\* PurgeStaleCalls: one DELETE, which fails when a row of the tables refers to a call.
PurgeStaleCalls ==
  LET stale == {r \in Id : /\ row[r].is = "there" /\ row[r].recording
                            /\ ~row[r].audio /\ ~row[r].ended}
  IN /\ old /\ stale # {}
     /\ stale \cap tables = {}
     /\ row' = [r \in Id |-> IF r \in stale THEN [NoRow EXCEPT !.is = "purged"] ELSE row[r]]
     /\ UNCHANGED <<group, groups, tables, partitions, at, client, old, history, faults>>

\* A call whose group is purged before it refers to it is left without one.
PurgeOrphanCallGroups ==
  LET orphans == {t \in Time : group[t].id # 0 /\ \A r \in Id : row[r].group # group[t].id}
      linking == {s \in Source : At(s, "link") /\ \E t \in orphans : group[t].id = at[s].group}
  IN /\ orphans # {}
     /\ group' = [t \in Time |-> IF t \in orphans THEN NoGroup ELSE group[t]]
     /\ bereft' = bereft \cup {at[s].row : s \in linking}
     /\ UNCHANGED <<row, groups, tables, partitions, at, client, old, reported, ungrouped, unsaved,
                    faults>>

Handle(s) ==
  \/ Look(s) \/ Again(s) \/ Insert(s) \/ EnsurePartitionsFor(s) \/ InsertFails(s)
  \/ UpsertCallGroup(s) \/ GroupFails(s) \/ SetCallGroupID(s) \/ SetCallGroupPrimary(s)
  \/ UpdateCallStartFields(s) \/ UpdateCallElapsed(s) \/ UpdateCallEnd(s)
  \/ GetUnitEventsForCall(s) \/ UpdateCallSrcFreqIfNull(s) \/ InsertRows(s, "synthesized", "done")
  \/ SaveAudio(s) \/ UpdateCallAudio(s) \/ UpdateCallFilename(s)
  \/ UpdateCallSrcFreq(s) \/ InsertRows(s, "rows", "end") \/ Answer(s)

Next ==
  \/ \E s \in Source : Handle(s)
  \/ Upload \/ ClientLeaves
  \/ Ages \/ PurgeStaleCalls \/ PurgeOrphanCallGroups

Spec == Init /\ [][Next]_vars

-----------------------------------------------------------------------------
(* Properties.                                                             *)

\* A list made of unit events never takes the place of one that was reported,
\* whatever order the end of the call and its audio come in
\* (synthesizeSrcList: "never clobbers real data").
RealListsStay == \A r \in reported : row[r].src # "synthesized"

\* Whatever is purged, the group a call refers to is there, and that of its start time; a
\* call is without one only while it is created, after a failed statement, or when its
\* group was purged before it referred to it (UpsertCallGroup, PurgeOrphanCallGroups).
Creating(r) == \E s \in Source : at[s].row = r /\ at[s].pc \in {"group", "link"}

CallsAreGrouped ==
  \A r \in Id : row[r].is = "there" =>
    IF row[r].group = 0 THEN Creating(r) \/ r \in ungrouped \cup bereft
                        ELSE row[r].group = group[row[r].start].id

\* What the API's documentation says of recordings of one transmission: they share a
\* group, unless a statement failed (openapi.yaml:4758).
RecordingsShareGroup ==
  \A r, q \in Id :
    (/\ r # q /\ row[r].is = "there" /\ row[q].is = "there" /\ row[r].start = row[q].start
     /\ {r, q} \cap ungrouped = {} /\ ~Creating(r) /\ ~Creating(q))
      => row[r].group # 0 /\ row[r].group = row[q].group

\* A client that was told its call was created finds the audio it sent at the
\* call, unless saving it failed (ProcessUploadedCall).
UploadsAreStored ==
  LET r == at["upload"].row
  IN (answer = "created" /\ HasAudio(form) /\ r \notin unsaved)
       => row[r].is = "purged" \/ row[r].audio
=============================================================================
