-------------------------------- MODULE Tags --------------------------------
(***************************************************************************)
(* The name (alpha_tag) of one talkgroup or unit and everything that       *)
(* writes it: messages of the recorder (UpsertTalkgroup, UpsertUnit), the  *)
(* CSV files of the recorder's directory, read when the process starts and *)
(* watched afterwards (cmd/tr-engine/main.go, internal/trconfig), edits    *)
(* through the API and their copy to the CSV, archives, the merge of two   *)
(* systems, and the fixup of the upgrade that gave CSV files priority.     *)
(* manual > csv > mqtt: alpha_tag_source says who a name belongs to.       *)
(*                                                                         *)
(* The CSV file belongs to a site of system "s", which may be merged into  *)
(* "t".  A statement, or a transaction, is one action.                     *)
(***************************************************************************)
EXTENDS Naturals

CONSTANTS
  Writeback,     \* CSV_WRITEBACK: edits are copied to the CSV file
  MaxWrites,     \* versions of the CSV file
  MaxPatches, MaxArchives, MaxFaults, MaxRestarts,
  MaxTogether    \* and of these together

Sys == {"s", "t"}
Empty == ""
None == "none"
Heard == "heard"                    \* the name the recorder reports
FileTag == {"csv1", "csv2"}
Edited == "edit"
Archived == "archive"
Broken == "broken"                  \* a file that does not parse
Tag == FileTag \cup {Empty, Heard, Edited, Archived}
Source == {"absent", Empty, "mqtt", "csv", "manual"}
Stamp == 1 .. MaxWrites

VARIABLES
  kind,      \* "talkgroup" or "unit": the table that is followed
  row,       \* per system: the name and its source
  dir,       \* per system: talkgroup_directory, the names of the CSV files
  edit,      \* per system: the name a user gave, None when there is none
  file,      \* the CSV file: its name for the talkgroup or unit, and its stamp
  disc,      \* what the start of the process read of it
  fixed,     \* the fixup is recorded as done
  phase,     \* of the process: "fixup", "import", "run"
  watch,     \* the FileWatch, and the system it imports into
  imp,       \* the import in progress
  heard,     \* the message being handled
  patch,     \* the edit being handled
  merged,
  missed,    \* the import at the start failed
  faults, patches, archives, restarts

counters == <<faults, patches, archives, restarts>>
vars == <<kind, row, dir, edit, file, disc, fixed, phase, watch, imp, heard, patch, merged,
          missed, counters>>

Row == [tag : Tag, src : Source]
Absent == [tag |-> Empty, src |-> "absent"]
Ready == [pc |-> "idle", tag |-> Empty, stamp |-> 1, failed |-> FALSE]
NoMessage == [pc |-> "idle", sys |-> "s"]
NoPatch == [pc |-> "idle", sys |-> "s", tag |-> Empty]

More(count, max) == count < max /\ faults + patches + archives + restarts < MaxTogether

Home == IF merged THEN "t" ELSE "s"
Alive == IF merged THEN {"t"} ELSE Sys

TypeOK ==
  /\ kind \in {"talkgroup", "unit"}
  /\ row \in [Sys -> Row] /\ dir \in [Sys -> Tag] /\ edit \in [Sys -> Tag \cup {None}]
  /\ file \in [tag : FileTag \cup {Edited, Broken}, stamp : Stamp]
  /\ disc \in [tag : FileTag \cup {Edited, Broken}, stamp : Stamp]
  /\ fixed \in BOOLEAN /\ phase \in {"fixup", "import", "run"}
  /\ watch \in [seen : Stamp, imported : Stamp, sys : Sys, on : BOOLEAN]
  /\ imp \in [pc : {"idle", "load", "directory", "enrich", "units"},
              tag : FileTag \cup {Edited, Empty}, stamp : Stamp, failed : BOOLEAN]
  /\ heard \in [pc : {"idle", "enrich"}, sys : Sys]
  /\ patch \in [pc : {"idle", "file", "directory"}, sys : Sys, tag : Tag]
  /\ merged \in BOOLEAN /\ missed \in BOOLEAN

\* A database of the older version: a row heard, read from the CSV, or read from it and
\* edited, which the older version left marked "csv".
OldRow == {[tag |-> Heard, src |-> Empty], [tag |-> "csv1", src |-> "csv"],
           [tag |-> Edited, src |-> "csv"], Absent}

Init ==
  /\ kind \in {"talkgroup", "unit"}
  /\ row \in [Sys -> OldRow]
  /\ dir = [s \in Sys |-> IF row[s].src = "csv" THEN "csv1" ELSE Empty]
  /\ edit = [s \in Sys |-> IF row[s].tag = Edited THEN Edited ELSE None]
  /\ file = [tag |-> "csv1", stamp |-> 1]
  /\ disc = file
  /\ fixed = FALSE /\ phase = "fixup"
  /\ watch = [seen |-> 1, imported |-> 1, sys |-> "s", on |-> FALSE]
  /\ imp = Ready /\ heard = NoMessage /\ patch = NoPatch
  /\ merged = FALSE /\ missed = FALSE
  /\ faults = 0 /\ patches = 0 /\ archives = 0 /\ restarts = 0

-----------------------------------------------------------------------------
(* What the statements do to a row.  Or is COALESCE(NULLIF(a, ''), b).     *)

Or(a, b) == IF a = Empty THEN b ELSE a
Rank(src) == CASE src = "manual" -> 3 [] src = "csv" -> 2 [] OTHER -> 1

\* A name heard fills or replaces one that is neither an edit's nor a CSV's.
UpsertHeard(r) ==
  IF r = Absent THEN [tag |-> Heard, src |-> Empty]
  ELSE IF r.src \in {"manual", "csv"} THEN r ELSE [r EXCEPT !.tag = Heard]

\* A slip: the directory replaces an edit as well.
EnrichEverything(r, tag) ==
  IF r = Absent \/ tag = Empty THEN r ELSE [tag |-> tag, src |-> "csv"]

\* EnrichTalkgroupsFromDirectory: it updates what is there, creates nothing, and only
\* fills an edit that has no name.
Enrich(r, tag) ==
  IF r = Absent \/ tag = Empty THEN r
  ELSE IF r.src = "manual" THEN [r EXCEPT !.tag = Or(@, tag)]
  ELSE [tag |-> tag, src |-> "csv"]

\* ImportUnitTags inserts what is not there.
ImportUnit(r, tag) ==
  IF r = Absent THEN [tag |-> tag, src |-> "csv"]
  ELSE IF r.src = "manual" THEN [r EXCEPT !.tag = Or(@, tag)]
  ELSE [tag |-> tag, src |-> "csv"]

\* ImportUpsertTalkgroup and ImportUpsertUnit.
ImportArchived(r, src) ==
  LET wins == \/ src = "manual"
              \/ src = "csv" /\ r.src # "manual"
              \/ src = "mqtt" /\ r.src \notin {"manual", "csv"} IN
  IF r = Absent THEN [tag |-> Archived, src |-> src]
  ELSE IF wins THEN [tag |-> Archived, src |-> src]
  ELSE [r EXCEPT !.tag = Or(@, Archived)]

\* The row q of the target with the row r of the source merged into it.
MergeRow(r, q) ==
  LET wins == Rank(r.src) >= Rank(q.src) IN
  IF r = Absent THEN q
  ELSE IF q = Absent THEN r
  ELSE [tag |-> IF wins THEN Or(r.tag, q.tag) ELSE Or(q.tag, r.tag),
        src |-> IF r.tag # Empty /\ (wins \/ q.tag = Empty) THEN r.src ELSE q.src]

-----------------------------------------------------------------------------
(* The start of the process.                                               *)

\* A file that cannot be read or has no header is not imported.
Parses(f) == f.tag # Broken

\* The file read confirms the rows of the system it is imported into; one that did not
\* load confirms none.
Confirmed(s) == s = Home /\ row[s].tag = disc.tag

\* KeepPreUpgradeTagEdits: once, a CSV-sourced name that the file just read does not
\* confirm is taken for an edit.
KeepPreUpgradeTagEdits ==
  LET pinned == {s \in Sys : ~fixed /\ row[s].src = "csv" /\ row[s].tag # Empty /\ ~Confirmed(s)} IN
  /\ phase = "fixup"
  /\ fixed' = TRUE
  /\ row' = [s \in Sys |-> IF s \in pinned THEN [row[s] EXCEPT !.src = "manual"] ELSE row[s]]
  /\ edit' = [s \in Sys |-> IF s \in pinned THEN row[s].tag ELSE edit[s]]
  /\ phase' = "import"
  /\ watch' = [watch EXCEPT !.on = FALSE]
  /\ UNCHANGED <<kind, dir, file, disc, imp, heard, patch, merged, missed, counters>>

\* Ingest is already running.  A file that did not load is neither imported nor watched.
StartImport ==
  /\ phase = "import" /\ imp.pc = "idle"
  /\ IF ~Parses(disc)
       THEN /\ phase' = "run"
            /\ UNCHANGED <<watch, imp>>
       ELSE /\ watch' = [seen |-> disc.stamp, imported |-> disc.stamp, sys |-> Home, on |-> TRUE]
            /\ imp' = [pc |-> IF kind = "unit" THEN "units" ELSE "directory", tag |-> disc.tag,
                       stamp |-> disc.stamp, failed |-> FALSE]
            /\ UNCHANGED phase
  /\ UNCHANGED <<kind, row, dir, edit, file, disc, fixed, heard, patch, merged, missed, counters>>

\* The process ends and starts again: it reads the configuration and the CSV file.
Restart ==
  /\ More(restarts, MaxRestarts)
  /\ restarts' = restarts + 1
  /\ phase' = "fixup"
  /\ disc' = file
  /\ imp' = Ready /\ heard' = NoMessage /\ patch' = NoPatch
  /\ missed' = FALSE
  /\ UNCHANGED <<kind, row, dir, edit, file, fixed, watch, merged, faults, patches, archives>>

-----------------------------------------------------------------------------
(* The CSV file and its import.                                            *)

\* Someone saves the file.
EditFile ==
  /\ file.stamp < MaxWrites
  /\ \E tag \in FileTag \cup {Broken} :
       tag # file.tag /\ file' = [tag |-> tag, stamp |-> file.stamp + 1]
  /\ UNCHANGED <<kind, row, dir, edit, disc, fixed, phase, watch, imp, heard, patch, merged, missed,
                 counters>>

\* A slip: a version is taken as imported when it is seen.
PollForgets ==
  /\ phase = "run" /\ watch.on /\ imp.pc = "idle"
  /\ watch' = [watch EXCEPT !.seen = file.stamp, !.imported = file.stamp]
  /\ imp' = IF file.stamp = watch.seen /\ file.stamp # watch.imported
              THEN [imp EXCEPT !.pc = "load", !.stamp = file.stamp] ELSE imp
  /\ UNCHANGED <<kind, row, dir, edit, file, disc, fixed, phase, heard, patch, merged, missed,
                 counters>>

\* A tick: a version seen twice that is not the imported one is loaded.
Poll ==
  /\ phase = "run" /\ watch.on /\ imp.pc = "idle"
  /\ watch' = [watch EXCEPT !.seen = file.stamp]
  /\ imp' = IF file.stamp = watch.seen /\ file.stamp # watch.imported
              THEN [imp EXCEPT !.pc = "load", !.stamp = file.stamp] ELSE imp
  /\ UNCHANGED <<kind, row, dir, edit, file, disc, fixed, phase, heard, patch, merged, missed,
                 counters>>

\* The file may have changed since it was polled.  One that does not parse is not tried again.
LoadCSV ==
  /\ imp.pc = "load"
  /\ IF ~Parses(file)
       THEN /\ watch' = [watch EXCEPT !.imported = imp.stamp]
            /\ imp' = Ready
       ELSE /\ imp' = [imp EXCEPT !.pc = IF kind = "unit" THEN "units" ELSE "directory",
                                  !.tag = file.tag]
            /\ UNCHANGED watch
  /\ UNCHANGED <<kind, row, dir, edit, file, disc, fixed, phase, heard, patch, merged, missed,
                 counters>>

\* An import of a change that failed is tried again; the one at the start is not.
ImportEnds(ok) ==
  /\ imp' = Ready
  /\ phase' = "run"
  /\ missed' = (missed \/ (phase = "import" /\ ~ok))
  /\ watch' = IF phase = "run" /\ ok THEN [watch EXCEPT !.imported = imp.stamp] ELSE watch

UpsertTalkgroupDirectory ==
  /\ imp.pc = "directory"
  /\ \/ /\ dir' = [dir EXCEPT ![watch.sys] = imp.tag]
        /\ imp' = [imp EXCEPT !.pc = "enrich"]
        /\ UNCHANGED faults
     \/ /\ More(faults, MaxFaults) /\ faults' = faults + 1
        /\ imp' = [imp EXCEPT !.pc = "enrich", !.failed = TRUE]
        /\ UNCHANGED dir
  /\ UNCHANGED <<kind, row, edit, file, disc, fixed, phase, watch, heard, patch, merged, missed,
                 patches, archives, restarts>>

EnrichTalkgroups ==
  LET s == watch.sys IN
  /\ imp.pc = "enrich"
  /\ \/ /\ row' = [row EXCEPT ![s] = Enrich(@, dir[s])]
        /\ ImportEnds(~imp.failed)
        /\ UNCHANGED faults
     \/ /\ More(faults, MaxFaults) /\ faults' = faults + 1
        /\ ImportEnds(FALSE)
        /\ UNCHANGED row
  /\ UNCHANGED <<kind, dir, edit, file, disc, fixed, heard, patch, merged, patches, archives,
                 restarts>>

ImportUnitTags ==
  /\ imp.pc = "units"
  /\ \/ /\ row' = [row EXCEPT ![watch.sys] = ImportUnit(@, imp.tag)]
        /\ ImportEnds(TRUE)
        /\ UNCHANGED faults
     \/ /\ More(faults, MaxFaults) /\ faults' = faults + 1
        /\ ImportEnds(FALSE)
        /\ UNCHANGED row
  /\ UNCHANGED <<kind, dir, edit, file, disc, fixed, heard, patch, merged, patches, archives,
                 restarts>>

-----------------------------------------------------------------------------
(* Messages, edits, archives and the merge.                                *)

\* The first statement of a message; a failed one is only logged.
Upsert(s) ==
  /\ phase # "fixup" /\ heard.pc = "idle" /\ s \in Alive
  /\ row' = [row EXCEPT ![s] = UpsertHeard(@)]
  /\ heard' = IF kind = "talkgroup" THEN [pc |-> "enrich", sys |-> s] ELSE heard
  /\ UNCHANGED <<kind, dir, edit, file, disc, fixed, phase, watch, imp, patch, merged, missed,
                 counters>>

\* The second statement for a talkgroup.
EnrichHeard ==
  LET s == heard.sys IN
  /\ heard.pc = "enrich"
  /\ \/ row' = [row EXCEPT ![s] = Enrich(@, dir[s])] /\ UNCHANGED faults
     \/ More(faults, MaxFaults) /\ faults' = faults + 1 /\ UNCHANGED row
  /\ heard' = NoMessage
  /\ UNCHANGED <<kind, dir, edit, file, disc, fixed, phase, watch, imp, patch, merged, missed,
                 patches, archives, restarts>>

WritesBack(s, does) == does = "name" /\ Writeback /\ watch.on /\ s = watch.sys

\* PATCH with a name, with other fields (of a talkgroup), or handing the name back.
Patch(s, does) ==
  LET r == row[s] IN
  /\ phase = "run" /\ patch.pc = "idle" /\ More(patches, MaxPatches) /\ s \in Alive /\ r # Absent
  /\ patches' = patches + 1
  /\ CASE does = "name" ->
            /\ row' = [row EXCEPT ![s] = [tag |-> Edited, src |-> "manual"]]
            /\ edit' = [edit EXCEPT ![s] = Edited]
       [] does = "describe" ->
            /\ kind = "talkgroup"
            /\ row' = [row EXCEPT ![s].src = "manual"]
            /\ edit' = [edit EXCEPT ![s] = IF r.tag = Empty THEN None ELSE r.tag]
       [] OTHER ->
            /\ row' = [row EXCEPT ![s].src = does]
            /\ edit' = [edit EXCEPT ![s] = None]
  /\ patch' = IF WritesBack(s, does) THEN [pc |-> "file", sys |-> s, tag |-> Edited]
              ELSE NoPatch
  /\ UNCHANGED <<kind, dir, file, disc, fixed, phase, watch, imp, heard, merged, missed, faults,
                 archives, restarts>>

\* The edit is copied to the CSV file; when that works, to the directory too.
WriteBack ==
  /\ patch.pc = "file"
  /\ \/ /\ file.stamp < MaxWrites /\ Parses(file)
        /\ file' = [tag |-> patch.tag, stamp |-> file.stamp + 1]
        /\ patch' = IF kind = "talkgroup" THEN [patch EXCEPT !.pc = "directory"] ELSE NoPatch
     \/ file' = file /\ patch' = NoPatch
  /\ UNCHANGED <<kind, row, dir, edit, disc, fixed, phase, watch, imp, heard, merged, missed,
                 counters>>

WriteBackDirectory ==
  /\ patch.pc = "directory"
  /\ \/ dir' = [dir EXCEPT ![patch.sys] = patch.tag] /\ UNCHANGED faults
     \/ More(faults, MaxFaults) /\ faults' = faults + 1 /\ UNCHANGED dir
  /\ patch' = NoPatch
  /\ UNCHANGED <<kind, row, edit, file, disc, fixed, phase, watch, imp, heard, merged, missed,
                 patches, archives, restarts>>

\* An archive is imported: its edit counts as the user's.
ImportArchive(s, src) ==
  /\ More(archives, MaxArchives) /\ s \in Alive /\ phase # "fixup"
  /\ archives' = archives + 1
  /\ row' = [row EXCEPT ![s] = ImportArchived(@, src)]
  /\ edit' = [edit EXCEPT ![s] = IF src = "manual" THEN Archived ELSE @]
  /\ UNCHANGED <<kind, dir, file, disc, fixed, phase, watch, imp, heard, patch, merged, missed,
                 faults, patches, restarts>>

\* A CSV is uploaded, not written to the file: units are imported at once, talkgroups
\* through the directory.
Upload(s) ==
  /\ More(archives, MaxArchives) /\ s \in Alive /\ phase # "fixup"
  /\ archives' = archives + 1
  /\ IF kind = "unit"
       THEN row' = [row EXCEPT ![s] = ImportUnit(@, "csv2")] /\ UNCHANGED <<dir, heard>>
       ELSE /\ heard.pc = "idle"
            /\ dir' = [dir EXCEPT ![s] = "csv2"]
            /\ heard' = [pc |-> "enrich", sys |-> s]
            /\ UNCHANGED row
  /\ UNCHANGED <<kind, edit, file, disc, fixed, phase, watch, imp, patch, merged, missed, faults,
                 patches, restarts>>

\* MergeSystems(s, t).  The directory and the watch stay with s.
Merge ==
  /\ ~merged /\ phase # "fixup"
  /\ merged' = TRUE
  /\ row' = [s |-> Absent, t |-> MergeRow(row["s"], row["t"])]
  /\ edit' = [s |-> None, t |-> IF edit["s"] # None THEN edit["s"] ELSE edit["t"]]
  /\ UNCHANGED <<kind, dir, file, disc, fixed, phase, watch, imp, heard, patch, missed, counters>>

Import == StartImport \/ Poll \/ LoadCSV \/ UpsertTalkgroupDirectory \/ EnrichTalkgroups
          \/ ImportUnitTags

Next ==
  \/ KeepPreUpgradeTagEdits \/ Restart \/ Import
  \/ EditFile
  \/ \E s \in Sys : Upsert(s)
  \/ EnrichHeard
  \/ \E s \in Sys, does \in {"name", "describe", "csv", "mqtt"} : Patch(s, does)
  \/ WriteBack \/ WriteBackDirectory
  \/ \E s \in Sys, src \in {Empty, "mqtt", "csv", "manual"} : ImportArchive(s, src)
  \/ \E s \in Sys : Upload(s)
  \/ Merge

\* The start runs through; the ticker keeps ticking; a statement is answered.
Fairness == WF_vars(KeepPreUpgradeTagEdits) /\ WF_vars(Import) /\ WF_vars(EnrichHeard)

Spec == Init /\ [][Next]_vars /\ Fairness

-----------------------------------------------------------------------------
\* What a user named stays named so: through messages, imports of CSV files and archives
\* without edits, the start after the upgrade, and the merge of the system, whose own
\* edit gives way only to one of the merged system.
EditsKept ==
  \A s \in Sys : edit[s] # None => row[s].tag = edit[s] /\ (fixed => row[s].src = "manual")

\* A version of the CSV file that counts as imported, and so is never loaded again, is in
\* the directory and the rows, whatever was saved between a poll, its load and the
\* statements of its import, and however those failed.
ImportedIsThere ==
  phase = "run" /\ watch.on /\ watch.imported = file.stamp /\ Parses(file) =>
    \/ missed \/ merged \/ patches + archives > 0
    \/ /\ kind = "talkgroup" => dir["s"] = file.tag
       /\ row["s"].src = "csv" => row["s"].tag = file.tag

\* Once nobody changes the CSV file its name reaches the rows: unless they are edits, the
\* file does not parse, the import at the start failed, or the system was merged away.
CsvReachesRows ==
  /\ []ImportedIsThere
  /\ <>[](\/ ~Parses(file) \/ missed \/ merged \/ ~watch.on
          \/ /\ watch.imported = file.stamp
             /\ row["s"].src = "csv" /\ patches = 0 /\ archives = 0 => row["s"].tag = file.tag)
=============================================================================
