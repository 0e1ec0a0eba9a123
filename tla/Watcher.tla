------------------------------ MODULE Watcher ------------------------------
(***************************************************************************)
(* The file watcher (internal/ingest/watcher.go) and one recording: its    *)
(* JSON file, written in two steps into a directory that may be there      *)
(* already, or appear while the watcher starts, backfills or watches.      *)
(*                                                                         *)
(* fsnotify tells of what happens in a directory from the moment it is     *)
(* added.  Start, the event loop, the backfill and the debounce timer are  *)
(* goroutines of their own; an action is a step between two things they    *)
(* share.                                                                  *)
(***************************************************************************)
EXTENDS Naturals, Sequences

CONSTANTS MaxFaults, MaxStops

VARIABLES
  backfills,  \* WATCH_BACKFILL_DAYS >= 0
  dir,        \* the recording's directory exists
  file,       \* its JSON file: "absent", "partial", "whole"
  watched,    \* directories added to fsnotify
  events,     \* fsnotify's events: "dir" and "file"
  start,      \* where Start is
  loop,       \* where the event loop is, with the status it read
  back,       \* where the backfill is, with whether it found the file
  status,
  timer,      \* the file's debounce timer, and callbacks of it under way
  ingested,   \* the file was passed to the pipeline
  passedBy,   \* the file was there before its directory was added, and nobody looked
  faults, stops

vars == <<backfills, dir, file, watched, events, start, loop, back, status, timer, ingested,
          passedBy, faults, stops>>

TypeOK ==
  /\ backfills \in BOOLEAN /\ dir \in BOOLEAN
  /\ file \in {"absent", "partial", "whole"}
  /\ watched \subseteq {"root", "dir"}
  /\ events \in Seq({"dir", "file"})
  /\ start \in {"root", "list", "dir", "go", "done"}
  /\ loop \in [pc : {"off", "idle", "add", "walk"}, process : BOOLEAN]
  /\ back \in [pc : {"off", "collect", "work", "done"}, found : BOOLEAN]
  /\ status \in {"starting", "backfilling", "watching", "stopped"}
  /\ timer \in [on : BOOLEAN, fired : Nat]
  /\ ingested \in BOOLEAN /\ passedBy \in BOOLEAN

Init ==
  /\ backfills \in BOOLEAN
  /\ dir \in BOOLEAN /\ file \in (IF dir THEN {"absent", "partial", "whole"} ELSE {"absent"})
  /\ watched = {} /\ events = <<>>
  /\ start = "root"
  /\ loop = [pc |-> "off", process |-> FALSE]
  /\ back = [pc |-> "off", found |-> FALSE]
  /\ status = "starting"
  /\ timer = [on |-> FALSE, fired |-> 0]
  /\ ingested = FALSE /\ passedBy = FALSE
  /\ faults = 0 /\ stops = 0

Notify(d, e) == events' = IF d \in watched THEN Append(events, e) ELSE events

\* The directory is added.  A whole file in it causes no event any more: only a walk that
\* comes later finds it.
AddWatch(looksAtFiles) ==
  /\ watched' = IF stops = 0 THEN watched \cup {"dir"} ELSE watched
  /\ passedBy' = (passedBy \/ (file = "whole" /\ ~looksAtFiles /\ "dir" \notin watched
                               /\ (back.pc \in {"work", "done"} \/ ~backfills)))

-----------------------------------------------------------------------------
(* The recorder.                                                           *)

MakeDirectory ==
  /\ ~dir /\ dir' = TRUE
  /\ Notify("root", "dir")
  /\ UNCHANGED <<backfills, file, watched, start, loop, back, status, timer, ingested, passedBy,
                 faults, stops>>

WriteFile ==
  /\ dir /\ file # "whole"
  /\ file' \in (IF file = "absent" THEN {"partial", "whole"} ELSE {"whole"})
  /\ Notify("dir", "file")
  /\ UNCHANGED <<backfills, dir, watched, start, loop, back, status, timer, ingested, passedBy,
                 faults, stops>>

-----------------------------------------------------------------------------
(* Start and Stop.                                                         *)

StartRoot ==
  /\ start = "root"
  /\ watched' = watched \cup {"root"}
  /\ start' = "list"
  /\ UNCHANGED <<backfills, dir, file, events, loop, back, status, timer, ingested, passedBy,
                 faults, stops>>

StartList ==
  /\ start = "list"
  /\ start' = IF dir THEN "dir" ELSE "go"
  /\ UNCHANGED <<backfills, dir, file, watched, events, loop, back, status, timer, ingested,
                 passedBy, faults, stops>>

StartDir ==
  /\ start = "dir"
  /\ AddWatch(FALSE)
  /\ start' = "go"
  /\ UNCHANGED <<backfills, dir, file, events, loop, back, status, timer, ingested, faults, stops>>

\* The event loop is started before the status is set.
StartLoop ==
  /\ start = "go" /\ loop.pc = "off"
  /\ loop' = [loop EXCEPT !.pc = "idle"]
  /\ UNCHANGED <<backfills, dir, file, watched, events, start, back, status, timer, ingested,
                 passedBy, faults, stops>>

StartEnds ==
  /\ start = "go" /\ loop.pc # "off"
  /\ start' = "done"
  /\ IF backfills
       THEN back' = [back EXCEPT !.pc = "collect"] /\ UNCHANGED status
       ELSE status' = "watching" /\ UNCHANGED back
  /\ UNCHANGED <<backfills, dir, file, watched, events, loop, timer, ingested, passedBy, faults,
                 stops>>

\* fsnotify is closed: no directory can be added any more.  The backfill and the timers go on.
Stop ==
  /\ stops < MaxStops /\ start = "done"
  /\ stops' = stops + 1
  /\ status' = "stopped"
  /\ watched' = {} /\ events' = <<>>
  /\ UNCHANGED <<backfills, dir, file, start, loop, back, timer, ingested, passedBy, faults>>

-----------------------------------------------------------------------------
(* The event loop.                                                         *)

\* scheduleProcess: the timer is started, or set back.
ScheduleProcess == timer' = [timer EXCEPT !.on = TRUE]

\* A new directory: the status decides whether its files are looked at.
NextEvent ==
  /\ loop.pc = "idle" /\ events # <<>>
  /\ events' = Tail(events)
  /\ IF Head(events) = "dir"
       THEN /\ loop' = [pc |-> "add", process |-> status = "watching"]
            /\ UNCHANGED timer
       ELSE /\ ScheduleProcess
            /\ UNCHANGED loop
  /\ UNCHANGED <<backfills, dir, file, watched, start, back, status, ingested, passedBy, faults,
                 stops>>

\* A slip: the directory is added and its files are not looked at.
AddDirectoryOnly ==
  /\ loop.pc = "add"
  /\ AddWatch(loop.process)
  /\ loop' = [loop EXCEPT !.pc = "idle"]
  /\ UNCHANGED <<backfills, dir, file, events, start, back, status, timer, ingested, faults, stops>>

AddDirectory ==
  /\ loop.pc = "add"
  /\ AddWatch(loop.process)
  /\ loop' = [loop EXCEPT !.pc = IF loop.process THEN "walk" ELSE "idle"]
  /\ UNCHANGED <<backfills, dir, file, events, start, back, status, timer, ingested, faults, stops>>

WalkDirectory ==
  /\ loop.pc = "walk"
  /\ loop' = [loop EXCEPT !.pc = "idle"]
  /\ IF file # "absent" THEN ScheduleProcess ELSE UNCHANGED timer
  /\ UNCHANGED <<backfills, dir, file, watched, events, start, back, status, ingested, passedBy,
                 faults, stops>>

\* The queue of the kernel overflows: events are lost, and an error is logged.
LoseEvents ==
  /\ events # <<>> /\ faults < MaxFaults
  /\ faults' = faults + 1
  /\ events' = <<>>
  /\ UNCHANGED <<backfills, dir, file, watched, start, loop, back, status, timer, ingested,
                 passedBy, stops>>

-----------------------------------------------------------------------------
(* Processing.                                                             *)

TimerRunsOut ==
  /\ timer.on
  /\ timer' = [on |-> FALSE, fired |-> timer.fired + 1]
  /\ UNCHANGED <<backfills, dir, file, watched, events, start, loop, back, status, ingested,
                 passedBy, faults, stops>>

\* processJSONFile: a file that does not parse is skipped, one the database fails for
\* is not tried again.
ProcessJSONFile ==
  \/ file = "whole" /\ ingested' = TRUE /\ UNCHANGED faults
  \/ file # "whole" /\ UNCHANGED <<ingested, faults>>
  \/ faults < MaxFaults /\ faults' = faults + 1 /\ UNCHANGED ingested

TimerProcesses ==
  /\ timer.fired > 0
  /\ timer' = [timer EXCEPT !.fired = @ - 1]
  /\ ProcessJSONFile
  /\ UNCHANGED <<backfills, dir, file, watched, events, start, loop, back, status, passedBy, stops>>

BackfillBegins ==
  /\ back.pc = "collect" /\ status # "backfilling"
  /\ status' = "backfilling"
  /\ UNCHANGED <<backfills, dir, file, watched, events, start, loop, back, timer, ingested,
                 passedBy, faults, stops>>

\* All files there are at this moment, of those that are recent enough (WATCH_BACKFILL_DAYS)
\* and have a name that can be read, as this one.
BackfillCollects ==
  /\ back.pc = "collect" /\ status = "backfilling"
  /\ back' = [pc |-> "work", found |-> file # "absent"]
  /\ UNCHANGED <<backfills, dir, file, watched, events, start, loop, status, timer, ingested,
                 passedBy, faults, stops>>

BackfillProcesses ==
  /\ back.pc = "work" /\ back.found
  /\ back' = [back EXCEPT !.found = FALSE]
  /\ ProcessJSONFile
  /\ UNCHANGED <<backfills, dir, file, watched, events, start, loop, status, timer, passedBy, stops>>

\* The status is set whatever Stop has set it to.
BackfillEnds ==
  /\ back.pc = "work" /\ ~back.found
  /\ back' = [back EXCEPT !.pc = "done"]
  /\ status' = "watching"
  /\ UNCHANGED <<backfills, dir, file, watched, events, start, loop, timer, ingested, passedBy,
                 faults, stops>>

Starting == StartRoot \/ StartList \/ StartDir \/ StartLoop \/ StartEnds
Loop == NextEvent \/ AddDirectory \/ WalkDirectory
Timer == TimerRunsOut \/ TimerProcesses
Backfilling == BackfillBegins \/ BackfillCollects \/ BackfillProcesses \/ BackfillEnds

Next ==
  \/ MakeDirectory \/ WriteFile
  \/ Starting \/ Stop
  \/ Loop \/ LoseEvents
  \/ Timer \/ Backfilling

\* The goroutines go on; the recorder need not.
Fairness == WF_vars(Starting) /\ WF_vars(Loop) /\ WF_vars(Timer) /\ WF_vars(Backfilling)

Spec == Init /\ [][Next]_vars /\ Fairness

-----------------------------------------------------------------------------
InEvents(e) == \E i \in 1 .. Len(events) : events[i] = e

\* Somebody will add the directory and look at its files, or pass them by.
DirectoryInHand == start \in {"root", "list", "dir"} \/ InEvents("dir") \/ loop.pc = "add"

\* An event, the timer, a callback of it, a walk or the backfill leads to the file.
FileIsFound ==
  \/ InEvents("file") \/ timer.on \/ timer.fired > 0
  \/ loop.pc = "walk"
  \/ back.found \/ back.pc = "collect" \/ (backfills /\ start # "done")

\* At no moment between two steps of Start, the event loop, the backfill and the timers has
\* everybody let go of a whole file that was not ingested: one written before its directory
\* was added waits for that, and one written after, or found then, for somebody to process
\* it; unless it was passed by, an event or a statement was lost, or the watcher was stopped.
FileInHand ==
  file = "whole" /\ faults = 0 /\ stops = 0 =>
    ingested \/ passedBy \/ (IF "dir" \in watched THEN FileIsFound ELSE DirectoryInHand)

\* A whole file stays in hand and is ingested, however its writes, the directory's, the start, the backfill
\* and the debounce fall: unless it was passed by, an event or a statement was lost, or
\* the watcher was stopped.
FilesAreIngested ==
  /\ []FileInHand
  /\ file = "whole" ~> ingested \/ passedBy \/ faults > 0 \/ stops > 0
=============================================================================
