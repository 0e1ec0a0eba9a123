------------------------------ MODULE Transfer ------------------------------
(***************************************************************************)
(* Moving a database to another one (internal/export): the archive an      *)
(* export writes while the source keeps recording, and its import, stage   *)
(* by stage and statement by statement, into a target that records calls   *)
(* itself, with imports that fail, end early and are run again.            *)
(*                                                                         *)
(* The archive has a P25 system, found again by its sysid and wacn, and a  *)
(* conventional one, found again by its sites.  The calls of a system are  *)
(* on one talkgroup.  Times are in seconds.                                *)
(***************************************************************************)
EXTENDS Integers, FiniteSets, FiniteSetsExt

CONSTANTS
  Recorded,     \* calls the source may have: [site, start]
  ConvSite,     \* sites of the conventional system
  LiveStart,    \* when the target may record a call of its own
  MaxRows, MaxSystem, MaxImports, MaxFaults

P25Site == "p"
Site == ConvSite \cup {P25Site}
NoSite == "nosite"          \* a call of the conventional system whose site is not known
Window == 10
NoSystem == 0
NoCall == [site |-> NoSite, start |-> -1]
Mode == {"full", "metadata"}
NameStages == {"talkgroups", "directory", "units"}
Stages == {"idle", "p25", "identity", "conv", "sites", "find", "group", "insert", "link",
           "lists", "texts"}
            \cup NameStages

VARIABLES
  source,     \* the source: its calls, and those with a transcription
  archive,    \* what the export wrote of them, and how far it is
  made,       \* the target: how many systems it has had,
  p25,        \*   the system with the archive's sysid and wacn,
  siteOf,     \*   the system of each site,
  names,      \*   the systems with the archive's talkgroups, directory, units
  rows,       \*   calls: under which system, which archived call they are, and whether
              \*   their group and audio, and their lists, were written
  groups,     \*   call groups
  texts,      \*   transcriptions: of which row, and of which archived call
  stage, mode,
  sysMap, siteMap,
  sites,      \* sites of the stage still to come,
  todo,       \*   and calls or transcriptions
  blind,      \* the lookup of the call in hand failed
  clean,      \* no statement of the import failed
  done,       \* the last import that ran to its end
  imports, faults

target == <<made, p25, siteOf, names, rows, groups, texts>>
vars == <<source, archive, target, stage, mode, sysMap, siteMap, sites, todo, blind, clean, done,
          imports, faults>>

Key == Site
System == 0 .. MaxSystem
Row == [n : 1 .. MaxRows, sys : 1 .. MaxSystem, start : Int, rec : Recorded \cup {NoCall},
        blind : BOOLEAN, has : SUBSET {"link", "lists"}]

TypeOK ==
  /\ source.calls \subseteq Recorded /\ source.texts \subseteq source.calls
  /\ archive.pc \in {"calls", "texts", "write", "written"}
  /\ archive.calls \subseteq Recorded /\ archive.texts \subseteq Recorded
  /\ made \in System /\ p25 \in System /\ siteOf \in [Site -> System]
  /\ names \subseteq NameStages \X System
  /\ rows \subseteq Row /\ groups \subseteq System \X Int
  /\ stage \in Stages /\ mode \in Mode
  /\ sysMap \in [Key -> System] /\ siteMap \subseteq Site
  /\ sites \subseteq Site /\ todo \subseteq Recorded
  /\ blind \in BOOLEAN /\ clean \in BOOLEAN

Init ==
  /\ source = [calls |-> {}, texts |-> {}]
  /\ archive = [pc |-> "calls", calls |-> {}, texts |-> {}]
  /\ made \in {0, 1} /\ p25 = made
  /\ siteOf = [s \in Site |-> IF s = P25Site THEN p25 ELSE NoSystem]
  /\ names = {} /\ rows = {} /\ groups = {} /\ texts = {}
  /\ stage = "idle" /\ mode = "full"
  /\ sysMap = [k \in Key |-> NoSystem] /\ siteMap = {} /\ sites = {} /\ todo = {}
  /\ blind = FALSE /\ clean = TRUE /\ done = 0
  /\ imports = 0 /\ faults = 0

Near(a, b) == a - b \in -Window .. Window
Distance(a, b) == IF a < b THEN b - a ELSE a - b
Running == <<source, archive, mode, imports, done>>

-----------------------------------------------------------------------------
(* The source, and the export.                                             *)

Record(c) ==
  /\ archive.pc \in {"calls", "texts"} /\ c \notin source.calls
  /\ source' = [source EXCEPT !.calls = @ \cup {c}]
  /\ UNCHANGED <<archive, target, stage, mode, sysMap, siteMap, sites, todo, blind, clean, done,
                 imports, faults>>

Transcribe(c) ==
  /\ archive.pc \in {"calls", "texts"} /\ c \in source.calls \ source.texts
  /\ source' = [source EXCEPT !.texts = @ \cup {c}]
  /\ UNCHANGED <<archive, target, stage, mode, sysMap, siteMap, sites, todo, blind, clean, done,
                 imports, faults>>

\* What there is of the systems chosen and the time range, at the time of the statement.
CallsToExport == source.calls
TextsToExport == source.texts

\* Export loads the calls and then the transcriptions; the source is not looked at again.
ExportCalls ==
  /\ archive.pc = "calls"
  /\ archive' = [archive EXCEPT !.pc = "texts", !.calls = CallsToExport]
  /\ UNCHANGED <<source, target, stage, mode, sysMap, siteMap, sites, todo, blind, clean, done,
                 imports, faults>>

ExportTranscriptions ==
  /\ archive.pc = "texts"
  /\ archive' = [archive EXCEPT !.pc = "write", !.texts = TextsToExport]
  /\ source' = [calls |-> {}, texts |-> {}]
  /\ UNCHANGED <<target, stage, mode, sysMap, siteMap, sites, todo, blind, clean, done,
                 imports, faults>>

\* One file of the archive after the other, each record as it was loaded.  An archive cut
\* short does not read to its end, and an import of it ends before it begins.
WriteArchive ==
  /\ archive.pc = "write"
  /\ archive' = [archive EXCEPT !.pc = "written"]
  /\ UNCHANGED <<source, target, stage, mode, sysMap, siteMap, sites, todo, blind, clean, done,
                 imports, faults>>

-----------------------------------------------------------------------------
(* The import.                                                             *)

ImportMetadata(m) ==
  /\ archive.pc = "written" /\ stage = "idle" /\ imports < MaxImports
  /\ imports' = imports + 1
  /\ mode' = m /\ stage' = "p25"
  /\ sysMap' = [k \in Key |-> NoSystem] /\ siteMap' = {} /\ sites' = {} /\ todo' = {}
  /\ blind' = FALSE /\ clean' = TRUE
  /\ UNCHANGED <<source, archive, target, done, faults>>

\* A failed statement of the stages up to the sites ends the import, as the end of its
\* process does; what is written stays.
Abort ==
  /\ stage # "idle" /\ faults < MaxFaults
  /\ faults' = faults + 1
  /\ stage' = "idle" /\ sites' = {} /\ todo' = {}
  /\ UNCHANGED <<source, archive, target, mode, sysMap, siteMap, blind, clean, done, imports>>

\* importSystems: a P25 system that is not found is created, and then given its identity.
ImportP25System ==
  /\ stage = "p25"
  /\ IF p25 # NoSystem
       THEN /\ sysMap' = [sysMap EXCEPT ![P25Site] = p25]
            /\ stage' = "conv" /\ sites' = ConvSite
            /\ UNCHANGED made
       ELSE /\ made < MaxSystem /\ made' = made + 1
            /\ stage' = "identity"
            /\ UNCHANGED <<sysMap, sites>>
  /\ UNCHANGED <<p25, siteOf, names, rows, groups, texts, siteMap, todo, blind, clean, faults, Running>>

SetIdentity ==
  /\ stage = "identity"
  /\ p25' = made
  /\ sysMap' = [sysMap EXCEPT ![P25Site] = made]
  /\ stage' = "conv" /\ sites' = ConvSite
  /\ UNCHANGED <<made, siteOf, names, rows, groups, texts, siteMap, todo, blind, clean, faults, Running>>

\* A conventional one is found by each of its sites, or a system is created for the site.
ImportConventionalSystem(s) ==
  /\ stage = "conv" /\ s \in sites
  /\ IF siteOf[s] # NoSystem
       THEN sysMap' = [sysMap EXCEPT ![s] = siteOf[s]] /\ UNCHANGED made
       ELSE /\ made < MaxSystem /\ made' = made + 1
            /\ sysMap' = [sysMap EXCEPT ![s] = made']
  /\ sites' = IF sites = {s} THEN Site ELSE sites \ {s}
  /\ stage' = IF sites = {s} THEN "sites" ELSE "conv"
  /\ UNCHANGED <<p25, siteOf, names, rows, groups, texts, siteMap, todo, blind, clean, faults, Running>>

\* importSites: FindOrCreateSite, under the system found for it.
ImportSite(s) ==
  /\ stage = "sites" /\ s \in sites
  /\ siteOf' = [siteOf EXCEPT ![s] = IF @ = NoSystem THEN sysMap[s] ELSE @]
  /\ siteMap' = siteMap \cup {s}
  /\ sites' = sites \ {s}
  /\ stage' = IF sites = {s} THEN "talkgroups" ELSE "sites"
  /\ UNCHANGED <<made, p25, names, rows, groups, texts, sysMap, todo, blind, clean, faults, Running>>

\* resolveSystemID knows P25 systems only.  A record that is not resolved, or whose
\* statement fails, is skipped.
ImportNames ==
  /\ stage \in NameStages
  /\ \/ names' = names \cup {<<stage, sysMap[P25Site]>>} /\ UNCHANGED <<clean, faults>>
     \/ faults < MaxFaults /\ faults' = faults + 1 /\ clean' = FALSE /\ UNCHANGED names
  /\ stage' = CASE stage = "talkgroups" -> "directory"
                [] stage = "directory" -> "units"
                [] OTHER -> IF mode = "full" THEN "find" ELSE "idle"
  /\ todo' = IF stage = "units" THEN IF mode = "full" THEN archive.calls ELSE {} ELSE todo
  /\ UNCHANGED <<made, p25, siteOf, rows, groups, texts, sysMap, siteMap, sites, blind, Running>>

\* The record of a call names its system if that is P25, and its site if it has one.
SystemRef(c) == c.site = P25Site

\* resolveSystemID: the call's site is not looked at.
SystemOfP25(c) == IF SystemRef(c) THEN sysMap[P25Site] ELSE NoSystem

\* The system of a call: of the P25 system, or by the call's site.
SystemOf(c) ==
  CASE SystemRef(c) -> sysMap[P25Site]
    [] c.site \in ConvSite -> sysMap[c.site]
    [] OTHER -> NoSystem

\* The calls come by their start.
InHand == CHOOSE c \in todo : \A d \in todo : c.start <= d.start

\* A slip: the lookup forgets the system.
AnyMatches(c) == {r \in rows : Near(r.start, c.start)}

Matches(c) == {r \in rows : r.sys = SystemOf(c) /\ Near(r.start, c.start)}

NextCall == /\ todo' = IF todo = {InHand} THEN archive.texts ELSE todo \ {InHand}
            /\ stage' = IF todo = {InHand} THEN "texts" ELSE "find"
            /\ blind' = FALSE

\* importCalls: a call that is not resolved, or is there already, is skipped; one whose
\* lookup fails is not.
FindCall ==
  LET c == InHand IN
  /\ stage = "find" /\ todo # {}
  /\ \/ /\ SystemOf(c) = NoSystem \/ Matches(c) # {}
        /\ NextCall /\ UNCHANGED faults
     \/ /\ SystemOf(c) # NoSystem /\ Matches(c) = {}
        /\ stage' = "group" /\ UNCHANGED <<todo, blind, faults>>
     \/ /\ SystemOf(c) # NoSystem /\ faults < MaxFaults /\ faults' = faults + 1
        /\ stage' = "group" /\ blind' = TRUE /\ UNCHANGED todo
  /\ UNCHANGED <<target, sysMap, siteMap, sites, clean, Running>>

SkipCall ==
  /\ stage \in {"group", "insert"} /\ faults < MaxFaults
  /\ faults' = faults + 1 /\ clean' = FALSE
  /\ NextCall
  /\ UNCHANGED <<target, sysMap, siteMap, sites, Running>>

UpsertCallGroup ==
  /\ stage = "group"
  /\ groups' = groups \cup {<<SystemOf(InHand), InHand.start>>}
  /\ stage' = "insert"
  /\ UNCHANGED <<made, p25, siteOf, names, rows, texts, sysMap, siteMap, sites, todo, blind, clean, faults,
                 Running>>

NewRow(c) == [n |-> Cardinality(rows) + 1, sys |-> SystemOf(c), start |-> c.start, rec |-> c,
              blind |-> blind, has |-> {}]

InsertCall ==
  /\ stage = "insert" /\ Cardinality(rows) < MaxRows
  /\ rows' = rows \cup {NewRow(InHand)}
  /\ stage' = "link"
  /\ UNCHANGED <<made, p25, siteOf, names, groups, texts, sysMap, siteMap, sites, todo, blind, clean,
                 faults, Running>>

\* What belongs to the call just inserted.  A failure is logged, and no later import makes
\* up for it.
Inserted == Max({r.n : r \in {r \in rows : r.rec = InHand}})
Write(what) ==
  \/ /\ rows' = {IF r.n = Inserted THEN [r EXCEPT !.has = @ \cup {what}] ELSE r : r \in rows}
     /\ UNCHANGED <<clean, faults>>
  \/ faults < MaxFaults /\ faults' = faults + 1 /\ clean' = FALSE /\ UNCHANGED rows

LinkCall ==
  /\ stage = "link" /\ Write("link")
  /\ stage' = "lists"
  /\ UNCHANGED <<made, p25, siteOf, names, groups, texts, sysMap, siteMap, sites, todo, blind, Running>>

RebuildLists ==
  /\ stage = "lists" /\ Write("lists")
  /\ NextCall
  /\ UNCHANGED <<made, p25, siteOf, names, groups, texts, sysMap, siteMap, sites, Running>>

NoCalls ==
  /\ stage = "find" /\ todo = {}
  /\ stage' = "texts" /\ todo' = archive.texts
  /\ UNCHANGED <<target, sysMap, siteMap, sites, blind, clean, faults, Running>>

\* importTranscriptions: the text goes to the call that starts nearest.  A transcription is
\* resolved like a talkgroup, and one that is there already is inserted again.
ImportTranscription ==
  LET c == InHand
      parents == {r \in rows : /\ r.sys = SystemOfP25(c) /\ Near(r.start, c.start)
                               /\ \A q \in rows : q.sys = r.sys =>
                                    Distance(r.start, c.start) <= Distance(q.start, c.start)} IN
  /\ stage = "texts" /\ todo # {}
  /\ \/ \E r \in parents :
          texts' = texts \cup {[n |-> Cardinality(texts) + 1, row |-> r.n, rec |-> c]}
          /\ UNCHANGED <<clean, faults>>
     \/ parents = {} /\ UNCHANGED <<texts, clean, faults>>
     \/ faults < MaxFaults /\ faults' = faults + 1 /\ clean' = FALSE /\ UNCHANGED texts
  /\ todo' = todo \ {c}
  /\ UNCHANGED <<made, p25, siteOf, names, rows, groups, stage, sysMap, siteMap, sites, blind, Running>>

\* The import is complete.
Finish ==
  /\ stage = "texts" /\ todo = {}
  /\ stage' = "idle" /\ done' = imports
  /\ UNCHANGED <<source, archive, target, mode, sysMap, siteMap, sites, todo, blind, clean, imports, faults>>

\* The target records a call of its own.
RecordLive(s, start) ==
  /\ siteOf[s] # NoSystem /\ Cardinality(rows) < MaxRows
  /\ rows' = rows \cup {[n |-> Cardinality(rows) + 1, sys |-> siteOf[s], start |-> start,
                         rec |-> NoCall, blind |-> FALSE, has |-> {"link", "lists"}]}
  /\ UNCHANGED <<made, p25, siteOf, names, groups, texts, stage, sysMap, siteMap, sites, todo, blind, clean,
                 faults, source, archive, mode, imports, done>>

Export == (\E c \in Recorded : Record(c) \/ Transcribe(c)) \/ ExportCalls
          \/ ExportTranscriptions \/ WriteArchive
ImportSystems == ImportP25System \/ SetIdentity \/ \E s \in ConvSite : ImportConventionalSystem(s)
ImportCalls == FindCall \/ SkipCall \/ UpsertCallGroup \/ InsertCall \/ LinkCall \/ RebuildLists
               \/ NoCalls

Next ==
  \/ Export
  \/ \E m \in Mode : ImportMetadata(m)
  \/ ImportSystems \/ (\E s \in Site : ImportSite(s)) \/ ImportNames
  \/ ImportCalls \/ ImportTranscription \/ Finish \/ Abort
  \/ \E s \in Site, start \in LiveStart : RecordLive(s, start)

Spec == Init /\ [][Next]_vars

-----------------------------------------------------------------------------
\* The window in which comment and docs of the import take calls for the same.
DocumentedWindow == 5

\* However often an archive is imported, and wherever an import ended early, no call of
\* it is there twice, under whatever system, nor two calls of a talkgroup which are the
\* same for code and docs alike; but for those whose lookup failed.
NoCallTwice ==
  \A r, q \in rows :
    r.n # q.n /\ r.rec # NoCall /\ q.rec # NoCall /\ ~r.blind /\ ~q.blind
      => /\ r.rec # q.rec
         /\ r.sys = q.sys => r.start - q.start \notin -DocumentedWindow .. DocumentedWindow

\* An import is complete, and its statements worked.
ImportWorked == stage = "idle" /\ done = imports /\ done > 0 /\ clean

\* The call is in the target, or one of its system that starts within so many seconds.
ThereWithin(c, seconds) ==
  \E r \in rows :
    \/ r.rec = c
    \/ r.sys = SystemOf(c) /\ r.start - c.start \in -seconds .. seconds

\* A call of the archive is given up only for one of its system in the window of the
\* lookup, or if it is conventional and its site is not known.
NoCallMissing == ImportWorked => \A c \in archive.calls : c.site = NoSite \/ ThereWithin(c, Window)

CallsImportedOnce == NoCallTwice /\ NoCallMissing

\* What comment and docs say of the import: a call is given up only for one within five
\* seconds (import.go:534).
ImportedUnlessNear ==
  ImportWorked => \A c \in archive.calls : c.site = NoSite \/ ThereWithin(c, DocumentedWindow)
=============================================================================
