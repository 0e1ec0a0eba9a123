------------------------- MODULE Recordings_proofs -------------------------
(***************************************************************************)
(* Proofs about the parts of MCRecords in which recordings come, are       *)
(* imported and are listened through: that of CallRecord for any numbers   *)
(* of sources, rows, faults and tries, any lists that come and any forms   *)
(* clients upload, that of Transfer for any calls, sites, imports and      *)
(* faults, and that of Suggestions for any recordings, transcriptions,     *)
(* scanners, batches and faults.                                           *)
(*                                                                         *)
(* Of CallRecord, KeyInv says what a handler knows of the row it has,      *)
(* GroupInv that ids of groups are unique and which group a handler may    *)
(* refer to, LostInv which rows lose their group to a purge, ListInv what a reported list looks like, and StoredInv how    *)
(* far an upload is with its audio.  TransferInv and SuggestionsInv are    *)
(* the inductive invariants of the other two.                              *)
(***************************************************************************)
EXTENDS MCRecords, Integers, FiniteSetTheorems, WellFoundedInduction, TLAPS

-----------------------------------------------------------------------------
(* CallRecord.                                                             *)

\* What handlers do before they have a row.
Rowless == {"idle", "look", "again", "insert"}

Has(s) == atCallRecord[s].pc \notin Rowless \cup {"done"}

\* A handler that has a row knows its start, which the row keeps until it is purged.
KeyInv ==
  \A s \in C!Source :
    /\ Has(s) => atCallRecord[s].row # 0
    /\ atCallRecord[s].pc \in Rowless => atCallRecord[s].row = 0
    /\ atCallRecord[s].row # 0 =>
         /\ row[atCallRecord[s].row].is # "none"
         /\ row[atCallRecord[s].row].is = "there" =>
              row[atCallRecord[s].row].start = atCallRecord[s].start

\* Ids of groups are unique, and a handler about to refer to a group refers to that of
\* its row's start, if it is still there.
GroupInv ==
  /\ \A t, u \in C!Time :
       groupCallRecord[t].id = groupCallRecord[u].id /\ groupCallRecord[t].id # 0 => t = u
  /\ \A s \in C!Source :
       atCallRecord[s].pc = "link" =>
         /\ atCallRecord[s].group # 0
         /\ \A t \in C!Time :
              groupCallRecord[t].id = atCallRecord[s].group => t = atCallRecord[s].start

\* A handler whose group was purged has a row that is known to be without one, unless
\* another handler gave it one.
LostInv ==
  \A s \in C!Source :
    LET r == atCallRecord[s].row
    IN atCallRecord[s].pc = "link" /\ ~C!GroupThere(s) =>
         r \in bereft \/ row[r].group # 0 \/ row[r].is # "there"

\* A row whose last report had a list of units has that list, until it is purged.
ListInv ==
  \A r \in reported : row[r].is = "purged" \/ (row[r].is = "there" /\ row[r].src = "real")

\* A purged row is empty.
PurgedInv == \A r \in C!Id : row[r].is = "purged" => row[r] = [C!NoRow EXCEPT !.is = "purged"]

\* The audio of an upload is at its row, unless it was not saved, once its handler is
\* past it; a client that was told so has a row.
Stored ==
  C!HasAudio(form) /\ atCallRecord["upload"].row \notin unsaved =>
    row[atCallRecord["upload"].row].is = "purged" \/ row[atCallRecord["upload"].row].audio

StoredInv ==
  /\ atCallRecord["upload"].pc # "filename"
  /\ atCallRecord["upload"].pc \in {"lists", "rows", "end"} => Stored
  /\ answer = "created" =>
       atCallRecord["upload"].pc = "done" /\ atCallRecord["upload"].row # 0 /\ Stored

-----------------------------------------------------------------------------
(* Types.                                                                  *)

RowsOf(g) ==
  [is : {"none", "there", "purged"}, start : C!Time, recording : BOOLEAN, ended : BOOLEAN,
   audio : BOOLEAN, file : BOOLEAN, src : C!Column, freq : C!Column, group : 0 .. g]
PlacesOf(g) ==
  [pc : C!Step, row : 0 .. MaxRowsCallRecord, start : C!Time, group : 0 .. g,
   lists : SUBSET {"src", "freq"}, retried : BOOLEAN, gone : BOOLEAN]
GroupsOf(g) == [id : 0 .. g, primary : 0 .. MaxRowsCallRecord]

CallTypes ==
  /\ groupsCallRecord \in Nat
  /\ row \in [C!Id -> RowsOf(groupsCallRecord)]
  /\ groupCallRecord \in [C!Time -> GroupsOf(groupsCallRecord)]
  /\ atCallRecord \in [C!Source -> PlacesOf(groupsCallRecord)]
  /\ tables \subseteq C!Id /\ partitions \subseteq {"1970", "now"}
  /\ reported \subseteq C!Id /\ ungrouped \subseteq C!Id /\ unsaved \subseteq C!Id
  /\ bereft \subseteq C!Id
OtherTypes ==
  /\ form \in Forms /\ answer \in {"none", "created", "duplicate", "error", "bad"}
  /\ tries \in 0 .. MaxTries /\ faultsCallRecord \in 0 .. MaxFaultsCallRecord /\ old \in BOOLEAN

\* A step of a handler on its way.
Moves(s, pc) ==
  /\ pc \in C!Step
  /\ atCallRecord' = [atCallRecord EXCEPT ![s].pc = pc]

LEMMA CallNumbers ==
  /\ MaxRowsCallRecord \in Nat /\ MaxFaultsCallRecord \in Nat /\ MaxTries \in Nat
  /\ C!Id = 1 .. MaxRowsCallRecord
BY CallRecordAssumption DEF C!Id

LEMMA Places ==
  ASSUME NEW g \in Nat, NEW x \in PlacesOf(g)
  PROVE  /\ x \in PlacesOf(g + 1)
         /\ \A pc \in C!Step : [x EXCEPT !.pc = pc] \in PlacesOf(g)
BY DEF PlacesOf

LEMMA MovesTyped ==
  ASSUME CallTypes, NEW s \in C!Source, NEW pc, Moves(s, pc)
  PROVE  /\ atCallRecord' \in [C!Source -> PlacesOf(groupsCallRecord)]
         /\ atCallRecord'[s] = [atCallRecord[s] EXCEPT !.pc = pc]
         /\ atCallRecord'[s].pc = pc /\ atCallRecord'[s].row = atCallRecord[s].row
         /\ atCallRecord'[s].start = atCallRecord[s].start
         /\ atCallRecord'[s].group = atCallRecord[s].group
         /\ \A u \in C!Source \ {s} : atCallRecord'[u] = atCallRecord[u]
<1>1. atCallRecord[s] \in PlacesOf(groupsCallRecord)
  BY DEF CallTypes
<1>2. atCallRecord'[s] = [atCallRecord[s] EXCEPT !.pc = pc]
  BY DEF CallTypes, Moves
<1>3. \A u \in C!Source \ {s} : atCallRecord'[u] = atCallRecord[u]
  BY DEF CallTypes, Moves
<1>4. atCallRecord'[s] \in PlacesOf(groupsCallRecord)
  BY <1>1, <1>2, Places DEF Moves, CallTypes
<1>5. DOMAIN atCallRecord' = C!Source /\ atCallRecord' = [u \in C!Source |-> atCallRecord'[u]]
  BY DEF CallTypes, Moves
<1>6. /\ atCallRecord'[s].pc = pc /\ atCallRecord'[s].row = atCallRecord[s].row
      /\ atCallRecord'[s].start = atCallRecord[s].start
      /\ atCallRecord'[s].group = atCallRecord[s].group
  BY <1>1, <1>2 DEF PlacesOf
<1> QED
  BY <1>2, <1>3, <1>4, <1>5, <1>6 DEF CallTypes

\* What an update of a row leaves as it was.
RowsKeep ==
  \A q \in C!Id : /\ row'[q].is = row[q].is /\ row'[q].start = row[q].start
                  /\ row[q].is # "there" => row'[q] = row[q]

LEMMA UpdatesKeep ==
  ASSUME CallTypes, KeyInv, NEW s \in C!Source, Has(s),
         NEW x \in RowsOf(groupsCallRecord), C!Update(s, x),
         x.is = C!This(s).is, x.start = C!This(s).start
  PROVE  /\ row' \in [C!Id -> RowsOf(groupsCallRecord)] /\ RowsKeep
         /\ atCallRecord[s].row \in C!Id
         /\ \A q \in C!Id \ {atCallRecord[s].row} : row'[q] = row[q]
         /\ C!Hits(s) => row'[atCallRecord[s].row] = x
         /\ ~C!Hits(s) => row[atCallRecord[s].row].is = "purged" /\ row' = row
<1>0. PICK r : r = atCallRecord[s].row
  OBVIOUS
<1>1. r \in C!Id
  BY <1>0, CallNumbers DEF CallTypes, KeyInv, PlacesOf
<1>2. row[r] \in RowsOf(groupsCallRecord)
  BY <1>1 DEF CallTypes
<1>3. C!Hits(s) <=> row[r].is = "there"
  BY <1>0, <1>1 DEF C!Hits, KeyInv, Has
<1>4. ~C!Hits(s) => row[r].is = "purged"
  BY <1>0, <1>1, <1>2, <1>3 DEF KeyInv, Has, RowsOf
<1>5. CASE C!Hits(s)
  <2>1. row' = [row EXCEPT ![r] = x]
    BY <1>0, <1>5 DEF C!Update
  <2>2. /\ row' \in [C!Id -> RowsOf(groupsCallRecord)] /\ row'[r] = x
        /\ \A q \in C!Id \ {r} : row'[q] = row[q]
    BY <1>1, <2>1 DEF CallTypes
  <2>3. RowsKeep
    BY <1>0, <1>3, <1>5, <2>2 DEF RowsKeep, C!This
  <2> QED
    BY <1>0, <1>1, <1>5, <2>2, <2>3
<1>6. CASE ~C!Hits(s)
  BY <1>0, <1>1, <1>4, <1>6 DEF C!Update, RowsKeep, CallTypes
<1> QED
  BY <1>5, <1>6

LEMMA CallTypesAre == CallTypes /\ OtherTypes => C!TypeOK
BY DEF C!TypeOK, CallTypes, OtherTypes, RowsOf, PlacesOf, GroupsOf

CallInv ==
  /\ CallTypes /\ KeyInv /\ GroupInv /\ LostInv /\ ListInv /\ PurgedInv /\ StoredInv
  /\ C!CallsAreGrouped

-----------------------------------------------------------------------------
(* What keeps each part.                                                   *)

LEMMA KeyKept ==
  ASSUME CallTypes, KeyInv, RowsKeep, NEW s \in C!Source, Has(s),
         NEW pc, pc \notin Rowless, Moves(s, pc)
  PROVE  KeyInv'
<1>1. ASSUME NEW u \in C!Source PROVE atCallRecord'[u].row \in {0} \cup C!Id
  <2>1. atCallRecord'[u] \in PlacesOf(groupsCallRecord)
    BY MovesTyped
  <2>2. atCallRecord'[u].row \in 0 .. MaxRowsCallRecord
    BY <2>1 DEF PlacesOf
  <2> QED
    BY <2>2, CallNumbers
<1>2. \A u \in C!Source : atCallRecord'[u].row = atCallRecord[u].row
                           /\ atCallRecord'[u].start = atCallRecord[u].start
  BY MovesTyped
<1>3. \A u \in C!Source \ {s} : atCallRecord'[u] = atCallRecord[u]
  BY MovesTyped
<1>4. atCallRecord'[s].pc = pc /\ atCallRecord[s].row # 0
  BY MovesTyped DEF KeyInv
<1> QED
  BY <1>1, <1>2, <1>3, <1>4 DEF KeyInv, RowsKeep, Has

LEMMA GroupsKept ==
  ASSUME CallTypes, GroupInv, NEW s \in C!Source, NEW pc, pc # "link", Moves(s, pc),
         \A t \in C!Time : groupCallRecord'[t].id = groupCallRecord[t].id
  PROVE  GroupInv'
<1>1. atCallRecord'[s].pc = pc /\ \A u \in C!Source \ {s} : atCallRecord'[u] = atCallRecord[u]
  BY MovesTyped
<1>2. \A u \in C!Source : atCallRecord'[u].pc = "link" => atCallRecord'[u] = atCallRecord[u]
  BY <1>1
<1> QED
  BY <1>2 DEF GroupInv

LEMMA PurgedKept == ASSUME PurgedInv, RowsKeep PROVE PurgedInv'
BY DEF PurgedInv, RowsKeep, C!NoRow

LEMMA ListsKept ==
  ASSUME CallTypes, ListInv, RowsKeep, reported' = reported,
         \A q \in reported : row'[q].src = row[q].src
  PROVE  ListInv'
BY DEF ListInv, RowsKeep, CallTypes

LEMMA StoredKept ==
  ASSUME CallTypes, KeyInv, StoredInv, RowsKeep, NEW s \in C!Source, NEW pc, Moves(s, pc),
         form' = form, answer' = answer, unsaved \subseteq unsaved',
         Has(s), \A q \in C!Id : row[q].audio => row'[q].audio,
         s = "upload" => /\ pc # "filename"
                         /\ pc \in {"lists", "rows", "end"} =>
                              atCallRecord[s].pc \in {"lists", "rows"} \/ Stored'
  PROVE  StoredInv'
<1>1. /\ atCallRecord'["upload"].row = atCallRecord["upload"].row
      /\ s # "upload" => atCallRecord'["upload"] = atCallRecord["upload"]
      /\ s = "upload" => atCallRecord'["upload"].pc = pc
  BY MovesTyped DEF C!Source
<1>2. ASSUME Stored, atCallRecord["upload"].row # 0 PROVE Stored'
  <2>1. atCallRecord["upload"].row \in C!Id
    BY <1>2, CallNumbers DEF CallTypes, PlacesOf, C!Source
  <2> QED
    BY <1>1, <1>2, <2>1 DEF Stored, RowsKeep, C!HasAudio, C!DetectUploadFormat
<1>3. answer = "created" => s # "upload"
  BY DEF StoredInv, Has
<1>4. atCallRecord["upload"].pc \in {"lists", "rows", "end"} => atCallRecord["upload"].row # 0
  BY DEF KeyInv, Has, Rowless, C!Source
<1>5. StoredInv => /\ atCallRecord["upload"].pc # "filename"
                   /\ atCallRecord["upload"].pc \in {"lists", "rows", "end"} => Stored
                   /\ answer = "created" => atCallRecord["upload"].pc = "done"
                                            /\ atCallRecord["upload"].row # 0 /\ Stored
  BY DEF StoredInv
<1>6. CASE s = "upload"
  BY <1>1, <1>2, <1>3, <1>4, <1>5, <1>6 DEF StoredInv
<1>7. CASE s # "upload"
  BY <1>1, <1>2, <1>4, <1>5, <1>7 DEF StoredInv
<1> QED
  BY <1>6, <1>7

LEMMA GroupedKept ==
  ASSUME CallTypes, C!CallsAreGrouped, RowsKeep, NEW s \in C!Source, NEW pc, Moves(s, pc),
         \A t \in C!Time : groupCallRecord'[t].id = groupCallRecord[t].id,
         \A q \in C!Id : row'[q].group = row[q].group,
         ungrouped \subseteq ungrouped', UNCHANGED bereft,
         atCallRecord[s].pc \in {"group", "link"} =>
           pc \in {"group", "link"} \/ atCallRecord[s].row \in ungrouped'
  PROVE  C!CallsAreGrouped'
<1>1. ASSUME NEW q \in C!Id, C!Creating(q), ~C!Creating(q)' PROVE q \in ungrouped'
  <2>1. PICK u \in C!Source : atCallRecord[u].row = q /\ atCallRecord[u].pc \in {"group", "link"}
    BY <1>1 DEF C!Creating
  <2>2. ~(atCallRecord'[u].row = q /\ atCallRecord'[u].pc \in {"group", "link"})
    BY <1>1 DEF C!Creating
  <2>3. u = s
    BY <2>1, <2>2, MovesTyped
  <2> QED
    BY <2>1, <2>2, <2>3, MovesTyped
<1>2. \A q \in C!Id : row[q].start \in C!Time
  BY DEF CallTypes, RowsOf
<1>3. \A q \in C!Id : row'[q].is = row[q].is /\ row'[q].start = row[q].start
  BY DEF RowsKeep
<1> QED
  BY <1>1, <1>2, <1>3 DEF C!CallsAreGrouped

LEMMA LostKept ==
  ASSUME CallTypes, KeyInv, LostInv, bereft \subseteq bereft',
         \A u \in C!Source : atCallRecord'[u].pc = "link" =>
           /\ atCallRecord[u].pc = "link" /\ atCallRecord'[u].row = atCallRecord[u].row
           /\ atCallRecord'[u].group = atCallRecord[u].group,
         \A t \in C!Time : groupCallRecord'[t].id = groupCallRecord[t].id,
         \A q \in C!Id : row[q].is # "there" \/ row[q].group # 0 =>
                          row'[q].is # "there" \/ row'[q].group # 0
  PROVE  LostInv'
<1> SUFFICES ASSUME NEW u \in C!Source, atCallRecord'[u].pc = "link", ~C!GroupThere(u)',
                    NEW r, r = atCallRecord'[u].row
             PROVE  r \in bereft' \/ row'[r].group # 0 \/ row'[r].is # "there"
  BY DEF LostInv
<1>1. /\ atCallRecord[u].pc = "link" /\ r = atCallRecord[u].row
      /\ atCallRecord'[u].group = atCallRecord[u].group
  OBVIOUS
<1>2. ~C!GroupThere(u)
  BY <1>1 DEF C!GroupThere
<1>3. r \in C!Id
  <2>1. r \in 0 .. MaxRowsCallRecord /\ r # 0
    BY <1>1 DEF CallTypes, PlacesOf, KeyInv, Has, Rowless
  <2> QED
    BY <2>1, CallNumbers
<1> QED
  BY <1>1, <1>2, <1>3 DEF LostInv

-----------------------------------------------------------------------------
(* The steps of a handler that has a row.                                  *)

\* A statement that leaves groups and the group of each row alone.
LEMMA GoesOn ==
  ASSUME CallInv, NEW s \in C!Source, Has(s), NEW pc, pc \notin Rowless, pc # "link",
         Moves(s, pc), row' \in [C!Id -> RowsOf(groupsCallRecord)], RowsKeep,
         \A q \in C!Id : row'[q].group = row[q].group /\ (row[q].audio => row'[q].audio),
         reported' \subseteq C!Id, ListInv',
         UNCHANGED <<groupCallRecord, groupsCallRecord, partitions, form, answer, bereft>>,
         tables' \subseteq C!Id, unsaved' \subseteq C!Id, ungrouped' \subseteq C!Id,
         unsaved \subseteq unsaved', ungrouped \subseteq ungrouped',
         s = "upload" => /\ pc # "filename"
                         /\ pc \in {"lists", "rows", "end"} =>
                              atCallRecord[s].pc \in {"lists", "rows"} \/ Stored',
         atCallRecord[s].pc \in {"group", "link"} =>
           pc \in {"group", "link"} \/ atCallRecord[s].row \in ungrouped'
  PROVE  CallInv'
<1> USE DEF CallInv
<1>2. CallTypes'
  BY MovesTyped DEF CallTypes
<1>3. KeyInv'
  BY KeyKept
<1>4. GroupInv'
  BY GroupsKept
<1>5. PurgedInv'
  BY PurgedKept
<1>7. StoredInv'
  BY StoredKept
<1>8. C!CallsAreGrouped'
  BY GroupedKept
<1>9. LostInv'
  <2>1. \A u \in C!Source : atCallRecord'[u].pc = "link" => atCallRecord'[u] = atCallRecord[u]
    BY MovesTyped
  <2>2. \A q \in C!Id : row'[q].is = row[q].is /\ row'[q].group = row[q].group
    BY DEF RowsKeep
  <2> QED
    BY <2>1, <2>2, LostKept
<1> QED
  BY <1>2, <1>3, <1>4, <1>5, <1>7, <1>8, <1>9

\* A statement that fails, or is about something else.
LEMMA LeavesRows ==
  ASSUME CallTypes, UNCHANGED row
  PROVE  /\ row' \in [C!Id -> RowsOf(groupsCallRecord)] /\ RowsKeep
         /\ \A q \in C!Id : row'[q].group = row[q].group /\ (row[q].audio => row'[q].audio)
         /\ ListInv /\ UNCHANGED reported => ListInv'
BY DEF CallTypes, RowsKeep, ListInv

\* A statement that updates the handler's row, but not its group, lists or report.
LEMMA ChangesRow ==
  ASSUME CallInv, NEW s \in C!Source, Has(s), NEW x \in RowsOf(groupsCallRecord),
         C!Update(s, x), x.is = C!This(s).is, x.start = C!This(s).start,
         x.group = C!This(s).group, C!This(s).audio => x.audio
  PROVE  /\ row' \in [C!Id -> RowsOf(groupsCallRecord)] /\ RowsKeep
         /\ \A q \in C!Id : row'[q].group = row[q].group /\ (row[q].audio => row'[q].audio)
         /\ UNCHANGED reported /\ x.src = C!This(s).src => ListInv'
<1>1. CallTypes /\ KeyInv /\ ListInv
  BY DEF CallInv
<1>2. PICK r \in C!Id :
        /\ r = atCallRecord[s].row
        /\ row' \in [C!Id -> RowsOf(groupsCallRecord)] /\ RowsKeep
        /\ \A q \in C!Id \ {r} : row'[q] = row[q]
        /\ row'[r] = x \/ row' = row
  BY <1>1, UpdatesKeep
<1>3. \A q \in C!Id : row'[q].group = row[q].group /\ (row[q].audio => row'[q].audio)
  BY <1>2 DEF C!This
<1>4. ASSUME UNCHANGED reported, x.src = C!This(s).src PROVE ListInv'
  <2>1. \A q \in C!Id : row'[q].src = row[q].src
    BY <1>2, <1>4 DEF C!This
  <2> QED
    BY <1>1, <1>2, <1>4, <2>1, ListsKept DEF CallTypes
<1> QED
  BY <1>2, <1>3, <1>4

LEMMA HandlersRow ==
  ASSUME CallTypes, KeyInv, NEW s \in C!Source, Has(s)
  PROVE  /\ atCallRecord[s].row \in C!Id
         /\ C!This(s) \in RowsOf(groupsCallRecord)
<1>1. atCallRecord[s] \in PlacesOf(groupsCallRecord)
  BY DEF CallTypes
<1>2. atCallRecord[s].row \in 0 .. MaxRowsCallRecord /\ atCallRecord[s].row # 0
  BY <1>1 DEF PlacesOf, KeyInv
<1>3. atCallRecord[s].row \in C!Id
  BY <1>2, CallNumbers
<1> QED
  BY <1>3 DEF CallTypes, C!This

\* The shapes of the updates.
LEMMA RowChanges ==
  ASSUME NEW g \in Nat, NEW x \in RowsOf(g), NEW b \in BOOLEAN, NEW c \in C!Column,
         NEW d \in C!Column, NEW n \in 0 .. g
  PROVE  /\ [x EXCEPT !.group = n] \in RowsOf(g)
         /\ [x EXCEPT !.recording = b] \in RowsOf(g)
         /\ [x EXCEPT !.ended = TRUE] \in RowsOf(g)
         /\ [x EXCEPT !.recording = FALSE, !.ended = TRUE, !.file = b] \in RowsOf(g)
         /\ [x EXCEPT !.src = c, !.freq = d] \in RowsOf(g)
         /\ [x EXCEPT !.audio = TRUE] \in RowsOf(g)
         /\ [x EXCEPT !.file = @ \/ b] \in RowsOf(g)
<1> USE DEF RowsOf
<1>1. x.file \/ b \in BOOLEAN
  BY DEF RowsOf
<1> QED
  BY <1>1

LEMMA HandlersGo ==
  /\ \A s \in C!Source : /\ C!Existing(s) \in {"fields", "air", "lists", "save", "filename"}
                         /\ C!Grouped(s) \in {"air", "events", "lists", "save", "filename"}
  /\ C!Existing("upload") = "save" /\ C!Grouped("upload") = "save" /\ "upload" \in C!Source
  /\ C!Existing("radio") = "fields" /\ C!Existing("file") = "filename"
  /\ C!Existing("audio") \in {"save", "lists"} /\ C!Grouped("radio") = "air"
BY DEF C!Existing, C!Grouped, C!Source

LEMMA Stays ==
  ASSUME CallTypes, NEW s \in C!Source, UNCHANGED atCallRecord
  PROVE  Moves(s, atCallRecord[s].pc)
<1>1. atCallRecord[s] \in PlacesOf(groupsCallRecord)
  BY DEF CallTypes
<1>2. [atCallRecord[s] EXCEPT !.pc = atCallRecord[s].pc] = atCallRecord[s]
  BY <1>1 DEF PlacesOf
<1>3. [atCallRecord EXCEPT ![s] = atCallRecord[s]] = atCallRecord
  BY DEF CallTypes
<1> QED
  BY <1>1, <1>2, <1>3 DEF Moves, PlacesOf

LEMMA CallEnds ==
  ASSUME CallInv, NEW s \in C!Source,
         C!GetUnitEventsForCall(s) \/ C!InsertRows(s, "synthesized", "done")
           \/ C!InsertRows(s, "rows", "end") \/ C!GroupFails(s) \/ C!SaveAudio(s)
  PROVE  CallInv'
<1> USE DEF C!At
<1>1. CallTypes /\ KeyInv /\ ListInv
  BY DEF CallInv
<1>2. /\ UNCHANGED <<row, groupCallRecord, groupsCallRecord, partitions, form, answer, reported,
                     bereft>>
      /\ unsaved \subseteq unsaved' /\ ungrouped \subseteq ungrouped'
  BY DEF C!GetUnitEventsForCall, C!InsertRows, C!GroupFails, C!SaveAudio, C!client, C!history
<1>3. Has(s)
  BY DEF C!GetUnitEventsForCall, C!InsertRows, C!GroupFails, C!SaveAudio, Has, Rowless
<1>4. atCallRecord[s].row \in C!Id
  BY <1>1, <1>3, HandlersRow
<1>5. /\ tables' \subseteq C!Id /\ unsaved' \subseteq C!Id /\ ungrouped' \subseteq C!Id
  BY <1>1, <1>4 DEF C!GetUnitEventsForCall, C!InsertRows, C!GroupFails, C!SaveAudio, C!client,
     C!history, CallTypes
<1>6. /\ row' \in [C!Id -> RowsOf(groupsCallRecord)] /\ RowsKeep /\ ListInv'
      /\ \A q \in C!Id : row'[q].group = row[q].group /\ (row[q].audio => row'[q].audio)
  BY <1>1, <1>2, LeavesRows
<1>7. reported' \subseteq C!Id
  BY <1>1, <1>2 DEF CallTypes
<1>8. ASSUME NEW pc, pc \notin Rowless, pc # "link", pc # "filename", Moves(s, pc),
             s = "upload" /\ pc \in {"lists", "rows", "end"} =>
               atCallRecord[s].pc \in {"lists", "rows"} \/ Stored',
             atCallRecord[s].pc \in {"group", "link"} => atCallRecord[s].row \in ungrouped'
      PROVE  CallInv'
  BY <1>2, <1>3, <1>5, <1>6, <1>7, <1>8, GoesOn
<1>9. CASE C!GetUnitEventsForCall(s)
  <2>1. PICK pc \in {"ifnull", "done"} : C!Goto(s, pc)
    BY <1>9 DEF C!GetUnitEventsForCall
  <2>2. Moves(s, pc) /\ atCallRecord[s].pc = "events"
    BY <1>9, <2>1 DEF C!GetUnitEventsForCall, C!Goto, Moves, C!Step
  <2> QED
    BY <1>8, <2>1, <2>2 DEF Rowless
<1>10. CASE C!InsertRows(s, "synthesized", "done")
  <2>1. Moves(s, "done") /\ atCallRecord[s].pc = "synthesized"
    BY <1>10 DEF C!InsertRows, C!Goto, Moves, C!Step
  <2> QED
    BY <1>8, <2>1 DEF Rowless
<1>11. CASE C!InsertRows(s, "rows", "end")
  <2>1. Moves(s, "end") /\ atCallRecord[s].pc = "rows"
    BY <1>11 DEF C!InsertRows, C!Goto, Moves, C!Step
  <2> QED
    BY <1>8, <2>1 DEF Rowless
<1>12. CASE C!GroupFails(s)
  <2>1. /\ C!Goto(s, C!Grouped(s)) /\ atCallRecord[s].row \in ungrouped'
        /\ atCallRecord[s].pc = "group"
    BY <1>12 DEF C!GroupFails
  <2>2. PICK pc : pc = C!Grouped(s)
    OBVIOUS
  <2>3. /\ pc \in {"air", "events", "lists", "save", "filename"}
        /\ s = "upload" => pc = "save"
    BY <2>2, HandlersGo
  <2>4. Moves(s, pc)
    BY <2>1, <2>2, <2>3 DEF C!Goto, Moves, C!Step
  <2> QED
    BY <1>2, <1>3, <1>5, <1>6, <1>7, <2>1, <2>3, <2>4, GoesOn DEF Rowless
<1>13. CASE C!SaveAudio(s)
  <2>1. atCallRecord[s].pc = "save"
    BY <1>13 DEF C!SaveAudio
  <2>2. CASE C!Goto(s, "audio")
    <3>1. Moves(s, "audio")
      BY <2>2 DEF C!Goto, Moves, C!Step
    <3> QED
      BY <1>8, <2>1, <3>1 DEF Rowless
  <2>3. CASE C!Goto(s, "lists") /\ ~C!Goto(s, "audio")
    <3>1. Moves(s, "lists")
      BY <2>3 DEF C!Goto, Moves, C!Step
    <3>2. s = "upload" => ~C!HasAudio(form) \/ atCallRecord[s].row \in unsaved'
      BY <1>13, <2>3 DEF C!SaveAudio
    <3>3. atCallRecord'[s].row = atCallRecord[s].row
      BY <1>1, <3>1, MovesTyped
    <3>4. s = "upload" => Stored'
      BY <1>2, <3>2, <3>3 DEF Stored, C!HasAudio, C!DetectUploadFormat
    <3> QED
      BY <1>8, <2>1, <3>1, <3>4 DEF Rowless
  <2> QED
    BY <1>13, <2>2, <2>3 DEF C!SaveAudio
<1> QED
  BY <1>9, <1>10, <1>11, <1>12, <1>13

\* What a statement that updates the handler's row comes to, if it works or fails.
LEMMA UpdatesGoOn ==
  ASSUME CallInv, NEW s \in C!Source, Has(s), NEW pc, pc \notin Rowless, pc # "link",
         Moves(s, pc),
         \/ UNCHANGED row
         \/ \E x \in RowsOf(groupsCallRecord) :
              /\ C!Update(s, x) /\ x.is = C!This(s).is /\ x.start = C!This(s).start
              /\ x.group = C!This(s).group /\ (C!This(s).audio => x.audio)
              /\ x.src = C!This(s).src,
         UNCHANGED <<groupCallRecord, groupsCallRecord, tables, partitions, form, answer,
                     reported, ungrouped, bereft>>,
         unsaved \subseteq unsaved', unsaved' \subseteq C!Id,
         s = "upload" => /\ pc # "filename"
                         /\ pc \in {"lists", "rows", "end"} =>
                              atCallRecord[s].pc \in {"lists", "rows"} \/ Stored',
         atCallRecord[s].pc \notin {"group", "link"}
  PROVE  CallInv'
<1>1. CallTypes /\ KeyInv /\ ListInv
  BY DEF CallInv
<1>2. /\ row' \in [C!Id -> RowsOf(groupsCallRecord)] /\ RowsKeep /\ ListInv'
      /\ \A q \in C!Id : row'[q].group = row[q].group /\ (row[q].audio => row'[q].audio)
  <2>1. CASE UNCHANGED row
    BY <1>1, <2>1, LeavesRows
  <2>2. CASE ~UNCHANGED row
    <3>1. PICK x \in RowsOf(groupsCallRecord) :
              /\ C!Update(s, x) /\ x.is = C!This(s).is /\ x.start = C!This(s).start
              /\ x.group = C!This(s).group /\ (C!This(s).audio => x.audio)
              /\ x.src = C!This(s).src
      BY <2>2
    <3> QED
      BY <3>1, ChangesRow
  <2> QED
    BY <2>1, <2>2
<1>3. /\ tables' \subseteq C!Id /\ ungrouped' \subseteq C!Id /\ reported' \subseteq C!Id
  BY <1>1 DEF CallTypes
<1> QED
  BY <1>2, <1>3, GoesOn

LEMMA CallUpdates ==
  ASSUME CallInv, NEW s \in C!Source,
         C!UpdateCallStartFields(s) \/ C!UpdateCallElapsed(s) \/ C!UpdateCallEnd(s)
           \/ C!UpdateCallAudio(s) \/ C!UpdateCallFilename(s)
  PROVE  CallInv'
<1> USE DEF C!At
<1>1. CallTypes /\ KeyInv /\ StoredInv
  BY DEF CallInv
<1>2. /\ UNCHANGED <<groupCallRecord, groupsCallRecord, tables, partitions, form, answer, reported,
                     ungrouped, bereft>>
      /\ atCallRecord[s].pc \notin {"group", "link"} /\ Has(s)
  BY DEF C!UpdateCallStartFields, C!UpdateCallElapsed, C!UpdateCallEnd, C!UpdateCallAudio,
     C!UpdateCallFilename, C!client, C!history, Has, Rowless
<1>3. atCallRecord[s].row \in C!Id /\ C!This(s) \in RowsOf(groupsCallRecord)
  BY <1>1, <1>2, HandlersRow
<1>4. /\ unsaved \subseteq unsaved' /\ unsaved' \subseteq C!Id
      /\ C!UpdateCallAudio(s) \/ UNCHANGED unsaved
  BY <1>1, <1>3 DEF C!UpdateCallStartFields, C!UpdateCallElapsed, C!UpdateCallEnd,
     C!UpdateCallAudio, C!UpdateCallFilename, C!history, CallTypes
<1>5. PICK x : x = C!This(s)
  OBVIOUS
<1>6. x \in RowsOf(groupsCallRecord) /\ groupsCallRecord \in Nat
  BY <1>1, <1>3, <1>5 DEF CallTypes
<1>7. ASSUME NEW b \in BOOLEAN
      PROVE  /\ [x EXCEPT !.recording = b] \in RowsOf(groupsCallRecord)
             /\ [x EXCEPT !.ended = TRUE] \in RowsOf(groupsCallRecord)
             /\ [x EXCEPT !.recording = FALSE, !.ended = TRUE, !.file = b] \in RowsOf(groupsCallRecord)
             /\ [x EXCEPT !.audio = TRUE] \in RowsOf(groupsCallRecord)
             /\ [x EXCEPT !.file = @ \/ b] \in RowsOf(groupsCallRecord)
             /\ \A y \in {[x EXCEPT !.recording = b], [x EXCEPT !.ended = TRUE],
                          [x EXCEPT !.recording = FALSE, !.ended = TRUE, !.file = b],
                          [x EXCEPT !.audio = TRUE], [x EXCEPT !.file = @ \/ b]} :
                  /\ y.is = x.is /\ y.start = x.start /\ y.group = x.group /\ y.src = x.src
                  /\ x.audio => y.audio
  <2>1. x.group \in 0 .. groupsCallRecord /\ "null" \in C!Column
    BY <1>6 DEF RowsOf, C!Column
  <2>2. /\ [x EXCEPT !.recording = b] \in RowsOf(groupsCallRecord)
        /\ [x EXCEPT !.ended = TRUE] \in RowsOf(groupsCallRecord)
        /\ [x EXCEPT !.recording = FALSE, !.ended = TRUE, !.file = b] \in RowsOf(groupsCallRecord)
        /\ [x EXCEPT !.audio = TRUE] \in RowsOf(groupsCallRecord)
        /\ [x EXCEPT !.file = @ \/ b] \in RowsOf(groupsCallRecord)
    BY <1>6, <2>1, RowChanges
  <2>3. \A y \in {[x EXCEPT !.recording = b], [x EXCEPT !.ended = TRUE],
                          [x EXCEPT !.recording = FALSE, !.ended = TRUE, !.file = b],
                          [x EXCEPT !.audio = TRUE], [x EXCEPT !.file = @ \/ b]} :
                  /\ y.is = x.is /\ y.start = x.start /\ y.group = x.group /\ y.src = x.src
                  /\ x.audio => y.audio
    BY <1>6 DEF RowsOf
  <2> QED
    BY <2>2, <2>3
<1>8. ASSUME NEW b \in BOOLEAN,
             NEW y \in {[x EXCEPT !.recording = b], [x EXCEPT !.ended = TRUE],
                          [x EXCEPT !.recording = FALSE, !.ended = TRUE, !.file = b],
                          [x EXCEPT !.audio = TRUE], [x EXCEPT !.file = @ \/ b]},
             C!Update(s, y)
      PROVE  \E z \in RowsOf(groupsCallRecord) :
              /\ C!Update(s, z) /\ z.is = C!This(s).is /\ z.start = C!This(s).start
              /\ z.group = C!This(s).group /\ (C!This(s).audio => z.audio)
              /\ z.src = C!This(s).src
  <2>1. y \in RowsOf(groupsCallRecord)
    BY <1>7, <1>8
  <2>2. /\ y.is = x.is /\ y.start = x.start /\ y.group = x.group /\ y.src = x.src
        /\ x.audio => y.audio
    BY <1>7, <1>8
  <2> QED
    BY <1>5, <1>8, <2>1, <2>2
<1>9. CASE C!UpdateCallStartFields(s)
  <2>1. Moves(s, "group") /\ atCallRecord[s].pc = "fields"
    BY <1>9 DEF C!UpdateCallStartFields, C!Goto, Moves, C!Step
  <2>2. CASE UNCHANGED row
    BY <1>2, <1>4, <2>1, <2>2, UpdatesGoOn DEF Rowless
  <2>3. CASE \E b \in BOOLEAN : C!Update(s, [C!This(s) EXCEPT !.recording = b])
    <3>1. PICK b \in BOOLEAN : C!Update(s, [x EXCEPT !.recording = b])
      BY <1>5, <2>3
    <3> QED
      BY <1>2, <1>4, <1>8, <2>1, <3>1, UpdatesGoOn DEF Rowless
  <2> QED
    BY <1>9, <2>2, <2>3 DEF C!UpdateCallStartFields
<1>10. CASE C!UpdateCallElapsed(s)
  <2>1. Moves(s, "air") /\ atCallRecord[s].pc = "air"
    BY <1>1, <1>10, Stays DEF C!UpdateCallElapsed
  <2>2. C!Update(s, [x EXCEPT !.ended = TRUE])
    BY <1>5, <1>10, <1>3, <1>1 DEF C!UpdateCallElapsed, C!Update, C!This, CallTypes
  <2> QED
    BY <1>2, <1>4, <1>8, <2>1, <2>2, UpdatesGoOn DEF Rowless
<1>11. CASE C!UpdateCallEnd(s)
  <2>1. atCallRecord[s].pc = "air"
    BY <1>11 DEF C!UpdateCallEnd
  <2>2. CASE UNCHANGED <<row, atCallRecord>>
    <3>1. Moves(s, "air")
      BY <1>1, <2>1, <2>2, Stays
    <3> QED
      BY <1>2, <1>4, <2>1, <2>2, <3>1, UpdatesGoOn DEF Rowless
  <2>3. CASE C!Goto(s, "events")
    <3>1. Moves(s, "events")
      BY <2>3 DEF C!Goto, Moves, C!Step
    <3>2. CASE UNCHANGED row
      BY <1>2, <1>4, <2>1, <3>1, <3>2, UpdatesGoOn DEF Rowless
    <3>3. CASE \E b \in BOOLEAN : C!Update(s, [C!This(s) EXCEPT !.recording = FALSE, !.ended = TRUE, !.file = b])
      <4>1. PICK b \in BOOLEAN : C!Update(s, [x EXCEPT !.recording = FALSE, !.ended = TRUE, !.file = b])
        BY <1>5, <3>3
      <4> QED
        BY <1>2, <1>4, <1>8, <2>1, <3>1, <4>1, UpdatesGoOn DEF Rowless
    <3>4. CASE UNCHANGED <<row, atCallRecord>>
      BY <2>2, <3>4
    <3> QED
      BY <1>11, <3>2, <3>3, <3>4 DEF C!UpdateCallEnd
  <2>4. CASE UNCHANGED row /\ C!Goto(s, "done")
    <3>1. Moves(s, "done")
      BY <2>4 DEF C!Goto, Moves, C!Step
    <3> QED
      BY <1>2, <1>4, <2>1, <2>4, <3>1, UpdatesGoOn DEF Rowless
  <2> QED
    BY <1>11, <2>2, <2>3, <2>4 DEF C!UpdateCallEnd
<1>12. CASE C!UpdateCallFilename(s)
  <2>1. Moves(s, "lists") /\ atCallRecord[s].pc = "filename" /\ s # "upload"
    BY <1>1, <1>12 DEF C!UpdateCallFilename, C!Goto, Moves, C!Step, StoredInv
  <2>2. CASE UNCHANGED row
    BY <1>2, <1>4, <2>1, <2>2, UpdatesGoOn DEF Rowless
  <2>3. CASE \E b \in BOOLEAN : C!Update(s, [C!This(s) EXCEPT !.file = @ \/ b])
    <3>1. PICK b \in BOOLEAN : C!Update(s, [x EXCEPT !.file = @ \/ b])
      BY <1>5, <2>3
    <3> QED
      BY <1>2, <1>4, <1>8, <2>1, <3>1, UpdatesGoOn DEF Rowless
  <2> QED
    BY <1>12, <2>2, <2>3 DEF C!UpdateCallFilename
<1>13. CASE C!UpdateCallAudio(s)
  <2>1. Moves(s, "lists") /\ atCallRecord[s].pc = "audio"
    BY <1>13 DEF C!UpdateCallAudio, C!Goto, Moves, C!Step
  <2>2. atCallRecord'[s].row = atCallRecord[s].row
    BY <1>1, <2>1, MovesTyped
  <2>3. CASE UNCHANGED row /\ (s = "upload" => unsaved' = unsaved \cup {atCallRecord[s].row})
    <3>1. s = "upload" => Stored'
      BY <2>2, <2>3 DEF Stored
    <3> QED
      BY <1>2, <1>4, <2>1, <2>3, <3>1, UpdatesGoOn DEF Rowless
  <2>4. CASE C!Update(s, [C!This(s) EXCEPT !.audio = TRUE]) /\ UNCHANGED unsaved
    <3>1. PICK y : y = [x EXCEPT !.audio = TRUE]
      OBVIOUS
    <3>2. y \in RowsOf(groupsCallRecord) /\ y.audio /\ y.is = C!This(s).is /\ y.start = C!This(s).start
      <4>1. y.audio
        BY <1>6, <3>1 DEF RowsOf
      <4>2. y \in RowsOf(groupsCallRecord) /\ y.is = x.is /\ y.start = x.start
        BY <1>7, <3>1
      <4> QED
        BY <1>5, <4>1, <4>2
    <3>3. C!Update(s, y)
      BY <1>5, <2>4, <3>1
    <3>4. row'[atCallRecord[s].row].audio \/ row'[atCallRecord[s].row].is = "purged"
      BY <1>1, <1>2, <3>2, <3>3, UpdatesKeep
    <3>5. s = "upload" => Stored'
      BY <2>2, <3>4 DEF Stored
    <3>6. \E z \in RowsOf(groupsCallRecord) :
              /\ C!Update(s, z) /\ z.is = C!This(s).is /\ z.start = C!This(s).start
              /\ z.group = C!This(s).group /\ (C!This(s).audio => z.audio)
              /\ z.src = C!This(s).src
      BY <1>8, <3>1, <3>3
    <3> QED
      BY <1>2, <1>4, <2>1, <3>5, <3>6, UpdatesGoOn DEF Rowless
  <2> QED
    BY <1>13, <2>3, <2>4 DEF C!UpdateCallAudio
<1> QED
  BY <1>9, <1>10, <1>11, <1>12, <1>13

\* The lists: synthesized ones for a row without, and those of a report.
LEMMA ListsUpdates ==
  ASSUME CallInv, NEW s \in C!Source, C!UpdateCallSrcFreqIfNull(s) \/ C!UpdateCallSrcFreq(s)
  PROVE  CallInv'
<1> USE DEF C!At
<1>1. CallTypes /\ KeyInv /\ StoredInv /\ ListInv
  BY DEF CallInv
<1>2. /\ UNCHANGED <<groupCallRecord, groupsCallRecord, tables, partitions, form, answer,
                     ungrouped, unsaved, bereft>>
      /\ atCallRecord[s].pc \in {"ifnull", "lists"} /\ Has(s)
  BY DEF C!UpdateCallSrcFreqIfNull, C!UpdateCallSrcFreq, C!client, C!history, Has, Rowless
<1>3. atCallRecord[s].row \in C!Id /\ C!This(s) \in RowsOf(groupsCallRecord)
  BY <1>1, <1>2, HandlersRow
<1>4. /\ tables' \subseteq C!Id /\ unsaved' \subseteq C!Id /\ ungrouped' \subseteq C!Id
      /\ unsaved \subseteq unsaved' /\ ungrouped \subseteq ungrouped'
      /\ reported' \subseteq C!Id
  BY <1>1, <1>2, <1>3 DEF CallTypes, C!UpdateCallSrcFreqIfNull, C!UpdateCallSrcFreq, C!history
<1>5. PICK pc \in {"synthesized", "done", "end", "rows"} :
        Moves(s, pc) /\ (pc \in {"end", "rows"} => atCallRecord[s].pc = "lists")
  BY DEF C!UpdateCallSrcFreqIfNull, C!UpdateCallSrcFreq, C!Goto, Moves, C!Step
<1>6. ASSUME /\ row' \in [C!Id -> RowsOf(groupsCallRecord)] /\ RowsKeep /\ ListInv'
             /\ \A q \in C!Id : row'[q].group = row[q].group /\ (row[q].audio => row'[q].audio)
      PROVE  CallInv'
  BY <1>2, <1>4, <1>5, <1>6, GoesOn DEF Rowless
<1>7. CASE UNCHANGED <<row, reported>>
  BY <1>1, <1>6, <1>7, LeavesRows
<1>8. PICK x : x = C!This(s)
  OBVIOUS
<1>9. x \in RowsOf(groupsCallRecord) /\ groupsCallRecord \in Nat
  BY <1>1, <1>3, <1>8 DEF CallTypes
<1>10. ASSUME NEW c \in C!Column, NEW d \in C!Column, C!Update(s, [C!This(s) EXCEPT !.src = c, !.freq = d])
       PROVE  /\ row' \in [C!Id -> RowsOf(groupsCallRecord)] /\ RowsKeep
              /\ \A q \in C!Id : row'[q].group = row[q].group /\ (row[q].audio => row'[q].audio)
              /\ \A q \in C!Id \ {atCallRecord[s].row} : row'[q] = row[q]
              /\ C!Hits(s) => row'[atCallRecord[s].row].src = c
              /\ ~C!Hits(s) => row' = row
  <2>1. PICK y : y = [x EXCEPT !.src = c, !.freq = d]
    OBVIOUS
  <2>2. y.is = x.is /\ y.start = x.start /\ y.group = x.group /\ y.audio = x.audio /\ y.src = c
    BY <1>9, <2>1 DEF RowsOf
  <2>3. y \in RowsOf(groupsCallRecord)
    <3>1. TRUE \in BOOLEAN /\ x.group \in 0 .. groupsCallRecord
      BY <1>9 DEF RowsOf
    <3> QED
      BY <1>9, <1>10, <2>1, <3>1, RowChanges
  <2>4. C!Update(s, y)
    BY <1>8, <1>10, <2>1
  <2> QED
    BY <1>1, <1>2, <1>8, <2>2, <2>3, <2>4, ChangesRow, UpdatesKeep
<1>11. C!Hits(s) => row[atCallRecord[s].row].is = "there"
  BY DEF C!Hits
<1>12. CASE C!UpdateCallSrcFreqIfNull(s) /\ ~UNCHANGED row
  <2>1. /\ C!Unlisted(s) /\ UNCHANGED reported
        /\ \E freq \in {"null", "synthesized"} :
             C!Update(s, [C!This(s) EXCEPT !.src = "synthesized", !.freq = freq])
    BY <1>12 DEF C!UpdateCallSrcFreqIfNull, C!history
  <2>2. PICK freq \in {"null", "synthesized"} :
             C!Update(s, [C!This(s) EXCEPT !.src = "synthesized", !.freq = freq])
    BY <2>1
  <2>3. atCallRecord[s].row \notin reported
    BY <1>1, <1>11, <2>1 DEF C!Unlisted, C!This, ListInv
  <2>4. /\ row' \in [C!Id -> RowsOf(groupsCallRecord)] /\ RowsKeep
        /\ \A q \in C!Id : row'[q].group = row[q].group /\ (row[q].audio => row'[q].audio)
        /\ \A q \in C!Id \ {atCallRecord[s].row} : row'[q] = row[q]
    BY <1>10, <2>2 DEF C!Column
  <2>5. ListInv'
    BY <1>1, <2>1, <2>3, <2>4 DEF ListInv, CallTypes
  <2> QED
    BY <1>6, <2>4, <2>5
<1>13. CASE C!UpdateCallSrcFreq(s) /\ ~UNCHANGED <<row, reported>>
  <2>1. /\ C!Update(s, [C!This(s) EXCEPT !.src = C!Brought(s, "src"), !.freq = C!Brought(s, "freq")])
        /\ reported' = IF ~C!Hits(s) THEN reported
                       ELSE IF "src" \in atCallRecord[s].lists THEN reported \cup {atCallRecord[s].row}
                       ELSE reported \ {atCallRecord[s].row}
    BY <1>13 DEF C!UpdateCallSrcFreq
  <2>2. /\ C!Brought(s, "src") \in C!Column /\ C!Brought(s, "freq") \in C!Column
        /\ "src" \in atCallRecord[s].lists => C!Brought(s, "src") = "real"
    BY DEF C!Brought, C!Column
  <2>3. /\ row' \in [C!Id -> RowsOf(groupsCallRecord)] /\ RowsKeep
        /\ \A q \in C!Id : row'[q].group = row[q].group /\ (row[q].audio => row'[q].audio)
        /\ \A q \in C!Id \ {atCallRecord[s].row} : row'[q] = row[q]
        /\ C!Hits(s) => row'[atCallRecord[s].row].src = C!Brought(s, "src")
        /\ ~C!Hits(s) => row' = row
    BY <1>10, <2>1, <2>2
  <2>4. ListInv'
    <3>1. CASE ~C!Hits(s)
      BY <1>1, <2>1, <2>3, <3>1 DEF ListInv
    <3>2. CASE C!Hits(s)
      <4>1. row'[atCallRecord[s].row].is = "there"
        BY <1>3, <1>11, <2>3, <3>2 DEF RowsKeep
      <4>2. \A q \in reported' : q # atCallRecord[s].row => q \in reported /\ row'[q] = row[q]
        BY <1>4, <2>1, <2>3
      <4>3. atCallRecord[s].row \in reported' => row'[atCallRecord[s].row].src = "real"
        BY <2>1, <2>2, <2>3, <3>2
      <4> QED
        BY <1>1, <4>1, <4>2, <4>3 DEF ListInv
    <3> QED
      BY <3>1, <3>2
  <2> QED
    BY <1>6, <2>3, <2>4
<1>14. CASE UNCHANGED row /\ C!UpdateCallSrcFreqIfNull(s)
  BY <1>7, <1>14 DEF C!UpdateCallSrcFreqIfNull, C!history
<1> QED
  BY <1>7, <1>12, <1>13, <1>14

-----------------------------------------------------------------------------
(* Groups.                                                                 *)

LEMMA TypesGrow ==
  ASSUME NEW g \in Nat
  PROVE  RowsOf(g) \subseteq RowsOf(g + 1) /\ GroupsOf(g) \subseteq GroupsOf(g + 1)
<1>1. 0 .. g \subseteq 0 .. (g + 1)
  OBVIOUS
<1> QED
  BY <1>1 DEF RowsOf, GroupsOf

LEMMA UpsertTyped ==
  ASSUME CallInv, NEW s \in C!Source, C!UpsertCallGroup(s)
  PROVE  /\ CallTypes'
         /\ atCallRecord'[s].pc = "link" /\ atCallRecord'[s].row = atCallRecord[s].row
         /\ atCallRecord'[s].start = atCallRecord[s].start
         /\ \A u \in C!Source \ {s} : atCallRecord'[u] = atCallRecord[u]
         /\ atCallRecord[s].start \in C!Time /\ atCallRecord'[s].group # 0
         /\ atCallRecord'[s].group = groupCallRecord'[atCallRecord[s].start].id
         /\ \/ UNCHANGED <<groupCallRecord, groupsCallRecord>>
            \/ /\ groupsCallRecord' = groupsCallRecord + 1
               /\ groupCallRecord[atCallRecord[s].start].id = 0
               /\ groupCallRecord'[atCallRecord[s].start].id = groupsCallRecord + 1
               /\ \A t \in C!Time \ {atCallRecord[s].start} : groupCallRecord'[t] = groupCallRecord[t]
<1> USE DEF C!At
<1>1. CallTypes
  BY DEF CallInv
<1>2. PICK p : p = atCallRecord[s]
  OBVIOUS
<1>3. p \in PlacesOf(groupsCallRecord) /\ p.start \in C!Time /\ groupsCallRecord \in Nat
  BY <1>1, <1>2 DEF CallTypes, PlacesOf
<1>4. /\ groupCallRecord[p.start] \in GroupsOf(groupsCallRecord)
      /\ groupCallRecord[p.start].id \in 0 .. groupsCallRecord
  BY <1>1, <1>3 DEF CallTypes, GroupsOf
<1>5. PICK n : n = atCallRecord'[s].group
  OBVIOUS
<1>6. \/ n = groupCallRecord[p.start].id /\ n # 0 /\ UNCHANGED <<groupCallRecord, groupsCallRecord>>
      \/ /\ n = groupsCallRecord + 1 /\ groupsCallRecord' = n
         /\ groupCallRecord[p.start].id = 0
         /\ groupCallRecord' = [groupCallRecord EXCEPT ![p.start] = [id |-> n, primary |-> 0]]
  BY <1>1, <1>2, <1>3, <1>5 DEF C!UpsertCallGroup, CallTypes, PlacesOf
<1>7. /\ groupsCallRecord' \in {groupsCallRecord, groupsCallRecord + 1} /\ n \in 0 .. groupsCallRecord'
      /\ n # 0
  BY <1>3, <1>4, <1>6
<1>8. atCallRecord' = [atCallRecord EXCEPT ![s] = [p EXCEPT !.group = n, !.pc = "link"]]
  BY <1>1, <1>2, <1>3, <1>5 DEF C!UpsertCallGroup, CallTypes, PlacesOf
<1>9. [p EXCEPT !.group = n, !.pc = "link"] \in PlacesOf(groupsCallRecord')
  <2>1. p.row \in 0 .. MaxRowsCallRecord /\ "link" \in C!Step
    BY <1>3 DEF PlacesOf, C!Step
  <2> QED
    BY <1>3, <1>7, <2>1 DEF PlacesOf
<1>10. /\ atCallRecord'[s] = [p EXCEPT !.group = n, !.pc = "link"]
       /\ \A u \in C!Source \ {s} : atCallRecord'[u] = atCallRecord[u]
  BY <1>1, <1>8 DEF CallTypes
<1>11. /\ atCallRecord'[s].pc = "link" /\ atCallRecord'[s].row = p.row
       /\ atCallRecord'[s].start = p.start
  BY <1>3, <1>10 DEF PlacesOf
<1>12. atCallRecord' \in [C!Source -> PlacesOf(groupsCallRecord')]
  <2>1. \A u \in C!Source \ {s} : atCallRecord[u] \in PlacesOf(groupsCallRecord')
    BY <1>1, <1>3, <1>7, Places DEF CallTypes
  <2>2. \A u \in C!Source : atCallRecord'[u] \in PlacesOf(groupsCallRecord')
    BY <1>9, <1>10, <2>1
  <2>3. DOMAIN atCallRecord' = C!Source /\ atCallRecord' = [u \in C!Source |-> atCallRecord'[u]]
    BY <1>1, <1>8 DEF CallTypes
  <2> QED
    BY <2>2, <2>3
<1>13. row' \in [C!Id -> RowsOf(groupsCallRecord')]
  <2>1. UNCHANGED row
    BY DEF C!UpsertCallGroup
  <2> QED
    BY <1>1, <1>3, <1>7, <2>1, TypesGrow DEF CallTypes
<1>14. groupCallRecord' \in [C!Time -> GroupsOf(groupsCallRecord')]
  <2>1. CASE UNCHANGED <<groupCallRecord, groupsCallRecord>>
    BY <1>1, <2>1 DEF CallTypes
  <2>2. CASE ~UNCHANGED <<groupCallRecord, groupsCallRecord>>
    <3>1. [id |-> n, primary |-> 0] \in GroupsOf(groupsCallRecord')
      BY <1>7, CallNumbers DEF GroupsOf
    <3>2. \A t \in C!Time : groupCallRecord[t] \in GroupsOf(groupsCallRecord')
      BY <1>1, <1>3, <1>7, TypesGrow DEF CallTypes
    <3> QED
      BY <1>1, <1>6, <2>2, <3>1, <3>2 DEF CallTypes
  <2> QED
    BY <2>1, <2>2
<1>15. CallTypes'
  <2>1. UNCHANGED <<tables, partitions, reported, ungrouped, bereft, unsaved>>
    BY DEF C!UpsertCallGroup, C!history
  <2>2. groupsCallRecord' \in Nat
    BY <1>3, <1>7
  <2> QED
    BY <1>1, <1>12, <1>13, <1>14, <2>1, <2>2 DEF CallTypes
<1>16. n = groupCallRecord'[p.start].id
  BY <1>1, <1>3, <1>6 DEF CallTypes
<1>17. \/ UNCHANGED <<groupCallRecord, groupsCallRecord>>
       \/ /\ groupsCallRecord' = groupsCallRecord + 1
          /\ groupCallRecord[p.start].id = 0
          /\ groupCallRecord'[p.start].id = groupsCallRecord + 1
          /\ \A t \in C!Time \ {p.start} : groupCallRecord'[t] = groupCallRecord[t]
  BY <1>1, <1>3, <1>6 DEF CallTypes
<1> QED
  BY <1>2, <1>3, <1>5, <1>7, <1>10, <1>11, <1>15, <1>16, <1>17

LEMMA Upserted ==
  ASSUME CallInv, NEW s \in C!Source, C!UpsertCallGroup(s)
  PROVE  CallInv'
<1>1. PICK n \in C!Time : n = atCallRecord[s].start
  BY UpsertTyped
<1>2. /\ CallTypes' /\ atCallRecord'[s].pc = "link" /\ atCallRecord'[s].row = atCallRecord[s].row
      /\ atCallRecord'[s].start = atCallRecord[s].start
      /\ \A u \in C!Source \ {s} : atCallRecord'[u] = atCallRecord[u]
      /\ atCallRecord'[s].group # 0 /\ atCallRecord'[s].group = groupCallRecord'[n].id
  BY <1>1, UpsertTyped
<1>3. /\ UNCHANGED <<row, form, answer, unsaved, reported, ungrouped, bereft>> /\ atCallRecord[s].pc = "group"
  BY DEF C!UpsertCallGroup, C!At, C!client, C!history
<1>4. /\ KeyInv /\ GroupInv /\ ListInv /\ PurgedInv /\ StoredInv /\ C!CallsAreGrouped /\ CallTypes
      /\ LostInv
  BY DEF CallInv
<1>5. \/ UNCHANGED groupCallRecord
      \/ /\ groupCallRecord[n].id = 0
         /\ groupCallRecord'[n].id = groupsCallRecord + 1
         /\ \A t \in C!Time \ {n} : groupCallRecord'[t] = groupCallRecord[t]
  BY <1>1, UpsertTyped
<1>6. /\ groupsCallRecord \in Nat
      /\ \A t \in C!Time : groupCallRecord[t].id \in 0 .. groupsCallRecord
      /\ \A u \in C!Source : atCallRecord[u].group \in 0 .. groupsCallRecord
  BY <1>4 DEF CallTypes, GroupsOf, PlacesOf
<1>7. KeyInv'
  BY <1>2, <1>3, <1>4 DEF KeyInv, Has, Rowless
<1>8. GroupInv'
  <2>1. \A t, u \in C!Time :
          groupCallRecord'[t].id = groupCallRecord'[u].id /\ groupCallRecord'[t].id # 0 => t = u
    BY <1>4, <1>5, <1>6 DEF GroupInv
  <2>2. \A t \in C!Time : groupCallRecord'[t].id = atCallRecord'[s].group => t = atCallRecord'[s].start
    BY <1>1, <1>2, <2>1
  <2>3. ASSUME NEW u \in C!Source, u # s, atCallRecord[u].pc = "link",
               NEW t \in C!Time, groupCallRecord'[t].id = atCallRecord[u].group
        PROVE  t = atCallRecord[u].start
    BY <1>4, <1>5, <1>6, <2>3 DEF GroupInv
  <2>4. \A u \in C!Source : u # s /\ atCallRecord[u].pc = "link" => atCallRecord[u].group # 0
    BY <1>4 DEF GroupInv
  <2> QED
    BY <1>2, <2>1, <2>2, <2>3, <2>4 DEF GroupInv
<1>9. ListInv' /\ PurgedInv'
  BY <1>3, <1>4 DEF ListInv, PurgedInv, C!NoRow
<1>10. StoredInv'
  BY <1>2, <1>3, <1>4, HandlersGo DEF StoredInv, Stored, C!HasAudio, C!DetectUploadFormat
<1>11. C!CallsAreGrouped'
  <2>1. \A q \in C!Id : C!Creating(q) => C!Creating(q)'
    BY <1>2 DEF C!Creating
  <2>2. ASSUME NEW t \in C!Time, groupCallRecord[t].id # 0
        PROVE  groupCallRecord'[t].id = groupCallRecord[t].id
    BY <1>5, <2>2
  <2>3. \A q \in C!Id : row[q].start \in C!Time
    BY <1>4 DEF CallTypes, RowsOf
  <2> QED
    BY <1>3, <1>4, <2>1, <2>2, <2>3 DEF C!CallsAreGrouped
<1>12. LostInv'
  <2>1. C!GroupThere(s)'
    BY <1>1, <1>2 DEF C!GroupThere
  <2>2. ASSUME NEW u \in C!Source, u # s, atCallRecord[u].pc = "link", C!GroupThere(u)
        PROVE  C!GroupThere(u)'
    <3>1. PICK t \in C!Time : groupCallRecord[t].id = atCallRecord[u].group
      BY <2>2 DEF C!GroupThere
    <3>2. groupCallRecord[t].id # 0
      BY <1>4, <2>2, <3>1 DEF GroupInv
    <3>3. groupCallRecord'[t].id = groupCallRecord[t].id
      BY <1>5, <3>2
    <3> QED
      BY <1>2, <2>2, <3>1, <3>3 DEF C!GroupThere
  <2>3. ASSUME NEW u \in C!Source, atCallRecord'[u].pc = "link", ~C!GroupThere(u)'
        PROVE  u # s /\ atCallRecord'[u] = atCallRecord[u] /\ ~C!GroupThere(u)
    <3>1. u # s
      BY <2>1, <2>3
    <3>2. atCallRecord'[u] = atCallRecord[u]
      BY <1>2, <3>1
    <3> QED
      BY <2>2, <2>3, <3>1, <3>2
  <2> QED
    BY <1>3, <1>4, <2>3 DEF LostInv
<1> QED
  BY <1>2, <1>7, <1>8, <1>9, <1>10, <1>11, <1>12 DEF CallInv

LEMMA Linked ==
  ASSUME CallInv, NEW s \in C!Source, C!SetCallGroupID(s)
  PROVE  CallInv'
<1> USE DEF C!At
<1>1. /\ KeyInv /\ GroupInv /\ ListInv /\ PurgedInv /\ StoredInv /\ C!CallsAreGrouped /\ CallTypes
      /\ LostInv
  BY DEF CallInv
<1>2. /\ atCallRecord[s].pc = "link" /\ Has(s) /\ Moves(s, "primary")
      /\ UNCHANGED <<groupCallRecord, groupsCallRecord, tables, partitions, form, answer,
                     reported, unsaved>>
  BY DEF C!SetCallGroupID, C!Goto, Moves, C!Step, Has, Rowless, C!client
<1>3. PICK r \in C!Id : r = atCallRecord[s].row /\ row[r] = C!This(s) /\ row[r] \in RowsOf(groupsCallRecord)
  BY <1>1, <1>2, HandlersRow DEF C!This
<1>4. PICK n : n = atCallRecord[s].group
  OBVIOUS
<1>5. n \in 0 .. groupsCallRecord /\ n # 0
  BY <1>1, <1>2, <1>4 DEF CallTypes, PlacesOf, GroupInv
<1>6. /\ row' \in [C!Id -> RowsOf(groupsCallRecord)] /\ RowsKeep
      /\ \A q \in C!Id \ {r} : row'[q] = row[q]
      /\ \A q \in C!Id : row'[q].src = row[q].src /\ (row[q].audio => row'[q].audio)
      /\ \/ row'[r] = row[r] /\ r \in ungrouped' /\ (r \in bereft => r \in bereft')
         \/ row'[r] = row[r] /\ ~C!GroupThere(s) /\ (r \in bereft => r \in bereft')
         \/ row[r].is # "there" /\ row'[r] = row[r]
         \/ row'[r].group = n /\ C!GroupThere(s)
      /\ ungrouped' \subseteq C!Id /\ bereft' \subseteq C!Id
  <2>1. CASE UNCHANGED <<row, bereft>> /\ ungrouped' = ungrouped \cup {r}
    BY <1>1, <1>3, <2>1, LeavesRows DEF CallTypes
  <2>2. CASE UNCHANGED <<row, ungrouped, bereft>> /\ ~C!GroupThere(s)
    BY <1>1, <1>3, <2>2, LeavesRows DEF CallTypes
  <2>3. CASE /\ C!GroupThere(s) /\ C!Update(s, [C!This(s) EXCEPT !.group = n])
             /\ ungrouped' = ungrouped \ {r} /\ bereft' = bereft \ {r}
    <3>1. PICK y : y = [row[r] EXCEPT !.group = n]
      OBVIOUS
    <3>2. C!Update(s, y)
      BY <1>3, <2>3, <3>1
    <3>3. /\ y.is = row[r].is /\ y.start = row[r].start /\ y.src = row[r].src
          /\ y.audio = row[r].audio /\ y.group = n
      BY <1>3, <3>1 DEF RowsOf
    <3>4. y \in RowsOf(groupsCallRecord)
      <4>1. TRUE \in BOOLEAN /\ "null" \in C!Column /\ groupsCallRecord \in Nat
        BY <1>1 DEF C!Column, CallTypes
      <4> QED
        BY <1>3, <1>5, <3>1, <4>1, RowChanges
    <3>5. /\ row' \in [C!Id -> RowsOf(groupsCallRecord)] /\ RowsKeep
          /\ \A q \in C!Id \ {r} : row'[q] = row[q]
          /\ C!Hits(s) => row'[r] = y
          /\ ~C!Hits(s) => row[r].is = "purged" /\ row' = row
      BY <1>1, <1>2, <1>3, <3>2, <3>3, <3>4, UpdatesKeep
    <3> QED
      BY <1>1, <2>3, <3>3, <3>5 DEF CallTypes
  <2> QED
    BY <1>3, <1>4, <2>1, <2>2, <2>3 DEF C!SetCallGroupID
<1>15. ungrouped \ {r} \subseteq ungrouped' /\ bereft \ {r} \subseteq bereft'
  BY <1>3 DEF C!SetCallGroupID
<1>16. /\ atCallRecord'[s].pc = "primary"
       /\ \A u \in C!Source \ {s} : atCallRecord'[u] = atCallRecord[u]
  BY <1>1, <1>2, MovesTyped
<1>7. CallTypes'
  BY <1>1, <1>2, <1>6, MovesTyped DEF CallTypes
<1>8. KeyInv'
  BY <1>1, <1>2, <1>6, KeyKept DEF Rowless
<1>9. GroupInv'
  BY <1>1, <1>2, GroupsKept
<1>10. PurgedInv'
  BY <1>1, <1>6, PurgedKept
<1>11. ListInv'
  <2>1. \A q \in reported : row'[q].src = row[q].src
    BY <1>1, <1>6 DEF CallTypes
  <2> QED
    BY <1>1, <1>2, <1>6, <2>1, ListsKept
<1>12. StoredInv'
  BY <1>1, <1>2, <1>6, StoredKept
<1>13. C!CallsAreGrouped'
  <2>1. /\ \A q \in C!Id \ {r} : C!Creating(q) => C!Creating(q)'
        /\ \A t \in C!Time : groupCallRecord'[t] = groupCallRecord[t]
    <3>1. ASSUME NEW q \in C!Id \ {r}, C!Creating(q) PROVE C!Creating(q)'
      <4>1. PICK u \in C!Source : atCallRecord[u].row = q /\ atCallRecord[u].pc \in {"group", "link"}
        BY <3>1 DEF C!Creating
      <4>2. u # s
        BY <1>3, <3>1, <4>1
      <4>3. atCallRecord'[u] = atCallRecord[u]
        BY <1>1, <1>2, <4>2, MovesTyped
      <4> QED
        BY <4>1, <4>3 DEF C!Creating
    <3> QED
      BY <1>2, <3>1
  <2>2. ASSUME NEW t \in C!Time, groupCallRecord[t].id = n, row[r].is = "there"
        PROVE  t = row[r].start
    <3>1. t = atCallRecord[s].start
      BY <1>1, <1>2, <1>4, <2>2 DEF GroupInv
    <3>2. row[r].start = atCallRecord[s].start
      BY <1>1, <1>2, <1>3, <2>2 DEF KeyInv, Has
    <3> QED
      BY <3>1, <3>2
  <2>3. /\ \A q \in C!Id : row'[q].is = row[q].is /\ row'[q].start = row[q].start
        /\ \A q \in C!Id : row[q].start \in C!Time
    BY <1>1, <1>6 DEF RowsKeep, CallTypes, RowsOf
  <2>4. ASSUME row'[r].is = "there"
        PROVE  IF row'[r].group = 0 THEN r \in ungrouped' \cup bereft'
                                    ELSE row'[r].group = groupCallRecord'[row'[r].start].id
    <3>1. row[r].is = "there" /\ C!Creating(r)
      BY <1>2, <1>3, <2>3, <2>4 DEF C!Creating
    <3>2. row[r].group # 0 => row[r].group = groupCallRecord'[row'[r].start].id
      BY <1>1, <2>1, <2>3, <3>1 DEF C!CallsAreGrouped
    <3>3. CASE row'[r] = row[r] /\ r \in ungrouped'
      BY <3>2, <3>3
    <3>4. CASE row'[r] = row[r] /\ ~C!GroupThere(s) /\ (r \in bereft => r \in bereft')
      BY <1>1, <1>2, <1>3, <3>1, <3>2, <3>4 DEF LostInv
    <3>5. CASE row'[r].group = n /\ C!GroupThere(s)
      <4>1. PICK t \in C!Time : groupCallRecord[t].id = n
        BY <1>4, <3>5 DEF C!GroupThere
      <4>2. row'[r].start = t
        BY <2>2, <2>3, <3>1, <4>1
      <4> QED
        BY <1>5, <2>1, <3>5, <4>1, <4>2
    <3> QED
      BY <1>6, <3>1, <3>3, <3>4, <3>5
  <2>5. ASSUME NEW q \in C!Id, q # r, row'[q].is = "there"
        PROVE  IF row'[q].group = 0 THEN C!Creating(q)' \/ q \in ungrouped' \cup bereft'
                                    ELSE row'[q].group = groupCallRecord'[row'[q].start].id
    <3>1. row'[q] = row[q] /\ row[q].start \in C!Time
      BY <1>6, <2>3, <2>5
    <3>2. IF row[q].group = 0 THEN C!Creating(q) \/ q \in ungrouped \cup bereft
                              ELSE row[q].group = groupCallRecord[row[q].start].id
      BY <1>1, <2>5, <3>1 DEF C!CallsAreGrouped
    <3>3. q \in ungrouped \cup bereft => q \in ungrouped' \cup bereft'
      BY <1>15, <2>5
    <3> QED
      BY <2>1, <2>5, <3>1, <3>2, <3>3
  <2> QED
    BY <2>4, <2>5 DEF C!CallsAreGrouped
<1>14. LostInv'
  <2> SUFFICES ASSUME NEW u \in C!Source, atCallRecord'[u].pc = "link", ~C!GroupThere(u)',
                      NEW q, q = atCallRecord'[u].row
               PROVE  q \in bereft' \/ row'[q].group # 0 \/ row'[q].is # "there"
    BY DEF LostInv
  <2>1. atCallRecord'[u] = atCallRecord[u] /\ ~C!GroupThere(u)
    <3>1. u # s
      BY <1>16
    <3>2. atCallRecord'[u] = atCallRecord[u]
      BY <1>16, <3>1
    <3> QED
      BY <1>2, <3>2 DEF C!GroupThere
  <2>2. q \in bereft \/ row[q].group # 0 \/ row[q].is # "there"
    BY <1>1, <2>1 DEF LostInv
  <2>3. q \in C!Id
    BY <1>1, <2>1, HandlersRow DEF Has, Rowless
  <2>4. row'[q].is = row[q].is
    BY <1>6, <2>3 DEF RowsKeep
  <2>5. CASE q # r
    <3>1. row'[q] = row[q]
      BY <1>6, <2>3, <2>5
    <3>2. q \in bereft => q \in bereft'
      BY <1>15, <2>5
    <3> QED
      BY <2>2, <3>1, <3>2
  <2>6. CASE q = r
    BY <1>5, <1>6, <2>2, <2>4, <2>6
  <2> QED
    BY <2>5, <2>6
<1> QED
  BY <1>7, <1>8, <1>9, <1>10, <1>11, <1>12, <1>13, <1>14 DEF CallInv

LEMMA PrimarySet ==
  ASSUME CallInv, NEW s \in C!Source, C!SetCallGroupPrimary(s)
  PROVE  CallInv'
<1> USE DEF C!At
<1>1. /\ KeyInv /\ GroupInv /\ ListInv /\ PurgedInv /\ StoredInv /\ C!CallsAreGrouped /\ CallTypes
      /\ LostInv
  BY DEF CallInv
<1>2. PICK pc : pc = C!Grouped(s)
  OBVIOUS
<1>3. /\ pc \in {"air", "events", "lists", "save", "filename"}
      /\ s = "upload" => pc = "save"
  BY <1>2, HandlersGo
<1>4. /\ atCallRecord[s].pc = "primary" /\ Has(s) /\ Moves(s, pc)
      /\ UNCHANGED <<row, groupsCallRecord, tables, partitions, form, answer, reported, unsaved,
                     ungrouped, bereft>>
  BY <1>2, <1>3 DEF C!SetCallGroupPrimary, C!Goto, Moves, C!Step, Has, Rowless, C!client, C!history
<1>5. PICK r \in C!Id : r = atCallRecord[s].row
  BY <1>1, <1>4, HandlersRow
<1>6. /\ groupCallRecord' \in [C!Time -> GroupsOf(groupsCallRecord)]
      /\ \A t \in C!Time : groupCallRecord'[t].id = groupCallRecord[t].id
  <2>1. CASE UNCHANGED groupCallRecord
    BY <1>1, <2>1 DEF CallTypes
  <2>2. CASE groupCallRecord' = [t \in C!Time |->
                       IF groupCallRecord[t].id = atCallRecord[s].group /\ groupCallRecord[t].primary = 0
                       THEN [groupCallRecord[t] EXCEPT !.primary = r] ELSE groupCallRecord[t]]
    <3>1. r \in 0 .. MaxRowsCallRecord
      BY <1>5, CallNumbers
    <3>2. \A x \in GroupsOf(groupsCallRecord) :
            [x EXCEPT !.primary = r] \in GroupsOf(groupsCallRecord) /\ [x EXCEPT !.primary = r].id = x.id
      BY <3>1 DEF GroupsOf
    <3>3. \A t \in C!Time : groupCallRecord[t] \in GroupsOf(groupsCallRecord)
      BY <1>1 DEF CallTypes
    <3> QED
      BY <2>2, <3>2, <3>3
  <2> QED
    BY <1>5, <2>1, <2>2 DEF C!SetCallGroupPrimary
<1>7. RowsKeep
  BY <1>4 DEF RowsKeep
<1>8. CallTypes'
  BY <1>1, <1>4, <1>6, MovesTyped DEF CallTypes
<1>9. KeyInv'
  BY <1>1, <1>3, <1>4, <1>7, KeyKept DEF Rowless
<1>10. GroupInv'
  BY <1>1, <1>3, <1>4, <1>6, GroupsKept
<1>11. PurgedInv' /\ ListInv'
  BY <1>1, <1>4, <1>7, PurgedKept, ListsKept
<1>12. StoredInv'
  BY <1>1, <1>3, <1>4, <1>7, StoredKept
<1>13. C!CallsAreGrouped'
  BY <1>1, <1>4, <1>6, <1>7, GroupedKept
<1>14. LostInv'
  <2>1. \A u \in C!Source : atCallRecord'[u].pc = "link" => atCallRecord'[u] = atCallRecord[u]
    <3>1. /\ atCallRecord'[s].pc # "link"
          /\ \A u \in C!Source \ {s} : atCallRecord'[u] = atCallRecord[u]
      BY <1>1, <1>3, <1>4, MovesTyped
    <3> QED
      BY <3>1
  <2> QED
    BY <1>1, <1>4, <1>6, <2>1, LostKept
<1> QED
  BY <1>8, <1>9, <1>10, <1>11, <1>12, <1>13, <1>14 DEF CallInv

LEMMA Answered ==
  ASSUME CallInv, NEW s \in C!Source, C!Answer(s)
  PROVE  CallInv'
<1> USE DEF C!At
<1>1. /\ KeyInv /\ GroupInv /\ ListInv /\ PurgedInv /\ StoredInv /\ C!CallsAreGrouped /\ CallTypes
      /\ LostInv
  BY DEF CallInv
<1>2. /\ atCallRecord[s].pc = "end" /\ Has(s) /\ Moves(s, "done")
      /\ UNCHANGED <<row, groupCallRecord, groupsCallRecord, tables, partitions, form, reported,
                     unsaved, ungrouped, bereft>>
      /\ answer' = IF s = "upload" /\ ~atCallRecord[s].gone THEN "created" ELSE answer
  BY DEF C!Answer, C!End, Moves, C!Step, Has, Rowless, C!history
<1>3. RowsKeep
  BY <1>2 DEF RowsKeep
<1>4. CallTypes'
  BY <1>1, <1>2, MovesTyped DEF CallTypes
<1>5. KeyInv'
  BY <1>1, <1>2, <1>3, KeyKept DEF Rowless
<1>6. GroupInv'
  BY <1>1, <1>2, GroupsKept
<1>7. PurgedInv' /\ ListInv'
  BY <1>1, <1>2, <1>3, PurgedKept, ListsKept
<1>8. StoredInv'
  <2>1. CASE answer' = answer
    BY <1>1, <1>2, <1>3, <2>1, StoredKept
  <2>2. CASE s = "upload" /\ answer' = "created"
    <3>1. atCallRecord'["upload"].pc = "done" /\ atCallRecord'["upload"].row = atCallRecord["upload"].row
      BY <1>1, <1>2, <2>2, MovesTyped
    <3>2. atCallRecord["upload"].row # 0 /\ Stored
      BY <1>1, <1>2, <2>2 DEF KeyInv, StoredInv
    <3>3. Stored'
      BY <1>2, <3>1, <3>2 DEF Stored, C!HasAudio, C!DetectUploadFormat
    <3> QED
      BY <3>1, <3>2, <3>3 DEF StoredInv
  <2> QED
    BY <1>2, <2>1, <2>2
<1>9. C!CallsAreGrouped'
  BY <1>1, <1>2, <1>3, GroupedKept
<1>10. LostInv'
  <2>1. \A u \in C!Source : atCallRecord'[u].pc = "link" => atCallRecord'[u] = atCallRecord[u]
    <3>1. /\ atCallRecord'[s].pc # "link"
          /\ \A u \in C!Source \ {s} : atCallRecord'[u] = atCallRecord[u]
      BY <1>1, <1>2, MovesTyped
    <3> QED
      BY <3>1
  <2> QED
    BY <1>1, <1>2, <2>1, LostKept
<1> QED
  BY <1>4, <1>5, <1>6, <1>7, <1>8, <1>9, <1>10 DEF CallInv

-----------------------------------------------------------------------------
(* Before a handler has a row, and without a handler.                      *)

\* It still has none, or gives up.
LEMMA Rests ==
  ASSUME CallInv, NEW s \in C!Source, CallTypes',
         atCallRecord[s].pc \in Rowless \cup {"done"},
         atCallRecord'[s].pc \in Rowless \cup {"done"}, atCallRecord'[s].row = 0,
         \A u \in C!Source \ {s} : atCallRecord'[u] = atCallRecord[u],
         UNCHANGED <<row, groupCallRecord, form, reported, ungrouped, bereft, unsaved>>,
         answer' # "created" \/ (answer' = answer /\ atCallRecord[s].pc # "done")
  PROVE  CallInv'
<1>1. /\ KeyInv /\ GroupInv /\ ListInv /\ PurgedInv /\ StoredInv /\ C!CallsAreGrouped /\ CallTypes
      /\ LostInv
  BY DEF CallInv
<1>2. KeyInv'
  BY <1>1 DEF KeyInv, Has, Rowless
<1>3. GroupInv'
  BY <1>1 DEF GroupInv, Rowless
<1>4. ListInv' /\ PurgedInv'
  BY <1>1 DEF ListInv, PurgedInv, C!NoRow
<1>5. StoredInv'
  BY <1>1, HandlersGo DEF StoredInv, Stored, C!HasAudio, C!DetectUploadFormat, Rowless
<1>6. C!CallsAreGrouped'
  <2>1. \A q \in C!Id : C!Creating(q) => C!Creating(q)'
    BY DEF C!Creating, Rowless
  <2> QED
    BY <1>1, <2>1 DEF C!CallsAreGrouped
<1>7. LostInv'
  <2>1. \A u \in C!Source : atCallRecord'[u].pc = "link" => atCallRecord'[u] = atCallRecord[u]
    BY DEF Rowless
  <2> QED
    BY <1>1, <2>1, LostKept
<1> QED
  BY <1>2, <1>3, <1>4, <1>5, <1>6, <1>7 DEF CallInv

\* A step to where it has none.
LEMMA Waits ==
  ASSUME CallInv, NEW s \in C!Source, atCallRecord[s].pc \in Rowless,
         NEW pc \in Rowless \cup {"done"}, Moves(s, pc),
         UNCHANGED <<row, groupCallRecord, groupsCallRecord, tables, partitions, form, reported,
                     ungrouped, bereft, unsaved>>,
         answer' # "created" \/ answer' = answer
  PROVE  CallInv'
<1>1. CallTypes /\ KeyInv
  BY DEF CallInv
<1>2. /\ atCallRecord'[s].pc = pc /\ atCallRecord'[s].row = 0
      /\ \A u \in C!Source \ {s} : atCallRecord'[u] = atCallRecord[u]
      /\ atCallRecord[s].pc # "done"
  BY <1>1, MovesTyped DEF KeyInv, Rowless
<1>3. CallTypes'
  BY <1>1, MovesTyped DEF CallTypes
<1> QED
  BY <1>2, <1>3, Rests

LEMMA TakesRow ==
  ASSUME CallInv, NEW s \in C!Source, atCallRecord[s].pc \in {"look", "again"},
         NEW r \in C!Id, row[r].is = "there", C!Take(s, r),
         UNCHANGED <<row, groupCallRecord, groupsCallRecord, tables, partitions, form, answer,
                     reported, ungrouped, bereft, unsaved>>
  PROVE  CallInv'
<1>1. /\ KeyInv /\ GroupInv /\ ListInv /\ PurgedInv /\ StoredInv /\ C!CallsAreGrouped /\ CallTypes
      /\ LostInv
  BY DEF CallInv
<1>2. PICK p : p = atCallRecord[s]
  OBVIOUS
<1>3. p \in PlacesOf(groupsCallRecord) /\ row[r].start \in C!Time /\ r # 0
      /\ r \in 0 .. MaxRowsCallRecord
  BY <1>1, <1>2, CallNumbers DEF CallTypes, RowsOf
<1>4. PICK y : y = [p EXCEPT !.row = r, !.start = row[r].start, !.pc = C!Existing(s)]
  OBVIOUS
<1>5. /\ C!Existing(s) \in {"fields", "air", "lists", "save", "filename"}
      /\ s = "upload" => C!Existing(s) = "save"
  BY HandlersGo
<1>6. /\ y \in PlacesOf(groupsCallRecord)
      /\ y.row = r /\ y.start = row[r].start /\ y.pc = C!Existing(s)
  BY <1>3, <1>4, <1>5 DEF PlacesOf, C!Step
<1>7. /\ atCallRecord'[s] = y /\ \A u \in C!Source \ {s} : atCallRecord'[u] = atCallRecord[u]
      /\ atCallRecord' \in [C!Source -> PlacesOf(groupsCallRecord)]
  <2>1. atCallRecord' = [atCallRecord EXCEPT ![s] = y]
    BY <1>1, <1>2, <1>3, <1>4 DEF C!Take, CallTypes, PlacesOf
  <2> QED
    BY <1>1, <1>6, <2>1 DEF CallTypes
<1>8. CallTypes'
  BY <1>1, <1>7 DEF CallTypes
<1>9. KeyInv'
  BY <1>1, <1>3, <1>5, <1>6, <1>7 DEF KeyInv, Has, Rowless
<1>10. GroupInv'
  BY <1>1, <1>5, <1>6, <1>7 DEF GroupInv
<1>11. ListInv' /\ PurgedInv'
  BY <1>1 DEF ListInv, PurgedInv, C!NoRow
<1>12. StoredInv'
  <2>1. s = "upload" => answer # "created"
    BY <1>1 DEF StoredInv
  <2> QED
    BY <1>1, <1>5, <1>6, <1>7, <2>1, HandlersGo
       DEF StoredInv, Stored, C!HasAudio, C!DetectUploadFormat
<1>13. C!CallsAreGrouped'
  <2>1. \A q \in C!Id : C!Creating(q) => C!Creating(q)'
    BY <1>7 DEF C!Creating
  <2> QED
    BY <1>1, <2>1 DEF C!CallsAreGrouped
<1>14. LostInv'
  <2>1. \A u \in C!Source : atCallRecord'[u].pc = "link" => atCallRecord'[u] = atCallRecord[u]
    BY <1>5, <1>6, <1>7
  <2> QED
    BY <1>1, <2>1, LostKept
<1> QED
  BY <1>8, <1>9, <1>10, <1>11, <1>12, <1>13, <1>14 DEF CallInv

LEMMA Inserted ==
  ASSUME CallInv, NEW s \in C!Source, C!Insert(s)
  PROVE  CallInv'
<1> USE DEF C!At
<1>1. /\ KeyInv /\ GroupInv /\ ListInv /\ PurgedInv /\ StoredInv /\ C!CallsAreGrouped /\ CallTypes
      /\ LostInv
  BY DEF CallInv
<1>2. /\ atCallRecord[s].pc = "insert"
      /\ UNCHANGED <<groupCallRecord, groupsCallRecord, tables, partitions, form, answer,
                     reported, ungrouped, bereft, unsaved>>
  BY DEF C!Insert, C!client, C!history
<1>3. PICK r \in C!Id :
        /\ row[r].is = "none" /\ row' = [row EXCEPT ![r] = C!NewRow(s)]
        /\ atCallRecord' = [atCallRecord EXCEPT ![s].row = r, ![s].pc = "group"]
  BY DEF C!Insert
<1>4. PICK p : p = atCallRecord[s]
  OBVIOUS
<1>5. /\ p \in PlacesOf(groupsCallRecord) /\ p.start \in C!Time /\ r # 0
      /\ r \in 0 .. MaxRowsCallRecord /\ groupsCallRecord \in Nat
  BY <1>1, <1>4, CallNumbers DEF CallTypes, PlacesOf
<1>6. PICK y : y = [p EXCEPT !.row = r, !.pc = "group"]
  OBVIOUS
<1>7. /\ y \in PlacesOf(groupsCallRecord)
      /\ y.row = r /\ y.start = p.start /\ y.pc = "group"
  BY <1>5, <1>6 DEF PlacesOf, C!Step
<1>8. /\ atCallRecord'[s] = y /\ \A u \in C!Source \ {s} : atCallRecord'[u] = atCallRecord[u]
      /\ atCallRecord' \in [C!Source -> PlacesOf(groupsCallRecord)]
  <2>1. atCallRecord' = [atCallRecord EXCEPT ![s] = y]
    BY <1>1, <1>3, <1>4, <1>5, <1>6 DEF CallTypes, PlacesOf
  <2> QED
    BY <1>1, <1>7, <2>1 DEF CallTypes
<1>9. PICK x : x = C!NewRow(s)
  OBVIOUS
<1>10. x \in RowsOf(groupsCallRecord) /\ x.is = "there" /\ x.start = p.start /\ x.group = 0
  <2>1. PICK b \in BOOLEAN, d \in BOOLEAN : (b <=> s = "radio") /\ (d <=> s # "radio")
    OBVIOUS
  <2>2. (s = "radio") = b /\ (s # "radio") = d
    BY <2>1
  <2>3. x = [is |-> "there", start |-> p.start, recording |-> b, ended |-> d, audio |-> FALSE,
             file |-> FALSE, src |-> "null", freq |-> "null", group |-> 0]
    BY <1>4, <1>9, <2>2 DEF C!NewRow, C!NoRow
  <2>4. 0 \in 0 .. groupsCallRecord /\ "null" \in C!Column
    BY <1>5 DEF C!Column
  <2> QED
    BY <1>5, <2>3, <2>4 DEF RowsOf
<1>11. /\ row' \in [C!Id -> RowsOf(groupsCallRecord)] /\ row'[r] = x
       /\ \A q \in C!Id \ {r} : row'[q] = row[q]
  BY <1>1, <1>3, <1>9, <1>10 DEF CallTypes
<1>12. CallTypes'
  BY <1>1, <1>2, <1>8, <1>11 DEF CallTypes
<1>13. \A u \in C!Source : atCallRecord[u].row # r
  BY <1>1, <1>3, <1>5 DEF KeyInv
<1>14. \A u \in C!Source : atCallRecord[u].row \in C!Id \cup {0}
  <2>1. ASSUME NEW u \in C!Source PROVE atCallRecord[u].row \in 0 .. MaxRowsCallRecord
    BY <1>1 DEF CallTypes, PlacesOf
  <2> QED
    BY <2>1, CallNumbers
<1>15. KeyInv'
  <2>1. ASSUME NEW u \in C!Source, u # s, atCallRecord[u].row # 0
        PROVE  row'[atCallRecord[u].row] = row[atCallRecord[u].row]
    BY <1>11, <1>13, <1>14, <2>1
  <2>2. row'[y.row].is = "there" /\ row'[y.row].start = y.start /\ y.row # 0 /\ y.pc = "group"
    BY <1>5, <1>7, <1>10, <1>11
  <2>3. \A u \in C!Source \ {s} : atCallRecord'[u] = atCallRecord[u]
    BY <1>8
  <2> QED
    BY <1>1, <1>8, <2>1, <2>2, <2>3 DEF KeyInv, Has, Rowless
<1>16. GroupInv'
  BY <1>1, <1>2, <1>7, <1>8 DEF GroupInv
<1>17. ListInv' /\ PurgedInv'
  <2>1. r \notin reported
    BY <1>1, <1>3 DEF ListInv
  <2>2. ListInv'
    BY <1>1, <1>2, <1>11, <2>1 DEF ListInv, CallTypes
  <2>3. PurgedInv'
    BY <1>1, <1>10, <1>11 DEF PurgedInv, C!NoRow
  <2> QED
    BY <2>2, <2>3
<1>18. StoredInv'
  <2>1. s = "upload" => answer # "created"
    BY <1>1, <1>2 DEF StoredInv
  <2>2. s # "upload" /\ atCallRecord["upload"].row # 0 =>
          /\ row'[atCallRecord["upload"].row] = row[atCallRecord["upload"].row]
          /\ atCallRecord'["upload"] = atCallRecord["upload"]
    BY <1>8, <1>11, <1>13, <1>14, HandlersGo
  <2>3. atCallRecord["upload"].pc \in {"lists", "rows", "end"} => atCallRecord["upload"].row # 0
    BY <1>1, HandlersGo DEF KeyInv, Has, Rowless
  <2>4. s # "upload" => atCallRecord'["upload"] = atCallRecord["upload"]
    BY <1>8, HandlersGo
  <2>5. CASE s = "upload"
    BY <1>2, <1>7, <1>8, <2>1, <2>5 DEF StoredInv
  <2>6. CASE s # "upload"
    BY <1>1, <1>2, <2>2, <2>3, <2>4, <2>6
       DEF StoredInv, Stored, C!HasAudio, C!DetectUploadFormat
  <2> QED
    BY <2>5, <2>6
<1>19. C!CallsAreGrouped'
  <2>1. \A q \in C!Id : C!Creating(q) => C!Creating(q)'
    BY <1>2, <1>8 DEF C!Creating
  <2>2. C!Creating(r)'
    BY <1>7, <1>8 DEF C!Creating
  <2> QED
    BY <1>1, <1>2, <1>10, <1>11, <2>1, <2>2 DEF C!CallsAreGrouped
<1>20. LostInv'
  <2> SUFFICES ASSUME NEW u \in C!Source, atCallRecord'[u].pc = "link", ~C!GroupThere(u)',
                      NEW q, q = atCallRecord'[u].row
               PROVE  q \in bereft' \/ row'[q].group # 0 \/ row'[q].is # "there"
    BY DEF LostInv
  <2>1. atCallRecord'[u] = atCallRecord[u]
    BY <1>7, <1>8
  <2>2. q # r /\ q \in C!Id \cup {0} /\ q # 0
    BY <1>1, <1>13, <1>14, <2>1 DEF KeyInv, Has, Rowless
  <2>3. row'[q] = row[q] /\ ~C!GroupThere(u)
    BY <1>2, <1>11, <2>1, <2>2 DEF C!GroupThere
  <2> QED
    BY <1>1, <1>2, <2>1, <2>3 DEF LostInv
<1> QED
  BY <1>12, <1>15, <1>16, <1>17, <1>18, <1>19, <1>20 DEF CallInv

LEMMA Searches ==
  ASSUME CallInv, NEW s \in C!Source,
         C!Look(s) \/ C!Again(s) \/ C!EnsurePartitionsFor(s) \/ C!InsertFails(s)
  PROVE  CallInv'
<1> USE DEF C!At
<1>1. KeyInv /\ CallTypes
  BY DEF CallInv
<1>2. /\ atCallRecord[s].pc \in {"look", "again", "insert"}
      /\ UNCHANGED <<row, groupCallRecord, groupsCallRecord, tables, form, reported, ungrouped,
                     bereft, unsaved>>
      /\ answer' # "created" \/ answer' = answer
  BY DEF C!Look, C!Again, C!EnsurePartitionsFor, C!InsertFails, C!client, C!history, C!End
<1>3. ASSUME NEW pc \in Rowless \cup {"done"}, C!Goto(s, pc), UNCHANGED partitions PROVE CallInv'
  <2>1. Moves(s, pc)
    BY <1>3 DEF C!Goto, Moves, C!Step, Rowless
  <2> QED
    BY <1>2, <1>3, <2>1, Waits DEF Rowless
<1>4. ASSUME NEW r \in C!FindCallForAudio(atCallRecord[s].start), C!Take(s, r),
             atCallRecord[s].pc \in {"look", "again"}, UNCHANGED <<partitions, answer>>
      PROVE  CallInv'
  <2>1. r \in C!Id /\ row[r].is = "there"
    BY <1>4 DEF C!FindCallForAudio
  <2> QED
    BY <1>2, <1>4, <2>1, TakesRow
<1>5. ASSUME NEW told, C!End(s, told), UNCHANGED partitions PROVE CallInv'
  <2>1. C!Goto(s, "done")
    BY <1>5 DEF C!End, C!Goto
  <2> QED
    BY <1>3, <1>5, <2>1
<1>6. CASE C!Look(s)
  <2>1. UNCHANGED partitions /\ atCallRecord[s].pc = "look"
    BY <1>6 DEF C!Look
  <2>2. \/ \E told \in {"error", "none", "duplicate"} : C!End(s, told)
        \/ \E pc \in {"insert", "again"} : C!Goto(s, pc)
        \/ \E r \in C!FindCallForAudio(atCallRecord[s].start) : C!Take(s, r) /\ UNCHANGED answer
    BY <1>6 DEF C!Look
  <2> QED
    BY <1>3, <1>4, <1>5, <2>1, <2>2 DEF Rowless
<1>7. CASE C!Again(s)
  <2>1. UNCHANGED <<partitions, answer>> /\ atCallRecord[s].pc = "again"
    BY <1>7 DEF C!Again, C!client
  <2>2. \/ C!Goto(s, "insert")
        \/ \E r \in C!FindCallForAudio(atCallRecord[s].start) : C!Take(s, r)
    BY <1>7 DEF C!Again
  <2> QED
    BY <1>3, <1>4, <2>1, <2>2 DEF Rowless
<1>8. CASE C!InsertFails(s)
  BY <1>5, <1>8 DEF C!InsertFails
<1>9. CASE C!EnsurePartitionsFor(s)
  <2>1. PICK p : p = atCallRecord[s]
    OBVIOUS
  <2>2. PICK pc \in {"insert", "again"} :
          atCallRecord' = [atCallRecord EXCEPT ![s].retried = TRUE, ![s].pc = pc]
    BY <1>9 DEF C!EnsurePartitionsFor
  <2>3. PICK y : y = [p EXCEPT !.retried = TRUE, !.pc = pc]
    OBVIOUS
  <2>4. p \in PlacesOf(groupsCallRecord) /\ p.row = 0 /\ p.pc = "insert"
    BY <1>1, <1>9, <2>1 DEF CallTypes, KeyInv, Rowless, C!EnsurePartitionsFor
  <2>5. y \in PlacesOf(groupsCallRecord) /\ y.row = 0 /\ y.pc = pc
    BY <2>3, <2>4 DEF PlacesOf, C!Step
  <2>6. atCallRecord' = [atCallRecord EXCEPT ![s] = y]
    BY <1>1, <2>1, <2>2, <2>3, <2>4 DEF CallTypes, PlacesOf
  <2>7. /\ atCallRecord'[s] = y /\ \A u \in C!Source \ {s} : atCallRecord'[u] = atCallRecord[u]
        /\ atCallRecord' \in [C!Source -> PlacesOf(groupsCallRecord)]
    BY <1>1, <2>5, <2>6 DEF CallTypes
  <2>8. partitions' \subseteq {"1970", "now"}
    BY <1>1, <1>9 DEF C!EnsurePartitionsFor, C!Month, CallTypes
  <2>9. CallTypes'
    BY <1>1, <1>2, <2>7, <2>8 DEF CallTypes
  <2>10. UNCHANGED answer
    BY <1>9 DEF C!EnsurePartitionsFor, C!client
  <2> QED
    BY <1>2, <2>1, <2>4, <2>5, <2>7, <2>9, <2>10, Rests DEF Rowless
<1> QED
  BY <1>6, <1>7, <1>8, <1>9

LEMMA Parses ==
  /\ C!Parse(form).start \in C!Time
  /\ C!Parse(form).lists \subseteq {"src", "freq"}
<1>1. ASSUME NEW a, NEW b, NEW c, NEW d
      PROVE  /\ C!Parsed(form, a, b, c, d).start \in C!Time
             /\ C!Parsed(form, a, b, c, d).lists \subseteq {"src", "freq"}
  BY DEF C!Parsed, C!Time, C!StartOf, C!Unread
<1> QED
  BY <1>1 DEF C!Parse, C!ParseOpenMHzFields, C!ParseRdioScannerFields

LEMMA Uploads ==
  ASSUME CallInv, C!Upload
  PROVE  CallInv'
<1>1. KeyInv /\ CallTypes /\ "upload" \in C!Source
  BY HandlersGo DEF CallInv
<1>2. /\ UNCHANGED <<row, groupCallRecord, groupsCallRecord, tables, partitions, form, reported,
                     ungrouped, bereft, unsaved>>
      /\ atCallRecord["upload"].pc \in {"idle", "done"} /\ answer' \in {"bad", "error", "none"}
  BY DEF C!Upload, C!history
<1>3. PICK pc \in {"look", "done"} :
        atCallRecord' = [atCallRecord EXCEPT !["upload"] =
                    [pc |-> pc, row |-> 0, group |-> 0, start |-> C!Parse(form).start,
                     lists |-> C!Parse(form).lists, retried |-> FALSE, gone |-> FALSE]]
  BY DEF C!Upload
<1>4. PICK y : y = [pc |-> pc, row |-> 0, group |-> 0, start |-> C!Parse(form).start,
                     lists |-> C!Parse(form).lists, retried |-> FALSE, gone |-> FALSE]
  OBVIOUS
<1>5. y \in PlacesOf(groupsCallRecord) /\ y.pc = pc /\ y.row = 0
  <2>1. 0 \in 0 .. groupsCallRecord /\ 0 \in 0 .. MaxRowsCallRecord /\ pc \in C!Step
    BY <1>1, CallNumbers DEF CallTypes, C!Step
  <2>2. C!Parse(form).start \in C!Time /\ C!Parse(form).lists \in SUBSET {"src", "freq"}
    BY Parses
  <2> QED
    BY <1>4, <2>1, <2>2 DEF PlacesOf
<1>6. /\ atCallRecord'["upload"] = y
      /\ \A u \in C!Source \ {"upload"} : atCallRecord'[u] = atCallRecord[u]
      /\ atCallRecord' \in [C!Source -> PlacesOf(groupsCallRecord)]
  BY <1>1, <1>3, <1>4, <1>5 DEF CallTypes
<1>7. CallTypes'
  BY <1>1, <1>2, <1>6 DEF CallTypes
<1> QED
  BY <1>1, <1>2, <1>5, <1>6, <1>7, Rests DEF Rowless

\* The client hangs up, or time passes: no handler gets anywhere.
LEMMA Idles ==
  ASSUME CallInv, C!ClientLeaves \/ C!Ages \/ UNCHANGED callVars
  PROVE  CallInv'
<1>1. /\ KeyInv /\ GroupInv /\ ListInv /\ PurgedInv /\ StoredInv /\ C!CallsAreGrouped /\ CallTypes
      /\ LostInv
  BY DEF CallInv
<1>2. UNCHANGED <<row, groupCallRecord, groupsCallRecord, tables, partitions, form, answer, reported,
                  ungrouped, bereft, unsaved>>
  BY DEF C!ClientLeaves, C!Ages, C!client, C!history, callVars
<1>3. /\ atCallRecord' \in [C!Source -> PlacesOf(groupsCallRecord)]
      /\ \A u \in C!Source :
           /\ atCallRecord'[u].pc = atCallRecord[u].pc /\ atCallRecord'[u].row = atCallRecord[u].row
           /\ atCallRecord'[u].start = atCallRecord[u].start
           /\ atCallRecord'[u].group = atCallRecord[u].group
  <2>1. CASE UNCHANGED atCallRecord
    BY <1>1, <2>1 DEF CallTypes
  <2>2. CASE C!ClientLeaves
    <3>1. PICK p : p = atCallRecord["upload"]
      OBVIOUS
    <3>2. PICK y : y = [p EXCEPT !.gone = TRUE]
      OBVIOUS
    <3>3. p \in PlacesOf(groupsCallRecord)
      BY <1>1, <3>1, HandlersGo DEF CallTypes
    <3>4. /\ y \in PlacesOf(groupsCallRecord)
          /\ y.pc = p.pc /\ y.row = p.row /\ y.start = p.start /\ y.group = p.group
      BY <3>2, <3>3 DEF PlacesOf
    <3>5. atCallRecord' = [atCallRecord EXCEPT !["upload"] = y]
      BY <1>1, <2>2, <3>1, <3>2 DEF C!ClientLeaves, CallTypes
    <3>6. /\ atCallRecord'["upload"] = y
          /\ \A u \in C!Source \ {"upload"} : atCallRecord'[u] = atCallRecord[u]
          /\ atCallRecord' \in [C!Source -> PlacesOf(groupsCallRecord)]
      BY <1>1, <3>4, <3>5, HandlersGo DEF CallTypes
    <3> QED
      BY <3>1, <3>4, <3>6
  <2> QED
    BY <2>1, <2>2 DEF C!Ages, callVars
<1>4. CallTypes'
  BY <1>1, <1>2, <1>3 DEF CallTypes
<1>5. KeyInv'
  BY <1>1, <1>2, <1>3 DEF KeyInv, Has
<1>6. GroupInv'
  BY <1>1, <1>2, <1>3 DEF GroupInv
<1>7. ListInv' /\ PurgedInv'
  BY <1>1, <1>2 DEF ListInv, PurgedInv, C!NoRow
<1>8. StoredInv'
  BY <1>1, <1>2, <1>3, HandlersGo DEF StoredInv, Stored, C!HasAudio, C!DetectUploadFormat
<1>9. C!CallsAreGrouped'
  <2>1. \A q \in C!Id : C!Creating(q) => C!Creating(q)'
    BY <1>3 DEF C!Creating
  <2> QED
    BY <1>1, <1>2, <2>1 DEF C!CallsAreGrouped
<1>10. LostInv'
  BY <1>1, <1>2, <1>3, LostKept
<1> QED
  BY <1>4, <1>5, <1>6, <1>7, <1>8, <1>9, <1>10 DEF CallInv

LEMMA Purges ==
  ASSUME CallInv, C!PurgeStaleCalls
  PROVE  CallInv'
<1>1. /\ KeyInv /\ GroupInv /\ ListInv /\ PurgedInv /\ StoredInv /\ C!CallsAreGrouped /\ CallTypes
      /\ LostInv
  BY DEF CallInv
<1>2. UNCHANGED <<atCallRecord, groupCallRecord, groupsCallRecord, tables, partitions, form, answer,
                  reported, ungrouped, bereft, unsaved>>
  BY DEF C!PurgeStaleCalls, C!client, C!history
<1>3. PICK x : x = [C!NoRow EXCEPT !.is = "purged"]
  OBVIOUS
<1>4. x \in RowsOf(groupsCallRecord) /\ x.is = "purged"
  <2>1. 0 \in 0 .. groupsCallRecord /\ "null" \in C!Column /\ C!Unread \in C!Time
    BY <1>1 DEF CallTypes, C!Column, C!Time
  <2> QED
    BY <1>3, <2>1 DEF C!NoRow, RowsOf
<1>5. PICK stale \in SUBSET C!Id :
        /\ row' = [q \in C!Id |-> IF q \in stale THEN x ELSE row[q]]
        /\ \A q \in stale : row[q].is = "there"
  BY <1>3 DEF C!PurgeStaleCalls
<1>6. /\ row' \in [C!Id -> RowsOf(groupsCallRecord)]
      /\ \A q \in C!Id : row'[q] = row[q] \/ (row'[q] = x /\ row[q].is = "there")
  BY <1>1, <1>4, <1>5 DEF CallTypes
<1>7. CallTypes'
  BY <1>1, <1>2, <1>6 DEF CallTypes
<1>8. KeyInv'
  <2>1. ASSUME NEW u \in C!Source, atCallRecord[u].row # 0 PROVE atCallRecord[u].row \in C!Id
    <3>1. atCallRecord[u].row \in 0 .. MaxRowsCallRecord
      BY <1>1 DEF CallTypes, PlacesOf
    <3> QED
      BY <2>1, <3>1, CallNumbers
  <2> QED
    BY <1>1, <1>2, <1>4, <1>6, <2>1 DEF KeyInv, Has
<1>9. GroupInv'
  BY <1>1, <1>2 DEF GroupInv
<1>10. ListInv'
  BY <1>1, <1>2, <1>4, <1>6 DEF ListInv, CallTypes
<1>11. PurgedInv'
  BY <1>1, <1>3, <1>4, <1>6 DEF PurgedInv, C!NoRow
<1>12. StoredInv'
  <2>1. ASSUME atCallRecord["upload"].row # 0, Stored PROVE Stored'
    <3>1. atCallRecord["upload"].row \in 0 .. MaxRowsCallRecord
      BY <1>1, HandlersGo DEF CallTypes, PlacesOf
    <3>2. atCallRecord["upload"].row \in C!Id
      BY <2>1, <3>1, CallNumbers
    <3> QED
      BY <1>2, <1>4, <1>6, <2>1, <3>2 DEF Stored, C!HasAudio, C!DetectUploadFormat
  <2>2. atCallRecord["upload"].pc \in {"lists", "rows", "end"} => atCallRecord["upload"].row # 0
    BY <1>1, HandlersGo DEF KeyInv, Has, Rowless
  <2> QED
    BY <1>1, <1>2, <2>1, <2>2 DEF StoredInv
<1>13. C!CallsAreGrouped'
  <2>1. \A q \in C!Id : C!Creating(q) => C!Creating(q)'
    BY <1>2 DEF C!Creating
  <2>2. \A q \in C!Id : row'[q].is = "there" => row'[q] = row[q]
    BY <1>4, <1>6
  <2> QED
    BY <1>1, <1>2, <2>1, <2>2 DEF C!CallsAreGrouped
<1>14. LostInv'
  <2>1. \A q \in C!Id : row[q].is # "there" \/ row[q].group # 0 =>
                         row'[q].is # "there" \/ row'[q].group # 0
    BY <1>4, <1>6
  <2> QED
    BY <1>1, <1>2, <2>1, LostKept
<1> QED
  BY <1>7, <1>8, <1>9, <1>10, <1>11, <1>12, <1>13, <1>14 DEF CallInv

LEMMA OrphansPurged ==
  ASSUME CallInv, C!PurgeOrphanCallGroups
  PROVE  CallInv'
<1>1. /\ KeyInv /\ GroupInv /\ ListInv /\ PurgedInv /\ StoredInv /\ C!CallsAreGrouped /\ CallTypes
      /\ LostInv
  BY DEF CallInv
<1>2. UNCHANGED <<row, atCallRecord, groupsCallRecord, tables, partitions, form, answer,
                  reported, ungrouped, unsaved>>
  BY DEF C!PurgeOrphanCallGroups, C!client
<1>3. C!NoGroup \in GroupsOf(groupsCallRecord) /\ C!NoGroup.id = 0
  BY <1>1, CallNumbers DEF C!NoGroup, GroupsOf, CallTypes
<1>4. /\ groupCallRecord' \in [C!Time -> GroupsOf(groupsCallRecord)]
      /\ \A t \in C!Time : \/ groupCallRecord'[t] = groupCallRecord[t]
                           \/ /\ groupCallRecord'[t].id = 0
                              /\ \A q \in C!Id : row[q].group # groupCallRecord[t].id
  BY <1>1, <1>3 DEF C!PurgeOrphanCallGroups, CallTypes
<1>11. /\ bereft \subseteq bereft'
       /\ \A s \in C!Source, t \in C!Time :
            (/\ atCallRecord[s].pc = "link" /\ groupCallRecord[t].id = atCallRecord[s].group
             /\ groupCallRecord'[t].id # groupCallRecord[t].id) => atCallRecord[s].row \in bereft'
  <2>1. PICK orphans \in SUBSET C!Time :
          /\ groupCallRecord' = [t \in C!Time |-> IF t \in orphans THEN C!NoGroup ELSE groupCallRecord[t]]
          /\ bereft' = bereft \cup {atCallRecord[s].row : s \in {x \in C!Source :
               C!At(x, "link") /\ \E t \in orphans : groupCallRecord[t].id = atCallRecord[x].group}}
    BY DEF C!PurgeOrphanCallGroups
  <2>2. bereft \subseteq bereft'
    BY <2>1
  <2>3. ASSUME NEW s \in C!Source, NEW t \in C!Time, atCallRecord[s].pc = "link",
               groupCallRecord[t].id = atCallRecord[s].group,
               groupCallRecord'[t].id # groupCallRecord[t].id
        PROVE  atCallRecord[s].row \in bereft'
    <3>1. t \in orphans
      BY <2>1, <2>3
    <3> QED
      BY <2>1, <2>3, <3>1 DEF C!At
  <2> QED
    BY <2>2, <2>3
<1>12. bereft' \subseteq C!Id
  <2>1. ASSUME NEW s \in C!Source, atCallRecord[s].pc = "link" PROVE atCallRecord[s].row \in C!Id
    BY <1>1, <2>1, HandlersRow DEF Has, Rowless
  <2> QED
    BY <1>1, <2>1 DEF C!PurgeOrphanCallGroups, C!At, CallTypes
<1>5. CallTypes'
  BY <1>1, <1>2, <1>4, <1>12 DEF CallTypes
<1>6. KeyInv'
  BY <1>1, <1>2 DEF KeyInv, Has
<1>7. GroupInv'
  <2>1. \A t \in C!Time : groupCallRecord'[t].id # 0 => groupCallRecord'[t] = groupCallRecord[t]
    BY <1>4
  <2> QED
    BY <1>1, <1>2, <2>1 DEF GroupInv
<1>8. ListInv' /\ PurgedInv'
  BY <1>1, <1>2 DEF ListInv, PurgedInv, C!NoRow
<1>9. StoredInv'
  BY <1>1, <1>2 DEF StoredInv, Stored, C!HasAudio, C!DetectUploadFormat
<1>10. C!CallsAreGrouped'
  <2>1. \A q \in C!Id : C!Creating(q) => C!Creating(q)'
    BY <1>2 DEF C!Creating
  <2>2. \A q \in C!Id : row[q].start \in C!Time
    BY <1>1 DEF CallTypes, RowsOf
  <2> QED
    BY <1>1, <1>2, <1>4, <1>11, <2>1, <2>2 DEF C!CallsAreGrouped
<1>13. LostInv'
  <2> SUFFICES ASSUME NEW u \in C!Source, atCallRecord[u].pc = "link", ~C!GroupThere(u)',
                      NEW q, q = atCallRecord[u].row
               PROVE  q \in bereft' \/ row[q].group # 0 \/ row[q].is # "there"
    BY <1>2 DEF LostInv
  <2>1. CASE C!GroupThere(u)
    BY <1>2, <1>11, <2>1 DEF C!GroupThere
  <2>2. CASE ~C!GroupThere(u)
    BY <1>1, <1>11, <2>2 DEF LostInv
  <2> QED
    BY <2>1, <2>2
<1> QED
  BY <1>5, <1>6, <1>7, <1>8, <1>9, <1>10, <1>13 DEF CallInv

-----------------------------------------------------------------------------
(* All steps.                                                              *)

LEMMA CallInit == C!Init => CallInv /\ OtherTypes
<1> SUFFICES ASSUME C!Init PROVE CallInv /\ OtherTypes
  OBVIOUS
<1> USE DEF C!Init
<1>1. /\ groupsCallRecord = 0 /\ 0 \in 0 .. MaxRowsCallRecord /\ 0 \in 0 .. MaxTries
      /\ 0 \in 0 .. MaxFaultsCallRecord /\ 0 \in 0 .. 0
      /\ "null" \in C!Column /\ C!Unread \in C!Time
  BY CallNumbers DEF C!Column, C!Time
<1>2. row \in [C!Id -> RowsOf(0)] /\ \A q \in C!Id : row[q].is = "none" /\ row[q].group = 0
  BY <1>1 DEF C!NoRow, RowsOf
<1>3. groupCallRecord \in [C!Time -> GroupsOf(0)] /\ \A t \in C!Time : groupCallRecord[t].id = 0
  BY <1>1 DEF C!NoGroup, GroupsOf
<1>4. /\ atCallRecord \in [C!Source -> PlacesOf(0)]
      /\ \A s \in C!Source : atCallRecord[s].row = 0 /\ atCallRecord[s].pc \in {"done", "idle", "look"}
  <2>1. PICK comes \in SUBSET C!Source :
          atCallRecord = [s \in C!Source |->
                  [pc |-> CASE s \notin comes -> "done"
                            [] s \in comes /\ s = "upload" -> "idle"
                            [] OTHER -> "look",
                   row |-> 0, start |-> C!StartOf[s], group |-> 0,
                   lists |-> IF s \in {"audio", "file"} THEN Brings[s] ELSE {},
                   retried |-> FALSE, gone |-> FALSE]]
    OBVIOUS
  <2>2. ASSUME NEW s \in C!Source
        PROVE  /\ atCallRecord[s] \in PlacesOf(0) /\ atCallRecord[s].row = 0
               /\ atCallRecord[s].pc \in {"done", "idle", "look"}
    <3>1. C!StartOf[s] \in C!Time
      BY DEF C!StartOf, C!Source, C!Time
    <3>2. (IF s \in {"audio", "file"} THEN Brings[s] ELSE {}) \in SUBSET {"src", "freq"}
      BY CallRecordAssumption
    <3>3. PICK pc \in {"done", "idle", "look"} :
            pc = CASE s \notin comes -> "done" [] s \in comes /\ s = "upload" -> "idle" [] OTHER -> "look"
      OBVIOUS
    <3>4. atCallRecord[s] = [pc |-> pc, row |-> 0, start |-> C!StartOf[s], group |-> 0,
                   lists |-> IF s \in {"audio", "file"} THEN Brings[s] ELSE {},
                   retried |-> FALSE, gone |-> FALSE]
      BY <2>1, <3>3
    <3> QED
      BY <1>1, <3>1, <3>2, <3>3, <3>4 DEF PlacesOf, C!Step
  <2>3. DOMAIN atCallRecord = C!Source /\ atCallRecord = [s \in C!Source |-> atCallRecord[s]]
    BY <2>1
  <2> QED
    BY <2>2, <2>3
<1>5. CallTypes
  BY <1>1, <1>2, <1>3, <1>4 DEF CallTypes
<1>6. OtherTypes
  BY <1>1 DEF OtherTypes
<1>7. KeyInv /\ GroupInv /\ LostInv /\ ListInv /\ PurgedInv /\ StoredInv /\ C!CallsAreGrouped
  BY <1>2, <1>3, <1>4, HandlersGo DEF KeyInv, Has, Rowless, GroupInv, LostInv, ListInv, PurgedInv,
     StoredInv, C!CallsAreGrouped
<1> QED
  BY <1>5, <1>6, <1>7 DEF CallInv

LEMMA CallStep == CallInv /\ [C!Next]_callVars => CallInv'
<1> SUFFICES ASSUME CallInv, [C!Next]_callVars PROVE CallInv'
  OBVIOUS
<1>1. ASSUME NEW s \in C!Source, C!Handle(s) PROVE CallInv'
  BY <1>1, CallEnds, CallUpdates, ListsUpdates, Upserted, Linked, PrimarySet, Answered, Searches,
     Inserted DEF C!Handle
<1> QED
  BY <1>1, Uploads, Idles, Purges, OrphansPurged DEF C!Next

LEMMA CallOthers == OtherTypes /\ [C!Next]_callVars => OtherTypes'
<1> SUFFICES ASSUME OtherTypes, [C!Next]_callVars PROVE OtherTypes'
  OBVIOUS
<1>1. /\ faultsCallRecord \in 0 .. MaxFaultsCallRecord
      /\ \A n \in 0 .. MaxFaultsCallRecord : n < MaxFaultsCallRecord => n + 1 \in 0 .. MaxFaultsCallRecord
      /\ tries \in 0 .. MaxTries /\ \A n \in 0 .. MaxTries : n < MaxTries => n + 1 \in 0 .. MaxTries
  BY CallNumbers DEF OtherTypes
<1>2. ASSUME NEW s \in C!Source, C!Works(s) \/ C!Fails(s) \/ UNCHANGED faultsCallRecord
      PROVE  faultsCallRecord' \in 0 .. MaxFaultsCallRecord
  BY <1>1, <1>2 DEF C!Works, C!Fails
<1>3. ASSUME NEW s \in C!Source, C!Handle(s)
      PROVE  /\ UNCHANGED <<form, tries, old>>
             /\ answer' \in {"none", "created", "duplicate", "error", "bad"}
             /\ C!Works(s) \/ C!Fails(s) \/ UNCHANGED faultsCallRecord
  <2>1. answer \in {"none", "created", "duplicate", "error", "bad"}
    BY DEF OtherTypes
  <2>2. CASE C!Look(s) \/ C!Again(s) \/ C!Insert(s) \/ C!EnsurePartitionsFor(s) \/ C!InsertFails(s)
    BY <2>1, <2>2 DEF C!Look, C!Again, C!Insert, C!EnsurePartitionsFor, C!InsertFails, C!End, C!client
  <2>3. CASE \/ C!UpsertCallGroup(s) \/ C!GroupFails(s) \/ C!SetCallGroupID(s)
             \/ C!SetCallGroupPrimary(s) \/ C!UpdateCallStartFields(s) \/ C!UpdateCallElapsed(s)
             \/ C!UpdateCallEnd(s)
    BY <2>1, <2>3 DEF C!UpsertCallGroup, C!GroupFails, C!SetCallGroupID, C!SetCallGroupPrimary,
       C!UpdateCallStartFields, C!UpdateCallElapsed, C!UpdateCallEnd, C!client
  <2>4. CASE \/ C!GetUnitEventsForCall(s) \/ C!UpdateCallSrcFreqIfNull(s)
             \/ C!InsertRows(s, "synthesized", "done") \/ C!SaveAudio(s) \/ C!UpdateCallAudio(s)
             \/ C!UpdateCallFilename(s) \/ C!UpdateCallSrcFreq(s)
             \/ C!InsertRows(s, "rows", "end") \/ C!Answer(s)
    BY <2>1, <2>4 DEF C!GetUnitEventsForCall, C!UpdateCallSrcFreqIfNull, C!InsertRows, C!SaveAudio,
       C!UpdateCallAudio, C!UpdateCallFilename, C!UpdateCallSrcFreq, C!Answer, C!End, C!client
  <2> QED
    BY <1>3, <2>2, <2>3, <2>4 DEF C!Handle
<1>4. CASE \E s \in C!Source : C!Handle(s)
  BY <1>2, <1>3, <1>4 DEF OtherTypes
<1>5. CASE C!Upload
  BY <1>1, <1>5 DEF C!Upload, OtherTypes
<1>6. CASE C!ClientLeaves \/ C!Ages
  BY <1>1, <1>6 DEF C!ClientLeaves, C!Ages, C!client, OtherTypes
<1>7. CASE C!PurgeStaleCalls \/ C!PurgeOrphanCallGroups \/ UNCHANGED callVars
  BY <1>7 DEF C!PurgeStaleCalls, C!PurgeOrphanCallGroups, C!client, callVars, OtherTypes
<1> QED
  BY <1>4, <1>5, <1>6, <1>7 DEF C!Next

-----------------------------------------------------------------------------
(* The theorems.                                                           *)

CallHolds == part = "call" => CallInv /\ OtherTypes

LEMMA CallFollowed == RecordsSpec => []CallHolds
<1>1. RecordsInit => CallHolds
  BY CallInit DEF RecordsInit, CallHolds
<1>2. CallHolds /\ [RecordsNext]_recordsVars => CallHolds'
  <2> SUFFICES ASSUME CallHolds, [RecordsNext]_recordsVars, part' = "call" PROVE (CallInv /\ OtherTypes)'
    BY DEF CallHolds
  <2>1. part = "call" /\ [C!Next]_callVars
    BY DEF RecordsNext, recordsVars
  <2> QED
    BY <2>1, CallStep, CallOthers DEF CallHolds
<1> QED
  BY <1>1, <1>2, PTL DEF RecordsSpec

\* A list of units made of unit events never takes the place of a reported one: what a
\* report wrote stays until another report or a purge, in whatever order the end of the
\* call, its audio and its file come (handler_audio.go).
THEOREM RealListsAlwaysStay == RecordsSpec => []RealListsStay
<1>1. CallHolds => RealListsStay
  <2> SUFFICES ASSUME CallInv, OtherTypes PROVE C!TypeOK /\ C!RealListsStay
    BY DEF CallHolds, RealListsStay
  <2>1. CallTypes /\ ListInv /\ PurgedInv
    BY DEF CallInv
  <2>2. C!RealListsStay
    <3> SUFFICES ASSUME NEW q \in reported PROVE row[q].src # "synthesized"
      BY DEF C!RealListsStay
    <3>1. CASE row[q].is = "purged"
      BY <2>1, <3>1 DEF PurgedInv, C!NoRow, CallTypes
    <3>2. CASE row[q].src = "real"
      BY <3>2
    <3> QED
      BY <2>1, <3>1, <3>2 DEF ListInv
  <2> QED
    BY <2>1, <2>2, CallTypesAre
<1> QED
  BY <1>1, CallFollowed, PTL

\* Whatever maintenance purges, the group a call refers to is there, and that of its start
\* time; a call without one is being created, or a statement failed, or its group was
\* purged before it referred to it.  Ids of groups are not given again, so a handler that
\* a purge overtook refers to no other group (calls.go UpsertCallGroup, SetCallGroupID).
THEOREM CallsAlwaysGrouped == RecordsSpec => []CallsAreGrouped
<1>1. CallHolds => CallsAreGrouped
  BY DEF CallHolds, CallInv, CallsAreGrouped
<1> QED
  BY <1>1, CallFollowed, PTL

\* A client that was told its call was created finds its audio at the call, unless saving
\* it failed, however often it sent and whatever was purged (handler_upload.go).
THEOREM UploadsAlwaysStored == RecordsSpec => []UploadsAreStored
<1>1. CallHolds => UploadsAreStored
  BY DEF CallHolds, CallInv, StoredInv, Stored, UploadsAreStored, C!UploadsAreStored
<1> QED
  BY <1>1, CallFollowed, PTL

-----------------------------------------------------------------------------
(* Transfer.                                                               *)

\* The stages in which a call is in hand.
InCalls == {"find", "group", "insert", "link", "lists"}

\* A call of the archive is in the target, as itself or as one it is taken for.
There(c) == c.site = X!NoSite \/ X!Matches(c) # {}

\* Imported calls of a system are further apart than the lookup's window, but for those
\* whose lookup failed.
KeptApart ==
  \A r, q \in rowsTransfer :
    r.n # q.n /\ r.sys = q.sys /\ r.rec # X!NoCall /\ q.rec # X!NoCall /\ ~r.blind /\ ~q.blind
      => ~X!Near(r.start, q.start)

\* After a complete import whose statements worked each call is there, or one near it.
NoneMissing ==
  stage = "idle" /\ done = imports /\ done > 0 /\ clean =>
    \A c \in archive.calls : c.site = X!NoSite \/ X!Matches(c) # {}

\* Nothing is imported before the archive is written, and an import that runs is not done.
ImportInv ==
  /\ source \in [calls : SUBSET Recorded, texts : SUBSET Recorded]
  /\ archive \in [pc : {"calls", "texts", "write", "written"}, calls : SUBSET Recorded,
                  texts : SUBSET Recorded]
  /\ imports \in Nat /\ done \in Nat /\ done <= imports
  /\ archive.pc # "written" => stage = "idle" /\ imports = 0
  /\ stage # "idle" => done < imports

\* Each system of the archive has one in the target from its stage on.
SystemsInv ==
  /\ stage = "identity" => madeTransfer # 0
  /\ stage \in X!Stages \ {"idle", "p25", "identity"} => sysMap[X!P25Site] # 0
  /\ stage = "conv" => sites \subseteq ConvSite /\ \A s \in ConvSite \ sites : sysMap[s] # 0
  /\ stage \in X!Stages \ {"idle", "p25", "identity", "conv"} => \A s \in ConvSite : sysMap[s] # 0

\* The call in hand is one to do; it is not there, unless its lookup failed, until it is
\* inserted.
HandInv ==
  /\ stage \in {"group", "insert", "link", "lists"} => X!InHand \in todo /\ X!SystemOf(X!InHand) # 0
  /\ stage \in {"group", "insert"} /\ ~blind =>
       \A r \in rowsTransfer : r.rec # X!NoCall /\ r.sys = X!SystemOf(X!InHand)
                                 => ~X!Near(r.start, X!InHand.start)
  /\ stage \in {"link", "lists"} => There(X!InHand)

\* Of an import without a failure, what is done is there.
DoneInv ==
  clean =>
    /\ stage \in InCalls => todo \subseteq archive.calls /\ \A c \in archive.calls \ todo : There(c)
    /\ stage = "texts" => \A c \in archive.calls : There(c)

TransferInv ==
  /\ X!TypeOK /\ KeptApart /\ NoneMissing /\ IsFiniteSet(rowsTransfer)
  /\ ImportInv /\ SystemsInv /\ HandInv /\ DoneInv

LEMMA RecordedFacts ==
  /\ MaxSystemTransfer \in Nat /\ MaxSystemTransfer # 0 /\ MaxRowsTransfer \in Nat
  /\ \A c \in Recorded : c.site \in X!Site \cup {X!NoSite} /\ c.start \in Nat
BY TransferAssumption

\* A set of naturals that is not empty has a least element.
LEMMA FirstNatural ==
  ASSUME NEW E \in SUBSET Nat, E # {}
  PROVE  \E n \in E : \A m \in E : n <= m
<1> DEFINE Less == {ss \in Nat \X Nat : ss[1] < ss[2]}
<1>1. IsWellFoundedOn(Less, Nat)
  BY NatLessThanWellFounded DEF OpToRel
<1>2. \E n \in E : \A m \in E : <<m, n>> \notin Less
  <2> HIDE DEF Less
  <2> QED
    BY <1>1, WFMin
<1>3. PICK n \in E : \A m \in E : <<m, n>> \notin Less
  BY <1>2
<1>4. ASSUME NEW m \in E PROVE n <= m
  <2>1. ~(m < n)
    BY <1>3
  <2> QED
    BY <2>1
<1> QED
  BY <1>4

\* The calls come by their start: of some calls there is a first.
LEMMA InHandIs ==
  ASSUME todo \subseteq Recorded, todo # {}
  PROVE  X!InHand \in todo
<1>1. PICK e : e = {c.start : c \in todo}
  OBVIOUS
<1>2. e \subseteq Nat /\ e # {}
  BY <1>1, RecordedFacts
<1>3. PICK n \in e : \A m \in e : n <= m
  BY <1>2, FirstNatural
<1>4. PICK c \in todo : \A d \in todo : c.start <= d.start
  BY <1>1, <1>3
<1> QED
  BY <1>4 DEF X!InHand

\* The system of a call, which only importSystems disturbs.
LEMMA SystemOfIs ==
  ASSUME X!TypeOK, NEW c \in Recorded
  PROVE  /\ X!SystemOf(c) \in X!System
         /\ sysMap' = sysMap => X!SystemOf(c)' = X!SystemOf(c)
<1>1. X!SystemOf(c) \in X!System
  <2>1. CASE c.site = X!P25Site
    BY <2>1 DEF X!TypeOK, X!SystemOf, X!SystemRef, X!Site, X!Key
  <2>2. CASE c.site # X!P25Site /\ c.site \in ConvSite
    BY <2>2 DEF X!TypeOK, X!SystemOf, X!SystemRef, X!Site, X!Key
  <2>3. CASE c.site # X!P25Site /\ c.site \notin ConvSite
    BY <2>3, RecordedFacts DEF X!SystemOf, X!SystemRef, X!System, X!NoSystem
  <2> QED
    BY <2>1, <2>2, <2>3
<1>2. sysMap' = sysMap => X!SystemOf(c)' = X!SystemOf(c)
  BY DEF X!SystemOf, X!SystemRef
<1> QED
  BY <1>1, <1>2

\* Rows keep their system, start and call, and none is lost.
RowsKept ==
  /\ \A r \in rowsTransfer : \E q \in rowsTransfer' :
       q.sys = r.sys /\ q.start = r.start /\ q.rec = r.rec
  /\ sysMap' = sysMap

LEMMA StillThere ==
  ASSUME X!TypeOK, RowsKept, NEW c \in Recorded, There(c)
  PROVE  There(c)'
<1>1. CASE c.site = X!NoSite
  BY <1>1 DEF There, X!NoSite
<1>2. CASE c.site # X!NoSite
  <2>1. PICK r \in rowsTransfer : r.sys = X!SystemOf(c) /\ X!Near(r.start, c.start)
    BY <1>2 DEF There, X!Matches
  <2>2. PICK q \in rowsTransfer' : q.sys = r.sys /\ q.start = r.start
    BY DEF RowsKept
  <2>3. q.sys = X!SystemOf(c)' /\ X!Near(q.start, c.start)
    BY <2>1, <2>2, SystemOfIs DEF RowsKept
  <2>4. X!Matches(c)' # {}
    BY <2>2, <2>3 DEF X!Matches, X!Near, X!Window
  <2> QED
    BY <2>4 DEF There
<1> QED
  BY <1>1, <1>2

\* What a step of a running import leaves of the parts about imports.
LEMMA ImportGoesOn ==
  ASSUME TransferInv, stage # "idle", UNCHANGED <<source, archive, imports, done>>
  PROVE  ImportInv' /\ (stage' # "idle" => NoneMissing')
BY DEF TransferInv, ImportInv, NoneMissing

\* The systems stay found once all are.
LEMMA SystemsStay ==
  ASSUME TransferInv, stage \in X!Stages \ {"idle", "p25", "identity", "conv"},
         stage' \in X!Stages \ {"p25", "identity", "conv"}, sysMap' = sysMap
  PROVE  SystemsInv'
BY DEF TransferInv, SystemsInv, X!P25Site

\* Rows that stay as they are, or take up no call of the archive, keep calls apart.
LEMMA RowsApart ==
  ASSUME TransferInv,
         \A r \in rowsTransfer' :
           \/ r.rec = X!NoCall
           \/ \E q \in rowsTransfer : /\ q.n = r.n /\ q.sys = r.sys /\ q.start = r.start
                                      /\ q.rec = r.rec /\ q.blind = r.blind
  PROVE  /\ KeptApart'
         /\ \A s, b : (\A r \in rowsTransfer : r.rec # X!NoCall /\ r.sys = s => ~X!Near(r.start, b))
                        => (\A r \in rowsTransfer' : r.rec # X!NoCall /\ r.sys = s => ~X!Near(r.start, b))
<1>1. KeptApart
  BY DEF TransferInv
<1>2. KeptApart'
  BY <1>1 DEF KeptApart, X!NoCall, X!NoSite, X!Near, X!Window
<1> QED
  BY <1>2

-----------------------------------------------------------------------------
LEMMA TransferInit == X!Init => TransferInv
<1> SUFFICES ASSUME X!Init PROVE TransferInv
  OBVIOUS
<1> USE DEF X!Init
<1>1. {0, 1} \subseteq X!System
  BY RecordedFacts DEF X!System
<1>2. X!TypeOK
  BY <1>1 DEF X!TypeOK, X!Key, X!Stages, X!Mode, X!NoSystem
<1>3. KeptApart /\ NoneMissing /\ IsFiniteSet(rowsTransfer)
  BY FS_EmptySet DEF KeptApart, NoneMissing
<1>4. ImportInv /\ SystemsInv /\ HandInv /\ DoneInv
  BY DEF ImportInv, SystemsInv, HandInv, DoneInv, InCalls
<1> QED
  BY <1>2, <1>3, <1>4 DEF TransferInv

LEMMA TransferExports ==
  ASSUME TransferInv, X!Export
  PROVE  TransferInv'
<1>1. /\ archive.pc # "written"
      /\ UNCHANGED <<madeTransfer, p25, siteOfTransfer, names, rowsTransfer, groupsTransfer, texts>>
      /\ UNCHANGED <<stage, mode, sysMap, siteMap, sites, todo, blind, clean, done, imports>>
  BY DEF X!Export, X!Record, X!Transcribe, X!ExportCalls, X!ExportTranscriptions, X!WriteArchive, X!target
<1>2. /\ source' \in [calls : SUBSET Recorded, texts : SUBSET Recorded]
      /\ source'.texts \subseteq source'.calls
      /\ archive' \in [pc : {"calls", "texts", "write", "written"}, calls : SUBSET Recorded,
                       texts : SUBSET Recorded]
  <2>1. /\ source \in [calls : SUBSET Recorded, texts : SUBSET Recorded] /\ source.texts \subseteq source.calls
        /\ archive \in [pc : {"calls", "texts", "write", "written"}, calls : SUBSET Recorded,
                        texts : SUBSET Recorded]
    BY DEF TransferInv, ImportInv, X!TypeOK
  <2>2. ASSUME NEW c \in Recorded, X!Record(c) \/ X!Transcribe(c)
        PROVE  /\ source' \in [calls : SUBSET Recorded, texts : SUBSET Recorded]
               /\ source'.texts \subseteq source'.calls /\ archive' = archive
    BY <2>1, <2>2 DEF X!Record, X!Transcribe
  <2>3. CASE X!ExportCalls
    BY <2>1, <2>3 DEF X!ExportCalls, X!CallsToExport
  <2>4. CASE X!ExportTranscriptions
    <3>1. source' = [calls |-> {}, texts |-> {}] /\ archive' = [archive EXCEPT !.pc = "write", !.texts = source.texts]
      BY <2>4 DEF X!ExportTranscriptions, X!TextsToExport
    <3>2. source' \in [calls : SUBSET Recorded, texts : SUBSET Recorded] /\ source'.texts \subseteq source'.calls
      BY <3>1
    <3>3. source.texts \in SUBSET Recorded
      BY <2>1
    <3> QED
      BY <2>1, <3>1, <3>2, <3>3
  <2>5. CASE X!WriteArchive
    BY <2>1, <2>5 DEF X!WriteArchive
  <2> QED
    BY <2>1, <2>2, <2>3, <2>4, <2>5 DEF X!Export
<1>t. X!TypeOK'
  BY <1>1, <1>2 DEF TransferInv, X!TypeOK
<1>3. stage = "idle" /\ imports = 0 /\ done = 0
  BY <1>1 DEF TransferInv, ImportInv
<1>4. KeptApart' /\ NoneMissing' /\ IsFiniteSet(rowsTransfer)'
  BY <1>1, <1>3, RowsApart DEF NoneMissing, TransferInv
<1>5. ImportInv' /\ SystemsInv' /\ HandInv' /\ DoneInv'
  BY <1>1, <1>2, <1>3 DEF TransferInv, ImportInv, SystemsInv, HandInv, DoneInv, InCalls
<1> QED
  BY <1>t, <1>4, <1>5 DEF TransferInv

LEMMA TransferBegins ==
  ASSUME TransferInv, NEW m \in X!Mode, X!ImportMetadata(m)
  PROVE  TransferInv'
<1>1. /\ archive.pc = "written" /\ stage = "idle" /\ stage' = "p25" /\ imports' = imports + 1
      /\ UNCHANGED <<madeTransfer, p25, siteOfTransfer, names, rowsTransfer, groupsTransfer, texts>>
      /\ UNCHANGED <<source, archive, done>>
  BY DEF X!ImportMetadata, X!target
<1>2. X!TypeOK'
  <2>1. /\ mode' = m /\ sysMap' = [k \in X!Site |-> 0] /\ siteMap' = {} /\ sites' = {} /\ todo' = {}
        /\ blind' = FALSE /\ clean' = TRUE
    BY DEF X!ImportMetadata, X!Key, X!NoSystem
  <2>2. sysMap' \in [X!Site -> X!System]
    BY <2>1, RecordedFacts DEF X!System
  <2> QED
    BY <1>1, <2>1, <2>2 DEF TransferInv, X!TypeOK, X!Stages, X!Key
<1>3. KeptApart' /\ NoneMissing' /\ IsFiniteSet(rowsTransfer)'
  BY <1>1, RowsApart DEF NoneMissing, TransferInv
<1>4. ImportInv'
  BY <1>1 DEF TransferInv, ImportInv
<1>5. SystemsInv' /\ HandInv' /\ DoneInv'
  BY <1>1 DEF SystemsInv, HandInv, DoneInv, InCalls
<1> QED
  BY <1>2, <1>3, <1>4, <1>5 DEF TransferInv

\* The stages before the calls leave rows and archive alone.
LEMMA BeforeCalls ==
  ASSUME TransferInv, X!TypeOK', SystemsInv', stage \notin InCalls \cup {"idle", "texts"},
         UNCHANGED <<rowsTransfer, source, archive, imports, done>>,
         stage' \notin InCalls \cup {"texts"} \/ (stage' = "find" /\ todo' = archive.calls),
         clean' => clean
  PROVE  TransferInv'
<1>1. ImportInv'
  BY ImportGoesOn DEF InCalls
<1>2. NoneMissing'
  BY DEF TransferInv, ImportInv, NoneMissing, InCalls
<1>3. KeptApart' /\ IsFiniteSet(rowsTransfer)'
  BY RowsApart DEF TransferInv
<1>4. HandInv' /\ DoneInv'
  BY DEF HandInv, DoneInv, InCalls
<1> QED
  BY <1>1, <1>2, <1>3, <1>4 DEF TransferInv

LEMMA TransferSystems ==
  ASSUME TransferInv, X!ImportP25System \/ X!SetIdentity
  PROVE  TransferInv'
<1>1. /\ stage \in {"p25", "identity"} /\ stage' \in {"identity", "conv"}
      /\ UNCHANGED <<siteOfTransfer, names, rowsTransfer, groupsTransfer, texts, siteMap, todo, blind, clean>>
      /\ UNCHANGED <<source, archive, mode, imports, done>>
  BY DEF X!ImportP25System, X!SetIdentity, X!Running
<1>2. /\ madeTransfer' \in X!System /\ p25' \in X!System /\ sites' \subseteq X!Site
      /\ sysMap' \in [X!Site -> X!System]
      /\ stage' = "identity" => madeTransfer' # 0
      /\ stage' = "conv" => sites' = ConvSite /\ sysMap'["p"] # 0
  <2>1. CASE X!ImportP25System /\ p25 # 0
    BY <2>1 DEF X!ImportP25System, TransferInv, X!TypeOK, X!P25Site, X!Site, X!NoSystem, X!Key
  <2>2. CASE X!ImportP25System /\ p25 = 0
    BY <2>2, RecordedFacts DEF X!ImportP25System, TransferInv, X!TypeOK, X!System, X!NoSystem, X!Key
  <2>3. CASE X!SetIdentity
    BY <2>3 DEF X!SetIdentity, TransferInv, SystemsInv, X!TypeOK, X!P25Site, X!Site, X!Key
  <2> QED
    BY <2>1, <2>2, <2>3
<1>3. X!TypeOK'
  BY <1>1, <1>2 DEF TransferInv, X!TypeOK, X!Stages, X!Key
<1>4. SystemsInv'
  BY <1>1, <1>2 DEF SystemsInv, X!P25Site
<1> QED
  BY <1>1, <1>3, <1>4, BeforeCalls DEF InCalls

LEMMA TransferConventional ==
  ASSUME TransferInv, NEW s \in ConvSite, X!ImportConventionalSystem(s)
  PROVE  TransferInv'
<1>1. /\ stage = "conv" /\ s \in sites
      /\ stage' = (IF sites = {s} THEN "sites" ELSE "conv")
      /\ sites' = (IF sites = {s} THEN X!Site ELSE sites \ {s})
      /\ UNCHANGED <<p25, siteOfTransfer, names, rowsTransfer, groupsTransfer, texts, siteMap, todo, blind, clean>>
      /\ UNCHANGED <<source, archive, mode, imports, done>>
  BY DEF X!ImportConventionalSystem, X!Running
<1>2. PICK y : /\ y \in X!System /\ y # 0 /\ sysMap' = [sysMap EXCEPT ![s] = y]
               /\ madeTransfer' \in X!System
  <2>1. CASE siteOfTransfer[s] # 0
    BY <2>1 DEF X!ImportConventionalSystem, TransferInv, X!TypeOK, X!Site, X!NoSystem
  <2>2. CASE siteOfTransfer[s] = 0
    <3>1. /\ madeTransfer < MaxSystemTransfer /\ madeTransfer' = madeTransfer + 1
          /\ sysMap' = [sysMap EXCEPT ![s] = madeTransfer']
      BY <2>2 DEF X!ImportConventionalSystem, X!NoSystem
    <3>2. madeTransfer' \in X!System /\ madeTransfer' # 0
      BY <3>1, RecordedFacts DEF TransferInv, X!TypeOK, X!System
    <3> QED
      BY <3>1, <3>2
  <2> QED
    BY <2>1, <2>2
<1>3. sites' \subseteq X!Site /\ sysMap' \in [X!Site -> X!System]
  BY <1>1, <1>2 DEF TransferInv, X!TypeOK, X!Key
<1>4. X!TypeOK'
  BY <1>1, <1>2, <1>3 DEF TransferInv, X!TypeOK, X!Stages, X!Key
<1>5. SystemsInv'
  <2>1. /\ sysMap["p"] # 0 /\ sites \subseteq ConvSite /\ \A u \in ConvSite \ sites : sysMap[u] # 0
        /\ sysMap \in [X!Site -> X!System]
    BY <1>1 DEF TransferInv, SystemsInv, X!TypeOK, X!Stages, X!Key, X!P25Site
  <2>2. sysMap'["p"] # 0 /\ \A u \in ConvSite \ (sites \ {s}) : sysMap'[u] # 0
    BY <1>2, <2>1 DEF X!Site, X!P25Site
  <2> QED
    BY <1>1, <2>1, <2>2 DEF SystemsInv, X!P25Site
<1> QED
  BY <1>1, <1>4, <1>5, BeforeCalls DEF InCalls

LEMMA TransferSites ==
  ASSUME TransferInv, NEW s \in X!Site, X!ImportSite(s)
  PROVE  TransferInv'
<1>1. /\ stage = "sites" /\ stage' \in {"sites", "talkgroups"} /\ sites' = sites \ {s}
      /\ siteMap' = siteMap \cup {s}
      /\ siteOfTransfer' = [siteOfTransfer EXCEPT ![s] = IF @ = 0 THEN sysMap[s] ELSE @]
      /\ UNCHANGED <<madeTransfer, p25, names, rowsTransfer, groupsTransfer, texts, sysMap, todo, blind, clean>>
      /\ UNCHANGED <<source, archive, mode, imports, done>>
  BY DEF X!ImportSite, X!Running, X!NoSystem
<1>2. siteOfTransfer' \in [X!Site -> X!System]
  BY <1>1 DEF TransferInv, X!TypeOK, X!Key
<1>3. X!TypeOK'
  BY <1>1, <1>2 DEF TransferInv, X!TypeOK, X!Stages, X!NameStages
<1>4. SystemsInv'
  BY <1>1, SystemsStay DEF X!Stages, X!NameStages
<1> QED
  BY <1>1, <1>3, <1>4, BeforeCalls DEF InCalls

LEMMA TransferNames ==
  ASSUME TransferInv, X!ImportNames
  PROVE  TransferInv'
<1>1. /\ stage \in {"talkgroups", "directory", "units"}
      /\ stage' \in {"directory", "units", "idle", "find"}
      /\ stage' = "find" => todo' = archive.calls
      /\ todo' \in {todo, archive.calls, {}} /\ (clean' => clean) /\ clean' \in BOOLEAN
      /\ UNCHANGED <<madeTransfer, p25, siteOfTransfer, rowsTransfer, groupsTransfer, texts, sysMap, siteMap, sites, blind>>
      /\ UNCHANGED <<source, archive, mode, imports, done>>
  <2>1. /\ UNCHANGED <<madeTransfer, p25, siteOfTransfer, rowsTransfer, groupsTransfer, texts, sysMap, siteMap, sites, blind>>
        /\ UNCHANGED <<source, archive, mode, imports, done>> /\ stage \in {"talkgroups", "directory", "units"}
        /\ clean' = clean \/ clean' = FALSE
    BY DEF X!ImportNames, X!Running, X!NameStages
  <2>2. clean \in BOOLEAN
    BY DEF TransferInv, X!TypeOK
  <2>3. stage' = CASE stage = "talkgroups" -> "directory"
                   [] stage = "directory" -> "units"
                   [] OTHER -> IF mode = "full" THEN "find" ELSE "idle"
    BY DEF X!ImportNames
  <2>4. todo' = IF stage = "units" THEN IF mode = "full" THEN archive.calls ELSE {} ELSE todo
    BY DEF X!ImportNames
  <2>5. clean' \in BOOLEAN /\ (clean' => clean)
    <3>1. CASE clean' = clean
      BY <2>2, <3>1
    <3>2. CASE clean' = FALSE
      BY <3>2
    <3> QED
      BY <2>1, <3>1, <3>2
  <2>6. stage' \in {"directory", "units", "idle", "find"} /\ (stage' = "find" => todo' = archive.calls)
    <3>1. CASE stage = "talkgroups"
      BY <2>3, <3>1
    <3>2. CASE stage = "directory"
      BY <2>3, <3>2
    <3>3. CASE stage = "units"
      BY <2>3, <2>4, <3>3
    <3> QED
      BY <2>1, <3>1, <3>2, <3>3
  <2> QED
    BY <2>1, <2>4, <2>5, <2>6
<1>2. sysMap["p"] \in X!System
  BY DEF TransferInv, X!TypeOK, X!Key, X!Site, X!P25Site
<1>3. names' \subseteq X!NameStages \X X!System
  BY <1>1, <1>2 DEF X!ImportNames, TransferInv, X!TypeOK, X!P25Site
<1>4. todo' \subseteq Recorded
  BY <1>1 DEF TransferInv, X!TypeOK
<1>5. X!TypeOK'
  BY <1>1, <1>3, <1>4 DEF TransferInv, X!TypeOK, X!Stages, X!NameStages
<1>6. SystemsInv'
  BY <1>1, SystemsStay DEF X!Stages, X!NameStages
<1> QED
  BY <1>1, <1>5, <1>6, BeforeCalls DEF InCalls

-----------------------------------------------------------------------------
\* The call in hand, when there is one.
LEMMA CallInHand ==
  ASSUME TransferInv, stage \in {"group", "insert", "link", "lists"} \/ (stage \in {"find", "texts"} /\ todo # {})
  PROVE  /\ X!InHand \in todo /\ X!InHand \in Recorded
         /\ X!SystemOf(X!InHand) \in X!System
         /\ X!InHand.start \in Nat
         /\ stage # "texts" => (X!InHand.site = X!NoSite \/ X!SystemOf(X!InHand) # 0)
<1>1. X!TypeOK /\ todo \subseteq Recorded
  BY DEF TransferInv, X!TypeOK
<1>2. X!InHand \in todo
  BY <1>1, InHandIs DEF TransferInv, HandInv
<1>3. PICK c : c = X!InHand
  OBVIOUS
<1>4. c \in Recorded /\ X!SystemOf(c) \in X!System /\ c.start \in Nat /\ c.site \in X!Site \cup {X!NoSite}
  BY <1>1, <1>2, <1>3, SystemOfIs, RecordedFacts
<1>5. stage # "texts" => (c.site = X!NoSite \/ X!SystemOf(c) # 0)
  <2> SUFFICES ASSUME stage # "texts", c.site # X!NoSite PROVE X!SystemOf(c) # 0
    OBVIOUS
  <2>1. sysMap[X!P25Site] # 0 /\ \A s \in ConvSite : sysMap[s] # 0
    BY DEF TransferInv, SystemsInv, X!Stages, X!NameStages
  <2>2. c.site \in ConvSite \cup {X!P25Site}
    BY <1>4 DEF X!Site
  <2>3. CASE c.site = X!P25Site
    BY <2>1, <2>3 DEF X!SystemOf, X!SystemRef
  <2>4. CASE c.site # X!P25Site
    BY <2>1, <2>2, <2>4 DEF X!SystemOf, X!SystemRef
  <2> QED
    BY <2>3, <2>4
<1> QED
  BY <1>2, <1>3, <1>4, <1>5

\* What goes on beside a call in hand, or from one stage to the next.
LEMMA InCallsKept ==
  ASSUME TransferInv, RowsKept, X!TypeOK', KeptApart', IsFiniteSet(rowsTransfer)',
         UNCHANGED <<source, archive, imports, done>>,
         stage \in InCalls \cup {"texts"}, stage' \in InCalls \cup {"texts"},
         HandInv', DoneInv'
  PROVE  TransferInv'
<1>1. ImportInv'
  BY ImportGoesOn DEF InCalls
<1>2. NoneMissing'
  BY ImportGoesOn DEF InCalls
<1>3. SystemsInv'
  BY SystemsStay DEF InCalls, X!Stages, X!NameStages, RowsKept
<1> QED
  BY <1>1, <1>2, <1>3 DEF TransferInv

\* The next call: the one in hand is there, if no statement of the import failed.
LEMMA NextKept ==
  ASSUME TransferInv, RowsKept, X!TypeOK', KeptApart', IsFiniteSet(rowsTransfer)',
         UNCHANGED <<source, archive, imports, done>>,
         stage \in InCalls, stage = "find" => todo # {}, X!NextCall,
         clean' => clean, clean' => There(X!InHand)
  PROVE  TransferInv'
<1>1. PICK c : c = X!InHand
  OBVIOUS
<1>2. c \in todo /\ c \in Recorded
  BY <1>1, CallInHand DEF InCalls
<1>3. /\ \/ todo = {c} /\ todo' = archive.texts /\ stage' = "texts"
         \/ todo # {c} /\ todo' = todo \ {c} /\ stage' = "find"
      /\ stage' \in {"find", "texts"}
  BY <1>1 DEF X!NextCall
<1>4. HandInv'
  BY <1>3 DEF HandInv
<1>5. DoneInv'
  <2> SUFFICES ASSUME clean'
               PROVE  /\ stage' \in InCalls => todo' \subseteq archive.calls /\ \A d \in archive.calls \ todo' : There(d)'
                      /\ stage' = "texts" => \A d \in archive.calls : There(d)'
    BY DEF DoneInv
  <2>1. todo \subseteq archive.calls /\ \A d \in archive.calls \ todo : There(d)
    BY DEF TransferInv, DoneInv
  <2>2. There(c)
    BY <1>1
  <2>3. archive.calls \subseteq Recorded /\ X!TypeOK
    BY DEF TransferInv, X!TypeOK
  <2>4. \A d \in archive.calls : d \notin todo \ {c} => There(d)'
    <3> SUFFICES ASSUME NEW d \in archive.calls, d \notin todo \ {c} PROVE There(d)'
      OBVIOUS
    <3>1. There(d) /\ d \in Recorded
      BY <2>1, <2>2, <2>3
    <3> QED
      BY <2>3, <3>1, StillThere
  <2> QED
    BY <1>3, <2>1, <2>4 DEF InCalls
<1> QED
  BY <1>3, <1>4, <1>5, InCallsKept DEF InCalls

\* The call in hand stays the same while the calls to do are.
LEMMA HandStays ==
  ASSUME todo' = todo
  PROVE  X!InHand' = X!InHand
BY DEF X!InHand

LEMMA SameRows ==
  ASSUME TransferInv, UNCHANGED <<rowsTransfer, sysMap>>
  PROVE  RowsKept /\ KeptApart' /\ IsFiniteSet(rowsTransfer)'
BY RowsApart DEF TransferInv, RowsKept

\* Without a failure on the way the calls done so far stay there.
LEMMA DoneStays ==
  ASSUME TransferInv, RowsKept, stage \in InCalls, stage' \in InCalls, clean' => clean,
         UNCHANGED <<archive, todo>>
  PROVE  DoneInv'
<1> SUFFICES ASSUME clean'
             PROVE  todo' \subseteq archive.calls /\ \A d \in archive.calls \ todo' : There(d)'
  BY DEF DoneInv, InCalls
<1>1. todo \subseteq archive.calls /\ \A d \in archive.calls \ todo : There(d)
  BY DEF TransferInv, DoneInv
<1>2. archive.calls \subseteq Recorded /\ X!TypeOK
  BY DEF TransferInv, X!TypeOK
<1>3. \A d \in archive.calls \ todo : There(d)'
  BY <1>1, <1>2, StillThere
<1> QED
  BY <1>1, <1>3

LEMMA TransferFinds ==
  ASSUME TransferInv, X!FindCall
  PROVE  TransferInv'
<1>1. PICK c : c = X!InHand
  OBVIOUS
<1>2. /\ stage = "find" /\ todo # {}
      /\ UNCHANGED <<madeTransfer, p25, siteOfTransfer, names, rowsTransfer, groupsTransfer, texts>>
      /\ UNCHANGED <<sysMap, siteMap, sites, clean, source, archive, mode, imports, done>>
      /\ \/ (X!SystemOf(c) = 0 \/ X!Matches(c) # {}) /\ X!NextCall
         \/ X!SystemOf(c) # 0 /\ X!Matches(c) = {} /\ stage' = "group" /\ UNCHANGED <<todo, blind>>
         \/ X!SystemOf(c) # 0 /\ stage' = "group" /\ blind' = TRUE /\ UNCHANGED todo
  BY <1>1 DEF X!FindCall, X!target, X!Running, X!NoSystem
<1>3. /\ c \in todo /\ c \in Recorded /\ (c.site = X!NoSite \/ X!SystemOf(c) # 0)
      /\ stage \in InCalls
  BY <1>1, <1>2, CallInHand DEF InCalls
<1>4. RowsKept /\ KeptApart' /\ IsFiniteSet(rowsTransfer)'
  BY <1>2, SameRows
<1>5. CASE (X!SystemOf(c) = 0 \/ X!Matches(c) # {}) /\ X!NextCall
  <2>1. There(c)
    BY <1>3, <1>5 DEF There
  <2>2. X!TypeOK'
    BY <1>2, <1>5 DEF TransferInv, X!TypeOK, X!NextCall, X!Stages
  <2> QED
    BY <1>1, <1>2, <1>3, <1>4, <1>5, <2>1, <2>2, NextKept
<1>6. CASE X!SystemOf(c) # 0 /\ stage' = "group" /\ todo' = todo /\ ((X!Matches(c) = {} /\ blind' = blind) \/ blind' = TRUE)
  <2>1. X!TypeOK'
    BY <1>2, <1>6 DEF TransferInv, X!TypeOK, X!Stages
  <2>2. X!InHand' = c /\ X!SystemOf(c)' = X!SystemOf(c)
    BY <1>1, <1>2, <1>3, <1>6, HandStays, SystemOfIs DEF TransferInv
  <2>3. HandInv'
    <3>1. X!InHand' \in todo' /\ X!SystemOf(X!InHand)' # 0
      <4>1. X!SystemOf(X!InHand)' = X!SystemOf(c)'
        BY <2>2 DEF X!SystemOf, X!SystemRef
      <4> QED
        BY <1>3, <1>6, <2>2, <4>1
    <3>2. ~blind' => \A r \in rowsTransfer' :
            r.rec # X!NoCall /\ r.sys = X!SystemOf(X!InHand)' => ~X!Near(r.start, X!InHand'.start)
      <4>1. X!SystemOf(X!InHand)' = X!SystemOf(c)
        BY <2>2 DEF X!SystemOf, X!SystemRef
      <4> QED
        BY <1>2, <1>6, <2>2, <4>1 DEF X!Matches, X!Near
    <3> QED
      BY <1>6, <3>1, <3>2 DEF HandInv, X!NoCall, X!NoSite, X!Near, X!Window
  <2>4. DoneInv'
    BY <1>2, <1>3, <1>4, <1>6, DoneStays DEF InCalls
  <2> QED
    BY <1>2, <1>3, <1>4, <1>6, <2>1, <2>3, <2>4, InCallsKept DEF InCalls
<1> QED
  BY <1>2, <1>5, <1>6

\* The rows of a step that inserts none of the archive.
NoneInserted ==
  \A r \in rowsTransfer' :
    \/ r.rec = X!NoCall
    \/ \E q \in rowsTransfer : /\ q.n = r.n /\ q.sys = r.sys /\ q.start = r.start
                               /\ q.rec = r.rec /\ q.blind = r.blind

LEMMA HandSame ==
  ASSUME UNCHANGED <<todo, sysMap>>
  PROVE  X!InHand' = X!InHand /\ X!SystemOf(X!InHand)' = X!SystemOf(X!InHand)
<1>1. X!InHand' = X!InHand
  BY HandStays
<1> QED
  BY <1>1 DEF X!SystemOf, X!SystemRef

LEMMA HandStill ==
  ASSUME TransferInv, RowsKept, NoneInserted, UNCHANGED <<todo, sysMap, blind>>,
         stage' \in {"group", "insert"} => stage \in {"group", "insert"},
         stage' \in {"link", "lists"} => stage \in {"link", "lists"}
  PROVE  HandInv'
<1>1. PICK c, s : c = X!InHand /\ s = X!SystemOf(X!InHand)
  OBVIOUS
<1>2. c = X!InHand' /\ s = X!SystemOf(X!InHand)'
  BY <1>1, HandSame
<1>3. /\ stage \in {"group", "insert", "link", "lists"} => c \in todo /\ s # 0
      /\ stage \in {"group", "insert"} /\ ~blind =>
           \A r \in rowsTransfer : r.rec # X!NoCall /\ r.sys = s => ~X!Near(r.start, c.start)
      /\ stage \in {"link", "lists"} => There(c)
  BY <1>1 DEF TransferInv, HandInv
<1>4. stage' \in {"group", "insert"} /\ ~blind =>
        \A r \in rowsTransfer' : r.rec # X!NoCall /\ r.sys = s => ~X!Near(r.start, c.start)
  BY <1>3, RowsApart DEF NoneInserted
<1>5. stage' \in {"link", "lists"} => There(c)'
  BY <1>1, <1>3, CallInHand, StillThere DEF TransferInv
<1>6. /\ stage' \in {"group", "insert"} /\ ~blind' =>
           \A r \in rowsTransfer' : r.rec # X!NoCall /\ r.sys = X!SystemOf(X!InHand)'
                                      => ~X!Near(r.start, X!InHand'.start)
      /\ stage' \in {"group", "insert", "link", "lists"} => X!InHand' \in todo' /\ X!SystemOf(X!InHand)' # 0
  BY <1>2, <1>3, <1>4
<1>7. stage' \in {"link", "lists"} => There(X!InHand)'
  <2>1. There(c)' => There(X!InHand)'
    BY <1>2 DEF There, X!Matches, X!SystemOf, X!SystemRef
  <2> QED
    BY <1>5, <2>1
<1> QED
  BY <1>6, <1>7 DEF HandInv, X!NoCall, X!NoSite, X!Near, X!Window

LEMMA TransferSkips ==
  ASSUME TransferInv, X!SkipCall
  PROVE  TransferInv'
<1>1. /\ stage \in {"group", "insert"} /\ X!NextCall /\ clean' = FALSE
      /\ UNCHANGED <<madeTransfer, p25, siteOfTransfer, names, rowsTransfer, groupsTransfer, texts>>
      /\ UNCHANGED <<sysMap, siteMap, sites, source, archive, mode, imports, done>>
  BY DEF X!SkipCall, X!target, X!Running
<1>2. RowsKept /\ KeptApart' /\ IsFiniteSet(rowsTransfer)'
  BY <1>1, SameRows
<1>3. X!TypeOK'
  BY <1>1 DEF TransferInv, X!TypeOK, X!NextCall, X!Stages
<1> QED
  BY <1>1, <1>2, <1>3, NextKept DEF InCalls

LEMMA TransferGroups ==
  ASSUME TransferInv, X!UpsertCallGroup
  PROVE  TransferInv'
<1>1. /\ stage = "group" /\ stage' = "insert"
      /\ groupsTransfer' = groupsTransfer \cup {<<X!SystemOf(X!InHand), X!InHand.start>>}
      /\ UNCHANGED <<madeTransfer, p25, siteOfTransfer, names, rowsTransfer, texts>>
      /\ UNCHANGED <<sysMap, siteMap, sites, todo, blind, clean, source, archive, mode, imports, done>>
  BY DEF X!UpsertCallGroup, X!Running
<1>2. RowsKept /\ KeptApart' /\ IsFiniteSet(rowsTransfer)'
  BY <1>1, SameRows
<1>3. <<X!SystemOf(X!InHand), X!InHand.start>> \in X!System \X Int
  BY <1>1, CallInHand
<1>4. X!TypeOK'
  BY <1>1, <1>3 DEF TransferInv, X!TypeOK, X!Stages
<1>5. HandInv'
  BY <1>1, <1>2, HandStill DEF NoneInserted
<1>6. DoneInv'
  BY <1>1, <1>2, DoneStays DEF InCalls
<1> QED
  BY <1>1, <1>2, <1>4, <1>5, <1>6, InCallsKept DEF InCalls

LEMMA RowsOfTransferCounted == X!Cardinality(rowsTransfer) = Cardinality(rowsTransfer)
BY DEF X!Cardinality, Cardinality

\* A row added is numbered within the bound, and takes no row away.
LEMMA RowAdded ==
  ASSUME TransferInv, Cardinality(rowsTransfer) < MaxRowsTransfer, NEW r,
         r.n = Cardinality(rowsTransfer) + 1, rowsTransfer' = rowsTransfer \cup {r}, sysMap' = sysMap
  PROVE  r.n \in 1 .. MaxRowsTransfer /\ RowsKept /\ IsFiniteSet(rowsTransfer)'
<1>1. Cardinality(rowsTransfer) \in Nat /\ IsFiniteSet(rowsTransfer)'
  BY FS_CardinalityType, FS_AddElement DEF TransferInv
<1>2. r.n \in 1 .. MaxRowsTransfer
  BY <1>1, RecordedFacts
<1> QED
  BY <1>1, <1>2 DEF RowsKept

LEMMA TransferInserts ==
  ASSUME TransferInv, X!InsertCall
  PROVE  TransferInv'
<1>1. PICK c, s, r : c = X!InHand /\ s = X!SystemOf(X!InHand) /\ r = X!NewRow(X!InHand)
  OBVIOUS
<1>2. /\ stage = "insert" /\ stage' = "link" /\ Cardinality(rowsTransfer) < MaxRowsTransfer
      /\ rowsTransfer' = rowsTransfer \cup {r}
      /\ UNCHANGED <<madeTransfer, p25, siteOfTransfer, names, groupsTransfer, texts>>
      /\ UNCHANGED <<sysMap, siteMap, sites, todo, blind, clean, source, archive, mode, imports, done>>
  BY <1>1, RowsOfTransferCounted DEF X!InsertCall, X!Running
<1>3. /\ r = [n |-> Cardinality(rowsTransfer) + 1, sys |-> s, start |-> c.start, rec |-> c,
              blind |-> blind, has |-> {}]
  BY <1>1, RowsOfTransferCounted DEF X!NewRow
<1>4. r.n \in 1 .. MaxRowsTransfer /\ RowsKept /\ IsFiniteSet(rowsTransfer)'
  BY <1>2, <1>3, RowAdded
<1>5. /\ c \in todo /\ c \in Recorded /\ s \in X!System /\ s # 0 /\ c.start \in Nat
      /\ ~blind => \A q \in rowsTransfer : q.rec # X!NoCall /\ q.sys = s => ~X!Near(q.start, c.start)
  BY <1>1, <1>2, CallInHand DEF TransferInv, HandInv
<1>6. r \in X!Row
  <2>1. s \in 1 .. MaxSystemTransfer
    BY <1>5, RecordedFacts DEF X!System
  <2>2. blind \in BOOLEAN /\ c.start \in Int /\ c \in Recorded \cup {X!NoCall}
    BY <1>5 DEF TransferInv, X!TypeOK
  <2>3. PICK m : m = Cardinality(rowsTransfer) + 1
    OBVIOUS
  <2>4. m \in 1 .. MaxRowsTransfer
    BY <1>3, <1>4, <2>3
  <2>5. r = [n |-> m, sys |-> s, start |-> c.start, rec |-> c, blind |-> blind, has |-> {}]
    BY <1>3, <2>3
  <2> QED
    BY <2>1, <2>2, <2>4, <2>5 DEF X!Row
<1>7. X!TypeOK'
  BY <1>2, <1>6 DEF TransferInv, X!TypeOK, X!Stages
<1>8. KeptApart'
  <2>1. \A p, q \in rowsTransfer :
          (/\ p.n # q.n /\ p.sys = q.sys /\ p.rec # X!NoCall /\ q.rec # X!NoCall /\ ~p.blind /\ ~q.blind)
            => ~X!Near(p.start, q.start)
    BY DEF TransferInv, KeptApart
  <2>2. r.sys = s /\ r.start = c.start /\ r.blind = blind
    BY <1>3
  <2>3. \A p \in rowsTransfer : p.start \in Int
    BY DEF TransferInv, X!TypeOK, X!Row
  <2>4. \A p \in rowsTransfer : (p.rec # X!NoCall /\ p.sys = r.sys /\ ~r.blind)
          => ~X!Near(p.start, r.start) /\ ~X!Near(r.start, p.start)
    <3> SUFFICES ASSUME NEW p \in rowsTransfer, p.rec # X!NoCall, p.sys = r.sys, ~r.blind
                 PROVE  ~X!Near(p.start, r.start) /\ ~X!Near(r.start, p.start)
      OBVIOUS
    <3>1. ~X!Near(p.start, c.start) /\ p.start \in Int /\ c.start \in Int
      BY <1>5, <2>2, <2>3
    <3>2. ~X!Near(c.start, p.start)
      BY <3>1 DEF X!Near, X!Window
    <3> QED
      BY <2>2, <3>1, <3>2
  <2>5. \A p, q \in rowsTransfer \cup {r} :
          (/\ p.n # q.n /\ p.sys = q.sys /\ p.rec # X!NoCall /\ q.rec # X!NoCall /\ ~p.blind /\ ~q.blind)
            => ~X!Near(p.start, q.start)
    BY <2>1, <2>4
  <2> QED
    BY <1>2, <2>5 DEF KeptApart, X!NoCall, X!NoSite, X!Near, X!Window
<1>9. HandInv'
  <2>1. c = X!InHand' /\ s = X!SystemOf(X!InHand)'
    BY <1>1, <1>2, HandSame
  <2>2. r \in X!Matches(X!InHand)'
    <3>1. X!Near(r.start, c.start)
      BY <1>3, <1>5 DEF X!Near, X!Window
    <3>2. r.sys = X!SystemOf(X!InHand)' /\ r \in rowsTransfer'
      BY <1>2, <1>3, <2>1
    <3> QED
      BY <2>1, <3>1, <3>2 DEF X!Matches, X!Near, X!Window
  <2>3. There(X!InHand)'
    BY <2>2 DEF There
  <2> QED
    BY <1>2, <1>5, <2>1, <2>3 DEF HandInv
<1>10. DoneInv'
  BY <1>2, <1>4, DoneStays DEF InCalls
<1> QED
  BY <1>2, <1>4, <1>7, <1>8, <1>9, <1>10, InCallsKept DEF InCalls

\* What belongs to the call just inserted marks its row and no other.
LEMMA WriteMarks ==
  ASSUME TransferInv, NEW what \in {"link", "lists"}, X!Write(what), sysMap' = sysMap
  PROVE  /\ RowsKept /\ NoneInserted /\ IsFiniteSet(rowsTransfer)' /\ KeptApart'
         /\ rowsTransfer' \subseteq X!Row
         /\ (clean' => clean) /\ clean' \in BOOLEAN
<1>1. clean' \in BOOLEAN /\ (clean' => clean)
  <2>1. clean' = clean \/ clean' = FALSE
    BY DEF X!Write
  <2>2. CASE clean' = clean
    BY <2>2 DEF TransferInv, X!TypeOK
  <2>3. CASE clean' = FALSE
    BY <2>3
  <2> QED
    BY <2>1, <2>2, <2>3
<1>2. CASE rowsTransfer' = rowsTransfer
  <2>1. RowsKept /\ KeptApart' /\ IsFiniteSet(rowsTransfer)'
    BY <1>2, SameRows
  <2> QED
    BY <1>1, <1>2, <2>1 DEF NoneInserted, TransferInv, X!TypeOK
<1>3. CASE rowsTransfer' = {IF r.n = X!Inserted THEN [r EXCEPT !.has = @ \cup {what}] ELSE r : r \in rowsTransfer}
  <2>1. PICK f : f = [r \in rowsTransfer |-> IF r.n = X!Inserted THEN [r EXCEPT !.has = @ \cup {what}] ELSE r]
    OBVIOUS
  <2>2. rowsTransfer' = {f[r] : r \in rowsTransfer}
    BY <1>3, <2>1
  <2>3. ASSUME NEW r \in rowsTransfer
        PROVE  /\ f[r] \in X!Row /\ f[r].n = r.n /\ f[r].sys = r.sys /\ f[r].start = r.start
               /\ f[r].rec = r.rec /\ f[r].blind = r.blind
    <3>1. r \in X!Row
      BY DEF TransferInv, X!TypeOK
    <3>2. PICK y : y = [r EXCEPT !.has = @ \cup {what}]
      OBVIOUS
    <3>3. /\ y \in X!Row /\ y.n = r.n /\ y.sys = r.sys /\ y.start = r.start
          /\ y.rec = r.rec /\ y.blind = r.blind
      BY <3>1, <3>2 DEF X!Row
    <3>4. f[r] = y \/ f[r] = r
      BY <2>1, <3>2
    <3> QED
      BY <3>1, <3>3, <3>4
  <2>4. RowsKept /\ NoneInserted /\ rowsTransfer' \subseteq X!Row
    BY <2>2, <2>3 DEF RowsKept, NoneInserted
  <2>5. IsFiniteSet(rowsTransfer)'
    <3>1. f \in Surjection(rowsTransfer, rowsTransfer')
      BY <2>1, <2>2 DEF Surjection
    <3> QED
      BY <3>1, FS_Surjection DEF TransferInv
  <2>6. KeptApart'
    BY <2>4, RowsApart DEF NoneInserted
  <2> QED
    BY <1>1, <2>4, <2>5, <2>6
<1> QED
  BY <1>2, <1>3 DEF X!Write

LEMMA TransferLinks ==
  ASSUME TransferInv, X!LinkCall
  PROVE  TransferInv'
<1>1. /\ stage = "link" /\ stage' = "lists" /\ X!Write("link")
      /\ UNCHANGED <<madeTransfer, p25, siteOfTransfer, names, groupsTransfer, texts>>
      /\ UNCHANGED <<sysMap, siteMap, sites, todo, blind, source, archive, mode, imports, done>>
  BY DEF X!LinkCall, X!Running
<1>2. /\ RowsKept /\ NoneInserted /\ IsFiniteSet(rowsTransfer)' /\ KeptApart'
      /\ rowsTransfer' \subseteq X!Row
      /\ (clean' => clean) /\ clean' \in BOOLEAN
  BY <1>1, WriteMarks
<1>3. X!TypeOK'
  BY <1>1, <1>2 DEF TransferInv, X!TypeOK, X!Stages
<1>4. HandInv'
  BY <1>1, <1>2, HandStill
<1>5. DoneInv'
  BY <1>1, <1>2, DoneStays DEF InCalls
<1> QED
  BY <1>1, <1>2, <1>3, <1>4, <1>5, InCallsKept DEF InCalls

LEMMA TransferLists ==
  ASSUME TransferInv, X!RebuildLists
  PROVE  TransferInv'
<1>1. /\ stage = "lists" /\ X!NextCall /\ X!Write("lists")
      /\ UNCHANGED <<madeTransfer, p25, siteOfTransfer, names, groupsTransfer, texts>>
      /\ UNCHANGED <<sysMap, siteMap, sites, source, archive, mode, imports, done>>
  BY DEF X!RebuildLists, X!Running
<1>2. /\ RowsKept /\ NoneInserted /\ IsFiniteSet(rowsTransfer)' /\ KeptApart'
      /\ rowsTransfer' \subseteq X!Row
      /\ (clean' => clean) /\ clean' \in BOOLEAN
  BY <1>1, WriteMarks
<1>3. todo' \subseteq Recorded /\ stage' \in X!Stages /\ blind' \in BOOLEAN
  BY <1>1 DEF TransferInv, X!TypeOK, X!NextCall, X!Stages
<1>4. X!TypeOK'
  BY <1>1, <1>2, <1>3 DEF TransferInv, X!TypeOK
<1>5. There(X!InHand)
  BY <1>1 DEF TransferInv, HandInv
<1> QED
  BY <1>1, <1>2, <1>4, <1>5, NextKept DEF InCalls

LEMMA TransferNoCalls ==
  ASSUME TransferInv, X!NoCalls
  PROVE  TransferInv'
<1>1. /\ stage = "find" /\ todo = {} /\ stage' = "texts" /\ todo' = archive.texts
      /\ UNCHANGED <<madeTransfer, p25, siteOfTransfer, names, rowsTransfer, groupsTransfer, texts>>
      /\ UNCHANGED <<sysMap, siteMap, sites, blind, clean, source, archive, mode, imports, done>>
  BY DEF X!NoCalls, X!target, X!Running
<1>2. RowsKept /\ KeptApart' /\ IsFiniteSet(rowsTransfer)'
  BY <1>1, SameRows
<1>3. X!TypeOK'
  BY <1>1 DEF TransferInv, X!TypeOK, X!Stages
<1>4. HandInv'
  BY <1>1 DEF HandInv
<1>5. DoneInv'
  <2> SUFFICES ASSUME clean PROVE \A c \in archive.calls : There(c)'
    BY <1>1 DEF DoneInv, InCalls
  <2>1. \A c \in archive.calls : There(c)
    BY <1>1 DEF TransferInv, DoneInv, InCalls
  <2> QED
    BY <1>2, <2>1, StillThere DEF TransferInv, X!TypeOK
<1> QED
  BY <1>1, <1>2, <1>3, <1>4, <1>5, InCallsKept DEF InCalls

LEMMA TransferTexts ==
  ASSUME TransferInv, X!ImportTranscription
  PROVE  TransferInv'
<1>1. /\ stage = "texts" /\ stage' = stage /\ todo' \subseteq todo /\ clean' \in {clean, FALSE}
      /\ UNCHANGED <<madeTransfer, p25, siteOfTransfer, names, rowsTransfer, groupsTransfer>>
      /\ UNCHANGED <<sysMap, siteMap, sites, blind, source, archive, mode, imports, done>>
  BY DEF X!ImportTranscription, X!Running
<1>2. RowsKept /\ KeptApart' /\ IsFiniteSet(rowsTransfer)'
  BY <1>1, SameRows
<1>3. clean' \in BOOLEAN /\ (clean' => clean)
  <2>1. CASE clean' = clean
    BY <2>1 DEF TransferInv, X!TypeOK
  <2>2. CASE clean' = FALSE
    BY <2>2
  <2> QED
    BY <1>1, <2>1, <2>2
<1>4. X!TypeOK'
  BY <1>1, <1>3 DEF TransferInv, X!TypeOK
<1>5. HandInv'
  BY <1>1 DEF HandInv
<1>6. DoneInv'
  <2> SUFFICES ASSUME clean PROVE \A c \in archive.calls : There(c)'
    BY <1>1, <1>3 DEF DoneInv, InCalls
  <2>1. \A c \in archive.calls : There(c)
    BY <1>1 DEF TransferInv, DoneInv
  <2> QED
    BY <1>2, <2>1, StillThere DEF TransferInv, X!TypeOK
<1> QED
  BY <1>1, <1>2, <1>4, <1>5, <1>6, InCallsKept

\* The import is complete, or ends early.
LEMMA TransferEnds ==
  ASSUME TransferInv, X!Finish \/ X!Abort
  PROVE  TransferInv'
<1>1. /\ stage # "idle" /\ stage' = "idle"
      /\ UNCHANGED <<madeTransfer, p25, siteOfTransfer, names, rowsTransfer, groupsTransfer, texts>>
      /\ UNCHANGED <<sysMap, siteMap, blind, clean, source, archive, mode, imports>>
      /\ sites' \in {sites, {}} /\ todo' \in {todo, {}}
      /\ done' = done \/ (stage = "texts" /\ done' = imports)
  BY DEF X!Finish, X!Abort, X!target
<1>2. RowsKept /\ KeptApart' /\ IsFiniteSet(rowsTransfer)'
  BY <1>1, SameRows
<1>3. X!TypeOK'
  BY <1>1 DEF TransferInv, X!TypeOK, X!Stages
<1>4. ImportInv'
  BY <1>1 DEF TransferInv, ImportInv
<1>5. SystemsInv' /\ HandInv' /\ DoneInv'
  BY <1>1 DEF SystemsInv, HandInv, DoneInv, InCalls
<1>6. NoneMissing'
  <2>1. CASE done' = done
    BY <1>1, <2>1 DEF TransferInv, ImportInv, NoneMissing
  <2>2. CASE stage = "texts"
    <3>1. clean => \A c \in archive.calls : There(c)
      BY <2>2 DEF TransferInv, DoneInv
    <3>2. clean' => \A c \in archive.calls : There(c)'
      BY <1>1, <1>2, <3>1, StillThere DEF TransferInv, X!TypeOK
    <3> QED
      BY <1>1, <3>2 DEF NoneMissing, There
  <2> QED
    BY <1>1, <2>1, <2>2
<1> QED
  BY <1>2, <1>3, <1>4, <1>5, <1>6 DEF TransferInv

\* A call of the target's own takes nothing away.
LEMMA TransferLive ==
  ASSUME TransferInv, NEW s \in X!Site, NEW start \in LiveStart, X!RecordLive(s, start)
  PROVE  TransferInv'
<1>1. PICK r : r = [n |-> Cardinality(rowsTransfer) + 1, sys |-> siteOfTransfer[s], start |-> start,
                    rec |-> X!NoCall, blind |-> FALSE, has |-> {"link", "lists"}]
  OBVIOUS
<1>2. /\ siteOfTransfer[s] # 0 /\ Cardinality(rowsTransfer) < MaxRowsTransfer
      /\ rowsTransfer' = rowsTransfer \cup {r}
      /\ UNCHANGED <<madeTransfer, p25, siteOfTransfer, names, groupsTransfer, texts>>
      /\ UNCHANGED <<stage, sysMap, siteMap, sites, todo, blind, clean, source, archive, mode, imports, done>>
  BY <1>1, RowsOfTransferCounted DEF X!RecordLive, X!NoSystem
<1>3. r.n \in 1 .. MaxRowsTransfer /\ RowsKept /\ IsFiniteSet(rowsTransfer)' /\ NoneInserted
  <2>1. r.n = Cardinality(rowsTransfer) + 1 /\ r.rec = X!NoCall
    BY <1>1
  <2>2. r.n \in 1 .. MaxRowsTransfer /\ RowsKept /\ IsFiniteSet(rowsTransfer)'
    BY <1>2, <2>1, RowAdded
  <2>3. NoneInserted
    BY <1>2, <2>1 DEF NoneInserted
  <2> QED
    BY <2>2, <2>3
<1>4. r \in X!Row
  <2>1. siteOfTransfer[s] \in 1 .. MaxSystemTransfer
    BY <1>2, RecordedFacts DEF TransferInv, X!TypeOK, X!System
  <2>2. start \in Int
    BY TransferAssumption
  <2>3. PICK m : m = Cardinality(rowsTransfer) + 1
    OBVIOUS
  <2>4. m \in 1 .. MaxRowsTransfer
    BY <1>1, <1>3, <2>3
  <2>5. r = [n |-> m, sys |-> siteOfTransfer[s], start |-> start,
             rec |-> X!NoCall, blind |-> FALSE, has |-> {"link", "lists"}]
    BY <1>1, <2>3
  <2> QED
    BY <2>1, <2>2, <2>4, <2>5 DEF X!Row
<1>5. X!TypeOK'
  BY <1>2, <1>4 DEF TransferInv, X!TypeOK
<1>6. KeptApart'
  BY <1>3, RowsApart DEF NoneInserted
<1>7. \A c \in archive.calls : There(c) => There(c)'
  BY <1>3, StillThere DEF TransferInv, X!TypeOK
<1>8. NoneMissing'
  <2>1. NoneMissing
    BY DEF TransferInv
  <2>2. \A c \in archive.calls : (c.site = X!NoSite \/ X!Matches(c) # {}) => There(c)'
    BY <1>7 DEF There
  <2> QED
    BY <1>2, <2>1, <2>2 DEF NoneMissing, There
<1>9. ImportInv' /\ SystemsInv'
  BY <1>2 DEF TransferInv, ImportInv, SystemsInv
<1>10. HandInv'
  BY <1>2, <1>3, HandStill
<1>11. DoneInv'
  BY <1>2, <1>7 DEF TransferInv, DoneInv
<1> QED
  BY <1>3, <1>5, <1>6, <1>8, <1>9, <1>10, <1>11 DEF TransferInv

LEMMA TransferStep == TransferInv /\ [X!Next]_transferVars => TransferInv'
<1> SUFFICES ASSUME TransferInv, [X!Next]_transferVars PROVE TransferInv'
  OBVIOUS
<1>1. CASE X!Export \/ (\E m \in X!Mode : X!ImportMetadata(m))
  BY <1>1, TransferExports, TransferBegins
<1>2. CASE X!ImportSystems \/ (\E s \in X!Site : X!ImportSite(s)) \/ X!ImportNames
  BY <1>2, TransferSystems, TransferConventional, TransferSites, TransferNames DEF X!ImportSystems
<1>3. CASE X!ImportCalls
  BY <1>3, TransferFinds, TransferSkips, TransferGroups, TransferInserts, TransferLinks,
     TransferLists, TransferNoCalls DEF X!ImportCalls
<1>4. CASE X!ImportTranscription \/ X!Finish \/ X!Abort
  BY <1>4, TransferTexts, TransferEnds
<1>5. CASE \E s \in X!Site, start \in LiveStart : X!RecordLive(s, start)
  BY <1>5, TransferLive
<1>6. CASE UNCHANGED transferVars
  <2>1. /\ UNCHANGED <<source, archive, madeTransfer, p25, siteOfTransfer, names, rowsTransfer,
                       groupsTransfer, texts>>
        /\ UNCHANGED <<stage, mode, sysMap, siteMap, sites, todo, blind, clean, done, imports>>
    BY <1>6 DEF transferVars
  <2>2. RowsKept /\ KeptApart' /\ IsFiniteSet(rowsTransfer)'
    BY <2>1, SameRows
  <2>3. HandInv'
    BY <2>1, <2>2, HandStill DEF NoneInserted
  <2>4. \A c \in archive.calls : There(c) <=> There(c)'
    BY <2>1 DEF There, X!Matches, X!SystemOf, X!SystemRef, X!Near
  <2>5. DoneInv' /\ NoneMissing'
    BY <2>1, <2>4 DEF TransferInv, DoneInv, NoneMissing, There
  <2>6. X!TypeOK' /\ ImportInv' /\ SystemsInv'
    BY <2>1 DEF TransferInv, X!TypeOK, ImportInv, SystemsInv
  <2> QED
    BY <2>2, <2>3, <2>5, <2>6 DEF TransferInv
<1> QED
  BY <1>1, <1>2, <1>3, <1>4, <1>5, <1>6 DEF X!Next

\* A site's system in the target: a system that has one keeps it, and the archived calls of
\* the site are under it.
Home(s) == IF s = X!P25Site THEN p25 ELSE siteOfTransfer[s]
HomeInv ==
  /\ \A r \in rowsTransfer : r.rec # X!NoCall =>
       /\ r.rec.site \in X!Site /\ r.start = r.rec.start
       /\ r.sys # 0 /\ r.sys = Home(r.rec.site)
  /\ stage = "identity" => p25 = 0
  /\ stage \notin {"idle", "p25", "identity"} => sysMap[X!P25Site] = p25
  /\ stage \in {"conv", "sites"} =>
       \A s \in ConvSite : stage = "sites" \/ s \notin sites => siteOfTransfer[s] \in {0, sysMap[s]}
  /\ stage = "sites" => \A s \in ConvSite \ sites : siteOfTransfer[s] = sysMap[s]
  /\ stage \notin {"idle", "p25", "identity", "conv", "sites"} =>
       \A s \in ConvSite : siteOfTransfer[s] = sysMap[s]

SiteFacts == X!P25Site \notin ConvSite /\ X!NoSite \notin ConvSite /\ X!P25Site # X!NoSite

LEMMA SitesDiffer == SiteFacts
BY TransferAssumption DEF SiteFacts, X!P25Site, X!NoSite

LEMMA HomeInit == X!Init => HomeInv
BY DEF X!Init, HomeInv

\* Rows that are none of the archive's, or are like one there was, keep their homes while
\* those of sites that have one stay.
LEMMA HomesKept ==
  ASSUME HomeInv, NoneInserted,
         \A s \in X!Site : Home(s) # 0 => Home(s)' = Home(s)
  PROVE  \A r \in rowsTransfer' : r.rec # X!NoCall =>
           /\ r.rec.site \in X!Site /\ r.start = r.rec.start
           /\ r.sys # 0 /\ r.sys = Home(r.rec.site)'
<1> SUFFICES ASSUME NEW r \in rowsTransfer', r.rec # X!NoCall
             PROVE  /\ r.rec.site \in X!Site /\ r.start = r.rec.start
                    /\ r.sys # 0 /\ r.sys = Home(r.rec.site)'
  OBVIOUS
<1>1. PICK q \in rowsTransfer : q.sys = r.sys /\ q.start = r.start /\ q.rec = r.rec
  BY DEF NoneInserted
<1>2. /\ q.rec.site \in X!Site /\ q.start = q.rec.start
      /\ q.sys # 0 /\ q.sys = Home(q.rec.site)
  BY <1>1 DEF HomeInv
<1> QED
  BY <1>1, <1>2

LEMMA HomeStep == TransferInv /\ HomeInv /\ [X!Next]_transferVars => HomeInv'
<1> SUFFICES ASSUME TransferInv, HomeInv, [X!Next]_transferVars PROVE HomeInv'
  OBVIOUS
<1>0. /\ siteOfTransfer \in [X!Site -> X!System] /\ sysMap \in [X!Site -> X!System]
      /\ madeTransfer \in X!System /\ X!P25Site \in X!Site /\ ConvSite \subseteq X!Site
  BY DEF TransferInv, X!TypeOK, X!Key, X!Site
<1>s. X!P25Site \notin ConvSite /\ X!P25Site # X!NoSite
  BY SitesDiffer DEF SiteFacts
\* Steps that touch neither the systems of the sites nor what is known of them.
<1>k. ASSUME NoneInserted, UNCHANGED <<p25, siteOfTransfer, sysMap>>,
             \/ stage' = "idle"
             \/ stage' = stage /\ sites' = sites
             \/ {stage, stage'} \cap {"idle", "p25", "identity", "conv", "sites"} = {}
      PROVE  HomeInv'
  <2>1. \A s \in X!Site : Home(s)' = Home(s)
    BY <1>k DEF Home
  <2>2. \A r \in rowsTransfer' : r.rec # X!NoCall =>
           /\ r.rec.site \in X!Site /\ r.start = r.rec.start
           /\ r.sys # 0 /\ r.sys = Home(r.rec.site)'
    BY <1>k, <2>1, HomesKept
  <2> QED
    BY <1>k, <2>2 DEF HomeInv
<1>n. rowsTransfer' = rowsTransfer => NoneInserted
  BY DEF NoneInserted
<1>1. CASE X!Export
  BY <1>1, <1>k, <1>n DEF X!Export, X!Record, X!Transcribe, X!ExportCalls, X!ExportTranscriptions,
     X!WriteArchive, X!target
<1>2. ASSUME NEW m \in X!Mode, X!ImportMetadata(m) PROVE HomeInv'
  <2>1. stage' = "p25" /\ UNCHANGED <<p25, siteOfTransfer, rowsTransfer>>
    BY <1>2 DEF X!ImportMetadata, X!target
  <2> QED
    BY <2>1 DEF HomeInv, Home
<1>3. CASE X!ImportP25System
  <2>1. /\ stage = "p25" /\ UNCHANGED <<p25, siteOfTransfer, rowsTransfer>>
        /\ \/ /\ stage' = "conv" /\ sites' = ConvSite
              /\ sysMap' = [sysMap EXCEPT ![X!P25Site] = p25]
           \/ stage' = "identity" /\ p25 = 0
    BY <1>3 DEF X!ImportP25System, X!NoSystem
  <2> QED
    BY <1>0, <2>1 DEF HomeInv, Home
<1>4. CASE X!SetIdentity
  <2>1. /\ stage = "identity" /\ stage' = "conv" /\ sites' = ConvSite /\ p25' = madeTransfer
        /\ sysMap' = [sysMap EXCEPT ![X!P25Site] = madeTransfer]
        /\ UNCHANGED <<siteOfTransfer, rowsTransfer>> /\ p25 = 0
    BY <1>4 DEF X!SetIdentity, HomeInv
  <2>2. \A s \in X!Site : Home(s) # 0 => Home(s)' = Home(s)
    BY <2>1 DEF Home
  <2>3. \A r \in rowsTransfer' : r.rec # X!NoCall =>
           /\ r.rec.site \in X!Site /\ r.start = r.rec.start
           /\ r.sys # 0 /\ r.sys = Home(r.rec.site)'
    BY <1>n, <2>1, <2>2, HomesKept
  <2> QED
    BY <1>0, <2>1, <2>3 DEF HomeInv
<1>5. ASSUME NEW s \in ConvSite, X!ImportConventionalSystem(s) PROVE HomeInv'
  <2>1. /\ stage = "conv" /\ s \in sites /\ UNCHANGED <<p25, siteOfTransfer, rowsTransfer>>
        /\ \/ sites = {s} /\ stage' = "sites" /\ sites' = X!Site
           \/ sites # {s} /\ stage' = "conv" /\ sites' = sites \ {s}
    BY <1>5 DEF X!ImportConventionalSystem
  <2>2. PICK y : sysMap' = [sysMap EXCEPT ![s] = y] /\ siteOfTransfer[s] \in {0, y}
    BY <1>5 DEF X!ImportConventionalSystem, X!NoSystem
  <2>3. /\ sysMap'[X!P25Site] = p25
        /\ \A u \in ConvSite : u = s \/ u \notin sites => siteOfTransfer[u] \in {0, sysMap'[u]}
    BY <1>0, <1>s, <2>1, <2>2 DEF HomeInv
  <2>4. \A r \in rowsTransfer' : r.rec # X!NoCall =>
           /\ r.rec.site \in X!Site /\ r.start = r.rec.start
           /\ r.sys # 0 /\ r.sys = Home(r.rec.site)'
    BY <2>1 DEF HomeInv, Home
  <2> QED
    BY <2>1, <2>3, <2>4 DEF HomeInv, X!Site
<1>6. ASSUME NEW s \in X!Site, X!ImportSite(s) PROVE HomeInv'
  <2>1. /\ stage = "sites" /\ s \in sites /\ sites' = sites \ {s}
        /\ siteOfTransfer' = [siteOfTransfer EXCEPT ![s] = IF @ = 0 THEN sysMap[s] ELSE @]
        /\ UNCHANGED <<p25, rowsTransfer, sysMap>>
        /\ \/ sites = {s} /\ stage' = "talkgroups"
           \/ sites # {s} /\ stage' = "sites"
    BY <1>6 DEF X!ImportSite, X!NoSystem
  <2>2. \A u \in X!Site : siteOfTransfer'[u] = IF u = s /\ siteOfTransfer[u] = 0 THEN sysMap[u] ELSE siteOfTransfer[u]
    BY <1>0, <2>1
  <2>3. \A u \in ConvSite : siteOfTransfer[u] \in {0, sysMap[u]} /\ (u \notin sites => siteOfTransfer[u] = sysMap[u])
    BY <2>1 DEF HomeInv
  <2>4. \A u \in ConvSite : siteOfTransfer'[u] \in {0, sysMap[u]} /\ (u \notin sites \ {s} => siteOfTransfer'[u] = sysMap[u])
    BY <1>0, <2>2, <2>3
  <2>5. \A u \in X!Site : Home(u) # 0 => Home(u)' = Home(u)
    BY <2>1, <2>2 DEF Home
  <2>6. \A r \in rowsTransfer' : r.rec # X!NoCall =>
           /\ r.rec.site \in X!Site /\ r.start = r.rec.start
           /\ r.sys # 0 /\ r.sys = Home(r.rec.site)'
    BY <1>n, <2>1, <2>5, HomesKept
  <2>7. sysMap[X!P25Site] = p25
    BY <2>1 DEF HomeInv
  <2> QED
    BY <2>1, <2>4, <2>6, <2>7 DEF HomeInv
<1>7. CASE X!ImportNames
  BY <1>7, <1>k, <1>n DEF X!ImportNames, X!NameStages, X!Running
<1>8. CASE X!FindCall \/ X!SkipCall \/ X!UpsertCallGroup \/ X!NoCalls
  BY <1>8, <1>k, <1>n DEF X!FindCall, X!SkipCall, X!UpsertCallGroup, X!NoCalls, X!NextCall, X!target
<1>9. CASE X!InsertCall
  <2>1. PICK c, r : c = X!InHand /\ r = X!NewRow(X!InHand)
    OBVIOUS
  <2>2. /\ stage = "insert" /\ stage' = "link" /\ rowsTransfer' = rowsTransfer \cup {r}
        /\ UNCHANGED <<p25, siteOfTransfer, sysMap>>
    BY <1>9, <2>1 DEF X!InsertCall
  <2>3. r.sys = X!SystemOf(c) /\ r.start = c.start /\ r.rec = c
    BY <2>1 DEF X!NewRow
  <2>4. c \in Recorded /\ X!SystemOf(c) # 0
    BY <2>1, <2>2, CallInHand DEF TransferInv, HandInv
  <2>5. sysMap[X!P25Site] = p25 /\ \A s \in ConvSite : siteOfTransfer[s] = sysMap[s]
    BY <2>2 DEF HomeInv
  <2>6. c.site \in X!Site /\ X!SystemOf(c) = Home(c.site)
    <3>1. CASE c.site = X!P25Site
      BY <1>0, <2>5, <3>1 DEF X!SystemOf, X!SystemRef, Home
    <3>2. CASE c.site # X!P25Site /\ c.site \in ConvSite
      BY <1>0, <2>5, <3>2 DEF X!SystemOf, X!SystemRef, Home
    <3>3. CASE c.site # X!P25Site /\ c.site \notin ConvSite
      BY <2>4, <3>3 DEF X!SystemOf, X!SystemRef, X!NoSystem
    <3> QED
      BY <3>1, <3>2, <3>3
  <2>7. \A q \in rowsTransfer' : q.rec # X!NoCall =>
           /\ q.rec.site \in X!Site /\ q.start = q.rec.start
           /\ q.sys # 0 /\ q.sys = Home(q.rec.site)
    BY <2>2, <2>3, <2>4, <2>6 DEF HomeInv
  <2>8. \A s : Home(s)' = Home(s)
    BY <2>2 DEF Home
  <2> QED
    BY <2>2, <2>5, <2>7, <2>8 DEF HomeInv
<1>10. CASE X!LinkCall \/ X!RebuildLists
  <2>1. /\ UNCHANGED <<p25, siteOfTransfer, sysMap>>
        /\ {stage, stage'} \cap {"idle", "p25", "identity", "conv", "sites"} = {}
        /\ X!Write("link") \/ X!Write("lists")
    BY <1>10 DEF X!LinkCall, X!RebuildLists, X!NextCall
  <2>2. NoneInserted
    BY <2>1, WriteMarks
  <2> QED
    BY <1>k, <2>1, <2>2
<1>11. CASE X!ImportTranscription
  BY <1>11, <1>k, <1>n DEF X!ImportTranscription
<1>12. CASE X!Finish \/ X!Abort
  BY <1>12, <1>k, <1>n DEF X!Finish, X!Abort, X!target
<1>13. ASSUME NEW s \in X!Site, NEW start \in LiveStart, X!RecordLive(s, start) PROVE HomeInv'
  <2>1. UNCHANGED <<p25, siteOfTransfer, sysMap, stage, sites>>
    BY <1>13 DEF X!RecordLive
  <2>2. NoneInserted
    BY <1>13 DEF X!RecordLive, NoneInserted
  <2> QED
    BY <1>k, <2>1, <2>2
<1>14. CASE UNCHANGED transferVars
  BY <1>14, <1>k, <1>n DEF transferVars
<1> QED
  BY <1>1, <1>2, <1>3, <1>4, <1>5, <1>6, <1>7, <1>8, <1>9, <1>10, <1>11, <1>12, <1>13, <1>14
     DEF X!Next, X!ImportSystems, X!ImportCalls

\* What holds of the rows says that no call is there twice.
LEMMA OnceEach ==
  ASSUME TransferInv, HomeInv
  PROVE  X!NoCallTwice
<1> SUFFICES ASSUME NEW r \in rowsTransfer, NEW q \in rowsTransfer, r.n # q.n,
                    r.rec # X!NoCall, q.rec # X!NoCall, ~r.blind, ~q.blind
             PROVE  /\ r.rec # q.rec
                    /\ r.sys = q.sys => r.start - q.start \notin -5 .. 5
  BY DEF X!NoCallTwice, X!DocumentedWindow
<1>1. r.sys = q.sys => ~X!Near(r.start, q.start)
  BY DEF TransferInv, KeptApart
<1>2. r.start \in Int /\ q.start \in Int
  BY DEF TransferInv, X!TypeOK, X!Row
<1>3. r.rec # q.rec
  <2> SUFFICES ASSUME r.rec = q.rec PROVE FALSE
    OBVIOUS
  <2>1. r.sys = q.sys /\ r.start = q.start
    BY DEF HomeInv
  <2> QED
    BY <1>1, <1>2, <2>1 DEF X!Near, X!Window
<1> QED
  BY <1>1, <1>2, <1>3 DEF X!Near, X!Window

\* And that none is missing but for one near it.
LEMMA NoneIsMissing ==
  ASSUME TransferInv
  PROVE  X!NoCallMissing
<1> SUFFICES ASSUME X!ImportWorked, NEW c \in archive.calls, c.site # X!NoSite
             PROVE  X!ThereWithin(c, X!Window)
  BY DEF X!NoCallMissing
<1>1. PICK r \in rowsTransfer : r.sys = X!SystemOf(c) /\ X!Near(r.start, c.start)
  BY DEF X!ImportWorked, TransferInv, NoneMissing, X!Matches
<1> QED
  BY <1>1 DEF X!ThereWithin, X!Near

\* However often an archive is imported and wherever an import ended early, no call of it
\* is in the target twice, nor two calls of a system at most five seconds apart, unless a
\* lookup failed; and after an import that worked each call whose site is known is there,
\* or one of its system within the ten seconds of the lookup.  The lookup, the group and
\* the insertion are statements of their own, with calls the target records in between
\* (import.go importCalls).
THEOREM CallsAlwaysImportedOnce == RecordsSpec => []CallsImportedOnce
<1> DEFINE Inv == part = "transfer" => TransferInv /\ HomeInv
<1>1. RecordsInit => Inv
  BY TransferInit, HomeInit DEF RecordsInit
<1>2. Inv /\ [RecordsNext]_recordsVars => Inv'
  BY TransferStep, HomeStep DEF RecordsNext, recordsVars
<1>3. Inv => CallsImportedOnce
  BY OnceEach, NoneIsMissing DEF CallsImportedOnce, TransferInv, X!CallsImportedOnce
<1> QED
  BY <1>1, <1>2, <1>3, PTL DEF RecordsSpec

-----------------------------------------------------------------------------
(* Suggestions.                                                            *)

\* Ids of transcriptions are given in order; age is that of a visible one.
IdsInv ==
  /\ tr \in [G!Id -> [call : Recording, state : {"free", "writing", "visible", "aborted"}]]
  /\ age \in [G!Id -> {"young", "old", "aged"}]
  /\ \A n, k \in G!Id : n < k /\ tr[k].state # "free" => tr[n].state # "free"
  /\ \A n \in G!Id : age[n] # "young" => tr[n].state = "visible"

\* All up to m is among the ids, did not come about, or was waited for in vain.
Passed(m, have) ==
  \A n \in 1 .. m : tr[n].state = "aborted" \/ n \in have \/ \E k \in G!Id : k > n /\ age[k] = "aged"
Ids(views) == {v.id : v \in views}

View == [id : G!Id, call : Recording, sys : G!Sys, usable : BOOLEAN,
         group : {<<s, Transmission[c]>> : s \in G!Sys, c \in Recording}]

\* What a scanner read is still so, but that a merge may have moved the calls of "s".
ViewsOf(batch) ==
  /\ batch # {} /\ IsFiniteSet(batch)
  /\ \A v \in batch :
       /\ tr[v.id].state = "visible" /\ v.call = tr[v.id].call
       /\ \/ v.sys = G!HomeOf(v.call) /\ v.group = G!GroupOf(v.call)
          \/ merged /\ v.sys = "s"
  /\ \A v, u \in batch : v.id = u.id => v = u

ScannersInv ==
  /\ scan \in [Scanner -> [pc : {"idle", "fetch", "apply"}, from : 0 .. MaxIdSuggestions,
                          batch : SUBSET View]]
  /\ \A p \in Scanner : scan[p].pc = "apply" =>
       /\ ViewsOf(scan[p].batch)
       /\ \A n \in Ids(scan[p].batch) : n > scan[p].from /\ tr[n].state = "visible"
       /\ \A m \in Ids(scan[p].batch) :
            Passed(m, Ids(scan[p].batch) \cup 1 .. scan[p].from)

\* What was scanned is visible; the cursor passed nothing else.
ScannedInv ==
  /\ \A v \in scanned : v.id \in G!Id /\ v.usable \in BOOLEAN /\ tr[v.id].state = "visible"
  /\ cursor \in 0 .. MaxIdSuggestions /\ Passed(cursor, Ids(scanned))

\* The evidence of a system is one call of each transmission heard in it, and counted.
Ev(c) == [call |-> c, group |-> G!GroupOf(c)]
HeardBy(s) == {c \in Recording : G!HomeOf(c) = s}
Heard(s) == {tr[v.id].call : v \in {v \in scanned : v.usable /\ G!HomeOf(tr[v.id].call) = s}}
Evs(s) == {Ev(c) : c \in HeardBy(s)}

\* A suggestion of the groups gs: its evidence is of some of them, out of evs, one call of
\* each; it has counted no fewer, and while it has counted no more calls than it keeps
\* evidence of, none is forgotten.
Exact(q, evs, gs) ==
  /\ q = [status |-> q.status, count |-> q.count, evidence |-> q.evidence]
  /\ q.status \in {"none", "pending", "approved", "dismissed"}
  /\ q.count \in Nat /\ IsFiniteSet(q.evidence) /\ IsFiniteSet(gs)
  /\ q.evidence \subseteq evs
  /\ \A d, e \in q.evidence : d.group = e.group => d = e
  /\ \A e \in q.evidence : e.group \in gs
  /\ Cardinality(gs) <= q.count /\ Cardinality(q.evidence) <= q.count
  /\ q.count <= EvidenceCap =>
       /\ q.count = Cardinality(q.evidence)
       /\ \A x \in gs : \E e \in q.evidence : e.group = x
EvidenceOf(s) == Exact(sugg[s], Evs(s), {G!GroupOf(c) : c \in Heard(s)})

SuggestionsInv ==
  /\ IdsInv /\ ScannersInv /\ ScannedInv /\ merged \in BOOLEAN
  /\ sugg = [s \in G!Sys |-> sugg[s]] /\ \A s \in G!Sys : EvidenceOf(s)

LEMMA SuggNumbers ==
  /\ Recording \subseteq Nat /\ IsFiniteSet(Recording)
  /\ BatchSize \in Nat /\ EvidenceCap \in Nat /\ MaxIdSuggestions \in Nat
  /\ G!Id = 1 .. MaxIdSuggestions
  /\ \A c \in Recording : HeardIn[c] \in {"s", "t"}
  /\ \A Y : G!Cardinality(Y) = Cardinality(Y)
BY SuggestionsAssumption DEF G!Id, G!Sys, G!Cardinality, Cardinality

\* Where a call is heard, before and after the merge.
LEMMA HomeFacts ==
  ASSUME merged \in BOOLEAN, NEW c \in Recording
  PROVE  /\ G!HomeOf(c) = IF merged THEN "t" ELSE HeardIn[c]
         /\ G!HomeOf(c) \in G!Sys /\ G!GroupOf(c)[2] = Transmission[c]
         /\ ~merged => G!GroupOf(c) = <<HeardIn[c], Transmission[c]>>
         /\ merged => G!GroupOf(c) = IF HeardIn[c] = "s" /\ ~G!InBoth(Transmission[c])
                                       THEN <<"s", Transmission[c]>> ELSE <<"t", Transmission[c]>>
         /\ G!GroupOf(c) \in {<<s, Transmission[d]>> : s \in G!Sys, d \in Recording}
<1>1. HeardIn[c] \in {"s", "t"}
  BY SuggNumbers
<1>2. G!HomeOf(c) = IF merged THEN "t" ELSE HeardIn[c]
  BY DEF G!HomeOf
<1>3. ~merged => G!GroupOf(c) = <<HeardIn[c], Transmission[c]>>
  BY DEF G!GroupOf
<1>4. merged => G!GroupOf(c) = IF HeardIn[c] = "s" /\ ~G!InBoth(Transmission[c])
                                       THEN <<"s", Transmission[c]>> ELSE <<"t", Transmission[c]>>
  <2>1. CASE HeardIn[c] = "s"
    BY <2>1 DEF G!GroupOf, G!GroupAfter
  <2>2. CASE HeardIn[c] = "t"
    BY <2>2 DEF G!GroupOf, G!GroupAfter
  <2> QED
    BY <1>1, <2>1, <2>2
<1>5. G!GroupOf(c) \in {<<"s", Transmission[c]>>, <<"t", Transmission[c]>>}
  BY <1>1, <1>3, <1>4
<1> QED
  BY <1>1, <1>2, <1>3, <1>4, <1>5 DEF G!Sys

\* Of one system, calls have one group if they are of one transmission.
LEMMA OneGroup ==
  ASSUME merged \in BOOLEAN, NEW c \in Recording, NEW d \in Recording, G!HomeOf(c) = G!HomeOf(d)
  PROVE  G!GroupOf(c) = G!GroupOf(d) <=> Transmission[c] = Transmission[d]
<1>1. G!GroupOf(c) = G!GroupOf(d) => Transmission[c] = Transmission[d]
  BY HomeFacts
<1>2. ASSUME Transmission[c] = Transmission[d] PROVE G!GroupOf(c) = G!GroupOf(d)
  <2>1. CASE ~merged
    BY <1>2, <2>1, HomeFacts
  <2>2. CASE merged /\ HeardIn[c] = HeardIn[d]
    BY <1>2, <2>2, HomeFacts
  <2>3. CASE merged /\ HeardIn[c] # HeardIn[d]
    <3>1. G!InBoth(Transmission[c])
      BY <1>2, <2>3, SuggNumbers DEF G!InBoth, G!Sys
    <3> QED
      BY <1>2, <2>3, <3>1, HomeFacts
  <2> QED
    BY <2>1, <2>2, <2>3
<1> QED
  BY <1>1, <1>2

-----------------------------------------------------------------------------
(* Evidence.                                                               *)

\* As long as there are no more calls than the evidence takes, none falls out.
LEMMA NewestIsAll ==
  ASSUME NEW ev, IsFiniteSet(ev), \A e \in ev : e.call \in Nat
  PROVE  /\ G!Newest(ev) \subseteq ev /\ IsFiniteSet(G!Newest(ev))
         /\ Cardinality(G!Newest(ev)) <= Cardinality(ev)
         /\ Cardinality(ev) <= EvidenceCap => G!Newest(ev) = ev
<1>1. G!Newest(ev) \subseteq ev
  BY DEF G!Newest
<1>2. IsFiniteSet(G!Newest(ev)) /\ Cardinality(G!Newest(ev)) <= Cardinality(ev)
  BY <1>1, FS_Subset
<1>3. ASSUME Cardinality(ev) <= EvidenceCap, NEW e \in ev
      PROVE  G!Cardinality({f \in ev : f.call > e.call}) < EvidenceCap
  <2>1. PICK Y, R : Y = {f \in ev : f.call > e.call} /\ R = ev \ {e}
    OBVIOUS
  <2>2. Y \subseteq R
    <3>1. e \notin Y
      BY <2>1
    <3> QED
      BY <2>1, <3>1
  <2>3. IsFiniteSet(R) /\ Cardinality(R) = Cardinality(ev) - 1
    BY <2>1, FS_RemoveElement
  <2>4. IsFiniteSet(Y) /\ Cardinality(Y) <= Cardinality(R)
    BY <2>2, <2>3, FS_Subset
  <2>5. Cardinality(Y) \in Nat /\ Cardinality(ev) \in Nat
    BY <2>4, FS_CardinalityType
  <2>6. Cardinality(Y) < EvidenceCap
    BY <1>3, <2>3, <2>4, <2>5, SuggNumbers
  <2> QED
    BY <2>1, <2>6, SuggNumbers
<1> QED
  BY <1>1, <1>2, <1>3 DEF G!Newest

\* One more sighting.
LEMMA UpsertOne ==
  ASSUME NEW s, NEW q, NEW gs, Exact(q, Evs(s), gs),
         NEW c \in HeardBy(s), NEW z, z = G!UpsertSighting(q, Ev(c))
  PROVE  Exact(z, Evs(s), gs \cup {G!GroupOf(c)})
<1>1. Ev(c).call = c /\ Ev(c).group = G!GroupOf(c)
  BY DEF Ev
<1>2. CASE G!Seen(q.evidence, Ev(c))
  <2>1. PICK f \in q.evidence : f.call = c \/ f.group = G!GroupOf(c)
    BY <1>1, <1>2 DEF G!Seen
  <2>2. f.group = G!GroupOf(c)
    <3>1. PICK d \in HeardBy(s) : f = Ev(d)
      BY DEF Exact, Evs
    <3>2. f.call = d /\ f.group = G!GroupOf(d)
      BY <3>1 DEF Ev
    <3> QED
      BY <2>1, <3>2
  <2>3. z = q /\ gs \cup {G!GroupOf(c)} = gs
    BY <1>2, <2>2 DEF G!UpsertSighting, Exact
  <2> QED
    BY <2>3
<1>3. CASE ~G!Seen(q.evidence, Ev(c))
  <2>1. PICK ev, all, new : /\ all = q.evidence \cup {Ev(c)} /\ ev = G!Newest(all)
                            /\ new = gs \cup {G!GroupOf(c)}
    OBVIOUS
  <2>2. all \subseteq Evs(s) /\ \A e \in all : e.call \in Nat
    <3>1. \A e \in Evs(s) : e.call \in Recording
      BY DEF Evs, Ev, HeardBy
    <3>2. all \subseteq Evs(s)
      BY <2>1 DEF Exact, Evs
    <3> QED
      BY <3>1, <3>2, SuggNumbers
  <2>3. \A f \in q.evidence : f.group # G!GroupOf(c)
    BY <1>1, <1>3 DEF G!Seen
  <2>4. IsFiniteSet(all) /\ Cardinality(all) = Cardinality(q.evidence) + 1
    <3>1. Ev(c) \notin q.evidence
      BY <1>1, <2>3
    <3> QED
      BY <2>1, <3>1, FS_AddElement DEF Exact
  <2>5. /\ IsFiniteSet(new) /\ Cardinality(new) <= Cardinality(gs) + 1
    <3>1. CASE G!GroupOf(c) \in gs
      <4>1. new = gs
        BY <2>1, <3>1
      <4>2. IsFiniteSet(gs)
        BY DEF Exact
      <4>3. Cardinality(gs) \in Nat
        BY <4>2, FS_CardinalityType
      <4> QED
        BY <4>1, <4>2, <4>3
    <3>2. CASE G!GroupOf(c) \notin gs
      <4>1. IsFiniteSet(gs)
        BY DEF Exact
      <4>2. IsFiniteSet(new) /\ Cardinality(new) = Cardinality(gs) + 1
        BY <2>1, <3>2, <4>1, FS_AddElement
      <4>3. Cardinality(gs) \in Nat
        BY <4>1, FS_CardinalityType
      <4> QED
        BY <4>2, <4>3
    <3> QED
      BY <3>1, <3>2
  <2>6. /\ ev \subseteq all /\ IsFiniteSet(ev) /\ Cardinality(ev) <= Cardinality(all)
        /\ Cardinality(all) <= EvidenceCap => ev = all
    BY <2>1, <2>2, <2>4, NewestIsAll
  <2>7. z = [status |-> IF q.status = "none" THEN "pending" ELSE q.status,
             count |-> q.count + 1, evidence |-> ev]
    BY <1>3, <2>1 DEF G!UpsertSighting
  <2>8. /\ z = [status |-> z.status, count |-> z.count, evidence |-> z.evidence]
        /\ z.status \in {"none", "pending", "approved", "dismissed"}
        /\ z.evidence = ev /\ z.count = q.count + 1
    BY <2>7 DEF Exact
  <2>9. /\ q.count \in Nat /\ Cardinality(gs) <= q.count /\ Cardinality(q.evidence) <= q.count
        /\ Cardinality(gs) \in Nat /\ Cardinality(q.evidence) \in Nat /\ Cardinality(ev) \in Nat
        /\ Cardinality(new) \in Nat
    BY <2>5, <2>6, FS_CardinalityType DEF Exact
  <2>10. /\ z.count \in Nat /\ Cardinality(new) <= z.count /\ Cardinality(ev) <= z.count
    BY <2>4, <2>5, <2>6, <2>8, <2>9
  <2>11. \A d, e \in all : d.group = e.group => d = e
    BY <1>1, <2>1, <2>3 DEF Exact
  <2>12. \A e \in all : e.group \in new
    BY <1>1, <2>1 DEF Exact
  <2>13. ASSUME z.count <= EvidenceCap
         PROVE  z.count = Cardinality(ev) /\ \A x \in new : \E e \in ev : e.group = x
    <3>1. q.count <= EvidenceCap
      BY <2>8, <2>9, <2>13, SuggNumbers
    <3>2. q.count = Cardinality(q.evidence) /\ \A x \in gs : \E e \in q.evidence : e.group = x
      BY <3>1 DEF Exact
    <3>3. ev = all
      BY <2>4, <2>6, <2>8, <2>13, <3>2
    <3>4. \A x \in new : \E e \in all : e.group = x
      BY <1>1, <2>1, <3>2
    <3> QED
      BY <2>4, <2>8, <3>2, <3>3, <3>4
  <2>14. /\ ev \subseteq Evs(s)
         /\ \A d, e \in ev : d.group = e.group => d = e
         /\ \A e \in ev : e.group \in new
    BY <2>2, <2>6, <2>11, <2>12
  <2> QED
    BY <2>1, <2>5, <2>6, <2>8, <2>10, <2>13, <2>14 DEF Exact
<1> QED
  BY <1>2, <1>3

\* The sightings of a batch one after the other: what the one with id n makes of x.
Turned(seen0, n, x) ==
  IF \E v \in seen0 : v.id = n
    THEN LET v == CHOOSE u \in seen0 : u.id = n
         IN G!UpsertSighting(x, [call |-> v.call, group |-> v.group])
    ELSE x
Unfolds(f, q, seen0, m) ==
  f = [n \in 0 .. m |-> IF n = 0 THEN q ELSE Turned(seen0, n, f[n - 1])]

LEMMA Unfolding ==
  ASSUME NEW q, NEW seen0, NEW m \in Nat
  PROVE  \E f : Unfolds(f, q, seen0, m)
<1> DEFINE Missing == {k \in Nat : ~\E f : Unfolds(f, q, seen0, k)}
<1>1. SUFFICES ASSUME Missing # {} PROVE FALSE
  OBVIOUS
<1>2. PICK k \in Missing : \A n \in Missing : k <= n
  BY <1>1, FirstNatural
<1>3. k # 0
  <2>1. PICK f : f = [n \in 0 .. 0 |-> q]
    OBVIOUS
  <2>2. Unfolds(f, q, seen0, 0)
    BY <2>1 DEF Unfolds
  <2> QED
    BY <2>2
<1>4. k - 1 \in Nat /\ k - 1 \notin Missing
  BY <1>2, <1>3
<1>5. PICK f : Unfolds(f, q, seen0, k - 1)
  BY <1>4
<1>6. PICK g : g = [n \in 0 .. k |-> IF n = k THEN Turned(seen0, k, f[k - 1]) ELSE f[n]]
  OBVIOUS
<1>7. ASSUME NEW n \in 0 .. k
      PROVE  g[n] = IF n = 0 THEN q ELSE Turned(seen0, n, g[n - 1])
  <2>1. CASE n = 0
    <3>1. f[0] = q
      BY <1>4, <1>5 DEF Unfolds
    <3> QED
      BY <1>3, <1>6, <2>1, <3>1
  <2>2. CASE n # 0 /\ n # k
    <3>1. n \in 0 .. k - 1 /\ n - 1 \in 0 .. k - 1 /\ n - 1 \in 0 .. k /\ n - 1 # k
      BY <1>4, <2>2
    <3>2. f[n] = Turned(seen0, n, f[n - 1])
      BY <1>5, <2>2, <3>1 DEF Unfolds
    <3>3. g[n] = f[n] /\ g[n - 1] = f[n - 1]
      BY <1>6, <2>2, <3>1
    <3> QED
      BY <2>2, <3>2, <3>3
  <2>3. CASE n = k
    <3>1. k - 1 \in 0 .. k /\ k - 1 # k
      BY <1>4
    <3>2. g[k] = Turned(seen0, k, f[k - 1]) /\ g[k - 1] = f[k - 1]
      BY <1>6, <2>3, <3>1
    <3> QED
      BY <1>3, <2>3, <3>2
  <2> QED
    BY <2>1, <2>2, <2>3
<1>8. Unfolds(g, q, seen0, k)
  <2>1. g = [n \in 0 .. k |-> g[n]]
    BY <1>6
  <2> QED
    BY <1>7, <2>1 DEF Unfolds
<1> QED
  BY <1>8

\* What UpsertAll is.
LEMMA UpsertAllIs ==
  ASSUME NEW q, NEW seen0
  PROVE  \E f : Unfolds(f, q, seen0, MaxIdSuggestions) /\ G!UpsertAll(q, seen0) = f[MaxIdSuggestions]
<1>1. PICK f : f = CHOOSE g : Unfolds(g, q, seen0, MaxIdSuggestions)
  OBVIOUS
<1>2. Unfolds(f, q, seen0, MaxIdSuggestions)
  BY <1>1, Unfolding, SuggNumbers
<1>3. G!UpsertAll(q, seen0) = f[MaxIdSuggestions]
  BY <1>1 DEF G!UpsertAll, Unfolds, Turned
<1> QED
  BY <1>2, <1>3

\* All sightings of a batch: each group they name has one call, and no other is added.
LEMMA UpsertAllExact ==
  ASSUME NEW s, NEW q, NEW gs, Exact(q, Evs(s), gs),
         NEW seen0, \A v \in seen0 : /\ v.id \in G!Id /\ v.call \in HeardBy(s)
                                     /\ v.group = G!GroupOf(v.call),
         \A v, u \in seen0 : v.id = u.id => v = u,
         NEW z, z = G!UpsertAll(q, seen0)
  PROVE  Exact(z, Evs(s), gs \cup {G!GroupOf(v.call) : v \in seen0})
<1> DEFINE Upto(n) == gs \cup {G!GroupOf(v.call) : v \in {v \in seen0 : v.id <= n}}
<1>1. PICK f : Unfolds(f, q, seen0, MaxIdSuggestions) /\ z = f[MaxIdSuggestions]
  BY UpsertAllIs
<1>2. PICK N : N = MaxIdSuggestions
  OBVIOUS
<1>3. N \in Nat /\ G!Id = 1 .. N /\ z = f[N]
  BY <1>1, <1>2, SuggNumbers
<1>4. \A n \in 0 .. N : f[n] = IF n = 0 THEN q ELSE Turned(seen0, n, f[n - 1])
  BY <1>1, <1>2 DEF Unfolds
<1> DEFINE Wrong == {n \in 0 .. N : ~Exact(f[n], Evs(s), Upto(n))}
<1>5. ASSUME Wrong # {} PROVE FALSE
  <2>0. Wrong \in SUBSET Nat
    BY <1>3
  <2>1. PICK n \in Wrong : \A k \in Wrong : n <= k
    <3> HIDE DEF Wrong
    <3> QED
      BY <1>5, <2>0, FirstNatural
  <2>2. CASE n = 0
    <3>1. Upto(0) = gs
      BY <1>3
    <3>2. f[0] = q
      BY <1>3, <1>4
    <3> QED
      BY <2>1, <2>2, <3>1, <3>2
  <2>3. CASE n # 0
    <3>0. n \in 0 .. N
      OBVIOUS
    <3>1. n \in 1 .. N /\ n - 1 \in 0 .. N /\ n - 1 \notin Wrong
      <4> HIDE DEF Wrong
      <4>1. n \in 1 .. N /\ n - 1 \in 0 .. N /\ ~(n <= n - 1)
        BY <1>3, <2>3, <3>0
      <4> QED
        BY <2>1, <4>1
    <3>2. PICK y, us : y = f[n - 1] /\ us = Upto(n - 1)
      OBVIOUS
    <3>3. Exact(y, Evs(s), us)
      BY <3>1, <3>2
    <3>4. f[n] = Turned(seen0, n, y)
      BY <1>4, <2>3, <3>1, <3>2
    <3>5. CASE \E v \in seen0 : v.id = n
      <4>1. PICK v \in seen0 : v.id = n
        BY <3>5
      <4>2. v = CHOOSE u \in seen0 : u.id = n
        BY <4>1
      <4>3. f[n] = G!UpsertSighting(y, [call |-> v.call, group |-> v.group])
        BY <3>4, <4>1, <4>2 DEF Turned
      <4>4. [call |-> v.call, group |-> v.group] = Ev(v.call) /\ v.call \in HeardBy(s)
        BY <4>1 DEF Ev
      <4>5. Exact(f[n], Evs(s), us \cup {G!GroupOf(v.call)})
        BY <3>3, <4>3, <4>4, UpsertOne
      <4>6. {u \in seen0 : u.id <= n} = {u \in seen0 : u.id <= n - 1} \cup {v}
        BY <1>3, <3>1, <4>1
      <4>7. Upto(n) = us \cup {G!GroupOf(v.call)}
        BY <3>2, <4>6
      <4> QED
        BY <2>1, <4>5, <4>7
    <3>6. CASE ~\E v \in seen0 : v.id = n
      <4>1. f[n] = y
        BY <3>4, <3>6 DEF Turned
      <4>2. {u \in seen0 : u.id <= n} = {u \in seen0 : u.id <= n - 1}
        BY <1>3, <3>1, <3>6
      <4>3. Upto(n) = us
        BY <3>2, <4>2
      <4> QED
        BY <2>1, <3>3, <4>1, <4>3
    <3> QED
      BY <3>5, <3>6
  <2> QED
    BY <2>2, <2>3
<1>6. Exact(f[N], Evs(s), Upto(N))
  <2>1. N \in 0 .. N /\ N \notin Wrong
    <3> HIDE DEF Wrong
    <3> QED
      BY <1>3, <1>5
  <2> QED
    BY <2>1
<1>7. {v \in seen0 : v.id <= N} = seen0
  BY <1>3
<1> QED
  BY <1>3, <1>6, <1>7

\* The count is of the transmissions that were heard.
LEMMA CountIs ==
  ASSUME SuggestionsInv
  PROVE  G!TransmissionsCountOnce
<1> SUFFICES ASSUME NEW s \in G!Sys, NEW xs,
                    xs = {Transmission[tr[v.id].call] :
                            v \in {w \in scanned : w.usable /\ G!HomeOf(tr[w.id].call) = s}}
             PROVE  /\ sugg[s].count >= G!Cardinality(xs)
                    /\ sugg[s].count <= EvidenceCap => sugg[s].count = G!Cardinality(xs)
  BY DEF G!TransmissionsCountOnce
<1>1. PICK ev, gs, n : /\ ev = sugg[s].evidence /\ gs = {G!GroupOf(c) : c \in Heard(s)}
                       /\ n = sugg[s].count
  OBVIOUS
<1>2. /\ n \in Nat /\ IsFiniteSet(ev) /\ IsFiniteSet(gs)
      /\ \A d, e \in ev : d.group = e.group => d = e
      /\ \A e \in ev : e.group \in gs
      /\ Cardinality(gs) <= n
      /\ n <= EvidenceCap => n = Cardinality(ev) /\ \A x \in gs : \E e \in ev : e.group = x
      /\ merged \in BOOLEAN
  BY <1>1 DEF SuggestionsInv, EvidenceOf, Exact
<1>3. Heard(s) \subseteq HeardBy(s) /\ HeardBy(s) \subseteq Recording
  BY DEF Heard, HeardBy, SuggestionsInv, ScannedInv, IdsInv
<1>4. xs = {Transmission[c] : c \in Heard(s)}
  BY DEF Heard
\* One group for each transmission.
<1>5. Cardinality(xs) = Cardinality(gs)
  <2>1. PICK f : f = [x \in gs |-> x[2]]
    OBVIOUS
  <2>2. ASSUME NEW c \in Heard(s)
        PROVE  G!GroupOf(c) \in gs /\ G!GroupOf(c)[2] = Transmission[c] /\ Transmission[c] \in xs
    <3>1. G!GroupOf(c)[2] = Transmission[c]
      BY <1>2, <1>3, HomeFacts
    <3> QED
      BY <1>1, <1>4, <3>1
  <2>3. \A x \in gs : \E c \in Heard(s) : x = G!GroupOf(c)
    BY <1>1
  <2>4. \A y \in xs : \E c \in Heard(s) : y = Transmission[c]
    BY <1>4
  <2>5. \A c, d \in Heard(s) : Transmission[c] = Transmission[d] => G!GroupOf(c) = G!GroupOf(d)
    BY <1>2, <1>3, OneGroup DEF HeardBy
  <2>6. f \in [gs -> xs]
    BY <2>1, <2>2, <2>3
  <2>7. \A x, y \in gs : f[x] = f[y] => x = y
    BY <2>1, <2>2, <2>3, <2>5
  <2>8. ASSUME NEW y \in xs PROVE \E x \in gs : f[x] = y
    <3>1. PICK c \in Heard(s) : y = Transmission[c]
      BY <2>4
    <3>2. f[G!GroupOf(c)] = y /\ G!GroupOf(c) \in gs
      BY <2>1, <2>2, <3>1
    <3> QED
      BY <3>2
  <2>9. f \in Surjection(gs, xs) /\ f \in Injection(gs, xs)
    BY <2>6, <2>7, <2>8 DEF Surjection, Injection, IsInjective
  <2> QED
    BY <1>2, <2>9, FS_Surjection
\* One call of evidence for each group, while none is forgotten.
<1>6. ASSUME n <= EvidenceCap PROVE Cardinality(ev) = Cardinality(gs)
  <2>1. PICK f : f = [e \in ev |-> e.group]
    OBVIOUS
  <2>2. f \in [ev -> gs]
    BY <1>2, <2>1
  <2>3. f \in Surjection(ev, gs) /\ f \in Injection(ev, gs)
    BY <1>2, <1>6, <2>1, <2>2 DEF Surjection, Injection, IsInjective
  <2>4. Cardinality(gs) = Cardinality(ev)
    BY <1>2, <2>3, FS_Surjection
  <2> QED
    BY <2>4
<1>7. Cardinality(gs) \in Nat
  BY <1>2, FS_CardinalityType
<1> QED
  BY <1>1, <1>2, <1>5, <1>6, <1>7, SuggNumbers

\* The cursor passes only what was scanned.
LEMMA SkippedNone ==
  ASSUME SuggestionsInv
  PROVE  G!NoneSkipped
BY DEF SuggestionsInv, ScannedInv, Passed, Ids, G!NoneSkipped

-----------------------------------------------------------------------------
(* Transcriptions come, go on, and age.                                    *)

LEMMA SuggestionsInit == G!Init => SuggestionsInv
<1> SUFFICES ASSUME G!Init PROVE SuggestionsInv
  OBVIOUS
<1>1. G!Min(Recording) \in Recording
  <2>1. PICK c \in Recording : \A d \in Recording : c <= d
    BY SuggestionsAssumption, FirstNatural
  <2> QED
    BY <2>1 DEF G!Min
<1>2. IdsInv
  BY <1>1, SuggNumbers DEF G!Init, IdsInv
<1>3. ScannersInv
  BY SuggNumbers DEF G!Init, G!Idle, ScannersInv
<1>4. ScannedInv
  BY SuggNumbers DEF G!Init, ScannedInv, Passed
<1>5. ASSUME NEW s \in G!Sys
      PROVE  EvidenceOf(s)
  <2>1. sugg[s] = G!None /\ Heard(s) = {}
    BY <1>5 DEF G!Init, Heard
  <2> QED
    BY <2>1, FS_EmptySet DEF G!None, EvidenceOf, Exact
<1> QED
  BY <1>2, <1>3, <1>4, <1>5 DEF SuggestionsInv, G!Init

\* What a step leaves of a suggestion.
LEMMA EvidenceNext ==
  ASSUME NEW s, NEW q, NEW evs, NEW gs, Exact(q, evs, gs),
         sugg'[s] = q, Evs(s)' = evs, {G!GroupOf(c) : c \in Heard(s)}' = gs
  PROVE  EvidenceOf(s)'
BY DEF EvidenceOf

\* What stays so while transcriptions are written and time passes.
Going ==
  \A n \in G!Id :
    /\ tr[n].state = "visible" => tr'[n] = tr[n]
    /\ tr[n].state = "aborted" => tr'[n].state = "aborted"
    /\ age[n] = "aged" => age'[n] = "aged"

LEMMA PassedStays ==
  ASSUME SuggestionsInv, Going, NEW m \in 0 .. MaxIdSuggestions, NEW have, Passed(m, have)
  PROVE  \A n \in 1 .. m : tr'[n].state = "aborted" \/ n \in have
                             \/ \E k \in G!Id : k > n /\ age'[k] = "aged"
BY SuggNumbers DEF Passed, Going

LEMMA TranscribingKeeps ==
  ASSUME SuggestionsInv, IdsInv', Going, UNCHANGED <<cursor, sugg, scan, merged, scanned>>
  PROVE  SuggestionsInv'
<1>1. ScannedInv'
  <2>1. \A v \in scanned : v.id \in G!Id /\ v.usable \in BOOLEAN /\ tr'[v.id].state = "visible"
    BY DEF SuggestionsInv, ScannedInv, Going
  <2>2. \A n \in 1 .. cursor : tr'[n].state = "aborted" \/ n \in Ids(scanned)
                             \/ \E k \in G!Id : k > n /\ age'[k] = "aged"
    BY PassedStays DEF SuggestionsInv, ScannedInv
  <2> QED
    BY <2>1, <2>2 DEF SuggestionsInv, ScannedInv, Passed, Ids
<1>2. ScannersInv'
  <2>1. ASSUME NEW p \in Scanner, scan[p].pc = "apply"
        PROVE  /\ ViewsOf(scan[p].batch)'
               /\ \A n \in Ids(scan[p].batch) : n > scan[p].from /\ tr'[n].state = "visible"
               /\ \A m \in Ids(scan[p].batch) :
                    \A n \in 1 .. m : tr'[n].state = "aborted"
                      \/ n \in Ids(scan[p].batch) \cup 1 .. scan[p].from
                      \/ \E k \in G!Id : k > n /\ age'[k] = "aged"
    <3>1. PICK b, r : b = scan[p].batch /\ r = scan[p].from
      OBVIOUS
    <3>2. /\ ViewsOf(b) /\ b \subseteq View
          /\ \A n \in Ids(b) : n > r /\ tr[n].state = "visible"
          /\ \A m \in Ids(b) : Passed(m, Ids(b) \cup 1 .. r)
      BY <2>1, <3>1 DEF SuggestionsInv, ScannersInv
    <3>3. Ids(b) \subseteq G!Id /\ \A m \in Ids(b) : m \in 0 .. MaxIdSuggestions
      BY <3>2, SuggNumbers DEF Ids, View
    <3>4. \A m \in Ids(b) :
             \A n \in 1 .. m : tr'[n].state = "aborted" \/ n \in Ids(b) \cup 1 .. r
                                 \/ \E k \in G!Id : k > n /\ age'[k] = "aged"
      BY <3>2, <3>3, PassedStays
    <3>5. \A v \in b : v.id \in G!Id /\ tr'[v.id] = tr[v.id]
      BY <3>2 DEF View, ViewsOf, Going
    <3>6. scan'[p].batch = b
      BY <3>1
    <3>7. ViewsOf(scan[p].batch)'
      BY <3>2, <3>5, <3>6 DEF ViewsOf, G!HomeOf, G!GroupOf
    <3>8. \A n \in Ids(b) : tr'[n].state = "visible"
      BY <3>2, <3>3 DEF Going
    <3> QED
      BY <3>1, <3>2, <3>4, <3>7, <3>8
  <2> QED
    BY <2>1 DEF SuggestionsInv, ScannersInv, Passed, Ids, View
<1>3. ASSUME NEW s \in G!Sys PROVE EvidenceOf(s)'
  <2>1. Heard(s)' = Heard(s)
    BY DEF Heard, SuggestionsInv, ScannedInv, Going, G!HomeOf
  <2>2. HeardBy(s)' = HeardBy(s) /\ \A c : G!GroupOf(c)' = G!GroupOf(c) /\ Ev(c)' = Ev(c)
    BY DEF HeardBy, Ev, G!HomeOf, G!GroupOf
  <2>3. Evs(s)' = Evs(s) /\ {G!GroupOf(c) : c \in Heard(s)}' = {G!GroupOf(c) : c \in Heard(s)}
    BY <2>1, <2>2 DEF Evs
  <2> QED
    BY <2>3, EvidenceNext DEF SuggestionsInv, EvidenceOf
<1> QED
  BY <1>1, <1>2, <1>3 DEF SuggestionsInv

LEMMA SuggestionsTranscribe ==
  ASSUME SuggestionsInv,
         \/ \E c \in Recording : G!Write(c)
         \/ \E n \in G!Id : G!Commit(n) \/ G!Abort(n) \/ G!Settles(n)
  PROVE  SuggestionsInv'
<1>1. ASSUME NEW c \in Recording, G!Write(c) PROVE IdsInv' /\ Going
  <2>1. PICK n \in G!Id :
          /\ tr[n].state = "free" /\ \A k \in 1 .. n - 1 : tr[k].state # "free"
          /\ tr' = [tr EXCEPT ![n] = [call |-> c, state |-> "writing"]]
          /\ UNCHANGED age
    BY <1>1 DEF G!Write
  <2>2. tr'[n].state = "writing" /\ \A k \in G!Id \ {n} : tr'[k] = tr[k]
    BY <2>1 DEF SuggestionsInv, IdsInv
  <2>3. tr' \in [G!Id -> [call : Recording, state : {"free", "writing", "visible", "aborted"}]]
    BY <2>1 DEF SuggestionsInv, IdsInv
  <2>4. \A k, l \in G!Id : k < l /\ tr'[l].state # "free" => tr'[k].state # "free"
    <3> SUFFICES ASSUME NEW k \in G!Id, NEW l \in G!Id, k < l, tr'[l].state # "free", k # n
                 PROVE  tr[k].state # "free"
      BY <2>2
    <3>1. CASE l = n
      BY <2>1, <3>1, SuggNumbers
    <3>2. CASE l # n
      BY <2>2, <3>2 DEF SuggestionsInv, IdsInv
    <3> QED
      BY <3>1, <3>2
  <2>5. Going
    BY <2>1, <2>2 DEF Going
  <2>6. \A k \in G!Id : age'[k] # "young" => tr'[k].state = "visible"
    BY <2>1, <2>2 DEF SuggestionsInv, IdsInv
  <2> QED
    BY <2>1, <2>3, <2>4, <2>5, <2>6 DEF SuggestionsInv, IdsInv
<1>2. ASSUME NEW n \in G!Id, G!Commit(n) \/ G!Abort(n) PROVE IdsInv' /\ Going
  <2>1. PICK t \in {"visible", "aborted"} : tr' = [tr EXCEPT ![n].state = t]
    BY <1>2 DEF G!Commit, G!Abort
  <2>2. tr[n].state = "writing" /\ UNCHANGED age
    BY <1>2 DEF G!Commit, G!Abort
  <2>3. tr'[n].state = t /\ \A k \in G!Id \ {n} : tr'[k] = tr[k]
    BY <2>1 DEF SuggestionsInv, IdsInv
  <2>4. tr' \in [G!Id -> [call : Recording, state : {"free", "writing", "visible", "aborted"}]]
    BY <2>1 DEF SuggestionsInv, IdsInv
  <2>5. Going
    BY <2>2, <2>3 DEF Going
  <2>6. \A k, l \in G!Id : k < l /\ tr'[l].state # "free" => tr'[k].state # "free"
    BY <2>2, <2>3 DEF SuggestionsInv, IdsInv
  <2>7. \A k \in G!Id : age'[k] # "young" => tr'[k].state = "visible"
    BY <2>2, <2>3 DEF SuggestionsInv, IdsInv
  <2> QED
    BY <2>2, <2>4, <2>5, <2>6, <2>7 DEF SuggestionsInv, IdsInv
<1>3. ASSUME NEW n \in G!Id, G!Settles(n) PROVE IdsInv' /\ Going
  <2>1. PICK a \in {"old", "aged"} : age' = [age EXCEPT ![n] = a]
    BY <1>3 DEF G!Settles
  <2>2. tr[n].state = "visible" /\ age[n] # "aged" /\ UNCHANGED tr
    BY <1>3 DEF G!Settles
  <2> QED
    BY <2>1, <2>2 DEF SuggestionsInv, IdsInv, Going
<1>4. UNCHANGED <<cursor, sugg, scan, merged, scanned>>
  BY DEF G!Write, G!Commit, G!Abort, G!Settles
<1> QED
  BY <1>1, <1>2, <1>3, <1>4, TranscribingKeeps

-----------------------------------------------------------------------------
(* A scanner.                                                              *)

LEMMA ScanningKeeps ==
  ASSUME SuggestionsInv, ScannersInv', UNCHANGED <<tr, age, cursor, sugg, merged, scanned>>
  PROVE  SuggestionsInv'
<1>1. IdsInv' /\ ScannedInv'
  BY DEF SuggestionsInv, IdsInv, ScannedInv, Passed, Ids
<1>2. ASSUME NEW s \in G!Sys PROVE EvidenceOf(s)'
  <2>1. Heard(s)' = Heard(s) /\ HeardBy(s)' = HeardBy(s)
    BY DEF Heard, HeardBy, G!HomeOf
  <2>2. \A c : G!GroupOf(c)' = G!GroupOf(c) /\ Ev(c)' = Ev(c)
    BY DEF Ev, G!GroupOf
  <2>3. Evs(s)' = Evs(s) /\ {G!GroupOf(c) : c \in Heard(s)}' = {G!GroupOf(c) : c \in Heard(s)}
    BY <2>1, <2>2 DEF Evs
  <2> QED
    BY <2>3, EvidenceNext DEF SuggestionsInv, EvidenceOf
<1> QED
  BY <1>1, <1>2 DEF SuggestionsInv

\* One scanner is at something else.
LEMMA OneScans ==
  ASSUME SuggestionsInv, UNCHANGED <<tr, age, merged>>, NEW p \in Scanner,
         NEW y \in [pc : {"idle", "fetch", "apply"}, from : 0 .. MaxIdSuggestions, batch : SUBSET View],
         scan' = [scan EXCEPT ![p] = y],
         y.pc = "apply" =>
           /\ ViewsOf(y.batch)
           /\ \A n \in Ids(y.batch) : n > y.from /\ tr[n].state = "visible"
           /\ \A m \in Ids(y.batch) : Passed(m, Ids(y.batch) \cup 1 .. y.from)
  PROVE  ScannersInv'
<1>1. /\ scan'[p] = y /\ \A o \in Scanner \ {p} : scan'[o] = scan[o]
      /\ scan' \in [Scanner -> [pc : {"idle", "fetch", "apply"}, from : 0 .. MaxIdSuggestions,
                                batch : SUBSET View]]
  BY DEF SuggestionsInv, ScannersInv
<1>2. ASSUME NEW o \in Scanner, scan'[o].pc = "apply"
      PROVE  /\ ViewsOf(scan'[o].batch)
             /\ \A n \in Ids(scan'[o].batch) : n > scan'[o].from /\ tr[n].state = "visible"
             /\ \A m \in Ids(scan'[o].batch) :
                  Passed(m, Ids(scan'[o].batch) \cup 1 .. scan'[o].from)
  <2>1. CASE o = p
    BY <1>1, <1>2, <2>1
  <2>2. CASE o # p
    BY <1>1, <1>2, <2>2 DEF SuggestionsInv, ScannersInv
  <2> QED
    BY <2>1, <2>2
<1> QED
  BY <1>1, <1>2 DEF ScannersInv, ViewsOf, Passed, Ids, View, G!HomeOf, G!GroupOf

\* What a scanner reads it can pass.
LEMMA BatchPasses ==
  ASSUME SuggestionsInv, NEW r \in 0 .. MaxIdSuggestions, NEW visible, NEW page, NEW prefix,
         visible = {n \in G!Id : n > r /\ tr[n].state = "visible"},
         page = {n \in visible : Cardinality({k \in visible : k <= n}) <= BatchSize},
         prefix = G!SettledPrefix(page), NEW m \in prefix
  PROVE  Passed(m, prefix \cup 1 .. r)
<1>1. m \in page /\ m \in visible /\ m \in G!Id /\ m \in Nat /\ r \in Nat
  BY SuggNumbers DEF G!SettledPrefix
<1>2. \A k \in page : k <= m => G!Settled(k)
  BY DEF G!SettledPrefix
<1>3. ASSUME NEW n \in 1 .. m, n # m, n > r, age[m] # "aged", tr[n].state # "aborted"
      PROVE  n \in prefix
  <2>1. n \in G!Id /\ n < m
    BY <1>1, <1>3, SuggNumbers
  <2>2. G!Settled(m)
    BY <1>1, <1>2
  <2>3. \A k \in 1 .. m - 1 : tr[k].state # "writing"
    BY <1>3, <2>2 DEF G!Settled
  <2>4. tr[n].state # "writing"
    BY <1>1, <2>1, <2>3
  <2>5. tr[n].state # "free"
    BY <1>1, <2>1 DEF SuggestionsInv, IdsInv
  <2>6. n \in visible
    BY <1>3, <2>1, <2>4, <2>5 DEF SuggestionsInv, IdsInv
  <2>7. n \in page
    <3>1. PICK Z, Y : Z = {k \in visible : k <= n} /\ Y = {k \in visible : k <= m}
      OBVIOUS
    <3>2. Z \subseteq Y /\ Y \subseteq 1 .. MaxIdSuggestions
      BY <1>1, <2>1, <3>1, SuggNumbers
    <3>3. IsFiniteSet(Y)
      <4>1. 1 \in Int /\ MaxIdSuggestions \in Int
        BY SuggNumbers
      <4>2. IsFiniteSet(1 .. MaxIdSuggestions)
        BY <4>1, FS_Interval
      <4> QED
        BY <3>2, <4>2, FS_Subset
    <3>4. Cardinality(Z) <= Cardinality(Y) /\ IsFiniteSet(Z)
      BY <3>2, <3>3, FS_Subset
    <3>5. Cardinality(Y) <= BatchSize
      BY <1>1, <3>1
    <3>6. Cardinality(Z) <= BatchSize
      BY <3>3, <3>4, <3>5, SuggNumbers, FS_CardinalityType
    <3> QED
      BY <2>6, <3>1, <3>6
  <2>8. \A k \in page : k <= n => G!Settled(k)
    BY <1>1, <1>2, <2>1, SuggNumbers
  <2> QED
    BY <2>7, <2>8 DEF G!SettledPrefix
<1>4. ASSUME NEW n \in 1 .. m
      PROVE  tr[n].state = "aborted" \/ n \in prefix \cup 1 .. r \/ \E k \in G!Id : k > n /\ age[k] = "aged"
  <2>1. CASE n = m
    BY <2>1
  <2>2. CASE n <= r
    BY <1>1, <2>2
  <2>3. CASE n # m /\ age[m] = "aged"
    BY <1>1, <2>3
  <2>4. CASE n # m /\ ~(n <= r) /\ age[m] # "aged"
    BY <1>1, <1>3, <2>4
  <2> QED
    BY <2>1, <2>2, <2>3, <2>4
<1> QED
  BY <1>4 DEF Passed

LEMMA SuggestionsFetch ==
  ASSUME SuggestionsInv, NEW p \in Scanner, G!FetchTagScanBatch(p)
  PROVE  SuggestionsInv'
<1> DEFINE ViewOf(n) == [id |-> n, call |-> tr[n].call, sys |-> G!HomeOf(tr[n].call),
                         group |-> G!GroupOf(tr[n].call), usable |-> G!Usable(n)]
<1>1. PICK r, visible, page, prefix, batch :
        /\ r = scan[p].from
        /\ visible = {n \in G!Id : n > r /\ tr[n].state = "visible"}
        /\ page = {n \in visible : G!Cardinality({k \in visible : k <= n}) <= BatchSize}
        /\ prefix = G!SettledPrefix(page)
        /\ batch = {ViewOf(n) : n \in prefix}
  OBVIOUS
<1>2. /\ scan[p].pc = "fetch" /\ UNCHANGED <<tr, age, cursor, sugg, merged, scanned>>
      /\ scan' = [scan EXCEPT ![p] = IF prefix = {} THEN G!Idle
                                     ELSE [scan[p] EXCEPT !.pc = "apply", !.batch = batch]]
  BY <1>1 DEF G!FetchTagScanBatch
<1>6. page = {n \in visible : Cardinality({k \in visible : k <= n}) <= BatchSize}
  BY <1>1, SuggNumbers
<1>3. /\ r \in 0 .. MaxIdSuggestions /\ merged \in BOOLEAN
      /\ scan[p] \in [pc : {"idle", "fetch", "apply"}, from : 0 .. MaxIdSuggestions, batch : SUBSET View]
  BY <1>1 DEF SuggestionsInv, ScannersInv
<1>4. CASE prefix = {}
  <2>1. G!Idle \in [pc : {"idle", "fetch", "apply"}, from : 0 .. MaxIdSuggestions, batch : SUBSET View]
    BY SuggNumbers DEF G!Idle
  <2>2. G!Idle.pc = "idle" /\ scan' = [scan EXCEPT ![p] = G!Idle]
    BY <1>2, <1>4 DEF G!Idle
  <2>3. ScannersInv'
    BY <1>2, <2>1, <2>2, OneScans
  <2> QED
    BY <1>2, <2>3, ScanningKeeps
<1>5. CASE prefix # {}
  <2>1. prefix \subseteq G!Id /\ \A n \in prefix : n > r /\ tr[n].state = "visible" /\ tr[n].call \in Recording
    BY <1>1 DEF G!SettledPrefix, SuggestionsInv, IdsInv
  <2>2. PICK y : y = [scan[p] EXCEPT !.pc = "apply", !.batch = batch]
    OBVIOUS
  <2>3. batch \subseteq View
    <3> SUFFICES ASSUME NEW n \in prefix PROVE ViewOf(n) \in View
      BY <1>1
    <3>1. G!Usable(n) \in BOOLEAN
      BY DEF G!Usable
    <3>2. /\ G!HomeOf(tr[n].call) \in G!Sys /\ n \in G!Id
          /\ G!GroupOf(tr[n].call) \in {<<s, Transmission[c]>> : s \in G!Sys, c \in Recording}
      BY <1>3, <2>1, HomeFacts
    <3> QED
      BY <2>1, <3>1, <3>2 DEF View
  <2>4. \A v \in batch : \E n \in prefix : v = ViewOf(n)
    BY <1>1
  <2>10. \A v \in batch : /\ v.id \in prefix /\ v.call = tr[v.id].call /\ v = ViewOf(v.id)
                          /\ v.sys = G!HomeOf(v.call) /\ v.group = G!GroupOf(v.call)
    BY <2>4
  <2>11. Ids(batch) = prefix
    <3>1. \A n \in prefix : ViewOf(n) \in batch /\ ViewOf(n).id = n
      BY <1>1
    <3> HIDE DEF ViewOf
    <3> QED
      BY <2>10, <3>1 DEF Ids
  <2>12. IsFiniteSet(batch)
    <3>1. 1 \in Int /\ MaxIdSuggestions \in Int /\ prefix \in SUBSET (1 .. MaxIdSuggestions)
      BY <2>1, SuggNumbers
    <3>2. IsFiniteSet(prefix)
      BY <3>1, FS_Interval, FS_Subset
    <3>3. PICK f : f = [n \in prefix |-> ViewOf(n)]
      OBVIOUS
    <3>4. f \in Surjection(prefix, batch)
      <4> HIDE DEF ViewOf
      <4>1. f \in [prefix -> batch] /\ \A v \in batch : \E n \in prefix : f[n] = v
        BY <1>1, <2>4, <3>3
      <4> QED
        BY <4>1 DEF Surjection
    <3> QED
      BY <3>2, <3>4, FS_Surjection
  <2>5. ViewsOf(batch)
    <3>1. batch # {}
      BY <1>1, <1>5
    <3>2. \A v, u \in batch : v.id = u.id => v = u
      <4> HIDE DEF ViewOf
      <4> QED
        BY <2>10
    <3> HIDE DEF ViewOf
    <3> QED
      BY <2>1, <2>10, <2>12, <3>1, <3>2 DEF ViewsOf
  <2>6. /\ y \in [pc : {"idle", "fetch", "apply"}, from : 0 .. MaxIdSuggestions, batch : SUBSET View]
        /\ y.batch = batch /\ y.from = r
    BY <1>1, <1>3, <2>2, <2>3
  <2>7. \A m \in prefix : Passed(m, prefix \cup 1 .. r)
    <3> HIDE DEF ViewOf
    <3> QED
      BY <1>1, <1>3, <1>6, BatchPasses
  <2>8. scan' = [scan EXCEPT ![p] = y]
    BY <1>2, <1>5, <2>2
  <2>9. ScannersInv'
    BY <1>2, <2>1, <2>5, <2>6, <2>7, <2>8, <2>11, OneScans
  <2> QED
    BY <1>2, <2>9, ScanningKeeps
<1> QED
  BY <1>4, <1>5

LEMMA SuggestionsOtherScan ==
  ASSUME SuggestionsInv, NEW p \in Scanner, G!EnsureScanCursor(p) \/ G!ScanFails(p)
  PROVE  SuggestionsInv'
<1>1. UNCHANGED <<tr, age, cursor, sugg, merged, scanned>>
  BY DEF G!EnsureScanCursor, G!ScanFails
<1>2. PICK y \in {[pc |-> "fetch", from |-> cursor, batch |-> {}], G!Idle} : scan' = [scan EXCEPT ![p] = y]
  BY DEF G!EnsureScanCursor, G!ScanFails
<1>3. /\ y \in [pc : {"idle", "fetch", "apply"}, from : 0 .. MaxIdSuggestions, batch : SUBSET View]
      /\ y.pc # "apply"
  BY SuggNumbers DEF G!Idle, SuggestionsInv, ScannedInv
<1>4. ScannersInv'
  BY <1>1, <1>2, <1>3, OneScans
<1> QED
  BY <1>1, <1>4, ScanningKeeps

\* One scanner's batch, and the suggestions after it.
LEMMA LastNatural ==
  ASSUME NEW N \in Nat, NEW E \in SUBSET (1 .. N), E # {}
  PROVE  \E g \in E : \A n \in E : n <= g
<1>1. PICK D : D = {N - n : n \in E}
  OBVIOUS
<1>2. D \in SUBSET Nat /\ D # {}
  <2>1. \A n \in E : N - n \in Nat
    OBVIOUS
  <2> QED
    BY <1>1, <2>1
<1>3. PICK d \in D : \A m \in D : d <= m
  BY <1>2, FirstNatural
<1>4. PICK g \in E : d = N - g
  BY <1>1, <1>3
<1>5. \A n \in E : N - g <= N - n
  BY <1>1, <1>3, <1>4
<1> QED
  BY <1>5

LEMMA SuggestionsApply ==
  ASSUME SuggestionsInv, NEW p \in Scanner, G!ApplyUnitTagSightings(p)
  PROVE  SuggestionsInv'
<1>1. PICK b, r : b = scan[p].batch /\ r = scan[p].from
  OBVIOUS
<1>2. /\ scan[p].pc = "apply" /\ UNCHANGED <<tr, age, merged>> /\ scan' = [scan EXCEPT ![p] = G!Idle]
      /\ \/ UNCHANGED <<cursor, sugg, scanned>>
         \/ /\ cursor = r /\ ~(merged /\ G!Sightings(b, "s") # {})
            /\ cursor' = G!Max({v.id : v \in b})
            /\ sugg' = [s \in G!Sys |-> G!UpsertAll(sugg[s], G!Sightings(b, s))]
            /\ scanned' = scanned \cup {[id |-> v.id, usable |-> v.usable] : v \in b}
  BY <1>1 DEF G!ApplyUnitTagSightings
<1>3. ScannersInv'
  <2>1. /\ G!Idle \in [pc : {"idle", "fetch", "apply"}, from : 0 .. MaxIdSuggestions, batch : SUBSET View]
        /\ G!Idle.pc = "idle"
    BY SuggNumbers DEF G!Idle
  <2> QED
    BY <1>2, <2>1, OneScans
<1>4. CASE UNCHANGED <<cursor, sugg, scanned>>
  BY <1>2, <1>3, <1>4, ScanningKeeps
<1>5. CASE /\ cursor = r /\ ~(merged /\ G!Sightings(b, "s") # {})
           /\ cursor' = G!Max({v.id : v \in b})
           /\ sugg' = [s \in G!Sys |-> G!UpsertAll(sugg[s], G!Sightings(b, s))]
           /\ scanned' = scanned \cup {[id |-> v.id, usable |-> v.usable] : v \in b}
  <2>1. /\ ViewsOf(b) /\ b \subseteq View
        /\ \A n \in Ids(b) : n > r /\ tr[n].state = "visible"
        /\ \A m \in Ids(b) : Passed(m, Ids(b) \cup 1 .. r)
    BY <1>1, <1>2 DEF SuggestionsInv, ScannersInv
  <2>2. \A v \in b : v.id \in G!Id /\ v.usable \in BOOLEAN /\ v.call = tr[v.id].call /\ v.call \in Recording
    BY <2>1 DEF View, ViewsOf
  <2>3. \A v \in b : v.usable => v.sys = G!HomeOf(v.call) /\ v.group = G!GroupOf(v.call)
    <3> SUFFICES ASSUME NEW v \in b, v.usable, merged, v.sys = "s" PROVE FALSE
      BY <2>1 DEF ViewsOf
    <3>1. v \in G!Sightings(b, "s")
      BY DEF G!Sightings
    <3> QED
      BY <1>5, <3>1
  <2>4. PICK g \in Ids(b) : \A n \in Ids(b) : n <= g
    <3>1. Ids(b) \in SUBSET (1 .. MaxIdSuggestions) /\ Ids(b) # {}
      BY <2>1, <2>2, SuggNumbers DEF Ids, ViewsOf
    <3> QED
      BY <3>1, SuggNumbers, LastNatural
  <2>5. cursor' = g /\ g \in 1 .. MaxIdSuggestions
    <3>1. \A n \in Ids(b) : n \in 1 .. MaxIdSuggestions
      BY <2>2, SuggNumbers DEF Ids
    <3>2. G!Max(Ids(b)) \in Ids(b) /\ \A n \in Ids(b) : G!Max(Ids(b)) >= n
      BY <2>4, <3>1 DEF G!Max
    <3>3. cursor' = G!Max(Ids(b))
      BY <1>5 DEF Ids
    <3>4. PICK m : m = G!Max(Ids(b))
      OBVIOUS
    <3>5. m \in 1 .. MaxIdSuggestions /\ g \in 1 .. MaxIdSuggestions /\ m <= g /\ m >= g
      BY <2>4, <3>1, <3>2, <3>4
    <3>6. m = g
      BY <3>5, SuggNumbers
    <3> QED
      BY <3>3, <3>4, <3>5, <3>6
  <2>6. ScannedInv'
    <3>1. PICK had : had = Ids(scanned)
      OBVIOUS
    <3>2. Ids(scanned)' = had \cup Ids(b)
      <4>1. PICK more : more = {[id |-> v.id, usable |-> v.usable] : v \in b}
        OBVIOUS
      <4>2. Ids(more) = Ids(b)
        <5>1. \A u \in more : \E v \in b : u.id = v.id
          BY <4>1
        <5>2. ASSUME NEW v \in b PROVE \E u \in more : u.id = v.id
          <6>1. PICK u : u = [id |-> v.id, usable |-> v.usable]
            OBVIOUS
          <6> QED
            BY <4>1, <6>1
        <5> QED
          BY <5>1, <5>2 DEF Ids
      <4> QED
        BY <1>5, <3>1, <4>1, <4>2 DEF Ids
    <3>3. Passed(r, had) /\ r \in Nat
      BY <1>5, <3>1 DEF SuggestionsInv, ScannedInv
    <3>4. Passed(g, had \cup Ids(b))
      <4>1. Passed(g, Ids(b) \cup 1 .. r)
        BY <2>1, <2>4
      <4>2. ASSUME NEW n \in 1 .. g
            PROVE  \/ tr[n].state = "aborted"
                   \/ n \in had \cup Ids(b)
                   \/ \E k \in G!Id : k > n /\ age[k] = "aged"
        <5>1. CASE n \in 1 .. r
          BY <3>3, <5>1 DEF Passed
        <5>2. CASE n \notin 1 .. r
          BY <4>1, <5>2 DEF Passed
        <5> QED
          BY <5>1, <5>2
      <4> QED
        BY <4>2 DEF Passed
    <3>5. ASSUME NEW v \in scanned'
          PROVE  v.id \in G!Id /\ v.usable \in BOOLEAN /\ tr[v.id].state = "visible"
      <4>1. CASE v \in scanned
        BY <4>1 DEF SuggestionsInv, ScannedInv
      <4>2. CASE \E u \in b : v = [id |-> u.id, usable |-> u.usable]
        <5>1. PICK u \in b : v = [id |-> u.id, usable |-> u.usable]
          BY <4>2
        <5>2. tr[u.id].state = "visible"
          BY <2>1 DEF ViewsOf
        <5>3. v.id = u.id /\ v.usable = u.usable
          BY <5>1
        <5> QED
          BY <2>2, <5>2, <5>3
      <4> QED
        BY <1>5, <4>1, <4>2
    <3>6. Passed(cursor, Ids(scanned))'
      BY <1>2, <2>5, <3>2, <3>4 DEF Passed
    <3> QED
      BY <1>2, <2>5, <3>5, <3>6 DEF ScannedInv
  <2>7. ASSUME NEW s \in G!Sys PROVE EvidenceOf(s)'
    <3>1. PICK seen0, hs : seen0 = G!Sightings(b, s) /\ hs = Heard(s)
      OBVIOUS
    <3>2. \A v \in seen0 : v \in b /\ v.usable /\ v.sys = s
      BY <3>1 DEF G!Sightings
    <3>3. \A v \in seen0 : v.id \in G!Id /\ v.call \in HeardBy(s) /\ v.group = G!GroupOf(v.call)
      BY <2>2, <2>3, <3>2 DEF HeardBy
    <3>4. \A v, u \in seen0 : v.id = u.id => v = u
      BY <2>1, <3>2 DEF ViewsOf
    <3>5. PICK z, q, gs : z = sugg'[s] /\ q = sugg[s] /\ gs = {G!GroupOf(c) : c \in hs}
      OBVIOUS
    <3>6. z = G!UpsertAll(q, seen0)
      BY <1>5, <3>1, <3>5
    <3>7. Exact(q, Evs(s), gs)
      BY <3>1, <3>5 DEF SuggestionsInv, EvidenceOf
    <3>8. Exact(z, Evs(s), gs \cup {G!GroupOf(v.call) : v \in seen0})
      BY <3>3, <3>4, <3>6, <3>7, UpsertAllExact
    <3>9. Heard(s)' = hs \cup {v.call : v \in seen0}
      <4>1. Heard(s)' = {tr[v.id].call : v \in {v \in scanned' : v.usable /\ G!HomeOf(tr[v.id].call) = s}}
        BY <1>2 DEF Heard, G!HomeOf
      <4>2. ASSUME NEW v \in scanned', v.usable, G!HomeOf(tr[v.id].call) = s
            PROVE  tr[v.id].call \in hs \cup {u.call : u \in seen0}
        <5>1. CASE v \in scanned
          BY <3>1, <4>2, <5>1 DEF Heard
        <5>2. CASE \E u \in b : v = [id |-> u.id, usable |-> u.usable]
          <6>1. PICK u \in b : v = [id |-> u.id, usable |-> u.usable]
            BY <5>2
          <6>2. u.usable /\ u.call = tr[v.id].call /\ u.sys = s
            BY <2>2, <2>3, <4>2, <6>1
          <6>3. u \in seen0
            BY <3>1, <6>1, <6>2 DEF G!Sightings
          <6> QED
            BY <6>2, <6>3
        <5> QED
          BY <1>5, <5>1, <5>2
      <4>3. ASSUME NEW c \in hs
            PROVE  \E v \in scanned' : v.usable /\ G!HomeOf(tr[v.id].call) = s /\ c = tr[v.id].call
        BY <1>5, <3>1 DEF Heard
      <4>4. ASSUME NEW u \in seen0
            PROVE  \E v \in scanned' : v.usable /\ G!HomeOf(tr[v.id].call) = s /\ u.call = tr[v.id].call
        <5>1. PICK v : v = [id |-> u.id, usable |-> u.usable]
          OBVIOUS
        <5>2. v \in scanned' /\ v.usable /\ v.id = u.id
          BY <1>5, <3>2, <5>1
        <5> QED
          BY <2>2, <2>3, <3>2, <5>2
      <4> QED
        BY <4>1, <4>2, <4>3, <4>4
    <3>10. {G!GroupOf(c) : c \in Heard(s)}' = gs \cup {G!GroupOf(v.call) : v \in seen0}
      <4>1. \A c : G!GroupOf(c)' = G!GroupOf(c)
        BY <1>2 DEF G!GroupOf
      <4> QED
        BY <3>5, <3>9, <4>1
    <3>11. Evs(s)' = Evs(s)
      <4>1. \A c : G!GroupOf(c)' = G!GroupOf(c) /\ Ev(c)' = Ev(c)
        BY <1>2 DEF G!GroupOf, Ev
      <4>2. HeardBy(s)' = HeardBy(s)
        BY <1>2 DEF HeardBy, G!HomeOf
      <4> QED
        BY <4>1, <4>2 DEF Evs
    <3> QED
      BY <3>5, <3>8, <3>10, <3>11, EvidenceNext
  <2>8. IdsInv' /\ merged' \in BOOLEAN
    BY <1>2 DEF SuggestionsInv, IdsInv
  <2>9. sugg' = [s \in G!Sys |-> sugg'[s]]
    BY <1>5
  <2> QED
    BY <1>3, <2>6, <2>7, <2>8, <2>9 DEF SuggestionsInv
<1> QED
  BY <1>2, <1>4, <1>5

-----------------------------------------------------------------------------
(* Review and merge.                                                       *)

LEMMA SuggestionsReview ==
  ASSUME SuggestionsInv, NEW s \in G!Sys,
         G!ApproveUnitTagSuggestion(s) \/ G!DismissUnitTagSuggestion(s)
  PROVE  SuggestionsInv'
<1>1. UNCHANGED <<tr, age, cursor, scan, merged, scanned>>
  BY DEF G!ApproveUnitTagSuggestion, G!DismissUnitTagSuggestion
<1>2. PICK x \in {"approved", "dismissed"} : sugg' = [sugg EXCEPT ![s].status = x]
  BY DEF G!ApproveUnitTagSuggestion, G!DismissUnitTagSuggestion
<1>3. PICK q, y, gs : q = sugg[s] /\ y = [q EXCEPT !.status = x] /\ gs = {G!GroupOf(c) : c \in Heard(s)}
  OBVIOUS
<1>4. Exact(q, Evs(s), gs)
  BY <1>3 DEF SuggestionsInv, EvidenceOf
<1>5. y = [status |-> x, count |-> q.count, evidence |-> q.evidence]
  BY <1>3, <1>4 DEF Exact
<1>6. Exact(y, Evs(s), gs)
  <2>1. y.status = x /\ y.count = q.count /\ y.evidence = q.evidence
    BY <1>5
  <2> QED
    BY <1>4, <1>5, <2>1 DEF Exact
<1>7. /\ sugg' = [sugg EXCEPT ![s] = y] /\ sugg = [o \in G!Sys |-> sugg[o]]
  BY <1>2, <1>3 DEF SuggestionsInv
<1>8. /\ sugg' = [o \in G!Sys |-> sugg'[o]] /\ sugg'[s] = y
      /\ \A o \in G!Sys \ {s} : sugg'[o] = sugg[o]
  BY <1>7
<1>9. ASSUME NEW o \in G!Sys PROVE EvidenceOf(o)'
  <2>1. Heard(o)' = Heard(o) /\ HeardBy(o)' = HeardBy(o)
    BY <1>1 DEF Heard, HeardBy, G!HomeOf
  <2>2. \A c : G!GroupOf(c)' = G!GroupOf(c) /\ Ev(c)' = Ev(c)
    BY <1>1 DEF Ev, G!GroupOf
  <2>3. Evs(o)' = Evs(o) /\ {G!GroupOf(c) : c \in Heard(o)}' = {G!GroupOf(c) : c \in Heard(o)}
    BY <2>1, <2>2 DEF Evs
  <2>4. Exact(sugg'[o], Evs(o), {G!GroupOf(c) : c \in Heard(o)})
    <3>1. CASE o = s
      BY <1>3, <1>6, <1>8, <3>1
    <3>2. CASE o # s
      BY <1>8, <3>2 DEF SuggestionsInv, EvidenceOf
    <3> QED
      BY <3>1, <3>2
  <2> QED
    BY <2>3, <2>4, EvidenceNext
<1>10. IdsInv' /\ ScannedInv' /\ merged' \in BOOLEAN
  BY <1>1 DEF SuggestionsInv, IdsInv, ScannedInv, Passed, Ids
<1>11. ScannersInv'
  BY <1>1 DEF SuggestionsInv, ScannersInv, ViewsOf, Passed, Ids, View, G!HomeOf, G!GroupOf
<1> QED
  BY <1>8, <1>9, <1>10, <1>11 DEF SuggestionsInv

\* A suggestion with its evidence put into other groups, one for one.
LEMMA Regrouped ==
  ASSUME NEW evs, NEW q, NEW gs, Exact(q, evs, gs),
         NEW r, r = [q EXCEPT !.evidence = {[e EXCEPT !.group = G!GroupAfter(@)] : e \in @}],
         \A e \in evs : e = [call |-> e.call, group |-> e.group],
         \A d, e \in evs : G!GroupAfter(d.group) = G!GroupAfter(e.group) => d.group = e.group
  PROVE  Exact(r, {[call |-> e.call, group |-> G!GroupAfter(e.group)] : e \in evs},
               {G!GroupAfter(x) : x \in gs})
<1> DEFINE New(e) == [call |-> e.call, group |-> G!GroupAfter(e.group)]
<1>1. PICK ev, gr : ev = {New(e) : e \in q.evidence} /\ gr = {G!GroupAfter(x) : x \in gs}
  OBVIOUS
<1>2. r = [status |-> q.status, count |-> q.count, evidence |-> ev]
  <2> DEFINE Old(e) == [e EXCEPT !.group = G!GroupAfter(@)]
  <2>1. \A e \in q.evidence : Old(e) = New(e)
    BY DEF Exact
  <2>2. {Old(e) : e \in q.evidence} = ev
    <3> HIDE DEF Old, New
    <3> QED
      BY <1>1, <2>1
  <2> QED
    BY <2>2 DEF Exact
<1>3. r.status = q.status /\ r.count = q.count /\ r.evidence = ev
  BY <1>2
<1>4. \A e \in evs : New(e).call = e.call /\ New(e).group = G!GroupAfter(e.group)
  OBVIOUS
<1>5. \A d \in ev : \E e \in q.evidence : d = New(e)
  BY <1>1
<1>6. \A e \in q.evidence : New(e) \in ev /\ e \in evs
  BY <1>1 DEF Exact
<1> HIDE DEF New
<1>7. ASSUME NEW d \in q.evidence, NEW e \in q.evidence, New(d).group = New(e).group
      PROVE  d = e
  BY <1>4, <1>6, <1>7 DEF Exact
<1>8. \A d, e \in ev : d.group = e.group => d = e
  BY <1>5, <1>7
<1>9. \A d \in ev : d.group \in gr
  <2>1. \A e \in q.evidence : e.group \in gs
    BY DEF Exact
  <2> QED
    BY <1>1, <1>4, <1>5, <1>6, <2>1
<1>10. ASSUME q.count <= EvidenceCap, NEW x \in gr PROVE \E d \in ev : d.group = x
  <2>1. PICK y \in gs : x = G!GroupAfter(y)
    BY <1>1
  <2>2. PICK e \in q.evidence : e.group = y
    BY <1>10 DEF Exact
  <2> QED
    BY <1>4, <1>6, <2>1, <2>2
<1>11. IsFiniteSet(ev) /\ Cardinality(ev) = Cardinality(q.evidence)
  <2>1. PICK f : f = [e \in q.evidence |-> New(e)]
    OBVIOUS
  <2>2. f \in [q.evidence -> ev]
    BY <1>6, <2>1
  <2>3. \A d, e \in q.evidence : f[d] = f[e] => d = e
    BY <1>7, <2>1
  <2>4. \A d \in ev : \E e \in q.evidence : f[e] = d
    BY <1>5, <2>1
  <2>5. f \in Surjection(q.evidence, ev) /\ f \in Injection(q.evidence, ev)
    BY <2>2, <2>3, <2>4 DEF Surjection, Injection, IsInjective
  <2>6. IsFiniteSet(q.evidence)
    BY DEF Exact
  <2> QED
    BY <2>5, <2>6, FS_Surjection
<1>12. IsFiniteSet(gr) /\ Cardinality(gr) <= Cardinality(gs)
  <2>1. PICK f : f = [x \in gs |-> G!GroupAfter(x)]
    OBVIOUS
  <2>2. f \in Surjection(gs, gr)
    BY <1>1, <2>1 DEF Surjection
  <2>3. IsFiniteSet(gs)
    BY DEF Exact
  <2> QED
    BY <2>2, <2>3, FS_Surjection
<1>13. ev \subseteq {New(e) : e \in evs}
  BY <1>5, <1>6
<1>14. /\ q.count \in Nat /\ Cardinality(gr) <= q.count /\ Cardinality(ev) <= q.count
       /\ q.count <= EvidenceCap => q.count = Cardinality(ev)
       /\ q.status \in {"none", "pending", "approved", "dismissed"}
  <2>1. /\ q.count \in Nat /\ Cardinality(gs) <= q.count /\ Cardinality(q.evidence) <= q.count
        /\ q.count <= EvidenceCap => q.count = Cardinality(q.evidence)
        /\ q.status \in {"none", "pending", "approved", "dismissed"} /\ IsFiniteSet(gs)
    BY DEF Exact
  <2>2. Cardinality(gs) \in Nat /\ Cardinality(gr) \in Nat
    BY <1>12, <2>1, FS_CardinalityType
  <2> QED
    BY <1>11, <1>12, <2>1, <2>2
<1>15. Exact(r, {New(e) : e \in evs}, gr)
  BY <1>2, <1>3, <1>8, <1>9, <1>10, <1>11, <1>12, <1>13, <1>14 DEF Exact
<1> QED
  BY <1>1, <1>15 DEF New

LEMMA Disjoint ==
  ASSUME NEW Y, NEW Z, IsFiniteSet(Y), IsFiniteSet(Z), Y \cap Z = {}
  PROVE  Cardinality(Y \cup Z) = Cardinality(Y) + Cardinality(Z)
<1>1. Cardinality(Y \cup Z) = Cardinality(Y) + Cardinality(Z) - Cardinality(Y \cap Z)
  BY FS_Union
<1>2. Cardinality(Y \cap Z) = 0
  BY FS_EmptySet
<1>3. Cardinality(Y) \in Nat /\ Cardinality(Z) \in Nat
  BY FS_CardinalityType
<1> QED
  BY <1>1, <1>2, <1>3

\* Two suggestions of different calls folded together.
LEMMA Folded ==
  ASSUME NEW A, NEW B, NEW r, NEW q, NEW gr, NEW gq, Exact(r, A, gr), Exact(q, B, gq),
         \A e \in A \cup B : e.call \in Recording,
         \A d \in A, e \in B : d.call # e.call,
         NEW z, z = G!Fold(r, q)
  PROVE  Exact(z, A \cup B, gr \cup gq)
<1>1. PICK fresh, again, all, ev :
        /\ fresh = {e \in r.evidence : ~G!Seen(q.evidence, e)} /\ again = r.evidence \ fresh
        /\ all = q.evidence \cup fresh /\ ev = G!Newest(all)
  OBVIOUS
<1>2. r.evidence \subseteq A /\ q.evidence \subseteq B /\ all \subseteq A \cup B
  BY <1>1 DEF Exact
<1>3. \A e \in r.evidence : e \in fresh <=> \A f \in q.evidence : f.group # e.group
  BY <1>1, <1>2 DEF G!Seen
<1>4. /\ IsFiniteSet(r.evidence) /\ IsFiniteSet(q.evidence) /\ IsFiniteSet(gr) /\ IsFiniteSet(gq)
      /\ IsFiniteSet(fresh) /\ IsFiniteSet(again) /\ IsFiniteSet(all)
  <2>1. /\ IsFiniteSet(r.evidence) /\ IsFiniteSet(q.evidence) /\ IsFiniteSet(gr) /\ IsFiniteSet(gq)
    BY DEF Exact
  <2>2. IsFiniteSet(fresh) /\ IsFiniteSet(again)
    BY <1>1, <2>1, FS_Subset
  <2> QED
    BY <1>1, <2>1, <2>2, FS_Union
<1>5. z = [status |-> IF q.status = "pending" THEN r.status ELSE q.status,
           count |-> q.count + r.count - Cardinality(again), evidence |-> ev]
  BY <1>1, SuggNumbers DEF G!Fold
<1>6. /\ z = [status |-> z.status, count |-> z.count, evidence |-> z.evidence]
      /\ z.status \in {"none", "pending", "approved", "dismissed"}
      /\ z.count = q.count + r.count - Cardinality(again) /\ z.evidence = ev
  BY <1>5 DEF Exact
<1>7. /\ Cardinality(all) = Cardinality(q.evidence) + Cardinality(fresh)
      /\ Cardinality(r.evidence) = Cardinality(fresh) + Cardinality(again)
  <2>1. q.evidence \cap fresh = {} /\ fresh \subseteq r.evidence
    BY <1>1, <1>3
  <2>2. fresh \cup again = r.evidence /\ fresh \cap again = {}
    BY <1>1, <2>1
  <2>3. Cardinality(all) = Cardinality(q.evidence) + Cardinality(fresh)
    BY <1>1, <1>4, <2>1, Disjoint
  <2>4. Cardinality(fresh \cup again) = Cardinality(fresh) + Cardinality(again)
    BY <1>4, <2>2, Disjoint
  <2> QED
    BY <2>2, <2>3, <2>4
\* What is not fresh is of a group that both have, one call of each.
<1>8. Cardinality(again) <= Cardinality(q.evidence)
  <2>1. PICK f : f = [e \in again |-> CHOOSE d \in q.evidence : d.group = e.group]
    OBVIOUS
  <2>2. \A e \in again : f[e] \in q.evidence /\ f[e].group = e.group
    BY <1>1, <1>3, <2>1
  <2>3. \A d, e \in again : d.group = e.group => d = e
    BY <1>1 DEF Exact
  <2>4. f \in Injection(again, q.evidence)
    BY <2>1, <2>2, <2>3 DEF Injection, IsInjective
  <2> QED
    BY <1>4, <2>4, FS_Injection
<1>9. Cardinality(again) <= Cardinality(gr \cap gq)
  <2>1. PICK f : f = [e \in again |-> e.group]
    OBVIOUS
  <2>2. \A e \in again : e.group \in gr \cap gq
    <3> SUFFICES ASSUME NEW e \in again PROVE e.group \in gr \cap gq
      OBVIOUS
    <3>1. PICK d \in q.evidence : d.group = e.group
      BY <1>1, <1>3
    <3> QED
      BY <1>1, <3>1 DEF Exact
  <2>3. \A d, e \in again : d.group = e.group => d = e
    BY <1>1 DEF Exact
  <2>4. f \in Injection(again, gr \cap gq)
    BY <2>1, <2>2, <2>3 DEF Injection, IsInjective
  <2>5. IsFiniteSet(gr \cap gq)
    BY <1>4, FS_Subset
  <2> QED
    BY <2>4, <2>5, FS_Injection
<1>10. /\ IsFiniteSet(gr \cup gq)
       /\ Cardinality(gr \cup gq) = Cardinality(gr) + Cardinality(gq) - Cardinality(gr \cap gq)
       /\ IsFiniteSet(gr \cap gq)
  BY <1>4, FS_Union, FS_Subset
<1>11. /\ ev \subseteq all /\ IsFiniteSet(ev) /\ Cardinality(ev) <= Cardinality(all)
       /\ Cardinality(all) <= EvidenceCap => ev = all
  <2>1. \A e \in all : e.call \in Nat
    BY <1>2, SuggNumbers
  <2> QED
    BY <1>1, <1>4, <2>1, NewestIsAll
<1>12. /\ q.count \in Nat /\ Cardinality(gq) <= q.count /\ Cardinality(q.evidence) <= q.count
       /\ r.count \in Nat /\ Cardinality(gr) <= r.count /\ Cardinality(r.evidence) <= r.count
  BY DEF Exact
<1>13. PICK nz, nd, nf, na, nq, nr, nv, ngq, ngr, ngb, ngu :
         /\ nz = z.count /\ nd = Cardinality(again) /\ nf = Cardinality(fresh)
         /\ na = Cardinality(all) /\ nq = Cardinality(q.evidence) /\ nr = Cardinality(r.evidence)
         /\ nv = Cardinality(ev)
         /\ ngq = Cardinality(gq) /\ ngr = Cardinality(gr) /\ ngb = Cardinality(gr \cap gq)
         /\ ngu = Cardinality(gr \cup gq)
  OBVIOUS
<1>14. /\ {nd, nf, na, nq, nr, nv, ngq, ngr, ngb, ngu} \subseteq Nat
  BY <1>4, <1>10, <1>11, <1>13, FS_CardinalityType
<1>15. PICK cq, cr : cq = q.count /\ cr = r.count
  OBVIOUS
<1>16. /\ cq \in Nat /\ ngq <= cq /\ nq <= cq /\ cr \in Nat /\ ngr <= cr /\ nr <= cr
       /\ nz = cq + cr - nd /\ na = nq + nf /\ nr = nf + nd /\ nd <= nq /\ nd <= ngb
       /\ ngu = ngr + ngq - ngb /\ nv <= na
  BY <1>6, <1>7, <1>8, <1>9, <1>10, <1>11, <1>12, <1>13, <1>15
<1>17. nz \in Nat /\ ngu <= nz /\ nv <= nz /\ cq <= nz /\ cr <= nz
  BY ONLY <1>14, <1>16
<1>18. \A d, e \in all : d.group = e.group => d = e
  BY <1>1, <1>3 DEF Exact
<1>19. \A e \in all : e.group \in gr \cup gq
  BY <1>1 DEF Exact
<1>20. ASSUME z.count <= EvidenceCap
       PROVE  z.count = Cardinality(ev) /\ \A x \in gr \cup gq : \E e \in ev : e.group = x
  <2>1. cq <= EvidenceCap /\ cr <= EvidenceCap
    <3>1. nz <= EvidenceCap /\ EvidenceCap \in Nat
      BY <1>13, <1>20, SuggNumbers
    <3> QED
      BY ONLY <1>16, <1>17, <3>1
  <2>2. /\ cq = nq /\ \A x \in gq : \E e \in q.evidence : e.group = x
        /\ cr = nr /\ \A x \in gr : \E e \in r.evidence : e.group = x
    BY <1>13, <1>15, <2>1 DEF Exact
  <2>3. nz = na
    BY ONLY <1>14, <1>16, <2>2
  <2>4. ev = all
    BY <1>11, <1>13, <1>20, <2>3
  <2>5. ASSUME NEW x \in gr PROVE \E e \in all : e.group = x
    <3>1. PICK e \in r.evidence : e.group = x
      BY <2>2
    <3>2. e \in fresh \/ \E f \in q.evidence : f.group = e.group
      BY <1>3
    <3> QED
      BY <1>1, <3>1, <3>2
  <2>6. \A x \in gq : \E e \in all : e.group = x
    BY <1>1, <2>2
  <2> QED
    BY <1>13, <2>3, <2>4, <2>5, <2>6
<1>21. ev \subseteq A \cup B /\ (\A d, e \in ev : d.group = e.group => d = e)
       /\ \A e \in ev : e.group \in gr \cup gq
  BY <1>2, <1>11, <1>18, <1>19
<1> QED
  BY <1>6, <1>10, <1>11, <1>13, <1>17, <1>20, <1>21 DEF Exact

LEMMA SuggestionsMerge ==
  ASSUME SuggestionsInv, G!MergeSystems
  PROVE  SuggestionsInv'
<1>1. /\ ~merged /\ merged' = TRUE
      /\ UNCHANGED <<tr, age, cursor, scan, scanned>>
  BY DEF G!MergeSystems
<1>2. \A c \in Recording : HeardIn[c] \in {"s", "t"}
  BY SuggNumbers
<1>3. \A c \in Recording :
        /\ G!HomeOf(c) = HeardIn[c] /\ G!GroupOf(c) = <<HeardIn[c], Transmission[c]>>
        /\ G!HomeOf(c)' = "t" /\ G!GroupOf(c)' = G!GroupAfter(<<HeardIn[c], Transmission[c]>>)
  BY <1>1 DEF G!HomeOf, G!GroupOf, G!GroupAfter, G!InBoth
<1>4. \A c \in Recording : HeardIn[c] = "t" => G!GroupOf(c)' = G!GroupOf(c)
  BY <1>3 DEF G!GroupAfter
<1>5. IdsInv' /\ ScannedInv'
  BY <1>1 DEF SuggestionsInv, IdsInv, ScannedInv, Passed, Ids
<1>6. ScannersInv'
  <2>1. ASSUME NEW p \in Scanner, scan[p].pc = "apply" PROVE ViewsOf(scan[p].batch)'
    <3>1. PICK b : b = scan[p].batch
      OBVIOUS
    <3>2. ViewsOf(b) /\ b \subseteq View
      BY <2>1, <3>1 DEF SuggestionsInv, ScannersInv
    <3>3. ASSUME NEW v \in b
          PROVE  \/ v.sys = G!HomeOf(v.call)' /\ v.group = G!GroupOf(v.call)'
                 \/ merged' /\ v.sys = "s"
      <4>1. v.call \in Recording /\ v.sys = G!HomeOf(v.call) /\ v.group = G!GroupOf(v.call)
        BY <1>1, <3>2 DEF View, ViewsOf
      <4>2. CASE HeardIn[v.call] = "s"
        BY <1>1, <1>3, <4>1, <4>2
      <4>3. CASE HeardIn[v.call] = "t"
        BY <1>3, <1>4, <4>1, <4>3
      <4> QED
        BY <1>2, <4>1, <4>2, <4>3
    <3>4. scan'[p].batch = b
      BY <1>1, <3>1
    <3> QED
      BY <1>1, <3>2, <3>3, <3>4 DEF ViewsOf
  <2> QED
    BY <1>1, <2>1 DEF SuggestionsInv, ScannersInv, Passed, Ids, View
<1>7. PICK q, ts, r : /\ q = sugg["s"] /\ ts = sugg["t"]
                      /\ r = [q EXCEPT !.evidence = {[e EXCEPT !.group = G!GroupAfter(@)] : e \in @}]
  OBVIOUS
<1>8. PICK A, B, gq, gt, gr :
        /\ A = {[call |-> e.call, group |-> G!GroupAfter(e.group)] : e \in Evs("s")} /\ B = Evs("t")
        /\ gq = {G!GroupOf(c) : c \in Heard("s")} /\ gt = {G!GroupOf(c) : c \in Heard("t")}
        /\ gr = {G!GroupAfter(x) : x \in gq}
  OBVIOUS
<1>9. Exact(q, Evs("s"), gq) /\ Exact(ts, B, gt)
  BY <1>7, <1>8 DEF SuggestionsInv, EvidenceOf, G!Sys
<1>10. \A e \in Evs("s") : /\ e.call \in Recording /\ HeardIn[e.call] = "s" /\ e = Ev(e.call)
                           /\ e.group = <<"s", Transmission[e.call]>>
                           /\ e = [call |-> e.call, group |-> e.group]
  <2> SUFFICES ASSUME NEW c \in HeardBy("s")
               PROVE  /\ Ev(c).call = c /\ c \in Recording /\ HeardIn[c] = "s"
                      /\ Ev(c).group = <<"s", Transmission[c]>>
                      /\ Ev(c) = [call |-> Ev(c).call, group |-> Ev(c).group]
    BY DEF Evs
  <2> QED
    BY <1>3 DEF HeardBy, Ev
<1>11. \A e \in B : e.call \in Recording /\ HeardIn[e.call] = "t" /\ e = Ev(e.call)
  <2> SUFFICES ASSUME NEW c \in HeardBy("t")
               PROVE  /\ Ev(c).call = c /\ c \in Recording /\ HeardIn[c] = "t"
    BY <1>8 DEF Evs
  <2> QED
    BY <1>3 DEF HeardBy, Ev
<1>12. Exact(r, A, gr)
  <2>3. \A d, e \in Evs("s") : G!GroupAfter(d.group) = G!GroupAfter(e.group) => d.group = e.group
    BY <1>10 DEF G!GroupAfter
  <2>4. PICK evs : evs = Evs("s")
    OBVIOUS
  <2>5. \A e \in evs : e = [call |-> e.call, group |-> e.group]
    BY <1>10, <2>4
  <2> QED
    BY <1>7, <1>8, <1>9, <2>3, <2>4, <2>5, Regrouped
<1>13. \A a \in A : a.call \in Recording /\ HeardIn[a.call] = "s" /\ a = Ev(a.call)'
  <2> SUFFICES ASSUME NEW e \in Evs("s")
               PROVE  [call |-> e.call, group |-> G!GroupAfter(e.group)] = Ev(e.call)'
    BY <1>8, <1>10
  <2> QED
    BY <1>3, <1>10 DEF Ev
<1>14. /\ \A e \in A \cup B : e.call \in Recording
       /\ \A d \in A, e \in B : d.call # e.call
  BY <1>11, <1>13
<1>15. Evs("t")' = A \cup B
  <2>1. HeardBy("t")' = Recording
    BY <1>3 DEF HeardBy
  <2>2. ASSUME NEW c \in Recording PROVE Ev(c)' \in A \cup B
    <3>1. CASE HeardIn[c] = "s"
      <4>1. Ev(c) \in Evs("s")
        BY <1>3, <3>1 DEF Evs, HeardBy
      <4>2. [call |-> Ev(c).call, group |-> G!GroupAfter(Ev(c).group)] = Ev(c)'
        BY <1>3 DEF Ev
      <4> QED
        BY <1>8, <4>1, <4>2
    <3>2. CASE HeardIn[c] = "t"
      <4>1. Ev(c) \in B /\ Ev(c)' = Ev(c)
        BY <1>3, <1>4, <1>8, <3>2 DEF Evs, HeardBy, Ev
      <4> QED
        BY <4>1
    <3> QED
      BY <1>2, <3>1, <3>2
  <2>3. ASSUME NEW e \in A \cup B PROVE \E c \in Recording : e = Ev(c)'
    <3>1. CASE e \in A
      BY <1>13, <3>1
    <3>2. CASE e \in B
      <4>1. Ev(e.call)' = Ev(e.call)
        BY <1>4, <1>11, <3>2 DEF Ev
      <4> QED
        BY <1>11, <3>2, <4>1
    <3> QED
      BY <3>1, <3>2
  <2> QED
    BY <2>1, <2>2, <2>3 DEF Evs
<1>16. {G!GroupOf(c) : c \in Heard("t")}' = gr \cup gt
  <2>1. \A s : Heard(s) \subseteq Recording
    BY DEF Heard, SuggestionsInv, ScannedInv, IdsInv
  <2>2. PICK hs, ht, hn : hs = Heard("s") /\ ht = Heard("t") /\ hn = Heard("t")'
    OBVIOUS
  <2>3. hn = hs \cup ht
    <3>1. \A v \in scanned : tr[v.id].call \in Recording
      BY DEF SuggestionsInv, ScannedInv, IdsInv
    <3>2. hn = {tr[v.id].call : v \in {v \in scanned : v.usable}}
      BY <1>1, <1>3, <2>2, <3>1 DEF Heard
    <3>3. \A c : c \in hs \cup ht <=> \E v \in scanned : v.usable /\ c = tr[v.id].call
      BY <1>2, <1>3, <2>2, <3>1 DEF Heard
    <3> QED
      BY <3>2, <3>3
  <2>4. \A c \in hs : /\ c \in Recording /\ HeardIn[c] = "s" /\ G!GroupOf(c) \in gq
                      /\ G!GroupOf(c)' = G!GroupAfter(G!GroupOf(c))
    BY <1>3, <1>8, <2>1, <2>2 DEF Heard
  <2>5. \A c \in ht : c \in Recording /\ HeardIn[c] = "t" /\ G!GroupOf(c) \in gt /\ G!GroupOf(c)' = G!GroupOf(c)
    BY <1>3, <1>4, <1>8, <2>1, <2>2 DEF Heard
  <2>6. \A c \in hn : G!GroupOf(c)' \in gr \cup gt
    BY <1>8, <2>3, <2>4, <2>5
  <2>7. \A x \in gr : \E c \in hn : x = G!GroupOf(c)'
    BY <1>8, <2>2, <2>3, <2>4
  <2>8. \A x \in gt : \E c \in hn : x = G!GroupOf(c)'
    BY <1>8, <2>2, <2>3, <2>5
  <2>9. {G!GroupOf(c) : c \in Heard("t")}' = {G!GroupOf(c)' : c \in hn}
    BY <2>2
  <2> QED
    BY <2>6, <2>7, <2>8, <2>9
<1>17. Exact(sugg'["t"], A \cup B, gr \cup gt)
  <2>1. sugg'["t"] = IF q = G!None THEN ts ELSE IF ts = G!None THEN r ELSE G!Fold(r, ts)
    BY <1>7 DEF G!MergeSystems
  <2>2. CASE q = G!None
    <3>1. gq = {} /\ gr = {}
      <4>1. q.count = 0
        BY <2>2 DEF G!None
      <4>2. IsFiniteSet(gq) /\ Cardinality(gq) <= 0
        BY <1>9, <4>1 DEF Exact
      <4>3. Cardinality(gq) = 0
        BY <4>2, FS_CardinalityType
      <4> QED
        BY <1>8, <4>2, <4>3, FS_EmptySet
    <3> QED
      BY <1>9, <2>1, <2>2, <3>1 DEF Exact
  <2>3. CASE q # G!None /\ ts = G!None
    <3>1. gt = {}
      <4>1. ts.count = 0
        BY <2>3 DEF G!None
      <4>2. IsFiniteSet(gt) /\ Cardinality(gt) <= 0
        BY <1>9, <4>1 DEF Exact
      <4>3. Cardinality(gt) = 0
        BY <4>2, FS_CardinalityType
      <4> QED
        BY <4>2, <4>3, FS_EmptySet
    <3> QED
      BY <1>12, <2>1, <2>3, <3>1 DEF Exact
  <2>4. CASE q # G!None /\ ts # G!None
    BY <1>9, <1>12, <1>14, <2>1, <2>4, Folded
  <2> QED
    BY <2>2, <2>3, <2>4
<1>18. EvidenceOf("t")'
  BY <1>15, <1>16, <1>17 DEF EvidenceOf, Exact
<1>19. EvidenceOf("s")'
  <2>1. sugg'["s"] = G!None
    BY DEF G!MergeSystems
  <2>2. Heard("s")' = {}
    BY <1>1 DEF Heard, G!HomeOf
  <2>3. {G!GroupOf(c) : c \in Heard("s")}' = {}
    BY <2>2
  <2> QED
    BY <2>1, <2>3, FS_EmptySet DEF G!None, EvidenceOf, Exact
<1>20. sugg' = [s \in G!Sys |-> sugg'[s]]
  BY DEF G!MergeSystems, G!Sys
<1> QED
  BY <1>1, <1>5, <1>6, <1>18, <1>19, <1>20 DEF SuggestionsInv, G!Sys

-----------------------------------------------------------------------------
LEMMA SuggestionsStep ==
  ASSUME SuggestionsInv, G!Next
  PROVE  SuggestionsInv'
<1>1. ASSUME \/ \E c \in Recording : G!Write(c)
             \/ \E n \in G!Id : G!Commit(n) \/ G!Abort(n) \/ G!Settles(n)
      PROVE  SuggestionsInv'
  BY <1>1, SuggestionsTranscribe
<1>2. ASSUME NEW p \in Scanner, G!ScanOnce(p) \/ G!ScanFails(p) PROVE SuggestionsInv'
  BY <1>2, SuggestionsFetch, SuggestionsApply, SuggestionsOtherScan DEF G!ScanOnce
<1>3. ASSUME NEW s \in G!Sys, G!ApproveUnitTagSuggestion(s) \/ G!DismissUnitTagSuggestion(s)
      PROVE  SuggestionsInv'
  BY <1>3, SuggestionsReview
<1>4. ASSUME G!MergeSystems PROVE SuggestionsInv'
  BY <1>4, SuggestionsMerge
<1> QED
  BY <1>1, <1>2, <1>3, <1>4 DEF G!Next

\* SuggestionsInv is G!TypeOK and more, and its steps are those of the suggestions.
LEMMA SuggestionsTyped == SuggestionsInv => G!TypeOK
<1> SUFFICES ASSUME SuggestionsInv PROVE G!TypeOK
  OBVIOUS
<1>1. /\ tr \in [G!Id -> [call : Recording, state : {"free", "writing", "visible", "aborted"}]]
      /\ age \in [G!Id -> {"young", "old", "aged"}]
  BY DEF SuggestionsInv, IdsInv
<1>2. cursor \in 0 .. MaxIdSuggestions /\ \A p \in Scanner : scan[p].pc \in {"idle", "fetch", "apply"}
  BY DEF SuggestionsInv, ScannedInv, ScannersInv
<1>3. \A s \in G!Sys : sugg[s].status \in {"none", "pending", "approved", "dismissed"}
  BY DEF SuggestionsInv, EvidenceOf, Exact
<1> QED
  BY <1>1, <1>2, <1>3 DEF SuggestionsInv, G!TypeOK

LEMMA SuggestionsKept ==
  ASSUME SuggestionsInv, [G!Next]_suggestionsVars
  PROVE  SuggestionsInv'
<1>1. CASE UNCHANGED suggestionsVars
  <2>1. UNCHANGED <<tr, age, cursor, sugg, scan, merged, scanned>>
    BY <1>1 DEF suggestionsVars
  <2>2. ScannersInv'
    BY <2>1 DEF SuggestionsInv, ScannersInv, ViewsOf, Passed, Ids, View, G!HomeOf, G!GroupOf
  <2> QED
    BY <2>1, <2>2, ScanningKeeps
<1> QED
  BY <1>1, SuggestionsStep

LEMMA SuggestionsAlways == RecordsSpec => [](part = "suggestions" => SuggestionsInv)
<1> DEFINE Inv == part = "suggestions" => SuggestionsInv
<1>1. RecordsInit => Inv
  BY SuggestionsInit DEF RecordsInit
<1>2. Inv /\ [RecordsNext]_recordsVars => Inv'
  <2> SUFFICES ASSUME Inv, [RecordsNext]_recordsVars, part' = "suggestions" PROVE SuggestionsInv'
    OBVIOUS
  <2>1. part = "suggestions" /\ [G!Next]_suggestionsVars
    BY DEF RecordsNext, recordsVars
  <2> QED
    BY <2>1, SuggestionsKept
<1> QED
  BY <1>1, <1>2, PTL DEF RecordsSpec

\* The cursor of the scanner passes no transcription that was not scanned, but for one whose
\* writer was waited for in vain, in whatever order transactions commit and scanners race and
\* fail (unittags/scanner.go).
THEOREM ScannerSkipsNone == RecordsSpec => [](part = "suggestions" => G!TypeOK /\ G!NoneSkipped)
<1>1. SuggestionsInv => G!TypeOK /\ G!NoneSkipped
  BY SuggestionsTyped, SkippedNone
<1> QED
  BY <1>1, SuggestionsAlways, PTL

\* And a suggestion counts each transmission that was heard, whatever else is transcribed
\* again and whatever is merged, and counts it once as long as it keeps evidence of every
\* call it counted (unit_tag_suggestions.go, systems.go).
THEOREM EvidenceAlwaysExact == RecordsSpec => []EvidenceIsExact
<1>1. SuggestionsInv => G!TypeOK /\ G!EvidenceIsExact
  BY SuggestionsTyped, CountIs, SkippedNone DEF G!EvidenceIsExact
<1>2. (part = "suggestions" => SuggestionsInv) => EvidenceIsExact
  BY <1>1 DEF EvidenceIsExact
<1> QED
  BY <1>2, SuggestionsAlways, PTL
=============================================================================
