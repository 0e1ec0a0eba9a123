---------------------------- MODULE Suggestions ----------------------------
(***************************************************************************)
(* Unit tag suggestions: the scanner that walks the transcriptions from a  *)
(* stored cursor and collects, per unit and name, the calls in which the   *)
(* unit called itself so (internal/unittags/scanner.go), the transactions  *)
(* it works with and the review of what it found                           *)
(* (internal/database/unit_tag_suggestions.go), and the merge of two       *)
(* systems that folds their suggestions together (systems.go).             *)
(*                                                                         *)
(* One unit and one name are followed, said in every transcription.        *)
(* Transactions that write suggestions exclude each other                  *)
(* (unitTagMergeLockKey): each is one action.                              *)
(***************************************************************************)
EXTENDS Naturals, FiniteSets, FiniteSetsExt

CONSTANTS
  Call,          \* recordings, by start time: a set of numbers
  SystemOf,      \* SystemOf[c]: "s" or "t", the system c was recorded in
  Transmission,  \* Transmission[c]: recordings of one transmission share it
  Scanner,       \* processes that scan
  BatchSize, EvidenceCap,
  MaxId,         \* transcriptions
  MaxFaults

Id == 1 .. MaxId
Sys == {"s", "t"}

VARIABLES
  tr,       \* transcriptions: their call, and the state of the writing transaction
  age,      \* of a transcription: "young", "old" (past the settle delay), "aged" (past the window)
  cursor,   \* scan_cursors.last_id
  sugg,     \* per system: the suggestion
  scan,     \* per scanner: what it does, and the batch it read
  merged,
  scanned,  \* transcriptions a committed batch had, with whether they were usable
  faults

vars == <<tr, age, cursor, sugg, scan, merged, scanned, faults>>

None == [status |-> "none", count |-> 0, evidence |-> {}]
Idle == [pc |-> "idle", from |-> 0, batch |-> {}]

TypeOK ==
  /\ tr \in [Id -> [call : Call, state : {"free", "writing", "visible", "aborted"}]]
  /\ age \in [Id -> {"young", "old", "aged"}]
  /\ cursor \in 0 .. MaxId
  /\ \A s \in Sys : sugg[s].status \in {"none", "pending", "approved", "dismissed"}
  /\ \A p \in Scanner : scan[p].pc \in {"idle", "fetch", "apply"}
  /\ merged \in BOOLEAN

Init ==
  /\ tr = [i \in Id |-> [call |-> Min(Call), state |-> "free"]]
  /\ age = [i \in Id |-> "young"]
  /\ cursor = 0
  /\ sugg = [s \in Sys |-> None]
  /\ scan = [p \in Scanner |-> Idle]
  /\ merged = FALSE
  /\ scanned = {}
  /\ faults = 0

\* The system and the call group of a call: the merge moves the calls of "s", into the
\* group of "t" when both have the transmission.
HomeOf(c) == IF merged THEN "t" ELSE SystemOf[c]
InBoth(x) == \A s \in Sys : \E c \in Call : Transmission[c] = x /\ SystemOf[c] = s
GroupAfter(g) == IF g[1] = "s" /\ InBoth(g[2]) THEN <<"t", g[2]>> ELSE g
GroupOf(c) == LET g == <<SystemOf[c], Transmission[c]>> IN IF merged THEN GroupAfter(g) ELSE g

-----------------------------------------------------------------------------
(* Transcriptions are written.  Ids are given in order, transactions end   *)
(* in any order.                                                           *)

Write(c) ==
  /\ \E i \in Id :
       /\ tr[i].state = "free" /\ \A j \in 1 .. i - 1 : tr[j].state # "free"
       /\ tr' = [tr EXCEPT ![i] = [call |-> c, state |-> "writing"]]
  /\ UNCHANGED <<age, cursor, sugg, scan, merged, scanned, faults>>

Commit(i) ==
  /\ tr[i].state = "writing"
  /\ tr' = [tr EXCEPT ![i].state = "visible"]
  /\ UNCHANGED <<age, cursor, sugg, scan, merged, scanned, faults>>

Abort(i) ==
  /\ tr[i].state = "writing" /\ faults < MaxFaults
  /\ faults' = faults + 1
  /\ tr' = [tr EXCEPT ![i].state = "aborted"]
  /\ UNCHANGED <<age, cursor, sugg, scan, merged, scanned>>

\* Time passes: after the settle delay, and, when a transaction stays open for long,
\* after the window in which the scanner waits for it.
Settles(i) ==
  /\ tr[i].state = "visible"
  /\ \/ age[i] = "young" /\ age' = [age EXCEPT ![i] = "old"] /\ UNCHANGED faults
     \/ /\ age[i] = "old" /\ faults < MaxFaults
        /\ \E j \in 1 .. i - 1 : tr[j].state = "writing"
        /\ faults' = faults + 1
        /\ age' = [age EXCEPT ![i] = "aged"]
  /\ UNCHANGED <<tr, cursor, sugg, scan, merged, scanned>>

-----------------------------------------------------------------------------
(* The scanner.                                                            *)

EnsureScanCursor(p) ==
  /\ scan[p].pc = "idle"
  /\ scan' = [scan EXCEPT ![p] = [pc |-> "fetch", from |-> cursor, batch |-> {}]]
  /\ UNCHANGED <<tr, age, cursor, sugg, merged, scanned, faults>>

\* No transaction that may hold a lower id is still open, or it is too old to wait for.
Settled(i) ==
  age[i] = "aged" \/ (age[i] = "old" /\ \A j \in 1 .. i - 1 : tr[j].state # "writing")

\* A transcription counts while it is the newest of its call.
Usable(i) == ~\E j \in Id : j > i /\ tr[j].state = "visible" /\ tr[j].call = tr[i].call

SettledPrefix(page) == {i \in page : \A j \in page : j <= i => Settled(j)}

\* Of the next ids that are visible, the leading settled ones.
FetchTagScanBatch(p) ==
  LET visible == {i \in Id : i > scan[p].from /\ tr[i].state = "visible"}
      page == {i \in visible : Cardinality({j \in visible : j <= i}) <= BatchSize}
      prefix == SettledPrefix(page)
      view(i) == [id |-> i, call |-> tr[i].call, sys |-> HomeOf(tr[i].call),
                  group |-> GroupOf(tr[i].call), usable |-> Usable(i)] IN
  /\ scan[p].pc = "fetch"
  /\ scan' = [scan EXCEPT ![p] = IF prefix = {} THEN Idle
                                 ELSE [@ EXCEPT !.pc = "apply", !.batch = {view(i) : i \in prefix}]]
  /\ UNCHANGED <<tr, age, cursor, sugg, merged, scanned, faults>>

\* Of a set of evidence, the most recent calls.
Newest(ev) == {e \in ev : Cardinality({f \in ev : f.call > e.call}) < EvidenceCap}

Seen(ev, e) == \E f \in ev : f.call = e.call \/ f.group = e.group

\* upsertSightingSQL: a call, or another recording of its transmission, counts once.
UpsertSighting(q, e) ==
  IF Seen(q.evidence, e) THEN q
  ELSE [status |-> IF q.status = "none" THEN "pending" ELSE q.status,
        count |-> q.count + 1, evidence |-> Newest(q.evidence \cup {e})]

\* The suggestion q after the sightings of a batch, in the order of their ids.
Sightings(batch, s) == {v \in batch : v.usable /\ v.sys = s}
UpsertAll(q, seen) ==
  LET upto[n \in 0 .. MaxId] ==
        IF n = 0 THEN q
        ELSE IF \E v \in seen : v.id = n
          THEN LET v == CHOOSE w \in seen : w.id = n
               IN UpsertSighting(upto[n - 1], [call |-> v.call, group |-> v.group])
          ELSE upto[n - 1]
  IN upto[MaxId]

\* The cursor moves and the suggestions are written together; nothing happens when
\* another process moved the cursor, or a system of the batch was merged away.
ApplyUnitTagSightings(p) ==
  LET batch == scan[p].batch
      stale == merged /\ Sightings(batch, "s") # {} IN
  /\ scan[p].pc = "apply"
  /\ IF cursor = scan[p].from /\ ~stale
       THEN /\ cursor' = Max({v.id : v \in batch})
            /\ sugg' = [s \in Sys |-> UpsertAll(sugg[s], Sightings(batch, s))]
            /\ scanned' = scanned \cup {[id |-> v.id, usable |-> v.usable] : v \in batch}
       ELSE UNCHANGED <<cursor, sugg, scanned>>
  /\ scan' = [scan EXCEPT ![p] = Idle]
  /\ UNCHANGED <<tr, age, merged, faults>>

\* A statement fails, or the process ends: the batch is forgotten.
ScanFails(p) ==
  /\ scan[p].pc # "idle" /\ faults < MaxFaults
  /\ faults' = faults + 1
  /\ scan' = [scan EXCEPT ![p] = Idle]
  /\ UNCHANGED <<tr, age, cursor, sugg, merged, scanned>>

-----------------------------------------------------------------------------
(* Review and merge.                                                       *)

ApproveUnitTagSuggestion(s) ==
  /\ sugg[s].status = "pending"
  /\ sugg' = [sugg EXCEPT ![s].status = "approved"]
  /\ UNCHANGED <<tr, age, cursor, scan, merged, scanned, faults>>

DismissUnitTagSuggestion(s) ==
  /\ sugg[s].status = "pending"
  /\ sugg' = [sugg EXCEPT ![s].status = "dismissed"]
  /\ UNCHANGED <<tr, age, cursor, scan, merged, scanned, faults>>

\* A slip: the counts are added up.
FoldAll(r, q) ==
  [status |-> IF q.status = "pending" THEN r.status ELSE q.status,
   count |-> q.count + r.count,
   evidence |-> Newest(q.evidence \cup r.evidence)]

\* The suggestion r folded into q: evidence that q has already is neither kept nor
\* counted, and a decision is kept.
Fold(r, q) ==
  LET fresh == {e \in r.evidence : ~Seen(q.evidence, e)} IN
  [status |-> IF q.status = "pending" THEN r.status ELSE q.status,
   count |-> q.count + r.count - Cardinality(r.evidence \ fresh),
   evidence |-> Newest(q.evidence \cup fresh)]

MergeSystems ==
  LET r == [sugg["s"] EXCEPT !.evidence = {[e EXCEPT !.group = GroupAfter(@)] : e \in @}] IN
  /\ ~merged
  /\ merged' = TRUE
  /\ sugg' = [s |-> None,
              t |-> IF sugg["s"] = None THEN sugg["t"]
                    ELSE IF sugg["t"] = None THEN r ELSE Fold(r, sugg["t"])]
  /\ UNCHANGED <<tr, age, cursor, scan, scanned, faults>>

ScanOnce(p) == EnsureScanCursor(p) \/ FetchTagScanBatch(p) \/ ApplyUnitTagSightings(p)

Next ==
  \/ \E c \in Call : Write(c)
  \/ \E i \in Id : Commit(i) \/ Abort(i) \/ Settles(i)
  \/ \E p \in Scanner : ScanOnce(p) \/ ScanFails(p)
  \/ \E s \in Sys : ApproveUnitTagSuggestion(s) \/ DismissUnitTagSuggestion(s)
  \/ MergeSystems

Spec == Init /\ [][Next]_vars

-----------------------------------------------------------------------------
\* However many sites recorded a transmission, however often its call was transcribed,
\* and whatever was merged, each one that a scanned transcription of the system tells of
\* counts, and it counts once: but when a suggestion has counted more calls than it keeps
\* evidence of, another transcription of a forgotten one counts again.
TransmissionsCountOnce ==
  \A s \in Sys :
    LET heard == Cardinality({Transmission[tr[v.id].call] :
                                v \in {w \in scanned : w.usable /\ HomeOf(tr[w.id].call) = s}})
    IN /\ sugg[s].count >= heard
       /\ sugg[s].count <= EvidenceCap => sugg[s].count = heard

\* The cursor passes no transcription that was not scanned: but for one whose transaction
\* stayed open longer than the window in which the scanner waits.
NoneSkipped ==
  \A i \in 1 .. cursor :
    tr[i].state = "visible" =>
      \/ \E v \in scanned : v.id = i
      \/ \E j \in Id : j > i /\ age[j] = "aged"

\* No step of the scanner or of a merge counts evidence twice or leaves a transcription
\* behind for good.
EvidenceIsExact == TransmissionsCountOnce /\ NoneSkipped
=============================================================================
