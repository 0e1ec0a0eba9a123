--------------------------- MODULE Transcriptions ---------------------------
(***************************************************************************)
(* The transcriptions of one call (internal/database/transcriptions.go,    *)
(* sql/queries/transcriptions.sql): every transcription is a row, one of   *)
(* them marked primary, and the primary's text and status are copied to    *)
(* the call and to its call group.  Workers, ingest handlers that bring a  *)
(* transcript of their own, and the users' corrections and verdicts write  *)
(* at the same time, each in a READ COMMITTED transaction.                 *)
(*                                                                         *)
(* A statement sees what was committed when it began, waits for the rows   *)
(* another transaction has written, and then looks at those rows again.    *)
(* A transaction is its number in the order of BEGIN: created_at, which    *)
(* is now(), orders rows the same way, and the number stands for the text. *)
(***************************************************************************)
EXTENDS Integers, FiniteSets, FiniteSetsExt

CONSTANTS
  MaxTx,         \* bound: how many transactions ever begin
  Sources,       \* sources an InsertTranscription is called with: auto, human, llm
  Verdicts       \* statuses an UpdateCallTranscriptionStatus is called with, never none

\* The CHECK constraint on calls.transcription_status.
Statuses == {"none", "auto", "reviewed", "verified", "excluded", "empty"}

Tx == 1..MaxTx

VARIABLES
  begun,         \* how many transactions have begun
  pc,            \* the next statement of each
  kind,          \* "insert" or "verdict"
  status,        \* the status it writes
  seen,          \* the primary rows its ClearPrimaryTranscription saw
  cleared,       \* the rows it cleared: it holds their locks
  callLock,      \* who holds the lock of the calls row, 0 for nobody
  groupLock,     \* and of the call_groups row
  linked,        \* the call has a call_group_id
  rows,          \* committed: the transcriptions
  primary,       \* those with is_primary
  call,          \* the call's transcription_text and _status
  group,         \* the group's
  missed         \* history: a commit found no group to update

txVars   == <<begun, pc, kind, status, seen, cleared, callLock, groupLock>>
dataVars == <<rows, primary, call, group, missed>>
vars     == <<txVars, linked, dataVars>>

Empty == [text |-> 0, status |-> "none"]

Init ==
  /\ begun = 0
  /\ pc = [t \in Tx |-> "begin"] /\ kind = [t \in Tx |-> "insert"]
  /\ status = [t \in Tx |-> "none"]
  /\ seen = [t \in Tx |-> {}] /\ cleared = [t \in Tx |-> {}]
  /\ callLock = 0 /\ groupLock = 0 /\ linked \in BOOLEAN
  /\ rows = {} /\ primary = {} /\ call = Empty /\ group = Empty
  /\ missed = FALSE

-----------------------------------------------------------------------------
\* The next statement of t writes what u has written, and u is not over: a row its
\* snapshot showed as primary, the call, or the group the call is linked to.
WaitsFor(t, u) ==
  /\ u # t
  /\ \/ pc[t] = "clearing" /\ cleared[u] \cap seen[t] # {}
     \/ pc[t] = "call" /\ callLock = u
     \/ pc[t] = "group" /\ linked /\ groupLock = u

Free(t) == \A u \in Tx : ~WaitsFor(t, u)

Goto(t, next) == pc' = [pc EXCEPT ![t] = next]

\* What the call's status becomes with a transcription of this source.
StatusOf(source) == IF source = "human" THEN "verified" ELSE source

BeginInsert(source) ==
  /\ begun < MaxTx /\ begun' = begun + 1
  /\ kind' = [kind EXCEPT ![begun'] = "insert"]
  /\ status' = [status EXCEPT ![begun'] = StatusOf(source)]
  /\ Goto(begun', "clear")
  /\ UNCHANGED <<seen, cleared, callLock, groupLock, linked, dataVars>>

BeginVerdict(verdict) ==
  /\ begun < MaxTx /\ begun' = begun + 1
  /\ kind' = [kind EXCEPT ![begun'] = "verdict"]
  /\ status' = [status EXCEPT ![begun'] = verdict]
  /\ Goto(begun', "call")
  /\ UNCHANGED <<seen, cleared, callLock, groupLock, linked, dataVars>>

\* ClearPrimaryTranscription begins: its snapshot.
ClearBegins(t) ==
  /\ pc[t] = "clear"
  /\ seen' = [seen EXCEPT ![t] = primary]
  /\ Goto(t, "clearing")
  /\ UNCHANGED <<begun, kind, status, cleared, callLock, groupLock, linked, dataVars>>

\* It has waited for the writers of the rows it saw, and clears those that are
\* still primary.  A row committed since its snapshot it does not see.
ClearEnds(t) ==
  /\ pc[t] = "clearing"
  /\ Free(t)
  /\ cleared' = [cleared EXCEPT ![t] = seen[t] \cap primary]
  /\ Goto(t, "row")
  /\ UNCHANGED <<begun, kind, status, seen, callLock, groupLock, linked, dataVars>>

InsertRow(t) ==
  /\ pc[t] = "row"
  /\ Goto(t, "call")
  /\ UNCHANGED <<begun, kind, status, seen, cleared, callLock, groupLock, linked, dataVars>>

\* Mutant: no CHECK on the status.
UpdateCallUnchecked(t) ==
  /\ pc[t] = "call" /\ Free(t)
  /\ callLock' = t
  /\ Goto(t, "group")
  /\ UNCHANGED <<begun, kind, status, seen, cleared, groupLock, linked, dataVars>>

\* The update of calls, by an insert or a verdict, waits for its row lock.
UpdateCall(t) ==
  /\ pc[t] = "call" /\ Free(t) /\ status[t] \in Statuses
  /\ callLock' = t
  /\ Goto(t, "group")
  /\ UNCHANGED <<begun, kind, status, seen, cleared, groupLock, linked, dataVars>>

\* The update of call_groups; a call without a group has none to update.
UpdateGroup(t) ==
  /\ pc[t] = "group" /\ Free(t)
  /\ groupLock' = IF linked THEN t ELSE groupLock
  /\ Goto(t, "commit")
  /\ UNCHANGED <<begun, kind, status, seen, cleared, callLock, linked, dataVars>>

\* The transaction ends and its locks go.
Release(t) ==
  /\ Goto(t, "ended")
  /\ cleared' = [cleared EXCEPT ![t] = {}]
  /\ callLock' = IF callLock = t THEN 0 ELSE callLock
  /\ groupLock' = IF groupLock = t THEN 0 ELSE groupLock
  /\ UNCHANGED <<begun, kind, status, seen, linked>>

\* What t wrote to the call or the group: a verdict leaves the text alone.
Written(t, old) ==
  [text |-> IF kind[t] = "insert" THEN t ELSE old.text, status |-> status[t]]

\* Mutant: the new row is not marked primary.
CommitSecondary(t) ==
  /\ pc[t] = "commit"
  /\ Release(t)
  /\ rows' = IF kind[t] = "insert" THEN rows \cup {t} ELSE rows
  /\ primary' = primary \ cleared[t]
  /\ call' = Written(t, call)
  /\ group' = IF groupLock = t THEN Written(t, group) ELSE group
  /\ missed' = (missed \/ groupLock # t)

\* Mutant: a verdict does not reach the group.
CommitVerdictOnCall(t) ==
  /\ pc[t] = "commit"
  /\ Release(t)
  /\ IF kind[t] = "insert"
     THEN /\ rows' = rows \cup {t}
          /\ primary' = (primary \ cleared[t]) \cup {t}
     ELSE UNCHANGED <<rows, primary>>
  /\ call' = Written(t, call)
  /\ group' = IF groupLock = t /\ kind[t] = "insert" THEN Written(t, group) ELSE group
  /\ missed' = (missed \/ groupLock # t)

Commit(t) ==
  /\ pc[t] = "commit"
  /\ Release(t)
  /\ IF kind[t] = "insert"
     THEN /\ rows' = rows \cup {t}
          /\ primary' = (primary \ cleared[t]) \cup {t}
     ELSE UNCHANGED <<rows, primary>>
  /\ call' = Written(t, call)
  /\ group' = IF groupLock = t THEN Written(t, group) ELSE group
  /\ missed' = (missed \/ groupLock # t)

\* Mutant: no deferred Rollback, the transaction stays open.
RollbackForgotten(t) ==
  /\ pc[t] \notin {"begin", "ended"}
  /\ Goto(t, "ended")
  /\ UNCHANGED <<begun, kind, status, seen, cleared, callLock, groupLock, linked, dataVars>>

\* The context ends, the connection is lost, or a constraint fails (always,
\* for a status the CHECK does not know).
Rollback(t) ==
  /\ pc[t] \notin {"begin", "ended"}
  /\ Release(t)
  /\ UNCHANGED dataVars

\* SetCallGroupID, by the handler that created the call.
LinkGroup ==
  /\ ~linked /\ callLock = 0
  /\ linked' = TRUE
  /\ UNCHANGED <<txVars, dataVars>>

-----------------------------------------------------------------------------
Statement(t) ==
  \/ ClearBegins(t) \/ ClearEnds(t) \/ InsertRow(t) \/ UpdateCall(t) \/ UpdateGroup(t)
  \/ Commit(t)

CheckFails(t) == pc[t] = "call" /\ status[t] \notin Statuses /\ Rollback(t)

Next ==
  \/ \E s \in Sources : BeginInsert(s)
  \/ \E v \in Verdicts : BeginVerdict(v)
  \/ \E t \in Tx : Statement(t) \/ Rollback(t)
  \/ LinkGroup

\* A transaction whose next statement is not blocked goes on; one the CHECK
\* refuses is rolled back.  No timeout is needed to end any.
Fairness == \A t \in Tx : WF_vars(Statement(t)) /\ WF_vars(CheckFails(t))

Spec == Init /\ [][Next]_vars
FairSpec == Spec /\ Fairness

-----------------------------------------------------------------------------
TypeOK ==
  /\ begun \in 0..MaxTx
  /\ pc \in [Tx -> {"begin", "clear", "clearing", "row", "call", "group", "commit", "ended"}]
  /\ kind \in [Tx -> {"insert", "verdict"}]
  /\ status \in [Tx -> Statuses \cup {"llm"}]
  /\ seen \in [Tx -> SUBSET Tx] /\ cleared \in [Tx -> SUBSET Tx]
  /\ callLock \in {0} \cup Tx /\ groupLock \in {0} \cup Tx /\ linked \in BOOLEAN
  /\ rows \subseteq Tx /\ primary \subseteq rows
  /\ call \in [text : {0} \cup Tx, status : Statuses]
  /\ group \in [text : {0} \cup Tx, status : Statuses]

\* The text the call shows is always that of a row marked primary, and no call
\* with a transcription is left without one (transcriptions.go:164-242).
CallTextIsPrimary ==
  /\ call.text # 0 => call.text \in primary
  /\ rows # {} => call.text # 0

\* A transcription takes the mark from every row that had it when it began:
\* two rows are primary only if neither transaction saw the other, although a
\* statement that waited for a lock still works on its old snapshot.
SeenRowsAreCleared == \A t \in rows : seen[t] \cap primary = {}

\* The group shows what the call shows, once no update has missed it: every
\* transaction writes the call first and the group under the call's lock.
GroupMirrorsCall == linked /\ ~missed => group = call

\* Who is waited for is not over, and of any transactions one waits for none of the
\* others: rows, call and group are locked in the same order everywhere, and the locks
\* go with the transaction, so there is no deadlock for PostgreSQL to break.
NobodyWaitsInACircle ==
  /\ \A t, u \in Tx : WaitsFor(t, u) => pc[u] \notin {"begin", "ended"}
  /\ \A W \in SUBSET Tx : W # {} => \E t \in W : \A u \in W : ~WaitsFor(t, u)

\* Every transaction ends without a timeout.
TransactionsEnd == []<>(\A t \in Tx : begun >= t => pc[t] = "ended")

\* The text on the call is the primary transcription's (openapi.yaml:4939),
\* which is the newest row marked primary (GetPrimaryTranscription).
CallTextIsServed == primary # {} => call.text = Max(primary)
=============================================================================
