------------------------------ MODULE Calls_proofs ------------------------------
(***************************************************************************)
(* What Calls promises of the rows of a call, for any number of            *)
(* transmissions, any tolerance and any losses, failures and restarts, of  *)
(* the plans in which the transmissions of a talkgroup are further apart   *)
(* than the tolerance (Apart): closer ones do mix, as the code has it (run *)
(* calls_back_to_back).                                                    *)
(***************************************************************************)
EXTENDS Calls, SequenceTheorems, FiniteSetTheorems, WellFoundedInduction, TLAPS

-----------------------------------------------------------------------------
(* What is assumed of a behaviour's plan                                   *)

\* Two transmissions of one talkgroup are further apart than the lookups' tolerance, as
\* trunk-recorder knows their starts first and last.
Apart ==
  \A t, u \in Txs : t # u /\ Tgid(t) = Tgid(u) =>
    \A a \in {StartAt(t), FinalAt(t)}, b \in {StartAt(u), FinalAt(u)} : Dist(a, b) > Window

\* A start is corrected by no more than that.
Corrected == \A t \in Txs : Dist(StartAt(t), FinalAt(t)) <= Window

-----------------------------------------------------------------------------
(* The inductive invariant, in named parts                                 *)

Row == [tgid : Nat, start : Nat, id : Ids, full : BOOLEAN, by : SUBSET Txs, seen : Nat,
        end : {"open", "estimated", "audio", "full"}]

Handling == [pc : {"start insert", "end retry", "end insert", "audio retry", "audio insert"},
             tx : Txs, seen : Nat]

Watching == [pc : {"retry"}, tx : Txs] \cup [pc : {"insert"}, tx : Txs, seen : Nat]

TypeInv ==
  /\ TypeOK
  /\ mqtt = Idle \/ mqtt \in Handling
  /\ watcher = Idle \/ watcher \in Watching
  /\ snapshot = None \/ snapshot.onAir \subseteq Txs

\* Row r is that of t: only handlers of t took it for theirs, and what the lookups
\* compare is t's.
RowOf(r, t) ==
  /\ rows[r].by = {t} /\ rows[r].tgid = Tgid(t)
  /\ rows[r].start \in {StartAt(t), FinalAt(t)}
  /\ rows[r].id \in {NoId, StartId(t), EndId(t)}

RowsOwned == \A r \in DOMAIN rows : \E t \in Txs : RowOf(r, t)

EntryOf(k, t) ==
  /\ k = StartId(t) /\ active[k].row \in DOMAIN rows
  /\ RowOf(active[k].row, t)
  /\ active[k].tgid = Tgid(t) /\ active[k].start = rows[active[k].row].start

ActiveOwned == \A k \in DOMAIN active : \E t \in Txs : EntryOf(k, t)

OwnInv == TypeInv /\ Apart /\ RowsOwned /\ ActiveOwned

\* A handler about to insert a row saw every row of its transmission that was there
\* when it looked: none.
NoneSeen(t, n) == n <= Len(rows) /\ \A r \in DOMAIN rows : r <= n => rows[r].by # {t}

InsertsUnseen ==
  /\ mqtt \in Handling => NoneSeen(mqtt.tx, mqtt.seen)
  /\ watcher.pc = "insert" => NoneSeen(watcher.tx, watcher.seen)

\* The list of live calls points at rows that call_end has not completed, but for late
\* call_starts; a call_end that found no row has no entry there.
ActiveNotFull ==
  \A k \in DOMAIN active :
    rows[active[k].row].full => rows[active[k].row].by \cap startLate # {}

EndHasNoEntry ==
  mqtt.pc \in {"end retry", "end insert"} => StartId(mqtt.tx) \notin DOMAIN active

RaceInv ==
  /\ OwnInv /\ Corrected
  /\ InsertsUnseen /\ SecondRowRaced
  /\ ActiveNotFull /\ EndHasNoEntry /\ FullEndKept

-----------------------------------------------------------------------------
(* Facts about the operators                                               *)

\* A set of naturals that is not empty has a least element.
LEMMA LeastNatural ==
  ASSUME NEW T \in SUBSET Nat, T # {}
  PROVE  \E x \in T : \A y \in T : x <= y
<1> DEFINE R == {ss \in Nat \X Nat : ss[1] < ss[2]}
<1>1. IsWellFoundedOn(R, Nat)
  BY NatLessThanWellFounded DEF OpToRel
<1>2. \E x \in T : \A y \in T : ~ (<<y, x>> \in R)
  <2> HIDE DEF R
  <2> QED BY <1>1, WFMin
<1>3. PICK x \in T : \A y \in T : ~ (<<y, x>> \in R)
  BY <1>2
<1>4. ASSUME NEW y \in T PROVE x <= y
  <2>1. <<y, x>> \in Nat \X Nat /\ ~ (<<y, x>> \in R)
    BY <1>3
  <2>2. ~ (y < x)
    BY <2>1
  <2> QED BY <2>2
<1> QED BY <1>4

\* Of a set that is not empty, one element is closest.
LEMMA Closest ==
  ASSUME NEW S, NEW d \in [S -> Nat], S # {}
  PROVE  \E x \in S : \A y \in S : d[x] <= d[y]
<1> DEFINE T == {d[y] : y \in S}
<1>1. T \in SUBSET Nat /\ T # {}
  OBVIOUS
<1>2. PICK n \in T : \A m \in T : n <= m
  <2> HIDE DEF T
  <2> QED BY <1>1, LeastNatural
<1> QED BY <1>2

LEMMA DistType ==
  \A a, b \in Nat : Dist(a, b) \in Nat /\ Dist(a, b) = Dist(b, a) /\ Dist(a, a) = 0
BY DEF Dist

\* The calls table is a sequence of rows.
LEMMA RowsType ==
  ASSUME TypeInv
  PROVE  /\ rows \in Seq(Row) /\ Len(rows) \in Nat /\ DOMAIN rows = 1..Len(rows)
         /\ \A r \in DOMAIN rows : rows[r] \in Row /\ rows[r].start \in Nat
                                    /\ rows[r].tgid \in Nat
<1>1. rows \in Seq(Row)
  BY DEF TypeInv, TypeOK, Row
<1>2. Len(rows) \in Nat /\ DOMAIN rows = 1..Len(rows) /\ \A r \in DOMAIN rows : rows[r] \in Row
  BY <1>1
<1>3. \A x \in Row : x.start \in Nat /\ x.tgid \in Nat
  BY DEF Row
<1> QED BY <1>1, <1>2, <1>3

\* What a plan says is well typed.
LEMMA AirType ==
  ASSUME plan \in Plans, NEW t \in Txs
  PROVE  /\ Tgid(t) \in Nat \ {0} /\ StartAt(t) \in Nat /\ FinalAt(t) \in Nat
         /\ StartId(t) \in Ids /\ EndId(t) \in Ids /\ NoId \in Ids
         /\ StartId(t) # NoId /\ EndId(t) # NoId
         /\ Window \in Nat /\ plan.restarts \in Nat
<1>1. /\ plan.restarts \in Nat
      /\ plan.air[t].tgid \in Nat \ {0} /\ plan.air[t].start \in Nat
      /\ plan.air[t].final \in Nat /\ Window \in Nat
  BY InputsAssumption
<1>2. StartId(t) \in Ids /\ EndId(t) \in Ids /\ NoId \in Ids
  BY DEF Ids
<1> QED BY <1>1, <1>2 DEF Tgid, StartAt, FinalAt, StartId, EndId, NoId

\* A lookup by time that finds nothing says that there is nothing near.
LEMMA NothingNear ==
  ASSUME TypeInv, NEW tgid, NEW at \in Nat, FindCallForAudio(tgid, at) = {}
  PROVE  \A r \in DOMAIN rows : ~ (rows[r].tgid = tgid /\ Dist(rows[r].start, at) <= Window)
<1> DEFINE near == {r \in DOMAIN rows : rows[r].tgid = tgid /\ Dist(rows[r].start, at) <= Window}
<1>1. SUFFICES ASSUME near # {} PROVE FALSE
  OBVIOUS
<1> DEFINE d == [r \in near |-> Dist(rows[r].start, at)]
<1>2. \A r \in near : rows[r].start \in Nat
  BY RowsType
<1>3. d \in [near -> Nat]
  BY <1>2, DistType
<1>4. PICK r \in near : \A s \in near : d[r] <= d[s]
  <2> HIDE DEF d, near
  <2> QED BY <1>1, <1>3, Closest
<1>5. r \in FindCallForAudio(tgid, at)
  BY <1>4 DEF FindCallForAudio
<1> QED BY <1>5

\* And what it finds is near.
LEMMA FoundIsNear ==
  ASSUME NEW tgid, NEW at, NEW r \in FindCallForAudio(tgid, at)
  PROVE  r \in DOMAIN rows /\ rows[r].tgid = tgid /\ Dist(rows[r].start, at) <= Window
BY DEF FindCallForAudio

\* Near in time on one talkgroup is the same transmission.
LEMMA NearIsSame ==
  ASSUME plan \in Plans, Apart, NEW t \in Txs, NEW u \in Txs, Tgid(t) = Tgid(u),
         NEW a \in {StartAt(t), FinalAt(t)}, NEW b \in {StartAt(u), FinalAt(u)},
         Dist(a, b) <= Window
  PROVE  t = u
<1>1. Dist(a, b) \in Nat /\ Window \in Nat
  BY AirType, DistType
<1> QED BY <1>1 DEF Apart

\* The two starts of a transmission are within the tolerance of each other.
LEMMA OwnIsNear ==
  ASSUME plan \in Plans, NEW t \in Txs, NEW a \in {StartAt(t), FinalAt(t)}
  PROVE  /\ a \in Nat /\ Dist(a, a) <= Window
         /\ Corrected => \A b \in {StartAt(t), FinalAt(t)} : Dist(a, b) <= Window
<1>1. a \in Nat /\ StartAt(t) \in Nat /\ FinalAt(t) \in Nat /\ Window \in Nat
  BY AirType
<1>2. Dist(a, a) = 0 /\ 0 <= Window
  BY <1>1, DistType
<1>3. Dist(FinalAt(t), FinalAt(t)) = 0 /\ Dist(StartAt(t), StartAt(t)) = 0
      /\ Dist(FinalAt(t), StartAt(t)) = Dist(StartAt(t), FinalAt(t))
  BY <1>1, DistType
<1> QED BY <1>1, <1>2, <1>3 DEF Corrected

\* A row found by time is the transmission's own.
LEMMA FoundIsOwn ==
  ASSUME OwnInv, NEW t \in Txs, NEW at \in {StartAt(t), FinalAt(t)},
         NEW r \in FindCallForAudio(Tgid(t), at)
  PROVE  r \in DOMAIN rows /\ RowOf(r, t)
<1>1. r \in DOMAIN rows /\ rows[r].tgid = Tgid(t) /\ Dist(rows[r].start, at) <= Window
  BY FoundIsNear
<1>2. PICK u \in Txs : RowOf(r, u)
  BY <1>1 DEF OwnInv, RowsOwned
<1>3. u = t
  BY <1>1, <1>2, NearIsSame DEF OwnInv, RowOf, TypeInv, TypeOK
<1> QED BY <1>1, <1>2, <1>3

\* So is one found by its id.
LEMMA KnownIsOwn ==
  ASSUME OwnInv, NEW t \in Txs, NEW r \in FindCallByTrCallID(EndId(t), FinalAt(t))
  PROVE  r \in DOMAIN rows /\ RowOf(r, t)
<1> USE DEF OwnInv, TypeInv, TypeOK
<1>1. r \in DOMAIN rows /\ rows[r].id = EndId(t)
  BY DEF FindCallByTrCallID
<1>2. PICK u \in Txs : RowOf(r, u)
  BY <1>1 DEF RowsOwned
<1>3. rows[r].id # NoId
  BY <1>1, AirType
<1>4. PICK b \in {StartAt(u), FinalAt(u)} : EndId(t) = <<Tgid(u), b>>
  BY <1>1, <1>2, <1>3 DEF RowOf, StartId, EndId
<1>5. Tgid(t) = Tgid(u) /\ b = FinalAt(t)
  BY <1>4 DEF EndId
<1>6. Dist(FinalAt(t), b) <= Window
  BY <1>5, OwnIsNear
<1>7. t = u
  BY <1>5, <1>6, NearIsSame
<1> QED BY <1>1, <1>2, <1>7

\* And the entry that call_end closes.
EndKeys(t) == IF EndId(t) \in DOMAIN active THEN {EndId(t)}
              ELSE FindByTgidAndTime(Tgid(t), FinalAt(t))

LEMMA KeyIsOwn ==
  ASSUME OwnInv, NEW t \in Txs, NEW k \in EndKeys(t)
  PROVE  k \in DOMAIN active /\ EntryOf(k, t)
<1> USE DEF OwnInv, TypeInv, TypeOK
<1>1. k \in DOMAIN active /\ (k = EndId(t) \/ k \in FindByTgidAndTime(Tgid(t), FinalAt(t)))
  BY DEF EndKeys, FindByTgidAndTime
<1>2. PICK u \in Txs : EntryOf(k, u)
  BY <1>1 DEF ActiveOwned
<1>3. CASE k = EndId(t)
  <2>1. <<Tgid(t), FinalAt(t)>> = <<Tgid(u), StartAt(u)>>
    BY <1>2, <1>3 DEF EntryOf, StartId, EndId
  <2>2. Dist(FinalAt(t), StartAt(u)) <= Window
    BY <2>1, OwnIsNear
  <2>3. t = u
    BY <2>1, <2>2, NearIsSame
  <2> QED BY <1>1, <1>2, <2>3
<1>4. CASE k \in FindByTgidAndTime(Tgid(t), FinalAt(t))
  <2>1. active[k].tgid = Tgid(t) /\ Dist(active[k].start, FinalAt(t)) <= Window
    BY <1>4 DEF FindByTgidAndTime
  <2>2. Tgid(t) = Tgid(u) /\ active[k].start \in {StartAt(u), FinalAt(u)}
    BY <1>2, <2>1 DEF EntryOf, RowOf
  <2>3. t = u
    BY <2>1, <2>2, NearIsSame
  <2> QED BY <1>1, <1>2, <2>3
<1> QED BY <1>1, <1>3, <1>4

\* A call_end that finds no entry has none: the entry of its call would be near.
LEMMA NoKeyNoEntry ==
  ASSUME OwnInv, Corrected, NEW t \in Txs, EndKeys(t) = {}
  PROVE  StartId(t) \notin DOMAIN active
<1> USE DEF OwnInv, TypeInv, TypeOK
<1> DEFINE at == FinalAt(t)
           near == {k \in DOMAIN active : active[k].tgid = Tgid(t)
                                          /\ Dist(active[k].start, at) <= Window}
           first == {k \in near : active[k].start <= at}
           best == IF first # {} THEN first ELSE near
           d == [k \in best |-> Dist(active[k].start, at)]
<1>1. SUFFICES ASSUME StartId(t) \in DOMAIN active PROVE FALSE
  OBVIOUS
<1>2. \A k \in DOMAIN active : active[k].start \in Nat
  BY RowsType DEF ActiveOwned, EntryOf
<1>3. StartId(t) \in near
  <2>1. PICK u \in Txs : EntryOf(StartId(t), u)
    BY <1>1 DEF ActiveOwned
  <2>2. Tgid(t) = Tgid(u) /\ StartAt(t) = StartAt(u)
    BY <2>1 DEF EntryOf, StartId
  <2>3. Dist(StartAt(t), StartAt(u)) <= Window
    BY <2>2, OwnIsNear
  <2>4. t = u
    BY <2>2, <2>3, NearIsSame
  <2>5. active[StartId(t)].tgid = Tgid(t) /\ active[StartId(t)].start \in {StartAt(t), FinalAt(t)}
    BY <2>1, <2>4 DEF EntryOf, RowOf
  <2>6. Dist(active[StartId(t)].start, at) <= Window
    BY <2>5, OwnIsNear
  <2> QED BY <1>1, <2>5, <2>6
<1>4. best # {} /\ best \subseteq DOMAIN active
  BY <1>3
<1>5. d \in [best -> Nat]
  BY <1>2, <1>4, AirType, DistType
<1>6. PICK k \in best : \A j \in best : d[k] <= d[j]
  <2> HIDE DEF d, best
  <2> QED BY <1>4, <1>5, Closest
<1>7. k \in FindByTgidAndTime(Tgid(t), at)
  BY <1>6 DEF FindByTgidAndTime
<1>8. FindByTgidAndTime(Tgid(t), at) = {}
  BY DEF EndKeys
<1> QED BY <1>7, <1>8

\* A lookup that finds nothing has seen no row of its transmission.
LEMMA NothingSeen ==
  ASSUME OwnInv, Corrected, NEW t \in Txs, NEW at \in {StartAt(t), FinalAt(t)},
         FindCallForAudio(Tgid(t), at) = {}
  PROVE  NoneSeen(t, Len(rows))
<1> USE DEF OwnInv
<1>1. Len(rows) \in Nat /\ at \in Nat
  BY RowsType, OwnIsNear DEF TypeInv, TypeOK
<1>2. ASSUME NEW r \in DOMAIN rows, rows[r].by = {t} PROVE FALSE
  <2>1. PICK u \in Txs : RowOf(r, u)
    BY DEF RowsOwned
  <2>2. u = t
    BY <1>2, <2>1 DEF RowOf
  <2>3. rows[r].tgid = Tgid(t) /\ rows[r].start \in {StartAt(t), FinalAt(t)}
    BY <2>1, <2>2 DEF RowOf
  <2>4. Dist(rows[r].start, at) <= Window
    BY <2>3, OwnIsNear DEF TypeInv, TypeOK
  <2> QED BY <1>1, <2>3, <2>4, NothingNear
<1> QED BY <1>1, <1>2 DEF NoneSeen

-----------------------------------------------------------------------------
(* Types                                                                   *)

\* No step changes the plan, nor what is made of it.
LEMMA PlanStays ==
  ASSUME [Next]_vars
  PROVE  plan' = plan
BY DEF Next, vars, radioVars, Radio, Report, Handle, Files, Transmit, EndOfTransmission,
       ReportActive, Take, Go, CallStart, CallStartInsert, CallEnd, CallEndRetry,
       CallEndInsert, Audio, AudioRetry, AudioInsert, CallsActive, Abandon, FileVars, File,
       FileRetry, FileInsert, FileFails, Restart

LEMMA PlanMakes ==
  ASSUME plan' = plan
  PROVE  /\ Ids' = Ids /\ Row' = Row /\ Filed' = Filed
         /\ Apart' <=> Apart
         /\ Corrected' <=> Corrected
         /\ \A t : /\ StartId(t)' = StartId(t) /\ EndId(t)' = EndId(t) /\ Tgid(t)' = Tgid(t)
                   /\ StartAt(t)' = StartAt(t) /\ FinalAt(t)' = FinalAt(t)
<1>1. \A t : /\ StartId(t)' = StartId(t) /\ EndId(t)' = EndId(t) /\ Tgid(t)' = Tgid(t)
             /\ StartAt(t)' = StartAt(t) /\ FinalAt(t)' = FinalAt(t)
  BY DEF StartId, EndId, Tgid, StartAt, FinalAt
<1>2. Filed' = Filed
  BY DEF Filed
<1>3. Ids' = Ids /\ Row' = Row
  BY <1>1 DEF Ids, Row
<1>4. (Apart' <=> Apart) /\ (Corrected' <=> Corrected)
  BY <1>1 DEF Apart, Corrected
<1> QED BY <1>1, <1>2, <1>3, <1>4

\* A function on 1..n with values in S is a sequence of n elements of S.
LEMMA SequenceOf ==
  ASSUME NEW S, NEW n \in Nat, NEW f, f = [i \in 1..n |-> f[i]], \A i \in 1..n : f[i] \in S
  PROVE  f \in Seq(S) /\ Len(f) = n
OBVIOUS

\* The rows a statement writes: one more, or changed ones.
LEMMA InsertIs ==
  ASSUME TypeInv, NEW t \in Txs, NEW at, NEW id, NEW end, NEW seen,
         InsertCall(t, at, id, end, seen)
  PROVE  /\ Len(rows') = Len(rows) + 1 /\ DOMAIN rows' = 1..(Len(rows) + 1)
         /\ \A r \in DOMAIN rows : rows'[r] = rows[r]
         /\ rows'[Len(rows) + 1] = [tgid |-> Tgid(t), start |-> at, id |-> id, end |-> end,
                                    full |-> end = "full", by |-> {t}, seen |-> seen]
         /\ (at \in Nat /\ id \in Ids /\ seen \in Nat /\ end \in {"open", "audio", "full"})
              => rows' \in Seq(Row)
<1> DEFINE new == [tgid |-> Tgid(t), start |-> at, id |-> id, end |-> end,
                   full |-> end = "full", by |-> {t}, seen |-> seen]
<1>1. rows' = Append(rows, new)
  BY DEF InsertCall
<1>2. ASSUME at \in Nat, id \in Ids, seen \in Nat, end \in {"open", "audio", "full"}
      PROVE  rows' \in Seq(Row)
  <2>1. Tgid(t) \in Nat
    BY AirType DEF TypeInv, TypeOK
  <2>2. new \in Row
    BY <1>2, <2>1 DEF Row
  <2> HIDE DEF new
  <2> QED BY <1>1, <2>2, RowsType
<1> HIDE DEF new
<1>3. /\ Len(rows') = Len(rows) + 1 /\ DOMAIN rows' = 1..(Len(rows) + 1)
      /\ \A r \in DOMAIN rows : rows'[r] = rows[r]
      /\ rows'[Len(rows) + 1] = new
  BY <1>1, RowsType
<1> QED BY <1>2, <1>3 DEF new

LEMMA EndIs ==
  ASSUME TypeInv, NEW t \in Txs, NEW r \in DOMAIN rows, UpdateCallEnd(r, t)
  PROVE  /\ Len(rows') = Len(rows) /\ DOMAIN rows' = DOMAIN rows /\ rows' \in Seq(Row)
         /\ \A s \in DOMAIN rows : s # r => rows'[s] = rows[s]
         /\ rows'[r] = [rows[r] EXCEPT !.end = "full", !.full = TRUE, !.by = @ \cup {t}]
<1>1. /\ DOMAIN rows' = DOMAIN rows
      /\ \A s \in DOMAIN rows : s # r => rows'[s] = rows[s]
      /\ rows'[r] = [rows[r] EXCEPT !.end = "full", !.full = TRUE, !.by = @ \cup {t}]
  BY DEF UpdateCallEnd
<1>2. \A s \in 1..Len(rows) : rows'[s] \in Row
  <2>1. \A x \in Row : [x EXCEPT !.end = "full", !.full = TRUE, !.by = @ \cup {t}] \in Row
    BY DEF Row
  <2>2. rows'[r] \in Row
    BY <1>1, <2>1, RowsType
  <2> QED BY <1>1, <2>2, RowsType
<1>3. rows' = [s \in 1..Len(rows) |-> rows'[s]]
  BY RowsType DEF UpdateCallEnd
<1>4. rows' \in Seq(Row) /\ Len(rows') = Len(rows)
  BY <1>2, <1>3, RowsType, SequenceOf
<1> QED BY <1>1, <1>4

LEMMA AudioIs ==
  ASSUME TypeInv, NEW t \in Txs, NEW r \in DOMAIN rows, UpdateCallAudio(r, t)
  PROVE  /\ Len(rows') = Len(rows) /\ DOMAIN rows' = DOMAIN rows /\ rows' \in Seq(Row)
         /\ \A s \in DOMAIN rows : s # r => rows'[s] = rows[s]
         /\ rows'[r] = [rows[r] EXCEPT !.by = @ \cup {t}]
<1>1. /\ DOMAIN rows' = DOMAIN rows
      /\ \A s \in DOMAIN rows : s # r => rows'[s] = rows[s]
      /\ rows'[r] = [rows[r] EXCEPT !.by = @ \cup {t}]
  BY DEF UpdateCallAudio
<1>2. \A s \in 1..Len(rows) : rows'[s] \in Row
  <2>1. \A x \in Row : [x EXCEPT !.by = @ \cup {t}] \in Row
    BY DEF Row
  <2> QED BY <1>1, <2>1, RowsType
<1>3. rows' = [s \in 1..Len(rows) |-> rows'[s]]
  BY RowsType DEF UpdateCallAudio
<1>4. rows' \in Seq(Row) /\ Len(rows') = Len(rows)
  BY <1>2, <1>3, RowsType, SequenceOf
<1> QED BY <1>1, <1>4

LEMMA InitType == Init => TypeInv
<1> SUFFICES ASSUME Init PROVE TypeInv
  OBVIOUS
<1>1. plan.restarts \in Nat
  BY InputsAssumption DEF Init
<1>2. DOMAIN active = {}
  BY DEF Init
<1> QED BY <1>1, <1>2 DEF Init, TypeInv, TypeOK, Idle, None

\* calls_active and call_start change one field of a row each.
LEMMA EstimateIs ==
  ASSUME TypeInv, NEW S,
         rows' = [r \in DOMAIN rows |->
                    IF r \in S THEN [rows[r] EXCEPT !.end = "estimated"] ELSE rows[r]]
  PROVE  /\ Len(rows') = Len(rows) /\ DOMAIN rows' = DOMAIN rows /\ rows' \in Seq(Row)
         /\ \A r \in DOMAIN rows :
              \/ r \in S /\ rows'[r] = [rows[r] EXCEPT !.end = "estimated"]
              \/ r \notin S /\ rows'[r] = rows[r]
<1>1. \A x \in Row : [x EXCEPT !.end = "estimated"] \in Row
  BY DEF Row
<1>2. \A r \in 1..Len(rows) : rows'[r] \in Row
  BY <1>1, RowsType
<1> QED BY <1>2, RowsType

LEMMA StartIs ==
  ASSUME TypeInv, NEW t \in Txs, NEW r \in DOMAIN rows,
         rows' = [rows EXCEPT ![r].id = StartId(t), ![r].by = @ \cup {t}]
  PROVE  /\ Len(rows') = Len(rows) /\ DOMAIN rows' = DOMAIN rows /\ rows' \in Seq(Row)
         /\ \A s \in DOMAIN rows : s # r => rows'[s] = rows[s]
         /\ rows'[r] = [rows[r] EXCEPT !.id = StartId(t), !.by = @ \cup {t}]
<1>1. /\ DOMAIN rows' = DOMAIN rows
      /\ \A s \in DOMAIN rows : s # r => rows'[s] = rows[s]
      /\ rows'[r] = [rows[r] EXCEPT !.id = StartId(t), !.by = @ \cup {t}]
  OBVIOUS
<1>2. \A s \in 1..Len(rows) : rows'[s] \in Row
  <2>1. StartId(t) \in Ids
    BY AirType DEF TypeInv, TypeOK
  <2>2. \A x \in Row : [x EXCEPT !.id = StartId(t), !.by = @ \cup {t}] \in Row
    BY <2>1 DEF Row
  <2> QED BY <1>1, <2>2, RowsType
<1>3. rows' = [s \in 1..Len(rows) |-> rows'[s]]
  BY RowsType
<1>4. Len(rows) \in Nat
  BY RowsType
<1>5. rows' \in Seq(Row) /\ Len(rows') = Len(rows)
  BY ONLY <1>2, <1>3, <1>4, SequenceOf
<1> QED BY <1>1, <1>5

LEMMA TrackIs ==
  ASSUME NEW t, NEW r, Track(t, r)
  PROVE  /\ DOMAIN active' = DOMAIN active \cup {StartId(t)}
         /\ \A k \in DOMAIN active : k # StartId(t) => active'[k] = active[k]
         /\ active'[StartId(t)] = [row |-> r, tgid |-> Tgid(t), start |-> rows'[r].start]
         /\ active'[StartId(t)].row = r
BY DEF Track

LEMMA UntrackIs ==
  ASSUME NEW keys, Untrack(keys)
  PROVE  /\ DOMAIN active' = DOMAIN active \ keys
         /\ \A k \in DOMAIN active' : active'[k] = active[k]
BY DEF Untrack, Restrict

\* A message that waits, and what its handler leaves alone.
LEMMA TakeIs ==
  ASSUME TypeInv, NEW kind, NEW t \in Txs, Take(kind, t)
  PROVE  /\ inbox' \subseteq inbox /\ UNCHANGED <<radioVars, snapshot, watcher, filed, restarts, wronged>>
         /\ mqtt = Idle
BY DEF Take

\* The steps of a handler of t.
LEMMA HandlerSteps ==
  ASSUME TypeInv, NEW t \in Txs, Handle(t)
  PROVE  /\ mqtt' = Idle \/ mqtt' \in Handling
         /\ rows' \in Seq(Row) /\ DOMAIN active' \subseteq Ids /\ startLate' \subseteq Txs
         /\ inbox' \subseteq inbox
         /\ UNCHANGED <<radioVars, snapshot, watcher, filed, restarts, wronged>>
<1> DEFINE Goal == /\ mqtt' = Idle \/ mqtt' \in Handling
                   /\ rows' \in Seq(Row) /\ DOMAIN active' \subseteq Ids /\ startLate' \subseteq Txs
                   /\ inbox' \subseteq inbox
                   /\ UNCHANGED <<radioVars, snapshot, watcher, filed, restarts, wronged>>
<1>1. /\ DOMAIN active \subseteq Ids /\ startLate \subseteq Txs /\ plan \in Plans
      /\ mqtt = Idle \/ mqtt \in Handling
  BY DEF TypeInv, TypeOK
<1>2. StartId(t) \in Ids /\ EndId(t) \in Ids /\ NoId \in Ids /\ StartAt(t) \in Nat /\ FinalAt(t) \in Nat
  BY <1>1, AirType
<1>3. ASSUME NEW pc \in {"start insert", "end retry", "end insert", "audio retry", "audio insert"},
             GoOn(pc, t)
      PROVE  mqtt' \in Handling
  BY <1>3, RowsType DEF GoOn, Handling
<1>4. ASSUME NEW kind, Take(kind, t)
      PROVE  inbox' \subseteq inbox /\ UNCHANGED <<radioVars, snapshot, watcher, filed, restarts, wronged>>
  BY <1>4 DEF Take
<1>5. ASSUME NEW pc, Go(pc, t), pc # "idle"
      PROVE  /\ inbox' \subseteq inbox /\ UNCHANGED <<radioVars, snapshot, watcher, filed, restarts, wronged>>
             /\ mqtt.seen \in Nat
  <2>1. mqtt # Idle
    BY <1>5 DEF Go, Idle
  <2>2. mqtt.seen \in Nat
    BY <1>1, <2>1 DEF Handling
  <2> QED BY <1>5, <2>2 DEF Go
<1>6. ASSUME CallStart(t) PROVE Goal
  <2>1. /\ inbox' \subseteq inbox /\ UNCHANGED <<radioVars, snapshot, watcher, filed, restarts, wronged>>
        /\ startLate' \subseteq Txs
    BY <1>1, <1>4, <1>6 DEF CallStart
  <2>2. mqtt' = Idle \/ mqtt' \in Handling
    BY <1>3, <1>6 DEF CallStart, Done
  <2>3. rows' \in Seq(Row)
    BY <1>6, StartIs, FoundIsNear, RowsType DEF CallStart
  <2>4. DOMAIN active' \subseteq Ids
    BY <1>1, <1>2, <1>6, TrackIs DEF CallStart
  <2> QED BY <2>1, <2>2, <2>3, <2>4
<1>7. ASSUME CallStartInsert(t) PROVE Goal
  <2>1. /\ Go("start insert", t) /\ InsertCall(t, StartAt(t), StartId(t), "open", mqtt.seen)
        /\ mqtt' = Idle /\ UNCHANGED startLate
        /\ Track(t, Len(rows) + 1)
    BY <1>7 DEF CallStartInsert, Done
  <2>2. rows' \in Seq(Row)
    BY ZenonT(30), <1>2, <1>5, <2>1, InsertIs
  <2> QED BY <1>1, <1>2, <1>5, <2>1, <2>2, TrackIs
<1>8. ASSUME CallEnd(t) PROVE Goal
  <2>1. PICK r : UpdateCallEnd(r, t) \/ UNCHANGED rows
    BY <1>8 DEF CallEnd
  <2>2. rows' \in Seq(Row)
    <3>1. CASE r \in DOMAIN rows
      BY <2>1, <3>1, EndIs, RowsType
    <3>2. CASE r \notin DOMAIN rows
      <4>1. UNCHANGED rows
        BY <2>1, <3>2, RowsType DEF UpdateCallEnd
      <4> QED BY <4>1, RowsType
    <3> QED BY <3>1, <3>2
  <2>3. DOMAIN active' \subseteq Ids
    BY <1>1, <1>8, UntrackIs DEF CallEnd
  <2>4. mqtt' = Idle \/ mqtt' \in Handling
    BY <1>3, <1>8 DEF CallEnd, Done
  <2>5. inbox' \subseteq inbox /\ UNCHANGED <<radioVars, snapshot, watcher, filed, restarts, wronged, startLate>>
    BY <1>4, <1>8 DEF CallEnd
  <2> QED BY <1>1, <2>2, <2>3, <2>4, <2>5
<1>9. ASSUME CallEndRetry(t) PROVE Goal
  BY <1>1, <1>3, <1>5, <1>9, EndIs, FoundIsNear, RowsType DEF CallEndRetry, Done
<1>10. ASSUME CallEndInsert(t) PROVE Goal
  <2>1. /\ Go("end insert", t) /\ InsertCall(t, FinalAt(t), EndId(t), "full", mqtt.seen)
        /\ mqtt' = Idle /\ UNCHANGED startLate
        /\ UNCHANGED active
    BY <1>10 DEF CallEndInsert, Done
  <2>2. rows' \in Seq(Row)
    BY ZenonT(30), <1>2, <1>5, <2>1, InsertIs
  <2> QED BY <1>1, <1>2, <1>5, <2>1, <2>2, TrackIs
<1>11. ASSUME Audio(t) PROVE Goal
  BY <1>1, <1>3, <1>4, <1>11, AudioIs, FoundIsNear, RowsType DEF Audio, Done
<1>12. ASSUME AudioRetry(t) PROVE Goal
  BY <1>1, <1>3, <1>5, <1>12, AudioIs, FoundIsNear, RowsType DEF AudioRetry, Done
<1>13. ASSUME AudioInsert(t) PROVE Goal
  <2>1. /\ Go("audio insert", t) /\ InsertCall(t, FinalAt(t), NoId, "audio", mqtt.seen)
        /\ mqtt' = Idle /\ UNCHANGED startLate
        /\ UNCHANGED active
    BY <1>13 DEF AudioInsert, Done
  <2>2. rows' \in Seq(Row)
    <3>1. NoId \in Ids /\ FinalAt(t) \in Nat /\ mqtt.seen \in Nat
      BY <1>2, <1>5, <2>1
    <3> QED BY <2>1, <3>1, InsertIs
  <2> QED BY <1>1, <1>2, <1>5, <2>1, <2>2, TrackIs
<1> QED BY <1>6, <1>7, <1>8, <1>9, <1>10, <1>11, <1>12, <1>13 DEF Handle

LEMMA FileSteps ==
  ASSUME TypeInv, NEW t \in Txs, Files(t)
  PROVE  /\ watcher' = Idle \/ watcher' \in Watching
         /\ rows' \in Seq(Row) /\ filed' \subseteq Filed
         /\ UNCHANGED FileVars
<1>1. filed \subseteq Filed /\ plan \in Plans /\ (watcher = Idle \/ watcher \in Watching)
  BY DEF TypeInv, TypeOK
<1>2. NoId \in Ids /\ FinalAt(t) \in Nat
  BY <1>1, AirType
<1>3. CASE File(t)
  BY <1>1, <1>3, RowsType DEF File, Watching
<1>4. CASE FileRetry(t)
  <2>1. rows' \in Seq(Row)
    BY <1>4, AudioIs, FoundIsNear, RowsType DEF FileRetry
  <2>2. watcher' = Idle \/ watcher' \in Watching
    BY <1>4, RowsType DEF FileRetry, Watching
  <2> QED BY <1>1, <1>4, <2>1, <2>2 DEF FileRetry
<1>5. CASE FileInsert(t)
  <2>1. watcher.seen \in Nat
    BY <1>1, <1>5 DEF FileInsert, Watching
  <2>2. InsertCall(t, FinalAt(t), NoId, "audio", watcher.seen)
    BY <1>5 DEF FileInsert
  <2>3. rows' \in Seq(Row)
    BY <1>2, <2>1, <2>2, InsertIs
  <2> QED BY <1>1, <1>5, <2>3 DEF FileInsert
<1> QED BY <1>3, <1>4, <1>5 DEF Files

LEMMA NextType == TypeInv /\ [Next]_vars => TypeInv'
<1> SUFFICES ASSUME TypeInv, [Next]_vars PROVE TypeInv'
  OBVIOUS
<1> DEFINE Goal ==
      /\ radio' \in [Txs -> {"silent", "on air", "over"}]
      /\ inbox' \subseteq [kind : {"start", "end", "audio"}, tx : Txs]
      /\ snapshot' = None \/ (snapshot'.ids \subseteq Ids /\ snapshot'.onAir \subseteq Txs)
      /\ mqtt' = Idle \/ mqtt' \in Handling
      /\ watcher' = Idle \/ watcher' \in Watching
      /\ filed' \subseteq Filed /\ restarts' \in 0..plan.restarts
      /\ rows' \in Seq(Row) /\ DOMAIN active' \subseteq Ids
      /\ startLate' \subseteq Txs /\ wronged' \subseteq Txs
<1>1. plan' = plan /\ plan \in Plans
  BY PlanStays DEF TypeInv, TypeOK
<1>2. Goal => TypeInv'
  <2>1. ASSUME mqtt' = Idle \/ mqtt' \in Handling
        PROVE  mqtt'.pc \in {"idle", "start insert", "end retry", "end insert", "audio retry",
                             "audio insert"}
    <3>1. CASE mqtt' = Idle
      BY <3>1 DEF Idle
    <3>2. CASE mqtt' \in Handling
      BY <3>2 DEF Handling
    <3> QED BY <2>1, <3>1, <3>2
  <2>2. ASSUME watcher' = Idle \/ watcher' \in Watching
        PROVE  watcher'.pc \in {"idle", "retry", "insert"}
    BY <2>2 DEF Idle, Watching
  <2>3. Ids' = Ids /\ Row' = Row /\ Filed' = Filed
    BY <1>1, PlanMakes
  <2> QED BY <1>1, <2>1, <2>2, <2>3 DEF TypeInv, TypeOK, Row
<1>3. /\ radio \in [Txs -> {"silent", "on air", "over"}]
      /\ inbox \subseteq [kind : {"start", "end", "audio"}, tx : Txs]
      /\ snapshot = None \/ (snapshot.ids \subseteq Ids /\ snapshot.onAir \subseteq Txs)
      /\ mqtt = Idle \/ mqtt \in Handling
      /\ watcher = Idle \/ watcher \in Watching
      /\ filed \subseteq Filed /\ restarts \in 0..plan.restarts
      /\ rows \in Seq(Row) /\ DOMAIN active \subseteq Ids
      /\ startLate \subseteq Txs /\ wronged \subseteq Txs
  BY DEF TypeInv, TypeOK, Row
<1> SUFFICES Goal
  BY <1>2
<1>4. CASE UNCHANGED vars
  BY <1>3, <1>4 DEF vars, radioVars
<1>5. ASSUME NEW t \in Txs, Transmit(t) \/ EndOfTransmission(t) PROVE Goal
  <2>1. /\ radio' \in [Txs -> {"silent", "on air", "over"}]
        /\ inbox' \subseteq [kind : {"start", "end", "audio"}, tx : Txs]
    <3>1. radio' \in [Txs -> {"silent", "on air", "over"}]
      BY <1>3, <1>5 DEF Transmit, EndOfTransmission
    <3>2. \A kind \in {"start", "end", "audio"} :
            [kind |-> kind, tx |-> t] \in [kind : {"start", "end", "audio"}, tx : Txs]
      OBVIOUS
    <3>3. inbox' \subseteq inbox \cup {[kind |-> "start", tx |-> t], [kind |-> "end", tx |-> t],
                                       [kind |-> "audio", tx |-> t]}
      BY <1>5 DEF Transmit, EndOfTransmission
    <3> QED BY <1>3, <3>1, <3>2, <3>3
  <2> QED BY <1>3, <1>5, <2>1 DEF Transmit, EndOfTransmission
<1>6. ASSUME NEW i, ReportActive(i) PROVE Goal
  <2>1. snapshot'.ids \subseteq Ids /\ snapshot'.onAir \subseteq Txs
    BY <1>6 DEF ReportActive, OnAir, Ids
  <2> QED BY <1>3, <1>6, <2>1 DEF ReportActive, radioVars
<1>7. ASSUME NEW t \in Txs, Handle(t) PROVE Goal
  BY <1>3, <1>7, HandlerSteps DEF radioVars
<1>8. ASSUME NEW t \in Txs, Files(t) PROVE Goal
  BY <1>3, <1>8, FileSteps DEF FileVars, radioVars
<1>9. CASE CallsActive
  <2>1. PICK S : rows' = [r \in DOMAIN rows |->
                            IF r \in S THEN [rows[r] EXCEPT !.end = "estimated"] ELSE rows[r]]
    BY <1>9 DEF CallsActive
  <2>2. rows' \in Seq(Row)
    BY <2>1, EstimateIs
  <2>3. DOMAIN active' \subseteq Ids
    BY <1>3, <1>9, UntrackIs DEF CallsActive
  <2>4. wronged' \subseteq Txs /\ snapshot' = None
        /\ UNCHANGED <<radioVars, inbox, mqtt, watcher, filed, restarts, startLate>>
    BY <1>3, <1>9 DEF CallsActive
  <2> QED BY <1>3, <2>2, <2>3, <2>4 DEF radioVars
<1>10. CASE Abandon
  BY <1>3, <1>10 DEF Abandon, Done, radioVars
<1>11. CASE FileFails
  BY <1>3, <1>11 DEF FileFails, FileVars, radioVars
<1>12. CASE Restart
  <2>1. restarts' \in 0..plan.restarts
    <3>1. plan.restarts \in Nat
      BY <1>1, InputsAssumption
    <3>2. restarts \in 0..plan.restarts
      BY <1>3
    <3>3. restarts < plan.restarts /\ restarts' = restarts + 1
      BY <1>12 DEF Restart
    <3> QED BY <3>1, <3>2, <3>3
  <2>2. DOMAIN active' = {}
    BY <1>12 DEF Restart
  <2> QED BY <1>3, <1>12, <2>1, <2>2 DEF Restart, radioVars
<1> QED
  BY <1>4, <1>5, <1>6, <1>7, <1>8, <1>9, <1>10, <1>11, <1>12 DEF Next, Radio, Report

-----------------------------------------------------------------------------
(* Rows and entries belong to one transmission                             *)

\* A step keeps the rows, or inserts one for t; it keeps entries of the list of live
\* calls, or sets that of t to a row of t.
Kept ==
  /\ Len(rows') = Len(rows) /\ DOMAIN rows' = DOMAIN rows
  /\ \A r \in DOMAIN rows :
       /\ rows'[r].by = rows[r].by /\ rows'[r].start = rows[r].start
       /\ rows'[r].tgid = rows[r].tgid /\ rows'[r].seen = rows[r].seen
       /\ rows'[r].id = rows[r].id \/ \E t \in Txs : rows[r].by = {t} /\ rows'[r].id = StartId(t)

Grown(t, n) ==
  /\ Len(rows') = Len(rows) + 1 /\ DOMAIN rows' = 1..(Len(rows) + 1)
  /\ \A r \in DOMAIN rows : rows'[r] = rows[r]
  /\ rows'[Len(rows) + 1].by = {t} /\ rows'[Len(rows) + 1].tgid = Tgid(t)
  /\ rows'[Len(rows) + 1].start \in {StartAt(t), FinalAt(t)}
  /\ rows'[Len(rows) + 1].id \in {NoId, StartId(t), EndId(t)}
  /\ rows'[Len(rows) + 1].seen = n

LiveKept ==
  DOMAIN active' \subseteq DOMAIN active /\ \A k \in DOMAIN active' : active'[k] = active[k]

LiveSet(t) ==
  \E r \in DOMAIN rows' :
    /\ rows'[r].by = {t} /\ Track(t, r)

LEMMA KeptStep ==
  ASSUME OwnInv, plan' = plan, Kept \/ \E t \in Txs : \E n : Grown(t, n)
  PROVE  /\ DOMAIN rows \subseteq DOMAIN rows'
         /\ \A r \in DOMAIN rows, u \in Txs : RowOf(r, u) => RowOf(r, u)'
         /\ \A r \in DOMAIN rows : rows'[r].start = rows[r].start /\ rows'[r].by = rows[r].by
         /\ RowsOwned'
<1> USE DEF OwnInv
<1>1. \A t : /\ StartId(t)' = StartId(t) /\ EndId(t)' = EndId(t) /\ Tgid(t)' = Tgid(t)
             /\ StartAt(t)' = StartAt(t) /\ FinalAt(t)' = FinalAt(t)
  BY PlanMakes
<1>2. /\ DOMAIN rows \subseteq DOMAIN rows'
      /\ \A r \in DOMAIN rows : rows'[r].start = rows[r].start /\ rows'[r].by = rows[r].by
  BY RowsType DEF Kept, Grown
<1>3. \A r \in DOMAIN rows, u \in Txs : RowOf(r, u) => RowOf(r, u)'
  <2> SUFFICES ASSUME NEW r \in DOMAIN rows, NEW u \in Txs, RowOf(r, u) PROVE RowOf(r, u)'
    OBVIOUS
  <2>1. CASE Kept
    <3>1. rows'[r].id = rows[r].id \/ rows'[r].id = StartId(u)
      BY <2>1 DEF Kept, RowOf
    <3>2. rows'[r].by = rows[r].by /\ rows'[r].start = rows[r].start /\ rows'[r].tgid = rows[r].tgid
      BY <2>1 DEF Kept
    <3>3. NoId' = NoId
      BY DEF NoId
    <3> QED BY <1>1, <3>1, <3>2, <3>3 DEF RowOf
  <2>2. ASSUME NEW t \in Txs, NEW n, Grown(t, n) PROVE RowOf(r, u)'
    BY <1>1, <2>2 DEF Grown, RowOf, NoId
  <2> QED BY <2>1, <2>2
<1>4. RowsOwned'
  <2> SUFFICES ASSUME NEW r \in DOMAIN rows' PROVE \E u \in Txs : RowOf(r, u)'
    BY DEF RowsOwned
  <2>1. CASE r \in DOMAIN rows
    BY <1>3, <2>1 DEF RowsOwned
  <2>2. CASE r \notin DOMAIN rows
    <3>1. PICK t \in Txs : \E n : Grown(t, n)
      BY <2>2 DEF Kept
    <3>2. r = Len(rows) + 1
      BY <2>2, <3>1, RowsType DEF Grown
    <3>3. RowOf(r, t)'
      BY <1>1, <3>1, <3>2 DEF Grown, RowOf, NoId
    <3> QED BY <3>3
  <2> QED BY <2>1, <2>2
<1> QED BY <1>2, <1>3, <1>4

LEMMA LiveStep ==
  ASSUME OwnInv, plan' = plan, Kept \/ \E t \in Txs : \E n : Grown(t, n),
         LiveKept \/ \E t \in Txs : LiveSet(t)
  PROVE  ActiveOwned'
<1> USE DEF OwnInv
<1>1. \A t : StartId(t)' = StartId(t) /\ Tgid(t)' = Tgid(t)
  BY PlanMakes
<1>2. /\ DOMAIN rows \subseteq DOMAIN rows' /\ RowsOwned'
      /\ \A r \in DOMAIN rows, u \in Txs : RowOf(r, u) => RowOf(r, u)'
      /\ \A r \in DOMAIN rows : rows'[r].start = rows[r].start
  BY KeptStep
<1>3. ASSUME NEW k \in DOMAIN active, k \in DOMAIN active', active'[k] = active[k]
      PROVE  \E u \in Txs : EntryOf(k, u)'
  <2>1. PICK u \in Txs : EntryOf(k, u)
    BY DEF ActiveOwned
  <2>2. EntryOf(k, u)'
    BY <1>1, <1>2, <1>3, <2>1 DEF EntryOf
  <2> QED BY <2>2
<1>4. CASE LiveKept
  BY <1>3, <1>4 DEF LiveKept, ActiveOwned
<1>5. ASSUME NEW t \in Txs, LiveSet(t) PROVE ActiveOwned'
  <2>1. PICK r \in DOMAIN rows' : rows'[r].by = {t} /\ Track(t, r)
    BY <1>5 DEF LiveSet
  <2>2. RowOf(r, t)'
    <3>1. PICK u \in Txs : RowOf(r, u)'
      BY <1>2 DEF RowsOwned
    <3>2. u = t
      BY <2>1, <3>1 DEF RowOf
    <3> QED BY <3>1, <3>2
  <2>3. PICK key : key = StartId(t)
    OBVIOUS
  <2>4. /\ DOMAIN active' = DOMAIN active \cup {key}
        /\ \A k \in DOMAIN active : k # key => active'[k] = active[k]
        /\ active'[key] = [row |-> r, tgid |-> Tgid(t), start |-> rows'[r].start]
    BY <2>1, <2>3, TrackIs
  <2>5. EntryOf(key, t)'
    BY <1>1, <2>2, <2>3, <2>4 DEF EntryOf
  <2>6. ASSUME NEW k \in DOMAIN active' PROVE \E u \in Txs : EntryOf(k, u)'
    <3>1. CASE k = key
      BY <2>5, <3>1
    <3>2. CASE k # key
      BY <1>3, <2>4, <3>2
    <3> QED BY <3>1, <3>2
  <2> QED BY <2>6 DEF ActiveOwned
<1> QED BY <1>4, <1>5

\* A handler that takes a row takes one of its transmission.
LEMMA TakesOwn ==
  ASSUME OwnInv, NEW t \in Txs, NEW r \in DOMAIN rows, RowOf(r, t),
         \/ UpdateCallEnd(r, t) \/ UpdateCallAudio(r, t) \/ UNCHANGED rows
         \/ rows' = [rows EXCEPT ![r].id = StartId(t), ![r].by = @ \cup {t}]
  PROVE  Kept /\ rows'[r].by = {t}
<1>0. TypeInv /\ rows[r].by = {t} /\ \A x \in Row : x.by \cup {t} = x.by \cup {t}
  BY DEF OwnInv, RowOf
<1>1. CASE UpdateCallEnd(r, t)
  <2>1. /\ Len(rows') = Len(rows) /\ DOMAIN rows' = DOMAIN rows
        /\ \A s \in DOMAIN rows : s # r => rows'[s] = rows[s]
        /\ rows'[r] = [rows[r] EXCEPT !.end = "full", !.full = TRUE, !.by = @ \cup {t}]
    BY <1>0, <1>1, EndIs
  <2>2. /\ rows'[r].by = {t} /\ rows'[r].start = rows[r].start /\ rows'[r].tgid = rows[r].tgid
        /\ rows'[r].seen = rows[r].seen /\ rows'[r].id = rows[r].id
    BY <1>0, <2>1, RowsType DEF Row
  <2> QED BY <1>0, <2>1, <2>2 DEF Kept
<1>2. CASE UpdateCallAudio(r, t)
  <2>1. /\ Len(rows') = Len(rows) /\ DOMAIN rows' = DOMAIN rows
        /\ \A s \in DOMAIN rows : s # r => rows'[s] = rows[s]
        /\ rows'[r] = [rows[r] EXCEPT !.by = @ \cup {t}]
    BY <1>0, <1>2, AudioIs
  <2>2. /\ rows'[r].by = {t} /\ rows'[r].start = rows[r].start /\ rows'[r].tgid = rows[r].tgid
        /\ rows'[r].seen = rows[r].seen /\ rows'[r].id = rows[r].id
    BY <1>0, <2>1, RowsType DEF Row
  <2> QED BY <1>0, <2>1, <2>2 DEF Kept
<1>3. CASE rows' = [rows EXCEPT ![r].id = StartId(t), ![r].by = @ \cup {t}]
  <2>1. /\ Len(rows') = Len(rows) /\ DOMAIN rows' = DOMAIN rows
        /\ \A s \in DOMAIN rows : s # r => rows'[s] = rows[s]
        /\ rows'[r] = [rows[r] EXCEPT !.id = StartId(t), !.by = @ \cup {t}]
    BY <1>0, <1>3, StartIs
  <2>2. /\ rows'[r].by = {t} /\ rows'[r].start = rows[r].start /\ rows'[r].tgid = rows[r].tgid
        /\ rows'[r].seen = rows[r].seen /\ rows'[r].id = StartId(t)
    BY <1>0, <2>1, RowsType DEF Row
  <2> QED BY <1>0, <2>1, <2>2 DEF Kept
<1>4. CASE UNCHANGED rows
  BY <1>0, <1>4 DEF Kept
<1> QED BY <1>1, <1>2, <1>3, <1>4

LEMMA InsertsOwn ==
  ASSUME OwnInv, NEW t \in Txs, NEW at \in {StartAt(t), FinalAt(t)},
         NEW id \in {NoId, StartId(t), EndId(t)}, NEW end, NEW n,
         InsertCall(t, at, id, end, n)
  PROVE  /\ Grown(t, n)
         /\ rows'[Len(rows) + 1].end = end
         /\ rows'[Len(rows) + 1].full => end = "full"
<1>1. /\ Len(rows') = Len(rows) + 1 /\ DOMAIN rows' = 1..(Len(rows) + 1)
      /\ \A r \in DOMAIN rows : rows'[r] = rows[r]
      /\ rows'[Len(rows) + 1] = [tgid |-> Tgid(t), start |-> at, id |-> id, end |-> end,
                                 full |-> end = "full", by |-> {t}, seen |-> n]
  BY InsertIs DEF OwnInv
<1>2. Grown(t, n) /\ rows'[Len(rows) + 1].end = end
  BY <1>1 DEF Grown
<1>3. rows'[Len(rows) + 1].full => end = "full"
  <2>1. SUFFICES ASSUME end # "full" PROVE rows'[Len(rows) + 1].full = FALSE
    OBVIOUS
  <2>2. (end = "full") = FALSE
    BY <2>1
  <2>3. rows'[Len(rows) + 1] = [tgid |-> Tgid(t), start |-> at, id |-> id, end |-> end,
                                 full |-> FALSE, by |-> {t}, seen |-> n]
    BY ONLY <1>1, <2>2, Zenon
  <2> QED BY <2>3
<1> QED BY <1>2, <1>3

\* A handler that goes on is that of a message.
LEMMA HandlerAt ==
  ASSUME NEW pc, NEW t, Go(pc, t), pc # "idle"
  PROVE  mqtt.tx = t /\ mqtt.pc = pc /\ mqtt # Idle
BY DEF Go, Idle

\* Whatever a handler of t does, it does to rows and entries of t.
LEMMA HandlerOwns ==
  ASSUME OwnInv, NEW t \in Txs, Handle(t)
  PROVE  /\ Kept \/ (Grown(t, mqtt.seen) /\ mqtt.tx = t /\ mqtt # Idle)
         /\ LiveKept \/ LiveSet(t)
<1> DEFINE Goal == /\ Kept \/ (Grown(t, mqtt.seen) /\ mqtt.tx = t /\ mqtt # Idle)
                   /\ LiveKept \/ LiveSet(t)
<1>1. UNCHANGED active => LiveKept
  BY DEF LiveKept
<1>2. UNCHANGED rows => Kept
  BY DEF Kept
<1>3. CASE CallStart(t)
  <2>1. CASE UNCHANGED <<rows, active>>
    BY <1>1, <1>2, <2>1
  <2>2. CASE ~ UNCHANGED <<rows, active>>
    <3>1. PICK r \in FindCallForAudio(Tgid(t), StartAt(t)) :
            /\ \/ rows' = [rows EXCEPT ![r].id = StartId(t), ![r].by = @ \cup {t}]
               \/ UNCHANGED rows
            /\ Track(t, r)
      BY <1>3, <2>2 DEF CallStart
    <3>2. r \in DOMAIN rows /\ RowOf(r, t)
      BY <3>1, FoundIsOwn
    <3>3. Kept /\ rows'[r].by = {t}
      BY <3>1, <3>2, TakesOwn
    <3>4. LiveSet(t)
      BY <3>1, <3>2, <3>3 DEF LiveSet, Kept
    <3> QED BY <3>3, <3>4
  <2> QED BY <2>1, <2>2
<1>4. CASE CallStartInsert(t)
  <2>1. InsertCall(t, StartAt(t), StartId(t), "open", mqtt.seen) /\ Track(t, Len(rows) + 1)
    BY <1>4 DEF CallStartInsert
  <2>2. Grown(t, mqtt.seen)
    BY <2>1, InsertsOwn
  <2>3. LiveSet(t)
    <3>1. Len(rows) + 1 \in DOMAIN rows' /\ rows'[Len(rows) + 1].by = {t}
      BY <2>2, RowsType DEF Grown, OwnInv
    <3> QED BY <2>1, <3>1 DEF LiveSet
  <2>4. mqtt.tx = t /\ mqtt # Idle
    BY <1>4, HandlerAt DEF CallStartInsert
  <2> QED BY <2>2, <2>3, <2>4
<1>5. CASE CallEnd(t)
  <2>1. CASE \E k \in EndKeys(t) : UpdateCallEnd(active[k].row, t) /\ Untrack({k})
    <3>1. PICK k \in EndKeys(t) : UpdateCallEnd(active[k].row, t) /\ Untrack({k})
      BY <2>1
    <3>2. active[k].row \in DOMAIN rows /\ RowOf(active[k].row, t)
      BY KeyIsOwn DEF EntryOf
    <3>3. Kept
      BY <3>1, <3>2, TakesOwn
    <3>4. LiveKept
      BY <3>1, UntrackIs DEF LiveKept
    <3> QED BY <3>3, <3>4
  <2>2. CASE \E r \in FindCallByTrCallID(EndId(t), FinalAt(t)) \cup FindCallForAudio(Tgid(t), FinalAt(t)) :
               UpdateCallEnd(r, t) /\ UNCHANGED active
    <3>1. PICK r \in FindCallByTrCallID(EndId(t), FinalAt(t)) \cup FindCallForAudio(Tgid(t), FinalAt(t)) :
               UpdateCallEnd(r, t) /\ UNCHANGED active
      BY <2>2
    <3>2. r \in DOMAIN rows /\ RowOf(r, t)
      BY FoundIsOwn, KnownIsOwn
    <3>3. Kept
      BY <3>1, <3>2, TakesOwn
    <3> QED BY <1>1, <3>1, <3>3
  <2>3. CASE UNCHANGED <<rows, active>>
    BY <1>1, <1>2, <2>3
  <2> QED BY <1>5, <2>1, <2>2, <2>3 DEF CallEnd, EndKeys
<1>6. CASE CallEndRetry(t) \/ Audio(t) \/ AudioRetry(t)
  <2>1. UNCHANGED active
    BY <1>6 DEF CallEndRetry, Audio, AudioRetry
  <2>2. CASE UNCHANGED rows
    BY <1>1, <1>2, <2>1, <2>2
  <2>3. CASE ~ UNCHANGED rows
    <3>1. PICK r \in FindCallForAudio(Tgid(t), FinalAt(t)) :
            UpdateCallEnd(r, t) \/ UpdateCallAudio(r, t)
      BY <1>6, <2>3 DEF CallEndRetry, Audio, AudioRetry
    <3>2. r \in DOMAIN rows /\ RowOf(r, t)
      BY FoundIsOwn
    <3>3. Kept
      BY <3>1, <3>2, TakesOwn
    <3> QED BY <1>1, <2>1, <3>3
  <2> QED BY <2>2, <2>3
<1>7. CASE CallEndInsert(t) \/ AudioInsert(t)
  <2>1. PICK id \in {NoId, StartId(t), EndId(t)} : \E end : InsertCall(t, FinalAt(t), id, end, mqtt.seen)
    BY <1>7 DEF CallEndInsert, AudioInsert
  <2>2. Grown(t, mqtt.seen)
    BY <2>1, InsertsOwn
  <2>3. UNCHANGED active /\ mqtt.tx = t /\ mqtt # Idle
    BY <1>7, HandlerAt DEF CallEndInsert, AudioInsert
  <2> QED BY <1>1, <2>2, <2>3
<1> QED BY <1>3, <1>4, <1>5, <1>6, <1>7 DEF Handle

LEMMA FileOwns ==
  ASSUME OwnInv, NEW t \in Txs, Files(t)
  PROVE  /\ Kept \/ (Grown(t, watcher.seen) /\ watcher.tx = t /\ watcher.pc = "insert")
         /\ LiveKept
<1>1. LiveKept
  BY FileSteps DEF OwnInv, FileVars, LiveKept
<1>2. UNCHANGED rows => Kept
  BY DEF Kept
<1>3. CASE File(t)
  BY <1>1, <1>2, <1>3 DEF File
<1>4. CASE FileRetry(t)
  <2>1. CASE UNCHANGED rows
    BY <1>1, <1>2, <2>1
  <2>2. CASE ~ UNCHANGED rows
    <3>1. PICK r \in FindCallForAudio(Tgid(t), FinalAt(t)) : UpdateCallAudio(r, t)
      BY <1>4, <2>2 DEF FileRetry
    <3>2. r \in DOMAIN rows /\ RowOf(r, t)
      BY FoundIsOwn
    <3> QED BY <1>1, <3>1, <3>2, TakesOwn
  <2> QED BY <2>1, <2>2
<1>5. CASE FileInsert(t)
  <2>1. /\ InsertCall(t, FinalAt(t), NoId, "audio", watcher.seen)
        /\ watcher.tx = t /\ watcher.pc = "insert"
    BY <1>5 DEF FileInsert
  <2>2. Grown(t, watcher.seen)
    BY <2>1, InsertsOwn
  <2> QED BY <1>1, <2>1, <2>2
<1> QED BY <1>3, <1>4, <1>5 DEF Files

\* calls_active closes entries and estimates the ends of their rows.
LEMMA ActiveOwns ==
  ASSUME OwnInv, CallsActive
  PROVE  Kept /\ LiveKept
<1>1. PICK S : rows' = [r \in DOMAIN rows |->
                          IF r \in S THEN [rows[r] EXCEPT !.end = "estimated"] ELSE rows[r]]
  BY DEF CallsActive
<1>2. TypeInv
  BY DEF OwnInv
<1>3. /\ Len(rows') = Len(rows) /\ DOMAIN rows' = DOMAIN rows
      /\ \A r \in DOMAIN rows :
            rows'[r] = [rows[r] EXCEPT !.end = "estimated"] \/ rows'[r] = rows[r]
  BY <1>1, <1>2, EstimateIs
<1>4. Kept
  <2>1. ASSUME NEW r \in DOMAIN rows
        PROVE  /\ rows'[r].by = rows[r].by /\ rows'[r].start = rows[r].start
               /\ rows'[r].tgid = rows[r].tgid /\ rows'[r].seen = rows[r].seen
               /\ rows'[r].id = rows[r].id
    <3>1. rows[r] \in Row
      BY <1>2, RowsType
    <3> QED BY <1>3, <3>1 DEF Row
  <2> QED BY <1>3, <2>1 DEF Kept
<1>5. LiveKept
  BY UntrackIs DEF CallsActive, LiveKept
<1> QED BY <1>4, <1>5

\* The steps that are no handler's.
LEMMA OthersOwn ==
  ASSUME OwnInv, [Next]_vars, \A t \in Txs : ~ Handle(t) /\ ~ Files(t)
  PROVE  Kept /\ LiveKept
<1>1. UNCHANGED active => LiveKept
  BY DEF LiveKept
<1>2. UNCHANGED rows => Kept
  BY DEF Kept
<1>3. CASE UNCHANGED vars
  BY <1>1, <1>2, <1>3 DEF vars
<1>4. CASE Radio \/ Report \/ Abandon \/ FileFails
  BY <1>1, <1>2, <1>4 DEF Radio, Report, Transmit, EndOfTransmission, ReportActive, Abandon,
                          FileFails, FileVars
<1>5. CASE CallsActive
  BY <1>5, ActiveOwns
<1>6. CASE Restart
  <2>1. UNCHANGED rows /\ DOMAIN active' = {}
    BY <1>6 DEF Restart
  <2> QED BY <1>2, <2>1 DEF LiveKept
<1> QED BY <1>3, <1>4, <1>5, <1>6 DEF Next

\* A row and an entry stay with their transmission.
LEMMA NextOwn == OwnInv /\ [Next]_vars => OwnInv'
<1> SUFFICES ASSUME OwnInv, [Next]_vars PROVE OwnInv'
  OBVIOUS
<1>1. plan' = plan /\ TypeInv' /\ Apart'
  BY PlanStays, PlanMakes, NextType DEF OwnInv
<1>2. /\ Kept \/ \E t \in Txs : \E n : Grown(t, n)
      /\ LiveKept \/ \E t \in Txs : LiveSet(t)
  BY HandlerOwns, FileOwns, OthersOwn
<1> QED BY <1>1, <1>2, KeptStep, LiveStep DEF OwnInv

LEMMA InitOwn == Init /\ Apart => OwnInv
<1> SUFFICES ASSUME Init, Apart PROVE OwnInv
  OBVIOUS
<1>1. DOMAIN active = {} /\ DOMAIN rows = {}
  BY DEF Init
<1> QED BY <1>1, InitType DEF OwnInv, RowsOwned, ActiveOwned

\* So a row is never about two transmissions, and the list of live calls is right.
LEMMA OwnImplies == OwnInv => RowsNotMixed /\ LiveCallsAreOwn
<1> SUFFICES ASSUME OwnInv PROVE RowsNotMixed /\ LiveCallsAreOwn
  OBVIOUS
<1>1. RowsNotMixed
  <2>1. \A t : Cardinality({t}) = 1
    BY FS_Singleton
  <2> QED BY <2>1 DEF OwnInv, RowsOwned, RowOf, RowsNotMixed
<1>2. ActiveIsOwn
  <2> SUFFICES ASSUME NEW t \in Txs, StartId(t) \in DOMAIN active
               PROVE  /\ active[StartId(t)].row \in DOMAIN rows
                      /\ rows[active[StartId(t)].row].start = active[StartId(t)].start
                      /\ rows[active[StartId(t)].row].tgid = active[StartId(t)].tgid
                      /\ t \in rows[active[StartId(t)].row].by
    BY DEF ActiveIsOwn
  <2>1. PICK u \in Txs : EntryOf(StartId(t), u)
    BY DEF OwnInv, ActiveOwned
  <2>2. <<Tgid(t), StartAt(t)>> = <<Tgid(u), StartAt(u)>>
    BY <2>1 DEF EntryOf, StartId
  <2>3. plan \in Plans /\ Apart
    BY DEF OwnInv, TypeInv, TypeOK
  <2>4. t = u
    BY <2>2, <2>3, OwnIsNear, NearIsSame
  <2> QED BY <2>1, <2>4 DEF EntryOf, RowOf
<1> QED BY <1>1, <1>2 DEF LiveCallsAreOwn, OwnInv, TypeInv

-----------------------------------------------------------------------------
(* Looking and inserting                                                   *)

LEMMA HandlingIsNotIdle == \A x \in Handling : x # Idle
<1>1. \A x \in Handling : x.pc # "idle"
  BY DEF Handling
<1>2. Idle.pc = "idle"
  BY DEF Idle
<1> QED BY <1>1, <1>2

LEMMA InitRace == Init /\ Apart /\ Corrected => RaceInv
<1> SUFFICES ASSUME Init, Apart, Corrected PROVE RaceInv
  OBVIOUS
<1>1. DOMAIN active = {} /\ DOMAIN rows = {} /\ mqtt = Idle /\ watcher = Idle
  BY DEF Init
<1>2. Idle.pc = "idle" /\ Idle \notin Handling
  BY HandlingIsNotIdle DEF Idle
<1> QED BY <1>1, <1>2, InitOwn DEF RaceInv, InsertsUnseen, SecondRowRaced, ActiveNotFull, EndHasNoEntry,
                             FullEndKept

\* What a handler saw, it has seen: rows added later come behind.
LEMMA SeenStays ==
  ASSUME OwnInv, plan' = plan, Kept \/ \E t \in Txs : \E n : Grown(t, n),
         NEW u, NEW m \in Nat, NoneSeen(u, m)
  PROVE  NoneSeen(u, m)'
<1>1. Len(rows) \in Nat /\ DOMAIN rows = 1..Len(rows)
  BY RowsType DEF OwnInv
<1>2. CASE Kept
  BY <1>1, <1>2 DEF Kept, NoneSeen
<1>3. CASE \E t \in Txs : \E n : Grown(t, n)
  <2>1. PICK t \in Txs : \E n : Grown(t, n)
    BY <1>3
  <2>2. /\ Len(rows') = Len(rows) + 1 /\ DOMAIN rows' = 1..(Len(rows) + 1)
        /\ \A r \in DOMAIN rows : rows'[r] = rows[r]
    BY <2>1 DEF Grown
  <2> QED BY <1>1, <2>2 DEF NoneSeen
<1> QED BY <1>2, <1>3

\* A goroutine waits, returns, or goes on because it found nothing.
WentOn(t) ==
  /\ UNCHANGED <<rows, active>>
  /\ \E at \in {StartAt(t), FinalAt(t)} : FindCallForAudio(Tgid(t), at) = {}

LEMMA MqttGoesOn ==
  ASSUME [Next]_vars
  PROVE  \/ mqtt' = mqtt \/ mqtt' = Idle
         \/ \E t \in Txs : \E pc : GoOn(pc, t) /\ WentOn(t)
<1>1. ASSUME NEW t \in Txs, Handle(t)
      PROVE  mqtt' = Idle \/ \E pc : GoOn(pc, t) /\ WentOn(t)
  <2>1. CASE CallStart(t)
    BY <2>1 DEF CallStart, Done, WentOn
  <2>2. CASE CallEnd(t)
    <3>1. CASE mqtt' = Idle
      BY <3>1
    <3>2. CASE mqtt' # Idle
      <4>1. /\ GoOn("end retry", t) /\ UNCHANGED <<rows, active>>
            /\ (IF FindCallByTrCallID(EndId(t), FinalAt(t)) # {}
                THEN FindCallByTrCallID(EndId(t), FinalAt(t))
                ELSE FindCallForAudio(Tgid(t), FinalAt(t))) = {}
        BY <2>2, <3>2 DEF CallEnd, Done
      <4>2. FindCallForAudio(Tgid(t), FinalAt(t)) = {}
        BY <4>1
      <4> QED BY <4>1, <4>2 DEF WentOn
    <3> QED BY <3>1, <3>2
  <2>3. CASE CallEndRetry(t) \/ Audio(t) \/ AudioRetry(t)
    BY <2>3 DEF CallEndRetry, Audio, AudioRetry, Done, WentOn
  <2>4. CASE CallStartInsert(t) \/ CallEndInsert(t) \/ AudioInsert(t)
    BY <2>4 DEF CallStartInsert, CallEndInsert, AudioInsert, Done
  <2> QED BY <1>1, <2>1, <2>2, <2>3, <2>4 DEF Handle
<1>2. ASSUME NEW t \in Txs, Files(t) PROVE mqtt' = mqtt
  BY <1>2 DEF Files, File, FileRetry, FileInsert, FileVars
<1>3. CASE UNCHANGED vars
  BY <1>3 DEF vars
<1>4. CASE Radio \/ Report \/ CallsActive \/ Abandon \/ FileFails \/ Restart
  BY <1>4 DEF Radio, Transmit, EndOfTransmission, Report, ReportActive, CallsActive, Abandon, Done,
              FileFails, FileVars, Restart
<1> QED BY <1>1, <1>2, <1>3, <1>4 DEF Next

LEMMA WatcherGoesOn ==
  ASSUME [Next]_vars
  PROVE  \/ watcher' = watcher \/ watcher' = Idle
         \/ \E t \in Txs : watcher' = [pc |-> "retry", tx |-> t]
         \/ \E t \in Txs : watcher' = [pc |-> "insert", tx |-> t, seen |-> Len(rows)] /\ WentOn(t)
<1>1. ASSUME NEW t \in Txs, Handle(t) PROVE watcher' = watcher
  BY <1>1 DEF Handle, Take, Go, CallStart, CallStartInsert, CallEnd, CallEndRetry, CallEndInsert,
              Audio, AudioRetry, AudioInsert
<1>2. ASSUME NEW t \in Txs, Files(t)
      PROVE  \/ watcher' = watcher \/ watcher' = Idle \/ watcher' = [pc |-> "retry", tx |-> t]
             \/ watcher' = [pc |-> "insert", tx |-> t, seen |-> Len(rows)] /\ WentOn(t)
  BY <1>2 DEF Files, File, FileRetry, FileInsert, FileVars, WentOn
<1>3. CASE UNCHANGED vars
  BY <1>3 DEF vars
<1>4. CASE Radio \/ Report \/ CallsActive \/ Abandon \/ FileFails \/ Restart
  BY <1>4 DEF Radio, Transmit, EndOfTransmission, Report, ReportActive, CallsActive, Abandon,
              FileFails, FileVars, Restart
<1> QED BY <1>1, <1>2, <1>3, <1>4 DEF Next

LEMMA UnseenStays ==
  ASSUME RaceInv, [Next]_vars
  PROVE  InsertsUnseen'
<1>1. OwnInv /\ OwnInv' /\ Corrected /\ InsertsUnseen /\ plan' = plan
  BY NextOwn, PlanStays DEF RaceInv
<1>2. Kept \/ \E t \in Txs : \E n : Grown(t, n)
  BY <1>1, HandlerOwns, FileOwns, OthersOwn
<1>3. ASSUME NEW t \in Txs, WentOn(t)
      PROVE  Len(rows) \in Nat /\ NoneSeen(t, Len(rows))
  BY <1>1, <1>3, NothingSeen, RowsType DEF WentOn, OwnInv
<1>4. ASSUME NEW t \in Txs, WentOn(t), NEW n, n = Len(rows)
      PROVE  NoneSeen(t, n)'
  BY <1>1, <1>2, <1>3, <1>4, SeenStays
<1>5. mqtt' \in Handling => NoneSeen(mqtt.tx, mqtt.seen)'
  <2> SUFFICES ASSUME mqtt' \in Handling PROVE NoneSeen(mqtt.tx, mqtt.seen)'
    OBVIOUS
  <2>1. mqtt' # Idle
    BY HandlingIsNotIdle
  <2>2. PICK u, m : u = mqtt'.tx /\ m = mqtt'.seen
    OBVIOUS
  <2>3. CASE mqtt' = mqtt
    <3>1. NoneSeen(u, m) /\ m \in Nat
      BY <1>1, <2>2, <2>3 DEF InsertsUnseen, Handling
    <3> QED BY <1>1, <1>2, <2>2, <3>1, SeenStays DEF NoneSeen
  <2>4. ASSUME NEW t \in Txs, NEW pc, GoOn(pc, t), WentOn(t) PROVE NoneSeen(mqtt.tx, mqtt.seen)'
    <3>1. u = t /\ m = Len(rows)
      BY <2>2, <2>4 DEF GoOn
    <3>2. NoneSeen(u, m)'
      BY <1>4, <2>4, <3>1
    <3> QED BY <2>2, <3>2 DEF NoneSeen
  <2> QED BY <2>1, <2>3, <2>4, MqttGoesOn
<1>6. watcher'.pc = "insert" => NoneSeen(watcher.tx, watcher.seen)'
  <2> SUFFICES ASSUME watcher'.pc = "insert" PROVE NoneSeen(watcher.tx, watcher.seen)'
    OBVIOUS
  <2>1. watcher' # Idle /\ \A t : watcher' # [pc |-> "retry", tx |-> t]
    BY DEF Idle
  <2>2. PICK u, m : u = watcher'.tx /\ m = watcher'.seen
    OBVIOUS
  <2>3. CASE watcher' = watcher
    <3>1. m \in Nat
      BY <1>1, <2>1, <2>2, <2>3 DEF OwnInv, TypeInv, Watching
    <3>2. NoneSeen(u, m)
      BY <1>1, <2>2, <2>3 DEF InsertsUnseen
    <3> QED BY <1>1, <1>2, <2>2, <3>1, <3>2, SeenStays DEF NoneSeen
  <2>4. ASSUME NEW t \in Txs, watcher' = [pc |-> "insert", tx |-> t, seen |-> Len(rows)], WentOn(t)
        PROVE  NoneSeen(watcher.tx, watcher.seen)'
    <3>1. u = t /\ m = Len(rows)
      BY <2>2, <2>4
    <3>2. NoneSeen(u, m)'
      BY <1>4, <2>4, <3>1
    <3> QED BY <2>2, <3>2 DEF NoneSeen
  <2> QED BY <2>1, <2>3, <2>4, WatcherGoesOn
<1>7. Handling' = Handling
  BY DEF Handling
<1> QED BY <1>5, <1>6, <1>7 DEF InsertsUnseen

LEMMA SecondStays ==
  ASSUME RaceInv, [Next]_vars
  PROVE  SecondRowRaced'
<1>1. OwnInv /\ InsertsUnseen /\ SecondRowRaced /\ plan' = plan
  BY PlanStays DEF RaceInv
<1>2. Kept \/ \E t \in Txs, n \in Nat : Grown(t, n) /\ NoneSeen(t, n)
  <2>1. ASSUME NEW t \in Txs, Grown(t, mqtt.seen), mqtt.tx = t, mqtt # Idle
        PROVE  mqtt.seen \in Nat /\ NoneSeen(t, mqtt.seen)
    <3>1. mqtt \in Handling
      BY <1>1, <2>1 DEF OwnInv, TypeInv
    <3> QED BY <1>1, <2>1, <3>1 DEF InsertsUnseen, Handling
  <2>2. ASSUME NEW t \in Txs, Grown(t, watcher.seen), watcher.tx = t, watcher.pc = "insert"
        PROVE  watcher.seen \in Nat /\ NoneSeen(t, watcher.seen)
    <3>1. watcher # Idle /\ watcher \in Watching
      BY <1>1, <2>2 DEF OwnInv, TypeInv, Idle
    <3>2. watcher.seen \in Nat
      BY <2>2, <3>1 DEF Watching
    <3> QED BY <1>1, <2>2, <3>2 DEF InsertsUnseen
  <2> QED BY <1>1, <2>1, <2>2, HandlerOwns, FileOwns, OthersOwn
<1>3. CASE Kept
  BY <1>1, <1>3 DEF Kept, SecondRowRaced
<1>4. ASSUME NEW t \in Txs, NEW n \in Nat, Grown(t, n), NoneSeen(t, n) PROVE SecondRowRaced'
  <2>1. /\ Len(rows) \in Nat /\ DOMAIN rows = 1..Len(rows)
    BY <1>1, RowsType DEF OwnInv
  <2> SUFFICES ASSUME NEW r \in DOMAIN rows', NEW s \in DOMAIN rows', r < s,
                      rows'[r].by \cap rows'[s].by # {}
               PROVE  rows'[s].seen < r
    BY DEF SecondRowRaced
  <2>2. r \in DOMAIN rows /\ rows'[r] = rows[r]
    BY <1>4, <2>1 DEF Grown
  <2>3. CASE s \in DOMAIN rows
    BY <1>1, <1>4, <2>2, <2>3 DEF Grown, SecondRowRaced
  <2>4. CASE s \notin DOMAIN rows
    <3>1. s = Len(rows) + 1 /\ rows'[s].by = {t} /\ rows'[s].seen = n
      BY <1>4, <2>1, <2>4 DEF Grown
    <3>2. PICK u \in Txs : rows[r].by = {u}
      BY <1>1, <2>2 DEF OwnInv, RowsOwned, RowOf
    <3>3. rows[r].by = {t}
      BY <2>2, <3>1, <3>2
    <3>4. ~ (r <= n)
      BY <1>4, <2>2, <3>3 DEF NoneSeen
    <3> QED BY <2>1, <2>2, <3>1, <3>4
  <2> QED BY <2>3, <2>4
<1> QED BY <1>2, <1>3, <1>4

-----------------------------------------------------------------------------
(* The end of a call                                                       *)

SameFull ==
  \A r \in DOMAIN rows : rows'[r].full = rows[r].full /\ rows'[r].end = rows[r].end

\* An entry that stays is as good as it was, if its row is.
EntryIsOpen(k) == rows[active[k].row].full => rows[active[k].row].by \cap startLate # {}

LEMMA EntryStays ==
  ASSUME OwnInv, plan' = plan, Kept \/ \E t \in Txs : \E n : Grown(t, n),
         startLate \subseteq startLate',
         NEW k \in DOMAIN active, k \in DOMAIN active', active'[k] = active[k], EntryIsOpen(k),
         rows'[active[k].row].full = rows[active[k].row].full
  PROVE  EntryIsOpen(k)'
<1>1. active[k].row \in DOMAIN rows
  BY DEF OwnInv, ActiveOwned, EntryOf
<1>2. rows'[active[k].row].by = rows[active[k].row].by
  BY <1>1, KeptStep
<1> QED BY <1>1, <1>2 DEF EntryIsOpen

LEMMA SameFullStep ==
  ASSUME OwnInv, plan' = plan, ActiveNotFull, FullEndKept,
         Kept \/ \E t \in Txs : \E n : Grown(t, n),
         \A r \in DOMAIN rows' : r \notin DOMAIN rows /\ rows'[r].full => rows'[r].end = "full",
         SameFull, startLate \subseteq startLate'
  PROVE  /\ FullEndKept'
         /\ LiveKept => ActiveNotFull'
<1>1. /\ DOMAIN rows \subseteq DOMAIN rows'
      /\ \A r \in DOMAIN rows : rows'[r].by = rows[r].by
  BY KeptStep
<1>2. FullEndKept'
  <2> SUFFICES ASSUME NEW r \in DOMAIN rows', rows'[r].full, rows'[r].by \cap startLate' = {}
               PROVE  rows'[r].end = "full"
    BY DEF FullEndKept
  <2>1. CASE r \in DOMAIN rows
    BY <1>1, <2>1 DEF SameFull, FullEndKept
  <2> QED BY <2>1
<1>3. ASSUME LiveKept PROVE ActiveNotFull'
  <2>1. ASSUME NEW k \in DOMAIN active' PROVE EntryIsOpen(k)'
    <3>1. k \in DOMAIN active /\ active'[k] = active[k] /\ EntryIsOpen(k)
      BY <1>3 DEF LiveKept, ActiveNotFull, EntryIsOpen
    <3>2. active[k].row \in DOMAIN rows
      BY <3>1 DEF OwnInv, ActiveOwned, EntryOf
    <3> QED BY <3>1, <3>2, EntryStays DEF SameFull
  <2> QED BY <2>1 DEF EntryIsOpen, ActiveNotFull
<1> QED BY <1>2, <1>3

\* What call_start and audio write of a row is neither its end nor full.
LEMMA TakesSame ==
  ASSUME TypeInv, NEW t \in Txs, NEW r \in DOMAIN rows,
         \/ UpdateCallAudio(r, t) \/ UNCHANGED rows
         \/ rows' = [rows EXCEPT ![r].id = StartId(t), ![r].by = @ \cup {t}]
  PROVE  SameFull
<1>1. rows[r] \in Row
  BY RowsType
<1>2. CASE UpdateCallAudio(r, t)
  <2>1. /\ \A s \in DOMAIN rows : s # r => rows'[s] = rows[s]
        /\ rows'[r] = [rows[r] EXCEPT !.by = @ \cup {t}]
    BY <1>2, AudioIs
  <2>2. rows'[r].full = rows[r].full /\ rows'[r].end = rows[r].end
    BY <1>1, <2>1 DEF Row
  <2> QED BY <2>1, <2>2 DEF SameFull
<1>3. CASE rows' = [rows EXCEPT ![r].id = StartId(t), ![r].by = @ \cup {t}]
  BY <1>1, <1>3, StartIs DEF SameFull, Row
<1>4. CASE UNCHANGED rows
  BY <1>4 DEF SameFull
<1> QED BY <1>2, <1>3, <1>4

\* call_end completes a row of its transmission whose entry, if any, is gone.
LEMMA EndStep ==
  ASSUME OwnInv, plan' = plan, ActiveNotFull, FullEndKept, NEW t \in Txs, NEW r \in DOMAIN rows,
         RowOf(r, t), UpdateCallEnd(r, t), LiveKept, StartId(t) \notin DOMAIN active',
         startLate \subseteq startLate'
  PROVE  FullEndKept' /\ ActiveNotFull'
<1>1. TypeInv /\ Kept
  BY TakesOwn DEF OwnInv
<1>2. /\ DOMAIN rows' = DOMAIN rows
      /\ \A s \in DOMAIN rows : s # r => rows'[s] = rows[s]
      /\ rows'[r].end = "full"
  <2>1. /\ DOMAIN rows' = DOMAIN rows
        /\ \A s \in DOMAIN rows : s # r => rows'[s] = rows[s]
        /\ rows'[r] = [rows[r] EXCEPT !.end = "full", !.full = TRUE, !.by = @ \cup {t}]
    BY <1>1, EndIs
  <2>2. rows'[r].end = "full"
    BY <1>1, <2>1, RowsType DEF Row
  <2> QED BY <2>1, <2>2
<1>3. FullEndKept'
  BY <1>2 DEF FullEndKept
<1>4. ASSUME NEW k \in DOMAIN active' PROVE EntryIsOpen(k)'
  <2>1. k \in DOMAIN active /\ active'[k] = active[k] /\ EntryIsOpen(k)
    BY DEF LiveKept, ActiveNotFull, EntryIsOpen
  <2>2. PICK u \in Txs : EntryOf(k, u)
    BY <2>1 DEF OwnInv, ActiveOwned
  <2>3. k # StartId(t) /\ u # t
    BY <2>2 DEF EntryOf
  <2>4. active[k].row \in DOMAIN rows /\ active[k].row # r
    BY <2>2, <2>3 DEF EntryOf, RowOf
  <2> QED BY <1>1, <1>2, <2>1, <2>4, EntryStays
<1> QED BY <1>3, <1>4 DEF ActiveNotFull, EntryIsOpen

LEMMA InsertStep ==
  ASSUME OwnInv, plan' = plan, ActiveNotFull, FullEndKept, NEW t \in Txs,
         NEW at \in {StartAt(t), FinalAt(t)}, NEW id \in {NoId, StartId(t), EndId(t)},
         NEW end, NEW n, InsertCall(t, at, id, end, n), startLate \subseteq startLate'
  PROVE  FullEndKept' /\ (LiveKept => ActiveNotFull')
<1>1. /\ Grown(t, n) /\ rows'[Len(rows) + 1].end = end
      /\ rows'[Len(rows) + 1].full => end = "full"
  BY InsertsOwn
<1>2. SameFull
  BY <1>1 DEF Grown, SameFull
<1>3. \A r \in DOMAIN rows' : r \notin DOMAIN rows /\ rows'[r].full => rows'[r].end = "full"
  <2>1. \A r \in DOMAIN rows' : r \notin DOMAIN rows => r = Len(rows) + 1
    BY <1>1, RowsType DEF Grown, OwnInv
  <2> QED BY <1>1, <2>1
<1> QED BY <1>1, <1>2, <1>3, SameFullStep

LEMMA GoOnIs ==
  ASSUME NEW pc, NEW t, GoOn(pc, t)
  PROVE  mqtt'.pc = pc /\ mqtt'.tx = t
BY DEF GoOn

\* A handler of t: what becomes of the ends, and of the entries.
LEMMA HandlerEnds ==
  ASSUME RaceInv, plan' = plan, NEW t \in Txs, Handle(t)
  PROVE  FullEndKept' /\ ActiveNotFull' /\ EndHasNoEntry'
<1> DEFINE Goal == FullEndKept' /\ ActiveNotFull' /\ EndHasNoEntry'
<1>1. /\ OwnInv /\ TypeInv /\ Corrected /\ ActiveNotFull /\ EndHasNoEntry /\ FullEndKept
  BY DEF RaceInv, OwnInv
<1>2. UNCHANGED active => LiveKept
  BY DEF LiveKept
<1>3. mqtt' = Idle => EndHasNoEntry'
  BY DEF EndHasNoEntry, Idle
<1>4. StartId(t)' = StartId(t)
  BY PlanMakes
<1>5. ASSUME UNCHANGED <<rows, active, startLate>> PROVE FullEndKept' /\ ActiveNotFull'
  BY <1>1, <1>5 DEF FullEndKept, ActiveNotFull
<1>6. CASE CallStart(t)
  <2>1. startLate \subseteq startLate'
        /\ (startLate' = startLate \cup {t} \/ \A r \in DOMAIN rows : ~ (t \in rows[r].by /\ rows[r].full))
    BY <1>6 DEF CallStart
  <2>2. CASE UNCHANGED <<rows, active>>
    <3>1. SameFull /\ Kept
      BY <2>2 DEF SameFull, Kept
    <3>2. FullEndKept' /\ ActiveNotFull'
      BY <1>1, <1>2, <2>1, <2>2, <3>1, SameFullStep
    <3>3. EndHasNoEntry'
      <4>1. mqtt' = Idle \/ GoOn("start insert", t)
        BY <1>6 DEF CallStart, Done
      <4>2. CASE GoOn("start insert", t)
        <5>1. mqtt'.pc = "start insert"
          BY <4>2, GoOnIs
        <5> QED BY <5>1 DEF EndHasNoEntry
      <4> QED BY <1>3, <4>1, <4>2
    <3> QED BY <3>2, <3>3
  <2>3. CASE ~ UNCHANGED <<rows, active>>
    <3>1. PICK r \in FindCallForAudio(Tgid(t), StartAt(t)) :
            /\ \/ rows' = [rows EXCEPT ![r].id = StartId(t), ![r].by = @ \cup {t}]
               \/ UNCHANGED rows
            /\ Track(t, r) /\ mqtt' = Idle
      BY <1>6, <2>3 DEF CallStart, Done
    <3>2. r \in DOMAIN rows /\ RowOf(r, t)
      BY <1>1, <3>1, FoundIsOwn
    <3>3. Kept /\ SameFull
      BY <1>1, <3>1, <3>2, TakesOwn, TakesSame
    <3>4. FullEndKept'
      BY <1>1, <2>1, <3>3, SameFullStep DEF Kept
    <3>5. PICK key : key = StartId(t)
      OBVIOUS
    <3>6. /\ DOMAIN active' = DOMAIN active \cup {key}
          /\ \A k \in DOMAIN active : k # key => active'[k] = active[k]
          /\ active'[key].row = r
      BY <3>1, <3>5, TrackIs
    <3>7. EntryIsOpen(key)'
      <4>1. rows'[r].by = {t} /\ rows'[r].full = rows[r].full
        BY <3>2, <3>3 DEF Kept, SameFull, RowOf
      <4>2. rows[r].full => t \in startLate'
        BY <2>1, <3>2 DEF RowOf
      <4> QED BY <3>6, <4>1, <4>2 DEF EntryIsOpen
    <3>8. ASSUME NEW k \in DOMAIN active', k # key PROVE EntryIsOpen(k)'
      <4>1. k \in DOMAIN active /\ active'[k] = active[k] /\ EntryIsOpen(k)
        BY <1>1, <3>6, <3>8 DEF ActiveNotFull, EntryIsOpen
      <4>2. active[k].row \in DOMAIN rows
        BY <1>1, <4>1 DEF OwnInv, ActiveOwned, EntryOf
      <4> QED BY <1>1, <2>1, <3>3, <4>1, <4>2, EntryStays DEF SameFull
    <3> QED BY <1>3, <3>1, <3>4, <3>7, <3>8 DEF ActiveNotFull, EntryIsOpen
  <2> QED BY <2>2, <2>3
<1>7. CASE CallStartInsert(t)
  <2>1. /\ InsertCall(t, StartAt(t), StartId(t), "open", mqtt.seen) /\ Track(t, Len(rows) + 1)
        /\ mqtt' = Idle /\ UNCHANGED startLate
    BY <1>7 DEF CallStartInsert, Done
  <2>2. /\ Grown(t, mqtt.seen) /\ ~ rows'[Len(rows) + 1].full
    <3>1. Grown(t, mqtt.seen) /\ (rows'[Len(rows) + 1].full => "open" = "full")
      BY <1>1, <2>1, InsertsOwn
    <3> QED BY <3>1
  <2>3. FullEndKept'
    BY <1>1, <2>1, InsertStep
  <2>4. PICK key : key = StartId(t)
    OBVIOUS
  <2>5. /\ DOMAIN active' = DOMAIN active \cup {key}
        /\ \A k \in DOMAIN active : k # key => active'[k] = active[k]
        /\ active'[key].row = Len(rows) + 1
    BY <2>1, <2>4, TrackIs
  <2>6. EntryIsOpen(key)'
    BY <2>2, <2>5 DEF EntryIsOpen
  <2>7. ASSUME NEW k \in DOMAIN active', k # key PROVE EntryIsOpen(k)'
    <3>1. k \in DOMAIN active /\ active'[k] = active[k] /\ EntryIsOpen(k)
      BY <1>1, <2>5, <2>7 DEF ActiveNotFull, EntryIsOpen
    <3>2. active[k].row \in DOMAIN rows
      BY <1>1, <3>1 DEF OwnInv, ActiveOwned, EntryOf
    <3>3. rows'[active[k].row].full = rows[active[k].row].full
      BY <2>2, <3>2 DEF Grown
    <3> QED BY <1>1, <2>1, <2>2, <3>1, <3>3, EntryStays
  <2> QED BY <1>3, <2>1, <2>3, <2>6, <2>7 DEF ActiveNotFull, EntryIsOpen
<1>8. CASE CallEnd(t)
  <2>1. UNCHANGED startLate
    BY <1>8 DEF CallEnd
  <2>2. CASE \E k \in EndKeys(t) : UpdateCallEnd(active[k].row, t) /\ Untrack({k}) /\ Done
    <3>1. PICK k \in EndKeys(t) : UpdateCallEnd(active[k].row, t) /\ Untrack({k}) /\ Done
      BY <2>2
    <3>2. active[k].row \in DOMAIN rows /\ RowOf(active[k].row, t) /\ k = StartId(t)
      BY <1>1, KeyIsOwn DEF EntryOf
    <3>3. LiveKept /\ StartId(t) \notin DOMAIN active'
      BY <3>1, <3>2, UntrackIs DEF LiveKept
    <3>4. FullEndKept' /\ ActiveNotFull'
      BY <1>1, <2>1, <3>1, <3>2, <3>3, EndStep
    <3> QED BY <1>3, <3>1, <3>4 DEF Done
  <2>3. CASE /\ EndKeys(t) = {} /\ UNCHANGED active /\ Done
             /\ \E r \in FindCallByTrCallID(EndId(t), FinalAt(t)) \cup FindCallForAudio(Tgid(t), FinalAt(t)) :
                  UpdateCallEnd(r, t)
    <3>1. PICK r \in FindCallByTrCallID(EndId(t), FinalAt(t)) \cup FindCallForAudio(Tgid(t), FinalAt(t)) :
               UpdateCallEnd(r, t)
      BY <2>3
    <3>2. r \in DOMAIN rows /\ RowOf(r, t)
      BY <1>1, FoundIsOwn, KnownIsOwn
    <3>3. StartId(t) \notin DOMAIN active'
      BY <1>1, <2>3, NoKeyNoEntry
    <3>4. FullEndKept' /\ ActiveNotFull'
      BY <1>1, <1>2, <2>1, <2>3, <3>1, <3>2, <3>3, EndStep
    <3> QED BY <1>3, <2>3, <3>4 DEF Done
  <2>4. CASE EndKeys(t) = {} /\ GoOn("end retry", t) /\ UNCHANGED <<rows, active>>
    <3>1. StartId(t) \notin DOMAIN active
      BY <1>1, <2>4, NoKeyNoEntry
    <3>2. mqtt'.tx = t
      BY <2>4 DEF GoOn
    <3>3. EndHasNoEntry'
      BY <1>4, <2>4, <3>1, <3>2 DEF EndHasNoEntry, StartId, Tgid, StartAt
    <3> QED BY <1>5, <2>1, <2>4, <3>3
  <2> QED BY <1>8, <2>2, <2>3, <2>4 DEF CallEnd, EndKeys
<1>9. CASE CallEndRetry(t)
  <2>1. UNCHANGED <<active, startLate>> /\ StartId(t) \notin DOMAIN active
    <3>1. mqtt.tx = t /\ mqtt.pc = "end retry"
      BY <1>9, HandlerAt DEF CallEndRetry
    <3> QED BY <1>1, <1>9, <3>1 DEF CallEndRetry, EndHasNoEntry
  <2>2. CASE \E r \in FindCallForAudio(Tgid(t), FinalAt(t)) : UpdateCallEnd(r, t) /\ Done
    <3>1. PICK r \in FindCallForAudio(Tgid(t), FinalAt(t)) : UpdateCallEnd(r, t) /\ Done
      BY <2>2
    <3>2. r \in DOMAIN rows /\ RowOf(r, t)
      BY <1>1, FoundIsOwn
    <3>3. FullEndKept' /\ ActiveNotFull'
      BY <1>1, <1>2, <2>1, <3>1, <3>2, EndStep
    <3> QED BY <1>3, <3>1, <3>3 DEF Done
  <2>3. CASE GoOn("end insert", t) /\ UNCHANGED rows
    <3>1. mqtt'.tx = t
      BY <2>3 DEF GoOn
    <3>2. EndHasNoEntry'
      BY <1>4, <2>1, <3>1 DEF EndHasNoEntry, StartId, Tgid, StartAt
    <3> QED BY <1>5, <2>1, <2>3, <3>2
  <2> QED BY <1>9, <2>2, <2>3 DEF CallEndRetry
<1>10. CASE CallEndInsert(t) \/ AudioInsert(t)
  <2>1. PICK id \in {NoId, StartId(t), EndId(t)} : \E end : InsertCall(t, FinalAt(t), id, end, mqtt.seen)
    BY <1>10 DEF CallEndInsert, AudioInsert
  <2>2. UNCHANGED <<active, startLate>> /\ mqtt' = Idle
    BY <1>10 DEF CallEndInsert, AudioInsert, Done
  <2> QED BY <1>1, <1>2, <1>3, <2>1, <2>2, InsertStep
<1>11. CASE Audio(t) \/ AudioRetry(t)
  <2>1. UNCHANGED <<active, startLate>>
    BY <1>11 DEF Audio, AudioRetry
  <2>2. EndHasNoEntry'
    <3>1. mqtt' = Idle \/ GoOn("audio retry", t) \/ GoOn("audio insert", t)
      BY <1>11 DEF Audio, AudioRetry, Done
    <3>2. ASSUME NEW pc \in {"audio retry", "audio insert"}, GoOn(pc, t) PROVE EndHasNoEntry'
      <4>1. mqtt'.pc = pc
        BY <3>2, GoOnIs
      <4> QED BY <4>1 DEF EndHasNoEntry
    <3> QED BY <1>3, <3>1, <3>2
  <2>3. CASE UNCHANGED rows
    BY <1>5, <2>1, <2>2, <2>3
  <2>4. CASE ~ UNCHANGED rows
    <3>1. PICK r \in FindCallForAudio(Tgid(t), FinalAt(t)) : UpdateCallAudio(r, t)
      BY <1>11, <2>4 DEF Audio, AudioRetry
    <3>2. r \in DOMAIN rows /\ RowOf(r, t)
      BY <1>1, <3>1, FoundIsOwn
    <3>3. Kept /\ SameFull
      BY <1>1, <3>1, <3>2, TakesOwn, TakesSame
    <3>4. FullEndKept' /\ ActiveNotFull'
      BY <1>1, <1>2, <2>1, <3>3, SameFullStep DEF Kept
    <3> QED BY <2>2, <3>4
  <2> QED BY <2>3, <2>4
<1> QED BY <1>6, <1>7, <1>8, <1>9, <1>10, <1>11 DEF Handle

\* A file's row has no call_end yet; calls_active leaves full rows alone; the rest
\* changes neither rows nor entries, but for a restart, after which none is left.
LEMMA OtherEnds ==
  ASSUME RaceInv, plan' = plan, [Next]_vars, \A t \in Txs : ~ Handle(t)
  PROVE  FullEndKept' /\ ActiveNotFull' /\ EndHasNoEntry'
<1>1. /\ OwnInv /\ TypeInv /\ ActiveNotFull /\ EndHasNoEntry /\ FullEndKept
  BY DEF RaceInv, OwnInv
<1>2. \A t : StartId(t)' = StartId(t)
  BY PlanMakes
<1>3. mqtt' = Idle => EndHasNoEntry'
  BY DEF EndHasNoEntry, Idle
<1>4. ASSUME mqtt' = mqtt, DOMAIN active' \subseteq DOMAIN active PROVE EndHasNoEntry'
  BY <1>1, <1>2, <1>4 DEF EndHasNoEntry, StartId, Tgid, StartAt
<1>5. UNCHANGED active => LiveKept
  BY DEF LiveKept
<1>6. ASSUME UNCHANGED <<rows, active, startLate>> PROVE FullEndKept' /\ ActiveNotFull'
  BY <1>1, <1>6 DEF FullEndKept, ActiveNotFull
<1>7. ASSUME NEW t \in Txs, Files(t) PROVE FullEndKept' /\ ActiveNotFull' /\ EndHasNoEntry'
  <2>1. UNCHANGED <<active, startLate, mqtt>>
    BY <1>1, <1>7, FileSteps DEF FileVars
  <2>2. EndHasNoEntry'
    BY <1>4, <2>1
  <2>3. CASE UNCHANGED rows
    BY <1>6, <2>1, <2>2, <2>3
  <2>4. CASE FileRetry(t) /\ ~ UNCHANGED rows
    <3>1. PICK r \in FindCallForAudio(Tgid(t), FinalAt(t)) : UpdateCallAudio(r, t)
      BY <2>4 DEF FileRetry
    <3>2. r \in DOMAIN rows /\ RowOf(r, t)
      BY <1>1, <3>1, FoundIsOwn
    <3>3. Kept /\ SameFull
      BY <1>1, <3>1, <3>2, TakesOwn, TakesSame
    <3> QED BY <1>1, <1>5, <2>1, <2>2, <3>3, SameFullStep DEF Kept
  <2>5. CASE FileInsert(t)
    <3>1. InsertCall(t, FinalAt(t), NoId, "audio", watcher.seen)
      BY <2>5 DEF FileInsert
    <3> QED BY <1>1, <1>5, <2>1, <2>2, <3>1, InsertStep
  <2> QED BY <1>7, <2>3, <2>4, <2>5 DEF Files, File
<1>8. CASE CallsActive
  <2>1. PICK written \in SUBSET DOMAIN active :
          rows' = [r \in DOMAIN rows |-> IF r \in {active[k].row : k \in written}
                                         THEN [rows[r] EXCEPT !.end = "estimated"] ELSE rows[r]]
    BY <1>8 DEF CallsActive
  <2>2. UNCHANGED startLate /\ mqtt' = mqtt /\ LiveKept /\ Kept
    BY <1>1, <1>8, ActiveOwns DEF CallsActive
  <2>3. DOMAIN rows' = DOMAIN rows
        /\ \A r \in DOMAIN rows :
              \/ /\ r \in {active[k].row : k \in written}
                 /\ rows'[r] = [rows[r] EXCEPT !.end = "estimated"]
              \/ /\ r \notin {active[k].row : k \in written}
                 /\ rows'[r] = rows[r]
    BY <1>1, <2>1, EstimateIs
  <2>4. \A r \in DOMAIN rows : rows'[r].full = rows[r].full
    BY <1>1, <2>3, RowsType DEF Row
  <2>5. FullEndKept'
    <3> SUFFICES ASSUME NEW r \in DOMAIN rows', rows'[r].full, rows'[r].by \cap startLate' = {}
                 PROVE  rows'[r].end = "full"
      BY DEF FullEndKept
    <3>1. r \in DOMAIN rows /\ rows[r].full /\ rows[r].by \cap startLate = {}
      BY <2>2, <2>3, <2>4 DEF Kept
    <3>2. r \notin {active[k].row : k \in written}
      BY <1>1, <3>1 DEF ActiveNotFull
    <3> QED BY <1>1, <2>3, <3>1, <3>2 DEF FullEndKept
  <2>6. ASSUME NEW k \in DOMAIN active' PROVE EntryIsOpen(k)'
    <3>1. k \in DOMAIN active /\ active'[k] = active[k] /\ EntryIsOpen(k)
      BY <1>1, <2>2 DEF LiveKept, ActiveNotFull, EntryIsOpen
    <3>2. active[k].row \in DOMAIN rows
      BY <1>1, <3>1 DEF OwnInv, ActiveOwned, EntryOf
    <3> QED BY <1>1, <2>2, <2>4, <3>1, <3>2, EntryStays
  <2> QED BY <1>4, <2>2, <2>5, <2>6 DEF LiveKept, ActiveNotFull, EntryIsOpen
<1>9. CASE Radio \/ Report \/ FileFails \/ UNCHANGED vars
  <2>1. UNCHANGED <<rows, active, startLate, mqtt>>
    BY <1>9 DEF Radio, Transmit, EndOfTransmission, Report, ReportActive, FileFails, FileVars, vars
  <2> QED BY <1>4, <1>6, <2>1
<1>10. CASE Abandon
  BY <1>3, <1>6, <1>10 DEF Abandon, Done
<1>11. CASE Restart
  <2>1. UNCHANGED <<rows, startLate>> /\ mqtt' = Idle /\ DOMAIN active' = {}
    BY <1>11 DEF Restart
  <2> QED BY <1>1, <1>3, <2>1 DEF FullEndKept, ActiveNotFull
<1> QED BY <1>7, <1>8, <1>9, <1>10, <1>11 DEF Next

LEMMA NextRace == RaceInv /\ [Next]_vars => RaceInv'
<1> SUFFICES ASSUME RaceInv, [Next]_vars PROVE RaceInv'
  OBVIOUS
<1>1. OwnInv' /\ Corrected' /\ plan' = plan
  BY NextOwn, PlanStays, PlanMakes DEF RaceInv
<1>2. InsertsUnseen' /\ SecondRowRaced'
  BY UnseenStays, SecondStays
<1>3. FullEndKept' /\ ActiveNotFull' /\ EndHasNoEntry'
  BY <1>1, HandlerEnds, OtherEnds
<1> QED BY <1>1, <1>2, <1>3 DEF RaceInv

-----------------------------------------------------------------------------
\* Every state of Calls is well typed, whatever is transmitted: the rows, the entries of
\* the list of live calls and the goroutines are what handler_calls.go makes them.
THEOREM TypeCorrect == Spec => []TypeOK
<1>1. TypeInv => TypeOK
  BY DEF TypeInv
<1> QED BY <1>1, InitType, NextType, PTL DEF Spec

\* If transmissions of a talkgroup are further apart than the tolerance, no handler
\* takes another call's row, whatever is lost, late or corrected (pipeline.go:1625-1628).
THEOREM RowsNeverMixed == Spec /\ Apart => []RowsNotMixed
BY InitOwn, NextOwn, OwnImplies, PTL DEF Spec

\* And an entry of the list of live calls points at a row of its call, at its start
\* there, through corrections, failed statements and restarts (handler_calls.go).
THEOREM LiveCallsAlwaysOwn == Spec /\ Apart => []LiveCallsAreOwn
BY InitOwn, NextOwn, OwnImplies, PTL DEF Spec

\* If starts are corrected by no more than the tolerance, a transmission has a second row
\* only if both handlers looked before either inserted (handler_audio.go:146-151).
THEOREM SecondRowOnlyRaced == Spec /\ Apart /\ Corrected => []SecondRowRaced
<1>1. RaceInv => SecondRowRaced
  BY DEF RaceInv
<1> QED BY <1>1, InitRace, NextRace, PTL DEF Spec

\* And a row that has what call_end said keeps it: no calls_active estimates its end,
\* unless call_start came only after call_end (handler_calls.go).
THEOREM FullEndAlwaysKept == Spec /\ Apart /\ Corrected => []FullEndKept
<1>1. RaceInv => FullEndKept
  BY DEF RaceInv
<1> QED BY <1>1, InitRace, NextRace, PTL DEF Spec
=================================================================================
