-------------------------- MODULE Accounts_proofs ---------------------------
(***************************************************************************)
(* Proofs about Accounts, for any roles in use, requests, updates, numbers *)
(* of accounts, keys and tokens, and lives of tokens.                      *)
(*                                                                         *)
(* That the last administrator stays needs to know what a request about to *)
(* write has found out and nobody has made stale since (CheckedInv); that  *)
(* tokens catch up, how much of its life a token that no longer tells the  *)
(* truth can have left (TokenInv), and that an account has only just been  *)
(* changed if a token is about to say of it what was (SignInv).            *)
(***************************************************************************)
EXTENDS Accounts, FiniteSetTheorems, FunctionTheorems, TLAPS

\* An id not given out yet is no account.
NewInv == \A id \in Id : id > ids => users[id] = NoUser

FiniteInv == IsFiniteSet(keys) /\ IsFiniteSet(access)

\* The update or deletion takes an administrator away.
Removes(q) == q.op = "delete" \/ q.role \notin {"keep", "admin"}
OthersThan(id) == EnabledAdmins(users) \ {id}

CheckedInv ==
  \A r \in Request :
    /\ req[r].pc \in {"read", "count", "write"} => req[r].target \in Id
    /\ req[r].pc = "write" /\ ~req[r].stale /\ Removes(req[r]) =>
         users[req[r].target].role # "admin" \/ OthersThan(req[r].target) # {}

SaysSo(t) == users[t.user].enabled /\ users[t.user].role = t.role
TokenInv == \A t \in access : SaysSo(t) \/ since[t.user] + t.left <= config.accessLife

\* What is about to be signed is so, or was until within the hour.
Recent(q) ==
  /\ q.target \in Id /\ q.role \in Role
  /\ \/ users[q.target].enabled /\ users[q.target].role = q.role
     \/ since[q.target] = 0
SignInv == \A r \in Request : req[r].pc = "sign" => Recent(req[r])

IInv == TypeOK /\ NewInv /\ FiniteInv /\ CheckedInv /\ AdminsStay /\ TokenInv /\ SignInv

Account == [role : Role \cup {"none"}, enabled : BOOLEAN]
Access == [user : Id, role : Role, left : 1 .. config.accessLife]
Asked == [pc : {"idle", "read", "count", "write", "insert", "sign"},
          op : {"none", "update", "delete", "setup", "login", "refresh"},
          target : Id \cup {Nobody}, role : Role \cup {"keep"},
          enabled : {"keep", "yes", "no"}, stale : BOOLEAN]

-----------------------------------------------------------------------------
LEMMA ConfigNumbers ==
  ASSUME config \in Config
  PROVE  /\ MaxId \in Nat /\ config.maxKeys \in Nat /\ config.maxTokens \in Nat
         /\ config.accessLife \in Nat /\ config.refreshLife \in Nat /\ Id = 1 .. MaxId
         /\ config.maxTokens > 0 => config.accessLife > 0 /\ config.refreshLife > 0
         /\ config.requests \subseteq Request /\ config.sessions \subseteq Request
BY AccountsAssumption DEF Id

LEMMA Numbers ==
  ASSUME IInv
  PROVE  /\ config \in Config
         /\ MaxId \in Nat /\ config.maxKeys \in Nat /\ config.maxTokens \in Nat
         /\ config.accessLife \in Nat /\ config.refreshLife \in Nat /\ Id = 1 .. MaxId
         /\ config.maxTokens > 0 => config.accessLife > 0 /\ config.refreshLife > 0
         /\ config.requests \subseteq Request /\ config.sessions \subseteq Request
BY ConfigNumbers DEF IInv, TypeOK

LEMMA IdleIsAsked == Idle \in Asked /\ Idle.pc = "idle"
BY DEF Idle, Asked

LEMMA IInvInit == Init => IInv
<1> SUFFICES ASSUME Init PROVE IInv
  OBVIOUS
<1> USE ConfigNumbers DEF Init
<1>1. TypeOK
  <2>1. Cardinality(keys) = 0
    BY FS_EmptySet
  <2>2. req \in [Request -> Asked]
    BY IdleIsAsked
  <2>3. users \in [Id -> Account]
    BY DEF NoUser, Account
  <2>4. since \in [Id -> 0 .. config.accessLife] /\ Cardinality(keys) <= config.maxKeys /\ ids \in 0 .. MaxId
    BY <2>1
  <2> QED
    BY <2>2, <2>3, <2>4 DEF TypeOK, Account, Asked
<1>2. NewInv /\ FiniteInv
  BY FS_EmptySet DEF NewInv, FiniteInv
<1>3. CheckedInv /\ SignInv
  BY DEF CheckedInv, SignInv, Idle
<1>4. AdminsStay /\ TokenInv
  BY DEF AdminsStay, TokenInv
<1> QED
  BY <1>1, <1>2, <1>3, <1>4 DEF IInv

-----------------------------------------------------------------------------
(* A change of the accounts, and what it needs to be one that keeps an     *)
(* administrator.                                                          *)

LEMMA ChangeInv ==
  ASSUME IInv, NEW u \in [Id -> Account], NEW mine, NEW freely \in BOOLEAN,
         Change(u, mine, freely), config' = config,
         ids' \in 0 .. MaxId, \A id \in Id : id > ids' => u[id] = NoUser,
         keys' \subseteq keys, access' \subseteq access, refresh' \subseteq refresh,
         ~freely /\ EnabledAdmins(users) # {} => EnabledAdmins(u) # {}
  PROVE  IInv'
<1> USE Numbers
<1>0. req \in [Request -> Asked]
  BY DEF IInv, TypeOK, Asked
<1>1. users' = u /\ NewInv'
  BY DEF Change, NewInv
<1>2. FiniteInv' /\ Cardinality(keys') <= config.maxKeys
  <2>1. IsFiniteSet(keys') /\ Cardinality(keys') <= Cardinality(keys) /\ IsFiniteSet(access')
    BY FS_Subset DEF IInv, FiniteInv
  <2>2. Cardinality(keys) \in Nat /\ Cardinality(keys') \in Nat /\ Cardinality(keys) <= config.maxKeys
    BY <2>1, FS_CardinalityType DEF IInv, FiniteInv, TypeOK
  <2> QED
    BY <2>1, <2>2 DEF FiniteInv
<1>3. \A r \in Request : \/ req'[r] = Idle
                         \/ req'[r] = req[r] /\ req[r].pc = "idle"
                         \/ req'[r] = [req[r] EXCEPT !.stale = TRUE]
  <2>1. req' = [r \in Request |->
                 IF r \in mine THEN Idle
                 ELSE IF req[r].pc = "idle" THEN req[r]
                 ELSE [req[r] EXCEPT !.stale = TRUE]]
    BY DEF Change
  <2>2. \A r \in Request : req'[r] = IF r \in mine THEN Idle
                                     ELSE IF req[r].pc = "idle" THEN req[r]
                                     ELSE [req[r] EXCEPT !.stale = TRUE]
    BY ONLY <2>1, Zenon
  <2> QED
    BY ONLY <2>2, Zenon
<1>4. TypeOK'
  <2>1. req' \in [Request -> Asked]
    <3>1. \A r \in Request : req'[r] \in Asked
      <4>1. \A q \in Asked : [q EXCEPT !.stale = TRUE] \in Asked
        BY DEF Asked
      <4>2. \A r \in Request : req[r] \in Asked
        BY <1>0
      <4> QED
        BY <1>3, <4>1, <4>2, IdleIsAsked
    <3>2. req' = [r \in Request |-> req'[r]]
      BY Zenon DEF Change
    <3> QED
      BY <3>1, <3>2
  <2>2. since' \in [Id -> 0 .. config.accessLife]
    BY DEF Change, IInv, TypeOK
  <2>3. begun' \in BOOLEAN /\ excused' \in BOOLEAN
    BY DEF Change, IInv, TypeOK
  <2>4. keys' \subseteq [owner : Id \cup {Nobody}, role : Role] /\ access' \subseteq Access
        /\ refresh' \subseteq [user : Id, left : 1 .. config.refreshLife]
    BY DEF IInv, TypeOK, Access
  <2> QED
    BY <1>1, <1>2, <2>1, <2>2, <2>3, <2>4 DEF TypeOK, Account, Access, Asked
<1>5. CheckedInv'
  <2> SUFFICES ASSUME NEW r \in Request
               PROVE  /\ req'[r].pc \in {"read", "count", "write"} => req'[r].target \in Id
                      /\ req'[r].pc # "write" \/ req'[r].stale
    BY DEF CheckedInv
  <2>1. req[r] \in Asked
    BY <1>0
  <2>2. CASE req'[r] = [req[r] EXCEPT !.stale = TRUE]
    <3>1. req'[r].pc = req[r].pc /\ req'[r].target = req[r].target /\ req'[r].stale
      BY <2>1, <2>2 DEF Asked
    <3> QED
      BY <3>1 DEF IInv, CheckedInv
  <2> QED
    BY <1>3, <2>2, IdleIsAsked
<1>6. AdminsStay'
  <2>1. EnabledAdmins(users)' = EnabledAdmins(u)
    BY <1>1 DEF EnabledAdmins
  <2>2. CASE EnabledAdmins(u) # {}
    BY <2>1, <2>2 DEF AdminsStay
  <2>3. CASE EnabledAdmins(u) = {}
    <3>1. begun' = begun /\ excused' = (excused \/ freely)
      BY <2>3 DEF Change, IInv, TypeOK
    <3> QED
      BY <2>3, <3>1 DEF AdminsStay, IInv
  <2> QED
    BY <2>2, <2>3
<1>7. TokenInv'
  <2> SUFFICES ASSUME NEW t \in access PROVE SaysSo(t)' \/ since'[t.user] + t.left <= config.accessLife
    BY DEF TokenInv
  <2>1. t.user \in Id /\ t.left \in 1 .. config.accessLife
    BY DEF IInv, TypeOK
  <2>2. CASE u[t.user] = users[t.user]
    <3>1. since'[t.user] = since[t.user] /\ users'[t.user] = users[t.user]
      BY <1>1, <2>1, <2>2 DEF Change
    <3> QED
      BY <3>1 DEF IInv, TokenInv, SaysSo
  <2>3. CASE u[t.user] # users[t.user]
    <3>1. since'[t.user] = 0
      BY <2>1, <2>3 DEF Change
    <3> QED
      BY <2>1, <3>1
  <2> QED
    BY <2>2, <2>3
<1>8. SignInv'
  <2> SUFFICES ASSUME NEW r \in Request, req'[r].pc = "sign" PROVE Recent(req[r])'
    BY DEF SignInv
  <2>1. req[r] \in Asked /\ req'[r] # Idle
    BY <1>0, IdleIsAsked
  <2>2. req[r].pc = "sign" /\ req'[r].target = req[r].target /\ req'[r].role = req[r].role
    BY <1>3, <2>1 DEF Asked
  <2> DEFINE id == req[r].target
  <2>3. Recent(req[r]) /\ id \in Id
    BY <2>2 DEF IInv, SignInv, Recent
  <2>4. since'[id] = IF u[id] # users[id] THEN 0 ELSE since[id]
    BY <2>3 DEF Change
  <2>5. u[id] # users[id] \/ users'[id] = users[id]
    BY <1>1
  <2> QED
    BY <2>2, <2>3, <2>4, <2>5 DEF Recent
<1> QED
  BY <1>1, <1>2, <1>4, <1>5, <1>6, <1>7, <1>8 DEF IInv

\* A new account takes the place of none.
LEMMA NewAccount ==
  ASSUME IInv, NEW role \in Role, ids < MaxId
  PROVE  /\ WithNew(role) \in [Id -> Account]
         /\ ids + 1 \in Id /\ ids + 1 \in 0 .. MaxId
         /\ \A id \in Id : id > ids + 1 => WithNew(role)[id] = NoUser
         /\ EnabledAdmins(users) \subseteq EnabledAdmins(WithNew(role))
         /\ role = "admin" => ids + 1 \in EnabledAdmins(WithNew(role))
<1>1. ids \in Nat /\ ids + 1 \in Id /\ ids + 1 \in 0 .. MaxId /\ ids + 1 > ids
  BY Numbers DEF IInv, TypeOK
<1>2. \A id \in Id : id > ids + 1 => id > ids /\ id # ids + 1
  BY <1>1, Numbers
<1>3. users \in [Id -> Account]
  BY DEF IInv, TypeOK, Account
<1>4. users[ids + 1] = NoUser
  BY <1>1 DEF IInv, NewInv
<1>5. WithNew(role) \in [Id -> Account]
  BY <1>3 DEF WithNew, Account
<1>6. \A id \in Id : WithNew(role)[id] = IF id = ids + 1 THEN [role |-> role, enabled |-> TRUE]
                                        ELSE users[id]
  BY <1>3 DEF WithNew
<1>7. ids + 1 \notin EnabledAdmins(users)
  BY <1>4 DEF EnabledAdmins, NoUser
<1>8. \A id \in Id : id > ids + 1 => WithNew(role)[id] = NoUser
  BY <1>2, <1>6 DEF IInv, NewInv
<1> QED
  BY <1>1, <1>5, <1>6, <1>7, <1>8 DEF EnabledAdmins

\* An update that is not excused leaves an administrator.
LEMMA UpdateKeepsOne ==
  ASSUME IInv, NEW r \in Request, req[r].pc = "write",
         NEW u \in [Id -> Account],
         \A id \in Id \ {req[r].target} : u[id] = users[id],
         ~req[r].stale, EnabledAdmins(users) # {},
         \/ Removes(req[r])
         \/ /\ u[req[r].target].role \in {users[req[r].target].role, "admin"}
            /\ u[req[r].target].enabled \in {users[req[r].target].enabled, TRUE}
  PROVE  EnabledAdmins(u) # {}
<1> DEFINE id == req[r].target
<1>1. id \in Id
  BY DEF IInv, CheckedInv
<1>2. PICK a \in Id : users[a].role = "admin" /\ users[a].enabled
  BY DEF EnabledAdmins
<1>3. CASE Removes(req[r])
  <2>1. users[id].role # "admin" \/ OthersThan(id) # {}
    BY <1>3 DEF IInv, CheckedInv
  <2>2. \E b \in Id \ {id} : users[b].role = "admin" /\ users[b].enabled
    BY <1>2, <2>1 DEF OthersThan, EnabledAdmins
  <2> QED
    BY <2>2 DEF EnabledAdmins
<1>4. CASE ~Removes(req[r])
  <2>1. u[a].role = "admin" /\ u[a].enabled
    BY <1>2, <1>4
  <2> QED
    BY <2>1 DEF EnabledAdmins
<1> QED
  BY <1>3, <1>4

-----------------------------------------------------------------------------
(* Steps that change no account.                                           *)

LEMMA RequestStep ==
  ASSUME IInv, NEW r \in Request, NEW q \in Asked, req' = [req EXCEPT ![r] = q],
         UNCHANGED <<config, users, ids, tokens, begun, excused, since>>,
         q.pc \in {"read", "count", "write"} => q.target \in Id,
         q.pc = "write" /\ ~q.stale /\ Removes(q) =>
           users[q.target].role # "admin" \/ OthersThan(q.target) # {},
         q.pc = "sign" => Recent(q)
  PROVE  IInv'
<1>1. req \in [Request -> Asked]
  BY DEF IInv, TypeOK, Asked
<1>2. req' \in [Request -> Asked] /\ \A s \in Request : req'[s] = IF s = r THEN q ELSE req[s]
  BY <1>1
<1>3. TypeOK'
  BY <1>2 DEF IInv, TypeOK, Asked, tokens
<1>4. CheckedInv'
  <2> SUFFICES ASSUME NEW s \in Request
               PROVE  /\ req'[s].pc \in {"read", "count", "write"} => req'[s].target \in Id
                      /\ req'[s].pc = "write" /\ ~req'[s].stale /\ Removes(req'[s]) =>
                           users[req'[s].target].role # "admin" \/ OthersThan(req'[s].target) # {}
    BY DEF CheckedInv, OthersThan, Removes, EnabledAdmins
  <2>1. CASE s = r
    BY <1>2, <2>1
  <2>2. CASE s # r
    BY <1>2, <2>2 DEF IInv, CheckedInv
  <2> QED
    BY <2>1, <2>2
<1>5. NewInv' /\ FiniteInv' /\ AdminsStay' /\ TokenInv'
  BY DEF IInv, NewInv, FiniteInv, AdminsStay, TokenInv, SaysSo, EnabledAdmins, tokens
<1>6. SignInv'
  <2> SUFFICES ASSUME NEW s \in Request, req'[s].pc = "sign" PROVE Recent(req[s])'
    BY DEF SignInv
  <2>1. Recent(req'[s])
    BY <1>2 DEF IInv, SignInv
  <2> QED
    BY <2>1 DEF Recent
<1> QED
  BY <1>3, <1>4, <1>5, <1>6 DEF IInv

\* What the other steps leave alone: they end a request at most.
Steady ==
  /\ UNCHANGED <<config, users, ids, begun, excused>>
  /\ req' \in [Request -> Asked] /\ \A r \in Request : req'[r] \in {req[r], Idle}

LEMMA SameRequests ==
  ASSUME IInv, UNCHANGED <<config, users, ids, req, begun, excused>>
  PROVE  Steady
BY DEF Steady, IInv, TypeOK, Asked

LEMMA SteadyStep ==
  ASSUME IInv, Steady,
         keys' \subseteq [owner : Id \cup {Nobody}, role : Role],
         IsFiniteSet(keys'), Cardinality(keys') <= config.maxKeys,
         access' \subseteq Access, IsFiniteSet(access'),
         refresh' \subseteq [user : Id, left : 1 .. config.refreshLife],
         since' \in [Id -> 0 .. config.accessLife], TokenInv',
         since' = since \/ \A r \in Request : req[r] = Idle
  PROVE  IInv'
<1>1. TypeOK'
  BY DEF Steady, IInv, TypeOK, Access, Asked
<1>2. NewInv' /\ FiniteInv' /\ AdminsStay'
  BY DEF Steady, IInv, NewInv, FiniteInv, AdminsStay, EnabledAdmins
<1>3. CheckedInv'
  <2> SUFFICES ASSUME NEW r \in Request
               PROVE  /\ req'[r].pc \in {"read", "count", "write"} => req'[r].target \in Id
                      /\ req'[r].pc = "write" /\ ~req'[r].stale /\ Removes(req'[r]) =>
                           users[req'[r].target].role # "admin" \/ OthersThan(req'[r].target) # {}
    BY DEF Steady, CheckedInv, OthersThan, Removes, EnabledAdmins
  <2>1. CASE req'[r] = req[r]
    BY <2>1 DEF IInv, CheckedInv
  <2>2. CASE req'[r] = Idle
    BY <2>2, IdleIsAsked
  <2> QED
    BY <2>1, <2>2 DEF Steady
<1>4. SignInv'
  <2> SUFFICES ASSUME NEW r \in Request, req'[r].pc = "sign" PROVE Recent(req[r])'
    BY DEF SignInv
  <2>1. req'[r] = req[r] /\ req[r] # Idle
    BY IdleIsAsked DEF Steady
  <2>2. Recent(req[r]) /\ since' = since /\ users' = users
    BY <2>1 DEF IInv, SignInv, Steady
  <2> QED
    BY <2>1, <2>2 DEF Recent
<1> QED
  BY <1>1, <1>2, <1>3, <1>4 DEF IInv

LEMMA KeysNow ==
  ASSUME IInv
  PROVE  /\ keys \subseteq [owner : Id \cup {Nobody}, role : Role] /\ IsFiniteSet(keys)
         /\ Cardinality(keys) <= config.maxKeys /\ Cardinality(keys) \in Nat
         /\ access \subseteq Access /\ IsFiniteSet(access)
         /\ refresh \subseteq [user : Id, left : 1 .. config.refreshLife]
         /\ since \in [Id -> 0 .. config.accessLife] /\ TokenInv
BY FS_CardinalityType DEF IInv, TypeOK, FiniteInv, Access

\* A request that is over leaves the others as they are.
LEMMA OverIsSteady ==
  ASSUME IInv, NEW r \in Request, req' = [req EXCEPT ![r] = Idle],
         UNCHANGED <<config, users, ids, begun, excused>>
  PROVE  Steady
BY IdleIsAsked DEF Steady, IInv, TypeOK, Asked

\* What is signed is so, or has its whole life to go when the account was just changed.
LEMMA IssueStep ==
  ASSUME IInv, config' = config, NEW r \in Request, Issue(r)
  PROVE  IInv'
<1> DEFINE q == req[r]
           t == [user |-> q.target, role |-> q.role, left |-> config.accessLife]
           c == [user |-> q.target, left |-> config.refreshLife]
<1>0. q.pc = "sign" /\ Recent(q) /\ q.target \in Id /\ q.role \in Role
  BY DEF Issue, IInv, SignInv, Recent
<1>1. access' = access \cup {t} /\ Cardinality(access') <= config.maxTokens
  BY DEF Issue
<1>2. IsFiniteSet(access')
  BY <1>1, KeysNow, FS_AddElement
<1>3. Cardinality(access') \in Nat /\ Cardinality(access') # 0
  BY <1>1, <1>2, FS_CardinalityType, FS_EmptySet
<1>4. config.maxTokens > 0 /\ config.accessLife > 0 /\ config.refreshLife > 0
  BY <1>1, <1>3, Numbers, AccountsAssumption
<1>5. access' \subseteq Access
  BY <1>0, <1>1, <1>4, Numbers, KeysNow DEF Access
<1>6. refresh' \subseteq [user : Id, left : 1 .. config.refreshLife]
  <2>1. c \in [user : Id, left : 1 .. config.refreshLife]
    BY <1>0, <1>4, Numbers
  <2>2. refresh' \subseteq refresh \cup {c}
    BY DEF Issue
  <2> QED
    BY <2>1, <2>2, KeysNow
<1>7. TokenInv'
  <2> SUFFICES ASSUME NEW a \in access' PROVE SaysSo(a)' \/ since'[a.user] + a.left <= config.accessLife
    BY DEF TokenInv
  <2>0. users' = users /\ since' = since
    BY DEF Issue
  <2>1. CASE a = t
    <3>1. a.user = q.target /\ a.role = q.role /\ a.left = config.accessLife
      BY <2>1
    <3>2. SaysSo(a) \/ since[a.user] = 0
      BY <1>0, <3>1 DEF Recent, SaysSo
    <3> QED
      BY <2>0, <3>1, <3>2, Numbers DEF SaysSo
  <2>2. CASE a \in access
    BY <2>0, <2>2, KeysNow DEF TokenInv, SaysSo
  <2> QED
    BY <1>1, <2>1, <2>2
<1>8. Steady /\ UNCHANGED <<keys, since>>
  BY OverIsSteady DEF Issue
<1> QED
  BY <1>2, <1>5, <1>6, <1>7, <1>8, KeysNow, SteadyStep

LEMMA SessionStep ==
  ASSUME IInv, config' = config
  PROVE  /\ \A r \in Request : Login(r) \/ Refresh(r) \/ Issue(r) \/ Refuse(r) => IInv'
         /\ \A t \in refresh : Logout(t) => IInv'
<1>1. ASSUME NEW r \in Request, NEW op \in {"login", "refresh"}, NEW id \in Id,
             Exists(users, id), users[id].enabled, Sessions(r, op, id)
      PROVE  IInv'
  <2> DEFINE q == [Idle EXCEPT !.pc = "sign", !.op = op, !.target = id, !.role = users[id].role]
  <2>1. users[id].role \in Role
    BY <1>1 DEF Exists, IInv, TypeOK
  <2>2. q \in Asked /\ q.pc = "sign" /\ q.target = id /\ q.role = users[id].role
    BY <2>1 DEF Idle, Asked
  <2> HIDE DEF q
  <2>3. Recent(q)
    BY <1>1, <2>1, <2>2 DEF Recent
  <2>4. req' = [req EXCEPT ![r] = q]
    BY <1>1 DEF Sessions, q
  <2> QED
    BY <1>1, <2>2, <2>3, <2>4, RequestStep DEF Sessions
<1>2. ASSUME NEW r \in Request, Login(r) PROVE IInv'
  BY <1>1, <1>2 DEF Login
<1>3. ASSUME NEW r \in Request, Refresh(r) PROVE IInv'
  <2>1. PICK t \in refresh : Exists(users, t.user) /\ users[t.user].enabled /\ Sessions(r, "refresh", t.user)
    BY <1>3 DEF Refresh
  <2>2. t.user \in Id
    BY KeysNow
  <2> QED
    BY <1>1, <2>1, <2>2
<1>4. ASSUME NEW r \in Request, Refuse(r) PROVE IInv'
  BY <1>4, IdleIsAsked, RequestStep DEF Refuse
<1>5. ASSUME NEW t \in refresh, Logout(t) PROVE IInv'
  <2>1. TokenInv'
    BY <1>5, KeysNow DEF Logout, TokenInv, SaysSo
  <2> QED
    BY <1>5, <2>1, KeysNow, SameRequests, SteadyStep DEF Logout
<1> QED
  BY <1>2, <1>3, <1>4, <1>5, IssueStep

LEMMA TickStep ==
  ASSUME IInv, Tick, config' = config
  PROVE  IInv'
<1> DEFINE older(t) == [t EXCEPT !.left = @ - 1]
<1>1. /\ access' = {older(t) : t \in {a \in access : a.left > 1}}
      /\ refresh' = {older(t) : t \in {a \in refresh : a.left > 1}}
      /\ since' = [id \in Id |-> IF since[id] < config.accessLife THEN since[id] + 1 ELSE config.accessLife]
      /\ Steady /\ UNCHANGED keys /\ \A r \in Request : req[r] = Idle
  BY SameRequests DEF Tick
<1>2. \A t \in Access : t.left > 1 =>
         older(t) \in Access /\ older(t).user = t.user /\ older(t).role = t.role
         /\ older(t).left = t.left - 1
  BY Numbers DEF Access
<1>3. \A t \in [user : Id, left : 1 .. config.refreshLife] : t.left > 1 =>
         older(t) \in [user : Id, left : 1 .. config.refreshLife]
  BY Numbers
<1>4. access' \subseteq Access
  BY <1>1, <1>2, KeysNow
<1>5. refresh' \subseteq [user : Id, left : 1 .. config.refreshLife]
  BY <1>1, <1>3, KeysNow
<1>6. IsFiniteSet(access')
  <2>1. IsFiniteSet({a \in access : a.left > 1})
    BY KeysNow, FS_Subset
  <2> DEFINE A == {a \in access : a.left > 1}
             f == [t \in A |-> older(t)]
  <2>2. f \in [A -> access'] /\ \A b \in access' : \E t \in A : f[t] = b
    BY <1>1
  <2>3. f \in Surjection(A, access')
    BY <2>2, Fun_IsSurj
  <2> QED
    BY <2>1, <2>3, FS_Surjection
<1>7. since' \in [Id -> 0 .. config.accessLife]
  BY <1>1, KeysNow, Numbers
<1>8. TokenInv'
  <2> SUFFICES ASSUME NEW a \in access'
               PROVE  SaysSo(a)' \/ since'[a.user] + a.left <= config.accessLife
    BY DEF TokenInv
  <2>0. PICK t \in access : t.left > 1 /\ a = older(t)
    BY <1>1
  <2>00. a.user = t.user /\ a.role = t.role /\ a.left = t.left - 1 /\ users' = users
    BY <1>1, <1>2, <2>0, KeysNow DEF Steady
  <2> HIDE DEF older
  <2>1. t.user \in Id /\ t.left \in Nat /\ since[t.user] \in 0 .. config.accessLife
    BY KeysNow, Numbers DEF Access
  <2>2. SaysSo(t) \/ since[t.user] + t.left <= config.accessLife
    BY KeysNow DEF TokenInv
  <2>3. since'[t.user] = IF since[t.user] < config.accessLife THEN since[t.user] + 1 ELSE config.accessLife
    BY <1>1, <2>1
  <2>4. CASE SaysSo(t)
    BY <2>00, <2>4 DEF SaysSo
  <2>5. CASE ~SaysSo(t)
    <3>1. since[t.user] < config.accessLife
      BY <2>0, <2>1, <2>2, <2>5, Numbers
    <3> QED
      BY <2>00, <2>1, <2>2, <2>3, <2>5, <3>1, Numbers
  <2> QED
    BY <2>4, <2>5
<1> QED
  BY <1>1, <1>4, <1>5, <1>6, <1>7, <1>8, KeysNow, SteadyStep

LEMMA KeyStep ==
  ASSUME IInv, config' = config, CreateKey \/ CreateServiceAccount \/ DeleteKey
  PROVE  IInv'
<1>1. ASSUME NEW owner \in Id \cup {Nobody}, NEW role \in Role, AddKey(owner, role) PROVE IInv'
  <2>1. keys' = keys \cup {[owner |-> owner, role |-> role]} /\ Cardinality(keys) < config.maxKeys
    BY <1>1 DEF AddKey
  <2>2. IsFiniteSet(keys') /\ Cardinality(keys') <= Cardinality(keys) + 1
    <3>1. IsFiniteSet(keys) /\ Cardinality(keys) \in Nat
      BY KeysNow
    <3>2. IsFiniteSet(keys') /\ Cardinality(keys') \in {Cardinality(keys), Cardinality(keys) + 1}
      BY <2>1, <3>1, FS_AddElement
    <3> QED
      BY <3>1, <3>2
  <2>3. Cardinality(keys') <= config.maxKeys
    BY <2>1, <2>2, KeysNow, Numbers, FS_CardinalityType
  <2>4. UNCHANGED <<access, refresh, since>> /\ Steady /\ TokenInv'
    BY <1>1, KeysNow, SameRequests DEF AddKey, TokenInv, SaysSo
  <2> QED
    BY <2>1, <2>2, <2>3, <2>4, KeysNow, SteadyStep
<1>2. CASE CreateKey
  <2>1. PICK c \in WriteAuth, role \in Role :
          c.user # Nobody /\ Exists(users, c.user) /\ AddKey(c.user, role)
    BY <1>2 DEF CreateKey
  <2>2. c.user \in Id \cup {Nobody}
    BY KeysNow DEF WriteAuth, JWTOrTokenAuth, Access
  <2> QED
    BY <1>1, <2>1, <2>2
<1>3. CASE CreateServiceAccount
  BY <1>1, <1>3 DEF CreateServiceAccount
<1>4. CASE DeleteKey
  <2>1. PICK k \in keys : keys' = keys \ {k}
    BY <1>4 DEF DeleteKey
  <2>2. IsFiniteSet(keys') /\ Cardinality(keys') <= Cardinality(keys)
    BY <2>1, KeysNow, FS_Subset
  <2>3. Cardinality(keys') <= config.maxKeys
    BY <2>2, KeysNow, Numbers, FS_CardinalityType
  <2>4. UNCHANGED <<access, refresh, since>> /\ Steady /\ TokenInv'
    BY <1>4, KeysNow, SameRequests DEF DeleteKey, TokenInv, SaysSo
  <2> QED
    BY <2>1, <2>2, <2>3, <2>4, KeysNow, SteadyStep
<1> QED
  BY <1>2, <1>3, <1>4

-----------------------------------------------------------------------------
(* Every step.                                                             *)

LEMMA RequestsStep ==
  ASSUME IInv, config' = config, NEW r \in Request, Setup(r) \/ Update(r) \/ Delete(r) \/ ReadTarget(r) \/ CheckLast(r)
  PROVE  IInv'
<1>0. /\ req \in [Request -> Asked] /\ req[r] \in Asked
      /\ users \in [Id -> Account]
  BY DEF IInv, TypeOK, Asked, Account
<1>1. CASE Setup(r)
  <2> DEFINE q == [Idle EXCEPT !.pc = "insert", !.op = "setup"]
  <2>1. q \in Asked /\ q.pc = "insert"
    BY DEF Idle, Asked
  <2> QED
    BY <1>1, <2>1, RequestStep DEF Setup
<1>2. CASE Update(r)
  <2>1. PICK id \in Id, u \in Updates :
          req' = [req EXCEPT ![r] =
            [Idle EXCEPT !.op = "update", !.target = id, !.role = u.role, !.enabled = u.enabled,
                         !.pc = IF u.role \in {"keep", "admin"} THEN "write" ELSE "read"]]
    BY <1>2 DEF Update
  <2> DEFINE q == [Idle EXCEPT !.op = "update", !.target = id, !.role = u.role,
                               !.enabled = u.enabled,
                               !.pc = IF u.role \in {"keep", "admin"} THEN "write" ELSE "read"]
  <2>2. u.role \in Role \cup {"keep"} /\ u.enabled \in {"keep", "yes", "no"}
    BY AccountsAssumption
  <2>3. /\ q \in Asked /\ q.target = id /\ q.op = "update" /\ q.role = u.role
        /\ q.pc = IF u.role \in {"keep", "admin"} THEN "write" ELSE "read"
    BY <2>2 DEF Idle, Asked
  <2>4. q.pc = "write" => ~Removes(q)
    BY <2>3 DEF Removes
  <2> HIDE DEF q
  <2>5. req' = [req EXCEPT ![r] = q]
    BY <2>1 DEF q
  <2> QED
    BY <1>2, <2>3, <2>4, <2>5, RequestStep DEF Update
<1>3. CASE Delete(r)
  <2>1. PICK id \in Id :
          req' = [req EXCEPT ![r] = [Idle EXCEPT !.op = "delete", !.target = id, !.pc = "read"]]
    BY <1>3 DEF Delete
  <2> DEFINE q == [Idle EXCEPT !.op = "delete", !.target = id, !.pc = "read"]
  <2>2. q \in Asked /\ q.target = id /\ q.pc = "read"
    BY DEF Idle, Asked
  <2> HIDE DEF q
  <2>3. req' = [req EXCEPT ![r] = q]
    BY <2>1 DEF q
  <2> QED
    BY <1>3, <2>2, <2>3, RequestStep DEF Delete
<1>4. CASE ReadTarget(r)
  <2> DEFINE target == users[req[r].target]
             q == IF target.role = "none" THEN Idle
                  ELSE [req[r] EXCEPT !.pc = IF target.role = "admin" THEN "count" ELSE "write"]
  <2>1. req[r].target \in Id
    BY <1>4 DEF ReadTarget, IInv, CheckedInv
  <2>2. CASE target.role = "none"
    <3>1. req' = [req EXCEPT ![r] = Idle]
      BY <1>0, <1>4, <2>2 DEF ReadTarget
    <3> QED
      BY <1>4, <3>1, IdleIsAsked, RequestStep DEF ReadTarget
  <2>3. CASE target.role # "none"
    <3>1. /\ q \in Asked /\ q.target = req[r].target
          /\ q.pc = IF target.role = "admin" THEN "count" ELSE "write"
      BY <1>0, <2>3 DEF Asked
    <3>2. req' = [req EXCEPT ![r] = q]
      BY <1>0, <1>4, <2>3 DEF ReadTarget
    <3> HIDE DEF q
    <3>3. q.pc = "write" => users[q.target].role # "admin"
      BY <3>1
    <3> QED
      BY <1>4, <2>1, <3>1, <3>2, <3>3, RequestStep DEF ReadTarget
  <2> QED
    BY <2>2, <2>3
<1>5. CASE CheckLast(r)
  <2> DEFINE id == req[r].target
             q == [req[r] EXCEPT !.pc = "write"]
  <2>1. id \in Id
    BY <1>5 DEF CheckLast, IInv, CheckedInv
  <2>2. CASE CountAdmins <= 1
    <3>1. req' = [req EXCEPT ![r] = Idle]
      BY <1>5, <2>2 DEF CheckLast
    <3> QED
      BY <1>5, <3>1, IdleIsAsked, RequestStep DEF CheckLast
  <2>3. CASE ~(CountAdmins <= 1)
    <3>1. q \in Asked /\ q.target = id /\ q.pc = "write"
      BY <1>0 DEF Asked
    <3>2. OthersThan(id) # {}
      <4> SUFFICES ASSUME EnabledAdmins(users) \subseteq {id} PROVE CountAdmins <= 1
        BY <2>3 DEF OthersThan
      <4>1. IsFiniteSet({id}) /\ Cardinality({id}) = 1
        BY FS_Singleton
      <4> QED
        BY <4>1, FS_Subset DEF CountAdmins
    <3>3. req' = [req EXCEPT ![r] = q]
      BY <1>0, <1>5, <2>3 DEF CheckLast
    <3> HIDE DEF q
    <3> QED
      BY <1>5, <2>1, <3>1, <3>2, <3>3, RequestStep DEF CheckLast
  <2> QED
    BY <2>2, <2>3
<1> QED
  BY <1>1, <1>2, <1>3, <1>4, <1>5

LEMMA NewStep ==
  ASSUME IInv, config' = config, NEW role \in Role, NEW mine, ids < MaxId, ids' = ids + 1,
         Change(WithNew(role), mine, FALSE), keys' = keys, access' \subseteq access,
         refresh' \subseteq refresh
  PROVE  IInv'
<1> DEFINE u == WithNew(role)
<1>1. /\ u \in [Id -> Account] /\ ids' \in 0 .. MaxId
      /\ \A id \in Id : id > ids' => u[id] = NoUser
      /\ EnabledAdmins(users) \subseteq EnabledAdmins(u)
  BY NewAccount
<1> HIDE DEF u
<1>2. Change(u, mine, FALSE)
  BY DEF u
<1>3. EnabledAdmins(users) # {} => EnabledAdmins(u) # {}
  BY <1>1
<1> QED
  BY <1>1, <1>2, <1>3, ChangeInv

LEMMA NobodyIsGiven == [id \in Id |-> NoUser] \in [Id -> Account]
BY DEF NoUser, Account

\* No request that keeps to what it read takes the last administrator.
LEMMA WriteStep ==
  ASSUME IInv, config' = config, NEW r \in Request, UpdateUser(r) \/ DeleteUser(r)
  PROVE  IInv'
<1> DEFINE q == req[r]
<1>0. /\ q \in Asked /\ users \in [Id -> Account] /\ ids \in 0 .. MaxId
      /\ "admin" \in Role /\ Role \subseteq {"viewer", "editor", "admin"}
  BY AccountsAssumption DEF IInv, TypeOK, Asked, Account
<1>1. q.pc = "write" /\ q.target \in Id
  BY DEF UpdateUser, DeleteUser, IInv, CheckedInv
<1>2. CASE UpdateUser(r)
  <2> DEFINE old == users[q.target]
             new == [old EXCEPT !.role = IF q.role = "keep" THEN @ ELSE q.role,
                                !.enabled = IF q.enabled = "keep" THEN @ ELSE q.enabled = "yes"]
             u == IF old = NoUser THEN users ELSE [users EXCEPT ![q.target] = new]
             freely == q.stale \/ q.enabled = "no"
  <2>0. q.op = "update" /\ Change(u, {r}, freely) /\ UNCHANGED <<ids, tokens>>
    BY <1>2 DEF UpdateUser
  <2>1. /\ new \in Account
        /\ new.role = IF q.role = "keep" THEN old.role ELSE q.role
        /\ new.enabled = IF q.enabled = "keep" THEN old.enabled ELSE q.enabled = "yes"
    <3>1. old \in Account /\ q.role \in Role \cup {"keep"} /\ q.enabled \in {"keep", "yes", "no"}
      BY <1>0, <1>1 DEF Asked
    <3> QED
      BY <3>1 DEF Account
  <2> HIDE DEF new
  <2>2. u \in [Id -> Account] /\ \A id \in Id \ {q.target} : u[id] = users[id]
    BY <1>0, <1>1, <2>1
  <2>3. \A id \in Id : id > ids' => u[id] = NoUser
    BY <1>0, <1>1, <2>0 DEF IInv, NewInv
  <2>4. u[q.target] = IF old = NoUser THEN old ELSE new
    BY <1>0, <1>1
  <2>5. \/ Removes(q)
        \/ freely
        \/ /\ u[q.target].role \in {old.role, "admin"}
           /\ u[q.target].enabled \in {old.enabled, TRUE}
    <3>1. u[q.target] \in {old, new}
      BY <2>4
    <3>2. q.role \in {"keep", "admin"} => new.role \in {old.role, "admin"}
      BY <2>1
    <3>3. q.enabled \in {"keep", "yes"} => new.enabled \in {old.enabled, TRUE}
      BY <2>1
    <3>4. q.enabled \in {"keep", "yes", "no"}
      BY <1>0 DEF Asked
    <3> HIDE DEF u, old
    <3> QED
      BY <3>1, <3>2, <3>3, <3>4 DEF Removes
  <2> HIDE DEF u
  <2>6. ~freely /\ EnabledAdmins(users) # {} => EnabledAdmins(u) # {}
    BY <1>1, <2>2, <2>5, UpdateKeepsOne
  <2>7. freely \in BOOLEAN
    BY <1>0 DEF Asked
  <2>8. ids' \in 0 .. MaxId /\ keys' \subseteq keys /\ access' \subseteq access
        /\ refresh' \subseteq refresh
    BY <1>0, <2>0 DEF tokens
  <2> HIDE DEF freely
  <2> QED
    BY <2>0, <2>2, <2>3, <2>6, <2>7, <2>8, ChangeInv
<1>3. CASE DeleteUser(r)
  <2> DEFINE u == [users EXCEPT ![q.target] = NoUser]
  <2>0. /\ q.op = "delete" /\ Change(u, {r}, q.stale)
        /\ ids' \in 0 .. MaxId /\ keys' \subseteq keys /\ access' \subseteq access
        /\ refresh' \subseteq refresh /\ ids' = ids
    BY <1>0, <1>3 DEF DeleteUser
  <2>1. u \in [Id -> Account] /\ \A id \in Id \ {q.target} : u[id] = users[id]
    BY <1>0, <1>1 DEF NoUser, Account
  <2>2. \A id \in Id : id > ids' => u[id] = NoUser
    BY <1>0, <1>1, <2>0 DEF IInv, NewInv
  <2>3. q.stale \in BOOLEAN /\ Removes(q)
    BY <1>0, <2>0 DEF Asked, Removes
  <2> HIDE DEF u
  <2>4. ~q.stale /\ EnabledAdmins(users) # {} => EnabledAdmins(u) # {}
    BY <1>1, <2>1, <2>3, UpdateKeepsOne
  <2> QED
    BY <2>0, <2>1, <2>2, <2>3, <2>4, ChangeInv
<1> QED
  BY <1>2, <1>3

LEMMA AccountStep ==
  ASSUME IInv, config' = config,
         (\E r \in Request : CreateFirstUser(r)) \/ Create \/ DeleteAllUsers \/ Restart
  PROVE  IInv'
<1>0. /\ ids \in 0 .. MaxId /\ req \in [Request -> Asked] /\ "admin" \in Role
      /\ users \in [Id -> Account]
  BY AccountsAssumption DEF IInv, TypeOK, Asked, Account
<1>1. ASSUME NEW r \in Request, CreateFirstUser(r) PROVE IInv'
  <2>1. CASE req' = [req EXCEPT ![r] = Idle] /\ UNCHANGED <<users, ids, begun, excused, since>>
    BY <1>1, <2>1, IdleIsAsked, RequestStep DEF CreateFirstUser
  <2>2. CASE ids < MaxId /\ ids' = ids + 1 /\ Change(WithNew("admin"), {r}, FALSE)
    BY <1>0, <1>1, <2>2, NewStep DEF CreateFirstUser, tokens
  <2> QED
    BY <1>1, <2>1, <2>2 DEF CreateFirstUser
<1>2. CASE Create
  BY <1>2, NewStep DEF Create, tokens
<1>3. CASE DeleteAllUsers
  <2> DEFINE u == [id \in Id |-> NoUser]
  <2>1. /\ Change(u, {}, TRUE) /\ ids' = ids /\ keys' \subseteq keys
        /\ access' \subseteq access /\ refresh' \subseteq refresh
    BY <1>3 DEF DeleteAllUsers
  <2>2. u \in [Id -> Account] /\ \A id \in Id : id > ids' => u[id] = NoUser
    BY NobodyIsGiven
  <2> HIDE DEF u
  <2> QED
    BY <1>0, <2>1, <2>2, ChangeInv
<1>4. CASE Restart
  <2>1. access' \subseteq access /\ refresh' \subseteq refresh /\ keys' = keys
    BY <1>4 DEF Restart
  <2>2. CASE ids < MaxId /\ ids' = ids + 1 /\ Change(WithNew("admin"), Request, FALSE)
    BY <1>0, <2>1, <2>2, NewStep
  <2>3. CASE req' = [r \in Request |-> Idle] /\ UNCHANGED <<users, ids, begun, excused, since>>
    <3>1. TypeOK'
      <4>1. req' \in [Request -> Asked]
        BY <2>3, IdleIsAsked
      <4>2. access' \subseteq Access /\ refresh' \subseteq [user : Id, left : 1 .. config.refreshLife]
        BY <2>1, KeysNow
      <4> QED
        BY <2>1, <2>3, <4>1, <4>2 DEF IInv, TypeOK, Asked, Access
    <3>2. FiniteInv'
      BY <2>1, FS_Subset DEF IInv, FiniteInv
    <3>3. CheckedInv' /\ SignInv'
      BY <2>3, IdleIsAsked DEF CheckedInv, SignInv
    <3>4. NewInv' /\ AdminsStay' /\ TokenInv'
      BY <2>1, <2>3 DEF IInv, NewInv, AdminsStay, TokenInv, SaysSo, EnabledAdmins
    <3> QED
      BY <3>1, <3>2, <3>3, <3>4 DEF IInv
  <2> QED
    BY <1>4, <2>2, <2>3 DEF Restart
<1> QED
  BY <1>1, <1>2, <1>3, <1>4

LEMMA IInvStep == IInv /\ [Next]_vars => IInv'
<1> SUFFICES ASSUME IInv, [Next]_vars PROVE IInv'
  OBVIOUS
<1>0. config' = config /\ config.requests \subseteq Request /\ config.sessions \subseteq Request
  BY Numbers DEF Next, vars
<1>1. ASSUME NEW r \in config.requests,
             Setup(r) \/ Update(r) \/ Delete(r) \/ ReadTarget(r) \/ CheckLast(r)
      PROVE  IInv'
  BY <1>0, <1>1, RequestsStep
<1>2. ASSUME NEW r \in config.requests, UpdateUser(r) \/ DeleteUser(r) PROVE IInv'
  BY <1>0, <1>2, WriteStep
<1>3. CASE (\E r \in config.requests : CreateFirstUser(r)) \/ Create \/ DeleteAllUsers \/ Restart
  BY <1>0, <1>3, AccountStep
<1>4. ASSUME NEW r \in config.sessions, Login(r) \/ Refresh(r) \/ Issue(r) \/ Refuse(r)
      PROVE  IInv'
  BY <1>0, <1>4, SessionStep
<1>5. ASSUME NEW t \in refresh, Logout(t) PROVE IInv'
  BY <1>0, <1>5, SessionStep
<1>6. CASE Tick
  BY <1>0, <1>6, TickStep
<1>7. CASE CreateKey \/ CreateServiceAccount \/ DeleteKey
  BY <1>0, <1>7, KeyStep
<1>8. CASE UNCHANGED vars
  <2>1. /\ Steady /\ UNCHANGED <<keys, access, refresh, since>>
    BY <1>8, SameRequests DEF vars, tokens
  <2>2. TokenInv'
    BY <2>1, KeysNow DEF Steady, TokenInv, SaysSo
  <2> QED
    BY <2>1, <2>2, KeysNow, SteadyStep
<1> QED
  BY <1>1, <1>2, <1>3, <1>4, <1>5, <1>6, <1>7, <1>8 DEF Next, Step

LEMMA AlwaysIInv == Spec => []IInv
BY IInvInit, IInvStep, PTL DEF Spec

-----------------------------------------------------------------------------
(* The theorems.                                                           *)

\* However many requests are served at a time and whatever restarts fall between their
\* statements, an enabled administrator is left, unless all accounts are deleted, the
\* last one is disabled, or what a request had read of the accounts was stale when it
\* wrote (users.go Update and Delete).
THEOREM LastAdminStays == Spec => []AdminsStay
<1>1. IInv => AdminsStay
  BY DEF IInv
<1> QED
  BY AlwaysIInv, <1>1, PTL

\* A token tells the truth about its account, or has less of its life left than has
\* passed since the account was changed: so a change reaches every session within one
\* life of an access token, for any lives (auth.go Login, Refresh).
THEOREM SessionsCatchUp == Spec => []TokensCatchUp
<1>1. ASSUME IInv PROVE TokensCatchUp
  <2> SUFFICES ASSUME NEW t \in access, since[t.user] = config.accessLife PROVE SaysSo(t)
    BY DEF TokensCatchUp, SaysSo
  <2>1. t.left \in 1 .. config.accessLife /\ (SaysSo(t) \/ since[t.user] + t.left <= config.accessLife)
    BY <1>1, KeysNow DEF TokenInv, Access
  <2> QED
    BY <1>1, <2>1, Numbers
<1> QED
  BY AlwaysIInv, <1>1, PTL

\* Types, and the last administrator, for every value of the constants.
THEOREM AccountsAlwaysAgree == Spec => []AccountsAgree
<1>1. IInv => TypeOK
  BY DEF IInv
<1> QED
  BY AlwaysIInv, LastAdminStays, <1>1, PTL DEF AccountsAgree
=============================================================================
