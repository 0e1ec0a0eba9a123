------------------------------ MODULE Accounts ------------------------------
(***************************************************************************)
(* Accounts, sessions and API keys (internal/api/auth.go, users.go,        *)
(* setup.go, keys.go, middleware.go, internal/database/users.go,           *)
(* api_keys.go, cmd/tr-engine/main.go): setup or the seed makes the first  *)
(* administrator, administrators change accounts, several requests at a    *)
(* time and each a few statements long, tokens carry what an account was,  *)
(* and keys what their maker was.                                          *)
(*                                                                         *)
(* Passwords are left out: a login may be refused once it has found the    *)
(* account.                                                                *)
(***************************************************************************)
EXTENDS Naturals, FiniteSets

CONSTANTS
  Role,                      \* the roles in use, of "viewer", "editor" and "admin"
  Request,                   \* requests that are served at a time
  Updates,                   \* what updates ask for: role and enabled, or to keep them
  MaxId,                     \* bound: accounts there can ever be
  Config                     \* configurations that are followed, each within its bounds

\* An update asks for a role in use; tokens, where there are any, live for an hour at least.
ASSUME AccountsAssumption ==
  /\ "admin" \in Role /\ Role \subseteq {"viewer", "editor", "admin"}
  /\ Updates \subseteq [role : Role \cup {"keep"}, enabled : {"keep", "yes", "no"}]
  /\ MaxId \in Nat
  /\ Config \subseteq [writeToken : BOOLEAN, adminPassword : BOOLEAN, secretKept : BOOLEAN,
                       accessLife : Nat, refreshLife : Nat, requests : SUBSET Request,
                       sessions : SUBSET Request, maxKeys : Nat, maxTokens : Nat]
  /\ \A c \in Config : c.maxTokens > 0 => c.accessLife > 0 /\ c.refreshLife > 0

Id == 1 .. MaxId
Nobody == 0
Level == [viewer |-> 1, editor |-> 2, admin |-> 3]      \* RoleLevel

VARIABLES
  config,    \* whether WRITE_TOKEN, ADMIN_PASSWORD (a restart seeds) and JWT_SECRET (tokens
             \* survive a restart) are set, and for how many hours tokens live; with the
             \* bounds: requests that set up and change accounts at a time, those that log
             \* in and refresh, and keys and access tokens at a time
  users,     \* the accounts
  ids,       \* ids given out
  keys,      \* API keys: owner and role
  access,    \* access tokens: what they say, and the hours they have left
  refresh,   \* refresh tokens, in the cookies of browsers
  req,       \* requests under way
  begun,     \* history: there has been an administrator
  excused,   \* history: how the last administrator may have gone
  since      \* history: hours since each account was changed, at most a token's life

tokens == <<keys, access, refresh>>
vars == <<config, users, ids, tokens, req, begun, excused, since>>

NoUser == [role |-> "none", enabled |-> FALSE]
Idle == [pc |-> "idle", op |-> "none", target |-> Nobody, role |-> "keep", enabled |-> "keep",
         stale |-> FALSE]

Exists(u, id) == u[id].role # "none"
EnabledAdmins(u) == {id \in Id : u[id].role = "admin" /\ u[id].enabled}

TypeOK ==
  /\ config \in Config
  /\ users \in [Id -> [role : Role \cup {"none"}, enabled : BOOLEAN]]
  /\ ids \in 0 .. MaxId
  /\ keys \subseteq [owner : Id \cup {Nobody}, role : Role] /\ Cardinality(keys) <= config.maxKeys
  /\ access \subseteq [user : Id, role : Role, left : 1 .. config.accessLife]
  /\ refresh \subseteq [user : Id, left : 1 .. config.refreshLife]
  /\ req \in [Request -> [pc : {"idle", "read", "count", "write", "insert", "sign"},
                          op : {"none", "update", "delete", "setup", "login", "refresh"},
                          target : Id \cup {Nobody},
                          role : Role \cup {"keep"}, enabled : {"keep", "yes", "no"},
                          stale : BOOLEAN]]
  /\ begun \in BOOLEAN /\ excused \in BOOLEAN
  /\ since \in [Id -> 0 .. config.accessLife]

Init ==
  /\ config \in Config
  /\ users = [id \in Id |-> NoUser] /\ ids = 0
  /\ keys = {} /\ access = {} /\ refresh = {}
  /\ req = [r \in Request |-> Idle]
  /\ begun = FALSE /\ excused = FALSE /\ since = [id \in Id |-> 0]

-----------------------------------------------------------------------------
(* Who a request is made as.                                               *)

\* JWTOrTokenAuth: what a token says, the owner and role of a key, or nobody in
\* particular.  Nothing of the account is looked up.
JWTOrTokenAuth ==
  {[user |-> t.user, role |-> t.role] : t \in access}
    \cup {[user |-> k.owner, role |-> k.role] : k \in keys}
    \cup (IF config.writeToken THEN {[user |-> Nobody, role |-> "admin"]} ELSE {})

\* WriteAuth, of every request that changes something.
WriteAuth == {c \in JWTOrTokenAuth : Level[c.role] >= Level.editor}
AdminOnly == {c \in WriteAuth : c.role = "admin"}

\* The accounts change: what was read of them before is stale, and what the last
\* administrator may go by is the deletion of all accounts, a disabling, and a
\* removal on grounds that are stale.
Change(u, mine, freely) ==
  /\ users' = u
  /\ begun' = (begun \/ EnabledAdmins(u) # {})
  /\ excused' = (IF EnabledAdmins(u) # {} THEN FALSE ELSE excused \/ freely)
  /\ since' = [id \in Id |-> IF u[id] # users[id] THEN 0 ELSE since[id]]
  /\ req' = [r \in Request |->
               IF r \in mine THEN Idle
               ELSE IF req[r].pc = "idle" THEN req[r]
               ELSE [req[r] EXCEPT !.stale = TRUE]]

WithNew(role) == [users EXCEPT ![ids + 1] = [role |-> role, enabled |-> TRUE]]

\* The keys of accounts that are gone are deleted with them.
Orphaned(u) == {k \in keys : k.owner # Nobody /\ ~Exists(u, k.owner)}

-----------------------------------------------------------------------------
(* The first administrator.                                                *)

\* Setup: CreateFirstUser inserts if it sees no account when its statement starts.
Setup(r) ==
  /\ req[r] = Idle /\ \A id \in Id : ~Exists(users, id)
  /\ req' = [req EXCEPT ![r] = [Idle EXCEPT !.pc = "insert", !.op = "setup"]]
  /\ UNCHANGED <<users, ids, tokens, begun, excused, since>>

CreateFirstUser(r) ==
  /\ req[r].pc = "insert"
  /\ \/ /\ \E id \in Id : Exists(users, id)           \* of the same name
        /\ req' = [req EXCEPT ![r] = Idle]
        /\ UNCHANGED <<users, ids, begun, excused, since>>
     \/ /\ ids < MaxId /\ ids' = ids + 1
        /\ Change(WithNew("admin"), {r}, FALSE)
  /\ UNCHANGED tokens

\* The process starts again: its requests are gone, the tokens too if the secret
\* was made up, and ADMIN_PASSWORD seeds an administrator when there are no accounts.
Restart ==
  /\ access' = IF config.secretKept THEN access ELSE {}
  /\ refresh' = IF config.secretKept THEN refresh ELSE {}
  /\ IF config.adminPassword /\ (\A id \in Id : ~Exists(users, id)) /\ ids < MaxId
     THEN /\ ids' = ids + 1
          /\ Change(WithNew("admin"), Request, FALSE)
     ELSE /\ req' = [r \in Request |-> Idle]
          /\ UNCHANGED <<users, ids, begun, excused, since>>
  /\ UNCHANGED keys

-----------------------------------------------------------------------------
(* Administrators change accounts (users.go).                              *)

Create ==
  /\ AdminOnly # {} /\ ids < MaxId /\ ids' = ids + 1
  /\ \E role \in Role : Change(WithNew(role), {}, FALSE)
  /\ UNCHANGED tokens

\* Update: not to disable or demote oneself.  A demotion reads the account first.
Update(r) ==
  /\ req[r] = Idle
  /\ \E c \in AdminOnly, id \in Id, u \in Updates :
       /\ c.user = id => u.enabled # "no" /\ u.role \in {"keep", "admin"}
       /\ req' = [req EXCEPT ![r] =
            [Idle EXCEPT !.op = "update", !.target = id, !.role = u.role, !.enabled = u.enabled,
                         !.pc = IF u.role \in {"keep", "admin"} THEN "write" ELSE "read"]]
  /\ UNCHANGED <<users, ids, tokens, begun, excused, since>>

\* Delete: not oneself.
Delete(r) ==
  /\ req[r] = Idle
  /\ \E c \in AdminOnly, id \in Id :
       /\ c.user # id
       /\ req' = [req EXCEPT ![r] = [Idle EXCEPT !.op = "delete", !.target = id, !.pc = "read"]]
  /\ UNCHANGED <<users, ids, tokens, begun, excused, since>>

\* GetUserByID: an administrator must not be the last one.
ReadTarget(r) ==
  /\ req[r].pc = "read"
  /\ LET target == users[req[r].target]
     IN req' = [req EXCEPT ![r] =
                 IF target.role = "none" THEN Idle
                 ELSE [@ EXCEPT !.pc = IF target.role = "admin" THEN "count" ELSE "write"]]
  /\ UNCHANGED <<users, ids, tokens, begun, excused, since>>

\* A slip: disabled administrators count.
CountAllAdmins == Cardinality({id \in Id : users[id].role = "admin"})

CountAdmins == Cardinality(EnabledAdmins(users))

CheckLast(r) ==
  /\ req[r].pc = "count"
  /\ req' = [req EXCEPT ![r] = IF CountAdmins <= 1 THEN Idle ELSE [@ EXCEPT !.pc = "write"]]
  /\ UNCHANGED <<users, ids, tokens, begun, excused, since>>

UpdateUser(r) ==
  LET q == req[r]
      old == users[q.target]
      new == [old EXCEPT !.role = IF q.role = "keep" THEN @ ELSE q.role,
                         !.enabled = IF q.enabled = "keep" THEN @ ELSE q.enabled = "yes"]
  IN /\ q.pc = "write" /\ q.op = "update"
     /\ Change(IF old = NoUser THEN users ELSE [users EXCEPT ![q.target] = new], {r},
               q.stale \/ q.enabled = "no")
     /\ UNCHANGED <<ids, tokens>>

DeleteUser(r) ==
  LET left == [users EXCEPT ![req[r].target] = NoUser]
  IN /\ req[r].pc = "write" /\ req[r].op = "delete"
     /\ Change(left, {r}, req[r].stale)
     /\ keys' = keys \ Orphaned(left)
     /\ UNCHANGED <<ids, access, refresh>>

DeleteAllUsers ==
  LET left == [id \in Id |-> NoUser]
  IN /\ AdminOnly # {} /\ users # left
     /\ Change(left, {}, TRUE)
     /\ keys' = keys \ Orphaned(left)
     /\ UNCHANGED <<ids, access, refresh>>

-----------------------------------------------------------------------------
(* Sessions (auth.go).                                                     *)

\* A session request has read an account, and is to sign what it read of it.
Sessions(r, op, id) ==
  /\ req[r] = Idle
  /\ req' = [req EXCEPT ![r] =
               [Idle EXCEPT !.pc = "sign", !.op = op, !.target = id, !.role = users[id].role]]
  /\ UNCHANGED <<users, ids, tokens, begun, excused, since>>

\* The password is compared after the account was read, which takes its time.
Login(r) ==
  \E id \in Id : Exists(users, id) /\ users[id].enabled /\ Sessions(r, "login", id)

\* A slip: a refresh only looks whether the account is there.
RefreshIfThere(r) ==
  \E t \in refresh : Exists(users, t.user) /\ Sessions(r, "refresh", t.user)

\* A refresh looks up the account, for whether it is enabled and for its role.
Refresh(r) ==
  \E t \in refresh :
    Exists(users, t.user) /\ users[t.user].enabled /\ Sessions(r, "refresh", t.user)

\* generateAccessToken, of the account as it was read; a login sets the cookie as well.
Issue(r) ==
  /\ req[r].pc = "sign" /\ req' = [req EXCEPT ![r] = Idle]
  /\ access' = access \cup
       {[user |-> req[r].target, role |-> req[r].role, left |-> config.accessLife]}
  /\ Cardinality(access') <= config.maxTokens
  /\ refresh' = refresh \cup
       (IF req[r].op = "login" THEN {[user |-> req[r].target, left |-> config.refreshLife]} ELSE {})
  /\ UNCHANGED <<users, ids, keys, begun, excused, since>>

\* The password is another, or nothing could be signed.
Refuse(r) ==
  /\ req[r].pc = "sign" /\ req' = [req EXCEPT ![r] = Idle]
  /\ UNCHANGED <<users, ids, tokens, begun, excused, since>>

\* The browser forgets the cookie; its access token lives on.
Logout(t) ==
  /\ t \in refresh /\ refresh' = refresh \ {t}
  /\ UNCHANGED <<users, ids, keys, access, req, begun, excused, since>>

\* An hour passes; a request takes seconds (ResponseTimeout).
Tick ==
  /\ \A r \in Request : req[r] = Idle
  /\ access' = {[t EXCEPT !.left = @ - 1] : t \in {a \in access : a.left > 1}}
  /\ refresh' = {[t EXCEPT !.left = @ - 1] : t \in {a \in refresh : a.left > 1}}
  /\ since' = [id \in Id |->
                 IF since[id] < config.accessLife THEN since[id] + 1 ELSE config.accessLife]
  /\ UNCHANGED <<users, ids, keys, req, begun, excused>>

-----------------------------------------------------------------------------
(* API keys (keys.go).                                                     *)

AddKey(owner, role) ==
  /\ Cardinality(keys) < config.maxKeys
  /\ keys' = keys \cup {[owner |-> owner, role |-> role]}
  /\ UNCHANGED <<users, ids, access, refresh, req, begun, excused, since>>

\* Create: a key for oneself, of at most one's role.  The account must be there still.
CreateKey ==
  \E c \in WriteAuth, role \in Role :
    /\ c.user # Nobody /\ Exists(users, c.user)
    /\ Level[role] <= Level[c.role]
    /\ AddKey(c.user, role)

CreateServiceAccount ==
  AdminOnly # {} /\ \E role \in Role : AddKey(Nobody, role)

\* DeleteOwn, of one's own keys, and DeleteAny.
Own(c, k) == k.owner = c.user /\ c.user # Nobody

DeleteKey ==
  /\ \E c \in WriteAuth, k \in keys :
       /\ Own(c, k) \/ c.role = "admin"
       /\ keys' = keys \ {k}
  /\ UNCHANGED <<users, ids, access, refresh, req, begun, excused, since>>

Step ==
  \/ \E r \in config.requests :
       Setup(r) \/ CreateFirstUser(r) \/ Update(r) \/ Delete(r) \/ ReadTarget(r)
                               \/ CheckLast(r) \/ UpdateUser(r) \/ DeleteUser(r)
  \/ Restart \/ Create \/ DeleteAllUsers
  \/ \E r \in config.sessions : Login(r) \/ Refresh(r) \/ Issue(r) \/ Refuse(r)
  \/ \E t \in refresh : Logout(t)
  \/ Tick
  \/ CreateKey \/ CreateServiceAccount \/ DeleteKey

Next == Step /\ UNCHANGED config

Spec == Init /\ [][Next]_vars

-----------------------------------------------------------------------------
(* Properties.                                                             *)

\* Once there has been an administrator, an enabled one is left, unless all accounts
\* were deleted, the last one was disabled, or two requests overlapped
\* (the last-admin protection of Update and Delete).
AdminsStay == begun /\ ~excused => EnabledAdmins(users) # {}

\* When an account has not been changed for as long as an access token lives, every
\* token out says what the account is, and it is enabled (Login, Refresh).
TokensCatchUp ==
  \A t \in access :
    since[t.user] = config.accessLife => users[t.user].enabled /\ users[t.user].role = t.role

\* What must hold of accounts.
AccountsAgree == TypeOK /\ AdminsStay
=============================================================================
