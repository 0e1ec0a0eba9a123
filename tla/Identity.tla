------------------------------ MODULE Identity ------------------------------
(***************************************************************************)
(* Which system a message belongs to: the identity cache                   *)
(* (internal/ingest/identity.go), the systems and sites it is filled from  *)
(* (internal/database/systems.go, sites.go), and the merges, by the        *)
(* handler of system information or by an administrator, that move a       *)
(* system's rows and sites to another one and then rewrite the cache.      *)
(*                                                                         *)
(* A database statement, and a transaction, is one action.  r.mu is held   *)
(* over the three statements of the slow path, and by the rewrite.         *)
(***************************************************************************)
EXTENDS Naturals, FiniteSets

CONSTANTS
  Key,          \* pairs of an instance and a short name: one is one site
  Net,          \* Net[k]: the network (sysid and wacn) the site of k reports
  MaxSystem,    \* systems that can be created
  MaxRows,      \* messages that write a row
  MaxTroubles,  \* failing statements and restarts together
  MaxRequests   \* merges an administrator asks for

System == 1 .. MaxSystem
NoSystem == 0
NoNet == "0"

\* The dispatch loop, an upload's goroutine, and an administrator's request.
Actor == {"loop", "upload", "admin"}

VARIABLES
  systems,   \* the table of systems
  siteOf,    \* the table of sites: the system of each key's site
  cache,     \* the cache: the system each key resolves to
  rows,      \* calls and events: the system each is under
  mu,        \* who holds r.mu for writing
  at,        \* where each actor is, with what it holds
  merging,   \* merges committed whose rewrite is still to come, or never comes
  misled,    \* keys cached while a lookup or another merge went wrong
  faults, requests, restarts

vars == <<systems, siteOf, cache, rows, mu, at, merging, misled, faults, requests, restarts>>

Idle == [pc |-> "idle", key |-> CHOOSE k \in Key : TRUE, does |-> "row", id |-> NoSystem,
         into |-> NoSystem]

Row == [n : 1 .. MaxRows, key : Key, system : System, stale : BOOLEAN]

TypeOK ==
  /\ systems \in [System -> [state : {"free", "live", "deleted"}, net : {Net[k] : k \in Key} \cup {NoNet}]]
  /\ siteOf \in [Key -> System \cup {NoSystem}]
  /\ cache \in [Key -> System \cup {NoSystem}]
  /\ rows \subseteq Row
  /\ mu \in Actor \cup {"free"}
  /\ at \in [Actor -> [pc : {"idle", "lookup", "create", "site", "write", "find", "merge",
                             "update", "rewrite"},
                       key : Key, does : {"row", "info"},
                       id : System \cup {NoSystem}, into : System \cup {NoSystem}]]
  /\ merging \subseteq System \X System
  /\ misled \subseteq Key

Init ==
  /\ systems = [s \in System |-> [state |-> "free", net |-> NoNet]]
  /\ siteOf = [k \in Key |-> NoSystem]
  /\ cache = siteOf
  /\ rows = {}
  /\ mu = "free"
  /\ at = [a \in Actor |-> Idle]
  /\ merging = {}
  /\ misled = {}
  /\ faults = 0 /\ requests = 0 /\ restarts = 0

counters == <<faults, requests, restarts>>
Live(s) == systems[s].state = "live"
Goto(a, pc) == at' = [at EXCEPT ![a].pc = pc]
AfterResolve(does) == IF does = "row" THEN "write" ELSE "find"

-----------------------------------------------------------------------------
(* Resolve.                                                                *)

\* The read lock: a cached key is answered at once.
ResolveCached(a, k, does) ==
  /\ at[a].pc = "idle" /\ mu = "free" /\ cache[k] # NoSystem
  /\ at' = [at EXCEPT ![a] = [pc |-> AfterResolve(does), key |-> k, does |-> does,
                              id |-> cache[k], into |-> NoSystem]]
  /\ UNCHANGED <<systems, siteOf, cache, rows, mu, merging, misled, counters>>

\* The write lock, taken when the key is not cached.
ResolveSlowly(a, k, does) ==
  /\ at[a].pc = "idle" /\ mu = "free" /\ cache[k] = NoSystem
  /\ mu' = a
  /\ at' = [at EXCEPT ![a] = [Idle EXCEPT !.pc = "lookup", !.key = k, !.does = does]]
  /\ UNCHANGED <<systems, siteOf, cache, rows, merging, misled, counters>>

Message(a, k, does) ==
  /\ a # "admin" /\ (does = "info" => a = "loop")
  /\ does = "row" => Cardinality(rows) < MaxRows
  /\ ResolveCached(a, k, does) \/ ResolveSlowly(a, k, does)

\* FindOrCreateSystem looks for the key's site.  Any error, a failed statement as
\* well as no row, makes it create a system.
Lookup(a) ==
  LET k == at[a].key IN
  /\ at[a].pc = "lookup"
  /\ \/ /\ siteOf[k] # NoSystem
        /\ at' = [at EXCEPT ![a].pc = "site", ![a].id = siteOf[k]]
        /\ UNCHANGED <<misled, faults>>
     \/ /\ siteOf[k] = NoSystem
        /\ Goto(a, "create")
        /\ UNCHANGED <<misled, faults>>
     \/ /\ siteOf[k] # NoSystem /\ faults + restarts < MaxTroubles
        /\ faults' = faults + 1
        /\ misled' = misled \cup {k}
        /\ Goto(a, "create")
  /\ UNCHANGED <<systems, siteOf, cache, rows, mu, merging, requests, restarts>>

CreateSystem(a) ==
  /\ at[a].pc = "create"
  /\ \E s \in System :
       /\ systems[s].state = "free"
       /\ \A t \in 1 .. s - 1 : systems[t].state # "free"
       /\ systems' = [systems EXCEPT ![s].state = "live"]
       /\ at' = [at EXCEPT ![a].pc = "site", ![a].id = s]
  /\ UNCHANGED <<siteOf, cache, rows, mu, merging, misled, counters>>

\* FindOrCreateSite: ON CONFLICT keeps the site's system.  The key is cached with
\* the system found or created before, and the lock is released.
FindOrCreateSite(a) ==
  LET k == at[a].key IN
  /\ at[a].pc = "site"
  /\ siteOf' = [siteOf EXCEPT ![k] = IF @ = NoSystem THEN at[a].id ELSE @]
  /\ cache' = [cache EXCEPT ![k] = at[a].id]
  /\ mu' = "free"
  /\ Goto(a, AfterResolve(at[a].does))
  /\ UNCHANGED <<systems, rows, merging, misled, counters>>

\* CreateSystem or FindOrCreateSite fails, or its answer is lost: the message is given
\* up.  A system that was created stays, with or without its site.
ResolveFails(a) ==
  /\ at[a].pc \in {"create", "site"} /\ faults + restarts < MaxTroubles
  /\ \/ siteOf' = siteOf
     \/ /\ at[a].pc = "site"
        /\ siteOf' = [siteOf EXCEPT ![at[a].key] = IF @ = NoSystem THEN at[a].id ELSE @]
  /\ faults' = faults + 1
  /\ mu' = "free"
  /\ at' = [at EXCEPT ![a] = Idle]
  /\ UNCHANGED <<systems, cache, rows, merging, misled, requests, restarts>>

-----------------------------------------------------------------------------
(* What the handlers do with an identity.                                  *)

\* A handler inserts its row under the identity it resolved.
WriteRow(a) ==
  LET k == at[a].key IN
  /\ at[a].pc = "write"
  /\ rows' = IF Cardinality(rows) < MaxRows
               THEN rows \cup {[n |-> Cardinality(rows) + 1, key |-> k, system |-> at[a].id,
                                stale |-> at[a].id # siteOf[k]]}
               ELSE rows
  /\ at' = [at EXCEPT ![a] = Idle]
  /\ UNCHANGED <<systems, siteOf, cache, mu, merging, misled, counters>>

\* processSystemInfo looks for another live system of the network.
FindSystemBySysidWacn(a) ==
  LET net == Net[at[a].key]
      others == {s \in System : Live(s) /\ s # at[a].id /\ net # NoNet /\ systems[s].net = net} IN
  /\ at[a].pc = "find"
  /\ \/ \E s \in others : at' = [at EXCEPT ![a].pc = "merge", ![a].into = s]
     \/ others = {} /\ Goto(a, "update")
  /\ UNCHANGED <<systems, siteOf, cache, rows, mu, merging, misled, counters>>

\* UpdateSystemIdentity: a report without a network leaves what is there.
UpdateSystemIdentity(a) ==
  LET s == at[a].id IN
  /\ at[a].pc = "update"
  /\ systems' = [systems EXCEPT ![s].net = IF Live(s) /\ Net[at[a].key] # NoNet
                                             THEN Net[at[a].key] ELSE @]
  /\ at' = [at EXCEPT ![a] = Idle]
  /\ UNCHANGED <<siteOf, cache, rows, mu, merging, misled, counters>>

\* An administrator asks to merge two systems of the list.
AskMerge(s, t) ==
  /\ at["admin"].pc = "idle" /\ requests < MaxRequests
  /\ s # t /\ Live(s) /\ Live(t)
  /\ requests' = requests + 1
  /\ at' = [at EXCEPT !["admin"] = [Idle EXCEPT !.pc = "merge", !.id = s, !.into = t]]
  /\ UNCHANGED <<systems, siteOf, cache, rows, mu, merging, misled, faults, restarts>>

Under(t, s, x) == IF x = s THEN t ELSE x
RowsMoved(s, t) == {[r EXCEPT !.system = Under(t, s, @)] : r \in rows}
SitesMoved(s, t) == [k \in Key |-> Under(t, s, siteOf[k])]

\* The keys a merge of s leaves in doubt: those of a merge whose rewrite has not come,
\* and one being resolved to s, whose new site is put under s afterwards.
InDoubt(s) ==
  {at[b].key : b \in {b \in Actor : at[b].pc = "site" /\ at[b].id = s}}
    \cup IF merging = {} THEN {}
         ELSE {k \in Key : siteOf[k] \in {s} \cup UNION {{m[1], m[2]} : m \in merging}}

\* The transaction of MergeSystems: rows and sites of the source go to the target,
\* whatever the target's state, and the source is marked deleted.
MergeSystems(a) ==
  LET s == at[a].id  t == at[a].into IN
  /\ at[a].pc = "merge"
  /\ rows' = RowsMoved(s, t)
  /\ siteOf' = SitesMoved(s, t)
  /\ systems' = [systems EXCEPT ![s].state = "deleted"]
  /\ misled' = misled \cup InDoubt(s)
  /\ merging' = merging \cup {<<s, t>>}
  /\ Goto(a, "rewrite")
  /\ UNCHANGED <<cache, mu, counters>>

\* A failed statement ends the handler or the request: after a failed merge nothing is
\* rewritten.  So does the answer to a merge's commit that is lost: the database has the
\* merge, whose rewrite never comes.
StatementFails(a) ==
  /\ at[a].pc \in {"write", "find", "update", "merge", "rewrite"} /\ faults + restarts < MaxTroubles
  /\ faults' = faults + 1
  /\ at' = [at EXCEPT ![a] = Idle]
  /\ UNCHANGED <<systems, siteOf, cache, rows, mu, merging, misled, requests, restarts>>

\* A slip: only the entry of the reporting site is rewritten.
RewriteOneKey(a) ==
  LET s == at[a].id  t == at[a].into IN
  /\ at[a].pc = "rewrite" /\ mu = "free"
  /\ cache' = [cache EXCEPT ![at[a].key] = Under(t, s, @)]
  /\ merging' = merging \ {<<s, t>>}
  /\ at' = [at EXCEPT ![a] = Idle]
  /\ UNCHANGED <<systems, siteOf, rows, mu, misled, counters>>

RewriteSystemID(a) ==
  LET s == at[a].id  t == at[a].into IN
  /\ at[a].pc = "rewrite" /\ mu = "free"
  /\ cache' = [k \in Key |-> Under(t, s, cache[k])]
  /\ merging' = merging \ {<<s, t>>}
  /\ at' = [at EXCEPT ![a] = Idle]
  /\ UNCHANGED <<systems, siteOf, rows, mu, misled, counters>>

\* The process starts again: LoadCache reads every site.
LoadCache ==
  /\ faults + restarts < MaxTroubles
  /\ restarts' = restarts + 1
  /\ cache' = siteOf
  /\ mu' = "free"
  /\ at' = [a \in Actor |-> Idle]
  /\ merging' = {}
  /\ misled' = {}
  /\ UNCHANGED <<systems, siteOf, rows, faults, requests>>

Steps(a) ==
  \/ Lookup(a) \/ CreateSystem(a) \/ FindOrCreateSite(a) \/ ResolveFails(a)
  \/ WriteRow(a) \/ FindSystemBySysidWacn(a) \/ UpdateSystemIdentity(a)
  \/ MergeSystems(a) \/ StatementFails(a) \/ RewriteSystemID(a)

Next ==
  \/ \E a \in Actor, k \in Key, does \in {"row", "info"} : Message(a, k, does)
  \/ \E a \in Actor : Steps(a)
  \/ \E s, t \in System : AskMerge(s, t)
  \/ LoadCache

Spec == Init /\ [][Next]_vars

-----------------------------------------------------------------------------
\* Once a merge's rewrite is done the cache agrees with the sites: a message of a
\* merged system goes to the target.  The exceptions are keys of a merge whose commit
\* was not answered, keys whose lookup failed (a second system is made for them) and
\* keys of two merges whose rewrites came in another order than their commits.
CacheAgrees ==
  \A k \in Key :
    cache[k] = siteOf[k] \/ cache[k] = NoSystem \/ k \in misled
      \/ <<cache[k], siteOf[k]>> \in merging

\* A row written under its site's system stays with the site through every merge:
\* the rows under a merged system are those a handler wrote with an identity it had
\* resolved before the merge.
RowsFollowTheirSite == \A r \in rows : r.stale \/ r.system = siteOf[r.key]
=============================================================================
