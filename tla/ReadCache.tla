----------------------------- MODULE ReadCache -----------------------------
(**************************************************************************)
(* The read models of a branch and of one of its visits, and the cache in  *)
(* front of them: app/services/operations.py and app/core/redis.py.        *)
(*                                                                         *)
(* A copy of a view is fresh or stale: it shows the committed rows or it   *)
(* does not; or it is stripped: they are there, without their payments.    *)
(* Redis is shared; every worker process also has a cache of    *)
(* its own to fall back on.  A request is cut at each of its awaits.       *)
(**************************************************************************)
EXTENDS Naturals, SequencesExt

CONSTANTS
  Views,       \* the views of interest, among those of KeyOrder
  Workers,     \* server processes
  Tasks,       \* requests that may be in flight at the same time
  Nowhere,     \* no worker, no view
  MaxCommits   \* bound: the number of mutations ever committed

(* The order invalidate_operational_cache deletes its keys in: those of    *)
(* the visit, then those of the branch.                                    *)
VisitViews == <<"table_session", "active_orders">>
BranchViews == <<"station_queues", "bom_inventory", "branch_inventory", "all_orders">>
KeyOrder == VisitViews \o BranchViews

(* The views that show payments.                                           *)
OrderViews == {"active_orders", "all_orders"}

ASSUME ViewsAssumption == Views \subseteq ToSet(KeyOrder)
ASSUME NowhereAssumption == Nowhere \notin Views \cup Workers
ASSUME MaxCommitsAssumption == MaxCommits \in Nat

VARIABLES
  redis,    \* the shared copy of each view
  own,      \* the copies in the in-memory cache of each worker
  link,     \* what each worker knows of Redis: it asks once
  up,       \* whether Redis answers
  task,     \* the request of each task
  commits   \* mutations committed so far

cacheVars == <<redis, own, link, up, task, commits>>

Copy == {"none", "fresh", "stale", "stripped"}

Task ==
  [at: {"idle", "looking", "missed", "filling", "dropping"},
   worker: Workers \cup {Nowhere}, view: Views \cup {Nowhere},
   loaded: BOOLEAN, fresh: BOOLEAN, drops: SUBSET Views]

Free == [at |-> "idle", worker |-> Nowhere, view |-> Nowhere,
         loaded |-> FALSE, fresh |-> TRUE, drops |-> {}]

CacheInit ==
  /\ redis = [v \in Views |-> "none"]
  /\ own = [w \in Workers |-> [v \in Views |-> "none"]]
  /\ link = [w \in Workers |-> "unasked"]
  /\ up = TRUE
  /\ task = [r \in Tasks |-> Free]
  /\ commits = 0

-----------------------------------------------------------------------------
(* _init_redis: the first cache operation of a process asks Redis, and a   *)
(* process that got no answer does not ask again.                          *)
LinkAfter(w) ==
  IF link[w] # "unasked" THEN link[w] ELSE IF up THEN "linked" ELSE "unlinked"

Asks(w) == link' = [link EXCEPT ![w] = LinkAfter(w)]

Reaches(w) == up /\ LinkAfter(w) = "linked"

(* CacheClient.get: Redis, and if it has nothing or fails the own cache.   *)
Got(w, v) == IF Reaches(w) /\ redis[v] # "none" THEN redis[v] ELSE own[w][v]

(* The views that may be built from rows their request has loaded already. *)
(* A query hands out such rows as they were then: db.get reads the session *)
(* before the cache is asked, and in one request the session view loads    *)
(* the orders, the orders the tickets, and the recipes the stock.          *)
MayBeLoaded == {"table_session", "active_orders", "station_queues", "branch_inventory"}

ReadBegin(r, w, v, loaded) ==
  /\ task[r] = Free
  /\ loaded => v \in MayBeLoaded
  /\ task' = [task EXCEPT ![r] = [Free EXCEPT !.at = "looking", !.worker = w,
                                              !.view = v, !.loaded = loaded]]
  /\ UNCHANGED <<redis, own, link, up, commits>>

Lookup(r) ==
  LET w == task[r].worker IN
  /\ task[r].at = "looking"
  /\ Asks(w)
  /\ task' = [task EXCEPT ![r] = IF Got(w, task[r].view) # "none" THEN Free
                                 ELSE [@ EXCEPT !.at = "missed"]]
  /\ UNCHANGED <<redis, own, up, commits>>

(* The view is queried; rows loaded before are not read again.             *)
Query(r) ==
  /\ task[r].at = "missed"
  /\ task' = [task EXCEPT ![r].at = "filling", ![r].fresh = task[r].loaded => @]
  /\ UNCHANGED <<redis, own, link, up, commits>>

(* Mutant: set takes the key for the value. *)
FillSwapped(r, strips) ==
  LET v == task[r].view IN
  /\ task[r].at = "filling"
  /\ strips => v \in OrderViews
  /\ Asks(task[r].worker)
  /\ redis' = [redis EXCEPT ![v] = v]
  /\ task' = [task EXCEPT ![r] = Free]
  /\ UNCHANGED <<own, up, commits>>

(* CacheClient.set: into Redis, or if it fails into the own cache.  Redis  *)
(* gets the rows written out; the own cache gets the very list the reader  *)
(* is handed, and a reader who may not see payments then empties them in   *)
(* it, with no await in between.                                           *)
Fill(r, strips) ==
  LET w == task[r].worker
      v == task[r].view
      copy == IF task[r].fresh THEN "fresh" ELSE "stale" IN
  /\ task[r].at = "filling"
  /\ strips => v \in OrderViews
  /\ Asks(w)
  /\ IF Reaches(w)
       THEN redis' = [redis EXCEPT ![v] = copy] /\ UNCHANGED own
       ELSE /\ own' = [own EXCEPT ![w][v] = IF strips /\ task[r].fresh THEN "stripped" ELSE copy]
            /\ UNCHANGED redis
  /\ task' = [task EXCEPT ![r] = Free]
  /\ UNCHANGED <<up, commits>>

-----------------------------------------------------------------------------
Handlers == {"update_table_status", "join_table_session", "update_guest_status",
             "update_table_session_status", "orders", "create_menu_item",
             "adjust_inventory", "seed_all"}

(* The views whose rows a handler writes.  "orders" stands for the six     *)
(* mutations of app/api/orders.py, which all do as create_order does;      *)
(* "update_table_status" also for what other visits do to the same table.  *)
Changes(h) ==
  CASE h \in {"update_table_status", "join_table_session", "update_guest_status"} ->
         {"table_session"}
    [] h = "update_table_session_status" ->
         {"table_session", "active_orders", "station_queues", "all_orders"}
    [] h = "orders" -> {"active_orders", "station_queues", "all_orders"}
    [] h = "create_menu_item" -> {"bom_inventory"}
    [] h = "adjust_inventory" -> {"bom_inventory", "branch_inventory"}
    [] h = "seed_all" -> ToSet(KeyOrder)

(* Mutant: the keys of the visit are never deleted. *)
DropsBranchOnly(h) == IF h = "seed_all" THEN {} ELSE ToSet(BranchViews)

(* The keys it deletes once it has committed.                              *)
Drops(h) ==
  CASE h \in {"update_table_status", "create_menu_item", "adjust_inventory"} -> ToSet(BranchViews)
    [] h = "update_guest_status" -> {"table_session"}
    [] h = "seed_all" -> {}
    [] OTHER -> ToSet(KeyOrder)

Aged(copy) == IF copy = "none" THEN "none" ELSE "stale"

(* A request reads v and has got its rows.                                 *)
Reading(r, v) ==
  /\ task[r].view = v
  /\ \/ task[r].at = "filling"
     \/ task[r].at \in {"looking", "missed"} /\ task[r].loaded

(* A handler commits: every copy of the rows it changed is out of date ... *)
HandlerCommit(r, w, h) ==
  LET aged == Changes(h) \cap Views
      drops == Drops(h) \cap Views IN
  /\ task[r] = Free
  /\ commits < MaxCommits
  /\ commits' = commits + 1
  /\ redis' = [v \in Views |-> IF v \in aged THEN Aged(redis[v]) ELSE redis[v]]
  /\ own' = [x \in Workers |->
              [v \in Views |-> IF v \in aged THEN Aged(own[x][v]) ELSE own[x][v]]]
  /\ task' = [q \in Tasks |->
               IF q = r
                 THEN IF drops = {} THEN Free
                      ELSE [Free EXCEPT !.at = "dropping", !.worker = w, !.drops = drops]
                 ELSE IF \E v \in aged : Reading(q, v)
                        THEN [task[q] EXCEPT !.fresh = FALSE] ELSE task[q]]
  /\ UNCHANGED <<link, up>>

(* Keys that come before v when keys are deleted.                          *)
Before(v) ==
  {u \in Views : \E i, j \in DOMAIN KeyOrder : i < j /\ KeyOrder[i] = u /\ KeyOrder[j] = v}

(* ... and deletes its keys, one after the other: from Redis, where a      *)
(* failure passes unnoticed, and from the cache of its own process.        *)
Drop(r, v) ==
  LET w == task[r].worker
      rest == task[r].drops \ {v} IN
  /\ task[r].at = "dropping"
  /\ v \in task[r].drops /\ task[r].drops \cap Before(v) = {}
  /\ Asks(w)
  /\ redis' = IF Reaches(w) THEN [redis EXCEPT ![v] = "none"] ELSE redis
  /\ own' = [own EXCEPT ![w][v] = "none"]
  /\ task' = [task EXCEPT ![r] = IF rest = {} THEN Free ELSE [@ EXCEPT !.drops = rest]]
  /\ UNCHANGED <<up, commits>>

-----------------------------------------------------------------------------
(* Mutant: what is cached is cached for good. *)
NeverExpires(v) == FALSE

(* Every copy is set with a time to live, of 5 to 15 seconds.              *)
Expire(v) ==
  /\ redis[v] # "none"
  /\ redis' = [redis EXCEPT ![v] = "none"]
  /\ UNCHANGED <<own, link, up, task, commits>>

ExpireOwn(w, v) ==
  /\ own[w][v] # "none"
  /\ own' = [own EXCEPT ![w][v] = "none"]
  /\ UNCHANGED <<redis, link, up, task, commits>>

(* A worker dies and starts anew.                                          *)
Restart(w) ==
  /\ own' = [own EXCEPT ![w] = [v \in Views |-> "none"]]
  /\ link' = [link EXCEPT ![w] = "unasked"]
  /\ task' = [r \in Tasks |-> IF task[r].worker = w THEN Free ELSE task[r]]
  /\ UNCHANGED <<redis, up, commits>>

(* Redis stops answering, or answers again; what it holds is kept.         *)
Outage == up' = ~up /\ UNCHANGED <<redis, own, link, task, commits>>

Advance(r) ==
  \/ Lookup(r)
  \/ Query(r)
  \/ \E strips \in BOOLEAN : Fill(r, strips)
  \/ \E v \in Views : Drop(r, v)

-----------------------------------------------------------------------------
CacheTypeOK ==
  /\ redis \in [Views -> Copy]
  /\ own \in [Workers -> [Views -> Copy]]
  /\ link \in [Workers -> {"unasked", "linked", "unlinked"}]
  /\ up \in BOOLEAN
  /\ task \in [Tasks -> Task]
  /\ commits \in 0..MaxCommits

(* How a copy can get out of date for longer than an invalidation takes.   *)
(* The variable excused only watches: it names the views to which one of   *)
(* these things has happened, as long as something of theirs is stale.     *)
VARIABLE excused

trackedVars == <<cacheVars, excused>>

StaleCopy(v) == redis[v] = "stale" \/ \E w \in Workers : own[w][v] = "stale"

Off(copy) == copy \in {"stale", "stripped"}

Outdated(v) ==
  \/ Off(redis[v])
  \/ \E w \in Workers : Off(own[w][v])
  \/ \E r \in Tasks : Reading(r, v) /\ ~task[r].fresh

(* The handler does not delete the key of a view it has changed.           *)
Uncovered(h, v) ==
  \/ h = "seed_all"
  \/ h = "update_table_status" /\ v = "table_session"

(* A read has the old rows in hand and will put them in the cache.         *)
Raced(v) == \E r \in Tasks : Reading(r, v)

(* Another process has a copy of its own, which this one cannot delete.    *)
Elsewhere(w, v) == \E x \in Workers \ {w} : own[x][v] # "none"

(* Keys still to be deleted by the handlers of worker w.                   *)
Pending(w) == UNION {task[r].drops : r \in {q \in Tasks : task[q].worker = w}}

Excuse(views) == excused' = {v \in excused \cup views : Outdated(v)'}

CacheNext ==
  \/ \E r \in Tasks, w \in Workers, h \in Handlers :
       /\ HandlerCommit(r, w, h)
       /\ Excuse({v \in Changes(h) \cap Views :
                    Uncovered(h, v) \/ Raced(v) \/ Elsewhere(w, v)})
  \/ \E r \in Tasks, v \in Views :
       /\ Drop(r, v)
       /\ Excuse(IF Reaches(task[r].worker) THEN {} ELSE {v})
  \/ \E r \in Tasks, strips \in BOOLEAN :
       /\ Fill(r, strips)
       /\ Excuse(IF strips /\ ~Reaches(task[r].worker) THEN {task[r].view} ELSE {})
  \/ \E w \in Workers : Restart(w) /\ Excuse(Pending(w))
  \/ /\ \/ \E r \in Tasks :
             \/ \E w \in Workers, v \in Views, loaded \in BOOLEAN : ReadBegin(r, w, v, loaded)
             \/ Lookup(r)
             \/ Query(r)
        \/ \E v \in Views : Expire(v) \/ \E w \in Workers : ExpireOwn(w, v)
        \/ Outage
     /\ Excuse({})

(* Requests go on by themselves, and time passes: copies expire.           *)
CacheFairness ==
  /\ \A r \in Tasks : WF_cacheVars(Advance(r))
  /\ \A v \in Views : WF_cacheVars(Expire(v))
  /\ \A w \in Workers, v \in Views : WF_cacheVars(ExpireOwn(w, v))

TrackedInit == CacheInit /\ excused = {}

CacheSpec == TrackedInit /\ [][CacheNext]_trackedVars /\ CacheFairness

(* A copy is off only while the handler that made it stale is still        *)
(* deleting its keys, but for the ways out named above: a handler that     *)
(* does not cover the view, a read that raced with the commit, a copy in   *)
(* another process, a deletion that Redis did not get, a crash before it,  *)
(* and a reader who empties the payments of the copy his process keeps.    *)
StalenessHasACause ==
  /\ \A v \in Views :
       Off(redis[v]) => v \in excused \cup UNION {Pending(w) : w \in Workers}
  /\ \A w \in Workers, v \in Views :
       Off(own[w][v]) => v \in excused \cup Pending(w)

(* What a request in flight is about.                                      *)
TasksHaveSubjects ==
  \A r \in Tasks :
    /\ task[r].at \in {"looking", "missed", "filling"} =>
         task[r].worker \in Workers /\ task[r].view \in Views
    /\ task[r].at = "dropping" => task[r].worker \in Workers
    /\ task[r].at # "dropping" => task[r].drops = {}

(* ... and what keeps it so: a request that still has old rows in hand is  *)
(* one a commit has overtaken.                                             *)
CacheInv ==
  /\ CacheTypeOK
  /\ TasksHaveSubjects
  /\ StalenessHasACause
  /\ \A r \in Tasks, v \in Views : Reading(r, v) /\ ~task[r].fresh => v \in excused

(* Whatever went wrong, once nothing is changed any more no view stays     *)
(* stale: even a copy nobody deletes expires, and no late read renews it.  *)
(* Stripped copies may come again with every reader, as long as Redis is   *)
(* away.                                                                   *)
StalenessPasses == <>[](\A v \in Views : ~StaleCopy(v))
=============================================================================
