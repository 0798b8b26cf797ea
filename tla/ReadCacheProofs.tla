-------------------------- MODULE ReadCacheProofs --------------------------
(**************************************************************************)
(* Why a copy can be out of date, for any number of views, processes and   *)
(* requests: either its deletion is still to come, or one of the causes    *)
(* that ReadCache names has excused it.                                    *)
(**************************************************************************)
EXTENDS ReadCache, SequenceTheorems, TLAPS

USE NowhereAssumption, MaxCommitsAssumption

(* What is typed, without the causes.                                      *)
CacheTyped == CacheTypeOK /\ TasksHaveSubjects

(* What a worker still has to delete.                                      *)
LEMMA PendingMembers ==
  \A w, v : v \in Pending(w) <=> \E r \in Tasks : task[r].worker = w /\ v \in task[r].drops
  BY DEF Pending

(* A view stays excused as long as anything of it is outdated, so it is    *)
(* enough to find a cause among the old excuses and the new.               *)
LEMMA CausesRemain ==
  ASSUME NEW new, Excuse(new),
         \A v \in Views : Off(redis'[v]) =>
           v \in excused \cup new \/ \E w \in Workers : v \in Pending(w)',
         \A w \in Workers, v \in Views : Off(own'[w][v]) => v \in excused \cup new \cup Pending(w)',
         \A r \in Tasks, v \in Views :
           Reading(r, v)' /\ ~task'[r].fresh => v \in excused \cup new
  PROVE  /\ StalenessHasACause'
         /\ \A r \in Tasks, v \in Views : Reading(r, v)' /\ ~task'[r].fresh => v \in excused'
<1>1. excused' = {v \in excused \cup new : Outdated(v)'}
  BY DEF Excuse
<1>2. \A v : Off(redis'[v]) => Outdated(v)'
  BY DEF Outdated
<1>3. \A v : \A w \in Workers : Off(own'[w][v]) => Outdated(v)'
  BY DEF Outdated
<1>4. \A v : \A r \in Tasks : Reading(r, v)' /\ ~task'[r].fresh => Outdated(v)'
  BY DEF Outdated
<1>5. \A v \in Views : Off(redis'[v]) => v \in excused' \cup UNION {Pending(w)' : w \in Workers}
  BY <1>1, <1>2
<1>6. \A w \in Workers, v \in Views : Off(own'[w][v]) => v \in excused' \cup Pending(w)'
  BY <1>1, <1>3
<1>7. \A r \in Tasks, v \in Views : Reading(r, v)' /\ ~task'[r].fresh => v \in excused'
  BY <1>1, <1>4
<1> QED
  BY <1>5, <1>6, <1>7 DEF StalenessHasACause

(* A step that writes no copy, takes up no deletion and gives no request   *)
(* old rows needs no new excuse.                                           *)
LEMMA QuietSteps ==
  ASSUME CacheInv, CacheTyped', Excuse({}),
         \A v \in Views : redis'[v] \in {redis[v], "none"},
         \A w \in Workers, v \in Views : own'[w][v] \in {own[w][v], "none"},
         \A r \in Tasks : \A v \in task[r].drops :
           v \in task'[r].drops /\ task'[r].worker = task[r].worker,
         \A r \in Tasks, v \in Views :
           Reading(r, v)' /\ ~task'[r].fresh => Reading(r, v) /\ ~task[r].fresh
  PROVE  CacheInv'
<1>1. \A w, v : v \in Pending(w) => v \in Pending(w)'
  BY DEF Pending
<1>2. \A v \in Views : Off(redis'[v]) => v \in excused \/ \E w \in Workers : v \in Pending(w)'
  <2> SUFFICES ASSUME NEW v \in Views, Off(redis'[v])
               PROVE  v \in excused \/ \E w \in Workers : v \in Pending(w)'
    OBVIOUS
  <2>1. redis'[v] = redis[v]
    BY DEF Off
  <2>2. v \in excused \/ \E w \in Workers : v \in Pending(w)
    BY <2>1 DEF CacheInv, StalenessHasACause
  <2> QED
    BY <1>1, <2>2
<1>3. \A w \in Workers, v \in Views : Off(own'[w][v]) => v \in excused \cup Pending(w)'
  <2> SUFFICES ASSUME NEW w \in Workers, NEW v \in Views, Off(own'[w][v])
               PROVE  v \in excused \cup Pending(w)'
    OBVIOUS
  <2>1. own'[w][v] = own[w][v]
    BY DEF Off
  <2> QED
    BY <1>1, <2>1 DEF CacheInv, StalenessHasACause
<1>4. \A r \in Tasks, v \in Views : Reading(r, v)' /\ ~task'[r].fresh => v \in excused
  BY DEF CacheInv
<1>5. /\ StalenessHasACause'
      /\ \A r \in Tasks, v \in Views : Reading(r, v)' /\ ~task'[r].fresh => v \in excused'
  BY <1>2, <1>3, <1>4, CausesRemain
<1> QED
  BY <1>5 DEF CacheInv, CacheTyped

(* A free task is about nothing.                                           *)
LEMMA FreeFacts ==
  /\ Free \in Task /\ Free.at = "idle" /\ Free.drops = {} /\ Free.worker = Nowhere
  /\ Free.fresh = TRUE /\ Free.loaded = FALSE /\ Free.view = Nowhere
  BY DEF Free, Task

-----------------------------------------------------------------------------
(* A request of a reader.                                                  *)
LEMMA ReadBeginKeeps ==
  ASSUME CacheInv, NEW r \in Tasks, NEW w \in Workers, NEW v \in Views, NEW loaded \in BOOLEAN,
         ReadBegin(r, w, v, loaded), Excuse({})
  PROVE  CacheInv'
<1> DEFINE t == [Free EXCEPT !.at = "looking", !.worker = w, !.view = v, !.loaded = loaded]
<1>1. /\ CacheTypeOK /\ TasksHaveSubjects /\ task \in [Tasks -> Task]
  BY DEF CacheInv, CacheTypeOK
<1>2. /\ t \in Task /\ t.at = "looking" /\ t.worker = w /\ t.view = v
      /\ t.fresh = TRUE /\ t.drops = {}
  BY DEF Free, Task
<1>3. task' = [task EXCEPT ![r] = t] /\ task[r] = Free
      /\ UNCHANGED <<redis, own, link, up, commits>>
  BY DEF ReadBegin
<1> HIDE DEF t
<1>4. \A q \in Tasks : task'[q] = IF q = r THEN t ELSE task[q]
  BY <1>1, <1>3
<1>5. CacheTypeOK'
  BY <1>1, <1>2, <1>3 DEF CacheTypeOK
<1>6. TasksHaveSubjects'
  BY <1>1, <1>2, <1>4 DEF TasksHaveSubjects
<1>7. \A q \in Tasks : \A u \in task[q].drops :
        u \in task'[q].drops /\ task'[q].worker = task[q].worker
  BY <1>3, <1>4, FreeFacts
<1>8. \A q \in Tasks, u \in Views :
        Reading(q, u)' /\ ~task'[q].fresh => Reading(q, u) /\ ~task[q].fresh
  BY <1>2, <1>4 DEF Reading
<1> QED
  BY <1>3, <1>5, <1>6, <1>7, <1>8, QuietSteps DEF CacheTyped

(* Asking Redis changes only what the process knows of it.                 *)
LEMMA AsksTyped ==
  ASSUME CacheTypeOK, NEW w \in Workers, Asks(w)
  PROVE  link' \in [Workers -> {"unasked", "linked", "unlinked"}]
  BY DEF CacheTypeOK, Asks, LinkAfter

(* It finds a copy, or it does not.                                        *)
LEMMA LookupKeeps ==
  ASSUME CacheInv, NEW r \in Tasks, Lookup(r), Excuse({})
  PROVE  CacheInv'
<1> DEFINE t == IF Got(task[r].worker, task[r].view) # "none" THEN Free
                ELSE [task[r] EXCEPT !.at = "missed"]
<1>1. CacheTypeOK /\ TasksHaveSubjects /\ task \in [Tasks -> Task] /\ task[r] \in Task
  BY DEF CacheInv, CacheTypeOK
<1>2. /\ task' = [task EXCEPT ![r] = t] /\ task[r].at = "looking" /\ Asks(task[r].worker)
      /\ UNCHANGED <<redis, own, up, commits>>
  BY DEF Lookup
<1>3. task[r].worker \in Workers /\ task[r].view \in Views /\ task[r].drops = {}
  BY <1>1, <1>2 DEF TasksHaveSubjects
<1>4. \/ t = Free
      \/ /\ t \in Task /\ t.at = "missed" /\ t.worker = task[r].worker /\ t.view = task[r].view
         /\ t.fresh = task[r].fresh /\ t.loaded = task[r].loaded /\ t.drops = {}
  BY <1>1, <1>3 DEF Task
<1> HIDE DEF t
<1>5. \A q \in Tasks : task'[q] = IF q = r THEN t ELSE task[q]
  BY <1>1, <1>2
<1>6. CacheTypeOK'
  BY <1>1, <1>2, <1>3, <1>4, FreeFacts, AsksTyped DEF CacheTypeOK
<1>7. TasksHaveSubjects'
  BY <1>1, <1>3, <1>4, <1>5, FreeFacts DEF TasksHaveSubjects
<1>8. \A q \in Tasks : \A u \in task[q].drops :
        u \in task'[q].drops /\ task'[q].worker = task[q].worker
  BY <1>3, <1>5
<1>9. \A q \in Tasks, u \in Views :
        Reading(q, u)' /\ ~task'[q].fresh => Reading(q, u) /\ ~task[q].fresh
  BY <1>2, <1>4, <1>5, FreeFacts DEF Reading
<1> QED
  BY <1>2, <1>6, <1>7, <1>8, <1>9, QuietSteps DEF CacheTyped

(* Rows that are read now are fresh; those loaded before are what they were. *)
LEMMA QueryKeeps ==
  ASSUME CacheInv, NEW r \in Tasks, Query(r), Excuse({})
  PROVE  CacheInv'
<1> DEFINE t == [task[r] EXCEPT !.at = "filling", !.fresh = task[r].loaded => task[r].fresh]
<1>1. CacheTypeOK /\ TasksHaveSubjects /\ task \in [Tasks -> Task] /\ task[r] \in Task
  BY DEF CacheInv, CacheTypeOK
<1>2. task[r].at = "missed" /\ UNCHANGED <<redis, own, link, up, commits>>
  BY DEF Query
<1>3. task' = [task EXCEPT ![r] = t]
  BY <1>1 DEF Query
<1>4. task[r].worker \in Workers /\ task[r].view \in Views /\ task[r].drops = {}
  BY <1>1, <1>2 DEF TasksHaveSubjects
<1>5. /\ t \in Task /\ t.at = "filling" /\ t.worker = task[r].worker /\ t.view = task[r].view
      /\ t.fresh = (task[r].loaded => task[r].fresh) /\ t.drops = {}
  BY <1>1, <1>4 DEF Task
<1> HIDE DEF t
<1>6. \A q \in Tasks : task'[q] = IF q = r THEN t ELSE task[q]
  BY <1>1, <1>3
<1>7. CacheTypeOK'
  BY <1>1, <1>2, <1>3, <1>5 DEF CacheTypeOK
<1>8. TasksHaveSubjects'
  BY <1>1, <1>4, <1>5, <1>6 DEF TasksHaveSubjects
<1>9. \A q \in Tasks : \A u \in task[q].drops :
        u \in task'[q].drops /\ task'[q].worker = task[q].worker
  BY <1>4, <1>6
<1>10. \A q \in Tasks, u \in Views :
         Reading(q, u)' /\ ~task'[q].fresh => Reading(q, u) /\ ~task[q].fresh
  BY <1>2, <1>5, <1>6 DEF Reading
<1> QED
  BY <1>2, <1>7, <1>8, <1>9, <1>10, QuietSteps DEF CacheTyped

(* A read that ends puts its copy somewhere: an old one only if a commit   *)
(* has overtaken it, one without its payments only by a reader whose copy  *)
(* stays in the process.                                                   *)
LEMMA FillKeeps ==
  ASSUME CacheInv, NEW r \in Tasks, NEW strips \in BOOLEAN, Fill(r, strips),
         Excuse(IF strips /\ ~Reaches(task[r].worker) THEN {task[r].view} ELSE {})
  PROVE  CacheInv'
<1> DEFINE w == task[r].worker
           v == task[r].view
           copy == IF task[r].fresh THEN "fresh" ELSE "stale"
           kept == IF strips /\ task[r].fresh THEN "stripped" ELSE copy
           new == IF strips /\ ~Reaches(w) THEN {v} ELSE {}
<1>1. /\ CacheTypeOK /\ TasksHaveSubjects /\ task \in [Tasks -> Task] /\ task[r] \in Task
      /\ redis \in [Views -> Copy] /\ own \in [Workers -> [Views -> Copy]]
  BY DEF CacheInv, CacheTypeOK
<1>2. /\ task[r].at = "filling" /\ Asks(w) /\ UNCHANGED <<up, commits>>
      /\ task' = [task EXCEPT ![r] = Free]
      /\ \/ redis' = [redis EXCEPT ![v] = copy] /\ own' = own
         \/ own' = [own EXCEPT ![w][v] = kept] /\ redis' = redis /\ ~Reaches(w)
  BY DEF Fill
<1>3. w \in Workers /\ v \in Views /\ task[r].drops = {}
  BY <1>1, <1>2 DEF TasksHaveSubjects
<1>4. ~task[r].fresh => v \in excused
  BY <1>2, <1>3 DEF CacheInv, Reading
<1>5. copy \in Copy /\ kept \in Copy /\ (Off(copy) => v \in excused)
      /\ (~Reaches(w) /\ Off(kept) => v \in excused \cup new)
  BY <1>4 DEF Copy, Off
<1>6. /\ \/ redis' = [redis EXCEPT ![v] = copy] /\ own' = own
         \/ /\ own' = [own EXCEPT ![w] = [own[w] EXCEPT ![v] = kept]]
            /\ redis' = redis /\ ~Reaches(w)
      /\ w \in Workers /\ v \in Views
      /\ Excuse(new)
  BY <1>2, <1>3
<1> HIDE DEF copy, kept, new, w, v
<1>7. \A q \in Tasks : task'[q] = IF q = r THEN Free ELSE task[q]
  BY <1>1, <1>2
<1>8. /\ \A u \in Views : redis'[u] = redis[u] \/ (u = v /\ redis'[u] = copy)
      /\ \A x \in Workers, u \in Views :
           own'[x][u] = own[x][u] \/ (x = w /\ u = v /\ own'[x][u] = kept /\ ~Reaches(w))
  BY <1>1, <1>6
<1>9. CacheTypeOK'
  <2>1. own[w] \in [Views -> Copy]
    BY <1>1, <1>6
  <2>2. [own[w] EXCEPT ![v] = kept] \in [Views -> Copy]
    BY <1>5, <2>1
  <2>3. redis' \in [Views -> Copy] /\ own' \in [Workers -> [Views -> Copy]]
    BY <1>1, <1>5, <1>6, <2>2
  <2> QED
    BY <1>1, <1>2, <1>6, <2>3, FreeFacts, AsksTyped DEF CacheTypeOK
<1>10. TasksHaveSubjects'
  BY <1>1, <1>7, FreeFacts DEF TasksHaveSubjects
<1>11. \A x, u : u \in Pending(x) => u \in Pending(x)'
  BY <1>3, <1>7 DEF Pending, w
<1>12. \A u \in Views : Off(redis'[u]) => u \in excused \cup new \/ \E x \in Workers : u \in Pending(x)'
  BY <1>5, <1>8, <1>11 DEF CacheInv, StalenessHasACause
<1>13. \A x \in Workers, u \in Views : Off(own'[x][u]) => u \in excused \cup new \cup Pending(x)'
  BY <1>5, <1>8, <1>11 DEF CacheInv, StalenessHasACause
<1>14. \A q \in Tasks, u \in Views : Reading(q, u)' /\ ~task'[q].fresh => u \in excused \cup new
  BY <1>7, FreeFacts DEF CacheInv, Reading
<1>15. /\ StalenessHasACause'
       /\ \A q \in Tasks, u \in Views : Reading(q, u)' /\ ~task'[q].fresh => u \in excused'
  BY <1>6, <1>12, <1>13, <1>14, CausesRemain
<1> QED
  BY <1>9, <1>10, <1>15 DEF CacheInv

-----------------------------------------------------------------------------
(* Whoever changes the rows of a view deletes its key, but for the views   *)
(* that Uncovered names.                                                   *)
LEMMA ChangedViewsAreDropped ==
  ASSUME NEW h \in Handlers, NEW v \in Changes(h), ~Uncovered(h, v)
  PROVE  v \in Drops(h)
<1> DEFINE S == {"table_session", "active_orders", "station_queues", "bom_inventory",
                 "branch_inventory", "all_orders"}
<1>1. /\ VisitViews \in Seq(S) /\ Len(VisitViews) = 2
      /\ VisitViews[1] = "table_session" /\ VisitViews[2] = "active_orders"
  BY DEF VisitViews
<1>2. /\ BranchViews \in Seq(S) /\ Len(BranchViews) = 4
      /\ BranchViews[1] = "station_queues" /\ BranchViews[2] = "bom_inventory"
      /\ BranchViews[3] = "branch_inventory" /\ BranchViews[4] = "all_orders"
  BY DEF BranchViews
<1> HIDE DEF S
<1>3. /\ KeyOrder \in Seq(S) /\ Len(KeyOrder) = 6
      /\ \A i \in 1..6 : KeyOrder[i] = IF i <= 2 THEN VisitViews[i] ELSE BranchViews[i - 2]
  <2> DEFINE both == VisitViews \o BranchViews
  <2>1. both \in Seq(S) /\ Len(both) = Len(VisitViews) + Len(BranchViews)
    BY <1>1, <1>2, ConcatProperties
  <2>2. \A i \in 1..(Len(VisitViews) + Len(BranchViews)) :
          both[i] = IF i <= Len(VisitViews) THEN VisitViews[i] ELSE BranchViews[i - Len(VisitViews)]
    BY <1>1, <1>2, ConcatProperties
  <2>3. KeyOrder = both
    BY DEF KeyOrder
  <2> HIDE DEF both
  <2> QED
    BY <1>1, <1>2, <2>1, <2>2, <2>3
<1>4. /\ KeyOrder[1] = "table_session" /\ KeyOrder[2] = "active_orders"
      /\ KeyOrder[3] = "station_queues" /\ KeyOrder[4] = "bom_inventory"
      /\ KeyOrder[5] = "branch_inventory" /\ KeyOrder[6] = "all_orders"
  BY <1>1, <1>2, <1>3
<1>5. DOMAIN KeyOrder = 1..6 /\ DOMAIN BranchViews = 1..4
  BY <1>2, <1>3
<1>6. S \subseteq ToSet(KeyOrder)
  BY <1>4, <1>5 DEF ToSet, S
<1>7. {"station_queues", "bom_inventory", "branch_inventory", "all_orders"} \subseteq ToSet(BranchViews)
  BY <1>2, <1>5 DEF ToSet
<1>8. h # "seed_all" => v \in S
  BY DEF Handlers, Changes, S
<1> QED
  BY <1>6, <1>7, <1>8 DEF Handlers, Changes, Uncovered, Drops

(* A commit makes copies stale.  Its own process will delete them in Redis *)
(* and in its own cache; another process's copies and reads that are under *)
(* way are excused.                                                        *)
LEMMA HandlerCommitKeeps ==
  ASSUME CacheInv, NEW r \in Tasks, NEW w \in Workers, NEW h \in Handlers,
         HandlerCommit(r, w, h),
         Excuse({v \in Changes(h) \cap Views : Uncovered(h, v) \/ Raced(v) \/ Elsewhere(w, v)})
  PROVE  CacheInv'
<1> DEFINE aged == Changes(h) \cap Views
           drops == Drops(h) \cap Views
           new == {v \in aged : Uncovered(h, v) \/ Raced(v) \/ Elsewhere(w, v)}
           mine == IF drops = {} THEN Free
                   ELSE [Free EXCEPT !.at = "dropping", !.worker = w, !.drops = drops]
<1>1. /\ CacheTypeOK /\ TasksHaveSubjects /\ task \in [Tasks -> Task]
      /\ redis \in [Views -> Copy] /\ own \in [Workers -> [Views -> Copy]]
      /\ link \in [Workers -> {"unasked", "linked", "unlinked"}] /\ up \in BOOLEAN
      /\ commits \in 0..MaxCommits
  BY DEF CacheInv, CacheTypeOK
<1>2. /\ task[r] = Free /\ commits < MaxCommits /\ commits' = commits + 1
      /\ redis' = [v \in Views |-> IF v \in aged THEN Aged(redis[v]) ELSE redis[v]]
      /\ own' = [x \in Workers |->
                   [v \in Views |-> IF v \in aged THEN Aged(own[x][v]) ELSE own[x][v]]]
      /\ task' = [q \in Tasks |->
                    IF q = r THEN mine
                    ELSE IF \E v \in aged : Reading(q, v)
                           THEN [task[q] EXCEPT !.fresh = FALSE] ELSE task[q]]
      /\ UNCHANGED <<link, up>>
  BY DEF HandlerCommit
<1>3. /\ mine \in Task /\ mine.fresh = TRUE /\ mine.drops = drops
      /\ \/ mine.at = "idle" /\ drops = {}
         \/ mine.at = "dropping" /\ mine.worker = w
  BY DEF Free, Task
<1>4. \A v \in aged : v \notin new => v \in drops
  BY ChangedViewsAreDropped
<1>5. /\ \A v \in new : v \in aged
      /\ \A v \in aged : Raced(v) \/ Elsewhere(w, v) => v \in new
      /\ Excuse(new)
  OBVIOUS
<1> HIDE DEF mine, drops, new, aged
<1>6. \A copy \in Copy : Aged(copy) \in Copy /\ (Off(Aged(copy)) => copy # "none")
  BY DEF Copy, Aged, Off
<1>7. \A q \in Tasks \ {r} :
        /\ task'[q] \in Task
        /\ task'[q].at = task[q].at /\ task'[q].worker = task[q].worker
        /\ task'[q].view = task[q].view /\ task'[q].drops = task[q].drops
        /\ task'[q].loaded = task[q].loaded
        /\ ~task'[q].fresh => ~task[q].fresh \/ \E v \in aged : Reading(q, v)
  <2> SUFFICES ASSUME NEW q \in Tasks \ {r}
               PROVE  /\ task'[q] \in Task
                      /\ task'[q].at = task[q].at /\ task'[q].worker = task[q].worker
                      /\ task'[q].view = task[q].view /\ task'[q].drops = task[q].drops
                      /\ task'[q].loaded = task[q].loaded
                      /\ ~task'[q].fresh => ~task[q].fresh \/ \E v \in aged : Reading(q, v)
    OBVIOUS
  <2>1. task[q] \in Task
    BY <1>1
  <2>2. task'[q] = IF \E v \in aged : Reading(q, v)
                   THEN [task[q] EXCEPT !.fresh = FALSE] ELSE task[q]
    BY <1>2
  <2> QED
    BY <2>1, <2>2 DEF Task
<1>8. task'[r] = mine
  BY <1>2
<1>9. CacheTypeOK'
  <2>1. redis' \in [Views -> Copy] /\ own' \in [Workers -> [Views -> Copy]]
    BY <1>1, <1>2, <1>6
  <2>2. task' \in [Tasks -> Task]
    BY <1>2, <1>3, <1>7, <1>8
  <2>3. commits' \in 0..MaxCommits
    BY <1>1, <1>2
  <2> QED
    BY <1>1, <1>2, <2>1, <2>2, <2>3 DEF CacheTypeOK
<1>10. TasksHaveSubjects'
  BY <1>1, <1>3, <1>7, <1>8 DEF TasksHaveSubjects
<1>11. \A x, v : v \in Pending(x) => v \in Pending(x)'
  BY <1>2, <1>7, FreeFacts DEF Pending
<1>12. \A v \in drops : v \in Pending(w)'
  BY <1>3, <1>8 DEF Pending
<1>13. \A v \in Views : Off(redis'[v]) => v \in excused \cup new \/ \E x \in Workers : v \in Pending(x)'
  <2> SUFFICES ASSUME NEW v \in Views, Off(redis'[v])
               PROVE  v \in excused \cup new \/ \E x \in Workers : v \in Pending(x)'
    OBVIOUS
  <2>1. CASE v \in aged
    BY <1>4, <1>12, <2>1
  <2>2. CASE v \notin aged
    <3>1. Off(redis[v])
      BY <1>2, <2>2
    <3> QED
      BY <1>11, <3>1 DEF CacheInv, StalenessHasACause
  <2> QED
    BY <2>1, <2>2
<1>14. \A x \in Workers, v \in Views : Off(own'[x][v]) => v \in excused \cup new \cup Pending(x)'
  <2> SUFFICES ASSUME NEW x \in Workers, NEW v \in Views, Off(own'[x][v])
               PROVE  v \in excused \cup new \cup Pending(x)'
    OBVIOUS
  <2>1. CASE v \in aged /\ x = w
    BY <1>4, <1>12, <2>1
  <2>2. CASE v \in aged /\ x # w
    <3>1. own[x][v] # "none"
      BY <1>1, <1>2, <1>6, <2>2
    <3> QED
      BY <1>5, <2>2, <3>1 DEF Elsewhere
  <2>3. CASE v \notin aged
    <3>1. Off(own[x][v])
      BY <1>2, <2>3
    <3> QED
      BY <1>11, <3>1 DEF CacheInv, StalenessHasACause
  <2> QED
    BY <2>1, <2>2, <2>3
<1>15. \A q \in Tasks, v \in Views : Reading(q, v)' /\ ~task'[q].fresh => v \in excused \cup new
  <2> SUFFICES ASSUME NEW q \in Tasks, NEW v \in Views, Reading(q, v)', ~task'[q].fresh
               PROVE  v \in excused \cup new
    OBVIOUS
  <2>1. q # r
    BY <1>3, <1>8
  <2>2. Reading(q, v)
    BY <1>7, <2>1 DEF Reading
  <2>3. CASE ~task[q].fresh
    BY <2>2, <2>3 DEF CacheInv
  <2>4. CASE \E u \in aged : Reading(q, u)
    <3>1. v \in aged
      BY <2>2, <2>4 DEF Reading
    <3> QED
      BY <1>5, <2>2, <3>1 DEF Raced
  <2> QED
    BY <1>7, <2>1, <2>3, <2>4
<1>16. /\ StalenessHasACause'
       /\ \A q \in Tasks, v \in Views : Reading(q, v)' /\ ~task'[q].fresh => v \in excused'
  BY <1>5, <1>13, <1>14, <1>15, CausesRemain
<1> QED
  BY <1>9, <1>10, <1>16 DEF CacheInv

-----------------------------------------------------------------------------
(* A deletion takes the key from Redis, if Redis is there, and from the    *)
(* process: of that key nothing is left that would still need it.          *)
LEMMA DropKeeps ==
  ASSUME CacheInv, NEW r \in Tasks, NEW v \in Views, Drop(r, v),
         Excuse(IF Reaches(task[r].worker) THEN {} ELSE {v})
  PROVE  CacheInv'
<1> DEFINE w == task[r].worker
           rest == task[r].drops \ {v}
           t == IF rest = {} THEN Free ELSE [task[r] EXCEPT !.drops = rest]
           new == IF Reaches(w) THEN {} ELSE {v}
<1>1. /\ CacheTypeOK /\ TasksHaveSubjects /\ task \in [Tasks -> Task] /\ task[r] \in Task
      /\ redis \in [Views -> Copy] /\ own \in [Workers -> [Views -> Copy]]
  BY DEF CacheInv, CacheTypeOK
<1>2. /\ task[r].at = "dropping" /\ Asks(w) /\ UNCHANGED <<up, commits>>
      /\ redis' = IF Reaches(w) THEN [redis EXCEPT ![v] = "none"] ELSE redis
      /\ own' = [own EXCEPT ![w][v] = "none"]
  BY DEF Drop
<1>3. task' = [task EXCEPT ![r] = t]
  BY <1>1 DEF Drop
<1>4. w \in Workers
  BY <1>1, <1>2 DEF TasksHaveSubjects
<1>5. \/ t = Free /\ rest = {}
      \/ /\ t \in Task /\ t.at = "dropping" /\ t.worker = w /\ t.view = task[r].view
         /\ t.fresh = task[r].fresh /\ t.loaded = task[r].loaded /\ t.drops = rest
  BY <1>1, <1>2 DEF Task
<1>6. /\ own' = [own EXCEPT ![w] = [own[w] EXCEPT ![v] = "none"]]
      /\ Excuse(new) /\ (v \notin new => Reaches(w))
      /\ rest = task[r].drops \ {v} /\ w = task[r].worker
  BY <1>2
<1> HIDE DEF t, new, rest, w
<1>7. \A q \in Tasks : task'[q] = IF q = r THEN t ELSE task[q]
  BY <1>1, <1>3
<1>8. /\ \A u \in Views : redis'[u] = IF u = v /\ Reaches(w) THEN "none" ELSE redis[u]
      /\ \A x \in Workers, u \in Views :
           own'[x][u] = IF x = w /\ u = v THEN "none" ELSE own[x][u]
  BY <1>1, <1>2, <1>4, <1>6
<1>9. CacheTypeOK'
  <2>1. own[w] \in [Views -> Copy] /\ "none" \in Copy
    BY <1>1, <1>4 DEF Copy
  <2>2. [own[w] EXCEPT ![v] = "none"] \in [Views -> Copy]
    BY <2>1
  <2>3. redis' \in [Views -> Copy] /\ own' \in [Workers -> [Views -> Copy]]
    BY <1>1, <1>2, <1>6, <2>1, <2>2, ZenonT(40)
  <2> QED
    BY <1>1, <1>2, <1>3, <1>4, <1>5, <2>3, FreeFacts, AsksTyped DEF CacheTypeOK
<1>10. TasksHaveSubjects'
  BY <1>1, <1>4, <1>5, <1>7, FreeFacts DEF TasksHaveSubjects
<1>11. \A x, u : u \in Pending(x) => u \in Pending(x)' \/ (u = v /\ x = w)
  <2> SUFFICES ASSUME NEW x, NEW u, u \in Pending(x), u # v \/ x # w
               PROVE  u \in Pending(x)'
    OBVIOUS
  <2>1. PICK q \in Tasks : task[q].worker = x /\ u \in task[q].drops
    BY DEF Pending
  <2>2. CASE q # r
    BY <1>7, <2>1, <2>2 DEF Pending
  <2>3. CASE q = r
    <3>1. u \in rest /\ x = w
      BY <1>6, <2>1, <2>3
    <3>2. task'[r].worker = x /\ u \in task'[r].drops
      BY <1>5, <1>7, <3>1
    <3> QED
      BY <3>2 DEF Pending
  <2> QED
    BY <2>2, <2>3
<1>12. \A u \in Views : Off(redis'[u]) => u \in excused \cup new \/ \E x \in Workers : u \in Pending(x)'
  <2> SUFFICES ASSUME NEW u \in Views, Off(redis'[u]), u \notin new
               PROVE  u \in excused \/ \E x \in Workers : u \in Pending(x)'
    OBVIOUS
  <2>1. Off(redis[u]) /\ u # v
    BY <1>6, <1>8 DEF Off
  <2> QED
    BY <1>11, <2>1 DEF CacheInv, StalenessHasACause
<1>13. \A x \in Workers, u \in Views : Off(own'[x][u]) => u \in excused \cup new \cup Pending(x)'
  <2> SUFFICES ASSUME NEW x \in Workers, NEW u \in Views, Off(own'[x][u])
               PROVE  u \in excused \cup Pending(x)'
    OBVIOUS
  <2>1. Off(own[x][u]) /\ (u # v \/ x # w)
    BY <1>8 DEF Off
  <2> QED
    BY <1>11, <2>1 DEF CacheInv, StalenessHasACause
<1>14. \A q \in Tasks, u \in Views : Reading(q, u)' /\ ~task'[q].fresh => u \in excused \cup new
  BY <1>5, <1>7, FreeFacts DEF CacheInv, Reading
<1>15. /\ StalenessHasACause'
       /\ \A q \in Tasks, u \in Views : Reading(q, u)' /\ ~task'[q].fresh => u \in excused'
  BY <1>6, <1>12, <1>13, <1>14, CausesRemain
<1> QED
  BY <1>9, <1>10, <1>15 DEF CacheInv

(* A worker that starts anew has forgotten its copies, and the deletions   *)
(* it still had to make: they are excused.                                 *)
LEMMA RestartKeeps ==
  ASSUME CacheInv, NEW w \in Workers, Restart(w), Excuse(Pending(w))
  PROVE  CacheInv'
<1>1. /\ CacheTypeOK /\ TasksHaveSubjects /\ task \in [Tasks -> Task]
      /\ redis \in [Views -> Copy] /\ own \in [Workers -> [Views -> Copy]]
  BY DEF CacheInv, CacheTypeOK
<1>2. /\ own' = [own EXCEPT ![w] = [v \in Views |-> "none"]]
      /\ link' = [link EXCEPT ![w] = "unasked"]
      /\ task' = [r \in Tasks |-> IF task[r].worker = w THEN Free ELSE task[r]]
      /\ UNCHANGED <<redis, up, commits>>
  BY DEF Restart
<1>3. CacheTypeOK'
  <2>1. [v \in Views |-> "none"] \in [Views -> Copy]
    BY DEF Copy
  <2> QED
    BY <1>1, <1>2, <2>1, FreeFacts DEF CacheTypeOK
<1>4. TasksHaveSubjects'
  BY <1>1, <1>2, FreeFacts DEF TasksHaveSubjects
<1>5. \A x, u : u \in Pending(x) => u \in Pending(x)' \/ x = w
  BY <1>2 DEF Pending
<1>6. \A u \in Views : Off(redis'[u]) =>
        u \in excused \cup Pending(w) \/ \E x \in Workers : u \in Pending(x)'
  BY <1>2, <1>5 DEF CacheInv, StalenessHasACause
<1>7. \A x \in Workers, u \in Views : Off(own'[x][u]) => u \in excused \cup Pending(w) \cup Pending(x)'
  <2> SUFFICES ASSUME NEW x \in Workers, NEW u \in Views, Off(own'[x][u])
               PROVE  u \in excused \cup Pending(x)'
    OBVIOUS
  <2>1. x # w /\ Off(own[x][u])
    BY <1>1, <1>2 DEF Off
  <2> QED
    BY <1>5, <2>1 DEF CacheInv, StalenessHasACause
<1>8. \A q \in Tasks, u \in Views : Reading(q, u)' /\ ~task'[q].fresh => u \in excused \cup Pending(w)
  BY <1>2, FreeFacts DEF CacheInv, Reading
<1>9. /\ StalenessHasACause'
      /\ \A q \in Tasks, u \in Views : Reading(q, u)' /\ ~task'[q].fresh => u \in excused'
  BY <1>6, <1>7, <1>8, CausesRemain
<1> QED
  BY <1>3, <1>4, <1>9 DEF CacheInv

(* Copies expire, and Redis comes and goes.                                *)
LEMMA TimeKeeps ==
  ASSUME CacheInv, Excuse({}),
         \/ \E v \in Views : Expire(v) \/ \E w \in Workers : ExpireOwn(w, v)
         \/ Outage
  PROVE  CacheInv'
<1>1. /\ CacheTypeOK /\ TasksHaveSubjects
      /\ redis \in [Views -> Copy] /\ own \in [Workers -> [Views -> Copy]] /\ "none" \in Copy
  BY DEF CacheInv, CacheTypeOK, Copy
<1>2. UNCHANGED <<link, task, commits>> /\ up' \in BOOLEAN
  BY <1>1 DEF Expire, ExpireOwn, Outage, CacheTypeOK
<1>3. /\ redis' \in [Views -> Copy]
      /\ \A v \in Views : redis'[v] \in {redis[v], "none"}
  BY <1>1 DEF Expire, ExpireOwn, Outage
<1>4. /\ own' \in [Workers -> [Views -> Copy]]
      /\ \A w \in Workers, v \in Views : own'[w][v] \in {own[w][v], "none"}
  <2>1. CASE own' = own
    BY <1>1, <2>1
  <2>2. ASSUME NEW w \in Workers, NEW v \in Views, ExpireOwn(w, v)
        PROVE  /\ own' \in [Workers -> [Views -> Copy]]
               /\ \A x \in Workers, u \in Views : own'[x][u] \in {own[x][u], "none"}
    <3>1. own' = [own EXCEPT ![w] = [own[w] EXCEPT ![v] = "none"]]
      BY <2>2 DEF ExpireOwn
    <3>2. [own[w] EXCEPT ![v] = "none"] \in [Views -> Copy]
      BY <1>1
    <3> QED
      BY <1>1, <3>1, <3>2
  <2> QED
    BY <2>1, <2>2 DEF Expire, Outage
<1>5. CacheTyped'
  BY <1>1, <1>2, <1>3, <1>4 DEF CacheTyped, CacheTypeOK, TasksHaveSubjects
<1> QED
  BY <1>2, <1>3, <1>4, <1>5, QuietSteps DEF Reading

-----------------------------------------------------------------------------
LEMMA CacheInvStep ==
  ASSUME CacheInv, [CacheNext]_trackedVars
  PROVE  CacheInv'
<1>1. CASE UNCHANGED trackedVars
  BY <1>1 DEF trackedVars, cacheVars, CacheInv, CacheTypeOK, TasksHaveSubjects,
              StalenessHasACause, Pending, Reading
<1>2. CASE CacheNext
  BY <1>2, HandlerCommitKeeps, DropKeeps, FillKeeps, RestartKeeps, ReadBeginKeeps,
     LookupKeeps, QueryKeeps, TimeKeeps DEF CacheNext
<1> QED
  BY <1>1, <1>2

(* The inductive invariant: with the causes of stale copies, requests that *)
(* hold old rows belong to views that are excused (a read in flight when   *)
(* the commit came).                                                       *)
THEOREM CacheInvariant == CacheSpec => []CacheInv
<1>1. TrackedInit => CacheInv
  BY FreeFacts DEF TrackedInit, CacheInit, CacheInv, CacheTypeOK, TasksHaveSubjects, Copy,
     StalenessHasACause, Pending, Reading, Off
<1> QED
  BY <1>1, CacheInvStep, PTL DEF CacheSpec

(* A copy that is off is one whose deletion is still to come, or one that  *)
(* a named cause has put out of the reach of every deletion: a handler     *)
(* that forgets the key, a read that raced, another process, a Redis that  *)
(* did not hear, a crash, a reader who may not see payments.               *)
THEOREM EveryStaleCopyHasACause == CacheSpec => []StalenessHasACause
<1>1. CacheInv => StalenessHasACause
  BY DEF CacheInv
<1> QED
  BY <1>1, CacheInvariant, PTL
=============================================================================
