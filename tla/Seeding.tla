------------------------------ MODULE Seeding -------------------------------
(**************************************************************************)
(* The demo data (app/seed.py, POST /api/v1/demo/seed and seed_db.py): one *)
(* transaction under an advisory lock that looks every row up by a natural *)
(* key and inserts it only when it finds none, while the restaurant goes   *)
(* on working with what earlier seeds have left.                           *)
(*                                                                         *)
(* rows holds, for a natural key, the status of every committed row with   *)
(* that key, oldest first.  Of the seed's many rows of a kind a few stand  *)
(* for all; a kind without a status is just "there".  SKUs and dishes are  *)
(* rows of the catalog.                                                    *)
(**************************************************************************)
EXTENDS Catalog, StateMachines, FiniteSets

CONSTANTS
  Seeders,         \* processes that may run the seed at the same time
  SeededSku,       \* the SKU,
  SeededQuantity,  \* its quantity,
  SeededDish,      \* and the dish of the seed's catalog
  MaxSeeds,        \* bound: seeds ever begun
  MaxRequests      \* bound: requests the restaurant makes of the API

ASSUME SeedingAssumption ==
  /\ SeededSku \in Skus /\ SeededDish \in Dishes /\ SeededQuantity \in Nat
  /\ MaxRequests \in Nat

VARIABLES
  rows,      \* the committed rows of each natural key
  seed,      \* what each seeder is doing
  seeds,     \* seeds begun
  requests   \* requests made

seedingVars == <<catalogVars, rows, seed, seeds, requests>>

-----------------------------------------------------------------------------
(* A line of the seed: the natural key, the lifecycle and its spine, the   *)
(* statuses the rows are walked to, whether the look-up bears more than    *)
(* one row, and how far to go on when there is one already.                *)
Line(key, edges, path, goals) ==
  [key |-> key, edges |-> edges, path |-> path, goals |-> goals, many |-> FALSE, next |-> 1]

Plain(key) == Line(key, {}, <<"there">>, <<"there">>)

Illegal == "illegal"

(* Mutant: one leap to the target. *)
Leap(edges, path, status, goal) ==
  IF status = goal THEN status
  ELSE IF CanTransition(edges, status, goal) THEN goal ELSE Illegal

(* _advance_to: along the spine edge by edge and never back; a target that *)
(* is off the spine is one edge away.                                      *)
Advanced(edges, path, status, goal) ==
  LET Place(v) == CHOOSE i \in 1..Len(path) : path[i] = v
      OnPath(v) == \E i \in 1..Len(path) : path[i] = v
  IN  IF OnPath(status) /\ OnPath(goal)
      THEN IF \A i \in Place(status)..(Place(goal) - 1) : CanTransition(edges, path[i], path[i + 1])
           THEN IF Place(status) < Place(goal) THEN goal ELSE status
           ELSE Illegal
      ELSE IF CanTransition(edges, status, goal) THEN goal ELSE Illegal

(* The spines.                                                             *)
SessionPath == <<"open", "ordering", "dining", "settling", "closed">>
GuestPath == <<"authenticating", "joined", "ordering", "dining", "settling", "left">>
OrderPath == <<"draft", "submitted", "in_kitchen", "ready", "served">>
ItemPath == <<"queued", "prepping", "fired", "ready", "picked_up">>
PaymentPath == <<"unpaid", "partial", "authorized", "settled">>
ReservationPath == <<"requested", "confirmed", "seated", "completed">>

(* _seed_tenant: organisation, brand and branch, and the tables.           *)
Tenant ==
  <<Plain("tenant"),
    Line("T1", TableEdges, <<"available">>, <<"available">>),
    Line("T2", TableEdges, <<"available">>, <<"available">>)>>

(* _seed_org_chart: departments, roles and employees.                      *)
OrgChart == <<Plain("staff")>>

(* _seed_catalog: SKUs, dishes and their recipes.                          *)
CatalogLines == <<Plain("sku"), Plain("dish")>>

(* _seed_reservations: only where the branch has no booking at all.        *)
Bookings ==
  <<[Line("bookings", ReservationEdges, ReservationPath, <<"requested", "confirmed", "cancelled">>)
       EXCEPT !.many = TRUE]>>

(* _seed_live_service: a party at T1 ...                                   *)
LiveService ==
  <<Line("visit_T1", TableSessionEdges, SessionPath, <<"ordering">>),
    Line("Nadia", GuestSessionEdges, GuestPath, <<"ordering">>),
    Line("Karim", GuestSessionEdges, GuestPath, <<"joined">>),
    Line("order_T1", OrderEdges, OrderPath, <<"in_kitchen">>),
    Line("burger", OrderItemEdges, ItemPath, <<"ready">>),
    Line("salad", OrderItemEdges, ItemPath, <<"prepping">>),
    Line("payment_T1", PaymentEdges, PaymentPath, <<"unpaid">>)>>

(* ... and, by _seed_closed_visit, one that has left T2: when its visit or *)
(* its order is there, the rest is taken to be there too.                  *)
ClosedVisit ==
  <<[Line("visit_T2", TableSessionEdges, SessionPath, <<"closed">>) EXCEPT !.next = 5],
    Line("Olivia", GuestSessionEdges, GuestPath, <<"left">>),
    [Line("order_T2", OrderEdges, OrderPath, <<"served">>) EXCEPT !.next = 3],
    Line("salmon", OrderItemEdges, ItemPath, <<"picked_up">>),
    Line("payment_T2", PaymentEdges, PaymentPath, <<"settled">>)>>

(* _seed_audit: three entries, only where the branch has none.             *)
AuditLines == <<[Plain("audit") EXCEPT !.many = TRUE]>>

Plan == Tenant \o OrgChart \o CatalogLines \o Bookings \o LiveService \o ClosedVisit \o AuditLines

Key == {Plan[i].key : i \in 1..Len(Plan)}

(* What a statement sees: the committed rows of a key.                     *)
Rows(key) ==
  CASE key = "sku" -> IF onHand[SeededSku] = Unset THEN <<>> ELSE <<"there">>
    [] key = "dish" -> [i \in 1..Len(menu[SeededDish]) |-> "there"]
    [] OTHER -> rows[key]

NoRows == [k \in Key |-> <<>>]

NoSeed == [step |-> 0, added |-> NoRows]

SeedingInit ==
  /\ CatalogInit
  /\ rows = NoRows
  /\ seed = [s \in Seeders |-> NoSeed]
  /\ seeds = 0
  /\ requests = 0

-----------------------------------------------------------------------------
(* Mutant: no advisory lock. *)
NobodyAsked(s) == TRUE

(* The advisory lock.                                                      *)
LockFree(s) == \A r \in Seeders : seed[r] = NoSeed

(* seed_all: take the lock, ...                                            *)
SeedBegin(s) ==
  /\ seeds < MaxSeeds
  /\ seed[s] = NoSeed
  /\ LockFree(s)
  /\ seed' = [seed EXCEPT ![s].step = 1]
  /\ seeds' = seeds + 1
  /\ UNCHANGED <<catalogVars, rows, requests>>

(* Mutant: a row counts as found only in the status it was seeded with. *)
FoundFresh(line) == SelectSeq(Rows(line.key), LAMBDA v : v \in {line.goals[i] : i \in 1..Len(line.goals)})

(* _upsert: the rows of a key, in whatever status they are by now; more    *)
(* than one is an error where one is expected.                             *)
Found(line) == Rows(line.key)

Walked(line) ==
  [i \in 1..Len(line.goals) |-> Advanced(line.edges, line.path, line.path[1], line.goals[i])]

(* Mutant: the party is seated without a table. *)
NobodySeated(added, key) == added

(* A party that is seated by the seed takes its table, which this very     *)
(* seed has made: a visit that is not there means that T1 was not.         *)
Occupied(added, key) ==
  IF key = "visit_T1" /\ added["T1"] # <<>>
  THEN [added EXCEPT !["T1"] = <<Advanced(TableEdges, <<>>, added["T1"][1], "seated")>>]
  ELSE added

Working(s) == seed[s].step \in 1..Len(Plan)

(* Whether a look-up or a transition raises.                               *)
Raises(line) ==
  \/ ~line.many /\ Len(Found(line)) > 1
  \/ Found(line) = <<>> /\ \E i \in 1..Len(line.goals) : Walked(line)[i] = Illegal

(* ... go through the plan: pass over a row that is there, ...             *)
SeedFinds(s) ==
  /\ Working(s)
  /\ LET line == Plan[seed[s].step]
     IN  /\ ~Raises(line)
         /\ Found(line) # <<>>
         /\ seed' = [seed EXCEPT ![s].step = @ + line.next]
  /\ UNCHANGED <<catalogVars, rows, seeds, requests>>

(* ... insert one that is not and walk it to its status, ...               *)
SeedInserts(s) ==
  /\ Working(s)
  /\ LET line == Plan[seed[s].step]
     IN  /\ ~Raises(line)
         /\ Found(line) = <<>>
         /\ seed' = [seed EXCEPT ![s] =
              [step |-> @.step + 1,
               added |-> Occupied([@.added EXCEPT ![line.key] = Walked(line)], line.key)]]
         /\ nextId' = IF line.key = "audit" THEN nextId + 3 ELSE nextId
  /\ UNCHANGED <<onHand, menu, trail, clerk, rows, seeds, requests>>

(* ... or raise, and roll everything back.                                 *)
SeedFails(s) ==
  /\ Working(s)
  /\ Raises(Plan[seed[s].step])
  /\ seed' = [seed EXCEPT ![s] = NoSeed]
  /\ UNCHANGED <<catalogVars, rows, seeds, requests>>

(* Mutant: a found row is overwritten with the defaults. *)
Recount(s) == SeededQuantity

(* The quantity of the SKU after the commit: it is only ever inserted.     *)
Quantity(s) == IF seed[s].added["sku"] = <<>> THEN onHand[SeededSku] ELSE SeededQuantity

(* Everything becomes visible at the commit, which gives the lock back.    *)
SeedCommits(s) ==
  /\ seed[s].step > Len(Plan)
  /\ rows' = [k \in Key |-> rows[k] \o seed[s].added[k]]
  /\ onHand' = [onHand EXCEPT ![SeededSku] = Quantity(s)]
  /\ menu' = [menu EXCEPT ![SeededDish] =
       IF seed[s].added["dish"] = <<>> THEN @ ELSE Append(@, {SeededSku})]
  /\ seed' = [seed EXCEPT ![s] = NoSeed]
  /\ UNCHANGED <<trail, nextId, clerk, seeds, requests>>

(* The process dies: nothing of the transaction remains, nor the lock.     *)
SeedDies(s) ==
  /\ seed[s] # NoSeed
  /\ seed' = [seed EXCEPT ![s] = NoSeed]
  /\ UNCHANGED <<catalogVars, rows, seeds, requests>>

-----------------------------------------------------------------------------
(* The restaurant at work, as far as a seed can see it.  Its handlers are  *)
(* the subject of Floor, Ticketing and Reservations; here each is one      *)
(* commit, bounded by MaxRequests.  Only the seed makes a branch, so       *)
(* nothing happens before one.                                             *)
Works ==
  /\ rows["tenant"] # <<>>
  /\ requests < MaxRequests
  /\ requests' = requests + 1

(* A row moves along an edge of its lifecycle.                             *)
Moves ==
  /\ Works
  /\ \E i \in 1..Len(Plan) : \E n \in 1..Len(rows[Plan[i].key]) : \E e \in Plan[i].edges :
       /\ rows[Plan[i].key][n] = e[1]
       /\ rows' = [rows EXCEPT ![Plan[i].key][n] = e[2]]
  /\ UNCHANGED <<catalogVars, seed, seeds>>

(* One more row of a key that is taken.                                    *)
Adds(key, status) ==
  /\ Works
  /\ rows' = [rows EXCEPT ![key] = Append(@, status)]
  /\ UNCHANGED <<catalogVars, seed, seeds>>

(* open_table_session, once the visits of the table are over.              *)
OpensVisit(key) ==
  /\ \A n \in 1..Len(rows[key]) : rows[key][n] = "closed"
  /\ Adds(key, "open")

Active(key) == \E n \in 1..Len(rows[key]) : rows[key][n] # "closed"

(* join_table_session: nobody asks whether the name is taken.              *)
GuestJoins ==
  /\ Active("visit_T1")
  /\ \E name \in {"Nadia", "Karim"} : Adds(name, "joined")

(* create_order: a visit may have any number of orders.                    *)
PlacesOrder == Active("visit_T1") /\ Adds("order_T1", "draft")

(* add_order_item: the same dish once more is a row of its own.            *)
OrdersAgain ==
  /\ Adds("burger", "queued")
  /\ rows["order_T1"][1] \notin {"served", "cancelled"}

(* create_payment: the seed's payment covers the order as it stands, so    *)
(* there is something to pay when that has failed, was refunded, or more   *)
(* has been ordered.                                                       *)
PaysAgain ==
  /\ Adds("payment_T1", "unpaid")
  /\ Active("visit_T1")
  /\ \/ rows["payment_T1"][1] \in {"failed", "refunded"}
     \/ Len(rows["burger"]) > 1

(* create_reservation.                                                     *)
BooksTable == Adds("bookings", "requested")

(* A request on the catalog; its later steps are not new requests.         *)
AsksCatalog ==
  /\ Works
  /\ \/ \E c \in Clerks, k \in Skus, amount \in Amounts : AdjustBegin(c, k, amount)
     \/ \E d \in Dishes, recipe \in SUBSET Skus, amount \in Amounts : CreateMenuItem(d, recipe, amount)
  /\ UNCHANGED <<rows, seed, seeds>>

AnswersCatalog ==
  /\ \E c \in Clerks : AdjustRecord(c) \/ AdjustCommit(c) \/ AdjustAbort(c)
  /\ UNCHANGED <<rows, seed, seeds, requests>>

SeedingNext ==
  \/ \E s \in Seeders :
       SeedBegin(s) \/ SeedFinds(s) \/ SeedInserts(s) \/ SeedFails(s) \/ SeedCommits(s) \/ SeedDies(s)
  \/ Moves
  \/ \E key \in {"visit_T1", "visit_T2"} : OpensVisit(key)
  \/ GuestJoins \/ PlacesOrder \/ OrdersAgain \/ PaysAgain \/ BooksTable
  \/ AsksCatalog \/ AnswersCatalog

SeedingSpec == SeedingInit /\ [][SeedingNext]_seedingVars

-----------------------------------------------------------------------------
(* "Existing rows are reused, never duplicated, and never rewound" (the    *)
(* docstring of seed_all): once a seed has committed, another that commits *)
(* changes nothing, whatever the restaurant has done in between and is     *)
(* doing while the seed goes through its plan.                             *)
RerunChangesNothing ==
  [][\A s \in Seeders :
       SeedCommits(s) /\ rows["tenant"] # <<>> => UNCHANGED <<rows, onHand, menu>>]_seedingVars

(* A seed never trips over statuses, nor over what seeds have left: it     *)
(* fails only after requests, and only at a line whose look-up bears one   *)
(* row at most (scalar_one_or_none in _upsert) and finds more.             *)
FailsForRepeatedKey(s) ==
  LET line == Plan[seed[s].step]
  IN  SeedFails(s) => requests > 0 /\ ~line.many /\ Len(Rows(line.key)) > 1

SeedFailsOnlyForRepeatedKeys == [][\A s \in Seeders : FailsForRepeatedKey(s)]_seedingVars

(* "Safe to re-run" (seed_all; README.md, "Seed the data"): a seed that is *)
(* begun does not raise, whatever the restaurant has done before.          *)
RerunsAreSafe == [][\A s \in Seeders : ~SeedFails(s)]_seedingVars

(* The rows that nothing but a seed makes.                                 *)
OnceKeys == {"tenant", "T1", "T2", "staff", "Olivia", "order_T2", "payment_T2", "audit"}

(* Seeds that are started at the same time, die and are run again make one *)
(* tenant, one staff, one set of tables, one closed visit and one set of   *)
(* entries: nothing is ever in the making that is there already, or twice. *)
SeedsAddOnce ==
  \A k \in OnceKeys :
    Len(rows[k]) + Cardinality({s \in Seeders : seed[s].added[k] # <<>>}) <= 1

(* The service the seed leaves is one the handlers could have led to: a    *)
(* table is seated exactly while its visit is active, and a visit that is  *)
(* closed left no guest, no open order and no unsettled payment behind.    *)
ServiceStartsConsistent ==
  requests = 0 /\ rows["tenant"] # <<>> =>
    /\ rows["T1"][1] = "seated" <=> Active("visit_T1")
    /\ rows["T2"][1] = "seated" <=> Active("visit_T2")
    /\ ~Active("visit_T2") =>
         rows["Olivia"] = <<"left">> /\ rows["order_T2"] = <<"served">> /\ rows["payment_T2"] = <<"settled">>

(* What the first seed has made of the i-th line when it is at step n: T1  *)
(* is taken as soon as its party has come.                                 *)
Made(i, n) ==
  IF i >= n THEN <<>>
  ELSE IF Plan[i].key = "T1" /\ \E j \in 1..(n - 1) : Plan[j].key = "visit_T1" THEN <<"seated">>
  ELSE Plan[i].goals

RowStatus ==
  {"there"} \cup TableStatus \cup TableSessionStatus \cup GuestSessionStatus \cup OrderStatus
    \cup OrderItemStatus \cup PaymentStatus \cup ReservationStatus

SeedingTypeOK ==
  /\ rows \in [Key -> Seq(RowStatus)]
  /\ seed \in [Seeders -> [step: Nat, added: [Key -> Seq(RowStatus)]]]
  /\ requests \in 0..MaxRequests

(* The advisory lock lets one seed in.                                     *)
OneSeed ==
  /\ \A r, s \in Seeders : seed[r] # NoSeed /\ seed[s] # NoSeed => r = s
  /\ \A s \in Seeders : seed[s].step = 0 => seed[s] = NoSeed

(* Until one has committed it finds nothing and makes everything, ...      *)
FirstSeed ==
  /\ rows = NoRows /\ requests = 0
  /\ onHand[SeededSku] = Unset /\ menu[SeededDish] = <<>>
  /\ \A s \in Seeders :
       /\ seed[s].step <= Len(Plan) + 1
       /\ \A i \in 1..Len(Plan) : seed[s].added[Plan[i].key] = Made(i, seed[s].step)

(* ... from then on every line has its row, and no seed makes any.         *)
LaterSeeds ==
  /\ \A k \in Key : rows[k] # <<>>
  /\ onHand[SeededSku] # Unset /\ menu[SeededDish] # <<>>
  /\ \A s \in Seeders : seed[s].added = NoRows
  /\ \A k \in OnceKeys : Len(rows[k]) = 1
  /\ requests = 0 =>
       /\ Len(menu[SeededDish]) = 1
       /\ \A i \in 1..Len(Plan) : rows[Plan[i].key] = Made(i, Len(Plan) + 1)

(* What keeps the seeds from doubling one another's rows.                  *)
SeedingInv ==
  /\ CatalogInv
  /\ SeedingTypeOK
  /\ OneSeed
  /\ IF rows["tenant"] = <<>> THEN FirstSeed ELSE LaterSeeds

(* To the catalog a seed is a step that only ever adds: what is proved of  *)
(* the catalog by itself holds among seeds.                                *)
CatalogAmongSeeds == CatalogSpec
=============================================================================
