# Jervice in TLA+

Specifications of the Jervice restaurant backend (FastAPI, SQLAlchemy async, PostgreSQL,
Redis) and of its assistant, JARVIS: TLA+ modules, the TLC configurations that check them on
small instances, and TLAPS proofs.

    tlc -workers 2 -config floor_concurrent.cfg MCFloor
    tlapm FloorProofs.tla

Paths below are relative to the repository's root; `PROJECT.json` maps every definition to
the lines it models and lists runs, mutants, hazards, findings and theorems.

## 1. The system

A branch has physical **tables**. Seating a party opens a **table session** (here: a
*visit*) at a table; guests join the visit by QR code; the visit has **orders**, orders have
**items** for the kitchen and **payments**. Tables can be **reserved**. Dishes are made of
stocked goods (**SKUs**). The assistant reads all of this through read models that are
**cached**, and remembers its **conversations**. A **seed** fills an empty installation with
demo data.

Every HTTP request is one coroutine with one database session and one transaction, at
PostgreSQL's default READ COMMITTED. Handlers read, decide, write, commit and only then
delete cache keys. Several requests, in several worker processes, are in flight at once, and
every `await` lets another one run: what a handler has read may be out of date when it
commits. Most properties here are about that gap.

| Component | State | Operations that change it | What makes it correct |
|---|---|---|---|
| Lifecycles, `app/domain/state_machines.py` | none | `apply_transition` | a status moves along the edges of its table only |
| Floor, `app/api/tables.py` | `dining_tables`, `table_sessions`, `guest_sessions` | create table, move table, open visit, move visit, close visit, join, move guest | one active visit per table; a visit keeps its table; a closed visit stays closed and gives up its table; no deadlock; requests end |
| Tickets, `app/api/orders.py` | `orders`, `order_items`, `payments` | create order, add item, move order, move item, create payment, move payment | lifecycles; the bill of a finished order is final; never paid beyond the total |
| Visits (the two together) | both | the close counts payments; orders and payments ask whether the visit is closed | closing leaves no money behind; a closed visit takes nothing new |
| Reservations, `app/api/reservations.py` | `reservations` | book, move | no table promised twice at one time |
| Catalog, `app/api/catalog.py`, `app/core/audit.py` | `inventory_skus`, `menu_items`, the audit rows of stock corrections | correct a stock, create a menu item | the stock is what the trail says |
| Demo data, `app/seed.py` | all tables | look up, insert, walk to a status, commit | nothing twice, nothing rewound, restartable |
| Read models, `app/services/operations.py`, `app/core/redis.py` | Redis, a fallback cache in each process | read through, invalidate, expire | a copy is out of date only for a known cause, and not for long |
| Request limiter, `app/core/rate_limit.py` | buckets in one process | `allow_event`, reset | a window admits its limit, no more and no less |
| Conversations, `app/ai/memory.py`, `app/ai/agent.py` | owners, LangGraph checkpoints, fallback history, in one process | ask, answer, fall back, clear, restart | a conversation shows its owner's turns, oldest first, the newest of them, bounded |
| Doors of the assistant, `app/ai/router.py`, `app/ai/openai_compat.py` | requests in flight | admit, refuse, fetch the context, begin a turn, conclude, drop a stream | nobody is told what he may not read |
| Permissions, `app/core/auth.py`, `app/core/permissions.py` | none | | the route, the assistant's boundary and the tools agree |
| Configuration, dashboard, organisation chart, web console, command-line tools | none of their own | | not modelled, see section 8 |

**Interactions.** The floor writes tables from visits (an open seats, a close releases). The
close reads payments across tickets; tickets read the status of the visit. Every mutation of
floor, tickets and catalog calls `invalidate_operational_cache` after its commit; the read
models read all of them. The seed writes the rows of all components, in one transaction. The
assistant reads over HTTP, through the limiter and the permissions, and writes only its memory
and one audit row.

**What is hard.** Unlocked reads followed by blind writes (visits, guests, reservations,
items); write skew between a close and an order or a payment; lock order between open and
close; sums checked before an insert; audit ids drawn before the commits they describe; the
fill of a cache racing with its invalidation; crashes between a commit and an invalidation;
processes that disagree on whether Redis exists; a seed that runs twice, or over a restaurant
at work; turns of a conversation in flight when it is cleared.

## 2. Modules

| Module | Models | Extends |
|---|---|---|
| `StateMachines` | the seven lifecycles as sets of edges | |
| `Floor` | tables, visits, guests, requests in flight | `StateMachines` |
| `FloorRules` | abstract specification: the floor with atomic operations | `StateMachines` |
| `FloorProofs` | theorems of `Floor`, without and with one writer per visit | `Floor` |
| `Ticketing`, `TicketingProofs` | orders, items, payments, requests in flight | `StateMachines` |
| `Visit`, `VisitProofs` | `Floor` and `Ticketing` composed | both |
| `Reservations`, `ReservationProofs` | bookings and their theorems | `StateMachines` |
| `Catalog` | stock, menu, audit trail of corrections | |
| `Seeding`, `SeedingProofs` | the seed, among requests of all components; theorems of both | `Catalog`, `StateMachines` |
| `ReadCache`, `ReadCacheProofs` | views, their copies, readers, mutations | |
| `RateRules` | abstract specification: windows that open and close | |
| `RateLimiter`, `RateLimiterProofs` | the dictionary of buckets | |
| `Access` | permissions and the fields of a context | |
| `Conversation` | conversation memory | |
| `Assistant`, `AssistantProofs` | the doors, over memory, limiter and permissions | `Conversation`, `RateLimiter`, `Access` |
| `MC*` | the instances TLC checks | |

**Floor.** A handler is cut at its awaits into a `...Begin` action (reads, takes row locks,
decides) and a `...Commit` action (flush, commit, end); what the coroutine keeps in local
variables and identity map in between is in `req[c]`. A close has four steps: it reads the
visit (`UpdateSessionBegin`), counts payments (`CloseCount`), flushes the visit and reads
the table (`CloseFlush`), and commits (`CloseCommit`). Row locks are derived from `req`: a
`SELECT ... FOR UPDATE` locks from the first action to the last, a flushed row until the
commit. The partial unique index `uq_table_sessions_active_table` is `IndexAdmits` (a commit
passes), `IndexBusy` (it waits for another transaction's verdict) and `IndexRejects`.
`Abort` is a request that ends without committing: the process dies, the connection breaks,
the database fails. A request that is refused (404, 409, 403) changes nothing and is not a
step.

**FloorRules** has one atomic action per operation: what a reader of the API documentation
believes it does. `Floor` implements it under a discipline (section 4), which is proved.

**Ticketing** is cut the same way. `_order_for_actor` locks the order row;
`update_payment_status` locks the payment first; the item is read *before* the lock, as in
the code. Money is in cents, requested amounts in tenths of a cent, and `Stored` rounds as
NUMERIC(10, 2) does after the handler has compared the unrounded amount.

**Visit** runs both in one state: `Unsettled` is the count of the close, and `Closed` what
tickets read of the visit.

**Reservations.** A booking is requested for a table (or none) and a start; two bookings
conflict when their starts are less than `Duration` apart (both comparisons of the query
are strict). No row is locked.

**Catalog.** `adjust_inventory` locks the SKU (`AdjustBegin`), writes its audit row, whose id
is drawn then and never given back (`AdjustRecord`), and commits both (`AdjustCommit`) or
neither (`AdjustAbort`). The column NUMERIC(12, 3) rounds the stock; the trail keeps the
quantity as it was asked for. `Seeded` is all a seed may do to these rows.

**Seeding.** `Plan` is the seed as a sequence of lines: a natural key to look up, a lifecycle,
and the statuses the rows are walked to. `SeedFinds`, `SeedInserts` and `SeedFails` are
`_upsert` and `_advance_to` on one line; nothing is visible before `SeedCommits`. The advisory
lock is `LockFree`. A found visit or order skips the rest of the closed visit (`next`), bookings
and audit entries are made only where there are none (`many`). The restaurant works in between
and meanwhile; its handlers are single commits here, and a superset of what they allow (rows
move along any edge), which makes the claims about the seed stronger.

**ReadCache.** A copy is `"fresh"`, `"stale"` or `"stripped"` (its payments emptied). A
reader looks up, queries and fills in separate steps; rows its request loaded earlier
(`loaded`) come back from the identity map as they were. A mutation commits, then deletes
its keys one await at a time. `LinkAfter` is `_init_redis`, which asks once per process;
`Restart` and `Outage` are what can fail. `excused` is a history variable for the property.

**RateLimiter.** Time is counted in ticks and a bucket keeps its age. `allow_event` has no
`await`, so a call is one step (`Admit`, `TurnAway`), the eviction included. `admitted` is a
history variable: how long ago the admitted requests of each key were. `RateRules` has neither
buckets nor evictions: windows open, grant and close by themselves.

**Access** has the role bundles, `has_permission`, the permission each field of a context
takes, what the route returns to whom, and the `Boundary` at the end of
`build_operational_context`. Payments are a field of their own, because they lie inside the
orders and are taken out separately.

**Conversation.** One process; a turn yields only while the model infers. `Ask` claims the
session and leaves LangGraph's input checkpoint, `Answer` the final one, `FallBack` and
`AskHeuristic` append to the fallback history. `History` is `get_conversation_history`: a loop
over the checkpoints (`ListCheckpoint`) and one over the fallback entries (`ListFallback`), each of
which skips what repeats the entry listed last, and the cut to the newest. The turn number, whether the session
was cleared during the turn, and who recorded it are history fields.

**Assistant** has the requests that take these actions. A request is admitted by its key of
the limiter (`Arrive`, `Refuse`), waits for its context (`Resolve`: from the route, from the
fixture a local test may send, or none), begins a turn (`Begin`: refused by the owner check,
answered by the heuristic, or handed to the model) and concludes it. `Drop` is a client that
leaves a stream; `/execute` is a stream nobody leaves. `settings` are a key for the model and
the permission of test contexts, fixed while a process runs.

## 3. Runs

| Run | Checks | Instance |
|---|---|---|
| `floor_concurrent` | `TypeOK`, `FloorInv`, `OneActiveSession`, `NoDeadlock`, `TableMovesAreLegal`, `VisitsOpenAtFreeTables`, `ARequestEnds` | 1 table, 2 visits, 3 requests, no discipline, strong fairness |
| `coordinated` | `VisitKeepsTable`, `CoordinatedInv`, `ClosedIsTerminal`, `FollowsRules` (refinement); `ClosingLeavesNoMoney`, `ClosedVisitsTakeNothingNew`; `ReservationTypeOK`, `NoDoubleBooking`, `PromisesStand`, `BookingMovesAreLegal` | 2 tables, 2 visits, 1 guest, 2 requests, `OneWriter`; with 1 table and visit in use, 1 request at a time and 1 order, item, payment and ticket request, `QuietClose`; 3 bookings, 1 table, 3 moments, 2 desks, `OneDeskAtATime` |
| `floor_reopen` | `ClosedIsTerminal` **violated** | 1 table, 2 visits, 2 requests, no discipline |
| `ticketing` | `TicketInv`, `PaymentsCovered`, `TicketMovesAreLegal`, `FinishedBillsAreFinal`, `OnlyRevivalOverpays` | 1 order, 1 item, 2 payments, 3 amounts, 2 requests |
| `item_stale` | `ItemMovesAreLegal` **violated** | the same |
| `payment_revived` | `NeverOverpaid` **violated** | the same |
| `close_settled` | `SettledVisitsCanClose` **violated** | 1 table, visit, order, item, payment; 1 request on each side; no discipline |
| `seeding` | `StockMatchesTrail`, `SeedingInv`, `SeedsAddOnce`, `ServiceStartsConsistent`, `RerunChangesNothing`, `SeedFailsOnlyForRepeatedKeys`, `CatalogAmongSeeds` (refinement) | 1 SKU, 1 dish, 2 seeders and 3 seeds, 2 clerks, 2 quantities, 3 requests |
| `seed_again` | `RerunsAreSafe` **violated** | the same |
| `read_cache` | `CacheInv`, `StalenessHasACause`, `StalenessPasses` | 2 views, one in use at a time, 2 processes, 2 requests, 2 mutations |
| `assistant` | `ConversationInv`, `OwnTurnsOnly`, `HistoryInOrder`, `LimiterInv`, `LessThanTwice`, `RefusalsAreDeserved`, `ToldOnlyWhatMayBeRead`, `LimiterKeepsRules` (refinement) | a waiter and a cook, 1 session, 2 doors, 4 requests, 2 at a time; limit 2, window 2, eviction above 1 bucket |
| `history_order` | `HistoryOldestFirst` **violated** | the same |

**Why the bounds are enough.**

- *Floor.* The races are between an open, a close and a move of the same table, or two moves
  of the same visit. Two visits are an old and a new one at the same table; three requests are
  a reopening write, an open and a close, the largest group whose locks and index entries
  interact. Two tables appear where a visit must not touch another's table. `ARequestEnds` is
  the claim for one request of the three, which are interchangeable.
- *Ticketing.* The lock is per order, so one order with two requests shows every race. The
  amounts are half a cent (rounds up to one), 9.6 cents (rounds to ten) and the whole bill;
  two payments overpay if anything does.
- *Visit.* One visit: tickets never relate two of them. In `coordinated` tickets are written
  only while one table and one visit are in use and one request at a time is on the floor
  (`OneTableInUse`), so that the larger floor is explored without tickets and the tickets on the
  smaller one. One amount, the whole bill, is enough for a close, which counts payments and not
  money. The book shares no row with either: it moves while they rest, and they while it
  does (`StaffNext`).
- *Reservations.* A booking lasts two units and starts at one of three moments, so two bookings
  can coincide, overlap by half, or touch; the third is booked against two that stand.
- *Seeding.* Three seeds are one that dies, one that completes and one that runs again, two of
  them at once. Three requests are enough to open a second visit at T2, to correct a stock twice,
  or to repeat a natural key and go on; a second visit at T1 is a repeated key like that. The
  quantities 1.4 and 1.5 are rounded apart.
  `MaxEntries` is never reached.
- *ReadCache.* Views do not influence one another except through the request that holds both,
  whose effect is `loaded`; so one is in use at a time. Two processes are one that holds a copy
  and one that cannot delete it; the second mutation comes while the first still deletes.
  `MaxCommits` bounds the mutations, and is what "once changes stop" of `StalenessPasses`
  means.
- *Assistant.* Two actors and one session id are a claim after a clear; a history of two with
  three turns is cut. A waiter and a cook have permissions of which neither contains the
  other's. With a limit of two and a window of two ticks a key is admitted three times within a
  window's length, two of them by a window that follows the other's end, which is all that
  `LessThanTwice` allows; four keys and an eviction above one bucket make it happen at once. The
  limiter's four admissions need no conversation, and the conversations no passing time, which
  neither the memory nor the model has: once anything has been said, three requests and one tick
  are enough (`AssistantBound`). `MaxHistory` stands for 100 and `MaxBuckets` for 10 000;
  `MaxTurns` and `MaxRequests` bound the length of a behaviour.

Symmetry is used over identities that no action names, and never in a run with a liveness
property. `CHECK_DEADLOCK FALSE` appears where all identities can be used up, every lifecycle
have ended, and every seed and request of the bound have been made.

## 4. Disciplines: what the code leaves to its users

Some properties do not hold of every interleaving, because the code takes no lock where it
would need one. They are checked under a discipline, stated as a definition and added to the
next-state relation, so that what is relied upon is explicit:

- `OneWriter` (`Floor`): no two requests in flight move the same visit, or the same guest. It is
  asked of arrivals alone (`CoordinatedNext`); that no later step of a request breaks it is a
  lemma (`CoordinatedSteps`). Without it: `floor_reopen`.
- `QuietClose` (`Visit`): nobody orders or pays for a visit while its close is between its
  count and its commit, and one person closes it.
- `OneDeskAtATime` (`Reservations`): no two requests in flight book the same table, or move
  the same booking.

A restaurant mostly works this way (a waiter per table, a host at the book), but no code
enforces it. `floor_concurrent`, `ticketing`, `seeding`, `read_cache` and `assistant` use none.

What `coordinated` shows is therefore that nothing *but* the excluded races goes wrong: that the
checks of the handlers, the order of their writes and the steps of everybody else are enough for
someone who is alone with his visit, his guest, his close or his booking. It does not show that
the races are harmless, and they are not: a visit is reopened (`floor_reopen`), and a guest, a
booking or the payments of a visit being closed would fare the same (see the notes of the hazards
in `PROJECT.json`). Under `OneDeskAtATime` and `QuietClose` little is left to concurrency;
`BookingMovesAreLegal`, `PromisesStand`, `ClosingLeavesNoMoney` and `ClosedVisitsTakeNothingNew`
are then about the handlers' own checks and about moves that meet bookings, and orders and
payments that meet the other steps of the floor.

## 5. Fairness

- `FairSpec` (`Floor`): strong fairness of each request's own steps. The event loop resumes a
  coroutine whose database answer has come; PostgreSQL grants row locks in the order of the
  queue, so a request for which a lock becomes free again and again gets it. Weak fairness would
  not do: the lock may be taken by others in between. Nothing is assumed of clients: no request
  must ever arrive.
- `CacheFairness` (`ReadCache`): weak fairness of each request's steps and of each expiry,
  since every `set` has a time to live of 5 to 15 seconds. No fairness of Redis: it may stay
  away for good.
- The other specifications are checked for safety only and state none.

## 6. What the code does otherwise than it says

Six runs expect a violation; each quotes what the repository says (see `findings`).

1. `close_settled`: a visit that is paid in full cannot be closed. The count of "unsettled"
   payments includes settled ones.
2. `item_stale`: two requests on one item skip its lifecycle; the lock comes after the reading.
3. `payment_revived`: a failed payment that becomes live again is not checked against the
   balance.
4. `floor_reopen`: a stale write brings a closed visit back. The unique index still keeps its
   table to one active visit, which is why `OneActiveSession` holds.
5. `history_order`: "The public helper promises oldest first" (`app/ai/memory.py:118-119`), but
   every turn of the heuristic is listed after every turn of the model (`app/ai/memory.py:139`).
   The cut to a hundred (`app/ai/memory.py:144`) is made at the front of that list: the newest
   turn of the model is the one that goes when the heuristic has answered a hundred. What is left
   of the promise is `HistoryInOrder`: each of the two kinds oldest first, and no remembered turn
   missing that the cut, or a question asked again, does not explain.
6. `seed_again`: "Safe to re-run" (`app/seed.py:587`, also `README.md:54` and `seed_db.py:6`) is
   true of the rows of the seed, and `RerunChangesNothing` says how far. But a natural key is
   looked up as if it were unique (`scalar_one_or_none`, `app/seed.py:207`), and the API lets it
   be repeated: after a menu item of the same name, a second visit at a seeded table, a second
   order or payment of its visit, a second guest of one name or a dish ordered twice, the seed
   fails, and fails ever after. `SeedFailsOnlyForRepeatedKeys` says that this is the only way:
   the line that fails allows for one row and finds more, and a request has made them.

Seen while modelling, without a run of its own:

- The seed's release of T2 (`app/seed.py:551-557`) is never taken: nothing in that function seats
  the table.
- The entries `get_conversation_history` builds have no `turn`, which `MemoryHistoryEntry`
  (`app/ai/schemas.py:62`) requires: `GET /history/{session_id}` fails on any history that is not
  empty.
- The audit row of a stock correction has the quantity as it was asked for, the stock the rounded
  one (`StockMatchesTrail` therefore rounds).
- Windows of the limiter are fixed: within one window's length a key may be admitted up to twice
  its limit less one (`LessThanTwice`). And they are kept by one process: with several workers
  the limit is each one's own, which no property here is about.

`StalenessHasACause` names the ways a cached copy can be wrong for longer than an invalidation
takes; each was confirmed by striking it from the list: a handler that does not delete the key
(`update_table_status` for the visit's view, and the seeding), a read that raced with the
commit, a copy in another process, a deletion Redis did not get, a crash before the deletion,
and a reader without `payments.read` who empties the payments of the copy his own process
has just kept (`app/api/operations.py:65`; only without Redis).

## 7. Proofs

Every safety property of a passing run is a theorem. The inductive invariants are checked by TLC
on the instance of their run too, but for two that no run needs: `QuietInv` of `VisitProofs`
and `RequestsKnowTheirActors` of `AssistantProofs`.

**`FloorProofs`**, for any tables, visits, guests and requests, from `NilAssumption` alone:

- `TypeCorrect`: `Spec => []TypeOK`.
- `FloorInvariant`: `Spec => []FloorInv`, the inductive invariant. Its conjuncts are what the
  locks give a request in flight: the visit it works on exists (`RequestsKnowTheirRows`), visits
  have tables, two opens never make the same visit, table locks exclude each other, and a table
  move that was legal when judged is legal when committed (`TableMovesStayLegal`). That last
  one is threatened by a close, which writes a table it has not locked: `OnlyStaleReleasesWait`
  says that a close waiting to release a table on which a visit is being opened is the close of
  a visit that is closed already. It is why the two do not wait for each other.
- `OneVisitPerTable`, `NoTwoRequestsDeadlock`: consequences, the first by its own induction over
  `FloorInv`.
- `TablesFollowTheirLifecycle`, `VisitsBeginAtFreeTables`: action properties, step by step from
  the invariant.

Then the floor under `OneWriter`. `CoordinatedInv` adds to `FloorInv` that
the reading of every request in flight is current (`IsCurrent`): the table it opens has no active
visit, the move it was granted is still an edge from the status the row has. It is inductive only
together with `VisitKeepsTable`: an open may trust that its table is vacant because no visit can
become active again, and a table may not become available behind a visit because the request
that asked has it locked. From it: `VisitsKeepTheirTables`, `ClosedVisitsStayClosed`, and
`RequestsAreAtomic`, the refinement: every commit is a step of `FloorRules`, everything else a
stutter.

**`TicketingProofs`**, from the assumptions of `Ticketing`. `TicketInv` says that what a
request has read under the order's lock stands until it commits (`Stands`) and that no two
requests hold one order or are about to insert one row (`Clash`). An item move promises no more
than that its item exists, which is exactly what `item_stale` shows. From it: `TicketsTyped`,
`TicketsFollowTheirLifecycles`, `BillsAreFinal`.

Its second half is about money. `PaymentsCovered` says that a payment on its way still fits its
order's balance: nobody else's payment of that order was inserted or revived, because the order
is locked (`OthersRecordNothing`), and its total did not shrink, because items never leave an
order (`TotalNeverShrinks`); the amount that was compared before rounding fits after it too
(`StoredFits`). The balance is a sum over items less a sum over payments, and that a sum grows
with its terms (`SumGrows`) or does not change with the rows it does not count (`SumOfEquals`) is
itself an induction over the size of a finite set. From `PaymentsCovered`:
`OnlyRevivalsOverpay`. `RowsAssumption`, that the rows are finitely many, is what makes a sum
mean anything, and true of any database.

**`VisitProofs`**. `PartsAreKept`: the composition implements both parts, so all of the above
holds of the whole; `BalancesAreKept` says so of the balances. Under `QuietClose`, `QuietInv` says that orders belong to visits and payments
to orders, that a close past its count still counts nothing, and that a visit somebody is ordering
or paying for is not closed. From it: `ClosesLeaveNoMoney` and `NothingComesAfterTheClose`.

**`ReservationProofs`**, from the three assumptions of `Reservations`: `ReservationsTyped` without
any discipline; and under `OneDeskAtATime`, `PromisesAreKept`, `TablesAreBookedOnce` and
`BookingsFollowTheirLifecycle`. The inductive invariant is `OrderlyInv`: types, what each desk has
read still holds (`PromisesStand`), the discipline, and no double booking. `PromisesStand` is
what makes it inductive: the conflict query of a booking must still be empty at its commit. A
concurrent move cannot fill it, because no edge leads from a status that frees the table back
to one that holds it (`HoldingIsNeverRegained`); a concurrent booking is of another table.

**`SeedingProofs`**. First the catalog by itself: `CatalogInvariant`, `StockIsAudited`. Ids are
drawn before the commit, so an id alone says nothing of the order of commits; but the SKU is
locked from before the id is drawn, so a correction in flight has a later id than every committed
row *of its SKU*. Here a seed is any step that adds and changes nothing (`Seeded`).

Then the seeds. `SeedingInv` has two phases. Until one seed has committed (`FirstSeed`), there are
no rows, the restaurant can ask for nothing, and what the one seed in flight has inserted is
exactly what the plan says of the lines before its step (`Made`). From the first commit on
(`LaterSeeds`), every natural key has a row, so that no seed inserts anything, and the keys only
the seed makes (`OnceKeys`) have one; every other single key has one, too, until the first
request. The advisory lock keeps it to one seed at a time (`OneSeed`); a seed that dies leaves
nothing. The first phase needs facts of the plan itself: its natural keys all differ
(`KeysDiffer`), and every status it walks a row to is along the spine of the lifecycle, so that
the walk never trips (`PlanIsLegal`). From it: `SeedsAreIdempotent`,
`SeedLeavesAConsistentService`, `SeedingAgainChangesNothing`, `SeedFailsForARepeatedKey`; and
`SeedingImplementsCatalog`, that the real seed is such a step as the catalog allows, which
carries the audit of the stock over to it (`StockIsAuditedAmongSeeds`).

**`ReadCacheProofs`**, for any views of the code, workers, tasks and mutations:
`EveryStaleCopyHasACause`. `CacheInv` adds to the claim the types, what each request in flight is
about (`TasksHaveSubjects`), and that a request which still has rows from before a commit is
excused, since its late fill will leave a stale copy. `HandlerCommit` is the heart of it: each view
a mutation makes stale is one its handler will delete in this process, or excused by the handler's
list, by another process's copy, or by a Redis this process cannot reach.

**`RateLimiterProofs`**, from `RateAssumption` and `NoBucketAssumption`: `LimiterImplementsRules`,
a refinement under the mapping of a bucket whose window is over to no window: late resets and
evictions are then invisible. And the account behind it, `LimiterInv`: of the requests admitted
within the last window's length, the newest are those the open bucket counts, the first of them
as old as the bucket, and before them are fewer than `Limit`. Fewer, not as many: the
first request of an earlier window opened it, and is out of sight by the time the next one opens.
From it: `NeverTwiceTheLimit` and `NobodyIsTurnedAwayEarly`. What a tick forgets is a filter over a
sequence, a recursive function, about which `StillRecentFacts` is an induction.

**`AssistantProofs`**, for any actors, permissions, sessions, requests and doors.

- `ConversationInvariant`: a session changes hands only after a clear, which empties it and marks
  the turns still on their way; checkpoints and fallback entries are kept in the order of the
  turns, because one thread's turns are numbered as they are recorded (`TurnsInOrder`).
- `HistoriesAreInOrder`: the two loops of `get_conversation_history` are inductions over the
  lists they go through (`CheckpointsListed`, `FallbackListed`). Both compare
  with the entry listed last alone, which is enough because the checkpoints of one turn are next
  to each other; a cut to the newest keeps the order. Both inductions also carry that every
  entry with an answer stays `Listed`: it, or one with its question, and after it only what comes
  later (`StaysListed`). The cut leaves it there, or leaves only what comes after it
  (`LatestInOrder`).
- `TurnsStayWithTheirOwners`.
- `AssistantKeepsTheLimiter`: the composition implements `LimiterSpec`, hence
  `TheDoorsAreLimited` and `TheDoorsKeepTheRules`.
- `NobodyIsToldMore`: the boundary leaves only what is readable, except the visit itself, which
  it does not look at and for which the route has asked for `session.read`.

**Induction.** The induction theorems of the library take a predicate as a parameter, which the
provers here cannot instantiate. `InductionOverASet` and `CountingUp` state induction over the
natural numbers for a *set* instead, from the least element of what is not in it
(`WFMin`). With them what the recursive functions of the model compute is proved for inputs of any
length.

**Model-checked only.**

- Liveness (`ARequestEnds`, `StalenessPasses`): out of the prover's reach, as is `ENABLED`, on which
  fairness rests.
- The instances of `Assistant` have the permissions of two real roles; the theorem is about any.
- The six violations of section 6: a counterexample is a behaviour, and TLC shows one.

## 8. Not modelled

- *Tokens*: signatures, expiry and local tokens are stateless checks; a refusal is not a step.
  Whether a reader may see payments is a free choice in `ReadCache`.
- *Audit rows other than those of stock corrections*: written in the transaction of their
  operation and never read to decide anything. The row the assistant posts after a turn may be
  lost; its failure is swallowed, and nothing reads it.
- *Prompt, model, parsing of its answers, event stream, OpenAI format*: no state; the answer is
  an arbitrary value.
- *Dashboard, organisation chart, listings*: read-only.
- *Web console, command-line tools, configuration*: stateless wiring or development helpers.
- *Migration*: run by hand once; the index it creates is part of `Floor`.
- *Contents of views, menus, names, party sizes, branches*: no property tells them apart; a
  request that fails such a check is not a step. Everything happens in one branch.

## 9. Plan

Done, in this order: lifecycles; the floor, its abstract specification and first theorems;
tickets; their composition; reservations; the read cache; conversations; the limiter with its
rules; the doors of the assistant; catalog and seed; then the proofs of section 7, which now state
every safety property the runs check.

What could follow:

1. `Visit` with two visits, and what remains true of it without the discipline: which bills of
   closed visits can grow, and by whom.
2. An abstract specification of a visit's bill that `Ticketing` implements, with revival as an
   action of its own, so that `OnlyRevivalOverpays` becomes a consequence of a refinement.
3. `ReadCache` with an abstract specification in which a view is current or excused.
