------------------------------ MODULE Catalog -------------------------------
(**************************************************************************)
(* The stock and the menu of a branch (app/api/catalog.py) and the audit   *)
(* trail their changes leave (app/core/audit.py).  A quantity is counted   *)
(* in tenths of the smallest one the database keeps; it is rounded when it *)
(* is stored, but not in the trail.  A stock correction locks its row,     *)
(* writes the audit row, which draws the next id, and commits.             *)
(**************************************************************************)
EXTENDS Integers, Sequences

CONSTANTS
  Skus,        \* stock-keeping units
  Dishes,      \* names of menu items
  Clerks,      \* requests that may be in flight at the same time
  Amounts,     \* quantities a request may ask for
  Unset,       \* no row, no SKU, no amount
  MaxEntries   \* bound: audit ids ever drawn

ASSUME CatalogAssumption ==
  /\ Amounts \subseteq Nat
  /\ Unset \notin Nat \cup Skus
  /\ MaxEntries \in Nat

VARIABLES
  onHand,  \* inventory_skus: the stored quantity of each SKU
  menu,    \* menu_items: the recipes of the items of each name, oldest first
  trail,   \* audit_logs: the committed rows inventory.adjusted
  nextId,  \* the next id of audit_logs
  clerk    \* the correction each request is making

catalogVars == <<onHand, menu, trail, nextId, clerk>>

Entry == [id: Nat, sku: Skus, amount: Nat]

NoWork == [at |-> "idle", sku |-> Unset, amount |-> 0, id |-> 0]

Work == [at: {"adjusting", "written"}, sku: Skus, amount: Nat, id: Nat] \cup {NoWork}

CatalogInit ==
  /\ onHand = [k \in Skus |-> Unset]
  /\ menu = [d \in Dishes |-> <<>>]
  /\ trail = {}
  /\ nextId = 1
  /\ clerk = [c \in Clerks |-> NoWork]

-----------------------------------------------------------------------------
(* A NUMERIC(12, 3) column: to the nearest, halves up.                     *)
Stored(amount) == (amount + 5) \div 10

(* Mutant: the SKU is read without a lock. *)
NeverLocked(k) == TRUE

(* The row lock of a SKU.                                                  *)
SkuFree(k) == \A c \in Clerks : clerk[c].sku # k

(* adjust_inventory: lock the SKU, ...                                     *)
AdjustBegin(c, k, amount) ==
  /\ clerk[c] = NoWork
  /\ onHand[k] # Unset
  /\ SkuFree(k)
  /\ clerk' = [clerk EXCEPT ![c] = [at |-> "adjusting", sku |-> k, amount |-> amount, id |-> 0]]
  /\ UNCHANGED <<onHand, menu, trail, nextId>>

(* ... write the audit row with the quantity as it was asked for, ...      *)
AdjustRecord(c) ==
  /\ clerk[c].at = "adjusting"
  /\ nextId <= MaxEntries
  /\ clerk' = [clerk EXCEPT ![c] =
       [at |-> "written", sku |-> clerk[c].sku, amount |-> clerk[c].amount, id |-> nextId]]
  /\ nextId' = nextId + 1
  /\ UNCHANGED <<onHand, menu, trail>>

(* ... and store the quantity and commit both.                             *)
AdjustCommit(c) ==
  /\ clerk[c].at = "written"
  /\ onHand' = [onHand EXCEPT ![clerk[c].sku] = Stored(clerk[c].amount)]
  /\ trail' = trail \cup {[id |-> clerk[c].id, sku |-> clerk[c].sku, amount |-> clerk[c].amount]}
  /\ clerk' = [clerk EXCEPT ![c] = NoWork]
  /\ UNCHANGED <<menu, nextId>>

(* Mutant: the audit row is committed by itself. *)
AuditedAnyway(c) ==
  /\ clerk[c] # NoWork
  /\ trail' = IF clerk[c].at = "written"
             THEN trail \cup {[id |-> clerk[c].id, sku |-> clerk[c].sku, amount |-> clerk[c].amount]}
             ELSE trail
  /\ clerk' = [clerk EXCEPT ![c] = NoWork]
  /\ UNCHANGED <<onHand, menu, nextId>>

(* The request fails half way: rolled back, but the id stays drawn.        *)
AdjustAbort(c) ==
  /\ clerk[c] # NoWork
  /\ clerk' = [clerk EXCEPT ![c] = NoWork]
  /\ UNCHANGED <<onHand, menu, trail, nextId>>

(* create_menu_item: every SKU of the recipe exists and is named once; the *)
(* database refuses a line whose quantity it would store as nothing.       *)
(* Nothing asks whether the name is taken.  The audit row draws an id.     *)
CreateMenuItem(d, recipe, amount) ==
  /\ nextId <= MaxEntries
  /\ \A k \in recipe : onHand[k] # Unset /\ Stored(amount) > 0
  /\ menu' = [menu EXCEPT ![d] = Append(@, recipe)]
  /\ nextId' = nextId + 1
  /\ UNCHANGED <<onHand, trail, clerk>>

(* What the seed of the demo data may do to the catalog: SKUs and dishes   *)
(* appear, none that is there is changed, and audit ids are drawn.         *)
Seeded ==
  /\ onHand' \in [Skus -> Nat \cup {Unset}]
  /\ \A k \in Skus : onHand[k] # Unset => onHand'[k] = onHand[k]
  /\ menu' \in [Dishes -> Seq(SUBSET Skus)]
  /\ \A d \in Dishes : menu[d] # <<>> => menu'[d] = menu[d]
  /\ nextId' \in Nat /\ nextId' >= nextId
  /\ UNCHANGED <<trail, clerk>>

Requests ==
  \/ \E c \in Clerks :
       \/ \E k \in Skus, amount \in Amounts : AdjustBegin(c, k, amount)
       \/ AdjustRecord(c)
       \/ AdjustCommit(c)
       \/ AdjustAbort(c)
  \/ \E d \in Dishes, recipe \in SUBSET Skus, amount \in Amounts : CreateMenuItem(d, recipe, amount)

CatalogNext == Requests \/ Seeded

(* The catalog by itself, among any seeds.                                 *)
CatalogSpec == CatalogInit /\ [][CatalogNext]_catalogVars

-----------------------------------------------------------------------------
CatalogTypeOK ==
  /\ onHand \in [Skus -> Nat \cup {Unset}]
  /\ menu \in [Dishes -> Seq(SUBSET Skus)]
  /\ trail \subseteq Entry
  /\ nextId \in Nat \ {0}
  /\ clerk \in [Clerks -> Work]

Latest(k) == {e \in trail : e.sku = k /\ \A f \in trail : f.sku = k => f.id <= e.id}

(* The stock of a SKU is what its latest row of the audit trail says, put  *)
(* to the precision of the database: whoever corrects a stock at the same  *)
(* time, the corrections take effect in the order of the trail.            *)
StockMatchesTrail == \A k \in Skus : \A e \in Latest(k) : onHand[k] = Stored(e.amount)

(* No two rows of the trail have one id, and a correction in flight will   *)
(* come after every row of its SKU.                                        *)
CatalogInv ==
  /\ CatalogTypeOK
  /\ StockMatchesTrail
  /\ \A e \in trail : e.id < nextId /\ onHand[e.sku] # Unset
  /\ \A e, f \in trail : e.id = f.id => e = f
  /\ \A c \in Clerks : clerk[c].at # "idle" => onHand[clerk[c].sku] # Unset
  /\ \A c \in Clerks : clerk[c].at = "written" =>
       /\ clerk[c].id < nextId
       /\ \A e \in trail : e.id # clerk[c].id
       /\ \A e \in trail : e.sku = clerk[c].sku => e.id < clerk[c].id
  /\ \A c, d \in Clerks : clerk[c].at # "idle" /\ clerk[c].sku = clerk[d].sku => c = d
  /\ \A c, d \in Clerks :
       clerk[c].at = "written" /\ clerk[d].at = "written" /\ clerk[c].id = clerk[d].id => c = d
=============================================================================
