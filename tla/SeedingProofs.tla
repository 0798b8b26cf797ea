--------------------------- MODULE SeedingProofs ----------------------------
(**************************************************************************)
(* The catalog by itself, then the seeds.                                  *)
(*                                                                         *)
(* CatalogInv is inductive: a correction holds the lock of its SKU from    *)
(* before it draws its id until the row with that id is in the trail, so   *)
(* of the corrections of one SKU the later id is the later commit.         *)
(*                                                                         *)
(* SeedingInv is inductive: the first seed to commit finds nothing and     *)
(* makes every line of the plan, every later one finds every line made.    *)
(**************************************************************************)
EXTENDS Seeding, SequenceTheorems, FiniteSetTheorems, TLAPS

USE CatalogAssumption DEF CatalogAssumption

(* Rounding a quantity gives a quantity.                                   *)
LEMMA StoredNat == \A n \in Nat : Stored(n) \in Nat
  BY DEF Stored

(* What CatalogInv says of the committed rows and of those in the making.  *)
LEMMA CatalogStarts == CatalogInit => CatalogInv
  <1> SUFFICES ASSUME CatalogInit PROVE CatalogInv
    OBVIOUS
  <1>1. CatalogTypeOK
    BY DEF CatalogInit, CatalogTypeOK, Work, NoWork, Entry
  <1>2. StockMatchesTrail
    BY DEF CatalogInit, StockMatchesTrail, Latest
  <1> QED
    BY <1>1, <1>2 DEF CatalogInit, CatalogInv, NoWork

(* A correction locks its SKU: nobody else has it in hand.                 *)
LEMMA BeginKeeps ==
  ASSUME CatalogInv, NEW c \in Clerks, NEW k \in Skus, NEW amount \in Amounts, AdjustBegin(c, k, amount)
  PROVE  CatalogInv'
  <1> DEFINE job == [at |-> "adjusting", sku |-> k, amount |-> amount, id |-> 0]
  <1>1. /\ clerk' = [clerk EXCEPT ![c] = job]
        /\ UNCHANGED <<onHand, menu, trail, nextId>>
        /\ SkuFree(k) /\ onHand[k] # Unset
    BY DEF AdjustBegin
  <1>2. CatalogTypeOK
    BY DEF CatalogInv
  <1>3. job \in Work
    BY DEF Work
  <1>4. CatalogTypeOK'
    BY <1>1, <1>2, <1>3 DEF CatalogTypeOK
  <1>5. \A d \in Clerks : clerk'[d] = IF d = c THEN job ELSE clerk[d]
    BY <1>1, <1>2 DEF CatalogTypeOK
  <1>6. StockMatchesTrail'
    BY <1>1 DEF CatalogInv, StockMatchesTrail, Latest
  <1>7. \A d \in Clerks : clerk[d].sku # k
    BY <1>1 DEF SkuFree
  <1> HIDE DEF job
  <1>8. job.at = "adjusting" /\ job.sku = k
    BY DEF job
  <1> QED
    BY <1>1, <1>4, <1>5, <1>6, <1>7, <1>8 DEF CatalogInv

(* The id drawn is beyond every id that is in the trail or in hand.        *)
LEMMA RecordKeeps ==
  ASSUME CatalogInv, NEW c \in Clerks, AdjustRecord(c)
  PROVE  CatalogInv'
  <1> DEFINE job == [at |-> "written", sku |-> clerk[c].sku, amount |-> clerk[c].amount, id |-> nextId]
  <1>1. /\ clerk' = [clerk EXCEPT ![c] = job]
        /\ nextId' = nextId + 1
        /\ UNCHANGED <<onHand, menu, trail>>
        /\ clerk[c].at = "adjusting"
    BY DEF AdjustRecord
  <1>2. CatalogTypeOK
    BY DEF CatalogInv
  <1>3. clerk[c] \in Work /\ nextId \in Nat
    BY <1>2 DEF CatalogTypeOK
  <1>4. clerk[c] \in [at: {"adjusting", "written"}, sku: Skus, amount: Nat, id: Nat]
    BY <1>1, <1>3 DEF Work, NoWork
  <1>5. job \in Work /\ job.at = "written" /\ job.sku = clerk[c].sku /\ job.id = nextId
    BY <1>3, <1>4 DEF Work
  <1> HIDE DEF job
  <1>6. CatalogTypeOK'
    BY <1>1, <1>2, <1>5 DEF CatalogTypeOK
  <1>7. \A d \in Clerks : clerk'[d] = IF d = c THEN job ELSE clerk[d]
    BY <1>1, <1>2 DEF CatalogTypeOK
  <1>8. StockMatchesTrail'
    BY <1>1 DEF CatalogInv, StockMatchesTrail, Latest
  <1>9. \A e \in trail : e.id \in Nat /\ e.sku \in Skus
    BY <1>2 DEF CatalogTypeOK, Entry
  <1>10. \A d \in Clerks : clerk[d].id \in Nat
    BY <1>2 DEF CatalogTypeOK, Work, NoWork
  <1>11. \A e \in trail : e.id < nextId' /\ onHand'[e.sku] # Unset
    BY <1>1, <1>3, <1>9 DEF CatalogInv
  <1>12. \A d \in Clerks : clerk'[d].at = "written" =>
           /\ clerk'[d].id < nextId'
           /\ \A e \in trail : e.id # clerk'[d].id
           /\ \A e \in trail : e.sku = clerk'[d].sku => e.id < clerk'[d].id
    BY <1>1, <1>3, <1>5, <1>7, <1>9, <1>10 DEF CatalogInv
  <1>13. \A d, f \in Clerks : clerk'[d].at # "idle" /\ clerk'[d].sku = clerk'[f].sku => d = f
    BY <1>1, <1>5, <1>7 DEF CatalogInv
  <1>14. \A d, f \in Clerks :
           clerk'[d].at = "written" /\ clerk'[f].at = "written" /\ clerk'[d].id = clerk'[f].id => d = f
    BY <1>3, <1>5, <1>7, <1>10 DEF CatalogInv
  <1>15. \A d \in Clerks : clerk'[d].at # "idle" => onHand'[clerk'[d].sku] # Unset
    BY <1>1, <1>5, <1>7 DEF CatalogInv
  <1> QED
    BY <1>1, <1>6, <1>8, <1>11, <1>12, <1>13, <1>14, <1>15 DEF CatalogInv

(* The row that is committed is the latest of its SKU, and the stock is    *)
(* what it says.                                                           *)
LEMMA CommitKeeps ==
  ASSUME CatalogInv, NEW c \in Clerks, AdjustCommit(c)
  PROVE  CatalogInv'
  <1> DEFINE k == clerk[c].sku
             new == [id |-> clerk[c].id, sku |-> clerk[c].sku, amount |-> clerk[c].amount]
  <1>1. /\ clerk' = [clerk EXCEPT ![c] = NoWork]
        /\ trail' = trail \cup {new}
        /\ onHand' = [onHand EXCEPT ![k] = Stored(clerk[c].amount)]
        /\ UNCHANGED <<menu, nextId>>
        /\ clerk[c].at = "written"
    BY DEF AdjustCommit
  <1>2. CatalogTypeOK
    BY DEF CatalogInv
  <1>3. k \in Skus /\ clerk[c].amount \in Nat /\ clerk[c].id \in Nat /\ new \in Entry
    BY <1>1, <1>2 DEF CatalogTypeOK, Work, NoWork, Entry
  <1>4. Stored(clerk[c].amount) \in Nat /\ Stored(clerk[c].amount) # Unset
    BY <1>3, StoredNat
  <1>5. new.id = clerk[c].id /\ new.sku = k /\ new.amount = clerk[c].amount
    OBVIOUS
  <1> HIDE DEF new, k
  <1>6. NoWork \in Work /\ NoWork.at = "idle" /\ NoWork.sku = Unset
    BY DEF Work, NoWork
  <1>7. CatalogTypeOK'
    BY <1>1, <1>2, <1>3, <1>4, <1>6 DEF CatalogTypeOK
  <1>8. \A d \in Clerks : clerk'[d] = IF d = c THEN NoWork ELSE clerk[d]
    BY <1>1, <1>2 DEF CatalogTypeOK
  <1>9. \A s \in Skus : onHand'[s] = IF s = k THEN Stored(clerk[c].amount) ELSE onHand[s]
    BY <1>1, <1>2, <1>3 DEF CatalogTypeOK
  <1>10. \A e \in trail : e.id \in Nat /\ e.sku \in Skus
    BY <1>2 DEF CatalogTypeOK, Entry
  <1>11. \A e \in trail : e.sku = k => e.id < new.id
    BY <1>1, <1>5 DEF CatalogInv, k
  <1>12. ASSUME NEW s \in Skus, NEW e \in Latest(s)'
         PROVE  onHand'[s] = Stored(e.amount)
    <2>1. e \in trail' /\ e.sku = s /\ \A f \in trail' : f.sku = s => f.id <= e.id
      BY DEF Latest
    <2>2. CASE s = k
      <3>1. new.id <= e.id
        BY <2>1, <2>2, <1>1, <1>5
      <3>2. e = new
        BY <2>1, <2>2, <3>1, <1>1, <1>3, <1>5, <1>10, <1>11
      <3> QED
        BY <3>2, <2>2, <1>5, <1>9
    <2>3. CASE s # k
      <3>1. e \in Latest(s)
        BY <2>1, <2>3, <1>1, <1>5 DEF Latest
      <3> QED
        BY <3>1, <2>3, <1>9 DEF CatalogInv, StockMatchesTrail
    <2> QED
      BY <2>2, <2>3
  <1>13. StockMatchesTrail'
    BY <1>12 DEF StockMatchesTrail
  <1>14. \A e \in trail' : e.id < nextId' /\ onHand'[e.sku] # Unset
    BY <1>1, <1>3, <1>4, <1>5, <1>9, <1>10 DEF CatalogInv
  <1>15. \A e, f \in trail' : e.id = f.id => e = f
    BY <1>1, <1>5 DEF CatalogInv
  <1>16. \A d \in Clerks : clerk'[d].at # "idle" => onHand'[clerk'[d].sku] # Unset
    <2> SUFFICES ASSUME NEW d \in Clerks, clerk'[d].at # "idle" PROVE onHand'[clerk'[d].sku] # Unset
      OBVIOUS
    <2>1. d # c /\ clerk'[d] = clerk[d]
      BY <1>6, <1>8
    <2>2. clerk[d].sku \in Skus
      BY <2>1, <1>2 DEF CatalogTypeOK, Work, NoWork
    <2> QED
      BY <2>1, <2>2, <1>4, <1>9 DEF CatalogInv
  <1>17. \A d \in Clerks : clerk'[d].at = "written" =>
           /\ clerk'[d].id < nextId'
           /\ \A e \in trail' : e.id # clerk'[d].id
           /\ \A e \in trail' : e.sku = clerk'[d].sku => e.id < clerk'[d].id
    <2> SUFFICES ASSUME NEW d \in Clerks, clerk'[d].at = "written"
                 PROVE  /\ clerk'[d].id < nextId'
                        /\ \A e \in trail' : e.id # clerk'[d].id
                        /\ \A e \in trail' : e.sku = clerk'[d].sku => e.id < clerk'[d].id
      OBVIOUS
    <2>1. d # c /\ clerk'[d] = clerk[d]
      BY <1>6, <1>8
    <2>2. new.id # clerk[d].id /\ new.sku # clerk[d].sku
      BY <2>1, <1>1, <1>5 DEF CatalogInv, k
    <2> QED
      BY <2>1, <2>2, <1>1 DEF CatalogInv
  <1>18. \A d, f \in Clerks : clerk'[d].at # "idle" /\ clerk'[d].sku = clerk'[f].sku => d = f
    <2> SUFFICES ASSUME NEW d \in Clerks, NEW f \in Clerks,
                        clerk'[d].at # "idle", clerk'[d].sku = clerk'[f].sku
                 PROVE  d = f
      OBVIOUS
    <2>1. d # c /\ clerk'[d] = clerk[d] /\ clerk[d].sku \in Skus
      BY <1>2, <1>6, <1>8 DEF CatalogTypeOK, Work, NoWork
    <2>2. f # c
      BY <2>1, <1>6, <1>8
    <2> QED
      BY <2>1, <2>2, <1>8 DEF CatalogInv
  <1>19. \A d, f \in Clerks :
           clerk'[d].at = "written" /\ clerk'[f].at = "written" /\ clerk'[d].id = clerk'[f].id => d = f
    BY <1>6, <1>8 DEF CatalogInv
  <1> QED
    BY <1>7, <1>13, <1>14, <1>15, <1>16, <1>17, <1>18, <1>19 DEF CatalogInv

(* A request that fails takes nothing with it.                             *)
LEMMA AbortKeeps ==
  ASSUME CatalogInv, NEW c \in Clerks, AdjustAbort(c)
  PROVE  CatalogInv'
  <1>1. clerk' = [clerk EXCEPT ![c] = NoWork] /\ UNCHANGED <<onHand, menu, trail, nextId>>
    BY DEF AdjustAbort
  <1>2. CatalogTypeOK
    BY DEF CatalogInv
  <1>3. NoWork \in Work /\ NoWork.at = "idle" /\ NoWork.sku = Unset
    BY DEF Work, NoWork
  <1>4. CatalogTypeOK'
    BY <1>1, <1>2, <1>3 DEF CatalogTypeOK
  <1>5. \A d \in Clerks : clerk'[d] = IF d = c THEN NoWork ELSE clerk[d]
    BY <1>1, <1>2 DEF CatalogTypeOK
  <1>6. StockMatchesTrail'
    BY <1>1 DEF CatalogInv, StockMatchesTrail, Latest
  <1>7. \A d \in Clerks : clerk[d].at # "idle" => clerk[d].sku \in Skus
    BY <1>2 DEF CatalogTypeOK, Work, NoWork
  <1>8. \A d, f \in Clerks : clerk'[d].at # "idle" /\ clerk'[d].sku = clerk'[f].sku => d = f
    BY <1>3, <1>5, <1>7 DEF CatalogInv
  <1> QED
    BY <1>1, <1>3, <1>4, <1>5, <1>6, <1>8 DEF CatalogInv

(* Dishes do not touch the stock, and seeds only add.                      *)
LEMMA CreateKeeps ==
  ASSUME CatalogInv, NEW d \in Dishes, NEW recipe \in SUBSET Skus, NEW amount \in Amounts,
         CreateMenuItem(d, recipe, amount)
  PROVE  CatalogInv'
  <1>1. /\ menu' = [menu EXCEPT ![d] = Append(@, recipe)]
        /\ nextId' = nextId + 1
        /\ UNCHANGED <<onHand, trail, clerk>>
    BY DEF CreateMenuItem
  <1>2. CatalogTypeOK
    BY DEF CatalogInv
  <1>3. CatalogTypeOK'
    BY <1>1, <1>2 DEF CatalogTypeOK
  <1>4. StockMatchesTrail'
    BY <1>1 DEF CatalogInv, StockMatchesTrail, Latest
  <1>5. nextId \in Nat /\ (\A e \in trail : e.id \in Nat) /\ (\A c \in Clerks : clerk[c].id \in Nat)
    BY <1>2 DEF CatalogTypeOK, Entry, Work, NoWork
  <1> QED
    BY <1>1, <1>3, <1>4, <1>5 DEF CatalogInv

(* A seed adds SKUs and draws ids; it corrects nothing and audits nothing. *)
LEMMA SeedKeeps ==
  ASSUME CatalogInv, Seeded
  PROVE  CatalogInv'
  <1>1. /\ onHand' \in [Skus -> Nat \cup {Unset}]
        /\ \A k \in Skus : onHand[k] # Unset => onHand'[k] = onHand[k]
        /\ menu' \in [Dishes -> Seq(SUBSET Skus)]
        /\ nextId' \in Nat /\ nextId' >= nextId
        /\ UNCHANGED <<trail, clerk>>
    BY DEF Seeded
  <1>2. CatalogTypeOK
    BY DEF CatalogInv
  <1>3. CatalogTypeOK'
    BY <1>1, <1>2 DEF CatalogTypeOK
  <1>4. \A e \in trail : e.id \in Nat /\ e.sku \in Skus
    BY <1>2 DEF CatalogTypeOK, Entry
  <1>5. \A c \in Clerks : clerk[c].at # "idle" => clerk[c].sku \in Skus
    BY <1>2 DEF CatalogTypeOK, Work, NoWork
  <1>6. \A c \in Clerks : clerk[c].id \in Nat
    BY <1>2 DEF CatalogTypeOK, Work, NoWork
  <1>7. StockMatchesTrail'
    BY <1>1, <1>4 DEF CatalogInv, StockMatchesTrail, Latest
  <1>8. nextId \in Nat
    BY <1>2 DEF CatalogTypeOK
  <1>9. \A e \in trail : e.id < nextId' /\ onHand'[e.sku] # Unset
    BY <1>1, <1>4, <1>8 DEF CatalogInv
  <1>10. \A c \in Clerks : clerk[c].at # "idle" => onHand'[clerk[c].sku] # Unset
    BY <1>1, <1>5 DEF CatalogInv
  <1>11. \A c \in Clerks : clerk[c].at = "written" => clerk[c].id < nextId'
    BY <1>1, <1>6, <1>8 DEF CatalogInv
  <1> QED
    BY <1>1, <1>3, <1>7, <1>9, <1>10, <1>11 DEF CatalogInv

-----------------------------------------------------------------------------
(* The catalog's invariant holds for any number of SKUs, clerks, quantities *)
(* and seeds: adjust_inventory locks before it writes.                      *)
THEOREM CatalogInvariant == CatalogSpec => []CatalogInv
  <1>1. CatalogInit => CatalogInv
    BY CatalogStarts
  <1>2. CatalogInv /\ [CatalogNext]_catalogVars => CatalogInv'
    <2> SUFFICES ASSUME CatalogInv, [CatalogNext]_catalogVars PROVE CatalogInv'
      OBVIOUS
    <2>1. ASSUME NEW c \in Clerks, NEW k \in Skus, NEW amount \in Amounts, AdjustBegin(c, k, amount)
          PROVE  CatalogInv'
      BY <2>1, BeginKeeps
    <2>2. ASSUME NEW c \in Clerks, AdjustRecord(c) PROVE CatalogInv'
      BY <2>2, RecordKeeps
    <2>3. ASSUME NEW c \in Clerks, AdjustCommit(c) PROVE CatalogInv'
      BY <2>3, CommitKeeps
    <2>4. ASSUME NEW c \in Clerks, AdjustAbort(c) PROVE CatalogInv'
      BY <2>4, AbortKeeps
    <2>5. ASSUME NEW d \in Dishes, NEW recipe \in SUBSET Skus, NEW amount \in Amounts,
                 CreateMenuItem(d, recipe, amount)
          PROVE  CatalogInv'
      BY <2>5, CreateKeeps
    <2>6. CASE Seeded
      BY <2>6, SeedKeeps
    <2>7. CASE UNCHANGED catalogVars
      BY <2>7 DEF catalogVars, CatalogInv, CatalogTypeOK, StockMatchesTrail, Latest
    <2> QED
      BY <2>1, <2>2, <2>3, <2>4, <2>5, <2>6, <2>7 DEF CatalogNext, Requests
  <1> QED
    BY <1>1, <1>2, PTL DEF CatalogSpec

(* The stock of a SKU is always what the latest row of the audit trail     *)
(* says, whoever corrects it at the same time.                             *)
THEOREM StockIsAudited == CatalogSpec => []StockMatchesTrail
  <1>1. CatalogInv => StockMatchesTrail
    BY DEF CatalogInv
  <1> QED
    BY <1>1, CatalogInvariant, PTL

-----------------------------------------------------------------------------
USE SeedingAssumption DEF SeedingAssumption

(* The shape of a line.                                                    *)
KeyNames ==
  {"tenant", "T1", "T2", "staff", "sku", "dish", "bookings", "visit_T1", "Nadia", "Karim",
   "order_T1", "burger", "salad", "payment_T1", "visit_T2", "Olivia", "order_T2", "salmon",
   "payment_T2", "audit"}

PlanLine ==
  [key: KeyNames, edges: SUBSET (RowStatus \X RowStatus), path: Seq(RowStatus),
   goals: Seq(RowStatus), many: BOOLEAN, next: Nat]

(* The statuses of all lifecycles.                                         *)
LEMMA StatusNames ==
  {"there", "available", "reserved", "seated", "dirty", "blocked", "open", "ordering", "dining",
   "settling", "closed", "authenticating", "joined", "left", "draft", "submitted", "in_kitchen",
   "ready", "served", "cancelled", "queued", "prepping", "fired", "picked_up", "voided", "unpaid",
   "partial", "authorized", "settled", "failed", "refunded", "requested", "confirmed", "no_show",
   "completed"} \subseteq RowStatus
  BY DEF RowStatus, TableStatus, TableSessionStatus, GuestSessionStatus, OrderStatus,
         OrderItemStatus, PaymentStatus, ReservationStatus

(* A lifecycle is made of edges between statuses.                          *)
LEMMA EdgesTyped ==
  /\ TableEdges \subseteq RowStatus \X RowStatus
  /\ TableSessionEdges \subseteq RowStatus \X RowStatus
  /\ GuestSessionEdges \subseteq RowStatus \X RowStatus
  /\ OrderEdges \subseteq RowStatus \X RowStatus
  /\ OrderItemEdges \subseteq RowStatus \X RowStatus
  /\ PaymentEdges \subseteq RowStatus \X RowStatus
  /\ ReservationEdges \subseteq RowStatus \X RowStatus
<1>1. TableEdges \subseteq RowStatus \X RowStatus
  BY StatusNames DEF TableEdges
<1>2. TableSessionEdges \subseteq RowStatus \X RowStatus
  BY StatusNames DEF TableSessionEdges
<1>3. GuestSessionEdges \subseteq RowStatus \X RowStatus
  BY StatusNames DEF GuestSessionEdges
<1>4. OrderEdges \subseteq RowStatus \X RowStatus
  BY StatusNames DEF OrderEdges
<1>5. OrderItemEdges \subseteq RowStatus \X RowStatus
  BY StatusNames DEF OrderItemEdges
<1>6. PaymentEdges \subseteq RowStatus \X RowStatus
  BY StatusNames DEF PaymentEdges
<1>7. ReservationEdges \subseteq RowStatus \X RowStatus
  BY StatusNames DEF ReservationEdges
<1> QED
  BY <1>1, <1>2, <1>3, <1>4, <1>5, <1>6, <1>7

(* Line and Plain make lines.                                              *)
LEMMA LineTyped ==
  \A edges, path, goals : \A key \in KeyNames :
    edges \subseteq RowStatus \X RowStatus /\ path \in Seq(RowStatus) /\ goals \in Seq(RowStatus) =>
      Line(key, edges, path, goals) \in PlanLine
  BY DEF Line, PlanLine

LEMMA PlainTyped == \A key \in KeyNames : Plain(key) \in PlanLine
<1>1. <<"there">> \in Seq(RowStatus) /\ {} \subseteq RowStatus \X RowStatus
  BY StatusNames
<1> QED
  BY <1>1, LineTyped DEF Plain

(* Tuples as sequences.                                                    *)
LEMMA Tuple1 ==
  ASSUME NEW S, NEW a \in S PROVE <<a>> \in Seq(S) /\ Len(<<a>>) = 1 /\ <<a>>[1] = a
  OBVIOUS

LEMMA Tuple2 ==
  ASSUME NEW S, NEW a \in S, NEW b \in S
  PROVE  <<a, b>> \in Seq(S) /\ Len(<<a, b>>) = 2 /\ <<a, b>>[1] = a /\ <<a, b>>[2] = b
  OBVIOUS

LEMMA Tuple3 ==
  ASSUME NEW S, NEW a \in S, NEW b \in S, NEW c \in S
  PROVE  /\ <<a, b, c>> \in Seq(S) /\ Len(<<a, b, c>>) = 3
         /\ <<a, b, c>>[1] = a /\ <<a, b, c>>[2] = b /\ <<a, b, c>>[3] = c
  OBVIOUS

LEMMA Tuple5 ==
  ASSUME NEW S, NEW a \in S, NEW b \in S, NEW c \in S, NEW d \in S, NEW e \in S
  PROVE  /\ <<a, b, c, d, e>> \in Seq(S) /\ Len(<<a, b, c, d, e>>) = 5
         /\ <<a, b, c, d, e>>[1] = a /\ <<a, b, c, d, e>>[2] = b /\ <<a, b, c, d, e>>[3] = c
         /\ <<a, b, c, d, e>>[4] = d /\ <<a, b, c, d, e>>[5] = e
  OBVIOUS

LEMMA Tuple7 ==
  ASSUME NEW S, NEW a \in S, NEW b \in S, NEW c \in S, NEW d \in S, NEW e \in S,
         NEW f \in S, NEW g \in S
  PROVE  /\ <<a, b, c, d, e, f, g>> \in Seq(S) /\ Len(<<a, b, c, d, e, f, g>>) = 7
         /\ <<a, b, c, d, e, f, g>>[1] = a /\ <<a, b, c, d, e, f, g>>[2] = b
         /\ <<a, b, c, d, e, f, g>>[3] = c /\ <<a, b, c, d, e, f, g>>[4] = d
         /\ <<a, b, c, d, e, f, g>>[5] = e /\ <<a, b, c, d, e, f, g>>[6] = f
         /\ <<a, b, c, d, e, f, g>>[7] = g
  OBVIOUS

(* The parts of the plan, line by line.                                    *)
LEMMA PartsTyped ==
  /\ Tenant \in Seq(PlanLine) /\ Len(Tenant) = 3
  /\ OrgChart \in Seq(PlanLine) /\ Len(OrgChart) = 1
  /\ CatalogLines \in Seq(PlanLine) /\ Len(CatalogLines) = 2
  /\ Bookings \in Seq(PlanLine) /\ Len(Bookings) = 1
  /\ LiveService \in Seq(PlanLine) /\ Len(LiveService) = 7
  /\ ClosedVisit \in Seq(PlanLine) /\ Len(ClosedVisit) = 5
  /\ AuditLines \in Seq(PlanLine) /\ Len(AuditLines) = 1
<1>1. \A key \in KeyNames : Plain(key) \in PlanLine
  BY PlainTyped
<1>2. \A line \in PlanLine : /\ [line EXCEPT !.many = TRUE] \in PlanLine
                             /\ \A n \in Nat : [line EXCEPT !.next = n] \in PlanLine
  BY DEF PlanLine
<1>3. Tenant \in Seq(PlanLine) /\ Len(Tenant) = 3
  <2>1. <<"available">> \in Seq(RowStatus)
    BY StatusNames
  <2>2. /\ Line("T1", TableEdges, <<"available">>, <<"available">>) \in PlanLine
        /\ Line("T2", TableEdges, <<"available">>, <<"available">>) \in PlanLine
        /\ Plain("tenant") \in PlanLine
    BY <1>1, <2>1, EdgesTyped, LineTyped, StatusNames DEF KeyNames
  <2> QED
    BY <2>2, Tuple3 DEF Tenant
<1>4. OrgChart \in Seq(PlanLine) /\ Len(OrgChart) = 1
  <2>1. Plain("staff") \in PlanLine
    BY <1>1 DEF KeyNames
  <2> QED
    BY <2>1, Tuple1 DEF OrgChart
<1>5. CatalogLines \in Seq(PlanLine) /\ Len(CatalogLines) = 2
  <2>1. Plain("sku") \in PlanLine /\ Plain("dish") \in PlanLine
    BY <1>1 DEF KeyNames
  <2> QED
    BY <2>1, Tuple2 DEF CatalogLines
<1>6. Bookings \in Seq(PlanLine) /\ Len(Bookings) = 1
  <2> DEFINE line == Line("bookings", ReservationEdges, ReservationPath,
                          <<"requested", "confirmed", "cancelled">>)
  <2>1. ReservationPath \in Seq(RowStatus) /\ <<"requested", "confirmed", "cancelled">> \in Seq(RowStatus)
    BY StatusNames DEF ReservationPath
  <2>2. line \in PlanLine
    BY <2>1, EdgesTyped, LineTyped, StatusNames DEF KeyNames
  <2> HIDE DEF line
  <2>3. [line EXCEPT !.many = TRUE] \in PlanLine
    BY <1>2, <2>2
  <2> QED
    BY <2>3, Tuple1 DEF Bookings, line
<1>7. LiveService \in Seq(PlanLine) /\ Len(LiveService) = 7
  <2>1. /\ SessionPath \in Seq(RowStatus) /\ GuestPath \in Seq(RowStatus) /\ OrderPath \in Seq(RowStatus)
        /\ ItemPath \in Seq(RowStatus) /\ PaymentPath \in Seq(RowStatus)
    BY StatusNames DEF SessionPath, GuestPath, OrderPath, ItemPath, PaymentPath
  <2>2. \A status \in RowStatus : <<status>> \in Seq(RowStatus)
    OBVIOUS
  <2> DEFINE a == Line("visit_T1", TableSessionEdges, SessionPath, <<"ordering">>)
             b == Line("Nadia", GuestSessionEdges, GuestPath, <<"ordering">>)
             c == Line("Karim", GuestSessionEdges, GuestPath, <<"joined">>)
             d == Line("order_T1", OrderEdges, OrderPath, <<"in_kitchen">>)
             e == Line("burger", OrderItemEdges, ItemPath, <<"ready">>)
             f == Line("salad", OrderItemEdges, ItemPath, <<"prepping">>)
             g == Line("payment_T1", PaymentEdges, PaymentPath, <<"unpaid">>)
  <2>3. /\ a \in PlanLine /\ b \in PlanLine /\ c \in PlanLine /\ d \in PlanLine
        /\ e \in PlanLine /\ f \in PlanLine /\ g \in PlanLine
    BY <2>1, <2>2, EdgesTyped, LineTyped, StatusNames DEF KeyNames
  <2>4. LiveService = <<a, b, c, d, e, f, g>>
    BY DEF LiveService
  <2> HIDE DEF a, b, c, d, e, f, g
  <2> QED
    BY <2>3, <2>4, Tuple7
<1>8. ClosedVisit \in Seq(PlanLine) /\ Len(ClosedVisit) = 5
  <2>1. /\ SessionPath \in Seq(RowStatus) /\ GuestPath \in Seq(RowStatus) /\ OrderPath \in Seq(RowStatus)
        /\ ItemPath \in Seq(RowStatus) /\ PaymentPath \in Seq(RowStatus)
    BY StatusNames DEF SessionPath, GuestPath, OrderPath, ItemPath, PaymentPath
  <2>2. \A status \in RowStatus : <<status>> \in Seq(RowStatus)
    OBVIOUS
  <2> DEFINE visit == Line("visit_T2", TableSessionEdges, SessionPath, <<"closed">>)
             order == Line("order_T2", OrderEdges, OrderPath, <<"served">>)
  <2>3. /\ visit \in PlanLine /\ order \in PlanLine
        /\ Line("Olivia", GuestSessionEdges, GuestPath, <<"left">>) \in PlanLine
        /\ Line("salmon", OrderItemEdges, ItemPath, <<"picked_up">>) \in PlanLine
        /\ Line("payment_T2", PaymentEdges, PaymentPath, <<"settled">>) \in PlanLine
    BY <2>1, <2>2, EdgesTyped, LineTyped, StatusNames DEF KeyNames
  <2> HIDE DEF visit, order
  <2>4. [visit EXCEPT !.next = 5] \in PlanLine /\ [order EXCEPT !.next = 3] \in PlanLine
    BY <1>2, <2>3
  <2> QED
    BY <2>3, <2>4, Tuple5 DEF ClosedVisit, visit, order
<1>9. AuditLines \in Seq(PlanLine) /\ Len(AuditLines) = 1
  <2> DEFINE line == Plain("audit")
  <2>1. line \in PlanLine
    BY <1>1 DEF KeyNames
  <2> HIDE DEF line
  <2>2. [line EXCEPT !.many = TRUE] \in PlanLine
    BY <1>2, <2>1
  <2> QED
    BY <2>2, Tuple1 DEF AuditLines, line
<1> QED
  BY <1>3, <1>4, <1>5, <1>6, <1>7, <1>8, <1>9

(* Where the parts of a sequence are in the whole.                         *)
LEMMA Joined ==
  ASSUME NEW S, NEW s \in Seq(S), NEW t \in Seq(S), NEW p, p = s \o t
  PROVE  /\ p \in Seq(S) /\ Len(p) = Len(s) + Len(t)
         /\ \A i \in 1..Len(s) : p[i] = s[i]
         /\ \A i \in 1..Len(t) : p[Len(s) + i] = t[i]
  BY ConcatProperties

(* The plan, line by line.                                                 *)
LEMMA PlanAt ==
  /\ Plan \in Seq(PlanLine) /\ Len(Plan) = 20
  /\ Plan[1] = Tenant[1] /\ Plan[2] = Tenant[2] /\ Plan[3] = Tenant[3]
  /\ Plan[4] = OrgChart[1]
  /\ Plan[5] = CatalogLines[1] /\ Plan[6] = CatalogLines[2]
  /\ Plan[7] = Bookings[1]
  /\ Plan[8] = LiveService[1] /\ Plan[9] = LiveService[2] /\ Plan[10] = LiveService[3]
  /\ Plan[11] = LiveService[4] /\ Plan[12] = LiveService[5] /\ Plan[13] = LiveService[6]
  /\ Plan[14] = LiveService[7]
  /\ Plan[15] = ClosedVisit[1] /\ Plan[16] = ClosedVisit[2] /\ Plan[17] = ClosedVisit[3]
  /\ Plan[18] = ClosedVisit[4] /\ Plan[19] = ClosedVisit[5]
  /\ Plan[20] = AuditLines[1]
<1> DEFINE p1 == Tenant \o OrgChart
           p2 == p1 \o CatalogLines
           p3 == p2 \o Bookings
           p4 == p3 \o LiveService
           p5 == p4 \o ClosedVisit
           p6 == p5 \o AuditLines
<1>0. Plan = p6
  BY DEF Plan
<1>1. /\ p1 \in Seq(PlanLine) /\ Len(p1) = 4
      /\ \A i \in 1..3 : p1[i] = Tenant[i]
      /\ \A i \in 1..1 : p1[3 + i] = OrgChart[i]
  <2>0. Len(Tenant) = 3 /\ Len(OrgChart) = 1
    BY PartsTyped
  <2>1. Tenant \in Seq(PlanLine) /\ OrgChart \in Seq(PlanLine)
    BY PartsTyped
  <2>2. p1 = Tenant \o OrgChart
    OBVIOUS
  <2> HIDE DEF p1
  <2>3. /\ p1 \in Seq(PlanLine) /\ Len(p1) = Len(Tenant) + Len(OrgChart)
        /\ \A i \in 1..Len(Tenant) : p1[i] = Tenant[i]
        /\ \A i \in 1..Len(OrgChart) : p1[Len(Tenant) + i] = OrgChart[i]
    BY <2>1, <2>2, Joined
  <2> QED
    BY <2>0, <2>3
<1> HIDE DEF p1
<1>2. /\ p2 \in Seq(PlanLine) /\ Len(p2) = 6
      /\ \A i \in 1..4 : p2[i] = p1[i]
      /\ \A i \in 1..2 : p2[4 + i] = CatalogLines[i]
  <2>0. Len(p1) = 4 /\ Len(CatalogLines) = 2
    BY <1>1, PartsTyped
  <2>1. p1 \in Seq(PlanLine) /\ CatalogLines \in Seq(PlanLine)
    BY <1>1, PartsTyped
  <2>2. p2 = p1 \o CatalogLines
    OBVIOUS
  <2> HIDE DEF p2
  <2>3. /\ p2 \in Seq(PlanLine) /\ Len(p2) = Len(p1) + Len(CatalogLines)
        /\ \A i \in 1..Len(p1) : p2[i] = p1[i]
        /\ \A i \in 1..Len(CatalogLines) : p2[Len(p1) + i] = CatalogLines[i]
    BY <2>1, <2>2, Joined
  <2> QED
    BY <2>0, <2>3
<1> HIDE DEF p2
<1>3. /\ p3 \in Seq(PlanLine) /\ Len(p3) = 7
      /\ \A i \in 1..6 : p3[i] = p2[i]
      /\ \A i \in 1..1 : p3[6 + i] = Bookings[i]
  <2>0. Len(p2) = 6 /\ Len(Bookings) = 1
    BY <1>2, PartsTyped
  <2>1. p2 \in Seq(PlanLine) /\ Bookings \in Seq(PlanLine)
    BY <1>2, PartsTyped
  <2>2. p3 = p2 \o Bookings
    OBVIOUS
  <2> HIDE DEF p3
  <2>3. /\ p3 \in Seq(PlanLine) /\ Len(p3) = Len(p2) + Len(Bookings)
        /\ \A i \in 1..Len(p2) : p3[i] = p2[i]
        /\ \A i \in 1..Len(Bookings) : p3[Len(p2) + i] = Bookings[i]
    BY <2>1, <2>2, Joined
  <2> QED
    BY <2>0, <2>3
<1> HIDE DEF p3
<1>4. /\ p4 \in Seq(PlanLine) /\ Len(p4) = 14
      /\ \A i \in 1..7 : p4[i] = p3[i]
      /\ \A i \in 1..7 : p4[7 + i] = LiveService[i]
  <2>0. Len(p3) = 7 /\ Len(LiveService) = 7
    BY <1>3, PartsTyped
  <2>1. p3 \in Seq(PlanLine) /\ LiveService \in Seq(PlanLine)
    BY <1>3, PartsTyped
  <2>2. p4 = p3 \o LiveService
    OBVIOUS
  <2> HIDE DEF p4
  <2>3. /\ p4 \in Seq(PlanLine) /\ Len(p4) = Len(p3) + Len(LiveService)
        /\ \A i \in 1..Len(p3) : p4[i] = p3[i]
        /\ \A i \in 1..Len(LiveService) : p4[Len(p3) + i] = LiveService[i]
    BY <2>1, <2>2, Joined
  <2> QED
    BY <2>0, <2>3
<1> HIDE DEF p4
<1>5. /\ p5 \in Seq(PlanLine) /\ Len(p5) = 19
      /\ \A i \in 1..14 : p5[i] = p4[i]
      /\ \A i \in 1..5 : p5[14 + i] = ClosedVisit[i]
  <2>0. Len(p4) = 14 /\ Len(ClosedVisit) = 5
    BY <1>4, PartsTyped
  <2>1. p4 \in Seq(PlanLine) /\ ClosedVisit \in Seq(PlanLine)
    BY <1>4, PartsTyped
  <2>2. p5 = p4 \o ClosedVisit
    OBVIOUS
  <2> HIDE DEF p5
  <2>3. /\ p5 \in Seq(PlanLine) /\ Len(p5) = Len(p4) + Len(ClosedVisit)
        /\ \A i \in 1..Len(p4) : p5[i] = p4[i]
        /\ \A i \in 1..Len(ClosedVisit) : p5[Len(p4) + i] = ClosedVisit[i]
    BY <2>1, <2>2, Joined
  <2> QED
    BY <2>0, <2>3
<1> HIDE DEF p5
<1>6. /\ p6 \in Seq(PlanLine) /\ Len(p6) = 20
      /\ \A i \in 1..19 : p6[i] = p5[i]
      /\ \A i \in 1..1 : p6[19 + i] = AuditLines[i]
  <2>0. Len(p5) = 19 /\ Len(AuditLines) = 1
    BY <1>5, PartsTyped
  <2>1. p5 \in Seq(PlanLine) /\ AuditLines \in Seq(PlanLine)
    BY <1>5, PartsTyped
  <2>2. p6 = p5 \o AuditLines
    OBVIOUS
  <2> HIDE DEF p6
  <2>3. /\ p6 \in Seq(PlanLine) /\ Len(p6) = Len(p5) + Len(AuditLines)
        /\ \A i \in 1..Len(p5) : p6[i] = p5[i]
        /\ \A i \in 1..Len(AuditLines) : p6[Len(p5) + i] = AuditLines[i]
    BY <2>1, <2>2, Joined
  <2> QED
    BY <2>0, <2>3
<1> HIDE DEF p6
<1>7. /\ p1[1] = Tenant[1] /\ p1[2] = Tenant[2] /\ p1[3] = Tenant[3] /\ p1[4] = OrgChart[1]
      /\ p2[5] = CatalogLines[1] /\ p2[6] = CatalogLines[2] /\ p3[7] = Bookings[1]
      /\ p4[8] = LiveService[1] /\ p4[9] = LiveService[2] /\ p4[10] = LiveService[3]
      /\ p4[11] = LiveService[4] /\ p4[12] = LiveService[5] /\ p4[13] = LiveService[6]
      /\ p4[14] = LiveService[7]
      /\ p5[15] = ClosedVisit[1] /\ p5[16] = ClosedVisit[2] /\ p5[17] = ClosedVisit[3]
      /\ p5[18] = ClosedVisit[4] /\ p5[19] = ClosedVisit[5]
      /\ p6[20] = AuditLines[1]
  <2>1. /\ p1[3 + 1] = OrgChart[1] /\ p2[4 + 1] = CatalogLines[1] /\ p2[4 + 2] = CatalogLines[2] /\ p3[6 + 1] = Bookings[1]
        /\ p6[19 + 1] = AuditLines[1]
    BY <1>1, <1>2, <1>3, <1>6
  <2>2. /\ p4[7 + 1] = LiveService[1] /\ p4[7 + 2] = LiveService[2] /\ p4[7 + 3] = LiveService[3]
        /\ p4[7 + 4] = LiveService[4] /\ p4[7 + 5] = LiveService[5] /\ p4[7 + 6] = LiveService[6]
        /\ p4[7 + 7] = LiveService[7]
    BY <1>4
  <2>3. /\ p5[14 + 1] = ClosedVisit[1] /\ p5[14 + 2] = ClosedVisit[2] /\ p5[14 + 3] = ClosedVisit[3]
        /\ p5[14 + 4] = ClosedVisit[4] /\ p5[14 + 5] = ClosedVisit[5]
    BY <1>5
  <2> QED
    BY <1>1, <2>1, <2>2, <2>3
<1>8. \A i \in 1..14 : p6[i] = p4[i]
  BY <1>5, <1>6, SMTT(30)
<1>9. \A i \in 1..7 : p6[i] = p3[i]
  BY <1>4, <1>8
<1>10. \A i \in 1..6 : p6[i] = p2[i]
  BY <1>3, <1>9
<1>11. \A i \in 1..4 : p6[i] = p1[i]
  BY <1>2, <1>10
<1>12. /\ p6[1] = Tenant[1] /\ p6[2] = Tenant[2] /\ p6[3] = Tenant[3] /\ p6[4] = OrgChart[1]
       /\ p6[5] = CatalogLines[1] /\ p6[6] = CatalogLines[2] /\ p6[7] = Bookings[1]
  BY <1>7, <1>9, <1>10, <1>11
<1>13. /\ p6[8] = LiveService[1] /\ p6[9] = LiveService[2] /\ p6[10] = LiveService[3]
       /\ p6[11] = LiveService[4] /\ p6[12] = LiveService[5] /\ p6[13] = LiveService[6]
       /\ p6[14] = LiveService[7]
  BY <1>7, <1>8
<1>14. /\ p6[15] = ClosedVisit[1] /\ p6[16] = ClosedVisit[2] /\ p6[17] = ClosedVisit[3]
       /\ p6[18] = ClosedVisit[4] /\ p6[19] = ClosedVisit[5]
  BY <1>6, <1>7, SMTT(30)
<1> QED
  BY <1>0, <1>6, <1>7, <1>12, <1>13, <1>14

(* A path along the edges of a lifecycle.                                  *)
Spine(edges, path) ==
  /\ Len(path) \in Nat
  /\ \A i, j \in 1..Len(path) : path[i] = path[j] => i = j
  /\ \A i \in 1..(Len(path) - 1) : <<path[i], path[i + 1]>> \in edges

(* _advance_to gets from the start of a spine to any of its places, ...    *)
LEMMA AlongTheSpine ==
  ASSUME NEW edges, NEW path, Spine(edges, path), NEW m \in 1..Len(path)
  PROVE  Advanced(edges, path, path[1], path[m]) = path[m]
<1>1. 1 \in 1..Len(path) /\ Len(path) \in Nat
  BY DEF Spine
<1>2. \A k \in 1..Len(path) : (CHOOSE i \in 1..Len(path) : path[i] = path[k]) = k
  BY DEF Spine
<1>3. \A k \in 1..Len(path) : \E i \in 1..Len(path) : path[i] = path[k]
  OBVIOUS
<1>4. \A i \in 1..(m - 1) : <<path[i], path[i + 1]>> \in edges
  BY <1>1 DEF Spine
<1>5. m = 1 \/ 1 < m
  BY <1>1
<1>6. /\ (CHOOSE i \in 1..Len(path) : path[i] = path[1]) = 1
      /\ (CHOOSE i \in 1..Len(path) : path[i] = path[m]) = m
      /\ \E i \in 1..Len(path) : path[i] = path[1]
      /\ \E i \in 1..Len(path) : path[i] = path[m]
  BY <1>1, <1>2, <1>3
<1> DEFINE first == CHOOSE i \in 1..Len(path) : path[i] = path[1]
           last == CHOOSE i \in 1..Len(path) : path[i] = path[m]
<1>7. Advanced(edges, path, path[1], path[m]) =
        IF \A i \in first..(last - 1) : <<path[i], path[i + 1]>> \in edges
          THEN IF first < last THEN path[m] ELSE path[1] ELSE Illegal
  BY <1>6, Zenon DEF Advanced, CanTransition
<1>8. first = 1 /\ last = m
  BY <1>6
<1> HIDE DEF first, last
<1> QED
  BY <1>4, <1>5, <1>7, <1>8

(* ... and off the spine by one edge.                                      *)
LEMMA OffTheSpine ==
  ASSUME NEW edges, NEW path, NEW status, NEW goal,
         \A i \in 1..Len(path) : path[i] # goal, <<status, goal>> \in edges
  PROVE  Advanced(edges, path, status, goal) = goal
  BY DEF Advanced, CanTransition

(* Every spine is walked by edges of its lifecycle.                        *)
LEMMA SessionSpine ==
  /\ Len(SessionPath) = 5
  /\ SessionPath[1] = "open" /\ SessionPath[2] = "ordering" /\ SessionPath[3] = "dining"
  /\ SessionPath[4] = "settling" /\ SessionPath[5] = "closed"
  /\ Spine(TableSessionEdges, SessionPath)
<1>1. /\ Len(SessionPath) = 5
      /\ SessionPath[1] = "open" /\ SessionPath[2] = "ordering" /\ SessionPath[3] = "dining"
      /\ SessionPath[4] = "settling" /\ SessionPath[5] = "closed"
  BY DEF SessionPath
<1>2. /\ <<"open", "ordering">> \in TableSessionEdges
      /\ <<"ordering", "dining">> \in TableSessionEdges
      /\ <<"dining", "settling">> \in TableSessionEdges
      /\ <<"settling", "closed">> \in TableSessionEdges
  BY DEF TableSessionEdges
<1>3. Spine(TableSessionEdges, SessionPath)
  BY <1>1, <1>2 DEF Spine
<1> QED
  BY <1>1, <1>3

LEMMA GuestSpine ==
  /\ Len(GuestPath) = 6
  /\ GuestPath[1] = "authenticating" /\ GuestPath[2] = "joined" /\ GuestPath[3] = "ordering"
  /\ GuestPath[4] = "dining" /\ GuestPath[5] = "settling" /\ GuestPath[6] = "left"
  /\ Spine(GuestSessionEdges, GuestPath)
<1>1. /\ Len(GuestPath) = 6
      /\ GuestPath[1] = "authenticating" /\ GuestPath[2] = "joined" /\ GuestPath[3] = "ordering"
      /\ GuestPath[4] = "dining" /\ GuestPath[5] = "settling" /\ GuestPath[6] = "left"
  BY DEF GuestPath
<1>2. /\ <<"authenticating", "joined">> \in GuestSessionEdges
      /\ <<"joined", "ordering">> \in GuestSessionEdges
      /\ <<"ordering", "dining">> \in GuestSessionEdges
      /\ <<"dining", "settling">> \in GuestSessionEdges
      /\ <<"settling", "left">> \in GuestSessionEdges
  BY DEF GuestSessionEdges
<1>3. Spine(GuestSessionEdges, GuestPath)
  BY <1>1, <1>2 DEF Spine
<1> QED
  BY <1>1, <1>3

LEMMA OrderSpine ==
  /\ Len(OrderPath) = 5
  /\ OrderPath[1] = "draft" /\ OrderPath[2] = "submitted" /\ OrderPath[3] = "in_kitchen"
  /\ OrderPath[4] = "ready" /\ OrderPath[5] = "served"
  /\ Spine(OrderEdges, OrderPath)
<1>1. /\ Len(OrderPath) = 5
      /\ OrderPath[1] = "draft" /\ OrderPath[2] = "submitted" /\ OrderPath[3] = "in_kitchen"
      /\ OrderPath[4] = "ready" /\ OrderPath[5] = "served"
  BY DEF OrderPath
<1>2. /\ <<"draft", "submitted">> \in OrderEdges
      /\ <<"submitted", "in_kitchen">> \in OrderEdges
      /\ <<"in_kitchen", "ready">> \in OrderEdges
      /\ <<"ready", "served">> \in OrderEdges
  BY DEF OrderEdges
<1>3. Spine(OrderEdges, OrderPath)
  BY <1>1, <1>2 DEF Spine
<1> QED
  BY <1>1, <1>3

LEMMA ItemSpine ==
  /\ Len(ItemPath) = 5
  /\ ItemPath[1] = "queued" /\ ItemPath[2] = "prepping" /\ ItemPath[3] = "fired"
  /\ ItemPath[4] = "ready" /\ ItemPath[5] = "picked_up"
  /\ Spine(OrderItemEdges, ItemPath)
<1>1. /\ Len(ItemPath) = 5
      /\ ItemPath[1] = "queued" /\ ItemPath[2] = "prepping" /\ ItemPath[3] = "fired"
      /\ ItemPath[4] = "ready" /\ ItemPath[5] = "picked_up"
  BY DEF ItemPath
<1>2. /\ <<"queued", "prepping">> \in OrderItemEdges
      /\ <<"prepping", "fired">> \in OrderItemEdges
      /\ <<"fired", "ready">> \in OrderItemEdges
      /\ <<"ready", "picked_up">> \in OrderItemEdges
  BY DEF OrderItemEdges
<1>3. Spine(OrderItemEdges, ItemPath)
  BY <1>1, <1>2 DEF Spine
<1> QED
  BY <1>1, <1>3

LEMMA PaymentSpine ==
  /\ Len(PaymentPath) = 4
  /\ PaymentPath[1] = "unpaid" /\ PaymentPath[2] = "partial"
  /\ PaymentPath[3] = "authorized" /\ PaymentPath[4] = "settled"
  /\ Spine(PaymentEdges, PaymentPath)
<1>1. /\ Len(PaymentPath) = 4
      /\ PaymentPath[1] = "unpaid" /\ PaymentPath[2] = "partial"
      /\ PaymentPath[3] = "authorized" /\ PaymentPath[4] = "settled"
  BY DEF PaymentPath
<1>2. /\ <<"unpaid", "partial">> \in PaymentEdges
      /\ <<"partial", "authorized">> \in PaymentEdges
      /\ <<"authorized", "settled">> \in PaymentEdges
  BY DEF PaymentEdges
<1>3. Spine(PaymentEdges, PaymentPath)
  BY <1>1, <1>2 DEF Spine
<1> QED
  BY <1>1, <1>3

LEMMA ReservationSpine ==
  /\ Len(ReservationPath) = 4
  /\ ReservationPath[1] = "requested" /\ ReservationPath[2] = "confirmed"
  /\ ReservationPath[3] = "seated" /\ ReservationPath[4] = "completed"
  /\ Spine(ReservationEdges, ReservationPath)
<1>1. /\ Len(ReservationPath) = 4
      /\ ReservationPath[1] = "requested" /\ ReservationPath[2] = "confirmed"
      /\ ReservationPath[3] = "seated" /\ ReservationPath[4] = "completed"
  BY DEF ReservationPath
<1>2. /\ <<"requested", "confirmed">> \in ReservationEdges
      /\ <<"confirmed", "seated">> \in ReservationEdges
      /\ <<"seated", "completed">> \in ReservationEdges
  BY DEF ReservationEdges
<1>3. Spine(ReservationEdges, ReservationPath)
  BY <1>1, <1>2 DEF Spine
<1> QED
  BY <1>1, <1>3

(* The statuses of a line are all reached.                                 *)
Reached(line) ==
  \A j \in 1..Len(line.goals) :
    Advanced(line.edges, line.path, line.path[1], line.goals[j]) = line.goals[j]

OnSpine(edges, path, goal) ==
  Spine(edges, path) /\ \E m \in 1..Len(path) : path[m] = goal

LEMMA LineReached ==
  \A key, edges, path, goal : OnSpine(edges, path, goal) =>
    /\ Reached(Line(key, edges, path, <<goal>>))
    /\ Line(key, edges, path, <<goal>>).key = key
    /\ Line(key, edges, path, <<goal>>).goals = <<goal>>
<1> SUFFICES ASSUME NEW key, NEW edges, NEW path, NEW goal, OnSpine(edges, path, goal)
             PROVE  /\ Reached(Line(key, edges, path, <<goal>>))
                    /\ Line(key, edges, path, <<goal>>).key = key
                    /\ Line(key, edges, path, <<goal>>).goals = <<goal>>
  OBVIOUS
<1>1. Advanced(edges, path, path[1], goal) = goal
  BY AlongTheSpine DEF OnSpine
<1>2. /\ Line(key, edges, path, <<goal>>).key = key
      /\ Line(key, edges, path, <<goal>>).edges = edges
      /\ Line(key, edges, path, <<goal>>).path = path
      /\ Line(key, edges, path, <<goal>>).goals = <<goal>>
  BY DEF Line
<1>3. Len(<<goal>>) = 1 /\ <<goal>>[1] = goal
  OBVIOUS
<1> QED
  BY <1>1, <1>2, <1>3 DEF Reached

LEMMA OneStatus == \A edges, status : OnSpine(edges, <<status>>, status)
  BY DEF OnSpine, Spine

LEMMA PlainReached ==
  \A key : Reached(Plain(key)) /\ Plain(key).key = key /\ Plain(key).goals = <<"there">>
<1> DEFINE path == <<"there">>
<1>1. OnSpine({}, path, "there")
  BY OneStatus
<1>2. \A key : Plain(key) = Line(key, {}, path, <<"there">>)
  BY DEF Plain
<1> HIDE DEF path
<1> QED
  BY <1>1, <1>2, LineReached

(* How many rows a look-up bears, and how far it leads, are other matters. *)
LEMMA Amended ==
  ASSUME NEW line \in PlanLine
  PROVE  /\ \A n : /\ [line EXCEPT !.next = n].key = line.key
                   /\ [line EXCEPT !.next = n].goals = line.goals
                   /\ Reached(line) => Reached([line EXCEPT !.next = n])
         /\ [line EXCEPT !.many = TRUE].key = line.key
         /\ [line EXCEPT !.many = TRUE].goals = line.goals
         /\ Reached(line) => Reached([line EXCEPT !.many = TRUE])
  BY DEF PlanLine, Reached

(* The parts of the plan: keys, statuses, and that they are reached.       *)
LEMMA TenantLines ==
  /\ Tenant[1].key = "tenant" /\ Tenant[1].goals = <<"there">> /\ Reached(Tenant[1])
  /\ Tenant[2].key = "T1" /\ Tenant[2].goals = <<"available">> /\ Reached(Tenant[2])
  /\ Tenant[3].key = "T2" /\ Tenant[3].goals = <<"available">> /\ Reached(Tenant[3])
<1> DEFINE path == <<"available">>
           a == Plain("tenant")
           b == Line("T1", TableEdges, path, <<"available">>)
           c == Line("T2", TableEdges, path, <<"available">>)
<1>1. OnSpine(TableEdges, path, "available")
  BY OneStatus
<1>2. Tenant = <<a, b, c>>
  BY DEF Tenant
<1> HIDE DEF path
<1>3. /\ a.key = "tenant" /\ a.goals = <<"there">> /\ Reached(a)
      /\ b.key = "T1" /\ b.goals = <<"available">> /\ Reached(b)
      /\ c.key = "T2" /\ c.goals = <<"available">> /\ Reached(c)
  BY <1>1, PlainReached, LineReached
<1> HIDE DEF a, b, c
<1> QED
  BY <1>2, <1>3

LEMMA PlainLines ==
  /\ OrgChart[1].key = "staff" /\ OrgChart[1].goals = <<"there">> /\ Reached(OrgChart[1])
  /\ CatalogLines[1].key = "sku" /\ CatalogLines[1].goals = <<"there">> /\ Reached(CatalogLines[1])
  /\ CatalogLines[2].key = "dish" /\ CatalogLines[2].goals = <<"there">> /\ Reached(CatalogLines[2])
  /\ AuditLines[1].key = "audit" /\ AuditLines[1].goals = <<"there">> /\ Reached(AuditLines[1])
<1>1. \A key : Plain(key).key = key /\ Plain(key).goals = <<"there">> /\ Reached(Plain(key))
  BY PlainReached
<1>2. OrgChart[1] = Plain("staff") /\ CatalogLines[1] = Plain("sku") /\ CatalogLines[2] = Plain("dish")
  BY DEF OrgChart, CatalogLines
<1>3. Plain("audit") \in PlanLine
  BY PlainTyped DEF KeyNames
<1>4. AuditLines[1] = [Plain("audit") EXCEPT !.many = TRUE]
  BY DEF AuditLines
<1> QED
  BY <1>1, <1>2, <1>3, <1>4, Amended

LEMMA BookingLines ==
  /\ Bookings[1].key = "bookings"
  /\ Bookings[1].goals = <<"requested", "confirmed", "cancelled">>
  /\ Reached(Bookings[1]) /\ Bookings[1].many
<1> DEFINE goals == <<"requested", "confirmed", "cancelled">>
           line == Line("bookings", ReservationEdges, ReservationPath, goals)
<1>1. Len(goals) = 3 /\ goals[1] = "requested" /\ goals[2] = "confirmed" /\ goals[3] = "cancelled"
  OBVIOUS
<1>2. goals \in Seq(RowStatus) /\ ReservationPath \in Seq(RowStatus)
  BY StatusNames DEF ReservationPath
<1> HIDE DEF goals
<1>3. line \in PlanLine
  BY <1>2, EdgesTyped, LineTyped DEF KeyNames
<1>4. /\ line.key = "bookings" /\ line.edges = ReservationEdges /\ line.path = ReservationPath
      /\ line.goals = goals
  BY DEF Line
<1>5. /\ ReservationPath[1] = "requested" /\ ReservationPath[2] = "confirmed"
      /\ \A m \in 1..Len(ReservationPath) : ReservationPath[m] # "cancelled"
      /\ 1 \in 1..Len(ReservationPath) /\ 2 \in 1..Len(ReservationPath)
  BY ReservationSpine
<1>6. \A m \in 1..Len(ReservationPath) :
        Advanced(ReservationEdges, ReservationPath, ReservationPath[1], ReservationPath[m])
          = ReservationPath[m]
  <2>1. Spine(ReservationEdges, ReservationPath)
    BY ReservationSpine
  <2> QED
    BY <2>1, AlongTheSpine
<1>7. <<"requested", "cancelled">> \in ReservationEdges
  BY DEF ReservationEdges
<1>8. Advanced(ReservationEdges, ReservationPath, "requested", "cancelled") = "cancelled"
  BY <1>5, <1>7, OffTheSpine
<1>9. /\ Advanced(ReservationEdges, ReservationPath, "requested", "requested") = "requested"
      /\ Advanced(ReservationEdges, ReservationPath, "requested", "confirmed") = "confirmed"
  BY <1>5, <1>6
<1> HIDE DEF line
<1>10. Reached(line)
  <2> SUFFICES ASSUME NEW j \in 1..Len(goals)
               PROVE  Advanced(ReservationEdges, ReservationPath, "requested", goals[j]) = goals[j]
    BY <1>4, <1>5 DEF Reached
  <2>1. j = 1 \/ j = 2 \/ j = 3
    BY <1>1
  <2> QED
    BY <1>1, <1>8, <1>9, <2>1
<1>11. Bookings[1] = [line EXCEPT !.many = TRUE]
  BY DEF Bookings, line, goals
<1>12. [line EXCEPT !.many = TRUE].many
  BY <1>3 DEF PlanLine
<1> QED
  BY <1>3, <1>4, <1>10, <1>11, <1>12, Amended DEF goals

LEMMA LiveLines ==
  /\ LiveService[1].key = "visit_T1" /\ LiveService[1].goals = <<"ordering">> /\ Reached(LiveService[1])
  /\ LiveService[2].key = "Nadia" /\ LiveService[2].goals = <<"ordering">> /\ Reached(LiveService[2])
  /\ LiveService[3].key = "Karim" /\ LiveService[3].goals = <<"joined">> /\ Reached(LiveService[3])
  /\ LiveService[4].key = "order_T1" /\ LiveService[4].goals = <<"in_kitchen">> /\ Reached(LiveService[4])
  /\ LiveService[5].key = "burger" /\ LiveService[5].goals = <<"ready">> /\ Reached(LiveService[5])
  /\ LiveService[6].key = "salad" /\ LiveService[6].goals = <<"prepping">> /\ Reached(LiveService[6])
  /\ LiveService[7].key = "payment_T1" /\ LiveService[7].goals = <<"unpaid">> /\ Reached(LiveService[7])
<1> DEFINE a == Line("visit_T1", TableSessionEdges, SessionPath, <<"ordering">>)
           b == Line("Nadia", GuestSessionEdges, GuestPath, <<"ordering">>)
           c == Line("Karim", GuestSessionEdges, GuestPath, <<"joined">>)
           d == Line("order_T1", OrderEdges, OrderPath, <<"in_kitchen">>)
           e == Line("burger", OrderItemEdges, ItemPath, <<"ready">>)
           f == Line("salad", OrderItemEdges, ItemPath, <<"prepping">>)
           g == Line("payment_T1", PaymentEdges, PaymentPath, <<"unpaid">>)
<1>1. a.key = "visit_T1" /\ a.goals = <<"ordering">> /\ Reached(a)
  <2>1. OnSpine(TableSessionEdges, SessionPath, "ordering")
    BY SessionSpine DEF OnSpine
  <2> QED
    BY <2>1, LineReached
<1>2. b.key = "Nadia" /\ b.goals = <<"ordering">> /\ Reached(b)
  <2>1. OnSpine(GuestSessionEdges, GuestPath, "ordering")
    BY GuestSpine DEF OnSpine
  <2> QED
    BY <2>1, LineReached
<1>3. c.key = "Karim" /\ c.goals = <<"joined">> /\ Reached(c)
  <2>1. OnSpine(GuestSessionEdges, GuestPath, "joined")
    BY GuestSpine DEF OnSpine
  <2> QED
    BY <2>1, LineReached
<1>4. d.key = "order_T1" /\ d.goals = <<"in_kitchen">> /\ Reached(d)
  <2>1. OnSpine(OrderEdges, OrderPath, "in_kitchen")
    BY OrderSpine DEF OnSpine
  <2> QED
    BY <2>1, LineReached
<1>5. e.key = "burger" /\ e.goals = <<"ready">> /\ Reached(e)
  <2>1. OnSpine(OrderItemEdges, ItemPath, "ready")
    BY ItemSpine DEF OnSpine
  <2> QED
    BY <2>1, LineReached
<1>6. f.key = "salad" /\ f.goals = <<"prepping">> /\ Reached(f)
  <2>1. OnSpine(OrderItemEdges, ItemPath, "prepping")
    BY ItemSpine DEF OnSpine
  <2> QED
    BY <2>1, LineReached
<1>7. g.key = "payment_T1" /\ g.goals = <<"unpaid">> /\ Reached(g)
  <2>1. OnSpine(PaymentEdges, PaymentPath, "unpaid")
    BY PaymentSpine DEF OnSpine
  <2> QED
    BY <2>1, LineReached
<1>8. LiveService = <<a, b, c, d, e, f, g>>
  BY DEF LiveService
<1> HIDE DEF a, b, c, d, e, f, g
<1> QED
  BY <1>1, <1>2, <1>3, <1>4, <1>5, <1>6, <1>7, <1>8

LEMMA ClosedLines ==
  /\ ClosedVisit[1].key = "visit_T2" /\ ClosedVisit[1].goals = <<"closed">> /\ Reached(ClosedVisit[1])
  /\ ClosedVisit[2].key = "Olivia" /\ ClosedVisit[2].goals = <<"left">> /\ Reached(ClosedVisit[2])
  /\ ClosedVisit[3].key = "order_T2" /\ ClosedVisit[3].goals = <<"served">> /\ Reached(ClosedVisit[3])
  /\ ClosedVisit[4].key = "salmon" /\ ClosedVisit[4].goals = <<"picked_up">> /\ Reached(ClosedVisit[4])
  /\ ClosedVisit[5].key = "payment_T2" /\ ClosedVisit[5].goals = <<"settled">> /\ Reached(ClosedVisit[5])
<1> DEFINE a == Line("visit_T2", TableSessionEdges, SessionPath, <<"closed">>)
           b == Line("Olivia", GuestSessionEdges, GuestPath, <<"left">>)
           c == Line("order_T2", OrderEdges, OrderPath, <<"served">>)
           d == Line("salmon", OrderItemEdges, ItemPath, <<"picked_up">>)
           e == Line("payment_T2", PaymentEdges, PaymentPath, <<"settled">>)
<1>1. a.key = "visit_T2" /\ a.goals = <<"closed">> /\ Reached(a)
  <2>1. OnSpine(TableSessionEdges, SessionPath, "closed")
    BY SessionSpine DEF OnSpine
  <2> QED
    BY <2>1, LineReached
<1>2. b.key = "Olivia" /\ b.goals = <<"left">> /\ Reached(b)
  <2>1. OnSpine(GuestSessionEdges, GuestPath, "left")
    BY GuestSpine DEF OnSpine
  <2> QED
    BY <2>1, LineReached
<1>3. c.key = "order_T2" /\ c.goals = <<"served">> /\ Reached(c)
  <2>1. OnSpine(OrderEdges, OrderPath, "served")
    BY OrderSpine DEF OnSpine
  <2> QED
    BY <2>1, LineReached
<1>4. d.key = "salmon" /\ d.goals = <<"picked_up">> /\ Reached(d)
  <2>1. OnSpine(OrderItemEdges, ItemPath, "picked_up")
    BY ItemSpine DEF OnSpine
  <2> QED
    BY <2>1, LineReached
<1>5. e.key = "payment_T2" /\ e.goals = <<"settled">> /\ Reached(e)
  <2>1. OnSpine(PaymentEdges, PaymentPath, "settled")
    BY PaymentSpine DEF OnSpine
  <2> QED
    BY <2>1, LineReached
<1>6. a \in PlanLine /\ c \in PlanLine
  <2>1. /\ SessionPath \in Seq(RowStatus) /\ OrderPath \in Seq(RowStatus)
        /\ <<"closed">> \in Seq(RowStatus) /\ <<"served">> \in Seq(RowStatus)
    BY StatusNames DEF SessionPath, OrderPath
  <2> QED
    BY <2>1, EdgesTyped, LineTyped DEF KeyNames
<1>7. ClosedVisit = <<[a EXCEPT !.next = 5], b, [c EXCEPT !.next = 3], d, e>>
  BY DEF ClosedVisit
<1> DEFINE x == [a EXCEPT !.next = 5]
           y == [c EXCEPT !.next = 3]
<1> HIDE DEF a, b, c, d, e
<1>8. /\ x.key = "visit_T2" /\ x.goals = <<"closed">> /\ Reached(x)
      /\ y.key = "order_T2" /\ y.goals = <<"served">> /\ Reached(y)
  BY <1>1, <1>3, <1>6, Amended
<1>9. ClosedVisit = <<x, b, y, d, e>>
  BY <1>7
<1> HIDE DEF x, y
<1> QED
  BY <1>2, <1>4, <1>5, <1>8, <1>9

LEMMA PlanKeys ==
  /\ Plan[1].key = "tenant" /\ Plan[2].key = "T1" /\ Plan[3].key = "T2" /\ Plan[4].key = "staff"
  /\ Plan[5].key = "sku" /\ Plan[6].key = "dish" /\ Plan[7].key = "bookings" /\ Plan[8].key = "visit_T1"
  /\ Plan[9].key = "Nadia" /\ Plan[10].key = "Karim" /\ Plan[11].key = "order_T1" /\ Plan[12].key = "burger"
  /\ Plan[13].key = "salad" /\ Plan[14].key = "payment_T1" /\ Plan[15].key = "visit_T2" /\ Plan[16].key = "Olivia"
  /\ Plan[17].key = "order_T2" /\ Plan[18].key = "salmon" /\ Plan[19].key = "payment_T2" /\ Plan[20].key = "audit"
  BY PlanAt, TenantLines, PlainLines, BookingLines, LiveLines, ClosedLines

LEMMA PlanLines ==
  /\ Len(Plan) = 20
  /\ \A i \in 1..20 :
       /\ Plan[i] \in PlanLine /\ Plan[i].key \in Key
       /\ Reached(Plan[i]) /\ Plan[i].goals # <<>>
       /\ i # 7 => Len(Plan[i].goals) = 1
<1>1. Len(Plan) = 20 /\ \A i \in 1..20 : Plan[i] \in PlanLine
  <2>1. Plan \in Seq(PlanLine)
    BY PlanAt
  <2>2. \A i \in 1..Len(Plan) : Plan[i] \in PlanLine
    BY <2>1
  <2>3. Len(Plan) = 20
    BY PlanAt
  <2> QED
    BY <2>2, <2>3
<1>2. \A i \in 1..20 : Plan[i].key \in Key
  BY <1>1 DEF Key
<1> DEFINE Single(line) == Reached(line) /\ \E v : line.goals = <<v>>
<1>3. /\ Single(Plan[1]) /\ Single(Plan[2]) /\ Single(Plan[3])
      /\ Single(Plan[4]) /\ Single(Plan[5]) /\ Single(Plan[6]) /\ Single(Plan[20])
  BY PlanAt, TenantLines, PlainLines
<1>4. /\ Single(Plan[8]) /\ Single(Plan[9]) /\ Single(Plan[10]) /\ Single(Plan[11])
      /\ Single(Plan[12]) /\ Single(Plan[13]) /\ Single(Plan[14])
  BY PlanAt, LiveLines
<1>5. /\ Single(Plan[15]) /\ Single(Plan[16]) /\ Single(Plan[17]) /\ Single(Plan[18])
      /\ Single(Plan[19])
  BY PlanAt, ClosedLines
<1>6. Reached(Plan[7]) /\ Plan[7].goals # <<>>
  <2>1. Plan[7].goals = <<"requested", "confirmed", "cancelled">> /\ Reached(Plan[7])
    BY PlanAt, BookingLines
  <2> QED
    BY <2>1
<1>7. \A line : Single(line) => Reached(line) /\ line.goals # <<>> /\ Len(line.goals) = 1
  OBVIOUS
<1> HIDE DEF Single
<1>8. \A i \in 1..20 : i = 7 \/ Single(Plan[i])
  BY <1>3, <1>4, <1>5
<1> QED
  BY <1>1, <1>2, <1>6, <1>7, <1>8

(* The keys of the lines are those of the rows, and all different.         *)
LEMMA KeysNamed == Key = KeyNames
<1>1. Key = {Plan[i].key : i \in 1..20}
  BY PlanLines DEF Key
<1>2. \A i \in 1..20 : Plan[i].key \in KeyNames
  BY PlanLines DEF PlanLine
<1>3. \A k \in KeyNames : \E i \in 1..20 : Plan[i].key = k
  BY PlanKeys DEF KeyNames
<1> QED
  BY <1>1, <1>2, <1>3

LEMMA KeysDiffer == \A i, j \in 1..20 : Plan[i].key = Plan[j].key => i = j
<1> DEFINE Place == [k \in KeyNames |->
             CASE k = "tenant" -> 1 [] k = "T1" -> 2 [] k = "T2" -> 3 [] k = "staff" -> 4
               [] k = "sku" -> 5 [] k = "dish" -> 6 [] k = "bookings" -> 7 [] k = "visit_T1" -> 8
               [] k = "Nadia" -> 9 [] k = "Karim" -> 10 [] k = "order_T1" -> 11 [] k = "burger" -> 12
               [] k = "salad" -> 13 [] k = "payment_T1" -> 14 [] k = "visit_T2" -> 15
               [] k = "Olivia" -> 16 [] k = "order_T2" -> 17 [] k = "salmon" -> 18
               [] k = "payment_T2" -> 19 [] k = "audit" -> 20]
<1>1. /\ Place["tenant"] = 1 /\ Place["T1"] = 2 /\ Place["T2"] = 3 /\ Place["staff"] = 4
      /\ Place["sku"] = 5 /\ Place["dish"] = 6 /\ Place["bookings"] = 7 /\ Place["visit_T1"] = 8
      /\ Place["Nadia"] = 9 /\ Place["Karim"] = 10 /\ Place["order_T1"] = 11
      /\ Place["burger"] = 12 /\ Place["salad"] = 13 /\ Place["payment_T1"] = 14
      /\ Place["visit_T2"] = 15 /\ Place["Olivia"] = 16 /\ Place["order_T2"] = 17
      /\ Place["salmon"] = 18 /\ Place["payment_T2"] = 19 /\ Place["audit"] = 20
  BY DEF KeyNames
<1> HIDE DEF Place
<1>2. \A i \in 1..20 : Place[Plan[i].key] = i
  BY <1>1, PlanKeys
<1> QED
  BY <1>2

(* No line of the plan is ever illegal.                                    *)
LEMMA PlanIsLegal ==
  ASSUME NEW i \in 1..20
  PROVE  /\ Walked(Plan[i]) = Plan[i].goals
         /\ \A j \in 1..Len(Plan[i].goals) : Walked(Plan[i])[j] # Illegal
<1> DEFINE line == Plan[i]
<1>1. line.goals \in Seq(RowStatus) /\ Reached(line)
  BY PlanLines DEF PlanLine
<1> HIDE DEF line
<1>2. /\ DOMAIN line.goals = 1..Len(line.goals)
      /\ line.goals = [j \in 1..Len(line.goals) |-> line.goals[j]]
      /\ \A j \in 1..Len(line.goals) : line.goals[j] \in RowStatus
  BY <1>1
<1>3. Walked(line) = line.goals
  BY <1>1, <1>2 DEF Walked, Reached
<1>4. Illegal \notin RowStatus
  BY DEF Illegal, RowStatus, TableStatus, TableSessionStatus, GuestSessionStatus, OrderStatus,
         OrderItemStatus, PaymentStatus, ReservationStatus
<1> QED
  BY <1>2, <1>3, <1>4 DEF line

(* What the first seed has made, step by step.                             *)
LEMMA MadeOf ==
  \A i \in 1..20, n \in 0..21 :
    /\ i >= n => Made(i, n) = <<>>
    /\ i < n /\ i = 2 /\ n > 8 => Made(i, n) = <<"seated">>
    /\ i < n /\ ~(i = 2 /\ n > 8) => Made(i, n) = Plan[i].goals
<1> SUFFICES ASSUME NEW i \in 1..20, NEW n \in 0..21
             PROVE  /\ i >= n => Made(i, n) = <<>>
                    /\ i < n /\ i = 2 /\ n > 8 => Made(i, n) = <<"seated">>
                    /\ i < n /\ ~(i = 2 /\ n > 8) => Made(i, n) = Plan[i].goals
  OBVIOUS
<1>1. Plan[i].key = "T1" <=> i = 2
  BY PlanKeys, KeysDiffer
<1>2. (\E j \in 1..(n - 1) : Plan[j].key = "visit_T1") <=> n > 8
  <2>1. n > 8 => 8 \in 1..(n - 1) /\ Plan[8].key = "visit_T1"
    BY PlanKeys
  <2>2. ASSUME NEW j \in 1..(n - 1), Plan[j].key = "visit_T1" PROVE n > 8
    <3>1. j \in 1..20
      OBVIOUS
    <3>2. j = 8
      BY <2>2, <3>1, PlanKeys, KeysDiffer
    <3> QED
      BY <3>2
  <2> QED
    BY <2>1, <2>2
<1> QED
  BY <1>1, <1>2 DEF Made

LEMMA MadeTyped ==
  \A i \in 1..20, n \in 0..21 :
    /\ Made(i, n) \in Seq(RowStatus)
    /\ i < n <=> Made(i, n) # <<>>
    /\ i < n /\ i # 7 => Len(Made(i, n)) = 1
<1> SUFFICES ASSUME NEW i \in 1..20, NEW n \in 0..21
             PROVE  /\ Made(i, n) \in Seq(RowStatus)
                    /\ i < n <=> Made(i, n) # <<>>
                    /\ i < n /\ i # 7 => Len(Made(i, n)) = 1
  OBVIOUS
<1>1. Plan[i].goals \in Seq(RowStatus) /\ Plan[i].goals # <<>> /\ (i # 7 => Len(Plan[i].goals) = 1)
  BY PlanLines DEF PlanLine
<1>2. <<"seated">> \in Seq(RowStatus) /\ <<"seated">> # <<>> /\ Len(<<"seated">>) = 1
  BY StatusNames
<1>3. <<>> \in Seq(RowStatus)
  OBVIOUS
<1>4. CASE i >= n
  <2>1. Made(i, n) = <<>>
    BY <1>4, MadeOf
  <2> QED
    BY <1>3, <1>4, <2>1
<1>5. CASE i < n /\ i = 2 /\ n > 8
  <2>1. Made(i, n) = <<"seated">>
    BY <1>5, MadeOf
  <2> QED
    BY <1>2, <1>5, <2>1
<1>6. CASE i < n /\ ~(i = 2 /\ n > 8)
  <2>1. Made(i, n) = Plan[i].goals
    BY <1>6, MadeOf
  <2> QED
    BY <1>1, <1>6, <2>1
<1> QED
  BY <1>4, <1>5, <1>6

-----------------------------------------------------------------------------
LEMMA KeyFacts ==
  /\ OnceKeys \subseteq Key /\ "tenant" \in OnceKeys
  /\ "T1" \in Key /\ "sku" \in Key /\ "dish" \in Key
  /\ {"visit_T1", "visit_T2", "Nadia", "Karim", "order_T1", "burger", "payment_T1", "bookings"} \subseteq Key \ OnceKeys
  BY KeysNamed DEF KeyNames, OnceKeys

LEMMA NothingFacts ==
  /\ NoRows \in [Key -> Seq(RowStatus)] /\ \A k \in Key : NoRows[k] = <<>>
  /\ NoSeed \in [step: Nat, added: [Key -> Seq(RowStatus)]]
  /\ NoSeed.step = 0 /\ NoSeed.added = NoRows
<1>1. NoRows \in [Key -> Seq(RowStatus)] /\ \A k \in Key : NoRows[k] = <<>>
  BY DEF NoRows
<1> QED
  BY <1>1 DEF NoSeed

LEMMA SeedingStarts == SeedingInit => SeedingInv
<1> SUFFICES ASSUME SeedingInit PROVE SeedingInv
  OBVIOUS
<1>1. CatalogInv
  BY CatalogStarts DEF SeedingInit
<1>2. /\ rows = NoRows /\ requests = 0 /\ seed = [s \in Seeders |-> NoSeed]
      /\ onHand[SeededSku] = Unset /\ menu[SeededDish] = <<>>
  BY DEF SeedingInit, CatalogInit
<1>3. SeedingTypeOK /\ OneSeed
  BY <1>2, NothingFacts DEF SeedingTypeOK, OneSeed
<1>4. rows["tenant"] = <<>>
  BY <1>2, NothingFacts, KeyFacts
<1>5. \A i \in 1..20 : NoRows[Plan[i].key] = <<>> /\ Made(i, 0) = <<>>
  <2>1. \A i \in 1..20 : NoRows[Plan[i].key] = <<>>
    BY NothingFacts, PlanLines, SMTT(30)
  <2>2. \A i \in 1..20 : Made(i, 0) = <<>>
    BY MadeOf, SMTT(30)
  <2> QED
    BY <2>1, <2>2
<1>6. FirstSeed
  BY <1>2, <1>5, NothingFacts, PlanLines, SMTT(30) DEF FirstSeed
<1> QED
  BY <1>1, <1>3, <1>4, <1>6 DEF SeedingInv

(* Steps that leave rows and seeds alone.                                  *)
LEMMA CatalogWorks ==
  ASSUME SeedingInv, CatalogInv', UNCHANGED <<rows, seed>>,
         Works \/ (requests' = requests /\ menu' = menu),
         onHand[SeededSku] = Unset <=> onHand'[SeededSku] = Unset,
         menu[SeededDish] = <<>> <=> menu'[SeededDish] = <<>>
  PROVE  SeedingInv'
<1>1. requests \in 0..MaxRequests /\ requests' \in 0..MaxRequests
  BY DEF SeedingInv, SeedingTypeOK, Works
<1>2. SeedingTypeOK' /\ OneSeed'
  BY <1>1 DEF SeedingInv, SeedingTypeOK, OneSeed
<1>3. \A i, n : Made(i, n)' = Made(i, n)
  BY DEF Made
<1>4. CASE rows["tenant"] = <<>>
  <2>1. FirstSeed /\ requests' = requests
    BY <1>4 DEF SeedingInv, Works
  <2>2. FirstSeed'
    BY <2>1, <1>3 DEF FirstSeed
  <2> QED
    BY <1>2, <1>4, <2>2 DEF SeedingInv
<1>5. CASE rows["tenant"] # <<>>
  <2>1. LaterSeeds /\ (requests' = 0 => requests = 0 /\ menu' = menu)
    BY <1>1, <1>5 DEF SeedingInv, Works
  <2>2. LaterSeeds'
    BY <2>1, <1>3 DEF LaterSeeds
  <2> QED
    BY <1>2, <1>5, <2>2 DEF SeedingInv
<1> QED
  BY <1>4, <1>5

(* The restaurant only adds rows, and none of those that only a seed makes. *)
LEMMA RowsGrow ==
  ASSUME SeedingInv, Works, UNCHANGED <<catalogVars, seed>>,
         rows' \in [Key -> Seq(RowStatus)],
         \A k \in Key : Len(rows'[k]) >= Len(rows[k]),
         \A k \in OnceKeys : Len(rows'[k]) = Len(rows[k])
  PROVE  SeedingInv'
<1>1. /\ rows \in [Key -> Seq(RowStatus)] /\ requests \in 0..MaxRequests
      /\ requests' = requests + 1 /\ requests < MaxRequests /\ rows["tenant"] # <<>>
  BY DEF SeedingInv, SeedingTypeOK, Works
<1>2. CatalogInv' /\ onHand' = onHand /\ menu' = menu
  BY DEF SeedingInv, CatalogInv, CatalogTypeOK, StockMatchesTrail, Latest, catalogVars
<1>3. SeedingTypeOK' /\ OneSeed'
  BY <1>1 DEF SeedingInv, SeedingTypeOK, OneSeed
<1>4. LaterSeeds
  BY <1>1 DEF SeedingInv
<1>5. \A k \in Key : rows'[k] # <<>>
  <2> SUFFICES ASSUME NEW k \in Key PROVE rows'[k] # <<>>
    OBVIOUS
  <2>1. rows[k] \in Seq(RowStatus) /\ rows[k] # <<>> /\ rows'[k] \in Seq(RowStatus)
    BY <1>1, <1>4 DEF LaterSeeds
  <2>2. Len(rows[k]) # 0
    BY <2>1
  <2>3. Len(rows[k]) \in Nat /\ Len(rows'[k]) \in Nat
    BY <2>1
  <2>4. Len(rows'[k]) # 0
    BY <2>2, <2>3
  <2> QED
    BY <2>1, <2>4
<1>6. LaterSeeds'
  BY <1>1, <1>2, <1>4, <1>5 DEF LaterSeeds
<1>7. rows'["tenant"] # <<>>
  BY <1>5, KeyFacts
<1> QED
  BY <1>2, <1>3, <1>6, <1>7 DEF SeedingInv

LEMMA MovesKeep ==
  ASSUME SeedingInv, Moves
  PROVE  SeedingInv'
<1>1. rows \in [Key -> Seq(RowStatus)]
  BY DEF SeedingInv, SeedingTypeOK
<1>0. PICK i \in 1..Len(Plan) :
        \E n \in 1..Len(rows[Plan[i].key]) : \E e \in Plan[i].edges :
          rows' = [rows EXCEPT ![Plan[i].key][n] = e[2]]
  BY DEF Moves
<1>2. PICK n \in 1..Len(rows[Plan[i].key]), e \in Plan[i].edges :
        rows' = [rows EXCEPT ![Plan[i].key][n] = e[2]]
  BY <1>0
<1>3. Plan[i].key \in Key /\ Plan[i].edges \subseteq RowStatus \X RowStatus
  <2>1. Plan[i] \in PlanLine /\ Plan[i].key \in Key
    BY PlanLines
  <2> QED
    BY <2>1 DEF PlanLine
<1>4. e[2] \in RowStatus
  BY <1>3
<1> DEFINE k == Plan[i].key
           moved == [rows[k] EXCEPT ![n] = e[2]]
<1>5. rows' = [rows EXCEPT ![k] = moved]
  BY <1>2
<1>6. moved \in Seq(RowStatus) /\ Len(moved) = Len(rows[k])
  <2>1. rows[k] \in Seq(RowStatus) /\ n \in 1..Len(rows[k])
    BY <1>1, <1>3
  <2> QED
    BY <1>4, <2>1
<1> HIDE DEF moved
<1>7. /\ rows' \in [Key -> Seq(RowStatus)]
      /\ \A q \in Key : rows'[q] = IF q = k THEN moved ELSE rows[q]
  BY <1>1, <1>3, <1>5, <1>6
<1>8. \A q \in Key : Len(rows'[q]) = Len(rows[q]) /\ Len(rows[q]) \in Nat
  <2>1. \A q \in Key : Len(rows[q]) \in Nat
    BY <1>1
  <2> QED
    BY <1>6, <1>7, <2>1
<1>9. \A q \in Key : Len(rows'[q]) >= Len(rows[q])
  BY <1>8
<1>10. \A q \in OnceKeys : Len(rows'[q]) = Len(rows[q])
  BY <1>8, KeyFacts
<1> QED
  BY <1>7, <1>9, <1>10, RowsGrow DEF Moves

LEMMA AddsKeep ==
  ASSUME SeedingInv, NEW key \in Key \ OnceKeys, NEW status \in RowStatus, Adds(key, status)
  PROVE  SeedingInv'
<1>1. rows \in [Key -> Seq(RowStatus)]
  BY DEF SeedingInv, SeedingTypeOK
<1> DEFINE more == Append(rows[key], status)
<1>2. rows' = [rows EXCEPT ![key] = more]
  BY DEF Adds
<1>3. more \in Seq(RowStatus) /\ Len(more) = Len(rows[key]) + 1 /\ Len(rows[key]) \in Nat
  BY <1>1
<1> HIDE DEF more
<1>4. /\ rows' \in [Key -> Seq(RowStatus)]
      /\ \A q \in Key : rows'[q] = IF q = key THEN more ELSE rows[q]
  BY <1>1, <1>2, <1>3
<1>5. \A q \in Key : Len(rows[q]) \in Nat
  BY <1>1
<1>6. \A q \in Key : Len(rows'[q]) >= Len(rows[q])
  BY <1>3, <1>4, <1>5
<1>7. \A q \in OnceKeys : Len(rows'[q]) = Len(rows[q])
  BY <1>4, KeyFacts
<1> QED
  BY <1>4, <1>6, <1>7, RowsGrow DEF Adds

(* What a seed finds: nothing, or everything.                              *)
LEMMA WhatIsFound ==
  ASSUME SeedingInv
  PROVE  \A k \in Key : Rows(k) = <<>> <=> rows["tenant"] = <<>>
<1>1. menu[SeededDish] \in Seq(SUBSET Skus)
  BY DEF SeedingInv, CatalogInv, CatalogTypeOK
<1>2. Rows("sku") = <<>> <=> onHand[SeededSku] = Unset
  BY DEF Rows
<1>3. Rows("dish") = <<>> <=> menu[SeededDish] = <<>>
  <2>1. Rows("dish") = [i \in 1..Len(menu[SeededDish]) |-> "there"]
    BY DEF Rows
  <2>2. menu[SeededDish] = <<>> => Rows("dish") = <<>>
    BY <2>1
  <2>3. menu[SeededDish] # <<>> => 1 \in DOMAIN Rows("dish")
    BY <1>1, <2>1
  <2> QED
    BY <2>2, <2>3
<1>4. \A k \in Key : k # "sku" /\ k # "dish" => Rows(k) = rows[k]
  BY DEF Rows
<1>5. CASE rows["tenant"] = <<>>
  BY <1>2, <1>3, <1>4, <1>5, NothingFacts DEF SeedingInv, FirstSeed
<1>6. CASE rows["tenant"] # <<>>
  BY <1>2, <1>3, <1>4, <1>6 DEF SeedingInv, LaterSeeds
<1> QED
  BY <1>5, <1>6

(* A seed goes on, or back to nothing, and has committed nothing.          *)
LEMMA SeedGoesOn ==
  ASSUME SeedingInv, CatalogInv', UNCHANGED <<rows, requests, onHand, menu>>,
         NEW s \in Seeders, NEW x \in [step: Nat, added: [Key -> Seq(RowStatus)]],
         seed' = [seed EXCEPT ![s] = x],
         x = NoSeed \/ (x.step # 0 /\ \A r \in Seeders \ {s} : seed[r] = NoSeed),
         rows["tenant"] = <<>> =>
           x.step <= 21 /\ \A i \in 1..20 : x.added[Plan[i].key] = Made(i, x.step),
         rows["tenant"] # <<>> => x.added = NoRows
  PROVE  SeedingInv'
<1>1. seed \in [Seeders -> [step: Nat, added: [Key -> Seq(RowStatus)]]]
  BY DEF SeedingInv, SeedingTypeOK
<1>2. \A r \in Seeders : seed'[r] = IF r = s THEN x ELSE seed[r]
  BY <1>1
<1>3. SeedingTypeOK'
  BY <1>1 DEF SeedingInv, SeedingTypeOK
<1>4. OneSeed'
  <2>1. OneSeed
    BY DEF SeedingInv
  <2>2. CASE x = NoSeed
    <3>1. \A r \in Seeders : seed'[r] # NoSeed => seed'[r] = seed[r] /\ seed[r] # NoSeed
      BY <1>2, <2>2
    <3>2. \A r \in Seeders : seed'[r] = NoSeed \/ seed'[r] = seed[r]
      BY <1>2, <2>2
    <3> QED
      BY <2>1, <3>1, <3>2 DEF OneSeed
  <2>3. CASE x.step # 0 /\ \A r \in Seeders \ {s} : seed[r] = NoSeed
    <3>1. \A r \in Seeders : r # s => seed'[r] = NoSeed
      BY <1>2, <2>3
    <3>2. seed'[s].step # 0
      BY <1>2, <2>3
    <3> QED
      BY <3>1, <3>2 DEF OneSeed
  <2> QED
    BY <2>2, <2>3
<1>5. \A i, n : Made(i, n)' = Made(i, n)
  BY DEF Made
<1>6. CASE rows["tenant"] = <<>>
  <2>1. FirstSeed
    BY <1>6 DEF SeedingInv
  <2>2. ASSUME NEW r \in Seeders
        PROVE  /\ seed'[r].step <= Len(Plan) + 1
               /\ \A i \in 1..Len(Plan) : seed'[r].added[Plan[i].key] = Made(i, seed'[r].step)
    <3>1. CASE r = s
      <4>1. x.step <= 21 /\ \A i \in 1..20 : x.added[Plan[i].key] = Made(i, x.step)
        BY <1>6
      <4>2. seed'[r] = x
        BY <1>2, <3>1
      <4>3. Len(Plan) = 20
        BY PlanLines
      <4>4. x.step <= Len(Plan) + 1
        BY <4>1, <4>3
      <4>5. \A i \in 1..Len(Plan) : x.added[Plan[i].key] = Made(i, x.step)
        BY <4>1, <4>3
      <4> QED
        BY <4>2, <4>4, <4>5
    <3>2. CASE r # s
      <4>1. seed'[r] = seed[r]
        BY <1>2, <3>2
      <4> QED
        BY <2>1, <4>1 DEF FirstSeed
    <3> QED
      BY <3>1, <3>2
  <2>3. FirstSeed'
    BY <1>5, <2>1, <2>2 DEF FirstSeed
  <2> QED
    BY <1>3, <1>4, <1>6, <2>3 DEF SeedingInv
<1>7. CASE rows["tenant"] # <<>>
  <2>1. LaterSeeds
    BY <1>7 DEF SeedingInv
  <2>2. LaterSeeds'
    BY <1>2, <1>5, <1>7, <2>1 DEF LaterSeeds
  <2> QED
    BY <1>3, <1>4, <1>7, <2>2 DEF SeedingInv
<1> QED
  BY <1>6, <1>7

(* Rolled back, a seed is as if it had not been.                           *)
LEMMA NothingMade ==
  NoSeed.step <= 21 /\ \A i \in 1..20 : NoSeed.added[Plan[i].key] = Made(i, NoSeed.step)
<1>1. \A i \in 1..20 : NoRows[Plan[i].key] = <<>>
  BY NothingFacts, PlanLines, SMTT(30)
<1>2. \A i \in 1..20 : Made(i, 0) = <<>>
  BY MadeOf, SMTT(30)
<1> QED
  BY <1>1, <1>2, NothingFacts, SMTT(30)

LEMMA CatalogAlone == ASSUME CatalogInv, UNCHANGED catalogVars PROVE CatalogInv'
  BY DEF CatalogInv, CatalogTypeOK, StockMatchesTrail, Latest, catalogVars

LEMMA RollbackKeeps ==
  ASSUME SeedingInv, NEW s \in Seeders, seed' = [seed EXCEPT ![s] = NoSeed],
         UNCHANGED <<catalogVars, rows, seeds, requests>>
  PROVE  SeedingInv'
<1>1. CatalogInv' /\ UNCHANGED <<rows, requests, onHand, menu>>
  BY CatalogAlone DEF SeedingInv, catalogVars
<1> QED
  BY <1>1, NothingFacts, NothingMade, SeedGoesOn

LEMMA SeedBeginKeeps ==
  ASSUME SeedingInv, NEW s \in Seeders, SeedBegin(s)
  PROVE  SeedingInv'
<1> DEFINE x == [step |-> 1, added |-> NoRows]
<1>1. CatalogInv' /\ UNCHANGED <<rows, requests, onHand, menu>>
  BY CatalogAlone DEF SeedingInv, SeedBegin, catalogVars
<1>2. /\ seed \in [Seeders -> [step: Nat, added: [Key -> Seq(RowStatus)]]]
      /\ seed[s] = NoSeed /\ \A r \in Seeders : seed[r] = NoSeed
  BY DEF SeedingInv, SeedingTypeOK, SeedBegin, LockFree
<1>3. seed' = [seed EXCEPT ![s] = x]
  <2>1. [NoSeed EXCEPT !.step = 1] = x
    BY DEF NoSeed
  <2>2. seed' = [seed EXCEPT ![s] = [seed[s] EXCEPT !.step = 1]]
    BY DEF SeedBegin
  <2> QED
    BY <1>2, <2>1, <2>2
<1>4. /\ x \in [step: Nat, added: [Key -> Seq(RowStatus)]] /\ x.step = 1 /\ x.added = NoRows
      /\ x.step # 0 /\ x.step <= 21
  BY NothingFacts
<1> HIDE DEF x
<1>5. \A i \in 1..20 : x.added[Plan[i].key] = Made(i, x.step)
  <2>1. \A i \in 1..20 : NoRows[Plan[i].key] = <<>>
    BY NothingFacts, PlanLines, SMTT(30)
  <2>2. \A i \in 1..20 : Made(i, 1) = <<>>
    BY MadeOf, SMTT(30)
  <2> QED
    BY <1>4, <2>1, <2>2
<1> QED
  BY <1>1, <1>2, <1>3, <1>4, <1>5, SeedGoesOn

(* The seed that is at work is the only one.                               *)
LEMMA OnlySeed ==
  ASSUME SeedingInv, NEW s \in Seeders, seed[s].step # 0
  PROVE  \A r \in Seeders \ {s} : seed[r] = NoSeed
  BY NothingFacts DEF SeedingInv, OneSeed

LEMMA SeedFindsKeeps ==
  ASSUME SeedingInv, NEW s \in Seeders, SeedFinds(s)
  PROVE  SeedingInv'
<1> DEFINE i == seed[s].step
           x == [step |-> seed[s].step + Plan[i].next, added |-> seed[s].added]
<1>1. CatalogInv' /\ UNCHANGED <<rows, requests, onHand, menu>>
  BY CatalogAlone DEF SeedingInv, SeedFinds, catalogVars
<1>2. /\ seed \in [Seeders -> [step: Nat, added: [Key -> Seq(RowStatus)]]]
      /\ seed[s] \in [step: Nat, added: [Key -> Seq(RowStatus)]]
  BY DEF SeedingInv, SeedingTypeOK
<1>3. i \in 1..20 /\ Rows(Plan[i].key) # <<>>
  BY PlanLines DEF SeedFinds, Working, Found
<1>4. Plan[i].next \in Nat /\ Plan[i].key \in Key
  BY <1>3, PlanLines DEF PlanLine
<1>5. seed' = [seed EXCEPT ![s] = x]
  <2>1. seed' = [seed EXCEPT ![s] = [seed[s] EXCEPT !.step = i + Plan[i].next]]
    BY <1>2 DEF SeedFinds
  <2>2. [seed[s] EXCEPT !.step = i + Plan[i].next] = x
    BY <1>2
  <2> QED
    BY <2>1, <2>2
<1>6. x \in [step: Nat, added: [Key -> Seq(RowStatus)]] /\ x.step # 0 /\ x.added = seed[s].added
  <2> DEFINE more == Plan[i].next
  <2>1. i \in 1..20 /\ more \in Nat
    BY <1>3, <1>4
  <2>2. x = [step |-> i + more, added |-> seed[s].added]
    OBVIOUS
  <2> HIDE DEF i, more, x
  <2>3. i + more \in Nat /\ i + more # 0
    BY <2>1
  <2> QED
    BY <1>2, <2>2, <2>3
<1>7. rows["tenant"] # <<>>
  BY <1>3, <1>4, WhatIsFound
<1>8. seed[s].added = NoRows
  BY <1>7 DEF SeedingInv, LaterSeeds
<1>9. \A r \in Seeders \ {s} : seed[r] = NoSeed
  BY <1>3, OnlySeed, SMTT(30)
<1> HIDE DEF x
<1> QED
  BY <1>1, <1>5, <1>6, <1>7, <1>8, <1>9, SeedGoesOn

(* What is inserted is the next line of the plan, and T1 is taken when its *)
(* party comes.                                                            *)
LEMMA InsertedIsMade ==
  ASSUME SeedingTypeOK, FirstSeed, NEW s \in Seeders, NEW n \in 1..20, seed[s].step = n
  PROVE  LET after == Occupied([seed[s].added EXCEPT ![Plan[n].key] = Walked(Plan[n])], Plan[n].key)
         IN  /\ after \in [Key -> Seq(RowStatus)]
             /\ \A i \in 1..20 : after[Plan[i].key] = Made(i, n + 1)
<1> DEFINE old == seed[s].added
           put == [old EXCEPT ![Plan[n].key] = Plan[n].goals]
           after == Occupied(put, Plan[n].key)
<1>1. old \in [Key -> Seq(RowStatus)] /\ \A i \in 1..20 : old[Plan[i].key] = Made(i, n)
  BY PlanLines DEF SeedingTypeOK, FirstSeed
<1>2. Walked(Plan[n]) = Plan[n].goals /\ Plan[n].key \in Key /\ Plan[n].goals \in Seq(RowStatus)
  BY PlanIsLegal, PlanLines DEF PlanLine
<1>0. after = Occupied([seed[s].added EXCEPT ![Plan[n].key] = Walked(Plan[n])], Plan[n].key)
  BY <1>2
<1> HIDE DEF old
<1>3. put \in [Key -> Seq(RowStatus)] /\ \A k \in Key : put[k] = IF k = Plan[n].key THEN Plan[n].goals ELSE old[k]
  BY <1>1, <1>2
<1> HIDE DEF put
<1>4. \A i \in 1..20 : Plan[i].key \in Key /\ (Plan[i].key = Plan[n].key <=> i = n)
  BY PlanLines, KeysDiffer
<1>5. \A i \in 1..20 : i # n => put[Plan[i].key] = Made(i, n)
  BY <1>1, <1>3, <1>4
<1>6. put[Plan[n].key] = Plan[n].goals
  BY <1>2, <1>3
<1>7. CASE n # 8
  <2>1. Plan[n].key # "visit_T1"
    BY <1>7, PlanKeys, KeysDiffer
  <2>2. after = put
    BY <2>1 DEF Occupied
  <2>3. \A i \in 1..20 : i # n => Made(i, n + 1) = Made(i, n)
    <3> SUFFICES ASSUME NEW i \in 1..20, i # n PROVE Made(i, n + 1) = Made(i, n)
      OBVIOUS
    <3>1. n \in 0..21 /\ n + 1 \in 0..21
      OBVIOUS
    <3>2. CASE i > n
      <4>0. i >= n
        BY <3>2
      <4>1. Made(i, n) = <<>>
        BY <3>1, <4>0, MadeOf
      <4>2. i >= n + 1
        BY <3>2
      <4>3. Made(i, n + 1) = <<>>
        BY <3>1, <4>2, MadeOf
      <4> QED
        BY <4>1, <4>3
    <3>3. CASE i < n /\ i = 2 /\ n > 8
      <4>1. Made(i, n) = <<"seated">>
        BY <3>1, <3>3, MadeOf
      <4>2. i < n + 1 /\ n + 1 > 8
        BY <3>3
      <4>3. Made(i, n + 1) = <<"seated">>
        BY <3>1, <3>3, <4>2, MadeOf
      <4> QED
        BY <4>1, <4>3
    <3>4. CASE i < n /\ ~(i = 2 /\ n > 8)
      <4>1. i < n + 1 /\ ~(i = 2 /\ n + 1 > 8)
        BY <1>7, <3>4
      <4>2. Made(i, n) = Plan[i].goals
        BY <3>1, <3>4, MadeOf
      <4>3. Made(i, n + 1) = Plan[i].goals
        BY <3>1, <4>1, MadeOf
      <4> QED
        BY <4>2, <4>3
    <3> QED
      BY <3>2, <3>3, <3>4
  <2>4. Made(n, n + 1) = Plan[n].goals
    <3>1. n + 1 \in 0..21 /\ n < n + 1 /\ ~(n = 2 /\ n + 1 > 8)
      OBVIOUS
    <3> QED
      BY <3>1, MadeOf
  <2>5. \A i \in 1..20 : put[Plan[i].key] = Made(i, n + 1)
    BY <1>5, <1>6, <2>3, <2>4
  <2> QED
    BY <1>0, <1>3, <2>2, <2>5
<1>8. CASE n = 8
  <2>1. Plan[n].key = "visit_T1" /\ Plan[2].key = "T1"
    BY <1>8, PlanKeys
  <2>2. put["T1"] = <<"available">>
    <3>1. Plan[2].goals = <<"available">>
      BY PlanAt, TenantLines
    <3>2. Made(2, 8) = Plan[2].goals
      BY MadeOf, SMTT(30)
    <3> QED
      BY <1>5, <1>8, <2>1, <3>1, <3>2
  <2>3. Advanced(TableEdges, <<>>, "available", "seated") = "seated"
    <3>1. <<"available", "seated">> \in TableEdges
      BY DEF TableEdges
    <3>2. \A i \in 1..Len(<<>>) : <<>>[i] # "seated"
      OBVIOUS
    <3> QED
      BY <3>1, <3>2, OffTheSpine
  <2>4. after = [put EXCEPT !["T1"] = <<"seated">>]
    <3>1. <<"available">>[1] = "available" /\ <<"available">> # <<>>
      OBVIOUS
    <3> QED
      BY <2>1, <2>2, <2>3, <3>1 DEF Occupied
  <2> HIDE DEF after
  <2>5. /\ after \in [Key -> Seq(RowStatus)]
        /\ \A k \in Key : after[k] = IF k = "T1" THEN <<"seated">> ELSE put[k]
    <3>1. <<"seated">> \in Seq(RowStatus)
      BY StatusNames
    <3> QED
      BY <1>3, <2>4, <3>1
  <2>6. \A i \in 1..20 : Plan[i].key = "T1" <=> i = 2
    BY <2>1, KeysDiffer
  <2>7. \A i \in 1..20 : i # 8 /\ i # 2 => Made(i, 9) = Made(i, 8)
    BY MadeOf, SMTT(30)
  <2>8. Made(8, 9) = Plan[8].goals
    BY MadeOf, SMTT(30)
  <2>9. Made(2, 9) = <<"seated">>
    BY MadeOf, SMTT(30)
  <2>10. after[Plan[2].key] = Made(2, 9)
    BY <2>1, <2>5, <2>9, KeyFacts
  <2>11. \A i \in 1..20 : i # 2 => after[Plan[i].key] = put[Plan[i].key]
    BY <1>4, <2>5, <2>6
  <2>12. \A i \in 1..20 : after[Plan[i].key] = Made(i, 9)
    BY <1>5, <1>6, <1>8, <2>7, <2>8, <2>10, <2>11
  <2>13. 9 = n + 1
    BY <1>8
  <2>14. \A i \in 1..20 : after[Plan[i].key] = Made(i, n + 1)
    BY <2>12, <2>13
  <2>15. after \in [Key -> Seq(RowStatus)]
    BY <2>5
  <2> QED
    BY <1>0, <2>14, <2>15
<1> QED
  BY <1>7, <1>8

(* An insertion only draws ids of the catalog.                             *)
LEMMA InsertSeeds ==
  ASSUME SeedingInv, NEW s \in Seeders, SeedInserts(s)
  PROVE  Seeded /\ CatalogInv'
<1>1. onHand \in [Skus -> Nat \cup {Unset}] /\ menu \in [Dishes -> Seq(SUBSET Skus)] /\ nextId \in Nat
  BY DEF SeedingInv, CatalogInv, CatalogTypeOK
<1>2. nextId' = nextId + 3 \/ nextId' = nextId
  BY DEF SeedInserts
<1>3. nextId' \in Nat /\ nextId' >= nextId
  BY <1>1, <1>2
<1>4. UNCHANGED <<onHand, menu, trail, clerk>>
  BY DEF SeedInserts
<1>5. Seeded
  BY <1>1, <1>3, <1>4 DEF Seeded
<1>6. CatalogInv
  BY DEF SeedingInv
<1> QED
  BY <1>5, <1>6, SeedKeeps

(* Only the first seed inserts.                                            *)
LEMMA SeedInsertsKeeps ==
  ASSUME SeedingInv, NEW s \in Seeders, SeedInserts(s)
  PROVE  SeedingInv'
<1> DEFINE n == seed[s].step
           after == Occupied([seed[s].added EXCEPT ![Plan[n].key] = Walked(Plan[n])], Plan[n].key)
           x == [step |-> n + 1, added |-> after]
<1>1. CatalogInv' /\ UNCHANGED <<rows, requests, onHand, menu>>
  BY InsertSeeds DEF SeedInserts
<1>2. n \in 1..20 /\ Rows(Plan[n].key) = <<>>
  BY PlanLines DEF SeedInserts, Working, Found
<1>3. Plan[n].key \in Key
  BY <1>2, PlanLines
<1>4. rows["tenant"] = <<>>
  BY <1>2, <1>3, WhatIsFound
<1>5. FirstSeed /\ SeedingTypeOK
  BY <1>4 DEF SeedingInv
<1>6. seed' = [seed EXCEPT ![s] = x]
  BY DEF SeedInserts
<1>7. after \in [Key -> Seq(RowStatus)] /\ \A i \in 1..20 : after[Plan[i].key] = Made(i, n + 1)
  BY <1>2, <1>5, InsertedIsMade
<1>8. \A r \in Seeders \ {s} : seed[r] = NoSeed
  <2>1. seed[s].step # 0
    BY <1>2, SMTT(30)
  <2> QED
    BY <2>1, OnlySeed
<1> HIDE DEF n, after
<1>9. n + 1 \in Nat /\ n + 1 # 0 /\ n + 1 <= 21
  BY <1>2
<1>10. x.step = n + 1 /\ x.added = after /\ x \in [step: Nat, added: [Key -> Seq(RowStatus)]]
  BY <1>7, <1>9
<1> HIDE DEF x
<1>11. x.step # 0 /\ x.step <= 21
  BY <1>9, <1>10
<1>12. \A i \in 1..20 : x.added[Plan[i].key] = Made(i, x.step)
  BY <1>7, <1>10
<1> QED
  BY <1>1, <1>4, <1>6, <1>8, <1>10, <1>11, <1>12, SeedGoesOn

(* A later seed commits nothing.                                           *)
LEMMA LaterCommits ==
  ASSUME SeedingInv, NEW s \in Seeders, SeedCommits(s), rows["tenant"] # <<>>
  PROVE  UNCHANGED <<rows, onHand, menu>>
<1>1. LaterSeeds /\ SeedingTypeOK /\ CatalogTypeOK
  BY DEF SeedingInv, CatalogInv
<1>2. seed[s].added = NoRows
  BY <1>1 DEF LaterSeeds
<1>3. rows' = [k \in Key |-> rows[k] \o seed[s].added[k]]
  BY DEF SeedCommits
<1>4. rows \in [Key -> Seq(RowStatus)]
  BY <1>1 DEF SeedingTypeOK
<1>5. \A k \in Key : rows[k] \o seed[s].added[k] = rows[k]
  <2> SUFFICES ASSUME NEW k \in Key PROVE rows[k] \o seed[s].added[k] = rows[k]
    OBVIOUS
  <2>1. rows[k] \in Seq(RowStatus) /\ seed[s].added[k] = <<>>
    BY <1>2, <1>4, NothingFacts
  <2> QED
    BY <2>1, ConcatEmptySeq
<1>6. rows' = rows
  BY <1>3, <1>4, <1>5
<1>7. seed[s].added["sku"] = <<>> /\ seed[s].added["dish"] = <<>>
  BY <1>2, NothingFacts, KeyFacts
<1>8. onHand' = onHand
  BY <1>1, <1>7 DEF SeedCommits, Quantity, CatalogTypeOK
<1>9. menu' = menu
  BY <1>1, <1>7 DEF SeedCommits, CatalogTypeOK
<1> QED
  BY <1>6, <1>8, <1>9

LEMMA LaterCommitsKeep ==
  ASSUME SeedingInv, NEW s \in Seeders, SeedCommits(s), rows["tenant"] # <<>>
  PROVE  SeedingInv'
<1>1. UNCHANGED catalogVars /\ rows' = rows
  BY LaterCommits DEF SeedCommits, catalogVars
<1>2. /\ seed' = [seed EXCEPT ![s] = NoSeed]
      /\ UNCHANGED <<seeds, requests>>
  BY DEF SeedCommits
<1> QED
  BY <1>1, <1>2, RollbackKeeps

(* Every key is the key of one line.                                       *)
LEMMA EveryKeyHasALine ==
  \A k \in Key : \E i \in 1..20 : Plan[i].key = k /\ (k \in OnceKeys => i # 7)
<1>1. \A k \in Key : \E i \in 1..20 : Plan[i].key = k
  BY PlanLines DEF Key
<1>2. Plan[7].key \notin OnceKeys
  BY PlanKeys, KeyFacts
<1> QED
  BY <1>1, <1>2

(* The first seed to commit leaves a row for every line of the plan.       *)
LEMMA FirstCommitMakes ==
  ASSUME SeedingInv, NEW s \in Seeders, SeedCommits(s), rows["tenant"] = <<>>
  PROVE  /\ rows' = seed[s].added
         /\ \A i \in 1..20 : rows'[Plan[i].key] = Made(i, 21)
         /\ onHand' = [onHand EXCEPT ![SeededSku] = SeededQuantity]
         /\ menu' = [menu EXCEPT ![SeededDish] = <<{SeededSku}>>]
<1>1. FirstSeed /\ SeedingTypeOK /\ CatalogTypeOK
  BY DEF SeedingInv, CatalogInv
<1>2. seed[s].added \in [Key -> Seq(RowStatus)] /\ seed[s].step \in Nat
  BY <1>1 DEF SeedingTypeOK
<1>3. seed[s].step = 21
  <2>1. Len(Plan) = 20
    BY PlanLines
  <2>2. seed[s].step > Len(Plan) /\ seed[s].step <= Len(Plan) + 1
    BY <1>1 DEF SeedCommits, FirstSeed
  <2> QED
    BY <1>2, <2>1, <2>2
<1>4. \A i \in 1..20 : seed[s].added[Plan[i].key] = Made(i, 21)
  <2>1. \A i \in 1..Len(Plan) : seed[s].added[Plan[i].key] = Made(i, seed[s].step)
    BY <1>1 DEF FirstSeed
  <2>2. Len(Plan) = 20
    BY PlanLines
  <2> QED
    BY <1>3, <2>1, <2>2
<1>5. \A k \in Key : rows[k] \o seed[s].added[k] = seed[s].added[k]
  <2> SUFFICES ASSUME NEW k \in Key PROVE rows[k] \o seed[s].added[k] = seed[s].added[k]
    OBVIOUS
  <2>1. seed[s].added[k] \in Seq(RowStatus) /\ rows[k] = <<>>
    BY <1>1, <1>2, NothingFacts DEF FirstSeed
  <2> QED
    BY <2>1, ConcatEmptySeq
<1>6. rows' = seed[s].added
  BY <1>2, <1>5 DEF SeedCommits
<1>7. seed[s].added["sku"] # <<>> /\ seed[s].added["dish"] # <<>>
  <2>1. Made(5, 21) # <<>> /\ Made(6, 21) # <<>>
    BY MadeTyped
  <2>2. Plan[5].key = "sku" /\ Plan[6].key = "dish"
    BY PlanKeys
  <2>3. seed[s].added[Plan[5].key] = Made(5, 21) /\ seed[s].added[Plan[6].key] = Made(6, 21)
    BY <1>4
  <2> QED
    BY <2>1, <2>2, <2>3
<1>8. Append(menu[SeededDish], {SeededSku}) = <<{SeededSku}>>
  BY <1>1 DEF FirstSeed
<1>9. onHand' = [onHand EXCEPT ![SeededSku] = SeededQuantity]
  BY <1>7 DEF SeedCommits, Quantity
<1>10. menu' = [menu EXCEPT ![SeededDish] = <<{SeededSku}>>]
  BY <1>7, <1>8 DEF SeedCommits
<1> QED
  BY <1>4, <1>6, <1>9, <1>10

LEMMA FirstCommitSeeds ==
  ASSUME SeedingInv, NEW s \in Seeders, SeedCommits(s), rows["tenant"] = <<>>
  PROVE  /\ Seeded /\ CatalogInv'
         /\ onHand'[SeededSku] # Unset
         /\ menu'[SeededDish] # <<>> /\ Len(menu'[SeededDish]) = 1
<1>1. FirstSeed /\ CatalogInv
  BY DEF SeedingInv
<1>2. onHand \in [Skus -> Nat \cup {Unset}] /\ menu \in [Dishes -> Seq(SUBSET Skus)] /\ nextId \in Nat
  BY <1>1 DEF CatalogInv, CatalogTypeOK
<1>3. /\ onHand' = [onHand EXCEPT ![SeededSku] = SeededQuantity]
      /\ menu' = [menu EXCEPT ![SeededDish] = <<{SeededSku}>>]
  BY FirstCommitMakes
<1>4. onHand[SeededSku] = Unset /\ menu[SeededDish] = <<>>
  BY <1>1 DEF FirstSeed
<1>5. <<{SeededSku}>> \in Seq(SUBSET Skus) /\ <<{SeededSku}>> # <<>> /\ Len(<<{SeededSku}>>) = 1
  OBVIOUS
<1>6. /\ onHand' \in [Skus -> Nat \cup {Unset}]
      /\ \A k \in Skus : onHand[k] # Unset => onHand'[k] = onHand[k]
      /\ onHand'[SeededSku] # Unset
  BY <1>2, <1>3, <1>4
<1> DEFINE dish == <<{SeededSku}>>
<1> HIDE DEF dish
<1>7. menu' = [menu EXCEPT ![SeededDish] = dish] /\ dish \in Seq(SUBSET Skus) /\ dish # <<>> /\ Len(dish) = 1
  BY <1>3, <1>5 DEF dish
<1>8. /\ menu' \in [Dishes -> Seq(SUBSET Skus)]
      /\ \A d \in Dishes : menu[d] # <<>> => menu'[d] = menu[d]
      /\ menu'[SeededDish] # <<>> /\ Len(menu'[SeededDish]) = 1
  BY <1>2, <1>4, <1>7
<1>9. UNCHANGED <<trail, clerk, nextId>>
  BY DEF SeedCommits
<1>10. nextId' \in Nat /\ nextId' >= nextId
  BY <1>2, <1>9
<1>11. Seeded
  BY <1>6, <1>8, <1>9, <1>10 DEF Seeded
<1> QED
  BY <1>1, <1>6, <1>8, <1>11, SeedKeeps

LEMMA FirstCommitKeeps ==
  ASSUME SeedingInv, NEW s \in Seeders, SeedCommits(s), rows["tenant"] = <<>>
  PROVE  SeedingInv'
<1>1. SeedingTypeOK /\ OneSeed
  BY DEF SeedingInv
<1>2. /\ seed \in [Seeders -> [step: Nat, added: [Key -> Seq(RowStatus)]]]
      /\ requests \in 0..MaxRequests
  BY <1>1 DEF SeedingTypeOK
<1>3. seed' = [seed EXCEPT ![s] = NoSeed] /\ requests' = requests
  BY DEF SeedCommits
<1>4. \A r \in Seeders : seed'[r] = NoSeed
  <2>1. seed[s].step # 0
    <3>1. Len(Plan) = 20 /\ seed[s].step > Len(Plan)
      BY PlanLines DEF SeedCommits
    <3> QED
      BY <3>1
  <2>2. \A r \in Seeders \ {s} : seed[r] = NoSeed
    BY <2>1, OnlySeed
  <2> QED
    BY <1>2, <1>3, <2>2
<1>5. rows' \in [Key -> Seq(RowStatus)] /\ \A i \in 1..20 : rows'[Plan[i].key] = Made(i, 21)
  BY <1>2, FirstCommitMakes
<1>6. SeedingTypeOK' /\ OneSeed'
  BY <1>2, <1>3, <1>4, <1>5, NothingFacts DEF SeedingTypeOK, OneSeed
<1>7. \A i \in 1..20 : Made(i, 21) # <<>> /\ (i # 7 => Len(Made(i, 21)) = 1)
  <2> DEFINE n == 21
  <2>1. n \in 0..21 /\ \A i \in 1..20 : i < n
    OBVIOUS
  <2> HIDE DEF n
  <2>2. \A i \in 1..20 : Made(i, n) # <<>> /\ (i # 7 => Len(Made(i, n)) = 1)
    BY <2>1, MadeTyped
  <2> QED
    BY <2>2 DEF n
<1>8. \A k \in Key : rows'[k] # <<>> /\ (k \in OnceKeys => Len(rows'[k]) = 1)
  <2> SUFFICES ASSUME NEW k \in Key PROVE rows'[k] # <<>> /\ (k \in OnceKeys => Len(rows'[k]) = 1)
    OBVIOUS
  <2>1. PICK i \in 1..20 : Plan[i].key = k /\ (k \in OnceKeys => i # 7)
    BY EveryKeyHasALine
  <2>2. rows'[k] = Made(i, 21)
    BY <1>5, <2>1
  <2> QED
    BY <1>7, <2>1, <2>2
<1>9. \A i, n : Made(i, n)' = Made(i, n)
  BY DEF Made
<1>10. \A i \in 1..Len(Plan) : rows'[Plan[i].key] = Made(i, Len(Plan) + 1)
  <2>1. Len(Plan) = 20 /\ Len(Plan) + 1 = 21
    BY PlanLines
  <2> QED
    BY <1>5, <2>1
<1>11. LaterSeeds'
  BY <1>4, <1>8, <1>9, <1>10, FirstCommitSeeds, NothingFacts, KeyFacts DEF LaterSeeds
<1>12. rows'["tenant"] # <<>>
  BY <1>8, KeyFacts
<1> QED
  BY <1>6, <1>11, <1>12, FirstCommitSeeds DEF SeedingInv

(* The catalog at work takes no SKU away and no dish.                      *)
LEMMA RequestsKeep ==
  ASSUME SeedingInv, AsksCatalog \/ AnswersCatalog
  PROVE  SeedingInv'
<1>0. UNCHANGED <<rows, seed>> /\ (requests' = requests \/ Works)
  BY DEF AsksCatalog, AnswersCatalog
<1>1. CatalogInv /\ CatalogTypeOK
  BY DEF SeedingInv, CatalogInv
<1>2. onHand \in [Skus -> Nat \cup {Unset}] /\ menu \in [Dishes -> Seq(SUBSET Skus)]
  BY <1>1 DEF CatalogTypeOK
<1>3. ASSUME NEW c \in Clerks, NEW k \in Skus, NEW amount \in Amounts, AdjustBegin(c, k, amount)
      PROVE  SeedingInv'
  <2>1. CatalogInv' /\ onHand' = onHand /\ menu' = menu
    BY <1>1, <1>3, BeginKeeps DEF AdjustBegin
  <2> QED
    BY <2>1, <1>0, CatalogWorks
<1>4. ASSUME NEW c \in Clerks, AdjustRecord(c) PROVE SeedingInv'
  <2>1. CatalogInv' /\ onHand' = onHand /\ menu' = menu
    BY <1>1, <1>4, RecordKeeps DEF AdjustRecord
  <2> QED
    BY <2>1, <1>0, CatalogWorks
<1>5. ASSUME NEW c \in Clerks, AdjustCommit(c) PROVE SeedingInv'
  <2>1. CatalogInv'
    BY <1>1, <1>5, CommitKeeps
  <2>2. menu' = menu /\ onHand' = [onHand EXCEPT ![clerk[c].sku] = Stored(clerk[c].amount)]
    BY <1>5 DEF AdjustCommit
  <2>3. clerk[c].at = "written" /\ clerk[c] \in Work
    BY <1>1, <1>5 DEF AdjustCommit, CatalogTypeOK
  <2>4. clerk[c].amount \in Nat
    BY <2>3 DEF Work, NoWork
  <2>5. Stored(clerk[c].amount) # Unset
    BY <2>4, StoredNat
  <2>6. onHand[clerk[c].sku] # Unset
    BY <1>1, <2>3 DEF CatalogInv
  <2>7. onHand[SeededSku] = Unset <=> onHand'[SeededSku] = Unset
    BY <1>2, <2>2, <2>5, <2>6
  <2> QED
    BY <2>1, <2>2, <2>7, <1>0, CatalogWorks
<1>6. ASSUME NEW c \in Clerks, AdjustAbort(c) PROVE SeedingInv'
  <2>1. CatalogInv' /\ onHand' = onHand /\ menu' = menu
    BY <1>1, <1>6, AbortKeeps DEF AdjustAbort
  <2> QED
    BY <2>1, <1>0, CatalogWorks
<1>7. ASSUME NEW d \in Dishes, NEW recipe \in SUBSET Skus, NEW amount \in Amounts,
             CreateMenuItem(d, recipe, amount), Works
      PROVE  SeedingInv'
  <2>1. CatalogInv'
    BY <1>1, <1>7, CreateKeeps
  <2>2. onHand' = onHand /\ menu' = [menu EXCEPT ![d] = Append(menu[d], recipe)]
    BY <1>7 DEF CreateMenuItem
  <2>3. menu[SeededDish] # <<>>
    BY <1>7 DEF SeedingInv, LaterSeeds, Works
  <2>4. menu[d] \in Seq(SUBSET Skus)
    BY <1>2
  <2>5. Append(menu[d], recipe) # <<>>
    BY <2>4
  <2>6. menu'[SeededDish] # <<>>
    BY <1>2, <2>2, <2>3, <2>5
  <2> QED
    BY <1>7, <2>1, <2>2, <2>3, <2>6, <1>0, CatalogWorks
<1> QED
  BY <1>3, <1>4, <1>5, <1>6, <1>7 DEF AsksCatalog, AnswersCatalog

(* The restaurant adds rows of the keys the seed does not keep to itself.  *)
LEMMA ServiceKeeps ==
  ASSUME SeedingInv,
         \/ \E key \in {"visit_T1", "visit_T2"} : OpensVisit(key)
         \/ GuestJoins \/ PlacesOrder \/ OrdersAgain \/ PaysAgain \/ BooksTable
  PROVE  SeedingInv'
<1>1. PICK key \in {"visit_T1", "visit_T2", "Nadia", "Karim", "order_T1", "burger", "payment_T1",
                      "bookings"},
           status \in {"open", "joined", "draft", "queued", "unpaid", "requested"} : Adds(key, status)
  <2>1. ASSUME NEW key \in {"visit_T1", "visit_T2"}, OpensVisit(key) PROVE Adds(key, "open")
    BY <2>1 DEF OpensVisit
  <2>2. GuestJoins => Adds("Nadia", "joined") \/ Adds("Karim", "joined")
    BY DEF GuestJoins
  <2>3. PlacesOrder => Adds("order_T1", "draft")
    BY DEF PlacesOrder
  <2>4. OrdersAgain => Adds("burger", "queued")
    BY DEF OrdersAgain
  <2>5. PaysAgain => Adds("payment_T1", "unpaid")
    BY DEF PaysAgain
  <2>6. BooksTable => Adds("bookings", "requested")
    BY DEF BooksTable
  <2> QED
    BY <2>1, <2>2, <2>3, <2>4, <2>5, <2>6
<1>2. key \in Key \ OnceKeys /\ status \in RowStatus
  BY KeyFacts, StatusNames
<1> QED
  BY <1>1, <1>2, AddsKeep

LEMMA SeedingKeeps == SeedingInv /\ [SeedingNext]_seedingVars => SeedingInv'
<1> SUFFICES ASSUME SeedingInv, [SeedingNext]_seedingVars PROVE SeedingInv'
  OBVIOUS
<1>1. ASSUME NEW s \in Seeders, SeedBegin(s) PROVE SeedingInv'
  BY <1>1, SeedBeginKeeps
<1>2. ASSUME NEW s \in Seeders, SeedFinds(s) PROVE SeedingInv'
  BY <1>2, SeedFindsKeeps
<1>3. ASSUME NEW s \in Seeders, SeedInserts(s) PROVE SeedingInv'
  BY <1>3, SeedInsertsKeeps
<1>4. ASSUME NEW s \in Seeders, SeedFails(s) PROVE SeedingInv'
  BY <1>4, RollbackKeeps DEF SeedFails
<1>5. ASSUME NEW s \in Seeders, SeedCommits(s) PROVE SeedingInv'
  BY <1>5, FirstCommitKeeps, LaterCommitsKeep
<1>6. ASSUME NEW s \in Seeders, SeedDies(s) PROVE SeedingInv'
  BY <1>6, RollbackKeeps DEF SeedDies
<1>7. CASE Moves
  BY <1>7, MovesKeep
<1>8. CASE \/ \E key \in {"visit_T1", "visit_T2"} : OpensVisit(key)
           \/ GuestJoins \/ PlacesOrder \/ OrdersAgain \/ PaysAgain \/ BooksTable
  BY <1>8, ServiceKeeps
<1>9. CASE AsksCatalog \/ AnswersCatalog
  BY <1>9, RequestsKeep
<1>10. CASE UNCHANGED seedingVars
  <2>1. UNCHANGED <<rows, seed, requests>> /\ UNCHANGED catalogVars
    BY <1>10 DEF seedingVars
  <2>2. CatalogInv' /\ onHand' = onHand /\ menu' = menu
    BY <2>1, CatalogAlone DEF SeedingInv, catalogVars
  <2> QED
    BY <2>1, <2>2, CatalogWorks
<1> QED
  BY <1>1, <1>2, <1>3, <1>4, <1>5, <1>6, <1>7, <1>8, <1>9, <1>10 DEF SeedingNext

-----------------------------------------------------------------------------
(* Whatever the number of seeders, requests and statuses, the first seed   *)
(* makes everything and the later ones find everything: the advisory lock  *)
(* of seed_all keeps two from going through the plan at the same time.     *)
THEOREM SeedingInvariant == SeedingSpec => []SeedingInv
<1> QED
  BY SeedingStarts, SeedingKeeps, PTL DEF SeedingSpec

(* No row that only a seed makes is ever made twice, nor in the making     *)
(* when it is there: _upsert under the lock.                               *)
THEOREM SeedsAreIdempotent == SeedingSpec => []SeedsAddOnce
<1>1. SeedingInv => SeedsAddOnce
  <2> SUFFICES ASSUME SeedingInv, NEW k \in OnceKeys
               PROVE  Len(rows[k]) + Cardinality({s \in Seeders : seed[s].added[k] # <<>>}) <= 1
    BY DEF SeedsAddOnce
  <2> DEFINE Making == {s \in Seeders : seed[s].added[k] # <<>>}
  <2>1. k \in Key
    BY KeyFacts
  <2>2. CASE rows["tenant"] = <<>>
    <3>1. Len(rows[k]) = 0
      BY <2>1, <2>2, NothingFacts DEF SeedingInv, FirstSeed
    <3>2. \A r, s \in Making : r = s
      <4>1. \A s \in Making : seed[s] # NoSeed
        BY <2>1, NothingFacts
      <4> QED
        BY <4>1 DEF SeedingInv, OneSeed
    <3>3. Cardinality(Making) = 0 \/ Cardinality(Making) = 1
      <4>1. CASE Making = {}
        BY <4>1, FS_EmptySet
      <4>2. CASE Making # {}
        <5>1. PICK s \in Making : TRUE
          BY <4>2
        <5>2. Making = {s}
          BY <3>2, <5>1
        <5> QED
          BY <5>2, FS_Singleton
      <4> QED
        BY <4>1, <4>2
    <3> HIDE DEF Making
    <3> QED
      BY <3>1, <3>3 DEF Making
  <2>3. CASE rows["tenant"] # <<>>
    <3>1. Len(rows[k]) = 1
      BY <2>3 DEF SeedingInv, LaterSeeds
    <3>2. Making = {}
      BY <2>1, <2>3, NothingFacts DEF SeedingInv, LaterSeeds
    <3>3. Cardinality(Making) = 0
      BY <3>2, FS_EmptySet
    <3> QED
      BY <3>1, <3>3
  <2> QED
    BY <2>2, <2>3
<1> QED
  BY <1>1, SeedingInvariant, PTL

(* The service the first seed leaves is one that the handlers could have   *)
(* led to: _occupy_table and _seed_closed_visit agree with their visits.   *)
THEOREM SeedLeavesAConsistentService == SeedingSpec => []ServiceStartsConsistent
<1>1. SeedingInv => ServiceStartsConsistent
  <2> SUFFICES ASSUME SeedingInv, requests = 0, rows["tenant"] # <<>>
               PROVE  /\ rows["T1"][1] = "seated" <=> Active("visit_T1")
                      /\ rows["T2"][1] = "seated" <=> Active("visit_T2")
                      /\ rows["Olivia"] = <<"left">> /\ rows["order_T2"] = <<"served">>
                      /\ rows["payment_T2"] = <<"settled">>
    BY DEF ServiceStartsConsistent
  <2> DEFINE n == 21
  <2>1. \A i \in 1..20 : rows[Plan[i].key] = Made(i, n)
    <3>1. \A i \in 1..Len(Plan) : rows[Plan[i].key] = Made(i, Len(Plan) + 1)
      BY DEF SeedingInv, LaterSeeds
    <3>2. Len(Plan) = 20 /\ Len(Plan) + 1 = n
      BY PlanLines
    <3> QED
      BY <3>1, <3>2
  <2>2. n \in 0..21 /\ n > 8 /\ \A i \in 1..20 : i < n
    OBVIOUS
  <2> HIDE DEF n
  <2>3. Made(2, n) = <<"seated">>
    BY <2>2, MadeOf
  <2>4. \A i \in 1..20 : i # 2 => Made(i, n) = Plan[i].goals
    BY <2>2, MadeOf
  <2>5. rows["T1"] = <<"seated">>
    BY <2>1, <2>3, PlanKeys
  <2>6. rows["T2"] = <<"available">>
    <3>1. Plan[3].goals = <<"available">>
      BY PlanAt, TenantLines
    <3> QED
      BY <2>1, <2>4, <3>1, PlanKeys, SMTT(30)
  <2>7. rows["visit_T1"] = <<"ordering">>
    <3>1. Plan[8].goals = <<"ordering">>
      BY PlanAt, LiveLines
    <3> QED
      BY <2>1, <2>4, <3>1, PlanKeys, SMTT(30)
  <2>8. rows["visit_T2"] = <<"closed">>
    <3>1. Plan[15].goals = <<"closed">>
      BY PlanAt, ClosedLines
    <3> QED
      BY <2>1, <2>4, <3>1, PlanKeys, SMTT(30)
  <2>9. rows["Olivia"] = <<"left">>
    <3>1. Plan[16].goals = <<"left">>
      BY PlanAt, ClosedLines
    <3> QED
      BY <2>1, <2>4, <3>1, PlanKeys, SMTT(30)
  <2>10. rows["order_T2"] = <<"served">>
    <3>1. Plan[17].goals = <<"served">>
      BY PlanAt, ClosedLines
    <3> QED
      BY <2>1, <2>4, <3>1, PlanKeys, SMTT(30)
  <2>11. rows["payment_T2"] = <<"settled">>
    <3>1. Plan[19].goals = <<"settled">>
      BY PlanAt, ClosedLines
    <3> QED
      BY <2>1, <2>4, <3>1, PlanKeys, SMTT(30)
  <2>12. Active("visit_T1")
    BY <2>7 DEF Active
  <2>13. ~Active("visit_T2")
    BY <2>8 DEF Active
  <2> QED
    BY <2>5, <2>6, <2>9, <2>10, <2>11, <2>12, <2>13
<1> QED
  BY <1>1, SeedingInvariant, PTL

(* "Existing rows are reused, never duplicated, and never rewound": once a *)
(* seed has committed, another that commits changes nothing.               *)
THEOREM SeedingAgainChangesNothing == SeedingSpec => RerunChangesNothing
<1>1. ASSUME SeedingInv, [SeedingNext]_seedingVars
      PROVE  [\A s \in Seeders :
                SeedCommits(s) /\ rows["tenant"] # <<>> => UNCHANGED <<rows, onHand, menu>>]_seedingVars
  BY <1>1, LaterCommits
<1> QED
  BY <1>1, SeedingInvariant, PTL DEF SeedingSpec, RerunChangesNothing

(* While nobody has asked the restaurant for anything, a look-up that bears *)
(* one row finds one at most: the seeds have made no second.               *)
LEMMA SeedsLeaveOneRow ==
  ASSUME SeedingInv, NEW i \in 1..20, ~Plan[i].many, Len(Rows(Plan[i].key)) > 1
  PROVE  requests > 0
<1> DEFINE key == Plan[i].key
<1>1. i # 7
  BY PlanAt, BookingLines
<1>a. key \in Key
  BY PlanLines
<1>2. Len(Rows(key)) # 0 /\ Len(Rows(key)) # 1
  <2>1. \A n : n > 1 => n # 0 /\ n # 1
    OBVIOUS
  <2> QED
    BY <2>1, Zenon
<1>3. requests \in Nat
  <2>1. requests \in 0..MaxRequests
    BY DEF SeedingInv, SeedingTypeOK
  <2> QED
    BY <2>1
<1>4. SUFFICES ASSUME requests = 0 PROVE FALSE
  BY <1>3
<1>5. Len(<<>>) = 0 /\ Len(<<"there">>) = 1
  OBVIOUS
<1>6. CASE key = "sku"
  <2>1. Rows(key) = <<>> \/ Rows(key) = <<"there">>
    BY <1>6 DEF Rows
  <2> HIDE DEF key
  <2>2. Len(Rows(key)) = 0 \/ Len(Rows(key)) = 1
    BY <1>5, <2>1
  <2> QED
    BY <1>2, <2>2
<1>7. CASE key = "dish"
  <2>1. Rows(key) = [n \in 1..Len(menu[SeededDish]) |-> "there"]
    BY <1>7 DEF Rows
  <2> HIDE DEF key
  <2>2. menu[SeededDish] = <<>> \/ Len(menu[SeededDish]) = 1
    BY <1>4 DEF SeedingInv, FirstSeed, LaterSeeds
  <2>3. Len(menu[SeededDish]) = 0 \/ Len(menu[SeededDish]) = 1
    BY <1>5, <2>2
  <2>4. Len(Rows(key)) = 0 \/ Len(Rows(key)) = 1
    BY <2>1, <2>3
  <2> QED
    BY <1>2, <2>4
<1>8. CASE key # "sku" /\ key # "dish"
  <2>1. Rows(key) = rows[key]
    BY <1>8 DEF Rows
  <2>2. CASE rows["tenant"] = <<>>
    <3>1. rows = NoRows
      BY <2>2 DEF SeedingInv, FirstSeed
    <3>2. rows[key] = <<>>
      BY <1>a, <3>1, NothingFacts
    <3> QED
      BY <1>2, <1>5, <2>1, <3>2
  <2>3. CASE rows["tenant"] # <<>>
    <3>1. \A j \in 1..Len(Plan) : rows[Plan[j].key] = Made(j, Len(Plan) + 1)
      BY <1>4, <2>3 DEF SeedingInv, LaterSeeds
    <3> DEFINE n == 21
    <3>2. n \in 0..21 /\ i < n /\ Len(Plan) + 1 = n /\ i \in 1..Len(Plan)
      BY PlanLines
    <3> HIDE DEF n
    <3>3. rows[key] = Made(i, n)
      BY <3>1, <3>2
    <3>4. Len(Made(i, n)) = 1
      BY <1>1, <3>2, MadeTyped
    <3> QED
      BY <1>2, <2>1, <3>3, <3>4
  <2> QED
    BY <2>2, <2>3
<1> QED
  BY <1>6, <1>7, <1>8

(* A seed never trips over statuses (_advance_to never raises for it), nor *)
(* over what other seeds have left: it fails only after requests, and only *)
(* at a line whose look-up bears one row (scalar_one_or_none) and finds    *)
(* more.                                                                   *)
THEOREM SeedFailsForARepeatedKey == SeedingSpec => SeedFailsOnlyForRepeatedKeys
<1>1. ASSUME SeedingInv, NEW s \in Seeders PROVE FailsForRepeatedKey(s)
  <2> DEFINE i == seed[s].step
  <2> SUFFICES ASSUME SeedFails(s)
               PROVE  requests > 0 /\ ~Plan[i].many /\ Len(Rows(Plan[i].key)) > 1
    BY DEF FailsForRepeatedKey
  <2>1. i \in 1..20 /\ Raises(Plan[i])
    BY PlanLines DEF SeedFails, Working
  <2> HIDE DEF i
  <2>2. \A j \in 1..Len(Plan[i].goals) : Walked(Plan[i])[j] # Illegal
    BY <2>1, PlanIsLegal
  <2>3. ~Plan[i].many /\ Len(Rows(Plan[i].key)) > 1
    BY <2>1, <2>2 DEF Raises, Found
  <2>4. requests > 0
    BY <1>1, <2>1, <2>3, SeedsLeaveOneRow
  <2> QED
    BY <2>3, <2>4
<1>2. ASSUME SeedingInv, [SeedingNext]_seedingVars
      PROVE  [\A s \in Seeders : FailsForRepeatedKey(s)]_seedingVars
  BY <1>1, <1>2
<1> QED
  BY <1>2, SeedingInvariant, PTL DEF SeedingSpec, SeedFailsOnlyForRepeatedKeys

(* To the catalog a seed is a step that only ever adds, so what is proved  *)
(* of Catalog holds among seeds: SeedingSpec implements CatalogSpec.       *)
THEOREM SeedingImplementsCatalog == SeedingSpec => CatalogAmongSeeds
<1>1. SeedingInit => CatalogInit
  BY DEF SeedingInit
<1>2. SeedingInv /\ [SeedingNext]_seedingVars => [CatalogNext]_catalogVars
  <2> SUFFICES ASSUME SeedingInv, [SeedingNext]_seedingVars PROVE CatalogNext \/ UNCHANGED catalogVars
    OBVIOUS
  <2>1. ASSUME NEW s \in Seeders, SeedInserts(s) PROVE Seeded
    BY <2>1, InsertSeeds
  <2>2. ASSUME NEW s \in Seeders, SeedCommits(s) PROVE Seeded \/ UNCHANGED catalogVars
    <3>1. CASE rows["tenant"] = <<>>
      BY <2>2, <3>1, FirstCommitSeeds
    <3>2. CASE rows["tenant"] # <<>>
      BY <2>2, <3>2, LaterCommits DEF SeedCommits, catalogVars
    <3> QED
      BY <3>1, <3>2
  <2>3. ASSUME NEW s \in Seeders, SeedBegin(s) \/ SeedFinds(s) \/ SeedFails(s) \/ SeedDies(s)
        PROVE  UNCHANGED catalogVars
    BY <2>3 DEF SeedBegin, SeedFinds, SeedFails, SeedDies
  <2>4. CASE Moves \/ (\E key \in {"visit_T1", "visit_T2"} : OpensVisit(key))
             \/ GuestJoins \/ PlacesOrder \/ OrdersAgain \/ PaysAgain \/ BooksTable
    BY <2>4 DEF Moves, OpensVisit, GuestJoins, PlacesOrder, OrdersAgain, PaysAgain, BooksTable, Adds
  <2>5. AsksCatalog => Requests
    BY DEF AsksCatalog, Requests
  <2>6. AnswersCatalog => Requests
    BY DEF AnswersCatalog, Requests
  <2>7. CASE UNCHANGED seedingVars
    BY <2>7 DEF seedingVars
  <2> QED
    BY <2>1, <2>2, <2>3, <2>4, <2>5, <2>6, <2>7 DEF SeedingNext, CatalogNext
<1> QED
  BY <1>1, <1>2, SeedingInvariant, PTL DEF SeedingSpec, CatalogAmongSeeds, CatalogSpec

(* The stock matches the trail while seeds run, fail and die in between.   *)
THEOREM StockIsAuditedAmongSeeds == SeedingSpec => []StockMatchesTrail
<1> QED
  BY SeedingImplementsCatalog, StockIsAudited DEF CatalogAmongSeeds
=============================================================================
