----------------------------- MODULE Ticketing -----------------------------
(**************************************************************************)
(* Orders, their items and their payments: app/api/orders.py.              *)
(*                                                                         *)
(* As in Floor, a request is a first action that reads and locks and a     *)
(* last one that commits.  Every handler but create_order locks the order  *)
(* row (_order_for_actor) until it commits, and an action that only locks  *)
(* and writes is one step.  Requests refused with no effect are not steps. *)
(*                                                                         *)
(* Money is in cents.  What a client asks to pay arrives in tenths of a    *)
(* cent, because payments.amount is NUMERIC(10, 2): PostgreSQL rounds what *)
(* the handler has compared unrounded.                                     *)
(**************************************************************************)
EXTENDS StateMachines, Integers, FiniteSets, Functions

CONSTANTS
  Visits,     \* the table sessions an order can belong to
  Orders, Items, Payments,   \* identities of rows
  LineTotal,  \* [Items -> Nat]: menu price times quantity, in cents
  Amounts,    \* what a payment request may ask for, in tenths of a cent
  Callers,    \* requests that may be in flight at the same time
  Nothing     \* the absence of a row or a status

ASSUME LineTotalAssumption == LineTotal \in [Items -> Nat]
ASSUME RowsAssumption == IsFiniteSet(Items) /\ IsFiniteSet(Payments)
ASSUME AmountsAssumption == Amounts \subseteq Nat \ {0}
ASSUME NothingAssumption ==
  Nothing \notin Visits \cup Orders \cup Items \cup Payments

VARIABLES
  orderStatus,    \* orders.status, "absent" before the row exists
  orderVisit,     \* orders.table_session_id
  itemStatus,     \* order_items.status, "absent" before the row exists
  itemOrder,      \* order_items.order_id
  paymentStatus,  \* payments.status, "absent" before the row exists
  paymentOrder,   \* payments.order_id
  amount,         \* payments.amount
  call            \* the request each caller has in flight

orderVars == <<orderStatus, orderVisit>>
itemVars == <<itemStatus, itemOrder>>
paymentVars == <<paymentStatus, paymentOrder, amount>>
ticketVars == <<orderVars, itemVars, paymentVars, call>>

CallSteps == {"idle", "ordering", "adding", "moving_order", "moving_item",
              "paying", "moving_payment"}

CallTargets == OrderStatus \cup OrderItemStatus \cup PaymentStatus \cup {Nothing}

Call ==
  [at: CallSteps, visit: Visits \cup {Nothing}, order: Orders \cup {Nothing},
   items: SUBSET Items, payment: Payments \cup {Nothing},
   target: CallTargets, cents: Nat]

NoCall == [at |-> "idle", visit |-> Nothing, order |-> Nothing, items |-> {},
           payment |-> Nothing, target |-> Nothing, cents |-> 0]

TicketInit ==
  /\ orderStatus = [o \in Orders |-> "absent"]
  /\ orderVisit = [o \in Orders |-> Nothing]
  /\ itemStatus = [i \in Items |-> "absent"]
  /\ itemOrder = [i \in Items |-> Nothing]
  /\ paymentStatus = [p \in Payments |-> "absent"]
  /\ paymentOrder = [p \in Payments |-> Nothing]
  /\ amount = [p \in Payments |-> 0]
  /\ call = [c \in Callers |-> NoCall]

-----------------------------------------------------------------------------
(* The order row is locked from the first action of the request that works *)
(* on it to its commit; an item move locks it only as it commits.          *)
OrderLockedBy(c, o) ==
  /\ call[c].at \in {"adding", "moving_order", "paying", "moving_payment"}
  /\ call[c].order = o

(* Mutant: _order_for_actor reads the order without FOR UPDATE. *)
OrderNeverLocked(c, o) == TRUE

OrderFree(c, o) == \A d \in Callers \ {c} : ~OrderLockedBy(d, o)

NewOrder(o) == orderStatus[o] = "absent" /\ \A d \in Callers : call[d].order # o
NewItem(i) == itemStatus[i] = "absent" /\ \A d \in Callers : i \notin call[d].items
NewPayment(p) == paymentStatus[p] = "absent" /\ \A d \in Callers : call[d].payment # p

Start(c, r) == call[c] = NoCall /\ call' = [call EXCEPT ![c] = r]
End(c) == call' = [call EXCEPT ![c] = NoCall]

(* order_total counts every item of the order, voided ones too;            *)
(* already_recorded counts payments neither failed nor refunded.           *)
Total(o) == SumFunctionOnSet(LineTotal, {i \in Items : itemOrder[i] = o})

Live(p) == paymentStatus[p] \notin {"absent", "failed", "refunded"}

Recorded(o) ==
  SumFunctionOnSet(amount, {p \in Payments : paymentOrder[p] = o /\ Live(p)})

Outstanding(o) == IF Recorded(o) > Total(o) THEN 0 ELSE Total(o) - Recorded(o)

(* Numeric(10, 2): to the nearest cent, halves up.                         *)
Stored(a) == (a + 5) \div 10

-----------------------------------------------------------------------------
(* POST /orders: the session is read without a lock and must not be closed *)
(* (closed is what it reads) ...                                           *)
CreateOrderBegin(c, v, o, lines, closed) ==
  /\ ~closed
  /\ NewOrder(o)
  /\ \A i \in lines : NewItem(i)
  /\ Start(c, [NoCall EXCEPT !.at = "ordering", !.visit = v, !.order = o, !.items = lines])
  /\ UNCHANGED <<orderVars, itemVars, paymentVars>>

(* ... then the order is inserted as a draft, its items as queued.         *)
CreateOrderCommit(c) ==
  LET o == call[c].order IN
  /\ call[c].at = "ordering"
  /\ orderStatus' = [orderStatus EXCEPT ![o] = "draft"]
  /\ orderVisit' = [orderVisit EXCEPT ![o] = call[c].visit]
  /\ itemStatus' = [i \in Items |-> IF i \in call[c].items THEN "queued" ELSE itemStatus[i]]
  /\ itemOrder' = [i \in Items |-> IF i \in call[c].items THEN o ELSE itemOrder[i]]
  /\ End(c)
  /\ UNCHANGED paymentVars

(* Mutant: items are added to an order whatever its status. *)
AddItemUnchecked(c, o, i) ==
  /\ OrderFree(c, o)
  /\ orderStatus[o] # "absent"
  /\ NewItem(i)
  /\ Start(c, [NoCall EXCEPT !.at = "adding", !.order = o, !.items = {i}])
  /\ UNCHANGED <<orderVars, itemVars, paymentVars>>

(* POST /orders/{id}/items.  The session is not asked whether it is closed.*)
AddItemBegin(c, o, i) ==
  /\ OrderFree(c, o)
  /\ orderStatus[o] \notin {"absent", "cancelled", "served"}
  /\ NewItem(i)
  /\ Start(c, [NoCall EXCEPT !.at = "adding", !.order = o, !.items = {i}])
  /\ UNCHANGED <<orderVars, itemVars, paymentVars>>

AddItemCommit(c) ==
  /\ call[c].at = "adding"
  /\ itemStatus' = [i \in Items |-> IF i \in call[c].items THEN "queued" ELSE itemStatus[i]]
  /\ itemOrder' = [i \in Items |-> IF i \in call[c].items THEN call[c].order ELSE itemOrder[i]]
  /\ End(c)
  /\ UNCHANGED <<orderVars, paymentVars>>

(* PATCH /orders/{id}/status.                                              *)
UpdateOrderBegin(c, o, target) ==
  /\ OrderFree(c, o)
  /\ CanTransition(OrderEdges, orderStatus[o], target)
  /\ Start(c, [NoCall EXCEPT !.at = "moving_order", !.order = o, !.target = target])
  /\ UNCHANGED <<orderVars, itemVars, paymentVars>>

UpdateOrderCommit(c) ==
  /\ call[c].at = "moving_order"
  /\ orderStatus' = [orderStatus EXCEPT ![call[c].order] = call[c].target]
  /\ End(c)
  /\ UNCHANGED <<orderVisit, itemVars, paymentVars>>

(* PATCH /order-items/{id}/status.  db.get(OrderItem) comes first: when    *)
(* the order is locked afterwards the item is already in the identity map  *)
(* and is not refreshed, so the move is judged on this first reading.      *)
UpdateItemBegin(c, i, target) ==
  /\ CanTransition(OrderItemEdges, itemStatus[i], target)
  /\ Start(c, [NoCall EXCEPT !.at = "moving_item", !.order = itemOrder[i],
                             !.items = {i}, !.target = target])
  /\ UNCHANGED <<orderVars, itemVars, paymentVars>>

UpdateItemCommit(c) ==
  /\ call[c].at = "moving_item"
  /\ OrderFree(c, call[c].order)
  /\ itemStatus' = [i \in Items |-> IF i \in call[c].items THEN call[c].target
                                                         ELSE itemStatus[i]]
  /\ End(c)
  /\ UNCHANGED <<orderVars, itemOrder, paymentVars>>

(* Mutant: the balance is read without waiting for the order's lock. *)
CreatePaymentUnlocked(c, o, p, a, closed) ==
  /\ orderStatus[o] # "absent"
  /\ ~closed
  /\ NewPayment(p)
  /\ a <= 10 * Outstanding(o)
  /\ Stored(a) > 0
  /\ Start(c, [NoCall EXCEPT !.at = "paying", !.order = o, !.payment = p,
                             !.cents = Stored(a)])
  /\ UNCHANGED <<orderVars, itemVars, paymentVars>>

(* Mutant: a payment is taken for a session that is closed. *)
CreatePaymentAnyway(c, o, p, a, closed) ==
  /\ OrderFree(c, o)
  /\ orderStatus[o] # "absent"
  /\ NewPayment(p)
  /\ a <= 10 * Outstanding(o)
  /\ Stored(a) > 0
  /\ Start(c, [NoCall EXCEPT !.at = "paying", !.order = o, !.payment = p,
                             !.cents = Stored(a)])
  /\ UNCHANGED <<orderVars, itemVars, paymentVars>>

(* POST /payments: lock the order, require the session not to be closed    *)
(* (an unlocked reading again), compare the amount with the balance ...    *)
CreatePaymentBegin(c, o, p, a, closed) ==
  /\ OrderFree(c, o)
  /\ orderStatus[o] # "absent"
  /\ ~closed
  /\ NewPayment(p)
  /\ a <= 10 * Outstanding(o)
  /\ Stored(a) > 0     \* ck_payment_amount_positive
  /\ Start(c, [NoCall EXCEPT !.at = "paying", !.order = o, !.payment = p,
                             !.cents = Stored(a)])
  /\ UNCHANGED <<orderVars, itemVars, paymentVars>>

(* ... and insert it, unpaid.                                              *)
CreatePaymentCommit(c) ==
  LET p == call[c].payment IN
  /\ call[c].at = "paying"
  /\ paymentStatus' = [paymentStatus EXCEPT ![p] = "unpaid"]
  /\ paymentOrder' = [paymentOrder EXCEPT ![p] = call[c].order]
  /\ amount' = [amount EXCEPT ![p] = call[c].cents]
  /\ End(c)
  /\ UNCHANGED <<orderVars, itemVars>>

(* Mutant: the payment is locked, its order is not. *)
UpdatePaymentUnlocked(c, p, target) ==
  /\ CanTransition(PaymentEdges, paymentStatus[p], target)
  /\ Start(c, [NoCall EXCEPT !.at = "moving_payment", !.order = paymentOrder[p],
                             !.payment = p, !.target = target])
  /\ UNCHANGED <<orderVars, itemVars, paymentVars>>

(* PATCH /payments/{id}/status: lock the payment, then its order.  Neither *)
(* the session nor the balance is looked at again.                         *)
UpdatePaymentBegin(c, p, target) ==
  /\ OrderFree(c, paymentOrder[p])
  /\ CanTransition(PaymentEdges, paymentStatus[p], target)
  /\ Start(c, [NoCall EXCEPT !.at = "moving_payment", !.order = paymentOrder[p],
                             !.payment = p, !.target = target])
  /\ UNCHANGED <<orderVars, itemVars, paymentVars>>

UpdatePaymentCommit(c) ==
  /\ call[c].at = "moving_payment"
  /\ paymentStatus' = [paymentStatus EXCEPT ![call[c].payment] = call[c].target]
  /\ End(c)
  /\ UNCHANGED <<orderVars, itemVars, paymentOrder, amount>>

(* The process dies or the database fails: rollback.                       *)
Drop(c) ==
  /\ call[c] # NoCall
  /\ End(c)
  /\ UNCHANGED <<orderVars, itemVars, paymentVars>>

-----------------------------------------------------------------------------
Commit(c) ==
  \/ CreateOrderCommit(c)
  \/ AddItemCommit(c)
  \/ UpdateOrderCommit(c)
  \/ UpdateItemCommit(c)
  \/ CreatePaymentCommit(c)
  \/ UpdatePaymentCommit(c)

(* The requests that do not look at the session.                           *)
TicketRequest(c) ==
  \/ \E o \in Orders, i \in Items : AddItemBegin(c, o, i)
  \/ \E o \in Orders, target \in OrderStatus : UpdateOrderBegin(c, o, target)
  \/ \E i \in Items, target \in OrderItemStatus : UpdateItemBegin(c, i, target)
  \/ \E p \in Payments, target \in PaymentStatus : UpdatePaymentBegin(c, p, target)

(* Standing alone, the module leaves open what a request reads of the      *)
(* session; Visit supplies it.                                             *)
TicketNext ==
  \E c \in Callers :
    \/ \E v \in Visits, o \in Orders, lines \in SUBSET Items, closed \in BOOLEAN :
         CreateOrderBegin(c, v, o, lines, closed)
    \/ \E o \in Orders, p \in Payments, a \in Amounts, closed \in BOOLEAN :
         CreatePaymentBegin(c, o, p, a, closed)
    \/ TicketRequest(c)
    \/ Commit(c)
    \/ Drop(c)

TicketSpec == TicketInit /\ [][TicketNext]_ticketVars

-----------------------------------------------------------------------------
TicketTypeOK ==
  /\ orderStatus \in [Orders -> OrderStatus \cup {"absent"}]
  /\ orderVisit \in [Orders -> Visits \cup {Nothing}]
  /\ itemStatus \in [Items -> OrderItemStatus \cup {"absent"}]
  /\ itemOrder \in [Items -> Orders \cup {Nothing}]
  /\ paymentStatus \in [Payments -> PaymentStatus \cup {"absent"}]
  /\ paymentOrder \in [Payments -> Orders \cup {Nothing}]
  /\ amount \in [Payments -> Nat]
  /\ call \in [Callers -> Call]

(* What the rows look like to a request that has not committed yet: the    *)
(* rows it will insert are still absent, and what it has read under the    *)
(* order's lock still stands.  An item move promises only that the item is *)
(* there.                                                                  *)
Inserts(r) == r.at \in {"ordering", "adding"}

Locks(r) == r.at \in {"adding", "moving_order", "paying", "moving_payment"}

Stands(r) ==
  /\ r.at \in CallSteps \ {"idle", "moving_item"} => r.order \in Orders
  /\ r.at = "ordering" => orderStatus[r.order] = "absent"
  /\ Inserts(r) => \A i \in r.items : itemStatus[i] = "absent"
  /\ r.at = "adding" => orderStatus[r.order] \notin {"absent", "served", "cancelled"}
  /\ r.at = "moving_order" => CanTransition(OrderEdges, orderStatus[r.order], r.target)
  /\ r.at = "moving_item" =>
       r.target \in OrderItemStatus /\ \A i \in r.items : itemStatus[i] # "absent"
  /\ r.at = "paying" => r.payment \in Payments /\ paymentStatus[r.payment] = "absent"
  /\ r.at = "moving_payment" =>
       /\ r.payment \in Payments /\ paymentOrder[r.payment] = r.order
       /\ CanTransition(PaymentEdges, paymentStatus[r.payment], r.target)

(* Two requests that must not be in flight together: they hold one order,  *)
(* or are about to insert one row.                                         *)
Clash(r, s) ==
  \/ Locks(r) /\ Locks(s) /\ r.order = s.order
  \/ r.at = "ordering" /\ s.at = "ordering" /\ r.order = s.order
  \/ Inserts(r) /\ Inserts(s) /\ r.items \cap s.items # {}
  \/ r.at = "paying" /\ s.at = "paying" /\ r.payment = s.payment

(* Items and payments belong to an order exactly when they exist.          *)
RowsLinked ==
  /\ \A i \in Items : itemStatus[i] = "absent" <=> itemOrder[i] = Nothing
  /\ \A p \in Payments : paymentStatus[p] = "absent" <=> paymentOrder[p] = Nothing

(* The inductive invariant: locks exclude and readings under them stand,   *)
(* however many requests overlap.                                          *)
TicketInv ==
  /\ TicketTypeOK
  /\ RowsLinked
  /\ \A c \in Callers : Stands(call[c])
  /\ \A c, d \in Callers : Clash(call[c], call[d]) => c = d

(* A payment on its way is covered by the balance of its order, however    *)
(* the order has changed since: nobody else's payment was inserted, moved  *)
(* or revived in between, and the total has not shrunk.                    *)
PaymentsCovered ==
  \A c \in Callers :
    call[c].at = "paying" =>
      Recorded(call[c].order) + call[c].cents <= Total(call[c].order)

(* Orders and payments move only along their lifecycles, however many      *)
(* requests overlap: the order row stays locked from the reading on which  *)
(* a move is judged to the commit that makes it.                           *)
TicketMoves ==
  /\ \A o \in Orders :
       orderStatus'[o] # orderStatus[o] =>
         \/ orderStatus[o] = "absent" /\ orderStatus'[o] = "draft"
         \/ CanTransition(OrderEdges, orderStatus[o], orderStatus'[o])
  /\ \A p \in Payments :
       paymentStatus'[p] # paymentStatus[p] =>
         \/ paymentStatus[p] = "absent" /\ paymentStatus'[p] = "unpaid"
         \/ CanTransition(PaymentEdges, paymentStatus[p], paymentStatus'[p])

TicketMovesAreLegal == [][TicketMoves]_ticketVars

(* The bill of a served or cancelled order is final: an item that was on   *)
(* its way when the order was finished does not slip in.                   *)
FinishedBillsAreFinal ==
  [][\A o \in Orders :
       orderStatus[o] \in {"served", "cancelled"} => Total(o)' = Total(o)
    ]_ticketVars

(* create_payment never records more than the outstanding balance, for all *)
(* its rounding and whoever else is paying: an order becomes overpaid only *)
(* when a failed payment is revived.                                       *)
Overpaid(o) == Recorded(o) > Total(o)

Revived(p) == paymentStatus[p] = "failed" /\ paymentStatus'[p] # "failed"

OnlyRevivalOverpays ==
  [][\A o \in Orders :
       ~Overpaid(o) /\ Overpaid(o)' =>
         \E p \in Payments : paymentOrder[p] = o /\ Revived(p)
    ]_ticketVars

-----------------------------------------------------------------------------
(* Claims of the documentation and the code that the code does not keep.   *)

(* RULES.md, rule 7: order items only move along their lifecycle.  The     *)
(* reading a move is judged on is older than the lock.                     *)
ItemMovesAreLegal ==
  [][\A i \in Items :
       itemStatus'[i] # itemStatus[i] =>
         \/ itemStatus[i] = "absent" /\ itemStatus'[i] = "queued"
         \/ CanTransition(OrderItemEdges, itemStatus[i], itemStatus'[i])
    ]_ticketVars

(* "Payment exceeds the outstanding order balance" is refused when a       *)
(* payment is created; a failed payment that becomes live again is not     *)
(* compared with the balance, which other payments may have used up.       *)
NeverOverpaid == \A o \in Orders : ~Overpaid(o)
=============================================================================
