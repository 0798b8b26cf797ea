-------------------------- MODULE TicketingProofs ---------------------------
(**************************************************************************)
(* What the order lock guarantees for any number of orders, items,         *)
(* payments and overlapping requests: first over what each request has     *)
(* read, then over the balance of an order, a sum over its items less a    *)
(* sum over its payments.                                                  *)
(**************************************************************************)
EXTENDS Ticketing, FiniteSetTheorems, WellFoundedInduction, TLAPS

USE LineTotalAssumption, AmountsAssumption, NothingAssumption

(* No request promises nothing and clashes with nobody.                    *)
LEMMA NoCallIsIdle ==
  /\ NoCall \in Call
  /\ NoCall.at = "idle"
  /\ Stands(NoCall)
  /\ \A r \in Call : ~Clash(NoCall, r) /\ ~Clash(r, NoCall)
  BY DEF NoCall, Call, CallSteps, CallTargets, Stands, Inserts, Locks, Clash

(* There are no rows and no requests at first.                             *)
LEMMA TicketsStart == TicketInit => TicketInv
  <1> SUFFICES ASSUME TicketInit PROVE TicketInv
    OBVIOUS
  <1>1. TicketTypeOK
    BY NoCallIsIdle DEF TicketInit, TicketTypeOK
  <1>2. RowsLinked
    BY DEF TicketInit, RowsLinked
  <1> QED
    BY <1>1, <1>2, NoCallIsIdle DEF TicketInit, TicketInv

(* A request that begins keeps the invariant when what it has read stands  *)
(* and it clashes with nobody: it writes nothing yet.                      *)
LEMMA BeginsSafely ==
  ASSUME TicketInv, NEW c \in Callers, NEW r \in Call,
         call' = [call EXCEPT ![c] = r],
         UNCHANGED <<orderVars, itemVars, paymentVars>>,
         Stands(r),
         \A d \in Callers : d # c => ~Clash(r, call[d]) /\ ~Clash(call[d], r)
  PROVE  TicketInv'
  <1>1. TicketTypeOK
    BY DEF TicketInv
  <1>2. \A d \in Callers : call'[d] = IF d = c THEN r ELSE call[d]
    BY <1>1 DEF TicketTypeOK
  <1>3. TicketTypeOK'
    BY <1>1 DEF TicketTypeOK, orderVars, itemVars, paymentVars
  <1>4. RowsLinked'
    BY DEF TicketInv, RowsLinked, orderVars, itemVars, paymentVars
  <1>5. \A s \in Call : Stands(s) => Stands(s)'
    BY DEF Stands, orderVars, itemVars, paymentVars
  <1>6. \A d \in Callers : Stands(call'[d])
    BY <1>2 DEF TicketInv
  <1>7. \A d \in Callers : call'[d] \in Call
    BY <1>3 DEF TicketTypeOK
  <1>8. \A d \in Callers : Stands(call[d])'
    BY <1>6, <1>7 DEF Stands, orderVars, itemVars, paymentVars
  <1>9. \A d, e \in Callers : Clash(call'[d], call'[e]) => d = e
    BY <1>2 DEF TicketInv
  <1> QED
    BY <1>3, <1>4, <1>8, <1>9 DEF TicketInv, Clash, Locks, Inserts

(* A request that ends after a commit keeps the invariant when the rows    *)
(* are still typed and linked and the other requests' readings stand.      *)
LEMMA EndsSafely ==
  ASSUME TicketInv, NEW c \in Callers, End(c), TicketTypeOK', RowsLinked',
         \A d \in Callers : d # c => Stands(call[d])'
  PROVE  TicketInv'
  <1>1. \A d \in Callers : call'[d] = IF d = c THEN NoCall ELSE call[d]
    BY DEF TicketInv, TicketTypeOK, End
  <1>2. Stands(call[c])'
    BY <1>1, NoCallIsIdle DEF Stands, Inserts
  <1>3. \A d \in Callers : call[d] \in Call
    BY DEF TicketInv, TicketTypeOK
  <1>4. \A d, e \in Callers : Clash(call'[d], call'[e]) => d = e
    BY <1>1, <1>3, NoCallIsIdle DEF TicketInv
  <1> QED
    BY <1>2, <1>4 DEF TicketInv, Clash, Locks, Inserts

-----------------------------------------------------------------------------
(* The requests that begin.                                                *)
LEMMA CreateOrderBegins ==
  ASSUME TicketInv, NEW c \in Callers, NEW v \in Visits, NEW o \in Orders,
         NEW lines \in SUBSET Items, NEW closed \in BOOLEAN, CreateOrderBegin(c, v, o, lines, closed)
  PROVE  TicketInv'
  <1> DEFINE r == [NoCall EXCEPT !.at = "ordering", !.visit = v, !.order = o, !.items = lines]
  <1>1. /\ r \in Call /\ r.at = "ordering" /\ r.order = o /\ r.items = lines
        /\ call' = [call EXCEPT ![c] = r]
        /\ UNCHANGED <<orderVars, itemVars, paymentVars>>
    BY DEF NoCall, Call, CallSteps, CallTargets, CreateOrderBegin, Start
  <1> HIDE DEF r
  <1>2. Stands(r)
    BY <1>1 DEF Stands, Inserts, CreateOrderBegin, NewOrder, NewItem
  <1>3. \A d \in Callers : call[d].order # o /\ lines \cap call[d].items = {}
    BY DEF CreateOrderBegin, NewOrder, NewItem
  <1>4. \A d \in Callers : ~Clash(r, call[d]) /\ ~Clash(call[d], r)
    BY <1>1, <1>3 DEF Clash, Locks, Inserts
  <1> QED
    BY <1>1, <1>2, <1>4, BeginsSafely

(* add_order_item holds the order and finds it unfinished.                 *)
LEMMA AddItemBegins ==
  ASSUME TicketInv, NEW c \in Callers, NEW o \in Orders, NEW i \in Items, AddItemBegin(c, o, i)
  PROVE  TicketInv'
  <1> DEFINE r == [NoCall EXCEPT !.at = "adding", !.order = o, !.items = {i}]
  <1>1. /\ r \in Call /\ r.at = "adding" /\ r.order = o /\ r.items = {i}
        /\ call' = [call EXCEPT ![c] = r]
        /\ UNCHANGED <<orderVars, itemVars, paymentVars>>
    BY DEF NoCall, Call, CallSteps, CallTargets, AddItemBegin, Start
  <1> HIDE DEF r
  <1>2. Stands(r)
    BY <1>1 DEF Stands, Inserts, CallSteps, AddItemBegin, NewItem
  <1>3. \A d \in Callers : i \notin call[d].items /\ (d # c /\ Locks(call[d]) => call[d].order # o)
    BY DEF AddItemBegin, NewItem, OrderFree, OrderLockedBy, Locks
  <1>4. \A d \in Callers : d # c => ~Clash(r, call[d]) /\ ~Clash(call[d], r)
    BY <1>1, <1>3 DEF Clash, Locks, Inserts
  <1> QED
    BY <1>1, <1>2, <1>4, BeginsSafely

(* update_order_status holds the order it judges.                          *)
LEMMA UpdateOrderBegins ==
  ASSUME TicketInv, NEW c \in Callers, NEW o \in Orders, NEW target \in OrderStatus,
         UpdateOrderBegin(c, o, target)
  PROVE  TicketInv'
  <1> DEFINE r == [NoCall EXCEPT !.at = "moving_order", !.order = o, !.target = target]
  <1>1. /\ r \in Call /\ r.at = "moving_order" /\ r.order = o /\ r.target = target
        /\ call' = [call EXCEPT ![c] = r]
        /\ UNCHANGED <<orderVars, itemVars, paymentVars>>
    BY DEF NoCall, Call, CallSteps, CallTargets, UpdateOrderBegin, Start
  <1> HIDE DEF r
  <1>2. Stands(r)
    BY <1>1 DEF Stands, Inserts, UpdateOrderBegin
  <1>3. \A d \in Callers : d # c /\ Locks(call[d]) => call[d].order # o
    BY DEF UpdateOrderBegin, OrderFree, OrderLockedBy, Locks
  <1>4. \A d \in Callers : d # c => ~Clash(r, call[d]) /\ ~Clash(call[d], r)
    BY <1>1, <1>3 DEF Clash, Locks, Inserts
  <1> QED
    BY <1>1, <1>2, <1>4, BeginsSafely

(* update_order_item_status reads the item and holds nothing.              *)
LEMMA UpdateItemBegins ==
  ASSUME TicketInv, NEW c \in Callers, NEW i \in Items, NEW target \in OrderItemStatus,
         UpdateItemBegin(c, i, target)
  PROVE  TicketInv'
  <1> DEFINE r == [NoCall EXCEPT !.at = "moving_item", !.order = itemOrder[i],
                                 !.items = {i}, !.target = target]
  <1>1. itemOrder[i] \in Orders \cup {Nothing}
    BY DEF TicketInv, TicketTypeOK
  <1>2. /\ r \in Call /\ r.at = "moving_item" /\ r.items = {i} /\ r.target = target
        /\ call' = [call EXCEPT ![c] = r]
        /\ UNCHANGED <<orderVars, itemVars, paymentVars>>
    BY <1>1 DEF NoCall, Call, CallSteps, CallTargets, UpdateItemBegin, Start
  <1> HIDE DEF r
  <1>3. itemStatus[i] # "absent"
    BY DEF UpdateItemBegin, CanTransition, OrderItemEdges
  <1>4. Stands(r)
    BY <1>2, <1>3 DEF Stands, Inserts
  <1>5. \A d \in Callers : ~Clash(r, call[d]) /\ ~Clash(call[d], r)
    BY <1>2 DEF Clash, Locks, Inserts
  <1> QED
    BY <1>2, <1>4, <1>5, BeginsSafely

(* create_payment holds the order whose balance it reads.                  *)
LEMMA CreatePaymentBegins ==
  ASSUME TicketInv, NEW c \in Callers, NEW o \in Orders, NEW p \in Payments, NEW a \in Amounts,
         NEW closed \in BOOLEAN, CreatePaymentBegin(c, o, p, a, closed)
  PROVE  TicketInv'
  <1> DEFINE r == [NoCall EXCEPT !.at = "paying", !.order = o, !.payment = p, !.cents = Stored(a)]
  <1>1. Stored(a) \in Nat
    BY DEF Stored
  <1>2. /\ r \in Call /\ r.at = "paying" /\ r.order = o /\ r.payment = p
        /\ call' = [call EXCEPT ![c] = r]
        /\ UNCHANGED <<orderVars, itemVars, paymentVars>>
    BY <1>1 DEF NoCall, Call, CallSteps, CallTargets, CreatePaymentBegin, Start
  <1> HIDE DEF r
  <1>3. Stands(r)
    BY <1>2 DEF Stands, Inserts, CreatePaymentBegin, NewPayment
  <1>4. \A d \in Callers : call[d].payment # p /\ (d # c /\ Locks(call[d]) => call[d].order # o)
    BY DEF CreatePaymentBegin, NewPayment, OrderFree, OrderLockedBy, Locks
  <1>5. \A d \in Callers : d # c => ~Clash(r, call[d]) /\ ~Clash(call[d], r)
    BY <1>2, <1>4 DEF Clash, Locks, Inserts
  <1> QED
    BY <1>2, <1>3, <1>5, BeginsSafely

(* update_payment_status holds the order of the payment it judges.         *)
LEMMA UpdatePaymentBegins ==
  ASSUME TicketInv, NEW c \in Callers, NEW p \in Payments, NEW target \in PaymentStatus,
         UpdatePaymentBegin(c, p, target)
  PROVE  TicketInv'
  <1> DEFINE r == [NoCall EXCEPT !.at = "moving_payment", !.order = paymentOrder[p],
                                 !.payment = p, !.target = target]
  <1>1. paymentStatus[p] # "absent"
    BY DEF UpdatePaymentBegin, CanTransition, PaymentEdges
  <1>2. paymentOrder[p] \in Orders
    BY <1>1 DEF TicketInv, TicketTypeOK, RowsLinked
  <1>3. /\ r \in Call /\ r.at = "moving_payment" /\ r.order = paymentOrder[p]
        /\ r.payment = p /\ r.target = target
        /\ call' = [call EXCEPT ![c] = r]
        /\ UNCHANGED <<orderVars, itemVars, paymentVars>>
    BY <1>2 DEF NoCall, Call, CallSteps, CallTargets, UpdatePaymentBegin, Start
  <1> HIDE DEF r
  <1>4. Stands(r)
    BY <1>2, <1>3 DEF Stands, Inserts, UpdatePaymentBegin
  <1>5. \A d \in Callers : d # c /\ Locks(call[d]) => call[d].order # paymentOrder[p]
    BY DEF UpdatePaymentBegin, OrderFree, OrderLockedBy, Locks
  <1>6. \A d \in Callers : d # c => ~Clash(r, call[d]) /\ ~Clash(call[d], r)
    BY <1>3, <1>5 DEF Clash, Locks, Inserts
  <1> QED
    BY <1>3, <1>4, <1>6, BeginsSafely

-----------------------------------------------------------------------------
(* The requests that commit.                                               *)
LEMMA CallsAreTyped ==
  ASSUME TicketTypeOK, NEW c \in Callers
  PROVE  /\ call[c].at \in CallSteps /\ call[c].visit \in Visits \cup {Nothing}
         /\ call[c].order \in Orders \cup {Nothing} /\ call[c].items \in SUBSET Items
         /\ call[c].payment \in Payments \cup {Nothing} /\ call[c].cents \in Nat
  BY DEF TicketTypeOK, Call

(* A request that has ended is no request.                                 *)
LEMMA EndTyped == ASSUME TicketTypeOK, NEW c \in Callers, End(c) PROVE call' \in [Callers -> Call]
  BY NoCallIsIdle DEF TicketTypeOK, End

(* A new order and its items link to one another.                          *)
LEMMA CreateOrderCommits ==
  ASSUME TicketInv, NEW c \in Callers, CreateOrderCommit(c)
  PROVE  TicketInv'
  <1> DEFINE o == call[c].order
  <1>1. /\ TicketTypeOK /\ RowsLinked /\ Stands(call[c])
        /\ \A d \in Callers : Stands(call[d])
        /\ \A d \in Callers : d # c => ~Clash(call[c], call[d])
    BY DEF TicketInv
  <1>2. o \in Orders /\ orderStatus[o] = "absent" /\ \A i \in call[c].items : itemStatus[i] = "absent"
    BY <1>1 DEF Stands, Inserts, CallSteps, CreateOrderCommit
  <1>3. TicketTypeOK'
    BY <1>1, <1>2, CallsAreTyped, EndTyped
    DEF TicketTypeOK, CreateOrderCommit, paymentVars, OrderStatus, OrderItemStatus
  <1>4. RowsLinked'
    BY <1>1, <1>2 DEF RowsLinked, CreateOrderCommit, paymentVars
  <1>5. ASSUME NEW d \in Callers, d # c PROVE Stands(call[d])'
    <2>1. call'[d] = call[d] /\ call[d].items \in SUBSET Items
      BY <1>1, <1>5, CallsAreTyped DEF TicketTypeOK, CreateOrderCommit, End
    <2>2. \A i \in Items : itemStatus'[i] = IF i \in call[c].items THEN "queued" ELSE itemStatus[i]
      BY DEF CreateOrderCommit
    <2>3. \A q \in Orders : orderStatus'[q] = IF q = o THEN "draft" ELSE orderStatus[q]
      BY <1>1 DEF TicketTypeOK, CreateOrderCommit
    <2>4. Inserts(call[d]) => call[d].items \cap call[c].items = {}
      BY <1>1, <1>5 DEF Clash, Inserts, CreateOrderCommit
    <2>5. call[d].at = "ordering" => call[d].order # o
      BY <1>1, <1>5 DEF Clash, CreateOrderCommit
    <2>6. call[d].at \in {"adding", "moving_order"} => call[d].order # o
      BY <1>1, <1>2 DEF Stands, CanTransition, OrderEdges
    <2> QED
      BY <1>1, <2>1, <2>2, <2>3, <2>4, <2>5, <2>6
      DEF Stands, Inserts, CallSteps, CreateOrderCommit, paymentVars
  <1> QED
    BY <1>3, <1>4, <1>5, EndsSafely DEF CreateOrderCommit

(* New items belong to the order that is held.                             *)
LEMMA AddItemCommits ==
  ASSUME TicketInv, NEW c \in Callers, AddItemCommit(c)
  PROVE  TicketInv'
  <1>1. /\ TicketTypeOK /\ RowsLinked /\ Stands(call[c])
        /\ \A d \in Callers : Stands(call[d])
        /\ \A d \in Callers : d # c => ~Clash(call[c], call[d])
    BY DEF TicketInv
  <1>2. call[c].order \in Orders
    BY <1>1 DEF Stands, CallSteps, AddItemCommit
  <1>3. TicketTypeOK'
    BY <1>1, <1>2, CallsAreTyped, EndTyped
    DEF TicketTypeOK, AddItemCommit, orderVars, paymentVars, OrderItemStatus
  <1>4. RowsLinked'
    BY <1>1, <1>2 DEF RowsLinked, AddItemCommit, paymentVars
  <1>5. ASSUME NEW d \in Callers, d # c PROVE Stands(call[d])'
    <2>1. call'[d] = call[d] /\ call[d].items \in SUBSET Items
      BY <1>1, <1>5, CallsAreTyped DEF TicketTypeOK, AddItemCommit, End
    <2>2. \A i \in Items : itemStatus'[i] = IF i \in call[c].items THEN "queued" ELSE itemStatus[i]
      BY DEF AddItemCommit
    <2>3. Inserts(call[d]) => call[d].items \cap call[c].items = {}
      BY <1>1, <1>5 DEF Clash, Inserts, AddItemCommit
    <2> QED
      BY <1>1, <2>1, <2>2, <2>3 DEF Stands, Inserts, AddItemCommit, orderVars, paymentVars
  <1> QED
    BY <1>3, <1>4, <1>5, EndsSafely DEF AddItemCommit

(* The order is held, so no other request loses what it has read of it.    *)
LEMMA UpdateOrderCommits ==
  ASSUME TicketInv, NEW c \in Callers, UpdateOrderCommit(c)
  PROVE  TicketInv'
  <1> DEFINE o == call[c].order
  <1>1. /\ TicketTypeOK /\ RowsLinked /\ Stands(call[c])
        /\ \A d \in Callers : Stands(call[d])
        /\ \A d \in Callers : d # c => ~Clash(call[c], call[d])
    BY DEF TicketInv
  <1>2. o \in Orders /\ CanTransition(OrderEdges, orderStatus[o], call[c].target)
    BY <1>1 DEF Stands, CallSteps, UpdateOrderCommit
  <1>3. call[c].target \in OrderStatus
    BY <1>2 DEF CanTransition, OrderEdges, OrderStatus
  <1>4. TicketTypeOK'
    BY <1>1, <1>2, <1>3, EndTyped DEF TicketTypeOK, UpdateOrderCommit, itemVars, paymentVars
  <1>5. RowsLinked'
    BY <1>1 DEF RowsLinked, UpdateOrderCommit, itemVars, paymentVars
  <1>6. ASSUME NEW d \in Callers, d # c PROVE Stands(call[d])'
    <2>1. call'[d] = call[d]
      BY <1>1, <1>6 DEF TicketTypeOK, UpdateOrderCommit, End
    <2>2. \A q \in Orders : q # o => orderStatus'[q] = orderStatus[q]
      BY <1>1 DEF TicketTypeOK, UpdateOrderCommit
    <2>3. Locks(call[d]) => call[d].order # o
      BY <1>1, <1>6 DEF Clash, Locks, UpdateOrderCommit
    <2>4. call[d].at = "ordering" => call[d].order # o
      BY <1>1, <1>2 DEF Stands, CanTransition, OrderEdges
    <2> QED
      BY <1>1, <2>1, <2>2, <2>3, <2>4
      DEF Stands, Inserts, Locks, CallSteps, UpdateOrderCommit, itemVars, paymentVars
  <1> QED
    BY <1>4, <1>5, <1>6, EndsSafely DEF UpdateOrderCommit

(* An item moves to a status of its own kind; the order stays as it is.    *)
LEMMA UpdateItemCommits ==
  ASSUME TicketInv, NEW c \in Callers, UpdateItemCommit(c)
  PROVE  TicketInv'
  <1>1. /\ TicketTypeOK /\ RowsLinked /\ Stands(call[c]) /\ \A d \in Callers : Stands(call[d])
    BY DEF TicketInv
  <1>2. call[c].target \in OrderItemStatus /\ \A i \in call[c].items : itemStatus[i] # "absent"
    BY <1>1 DEF Stands, UpdateItemCommit
  <1>3. call[c].target # "absent"
    BY <1>2 DEF OrderItemStatus
  <1>4. TicketTypeOK'
    BY <1>1, <1>2, EndTyped DEF TicketTypeOK, UpdateItemCommit, orderVars, paymentVars
  <1>5. \A i \in Items : itemStatus'[i] = "absent" <=> itemStatus[i] = "absent"
    BY <1>2, <1>3 DEF UpdateItemCommit
  <1>6. RowsLinked'
    BY <1>1, <1>5 DEF RowsLinked, UpdateItemCommit, paymentVars
  <1>7. ASSUME NEW d \in Callers, d # c PROVE Stands(call[d])'
    <2>1. call'[d] = call[d] /\ call[d].items \in SUBSET Items
      BY <1>1, <1>7, CallsAreTyped DEF TicketTypeOK, UpdateItemCommit, End
    <2> QED
      BY <1>1, <1>5, <2>1 DEF Stands, Inserts, UpdateItemCommit, orderVars, paymentVars
  <1> QED
    BY <1>4, <1>6, <1>7, EndsSafely DEF UpdateItemCommit

(* The new payment belongs to the order that is held.                      *)
LEMMA CreatePaymentCommits ==
  ASSUME TicketInv, NEW c \in Callers, CreatePaymentCommit(c)
  PROVE  TicketInv'
  <1> DEFINE p == call[c].payment
  <1>1. /\ TicketTypeOK /\ RowsLinked /\ Stands(call[c])
        /\ \A d \in Callers : Stands(call[d])
        /\ \A d \in Callers : d # c => ~Clash(call[c], call[d])
    BY DEF TicketInv
  <1>2. call[c].order \in Orders /\ p \in Payments /\ paymentStatus[p] = "absent"
    BY <1>1 DEF Stands, CallSteps, CreatePaymentCommit
  <1>3. TicketTypeOK'
    BY <1>1, <1>2, CallsAreTyped, EndTyped
    DEF TicketTypeOK, CreatePaymentCommit, orderVars, itemVars, PaymentStatus
  <1>4. RowsLinked'
    BY <1>1, <1>2 DEF RowsLinked, TicketTypeOK, CreatePaymentCommit, itemVars
  <1>5. ASSUME NEW d \in Callers, d # c PROVE Stands(call[d])'
    <2>1. call'[d] = call[d]
      BY <1>1, <1>5 DEF TicketTypeOK, CreatePaymentCommit, End
    <2>2. \A q \in Payments : q # p => paymentStatus'[q] = paymentStatus[q] /\ paymentOrder'[q] = paymentOrder[q]
      BY <1>1 DEF TicketTypeOK, CreatePaymentCommit
    <2>3. call[d].at = "paying" => call[d].payment # p
      BY <1>1, <1>5 DEF Clash, CreatePaymentCommit
    <2>4. call[d].at = "moving_payment" => call[d].payment # p
      BY <1>1, <1>2 DEF Stands, CanTransition, PaymentEdges
    <2> QED
      BY <1>1, <2>1, <2>2, <2>3, <2>4 DEF Stands, Inserts, CreatePaymentCommit, orderVars, itemVars
  <1> QED
    BY <1>3, <1>4, <1>5, EndsSafely DEF CreatePaymentCommit

(* Whoever else works on the payment would hold the same order.            *)
LEMMA UpdatePaymentCommits ==
  ASSUME TicketInv, NEW c \in Callers, UpdatePaymentCommit(c)
  PROVE  TicketInv'
  <1> DEFINE p == call[c].payment
  <1>1. /\ TicketTypeOK /\ RowsLinked /\ Stands(call[c])
        /\ \A d \in Callers : Stands(call[d])
        /\ \A d \in Callers : d # c => ~Clash(call[c], call[d])
    BY DEF TicketInv
  <1>2. /\ p \in Payments /\ paymentOrder[p] = call[c].order
        /\ CanTransition(PaymentEdges, paymentStatus[p], call[c].target)
    BY <1>1 DEF Stands, UpdatePaymentCommit
  <1>3. call[c].target \in PaymentStatus /\ paymentStatus[p] # "absent"
    BY <1>2 DEF CanTransition, PaymentEdges, PaymentStatus
  <1>4. TicketTypeOK'
    BY <1>1, <1>3, EndTyped DEF TicketTypeOK, UpdatePaymentCommit, orderVars, itemVars
  <1>5. \A q \in Payments : paymentStatus'[q] = IF q = p THEN call[c].target ELSE paymentStatus[q]
    BY <1>1 DEF TicketTypeOK, UpdatePaymentCommit
  <1>6. RowsLinked'
    BY <1>1, <1>3, <1>5 DEF RowsLinked, UpdatePaymentCommit, itemVars, PaymentStatus
  <1>7. ASSUME NEW d \in Callers, d # c PROVE Stands(call[d])'
    <2>1. call'[d] = call[d]
      BY <1>1, <1>7 DEF TicketTypeOK, UpdatePaymentCommit, End
    <2>2. call[d].at = "paying" => call[d].payment # p
      BY <1>1, <1>3 DEF Stands
    <2>3. call[d].at = "moving_payment" => call[d].payment # p
      BY <1>1, <1>2, <1>7 DEF Stands, Clash, Locks, UpdatePaymentCommit
    <2> QED
      BY <1>1, <1>5, <2>1, <2>2, <2>3 DEF Stands, Inserts, UpdatePaymentCommit, orderVars, itemVars
  <1> QED
    BY <1>4, <1>6, <1>7, EndsSafely DEF UpdatePaymentCommit

(* A request that is rolled back leaves no trace but its lock given up.    *)
LEMMA DropsSafely ==
  ASSUME TicketInv, NEW c \in Callers, Drop(c)
  PROVE  TicketInv'
  <1>1. TicketTypeOK
    BY DEF TicketInv
  <1>2. TicketTypeOK'
    BY <1>1, EndTyped DEF TicketTypeOK, Drop, orderVars, itemVars, paymentVars
  <1>3. RowsLinked'
    BY DEF TicketInv, RowsLinked, Drop, itemVars, paymentVars
  <1>4. ASSUME NEW d \in Callers, d # c PROVE Stands(call[d])'
    <2>1. call'[d] = call[d] /\ Stands(call[d])
      BY <1>1, <1>4 DEF TicketInv, TicketTypeOK, Drop, End
    <2> QED
      BY <2>1 DEF Stands, Inserts, Drop, orderVars, itemVars, paymentVars
  <1> QED
    BY <1>2, <1>3, <1>4, EndsSafely DEF Drop

-----------------------------------------------------------------------------
(* Every action of every request keeps the invariant.                      *)
LEMMA TicketsStep == TicketInv /\ [TicketNext]_ticketVars => TicketInv'
  <1> SUFFICES ASSUME TicketInv, [TicketNext]_ticketVars PROVE TicketInv'
    OBVIOUS
  <1>1. CASE UNCHANGED ticketVars
    BY <1>1 DEF ticketVars, orderVars, itemVars, paymentVars, TicketInv, TicketTypeOK, RowsLinked,
                Stands, Clash, Inserts, Locks
  <1>2. CASE TicketNext
    <2>1. PICK c \in Callers :
            \/ \E v \in Visits, o \in Orders, lines \in SUBSET Items, closed \in BOOLEAN :
                 CreateOrderBegin(c, v, o, lines, closed)
            \/ \E o \in Orders, p \in Payments, a \in Amounts, closed \in BOOLEAN :
                 CreatePaymentBegin(c, o, p, a, closed)
            \/ TicketRequest(c)
            \/ Commit(c)
            \/ Drop(c)
      BY <1>2 DEF TicketNext
    <2>2. CASE \E v \in Visits, o \in Orders, lines \in SUBSET Items, closed \in BOOLEAN :
                 CreateOrderBegin(c, v, o, lines, closed)
      BY <2>2, CreateOrderBegins
    <2>3. CASE \E o \in Orders, p \in Payments, a \in Amounts, closed \in BOOLEAN :
                 CreatePaymentBegin(c, o, p, a, closed)
      BY <2>3, CreatePaymentBegins
    <2>4. CASE TicketRequest(c)
      BY <2>4, AddItemBegins, UpdateOrderBegins, UpdateItemBegins, UpdatePaymentBegins DEF TicketRequest
    <2>5. CASE Commit(c)
      BY <2>5, CreateOrderCommits, AddItemCommits, UpdateOrderCommits, UpdateItemCommits,
         CreatePaymentCommits, UpdatePaymentCommits DEF Commit
    <2>6. CASE Drop(c)
      BY <2>6, DropsSafely
    <2> QED
      BY <2>1, <2>2, <2>3, <2>4, <2>5, <2>6
  <1> QED
    BY <1>1, <1>2

(* The inductive invariant: whatever a request has read under the lock of  *)
(* its order still stands when it commits.                                 *)
THEOREM TicketsInvariant == TicketSpec => []TicketInv
  BY TicketsStart, TicketsStep, PTL DEF TicketSpec

(* Every row and every request keeps its type.                             *)
THEOREM TicketsTyped == TicketSpec => []TicketTypeOK
  <1>1. TicketInv => TicketTypeOK
    BY DEF TicketInv
  <1> QED
    BY <1>1, TicketsInvariant, PTL

-----------------------------------------------------------------------------
(* Which actions write which rows.                                         *)
LEMMA OnlyCommitsWrite ==
  ASSUME [TicketNext]_ticketVars
  PROVE  \/ UNCHANGED <<orderVars, itemVars, paymentVars>>
         \/ \E c \in Callers : Commit(c)
  BY ZenonT(40) DEF TicketNext, TicketRequest, CreateOrderBegin, CreatePaymentBegin, AddItemBegin, UpdateOrderBegin,
         UpdateItemBegin, UpdatePaymentBegin, Drop, ticketVars

(* A commit moves an order or a payment along an edge, or makes it.        *)
LEMMA CommitsMoveLegally ==
  ASSUME TicketInv, NEW c \in Callers, Commit(c)
  PROVE  TicketMoves
  <1>1. TicketTypeOK /\ Stands(call[c])
    BY DEF TicketInv
  <1>2. CASE CreateOrderCommit(c)
    <2>1. orderStatus[call[c].order] = "absent"
      BY <1>1, <1>2 DEF Stands, CreateOrderCommit
    <2>2. \A o \in Orders : orderStatus'[o] = IF o = call[c].order THEN "draft" ELSE orderStatus[o]
      BY <1>1, <1>2 DEF TicketTypeOK, CreateOrderCommit
    <2> QED
      BY <1>2, <2>1, <2>2 DEF TicketMoves, CreateOrderCommit, paymentVars
  <1>3. CASE UpdateOrderCommit(c)
    <2>1. CanTransition(OrderEdges, orderStatus[call[c].order], call[c].target)
      BY <1>1, <1>3 DEF Stands, UpdateOrderCommit
    <2>2. \A o \in Orders : orderStatus'[o] = IF o = call[c].order THEN call[c].target ELSE orderStatus[o]
      BY <1>1, <1>3 DEF TicketTypeOK, UpdateOrderCommit
    <2> QED
      BY <1>3, <2>1, <2>2 DEF TicketMoves, UpdateOrderCommit, paymentVars
  <1>4. CASE CreatePaymentCommit(c)
    <2>1. paymentStatus[call[c].payment] = "absent"
      BY <1>1, <1>4 DEF Stands, CreatePaymentCommit
    <2>2. \A p \in Payments :
            paymentStatus'[p] = IF p = call[c].payment THEN "unpaid" ELSE paymentStatus[p]
      BY <1>1, <1>4 DEF TicketTypeOK, CreatePaymentCommit
    <2> QED
      BY <1>4, <2>1, <2>2 DEF TicketMoves, CreatePaymentCommit, orderVars
  <1>5. CASE UpdatePaymentCommit(c)
    <2>1. CanTransition(PaymentEdges, paymentStatus[call[c].payment], call[c].target)
      BY <1>1, <1>5 DEF Stands, UpdatePaymentCommit
    <2>2. \A p \in Payments :
            paymentStatus'[p] = IF p = call[c].payment THEN call[c].target ELSE paymentStatus[p]
      BY <1>1, <1>5 DEF TicketTypeOK, UpdatePaymentCommit
    <2> QED
      BY <1>5, <2>1, <2>2 DEF TicketMoves, UpdatePaymentCommit, orderVars
  <1>6. CASE AddItemCommit(c) \/ UpdateItemCommit(c)
    BY <1>6 DEF TicketMoves, AddItemCommit, UpdateItemCommit, orderVars, paymentVars
  <1> QED
    BY <1>2, <1>3, <1>4, <1>5, <1>6 DEF Commit

(* Orders and payments keep to their lifecycles for any number of          *)
(* concurrent requests, because each move is judged and made under the     *)
(* lock of its order.                                                      *)
THEOREM TicketsFollowTheirLifecycles == TicketSpec => TicketMovesAreLegal
  <1>1. TicketInv /\ [TicketNext]_ticketVars => [TicketMoves]_ticketVars
    <2> SUFFICES ASSUME TicketInv, [TicketNext]_ticketVars PROVE TicketMoves
      OBVIOUS
    <2>1. CASE UNCHANGED <<orderVars, itemVars, paymentVars>>
      BY <2>1 DEF TicketMoves, orderVars, paymentVars
    <2>2. CASE \E c \in Callers : Commit(c)
      BY <2>2, CommitsMoveLegally
    <2> QED
      BY <2>1, <2>2, OnlyCommitsWrite
  <1> QED
    BY <1>1, TicketsInvariant, PTL DEF TicketSpec, TicketMovesAreLegal

(* A commit adds items only to an order that is new or unfinished.         *)
LEMMA CommitsKeepFinishedBills ==
  ASSUME TicketInv, NEW c \in Callers, Commit(c),
         NEW o \in Orders, orderStatus[o] \in {"served", "cancelled"}
  PROVE  \A i \in Items : itemOrder'[i] = o <=> itemOrder[i] = o
  <1>1. TicketTypeOK /\ RowsLinked /\ Stands(call[c])
    BY DEF TicketInv
  <1>2. CASE CreateOrderCommit(c) \/ AddItemCommit(c)
    <2>1. call[c].order # o
      BY <1>1, <1>2 DEF Stands, CreateOrderCommit, AddItemCommit
    <2>2. \A i \in call[c].items : itemStatus[i] = "absent"
      BY <1>1, <1>2 DEF Stands, Inserts, CreateOrderCommit, AddItemCommit
    <2>3. \A i \in Items : itemOrder'[i] = IF i \in call[c].items THEN call[c].order ELSE itemOrder[i]
      BY <1>2 DEF CreateOrderCommit, AddItemCommit
    <2>4. \A i \in Items : i \in call[c].items => itemOrder[i] = Nothing
      BY <1>1, <2>2 DEF RowsLinked
    <2> QED
      BY <2>1, <2>3, <2>4
  <1>3. CASE UpdateOrderCommit(c) \/ UpdateItemCommit(c) \/ CreatePaymentCommit(c) \/ UpdatePaymentCommit(c)
    BY <1>3 DEF UpdateOrderCommit, UpdateItemCommit, CreatePaymentCommit, UpdatePaymentCommit, itemVars
  <1> QED
    BY <1>2, <1>3 DEF Commit

(* The bill of a served or cancelled order never changes, however many     *)
(* requests were on their way when it was finished.                        *)
THEOREM BillsAreFinal == TicketSpec => FinishedBillsAreFinal
  <1>1. TicketInv /\ [TicketNext]_ticketVars =>
          [\A o \in Orders : orderStatus[o] \in {"served", "cancelled"} => Total(o)' = Total(o)]_ticketVars
    <2> SUFFICES ASSUME TicketInv, [TicketNext]_ticketVars,
                        NEW o \in Orders, orderStatus[o] \in {"served", "cancelled"}
                 PROVE  Total(o)' = Total(o)
      OBVIOUS
    <2>1. \A i \in Items : itemOrder'[i] = o <=> itemOrder[i] = o
      <3>1. CASE UNCHANGED <<orderVars, itemVars, paymentVars>>
        BY <3>1 DEF itemVars
      <3>2. CASE \E c \in Callers : Commit(c)
        BY <3>2, CommitsKeepFinishedBills
      <3> QED
        BY <3>1, <3>2, OnlyCommitsWrite
    <2>2. {i \in Items : itemOrder'[i] = o} = {i \in Items : itemOrder[i] = o}
      BY <2>1
    <2> QED
      BY <2>2 DEF Total
  <1> QED
    BY <1>1, TicketsInvariant, PTL DEF TicketSpec, FinishedBillsAreFinal
-----------------------------------------------------------------------------
(* Sums over a finite set.  SumFunctionOnSet adds up what its recursive    *)
(* function takes from the set one element at a time.                      *)
Taken(s) == CHOOSE x \in s : TRUE

OneMore(f, g, s) == IF s = {} THEN 0 ELSE f[Taken(s)] + g[s \ {Taken(s)}]

Sums(f, S, g) == g = [s \in SUBSET S |-> OneMore(f, g, s)]

(* Induction over the natural numbers, for a set instead of a predicate.   *)
LEMMA CountingUp ==
  ASSUME NEW T, 0 \in T, \A n \in Nat : n \in T => n + 1 \in T
  PROVE  \A n \in Nat : n \in T
<1> SUFFICES ASSUME Nat \ T # {} PROVE FALSE
  OBVIOUS
<1> DEFINE R == OpToRel(<, Nat)
<1>1. IsWellFoundedOn(R, Nat)
  BY NatLessThanWellFounded
<1>2. \A m, n \in Nat : m < n => <<m, n>> \in R
  BY DEF OpToRel
<1> HIDE DEF R
<1>3. PICK n \in Nat \ T : \A m \in Nat \ T : ~ (<<m, n>> \in R)
  BY <1>1, WFMin
<1>4. n # 0 /\ n - 1 \in Nat /\ n - 1 < n
  BY <1>3
<1>5. n - 1 \in T
  BY <1>2, <1>3, <1>4
<1> QED
  BY <1>3, <1>4, <1>5

(* What is left after one element is taken is smaller by one.              *)
LEMMA SubsetFacts ==
  ASSUME NEW P, IsFiniteSet(P), NEW s \in SUBSET P
  PROVE  /\ IsFiniteSet(s) /\ Cardinality(s) \in Nat
         /\ Cardinality(s) = 0 <=> s = {}
         /\ s # {} => Taken(s) \in s
         /\ \A x \in s : s \ {x} \in SUBSET P /\ Cardinality(s \ {x}) = Cardinality(s) - 1
<1>1. IsFiniteSet(s)
  BY FS_Subset
<1>2. Cardinality(s) \in Nat /\ (Cardinality(s) = 0 <=> s = {})
  BY <1>1, FS_CardinalityType, FS_EmptySet
<1>3. \A x \in s : Cardinality(s \ {x}) = Cardinality(s) - 1
  BY <1>1, FS_RemoveElement
<1>4. s # {} => Taken(s) \in s
  BY DEF Taken
<1> QED
  BY <1>1, <1>2, <1>3, <1>4

(* The recursive function exists, ...                                      *)
LEMMA SumExists ==
  ASSUME NEW P, IsFiniteSet(P), NEW f \in [P -> Nat]
  PROVE  \E g \in [SUBSET P -> Nat] : Sums(f, P, g)
<1> DEFINE Upto(n) == {s \in SUBSET P : Cardinality(s) <= n}
           Defined(n, g) == \A s \in Upto(n) : g[s] = OneMore(f, g, s)
           T == {n \in Nat : \E g \in [Upto(n) -> Nat] : Defined(n, g)}
<1>1. 0 \in T
  <2>1. Upto(0) \subseteq {{}}
    <3>1. \A s \in Upto(0) : s = {}
      BY SubsetFacts
    <3> QED
      BY <3>1
  <2> DEFINE g == [s \in Upto(0) |-> 0]
  <2>2. g \in [Upto(0) -> Nat] /\ \A s \in Upto(0) : g[s] = OneMore(f, g, s)
    BY <2>1 DEF OneMore
  <2> QED
    BY <2>2
<1>2. ASSUME NEW n \in Nat, n \in T
      PROVE  n + 1 \in T
  <2>1. PICK g \in [Upto(n) -> Nat] : Defined(n, g)
    BY <1>2
  <2> DEFINE h == [s \in Upto(n + 1) |-> OneMore(f, g, s)]
  <2>2. ASSUME NEW s \in Upto(n + 1), s # {}
        PROVE  /\ Taken(s) \in P /\ s \ {Taken(s)} \in Upto(n)
               /\ s \ {Taken(s)} \in Upto(n + 1)
    BY <2>2, SubsetFacts
  <2>3. ASSUME NEW s \in Upto(n + 1)
        PROVE  OneMore(f, g, s) \in Nat
    BY <2>2, <2>1 DEF OneMore
  <2>4. h \in [Upto(n + 1) -> Nat]
    BY <2>3
  <2>5. \A s \in Upto(n) : s \in Upto(n + 1)
    BY SubsetFacts
  <2>6. \A s \in Upto(n) : h[s] = g[s]
    BY <2>1, <2>5
  <2>7. ASSUME NEW s \in Upto(n + 1)
        PROVE  h[s] = OneMore(f, h, s)
    <3>1. h[s] = OneMore(f, g, s)
      OBVIOUS
    <3>2. s # {} => h[s \ {Taken(s)}] = g[s \ {Taken(s)}]
      BY <2>2, <2>6
    <3> HIDE DEF h
    <3> QED
      BY <3>1, <3>2 DEF OneMore
  <2> HIDE DEF h
  <2>8. Defined(n + 1, h)
    BY <2>7
  <2> HIDE DEF Upto, Defined
  <2>9. \E k \in [Upto(n + 1) -> Nat] : Defined(n + 1, k)
    BY <2>4, <2>8
  <2> QED
    BY <2>9
<1> HIDE DEF T
<1>3. \A n \in Nat : n \in T
  BY <1>1, <1>2, CountingUp
<1>4. Cardinality(P) \in Nat
  BY FS_CardinalityType
<1>5. PICK g \in [Upto(Cardinality(P)) -> Nat] : Defined(Cardinality(P), g)
  BY <1>3, <1>4 DEF T
<1>6. Upto(Cardinality(P)) = SUBSET P
  BY FS_Subset
<1>7. g \in [SUBSET P -> Nat] /\ \A s \in SUBSET P : g[s] = OneMore(f, g, s)
  BY <1>5, <1>6
<1>8. Sums(f, P, g)
  <2>1. g = [s \in SUBSET P |-> g[s]]
    BY <1>7
  <2> QED
    BY <1>7, <2>1 DEF Sums
<1> QED
  BY <1>7, <1>8

(* ... it depends only on what it adds up, ...                             *)
LEMMA SumsAgree ==
  ASSUME NEW P, NEW Q, NEW f, NEW g, NEW h, NEW k, Sums(f, P, g), Sums(h, Q, k),
         NEW S, IsFiniteSet(S), S \subseteq P, S \subseteq Q, \A x \in S : f[x] = h[x]
  PROVE  g[S] = k[S]
<1> DEFINE T == {n \in Nat : \A s \in SUBSET S : Cardinality(s) <= n => g[s] = k[s]}
<1>1. \A s \in SUBSET S : g[s] = OneMore(f, g, s) /\ k[s] = OneMore(h, k, s)
  BY DEF Sums
<1>2. 0 \in T
  <2>1. ASSUME NEW s \in SUBSET S, Cardinality(s) <= 0
        PROVE  g[s] = k[s]
    <3>1. s = {}
      BY <2>1, SubsetFacts
    <3> QED
      BY <1>1, <3>1 DEF OneMore
  <2> QED
    BY <2>1
<1>3. ASSUME NEW n \in Nat, n \in T
      PROVE  n + 1 \in T
  <2>1. ASSUME NEW s \in SUBSET S, Cardinality(s) <= n + 1
        PROVE  g[s] = k[s]
    <3>1. CASE s = {}
      BY <1>1, <3>1 DEF OneMore
    <3>2. CASE s # {}
      <4>1. Taken(s) \in s /\ s \ {Taken(s)} \in SUBSET S /\ Cardinality(s \ {Taken(s)}) <= n
        BY <2>1, <3>2, SubsetFacts
      <4>2. g[s \ {Taken(s)}] = k[s \ {Taken(s)}] /\ f[Taken(s)] = h[Taken(s)]
        BY <1>3, <4>1
      <4> QED
        BY <1>1, <3>2, <4>2 DEF OneMore
    <3> QED
      BY <3>1, <3>2
  <2> QED
    BY <2>1
<1> HIDE DEF T
<1>4. \A n \in Nat : n \in T
  BY <1>2, <1>3, CountingUp
<1>5. Cardinality(S) \in Nat /\ Cardinality(S) <= Cardinality(S)
  BY FS_CardinalityType
<1> QED
  BY <1>4, <1>5 DEF T

(* ... and not on the order in which it takes the elements.                *)
LEMMA SumsAdd ==
  ASSUME NEW P, IsFiniteSet(P), NEW f \in [P -> Nat], NEW g \in [SUBSET P -> Nat], Sums(f, P, g)
  PROVE  \A s \in SUBSET P : \A x \in P \ s : g[s \cup {x}] = g[s] + f[x]
<1> DEFINE T == {n \in Nat : \A s \in SUBSET P : Cardinality(s) <= n =>
                   \A x \in P \ s : g[s \cup {x}] = g[s] + f[x]}
<1>1. \A s \in SUBSET P : g[s] = OneMore(f, g, s)
  BY DEF Sums
<1>2. ASSUME NEW s \in SUBSET P, NEW x \in P \ s, Taken(s \cup {x}) = x
      PROVE  g[s \cup {x}] = g[s] + f[x]
  <2>1. s \cup {x} \in SUBSET P /\ s \cup {x} # {} /\ (s \cup {x}) \ {x} = s
    OBVIOUS
  <2>2. g[s \cup {x}] = f[x] + g[s]
    BY <1>1, <1>2, <2>1 DEF OneMore
  <2> QED
    BY <2>2
<1>3. ASSUME NEW s \in SUBSET P
      PROVE  \A x : Taken(s \cup {x}) \in s \cup {x}
  BY DEF Taken
<1>4. 0 \in T
  <2>1. ASSUME NEW s \in SUBSET P, Cardinality(s) <= 0, NEW x \in P \ s
        PROVE  g[s \cup {x}] = g[s] + f[x]
    <3>1. s = {}
      BY <2>1, SubsetFacts
    <3>2. Taken(s \cup {x}) = x
      BY <1>3, <3>1
    <3> QED
      BY <1>2, <3>2
  <2> QED
    BY <2>1
<1>5. ASSUME NEW n \in Nat, n \in T
      PROVE  n + 1 \in T
  <2>1. ASSUME NEW s \in SUBSET P, Cardinality(s) <= n + 1, NEW x \in P \ s
        PROVE  g[s \cup {x}] = g[s] + f[x]
    <3>1. CASE Taken(s \cup {x}) = x
      BY <1>2, <3>1
    <3>2. CASE Taken(s \cup {x}) # x
      <4> DEFINE c == Taken(s \cup {x})
                 r == s \ {c}
      <4>1. c \in s /\ c # x
        BY <1>3, <3>2
      <4> HIDE DEF c
      <4>2. r \in SUBSET P /\ Cardinality(r) <= n
        BY <2>1, <4>1, SubsetFacts
      <4>3. x \in P \ r /\ c \in P \ r /\ r \cup {c} = s /\ (s \cup {x}) \ {c} = r \cup {x}
        BY <4>1
      <4> HIDE DEF r
      <4>4. g[r \cup {x}] = g[r] + f[x] /\ g[r \cup {c}] = g[r] + f[c]
        BY <1>5, <4>2, <4>3
      <4>5. s \cup {x} \in SUBSET P /\ s \cup {x} # {}
        OBVIOUS
      <4>6. g[s \cup {x}] = f[c] + g[(s \cup {x}) \ {c}]
        BY <1>1, <4>5 DEF OneMore, c
      <4>7. g[r] \in Nat /\ f[x] \in Nat /\ f[c] \in Nat
        BY <4>2, <4>3
      <4>8. g[s \cup {x}] = f[c] + (g[r] + f[x]) /\ g[s] = g[r] + f[c]
        BY <4>3, <4>4, <4>6
      <4> QED
        BY <4>7, <4>8
    <3> QED
      BY <3>1, <3>2
  <2> QED
    BY <2>1
<1> HIDE DEF T
<1>6. \A n \in Nat : n \in T
  BY <1>4, <1>5, CountingUp
<1>7. ASSUME NEW s \in SUBSET P, NEW x \in P \ s
      PROVE  g[s \cup {x}] = g[s] + f[x]
  <2>1. Cardinality(s) \in Nat /\ Cardinality(s) <= Cardinality(s)
    BY SubsetFacts
  <2> QED
    BY <1>6, <2>1 DEF T
<1> QED
  BY <1>7

(* SumFunctionOnSet is that function.                                      *)
LEMMA SumIsTaken ==
  ASSUME NEW P, IsFiniteSet(P), NEW f \in [P -> Nat]
  PROVE  \E g \in [SUBSET P -> Nat] :
           Sums(f, P, g) /\ \A S \in SUBSET P : SumFunctionOnSet(f, S) = g[S]
<1>1. PICK g \in [SUBSET P -> Nat] : Sums(f, P, g)
  BY SumExists
<1>2. ASSUME NEW S \in SUBSET P
      PROVE  SumFunctionOnSet(f, S) = g[S]
  <2> DEFINE h == [s \in SUBSET S |-> g[s]]
             it == CHOOSE k : Sums(f, S, k)
  <2>1. \A s \in SUBSET S : h[s] = OneMore(f, h, s)
    <3>1. \A s \in SUBSET S : s \in SUBSET P /\ s \ {Taken(s)} \in SUBSET S
      OBVIOUS
    <3>2. \A s \in SUBSET P : g[s] = OneMore(f, g, s)
      BY <1>1 DEF Sums
    <3> QED
      BY <3>1, <3>2 DEF OneMore
  <2>2. Sums(f, S, h)
    <3>1. h = [s \in SUBSET S |-> h[s]]
      OBVIOUS
    <3> HIDE DEF h
    <3> QED
      BY <2>1, <3>1 DEF Sums
  <2>3. Sums(f, S, it)
    BY <2>2
  <2>4. SumFunctionOnSet(f, S) = it[S]
    BY DEF Sums, OneMore, Taken, SumFunctionOnSet, FoldFunctionOnSet, MapThenFoldSet
  <2> HIDE DEF it
  <2>5. IsFiniteSet(S)
    BY SubsetFacts
  <2>6. it[S] = g[S]
    BY <1>1, <2>3, <2>5, SumsAgree
  <2> QED
    BY <2>4, <2>6
<1> QED
  BY <1>1, <1>2

(* What there is to know of a sum: an element adds its value, ...          *)
LEMMA SumAdds ==
  ASSUME NEW P, IsFiniteSet(P), NEW f \in [P -> Nat], NEW S \in SUBSET P
  PROVE  /\ SumFunctionOnSet(f, S) \in Nat
         /\ \A x \in P \ S :
              SumFunctionOnSet(f, S \cup {x}) = SumFunctionOnSet(f, S) + f[x]
<1>1. PICK g \in [SUBSET P -> Nat] :
        Sums(f, P, g) /\ \A s \in SUBSET P : SumFunctionOnSet(f, s) = g[s]
  BY SumIsTaken, ZenonT(40)
<1>2. \A x \in P \ S : S \cup {x} \in SUBSET P /\ g[S \cup {x}] = g[S] + f[x]
  BY <1>1, SumsAdd
<1> QED
  BY <1>1, <1>2

(* ... more elements give no less, ...                                     *)
LEMMA SumGrows ==
  ASSUME NEW P, IsFiniteSet(P), NEW f \in [P -> Nat], NEW R, NEW S \in SUBSET P, R \subseteq S
  PROVE  SumFunctionOnSet(f, R) <= SumFunctionOnSet(f, S)
<1> DEFINE Sum(s) == SumFunctionOnSet(f, s)
           T == {n \in Nat : \A s \in SUBSET P :
                   R \subseteq s /\ Cardinality(s) <= n => Sum(R) <= Sum(s)}
<1> HIDE DEF Sum
<1>1. \A s \in SUBSET P : Sum(s) \in Nat /\ \A x \in P \ s : Sum(s \cup {x}) = Sum(s) + f[x]
  BY SumAdds DEF Sum
<1>2. 0 \in T
  <2>1. ASSUME NEW s \in SUBSET P, R \subseteq s, Cardinality(s) <= 0
        PROVE  Sum(R) <= Sum(s)
    <3>1. R = s
      BY <2>1, SubsetFacts
    <3> QED
      BY <1>1, <3>1
  <2> QED
    BY <2>1
<1>3. ASSUME NEW n \in Nat, n \in T
      PROVE  n + 1 \in T
  <2>1. ASSUME NEW s \in SUBSET P, R \subseteq s, Cardinality(s) <= n + 1
        PROVE  Sum(R) <= Sum(s)
    <3>1. CASE R = s
      BY <1>1, <3>1
    <3>2. CASE R # s
      <4>1. PICK x \in s : x \notin R
        BY <2>1, <3>2
      <4>2. /\ s \ {x} \in SUBSET P /\ R \subseteq s \ {x} /\ Cardinality(s \ {x}) <= n
            /\ x \in P \ (s \ {x}) /\ (s \ {x}) \cup {x} = s
        BY <2>1, <4>1, SubsetFacts
      <4>3. Sum(R) <= Sum(s \ {x})
        BY <1>3, <4>2
      <4>4. Sum(s) = Sum(s \ {x}) + f[x] /\ Sum(s \ {x}) \in Nat /\ f[x] \in Nat
        BY <1>1, <4>2
      <4>5. Sum(R) \in Nat
        BY <1>1, <2>1
      <4> QED
        BY <4>3, <4>4, <4>5
    <3> QED
      BY <3>1, <3>2
  <2> QED
    BY <2>1
<1> HIDE DEF T
<1>4. \A n \in Nat : n \in T
  BY <1>2, <1>3, CountingUp
<1>5. Cardinality(S) \in Nat /\ Cardinality(S) <= Cardinality(S)
  BY SubsetFacts
<1> QED
  BY <1>4, <1>5 DEF T, Sum

(* ... and equal values of the elements the same.                          *)
LEMMA SumOfEquals ==
  ASSUME NEW P, IsFiniteSet(P), NEW f \in [P -> Nat], NEW h \in [P -> Nat], NEW S \in SUBSET P,
         \A x \in S : f[x] = h[x]
  PROVE  SumFunctionOnSet(f, S) = SumFunctionOnSet(h, S)
<1>1. PICK g \in [SUBSET P -> Nat] :
        Sums(f, P, g) /\ \A s \in SUBSET P : SumFunctionOnSet(f, s) = g[s]
  BY SumIsTaken
<1>2. PICK k \in [SUBSET P -> Nat] :
        Sums(h, P, k) /\ \A s \in SUBSET P : SumFunctionOnSet(h, s) = k[s]
  BY SumIsTaken
<1>3. IsFiniteSet(S)
  BY SubsetFacts
<1>4. g[S] = k[S]
  BY <1>1, <1>2, <1>3, SumsAgree
<1> QED
  BY <1>1, <1>2, <1>4

-----------------------------------------------------------------------------
(* The balance of an order.                                                *)

(* A payment within ten times the balance, in tenths of a cent, is stored  *)
(* as a payment within the balance.                                        *)
LEMMA StoredFits ==
  ASSUME NEW a \in Nat, NEW k \in Nat, a <= 10 * k
  PROVE  Stored(a) \in Nat /\ Stored(a) <= k
  BY DEF Stored

(* Sums of what the rows hold are natural numbers.                         *)
LEMMA BalancesTyped ==
  ASSUME TicketTypeOK, NEW o
  PROVE  Recorded(o) \in Nat /\ Total(o) \in Nat
  BY RowsAssumption, SumAdds DEF TicketTypeOK, Recorded, Total

(* Items never leave their order: its total does not shrink.               *)
LEMMA TotalNeverShrinks ==
  ASSUME TicketInv, [TicketNext]_ticketVars, NEW o \in Orders
  PROVE  Total(o) \in Nat /\ Total(o)' \in Nat /\ Total(o) <= Total(o)'
<1> DEFINE lines == {i \in Items : itemOrder[i] = o}
           next == {i \in Items : itemOrder'[i] = o}
<1>1. \A i \in Items : itemOrder[i] = o => itemOrder'[i] = o
  <2>1. CASE UNCHANGED <<orderVars, itemVars, paymentVars>>
    BY <2>1 DEF itemVars
  <2>2. ASSUME NEW c \in Callers, CreateOrderCommit(c) \/ AddItemCommit(c)
        PROVE  \A i \in Items : itemOrder[i] = o => itemOrder'[i] = o
    <3>1. \A i \in call[c].items : itemStatus[i] = "absent"
      BY <2>2 DEF TicketInv, Stands, Inserts, CreateOrderCommit, AddItemCommit
    <3>2. \A i \in Items : itemOrder'[i] = IF i \in call[c].items THEN call[c].order ELSE itemOrder[i]
      BY <2>2 DEF CreateOrderCommit, AddItemCommit
    <3> QED
      BY <3>1, <3>2 DEF TicketInv, RowsLinked
  <2>3. ASSUME NEW c \in Callers,
               \/ UpdateOrderCommit(c) \/ UpdateItemCommit(c)
               \/ CreatePaymentCommit(c) \/ UpdatePaymentCommit(c)
        PROVE  UNCHANGED itemOrder
    BY <2>3 DEF UpdateOrderCommit, UpdateItemCommit, CreatePaymentCommit, UpdatePaymentCommit, itemVars
  <2> QED
    BY <2>1, <2>2, <2>3, OnlyCommitsWrite DEF Commit
<1>2. lines \in SUBSET Items /\ next \in SUBSET Items /\ lines \subseteq next
  BY <1>1
<1>3. Total(o) = SumFunctionOnSet(LineTotal, lines) /\ Total(o)' = SumFunctionOnSet(LineTotal, next)
  BY DEF Total
<1> HIDE DEF lines, next
<1> QED
  BY <1>2, <1>3, RowsAssumption, SumAdds, SumGrows

(* The payments an order counts: a commit that is not a payment's of this  *)
(* order leaves them and their amounts alone.                              *)
PaymentsCounted(o) == {p \in Payments : paymentOrder[p] = o /\ Live(p)}

LEMMA OthersRecordNothing ==
  ASSUME TicketInv, NEW c \in Callers, Commit(c), NEW o \in Orders,
         ~(call[c].at \in {"paying", "moving_payment"} /\ call[c].order = o)
  PROVE  Recorded(o)' = Recorded(o)
<1> DEFINE p == call[c].payment
<1>1. TicketTypeOK /\ RowsLinked /\ Stands(call[c])
  BY DEF TicketInv
<1>2. CASE UNCHANGED paymentVars
  BY <1>2 DEF Recorded, Live, paymentVars
<1>3. ASSUME CreatePaymentCommit(c) \/ UpdatePaymentCommit(c)
      PROVE  Recorded(o)' = Recorded(o)
  <2>1. p \in Payments /\ call[c].order # o /\ amount \in [Payments -> Nat]
    BY <1>1, <1>3 DEF Stands, CreatePaymentCommit, UpdatePaymentCommit, TicketTypeOK
  <2>2. amount' \in [Payments -> Nat]
    BY <1>1, <1>3, <2>1, CallsAreTyped DEF CreatePaymentCommit, UpdatePaymentCommit, TicketTypeOK
  <2>3. paymentOrder[p] # o /\ paymentOrder'[p] # o
    BY <1>1, <1>3, <2>1 DEF Stands, CreatePaymentCommit, UpdatePaymentCommit, RowsLinked, TicketTypeOK
  <2>4. \A q \in Payments \ {p} :
          /\ paymentOrder'[q] = paymentOrder[q] /\ paymentStatus'[q] = paymentStatus[q]
          /\ amount'[q] = amount[q]
    BY <1>1, <1>3 DEF CreatePaymentCommit, UpdatePaymentCommit, TicketTypeOK
  <2>5. PaymentsCounted(o)' = PaymentsCounted(o) /\ p \notin PaymentsCounted(o) /\ PaymentsCounted(o) \in SUBSET Payments
    BY <2>3, <2>4 DEF PaymentsCounted, Live
  <2>6. \A q \in PaymentsCounted(o) : amount'[q] = amount[q]
    BY <2>4, <2>5
  <2>7. SumFunctionOnSet(amount', PaymentsCounted(o)) = SumFunctionOnSet(amount, PaymentsCounted(o))
    BY <2>1, <2>2, <2>5, <2>6, RowsAssumption, SumOfEquals
  <2> QED
    BY <2>5, <2>7 DEF Recorded, PaymentsCounted
<1> QED
  BY <1>2, <1>3 DEF Commit, CreateOrderCommit, AddItemCommit, UpdateOrderCommit, UpdateItemCommit

(* A new payment adds its amount to what is recorded, ...                  *)
LEMMA PaymentIsRecorded ==
  ASSUME TicketInv, NEW c \in Callers, CreatePaymentCommit(c), NEW o \in Orders, call[c].order = o
  PROVE  Recorded(o)' = Recorded(o) + call[c].cents
<1> DEFINE p == call[c].payment
<1>1. TicketTypeOK /\ RowsLinked /\ Stands(call[c])
  BY DEF TicketInv
<1>2. /\ p \in Payments /\ call[c].cents \in Nat /\ paymentStatus[p] = "absent"
      /\ amount \in [Payments -> Nat]
  BY <1>1, CallsAreTyped DEF Stands, CreatePaymentCommit, TicketTypeOK
<1>3. /\ amount' = [amount EXCEPT ![p] = call[c].cents]
      /\ paymentStatus' = [paymentStatus EXCEPT ![p] = "unpaid"]
      /\ paymentOrder' = [paymentOrder EXCEPT ![p] = o]
  BY DEF CreatePaymentCommit
<1> HIDE DEF p
<1>4. amount' \in [Payments -> Nat] /\ amount'[p] = call[c].cents
  BY <1>2, <1>3
<1>5. \A q \in Payments \ {p} :
        /\ paymentOrder'[q] = paymentOrder[q] /\ paymentStatus'[q] = paymentStatus[q]
        /\ amount'[q] = amount[q]
  BY <1>1, <1>2, <1>3 DEF TicketTypeOK
<1>6. paymentOrder'[p] = o /\ paymentStatus'[p] = "unpaid"
  BY <1>1, <1>2, <1>3 DEF TicketTypeOK
<1>7. /\ PaymentsCounted(o) \in SUBSET Payments /\ p \in Payments \ PaymentsCounted(o)
      /\ PaymentsCounted(o)' = PaymentsCounted(o) \cup {p}
  BY <1>2, <1>5, <1>6 DEF Live, PaymentsCounted
<1>8. \A q \in PaymentsCounted(o) : amount'[q] = amount[q]
  BY <1>5, <1>7
<1>9. SumFunctionOnSet(amount', PaymentsCounted(o)) = SumFunctionOnSet(amount, PaymentsCounted(o))
  BY <1>2, <1>4, <1>7, <1>8, RowsAssumption, SumOfEquals
<1>10. SumFunctionOnSet(amount', PaymentsCounted(o) \cup {p})
         = SumFunctionOnSet(amount', PaymentsCounted(o)) + amount'[p]
  BY <1>4, <1>7, RowsAssumption, SumAdds
<1>11. /\ Recorded(o) = SumFunctionOnSet(amount, PaymentsCounted(o))
       /\ Recorded(o)' = SumFunctionOnSet(amount', PaymentsCounted(o)')
  BY DEF Recorded, PaymentsCounted
<1> QED
  BY <1>4, <1>7, <1>9, <1>10, <1>11

(* ... and a payment that moves without being revived adds nothing.        *)
LEMMA MovesRecordNoMore ==
  ASSUME TicketInv, NEW c \in Callers, UpdatePaymentCommit(c), NEW o \in Orders, call[c].order = o,
         \A p \in Payments : paymentOrder[p] = o => ~Revived(p)
  PROVE  Recorded(o)' <= Recorded(o)
<1> DEFINE p == call[c].payment
<1>1. TicketTypeOK /\ RowsLinked /\ Stands(call[c]) /\ amount \in [Payments -> Nat]
  BY DEF TicketInv, TicketTypeOK
<1>2. /\ p \in Payments /\ paymentOrder[p] = o
      /\ CanTransition(PaymentEdges, paymentStatus[p], call[c].target)
  BY <1>1 DEF Stands, UpdatePaymentCommit
<1>3. /\ paymentStatus' = [paymentStatus EXCEPT ![p] = call[c].target]
      /\ amount' = amount /\ paymentOrder' = paymentOrder
  BY DEF UpdatePaymentCommit
<1> HIDE DEF p
<1>4. /\ paymentStatus'[p] = call[c].target
      /\ \A q \in Payments \ {p} : paymentStatus'[q] = paymentStatus[q]
  BY <1>1, <1>2, <1>3 DEF TicketTypeOK
<1>5. Live(p)
  BY <1>2, <1>4 DEF Live, Revived, CanTransition, PaymentEdges
<1>6. PaymentsCounted(o)' \subseteq PaymentsCounted(o) /\ PaymentsCounted(o) \in SUBSET Payments
  <2>1. ASSUME NEW q \in Payments, Live(q)'
        PROVE  Live(q)
    <3>1. CASE q = p
      BY <1>5, <3>1 DEF Live
    <3>2. CASE q # p
      <4>1. paymentStatus'[q] = paymentStatus[q]
        BY <1>4, <3>2
      <4> QED
        BY <2>1, <4>1 DEF Live
    <3> QED
      BY <3>1, <3>2
  <2>2. /\ PaymentsCounted(o)' = {q \in Payments : paymentOrder'[q] = o /\ Live(q)'}
        /\ PaymentsCounted(o) = {q \in Payments : paymentOrder[q] = o /\ Live(q)}
    BY DEF PaymentsCounted
  <2> QED
    BY <1>3, <2>1, <2>2
<1>7. /\ Recorded(o) = SumFunctionOnSet(amount, PaymentsCounted(o))
      /\ Recorded(o)' = SumFunctionOnSet(amount, PaymentsCounted(o)')
  BY <1>3 DEF Recorded, PaymentsCounted
<1> QED
  BY <1>1, <1>6, <1>7, RowsAssumption, SumGrows

(* A request that is paying has been at it, or begins to.                  *)
LEMMA PayingCalls ==
  ASSUME TicketInv, [TicketNext]_ticketVars, NEW d \in Callers, call'[d].at = "paying"
  PROVE  \/ call'[d] = call[d]
         \/ \E o \in Orders, p \in Payments, a \in Amounts, closed \in BOOLEAN :
              CreatePaymentBegin(d, o, p, a, closed)
<1>1. call \in [Callers -> Call]
  BY DEF TicketInv, TicketTypeOK
<1>2. CASE UNCHANGED ticketVars
  BY <1>2 DEF ticketVars
<1>3. ASSUME NEW c \in Callers, Commit(c) \/ Drop(c)
      PROVE  call'[d] = call[d]
  <2>1. call' = [call EXCEPT ![c] = NoCall]
    BY <1>3 DEF Commit, Drop, End, CreateOrderCommit, AddItemCommit, UpdateOrderCommit,
               UpdateItemCommit, CreatePaymentCommit, UpdatePaymentCommit
  <2> QED
    BY <1>1, <2>1, NoCallIsIdle
<1>4. ASSUME NEW c \in Callers, NEW r, Start(c, r), r.at # "paying"
      PROVE  call'[d] = call[d]
  BY <1>1, <1>4 DEF Start
<1>5. ASSUME NEW c \in Callers, NEW v \in Visits, NEW o \in Orders, NEW lines \in SUBSET Items,
             NEW closed \in BOOLEAN, CreateOrderBegin(c, v, o, lines, closed)
      PROVE  call'[d] = call[d]
  BY <1>4, <1>5 DEF CreateOrderBegin, NoCall
<1>6. ASSUME NEW c \in Callers, TicketRequest(c)
      PROVE  call'[d] = call[d]
  BY <1>4, <1>6 DEF TicketRequest, AddItemBegin, UpdateOrderBegin, UpdateItemBegin, UpdatePaymentBegin, NoCall
<1>7. ASSUME NEW c \in Callers, NEW o \in Orders, NEW p \in Payments, NEW a \in Amounts,
             NEW closed \in BOOLEAN, CreatePaymentBegin(c, o, p, a, closed)
      PROVE  call'[d] = call[d] \/ c = d
  BY <1>1, <1>7 DEF CreatePaymentBegin, Start
<1> QED
  BY <1>2, <1>3, <1>5, <1>6, <1>7 DEF TicketNext

(* A payment stays covered while it is on its way: its request holds the   *)
(* order's lock, so that no other payment of the order is written.         *)
LEMMA CoverKept == TicketInv /\ PaymentsCovered /\ [TicketNext]_ticketVars => PaymentsCovered'
<1> SUFFICES ASSUME TicketInv, PaymentsCovered, [TicketNext]_ticketVars,
                    NEW d \in Callers, call'[d].at = "paying",
                    NEW o, call'[d].order = o
             PROVE  Recorded(o)' + call'[d].cents <= Total(o)'
  BY DEF PaymentsCovered
<1>1. TicketTypeOK /\ RowsLinked /\ Stands(call[d])
  BY DEF TicketInv
<1>2. CASE call'[d] = call[d]
  <2>1. o \in Orders /\ call[d].cents \in Nat
    BY <1>1, <1>2, CallsAreTyped DEF Stands, CallSteps
  <2>2. Recorded(o)' = Recorded(o)
    <3>1. CASE UNCHANGED <<orderVars, itemVars, paymentVars>>
      BY <3>1 DEF Recorded, Live, paymentVars
    <3>2. ASSUME NEW c \in Callers, Commit(c)
          PROVE  Recorded(o)' = Recorded(o)
      <4>1. CASE call[c].at \in {"paying", "moving_payment"} /\ call[c].order = o
        <5>1. Clash(call[c], call[d])
          BY <1>2, <4>1 DEF Clash, Locks
        <5>2. c = d
          BY <5>1 DEF TicketInv
        <5>3. call'[c] = NoCall
          BY <1>1, <3>2 DEF Commit, End, CreateOrderCommit, AddItemCommit, UpdateOrderCommit,
             UpdateItemCommit, CreatePaymentCommit, UpdatePaymentCommit, TicketTypeOK
        <5> QED
          BY <5>2, <5>3, NoCallIsIdle
      <4>2. CASE ~(call[c].at \in {"paying", "moving_payment"} /\ call[c].order = o)
        BY <2>1, <3>2, <4>2, OthersRecordNothing
      <4> QED
        BY <4>1, <4>2
    <3> QED
      BY <3>1, <3>2, OnlyCommitsWrite
  <2>3. Total(o) \in Nat /\ Total(o)' \in Nat /\ Total(o) <= Total(o)' /\ Recorded(o) \in Nat
    BY <1>1, <2>1, TotalNeverShrinks, BalancesTyped
  <2>4. Recorded(o) + call[d].cents <= Total(o)
    BY <1>2 DEF PaymentsCovered
  <2> QED
    BY <1>2, <2>1, <2>2, <2>3, <2>4
<1>3. ASSUME NEW q \in Orders, NEW p \in Payments, NEW a \in Amounts, NEW closed \in BOOLEAN,
             CreatePaymentBegin(d, q, p, a, closed)
      PROVE  Recorded(o)' + call'[d].cents <= Total(o)'
  <2>1. q = o /\ call'[d].cents = Stored(a)
    BY <1>1, <1>3 DEF CreatePaymentBegin, Start, NoCall, TicketTypeOK
  <2>2. Recorded(o)' = Recorded(o) /\ Total(o)' = Total(o)
    BY <1>3 DEF CreatePaymentBegin, Recorded, Total, Live, itemVars, paymentVars
  <2>3. Recorded(o) \in Nat /\ Total(o) \in Nat
    BY <1>1, BalancesTyped
  <2>4. Outstanding(o) \in Nat /\ a \in Nat /\ a > 0 /\ a <= 10 * Outstanding(o)
    BY <1>3, <2>1, <2>3 DEF CreatePaymentBegin, Outstanding
  <2>5. Stored(a) \in Nat /\ Stored(a) <= Outstanding(o)
    BY <2>4, StoredFits
  <2>6. Outstanding(o) # 0
    BY <2>4
  <2> QED
    BY <2>1, <2>2, <2>3, <2>5, <2>6 DEF Outstanding
<1> QED
  BY <1>2, <1>3, PayingCalls

(* For any number of payers and payments, the payment a request is about   *)
(* to insert is covered by the balance at that moment.                     *)
THEOREM PaymentsStayCovered == TicketSpec => []PaymentsCovered
<1>1. TicketInit => PaymentsCovered
  BY DEF TicketInit, PaymentsCovered, NoCall
<1> QED
  BY <1>1, CoverKept, TicketsInvariant, PTL DEF TicketSpec

(* An order becomes overpaid only when a failed payment of it is revived.  *)
LEMMA OverpaidByRevival ==
  ASSUME TicketInv, PaymentsCovered, [TicketNext]_ticketVars, NEW o \in Orders,
         ~Overpaid(o), Overpaid(o)'
  PROVE  \E p \in Payments : paymentOrder[p] = o /\ Revived(p)
<1> SUFFICES ASSUME \A p \in Payments : paymentOrder[p] = o => ~Revived(p)
             PROVE  FALSE
  OBVIOUS
<1>1. TicketTypeOK
  BY DEF TicketInv
<1>2. /\ Total(o) \in Nat /\ Total(o)' \in Nat /\ Total(o) <= Total(o)' /\ Recorded(o) \in Nat
      /\ Recorded(o) <= Total(o)
  BY <1>1, TotalNeverShrinks, BalancesTyped DEF Overpaid
<1>3. Recorded(o)' \in Nat /\ ~(Recorded(o)' <= Total(o))
  <2>1. Recorded(o)' \in Nat
    <3>1. amount' \in [Payments -> Nat]
      BY TicketsStep DEF TicketInv, TicketTypeOK
    <3> QED
      BY <3>1, RowsAssumption, SumAdds DEF Recorded
  <2> QED
    BY <1>2, <2>1 DEF Overpaid
<1>4. CASE UNCHANGED <<orderVars, itemVars, paymentVars>>
  <2>1. Recorded(o)' = Recorded(o)
    BY <1>4 DEF Recorded, Live, paymentVars
  <2> QED
    BY <1>2, <1>3, <2>1
<1>5. ASSUME NEW c \in Callers, Commit(c)
      PROVE  FALSE
  <2>1. CASE ~(call[c].at \in {"paying", "moving_payment"} /\ call[c].order = o)
    BY <1>2, <1>3, <1>5, <2>1, OthersRecordNothing
  <2>2. CASE call[c].at = "paying" /\ call[c].order = o
    <3>1. CreatePaymentCommit(c)
      BY <1>5, <2>2 DEF Commit, CreateOrderCommit, AddItemCommit, UpdateOrderCommit,
                       UpdateItemCommit, UpdatePaymentCommit
    <3>2. Recorded(o)' = Recorded(o) + call[c].cents
      BY <2>2, <3>1, PaymentIsRecorded
    <3>3. Recorded(o) + call[c].cents <= Total(o)
      BY <2>2 DEF PaymentsCovered
    <3> QED
      BY <1>3, <3>2, <3>3
  <2>3. CASE call[c].at = "moving_payment" /\ call[c].order = o
    <3>1. UpdatePaymentCommit(c)
      BY <1>5, <2>3 DEF Commit, CreateOrderCommit, AddItemCommit, UpdateOrderCommit,
                       UpdateItemCommit, CreatePaymentCommit
    <3>2. Recorded(o)' <= Recorded(o)
      BY <2>3, <3>1, MovesRecordNoMore
    <3> QED
      BY <1>2, <1>3, <3>2
  <2> QED
    BY <2>1, <2>2, <2>3
<1> QED
  BY <1>4, <1>5, OnlyCommitsWrite

(* Whoever pays at the same time, for any bill and any amounts, create_    *)
(* payment overpays no order, for all its rounding: only a revival does.   *)
THEOREM OnlyRevivalsOverpay == TicketSpec => OnlyRevivalOverpays
<1>1. TicketInv /\ PaymentsCovered /\ [TicketNext]_ticketVars =>
        [\A o \in Orders : ~Overpaid(o) /\ Overpaid(o)' =>
           \E p \in Payments : paymentOrder[p] = o /\ Revived(p)]_ticketVars
  BY OverpaidByRevival
<1> QED
  BY <1>1, TicketsInvariant, PaymentsStayCovered, PTL DEF TicketSpec, OnlyRevivalOverpays
=============================================================================
