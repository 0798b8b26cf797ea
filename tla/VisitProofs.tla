----------------------------- MODULE VisitProofs ----------------------------
(**************************************************************************)
(* The floor and the tickets behave in one system as they do each by       *)
(* themselves, and under QuietClose what a close has counted and what an   *)
(* order or a payment has read of its visit is still so at their commits.  *)
(**************************************************************************)
EXTENDS Visit, FloorProofs, TicketingProofs

-----------------------------------------------------------------------------
(* A step of the composition is one of the floor, which leaves the tickets *)
(* alone, or one of the tickets, which leaves the floor alone.             *)
LEMMA StepsOfOneSide ==
  [VisitNext]_visitVars => [Next]_floorVars /\ [TicketNext]_ticketVars
<1>1. ASSUME NEW c \in Clients, FloorStep(c)
      PROVE  Next /\ UNCHANGED ticketVars
  <2>1. ASSUME CloseCount(c, Unsettled(req[c].session))
        PROVE  \E n \in 0..1 : CloseCount(c, n)
    <3>1. CASE Unsettled(req[c].session) = 0
      BY <2>1, <3>1
    <3>2. CASE Unsettled(req[c].session) # 0
      <4>1. CloseCount(c, 1)
        BY <2>1, <3>2 DEF CloseCount
      <4> QED
        BY <4>1
    <3> QED
      BY <3>1, <3>2
  <2> QED
    BY <1>1, <2>1 DEF FloorStep, Next
<1>2. ASSUME NEW c \in Callers, TicketStep(c)
      PROVE  TicketNext /\ UNCHANGED floorVars
  <2>1. \A s \in Visits : Closed(s) \in BOOLEAN
    BY DEF Closed
  <2>2. ASSUME NEW s \in Sessions, NEW o \in Orders, NEW lines \in SUBSET Items,
               CreateOrderBegin(c, s, o, lines, Closed(s))
        PROVE  TicketNext
    <3>1. s \in Visits /\ ~Closed(s)
      BY <2>2, VisitsAreSessions DEF CreateOrderBegin
    <3>2. CreateOrderBegin(c, s, o, lines, FALSE)
      BY <2>2, <3>1 DEF CreateOrderBegin
    <3> QED
      BY <3>1, <3>2 DEF TicketNext
  <2>3. ASSUME NEW o \in Orders, NEW p \in Payments, NEW a \in Amounts,
               CreatePaymentBegin(c, o, p, a, Closed(orderVisit[o]))
        PROVE  TicketNext
    <3>1. CreatePaymentBegin(c, o, p, a, FALSE)
      BY <2>3 DEF CreatePaymentBegin
    <3> QED
      BY <3>1 DEF TicketNext
  <2> QED
    BY <1>2, <2>2, <2>3 DEF TicketStep, TicketNext
<1> QED
  BY <1>1, <1>2 DEF VisitNext, visitVars

(* The composition implements each of its parts: nothing that holds of the *)
(* floor alone, or of the tickets alone, is lost when a close counts real  *)
(* payments and an order or a payment reads the real status of its visit.  *)
THEOREM PartsAreKept == VisitSpec => Spec /\ TicketSpec
<1>1. VisitInit => Init /\ TicketInit
  BY DEF VisitInit
<1> QED
  BY <1>1, StepsOfOneSide, PTL DEF VisitSpec, Spec, TicketSpec

(* In particular the money: whatever the floor does, a payment on its way  *)
(* stays covered, and only a revival overpays an order.                    *)
THEOREM BalancesAreKept == VisitSpec => []PaymentsCovered /\ OnlyRevivalOverpays
  BY PartsAreKept, PaymentsStayCovered, OnlyRevivalsOverpay, PTL

(* Quiet closes are those of coordinated requests.                         *)
LEMMA QuietParts == QuietSpec => CoordinatedSpec /\ TicketSpec
<1>1. VisitInit => Init /\ TicketInit
  BY DEF VisitInit
<1>2. [VisitNext /\ QuietClose']_visitVars
        => [CoordinatedNext]_floorVars /\ [TicketNext]_ticketVars
  BY StepsOfOneSide DEF QuietClose, visitVars, Next, CoordinatedNext
<1> QED
  BY <1>1, <1>2, PTL DEF QuietSpec, CoordinatedSpec, TicketSpec

-----------------------------------------------------------------------------
(* What the properties rest on: orders belong to visits and payments to    *)
(* orders, also those in the making; what a close has counted is still     *)
(* nothing; and a visit that is being ordered or paid for is not closed.   *)
OrdersLinked ==
  /\ \A o \in Orders : orderStatus[o] # "absent" => orderVisit[o] \in Sessions
  /\ \A p \in Payments : paymentStatus[p] # "absent" => orderStatus[paymentOrder[p]] # "absent"
  /\ \A c \in Callers :
       /\ call[c].at = "ordering" => call[c].visit \in Sessions
       /\ call[c].at \in {"paying", "moving_payment"} => orderStatus[call[c].order] # "absent"

CountsHold == \A c \in Clients : req[c].at \in {"counted", "flushed"} => Unsettled(req[c].session) = 0

VisitsAskedAreOpen ==
  \A c \in Callers : call[c].at \in {"ordering", "paying"} => ~Closed(VisitOfCall(c))

QuietInv == QuietClose /\ OrdersLinked /\ CountsHold /\ VisitsAskedAreOpen

(* What the two sides bring along.                                         *)
PartsInv == TypeOK /\ FloorInv /\ CoordinatedInv /\ TicketInv

(* Nothing is ordered, paid for or closed at first.                        *)
LEMMA QuietStarts == VisitInit => QuietInv
<1> SUFFICES ASSUME Init, TicketInit PROVE QuietInv
  BY DEF VisitInit
<1>1. OneWriter
  BY InitCoordinatedInv DEF CoordinatedInv
<1>2. \A c \in Clients : req[c].at = "idle"
  BY DEF Init, Idle
<1>3. \A c \in Callers : call[c].at = "idle"
  BY DEF TicketInit, NoCall
<1>4. QuietClose
  BY <1>1, <1>2 DEF QuietClose, BeingClosed
<1>5. OrdersLinked
  BY <1>3 DEF OrdersLinked, TicketInit
<1> QED
  BY <1>2, <1>3, <1>4, <1>5 DEF QuietInv, CountsHold, VisitsAskedAreOpen

(* A request on a payment or an order is about a visit there is.           *)
LEMMA CallFacts ==
  ASSUME TicketInv, OrdersLinked, NEW c \in Callers
  PROVE  /\ call[c].at = "ordering" => /\ call[c].order \in Orders
                                       /\ orderStatus[call[c].order] = "absent"
                                       /\ call[c].visit \in Sessions
                                       /\ VisitOfCall(c) = call[c].visit
                                       /\ VisitOfCall(c) # Nil
         /\ call[c].at \in {"paying", "moving_payment"} =>
              /\ call[c].order \in Orders /\ call[c].payment \in Payments
              /\ orderVisit[call[c].order] \in Sessions
              /\ VisitOfCall(c) = orderVisit[call[c].order]
              /\ VisitOfCall(c) # Nil
         /\ call[c].at = "moving_order" =>
              call[c].order \in Orders /\ orderStatus[call[c].order] # "absent"
                /\ call[c].target # "absent"
         /\ call[c].at = "moving_payment" =>
              /\ paymentOrder[call[c].payment] = call[c].order
              /\ paymentStatus[call[c].payment] # "absent"
<1>1. Stands(call[c])
  BY DEF TicketInv
<1>2. call[c].at = "ordering" => /\ call[c].order \in Orders
                                 /\ orderStatus[call[c].order] = "absent"
                                 /\ call[c].visit \in Sessions
  BY <1>1 DEF Stands, CallSteps, OrdersLinked
<1>3. call[c].at \in {"paying", "moving_payment"} =>
        /\ call[c].order \in Orders /\ call[c].payment \in Payments
        /\ orderVisit[call[c].order] \in Sessions
  BY <1>1 DEF Stands, CallSteps, OrdersLinked
<1>4. call[c].at = "moving_order" =>
        call[c].order \in Orders /\ orderStatus[call[c].order] # "absent"
          /\ call[c].target # "absent"
  BY <1>1 DEF Stands, CallSteps, CanTransition, OrderEdges
<1>5. call[c].at = "moving_payment" =>
        /\ paymentOrder[call[c].payment] = call[c].order
        /\ paymentStatus[call[c].payment] # "absent"
  BY <1>1 DEF Stands, CanTransition, PaymentEdges
<1> QED
  BY <1>2, <1>3, <1>4, <1>5, NilAssumption, NothingAssumption, VisitsAreSessions DEF VisitOfCall

-----------------------------------------------------------------------------
(* The floor moves: the tickets, and so every count, stay as they are, and *)
(* only a close that nobody orders or pays under closes a visit.           *)
LEMMA FloorKeepsQuiet ==
  ASSUME PartsInv, QuietInv, NEW c \in Clients, FloorStep(c)
  PROVE  OrdersLinked' /\ CountsHold' /\ VisitsAskedAreOpen'
<1> USE DEF PartsInv, QuietInv
<1>1. UNCHANGED ticketVars
  BY DEF FloorStep
<1>2. OrdersLinked'
  BY <1>1 DEF OrdersLinked, ticketVars, orderVars, itemVars, paymentVars
<1>3. \A s : Unsettled(s)' = Unsettled(s)
  BY <1>1 DEF Unsettled, PaymentsOf, ticketVars, orderVars, itemVars, paymentVars
<1>4. CountsHold'
  <2> SUFFICES ASSUME NEW d \in Clients, req'[d].at \in {"counted", "flushed"}
               PROVE  Unsettled(req'[d].session) = 0
    BY <1>3 DEF CountsHold
  <2>1. CASE req'[d] = req[d]
    BY <2>1 DEF CountsHold
  <2>2. req \in [Clients -> Request]
    BY DEF TypeOK
  <2>3. CASE CloseCount(c, Unsettled(req[c].session))
    <3>1. Unsettled(req[c].session) # 0 => req'[c] = Idle
      BY <2>2, <2>3 DEF CloseCount, Finish
    <3>2. Unsettled(req[c].session) = 0 => req'[c] = [req[c] EXCEPT !.at = "counted"]
      BY <2>2, <2>3 DEF CloseCount
    <3>3. d # c => req'[d] = req[d]
      BY <2>2, <2>3 DEF CloseCount, Finish
    <3>4. Unsettled(req[c].session) = 0 => req'[c].session = req[c].session
      BY <2>2, <3>2 DEF Request
    <3> QED
      BY <2>1, <3>1, <3>3, <3>4 DEF Idle
  <2>4. CASE CloseFlush(c)
    <3>1. d # c => req'[d] = req[d]
      BY <2>2, <2>4 DEF CloseFlush
    <3>2. req'[c].session = req[c].session /\ req[c].at = "counted"
      BY <2>2, <2>4 DEF CloseFlush, Request
    <3> QED
      BY <2>1, <3>1, <3>2 DEF CountsHold
  <2>5. CASE Finish(c)
    BY <2>1, <2>2, <2>5 DEF Finish, Idle
  <2>6. ASSUME NEW r, Begin(c, r), r.at \notin {"counted", "flushed"}
        PROVE  req'[d] = req[d]
    BY <2>2, <2>6 DEF Begin
  <2>7. CASE Arrive(c)
    <3>1. ASSUME NEW t \in Tables, CreateTable(c, t) PROVE req'[d] = req[d]
      BY <3>1 DEF CreateTable
    <3>2. ASSUME NEW t \in Tables, NEW s \in Sessions, OpenBegin(c, t, s) PROVE req'[d] = req[d]
      BY <2>6, <3>2 DEF OpenBegin, Idle
    <3>3. ASSUME NEW t \in Tables, NEW target \in TableStatus, UpdateTableBegin(c, t, target)
          PROVE  req'[d] = req[d]
      BY <2>6, <3>3 DEF UpdateTableBegin, Idle
    <3>4. ASSUME NEW s \in Sessions, NEW target \in TableSessionStatus,
                 UpdateSessionBegin(c, s, target)
          PROVE  req'[d] = req[d]
      BY <2>6, <3>4 DEF UpdateSessionBegin, Idle
    <3>5. ASSUME NEW s \in Sessions, NEW g \in Guests, JoinBegin(c, s, g) PROVE req'[d] = req[d]
      BY <2>6, <3>5 DEF JoinBegin, Idle
    <3>6. ASSUME NEW g \in Guests, NEW target \in GuestSessionStatus, UpdateGuestBegin(c, g, target)
          PROVE  req'[d] = req[d]
      BY <2>6, <3>6 DEF UpdateGuestBegin, Idle
    <3> QED
      BY <2>1, <2>7, <3>1, <3>2, <3>3, <3>4, <3>5, <3>6 DEF Arrive
  <2> QED
    BY <2>3, <2>4, <2>5, <2>7
       DEF FloorStep, Proceed, OpenCommit, UpdateTableCommit, UpdateSessionCommit, CloseCommit,
           IndexRejects, JoinCommit, UpdateGuestCommit, Abort
<1>5. VisitsAskedAreOpen'
  <2> SUFFICES ASSUME NEW d \in Callers, call[d].at \in {"ordering", "paying"}
               PROVE  sessionStatus'[VisitOfCall(d)] # "closed"
    BY <1>1 DEF VisitsAskedAreOpen, Closed, VisitOfCall, ticketVars, orderVars
  <2> DEFINE v == VisitOfCall(d)
  <2>1. v \in Sessions /\ v # Nil /\ sessionStatus[v] # "closed" /\ ~BeingClosed(v)
    BY CallFacts DEF VisitsAskedAreOpen, Closed, QuietClose
  <2>2. CASE OpenCommit(c)
    BY <2>1, <2>2, RequestFacts DEF OpenCommit, TypeOK
  <2>3. CASE UpdateSessionCommit(c)
    BY <2>1, <2>3, RequestFacts DEF UpdateSessionCommit, TypeOK, CoordinatedInv, ReadingsHold, IsCurrent
  <2>4. CASE CloseCommit(c)
    BY <2>1, <2>4, RequestFacts DEF CloseCommit, TypeOK, BeingClosed
  <2> QED
    BY <2>1, <2>2, <2>3, <2>4
       DEF FloorStep, Arrive, Proceed, CreateTable, OpenBegin, UpdateTableBegin,
           UpdateTableCommit, UpdateSessionBegin, CloseCount, CloseFlush, IndexRejects,
           JoinBegin, JoinCommit, UpdateGuestBegin, UpdateGuestCommit, Abort, sessionVars
<1> QED
  BY <1>2, <1>4, <1>5

-----------------------------------------------------------------------------
(* A request on the tickets begins, or ends without a write: what it has   *)
(* read is so, and no row changes.                                         *)
LEMMA TicketRequestsKeepQuiet ==
  ASSUME PartsInv, QuietInv, NEW c \in Callers, UNCHANGED floorVars,
         UNCHANGED <<orderVars, itemVars, paymentVars>>,
         NEW CONSTANT r, call' = [call EXCEPT ![c] = r],
         r.at = "ordering" => r.visit \in Sessions /\ ~Closed(r.visit),
         r.at \in {"paying", "moving_payment"} =>
           r.order \in Orders /\ orderStatus[r.order] # "absent",
         r.at = "paying" => ~Closed(orderVisit[r.order])
  PROVE  OrdersLinked' /\ CountsHold' /\ VisitsAskedAreOpen'
<1> USE DEF PartsInv, QuietInv
<1>1. \A d \in Callers : call'[d] = IF d = c THEN r ELSE call[d]
  BY DEF TicketInv, TicketTypeOK
<1>2. OrdersLinked'
  BY <1>1 DEF OrdersLinked, orderVars, paymentVars
<1>3. CountsHold'
  BY DEF CountsHold, Unsettled, PaymentsOf, orderVars, paymentVars, floorVars
<1>4. ASSUME NEW d \in Callers, call'[d].at \in {"ordering", "paying"}
      PROVE  ~Closed(VisitOfCall(d))'
  <2>1. CASE d # c
    BY <1>1, <1>4, <2>1 DEF VisitsAskedAreOpen, VisitOfCall, Closed, floorVars, sessionVars, orderVars
  <2>2. CASE d = c
    <3>1. r.at = "paying" => r.order # Nil
      BY NothingAssumption, VisitsAreSessions
    <3> QED
      BY <1>1, <1>4, <2>2, <3>1 DEF VisitOfCall, Closed, floorVars, sessionVars, orderVars
  <2> QED
    BY <2>1, <2>2
<1> QED
  BY <1>2, <1>3, <1>4 DEF VisitsAskedAreOpen

(* A commit on the tickets is for a visit that nobody is closing, so every *)
(* count stays as it is.                                                   *)
LEMMA CommitsKeepCounts ==
  ASSUME PartsInv, QuietInv, NEW c \in Callers, Commit(c), UNCHANGED floorVars
  PROVE  CountsHold'
<1> USE DEF PartsInv, QuietInv
<1> SUFFICES ASSUME NEW d \in Clients, req[d].at \in {"counted", "flushed"}
             PROVE  Unsettled(req[d].session)' = 0
  BY DEF CountsHold, floorVars
<1> DEFINE s == req[d].session
<1> DEFINE Counted == {p \in PaymentsOf(s) : paymentStatus[p] \notin {"refunded", "failed"}}
<1>1. Unsettled(s) = 0 /\ s \in Sessions /\ BeingClosed(s)
  BY RequestFacts DEF CountsHold, BeingClosed
<1>2. s' = s
  BY DEF floorVars
<1>3. TicketTypeOK /\ RowsLinked
  BY DEF TicketInv
<1>4. Counted' = Counted
  <2>1. CASE CreateOrderCommit(c)
    <3>1. \A p \in Payments : paymentStatus[p] # "absent" =>
            paymentOrder[p] \in Orders /\ paymentOrder[p] # call[c].order
      BY <1>3, <2>1, CallFacts DEF CreateOrderCommit, OrdersLinked, RowsLinked, TicketTypeOK
    <3>2. \A p \in Payments : paymentStatus[p] # "absent" =>
            orderVisit'[paymentOrder[p]] = orderVisit[paymentOrder[p]]
      BY <1>3, <2>1, <3>1 DEF CreateOrderCommit, TicketTypeOK
    <3> QED
      BY <1>2, <2>1, <3>2 DEF PaymentsOf, CreateOrderCommit, paymentVars
  <2>2. CASE CreatePaymentCommit(c)
    <3> DEFINE p == call[c].payment
    <3>1. p \in Payments /\ paymentStatus[p] = "absent" /\ orderVisit[call[c].order] # s
      BY <1>1, <2>2, CallFacts DEF CreatePaymentCommit, QuietClose, TicketInv, Stands
    <3>2. p \notin Counted /\ p \notin Counted'
      BY <1>2, <1>3, <2>2, <3>1 DEF PaymentsOf, CreatePaymentCommit, orderVars, TicketTypeOK
    <3>3. \A q \in Payments \ {p} :
            paymentStatus'[q] = paymentStatus[q] /\ paymentOrder'[q] = paymentOrder[q]
      BY <1>3, <2>2 DEF CreatePaymentCommit, TicketTypeOK
    <3>4. orderVisit' = orderVisit
      BY <2>2 DEF CreatePaymentCommit, orderVars
    <3> QED
      BY <1>2, <3>2, <3>3, <3>4 DEF PaymentsOf
  <2>3. CASE UpdatePaymentCommit(c)
    <3> DEFINE p == call[c].payment
    <3>1. p \in Payments /\ orderVisit[paymentOrder[p]] # s
      BY <1>1, <2>3, CallFacts DEF UpdatePaymentCommit, QuietClose
    <3>2. orderVisit' = orderVisit /\ paymentOrder' = paymentOrder
      BY <2>3 DEF UpdatePaymentCommit, orderVars
    <3>3. p \notin Counted /\ p \notin Counted'
      BY <1>2, <3>1, <3>2 DEF PaymentsOf
    <3>4. \A q \in Payments \ {p} : paymentStatus'[q] = paymentStatus[q]
      BY <1>3, <2>3 DEF UpdatePaymentCommit, TicketTypeOK
    <3> QED
      BY <1>2, <3>2, <3>3, <3>4 DEF PaymentsOf
  <2>4. CASE UNCHANGED <<orderVisit, paymentVars>>
    BY <1>2, <2>4 DEF PaymentsOf, paymentVars
  <2> QED
    BY <2>1, <2>2, <2>3, <2>4
       DEF Commit, AddItemCommit, UpdateOrderCommit, UpdateItemCommit, orderVars
<1> QED
  BY <1>1, <1>2, <1>4 DEF Unsettled

(* A commit ends its own request, and the visits of the others stay what   *)
(* they were.                                                              *)
LEMMA CommitsKeepLinks ==
  ASSUME PartsInv, QuietInv, NEW c \in Callers, Commit(c), UNCHANGED floorVars
  PROVE  OrdersLinked' /\ VisitsAskedAreOpen'
<1> USE DEF PartsInv, QuietInv
<1>1. TicketTypeOK /\ RowsLinked
  BY DEF TicketInv
<1>2. \A d \in Callers : call'[d] = IF d = c THEN NoCall ELSE call[d]
  BY <1>1 DEF Commit, End, CreateOrderCommit, AddItemCommit, UpdateOrderCommit,
              UpdateItemCommit, CreatePaymentCommit, UpdatePaymentCommit, TicketTypeOK
<1>3. \A o \in Orders : orderStatus[o] # "absent" =>
        orderStatus'[o] # "absent" /\ orderVisit'[o] = orderVisit[o]
  BY <1>1, CallFacts DEF Commit, CreateOrderCommit, AddItemCommit, UpdateOrderCommit,
              UpdateItemCommit, CreatePaymentCommit, UpdatePaymentCommit, orderVars, TicketTypeOK
<1>4. \A o \in Orders : orderStatus[o] = "absent" /\ orderStatus'[o] # "absent" =>
        orderVisit'[o] \in Sessions
  BY <1>1, CallFacts DEF Commit, CreateOrderCommit, AddItemCommit, UpdateOrderCommit,
              UpdateItemCommit, CreatePaymentCommit, UpdatePaymentCommit, orderVars, TicketTypeOK
<1>5. \A p \in Payments : paymentStatus[p] # "absent" => paymentOrder[p] \in Orders
  BY <1>1 DEF RowsLinked, TicketTypeOK
<1>6. \A p \in Payments :
        \/ paymentOrder'[p] = paymentOrder[p]
             /\ (paymentStatus'[p] # "absent" => paymentStatus[p] # "absent")
        \/ /\ paymentOrder'[p] \in Orders
           /\ orderStatus[paymentOrder'[p]] # "absent"
  BY <1>1, CallFacts DEF Commit, CreateOrderCommit, AddItemCommit, UpdateOrderCommit,
              UpdateItemCommit, CreatePaymentCommit, UpdatePaymentCommit, paymentVars,
              TicketTypeOK, OrdersLinked
<1>7. OrdersLinked'
  <2>1. \A p \in Payments : paymentStatus'[p] # "absent" => orderStatus'[paymentOrder'[p]] # "absent"
    BY <1>3, <1>5, <1>6 DEF OrdersLinked
  <2>2. \A d \in Callers :
          /\ call'[d].at = "ordering" => call'[d].visit \in Sessions
          /\ call'[d].at \in {"paying", "moving_payment"} => orderStatus'[call'[d].order] # "absent"
    BY <1>2, <1>3, CallFacts DEF NoCall, OrdersLinked
  <2>3. \A o \in Orders : orderStatus'[o] # "absent" => orderVisit'[o] \in Sessions
    BY <1>3, <1>4 DEF OrdersLinked
  <2> QED
    BY <2>1, <2>2, <2>3 DEF OrdersLinked
<1>8. VisitsAskedAreOpen'
  <2> SUFFICES ASSUME NEW d \in Callers, call'[d].at \in {"ordering", "paying"}
               PROVE  ~Closed(VisitOfCall(d))'
    BY DEF VisitsAskedAreOpen
  <2>1. call'[d] = call[d]
    BY <1>2 DEF NoCall
  <2>2. VisitOfCall(d)' = VisitOfCall(d)
    BY <1>3, <2>1, CallFacts DEF VisitOfCall, OrdersLinked
  <2> QED
    BY <2>1, <2>2 DEF VisitsAskedAreOpen, Closed, floorVars, sessionVars
<1> QED
  BY <1>7, <1>8

(* What each request reads as it begins.                                   *)
LEMMA TicketsKeepQuiet ==
  ASSUME PartsInv, QuietInv, NEW c \in Callers, TicketStep(c)
  PROVE  OrdersLinked' /\ CountsHold' /\ VisitsAskedAreOpen'
<1> USE DEF PartsInv, QuietInv
<1>0. UNCHANGED floorVars
  BY DEF TicketStep
<1>1. ASSUME Commit(c)
      PROVE  OrdersLinked' /\ CountsHold' /\ VisitsAskedAreOpen'
  BY <1>0, <1>1, CommitsKeepCounts, CommitsKeepLinks
<1>2. ASSUME Drop(c)
      PROVE  OrdersLinked' /\ CountsHold' /\ VisitsAskedAreOpen'
  BY <1>0, <1>2, NoCallIsIdle, TicketRequestsKeepQuiet DEF Drop, End
<1>3. ASSUME NEW s \in Sessions, NEW o \in Orders, NEW lines \in SUBSET Items,
             CreateOrderBegin(c, s, o, lines, Closed(s))
      PROVE  OrdersLinked' /\ CountsHold' /\ VisitsAskedAreOpen'
  <2> DEFINE r == [NoCall EXCEPT !.at = "ordering", !.visit = s, !.order = o, !.items = lines]
  <2>1. r.at = "ordering" /\ r.visit = s
    BY DEF NoCall
  <2>2. call' = [call EXCEPT ![c] = r] /\ ~Closed(s) /\ UNCHANGED <<orderVars, itemVars, paymentVars>>
    BY <1>3 DEF CreateOrderBegin, Start
  <2> HIDE DEF r
  <2> QED
    BY <1>0, <2>1, <2>2, TicketRequestsKeepQuiet
<1>4. ASSUME NEW o \in Orders, NEW p \in Payments, NEW a \in Amounts,
             CreatePaymentBegin(c, o, p, a, Closed(orderVisit[o]))
      PROVE  OrdersLinked' /\ CountsHold' /\ VisitsAskedAreOpen'
  <2> DEFINE r == [NoCall EXCEPT !.at = "paying", !.order = o, !.payment = p, !.cents = Stored(a)]
  <2>1. r.at = "paying" /\ r.order = o
    BY DEF NoCall
  <2>2. call' = [call EXCEPT ![c] = r] /\ ~Closed(orderVisit[o]) /\ orderStatus[o] # "absent"
          /\ UNCHANGED <<orderVars, itemVars, paymentVars>>
    BY <1>4 DEF CreatePaymentBegin, Start
  <2> HIDE DEF r
  <2> QED
    BY <1>0, <2>1, <2>2, TicketRequestsKeepQuiet
<1>5. ASSUME NEW o \in Orders, NEW i \in Items, AddItemBegin(c, o, i)
      PROVE  OrdersLinked' /\ CountsHold' /\ VisitsAskedAreOpen'
  <2> DEFINE r == [NoCall EXCEPT !.at = "adding", !.order = o, !.items = {i}]
  <2>1. r.at = "adding"
    BY DEF NoCall
  <2>2. call' = [call EXCEPT ![c] = r] /\ UNCHANGED <<orderVars, itemVars, paymentVars>>
    BY <1>5 DEF AddItemBegin, Start
  <2> HIDE DEF r
  <2> QED
    BY <1>0, <2>1, <2>2, TicketRequestsKeepQuiet
<1>6. ASSUME NEW o \in Orders, NEW target \in OrderStatus, UpdateOrderBegin(c, o, target)
      PROVE  OrdersLinked' /\ CountsHold' /\ VisitsAskedAreOpen'
  <2> DEFINE r == [NoCall EXCEPT !.at = "moving_order", !.order = o, !.target = target]
  <2>1. r.at = "moving_order"
    BY DEF NoCall
  <2>2. call' = [call EXCEPT ![c] = r] /\ UNCHANGED <<orderVars, itemVars, paymentVars>>
    BY <1>6 DEF UpdateOrderBegin, Start
  <2> HIDE DEF r
  <2> QED
    BY <1>0, <2>1, <2>2, TicketRequestsKeepQuiet
<1>7. ASSUME NEW i \in Items, NEW target \in OrderItemStatus, UpdateItemBegin(c, i, target)
      PROVE  OrdersLinked' /\ CountsHold' /\ VisitsAskedAreOpen'
  <2> DEFINE r == [NoCall EXCEPT !.at = "moving_item", !.order = itemOrder[i],
                                 !.items = {i}, !.target = target]
  <2>1. r.at = "moving_item"
    BY DEF NoCall
  <2>2. call' = [call EXCEPT ![c] = r] /\ UNCHANGED <<orderVars, itemVars, paymentVars>>
    BY <1>7 DEF UpdateItemBegin, Start
  <2> HIDE DEF r
  <2> QED
    BY <1>0, <2>1, <2>2, TicketRequestsKeepQuiet
<1>8. ASSUME NEW p \in Payments, NEW target \in PaymentStatus, UpdatePaymentBegin(c, p, target)
      PROVE  OrdersLinked' /\ CountsHold' /\ VisitsAskedAreOpen'
  <2> DEFINE r == [NoCall EXCEPT !.at = "moving_payment", !.order = paymentOrder[p],
                                 !.payment = p, !.target = target]
  <2>1. r.at = "moving_payment" /\ r.order = paymentOrder[p]
    BY DEF NoCall
  <2>2. call' = [call EXCEPT ![c] = r] /\ UNCHANGED <<orderVars, itemVars, paymentVars>>
    BY <1>8 DEF UpdatePaymentBegin, Start
  <2>3. paymentStatus[p] # "absent"
    BY <1>8 DEF UpdatePaymentBegin, CanTransition, PaymentEdges
  <2>4. paymentOrder[p] \in Orders /\ orderStatus[paymentOrder[p]] # "absent"
    BY <2>3 DEF TicketInv, TicketTypeOK, RowsLinked, OrdersLinked
  <2> HIDE DEF r
  <2> QED
    BY <1>0, <2>1, <2>2, <2>4, TicketRequestsKeepQuiet
<1> QED
  BY <1>1, <1>2, <1>3, <1>4, <1>5, <1>6, <1>7, <1>8 DEF TicketStep, TicketRequest

-----------------------------------------------------------------------------
(* The two disciplines and the parts' own invariants make it inductive.    *)
LEMMA QuietSteps ==
  PartsInv /\ QuietInv /\ [VisitNext /\ QuietClose']_visitVars => QuietInv'
<1> SUFFICES ASSUME PartsInv, QuietInv, [VisitNext /\ QuietClose']_visitVars
             PROVE  QuietInv'
  OBVIOUS
<1>1. CASE VisitNext /\ QuietClose'
  BY <1>1, FloorKeepsQuiet, TicketsKeepQuiet DEF VisitNext, QuietInv
<1>2. CASE UNCHANGED visitVars
  <2> USE <1>2 DEF visitVars, floorVars, tableVars, sessionVars, ticketVars, orderVars, itemVars, paymentVars
  <2>1. QuietClose'
    BY DEF QuietInv, QuietClose, OneWriter, Moves, BeingClosed, VisitOfCall
  <2>2. OrdersLinked'
    BY DEF QuietInv, OrdersLinked
  <2>3. CountsHold'
    BY DEF QuietInv, CountsHold, Unsettled, PaymentsOf
  <2>4. VisitsAskedAreOpen'
    BY DEF QuietInv, VisitsAskedAreOpen, Closed, VisitOfCall
  <2> QED
    BY <2>1, <2>2, <2>3, <2>4 DEF QuietInv
<1> QED
  BY <1>1, <1>2

(* The invariants of the parts hold in the whole.                          *)
LEMMA QuietPartsInvariant == QuietSpec => []PartsInv
  BY QuietParts, CoordinatedFloor, CoordinatedInvariant, TicketsInvariant, PTL DEF PartsInv

(* The inductive invariant of quiet closes.                                *)
LEMMA QuietInvariant == QuietSpec => []QuietInv
  BY QuietStarts, QuietSteps, QuietPartsInvariant, PTL DEF QuietSpec

(* update_table_session_status counts the payments of a visit and closes   *)
(* it some awaits later; nothing unsettled has come in between.            *)
THEOREM ClosesLeaveNoMoney == QuietSpec => ClosingLeavesNoMoney
<1> DEFINE Settles ==
      \A s \in Sessions : Active(s) /\ sessionStatus'[s] = "closed" => Unsettled(s)' = 0
<1>1. ASSUME PartsInv, QuietInv, VisitNext PROVE Settles
  <2> SUFFICES ASSUME NEW s \in Sessions, Active(s), sessionStatus'[s] = "closed"
               PROVE  Unsettled(s)' = 0
    OBVIOUS
  <2>1. ASSUME NEW c \in Clients, FloorStep(c)
        PROVE  req[c].at = "flushed" /\ req[c].session = s
    <3>1. CASE OpenCommit(c)
      BY <1>1, <2>1, <3>1 DEF OpenCommit, PartsInv, TypeOK, Active
    <3>2. CASE UpdateSessionCommit(c)
      BY <1>1, <2>1, <3>2 DEF UpdateSessionCommit, PartsInv, TypeOK, CoordinatedInv,
                              ReadingsHold, IsCurrent, Active
    <3>3. CASE CloseCommit(c)
      BY <1>1, <2>1, <3>3 DEF CloseCommit, PartsInv, TypeOK, Active
    <3> QED
      BY <2>1, <3>1, <3>2, <3>3
         DEF FloorStep, Arrive, Proceed, CreateTable, OpenBegin, UpdateTableBegin,
             UpdateTableCommit, UpdateSessionBegin, CloseCount, CloseFlush, IndexRejects,
             JoinBegin, JoinCommit, UpdateGuestBegin, UpdateGuestCommit, Abort, sessionVars, Active
  <2>2. ASSUME NEW c \in Clients, FloorStep(c)
        PROVE  Unsettled(s)' = Unsettled(s)
    BY <2>2 DEF FloorStep, Unsettled, PaymentsOf, ticketVars, orderVars, paymentVars
  <2>3. \E c \in Clients : FloorStep(c)
    BY <1>1 DEF VisitNext, TicketStep, floorVars, sessionVars, Active
  <2> QED
    BY <1>1, <2>1, <2>2, <2>3 DEF QuietInv, CountsHold
<1>2. PartsInv /\ QuietInv /\ [VisitNext /\ QuietClose']_visitVars => [Settles]_visitVars
  BY <1>1
<1> QED
  BY <1>2, QuietInvariant, QuietPartsInvariant, PTL DEF QuietSpec, ClosingLeavesNoMoney

(* create_order and create_payment ask whether the visit is closed and     *)
(* insert some awaits later: it is still not closed then.                  *)
THEOREM NothingComesAfterTheClose == QuietSpec => ClosedVisitsTakeNothingNew
<1> DEFINE Refuses ==
      /\ \A o \in Orders :
           orderStatus[o] = "absent" /\ orderStatus'[o] # "absent" => ~Closed(orderVisit'[o])
      /\ \A p \in Payments :
           paymentStatus[p] = "absent" /\ paymentStatus'[p] # "absent" =>
             ~Closed(orderVisit[paymentOrder'[p]])
<1>1. ASSUME PartsInv, QuietInv, VisitNext PROVE Refuses
  <2> USE DEF PartsInv, QuietInv
  <2>0. TicketTypeOK
    BY <1>1 DEF TicketInv
  <2>1. ASSUME NEW c \in Callers, CreateOrderCommit(c)
        PROVE  Refuses
    BY <1>1, <2>0, <2>1, CallFacts DEF CreateOrderCommit, VisitsAskedAreOpen, paymentVars, TicketTypeOK
  <2>2. ASSUME NEW c \in Callers, CreatePaymentCommit(c)
        PROVE  Refuses
    BY <1>1, <2>0, <2>2, CallFacts DEF CreatePaymentCommit, VisitsAskedAreOpen, orderVars, TicketTypeOK
  <2>3. ASSUME NEW c \in Callers, UpdateOrderCommit(c)
        PROVE  Refuses
    BY <1>1, <2>0, <2>3, CallFacts DEF UpdateOrderCommit, paymentVars, TicketTypeOK
  <2>4. ASSUME NEW c \in Callers, UpdatePaymentCommit(c)
        PROVE  Refuses
    BY <1>1, <2>0, <2>4, CallFacts DEF UpdatePaymentCommit, orderVars, TicketTypeOK
  <2>5. CASE UNCHANGED <<orderStatus, paymentStatus>>
    BY <2>5
  <2> QED
    BY <1>1, <2>1, <2>2, <2>3, <2>4, <2>5, ZenonT(40)
       DEF VisitNext, FloorStep, ticketVars, orderVars, paymentVars, TicketStep, TicketRequest,
           Commit, Drop, CreateOrderBegin, CreatePaymentBegin, AddItemBegin, AddItemCommit,
           UpdateOrderBegin, UpdateItemBegin, UpdateItemCommit, UpdatePaymentBegin
<1>2. PartsInv /\ QuietInv /\ [VisitNext /\ QuietClose']_visitVars => [Refuses]_visitVars
  BY <1>1
<1> QED
  BY <1>2, QuietInvariant, QuietPartsInvariant, PTL DEF QuietSpec, ClosedVisitsTakeNothingNew
=============================================================================
