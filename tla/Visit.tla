------------------------------- MODULE Visit -------------------------------
(**************************************************************************)
(* The floor and its tickets together: a request on an order reads the     *)
(* status of the order's table session, and a close counts the payments of *)
(* the session's orders.  Neither reading locks what it reads.             *)
(**************************************************************************)
EXTENDS Floor, Ticketing, FiniteSets

(* An order's visit is a table session; nothing is Nil in both modules.    *)
ASSUME VisitsAreSessions == Visits = Sessions /\ Nothing = Nil

visitVars == <<floorVars, ticketVars>>

VisitInit == Init /\ TicketInit

PaymentsOf(s) ==
  {p \in Payments : paymentStatus[p] # "absent" /\ orderVisit[paymentOrder[p]] = s}

(* The count of update_table_session_status: status NOT IN (refunded,      *)
(* failed), whatever else the payment may be.                              *)
Unsettled(s) ==
  Cardinality({p \in PaymentsOf(s) : paymentStatus[p] \notin {"refunded", "failed"}})

FloorStep(c) ==
  /\ \/ Arrive(c)
     \/ Proceed(c)
     \/ CloseCount(c, Unsettled(req[c].session))
     \/ Abort(c)
  /\ UNCHANGED ticketVars

Closed(s) == sessionStatus[s] = "closed"

TicketStep(c) ==
  /\ \/ \E s \in Sessions, o \in Orders, lines \in SUBSET Items :
          Exists(s) /\ CreateOrderBegin(c, s, o, lines, Closed(s))
     \/ \E o \in Orders, p \in Payments, a \in Amounts :
          orderStatus[o] # "absent"
            /\ CreatePaymentBegin(c, o, p, a, Closed(orderVisit[o]))
     \/ TicketRequest(c)
     \/ Commit(c)
     \/ Drop(c)
  /\ UNCHANGED floorVars

VisitNext == (\E c \in Clients : FloorStep(c)) \/ (\E c \in Callers : TicketStep(c))

VisitSpec == VisitInit /\ [][VisitNext]_visitVars

-----------------------------------------------------------------------------
(* The discipline the code leaves to its users: nobody orders or pays for  *)
(* a visit while it is being closed, and one member of staff closes it.    *)
VisitOfCall(c) ==
  IF call[c].at = "ordering" THEN call[c].visit
  ELSE IF call[c].order = Nil THEN Nil ELSE orderVisit[call[c].order]

BeingClosed(s) ==
  \E c \in Clients : req[c].at \in {"counted", "flushed"} /\ req[c].session = s

QuietClose ==
  /\ OneWriter
  /\ \A c \in Callers : VisitOfCall(c) # Nil => ~BeingClosed(VisitOfCall(c))

QuietSpec == VisitInit /\ [][VisitNext /\ QuietClose']_visitVars

(* When a visit closes, every payment made for it has failed or has been   *)
(* refunded: the count made some steps earlier is still true.              *)
ClosingLeavesNoMoney ==
  [][\A s \in Sessions :
       Active(s) /\ sessionStatus'[s] = "closed" => Unsettled(s)' = 0
    ]_visitVars

(* No order and no payment is created for a visit that is already closed.  *)
ClosedVisitsTakeNothingNew ==
  [][/\ \A o \in Orders :
          orderStatus[o] = "absent" /\ orderStatus'[o] # "absent" => ~Closed(orderVisit'[o])
     /\ \A p \in Payments :
          paymentStatus[p] = "absent" /\ paymentStatus'[p] # "absent" =>
            ~Closed(orderVisit[paymentOrder'[p]])
    ]_visitVars

-----------------------------------------------------------------------------
(* "Settle or refund payments before closing the session": once every      *)
(* payment is settled, refunded or failed, nothing keeps a settling visit  *)
(* from closing.  The count in the code includes settled payments.         *)
SettledVisitsCanClose ==
  \A s \in Sessions :
    /\ sessionStatus[s] = "settling"
    /\ \A p \in PaymentsOf(s) : paymentStatus[p] \in {"settled", "refunded", "failed"}
    => Unsettled(s) = 0
=============================================================================
