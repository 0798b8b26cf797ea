--------------------------- MODULE StateMachines ---------------------------
(**************************************************************************)
(* The seven lifecycles of app/domain/state_machines.py.  TRANSITIONS is   *)
(* a dictionary from a status to the statuses that may follow it; here a   *)
(* lifecycle is the set of its edges <<current, target>>.                  *)
(**************************************************************************)

TableStatus == {"available", "reserved", "seated", "dirty", "blocked"}

TableEdges ==
  ({"available"} \X {"reserved", "seated", "blocked"})
    \cup ({"reserved"} \X {"seated", "available", "blocked"})
    \cup ({"seated"} \X {"dirty", "available"})
    \cup ({"dirty"} \X {"available", "blocked"})
    \cup {<<"blocked", "available">>}

TableSessionStatus == {"open", "ordering", "dining", "settling", "closed"}

TableSessionEdges ==
  ({"open"} \X {"ordering", "closed"})
    \cup ({"ordering"} \X {"dining", "closed"})
    \cup ({"dining"} \X {"settling", "ordering"})
    \cup ({"settling"} \X {"closed", "dining"})

GuestSessionStatus ==
  {"authenticating", "joined", "ordering", "dining", "settling", "left"}

GuestSessionEdges ==
  ({"authenticating"} \X {"joined", "left"})
    \cup ({"joined"} \X {"ordering", "left"})
    \cup ({"ordering"} \X {"dining", "left"})
    \cup ({"dining"} \X {"settling", "ordering"})
    \cup ({"settling"} \X {"left", "dining"})

OrderStatus == {"draft", "submitted", "in_kitchen", "ready", "served", "cancelled"}

OrderEdges ==
  ({"draft"} \X {"submitted", "cancelled"})
    \cup ({"submitted"} \X {"in_kitchen", "cancelled"})
    \cup ({"in_kitchen"} \X {"ready", "cancelled"})
    \cup ({"ready"} \X {"served", "cancelled"})

OrderItemStatus == {"queued", "prepping", "fired", "ready", "picked_up", "voided"}

OrderItemEdges ==
  ({"queued"} \X {"prepping", "voided"})
    \cup ({"prepping"} \X {"fired", "voided"})
    \cup ({"fired"} \X {"ready", "voided"})
    \cup ({"ready"} \X {"picked_up", "voided"})

PaymentStatus == {"unpaid", "partial", "authorized", "settled", "failed", "refunded"}

PaymentEdges ==
  ({"unpaid"} \X {"partial", "authorized", "failed"})
    \cup ({"partial"} \X {"authorized", "settled", "failed"})
    \cup ({"authorized"} \X {"settled", "failed", "refunded"})
    \cup {<<"settled", "refunded">>}
    \cup ({"failed"} \X {"unpaid", "authorized"})

ReservationStatus ==
  {"requested", "confirmed", "seated", "no_show", "cancelled", "completed"}

ReservationEdges ==
  ({"requested"} \X {"confirmed", "cancelled"})
    \cup ({"confirmed"} \X {"seated", "no_show", "cancelled"})
    \cup {<<"seated", "completed">>}

(* can_transition; apply_transition raises exactly where it is FALSE. *)
CanTransition(edges, current, target) == <<current, target>> \in edges
=============================================================================
