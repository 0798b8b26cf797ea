------------------------------- MODULE Access -------------------------------
(**************************************************************************)
(* Who may be told what: the permissions of an actor (app/core/auth.py,    *)
(* app/core/permissions.py), the context the backend puts together for it  *)
(* (app/api/operations.py), and the second boundary of the assistant       *)
(* (app/ai/router.py).  A context is the set of its fields that hold       *)
(* anything; payments stands for the payments inside the active orders.    *)
(**************************************************************************)
EXTENDS Naturals

(* resolve_role_permissions, as far as it matters to a context.            *)
RoleBundle ==
  [owner    |-> {"*"},
   manager  |-> {"orders.read", "tables.read", "session.read", "kitchen.queue.read",
                 "inventory.read", "payments.read"},
   waiter   |-> {"orders.read", "tables.read", "session.read"},
   kitchen  |-> {"orders.read", "kitchen.queue.read", "inventory.read"},
   cashier  |-> {"orders.read", "tables.read", "session.read", "payments.read"},
   customer |-> {"orders.read", "session.read"}]

(* has_permission                                                          *)
Has(held, permission) == {"*", "admin.all", permission} \cap held # {}

(* The permission each field of a context takes: that of the tool that     *)
(* returns it (TOOL_PERMISSION_MAP, key_by_tool).                          *)
Takes ==
  [live_table_session |-> "session.read", active_orders |-> "orders.read",
   payments |-> "payments.read", station_queues |-> "kitchen.queue.read",
   inventory_alerts |-> "inventory.read", inventory_skus |-> "inventory.read",
   reservations |-> "tables.read", payment_splits |-> "payments.read"]

Field == DOMAIN Takes

(* can_execute_tool, for the tool that returns a field.                    *)
Readable(held) == {f \in Field : Has(held, Takes[f])}

Given(held, permission, fields) == IF Has(held, permission) THEN fields ELSE {}

(* operational_context: what the route returns, when it is asked about a   *)
(* visit and when it is not.                                               *)
RouteContext(held, visit) ==
  Given(held, "orders.read", {"active_orders"} \cup Given(held, "payments.read", {"payments"}))
  \cup Given(held, "kitchen.queue.read", {"station_queues"})
  \cup Given(held, "inventory.read", {"inventory_alerts", "inventory_skus"})
  \cup Given(held, "tables.read", {"reservations"})
  \cup (IF visit THEN {"live_table_session"} \cup Given(held, "payments.read", {"payment_splits"})
                 ELSE {})

(* ... and whether it answers at all: a visit takes session.read.          *)
RouteAnswers(held, visit) == visit => Has(held, "session.read")

(* ContextPayload: the fields a client may send for a local test.          *)
Fixture == {"active_orders", "payments", "station_queues", "inventory_alerts"}

(* Mutant: only payments are kept from an actor who may not read them. *)
BoundaryForPayments(held, fields) ==
  fields \ (IF Has(held, "payments.read") THEN {} ELSE {"payment_splits", "payments"})

(* The end of build_operational_context: whatever its source, a context    *)
(* loses what the actor may not read.                                      *)
Boundary(held, fields) ==
  fields \ UNION {IF Has(held, "payments.read") THEN {} ELSE {"payment_splits", "payments"},
                  IF Has(held, "inventory.read") THEN {} ELSE {"inventory_alerts", "inventory_skus"},
                  IF Has(held, "tables.read") THEN {} ELSE {"reservations"},
                  IF Has(held, "orders.read") THEN {} ELSE {"active_orders", "payments"},
                  IF Has(held, "kitchen.queue.read") THEN {} ELSE {"station_queues"}}
=============================================================================
