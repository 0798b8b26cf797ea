----------------------------- MODULE FloorRules -----------------------------
(**************************************************************************)
(* What the floor promises its staff, with every request done at a stroke: *)
(* no locks, no index, no handler caught half way.  Floor implements it    *)
(* provided no two requests move the same visit or the same guest at once. *)
(**************************************************************************)
EXTENDS StateMachines

CONSTANTS Tables, Sessions, Guests, Nil

VARIABLES tableStatus, sessionStatus, sessionTable, closedAt,
          guestStatus, guestSession

vars == <<tableStatus, sessionStatus, sessionTable, closedAt,
          guestStatus, guestSession>>

Init ==
  /\ tableStatus = [t \in Tables |-> "absent"]
  /\ sessionStatus = [s \in Sessions |-> "absent"]
  /\ sessionTable = [s \in Sessions |-> Nil]
  /\ closedAt = [s \in Sessions |-> FALSE]
  /\ guestStatus = [g \in Guests |-> "absent"]
  /\ guestSession = [g \in Guests |-> Nil]

InService(s) == sessionStatus[s] \in TableSessionStatus \ {"closed"}
Vacant(t) == \A s \in Sessions : InService(s) => sessionTable[s] # t

AddTable(t) ==
  /\ tableStatus[t] = "absent"
  /\ tableStatus' = [tableStatus EXCEPT ![t] = "available"]
  /\ UNCHANGED <<sessionStatus, sessionTable, closedAt, guestStatus, guestSession>>

(* A table may be marked available only once nobody is being served there. *)
MoveTable(t, target) ==
  /\ CanTransition(TableEdges, tableStatus[t], target)
  /\ target = "available" => Vacant(t)
  /\ tableStatus' = [tableStatus EXCEPT ![t] = target]
  /\ UNCHANGED <<sessionStatus, sessionTable, closedAt, guestStatus, guestSession>>

SeatParty(s, t) ==
  /\ sessionStatus[s] = "absent"
  /\ Vacant(t)
  /\ tableStatus[t] \in {"available", "reserved"}
  /\ tableStatus' = [tableStatus EXCEPT ![t] = "seated"]
  /\ sessionStatus' = [sessionStatus EXCEPT ![s] = "open"]
  /\ sessionTable' = [sessionTable EXCEPT ![s] = t]
  /\ UNCHANGED <<closedAt, guestStatus, guestSession>>

MoveVisit(s, target) ==
  /\ CanTransition(TableSessionEdges, sessionStatus[s], target)
  /\ target # "closed"
  /\ sessionStatus' = [sessionStatus EXCEPT ![s] = target]
  /\ UNCHANGED <<tableStatus, sessionTable, closedAt, guestStatus, guestSession>>

(* The end of a visit leaves its table to be cleaned.  A table that staff  *)
(* moved on while the visit was being closed may be marked dirty again.    *)
CloseVisit(s) ==
  LET t == sessionTable[s] IN
  /\ CanTransition(TableSessionEdges, sessionStatus[s], "closed")
  /\ sessionStatus' = [sessionStatus EXCEPT ![s] = "closed"]
  /\ closedAt' = [closedAt EXCEPT ![s] = TRUE]
  /\ \/ tableStatus' = [tableStatus EXCEPT ![t] = "dirty"]
     \/ tableStatus[t] # "seated" /\ UNCHANGED tableStatus
  /\ UNCHANGED <<sessionTable, guestStatus, guestSession>>

(* A guest joins a visit; it may have closed at that very moment.          *)
JoinVisit(g, s) ==
  /\ guestStatus[g] = "absent"
  /\ sessionStatus[s] # "absent"
  /\ guestStatus' = [guestStatus EXCEPT ![g] = "joined"]
  /\ guestSession' = [guestSession EXCEPT ![g] = s]
  /\ UNCHANGED <<tableStatus, sessionStatus, sessionTable, closedAt>>

MoveGuest(g, target) ==
  /\ CanTransition(GuestSessionEdges, guestStatus[g], target)
  /\ guestStatus' = [guestStatus EXCEPT ![g] = target]
  /\ UNCHANGED <<tableStatus, sessionStatus, sessionTable, closedAt, guestSession>>

Next ==
  \/ \E t \in Tables :
       \/ AddTable(t)
       \/ \E target \in TableStatus : MoveTable(t, target)
       \/ \E s \in Sessions : SeatParty(s, t)
  \/ \E s \in Sessions :
       \/ \E target \in TableSessionStatus : MoveVisit(s, target)
       \/ CloseVisit(s)
       \/ \E g \in Guests : JoinVisit(g, s)
  \/ \E g \in Guests, target \in GuestSessionStatus : MoveGuest(g, target)

Spec == Init /\ [][Next]_vars
=============================================================================
