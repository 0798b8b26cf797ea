---------------------------- MODULE FloorProofs ----------------------------
(* What Floor guarantees for any number of tables, visits, guests and      *)
(* overlapping requests.                                                   *)
EXTENDS Floor, TLAPS

(* Every variable keeps its type.                                          *)
LEMMA InitTypeOK == Init => TypeOK
  BY DEF Init, TypeOK, Idle, Request, Steps, Targets

(* A request begins as a request: req stays a function into Request.       *)
LEMMA BeginType ==
  ASSUME NEW c \in Clients, TypeOK, NEW r \in Request, Begin(c, r)
  PROVE  req' \in [Clients -> Request]
  BY DEF TypeOK, Begin

(* A request that ends leaves an idle client behind.                       *)
LEMMA FinishType ==
  ASSUME NEW c \in Clients, TypeOK, Finish(c)
  PROVE  req' \in [Clients -> Request]
<1>1. Idle \in Request
  BY DEF Idle, Request, Steps, Targets
<1>2. QED
  BY <1>1 DEF TypeOK, Finish

(* Every action of every request keeps every variable's type.              *)
LEMMA NextTypeOK == TypeOK /\ [Next]_floorVars => TypeOK'
<1> SUFFICES ASSUME TypeOK, [Next]_floorVars
             PROVE  TypeOK'
  OBVIOUS
<1>0. CASE UNCHANGED floorVars
  BY <1>0 DEF TypeOK, floorVars, tableVars, sessionVars, guestVars
<1>1. ASSUME NEW c \in Clients, NEW t \in Tables, CreateTable(c, t)
      PROVE  TypeOK'
  BY <1>1 DEF TypeOK, CreateTable, sessionVars, guestVars, TableStatus
<1>2. ASSUME NEW c \in Clients, NEW t \in Tables, NEW s \in Sessions, OpenBegin(c, t, s)
      PROVE  TypeOK'
  <2>1. [Idle EXCEPT !.at = "opening", !.table = t, !.session = s] \in Request
    BY DEF Idle, Request, Steps, Targets
  <2>2. req' \in [Clients -> Request]
    BY <1>2, <2>1, BeginType DEF OpenBegin
  <2>3. QED
    BY <1>2, <2>2 DEF TypeOK, OpenBegin, tableVars, sessionVars, guestVars
<1>3. ASSUME NEW c \in Clients, NEW t \in Tables, NEW target \in TableStatus,
             UpdateTableBegin(c, t, target)
      PROVE  TypeOK'
  <2>1. [Idle EXCEPT !.at = "moving_table", !.table = t, !.target = target] \in Request
    BY DEF Idle, Request, Steps, Targets
  <2>2. req' \in [Clients -> Request]
    BY <1>3, <2>1, BeginType DEF UpdateTableBegin
  <2>3. QED
    BY <1>3, <2>2 DEF TypeOK, UpdateTableBegin, tableVars, sessionVars, guestVars
<1>4. ASSUME NEW c \in Clients, NEW s \in Sessions, NEW target \in TableSessionStatus,
             UpdateSessionBegin(c, s, target)
      PROVE  TypeOK'
  <2> DEFINE r == [Idle EXCEPT !.at = IF target = "closed" THEN "closing" ELSE "moving_session",
                               !.session = s, !.target = target]
  <2>1. r \in Request
    BY DEF Idle, Request, Steps, Targets
  <2>2. req' \in [Clients -> Request]
    BY <1>4, <2>1, BeginType DEF UpdateSessionBegin
  <2>3. QED
    BY <1>4, <2>2 DEF TypeOK, UpdateSessionBegin, tableVars, sessionVars, guestVars
<1>5. ASSUME NEW c \in Clients, NEW s \in Sessions, NEW g \in Guests, JoinBegin(c, s, g)
      PROVE  TypeOK'
  <2>1. [Idle EXCEPT !.at = "joining", !.session = s, !.guest = g] \in Request
    BY DEF Idle, Request, Steps, Targets
  <2>2. req' \in [Clients -> Request]
    BY <1>5, <2>1, BeginType DEF JoinBegin
  <2>3. QED
    BY <1>5, <2>2 DEF TypeOK, JoinBegin, tableVars, sessionVars, guestVars
<1>6. ASSUME NEW c \in Clients, NEW g \in Guests, NEW target \in GuestSessionStatus,
             UpdateGuestBegin(c, g, target)
      PROVE  TypeOK'
  <2>1. [Idle EXCEPT !.at = "moving_guest", !.guest = g, !.target = target] \in Request
    BY DEF Idle, Request, Steps, Targets
  <2>2. req' \in [Clients -> Request]
    BY <1>6, <2>1, BeginType DEF UpdateGuestBegin
  <2>3. QED
    BY <1>6, <2>2 DEF TypeOK, UpdateGuestBegin, tableVars, sessionVars, guestVars
<1>7. ASSUME NEW c \in Clients, OpenCommit(c)
      PROVE  TypeOK'
  <2>1. req[c].session \in Sessions /\ req[c].table \in Tables
    BY <1>7 DEF OpenCommit, TypeOK, Request
  <2>2. req' \in [Clients -> Request]
    BY <1>7, FinishType DEF OpenCommit
  <2>3. QED
    BY <1>7, <2>1, <2>2 DEF TypeOK, OpenCommit, guestVars, TableStatus, TableSessionStatus
<1>8. ASSUME NEW c \in Clients, UpdateTableCommit(c)
      PROVE  TypeOK'
  <2>1. req[c].target \in TableStatus
    BY <1>8 DEF UpdateTableCommit, TypeOK, Request
  <2>2. req' \in [Clients -> Request]
    BY <1>8, FinishType DEF UpdateTableCommit
  <2>3. QED
    BY <1>8, <2>1, <2>2 DEF TypeOK, UpdateTableCommit, sessionVars, guestVars
<1>9. ASSUME NEW c \in Clients, UpdateSessionCommit(c)
      PROVE  TypeOK'
  <2>1. req[c].target \in TableSessionStatus
    BY <1>9 DEF UpdateSessionCommit, TypeOK, Request
  <2>2. req' \in [Clients -> Request]
    BY <1>9, FinishType DEF UpdateSessionCommit
  <2>3. QED
    BY <1>9, <2>1, <2>2 DEF TypeOK, UpdateSessionCommit, tableVars, guestVars
<1>10. ASSUME NEW c \in Clients, NEW n \in 0..1, CloseCount(c, n)
       PROVE  TypeOK'
  <2>1. [req[c] EXCEPT !.at = "counted"] \in Request
    BY <1>10 DEF CloseCount, TypeOK, Request, Steps
  <2>2. req' \in [Clients -> Request]
    BY <1>10, <2>1, FinishType DEF CloseCount, TypeOK
  <2>3. QED
    BY <1>10, <2>2 DEF TypeOK, CloseCount, tableVars, sessionVars, guestVars
<1>11. ASSUME NEW c \in Clients, CloseFlush(c)
       PROVE  TypeOK'
  <2> DEFINE t == sessionTable[req[c].session]
  <2>1. req[c].session \in Sessions /\ t \in Tables \cup {Nil}
    BY <1>11 DEF CloseFlush, TypeOK, Request
  <2>2. [req[c] EXCEPT !.at = "flushed", !.table = t, !.seated = tableStatus[t] = "seated"]
          \in Request
    BY <1>11, <2>1, ZenonT(40) DEF CloseFlush, TypeOK, Request, Steps
  <2>3. req' \in [Clients -> Request]
    BY <1>11, <2>2 DEF CloseFlush, TypeOK
  <2>4. QED
    BY <1>11, <2>3 DEF TypeOK, CloseFlush, tableVars, sessionVars, guestVars
<1>12. ASSUME NEW c \in Clients, CloseCommit(c)
       PROVE  TypeOK'
  <2>1. req' \in [Clients -> Request]
    BY <1>12, FinishType DEF CloseCommit
  <2>2. QED
    BY <1>12, <2>1 DEF TypeOK, CloseCommit, guestVars, TableStatus, TableSessionStatus
<1>13. ASSUME NEW c \in Clients, IndexRejects(c) \/ Abort(c)
       PROVE  TypeOK'
  <2>1. req' \in [Clients -> Request]
    BY <1>13, FinishType DEF IndexRejects, Abort
  <2>2. QED
    BY <1>13, <2>1 DEF TypeOK, IndexRejects, Abort, tableVars, sessionVars, guestVars
<1>14. ASSUME NEW c \in Clients, NEW g \in Guests, JoinCommit(c, g)
       PROVE  TypeOK'
  <2>1. req[c].session \in Sessions
    BY <1>14 DEF JoinCommit, TypeOK, Request
  <2>2. req' \in [Clients -> Request]
    BY <1>14, FinishType DEF JoinCommit
  <2>3. QED
    BY <1>14, <2>1, <2>2 DEF TypeOK, JoinCommit, tableVars, sessionVars, GuestSessionStatus
<1>15. ASSUME NEW c \in Clients, NEW g \in Guests, UpdateGuestCommit(c, g)
       PROVE  TypeOK'
  <2>1. req[c].target \in GuestSessionStatus
    BY <1>15 DEF UpdateGuestCommit, TypeOK, Request
  <2>2. req' \in [Clients -> Request]
    BY <1>15, FinishType DEF UpdateGuestCommit
  <2>3. QED
    BY <1>15, <2>1, <2>2 DEF TypeOK, UpdateGuestCommit, tableVars, sessionVars
<1>16. QED
  BY <1>0, <1>1, <1>2, <1>3, <1>4, <1>5, <1>6, <1>7, <1>8, <1>9, <1>10, <1>11, <1>12,
     <1>13, <1>14, <1>15 DEF Next, Arrive, Proceed

(* Whatever the requests in flight do, the rows and the requests keep      *)
(* their types: a table never gets a session's status, nor the reverse.    *)
THEOREM TypeCorrect == Spec => []TypeOK
  BY InitTypeOK, NextTypeOK, PTL DEF Spec

-----------------------------------------------------------------------------
(* The locks.  FloorInv says what the requests in flight may rely on.      *)

(* With no row and no request yet, nothing is relied on.                   *)
LEMMA InitFloorInv == Init => FloorInv
  BY DEF Init, FloorInv, RequestsKnowTheirRows, VisitsHaveTables, NewVisitsDiffer,
         TableLocksExclude, TableMovesStayLegal, OnlyStaleReleasesWait,
         TableLockedBy, Exists, Idle

(* What a request's first and last actions do to the requests in flight.   *)
LEMMA BeginFacts ==
  ASSUME NEW c \in Clients, TypeOK, NEW r, Begin(c, r)
  PROVE  /\ req[c] = Idle
         /\ req'[c] = r
         /\ \A d \in Clients \ {c} : req'[d] = req[d]
  BY DEF Begin, TypeOK

(* The last action of a request touches no other request.                  *)
LEMMA FinishFacts ==
  ASSUME NEW c \in Clients, TypeOK, Finish(c)
  PROVE  /\ req'[c] = Idle
         /\ \A d \in Clients \ {c} : req'[d] = req[d]
  BY DEF Finish, TypeOK

(* What a request in flight is about, at each of its steps.                *)
LEMMA RequestFacts ==
  ASSUME TypeOK, NEW c \in Clients
  PROVE  /\ req[c] \in Request
         /\ req[c].at = "opening" => req[c].table \in Tables /\ req[c].session \in Sessions
         /\ req[c].at = "moving_table" => req[c].table \in Tables
         /\ req[c].at \in {"moving_session", "closing", "counted", "flushed"} =>
              req[c].session \in Sessions
         /\ req[c].at = "moving_session" => req[c].target \in TableSessionStatus
  BY DEF TypeOK, Request

(* A request that ends without touching a table or a session disturbs      *)
(* nothing: it gives up its locks.                                         *)
LEMMA EndingKeepsFloorInv ==
  ASSUME TypeOK, FloorInv, NEW c \in Clients, Finish(c), UNCHANGED <<tableVars, sessionVars>>
  PROVE  FloorInv'
<1>1. /\ req'[c] = Idle
      /\ \A d \in Clients \ {c} : req'[d] = req[d]
  BY FinishFacts
<1>2. RequestsKnowTheirRows'
  BY <1>1 DEF FloorInv, RequestsKnowTheirRows, Exists, sessionVars, Idle
<1>3. VisitsHaveTables'
  BY DEF FloorInv, VisitsHaveTables, Exists, sessionVars
<1>4. NewVisitsDiffer'
  BY <1>1, NilAssumption, RequestFacts DEF FloorInv, NewVisitsDiffer, Idle
<1>5. TableLocksExclude'
  BY <1>1 DEF FloorInv, TableLocksExclude, TableLockedBy, Idle
<1>6. TableMovesStayLegal'
  BY <1>1 DEF FloorInv, TableMovesStayLegal, tableVars, Idle
<1>7. OnlyStaleReleasesWait'
  BY <1>1 DEF FloorInv, OnlyStaleReleasesWait, Active, sessionVars, Idle
<1>8. QED
  BY <1>2, <1>3, <1>4, <1>5, <1>6, <1>7 DEF FloorInv

(* Every action of every request keeps what the others rely on.            *)
LEMMA NextFloorInv == TypeOK /\ FloorInv /\ [Next]_floorVars => FloorInv'
<1> SUFFICES ASSUME TypeOK, FloorInv, [Next]_floorVars
             PROVE  FloorInv'
  OBVIOUS
<1>0. CASE UNCHANGED floorVars
  BY <1>0 DEF FloorInv, RequestsKnowTheirRows, VisitsHaveTables, NewVisitsDiffer,
              TableLocksExclude, TableMovesStayLegal, OnlyStaleReleasesWait,
              TableLockedBy, Exists, Active, floorVars, tableVars, sessionVars
<1>1. ASSUME NEW c \in Clients, NEW t \in Tables, CreateTable(c, t)
      PROVE  FloorInv'
  <2>1. /\ req' = req
        /\ \A u \in Tables : u # t => tableStatus'[u] = tableStatus[u]
        /\ tableStatus[t] = "absent"
    BY <1>1 DEF CreateTable, TypeOK
  <2>2. TableMovesStayLegal'
    BY <2>1, RequestFacts, ZenonT(40) DEF FloorInv, TableMovesStayLegal, CanTransition, TableEdges
  <2>3. QED
    BY <1>1, <2>1, <2>2
       DEF CreateTable, FloorInv, RequestsKnowTheirRows, VisitsHaveTables, NewVisitsDiffer,
           TableLocksExclude, OnlyStaleReleasesWait, TableLockedBy, Exists, Active, sessionVars
<1>2. ASSUME NEW c \in Clients, NEW t \in Tables, NEW s \in Sessions, OpenBegin(c, t, s)
      PROVE  FloorInv'
  <2>1. /\ req'[c].at = "opening"
        /\ req'[c].table = t
        /\ req'[c].session = s
        /\ \A d \in Clients \ {c} : req'[d] = req[d]
    <3> DEFINE r == [Idle EXCEPT !.at = "opening", !.table = t, !.session = s]
    <3>1. req'[c] = r /\ \A d \in Clients \ {c} : req'[d] = req[d]
      BY <1>2, BeginFacts DEF OpenBegin
    <3>2. QED
      BY <3>1 DEF Idle
  <2>2. RequestsKnowTheirRows'
    BY <1>2, <2>1, RequestFacts
       DEF FloorInv, RequestsKnowTheirRows, OpenBegin, Exists, Idle, sessionVars,
           NewSession
  <2>3. VisitsHaveTables'
    BY <1>2, <2>1, RequestFacts
       DEF FloorInv, VisitsHaveTables, OpenBegin, Exists, sessionVars
  <2>4. NewVisitsDiffer'
    BY <1>2, <2>1, RequestFacts, NilAssumption
       DEF FloorInv, NewVisitsDiffer, OpenBegin, Idle, NewSession
  <2>5. TableLocksExclude'
    BY <1>2, <2>1, RequestFacts
       DEF FloorInv, TableLocksExclude, OpenBegin, TableLockedBy, TableFree, Idle
  <2>6. TableMovesStayLegal'
    BY <1>2, <2>1, RequestFacts
       DEF FloorInv, TableMovesStayLegal, OpenBegin, CanTransition, TableEdges, Idle,
           tableVars
  <2>7. OnlyStaleReleasesWait'
    BY <1>2, <2>1, RequestFacts
       DEF FloorInv, OnlyStaleReleasesWait, OpenBegin, Active, Exists, Idle,
           sessionVars, ActiveAt, RequestsKnowTheirRows
  <2>8. QED
    BY <2>2, <2>3, <2>4, <2>5, <2>6, <2>7 DEF FloorInv
<1>3. ASSUME NEW c \in Clients, NEW t \in Tables, NEW target \in TableStatus,
             UpdateTableBegin(c, t, target)
      PROVE  FloorInv'
  <2>1. /\ req'[c].at = "moving_table"
        /\ req'[c].table = t
        /\ req'[c].session = Nil
        /\ req'[c].target = target
        /\ \A d \in Clients \ {c} : req'[d] = req[d]
    <3> DEFINE r == [Idle EXCEPT !.at = "moving_table", !.table = t, !.target = target]
    <3>1. req'[c] = r /\ \A d \in Clients \ {c} : req'[d] = req[d]
      BY <1>3, BeginFacts DEF UpdateTableBegin
    <3>2. QED
      BY <3>1 DEF Idle
  <2>2. RequestsKnowTheirRows'
    BY <1>3, <2>1, RequestFacts
       DEF FloorInv, RequestsKnowTheirRows, UpdateTableBegin, Exists, Idle, sessionVars
  <2>3. VisitsHaveTables'
    BY <1>3, <2>1, RequestFacts
       DEF FloorInv, VisitsHaveTables, UpdateTableBegin, Exists, sessionVars
  <2>4. NewVisitsDiffer'
    BY <1>3, <2>1, RequestFacts, NilAssumption
       DEF FloorInv, NewVisitsDiffer, UpdateTableBegin, Idle
  <2>5. TableLocksExclude'
    BY <1>3, <2>1, RequestFacts
       DEF FloorInv, TableLocksExclude, UpdateTableBegin, TableLockedBy, TableFree, Idle
  <2>6. TableMovesStayLegal'
    BY <1>3, <2>1, RequestFacts
       DEF FloorInv, TableMovesStayLegal, UpdateTableBegin, CanTransition, TableEdges,
           Idle, tableVars
  <2>7. OnlyStaleReleasesWait'
    BY <1>3, <2>1, RequestFacts
       DEF FloorInv, OnlyStaleReleasesWait, UpdateTableBegin, Active, Exists, Idle,
           sessionVars
  <2>8. QED
    BY <2>2, <2>3, <2>4, <2>5, <2>6, <2>7 DEF FloorInv
<1>4. ASSUME NEW c \in Clients, NEW s \in Sessions, NEW target \in TableSessionStatus,
             UpdateSessionBegin(c, s, target)
      PROVE  FloorInv'
  <2>1. /\ req'[c].at \in {"closing", "moving_session"}
        /\ req'[c].session = s
        /\ \A d \in Clients \ {c} : req'[d] = req[d]
    <3> DEFINE r == [Idle EXCEPT
              !.at = IF target = "closed" THEN "closing" ELSE "moving_session",
              !.session = s, !.target = target]
    <3>1. req'[c] = r /\ \A d \in Clients \ {c} : req'[d] = req[d]
      BY <1>4, BeginFacts DEF UpdateSessionBegin
    <3>2. QED
      BY <3>1 DEF Idle
  <2>2. RequestsKnowTheirRows'
    BY <1>4, <2>1, RequestFacts
       DEF FloorInv, RequestsKnowTheirRows, UpdateSessionBegin, Exists, Idle,
           sessionVars
  <2>3. VisitsHaveTables'
    BY <1>4, <2>1, RequestFacts
       DEF FloorInv, VisitsHaveTables, UpdateSessionBegin, Exists, sessionVars
  <2>4. NewVisitsDiffer'
    BY <1>4, <2>1, RequestFacts, NilAssumption
       DEF FloorInv, NewVisitsDiffer, UpdateSessionBegin, Idle, RequestsKnowTheirRows,
           Exists
  <2>5. TableLocksExclude'
    BY <1>4, <2>1, RequestFacts
       DEF FloorInv, TableLocksExclude, UpdateSessionBegin, TableLockedBy, TableFree,
           Idle
  <2>6. TableMovesStayLegal'
    BY <1>4, <2>1, RequestFacts
       DEF FloorInv, TableMovesStayLegal, UpdateSessionBegin, CanTransition, TableEdges,
           Idle, tableVars
  <2>7. OnlyStaleReleasesWait'
    BY <1>4, <2>1, RequestFacts
       DEF FloorInv, OnlyStaleReleasesWait, UpdateSessionBegin, Active, Exists, Idle,
           sessionVars
  <2>8. QED
    BY <2>2, <2>3, <2>4, <2>5, <2>6, <2>7 DEF FloorInv
<1>5. ASSUME NEW c \in Clients, NEW s \in Sessions, NEW g \in Guests, JoinBegin(c, s, g)
      PROVE  FloorInv'
  <2>1. /\ req'[c].at = "joining"
        /\ req'[c].session = s
        /\ \A d \in Clients \ {c} : req'[d] = req[d]
    <3> DEFINE r == [Idle EXCEPT !.at = "joining", !.session = s, !.guest = g]
    <3>1. req'[c] = r /\ \A d \in Clients \ {c} : req'[d] = req[d]
      BY <1>5, BeginFacts DEF JoinBegin
    <3>2. QED
      BY <3>1 DEF Idle
  <2>2. RequestsKnowTheirRows'
    BY <1>5, <2>1, RequestFacts
       DEF FloorInv, RequestsKnowTheirRows, JoinBegin, Exists, Idle, sessionVars
  <2>3. VisitsHaveTables'
    BY <1>5, <2>1, RequestFacts
       DEF FloorInv, VisitsHaveTables, JoinBegin, Exists, sessionVars
  <2>4. NewVisitsDiffer'
    BY <1>5, <2>1, RequestFacts, NilAssumption
       DEF FloorInv, NewVisitsDiffer, JoinBegin, Idle, RequestsKnowTheirRows, Exists,
           Active
  <2>5. TableLocksExclude'
    BY <1>5, <2>1, RequestFacts
       DEF FloorInv, TableLocksExclude, JoinBegin, TableLockedBy, TableFree, Idle
  <2>6. TableMovesStayLegal'
    BY <1>5, <2>1, RequestFacts
       DEF FloorInv, TableMovesStayLegal, JoinBegin, CanTransition, TableEdges, Idle,
           tableVars
  <2>7. OnlyStaleReleasesWait'
    BY <1>5, <2>1, RequestFacts
       DEF FloorInv, OnlyStaleReleasesWait, JoinBegin, Active, Exists, Idle, sessionVars
  <2>8. QED
    BY <2>2, <2>3, <2>4, <2>5, <2>6, <2>7 DEF FloorInv
<1>6. ASSUME NEW c \in Clients, NEW g \in Guests, NEW target \in GuestSessionStatus,
             UpdateGuestBegin(c, g, target)
      PROVE  FloorInv'
  <2>1. /\ req'[c].at = "moving_guest"
        /\ req'[c].session = Nil
        /\ \A d \in Clients \ {c} : req'[d] = req[d]
    <3> DEFINE r == [Idle EXCEPT !.at = "moving_guest", !.guest = g, !.target = target]
    <3>1. req'[c] = r /\ \A d \in Clients \ {c} : req'[d] = req[d]
      BY <1>6, BeginFacts DEF UpdateGuestBegin
    <3>2. QED
      BY <3>1 DEF Idle
  <2>2. RequestsKnowTheirRows'
    BY <1>6, <2>1, RequestFacts
       DEF FloorInv, RequestsKnowTheirRows, UpdateGuestBegin, Exists, Idle, sessionVars
  <2>3. VisitsHaveTables'
    BY <1>6, <2>1, RequestFacts
       DEF FloorInv, VisitsHaveTables, UpdateGuestBegin, Exists, sessionVars
  <2>4. NewVisitsDiffer'
    BY <1>6, <2>1, RequestFacts, NilAssumption
       DEF FloorInv, NewVisitsDiffer, UpdateGuestBegin, Idle
  <2>5. TableLocksExclude'
    BY <1>6, <2>1, RequestFacts
       DEF FloorInv, TableLocksExclude, UpdateGuestBegin, TableLockedBy, TableFree, Idle
  <2>6. TableMovesStayLegal'
    BY <1>6, <2>1, RequestFacts
       DEF FloorInv, TableMovesStayLegal, UpdateGuestBegin, CanTransition, TableEdges,
           Idle, tableVars
  <2>7. OnlyStaleReleasesWait'
    BY <1>6, <2>1, RequestFacts
       DEF FloorInv, OnlyStaleReleasesWait, UpdateGuestBegin, Active, Exists, Idle,
           sessionVars
  <2>8. QED
    BY <2>2, <2>3, <2>4, <2>5, <2>6, <2>7 DEF FloorInv
<1>7. ASSUME NEW c \in Clients, OpenCommit(c)
      PROVE  FloorInv'
  <2>1. /\ req'[c] = Idle
        /\ \A d \in Clients \ {c} : req'[d] = req[d]
    BY <1>7, FinishFacts DEF OpenCommit
  <2>2. RequestsKnowTheirRows'
    BY <1>7, <2>1, RequestFacts
       DEF FloorInv, RequestsKnowTheirRows, OpenCommit, Exists, Idle, sessionVars,
           NewVisitsDiffer, TypeOK
  <2>3. VisitsHaveTables'
    BY <1>7, <2>1, RequestFacts
       DEF FloorInv, VisitsHaveTables, OpenCommit, Exists, sessionVars, TypeOK
  <2>4. NewVisitsDiffer'
    BY <1>7, <2>1, RequestFacts, NilAssumption
       DEF FloorInv, NewVisitsDiffer, OpenCommit, Idle
  <2>5. TableLocksExclude'
    BY <1>7, <2>1, RequestFacts
       DEF FloorInv, TableLocksExclude, OpenCommit, TableLockedBy, TableFree, Idle
  <2>6. TableMovesStayLegal'
    BY <1>7, <2>1, RequestFacts
       DEF FloorInv, TableMovesStayLegal, OpenCommit, CanTransition, TableEdges, Idle,
           tableVars, TypeOK, TableLocksExclude, TableLockedBy
  <2>7. OnlyStaleReleasesWait'
    BY <1>7, <2>1, RequestFacts
       DEF FloorInv, OnlyStaleReleasesWait, OpenCommit, Active, Exists, Idle,
           sessionVars, TypeOK, NewVisitsDiffer, RequestsKnowTheirRows
  <2>8. QED
    BY <2>2, <2>3, <2>4, <2>5, <2>6, <2>7 DEF FloorInv
<1>8. ASSUME NEW c \in Clients, UpdateTableCommit(c)
      PROVE  FloorInv'
  <2>1. /\ req'[c] = Idle
        /\ \A d \in Clients \ {c} : req'[d] = req[d]
    BY <1>8, FinishFacts DEF UpdateTableCommit
  <2>2. RequestsKnowTheirRows'
    BY <1>8, <2>1, RequestFacts
       DEF FloorInv, RequestsKnowTheirRows, UpdateTableCommit, Exists, Idle, sessionVars
  <2>3. VisitsHaveTables'
    BY <1>8, <2>1, RequestFacts
       DEF FloorInv, VisitsHaveTables, UpdateTableCommit, Exists, sessionVars
  <2>4. NewVisitsDiffer'
    BY <1>8, <2>1, RequestFacts, NilAssumption
       DEF FloorInv, NewVisitsDiffer, UpdateTableCommit, Idle
  <2>5. TableLocksExclude'
    BY <1>8, <2>1, RequestFacts
       DEF FloorInv, TableLocksExclude, UpdateTableCommit, TableLockedBy, TableFree,
           Idle
  <2>6. TableMovesStayLegal'
    BY <1>8, <2>1, RequestFacts
       DEF FloorInv, TableMovesStayLegal, UpdateTableCommit, CanTransition, TableEdges,
           Idle, tableVars, TypeOK, TableLocksExclude, TableLockedBy
  <2>7. OnlyStaleReleasesWait'
    BY <1>8, <2>1, RequestFacts
       DEF FloorInv, OnlyStaleReleasesWait, UpdateTableCommit, Active, Exists, Idle,
           sessionVars
  <2>8. QED
    BY <2>2, <2>3, <2>4, <2>5, <2>6, <2>7 DEF FloorInv
<1>9. ASSUME NEW c \in Clients, UpdateSessionCommit(c)
      PROVE  FloorInv'
  <2>1. /\ req'[c] = Idle
        /\ \A d \in Clients \ {c} : req'[d] = req[d]
    BY <1>9, FinishFacts DEF UpdateSessionCommit
  <2>2. RequestsKnowTheirRows'
    BY <1>9, <2>1, RequestFacts
       DEF FloorInv, RequestsKnowTheirRows, UpdateSessionCommit, Exists, Idle,
           sessionVars, TypeOK, TableSessionStatus, NewVisitsDiffer
  <2>3. VisitsHaveTables'
    BY <1>9, <2>1, RequestFacts
       DEF FloorInv, VisitsHaveTables, UpdateSessionCommit, Exists, sessionVars, TypeOK,
           RequestsKnowTheirRows, TableSessionStatus
  <2>4. NewVisitsDiffer'
    BY <1>9, <2>1, RequestFacts, NilAssumption
       DEF FloorInv, NewVisitsDiffer, UpdateSessionCommit, Idle
  <2>5. TableLocksExclude'
    BY <1>9, <2>1, RequestFacts
       DEF FloorInv, TableLocksExclude, UpdateSessionCommit, TableLockedBy, TableFree,
           Idle
  <2>6. TableMovesStayLegal'
    BY <1>9, <2>1, RequestFacts
       DEF FloorInv, TableMovesStayLegal, UpdateSessionCommit, CanTransition,
           TableEdges, Idle, tableVars
  <2>7. OnlyStaleReleasesWait'
    BY <1>9, <2>1, RequestFacts
       DEF FloorInv, OnlyStaleReleasesWait, UpdateSessionCommit, Active, Exists, Idle,
           sessionVars, TypeOK, SessionFree, SessionLockedBy
  <2>8. QED
    BY <2>2, <2>3, <2>4, <2>5, <2>6, <2>7 DEF FloorInv
<1>10. ASSUME NEW c \in Clients, CloseCommit(c)
       PROVE  FloorInv'
  <2>1. /\ req'[c] = Idle
        /\ \A d \in Clients \ {c} : req'[d] = req[d]
    BY <1>10, FinishFacts DEF CloseCommit
  <2>2. RequestsKnowTheirRows'
    BY <1>10, <2>1, RequestFacts
       DEF FloorInv, RequestsKnowTheirRows, CloseCommit, Exists, Idle, sessionVars,
           TypeOK, NewVisitsDiffer
  <2>3. VisitsHaveTables'
    BY <1>10, <2>1, RequestFacts
       DEF FloorInv, VisitsHaveTables, CloseCommit, Exists, sessionVars, TypeOK,
           RequestsKnowTheirRows
  <2>4. NewVisitsDiffer'
    BY <1>10, <2>1, RequestFacts, NilAssumption
       DEF FloorInv, NewVisitsDiffer, CloseCommit, Idle
  <2>5. TableLocksExclude'
    BY <1>10, <2>1, RequestFacts
       DEF FloorInv, TableLocksExclude, CloseCommit, TableLockedBy, TableFree, Idle
  <2>6. TableMovesStayLegal'
    BY <1>10, <2>1, RequestFacts
       DEF FloorInv, TableMovesStayLegal, CloseCommit, CanTransition, TableEdges, Idle,
           tableVars, TypeOK, TableFree, TableLockedBy
  <2>7. OnlyStaleReleasesWait'
    BY <1>10, <2>1, RequestFacts
       DEF FloorInv, OnlyStaleReleasesWait, CloseCommit, Active, Exists, Idle,
           sessionVars, TypeOK
  <2>8. QED
    BY <2>2, <2>3, <2>4, <2>5, <2>6, <2>7 DEF FloorInv
<1>11. ASSUME NEW c \in Clients, CloseFlush(c)
       PROVE  FloorInv'
  <2>1. /\ req'[c].at = "flushed"
        /\ req'[c].session = req[c].session
        /\ req'[c].table = sessionTable[req[c].session]
        /\ req'[c].seated <=> tableStatus[sessionTable[req[c].session]] = "seated"
        /\ \A d \in Clients \ {c} : req'[d] = req[d]
        /\ SessionFree(c, req[c].session) /\ req[c].at = "counted"
        /\ UNCHANGED <<tableStatus, sessionStatus, sessionTable>>
    BY <1>11, RequestFacts DEF CloseFlush, TypeOK, Request, tableVars, sessionVars
  <2>2. RequestsKnowTheirRows'
    BY <2>1, RequestFacts DEF FloorInv, RequestsKnowTheirRows, Exists, Idle, sessionVars
  <2>3. VisitsHaveTables'
    BY <2>1, RequestFacts DEF FloorInv, VisitsHaveTables, Exists, sessionVars
  <2>4. NewVisitsDiffer'
    BY <2>1, RequestFacts, NilAssumption DEF FloorInv, NewVisitsDiffer, Idle
  <2>5. TableLocksExclude'
    BY <2>1, RequestFacts
       DEF FloorInv, TableLocksExclude, TableLockedBy, TableFree, Idle
  <2>6. TableMovesStayLegal'
    BY <2>1, RequestFacts
       DEF FloorInv, TableMovesStayLegal, CanTransition, TableEdges, Idle, tableVars
  <2>7. OnlyStaleReleasesWait'
    <3>1. ~CanTransition(TableEdges, "seated", "seated")
      BY DEF CanTransition, TableEdges
    <3>2. ASSUME NEW d \in Clients, req'[d].at = "opening",
                 req'[c].seated, req'[c].table = req'[d].table
          PROVE  FALSE
      BY <2>1, <3>1, <3>2 DEF FloorInv, TableMovesStayLegal
    <3>3. QED
      BY <2>1, <3>2 DEF FloorInv, OnlyStaleReleasesWait, Active
  <2>8. QED
    BY <2>2, <2>3, <2>4, <2>5, <2>6, <2>7 DEF FloorInv
<1>12. ASSUME NEW c \in Clients, NEW n \in 0..1, CloseCount(c, n)
      PROVE  FloorInv'
  <2>1. CASE Finish(c)
    BY <1>12, <2>1, EndingKeepsFloorInv DEF CloseCount
  <2>2. CASE req' = [req EXCEPT ![c].at = "counted"]
    <3>1. /\ req'[c].at = "counted"
          /\ req'[c].session = req[c].session
          /\ \A d \in Clients \ {c} : req'[d] = req[d]
      BY <2>2, RequestFacts DEF TypeOK, Request
    <3>2. RequestsKnowTheirRows'
      BY <1>12, <3>1 DEF FloorInv, RequestsKnowTheirRows, CloseCount, Exists, sessionVars
    <3>3. VisitsHaveTables'
      BY <1>12 DEF FloorInv, VisitsHaveTables, CloseCount, Exists, sessionVars
    <3>4. NewVisitsDiffer'
      BY <1>12, <3>1 DEF FloorInv, NewVisitsDiffer, CloseCount
    <3>5. TableLocksExclude'
      BY <1>12, <3>1 DEF FloorInv, TableLocksExclude, CloseCount, TableLockedBy
    <3>6. TableMovesStayLegal'
      BY <1>12, <3>1 DEF FloorInv, TableMovesStayLegal, CloseCount, tableVars
    <3>7. OnlyStaleReleasesWait'
      BY <1>12, <3>1 DEF FloorInv, OnlyStaleReleasesWait, CloseCount, Active, sessionVars
    <3>8. QED
      BY <3>2, <3>3, <3>4, <3>5, <3>6, <3>7 DEF FloorInv
  <2>3. QED
    BY <1>12, <2>1, <2>2 DEF CloseCount
<1>13. ASSUME NEW c \in Clients,
             \/ IndexRejects(c) \/ Abort(c)
             \/ \E g \in Guests : JoinCommit(c, g) \/ UpdateGuestCommit(c, g)
      PROVE  FloorInv'
  BY <1>13, EndingKeepsFloorInv
     DEF IndexRejects, Abort, JoinCommit, UpdateGuestCommit, tableVars, sessionVars
<1>14. QED
  BY <1>0, <1>1, <1>2, <1>3, <1>4, <1>5, <1>6, <1>7, <1>8, <1>9, <1>10, <1>11, <1>12,
     <1>13 DEF Next, Arrive, Proceed

(* The rows a request relies on stay as it relies on them: its lock keeps  *)
(* a table's move legal until it commits, and new visits do not collide.   *)
THEOREM FloorInvariant == Spec => []FloorInv
<1>1. TypeOK /\ FloorInv /\ [Next]_floorVars => TypeOK' /\ FloorInv'
  BY NextTypeOK, NextFloorInv
<1>2. QED
  BY InitTypeOK, InitFloorInv, <1>1, PTL DEF Spec

(* No two active visits share a table: the partial unique index refuses    *)
(* the second, also when a stale write brings a closed visit back.         *)
LEMMA NextOneActiveSession ==
  TypeOK /\ FloorInv /\ OneActiveSession /\ [Next]_floorVars => OneActiveSession'
<1> SUFFICES ASSUME TypeOK, FloorInv, OneActiveSession, [Next]_floorVars
             PROVE  OneActiveSession'
  OBVIOUS
<1> DEFINE Kept == sessionStatus' = sessionStatus /\ sessionTable' = sessionTable
<1>1. CASE Kept
  BY <1>1 DEF OneActiveSession, ActiveAt, Active
<1>2. ASSUME NEW c \in Clients, OpenCommit(c)
      PROVE  OneActiveSession'
  <2>1. req[c].session \in Sessions /\ req[c].table \in Tables
    BY <1>2, RequestFacts DEF OpenCommit
  <2>2. QED
    BY <1>2, <2>1
       DEF TypeOK, OpenCommit, IndexAdmits, Rivals, OneActiveSession, ActiveAt, Active
<1>3. ASSUME NEW c \in Clients, UpdateSessionCommit(c)
      PROVE  OneActiveSession'
  BY <1>3
     DEF TypeOK, UpdateSessionCommit, IndexAdmits, Rivals, OneActiveSession, ActiveAt, Active
<1>4. ASSUME NEW c \in Clients, CloseCommit(c)
      PROVE  OneActiveSession'
  BY <1>4 DEF TypeOK, CloseCommit, OneActiveSession, ActiveAt, Active
<1>5. QED
  BY <1>1, <1>2, <1>3, <1>4
     DEF Next, Arrive, Proceed, floorVars, sessionVars, CreateTable, OpenBegin,
         UpdateTableBegin, UpdateTableCommit, UpdateSessionBegin, CloseCount, CloseFlush,
         IndexRejects, JoinBegin, JoinCommit, UpdateGuestBegin, UpdateGuestCommit, Abort

(* At most one visit is active at a table, in every state the handlers of  *)
(* app/api/tables.py reach however they overlap.                           *)
THEOREM OneVisitPerTable == Spec => []OneActiveSession
<1>1. Init => OneActiveSession
  BY DEF Init, OneActiveSession, ActiveAt, Active
<1>2. TypeOK /\ FloorInv /\ OneActiveSession /\ [Next]_floorVars => OneActiveSession'
  BY NextOneActiveSession
<1>3. QED
  BY <1>1, <1>2, TypeCorrect, FloorInvariant, PTL DEF Spec

(* Although open_table_session and update_table_session_status take their  *)
(* locks in opposite orders, no two requests wait for each other: a close  *)
(* that an opening could wait for holds a visit that is closed already.    *)
THEOREM NoTwoRequestsDeadlock == Spec => []NoDeadlock
<1>1. FloorInv => NoDeadlock
  BY DEF FloorInv, OnlyStaleReleasesWait, NoDeadlock, WaitsFor, TableLockedBy,
         SessionLockedBy, ActiveAt
<1>2. QED
  BY <1>1, FloorInvariant, PTL

(* The status of a table follows its lifecycle, except where the close of  *)
(* a visit writes dirty over it.                                           *)
LEMMA NextTableMoves == TypeOK /\ FloorInv /\ [Next]_floorVars => [TableMoves]_floorVars
<1> SUFFICES ASSUME TypeOK, FloorInv, [Next]_floorVars
             PROVE  TableMoves
  BY DEF floorVars
<1>1. CASE tableStatus' = tableStatus
  BY <1>1 DEF TableMoves
<1>2. ASSUME NEW c \in Clients, NEW t \in Tables, CreateTable(c, t)
      PROVE  TableMoves
  BY <1>2 DEF TypeOK, CreateTable, TableMoves
<1>3. ASSUME NEW c \in Clients, OpenCommit(c)
      PROVE  TableMoves
  BY <1>3 DEF TypeOK, OpenCommit, TableMoves, FloorInv, TableMovesStayLegal
<1>4. ASSUME NEW c \in Clients, UpdateTableCommit(c)
      PROVE  TableMoves
  BY <1>4 DEF TypeOK, UpdateTableCommit, TableMoves, FloorInv, TableMovesStayLegal
<1>5. ASSUME NEW c \in Clients, CloseCommit(c)
      PROVE  TableMoves
  <2>1. req'[c] = Idle
    BY <1>5, FinishFacts DEF CloseCommit
  <2>2. QED
    BY <1>5, <2>1 DEF TypeOK, CloseCommit, TableMoves, Releases
<1>6. QED
  BY <1>1, <1>2, <1>3, <1>4, <1>5
     DEF Next, Arrive, Proceed, floorVars, tableVars, OpenBegin, UpdateTableBegin,
         UpdateSessionBegin, UpdateSessionCommit, CloseCount, CloseFlush, IndexRejects,
         JoinBegin, JoinCommit, UpdateGuestBegin, UpdateGuestCommit, Abort

(* update_table_status and open_table_session move a table along TRANSITIONS*)
(* only; the one other write is dirty, by the close of a visit.            *)
THEOREM TablesFollowTheirLifecycle == Spec => TableMovesAreLegal
  BY TypeCorrect, FloorInvariant, NextTableMoves, PTL DEF Spec, TableMovesAreLegal

(* A visit begins at an available or reserved table with no active visit,  *)
(* and leaves it seated.                                                   *)
LEMMA NextOpensAtFreeTable ==
  TypeOK /\ FloorInv /\ [Next]_floorVars => [OpensAtFreeTable]_floorVars
<1> SUFFICES ASSUME TypeOK, FloorInv, [Next]_floorVars
             PROVE  OpensAtFreeTable
  BY DEF floorVars
<1>1. CASE sessionStatus' = sessionStatus
  BY <1>1 DEF OpensAtFreeTable, Exists
<1>2. ASSUME NEW c \in Clients, OpenCommit(c)
      PROVE  OpensAtFreeTable
  <2> DEFINE t == req[c].table
  <2>1. req[c].session \in Sessions /\ t \in Tables /\ ~Exists(req[c].session)
    BY <1>2, RequestFacts DEF OpenCommit, FloorInv, RequestsKnowTheirRows
  <2>2. tableStatus[t] \in {"available", "reserved"}
    BY <1>2, <2>1
       DEF OpenCommit, FloorInv, TableMovesStayLegal, CanTransition, TableEdges
  <2>3. ActiveAt(t) = {}
    BY <1>2, <2>1 DEF OpenCommit, IndexAdmits, Rivals, ActiveAt, Active, Exists
  <2>4. QED
    BY <1>2, <2>1, <2>2, <2>3 DEF TypeOK, OpenCommit, OpensAtFreeTable, Exists
<1>3. ASSUME NEW c \in Clients, UpdateSessionCommit(c) \/ CloseCommit(c)
      PROVE  OpensAtFreeTable
  <2>1. Exists(req[c].session)
    BY <1>3 DEF UpdateSessionCommit, CloseCommit, FloorInv, RequestsKnowTheirRows
  <2>2. QED
    BY <1>3, <2>1 DEF TypeOK, UpdateSessionCommit, CloseCommit, OpensAtFreeTable, Exists
<1>4. QED
  BY <1>1, <1>2, <1>3
     DEF Next, Arrive, Proceed, floorVars, sessionVars, CreateTable, OpenBegin,
         UpdateTableBegin, UpdateTableCommit, UpdateSessionBegin, CloseCount, CloseFlush,
         IndexRejects, JoinBegin, JoinCommit, UpdateGuestBegin, UpdateGuestCommit, Abort

(* open_table_session seats a party only at a table that is free at the    *)
(* moment of its commit.                                                   *)
THEOREM VisitsBeginAtFreeTables == Spec => VisitsOpenAtFreeTables
  BY TypeCorrect, FloorInvariant, NextOpensAtFreeTable, PTL
     DEF Spec, VisitsOpenAtFreeTables

-----------------------------------------------------------------------------
(* What Floor guarantees as long as no two requests move the same visit or *)
(* the same guest at once: the readings of a request stay true until it    *)
(* commits, and the floor is then as good as atomic (FloorRules).          *)

(* A request that goes on moves nothing it did not move before.            *)
LEMMA GoingOnKeepsOneWriter ==
  ASSUME TypeOK, OneWriter, NEW c \in Clients,
         Proceed(c) \/ (\E n \in 0..1 : CloseCount(c, n)) \/ Abort(c)
  PROVE  OneWriter'
<1>1. req \in [Clients -> Request]
  BY DEF TypeOK
<1>2. CASE Finish(c)
  <2>1. \A d \in Clients : req'[d] = IF d = c THEN Idle ELSE req[d]
    BY <1>1, <1>2 DEF Finish
  <2> QED
    BY <2>1 DEF OneWriter, Moves, Idle
<1>3. CASE /\ req[c].at \in {"closing", "counted"}
           /\ req'[c].at \in {"counted", "flushed"} /\ req'[c].session = req[c].session
           /\ \A d \in Clients \ {c} : req'[d] = req[d]
  BY <1>3 DEF OneWriter, Moves
<1>4. ASSUME NEW n \in 0..1, CloseCount(c, n) PROVE OneWriter'
  <2>1. CASE n # 0
    BY <1>2, <1>4, <2>1 DEF CloseCount
  <2>2. CASE n = 0
    <3>1. /\ req' = [req EXCEPT ![c].at = "counted"] /\ req[c].at = "closing"
          /\ req[c] \in Request
      BY <1>1, <1>4, <2>2 DEF CloseCount
    <3>2. /\ req'[c].at = "counted" /\ req'[c].session = req[c].session
          /\ \A d \in Clients \ {c} : req'[d] = req[d]
      BY <1>1, <3>1 DEF Request
    <3> QED
      BY <1>3, <3>1, <3>2
  <2> QED
    BY <2>1, <2>2
<1>5. ASSUME CloseFlush(c) PROVE OneWriter'
  <2>1. req[c].at = "counted" /\ req[c] \in Request
    BY <1>1, <1>5 DEF CloseFlush
  <2>2. /\ req'[c].at = "flushed" /\ req'[c].session = req[c].session
        /\ \A d \in Clients \ {c} : req'[d] = req[d]
    BY <1>1, <1>5 DEF CloseFlush, Request
  <2> QED
    BY <1>3, <2>1, <2>2
<1> QED
  BY <1>2, <1>4, <1>5
     DEF Proceed, OpenCommit, UpdateTableCommit, UpdateSessionCommit, CloseCommit, IndexRejects,
         JoinCommit, UpdateGuestCommit, Abort

(* The discipline only takes steps away, and no step breaks it.            *)
LEMMA CoordinatedSteps == CoordinatedSpec => Init /\ [][Next /\ OneWriter']_floorVars
<1>1. Init => TypeOK /\ OneWriter
  BY InitTypeOK DEF Init, OneWriter, Moves, Idle
<1>2. [CoordinatedNext]_floorVars => [Next]_floorVars
  BY DEF CoordinatedNext, Next
<1>3. TypeOK /\ OneWriter /\ [CoordinatedNext]_floorVars => OneWriter'
  <2>1. TypeOK /\ OneWriter /\ CoordinatedNext => OneWriter'
    BY GoingOnKeepsOneWriter DEF CoordinatedNext
  <2>2. OneWriter /\ UNCHANGED floorVars => OneWriter'
    BY DEF OneWriter, Moves, floorVars
  <2> QED
    BY <2>1, <2>2
<1>4. TypeOK /\ OneWriter /\ [CoordinatedNext]_floorVars => (TypeOK /\ OneWriter)'
  BY <1>2, <1>3, NextTypeOK
<1>5. TypeOK /\ OneWriter /\ [CoordinatedNext]_floorVars => [Next /\ OneWriter']_floorVars
  BY <1>2, <1>3
<1> QED
  BY <1>1, <1>4, <1>5, PTL DEF CoordinatedSpec

(* What holds of the floor holds under the discipline.                     *)
LEMMA CoordinatedFloor == CoordinatedSpec => [](TypeOK /\ FloorInv)
<1>1. Init => TypeOK /\ FloorInv
  BY InitTypeOK, InitFloorInv
<1>2. TypeOK /\ FloorInv /\ [Next /\ OneWriter']_floorVars => (TypeOK /\ FloorInv)'
  BY NextTypeOK, NextFloorInv
<1>3. QED
  BY <1>1, <1>2, CoordinatedSteps, PTL

(* Nothing is in flight at first, so nothing is stale.                     *)
LEMMA InitCoordinatedInv == Init => CoordinatedInv
  BY DEF Init, CoordinatedInv, OneWriter, Moves, VisitKeepsTable, ReadingsHold, IsCurrent,
         NewGuestsDiffer, ActiveAt, Active, Idle

(* What a joining guest's request and that of a moving guest are about.    *)
LEMMA GuestFacts ==
  ASSUME TypeOK, NEW c \in Clients
  PROVE  /\ req[c].at = "joining" => req[c].session \in Sessions /\ req[c].guest \in Guests
         /\ req[c].at = "moving_guest" => req[c].guest \in Guests
         /\ req[c].at = "moving_table" => req[c].target \in TableStatus
         /\ req[c].at = "moving_guest" => req[c].target \in GuestSessionStatus
  BY DEF TypeOK, Request

(* A visit that may go on is active, and stays so unless it is closed.     *)
LEMMA SessionEdgeFacts ==
  ASSUME NEW s \in Sessions, NEW target, CanTransition(TableSessionEdges, sessionStatus[s], target)
  PROVE  Active(s) /\ Exists(s) /\ target # "absent"
  BY DEF CanTransition, TableSessionEdges, Active, Exists

(* A table with an active visit may be moved only to dirty and to blocked, *)
(* or to available.                                                        *)
LEMMA TableEdgeFacts ==
  ASSUME NEW t \in Tables, tableStatus[t] \in {"seated", "dirty", "blocked"}, NEW target,
         CanTransition(TableEdges, tableStatus[t], target)
  PROVE  target \in {"dirty", "blocked", "available"}
  BY DEF CanTransition, TableEdges

(* Requests whose rows have not changed are as current as before.          *)
LEMMA SameRowsSameReadings ==
  ASSUME NEW CONSTANT r, IsCurrent(r), UNCHANGED <<tableVars, sessionVars, guestVars>>
  PROVE  IsCurrent(r)'
  BY DEF IsCurrent, ActiveAt, Active, Exists, tableVars, sessionVars, guestVars

(* A request that has just begun, or that takes a step of its own without  *)
(* a write, disturbs nobody.                                               *)
LEMMA OwnStep ==
  ASSUME TypeOK, ReadingsHold, VisitKeepsTable, NEW c \in Clients,
         UNCHANGED <<tableVars, sessionVars, guestVars>>,
         IsCurrent(req'[c]), \A d \in Clients \ {c} : req'[d] = req[d]
  PROVE  VisitKeepsTable' /\ ReadingsHold'
<1>1. VisitKeepsTable'
  BY DEF VisitKeepsTable, ActiveAt, Active, tableVars, sessionVars
<1>2. ASSUME NEW d \in Clients PROVE IsCurrent(req'[d])
  BY DEF ReadingsHold
<1>3. ReadingsHold'
  BY <1>2 DEF ReadingsHold, IsCurrent, ActiveAt, Active, Exists, tableVars, sessionVars, guestVars
<1> QED
  BY <1>1, <1>3

(* A request that ends is current for having nothing left to do.           *)
LEMMA Ending ==
  ASSUME TypeOK, NEW c \in Clients, Finish(c), \A d \in Clients \ {c} : IsCurrent(req[d])'
  PROVE  ReadingsHold'
<1>1. req'[c] = Idle
  BY FinishFacts
<1>2. IsCurrent(req[c])'
  BY <1>1 DEF IsCurrent, Idle
<1> QED
  BY <1>2 DEF ReadingsHold

(* An open changes nothing for the others: they hold no lock on its table, *)
(* know nothing of its visit, and no visit is being closed at its table.   *)
LEMMA OpenDisturbsNobody ==
  ASSUME TypeOK, FloorInv, CoordinatedInv, NEW c \in Clients, OpenCommit(c)
  PROVE  VisitKeepsTable' /\ ReadingsHold'
<1> DEFINE s == req[c].session
<1> DEFINE t == req[c].table
<1>0. /\ s \in Sessions /\ t \in Tables /\ ~Exists(s)
      /\ ActiveAt(t) = {}
      /\ tableStatus \in [Tables -> TableStatus \cup {"absent"}]
      /\ sessionStatus \in [Sessions -> TableSessionStatus \cup {"absent"}]
      /\ sessionTable \in [Sessions -> Tables \cup {Nil}]
  BY RequestFacts DEF OpenCommit, FloorInv, RequestsKnowTheirRows, CoordinatedInv, ReadingsHold,
                      IsCurrent, TypeOK
<1>1. /\ tableStatus' = [tableStatus EXCEPT ![t] = "seated"]
      /\ sessionStatus' = [sessionStatus EXCEPT ![s] = "open"]
      /\ sessionTable' = [sessionTable EXCEPT ![s] = t]
      /\ guestStatus' = guestStatus
  BY DEF OpenCommit, guestVars
<1>2. \A u \in Tables : u # t => ActiveAt(u)' = ActiveAt(u) /\ tableStatus'[u] = tableStatus[u]
  BY <1>0, <1>1 DEF ActiveAt, Active, Exists
<1>3. \A r \in Sessions : r # s => sessionStatus'[r] = sessionStatus[r]
  BY <1>0, <1>1
<1>4. VisitKeepsTable'
  BY <1>0, <1>1, <1>2 DEF CoordinatedInv, VisitKeepsTable
<1>5. ASSUME NEW d \in Clients \ {c} PROVE IsCurrent(req[d])'
  <2>1. req'[d] = req[d] /\ IsCurrent(req[d])
    BY FinishFacts DEF OpenCommit, CoordinatedInv, ReadingsHold
  <2>2. CASE req[d].at \in {"opening", "moving_table"}
    <3>1. req[d].table \in Tables /\ req[d].table # t
      BY <2>2, RequestFacts, <1>0 DEF OpenCommit, FloorInv, TableLocksExclude, TableLockedBy
    <3> QED
      BY <2>1, <2>2, <3>1, <1>2 DEF IsCurrent
  <2>3. CASE req[d].at \in {"moving_session", "closing", "counted", "flushed"}
    <3>1. req[d].session \in Sessions /\ req[d].session # s
      BY <2>3, RequestFacts, <1>0 DEF FloorInv, RequestsKnowTheirRows
    <3>2. ASSUME req[d].at = "flushed" PROVE req[d].table \in Tables /\ req[d].table # t
      <4>1. req[d].table = sessionTable[req[d].session] /\ Exists(req[d].session)
        BY <3>2 DEF FloorInv, RequestsKnowTheirRows
      <4>2. Active(req[d].session)
        BY <2>1, <3>1, <3>2, SessionEdgeFacts DEF IsCurrent
      <4> QED
        BY <4>1, <4>2, <3>1, <1>0 DEF ActiveAt, FloorInv, VisitsHaveTables
    <3> QED
      BY <2>1, <2>3, <3>1, <3>2, <1>2, <1>3 DEF IsCurrent
  <2>4. CASE req[d].at = "joining"
    <3>1. req[d].session \in Sessions
      BY <2>4, GuestFacts
    <3> QED
      BY <2>1, <2>4, <3>1, <1>0, <1>1 DEF IsCurrent, Exists
  <2>5. CASE req[d].at = "moving_guest"
    BY <2>1, <2>5, <1>1 DEF IsCurrent
  <2>6. CASE req[d].at = "idle"
    BY <2>1, <2>6 DEF IsCurrent
  <2> QED
    BY <2>2, <2>3, <2>4, <2>5, <2>6, RequestFacts DEF Request, Steps
<1>6. ReadingsHold'
  BY <1>5, Ending DEF OpenCommit
<1> QED
  BY <1>4, <1>6

(* A table moved by staff: its row was locked, so what they read of it is  *)
(* true, and it never becomes seated or free under a party.                *)
LEMMA TableMoveDisturbsNobody ==
  ASSUME TypeOK, FloorInv, CoordinatedInv, NEW c \in Clients, UpdateTableCommit(c)
  PROVE  VisitKeepsTable' /\ ReadingsHold'
<1> DEFINE t == req[c].table
<1> DEFINE target == req[c].target
<1>0. /\ t \in Tables
      /\ CanTransition(TableEdges, tableStatus[t], target)
      /\ target = "available" => ActiveAt(t) = {}
      /\ tableStatus \in [Tables -> TableStatus \cup {"absent"}]
  BY RequestFacts DEF UpdateTableCommit, FloorInv, TableMovesStayLegal, CoordinatedInv,
                      ReadingsHold, IsCurrent, TypeOK
<1>1. /\ tableStatus' = [tableStatus EXCEPT ![t] = target]
      /\ UNCHANGED <<sessionVars, guestVars>>
  BY DEF UpdateTableCommit
<1>2. ActiveAt(t) # {} => target \in {"dirty", "blocked"}
  BY <1>0, TableEdgeFacts DEF CoordinatedInv, VisitKeepsTable
<1>3. VisitKeepsTable'
  BY <1>0, <1>1, <1>2 DEF CoordinatedInv, VisitKeepsTable, ActiveAt, Active, sessionVars
<1>4. ASSUME NEW d \in Clients \ {c} PROVE IsCurrent(req[d])'
  <2>1. req'[d] = req[d] /\ IsCurrent(req[d])
    BY FinishFacts DEF UpdateTableCommit, CoordinatedInv, ReadingsHold
  <2>2. ASSUME req[d].at = "flushed", ~req[d].seated
        PROVE  tableStatus'[req[d].table] # "seated"
    <3>1. /\ req[d].session \in Sessions /\ Active(req[d].session)
          /\ req[d].table = sessionTable[req[d].session]
      BY <2>1, <2>2, RequestFacts, SessionEdgeFacts
         DEF IsCurrent, FloorInv, RequestsKnowTheirRows
    <3>2. req[d].session \in ActiveAt(req[d].table)
      BY <3>1 DEF ActiveAt
    <3> QED
      BY <1>0, <1>1, <1>2, <2>1, <2>2, <3>2 DEF IsCurrent
  <2> QED
    BY <1>1, <2>1, <2>2 DEF IsCurrent, ActiveAt, Active, Exists, sessionVars, guestVars
<1>5. ReadingsHold'
  BY <1>4, Ending DEF UpdateTableCommit
<1> QED
  BY <1>3, <1>5

(* A visit that moves on stays active, and nobody else was moving it.      *)
LEMMA VisitMoveDisturbsNobody ==
  ASSUME TypeOK, FloorInv, CoordinatedInv, NEW c \in Clients, UpdateSessionCommit(c)
  PROVE  VisitKeepsTable' /\ ReadingsHold'
<1> DEFINE s == req[c].session
<1> DEFINE target == req[c].target
<1>0. /\ s \in Sessions /\ Active(s) /\ Exists(s)
      /\ target \in TableSessionStatus /\ target # "closed"
      /\ sessionStatus \in [Sessions -> TableSessionStatus \cup {"absent"}]
  BY RequestFacts, SessionEdgeFacts
     DEF UpdateSessionCommit, CoordinatedInv, ReadingsHold, IsCurrent, TypeOK
<1>1. /\ sessionStatus' = [sessionStatus EXCEPT ![s] = target]
      /\ UNCHANGED <<tableVars, guestVars>> /\ sessionTable' = sessionTable
  BY DEF UpdateSessionCommit
<1>2. \A r \in Sessions : (Active(r)' <=> Active(r)) /\ (Exists(r)' <=> Exists(r))
  BY <1>0, <1>1 DEF Active, Exists, TableSessionStatus
<1>3. \A t : ActiveAt(t)' = ActiveAt(t)
  BY <1>1, <1>2 DEF ActiveAt
<1>4. VisitKeepsTable'
  BY <1>1, <1>3 DEF CoordinatedInv, VisitKeepsTable, tableVars
<1>5. ASSUME NEW d \in Clients \ {c} PROVE IsCurrent(req[d])'
  <2>1. req'[d] = req[d] /\ IsCurrent(req[d])
    BY FinishFacts DEF UpdateSessionCommit, CoordinatedInv, ReadingsHold
  <2>2. ASSUME req[d].at \in {"moving_session", "closing", "counted", "flushed"}
        PROVE  sessionStatus'[req[d].session] = sessionStatus[req[d].session]
    <3>1. req[d].session \in Sessions /\ req[d].session # s
      BY <1>0, <2>2, RequestFacts DEF UpdateSessionCommit, CoordinatedInv, OneWriter, Moves
    <3> QED
      BY <1>0, <1>1, <3>1
  <2>3. req[d].at = "joining" => req[d].session \in Sessions
    BY GuestFacts
  <2> QED
    BY <1>1, <1>2, <1>3, <2>1, <2>2, <2>3 DEF IsCurrent, tableVars, guestVars
<1>6. ReadingsHold'
  BY <1>5, Ending DEF UpdateSessionCommit
<1> QED
  BY <1>4, <1>6

(* A visit that is closed leaves its table dirty or as staff have put it.  *)
LEMMA CloseDisturbsNobody ==
  ASSUME TypeOK, FloorInv, CoordinatedInv, NEW c \in Clients, CloseCommit(c)
  PROVE  VisitKeepsTable' /\ ReadingsHold'
<1> DEFINE s == req[c].session
<1> DEFINE t == req[c].table
<1>0. /\ s \in Sessions /\ Active(s) /\ Exists(s)
      /\ t = sessionTable[s] /\ t \in Tables
      /\ sessionStatus \in [Sessions -> TableSessionStatus \cup {"absent"}]
      /\ tableStatus \in [Tables -> TableStatus \cup {"absent"}]
  BY RequestFacts, SessionEdgeFacts
     DEF CloseCommit, CoordinatedInv, ReadingsHold, IsCurrent, TypeOK, FloorInv,
         RequestsKnowTheirRows, VisitsHaveTables
<1>1. /\ sessionStatus' = [sessionStatus EXCEPT ![s] = "closed"]
      /\ \/ tableStatus' = tableStatus
         \/ tableStatus' = [tableStatus EXCEPT ![t] = "dirty"]
      /\ UNCHANGED guestVars /\ sessionTable' = sessionTable
  BY DEF CloseCommit
<1>2. /\ \A r \in Sessions : Active(r)' => Active(r)
      /\ \A r \in Sessions : Exists(r)' <=> Exists(r)
  BY <1>0, <1>1 DEF Active, Exists
<1>3. \A u : ActiveAt(u)' \subseteq ActiveAt(u)
  BY <1>1, <1>2 DEF ActiveAt
<1>4. \A u \in Tables : tableStatus'[u] \in {tableStatus[u], "dirty"}
  BY <1>0, <1>1
<1>5. VisitKeepsTable'
  BY <1>3, <1>4 DEF CoordinatedInv, VisitKeepsTable
<1>6. ASSUME NEW d \in Clients \ {c} PROVE IsCurrent(req[d])'
  <2>1. req'[d] = req[d] /\ IsCurrent(req[d])
    BY FinishFacts DEF CloseCommit, CoordinatedInv, ReadingsHold
  <2>2. ASSUME req[d].at \in {"moving_session", "closing", "counted", "flushed"}
        PROVE  sessionStatus'[req[d].session] = sessionStatus[req[d].session]
    <3>1. req[d].session \in Sessions /\ req[d].session # s
      BY <1>0, <2>2, RequestFacts DEF CloseCommit, CoordinatedInv, OneWriter, Moves
    <3> QED
      BY <1>0, <1>1, <3>1
  <2>3. ASSUME req[d].at = "flushed" PROVE req[d].table \in Tables
    <3>1. req[d].session \in Sessions
      BY <2>3, RequestFacts
    <3> QED
      BY <2>3, <3>1 DEF FloorInv, RequestsKnowTheirRows, VisitsHaveTables
  <2>4. req[d].at = "joining" => req[d].session \in Sessions
    BY GuestFacts
  <2> QED
    BY <1>1, <1>2, <1>3, <1>4, <2>1, <2>2, <2>3, <2>4 DEF IsCurrent, guestVars
<1>7. ReadingsHold'
  BY <1>6, Ending DEF CloseCommit
<1> QED
  BY <1>5, <1>7

(* A guest's row is written by one request at a time.                      *)
LEMMA GuestCommitsDisturbNobody ==
  ASSUME TypeOK, FloorInv, CoordinatedInv, NEW c \in Clients, NEW g \in Guests,
         JoinCommit(c, g) \/ UpdateGuestCommit(c, g)
  PROVE  VisitKeepsTable' /\ ReadingsHold'
<1>0. req[c].guest = g /\ Finish(c)
  BY DEF JoinCommit, UpdateGuestCommit
<1>1. /\ UNCHANGED <<tableVars, sessionVars>>
      /\ \A h \in Guests : h # g => guestStatus'[h] = guestStatus[h]
  BY DEF JoinCommit, UpdateGuestCommit, TypeOK
<1>2. VisitKeepsTable'
  BY <1>1 DEF CoordinatedInv, VisitKeepsTable, ActiveAt, Active, tableVars, sessionVars
<1>3. ASSUME NEW d \in Clients \ {c} PROVE IsCurrent(req[d])'
  <2>1. req'[d] = req[d] /\ IsCurrent(req[d]) /\ IsCurrent(req[c])
    BY <1>0, FinishFacts DEF CoordinatedInv, ReadingsHold
  <2>2. ASSUME req[d].at \in {"joining", "moving_guest"}
        PROVE  req[d].guest \in Guests /\ req[d].guest # g
    <3>1. req[d].guest \in Guests
      BY <2>2, GuestFacts
    <3>2. CASE req[c].at = "joining" \/ req[d].at = "joining"
      BY <1>0, <3>1, <3>2 DEF CoordinatedInv, NewGuestsDiffer
    <3>3. CASE req[c].at = "moving_guest" /\ req[d].at = "moving_guest"
      BY <1>0, <3>1, <3>3 DEF CoordinatedInv, OneWriter, Moves
    <3> QED
      BY <2>2, <3>1, <3>2, <3>3 DEF JoinCommit, UpdateGuestCommit
  <2> QED
    BY <1>1, <2>1, <2>2 DEF IsCurrent, ActiveAt, Active, Exists, tableVars, sessionVars
<1>4. ReadingsHold'
  BY <1>0, <1>3, Ending
<1> QED
  BY <1>2, <1>4

(* The identity a joining guest will get is its request's alone.           *)
LEMMA NextNewGuestsDiffer ==
  TypeOK /\ CoordinatedInv /\ [Next]_floorVars => NewGuestsDiffer'
<1> SUFFICES ASSUME TypeOK, CoordinatedInv, [Next]_floorVars
             PROVE  NewGuestsDiffer'
  OBVIOUS
<1>0. NewGuestsDiffer /\ \A d \in Clients : req[d].at = "joining" => req[d].guest \in Guests
  BY GuestFacts DEF CoordinatedInv
<1>1. CASE req' = req
  BY <1>0, <1>1 DEF NewGuestsDiffer
<1>2. ASSUME NEW c \in Clients, NEW r, Begin(c, r), r.at # "joining", r.guest = Nil
      PROVE  NewGuestsDiffer'
  BY <1>0, <1>2, BeginFacts, NilAssumption DEF NewGuestsDiffer
<1>3. ASSUME NEW c \in Clients, Finish(c)
      PROVE  NewGuestsDiffer'
  <2>1. req'[c].guest = Nil /\ req'[c].at = "idle"
    BY <1>3, FinishFacts DEF Idle
  <2> QED
    BY <1>0, <1>3, <2>1, FinishFacts, NilAssumption DEF NewGuestsDiffer
<1>4. ASSUME NEW c \in Clients, NEW s \in Sessions, NEW g \in Guests, JoinBegin(c, s, g)
      PROVE  NewGuestsDiffer'
  <2>1. /\ req'[c].guest = g
        /\ \A d \in Clients \ {c} : req'[d] = req[d] /\ req[d].guest # g
    BY <1>4, BeginFacts, ZenonT(40) DEF JoinBegin, NewGuest, Idle
  <2> QED
    BY <1>0, <2>1 DEF NewGuestsDiffer
<1>5. ASSUME NEW c \in Clients, NEW g \in Guests, NEW target \in GuestSessionStatus,
             UpdateGuestBegin(c, g, target)
      PROVE  NewGuestsDiffer'
  <2> DEFINE r == [Idle EXCEPT !.at = "moving_guest", !.guest = g, !.target = target]
  <2>0. r.guest = g /\ r.at = "moving_guest"
    BY DEF Idle
  <2>1. /\ req'[c].guest = g /\ req'[c].at = "moving_guest"
        /\ \A d \in Clients \ {c} : req'[d] = req[d]
    <3>1. Begin(c, r)
      BY <1>5 DEF UpdateGuestBegin
    <3> HIDE DEF r
    <3> QED
      BY <2>0, <3>1, BeginFacts
  <2>2. guestStatus[g] # "absent"
    BY <1>5 DEF UpdateGuestBegin, CanTransition, GuestSessionEdges
  <2>3. \A d \in Clients : req[d].at = "joining" => req[d].guest # g
    BY <2>2 DEF CoordinatedInv, ReadingsHold, IsCurrent
  <2> QED
    BY <1>0, <2>1, <2>3 DEF NewGuestsDiffer
<1>6. ASSUME NEW c \in Clients, CloseCount(c, 0) \/ CloseCount(c, 1) \/ CloseFlush(c)
      PROVE  NewGuestsDiffer'
  <2>1. CASE Finish(c)
    BY <1>3, <2>1
  <2>2. CASE ~Finish(c)
    <3>1. /\ req'[c].guest = req[c].guest /\ req'[c].at \notin {"joining"}
          /\ \A d \in Clients \ {c} : req'[d] = req[d]
      BY <1>6, <2>2 DEF CloseCount, CloseFlush, TypeOK, Request
    <3> QED
      BY <1>0, <3>1 DEF NewGuestsDiffer
  <2> QED
    BY <2>1, <2>2
<1>7. ASSUME NEW c \in Clients, NEW t \in Tables, NEW s \in Sessions, OpenBegin(c, t, s)
      PROVE  NewGuestsDiffer'
  BY <1>2, <1>7 DEF OpenBegin, Idle
<1>8. ASSUME NEW c \in Clients, NEW t \in Tables, NEW target \in TableStatus,
             UpdateTableBegin(c, t, target)
      PROVE  NewGuestsDiffer'
  BY <1>2, <1>8 DEF UpdateTableBegin, Idle
<1>9. ASSUME NEW c \in Clients, NEW s \in Sessions, NEW target \in TableSessionStatus,
             UpdateSessionBegin(c, s, target)
      PROVE  NewGuestsDiffer'
  BY <1>2, <1>9 DEF UpdateSessionBegin, Idle
<1> QED
  BY <1>1, <1>3, <1>4, <1>5, <1>6, <1>7, <1>8, <1>9
     DEF Next, Arrive, Proceed, floorVars, CreateTable, OpenCommit, UpdateTableCommit,
         UpdateSessionCommit, CloseCommit, IndexRejects, JoinCommit, UpdateGuestCommit, Abort

(* Every step that keeps to the discipline keeps the readings true.        *)
LEMMA NextCoordinatedInv ==
  TypeOK /\ FloorInv /\ CoordinatedInv /\ [Next /\ OneWriter']_floorVars => CoordinatedInv'
<1> SUFFICES ASSUME TypeOK, FloorInv, CoordinatedInv, [Next /\ OneWriter']_floorVars
             PROVE  CoordinatedInv'
  OBVIOUS
<1> DEFINE Kept == VisitKeepsTable' /\ ReadingsHold'
<1>0. VisitKeepsTable /\ ReadingsHold
  BY DEF CoordinatedInv
<1>1. NewGuestsDiffer'
  BY NextNewGuestsDiffer
<1>2. OneWriter'
  BY DEF CoordinatedInv, OneWriter, Moves, floorVars
<1>3. ASSUME UNCHANGED floorVars
      PROVE  Kept
  BY <1>0, <1>3 DEF floorVars, VisitKeepsTable, ReadingsHold, IsCurrent, ActiveAt, Active,
                    Exists, tableVars, sessionVars, guestVars
<1>4. ASSUME NEW c \in Clients, NEW r, Begin(c, r), IsCurrent(r),
             UNCHANGED <<tableVars, sessionVars, guestVars>>
      PROVE  Kept
  BY <1>0, <1>4, BeginFacts, OwnStep
<1>5. ASSUME NEW c \in Clients, Finish(c), UNCHANGED <<tableVars, sessionVars, guestVars>>
      PROVE  Kept
  <2>1. IsCurrent(Idle)
    BY DEF IsCurrent, Idle
  <2> QED
    BY <1>0, <1>5, <2>1, FinishFacts, OwnStep
<1>6. ASSUME NEW c \in Clients, NEW t \in Tables, CreateTable(c, t)
      PROVE  Kept
  <2>1. /\ req' = req /\ UNCHANGED <<sessionVars, guestVars>>
        /\ \A u : tableStatus[u] # "absent" => tableStatus'[u] = tableStatus[u]
        /\ \A u \in Tables : tableStatus'[u] \in {tableStatus[u], "available"}
    BY <1>6 DEF CreateTable, TypeOK
  <2>2. VisitKeepsTable'
    BY <1>0, <2>1 DEF VisitKeepsTable, ActiveAt, Active, sessionVars
  <2>3. \A d \in Clients : req[d].at = "flushed" => req[d].table \in Tables
    BY RequestFacts DEF FloorInv, RequestsKnowTheirRows, VisitsHaveTables
  <2>4. ReadingsHold'
    BY <1>0, <2>1, <2>3 DEF ReadingsHold, IsCurrent, ActiveAt, Active, Exists, sessionVars, guestVars
  <2> QED
    BY <2>2, <2>4
<1>7. ASSUME NEW c \in Clients, NEW t \in Tables, NEW s \in Sessions, OpenBegin(c, t, s)
      PROVE  Kept
  <2>1. IsCurrent([Idle EXCEPT !.at = "opening", !.table = t, !.session = s])
    BY <1>7 DEF OpenBegin, IsCurrent, Idle
  <2> QED
    BY <1>4, <1>7, <2>1 DEF OpenBegin
<1>8. ASSUME NEW c \in Clients, NEW t \in Tables, NEW target \in TableStatus,
             UpdateTableBegin(c, t, target)
      PROVE  Kept
  <2>1. IsCurrent([Idle EXCEPT !.at = "moving_table", !.table = t, !.target = target])
    BY <1>8 DEF UpdateTableBegin, IsCurrent, Idle
  <2> QED
    BY <1>4, <1>8, <2>1 DEF UpdateTableBegin
<1>9. ASSUME NEW c \in Clients, NEW s \in Sessions, NEW target \in TableSessionStatus,
             UpdateSessionBegin(c, s, target)
      PROVE  Kept
  <2>1. IsCurrent([Idle EXCEPT !.at = IF target = "closed" THEN "closing" ELSE "moving_session",
                               !.session = s, !.target = target])
    BY <1>9 DEF UpdateSessionBegin, IsCurrent, Idle
  <2> QED
    BY <1>4, <1>9, <2>1 DEF UpdateSessionBegin
<1>10. ASSUME NEW c \in Clients, NEW s \in Sessions, NEW g \in Guests, JoinBegin(c, s, g)
       PROVE  Kept
  <2>1. IsCurrent([Idle EXCEPT !.at = "joining", !.session = s, !.guest = g])
    BY <1>10 DEF JoinBegin, NewGuest, IsCurrent, Idle, Active, Exists
  <2> QED
    BY <1>4, <1>10, <2>1 DEF JoinBegin
<1>11. ASSUME NEW c \in Clients, NEW g \in Guests, NEW target \in GuestSessionStatus,
              UpdateGuestBegin(c, g, target)
       PROVE  Kept
  <2>1. IsCurrent([Idle EXCEPT !.at = "moving_guest", !.guest = g, !.target = target])
    BY <1>11 DEF UpdateGuestBegin, IsCurrent, Idle
  <2> QED
    BY <1>4, <1>11, <2>1 DEF UpdateGuestBegin
<1>12. ASSUME NEW c \in Clients, NEW n \in 0..1, CloseCount(c, n)
       PROVE  Kept
  <2>1. CASE n = 0
    <3>1. /\ req' = [req EXCEPT ![c].at = "counted"] /\ req[c].at = "closing"
          /\ UNCHANGED <<tableVars, sessionVars, guestVars>>
      BY <1>12, <2>1 DEF CloseCount
    <3>2. /\ req'[c] = [req[c] EXCEPT !.at = "counted"] /\ req[c] \in Request
          /\ \A d \in Clients \ {c} : req'[d] = req[d]
      BY <3>1, RequestFacts DEF TypeOK
    <3>3. IsCurrent(req'[c])
      BY <1>0, <3>1, <3>2 DEF ReadingsHold, IsCurrent, Request
    <3> QED
      BY <1>0, <3>1, <3>2, <3>3, OwnStep
  <2>2. CASE n # 0
    BY <1>5, <1>12, <2>2 DEF CloseCount
  <2> QED
    BY <2>1, <2>2
<1>13. ASSUME NEW c \in Clients, CloseFlush(c)
       PROVE  Kept
  <2> DEFINE t == sessionTable[req[c].session]
  <2>1. /\ req[c].at = "counted" /\ UNCHANGED <<tableVars, sessionVars, guestVars>>
        /\ req'[c] = [req[c] EXCEPT !.at = "flushed", !.table = t,
                                    !.seated = tableStatus[t] = "seated"]
        /\ req[c] \in Request
        /\ \A d \in Clients \ {c} : req'[d] = req[d]
    BY <1>13, RequestFacts DEF CloseFlush, TypeOK
  <2>2. IsCurrent(req'[c])
    BY <1>0, <2>1 DEF ReadingsHold, IsCurrent, Request
  <2> QED
    BY <1>0, <2>1, <2>2, OwnStep
<1>14. ASSUME NEW c \in Clients, IndexRejects(c) \/ Abort(c)
       PROVE  Kept
  BY <1>5, <1>14 DEF IndexRejects, Abort
<1>15. ASSUME NEW c \in Clients,
              \/ OpenCommit(c) \/ UpdateTableCommit(c) \/ UpdateSessionCommit(c)
              \/ CloseCommit(c) \/ \E g \in Guests : JoinCommit(c, g) \/ UpdateGuestCommit(c, g)
       PROVE  Kept
  BY <1>15, OpenDisturbsNobody, TableMoveDisturbsNobody, VisitMoveDisturbsNobody,
     CloseDisturbsNobody, GuestCommitsDisturbNobody
<1>16. Kept
  <2> HIDE DEF Kept
  <2> QED
    BY <1>3, <1>6, <1>7, <1>8, <1>9, <1>10, <1>11, <1>12, <1>13, <1>14, <1>15
       DEF Next, Arrive, Proceed
<1> QED
  BY <1>1, <1>2, <1>16 DEF CoordinatedInv

(* As long as nobody else moves their visit or guest, no handler of        *)
(* app/api/tables.py acts on a reading that has gone stale.                *)
THEOREM CoordinatedInvariant == CoordinatedSpec => []CoordinatedInv
  BY InitCoordinatedInv, NextCoordinatedInv, CoordinatedFloor, CoordinatedSteps, PTL

(* ... and a table at which a visit is active is seated, or marked dirty   *)
(* or blocked, never free for the next party.                              *)
THEOREM VisitsKeepTheirTables == CoordinatedSpec => []VisitKeepsTable
<1>1. CoordinatedInv => VisitKeepsTable
  BY DEF CoordinatedInv
<1> QED
  BY <1>1, CoordinatedInvariant, PTL

-----------------------------------------------------------------------------
(* The refinement: a commit is a step of FloorRules, all else a stutter.   *)

(* Both modules mean the same lifecycles.                                  *)
LEMMA SameLifecycles ==
  /\ Rules!TableStatus = TableStatus
  /\ Rules!TableEdges = TableEdges
  /\ Rules!TableSessionStatus = TableSessionStatus
  /\ Rules!TableSessionEdges = TableSessionEdges
  /\ Rules!GuestSessionStatus = GuestSessionStatus
  /\ Rules!GuestSessionEdges = GuestSessionEdges
  /\ \A edges, current, target :
       Rules!CanTransition(edges, current, target) <=> CanTransition(edges, current, target)
  BY DEF Rules!TableStatus, TableStatus, Rules!TableEdges, TableEdges,
         Rules!TableSessionStatus, TableSessionStatus, Rules!TableSessionEdges, TableSessionEdges,
         Rules!GuestSessionStatus, GuestSessionStatus, Rules!GuestSessionEdges, GuestSessionEdges,
         Rules!CanTransition, CanTransition

(* What FloorRules calls vacant is a table with no active visit.           *)
LEMMA VacantTables ==
  ASSUME NEW t \in Tables, ActiveAt(t) = {}
  PROVE  Rules!Vacant(t)
  BY SameLifecycles DEF Rules!Vacant, Rules!InService, TableSessionStatus, ActiveAt, Active

(* Step by step: a commit is the rule of its name.                         *)
LEMMA NextFollowsRules ==
  TypeOK /\ FloorInv /\ CoordinatedInv /\ [Next]_floorVars => [Rules!Next]_Rules!vars
<1> SUFFICES ASSUME TypeOK, FloorInv, CoordinatedInv, Next
             PROVE  Rules!Next \/ UNCHANGED Rules!vars
  BY DEF floorVars, tableVars, sessionVars, guestVars, Rules!vars
<1>0. \A c \in Clients : IsCurrent(req[c])
  BY DEF CoordinatedInv, ReadingsHold
<1>1. ASSUME UNCHANGED <<tableVars, sessionVars, guestVars>>
      PROVE  UNCHANGED Rules!vars
  BY <1>1 DEF tableVars, sessionVars, guestVars, Rules!vars
<1>2. ASSUME NEW c \in Clients, NEW t \in Tables, CreateTable(c, t)
      PROVE  Rules!Next
  BY <1>2 DEF CreateTable, sessionVars, guestVars, Rules!Next, Rules!AddTable
<1>3. ASSUME NEW c \in Clients, OpenCommit(c)
      PROVE  Rules!Next
  <2> DEFINE s == req[c].session
  <2> DEFINE t == req[c].table
  <2>1. s \in Sessions /\ t \in Tables /\ ~Exists(s) /\ ActiveAt(t) = {}
    BY <1>0, <1>3, RequestFacts DEF OpenCommit, FloorInv, RequestsKnowTheirRows, IsCurrent
  <2>2. tableStatus[t] \in {"available", "reserved"}
    BY <1>3 DEF OpenCommit, FloorInv, TableMovesStayLegal, CanTransition, TableEdges
  <2>3. Rules!SeatParty(s, t)
    BY <1>3, <2>1, <2>2, VacantTables DEF OpenCommit, Exists, guestVars, Rules!SeatParty
  <2> QED
    BY <2>1, <2>3, SameLifecycles DEF Rules!Next
<1>4. ASSUME NEW c \in Clients, UpdateTableCommit(c)
      PROVE  Rules!Next
  <2> DEFINE t == req[c].table
  <2> DEFINE target == req[c].target
  <2>1. t \in Tables /\ target \in TableStatus /\ CanTransition(TableEdges, tableStatus[t], target)
    BY <1>4, RequestFacts, GuestFacts DEF UpdateTableCommit, FloorInv, TableMovesStayLegal
  <2>2. target = "available" => Rules!Vacant(t)
    BY <1>0, <1>4, <2>1, VacantTables DEF UpdateTableCommit, IsCurrent
  <2>3. Rules!MoveTable(t, target)
    BY <1>4, <2>1, <2>2, SameLifecycles DEF UpdateTableCommit, sessionVars, guestVars, Rules!MoveTable
  <2> QED
    BY <2>1, <2>3, SameLifecycles DEF Rules!Next
<1>5. ASSUME NEW c \in Clients, UpdateSessionCommit(c)
      PROVE  Rules!Next
  <2>1. req[c].session \in Sessions /\ req[c].target \in TableSessionStatus
    BY <1>5, RequestFacts DEF UpdateSessionCommit
  <2>2. Rules!MoveVisit(req[c].session, req[c].target)
    BY <1>0, <1>5, SameLifecycles DEF UpdateSessionCommit, IsCurrent, tableVars, guestVars, Rules!MoveVisit
  <2> QED
    BY <2>1, <2>2, SameLifecycles DEF Rules!Next
<1>6. ASSUME NEW c \in Clients, CloseCommit(c)
      PROVE  Rules!Next
  <2>1. req[c].session \in Sessions /\ req[c].table = sessionTable[req[c].session]
    BY <1>6, RequestFacts DEF CloseCommit, FloorInv, RequestsKnowTheirRows
  <2>2. Rules!CloseVisit(req[c].session)
    BY <1>0, <1>6, <2>1, SameLifecycles DEF CloseCommit, IsCurrent, guestVars, Rules!CloseVisit
  <2> QED
    BY <2>1, <2>2, SameLifecycles DEF Rules!Next
<1>7. ASSUME NEW c \in Clients, NEW g \in Guests, JoinCommit(c, g)
      PROVE  Rules!Next
  <2>1. req[c].session \in Sessions /\ req[c].guest \in Guests
    BY <1>7, GuestFacts DEF JoinCommit
  <2>2. Rules!JoinVisit(req[c].guest, req[c].session)
    BY <1>0, <1>7 DEF JoinCommit, IsCurrent, Exists, tableVars, sessionVars, Rules!JoinVisit
  <2> QED
    BY <2>1, <2>2, SameLifecycles DEF Rules!Next
<1>8. ASSUME NEW c \in Clients, NEW g \in Guests, UpdateGuestCommit(c, g)
      PROVE  Rules!Next
  <2>1. req[c].guest \in Guests /\ req[c].target \in GuestSessionStatus
    BY <1>8, GuestFacts DEF UpdateGuestCommit
  <2>2. Rules!MoveGuest(req[c].guest, req[c].target)
    BY <1>0, <1>8, SameLifecycles DEF UpdateGuestCommit, IsCurrent, tableVars, sessionVars, Rules!MoveGuest
  <2> QED
    BY <2>1, <2>2, SameLifecycles DEF Rules!Next
<1> QED
  BY <1>1, <1>2, <1>3, <1>4, <1>5, <1>6, <1>7, <1>8
     DEF Next, Arrive, Proceed, OpenBegin, UpdateTableBegin, UpdateSessionBegin, CloseCount,
         CloseFlush, IndexRejects, JoinBegin, UpdateGuestBegin, Abort

(* However the handlers overlap, what staff and guests see is the floor of *)
(* FloorRules, where every operation happens at a stroke.                  *)
THEOREM RequestsAreAtomic == CoordinatedSpec => FollowsRules
<1>1. Init => Rules!Init
  BY DEF Init, Rules!Init
<1>2. TypeOK /\ FloorInv /\ CoordinatedInv /\ [Next /\ OneWriter']_floorVars
        => [Rules!Next]_Rules!vars
  BY NextFollowsRules
<1> QED
  BY <1>1, <1>2, CoordinatedFloor, CoordinatedInvariant, CoordinatedSteps, PTL
     DEF FollowsRules, Rules!Spec

(* closed is the end of a visit: no late write of                          *)
(* update_table_session_status brings it back.                             *)
THEOREM ClosedVisitsStayClosed == CoordinatedSpec => ClosedIsTerminal
<1> DEFINE Stays == \A s \in Sessions : sessionStatus[s] = "closed" => sessionStatus'[s] = "closed"
<1>1. ASSUME TypeOK, FloorInv, CoordinatedInv, [Next]_floorVars PROVE Stays
  <2>1. CASE UNCHANGED sessionStatus
    BY <2>1
  <2>2. ASSUME NEW c \in Clients, OpenCommit(c)
        PROVE  Stays
    BY <1>1, <2>2, RequestFacts DEF TypeOK, OpenCommit, FloorInv, RequestsKnowTheirRows, Exists
  <2>3. ASSUME NEW c \in Clients, UpdateSessionCommit(c)
        PROVE  Stays
    <3>1. sessionStatus[req[c].session] # "closed"
      BY <1>1, <2>3 DEF UpdateSessionCommit, CoordinatedInv, ReadingsHold, IsCurrent,
                        CanTransition, TableSessionEdges
    <3> QED
      BY <1>1, <2>3, <3>1 DEF TypeOK, UpdateSessionCommit
  <2>4. ASSUME NEW c \in Clients, CloseCommit(c)
        PROVE  Stays
    BY <1>1, <2>4 DEF TypeOK, CloseCommit
  <2> QED
    BY <1>1, <2>1, <2>2, <2>3, <2>4
       DEF Next, Arrive, Proceed, floorVars, sessionVars, CreateTable, OpenBegin,
           UpdateTableBegin, UpdateTableCommit, UpdateSessionBegin, CloseCount, CloseFlush,
           IndexRejects, JoinBegin, JoinCommit, UpdateGuestBegin, UpdateGuestCommit, Abort
<1>2. TypeOK /\ FloorInv /\ CoordinatedInv /\ [Next /\ OneWriter']_floorVars => [Stays]_floorVars
  BY <1>1
<1> QED
  BY <1>2, CoordinatedFloor, CoordinatedInvariant, CoordinatedSteps, PTL DEF ClosedIsTerminal
=============================================================================
