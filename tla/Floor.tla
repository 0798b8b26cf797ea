------------------------------- MODULE Floor -------------------------------
(**************************************************************************)
(* The dining floor of app/api/tables.py: physical tables, the service     *)
(* visits (table sessions) held at them, and the guests who join a visit.  *)
(*                                                                         *)
(* Each HTTP request is one PostgreSQL transaction at READ COMMITTED,      *)
(* driven by one coroutine.  A handler is cut where it awaits the          *)
(* database: a first action reads (and takes row locks), a last action     *)
(* flushes, commits and ends the request; what the handler keeps in        *)
(* between is in req[c].  A request the handler refuses (404, 409, a       *)
(* missing permission) leaves no trace, so it is simply not a step.        *)
(*                                                                         *)
(* Row locks are not variables: who holds one follows from where the       *)
(* requests are.  SELECT ... FOR UPDATE locks a table from the first       *)
(* action of the request to its commit; the flush of a close locks the     *)
(* session row until its commit.  A lock and the read that follows it are  *)
(* one action: taking a lock shows nothing to anybody else.                *)
(**************************************************************************)
EXTENDS StateMachines, Naturals

CONSTANTS
  Tables,     \* physical tables (a branch_id and code pair names one)
  Sessions,   \* identities of service visits, used up as visits are opened
  Guests,     \* identities of guest sessions
  Clients,    \* requests that may be in flight at the same time
  Nil         \* the absence of any of them

ASSUME NilAssumption == Nil \notin Tables \cup Sessions \cup Guests

VARIABLES
  tableStatus,    \* dining_tables.status, "absent" before the row exists
  sessionStatus,  \* table_sessions.status, "absent" before the row exists
  sessionTable,   \* table_sessions.table_id
  closedAt,       \* whether table_sessions.closed_at is set
  guestStatus,    \* guest_sessions.status, "absent" before the row exists
  guestSession,   \* guest_sessions.table_session_id
  req             \* the request each client has in flight

tableVars == <<tableStatus>>
sessionVars == <<sessionStatus, sessionTable, closedAt>>
guestVars == <<guestStatus, guestSession>>
floorVars == <<tableVars, sessionVars, guestVars, req>>

Steps == {"idle", "opening", "moving_table", "moving_session", "closing",
          "counted", "flushed", "joining", "moving_guest"}

Targets == TableStatus \cup TableSessionStatus \cup GuestSessionStatus \cup {Nil}

(* What a handler's coroutine holds: where it stands, the row it works on, *)
(* the status asked for, and (a close) whether it read the table as seated.*)
Request ==
  {r \in [at: Steps, table: Tables \cup {Nil}, session: Sessions \cup {Nil},
          guest: Guests \cup {Nil}, target: Targets, seated: BOOLEAN] :
     /\ r.at = "opening" => r.table \in Tables /\ r.session \in Sessions
     /\ r.at = "moving_table" => r.table \in Tables /\ r.target \in TableStatus
     /\ r.at = "moving_session" => r.session \in Sessions /\ r.target \in TableSessionStatus
     /\ r.at \in {"closing", "counted", "flushed"} => r.session \in Sessions
     /\ r.at = "joining" => r.session \in Sessions /\ r.guest \in Guests
     /\ r.at = "moving_guest" => r.guest \in Guests /\ r.target \in GuestSessionStatus}

Idle == [at |-> "idle", table |-> Nil, session |-> Nil, guest |-> Nil,
         target |-> Nil, seated |-> FALSE]

Init ==
  /\ tableStatus = [t \in Tables |-> "absent"]
  /\ sessionStatus = [s \in Sessions |-> "absent"]
  /\ sessionTable = [s \in Sessions |-> Nil]
  /\ closedAt = [s \in Sessions |-> FALSE]
  /\ guestStatus = [g \in Guests |-> "absent"]
  /\ guestSession = [g \in Guests |-> Nil]
  /\ req = [c \in Clients |-> Idle]

-----------------------------------------------------------------------------
(* Rows, locks and the partial unique index.                               *)

Active(s) == sessionStatus[s] \notin {"absent", "closed"}

ActiveAt(t) == {s \in Sessions : Active(s) /\ sessionTable[s] = t}

Exists(s) == sessionStatus[s] # "absent"

TableLockedBy(c, t) == req[c].at \in {"opening", "moving_table"} /\ req[c].table = t
SessionLockedBy(c, s) == req[c].at = "flushed" /\ req[c].session = s

(* Mutant: the table row is read without FOR UPDATE. *)
TableNeverLocked(c, t) == TRUE

(* Mutant: the flush of a close leaves the session row unlocked. *)
SessionNeverLocked(c, s) == TRUE

TableFree(c, t) == \A d \in Clients \ {c} : ~TableLockedBy(d, t)
SessionFree(c, s) == \A d \in Clients \ {c} : ~SessionLockedBy(d, s)

(* uq_table_sessions_active_table: a write that makes s active at t waits  *)
(* while another active session of t is being closed by an uncommitted     *)
(* transaction, and fails if one is simply there.                          *)
Rivals(s, t) == ActiveAt(t) \ {s}
IndexBusy(c, s, t) == \E r \in Rivals(s, t) : ~SessionFree(c, r)

(* Mutant: the index uq_table_sessions_active_table is not there. *)
NoIndex(s, t) == TRUE

IndexAdmits(s, t) == Rivals(s, t) = {}

(* The identity a new row will get: serial numbers are never handed out    *)
(* twice, and the pool is the model's bound on how many rows there are.    *)
NewSession(s) == ~Exists(s) /\ \A d \in Clients : req[d].session # s
NewGuest(g) == guestStatus[g] = "absent" /\ \A d \in Clients : req[d].guest # g

Begin(c, r) == req[c] = Idle /\ req' = [req EXCEPT ![c] = r]
Finish(c) == req' = [req EXCEPT ![c] = Idle]

-----------------------------------------------------------------------------
(* POST /tables.  The duplicate check repeats what the unique constraint   *)
(* on (branch_id, code) enforces when the row is inserted.                 *)
CreateTable(c, t) ==
  /\ req[c] = Idle
  /\ tableStatus[t] = "absent"
  /\ tableStatus' = [tableStatus EXCEPT ![t] = "available"]
  /\ UNCHANGED <<sessionVars, guestVars, req>>

(* Mutant: the legality of the move to seated is not checked. *)
OpenUnchecked(c, t, s) ==
  /\ NewSession(s)
  /\ TableFree(c, t)
  /\ ActiveAt(t) = {}
  /\ tableStatus[t] # "absent"
  /\ Begin(c, [Idle EXCEPT !.at = "opening", !.table = t, !.session = s])
  /\ UNCHANGED <<tableVars, sessionVars, guestVars>>

(* POST /tables/{id}/open-session: lock the table, refuse if a session is  *)
(* active there or the table cannot become seated ...                      *)
OpenBegin(c, t, s) ==
  /\ NewSession(s)
  /\ TableFree(c, t)
  /\ ActiveAt(t) = {}
  /\ CanTransition(TableEdges, tableStatus[t], "seated")
  /\ Begin(c, [Idle EXCEPT !.at = "opening", !.table = t, !.session = s])
  /\ UNCHANGED <<tableVars, sessionVars, guestVars>>

(* Mutant: the session is inserted with its own id for a table_id. *)
OpenMislinked(c) ==
  /\ req[c].at = "opening"
  /\ IndexAdmits(req[c].session, req[c].table)
  /\ sessionStatus' = [sessionStatus EXCEPT ![req[c].session] = "open"]
  /\ sessionTable' = [sessionTable EXCEPT ![req[c].session] = req[c].session]
  /\ tableStatus' = [tableStatus EXCEPT ![req[c].table] = "seated"]
  /\ Finish(c)
  /\ UNCHANGED <<closedAt, guestVars>>

(* Mutant: the session is inserted, the table is left as it was. *)
OpenUnseated(c) ==
  /\ req[c].at = "opening"
  /\ IndexAdmits(req[c].session, req[c].table)
  /\ sessionStatus' = [sessionStatus EXCEPT ![req[c].session] = "open"]
  /\ sessionTable' = [sessionTable EXCEPT ![req[c].session] = req[c].table]
  /\ Finish(c)
  /\ UNCHANGED <<tableVars, closedAt, guestVars>>

(* ... then insert the session, seat the table and commit.                 *)
OpenCommit(c) ==
  LET s == req[c].session
      t == req[c].table IN
  /\ req[c].at = "opening"
  /\ IndexAdmits(s, t)
  /\ sessionStatus' = [sessionStatus EXCEPT ![s] = "open"]
  /\ sessionTable' = [sessionTable EXCEPT ![s] = t]
  /\ tableStatus' = [tableStatus EXCEPT ![t] = "seated"]
  /\ Finish(c)
  /\ UNCHANGED <<closedAt, guestVars>>

(* Mutant: available is granted while a session is active. *)
UpdateTableUnasked(c, t, target) ==
  /\ TableFree(c, t)
  /\ CanTransition(TableEdges, tableStatus[t], target)
  /\ Begin(c, [Idle EXCEPT !.at = "moving_table", !.table = t, !.target = target])
  /\ UNCHANGED <<tableVars, sessionVars, guestVars>>

(* PATCH /tables/{id}/status: lock the table; a move to available is       *)
(* refused while a session is active there.                                *)
UpdateTableBegin(c, t, target) ==
  /\ TableFree(c, t)
  /\ target = "available" => ActiveAt(t) = {}
  /\ CanTransition(TableEdges, tableStatus[t], target)
  /\ Begin(c, [Idle EXCEPT !.at = "moving_table", !.table = t, !.target = target])
  /\ UNCHANGED <<tableVars, sessionVars, guestVars>>

UpdateTableCommit(c) ==
  /\ req[c].at = "moving_table"
  /\ tableStatus' = [tableStatus EXCEPT ![req[c].table] = req[c].target]
  /\ Finish(c)
  /\ UNCHANGED <<sessionVars, guestVars>>

-----------------------------------------------------------------------------
(* Mutant: apply_transition is not called for a session. *)
UpdateSessionUnchecked(c, s, target) ==
  /\ Exists(s)
  /\ Begin(c, [Idle EXCEPT !.at = IF target = "closed" THEN "closing" ELSE "moving_session",
                           !.session = s, !.target = target])
  /\ UNCHANGED <<tableVars, sessionVars, guestVars>>

(* PATCH /table-sessions/{id}/status.  The session is read with db.get, no *)
(* lock, and the legality of the move is judged on that reading.           *)
UpdateSessionBegin(c, s, target) ==
  /\ Exists(s)
  /\ CanTransition(TableSessionEdges, sessionStatus[s], target)
  /\ Begin(c, [Idle EXCEPT !.at = IF target = "closed" THEN "closing" ELSE "moving_session",
                           !.session = s, !.target = target])
  /\ UNCHANGED <<tableVars, sessionVars, guestVars>>

(* A move other than to closed: UPDATE ... SET status WHERE id, whatever   *)
(* the row says by now.  It waits for the row lock of a flushed close.     *)
UpdateSessionCommit(c) ==
  LET s == req[c].session IN
  /\ req[c].at = "moving_session"
  /\ SessionFree(c, s)
  /\ IndexAdmits(s, sessionTable[s])
  /\ sessionStatus' = [sessionStatus EXCEPT ![s] = req[c].target]
  /\ Finish(c)
  /\ UNCHANGED <<tableVars, sessionTable, closedAt, guestVars>>

(* Mutant: a close that goes ahead whatever it counts. *)
CloseUncounted(c, n) ==
  /\ req[c].at = "closing"
  /\ req' = [req EXCEPT ![c].at = "counted"]
  /\ UNCHANGED <<tableVars, sessionVars, guestVars>>

(* A close counts the session's payments that are neither refunded nor     *)
(* failed, and answers 409 unless there are none; n is that count.         *)
CloseCount(c, n) ==
  /\ req[c].at = "closing"
  /\ IF n = 0 THEN req' = [req EXCEPT ![c].at = "counted"] ELSE Finish(c)
  /\ UNCHANGED <<tableVars, sessionVars, guestVars>>

(* db.get(DiningTable) first flushes the session's UPDATE, which takes the *)
(* session row lock, and then reads the table without locking it.          *)
CloseFlush(c) ==
  LET s == req[c].session IN
  /\ req[c].at = "counted"
  /\ SessionFree(c, s)
  /\ req' = [req EXCEPT ![c].at = "flushed",
                        ![c].table = sessionTable[s],
                        ![c].seated = tableStatus[sessionTable[s]] = "seated"]
  /\ UNCHANGED <<tableVars, sessionVars, guestVars>>

(* The commit releases the table if it was read as seated; the UPDATE of   *)
(* the table row waits for whoever holds its lock.                         *)
CloseCommit(c) ==
  LET s == req[c].session
      t == req[c].table IN
  /\ req[c].at = "flushed"
  /\ req[c].seated => TableFree(c, t)
  /\ sessionStatus' = [sessionStatus EXCEPT ![s] = "closed"]
  /\ closedAt' = [closedAt EXCEPT ![s] = TRUE]
  /\ tableStatus' = IF req[c].seated THEN [tableStatus EXCEPT ![t] = "dirty"]
                                     ELSE tableStatus
  /\ Finish(c)
  /\ UNCHANGED <<sessionTable, guestVars>>

(* Mutant: an IntegrityError is retried for as long as it takes. *)
RetriesForEver(c) == FALSE

(* An insert or update the index refuses: IntegrityError, rollback, 500.   *)
IndexRejects(c) ==
  LET s == req[c].session
      t == IF req[c].at = "opening" THEN req[c].table ELSE sessionTable[s] IN
  /\ req[c].at \in {"opening", "moving_session"}
  /\ SessionFree(c, s)
  /\ ~IndexAdmits(s, t)
  /\ ~IndexBusy(c, s, t)
  /\ Finish(c)
  /\ UNCHANGED <<tableVars, sessionVars, guestVars>>

-----------------------------------------------------------------------------
(* POST /table-sessions/{id}/guests: the session is read, unlocked, and a  *)
(* closed one takes no more guests ...                                     *)
JoinBegin(c, s, g) ==
  /\ NewGuest(g)
  /\ Active(s)
  /\ Begin(c, [Idle EXCEPT !.at = "joining", !.session = s, !.guest = g])
  /\ UNCHANGED <<tableVars, sessionVars, guestVars>>

(* ... then the guest is inserted as authenticating and moved to joined.   *)
JoinCommit(c, g) ==
  /\ req[c].at = "joining" /\ req[c].guest = g
  /\ guestStatus' = [guestStatus EXCEPT ![g] = "joined"]
  /\ guestSession' = [guestSession EXCEPT ![g] = req[c].session]
  /\ Finish(c)
  /\ UNCHANGED <<tableVars, sessionVars>>

(* PATCH /guest-sessions/{id}/status: an unlocked read, then a blind write.*)
UpdateGuestBegin(c, g, target) ==
  /\ CanTransition(GuestSessionEdges, guestStatus[g], target)
  /\ Begin(c, [Idle EXCEPT !.at = "moving_guest", !.guest = g, !.target = target])
  /\ UNCHANGED <<tableVars, sessionVars, guestVars>>

UpdateGuestCommit(c, g) ==
  /\ req[c].at = "moving_guest" /\ req[c].guest = g
  /\ guestStatus' = [guestStatus EXCEPT ![g] = req[c].target]
  /\ Finish(c)
  /\ UNCHANGED <<tableVars, sessionVars, guestSession>>

(* The process dies, the connection breaks or PostgreSQL cancels the       *)
(* transaction: nothing uncommitted survives and the locks are released.   *)
Abort(c) ==
  /\ req[c] # Idle
  /\ Finish(c)
  /\ UNCHANGED <<tableVars, sessionVars, guestVars>>

-----------------------------------------------------------------------------
(* The steps a request takes on its own once the client has sent it; the   *)
(* payments a close finds are somebody else's, so their number is open.    *)
Proceed(c) ==
  \/ OpenCommit(c)
  \/ UpdateTableCommit(c)
  \/ UpdateSessionCommit(c)
  \/ CloseFlush(c)
  \/ CloseCommit(c)
  \/ IndexRejects(c)
  \/ \E g \in Guests : JoinCommit(c, g) \/ UpdateGuestCommit(c, g)

Arrive(c) ==
  \/ \E t \in Tables : CreateTable(c, t)
  \/ \E t \in Tables, s \in Sessions : OpenBegin(c, t, s)
  \/ \E t \in Tables, target \in TableStatus : UpdateTableBegin(c, t, target)
  \/ \E s \in Sessions, target \in TableSessionStatus : UpdateSessionBegin(c, s, target)
  \/ \E s \in Sessions, g \in Guests : JoinBegin(c, s, g)
  \/ \E g \in Guests, target \in GuestSessionStatus : UpdateGuestBegin(c, g, target)

Next ==
  \E c \in Clients :
    \/ Arrive(c)
    \/ Proceed(c)
    \/ \E n \in 0..1 : CloseCount(c, n)
    \/ Abort(c)

Spec == Init /\ [][Next]_floorVars

-----------------------------------------------------------------------------
TypeOK ==
  /\ tableStatus \in [Tables -> TableStatus \cup {"absent"}]
  /\ sessionStatus \in [Sessions -> TableSessionStatus \cup {"absent"}]
  /\ sessionTable \in [Sessions -> Tables \cup {Nil}]
  /\ closedAt \in [Sessions -> BOOLEAN]
  /\ guestStatus \in [Guests -> GuestSessionStatus \cup {"absent"}]
  /\ guestSession \in [Guests -> Sessions \cup {Nil}]
  /\ req \in [Clients -> Request]

(* What the requests in flight know, and what their locks keep true until  *)
(* they commit.  FloorInv is inductive; the properties below rest on it.   *)
RequestsKnowTheirRows ==
  \A c \in Clients :
    /\ req[c].at = "opening" => ~Exists(req[c].session)
    /\ req[c].at \in {"moving_session", "closing", "counted", "flushed"} =>
         Exists(req[c].session)
    /\ req[c].at = "flushed" => req[c].table = sessionTable[req[c].session]

VisitsHaveTables == \A s \in Sessions : Exists(s) => sessionTable[s] \in Tables

NewVisitsDiffer ==
  \A c, d \in Clients :
    req[c].at = "opening" /\ req[d].session = req[c].session => c = d

TableLocksExclude ==
  \A c, d \in Clients, t \in Tables : TableLockedBy(c, t) /\ TableLockedBy(d, t) => c = d

(* The move a request was allowed to make is still legal when it commits.  *)
TableMovesStayLegal ==
  \A c \in Clients :
    /\ req[c].at = "opening" =>
         CanTransition(TableEdges, tableStatus[req[c].table], "seated")
    /\ req[c].at = "moving_table" =>
         CanTransition(TableEdges, tableStatus[req[c].table], req[c].target)

(* A close that is about to release a table on which somebody is opening a *)
(* visit is a close of a visit that is closed already.                     *)
OnlyStaleReleasesWait ==
  \A c, d \in Clients :
    /\ req[c].at = "opening"
    /\ req[d].at = "flushed" /\ req[d].seated /\ req[d].table = req[c].table
    => ~Active(req[d].session)

FloorInv ==
  /\ RequestsKnowTheirRows
  /\ VisitsHaveTables
  /\ NewVisitsDiffer
  /\ TableLocksExclude
  /\ TableMovesStayLegal
  /\ OnlyStaleReleasesWait

(* At most one visit is active at a table: open_table_session checks it    *)
(* and the partial unique index enforces it, even when a closed session    *)
(* is brought back by a stale write.                                       *)
OneActiveSession == \A t \in Tables : \A r, s \in ActiveAt(t) : r = s

(* Who waits for whom inside PostgreSQL once both hold something: a close  *)
(* waits for the table row, an insert for the outcome of a close.          *)
WaitsFor(c, d) ==
  \/ /\ req[c].at = "flushed" /\ req[c].seated
     /\ TableLockedBy(d, req[c].table)
  \/ /\ req[c].at = "opening"
     /\ \E s \in ActiveAt(req[c].table) : SessionLockedBy(d, s)

(* open_table_session locks table then session, update_table_session_status*)
(* session then table, yet no two requests ever wait for each other.       *)
NoDeadlock == \A c, d \in Clients : ~(WaitsFor(c, d) /\ WaitsFor(d, c))

(* A table changes status only along its lifecycle, because the row is     *)
(* locked from the reading to the commit; the one exception is a close,    *)
(* which writes dirty over whatever the row has become.                    *)
Releases(c, t) ==
  /\ req[c].at = "flushed" /\ req[c].seated /\ req[c].table = t
  /\ req'[c] = Idle

TableMoves ==
  \A t \in Tables :
    tableStatus'[t] # tableStatus[t] =>
      \/ tableStatus[t] = "absent" /\ tableStatus'[t] = "available"
      \/ CanTransition(TableEdges, tableStatus[t], tableStatus'[t])
      \/ tableStatus'[t] = "dirty" /\ \E c \in Clients : Releases(c, t)

TableMovesAreLegal == [][TableMoves]_floorVars

(* A visit begins at a table that was free for it, available or reserved   *)
(* and with no active visit, and leaves that table seated.                 *)
OpensAtFreeTable ==
  \A s \in Sessions :
    ~Exists(s) /\ Exists(s)' =>
      LET t == sessionTable'[s] IN
        /\ tableStatus[t] \in {"available", "reserved"}
        /\ ActiveAt(t) = {}
        /\ tableStatus'[t] = "seated"

VisitsOpenAtFreeTables == [][OpensAtFreeTable]_floorVars

-----------------------------------------------------------------------------
(* What holds as long as no two requests move the same visit, or the same  *)
(* guest, at once: one member of staff per visit, or the row lock that     *)
(* _session_for_actor and update_guest_status do not take.                 *)
Moves(c, x) ==
  \/ /\ req[c].at \in {"moving_session", "closing", "counted", "flushed"}
     /\ req[c].session = x
  \/ req[c].at = "moving_guest" /\ req[c].guest = x

OneWriter ==
  \A x \in Sessions \cup Guests : \A c, d \in Clients :
    Moves(c, x) /\ Moves(d, x) => c = d

(* A request arrives only if it will be the only one to move its visit or  *)
(* guest.                                                                  *)
CoordinatedNext ==
  \E c \in Clients :
    \/ Arrive(c) /\ OneWriter'
    \/ Proceed(c)
    \/ \E n \in 0..1 : CloseCount(c, n)
    \/ Abort(c)

CoordinatedSpec == Init /\ [][CoordinatedNext]_floorVars

(* closed has no successor in TRANSITIONS: a closed visit stays closed.    *)
ClosedIsTerminal ==
  [][\A s \in Sessions : sessionStatus[s] = "closed" => sessionStatus'[s] = "closed"]_floorVars

(* While a visit is active its table is seated, or staff have marked it    *)
(* dirty or blocked: update_table_status refuses available, and no other   *)
(* chain of legal moves gets the table back to available or reserved.      *)
VisitKeepsTable ==
  \A t \in Tables : ActiveAt(t) # {} => tableStatus[t] \in {"seated", "dirty", "blocked"}

(* What a request was told when it began still holds when it commits.      *)
IsCurrent(r) ==
  /\ r.at = "opening" => ActiveAt(r.table) = {}
  /\ r.at = "moving_table" /\ r.target = "available" => ActiveAt(r.table) = {}
  /\ r.at = "moving_session" =>
       /\ r.target # "closed"
       /\ CanTransition(TableSessionEdges, sessionStatus[r.session], r.target)
  /\ r.at \in {"closing", "counted", "flushed"} =>
       CanTransition(TableSessionEdges, sessionStatus[r.session], "closed")
  /\ r.at = "flushed" /\ ~r.seated => tableStatus[r.table] # "seated"
  /\ r.at = "joining" => Exists(r.session) /\ guestStatus[r.guest] = "absent"
  /\ r.at = "moving_guest" =>
       CanTransition(GuestSessionEdges, guestStatus[r.guest], r.target)

ReadingsHold == \A c \in Clients : IsCurrent(req[c])

NewGuestsDiffer ==
  \A c, d \in Clients : req[c].at = "joining" /\ req[d].guest = req[c].guest => c = d

(* Inductive, together with FloorInv: the readings of no request in flight *)
(* go stale, and visits keep their tables.                                 *)
CoordinatedInv == OneWriter /\ VisitKeepsTable /\ ReadingsHold /\ NewGuestsDiffer

(* Overlapping requests are then as good as atomic: every commit is a step *)
(* of FloorRules, whose guards are judged on the state the step changes,   *)
(* and everything before a commit is invisible.                            *)
Rules == INSTANCE FloorRules
           WITH tableStatus <- tableStatus, sessionStatus <- sessionStatus,
                sessionTable <- sessionTable, closedAt <- closedAt,
                guestStatus <- guestStatus, guestSession <- guestSession

FollowsRules == Rules!Spec

-----------------------------------------------------------------------------
(* Every handler goes on by itself once it is awaited: the event loop      *)
(* resumes it, and PostgreSQL grants row locks in the order they were      *)
(* asked for, so a step that can be taken again and again is taken.        *)
Progress(c) == Proceed(c) \/ \E n \in 0..1 : CloseCount(c, n)

FairSpec == Spec /\ \A c \in Clients : SF_floorVars(Progress(c))

(* No request waits for ever, whatever the others do.                      *)
RequestEnds(c) == req[c] # Idle ~> req[c] = Idle

RequestsEnd == \A c \in Clients : RequestEnds(c)
=============================================================================
