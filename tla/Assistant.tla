----------------------------- MODULE Assistant ------------------------------
(**************************************************************************)
(* The doors of the assistant (app/ai/router.py, app/ai/openai_compat.py)  *)
(* and what lies behind them: the request limiter, the context fetched     *)
(* from the backend and the conversation memory.  A request pauses while   *)
(* the context is fetched, while the model infers and, when streamed,      *)
(* between the parts of its answer; there a client may go away.            *)
(**************************************************************************)
EXTENDS Conversation, RateLimiter, Access

CONSTANTS
  Held,        \* the permissions of each actor
  MaxRequests  \* bound: requests ever admitted

(* The routes of JARVIS and the chat completions.  /execute and /stream do *)
(* the same in the same order; a request to /execute is one whose client   *)
(* stays.                                                                  *)
Door == {"jarvis", "chat"}

ASSUME AssistantAssumption ==
  /\ Keys = Door \X Actors
  /\ Held \in [Actors -> SUBSET STRING]
  /\ MaxRequests \in Nat /\ MaxTurns >= MaxRequests

VARIABLES
  settings,  \* groq_api_key, allow_test_context: fixed when the process starts
  request,   \* the request of each round
  arrived    \* requests admitted so far

doorVars == <<settings, request, arrived>>
assistantVars == <<conversationVars, limiterVars, doorVars>>

Request ==
  [at: {"none", "fetching", "resolved", "inferring"},
   door: Door \cup {"none"}, actor: Actors \cup {Nobody},
   context: SUBSET Field, degraded: BOOLEAN]

NoRequest == [at |-> "none", door |-> "none", actor |-> Nobody, context |-> {}, degraded |-> FALSE]

AssistantInit ==
  /\ ConversationInit
  /\ LimiterInit
  /\ settings \in [key: BOOLEAN, testContext: BOOLEAN]
  /\ request = [r \in Rounds |-> NoRequest]
  /\ arrived = 0

-----------------------------------------------------------------------------
(* The two routes of JARVIS count together, chat completions on their own. *)
Key(door, a) == <<door, a>>

Arrive(r, door, a) ==
  /\ request[r] = NoRequest
  /\ arrived < MaxRequests
  /\ Admit(Key(door, a))
  /\ request' = [request EXCEPT ![r] = [NoRequest EXCEPT !.at = "fetching", !.door = door,
                                                         !.actor = a]]
  /\ arrived' = arrived + 1
  /\ UNCHANGED <<conversationVars, settings>>

(* 429: the request ends here.                                             *)
Refuse(door, a) ==
  /\ TurnAway(Key(door, a))
  /\ UNCHANGED <<conversationVars, doorVars>>

Resolved(r, fields, degraded) ==
  request' = [request EXCEPT ![r].at = "resolved", ![r].degraded = degraded,
                             ![r].context = Boundary(Held[request[r].actor], fields)]

(* The backend answers the client of the route ...                         *)
Fetched(r, visit) ==
  /\ RouteAnswers(Held[request[r].actor], visit)
  /\ Resolved(r, RouteContext(Held[request[r].actor], visit), FALSE)

(* ... or it fails, refuses or takes too long, and the context is the      *)
(* request's own, where a local test allows that, or empty.                *)
Resolve(r, visit) ==
  /\ request[r].at = "fetching"
  /\ \/ Fetched(r, visit)
     \/ settings.testContext /\ Resolved(r, Fixture, FALSE)
     \/ ~settings.testContext /\ Resolved(r, {}, TRUE)
  /\ UNCHANGED <<conversationVars, limiterVars, settings, arrived>>

(* run_jarvis, up to its first pause: claim_session raises if the thread   *)
(* is another actor's, and the request ends in an error; otherwise the     *)
(* turn is answered by the heuristic at once or handed to the model.       *)
Begin(r, th, q) ==
  /\ request[r].at = "resolved"
  /\ LET a == request[r].actor
         unaided == ~settings.key \/ (request[r].degraded /\ ~settings.testContext) IN
     \/ /\ owner[th] \notin {Nobody, a}
        /\ request' = [request EXCEPT ![r] = NoRequest]
        /\ UNCHANGED conversationVars
     \/ /\ unaided
        /\ \E s \in Answers : AskHeuristic(a, th, q, s)
        /\ request' = [request EXCEPT ![r] = NoRequest]
     \/ /\ ~unaided
        /\ Ask(r, a, th, q)
        /\ request' = [request EXCEPT ![r].at = "inferring", ![r].context = {},
                                      ![r].degraded = FALSE]
  /\ UNCHANGED <<limiterVars, settings, arrived>>

(* The turn of the model ends.  The audit that JARVIS posts afterwards is   *)
(* read by nothing here, and its failure is only logged.                   *)
Conclude(r) ==
  /\ \E s \in Answers : Answer(r, s) \/ FallBack(r, s)
  /\ request' = [request EXCEPT ![r] = NoRequest]
  /\ UNCHANGED <<limiterVars, settings, arrived>>

(* The client of a stream goes away: what is left of the request is        *)
(* cancelled.  A turn in flight leaves its unanswered checkpoint behind.   *)
Drop(r) ==
  /\ request[r].door = "jarvis"
  /\ request[r].at # "fetching"
  /\ request' = [request EXCEPT ![r] = NoRequest]
  /\ round' = [round EXCEPT ![r] = NoRound]
  /\ UNCHANGED <<owner, saved, fallback, turns, limiterVars, settings, arrived>>

(* DELETE /history/{session_id}                                            *)
ClearHistory(a, th) ==
  /\ Clear(a, th)
  /\ UNCHANGED <<limiterVars, doorVars>>

(* The process ends, and another starts.                                   *)
RestartProcess ==
  /\ Forget
  /\ ResetRateLimits
  /\ request' = [r \in Rounds |-> NoRequest]
  /\ UNCHANGED <<settings, arrived>>

(* After the last request time has nothing left to decide.                 *)
TimePasses == arrived < MaxRequests /\ Tick /\ UNCHANGED <<conversationVars, doorVars>>

AssistantNext ==
  \/ \E a \in Actors :
       \/ \E door \in Door : Refuse(door, a) \/ \E r \in Rounds : Arrive(r, door, a)
       \/ \E th \in Threads : ClearHistory(a, th)
  \/ \E r \in Rounds :
       \/ \E visit \in BOOLEAN : Resolve(r, visit)
       \/ \E th \in Threads, q \in Queries : Begin(r, th, q)
       \/ Conclude(r)
       \/ Drop(r)
  \/ TimePasses
  \/ RestartProcess

AssistantSpec == AssistantInit /\ [][AssistantNext]_assistantVars

-----------------------------------------------------------------------------
(* Nobody's context holds a field whose tool the actor could not use: the  *)
(* route, the test fixture and the second boundary between them agree with *)
(* the tool permissions, whichever of them the context went through.       *)
ToldOnlyWhatMayBeRead ==
  \A r \in Rounds : request[r].at # "none" => request[r].context \subseteq Readable(Held[request[r].actor])
=============================================================================
