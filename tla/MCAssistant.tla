---------------------------- MODULE MCAssistant -----------------------------
(* Small instances of Assistant for TLC. *)
EXTENDS Assistant, TLC

CONSTANTS waiter, cook

MCKeys == Door \X Actors
MCHeld == waiter :> RoleBundle.waiter @@ cook :> RoleBundle.kitchen

Symmetry == Permutations(Queries) \cup Permutations(Rounds)

(* Bound: what is said is said by the first three requests and within one  *)
(* tick.  Three turns overfill a history, four admissions overfill a       *)
(* window; the memory has no clock, and the limiter does not read it.      *)
NobodyHasSpoken ==
  /\ turns = 0
  /\ \A th \in Threads : saved[th] = <<>> /\ owner[th] = Nobody

WithinOneTick == \A k \in Keys : bucket[k] = NoBucket \/ bucket[k].age = 0

AssistantBound == NobodyHasSpoken \/ (arrived <= 3 /\ WithinOneTick)

MCAssistantSpec == AssistantInit /\ [][AssistantNext /\ AssistantBound']_assistantVars
=============================================================================
