---------------------------- MODULE Conversation ----------------------------
(**************************************************************************)
(* What JARVIS remembers of its conversations: app/ai/memory.py, and the   *)
(* turns of app/ai/agent.py that write it.                                 *)
(*                                                                         *)
(* All of it lives in one process, which gives up control in a turn only   *)
(* while the model infers; whatever a turn does before and after that is   *)
(* one action.  A turn is answered by the model, whose state LangGraph     *)
(* checkpoints, or by the heuristic fallback, which keeps its own history. *)
(* Assistant has the requests that take these actions.                     *)
(**************************************************************************)
EXTENDS Naturals, SequencesExt

CONSTANTS
  Actors,      \* users, each with its organisation, branch and role
  Threads,     \* session ids
  Queries, Answers,
  Rounds,      \* turns that may be in flight at the same time
  Nobody,      \* no owner, no answer yet
  MaxHistory,  \* _MAX_HISTORY_ENTRIES
  MaxTurns     \* bound: the number of turns ever recorded

ASSUME NobodyAssumption == Nobody \notin Actors \cup Threads \cup Queries \cup Answers
ASSUME HistoryAssumption == MaxHistory \in Nat \ {0} /\ MaxTurns \in Nat

VARIABLES
  owner,     \* _SESSION_OWNERS
  saved,     \* the checkpoints of each thread, oldest first
  fallback,  \* _FALLBACK_HISTORY
  round,     \* the turn of each round
  turns      \* turns recorded so far

conversationVars == <<owner, saved, fallback, round, turns>>

(* What a checkpoint or a fallback entry says of a turn; turn, orphan and  *)
(* heuristic are only watched: its number, whether the conversation was    *)
(* cleared while it was in flight, and which of the two recorded it.       *)
Entry ==
  [query: Queries, answer: Answers \cup {Nobody}, by: Actors, turn: 0..MaxTurns,
   orphan: BOOLEAN, heuristic: BOOLEAN]

Round ==
  [at: {"idle", "inferring"}, actor: Actors \cup {Nobody}, thread: Threads \cup {Nobody},
   query: Queries \cup {Nobody}, orphan: BOOLEAN]

NoRound == [at |-> "idle", actor |-> Nobody, thread |-> Nobody, query |-> Nobody,
            orphan |-> FALSE]

ConversationInit ==
  /\ owner = [th \in Threads |-> Nobody]
  /\ saved = [th \in Threads |-> <<>>]
  /\ fallback = [th \in Threads |-> <<>>]
  /\ round = [r \in Rounds |-> NoRound]
  /\ turns = 0

-----------------------------------------------------------------------------
(* Mutant: the cut is made at the wrong end. *)
Earliest(s) == SubSeq(s, 1, IF Len(s) > MaxHistory THEN MaxHistory ELSE Len(s))

Latest(s) == SubSeq(s, (IF Len(s) > MaxHistory THEN Len(s) - MaxHistory ELSE 0) + 1, Len(s))

(* A checkpoint is listed if it has an answer and does not repeat the      *)
(* query and the answer of the one listed last, ...                        *)
ListCheckpoint(listed, e) ==
  IF \/ e.answer = Nobody
     \/ listed # <<>> /\ Last(listed).query = e.query /\ Last(listed).answer = e.answer
  THEN listed ELSE Append(listed, e)

(* ... a fallback entry if it does not repeat the query listed last.       *)
ListFallback(listed, e) ==
  IF listed # <<>> /\ Last(listed).query = e.query THEN listed ELSE Append(listed, e)

(* get_conversation_history: a loop over the checkpoints, ...              *)
Checkpoints(s) ==
  LET listed[i \in 0..Len(s)] == IF i = 0 THEN <<>> ELSE ListCheckpoint(listed[i - 1], s[i])
  IN  listed[Len(s)]

(* ... a loop over the fallback entries, and the newest of both.           *)
WithFallback(h, s) ==
  LET listed[i \in 0..Len(s)] == IF i = 0 THEN h ELSE ListFallback(listed[i - 1], s[i])
  IN  listed[Len(s)]

History(th) == Latest(WithFallback(Checkpoints(saved[th]), fallback[th]))

(* claim_session: a session nobody has yet, or that is the actor's own.    *)
Claims(a, th) == owner[th] \in {Nobody, a} /\ owner' = [owner EXCEPT ![th] = a]

(* Mutant: the fallback history grows without bound. *)
RecordUnbounded(th, e) == fallback' = [fallback EXCEPT ![th] = Append(@, e)]

RecordFallback(th, e) == fallback' = [fallback EXCEPT ![th] = Latest(Append(@, e))]

(* A turn without a model (no key, or no operational context): claimed,    *)
(* answered by the heuristic and recorded without a pause.                 *)
AskHeuristic(a, th, q, s) ==
  /\ turns < MaxTurns
  /\ turns' = turns + 1
  /\ Claims(a, th)
  /\ RecordFallback(th, [query |-> q, answer |-> s, by |-> a, turn |-> turns',
                         orphan |-> FALSE, heuristic |-> TRUE])
  /\ UNCHANGED <<saved, round>>

(* A turn of the model begins.  LangGraph checkpoints its input on top of  *)
(* the values of the last checkpoint, and then the new, unanswered query.  *)
Ask(r, a, th, q) ==
  /\ round[r] = NoRound
  /\ Claims(a, th)
  /\ saved' = [saved EXCEPT ![th] =
                 @ \o (IF @ = <<>> THEN <<>> ELSE <<Last(@)>>)
                   \o <<[query |-> q, answer |-> Nobody, by |-> a, turn |-> 0,
                         orphan |-> FALSE, heuristic |-> FALSE]>>]
  /\ round' = [round EXCEPT ![r] = [NoRound EXCEPT !.at = "inferring", !.actor = a,
                                                   !.thread = th, !.query = q]]
  /\ UNCHANGED <<fallback, turns>>

Told(r, s, heuristic) ==
  [query |-> round[r].query, answer |-> s, by |-> round[r].actor, turn |-> turns',
   orphan |-> round[r].orphan, heuristic |-> heuristic]

(* The model answers: the checkpoint of its answer is written ...          *)
Answer(r, s) ==
  LET th == round[r].thread IN
  /\ round[r].at = "inferring"
  /\ turns < MaxTurns
  /\ turns' = turns + 1
  /\ saved' = [saved EXCEPT ![th] = Append(@, Told(r, s, FALSE))]
  /\ round' = [round EXCEPT ![r] = NoRound]
  /\ UNCHANGED <<owner, fallback>>

(* ... or it fails, and the heuristic answers in its place.                *)
FallBack(r, s) ==
  /\ round[r].at = "inferring"
  /\ turns < MaxTurns
  /\ turns' = turns + 1
  /\ RecordFallback(round[r].thread, Told(r, s, TRUE))
  /\ round' = [round EXCEPT ![r] = NoRound]
  /\ UNCHANGED <<owner, saved>>

(* Mutant: clearing forgets the fallback history. *)
ClearCheckpoints(a, th) ==
  /\ owner[th] = a
  /\ saved' = [saved EXCEPT ![th] = <<>>]
  /\ owner' = [owner EXCEPT ![th] = Nobody]
  /\ round' = [r \in Rounds |-> IF round[r].thread = th
                                  THEN [round[r] EXCEPT !.orphan = TRUE] ELSE round[r]]
  /\ UNCHANGED <<fallback, turns>>

(* DELETE /history/{session_id}: the thread, its history and its owner go; *)
(* a turn in flight on it goes on.                                         *)
Clear(a, th) ==
  /\ owner[th] = a
  /\ saved' = [saved EXCEPT ![th] = <<>>]
  /\ fallback' = [fallback EXCEPT ![th] = <<>>]
  /\ owner' = [owner EXCEPT ![th] = Nobody]
  /\ round' = [r \in Rounds |-> IF round[r].thread = th
                                  THEN [round[r] EXCEPT !.orphan = TRUE] ELSE round[r]]
  /\ UNCHANGED turns

(* The process ends and a new one starts: nothing is remembered.           *)
Forget ==
  /\ owner' = [th \in Threads |-> Nobody]
  /\ saved' = [th \in Threads |-> <<>>]
  /\ fallback' = [th \in Threads |-> <<>>]
  /\ round' = [r \in Rounds |-> NoRound]
  /\ UNCHANGED turns

-----------------------------------------------------------------------------
ConversationTypeOK ==
  /\ owner \in [Threads -> Actors \cup {Nobody}]
  /\ saved \in [Threads -> Seq(Entry)]
  /\ fallback \in [Threads -> Seq(Entry)]
  /\ \A th \in Threads : Len(fallback[th]) <= MaxHistory
  /\ round \in [Rounds -> Round]
  /\ turns \in 0..MaxTurns

(* All that is kept of a conversation: the history is made of it.          *)
Remembered(th) == ToSet(saved[th]) \cup ToSet(fallback[th])

(* A conversation holds the turns of its owner, and one that was cleared   *)
(* holds none, but for a turn that was in flight when it was cleared: that *)
(* one reappears, whoever has claimed the session id by then.  The turns   *)
(* in flight will keep it so.                                              *)
OwnTurnsOnly ==
  /\ \A th \in Threads : \A e \in Remembered(th) : e.by = owner[th] \/ e.orphan
  /\ \A r \in Rounds :
       round[r].at = "inferring" => round[r].actor = owner[round[r].thread] \/ round[r].orphan

(* The order in which the history is kept: the turns of the model before   *)
(* those of the fallback, and each of the two kinds oldest first.          *)
Before(e, f) == e.turn < f.turn \/ (~e.heuristic /\ f.heuristic)

InOrder(h) == \A j \in DOMAIN h : \A i \in 1..(j - 1) : Before(h[i], h[j])

(* A turn is shown: it is listed, or it repeats the question of an entry   *)
(* after which only later ones are listed; or the list is full and all of  *)
(* it comes after the turn.                                                *)
Shown(e, h) ==
  \E i \in 0..Len(h) :
    /\ IF i = 0 THEN Len(h) = MaxHistory ELSE h[i].query = e.query
    /\ \A j \in (i + 1)..Len(h) : Before(e, h[j])

(* What the code keeps of its promise: the history lists no turn twice, is *)
(* in that order, and leaves out no turn that is remembered and answered   *)
(* but repeated questions and the first, once there are too many.          *)
HistoryInOrder ==
  \A th \in Threads :
    /\ InOrder(History(th))
    /\ \A e \in Remembered(th) : e.answer # Nobody => Shown(e, History(th))

(* "The public helper promises oldest first" (get_conversation_history).   *)
HistoryOldestFirst ==
  \A th \in Threads : \A j \in DOMAIN History(th) : \A i \in 1..(j - 1) :
    History(th)[i].turn < History(th)[j].turn

(* What a turn in flight is about.                                         *)
TurnsKnowTheirThreads ==
  \A r \in Rounds : round[r].at = "inferring" =>
    round[r].actor \in Actors /\ round[r].thread \in Threads /\ round[r].query \in Queries

(* Two checkpoints with answers are of successive turns, or the later is a *)
(* copy of the earlier.                                                    *)
CheckpointsInOrder(s) ==
  /\ \A i \in DOMAIN s : ~s[i].heuristic
  /\ \A i, j \in DOMAIN s : i < j /\ s[i].answer # Nobody /\ s[j].answer # Nobody =>
       s[i].turn < s[j].turn \/ s[i] = s[j]

FallbackInOrder(s) ==
  /\ \A i \in DOMAIN s : s[i].heuristic
  /\ \A i, j \in DOMAIN s : i < j => s[i].turn < s[j].turn

(* What is kept is in the order of the turns, and none is yet to come.     *)
TurnsInOrder ==
  \A th \in Threads :
    /\ CheckpointsInOrder(saved[th]) /\ FallbackInOrder(fallback[th])
    /\ \A e \in Remembered(th) : e.turn <= turns

(* What every request, clear, dropped stream and restart leaves true of    *)
(* the memory.                                                             *)
ConversationInv ==
  /\ ConversationTypeOK
  /\ TurnsKnowTheirThreads
  /\ OwnTurnsOnly
  /\ TurnsInOrder
=============================================================================
