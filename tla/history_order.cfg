SPECIFICATION MCAssistantSpec
CONSTANTS
  waiter = waiter
  cook = cook
  Actors = {waiter, cook}
  Threads = {th1}
  Queries = {q1, q2}
  Answers = {s1}
  Rounds = {r1, r2}
  Nobody = Nobody
  MaxHistory = 2
  MaxTurns = 4
  MaxRequests = 4
  Keys <- MCKeys
  Limit = 2
  Window = 2
  MaxBuckets = 1
  NoBucket = NoBucket
  Held <- MCHeld
SYMMETRY Symmetry
INVARIANTS HistoryOldestFirst
