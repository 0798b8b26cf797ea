---------------------------- MODULE RateLimiter -----------------------------
(**************************************************************************)
(* The request limiter of the assistant (app/core/rate_limit.py): fixed    *)
(* windows, kept in a dictionary of the process.  allow_event runs without *)
(* a pause, so each call is one action.  Time is counted in ticks; a       *)
(* bucket's start is kept as its age, which stops growing once the bucket  *)
(* may be evicted.                                                         *)
(**************************************************************************)
EXTENDS Naturals, Sequences, FiniteSets

CONSTANTS
  Keys,        \* a door of the assistant, a user and a branch
  Limit,       \* limit
  Window,      \* window_seconds, in ticks
  MaxBuckets,  \* the size above which old buckets are evicted
  NoBucket

ASSUME RateAssumption ==
  /\ Limit \in Nat \ {0}
  /\ Window \in Nat \ {0}
  /\ MaxBuckets \in Nat

Bucket == [age: 0..(Window + 1), count: 1..Limit]

ASSUME NoBucketAssumption == NoBucket \notin Bucket

VARIABLES
  bucket,    \* _BUCKETS
  admitted   \* watched: of the requests lately admitted for a key, how many ticks ago

limiterVars == <<bucket, admitted>>

LimiterInit ==
  /\ bucket = [k \in Keys |-> NoBucket]
  /\ admitted = [k \in Keys |-> <<>>]

-----------------------------------------------------------------------------
(* Mutant: a window is over one tick too soon. *)
OverTooSoon(b) == b.age + 1 >= Window

(* Whether a bucket's window is over: the next request starts a new one.   *)
Over(b) == b.age >= Window

Current(k) ==
  IF bucket[k] = NoBucket \/ Over(bucket[k]) THEN [age |-> 0, count |-> 0] ELSE bucket[k]

(* Mutant: the eviction empties the dictionary. *)
SweptClean(bs) ==
  IF Cardinality({k \in Keys : bs[k] # NoBucket}) > MaxBuckets
    THEN [k \in Keys |-> NoBucket] ELSE bs

(* The eviction, once there are more buckets than MaxBuckets.              *)
Swept(bs) ==
  IF Cardinality({k \in Keys : bs[k] # NoBucket}) > MaxBuckets
    THEN [k \in Keys |-> IF bs[k] # NoBucket /\ bs[k].age > Window THEN NoBucket ELSE bs[k]]
    ELSE bs

(* Mutant: the request after the last is let in. *)
FullOneLate(k) == Current(k).count > Limit

Full(k) == Current(k).count >= Limit

Admit(k) ==
  /\ ~Full(k)
  /\ bucket' = [Swept(bucket) EXCEPT ![k] = [Current(k) EXCEPT !.count = @ + 1]]
  /\ admitted' = [admitted EXCEPT ![k] = Append(@, 0)]

(* Mutant: a request turned away starts the window again. *)
TurnAwayAfresh(k) ==
  /\ Full(k)
  /\ bucket' = [Swept(bucket) EXCEPT ![k] = [Current(k) EXCEPT !.age = 0]]
  /\ UNCHANGED admitted

TurnAway(k) ==
  /\ Full(k)
  /\ bucket' = [Swept(bucket) EXCEPT ![k] = Current(k)]
  /\ UNCHANGED admitted

(* One tick later, the requests that are within a window's length still:   *)
(* the oldest, which come first, are forgotten.                            *)
StillRecent(ages) ==
  LET gone == Cardinality({i \in 1..Len(ages) : ages[i] + 1 >= Window})
  IN  [i \in 1..(Len(ages) - gone) |-> ages[i + gone] + 1]

Tick ==
  /\ bucket' = [k \in Keys |->
                  IF bucket[k] = NoBucket \/ bucket[k].age > Window
                    THEN bucket[k] ELSE [bucket[k] EXCEPT !.age = @ + 1]]
  /\ admitted' = [k \in Keys |-> StillRecent(admitted[k])]

(* reset_rate_limits, and the end of the process: all buckets go.          *)
ResetRateLimits ==
  /\ bucket' = [k \in Keys |-> NoBucket]
  /\ admitted' = [k \in Keys |-> <<>>]

LimiterNext ==
  \/ \E k \in Keys : Admit(k) \/ TurnAway(k)
  \/ Tick
  \/ ResetRateLimits

LimiterSpec == LimiterInit /\ [][LimiterNext]_limiterVars

-----------------------------------------------------------------------------
LimiterTypeOK == bucket \in [Keys -> Bucket \cup {NoBucket}]

(* The requests admitted for a key within the last window's length, oldest *)
(* first.  While its window is open, they are those the bucket counts, the *)
(* first as old as the bucket, and before them fewer than Limit of an      *)
(* earlier window; once it is over, its first request is out of sight.     *)
Accounted(k) ==
  LET ages == admitted[k]
      earlier == Len(ages) - bucket[k].count
  IN  /\ \A i, j \in 1..Len(ages) : i <= j => ages[j] <= ages[i]
      /\ bucket[k] = NoBucket \/ Over(bucket[k]) =>
           Len(ages) < Limit /\ \A i \in 1..Len(ages) : ages[i] > 0
      /\ bucket[k] # NoBucket /\ ~Over(bucket[k]) =>
           /\ earlier \in 0..(Limit - 1)
           /\ ages[earlier + 1] = bucket[k].age
           /\ \A i \in 1..Len(ages) : i <= earlier <=> ages[i] > bucket[k].age

(* What every call and every tick leave true.                              *)
LimiterInv ==
  /\ LimiterTypeOK
  /\ admitted \in [Keys -> Seq(0..(Window - 1))]
  /\ \A k \in Keys : Accounted(k)

Recently(k) == Len(admitted[k])

(* Windows are fixed, so a key may be admitted more than Limit times within *)
(* one window's length, across the end of a window; but its first request  *)
(* opens the window, which leaves less than twice the limit.  That is in   *)
(* one process: the next has its own buckets.                              *)
LessThanTwice == \A k \in Keys : Recently(k) < 2 * Limit

(* A request is turned away only if the key was admitted Limit times within *)
(* the last window's length: no eviction and no refusal costs a request.   *)
RefusalsAreDeserved == \A k \in Keys : Full(k) => Recently(k) >= Limit

(* The limiter, seen as windows that close by themselves, keeps the rules  *)
(* of RateRules: the late reset and the eviction of old buckets show       *)
(* nowhere, and no open window is lost or given a request too many.        *)
OpenWindows ==
  [k \in Keys |-> IF bucket[k] = NoBucket \/ Over(bucket[k]) THEN NoBucket ELSE bucket[k]]

Rules == INSTANCE RateRules WITH window <- OpenWindows, Closed <- NoBucket

LimiterKeepsRules == Rules!RateSpec
=============================================================================
