------------------------- MODULE RateLimiterProofs --------------------------
(**************************************************************************)
(* The dictionary of fixed windows, with its late resets and evictions,    *)
(* implements RateRules; and what its buckets forget of the requests they  *)
(* admitted costs nobody a request and gives nobody twice the limit.       *)
(**************************************************************************)
EXTENDS RateLimiter, FiniteSetTheorems, WellFoundedInduction, TLAPS

USE RateAssumption DEF RateAssumption

(* Induction over the natural numbers, for a set instead of a predicate.   *)
LEMMA InductionOverASet ==
  ASSUME NEW T, 0 \in T, \A n \in Nat : n \in T => n + 1 \in T
  PROVE  \A n \in Nat : n \in T
<1> SUFFICES ASSUME Nat \ T # {} PROVE FALSE
  OBVIOUS
<1> DEFINE R == OpToRel(<, Nat)
<1>1. IsWellFoundedOn(R, Nat)
  BY NatLessThanWellFounded
<1>2. \A m, n \in Nat : m < n => <<m, n>> \in R
  BY DEF OpToRel
<1> HIDE DEF R
<1>3. PICK n \in Nat \ T : \A m \in Nat \ T : ~ (<<m, n>> \in R)
  BY <1>1, WFMin
<1>4. n # 0 /\ n - 1 \in Nat /\ n - 1 < n
  BY <1>3
<1>5. n - 1 \in T
  BY <1>2, <1>3, <1>4
<1> QED
  BY <1>3, <1>4, <1>5

(* Of ages in falling order a tick forgets a beginning.                    *)
LEMMA StillRecentFacts ==
  ASSUME NEW ages \in Seq(0..(Window - 1)),
         \A i, j \in 1..Len(ages) : i <= j => ages[j] <= ages[i]
  PROVE  \E g \in 0..Len(ages) :
           /\ \A i \in 1..Len(ages) : i <= g <=> ages[i] + 1 >= Window
           /\ StillRecent(ages) \in Seq(0..(Window - 1))
           /\ Len(StillRecent(ages)) = Len(ages) - g
           /\ \A i \in 1..(Len(ages) - g) : StillRecent(ages)[i] = ages[i + g] + 1
<1> DEFINE n == Len(ages)
           Old(i) == ages[i] + 1 >= Window
           Splits(m, g) == \A i \in 1..m : i <= g <=> Old(i)
           T == {m \in Nat : m <= n => \E g \in 0..m : Splits(m, g)}
           Gone == {i \in 1..n : Old(i)}
<1>1. /\ n \in Nat
      /\ \A i \in 1..n : ages[i] \in 0..(Window - 1)
      /\ \A i, j \in 1..n : i <= j => ages[j] <= ages[i]
  OBVIOUS
<1>2. \A m \in Nat : m \in T
  <2>1. 0 \in T
    <3>1. Splits(0, 0)
      OBVIOUS
    <3> QED
      BY <3>1
  <2>2. ASSUME NEW m \in Nat, m \in T PROVE m + 1 \in T
    <3> SUFFICES ASSUME m + 1 <= n PROVE \E g \in 0..(m + 1) : Splits(m + 1, g)
      OBVIOUS
    <3>1. PICK g \in 0..m : Splits(m, g)
      BY <1>1, <2>2
    <3>2. CASE Old(m + 1)
      <4>1. ASSUME NEW i \in 1..(m + 1) PROVE Old(i)
        <5>1. i \in 1..n /\ m + 1 \in 1..n /\ i <= m + 1
          BY <1>1
        <5> QED
          BY <1>1, <3>2, <5>1
      <4>2. Splits(m + 1, m + 1)
        BY <4>1
      <4> HIDE DEF Splits
      <4> QED
        BY <4>2
    <3>3. CASE ~Old(m + 1)
      <4>1. Splits(m + 1, g)
        BY <3>1, <3>3
      <4> HIDE DEF Splits
      <4> QED
        BY <4>1
    <3> QED
      BY <3>2, <3>3
  <2> HIDE DEF T
  <2> QED
    BY <2>1, <2>2, InductionOverASet
<1>3. PICK g \in 0..n : Gone = 1..g
  <2>1. PICK g \in 0..n : Splits(n, g)
    <3> HIDE DEF n, Splits
    <3> QED
      BY <1>1, <1>2
  <2>2. \A i : i \in Gone <=> i \in 1..g
    BY <1>1, <2>1
  <2>3. Gone = 1..g
    BY <2>2
  <2> QED
    BY <2>3
<1>4. \A i \in 1..n : i \in Gone <=> ages[i] + 1 >= Window
  OBVIOUS
<1>5. StillRecent(ages) = [i \in 1..(n - Cardinality(Gone)) |-> ages[i + Cardinality(Gone)] + 1]
  BY DEF StillRecent
<1> HIDE DEF Gone, T
<1>6. /\ Cardinality(Gone) = g
      /\ StillRecent(ages) = [i \in 1..(n - g) |-> ages[i + g] + 1]
      /\ \A i \in 1..n : i <= g <=> ages[i] + 1 >= Window
  <2>1. Cardinality(1..g) = g
    <3>1. g \in Int /\ 1 \in Int /\ g >= 0
      BY <1>1, <1>3
    <3> QED
      BY <3>1, FS_Interval
  <2>2. \A i \in 1..n : i <= g <=> i \in Gone
    BY <1>1, <1>3
  <2> QED
    BY <1>3, <1>4, <1>5, <2>1, <2>2
<1>7. \A i \in 1..(n - g) : ages[i + g] + 1 \in 0..(Window - 1)
  <2> SUFFICES ASSUME NEW i \in 1..(n - g) PROVE ages[i + g] + 1 \in 0..(Window - 1)
    OBVIOUS
  <2>1. i + g \in 1..n /\ ~(i + g <= g)
    BY <1>1, <1>3
  <2> QED
    BY <1>1, <1>6, <2>1, SMTT(30)
<1>8. n - g \in Nat
  BY <1>1, <1>3
<1>9. /\ StillRecent(ages) \in Seq(0..(Window - 1))
      /\ Len(StillRecent(ages)) = n - g
      /\ \A i \in 1..(n - g) : StillRecent(ages)[i] = ages[i + g] + 1
  <2> DEFINE e(i) == ages[i + g] + 1
             k == n - g
  <2>1. StillRecent(ages) = [i \in 1..k |-> e(i)] /\ k \in Nat
        /\ \A i \in 1..k : e(i) \in 0..(Window - 1)
    BY <1>6, <1>7, <1>8
  <2> HIDE DEF n, e, k
  <2> QED
    BY <2>1 DEF e, k
<1> QED
  BY <1>6, <1>9 DEF n

(* The eviction only ever removes buckets whose window is over.            *)
LEMMA SweptFacts ==
  ASSUME NEW bs \in [Keys -> Bucket \cup {NoBucket}]
  PROVE  /\ Swept(bs) \in [Keys -> Bucket \cup {NoBucket}]
         /\ \A k \in Keys : \/ Swept(bs)[k] = bs[k]
                            \/ bs[k] # NoBucket /\ bs[k].age > Window /\ Swept(bs)[k] = NoBucket
BY DEF Swept

(* A key that is not yet full has a bucket to count its request in.        *)
LEMMA CurrentType ==
  ASSUME LimiterTypeOK, NEW k \in Keys
  PROVE  /\ Current(k) \in [age: 0..(Window + 1), count: 0..Limit]
         /\ ~Full(k) => [Current(k) EXCEPT !.count = @ + 1] \in Bucket
         /\ Full(k) => bucket[k] \in Bucket /\ ~Over(bucket[k]) /\ Current(k) = bucket[k]
<1>1. bucket[k] \in Bucket \cup {NoBucket}
  BY DEF LimiterTypeOK
<1>2. CASE bucket[k] = NoBucket \/ Over(bucket[k])
  <2>1. Current(k) = [age |-> 0, count |-> 0]
    BY <1>2 DEF Current
  <2>2. ~Full(k)
    BY <2>1 DEF Full
  <2> QED
    BY <2>1, <2>2 DEF Bucket
<1>3. CASE ~(bucket[k] = NoBucket \/ Over(bucket[k]))
  <2>1. bucket[k] \in Bucket /\ Current(k) = bucket[k]
    BY <1>1, <1>3 DEF Current
  <2> QED
    BY <2>1, <1>3 DEF Bucket, Full
<1> QED
  BY <1>2, <1>3

(* Every call and every tick leave buckets of the right shape.             *)
LEMMA LimiterTypeStep == LimiterTypeOK /\ [LimiterNext]_limiterVars => LimiterTypeOK'
<1> SUFFICES ASSUME LimiterTypeOK, [LimiterNext]_limiterVars PROVE LimiterTypeOK'
  OBVIOUS
<1>1. ASSUME NEW k \in Keys, Admit(k) PROVE LimiterTypeOK'
  <2>1. [Current(k) EXCEPT !.count = @ + 1] \in Bucket
    BY <1>1, CurrentType DEF Admit
  <2>2. Swept(bucket) \in [Keys -> Bucket \cup {NoBucket}]
    BY SweptFacts DEF LimiterTypeOK
  <2>3. bucket' \in [Keys -> Bucket \cup {NoBucket}]
    BY <1>1, <2>1, <2>2 DEF Admit
  <2> QED
    BY <2>3 DEF LimiterTypeOK
<1>2. ASSUME NEW k \in Keys, TurnAway(k) PROVE LimiterTypeOK'
  <2>1. Current(k) \in Bucket
    BY <1>2, CurrentType DEF TurnAway
  <2>2. Swept(bucket) \in [Keys -> Bucket \cup {NoBucket}]
    BY SweptFacts DEF LimiterTypeOK
  <2> QED
    BY <1>2, <2>1, <2>2 DEF TurnAway, LimiterTypeOK
<1>3. ASSUME Tick PROVE LimiterTypeOK'
  <2>1. bucket' \in [Keys -> Bucket \cup {NoBucket}]
    <3> SUFFICES ASSUME NEW k \in Keys PROVE bucket'[k] \in Bucket \cup {NoBucket}
      BY <1>3 DEF Tick
    <3>1. bucket[k] \in Bucket \cup {NoBucket}
      BY DEF LimiterTypeOK
    <3>2. bucket'[k] = IF bucket[k] = NoBucket \/ bucket[k].age > Window
                         THEN bucket[k] ELSE [bucket[k] EXCEPT !.age = @ + 1]
      BY <1>3 DEF Tick
    <3> QED
      BY <3>1, <3>2 DEF Bucket
  <2> QED
    BY <2>1 DEF LimiterTypeOK
<1>4. CASE ResetRateLimits
  BY <1>4 DEF ResetRateLimits, LimiterTypeOK
<1>5. CASE UNCHANGED limiterVars
  BY <1>5 DEF limiterVars, LimiterTypeOK
<1> QED
  BY <1>1, <1>2, <1>3, <1>4, <1>5 DEF LimiterNext

(* Every bucket keeps an age and a count the limiter can be in, whatever   *)
(* the keys, the limit, the window and the size the eviction starts at.    *)
THEOREM LimiterType == LimiterSpec => []LimiterTypeOK
<1>1. LimiterInit => LimiterTypeOK
  BY DEF LimiterInit, LimiterTypeOK
<1> QED
  BY <1>1, LimiterTypeStep, PTL DEF LimiterSpec

(* The limiter implements RateRules: a key's window opens with its first   *)
(* request, admits Limit of them, and closes when it is over and not       *)
(* before, although the code resets a window only when it is asked again   *)
(* and evicts buckets only when there are many.                            *)
THEOREM LimiterImplementsRules == LimiterSpec => LimiterKeepsRules
<1>1. LimiterInit => Rules!RateInit
  BY DEF LimiterInit, Rules!RateInit, OpenWindows
<1>2. LimiterTypeOK /\ [LimiterNext]_limiterVars => [Rules!RateNext]_OpenWindows
  <2> SUFFICES ASSUME LimiterTypeOK, [LimiterNext]_limiterVars
               PROVE  Rules!RateNext \/ UNCHANGED OpenWindows
    OBVIOUS
  <2> USE NoBucketAssumption DEF NoBucketAssumption
  <2>0. /\ bucket \in [Keys -> Bucket \cup {NoBucket}]
        /\ Swept(bucket) \in [Keys -> Bucket \cup {NoBucket}]
    BY SweptFacts DEF LimiterTypeOK
  <2>1. ASSUME NEW k \in Keys, Admit(k) PROVE Rules!Grant(k)
    <3>1. [Current(k) EXCEPT !.count = @ + 1] \in Bucket
      BY <2>1, CurrentType DEF Admit
    <3>2. \A j \in Keys \ {k} : OpenWindows'[j] = OpenWindows[j]
      <4> SUFFICES ASSUME NEW j \in Keys, j # k PROVE OpenWindows'[j] = OpenWindows[j]
        OBVIOUS
      <4>1. bucket'[j] = Swept(bucket)[j]
        BY <2>0, <2>1 DEF Admit
      <4>2. \/ bucket'[j] = bucket[j]
            \/ bucket[j] # NoBucket /\ bucket[j].age > Window /\ bucket'[j] = NoBucket
        BY <2>0, <4>1, SweptFacts
      <4>3. bucket[j] \in Bucket \cup {NoBucket}
        BY <2>0
      <4> QED
        BY <4>2, <4>3 DEF OpenWindows, Over, Bucket
    <3>3. bucket'[k] = [Current(k) EXCEPT !.count = @ + 1]
      BY <2>0, <2>1 DEF Admit
    <3>4. CASE OpenWindows[k] = NoBucket
      <4>1. bucket[k] = NoBucket \/ Over(bucket[k])
        BY <2>0, <3>4 DEF OpenWindows
      <4>2. bucket'[k] = [age |-> 0, count |-> 1]
        BY <3>3, <4>1 DEF Current
      <4>3. OpenWindows'[k] = [age |-> 0, count |-> 1]
        BY <3>1, <3>3, <4>2 DEF OpenWindows, Over
      <4> QED
        BY <3>2, <3>4, <4>3 DEF Rules!Grant, OpenWindows
    <3>5. CASE OpenWindows[k] # NoBucket
      <4>1. bucket[k] # NoBucket /\ ~Over(bucket[k]) /\ OpenWindows[k] = bucket[k]
        BY <3>5 DEF OpenWindows
      <4>2. Current(k) = bucket[k] /\ bucket[k] \in Bucket
        BY <2>0, <4>1 DEF Current
      <4>3. bucket[k].count < Limit
        BY <2>1, <4>2 DEF Admit, Full, Bucket
      <4>4. OpenWindows'[k] = [age |-> OpenWindows[k].age, count |-> OpenWindows[k].count + 1]
        BY <3>1, <3>3, <4>1, <4>2 DEF OpenWindows, Over, Bucket
      <4>5. ASSUME NEW v, OpenWindows'[k] = v
            PROVE  OpenWindows' = [OpenWindows EXCEPT ![k] = v]
        BY <3>2, <4>5 DEF OpenWindows
      <4> QED
        BY <3>5, <4>1, <4>3, <4>4, <4>5 DEF Rules!Grant
    <3> QED
      BY <3>4, <3>5
  <2>2. ASSUME NEW k \in Keys, TurnAway(k) PROVE UNCHANGED OpenWindows
    <3>1. bucket[k] \in Bucket /\ Current(k) = bucket[k]
      BY <2>2, CurrentType DEF TurnAway
    <3>2. bucket'[k] = bucket[k]
      BY <2>0, <2>2, <3>1 DEF TurnAway
    <3>3. \A j \in Keys : OpenWindows'[j] = OpenWindows[j]
      <4> SUFFICES ASSUME NEW j \in Keys, j # k PROVE OpenWindows'[j] = OpenWindows[j]
        BY <3>2 DEF OpenWindows
      <4>1. bucket'[j] = Swept(bucket)[j]
        BY <2>0, <2>2 DEF TurnAway
      <4>2. \/ bucket'[j] = bucket[j]
            \/ bucket[j] # NoBucket /\ bucket[j].age > Window /\ bucket'[j] = NoBucket
        BY <2>0, <4>1, SweptFacts
      <4>3. bucket[j] \in Bucket \cup {NoBucket}
        BY <2>0
      <4> QED
        BY <4>2, <4>3 DEF OpenWindows, Over, Bucket
    <3> QED
      BY <3>3 DEF OpenWindows
  <2>3. ASSUME Tick PROVE Rules!Pass
    <3> SUFFICES ASSUME NEW k \in Keys
                 PROVE  OpenWindows'[k] = IF OpenWindows[k] = NoBucket \/ OpenWindows[k].age + 1 >= Window
                                            THEN NoBucket
                                            ELSE [OpenWindows[k] EXCEPT !.age = @ + 1]
      BY DEF Rules!Pass, OpenWindows
    <3>1. bucket[k] \in Bucket \cup {NoBucket}
      BY <2>0
    <3>2. bucket'[k] = IF bucket[k] = NoBucket \/ bucket[k].age > Window
                         THEN bucket[k] ELSE [bucket[k] EXCEPT !.age = @ + 1]
      BY <2>3 DEF Tick
    <3>3. CASE bucket[k] = NoBucket
      BY <3>2, <3>3 DEF OpenWindows
    <3>4. CASE bucket[k] \in Bucket
      <4>1. /\ bucket[k] # NoBucket
            /\ [bucket[k] EXCEPT !.age = @ + 1] # NoBucket \/ bucket[k].age > Window
        BY <3>4, NoBucketAssumption DEF Bucket
      <4> QED
        BY <3>2, <3>4, <4>1 DEF OpenWindows, Over, Bucket
    <3> QED
      BY <3>1, <3>3, <3>4
  <2>4. ASSUME ResetRateLimits PROVE Rules!Restart
    BY <2>4 DEF ResetRateLimits, Rules!Restart, OpenWindows
  <2>5. CASE UNCHANGED limiterVars
    BY <2>5 DEF limiterVars, OpenWindows
  <2> QED
    BY <2>1, <2>2, <2>3, <2>4, <2>5 DEF LimiterNext, Rules!RateNext
<1> QED
  BY <1>1, <1>2, LimiterType, PTL DEF LimiterSpec, LimiterKeepsRules, Rules!RateSpec

-----------------------------------------------------------------------------
(* A key that makes no request keeps its account: the eviction takes none  *)
(* but buckets whose window is over.                                       *)
LEMMA OthersAccounted ==
  ASSUME LimiterInv, NEW j \in Keys, admitted'[j] = admitted[j],
         \/ bucket'[j] = bucket[j]
         \/ bucket[j] # NoBucket /\ bucket[j].age > Window /\ bucket'[j] = NoBucket
  PROVE  Accounted(j)'
<1>1. Accounted(j) /\ bucket[j] \in Bucket \cup {NoBucket}
  BY DEF LimiterInv, LimiterTypeOK
<1>2. CASE bucket'[j] = bucket[j]
  BY <1>1, <1>2 DEF Accounted, Over
<1>3. CASE bucket[j] # NoBucket /\ bucket[j].age > Window /\ bucket'[j] = NoBucket
  <2>1. Over(bucket[j])
    BY <1>1, <1>3 DEF Over, Bucket
  <2> QED
    BY <1>1, <1>3, <2>1 DEF Accounted
<1> QED
  BY <1>2, <1>3

(* An admitted request is counted by the bucket and is the youngest.       *)
LEMMA AdmittedAccounted ==
  ASSUME LimiterInv, NEW k \in Keys, Admit(k)
  PROVE  /\ admitted' \in [Keys -> Seq(0..(Window - 1))]
         /\ \A j \in Keys : Accounted(j)'
<1> DEFINE ages == admitted[k]
           n == Len(ages)
<1>1. /\ bucket \in [Keys -> Bucket \cup {NoBucket}]
      /\ admitted \in [Keys -> Seq(0..(Window - 1))]
      /\ Accounted(k)
  BY DEF LimiterInv, LimiterTypeOK
<1>2. /\ ages \in Seq(0..(Window - 1)) /\ n \in Nat /\ 0 \in 0..(Window - 1)
      /\ \A i \in 1..n : ages[i] \in 0..(Window - 1)
  BY <1>1
<1>3. Append(ages, 0) \in Seq(0..(Window - 1))
  BY <1>2
<1>4. admitted' \in [Keys -> Seq(0..(Window - 1))]
  BY <1>1, <1>3 DEF Admit
<1>5. ASSUME NEW j \in Keys, j # k PROVE Accounted(j)'
  <2>1. bucket'[j] = Swept(bucket)[j] /\ admitted'[j] = admitted[j]
    BY <1>1, <1>5, SweptFacts DEF Admit
  <2> QED
    BY <1>1, <2>1, SweptFacts, OthersAccounted
<1>6. /\ admitted'[k] = Append(ages, 0) /\ Len(admitted'[k]) = n + 1
      /\ \A i \in 1..n : admitted'[k][i] = ages[i]
      /\ admitted'[k][n + 1] = 0
  <2>1. admitted'[k] = Append(ages, 0)
    BY <1>1 DEF Admit
  <2> QED
    BY <1>2, <2>1
<1>7. bucket'[k] = [Current(k) EXCEPT !.count = @ + 1] /\ bucket'[k] \in Bucket
  BY <1>1, CurrentType, SweptFacts DEF LimiterInv, Admit
<1>8. \A i, j \in 1..(n + 1) : i <= j => admitted'[k][j] <= admitted'[k][i]
  BY <1>1, <1>2, <1>6 DEF Accounted
<1> HIDE DEF ages, n
<1>9. CASE bucket[k] = NoBucket \/ Over(bucket[k])
  <2>1. bucket'[k].age = 0 /\ bucket'[k].count = 1
    BY <1>7, <1>9 DEF Current
  <2>2. n < Limit /\ \A i \in 1..n : ages[i] > 0
    BY <1>1, <1>9 DEF Accounted, ages, n
  <2>3. bucket'[k] # NoBucket /\ ~Over(bucket'[k])
    BY <1>7, <2>1, NoBucketAssumption DEF Over
  <2>4. Len(admitted'[k]) - bucket'[k].count = n
    BY <1>2, <1>6, <2>1
  <2>5. \A i \in 1..(n + 1) : i <= n <=> admitted'[k][i] > bucket'[k].age
    BY <1>2, <1>6, <2>1, <2>2
  <2>6. n \in 0..(Limit - 1) /\ admitted'[k][n + 1] = bucket'[k].age
    BY <1>2, <1>6, <2>1, <2>2
  <2>7. Accounted(k)'
    BY <1>6, <1>8, <2>3, <2>4, <2>5, <2>6 DEF Accounted
  <2> QED
    BY <1>4, <1>5, <2>7
<1>10. CASE bucket[k] # NoBucket /\ ~Over(bucket[k])
  <2> DEFINE c == bucket[k].count
             earlier == n - c
  <2>1. bucket[k] \in Bucket /\ c \in 1..Limit /\ bucket[k].age \in 0..(Window - 1)
    BY <1>1, <1>10 DEF Bucket, Over
  <2>2. bucket'[k].age = bucket[k].age /\ bucket'[k].count = c + 1
    BY <1>7, <1>10, <2>1 DEF Current, Bucket
  <2>3. /\ earlier \in 0..(Limit - 1)
        /\ ages[earlier + 1] = bucket[k].age
        /\ \A i \in 1..n : i <= earlier <=> ages[i] > bucket[k].age
    BY <1>1, <1>10 DEF Accounted, ages, n
  <2> HIDE DEF c
  <2>4. earlier + 1 \in 1..n
    BY <1>2, <2>1, <2>3
  <2>5. Len(admitted'[k]) - bucket'[k].count = earlier
    <3>1. Len(admitted'[k]) = n + 1 /\ bucket'[k].count = c + 1
      BY <1>6, <2>2
    <3>2. n \in Int /\ c \in Int
      BY <1>2, <2>1
    <3>3. (n + 1) - (c + 1) = n - c
      BY <3>2
    <3> QED
      BY <3>1, <3>3
  <2>6. bucket'[k] # NoBucket /\ ~Over(bucket'[k])
    BY <1>7, <1>10, <2>2, NoBucketAssumption DEF Over
  <2>7. admitted'[k][earlier + 1] = bucket'[k].age
    BY <1>6, <2>2, <2>3, <2>4
  <2> HIDE DEF earlier
  <2>8. \A i \in 1..(n + 1) : i <= earlier <=> admitted'[k][i] > bucket'[k].age
    BY <1>2, <1>6, <2>1, <2>2, <2>3, <2>4, SMTT(30)
  <2>9. Accounted(k)'
    BY <1>6, <1>8, <2>3, <2>5, <2>6, <2>7, <2>8 DEF Accounted
  <2> QED
    BY <1>4, <1>5, <2>9
<1> QED
  BY <1>9, <1>10

(* A tick ages the bucket and what it counts alike; when it closes the     *)
(* window, the request that opened it goes out of sight.                   *)
LEMMA TickAccounted ==
  ASSUME LimiterInv, Tick
  PROVE  /\ admitted' \in [Keys -> Seq(0..(Window - 1))]
         /\ \A j \in Keys : Accounted(j)'
<1>1. /\ bucket \in [Keys -> Bucket \cup {NoBucket}]
      /\ admitted \in [Keys -> Seq(0..(Window - 1))]
  BY DEF LimiterInv, LimiterTypeOK
<1>2. ASSUME NEW k \in Keys
      PROVE  admitted'[k] \in Seq(0..(Window - 1)) /\ Accounted(k)'
  <2> DEFINE ages == admitted[k]
             n == Len(ages)
             later == admitted'[k]
             b == bucket[k]
  <2>1. /\ ages \in Seq(0..(Window - 1)) /\ n \in Nat
        /\ \A i \in 1..n : ages[i] \in 0..(Window - 1)
        /\ b \in Bucket \cup {NoBucket}
    BY <1>1
  <2>2. /\ \A i, j \in 1..n : i <= j => ages[j] <= ages[i]
        /\ b = NoBucket \/ Over(b) => n < Limit /\ \A i \in 1..n : ages[i] > 0
        /\ b # NoBucket /\ ~Over(b) =>
             /\ n - b.count \in 0..(Limit - 1)
             /\ ages[n - b.count + 1] = b.age
             /\ \A i \in 1..n : i <= n - b.count <=> ages[i] > b.age
    BY DEF LimiterInv, Accounted
  <2>3. later = StillRecent(ages)
    BY DEF Tick
  <2>4. PICK g \in 0..n :
           /\ \A i \in 1..n : i <= g <=> ages[i] + 1 >= Window
           /\ later \in Seq(0..(Window - 1))
           /\ Len(later) = n - g
           /\ \A i \in 1..(n - g) : later[i] = ages[i + g] + 1
    BY <2>1, <2>2, <2>3, StillRecentFacts, ZenonT(40)
  <2>5. bucket'[k] = IF b = NoBucket \/ b.age > Window THEN b ELSE [b EXCEPT !.age = @ + 1]
    BY DEF Tick
  <2> HIDE DEF ages, n, later
  <2>6. \A i \in 1..(n - g) : i + g \in 1..n /\ ages[i + g] \in 0..(Window - 1)
    BY <2>1, <2>4
  <2>7. \A i, j \in 1..(n - g) : i <= j => later[j] <= later[i]
    <3> SUFFICES ASSUME NEW i \in 1..(n - g), NEW j \in 1..(n - g), i <= j
                 PROVE  later[j] <= later[i]
      OBVIOUS
    <3>1. ages[j + g] <= ages[i + g]
      BY <2>2, <2>6
    <3> QED
      BY <2>4, <2>6, <3>1, SMTT(30)
  <2>8. \A i \in 1..(n - g) : later[i] > 0
    <3> SUFFICES ASSUME NEW i \in 1..(n - g) PROVE later[i] > 0
      OBVIOUS
    <3>1. later[i] = ages[i + g] + 1 /\ ages[i + g] \in 0..(Window - 1)
      BY <2>4, <2>6
    <3> QED
      BY <3>1
  <2>9. CASE b = NoBucket \/ Over(b)
    <3>1. bucket'[k] = NoBucket \/ Over(bucket'[k])
      BY <2>1, <2>5, <2>9 DEF Over, Bucket
    <3>2. n - g < Limit
      BY <2>1, <2>2, <2>4, <2>9
    <3> QED
      BY <2>4, <2>7, <2>8, <3>1, <3>2 DEF Accounted, later
  <2>10. CASE b # NoBucket /\ ~Over(b)
    <3> DEFINE c == b.count
               e == n - c
    <3>1. b \in Bucket /\ c \in 1..Limit /\ b.age \in 0..(Window - 1)
      BY <2>1, <2>10 DEF Bucket, Over
    <3>2. bucket'[k].age = b.age + 1 /\ bucket'[k].count = c /\ bucket'[k] \in Bucket
      <4>1. bucket'[k] = [b EXCEPT !.age = @ + 1]
        BY <2>5, <2>10, <3>1
      <4> HIDE DEF b
      <4> QED
        BY <3>1, <4>1 DEF Bucket
    <3>3. /\ e \in 0..(Limit - 1)
          /\ ages[e + 1] = b.age
          /\ \A i \in 1..n : i <= e <=> ages[i] > b.age
      BY <2>2, <2>10
    <3> HIDE DEF c
    <3>4. e + 1 \in 1..n
      BY <2>1, <3>1, <3>3
    <3> HIDE DEF e
    <3>5. CASE b.age + 1 >= Window
      <4>1. e + 1 <= g
        BY <2>4, <3>3, <3>4, <3>5
      <4>2. Over(bucket'[k])
        BY <3>2, <3>5 DEF Over
      <4>3. e = 0
        <5> SUFFICES ASSUME e >= 1 PROVE FALSE
          BY <3>3, <3>4
        <5>1. 1 \in 1..n /\ ages[1] > b.age
          BY <2>1, <3>3, <3>4
        <5> QED
          BY <2>1, <3>1, <3>5, <5>1
      <4>4. n - g < Limit
        BY <2>1, <2>4, <3>1, <4>1, <4>3 DEF e
      <4> QED
        BY <2>4, <2>7, <2>8, <4>2, <4>4 DEF Accounted, later
    <3>6. CASE b.age + 1 < Window
      <4>1. g <= e
        <5> SUFFICES ASSUME g >= e + 1 PROVE FALSE
          BY <2>4, <3>3, <3>4
        <5>1. ages[e + 1] + 1 >= Window
          BY <2>4, <3>3, <3>4
        <5> QED
          BY <3>1, <3>3, <3>4, <3>6, <5>1
      <4>2. bucket'[k] # NoBucket /\ ~Over(bucket'[k])
        BY <3>1, <3>2, <3>6, NoBucketAssumption DEF Over
      <4>3. /\ e - g \in 0..(Limit - 1) /\ Len(later) - bucket'[k].count = e - g
            /\ e - g + 1 \in 1..(n - g) /\ (e - g + 1) + g = e + 1
        <5>1. e = n - c
          BY DEF e
        <5> QED
          BY <2>1, <2>4, <3>1, <3>2, <3>3, <3>4, <4>1, <5>1
      <4>4. later[e - g + 1] = bucket'[k].age
        BY <2>4, <3>2, <3>3, <3>4, <4>3
      <4>5. \A i \in 1..(n - g) : i <= e - g <=> later[i] > bucket'[k].age
        <5> SUFFICES ASSUME NEW i \in 1..(n - g)
                     PROVE  i <= e - g <=> later[i] > bucket'[k].age
          OBVIOUS
        <5>1. i + g <= e <=> ages[i + g] > b.age
          BY <2>6, <3>3
        <5>2. later[i] = ages[i + g] + 1 /\ ages[i + g] \in Int /\ b.age \in Int
          BY <2>4, <2>6, <3>1
        <5>3. i <= e - g <=> i + g <= e
          BY <2>1, <2>4, <3>3
        <5> QED
          BY <3>2, <5>1, <5>2, <5>3
      <4> QED
        BY <2>4, <2>7, <4>2, <4>3, <4>4, <4>5 DEF Accounted, later
    <3> QED
      BY <3>1, <3>5, <3>6
  <2> QED
    BY <2>4, <2>9, <2>10 DEF later
<1>3. admitted' \in [Keys -> Seq(0..(Window - 1))]
  <2>1. admitted' = [k \in Keys |-> StillRecent(admitted[k])]
    BY DEF Tick
  <2> QED
    BY <1>2, <2>1
<1> QED
  BY <1>2, <1>3

(* The bucket and the requests of the last window's length agree, whatever *)
(* the limiter does.                                                       *)
LEMMA LimiterInvStep == LimiterInv /\ [LimiterNext]_limiterVars => LimiterInv'
<1> SUFFICES ASSUME LimiterInv, [LimiterNext]_limiterVars PROVE LimiterInv'
  OBVIOUS
<1>1. LimiterTypeOK'
  BY LimiterTypeStep DEF LimiterInv
<1>2. ASSUME NEW k \in Keys, Admit(k) PROVE LimiterInv'
  BY <1>1, <1>2, AdmittedAccounted DEF LimiterInv
<1>3. ASSUME NEW k \in Keys, TurnAway(k) PROVE LimiterInv'
  <2>1. bucket \in [Keys -> Bucket \cup {NoBucket}]
    BY DEF LimiterInv, LimiterTypeOK
  <2>2. ASSUME NEW j \in Keys PROVE Accounted(j)'
    <3>1. CASE j = k
      <4>1. Current(k) = bucket[k]
        BY <1>3, CurrentType DEF TurnAway, LimiterInv
      <4>2. bucket'[k] = bucket[k] /\ admitted'[k] = admitted[k]
        BY <1>3, <2>1, <4>1, SweptFacts DEF TurnAway
      <4> QED
        BY <3>1, <4>2, OthersAccounted
    <3>2. CASE j # k
      <4>1. bucket'[j] = Swept(bucket)[j] /\ admitted'[j] = admitted[j]
        BY <1>3, <2>1, <3>2, SweptFacts DEF TurnAway
      <4> QED
        BY <2>1, <4>1, SweptFacts, OthersAccounted
    <3> QED
      BY <3>1, <3>2
  <2> QED
    BY <1>1, <1>3, <2>2 DEF LimiterInv, TurnAway
<1>4. CASE Tick
  BY <1>1, <1>4, TickAccounted DEF LimiterInv
<1>5. CASE ResetRateLimits
  <2>1. admitted' \in [Keys -> Seq(0..(Window - 1))]
    BY <1>5 DEF ResetRateLimits
  <2>2. \A j \in Keys : Accounted(j)'
    BY <1>5 DEF ResetRateLimits, Accounted
  <2> QED
    BY <1>1, <2>1, <2>2 DEF LimiterInv
<1>6. CASE UNCHANGED limiterVars
  BY <1>1, <1>6, OthersAccounted DEF limiterVars, LimiterInv
<1> QED
  BY <1>2, <1>3, <1>4, <1>5, <1>6 DEF LimiterNext

(* A bucket always counts what was admitted since it was opened, and       *)
(* before that fewer than Limit requests are within a window's length.     *)
THEOREM LimiterInvariant == LimiterSpec => []LimiterInv
<1>1. LimiterInit => LimiterInv
  <2> SUFFICES ASSUME LimiterInit PROVE LimiterInv
    OBVIOUS
  <2>1. \A k \in Keys : Accounted(k)
    BY DEF LimiterInit, Accounted
  <2> QED
    BY <2>1 DEF LimiterInit, LimiterInv, LimiterTypeOK
<1> QED
  BY <1>1, LimiterInvStep, PTL DEF LimiterSpec

(* Fixed windows let a key pass the limit across the end of a window, but  *)
(* never reach twice the limit within one window's length.                 *)
THEOREM NeverTwiceTheLimit == LimiterSpec => []LessThanTwice
<1>1. LimiterInv => LessThanTwice
  <2> SUFFICES ASSUME LimiterInv, NEW k \in Keys PROVE Len(admitted[k]) < 2 * Limit
    BY DEF LessThanTwice, Recently
  <2>1. Accounted(k) /\ bucket[k] \in Bucket \cup {NoBucket} /\ Len(admitted[k]) \in Nat
    BY DEF LimiterInv, LimiterTypeOK
  <2>2. CASE bucket[k] = NoBucket \/ Over(bucket[k])
    BY <2>1, <2>2 DEF Accounted
  <2>3. CASE bucket[k] # NoBucket /\ ~Over(bucket[k])
    <3>1. Len(admitted[k]) - bucket[k].count \in 0..(Limit - 1)
      BY <2>1, <2>3 DEF Accounted
    <3>2. bucket[k].count \in 1..Limit
      BY <2>1, <2>3 DEF Bucket
    <3> QED
      BY <2>1, <3>1, <3>2
  <2> QED
    BY <2>2, <2>3
<1> QED
  BY <1>1, LimiterInvariant, PTL

(* No request is turned away that the limit would still have let in: not   *)
(* by an eviction, a late reset or an earlier refusal.                     *)
THEOREM NobodyIsTurnedAwayEarly == LimiterSpec => []RefusalsAreDeserved
<1>1. LimiterInv => RefusalsAreDeserved
  <2> SUFFICES ASSUME LimiterInv, NEW k \in Keys, Full(k) PROVE Len(admitted[k]) >= Limit
    BY DEF RefusalsAreDeserved, Recently
  <2>1. Accounted(k) /\ Len(admitted[k]) \in Nat
    BY DEF LimiterInv
  <2>2. bucket[k] \in Bucket /\ ~Over(bucket[k]) /\ Current(k) = bucket[k]
    BY CurrentType DEF LimiterInv
  <2>3. bucket[k].count >= Limit /\ bucket[k].count \in 1..Limit
    BY <2>2 DEF Full, Bucket
  <2>4. Len(admitted[k]) - bucket[k].count \in 0..(Limit - 1)
    BY <2>1, <2>2, NoBucketAssumption DEF Accounted
  <2> QED
    BY <2>1, <2>3, <2>4
<1> QED
  BY <1>1, LimiterInvariant, PTL
=============================================================================
