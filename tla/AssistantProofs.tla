-------------------------- MODULE AssistantProofs --------------------------
(* What the assistant guarantees for any actors with any permissions, any  *)
(* number of sessions and of requests at its doors.                        *)
EXTENDS Assistant, RateLimiterProofs, SequenceTheorems, TLAPS

(* What a request and a turn in flight are about.                          *)
RequestsKnowTheirActors ==
  /\ request \in [Rounds -> Request]
  /\ \A r \in Rounds : request[r].at # "none" => request[r].actor \in Actors

-----------------------------------------------------------------------------
(* Sequences of entries.                                                   *)

(* Cutting a history to its newest entries bounds it and adds nothing.     *)
LEMMA LatestType ==
  ASSUME NEW S, NEW s \in Seq(S)
  PROVE  /\ Latest(s) \in Seq(S)
         /\ Len(Latest(s)) <= MaxHistory
         /\ ToSet(Latest(s)) \subseteq ToSet(s)
<1> DEFINE m == (IF Len(s) > MaxHistory THEN Len(s) - MaxHistory ELSE 0) + 1
<1>1. Len(s) \in Nat /\ MaxHistory \in Nat /\ MaxHistory > 0
  BY HistoryAssumption
<1>2. m \in 1..(Len(s) + 1) /\ Len(s) - m + 1 <= MaxHistory
  BY <1>1
<1> DEFINE t == SubSeq(s, m, Len(s))
<1>3. Latest(s) = t
  BY DEF Latest
<1> HIDE DEF m
<1>4. /\ t \in Seq(S)
      /\ Len(t) = Len(s) - m + 1
      /\ \A i \in 1..(Len(s) - m + 1) : t[i] = s[m + i - 1]
  BY <1>1, <1>2, SubSeqProperties
<1> HIDE DEF t
<1>5. DOMAIN t = 1..Len(t) /\ DOMAIN s = 1..Len(s)
  BY <1>4
<1>6. \A i \in DOMAIN t : m + i - 1 \in DOMAIN s /\ t[i] = s[m + i - 1]
  BY <1>1, <1>2, <1>4, <1>5
<1>7. ToSet(t) \subseteq ToSet(s)
  BY <1>6 DEF ToSet
<1> QED
  BY <1>2, <1>3, <1>4, <1>7

(* What is appended is the only new element.                               *)
LEMMA AppendElements ==
  ASSUME NEW S, NEW s \in Seq(S), NEW e \in S
  PROVE  Append(s, e) \in Seq(S) /\ ToSet(Append(s, e)) = ToSet(s) \cup {e}
<1>1. /\ Append(s, e) \in Seq(S)
      /\ Len(Append(s, e)) = Len(s) + 1
      /\ Append(s, e)[Len(s) + 1] = e
      /\ \A i \in 1..Len(s) : Append(s, e)[i] = s[i]
  OBVIOUS
<1> QED
  BY <1>1 DEF ToSet

(* A concatenation has no elements but those of its parts.                 *)
LEMMA ConcatElements ==
  ASSUME NEW S, NEW s \in Seq(S), NEW t \in Seq(S)
  PROVE  s \o t \in Seq(S) /\ ToSet(s \o t) \subseteq ToSet(s) \cup ToSet(t)
<1> DEFINE u == s \o t
<1>1. /\ u \in Seq(S)
      /\ Len(u) = Len(s) + Len(t) /\ Len(s) \in Nat /\ Len(t) \in Nat
      /\ \A i \in 1..(Len(s) + Len(t)) : u[i] = IF i <= Len(s) THEN s[i] ELSE t[i - Len(s)]
  BY ConcatProperties
<1> HIDE DEF u
<1>2. DOMAIN u = 1..Len(u) /\ DOMAIN s = 1..Len(s) /\ DOMAIN t = 1..Len(t)
  BY <1>1
<1>3. \A i \in DOMAIN u :
        \/ i \in DOMAIN s /\ u[i] = s[i]
        \/ (i - Len(s)) \in DOMAIN t /\ u[i] = t[i - Len(s)]
  BY <1>1, <1>2
<1>4. ToSet(u) \subseteq ToSet(s) \cup ToSet(t)
  BY <1>3 DEF ToSet
<1> QED
  BY <1>1, <1>4 DEF u

(* The elements of a sequence over a set are in that set.                  *)
LEMMA ElementsTyped ==
  ASSUME NEW S, NEW s \in Seq(S)
  PROVE  ToSet(s) \subseteq S
  BY DEF ToSet

(* The checkpoints a turn of the model begins with.                        *)
LEMMA AskedElements ==
  ASSUME NEW S, NEW s \in Seq(S), NEW e \in S
  PROVE  LET t == s \o (IF s = <<>> THEN <<>> ELSE <<Last(s)>>) \o <<e>>
         IN  t \in Seq(S) /\ ToSet(t) \subseteq ToSet(s) \cup {e}
<1> DEFINE u == IF s = <<>> THEN <<>> ELSE <<Last(s)>>
<1>1. u \in Seq(S) /\ ToSet(u) \subseteq ToSet(s)
  <2>1. CASE s = <<>>
    BY <2>1 DEF ToSet
  <2>2. CASE s # <<>>
    <3>1. Len(s) \in DOMAIN s
      BY <2>2
    <3>2. Last(s) \in S /\ Last(s) \in ToSet(s)
      BY <3>1 DEF Last, ToSet
    <3>3. <<Last(s)>> \in Seq(S) /\ ToSet(<<Last(s)>>) = {Last(s)}
      BY <3>2 DEF ToSet
    <3> QED
      BY <2>2, <3>2, <3>3
  <2> QED
    BY <2>1, <2>2
<1> HIDE DEF u
<1>2. s \o u \in Seq(S) /\ ToSet(s \o u) \subseteq ToSet(s)
  BY <1>1, ConcatElements
<1>3. <<e>> \in Seq(S) /\ ToSet(<<e>>) = {e}
  BY DEF ToSet
<1>4. (s \o u) \o <<e>> \in Seq(S) /\ ToSet((s \o u) \o <<e>>) \subseteq ToSet(s \o u) \cup ToSet(<<e>>)
  BY <1>2, <1>3, ConcatElements
<1> QED
  BY <1>2, <1>3, <1>4 DEF u

-----------------------------------------------------------------------------
(* The loops of get_conversation_history.                                  *)

(* What such a loop, which lists h at first, has listed after each entry   *)
(* of s, when next says what it does with one entry.                       *)
Run(next, h, s, g) ==
  /\ g \in [0..Len(s) -> Seq(Entry)]
  /\ g[0] = h
  /\ \A i \in 1..Len(s) : g[i] = next[<<g[i - 1], s[i]>>]

LEMMA LoopRuns ==
  ASSUME NEW next \in [Seq(Entry) \X Entry -> Seq(Entry)], NEW base \in Seq(Entry), NEW s \in Seq(Entry)
  PROVE  \E g : Run(next, base, s, g)
<1> DEFINE T == Seq(Entry)
           S == Entry
<1>0. next \in [T \X S -> T] /\ base \in T /\ s \in Seq(S)
  OBVIOUS
<1> HIDE DEF T, S
<1> DEFINE Runs(n) == \E g \in [0..n -> T] :
             g[0] = base /\ \A i \in 1..n : g[i] = next[<<g[i - 1], s[i]>>]
           N == {n \in Nat : n <= Len(s) => Runs(n)}
<1>1. Runs(0)
  <2> DEFINE g == [i \in 0..0 |-> base]
  <2>1. g \in [0..0 -> T] /\ g[0] = base
    BY <1>0
  <2> HIDE DEF g
  <2>2. \A i \in 1..0 : g[i] = next[<<g[i - 1], s[i]>>]
    OBVIOUS
  <2> QED
    BY <2>1, <2>2
<1>2. ASSUME NEW n \in Nat, n + 1 <= Len(s), Runs(n) PROVE Runs(n + 1)
  <2>1. PICK g \in [0..n -> T] : g[0] = base /\ \A i \in 1..n : g[i] = next[<<g[i - 1], s[i]>>]
    BY <1>2
  <2> DEFINE last == next[<<g[n], s[n + 1]>>]
             h == [i \in 0..(n + 1) |-> IF i <= n THEN g[i] ELSE last]
  <2>2. last \in T
    <3>1. g[n] \in T /\ s[n + 1] \in S
      BY <1>0, <1>2, <2>1
    <3> QED
      BY <1>0, <3>1
  <2>3. h \in [0..(n + 1) -> T]
    BY <2>2
  <2>4. h[0] = base
    BY <2>1
  <2>5. ASSUME NEW i \in 1..(n + 1) PROVE h[i] = next[<<h[i - 1], s[i]>>]
    <3>1. i - 1 \in 0..n /\ h[i - 1] = g[i - 1]
      OBVIOUS
    <3>2. CASE i <= n
      <4>1. h[i] = g[i] /\ i \in 1..n
        BY <3>2
      <4> QED
        BY <2>1, <3>1, <4>1
    <3>3. CASE i = n + 1
      <4>1. h[i] = last /\ i - 1 = n
        BY <3>3
      <4>2. h[i - 1] = g[n]
        BY <3>1, <4>1
      <4>3. s[i] = s[n + 1]
        BY <3>3
      <4> HIDE DEF h
      <4> QED
        BY <4>1, <4>2, <4>3
    <3> QED
      BY <3>2, <3>3
  <2> HIDE DEF h
  <2> QED
    BY <2>3, <2>4, <2>5
<1> HIDE DEF Runs
<1>3. 0 \in N
  BY <1>1
<1>4. \A n \in Nat : n \in N => n + 1 \in N
  <2>1. Len(s) \in Nat
    BY <1>0
  <2> QED
    BY <1>2, <2>1
<1>5. \A n \in Nat : n \in N
  <2> HIDE DEF N
  <2> QED
    BY <1>3, <1>4, InductionOverASet
<1>6. Len(s) \in N
  BY <1>0, <1>5
<1>7. Runs(Len(s))
  BY <1>6
<1>8. PICK g \in [0..Len(s) -> T] : g[0] = base /\ \A i \in 1..Len(s) : g[i] = next[<<g[i - 1], s[i]>>]
  BY <1>7 DEF Runs
<1>9. Run(next, base, s, g)
  BY <1>8 DEF Run, T
<1> QED
  BY <1>9

LEMMA ListedTyped ==
  \A h \in Seq(Entry), e \in Entry :
    ListCheckpoint(h, e) \in Seq(Entry) /\ ListFallback(h, e) \in Seq(Entry)
  BY DEF ListCheckpoint, ListFallback

LEMMA CheckpointLoop ==
  ASSUME NEW s \in Seq(Entry)
  PROVE  \E g \in [0..Len(s) -> Seq(Entry)] :
           /\ g[0] = <<>> /\ \A i \in 1..Len(s) : g[i] = ListCheckpoint(g[i - 1], s[i])
           /\ Checkpoints(s) = g[Len(s)]
<1> DEFINE T == Seq(Entry)
           next == [x \in T \X Entry |-> ListCheckpoint(x[1], x[2])]
           Is(f) == f = [i \in 0..Len(s) |-> IF i = 0 THEN <<>> ELSE ListCheckpoint(f[i - 1], s[i])]
           c == CHOOSE f : Is(f)
<1>1. next \in [T \X Entry -> T] /\ <<>> \in T
  BY ListedTyped
<1>2. \A h \in T, e \in Entry : next[<<h, e>>] = ListCheckpoint(h, e)
  OBVIOUS
<1>3. PICK g : Run(next, <<>>, s, g)
  <2> DEFINE none == <<>>
  <2>1. none \in T /\ next \in [T \X Entry -> T]
    BY <1>1
  <2> HIDE DEF next, none
  <2>2. \E g : Run(next, none, s, g)
    BY <2>1, LoopRuns
  <2> QED
    BY <2>2 DEF none
<1>a. /\ g \in [0..Len(s) -> T] /\ g[0] = <<>>
      /\ \A i \in 1..Len(s) : g[i] = next[<<g[i - 1], s[i]>>]
  <2> HIDE DEF next
  <2> QED
    BY <1>3 DEF Run
<1>4. \A i \in 1..Len(s) : g[i - 1] \in T /\ s[i] \in Entry
  <2>1. \A i \in 1..Len(s) : i - 1 \in 0..Len(s)
    OBVIOUS
  <2> QED
    BY <1>a, <2>1
<1>5. \A i \in 1..Len(s) : g[i] = ListCheckpoint(g[i - 1], s[i])
  <2> HIDE DEF next, T
  <2> QED
    BY <1>2, <1>a, <1>4
<1>6. Is(g)
  BY <1>a, <1>5
<1>7. Is(c)
  <2> HIDE DEF Is
  <2> QED
    BY <1>6
<1>8. Checkpoints(s) = c[Len(s)]
  BY DEF Checkpoints
<1> HIDE DEF c
<1>9. \A n \in Nat : n <= Len(s) => c[n] = g[n]
  <2> DEFINE N == {n \in Nat : n <= Len(s) => c[n] = g[n]}
  <2>1. 0 \in N
    BY <1>a, <1>7
  <2>2. ASSUME NEW n \in Nat, n \in N PROVE n + 1 \in N
    <3> SUFFICES ASSUME n + 1 <= Len(s) PROVE c[n + 1] = g[n + 1]
      OBVIOUS
    <3>1. n + 1 \in 1..Len(s) /\ (n + 1) - 1 = n /\ n <= Len(s)
      OBVIOUS
    <3>2. c[n] = g[n]
      BY <2>2, <3>1
    <3>3. c[n + 1] = ListCheckpoint(c[n], s[n + 1])
      BY <1>7, <3>1
    <3>4. g[n + 1] = ListCheckpoint(g[n], s[n + 1])
      BY <1>5, <3>1
    <3> QED
      BY <3>2, <3>3, <3>4
  <2>3. \A n \in Nat : n \in N
    <3> HIDE DEF N
    <3> QED
      BY <2>1, <2>2, InductionOverASet
  <2> QED
    BY <2>3
<1>10. Checkpoints(s) = g[Len(s)]
  BY <1>8, <1>9
<1> QED
  BY <1>a, <1>5, <1>10

LEMMA FallbackLoop ==
  ASSUME NEW h \in Seq(Entry), NEW s \in Seq(Entry)
  PROVE  \E g \in [0..Len(s) -> Seq(Entry)] :
           /\ g[0] = h /\ \A i \in 1..Len(s) : g[i] = ListFallback(g[i - 1], s[i])
           /\ WithFallback(h, s) = g[Len(s)]
<1> DEFINE T == Seq(Entry)
           next == [x \in T \X Entry |-> ListFallback(x[1], x[2])]
           Is(f) == f = [i \in 0..Len(s) |-> IF i = 0 THEN h ELSE ListFallback(f[i - 1], s[i])]
           c == CHOOSE f : Is(f)
<1>1. next \in [T \X Entry -> T] /\ h \in T
  BY ListedTyped
<1>2. \A l \in T, e \in Entry : next[<<l, e>>] = ListFallback(l, e)
  OBVIOUS
<1>3. PICK g : Run(next, h, s, g)
  <2> HIDE DEF next
  <2> QED
    BY <1>1, LoopRuns
<1>a. /\ g \in [0..Len(s) -> T] /\ g[0] = h
      /\ \A i \in 1..Len(s) : g[i] = next[<<g[i - 1], s[i]>>]
  <2> HIDE DEF next
  <2> QED
    BY <1>3 DEF Run
<1>4. \A i \in 1..Len(s) : g[i - 1] \in T /\ s[i] \in Entry
  <2>1. \A i \in 1..Len(s) : i - 1 \in 0..Len(s)
    OBVIOUS
  <2> QED
    BY <1>a, <2>1
<1>5. \A i \in 1..Len(s) : g[i] = ListFallback(g[i - 1], s[i])
  <2> HIDE DEF next, T
  <2> QED
    BY <1>2, <1>a, <1>4
<1>6. Is(g)
  BY <1>a, <1>5
<1>7. Is(c)
  <2> HIDE DEF Is
  <2> QED
    BY <1>6
<1>8. WithFallback(h, s) = c[Len(s)]
  BY DEF WithFallback
<1> HIDE DEF c
<1>9. \A n \in Nat : n <= Len(s) => c[n] = g[n]
  <2> DEFINE N == {n \in Nat : n <= Len(s) => c[n] = g[n]}
  <2>1. 0 \in N
    BY <1>a, <1>7
  <2>2. ASSUME NEW n \in Nat, n \in N PROVE n + 1 \in N
    <3> SUFFICES ASSUME n + 1 <= Len(s) PROVE c[n + 1] = g[n + 1]
      OBVIOUS
    <3>1. n + 1 \in 1..Len(s) /\ (n + 1) - 1 = n /\ n <= Len(s)
      OBVIOUS
    <3>2. c[n] = g[n]
      BY <2>2, <3>1
    <3>3. c[n + 1] = ListFallback(c[n], s[n + 1])
      BY <1>7, <3>1
    <3>4. g[n + 1] = ListFallback(g[n], s[n + 1])
      BY <1>5, <3>1
    <3> QED
      BY <3>2, <3>3, <3>4
  <2>3. \A n \in Nat : n \in N
    <3> HIDE DEF N
    <3> QED
      BY <2>1, <2>2, InductionOverASet
  <2> QED
    BY <2>3
<1>10. WithFallback(h, s) = g[Len(s)]
  BY <1>8, <1>9
<1> QED
  BY <1>a, <1>5, <1>10

(* A loop appends or leaves as it is.                                      *)
Rising(h) == \A i, j \in DOMAIN h : i < j => h[i].turn < h[j].turn

LEMMA AppendFacts ==
  ASSUME NEW S, NEW h \in Seq(S), NEW e \in S
  PROVE  /\ Append(h, e) \in Seq(S) /\ DOMAIN Append(h, e) = 1..(Len(h) + 1)
         /\ DOMAIN h = 1..Len(h) /\ Len(h) \in Nat
         /\ \A i \in 1..Len(h) : Append(h, e)[i] = h[i]
         /\ Append(h, e)[Len(h) + 1] = e
  OBVIOUS

(* An entry is listed: it, or one with its question, and only entries that *)
(* come after it follow.                                                   *)
Listed(e, h) ==
  \E i \in 1..Len(h) :
    h[i].query = e.query /\ \A j \in (i + 1)..Len(h) : Before(e, h[j])

(* It stays listed when a later entry is appended, or one with its         *)
(* question.                                                               *)
LEMMA StaysListed ==
  ASSUME NEW h \in Seq(Entry), NEW f \in Entry, NEW e \in Entry,
         f.query = e.query \/ (Listed(e, h) /\ Before(e, f))
  PROVE  Listed(e, Append(h, f))
<1> DEFINE n == Len(h)
           t == Append(h, f)
<1>1. /\ n \in Nat /\ Len(t) = n + 1
      /\ \A i \in 1..n : t[i] = h[i]
      /\ t[n + 1] = f
  BY AppendFacts
<1> HIDE DEF n, t
<1>2. CASE f.query = e.query
  <2>1. n + 1 \in 1..Len(t) /\ \A j \in ((n + 1) + 1)..Len(t) : FALSE
    BY <1>1
  <2> QED
    BY <1>1, <1>2, <2>1 DEF Listed, t
<1>3. CASE Listed(e, h) /\ Before(e, f)
  <2>1. PICK i \in 1..n : h[i].query = e.query /\ \A j \in (i + 1)..n : Before(e, h[j])
    BY <1>3 DEF Listed, n
  <2>2. i \in 1..Len(t) /\ t[i].query = e.query
    BY <1>1, <2>1
  <2>3. ASSUME NEW j \in (i + 1)..Len(t) PROVE Before(e, t[j])
    <3>1. j = n + 1 \/ (j \in (i + 1)..n /\ j \in 1..n)
      BY <1>1, <2>1
    <3> QED
      BY <1>1, <1>3, <2>1, <3>1
  <2> QED
    BY <2>2, <2>3 DEF Listed, t
<1> QED
  BY <1>2, <1>3

(* The question listed last is listed.                                     *)
LEMMA LastIsListed ==
  ASSUME NEW h \in Seq(Entry), h # <<>>, NEW e \in Entry, Last(h).query = e.query
  PROVE  Listed(e, h)
<1>1. Len(h) \in 1..Len(h) /\ \A j \in (Len(h) + 1)..Len(h) : FALSE
  OBVIOUS
<1>2. h[Len(h)].query = e.query
  BY DEF Last
<1> QED
  BY <1>1, <1>2 DEF Listed

(* A checkpoint that is listed is of a later turn than all listed before:  *)
(* an older copy of it would be the last that is listed.                   *)
LEMMA ListedRises ==
  ASSUME NEW h \in Seq(Entry), NEW e \in Entry, Rising(h),
         \A i \in DOMAIN h : h[i].turn < e.turn \/ h[i] = e
  PROVE  Rising(ListCheckpoint(h, e))
<1>1. CASE e.answer = Nobody \/ (h # <<>> /\ Last(h).query = e.query /\ Last(h).answer = e.answer)
  BY <1>1 DEF ListCheckpoint
<1>2. CASE ~(e.answer = Nobody \/ (h # <<>> /\ Last(h).query = e.query /\ Last(h).answer = e.answer))
  <2>1. ListCheckpoint(h, e) = Append(h, e)
    BY <1>2 DEF ListCheckpoint
  <2>2. /\ DOMAIN h = 1..Len(h) /\ Len(h) \in Nat
        /\ \A i \in 1..Len(h) : h[i] \in Entry
    OBVIOUS
  <2>3. \A i \in 1..Len(h) : h[i].turn \in Int
    BY <2>2, HistoryAssumption DEF Entry
  <2>4. e.turn \in Int
    BY HistoryAssumption DEF Entry
  <2>5. ASSUME NEW i \in 1..Len(h) PROVE h[i].turn < e.turn
    <3>1. h # <<>> /\ Last(h) = h[Len(h)]
      BY DEF Last
    <3>2. h[Len(h)] # e
      BY <1>2, <3>1
    <3>3. h[Len(h)].turn < e.turn
      BY <2>2, <3>2
    <3>4. Len(h) \in 1..Len(h) /\ (i = Len(h) \/ i < Len(h))
      OBVIOUS
    <3>5. i = Len(h) \/ h[i].turn < h[Len(h)].turn
      BY <2>2, <3>4 DEF Rising
    <3>6. h[i].turn \in Int /\ h[Len(h)].turn \in Int
      BY <2>3, <3>4
    <3> DEFINE a == h[i].turn
               b == h[Len(h)].turn
               c == e.turn
    <3>7. a \in Int /\ b \in Int /\ c \in Int /\ b < c /\ (a = b \/ a < b)
      BY <2>4, <3>3, <3>5, <3>6
    <3> HIDE DEF a, b, c
    <3>8. a < c
      BY <3>7
    <3> QED
      BY <3>8 DEF a, c
  <2>6. /\ DOMAIN Append(h, e) = 1..(Len(h) + 1)
        /\ \A i \in 1..Len(h) : Append(h, e)[i] = h[i]
        /\ Append(h, e)[Len(h) + 1] = e
    BY AppendFacts
  <2>7. ASSUME NEW i \in 1..(Len(h) + 1), NEW j \in 1..(Len(h) + 1), i < j
        PROVE  Append(h, e)[i].turn < Append(h, e)[j].turn
    <3>1. i \in 1..Len(h)
      BY <2>2, <2>7
    <3>2. CASE j \in 1..Len(h)
      BY <2>2, <2>6, <2>7, <3>1, <3>2 DEF Rising
    <3>3. CASE j = Len(h) + 1
      BY <2>5, <2>6, <3>1, <3>3
    <3> QED
      BY <2>2, <3>2, <3>3
  <2> QED
    BY <2>1, <2>6, <2>7 DEF Rising
<1> QED
  BY <1>1, <1>2

(* The checkpoints that are listed are some of those with an answer, each  *)
(* turn once and in order, and every one with an answer is listed.         *)
LEMMA CheckpointsListed ==
  ASSUME NEW s \in Seq(Entry), CheckpointsInOrder(s)
  PROVE  /\ Checkpoints(s) \in Seq(Entry) /\ Rising(Checkpoints(s))
         /\ \A i \in DOMAIN Checkpoints(s) : ~Checkpoints(s)[i].heuristic
         /\ \A m \in DOMAIN s : s[m].answer # Nobody => Listed(s[m], Checkpoints(s))
<1>1. PICK g \in [0..Len(s) -> Seq(Entry)] :
        /\ g[0] = <<>> /\ \A i \in 1..Len(s) : g[i] = ListCheckpoint(g[i - 1], s[i])
        /\ Checkpoints(s) = g[Len(s)]
  BY CheckpointLoop
<1>2. Len(s) \in Nat /\ DOMAIN s = 1..Len(s) /\ \A i \in 1..Len(s) : s[i] \in Entry
  OBVIOUS
<1> DEFINE Comes(n) == \A i \in DOMAIN g[n] : \E m \in 1..n : g[n][i] = s[m] /\ s[m].answer # Nobody
           Kept(n) == \A m \in 1..n : s[m].answer # Nobody => Listed(s[m], g[n])
           N == {n \in Nat : n <= Len(s) => Rising(g[n]) /\ Comes(n) /\ Kept(n)}
<1>3. 0 \in N
  BY <1>1 DEF Rising
<1>4. ASSUME NEW n \in Nat, n \in N PROVE n + 1 \in N
  <2> SUFFICES ASSUME n + 1 <= Len(s) PROVE Rising(g[n + 1]) /\ Comes(n + 1) /\ Kept(n + 1)
    OBVIOUS
  <2>1. Rising(g[n]) /\ Comes(n) /\ Kept(n)
    BY <1>2, <1>4
  <2> DEFINE h == g[n]
             e == s[n + 1]
  <2>2. n + 1 \in 1..Len(s) /\ (n + 1) - 1 = n /\ n \in 0..Len(s)
    BY <1>2
  <2>3. h \in Seq(Entry) /\ e \in Entry /\ g[n + 1] = ListCheckpoint(h, e)
    BY <1>1, <1>2, <2>2
  <2>4. CASE e.answer = Nobody
    <3>1. g[n + 1] = h
      BY <2>3, <2>4 DEF ListCheckpoint
    <3>2. \A m \in 1..(n + 1) : m \in 1..n \/ m = n + 1
      OBVIOUS
    <3>3. Kept(n + 1)
      BY <2>1, <2>4, <3>1, <3>2
    <3> QED
      BY <2>1, <3>1, <3>3
  <2>5. CASE e.answer # Nobody
    <3>1. ASSUME NEW i \in DOMAIN h PROVE h[i].turn < e.turn \/ h[i] = e
      <4>1. PICK m \in 1..n : h[i] = s[m] /\ s[m].answer # Nobody
        BY <2>1
      <4>2. m \in DOMAIN s /\ n + 1 \in DOMAIN s /\ m < n + 1
        BY <1>2, <2>2
      <4> QED
        BY <2>5, <4>1, <4>2 DEF CheckpointsInOrder
    <3>2. Rising(g[n + 1])
      <4> HIDE DEF h, e
      <4>1. Rising(h)
        BY <2>1 DEF h
      <4> QED
        BY <2>3, <3>1, <4>1, ListedRises
    <3>3. g[n + 1] = h \/ g[n + 1] = Append(h, e)
      BY <2>3 DEF ListCheckpoint
    <3>4. ASSUME NEW i \in DOMAIN g[n + 1] PROVE \E m \in 1..(n + 1) : g[n + 1][i] = s[m] /\ s[m].answer # Nobody
      <4>1. CASE i \in DOMAIN h /\ g[n + 1][i] = h[i]
        <5>1. PICK m \in 1..n : h[i] = s[m] /\ s[m].answer # Nobody
          BY <2>1, <4>1
        <5>2. m \in 1..(n + 1)
          OBVIOUS
        <5> QED
          BY <4>1, <5>1, <5>2
      <4>2. CASE g[n + 1][i] = e
        BY <2>2, <2>5, <4>2
      <4>3. (i \in DOMAIN h /\ g[n + 1][i] = h[i]) \/ g[n + 1][i] = e
        <5> HIDE DEF h, e
        <5> QED
          BY <2>3, <3>3, AppendFacts
      <4> QED
        BY <4>1, <4>2, <4>3
    <3>5. ASSUME NEW m \in 1..(n + 1), s[m].answer # Nobody PROVE Listed(s[m], g[n + 1])
      <4>1. s[m] \in Entry /\ m \in DOMAIN s /\ n + 1 \in DOMAIN s
        BY <1>2, <2>2
      <4>2. m = n + 1 \/ (m \in 1..n /\ m < n + 1)
        OBVIOUS
      <4>3. s[m] = e \/ (Listed(s[m], h) /\ s[m].turn < e.turn)
        BY <2>1, <2>5, <3>5, <4>1, <4>2 DEF CheckpointsInOrder
      <4>4. CASE g[n + 1] = Append(h, e)
        <5> HIDE DEF h, e
        <5> QED
          BY <2>3, <4>1, <4>3, <4>4, StaysListed DEF Before
      <4>5. CASE g[n + 1] = h /\ Listed(s[m], h)
        BY <4>5
      <4>6. CASE g[n + 1] = h /\ s[m] = e /\ g[n + 1] # Append(h, e)
        <5> HIDE DEF h, e
        <5>1. h # <<>> /\ Last(h).query = e.query
          BY <2>3, <2>5, <4>6 DEF ListCheckpoint
        <5> QED
          BY <2>3, <4>6, <5>1, LastIsListed
      <4> QED
        BY <3>3, <4>3, <4>4, <4>5, <4>6
    <3> QED
      BY <3>2, <3>4, <3>5
  <2> QED
    BY <2>4, <2>5
<1> HIDE DEF N
<1>5. \A n \in Nat : n \in N
  BY <1>3, <1>4, InductionOverASet
<1>6. Rising(g[Len(s)]) /\ Comes(Len(s)) /\ Kept(Len(s))
  <2>1. Len(s) \in N
    BY <1>2, <1>5
  <2> QED
    BY <1>2, <2>1 DEF N
<1>7. g[Len(s)] \in Seq(Entry)
  BY <1>1, <1>2
<1>8. \A i \in DOMAIN g[Len(s)] : ~g[Len(s)][i].heuristic
  BY <1>2, <1>6 DEF CheckpointsInOrder
<1> QED
  BY <1>1, <1>6, <1>7, <1>8

(* A fallback entry may follow what is listed when it is of a later turn   *)
(* than the fallback entries among it.                                     *)
LEMMA AppendInOrder ==
  ASSUME NEW h \in Seq(Entry), NEW e \in Entry, InOrder(h), e.heuristic,
         \A i \in DOMAIN h : h[i].heuristic => h[i].turn < e.turn
  PROVE  InOrder(Append(h, e))
<1>1. /\ DOMAIN Append(h, e) = 1..(Len(h) + 1)
      /\ DOMAIN h = 1..Len(h) /\ Len(h) \in Nat
      /\ \A i \in 1..Len(h) : Append(h, e)[i] = h[i]
      /\ Append(h, e)[Len(h) + 1] = e
  BY AppendFacts
<1> DEFINE n == Len(h)
           t == Append(h, e)
<1> HIDE DEF n, t
<1>2. /\ n \in Nat /\ DOMAIN t = 1..(n + 1) /\ DOMAIN h = 1..n
      /\ \A i \in 1..n : t[i] = h[i]
      /\ t[n + 1] = e
  BY <1>1 DEF n, t
<1>3. ASSUME NEW j \in 1..(n + 1), NEW i \in 1..(j - 1)
      PROVE  Before(t[i], t[j])
  <2>1. i \in 1..n /\ t[i] = h[i]
    BY <1>2
  <2>2. CASE j \in 1..n
    BY <1>2, <2>1, <2>2 DEF InOrder
  <2>3. CASE j = n + 1
    BY <1>2, <2>1, <2>3 DEF Before
  <2> QED
    BY <1>2, <2>2, <2>3
<1>4. InOrder(t)
  BY <1>2, <1>3 DEF InOrder
<1> QED
  BY <1>4 DEF t

(* The fallback entries follow the checkpoints in order; those that were   *)
(* listed stay so, and every fallback entry is listed.                     *)
LEMMA FallbackListed ==
  ASSUME NEW b \in Seq(Entry), Rising(b), \A i \in DOMAIN b : ~b[i].heuristic,
         NEW s \in Seq(Entry), FallbackInOrder(s)
  PROVE  /\ WithFallback(b, s) \in Seq(Entry) /\ InOrder(WithFallback(b, s))
         /\ \A e \in Entry : ~e.heuristic /\ Listed(e, b) => Listed(e, WithFallback(b, s))
         /\ \A m \in DOMAIN s : Listed(s[m], WithFallback(b, s))
<1>1. PICK g \in [0..Len(s) -> Seq(Entry)] :
        /\ g[0] = b /\ \A i \in 1..Len(s) : g[i] = ListFallback(g[i - 1], s[i])
        /\ WithFallback(b, s) = g[Len(s)]
  BY FallbackLoop, SMTT(30)
<1>2. Len(s) \in Nat /\ DOMAIN s = 1..Len(s) /\ \A i \in 1..Len(s) : s[i] \in Entry
  OBVIOUS
<1> DEFINE Comes(n) == \A i \in DOMAIN g[n] : g[n][i].heuristic => \E m \in 1..n : g[n][i] = s[m]
           Stays(n) == \A e \in Entry : ~e.heuristic /\ Listed(e, b) => Listed(e, g[n])
           Kept(n) == \A m \in 1..n : Listed(s[m], g[n])
           N == {n \in Nat : n <= Len(s) => InOrder(g[n]) /\ Comes(n) /\ Stays(n) /\ Kept(n)}
<1>3. 0 \in N
  <2>1. DOMAIN b = 1..Len(b)
    OBVIOUS
  <2>2. \A j \in DOMAIN b : \A i \in 1..(j - 1) : i \in DOMAIN b /\ i < j
    BY <2>1
  <2>3. InOrder(b)
    BY <2>2 DEF InOrder, Before, Rising
  <2> QED
    BY <1>1, <2>3
<1>4. ASSUME NEW n \in Nat, n \in N PROVE n + 1 \in N
  <2> SUFFICES ASSUME n + 1 <= Len(s) PROVE InOrder(g[n + 1]) /\ Comes(n + 1) /\ Stays(n + 1) /\ Kept(n + 1)
    OBVIOUS
  <2>1. InOrder(g[n]) /\ Comes(n) /\ Stays(n) /\ Kept(n)
    BY <1>2, <1>4
  <2> DEFINE h == g[n]
             e == s[n + 1]
  <2>2. n + 1 \in 1..Len(s) /\ (n + 1) - 1 = n /\ n \in 0..Len(s)
    BY <1>2
  <2>3. h \in Seq(Entry) /\ e \in Entry /\ g[n + 1] = ListFallback(h, e)
    BY <1>1, <1>2, <2>2
  <2>4. e.heuristic
    BY <1>2, <2>2 DEF FallbackInOrder
  <2>5. ASSUME NEW i \in DOMAIN h, h[i].heuristic PROVE h[i].turn < e.turn
    <3>1. PICK m \in 1..n : h[i] = s[m]
      BY <2>1, <2>5
    <3>2. m \in DOMAIN s /\ n + 1 \in DOMAIN s /\ m < n + 1
      BY <1>2, <2>2
    <3> QED
      BY <3>1, <3>2 DEF FallbackInOrder
  <2>6. g[n + 1] = h \/ g[n + 1] = Append(h, e)
    BY <2>3 DEF ListFallback
  <2>7. InOrder(g[n + 1])
    <3>1. InOrder(h)
      BY <2>1
    <3> HIDE DEF h, e
    <3>2. InOrder(Append(h, e))
      BY <2>3, <2>4, <2>5, <3>1, AppendInOrder
    <3> QED
      BY <2>6, <3>1, <3>2
  <2>8. ASSUME NEW i \in DOMAIN g[n + 1], g[n + 1][i].heuristic PROVE \E m \in 1..(n + 1) : g[n + 1][i] = s[m]
    <3>1. CASE i \in DOMAIN h /\ g[n + 1][i] = h[i]
      <4>1. PICK m \in 1..n : h[i] = s[m]
        BY <2>1, <2>8, <3>1
      <4>2. m \in 1..(n + 1)
        OBVIOUS
      <4> QED
        BY <3>1, <4>1, <4>2
    <3>2. CASE g[n + 1][i] = e
      <4>1. n + 1 \in 1..(n + 1)
        OBVIOUS
      <4> QED
        BY <3>2, <4>1
    <3>3. (i \in DOMAIN h /\ g[n + 1][i] = h[i]) \/ g[n + 1][i] = e
      <4> DEFINE u == g[n + 1]
      <4>1. u = h \/ u = Append(h, e)
        BY <2>6
      <4>2. i \in DOMAIN u
        BY <2>8
      <4> SUFFICES (i \in DOMAIN h /\ u[i] = h[i]) \/ u[i] = e
        OBVIOUS
      <4> HIDE DEF h, e, u
      <4>3. /\ DOMAIN Append(h, e) = 1..(Len(h) + 1) /\ DOMAIN h = 1..Len(h) /\ Len(h) \in Nat
            /\ \A k \in 1..Len(h) : Append(h, e)[k] = h[k]
            /\ Append(h, e)[Len(h) + 1] = e
        BY <2>3, AppendFacts
      <4>4. CASE u = h
        BY <4>2, <4>4
      <4>5. CASE u = Append(h, e)
        <5>1. i \in 1..Len(h) \/ i = Len(h) + 1
          BY <4>2, <4>3, <4>5
        <5> QED
          BY <4>3, <4>5, <5>1
      <4> QED
        BY <4>1, <4>4, <4>5
    <3> QED
      BY <3>1, <3>2, <3>3
  <2>9. ASSUME NEW f \in Entry, Listed(f, h), Before(f, e) PROVE Listed(f, g[n + 1])
    <3> HIDE DEF h, e
    <3>1. Listed(f, Append(h, e))
      BY <2>3, <2>9, StaysListed
    <3> QED
      BY <2>6, <2>9, <3>1
  <2>10. Stays(n + 1)
    BY <2>1, <2>4, <2>9 DEF Before
  <2>11. Listed(e, g[n + 1])
    <3> HIDE DEF h, e
    <3>1. CASE g[n + 1] = Append(h, e)
      BY <2>3, <3>1, StaysListed
    <3>2. CASE g[n + 1] # Append(h, e)
      <4>1. h # <<>> /\ Last(h).query = e.query /\ g[n + 1] = h
        BY <2>3, <3>2 DEF ListFallback
      <4> QED
        BY <2>3, <4>1, LastIsListed
    <3> QED
      BY <3>1, <3>2
  <2>12. ASSUME NEW m \in 1..(n + 1) PROVE Listed(s[m], g[n + 1])
    <3>1. m = n + 1 \/ (m \in 1..n /\ m < n + 1)
      OBVIOUS
    <3>2. CASE m = n + 1
      BY <2>11, <3>2
    <3>3. CASE m \in 1..n /\ m < n + 1
      <4>1. s[m] \in Entry /\ m \in DOMAIN s /\ n + 1 \in DOMAIN s
        BY <1>2, <2>2
      <4>2. Listed(s[m], h) /\ Before(s[m], e)
        BY <2>1, <3>3, <4>1 DEF FallbackInOrder, Before
      <4> QED
        BY <2>9, <4>1, <4>2
    <3> QED
      BY <3>1, <3>2, <3>3
  <2> QED
    BY <2>7, <2>8, <2>10, <2>12
<1> HIDE DEF N
<1>5. \A n \in Nat : n \in N
  BY <1>3, <1>4, InductionOverASet
<1>6. InOrder(g[Len(s)]) /\ Stays(Len(s)) /\ Kept(Len(s))
  <2>1. Len(s) \in N
    BY <1>2, <1>5
  <2> QED
    BY <1>2, <2>1 DEF N
<1>7. g[Len(s)] \in Seq(Entry)
  BY <1>1, <1>2
<1>8. \A m \in DOMAIN s : Listed(s[m], g[Len(s)])
  BY <1>2, <1>6
<1>9. \A e \in Entry : ~e.heuristic /\ Listed(e, b) => Listed(e, g[Len(s)])
  BY <1>6
<1> QED
  BY <1>1, <1>6, <1>7, <1>8, <1>9, Zenon

(* The newest of entries in order are in order, and show what was listed.  *)
LEMMA LatestInOrder ==
  ASSUME NEW h \in Seq(Entry), InOrder(h)
  PROVE  InOrder(Latest(h)) /\ \A e \in Entry : Listed(e, h) => Shown(e, Latest(h))
<1> DEFINE m == (IF Len(h) > MaxHistory THEN Len(h) - MaxHistory ELSE 0) + 1
           t == SubSeq(h, m, Len(h))
           n == Len(h)
<1>1. n \in Nat /\ MaxHistory \in Nat /\ MaxHistory > 0 /\ DOMAIN h = 1..n
  BY HistoryAssumption
<1>2. m \in 1..(n + 1) /\ (m > 1 => n - m + 1 = MaxHistory)
  BY <1>1
<1>3. Latest(h) = t
  BY DEF Latest
<1> HIDE DEF m
<1>4. /\ t \in Seq(Entry) /\ Len(t) = n - m + 1
      /\ \A i \in 1..(n - m + 1) : t[i] = h[m + i - 1]
  BY <1>1, <1>2, SubSeqProperties
<1>5. DOMAIN t = 1..(n - m + 1)
  BY <1>4
<1> HIDE DEF t, n
<1>6. ASSUME NEW j \in 1..(n - m + 1), NEW i \in 1..(j - 1)
      PROVE  Before(t[i], t[j])
  <2>1. i \in 1..(n - m + 1) /\ m + j - 1 \in 1..n /\ m + i - 1 \in 1..((m + j - 1) - 1)
    BY <1>1, <1>2
  <2>2. t[i] = h[m + i - 1] /\ t[j] = h[m + j - 1]
    BY <1>4, <2>1
  <2> QED
    BY <1>1, <2>1, <2>2 DEF InOrder
<1>7. InOrder(t)
  BY <1>5, <1>6 DEF InOrder
<1>8. ASSUME NEW e \in Entry, Listed(e, h) PROVE Shown(e, t)
  <2>1. PICK i \in 1..n : h[i].query = e.query /\ \A j \in (i + 1)..n : Before(e, h[j])
    BY <1>8 DEF Listed, n
  <2>2. CASE i >= m
    <3> DEFINE k == i - m + 1
    <3>1. k \in 1..Len(t) /\ k \in 0..Len(t) /\ k # 0 /\ m + k - 1 = i
      BY <1>1, <1>2, <1>4, <2>2
    <3>2. t[k].query = e.query
      BY <1>4, <2>1, <3>1
    <3>3. ASSUME NEW j \in (k + 1)..Len(t) PROVE Before(e, t[j])
      <4>1. j \in 1..(n - m + 1) /\ m + j - 1 \in (i + 1)..n
        BY <1>1, <1>2, <1>4, <3>1
      <4> QED
        BY <1>4, <2>1, <4>1
    <3> HIDE DEF k
    <3> QED
      BY <3>1, <3>2, <3>3 DEF Shown
  <2>3. CASE i < m
    <3>1. 0 \in 0..Len(t) /\ Len(t) = MaxHistory
      BY <1>1, <1>2, <1>4, <2>3
    <3>2. ASSUME NEW j \in (0 + 1)..Len(t) PROVE Before(e, t[j])
      <4>1. j \in 1..(n - m + 1) /\ m + j - 1 \in (i + 1)..n
        BY <1>1, <1>2, <1>4, <2>3
      <4> QED
        BY <1>4, <2>1, <4>1
    <3> QED
      BY <3>1, <3>2 DEF Shown
  <2> QED
    BY <1>1, <1>2, <2>2, <2>3
<1> QED
  BY <1>3, <1>7, <1>8

(* The history is in order and shows all that is remembered and answered.  *)
LEMMA HistoryListed ==
  ASSUME NEW th \in Threads, saved[th] \in Seq(Entry), fallback[th] \in Seq(Entry),
         CheckpointsInOrder(saved[th]), FallbackInOrder(fallback[th])
  PROVE  /\ InOrder(History(th))
         /\ \A e \in Remembered(th) : e.answer # Nobody => Shown(e, History(th))
<1> DEFINE s == saved[th]
           f == fallback[th]
           c == Checkpoints(s)
           h == WithFallback(c, f)
<1>1. /\ c \in Seq(Entry) /\ Rising(c)
      /\ \A i \in DOMAIN c : ~c[i].heuristic
      /\ \A m \in DOMAIN s : s[m].answer # Nobody => Listed(s[m], c)
  BY CheckpointsListed
<1>2. /\ s \in Seq(Entry) /\ f \in Seq(Entry)
      /\ \A m \in DOMAIN s : s[m] \in Entry /\ ~s[m].heuristic
      /\ \A m \in DOMAIN f : f[m] \in Entry
  BY DEF CheckpointsInOrder
<1>3. FallbackInOrder(f)
  OBVIOUS
<1>4. History(th) = Latest(h)
  BY DEF History
<1>5. \A e \in Remembered(th) :
        \/ \E m \in DOMAIN s : e = s[m]
        \/ \E m \in DOMAIN f : e = f[m]
  BY DEF Remembered, ToSet
<1> HIDE DEF c, s, f
<1>6. /\ h \in Seq(Entry) /\ InOrder(h)
      /\ \A e \in Entry : ~e.heuristic /\ Listed(e, c) => Listed(e, h)
      /\ \A m \in DOMAIN f : Listed(f[m], h)
  BY <1>1, <1>2, <1>3, FallbackListed
<1> HIDE DEF h
<1>7. InOrder(Latest(h)) /\ \A e \in Entry : Listed(e, h) => Shown(e, Latest(h))
  BY <1>6, LatestInOrder
<1>8. ASSUME NEW e \in Remembered(th), e.answer # Nobody PROVE Shown(e, Latest(h))
  BY <1>1, <1>2, <1>5, <1>6, <1>7, <1>8
<1> QED
  BY <1>4, <1>7, <1>8

-----------------------------------------------------------------------------
(* The order of the turns, as they are added.                              *)

(* What is known of each thread.                                           *)
LEMMA ThreadFacts ==
  ASSUME ConversationInv, NEW x \in Threads
  PROVE  /\ saved[x] \in Seq(Entry) /\ fallback[x] \in Seq(Entry) /\ turns \in Nat
         /\ CheckpointsInOrder(saved[x]) /\ FallbackInOrder(fallback[x])
         /\ \A i \in DOMAIN saved[x] : saved[x][i].turn <= turns
         /\ \A i \in DOMAIN fallback[x] : fallback[x][i].turn <= turns
<1>1. /\ saved \in [Threads -> Seq(Entry)] /\ fallback \in [Threads -> Seq(Entry)]
      /\ turns \in 0..MaxTurns /\ MaxTurns \in Nat
  BY HistoryAssumption DEF ConversationInv, ConversationTypeOK
<1>2. /\ CheckpointsInOrder(saved[x]) /\ FallbackInOrder(fallback[x])
      /\ \A e \in Remembered(x) : e.turn <= turns
  BY DEF ConversationInv, TurnsInOrder
<1>3. /\ \A i \in DOMAIN saved[x] : saved[x][i] \in Remembered(x)
      /\ \A i \in DOMAIN fallback[x] : fallback[x][i] \in Remembered(x)
  BY DEF Remembered, ToSet
<1> QED
  BY <1>1, <1>2, <1>3

(* A checkpoint without an answer, of a later turn than all before it, or  *)
(* a copy of the one before it is in its place.                            *)
LEMMA CheckpointInOrder ==
  ASSUME NEW s \in Seq(Entry), NEW e \in Entry, CheckpointsInOrder(s), ~e.heuristic,
         \/ e.answer = Nobody
         \/ \A i \in DOMAIN s : s[i].turn < e.turn
         \/ s # <<>> /\ e = s[Len(s)]
  PROVE  CheckpointsInOrder(Append(s, e))
<1> DEFINE t == Append(s, e)
           n == Len(s)
<1>1. /\ DOMAIN t = 1..(n + 1) /\ DOMAIN s = 1..n /\ n \in Nat
      /\ \A i \in 1..n : t[i] = s[i]
      /\ t[n + 1] = e
  BY AppendFacts
<1>2. s # <<>> => n \in 1..n
  OBVIOUS
<1> HIDE DEF t
<1>3. \A i \in DOMAIN t : ~t[i].heuristic
  BY <1>1 DEF CheckpointsInOrder
<1>4. ASSUME NEW i \in DOMAIN t, NEW j \in DOMAIN t, i < j, t[i].answer # Nobody,
             t[j].answer # Nobody
      PROVE  t[i].turn < t[j].turn \/ t[i] = t[j]
  <2>1. i \in 1..n /\ t[i] = s[i]
    BY <1>1, <1>4
  <2>2. CASE j \in 1..n
    BY <1>1, <1>4, <2>1, <2>2 DEF CheckpointsInOrder
  <2>3. CASE j = n + 1 /\ s # <<>> /\ e = s[n]
    <3>1. CASE i = n
      BY <1>1, <2>1, <2>3, <3>1
    <3>2. CASE i < n
      BY <1>1, <1>2, <1>4, <2>1, <2>3, <3>2 DEF CheckpointsInOrder
    <3> QED
      BY <1>1, <2>1, <3>1, <3>2
  <2>4. CASE j = n + 1 /\ \A k \in DOMAIN s : s[k].turn < e.turn
    BY <1>1, <2>1, <2>4
  <2>5. CASE j = n + 1 /\ e.answer = Nobody
    BY <1>1, <1>4, <2>5
  <2> QED
    BY <1>1, <2>2, <2>3, <2>4, <2>5
<1> QED
  BY <1>3, <1>4 DEF CheckpointsInOrder, t

(* The input of a turn, on top of a copy of the last checkpoint.           *)
LEMMA AskedInOrder ==
  ASSUME NEW s \in Seq(Entry), NEW e \in Entry, CheckpointsInOrder(s), ~e.heuristic,
         e.answer = Nobody
  PROVE  CheckpointsInOrder(s \o (IF s = <<>> THEN <<>> ELSE <<Last(s)>>) \o <<e>>)
<1> DEFINE u == s \o (IF s = <<>> THEN <<>> ELSE <<Last(s)>>)
<1>1. u \in Seq(Entry) /\ CheckpointsInOrder(u)
  <2>1. CASE s = <<>>
    <3>1. u = s
      BY <2>1
    <3> QED
      BY <3>1
  <2>2. CASE s # <<>>
    <3>1. Len(s) \in DOMAIN s /\ Last(s) = s[Len(s)]
      BY <2>2 DEF Last
    <3>2. Last(s) \in Entry /\ ~Last(s).heuristic
      BY <3>1 DEF CheckpointsInOrder
    <3>3. u = Append(s, Last(s))
      BY <2>2, <3>2
    <3>4. Append(s, Last(s)) \in Seq(Entry)
      BY <3>2
    <3> QED
      BY <2>2, <3>1, <3>2, <3>3, <3>4, CheckpointInOrder
  <2> QED
    BY <2>1, <2>2
<1> HIDE DEF u
<1>2. u \o <<e>> = Append(u, e)
  BY <1>1
<1>3. CheckpointsInOrder(Append(u, e))
  BY <1>1, CheckpointInOrder
<1> QED
  BY <1>2, <1>3 DEF u

(* A new entry of the fallback history, and what the bound leaves of it.   *)
LEMMA RecordedInOrder ==
  ASSUME NEW s \in Seq(Entry), NEW e \in Entry, FallbackInOrder(s), e.heuristic,
         \A i \in DOMAIN s : s[i].turn < e.turn
  PROVE  FallbackInOrder(Latest(Append(s, e)))
<1> DEFINE h == Append(s, e)
<1>1. /\ h \in Seq(Entry) /\ DOMAIN h = 1..(Len(s) + 1) /\ DOMAIN s = 1..Len(s)
      /\ \A i \in 1..Len(s) : h[i] = s[i]
      /\ h[Len(s) + 1] = e /\ Len(s) \in Nat
  BY AppendFacts
<1> HIDE DEF h
<1>2. FallbackInOrder(h)
  BY <1>1 DEF FallbackInOrder
<1> DEFINE m == (IF Len(h) > MaxHistory THEN Len(h) - MaxHistory ELSE 0) + 1
           t == SubSeq(h, m, Len(h))
           n == Len(h)
<1>3. n \in Nat /\ MaxHistory \in Nat /\ MaxHistory > 0 /\ DOMAIN h = 1..n
  BY <1>1, HistoryAssumption
<1>4. m \in 1..(n + 1)
  BY <1>3
<1>5. Latest(h) = t
  BY DEF Latest
<1> HIDE DEF m
<1>6. /\ t \in Seq(Entry) /\ Len(t) = n - m + 1
      /\ \A i \in 1..(n - m + 1) : t[i] = h[m + i - 1]
  BY <1>1, <1>3, <1>4, SubSeqProperties
<1>7. DOMAIN t = 1..(n - m + 1)
  BY <1>6
<1> HIDE DEF t, n
<1>8. \A i \in DOMAIN t : m + i - 1 \in DOMAIN h /\ t[i] = h[m + i - 1] /\ i \in Nat
  BY <1>3, <1>4, <1>6, <1>7
<1>9. \A i \in DOMAIN t : t[i].heuristic
  BY <1>2, <1>8 DEF FallbackInOrder
<1>10. ASSUME NEW i \in DOMAIN t, NEW j \in DOMAIN t, i < j
       PROVE  t[i].turn < t[j].turn
  <2>1. m + i - 1 < m + j - 1
    BY <1>3, <1>4, <1>8, <1>10
  <2> QED
    BY <1>2, <1>8, <2>1 DEF FallbackInOrder
<1> QED
  BY <1>5, <1>9, <1>10 DEF FallbackInOrder, h

(* One thread gains an entry, and the others stay as they are.             *)
LEMMA OrderKept ==
  ASSUME ConversationInv, NEW th \in Threads, NEW e \in Entry,
         turns' \in Nat, turns <= turns', e.turn <= turns',
         \A x \in Threads \ {th} : saved'[x] = saved[x] /\ fallback'[x] = fallback[x],
         \A x \in Threads : \A f \in Remembered(x)' : f \in Remembered(x) \/ (x = th /\ f = e),
         CheckpointsInOrder(saved'[th]), FallbackInOrder(fallback'[th])
  PROVE  TurnsInOrder'
<1>1. ASSUME NEW x \in Threads
      PROVE  CheckpointsInOrder(saved'[x]) /\ FallbackInOrder(fallback'[x])
  BY ThreadFacts
<1>2. ASSUME NEW x \in Threads, NEW f \in Remembered(x)'
      PROVE  f.turn <= turns'
  <2>1. CASE f = e
    BY <2>1
  <2>2. CASE f \in Remembered(x)
    <3>1. f \in ToSet(saved[x]) \/ f \in ToSet(fallback[x])
      BY <2>2 DEF Remembered
    <3>2. f \in Entry
      BY <3>1, ThreadFacts, ElementsTyped
    <3>3. f.turn <= turns
      BY <2>2 DEF ConversationInv, TurnsInOrder
    <3>4. f.turn \in Int /\ turns \in Int
      BY <3>2, ThreadFacts, HistoryAssumption DEF Entry
    <3> QED
      BY <3>3, <3>4
  <2> QED
    BY <1>2, <2>1, <2>2
<1> QED
  BY <1>1, <1>2 DEF TurnsInOrder, CheckpointsInOrder, FallbackInOrder

-----------------------------------------------------------------------------
(* The steps of a conversation.                                            *)

(* What a claim leaves as it is: a session that changes hands had nobody's *)
(* turns but those that outlived a clear.                                  *)
LEMMA ClaimFacts ==
  ASSUME ConversationInv, NEW a \in Actors, NEW th \in Threads, Claims(a, th)
  PROVE  /\ owner' \in [Threads -> Actors \cup {Nobody}] /\ owner'[th] = a
         /\ \A x \in Threads : \A e \in Remembered(x) : e.by = owner'[x] \/ e.orphan
         /\ \A r \in Rounds :
              round[r].at = "inferring" => round[r].actor = owner'[round[r].thread] \/ round[r].orphan
<1>1. /\ owner \in [Threads -> Actors \cup {Nobody}]
      /\ owner' = [owner EXCEPT ![th] = a] /\ owner[th] \in {Nobody, a}
      /\ saved \in [Threads -> Seq(Entry)] /\ fallback \in [Threads -> Seq(Entry)]
  BY DEF ConversationInv, ConversationTypeOK, Claims
<1>2. \A e \in Remembered(th) : e.by \in Actors
  <2>1. ToSet(saved[th]) \subseteq Entry /\ ToSet(fallback[th]) \subseteq Entry
    BY <1>1, ElementsTyped
  <2> QED
    BY <2>1 DEF Remembered, Entry
<1> QED
  BY <1>1, <1>2, NobodyAssumption
     DEF ConversationInv, OwnTurnsOnly, TurnsKnowTheirThreads

(* record_fallback_turn adds the entry to its thread, within the bound.    *)
LEMMA RecordFacts ==
  ASSUME ConversationInv, NEW th \in Threads, NEW e \in Entry, RecordFallback(th, e)
  PROVE  /\ fallback' \in [Threads -> Seq(Entry)]
         /\ \A x \in Threads : Len(fallback'[x]) <= MaxHistory
         /\ \A x \in Threads \ {th} : fallback'[x] = fallback[x]
         /\ ToSet(fallback'[th]) \subseteq ToSet(fallback[th]) \cup {e}
         /\ fallback'[th] = Latest(Append(fallback[th], e))
<1>1. /\ fallback \in [Threads -> Seq(Entry)]
      /\ \A x \in Threads : Len(fallback[x]) <= MaxHistory
  BY DEF ConversationInv, ConversationTypeOK
<1>2. Append(fallback[th], e) \in Seq(Entry)
  BY <1>1
<1>3. ToSet(Append(fallback[th], e)) = ToSet(fallback[th]) \cup {e}
  BY <1>1, AppendElements
<1> DEFINE l == Latest(Append(fallback[th], e))
<1>4. /\ l \in Seq(Entry) /\ Len(l) <= MaxHistory
      /\ ToSet(l) \subseteq ToSet(fallback[th]) \cup {e}
  BY <1>2, <1>3, LatestType
<1>5. fallback' = [fallback EXCEPT ![th] = l]
  BY DEF RecordFallback
<1> HIDE DEF l
<1>6. fallback'[th] = l
  BY <1>1, <1>5
<1> QED
  BY <1>1, <1>4, <1>5, <1>6 DEF l

(* A turn answered without the model.                                      *)
LEMMA HeuristicKeeps ==
  ASSUME ConversationInv, NEW a \in Actors, NEW th \in Threads, NEW q \in Queries,
         NEW s \in Answers, AskHeuristic(a, th, q, s)
  PROVE  ConversationInv'
<1> DEFINE e == [query |-> q, answer |-> s, by |-> a, turn |-> turns', orphan |-> FALSE,
                 heuristic |-> TRUE]
<1>1. /\ turns' \in 0..MaxTurns /\ Claims(a, th) /\ RecordFallback(th, e)
      /\ saved' = saved /\ round' = round /\ turns' = turns + 1
  BY HistoryAssumption DEF AskHeuristic, ConversationInv, ConversationTypeOK
<1>2. e \in Entry
  BY <1>1 DEF Entry
<1>3. e.by = a /\ e.heuristic /\ e.turn = turns'
  OBVIOUS
<1> HIDE DEF e
<1>4. ConversationTypeOK'
  BY <1>1, <1>2, ClaimFacts, RecordFacts DEF ConversationInv, ConversationTypeOK
<1>5. TurnsKnowTheirThreads'
  BY <1>1 DEF ConversationInv, TurnsKnowTheirThreads
<1>6. ASSUME NEW x \in Threads, NEW f \in Remembered(x)'
      PROVE  f \in Remembered(x) \/ (x = th /\ f = e)
  <2>1. /\ \A y \in Threads \ {th} : fallback'[y] = fallback[y]
        /\ ToSet(fallback'[th]) \subseteq ToSet(fallback[th]) \cup {e}
    BY <1>1, <1>2, RecordFacts
  <2>2. CASE x = th
    BY <1>1, <1>6, <2>1, <2>2 DEF Remembered
  <2>3. CASE x # th
    BY <1>1, <1>6, <2>1, <2>3 DEF Remembered
  <2> QED
    BY <2>2, <2>3
<1>7. OwnTurnsOnly'
  BY <1>1, <1>3, <1>6, ClaimFacts DEF OwnTurnsOnly
<1>8. FallbackInOrder(fallback'[th])
  <2>1. \A i \in DOMAIN fallback[th] : fallback[th][i].turn < e.turn
    <3>1. ASSUME NEW i \in DOMAIN fallback[th]
          PROVE  fallback[th][i].turn < e.turn
      <4>1. fallback[th][i] \in Entry /\ fallback[th][i].turn <= turns /\ turns \in Nat
        BY ThreadFacts
      <4>2. fallback[th][i].turn \in Int
        BY <4>1, HistoryAssumption DEF Entry
      <4> QED
        BY <1>1, <1>3, <4>1, <4>2
    <3> QED
      BY <3>1
  <2> QED
    <3>1. FallbackInOrder(fallback[th]) /\ fallback[th] \in Seq(Entry)
      BY ThreadFacts
    <3>2. FallbackInOrder(Latest(Append(fallback[th], e)))
      BY <1>2, <1>3, <2>1, <3>1, RecordedInOrder
    <3>3. fallback'[th] = Latest(Append(fallback[th], e))
      BY <1>1, <1>2, RecordFacts
    <3> QED
      BY <3>2, <3>3
<1>9. TurnsInOrder'
  <2>1. turns' \in Nat /\ turns <= turns' /\ e.turn <= turns'
    BY <1>1, <1>3, ThreadFacts
  <2>2. \A x \in Threads \ {th} : saved'[x] = saved[x] /\ fallback'[x] = fallback[x]
    BY <1>1, <1>2, RecordFacts
  <2>3. CheckpointsInOrder(saved'[th])
    BY <1>1, ThreadFacts
  <2> QED
    BY <1>2, <1>6, <1>8, <2>1, <2>2, <2>3, OrderKept
<1> QED
  BY <1>4, <1>5, <1>7, <1>9 DEF ConversationInv

(* A turn of the model begins.                                             *)
LEMMA AskKeeps ==
  ASSUME ConversationInv, NEW r \in Rounds, NEW a \in Actors, NEW th \in Threads,
         NEW q \in Queries, Ask(r, a, th, q)
  PROVE  ConversationInv'
<1> DEFINE e == [query |-> q, answer |-> Nobody, by |-> a, turn |-> 0, orphan |-> FALSE,
                 heuristic |-> FALSE]
<1> DEFINE t == saved[th] \o (IF saved[th] = <<>> THEN <<>> ELSE <<Last(saved[th])>>) \o <<e>>
<1> DEFINE new == [NoRound EXCEPT !.at = "inferring", !.actor = a, !.thread = th, !.query = q]
<1>1. /\ Claims(a, th) /\ saved' = [saved EXCEPT ![th] = t]
      /\ round' = [round EXCEPT ![r] = new]
      /\ fallback' = fallback /\ turns' = turns
  BY DEF Ask
<1>2. e \in Entry /\ e.by = a /\ e.turn = 0 /\ e.answer = Nobody /\ ~e.heuristic
  BY HistoryAssumption DEF Entry
<1>3. new \in Round /\ new.actor = a /\ new.thread = th /\ new.query = q
  BY DEF Round, NoRound
<1> HIDE DEF e, new
<1>4. /\ saved \in [Threads -> Seq(Entry)] /\ round \in [Rounds -> Round]
      /\ t \in Seq(Entry) /\ ToSet(t) \subseteq ToSet(saved[th]) \cup {e}
  BY <1>2, AskedElements DEF ConversationInv, ConversationTypeOK
<1>asked. CheckpointsInOrder(t)
  BY <1>2, ThreadFacts, AskedInOrder
<1> HIDE DEF t
<1>5. ConversationTypeOK'
  BY <1>1, <1>3, <1>4, ClaimFacts DEF ConversationInv, ConversationTypeOK
<1>6. TurnsKnowTheirThreads'
  BY <1>1, <1>3, <1>4 DEF ConversationInv, TurnsKnowTheirThreads
<1>7. ASSUME NEW x \in Threads, NEW f \in Remembered(x)'
      PROVE  f \in Remembered(x) \/ (x = th /\ f = e)
  BY <1>1, <1>4, <1>7 DEF Remembered
<1>8. ASSUME NEW d \in Rounds, round'[d].at = "inferring"
      PROVE  round'[d].actor = owner'[round'[d].thread] \/ round'[d].orphan
  BY <1>1, <1>3, <1>4, <1>8, ClaimFacts
<1>9. OwnTurnsOnly'
  BY <1>1, <1>2, <1>7, <1>8, ClaimFacts DEF OwnTurnsOnly
<1>10. TurnsInOrder'
  <2>1. turns' \in Nat /\ turns <= turns' /\ e.turn <= turns'
    BY <1>1, <1>2, ThreadFacts
  <2>2. /\ \A x \in Threads \ {th} : saved'[x] = saved[x] /\ fallback'[x] = fallback[x]
        /\ saved'[th] = t
    BY <1>1, <1>4
  <2>3. FallbackInOrder(fallback'[th])
    BY <1>1, ThreadFacts
  <2> QED
    BY <1>2, <1>7, <1>asked, <2>1, <2>2, <2>3, OrderKept
<1> QED
  BY <1>5, <1>6, <1>9, <1>10 DEF ConversationInv

(* A turn of the model ends, answered by the model or by the heuristic.    *)
LEMMA EndOfTurnKeeps ==
  ASSUME ConversationInv, NEW r \in Rounds, NEW s \in Answers, Answer(r, s) \/ FallBack(r, s)
  PROVE  ConversationInv'
<1> DEFINE th == round[r].thread
<1>1. /\ th \in Threads /\ round[r].actor \in Actors /\ round[r].query \in Queries
      /\ round[r].orphan \in BOOLEAN
      /\ round[r].actor = owner[th] \/ round[r].orphan
      /\ turns' \in 0..MaxTurns /\ turns' = turns + 1
      /\ owner' = owner /\ round' = [round EXCEPT ![r] = NoRound]
      /\ saved \in [Threads -> Seq(Entry)] /\ fallback \in [Threads -> Seq(Entry)]
      /\ round \in [Rounds -> Round]
  <2>1. round \in [Rounds -> Round] /\ turns \in 0..MaxTurns /\ MaxTurns \in Nat
    BY HistoryAssumption DEF ConversationInv, ConversationTypeOK
  <2>2. round[r].at = "inferring" /\ round[r].orphan \in BOOLEAN
    BY <2>1 DEF Answer, FallBack, Round
  <2>3. /\ th \in Threads /\ round[r].actor \in Actors /\ round[r].query \in Queries
        /\ round[r].actor = owner[th] \/ round[r].orphan
    BY <2>2 DEF ConversationInv, TurnsKnowTheirThreads, OwnTurnsOnly
  <2>4. /\ turns < MaxTurns /\ turns' = turns + 1 /\ owner' = owner
        /\ round' = [round EXCEPT ![r] = NoRound]
    BY DEF Answer, FallBack
  <2>5. turns' \in 0..MaxTurns
    BY <2>1, <2>4
  <2> QED
    BY <2>1, <2>2, <2>3, <2>4, <2>5 DEF ConversationInv, ConversationTypeOK
<1>2. PICK e \in Entry :
        /\ e.by = owner[th] \/ e.orphan
        /\ e.turn = turns'
        /\ \/ saved' = [saved EXCEPT ![th] = Append(@, e)] /\ fallback' = fallback /\ ~e.heuristic
           \/ RecordFallback(th, e) /\ saved' = saved /\ e.heuristic
  <2>1. ASSUME NEW h \in BOOLEAN
        PROVE  /\ Told(r, s, h) \in Entry
               /\ Told(r, s, h).by = owner[th] \/ Told(r, s, h).orphan
               /\ Told(r, s, h).turn = turns' /\ Told(r, s, h).heuristic = h
    BY <1>1 DEF Told, Entry
  <2> QED
    BY <2>1 DEF Answer, FallBack
<1>3. /\ saved' \in [Threads -> Seq(Entry)] /\ fallback' \in [Threads -> Seq(Entry)]
      /\ \A x \in Threads : Len(fallback'[x]) <= MaxHistory
      /\ \A x \in Threads : \A f \in Remembered(x)' : f \in Remembered(x) \/ (x = th /\ f = e)
  <2>1. CASE saved' = [saved EXCEPT ![th] = Append(@, e)] /\ fallback' = fallback
    <3>1. Append(saved[th], e) \in Seq(Entry)
          /\ ToSet(Append(saved[th], e)) = ToSet(saved[th]) \cup {e}
      BY <1>1, AppendElements
    <3> QED
      BY <1>1, <2>1, <3>1 DEF Remembered, ConversationInv, ConversationTypeOK
  <2>2. CASE RecordFallback(th, e) /\ saved' = saved
    BY <1>1, <2>2, RecordFacts DEF Remembered
  <2> QED
    BY <1>2, <2>1, <2>2
<1>4. NoRound \in Round /\ NoRound.at = "idle"
  BY DEF Round, NoRound
<1>5. ConversationTypeOK'
  BY <1>1, <1>3, <1>4 DEF ConversationInv, ConversationTypeOK
<1>6. TurnsKnowTheirThreads'
  BY <1>1, <1>4 DEF ConversationInv, TurnsKnowTheirThreads
<1>7. OwnTurnsOnly'
  BY <1>1, <1>2, <1>3, <1>4 DEF ConversationInv, OwnTurnsOnly
<1>8. TurnsInOrder'
  <2>1. turns' \in Nat /\ turns <= turns' /\ e.turn <= turns'
    BY <1>1, <1>2, ThreadFacts
  <2>2. ASSUME NEW f \in Entry, f.turn <= turns
        PROVE  f.turn < e.turn
    <3>1. f.turn \in Int /\ turns \in Int /\ e.turn = turns + 1
      BY <1>1, <1>2, ThreadFacts, HistoryAssumption DEF Entry
    <3> QED
      BY <2>2, <3>1
  <2>3. /\ \A i \in DOMAIN saved[th] : saved[th][i].turn < e.turn
        /\ \A i \in DOMAIN fallback[th] : fallback[th][i].turn < e.turn
    BY <1>1, <2>2, ThreadFacts
  <2>4. CASE saved' = [saved EXCEPT ![th] = Append(@, e)] /\ fallback' = fallback /\ ~e.heuristic
    <3>1. CheckpointsInOrder(Append(saved[th], e))
      BY <1>1, <1>2, <2>3, <2>4, ThreadFacts, CheckpointInOrder
    <3>2. /\ saved'[th] = Append(saved[th], e)
          /\ \A x \in Threads \ {th} : saved'[x] = saved[x] /\ fallback'[x] = fallback[x]
      BY <1>1, <2>4
    <3>3. FallbackInOrder(fallback'[th])
      BY <1>1, <2>4, ThreadFacts
    <3> QED
      BY <1>1, <1>3, <2>1, <3>1, <3>2, <3>3, OrderKept
  <2>5. CASE RecordFallback(th, e) /\ saved' = saved /\ e.heuristic
    <3>1. /\ fallback'[th] = Latest(Append(fallback[th], e))
          /\ \A x \in Threads \ {th} : saved'[x] = saved[x] /\ fallback'[x] = fallback[x]
      BY <1>1, <2>5, RecordFacts
    <3>2. FallbackInOrder(fallback'[th])
      <4>1. FallbackInOrder(fallback[th]) /\ fallback[th] \in Seq(Entry)
        BY <1>1, ThreadFacts
      <4>2. FallbackInOrder(Latest(Append(fallback[th], e)))
        BY <2>3, <2>5, <4>1, RecordedInOrder
      <4> QED
        BY <3>1, <4>2
    <3>3. CheckpointsInOrder(saved'[th])
      BY <1>1, <2>5, ThreadFacts
    <3> QED
      BY <1>1, <1>3, <2>1, <3>1, <3>2, <3>3, OrderKept
  <2> QED
    BY <1>2, <2>4, <2>5
<1> QED
  BY <1>5, <1>6, <1>7, <1>8 DEF ConversationInv

(* A conversation is cleared: what is still in flight is an orphan now.    *)
LEMMA ClearKeeps ==
  ASSUME ConversationInv, NEW a \in Actors, NEW th \in Threads, Clear(a, th)
  PROVE  ConversationInv'
<1>1. <<>> \in Seq(Entry) /\ ToSet(<<>>) = {} /\ Len(<<>>) = 0 /\ MaxHistory \in Nat
  BY HistoryAssumption DEF ToSet
<1>2. /\ owner \in [Threads -> Actors \cup {Nobody}]
      /\ saved \in [Threads -> Seq(Entry)] /\ fallback \in [Threads -> Seq(Entry)]
      /\ round \in [Rounds -> Round] /\ turns' = turns
      /\ saved' = [saved EXCEPT ![th] = <<>>] /\ fallback' = [fallback EXCEPT ![th] = <<>>]
      /\ owner' = [owner EXCEPT ![th] = Nobody]
  BY DEF ConversationInv, ConversationTypeOK, Clear
<1>3. round' = [r \in Rounds |-> IF round[r].thread = th THEN [round[r] EXCEPT !.orphan = TRUE]
                                                       ELSE round[r]]
  BY DEF Clear
<1>4. ASSUME NEW r \in Rounds
      PROVE  /\ round'[r] \in Round
             /\ round'[r].at = round[r].at /\ round'[r].actor = round[r].actor
             /\ round'[r].thread = round[r].thread /\ round'[r].query = round[r].query
             /\ round'[r].orphan = (round[r].orphan \/ round[r].thread = th)
  BY <1>2, <1>3 DEF Round
<1>5. ConversationTypeOK'
  <2>1. round' \in [Rounds -> Round]
    BY <1>3, <1>4
  <2> QED
    BY <1>1, <1>2, <2>1 DEF ConversationInv, ConversationTypeOK
<1>6. TurnsKnowTheirThreads'
  BY <1>4 DEF ConversationInv, TurnsKnowTheirThreads
<1>7. \A x \in Threads : \A f \in Remembered(x)' : f.by = owner'[x] \/ f.orphan
  BY <1>1, <1>2 DEF Remembered, ConversationInv, OwnTurnsOnly
<1>8. OwnTurnsOnly'
  BY <1>2, <1>4, <1>7 DEF ConversationInv, OwnTurnsOnly, TurnsKnowTheirThreads
<1>9. TurnsInOrder'
  BY <1>1, <1>2
     DEF ConversationInv, TurnsInOrder, CheckpointsInOrder, FallbackInOrder, Remembered
<1> QED
  BY <1>5, <1>6, <1>8, <1>9 DEF ConversationInv

(* A process that has just started remembers nothing.                      *)
LEMMA BlankConversation ==
  /\ ConversationInit => ConversationInv
  /\ ConversationInv /\ Forget => ConversationInv'
<1>1. <<>> \in Seq(Entry) /\ ToSet(<<>>) = {} /\ Len(<<>>) = 0
      /\ MaxHistory \in Nat /\ MaxTurns \in Nat
  BY HistoryAssumption DEF ToSet
<1>2. NoRound \in Round /\ NoRound.at = "idle"
  BY DEF Round, NoRound
<1>3. ConversationInit => ConversationInv
  BY <1>1, <1>2 DEF ConversationInit, ConversationInv, ConversationTypeOK, TurnsKnowTheirThreads,
                    OwnTurnsOnly, Remembered, TurnsInOrder, CheckpointsInOrder,
                    FallbackInOrder
<1>4. ConversationInv /\ Forget => ConversationInv'
  BY <1>1, <1>2 DEF Forget, ConversationInv, ConversationTypeOK, TurnsKnowTheirThreads,
                    OwnTurnsOnly, Remembered, TurnsInOrder, CheckpointsInOrder,
                    FallbackInOrder
<1> QED
  BY <1>3, <1>4

-----------------------------------------------------------------------------
(* The requests.                                                           *)

(* The second boundary leaves nothing that is not readable: it drops what  *)
(* takes a permission the actor lacks, and the one field it never drops is *)
(* only ever fetched for an actor who may read sessions.                   *)
LEMMA BoundaryLeavesReadable ==
  ASSUME NEW held, NEW fields \in SUBSET Field,
         "live_table_session" \in fields => Has(held, "session.read")
  PROVE  Boundary(held, fields) \subseteq Readable(held)
  BY DEF Boundary, Readable, Field, Takes

(* What each source of a context may hold.                                 *)
LEMMA SourcesFit ==
  ASSUME NEW held
  PROVE  /\ \A visit \in BOOLEAN : RouteAnswers(held, visit) =>
              /\ RouteContext(held, visit) \subseteq Field
              /\ "live_table_session" \in RouteContext(held, visit) => Has(held, "session.read")
         /\ Fixture \subseteq Field \ {"live_table_session"}
<1>1. ASSUME NEW visit \in BOOLEAN, RouteAnswers(held, visit)
      PROVE  /\ RouteContext(held, visit) \subseteq Field
             /\ "live_table_session" \in RouteContext(held, visit) => Has(held, "session.read")
  BY <1>1 DEF RouteContext, RouteAnswers, Given, Field, Takes
<1> QED
  BY <1>1 DEF Fixture, Field, Takes

DoorsInv == RequestsKnowTheirActors /\ ToldOnlyWhatMayBeRead

(* A request learns of the restaurant when its context is resolved, and of *)
(* nothing more later.                                                     *)
LEMMA ResolveKeeps ==
  ASSUME DoorsInv, NEW r \in Rounds, NEW visit \in BOOLEAN, Resolve(r, visit)
  PROVE  DoorsInv'
<1> DEFINE held == Held[request[r].actor]
<1>1. PICK fields \in SUBSET Field, degraded \in BOOLEAN :
        /\ Resolved(r, fields, degraded)
        /\ "live_table_session" \in fields => Has(held, "session.read")
  <2> HIDE DEF held
  <2>1. /\ \A v \in BOOLEAN : RouteAnswers(held, v) =>
             /\ RouteContext(held, v) \subseteq Field
             /\ "live_table_session" \in RouteContext(held, v) => Has(held, "session.read")
        /\ Fixture \subseteq Field \ {"live_table_session"}
    BY SourcesFit
  <2>2. \/ RouteAnswers(held, visit) /\ Resolved(r, RouteContext(held, visit), FALSE)
        \/ Resolved(r, Fixture, FALSE)
        \/ Resolved(r, {}, TRUE)
    BY DEF Resolve, Fetched, held
  <2>3. \E fields \in SUBSET Field :
          /\ \E degraded \in BOOLEAN : Resolved(r, fields, degraded)
          /\ "live_table_session" \in fields => Has(held, "session.read")
    <3>1. CASE RouteAnswers(held, visit) /\ Resolved(r, RouteContext(held, visit), FALSE)
      BY <2>1, <3>1
    <3>2. CASE Resolved(r, Fixture, FALSE)
      BY <2>1, <3>2
    <3>3. CASE Resolved(r, {}, TRUE)
      <4>1. {} \in SUBSET Field /\ "live_table_session" \notin {} /\ TRUE \in BOOLEAN
        OBVIOUS
      <4> QED
        BY <3>3, <4>1
    <3> QED
      BY <2>2, <3>1, <3>2, <3>3
  <2> QED
    BY <2>3 DEF held
<1> DEFINE context == Boundary(held, fields)
<1>2. context \subseteq Readable(held) /\ context \subseteq Field
  BY <1>1, BoundaryLeavesReadable DEF Boundary
<1> HIDE DEF context
<1>3. /\ request[r].at = "fetching" /\ request \in [Rounds -> Request]
      /\ request[r].actor \in Actors
  BY DEF Resolve, DoorsInv, RequestsKnowTheirActors
<1>4. request' = [request EXCEPT ![r].at = "resolved", ![r].degraded = degraded,
                                 ![r].context = context]
  BY <1>1 DEF Resolved, context
<1>5. /\ request'[r] \in Request /\ request'[r].actor = request[r].actor
      /\ request'[r].context = context
      /\ \A d \in Rounds \ {r} : request'[d] = request[d]
      /\ DOMAIN request' = Rounds
  BY <1>2, <1>3, <1>4, ZenonT(40) DEF Request
<1>6. request' \in [Rounds -> Request]
  BY <1>3, <1>4, <1>5
<1> QED
  BY <1>2, <1>3, <1>5, <1>6 DEF DoorsInv, RequestsKnowTheirActors, ToldOnlyWhatMayBeRead

(* Arrivals, turns, departures: a context is carried along or dropped.     *)
LEMMA DoorsKeep ==
  ASSUME DoorsInv,
         \/ \E r \in Rounds, door \in Door, a \in Actors : Arrive(r, door, a)
         \/ \E r \in Rounds, th \in Threads, q \in Queries : Begin(r, th, q)
         \/ \E r \in Rounds : Conclude(r) \/ Drop(r)
         \/ RestartProcess
  PROVE  DoorsInv'
<1>1. request \in [Rounds -> Request]
  BY DEF DoorsInv, RequestsKnowTheirActors
<1>2. NoRequest \in Request /\ NoRequest.at = "none" /\ NoRequest.context = {}
  BY DEF NoRequest, Request
<1>3. ASSUME NEW r \in Rounds, request' = [request EXCEPT ![r] = NoRequest]
      PROVE  DoorsInv'
  BY <1>1, <1>2, <1>3 DEF DoorsInv, RequestsKnowTheirActors, ToldOnlyWhatMayBeRead
<1>4. ASSUME NEW r \in Rounds, NEW door \in Door, NEW a \in Actors, Arrive(r, door, a)
      PROVE  DoorsInv'
  <2> DEFINE new == [NoRequest EXCEPT !.at = "fetching", !.door = door, !.actor = a]
  <2>1. new \in Request /\ new.actor = a /\ new.context = {}
    BY DEF NoRequest, Request
  <2> HIDE DEF new
  <2>2. request' = [request EXCEPT ![r] = new]
    BY <1>4 DEF Arrive, new
  <2> QED
    BY <1>1, <2>1, <2>2 DEF DoorsInv, RequestsKnowTheirActors, ToldOnlyWhatMayBeRead
<1>5. ASSUME NEW r \in Rounds, NEW th \in Threads, NEW q \in Queries, Begin(r, th, q)
      PROVE  DoorsInv'
  <2>1. CASE request' = [request EXCEPT ![r] = NoRequest]
    BY <1>3, <2>1
  <2>2. CASE request' = [request EXCEPT ![r].at = "inferring", ![r].context = {},
                                        ![r].degraded = FALSE]
    <3>1. /\ request'[r] \in Request /\ request'[r].actor = request[r].actor
          /\ request'[r].context = {} /\ request[r].at # "none"
          /\ \A d \in Rounds \ {r} : request'[d] = request[d]
          /\ DOMAIN request' = Rounds
      BY <1>1, <1>5, <2>2, ZenonT(40) DEF Request, Begin
    <3>2. request' \in [Rounds -> Request]
      BY <1>1, <2>2, <3>1
    <3> QED
      BY <3>1, <3>2 DEF DoorsInv, RequestsKnowTheirActors, ToldOnlyWhatMayBeRead
  <2> QED
    BY <1>5, <2>1, <2>2 DEF Begin
<1>6. ASSUME RestartProcess
      PROVE  DoorsInv'
  BY <1>2, <1>6 DEF RestartProcess, DoorsInv, RequestsKnowTheirActors, ToldOnlyWhatMayBeRead
<1> QED
  BY <1>3, <1>4, <1>5, <1>6 DEF Conclude, Drop

(* What a step of the assistant does to its conversations.                 *)
LEMMA ConversationsKept ==
  ASSUME ConversationInv, DoorsInv, AssistantNext
  PROVE  ConversationInv'
<1>1. CASE UNCHANGED conversationVars
  BY <1>1 DEF conversationVars, ConversationInv, ConversationTypeOK, TurnsKnowTheirThreads,
              OwnTurnsOnly, Remembered, TurnsInOrder, CheckpointsInOrder, FallbackInOrder
<1>2. ASSUME NEW r \in Rounds, NEW th \in Threads, NEW q \in Queries, Begin(r, th, q)
      PROVE  ConversationInv'
  <2>1. request[r].actor \in Actors
    BY <1>2 DEF Begin, DoorsInv, RequestsKnowTheirActors
  <2> QED
    BY <1>1, <1>2, <2>1, HeuristicKeeps, AskKeeps DEF Begin
<1>3. ASSUME NEW r \in Rounds, Conclude(r)
      PROVE  ConversationInv'
  BY <1>3, EndOfTurnKeeps DEF Conclude
<1>4. ASSUME NEW a \in Actors, NEW th \in Threads, ClearHistory(a, th)
      PROVE  ConversationInv'
  BY <1>4, ClearKeeps DEF ClearHistory
<1>5. ASSUME NEW r \in Rounds, Drop(r)
      PROVE  ConversationInv'
  <2>1. NoRound \in Round /\ NoRound.at = "idle"
    BY DEF NoRound, Round
  <2>2. /\ round' = [round EXCEPT ![r] = NoRound]
        /\ UNCHANGED <<owner, saved, fallback, turns>>
    BY <1>5 DEF Drop
  <2> QED
    BY <2>1, <2>2 DEF ConversationInv, ConversationTypeOK, TurnsKnowTheirThreads, OwnTurnsOnly,
                      Remembered, TurnsInOrder, CheckpointsInOrder, FallbackInOrder
<1>6. ASSUME RestartProcess
      PROVE  ConversationInv'
  BY <1>6, BlankConversation DEF RestartProcess
<1> QED
  BY <1>1, <1>2, <1>3, <1>4, <1>5, <1>6
     DEF AssistantNext, Refuse, Arrive, Resolve, TimePasses, doorVars

(* The inductive invariant: what is kept, what is in flight, and what each *)
(* request has been told.                                                  *)
LEMMA AssistantInvariant == AssistantSpec => [](ConversationInv /\ DoorsInv)
<1>1. AssistantInit => ConversationInv /\ DoorsInv
  <2>1. NoRequest \in Request /\ NoRequest.at = "none"
    BY DEF NoRequest, Request
  <2> QED
    BY <2>1, BlankConversation
       DEF AssistantInit, DoorsInv, RequestsKnowTheirActors, ToldOnlyWhatMayBeRead
<1>2. ConversationInv /\ DoorsInv /\ [AssistantNext]_assistantVars => (ConversationInv /\ DoorsInv)'
  <2> SUFFICES ASSUME ConversationInv, DoorsInv, [AssistantNext]_assistantVars
               PROVE  ConversationInv' /\ DoorsInv'
    OBVIOUS
  <2>1. CASE UNCHANGED <<conversationVars, doorVars>>
    BY <2>1 DEF conversationVars, doorVars, ConversationInv, ConversationTypeOK,
                TurnsKnowTheirThreads, OwnTurnsOnly, Remembered, TurnsInOrder,
                CheckpointsInOrder, FallbackInOrder, DoorsInv,
                RequestsKnowTheirActors, ToldOnlyWhatMayBeRead
  <2>2. CASE AssistantNext
    <3>1. ConversationInv'
      BY <2>2, ConversationsKept
    <3>2. ASSUME UNCHANGED request PROVE DoorsInv'
      BY <3>2 DEF DoorsInv, RequestsKnowTheirActors, ToldOnlyWhatMayBeRead
    <3>3. DoorsInv'
      BY <2>2, <3>2, ResolveKeeps, DoorsKeep
         DEF AssistantNext, Refuse, ClearHistory, TimePasses, doorVars
    <3> QED
      BY <3>1, <3>3
  <2>3. CASE UNCHANGED assistantVars
    <3>1. UNCHANGED <<conversationVars, doorVars>>
      BY <2>3 DEF assistantVars
    <3> QED
      BY <2>1, <3>1
  <2> QED
    BY <2>2, <2>3
<1> QED
  BY <1>1, <1>2, PTL DEF AssistantSpec

(* What the assistant keeps of conversations, after any requests, clears,  *)
(* dropped streams and restarts: typed and bounded, of known threads, its  *)
(* owner's, and in the order of the turns.                                 *)
THEOREM ConversationInvariant == AssistantSpec => []ConversationInv
  BY AssistantInvariant, PTL

(* Whatever was asked, cleared, dropped or restarted, the history a client *)
(* reads lists each turn once, the turns of the model in their order and   *)
(* then those of the heuristic in theirs.                                  *)
THEOREM HistoriesAreInOrder == AssistantSpec => []HistoryInOrder
<1>1. ConversationInv => HistoryInOrder
  BY ThreadFacts, HistoryListed DEF HistoryInOrder
<1> QED
  BY <1>1, ConversationInvariant, PTL

(* To the limiter, the assistant is a caller among others: every step of a *)
(* request is a call of it, a tick, a restart, or no step of it at all.    *)
THEOREM AssistantKeepsTheLimiter == AssistantSpec => LimiterSpec
<1>1. AssistantInit => LimiterInit
  BY DEF AssistantInit
<1>2. [AssistantNext]_assistantVars => [LimiterNext]_limiterVars
  <2> SUFFICES ASSUME [AssistantNext]_assistantVars PROVE [LimiterNext]_limiterVars
    OBVIOUS
  <2>1. ASSUME NEW door \in Door, NEW a \in Actors
        PROVE  Key(door, a) \in Keys
    BY AssistantAssumption DEF Key
  <2>2. ASSUME NEW door \in Door, NEW a \in Actors, NEW r \in Rounds,
               Refuse(door, a) \/ Arrive(r, door, a)
        PROVE  LimiterNext
    BY <2>1, <2>2 DEF Refuse, Arrive, LimiterNext
  <2>3. ASSUME NEW door \in Door, NEW a \in Actors, Refuse(door, a)
        PROVE  LimiterNext
    BY <2>1, <2>3 DEF Refuse, LimiterNext
  <2>4. ASSUME NEW r \in Rounds,
               \/ \E visit \in BOOLEAN : Resolve(r, visit)
               \/ \E th \in Threads, q \in Queries : Begin(r, th, q)
               \/ Conclude(r) \/ Drop(r)
        PROVE  UNCHANGED limiterVars
    BY <2>4 DEF Resolve, Begin, Conclude, Drop
  <2>5. CASE TimePasses \/ RestartProcess
    BY <2>5 DEF TimePasses, RestartProcess, LimiterNext
  <2>6. CASE UNCHANGED assistantVars
    BY <2>6 DEF assistantVars
  <2> QED
    BY <2>2, <2>3, <2>4, <2>5, <2>6 DEF AssistantNext, ClearHistory
<1> QED
  BY <1>1, <1>2, PTL DEF AssistantSpec, LimiterSpec

(* So neither door admits a user twice the limit within a window's length, *)
(* and neither turns one away before the limit is used up.                 *)
THEOREM TheDoorsAreLimited ==
  AssistantSpec => [](LimiterInv /\ LessThanTwice /\ RefusalsAreDeserved)
  BY AssistantKeepsTheLimiter, LimiterInvariant, NeverTwiceTheLimit, NobodyIsTurnedAwayEarly, PTL

(* And to its users the limiter behind the doors is the rules of RateRules. *)
THEOREM TheDoorsKeepTheRules == AssistantSpec => LimiterKeepsRules
  BY AssistantKeepsTheLimiter, LimiterImplementsRules, PTL

(* Whoever asks at whichever door, whatever is cleared, dropped or         *)
(* restarted meanwhile, a session holds its owner's turns and those that   *)
(* were in flight when it was cleared.                                     *)
THEOREM TurnsStayWithTheirOwners == AssistantSpec => []OwnTurnsOnly
<1>1. ConversationInv => OwnTurnsOnly
  BY DEF ConversationInv
<1> QED
  BY <1>1, AssistantInvariant, PTL

(* No request of an actor, whatever its permissions and wherever its       *)
(* context came from, is told what a tool would not have told it.          *)
THEOREM NobodyIsToldMore == AssistantSpec => []ToldOnlyWhatMayBeRead
<1>1. DoorsInv => ToldOnlyWhatMayBeRead
  BY DEF DoorsInv
<1> QED
  BY <1>1, AssistantInvariant, PTL
=============================================================================
