-------------------------- MODULE EventLoopProofs --------------------------
(* A snapshot describes the waits of its interval, and its percentiles are   *)
(* the nearest-rank percentiles, for batches of any size and intervals of    *)
(* any length.                                                               *)
EXTENDS EventLoop, FiniteSetTheorems, WellFoundedInduction, TLAPS

-----------------------------------------------------------------------------
(* Numbers.                                                                  *)

LEMMA LeastNumber ==
  ASSUME NEW S \in SUBSET Nat, S # {}
  PROVE  \E n \in S : \A m \in S : n <= m
<1>1. PICK n \in S : \A m \in S : ~(<<m, n>> \in OpToRel(<, Nat))
  BY NatLessThanWellFounded, WFMin, Zenon
<1>2. ASSUME NEW m \in S, ~(n <= m)
      PROVE  FALSE
  <2>1. m \in Nat /\ n \in Nat /\ m < n
    BY <1>2
  <2>2. <<m, n>> \in OpToRel(<, Nat)
    BY <2>1 DEF OpToRel
  <2> QED BY <1>1, <2>2
<1> QED BY <1>2

LEMMA GreatestNumber ==
  ASSUME NEW top \in Nat, NEW S \in SUBSET 0..top, S # {}
  PROVE  \E n \in S : \A m \in S : m <= n
<1> DEFINE Below == {n \in 0..top : top - n \in S}
<1>1. Below \in SUBSET Nat /\ Below # {}
  <2>1. PICK n \in S : TRUE
    OBVIOUS
  <2>2. top - n \in 0..top /\ top - (top - n) = n
    OBVIOUS
  <2>3. top - n \in Below
    BY <2>2
  <2>4. Below \in SUBSET Nat
    OBVIOUS
  <2> HIDE DEF Below
  <2> QED BY <2>3, <2>4
<1>2. PICK b \in Below : \A m \in Below : b <= m
  BY <1>1, LeastNumber
<1>3. ASSUME NEW m \in S
      PROVE  m <= top - b
  <2>1. m \in 0..top /\ top - (top - m) = m /\ top - m \in 0..top
    OBVIOUS
  <2>2. top - m \in Below
    BY <2>1
  <2>3. b <= top - m
    BY <1>2, <2>2
  <2> QED BY <2>1, <2>3
<1> QED BY <1>2, <1>3

(* The rank is the least number that is at least percent of the waits.       *)
LEMMA RankIsCeiling ==
  ASSUME NEW percent \in {50, 95}, NEW waits \in Nat, waits > 0, NEW n \in Nat
  PROVE  n >= rank(percent, waits) <=> 100 * n >= percent * waits
<1>1. CASE percent = 50
  BY <1>1 DEF rank
<1>2. CASE percent = 95
  BY <1>2 DEF rank
<1> QED BY <1>1, <1>2

LEMMA RankIsPositive ==
  ASSUME NEW percent \in {50, 95}, NEW waits \in Nat
  PROVE  rank(percent, waits) \in Nat /\ rank(percent, waits) >= 1
<1>1. CASE percent = 50
  BY <1>1 DEF rank
<1>2. CASE percent = 95
  BY <1>2 DEF rank
<1> QED BY <1>1, <1>2

-----------------------------------------------------------------------------
(* The waits of an interval, as a set of pairs.                              *)

AtMost(s, n) == {w \in Waits(s) : w[1] <= n}

Samples == [1..MaxReady -> Nat]

LEMMA WaitIsPair ==
  ASSUME NEW s \in Samples, NEW w
  PROVE  w \in Waits(s) <=> \E n \in 1..MaxReady : \E i \in 1..s[n] : w = <<n, i>>
BY DEF Waits, Samples

LEMMA PairIsWait ==
  ASSUME NEW s \in Samples, NEW n \in 1..MaxReady, NEW i
  PROVE  <<n, i>> \in Waits(s) <=> i \in 1..s[n]
BY WaitIsPair

LEMMA EventIsPair ==
  ASSUME NEW s \in Samples, NEW e
  PROVE  e \in Events(s) <=> \E w \in Waits(s) : \E j \in 1..w[1] : e = <<w, j>>
<1>1. e \in Events(s)
        <=> \E n \in 1..MaxReady : \E i \in 1..s[n] : \E j \in 1..n : e = <<<<n, i>>, j>>
  BY DEF Events, Samples
<1> QED BY <1>1, WaitIsPair

LEMMA NoWaits ==
  /\ NoSamples \in Samples
  /\ Waits(NoSamples) = {}
  /\ Events(NoSamples) = {}
<1>1. NoSamples \in Samples /\ DOMAIN NoSamples = 1..MaxReady
  BY DEF NoSamples, Samples
<1>2. \A n \in 1..MaxReady : 1..NoSamples[n] = {}
  BY DEF NoSamples
<1>3. Waits(NoSamples) = {}
  BY <1>1, <1>2 DEF Waits
<1>4. Events(NoSamples) = {}
  BY <1>1, <1>2 DEF Events
<1> QED BY <1>1, <1>3, <1>4

GrowsBy(t, s, w, events) ==
  /\ t \in Samples
  /\ Waits(t) = Waits(s) \cup {w}
  /\ w \notin Waits(s)
  /\ Events(t) = Events(s) \cup events
  /\ Events(s) \cap events = {}

(* One more wait with n events.                                              *)
LEMMA OneMoreWait ==
  ASSUME NEW s \in Samples, NEW n \in 1..MaxReady
  PROVE  GrowsBy([s EXCEPT ![n] = s[n] + 1], s, <<n, s[n] + 1>>,
                 {<<n, s[n] + 1>>} \X (1..n))
<1> DEFINE t == [s EXCEPT ![n] = s[n] + 1]
<1>1. s[n] \in Nat /\ DOMAIN s = 1..MaxReady
  BY DEF Samples
<1>2. t \in Samples /\ t[n] = s[n] + 1
      /\ \A m \in 1..MaxReady : m # n => t[m] = s[m]
  BY <1>1 DEF Samples
<1>3. 1..(s[n] + 1) = (1..s[n]) \cup {s[n] + 1}
  BY <1>1
<1> HIDE DEF t
<1>4. ASSUME NEW w
      PROVE  w \in Waits(t) <=> w \in Waits(s) \/ w = <<n, s[n] + 1>>
  BY <1>2, <1>3, WaitIsPair
<1>5. Waits(t) = Waits(s) \cup {<<n, s[n] + 1>>}
  BY <1>4
<1>6. <<n, s[n] + 1>> \notin Waits(s)
  <2>1. s[n] + 1 \notin 1..s[n]
    BY <1>1
  <2> QED BY <2>1, PairIsWait
<1>7. ASSUME NEW e
      PROVE  e \in Events(t) <=> e \in Events(s) \/ e \in {<<n, s[n] + 1>>} \X (1..n)
  BY <1>2, <1>5, EventIsPair
<1>8. Events(t) = Events(s) \cup {<<n, s[n] + 1>>} \X (1..n)
  BY <1>7
<1>9. Events(s) \cap ({<<n, s[n] + 1>>} \X (1..n)) = {}
  BY <1>6, EventIsPair
<1> QED BY <1>2, <1>5, <1>6, <1>8, <1>9 DEF t, GrowsBy
-----------------------------------------------------------------------------
(* The histogram counts the samples.                                         *)

(* h is the histogram of s up to `top', the largest sample there was; its    *)
(* entry 0 counts nothing, since wait() never returns without an event.      *)
HistogramUpTo(h, s, top) ==
  /\ h \in [0..top -> Nat]
  /\ \A n \in 1..MaxReady : s[n] = IF n <= top THEN h[n] ELSE 0
  /\ top >= 0 => h[0] = 0

Histogram(h, s) == \E top \in -1..MaxReady : HistogramUpTo(h, s, top)

Metrics ==
  [active : BOOLEAN, waitCalls : Nat, totalEvents : Nat, fullEventBatches : Nat,
   eventsPerWait : UNION {[0..top -> Nat] : top \in -1..MaxReady}]

(* What the counters have to do with the samples.                            *)
Counted(m, s) ==
  /\ IsFiniteSet(Waits(s))
  /\ IsFiniteSet(Events(s))
  /\ m.waitCalls = Cardinality(Waits(s))
  /\ m.totalEvents = Cardinality(Events(s))
  /\ m.fullEventBatches = s[MaxReady]
  /\ Histogram(m.eventsPerWait, s)

LEMMA AtMostGrows ==
  ASSUME NEW s \in Samples, IsFiniteSet(Waits(s)), NEW n \in 1..MaxReady
  PROVE  /\ Cardinality(AtMost(s, n)) \in Nat
         /\ Cardinality(AtMost(s, n - 1)) \in Nat
         /\ Cardinality(AtMost(s, n)) = s[n] + Cardinality(AtMost(s, n - 1))
<1>1. s[n] \in Nat
  BY DEF Samples
<1>2. IsFiniteSet(AtMost(s, n - 1)) /\ IsFiniteSet(AtMost(s, n))
  BY FS_Subset DEF AtMost
<1>3. AtMost(s, n) = AtMost(s, n - 1) \cup ({n} \X (1..s[n]))
  BY WaitIsPair DEF AtMost
<1>4. AtMost(s, n - 1) \cap ({n} \X (1..s[n])) = {}
  BY DEF AtMost
<1>5. IsFiniteSet({n}) /\ Cardinality({n}) = 1
  BY FS_Singleton
<1>6. IsFiniteSet(1..s[n]) /\ Cardinality(1..s[n]) = s[n]
  <2>1. PICK k \in Nat : k = s[n]
    BY <1>1
  <2>2. 1 \in Int /\ k \in Int
    OBVIOUS
  <2>3. IsFiniteSet(1..k) /\ Cardinality(1..k) = IF 1 > k THEN 0 ELSE k - 1 + 1
    BY <2>2, FS_Interval
  <2>4. Cardinality(1..k) = k
    BY <2>3
  <2> QED BY <2>1, <2>3, <2>4
<1>7. IsFiniteSet({n} \X (1..s[n])) /\ Cardinality({n} \X (1..s[n])) = 1 * s[n]
  BY <1>5, <1>6, FS_Product, ZenonT(60)
<1>8. Cardinality({}) = 0
  BY FS_EmptySet
<1>9. Cardinality(AtMost(s, n)) = Cardinality(AtMost(s, n - 1)) + 1 * s[n] - 0
  BY <1>2, <1>3, <1>4, <1>7, <1>8, FS_Union
<1>10. Cardinality(AtMost(s, n - 1)) \in Nat /\ Cardinality(AtMost(s, n)) \in Nat
  BY <1>2, FS_CardinalityType
<1> QED BY <1>1, <1>9, <1>10

LEMMA AtMostEnds ==
  ASSUME NEW s \in Samples, IsFiniteSet(Waits(s))
  PROVE  /\ Cardinality(AtMost(s, 0)) = 0
         /\ \A n \in 0..MaxReady : /\ Cardinality(AtMost(s, n)) \in Nat
                                   /\ Cardinality(AtMost(s, n)) <= Cardinality(Waits(s))
         /\ \A n \in 0..MaxReady : (\A k \in 1..MaxReady : k > n => s[k] = 0)
                                   => AtMost(s, n) = Waits(s)
<1>1. AtMost(s, 0) = {}
  BY WaitIsPair DEF AtMost
<1>2. ASSUME NEW n \in 0..MaxReady
      PROVE  /\ Cardinality(AtMost(s, n)) \in Nat
             /\ Cardinality(AtMost(s, n)) <= Cardinality(Waits(s))
  <2>1. AtMost(s, n) \in SUBSET Waits(s)
    BY DEF AtMost
  <2>2. IsFiniteSet(AtMost(s, n))
    BY <2>1, FS_Subset
  <2> QED BY <2>1, <2>2, FS_Subset, FS_CardinalityType
<1>3. ASSUME NEW n \in 0..MaxReady, \A k \in 1..MaxReady : k > n => s[k] = 0
      PROVE  AtMost(s, n) = Waits(s)
  BY <1>3, WaitIsPair DEF AtMost
<1> QED BY <1>1, <1>2, <1>3, FS_EmptySet

(* The running total of the loop is the number of waits so far.              *)
LEMMA SeenCounts ==
  ASSUME NEW s \in Samples, IsFiniteSet(Waits(s)),
         NEW top \in 0..MaxReady, NEW h, HistogramUpTo(h, s, top)
  PROVE  \A value \in 0..top : Seen(h)[value] = Cardinality(AtMost(s, value))
<1> DEFINE Total(f) == [value \in DOMAIN h |->
                         h[value] + (IF value = 0 THEN 0 ELSE f[value - 1])]
           count == [value \in 0..top |-> Cardinality(AtMost(s, value))]
           f == Seen(h)
<1>1. DOMAIN h = 0..top
  BY DEF HistogramUpTo
<1>2. ASSUME NEW value \in 0..top
      PROVE  count[value] = h[value] + (IF value = 0 THEN 0 ELSE count[value - 1])
  <2>1. CASE value = 0
    BY <2>1, AtMostEnds DEF HistogramUpTo
  <2>2. CASE value # 0
    <3>1. value \in 1..MaxReady /\ value - 1 \in 0..top
      BY <2>2, LoopConstants
    <3>2. s[value] = h[value]
      BY <3>1 DEF HistogramUpTo
    <3> QED BY <2>2, <3>1, <3>2, AtMostGrows
  <2> QED BY <2>1, <2>2
<1>3. count = Total(count)
  BY <1>1, <1>2
<1>4. Seen(h) = CHOOSE g : g = Total(g)
  BY DEF Seen
<1>5. f = Total(f)
  BY <1>3, <1>4
<1> HIDE DEF f
<1>6. \A value \in 0..top :
        f[value] = h[value] + (IF value = 0 THEN 0 ELSE f[value - 1])
  BY <1>1, <1>5
<1> HIDE DEF count, Total
<1> DEFINE Wrong == {value \in 0..top : f[value] # count[value]}
<1>7. Wrong = {}
  <2> SUFFICES ASSUME Wrong # {}
               PROVE  FALSE
    OBVIOUS
  <2>0. Wrong \in SUBSET Nat
    OBVIOUS
  <2>1. PICK n \in Wrong : \A m \in Wrong : n <= m
    <3> HIDE DEF Wrong
    <3> QED BY <2>0, LeastNumber
  <2>2. CASE n = 0
    BY <1>2, <1>6, <2>1, <2>2
  <2>3. CASE n # 0
    <3>1. n - 1 \in 0..top /\ ~(n <= n - 1)
      BY <2>3
    <3>2. f[n - 1] = count[n - 1]
      BY <2>1, <3>1
    <3> QED BY <1>2, <1>6, <2>3, <3>2
  <2> QED BY <2>2, <2>3
<1> QED BY <1>7 DEF f, count

-----------------------------------------------------------------------------
(* The percentiles.                                                          *)

Enough(s, percent) ==
  {x \in 1..MaxReady : /\ s[x] # 0
                       /\ 100 * Cardinality(AtMost(s, x)) >= percent * Cardinality(Waits(s))}

LEMMA NearestRankIs ==
  ASSUME NEW s \in Samples, NEW percent
  PROVE  /\ Enough(s, percent) = {} => NearestRank(s, percent) = 0
         /\ \A r \in Enough(s, percent) :
              (\A y \in Enough(s, percent) : r <= y) => NearestRank(s, percent) = r
<1> DEFINE E == Enough(s, percent)
<1>1. NearestRank(s, percent) =
        IF E = {} THEN 0 ELSE CHOOSE x \in E : \A y \in E : x <= y
  BY DEF NearestRank, Enough, AtMost, Samples
<1>2. E \in SUBSET Int
  BY DEF Enough
<1> HIDE DEF E
<1>3. ASSUME NEW r \in E, \A y \in E : r <= y
      PROVE  NearestRank(s, percent) = r
  <2>1. \A x \in E : (\A y \in E : x <= y) => x = r
    BY <1>2, <1>3
  <2> QED BY <1>1, <1>3, <2>1
<1> QED BY <1>1, <1>3 DEF E

LEMMA NoWaitsNoSamples ==
  ASSUME NEW s \in Samples, IsFiniteSet(Waits(s))
  PROVE  /\ Cardinality(Waits(s)) \in Nat
         /\ Cardinality(Waits(s)) = 0 <=> \A n \in 1..MaxReady : s[n] = 0
<1>1. Cardinality(Waits(s)) \in Nat /\ (Cardinality(Waits(s)) = 0 <=> Waits(s) = {})
  BY FS_CardinalityType, FS_EmptySet
<1>2. ASSUME Waits(s) = {}, NEW n \in 1..MaxReady
      PROVE  s[n] = 0
  <2>1. <<n, 1>> \notin Waits(s) /\ s[n] \in Nat
    BY <1>2 DEF Samples
  <2>2. 1 \notin 1..s[n]
    BY <2>1, PairIsWait
  <2> QED BY <2>1, <2>2
<1>3. ASSUME \A n \in 1..MaxReady : s[n] = 0
      PROVE  Waits(s) = {}
  BY <1>3, WaitIsPair
<1> QED BY <1>1, <1>2, <1>3

(* The value at which the running total reaches the rank is a sample, and    *)
(* the least that is enough.                                                 *)
LEMMA PercentileIsNearestRank ==
  ASSUME NEW s \in Samples, NEW m, Counted(m, s), NEW percent \in {50, 95}
  PROVE  eventsPercentile(m, percent) = NearestRank(s, percent)
<1> DEFINE waits == Cardinality(Waits(s))
           total(n) == Cardinality(AtMost(s, n))
           E == Enough(s, percent)
<1>1. PICK top \in -1..MaxReady : HistogramUpTo(m.eventsPerWait, s, top)
  BY DEF Counted, Histogram
<1>2. /\ waits \in Nat /\ m.waitCalls = waits
      /\ \A n \in 1..MaxReady : s[n] \in Nat
      /\ waits = 0 <=> \A n \in 1..MaxReady : s[n] = 0
  BY NoWaitsNoSamples DEF Counted, Samples
<1>3. CASE waits = 0
  <2>1. E = {}
    BY <1>2, <1>3 DEF Enough
  <2>2. eventsPercentile(m, percent) = 0
    BY <1>2, <1>3 DEF eventsPercentile
  <2> QED BY <2>1, <2>2, NearestRankIs
<1>4. CASE waits # 0
  <2> DEFINE h == m.eventsPerWait
             R == {value \in 0..top : Seen(h)[value] >= rank(percent, waits)}
  <2>1. top \in 0..MaxReady
    BY <1>1, <1>2, <1>4, LoopConstants DEF HistogramUpTo
  <2>2. DOMAIN h = 0..top
    BY <1>1 DEF HistogramUpTo
  <2>3. \A n \in 0..top : Seen(h)[n] = total(n)
    BY <1>1, <2>1, SeenCounts DEF Counted
  <2>4. /\ total(0) = 0
        /\ \A n \in 0..MaxReady : total(n) \in Nat /\ total(n) <= waits
        /\ total(top) = waits
    <3>1. \A k \in 1..MaxReady : k > top => s[k] = 0
      BY <1>1, <2>1 DEF HistogramUpTo
    <3> QED BY <2>1, <3>1, AtMostEnds DEF Counted
  <2> HIDE DEF waits, total
  <2>5. rank(percent, waits) \in Nat /\ rank(percent, waits) >= 1
    BY <1>2, RankIsPositive
  <2>6. \A n \in 0..top : n \in R <=> 100 * total(n) >= percent * waits
    <3> SUFFICES ASSUME NEW n \in 0..top
                 PROVE  n \in R <=> 100 * total(n) >= percent * waits
      OBVIOUS
    <3>1. total(n) \in Nat /\ waits > 0
      BY <1>2, <1>4, <2>1, <2>4, LoopConstants
    <3>2. total(n) >= rank(percent, waits) <=> 100 * total(n) >= percent * waits
      BY <1>2, <3>1, RankIsCeiling
    <3> QED BY <2>3, <3>2
  <2>7. top \in R
    <3>1. 100 * waits >= percent * waits
      BY <1>2
    <3> QED BY <2>1, <2>4, <2>6, <3>1
  <2>8. R \in SUBSET Nat /\ R \subseteq 0..top
    OBVIOUS
  <2>9. eventsPercentile(m, percent) =
          CHOOSE value \in R : \A other \in R : value <= other
    <3>1. R # {}
      BY <2>7
    <3>2. R = {value \in DOMAIN h : Seen(h)[value] >= rank(percent, m.waitCalls)}
      BY <1>2, <2>2
    <3> HIDE DEF R
    <3> QED BY <1>2, <1>4, <3>1, <3>2 DEF eventsPercentile
  <2>10. 0 \notin R
    BY <2>1, <2>3, <2>4, <2>5
  <2> HIDE DEF R
  <2>11. PICK r \in R : \A other \in R : r <= other
    BY <2>7, <2>8, LeastNumber
  <2>12. eventsPercentile(m, percent) = r
    <3>1. \A x \in R : (\A y \in R : x <= y) => x = r
      BY <2>8, <2>11
    <3> QED BY <2>9, <2>11, <3>1
  <2>13. r \in 1..top /\ r \in 1..MaxReady
    BY <2>1, <2>8, <2>10, LoopConstants
  <2>14. s[r] # 0
    <3> SUFFICES ASSUME s[r] = 0
                 PROVE  FALSE
      OBVIOUS
    <3>1. total(r) = total(r - 1)
      BY <2>4, <2>13, AtMostGrows DEF total, Counted
    <3>2. r - 1 \in 0..top /\ ~(r <= r - 1)
      BY <2>13
    <3>3. r - 1 \in R
      BY <2>6, <2>8, <2>13, <3>1, <3>2
    <3> QED BY <2>11, <3>2, <3>3
  <2>15. r \in E
    BY <2>6, <2>8, <2>13, <2>14 DEF Enough, total, waits
  <2>16. ASSUME NEW y \in E
         PROVE  r <= y
    <3>1. y \in 1..MaxReady /\ s[y] # 0 /\ 100 * total(y) >= percent * waits
      BY DEF Enough, total, waits
    <3>2. y \in 0..top
      BY <1>1, <2>1, <3>1 DEF HistogramUpTo
    <3> QED BY <2>6, <2>11, <3>1, <3>2
  <2> QED BY <2>12, <2>15, <2>16, NearestRankIs
<1> QED BY <1>3, <1>4

(* The largest value with a count is the sample that is no smaller than all. *)
LEMMA MaximumIsNearestRank ==
  ASSUME NEW s \in Samples, NEW m, Counted(m, s)
  PROVE  maxEventsPerWait(m) = NearestRank(s, 100)
<1> DEFINE waits == Cardinality(Waits(s))
           total(n) == Cardinality(AtMost(s, n))
           E == Enough(s, 100)
           V == {n \in 1..MaxReady : s[n] # 0}
<1>1. PICK top \in -1..MaxReady : HistogramUpTo(m.eventsPerWait, s, top)
  BY DEF Counted, Histogram
<1>2. /\ waits \in Nat
      /\ \A n \in 1..MaxReady : s[n] \in Nat
      /\ waits = 0 <=> V = {}
  BY NoWaitsNoSamples DEF Counted, Samples
<1>3. V = {value \in DOMAIN m.eventsPerWait : m.eventsPerWait[value] # 0}
  BY <1>1, LoopConstants DEF HistogramUpTo
<1>4. maxEventsPerWait(m) =
        IF V = {} THEN 0 ELSE CHOOSE value \in V : \A other \in V : other <= value
  <2> HIDE DEF V
  <2> QED BY <1>3 DEF maxEventsPerWait
<1>5. CASE V = {}
  <2>1. E = {}
    BY <1>5 DEF Enough
  <2> QED BY <1>4, <1>5, <2>1, NearestRankIs
<1>6. CASE V # {}
  <2>1. V \in SUBSET 0..MaxReady /\ MaxReady \in Nat
    BY LoopConstants
  <2>2. PICK r \in V : \A other \in V : other <= r
    <3> HIDE DEF V
    <3> QED BY <1>6, <2>1, GreatestNumber
  <2>3. maxEventsPerWait(m) = r
    <3> HIDE DEF V
    <3>1. \A x \in V : (\A y \in V : y <= x) => x = r
      BY <2>1, <2>2
    <3> QED BY <1>4, <1>6, <2>2, <3>1
  <2>4. r \in 1..MaxReady /\ s[r] # 0
    BY <2>2
  <2>5. total(r) = waits
    <3>1. \A k \in 1..MaxReady : k > r => s[k] = 0
      BY <2>2, <2>4
    <3>2. r \in 0..MaxReady
      BY <2>4
    <3> QED BY <3>1, <3>2, AtMostEnds DEF Counted
  <2>6. r \in E
    BY <1>2, <2>4, <2>5 DEF Enough
  <2>7. ASSUME NEW y \in E
        PROVE  r <= y
    <3>1. y \in 1..MaxReady /\ 100 * total(y) >= 100 * waits
      BY DEF Enough
    <3>2. y \in 0..MaxReady
      BY <3>1
    <3>3. total(y) \in Nat /\ total(y) <= waits
      BY <3>2, AtMostEnds DEF Counted
    <3>4. total(y) = waits
      BY <1>2, <3>1, <3>3
    <3>5. AtMost(s, y) = Waits(s)
      BY <3>4, FS_Subset DEF AtMost, Counted
    <3>6. <<r, 1>> \in Waits(s)
      BY <1>2, <2>4, PairIsWait
    <3>7. <<r, 1>>[1] <= y
      BY <3>5, <3>6 DEF AtMost
    <3> QED BY <3>7
  <2> QED BY <2>3, <2>6, <2>7, NearestRankIs
<1> QED BY <1>5, <1>6

-----------------------------------------------------------------------------
(* The inductive invariant.                                                  *)

MetricsInv ==
  /\ readable \in 0..MaxReady
  /\ samples \in Samples
  /\ metrics \in Metrics
  /\ metrics.active = (line = Started)
  /\ Counted(metrics, samples)
  /\ line.status = "stopped" => line = Snapshot(metrics)

(* What Snapshot and Counted read of the metrics; the flag is not among it.  *)
SameCounters(m, n) ==
  /\ m.waitCalls = n.waitCalls
  /\ m.totalEvents = n.totalEvents
  /\ m.fullEventBatches = n.fullEventBatches
  /\ m.eventsPerWait = n.eventsPerWait

LEMMA CountersDecide ==
  ASSUME NEW m, NEW n, SameCounters(m, n)
  PROVE  /\ Snapshot(m) = Snapshot(n)
         /\ \A s : Counted(m, s) <=> Counted(n, s)
<1>1. maxEventsPerWait(m) = maxEventsPerWait(n)
  BY DEF SameCounters, maxEventsPerWait
<1>2. \A percent : eventsPercentile(m, percent) = eventsPercentile(n, percent)
  BY <1>1 DEF SameCounters, eventsPercentile
<1>3. Snapshot(m) = Snapshot(n)
  BY <1>1, <1>2 DEF SameCounters, Snapshot
<1> QED BY <1>3 DEF SameCounters, Counted

LEMMA NothingCounted ==
  ASSUME NEW m, SameCounters(m, NoMetrics)
  PROVE  NoSamples \in Samples /\ Counted(m, NoSamples)
<1>1. Histogram(NoMetrics.eventsPerWait, NoSamples)
  <2>1. -1 \in -1..MaxReady /\ 0..-1 = {}
    BY LoopConstants
  <2>2. HistogramUpTo(NoMetrics.eventsPerWait, NoSamples, -1)
    BY <2>1 DEF HistogramUpTo, NoMetrics, NoSamples
  <2> QED BY <2>1, <2>2 DEF Histogram
<1>2. NoSamples[MaxReady] = 0
  BY LoopConstants DEF NoSamples
<1>3. Counted(NoMetrics, NoSamples)
  BY <1>1, <1>2, NoWaits, FS_EmptySet DEF Counted, NoMetrics
<1> QED BY <1>3, NoWaits, CountersDecide

(* recordWait counts one more wait, and grows the histogram if it must.      *)
LEMMA RecordCounts ==
  ASSUME NEW m \in Metrics, m.active, NEW s \in Samples, Counted(m, s), NEW n \in 1..MaxReady
  PROVE  /\ [s EXCEPT ![n] = s[n] + 1] \in Samples
         /\ recordWait(m, n, MaxReady) \in Metrics
         /\ recordWait(m, n, MaxReady).active
         /\ Counted(recordWait(m, n, MaxReady), [s EXCEPT ![n] = s[n] + 1])
<1> DEFINE t == [s EXCEPT ![n] = s[n] + 1]
           r == recordWait(m, n, MaxReady)
           w == <<n, s[n] + 1>>
           events == {w} \X (1..n)
<1>1. GrowsBy(t, s, w, events)
  BY OneMoreWait
<1>2. /\ r = [active |-> m.active, waitCalls |-> r.waitCalls,
               totalEvents |-> r.totalEvents, fullEventBatches |-> r.fullEventBatches,
               eventsPerWait |-> r.eventsPerWait]
      /\ r.waitCalls = m.waitCalls + 1
      /\ r.totalEvents = m.totalEvents + n
      /\ r.fullEventBatches = m.fullEventBatches + (IF n = MaxReady THEN 1 ELSE 0)
      /\ r.eventsPerWait = incremented(m.eventsPerWait, n)
  <2> DEFINE full == m.fullEventBatches + (IF n = MaxReady THEN 1 ELSE 0)
             hist == incremented(m.eventsPerWait, n)
  <2>1. r = [m EXCEPT !.waitCalls = m.waitCalls + 1, !.totalEvents = m.totalEvents + n,
                      !.fullEventBatches = full, !.eventsPerWait = hist]
    BY DEF recordWait
  <2>2. m = [active |-> m.active, waitCalls |-> m.waitCalls, totalEvents |-> m.totalEvents,
             fullEventBatches |-> m.fullEventBatches, eventsPerWait |-> m.eventsPerWait]
    BY DEF Metrics
  <2> HIDE DEF full, hist, r
  <2>3. r = [active |-> m.active, waitCalls |-> m.waitCalls + 1,
             totalEvents |-> m.totalEvents + n,
             fullEventBatches |-> full, eventsPerWait |-> hist]
    BY <2>1, <2>2
  <2> QED BY <2>3 DEF full, hist
<1>3. /\ s[n] \in Nat /\ s[MaxReady] \in Nat
      /\ t[n] = s[n] + 1
      /\ \A k \in 1..MaxReady : k # n => t[k] = s[k]
  BY LoopConstants DEF Samples
<1> HIDE DEF t, r, w
<1>4. IsFiniteSet(Waits(t)) /\ r.waitCalls = Cardinality(Waits(t))
  BY <1>1, <1>2, FS_AddElement DEF GrowsBy, Counted
<1>5. IsFiniteSet(Events(t)) /\ r.totalEvents = Cardinality(Events(t))
  <2>1. IsFiniteSet({w}) /\ Cardinality({w}) = 1
    BY FS_Singleton
  <2>2. IsFiniteSet(1..n) /\ Cardinality(1..n) = n
    <3>1. 1 \in Int /\ n \in Int
      BY LoopConstants
    <3>2. IsFiniteSet(1..n) /\ Cardinality(1..n) = IF 1 > n THEN 0 ELSE n - 1 + 1
      BY <3>1, FS_Interval
    <3> QED BY <3>2
  <2>3. IsFiniteSet(events) /\ Cardinality(events) = 1 * n
    <3>1. Cardinality({w} \X (1..n)) = Cardinality({w}) * Cardinality(1..n)
      BY <2>1, <2>2, FS_Product
    <3> QED BY <2>1, <2>2, <3>1, FS_Product
  <2> HIDE DEF events
  <2>4. Cardinality(Events(s)) \in Nat
    BY FS_CardinalityType DEF Counted
  <2>5. /\ IsFiniteSet(Events(t))
        /\ Cardinality(Events(t)) = Cardinality(Events(s)) + 1 * n - Cardinality({})
    BY <1>1, <2>3, FS_Union DEF GrowsBy, Counted
  <2>6. Cardinality({}) = 0
    BY FS_EmptySet
  <2> QED BY <1>2, <2>4, <2>5, <2>6 DEF Counted
<1>6. r.fullEventBatches = t[MaxReady]
  BY <1>2, <1>3, LoopConstants DEF Counted
<1>7. Histogram(r.eventsPerWait, t)
  <2> DEFINE h == m.eventsPerWait
  <2>1. PICK top \in -1..MaxReady : HistogramUpTo(h, s, top)
    BY DEF Counted, Histogram
  <2>2. PICK last \in 1..MaxReady : last = IF top < n THEN n ELSE top
    BY <2>1, LoopConstants
  <2>3. /\ DOMAIN h = 0..top
        /\ \A k \in 0..top : h[k] \in Nat
        /\ \A k \in 1..MaxReady : s[k] = IF k <= top THEN h[k] ELSE 0
        /\ top >= 0 => h[0] = 0
    BY <2>1 DEF HistogramUpTo
  <2> HIDE DEF h
  <2>4. DOMAIN h \cup 0..n = 0..last
    BY <2>2, <2>3, LoopConstants
  <2> DEFINE g == incremented(h, n)
  <2>5. g = [k \in 0..last |-> (IF k \in 0..top THEN h[k] ELSE 0)
                               + (IF k = n THEN 1 ELSE 0)]
    BY <2>3, <2>4 DEF incremented
  <2>6. n \in 0..last
    BY <2>2
  <2>7. /\ DOMAIN g = 0..last
        /\ g[n] = (IF n \in 0..top THEN h[n] ELSE 0) + 1
        /\ \A k \in 0..last : k # n => g[k] = IF k \in 0..top THEN h[k] ELSE 0
    BY <2>3, <2>5, <2>6
  <2>8. g = [k \in 0..last |-> g[k]]
    BY <2>5
  <2>9. r.eventsPerWait = g
    BY <1>2 DEF h
  <2> HIDE DEF g
  <2>10. g \in [0..last -> Nat]
    BY <2>3, <2>7, <2>8
  <2>11. \A k \in 1..MaxReady : t[k] = IF k <= last THEN g[k] ELSE 0
    <3> SUFFICES ASSUME NEW k \in 1..MaxReady
                 PROVE  t[k] = IF k <= last THEN g[k] ELSE 0
      OBVIOUS
    <3>1. CASE k = n
      BY <1>3, <2>2, <2>3, <2>7, <3>1
    <3>2. CASE k # n
      BY <1>3, <2>2, <2>3, <2>7, <3>2
    <3> QED BY <3>1, <3>2
  <2>12. g[0] = 0
    BY <2>2, <2>3, <2>7
  <2> QED BY <2>2, <2>9, <2>10, <2>11, <2>12, LoopConstants DEF Histogram, HistogramUpTo
<1>8. t \in Samples
  BY <1>1 DEF GrowsBy
<1>9. r.eventsPerWait \in UNION {[0..top -> Nat] : top \in -1..MaxReady}
  BY <1>7 DEF Histogram, HistogramUpTo
<1>10. r \in Metrics
  <2>1. /\ m.waitCalls \in Nat /\ m.totalEvents \in Nat /\ m.fullEventBatches \in Nat
        /\ n \in Nat /\ m.active \in BOOLEAN
    BY LoopConstants DEF Metrics
  <2>2. r.waitCalls \in Nat /\ r.totalEvents \in Nat /\ r.fullEventBatches \in Nat
    BY <1>2, <2>1
  <2>3. PICK waits, total, full, hist :
          /\ waits = r.waitCalls /\ total = r.totalEvents
          /\ full = r.fullEventBatches /\ hist = r.eventsPerWait
    OBVIOUS
  <2>4. r = [active |-> m.active, waitCalls |-> waits, totalEvents |-> total,
             fullEventBatches |-> full, eventsPerWait |-> hist]
    BY <1>2, <2>3
  <2>5. /\ waits \in Nat /\ total \in Nat /\ full \in Nat
        /\ hist \in UNION {[0..top -> Nat] : top \in -1..MaxReady}
    BY <1>9, <2>2, <2>3
  <2> QED BY <2>1, <2>4, <2>5 DEF Metrics
<1>11. r.active
  BY <1>2
<1> QED BY <1>4, <1>5, <1>6, <1>7, <1>8, <1>10, <1>11 DEF Counted, t, r

LEMMA NoMetricsType ==
  NoMetrics \in Metrics /\ [NoMetrics EXCEPT !.active = TRUE] \in Metrics
<1>1. NoMetrics.eventsPerWait \in UNION {[0..top -> Nat] : top \in -1..MaxReady}
  <2>1. -1 \in -1..MaxReady /\ 0..-1 = {}
    BY LoopConstants
  <2>2. NoMetrics.eventsPerWait \in [0..-1 -> Nat]
    BY <2>1 DEF NoMetrics
  <2> QED BY <2>1, <2>2
<1> QED BY <1>1 DEF NoMetrics, Metrics

LEMMA ReadableIsApart ==
  ASSUME MetricsInv, readable' \in 0..MaxReady, UNCHANGED <<metrics, line, samples>>
  PROVE  MetricsInv'
BY Zenon DEF MetricsInv

LEMMA MetricsStutter ==
  ASSUME MetricsInv, UNCHANGED <<readable, metrics, line, samples>>
  PROVE  MetricsInv'
BY Zenon DEF MetricsInv

LEMMA InitMetrics == Init => MetricsInv
<1> SUFFICES ASSUME Init
             PROVE  MetricsInv
  OBVIOUS
<1>1. readable = 0 /\ metrics = NoMetrics /\ line = [status |-> "none"] /\ samples = NoSamples
  BY DEF Init
<1>2. SameCounters(metrics, NoMetrics)
  BY <1>1 DEF SameCounters
<1>3. samples \in Samples /\ Counted(metrics, samples)
  BY <1>1, <1>2, NothingCounted
<1>4. metrics \in Metrics
  BY <1>1, NoMetricsType
<1>5. line.status # "stopped" /\ line # Started /\ metrics.active = FALSE
  BY <1>1 DEF Started, NoMetrics
<1>6. readable \in 0..MaxReady
  BY <1>1, LoopConstants
<1> QED BY <1>3, <1>4, <1>5, <1>6 DEF MetricsInv

(* The steps that change what MetricsInv is about.                           *)
LEMMA StartKeepsMetrics == MetricsInv /\ ServiceStart => MetricsInv'
<1> SUFFICES ASSUME MetricsInv, ServiceStart
             PROVE  MetricsInv'
  OBVIOUS
<1>1. readable' = readable
  BY DEF ServiceStart
<1>2. CASE metricsStartRequested
  <2>1. /\ metrics' = [reset(metrics) EXCEPT !.active = TRUE]
        /\ line' = Started
        /\ samples' = NoSamples
    BY <1>2 DEF ServiceStart
  <2>2. metrics' = [NoMetrics EXCEPT !.active = TRUE]
    BY <2>1 DEF reset, NoMetrics
  <2>3. metrics'.active = TRUE /\ SameCounters(metrics', NoMetrics)
    BY <2>2 DEF SameCounters, NoMetrics
  <2>4. metrics' \in Metrics
    BY <2>2, NoMetricsType
  <2>5. samples' \in Samples /\ Counted(metrics', samples')
    BY <2>1, <2>3, NothingCounted
  <2>6. line'.status # "stopped"
    BY <2>1 DEF Started
  <2> QED BY <1>1, <2>1, <2>3, <2>4, <2>5, <2>6 DEF MetricsInv
<1>3. CASE ~metricsStartRequested
  <2>1. UNCHANGED <<readable, metrics, line, samples>>
    BY <1>3 DEF ServiceStart
  <2> QED BY <2>1, MetricsStutter
<1> QED BY <1>2, <1>3

LEMMA StopKeepsMetrics == MetricsInv /\ ServiceStop => MetricsInv'
<1> SUFFICES ASSUME MetricsInv, ServiceStop
             PROVE  MetricsInv'
  OBVIOUS
<1>1. readable' = readable /\ samples' = samples
  BY DEF ServiceStop
<1>2. CASE metricsStopRequested
  <2>1. metrics' = [metrics EXCEPT !.active = FALSE] /\ line' = Snapshot(metrics)
    BY <1>2 DEF ServiceStop
  <2>2. metrics \in Metrics
    BY DEF MetricsInv
  <2>3. metrics' \in Metrics /\ metrics'.active = FALSE /\ SameCounters(metrics', metrics)
    BY <2>1, <2>2 DEF Metrics, SameCounters
  <2>4. line' = Snapshot(metrics') /\ Counted(metrics', samples')
    BY <1>1, <2>1, <2>3, CountersDecide DEF MetricsInv
  <2>5. line' # Started
    <3>1. line'.status = "stopped" /\ Started.status = "started"
      BY <2>1 DEF Snapshot, Started
    <3> QED BY <3>1
  <2> QED BY <1>1, <2>3, <2>4, <2>5 DEF MetricsInv
<1>3. CASE ~metricsStopRequested
  <2>1. UNCHANGED <<readable, metrics, line, samples>>
    BY <1>1, <1>3 DEF ServiceStop
  <2> QED BY <2>1, MetricsStutter
<1> QED BY <1>2, <1>3

LEMMA WaitKeepsMetrics == MetricsInv /\ WaitReturns => MetricsInv'
<1> SUFFICES ASSUME MetricsInv, WaitReturns
             PROVE  MetricsInv'
  OBVIOUS
<1>1. readable' = readable /\ line' = line /\ readable \in 1..MaxReady
  BY LoopConstants DEF MetricsInv, WaitReturns
<1>2. CASE UNCHANGED <<metrics, samples>>
  BY <1>1, <1>2, MetricsStutter
<1>3. CASE /\ metrics' = recordWait(metrics, readable, MaxReady)
           /\ samples' = IF line = Started THEN [samples EXCEPT ![readable] = @ + 1]
                         ELSE samples
  <2>1. CASE line = Started
    <3>1. samples' = [samples EXCEPT ![readable] = samples[readable] + 1]
      BY <1>3, <2>1
    <3>2. /\ metrics.active /\ metrics \in Metrics
          /\ samples \in Samples /\ Counted(metrics, samples)
      BY <2>1 DEF MetricsInv
    <3>3. samples' \in Samples /\ metrics' \in Metrics /\ metrics'.active
          /\ Counted(metrics', samples')
      BY <1>1, <1>3, <3>1, <3>2, RecordCounts, ZenonT(60)
    <3>4. metrics'.active \in BOOLEAN
      BY <3>3 DEF Metrics
    <3>5. line'.status # "stopped"
      BY <1>1, <2>1 DEF Started
    <3> QED BY <1>1, <2>1, <3>3, <3>4, <3>5 DEF MetricsInv
  <2>2. CASE line # Started
    <3>1. metrics' = metrics /\ samples' = samples
      BY <1>3, <2>2 DEF recordWait, MetricsInv
    <3> QED BY <1>1, <3>1, MetricsStutter
  <2> QED BY <2>1, <2>2
<1> QED BY <1>2, <1>3 DEF WaitReturns

(* Along every behaviour the counters describe the waits of the interval,    *)
(* and a stopped line is what they said.                                     *)
THEOREM MetricsInvariant == Spec => []MetricsInv
<1>1. Init => MetricsInv
  BY InitMetrics
<1>2. MetricsInv /\ [Next]_vars => MetricsInv'
  <2> SUFFICES ASSUME MetricsInv, [Next]_vars
               PROVE  MetricsInv'
    OBVIOUS
  <2>1. CASE Check
    BY <2>1, MetricsStutter DEF Check
  <2>2. CASE ServiceStart
    BY <2>2, StartKeepsMetrics
  <2>3. CASE ServiceStop
    BY <2>3, StopKeepsMetrics
  <2>4. CASE EnterWait
    BY <2>4, MetricsStutter DEF EnterWait
  <2>5. CASE WaitReturns
    BY <2>5, WaitKeepsMetrics
  <2>6. CASE HandleBatch
    <3>1. readable' \in 0..MaxReady /\ UNCHANGED <<metrics, line, samples>>
      BY <2>6, LoopConstants DEF HandleBatch
    <3> QED BY <3>1, ReadableIsApart
  <2>7. ASSUME NEW signal \in Signals, Delivered(signal)
        PROVE  MetricsInv'
    BY <2>7, MetricsStutter DEF Delivered
  <2>8. CASE Activity
    <3>1. readable' \in 0..MaxReady /\ UNCHANGED <<metrics, line, samples>>
      BY <2>8, LoopConstants DEF Activity, MetricsInv
    <3> QED BY <3>1, ReadableIsApart
  <2>9. CASE UNCHANGED vars
    BY <2>9, MetricsStutter DEF vars
  <2> QED BY <2>1, <2>2, <2>3, <2>4, <2>5, <2>6, <2>7, <2>8, <2>9 DEF Next, Loop
<1> QED BY <1>1, <1>2, PTL DEF Spec

-----------------------------------------------------------------------------

(* SIGUSR2's line counts exactly the waits since SIGUSR1 was served and      *)
(* their events, however often either signal comes.                          *)
THEOREM SnapshotsAreOfTheirInterval == Spec => []SnapshotIsOfInterval
<1>1. MetricsInv => SnapshotIsOfInterval
  <2> SUFFICES ASSUME MetricsInv
               PROVE  SnapshotIsOfInterval
    OBVIOUS
  <2>1. ASSUME line.status = "stopped"
        PROVE  /\ line.wait_calls = Cardinality(Waits(samples))
               /\ line.total_events = Cardinality(Events(samples))
               /\ line.full_event_batches = samples[MaxReady]
               /\ line.max = NearestRank(samples, 100)
    <3>1. line = Snapshot(metrics) /\ samples \in Samples /\ Counted(metrics, samples)
      BY <2>1 DEF MetricsInv
    <3>2. /\ line.wait_calls = metrics.waitCalls
          /\ line.total_events = metrics.totalEvents
          /\ line.full_event_batches = metrics.fullEventBatches
          /\ line.max = maxEventsPerWait(metrics)
      BY <3>1 DEF Snapshot
    <3>3. maxEventsPerWait(metrics) = NearestRank(samples, 100)
      BY <3>1, MaximumIsNearestRank
    <3> QED BY <3>1, <3>2, <3>3 DEF Counted
  <2> QED BY <2>1 DEF SnapshotIsOfInterval, MetricsInv
<1> QED BY <1>1, MetricsInvariant, PTL

(* The percentiles of that line are the nearest-rank percentiles: adding     *)
(* 0.999999 and rounding down gives exactly the rank.                       *)
THEOREM PercentilesAreRight == Spec => []PercentilesAreNearestRank
<1>1. MetricsInv => PercentilesAreNearestRank
  <2> SUFFICES ASSUME MetricsInv, line.status = "stopped"
               PROVE  /\ line.p50 = NearestRank(samples, 50)
                      /\ line.p95 = NearestRank(samples, 95)
    BY DEF PercentilesAreNearestRank
  <2>1. line = Snapshot(metrics) /\ samples \in Samples /\ Counted(metrics, samples)
    BY DEF MetricsInv
  <2>2. /\ line.p50 = eventsPercentile(metrics, 50)
        /\ line.p95 = eventsPercentile(metrics, 95)
    BY <2>1 DEF Snapshot
  <2>3. 50 \in {50, 95} /\ 95 \in {50, 95}
    OBVIOUS
  <2> QED BY <2>1, <2>2, <2>3, PercentileIsNearestRank
<1> QED BY <1>1, MetricsInvariant, PTL

=============================================================================
