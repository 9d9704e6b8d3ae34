--------------------------- MODULE ServerMetrics ---------------------------
(* ServerMetrics of common/server_common.cpp: the histogram of events per    *)
(* wait() and the percentiles read off it.  The other counters are counted   *)
(* up in the same way, while `active' holds, and are not modelled.           *)
EXTENDS Integers, FiniteSets

NoMetrics ==
  [active |-> FALSE, waitCalls |-> 0, totalEvents |-> 0, fullEventBatches |-> 0,
   eventsPerWait |-> [value \in {} |-> 0]]

(* Mutant: the counters are reset, the histogram is not.                     *)
resetCounters(m) == [NoMetrics EXCEPT !.active = m.active, !.eventsPerWait = m.eventsPerWait]

reset(m) == [NoMetrics EXCEPT !.active = m.active]

(* The vector is resized to hold the index `ready' (indexes count from 0)    *)
(* and one more wait is counted there.                                       *)
incremented(v, ready) ==
  [value \in DOMAIN v \cup 0..ready |->
     (IF value \in DOMAIN v THEN v[value] ELSE 0) + (IF value = ready THEN 1 ELSE 0)]

recordWait(m, ready, maxevents) ==
  IF ~m.active THEN m
  ELSE [m EXCEPT !.waitCalls = @ + 1,
                 !.totalEvents = @ + ready,
                 !.fullEventBatches = @ + (IF ready = maxevents THEN 1 ELSE 0),
                 !.eventsPerWait = incremented(@, ready)]

maxEventsPerWait(m) ==
  LET values == {value \in DOMAIN m.eventsPerWait : m.eventsPerWait[value] # 0}
  IN  IF values = {} THEN 0
      ELSE CHOOSE value \in values : \A other \in values : other <= value

(* Mutant: rounds down.                                                      *)
rankBelow(percent, waitCalls) ==
  LET n == (percent * waitCalls) \div 100 IN IF n < 1 THEN 1 ELSE n

(* target: fraction * waitCalls + 0.999999, rounded down, at least 1, in     *)
(* exact millionths.  The code computes in doubles, whose error stays below  *)
(* the missing millionth for fewer than 2^31 waits; beyond, it is left out.  *)
rank(percent, waitCalls) ==
  LET n == (percent * 10000 * waitCalls + 999999) \div 1000000
  IN  IF n < 1 THEN 1 ELSE n

(* The running total of the loop: how many waits had at most value events.   *)
Seen(v) ==
  LET seen[value \in DOMAIN v] == v[value] + (IF value = 0 THEN 0 ELSE seen[value - 1])
  IN  seen

(* The first value at which the counts add up to the rank.                   *)
eventsPercentile(m, percent) ==
  LET seen    == Seen(m.eventsPerWait)
      reached == {value \in DOMAIN m.eventsPerWait : seen[value] >= rank(percent, m.waitCalls)}
  IN  IF m.waitCalls = 0 THEN 0
      ELSE IF reached = {} THEN maxEventsPerWait(m)
      ELSE CHOOSE value \in reached : \A other \in reached : value <= other

-----------------------------------------------------------------------------

(* Reference definitions, over the set of waits and the set of their events  *)
(* when samples[n] waits had n events each.                                  *)
Waits(samples) == UNION {{n} \X (1..samples[n]) : n \in DOMAIN samples}

Events(samples) == UNION {({n} \X (1..samples[n])) \X (1..n) : n \in DOMAIN samples}

(* The least number of events of a wait such that at least percent of the    *)
(* waits had no more.                                                        *)
NearestRank(samples, percent) ==
  LET noLarger(x) == Cardinality({w \in Waits(samples) : w[1] <= x})
      enough == {x \in DOMAIN samples :
                   /\ samples[x] # 0
                   /\ 100 * noLarger(x) >= percent * Cardinality(Waits(samples))}
  IN  IF enough = {} THEN 0
      ELSE CHOOSE x \in enough : \A y \in enough : x <= y

=============================================================================
