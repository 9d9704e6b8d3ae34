-------------------------- MODULE ComparisonProofs --------------------------
(* Proofs about the comparison driver, for all command lines it accepts: any *)
(* number of trials, of tiers and of rates.                                  *)
EXTENDS Comparison, SequenceTheorems, FiniteSetTheorems, WellFoundedInduction, TLAPS

Origin == [trial |-> 0, group |-> 0, rate |-> 0, turn |-> 0]

(* Iterations that were passed, and those of them with a result.             *)
Visited == Positions \ Left
Concluded == IF pc = "running" THEN Visited \ {at} ELSE Visited

CasesAt(S) == {CaseAt(p) : p \in S}

Valid(c) == c \in DOMAIN outcome /\ outcome[c] = "valid"

SameSweep(p, q) == p.trial = q.trial /\ p.group = q.group

-----------------------------------------------------------------------------
(* The invariant.                                                            *)

ProgressInv ==
  /\ args \in Arguments
  /\ pc \in {"naming", "creating", "sweeping", "running", "summarizing", "done", "raised"}
  /\ at \in Positions \cup {Origin}
  /\ pc \in {"naming", "creating"} => at = Origin
  /\ pc = "running" => at \in Positions
  /\ pc \in {"summarizing", "done"} => Visited = Positions

(* Each iteration that was passed is recorded once.                          *)
RecordsInv ==
  /\ commands \in Seq(Cases) /\ skipped \in Seq(Cases)
  /\ CasesAt(Visited) = ToSet(commands) \cup ToSet(skipped)
  /\ IsFiniteSet(Visited)
  /\ Cardinality(Visited) = Len(commands) + Len(skipped)

OutcomeInv ==
  /\ DOMAIN outcome \subseteq CasesAt(Concluded)
  /\ DOMAIN outcome \subseteq ToSet(commands)
  /\ pc = "running" => CaseAt(at) \in ToSet(commands)
  /\ \A c \in DOMAIN outcome : outcome[c] \in {"failed", "invalid", "valid"}

(* A server is active as long as all it has run of the sweep was valid.      *)
ActiveInv ==
  pc \in {"sweeping", "running"} /\ at \in Positions =>
    active_implementations =
      {l \in ToSet(args.implementations) :
         \A p \in Concluded : SameSweep(p, at) /\ CaseAt(p).label = l => Valid(CaseAt(p))}

(* What stays true of a case that is skipped.                                *)
InvalidBelow(c) ==
  \E p \in Concluded : /\ CaseAt(p) \in SweepOf(c) /\ CaseAt(p).rate < c.rate
                       /\ ~Valid(CaseAt(p))

ThresholdInv ==
  /\ \A i \in DOMAIN commands : ValidSoFar(commands[i])
  /\ \A i \in DOMAIN skipped : InvalidBelow(skipped[i])

MetadataInv ==
  /\ pc \in {"summarizing", "done"} => metadata = [commands |-> commands, skipped |-> skipped]
  /\ pc = "raised" => metadata.commands = commands \/ DOMAIN outcome = {}

(* The files are the results.                                                *)
Completed == {c \in DOMAIN outcome : outcome[c] # "failed"}
Outputs == {output(c) : c \in Cases}

FilesInv ==
  /\ DOMAIN files = {output(c) : c \in Completed}
  /\ \A c \in Completed : files[output(c)] = Row(c, outcome[c] = "valid") /\ ~Refused(c)
  /\ csv_paths \in Seq(Outputs)
  /\ ToSet(csv_paths) = DOMAIN files
  /\ \A i, j \in DOMAIN csv_paths : csv_paths[i] = csv_paths[j] => i = j

SummaryInv ==
  pc = "done" =>
    summary = [headlines |-> headlines,
               invalid_trials |-> Cardinality({i \in DOMAIN rows : ~rows[i].valid}),
               highest_sustainable |-> [k \in Keys |-> highest(k)]]

-----------------------------------------------------------------------------
(* Numbers.                                                                  *)

LEMMA LeastNumber ==
  ASSUME NEW S \in SUBSET Nat, S # {}
  PROVE  \E n \in S : \A m \in S : n <= m
<1>1. PICK n \in S : \A m \in S : ~(<<m, n>> \in OpToRel(<, Nat))
  BY NatLessThanWellFounded, WFMin, Zenon
<1>2. ASSUME NEW m \in S, ~(n <= m)
      PROVE  FALSE
  <2>1. m \in Nat /\ n \in Nat /\ m < n
    BY <1>2
  <2>2. <<m, n>> \in OpToRel(<, Nat)
    BY <2>1 DEF OpToRel
  <2> QED BY <1>1, <2>2
<1> QED BY <1>2

-----------------------------------------------------------------------------
(* The iterations of a command line.                                         *)

LEMMA LineFacts ==
  ASSUME args \in Arguments
  PROVE  /\ args.runs \in Nat /\ args.runs >= 1
         /\ args.implementations \in Seq({"poll", "epoll"})
         /\ groups \in Seq([experiment : {"sparse", "dense", "broadcast"}, total : Nat,
                            active : Nat, rates : Seq(Nat)])
         /\ \A g \in DOMAIN groups :
              /\ groups[g].experiment # "sparse" => groups[g].active = groups[g].total
              /\ \A i, j \in DOMAIN groups[g].rates :
                   i < j => groups[g].rates[i] <= groups[g].rates[j]
<1>1. Accepted(args) /\ groups = experiment_groups(args)
  BY ComparisonConstants DEF groups, Groups
<1> QED BY <1>1 DEF Accepted

(* When nothing is named twice.                                              *)
LEMMA NamedOnce ==
  ASSUME args \in Arguments, NoRepeats(args)
  PROVE  /\ \A i, j \in DOMAIN args.implementations :
              args.implementations[i] = args.implementations[j] => i = j
         /\ \A g, h \in DOMAIN groups : SameGroup(groups[g], groups[h]) => g = h
         /\ \A g \in DOMAIN groups : \A i, j \in DOMAIN groups[g].rates :
              groups[g].rates[i] = groups[g].rates[j] => i = j
<1>1. groups = experiment_groups(args)
  BY DEF groups, Groups
<1> QED BY <1>1 DEF NoRepeats, IsInjective

LEMMA PositionFacts ==
  ASSUME args \in Arguments
  PROVE  /\ \A p \in Positions :
              /\ p.trial \in Nat /\ p.trial \in 1 .. args.runs
              /\ p.group \in Nat /\ p.group >= 1 /\ p.group \in DOMAIN groups
              /\ p.rate \in Nat /\ p.rate >= 1 /\ p.rate \in DOMAIN groups[p.group].rates
              /\ p.turn \in Nat /\ p.turn >= 1 /\ p.turn \in DOMAIN args.implementations
              /\ p = [trial |-> p.trial, group |-> p.group, rate |-> p.rate, turn |-> p.turn]
         /\ \A t \in 1 .. args.runs : \A g \in DOMAIN groups : \A r \in DOMAIN groups[g].rates :
            \A u \in DOMAIN args.implementations :
              [trial |-> t, group |-> g, rate |-> r, turn |-> u] \in Positions
<1>1. /\ groups = Groups[args] /\ Positions = PositionsOf(args)
  BY DEF groups, Positions, Plan
<1>2. DOMAIN args.implementations = 1 .. Len(args.implementations)
      /\ DOMAIN groups = 1 .. Len(groups)
      /\ \A g \in DOMAIN groups : DOMAIN groups[g].rates = 1 .. Len(groups[g].rates)
  BY LineFacts, LenProperties, ElementOfSeq, SMTT(60)
<1>3. \A p \in Positions :
        /\ p.trial \in 1 .. args.runs /\ p.group \in DOMAIN groups
        /\ p.rate \in DOMAIN groups[p.group].rates /\ p.turn \in DOMAIN args.implementations
        /\ p = [trial |-> p.trial, group |-> p.group, rate |-> p.rate, turn |-> p.turn]
  BY <1>1 DEF PositionsOf
<1>4. \A t \in 1 .. args.runs : \A g \in DOMAIN groups : \A r \in DOMAIN groups[g].rates :
      \A u \in DOMAIN args.implementations :
        [trial |-> t, group |-> g, rate |-> r, turn |-> u] \in Positions
  BY <1>1 DEF PositionsOf
<1>5. \A p \in Positions :
        /\ p.trial \in Nat /\ p.group \in Nat /\ p.group >= 1
        /\ p.rate \in Nat /\ p.rate >= 1 /\ p.turn \in Nat /\ p.turn >= 1
  <2> TAKE p \in Positions
  <2>1. /\ p.trial \in 1 .. args.runs /\ p.group \in 1 .. Len(groups)
        /\ p.rate \in 1 .. Len(groups[p.group].rates)
        /\ p.turn \in 1 .. Len(args.implementations)
    BY <1>2, <1>3
  <2> QED BY <2>1
<1> QED BY <1>3, <1>4, <1>5

(* Every server has its turn in a trial, and only one if it is named once.   *)
LEMMA OrderFacts ==
  ASSUME args \in Arguments, NEW t \in Nat
  PROVE  LET order == execution_order(args, t)
         IN  /\ DOMAIN order = DOMAIN args.implementations
             /\ \A i \in DOMAIN order : order[i] \in ToSet(args.implementations)
             /\ NoRepeats(args) => \A i, j \in DOMAIN order : order[i] = order[j] => i = j
             /\ \A l \in ToSet(args.implementations) : \E i \in DOMAIN order : order[i] = l
<1> DEFINE s == args.implementations  n == Len(s)
<1>1. s \in Seq({"poll", "epoll"}) /\ n \in Nat /\ DOMAIN s = 1 .. n
  BY LineFacts, LenProperties
<1>0. ASSUME NoRepeats(args)
      PROVE  \A i, j \in DOMAIN s : s[i] = s[j] => i = j
  BY <1>0, NamedOnce
<1> HIDE DEF s, n
<1>2. CASE execution_order(args, t) = s
  BY <1>0, <1>1, <1>2 DEF ToSet, s
<1>3. CASE execution_order(args, t) = Reverse(s)
  <2>1. Reverse(s) = [i \in 1 .. n |-> s[(n - i) + 1]]
    BY DEF Reverse, n
  <2>2. \A i \in 1 .. n : (n - i) + 1 \in 1 .. n /\ (n - ((n - i) + 1)) + 1 = i
    BY <1>1
  <2>3. DOMAIN Reverse(s) = 1 .. n /\ \A i \in 1 .. n : Reverse(s)[i] = s[(n - i) + 1]
    BY <2>1
  <2>4. ASSUME NoRepeats(args), NEW i \in 1 .. n, NEW j \in 1 .. n
        PROVE  Reverse(s)[i] = Reverse(s)[j] => i = j
    <3>1. s[(n - i) + 1] = s[(n - j) + 1] => (n - i) + 1 = (n - j) + 1
      BY <1>0, <1>1, <2>2, <2>4
    <3> QED BY <1>1, <2>3, <3>1
  <2>5. \A l \in ToSet(s) : \E i \in 1 .. n : Reverse(s)[i] = l
    <3> TAKE l \in ToSet(s)
    <3>1. PICK k \in 1 .. n : s[k] = l
      BY <1>1 DEF ToSet
    <3>2. Reverse(s)[(n - k) + 1] = l
      BY <2>2, <2>3, <3>1
    <3> QED BY <2>2, <3>2
  <2>6. \A i \in 1 .. n : Reverse(s)[i] \in ToSet(s)
    BY <1>1, <2>2, <2>3 DEF ToSet
  <2> QED BY <1>1, <1>3, <2>3, <2>4, <2>5, <2>6 DEF s
<1> QED BY <1>2, <1>3 DEF execution_order, s

LEMMA CaseFields ==
  ASSUME args \in Arguments, NEW p \in Positions
  PROVE  LET c == CaseAt(p)
             g == groups[p.group]
         IN  /\ c = [trial |-> p.trial, experiment |-> g.experiment, total |-> g.total,
                     active |-> g.active, rate |-> g.rates[p.rate], label |-> c.label]
             /\ c.trial = p.trial /\ SameGroup(c, g) /\ c.rate = g.rates[p.rate]
             /\ c.label = execution_order(args, p.trial)[p.turn]
             /\ c.label \in ToSet(args.implementations)
             /\ c.experiment \in {"sparse", "dense", "broadcast"}
             /\ c.total \in Nat /\ c.active \in Nat /\ c.rate \in Nat
             /\ c.experiment # "sparse" => c.active = c.total
<1> DEFINE g == groups[p.group]  r == g.rates[p.rate]
           l == execution_order(args, p.trial)[p.turn]
<1>1. CaseAt(p) = CaseOf(args, p) /\ groups = Groups[args]
  BY DEF CaseAt, Plan, Positions, groups
<1>2. CaseAt(p) = [trial |-> p.trial, experiment |-> g.experiment, total |-> g.total,
                   active |-> g.active, rate |-> r, label |-> l]
  BY <1>1 DEF CaseOf
<1>3. l \in ToSet(args.implementations)
  BY PositionFacts, OrderFacts
<1>4. /\ g \in [experiment : {"sparse", "dense", "broadcast"}, total : Nat, active : Nat,
                rates : Seq(Nat)]
      /\ g.experiment # "sparse" => g.active = g.total
  <2>1. p.group \in DOMAIN groups /\ DOMAIN groups = 1 .. Len(groups)
    BY PositionFacts, LineFacts, LenProperties
  <2>2. g \in [experiment : {"sparse", "dense", "broadcast"}, total : Nat, active : Nat,
              rates : Seq(Nat)]
    BY <2>1, LineFacts, ElementOfSeq
  <2> QED BY <2>1, <2>2, LineFacts
<1>5. r \in Nat
  <2>1. g.rates \in Seq(Nat) /\ p.rate \in DOMAIN g.rates
    BY <1>4, PositionFacts
  <2> QED BY <2>1, ElementOfSeq, LenProperties
<1> HIDE DEF g, r, l
<1>6. /\ CaseAt(p).trial = p.trial /\ SameGroup(CaseAt(p), g) /\ CaseAt(p).rate = r
      /\ CaseAt(p).label = l /\ CaseAt(p).experiment = g.experiment
      /\ CaseAt(p).total = g.total /\ CaseAt(p).active = g.active
  BY <1>2 DEF SameGroup
<1>7. g.experiment \in {"sparse", "dense", "broadcast"} /\ g.total \in Nat /\ g.active \in Nat
  BY <1>4
<1> QED BY <1>2, <1>3, <1>4, <1>5, <1>6, <1>7 DEF g, r, l

(* Where two iterations are in the loops can then be told from their cases.  *)
LEMMA CaseFacts ==
  ASSUME args \in Arguments, NoRepeats(args), NEW p \in Positions, NEW q \in Positions
  PROVE  /\ SameGroup(CaseAt(p), CaseAt(q)) <=> p.group = q.group
         /\ p.group = q.group => (CaseAt(p).rate < CaseAt(q).rate <=> p.rate < q.rate)
         /\ p.group = q.group => (CaseAt(p).rate = CaseAt(q).rate <=> p.rate = q.rate)
         /\ p.trial = q.trial => (CaseAt(p).label = CaseAt(q).label <=> p.turn = q.turn)
         /\ CaseAt(p) = CaseAt(q) => p = q
<1> DEFINE c == CaseAt(p)  d == CaseAt(q)
<1>1. /\ c.trial = p.trial /\ SameGroup(c, groups[p.group])
      /\ c.rate = groups[p.group].rates[p.rate] /\ c.rate \in Nat
      /\ c.label = execution_order(args, p.trial)[p.turn]
  BY CaseFields
<1>2. /\ d.trial = q.trial /\ SameGroup(d, groups[q.group])
      /\ d.rate = groups[q.group].rates[q.rate] /\ d.rate \in Nat
      /\ d.label = execution_order(args, q.trial)[q.turn]
  BY CaseFields
<1> HIDE DEF c, d
<1>3. SameGroup(c, d) <=> p.group = q.group
  <2>1. SameGroup(c, d) <=> SameGroup(groups[p.group], groups[q.group])
    BY <1>1, <1>2 DEF SameGroup
  <2>2. SameGroup(groups[p.group], groups[q.group]) <=> p.group = q.group
    BY NamedOnce, PositionFacts DEF SameGroup
  <2> QED BY <2>1, <2>2
<1>4. ASSUME p.group = q.group
      PROVE  (c.rate < d.rate <=> p.rate < q.rate) /\ (c.rate = d.rate <=> p.rate = q.rate)
  <2>1. PICK rates : rates = groups[p.group].rates
    OBVIOUS
  <2>2. /\ \A i, j \in DOMAIN rates : i < j => rates[i] <= rates[j]
        /\ \A i, j \in DOMAIN rates : rates[i] = rates[j] => i = j
        /\ p.rate \in DOMAIN rates /\ q.rate \in DOMAIN rates /\ p.rate \in Nat /\ q.rate \in Nat
        /\ c.rate = rates[p.rate] /\ d.rate = rates[q.rate]
    BY <1>1, <1>2, <1>4, <2>1, LineFacts, NamedOnce, PositionFacts, ZenonT(60)
  <2>3. CASE p.rate < q.rate
    BY <1>1, <1>2, <2>2, <2>3
  <2>4. CASE q.rate < p.rate
    BY <1>1, <1>2, <2>2, <2>4
  <2>5. CASE p.rate = q.rate
    BY <1>1, <1>2, <2>2, <2>5
  <2> QED BY <2>2, <2>3, <2>4, <2>5
<1>5. ASSUME p.trial = q.trial
      PROVE  c.label = d.label <=> p.turn = q.turn
  <2>1. PICK order : order = execution_order(args, p.trial)
    OBVIOUS
  <2>2. p.turn \in DOMAIN order /\ q.turn \in DOMAIN order
        /\ \A i, j \in DOMAIN order : order[i] = order[j] => i = j
    BY <2>1, PositionFacts, OrderFacts
  <2> QED BY <1>1, <1>2, <1>5, <2>1, <2>2
<1>6. ASSUME c = d
      PROVE  p = q
  <2>1. SameGroup(c, d) /\ p.trial = q.trial
    BY <1>1, <1>2, <1>6 DEF SameGroup
  <2>2. p.group = q.group /\ p.rate = q.rate /\ p.turn = q.turn
    BY <1>3, <1>4, <1>5, <1>6, <2>1
  <2> QED BY <2>1, <2>2, PositionFacts
<1> QED BY <1>3, <1>4, <1>5, <1>6 DEF c, d

LEMMA CasesOfPositions ==
  /\ Cases = CasesAt(Positions)
  /\ \A S : \A c : c \in CasesAt(S) <=> \E p \in S : c = CaseAt(p)
BY DEF Cases, CasesAt, Positions, CaseAt, Range

-----------------------------------------------------------------------------
(* Their order.                                                              *)

Numbers == [trial : Nat, group : Nat, rate : Nat, turn : Nat]

LEMMA OrderIsTotal ==
  /\ \A p \in Numbers : ~Before(p, p)
  /\ \A p, q \in Numbers : Before(p, q) \/ Before(q, p) \/ p = q
  /\ \A p, q, r \in Numbers : Before(p, q) /\ Before(q, r) => Before(p, r)
<1>1. \A p \in Numbers : ~Before(p, p)
  BY DEF Before, Numbers
<1>2. ASSUME NEW p \in Numbers, NEW q \in Numbers, ~Before(p, q), ~Before(q, p)
      PROVE  p = q
  <2>1. p.trial = q.trial /\ p.group = q.group /\ p.rate = q.rate /\ p.turn = q.turn
    BY <1>2 DEF Before, Numbers
  <2> QED BY <2>1 DEF Numbers
<1>3. \A p, q, r \in Numbers : Before(p, q) /\ Before(q, r) => Before(p, r)
  BY DEF Before, Numbers
<1> QED BY <1>1, <1>2, <1>3

LEMMA PlacesAreNumbers ==
  ASSUME args \in Arguments
  PROVE  /\ Positions \subseteq Numbers /\ Origin \in Numbers /\ Origin \notin Positions
         /\ \A p \in Positions : Before(Origin, p)
<1>1. \A p \in Positions : p \in Numbers /\ p.trial >= 1
  BY PositionFacts, LineFacts DEF Numbers
<1>2. Origin \in Numbers /\ Origin.trial = 0
  BY DEF Origin, Numbers
<1> QED BY <1>1, <1>2 DEF Before, Numbers

(* The next iteration is passed, and all before it have been.                *)
LEMMA NextIsPassed ==
  ASSUME args \in Arguments, at \in Positions \cup {Origin}, NEW p \in NextPositions
  PROVE  /\ p \in Positions /\ p \notin Visited /\ Before(at, p)
         /\ \A q \in Positions : Before(q, p) <=> q \in Visited
         /\ \A q \in Positions : ~Before(p, q) <=> q \in Visited \cup {p}
<1>1. p \in Left /\ p \in Positions /\ Before(at, p) /\ \A q \in Left : ~Before(q, p)
  BY DEF NextPositions, Left
<1>2. at \in Numbers /\ p \in Numbers /\ \A q \in Positions : q \in Numbers
  BY <1>1, PlacesAreNumbers
<1>3. ASSUME NEW q \in Positions
      PROVE  Before(q, p) <=> q \in Visited
  <2>1. CASE q \in Left
    BY <1>1, <2>1 DEF Visited
  <2>2. CASE q \notin Left
    <3>1. ~Before(at, q) /\ q \in Visited
      BY <2>2 DEF Left, Visited
    <3>2. Before(q, at) \/ q = at
      BY <1>2, <3>1, OrderIsTotal
    <3> QED BY <1>1, <1>2, <3>1, <3>2, OrderIsTotal
  <2> QED BY <2>1, <2>2
<1>4. ASSUME NEW q \in Positions
      PROVE  ~Before(p, q) <=> q \in Visited \cup {p}
  BY <1>2, <1>3, <1>4, OrderIsTotal
<1> QED BY <1>1, <1>3, <1>4 DEF Visited

(* The loops end when nothing is left.                                       *)
LEMMA NothingIsLeft ==
  ASSUME args \in Arguments, NextPositions = {}
  PROVE  Visited = Positions
<1> SUFFICES ASSUME Left # {}
             PROVE  FALSE
  BY DEF Visited, Left
<1>1. PICK L : L = Left
  OBVIOUS
<1>2. L # {} /\ L \subseteq Numbers
  BY <1>1, PlacesAreNumbers DEF Left
<1> DEFINE T == {p.trial : p \in L}
<1>3. PICK t \in T : \A m \in T : t <= m
  <2>1. T \in SUBSET Nat /\ T # {}
    BY <1>2 DEF Numbers
  <2> QED BY <2>1, LeastNumber
<1> DEFINE G == {p.group : p \in {q \in L : q.trial = t}}
<1>4. PICK g \in G : \A m \in G : g <= m
  <2>1. G \in SUBSET Nat /\ G # {}
    BY <1>2, <1>3 DEF Numbers
  <2> QED BY <2>1, LeastNumber
<1> DEFINE R == {p.rate : p \in {q \in L : q.trial = t /\ q.group = g}}
<1>5. PICK r \in R : \A m \in R : r <= m
  <2>1. R \in SUBSET Nat /\ R # {}
    BY <1>2, <1>4 DEF Numbers
  <2> QED BY <2>1, LeastNumber
<1> DEFINE U == {p.turn : p \in {q \in L : q.trial = t /\ q.group = g /\ q.rate = r}}
<1>6. PICK u \in U : \A m \in U : u <= m
  <2>1. U \in SUBSET Nat /\ U # {}
    BY <1>2, <1>5 DEF Numbers
  <2> QED BY <2>1, LeastNumber
<1>7. PICK p \in L : p.trial = t /\ p.group = g /\ p.rate = r /\ p.turn = u
  BY <1>6
<1>8. ASSUME NEW q \in L
      PROVE  ~Before(q, p)
  <2>1. t <= q.trial
    BY <1>3
  <2>2. q.trial = t => g <= q.group
    BY <1>4
  <2>3. q.trial = t /\ q.group = g => r <= q.rate
    BY <1>5
  <2>4. q.trial = t /\ q.group = g /\ q.rate = r => u <= q.turn
    BY <1>6
  <2> HIDE DEF T, G, R, U
  <2>5. p \in Numbers /\ q \in Numbers
    BY <1>2
  <2> QED BY <1>7, <2>1, <2>2, <2>3, <2>4, <2>5 DEF Before, Numbers
<1>9. p \in NextPositions
  BY <1>1, <1>7, <1>8 DEF NextPositions
<1> QED BY <1>9

-----------------------------------------------------------------------------
(* What a step changes.                                                      *)

LEMMA Appended ==
  ASSUME NEW S, NEW s \in Seq(S), NEW x \in S
  PROVE  /\ Append(s, x) \in Seq(S)
         /\ Len(Append(s, x)) = Len(s) + 1 /\ Len(s) \in Nat
         /\ ToSet(Append(s, x)) = ToSet(s) \cup {x}
         /\ DOMAIN Append(s, x) = DOMAIN s \cup {Len(s) + 1} /\ Len(s) + 1 \notin DOMAIN s
         /\ \A i \in DOMAIN s : Append(s, x)[i] = s[i]
         /\ Append(s, x)[Len(s) + 1] = x
<1> DEFINE t == Append(s, x)
<1>1. /\ t \in Seq(S) /\ Len(t) = Len(s) + 1 /\ Len(s) \in Nat
      /\ \A i \in 1 .. Len(s) : t[i] = s[i]
      /\ t[Len(s) + 1] = x
  BY AppendProperties, LenProperties
<1>2. DOMAIN s = 1 .. Len(s) /\ DOMAIN t = 1 .. Len(t)
  BY <1>1, LenProperties
<1> HIDE DEF t
<1>3. DOMAIN t = DOMAIN s \cup {Len(s) + 1} /\ Len(s) + 1 \notin DOMAIN s
  BY <1>1, <1>2
<1>4. ToSet(t) = ToSet(s) \cup {x}
  BY <1>1, <1>2, <1>3 DEF ToSet
<1> QED BY <1>1, <1>2, <1>3, <1>4 DEF t

LEMMA SameArguments ==
  ASSUME args' = args
  PROVE  /\ Positions' = Positions /\ Cases' = Cases /\ groups' = groups /\ Outputs' = Outputs
         /\ \A p : CaseAt(p)' = CaseAt(p)
         /\ \A S : CasesAt(S)' = CasesAt(S)
         /\ \A c : SweepOf(c)' = SweepOf(c)
         /\ NoRepeats(args)' <=> NoRepeats(args)
BY DEF NoRepeats, Positions, Cases, groups, CaseAt, CasesAt, SweepOf, Outputs

LEMMA SamePlace ==
  ASSUME args' = args, at' = at
  PROVE  Visited' = Visited /\ NextPositions' = NextPositions /\ Left' = Left
BY DEF Visited, NextPositions, Left, Positions

(* The next iteration is passed.                                             *)
LEMMA Passing ==
  ASSUME args \in Arguments, at \in Positions \cup {Origin}, NEW p \in NextPositions,
         args' = args, at' = p
  PROVE  /\ Visited' = Visited \cup {p}
         /\ CasesAt(Visited)' = CasesAt(Visited) \cup {CaseAt(p)}
         /\ p \notin Visited /\ CaseAt(p) \in Cases
         /\ NoRepeats(args) => CaseAt(p) \notin CasesAt(Visited)
<1>1. /\ p \in Positions /\ p \notin Visited
      /\ \A q \in Positions : ~Before(p, q) <=> q \in Visited \cup {p}
  BY NextIsPassed
<1>2. Visited' = Visited \cup {p}
  <2>1. Visited \subseteq Positions
    BY DEF Visited
  <2>2. Visited' = {q \in Positions : ~Before(p, q)}
    BY DEF Visited, Left, Positions
  <2> QED BY <1>1, <2>1, <2>2
<1>3. CasesAt(Visited)' = CasesAt(Visited) \cup {CaseAt(p)}
  BY <1>2, SameArguments DEF CasesAt
<1>4. NoRepeats(args) => CaseAt(p) \notin CasesAt(Visited)
  <2> SUFFICES ASSUME NoRepeats(args), NEW q \in Visited, CaseAt(q) = CaseAt(p)
               PROVE  FALSE
    BY DEF CasesAt
  <2> QED BY <1>1, CaseFacts DEF Visited
<1>5. CaseAt(p) \in Cases
  BY <1>1, CasesOfPositions
<1> QED BY <1>1, <1>2, <1>3, <1>4, <1>5

(* Who is active at the next iteration: who has run nothing invalid in this  *)
(* sweep.                                                                    *)
LEMMA ActiveNow ==
  ASSUME ProgressInv, ActiveInv, pc = "sweeping", NEW p \in NextPositions
  PROVE  ActiveAt(p) = {l \in ToSet(args.implementations) :
                          \A q \in Visited : SameSweep(q, p) /\ CaseAt(q).label = l
                                               => Valid(CaseAt(q))}
<1>1. args \in Arguments /\ at \in Positions \cup {Origin} /\ Concluded = Visited
  BY DEF ProgressInv, Concluded
<1>2. /\ p \in Positions /\ Before(at, p) /\ \A q \in Visited : q \in Positions
      /\ \A q \in Visited : Before(q, p) /\ ~Before(at, q)
  BY <1>1, NextIsPassed DEF Visited, Left
<1>3. CASE SameSweep(at, p)
  <2>1. at \in Positions
    <3>1. p.trial >= 1 /\ Origin.trial = 0
      BY <1>1, <1>2, PositionFacts DEF Origin
    <3> QED BY <1>1, <1>3, <3>1 DEF SameSweep
  <2>2. ActiveAt(p) = active_implementations
    BY <1>3 DEF ActiveAt, SameSweep
  <2>3. \A q : SameSweep(q, p) <=> SameSweep(q, at)
    BY <1>3 DEF SameSweep
  <2> QED BY <1>1, <2>1, <2>2, <2>3 DEF ActiveInv
<1>4. CASE ~SameSweep(at, p)
  <2>1. ActiveAt(p) = ToSet(args.implementations)
    BY <1>4 DEF ActiveAt, SameSweep
  <2>2. ASSUME NEW q \in Visited, SameSweep(q, p)
        PROVE  FALSE
    <3>1. at \in Numbers /\ p \in Numbers /\ q \in Numbers
      BY <1>1, <1>2, PlacesAreNumbers
    <3>2. q = at \/ Before(q, at)
      BY <1>2, <3>1, OrderIsTotal
    <3> QED BY <1>2, <1>4, <2>2, <3>1, <3>2 DEF SameSweep, Before, Numbers
  <2> QED BY <2>1, <2>2
<1> QED BY <1>3, <1>4

(* Cases of one sweep in the order of the loops.                             *)
LEMMA SweepOrder ==
  ASSUME args \in Arguments, NoRepeats(args), NEW p \in Positions, NEW q \in Positions
  PROVE  /\ CaseAt(q) \in SweepOf(CaseAt(p))
              <=> SameSweep(q, p) /\ CaseAt(q).label = CaseAt(p).label
         /\ SameSweep(q, p) /\ CaseAt(q).rate < CaseAt(p).rate => Before(q, p)
         /\ SameSweep(q, p) /\ CaseAt(q).label = CaseAt(p).label /\ Before(q, p)
              => CaseAt(q).rate < CaseAt(p).rate
<1>1. CaseAt(q) \in Cases
  BY CasesOfPositions
<1>2. CaseAt(p).trial = p.trial /\ CaseAt(q).trial = q.trial
  BY CaseFields
<1>3. /\ SameGroup(CaseAt(p), CaseAt(q)) <=> p.group = q.group
      /\ p.group = q.group => (CaseAt(q).rate < CaseAt(p).rate <=> q.rate < p.rate)
      /\ p.trial = q.trial => (CaseAt(p).label = CaseAt(q).label <=> p.turn = q.turn)
  BY CaseFacts
<1>4. p \in Numbers /\ q \in Numbers
  BY PlacesAreNumbers
<1>5. CaseAt(q) \in SweepOf(CaseAt(p)) <=> SameSweep(q, p) /\ CaseAt(q).label = CaseAt(p).label
  BY <1>1, <1>2, <1>3 DEF SweepOf, SameSweep
<1>6. SameSweep(q, p) /\ CaseAt(q).rate < CaseAt(p).rate => Before(q, p)
  BY <1>3, <1>4 DEF SameSweep, Before, Numbers
<1>7. SameSweep(q, p) /\ CaseAt(q).label = CaseAt(p).label /\ Before(q, p)
        => CaseAt(q).rate < CaseAt(p).rate
  BY <1>3, <1>4 DEF SameSweep, Before, Numbers
<1> QED BY <1>5, <1>6, <1>7

-----------------------------------------------------------------------------
(* The loops, for every command line.                                        *)

LoopInv == ProgressInv /\ RecordsInv /\ OutcomeInv

LEMMA EmptyRecords ==
  /\ ToSet(<< >>) = {} /\ Len(<< >>) = 0 /\ DOMAIN << >> = {}
  /\ \A S : << >> \in Seq(S)
<1>1. Len(<< >>) = 0 /\ \A S : << >> \in Seq(S)
  BY EmptySeq
<1>2. DOMAIN << >> = {}
  BY <1>1, LenProperties
<1> QED BY <1>1, <1>2 DEF ToSet

LEMMA LoopInit == Init => LoopInv
<1> SUFFICES ASSUME Init
             PROVE  LoopInv
  OBVIOUS
<1>1. /\ args \in Arguments /\ pc = "naming" /\ at = Origin
      /\ commands = << >> /\ skipped = << >> /\ outcome = << >>
  BY DEF Init, Origin
<1>2. Visited = {} /\ CasesAt({}) = {}
  BY <1>1, PlacesAreNumbers DEF Visited, Left, CasesAt
<1>3. ProgressInv
  BY <1>1 DEF ProgressInv
<1>4. RecordsInv
  BY <1>1, <1>2, EmptyRecords, FS_EmptySet DEF RecordsInv
<1>5. OutcomeInv
  BY <1>1, EmptyRecords DEF OutcomeInv
<1> QED BY <1>3, <1>4, <1>5 DEF LoopInv

(* Nothing is recorded.                                                      *)
LEMMA LoopFrame ==
  ASSUME LoopInv, UNCHANGED <<args, at, commands, skipped, outcome>>,
         Concluded \subseteq Concluded', pc' = "running" => pc = "running"
  PROVE  RecordsInv' /\ OutcomeInv'
<1>1. RecordsInv'
  BY SameArguments, SamePlace DEF LoopInv, RecordsInv
<1>2. OutcomeInv'
  <2>1. \A S, T : S \subseteq T => CasesAt(S) \subseteq CasesAt(T)
    BY DEF CasesAt
  <2>2. CasesAt(Concluded)' = CasesAt(Concluded')
    BY DEF CasesAt, CaseAt
  <2> QED BY <2>1, <2>2, SameArguments DEF LoopInv, OutcomeInv
<1> QED BY <1>1, <1>2

(* A new record.                                                             *)
LEMMA RecordedOnce ==
  ASSUME LoopInv, NEW p \in NextPositions, args' = args, at' = p,
         \/ commands' = Append(commands, CaseAt(p)) /\ skipped' = skipped
         \/ skipped' = Append(skipped, CaseAt(p)) /\ commands' = commands
  PROVE  RecordsInv'
<1>1. /\ CasesAt(Visited)' = CasesAt(Visited) \cup {CaseAt(p)} /\ Visited' = Visited \cup {p}
      /\ p \notin Visited /\ CaseAt(p) \in Cases
  BY Passing DEF LoopInv, ProgressInv
<1>2. /\ commands \in Seq(Cases) /\ skipped \in Seq(Cases)
      /\ CasesAt(Visited) = ToSet(commands) \cup ToSet(skipped)
      /\ IsFiniteSet(Visited)
      /\ Cardinality(Visited) = Len(commands) + Len(skipped)
      /\ Len(commands) \in Nat /\ Len(skipped) \in Nat
  BY LenProperties DEF LoopInv, RecordsInv
<1>3. PICK c, V : c = CaseAt(p) /\ V = Visited
  OBVIOUS
<1>4. IsFiniteSet(V \cup {p}) /\ Cardinality(V \cup {p}) = Cardinality(V) + 1
  BY <1>1, <1>2, <1>3, FS_AddElement
<1>5. /\ commands' \in Seq(Cases) /\ skipped' \in Seq(Cases)
      /\ ToSet(commands') \cup ToSet(skipped') = CasesAt(V) \cup {c}
      /\ Len(commands') + Len(skipped') = Cardinality(V) + 1
  <2>1. CASE commands' = Append(commands, c) /\ skipped' = skipped
    BY <1>1, <1>2, <1>3, <2>1, Appended
  <2>2. CASE skipped' = Append(skipped, c) /\ commands' = commands
    BY <1>1, <1>2, <1>3, <2>2, Appended
  <2> QED BY <1>3, <2>1, <2>2
<1>6. ToSet(commands)' = ToSet(commands') /\ ToSet(skipped)' = ToSet(skipped')
  BY DEF ToSet
<1>7. Cases' = Cases
  BY SameArguments
<1> QED BY <1>1, <1>3, <1>4, <1>5, <1>6, <1>7 DEF RecordsInv

LEMMA SkipLoop ==
  ASSUME LoopInv, NEW p \in NextPositions, Skip(p)
  PROVE  LoopInv'
<1>1. /\ pc = "sweeping" /\ pc' = pc /\ args' = args /\ at' = p /\ commands' = commands
      /\ outcome' = outcome /\ skipped' = Append(skipped, CaseAt(p))
  BY DEF Skip, runVars
<1>2. args \in Arguments /\ at \in Positions \cup {Origin} /\ p \in Positions
  BY NextIsPassed DEF LoopInv, ProgressInv
<1>3. Visited' = Visited \cup {p} /\ Concluded = Visited /\ Concluded' = Visited'
  BY <1>1, <1>2, Passing DEF Concluded
<1>4. ProgressInv'
  BY <1>1, <1>2, SameArguments DEF ProgressInv
<1>5. RecordsInv'
  BY <1>1, RecordedOnce
<1>6. OutcomeInv'
  <2>1. CasesAt(Concluded) \subseteq CasesAt(Concluded)'
    BY <1>1, <1>3, SameArguments DEF CasesAt
  <2> QED BY <1>1, <2>1 DEF LoopInv, OutcomeInv
<1> QED BY <1>4, <1>5, <1>6 DEF LoopInv

LEMMA StartLoop ==
  ASSUME LoopInv, NEW p \in NextPositions, Start(p)
  PROVE  LoopInv'
<1>1. /\ pc = "sweeping" /\ pc' = "running" /\ args' = args /\ at' = p /\ skipped' = skipped
      /\ outcome' = outcome /\ commands' = Append(commands, CaseAt(p))
  BY DEF Start
<1>2. args \in Arguments /\ at \in Positions \cup {Origin} /\ p \in Positions
  BY NextIsPassed DEF LoopInv, ProgressInv
<1>3. /\ Concluded = Visited /\ Concluded' = Visited /\ CaseAt(p) \in Cases
  BY <1>1, <1>2, Passing DEF Concluded
<1>4. ProgressInv'
  BY <1>1, <1>2, SameArguments DEF ProgressInv
<1>5. RecordsInv'
  BY <1>1, RecordedOnce
<1>6. commands \in Seq(Cases) /\ ToSet(commands') = ToSet(commands) \cup {CaseAt(p)}
  BY <1>1, <1>3, Appended DEF LoopInv, RecordsInv
<1>7. OutcomeInv'
  <2>1. CasesAt(Concluded)' = CasesAt(Concluded)
    BY <1>1, <1>3, SameArguments DEF CasesAt
  <2>2. ToSet(commands)' = ToSet(commands') /\ CaseAt(at)' = CaseAt(p)
    BY <1>1, SameArguments DEF ToSet, CaseAt
  <2> QED BY <1>1, <1>6, <2>1, <2>2 DEF LoopInv, OutcomeInv
<1> QED BY <1>4, <1>5, <1>7 DEF LoopInv

(* The current iteration is the last that was passed.                        *)
LEMMA CurrentIsVisited ==
  ASSUME LoopInv, pc = "running", pc' = "sweeping", UNCHANGED <<args, at>>
  PROVE  /\ args \in Arguments /\ at \in Positions /\ at \in Visited /\ Visited \subseteq Positions
         /\ Concluded = Visited \ {at} /\ Concluded' = Visited /\ Visited' = Visited
<1>1. args \in Arguments /\ at \in Positions
  BY DEF LoopInv, ProgressInv
<1>2. at \in Visited
  BY <1>1, PlacesAreNumbers, OrderIsTotal DEF Visited, Left
<1> QED BY <1>1, <1>2, SamePlace DEF Concluded, Visited

(* A result: the case becomes known.                                         *)
LEMMA ConcludeLoop ==
  ASSUME LoopInv, pc = "running", pc' = "sweeping",
         UNCHANGED <<args, at, commands, skipped>>,
         NEW result \in {"failed", "invalid", "valid"},
         outcome' = [d \in DOMAIN outcome \cup {CaseAt(at)} |->
                       IF d = CaseAt(at) THEN result ELSE outcome[d]]
  PROVE  LoopInv'
<1>1. /\ args \in Arguments /\ at \in Positions /\ at \in Visited
      /\ Concluded = Visited \ {at} /\ Concluded' = Visited /\ Visited' = Visited
  BY CurrentIsVisited
<1>2. PICK c : c = CaseAt(at)
  OBVIOUS
<1>3. /\ DOMAIN outcome' = DOMAIN outcome \cup {c}
      /\ \A d \in DOMAIN outcome' : outcome'[d] = result
                                    \/ (d \in DOMAIN outcome /\ outcome'[d] = outcome[d])
  BY <1>2
<1>4. ProgressInv'
  BY <1>1, SameArguments DEF LoopInv, ProgressInv
<1>5. RecordsInv'
  BY SameArguments, SamePlace DEF LoopInv, RecordsInv
<1>6. OutcomeInv'
  <2>1. CasesAt(Concluded)' = CasesAt(Visited)
    BY <1>1, SameArguments DEF CasesAt
  <2>2. CasesAt(Concluded) \subseteq CasesAt(Visited) /\ c \in CasesAt(Visited)
    BY <1>1, <1>2 DEF CasesAt
  <2>3. c \in ToSet(commands) /\ ToSet(commands)' = ToSet(commands)
    BY <1>2 DEF LoopInv, OutcomeInv, ToSet
  <2>4. \A d \in DOMAIN outcome' : outcome'[d] \in {"failed", "invalid", "valid"}
    BY <1>3 DEF LoopInv, OutcomeInv
  <2> QED BY <1>3, <2>1, <2>2, <2>3, <2>4 DEF LoopInv, OutcomeInv
<1> QED BY <1>4, <1>5, <1>6 DEF LoopInv

(* What Fail and Finish have in common.                                      *)
LEMMA Concluding ==
  ASSUME Fail \/ \E valid \in BOOLEAN : Finish(valid)
  PROVE  \E result \in {"failed", "invalid", "valid"} :
           /\ pc = "running" /\ pc' = "sweeping" /\ UNCHANGED <<args, at, commands, skipped>>
           /\ outcome' = [d \in DOMAIN outcome \cup {CaseAt(at)} |->
                            IF d = CaseAt(at) THEN result ELSE outcome[d]]
           /\ active_implementations' = IF result = "valid" THEN active_implementations
                                          ELSE active_implementations \ {CaseAt(at).label}
<1>1. CASE Fail
  <2> WITNESS "failed" \in {"failed", "invalid", "valid"}
  <2> QED BY <1>1 DEF Fail
<1>2. ASSUME NEW valid \in BOOLEAN, Finish(valid)
      PROVE  \E result \in {"failed", "invalid", "valid"} :
           /\ pc = "running" /\ pc' = "sweeping" /\ UNCHANGED <<args, at, commands, skipped>>
           /\ outcome' = [d \in DOMAIN outcome \cup {CaseAt(at)} |->
                            IF d = CaseAt(at) THEN result ELSE outcome[d]]
           /\ active_implementations' = IF result = "valid" THEN active_implementations
                                          ELSE active_implementations \ {CaseAt(at).label}
  <2>1. CASE valid
    <3> WITNESS "valid" \in {"failed", "invalid", "valid"}
    <3> QED BY <1>2, <2>1 DEF Finish
  <2>2. CASE ~valid
    <3> WITNESS "invalid" \in {"failed", "invalid", "valid"}
    <3> QED BY <1>2, <2>2 DEF Finish
  <2> QED BY <2>1, <2>2
<1> QED BY <1>1, <1>2

(* Before the sweep, and after it.                                           *)
LEMMA OutsideTheLoops ==
  ASSUME LoopInv,
         \/ TryName \/ MakeDirectory \/ OtherDirectory
         \/ EndSweep \/ Interrupt \/ write_summaries \/ UNCHANGED vars
  PROVE  /\ UNCHANGED <<args, at, active_implementations, commands, skipped, outcome>>
         /\ Concluded \subseteq Concluded' /\ (pc' = "running" => pc = "running")
         /\ (pc' = pc /\ Concluded' = Concluded)
            \/ pc' \notin {"sweeping", "running"} \/ at = Origin
         /\ ProgressInv'
<1>0. args \in Arguments /\ at \in Positions \cup {Origin}
  BY DEF LoopInv, ProgressInv
<1>1. CASE TryName \/ MakeDirectory \/ OtherDirectory
  <2>1. /\ UNCHANGED <<args, at, active_implementations, commands, skipped, outcome>>
        /\ pc \in {"naming", "creating"}
        /\ pc' \in {"naming", "creating", "sweeping", "raised"}
    BY <1>1 DEF TryName, MakeDirectory, OtherDirectory, sweepVars, runVars
  <2>2. at = Origin /\ Concluded' = Concluded
    BY <2>1, SamePlace DEF LoopInv, ProgressInv, Concluded
  <2>3. ProgressInv'
    BY <1>0, <2>1, <2>2 DEF ProgressInv
  <2> QED BY <2>1, <2>2, <2>3
<1>2. CASE EndSweep \/ Interrupt \/ write_summaries \/ UNCHANGED vars
  <2>1. /\ UNCHANGED <<args, at, active_implementations, commands, skipped, outcome>>
        /\ pc' \in {"summarizing", "raised", "done"} \/ pc' = pc
        /\ pc' = "summarizing" /\ pc # "summarizing" => NextPositions = {}
        /\ pc' = "done" /\ pc # "done" => pc = "summarizing"
    BY <1>2 DEF EndSweep, Interrupt, write_summaries, vars, sweepVars, runVars
  <2>2. Concluded \subseteq Concluded' /\ Visited' = Visited /\ Positions' = Positions
        /\ (pc' = pc => Concluded' = Concluded)
    BY <2>1, SamePlace, SameArguments DEF Concluded
  <2>3. ProgressInv'
    BY <1>0, <2>1, <2>2, NothingIsLeft DEF LoopInv, ProgressInv
  <2> QED BY <2>1, <2>2, <2>3
<1> QED BY <1>1, <1>2

LEMMA LoopNext == LoopInv /\ [Next]_vars => LoopInv'
<1> SUFFICES ASSUME LoopInv, [Next]_vars
             PROVE  LoopInv'
  OBVIOUS
<1>1. CASE \E p \in NextPositions : Skip(p) \/ Start(p)
  BY <1>1, SkipLoop, StartLoop
<1>2. CASE Fail \/ \E valid \in BOOLEAN : Finish(valid)
  BY <1>2, Concluding, ConcludeLoop
<1>3. CASE \/ TryName \/ MakeDirectory \/ OtherDirectory
           \/ EndSweep \/ Interrupt \/ write_summaries \/ UNCHANGED vars
  BY <1>3, OutsideTheLoops, LoopFrame DEF LoopInv
<1> QED BY <1>1, <1>2, <1>3 DEF Next

-----------------------------------------------------------------------------
(* The sweep of a command line that names nothing twice.                     *)

SweepInv ==
  /\ ProgressInv /\ RecordsInv /\ OutcomeInv
  /\ NoRepeats(args) /\ ActiveInv /\ ThresholdInv

LEMMA SweepIsLoop == SweepInv => LoopInv
BY DEF SweepInv, LoopInv

LEMMA SweepInit == Init /\ NoRepeats(args) => SweepInv
<1> SUFFICES ASSUME Init, NoRepeats(args)
             PROVE  SweepInv
  OBVIOUS
<1>1. pc = "naming" /\ commands = << >> /\ skipped = << >>
  BY DEF Init
<1>2. ActiveInv /\ ThresholdInv
  BY <1>1, EmptyRecords DEF ActiveInv, ThresholdInv
<1> QED BY <1>2, LoopInit DEF SweepInv, LoopInv

LEMMA SkipSweep ==
  ASSUME SweepInv, NEW p \in NextPositions, Skip(p)
  PROVE  SweepInv'
<1>1. /\ pc = "sweeping" /\ pc' = pc /\ args' = args /\ at' = p /\ commands' = commands
      /\ outcome' = outcome /\ skipped' = Append(skipped, CaseAt(p))
      /\ active_implementations' = ActiveAt(p) /\ CaseAt(p).label \notin ActiveAt(p)
  BY DEF Skip, runVars
<1>2. args \in Arguments /\ NoRepeats(args) /\ at \in Positions \cup {Origin}
  BY DEF SweepInv, ProgressInv
<1>3. /\ p \in Positions /\ p \notin Visited /\ Visited \subseteq Positions
      /\ \A q \in Visited : Before(q, p)
  BY <1>2, NextIsPassed DEF Visited
<1>4. /\ Visited' = Visited \cup {p} /\ CaseAt(p) \notin CasesAt(Visited)
      /\ Concluded = Visited /\ Concluded' = Visited'
  BY <1>1, <1>2, Passing DEF Concluded
<1>5. LoopInv' /\ NoRepeats(args)'
  BY <1>1, <1>2, SweepIsLoop, SkipLoop, SameArguments
<1>7. \A c : Valid(c)' = Valid(c) /\ SweepOf(c)' = SweepOf(c)
  BY <1>1, SameArguments DEF Valid
<1>9. ActiveAt(p) = {l \in ToSet(args.implementations) :
                       \A q \in Visited : SameSweep(q, p) /\ CaseAt(q).label = l
                                            => Valid(CaseAt(q))}
  BY <1>1, ActiveNow DEF SweepInv
<1>10. ~Valid(CaseAt(p))
  BY <1>4 DEF Valid, SweepInv, OutcomeInv
<1>11. ActiveInv'
  <2>1. ActiveAt(p) = {l \in ToSet(args.implementations) :
                         \A q \in Visited \cup {p} : SameSweep(q, p) /\ CaseAt(q).label = l
                                                       => Valid(CaseAt(q))}
    BY <1>1, <1>9, <1>10 DEF SameSweep
  <2>2. \A q : CaseAt(q)' = CaseAt(q)
    BY <1>1, SameArguments
  <2> QED BY <1>1, <1>4, <1>7, <2>1, <2>2 DEF ActiveInv
<1>12. InvalidBelow(CaseAt(p))
  <2>1. CaseAt(p).label \in ToSet(args.implementations)
    BY <1>2, <1>3, CaseFields
  <2>2. PICK q \in Visited : /\ SameSweep(q, p) /\ CaseAt(q).label = CaseAt(p).label
                             /\ ~Valid(CaseAt(q))
    BY <1>1, <1>9, <2>1
  <2>3. CaseAt(q) \in SweepOf(CaseAt(p)) /\ CaseAt(q).rate < CaseAt(p).rate
    BY <1>2, <1>3, <2>2, SweepOrder
  <2> QED BY <1>4, <2>2, <2>3 DEF InvalidBelow
<1>13. ThresholdInv'
  <2>1. \A c : ValidSoFar(c) => ValidSoFar(c)'
    BY <1>7 DEF ValidSoFar, Valid
  <2>2. \A c : InvalidBelow(c) => InvalidBelow(c)'
    BY <1>1, <1>4, <1>7, SameArguments DEF InvalidBelow
  <2>3. skipped \in Seq(Cases) /\ CaseAt(p) \in Cases
    BY <1>1, <1>2, Passing DEF SweepInv, RecordsInv
  <2>4. \A i \in DOMAIN skipped' : InvalidBelow(skipped'[i])
    BY <1>1, <1>12, <2>3, Appended DEF SweepInv, ThresholdInv
  <2>5. \A i \in DOMAIN skipped' : InvalidBelow(skipped[i])'
    BY <2>2, <2>4
  <2> QED BY <1>1, <2>1, <2>5 DEF SweepInv, ThresholdInv
<1> QED BY <1>5, <1>11, <1>13 DEF SweepInv, LoopInv

LEMMA StartSweep ==
  ASSUME SweepInv, NEW p \in NextPositions, Start(p)
  PROVE  SweepInv'
<1>1. /\ pc = "sweeping" /\ pc' = "running" /\ args' = args /\ at' = p /\ skipped' = skipped
      /\ outcome' = outcome /\ commands' = Append(commands, CaseAt(p))
      /\ active_implementations' = ActiveAt(p) /\ CaseAt(p).label \in ActiveAt(p)
  BY DEF Start
<1>2. args \in Arguments /\ NoRepeats(args) /\ at \in Positions \cup {Origin}
  BY DEF SweepInv, ProgressInv
<1>3. /\ p \in Positions /\ p \notin Visited /\ Visited \subseteq Positions
      /\ \A q \in Positions : Before(q, p) <=> q \in Visited
  BY <1>2, NextIsPassed DEF Visited
<1>4. /\ Visited' = Visited \cup {p} /\ Concluded = Visited /\ Concluded' = Visited
      /\ CaseAt(p) \in Cases
  BY <1>1, <1>2, <1>3, Passing DEF Concluded
<1>5. LoopInv' /\ NoRepeats(args)'
  BY <1>1, <1>2, SweepIsLoop, StartLoop, SameArguments
<1>7. \A c : Valid(c)' = Valid(c) /\ SweepOf(c)' = SweepOf(c) /\ CaseAt(c)' = CaseAt(c)
  BY <1>1, SameArguments DEF Valid
<1>8. commands \in Seq(Cases) /\ ToSet(commands') = ToSet(commands) \cup {CaseAt(p)}
  BY <1>1, <1>4, Appended DEF SweepInv, RecordsInv
<1>10. ActiveAt(p) = {l \in ToSet(args.implementations) :
                       \A q \in Visited : SameSweep(q, p) /\ CaseAt(q).label = l
                                            => Valid(CaseAt(q))}
  BY <1>1, ActiveNow DEF SweepInv
<1>11. ActiveInv'
  BY <1>1, <1>4, <1>7, <1>10 DEF ActiveInv
<1>12. ValidSoFar(CaseAt(p))
  <2> SUFFICES ASSUME NEW d \in SweepOf(CaseAt(p)), d.rate < CaseAt(p).rate
               PROVE  Valid(d)
    BY DEF ValidSoFar, Valid
  <2>1. PICK q \in Positions : d = CaseAt(q)
    BY CasesOfPositions DEF SweepOf
  <2>2. SameSweep(q, p) /\ CaseAt(q).label = CaseAt(p).label /\ q \in Visited
    BY <1>2, <1>3, <2>1, SweepOrder
  <2> QED BY <1>1, <1>10, <2>1, <2>2
<1>13. ThresholdInv'
  <2>1. \A c : ValidSoFar(c) => ValidSoFar(c)'
    BY <1>7 DEF ValidSoFar, Valid
  <2>2. \A c : InvalidBelow(c) => InvalidBelow(c)'
    BY <1>4, <1>7 DEF InvalidBelow
  <2>3. \A i \in DOMAIN commands' : ValidSoFar(commands'[i])
    BY <1>1, <1>4, <1>8, <1>12, Appended DEF SweepInv, ThresholdInv
  <2>4. \A i \in DOMAIN commands' : ValidSoFar(commands[i])'
    BY <2>1, <2>3
  <2> QED BY <1>1, <2>2, <2>4 DEF SweepInv, ThresholdInv
<1> QED BY <1>5, <1>11, <1>13 DEF SweepInv, LoopInv

(* A result: the case becomes known, and its server stays active if it was   *)
(* valid.                                                                    *)
LEMMA ConcludeSweep ==
  ASSUME SweepInv, pc = "running", pc' = "sweeping",
         UNCHANGED <<args, at, commands, skipped>>,
         NEW result \in {"failed", "invalid", "valid"},
         outcome' = [d \in DOMAIN outcome \cup {CaseAt(at)} |->
                       IF d = CaseAt(at) THEN result ELSE outcome[d]],
         active_implementations' = IF result = "valid" THEN active_implementations
                                     ELSE active_implementations \ {CaseAt(at).label}
  PROVE  SweepInv' /\ CaseAt(at) \notin DOMAIN outcome
<1>1. args \in Arguments /\ NoRepeats(args) /\ at \in Positions
  BY DEF SweepInv, ProgressInv
<1>2. /\ Concluded = Visited \ {at} /\ Concluded' = Visited /\ Visited' = Visited
      /\ at \in Visited /\ Visited \subseteq Positions
  BY SweepIsLoop, CurrentIsVisited
<1>3. PICK c : c = CaseAt(at)
  OBVIOUS
<1>4. \A p \in Concluded : CaseAt(p) # c
  BY <1>1, <1>2, <1>3, CaseFacts
<1>5. c \notin DOMAIN outcome
  BY <1>4 DEF SweepInv, OutcomeInv, CasesAt
<1>6. /\ DOMAIN outcome' = DOMAIN outcome \cup {c} /\ outcome'[c] = result
      /\ \A d \in DOMAIN outcome : outcome'[d] = outcome[d]
  BY <1>3, <1>5
<1>7. /\ \A d : d # c => (Valid(d)' <=> Valid(d))
      /\ Valid(c)' <=> result = "valid"
      /\ \A d : Valid(d) => Valid(d)'
  BY <1>5, <1>6 DEF Valid
<1>8. \A d : SweepOf(d)' = SweepOf(d) /\ CaseAt(d)' = CaseAt(d)
  BY SameArguments
<1>9. LoopInv' /\ NoRepeats(args)'
  BY <1>1, SweepIsLoop, ConcludeLoop, SameArguments
<1>12. ActiveInv'
  <2>1. active_implementations =
          {l \in ToSet(args.implementations) :
             \A p \in Concluded : SameSweep(p, at) /\ CaseAt(p).label = l => Valid(CaseAt(p))}
    BY <1>1 DEF SweepInv, ActiveInv
  <2>2. \A p \in Concluded : Valid(CaseAt(p))' <=> Valid(CaseAt(p))
    BY <1>4, <1>7, <1>8
  <2>3. active_implementations' =
          {l \in ToSet(args.implementations) :
             \A p \in Visited : SameSweep(p, at) /\ CaseAt(p).label = l
                                  => Valid(CaseAt(p))'}
    <3>1. SameSweep(at, at) /\ (Valid(CaseAt(at))' <=> result = "valid")
      BY <1>3, <1>7, <1>8 DEF SameSweep
    <3>2. \A l : (\A p \in Visited : SameSweep(p, at) /\ CaseAt(p).label = l
                                       => Valid(CaseAt(p))')
                 <=> /\ \A p \in Concluded : SameSweep(p, at) /\ CaseAt(p).label = l
                                              => Valid(CaseAt(p))
                     /\ CaseAt(at).label = l => result = "valid"
      BY <1>2, <2>2, <3>1
    <3>3. CASE result = "valid"
      BY <2>1, <3>2, <3>3
    <3>4. CASE result # "valid"
      BY <2>1, <3>2, <3>4
    <3> QED BY <3>3, <3>4
  <2> QED BY <1>2, <1>8, <2>3 DEF ActiveInv, SameSweep
<1>13. ThresholdInv'
  <2>1. \A d : ValidSoFar(d) => ValidSoFar(d)'
    BY <1>7, <1>8 DEF ValidSoFar, Valid
  <2>2. \A d : InvalidBelow(d) => InvalidBelow(d)'
    <3> SUFFICES ASSUME NEW d, NEW p \in Concluded, CaseAt(p) \in SweepOf(d),
                        CaseAt(p).rate < d.rate, ~Valid(CaseAt(p))
                 PROVE  InvalidBelow(d)'
      BY DEF InvalidBelow
    <3>1. ~Valid(CaseAt(p))' /\ p \in Concluded'
      BY <1>2, <1>4, <1>7, <1>8
    <3> QED BY <1>8, <3>1 DEF InvalidBelow
  <2> QED BY <2>1, <2>2 DEF SweepInv, ThresholdInv
<1> QED BY <1>3, <1>5, <1>9, <1>12, <1>13 DEF SweepInv, LoopInv

LEMMA SweepNext == SweepInv /\ [Next]_vars => SweepInv'
<1> SUFFICES ASSUME SweepInv, [Next]_vars
             PROVE  SweepInv'
  OBVIOUS
<1>1. CASE \E p \in NextPositions : Skip(p) \/ Start(p)
  BY <1>1, SkipSweep, StartSweep
<1>2. CASE Fail \/ \E valid \in BOOLEAN : Finish(valid)
  BY <1>2, Concluding, ConcludeSweep
<1>3. CASE \/ TryName \/ MakeDirectory \/ OtherDirectory
           \/ EndSweep \/ Interrupt \/ write_summaries \/ UNCHANGED vars
  <2>1. /\ UNCHANGED <<args, at, active_implementations, commands, skipped, outcome>>
        /\ Concluded \subseteq Concluded'
        /\ (pc' = pc /\ Concluded' = Concluded)
           \/ pc' \notin {"sweeping", "running"} \/ at = Origin
    BY <1>3, SweepIsLoop, OutsideTheLoops
  <2>2. LoopInv' /\ NoRepeats(args)'
    BY <2>1, SweepIsLoop, LoopNext, SameArguments DEF SweepInv
  <2>3. \A c : Valid(c)' = Valid(c) /\ SweepOf(c)' = SweepOf(c)
    BY <2>1, SameArguments DEF Valid
  <2>4. ActiveInv'
    <3>1. CASE pc' = pc /\ Concluded' = Concluded
      BY <2>1, <3>1, SameArguments DEF SweepInv, ActiveInv, Valid, SameSweep
    <3>2. CASE pc' \notin {"sweeping", "running"} \/ at = Origin
      <4>1. at' \in Positions' => at # Origin
        BY <2>1, SameArguments, PlacesAreNumbers DEF SweepInv, ProgressInv
      <4> QED BY <2>1, <3>2, <4>1 DEF ActiveInv
    <3> QED BY <2>1, <3>1, <3>2
  <2>5. ThresholdInv'
    <3>1. \A c : ValidSoFar(c) => ValidSoFar(c)'
      BY <2>1, <2>3 DEF ValidSoFar
    <3>2. \A c : InvalidBelow(c) => InvalidBelow(c)'
      BY <2>1, <2>3, SameArguments DEF InvalidBelow
    <3> QED BY <2>1, <3>1, <3>2 DEF SweepInv, ThresholdInv
  <2> QED BY <2>2, <2>4, <2>5 DEF SweepInv, LoopInv
<1> QED BY <1>1, <1>2, <1>3 DEF Next

-----------------------------------------------------------------------------
(* The files and what is made of them.                                       *)

LEMMA OutputsDiffer ==
  ASSUME args \in Arguments, NEW c \in Cases, NEW d \in Cases
  PROVE  output(c) \in Outputs /\ (output(c) = output(d) => c = d)
<1>1. PICK p \in Positions, q \in Positions : c = CaseAt(p) /\ d = CaseAt(q)
  BY CasesOfPositions
<1>2. /\ c = [trial |-> p.trial, experiment |-> groups[p.group].experiment,
              total |-> groups[p.group].total, active |-> groups[p.group].active,
              rate |-> groups[p.group].rates[p.rate], label |-> c.label]
      /\ d = [trial |-> q.trial, experiment |-> groups[q.group].experiment,
              total |-> groups[q.group].total, active |-> groups[q.group].active,
              rate |-> groups[q.group].rates[q.rate], label |-> d.label]
  BY <1>1, CaseFields
<1>3. /\ c = [trial |-> c.trial, experiment |-> c.experiment, total |-> c.total,
              active |-> c.active, rate |-> c.rate, label |-> c.label]
      /\ d = [trial |-> d.trial, experiment |-> d.experiment, total |-> d.total,
              active |-> d.active, rate |-> d.rate, label |-> d.label]
  BY <1>2
<1>4. output(c) = output(d) =>
        /\ c.trial = d.trial /\ c.experiment = d.experiment /\ c.total = d.total
        /\ c.active = d.active /\ c.rate = d.rate /\ c.label = d.label
  BY DEF output
<1> QED BY <1>3, <1>4 DEF Outputs

LEMMA ResultsAreCases ==
  ASSUME SweepInv
  PROVE  DOMAIN outcome \subseteq Cases /\ Completed \subseteq Cases
<1>1. Concluded \subseteq Positions
  BY DEF Concluded, Visited
<1> QED BY <1>1 DEF SweepInv, OutcomeInv, CasesAt, Cases, Positions, CaseAt, Range, Completed

(* A file has the name of the case that is in it, for every command line.    *)
NamesInv == \A o \in DOMAIN files : files[o].case \in Cases /\ output(files[o].case) = o

LEMMA NamesNext ==
  ASSUME LoopInv, NamesInv, [Next]_vars
  PROVE  /\ NamesInv'
         /\ \A o \in DOMAIN files : o \in DOMAIN files' /\ files'[o].case = files[o].case
<1>1. CASE \E valid \in BOOLEAN : Finish(valid)
  <2>1. PICK c, valid : /\ c = CaseAt(at) /\ pc = "running" /\ args' = args
                        /\ files' = [o \in DOMAIN files \cup {output(c)} |->
                                       IF o = output(c) THEN Row(c, valid) ELSE files[o]]
    BY <1>1 DEF Finish
  <2>2. args \in Arguments /\ c \in Cases
    BY <2>1, CasesOfPositions DEF LoopInv, ProgressInv
  <2>3. /\ DOMAIN files' = DOMAIN files \cup {output(c)} /\ files'[output(c)].case = c
        /\ \A o \in DOMAIN files : o # output(c) => files'[o] = files[o]
    BY <2>1 DEF Row
  <2>4. \A o \in DOMAIN files : o = output(c) => files[o].case = c
    BY <2>2, OutputsDiffer DEF NamesInv
  <2>5. \A o \in DOMAIN files' : files'[o].case \in Cases /\ output(files'[o].case) = o
    BY <2>2, <2>3, SMTT(60) DEF NamesInv
  <2>6. NamesInv'
    BY <2>1, <2>5, SameArguments DEF NamesInv, output
  <2> QED BY <2>3, <2>4, <2>6
<1>2. CASE ~\E valid \in BOOLEAN : Finish(valid)
  <2>1. UNCHANGED <<args, files>>
    BY <1>2 DEF Next, Fail, TryName, MakeDirectory, OtherDirectory, EndSweep, Interrupt,
                write_summaries, Skip, Start, vars, sweepVars, runVars
  <2> QED BY <2>1, SameArguments DEF NamesInv, output
<1> QED BY <1>1, <1>2

(* The row of a case is written once, to a file of its own.                  *)
LEMMA FinishFiles ==
  ASSUME SweepInv, FilesInv, NEW valid \in BOOLEAN, Finish(valid)
  PROVE  /\ FilesInv'
         /\ \A o \in DOMAIN files : o \in DOMAIN files' /\ files'[o] = files[o]
<1>0. PICK c : c = CaseAt(at)
  OBVIOUS
<1>1. /\ pc = "running" /\ ~Refused(c) /\ args' = args
      /\ pc' = "sweeping" /\ UNCHANGED <<args, at, commands, skipped>>
      /\ outcome' = [d \in DOMAIN outcome \cup {c} |->
                       IF d # c THEN outcome[d] ELSE IF valid THEN "valid" ELSE "invalid"]
      /\ files' = [o \in DOMAIN files \cup {output(c)} |->
                     IF o = output(c) THEN Row(c, valid) ELSE files[o]]
      /\ csv_paths' = Append(csv_paths, output(c))
  BY <1>0 DEF Finish
<1>2. args \in Arguments /\ NoRepeats(args) /\ at \in Positions /\ c \in Cases
  BY <1>0, <1>1, CasesOfPositions DEF SweepInv, ProgressInv
<1>3. c \notin DOMAIN outcome
  <2>1. \A p \in Concluded : p \in Positions /\ p # at
    BY <1>1 DEF Concluded, Visited
  <2>2. \A p \in Concluded : CaseAt(p) # c
    BY <1>0, <1>2, <2>1, CaseFacts
  <2> QED BY <2>2 DEF SweepInv, OutcomeInv, CasesAt
<1>4. /\ DOMAIN outcome' = DOMAIN outcome \cup {c}
      /\ outcome'[c] = (IF valid THEN "valid" ELSE "invalid")
      /\ \A d \in DOMAIN outcome : outcome'[d] = outcome[d]
  BY <1>1, <1>3
<1>5. Completed' = Completed \cup {c}
  BY <1>4 DEF Completed
<1>6. output(c) \notin DOMAIN files /\ output(c) \in Outputs
  <2>1. \A d \in Completed : d \in Cases /\ d # c
    BY <1>3, ResultsAreCases DEF Completed
  <2>2. \A d \in Completed : output(d) # output(c)
    BY <1>2, <2>1, OutputsDiffer
  <2> QED BY <1>2, <2>2, OutputsDiffer DEF FilesInv
<1>7. /\ DOMAIN files' = DOMAIN files \cup {output(c)} /\ files'[output(c)] = Row(c, valid)
      /\ \A o \in DOMAIN files : files'[o] = files[o]
  BY <1>1, <1>6
<1>8. /\ csv_paths' \in Seq(Outputs) /\ ToSet(csv_paths') = DOMAIN files'
      /\ \A i, j \in DOMAIN csv_paths' : csv_paths'[i] = csv_paths'[j] => i = j
  <2>0. PICK x, n : x = output(c) /\ n = Len(csv_paths) + 1
    OBVIOUS
  <2>1. csv_paths \in Seq(Outputs) /\ ToSet(csv_paths) = DOMAIN files
        /\ \A i, j \in DOMAIN csv_paths : csv_paths[i] = csv_paths[j] => i = j
    BY DEF FilesInv
  <2>2. /\ csv_paths' \in Seq(Outputs)
        /\ ToSet(csv_paths') = ToSet(csv_paths) \cup {x}
        /\ DOMAIN csv_paths' = DOMAIN csv_paths \cup {n} /\ n \notin DOMAIN csv_paths
        /\ \A i \in DOMAIN csv_paths : csv_paths'[i] = csv_paths[i]
        /\ csv_paths'[n] = x
    BY <1>1, <1>6, <2>0, <2>1, Appended
  <2>3. \A i \in DOMAIN csv_paths : csv_paths[i] # x
    BY <1>6, <2>0, <2>1 DEF ToSet
  <2>4. ASSUME NEW i \in DOMAIN csv_paths', NEW j \in DOMAIN csv_paths',
               csv_paths'[i] = csv_paths'[j]
        PROVE  i = j
    <3>1. CASE i \in DOMAIN csv_paths /\ j \in DOMAIN csv_paths
      BY <2>1, <2>2, <2>4, <3>1
    <3>2. CASE i = n \/ j = n
      BY <2>2, <2>3, <2>4, <3>2
    <3> QED BY <2>2, <3>1, <3>2
  <2> QED BY <1>7, <2>0, <2>1, <2>2, <2>4
<1>9. \A d \in Completed' : /\ files'[output(d)] = Row(d, outcome'[d] = "valid")
                            /\ ~Refused(d)
  <2> TAKE d \in Completed'
  <2>1. CASE d = c
    <3>1. (outcome'[c] = "valid") = valid
      BY <1>4
    <3>2. Row(c, valid) = Row(c, outcome'[c] = "valid")
      BY <3>1
    <3> QED BY <1>1, <1>7, <2>1, <3>2
  <2>2. CASE d # c
    <3>1. d \in Completed /\ outcome'[d] = outcome[d] /\ output(d) \in DOMAIN files
      BY <1>4, <1>5, <2>2 DEF Completed, FilesInv
    <3> QED BY <1>7, <3>1 DEF FilesInv
  <2> QED BY <2>1, <2>2
<1>10. DOMAIN files' = {output(d) : d \in Completed'}
  BY <1>5, <1>7 DEF FilesInv
<1>11. Outputs' = Outputs /\ ToSet(csv_paths)' = ToSet(csv_paths')
       /\ \A d : output(d)' = output(d)
  BY <1>1, SameArguments DEF ToSet, output
<1>12. FilesInv'
  BY <1>8, <1>9, <1>10, <1>11 DEF FilesInv, Row, Refused
<1> QED BY <1>7, <1>12

LEMMA FilesNext ==
  ASSUME SweepInv, FilesInv, [Next]_vars
  PROVE  /\ FilesInv'
         /\ \A o \in DOMAIN files : o \in DOMAIN files' /\ files'[o] = files[o]
<1>1. CASE \E valid \in BOOLEAN : Finish(valid)
  BY <1>1, FinishFiles
<1>2. CASE Fail
  <2>1. /\ UNCHANGED <<args, files, csv_paths>>
        /\ outcome' = [d \in DOMAIN outcome \cup {CaseAt(at)} |->
                         IF d = CaseAt(at) THEN "failed" ELSE outcome[d]]
        /\ pc = "running" /\ pc' = "sweeping" /\ UNCHANGED <<args, at, commands, skipped>>
        /\ active_implementations' = active_implementations \ {CaseAt(at).label}
    BY <1>2 DEF Fail
  <2>2. CaseAt(at) \notin DOMAIN outcome
    BY <2>1, ConcludeSweep
  <2>3. Completed' = Completed /\ \A c \in Completed : outcome'[c] = outcome[c]
    BY <2>1, <2>2 DEF Completed
  <2>4. FilesInv'
    BY <2>1, <2>3, SameArguments DEF FilesInv
  <2> QED BY <2>1, <2>4
<1>3. CASE \/ TryName \/ MakeDirectory \/ OtherDirectory \/ EndSweep \/ Interrupt
           \/ write_summaries \/ UNCHANGED vars
           \/ \E p \in NextPositions : Skip(p) \/ Start(p)
  <2>1. UNCHANGED <<args, files, csv_paths, outcome>>
    BY <1>3 DEF TryName, MakeDirectory, OtherDirectory, EndSweep, Interrupt, write_summaries,
                Skip, Start, vars, sweepVars, runVars
  <2>2. FilesInv'
    BY <2>1, SameArguments DEF FilesInv, Completed
  <2> QED BY <2>1, <2>2
<1> QED BY <1>1, <1>2, <1>3 DEF Next

LEMMA MetadataNext ==
  ASSUME LoopInv, MetadataInv, [Next]_vars
  PROVE  MetadataInv'
<1>1. CASE TryName \/ MakeDirectory \/ OtherDirectory
  <2>1. /\ UNCHANGED <<args, at, outcome>> /\ pc \in {"naming", "creating"}
        /\ pc' \in {"naming", "creating", "sweeping", "raised"}
    BY <1>1 DEF TryName, MakeDirectory, OtherDirectory, sweepVars, runVars
  <2>2. at = Origin /\ args \in Arguments /\ Concluded = Visited
    BY <2>1 DEF LoopInv, ProgressInv, Concluded
  <2>3. Visited = {}
    BY <2>2, PlacesAreNumbers DEF Visited, Left
  <2>4. DOMAIN outcome = {}
    BY <2>2, <2>3 DEF LoopInv, OutcomeInv, CasesAt
  <2> QED BY <2>1, <2>4 DEF MetadataInv
<1>2. CASE \/ Fail \/ (\E valid \in BOOLEAN : Finish(valid))
           \/ \E p \in NextPositions : Skip(p) \/ Start(p)
  <2>1. pc' \in {"sweeping", "running"}
    BY <1>2 DEF Fail, Finish, Skip, Start
  <2> QED BY <2>1 DEF MetadataInv
<1>3. CASE EndSweep \/ Interrupt
  <2>1. /\ UNCHANGED <<commands, skipped, outcome>>
        /\ pc' \in {"summarizing", "raised"}
        /\ \/ metadata' = [commands |-> commands, skipped |-> skipped]
           \/ pc = "summarizing" /\ metadata' = metadata
    BY <1>3 DEF EndSweep, Interrupt, WriteMetadata, sweepVars, runVars
  <2> QED BY <2>1 DEF MetadataInv
<1>4. CASE write_summaries \/ UNCHANGED vars
  <2>1. /\ UNCHANGED <<commands, skipped, outcome, metadata>>
        /\ pc' = pc \/ (pc = "summarizing" /\ pc' = "done")
    BY <1>4 DEF write_summaries, vars, sweepVars, runVars
  <2> QED BY <2>1 DEF MetadataInv
<1> QED BY <1>1, <1>2, <1>3, <1>4 DEF Next

LEMMA SameSummary ==
  ASSUME UNCHANGED <<args, files, csv_paths>>
  PROVE  /\ rows' = rows /\ headlines' = headlines /\ Keys' = Keys
         /\ \A k : highest(k)' = highest(k)
<1>1. rows' = rows
  BY DEF rows
<1>2. headlines' = headlines /\ Keys' = Keys
  BY <1>1 DEF headlines, Keys
<1>3. \A k, r : candidate(k, r)' <=> candidate(k, r)
  BY <1>1 DEF candidate, rate_rows
<1>4. \A k : candidates(k)' = candidates(k)
  BY <1>1, <1>3 DEF candidates, RatesOf
<1> DEFINE Top(C) == IF C = {} THEN None ELSE CHOOSE r \in C : \A s \in C : s <= r
<1>5. \A k : highest(k)' = highest(k)
  <2> TAKE k
  <2>1. highest(k) = Top(candidates(k)) /\ highest(k)' = Top(candidates(k)')
    BY DEF highest
  <2> HIDE DEF Top
  <2> QED BY <1>4, <2>1
<1> QED BY <1>1, <1>2, <1>5

LEMMA SummaryNext ==
  ASSUME SummaryInv, [Next]_vars
  PROVE  SummaryInv'
<1>1. CASE write_summaries \/ UNCHANGED vars
  <2>1. UNCHANGED <<args, files, csv_paths>>
    BY <1>1 DEF write_summaries, vars, sweepVars, runVars
  <2>2. pc' = "done" =>
          summary' = [headlines |-> headlines,
                      invalid_trials |-> Cardinality({i \in DOMAIN rows : ~rows[i].valid}),
                      highest_sustainable |-> [k \in Keys |-> highest(k)]]
    BY <1>1 DEF write_summaries, vars, SummaryInv
  <2>3. [k \in Keys |-> highest(k)]' = [k \in Keys |-> highest(k)]
    BY <2>1, SameSummary
  <2> QED BY <2>1, <2>2, <2>3, SameSummary DEF SummaryInv
<1>2. CASE ~(write_summaries \/ UNCHANGED vars)
  <2>1. pc' # "done"
    BY <1>2 DEF Next, TryName, MakeDirectory, OtherDirectory, EndSweep, Interrupt, Fail, Finish,
                Skip, Start
  <2> QED BY <2>1 DEF SummaryInv
<1> QED BY <1>1, <1>2

-----------------------------------------------------------------------------
(* The invariant holds.                                                      *)

DriverInv ==
  /\ LoopInv /\ NamesInv /\ MetadataInv /\ SummaryInv
  /\ NoRepeats(args) => SweepInv /\ FilesInv

LEMMA DriverInit == Init => DriverInv
<1> SUFFICES ASSUME Init
             PROVE  DriverInv
  OBVIOUS
<1>1. pc = "naming" /\ files = << >> /\ csv_paths = << >> /\ outcome = << >>
  BY DEF Init
<1>2. FilesInv /\ NamesInv
  BY <1>1, EmptyRecords DEF FilesInv, NamesInv, Completed
<1> QED BY <1>1, <1>2, LoopInit, SweepInit DEF DriverInv, MetadataInv, SummaryInv

LEMMA DriverNext == DriverInv /\ [Next]_vars => DriverInv'
<1> SUFFICES ASSUME DriverInv, [Next]_vars
             PROVE  DriverInv'
  OBVIOUS
<1>1. LoopInv' /\ NamesInv' /\ MetadataInv' /\ SummaryInv'
  BY LoopNext, NamesNext, MetadataNext, SummaryNext DEF DriverInv
<1>2. args' = args
  BY DEF Next, TryName, MakeDirectory, OtherDirectory, EndSweep, Interrupt, write_summaries,
         Fail, Finish, Skip, Start, vars
<1>3. NoRepeats(args)' => SweepInv' /\ FilesInv'
  BY <1>2, SameArguments, SweepNext, FilesNext DEF DriverInv
<1> QED BY <1>1, <1>3 DEF DriverInv

(* In every state of the driver the iterations that were passed are recorded *)
(* once each, as run or skipped, and a result file has the name of the case  *)
(* in it.  If nothing is named twice, a server is active while all it has    *)
(* run of the sweep was valid, and the result files are those of the cases   *)
(* that were finished (the loops of compare.main).                           *)
THEOREM DriverInvariant == Spec => []DriverInv
<1>1. Init => DriverInv
  BY DriverInit
<1>2. DriverInv /\ [Next]_vars => DriverInv'
  BY DriverNext
<1> QED BY <1>1, <1>2, PTL DEF Spec

(* Once the directory is made, no other driver has it (the loop over names   *)
(* and mkdir in new_result_directory).                                       *)
THEOREM DirectoryIsOwn == Spec => []DirectoryIsItsOwn
<1>1. Init => DirectoryIsItsOwn
  BY DEF Init, DirectoryIsItsOwn
<1>2. DirectoryIsItsOwn /\ [Next]_vars => DirectoryIsItsOwn'
  <2> SUFFICES ASSUME DirectoryIsItsOwn, [Next]_vars
               PROVE  DirectoryIsItsOwn'
    OBVIOUS
  <2>1. CASE TryName \/ OtherDirectory
    <3>1. pc' \in {"naming", "creating"}
      BY <2>1 DEF TryName, OtherDirectory
    <3> QED BY <3>1 DEF DirectoryIsItsOwn
  <2>2. CASE MakeDirectory
    <3>1. UNCHANGED <<suffix, taken>> /\ (suffix \in taken => pc' = "raised")
      BY <2>2 DEF MakeDirectory, directoryVars
    <3> QED BY <3>1 DEF DirectoryIsItsOwn
  <2>3. CASE ~(TryName \/ MakeDirectory \/ OtherDirectory)
    <3>1. UNCHANGED <<suffix, taken>>
          /\ (pc \in {"naming", "creating", "raised"} => pc' = pc)
      BY <2>3 DEF Next, EndSweep, Interrupt, write_summaries, Fail, Finish, Skip, Start, vars,
                  directoryVars
    <3> QED BY <3>1 DEF DirectoryIsItsOwn
  <2> QED BY <2>1, <2>2, <2>3
<1> QED BY <1>1, <1>2, PTL DEF Spec

(* A rate is run exactly if the server was valid at all lower rates of the   *)
(* sweep in this trial, for any rates and tiers that differ                  *)
(* (active_implementations in compare.main).                                 *)
THEOREM SkippedIsAboveInvalid == Spec => []SkippedAboveInvalid
<1>1. DriverInv => SkippedAboveInvalid
  <2>1. \A c : InvalidBelow(c) => ~ValidSoFar(c)
    BY DEF InvalidBelow, ValidSoFar, Valid
  <2> QED BY <2>1 DEF DriverInv, SweepInv, ThresholdInv, SkippedAboveInvalid
<1> QED BY <1>1, DriverInvariant, PTL

(* metadata.json has every iteration of the loops once when these have       *)
(* ended, and every case with a result when they were interrupted (the       *)
(* finally block of compare.main).                                           *)
THEOREM MetadataAccounts == Spec => []MetadataIsComplete
<1>1. DriverInv => MetadataIsComplete
  <2> SUFFICES ASSUME DriverInv
               PROVE  MetadataIsComplete
    OBVIOUS
  <2>1. ProgressInv /\ RecordsInv /\ OutcomeInv /\ MetadataInv
    BY DEF DriverInv, LoopInv
  <2>2. DOMAIN outcome \subseteq ToSet(commands)
    BY <2>1 DEF OutcomeInv
  <2>3. CASE pc \in {"summarizing", "done"}
    <3>1. metadata.commands = commands /\ metadata.skipped = skipped
      BY <2>1, <2>3 DEF MetadataInv
    <3>2. Visited = Positions /\ CasesAt(Visited) = Cases
      BY <2>1, <2>3, CasesOfPositions DEF ProgressInv
    <3> QED BY <2>1, <2>2, <2>3, <3>1, <3>2 DEF RecordsInv, MetadataIsComplete
  <2>4. CASE pc = "raised"
    BY <2>1, <2>2, <2>4 DEF MetadataInv, MetadataIsComplete
  <2> QED BY <2>3, <2>4 DEF MetadataIsComplete
<1> QED BY <1>1, DriverInvariant, PTL

(* A result file keeps its case in every step, for every command line, and   *)
(* is never written a second time if nothing is named twice (the name of     *)
(* output in compare.main).                                                  *)
THEOREM RowsStay == Spec => RowsAreKept
<1> DEFINE Kept == \A o \in DOMAIN files : /\ o \in DOMAIN files'
                                           /\ files'[o].case = files[o].case
                                           /\ NoRepeats(args) => files'[o] = files[o]
<1>1. DriverInv /\ [Next]_vars => [Kept]_vars
  BY NamesNext, FilesNext DEF DriverInv
<1>2. DriverInv /\ [Next]_vars => DriverInv'
  BY DriverNext
<1> QED BY <1>1, <1>2, DriverInit, PTL DEF Spec, RowsAreKept

-----------------------------------------------------------------------------
(* The rows.                                                                 *)

LEMMA RowsAreResults ==
  ASSUME FilesInv
  PROVE  /\ IsFiniteSet(DOMAIN rows)
         /\ \A i \in DOMAIN rows :
              /\ rows[i].case \in Completed
              /\ rows[i].valid <=> outcome[rows[i].case] = "valid"
         /\ \A i, j \in DOMAIN rows : rows[i].case = rows[j].case => i = j
         /\ \A c \in Completed : \E i \in DOMAIN rows : rows[i].case = c
<1>1. DOMAIN rows = DOMAIN csv_paths /\ \A i \in DOMAIN rows : rows[i] = files[csv_paths[i]]
  BY DEF rows
<1>2. IsFiniteSet(DOMAIN rows)
  <2>1. Len(csv_paths) \in Nat /\ DOMAIN csv_paths = 1 .. Len(csv_paths)
    BY LenProperties DEF FilesInv
  <2> QED BY <1>1, <2>1, FS_Interval
<1>3. \A c \in Completed : files[output(c)].case = c
                           /\ (files[output(c)].valid <=> outcome[c] = "valid")
  <2> TAKE c \in Completed
  <2>1. PICK valid \in BOOLEAN : valid <=> outcome[c] = "valid"
    OBVIOUS
  <2>2. files[output(c)] = IF valid THEN Row(c, TRUE) ELSE Row(c, FALSE)
    <3>1. files[output(c)] = Row(c, outcome[c] = "valid")
      BY DEF FilesInv
    <3>2. CASE outcome[c] = "valid"
      <4>1. (outcome[c] = "valid") = TRUE
        BY <3>2
      <4> QED BY <2>1, <3>1, <3>2, <4>1, Zenon
    <3>3. CASE outcome[c] # "valid"
      <4>1. (outcome[c] = "valid") = FALSE
        BY <3>3
      <4> QED BY <2>1, <3>1, <3>3, <4>1, Zenon
    <3> QED BY <3>2, <3>3
  <2> QED BY <2>1, <2>2 DEF Row
<1>4. \A i \in DOMAIN rows : \E c \in Completed : csv_paths[i] = output(c)
  <2> TAKE i \in DOMAIN rows
  <2>1. csv_paths[i] \in ToSet(csv_paths)
    BY <1>1 DEF ToSet
  <2> QED BY <2>1 DEF FilesInv
<1>5. \A i \in DOMAIN rows : /\ rows[i].case \in Completed
                             /\ csv_paths[i] = output(rows[i].case)
                             /\ rows[i].valid <=> outcome[rows[i].case] = "valid"
  BY <1>1, <1>3, <1>4
<1>6. \A i, j \in DOMAIN rows : rows[i].case = rows[j].case => i = j
  BY <1>1, <1>5 DEF FilesInv
<1>7. ASSUME NEW c \in Completed
      PROVE  \E i \in DOMAIN rows : rows[i].case = c
  <2>1. PICK i \in DOMAIN csv_paths : csv_paths[i] = output(c)
    BY SMTT(60) DEF FilesInv, ToSet
  <2> QED BY <1>1, <1>3, <2>1
<1> QED BY <1>2, <1>5, <1>6, <1>7

(* Rows are counted as the cases they are of.                                *)
LEMMA RowsCountCases ==
  ASSUME FilesInv, NEW I \in SUBSET DOMAIN rows
  PROVE  Cardinality(I) = Cardinality({rows[i].case : i \in I})
<1> DEFINE C == {rows[i].case : i \in I}
           f == [i \in I |-> rows[i].case]
<1>1. IsFiniteSet(I)
  BY RowsAreResults, FS_Subset
<1>2. f \in Bijection(I, C)
  <2>1. f \in [I -> C]
    OBVIOUS
  <2>2. \A i, j \in I : f[i] = f[j] => i = j
    BY RowsAreResults
  <2>3. \A c \in C : \E i \in I : f[i] = c
    OBVIOUS
  <2> HIDE DEF f, C
  <2> QED BY <2>1, <2>2, <2>3 DEF Bijection, Injection, Surjection, IsInjective
<1> QED BY <1>1, <1>2, FS_Bijection DEF ExistsBijection

(* A valid trial is behind the headline of its case and no other, and the    *)
(* rows that are behind none are the invalid trials, whatever was skipped or *)
(* failed (write_summaries).                                                 *)
THEOREM TrialsAreCounted == Spec => []EveryTrialIsCounted
<1>1. DriverInv => EveryTrialIsCounted
  <2> DEFINE those(what) == {c \in DOMAIN outcome : outcome[c] = what}
             V == {i \in DOMAIN rows : rows[i].valid}
             I == {i \in DOMAIN rows : ~rows[i].valid}
  <2> SUFFICES ASSUME DriverInv, pc = "done", NoRepeats(args)
               PROVE  /\ DOMAIN summary.headlines = {headlineKey(c) : c \in those("valid")}
                      /\ \A c \in those("valid") :
                           summary.headlines[headlineKey(c)] =
                             Cardinality({d \in those("valid") : SameGroup(c, d)
                                            /\ c.rate = d.rate /\ c.label = d.label})
                      /\ summary.invalid_trials = Cardinality(those("invalid"))
    BY DEF EveryTrialIsCounted
  <2>1. FilesInv /\ OutcomeInv
    BY DEF DriverInv, SweepInv
  <2>2. /\ summary.headlines = headlines
        /\ summary.invalid_trials = Cardinality(I)
    BY DEF DriverInv, SummaryInv
  <2>3. /\ \A i \in V : rows[i].case \in those("valid")
        /\ \A c \in those("valid") : \E i \in V : rows[i].case = c
    BY <2>1, RowsAreResults DEF Completed
  <2>4. {rows[i].case : i \in I} = those("invalid")
    <3>1. \A i \in I : rows[i].case \in those("invalid")
      BY <2>1, RowsAreResults DEF Completed, OutcomeInv
    <3>2. \A c \in those("invalid") : \E i \in I : rows[i].case = c
      BY <2>1, RowsAreResults DEF Completed
    <3> QED BY <3>1, <3>2
  <2>5. headlines = [k \in {headlineKey(rows[i].case) : i \in V} |->
                       Cardinality({i \in V : headlineKey(rows[i].case) = k})]
    BY DEF headlines
  <2>6. \A c, d : headlineKey(c) = headlineKey(d)
                    <=> SameGroup(c, d) /\ c.rate = d.rate /\ c.label = d.label
    BY DEF headlineKey, SameGroup
  <2>7. DOMAIN headlines = {headlineKey(c) : c \in those("valid")}
    BY <2>3, <2>5
  <2>8. ASSUME NEW c \in those("valid")
        PROVE  headlines[headlineKey(c)] =
                 Cardinality({d \in those("valid") : SameGroup(c, d)
                                /\ c.rate = d.rate /\ c.label = d.label})
    <3> DEFINE J == {i \in V : headlineKey(rows[i].case) = headlineKey(c)}
    <3>1. headlines[headlineKey(c)] = Cardinality(J)
      BY <2>5, <2>7
    <3>2. Cardinality(J) = Cardinality({rows[i].case : i \in J})
      BY <2>1, RowsCountCases
    <3>3. {rows[i].case : i \in J} = {d \in those("valid") : SameGroup(c, d)
                                        /\ c.rate = d.rate /\ c.label = d.label}
      BY <2>3, <2>6
    <3> QED BY <3>1, <3>2, <3>3
  <2>9. Cardinality(I) = Cardinality(those("invalid"))
    BY <2>1, <2>4, RowsCountCases
  <2> QED BY <2>2, <2>7, <2>8, <2>9
<1> QED BY <1>1, DriverInvariant, PTL

-----------------------------------------------------------------------------
(* The trials of a rate.                                                     *)

Tried(k, rate) == {d \in Cases : KeyOf(d) = k /\ d.rate = rate}

Sustained(k, rate) == \A d \in Cases : KeyOf(d) = k /\ d.rate <= rate => Valid(d)

(* What a key and a rate say of a case of a dense or broadcast group.        *)
LEMMA KeyFacts ==
  ASSUME args \in Arguments, NoRepeats(args), NEW c \in Cases, NEW d \in Cases,
         KeyOf(c) = KeyOf(d), c.experiment # "sparse"
  PROVE  /\ SameGroup(c, d) /\ c.label = d.label
         /\ c.trial = d.trial => d \in SweepOf(c)
         /\ c.trial = d.trial /\ c.rate = d.rate => c = d
<1>1. PICK p \in Positions, q \in Positions : c = CaseAt(p) /\ d = CaseAt(q)
  BY CasesOfPositions
<1>2. c.experiment = d.experiment /\ c.total = d.total /\ c.label = d.label
  BY DEF KeyOf
<1>3. c.active = c.total /\ d.active = d.total /\ c.trial = p.trial /\ d.trial = q.trial
  BY <1>1, <1>2, CaseFields
<1>4. SameGroup(c, d) /\ p.group = q.group
  BY <1>1, <1>2, <1>3, CaseFacts DEF SameGroup
<1>5. c.trial = d.trial => d \in SweepOf(c)
  BY <1>2, <1>4 DEF SweepOf
<1>6. ASSUME c.trial = d.trial, c.rate = d.rate
      PROVE  c = d
  <2>1. p.trial = q.trial /\ p.rate = q.rate /\ p.turn = q.turn
    <3>1. p.trial = q.trial
      BY <1>3, <1>6
    <3>2. p.rate = q.rate
      BY <1>1, <1>4, <1>6, CaseFacts
    <3>3. p.turn = q.turn
      BY <1>1, <1>2, <3>1, CaseFacts
    <3> QED BY <3>1, <3>2, <3>3
  <2> QED BY <1>1, <1>4, <2>1, PositionFacts
<1> QED BY <1>2, <1>4, <1>5, <1>6

(* A rate is planned for every trial.                                        *)
LEMMA EveryTrialIsPlanned ==
  ASSUME args \in Arguments, NEW c \in Cases, NEW t \in 1 .. args.runs
  PROVE  \E d \in Cases : d.trial = t /\ d.rate = c.rate /\ KeyOf(d) = KeyOf(c)
<1>1. PICK p \in Positions : c = CaseAt(p)
  BY CasesOfPositions
<1>2. /\ t \in Nat /\ c.label \in ToSet(args.implementations)
      /\ c.rate = groups[p.group].rates[p.rate] /\ SameGroup(c, groups[p.group])
  <2>1. args.runs \in Nat
    BY LineFacts
  <2>2. t \in Nat
    BY <2>1
  <2>3. /\ c.label \in ToSet(args.implementations)
        /\ c.rate = groups[p.group].rates[p.rate] /\ SameGroup(c, groups[p.group])
    BY <1>1, CaseFields
  <2> QED BY <2>2, <2>3
<1>3. PICK u \in DOMAIN args.implementations : execution_order(args, t)[u] = c.label
  BY <1>2, OrderFacts
<1> DEFINE q == [trial |-> t, group |-> p.group, rate |-> p.rate, turn |-> u]
<1>4. q \in Positions /\ q.trial = t /\ q.group = p.group /\ q.rate = p.rate /\ q.turn = u
  BY PositionFacts
<1> HIDE DEF q
<1>5. /\ CaseAt(q).trial = t /\ CaseAt(q).rate = c.rate /\ CaseAt(q).label = c.label
      /\ SameGroup(CaseAt(q), groups[p.group])
  BY <1>2, <1>3, <1>4, CaseFields
<1>6. KeyOf(CaseAt(q)) = KeyOf(c)
  BY <1>2, <1>5 DEF KeyOf, SameGroup
<1> QED BY <1>4, <1>5, <1>6, CasesOfPositions

(* So a rate has as many cases as there are trials.                          *)
LEMMA TrialsOfRate ==
  ASSUME args \in Arguments, NoRepeats(args), NEW c \in Cases, c.experiment # "sparse"
  PROVE  LET D == Tried(KeyOf(c), c.rate)
         IN  IsFiniteSet(D) /\ Cardinality(D) = args.runs
<1> DEFINE D == Tried(KeyOf(c), c.rate)
           T == 1 .. args.runs
           f == [d \in D |-> d.trial]
<1>1. \A d \in D : d \in Cases /\ KeyOf(d) = KeyOf(c) /\ d.rate = c.rate
                   /\ d.experiment # "sparse"
  BY DEF Tried, KeyOf
<1>2. \A d \in D : d.trial \in T
  <2> TAKE d \in D
  <2>1. PICK p \in Positions : d = CaseAt(p)
    BY <1>1, CasesOfPositions
  <2> QED BY <2>1, CaseFields, PositionFacts
<1>3. \A d, e \in D : d.trial = e.trial => d = e
  BY <1>1, KeyFacts
<1>4. \A t \in T : \E d \in D : d.trial = t
  BY EveryTrialIsPlanned DEF Tried
<1>5. f \in [D -> T] /\ DOMAIN f = D /\ \A d \in D : f[d] = d.trial
  BY <1>2
<1>6. IsFiniteSet(T) /\ Cardinality(T) = args.runs
  <2>1. PICK n \in Nat : n = args.runs /\ n >= 1
    BY LineFacts
  <2>2. IsFiniteSet(1 .. n) /\ Cardinality(1 .. n) = IF 1 > n THEN 0 ELSE n - 1 + 1
    <3>1. 1 \in Int /\ n \in Int
      BY <2>1
    <3> QED BY <3>1, FS_Interval
  <2>3. Cardinality(1 .. n) = n
    BY <2>1, <2>2
  <2> QED BY <2>1, <2>2, <2>3
<1> HIDE DEF D, T, f
<1>7. f \in Injection(D, T) /\ f \in Surjection(D, T)
  BY <1>3, <1>4, <1>5 DEF Injection, Surjection, IsInjective
<1> QED BY <1>6, <1>7, FS_Injection DEF D

(* candidate says what its comment means: every trial of the rate was valid. *)
LEMMA CandidateMeans ==
  ASSUME SweepInv, FilesInv, NEW c \in Cases, c.experiment # "sparse"
  PROVE  candidate(KeyOf(c), c.rate) <=> \A d \in Tried(KeyOf(c), c.rate) : Valid(d)
<1> DEFINE D == Tried(KeyOf(c), c.rate)
           I == rate_rows(KeyOf(c), c.rate)
           R == {rows[i].case : i \in I}
<1>1. args \in Arguments /\ NoRepeats(args)
  BY DEF SweepInv, ProgressInv
<1>2. IsFiniteSet(D) /\ Cardinality(D) = args.runs
  BY <1>1, TrialsOfRate
<1>3. R \in SUBSET D /\ \A d \in D : d \in Completed => d \in R
  <2>1. \A i \in I : /\ i \in DOMAIN rows /\ rows[i].case \in Completed
                     /\ KeyOf(rows[i].case) = KeyOf(c) /\ rows[i].case.rate = c.rate
    BY RowsAreResults DEF rate_rows
  <2>2. R \in SUBSET D
    BY <2>1, ResultsAreCases DEF Tried
  <2>3. ASSUME NEW d \in D, d \in Completed
        PROVE  d \in R
    <3>1. PICK i \in DOMAIN rows : rows[i].case = d
      BY <2>3, RowsAreResults
    <3>2. i \in I
      BY <3>1 DEF rate_rows, Tried
    <3> QED BY <3>1, <3>2
  <2> QED BY <2>2, <2>3
<1>4. Cardinality(I) = Cardinality(R)
  BY RowsCountCases DEF rate_rows
<1>5. \A i \in I : rows[i].valid <=> Valid(rows[i].case)
  BY RowsAreResults DEF rate_rows, Valid, Completed
<1>6. candidate(KeyOf(c), c.rate) <=> /\ Cardinality(R) = args.runs
                                      /\ \A d \in R : Valid(d)
  BY <1>4, <1>5 DEF candidate
<1>7. Cardinality(R) = args.runs <=> R = D
  BY <1>2, <1>3, FS_Subset
<1>8. (\A d \in D : Valid(d)) => R = D
  BY <1>3 DEF Valid, Completed
<1> QED BY <1>6, <1>7, <1>8

(* And all lower rates were valid, too, or the rate had been skipped.        *)
LEMMA CandidateIsSustained ==
  ASSUME SweepInv, FilesInv, NEW c \in Cases, c.experiment # "sparse",
         candidate(KeyOf(c), c.rate)
  PROVE  Sustained(KeyOf(c), c.rate)
<1> SUFFICES ASSUME NEW e \in Cases, KeyOf(e) = KeyOf(c), e.rate <= c.rate
             PROVE  Valid(e)
  BY DEF Sustained
<1>1. args \in Arguments /\ NoRepeats(args) /\ \A d \in Tried(KeyOf(c), c.rate) : Valid(d)
  BY CandidateMeans DEF SweepInv, ProgressInv
<1>2. PICK p \in Positions, q \in Positions : c = CaseAt(p) /\ e = CaseAt(q)
  BY CasesOfPositions
<1>3. c.rate \in Nat /\ e.rate \in Nat /\ e.trial \in 1 .. args.runs
  BY <1>1, <1>2, CaseFields, PositionFacts
<1>4. PICK d \in Cases : d.trial = e.trial /\ d.rate = c.rate /\ KeyOf(d) = KeyOf(c)
  BY <1>1, <1>3, EveryTrialIsPlanned
<1>5. d.experiment # "sparse" /\ Valid(d)
  BY <1>1, <1>4 DEF Tried, KeyOf
<1>6. CASE e.rate = c.rate
  BY <1>1, <1>6 DEF Tried
<1>7. CASE e.rate < c.rate
  <2>1. e \in SweepOf(d) /\ e.rate < d.rate
    BY <1>1, <1>4, <1>5, <1>7, KeyFacts
  <2>2. d \in ToSet(commands)
    BY <1>5 DEF Valid, SweepInv, OutcomeInv
  <2>3. ValidSoFar(d)
    BY <2>2 DEF ToSet, SweepInv, ThresholdInv
  <2> QED BY <2>1, <2>3 DEF ValidSoFar, Valid
<1> QED BY <1>3, <1>6, <1>7

(* A largest rate exists.                                                    *)
LEMMA HighestIsCandidate ==
  ASSUME SweepInv, FilesInv, NEW c \in Cases, c.experiment # "sparse",
         candidates(KeyOf(c)) # {}
  PROVE  /\ highest(KeyOf(c)) \in candidates(KeyOf(c))
         /\ \A r \in candidates(KeyOf(c)) : r \in Nat /\ r <= highest(KeyOf(c))
<1>0. PICK S : S = candidates(KeyOf(c))
  OBVIOUS
<1>1. args \in Arguments /\ NoRepeats(args)
  BY DEF SweepInv, ProgressInv
<1>2. PICK p \in Positions : c = CaseAt(p)
  BY CasesOfPositions
<1>3. PICK rates, n : rates = groups[p.group].rates /\ n = Len(rates)
  OBVIOUS
<1>4. /\ rates \in Seq(Nat) /\ n \in Nat /\ DOMAIN rates = 1 .. n
      /\ \A i, j \in DOMAIN rates : i < j => rates[i] <= rates[j]
      /\ \A i \in DOMAIN rates : rates[i] \in Nat
  <2>1. p.group \in DOMAIN groups /\ DOMAIN groups = 1 .. Len(groups)
    BY <1>1, PositionFacts, LineFacts, LenProperties
  <2>2. rates \in Seq(Nat)
    <3>1. groups[p.group] \in [experiment : {"sparse", "dense", "broadcast"}, total : Nat,
                               active : Nat, rates : Seq(Nat)]
      BY <1>1, <2>1, LineFacts, ElementOfSeq
    <3> QED BY <1>3, <3>1
  <2>3. n \in Nat /\ DOMAIN rates = 1 .. n
    BY <1>3, <2>2, LenProperties
  <2>4. \A i \in DOMAIN rates : rates[i] \in Nat
    BY <1>3, <2>2, <2>3, ElementOfSeq
  <2> QED BY <1>1, <1>3, <2>1, <2>2, <2>3, <2>4, LineFacts
<1>5. \A r \in S : r \in Nat /\ r <= rates[n] /\ rates[n] \in Nat
  <2> TAKE r \in S
  <2>1. PICK i \in DOMAIN rows : KeyOf(rows[i].case) = KeyOf(c) /\ rows[i].case.rate = r
    BY <1>0 DEF candidates, RatesOf
  <2>2. rows[i].case \in Cases
    BY RowsAreResults, ResultsAreCases
  <2>3. PICK q \in Positions : rows[i].case = CaseAt(q)
    BY <2>2, CasesOfPositions
  <2>4. q.group = p.group
    BY <1>1, <1>2, <2>1, <2>2, <2>3, KeyFacts, CaseFacts
  <2>5. q.rate \in DOMAIN rates /\ r = rates[q.rate]
    BY <1>1, <1>3, <2>1, <2>3, <2>4, CaseFields, PositionFacts, SMTT(60)
  <2>6. q.rate \in 1 .. n /\ n \in DOMAIN rates
    BY <1>4, <2>5
  <2> QED BY <1>4, <2>5, <2>6, SMTT(60)
<1> DEFINE distances == {rates[n] - r : r \in S}
<1>6. distances \in SUBSET Nat /\ distances # {}
  BY <1>0, <1>5
<1>7. PICK m \in distances : \A d \in distances : m <= d
  BY <1>6, LeastNumber
<1>8. PICK r \in S : m = rates[n] - r
  OBVIOUS
<1>9. \A s \in S : s <= r
  <2> TAKE s \in S
  <2>1. rates[n] - r <= rates[n] - s
    BY <1>7, <1>8
  <2> QED BY <1>5, <2>1
<1>10. highest(KeyOf(c)) = CHOOSE h \in S : \A s \in S : s <= h
  BY <1>0 DEF highest
<1> HIDE DEF distances
<1>11. highest(KeyOf(c)) \in S /\ \A s \in S : s <= highest(KeyOf(c))
  BY <1>9, <1>10
<1> QED BY <1>0, <1>5, <1>11

(* The rate that is reported is one at which every trial was run and valid,  *)
(* with all lower rates valid in every trial, and no higher rate is one, for *)
(* any number of trials and any rates (write_summaries, and the              *)
(* active_implementations of the sweep).                                     *)
THEOREM ReportedRateIsEarned == Spec => []SustainableIsEarned
<1>1. DriverInv => SustainableIsEarned
  <2> SUFFICES ASSUME DriverInv, pc = "done", NoRepeats(args),
                      NEW c \in Cases, c.experiment # "sparse",
                      NEW reported,
                      reported = IF KeyOf(c) \in DOMAIN summary.highest_sustainable
                                   THEN summary.highest_sustainable[KeyOf(c)] ELSE None
               PROVE  (reported # None /\ c.rate <= reported) <=> Sustained(KeyOf(c), c.rate)
    BY DEF SustainableIsEarned, Sustained, Valid
  <2>0. PICK k : k = KeyOf(c)
    OBVIOUS
  <2>1. SweepInv /\ FilesInv /\ args \in Arguments
    BY DEF DriverInv, SweepInv, ProgressInv
  <2>2. summary.highest_sustainable = [l \in Keys |-> highest(l)]
    BY DEF DriverInv, SummaryInv
  <2>3. reported = IF k \in Keys THEN highest(k) ELSE None
    BY <2>0, <2>2
  <2>4. c.rate \in Nat
    <3>1. PICK p \in Positions : c = CaseAt(p)
      BY CasesOfPositions
    <3> QED BY <2>1, <3>1, CaseFields
  <2>5. ASSUME reported # None, c.rate <= reported
        PROVE  Sustained(k, c.rate)
    <3>1. k \in Keys /\ reported = highest(k) /\ candidates(k) # {}
      BY <2>3, <2>5 DEF highest
    <3>2. reported \in candidates(k) /\ reported \in Nat
      BY <2>0, <2>1, <3>1, HighestIsCandidate
    <3>3. PICK d \in Cases : KeyOf(d) = k /\ d.rate = reported
      BY <2>1, <3>2, RowsAreResults, ResultsAreCases DEF candidates, RatesOf
    <3>4. d.experiment # "sparse" /\ candidate(KeyOf(d), d.rate)
      BY <2>0, <3>2, <3>3 DEF KeyOf, candidates
    <3>5. Sustained(k, reported)
      BY <2>1, <3>3, <3>4, CandidateIsSustained
    <3>6. \A e \in Cases : e.rate \in Nat
      <4> TAKE e \in Cases
      <4>1. PICK p \in Positions : e = CaseAt(p)
        BY CasesOfPositions
      <4> QED BY <2>1, <4>1, CaseFields
    <3>7. \A e \in Cases : e.rate <= c.rate => e.rate <= reported
      BY <2>4, <2>5, <3>2, <3>6
    <3> QED BY <3>5, <3>7 DEF Sustained
  <2>6. ASSUME Sustained(k, c.rate)
        PROVE  reported # None /\ c.rate <= reported
    <3>1. Valid(c) /\ \A d \in Tried(k, c.rate) : Valid(d)
      BY <2>0, <2>4, <2>6 DEF Sustained, Tried
    <3>2. c \in Completed /\ candidate(k, c.rate)
      BY <2>0, <2>1, <3>1, CandidateMeans DEF Valid, Completed
    <3>3. PICK i \in DOMAIN rows : rows[i].case = c
      BY <2>1, <3>2, RowsAreResults
    <3>4. k \in Keys /\ c.rate \in candidates(k)
      BY <2>0, <3>2, <3>3 DEF Keys, KeyOf, candidates, RatesOf
    <3>5. reported = highest(k) /\ highest(k) \in Nat /\ c.rate <= highest(k)
      BY <2>0, <2>1, <2>3, <3>4, HighestIsCandidate
    <3>6. c.rate > 0
      BY <2>1, <2>4, <3>2 DEF FilesInv, Refused
    <3> QED BY <2>4, <3>5, <3>6 DEF None
  <2> QED BY <2>0, <2>5, <2>6
<1> QED BY <1>1, DriverInvariant, PTL

=============================================================================
