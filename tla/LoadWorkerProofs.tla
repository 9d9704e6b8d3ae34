-------------------------- MODULE LoadWorkerProofs --------------------------
(* Proofs about a worker of the benchmark, for any number of connections,    *)
(* any rate and duration, and any limits: that the counts of a phase say     *)
(* what happened in it.                                                      *)
EXTENDS LoadWorker, FiniteSetTheorems, SequenceTheorems, TLAPS

Requests == [phase : Nat, client : Clients, seq : Nat]

(* What a client has sent or queued and the server has not handled.          *)
Unserved(c) == toServer[c] \o sendBuffer[c]

Workloads == {"direct", "broadcast"}
Steps == {"blocked", "starting", "offering", "serving", "draining"}
Queues == [Clients -> Seq(Requests)]
Counters == [offered : Nat, sent : Nat, missed : Nat, completed : Nat, deliveries : Nat]

Types ==
  /\ workload \in Workloads /\ (workload = "broadcast" => Total > 1)
  /\ phase \in Nat /\ pc \in Steps /\ now \in Int
  /\ sendBuffer \in Queues /\ pending \in Queues
  /\ toServer \in Queues /\ fromServer \in Queues
  /\ closed \in [Clients -> BOOLEAN] /\ broken \subseteq Clients
  /\ state \in Counters
  /\ mispaired \in BOOLEAN /\ leftover \in BOOLEAN

-----------------------------------------------------------------------------
(* The invariant.                                                            *)

(* An entry of the heap: an operation of its client that is due before the   *)
(* end of the phase.                                                         *)
EntryOK(e) ==
  /\ e.at \in Nat /\ e.seq \in 0 .. Target - 1 /\ e.client \in 0 .. Active - 1
  /\ e.seq % Active = e.client
  /\ e.at * Rate <= e.seq * Second

(* Each client has one entry at most, in the heap or due.                    *)
HeapInv ==
  /\ \A e \in schedule \cup due : EntryOK(e)
  /\ \A d, e \in schedule : d.client = e.client => d = e
  /\ \A d, e \in due : d.client = e.client => d = e
  /\ \A d \in schedule : \A e \in due : d.client # e.client
  /\ due # {} => pc = "offering"
  /\ pc \in {"blocked", "starting"} => schedule = {}

(* What is still to be offered of an entry's client.                         *)
Covers(e, s) == s % Active = e.client /\ e.seq <= s

(* The heap stands for exactly what was not offered yet.                     *)
TriedInv ==
  /\ tried \subseteq 0 .. Target - 1
  /\ pc \in {"offering", "serving"} =>
       \A s \in 0 .. Target - 1 : s \in tried <=> \A e \in schedule \cup due : ~Covers(e, s)
  /\ pc = "starting" => tried = {}
  /\ OffersAddUp

(* No request of the phase is in a queue twice.                              *)
Distinct(q) == \A i, j \in 1 .. Len(q) : q[i] = q[j] /\ q[i].phase = phase => i = j

(* Requests of a client before the server has handled them,                  *)
Fresh(q, c) ==
  /\ \A i \in 1 .. Len(q) :
       /\ q[i].client = c /\ q[i].phase <= phase
       /\ q[i].phase = phase => q[i].seq \in tried /\ q[i] \notin served
  /\ Distinct(q)

(* after it,                                                                 *)
Handled(q) ==
  /\ \A i \in 1 .. Len(q) : q[i].phase <= phase /\ (q[i].phase = phase => q[i] \in served)
  /\ Distinct(q)

(* and those a client waits for.                                             *)
Own(q, c) == \A i \in 1 .. Len(q) : q[i].client = c /\ q[i].phase = phase

QueueInv ==
  /\ \A c \in Clients :
       /\ Fresh(Unserved(c), c) /\ Handled(fromServer[c]) /\ Own(pending[c], c)
       /\ c \in broken => toServer[c] = << >>
       /\ Len(sendBuffer[c]) <= MaxQueue
  /\ \A r \in served : r \in Requests /\ r.phase = phase /\ r.seq \in tried
  /\ pc \in {"blocked", "starting"} => pending = NoMessages

(* What a client of a direct workload waits for is what is on the way, in    *)
(* order; of a lost connection, what arrives is at least the beginning.      *)
Starts(q, u) == Len(q) <= Len(u) /\ \A i \in 1 .. Len(q) : q[i] = u[i]

Paired(c) ==
  /\ c \notin broken => pending[c] = fromServer[c] \o Unserved(c)
  /\ Starts(fromServer[c], pending[c])

PairInv ==
  /\ workload = "direct" /\ ~leftover => \A c \in Clients : Paired(c)
  /\ PairedIfDrained

In(q, r) == \E i \in 1 .. Len(q) : q[i] = r

(* The requests of the phase, handled or not.                                *)
Known == served \cup {r \in Requests : r.phase = phase /\ \E c \in Clients : In(Unserved(c), r)}

KnownInv == IsFiniteSet(Known) /\ Cardinality(Known) <= state.sent

(* A direct request is completed or waits.                                   *)
OutstandingInv ==
  /\ IsFiniteSet(Outstanding)
  /\ workload = "direct" =>
       /\ state.deliveries = state.completed /\ state.completed <= state.sent
       /\ pc # "blocked" => state.sent = state.completed + Cardinality(Outstanding)

(* A broadcast completes when its copy to the next client is read.           *)
Completing == {r \in served : In(fromServer[(r.client + 1) % Total], r)}

CompletingInv ==
  workload = "broadcast" => state.completed + Cardinality(Completing) <= Cardinality(served)

(* Each handled request has so many copies at most, on the way or counted.   *)
Fan == IF workload = "broadcast" THEN Total - 1 ELSE 1
InFlight == {p \in Clients \X served : In(fromServer[p[1]], p[2])}

InFlightInv ==
  workload = "broadcast" \/ ~leftover =>
    state.deliveries + Cardinality(InFlight) <= Fan * Cardinality(served)

CountInv == KnownInv /\ OutstandingInv /\ CompletingInv /\ InFlightInv

-----------------------------------------------------------------------------
(* Numbers.                                                                  *)

LEMMA ConstantTypes ==
  /\ Total \in Nat /\ Total > 0 /\ Active \in Nat /\ Active > 0 /\ Active <= Total
  /\ Second \in Nat /\ Second > 0 /\ Rate \in Nat /\ Rate > 0
  /\ MaxOverdue \in Nat /\ MaxQueue \in Nat /\ MaxQueue > 0 /\ Phases \in Nat
  /\ Duration \in Nat /\ Drain \in Nat /\ Quiet \in Nat /\ StartDelay \in Nat
  /\ MaxLate \in Nat /\ MaxLag \in Nat
BY LoadConstants

(* Division with a remainder.                                                *)
LEMMA Division ==
  ASSUME NEW a \in Nat, NEW b \in Nat, b > 0
  PROVE  /\ a \div b \in Nat /\ a % b \in 0 .. b - 1
         /\ a = b * (a \div b) + (a % b)
         /\ b * (a \div b) <= a /\ a < b * (a \div b) + b
<1>1. a \div b \in Nat
  BY Z3
<1>2. a % b \in 0 .. b - 1
  BY Z3
<1>3. b * (a \div b) <= a /\ a < b * (a \div b) + b
  BY Z3
<1>4. a = b * (a \div b) + (a % b)
  BY Z3
<1> QED BY <1>1, <1>2, <1>3, <1>4, Zenon

(* Quotient and remainder are the only ones.                                 *)
LEMMA Remainder ==
  ASSUME NEW b \in Nat, b > 0, NEW q \in Nat, NEW r \in 0 .. b - 1
  PROVE  (b * q + r) % b = r /\ (b * q + r) \div b = q
<1>1. (b * q + r) % b = r
  BY Z3
<1>2. (b * q + r) \div b = q
  BY Z3
<1> QED BY <1>1, <1>2

LEMMA TargetType == Target \in Nat /\ Target * Second <= Rate * Duration
<1>1. Rate * Duration \in Nat
  BY ConstantTypes
<1> QED BY <1>1, ConstantTypes, Division DEF Target

LEMMA PeriodType == Period \in Nat /\ Period * Rate <= Active * Second
<1>1. Second * Active \in Nat /\ Second * Active = Active * Second
  BY ConstantTypes
<1> QED BY <1>1, ConstantTypes, Division DEF Period

(* The next number of the same client.                                       *)
LEMMA SameClass ==
  ASSUME NEW s \in Nat, NEW t \in Nat, NEW b \in Nat, b > 0, s % b = t % b, s < t
  PROVE  s + b <= t
<1> DEFINE p == s \div b  q == t \div b
<1>1. /\ s = b * p + (s % b) /\ t = b * q + (t % b)
      /\ p \in Nat /\ q \in Nat /\ s % b \in Nat
  BY Division
<1> HIDE DEF p, q
<1>2. b * p < b * q
  BY <1>1
<1>3. p + 1 <= q
  BY <1>1, <1>2
<1>4. b * (p + 1) <= b * q
  BY <1>1, <1>3
<1> QED BY <1>1, <1>4

LEMMA SameFactor ==
  ASSUME NEW i \in Int, NEW j \in Int, NEW a \in Int, NEW b \in Nat, b > 0,
         a + (i - 1) * b = a + (j - 1) * b
  PROVE  i = j
<1>1. (i - 1) * b = i * b - b /\ (j - 1) * b = j * b - b /\ i * b \in Int /\ j * b \in Int
  OBVIOUS
<1>2. i * b = j * b
  BY <1>1
<1>3. CASE i < j
  <2>1. i * b < j * b
    BY <1>3
  <2> QED BY <1>1, <1>2, <2>1
<1>4. CASE j < i
  <2>1. j * b < i * b
    BY <1>4
  <2> QED BY <1>1, <1>2, <2>1
<1> QED BY <1>3, <1>4

LEMMA NextOfClass ==
  ASSUME NEW s \in Nat, NEW b \in Nat, b > 0
  PROVE  (s + b) % b = s % b
<1> DEFINE q == s \div b  r == s % b
<1>1. s = b * q + r /\ q \in Nat /\ r \in 0 .. b - 1
  BY Division
<1> HIDE DEF q, r
<1>2. q + 1 \in Nat /\ b * (q + 1) = b * q + b
  BY <1>1
<1>3. s + b = b * (q + 1) + r
  <2>1. b * q \in Nat
    BY <1>1
  <2> QED BY <1>1, <1>2, <2>1
<1>4. (b * (q + 1) + r) % b = r
  BY <1>1, <1>2, Remainder
<1> QED BY <1>3, <1>4 DEF r

(* An entry is due before the end of the phase, and so is the next.          *)
LEMMA EntriesAreInTime ==
  ASSUME NEW e, EntryOK(e)
  PROVE  e.at < Duration
<1>1. e.seq + 1 <= Target /\ e.seq \in Nat /\ e.at \in Nat /\ Target \in Nat
  BY TargetType DEF EntryOK
<1>2. (e.seq + 1) * Second <= Target * Second
  BY <1>1, ConstantTypes
<1>3. e.seq * Second < (e.seq + 1) * Second
  BY <1>1, ConstantTypes
<1>4. /\ e.seq * Second \in Nat /\ (e.seq + 1) * Second \in Nat /\ Target * Second \in Nat
      /\ e.at * Rate \in Nat /\ Rate * Duration \in Nat /\ Rate * Duration = Duration * Rate
  BY <1>1, ConstantTypes
<1>5. e.at * Rate < Duration * Rate
  BY <1>2, <1>3, <1>4, TargetType DEF EntryOK
<1> QED BY <1>1, <1>5, ConstantTypes

LEMMA NextOfferOK ==
  ASSUME NEW e, EntryOK(e), NEW n \in NextOffer(e)
  PROVE  /\ EntryOK(n) /\ n.client = e.client /\ n.seq = e.seq + Active
         /\ n = [at |-> e.at + Period, seq |-> e.seq + Active, client |-> e.client]
<1>1. n = [at |-> e.at + Period, seq |-> e.seq + Active, client |-> e.client]
      /\ e.seq + Active < Target
  BY DEF NextOffer
<1>2. e.at \in Nat /\ e.seq \in Nat /\ Period \in Nat /\ Active \in Nat /\ Target \in Nat
  BY PeriodType, TargetType, ConstantTypes DEF EntryOK
<1>3. n.at \in Nat /\ n.seq \in 0 .. Target - 1
  BY <1>1, <1>2
<1>4. n.seq % Active = e.client
  BY <1>1, <1>2, NextOfClass, ConstantTypes DEF EntryOK
<1>5. n.at * Rate <= n.seq * Second
  <2>1. (e.at + Period) * Rate = e.at * Rate + Period * Rate
    BY <1>2, ConstantTypes
  <2>2. (e.seq + Active) * Second = e.seq * Second + Active * Second
    BY <1>2, ConstantTypes
  <2>3. /\ e.at * Rate \in Nat /\ Period * Rate \in Nat
        /\ e.seq * Second \in Nat /\ Active * Second \in Nat
    BY <1>2, ConstantTypes
  <2> QED BY <1>1, <2>1, <2>2, <2>3, PeriodType DEF EntryOK
<1> QED BY <1>1, <1>3, <1>4, <1>5 DEF EntryOK

-----------------------------------------------------------------------------
(* Offers.                                                                   *)

LEMMA TriedSize ==
  ASSUME TriedInv
  PROVE  IsFiniteSet(tried) /\ Cardinality(tried) \in Nat
<1>1. IsFiniteSet(0 .. Target - 1)
  BY TargetType, FS_Interval
<1>2. IsFiniteSet(tried)
  BY <1>1, FS_Subset DEF TriedInv
<1> QED BY <1>2, FS_CardinalityType

(* The heap stands for what was not tried, so this is what CountRest counts. *)
LEMMA RestSize ==
  ASSUME Types, HeapInv, TriedInv, pc = "offering", due = {}
  PROVE  IsFiniteSet(Rest) /\ Cardinality(Rest) = Target - Cardinality(tried)
<1> DEFINE Untried == (0 .. Target - 1) \ tried
           f == [p \in Rest |-> p[1].seq + (p[2] - 1) * Active]
<1>1. \A e \in schedule : /\ e.at < Duration /\ e.client \in Nat
                          /\ e.seq \in Nat /\ e.seq < Target /\ e.seq % Active = e.client
                          /\ remaining(e) = 1 + (Target - 1 - e.seq) \div Active
                          /\ remaining(e) \in Nat
  <2> TAKE e \in schedule
  <2>1. EntryOK(e)
    BY DEF HeapInv
  <2>2. e.seq \in Nat /\ e.seq < Target /\ e.client \in Nat /\ Target - 1 - e.seq \in Nat
    BY <2>1, TargetType, ConstantTypes DEF EntryOK
  <2>3. (Target - 1 - e.seq) \div Active \in Nat
    BY <2>2, ConstantTypes, Division
  <2> QED BY <2>1, <2>2, <2>3, EntriesAreInTime DEF EntryOK, remaining
<1>2. \A p \in Rest : /\ p[1] \in schedule /\ p[2] \in 1 .. remaining(p[1])
                      /\ p = <<p[1], p[2]>>
  BY DEF Rest
<1>3. \A e \in schedule : \A k \in 1 .. remaining(e) : <<e, k>> \in Rest
  BY <1>1 DEF Rest
<1>4. \A e \in schedule : \A k \in 1 .. remaining(e) :
        /\ e.seq + (k - 1) * Active \in Untried
        /\ (e.seq + (k - 1) * Active) % Active = e.client
  <2> TAKE e \in schedule
  <2> TAKE k \in 1 .. remaining(e)
  <2> DEFINE q == (Target - 1 - e.seq) \div Active  n == e.seq + (k - 1) * Active
             p == e.seq \div Active
  <2>1. k - 1 \in Nat /\ k - 1 <= q /\ q \in Nat /\ e.seq \in Nat /\ e.seq < Target
    <3>1. Target - 1 - e.seq \in Nat /\ remaining(e) = 1 + q
      BY <1>1, TargetType
    <3>2. q \in Nat
      BY <3>1, ConstantTypes, Division
    <3> QED BY <1>1, <3>1, <3>2
  <2>2. Active * q <= Target - 1 - e.seq
    BY <1>1, TargetType, ConstantTypes, Division
  <2>3. e.seq = Active * p + (e.seq % Active) /\ p \in Nat /\ e.seq % Active \in 0 .. Active - 1
    BY <2>1, ConstantTypes, Division
  <2> HIDE DEF q, p
  <2>4. (k - 1) * Active <= Active * q /\ (k - 1) * Active \in Nat /\ Active * q \in Nat
    BY <2>1, ConstantTypes
  <2>5. n \in 0 .. Target - 1 /\ e.seq <= n
    BY <2>1, <2>2, <2>4, TargetType
  <2>6. n = Active * (p + (k - 1)) + (e.seq % Active)
    <3>1. Active * (p + (k - 1)) = Active * p + (k - 1) * Active /\ Active * p \in Nat
      BY <2>1, <2>3, ConstantTypes
    <3> QED BY <2>1, <2>3, <2>4, <3>1
  <2>7. n % Active = e.client
    <3> DEFINE x == p + (k - 1)  r == e.seq % Active
    <3>1. x \in Nat /\ r \in 0 .. Active - 1
      BY <2>1, <2>3
    <3> HIDE DEF x, r
    <3>2. (Active * x + r) % Active = r
      BY <3>1, ConstantTypes, Remainder
    <3> QED BY <1>1, <2>6, <3>2 DEF x, r
  <2>8. n \notin tried
    BY <2>5, <2>7 DEF TriedInv, Covers
  <2> QED BY <2>5, <2>7, <2>8
<1>5. f \in [Rest -> Untried]
  BY <1>2, <1>4
<1>6. \A p, r \in Rest : f[p] = f[r] => p = r
  <2> SUFFICES ASSUME NEW p \in Rest, NEW r \in Rest, f[p] = f[r]
               PROVE  p = r
    OBVIOUS
  <2>1. p[1] \in schedule /\ r[1] \in schedule
    BY <1>2
  <2>2. p[1].client = r[1].client
    BY <1>2, <1>4, <2>1
  <2>3. p[1] = r[1]
    BY <2>1, <2>2 DEF HeapInv
  <2>4. p[2] \in Nat /\ r[2] \in Nat /\ p[1].seq \in Nat
    BY <1>1, <1>2, <2>1
  <2>5. p[1].seq + (p[2] - 1) * Active = r[1].seq + (r[2] - 1) * Active
    OBVIOUS
  <2>6. p[1].seq + (p[2] - 1) * Active = p[1].seq + (r[2] - 1) * Active
    BY <2>3, <2>5, Zenon
  <2> DEFINE i == p[2]  j == r[2]  a == p[1].seq
  <2>7. a + (i - 1) * Active = a + (j - 1) * Active /\ i \in Int /\ j \in Int /\ a \in Int
    BY <2>4, <2>6
  <2> HIDE DEF i, j, a
  <2>8. i = j
    BY <2>7, ConstantTypes, SameFactor
  <2> QED BY <1>2, <2>3, <2>8 DEF i, j
<1>7. \A s \in Untried : \E p \in Rest : f[p] = s
  <2> SUFFICES ASSUME NEW s \in Untried
               PROVE  \E p \in Rest : f[p] = s
    OBVIOUS
  <2>1. PICK e \in schedule : s % Active = e.client /\ e.seq <= s
    BY DEF TriedInv, Covers
  <2> DEFINE a == s \div Active  b == e.seq \div Active
             q == (Target - 1 - e.seq) \div Active
  <2>2. s \in Nat /\ s < Target /\ e.seq \in Nat /\ e.seq % Active = e.client
    BY <1>1, TargetType
  <2>3. /\ s = Active * a + e.client /\ a \in Nat
        /\ e.seq = Active * b + e.client /\ b \in Nat /\ e.client \in Nat
    BY <2>1, <2>2, <1>1, ConstantTypes, Division
  <2>4. q \in Nat /\ Target - 1 - e.seq < Active * q + Active /\ remaining(e) = 1 + q
    BY <1>1, <2>2, TargetType, ConstantTypes, Division
  <2> HIDE DEF a, b, q
  <2>5. b <= a
    <3>1. Active * b <= Active * a
      BY <2>1, <2>3, ConstantTypes
    <3> QED BY <2>3, <3>1, ConstantTypes
  <2>6. a - b <= q
    <3>1. Active * a - Active * b < Active * q + Active
      <4>1. Active * a \in Nat /\ Active * b \in Nat /\ Active * q \in Nat
        BY <2>3, <2>4, ConstantTypes
      <4> QED BY <2>2, <2>3, <2>4, <4>1, TargetType, ConstantTypes
    <3>2. Active * (a - b) < Active * (q + 1)
      BY <2>3, <2>4, <3>1, ConstantTypes
    <3>3. a - b < q + 1
      BY <2>3, <2>4, <2>5, <3>2, ConstantTypes
    <3> QED BY <2>3, <2>4, <3>3
  <2> DEFINE p == <<e, a - b + 1>>
  <2>7. p \in Rest
    BY <1>3, <2>3, <2>4, <2>5, <2>6
  <2>8. f[p] = s
    <3>1. (a - b) * Active = Active * a - Active * b
      BY <2>3, ConstantTypes
    <3>2. f[p] = e.seq + ((a - b + 1) - 1) * Active
      <4>1. f[p] = p[1].seq + (p[2] - 1) * Active
        BY <2>7
      <4> QED BY <4>1
    <3>3. (a - b + 1) - 1 = a - b
      BY <2>3
    <3>4. Active * a \in Nat /\ Active * b \in Nat
      BY <2>3, ConstantTypes
    <3> QED BY <2>3, <3>1, <3>2, <3>3, <3>4
  <2> QED BY <2>7, <2>8
<1> HIDE DEF f
<1>8. f \in Injection(Rest, Untried) /\ f \in Surjection(Rest, Untried)
  BY <1>5, <1>6, <1>7 DEF Injection, Surjection, IsInjective
<1>9. IsFiniteSet(0 .. Target - 1) /\ Cardinality(0 .. Target - 1) = Target
  BY TargetType, FS_Interval
<1>10. IsFiniteSet(Untried) /\ Cardinality(Untried) = Target - Cardinality(tried)
  <2>1. tried = (0 .. Target - 1) \cap tried
    BY DEF TriedInv
  <2>2. IsFiniteSet(Untried)
        /\ Cardinality(Untried) = Cardinality(0 .. Target - 1)
                                    - Cardinality((0 .. Target - 1) \cap tried)
    BY <1>9, FS_Difference
  <2> QED BY <1>9, <2>1, <2>2
<1>11. IsFiniteSet(Rest) /\ Cardinality(Rest) = Cardinality(Untried)
  BY <1>8, <1>10, FS_Injection
<1> QED BY <1>10, <1>11

-----------------------------------------------------------------------------
(* The steps, and the types.                                                 *)

(* By how much the counters of a step grow.                                 *)
Counts(s, t, o, n, m, c, d) ==
  /\ t \in Counters
  /\ t.offered = s.offered + o /\ t.sent = s.sent + n /\ t.missed = s.missed + m
  /\ t.completed = s.completed + c /\ t.deliveries = s.deliveries + d

LEMMA Counting ==
  ASSUME NEW s \in Counters, NEW n \in Nat, NEW k \in Nat
  PROVE  /\ Counts(s, s, 0, 0, 0, 0, 0)
         /\ Counts(s, [s EXCEPT !.offered = s.offered + n, !.sent = s.sent + k], n, k, 0, 0, 0)
         /\ Counts(s, [s EXCEPT !.offered = s.offered + n, !.missed = s.missed + k], n, 0, k, 0, 0)
         /\ Counts(s, [s EXCEPT !.deliveries = s.deliveries + n, !.completed = s.completed + k],
                   0, 0, 0, k, n)
<1>1. /\ s.offered \in Nat /\ s.sent \in Nat /\ s.missed \in Nat /\ s.completed \in Nat
      /\ s.deliveries \in Nat
  BY DEF Counters
<1>2. s.offered + n \in Nat /\ s.sent + k \in Nat /\ s.missed + k \in Nat
      /\ s.completed + k \in Nat /\ s.deliveries + n \in Nat
  BY <1>1
<1>3. Counts(s, s, 0, 0, 0, 0, 0)
  BY <1>1 DEF Counts
<1>4. ASSUME NEW t, t = [s EXCEPT !.offered = s.offered + n, !.sent = s.sent + k]
      PROVE  Counts(s, t, n, k, 0, 0, 0)
  <2>1. t \in Counters
    BY <1>2, <1>4 DEF Counters
  <2>2. /\ t.offered = s.offered + n /\ t.sent = s.sent + k
        /\ t.missed = s.missed /\ t.completed = s.completed /\ t.deliveries = s.deliveries
    BY <1>4 DEF Counters
  <2> QED BY <1>1, <2>1, <2>2 DEF Counts
<1>5. ASSUME NEW t, t = [s EXCEPT !.offered = s.offered + n, !.missed = s.missed + k]
      PROVE  Counts(s, t, n, 0, k, 0, 0)
  <2>1. t \in Counters
    BY <1>2, <1>5 DEF Counters
  <2>2. /\ t.offered = s.offered + n /\ t.sent = s.sent
        /\ t.missed = s.missed + k /\ t.completed = s.completed /\ t.deliveries = s.deliveries
    BY <1>5 DEF Counters
  <2> QED BY <1>1, <2>1, <2>2 DEF Counts
<1>6. ASSUME NEW t, t = [s EXCEPT !.deliveries = s.deliveries + n, !.completed = s.completed + k]
      PROVE  Counts(s, t, 0, 0, 0, k, n)
  <2>1. t \in Counters
    BY <1>2, <1>6 DEF Counters
  <2>2. /\ t.offered = s.offered /\ t.sent = s.sent
        /\ t.missed = s.missed /\ t.completed = s.completed + k /\ t.deliveries = s.deliveries + n
    BY <1>6 DEF Counters
  <2> QED BY <1>1, <2>1, <2>2 DEF Counts
<1> QED BY <1>3, <1>4, <1>5, <1>6, Zenon

LEMMA Regroup ==
  \A s, t, u \in Seq(Requests) : (s \o t) \o u = s \o (t \o u)
BY ConcatAssociative, SMTT(60)

(* Splitting a sequence keeps it.                                            *)
LEMMA Split ==
  ASSUME NEW S, NEW q \in Seq(S), NEW n \in 0 .. Len(q)
  PROVE  /\ SubSeq(q, 1, n) \in Seq(S) /\ SubSeq(q, n + 1, Len(q)) \in Seq(S)
         /\ SubSeq(q, 1, n) \o SubSeq(q, n + 1, Len(q)) = q
         /\ Len(SubSeq(q, n + 1, Len(q))) <= Len(q)
<1>1. Len(q) \in Nat /\ n \in Nat /\ \A i \in 1 .. Len(q) : q[i] \in S
  BY LenProperties, ElementOfSeq
<1>2. SubSeq(q, 1, n) \in Seq(S)
  BY <1>1, SubSeqProperties
<1>3. SubSeq(q, n + 1, Len(q)) \in Seq(S)
      /\ Len(SubSeq(q, n + 1, Len(q))) = IF n + 1 <= Len(q) THEN Len(q) - (n + 1) + 1 ELSE 0
  BY <1>1, SubSeqProperties
<1>4. SubSeq(q, 1, n) \o SubSeq(q, n + 1, Len(q)) = SubSeq(q, 1, Len(q))
  <2>1. /\ 1 \in 1 .. Len(q) + 1 /\ n \in 1 - 1 .. Len(q) /\ Len(q) \in n .. Len(q)
    BY <1>1
  <2> QED BY <2>1, ConcatAdjacentSubSeq, Zenon
<1>5. SubSeq(q, 1, Len(q)) = q
  BY SubSeqFull
<1>6. Len(SubSeq(q, n + 1, Len(q))) <= Len(q)
  BY <1>1, <1>3
<1> QED BY <1>2, <1>3, <1>4, <1>5, <1>6, Zenon

(* A flush leaves what a client has to send, in order, and only that client  *)
(* is concerned.                                                             *)
LEMMA FlushEffect ==
  ASSUME Types, NEW c \in Clients, NEW buffer \in Seq(Requests), NEW request \in Seq(Requests),
         Flush(c, buffer, request)
  PROVE  /\ sendBuffer' \in Queues /\ toServer' \in Queues /\ pending' \in Queues
         /\ pending' = [pending EXCEPT ![c] = pending[c] \o request]
         /\ \A d \in Clients \ {c} : sendBuffer'[d] = sendBuffer[d] /\ toServer'[d] = toServer[d]
         /\ c \in broken => sendBuffer'[c] = << >> /\ toServer'[c] = toServer[c]
         /\ c \notin broken => Unserved(c)' = toServer[c] \o buffer
         /\ Len(sendBuffer'[c]) <= Len(buffer)
<1>1. /\ pending[c] \in Seq(Requests) /\ toServer[c] \in Seq(Requests)
      /\ Len(buffer) \in Nat /\ << >> \in Seq(Requests) /\ Len(<< >>) = 0
  BY EmptySeq, LenProperties DEF Types, Queues
<1>2. pending' = [pending EXCEPT ![c] = pending[c] \o request]
  BY DEF Flush
<1>3. pending' \in Queues
  BY <1>1, <1>2, ConcatProperties DEF Types, Queues
<1>4. CASE c \in broken
  <2>1. sendBuffer' = [sendBuffer EXCEPT ![c] = << >>] /\ toServer' = toServer
    BY <1>4 DEF Flush
  <2>2. sendBuffer' \in Queues /\ sendBuffer'[c] = << >>
        /\ \A d \in Clients \ {c} : sendBuffer'[d] = sendBuffer[d]
    BY <1>1, <2>1 DEF Types, Queues
  <2>3. Len(sendBuffer'[c]) <= Len(buffer)
    BY <1>1, <2>2
  <2> QED BY <1>2, <1>3, <1>4, <2>1, <2>2, <2>3 DEF Types
<1>5. CASE c \notin broken
  <2>1. PICK n \in 0 .. Len(buffer) :
          /\ sendBuffer' = [sendBuffer EXCEPT ![c] = SubSeq(buffer, n + 1, Len(buffer))]
          /\ toServer' = [toServer EXCEPT ![c] = toServer[c] \o SubSeq(buffer, 1, n)]
    BY <1>5 DEF Flush
  <2> DEFINE sent == SubSeq(buffer, 1, n)  kept == SubSeq(buffer, n + 1, Len(buffer))
  <2>2. sent \in Seq(Requests) /\ kept \in Seq(Requests) /\ sent \o kept = buffer
        /\ Len(kept) <= Len(buffer)
    BY Split
  <2>3. /\ sendBuffer' = [sendBuffer EXCEPT ![c] = kept]
        /\ toServer' = [toServer EXCEPT ![c] = toServer[c] \o sent]
    BY <2>1
  <2> HIDE DEF sent, kept
  <2>4. toServer[c] \o sent \in Seq(Requests)
    BY <1>1, <2>2, ConcatProperties
  <2>5. sendBuffer' \in Queues /\ toServer' \in Queues
    BY <2>2, <2>3, <2>4 DEF Types, Queues
  <2>6. toServer'[c] = toServer[c] \o sent /\ sendBuffer'[c] = kept
    BY <2>3 DEF Types, Queues
  <2>7. (toServer[c] \o sent) \o kept = toServer[c] \o buffer
    <3>1. \A t, u \in Seq(Requests) : (toServer[c] \o t) \o u = toServer[c] \o (t \o u)
      BY <1>1, Regroup, Zenon
    <3>2. \A u \in Seq(Requests) : (toServer[c] \o sent) \o u = toServer[c] \o (sent \o u)
      BY <2>2, <3>1, Zenon
    <3>3. (toServer[c] \o sent) \o kept = toServer[c] \o (sent \o kept)
      BY <2>2, <3>2, Zenon
    <3> QED BY <2>2, <3>3, Zenon
  <2>8. \A d \in Clients \ {c} : sendBuffer'[d] = sendBuffer[d] /\ toServer'[d] = toServer[d]
    BY <2>3 DEF Types, Queues
  <2> QED BY <1>2, <1>3, <1>5, <2>2, <2>5, <2>6, <2>7, <2>8 DEF Unserved
<1> QED BY <1>4, <1>5

(* The request of an offer, and what its client has then to send.            *)
LEMMA OfferTypes ==
  ASSUME Types, HeapInv, NEW e \in due
  PROVE  /\ EntryOK(e) /\ e.client \in Clients /\ Request(e) \in Requests
         /\ Append(sendBuffer[e.client], Request(e)) \in Seq(Requests)
         /\ <<Request(e)>> \in Seq(Requests) /\ << >> \in Seq(Requests)
<1>1. EntryOK(e)
  BY DEF HeapInv
<1>2. e.client \in Clients /\ e.seq \in Nat
  BY <1>1, ConstantTypes, TargetType DEF EntryOK, Clients
<1>3. Request(e) \in Requests
  BY <1>2 DEF Request, Requests, Types
<1>4. sendBuffer[e.client] \in Seq(Requests)
  BY <1>2 DEF Types, Queues
<1>5. Append(sendBuffer[e.client], Request(e)) \in Seq(Requests)
  BY <1>3, <1>4, AppendProperties
<1> QED BY <1>1, <1>2, <1>3, <1>5

(* An offer that is not missed.                                              *)
LEMMA SendEffect ==
  ASSUME Types, HeapInv, NEW e \in due, Send(e)
  PROVE  LET c == e.client
             request == IF workload = "direct" THEN <<Request(e)>> ELSE << >>
         IN  /\ sendBuffer' \in Queues /\ toServer' \in Queues /\ pending' \in Queues
             /\ pending' = [pending EXCEPT ![c] = pending[c] \o request]
             /\ \A d \in Clients \ {c} : /\ sendBuffer'[d] = sendBuffer[d]
                                         /\ toServer'[d] = toServer[d]
             /\ c \in broken => sendBuffer'[c] = << >> /\ toServer'[c] = toServer[c]
             /\ c \notin broken => Unserved(c)' = Append(Unserved(c), Request(e))
             /\ Len(sendBuffer'[c]) <= Len(sendBuffer[c]) + 1
             /\ state' = [state EXCEPT !.offered = state.offered + 1, !.sent = state.sent + 1]
<1> DEFINE c == e.client
           buffer == Append(sendBuffer[c], Request(e))
           request == IF workload = "direct" THEN <<Request(e)>> ELSE << >>
<1>1. /\ c \in Clients /\ Request(e) \in Requests /\ buffer \in Seq(Requests)
      /\ request \in Seq(Requests)
  BY OfferTypes
<1>2. Flush(c, buffer, request)
      /\ state' = [state EXCEPT !.offered = state.offered + 1, !.sent = state.sent + 1]
  BY DEF Send
<1>3. sendBuffer[c] \in Seq(Requests) /\ toServer[c] \in Seq(Requests)
  BY <1>1 DEF Types, Queues
<1>4. Len(buffer) = Len(sendBuffer[c]) + 1
  BY <1>1, <1>3, AppendProperties
<1>5. toServer[c] \o buffer = Append(Unserved(c), Request(e))
  <2>1. buffer = sendBuffer[c] \o <<Request(e)>> /\ <<Request(e)>> \in Seq(Requests)
    BY <1>1, <1>3, AppendIsConcat, OfferTypes
  <2>2. Unserved(c) \in Seq(Requests)
    BY <1>3, ConcatProperties DEF Unserved
  <2>3. Append(Unserved(c), Request(e)) = Unserved(c) \o <<Request(e)>>
    BY <1>1, <2>2, AppendIsConcat
  <2>4. toServer[c] \o (sendBuffer[c] \o <<Request(e)>>) = Unserved(c) \o <<Request(e)>>
    BY <1>3, <2>1, Regroup, Zenon DEF Unserved
  <2> QED BY <2>1, <2>3, <2>4, Zenon
<1> HIDE DEF c, buffer, request
<1>6. /\ sendBuffer' \in Queues /\ toServer' \in Queues /\ pending' \in Queues
      /\ pending' = [pending EXCEPT ![c] = pending[c] \o request]
      /\ \A d \in Clients \ {c} : sendBuffer'[d] = sendBuffer[d] /\ toServer'[d] = toServer[d]
      /\ c \in broken => sendBuffer'[c] = << >> /\ toServer'[c] = toServer[c]
      /\ c \notin broken => Unserved(c)' = toServer[c] \o buffer
      /\ Len(sendBuffer'[c]) <= Len(buffer)
  BY <1>1, <1>2, FlushEffect, Zenon
<1> USE DEF c, buffer, request
<1> QED BY <1>2, <1>4, <1>5, <1>6, Zenon

(* What a line that is read changes.                                         *)
LEMMA ReadEffect ==
  ASSUME Types, NEW c \in Clients, ReadLine(c)
  PROVE  /\ fromServer' = [fromServer EXCEPT ![c] = Tail(fromServer[c])]
         /\ fromServer[c] # << >> /\ fromServer' \in Queues /\ pending' \in Queues
         /\ mispaired' \in BOOLEAN
         /\ \E i, j \in 0 .. 1 : Counts(state, state', 0, 0, 0, i, j)
<1>1. /\ fromServer' = [fromServer EXCEPT ![c] = Tail(fromServer[c])]
      /\ fromServer[c] # << >>
  BY DEF ReadLine
<1>2. fromServer' \in Queues
  <2>1. Tail(fromServer[c]) \in Seq(Requests)
    BY <1>1, HeadTailProperties DEF Types, Queues
  <2> QED BY <1>1, <2>1 DEF Types, Queues
<1>3. CASE workload = "direct" /\ pending[c] = << >>
  <2>1. state' = state /\ pending' = pending /\ mispaired' = mispaired
    BY <1>3 DEF ReadLine, Answered
  <2>2. Counts(state, state', 0, 0, 0, 0, 0)
    BY <2>1, Counting DEF Types
  <2> QED BY <1>1, <1>2, <2>1, <2>2 DEF Types
<1>4. CASE workload = "direct" /\ pending[c] # << >>
  <2>1. /\ pending' = [pending EXCEPT ![c] = Tail(pending[c])]
        /\ state' = [state EXCEPT !.deliveries = state.deliveries + 1,
                                  !.completed = state.completed + 1]
        /\ mispaired' = (mispaired \/ Head(pending[c]) # Head(fromServer[c]))
    BY <1>4 DEF ReadLine, Answered
  <2>2. Tail(pending[c]) \in Seq(Requests)
    BY <1>4, HeadTailProperties DEF Types, Queues
  <2>3. pending' \in Queues
    BY <2>1, <2>2 DEF Types, Queues
  <2>4. mispaired' \in BOOLEAN
    BY <2>1
  <2>5. Counts(state, state', 0, 0, 0, 1, 1)
    BY <2>1, Counting DEF Types
  <2> QED BY <1>1, <1>2, <2>3, <2>4, <2>5
<1>5. CASE workload # "direct"
  <2>1. pending' = pending /\ mispaired' = mispaired
    BY <1>5 DEF ReadLine, Delivered
  <2> DEFINE m == Head(fromServer[c])
  <2>2. CASE m.phase # phase
    <3>1. Counts(state, state', 0, 0, 0, 0, 0)
      BY <1>5, <2>2, Counting DEF ReadLine, Delivered, Types
    <3> QED BY <1>1, <1>2, <2>1, <3>1 DEF Types
  <2>3. CASE m.phase = phase /\ c = (m.client + 1) % Total
    <3>1. state' = [state EXCEPT !.deliveries = state.deliveries + 1,
                                 !.completed = state.completed + 1]
      BY <1>5, <2>3 DEF ReadLine, Delivered
    <3>2. Counts(state, state', 0, 0, 0, 1, 1)
      BY <3>1, Counting DEF Types
    <3> QED BY <1>1, <1>2, <2>1, <3>2 DEF Types
  <2>4. CASE m.phase = phase /\ c # (m.client + 1) % Total
    <3>1. state' = [state EXCEPT !.deliveries = state.deliveries + 1,
                                 !.completed = state.completed]
      BY <1>5, <2>4 DEF ReadLine, Delivered
    <3>2. state.completed + 0 = state.completed
      BY DEF Types, Counters
    <3>3. Counts(state, state', 0, 0, 0, 0, 1)
      BY <3>1, <3>2, Counting DEF Types
    <3> QED BY <1>1, <1>2, <2>1, <3>3 DEF Types
  <2> QED BY <2>2, <2>3, <2>4
<1> QED BY <1>3, <1>4, <1>5

(* What the server changes by a request.                                     *)
LEMMA ServerEffect ==
  ASSUME Types, NEW c \in Clients, ServerHandles(c)
  PROVE  LET m == Head(toServer[c])
         IN  /\ toServer[c] # << >> /\ m \in Requests /\ m = toServer[c][1]
             /\ toServer' = [toServer EXCEPT ![c] = Tail(toServer[c])] /\ toServer' \in Queues
             /\ fromServer' \in Queues
             /\ \A d \in Clients :
                  fromServer'[d] = IF d \notin broken /\ (d = c <=> workload = "direct")
                                     THEN Append(fromServer[d], m) ELSE fromServer[d]
             /\ served' = served \cup {r \in {m} : r.phase = phase}
<1> DEFINE m == Head(toServer[c])
<1>1. /\ toServer[c] # << >>
      /\ toServer' = [toServer EXCEPT ![c] = Tail(toServer[c])]
      /\ fromServer' = [d \in Clients |-> IF d \notin broken /\ (d = c <=> workload = "direct")
                                            THEN Append(fromServer[d], m) ELSE fromServer[d]]
      /\ served' = served \cup {r \in {m} : r.phase = phase}
  BY DEF ServerHandles
<1>2. m \in Requests /\ Tail(toServer[c]) \in Seq(Requests) /\ m = toServer[c][1]
  BY <1>1, HeadTailProperties DEF Types, Queues
<1>3. toServer' \in Queues
  BY <1>1, <1>2 DEF Types, Queues
<1>4. \A d \in Clients : Append(fromServer[d], m) \in Seq(Requests)
  BY <1>2, AppendProperties DEF Types, Queues
<1> HIDE DEF m
<1>5. fromServer' \in Queues
  BY <1>1, <1>4 DEF Types, Queues
<1> USE DEF m
<1> QED BY <1>1, <1>2, <1>3, <1>5

LEMMA TypesInit ==
  ASSUME Init
  PROVE  Types
<1>1. NoMessages \in Queues
  BY EmptySeq DEF NoMessages, Queues
<1>2. empty_state \in Counters
  BY DEF empty_state, Counters
<1>3. [c \in Clients |-> FALSE] \in [Clients -> BOOLEAN]
  OBVIOUS
<1>4. /\ workload \in Workloads /\ (workload = "broadcast" => Total > 1)
      /\ phase \in Nat /\ pc \in Steps /\ now \in Int
  BY DEF Init, Workloads, Steps
<1>5. /\ sendBuffer \in Queues /\ pending \in Queues /\ toServer \in Queues
      /\ fromServer \in Queues
  BY <1>1 DEF Init
<1>6. closed \in [Clients -> BOOLEAN] /\ broken \subseteq Clients /\ state \in Counters
  BY <1>2, <1>3 DEF Init
<1>7. mispaired \in BOOLEAN /\ leftover \in BOOLEAN
  BY DEF Init
<1> QED BY <1>4, <1>5, <1>6, <1>7, Zenon DEF Types

LEMMA TypesNext ==
  ASSUME Types, HeapInv, TriedInv, [Next]_vars
  PROVE  Types'
<1> USE DEF Workloads, Steps
<1>1. CASE BeginPhase
  BY <1>1, ConstantTypes DEF BeginPhase, Types, empty_state, Counters, clientVars, netVars
<1>2. CASE StartOffering
  BY <1>2 DEF StartOffering, Types, clientVars, netVars, history
<1>3. CASE TakeDue
  BY <1>3 DEF TakeDue, Types, clientVars, netVars, history
<1>4. CASE NothingDue
  BY <1>4 DEF NothingDue, Types, clientVars, netVars, history
<1>5. CASE Served
  BY <1>5 DEF Served, Types, clientVars, netVars, history
<1>6. CASE CountRest
  <2>1. Cardinality(Rest) \in Nat
    BY <1>6, RestSize, FS_CardinalityType DEF CountRest
  <2>2. state' \in Counters
    BY <1>6, <2>1, Counting, ZenonT(60) DEF CountRest, Types, Counts
  <2> QED BY <1>6, <2>2 DEF CountRest, Types, clientVars, netVars, history
<1>7. CASE EndPhase
  <2>1. NoMessages \in Queues
    BY EmptySeq DEF NoMessages, Queues
  <2> QED BY <1>7, <2>1 DEF EndPhase, Types, netVars
<1>8. CASE Tick
  BY <1>8 DEF Tick, Types, clientVars, netVars, history
<1>9. ASSUME NEW e \in due, Offer(e)
      PROVE  Types'
  <2>1. CASE Missed(e)
    <3>1. state' = [state EXCEPT !.offered = state.offered + 1, !.missed = state.missed + 1]
      BY <1>9, <2>1 DEF Offer
    <3>2. state' \in Counters
      BY <3>1, Counting, ZenonT(60) DEF Types, Counts
    <3> QED BY <1>9, <2>1, <3>2 DEF Offer, Types, clientVars
  <2>2. CASE ~Missed(e)
    <3>1. Send(e) /\ closed' = closed
      BY <1>9, <2>2 DEF Offer
    <3>2. sendBuffer' \in Queues /\ toServer' \in Queues /\ pending' \in Queues
          /\ state' = [state EXCEPT !.offered = state.offered + 1, !.sent = state.sent + 1]
      BY <3>1, SendEffect
    <3>3. state' \in Counters
      BY <3>2, Counting, ZenonT(60) DEF Types, Counts
    <3> QED BY <1>9, <3>1, <3>2, <3>3 DEF Offer, Types
  <2> QED BY <2>1, <2>2
<1>10. ASSUME NEW c \in Clients, ReadLine(c)
       PROVE  Types'
  <2>1. state' \in Counters
    BY <1>10, ReadEffect DEF Counts
  <2> QED BY <1>10, <2>1, ReadEffect DEF ReadLine, Types
<1>11. ASSUME NEW c \in Clients, ReadEnds(c)
       PROVE  Types'
  BY <1>11 DEF ReadEnds, Types, workerVars, netVars, history
<1>12. ASSUME NEW c \in Clients, FlushClient(c)
       PROVE  Types'
  <2>1. sendBuffer[c] \in Seq(Requests) /\ << >> \in Seq(Requests)
    BY EmptySeq DEF Types, Queues
  <2>2. Flush(c, sendBuffer[c], << >>)
    BY <1>12 DEF FlushClient
  <2>3. sendBuffer' \in Queues /\ toServer' \in Queues /\ pending' \in Queues
    BY <2>1, <2>2, FlushEffect
  <2> QED BY <1>12, <2>3 DEF FlushClient, Types, workerVars, history
<1>13. ASSUME NEW c \in Clients, ServerHandles(c)
       PROVE  Types'
  BY <1>13, ServerEffect DEF ServerHandles, Types, workerVars, clientVars
<1>14. ASSUME NEW c \in Clients, ServerDisconnects(c)
       PROVE  Types'
  <2>1. [toServer EXCEPT ![c] = << >>] \in Queues
    BY EmptySeq DEF Types, Queues
  <2> QED BY <1>14, <2>1 DEF ServerDisconnects, Types, workerVars, clientVars, history
<1>15. CASE UNCHANGED vars
  BY <1>15 DEF Types, vars, workerVars, clientVars, netVars, history
<1> QED BY <1>1, <1>2, <1>3, <1>4, <1>5, <1>6, <1>7, <1>8, <1>9, <1>10, <1>11, <1>12, <1>13,
           <1>14, <1>15 DEF Next

-----------------------------------------------------------------------------
(* Every operation is offered once.                                          *)

LEMMA OffersInit ==
  ASSUME Init
  PROVE  HeapInv /\ TriedInv
<1>1. HeapInv
  BY DEF Init, HeapInv
<1>2. OffersAddUp
  BY TargetType DEF Init, OffersAddUp, empty_state
<1> QED BY <1>1, <1>2 DEF Init, TriedInv

(* Reading, sending and the server do not concern the heap.                  *)
LEMMA OffersFrame ==
  ASSUME Types, HeapInv, TriedInv, UNCHANGED <<pc, schedule, due, tried>>,
         NEW i \in Nat, NEW j \in Nat, Counts(state, state', 0, 0, 0, i, j)
  PROVE  HeapInv' /\ TriedInv'
<1>1. HeapInv'
  BY DEF HeapInv
<1>2. /\ state'.offered = state.offered /\ state'.sent = state.sent
      /\ state'.missed = state.missed
  BY DEF Counts, Types, Counters
<1>3. OffersAddUp'
  BY <1>2 DEF TriedInv, OffersAddUp
<1> QED BY <1>1, <1>3 DEF TriedInv

LEMMA StartOffers ==
  ASSUME Types, HeapInv, TriedInv, StartOffering
  PROVE  HeapInv' /\ TriedInv'
<1>1. /\ pc = "starting" /\ pc' = "offering" /\ schedule' = schedule_for_clients
      /\ due' = due /\ tried' = tried /\ state' = state
  BY DEF StartOffering, clientVars, history
<1>2. due = {} /\ tried = {}
  BY <1>1 DEF HeapInv, TriedInv
<1>3. ASSUME NEW e \in schedule_for_clients
      PROVE  EntryOK(e) /\ e.client = e.seq
             /\ e = [at |-> (e.client * Second) \div Rate, seq |-> e.client, client |-> e.client]
  <2>1. PICK c \in Clients : /\ c < Active /\ c < Target
                             /\ e = [at |-> (c * Second) \div Rate, seq |-> c, client |-> c]
    BY <1>3 DEF schedule_for_clients
  <2>2. c \in Nat /\ c * Second \in Nat
    BY ConstantTypes DEF Clients
  <2>3. e.at = (c * Second) \div Rate /\ e.seq = c /\ e.client = c
    BY <2>1
  <2>4. (c * Second) \div Rate \in Nat /\ Rate * ((c * Second) \div Rate) <= c * Second
    BY <2>2, ConstantTypes, Division
  <2>5. e.at * Rate <= e.seq * Second
    BY <2>2, <2>3, <2>4, ConstantTypes
  <2>6. c % Active = c
    <3>1. 0 \in Nat /\ c \in 0 .. Active - 1 /\ Active * 0 + c = c
      BY <2>1, <2>2, ConstantTypes
    <3> QED BY <3>1, ConstantTypes, Remainder
  <2>7. c \in 0 .. Active - 1 /\ c \in 0 .. Target - 1
    BY <2>1, <2>2, ConstantTypes, TargetType
  <2> QED BY <2>1, <2>3, <2>4, <2>5, <2>6, <2>7 DEF EntryOK
<1>4. HeapInv'
  <2>1. \A d, e \in schedule_for_clients : d.client = e.client => d = e
    BY <1>3
  <2> QED BY <1>1, <1>2, <1>3, <2>1 DEF HeapInv
<1>5. ASSUME NEW s \in 0 .. Target - 1
      PROVE  \E e \in schedule_for_clients : Covers(e, s)
  <2> DEFINE c == s % Active
  <2>1. s \in Nat /\ s < Target
    BY TargetType
  <2>2. c \in 0 .. Active - 1 /\ s = Active * (s \div Active) + c /\ s \div Active \in Nat
    BY <2>1, ConstantTypes, Division
  <2>3. Active * (s \div Active) \in Nat
    BY <2>2, ConstantTypes
  <2> HIDE DEF c
  <2>4. c <= s /\ c \in Clients /\ c < Active /\ c < Target
    BY <2>1, <2>2, <2>3, ConstantTypes, TargetType DEF Clients
  <2> DEFINE e == [at |-> (c * Second) \div Rate, seq |-> c, client |-> c]
  <2>5. e \in schedule_for_clients
    BY <2>4 DEF schedule_for_clients
  <2>6. e.client = c /\ e.seq = c
    OBVIOUS
  <2> QED BY <2>4, <2>5, <2>6 DEF Covers, c
<1>6. OffersAddUp'
  BY <1>1, <1>2 DEF TriedInv, OffersAddUp
<1> QED BY <1>1, <1>2, <1>4, <1>5, <1>6 DEF TriedInv

LEMMA TakeDueOffers ==
  ASSUME Types, HeapInv, TriedInv, TakeDue
  PROVE  HeapInv' /\ TriedInv'
<1> DEFINE Late(e) == [at |-> e.at, seq |-> e.seq, client |-> e.client,
                       late |-> now - e.at > MaxLag]
<1>1. /\ pc = "offering" /\ pc' = pc /\ due = {} /\ tried' = tried /\ state' = state
      /\ due' = {Late(e) : e \in due_offers} /\ schedule' = schedule \ due_offers
  BY DEF TakeDue, history
<1>2. due_offers \subseteq schedule
  BY DEF due_offers
<1>3. \A d \in due' : \E e \in schedule : /\ e \in due_offers /\ d = Late(e)
                                          /\ d.at = e.at /\ d.seq = e.seq /\ d.client = e.client
  BY <1>1, <1>2
<1>4. \A e \in due_offers : Late(e) \in due' /\ Late(e).seq = e.seq /\ Late(e).client = e.client
  BY <1>1
<1> HIDE DEF Late
<1>5. HeapInv'
  <2>1. \A e \in schedule' \cup due' : EntryOK(e)
    BY <1>1, <1>3 DEF HeapInv, EntryOK
  <2>2. \A d, e \in due' : d.client = e.client => d = e
    BY <1>3 DEF HeapInv
  <2>3. \A d \in schedule' : \A e \in due' : d.client # e.client
    BY <1>1, <1>3 DEF HeapInv
  <2> QED BY <1>1, <2>1, <2>2, <2>3 DEF HeapInv
<1>6. \A s \in 0 .. Target - 1 :
        (\E e \in schedule' \cup due' : Covers(e, s)) <=> (\E e \in schedule \cup due : Covers(e, s))
  <2> TAKE s \in 0 .. Target - 1
  <2>1. ASSUME NEW e \in schedule, Covers(e, s)
        PROVE  \E d \in schedule' \cup due' : Covers(d, s)
    BY <1>1, <1>4, <2>1 DEF Covers
  <2>2. ASSUME NEW d \in schedule' \cup due', Covers(d, s)
        PROVE  \E e \in schedule : Covers(e, s)
    BY <1>1, <1>3, <2>2 DEF Covers
  <2> QED BY <1>1, <2>1, <2>2
<1>7. OffersAddUp'
  BY <1>1 DEF TriedInv, OffersAddUp
<1> QED BY <1>1, <1>5, <1>6, <1>7 DEF TriedInv

(* An offer takes its number from what the heap stands for, and the next     *)
(* entry of its client stands for the rest.                                  *)
LEMMA OfferOffers ==
  ASSUME Types, HeapInv, TriedInv, NEW e \in due, Offer(e)
  PROVE  HeapInv' /\ TriedInv'
<1>1. /\ pc = "offering" /\ due' = due \ {e} /\ tried' = tried \cup {e.seq}
      /\ pc' = (IF due' = {} THEN "serving" ELSE pc)
      /\ schedule' = schedule \cup NextOffer(e)
  BY DEF Offer
<1>2. EntryOK(e) /\ e.seq \in Nat /\ e.seq \in 0 .. Target - 1
  BY TargetType DEF HeapInv, EntryOK
<1>3. \A n \in NextOffer(e) : EntryOK(n) /\ n.client = e.client /\ n.seq = e.seq + Active
  BY <1>2, NextOfferOK
<1>4. \A n, m \in NextOffer(e) : n = m
  BY <1>2, NextOfferOK
<1>5. HeapInv'
  <2>1. \A d \in schedule' \cup due' : EntryOK(d)
    BY <1>1, <1>3 DEF HeapInv
  <2>2. \A d, f \in schedule' : d.client = f.client => d = f
    <3> SUFFICES ASSUME NEW d \in schedule', NEW f \in schedule', d.client = f.client
                 PROVE  d = f
      OBVIOUS
    <3>1. CASE d \in schedule /\ f \in schedule
      BY <3>1 DEF HeapInv
    <3>2. CASE d \in NextOffer(e) /\ f \in NextOffer(e)
      BY <3>2, <1>4
    <3>3. CASE d \in schedule /\ f \in NextOffer(e)
      BY <3>3, <1>3 DEF HeapInv
    <3>4. CASE d \in NextOffer(e) /\ f \in schedule
      BY <3>4, <1>3 DEF HeapInv
    <3> QED BY <1>1, <3>1, <3>2, <3>3, <3>4
  <2>3. \A d, f \in due' : d.client = f.client => d = f
    BY <1>1 DEF HeapInv
  <2>4. \A d \in schedule' : \A f \in due' : d.client # f.client
    <3> SUFFICES ASSUME NEW d \in schedule', NEW f \in due \ {e}
                 PROVE  d.client # f.client
      BY <1>1
    <3>1. CASE d \in schedule
      BY <3>1 DEF HeapInv
    <3>2. CASE d \in NextOffer(e)
      BY <3>2, <1>3 DEF HeapInv
    <3> QED BY <1>1, <3>1, <3>2
  <2>5. (due' # {} => pc' = "offering") /\ pc' \notin {"blocked", "starting"}
    BY <1>1
  <2> QED BY <2>1, <2>2, <2>3, <2>4, <2>5 DEF HeapInv
<1>6. ASSUME NEW s \in 0 .. Target - 1
      PROVE  s \in tried' <=> \A d \in schedule' \cup due' : ~Covers(d, s)
  <2>1. s \in tried <=> \A d \in schedule \cup due : ~Covers(d, s)
    BY <1>1 DEF TriedInv
  <2>2. s \in Nat /\ s < Target
    BY TargetType
  <2>3. e.seq % Active = e.client
    BY <1>2 DEF EntryOK
  <2>4. ASSUME NEW n \in NextOffer(e), Covers(n, s)
        PROVE  Covers(e, s) /\ s # e.seq
    BY <1>2, <1>3, <2>2, <2>4, ConstantTypes DEF Covers
  <2>5. ASSUME Covers(e, s), s # e.seq
        PROVE  \E n \in NextOffer(e) : Covers(n, s)
    <3>1. e.seq + Active <= s
      <4>1. e.seq \in Nat /\ Active \in Nat /\ Active > 0
        BY <1>2, ConstantTypes
      <4>2. e.seq % Active = s % Active /\ e.seq < s
        BY <2>2, <2>3, <2>5, <4>1 DEF Covers
      <4> QED BY <2>2, <4>1, <4>2, SameClass
    <3>2. e.seq + Active < Target
      BY <1>2, <2>2, <3>1, ConstantTypes, TargetType
    <3> DEFINE n == [at |-> e.at + Period, seq |-> e.seq + Active, client |-> e.client]
    <3>3. n \in NextOffer(e)
      BY <3>2 DEF NextOffer
    <3>4. n.seq = e.seq + Active /\ n.client = e.client
      OBVIOUS
    <3> QED BY <2>5, <3>1, <3>3, <3>4 DEF Covers
  <2>6. \A d \in (schedule \cup due) \ {e} : ~Covers(d, e.seq)
    BY <2>3 DEF HeapInv, Covers
  <2>7. \A n \in NextOffer(e) : ~Covers(n, e.seq)
    BY <1>2, <1>3, ConstantTypes DEF Covers
  <2>8. CASE s = e.seq
    <3>1. e \notin schedule
      BY DEF HeapInv
    <3> QED BY <1>1, <2>6, <2>7, <2>8, <3>1
  <2>9. CASE s # e.seq
    <3>1. s \in tried' <=> s \in tried
      BY <1>1, <2>9
    <3>2. ASSUME NEW d \in schedule' \cup due', Covers(d, s)
          PROVE  \E f \in schedule \cup due : Covers(f, s)
      <4>1. CASE d \in NextOffer(e)
        BY <2>4, <3>2, <4>1
      <4>2. CASE d \notin NextOffer(e)
        BY <1>1, <3>2, <4>2
      <4> QED BY <4>1, <4>2
    <3>3. ASSUME NEW f \in schedule \cup due, Covers(f, s)
          PROVE  \E d \in schedule' \cup due' : Covers(d, s)
      <4>1. CASE f = e
        BY <1>1, <2>5, <2>9, <3>3, <4>1
      <4>2. CASE f # e
        BY <1>1, <3>3, <4>2
      <4> QED BY <4>1, <4>2
    <3> QED BY <2>1, <3>1, <3>2, <3>3
  <2> QED BY <2>8, <2>9
<1>7. e.seq \notin tried
  BY <1>1, <1>2 DEF TriedInv, Covers, EntryOK
<1>8. /\ state'.offered = state.offered + 1
      /\ state'.offered = state'.sent + state'.missed
  <2>1. CASE Missed(e)
    <3>1. state' = [state EXCEPT !.offered = state.offered + 1, !.missed = state.missed + 1]
      BY <2>1 DEF Offer
    <3>2. Counts(state, state', 1, 0, 1, 0, 0)
      BY <3>1, Counting DEF Types
    <3> QED BY <3>2 DEF Counts, Types, Counters, TriedInv, OffersAddUp
  <2>2. CASE ~Missed(e)
    <3>1. state' = [state EXCEPT !.offered = state.offered + 1, !.sent = state.sent + 1]
      BY <2>2 DEF Offer, Send
    <3>2. Counts(state, state', 1, 1, 0, 0, 0)
      BY <3>1, Counting DEF Types
    <3> QED BY <3>2 DEF Counts, Types, Counters, TriedInv, OffersAddUp
  <2> QED BY <2>1, <2>2
<1>9. OffersAddUp'
  <2>1. Cardinality(tried') = Cardinality(tried) + 1
    BY <1>1, <1>7, TriedSize, FS_AddElement
  <2> QED BY <1>1, <1>2, <1>8, <2>1 DEF TriedInv, OffersAddUp
<1> QED BY <1>1, <1>2, <1>5, <1>6, <1>9 DEF TriedInv

LEMMA CountRestOffers ==
  ASSUME Types, HeapInv, TriedInv, CountRest
  PROVE  HeapInv' /\ TriedInv'
<1> DEFINE rest == Cardinality(Rest)
<1>1. /\ pc = "offering" /\ due = {} /\ pc' = "draining"
      /\ UNCHANGED <<schedule, due, tried>>
      /\ state' = [state EXCEPT !.offered = state.offered + rest, !.missed = state.missed + rest]
  BY DEF CountRest, history
<1>2. rest \in Nat /\ rest = Target - Cardinality(tried)
  BY <1>1, RestSize, FS_CardinalityType
<1>3. HeapInv'
  BY <1>1 DEF HeapInv
<1> HIDE DEF rest
<1>4. Counts(state, state', rest, 0, rest, 0, 0)
  BY <1>1, <1>2, Counting DEF Types
<1>5. OffersAddUp'
  BY <1>1, <1>2, <1>4, TriedSize, TargetType
     DEF Counts, Types, Counters, TriedInv, OffersAddUp
<1> QED BY <1>1, <1>3, <1>5 DEF TriedInv

LEMMA OffersNext ==
  ASSUME Types, HeapInv, TriedInv, [Next]_vars
  PROVE  HeapInv' /\ TriedInv'
<1>1. CASE BeginPhase
  <2>1. /\ pc = "blocked" /\ pc' = "starting" /\ tried' = {} /\ state' = empty_state
        /\ UNCHANGED <<schedule, due>>
    BY <1>1 DEF BeginPhase
  <2>2. HeapInv'
    BY <2>1 DEF HeapInv
  <2>3. Cardinality({}) = 0
    BY FS_EmptySet
  <2>4. OffersAddUp'
    BY <2>1, <2>3 DEF OffersAddUp, empty_state
  <2> QED BY <2>1, <2>2, <2>4 DEF TriedInv
<1>2. CASE StartOffering
  BY <1>2, StartOffers
<1>3. CASE TakeDue
  BY <1>3, TakeDueOffers
<1>4. CASE NothingDue \/ Served
  <2>1. /\ UNCHANGED <<schedule, due, tried, state>>
        /\ pc \in {"offering", "serving"} /\ pc' \in {"offering", "serving"} /\ due = {}
    BY <1>4 DEF NothingDue, Served, history, HeapInv
  <2>2. HeapInv'
    BY <2>1 DEF HeapInv
  <2>3. OffersAddUp'
    BY <2>1 DEF TriedInv, OffersAddUp
  <2> QED BY <2>1, <2>2, <2>3 DEF TriedInv
<1>5. CASE CountRest
  BY <1>5, CountRestOffers
<1>6. CASE EndPhase
  <2>1. /\ UNCHANGED <<due, tried, state>> /\ schedule' = {}
        /\ pc = "draining" /\ pc' = "blocked" /\ due = {}
    BY <1>6 DEF EndPhase, HeapInv
  <2>2. HeapInv'
    BY <2>1 DEF HeapInv
  <2>3. OffersAddUp'
    BY <2>1 DEF TriedInv, OffersAddUp
  <2> QED BY <2>1, <2>2, <2>3 DEF TriedInv
<1>7. CASE \E e \in due : Offer(e)
  BY <1>7, OfferOffers
<1>8. ASSUME NEW c \in Clients, ReadLine(c)
      PROVE  HeapInv' /\ TriedInv'
  <2>1. UNCHANGED <<pc, schedule, due, tried>>
    BY <1>8 DEF ReadLine
  <2> QED BY <1>8, <2>1, ReadEffect, OffersFrame
<1>9. CASE \/ UNCHANGED vars \/ Tick
           \/ \E c \in Clients : \/ ReadEnds(c) \/ FlushClient(c)
                                 \/ ServerHandles(c) \/ ServerDisconnects(c)
  <2>1. UNCHANGED <<pc, schedule, due, tried, state>>
    BY <1>9 DEF vars, Tick, ReadEnds, FlushClient, ServerHandles, ServerDisconnects, workerVars,
                history
  <2>2. Counts(state, state', 0, 0, 0, 0, 0)
    BY <2>1, Counting DEF Types
  <2> QED BY <2>1, <2>2, OffersFrame
<1> QED BY <1>1, <1>2, <1>3, <1>4, <1>5, <1>6, <1>7, <1>8, <1>9 DEF Next

-----------------------------------------------------------------------------
(* The queues: a request of the phase is in one place at a time until it is  *)
(* handled.                                                                  *)

LEMMA UnservedType ==
  ASSUME Types, NEW c \in Clients
  PROVE  /\ toServer[c] \in Seq(Requests) /\ sendBuffer[c] \in Seq(Requests)
         /\ Unserved(c) \in Seq(Requests)
         /\ toServer[c] = << >> => Unserved(c) = sendBuffer[c]
BY ConcatProperties, ConcatEmptySeq, SMTT(60) DEF Types, Queues, Unserved

LEMMA FreshEmpty ==
  \A c : Fresh(<< >>, c)' /\ Handled(<< >>)' /\ Own(<< >>, c)'
BY DEF Fresh, Handled, Own, Distinct

(* What the server does with others, and new offers, do not matter.          *)
LEMMA FreshFrame ==
  ASSUME NEW q, NEW c, Fresh(q, c), phase' = phase, tried \subseteq tried',
         \A r \in served' \ served : r.client # c
  PROVE  Fresh(q, c)'
BY DEF Fresh, Distinct

LEMMA HandledFrame ==
  ASSUME NEW q, Handled(q), phase' = phase, served \subseteq served'
  PROVE  Handled(q)'
BY DEF Handled, Distinct

LEMMA FreshAppend ==
  ASSUME NEW q \in Seq(Requests), NEW c, Fresh(q, c),
         NEW r \in Requests, r.client = c, r.phase = phase, r.seq \notin tried,
         \A x \in served : x.seq \in tried,
         phase' = phase, served' = served, tried' = tried \cup {r.seq}
  PROVE  Fresh(Append(q, r), c)'
<1>1. /\ Len(q) \in Nat /\ Len(Append(q, r)) = Len(q) + 1
      /\ \A i \in 1 .. Len(q) : Append(q, r)[i] = q[i]
      /\ Append(q, r)[Len(q) + 1] = r
  BY AppendProperties, LenProperties
<1>2. r.phase \in Int /\ r.phase <= r.phase
  BY DEF Requests
<1>3. \A i \in 1 .. Len(q) : q[i] # r
  BY DEF Fresh
<1> DEFINE a == Append(q, r)
<1> HIDE DEF a
<1>4. ASSUME NEW i \in 1 .. Len(q) + 1
      PROVE  /\ a[i].client = c /\ a[i].phase <= phase
             /\ a[i].phase = phase => a[i].seq \in tried' /\ a[i] \notin served
  BY <1>1, <1>2 DEF Fresh, a
<1>5. ASSUME NEW i \in 1 .. Len(q) + 1, NEW k \in 1 .. Len(q) + 1, a[i] = a[k],
             a[i].phase = phase
      PROVE  i = k
  <2>1. CASE i \in 1 .. Len(q) /\ k \in 1 .. Len(q)
    BY <1>1, <1>5, <2>1 DEF Fresh, Distinct, a
  <2>2. CASE i = Len(q) + 1 \/ k = Len(q) + 1
    BY <1>1, <1>3, <1>5, <2>2 DEF a
  <2> QED BY <1>1, <2>1, <2>2
<1> QED BY <1>1, <1>4, <1>5 DEF Fresh, Distinct, a

(* The server takes the oldest.                                              *)
LEMMA FreshTail ==
  ASSUME NEW q \in Seq(Requests), q # << >>, NEW c, Fresh(q, c),
         phase' = phase, tried' = tried,
         served' = served \cup {r \in {Head(q)} : r.phase = phase}
  PROVE  Fresh(Tail(q), c)'
<1>1. /\ Len(q) \in Nat /\ Len(q) >= 1 /\ Head(q) = q[1] /\ Len(Tail(q)) = Len(q) - 1
      /\ \A i \in 1 .. Len(q) - 1 : Tail(q)[i] = q[i + 1]
  BY HeadTailProperties, EmptySeq
<1> DEFINE t == Tail(q)
<1> HIDE DEF t
<1>2. \A i \in 1 .. Len(q) - 1 : /\ i + 1 \in 1 .. Len(q) /\ t[i] = q[i + 1]
                                 /\ q[i + 1].phase = phase => q[i + 1] # q[1]
  BY <1>1 DEF Fresh, Distinct, t
<1>3. ASSUME NEW i \in 1 .. Len(q) - 1
      PROVE  /\ t[i].client = c /\ t[i].phase <= phase
             /\ t[i].phase = phase => t[i].seq \in tried /\ t[i] \notin served'
  BY <1>1, <1>2 DEF Fresh
<1>4. ASSUME NEW i \in 1 .. Len(q) - 1, NEW k \in 1 .. Len(q) - 1, t[i] = t[k],
             t[i].phase = phase
      PROVE  i = k
  <2>1. i + 1 = k + 1
    BY <1>2, <1>4 DEF Fresh, Distinct
  <2> QED BY <2>1
<1> QED BY <1>1, <1>3, <1>4 DEF Fresh, Distinct, t

(* What is left when the socket's part is lost.                              *)
LEMMA FreshSuffix ==
  ASSUME NEW q \in Seq(Requests), NEW u \in Seq(Requests), NEW c, Fresh(q \o u, c),
         UNCHANGED <<phase, tried, served>>
  PROVE  Fresh(u, c)'
<1>1. /\ Len(q) \in Nat /\ Len(u) \in Nat /\ Len(q \o u) = Len(q) + Len(u)
      /\ \A i \in 1 .. Len(q) + Len(u) :
           (q \o u)[i] = IF i <= Len(q) THEN q[i] ELSE u[i - Len(q)]
  BY ConcatProperties, LenProperties
<1>2. \A i \in 1 .. Len(u) : /\ Len(q) + i \in 1 .. Len(q) + Len(u)
                             /\ ~(Len(q) + i <= Len(q)) /\ (Len(q) + i) - Len(q) = i
  BY <1>1
<1> DEFINE w == q \o u
<1> HIDE DEF w
<1>3. \A i \in 1 .. Len(u) : Len(q) + i \in 1 .. Len(w) /\ u[i] = w[Len(q) + i]
  BY <1>1, <1>2 DEF w
<1>4. Fresh(w, c)
  BY DEF w
<1>5. ASSUME NEW i \in 1 .. Len(u), NEW k \in 1 .. Len(u), u[i] = u[k], u[i].phase = phase
      PROVE  i = k
  <2>1. Len(q) + i = Len(q) + k
    BY <1>3, <1>4, <1>5, ZenonT(60) DEF Fresh, Distinct
  <2> QED BY <1>1, <2>1
<1> QED BY <1>3, <1>4, <1>5 DEF Fresh, Distinct

LEMMA HandledAppend ==
  ASSUME NEW q \in Seq(Requests), Handled(q), NEW r \in Requests, r.phase <= phase,
         r.phase = phase => r \notin served,
         phase' = phase, served' = served \cup {x \in {r} : x.phase = phase}
  PROVE  Handled(Append(q, r))'
<1>1. /\ Len(q) \in Nat /\ Len(Append(q, r)) = Len(q) + 1
      /\ \A i \in 1 .. Len(q) : Append(q, r)[i] = q[i]
      /\ Append(q, r)[Len(q) + 1] = r
  BY AppendProperties, LenProperties
<1> DEFINE a == Append(q, r)
<1> HIDE DEF a
<1>2. \A i \in 1 .. Len(q) + 1 : /\ a[i].phase <= phase
                                 /\ a[i].phase = phase => a[i] \in served'
  BY <1>1 DEF Handled, a
<1>3. \A i \in 1 .. Len(q) : q[i].phase = phase => q[i] # r
  BY DEF Handled
<1>4. ASSUME NEW i \in 1 .. Len(q) + 1, NEW k \in 1 .. Len(q) + 1, a[i] = a[k],
             a[i].phase = phase
      PROVE  i = k
  <2>1. CASE i \in 1 .. Len(q) /\ k \in 1 .. Len(q)
    BY <1>1, <1>4, <2>1 DEF Handled, Distinct, a
  <2>2. CASE i = Len(q) + 1 \/ k = Len(q) + 1
    BY <1>1, <1>3, <1>4, <2>2 DEF a
  <2> QED BY <1>1, <2>1, <2>2
<1> QED BY <1>1, <1>2, <1>4 DEF Handled, Distinct, a

(* The client reads the oldest, which is then in the queue no more.          *)
LEMMA HandledTail ==
  ASSUME NEW q \in Seq(Requests), q # << >>, Handled(q), UNCHANGED <<phase, served>>
  PROVE  /\ Handled(Tail(q))'
         /\ Head(q) = q[1] /\ q[1] \in Requests /\ 1 \in 1 .. Len(q)
         /\ \A i \in 1 .. Len(Tail(q)) : /\ i + 1 \in 1 .. Len(q) /\ Tail(q)[i] = q[i + 1]
                                         /\ q[1].phase = phase => Tail(q)[i] # q[1]
<1>1. /\ Len(q) \in Nat /\ Len(q) >= 1 /\ Head(q) = q[1] /\ Len(Tail(q)) = Len(q) - 1
      /\ \A i \in 1 .. Len(q) - 1 : Tail(q)[i] = q[i + 1]
      /\ q[1] \in Requests
  BY HeadTailProperties, EmptySeq
<1> DEFINE t == Tail(q)
<1> HIDE DEF t
<1>2. \A i \in 1 .. Len(q) - 1 : /\ i + 1 \in 1 .. Len(q) /\ t[i] = q[i + 1]
                                 /\ q[1].phase = phase => q[i + 1] # q[1]
  BY <1>1 DEF Handled, Distinct, t
<1>3. ASSUME NEW i \in 1 .. Len(q) - 1, NEW k \in 1 .. Len(q) - 1, t[i] = t[k],
             t[i].phase = phase
      PROVE  i = k
  <2>1. i + 1 = k + 1
    BY <1>2, <1>3 DEF Handled, Distinct
  <2> QED BY <2>1
<1>4. Handled(t)'
  BY <1>1, <1>2, <1>3 DEF Handled, Distinct, t
<1> QED BY <1>1, <1>2, <1>4 DEF t

(* The head of a queue is the head of all that follows it.                   *)
LEMMA TailConcat ==
  ASSUME NEW q \in Seq(Requests), q # << >>, NEW b \in Seq(Requests)
  PROVE  /\ Tail(q) \o b = Tail(q \o b) /\ q \o b # << >>
         /\ 1 \in 1 .. Len(q \o b) /\ (q \o b)[1] = q[1]
         /\ Head(q) = q[1] /\ Head(q \o b) = q[1]
<1> DEFINE u == q \o b
<1> HIDE DEF u
<1>1. /\ Len(q) \in Nat /\ Len(q) >= 1 /\ Len(b) \in Nat /\ Tail(q) \in Seq(Requests)
      /\ Len(Tail(q)) = Len(q) - 1 /\ Head(q) = q[1]
      /\ \A i \in 1 .. Len(Tail(q)) : Tail(q)[i] = q[i + 1]
  BY HeadTailProperties, LenProperties, EmptySeq
<1>2. /\ Len(u) = Len(q) + Len(b) /\ u \in Seq(Requests)
      /\ \A i \in 1 .. Len(q) + Len(b) : u[i] = IF i <= Len(q) THEN q[i] ELSE b[i - Len(q)]
  BY ConcatProperties DEF u
<1>3. u # << >> /\ 1 \in 1 .. Len(u) /\ u[1] = q[1] /\ Head(u) = u[1]
  <2>1. Len(u) >= 1 /\ 1 \in 1 .. Len(u)
    BY <1>1, <1>2
  <2>2. u # << >>
    BY <2>1, EmptySeq
  <2> QED BY <1>1, <1>2, <2>1, <2>2
<1>4. /\ Tail(u) \in Seq(Requests) /\ Len(Tail(u)) = Len(u) - 1
      /\ \A i \in 1 .. Len(Tail(u)) : Tail(u)[i] = u[i + 1]
  BY <1>2, <1>3, HeadTailProperties
<1>5. /\ Tail(q) \o b \in Seq(Requests) /\ Len(Tail(q) \o b) = Len(Tail(q)) + Len(b)
      /\ \A i \in 1 .. Len(Tail(q)) + Len(b) :
           (Tail(q) \o b)[i] = IF i <= Len(Tail(q)) THEN Tail(q)[i] ELSE b[i - Len(Tail(q))]
  BY <1>1, ConcatProperties
<1> DEFINE t == Tail(u)  v == Tail(q) \o b  w == Tail(q)
<1> HIDE DEF t, v, w
<1>6. Len(v) = Len(t)
  BY <1>1, <1>2, <1>4, <1>5 DEF t, v, w
<1>7. ASSUME NEW i \in 1 .. Len(v)
       PROVE  v[i] = t[i]
  <2>1. i \in Nat /\ i >= 1 /\ i <= Len(q) + Len(b) - 1 /\ Len(w) = Len(q) - 1
        /\ Len(v) = Len(q) + Len(b) - 1
    BY <1>1, <1>5 DEF v, w
  <2>2. t[i] = u[i + 1] /\ i + 1 \in 1 .. Len(q) + Len(b)
    BY <1>4, <1>6, <2>1 DEF t
  <2>3. CASE i <= Len(w)
    BY <1>1, <1>2, <1>5, <2>1, <2>2, <2>3 DEF v, w
  <2>4. CASE ~(i <= Len(w))
    <3>1. i - Len(w) = (i + 1) - Len(q) /\ ~(i + 1 <= Len(q))
      BY <1>1, <2>1, <2>4
    <3>2. v[i] = b[i - Len(w)]
      BY <1>5, <2>1, <2>4 DEF v, w
    <3>3. u[i + 1] = b[(i + 1) - Len(q)]
      BY <1>2, <2>2, <3>1
    <3> QED BY <2>2, <3>1, <3>2, <3>3
  <2> QED BY <2>3, <2>4
<1>8. v = t
  BY <1>4, <1>5, <1>6, <1>7, SeqEqual DEF t, v
<1> QED BY <1>1, <1>3, <1>8 DEF t, v, u

LEMMA OwnAppend ==
  ASSUME NEW q \in Seq(Requests), NEW c, Own(q, c), phase' = phase,
         NEW r \in Requests, r.client = c, r.phase = phase
  PROVE  Own(q \o <<r>>, c)'
<1>1. <<r>> \in Seq(Requests) /\ q \o <<r>> = Append(q, r)
  BY AppendIsConcat
<1>2. /\ Len(q) \in Nat /\ Len(Append(q, r)) = Len(q) + 1
      /\ \A i \in 1 .. Len(q) : Append(q, r)[i] = q[i]
      /\ Append(q, r)[Len(q) + 1] = r
  BY AppendProperties, LenProperties
<1> QED BY <1>1, <1>2 DEF Own

LEMMA OwnTail ==
  ASSUME NEW q \in Seq(Requests), q # << >>, NEW c, Own(q, c), phase' = phase
  PROVE  Own(Tail(q), c)'
<1>1. /\ Len(q) \in Nat /\ Len(Tail(q)) = Len(q) - 1
      /\ \A i \in 1 .. Len(q) - 1 : Tail(q)[i] = q[i + 1] /\ i + 1 \in 1 .. Len(q)
  BY HeadTailProperties, LenProperties
<1> QED BY <1>1 DEF Own

LEMMA QueueInit ==
  ASSUME Init, Types
  PROVE  QueueInv
<1> SUFFICES ASSUME NEW c \in Clients
             PROVE  /\ Fresh(Unserved(c), c) /\ Handled(fromServer[c]) /\ Own(pending[c], c)
                    /\ Len(sendBuffer[c]) <= MaxQueue
  BY DEF Init, QueueInv
<1>1. toServer[c] = << >> /\ sendBuffer[c] = << >> /\ pending[c] = << >> /\ fromServer[c] = << >>
  BY DEF Init, NoMessages
<1>2. Unserved(c) = << >>
  BY <1>1, UnservedType
<1>3. Len(sendBuffer[c]) <= MaxQueue
  BY <1>1, ConstantTypes
<1> QED BY <1>1, <1>2, <1>3 DEF Fresh, Handled, Own, Distinct

(* Steps that do not concern the queues.                                     *)
LEMMA QueueFrame ==
  ASSUME QueueInv,
         UNCHANGED <<phase, sendBuffer, toServer, fromServer, pending, broken, tried, served>>,
         pc' \in {"blocked", "starting"} => pc \in {"blocked", "starting"}
  PROVE  QueueInv'
<1>1. ASSUME NEW c \in Clients
      PROVE  Fresh(Unserved(c), c)' /\ Handled(fromServer[c])' /\ Own(pending[c], c)'
  <2>1. Unserved(c)' = Unserved(c)
    BY DEF Unserved
  <2>2. \A q : (Fresh(q, c) => Fresh(q, c)') /\ (Handled(q) => Handled(q)')
               /\ (Own(q, c) => Own(q, c)')
    BY DEF Fresh, Handled, Own, Distinct
  <2> QED BY <2>1, <2>2 DEF QueueInv
<1> QED BY <1>1 DEF QueueInv

LEMMA BeginPhaseQueues ==
  ASSUME Types, QueueInv, BeginPhase
  PROVE  QueueInv'
<1>1. /\ pc = "blocked" /\ phase' = phase + 1 /\ tried' = {} /\ served' = {}
      /\ UNCHANGED <<sendBuffer, pending, toServer, fromServer, broken>>
  BY DEF BeginPhase, clientVars, netVars
<1>2. pending = NoMessages
  BY <1>1 DEF QueueInv
<1>3. ASSUME NEW c \in Clients
      PROVE  Fresh(Unserved(c), c)' /\ Handled(fromServer[c])' /\ Own(pending[c], c)'
  <2>0. PICK u, f : u = Unserved(c) /\ f = fromServer[c]
    OBVIOUS
  <2>1. u \in Seq(Requests) /\ f \in Seq(Requests) /\ Unserved(c)' = u
    BY <1>1, <2>0, UnservedType DEF Types, Queues, Unserved
  <2>2. Fresh(u, c) /\ Handled(f)
    BY <2>0 DEF QueueInv
  <2>3. pending'[c] = << >>
    BY <1>1, <1>2 DEF NoMessages
  <2>4. /\ \A i \in 1 .. Len(u) : u[i] \in Requests /\ u[i].phase <= phase
        /\ \A i \in 1 .. Len(f) : f[i] \in Requests /\ f[i].phase <= phase
    BY <2>1, <2>2, ElementOfSeq DEF Fresh, Handled
  <2>5. /\ \A i \in 1 .. Len(u) : u[i].phase <= phase' /\ u[i].phase # phase'
        /\ \A i \in 1 .. Len(f) : f[i].phase <= phase' /\ f[i].phase # phase'
    BY <1>1, <2>4 DEF Requests, Types
  <2>6. Fresh(u, c)'
    BY <2>2, <2>5 DEF Fresh, Distinct
  <2>7. Handled(f)'
    BY <2>5 DEF Handled, Distinct
  <2> QED BY <1>1, <2>0, <2>1, <2>3, <2>6, <2>7, FreshEmpty
<1> QED BY <1>1, <1>2, <1>3 DEF QueueInv

(* A new request is not among those of the phase, whose numbers were tried.  *)
LEMMA OfferQueues ==
  ASSUME Types, HeapInv, TriedInv, QueueInv, NEW e \in due, Offer(e)
  PROVE  QueueInv'
<1> DEFINE c == e.client
<1>0. PICK r : r = Request(e)
  OBVIOUS
<1>1. /\ pc = "offering" /\ pc' \in {"offering", "serving"}
      /\ tried' = tried \cup {e.seq} /\ UNCHANGED <<phase, fromServer, broken, served>>
  BY DEF Offer
<1>2. EntryOK(e) /\ c \in Clients /\ r \in Requests
  BY <1>0, OfferTypes
<1>3. e.seq \notin tried
  <2>1. e.seq \in 0 .. Target - 1 /\ Covers(e, e.seq)
    BY <1>2, TargetType DEF EntryOK, Covers
  <2> QED BY <1>1, <2>1 DEF TriedInv
<1>4. r.client = c /\ r.phase = phase /\ r.seq = e.seq
  BY <1>0 DEF Request
<1>5. \A x \in served : x \in Requests /\ x.phase = phase /\ x.seq \in tried
  BY DEF QueueInv
<1>6. \A d \in Clients : Fresh(Unserved(d), d)' \/ Unserved(d)' # Unserved(d)
  BY <1>1, FreshFrame DEF QueueInv
<1>7. \A d \in Clients : Handled(fromServer[d])'
  BY <1>1, HandledFrame DEF QueueInv
<1>8. \A q, d : Own(q, d) => Own(q, d)'
  BY <1>1 DEF Own
<1>9. CASE Missed(e)
  <2>1. UNCHANGED <<sendBuffer, pending, toServer>>
    BY <1>9 DEF Offer, clientVars
  <2>2. \A d \in Clients : Unserved(d)' = Unserved(d)
    BY <2>1 DEF Unserved
  <2> QED BY <1>1, <1>5, <1>6, <1>7, <1>8, <2>1, <2>2 DEF QueueInv
<1>10. CASE ~Missed(e)
  <2> DEFINE request == IF workload = "direct" THEN <<r>> ELSE << >>
  <2>1. /\ pending' = [pending EXCEPT ![c] = pending[c] \o request]
        /\ \A d \in Clients \ {c} : sendBuffer'[d] = sendBuffer[d] /\ toServer'[d] = toServer[d]
        /\ c \in broken => sendBuffer'[c] = << >> /\ toServer'[c] = toServer[c]
        /\ c \notin broken => Unserved(c)' = Append(Unserved(c), r)
        /\ Len(sendBuffer'[c]) <= Len(sendBuffer[c]) + 1
    <3>1. Send(e)
      BY <1>10 DEF Offer
    <3> QED BY <1>0, <3>1, SendEffect
  <2>2. Types'
    BY TypesNext DEF Next
  <2>3. Len(sendBuffer'[c]) <= MaxQueue
    <3>1. ~(Len(sendBuffer[c]) >= MaxQueue)
      BY <1>10 DEF Missed
    <3>2. Len(sendBuffer[c]) \in Nat /\ Len(sendBuffer'[c]) \in Nat
      BY <1>2, <2>2, LenProperties DEF Types, Queues
    <3> QED BY <2>1, <3>1, <3>2, ConstantTypes
  <2>4. Fresh(Unserved(c), c)'
    <3>1. CASE c \in broken
      <4>1. toServer'[c] = << >> /\ sendBuffer'[c] = << >>
        BY <1>2, <2>1, <3>1 DEF QueueInv
      <4>2. Unserved(c)' = << >>
        BY <1>2, <2>2, <4>1, EmptySeq, ConcatEmptySeq DEF Unserved, Types, Queues
      <4> QED BY <4>2, FreshEmpty
    <3>2. CASE c \notin broken
      <4>0. PICK u : u = Unserved(c)
        OBVIOUS
      <4>1. u \in Seq(Requests) /\ Fresh(u, c) /\ Unserved(c)' = Append(u, r)
        BY <1>2, <2>1, <3>2, <4>0, UnservedType DEF QueueInv
      <4> HIDE DEF c
      <4>2. Fresh(Append(u, r), c)'
        BY <1>1, <1>2, <1>3, <1>4, <1>5, <4>1, FreshAppend
      <4> QED BY <4>1, <4>2
    <3> QED BY <3>1, <3>2
  <2>5. Own(pending[c], c)'
    <3>0. PICK q : q = pending[c]
      OBVIOUS
    <3>1. q \in Seq(Requests) /\ Own(q, c)
      BY <1>2, <3>0 DEF Types, Queues, QueueInv
    <3>2. pending'[c] = q \o <<r>> \/ pending'[c] = q
      <4>1. pending'[c] = q \o request
        BY <1>2, <2>1, <3>0 DEF Types, Queues
      <4>2. q \o << >> = q
        BY <3>1, ConcatEmptySeq
      <4> QED BY <4>1, <4>2
    <3> HIDE DEF c
    <3>3. Own(q, c)' /\ Own(q \o <<r>>, c)'
      BY <1>1, <1>2, <1>4, <1>8, <3>1, OwnAppend
    <3> QED BY <3>2, <3>3
  <2>6. ASSUME NEW d \in Clients \ {c}
        PROVE  /\ Unserved(d)' = Unserved(d) /\ sendBuffer'[d] = sendBuffer[d]
               /\ toServer'[d] = toServer[d] /\ pending'[d] = pending[d]
    BY <1>2, <2>1 DEF Unserved, Types, Queues
  <2>7. c \in broken => toServer'[c] = << >>
    BY <1>2, <2>1 DEF QueueInv
  <2> HIDE DEF c, request
  <2>8. ASSUME NEW d \in Clients
        PROVE  /\ Fresh(Unserved(d), d)' /\ Own(pending[d], d)'
               /\ d \in broken => toServer'[d] = << >>
               /\ Len(sendBuffer'[d]) <= MaxQueue
    <3>1. CASE d = c
      BY <2>3, <2>4, <2>5, <2>7, <3>1
    <3>2. CASE d # c
      BY <1>6, <1>8, <2>6, <3>2 DEF QueueInv
    <3> QED BY <3>1, <3>2
  <2> QED BY <1>1, <1>5, <1>7, <2>8 DEF QueueInv
<1> QED BY <1>9, <1>10

LEMMA EndPhaseQueues ==
  ASSUME Types, QueueInv, EndPhase
  PROVE  QueueInv'
<1>1. /\ UNCHANGED <<phase, sendBuffer, toServer, fromServer, broken, tried, served>>
      /\ pending' = NoMessages
  BY DEF EndPhase, netVars
<1>2. ASSUME NEW c \in Clients
      PROVE  Fresh(Unserved(c), c)' /\ Handled(fromServer[c])' /\ Own(pending[c], c)'
  <2>1. Unserved(c)' = Unserved(c) /\ pending'[c] = << >>
    BY <1>1 DEF Unserved, NoMessages
  <2>2. \A q : (Fresh(q, c) => Fresh(q, c)') /\ (Handled(q) => Handled(q)')
    BY <1>1 DEF Fresh, Handled, Distinct
  <2> QED BY <1>1, <2>1, <2>2, FreshEmpty DEF QueueInv
<1> QED BY <1>1, <1>2 DEF QueueInv

LEMMA ReadLineQueues ==
  ASSUME Types, QueueInv, NEW c \in Clients, ReadLine(c)
  PROVE  QueueInv'
<1>1. UNCHANGED <<phase, pc, sendBuffer, toServer, broken, tried, served>>
  BY DEF ReadLine
<1>2. fromServer' = [fromServer EXCEPT ![c] = Tail(fromServer[c])] /\ fromServer[c] # << >>
  BY ReadEffect
<1>3. \/ pending' = pending
      \/ pending' = [pending EXCEPT ![c] = Tail(pending[c])] /\ pending[c] # << >>
  BY DEF ReadLine, Answered, Delivered
<1>4. ASSUME NEW d \in Clients
      PROVE  Fresh(Unserved(d), d)'
  <2>1. Unserved(d)' = Unserved(d)
    BY <1>1 DEF Unserved
  <2> QED BY <1>1, <2>1, FreshFrame DEF QueueInv
<1>5. ASSUME NEW d \in Clients
      PROVE  Handled(fromServer[d])'
  <2>0. PICK q : q = fromServer[d]
    OBVIOUS
  <2>1. q \in Seq(Requests) /\ Handled(q)
    BY <2>0 DEF Types, Queues, QueueInv
  <2>2. Handled(q)'
    BY <1>1, <2>1, HandledFrame
  <2>3. q # << >> => Handled(Tail(q))'
    BY <1>1, <2>1, HandledTail
  <2> QED BY <1>2, <2>0, <2>2, <2>3 DEF Types, Queues
<1>6. ASSUME NEW d \in Clients
      PROVE  Own(pending[d], d)'
  <2>0. PICK q : q = pending[d]
    OBVIOUS
  <2>1. q \in Seq(Requests) /\ Own(q, d)
    BY <2>0 DEF Types, Queues, QueueInv
  <2>2. Own(q, d)'
    BY <1>1, <2>1 DEF Own
  <2>3. q # << >> => Own(Tail(q), d)'
    BY <1>1, <2>1, OwnTail
  <2> QED BY <1>3, <2>0, <2>2, <2>3 DEF Types, Queues
<1>7. pc \in {"blocked", "starting"} => pending' = NoMessages
  <2> SUFFICES ASSUME pc \in {"blocked", "starting"}
               PROVE  pending' = NoMessages
    OBVIOUS
  <2>1. pending = NoMessages /\ pending[c] = << >>
    BY DEF QueueInv, NoMessages
  <2> QED BY <1>3, <2>1
<1> QED BY <1>1, <1>4, <1>5, <1>6, <1>7 DEF QueueInv

LEMMA FlushQueues ==
  ASSUME Types, QueueInv, NEW c \in Clients, FlushClient(c)
  PROVE  /\ QueueInv'
         /\ \A d \in Clients : Unserved(d)' = Unserved(d) \/ (Unserved(d)' = << >> /\ d \in broken)
         /\ UNCHANGED pending
<1>1. UNCHANGED <<phase, pc, fromServer, broken, tried, served>>
  BY DEF FlushClient, workerVars, history
<1>2. sendBuffer[c] \in Seq(Requests) /\ << >> \in Seq(Requests) /\ pending[c] \in Seq(Requests)
  BY EmptySeq DEF Types, Queues
<1>3. /\ sendBuffer' \in Queues /\ toServer' \in Queues
      /\ pending' = [pending EXCEPT ![c] = pending[c] \o << >>]
      /\ \A d \in Clients \ {c} : sendBuffer'[d] = sendBuffer[d] /\ toServer'[d] = toServer[d]
      /\ c \in broken => sendBuffer'[c] = << >> /\ toServer'[c] = toServer[c]
      /\ c \notin broken => Unserved(c)' = toServer[c] \o sendBuffer[c]
      /\ Len(sendBuffer'[c]) <= Len(sendBuffer[c])
  <2>1. Flush(c, sendBuffer[c], << >>)
    BY DEF FlushClient
  <2> QED BY <1>2, <2>1, FlushEffect
<1>4. pending' = pending
  <2>1. pending[c] \o << >> = pending[c]
    BY <1>2, ConcatEmptySeq
  <2> QED BY <1>3, <2>1 DEF Types, Queues
<1>5. ASSUME NEW d \in Clients
      PROVE  Unserved(d)' = Unserved(d) \/ (Unserved(d)' = << >> /\ d \in broken)
  <2>1. CASE d # c
    BY <1>3, <2>1 DEF Unserved
  <2>2. CASE d = c /\ c \notin broken
    BY <1>3, <2>2 DEF Unserved
  <2>3. CASE d = c /\ c \in broken
    <3>1. toServer'[c] = << >> /\ sendBuffer'[c] = << >>
      BY <1>3, <2>3 DEF QueueInv
    <3>2. Unserved(c)' = << >>
      BY <1>2, <3>1, ConcatEmptySeq DEF Unserved
    <3> QED BY <2>3, <3>2
  <2> QED BY <2>1, <2>2, <2>3
<1>6. \A d \in Clients : Fresh(Unserved(d), d)'
  BY <1>1, <1>5, FreshFrame, FreshEmpty DEF QueueInv
<1>7. \A d \in Clients : Handled(fromServer[d])' /\ Own(pending[d], d)'
  <2>1. \A q, d : Own(q, d) => Own(q, d)'
    BY <1>1 DEF Own
  <2> QED BY <1>1, <1>4, <2>1, HandledFrame DEF QueueInv
<1>8. ASSUME NEW d \in Clients
      PROVE  /\ d \in broken => toServer'[d] = << >>
             /\ Len(sendBuffer'[d]) <= MaxQueue
  <2>1. Len(sendBuffer[d]) \in Nat /\ Len(sendBuffer'[d]) \in Nat
    BY <1>3, LenProperties DEF Types, Queues
  <2> QED BY <1>3, <2>1, ConstantTypes DEF QueueInv
<1> QED BY <1>1, <1>4, <1>5, <1>6, <1>7, <1>8 DEF QueueInv

LEMMA ServerQueues ==
  ASSUME Types, QueueInv, NEW c \in Clients, ServerHandles(c)
  PROVE  LET m == Head(toServer[c])
         IN  /\ QueueInv'
             /\ c \notin broken /\ m.client = c /\ m.phase <= phase
             /\ m.phase = phase => m.seq \in tried /\ m \notin served
             /\ Unserved(c) # << >> /\ m = Head(Unserved(c)) /\ Unserved(c)' = Tail(Unserved(c))
             /\ \A d \in Clients \ {c} : Unserved(d)' = Unserved(d)
<1>0. PICK m : m = Head(toServer[c])
  OBVIOUS
<1>1. /\ toServer[c] # << >> /\ m \in Requests /\ m = toServer[c][1]
      /\ toServer' = [toServer EXCEPT ![c] = Tail(toServer[c])] /\ toServer' \in Queues
      /\ \A d \in Clients :
           fromServer'[d] = IF d \notin broken /\ (d = c <=> workload = "direct")
                              THEN Append(fromServer[d], m) ELSE fromServer[d]
      /\ served' = served \cup {r \in {m} : r.phase = phase}
  BY <1>0, ServerEffect
<1>2. UNCHANGED <<phase, pc, sendBuffer, pending, broken, tried>>
  BY DEF ServerHandles, workerVars, clientVars
<1>3. c \notin broken
  BY <1>1 DEF QueueInv
<1>4. PICK u : u = Unserved(c)
  OBVIOUS
<1>5. u \in Seq(Requests) /\ Fresh(u, c)
  BY <1>4, UnservedType DEF QueueInv
<1>6. u # << >> /\ Head(u) = m /\ Unserved(c)' = Tail(u) /\ 1 \in 1 .. Len(u) /\ u[1] = m
  <2> DEFINE q == toServer[c]  b == sendBuffer[c]
  <2>1. q \in Seq(Requests) /\ b \in Seq(Requests) /\ q # << >> /\ u = q \o b
    BY <1>1, <1>4, UnservedType DEF Unserved
  <2>2. toServer'[c] = Tail(q) /\ sendBuffer'[c] = b
    BY <1>1, <1>2 DEF Types, Queues
  <2>3. Unserved(c)' = Tail(q) \o b
    BY <2>2 DEF Unserved
  <2> HIDE DEF q, b
  <2>4. /\ Tail(q) \o b = Tail(q \o b) /\ q \o b # << >>
        /\ 1 \in 1 .. Len(q \o b) /\ (q \o b)[1] = q[1]
        /\ Head(q) = q[1] /\ Head(q \o b) = q[1]
    BY <2>1, TailConcat
  <2> QED BY <1>0, <2>1, <2>3, <2>4 DEF q
<1>7. /\ m.client = c /\ m.phase <= phase
      /\ m.phase = phase => m.seq \in tried /\ m \notin served
  BY <1>5, <1>6 DEF Fresh
<1>8. \A d \in Clients \ {c} : Unserved(d)' = Unserved(d)
  BY <1>1, <1>2 DEF Unserved, Types, Queues
<1>9. ASSUME NEW d \in Clients
      PROVE  Fresh(Unserved(d), d)'
  <2>1. CASE d = c
    <3>1. Fresh(Tail(u), c)'
      BY <1>1, <1>2, <1>5, <1>6, FreshTail
    <3> QED BY <1>6, <2>1, <3>1
  <2>2. CASE d # c
    BY <1>1, <1>2, <1>7, <1>8, <2>2, FreshFrame DEF QueueInv
  <2> QED BY <2>1, <2>2
<1>10. ASSUME NEW d \in Clients
       PROVE  Handled(fromServer[d])'
  <2>0. PICK q : q = fromServer[d]
    OBVIOUS
  <2>1. q \in Seq(Requests) /\ Handled(q)
    BY <2>0 DEF Types, Queues, QueueInv
  <2>2. Handled(q)' /\ Handled(Append(q, m))'
    BY <1>1, <1>2, <1>7, <2>1, HandledFrame, HandledAppend
  <2>3. fromServer'[d] = q \/ fromServer'[d] = Append(q, m)
    BY <1>1, <2>0
  <2> QED BY <2>2, <2>3
<1>11. ASSUME NEW d \in Clients
       PROVE  /\ Own(pending[d], d)' /\ (d \in broken' => toServer'[d] = << >>)
              /\ Len(sendBuffer'[d]) <= MaxQueue
  <2>1. \A q : Own(q, d) => Own(q, d)'
    BY <1>2 DEF Own
  <2> QED BY <1>1, <1>2, <1>3, <2>1 DEF QueueInv, Types, Queues
<1>12. \A r \in served' : r \in Requests /\ r.phase = phase /\ r.seq \in tried
  BY <1>1, <1>7 DEF QueueInv
<1>13. QueueInv'
  BY <1>2, <1>9, <1>10, <1>11, <1>12 DEF QueueInv
<1> QED BY <1>0, <1>3, <1>4, <1>6, <1>7, <1>8, <1>13

LEMMA DisconnectQueues ==
  ASSUME Types, QueueInv, NEW c \in Clients, ServerDisconnects(c)
  PROVE  QueueInv'
<1>1. /\ UNCHANGED <<phase, pc, sendBuffer, pending, fromServer, tried, served>>
      /\ broken' = broken \cup {c} /\ toServer' = [toServer EXCEPT ![c] = << >>]
  BY DEF ServerDisconnects, workerVars, clientVars, history
<1>2. ASSUME NEW d \in Clients
      PROVE  Fresh(Unserved(d), d)'
  <2>1. CASE d = c
    <3>0. PICK q, u : q = toServer[c] /\ u = sendBuffer[c]
      OBVIOUS
    <3>1. q \in Seq(Requests) /\ u \in Seq(Requests) /\ Fresh(q \o u, c)
      BY <3>0 DEF Types, Queues, QueueInv, Unserved
    <3>2. Fresh(u, c)'
      BY <1>1, <3>1, FreshSuffix
    <3>3. toServer'[c] = << >> /\ sendBuffer'[c] = u
      BY <1>1, <3>0 DEF Types, Queues
    <3>4. Unserved(c)' = u
      BY <3>1, <3>3, ConcatEmptySeq DEF Unserved
    <3> QED BY <2>1, <3>2, <3>4
  <2>2. CASE d # c
    <3>1. Unserved(d)' = Unserved(d)
      BY <1>1, <2>2 DEF Unserved, Types, Queues
    <3> QED BY <1>1, <3>1, FreshFrame DEF QueueInv
  <2> QED BY <2>1, <2>2
<1>3. ASSUME NEW d \in Clients
      PROVE  /\ Handled(fromServer[d])' /\ Own(pending[d], d)'
             /\ d \in broken' => toServer'[d] = << >>
  <2>1. \A q : (Own(q, d) => Own(q, d)')
    BY <1>1 DEF Own
  <2> QED BY <1>1, <2>1, HandledFrame DEF QueueInv, Types, Queues
<1> QED BY <1>1, <1>2, <1>3 DEF QueueInv

LEMMA QueueNext ==
  ASSUME Types, HeapInv, TriedInv, QueueInv, [Next]_vars
  PROVE  QueueInv'
<1>1. CASE BeginPhase
  BY <1>1, BeginPhaseQueues
<1>2. CASE EndPhase
  BY <1>2, EndPhaseQueues
<1>3. CASE \E e \in due : Offer(e)
  BY <1>3, OfferQueues
<1>4. CASE \E c \in Clients : ReadLine(c)
  BY <1>4, ReadLineQueues
<1>5. CASE \E c \in Clients : FlushClient(c)
  BY <1>5, FlushQueues
<1>6. CASE \E c \in Clients : ServerHandles(c)
  BY <1>6, ServerQueues
<1>7. CASE \E c \in Clients : ServerDisconnects(c)
  BY <1>7, DisconnectQueues
<1>8. CASE \/ StartOffering \/ TakeDue \/ NothingDue \/ Served \/ CountRest \/ Tick
           \/ UNCHANGED vars \/ \E c \in Clients : ReadEnds(c)
  <2>1. /\ UNCHANGED <<phase, sendBuffer, toServer, fromServer, pending, broken, tried, served>>
        /\ pc' \in {"blocked", "starting"} => pc \in {"blocked", "starting"}
    BY <1>8 DEF StartOffering, TakeDue, NothingDue, Served, CountRest, Tick, ReadEnds, vars,
                workerVars, clientVars, netVars, history
  <2> QED BY <2>1, QueueFrame
<1> QED BY <1>1, <1>2, <1>3, <1>4, <1>5, <1>6, <1>7, <1>8 DEF Next

-----------------------------------------------------------------------------
(* Responses are paired with their requests.                                 *)

LEMMA StartsConcat ==
  ASSUME NEW q \in Seq(Requests), NEW u \in Seq(Requests), NEW v \in Seq(Requests),
         Starts(q, u)
  PROVE  Starts(q, u \o v) /\ Starts(u, u \o v)
<1>1. /\ Len(q) \in Nat /\ Len(u) \in Nat /\ Len(v) \in Nat /\ Len(u \o v) = Len(u) + Len(v)
      /\ \A i \in 1 .. Len(u) + Len(v) :
           (u \o v)[i] = IF i <= Len(u) THEN u[i] ELSE v[i - Len(u)]
  BY ConcatProperties, LenProperties
<1> QED BY <1>1 DEF Starts

LEMMA StartsTail ==
  ASSUME NEW q \in Seq(Requests), NEW u \in Seq(Requests), Starts(q, u), q # << >>
  PROVE  u # << >> /\ Head(q) = Head(u) /\ Starts(Tail(q), Tail(u))
<1>1. /\ Len(q) \in Nat /\ Len(q) >= 1 /\ Head(q) = q[1] /\ Len(Tail(q)) = Len(q) - 1
      /\ \A i \in 1 .. Len(q) - 1 : Tail(q)[i] = q[i + 1] /\ i + 1 \in 1 .. Len(q)
  BY HeadTailProperties, EmptySeq
<1>2. Len(u) \in Nat /\ Len(q) <= Len(u) /\ u # << >>
  BY <1>1, EmptySeq, LenProperties DEF Starts
<1>3. /\ Head(u) = u[1] /\ Len(Tail(u)) = Len(u) - 1
      /\ \A i \in 1 .. Len(u) - 1 : Tail(u)[i] = u[i + 1]
  BY <1>2, HeadTailProperties
<1>4. Head(q) = Head(u)
  BY <1>1, <1>3 DEF Starts
<1>5. \A i \in 1 .. Len(q) - 1 : Tail(q)[i] = Tail(u)[i]
  BY <1>1, <1>2, <1>3 DEF Starts
<1> QED BY <1>1, <1>2, <1>3, <1>4, <1>5 DEF Starts

LEMMA PairInit ==
  ASSUME Init, Types
  PROVE  PairInv
<1>1. ASSUME NEW c \in Clients
      PROVE  Paired(c)
  <2>1. toServer[c] = << >> /\ sendBuffer[c] = << >> /\ pending[c] = << >>
        /\ fromServer[c] = << >> /\ << >> \in Seq(Requests)
    BY EmptySeq DEF Init, NoMessages
  <2>2. Unserved(c) = << >> /\ << >> \o << >> = << >>
    BY <2>1, UnservedType, ConcatEmptySeq
  <2> QED BY <2>1, <2>2 DEF Paired, Starts
<1> QED BY <1>1 DEF Init, PairInv, PairedIfDrained

LEMMA PairFrame ==
  ASSUME PairInv, UNCHANGED <<workload, mispaired, leftover>>,
         workload = "direct" => UNCHANGED <<sendBuffer, toServer, fromServer, pending, broken>>
  PROVE  PairInv'
<1>1. workload = "direct" => \A c \in Clients : Paired(c) => Paired(c)'
  BY DEF Paired, Unserved, Starts
<1> QED BY <1>1 DEF PairInv, PairedIfDrained

LEMMA EndPhasePairs ==
  ASSUME Types, PairInv, EndPhase
  PROVE  PairInv'
<1>1. /\ UNCHANGED <<workload, sendBuffer, toServer, fromServer, broken, mispaired>>
      /\ pending' = NoMessages
      /\ leftover' = (leftover \/ \E c \in Clients :
                                    sendBuffer[c] \o toServer[c] \o fromServer[c] # << >>)
  BY DEF EndPhase, netVars
<1>2. ASSUME ~leftover', NEW c \in Clients
      PROVE  Paired(c)'
  <2> DEFINE b == sendBuffer[c]  q == toServer[c]  f == fromServer[c]
  <2>1. b \in Seq(Requests) /\ q \in Seq(Requests) /\ f \in Seq(Requests)
        /\ << >> \in Seq(Requests)
    BY EmptySeq DEF Types, Queues
  <2>2. (b \o q) \o f = << >>
    BY <1>1, <1>2
  <2>3. b \o q \in Seq(Requests)
    BY <2>1, ConcatProperties
  <2>4. f = << >> /\ b \o q = << >>
    BY <2>1, <2>2, <2>3, ConcatEqualIffEmpty
  <2>5. b = << >> /\ q = << >>
    BY <2>1, <2>4, ConcatEqualIffEmpty
  <2>6. << >> \o << >> = << >>
    BY <2>1, ConcatEmptySeq
  <2>7. fromServer'[c] = << >> /\ Unserved(c)' = << >> /\ pending'[c] = << >>
    BY <1>1, <2>4, <2>5, <2>6 DEF Unserved, NoMessages
  <2> QED BY <2>6, <2>7 DEF Paired, Starts
<1>3. PairedIfDrained'
  BY <1>1 DEF PairInv, PairedIfDrained
<1> QED BY <1>2, <1>3 DEF PairInv

LEMMA OfferPairs ==
  ASSUME Types, HeapInv, TriedInv, PairInv, NEW e \in due, Offer(e)
  PROVE  PairInv'
<1>1. UNCHANGED <<workload, fromServer, broken, mispaired, leftover>>
  BY DEF Offer
<1>2. CASE Missed(e)
  BY <1>1, <1>2, PairFrame DEF Offer, clientVars
<1>3. CASE ~Missed(e)
  <2> DEFINE c == e.client
  <2>0. PICK r : r = Request(e)
    OBVIOUS
  <2>1. c \in Clients /\ r \in Requests /\ <<r>> \in Seq(Requests)
    BY <2>0, OfferTypes
  <2>2. /\ pending' = [pending EXCEPT ![c] = pending[c] \o (IF workload = "direct" THEN <<r>>
                                                              ELSE << >>)]
        /\ \A d \in Clients \ {c} : sendBuffer'[d] = sendBuffer[d] /\ toServer'[d] = toServer[d]
        /\ c \notin broken => Unserved(c)' = Append(Unserved(c), r)
    <3>1. Send(e)
      BY <1>3 DEF Offer
    <3> QED BY <2>0, <3>1, SendEffect
  <2>3. ASSUME workload = "direct", ~leftover, NEW d \in Clients
        PROVE  Paired(d)'
    <3>1. Paired(d)
      BY <2>3 DEF PairInv
    <3>2. CASE d # c
      <4>1. Unserved(d)' = Unserved(d) /\ pending'[d] = pending[d]
        BY <2>1, <2>2, <3>2 DEF Unserved, Types, Queues
      <4> QED BY <1>1, <3>1, <4>1 DEF Paired, Starts
    <3>3. CASE d = c
      <4>0. PICK f, u, q : f = fromServer[c] /\ u = Unserved(c) /\ q = pending[c]
        OBVIOUS
      <4>1. f \in Seq(Requests) /\ u \in Seq(Requests) /\ q \in Seq(Requests)
        BY <2>1, <4>0, UnservedType DEF Types, Queues
      <4>2. pending'[c] = q \o <<r>> /\ fromServer'[c] = f
        BY <1>1, <2>1, <2>2, <2>3, <4>0 DEF Types, Queues
      <4>3. Starts(f, q \o <<r>>)
        BY <2>1, <3>1, <3>3, <4>0, <4>1, StartsConcat DEF Paired
      <4>4. ASSUME c \notin broken
            PROVE  pending'[c] = fromServer'[c] \o Unserved(c)'
        <5>1. q = f \o u /\ Unserved(c)' = Append(u, r)
          BY <2>2, <3>1, <3>3, <4>0, <4>4 DEF Paired
        <5>2. Append(u, r) = u \o <<r>>
          BY <2>1, <4>1, AppendIsConcat
        <5>3. (f \o u) \o <<r>> = f \o (u \o <<r>>)
          BY <2>1, <4>1, Regroup, SMTT(60)
        <5> QED BY <4>2, <5>1, <5>2, <5>3
      <4>5. Starts(fromServer[c], pending[c])'
        BY <4>2, <4>3 DEF Starts
      <4> QED BY <1>1, <3>3, <4>4, <4>5 DEF Paired
    <3> QED BY <3>2, <3>3
  <2> QED BY <1>1, <2>3 DEF PairInv, PairedIfDrained
<1> QED BY <1>2, <1>3

(* What is read answers the oldest request.                                  *)
LEMMA ReadAnswers ==
  ASSUME Types, PairInv, NEW c \in Clients, ReadLine(c), workload = "direct", ~leftover
  PROVE  /\ pending[c] # << >> /\ Head(fromServer[c]) = Head(pending[c])
         /\ pending' = [pending EXCEPT ![c] = Tail(pending[c])]
         /\ mispaired' = mispaired
<1>1. fromServer[c] # << >> /\ fromServer[c] \in Seq(Requests) /\ pending[c] \in Seq(Requests)
  BY DEF ReadLine, Types, Queues
<1>2. Starts(fromServer[c], pending[c])
  BY DEF PairInv, Paired
<1>3. pending[c] # << >> /\ Head(fromServer[c]) = Head(pending[c])
  BY <1>1, <1>2, StartsTail
<1>4. /\ pending' = [pending EXCEPT ![c] = Tail(pending[c])]
      /\ mispaired' = (mispaired \/ Head(pending[c]) # Head(fromServer[c]))
  BY <1>3 DEF ReadLine, Answered
<1>5. mispaired \in BOOLEAN
  BY DEF Types
<1> QED BY <1>3, <1>4, <1>5

LEMMA ReadLinePairs ==
  ASSUME Types, PairInv, NEW c \in Clients, ReadLine(c)
  PROVE  PairInv'
<1>1. UNCHANGED <<workload, sendBuffer, toServer, broken, leftover>>
  BY DEF ReadLine
<1>2. fromServer' = [fromServer EXCEPT ![c] = Tail(fromServer[c])] /\ fromServer[c] # << >>
  BY ReadEffect
<1>3. ASSUME workload = "direct", ~leftover, NEW d \in Clients
      PROVE  Paired(d)'
  <2>1. Paired(d)
    BY <1>3 DEF PairInv
  <2>2. /\ pending[c] # << >> /\ pending' = [pending EXCEPT ![c] = Tail(pending[c])]
    BY <1>3, ReadAnswers
  <2>3. Unserved(d)' = Unserved(d)
    BY <1>1 DEF Unserved
  <2>4. CASE d # c
    BY <1>1, <1>2, <2>1, <2>2, <2>3, <2>4 DEF Paired, Starts, Types, Queues
  <2>5. CASE d = c
    <3>0. PICK f, u, q : f = fromServer[c] /\ u = Unserved(c) /\ q = pending[c]
      OBVIOUS
    <3>1. f \in Seq(Requests) /\ u \in Seq(Requests) /\ q \in Seq(Requests) /\ f # << >>
      BY <1>2, <3>0, UnservedType DEF Types, Queues
    <3>2. pending'[c] = Tail(q) /\ fromServer'[c] = Tail(f) /\ Unserved(c)' = u
      BY <1>2, <2>2, <2>3, <2>5, <3>0 DEF Types, Queues
    <3>3. Starts(Tail(f), Tail(q))
      BY <2>1, <2>5, <3>0, <3>1, StartsTail DEF Paired
    <3>4. c \notin broken => Tail(q) = Tail(f) \o u
      <4>1. c \notin broken => q = f \o u
        BY <2>1, <2>5, <3>0 DEF Paired
      <4>2. Tail(f) \o u = Tail(f \o u)
        BY <3>1, TailConcat
      <4> QED BY <4>1, <4>2
    <3>5. Starts(fromServer[c], pending[c])'
      BY <3>2, <3>3 DEF Starts
    <3> QED BY <1>1, <2>5, <3>2, <3>4, <3>5 DEF Paired
  <2> QED BY <2>4, <2>5
<1>4. PairedIfDrained'
  <2>1. CASE workload = "direct" /\ ~leftover
    BY <1>1, <2>1, ReadAnswers DEF PairInv, PairedIfDrained
  <2>2. CASE leftover
    BY <1>1, <2>2 DEF PairedIfDrained
  <2>3. CASE workload # "direct"
    <3>1. mispaired' = mispaired
      BY <2>3 DEF ReadLine, Delivered
    <3> QED BY <1>1, <3>1 DEF PairInv, PairedIfDrained
  <2> QED BY <2>1, <2>2, <2>3
<1> QED BY <1>1, <1>3, <1>4 DEF PairInv

LEMMA ServerPairs ==
  ASSUME Types, QueueInv, PairInv, NEW c \in Clients, ServerHandles(c)
  PROVE  PairInv'
<1>1. UNCHANGED <<workload, pending, broken, mispaired, leftover>>
  BY DEF ServerHandles, workerVars, clientVars
<1>2. ASSUME workload = "direct", ~leftover, NEW d \in Clients
      PROVE  Paired(d)'
  <2>0. PICK m, f, u, q : /\ m = Head(toServer[c]) /\ f = fromServer[d] /\ u = Unserved(d)
                          /\ q = pending[d]
    OBVIOUS
  <2>1. Paired(d)
    BY <1>2 DEF PairInv
  <2>2. f \in Seq(Requests) /\ u \in Seq(Requests) /\ q \in Seq(Requests)
    BY <2>0, UnservedType DEF Types, Queues
  <2>3. CASE d # c
    <3>1. fromServer'[d] = f /\ Unserved(d)' = u
      BY <1>2, <2>0, <2>3, ServerEffect, ServerQueues
    <3> QED BY <1>1, <2>0, <2>1, <3>1 DEF Paired, Starts
  <2>4. CASE d = c
    <3>1. /\ c \notin broken /\ fromServer'[c] = Append(f, m) /\ m \in Requests
          /\ Unserved(c)' = Tail(u) /\ u # << >> /\ m = Head(u)
      BY <1>2, <2>0, <2>4, ServerEffect, ServerQueues
    <3>2. q = f \o u
      BY <2>0, <2>1, <2>4, <3>1 DEF Paired
    <3>3. /\ Tail(u) \in Seq(Requests) /\ <<m>> \in Seq(Requests) /\ u = <<m>> \o Tail(u)
          /\ Append(f, m) = f \o <<m>>
      <4>1. Tail(u) \in Seq(Requests) /\ <<m>> \in Seq(Requests) /\ Append(f, m) = f \o <<m>>
        BY <2>2, <3>1, HeadTailProperties, AppendIsConcat
      <4>2. /\ Len(u) \in Nat /\ Len(u) >= 1 /\ Head(u) = u[1] /\ Len(Tail(u)) = Len(u) - 1
            /\ \A i \in 1 .. Len(u) - 1 : Tail(u)[i] = u[i + 1]
        BY <2>2, <3>1, HeadTailProperties, EmptySeq
      <4>3. u = SubSeq(u, 1, Len(u)) /\ Tail(u) = SubSeq(u, 2, Len(u))
        BY <2>2, <3>1, SubSeqFull, TailIsSubSeq
      <4>4. SubSeq(u, 1, Len(u)) = <<u[1]>> \o SubSeq(u, 1 + 1, Len(u))
        BY <2>2, <4>2, SubSeqRecursiveFirst
      <4> QED BY <3>1, <4>1, <4>2, <4>3, <4>4
    <3>4. q = (f \o <<m>>) \o Tail(u) /\ f \o <<m>> \in Seq(Requests)
      BY <2>2, <3>2, <3>3, Regroup, ConcatProperties, SMTT(60)
    <3>5. Starts(f \o <<m>>, q)
      <4>1. Starts(f \o <<m>>, f \o <<m>>)
        BY <3>4, LenProperties DEF Starts
      <4> QED BY <3>3, <3>4, <4>1, StartsConcat
    <3>6. Starts(fromServer[c], pending[c])'
      BY <1>1, <2>0, <2>4, <3>1, <3>3, <3>5 DEF Starts
    <3> QED BY <1>1, <2>0, <2>4, <3>1, <3>3, <3>4, <3>6 DEF Paired
  <2> QED BY <2>3, <2>4
<1> QED BY <1>1, <1>2 DEF PairInv, PairedIfDrained

LEMMA PairNext ==
  ASSUME Types, HeapInv, TriedInv, QueueInv, PairInv, [Next]_vars
  PROVE  PairInv'
<1>1. CASE EndPhase
  BY <1>1, EndPhasePairs
<1>2. CASE \E e \in due : Offer(e)
  BY <1>2, OfferPairs
<1>3. CASE \E c \in Clients : ReadLine(c)
  BY <1>3, ReadLinePairs
<1>4. CASE \E c \in Clients : ServerHandles(c)
  BY <1>4, ServerPairs
<1>5. ASSUME NEW c \in Clients, FlushClient(c)
      PROVE  PairInv'
  <2>1. /\ UNCHANGED <<workload, pending, fromServer, broken, mispaired, leftover>>
        /\ \A d \in Clients \ broken : Unserved(d)' = Unserved(d)
    BY <1>5, FlushQueues DEF FlushClient, workerVars, history
  <2>2. \A d \in Clients : Paired(d) => Paired(d)'
    BY <2>1 DEF Paired, Starts
  <2> QED BY <2>1, <2>2 DEF PairInv, PairedIfDrained
<1>6. ASSUME NEW c \in Clients, ServerDisconnects(c)
      PROVE  PairInv'
  <2>1. /\ UNCHANGED <<workload, pending, sendBuffer, fromServer, mispaired, leftover>>
        /\ broken' = broken \cup {c} /\ toServer' = [toServer EXCEPT ![c] = << >>]
    BY <1>6 DEF ServerDisconnects, workerVars, clientVars, history
  <2>2. \A d \in Clients : d \notin broken' => Unserved(d)' = Unserved(d)
    BY <2>1 DEF Unserved, Types, Queues
  <2>3. \A d \in Clients : Paired(d) => Paired(d)'
    BY <2>1, <2>2 DEF Paired, Starts
  <2> QED BY <2>1, <2>3 DEF PairInv, PairedIfDrained
<1>7. CASE \/ BeginPhase \/ StartOffering \/ TakeDue \/ NothingDue \/ Served \/ CountRest \/ Tick
           \/ UNCHANGED vars \/ \E c \in Clients : ReadEnds(c)
  <2>1. UNCHANGED <<workload, mispaired, leftover, sendBuffer, toServer, fromServer, pending,
                    broken>>
    BY <1>7 DEF BeginPhase, StartOffering, TakeDue, NothingDue, Served, CountRest, Tick, ReadEnds,
                vars, workerVars, clientVars, netVars, history
  <2> QED BY <2>1, PairFrame
<1> QED BY <1>1, <1>2, <1>3, <1>4, <1>5, <1>6, <1>7 DEF Next

-----------------------------------------------------------------------------
(* Counts.                                                                   *)

LEMMA SizeOfPart ==
  ASSUME NEW S, IsFiniteSet(S), NEW T, T \subseteq S
  PROVE  IsFiniteSet(T) /\ Cardinality(T) <= Cardinality(S) /\ Cardinality(T) \in Nat
         /\ Cardinality(S) \in Nat
BY FS_Subset, FS_CardinalityType

LEMMA SizeOfPartAndOne ==
  ASSUME NEW S, IsFiniteSet(S), NEW x, NEW T, T \subseteq S \cup {x}
  PROVE  IsFiniteSet(T) /\ Cardinality(T) <= Cardinality(S) + 1 /\ Cardinality(T) \in Nat
         /\ Cardinality(S) \in Nat
<1>1. IsFiniteSet(S \cup {x}) /\ Cardinality(S \cup {x}) <= Cardinality(S) + 1
      /\ Cardinality(S) \in Nat
  BY FS_AddElement, FS_CardinalityType, SMTT(60)
<1>2. IsFiniteSet(T) /\ Cardinality(T) <= Cardinality(S \cup {x}) /\ Cardinality(T) \in Nat
      /\ Cardinality(S \cup {x}) \in Nat
  BY <1>1, SizeOfPart
<1> QED BY <1>1, <1>2

LEMMA SizeWithout ==
  ASSUME NEW S, IsFiniteSet(S), NEW x \in S, NEW T, T \subseteq S \ {x}
  PROVE  IsFiniteSet(T) /\ Cardinality(T) + 1 <= Cardinality(S) /\ Cardinality(T) \in Nat
         /\ Cardinality(S) \in Nat
<1>1. IsFiniteSet(S \ {x}) /\ Cardinality(S \ {x}) = Cardinality(S) - 1
      /\ Cardinality(S) \in Nat
  BY FS_RemoveElement, FS_CardinalityType
<1>2. IsFiniteSet(T) /\ Cardinality(T) <= Cardinality(S \ {x}) /\ Cardinality(T) \in Nat
  BY <1>1, SizeOfPart
<1> QED BY <1>1, <1>2

LEMMA CountInit ==
  ASSUME Init, Types
  PROVE  CountInv
<1>1. /\ state = empty_state /\ served = {} /\ phase = 0
      /\ \A c \in Clients : /\ toServer[c] = << >> /\ sendBuffer[c] = << >>
                            /\ pending[c] = << >> /\ Len(<< >>) = 0
  BY EmptySeq DEF Init, NoMessages
<1>2. \A c \in Clients : Unserved(c) = << >>
  BY <1>1, UnservedType
<1>3. Known = {} /\ Outstanding = {} /\ Completing = {} /\ InFlight = {}
  BY <1>1, <1>2 DEF Known, In, Outstanding, Completing, InFlight
<1>4. IsFiniteSet({}) /\ Cardinality({}) = 0
  BY FS_EmptySet
<1>5. Fan \in Nat /\ Fan * 0 = 0
  BY ConstantTypes DEF Fan
<1> QED BY <1>1, <1>3, <1>4, <1>5 DEF CountInv, KnownInv, OutstandingInv, CompletingInv,
           InFlightInv, empty_state

-----------------------------------------------------------------------------
(* The server has handled no more than was sent.                             *)

LEMMA KnownFrame ==
  ASSUME Types, KnownInv, phase' = phase, state'.sent = state.sent, served' \subseteq Known,
         \A c \in Clients : \A r : In(Unserved(c)', r) => In(Unserved(c), r)
  PROVE  KnownInv'
<1>1. Known' \subseteq Known
  BY DEF Known, In
<1>2. IsFiniteSet(Known') /\ Cardinality(Known') <= Cardinality(Known)
      /\ Cardinality(Known') \in Nat /\ Cardinality(Known) \in Nat
  BY <1>1, SizeOfPart DEF KnownInv
<1>3. state.sent \in Nat
  BY DEF Types, Counters
<1> QED BY <1>2, <1>3 DEF KnownInv

LEMMA OfferKnown ==
  ASSUME Types, HeapInv, TriedInv, KnownInv, NEW e \in due, Offer(e)
  PROVE  KnownInv'
<1>1. UNCHANGED <<phase, served>>
  BY DEF Offer
<1>2. served \subseteq Known
  BY DEF Known
<1>3. CASE Missed(e)
  <2>1. state' = [state EXCEPT !.offered = state.offered + 1, !.missed = state.missed + 1]
        /\ UNCHANGED <<sendBuffer, toServer>>
    BY <1>3 DEF Offer, clientVars
  <2>2. state'.sent = state.sent
    BY <2>1 DEF Types, Counters
  <2>3. \A c \in Clients : Unserved(c)' = Unserved(c)
    BY <2>1 DEF Unserved
  <2> QED BY <1>1, <1>2, <2>2, <2>3, KnownFrame
<1>4. CASE ~Missed(e)
  <2> DEFINE c == e.client
  <2>0. PICK r : r = Request(e)
    OBVIOUS
  <2>1. Send(e)
    BY <1>4 DEF Offer
  <2>2. /\ \A d \in Clients \ {c} : sendBuffer'[d] = sendBuffer[d] /\ toServer'[d] = toServer[d]
        /\ c \in broken => sendBuffer'[c] = << >> /\ toServer'[c] = toServer[c]
        /\ c \notin broken => Unserved(c)' = Append(Unserved(c), r)
        /\ state' = [state EXCEPT !.offered = state.offered + 1, !.sent = state.sent + 1]
    BY <2>0, <2>1, SendEffect
  <2>3. c \in Clients /\ r \in Requests
    BY <2>0, OfferTypes
  <2>4. ASSUME NEW d \in Clients, NEW x, In(Unserved(d)', x)
        PROVE  In(Unserved(d), x) \/ x = r
    <3>0. PICK u : u = Unserved(d)
      OBVIOUS
    <3>1. u \in Seq(Requests)
      BY <3>0, UnservedType
    <3>2. CASE d # c
      BY <2>2, <2>4, <3>2 DEF Unserved
    <3>3. CASE d = c /\ c \notin broken
      <4>1. Unserved(d)' = Append(u, r)
        BY <2>2, <3>0, <3>3
      <4>2. /\ Len(u) \in Nat /\ Len(Append(u, r)) = Len(u) + 1
            /\ \A i \in 1 .. Len(u) : Append(u, r)[i] = u[i]
            /\ Append(u, r)[Len(u) + 1] = r
        BY <2>3, <3>1, AppendProperties, LenProperties
      <4> QED BY <2>4, <3>0, <4>1, <4>2 DEF In
    <3>4. CASE d = c /\ c \in broken
      <4>0. PICK q : q = toServer[c]
        OBVIOUS
      <4>1. q \in Seq(Requests) /\ toServer'[c] = q /\ sendBuffer'[c] = << >>
        BY <2>2, <3>4, <4>0 DEF Types, Queues
      <4>2. Unserved(c)' = q
        BY <4>1, ConcatEmptySeq DEF Unserved
      <4>3. Starts(q, q)
        BY <4>1, LenProperties DEF Starts
      <4>4. /\ sendBuffer[c] \in Seq(Requests) /\ u = q \o sendBuffer[c]
        BY <3>0, <3>4, <4>0 DEF Unserved, Types, Queues
      <4>5. Starts(q, u)
        BY <4>1, <4>3, <4>4, StartsConcat
      <4>6. Len(q) \in Nat /\ Len(u) \in Nat
        BY <3>1, <4>1, LenProperties
      <4> QED BY <2>4, <3>0, <3>4, <4>2, <4>5, <4>6 DEF Starts, In
    <3> QED BY <3>2, <3>3, <3>4
  <2>5. Known' \subseteq Known \cup {r}
    BY <1>1, <2>4 DEF Known
  <2>6. /\ IsFiniteSet(Known') /\ Cardinality(Known') <= Cardinality(Known) + 1
        /\ Cardinality(Known') \in Nat /\ Cardinality(Known) \in Nat
    BY <2>5, SizeOfPartAndOne DEF KnownInv
  <2>7. state'.sent = state.sent + 1 /\ state.sent \in Nat
    BY <2>2 DEF Types, Counters
  <2> QED BY <2>6, <2>7 DEF KnownInv
<1> QED BY <1>3, <1>4

LEMMA KnownNext ==
  ASSUME Types, HeapInv, TriedInv, QueueInv, KnownInv, [Next]_vars
  PROVE  KnownInv'
<1>0. served \subseteq Known
  BY DEF Known
<1>1. CASE BeginPhase
  <2>1. /\ phase' = phase + 1 /\ served' = {} /\ state' = empty_state
        /\ UNCHANGED <<sendBuffer, toServer>>
    BY <1>1 DEF BeginPhase, clientVars, netVars
  <2>2. ASSUME NEW r, r.phase = phase + 1, NEW c \in Clients, In(Unserved(c), r)
        PROVE  FALSE
    <3>1. r.phase <= phase
      BY <2>2 DEF In, QueueInv, Fresh
    <3> QED BY <2>2, <3>1 DEF Types
  <2>3. \A c \in Clients : Unserved(c)' = Unserved(c)
    BY <2>1 DEF Unserved
  <2>4. Known' = {}
    BY <2>1, <2>2, <2>3 DEF Known
  <2> QED BY <2>1, <2>4, FS_EmptySet DEF KnownInv, empty_state
<1>2. CASE \E e \in due : Offer(e)
  BY <1>2, OfferKnown
<1>3. ASSUME NEW c \in Clients, ReadLine(c)
      PROVE  KnownInv'
  <2>1. UNCHANGED <<phase, served, sendBuffer, toServer>>
    BY <1>3 DEF ReadLine
  <2>2. state'.sent = state.sent
    BY <1>3, ReadEffect DEF Counts, Types, Counters
  <2>3. \A d \in Clients : Unserved(d)' = Unserved(d)
    BY <2>1 DEF Unserved
  <2> QED BY <1>0, <2>1, <2>2, <2>3, KnownFrame
<1>4. ASSUME NEW c \in Clients, FlushClient(c)
      PROVE  KnownInv'
  <2>1. UNCHANGED <<phase, served, state>>
    BY <1>4 DEF FlushClient, workerVars, history
  <2>2. \A d \in Clients : \A r : In(Unserved(d)', r) => In(Unserved(d), r)
    BY <1>4, FlushQueues, EmptySeq DEF In
  <2> QED BY <1>0, <2>1, <2>2, KnownFrame
<1>5. ASSUME NEW c \in Clients, ServerHandles(c)
      PROVE  KnownInv'
  <2>0. PICK m, u : m = Head(toServer[c]) /\ u = Unserved(c)
    OBVIOUS
  <2>1. UNCHANGED <<phase, state>>
    BY <1>5 DEF ServerHandles, workerVars
  <2>2. /\ u \in Seq(Requests) /\ u # << >> /\ m = Head(u) /\ Unserved(c)' = Tail(u)
        /\ m \in Requests /\ served' = served \cup {r \in {m} : r.phase = phase}
        /\ \A d \in Clients \ {c} : Unserved(d)' = Unserved(d)
    BY <1>5, <2>0, UnservedType, ServerEffect, ServerQueues
  <2>3. /\ Len(u) \in Nat /\ Len(u) >= 1 /\ m = u[1] /\ Len(Tail(u)) = Len(u) - 1
        /\ \A i \in 1 .. Len(u) - 1 : Tail(u)[i] = u[i + 1]
    BY <2>2, HeadTailProperties, EmptySeq
  <2>4. In(u, m) /\ \A r : In(Tail(u), r) => In(u, r)
    BY <2>3 DEF In
  <2>5. served' \subseteq Known
    BY <2>0, <2>2, <2>4 DEF Known
  <2>6. \A d \in Clients : \A r : In(Unserved(d)', r) => In(Unserved(d), r)
    BY <2>0, <2>2, <2>4
  <2> QED BY <2>1, <2>5, <2>6, KnownFrame
<1>6. ASSUME NEW c \in Clients, ServerDisconnects(c)
      PROVE  KnownInv'
  <2>1. /\ UNCHANGED <<phase, state, served, sendBuffer>>
        /\ toServer' = [toServer EXCEPT ![c] = << >>]
    BY <1>6 DEF ServerDisconnects, workerVars, clientVars, history
  <2>2. ASSUME NEW d \in Clients, NEW r, In(Unserved(d)', r)
        PROVE  In(Unserved(d), r)
    <3>1. CASE d # c
      BY <2>1, <2>2, <3>1 DEF Unserved, Types, Queues
    <3>2. CASE d = c
      <4>0. PICK q, b : q = toServer[c] /\ b = sendBuffer[c]
        OBVIOUS
      <4>1. q \in Seq(Requests) /\ b \in Seq(Requests) /\ Unserved(c) = q \o b
        BY <4>0 DEF Unserved, Types, Queues
      <4>2. toServer'[c] = << >> /\ sendBuffer'[c] = b
        BY <2>1, <4>0 DEF Types, Queues
      <4>3. Unserved(c)' = b
        BY <4>1, <4>2, ConcatEmptySeq DEF Unserved
      <4>4. /\ Len(q) \in Nat /\ Len(b) \in Nat /\ Len(q \o b) = Len(q) + Len(b)
            /\ \A i \in 1 .. Len(q) + Len(b) :
                 (q \o b)[i] = IF i <= Len(q) THEN q[i] ELSE b[i - Len(q)]
        BY <4>1, ConcatProperties, LenProperties
      <4>5. PICK i \in 1 .. Len(b) : b[i] = r
        BY <2>2, <3>2, <4>3 DEF In
      <4>6. Len(q) + i \in 1 .. Len(q) + Len(b) /\ ~(Len(q) + i <= Len(q))
            /\ (Len(q) + i) - Len(q) = i
        BY <4>4
      <4>7. (q \o b)[Len(q) + i] = r
        BY <4>4, <4>5, <4>6
      <4> QED BY <3>2, <4>1, <4>4, <4>6, <4>7 DEF In
    <3> QED BY <3>1, <3>2
  <2> QED BY <1>0, <2>1, <2>2, KnownFrame
<1>7. CASE CountRest
  <2>1. /\ UNCHANGED <<phase, served, sendBuffer, toServer>>
        /\ state' = [state EXCEPT !.offered = state.offered + Cardinality(Rest),
                                  !.missed = state.missed + Cardinality(Rest)]
    BY <1>7 DEF CountRest, clientVars, netVars, history
  <2>2. state'.sent = state.sent
    BY <2>1 DEF Types, Counters
  <2>3. \A d \in Clients : Unserved(d)' = Unserved(d)
    BY <2>1 DEF Unserved
  <2> QED BY <1>0, <2>1, <2>2, <2>3, KnownFrame
<1>8. CASE \/ StartOffering \/ TakeDue \/ NothingDue \/ Served \/ EndPhase \/ Tick
           \/ UNCHANGED vars \/ \E c \in Clients : ReadEnds(c)
  <2>1. UNCHANGED <<phase, state, served, sendBuffer, toServer>>
    BY <1>8 DEF StartOffering, TakeDue, NothingDue, Served, EndPhase, Tick, ReadEnds, vars,
                workerVars, clientVars, netVars, history
  <2>2. \A d \in Clients : Unserved(d)' = Unserved(d)
    BY <2>1 DEF Unserved
  <2> QED BY <1>0, <2>1, <2>2, KnownFrame
<1> QED BY <1>1, <1>2, <1>3, <1>4, <1>5, <1>6, <1>7, <1>8 DEF Next

-----------------------------------------------------------------------------
(* A direct request is completed or waits for its answer.                    *)

LEMMA OutstandingPlaces ==
  \A p : p \in Outstanding <=>
           \E c \in Clients : \E i \in 1 .. Len(pending[c]) : p = <<c, i>>
BY DEF Outstanding

LEMMA OutstandingEmpty ==
  ASSUME pending = NoMessages
  PROVE  Outstanding = {} /\ IsFiniteSet(Outstanding) /\ Cardinality(Outstanding) = 0
<1>1. \A c \in Clients : Len(pending[c]) = 0
  BY EmptySeq DEF NoMessages
<1>2. Outstanding = {}
  BY <1>1, OutstandingPlaces
<1> QED BY <1>2, FS_EmptySet

LEMMA OutstandingFrame ==
  ASSUME OutstandingInv, UNCHANGED <<workload, pending, state>>,
         pc = "blocked" => pc' = "blocked"
  PROVE  OutstandingInv'
BY DEF OutstandingInv, Outstanding

(* One more waits.                                                           *)
LEMMA OutstandingGrows ==
  ASSUME Types, IsFiniteSet(Outstanding), NEW c \in Clients, NEW r \in Requests,
         pending' = [pending EXCEPT ![c] = pending[c] \o <<r>>]
  PROVE  /\ IsFiniteSet(Outstanding') /\ Cardinality(Outstanding) \in Nat
         /\ Cardinality(Outstanding') = Cardinality(Outstanding) + 1
<1>0. PICK n : n = Len(pending[c])
  OBVIOUS
<1>1. /\ n \in Nat /\ pending'[c] = pending[c] \o <<r>> /\ Len(pending'[c]) = n + 1
      /\ \A d \in Clients \ {c} : pending'[d] = pending[d]
  <2>1. pending[c] \in Seq(Requests) /\ <<r>> \in Seq(Requests) /\ Len(<<r>>) = 1
    BY DEF Types, Queues
  <2>2. Len(pending[c] \o <<r>>) = Len(pending[c]) + 1
    BY <2>1, ConcatProperties
  <2> QED BY <1>0, <2>1, <2>2, LenProperties DEF Types, Queues
<1>2. Outstanding' = Outstanding \cup {<<c, n + 1>>}
  <2>1. \A p \in Outstanding' : p \in Outstanding \cup {<<c, n + 1>>}
    <3> SUFFICES ASSUME NEW d \in Clients, NEW i \in 1 .. Len(pending'[d])
                 PROVE  <<d, i>> \in Outstanding \cup {<<c, n + 1>>}
      BY DEF Outstanding
    <3>1. CASE d = c
      BY <1>0, <1>1, <3>1, OutstandingPlaces
    <3>2. CASE d # c
      BY <1>1, <3>2, OutstandingPlaces
    <3> QED BY <3>1, <3>2
  <2>2. \A p \in Outstanding : p \in Outstanding'
    <3> SUFFICES ASSUME NEW d \in Clients, NEW i \in 1 .. Len(pending[d])
                 PROVE  <<d, i>> \in Outstanding'
      BY OutstandingPlaces
    <3>1. i \in 1 .. Len(pending'[d])
      BY <1>0, <1>1
    <3> QED BY <3>1 DEF Outstanding
  <2>3. <<c, n + 1>> \in Outstanding'
    <3>1. n + 1 \in 1 .. Len(pending'[c])
      BY <1>1
    <3> QED BY <3>1 DEF Outstanding
  <2> QED BY <2>1, <2>2, <2>3
<1>3. <<c, n + 1>> \notin Outstanding
  BY <1>0, <1>1, OutstandingPlaces
<1> QED BY <1>2, <1>3, FS_AddElement, FS_CardinalityType

(* The oldest is answered.                                                   *)
LEMMA OutstandingShrinks ==
  ASSUME Types, IsFiniteSet(Outstanding), NEW c \in Clients, pending[c] # << >>,
         pending' = [pending EXCEPT ![c] = Tail(pending[c])]
  PROVE  /\ IsFiniteSet(Outstanding') /\ Cardinality(Outstanding) \in Nat
         /\ Cardinality(Outstanding') + 1 = Cardinality(Outstanding)
<1>0. PICK n : n = Len(pending[c])
  OBVIOUS
<1>1. /\ n \in Nat /\ n >= 1 /\ Len(pending'[c]) = n - 1
      /\ \A d \in Clients \ {c} : pending'[d] = pending[d]
  <2>1. pending[c] \in Seq(Requests) /\ pending'[c] = Tail(pending[c])
    BY DEF Types, Queues
  <2> QED BY <1>0, <2>1, HeadTailProperties, LenProperties, EmptySeq DEF Types, Queues
<1>2. Outstanding' = Outstanding \ {<<c, n>>}
  <2>1. \A p \in Outstanding' : p \in Outstanding \ {<<c, n>>}
    <3> SUFFICES ASSUME NEW d \in Clients, NEW i \in 1 .. Len(pending'[d])
                 PROVE  <<d, i>> \in Outstanding \ {<<c, n>>}
      BY DEF Outstanding
    <3>1. CASE d = c
      BY <1>0, <1>1, <3>1, OutstandingPlaces
    <3>2. CASE d # c
      BY <1>1, <3>2, OutstandingPlaces
    <3> QED BY <3>1, <3>2
  <2>2. ASSUME NEW d \in Clients, NEW i \in 1 .. Len(pending[d]), <<d, i>> # <<c, n>>
        PROVE  <<d, i>> \in Outstanding'
    <3>1. i \in 1 .. Len(pending'[d])
      BY <1>0, <1>1, <2>2
    <3> QED BY <3>1 DEF Outstanding
  <2> QED BY <2>1, <2>2, OutstandingPlaces
<1>3. <<c, n>> \in Outstanding
  BY <1>0, <1>1, OutstandingPlaces
<1>4. Cardinality(Outstanding) \in Nat
  BY FS_CardinalityType
<1>5. /\ IsFiniteSet(Outstanding \ {<<c, n>>})
      /\ Cardinality(Outstanding \ {<<c, n>>}) = Cardinality(Outstanding) - 1
  BY <1>3, FS_RemoveElement
<1> QED BY <1>2, <1>4, <1>5

LEMMA OutstandingNext ==
  ASSUME Types, HeapInv, TriedInv, QueueInv, OutstandingInv, [Next]_vars
  PROVE  OutstandingInv'
<1>1. CASE BeginPhase
  <2>1. state' = empty_state /\ pending = NoMessages /\ pending' = NoMessages
    BY <1>1 DEF BeginPhase, QueueInv, clientVars
  <2>2. Outstanding' = Outstanding /\ IsFiniteSet(Outstanding) /\ Cardinality(Outstanding) = 0
    BY <2>1, OutstandingEmpty DEF Outstanding
  <2> QED BY <2>1, <2>2 DEF OutstandingInv, empty_state
<1>2. CASE EndPhase
  <2>1. state' = state /\ pending' = NoMessages /\ pc' = "blocked" /\ workload' = workload
    BY <1>2 DEF EndPhase
  <2>2. Outstanding' = {}
    <3>1. \A c \in Clients : Len(pending'[c]) = 0
      BY <2>1, EmptySeq DEF NoMessages
    <3> QED BY <3>1 DEF Outstanding
  <2> QED BY <2>1, <2>2, FS_EmptySet DEF OutstandingInv
<1>3. ASSUME NEW e \in due, Offer(e)
      PROVE  OutstandingInv'
  <2>1. workload' = workload /\ pc # "blocked" /\ pc' # "blocked"
    BY <1>3 DEF Offer
  <2>2. CASE Missed(e)
    <3>1. /\ pending' = pending
          /\ state' = [state EXCEPT !.offered = state.offered + 1, !.missed = state.missed + 1]
      BY <1>3, <2>2 DEF Offer, clientVars
    <3>2. /\ state'.deliveries = state.deliveries /\ state'.completed = state.completed
          /\ state'.sent = state.sent
      BY <3>1 DEF Types, Counters
    <3>3. Outstanding' = Outstanding
      BY <3>1 DEF Outstanding
    <3> QED BY <2>1, <3>2, <3>3 DEF OutstandingInv
  <2>3. CASE ~Missed(e)
    <3> DEFINE c == e.client
    <3>0. PICK r : r = Request(e)
      OBVIOUS
    <3>1. c \in Clients /\ r \in Requests
      BY <3>0, OfferTypes
    <3>2. /\ pending' = [pending EXCEPT ![c] = pending[c] \o (IF workload = "direct"
                                                                THEN <<r>> ELSE << >>)]
          /\ state' = [state EXCEPT !.offered = state.offered + 1, !.sent = state.sent + 1]
      <4>1. Send(e)
        BY <1>3, <2>3 DEF Offer
      <4> QED BY <3>0, <4>1, SendEffect
    <3>3. /\ state'.deliveries = state.deliveries /\ state'.completed = state.completed
          /\ state'.sent = state.sent + 1 /\ state.sent \in Nat /\ state.completed \in Nat
      BY <3>2 DEF Types, Counters
    <3>4. CASE workload = "direct"
      <4>1. pending' = [pending EXCEPT ![c] = pending[c] \o <<r>>]
        BY <3>2, <3>4
      <4>2. /\ IsFiniteSet(Outstanding') /\ Cardinality(Outstanding) \in Nat
            /\ Cardinality(Outstanding') = Cardinality(Outstanding) + 1
        BY <3>1, <4>1, OutstandingGrows DEF OutstandingInv
      <4> QED BY <2>1, <3>3, <3>4, <4>2 DEF OutstandingInv
    <3>5. CASE workload # "direct"
      <4>1. pending[c] \o << >> = pending[c]
        BY <3>1, ConcatEmptySeq DEF Types, Queues
      <4>2. pending' = pending
        BY <3>2, <3>5, <4>1 DEF Types, Queues
      <4> QED BY <2>1, <3>5, <4>2 DEF OutstandingInv, Outstanding
    <3> QED BY <3>4, <3>5
  <2> QED BY <2>2, <2>3
<1>4. ASSUME NEW c \in Clients, ReadLine(c)
      PROVE  OutstandingInv'
  <2>1. workload' = workload /\ pc' = pc
    BY <1>4 DEF ReadLine
  <2>2. CASE workload = "direct" /\ pending[c] # << >>
    <3>1. /\ pending' = [pending EXCEPT ![c] = Tail(pending[c])]
          /\ state' = [state EXCEPT !.deliveries = state.deliveries + 1,
                                    !.completed = state.completed + 1]
      BY <1>4, <2>2 DEF ReadLine, Answered
    <3>2. /\ state'.deliveries = state.deliveries + 1 /\ state'.completed = state.completed + 1
          /\ state'.sent = state.sent /\ state.sent \in Nat /\ state.completed \in Nat
      BY <3>1 DEF Types, Counters
    <3>3. /\ IsFiniteSet(Outstanding') /\ Cardinality(Outstanding) \in Nat
          /\ Cardinality(Outstanding') + 1 = Cardinality(Outstanding)
          /\ Cardinality(Outstanding') \in Nat
      BY <2>2, <3>1, OutstandingShrinks, FS_CardinalityType DEF OutstandingInv
    <3>4. pc # "blocked"
      BY <1>4 DEF ReadLine, Serving
    <3> QED BY <2>1, <2>2, <3>2, <3>3, <3>4 DEF OutstandingInv
  <2>3. CASE workload = "direct" /\ pending[c] = << >>
    <3>1. UNCHANGED <<pending, state>>
      BY <1>4, <2>3 DEF ReadLine, Answered
    <3> QED BY <2>1, <3>1, OutstandingFrame
  <2>4. CASE workload # "direct"
    <3>1. pending' = pending
      BY <1>4, <2>4 DEF ReadLine, Delivered
    <3> QED BY <2>1, <2>4, <3>1 DEF OutstandingInv, Outstanding
  <2> QED BY <2>2, <2>3, <2>4
<1>5. CASE CountRest
  <2>1. /\ UNCHANGED <<workload, pending>> /\ pc # "blocked"
        /\ state' = [state EXCEPT !.offered = state.offered + Cardinality(Rest),
                                  !.missed = state.missed + Cardinality(Rest)]
    BY <1>5 DEF CountRest, clientVars
  <2>2. /\ state'.deliveries = state.deliveries /\ state'.completed = state.completed
        /\ state'.sent = state.sent
    BY <2>1 DEF Types, Counters
  <2> QED BY <2>1, <2>2 DEF OutstandingInv, Outstanding
<1>6. CASE \E c \in Clients : FlushClient(c)
  <2>1. UNCHANGED <<workload, pending, state, pc>>
    BY <1>6, FlushQueues DEF FlushClient, workerVars
  <2> QED BY <2>1, OutstandingFrame
<1>7. CASE \/ StartOffering \/ TakeDue \/ NothingDue \/ Served \/ Tick \/ UNCHANGED vars
           \/ \E c \in Clients : ReadEnds(c) \/ ServerHandles(c) \/ ServerDisconnects(c)
  <2>1. UNCHANGED <<workload, pending, state>> /\ (pc = "blocked" => pc' = "blocked")
    BY <1>7 DEF StartOffering, TakeDue, NothingDue, Served, Tick, ReadEnds, ServerHandles,
                ServerDisconnects, vars, workerVars, clientVars
  <2> QED BY <2>1, OutstandingFrame
<1> QED BY <1>1, <1>2, <1>3, <1>4, <1>5, <1>6, <1>7 DEF Next

-----------------------------------------------------------------------------
(* What is received was handled, and is counted once.                        *)

LEMMA NextClient == \A r \in Requests : (r.client + 1) % Total \in Clients
<1> TAKE r \in Requests
<1>1. r.client + 1 \in Nat
  BY ConstantTypes DEF Requests, Clients
<1>2. (r.client + 1) % Total \in 0 .. Total - 1
  BY <1>1, ConstantTypes, Division
<1> QED BY <1>2 DEF Clients

LEMMA ReceivedSizes ==
  ASSUME KnownInv
  PROVE  /\ IsFiniteSet(served) /\ Cardinality(served) \in Nat
         /\ Cardinality(served) <= Cardinality(Known) /\ Cardinality(Known) \in Nat
         /\ IsFiniteSet(Completing) /\ IsFiniteSet(InFlight) /\ IsFiniteSet(Clients)
<1>1. /\ IsFiniteSet(served) /\ Cardinality(served) \in Nat
      /\ Cardinality(served) <= Cardinality(Known) /\ Cardinality(Known) \in Nat
  <2>1. served \subseteq Known
    BY DEF Known
  <2> QED BY <2>1, SizeOfPart DEF KnownInv
<1>2. IsFiniteSet(Clients)
  BY ConstantTypes, FS_Interval DEF Clients
<1>3. IsFiniteSet(Completing)
  <2>1. Completing \subseteq served
    BY DEF Completing
  <2> QED BY <1>1, <2>1, FS_Subset
<1>4. IsFiniteSet(InFlight)
  <2>1. IsFiniteSet(Clients \X served)
    BY <1>1, <1>2, FS_Product
  <2>2. InFlight \subseteq Clients \X served
    BY DEF InFlight
  <2> QED BY <2>1, <2>2, FS_Subset
<1> QED BY <1>1, <1>2, <1>3, <1>4

LEMMA FanType == ASSUME Types PROVE Fan \in Nat /\ Fan >= 1
BY ConstantTypes DEF Types, Fan

(* Nothing new arrives and nothing is counted.                               *)
LEMMA ReceivedFrame ==
  ASSUME Types, QueueInv, KnownInv, CompletingInv, InFlightInv,
         UNCHANGED <<workload, served>>, leftover => leftover',
         state'.completed = state.completed, state'.deliveries = state.deliveries,
         \A d \in Clients : \A r \in served : In(fromServer'[d], r) => In(fromServer[d], r)
  PROVE  CompletingInv' /\ InFlightInv'
<1>1. Completing' \subseteq Completing /\ InFlight' \subseteq InFlight
  <2>1. \A r \in served : (r.client + 1) % Total \in Clients
    BY NextClient DEF QueueInv
  <2> QED BY <2>1 DEF Completing, InFlight
<1>2. /\ Cardinality(Completing') <= Cardinality(Completing)
      /\ Cardinality(InFlight') <= Cardinality(InFlight)
      /\ Cardinality(Completing') \in Nat /\ Cardinality(Completing) \in Nat
      /\ Cardinality(InFlight') \in Nat /\ Cardinality(InFlight) \in Nat
  BY <1>1, ReceivedSizes, SizeOfPart
<1>3. /\ state.completed \in Nat /\ state.deliveries \in Nat
      /\ Cardinality(served) \in Nat
  BY ReceivedSizes DEF Types, Counters
<1>4. CompletingInv'
  BY <1>2, <1>3 DEF CompletingInv
<1>5. Fan' = Fan
  BY DEF Fan
<1>6. Fan * Cardinality(served) \in Nat
  BY <1>3, FanType
<1>7. InFlightInv'
  BY <1>2, <1>3, <1>5, <1>6 DEF InFlightInv
<1> QED BY <1>4, <1>7

(* A line is taken from the queue.                                           *)
LEMMA ReadInbox ==
  ASSUME Types, QueueInv, NEW c \in Clients, ReadLine(c)
  PROVE  LET m == Head(fromServer[c])
         IN  /\ m \in Requests /\ In(fromServer[c], m)
             /\ m.phase = phase => m \in served /\ ~In(fromServer'[c], m)
             /\ \A d \in Clients : \A r : In(fromServer'[d], r) => In(fromServer[d], r)
<1>0. PICK q : q = fromServer[c]
  OBVIOUS
<1>1. /\ fromServer' = [fromServer EXCEPT ![c] = Tail(q)] /\ q # << >> /\ q \in Seq(Requests)
      /\ fromServer'[c] = Tail(q)
  BY <1>0, ReadEffect DEF Types, Queues
<1>2. UNCHANGED <<phase, served>>
  BY DEF ReadLine
<1>3. Handled(q)
  BY <1>0 DEF QueueInv
<1>4. /\ Head(q) = q[1] /\ q[1] \in Requests /\ 1 \in 1 .. Len(q)
      /\ \A i \in 1 .. Len(Tail(q)) : /\ i + 1 \in 1 .. Len(q) /\ Tail(q)[i] = q[i + 1]
                                      /\ q[1].phase = phase => Tail(q)[i] # q[1]
  BY <1>1, <1>2, <1>3, HandledTail
<1>5. q[1].phase = phase => q[1] \in served
  BY <1>3, <1>4 DEF Handled
<1>6. \A r : In(Tail(q), r) => In(q, r)
  BY <1>4 DEF In
<1>7. q[1].phase = phase => ~In(Tail(q), q[1])
  BY <1>4 DEF In
<1>8. \A d \in Clients : \A r : In(fromServer'[d], r) => In(fromServer[d], r)
  <2> TAKE d \in Clients
  <2>1. CASE d = c
    BY <1>0, <1>1, <1>6, <2>1
  <2>2. CASE d # c
    BY <1>1, <2>2 DEF Types, Queues
  <2> QED BY <2>1, <2>2
<1>9. In(q, q[1])
  BY <1>4 DEF In
<1> QED BY <1>0, <1>1, <1>4, <1>5, <1>7, <1>8, <1>9

LEMMA ReadCompletes ==
  ASSUME Types, QueueInv, KnownInv, CompletingInv, NEW c \in Clients, ReadLine(c)
  PROVE  CompletingInv'
<1>0. PICK m : m = Head(fromServer[c])
  OBVIOUS
<1>1. UNCHANGED <<workload, phase, served>>
  BY DEF ReadLine
<1>2. /\ m \in Requests /\ In(fromServer[c], m)
      /\ m.phase = phase => m \in served /\ ~In(fromServer'[c], m)
      /\ \A d \in Clients : \A r : In(fromServer'[d], r) => In(fromServer[d], r)
  BY <1>0, ReadInbox
<1>3. Completing' \subseteq Completing
  <2>1. \A r \in served : (r.client + 1) % Total \in Clients
    BY NextClient DEF QueueInv
  <2> QED BY <1>1, <1>2, <2>1 DEF Completing
<1>4. state.completed \in Nat /\ Cardinality(served) \in Nat
  BY ReceivedSizes DEF Types, Counters
<1> SUFFICES ASSUME workload = "broadcast"
             PROVE  state'.completed + Cardinality(Completing') <= Cardinality(served)
  BY <1>1 DEF CompletingInv
<1>5. state.completed + Cardinality(Completing) <= Cardinality(served)
  BY DEF CompletingInv
<1>6. CASE m.phase = phase /\ c = (m.client + 1) % Total
  <2>1. state' = [state EXCEPT !.deliveries = state.deliveries + 1,
                               !.completed = state.completed + 1]
    BY <1>0, <1>6 DEF ReadLine, Delivered
  <2>2. state'.completed = state.completed + 1
    BY <2>1 DEF Types, Counters
  <2>3. m \in Completing /\ m \notin Completing'
    BY <1>1, <1>2, <1>6 DEF Completing
  <2>4. /\ Cardinality(Completing') + 1 <= Cardinality(Completing)
        /\ Cardinality(Completing') \in Nat /\ Cardinality(Completing) \in Nat
    <3>1. Completing' \subseteq Completing \ {m}
      BY <1>3, <2>3
    <3> QED BY <2>3, <3>1, ReceivedSizes, SizeWithout
  <2> QED BY <1>4, <1>5, <2>2, <2>4
<1>7. CASE ~(m.phase = phase /\ c = (m.client + 1) % Total)
  <2>1. state'.completed = state.completed
    <3>1. \/ state' = state
          \/ state' = [state EXCEPT !.deliveries = state.deliveries + 1,
                                    !.completed = state.completed]
      BY <1>0, <1>7 DEF ReadLine, Delivered
    <3> QED BY <3>1 DEF Types, Counters
  <2>2. /\ Cardinality(Completing') <= Cardinality(Completing)
        /\ Cardinality(Completing') \in Nat /\ Cardinality(Completing) \in Nat
    BY <1>3, ReceivedSizes, SizeOfPart
  <2> QED BY <1>4, <1>5, <2>1, <2>2
<1> QED BY <1>6, <1>7

(* A line that is counted is a copy that was on the way.                     *)
LEMMA ReadCounts ==
  ASSUME Types, QueueInv, PairInv, KnownInv, InFlightInv, NEW c \in Clients, ReadLine(c)
  PROVE  InFlightInv'
<1>0. PICK m : m = Head(fromServer[c])
  OBVIOUS
<1>1. UNCHANGED <<workload, phase, served, leftover>>
  BY DEF ReadLine
<1>2. /\ m \in Requests /\ In(fromServer[c], m)
      /\ m.phase = phase => m \in served /\ ~In(fromServer'[c], m)
      /\ \A d \in Clients : \A r : In(fromServer'[d], r) => In(fromServer[d], r)
  BY <1>0, ReadInbox
<1>3. InFlight' \subseteq InFlight
  BY <1>1, <1>2 DEF InFlight
<1>4. state.deliveries \in Nat /\ Cardinality(served) \in Nat /\ Fan \in Nat
  BY ReceivedSizes, FanType DEF Types, Counters
<1>5. Fan * Cardinality(served) \in Nat
  BY <1>4
<1>6. Fan' = Fan
  BY <1>1 DEF Fan
<1> SUFFICES ASSUME workload = "broadcast" \/ ~leftover
             PROVE  state'.deliveries + Cardinality(InFlight') <= Fan * Cardinality(served)
  BY <1>1, <1>6 DEF InFlightInv
<1>7. state.deliveries + Cardinality(InFlight) <= Fan * Cardinality(served)
  BY DEF InFlightInv
<1>8. state'.deliveries = state.deliveries
      \/ (m.phase = phase /\ state'.deliveries = state.deliveries + 1)
  <2>1. CASE workload = "direct"
    <3>1. pending[c] # << >> /\ m = Head(pending[c])
      BY <1>0, <2>1, ReadAnswers
    <3>2. m.phase = phase
      <4>1. pending[c] \in Seq(Requests) /\ Own(pending[c], c)
        BY DEF Types, Queues, QueueInv
      <4>2. 1 \in 1 .. Len(pending[c]) /\ m = pending[c][1]
        BY <3>1, <4>1, HeadTailProperties, EmptySeq
      <4> QED BY <4>1, <4>2 DEF Own
    <3>3. state' = [state EXCEPT !.deliveries = state.deliveries + 1,
                                 !.completed = state.completed + 1]
      BY <2>1, <3>1 DEF ReadLine, Answered
    <3> QED BY <3>2, <3>3 DEF Types, Counters
  <2>2. CASE workload # "direct"
    <3>1. \/ state' = state
          \/ /\ m.phase = phase
             /\ \E n : state' = [state EXCEPT !.deliveries = state.deliveries + 1,
                                              !.completed = n]
      BY <1>0, <2>2 DEF ReadLine, Delivered
    <3> QED BY <3>1 DEF Types, Counters
  <2> QED BY <2>1, <2>2
<1>9. CASE state'.deliveries = state.deliveries
  <2>1. /\ Cardinality(InFlight') <= Cardinality(InFlight)
        /\ Cardinality(InFlight') \in Nat /\ Cardinality(InFlight) \in Nat
    BY <1>3, ReceivedSizes, SizeOfPart
  <2> QED BY <1>4, <1>5, <1>7, <1>9, <2>1
<1>10. CASE m.phase = phase /\ state'.deliveries = state.deliveries + 1
  <2>1. <<c, m>> \in InFlight /\ <<c, m>> \notin InFlight'
    BY <1>1, <1>2, <1>10 DEF InFlight
  <2>2. InFlight' \subseteq InFlight \ {<<c, m>>}
    BY <1>3, <2>1
  <2>3. /\ Cardinality(InFlight') + 1 <= Cardinality(InFlight)
        /\ Cardinality(InFlight') \in Nat /\ Cardinality(InFlight) \in Nat
    BY <2>1, <2>2, ReceivedSizes, SizeWithout
  <2> QED BY <1>4, <1>5, <1>7, <1>10, <2>3
<1> QED BY <1>8, <1>9, <1>10

(* Who gets a copy of a request.                                             *)
Targets(c) == IF workload = "broadcast" THEN Clients \ {c} ELSE {c}

LEMMA TargetsSize ==
  ASSUME NEW c \in Clients
  PROVE  IsFiniteSet(Targets(c)) /\ Cardinality(Targets(c)) = Fan
<1>1. IsFiniteSet(Clients) /\ Cardinality(Clients) = Total
  BY ConstantTypes, FS_Interval DEF Clients
<1>2. IsFiniteSet(Clients \ {c}) /\ Cardinality(Clients \ {c}) = Total - 1
  BY <1>1, FS_RemoveElement
<1>3. IsFiniteSet({c}) /\ Cardinality({c}) = 1
  BY FS_Singleton
<1> QED BY <1>2, <1>3 DEF Targets, Fan

(* A request of the phase is handled for the first time, and its copies are  *)
(* as many as are counted for one request.                                   *)
LEMMA ServerReceived ==
  ASSUME Types, QueueInv, KnownInv, CompletingInv, InFlightInv, NEW c \in Clients,
         ServerHandles(c)
  PROVE  CompletingInv' /\ InFlightInv'
<1>0. PICK m : m = Head(toServer[c])
  OBVIOUS
<1>1. UNCHANGED <<workload, phase, state, leftover>>
  BY DEF ServerHandles, workerVars
<1>2. /\ m \in Requests
      /\ \A d \in Clients :
           fromServer'[d] = IF d \notin broken /\ (d = c <=> workload = "direct")
                              THEN Append(fromServer[d], m) ELSE fromServer[d]
      /\ served' = served \cup {r \in {m} : r.phase = phase}
      /\ m.phase = phase => m \notin served
  BY <1>0, ServerEffect, ServerQueues
<1>3. ASSUME NEW d \in Clients, NEW r, In(fromServer'[d], r)
      PROVE  In(fromServer[d], r) \/ (r = m /\ d \in Targets(c))
  <2>0. PICK q : q = fromServer[d]
    OBVIOUS
  <2>1. q \in Seq(Requests)
    BY <2>0 DEF Types, Queues
  <2>2. /\ Len(q) \in Nat /\ Len(Append(q, m)) = Len(q) + 1
        /\ \A i \in 1 .. Len(q) : Append(q, m)[i] = q[i]
        /\ Append(q, m)[Len(q) + 1] = m
    BY <1>2, <2>1, AppendProperties, LenProperties
  <2>3. In(Append(q, m), r) => In(q, r) \/ r = m
    BY <2>2 DEF In
  <2>4. CASE fromServer'[d] = q
    BY <1>3, <2>0, <2>4
  <2>5. CASE fromServer'[d] # q
    <3>1. fromServer'[d] = Append(q, m) /\ (d = c <=> workload = "direct")
      BY <1>2, <2>0, <2>5
    <3>2. d \in Targets(c)
      BY <3>1 DEF Targets, Types, Workloads
    <3> QED BY <1>3, <2>0, <2>3, <3>1, <3>2
  <2> QED BY <2>4, <2>5
<1>4. \A r \in served : (r.client + 1) % Total \in Clients /\ r.phase = phase
  BY NextClient DEF QueueInv
<1>5. CASE m.phase # phase
  <2>1. served' = served
    BY <1>2, <1>5
  <2>2. \A d \in Clients : \A r \in served : In(fromServer'[d], r) => In(fromServer[d], r)
    BY <1>3, <1>4, <1>5
  <2> QED BY <1>1, <2>1, <2>2, ReceivedFrame
<1>6. CASE m.phase = phase
  <2>1. served' = served \cup {m} /\ m \notin served
    BY <1>2, <1>6
  <2>2. /\ Cardinality(served') = Cardinality(served) + 1
        /\ Cardinality(served) \in Nat /\ IsFiniteSet(served)
    BY <2>1, ReceivedSizes, FS_AddElement
  <2>3. CompletingInv'
    <3>1. Completing' \subseteq Completing \cup {m}
      BY <1>3, <1>4, <2>1 DEF Completing
    <3>2. /\ Cardinality(Completing') <= Cardinality(Completing) + 1
          /\ Cardinality(Completing') \in Nat /\ Cardinality(Completing) \in Nat
      BY <3>1, ReceivedSizes, SizeOfPartAndOne
    <3>3. state.completed \in Nat
      BY DEF Types, Counters
    <3> QED BY <1>1, <2>2, <3>2, <3>3 DEF CompletingInv
  <2>4. \A d \in Clients : ~In(fromServer[d], m)
    BY <1>6, <2>1 DEF In, QueueInv, Handled
  <2>5. PICK t : t = Targets(c)
    OBVIOUS
  <2>6. InFlight' \subseteq InFlight \cup (t \X {m})
    <3> SUFFICES ASSUME NEW d \in Clients, NEW r \in served', In(fromServer'[d], r)
                 PROVE  <<d, r>> \in InFlight \cup (t \X {m})
      BY DEF InFlight
    <3>1. In(fromServer[d], r) \/ (r = m /\ d \in t)
      BY <1>3, <2>5
    <3>2. CASE In(fromServer[d], r)
      BY <2>1, <2>4, <3>2 DEF InFlight
    <3>3. CASE r = m /\ d \in t
      BY <3>3
    <3> QED BY <3>1, <3>2, <3>3
  <2>7. IsFiniteSet(t \X {m}) /\ Cardinality(t \X {m}) = Fan
    <3>1. IsFiniteSet(t) /\ Cardinality(t) = Fan /\ IsFiniteSet({m}) /\ Cardinality({m}) = 1
      BY <2>5, TargetsSize, FS_Singleton
    <3>2. IsFiniteSet(t \X {m}) /\ Cardinality(t \X {m}) = Cardinality(t) * Cardinality({m})
      BY <3>1, FS_Product
    <3> QED BY <3>1, <3>2, FanType
  <2>8. PICK f, u : f = InFlight /\ u = t \X {m}
    OBVIOUS
  <2>9. /\ IsFiniteSet(f \cup u) /\ Cardinality(f \cup u) <= Cardinality(f) + Fan
        /\ Cardinality(f) \in Nat
    <3>1. IsFiniteSet(f) /\ IsFiniteSet(u) /\ Cardinality(u) = Fan
      BY <2>7, <2>8, ReceivedSizes
    <3>2. /\ IsFiniteSet(f \cup u) /\ IsFiniteSet(f \cap u)
          /\ Cardinality(f \cup u) = Cardinality(f) + Cardinality(u) - Cardinality(f \cap u)
      BY <3>1, FS_Union, FS_Intersection
    <3>3. Cardinality(f) \in Nat /\ Cardinality(f \cap u) \in Nat
      BY <3>1, <3>2, FS_CardinalityType
    <3> QED BY <3>1, <3>2, <3>3, FanType
  <2>10. /\ Cardinality(InFlight') <= Cardinality(f) + Fan /\ Cardinality(InFlight') \in Nat
    <3>1. InFlight' \subseteq f \cup u
      BY <2>6, <2>8
    <3>2. /\ Cardinality(InFlight') <= Cardinality(f \cup u) /\ Cardinality(InFlight') \in Nat
          /\ Cardinality(f \cup u) \in Nat
      BY <2>9, <3>1, SizeOfPart
    <3> QED BY <2>9, <3>2, FanType
  <2>11. Fan * (Cardinality(served) + 1) = Fan * Cardinality(served) + Fan
         /\ Fan * Cardinality(served) \in Nat
    BY <2>2, FanType
  <2>12. InFlightInv'
    <3>1. state.deliveries \in Nat /\ Fan \in Nat /\ Fan' = Fan
      BY <1>1, FanType DEF Types, Counters, Fan
    <3> QED BY <1>1, <2>2, <2>8, <2>9, <2>10, <2>11, <3>1 DEF InFlightInv
  <2> QED BY <2>3, <2>12
<1> QED BY <1>5, <1>6

LEMMA ReceivedNext ==
  ASSUME Types, HeapInv, QueueInv, PairInv, KnownInv, CompletingInv, InFlightInv, [Next]_vars
  PROVE  CompletingInv' /\ InFlightInv'
<1>1. CASE BeginPhase
  <2>1. served' = {} /\ state' = empty_state
    BY <1>1 DEF BeginPhase
  <2>2. Completing' = {} /\ InFlight' = {} /\ Cardinality({}) = 0
    BY <2>1, FS_EmptySet DEF Completing, InFlight
  <2>3. workload' = workload
    BY <1>1 DEF BeginPhase
  <2>4. Fan' * 0 = 0
    BY <2>3, FanType DEF Fan
  <2> QED BY <2>1, <2>2, <2>4 DEF CompletingInv, InFlightInv, empty_state
<1>2. CASE \E c \in Clients : ReadLine(c)
  BY <1>2, ReadCompletes, ReadCounts
<1>3. CASE \E c \in Clients : ServerHandles(c)
  BY <1>3, ServerReceived
<1>4. ASSUME NEW e \in due, Offer(e)
      PROVE  CompletingInv' /\ InFlightInv'
  <2>1. UNCHANGED <<workload, served, leftover, fromServer>>
    BY <1>4 DEF Offer
  <2>2. \/ state' = [state EXCEPT !.offered = state.offered + 1, !.missed = state.missed + 1]
        \/ state' = [state EXCEPT !.offered = state.offered + 1, !.sent = state.sent + 1]
    BY <1>4 DEF Offer, Send
  <2>3. state'.completed = state.completed /\ state'.deliveries = state.deliveries
    BY <2>2 DEF Types, Counters
  <2> QED BY <2>1, <2>3, ReceivedFrame
<1>5. CASE CountRest
  <2>1. /\ UNCHANGED <<workload, served, leftover, fromServer>>
        /\ state' = [state EXCEPT !.offered = state.offered + Cardinality(Rest),
                                  !.missed = state.missed + Cardinality(Rest)]
    BY <1>5 DEF CountRest, netVars, history
  <2>2. state'.completed = state.completed /\ state'.deliveries = state.deliveries
    BY <2>1 DEF Types, Counters
  <2> QED BY <2>1, <2>2, ReceivedFrame
<1>6. CASE EndPhase
  <2>1. UNCHANGED <<workload, served, fromServer, state>> /\ (leftover => leftover')
    BY <1>6 DEF EndPhase, netVars
  <2> QED BY <2>1, ReceivedFrame
<1>7. CASE \/ StartOffering \/ TakeDue \/ NothingDue \/ Served \/ Tick \/ UNCHANGED vars
           \/ \E c \in Clients : ReadEnds(c) \/ FlushClient(c) \/ ServerDisconnects(c)
  <2>1. UNCHANGED <<workload, served, leftover, fromServer, state>>
    BY <1>7 DEF StartOffering, TakeDue, NothingDue, Served, Tick, ReadEnds, FlushClient,
                ServerDisconnects, vars, workerVars, netVars, clientVars, history
  <2> QED BY <2>1, ReceivedFrame
<1> QED BY <1>1, <1>2, <1>3, <1>4, <1>5, <1>6, <1>7 DEF Next

-----------------------------------------------------------------------------
(* The invariant holds, and what the counts say follows from it.             *)

LoadInv == Types /\ HeapInv /\ TriedInv /\ QueueInv /\ PairInv /\ CountInv

LEMMA LoadInit == Init => LoadInv
BY TypesInit, OffersInit, QueueInit, PairInit, CountInit DEF LoadInv

LEMMA LoadNext == LoadInv /\ [Next]_vars => LoadInv'
<1> SUFFICES ASSUME LoadInv, [Next]_vars
             PROVE  LoadInv'
  OBVIOUS
<1>1. /\ Types /\ HeapInv /\ TriedInv /\ QueueInv /\ PairInv
      /\ KnownInv /\ OutstandingInv /\ CompletingInv /\ InFlightInv
  BY DEF LoadInv, CountInv
<1>2. Types' /\ HeapInv' /\ TriedInv'
  BY <1>1, TypesNext, OffersNext
<1>3. QueueInv' /\ PairInv'
  BY <1>1, QueueNext, PairNext
<1>4. KnownInv' /\ OutstandingInv'
  BY <1>1, KnownNext, OutstandingNext
<1>5. CompletingInv' /\ InFlightInv'
  BY <1>1, ReceivedNext
<1> QED BY <1>2, <1>3, <1>4, <1>5 DEF LoadInv, CountInv

(* In every state of a worker the heap stands for the operations not offered *)
(* yet, no request of the phase is in two places, the answers on their way   *)
(* to a client of a direct workload are the first it waits for, and each     *)
(* request is counted no more often than it was handled (run_phase and the   *)
(* functions it calls).                                                      *)
THEOREM LoadInvariant == Spec => []LoadInv
<1>1. Init => LoadInv
  BY LoadInit
<1>2. LoadInv /\ [Next]_vars => LoadInv'
  BY LoadNext
<1> QED BY <1>1, <1>2, PTL DEF Spec

(* The buffer of a client holds its own requests and never more than         *)
(* MAX_CLIENT_SEND_QUEUE frames, what it waits for is its own, and the heap  *)
(* has one entry of a client at most (queue_client_frame, due_offers).       *)
THEOREM WorkerTypes == Spec => []TypeOK
<1>1. LoadInv => TypeOK
  <2> SUFFICES ASSUME LoadInv
               PROVE  TypeOK
    OBVIOUS
  <2>1. Types /\ HeapInv /\ QueueInv
    BY DEF LoadInv
  <2>2. ASSUME NEW c \in Clients, NEW i \in 1 .. Len(sendBuffer[c])
        PROVE  sendBuffer[c][i].client = c
    <3>0. PICK q, b : q = toServer[c] /\ b = sendBuffer[c]
      OBVIOUS
    <3>1. q \in Seq(Requests) /\ b \in Seq(Requests) /\ Unserved(c) = q \o b
      BY <2>1, <3>0, UnservedType DEF Unserved
    <3>2. /\ Len(q) \in Nat /\ Len(b) \in Nat /\ Len(q \o b) = Len(q) + Len(b)
          /\ \A k \in 1 .. Len(q) + Len(b) :
               (q \o b)[k] = IF k <= Len(q) THEN q[k] ELSE b[k - Len(q)]
      BY <3>1, ConcatProperties, LenProperties
    <3>3. /\ Len(q) + i \in 1 .. Len(q) + Len(b) /\ ~(Len(q) + i <= Len(q))
          /\ (Len(q) + i) - Len(q) = i
      <4>1. PICK k, n : k = Len(q) /\ n = Len(b)
        OBVIOUS
      <4>2. k \in Nat /\ i \in 1 .. n
        BY <3>0, <3>2, <4>1
      <4>3. k + i \in 1 .. k + n /\ ~(k + i <= k) /\ (k + i) - k = i
        BY <3>2, <4>1, <4>2
      <4> QED BY <4>1, <4>3
    <3>4. (q \o b)[Len(q) + i] = b[i]
      BY <3>2, <3>3
    <3>5. \A k \in 1 .. Len(q \o b) : (q \o b)[k].client = c
      BY <2>1, <3>1 DEF QueueInv, Fresh
    <3> QED BY <3>0, <3>2, <3>3, <3>4, <3>5, ZenonT(60)
  <2>3. \A c \in Clients : /\ Len(sendBuffer[c]) <= MaxQueue
                           /\ \A i \in 1 .. Len(pending[c]) : pending[c][i].client = c
    BY <2>1 DEF QueueInv, Own
  <2>4. \A d, e \in schedule \cup due : d.client = e.client => d.seq = e.seq
    BY <2>1 DEF HeapInv
  <2> QED BY <2>1, <2>2, <2>3, <2>4 DEF TypeOK, Types, Steps
<1> QED BY <1>1, LoadInvariant, PTL

(* Every operation of a phase is offered once and is sent or missed, and     *)
(* after the deadline all of them have been, for any rate, number of         *)
(* connections and lateness (enqueue_due_offers, and the rest of the         *)
(* schedule in run_phase).                                                   *)
THEOREM OffersAreComplete == Spec => []OffersAddUp
<1>1. LoadInv => OffersAddUp
  BY DEF LoadInv, TriedInv
<1> QED BY <1>1, LoadInvariant, PTL

(* A latency is taken between a request and its own answer, unless a phase   *)
(* ended with requests or answers on the way (pending.popleft in             *)
(* process_client_read).                                                     *)
THEOREM AnswersArePaired == Spec => []PairedIfDrained
<1>1. LoadInv => PairedIfDrained
  BY DEF LoadInv, PairInv
<1> QED BY <1>1, LoadInvariant, PTL

LEMMA DeliveriesOfSent ==
  ASSUME LoadInv, workload = "broadcast" \/ ~leftover
  PROVE  /\ state.deliveries <= Fan * Cardinality(served)
         /\ Cardinality(served) <= state.sent
         /\ Cardinality(served) \in Nat /\ Fan \in Nat /\ Fan >= 1
         /\ state.deliveries \in Nat /\ state.sent \in Nat
<1>1. KnownInv /\ InFlightInv /\ Types
  BY DEF LoadInv, CountInv
<1>2. /\ Cardinality(served) \in Nat /\ Cardinality(served) <= Cardinality(Known)
      /\ Cardinality(Known) \in Nat /\ IsFiniteSet(InFlight)
  BY <1>1, ReceivedSizes
<1>3. Cardinality(InFlight) \in Nat
  BY <1>2, FS_CardinalityType
<1>4. Fan \in Nat /\ Fan >= 1 /\ Fan * Cardinality(served) \in Nat
  BY <1>1, <1>2, FanType
<1>5. state.deliveries \in Nat /\ state.sent \in Nat
  BY <1>1 DEF Types, Counters
<1>6. state.deliveries + Cardinality(InFlight) <= Fan * Cardinality(served)
  BY <1>1 DEF InFlightInv
<1>7. Cardinality(Known) <= state.sent
  BY <1>1 DEF KnownInv
<1> QED BY <1>2, <1>3, <1>4, <1>5, <1>6, <1>7

(* What is counted in a phase was caused by what the phase has sent: nothing *)
(* completes twice or is delivered more often than it has receivers, though  *)
(* the server still answers an earlier phase (the token of a broadcast and   *)
(* the queue of a direct client in process_client_read).                     *)
THEOREM CountsAreCaused == Spec => []CountsAreOfThisPhase
<1>1. LoadInv => CountsAreOfThisPhase
  <2> SUFFICES ASSUME LoadInv
               PROVE  CountsAreOfThisPhase
    OBVIOUS
  <2>1. Types /\ KnownInv /\ OutstandingInv /\ CompletingInv
    BY DEF LoadInv, CountInv
  <2>2. state.completed \in Nat /\ state.sent \in Nat /\ state.deliveries \in Nat
    BY <2>1 DEF Types, Counters
  <2>3. CASE workload = "direct"
    <3>1. state.sent * 1 = state.sent
      BY <2>2
    <3> QED BY <2>1, <2>2, <2>3, <3>1 DEF OutstandingInv, CountsAreOfThisPhase
  <2>4. CASE workload = "broadcast"
    <3>1. /\ state.deliveries <= Fan * Cardinality(served)
          /\ Cardinality(served) <= state.sent
          /\ Cardinality(served) \in Nat /\ Fan \in Nat /\ Fan >= 1
      BY <2>4, DeliveriesOfSent
    <3>2. /\ Fan * Cardinality(served) <= Fan * state.sent
          /\ Fan * state.sent = state.sent * Fan /\ Fan * state.sent \in Nat
          /\ Fan * Cardinality(served) \in Nat
      BY <2>2, <3>1
    <3>3. state.deliveries <= state.sent * (Total - 1)
      BY <2>2, <2>4, <3>1, <3>2 DEF Fan
    <3>4. Cardinality(Completing) \in Nat
      BY <2>1, ReceivedSizes, FS_CardinalityType
    <3>5. state.completed <= state.sent
      BY <2>1, <2>2, <2>4, <3>1, <3>4 DEF CompletingInv
    <3> QED BY <2>4, <3>3, <3>5 DEF CountsAreOfThisPhase
  <2> QED BY <2>1, <2>3, <2>4 DEF Types, Workloads
<1> QED BY <1>1, LoadInvariant, PTL

(* A delivery ratio of one means that the server has handled every request   *)
(* of the phase: no copy is counted twice to make up for one that is missing *)
(* (deliveries and sent, the ratio of which build_trial reports).            *)
THEOREM FullRatioIsHonest == Spec => []RatioIsHonest
<1>1. LoadInv => RatioIsHonest
  <2> SUFFICES ASSUME LoadInv, workload = "broadcast" \/ ~leftover,
                      state.deliveries = state.sent * Fan
               PROVE  Cardinality(served) = state.sent
    BY DEF RatioIsHonest, Fan
  <2>1. /\ state.deliveries <= Fan * Cardinality(served)
        /\ Cardinality(served) <= state.sent
        /\ Cardinality(served) \in Nat /\ Fan \in Nat /\ Fan >= 1
        /\ state.deliveries \in Nat /\ state.sent \in Nat
    BY DeliveriesOfSent
  <2> SUFFICES ASSUME Cardinality(served) < state.sent
               PROVE  FALSE
    BY <2>1
  <2>2. PICK k, s, f : k = Cardinality(served) /\ s = state.sent /\ f = Fan
    OBVIOUS
  <2>3. k + 1 <= s /\ k \in Nat /\ s \in Nat /\ f \in Nat /\ f >= 1 /\ s * f <= f * k
    BY <2>1, <2>2
  <2>4. f * (k + 1) <= f * s /\ f * (k + 1) = f * k + f /\ f * s = s * f
        /\ f * k \in Nat /\ f * s \in Nat
    BY <2>3
  <2> QED BY <2>3, <2>4
<1> QED BY <1>1, LoadInvariant, PTL

=============================================================================
