------------------------- MODULE OutputQueueProofs -------------------------
(* Proofs about OutputQueue, for every size of the queue, the budget, the    *)
(* socket buffer and the messages.                                           *)
EXTENDS OutputQueue, SequenceTheorems, TLAPS

(* The inductive invariant.  The stream on the wire stays in order because   *)
(* the queue is a chain of intervals that starts right after the last byte   *)
(* sent; the chain stays one because the fast path is taken only when it is  *)
(* empty, and so nothing weaker than all the conjuncts is preserved.         *)
IInv ==
  /\ TypeOK
  /\ WireInOrder
  /\ QueueHoldsTheRest
  /\ SizeIsExact
  /\ InterestIffPending
  /\ BudgetRespected

(* Sending the next k bytes of the stream extends the wire in order.         *)
LEMMA WireExtends ==
  ASSUME NEW w \in Seq(Nat), \A i \in 1..Len(w) : w[i] = i, NEW k \in Nat
  PROVE  LET v == w \o Positions(Len(w) + 1, k)
         IN  /\ v \in Seq(Nat)
             /\ Len(v) = Len(w) + k
             /\ \A i \in 1..Len(v) : v[i] = i
<1> DEFINE p == Positions(Len(w) + 1, k)
<1>1. p \in Seq(Nat) /\ Len(p) = k
  BY DEF Positions
<1>2. \A i \in 1..k : p[i] = Len(w) + i
  BY DEF Positions
<1> HIDE DEF p
<1>3. w \o p \in Seq(Nat) /\ Len(w \o p) = Len(w) + k
  BY <1>1, ConcatProperties
<1>4. \A i \in 1..Len(w \o p) : (w \o p)[i] = IF i <= Len(w) THEN w[i] ELSE p[i - Len(w)]
  BY <1>1, <1>3, ConcatProperties
<1>5. ASSUME NEW i \in 1..Len(w \o p) PROVE (w \o p)[i] = i
  <2>1. CASE i <= Len(w)
    BY <2>1, <1>4
  <2>2. CASE i > Len(w)
    <3>1. i - Len(w) \in 1..k
      BY <2>2, <1>3
    <3> QED BY <2>2, <3>1, <1>2, <1>4
  <2> QED BY <2>1, <2>2
<1> QED BY <1>3, <1>5 DEF p

(* A message behind the chain: k bytes of it were sent directly, which is    *)
(* possible only if the chain is empty, and w holds the other n - k.         *)
LEMMA ChainAppend ==
  ASSUME NEW q \in Seq(PendingWrite), NEW sent \in Nat, NEW total \in Nat,
         Chain(q, sent, total), NEW n \in Nat, NEW k \in Nat, k < n,
         k = 0 \/ q = <<>>, NEW w \in PendingWrite,
         w.first = total + k + 1, w.size = n - k, w.offset = 0
  PROVE  Append(q, w) \in Seq(PendingWrite) /\ Chain(Append(q, w), sent + k, total + n)
<1> DEFINE r == Append(q, w)
<1>1. /\ r \in Seq(PendingWrite) /\ r # <<>> /\ Len(r) = Len(q) + 1
      /\ r[Len(r)] = w /\ \A i \in 1..Len(q) : r[i] = q[i]
  OBVIOUS
<1>a. \A i \in 1..Len(q) : q[i] \in PendingWrite
  OBVIOUS
<1> HIDE DEF r
<1>2. w.first + w.size = total + n + 1 /\ Remaining(w) > 0
  BY DEF Remaining
<1>3. r[1].first + r[1].offset = sent + k + 1
  <2>1. CASE q = <<>>
    <3>1. r[1] = w /\ sent = total
      BY <1>1, <2>1 DEF Chain
    <3> QED BY <3>1
  <2>2. CASE q # <<>>
    <3>1. r[1] = q[1] /\ k = 0
      BY <1>1, <2>2
    <3>2. q[1].first + q[1].offset = sent + 1
      BY <2>2 DEF Chain
    <3> QED BY <3>1, <3>2
  <2> QED BY <2>1, <2>2
<1>4. ASSUME NEW i \in 1..Len(r)
      PROVE  /\ Remaining(r[i]) > 0
             /\ r[i].first + r[i].size <= total + n + 1
             /\ i > 1 => r[i].offset = 0
             /\ i < Len(r) => r[i + 1].first = r[i].first + r[i].size
  <2>1. CASE i = Len(r)
    BY <1>1, <1>2, <2>1
  <2>2. CASE i < Len(q)
    <3>1. r[i] = q[i] /\ r[i + 1] = q[i + 1]
      BY <1>1, <2>2, SMTT(60)
    <3>a. \A x \in Int : x <= total + 1 => x <= total + n + 1
      OBVIOUS
    <3>b. q[i].first + q[i].size \in Int
      <4>1. q[i] \in PendingWrite
        BY <1>a, <1>1, <2>2
      <4> QED BY <4>1, SMTT(60) DEF PendingWrite
    <3>2. /\ Remaining(q[i]) > 0 /\ q[i].first + q[i].size <= total + 1
          /\ i > 1 => q[i].offset = 0
          /\ q[i + 1].first = q[i].first + q[i].size
      BY <2>2 DEF Chain
    <3> QED BY <3>1, <3>2, <3>a, <3>b
  <2>3. CASE i = Len(q)
    <3>1. r[i] = q[i] /\ r[i + 1] = w /\ q # <<>> /\ k = 0
      BY <1>1, <2>3
    <3>a. \A x : x = total + 1 => x <= total + n + 1 /\ w.first = x
      BY <3>1
    <3>2. /\ Remaining(q[i]) > 0 /\ q[i].first + q[i].size = total + 1
          /\ i > 1 => q[i].offset = 0
      BY <2>3, <3>1 DEF Chain
    <3> QED BY <1>1, <2>3, <3>1, <3>2, <3>a
  <2> QED BY <1>1, <2>1, <2>2, <2>3
<1>5. Chain(r, sent + k, total + n)
  BY <1>1, <1>2, <1>3, <1>4 DEF Chain
<1> QED BY <1>1, <1>5 DEF r

(* Sending the last k bytes of the front removes it.                         *)
LEMMA ChainPop ==
  ASSUME NEW q \in Seq(PendingWrite), q # <<>>, NEW sent \in Nat, NEW total \in Nat,
         Chain(q, sent, total), NEW k \in Nat, k = Remaining(q[1])
  PROVE  Tail(q) \in Seq(PendingWrite) /\ Chain(Tail(q), sent + k, total) /\ sent + k <= total
<1> DEFINE r == Tail(q)
<1>1. /\ q[1] \in PendingWrite /\ Len(q) \in Nat \ {0} /\ 1 \in 1..Len(q)
      /\ r \in Seq(PendingWrite) /\ Len(r) = Len(q) - 1
      /\ \A i \in 1..Len(r) : r[i] = q[i + 1] /\ i + 1 \in 1..Len(q)
  OBVIOUS
<1> HIDE DEF r
<1>2. PICK front \in PendingWrite : front = q[1]
  BY <1>1
<1>3. front.first \in Nat /\ front.size \in Nat /\ front.offset \in Nat
      /\ k = front.size - front.offset
  BY <1>2 DEF PendingWrite, Remaining
<1>4. front.first + front.offset = sent + 1 /\ front.first + front.size <= total + 1
  BY <1>1, <1>2 DEF Chain
<1>5. front.first + front.size = sent + k + 1 /\ sent + k <= total
  <2>1. PICK first, size, offset \in Nat :
          first = front.first /\ size = front.size /\ offset = front.offset
    BY <1>3
  <2>2. k = size - offset /\ first + offset = sent + 1 /\ first + size <= total + 1
    BY <1>3, <1>4, <2>1
  <2>3. first + size = sent + k + 1 /\ sent + k <= total
    BY <2>2
  <2> QED BY <2>1, <2>3
<1>6. q[Len(q)].first + q[Len(q)].size = total + 1
  BY DEF Chain
<1>7. ASSUME NEW i \in 1..Len(q)
      PROVE  /\ Remaining(q[i]) > 0
             /\ q[i].first + q[i].size <= total + 1
             /\ i > 1 => q[i].offset = 0
             /\ i < Len(q) => q[i + 1].first = q[i].first + q[i].size
  BY DEF Chain
<1>8. CASE Len(q) = 1
  <2>1. r = <<>> /\ Len(r) = 0
    BY <1>1, <1>8
  <2>2. front.first + front.size = total + 1
    BY <1>2, <1>6, <1>8
  <2>3. sent + k = total
    BY <1>3, <1>5, <2>2, SMTT(60)
  <2>4. Chain(r, sent + k, total)
    BY <2>1, <2>3 DEF Chain
  <2> QED BY <1>1, <1>5, <2>4 DEF r
<1>9. CASE Len(q) # 1
  <2>1. r # <<>> /\ Len(r) \in Nat \ {0} /\ 2 \in 1..Len(q) /\ 1 < Len(q)
    BY <1>1, <1>9
  <2>2. r[1] = q[2] /\ r[Len(r)] = q[Len(q)]
    <3>1. 1 \in 1..Len(r) /\ Len(r) \in 1..Len(r) /\ Len(r) + 1 = Len(q) /\ 1 + 1 = 2
      BY <1>1, <2>1
    <3> QED BY <1>1, <3>1
  <2>3. q[2].first = front.first + front.size
    BY <1>1, <1>2, <1>7, <2>1
  <2>4. q[2].first = sent + k + 1 /\ q[2].offset = 0
    BY <1>5, <1>7, <2>1, <2>3
  <2>5. r[1].first + r[1].offset = sent + k + 1
    <3>1. \A x, y : x = sent + k + 1 /\ y = 0 => x + y = sent + k + 1
      OBVIOUS
    <3> QED BY <2>2, <2>4, <3>1
  <2>6. ASSUME NEW i \in 1..Len(r)
        PROVE  /\ Remaining(r[i]) > 0
               /\ r[i].first + r[i].size <= total + 1
               /\ i > 1 => r[i].offset = 0
               /\ i < Len(r) => r[i + 1].first = r[i].first + r[i].size
    <3>1. r[i] = q[i + 1] /\ i + 1 \in 1..Len(q) /\ i + 1 > 1
      BY <1>1
    <3>2. i < Len(r) => i + 1 < Len(q) /\ r[i + 1] = q[(i + 1) + 1]
      BY <1>1, SMTT(60)
    <3> QED BY <1>7, <3>1, <3>2
  <2>7. Chain(r, sent + k, total)
    BY <1>6, <2>1, <2>2, <2>5, <2>6 DEF Chain
  <2> QED BY <1>1, <1>5, <2>7 DEF r
<1> QED BY <1>8, <1>9

(* Sending k bytes, but not all, of the front w moves its offset: v.         *)
LEMMA ChainAdvance ==
  ASSUME NEW q \in Seq(PendingWrite), q # <<>>, NEW sent \in Nat, NEW total \in Nat,
         Chain(q, sent, total), NEW k \in Nat,
         NEW w \in PendingWrite, w = q[1], k < Remaining(w),
         NEW v \in PendingWrite, v.first = w.first, v.size = w.size,
         v.offset = w.offset + k
  PROVE  LET r == [q EXCEPT ![1] = v]
         IN  r \in Seq(PendingWrite) /\ Chain(r, sent + k, total) /\ sent + k <= total
<1> DEFINE r == [q EXCEPT ![1] = v]
<1>1. /\ Len(q) \in Nat \ {0} /\ 1 \in 1..Len(q)
      /\ r \in Seq(PendingWrite) /\ r # <<>> /\ Len(r) = Len(q) /\ r[1] = v
      /\ \A i \in 1..Len(q) : i # 1 => r[i] = q[i]
  OBVIOUS
<1> HIDE DEF r
<1>2. /\ w.first \in Nat /\ w.size \in Nat /\ w.offset \in Nat
      /\ Remaining(w) = w.size - w.offset /\ Remaining(v) = v.size - v.offset
  BY DEF PendingWrite, Remaining
<1>3. w.first + w.offset = sent + 1 /\ w.first + w.size <= total + 1
  BY <1>1 DEF Chain
<1>4. v.first + v.offset = sent + k + 1 /\ Remaining(v) > 0 /\ sent + k <= total
  <2>1. PICK f \in Nat, s \in Nat, o \in Nat : f = w.first /\ s = w.size /\ o = w.offset
    BY <1>2
  <2>2. f + o = sent + 1 /\ f + s <= total + 1
    BY <1>3, <2>1
  <2>3. v.first = f /\ v.size = s /\ v.offset = o + k
    BY <2>1
  <2>4. Remaining(w) = s - o /\ Remaining(v) = s - (o + k)
    BY <1>2, <2>1, <2>3
  <2>5. k < s - o
    BY <2>4
  <2>6. f + (o + k) = sent + k + 1 /\ s - (o + k) > 0 /\ sent + k <= total
    BY <2>2, <2>5
  <2> QED BY <2>3, <2>4, <2>6
<1>5. ASSUME NEW i \in 1..Len(q)
      PROVE  /\ Remaining(q[i]) > 0
             /\ q[i].first + q[i].size <= total + 1
             /\ i > 1 => q[i].offset = 0
             /\ i < Len(q) => q[i + 1].first = q[i].first + q[i].size
  BY DEF Chain
<1>6. r[Len(r)].first + r[Len(r)].size = total + 1
  <2>1. q[Len(q)].first + q[Len(q)].size = total + 1
    BY DEF Chain
  <2>2. CASE Len(q) = 1
    BY <1>1, <2>1, <2>2
  <2>3. CASE Len(q) # 1
    BY <1>1, <2>1, <2>3
  <2> QED BY <2>2, <2>3
<1>7. ASSUME NEW i \in 1..Len(r)
      PROVE  /\ Remaining(r[i]) > 0
             /\ r[i].first + r[i].size <= total + 1
             /\ i > 1 => r[i].offset = 0
             /\ i < Len(r) => r[i + 1].first = r[i].first + r[i].size
  <2>1. i \in 1..Len(q) /\ (i < Len(r) => r[i + 1] = q[i + 1])
    BY <1>1
  <2>2. CASE i = 1
    <3>1. r[i] = v /\ q[i] = w
      BY <1>1, <2>2
    <3>2. /\ w.first + w.size <= total + 1
          /\ i < Len(q) => q[i + 1].first = w.first + w.size
      BY <1>5, <2>1, <3>1
    <3> QED BY <1>1, <1>4, <2>1, <2>2, <3>1, <3>2
  <2>3. CASE i # 1
    <3>1. r[i] = q[i] /\ i > 1
      BY <1>1, <2>1, <2>3
    <3> QED BY <1>1, <1>5, <2>1, <3>1
  <2> QED BY <2>2, <2>3
<1>8. Chain(r, sent + k, total)
  BY <1>1, <1>4, <1>6, <1>7 DEF Chain
<1> QED BY <1>1, <1>4, <1>8 DEF r

(* A call of send(n) never takes more than n bytes nor than the buffer holds.*)
LEMMA SendIsBounded ==
  ASSUME TypeOK, OutputConstants, NEW n \in Nat, NEW k \in SendResults(n)
  PROVE  k \in Nat /\ k <= space /\ (k <= n \/ k = 0) /\ (space # 0 => k > 0)
BY DEF SendResults, Least, TypeOK, OutputConstants

(* Only the status and the place in the code change: the invariant holds of  *)
(* a closed connection if it held before.                                    *)
LEMMA CloseKeeps ==
  ASSUME IInv, NEW why \in {"overflow", "failed"}, Close(why),
         UNCHANGED <<outputQueue, outputQueueSize, writeInterestEnabled, interest,
                     writeEvent, space, peerReset, accepted, wire, sentNow>>,
         \/ UNCHANGED <<budgetIsCurrent, writeBudgetRemaining>>
         \/ budgetIsCurrent' = TRUE /\ writeBudgetRemaining' = Budget
  PROVE  IInv'
<1>1. TypeOK'
  <2>1. budgetIsCurrent' \in BOOLEAN
    BY Zenon DEF IInv, TypeOK
  <2>2. writeBudgetRemaining' \in 0..MAX_BYTES_WRITTEN_PER_POLL
    BY OutputConstants DEF IInv, TypeOK, Budget
  <2> QED BY <2>1, <2>2 DEF IInv, TypeOK, Close
<1>2. WireInOrder' /\ QueueHoldsTheRest' /\ SizeIsExact'
  BY DEF IInv, WireInOrder, QueueHoldsTheRest, SizeIsExact, Remaining
<1>3. InterestIffPending'
  BY DEF InterestIffPending, Close
<1>4. BudgetRespected'
  BY OutputConstants DEF IInv, TypeOK, BudgetRespected, Close, Budget
<1> QED BY <1>1, <1>2, <1>3, <1>4 DEF IInv

(* queueOutputCommon keeps the chain: what it sends follows the wire, and    *)
(* what it queues follows the queue.                                         *)
LEMMA QueueOutputKeeps ==
  ASSUME IInv, NEW n \in 0..MaxMessage, NEW sent \in 0..n, QueueOutput(n, sent)
  PROVE  IInv'
<1> USE OutputConstants
<1>t. TypeOK
  BY DEF IInv
<1>1. /\ n \in Nat /\ sent \in Nat /\ sent <= space /\ sent <= Budget
      /\ accepted + n <= MaxAccepted /\ Budget \in 0..MAX_BYTES_WRITTEN_PER_POLL
  <2>1. n \in Nat /\ sent \in Nat /\ accepted + n <= MaxAccepted
        /\ Budget \in 0..MAX_BYTES_WRITTEN_PER_POLL
    BY <1>t DEF QueueOutput, CallIsPossible, OutputConstants, Budget, TypeOK
  <2>2. CASE FastPath(n)
    <3>1. FastChunk(n) \in Nat /\ FastChunk(n) <= Budget
      BY <2>1 DEF FastChunk, Least, OutputConstants
    <3>2. sent \in SendResults(FastChunk(n))
      BY <2>2 DEF QueueOutput
    <3> QED BY <1>t, <2>1, <3>1, <3>2, SendIsBounded
  <2>3. CASE ~FastPath(n)
    BY <1>t, <2>1, <2>3 DEF QueueOutput, TypeOK
  <2> QED BY <2>2, <2>3
<1>2. sent > 0 => outputQueue = <<>>
  BY DEF QueueOutput, FastPath
<1>3. /\ wire' \in Seq(Nat) /\ Len(wire') = Len(wire) + sent
      /\ \A i \in 1..Len(wire') : wire'[i] = i
  <2>1. CASE sent = 0
    <3>1. wire' = wire \o Positions(accepted + 1, 0)
      BY <2>1 DEF QueueOutput, Sends
    <3>2. Positions(accepted + 1, 0) = <<>>
      BY DEF Positions
    <3>3. wire' = wire
      BY <1>t, <3>1, <3>2 DEF TypeOK
    <3> QED BY <1>t, <2>1, <3>3 DEF IInv, WireInOrder, TypeOK
  <2>2. CASE sent > 0
    <3>1. Len(wire) = accepted
      BY <1>2, <2>2 DEF IInv, QueueHoldsTheRest, Chain
    <3>2. wire' = wire \o Positions(Len(wire) + 1, sent)
      BY <3>1 DEF QueueOutput, Sends
    <3> QED BY <1>t, <1>1, <3>2, WireExtends DEF IInv, WireInOrder, TypeOK
  <2> QED BY <1>1, <2>1, <2>2
<1>4. accepted' = accepted + n /\ accepted' \in 0..MaxAccepted /\ Len(wire) \in Nat
  BY <1>t, <1>1 DEF QueueOutput, TypeOK, OutputConstants
<1>5. outputQueue' \in Seq(PendingWrite) /\ QueueHoldsTheRest'
  <2>0. Chain(outputQueue, Len(wire), accepted) /\ accepted \in Nat
    BY <1>t DEF IInv, QueueHoldsTheRest, TypeOK, OutputConstants
  <2>1. CASE sent = n
    <3>1. outputQueue' = outputQueue
      BY <2>1 DEF QueueOutput, PushRest
    <3>2. CASE outputQueue = <<>>
      <4>1. Len(wire') = accepted'
        BY <1>1, <1>3, <1>4, <2>0, <2>1, <3>2 DEF Chain
      <4> QED BY <1>t, <3>1, <3>2, <4>1 DEF QueueHoldsTheRest, Chain, TypeOK
    <3>3. CASE outputQueue # <<>>
      <4>1. n = 0 /\ sent = 0
        BY <1>1, <1>2, <2>1, <3>3
      <4>2. Len(wire') = Len(wire) /\ accepted' = accepted
        BY <1>3, <1>4, <2>0, <4>1
      <4> QED BY <1>t, <2>0, <3>1, <4>2 DEF QueueHoldsTheRest, TypeOK
    <3> QED BY <3>2, <3>3
  <2>2. CASE sent # n
    <3> DEFINE w == [first |-> accepted + sent + 1, size |-> n - sent, offset |-> 0]
    <3>1. w \in PendingWrite /\ w.offset = 0 /\ w.size = n - sent
          /\ w.first = accepted + sent + 1 /\ sent < n
      BY <1>1, <2>0, <2>2 DEF PendingWrite
    <3>2. outputQueue' = Append(outputQueue, w)
      BY <2>2 DEF QueueOutput, PushRest
    <3> HIDE DEF w
    <3>3. sent = 0 \/ outputQueue = <<>>
      BY <1>1, <1>2
    <3>4. outputQueue \in Seq(PendingWrite)
      BY <1>t DEF TypeOK
    <3>5. /\ Append(outputQueue, w) \in Seq(PendingWrite)
          /\ Chain(Append(outputQueue, w), Len(wire) + sent, accepted + n)
      BY <1>1, <1>4, <2>0, <3>1, <3>3, <3>4, ChainAppend
    <3> QED BY <1>3, <1>4, <3>2, <3>5 DEF QueueHoldsTheRest
  <2> QED BY <2>1, <2>2
<1>6. SizeIsExact' /\ outputQueueSize' \in Nat
  <2>1. outputQueueSize' = outputQueueSize + (n - sent)
    BY <1>t, <1>1 DEF QueueOutput, PushRest, TypeOK
  <2>2. n <= MAX_PENDING_OUTPUT_BYTES - outputQueueSize
    BY DEF QueueOutput, Fits
  <2> QED BY <1>t, <1>1, <1>3, <1>4, <2>1, <2>2 DEF IInv, SizeIsExact, TypeOK, OutputConstants
<1>7. InterestIffPending' /\ status' \in {"open", "failed"} /\ pc' = "idle"
      /\ interest' \in BOOLEAN /\ writeInterestEnabled' \in BOOLEAN
  <2>1. status = "open" /\ pc = "idle" /\ EnableInterest
    BY DEF QueueOutput, CallIsPossible
  <2>2. outputQueue # <<>> => outputQueue' # <<>>
    BY <1>t DEF QueueOutput, PushRest, TypeOK
  <2>3. /\ interest = writeInterestEnabled
        /\ interest <=> outputQueue # <<>>
    BY <2>1 DEF IInv, InterestIffPending
  <2>4. CASE outputQueue' # <<>> /\ ~writeInterestEnabled
    BY <1>t, <2>1, <2>4, Zenon DEF EnableInterest, InterestIffPending, Close, TypeOK
  <2>5. CASE ~(outputQueue' # <<>> /\ ~writeInterestEnabled)
    <3>1. UNCHANGED <<interest, writeInterestEnabled, status, pc>>
      BY <2>1, <2>5 DEF EnableInterest
    <3>2. interest <=> outputQueue' # <<>>
      <4>1. interest <=> writeInterestEnabled
        BY <2>3
      <4> QED BY <2>2, <2>3, <2>5, <4>1
    <3>3. interest' = interest /\ writeInterestEnabled' = writeInterestEnabled
          /\ status' = status /\ pc' = pc
      BY <3>1
    <3>4. InterestIffPending'
      BY <2>3, <3>2, <3>3, Zenon DEF InterestIffPending
    <3>5. interest' \in BOOLEAN /\ writeInterestEnabled' \in BOOLEAN
      BY <1>t, <3>3, Zenon DEF TypeOK
    <3> QED BY <2>1, <3>3, <3>4, <3>5
  <2> QED BY <2>4, <2>5
<1>8. BudgetRespected' /\ sentNow' \in Nat
      /\ writeBudgetRemaining' \in 0..MAX_BYTES_WRITTEN_PER_POLL
  <2>1. /\ budgetIsCurrent' = TRUE /\ writeBudgetRemaining' = Budget - sent
        /\ sentNow' = sentNow + sent
    BY DEF QueueOutput, Sends
  <2>2. sentNow + Budget = MAX_BYTES_WRITTEN_PER_POLL /\ sentNow \in Nat
    BY <1>t DEF IInv, BudgetRespected, Budget, TypeOK, OutputConstants
  <2>3. /\ sentNow' \in Nat /\ writeBudgetRemaining' \in 0..MAX_BYTES_WRITTEN_PER_POLL
        /\ sentNow' + writeBudgetRemaining' = MAX_BYTES_WRITTEN_PER_POLL
        /\ sentNow' <= MAX_BYTES_WRITTEN_PER_POLL
    BY <1>1, <2>1, <2>2 DEF OutputConstants
  <2> QED BY <2>1, <2>3, Zenon DEF BudgetRespected
<1>9. TypeOK'
  <2>1. space' \in 0..SocketBuffer
    BY <1>t, <1>1 DEF QueueOutput, Sends, TypeOK, OutputConstants
  <2>2. /\ budgetIsCurrent' \in BOOLEAN
        /\ writeEvent' \in BOOLEAN /\ peerReset' \in BOOLEAN
    BY <1>t, Zenon DEF QueueOutput, TypeOK
  <2> QED BY <1>3, <1>4, <1>5, <1>6, <1>7, <1>8, <2>1, <2>2 DEF TypeOK
<1> QED BY <1>3, <1>5, <1>6, <1>7, <1>8, <1>9 DEF IInv, WireInOrder

(* One send of flushOutputCommon's loop takes bytes off the chain's front.   *)
LEMMA FlushSendKeeps ==
  ASSUME IInv, NEW k \in 1..SocketBuffer, FlushSend(k)
  PROVE  IInv'
<1> USE OutputConstants
<1>t. TypeOK
  BY DEF IInv
<1>0. pc = "flush" /\ outputQueue # <<>> /\ writeBudgetRemaining # 0
  BY DEF FlushSend, CanFlush
<1>1. /\ outputQueue \in Seq(PendingWrite) /\ Front = outputQueue[1]
      /\ Front \in PendingWrite /\ Len(outputQueue) \in Nat \ {0}
      /\ Remaining(Front) \in Nat \ {0}
      /\ Front.first + Front.offset = Len(wire) + 1
  <2>1. outputQueue \in Seq(PendingWrite) /\ Len(outputQueue) \in Nat \ {0}
        /\ Front = outputQueue[1] /\ Front \in PendingWrite /\ 1 \in 1..Len(outputQueue)
    BY <1>t, <1>0 DEF TypeOK, Front
  <2>2. Remaining(Front) > 0 /\ Front.first + Front.offset = Len(wire) + 1
    BY <1>0, <2>1 DEF IInv, QueueHoldsTheRest, Chain
  <2>3. Remaining(Front) \in Int
    BY <2>1 DEF PendingWrite, Remaining
  <2> QED BY <2>1, <2>2, <2>3
<1>2. k \in Nat /\ k <= space /\ k <= Remaining(Front) /\ k <= writeBudgetRemaining /\ k > 0
  <2> DEFINE n == Least(Remaining(Front), writeBudgetRemaining)
  <2>1. n \in Nat /\ n <= Remaining(Front) /\ n <= writeBudgetRemaining
    BY <1>t, <1>1 DEF Least, TypeOK, OutputConstants
  <2>2. k \in SendResults(n) /\ k > 0
    BY DEF FlushSend
  <2> HIDE DEF n
  <2> QED BY <1>t, <1>1, <2>1, <2>2, SendIsBounded DEF TypeOK, OutputConstants
<1>3. /\ wire' \in Seq(Nat) /\ Len(wire') = Len(wire) + k
      /\ \A i \in 1..Len(wire') : wire'[i] = i
  <2>1. wire' = wire \o Positions(Len(wire) + 1, k)
    BY <1>1 DEF FlushSend, Sends
  <2> QED BY <1>t, <1>2, <2>1, WireExtends DEF IInv, WireInOrder, TypeOK
<1>4. /\ outputQueue' \in Seq(PendingWrite) /\ QueueHoldsTheRest'
      /\ Len(wire) + k <= accepted /\ accepted' = accepted
  <2>1. /\ Chain(outputQueue, Len(wire), accepted)
        /\ accepted \in Nat /\ Len(wire) \in Nat /\ accepted' = accepted
    BY <1>t DEF IInv, QueueHoldsTheRest, FlushSend, TypeOK, OutputConstants
  <2>2. outputQueue' = IF k = Remaining(outputQueue[1]) THEN Tail(outputQueue)
                       ELSE [outputQueue EXCEPT ![1].offset = @ + k]
    BY <1>1 DEF FlushSend, Consume
  <2>3. /\ outputQueue' \in Seq(PendingWrite) /\ Chain(outputQueue', Len(wire) + k, accepted)
        /\ Len(wire) + k <= accepted
    <3>1. CASE k = Remaining(outputQueue[1])
      <4>1. outputQueue' = Tail(outputQueue)
        BY <2>2, <3>1
      <4> QED BY <1>0, <1>1, <1>2, <2>1, <3>1, <4>1, ChainPop
    <3>2. CASE k # Remaining(outputQueue[1])
      <4>1. PICK w \in PendingWrite : w = outputQueue[1]
        BY <1>1
      <4>2. PICK v \in PendingWrite : v = [w EXCEPT !.offset = @ + k]
        <5>1. k \in Nat
          BY <1>2
        <5>2. [w EXCEPT !.offset = @ + k] \in PendingWrite
          BY <5>1 DEF PendingWrite
        <5> QED BY <5>2
      <4>3. v.first = w.first /\ v.size = w.size /\ v.offset = w.offset + k
        BY <4>2 DEF PendingWrite
      <4>4. outputQueue' = [outputQueue EXCEPT ![1] = v]
        BY <2>2, <3>2, <4>1, <4>2
      <4>5. k < Remaining(w)
        BY <1>1, <1>2, <3>2, <4>1
      <4> QED BY <1>0, <1>1, <1>2, <2>1, <4>1, <4>3, <4>4, <4>5, ChainAdvance, ZenonT(60)
    <3> QED BY <3>1, <3>2
  <2> QED BY <1>3, <2>1, <2>3 DEF QueueHoldsTheRest
<1>5. SizeIsExact' /\ outputQueueSize' \in Nat
  <2>1. outputQueueSize' = outputQueueSize - k
    BY DEF FlushSend
  <2> QED BY <1>t, <1>2, <1>3, <1>4, <2>1 DEF IInv, SizeIsExact, TypeOK, OutputConstants
<1>6. InterestIffPending'
  BY <1>0 DEF IInv, InterestIffPending, FlushSend
<1>7. BudgetRespected' /\ sentNow' \in Nat
      /\ writeBudgetRemaining' \in 0..MAX_BYTES_WRITTEN_PER_POLL
  <2>1. budgetIsCurrent /\ budgetIsCurrent' = budgetIsCurrent
    BY <1>0 DEF IInv, BudgetRespected, FlushSend
  <2>2. writeBudgetRemaining' = writeBudgetRemaining - k /\ sentNow' = sentNow + k
    BY DEF FlushSend, Sends
  <2>3. sentNow + writeBudgetRemaining = MAX_BYTES_WRITTEN_PER_POLL /\ sentNow \in Nat
        /\ writeBudgetRemaining \in Nat
    BY <1>t, <2>1 DEF IInv, BudgetRespected, TypeOK, OutputConstants
  <2>4. /\ sentNow' \in Nat /\ writeBudgetRemaining' \in 0..MAX_BYTES_WRITTEN_PER_POLL
        /\ sentNow' + writeBudgetRemaining' = MAX_BYTES_WRITTEN_PER_POLL
        /\ sentNow' <= MAX_BYTES_WRITTEN_PER_POLL
    BY <1>2, <2>2, <2>3 DEF OutputConstants
  <2> QED BY <2>1, <2>4 DEF BudgetRespected
<1>8. TypeOK'
  <2>1. space' \in 0..SocketBuffer
    BY <1>t, <1>2 DEF FlushSend, Sends, TypeOK, OutputConstants
  <2> QED BY <1>t, <1>3, <1>4, <1>5, <1>7, <2>1 DEF TypeOK, FlushSend
<1> QED BY <1>3, <1>4, <1>5, <1>6, <1>7, <1>8 DEF IInv, WireInOrder

(* The end of the flush loop: interest goes with the last byte.              *)
LEMMA FlushEndKeeps ==
  ASSUME IInv, FlushEnd
  PROVE  IInv'
<1>t. TypeOK
  BY DEF IInv
<1>1. pc = "flush" /\ DisableInterest
  BY DEF FlushEnd
<1>2. /\ outputQueue' = outputQueue /\ wire' = wire /\ accepted' = accepted
      /\ outputQueueSize' = outputQueueSize /\ budgetIsCurrent' = budgetIsCurrent
      /\ writeBudgetRemaining' = writeBudgetRemaining /\ sentNow' = sentNow
      /\ writeEvent' = writeEvent /\ space' = space /\ peerReset' = peerReset
  BY DEF FlushEnd
<1>3. /\ pc' = "idle" /\ status' \in {"open", "overflow", "failed"}
      /\ interest' \in BOOLEAN /\ writeInterestEnabled' \in BOOLEAN
      /\ InterestIffPending'
  <2>1. /\ status = "open" => /\ interest = writeInterestEnabled
                              /\ outputQueue # <<>> => interest
    BY DEF IInv, InterestIffPending
  <2>2. CASE outputQueue = <<>> /\ writeInterestEnabled
    <3>1. CASE interest' = FALSE /\ writeInterestEnabled' = FALSE
               /\ pc' = "idle" /\ UNCHANGED status
      BY <1>t, <1>2, <2>2, <3>1, Zenon DEF InterestIffPending, TypeOK
    <3>2. CASE UNCHANGED <<interest, writeInterestEnabled>> /\ Close("failed")
      BY <1>t, <3>2, Zenon DEF InterestIffPending, Close, TypeOK
    <3> QED BY <1>1, <2>2, <3>1, <3>2 DEF DisableInterest
  <2>3. CASE ~(outputQueue = <<>> /\ writeInterestEnabled)
    <3>1. pc' = "idle" /\ status' = status /\ interest' = interest
          /\ writeInterestEnabled' = writeInterestEnabled
      BY <1>1, <2>3 DEF DisableInterest
    <3>2. status = "open" => (interest <=> outputQueue # <<>>)
      <4>1. ASSUME status = "open" PROVE interest <=> writeInterestEnabled
        BY <2>1, <4>1
      <4> QED BY <2>1, <2>3, <4>1
    <3>3. InterestIffPending'
      BY <1>2, <2>1, <3>1, <3>2, Zenon DEF InterestIffPending
    <3>4. interest' \in BOOLEAN /\ writeInterestEnabled' \in BOOLEAN
      BY <1>t, <3>1, Zenon DEF TypeOK
    <3> QED BY <1>t, <3>1, <3>3, <3>4 DEF TypeOK
  <2> QED BY <2>2, <2>3
<1>5. TypeOK'
  BY <1>t, <1>2, <1>3 DEF TypeOK
<1>6. WireInOrder' /\ QueueHoldsTheRest' /\ SizeIsExact'
  BY <1>2 DEF IInv, WireInOrder, QueueHoldsTheRest, SizeIsExact
<1>7. BudgetRespected'
  BY <1>2, <1>3 DEF IInv, BudgetRespected
<1> QED BY <1>3, <1>5, <1>6, <1>7 DEF IInv

(* Everything else leaves the stream alone.                                  *)
LEMMA OtherStepsKeep ==
  ASSUME IInv,
         \/ FlushBegin \/ NewIteration \/ PeerResets
         \/ \E k \in 1..SocketBuffer : PeerReads(k)
  PROVE  IInv'
<1> USE OutputConstants
<1>t. TypeOK
  BY DEF IInv
<1>1. CASE FlushBegin
  <2>1. TypeOK'
    <3>1. writeBudgetRemaining' \in 0..MAX_BYTES_WRITTEN_PER_POLL
      BY <1>t, <1>1 DEF FlushBegin, TypeOK, Budget, OutputConstants
    <3> QED BY <1>t, <1>1, <3>1 DEF FlushBegin, TypeOK
  <2>2. WireInOrder' /\ QueueHoldsTheRest' /\ SizeIsExact'
    BY <1>1 DEF FlushBegin, IInv, WireInOrder, QueueHoldsTheRest, SizeIsExact
  <2>3. InterestIffPending'
    BY <1>1 DEF FlushBegin, IInv, InterestIffPending
  <2>4. BudgetRespected'
    <3>1. sentNow + Budget = MAX_BYTES_WRITTEN_PER_POLL /\ sentNow' = sentNow
          /\ sentNow <= MAX_BYTES_WRITTEN_PER_POLL
      BY <1>t, <1>1 DEF FlushBegin, IInv, BudgetRespected, Budget, TypeOK, OutputConstants
    <3> QED BY <1>1, <3>1 DEF FlushBegin, BudgetRespected
  <2> QED BY <2>1, <2>2, <2>3, <2>4 DEF IInv
<1>2. CASE NewIteration
  <2>1. TypeOK'
    <3>1. writeEvent' \in BOOLEAN
      BY <1>t, <1>2, Zenon DEF NewIteration, WriteReady, TypeOK
    <3> QED BY <1>t, <1>2, <3>1 DEF NewIteration, TypeOK
  <2>2. WireInOrder' /\ QueueHoldsTheRest' /\ SizeIsExact'
    BY <1>2 DEF NewIteration, IInv, WireInOrder, QueueHoldsTheRest, SizeIsExact
  <2>3. InterestIffPending'
    BY <1>2 DEF NewIteration, IInv, InterestIffPending
  <2>4. BudgetRespected'
    BY <1>2 DEF NewIteration, BudgetRespected, OutputConstants
  <2> QED BY <2>1, <2>2, <2>3, <2>4 DEF IInv
<1>3. CASE PeerResets
  <2>1. TypeOK'
    BY <1>t, <1>3 DEF PeerResets, TypeOK, clientVars
  <2>2. WireInOrder' /\ QueueHoldsTheRest' /\ SizeIsExact'
    BY <1>3 DEF PeerResets, IInv, WireInOrder, QueueHoldsTheRest, SizeIsExact, clientVars
  <2>3. InterestIffPending' /\ BudgetRespected'
    BY <1>3 DEF PeerResets, IInv, InterestIffPending, BudgetRespected, clientVars
  <2> QED BY <2>1, <2>2, <2>3 DEF IInv
<1>4. CASE \E k \in 1..SocketBuffer : PeerReads(k)
  <2> PICK k \in 1..SocketBuffer : PeerReads(k)
    BY <1>4
  <2>1. TypeOK'
    <3>1. space' \in 0..SocketBuffer
      BY <1>t DEF PeerReads, TypeOK, OutputConstants
    <3> QED BY <1>t, <3>1 DEF PeerReads, TypeOK, clientVars
  <2>2. WireInOrder' /\ QueueHoldsTheRest' /\ SizeIsExact'
    BY DEF PeerReads, IInv, WireInOrder, QueueHoldsTheRest, SizeIsExact, clientVars
  <2>3. InterestIffPending' /\ BudgetRespected'
    BY DEF PeerReads, IInv, InterestIffPending, BudgetRespected, clientVars
  <2> QED BY <2>1, <2>2, <2>3 DEF IInv
<1> QED BY <1>1, <1>2, <1>3, <1>4

LEMMA IInvInit ==
  ASSUME Init
  PROVE  IInv
<1> USE OutputConstants
<1>0. /\ outputQueue = <<>> /\ wire = <<>> /\ accepted = 0 /\ outputQueueSize = 0
      /\ writeBudgetRemaining = 0 /\ space = SocketBuffer /\ sentNow = 0
      /\ status = "open" /\ pc = "idle"
  BY DEF Init
<1>1. TypeOK
  <2>1. /\ writeInterestEnabled \in BOOLEAN /\ interest \in BOOLEAN /\ budgetIsCurrent \in BOOLEAN
        /\ writeEvent \in BOOLEAN /\ peerReset \in BOOLEAN
    BY Zenon DEF Init
  <2>2. outputQueue \in Seq(PendingWrite) /\ wire \in Seq(Nat)
    BY <1>0
  <2>3. /\ outputQueueSize \in Nat /\ writeBudgetRemaining \in 0..MAX_BYTES_WRITTEN_PER_POLL
        /\ space \in 0..SocketBuffer /\ accepted \in 0..MaxAccepted /\ sentNow \in Nat
    BY <1>0 DEF OutputConstants
  <2> QED BY <1>0, <2>1, <2>2, <2>3 DEF TypeOK
<1>2. WireInOrder /\ SizeIsExact /\ InterestIffPending /\ BudgetRespected
  <2>1. WireInOrder /\ SizeIsExact
    <3>1. Len(wire) = 0
      BY <1>0
    <3>2. \A i \in 1..Len(wire) : FALSE
      BY <3>1
    <3>3. SizeIsExact
      <4>1. \A x, y, z : x = 0 /\ y = 0 /\ z = 0 => x = y - z
        OBVIOUS
      <4>2. outputQueueSize = accepted - Len(wire)
        BY <1>0, <3>1, <4>1, ZenonT(60)
      <4>3. outputQueueSize <= MAX_PENDING_OUTPUT_BYTES
        BY <1>0 DEF OutputConstants
      <4> QED BY <4>2, <4>3 DEF SizeIsExact
    <3> QED BY <3>2, <3>3 DEF WireInOrder
  <2>2. InterestIffPending
    BY <1>0, Zenon DEF Init, InterestIffPending
  <2>3. BudgetRespected
    BY <1>0 DEF Init, BudgetRespected, OutputConstants
  <2> QED BY <2>1, <2>2, <2>3
<1>3. QueueHoldsTheRest
  BY DEF Init, QueueHoldsTheRest, Chain
<1> QED BY <1>1, <1>2, <1>3 DEF IInv

LEMMA IInvStep ==
  ASSUME IInv, [Next]_vars
  PROVE  IInv'
<1>1. ASSUME NEW n \in 0..MaxMessage, QueueOverflow(n) PROVE IInv'
  <2>1. Close("overflow")
    BY <1>1 DEF QueueOverflow
  <2> QED BY <1>1, <2>1, CloseKeeps DEF QueueOverflow, clientVars
<1>2. ASSUME NEW n \in 0..MaxMessage, QueueSendFails(n) PROVE IInv'
  <2>1. Close("failed")
    BY <1>2 DEF QueueSendFails
  <2> QED BY <1>2, <2>1, CloseKeeps DEF QueueSendFails
<1>3. ASSUME NEW n \in 0..MaxMessage, NEW sent \in 0..n, QueueOutput(n, sent) PROVE IInv'
  BY <1>3, QueueOutputKeeps
<1>4. ASSUME NEW k \in 1..SocketBuffer, FlushSend(k) PROVE IInv'
  BY <1>4, FlushSendKeeps
<1>5. CASE FlushSendFails
  <2>1. Close("failed")
    BY <1>5 DEF FlushSendFails
  <2> QED BY <1>5, <2>1, CloseKeeps DEF FlushSendFails, clientVars
<1>6. CASE FlushEnd
  BY <1>6, FlushEndKeeps
<1>7. CASE FlushBegin \/ WaitReportsWrite \/ WaitReportsOthers \/ PeerResets
           \/ \E k \in 1..SocketBuffer : PeerReads(k)
  BY <1>7, OtherStepsKeep DEF WaitReportsWrite, WaitReportsOthers
<1>8. CASE UNCHANGED vars
  <2>1. TypeOK'
    BY <1>8 DEF IInv, TypeOK, vars, clientVars
  <2>2. WireInOrder' /\ QueueHoldsTheRest' /\ SizeIsExact'
    BY <1>8 DEF vars, clientVars, IInv, WireInOrder, QueueHoldsTheRest, SizeIsExact
  <2>3. InterestIffPending' /\ BudgetRespected'
    BY <1>8 DEF vars, clientVars, IInv, InterestIffPending, BudgetRespected
  <2> QED BY <2>1, <2>2, <2>3 DEF IInv
<1> QED BY <1>1, <1>2, <1>3, <1>4, <1>5, <1>6, <1>7, <1>8 DEF Next

(* The invariant holds in every state of every behaviour of the queue.       *)
THEOREM OutputInvariant == Spec => []IInv
<1>1. Init => IInv
  BY IInvInit
<1>2. IInv /\ [Next]_vars => IInv'
  BY IInvStep
<1> QED BY <1>1, <1>2, PTL DEF Spec

(* What queueOutputCommon and flushOutputCommon hand to the kernel is a      *)
(* prefix of the accepted stream, in order, whatever the sizes.              *)
THEOREM StreamIsInOrder == Spec => []WireInOrder
<1>1. IInv => WireInOrder
  BY DEF IInv
<1> QED BY <1>1, OutputInvariant, PTL

(* outputQueue is what has been accepted and not sent.                       *)
THEOREM NothingIsLost == Spec => []QueueHoldsTheRest
<1>1. IInv => QueueHoldsTheRest
  BY DEF IInv
<1> QED BY <1>1, OutputInvariant, PTL

(* outputQueueSize is exact, so that the unsigned subtraction in             *)
(* queueOutputCommon never wraps; the other fields keep their ranges.        *)
THEOREM AccountingIsExact == Spec => [](TypeOK /\ SizeIsExact)
<1>1. IInv => TypeOK /\ SizeIsExact
  BY DEF IInv
<1> QED BY <1>1, OutputInvariant, PTL

(* The fast path and flushOutputCommon together send a client no more in an  *)
(* iteration than its budget.                                                *)
THEOREM BudgetIsShared == Spec => []BudgetRespected
<1>1. IInv => BudgetRespected
  BY DEF IInv
<1> QED BY <1>1, OutputInvariant, PTL

(* Between handlers, write interest is on exactly while bytes are pending.   *)
THEOREM InterestFollowsQueue == Spec => []InterestIffPending
<1>1. IInv => InterestIffPending
  BY DEF IInv
<1> QED BY <1>1, OutputInvariant, PTL

=============================================================================
