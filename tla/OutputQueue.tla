---------------------------- MODULE OutputQueue ----------------------------
(* The output side of one client connection: queueOutputCommon and           *)
(* flushOutputCommon of common/server_common.hpp, the per-iteration write    *)
(* budget of common/server_common.cpp and the kernel's send buffer.          *)
(*                                                                           *)
(* Bytes are identified by their position in the stream the server accepted  *)
(* for this client: byte i is the i-th byte of all the messages for which    *)
(* queueOutputCommon was called with room in the queue.  A PendingWrite is   *)
(* the interval of positions it holds and its offset into it; `wire' is what *)
(* send() handed to the kernel.  Both calls return false on failure, and     *)
(* every caller then disconnects the client, which is the status change.     *)
EXTENDS Integers, Sequences

CONSTANTS
  MAX_PENDING_OUTPUT_BYTES,     \* bound on the bytes in outputQueue
  MAX_BYTES_WRITTEN_PER_POLL,   \* write budget of a client per loop iteration
  SocketBuffer,                 \* capacity of the kernel's send buffer
  MaxMessage,                   \* largest message passed to queueOutput
  MaxAccepted                   \* bound of the model: length of the stream

ASSUME OutputConstants ==
  /\ MAX_PENDING_OUTPUT_BYTES \in Nat
  /\ MAX_BYTES_WRITTEN_PER_POLL \in Nat \ {0}
  /\ SocketBuffer \in Nat \ {0}
  /\ MaxMessage \in Nat
  /\ MaxAccepted \in Nat

VARIABLES
  status,       \* "open", or why the owner disconnected the client
  pc,           \* "idle", or "flush" inside flushOutputCommon's loop
  outputQueue, outputQueueSize, writeInterestEnabled,
  budgetIsCurrent,       \* writeBudgetIteration = serverIteration
  writeBudgetRemaining,
  interest,     \* the dispatcher's write interest for this descriptor
  writeEvent,   \* the batch being handled still holds our READY_WRITE
  space,        \* free bytes in the kernel's send buffer
  peerReset,    \* the peer is gone: send() fails
  accepted,     \* bytes accepted so far
  wire,         \* the positions handed to the kernel, in order
  sentNow       \* history: bytes sent in this loop iteration

clientVars == <<outputQueue, outputQueueSize, writeInterestEnabled,
                budgetIsCurrent, writeBudgetRemaining>>
vars == <<status, pc, clientVars, interest, writeEvent, space, peerReset,
          accepted, wire, sentNow>>

Least(a, b) == IF a < b THEN a ELSE b

PendingWrite == [first : Nat, size : Nat, offset : Nat]

Remaining(w) == w.size - w.offset

(* Mutant: the budget is renewed on every call.                              *)
BudgetAlwaysFull == MAX_BYTES_WRITTEN_PER_POLL

(* serverIteration counts up, so a budget not of this iteration is renewed.  *)
Budget == IF budgetIsCurrent THEN writeBudgetRemaining
                             ELSE MAX_BYTES_WRITTEN_PER_POLL

Fits(n) == n <= MAX_PENDING_OUTPUT_BYTES - outputQueueSize

(* Mutant: the fast path overtakes queued bytes.                             *)
FastPathOvertakes(n) == n # 0 /\ Budget # 0

(* A message may skip the queue only if nothing is waiting in it.            *)
FastPath(n) == outputQueue = <<>> /\ n # 0 /\ Budget # 0

(* How much of a message the fast path offers to send().                     *)
FastChunk(n) == Least(n, Budget)

Positions(first, n) == [i \in 1..n |-> first + i - 1]

(* What send(n bytes) may return, n > 0: a prefix if the kernel has room, 0  *)
(* for EAGAIN.  A reset peer is an error, handled by the callers.            *)
SendResults(n) == IF space = 0 THEN {0} ELSE 1..Least(n, space)

Sends(first, k) ==
  /\ wire' = wire \o Positions(first, k)
  /\ space' = space - k
  /\ sentNow' = sentNow + k

CallIsPossible(n) == status = "open" /\ pc = "idle" /\ accepted + n <= MaxAccepted

Close(why) == status' = why /\ pc' = "idle"

QueueOverflow(n) ==
  /\ CallIsPossible(n) /\ ~Fits(n)
  /\ Close("overflow")
  /\ UNCHANGED <<clientVars, interest, writeEvent, space, peerReset, accepted,
                 wire, sentNow>>

QueueSendFails(n) ==
  /\ CallIsPossible(n) /\ Fits(n) /\ FastPath(n) /\ peerReset
  /\ Close("failed")
  /\ budgetIsCurrent' = TRUE /\ writeBudgetRemaining' = Budget
  /\ UNCHANGED <<outputQueue, outputQueueSize, writeInterestEnabled, interest,
                 writeEvent, space, peerReset, accepted, wire, sentNow>>

(* Mutant: the whole message is queued after a partial send.                 *)
PushWhole(n, sent) ==
  IF sent = n
  THEN UNCHANGED <<outputQueue, outputQueueSize>>
  ELSE /\ outputQueue' = Append(outputQueue, [first |-> accepted + 1, size |-> n,
                                              offset |-> 0])
       /\ outputQueueSize' = outputQueueSize + (n - sent)

(* Mutant: outputQueueSize counts the bytes already sent.                    *)
PushMiscounted(n, sent) ==
  IF sent = n
  THEN UNCHANGED <<outputQueue, outputQueueSize>>
  ELSE /\ outputQueue' = Append(outputQueue, [first  |-> accepted + sent + 1,
                                              size   |-> n - sent,
                                              offset |-> 0])
       /\ outputQueueSize' = outputQueueSize + n

(* The bytes the fast path did not send are queued.                          *)
PushRest(n, sent) ==
  IF sent = n
  THEN UNCHANGED <<outputQueue, outputQueueSize>>
  ELSE /\ outputQueue' = Append(outputQueue, [first  |-> accepted + sent + 1,
                                              size   |-> n - sent,
                                              offset |-> 0])
       /\ outputQueueSize' = outputQueueSize + (n - sent)

(* Mutant: a failed setWriteInterest is ignored.                             *)
EnableIgnoresFailure ==
  IF outputQueue' # <<>> /\ ~writeInterestEnabled
  THEN interest' \in BOOLEAN /\ writeInterestEnabled' = TRUE /\ UNCHANGED <<status, pc>>
  ELSE UNCHANGED <<interest, writeInterestEnabled, status, pc>>

(* Write interest is wanted while bytes wait.  setWriteInterest may fail.    *)
EnableInterest ==
  IF outputQueue' # <<>> /\ ~writeInterestEnabled
  THEN \/ interest' = TRUE /\ writeInterestEnabled' = TRUE /\ UNCHANGED <<status, pc>>
       \/ UNCHANGED <<interest, writeInterestEnabled>> /\ Close("failed")
  ELSE UNCHANGED <<interest, writeInterestEnabled, status, pc>>

QueueOutput(n, sent) ==
  /\ CallIsPossible(n) /\ Fits(n)
  /\ IF FastPath(n) THEN ~peerReset /\ sent \in SendResults(FastChunk(n))
                    ELSE sent = 0
  /\ Sends(accepted + 1, sent)
  /\ budgetIsCurrent' = TRUE /\ writeBudgetRemaining' = Budget - sent
  /\ accepted' = accepted + n
  /\ PushRest(n, sent)
  /\ EnableInterest
  /\ UNCHANGED <<writeEvent, peerReset>>

(* handleEvent reaches flushOutput with the READY_WRITE of this batch.       *)
FlushBegin ==
  /\ status = "open" /\ pc = "idle" /\ writeEvent
  /\ pc' = "flush" /\ writeEvent' = FALSE
  /\ budgetIsCurrent' = TRUE /\ writeBudgetRemaining' = Budget
  /\ UNCHANGED <<status, outputQueue, outputQueueSize, writeInterestEnabled,
                 interest, space, peerReset, accepted, wire, sentNow>>

CanFlush == pc = "flush" /\ outputQueue # <<>> /\ writeBudgetRemaining # 0

Front == Head(outputQueue)

(* The queue once k more bytes of its front have been sent.                  *)
Consume(k) ==
  IF k = Remaining(Front) THEN Tail(outputQueue)
  ELSE [outputQueue EXCEPT ![1].offset = @ + k]

FlushSend(k) ==
  /\ CanFlush /\ ~peerReset /\ k > 0
  /\ k \in SendResults(Least(Remaining(Front), writeBudgetRemaining))
  /\ Sends(Front.first + Front.offset, k)
  /\ outputQueue' = Consume(k)
  /\ outputQueueSize' = outputQueueSize - k
  /\ writeBudgetRemaining' = writeBudgetRemaining - k
  /\ UNCHANGED <<status, pc, writeInterestEnabled, budgetIsCurrent, interest,
                 writeEvent, peerReset, accepted>>

FlushSendFails ==
  /\ CanFlush /\ peerReset
  /\ Close("failed")
  /\ UNCHANGED <<clientVars, interest, writeEvent, space, peerReset, accepted,
                 wire, sentNow>>

(* Mutant: interest is dropped although bytes still wait.                    *)
DisableEarly ==
  /\ interest' = FALSE /\ writeInterestEnabled' = FALSE
  /\ pc' = "idle" /\ UNCHANGED status

(* An empty queue needs no write interest.  setWriteInterest may fail.       *)
DisableInterest ==
  IF outputQueue = <<>> /\ writeInterestEnabled
  THEN \/ interest' = FALSE /\ writeInterestEnabled' = FALSE
          /\ pc' = "idle" /\ UNCHANGED status
       \/ UNCHANGED <<interest, writeInterestEnabled>> /\ Close("failed")
  ELSE pc' = "idle" /\ UNCHANGED <<status, interest, writeInterestEnabled>>

(* The loop ends: queue empty, budget spent, or EAGAIN.                      *)
FlushEnd ==
  /\ pc = "flush"
  /\ ~CanFlush \/ (~peerReset /\ space = 0)
  /\ DisableInterest
  /\ UNCHANGED <<outputQueue, outputQueueSize, budgetIsCurrent, writeBudgetRemaining,
                 writeEvent, space, peerReset, accepted, wire, sentNow>>

WriteReady == interest /\ (space > 0 \/ peerReset)

(* dispatcher.wait returned and beginServerIteration ran; level-triggered, so *)
(* our READY_WRITE is in the batch exactly if the descriptor is write ready.  *)
NewIteration ==
  /\ status = "open" /\ pc = "idle" /\ ~writeEvent
  /\ writeEvent' = WriteReady
  /\ budgetIsCurrent' = FALSE /\ sentNow' = 0
  /\ UNCHANGED <<status, pc, outputQueue, outputQueueSize, writeInterestEnabled,
                 writeBudgetRemaining, interest, space, peerReset, accepted, wire>>

WaitReportsWrite == WriteReady /\ NewIteration

(* The iteration is for other descriptors.                                   *)
WaitReportsOthers == ~WriteReady /\ NewIteration

(* The peer takes bytes out of the socket buffer, at any moment.             *)
PeerReads(k) ==
  /\ status = "open" /\ ~peerReset /\ space + k <= SocketBuffer
  /\ space' = space + k
  /\ UNCHANGED <<status, pc, clientVars, interest, writeEvent, peerReset,
                 accepted, wire, sentNow>>

PeerResets ==
  /\ status = "open" /\ ~peerReset
  /\ peerReset' = TRUE
  /\ UNCHANGED <<status, pc, clientVars, interest, writeEvent, space, accepted,
                 wire, sentNow>>

Init ==
  /\ status = "open" /\ pc = "idle"
  /\ outputQueue = <<>> /\ outputQueueSize = 0 /\ writeInterestEnabled = FALSE
  /\ budgetIsCurrent = FALSE /\ writeBudgetRemaining = 0
  /\ interest = FALSE /\ writeEvent = FALSE
  /\ space = SocketBuffer /\ peerReset = FALSE
  /\ accepted = 0 /\ wire = <<>> /\ sentNow = 0

Next ==
  \/ \E n \in 0..MaxMessage :
       \/ QueueOverflow(n)
       \/ QueueSendFails(n)
       \/ \E sent \in 0..n : QueueOutput(n, sent)
  \/ FlushBegin \/ FlushSendFails \/ FlushEnd
  \/ \E k \in 1..SocketBuffer : FlushSend(k) \/ PeerReads(k)
  \/ WaitReportsWrite \/ WaitReportsOthers
  \/ PeerResets

Spec == Init /\ [][Next]_vars

(* The loop keeps running: a write-ready descriptor is reported and its event *)
(* handled.  A peer that keeps reading makes room in a full buffer.           *)
Fairness ==
  /\ WF_vars(WaitReportsWrite)
  /\ WF_vars(FlushBegin)
  /\ WF_vars(\E k \in 1..SocketBuffer : FlushSend(k))
  /\ WF_vars(FlushSendFails)
  /\ WF_vars(FlushEnd)
  /\ WF_vars(space = 0 /\ \E k \in 1..SocketBuffer : PeerReads(k))

FairSpec == Spec /\ Fairness

-----------------------------------------------------------------------------

(* Every variable has the type of the code's field it models.                *)
TypeOK ==
  /\ status \in {"open", "overflow", "failed"}
  /\ pc \in {"idle", "flush"}
  /\ outputQueue \in Seq(PendingWrite)
  /\ outputQueueSize \in Nat
  /\ writeInterestEnabled \in BOOLEAN /\ interest \in BOOLEAN
  /\ budgetIsCurrent \in BOOLEAN
  /\ writeBudgetRemaining \in 0..MAX_BYTES_WRITTEN_PER_POLL
  /\ writeEvent \in BOOLEAN /\ peerReset \in BOOLEAN
  /\ space \in 0..SocketBuffer
  /\ accepted \in 0..MaxAccepted
  /\ wire \in Seq(Nat)
  /\ sentNow \in Nat

(* The client receives the stream as accepted: no byte lost, repeated or     *)
(* overtaken, whichever of the fast path and the queue carried it.           *)
WireInOrder == \A i \in 1..Len(wire) : wire[i] = i

(* q holds the bytes sent+1 .. total as a chain of non-empty intervals, of   *)
(* which only the first is partly sent.                                      *)
Chain(q, sent, total) ==
  /\ q = <<>> => sent = total
  /\ q # <<>> => /\ q[1].first + q[1].offset = sent + 1
                 /\ q[Len(q)].first + q[Len(q)].size = total + 1
  /\ \A i \in 1..Len(q) :
       /\ Remaining(q[i]) > 0
       /\ q[i].first + q[i].size <= total + 1
       /\ i > 1 => q[i].offset = 0
       /\ i < Len(q) => q[i + 1].first = q[i].first + q[i].size

(* The queue holds exactly the accepted bytes that were not sent, in order.  *)
QueueHoldsTheRest == Chain(outputQueue, Len(wire), accepted)

(* outputQueueSize is the number of bytes waiting, and stays in its bound    *)
(* although it is kept by increments in two functions.                       *)
SizeIsExact ==
  /\ outputQueueSize = accepted - Len(wire)
  /\ outputQueueSize <= MAX_PENDING_OUTPUT_BYTES

(* Between calls, the flag and the dispatcher agree, and write readiness is  *)
(* asked for exactly while bytes wait: no lost wakeup, no busy loop.         *)
InterestIffPending ==
  status = "open" =>
    /\ interest = writeInterestEnabled
    /\ pc = "idle" => (interest <=> outputQueue # <<>>)
    /\ outputQueue # <<>> => interest

(* One iteration of the loop sends a client at most the write budget, fast   *)
(* path and flush together.                                                  *)
BudgetRespected ==
  /\ sentNow <= MAX_BYTES_WRITTEN_PER_POLL
  /\ budgetIsCurrent => sentNow + writeBudgetRemaining = MAX_BYTES_WRITTEN_PER_POLL
  /\ ~budgetIsCurrent => sentNow = 0
  /\ pc = "flush" => budgetIsCurrent

(* An accepted byte is sent or the client is disconnected.                   *)
AcceptedIsSent ==
  \A i \in 1..MaxAccepted : accepted >= i ~> (Len(wire) >= i \/ status # "open")

=============================================================================
