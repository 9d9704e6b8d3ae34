----------------------------- MODULE LoadWorker -----------------------------
(* A worker process of the benchmark (bench/benchmark.py, run_phase and what *)
(* it calls): it offers operations on a schedule, sends those it can, and    *)
(* pairs what the server answers with what it sent.                          *)
(*                                                                           *)
(* Time is counted in ticks from the start of a phase.  A frame and a line   *)
(* are units; a message carries the request it is about, which the code only *)
(* sees of broadcast messages.  One worker has all connections.              *)
EXTENDS Integers, Sequences, FiniteSets

CONSTANTS
  Total,        \* connections
  Active,       \* of them, the first Active ones send
  Second,       \* ticks
  Rate,         \* operations per second
  Duration,     \* ticks
  Drain,        \* ticks
  Quiet,        \* ticks without deliveries that end the drain
  StartDelay,   \* ticks
  MaxLate,      \* latest start of a worker, in ticks
  MaxOverdue,   \* max_overdue_sends
  MaxLag,       \* max_offer_lag_ms
  MaxQueue,     \* MAX_CLIENT_SEND_QUEUE, in frames
  Phases        \* phases of a trial

ASSUME LoadConstants ==
  /\ {Total, Active, Second, Rate, MaxOverdue, MaxQueue, Phases} \subseteq Nat \ {0}
  /\ {Duration, Drain, Quiet, StartDelay, MaxLate, MaxLag} \subseteq Nat
  /\ Active <= Total

VARIABLES
  workload,     \* "direct" or "broadcast"
  phase,        \* number of the phase
  pc,           \* "blocked", "starting", "offering", "serving", "draining"
  now,
  schedule,     \* heap of [at, seq, client]
  due,          \* what due_offers returned and is not handled yet
  drainEnd, quietSince,
  sendBuffer,   \* client -> frames not sent yet
  pending,      \* client -> requests not answered yet
  closed,       \* client -> BOOLEAN
  state,        \* the counters of the phase
  toServer, fromServer,   \* client -> messages in flight
  broken,       \* clients the server has disconnected
  tried,        \* history: sequence numbers offered in the phase
  served,       \* history: requests of the phase that the server has handled
  mispaired,    \* history: a response was paired with another request
  leftover      \* history: a phase ended with messages in flight

workerVars == <<workload, phase, pc, now, schedule, due, drainEnd, quietSince>>
clientVars == <<sendBuffer, pending, closed>>
netVars == <<toServer, fromServer, broken>>
history == <<tried, served, mispaired, leftover>>
vars == <<workerVars, clientVars, state, netVars, history>>

Clients == 0 .. Total - 1
NoMessages == [c \in Clients |-> << >>]

(* target_offers *)
Target == (Rate * Duration) \div Second
Period == (Second * Active) \div Rate

-----------------------------------------------------------------------------
(* Offers.                                                                   *)

empty_state == [offered |-> 0, sent |-> 0, missed |-> 0, completed |-> 0, deliveries |-> 0]

schedule_for_clients ==
  {[at |-> (c * Second) \div Rate, seq |-> c, client |-> c] :
     c \in {x \in Clients : x < Active /\ x < Target}}

(* Order of the heap.                                                        *)
Before(d, e) == d.at < e.at \/ (d.at = e.at /\ d.seq < e.seq)

due_offers ==
  {e \in schedule : e.at <= now /\ Cardinality({d \in schedule : Before(d, e)}) < MaxOverdue}

(* Mutant: the entry itself is not counted.                                  *)
remainingAfter(e) == (Target - 1 - e.seq) \div Active

(* How many of an entry's client are left after the deadline.                *)
remaining(e) == 1 + (Target - 1 - e.seq) \div Active

(* A group of so many of each entry, the size of which is their sum.         *)
Rest == UNION {{e} \X (1 .. remaining(e)) : e \in {x \in schedule : x.at < Duration}}

(* Mutant: the frame itself is not counted.                                  *)
MissedLater(e) == e.late \/ closed[e.client] \/ Len(sendBuffer[e.client]) > MaxQueue

(* Whether an offer is only counted.                                         *)
Missed(e) == e.late \/ closed[e.client] \/ Len(sendBuffer[e.client]) >= MaxQueue

(* What a client can have sent after flush_client_send: all, or what the     *)
(* socket takes.  An error drops the rest.                                   *)
Flush(c, buffer, request) ==
  /\ pending' = [pending EXCEPT ![c] = @ \o request]
  /\ IF c \in broken
       THEN sendBuffer' = [sendBuffer EXCEPT ![c] = << >>] /\ UNCHANGED toServer
       ELSE \E n \in 0 .. Len(buffer) :
              /\ sendBuffer' = [sendBuffer EXCEPT ![c] = SubSeq(buffer, n + 1, Len(buffer))]
              /\ toServer' = [toServer EXCEPT ![c] = @ \o SubSeq(buffer, 1, n)]

Request(e) == [phase |-> phase, client |-> e.client, seq |-> e.seq]

(* queue_client_frame                                                        *)
Send(e) ==
  /\ Flush(e.client, Append(sendBuffer[e.client], Request(e)),
           IF workload = "direct" THEN <<Request(e)>> ELSE << >>)
  /\ state' = [state EXCEPT !.offered = @ + 1, !.sent = @ + 1]

(* The loop asks the heap what is due.                                       *)
TakeDue ==
  /\ pc = "offering" /\ due = {} /\ now < Duration
  /\ due_offers # {}
  /\ due' = {[at |-> e.at, seq |-> e.seq, client |-> e.client, late |-> now - e.at > MaxLag] :
               e \in due_offers}
  /\ schedule' = schedule \ due_offers
  /\ UNCHANGED <<workload, phase, pc, now, drainEnd, quietSince, clientVars, state, netVars,
                 history>>

NextOffer(e) ==
  IF e.seq + Active < Target
    THEN {[at |-> e.at + Period, seq |-> e.seq + Active, client |-> e.client]}
    ELSE {}

(* One of the due offers, in order.                                          *)
Offer(e) ==
  /\ pc = "offering" /\ e \in due /\ \A d \in due \ {e} : Before(e, d)
  /\ due' = due \ {e}
  /\ pc' = IF due' = {} THEN "serving" ELSE pc
  /\ schedule' = schedule \cup NextOffer(e)
  /\ tried' = tried \cup {e.seq}
  /\ IF Missed(e)
       THEN /\ state' = [state EXCEPT !.offered = @ + 1, !.missed = @ + 1]
            /\ UNCHANGED <<clientVars, toServer>>
       ELSE Send(e) /\ UNCHANGED closed
  /\ UNCHANGED <<workload, phase, now, drainEnd, quietSince, fromServer, broken, served, mispaired,
                 leftover>>

NothingDue ==
  /\ pc = "offering" /\ due = {} /\ now < Duration /\ due_offers = {}
  /\ pc' = "serving"
  /\ UNCHANGED <<workload, phase, now, schedule, due, drainEnd, quietSince, clientVars, state,
                 netVars, history>>

Served ==
  /\ pc = "serving"
  /\ pc' = "offering"
  /\ UNCHANGED <<workload, phase, now, schedule, due, drainEnd, quietSince, clientVars, state,
                 netVars, history>>

(* After the deadline, what is left of the schedule counts as missed.        *)
CountRest ==
  /\ pc = "offering" /\ due = {} /\ now >= Duration
  /\ state' = [state EXCEPT !.offered = @ + Cardinality(Rest), !.missed = @ + Cardinality(Rest)]
  /\ pc' = "draining"
  /\ drainEnd' = now + Drain
  /\ quietSince' = now
  /\ UNCHANGED <<workload, phase, now, schedule, due, clientVars, netVars, history>>

-----------------------------------------------------------------------------
(* service_events                                                            *)

Serving == pc \in {"starting", "serving", "draining"}

(* Mutant: the request sent last is taken.                                   *)
AnsweredLast(c) ==
  IF pending[c] = << >> THEN UNCHANGED <<state, pending, mispaired>>
  ELSE /\ pending' = [pending EXCEPT ![c] = SubSeq(@, 1, Len(@) - 1)]
       /\ state' = [state EXCEPT !.deliveries = @ + 1, !.completed = @ + 1]
       /\ mispaired' = (mispaired \/ pending[c][Len(pending[c])] # Head(fromServer[c]))

(* A line of a direct workload answers the oldest request, if there is one.  *)
Answered(c) ==
  IF pending[c] = << >> THEN UNCHANGED <<state, pending, mispaired>>
  ELSE /\ pending' = [pending EXCEPT ![c] = Tail(@)]
       /\ state' = [state EXCEPT !.deliveries = @ + 1, !.completed = @ + 1]
       /\ mispaired' = (mispaired \/ Head(pending[c]) # Head(fromServer[c]))

(* Mutant: messages of an earlier phase are counted.                         *)
DeliveredAny(c) ==
  LET m == Head(fromServer[c]) IN
  /\ state' = [state EXCEPT !.deliveries = @ + 1,
                            !.completed = IF c = (m.client + 1) % Total THEN @ + 1 ELSE @]
  /\ UNCHANGED <<pending, mispaired>>

(* A broadcast message carries the token of its phase, and completes at the  *)
(* client after its sender.                                                  *)
Delivered(c) ==
  LET m == Head(fromServer[c]) IN
  /\ state' = IF m.phase # phase THEN state
              ELSE [state EXCEPT !.deliveries = @ + 1,
                                 !.completed = IF c = (m.client + 1) % Total THEN @ + 1 ELSE @]
  /\ UNCHANGED <<pending, mispaired>>

(* A line, in process_client_read.                                           *)
ReadLine(c) ==
  /\ Serving /\ ~closed[c] /\ fromServer[c] # << >>
  /\ IF workload = "direct" THEN Answered(c) ELSE Delivered(c)
  /\ fromServer' = [fromServer EXCEPT ![c] = Tail(@)]
  /\ quietSince' = IF pc = "draining" /\ state' # state THEN now ELSE quietSince
  /\ UNCHANGED <<workload, phase, pc, now, schedule, due, drainEnd, sendBuffer, closed, toServer,
                 broken, tried, served, leftover>>

(* End of file, after what was sent before, or an error at any moment.       *)
ReadEnds(c) ==
  /\ Serving /\ ~closed[c] /\ c \in broken
  /\ closed' = [closed EXCEPT ![c] = TRUE]
  /\ UNCHANGED <<workerVars, sendBuffer, pending, state, netVars, history>>

FlushClient(c) ==
  /\ Serving /\ ~closed[c] /\ sendBuffer[c] # << >>
  /\ Flush(c, sendBuffer[c], << >>)
  /\ UNCHANGED <<workerVars, closed, state, fromServer, broken, history>>

-----------------------------------------------------------------------------
(* Phases.                                                                   *)

(* The worker is told of a phase before its start, or too late.              *)
BeginPhase ==
  /\ pc = "blocked" /\ phase < Phases
  /\ phase' = phase + 1
  /\ pc' = "starting"
  /\ now' \in (-StartDelay) .. MaxLate
  /\ state' = empty_state
  /\ tried' = {} /\ served' = {}
  /\ UNCHANGED <<workload, schedule, due, drainEnd, quietSince, clientVars, netVars, mispaired,
                 leftover>>

StartOffering ==
  /\ pc = "starting" /\ now >= 0
  /\ pc' = "offering"
  /\ schedule' = schedule_for_clients
  /\ UNCHANGED <<workload, phase, now, due, drainEnd, quietSince, clientVars, state, netVars,
                 history>>

QueuesEmpty == \A c \in Clients : pending[c] = << >> /\ sendBuffer[c] = << >>

(* The result is sent, and the worker waits for the next command.            *)
EndPhase ==
  /\ pc = "draining"
  /\ now >= drainEnd \/ (QueuesEmpty /\ now - quietSince >= Quiet)
  /\ pc' = "blocked"
  /\ pending' = NoMessages
  /\ schedule' = {}
  /\ leftover' = (leftover \/ \E c \in Clients : sendBuffer[c] \o toServer[c] \o fromServer[c]
                                                   # << >>)
  /\ UNCHANGED <<workload, phase, now, due, drainEnd, quietSince, sendBuffer, closed, state,
                 netVars, tried, served, mispaired>>

Tick ==
  /\ pc # "blocked"
  /\ IF pc = "draining" THEN now < drainEnd ELSE now < Duration
  /\ now' = now + 1
  /\ UNCHANGED <<workload, phase, pc, schedule, due, drainEnd, quietSince, clientVars, state,
                 netVars, history>>

(* The server takes a request: WHERE is answered, a message is delivered to  *)
(* everybody else.                                                           *)
ServerHandles(c) ==
  /\ toServer[c] # << >>
  /\ toServer' = [toServer EXCEPT ![c] = Tail(@)]
  /\ fromServer' =
       [d \in Clients |->
          IF d \notin broken /\ (d = c <=> workload = "direct")
            THEN Append(fromServer[d], Head(toServer[c]))
            ELSE fromServer[d]]
  /\ served' = served \cup {r \in {Head(toServer[c])} : r.phase = phase}
  /\ UNCHANGED <<workerVars, clientVars, state, broken, tried, mispaired, leftover>>

ServerDisconnects(c) ==
  /\ c \notin broken
  /\ broken' = broken \cup {c}
  /\ toServer' = [toServer EXCEPT ![c] = << >>]
  /\ UNCHANGED <<workerVars, clientVars, state, fromServer, history>>

Init ==
  /\ workload \in {"direct", "broadcast"}
  /\ workload = "broadcast" => Total > 1
  /\ phase = 0 /\ pc = "blocked" /\ now = 0
  /\ schedule = {} /\ due = {} /\ drainEnd = 0 /\ quietSince = 0
  /\ sendBuffer = NoMessages /\ pending = NoMessages
  /\ closed = [c \in Clients |-> FALSE]
  /\ state = empty_state
  /\ toServer = NoMessages /\ fromServer = NoMessages /\ broken = {}
  /\ tried = {} /\ served = {} /\ mispaired = FALSE /\ leftover = FALSE

Next ==
  \/ BeginPhase \/ StartOffering \/ TakeDue \/ NothingDue \/ Served \/ CountRest \/ EndPhase
  \/ Tick
  \/ \E e \in due : Offer(e)
  \/ \E c \in Clients :
       \/ ReadLine(c) \/ ReadEnds(c) \/ FlushClient(c)
       \/ ServerHandles(c) \/ ServerDisconnects(c)

Spec == Init /\ [][Next]_vars

-----------------------------------------------------------------------------

(* The queues hold requests of their client and keep to the limit, and the   *)
(* heap has at most one entry of each client.                                *)
TypeOK ==
  /\ pc \in {"blocked", "starting", "offering", "serving", "draining"}
  /\ \A c \in Clients :
       /\ Len(sendBuffer[c]) <= MaxQueue
       /\ \A i \in 1 .. Len(sendBuffer[c]) : sendBuffer[c][i].client = c
       /\ \A i \in 1 .. Len(pending[c]) : pending[c][i].client = c
  /\ \A d, e \in schedule \cup due : d.client = e.client => d.seq = e.seq

(* Every operation of the phase is offered once, and is sent or missed: at   *)
(* any moment, and in the end all of them, however late the worker was and   *)
(* whichever clients were closed.                                            *)
OffersAddUp ==
  /\ state.offered = state.sent + state.missed
  /\ tried \subseteq 0 .. Target - 1
  /\ pc \in {"starting", "offering", "serving"} => state.offered = Cardinality(tried)
  /\ pc = "draining" => state.offered = Target

(* Latencies are of the right requests, unless an earlier phase was left     *)
(* with requests the server still answers.                                   *)
PairedIfDrained == mispaired => leftover

(* A delivery ratio of one is honest: the server has handled all that was    *)
(* sent in the phase, however connections were lost and buffers dropped,     *)
(* unless an earlier phase left requests behind.                             *)
RatioIsHonest ==
  pc # "blocked" /\ (workload = "broadcast" \/ ~leftover)
    /\ state.deliveries = state.sent * (IF workload = "broadcast" THEN Total - 1 ELSE 1)
    => Cardinality(served) = state.sent

(* The places of the requests that are not answered yet.                     *)
Outstanding == UNION {{c} \X (1 .. Len(pending[c])) : c \in Clients}

(* What is counted was caused by what this phase has sent: each operation    *)
(* completes once, and is delivered once per receiver; what is not completed *)
(* of a direct workload waits at its client.                                 *)
CountsAreOfThisPhase ==
  /\ state.completed <= state.sent
  /\ state.deliveries <= state.sent * (IF workload = "broadcast" THEN Total - 1 ELSE 1)
  /\ workload = "direct" /\ pc \in {"offering", "serving", "draining"}
       => state.sent = state.completed + Cardinality(Outstanding)

=============================================================================
