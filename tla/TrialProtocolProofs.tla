------------------------- MODULE TrialProtocolProofs -------------------------
(* Proofs about the controller of a trial, for any number of workers.        *)
EXTENDS TrialProtocol, SequenceTheorems, TLAPS

LEMMA OneMessage ==
  ASSUME NEW m
  PROVE  /\ Append(<< >>, m) = <<m>> /\ <<m>> # << >>
         /\ Head(<<m>>) = m /\ Tail(<<m>>) = << >>
OBVIOUS

LEMMA TwoMessages ==
  ASSUME NEW m, NEW n
  PROVE  /\ Head(Append(<<m>>, n)) = m /\ Tail(Append(<<m>>, n)) = <<n>>
         /\ Append(<<m>>, n) # << >>
<1>1. <<m>> \in Seq({m, n}) /\ <<m>> # << >>
  OBVIOUS
<1>2. Append(<<m>>, n) # << >>
  BY <1>1, AppendProperties
<1>3. /\ Head(Append(<<m>>, n)) = Head(<<m>>)
      /\ Tail(Append(<<m>>, n)) = Append(Tail(<<m>>), n)
  BY <1>1, HeadTailAppend
<1> QED BY <1>2, <1>3, OneMessage

-----------------------------------------------------------------------------
(* What a worker may be doing, and what may be in its pipes, while the       *)
(* controller waits for it or not.                                           *)

Error == Message("error")

Silent(w) ==
  \/ toController[w] = << >>
  \/ toController[w] = <<Error>> /\ worker[w] = "exited"

HasAnswered(w, m) ==
  \/ toController[w] = <<m>>
  \/ toController[w] = Append(<<m>>, Error) /\ worker[w] = "exited"

In(w, place) == worker[w] \in {place, "exited"}

Waits(w, place) == toWorker[w] = << >> /\ In(w, place) /\ Silent(w)

Told(w, place, m) == toWorker[w] = <<m>> /\ In(w, place) /\ Silent(w)

Answered(w, place, m) == toWorker[w] = << >> /\ In(w, place) /\ HasAnswered(w, m)

NotStarted(w) ==
  worker[w] = "not started" /\ toWorker[w] = << >> /\ toController[w] = << >>

OwesConnected(w) ==
  Waits(w, "connecting") \/ Answered(w, "connected", Message("connected"))

OwesReady(w) ==
  Told(w, "connected", Message("setup_complete")) \/ Answered(w, "blocked", Message("ready"))

OwesResult(w, p) ==
  \/ Told(w, "blocked", Phase(p))
  \/ Waits(w, "running") /\ (worker[w] = "running" => running[w] = p)
  \/ \E d \in BOOLEAN : Answered(w, "blocked", Result(p, d))

PipesTyped ==
  /\ worker \in [Workers -> {"not started", "connecting", "connected", "blocked", "running",
                             "exited"}]
  /\ DOMAIN running = Workers /\ DOMAIN toWorker = Workers /\ DOMAIN toController = Workers
  /\ running = [w \in Workers |-> running[w]]
  /\ toWorker = [w \in Workers |-> toWorker[w]]
  /\ toController = [w \in Workers |-> toController[w]]

-----------------------------------------------------------------------------
(* Steps of the workers.                                                     *)

WorkerStep(w) ==
  \/ Connected(w) \/ SetupComplete(w) \/ StartsPhase(w) \/ Reports(w) \/ Closes(w)
  \/ Fails(w) \/ Killed(w)

LEMMA WorkerStepIsLocal ==
  ASSUME PipesTyped, NEW w \in Workers, WorkerStep(w)
  PROVE  /\ PipesTyped'
         /\ UNCHANGED <<controllerVars, serverVars>>
         /\ Alive(w) /\ worker'[w] # "not started"
         /\ \A v \in Workers \ {w} :
              /\ worker'[v] = worker[v] /\ running'[v] = running[v]
              /\ toWorker'[v] = toWorker[v] /\ toController'[v] = toController[v]
<1> USE DEF PipesTyped, WorkerStep, Alive, Becomes, Sends, Takes, pipes, workerVars
<1>1. CASE Connected(w) BY <1>1 DEF Connected
<1>2. CASE SetupComplete(w) BY <1>2 DEF SetupComplete
<1>3. CASE StartsPhase(w) BY <1>3 DEF StartsPhase
<1>4. CASE Reports(w) BY <1>4 DEF Reports
<1>5. CASE Closes(w) BY <1>5 DEF Closes
<1>6. CASE Fails(w) BY <1>6 DEF Fails
<1>7. CASE Killed(w) BY <1>7 DEF Killed
<1> QED BY <1>1, <1>2, <1>3, <1>4, <1>5, <1>6, <1>7

LEMMA StillWaits ==
  ASSUME PipesTyped, NEW w \in Workers, WorkerStep(w),
         NEW place \in {"connected", "blocked"}, Waits(w, place)
  PROVE  Waits(w, place)'
<1> USE OneMessage DEF PipesTyped, WorkerStep, Alive, Becomes, Sends, Takes, pipes, workerVars,
        Waits, In, Silent, Error, Message
<1>1. CASE Connected(w) BY <1>1 DEF Connected
<1>2. CASE SetupComplete(w) BY <1>2 DEF SetupComplete
<1>3. CASE StartsPhase(w) BY <1>3 DEF StartsPhase
<1>4. CASE Reports(w) BY <1>4 DEF Reports
<1>5. CASE Closes(w) BY <1>5 DEF Closes
<1>6. CASE Fails(w) BY <1>6 DEF Fails
<1>7. CASE Killed(w) BY <1>7 DEF Killed
<1> QED BY <1>1, <1>2, <1>3, <1>4, <1>5, <1>6, <1>7

LEMMA StillOwesConnected ==
  ASSUME PipesTyped, NEW w \in Workers, WorkerStep(w), OwesConnected(w)
  PROVE  OwesConnected(w)'
<1> USE OneMessage, TwoMessages
    DEF PipesTyped, WorkerStep, Alive, Becomes, Sends, Takes, pipes, workerVars,
        OwesConnected, Waits, Answered, In, Silent, HasAnswered, Error
<1>1. CASE Connected(w) BY <1>1 DEF Connected
<1>2. CASE SetupComplete(w) BY <1>2 DEF SetupComplete
<1>3. CASE StartsPhase(w) BY <1>3 DEF StartsPhase
<1>4. CASE Reports(w) BY <1>4 DEF Reports
<1>5. CASE Closes(w) BY <1>5 DEF Closes
<1>6. CASE Fails(w) BY <1>6 DEF Fails
<1>7. CASE Killed(w) BY <1>7 DEF Killed
<1> QED BY <1>1, <1>2, <1>3, <1>4, <1>5, <1>6, <1>7

LEMMA StillOwesReady ==
  ASSUME PipesTyped, NEW w \in Workers, WorkerStep(w), OwesReady(w)
  PROVE  OwesReady(w)'
<1> USE OneMessage, TwoMessages
    DEF PipesTyped, WorkerStep, Alive, Becomes, Sends, Takes, pipes, workerVars,
        OwesReady, Told, Answered, In, Silent, HasAnswered, Error
<1>1. CASE Connected(w) BY <1>1 DEF Connected
<1>2. CASE SetupComplete(w) BY <1>2 DEF SetupComplete
<1>3. CASE StartsPhase(w) BY <1>3 DEF StartsPhase, Message
<1>4. CASE Reports(w) BY <1>4 DEF Reports
<1>5. CASE Closes(w) BY <1>5 DEF Closes, Message
<1>6. CASE Fails(w) BY <1>6 DEF Fails
<1>7. CASE Killed(w) BY <1>7 DEF Killed
<1> QED BY <1>1, <1>2, <1>3, <1>4, <1>5, <1>6, <1>7

LEMMA StillOwesResult ==
  ASSUME PipesTyped, NEW w \in Workers, WorkerStep(w), NEW p, OwesResult(w, p)
  PROVE  OwesResult(w, p)'
<1> USE OneMessage, TwoMessages
    DEF PipesTyped, WorkerStep, Alive, Becomes, Sends, Takes, pipes, workerVars,
        OwesResult, Told, Waits, Answered, In, Silent, HasAnswered, Error
<1>1. CASE Connected(w) BY <1>1 DEF Connected
<1>2. CASE SetupComplete(w) BY <1>2 DEF SetupComplete, Phase
<1>3. CASE StartsPhase(w)
  <2>1. worker[w] = "blocked" /\ toWorker[w] # << >>
    BY <1>3 DEF StartsPhase
  <2>2. Told(w, "blocked", Phase(p))
    BY <2>1
  <2>3. Head(toWorker[w]) = Phase(p) /\ Tail(toWorker[w]) = << >>
    BY <2>2
  <2>4. Phase(p).phase = p
    BY DEF Phase
  <2>5. /\ worker' = [worker EXCEPT ![w] = "running"]
        /\ running' = [running EXCEPT ![w] = p]
        /\ toWorker' = [toWorker EXCEPT ![w] = << >>]
        /\ toController' = toController
    BY <1>3, <2>3, <2>4 DEF StartsPhase
  <2> QED BY <2>1, <2>2, <2>5
<1>4. CASE Reports(w)
  <2>1. /\ worker[w] = "running" /\ worker'[w] = "blocked" /\ toWorker' = toWorker
        /\ \E d \in BOOLEAN :
             toController'[w] = Append(toController[w], Result(running[w], d))
    BY <1>4 DEF Reports
  <2>2. toWorker[w] = << >> /\ toController[w] = << >> /\ running[w] = p
    BY <2>1
  <2>3. PICK d \in BOOLEAN : toController'[w] = <<Result(p, d)>>
    BY <2>1, <2>2, OneMessage
  <2>4. Answered(w, "blocked", Result(p, d))'
    BY <2>1, <2>2, <2>3
  <2> QED BY <2>4
<1>5. CASE Closes(w) BY <1>5 DEF Closes, Phase
<1>6. CASE Fails(w) BY <1>6 DEF Fails
<1>7. CASE Killed(w) BY <1>7 DEF Killed
<1> QED BY <1>1, <1>2, <1>3, <1>4, <1>5, <1>6, <1>7

-----------------------------------------------------------------------------
(* The inductive invariant.                                                  *)

Served(w) == w < next

(* Where each worker is when the controller is at a step.                    *)
StageOf(w) ==
  /\ step \in {"start server", "prepare"} => NotStarted(w)
  /\ step = "start workers" => IF Served(w) THEN OwesConnected(w) ELSE NotStarted(w)
  /\ step = "record worker" =>
       IF Served(w) \/ w = next THEN OwesConnected(w) ELSE NotStarted(w)
  /\ step = "receive connected" =>
       IF Served(w) THEN Waits(w, "connected") ELSE OwesConnected(w)
  /\ step = "send setup" => Waits(w, "connected")
  /\ step = "receive ready" => IF Served(w) THEN Waits(w, "blocked") ELSE OwesReady(w)
  /\ step \in {"send warmup", "check warmup", "start profiler", "bind profiler",
               "start metrics", "send measured", "merged"}
       => Waits(w, "blocked")
  /\ step = "receive warmup" =>
       IF Served(w) THEN Waits(w, "blocked") ELSE OwesResult(w, Warmup)
  /\ step \in {"measure", "stop metrics", "stop profiler"} => OwesResult(w, Measured)
  /\ step = "receive results" =>
       IF Served(w) THEN Waits(w, "blocked") ELSE OwesResult(w, Measured)
  /\ step = "merged" \/ (step = "receive results" /\ Served(w)) => got[w].phase = Measured

Stage == \A w \in Workers : StageOf(w)

BeforeMetrics ==
  {"start server", "prepare", "start workers", "record worker", "receive connected",
   "send setup", "receive ready", "send warmup",
   "receive warmup", "check warmup", "start profiler", "bind profiler", "start metrics"}
Profiling == {"start profiler", "bind profiler"}
WhileMetrics == {"send measured", "measure", "stop metrics"}
Cleaned == {"close", "join", "stop server", "done"}

(* What the row is made of.                                                  *)
RowInv ==
  /\ next \in Workers
  /\ got = [w \in Workers |-> got[w]]
  /\ state = empty_state \/ \A w \in Workers : state.phases[w] = Measured
  /\ metrics \in BOOLEAN /\ records \in 0 .. 2
  /\ metrics => records = 2
  /\ step \in BeforeMetrics => records = 0 /\ ~metrics
  /\ step \in WhileMetrics => records \in {0, 1} /\ ~metrics
  /\ ~profile => profiler = "none" /\ Profiler \notin recorded /\ step \notin Profiling
  /\ step = "done" => server_crashed \/ server = "stopped"

(* What is left of the processes that are recorded.                          *)
ProfilerEnded == Profiler \in recorded => profiler \in {"none", "exited"}
WorkerEnded(w) == Worker(w) \in recorded => ~Alive(w)
ServerEnded == Server \in recorded => server # "up"

CleanInv ==
  /\ step \in {"start server", "prepare"} => recorded = {} /\ profiler = "none"
  /\ step \in Cleaned => ProfilerEnded
  /\ step = "join" => \A w \in Workers : Served(w) => WorkerEnded(w)
  /\ step \in {"stop server", "done"} => \A w \in Workers : WorkerEnded(w)
  /\ step = "done" => server # "up"
  /\ step = "raised" =>
       \/ Profiler \in recorded /\ profiler = "stuck"
       \/ (\A w \in Workers : WorkerEnded(w)) /\ ServerEnded /\ ProfilerEnded

IInv == PipesTyped /\ Stage /\ RowInv /\ CleanInv

LEMMA SamePlace ==
  ASSUME NEW v, worker'[v] = worker[v], running'[v] = running[v],
         toWorker'[v] = toWorker[v], toController'[v] = toController[v]
  PROVE  /\ \A place : Waits(v, place) => Waits(v, place)'
         /\ NotStarted(v) => NotStarted(v)'
         /\ OwesConnected(v) => OwesConnected(v)'
         /\ OwesReady(v) => OwesReady(v)'
         /\ \A q : OwesResult(v, q) => OwesResult(v, q)'
BY DEF Waits, NotStarted, OwesConnected, OwesReady, OwesResult, Told, Answered, In, Silent,
   HasAnswered

LEMMA WorkersKeepStage ==
  ASSUME IInv, NEW w \in Workers, WorkerStep(w)
  PROVE  Stage'
<1>1. /\ PipesTyped /\ Stage /\ Alive(w)
      /\ step' = step /\ next' = next /\ got' = got
      /\ \A v \in Workers \ {w} :
              /\ worker'[v] = worker[v] /\ running'[v] = running[v]
              /\ toWorker'[v] = toWorker[v] /\ toController'[v] = toController[v]
  BY WorkerStepIsLocal DEF IInv, controllerVars
<1>2. SUFFICES ASSUME NEW v \in Workers
               PROVE  StageOf(v)'
  BY DEF Stage
<1>3. StageOf(v)
  BY <1>1 DEF Stage
<1>4. CASE v # w
  <2>1. /\ \A place : Waits(v, place) => Waits(v, place)'
        /\ NotStarted(v) => NotStarted(v)'
        /\ OwesConnected(v) => OwesConnected(v)'
        /\ OwesReady(v) => OwesReady(v)'
        /\ \A q : OwesResult(v, q) => OwesResult(v, q)'
    BY <1>1, <1>4, SamePlace
  <2> QED BY <1>1, <1>3, <2>1, ZenonT(60) DEF StageOf, Served
<1>5. CASE v = w
  <2>1. /\ Waits(w, "connected") => Waits(w, "connected")'
        /\ Waits(w, "blocked") => Waits(w, "blocked")'
        /\ OwesConnected(w) => OwesConnected(w)'
        /\ OwesReady(w) => OwesReady(w)'
        /\ \A q : OwesResult(w, q) => OwesResult(w, q)'
    BY <1>1, StillWaits, StillOwesConnected, StillOwesReady, StillOwesResult
  <2>2. ~NotStarted(w)
    BY <1>1 DEF NotStarted, Alive
  <2> QED BY <1>1, <1>3, <1>5, <2>1, <2>2, ZenonT(60) DEF StageOf, Served
<1> QED BY <1>4, <1>5

LEMMA WorkersKeep ==
  ASSUME IInv, NEW w \in Workers, WorkerStep(w)
  PROVE  IInv'
<1>1. /\ PipesTyped' /\ UNCHANGED <<controllerVars, serverVars>> /\ Alive(w)
      /\ \A v \in Workers \ {w} : worker'[v] = worker[v]
  BY WorkerStepIsLocal DEF IInv
<1>2. RowInv'
  BY <1>1 DEF IInv, RowInv, controllerVars, serverVars, trialVars, row, modes
<1>3. CleanInv'
  <2>1. \A v \in Workers : ~Alive(v) => ~Alive(v)'
    BY <1>1 DEF Alive
  <2> QED BY <1>1, <2>1 DEF IInv, CleanInv, Served, ProfilerEnded, WorkerEnded, ServerEnded,
          controllerVars, serverVars, trialVars
<1> QED BY <1>1, <1>2, <1>3, WorkersKeepStage DEF IInv

LEMMA FirstWorker == 1 \in Workers /\ \A w \in Workers : w \in Int /\ ~(w < 1)
BY TrialConstants DEF Workers

LEMMA IInvInit == Init => IInv
<1> SUFFICES ASSUME Init PROVE IInv
  OBVIOUS
<1>1. PipesTyped
  BY DEF Init, PipesTyped
<1>2. step = "start server" /\ next = 1
  BY Zenon DEF Init
<1>3. next \in Workers
  BY <1>2, FirstWorker
<1>8. \A w \in Workers : ~Served(w)
  BY <1>2, FirstWorker DEF Served
<1>4. \A w \in Workers : NotStarted(w)
  <2>1. /\ worker = [w \in Workers |-> "not started"]
        /\ toWorker = [w \in Workers |-> << >>] /\ toController = [w \in Workers |-> << >>]
    BY Zenon DEF Init
  <2> QED BY <2>1 DEF NotStarted
<1>6. Stage
  BY <1>2, <1>4, <1>8 DEF Stage, StageOf
<1>7. RowInv
  <2>1. got = NoResults /\ state = empty_state
    BY Zenon DEF Init
  <2>2. metrics = FALSE
    BY Zenon DEF Init
  <2>3. records = 0 /\ profiler = "none" /\ recorded = {}
    BY Zenon DEF Init
  <2>4. got = [w \in Workers |-> got[w]]
    BY <2>1, Zenon DEF NoResults
  <2>5. records \in 0 .. 2
    BY <2>3
  <2>7. metrics \in BOOLEAN /\ ~metrics
    BY <2>2, Zenon
  <2>6. step \notin WhileMetrics /\ step # "done" /\ step \notin Profiling
    BY <1>2 DEF WhileMetrics, Profiling
  <2> QED BY Zenon, <1>3, <2>1, <2>3, <2>4, <2>5, <2>6, <2>7 DEF RowInv
<1>5. CleanInv
  BY DEF Init, CleanInv, Cleaned
<1> QED BY <1>1, <1>5, <1>6, <1>7 DEF IInv

-----------------------------------------------------------------------------
(* Steps of the controller.                                                  *)

LEMMA NextWorker ==
  ASSUME next \in Workers, NEW s, NextWorkerOr(s)
  PROVE  /\ next' \in Workers /\ ~Served(next)
         /\ \/ /\ step' = step
               /\ \A w \in Workers : Served(w)' <=> (Served(w) \/ w = next)
            \/ /\ step' = s
               /\ \A w \in Workers : (Served(w) \/ w = next) /\ ~Served(w)'
BY TrialConstants DEF NextWorkerOr, Goto, Workers, Served

(* The turn passes to the next worker, or back to the first.                 *)
LEMMA Turn ==
  ASSUME next \in Workers, next' = IF next + 1 \in Workers THEN next + 1 ELSE 1
  PROVE  /\ next' \in Workers /\ ~Served(next)
         /\ next + 1 \in Workers => \A w \in Workers : Served(w)' <=> (Served(w) \/ w = next)
         /\ next + 1 \notin Workers => \A w \in Workers : (Served(w) \/ w = next) /\ ~Served(w)'
BY TrialConstants DEF Workers, Served

LEMMA FirstServed ==
  ASSUME next' = 1
  PROVE  next' \in Workers /\ \A w \in Workers : ~Served(w)'
BY FirstWorker DEF Served

LEMMA RowKeeps ==
  ASSUME RowInv, next' \in Workers, got' = [w \in Workers |-> got'[w]],
         UNCHANGED <<state, profile, metrics, server_crashed, serverVars>>,
         Profiler \in recorded' => Profiler \in recorded \/ profile,
         step' \in BeforeMetrics => step \in BeforeMetrics,
         step' \in WhileMetrics => step \in WhileMetrics \cup BeforeMetrics,
         step' \in Profiling => profile,
         step' # "done"
  PROVE  RowInv'
BY DEF RowInv, serverVars

LEMMA RowKeepsMetrics ==
  ASSUME RowInv, next' \in Workers, got' = [w \in Workers |-> got'[w]],
         UNCHANGED <<profile, metrics, records>>,
         state' = state \/ \A w \in Workers : state'.phases[w] = Measured,
         ~profile => profiler' = "none" /\ Profiler \notin recorded',
         step' \in BeforeMetrics => step \in BeforeMetrics,
         step' \notin WhileMetrics, step' \notin Profiling, step' # "done"
  PROVE  RowInv'
BY DEF RowInv

LEMMA RowUnchanged ==
  ASSUME UNCHANGED row
  PROVE  UNCHANGED <<state, warmup, profile, interrupted, metrics, server_crashed>>
BY DEF row, modes

LEMMA Unchanged ==
  ASSUME UNCHANGED trialVars
  PROVE  UNCHANGED <<state, warmup, profile, interrupted, metrics, server_crashed, recorded>>
BY RowUnchanged DEF trialVars

LEMMA StageLeft ==
  ASSUME step' \in {"clean up", "raised"} \cup Cleaned
  PROVE  Stage'
BY DEF Stage, StageOf, Cleaned

LEMMA NotCleanedYet ==
  ASSUME step' \notin Cleaned \cup {"raised", "start server", "prepare"}
  PROVE  CleanInv'
BY DEF CleanInv, Cleaned

(* An exception, or the end of the try block.                                *)
LEMMA LeavesTry ==
  ASSUME IInv, step' = "clean up", next' = 1, PipesTyped',
         got' = got, UNCHANGED <<state, profile, metrics, server_crashed, recorded, serverVars>>
  PROVE  IInv'
<1>1. next' \in Workers /\ got' = [w \in Workers |-> got'[w]]
  BY FirstServed DEF IInv, RowInv
<1>2. /\ step' \notin BeforeMetrics /\ step' \notin WhileMetrics
      /\ step' \notin Profiling /\ step' # "done"
      /\ step' \notin Cleaned \cup {"raised", "start server", "prepare"}
  BY DEF BeforeMetrics, WhileMetrics, Profiling, Cleaned
<1>3. RowInv'
  BY <1>1, <1>2, RowKeeps DEF IInv
<1>4. Stage' /\ CleanInv'
  BY <1>2, StageLeft, NotCleanedYet
<1> QED BY <1>3, <1>4 DEF IInv

LEMMA PipesUnchanged ==
  ASSUME IInv, UNCHANGED <<workerVars, pipes>>
  PROVE  /\ PipesTyped'
         /\ \A w \in Workers :
              /\ \A place : Waits(w, place) => Waits(w, place)'
              /\ \A p : OwesResult(w, p) => OwesResult(w, p)'
<1>1. UNCHANGED <<worker, running, toWorker, toController>> /\ PipesTyped
  BY DEF workerVars, pipes, IInv
<1> QED BY <1>1, SamePlace DEF PipesTyped

LEMMA StartServerKeeps ==
  ASSUME IInv, StartServer \/ EnterTry
  PROVE  IInv'
<1> USE DEF IInv
<1>1. /\ step \in {"start server", "prepare"} /\ next' = 1 /\ got' = got
      /\ UNCHANGED <<row, workerVars, pipes, records, profiler>>
  BY DEF StartServer, EnterTry, Goto, trialVars, serverVars
<1>2. \/ step' \in {"prepare", "raised"} /\ recorded' = recorded
      \/ step' = "start workers" /\ recorded' = {Server}
  BY DEF StartServer, EnterTry, Goto, trialVars
<1>3. \A w \in Workers : NotStarted(w)' /\ ~Served(w)'
  <2>1. \A w \in Workers : NotStarted(w)
    BY <1>1 DEF Stage, StageOf
  <2> QED BY <1>1, <2>1, FirstServed DEF NotStarted, workerVars, pipes
<1>4. Stage'
  BY <1>2, <1>3 DEF Stage, StageOf
<1>5. recorded = {} /\ profiler = "none" /\ Server # Profiler
  BY <1>1 DEF CleanInv, Server, Profiler
<1>6. RowInv'
  <2>1. /\ step \in BeforeMetrics /\ step' \notin WhileMetrics
        /\ step' \notin Profiling /\ step' # "done"
    BY <1>1, <1>2 DEF BeforeMetrics, WhileMetrics, Profiling
  <2>2. Profiler \notin recorded'
    BY <1>2, <1>5
  <2>3. next' \in Workers /\ UNCHANGED <<state, profile, metrics, records, profiler>>
    BY <1>1, FirstServed, RowUnchanged
  <2>4. /\ got' = [w \in Workers |-> got'[w]]
        /\ state' = empty_state \/ \A w \in Workers : state'.phases[w] = Measured
        /\ metrics \in BOOLEAN /\ records = 0 /\ ~metrics
    BY <1>1, <2>1, <2>3 DEF RowInv
  <2>5. records' \in 0 .. 2
    BY <2>3, <2>4
  <2> QED BY <1>5, <2>1, <2>2, <2>3, <2>4, <2>5 DEF RowInv
<1>7. CleanInv'
  BY <1>1, <1>2, <1>5 DEF CleanInv, Cleaned, WorkerEnded, ServerEnded, ProfilerEnded
<1> QED BY <1>1, <1>4, <1>6, <1>7, PipesUnchanged

LEMMA StartWorkerKeeps ==
  ASSUME IInv, StartWorker
  PROVE  IInv'
<1> USE DEF IInv
<1>1. /\ step = "start workers" /\ next \in Workers
      /\ got' = got /\ UNCHANGED <<trialVars, running, toWorker, toController, serverVars>>
  BY DEF StartWorker, RowInv, pipes
<1>2. CASE Raise("error") /\ UNCHANGED worker
  <2>1. step' = "clean up" /\ next' = 1 /\ PipesTyped'
    BY <1>1, <1>2 DEF Raise, Goto, PipesTyped
  <2> QED BY <1>1, <2>1, LeavesTry, Unchanged
<1>3. CASE /\ worker' = [worker EXCEPT ![next] = "connecting"]
           /\ step' = "record worker" /\ next' = next
  <2>1. PipesTyped'
    BY <1>1, <1>3 DEF PipesTyped
  <2>2. \A w \in Workers : Served(w)' <=> Served(w)
    BY <1>3 DEF Served
  <2>3. ASSUME NEW w \in Workers, w = next
        PROVE  OwesConnected(w)'
    <3>0. ~Served(next)
      <4>1. next \in Int
        BY <1>1, FirstWorker
      <4> QED BY <4>1 DEF Served
    <3>1. NotStarted(w)
      BY <1>1, <2>3, <3>0 DEF Stage, StageOf
    <3>2. worker'[w] = "connecting" /\ toWorker'[w] = << >> /\ toController'[w] = << >>
      BY <1>1, <1>3, <2>3, <3>1 DEF PipesTyped, NotStarted
    <3> QED BY <3>2 DEF OwesConnected, Waits, In, Silent
  <2>4. \A w \in Workers \ {next} :
          /\ OwesConnected(w) => OwesConnected(w)'
          /\ NotStarted(w) => NotStarted(w)'
    <3> SUFFICES ASSUME NEW w \in Workers \ {next}
                 PROVE  /\ OwesConnected(w) => OwesConnected(w)'
                        /\ NotStarted(w) => NotStarted(w)'
      OBVIOUS
    <3>1. worker'[w] = worker[w]
      BY <1>3 DEF PipesTyped
    <3> QED BY <1>1, <3>1, SamePlace
  <2>5. \A w \in Workers : IF Served(w) THEN OwesConnected(w) ELSE NotStarted(w)
    BY <1>1 DEF Stage, StageOf
  <2>6. Stage'
    BY <1>3, <2>2, <2>3, <2>4, <2>5 DEF Stage, StageOf
  <2>7. RowInv'
    <3>1. /\ step' \in BeforeMetrics /\ step \in BeforeMetrics /\ step' \notin WhileMetrics
          /\ step' \notin Profiling /\ step' # "done"
      BY <1>1, <1>3 DEF BeforeMetrics, WhileMetrics, Profiling
    <3>2. got' = [w \in Workers |-> got'[w]]
      BY <1>1 DEF RowInv
    <3> QED BY <1>1, <1>3, <3>1, <3>2, RowKeeps, Unchanged
  <2>8. CleanInv'
    BY <1>3, NotCleanedYet DEF Cleaned
  <2> QED BY <2>1, <2>6, <2>7, <2>8
<1> QED BY <1>2, <1>3 DEF StartWorker

LEMMA RecordWorkerKeeps ==
  ASSUME IInv, RecordWorker
  PROVE  IInv'
<1> USE DEF IInv
<1>1. /\ step = "record worker" /\ next \in Workers /\ got' = got
      /\ recorded' = recorded \cup {Worker(next)}
      /\ UNCHANGED <<row, workerVars, pipes, serverVars>>
  BY DEF RecordWorker, RowInv
<1>2. /\ next' \in Workers
      /\ \/ /\ step' = "start workers"
            /\ \A w \in Workers : Served(w)' <=> (Served(w) \/ w = next)
         \/ /\ step' = "receive connected"
            /\ \A w \in Workers : (Served(w) \/ w = next) /\ ~Served(w)'
  <2>1. /\ next' = IF next + 1 \in Workers THEN next + 1 ELSE 1
        /\ step' = IF next + 1 \in Workers THEN "start workers" ELSE "receive connected"
    BY DEF RecordWorker, Goto
  <2> QED BY <1>1, <2>1, Turn
<1>3. Stage'
  <2>1. UNCHANGED <<worker, running, toWorker, toController>>
    BY <1>1 DEF workerVars, pipes
  <2>2. \A w \in Workers : /\ OwesConnected(w) => OwesConnected(w)'
                           /\ NotStarted(w) => NotStarted(w)'
    BY <2>1, SamePlace
  <2>3. \A w \in Workers : IF Served(w) \/ w = next THEN OwesConnected(w) ELSE NotStarted(w)
    BY <1>1 DEF Stage, StageOf
  <2> QED BY <1>2, <2>2, <2>3 DEF Stage, StageOf
<1>4. RowInv'
  <2>1. /\ step' \in BeforeMetrics /\ step \in BeforeMetrics /\ step' \notin WhileMetrics
        /\ step' \notin Profiling /\ step' # "done"
    BY <1>1, <1>2 DEF BeforeMetrics, WhileMetrics, Profiling
  <2>2. Profiler \in recorded' => Profiler \in recorded
    BY <1>1 DEF Profiler, Worker
  <2>3. got' = [w \in Workers |-> got'[w]]
    BY <1>1 DEF RowInv
  <2> QED BY <1>1, <1>2, <2>1, <2>2, <2>3, RowKeeps, RowUnchanged
<1>5. CleanInv'
  BY <1>2, NotCleanedYet DEF Cleaned
<1> QED BY <1>1, <1>3, <1>4, <1>5, PipesUnchanged

LEMMA Consumes ==
  ASSUME PipesTyped, NEW w \in Workers, toController[w] # << >>,
         Head(toController[w]).type # "error",
         toController' = [toController EXCEPT ![w] = Tail(@)],
         UNCHANGED <<worker, running, toWorker>>
  PROVE  /\ OwesConnected(w) => Waits(w, "connected")'
         /\ OwesReady(w) => Waits(w, "blocked")'
         /\ \A p : OwesResult(w, p) => Waits(w, "blocked")' /\ Head(toController[w]).phase = p
<1>1. ~Silent(w)
  BY OneMessage DEF Silent, Error, Message
<1>2. \A m : HasAnswered(w, m) => Head(toController[w]) = m /\ Silent(w)'
  <2> SUFFICES ASSUME NEW m, HasAnswered(w, m)
               PROVE  Head(toController[w]) = m /\ Silent(w)'
    OBVIOUS
  <2>1. toController'[w] = Tail(toController[w]) /\ worker'[w] = worker[w]
    BY DEF PipesTyped
  <2>2. CASE toController[w] = <<m>>
    <3>1. Head(toController[w]) = m /\ Tail(toController[w]) = << >>
      BY <2>2, OneMessage
    <3> QED BY <2>1, <3>1 DEF Silent
  <2>3. CASE toController[w] = Append(<<m>>, Error) /\ worker[w] = "exited"
    <3>1. Head(toController[w]) = m /\ Tail(toController[w]) = <<Error>>
      BY <2>3, TwoMessages
    <3> QED BY <2>1, <2>3, <3>1 DEF Silent, Error, Message
  <2> QED BY <2>2, <2>3 DEF HasAnswered
<1>3. OwesConnected(w) => Waits(w, "connected")'
  BY <1>1, <1>2 DEF OwesConnected, Waits, Answered, In
<1>4. OwesReady(w) => Waits(w, "blocked")'
  BY <1>1, <1>2 DEF OwesReady, Told, Waits, Answered, In
<1>5. ASSUME NEW p, OwesResult(w, p)
      PROVE  Waits(w, "blocked")' /\ Head(toController[w]).phase = p
  <2>1. PICK d \in BOOLEAN : Answered(w, "blocked", Result(p, d))
    BY <1>1, <1>5 DEF OwesResult, Told, Waits
  <2> QED BY <1>2, <2>1 DEF Waits, Answered, In, Result
<1> QED BY <1>3, <1>4, <1>5

LEMMA ReceiveMovesOn ==
  ASSUME IInv, Receive, Head(toController[next]).type = Expected
  PROVE  /\ Expected # "error" /\ PipesTyped'
         /\ got' = [w \in Workers |-> got'[w]] /\ NextWorkerOr(After)
         /\ UNCHANGED <<trialVars, worker, running, toWorker, serverVars>>
         /\ toController' = [toController EXCEPT ![next] = Tail(@)]
         /\ \A w \in Workers \ {next} : got'[w] = got[w]
         /\ Expected = "result" =>
              \A w \in Workers : w = next => got'[w] = Head(toController[w])
<1>1. /\ next \in Workers /\ got = [w \in Workers |-> got[w]]
      /\ PipesTyped
  BY DEF IInv, RowInv
<1>2. /\ toController' = [toController EXCEPT ![next] = Tail(@)]
      /\ got' = IF Expected = "result" THEN [got EXCEPT ![next] = Head(toController[next])] ELSE got
      /\ NextWorkerOr(After)
      /\ UNCHANGED <<trialVars, worker, running, toWorker, serverVars>>
  BY DEF Receive, workerVars
<1>3. Expected # "error"
  BY DEF Expected, None
<1>4. PipesTyped'
  BY <1>1, <1>2 DEF PipesTyped
<1>5. got' = [w \in Workers |-> got'[w]] /\ \A w \in Workers \ {next} : got'[w] = got[w]
  BY <1>1, <1>2
<1>6. Expected = "result" => \A w \in Workers : w = next => got'[w] = Head(toController[w])
  BY <1>1, <1>2
<1> QED BY <1>2, <1>3, <1>4, <1>5, <1>6

LEMMA ReceiveKeepsStage ==
  ASSUME IInv, Receive, Head(toController[next]).type = Expected
  PROVE  Stage'
<1>1. /\ Expected # "error" /\ PipesTyped
      /\ next \in Workers /\ toController[next] # << >> /\ Stage
      /\ UNCHANGED <<worker, running, toWorker>>
      /\ toController' = [toController EXCEPT ![next] = Tail(@)]
      /\ \A w \in Workers \ {next} : got'[w] = got[w]
      /\ Expected = "result" =>
           \A w \in Workers : w = next => got'[w] = Head(toController[w])
  BY ReceiveMovesOn DEF Receive, IInv, RowInv
<1>2. /\ next' \in Workers /\ ~Served(next)
      /\ \/ /\ step' = step
            /\ \A w \in Workers : Served(w)' <=> (Served(w) \/ w = next)
         \/ /\ step' = After
            /\ \A w \in Workers : (Served(w) \/ w = next) /\ ~Served(w)'
  BY <1>1, ReceiveMovesOn, NextWorker
<1> SUFFICES ASSUME NEW w \in Workers
             PROVE  StageOf(w)'
  BY DEF Stage
<1>3. StageOf(w)
  BY <1>1 DEF Stage
<1>4. w # next =>
        /\ \A place : Waits(w, place) => Waits(w, place)'
        /\ OwesConnected(w) => OwesConnected(w)'
        /\ OwesReady(w) => OwesReady(w)'
        /\ \A q : OwesResult(w, q) => OwesResult(w, q)'
        /\ got'[w] = got[w]
  <2> SUFFICES ASSUME w # next
               PROVE  got'[w] = got[w] /\ toController'[w] = toController[w]
    BY <1>1, SamePlace
  <2> QED BY <1>1 DEF PipesTyped
<1>5. w = next =>
        /\ ~Served(w)
        /\ OwesConnected(w) => Waits(w, "connected")'
        /\ OwesReady(w) => Waits(w, "blocked")'
        /\ \A p : OwesResult(w, p) => Waits(w, "blocked")' /\ Head(toController[w]).phase = p
  BY <1>1, <1>2, Consumes
<1>6. CASE step = "receive connected"
  <2>1. After = "send setup"
    BY <1>6 DEF After
  <2>2. IF Served(w) THEN Waits(w, "connected") ELSE OwesConnected(w)
    BY <1>3, <1>6 DEF StageOf
  <2> QED BY <1>2, <1>4, <1>5, <1>6, <2>1, <2>2 DEF StageOf
<1>7. CASE step = "receive ready"
  <2>1. After \in {"send warmup", "start profiler", "start metrics"}
    BY <1>7 DEF After, AfterWarmup
  <2>2. IF Served(w) THEN Waits(w, "blocked") ELSE OwesReady(w)
    BY <1>3, <1>7 DEF StageOf
  <2> QED BY <1>2, <1>4, <1>5, <1>7, <2>1, <2>2 DEF StageOf
<1>8. CASE step = "receive warmup"
  <2>1. After = "check warmup"
    BY <1>8 DEF After
  <2>2. IF Served(w) THEN Waits(w, "blocked") ELSE OwesResult(w, Warmup)
    BY <1>3, <1>8 DEF StageOf
  <2> QED BY <1>2, <1>4, <1>5, <1>8, <2>1, <2>2 DEF StageOf
<1>9. CASE step = "receive results"
  <2>1. After = "merged" /\ Expected = "result"
    BY <1>9 DEF After, Expected
  <2>2. IF Served(w) THEN Waits(w, "blocked") /\ got[w].phase = Measured
                     ELSE OwesResult(w, Measured)
    BY <1>3, <1>9 DEF StageOf
  <2>3. w = next => got'[w] = Head(toController[w])
    BY <1>1, <2>1
  <2>4. IF Served(w) \/ w = next THEN Waits(w, "blocked")' /\ got'[w].phase = Measured
                                 ELSE OwesResult(w, Measured)'
    BY <1>4, <1>5, <2>2, <2>3
  <2> QED BY <1>2, <1>9, <2>1, <2>4 DEF StageOf
<1> QED BY <1>6, <1>7, <1>8, <1>9 DEF Receive, Receiving, Expected, None

LEMMA ReceiveKeeps ==
  ASSUME IInv, Receive
  PROVE  IInv'
<1>1. /\ UNCHANGED <<trialVars, workerVars, toWorker, serverVars>>
      /\ toController' = [toController EXCEPT ![next] = Tail(@)] /\ PipesTyped
  BY DEF Receive, IInv
<1>2. CASE Head(toController[next]).type # Expected
  <2>1. step' = "clean up" /\ next' = 1 /\ got' = got
    BY <1>2 DEF Receive, Raise, Goto
  <2>2. PipesTyped'
    BY <1>1 DEF PipesTyped, workerVars
  <2> QED BY <1>1, <2>1, <2>2, LeavesTry, Unchanged
<1>3. CASE Head(toController[next]).type = Expected
  <2>1. /\ PipesTyped' /\ got' = [w \in Workers |-> got'[w]] /\ NextWorkerOr(After)
    BY <1>3, ReceiveMovesOn
  <2>2. next' \in Workers /\ step' \in {step, After}
    BY <2>1, NextWorker DEF IInv, RowInv
  <2>3. /\ step' \in BeforeMetrics => step \in BeforeMetrics
        /\ step' \notin WhileMetrics /\ step' # "done"
        /\ step' \notin Cleaned \cup {"raised", "start server", "prepare"}
        /\ step' \in Profiling => profile
    BY <2>2 DEF Receive, Receiving, Expected, None, After, AfterWarmup, Profiling, BeforeMetrics,
       WhileMetrics, Cleaned
  <2>4. RowInv'
    BY <1>1, <2>1, <2>2, <2>3, RowKeeps, Unchanged DEF IInv
  <2>5. CleanInv'
    BY <2>3, NotCleanedYet
  <2> QED BY <1>3, <2>1, <2>4, <2>5, ReceiveKeepsStage DEF IInv
<1> QED BY <1>2, <1>3

(* A wait ends with an exception, or the user interrupts the trial.          *)
LEMMA WaitEnds ==
  ASSUME IInv, EndOfPipe \/ TimeOut \/ (Interrupt /\ step \notin {"start server", "prepare"})
  PROVE  IInv'
<1>1. step' = "clean up" /\ next' = 1 /\ got' = got /\ UNCHANGED <<workerVars, pipes, serverVars>>
  BY DEF EndOfPipe, TimeOut, Interrupt, Raise, Goto
<1>2. UNCHANGED <<state, profile, metrics, server_crashed, recorded>>
  BY Unchanged DEF EndOfPipe, TimeOut, Interrupt, modes
<1>3. PipesTyped'
  BY <1>1 DEF IInv, PipesTyped, workerVars, pipes
<1> QED BY <1>1, <1>2, <1>3, LeavesTry

(* The interrupt comes before there is a finally block.                      *)
LEMMA InterruptKeeps ==
  ASSUME IInv, Interrupt
  PROVE  IInv'
<1>1. CASE step \notin {"start server", "prepare"}
  BY <1>1, WaitEnds
<1>2. CASE step \in {"start server", "prepare"}
  <2>1. /\ step' = "raised" /\ next' = 1 /\ got' = got
        /\ UNCHANGED <<state, profile, recorded, metrics, server_crashed, workerVars, pipes,
                       serverVars>>
    BY <1>2 DEF Interrupt, Goto, modes
  <2>2. recorded = {}
    BY <1>2 DEF IInv, CleanInv
  <2>3. CleanInv'
    BY <2>1, <2>2 DEF CleanInv, Cleaned, WorkerEnded, ServerEnded, ProfilerEnded
  <2>4. RowInv'
    <3>1. /\ step' \notin BeforeMetrics /\ step' \notin WhileMetrics
          /\ step' \notin Profiling /\ step' # "done"
      BY <2>1 DEF BeforeMetrics, WhileMetrics, Profiling
    <3>2. next' \in Workers /\ got' = [w \in Workers |-> got'[w]]
      BY <2>1, FirstServed DEF IInv, RowInv
    <3> QED BY <2>1, <2>2, <3>1, <3>2, RowKeeps DEF IInv
  <2> QED BY <2>1, <2>3, <2>4, StageLeft, PipesUnchanged DEF IInv
<1> QED BY <1>1, <1>2

(* A step inside the try block that starts the next round of the workers.    *)
LEMMA StepsOn ==
  ASSUME IInv, PipesTyped', Stage', next' = 1, got' = [w \in Workers |-> got'[w]],
         UNCHANGED <<state, profile, metrics, server_crashed, serverVars>>,
         Profiler \in recorded' => Profiler \in recorded \/ profile,
         step' \in BeforeMetrics => step \in BeforeMetrics,
         step' \in WhileMetrics => step \in WhileMetrics \cup BeforeMetrics,
         step' \in Profiling => profile,
         step' \notin Cleaned \cup {"raised", "start server", "prepare"}
  PROVE  IInv'
<1>1. step' # "done"
  BY DEF Cleaned
<1>2. RowInv'
  BY <1>1, FirstServed, RowKeeps DEF IInv
<1> QED BY <1>2, NotCleanedYet DEF IInv

LEMMA SendAllTells ==
  ASSUME IInv, NEW message, NEW then, SendAll(message, then),
         NEW place, \A w \in Workers : Waits(w, place),
         UNCHANGED <<workerVars, toController>>
  PROVE  /\ PipesTyped' /\ next' = 1
         /\ \/ step' = then /\ \A w \in Workers : Told(w, place, message)'
            \/ step' = "clean up"
<1> DEFINE sentTo == {w \in Workers : \A v \in 1 .. w : Alive(v)}
<1>1. /\ UNCHANGED <<worker, running, toController>> /\ PipesTyped
      /\ toWorker' = [w \in Workers |->
                        IF w \in sentTo THEN Append(toWorker[w], message) ELSE toWorker[w]]
      /\ IF sentTo = Workers THEN Goto(then) ELSE Raise("error")
  BY DEF SendAll, workerVars, IInv
<1>2. PipesTyped'
  BY <1>1 DEF PipesTyped
<1>3. CASE sentTo = Workers
  <2> SUFFICES ASSUME NEW w \in Workers
               PROVE  Told(w, place, message)'
    BY <1>1, <1>2, <1>3 DEF Goto
  <2>1. toWorker[w] = << >> /\ In(w, place) /\ Silent(w)
    BY DEF Waits
  <2>2. toWorker'[w] = Append(toWorker[w], message)
    BY <1>1, <1>3
  <2>3. toWorker'[w] = <<message>>
    BY <2>1, <2>2, OneMessage
  <2> QED BY <1>1, <2>1, <2>3 DEF Told, In, Silent
<1>4. CASE sentTo # Workers
  BY <1>1, <1>2, <1>4 DEF Raise, Goto
<1> QED BY <1>3, <1>4

LEMMA SendSetupKeeps ==
  ASSUME IInv, SendSetup
  PROVE  IInv'
<1>1. /\ step = "send setup" /\ SendAll(Message("setup_complete"), "receive ready")
      /\ got' = got /\ UNCHANGED <<trialVars, workerVars, toController, serverVars>>
  BY DEF SendSetup
<1>2. \A w \in Workers : Waits(w, "connected")
  BY <1>1 DEF IInv, Stage, StageOf
<1>3. /\ PipesTyped' /\ next' = 1
      /\ \/ /\ step' = "receive ready"
            /\ \A w \in Workers : Told(w, "connected", Message("setup_complete"))'
         \/ step' = "clean up"
  BY <1>1, <1>2, SendAllTells
<1>4. CASE step' = "clean up"
  BY <1>1, <1>3, <1>4, LeavesTry, Unchanged
<1>5. CASE /\ step' = "receive ready"
           /\ \A w \in Workers : Told(w, "connected", Message("setup_complete"))'
  <2>1. Stage'
    BY <1>3, <1>5, FirstServed DEF Stage, StageOf, OwesReady
  <2>2. got' = [w \in Workers |-> got'[w]]
    BY <1>1 DEF IInv, RowInv
  <2> QED BY <1>1, <1>3, <1>5, <2>1, <2>2, StepsOn, Unchanged
      DEF BeforeMetrics, WhileMetrics, Profiling, Cleaned
<1> QED BY <1>3, <1>4, <1>5

LEMMA SendPhaseKeeps ==
  ASSUME IInv, SendWarmup \/ SendMeasured
  PROVE  IInv'
<1>1. PICK p, s : /\ \/ step = "send warmup" /\ p = Warmup /\ s = "receive warmup"
                     \/ step = "send measured" /\ p = Measured /\ s = "measure"
                  /\ SendAll(Phase(p), s)
      BY DEF SendWarmup, SendMeasured
<1>2. got' = got /\ UNCHANGED <<trialVars, workerVars, toController, serverVars>>
  BY DEF SendWarmup, SendMeasured
<1>3. \A w \in Workers : Waits(w, "blocked")
  BY <1>1 DEF IInv, Stage, StageOf
<1>4. /\ PipesTyped' /\ next' = 1
      /\ \/ step' = s /\ \A w \in Workers : Told(w, "blocked", Phase(p))'
         \/ step' = "clean up"
  BY <1>1, <1>2, <1>3, SendAllTells
<1>5. CASE step' = "clean up"
  BY <1>2, <1>4, <1>5, LeavesTry, Unchanged
<1>6. CASE step' = s /\ \A w \in Workers : Told(w, "blocked", Phase(p))'
  <2>1. \A w \in Workers : OwesResult(w, p)' /\ ~Served(w)'
    BY <1>4, <1>6, FirstServed DEF OwesResult
  <2>2. Stage'
    BY <1>1, <1>6, <2>1 DEF Stage, StageOf
  <2>3. got' = [w \in Workers |-> got'[w]]
    BY <1>2 DEF IInv, RowInv
  <2> QED BY <1>1, <1>2, <1>4, <1>6, <2>2, <2>3, StepsOn, Unchanged
      DEF BeforeMetrics, WhileMetrics, Profiling, Cleaned
<1> QED BY <1>4, <1>5, <1>6

LEMMA CheckWarmupKeeps ==
  ASSUME IInv, CheckWarmup
  PROVE  IInv'
<1>1. /\ step = "check warmup" /\ next' = 1 /\ step' \in {"clean up", AfterWarmup}
      /\ got' = NoResults /\ UNCHANGED <<trialVars, workerVars, pipes, serverVars>>
  BY DEF CheckWarmup, Raise, Goto
<1>2. /\ step' \in {"clean up", "start profiler", "start metrics"}
      /\ step' \in Profiling => profile
  BY <1>1 DEF AfterWarmup, Profiling
<1>3. \A w \in Workers : Waits(w, "blocked")'
  BY <1>1, PipesUnchanged DEF IInv, Stage, StageOf
<1>4. Stage'
  BY <1>2, <1>3 DEF Stage, StageOf
<1>5. got' = [w \in Workers |-> got'[w]]
  BY <1>1, Zenon DEF NoResults
<1> QED BY <1>1, <1>2, <1>4, <1>5, PipesUnchanged, StepsOn, Unchanged
    DEF BeforeMetrics, WhileMetrics, Profiling, Cleaned

LEMMA StartProfilerKeeps ==
  ASSUME IInv, StartProfiler \/ BindProfiler
  PROVE  IInv'
<1>1. /\ step \in {"start profiler", "bind profiler"} /\ next' = 1 /\ got' = got
      /\ step' \in {"clean up", "bind profiler", "start metrics"}
      /\ UNCHANGED <<row, workerVars, pipes, server, records>>
  BY DEF StartProfiler, BindProfiler, Raise, Goto, trialVars, serverVars
<1>2. Stage'
  <2>1. \A w \in Workers : Waits(w, "blocked")'
    BY <1>1, PipesUnchanged DEF IInv, Stage, StageOf
  <2> QED BY <1>1, <2>1 DEF Stage, StageOf
<1>3. RowInv'
  <2>1. step \in BeforeMetrics /\ step' \notin WhileMetrics /\ step' # "done"
    BY <1>1 DEF BeforeMetrics, WhileMetrics
  <2>2. profile
    BY <1>1 DEF IInv, RowInv, Profiling
  <2>3. RowInv /\ UNCHANGED <<state, profile, metrics, records>> /\ next' \in Workers
    BY <1>1, FirstServed, RowUnchanged DEF IInv
  <2> QED BY <1>1, <2>1, <2>2, <2>3 DEF RowInv
<1>4. CleanInv'
  BY <1>1, NotCleanedYet DEF Cleaned
<1> QED BY <1>1, <1>2, <1>3, <1>4, PipesUnchanged DEF IInv

(* The lines of the metrics file come in order, one for each wait.           *)
LEMMA MetricsKeep ==
  ASSUME IInv, StartMetrics \/ BadMetrics \/ Measure \/ StopMetrics
  PROVE  IInv'
<1>1. /\ step \in {"start metrics", "measure", "stop metrics"}
      /\ \/ step = "start metrics" /\ step' = "send measured"
         \/ step = "measure" /\ step' = "stop metrics"
         \/ step = "stop metrics" /\ step' = "stop profiler"
         \/ step' = "clean up"
      /\ next' = 1 /\ got' = got
      /\ UNCHANGED <<workerVars, pipes, server, profiler>>
  <2>1. CASE StartMetrics BY <2>1 DEF StartMetrics, Goto
  <2>2. CASE BadMetrics BY <2>2 DEF BadMetrics, Raise, Goto
  <2>3. CASE Measure BY <2>3 DEF Measure, Goto, serverVars
  <2>4. CASE StopMetrics BY <2>4 DEF StopMetrics, Goto
  <2> QED BY <2>1, <2>2, <2>3, <2>4
<1>2. UNCHANGED <<state, profile, recorded>>
  BY Unchanged DEF StartMetrics, BadMetrics, Measure, StopMetrics, modes
<1>3. Stage'
  <2>1. \A w \in Workers : /\ ~Served(w)'
                           /\ step = "start metrics" => Waits(w, "blocked")'
                           /\ step # "start metrics" => OwesResult(w, Measured)'
    BY <1>1, PipesUnchanged, FirstServed DEF IInv, Stage, StageOf
  <2> QED BY <1>1, <2>1 DEF Stage, StageOf
<1>4. CleanInv'
  BY <1>1, NotCleanedYet DEF Cleaned
<1>5. /\ step' \notin BeforeMetrics /\ step' \notin Profiling /\ step' # "done"
      /\ step \in BeforeMetrics \cup WhileMetrics
  BY <1>1 DEF BeforeMetrics, WhileMetrics, Profiling
<1>6. /\ metrics' \in BOOLEAN /\ records' \in 0 .. 2
      /\ metrics' => records' = 2
      /\ step' \in WhileMetrics => records' \in {0, 1} /\ ~metrics'
  <2>1. /\ metrics \in BOOLEAN /\ ~metrics
    BY <1>5 DEF IInv, RowInv
  <2>2. records \in {0, 1}
    BY <1>5 DEF IInv, RowInv
  <2>3. step = "start metrics" => records = 0
    BY DEF IInv, RowInv, BeforeMetrics
  <2>4. \A n : (n \in {0, 1} => n \in 0 .. 2) /\ (n \in {1, 2} => n \in 0 .. 2)
    OBVIOUS
  <2>5. CASE StartMetrics
    <3>1. records' \in {records, records + 1} /\ records = 0
      BY <2>3, <2>5, Zenon DEF StartMetrics
    <3>2. records' \in {0, 1}
      BY <3>1
    <3>3. metrics' = metrics
      BY <2>5, Unchanged DEF StartMetrics
    <3> QED BY <2>1, <2>4, <3>2, <3>3, Zenon
  <2>6. CASE BadMetrics
    <3>1. records' \in {1, 2} /\ step' = "clean up"
      BY <2>6 DEF BadMetrics, Raise, Goto
    <3>2. metrics' = metrics
      BY <2>6, Unchanged DEF BadMetrics
    <3>3. step' \notin WhileMetrics
      BY <3>1 DEF WhileMetrics
    <3> QED BY <2>1, <2>4, <3>1, <3>2, <3>3, Zenon
  <2>7. CASE Measure
    <3>1. records' = records
      BY <2>7 DEF Measure, serverVars
    <3>2. metrics' = metrics
      BY <2>7 DEF Measure
    <3> QED BY <2>1, <2>2, <2>4, <3>1, <3>2, Zenon
  <2>8. CASE StopMetrics
    <3>1. records' \in records .. 2 \cup {records}
      BY <2>8 DEF StopMetrics
    <3>2. records' \in 0 .. 2
      <4>1. \A n \in {0, 1} : n .. 2 \cup {n} \subseteq 0 .. 2
        OBVIOUS
      <4> QED BY <2>2, <3>1, <4>1, Zenon
    <3>3. metrics' \in BOOLEAN /\ (metrics' => records' >= 2)
      BY <2>8, Zenon DEF StopMetrics
    <3>4. \A n \in 0 .. 2 : n >= 2 => n = 2
      OBVIOUS
    <3>5. step' \notin WhileMetrics
      BY <2>8 DEF StopMetrics, Goto, WhileMetrics
    <3> QED BY <3>2, <3>3, <3>4, <3>5, Zenon
  <2> QED BY <2>5, <2>6, <2>7, <2>8
<1>7. RowInv'
  BY <1>1, <1>2, <1>5, <1>6, FirstServed DEF IInv, RowInv
<1> QED BY <1>1, <1>3, <1>4, <1>7, PipesUnchanged DEF IInv

LEMMA StopProfilerKeeps ==
  ASSUME IInv, StopProfiler
  PROVE  IInv'
<1>1. /\ step = "stop profiler" /\ next' = 1 /\ step' \in {"clean up", "receive results"}
      /\ got' = got /\ UNCHANGED <<trialVars, workerVars, pipes, server, records>>
      /\ Profiler \notin recorded => profiler' = profiler
  BY DEF StopProfiler, ProfilerStops, ProfilerIsStuck, Raise, Goto
<1>2. Stage'
  <2>1. \A w \in Workers : OwesResult(w, Measured)' /\ ~Served(w)'
    BY <1>1, PipesUnchanged, FirstServed DEF IInv, Stage, StageOf
  <2> QED BY <1>1, <2>1 DEF Stage, StageOf
<1>3. RowInv'
  <2>1. /\ step' \notin BeforeMetrics /\ step' \notin WhileMetrics
        /\ step' \notin Profiling /\ step' # "done"
    BY <1>1 DEF BeforeMetrics, WhileMetrics, Profiling
  <2>2. /\ RowInv /\ UNCHANGED <<state, profile, metrics, records, recorded>>
        /\ next' \in Workers
    BY <1>1, FirstServed, Unchanged DEF IInv
  <2>3. /\ got' = [w \in Workers |-> got'[w]]
        /\ ~profile => profiler = "none" /\ Profiler \notin recorded
    BY <1>1 DEF IInv, RowInv
  <2> QED BY <1>1, <2>1, <2>2, <2>3, RowKeepsMetrics
<1>4. CleanInv'
  BY <1>1, NotCleanedYet DEF Cleaned
<1> QED BY <1>1, <1>2, <1>3, <1>4, PipesUnchanged DEF IInv

(* Every result is one of the measured phase.                                *)
LEMMA MergeKeeps ==
  ASSUME IInv, Merge
  PROVE  IInv'
<1>1. /\ step = "merged" /\ step' = "clean up" /\ next' = 1 /\ got' = got
      /\ state' = merge_states(got)
      /\ UNCHANGED <<profile, recorded, metrics, server_crashed, workerVars, pipes, serverVars>>
  BY DEF Merge, Goto, modes
<1>2. \A w \in Workers : state'.phases[w] = Measured
  <2>1. \A w \in Workers : got[w].phase = Measured
    <3> SUFFICES ASSUME NEW w \in Workers
                 PROVE  got[w].phase = Measured
      OBVIOUS
    <3>1. StageOf(w)
      BY DEF IInv, Stage
    <3> QED BY <1>1, <3>1, Zenon DEF StageOf
  <2>2. state'.phases = [w \in Workers |-> got[w].phase]
    BY <1>1, Zenon DEF merge_states
  <2> QED BY <2>1, <2>2
<1>3. RowInv'
  <2>1. /\ step' \notin BeforeMetrics /\ step' \notin WhileMetrics
        /\ step' \notin Profiling /\ step' # "done"
    BY <1>1 DEF BeforeMetrics, WhileMetrics, Profiling
  <2>2. /\ RowInv /\ UNCHANGED <<profile, metrics, records, profiler, recorded>>
        /\ next' \in Workers
    BY <1>1, FirstServed DEF IInv, serverVars
  <2>3. /\ got' = [w \in Workers |-> got'[w]]
        /\ ~profile => profiler = "none" /\ Profiler \notin recorded
    BY <1>1 DEF IInv, RowInv
  <2> QED BY <1>2, <2>1, <2>2, <2>3, RowKeepsMetrics
<1>4. Stage' /\ CleanInv'
  BY <1>1, StageLeft, NotCleanedYet DEF Cleaned
<1> QED BY <1>1, <1>3, <1>4, PipesUnchanged DEF IInv

CleanUpSteps == {"clean up", "close", "join", "stop server", "done", "raised"}

(* Outside the try block only the profiler, the workers and the server       *)
(* matter.                                                                   *)
LEMMA CleanUpRow ==
  ASSUME IInv, step \in CleanUpSteps, step' \in Cleaned \cup {"raised"}, next' \in Workers,
         got' = got, UNCHANGED <<state, profile, metrics, records, recorded>>,
         Profiler \notin recorded => profiler' = profiler,
         step' = "done" => server_crashed' \/ server' = "stopped"
  PROVE  Stage' /\ RowInv'
<1>1. /\ step' \notin BeforeMetrics /\ step' \notin WhileMetrics /\ step' \notin Profiling
  BY DEF BeforeMetrics, WhileMetrics, Profiling, Cleaned
<1>2. /\ RowInv /\ got' = [w \in Workers |-> got'[w]]
      /\ ~profile => profiler' = "none" /\ Profiler \notin recorded'
  BY DEF IInv, RowInv
<1>3. RowInv'
  BY <1>1, <1>2 DEF RowInv
<1> QED BY <1>3, StageLeft

LEMMA CleanUpKeeps ==
  ASSUME IInv, CleanUp
  PROVE  IInv'
<1>1. /\ step = "clean up" /\ next' = 1 /\ got' = got
      /\ UNCHANGED <<trialVars, workerVars, pipes, server, records>>
  BY DEF CleanUp, Goto
<1>2. \/ step' = "close" /\ (Profiler \in recorded => profiler' = "exited")
      \/ step' = "raised" /\ Profiler \in recorded /\ profiler' = "stuck"
  BY DEF CleanUp, ProfilerStops, ProfilerIsStuck, Goto
<1>3. Profiler \notin recorded => profiler' = profiler
  BY DEF CleanUp, ProfilerStops, ProfilerIsStuck
<1>4. Stage' /\ RowInv'
  BY <1>1, <1>2, <1>3, CleanUpRow, FirstServed, Unchanged DEF CleanUpSteps, Cleaned
<1>5. CleanInv'
  BY <1>1, <1>2, Unchanged DEF CleanInv, Cleaned, ProfilerEnded
<1> QED BY <1>1, <1>4, <1>5, PipesUnchanged DEF IInv

LEMMA SendCloseKeeps ==
  ASSUME IInv, SendClose
  PROVE  IInv'
<1>1. /\ step = "close" /\ step' = "join" /\ next' = 1 /\ got' = got
      /\ UNCHANGED <<trialVars, workerVars, toController, serverVars>>
  BY DEF SendClose, Goto
<1>2. PipesTyped'
  <2>1. toWorker' = [w \in Workers |-> toWorker'[w]]
    BY DEF SendClose
  <2> QED BY <1>1, <2>1 DEF IInv, PipesTyped, workerVars
<1>3. Stage' /\ RowInv'
  BY <1>1, CleanUpRow, FirstServed, Unchanged DEF CleanUpSteps, Cleaned, serverVars, IInv, RowInv
<1>4. CleanInv'
  BY <1>1, FirstServed, Unchanged DEF IInv, CleanInv, serverVars, Cleaned, ProfilerEnded
<1> QED BY <1>2, <1>3, <1>4 DEF IInv

LEMMA JoinKeeps ==
  ASSUME IInv, Join
  PROVE  IInv'
<1>1. /\ step = "join" /\ got' = got /\ NextWorkerOr("stop server") /\ next \in Workers
      /\ worker' = [worker EXCEPT ![next] =
                       IF Alive(next) /\ Worker(next) \in recorded THEN "exited" ELSE @]
      /\ UNCHANGED <<trialVars, running, toWorker, toController, serverVars>>
  BY DEF Join, pipes, IInv, RowInv
<1>2. /\ next' \in Workers
      /\ \/ /\ step' = "join"
            /\ \A w \in Workers : Served(w)' <=> (Served(w) \/ w = next)
         \/ /\ step' = "stop server"
            /\ \A w \in Workers : (Served(w) \/ w = next) /\ ~Served(w)'
  BY <1>1, NextWorker
<1>3. PipesTyped'
  BY <1>1 DEF IInv, PipesTyped
<1>4. \A w \in Workers : (Served(w) \/ w = next) => WorkerEnded(w)'
  BY <1>1, Unchanged DEF IInv, CleanInv, PipesTyped, Alive, WorkerEnded
<1>5. Stage' /\ RowInv'
  <2>1. step \in CleanUpSteps /\ step' \in Cleaned /\ step' # "done"
    BY <1>1, <1>2 DEF CleanUpSteps, Cleaned
  <2>2. UNCHANGED <<state, profile, metrics, records, profiler, recorded>>
    BY <1>1, Unchanged DEF serverVars
  <2> QED BY <1>1, <1>2, <2>1, <2>2, CleanUpRow
<1>6. CleanInv'
  <2>1. ProfilerEnded'
    BY <1>1, Unchanged DEF IInv, CleanInv, Cleaned, serverVars, ProfilerEnded
  <2> QED BY <1>2, <1>4, <2>1 DEF CleanInv
<1> QED BY <1>3, <1>5, <1>6 DEF IInv

LEMMA StopServerKeeps ==
  ASSUME IInv, StopServer
  PROVE  IInv'
<1>1. /\ step = "stop server" /\ step' \in {"done", "raised"} /\ next' = 1 /\ got' = got
      /\ server_crashed' = (server_crashed \/ server # "up")
      /\ server' = IF server = "up" THEN "stopped" ELSE server
      /\ UNCHANGED <<state, profile, metrics, records, profiler, recorded, workerVars, pipes>>
  BY DEF StopServer, Goto, modes
<1>2. server' # "up" /\ (server_crashed' \/ server' = "stopped")
  BY <1>1
<1>3. Stage' /\ RowInv'
  BY <1>1, <1>2, CleanUpRow, FirstServed DEF CleanUpSteps, Cleaned
<1>4. CleanInv'
  <2>1. (\A w \in Workers : WorkerEnded(w)) /\ ProfilerEnded
    BY <1>1 DEF IInv, CleanInv, Cleaned
  <2>2. (\A w \in Workers : WorkerEnded(w)') /\ ProfilerEnded'
    BY <1>1, <2>1 DEF Alive, workerVars, WorkerEnded, ProfilerEnded
  <2> QED BY <1>1, <1>2, <2>2 DEF CleanInv, ServerEnded
<1> QED BY <1>1, <1>3, <1>4, PipesUnchanged DEF IInv

LEMMA StageUnchanged ==
  ASSUME Stage, UNCHANGED <<step, next, got, worker, running, toWorker, toController>>
  PROVE  Stage'
<1> SUFFICES ASSUME NEW w \in Workers
             PROVE  StageOf(w)'
  BY DEF Stage
<1>1. /\ StageOf(w) /\ got'[w] = got[w]
      /\ worker'[w] = worker[w] /\ running'[w] = running[w]
      /\ toWorker'[w] = toWorker[w] /\ toController'[w] = toController[w]
  BY DEF Stage
<1>2. /\ \A place : Waits(w, place) => Waits(w, place)'
      /\ NotStarted(w) => NotStarted(w)'
      /\ OwesConnected(w) => OwesConnected(w)'
      /\ OwesReady(w) => OwesReady(w)'
      /\ \A q : OwesResult(w, q) => OwesResult(w, q)'
  BY <1>1, SamePlace
<1> QED BY <1>1, <1>2, ZenonT(60) DEF StageOf, Served

(* The server and the profiler may end at any time.                          *)
LEMMA OthersKeep ==
  ASSUME IInv, ServerCrashes \/ ProfilerEnds
  PROVE  IInv'
<1>1. UNCHANGED <<controllerVars, workerVars, pipes, records>>
  BY DEF ServerCrashes, ProfilerEnds
<1>2. /\ UNCHANGED <<step, next, got, trialVars, worker, running, toWorker, toController>>
      /\ UNCHANGED <<state, profile, recorded, metrics, server_crashed>>
  BY <1>1, Unchanged DEF controllerVars, workerVars, pipes
<1>3. \/ profiler' = profiler /\ server = "up" /\ server' = "crashed"
      \/ server' = server /\ profiler = "running" /\ profiler' = "exited"
  BY DEF ServerCrashes, ProfilerEnds
<1>4. Stage'
  BY <1>2, StageUnchanged DEF IInv
<1>5. RowInv'
  <2>1. RowInv /\ (step = "done" => server # "up")
    BY DEF IInv, CleanInv
  <2>2. ~profile => profiler' = "none"
    BY <1>3, <2>1 DEF RowInv
  <2>3. step' = "done" => server_crashed' \/ server' = "stopped"
    BY <1>2, <1>3, <2>1 DEF RowInv
  <2> QED BY <1>1, <1>2, <2>1, <2>2, <2>3, Zenon DEF RowInv
<1>6. CleanInv'
  BY <1>2, <1>3 DEF IInv, CleanInv, Served, Alive, Cleaned, WorkerEnded, ServerEnded, ProfilerEnded
<1> QED BY <1>1, <1>4, <1>5, <1>6, PipesUnchanged DEF IInv

LEMMA IInvStep == IInv /\ [Next]_vars => IInv'
<1> SUFFICES ASSUME IInv, [Next]_vars
             PROVE  IInv'
  OBVIOUS
<1>1. CASE Controller
  BY <1>1, StartServerKeeps, StartWorkerKeeps, RecordWorkerKeeps, ReceiveKeeps, WaitEnds,
     SendSetupKeeps, SendPhaseKeeps,
     CheckWarmupKeeps, StartProfilerKeeps, MetricsKeep, StopProfilerKeeps, MergeKeeps,
     CleanUpKeeps, SendCloseKeeps, JoinKeeps, StopServerKeeps
  DEF Controller
<1>2. ASSUME NEW w \in Workers, WorkerStep(w)
      PROVE  IInv'
  BY <1>2, WorkersKeep
<1>3. CASE ServerCrashes \/ ProfilerEnds
  BY <1>3, OthersKeep
<1>4. CASE Interrupt
  BY <1>4, InterruptKeeps
<1>5. CASE UNCHANGED vars
  <2>1. UNCHANGED <<controllerVars, workerVars, pipes, serverVars>>
    BY <1>5 DEF vars
  <2>2. /\ UNCHANGED <<step, next, got, worker, running, toWorker, toController>>
        /\ UNCHANGED <<state, profile, recorded, metrics, server_crashed>>
        /\ UNCHANGED <<server, records, profiler>>
    BY <2>1, Unchanged DEF controllerVars, workerVars, pipes, serverVars
  <2>3. Stage'
    BY <2>2, StageUnchanged DEF IInv
  <2>4. RowInv'
    BY <2>2, Zenon DEF IInv, RowInv
  <2>5. CleanInv'
    BY <2>2 DEF IInv, CleanInv, Served, Alive, WorkerEnded, ServerEnded, ProfilerEnded
  <2> QED BY <2>1, <2>3, <2>4, <2>5, PipesUnchanged DEF IInv
<1> QED BY <1>1, <1>2, <1>3, <1>4, <1>5 DEF Next, WorkerStep

(* At every step of the controller, each worker and its two pipes are where  *)
(* the protocol wants them, or the worker has gone.                          *)
THEOREM TrialInvariant == Spec => []IInv
BY IInvInit, IInvStep, PTL DEF Spec

(* When the server is told to count, no worker runs the warm-up any more and *)
(* none has been told of the measured phase: wait_for_metrics comes after    *)
(* receive_worker_messages and before send.                                  *)
THEOREM MeasurementIsSeparate == Spec => []WarmupIsOver
<1>1. IInv => WarmupIsOver
  BY DEF IInv, Stage, StageOf, WarmupIsOver, Waits, In, Alive
<1> QED BY <1>1, TrialInvariant, PTL

(* However workers, server and profiler fail, classify_result calls a row    *)
(* valid only if all of the trial was measured.                              *)
THEOREM ValidRowsAreMeasured == Spec => []ValidMeansMeasured
<1>1. IInv => ValidMeansMeasured
  BY DEF IInv, RowInv, ValidMeansMeasured, valid
<1> QED BY <1>1, TrialInvariant, PTL

-----------------------------------------------------------------------------
(* What runs and is not recorded.                                            *)

Windows == {"prepare", "record worker", "bind profiler"}

UnrecordedInv ==
  /\ \A p, q \in Left \ recorded : p = q
  /\ Left \ recorded # {} => interrupted \/ step \in Windows
  /\ step \in {"start server", "prepare"} => Left \subseteq {Server}
  /\ step = "record worker" => Left \ recorded \subseteq {Worker(next)}
  /\ step = "bind profiler" => Left \ recorded \subseteq {Profiler}
  /\ interrupted => step \in CleanUpSteps \ {"done"}

(* Steps that start nothing.                                                 *)
LEMMA Ends ==
  ASSUME UnrecordedInv, Left' \subseteq Left, recorded' = recorded, interrupted' = interrupted,
         \/ step' = step /\ next' = next
         \/ /\ step' \notin Windows \cup {"start server"}
            /\ step \notin Windows
            /\ interrupted => step' \in CleanUpSteps \ {"done"}
  PROVE  UnrecordedInv'
BY DEF UnrecordedInv, Windows

LEMMA LeftShrinks ==
  ASSUME \A w \in Workers : Alive(w)' => Alive(w),
         server' = "up" => server = "up",
         profiler' \in {"running", "stuck"} => profiler \in {"running", "stuck"}
  PROVE  Left' \subseteq Left
BY DEF Left

LEMMA Starts ==
  ASSUME IInv, UnrecordedInv, StartServer \/ StartWorker \/ StartProfiler
  PROVE  UnrecordedInv'
<1>1. interrupted' = interrupted /\ recorded' = recorded /\ ~interrupted
  BY Unchanged DEF StartServer, StartWorker, StartProfiler, UnrecordedInv, CleanUpSteps
<1>2. Left \subseteq recorded
  <2>1. step \notin Windows
    BY DEF StartServer, StartWorker, StartProfiler, Windows
  <2> QED BY <1>1, <2>1 DEF UnrecordedInv
<1>3. CASE StartServer
  <2>1. /\ step = "start server" /\ step' \in {"prepare", "raised"}
        /\ UNCHANGED <<worker, profiler>>
        /\ step' = "raised" => server' = server
    BY <1>3 DEF StartServer, Goto, workerVars
  <2>2. recorded = {}
    BY <2>1 DEF IInv, CleanInv
  <2>3. Left' \subseteq {Server} /\ (step' = "raised" => Left' = {})
    BY <1>2, <2>1, <2>2 DEF Left, Alive
  <2> QED BY <1>1, <2>1, <2>3 DEF UnrecordedInv, Windows
<1>4. CASE StartWorker
  <2>1. CASE Raise("error") /\ UNCHANGED worker
    <3>1. Left' = Left /\ step' = "clean up"
      BY <1>4, <2>1 DEF StartWorker, Left, Alive, Raise, Goto, serverVars
    <3> QED BY <1>1, <1>2, <3>1 DEF UnrecordedInv
  <2>2. CASE /\ worker' = [worker EXCEPT ![next] = "connecting"]
             /\ step' = "record worker" /\ next' = next
    <3>1. /\ step' = "record worker" /\ next' = next
          /\ \A w \in Workers \ {next} : worker'[w] = worker[w]
          /\ UNCHANGED <<server, profiler>>
      BY <1>4, <2>2 DEF StartWorker, serverVars, IInv, PipesTyped
    <3>2. \A w \in Workers : Alive(w)' => Alive(w) \/ w = next
      BY <3>1 DEF Alive
    <3>3. Left' \subseteq Left \cup {Worker(next)}
      BY <3>1, <3>2 DEF Left
    <3> QED BY <1>1, <1>2, <3>1, <3>3 DEF UnrecordedInv, Windows
  <2> QED BY <1>4, <2>1, <2>2 DEF StartWorker
<1>5. CASE StartProfiler
  <2>1. /\ UNCHANGED <<worker, server>>
        /\ \/ step' = "bind profiler"
           \/ step' \in {"start metrics", "clean up"} /\ profiler' = profiler
    BY <1>5 DEF StartProfiler, Raise, Goto, workerVars
  <2>2. Left' \subseteq Left \cup {Profiler} /\ (profiler' = profiler => Left' = Left)
    BY <2>1 DEF Left, Alive
  <2> QED BY <1>1, <1>2, <2>1, <2>2 DEF UnrecordedInv, Windows
<1> QED BY <1>3, <1>4, <1>5

LEMMA Records ==
  ASSUME IInv, UnrecordedInv, EnterTry \/ RecordWorker \/ BindProfiler
  PROVE  UnrecordedInv'
<1>1. /\ UNCHANGED <<worker, server, profiler>> /\ interrupted' = interrupted
      /\ step' \in {"start workers", "receive connected", "start metrics"}
  BY DEF EnterTry, RecordWorker, BindProfiler, Goto, row, workerVars, serverVars
<1>2. /\ Left' = Left
  BY <1>1 DEF Left, Alive
<1>3. Left \subseteq recorded'
  BY DEF EnterTry, RecordWorker, BindProfiler, UnrecordedInv
<1>4. ~interrupted
  BY DEF EnterTry, RecordWorker, BindProfiler, UnrecordedInv, CleanUpSteps
<1> QED BY <1>1, <1>2, <1>3, <1>4 DEF UnrecordedInv

LEMMA Interrupts ==
  ASSUME UnrecordedInv, Interrupt
  PROVE  UnrecordedInv'
<1>1. /\ UNCHANGED <<worker, server, profiler>> /\ interrupted' /\ recorded' = recorded
      /\ step' \in {"clean up", "raised"}
  BY DEF Interrupt, Goto, workerVars, serverVars
<1>2. Left' = Left
  BY <1>1 DEF Left, Alive
<1> QED BY <1>1, <1>2 DEF UnrecordedInv, CleanUpSteps

(* All other steps start nothing and record nothing.                         *)
LEMMA OthersOnlyEnd ==
  ASSUME IInv, Controller,
         ~(StartServer \/ StartWorker \/ StartProfiler),
         ~(EnterTry \/ RecordWorker \/ BindProfiler)
  PROVE  /\ Left' \subseteq Left /\ recorded' = recorded /\ interrupted' = interrupted
         /\ step' \notin Windows \cup {"start server"} /\ step \notin Windows
         /\ interrupted /\ step \in CleanUpSteps \ {"done"} => step' \in CleanUpSteps \ {"done"}
<1>1. \/ Receive \/ EndOfPipe \/ TimeOut \/ SendSetup \/ SendWarmup \/ CheckWarmup
      \/ StartMetrics \/ BadMetrics \/ SendMeasured \/ Measure \/ StopMetrics
      \/ StopProfiler \/ Merge \/ CleanUp \/ SendClose \/ Join \/ StopServer
  BY DEF Controller
<1>2. recorded' = recorded /\ interrupted' = interrupted
  BY <1>1, Unchanged
  DEF Receive, EndOfPipe, TimeOut, SendSetup, SendWarmup, CheckWarmup, StartMetrics, BadMetrics,
      SendMeasured, Measure, StopMetrics, StopProfiler, Merge, CleanUp, SendClose, Join, StopServer
<1>3. Left' \subseteq Left
  <2>1. \A w \in Workers : Alive(w)' => Alive(w)
    <3>1. CASE Join
      BY <3>1 DEF Join, Alive, IInv, PipesTyped
    <3>2. CASE ~Join
      <4>1. worker' = worker
        BY <1>1, <3>2
        DEF Receive, EndOfPipe, TimeOut, SendSetup, SendWarmup, CheckWarmup, StartMetrics,
            BadMetrics, SendMeasured, Measure, StopMetrics, StopProfiler, Merge, CleanUp,
            SendClose, StopServer, workerVars
      <4> QED BY <4>1 DEF Alive
    <3> QED BY <3>1, <3>2
  <2>2. server' = "up" => server = "up"
    BY <1>1
    DEF Receive, EndOfPipe, TimeOut, SendSetup, SendWarmup, CheckWarmup, StartMetrics, BadMetrics,
        SendMeasured, Measure, StopMetrics, StopProfiler, Merge, CleanUp, SendClose, Join,
        StopServer, serverVars
  <2>3. profiler' \in {"running", "stuck"} => profiler \in {"running", "stuck"}
    BY <1>1
    DEF Receive, EndOfPipe, TimeOut, SendSetup, SendWarmup, CheckWarmup, StartMetrics, BadMetrics,
        SendMeasured, Measure, StopMetrics, StopProfiler, Merge, CleanUp, SendClose, Join,
        StopServer, serverVars, ProfilerStops, ProfilerIsStuck
  <2> QED BY <2>1, <2>2, <2>3, LeftShrinks
<1>4. step' \notin Windows \cup {"start server"} /\ step \notin Windows
  <2>1. CASE Receive \/ EndOfPipe \/ TimeOut
    BY <2>1 DEF Receive, EndOfPipe, TimeOut, Receiving, Expected, None, Raise, NextWorkerOr, Goto,
                After, AfterWarmup, Windows
  <2>2. CASE SendSetup \/ SendWarmup \/ SendMeasured \/ SendClose \/ CheckWarmup
    BY <2>2 DEF SendSetup, SendWarmup, SendMeasured, SendClose, SendAll, CheckWarmup, Raise, Goto,
                AfterWarmup, Windows
  <2>3. CASE \/ StartMetrics \/ BadMetrics \/ Measure \/ StopMetrics \/ StopProfiler \/ Merge
             \/ CleanUp \/ Join \/ StopServer
    BY <2>3 DEF StartMetrics, BadMetrics, Measure, StopMetrics, StopProfiler, Merge, CleanUp, Join,
                StopServer, NextWorkerOr, Raise, Goto, Windows
  <2> QED BY <1>1, <2>1, <2>2, <2>3
<1>5. interrupted /\ step \in CleanUpSteps \ {"done"} => step' \in CleanUpSteps \ {"done"}
  <2> SUFFICES ASSUME interrupted, step \in CleanUpSteps
               PROVE  step' \in CleanUpSteps \ {"done"}
    OBVIOUS
  <2>1. CleanUp \/ SendClose \/ Join \/ StopServer
    BY <1>1
    DEF Receive, EndOfPipe, TimeOut, Receiving, Expected, None, SendSetup, SendWarmup, CheckWarmup,
        StartMetrics, BadMetrics, SendMeasured, Measure, StopMetrics, StopProfiler, Merge,
        CleanUpSteps
  <2> QED BY <2>1 DEF CleanUp, SendClose, Join, StopServer, NextWorkerOr, Goto, CleanUpSteps
<1> QED BY <1>2, <1>3, <1>4, <1>5

LEMMA UnrecordedNext == IInv /\ UnrecordedInv /\ [Next]_vars => UnrecordedInv'
<1> SUFFICES ASSUME IInv, UnrecordedInv, [Next]_vars
             PROVE  UnrecordedInv'
  OBVIOUS
<1>1. CASE Controller
  <2>1. CASE ~(\/ StartServer \/ StartWorker \/ StartProfiler
               \/ EnterTry \/ RecordWorker \/ BindProfiler)
    <3>1. interrupted => step \in CleanUpSteps \ {"done"}
      BY DEF UnrecordedInv
    <3> QED BY <1>1, <2>1, <3>1, OthersOnlyEnd, Ends
  <2> QED BY <2>1, Starts, Records
<1>2. ASSUME NEW w \in Workers, WorkerStep(w)
      PROVE  UnrecordedInv'
  <2>1. UNCHANGED <<step, next, recorded, interrupted, server, profiler>>
    BY <1>2, WorkerStepIsLocal DEF IInv, controllerVars, trialVars, row, serverVars
  <2>2. \A v \in Workers : Alive(v)' => Alive(v)
    BY <1>2, WorkerStepIsLocal DEF IInv, Alive
  <2> QED BY <2>1, <2>2, LeftShrinks, Ends
<1>3. CASE ServerCrashes \/ ProfilerEnds
  <2>1. /\ UNCHANGED <<step, next, recorded, interrupted, worker>>
        /\ server' = "up" => server = "up"
        /\ profiler' \in {"running", "stuck"} => profiler \in {"running", "stuck"}
    BY <1>3 DEF ServerCrashes, ProfilerEnds, controllerVars, trialVars, row, workerVars
  <2>2. Left' \subseteq Left
    BY <2>1, LeftShrinks DEF Alive
  <2> QED BY <2>1, <2>2, Ends
<1>4. CASE Interrupt
  BY <1>4, Interrupts
<1>5. CASE UNCHANGED vars
  <2>1. UNCHANGED <<step, next, recorded, interrupted, worker, server, profiler>>
    BY <1>5 DEF vars, controllerVars, trialVars, row, workerVars, serverVars
  <2>2. Left' = Left
    BY <2>1 DEF Left, Alive
  <2> QED BY <2>1, <2>2, Ends
<1> QED BY <1>1, <1>2, <1>3, <1>4, <1>5 DEF Next, WorkerStep

(* The finally block of run_trial leaves none of the processes behind that   *)
(* run_trial has recorded, unless a profiler outlives SIGTERM; an interrupt  *)
(* costs at most the one process whose start it cut short, and a trial that  *)
(* gives a row leaves nothing at all.                                        *)
THEOREM TrialCleansUp == Spec => []NothingLeftRunning
<1>1. Init => UnrecordedInv
  <2> SUFFICES ASSUME Init
               PROVE  UnrecordedInv
    OBVIOUS
  <2>1. /\ step = "start server" /\ interrupted = FALSE
        /\ server = "not started" /\ profiler = "none"
        /\ worker = [w \in Workers |-> "not started"]
    BY Zenon DEF Init
  <2>2. Left = {}
    BY <2>1 DEF Left, Alive
  <2> QED BY <2>1, <2>2 DEF UnrecordedInv, CleanUpSteps
<1>2. IInv /\ UnrecordedInv /\ [Next]_vars => UnrecordedInv'
  BY UnrecordedNext
<1>3. IInv /\ UnrecordedInv => NothingLeftRunning
  <2> SUFFICES ASSUME IInv, UnrecordedInv
               PROVE  NothingLeftRunning
    OBVIOUS
  <2>1. CASE step = "done"
    <3>1. ~interrupted /\ Left \subseteq recorded
      BY <2>1 DEF UnrecordedInv, Windows
    <3>2. (\A w \in Workers : WorkerEnded(w)) /\ ProfilerEnded /\ server # "up"
      BY <2>1 DEF IInv, CleanInv, Cleaned
    <3>3. Left = {}
      BY <3>1, <3>2 DEF Left, WorkerEnded, ProfilerEnded
    <3> QED BY <2>1, <3>3 DEF NothingLeftRunning
  <2>2. CASE step = "raised" /\ ~(Profiler \in recorded /\ profiler = "stuck")
    <3>1. (\A w \in Workers : WorkerEnded(w)) /\ ServerEnded /\ ProfilerEnded
      BY <2>2 DEF IInv, CleanInv
    <3>2. Left \cap recorded = {}
      BY <3>1 DEF Left, WorkerEnded, ServerEnded, ProfilerEnded
    <3>3. Left \ recorded # {} => interrupted
      BY <2>2 DEF UnrecordedInv, Windows
    <3> QED BY <2>2, <3>2, <3>3 DEF NothingLeftRunning, UnrecordedInv
  <2> QED BY <2>1, <2>2 DEF NothingLeftRunning
<1> QED BY <1>1, <1>2, <1>3, TrialInvariant, PTL DEF Spec

-----------------------------------------------------------------------------
(* What is in the pipes at most, when nobody waits for an answer any more.   *)

Orders == {Message("setup_complete"), Phase(Warmup), Phase(Measured)}
Close == Message("close")
Closing == {"join", "stop server", "done", "raised"}

NoOrder(w) == toWorker[w] \in {<< >>, <<Close>>}
Ordered(w) == \E m \in Orders : toWorker[w] \in {<<m>>, <<m, Close>>}
NotClosed(w) == toWorker[w] = << >> \/ \E m \in Orders : toWorker[w] = <<m>>

Short(w) ==
  /\ \/ NoOrder(w)
     \/ Ordered(w) /\ worker[w] \in {"connected", "blocked", "exited"}
  /\ step \notin Closing => NotClosed(w)
  /\ \/ toController[w] = << >>
     \/ \E m : toController[w] = <<m>> /\ \/ worker[w] \in {"connected", "blocked"} /\ NoOrder(w)
                                          \/ worker[w] = "exited"
     \/ \E m, n : toController[w] = <<m, n>> /\ worker[w] = "exited"

Steps ==
  BeforeMetrics \cup WhileMetrics \cup {"stop profiler", "receive results", "merged"}
    \cup CleanUpSteps

ShortInv ==
  /\ step \in Steps
  /\ state.disconnects \subseteq Workers
  /\ step \in CleanUpSteps => \A w \in Workers : Short(w)

LEMMA Pairs ==
  ASSUME NEW m, NEW n
  PROVE  /\ Append(<<m>>, n) = <<m, n>> /\ Len(<<m, n>>) = 2 /\ <<m, n>> # << >>
         /\ Head(<<m, n>>) = m /\ Tail(<<m, n>>) = <<n>>
<1>1. <<m>> \in Seq({m, n}) /\ <<m, n>> \in Seq({m, n}) /\ Len(<<m>>) = 1 /\ Len(<<m, n>>) = 2
      /\ <<m, n>>[1] = m /\ <<m, n>>[2] = n /\ <<m>>[1] = m
  OBVIOUS
<1>2. /\ Append(<<m>>, n) \in Seq({m, n}) /\ Len(Append(<<m>>, n)) = 2
      /\ Append(<<m>>, n)[1] = m /\ Append(<<m>>, n)[2] = n
  BY <1>1, AppendProperties
<1>3. Append(<<m>>, n) = <<m, n>>
  <2>1. \A i \in 1 .. 2 : Append(<<m>>, n)[i] = <<m, n>>[i]
    BY <1>1, <1>2
  <2> QED BY <1>1, <1>2, <2>1, SeqEqual
<1> QED BY <1>1, <1>3, TwoMessages

LEMMA OrdersAndClose ==
  /\ Close.type = "close"
  /\ \A m \in Orders : m.type \in {"setup_complete", "phase"} /\ m # Close
<1>1. /\ Message("setup_complete").type = "setup_complete" /\ Close.type = "close"
      /\ Phase(Warmup).type = "phase" /\ Phase(Measured).type = "phase"
  BY DEF Message, Phase, Close
<1>2. \A m \in Orders : m.type \in {"setup_complete", "phase"}
  BY <1>1 DEF Orders
<1> QED BY <1>1, <1>2

(* As long as somebody does.                                                 *)
LEMMA StageIsShort ==
  ASSUME Stage, step \in Steps \ CleanUpSteps, NEW w \in Workers
  PROVE  Short(w)
<1>1. step \notin Closing
  BY DEF CleanUpSteps, Closing
<1>2. \A place \in {"connecting", "connected", "blocked", "running"} :
        Waits(w, place) => Short(w)
  BY <1>1 DEF Waits, In, Silent, Short, NoOrder, NotClosed
<1>3. \A place \in {"connected", "blocked"}, m \in Orders : Told(w, place, m) => Short(w)
  BY <1>1 DEF Told, In, Silent, Short, Ordered, NotClosed
<1>4. \A place \in {"connected", "blocked"} : \A m : Answered(w, place, m) => Short(w)
  BY <1>1, Pairs DEF Answered, In, HasAnswered, Short, NoOrder, NotClosed
<1>5. NotStarted(w) => Short(w)
  BY <1>1 DEF NotStarted, Short, NoOrder, NotClosed
<1>6. /\ OwesConnected(w) => Short(w)
      /\ OwesReady(w) => Short(w)
      /\ \A p \in {Warmup, Measured} : OwesResult(w, p) => Short(w)
  BY <1>2, <1>3, <1>4 DEF OwesConnected, OwesReady, OwesResult, Orders
<1>7. step \in BeforeMetrics \cup WhileMetrics \cup {"stop profiler", "receive results", "merged"}
  BY DEF Steps
<1> QED BY <1>2, <1>5, <1>6, <1>7 DEF Stage, StageOf, BeforeMetrics, WhileMetrics

(* Nothing is sent, and workers at most exit.                                *)
LEMMA StaysShort ==
  ASSUME NEW w, Short(w), step' \in Closing \/ step \notin Closing,
         worker'[w] \in {worker[w], "exited"}, toWorker'[w] = toWorker[w],
         \/ toController'[w] = toController[w]
         \/ toController[w] # << >> /\ toController'[w] = Tail(toController[w])
  PROVE  Short(w)'
<1>1. /\ NoOrder(w)' <=> NoOrder(w)
      /\ Ordered(w)' <=> Ordered(w)
      /\ NotClosed(w)' <=> NotClosed(w)
  BY DEF NoOrder, Ordered, NotClosed
<1>2. CASE toController'[w] = toController[w]
  BY <1>1, <1>2 DEF Short
<1>3. CASE toController[w] # << >> /\ toController'[w] = Tail(toController[w])
  <2>1. \/ toController'[w] = << >>
        \/ \E m : toController'[w] = <<m>> /\ worker[w] = "exited"
    <3>1. CASE \E m : toController[w] = <<m>>
      BY <1>3, <3>1, OneMessage
    <3>2. CASE \E m, n : toController[w] = <<m, n>> /\ worker[w] = "exited"
      <4>1. PICK m, n : toController[w] = <<m, n>>
        BY <3>2
      <4>2. toController'[w] = <<n>>
        BY <1>3, <4>1, Pairs
      <4> QED BY <3>2, <4>2
    <3> QED BY <1>3, <3>1, <3>2 DEF Short
  <2> QED BY <1>1, <2>1 DEF Short
<1> QED BY <1>2, <1>3

(* A worker that has a command takes it, and then answers.                   *)
LEMMA WorkerStaysShort ==
  ASSUME PipesTyped, NEW w \in Workers, WorkerStep(w), Short(w), step' = step
  PROVE  Short(w)'
<1> USE DEF PipesTyped, Becomes, Sends, Takes, pipes, workerVars
<1>1. CASE Connected(w)
  <2>1. /\ worker[w] = "connecting" /\ worker'[w] = "connected" /\ toWorker' = toWorker
        /\ toController'[w] = Append(toController[w], Message("connected"))
    BY <1>1 DEF Connected
  <2>2. NoOrder(w) /\ toController[w] = << >>
    BY <2>1 DEF Short
  <2> QED BY <2>1, <2>2, OneMessage, ZenonT(60) DEF Short, NoOrder, NotClosed
<1>2. CASE Reports(w)
  <2>1. /\ worker[w] = "running" /\ worker'[w] = "blocked" /\ toWorker' = toWorker
        /\ \E d \in BOOLEAN :
             toController'[w] = Append(toController[w], Result(running[w], d))
    BY <1>2 DEF Reports
  <2>2. NoOrder(w) /\ toController[w] = << >>
    BY <2>1 DEF Short
  <2> QED BY <2>1, <2>2, OneMessage, ZenonT(60) DEF Short, NoOrder, NotClosed
<1>3. CASE SetupComplete(w) \/ StartsPhase(w)
  <2>1. /\ worker[w] \in {"connected", "blocked"} /\ worker'[w] \in {"blocked", "running"}
        /\ toWorker[w] # << >> /\ toWorker'[w] = Tail(toWorker[w])
        /\ Head(toWorker[w]).type \in {"setup_complete", "phase"}
        /\ \/ toController' = toController /\ worker'[w] = "running"
           \/ /\ toController'[w] = Append(toController[w], Message("ready"))
              /\ worker'[w] = "blocked"
    BY <1>3 DEF SetupComplete, StartsPhase
  <2>2. PICK m \in Orders : toWorker[w] \in {<<m>>, <<m, Close>>}
    <3>1. toWorker[w] # <<Close>>
      <4>1. Head(<<Close>>) = Close
        BY OneMessage
      <4> QED BY <2>1, <4>1, OrdersAndClose
    <3> QED BY <2>1, <3>1 DEF Short, NoOrder, Ordered
  <2>3. toController[w] = << >>
    <3>1. ~NoOrder(w)
      <4>1. /\ Head(<<m>>) = m /\ Head(<<m, Close>>) = m /\ Head(<<Close>>) = Close /\ m # Close
            /\ <<m>> # << >> /\ <<m, Close>> # << >>
        BY OneMessage, Pairs, OrdersAndClose
      <4> QED BY <2>2, <4>1 DEF NoOrder
    <3> QED BY <2>1, <3>1 DEF Short
  <2>4. toWorker'[w] \in {<< >>, <<Close>>}
    <3>1. Tail(<<m>>) = << >> /\ Tail(<<m, Close>>) = <<Close>>
      BY OneMessage, Pairs
    <3> QED BY <2>1, <2>2, <3>1
  <2>5. step \notin Closing => toWorker'[w] = << >>
    <3>1. ASSUME NEW n \in Orders, toWorker[w] = <<n>>
          PROVE  toWorker'[w] = << >>
      BY <2>1, <3>1, OneMessage
    <3> QED BY <2>1, <3>1 DEF Short, NotClosed
  <2>6. NoOrder(w)'
    BY <2>4 DEF NoOrder
  <2>7. step' \notin Closing => NotClosed(w)'
    BY <2>5 DEF NotClosed
  <2>8. \/ toController'[w] = << >>
        \/ toController'[w] = <<Message("ready")>> /\ worker'[w] = "blocked"
    BY <2>1, <2>3, OneMessage
  <2> QED BY <2>6, <2>7, <2>8 DEF Short
<1>4. CASE Closes(w)
  <2>1. /\ worker[w] = "blocked" /\ worker'[w] = "exited" /\ toController' = toController
        /\ toWorker[w] # << >> /\ toWorker'[w] = Tail(toWorker[w])
        /\ Head(toWorker[w]).type = "close"
    BY <1>4 DEF Closes
  <2>2. \A m \in Orders : Head(toWorker[w]) # m
    BY <2>1, OrdersAndClose
  <2>3. toWorker[w] = <<Close>>
    <3>1. \A m \in Orders : toWorker[w] \notin {<<m>>, <<m, Close>>}
      <4> TAKE m \in Orders
      <4>1. Head(<<m>>) = m /\ Head(<<m, Close>>) = m
        BY OneMessage, Pairs
      <4> QED BY <2>2, <4>1
    <3> QED BY <2>1, <3>1 DEF Short, NoOrder, Ordered
  <2>4. toWorker'[w] = << >>
    BY <2>1, <2>3, OneMessage
  <2> QED BY <2>1, <2>4 DEF Short, NoOrder, NotClosed
<1>5. CASE Fails(w)
  <2>1. /\ Alive(w) /\ worker'[w] = "exited" /\ toWorker' = toWorker
        /\ toController'[w] = Append(toController[w], Error)
    BY <1>5 DEF Fails, Error
  <2>2. toController[w] = << >> \/ \E m : toController[w] = <<m>>
    BY <2>1 DEF Short, Alive
  <2>3. (\E m : toController'[w] = <<m>>) \/ \E m, n : toController'[w] = <<m, n>>
    <3>1. CASE toController[w] = << >>
      BY <2>1, <3>1, OneMessage
    <3>2. ASSUME NEW m, toController[w] = <<m>>
          PROVE  toController'[w] = <<m, Error>>
      BY <2>1, <3>2, Pairs
    <3> QED BY <2>2, <3>1, <3>2
  <2> QED BY <2>1, <2>3 DEF Short, NoOrder, Ordered, NotClosed
<1>6. CASE Killed(w)
  <2>1. worker'[w] = "exited" /\ UNCHANGED <<toWorker, toController>>
    BY <1>6 DEF Killed
  <2> QED BY <2>1, StaysShort
<1> QED BY <1>1, <1>2, <1>3, <1>4, <1>5, <1>6 DEF WorkerStep

LEMMA AllAreShort ==
  ASSUME IInv, ShortInv
  PROVE  \A w \in Workers : Short(w)
BY StageIsShort DEF IInv, ShortInv

(* The orders and the final `close'.                                         *)
LEMMA SentIsShort ==
  ASSUME IInv, SendSetup \/ SendWarmup \/ SendMeasured, step' \in CleanUpSteps
  PROVE  \A w \in Workers : Short(w)'
<1>1. /\ step' = "clean up" /\ UNCHANGED <<worker, toController>>
      /\ \E message \in Orders, sentTo \in SUBSET Workers :
           toWorker' = [w \in Workers |->
                          IF w \in sentTo THEN Append(toWorker[w], message) ELSE toWorker[w]]
  BY DEF SendSetup, SendWarmup, SendMeasured, SendAll, Raise, Goto, workerVars, CleanUpSteps,
         Orders
<1>2. PICK message \in Orders, sentTo \in SUBSET Workers :
        toWorker' = [w \in Workers |->
                       IF w \in sentTo THEN Append(toWorker[w], message) ELSE toWorker[w]]
  BY <1>1
<1> SUFFICES ASSUME NEW w \in Workers
             PROVE  Short(w)'
  OBVIOUS
<1>3. Waits(w, "connected") \/ Waits(w, "blocked")
  BY DEF SendSetup, SendWarmup, SendMeasured, IInv, Stage, StageOf
<1>4. /\ worker[w] \in {"connected", "blocked", "exited"} /\ toWorker[w] = << >>
      /\ toController[w] = << >> \/ (toController[w] = <<Error>> /\ worker[w] = "exited")
  BY <1>3 DEF Waits, In, Silent
<1>5. toWorker'[w] = << >> \/ toWorker'[w] = <<message>>
  BY <1>2, <1>4, OneMessage
<1> QED BY <1>1, <1>4, <1>5 DEF Short, NoOrder, Ordered, NotClosed

LEMMA ClosedIsShort ==
  ASSUME SendClose, NEW w \in Workers, Short(w)
  PROVE  Short(w)'
<1>1. /\ step = "close" /\ step' = "join" /\ UNCHANGED <<worker, toController>>
      /\ toWorker'[w] = IF Alive(w) /\ Worker(w) \in recorded
                           THEN Append(toWorker[w], Close) ELSE toWorker[w]
  BY DEF SendClose, Goto, workerVars, Close
<1>2. NotClosed(w) /\ step' \in Closing
  BY <1>1 DEF Short, Closing
<1>3. CASE toWorker'[w] = toWorker[w]
  BY <1>1, <1>2, <1>3 DEF Short, NoOrder, Ordered
<1>4. CASE Alive(w) /\ Worker(w) \in recorded /\ toWorker[w] = << >>
  <2>1. toWorker'[w] = <<Close>>
    BY <1>1, <1>4, OneMessage
  <2> QED BY <1>1, <1>2, <1>4, <2>1 DEF Short, NoOrder, Ordered
<1>5. ASSUME Alive(w), Worker(w) \in recorded, NEW m \in Orders, toWorker[w] = <<m>>
      PROVE  Short(w)'
  <2>1. toWorker'[w] = <<m, Close>>
    BY <1>1, <1>5, Pairs
  <2>2. <<m>> # << >> /\ <<m>> # <<Close>>
    BY OneMessage, OrdersAndClose
  <2>3. Ordered(w)' /\ ~NoOrder(w)
    BY <1>5, <2>1, <2>2 DEF Ordered, NoOrder
  <2> QED BY <1>1, <1>2, <1>5, <2>3 DEF Short
<1> QED BY <1>1, <1>2, <1>3, <1>4, <1>5 DEF NotClosed

(* All other steps of the controller.                                        *)
OtherStep ==
  \/ StartServer \/ EnterTry \/ StartWorker \/ RecordWorker
  \/ Receive \/ EndOfPipe \/ TimeOut \/ CheckWarmup \/ StartProfiler \/ BindProfiler
  \/ StartMetrics \/ BadMetrics \/ Measure \/ StopMetrics \/ StopProfiler \/ Merge
  \/ CleanUp \/ Join \/ StopServer
  \/ ServerCrashes \/ ProfilerEnds \/ Interrupt \/ UNCHANGED vars

LEMMA OthersAreShort ==
  ASSUME IInv, ShortInv, OtherStep, step' \in CleanUpSteps
  PROVE  \A w \in Workers : Short(w)'
<1>1. step' \in Closing \/ step \notin Closing
  BY DEF OtherStep, StartServer, EnterTry, StartWorker, RecordWorker, Receive, Receiving,
         Expected, EndOfPipe, TimeOut, CheckWarmup, StartProfiler, BindProfiler, StartMetrics,
         BadMetrics, Measure, StopMetrics, StopProfiler, Merge,
         CleanUp, Join, StopServer, ServerCrashes, ProfilerEnds, Interrupt, vars, controllerVars,
         NextWorkerOr, Goto, Closing, None
<1>2. \/ UNCHANGED <<worker, toWorker, toController>>
      \/ Receive /\ UNCHANGED <<worker, toWorker>>
      \/ step = "start workers" /\ step' \notin CleanUpSteps
      \/ Join /\ UNCHANGED <<toWorker, toController>>
  <2>1. CASE StartWorker
    <3>1. \/ UNCHANGED <<worker, toWorker, toController>>
          \/ /\ step = "start workers"
             /\ step' = "record worker"
      BY <2>1 DEF StartWorker, Raise, pipes
    <3> QED BY <3>1 DEF CleanUpSteps
  <2>2. CASE Receive \/ Join
    BY <2>2 DEF Receive, Join, workerVars, pipes
  <2>3. CASE ~(StartWorker \/ Receive \/ Join)
    BY <2>3 DEF OtherStep, StartServer, EnterTry, RecordWorker, EndOfPipe, TimeOut, CheckWarmup,
                StartProfiler, BindProfiler, StartMetrics,
                BadMetrics, Measure, StopMetrics, StopProfiler, Merge, CleanUp, StopServer,
                ServerCrashes, ProfilerEnds, Interrupt, vars, workerVars, pipes
  <2> QED BY <2>1, <2>2, <2>3
<1> SUFFICES ASSUME NEW w \in Workers
             PROVE  Short(w)'
  OBVIOUS
<1>3. Short(w) /\ PipesTyped
  BY AllAreShort DEF IInv
<1>4. worker'[w] \in {worker[w], "exited"} /\ toWorker'[w] = toWorker[w]
  BY <1>2, <1>3 DEF Join, PipesTyped
<1>5. \/ toController'[w] = toController[w]
      \/ toController[w] # << >> /\ toController'[w] = Tail(toController[w])
  BY <1>2, <1>3 DEF Receive, PipesTyped
<1> QED BY <1>1, <1>3, <1>4, <1>5, StaysShort

LEMMA ShortNext ==
  ASSUME IInv, ShortInv, [Next]_vars
  PROVE  ShortInv'
<1>1. CASE \E w \in Workers : WorkerStep(w)
  <2>1. PICK w \in Workers : WorkerStep(w)
    BY <1>1
  <2>2. /\ step' = step /\ state' = state
        /\ \A v \in Workers \ {w} :
             /\ worker'[v] = worker[v] /\ toWorker'[v] = toWorker[v]
             /\ toController'[v] = toController[v]
    BY <2>1, WorkerStepIsLocal DEF IInv, controllerVars, trialVars, row
  <2>3. \A v \in Workers : Short(v)'
    <3> TAKE v \in Workers
    <3>1. Short(v)
      BY AllAreShort
    <3>2. CASE v = w
      BY <2>1, <2>2, <3>1, <3>2, WorkerStaysShort DEF IInv
    <3>3. CASE v # w
      BY <2>2, <3>1, <3>3, StaysShort
    <3> QED BY <3>2, <3>3
  <2> QED BY <2>2, <2>3 DEF ShortInv
<1>2. CASE ~\E w \in Workers : WorkerStep(w)
  <2>1. OtherStep \/ SendSetup \/ SendWarmup \/ SendMeasured \/ SendClose
    BY <1>2 DEF Next, Controller, WorkerStep, OtherStep
  <2>2. step' \in Steps
    <3>1. CASE \/ StartServer \/ EnterTry \/ StartWorker \/ RecordWorker
               \/ Receive \/ EndOfPipe \/ TimeOut \/ Join
      BY <3>1 DEF ShortInv, StartServer, EnterTry, StartWorker, RecordWorker, Receive, EndOfPipe,
                  TimeOut, Join, Raise, NextWorkerOr, Goto, After, AfterWarmup, Steps,
                  BeforeMetrics, WhileMetrics, CleanUpSteps
    <3>2. CASE \/ SendSetup \/ SendWarmup \/ SendMeasured \/ SendClose \/ CheckWarmup
               \/ StartProfiler \/ BindProfiler \/ StartMetrics \/ BadMetrics \/ Measure
      BY <3>2 DEF SendSetup, SendWarmup, SendMeasured, SendClose, SendAll, CheckWarmup,
                  StartProfiler, BindProfiler, StartMetrics, BadMetrics, Measure, Raise, Goto,
                  AfterWarmup,
                  Steps, BeforeMetrics, WhileMetrics, CleanUpSteps
    <3>3. CASE \/ StopMetrics \/ StopProfiler \/ Merge \/ CleanUp \/ StopServer
               \/ ServerCrashes \/ ProfilerEnds \/ Interrupt \/ UNCHANGED vars
      BY <3>3 DEF ShortInv, StopMetrics, StopProfiler, Merge, CleanUp, StopServer, ServerCrashes,
                  ProfilerEnds, Interrupt, vars, controllerVars, Raise, Goto, Steps,
                  BeforeMetrics, WhileMetrics, CleanUpSteps
    <3> QED BY <2>1, <3>1, <3>2, <3>3 DEF OtherStep
  <2>3. state'.disconnects \subseteq Workers
    <3>1. CASE Merge
      BY <3>1 DEF Merge, merge_states
    <3>2. CASE ~Merge
      <4>1. state' = state
        BY <2>1, <3>2 DEF OtherStep, StartServer, EnterTry, StartWorker, RecordWorker, Receive,
           EndOfPipe, TimeOut, CheckWarmup, StartProfiler, BindProfiler, StartMetrics,
           BadMetrics, Measure, StopMetrics, StopProfiler, CleanUp,
           Join, StopServer, ServerCrashes, ProfilerEnds, Interrupt, SendSetup, SendWarmup,
           SendMeasured, SendClose, vars, controllerVars, trialVars, row
      <4> QED BY <4>1 DEF ShortInv
    <3> QED BY <3>1, <3>2
  <2>4. ASSUME step' \in CleanUpSteps, NEW w \in Workers
        PROVE  Short(w)'
    <3>1. CASE OtherStep
      BY <2>4, <3>1, OthersAreShort
    <3>2. CASE SendSetup \/ SendWarmup \/ SendMeasured
      BY <2>4, <3>2, SentIsShort
    <3>3. CASE SendClose
      BY <3>3, AllAreShort, ClosedIsShort
    <3> QED BY <2>1, <3>1, <3>2, <3>3
  <2> QED BY <2>2, <2>3, <2>4 DEF ShortInv
<1> QED BY <1>1, <1>2

(* Commands and answers alternate: at no time does a pipe hold more than two *)
(* messages, and the second is a `close' or the error a worker died of, for  *)
(* any number of workers (the sends of run_trial and worker_main, none of    *)
(* which therefore waits for a reader).                                      *)
THEOREM PipesAreShort == Spec => []TypeOK
<1>1. Init => ShortInv
  <2> SUFFICES ASSUME Init
               PROVE  ShortInv
    OBVIOUS
  <2>1. step = "start server" /\ state = empty_state
    BY Zenon DEF Init
  <2>2. empty_state.disconnects = {}
    BY DEF empty_state
  <2> QED BY <2>1, <2>2 DEF ShortInv, Steps, BeforeMetrics, CleanUpSteps
<1>2. IInv /\ ShortInv /\ [Next]_vars => ShortInv'
  BY ShortNext
<1>3. IInv /\ ShortInv => TypeOK
  <2> SUFFICES ASSUME IInv, ShortInv
               PROVE  TypeOK
    OBVIOUS
  <2>1. next \in Workers /\ records \in 0 .. 2 /\ state.disconnects \subseteq Workers
    BY DEF IInv, RowInv, ShortInv
  <2>2. ASSUME NEW w \in Workers
        PROVE  /\ Len(toWorker[w]) <= 2 /\ Len(toController[w]) <= 2
               /\ worker[w] \in {"not started", "connecting", "connected", "blocked", "running",
                                 "exited"}
    <3>1. \A m : Len(<<m>>) = 1
      OBVIOUS
    <3>2. \A m, n : Len(<<m, n>>) = 2
      BY Pairs
    <3>3. Len(<< >>) = 0
      OBVIOUS
    <3>4. Short(w)
      BY AllAreShort
    <3>5. Len(toWorker[w]) \in {0, 1, 2}
      <4>1. \/ toWorker[w] = << >> \/ \E m : toWorker[w] = <<m>>
            \/ \E m, n : toWorker[w] = <<m, n>>
        BY <3>4 DEF Short, NoOrder, Ordered
      <4> QED BY <3>1, <3>2, <3>3, <4>1
    <3>6. Len(toController[w]) \in {0, 1, 2}
      <4>1. \/ toController[w] = << >> \/ \E m : toController[w] = <<m>>
            \/ \E m, n : toController[w] = <<m, n>>
        BY <3>4 DEF Short
      <4> QED BY <3>1, <3>2, <3>3, <4>1
    <3>7. worker[w] \in {"not started", "connecting", "connected", "blocked", "running",
                         "exited"}
      BY DEF IInv, PipesTyped
    <3>8. Len(toWorker[w]) <= 2 /\ Len(toController[w]) <= 2
      <4>1. \A n \in {0, 1, 2} : n <= 2
        OBVIOUS
      <4> QED BY <3>5, <3>6, <4>1, Zenon
    <3> QED BY <3>7, <3>8
  <2> QED BY <2>1, <2>2 DEF TypeOK
<1> QED BY <1>1, <1>2, <1>3, TrialInvariant, PTL DEF Spec

=============================================================================
