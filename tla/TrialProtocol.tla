--------------------------- MODULE TrialProtocol ---------------------------
(* One trial of the benchmark: run_trial, the controller, and worker_main,   *)
(* its workers, over pipes (bench/benchmark.py).  What a worker does in a    *)
(* phase is LoadWorker.                                                      *)
(*                                                                           *)
(* A worker may not start, fail with a message, be killed without one, or    *)
(* hang; the server may crash, or be slow to write its metrics; the profiler *)
(* may be missing, end or not die.  Every wait of the controller has a       *)
(* timeout, which may end it at any moment, and the user may interrupt it    *)
(* once, before it cleans up.  A process that has been started is cleaned up *)
(* after only if run_trial has got to record it.                             *)
EXTENDS Integers, Sequences, FiniteSets

CONSTANT NumWorkers

ASSUME TrialConstants == NumWorkers \in Nat \ {0}

Workers == 1 .. NumWorkers

VARIABLES
  step,         \* what the controller is doing
  next,         \* the worker whose pipe it reads or joins
  got,          \* the results received in a phase, by worker
  state,        \* the merged results of the measured phase
  warmup,       \* whether there is a warm-up
  profile,      \* whether the server is profiled
  interrupted,
  recorded,     \* the processes that the finally block would find
  harness_error, server_crashed, metrics,
  worker,       \* what each worker is doing
  running,      \* the phase it is in
  toWorker, toController,
  server,       \* "not started", "up", "crashed" or "stopped"
  records,      \* lines of the metrics file
  profiler      \* "none", "running", "stuck" (it has outlived SIGTERM) or "exited"

modes == <<warmup, profile>>
row == <<state, modes, interrupted, server_crashed, metrics>>
trialVars == <<row, recorded>>
controllerVars == <<step, next, got, harness_error, trialVars>>
workerVars == <<worker, running>>
pipes == <<toWorker, toController>>
serverVars == <<server, records, profiler>>
vars == <<controllerVars, workerVars, pipes, serverVars>>

Warmup == "warmup"
Measured == "measured"
None == "none"

(* harness_error, of an exception without a text too                         *)
NoError == ""

Message(type) == [type |-> type]
Phase(p) == [type |-> "phase", phase |-> p]
Result(p, disconnects) == [type |-> "result", phase |-> p, disconnects |-> disconnects]

(* The processes run_trial starts.                                           *)
Server == <<"server", 0>>
Profiler == <<"profiler", 0>>
Worker(w) == <<"worker", w>>

Alive(w) == worker[w] \notin {"not started", "exited"}

-----------------------------------------------------------------------------
(* Workers.                                                                  *)

Sends(w, message) == toController' = [toController EXCEPT ![w] = Append(@, message)]
Becomes(w, what) == worker' = [worker EXCEPT ![w] = what]
Takes(w) == toWorker' = [toWorker EXCEPT ![w] = Tail(@)]

(* All its clients are connected.                                            *)
Connected(w) ==
  /\ worker[w] = "connecting" /\ server = "up"
  /\ Becomes(w, "connected")
  /\ Sends(w, Message("connected"))
  /\ UNCHANGED <<controllerVars, running, toWorker, serverVars>>

SetupComplete(w) ==
  /\ worker[w] = "connected" /\ toWorker[w] # << >>
  /\ Head(toWorker[w]).type = "setup_complete"
  /\ Takes(w)
  /\ Becomes(w, "blocked")
  /\ Sends(w, Message("ready"))
  /\ UNCHANGED <<controllerVars, running, serverVars>>

StartsPhase(w) ==
  /\ worker[w] = "blocked" /\ toWorker[w] # << >>
  /\ Head(toWorker[w]).type = "phase"
  /\ Takes(w)
  /\ Becomes(w, "running")
  /\ running' = [running EXCEPT ![w] = Head(toWorker[w]).phase]
  /\ UNCHANGED <<controllerVars, toController, serverVars>>

(* Mutant: it runs on.                                                       *)
ReportsAgain(w) ==
  /\ worker[w] = "running"
  /\ \E disconnects \in BOOLEAN : Sends(w, Result(running[w], disconnects))
  /\ UNCHANGED <<controllerVars, workerVars, toWorker, serverVars>>

(* Clients may have been disconnected, by a server that crashed or not.      *)
Reports(w) ==
  /\ worker[w] = "running"
  /\ \E disconnects \in BOOLEAN : Sends(w, Result(running[w], disconnects))
  /\ Becomes(w, "blocked")
  /\ UNCHANGED <<controllerVars, running, toWorker, serverVars>>

Closes(w) ==
  /\ worker[w] = "blocked" /\ toWorker[w] # << >> /\ Head(toWorker[w]).type = "close"
  /\ Takes(w)
  /\ Becomes(w, "exited")
  /\ UNCHANGED <<controllerVars, running, toController, serverVars>>

(* An exception: a client disconnected in the setup, an unexpected command.  *)
Fails(w) ==
  /\ Alive(w)
  /\ Becomes(w, "exited")
  /\ Sends(w, Message("error"))
  /\ UNCHANGED <<controllerVars, running, toWorker, serverVars>>

Killed(w) ==
  /\ Alive(w)
  /\ Becomes(w, "exited")
  /\ UNCHANGED <<controllerVars, running, pipes, serverVars>>

-----------------------------------------------------------------------------
(* The controller.                                                           *)

NoResult == [type |-> None]
NoResults == [w \in Workers |-> NoResult]

empty_state == [disconnects |-> {}, phases |-> [w \in Workers |-> None]]

merge_states(results) ==
  [disconnects |-> {w \in Workers : results[w].disconnects},
   phases |-> [w \in Workers |-> results[w].phase]]

Goto(s) == step' = s /\ next' = 1

(* The try block is left.                                                    *)
Raise(text) ==
  /\ harness_error' = text
  /\ Goto("clean up")

(* The next worker, or the next step.                                        *)
NextWorkerOr(s) ==
  IF next + 1 \in Workers THEN next' = next + 1 /\ step' = step ELSE Goto(s)

(* The server is started, or Popen raises, outside the try block.            *)
StartServer ==
  /\ step = "start server"
  /\ \/ server' = "up" /\ Goto("prepare")
     \/ Goto("raised") /\ UNCHANGED server
  /\ UNCHANGED <<got, harness_error, trialVars, workerVars, pipes, records, profiler>>

(* Only from the try block on does an exception reach the finally block.     *)
EnterTry ==
  /\ step = "prepare"
  /\ recorded' = {Server}
  /\ Goto("start workers")
  /\ UNCHANGED <<got, harness_error, row, workerVars, pipes, serverVars>>

(* A worker is started, or its pipe or process cannot be made.               *)
StartWorker ==
  /\ step = "start workers"
  /\ \/ /\ worker' = [worker EXCEPT ![next] = "connecting"]
        /\ step' = "record worker" /\ UNCHANGED <<next, harness_error>>
     \/ Raise("error") /\ UNCHANGED worker
  /\ UNCHANGED <<got, trialVars, running, pipes, serverVars>>

(* It is appended to controls and processes, and the next one is started.    *)
RecordWorker ==
  /\ step = "record worker"
  /\ recorded' = recorded \cup {Worker(next)}
  /\ IF next + 1 \in Workers THEN next' = next + 1 /\ step' = "start workers"
                             ELSE Goto("receive connected")
  /\ UNCHANGED <<got, harness_error, row, workerVars, pipes, serverVars>>

(* Which message it waits for, and what it does when it has all of them.     *)
Expected ==
  CASE step = "receive connected" -> "connected"
    [] step = "receive ready" -> "ready"
    [] step \in {"receive warmup", "receive results"} -> "result"
    [] OTHER -> None

Receiving == Expected # None

AfterWarmup == IF profile THEN "start profiler" ELSE "start metrics"

After ==
  CASE step = "receive connected" -> "send setup"
    [] step = "receive ready" -> IF warmup THEN "send warmup" ELSE AfterWarmup
    [] step = "receive warmup" -> "check warmup"
    [] OTHER -> "merged"

(* receive_worker_messages, one control at a time.                           *)
Receive ==
  /\ Receiving
  /\ toController[next] # << >>
  /\ LET m == Head(toController[next]) IN
       /\ toController' = [toController EXCEPT ![next] = Tail(@)]
       /\ IF m.type # Expected
            THEN Raise("error") /\ UNCHANGED got
            ELSE /\ got' = IF m.type = "result" THEN [got EXCEPT ![next] = m] ELSE got
                 /\ NextWorkerOr(After)
                 /\ UNCHANGED harness_error
  /\ UNCHANGED <<trialVars, workerVars, toWorker, serverVars>>

(* recv at the end of a pipe raises an exception without a text, or one that *)
(* the connection was reset.                                                 *)
EndOfPipe ==
  /\ Receiving
  /\ toController[next] = << >> /\ ~Alive(next)
  /\ \E text \in {NoError, "error"} : Raise(text)
  /\ UNCHANGED <<got, trialVars, workerVars, pipes, serverVars>>

(* Mutant: only a message is waited for.                                     *)
NoTimeOut == FALSE /\ UNCHANGED vars

TimeOut ==
  /\ Receiving
  /\ Raise("error")
  /\ UNCHANGED <<got, trialVars, workerVars, pipes, serverVars>>

(* send to all controls in order, up to one whose worker is gone.            *)
SendAll(message, then) ==
  LET sentTo == {w \in Workers : \A v \in 1 .. w : Alive(v)} IN
  /\ toWorker' = [w \in Workers |->
                    IF w \in sentTo THEN Append(toWorker[w], message) ELSE toWorker[w]]
  /\ IF sentTo = Workers THEN Goto(then) /\ UNCHANGED harness_error ELSE Raise("error")

SendSetup ==
  /\ step = "send setup"
  /\ SendAll(Message("setup_complete"), "receive ready")
  /\ UNCHANGED <<got, trialVars, workerVars, toController, serverVars>>

(* Mutant: the results of the warm-up are not waited for.                    *)
SendWarmupOnly ==
  /\ step = "send warmup"
  /\ SendAll(Phase(Warmup), AfterWarmup)
  /\ UNCHANGED <<got, trialVars, workerVars, toController, serverVars>>

SendWarmup ==
  /\ step = "send warmup"
  /\ SendAll(Phase(Warmup), "receive warmup")
  /\ UNCHANGED <<got, trialVars, workerVars, toController, serverVars>>

CheckWarmup ==
  /\ step = "check warmup"
  /\ IF merge_states(got).disconnects # {}
       THEN Raise("error")
       ELSE Goto(AfterWarmup) /\ UNCHANGED harness_error
  /\ got' = NoResults
  /\ UNCHANGED <<trialVars, workerVars, pipes, serverVars>>

(* It may not be installed, or the attempt raise.                            *)
StartProfiler ==
  /\ step = "start profiler"
  /\ \/ profiler' = "running" /\ Goto("bind profiler") /\ UNCHANGED harness_error
     \/ Goto("start metrics") /\ UNCHANGED <<profiler, harness_error>>
     \/ Raise("error") /\ UNCHANGED profiler
  /\ UNCHANGED <<got, trialVars, workerVars, pipes, server, records>>

(* start_profiler returns, a while after Popen.                              *)
BindProfiler ==
  /\ step = "bind profiler"
  /\ recorded' = recorded \cup {Profiler}
  /\ Goto("start metrics")
  /\ UNCHANGED <<got, harness_error, row, workerVars, pipes, serverVars>>

(* SIGUSR1, and a wait for the first line of the metrics file.               *)
StartMetrics ==
  /\ step = "start metrics"
  /\ records' \in IF server = "up" THEN {records, records + 1} ELSE {records}
  /\ Goto("send measured")
  /\ UNCHANGED <<got, harness_error, trialVars, workerVars, pipes, server, profiler>>

(* The line waited for is read before all of it is written: it is no JSON.   *)
BadMetrics ==
  /\ server = "up"
  /\ \/ step = "start metrics" /\ records' = 1
     \/ step = "stop metrics" /\ records' = 2
  /\ Raise("error")
  /\ UNCHANGED <<got, trialVars, workerVars, pipes, server, profiler>>

SendMeasured ==
  /\ step = "send measured"
  /\ SendAll(Phase(Measured), "measure")
  /\ UNCHANGED <<got, trialVars, workerVars, toController, serverVars>>

(* Until the deadline, or until the server is found crashed.                 *)
Measure ==
  /\ step = "measure"
  /\ server_crashed' \in IF server = "crashed" THEN BOOLEAN ELSE {FALSE}
  /\ Goto("stop metrics")
  /\ UNCHANGED <<got, state, modes, interrupted, recorded, harness_error, metrics, workerVars,
                 pipes, serverVars>>

(* SIGUSR2, and a wait for a second line; a first that is late may come too. *)
StopMetrics ==
  /\ step = "stop metrics"
  /\ records' \in IF server = "up" THEN records .. 2 ELSE {records}
  /\ metrics' = (server = "up" /\ records' >= 2)
  /\ Goto("stop profiler")
  /\ UNCHANGED <<got, state, modes, interrupted, recorded, harness_error, server_crashed,
                 workerVars, pipes, server, profiler>>

(* SIGINT, then SIGTERM, if there is a profiler that it knows of.            *)
ProfilerStops == profiler' = IF Profiler \in recorded THEN "exited" ELSE profiler

ProfilerIsStuck ==
  /\ Profiler \in recorded /\ profiler \in {"running", "stuck"}
  /\ profiler' = "stuck"

StopProfiler ==
  /\ step = "stop profiler"
  /\ \/ ProfilerStops /\ Goto("receive results") /\ UNCHANGED harness_error
     \/ ProfilerIsStuck /\ Raise("error")
  /\ UNCHANGED <<got, trialVars, workerVars, pipes, server, records>>

Merge ==
  /\ step = "merged"
  /\ Goto("clean up")
  /\ state' = merge_states(got)
  /\ UNCHANGED <<got, modes, interrupted, recorded, harness_error, server_crashed, metrics,
                 workerVars, pipes, serverVars>>

(* Control-C, which the controller alone gets; before the try block there is *)
(* no finally block to run.                                                  *)
Interrupt ==
  /\ step \notin {"clean up", "close", "join", "stop server", "done", "raised"}
  /\ interrupted' = TRUE
  /\ Goto(IF step \in {"start server", "prepare"} THEN "raised" ELSE "clean up")
  /\ UNCHANGED <<got, state, modes, recorded, harness_error, server_crashed, metrics,
                 workerVars, pipes, serverVars>>

(* The finally block: the profiler is stopped, which raises again if it does *)
(* not die,                                                                  *)
CleanUp ==
  /\ step = "clean up"
  /\ \/ ProfilerStops /\ Goto("close")
     \/ ProfilerIsStuck /\ Goto("raised")
  /\ UNCHANGED <<got, harness_error, trialVars, workerVars, pipes, server, records>>

(* every worker it knows of and that is left is told to close,               *)
SendClose ==
  /\ step = "close"
  /\ toWorker' = [w \in Workers |->
                    IF Alive(w) /\ Worker(w) \in recorded
                      THEN Append(toWorker[w], Message("close")) ELSE toWorker[w]]
  /\ Goto("join")
  /\ UNCHANGED <<got, harness_error, trialVars, workerVars, toController, serverVars>>

(* Mutant: a worker that does not exit in time is left alone.                *)
JoinOrLeave ==
  /\ step = "join"
  /\ NextWorkerOr("stop server")
  /\ UNCHANGED <<got, harness_error, trialVars, workerVars, pipes, serverVars>>

(* is joined, terminated if that takes too long,                             *)
Join ==
  /\ step = "join"
  /\ worker' = [worker EXCEPT ![next] =
                   IF Alive(next) /\ Worker(next) \in recorded THEN "exited" ELSE @]
  /\ NextWorkerOr("stop server")
  /\ UNCHANGED <<got, harness_error, trialVars, running, pipes, serverVars>>

(* and the server is terminated, or killed.                                  *)
StopServer ==
  /\ step = "stop server"
  /\ server_crashed' = (server_crashed \/ server # "up")
  /\ server' = IF server = "up" THEN "stopped" ELSE server
  /\ Goto(IF interrupted THEN "raised" ELSE "done")
  /\ UNCHANGED <<got, state, modes, interrupted, recorded, harness_error, metrics, workerVars,
                 pipes, records, profiler>>

-----------------------------------------------------------------------------
(* The row of the trial.                                                     *)

(* Mutant: only errors make a row invalid.                                   *)
validUnlessError ==
  /\ harness_error = NoError
  /\ ~server_crashed

(* classify_result: with no result merged there is no scheduling lag, and a  *)
(* diagnostic run is never eligible.                                         *)
valid ==
  /\ harness_error = NoError
  /\ ~server_crashed
  /\ state # empty_state /\ state.disconnects = {}
  /\ metrics /\ ~profile

ServerCrashes ==
  /\ server = "up"
  /\ server' = "crashed"
  /\ UNCHANGED <<controllerVars, workerVars, pipes, records, profiler>>

ProfilerEnds ==
  /\ profiler = "running"
  /\ profiler' = "exited"
  /\ UNCHANGED <<controllerVars, workerVars, pipes, server, records>>

Init ==
  /\ step = "start server" /\ next = 1 /\ recorded = {}
  /\ got = NoResults /\ state = empty_state
  /\ warmup \in BOOLEAN /\ profile \in BOOLEAN /\ interrupted = FALSE
  /\ harness_error = NoError /\ server_crashed = FALSE /\ metrics = FALSE
  /\ worker = [w \in Workers |-> "not started"]
  /\ running = [w \in Workers |-> None]
  /\ toWorker = [w \in Workers |-> << >>]
  /\ toController = [w \in Workers |-> << >>]
  /\ server = "not started" /\ records = 0 /\ profiler = "none"

Controller ==
  \/ StartServer \/ EnterTry \/ StartWorker \/ RecordWorker \/ Receive \/ EndOfPipe \/ TimeOut
  \/ SendSetup \/ SendWarmup \/ CheckWarmup
  \/ StartProfiler \/ BindProfiler \/ StartMetrics \/ BadMetrics
  \/ SendMeasured \/ Measure \/ StopMetrics \/ StopProfiler \/ Merge
  \/ CleanUp \/ SendClose \/ Join \/ StopServer

Next ==
  \/ Controller
  \/ \E w \in Workers :
       \/ Connected(w) \/ SetupComplete(w) \/ StartsPhase(w) \/ Reports(w) \/ Closes(w)
       \/ Fails(w) \/ Killed(w)
  \/ ServerCrashes \/ ProfilerEnds \/ Interrupt

(* The controller's waits end by their timeouts; workers may hang.           *)
Spec == Init /\ [][Next]_vars /\ WF_vars(Controller)

-----------------------------------------------------------------------------

(* Commands and answers alternate: a pipe holds one message and the last     *)
(* one, `close' or an error.                                                 *)
TypeOK ==
  /\ next \in Workers
  /\ records \in 0 .. 2
  /\ state.disconnects \subseteq Workers
  /\ \A w \in Workers :
       /\ Len(toWorker[w]) <= 2 /\ Len(toController[w]) <= 2
       /\ worker[w] \in {"not started", "connecting", "connected", "blocked", "running", "exited"}

(* When the server is told to count, no worker still runs the warm-up, and   *)
(* none has been told of the measured phase.                                 *)
WarmupIsOver ==
  step \in {"start profiler", "bind profiler", "start metrics", "send measured"} =>
    \A w \in Workers : Alive(w) => worker[w] = "blocked" /\ toWorker[w] = << >>

(* However workers and server fail, a row is valid only if every worker has  *)
(* reported the measured phase, the server has lived, both lines of its      *)
(* metrics are there and no profiler has disturbed it.                       *)
ValidMeansMeasured ==
  step = "done" /\ valid =>
    /\ \A w \in Workers : state.phases[w] = Measured
    /\ server = "stopped" /\ records = 2 /\ profiler = "none"

(* The processes that run.                                                   *)
Left ==
  {Worker(w) : w \in {v \in Workers : Alive(v)}}
    \cup (IF server = "up" THEN {Server} ELSE {})
    \cup (IF profiler \in {"running", "stuck"} THEN {Profiler} ELSE {})

(* A trial that gives a row leaves no worker, server or profiler behind; one *)
(* that raises leaves none that it had recorded, however it was interrupted, *)
(* unless a profiler that does not die makes the clean-up itself raise, and  *)
(* otherwise at most one process, whose start the interrupt cut short.       *)
NothingLeftRunning ==
  /\ step = "done" => Left = {}
  /\ step = "raised" =>
       \/ Profiler \in recorded /\ profiler = "stuck"
       \/ /\ Left \cap recorded = {}
          /\ \A p, q \in Left : p = q
          /\ Left # {} => interrupted

(* A trial ends, whichever worker hangs or dies.                             *)
TrialEnds == <>(step \in {"done", "raised"})

=============================================================================
