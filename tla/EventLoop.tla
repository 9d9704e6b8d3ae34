----------------------------- MODULE EventLoop -----------------------------
(* ChatServer::run as seen by the signals: the flags of the two handlers,    *)
(* the places where run() looks at them, and the metrics interval that       *)
(* SIGUSR1 starts and SIGUSR2 ends.  A signal may arrive between any two     *)
(* steps; it interrupts wait() only while the server is blocked in it.       *)
EXTENDS ServerMetrics

CONSTANTS
  Signals,        \* the signals somebody may send
  MaxReady,       \* most events of one wait()
  MaxSamples      \* bound of the model: waits counted in one interval

ASSUME LoopConstants ==
  /\ Signals \subseteq {"SIGINT", "SIGUSR1", "SIGUSR2"}
  /\ MaxReady \in Nat \ {0}
  /\ MaxSamples \in Nat

VARIABLES
  pc,               \* where the loop is: see Places
  resume,           \* where serviceMetricsSignals returns to
  shutdownSignal, metricsStartRequested, metricsStopRequested,
  readable,         \* how many registered descriptors are ready
  metrics,
  line,             \* the last line appended to the metrics file
  samples           \* history: how many waits of the interval had n events

flags == <<shutdownSignal, metricsStartRequested, metricsStopRequested>>
vars == <<pc, resume, flags, readable, metrics, line, samples>>

(* "entering" is past the last test of a flag, but not in the system call.   *)
Places == {"check", "start", "stop", "entering", "wait", "batch", "stopped"}

Started == [status |-> "started"]

NoSamples == [n \in 1..MaxReady |-> 0]

Snapshot(m) ==
  [status |-> "stopped", wait_calls |-> m.waitCalls, total_events |-> m.totalEvents,
   p50 |-> eventsPercentile(m, 50), p95 |-> eventsPercentile(m, 95),
   max |-> maxEventsPerWait(m), full_event_batches |-> m.fullEventBatches]

-----------------------------------------------------------------------------

(* Mutant: only a wait that was interrupted looks at the flag.               *)
CheckAfterInterrupt ==
  /\ pc = "check"
  /\ resume' = IF shutdownSignal /\ resume = "check" THEN "stopped" ELSE "entering"
  /\ pc' = "start"
  /\ UNCHANGED <<flags, readable, metrics, line, samples>>

(* while (shutdownSignal == 0); the flags are serviced a last time after it. *)
Check ==
  /\ pc = "check"
  /\ resume' = IF shutdownSignal THEN "stopped" ELSE "entering"
  /\ pc' = "start"
  /\ UNCHANGED <<flags, readable, metrics, line, samples>>

(* The first half of serviceMetricsSignals.                                  *)
ServiceStart ==
  /\ pc = "start"
  /\ pc' = "stop"
  /\ metricsStartRequested' = FALSE
  /\ IF metricsStartRequested
       THEN /\ metrics' = [reset(metrics) EXCEPT !.active = TRUE]
            /\ line' = Started
            /\ samples' = NoSamples
       ELSE UNCHANGED <<metrics, line, samples>>
  /\ UNCHANGED <<resume, shutdownSignal, metricsStopRequested, readable>>

(* The second half.                                                          *)
ServiceStop ==
  /\ pc = "stop"
  /\ pc' = resume
  /\ metricsStopRequested' = FALSE
  /\ IF metricsStopRequested
       THEN /\ metrics' = [metrics EXCEPT !.active = FALSE]
            /\ line' = Snapshot(metrics)
       ELSE UNCHANGED <<metrics, line>>
  /\ UNCHANGED <<resume, shutdownSignal, metricsStartRequested, readable, samples>>

EnterWait ==
  /\ pc = "entering"
  /\ pc' = "wait"
  /\ UNCHANGED <<resume, flags, readable, metrics, line, samples>>

(* wait() returns the ready descriptors; recordWait counts them, in the      *)
(* model only the first MaxSamples times in an interval.                     *)
WaitReturns ==
  /\ pc = "wait"
  /\ readable > 0
  /\ pc' = "batch"
  /\ \/ /\ Cardinality(Waits(samples)) < MaxSamples \/ line # Started
        /\ metrics' = recordWait(metrics, readable, MaxReady)
        /\ samples' = IF line = Started THEN [samples EXCEPT ![readable] = @ + 1] ELSE samples
     \/ /\ Cardinality(Waits(samples)) >= MaxSamples
        /\ UNCHANGED <<metrics, samples>>
  /\ UNCHANGED <<resume, flags, readable, line>>

HandleBatch ==
  /\ pc = "batch"
  /\ readable' = 0
  /\ pc' = "check"
  /\ UNCHANGED <<resume, flags, metrics, line, samples>>

(* The signal handlers.  A blocked wait() returns EINTR, and the loop        *)
(* services the flags before it tests shutdownSignal again.                  *)
Delivered(signal) ==
  /\ shutdownSignal' = (shutdownSignal \/ signal = "SIGINT")
  /\ metricsStartRequested' = (metricsStartRequested \/ signal = "SIGUSR1")
  /\ metricsStopRequested' = (metricsStopRequested \/ signal = "SIGUSR2")
  /\ IF pc = "wait" THEN pc' = "start" /\ resume' = "check"
                    ELSE UNCHANGED <<pc, resume>>
  /\ UNCHANGED <<readable, metrics, line, samples>>

Activity ==
  /\ readable < MaxReady
  /\ readable' \in (readable + 1)..MaxReady
  /\ UNCHANGED <<pc, resume, flags, metrics, line, samples>>

Init ==
  /\ pc = "check"
  /\ resume = "entering"
  /\ shutdownSignal = FALSE
  /\ metricsStartRequested = FALSE
  /\ metricsStopRequested = FALSE
  /\ readable = 0
  /\ metrics = NoMetrics
  /\ line = [status |-> "none"]
  /\ samples = NoSamples

Loop ==
  \/ Check \/ ServiceStart \/ ServiceStop \/ EnterWait \/ WaitReturns \/ HandleBatch

Next ==
  \/ Loop
  \/ pc # "stopped" /\ \E signal \in Signals : Delivered(signal)
  \/ pc # "stopped" /\ Activity

Spec == Init /\ [][Next]_vars

(* The loop is one thread; it blocks only in wait(), while nothing is ready. *)
FairSpec == Spec /\ WF_vars(Loop)

(* The same with a peer that never falls silent for good.                    *)
BusySpec == FairSpec /\ WF_vars(Activity)

-----------------------------------------------------------------------------

(* The snapshot SIGUSR2 asks for describes exactly the waits since SIGUSR1   *)
(* was served: none from before, none missing, none counted after its end.   *)
SnapshotIsOfInterval ==
  /\ metrics.active = (line = Started)
  /\ line.status = "stopped" =>
       /\ line.wait_calls = Cardinality(Waits(samples))
       /\ line.total_events = Cardinality(Events(samples))
       /\ line.full_event_batches = samples[MaxReady]
       /\ line.max = NearestRank(samples, 100)

(* The percentiles read off the histogram are the nearest-rank percentiles   *)
(* of the samples it was built from.                                         *)
PercentilesAreNearestRank ==
  line.status = "stopped" =>
    /\ line.p50 = NearestRank(samples, 50)
    /\ line.p95 = NearestRank(samples, 95)

(* SIGINT or SIGTERM ends the loop, and the flags of SIGUSR1 and SIGUSR2 are *)
(* served.                                                                   *)
SignalsAreServed ==
  /\ shutdownSignal ~> pc = "stopped"
  /\ metricsStartRequested ~> (~metricsStartRequested \/ pc = "stopped")
  /\ metricsStopRequested ~> (~metricsStopRequested \/ pc = "stopped")

(* A terminated server exits (tests/test_server_parity.py, close), whether   *)
(* or not anything else happens: the flag set between the loop's test and    *)
(* wait() must not be slept on.                                              *)
ShutdownStops == shutdownSignal ~> pc = "stopped"

=============================================================================
