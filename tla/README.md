# Partyline in TLA+

Partyline is a TCP chat server written twice around one core: `src/common/` holds
the chat server, the output queues and the metrics, and `src/epoll/` and
`src/poll(2)/` each add a readiness dispatcher and a `main`.  `src/bench/` measures
the two against each other.  This directory holds TLA+ specifications of that code,
configurations that model-check them with TLC, and proofs checked by TLAPS.

To check a run, `tlc -config <cfg> <module>` as listed under [Runs](#runs); to
check the proofs, `tlapm <module>` for the eight `...Proofs` modules.

## Inventory

| Part | State it keeps | Operations | What makes it correct |
| --- | --- | --- | --- |
| **Output queue** (`server_common.hpp` 96-223, `server_common.cpp` 85-95) | `outputQueue`, `outputQueueSize`, `writeInterestEnabled`, the write budget | `queueOutputCommon`, `flushOutputCommon`, `clientWriteBudget` | bytes are sent once and in order; the size is exact; write interest is on exactly while bytes wait; the budget holds across fast path and flush |
| **Dispatcher** (`chat_server.hpp` 18-27) | registered descriptors, write interest | `add`, `remove`, `setWriteInterest`, `wait` | `wait` reports exactly the work there is |
| **Poll dispatcher** (`poll_dispatcher.cpp`) | dense `pollfd` array, index table | the same | table and array agree through swap-removal |
| **Epoll dispatcher** (`epoll_dispatcher.cpp`) | the kernel's interest and ready lists | the same | batches limited to `MAX_EVENTS` starve nobody |
| **Rooms and clients** (`chat_server.cpp` 245-336, 394-497) | `clients`, `rooms` | username, JOIN, LEAVE, messages, QUIT, disconnects | lists and `currRoom` agree, ids are unique, empty rooms go, notices reach everybody |
| **Event loop** (`chat_server.cpp` 181-217, 338-373, 499-604) | the batch, read and frame budgets, `inputBuffer` | `run`, `handleEvent`, `acceptConnections`, `handleRead` | no handler goes on with a client that is gone; limits hold; nobody starves; no frame is forgotten |
| **Signals and metrics** (`server_common.cpp`) | the three signal flags, `ServerMetrics` | `serviceMetricsSignals`, `recordWait`, percentiles | a snapshot describes its interval; signals are served |
| **Benchmark worker** (`benchmark.py` 89-501) | per client `pending`, `send_buffer`, `closed`; the schedule heap; the counters of the phase | `run_phase`, `due_offers`, `queue_client_frame`, `process_client_read` | every operation of a phase is offered once, and sent or missed; what is counted belongs to the phase; answers are paired with their requests |
| **Benchmark trial** (`benchmark.py` 104-237, 504-750, 849-903) | pipes, results, the profiler, the flags of a row | `run_trial`, `worker_main`, `start_profiler`, `stop_profiler`, `classify_result` | the trial ends, leaves nothing running, and calls a row valid only if everything was measured |
| **Comparison** (`compare.py`) | the result directory, `active_implementations`, `commands`, `skipped`, `csv_paths` | `new_result_directory`, the sweep of `main`, `combine_csvs`, `write_summaries` | every case is run once or skipped above an invalid rate; a result file is of one case, and written once unless the command line repeats something; a rate is sustainable only if every trial was valid |
| **Interactive clients** (`client_epoll.cpp`, `client.cpp`) | input line, displayed room, visible messages | typing, receiving, quitting | the displayed room is the server's |
| **Reports** (`csv_to_xlsx.py`, `profile.py`) | files | formatting; one trial with a profiler | - |
| **Logging, sockets set-up** | none | `getaddrinfo`, `bind`, `listen`, log lines | - |

How they interact: the loop calls `wait()`, then a handler per event; handlers call
`queueOutput` on any client of the room; `queueOutput` may fail, and then the caller
calls `disconnect`, which changes rooms and clients in the middle of the handler.
The server runs in one thread; only signals, the kernel and the peers are
concurrent.  The benchmark is a controller process, worker processes that hold the
connections, pipes between them, and signals and a metrics file towards the server;
`compare.py` calls it once per case and reads the row it leaves in a file.

What is hard in the server is therefore not locking but *re-entrancy* (a handler
whose room or client disappears under it), *stale events* (a batch that outlives
its clients, descriptors that are reused), *partial output*, *budgets* that leave work
behind, and *signals* between a test and a blocking call.  In the benchmark it is
*accounting* under lag and loss, *responses without identity*, *processes that die
or hang*, and *conclusions* drawn from rows of which some are missing.  The `hazards` of `PROJECT.json` list them line by line.

## Modules and how they correspond to the code

| Module | Models | Notes |
| --- | --- | --- |
| `OutputQueue` | output queue of one client, its socket and its peer | bytes are positions in the accepted stream, so loss, repetition and reordering are visible |
| `Dispatcher` | the interface | abstract specification of both dispatchers |
| `PollDispatcher` | array and index table | refines `Dispatcher` |
| `EpollDispatcher` | calls, kernel lists (external) | refines `Dispatcher` |
| `ChatRooms` | every handler that changes clients or rooms | checked by itself, with any order of handlers |
| `ChatServer` | the loop around those handlers, the kernel's buffers, the peers | EXTENDS `ChatRooms` and decides when its handlers run |
| `ServerMetrics` | histogram and percentiles, with a reference definition | pure operators |
| `EventLoop` | the loop as the signals see it | EXTENDS `ServerMetrics` |
| `LoadWorker` | a worker in `run_phase`, over several phases | |
| `TrialProtocol` | controller, workers, pipes, server process, profiler | a phase is one step of a worker here |
| `Comparison` | the driver of a sweep and its summary | a trial is one step here |
| `MC...` | small instances for TLC | `LoadWorker`, `TrialProtocol` and `EventLoop` need none |
| `OutputQueueProofs`, `PollDispatcherProofs`, `EpollDispatcherProofs` | TLAPS proofs about the queue and the two dispatchers | |
| `ChatServerProofs` | the rooms (consistency, ids, notices) and the loop around them | proves about `ChatRooms` and `ChatServer` |
| `EventLoopProofs` | the metrics interval and the percentiles | proves about `EventLoop` and `ServerMetrics` |
| `LoadWorkerProofs`, `TrialProtocolProofs`, `ComparisonProofs` | a worker, a trial with any number of workers, a sweep over any cases | |

Definitions whose comment begins with `Mutant:` are wrong on purpose: each is a
variant of the definition after it that the named property must catch.

**OutputQueue.** `queueOutputCommon` is one action per outcome (`QueueOverflow`,
`QueueSendFails`, `QueueOutput`); `flushOutputCommon` has a step per `send()`
(`FlushSend`, `FlushSendFails`) between `FlushBegin` and `FlushEnd`, so that the peer
reads or resets in between.  `serverIteration` is abstracted to `budgetIsCurrent`:
whether the budget was renewed in this iteration.  `interest` is the dispatcher's
side of `writeInterestEnabled`; `setWriteInterest` may fail, and the owner
disconnects a client whose calls return false (`Close`).

**Dispatchers.** `ready` is the condition of each socket and `batch` what the last
`wait()` asks the loop to do, with flags as `handleEvent` tells them apart; `call` is
the last call with its result.  In `PollDispatcher` the abstract `interest` is read
off the array through the table; array indexes count from 0 as in the code.
`EpollDispatcher` keeps the kernel's interest list and its FIFO ready list, from
which a level-triggered `epoll_wait` takes `MAX_EVENTS` and queues them up again.
`add` and `setWriteInterest` may fail for a descriptor they could accept (`ControlFails`: `epoll_ctl`
returns ENOMEM or ENOSPC), which `Dispatcher` therefore allows and `PollDispatcher` does not use.
The kernel's part is not what is questioned: the mutants are changes of the event mask, one that
drops `EPOLLIN` and one that adds `EPOLLET`, for which the modelled kernel does not queue a
descriptor up again.
`Keep(list, kept)` filters such a list: of the sequences with the members of `kept`, the
one that has them in the order of `list`.  The library's `SelectSeq` does the same by a recursion
over an operator, which no prover can follow.

**ChatRooms.** The helpers of the class (`removeFromRooms`, `deleteEmptyRoom`,
`disconnect`, `joinRoom`, `notifyRoom`) are operators from a state record to a state
record and a handler is their composition in the order of the code.  Every handler
chooses which recipients refuse a message; those are disconnected on the spot, as the code does
(the sender included, where the code sends to it).  The vector
`subscribedClients` is a bag.  `roster` is a history: what each client could know
from the notices of who is in its room (nothing is remembered of a client that has gone); `skipped` records whom the last broadcast
left out.

**ChatServer.** `pc` is where the loop is.  Input is counted in complete frames and a
frame may be any command, so every sequence of commands is a behaviour.  Closed
descriptors lose their buffers (`Keep`, `ClosedAreForgotten`) and may be accepted
again by a later event of the same batch.  The accept loop ends on EAGAIN or on any other error,
which leaves connections in the backlog (`AcceptReturns`); any LIST or WHERE reply may be
refused (`ReplyRefused`); a frame, or what has arrived of one, may exceed `MAX_FRAME_BYTES`
(`FrameTooLong`); a flush fails because of its peer or because `setWriteInterest` does (`FlushFails`).
A step of the loop runs a handler of `ChatRooms` or leaves clients and rooms alone, so the
properties of `ChatRooms` hold of `ChatServer` by construction, and no theorem repeats them.

**EventLoop.** `Places` are the program points between which a signal makes a
difference; in particular `entering` is after the last test of `shutdownSignal` and
before the system call.  `readable` counts ready descriptors; `samples` is the
history of the interval: how many of its waits had how many events.  `Waits(samples)` and
`Events(samples)` are the sets that it counts, so that the reference definition
`NearestRank` is one about sizes of sets; `Seen` is the running total of the code's loop.
`rank` computes what `server_common.cpp` 60-61 does, a truncation after `+ 0.999999`, in exact
millionths.  The code computes it in doubles: their error is far below the millionth that is
missing to one while the interval has less than 2^31 waits, and is left out.

**LoadWorker.** Time is in ticks from the start of the phase, and may pass between
any two steps, so a worker may start late, lag behind its schedule and oversleep its deadline.
A frame and a line are units.  `due_offers`, `NextOffer`, `Missed`
and `CountRest` are the four places that account for an operation; `Rest` is the set of
those that the loop of `CountRest` goes through, entry by entry.  A message carries
its request as a ghost: of a `WHERE` response the code sees no identity, so `Answered`
does not look at it and only `mispaired` does; of a broadcast message the code parses
token and sender, so `Delivered` does.
A direct workload with leftovers of an earlier phase may count one of their answers in place of
its own: `CountsAreOfThisPhase` then only bounds its counts by what this phase sent.  `served` is a history of what the server has
handled, against which `RatioIsHonest` holds the `delivery_ratio` of the row.  A broadcast workload
has two connections at least: `main` refuses it otherwise (`benchmark.py` 1037).  `pending` and `buffer` are cleared at the end
of a phase, `send_buffer` is not.

**TrialProtocol.** `step` is the statement of `run_trial` the controller is at, `next`
the worker it starts, whose pipe it reads, or which it joins.  A process runs before
`run_trial` has recorded it: the server is started before the `try` block (`benchmark.py` 632 and
660), a worker is appended to `controls` and `processes` after `start()` (670-673), and
`profiler` is assigned when `start_profiler` returns, a while after its `Popen` (217, 696).
`recorded` is what the `finally` block would find, and each of the three is two actions
(`StartServer` and `EnterTry`, `StartWorker` and `RecordWorker`, `StartProfiler` and `BindProfiler`).
A worker may fail with a
message (`Fails`), be killed without one (`Killed`) or simply never act.  `EndOfPipe` is
the exception that `recv` raises at the end of a pipe; `EOFError` has no text, and
`NoError` is the empty text, which is what `classify_result` tests.  The profiler may
not be installed, end at once, end at any time, or outlive SIGTERM (`ProfilerIsStuck`), in
which case `stop_profiler` raises, in the `finally` block too, and leaves workers and server
behind.  `BadMetrics` is a line of the metrics file read while it is being written.  `Interrupt`
is a KeyboardInterrupt that no `except` of `run_trial` catches: one at most, of the controller alone,
at any moment before the clean-up; before the `try` block it ends the trial without one.
`NothingLeftRunning` states what this comes to: a trial with a row leaves nothing; one that raises
leaves nothing that it had recorded, unless the profiler is stuck, and of what it had not, one
process at most, whose start was interrupted.  That one process really is left running: the
property bounds the leak, it does not deny it.

**Comparison.** `at` is the position in the four nested loops of `main` (trial, group,
rate, implementation) and `NextPositions` the one after it, so that a step skips or
starts one case.  `active_implementations` is renewed by the first case of a group
(`ActiveAt`).  A case ends without a row (`Fail`: an exit status, no file) or with one
that is valid or not (`Finish`), in any combination; rows are read again from the files
when the sweep is over, as the code does.  `OtherDirectory` is a second driver that
names its directory in the same second.  `outcome` is a history of what became of each
case, with which the properties compare metadata and summary.  `Accepted` is what
`main` lets pass.  It refuses no repeated tier, rate or server, and two cases of the
same values have one file name: the second overwrites the row of the first, and the summary
reads it twice.  The model does so too.  `NoRepeats` says of a command line that it repeats
nothing; `SkippedAboveInvalid`, `EveryTrialIsCounted` and `SustainableIsEarned` are claimed of those
lines only, `RowsAreKept` claims of all lines that a file stays with its case and of those that its
row stays too, and `MetadataIsComplete` and `DirectoryIsItsOwn` are claimed of every line.

## Runs

| Run | Module, config | Checks | Shows |
| --- | --- | --- | --- |
| output_queue | `MCOutputQueue`, `OutputQueue.cfg` | safety and `AcceptedIsSent` | nothing accepted is lost, repeated or reordered by partial sends, EAGAIN, the budget, failures |
| poll_dispatcher | `MCPollDispatcher`, `PollDispatcher.cfg` | safety, refinement | array and table implement the interface |
| epoll_dispatcher | `MCEpollDispatcher`, `EpollDispatcher.cfg` | safety, refinement, `NoStarvation` | so does epoll, full batches and failing `epoll_ctl` included |
| chat_rooms | `MCChatRooms`, `ChatRooms.cfg` | safety, action property | rooms and clients stay consistent through every handler and any refusals |
| broadcast_truncated | `MCChatRooms`, `ChatRoomsBroadcast.cfg` | violated | see Findings |
| chat_server | `MCChatServer`, `ChatServer.cfg` | safety, `ServedDuringFlood`, `GoneIsNoticed` | no handler goes on with a client that is gone, stale events and reused descriptors included; a flood starves nobody and a peer that left is noticed |
| frames_stranded | `MCChatServer`, `ChatServerStranded.cfg` | violated | see Findings |
| event_loop | `EventLoop`, `EventLoop.cfg` | safety, liveness | a snapshot describes its interval; on a busy server signals are served |
| lost_wakeup | `EventLoop`, `EventLoopLostWakeup.cfg` | violated | see Findings |
| load_worker | `LoadWorker`, `LoadWorker.cfg` | safety | offers add up, counts belong to the phase, responses are paired unless an earlier phase left some behind, and a full delivery ratio means that the server handled everything |
| trial | `TrialProtocol`, `TrialProtocol.cfg` | safety, `TrialEnds` | a trial ends, leaves nothing behind that it had recorded and never passes for valid what was not measured |
| comparison | `MCComparison`, `Comparison.cfg` | safety, action property | the sweep skips what it must and nothing else, keeps every file to its case, and its summary and metadata say what happened; repeated values overwrite rows, see Findings |

The type invariants `TypeOK` of the queue, the poll dispatcher and the rooms and
`ServerTypeOK` are theorems, for every value of the constants, and no run repeats them.
Those of `LoadWorker` and `TrialProtocol`, which bound queues and pipes, are both checked and proved.

### Bounds and why they are enough

- *output_queue*: queue 4, budget 3, socket buffer 2, messages up to 5, a stream of 9
  (`MaxAccepted`).  A message can exceed each of the three limits, several can wait,
  and the stream is longer than queue and budget together
  (`MCBoundsReachTheLimits`).  The proofs remove the bounds.
- *poll_dispatcher*: three descriptors: first, middle, last and only element are
  removed.  *epoll_dispatcher*: batches of one among three.  `MCConditions` keeps one
  condition of each kind that the two dispatchers report differently.
- *chat_rooms*: four clients, three names, ids up to 5 (`MaxRoomIdx`): a mover, a
  recipient that refuses in each room and one that does not; ids rise, rooms vanish and
  ids come back.  Symmetric in clients and in the rooms that are created.
- *chat_server*: two descriptors, three connections (`MaxConnections`), two rooms: the
  third connection may get the descriptor of a client that another client's handler has
  dropped, within the batch that still has an event for the former one.  Two frames fit in
  a receive buffer, one in `inputBuffer` and in the frame budget, so input is read in parts,
  is too much, and is left in the kernel.  Connections are finite but peers may send for
  ever.  No symmetry, because liveness is checked.  *frames_stranded* has room for two
  frames in `inputBuffer`, of which the budget leaves one.
- *event_loop*: intervals of up to 21 waits (`MaxSamples`) of up to two events: the 95th
  percentile is the maximum for up to 20 of them, and may differ from it for 21.
- *load_worker*: two active connections, two phases; a period of three ticks, a
  duration of five and `MaxLate` six: an entry can be due, late, left over at the deadline
  and beyond it, and one that lies in a truncated period.  `MaxOverdue`, `MaxQueue`
  of one make both limits bite.
- *trial*: two workers: one can be read while the other fails, and be joined after it.
  The proofs hold for any number.
- *comparison*: seven command lines: all three experiments at once, with an active count
  above its tier and a broadcast tier that `benchmark.py` refuses; two implementations,
  whose order alternates between trials; rates that are not given in order; two sparse
  groups of one tier; three trials; a rate named twice, and servers, active counts and tiers named twice.  One directory of another driver (`MaxDirectories`).

`CHECK_DEADLOCK FALSE` is said where the program may stop: a closed client, a
terminated server, a finished trial or sweep, and a `ChatServer` whose peers are silent.

### Fairness

The server is one thread that blocks only in `wait()`; `FairSpec` of `ChatServer`,
`EpollDispatcher` and `EventLoop` is weak fairness of that thread as a whole, not of its single
actions: what it does next is its program's choice.  Peers are never fair, with two
exceptions that the properties need and name: in `OutputQueue` a peer whose buffer is
full reads at some time (or nothing could ever be sent; a peer that stops reading
for good is the overflow the limit is for), and `BusySpec` of `EventLoop` assumes sockets
with activity, since without it `ShutdownStops` fails: that is the finding.
`OutputQueue` states fairness per step of the flush because only one of them is
enabled at a time.  `TrialProtocol` assumes weak fairness of the controller alone:
its waits have timeouts; workers may hang, and `TrialEnds` holds nevertheless.  Two waits have
none and are taken to end: `recv` (570) once `poll` has seen the beginning of a message, which a
worker stopped in the middle of sending would never complete, and `join` after `terminate` (740).
`LoadWorker` and `Comparison` have no liveness property.

### Findings

- **broadcast_truncated.** `broadcast` returns at the first recipient whose output is
  refused (`chat_server.cpp` 486): those after it are neither served nor disconnected.
  The benchmark counts on `total_connections - 1` deliveries per message.
  `notifyRoom` goes on in the same situation.
- **frames_stranded.** `handleRead` looks at frames only after a `recv` that returned
  data, and processes a limited number per event; complete frames left in
  `inputBuffer` when the kernel's buffer is empty stay there until more bytes arrive.
- **lost_wakeup.** A SIGTERM between the test of `shutdownSignal` and the blocking call
  in `wait` is noticed only when a descriptor becomes ready.

Five more observations, modelled as the code behaves and stated nowhere otherwise:
when SIGUSR1 and SIGUSR2 are both pending, start is served before stop whichever came
first; a `WHERE` response that arrives in the next phase is paired with a request of
that phase (`PairedIfDrained` says when it cannot happen: `mispaired` is reachable
otherwise); and the error of a killed worker has no text, so that `harness_error`
stays empty and only the missing samples make the row invalid (`ValidMeansMeasured`
says that they do); an interrupt between the start of a process and its record leaves that
process running (`NothingLeftRunning` allows one, and TLC reaches it); and
`--dense-rates 1000,1000` (or a tier or server named twice) overwrites result files
(`compare.py` 349-352, 307-317), which TLC shows when `NoRepeats(args)` is taken out of `RowsAreKept`.

## Proofs

All theorems hold for every value of the constants allowed by the named assumptions
of the modules (`OutputConstants`, `DispatcherConstants`, `ChatConstants`,
`ServerConstants`, `LoopConstants`, `LoadConstants`, `TrialConstants`, `ComparisonConstants`).
Every safety invariant, action property and refinement that a passing run checks is a theorem.

| Theorem | Statement | Argument |
| --- | --- | --- |
| `OutputInvariant` | `Spec => []IInv` | `IInv` is the conjunction of the types, the wire, the chain of intervals, size, interest and budget. None is inductive alone: that a flush appends the right position needs `Chain`, that the size does not go below zero needs `Chain` and the exact count together. Lemmas `ChainAppend`, `ChainPop`, `ChainAdvance` say what the three changes of the queue do to it |
| `StreamIsInOrder`, `NothingIsLost`, `AccountingIsExact`, `BudgetIsShared`, `InterestFollowsQueue` | `Spec => []P` for `WireInOrder`, `QueueHoldsTheRest`, `TypeOK /\ SizeIsExact`, `BudgetRespected`, `InterestIffPending` | conjuncts of `IInv` |
| `TableIsRight` | `Spec => [](TypeOK /\ IndexesMatch)` | `RemoveEffect` shows that swap-removal leaves exactly the other descriptors, by cases on the element moved |
| `PollImplementsDispatcher` | `Spec => D!Spec` | each step maps to a step of `Dispatcher` under the mapping of `interest`, by `TableIsRight` |
| `ListsStaySound` | `Spec => []ListsAreSound` | with the types of the two lists it is inductive; `Keep` and the rotation of the ready list have a lemma each (see below) |
| `EpollImplementsDispatcher` | `Spec => ImplementsDispatcher` | each step maps to a step of `Dispatcher`: a batch has as many descriptors as fit or are ready (`LengthBehind`), and reports of each what its mask asks for (`ReportIsWork`) |
| `RoomsStayConsistent`, `RoomsStayDistinct`, `RoomsStayInUse` | `ChatSpec => []P` for `TypeOK /\ ListsMatchClients`, `RoomsAreDistinct`, `RoomsAreInUse` | see below |
| `RoomIdsKeepTheirMeaning` | `ChatSpec => IdKeepsItsMeaning` | every helper but `joinRoom` only takes rooms away; `joinRoom` may create one, with an id above all ids in use, and the client's old room (which may have the largest) is deleted only after it |
| `NoticesReachEverybody` | `ChatSpec => []RoommatesKnow` | see below |
| `ReaderIsSafe` | `Spec => [](ServerTypeOK /\ ReaderIsAlive)` of `ChatServer` | `IInv` is the consistency of the rooms and `LoopInv`: types, budgets, and the reader being open. A handler may close any client, its own included, and `FrameTaken` goes on only if it did not |
| `MetricsInvariant` | `Spec => []MetricsInv` of `EventLoop` | the counters are the sizes of `Waits` and `Events`, the histogram is `samples` (extended by zeros), and a stopped line is what the counters said: they stand still until the next start |
| `SnapshotsAreOfTheirInterval`, `PercentilesAreRight` | `Spec => []P` for `SnapshotIsOfInterval`, `PercentilesAreNearestRank` | from `MetricsInv`, see below |
| `LoadInvariant` | `Spec => []LoadInv` of `LoadWorker` | see below |
| `WorkerTypes`, `OffersAreComplete`, `AnswersArePaired`, `CountsAreCaused`, `FullRatioIsHonest` | `Spec => []P` for `TypeOK`, `OffersAddUp`, `PairedIfDrained`, `CountsAreOfThisPhase`, `RatioIsHonest` | from `LoadInv` |
| `TrialInvariant` | `Spec => []IInv` of `TrialProtocol` | see below |
| `MeasurementIsSeparate`, `ValidRowsAreMeasured`, `TrialCleansUp` | `Spec => []P` for `WarmupIsOver`, `ValidMeansMeasured`, `NothingLeftRunning` | from `IInv` |
| `PipesAreShort` | `Spec => []TypeOK` of `TrialProtocol` | `Stage` says what a pipe may hold while a worker still owes an answer; `ShortInv` adds the clean-up, which sends one `close` to each worker |
| `DriverInvariant` | `Spec => []DriverInv` of `Comparison` | see below |
| `SkippedIsAboveInvalid`, `MetadataAccounts`, `TrialsAreCounted`, `ReportedRateIsEarned` | `Spec => []P` for `SkippedAboveInvalid`, `MetadataIsComplete`, `EveryTrialIsCounted`, `SustainableIsEarned` | from `DriverInv` |
| `DirectoryIsOwn` | `Spec => []DirectoryIsItsOwn` | inductive: `mkdir` raises for a name that was taken after the look, and no later step changes the name |
| `RowsStay` | `Spec => RowsAreKept` | for every command line, a file's name tells its case (`NamesInv`); if nothing is repeated, a case is new when it is run (`SweepInv`, `FilesInv`) |

`ChatRooms` is proved for any number of descriptors, names and rooms.  The invariant is a predicate of the
state record, `Consistent(s, spared)`: each helper has a lemma that says what it keeps
of it (`DisconnectKeeps`, `NotifyKeeps`, `JoinKeeps`, `DeleteEmptyRoomKeeps`), and a
handler is a chain of these lemmas.  `spared` is the one room that may be empty while
a handler moves its client: it is why the final `deleteEmptyRoom` is needed, and why a
disconnect in the middle cannot delete a room too many.  Two parts strengthen the
properties: clients without a username are in the main room (otherwise activation
would break the lists), and ids are bounded (`IdsBounded`), which gives `NextId` a
largest id without an induction over the finite set of rooms.

`RoommatesKnow` is false in the middle of a move: those in the new room do not know the
mover yet.  `KnowApart(s, {mover})` is what remains, for everybody but the mover; the
second notice mends it, because by `Consistent` the list it goes through holds every
roommate, and one who refuses it is not in the room any more (`MoveKnows`).

The properties of a trial are about three places at once: the controller, a worker, and
the two pipes between them.  `Stage` says for every step of the controller, and for workers
whose turn in its loop has come or not, what the worker may be doing and what each pipe
may hold: it waits, was told, owes an answer (`OwesConnected`, `OwesReady`, `OwesResult`) or
has given it, perhaps followed by the error it died of.  A step of a worker stays within
what it owes (`StillOwesResult` and its like), whichever worker it is; a step of the
controller changes what is owed.  `WarmupIsOver` is then one row of `Stage`; `RowInv` says
what the row is made of (a merged state is of results of the measured phase only, metrics
need both lines), and `CleanInv` what each step of the `finally` block has left of the recorded
processes (`ProfilerEnded`, `WorkerEnded`, `ServerEnded`).  `UnrecordedInv` is about the others: there is
one at most, and outside the three windows between start and record only if the trial was
interrupted; `TrialCleansUp` follows from both.

`Keep` is a CHOOSE, so the proof exhibits what it chooses: the position of a kept element
in the filtered list is the number of kept positions up to its own (`KeepKeeps`), which is
an injection into the list of that length.  `RequeueRotates` says what `epoll_wait` does to the
ready list: the part behind the batch, then the batch.  It holds because no mask has `EPOLLET`
(`Types`); a refused call (`ControlFails`) leaves every list alone and maps to the refusal of
`Dispatcher`.

The percentiles are proved without an induction over the histogram: the number of waits
with at most `n` events satisfies the recursion of `Seen`, by the sizes of disjoint sets
(`AtMostGrows`), so `Seen` exists; that it is nothing else follows from a least value at which they
would differ (`SeenCounts`).  The first value at which the running total reaches the rank
had a wait of its own, or the total would have reached it before; and the rank is exactly
`percent * waits / 100` rounded up (`RankIsCeiling`).

`LoadInv == Types /\ HeapInv /\ TriedInv /\ QueueInv /\ PairInv /\ CountInv`.  `HeapInv`: an
active client has one entry at most, in the heap or among those due, and it is due before the
end.  `TriedInv`: an operation was tried exactly if no entry stands before it, which makes
`offered + missed` what `OffersAddUp` says when the heap is empty.  `QueueInv`: a request of
this phase is in one place only: before the server, behind it, or nowhere.
`PairInv`: what a direct client waits for is what the server owes it, then what it has not handled yet,
in this order; of a lost connection the answers that still arrive are the first of them.
`CountInv`: requests known to the server or on their way are no more than those sent, and
deliveries no more than the copies the server has made.  None of the last three holds without the
others: pairing needs that no request is queued twice, counting that an answer belongs
to a request of this phase.  `FullRatioIsHonest` combines them: if one request was not
handled, the deliveries of the others do not reach the full number.

`DriverInv == LoopInv /\ NamesInv /\ MetadataInv /\ SummaryInv /\ (NoRepeats(args) => SweepInv /\ FilesInv)`.
`LoopInv` holds for every command line: each position of the four loops that was passed has left one
record, as run or skipped, which `MetadataAccounts` counts.  So does `NamesInv`: a file has
a row of the case its name is made of.  With `NoRepeats` positions and cases are one to one
(`NamedOnce`), and `SweepInv` says what the records mean: a server is
active exactly while all it has run of this sweep was valid; `FilesInv` says that every
row is still there.  `DirectoryIsItsOwn` is inductive by itself.
What lies below a rate is what was passed before it, since rates are sorted; a case that is
skipped lies above an invalid one by the least rate at which the server was not valid, where
an induction over rates would be the other way to say it.  The summary is defined by
filters and sizes over the rows; `EveryTrialIsCounted` follows by a bijection between rows and the
finished cases, and `SustainableIsEarned` by counting the trials of a rate.

Only model-checked: liveness, with or without fairness (`AcceptedIsSent`,
`NoStarvation`, `ServedDuringFlood`, `GoneIsNoticed`, `SignalsAreServed`, `TrialEnds`;
fairness and ENABLED are out of the prover's reach), and the three violations, each of which is a
behaviour that TLC exhibits.

## Not modelled

- The bytes of a frame: its length, the stripping of `\r` and the parsing of commands are
  abstracted to the handler they lead to, or to the drop for a frame that is too long (any frame
  may be); wording of replies; sizes of LIST and WHERE replies (a reply is accepted or refused).
- Overflow of `roomIdx + 1` beyond `INT_MAX`: `MaxRoomIdx` keeps below it.
- `recordQueueSize` and the other counters that are counted up alike.
- In the benchmark: limits of `recv`, latencies and lag samples, the pauses of the set-up
  (`settle_clients`), CPU affinity, and the numbers of the row other than
  its validity and `delivery_ratio`.  One worker holds all connections of its model; the
  rate of a phase is constant.  A second interrupt, one during the
  clean-up of a trial, and one between `controls.append` and `processes.append`.  The option
  `allow_disconnects` (861): a row with disconnects is never valid in the model.
- The loop of `benchmark.main` over several tiers: `compare.py` calls it with one.  (With
  several, a later tier that it refuses ends the program before the rows of the
  earlier ones are written.)
- In `compare.py`: medians, the description of the machine in `metadata.json`, the build.
  `csv_to_xlsx.py` formats files, `profile.py` runs one trial with a profiler.
- Interactive clients: one process that copies lines between a terminal and a socket.  Its
  only state shared with the server is the room it displays, which it takes from the words of
  replies, and those the models abstract away; the rest is terminal input.
- Log lines, socket set-up.

## Plan

Done, in this order: output queue, dispatchers, rooms, loop, signals and metrics,
benchmark worker, trial and comparison; proofs of all their safety properties and
refinements.

Next:
1. `FrameReader`: `inputBuffer` in bytes with `MAX_FRAME_BYTES`, refining the frame
   counts of `ChatServer`.
2. `ChatClient`: the interactive clients' view of their room against the notices and
   replies of `ChatRooms`.
