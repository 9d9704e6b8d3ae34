----------------------------- MODULE ChatServer -----------------------------
(* The event loop of common/chat_server.cpp: run, handleEvent, the accept    *)
(* loop and handleRead with its read and frame budgets.  The handlers of the *)
(* frames are those of ChatRooms; here is when each of them runs.            *)
(*                                                                           *)
(* Input is counted in complete frames.  A frame is whatever handler the     *)
(* server takes for it, so any sequence of frames is among the behaviours.   *)
(* wait() is level-triggered and its batch is never full (EpollDispatcher    *)
(* has the full batches).                                                    *)
EXTENDS ChatRooms

CONSTANTS
  MAX_PROCESSED_FRAMES_PER_POLL,
  MAX_BYTES_READ_PER_POLL,    \* in frames
  MAX_DATA_SIZE,              \* what one recv() returns at most, in frames
  MAX_INPUT_BUFFER_BYTES,     \* in frames
  ReceiveBuffer,              \* capacity of the kernel's, in frames
  Backlog,                    \* connections the kernel holds for accept()
  MaxConnections,             \* bound of the model: connections ever made
  Listener                    \* the listening descriptor

ASSUME ServerConstants ==
  /\ MAX_PROCESSED_FRAMES_PER_POLL \in Nat \ {0}
  /\ MAX_BYTES_READ_PER_POLL \in Nat \ {0}
  /\ MAX_DATA_SIZE \in Nat \ {0}
  /\ MAX_INPUT_BUFFER_BYTES \in Nat
  /\ ReceiveBuffer \in Nat
  /\ Backlog \in Nat
  /\ MaxConnections \in Nat
  /\ Listener \notin Fds

VARIABLES
  pc,             \* where the loop is: see Places
  batch,          \* the events of the last wait() not handled yet
  event,          \* the event being handled
  bytesRead, framesProcessed,
  inputBuffer,    \* descriptor -> complete frames in the client's inputBuffer
  unread,         \* descriptor -> frames in the kernel's receive buffer
  finished,       \* descriptors whose peer has closed or reset
  backlog,        \* connections waiting for accept()
  connections     \* connections made so far

loopVars   == <<pc, batch, event, bytesRead, framesProcessed>>
kernelVars == <<unread, finished, backlog, connections>>
vars == <<chatVars, loopVars, kernelVars, inputBuffer>>

Places == {"wait", "dispatch", "accept", "recv", "frames", "flush"}
ReadyEvent == [fd : Fds \cup {Listener}, read : BOOLEAN, write : BOOLEAN]

Open == DOMAIN clients
Least(x, y) == IF x < y THEN x ELSE y

(* The kernel's and the server's buffers go with the descriptors closed by a *)
(* handler, that is, with the clients it leaves out.                         *)
Keep(f) == [fd \in Fds |-> IF fd \in DOMAIN clients' THEN f[fd] ELSE 0]

ClosedAreForgotten ==
  /\ unread' = Keep(unread)
  /\ finished' = finished \cap DOMAIN clients'
  /\ UNCHANGED <<backlog, connections>>

-----------------------------------------------------------------------------
(* run(): wait for events, handle each, wait again.                          *)

Readable(fd) == unread[fd] > 0 \/ fd \in finished

(* A client that is not readable may still be writable.                      *)
WaitReturns ==
  /\ pc = "wait"
  /\ \E writable \in SUBSET Open :
       /\ batch' = {[fd |-> fd, read |-> Readable(fd), write |-> fd \in writable] :
                      fd \in {f \in Open : Readable(f)} \cup writable}
                   \cup {[fd |-> l, read |-> TRUE, write |-> FALSE] :
                           l \in IF backlog > 0 THEN {Listener} ELSE {}}
       /\ batch' # {}
  /\ pc' = "dispatch"
  /\ UNCHANGED <<event, bytesRead, framesProcessed, chatVars, kernelVars, inputBuffer>>

(* Mutant: after one event the loop waits again.                             *)
HandleOneEvent ==
  /\ pc = "dispatch"
  /\ \E e \in batch :
       /\ batch' = {}
       /\ event' = e
       /\ pc' = IF e.fd = Listener THEN "accept"
                ELSE IF e.read /\ e.fd \in Open THEN "recv" ELSE "flush"
  /\ bytesRead' = 0
  /\ framesProcessed' = 0
  /\ UNCHANGED <<chatVars, kernelVars, inputBuffer>>

(* handleEvent() for any event of the batch: the client it was about may be  *)
(* gone, and its descriptor another client's.                                *)
HandleEvent ==
  /\ pc = "dispatch"
  /\ \E e \in batch :
       /\ batch' = batch \ {e}
       /\ event' = e
       /\ pc' = IF e.fd = Listener THEN "accept"
                ELSE IF e.read /\ e.fd \in Open THEN "recv" ELSE "flush"
  /\ bytesRead' = 0
  /\ framesProcessed' = 0
  /\ UNCHANGED <<chatVars, kernelVars, inputBuffer>>

BatchEnds ==
  /\ pc = "dispatch"
  /\ batch = {}
  /\ pc' = "wait"
  /\ UNCHANGED <<batch, event, bytesRead, framesProcessed, chatVars, kernelVars, inputBuffer>>

-----------------------------------------------------------------------------
(* acceptConnections()                                                       *)

AcceptOne ==
  /\ pc = "accept"
  /\ backlog > 0
  /\ \E fd \in Fds : Accept(fd)
  /\ backlog' = backlog - 1
  /\ UNCHANGED <<loopVars, unread, finished, connections, inputBuffer>>

(* fcntl, add() or the prompt fails, so that the connection is closed again, *)
(* or its peer has aborted it.                                               *)
AcceptFails ==
  /\ pc = "accept"
  /\ backlog > 0
  /\ Fds \ Open # {}
  /\ backlog' = backlog - 1
  /\ UNCHANGED <<chatVars, loopVars, unread, finished, connections, inputBuffer>>

(* EAGAIN; or another error (EMFILE, ENFILE, ENOMEM), which leaves           *)
(* connections waiting.                                                      *)
AcceptReturns ==
  /\ pc = "accept"
  /\ pc' = "dispatch"
  /\ UNCHANGED <<batch, event, bytesRead, framesProcessed, chatVars, kernelVars, inputBuffer>>

-----------------------------------------------------------------------------
(* handleRead()                                                              *)

client == event.fd

WithinBudget ==
  /\ bytesRead < MAX_BYTES_READ_PER_POLL
  /\ framesProcessed < MAX_PROCESSED_FRAMES_PER_POLL

Received == Least(unread[client], MAX_DATA_SIZE)

Fits == inputBuffer[client] + Received <= MAX_INPUT_BUFFER_BYTES

RecvData ==
  /\ pc = "recv"
  /\ WithinBudget
  /\ unread[client] > 0
  /\ Fits
  /\ unread' = [unread EXCEPT ![client] = @ - Received]
  /\ inputBuffer' = [inputBuffer EXCEPT ![client] = @ + Received]
  /\ bytesRead' = bytesRead + Received
  /\ pc' = "frames"
  /\ UNCHANGED <<batch, event, framesProcessed, chatVars, finished, backlog, connections>>

RecvTooMuch ==
  /\ pc = "recv"
  /\ WithinBudget
  /\ unread[client] > 0
  /\ ~Fits
  /\ Dropped(client)
  /\ ClosedAreForgotten
  /\ inputBuffer' = Keep(inputBuffer)
  /\ pc' = "flush"
  /\ UNCHANGED <<batch, event, bytesRead, framesProcessed>>

(* Mutant: recv() == 0 is taken for EAGAIN.                                  *)
EndIsIgnored ==
  /\ pc = "recv"
  /\ WithinBudget
  /\ unread[client] = 0
  /\ client \in finished
  /\ pc' = "flush"
  /\ UNCHANGED <<batch, event, bytesRead, framesProcessed, chatVars, kernelVars, inputBuffer>>

(* End of file or an error: what is left in inputBuffer goes unprocessed.    *)
RecvEnds ==
  /\ pc = "recv"
  /\ WithinBudget
  /\ unread[client] = 0
  /\ client \in finished
  /\ Departs(client)
  /\ ClosedAreForgotten
  /\ inputBuffer' = Keep(inputBuffer)
  /\ pc' = "flush"
  /\ UNCHANGED <<batch, event, bytesRead, framesProcessed>>

(* EAGAIN, or the budget of this event is spent.                             *)
ReadReturns ==
  /\ pc = "recv"
  /\ WithinBudget => unread[client] = 0 /\ client \notin finished
  /\ pc' = "flush"
  /\ UNCHANGED <<batch, event, bytesRead, framesProcessed, chatVars, kernelVars, inputBuffer>>

NextFrame ==
  pc = "frames" /\ framesProcessed < MAX_PROCESSED_FRAMES_PER_POLL /\ inputBuffer[client] > 0

FramesDone ==
  /\ pc = "frames"
  /\ ~NextFrame
  /\ pc' = "recv"
  /\ UNCHANGED <<batch, event, bytesRead, framesProcessed, chatVars, kernelVars, inputBuffer>>

(* Mutant: handleRead trusts what the handler returns.                       *)
FrameTakenBlindly(counted, goOn) ==
  /\ inputBuffer' = [Keep(inputBuffer) EXCEPT ![client] =
                       IF client \in DOMAIN clients' THEN @ - 1 ELSE @]
  /\ framesProcessed' = framesProcessed + counted
  /\ pc' = IF goOn THEN "frames" ELSE "flush"
  /\ ClosedAreForgotten
  /\ UNCHANGED <<batch, event, bytesRead>>

(* The frame is taken out of the buffer; handleRead returns if its client is *)
(* gone, or if the handler says so, as broadcast() does after a refusal.     *)
FrameTaken(counted, goOn) ==
  /\ inputBuffer' = [Keep(inputBuffer) EXCEPT ![client] =
                       IF client \in DOMAIN clients' THEN @ - 1 ELSE @]
  /\ framesProcessed' = framesProcessed + counted
  /\ pc' = IF client \in DOMAIN clients' /\ goOn THEN "frames" ELSE "flush"
  /\ ClosedAreForgotten
  /\ UNCHANGED <<batch, event, bytesRead>>

UsernameFrame == NextFrame /\ Username(client) /\ FrameTaken(0, TRUE)

(* Empty frames, commands with the wrong number of words, LEAVE in the main  *)
(* room, and replies that are accepted.                                      *)
IgnoredFrame ==
  /\ NextFrame
  /\ IsActive(State, client)
  /\ Quiet
  /\ UNCHANGED <<clients, rooms, roster>>
  /\ FrameTaken(1, TRUE)

JoinFrame == NextFrame /\ (\E name \in Names : Join(client, name)) /\ FrameTaken(1, TRUE)

LeaveFrame == NextFrame /\ Leave(client) /\ FrameTaken(1, TRUE)

MessageFrame ==
  /\ NextFrame
  /\ Message(client)
  /\ FrameTaken(1, clients' = clients)

QuitFrame == NextFrame /\ IsActive(State, client) /\ Departs(client) /\ FrameTaken(1, TRUE)

(* LIST, WHERE or a JOIN without a room whose reply is refused.              *)
ReplyRefused ==
  /\ NextFrame
  /\ IsActive(State, client)
  /\ Dropped(client)
  /\ FrameTaken(1, TRUE)

(* The next frame, or what has arrived of it, exceeds MAX_FRAME_BYTES.       *)
FrameTooLong ==
  /\ pc = "frames"
  /\ framesProcessed < MAX_PROCESSED_FRAMES_PER_POLL
  /\ Dropped(client)
  /\ ClosedAreForgotten
  /\ inputBuffer' = Keep(inputBuffer)
  /\ pc' = "flush"
  /\ UNCHANGED <<batch, event, bytesRead, framesProcessed>>

-----------------------------------------------------------------------------
(* handleEvent(), after the read: flushOutput if the event says so.          *)

Flushed ==
  /\ pc = "flush"
  /\ pc' = "dispatch"
  /\ UNCHANGED <<batch, event, bytesRead, framesProcessed, chatVars, kernelVars, inputBuffer>>

(* send() or setWriteInterest(false) fails.                                  *)
FlushFails ==
  /\ pc = "flush"
  /\ event.write
  /\ Departs(client)
  /\ ClosedAreForgotten
  /\ inputBuffer' = Keep(inputBuffer)
  /\ pc' = "dispatch"
  /\ UNCHANGED <<batch, event, bytesRead, framesProcessed>>

-----------------------------------------------------------------------------
(* The peers.                                                                *)

PeerConnects ==
  /\ connections < MaxConnections
  /\ backlog < Backlog
  /\ connections' = connections + 1
  /\ backlog' = backlog + 1
  /\ UNCHANGED <<chatVars, loopVars, unread, finished, inputBuffer>>

PeerSends(fd) ==
  /\ fd \in Open \ finished
  /\ unread[fd] < ReceiveBuffer
  /\ unread' = [unread EXCEPT ![fd] = @ + 1]
  /\ UNCHANGED <<chatVars, loopVars, finished, backlog, connections, inputBuffer>>

(* A reset throws away what was not read, an orderly close does not.         *)
PeerCloses(fd) ==
  /\ fd \in Open \ finished
  /\ finished' = finished \cup {fd}
  /\ unread' \in {unread, [unread EXCEPT ![fd] = 0]}
  /\ UNCHANGED <<chatVars, loopVars, backlog, connections, inputBuffer>>

-----------------------------------------------------------------------------

Init ==
  /\ ChatInit
  /\ pc = "wait"
  /\ batch = {}
  /\ event = [fd |-> Listener, read |-> FALSE, write |-> FALSE]
  /\ bytesRead = 0
  /\ framesProcessed = 0
  /\ inputBuffer = [fd \in Fds |-> 0]
  /\ unread = [fd \in Fds |-> 0]
  /\ finished = {}
  /\ backlog = 0
  /\ connections = 0

Server ==
  \/ WaitReturns \/ HandleEvent \/ BatchEnds
  \/ AcceptOne \/ AcceptFails \/ AcceptReturns
  \/ RecvData \/ RecvTooMuch \/ RecvEnds \/ ReadReturns \/ FramesDone
  \/ UsernameFrame \/ IgnoredFrame \/ JoinFrame \/ LeaveFrame \/ MessageFrame
  \/ QuitFrame \/ ReplyRefused \/ FrameTooLong
  \/ Flushed \/ FlushFails

Peers ==
  \/ PeerConnects
  \/ \E fd \in Fds : PeerSends(fd) \/ PeerCloses(fd)

Next == Server \/ Peers

Spec == Init /\ [][Next]_vars

(* The server is one thread that blocks nowhere but in wait(), which returns *)
(* when something is ready.  The peers need never do anything.               *)
FairSpec == Spec /\ WF_vars(Server)

-----------------------------------------------------------------------------

(* Every variable has the type of the code's field it models, and the input  *)
(* limits hold: MAX_INPUT_BUFFER_BYTES for what a client has buffered, the   *)
(* budgets for what one event makes the server read and process.             *)
ServerTypeOK ==
  /\ TypeOK
  /\ pc \in Places
  /\ batch \subseteq ReadyEvent
  /\ event \in ReadyEvent
  /\ bytesRead \in 0..(MAX_BYTES_READ_PER_POLL + MAX_DATA_SIZE - 1)
  /\ framesProcessed \in 0..MAX_PROCESSED_FRAMES_PER_POLL
  /\ inputBuffer \in [Fds -> 0..MAX_INPUT_BUFFER_BYTES]
  /\ unread \in [Fds -> 0..ReceiveBuffer]
  /\ finished \subseteq Open
  /\ backlog \in 0..Backlog
  /\ connections \in 0..MaxConnections

(* handleRead holds a pointer into `clients' across the handlers it calls,   *)
(* each of which may disconnect anybody: it never goes on with a client that *)
(* is gone.                                                                  *)
ReaderIsAlive ==
  pc \in {"recv", "frames"} => event.fd \in Open

(* A client with input is read again, however much the others send: the      *)
(* WHERE of tests/test_event_loop_fairness.py is reached during the flood.   *)
ServedDuringFlood ==
  \A fd \in Fds : []<>(unread[fd] = 0 \/ (pc = "recv" /\ event.fd = fd))

(* A peer that has gone is noticed, and its descriptor closed.               *)
GoneIsNoticed == \A fd \in Fds : []<>(fd \notin finished)

(* Every frame a client has sent is processed (tests/test_server_parity.py   *)
(* sends 20000 and then a WHERE, which must be answered): once the server    *)
(* has read all there is to read, nothing stays in inputBuffer for good.     *)
FramesAreProcessed ==
  \A fd \in Fds : []<>(unread[fd] > 0 \/ inputBuffer[fd] = 0)

=============================================================================
