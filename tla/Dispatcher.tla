----------------------------- MODULE Dispatcher -----------------------------
(* What the chat server relies on from a ReadinessDispatcher, the interface  *)
(* of common/chat_server.hpp: it remembers which descriptors are registered  *)
(* and for which of them write readiness is wanted, and wait() returns, for  *)
(* a set of registered descriptors, what the event loop must do for each.    *)
EXTENDS Integers, FiniteSets

CONSTANTS
  Fds,            \* descriptor numbers
  Conditions,     \* sets of conditions a socket may be in at the same time
  MaxEvents       \* the most events one wait() returns

VARIABLES
  interest,   \* registered descriptor -> is write readiness wanted?
  ready,      \* descriptor -> the conditions its socket is in
  batch,      \* what the last wait() asked the loop to do
  call        \* the last call made, and what it returned

vars == <<interest, ready, batch, call>>

(* A call of the interface: its arguments and its result.                    *)
Call(op, fd, enabled, ok) == [op |-> op, fd |-> fd, enabled |-> enabled, ok |-> ok]

Registered == DOMAIN interest

(* handleEvent reads on READY_READ or READY_ERROR and flushes on READY_WRITE.*)
Work == [fd : Fds, read : BOOLEAN, write : BOOLEAN]

WorkFor(fd) ==
  [fd |-> fd, read  |-> ready[fd] \cap {"in", "hup"} # {},
              write |-> "out" \in ready[fd] /\ interest[fd]]

NeedsWork(fd) == WorkFor(fd).read \/ WorkFor(fd).write

(* accept() returns a descriptor that is not open, so not registered.        *)
Add(fd) ==
  /\ fd \notin Registered
  /\ interest' = [f \in Registered \cup {fd} |-> IF f = fd THEN FALSE ELSE interest[f]]
  /\ call' = Call("add", fd, FALSE, TRUE)
  /\ UNCHANGED <<ready, batch>>

(* The operating system refuses to register fd, or to change what is wanted  *)
(* for it: the call returns false and nothing has changed.                   *)
AddFails(fd) ==
  /\ fd \notin Registered
  /\ call' = Call("add", fd, FALSE, FALSE)
  /\ UNCHANGED <<interest, ready, batch>>

SetWriteInterestFails(fd, enabled) ==
  /\ call' = Call("setWriteInterest", fd, enabled, FALSE)
  /\ UNCHANGED <<interest, ready, batch>>

Remove(fd) ==
  /\ interest' = [f \in Registered \ {fd} |-> interest[f]]
  /\ call' = Call("remove", fd, FALSE, fd \in Registered)
  /\ UNCHANGED <<ready, batch>>

SetWriteInterest(fd, enabled) ==
  /\ fd \in Registered
  /\ interest' = [interest EXCEPT ![fd] = enabled]
  /\ call' = Call("setWriteInterest", fd, enabled, TRUE)
  /\ UNCHANGED <<ready, batch>>

(* Every descriptor that needs work is reported, unless the batch is full.   *)
Wait ==
  \E reported \in SUBSET {fd \in Registered : NeedsWork(fd)} :
    /\ reported # {}
    /\ \/ \A fd \in Registered \ reported : ~NeedsWork(fd)
       \/ Cardinality(reported) = MaxEvents
    /\ batch' = {WorkFor(fd) : fd \in reported}
    /\ UNCHANGED <<interest, ready, call>>

(* A signal ends the wait (EINTR): no events.                                *)
WaitInterrupted ==
  /\ batch' = {}
  /\ UNCHANGED <<interest, ready, call>>

(* The kernel and the peers change the condition of a socket at any time.    *)
SocketChanges(fd, c) ==
  /\ ready' = [ready EXCEPT ![fd] = c]
  /\ UNCHANGED <<interest, batch, call>>

Init ==
  /\ interest = [f \in {} |-> FALSE]
  /\ ready = [f \in Fds |-> {}]
  /\ batch = {}
  /\ call \in {Call("add", fd, FALSE, FALSE) : fd \in Fds}   \* none yet

Next ==
  \/ \E fd \in Fds :
       \/ Add(fd)
       \/ AddFails(fd)
       \/ Remove(fd)
       \/ \E enabled \in BOOLEAN :
            SetWriteInterest(fd, enabled) \/ SetWriteInterestFails(fd, enabled)
       \/ \E c \in Conditions : SocketChanges(fd, c)
  \/ Wait
  \/ WaitInterrupted

Spec == Init /\ [][Next]_vars

=============================================================================
