--------------------------- MODULE PollDispatcher ---------------------------
(* The dispatcher of poll(2)/poll_dispatcher.cpp: a dense array of pollfd,   *)
(* searched through a table from descriptor to array index.  remove() fills  *)
(* the hole with the last element, whose table entry must move along.  Array *)
(* indexes count from 0, as in the code.                                     *)
EXTENDS Integers, Sequences, FiniteSets

CONSTANTS Fds, Conditions, MaxEvents

ASSUME DispatcherConstants ==
  /\ IsFiniteSet(Fds)
  /\ Conditions \subseteq SUBSET {"in", "out", "rdhup", "hup"}
  /\ {} \in Conditions
  /\ \A c \in Conditions : "rdhup" \in c => "in" \in c   \* a FIN is readable
  /\ MaxEvents \in Nat \ {0}

VARIABLES
  descriptors,    \* sequence of [fd, out]: the pollfd, POLLIN is always set
  indexes,        \* descriptor -> index in the array
  ready, batch, call

vars == <<descriptors, indexes, ready, batch, call>>

pollfd == [fd : Fds, out : BOOLEAN]

At(index) == descriptors[index + 1]

Call(op, fd, enabled, ok) == [op |-> op, fd |-> fd, enabled |-> enabled, ok |-> ok]

Add(fd) ==
  /\ fd \notin DOMAIN indexes
  /\ indexes' = [f \in DOMAIN indexes \cup {fd} |->
                   IF f = fd THEN Len(descriptors) ELSE indexes[f]]
  /\ descriptors' = Append(descriptors, [fd |-> fd, out |-> FALSE])
  /\ call' = Call("add", fd, FALSE, TRUE)
  /\ UNCHANGED <<ready, batch>>

(* remove() and setWriteInterest() find no entry: ENOENT.                    *)
Missing(fd) ==
  /\ fd \notin DOMAIN indexes
  /\ \/ call' = Call("remove", fd, FALSE, FALSE)
     \/ \E enabled \in BOOLEAN : call' = Call("setWriteInterest", fd, enabled, FALSE)
  /\ UNCHANGED <<descriptors, indexes, ready, batch>>

Last == descriptors[Len(descriptors)]

(* Mutant: the table entry of the moved element is not updated.              *)
StaleIndexes(fd) == [f \in DOMAIN indexes \ {fd} |-> indexes[f]]

(* The table once the last element has moved into fd's place.                *)
MovedIndexes(fd) ==
  [f \in DOMAIN indexes \ {fd} |-> IF f = Last.fd THEN indexes[fd] ELSE indexes[f]]

(* The array once the last element has moved into that index.                *)
Compacted(index) ==
  [i \in 1..(Len(descriptors) - 1) |-> IF i = index + 1 THEN Last ELSE descriptors[i]]

Remove(fd) ==
  /\ fd \in DOMAIN indexes
  /\ indexes' = MovedIndexes(fd)
  /\ descriptors' = Compacted(indexes[fd])
  /\ call' = Call("remove", fd, FALSE, TRUE)
  /\ UNCHANGED <<ready, batch>>

(* Mutant: only ever adds POLLOUT.                                           *)
SetOutOnly(d, enabled) == [d EXCEPT !.out = @ \/ enabled]

SetOut(d, enabled) == [d EXCEPT !.out = enabled]

SetWriteInterest(fd, enabled) ==
  /\ fd \in DOMAIN indexes
  /\ descriptors' = [descriptors EXCEPT ![indexes[fd] + 1] = SetOut(@, enabled)]
  /\ call' = Call("setWriteInterest", fd, enabled, TRUE)
  /\ UNCHANGED <<indexes, ready, batch>>

(* What poll() reports for a descriptor: the conditions asked for, and the   *)
(* error conditions, which are not asked for.                                *)
Revents(d) ==
  (ready[d.fd] \cap {"in", "hup"}) \cup (IF d.out THEN ready[d.fd] \cap {"out"} ELSE {})

(* The ReadyEvent made of revents, as handleEvent tells its flags apart.     *)
ReadyEvent(d) ==
  [fd |-> d.fd, read |-> Revents(d) \cap {"in", "hup"} # {}, write |-> "out" \in Revents(d)]

(* Blocks while nothing is ready.                                            *)
Wait ==
  LET events == {i \in 1..Len(descriptors) : Revents(descriptors[i]) # {}}
  IN  /\ events # {}
      /\ batch' = {ReadyEvent(descriptors[i]) : i \in events}
      /\ UNCHANGED <<descriptors, indexes, ready, call>>

(* A signal ends the wait (EINTR): no events.                                *)
WaitInterrupted ==
  /\ batch' = {}
  /\ UNCHANGED <<descriptors, indexes, ready, call>>

SocketChanges(fd, c) ==
  /\ ready' = [ready EXCEPT ![fd] = c]
  /\ UNCHANGED <<descriptors, indexes, batch, call>>

Init ==
  /\ descriptors = <<>>
  /\ indexes = [f \in {} |-> 0]
  /\ ready = [f \in Fds |-> {}]
  /\ batch = {}
  /\ call \in {Call("add", fd, FALSE, FALSE) : fd \in Fds}   \* none yet

Next ==
  \/ \E fd \in Fds :
       \/ Add(fd)
       \/ Remove(fd)
       \/ Missing(fd)
       \/ \E enabled \in BOOLEAN : SetWriteInterest(fd, enabled)
       \/ \E c \in Conditions : SocketChanges(fd, c)
  \/ Wait
  \/ WaitInterrupted

Spec == Init /\ [][Next]_vars

-----------------------------------------------------------------------------

(* Every variable has the type of the code's field it models.                *)
TypeOK ==
  /\ descriptors \in Seq(pollfd)
  /\ DOMAIN indexes \subseteq Fds
  /\ \A f \in DOMAIN indexes : indexes[f] \in Nat
  /\ ready \in [Fds -> Conditions]
  /\ call \in [op : {"add", "remove", "setWriteInterest"}, fd : Fds,
               enabled : BOOLEAN, ok : BOOLEAN]

(* The table and the array describe the same set of descriptors: each entry  *)
(* leads to its own pollfd, and each pollfd has an entry leading to it.      *)
IndexesMatch ==
  /\ \A f \in DOMAIN indexes :
       indexes[f] < Len(descriptors) /\ descriptors[indexes[f] + 1].fd = f
  /\ \A i \in 1..Len(descriptors) :
       /\ descriptors[i].fd \in DOMAIN indexes
       /\ indexes[descriptors[i].fd] = i - 1

(* The interest the array holds for each registered descriptor.              *)
InterestOfArray == [f \in DOMAIN indexes |-> descriptors[indexes[f] + 1].out]

D == INSTANCE Dispatcher WITH interest <- InterestOfArray

(* Through any sequence of calls the array and the table serve the interface.*)
ImplementsDispatcher == D!Spec

=============================================================================
