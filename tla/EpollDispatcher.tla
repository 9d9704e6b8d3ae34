-------------------------- MODULE EpollDispatcher ---------------------------
(* The dispatcher of epoll/epoll_dispatcher.cpp.  It keeps nothing itself:   *)
(* the kernel holds the interest list and a list of descriptors that may be  *)
(* ready, from which epoll_wait takes at most MAX_EVENTS.  The kernel's part *)
(* is external: a descriptor it reported goes back to the end of the list,   *)
(* unless its event mask has EPOLLET.                                        *)
EXTENDS Integers, Sequences, FiniteSets, Functions

CONSTANTS Fds, Conditions, MaxEvents

ASSUME DispatcherConstants ==
  /\ IsFiniteSet(Fds)
  /\ Conditions \subseteq SUBSET {"in", "out", "rdhup", "hup"}
  /\ {} \in Conditions
  /\ \A c \in Conditions : "rdhup" \in c => "in" \in c   \* a FIN is readable
  /\ MaxEvents \in Nat \ {0}

VARIABLES
  interestList,   \* kernel: descriptor -> set of events asked for
  readyList,      \* kernel: descriptors to look at, without repetition
  ready, batch, call

vars == <<interestList, readyList, ready, batch, call>>

Call(op, fd, enabled, ok) == [op |-> op, fd |-> fd, enabled |-> enabled, ok |-> ok]

(* Mutant: a change of write interest drops EPOLLIN and EPOLLRDHUP.          *)
WriteOnlyEvents(enabled) == IF enabled THEN {"out"} ELSE {"in", "rdhup"}

(* Mutant: EPOLLET is set.                                                   *)
EdgeTriggered(enabled) == {"in", "rdhup", "et"} \cup (IF enabled THEN {"out"} ELSE {})

(* The event mask of EPOLL_CTL_ADD and EPOLL_CTL_MOD.                        *)
Events(enabled) == {"in", "rdhup"} \cup (IF enabled THEN {"out"} ELSE {})

(* What epoll reports for fd: EPOLLHUP and EPOLLERR need not be asked for.   *)
Revents(fd, list, conditions) == conditions[fd] \cap (list[fd] \cup {"hup"})

(* The kernel's state after a change that concerns fd: if fd is ready now it *)
(* joins the ready list q.                                                   *)
Kernel(fd, list, conditions, q) ==
  /\ interestList' = list
  /\ ready' = conditions
  /\ readyList' = IF /\ fd \in DOMAIN list \ Range(q)
                    /\ Revents(fd, list, conditions) # {}
                 THEN Append(q, fd)
                 ELSE q

Registered == DOMAIN interestList

WithEvents(fd, enabled) ==
  [f \in Registered \cup {fd} |-> IF f = fd THEN Events(enabled) ELSE interestList[f]]

Add(fd) ==
  /\ fd \notin Registered
  /\ Kernel(fd, WithEvents(fd, FALSE), ready, readyList)
  /\ call' = Call("add", fd, FALSE, TRUE)
  /\ UNCHANGED batch

(* What is left of q if only members of S may stay, in the same order.       *)
Keep(q, S) ==
  LET kept == {i \in DOMAIN q : q[i] \in S}
      place(i) == Cardinality({j \in kept : j <= i})
  IN  [n \in 1..Cardinality(kept) |-> q[CHOOSE i \in kept : place(i) = n]]

Without(fd) == [f \in Registered \ {fd} |-> interestList[f]]

Remove(fd) ==
  /\ fd \in Registered
  /\ Kernel(fd, Without(fd), ready, Keep(readyList, Fds \ {fd}))
  /\ call' = Call("remove", fd, FALSE, TRUE)
  /\ UNCHANGED batch

SetWriteInterest(fd, enabled) ==
  /\ fd \in Registered
  /\ Kernel(fd, WithEvents(fd, enabled), ready, readyList)
  /\ call' = Call("setWriteInterest", fd, enabled, TRUE)
  /\ UNCHANGED batch

(* epoll_ctl fails with ENOMEM or ENOSPC: the call returns false.            *)
ControlFails(fd) ==
  /\ \/ fd \notin Registered /\ call' = Call("add", fd, FALSE, FALSE)
     \/ /\ fd \in Registered
        /\ \E enabled \in BOOLEAN : call' = Call("setWriteInterest", fd, enabled, FALSE)
  /\ UNCHANGED <<interestList, readyList, ready, batch>>

(* epoll_ctl fails with ENOENT.                                              *)
Missing(fd) ==
  /\ fd \notin Registered
  /\ \/ call' = Call("remove", fd, FALSE, FALSE)
     \/ \E enabled \in BOOLEAN : call' = Call("setWriteInterest", fd, enabled, FALSE)
  /\ UNCHANGED <<interestList, readyList, ready, batch>>

(* The ReadyEvent of an epoll_event, as handleEvent tells its flags apart.   *)
ReadyEvent(fd, events) ==
  [fd |-> fd, read |-> events \cap {"in", "rdhup", "hup"} # {}, write |-> "out" \in events]

IsReady(fd) == Revents(fd, interestList, ready) # {}

(* Kernel: level-triggered descriptors queue up again behind the others.     *)
Requeue(rest, reported) ==
  rest \o Keep(reported, {fd \in Registered : "et" \notin interestList[fd]})

(* epoll_wait scans the list up to the MAX_EVENTS-th ready descriptor and    *)
(* drops from it those that are not ready any more.  (The candidates are one *)
(* value, bound by a quantifier to be computed once.)                        *)
Wait ==
  \E candidates \in {Keep(readyList, {fd \in Registered : IsReady(fd)})} :
    LET n        == IF Len(candidates) < MaxEvents THEN Len(candidates) ELSE MaxEvents
        reported == SubSeq(candidates, 1, n)
    IN  /\ n > 0
        /\ batch' = {ReadyEvent(fd, Revents(fd, interestList, ready)) : fd \in Range(reported)}
        /\ readyList' = Requeue(SubSeq(candidates, n + 1, Len(candidates)), reported)
        /\ UNCHANGED <<interestList, ready, call>>

(* A signal ends the wait (EINTR): no events.                                *)
WaitInterrupted ==
  /\ batch' = {}
  /\ UNCHANGED <<interestList, readyList, ready, call>>

SocketChanges(fd, c) ==
  /\ Kernel(fd, interestList, [ready EXCEPT ![fd] = c], readyList)
  /\ UNCHANGED <<batch, call>>

Init ==
  /\ interestList = [f \in {} |-> {}]
  /\ readyList = <<>>
  /\ ready = [f \in Fds |-> {}]
  /\ batch = {}
  /\ call \in {Call("add", fd, FALSE, FALSE) : fd \in Fds}   \* none yet

Next ==
  \/ \E fd \in Fds :
       \/ Add(fd)
       \/ Remove(fd)
       \/ Missing(fd)
       \/ ControlFails(fd)
       \/ \E enabled \in BOOLEAN : SetWriteInterest(fd, enabled)
       \/ \E c \in Conditions : SocketChanges(fd, c)
  \/ Wait
  \/ WaitInterrupted

Spec == Init /\ [][Next]_vars

(* The event loop calls wait() again and again.                              *)
FairSpec == Spec /\ WF_vars(Wait)

-----------------------------------------------------------------------------

(* The interest list and the ready list stay well formed: nothing that was   *)
(* removed can still be reported, and nothing is listed twice.               *)
ListsAreSound ==
  /\ Registered \subseteq Fds
  /\ Range(readyList) \subseteq Registered
  /\ IsInjective(readyList)
  /\ \A fd \in Registered : IsReady(fd) => fd \in Range(readyList)

(* Is write readiness part of the event mask?                                *)
WriteInterest == [f \in Registered |-> "out" \in interestList[f]]

D == INSTANCE Dispatcher WITH interest <- WriteInterest

(* Both dispatchers serve the same interface, although epoll asks for        *)
(* EPOLLRDHUP, which poll does not, and reports at most MAX_EVENTS.          *)
ImplementsDispatcher == D!Spec

(* A descriptor that stays registered and ready is reported even if more     *)
(* than MAX_EVENTS descriptors are ready in every wait.                      *)
NoStarvation ==
  \A fd \in Fds :
    <>[](fd \in Registered /\ IsReady(fd)) => []<>(\E e \in batch : e.fd = fd)

=============================================================================
