------------------------ MODULE PollDispatcherProofs ------------------------
(* The swap-with-last table of PollDispatcher is right for any number of     *)
(* descriptors, and it implements the abstract Dispatcher.                   *)
EXTENDS PollDispatcher, TLAPS

IInv == TypeOK /\ IndexesMatch

(* Two registered descriptors never share an array element.                  *)
LEMMA IndexesDistinct ==
  ASSUME IInv, NEW f \in DOMAIN indexes, NEW g \in DOMAIN indexes, indexes[f] = indexes[g]
  PROVE  f = g
BY DEF IInv, IndexesMatch

(* What remove() does to the array and the table, element by element.        *)
LEMMA RemoveEffect ==
  ASSUME IInv, NEW fd \in Fds, Remove(fd)
  PROVE  /\ descriptors' \in Seq(pollfd) /\ Len(descriptors') = Len(descriptors) - 1
         /\ DOMAIN indexes' = DOMAIN indexes \ {fd}
         /\ \A f \in DOMAIN indexes' :
              /\ indexes'[f] \in Nat /\ indexes'[f] < Len(descriptors')
              /\ descriptors'[indexes'[f] + 1] = descriptors[indexes[f] + 1]
         /\ \A i \in 1..Len(descriptors') :
              /\ descriptors'[i].fd \in DOMAIN indexes'
              /\ indexes'[descriptors'[i].fd] = i - 1
<1> DEFINE n == Len(descriptors)
           ix == indexes[fd]
<1>1. fd \in DOMAIN indexes
  BY DEF Remove
<1>2. /\ descriptors \in Seq(pollfd) /\ n \in Nat
      /\ ix \in Nat /\ ix < n /\ descriptors[ix + 1].fd = fd
      /\ \A i \in 1..n : descriptors[i] \in pollfd
  BY <1>1 DEF IInv, TypeOK, IndexesMatch
<1>3. n \in 1..n /\ Last = descriptors[n] /\ Last.fd \in DOMAIN indexes
      /\ indexes[Last.fd] = n - 1
  BY <1>2 DEF Last, IInv, IndexesMatch
<1>4. /\ descriptors' = [i \in 1..(n - 1) |-> IF i = ix + 1 THEN Last ELSE descriptors[i]]
      /\ indexes' = [f \in DOMAIN indexes \ {fd} |->
                       IF f = Last.fd THEN ix ELSE indexes[f]]
  BY DEF Remove, Compacted, MovedIndexes
<1>5. descriptors' \in Seq(pollfd) /\ Len(descriptors') = n - 1
  <2>1. \A i \in 1..(n - 1) : (IF i = ix + 1 THEN Last ELSE descriptors[i]) \in pollfd
    BY <1>2, <1>3
  <2>2. n - 1 \in Nat
    BY <1>2
  <2> QED BY <1>4, <2>1, <2>2
<1>6. DOMAIN indexes' = DOMAIN indexes \ {fd}
  BY <1>4
<1>7. ASSUME NEW f \in DOMAIN indexes'
      PROVE  /\ indexes'[f] \in Nat /\ indexes'[f] < Len(descriptors')
             /\ descriptors'[indexes'[f] + 1] = descriptors[indexes[f] + 1]
  <2>1. f \in DOMAIN indexes /\ f # fd
    BY <1>6
  <2>2. indexes[f] \in Nat /\ indexes[f] < n /\ descriptors[indexes[f] + 1].fd = f
        /\ indexes[f] # ix
    BY <1>1, <2>1, IndexesDistinct DEF IInv, TypeOK, IndexesMatch
  <2>3. CASE f = Last.fd
    <3>1. indexes'[f] = ix /\ indexes[f] = n - 1
      BY <1>3, <1>4, <2>1, <2>3
    <3>2. ix < n - 1
      BY <1>2, <2>2, <3>1
    <3> QED BY <1>2, <1>3, <1>4, <1>5, <3>1, <3>2
  <2>4. CASE f # Last.fd
    <3>1. indexes'[f] = indexes[f]
      BY <1>4, <2>1, <2>4
    <3>2. indexes[f] # n - 1
      BY <1>3, <2>2, <2>4
    <3>3. indexes[f] + 1 \in 1..(n - 1) /\ indexes[f] + 1 # ix + 1
      BY <1>2, <2>2, <3>2, SMTT(60)
    <3> QED BY <1>4, <1>5, <2>2, <3>1, <3>3
  <2> QED BY <2>3, <2>4
<1>8. ASSUME NEW i \in 1..Len(descriptors')
      PROVE  /\ descriptors'[i].fd \in DOMAIN indexes'
             /\ indexes'[descriptors'[i].fd] = i - 1
  <2>1. i \in 1..(n - 1) /\ i \in 1..n
    BY <1>2, <1>5
  <2>2. /\ descriptors[i].fd \in DOMAIN indexes
        /\ indexes[descriptors[i].fd] = i - 1
    BY <2>1 DEF IInv, IndexesMatch
  <2>3. CASE i = ix + 1
    <3>1. descriptors'[i] = Last
      BY <1>4, <2>1, <2>3
    <3>2. Last.fd # fd
      BY <1>2, <1>3, <2>1, <2>3
    <3>3. indexes'[Last.fd] = ix
      BY <1>3, <1>4, <3>2
    <3> QED BY <1>2, <1>3, <1>6, <2>3, <3>1, <3>2, <3>3
  <2>4. CASE i # ix + 1
    <3>1. descriptors'[i] = descriptors[i]
      BY <1>4, <2>1, <2>4
    <3>2. descriptors[i].fd # fd
      BY <1>2, <2>1, <2>2, <2>4
    <3>3. descriptors[i].fd # Last.fd
      BY <1>2, <1>3, <2>1, <2>2
    <3>4. indexes'[descriptors[i].fd] = i - 1
      BY <1>4, <2>2, <3>2, <3>3
    <3> QED BY <1>6, <2>2, <3>1, <3>2, <3>4
  <2> QED BY <2>3, <2>4
<1> QED BY <1>5, <1>6, <1>7, <1>8

(* What add() does to the array and the table.                               *)
LEMMA AddEffect ==
  ASSUME IInv, NEW fd \in Fds, Add(fd)
  PROVE  /\ descriptors' \in Seq(pollfd) /\ Len(descriptors') = Len(descriptors) + 1
         /\ DOMAIN indexes' = DOMAIN indexes \cup {fd} /\ fd \notin DOMAIN indexes
         /\ \A f \in DOMAIN indexes : indexes'[f] = indexes[f]
         /\ indexes'[fd] = Len(descriptors)
         /\ \A i \in 1..Len(descriptors) : descriptors'[i] = descriptors[i]
         /\ descriptors'[Len(descriptors) + 1] = [fd |-> fd, out |-> FALSE]
<1>1. [fd |-> fd, out |-> FALSE] \in pollfd
  BY DEF pollfd
<1> QED BY <1>1 DEF Add, IInv, TypeOK

(* What setWriteInterest() does to the array.                                *)
LEMMA SetEffect ==
  ASSUME IInv, NEW fd \in Fds, NEW enabled \in BOOLEAN, SetWriteInterest(fd, enabled)
  PROVE  /\ descriptors' \in Seq(pollfd) /\ Len(descriptors') = Len(descriptors)
         /\ indexes' = indexes /\ fd \in DOMAIN indexes
         /\ \A i \in 1..Len(descriptors) :
              descriptors'[i] = IF i = indexes[fd] + 1
                                THEN [fd |-> fd, out |-> enabled] ELSE descriptors[i]
<1>1. fd \in DOMAIN indexes /\ indexes[fd] + 1 \in 1..Len(descriptors)
      /\ descriptors \in Seq(pollfd) /\ descriptors[indexes[fd] + 1].fd = fd
  BY DEF SetWriteInterest, IInv, TypeOK, IndexesMatch
<1>2. SetOut(descriptors[indexes[fd] + 1], enabled) = [fd |-> fd, out |-> enabled]
  <2>1. PICK d \in pollfd : d = descriptors[indexes[fd] + 1]
    BY <1>1
  <2>2. SetOut(d, enabled) = [fd |-> d.fd, out |-> enabled]
    BY DEF SetOut, pollfd
  <2> QED BY <1>1, <2>1, <2>2
<1>3. descriptors' = [descriptors EXCEPT ![indexes[fd] + 1] = [fd |-> fd, out |-> enabled]]
  BY <1>1, <1>2 DEF SetWriteInterest
<1>4. [fd |-> fd, out |-> enabled] \in pollfd
  BY DEF pollfd
<1> QED BY <1>1, <1>3, <1>4 DEF SetWriteInterest

LEMMA IInvStep ==
  ASSUME IInv, [Next]_vars
  PROVE  IInv'
<1>1. ASSUME NEW fd \in Fds, Add(fd) PROVE IInv'
  <2>0. Len(descriptors) \in Nat
    BY DEF IInv, TypeOK
  <2>1. ASSUME NEW f \in DOMAIN indexes'
        PROVE  /\ indexes'[f] \in Nat /\ indexes'[f] < Len(descriptors')
               /\ descriptors'[indexes'[f] + 1].fd = f
    <3>1. CASE f = fd
      <4>1. indexes'[f] = Len(descriptors) /\ Len(descriptors') = Len(descriptors) + 1
            /\ descriptors'[Len(descriptors) + 1] = [fd |-> fd, out |-> FALSE]
        BY <1>1, <3>1, AddEffect
      <4>2. [fd |-> fd, out |-> FALSE].fd = f
        BY <3>1
      <4> QED BY <2>0, <4>1, <4>2
    <3>2. CASE f # fd
      <4>1. f \in DOMAIN indexes /\ indexes'[f] = indexes[f]
            /\ Len(descriptors') = Len(descriptors) + 1
            /\ \A i \in 1..Len(descriptors) : descriptors'[i] = descriptors[i]
        BY <1>1, <3>2, AddEffect
      <4>2. indexes[f] \in Nat /\ indexes[f] < Len(descriptors)
            /\ descriptors[indexes[f] + 1].fd = f
        BY <4>1 DEF IInv, TypeOK, IndexesMatch
      <4> QED BY <2>0, <4>1, <4>2
    <3> QED BY <3>1, <3>2
  <2>2. ASSUME NEW i \in 1..Len(descriptors')
        PROVE  /\ descriptors'[i].fd \in DOMAIN indexes'
               /\ indexes'[descriptors'[i].fd] = i - 1
    <3>1. CASE i = Len(descriptors) + 1
      <4>1. descriptors'[i] = [fd |-> fd, out |-> FALSE]
        BY <1>1, <3>1, AddEffect
      <4>2. descriptors'[i].fd = fd
        BY <4>1
      <4>3. fd \in DOMAIN indexes' /\ indexes'[fd] = Len(descriptors)
        BY <1>1, AddEffect
      <4> QED BY <2>0, <3>1, <4>2, <4>3
    <3>2. CASE i # Len(descriptors) + 1
      <4>0. Len(descriptors') = Len(descriptors) + 1
        BY <1>1, AddEffect
      <4>1. i \in 1..Len(descriptors)
        BY <2>0, <3>2, <4>0
      <4>2. descriptors'[i] = descriptors[i]
        BY <1>1, <4>1, AddEffect
      <4>3. descriptors[i].fd \in DOMAIN indexes /\ indexes[descriptors[i].fd] = i - 1
        BY <4>1 DEF IInv, IndexesMatch
      <4> QED BY <1>1, <4>2, <4>3, AddEffect
    <3> QED BY <3>1, <3>2
  <2>3. TypeOK'
    <3>1. call' \in [op : {"add", "remove", "setWriteInterest"}, fd : Fds,
                     enabled : BOOLEAN, ok : BOOLEAN]
      BY <1>1 DEF Add, Call
    <3>2. DOMAIN indexes' \subseteq Fds
      BY <1>1, AddEffect, ZenonT(60) DEF IInv, TypeOK
    <3> QED BY <1>1, <2>1, <3>1, <3>2, AddEffect DEF IInv, TypeOK, Add
  <2>4. IndexesMatch'
    BY <2>1, <2>2 DEF IndexesMatch
  <2> QED BY <2>3, <2>4 DEF IInv
<1>2. ASSUME NEW fd \in Fds, Remove(fd) PROVE IInv'
  <2>1. IndexesMatch'
    BY <1>2, RemoveEffect DEF IInv, TypeOK, IndexesMatch
  <2>2. TypeOK'
    BY <1>2, RemoveEffect DEF IInv, TypeOK, Remove, Call
  <2> QED BY <2>1, <2>2 DEF IInv
<1>3. ASSUME NEW fd \in Fds, NEW enabled \in BOOLEAN, SetWriteInterest(fd, enabled) PROVE IInv'
  <2>1. IndexesMatch'
    <3>1. /\ indexes' = indexes /\ fd \in DOMAIN indexes
          /\ Len(descriptors') = Len(descriptors)
          /\ descriptors[indexes[fd] + 1].fd = fd
      BY <1>3, SetEffect DEF IInv, IndexesMatch
    <3>2. ASSUME NEW i \in 1..Len(descriptors) PROVE descriptors'[i].fd = descriptors[i].fd
      <4>1. CASE i = indexes[fd] + 1
        <5>1. descriptors'[i] = [fd |-> fd, out |-> enabled]
          BY <1>3, <4>1, SetEffect
        <5> QED BY <3>1, <4>1, <5>1
      <4>2. CASE i # indexes[fd] + 1
        BY <1>3, <4>2, SetEffect
      <4> QED BY <4>1, <4>2
    <3>3. \A f \in DOMAIN indexes : indexes[f] + 1 \in 1..Len(descriptors)
      BY DEF IInv, TypeOK, IndexesMatch
    <3> QED BY <3>1, <3>2, <3>3 DEF IInv, IndexesMatch
  <2>2. TypeOK'
    BY <1>3, SetEffect DEF IInv, TypeOK, SetWriteInterest, Call
  <2> QED BY <2>1, <2>2 DEF IInv
<1>4. ASSUME NEW fd \in Fds, Missing(fd) PROVE IInv'
  <2>1. call' \in [op : {"add", "remove", "setWriteInterest"}, fd : Fds,
                   enabled : BOOLEAN, ok : BOOLEAN]
    <3>1. CASE call' = Call("remove", fd, FALSE, FALSE)
      BY <3>1 DEF Call
    <3>2. ASSUME NEW enabled \in BOOLEAN, call' = Call("setWriteInterest", fd, enabled, FALSE)
          PROVE  call' \in [op : {"add", "remove", "setWriteInterest"}, fd : Fds,
                            enabled : BOOLEAN, ok : BOOLEAN]
      BY <3>2 DEF Call
    <3> QED BY <1>4, <3>1, <3>2 DEF Missing
  <2>2. UNCHANGED <<descriptors, indexes, ready>>
    BY <1>4 DEF Missing
  <2> QED BY <2>1, <2>2 DEF IInv, TypeOK, IndexesMatch
<1>5. ASSUME NEW fd \in Fds, NEW c \in Conditions, SocketChanges(fd, c) PROVE IInv'
  BY <1>5 DEF SocketChanges, IInv, TypeOK, IndexesMatch
<1>6. CASE Wait
  BY <1>6 DEF Wait, IInv, TypeOK, IndexesMatch
<1>7. CASE WaitInterrupted
  BY <1>7 DEF WaitInterrupted, IInv, TypeOK, IndexesMatch
<1>8. CASE UNCHANGED vars
  BY <1>8 DEF vars, IInv, TypeOK, IndexesMatch
<1> QED BY <1>1, <1>2, <1>3, <1>4, <1>5, <1>6, <1>7, <1>8 DEF Next

(* Each table entry leads to its own pollfd, after any sequence of calls.    *)
THEOREM TableIsRight == Spec => [](TypeOK /\ IndexesMatch)
<1>1. Init => IInv
  <2> SUFFICES ASSUME Init PROVE IInv
    OBVIOUS
  <2>1. call \in [op : {"add", "remove", "setWriteInterest"}, fd : Fds,
                  enabled : BOOLEAN, ok : BOOLEAN]
    <3>1. PICK fd \in Fds : call = Call("add", fd, FALSE, FALSE)
      BY DEF Init
    <3> QED BY <3>1 DEF Call
  <2>2. ready \in [Fds -> Conditions]
    BY DispatcherConstants DEF Init, DispatcherConstants
  <2>3. descriptors \in Seq(pollfd) /\ Len(descriptors) = 0 /\ DOMAIN indexes = {}
    BY DEF Init
  <2> QED BY <2>1, <2>2, <2>3 DEF IInv, TypeOK, IndexesMatch
<1>2. IInv /\ [Next]_vars => IInv'
  BY IInvStep
<1>3. IInv => TypeOK /\ IndexesMatch
  BY DEF IInv
<1> QED BY <1>1, <1>2, <1>3, PTL DEF Spec

(* The interest kept for a registered descriptor, seen through the table.    *)
LEMMA ElementOf ==
  ASSUME IInv, NEW f \in DOMAIN indexes
  PROVE  /\ indexes[f] + 1 \in 1..Len(descriptors)
         /\ descriptors[indexes[f] + 1] \in pollfd
         /\ descriptors[indexes[f] + 1].fd = f
         /\ D!WorkFor(f) = ReadyEvent(descriptors[indexes[f] + 1])
<1>1. /\ indexes[f] + 1 \in 1..Len(descriptors)
      /\ descriptors[indexes[f] + 1].fd = f
  BY DEF IInv, TypeOK, IndexesMatch
<1>2. descriptors[indexes[f] + 1] \in pollfd
  BY <1>1 DEF IInv, TypeOK
<1>3. PICK d \in pollfd : d = descriptors[indexes[f] + 1]
  BY <1>2
<1>4. d.fd = f /\ d.out \in BOOLEAN /\ InterestOfArray[f] = d.out
  BY <1>1, <1>3 DEF pollfd, InterestOfArray
<1>5. Revents(d) \cap {"in", "hup"} = ready[f] \cap {"in", "hup"}
  BY <1>4 DEF Revents
<1>6. ("out" \in Revents(d)) = ("out" \in ready[f] /\ d.out)
  BY <1>4 DEF Revents
<1>7. D!WorkFor(f) = [fd |-> f, read |-> ready[f] \cap {"in", "hup"} # {},
                      write |-> "out" \in ready[f] /\ d.out]
  BY <1>4 DEF D!WorkFor
<1>8. ReadyEvent(d) = [fd |-> f, read |-> ready[f] \cap {"in", "hup"} # {},
                       write |-> "out" \in ready[f] /\ d.out]
  BY <1>4, <1>5, <1>6 DEF ReadyEvent
<1> QED BY <1>1, <1>2, <1>3, <1>7, <1>8

(* Each call on the array and the table is the call of the interface.        *)
LEMMA StepImplements ==
  ASSUME IInv, [Next]_vars
  PROVE  [D!Next]_(D!vars)
<1>0. DOMAIN InterestOfArray = DOMAIN indexes
  BY DEF InterestOfArray
<1>1. ASSUME NEW fd \in Fds, Add(fd) PROVE D!Add(fd)
  <2>1. InterestOfArray' = [f \in DOMAIN indexes \cup {fd} |->
                              IF f = fd THEN FALSE ELSE InterestOfArray[f]]
    <3>1. DOMAIN indexes' = DOMAIN indexes \cup {fd} /\ fd \notin DOMAIN indexes
      BY <1>1, AddEffect
    <3>2. ASSUME NEW f \in DOMAIN indexes, f # fd
          PROVE descriptors'[indexes'[f] + 1].out = descriptors[indexes[f] + 1].out
      BY <1>1, AddEffect, ElementOf
    <3>3. descriptors'[indexes'[fd] + 1].out = FALSE
      <4>1. descriptors'[indexes'[fd] + 1] = [fd |-> fd, out |-> FALSE]
        BY <1>1, AddEffect
      <4> QED BY <4>1
    <3> QED BY <3>1, <3>2, <3>3 DEF InterestOfArray
  <2> QED BY <1>0, <1>1, <2>1 DEF D!Add, D!Registered, D!Call, Add, Call
<1>2. ASSUME NEW fd \in Fds, Remove(fd) PROVE D!Remove(fd)
  <2>1. InterestOfArray' = [f \in DOMAIN indexes \ {fd} |-> InterestOfArray[f]]
    BY <1>2, RemoveEffect DEF InterestOfArray
  <2>2. fd \in DOMAIN indexes /\ call' = Call("remove", fd, FALSE, TRUE)
        /\ UNCHANGED <<ready, batch>>
    BY <1>2 DEF Remove
  <2> QED BY <1>0, <2>1, <2>2 DEF D!Remove, D!Registered, D!Call, Call
<1>3. ASSUME NEW fd \in Fds, NEW enabled \in BOOLEAN, SetWriteInterest(fd, enabled)
      PROVE  D!SetWriteInterest(fd, enabled)
  <2>1. InterestOfArray' = [f \in DOMAIN indexes |-> IF f = fd THEN enabled ELSE InterestOfArray[f]]
    <3>1. indexes' = indexes /\ fd \in DOMAIN indexes
      BY <1>3, SetEffect
    <3>2. ASSUME NEW f \in DOMAIN indexes, f # fd
          PROVE descriptors'[indexes[f] + 1].out = descriptors[indexes[f] + 1].out
      <4>1. indexes[f] + 1 \in 1..Len(descriptors) /\ indexes[fd] \in Nat /\ indexes[f] \in Nat
            /\ indexes[f] # indexes[fd]
        BY <3>1, <3>2, ElementOf, IndexesDistinct DEF IInv, TypeOK
      <4>2. indexes[f] + 1 # indexes[fd] + 1
        BY <4>1
      <4> QED BY <1>3, <4>1, <4>2, SetEffect
    <3>3. descriptors'[indexes[fd] + 1].out = enabled
      <4>1. descriptors'[indexes[fd] + 1] = [fd |-> fd, out |-> enabled]
        BY <1>3, <3>1, SetEffect, ElementOf
      <4> QED BY <4>1
    <3> QED BY <3>1, <3>2, <3>3 DEF InterestOfArray
  <2>2. fd \in DOMAIN indexes /\ call' = Call("setWriteInterest", fd, enabled, TRUE)
        /\ UNCHANGED <<ready, batch>>
    BY <1>3 DEF SetWriteInterest
  <2> QED BY <1>0, <2>1, <2>2 DEF D!SetWriteInterest, D!Registered, D!Call, Call
<1>4. ASSUME NEW fd \in Fds, Missing(fd)
      PROVE  D!Remove(fd) \/ \E enabled \in BOOLEAN : D!SetWriteInterestFails(fd, enabled)
  <2>1. fd \notin DOMAIN indexes /\ InterestOfArray' = InterestOfArray
        /\ UNCHANGED <<ready, batch>>
    BY <1>4 DEF Missing, InterestOfArray
  <2>2. CASE call' = Call("remove", fd, FALSE, FALSE)
    <3>1. InterestOfArray' = [f \in DOMAIN indexes \ {fd} |-> InterestOfArray[f]]
      BY <2>1 DEF InterestOfArray
    <3>2. (fd \in D!Registered) = FALSE
      BY <1>0, <2>1 DEF D!Registered
    <3> QED BY <1>0, <2>1, <2>2, <3>1, <3>2 DEF D!Remove, D!Registered, D!Call, Call
  <2>3. ASSUME NEW enabled \in BOOLEAN, call' = Call("setWriteInterest", fd, enabled, FALSE)
        PROVE  D!SetWriteInterestFails(fd, enabled)
    BY <2>1, <2>3 DEF D!SetWriteInterestFails, D!Call, Call
  <2> QED BY <1>4, <2>2, <2>3 DEF Missing
<1>5. ASSUME NEW fd \in Fds, NEW c \in Conditions, SocketChanges(fd, c)
      PROVE  D!SocketChanges(fd, c)
  BY <1>5 DEF SocketChanges, D!SocketChanges, InterestOfArray
<1>6. CASE Wait
  <2> DEFINE reported == {f \in DOMAIN indexes : D!NeedsWork(f)}
             events == {i \in 1..Len(descriptors) : Revents(descriptors[i]) # {}}
  <2>1. ASSUME NEW d \in pollfd
        PROVE Revents(d) # {} <=> ReadyEvent(d).read \/ ReadyEvent(d).write
    BY DEF Revents, ReadyEvent
  <2>2. ASSUME NEW f \in reported
        PROVE  \E i \in events : D!WorkFor(f) = ReadyEvent(descriptors[i])
    <3>1. f \in DOMAIN indexes /\ D!NeedsWork(f)
      OBVIOUS
    <3>2. indexes[f] + 1 \in events
      BY <2>1, <3>1, ElementOf DEF D!NeedsWork
    <3> QED BY <3>1, <3>2, ElementOf
  <2>3. ASSUME NEW i \in events
        PROVE  \E f \in reported : D!WorkFor(f) = ReadyEvent(descriptors[i])
    <3> DEFINE f == descriptors[i].fd
    <3>1. f \in DOMAIN indexes /\ indexes[f] = i - 1 /\ i \in 1..Len(descriptors)
      BY DEF IInv, IndexesMatch
    <3>2. indexes[f] + 1 = i
      BY <3>1 DEF IInv, TypeOK
    <3>3. D!WorkFor(f) = ReadyEvent(descriptors[i]) /\ descriptors[i] \in pollfd
      BY <3>1, <3>2, ElementOf
    <3>4. D!NeedsWork(f)
      BY <2>1, <3>3 DEF D!NeedsWork
    <3> QED BY <3>1, <3>3, <3>4
  <2>4. batch' = {ReadyEvent(descriptors[i]) : i \in events} /\ events # {}
        /\ UNCHANGED <<descriptors, indexes, ready, call>>
    BY <1>6 DEF Wait
  <2>5. batch' = {D!WorkFor(f) : f \in reported} /\ reported # {}
    <3> HIDE DEF reported, events
    <3> QED BY <2>2, <2>3, <2>4
  <2>6. \A f \in DOMAIN indexes \ reported : ~D!NeedsWork(f)
    OBVIOUS
  <2>7. reported \in SUBSET {f \in D!Registered : D!NeedsWork(f)}
    BY <1>0 DEF D!Registered
  <2>8. InterestOfArray' = InterestOfArray
    BY <2>4 DEF InterestOfArray
  <2>9. D!Wait
    <3> HIDE DEF reported
    <3> QED BY <1>0, <2>4, <2>5, <2>6, <2>7, <2>8 DEF D!Wait, D!Registered
  <2> QED BY <2>9 DEF D!Next
<1>7. CASE WaitInterrupted
  BY <1>7 DEF WaitInterrupted, D!WaitInterrupted, D!Next, InterestOfArray
<1>8. CASE UNCHANGED vars
  BY <1>8 DEF vars, D!vars, InterestOfArray
<1> QED BY <1>1, <1>2, <1>3, <1>4, <1>5, <1>6, <1>7, <1>8 DEF Next, D!Next

(* The poll dispatcher implements the interface the chat server is written   *)
(* against.                                                                  *)
THEOREM PollImplementsDispatcher == Spec => ImplementsDispatcher
<1>1. Init => D!Init
  BY DEF Init, D!Init, InterestOfArray, Call, D!Call
<1>3. IInv /\ [Next]_vars => [D!Next]_(D!vars)
  BY StepImplements
<1>4. Spec => []IInv
  BY TableIsRight, PTL DEF IInv
<1> QED BY <1>1, <1>3, <1>4, PTL DEF Spec, D!Spec, ImplementsDispatcher

=============================================================================
