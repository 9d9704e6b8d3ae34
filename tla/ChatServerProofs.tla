-------------------------- MODULE ChatServerProofs --------------------------
(* Proofs about ChatRooms and ChatServer, for any descriptors, room names,   *)
(* limits and buffers: the rooms stay consistent, ids keep their meaning,    *)
(* notices reach everybody; the loop keeps the rooms that way, and its       *)
(* reader never outlives its client.                                         *)
(*                                                                           *)
(* Handlers compose helpers, so the invariant is a predicate of the state    *)
(* record, each helper has a lemma that says what it keeps of it, and each   *)
(* handler is the composition of these lemmas.  Between joinRoom and         *)
(* deleteEmptyRoom one room may be empty, the one `spared', and between the  *)
(* two notices of a move one client's whereabouts are not known.             *)
EXTENDS ChatServer, WellFoundedInduction, TLAPS

Room == [roomIdx : Nat, roomName : Names, subscribedClients : Subscriptions]

NewcomersInMain(s) ==
  \A f \in DOMAIN s.clients : s.clients[f].clientState = "awaiting" => s.clients[f].currRoom = 0

(* Rooms are never listed, so this stands in for their being finitely many.  *)
IdsBounded(rs) == \E b \in Nat : \A r \in rs : r.roomIdx <= b

Consistent(s, spared) ==
  /\ TypeOKIn(s)
  /\ ListsMatchClientsIn(s)
  /\ RoomsAreDistinctIn(s)
  /\ RoomsAreInUseIn(s, spared)
  /\ NewcomersInMain(s)
  /\ IdsBounded(s.rooms)

-----------------------------------------------------------------------------
(* Room ids.                                                                 *)

(* A non-empty set of rooms with bounded ids has one with the largest id.    *)
LEMMA LargestId ==
  ASSUME NEW rs \in SUBSET Room, rs # {}, IdsBounded(rs)
  PROVE  \E r \in rs : \A q \in rs : q.roomIdx <= r.roomIdx
<1>1. PICK b \in Nat : \A r \in rs : r.roomIdx <= b
  BY DEF IdsBounded
<1> DEFINE D == {b - r.roomIdx : r \in rs}
<1>2. \A r \in rs : r.roomIdx \in Nat
  BY DEF Room
<1>3. D \subseteq Nat /\ D # {}
  BY <1>1, <1>2
<1>4. PICK x \in D : \A y \in D : ~(<<y, x>> \in OpToRel(<, Nat))
  <2> HIDE DEF D
  <2> QED BY <1>3, NatLessThanWellFounded, WFMin, Zenon
<1>5. \A y \in D : x <= y
  <2> HIDE DEF D
  <2> SUFFICES ASSUME NEW y \in D, ~(x <= y) PROVE FALSE
    OBVIOUS
  <2>1. x \in Nat /\ y \in Nat /\ y < x
    BY <1>3
  <2>2. <<y, x>> \in OpToRel(<, Nat)
    BY <2>1 DEF OpToRel
  <2> QED BY <1>4, <2>2
<1>6. PICK r \in rs : x = b - r.roomIdx
  OBVIOUS
<1>7. ASSUME NEW q \in rs PROVE q.roomIdx <= r.roomIdx
  <2>1. b - q.roomIdx \in D
    OBVIOUS
  <2>2. b - r.roomIdx <= b - q.roomIdx
    <3> HIDE DEF D
    <3> QED BY <1>5, <1>6, <2>1
  <2>3. q.roomIdx \in Nat /\ r.roomIdx \in Nat
    BY <1>2
  <2> HIDE DEF D
  <2> QED BY <2>2, <2>3
<1> QED BY <1>7

(* The id of a new room is larger than any in use.                           *)
LEMMA NextIdIsFresh ==
  ASSUME NEW rs \in SUBSET Room, rs # {}, IdsBounded(rs)
  PROVE  /\ NextId(rs) \in Nat
         /\ \A r \in rs : r.roomIdx < NextId(rs)
<1>1. PICK r \in rs : \A q \in rs : q.roomIdx <= r.roomIdx
  BY LargestId
<1>2. \A q \in rs : q.roomIdx \in Nat
  BY DEF Room
<1>3. /\ r.roomIdx + 1 \in {q.roomIdx + 1 : q \in rs}
      /\ \A q \in rs : q.roomIdx < r.roomIdx + 1
  BY <1>1, <1>2
<1>4. /\ NextId(rs) \in {q.roomIdx + 1 : q \in rs}
      /\ \A q \in rs : q.roomIdx < NextId(rs)
  BY <1>3, Zenon DEF NextId
<1> QED BY <1>2, <1>4

(* Fewer rooms have no larger ids.                                           *)
LEMMA BoundedBySame ==
  ASSUME NEW rs, NEW new, IdsBounded(rs),
         \A r \in new : \E q \in rs : r.roomIdx = q.roomIdx
  PROVE  IdsBounded(new)
BY DEF IdsBounded

-----------------------------------------------------------------------------
(* Single rooms.                                                             *)

(* What Unsubscribed changes.                                                *)
LEMMA UnsubscribedFields ==
  ASSUME NEW r \in Room, NEW gone
  PROVE  /\ Unsubscribed(r, gone) \in Room
         /\ Unsubscribed(r, gone).roomIdx = r.roomIdx
         /\ Unsubscribed(r, gone).roomName = r.roomName
         /\ \A f \in Fds : Unsubscribed(r, gone).subscribedClients[f] =
              IF f \in gone THEN 0 ELSE r.subscribedClients[f]
BY DEF Unsubscribed, Room, Subscriptions

(* What Subscribed changes.                                                  *)
LEMMA SubscribedFields ==
  ASSUME NEW r \in Room, NEW fd \in Fds, NEW name
  PROVE  /\ Subscribed(r, fd, name) \in Room
         /\ Subscribed(r, fd, name).roomIdx = r.roomIdx
         /\ Subscribed(r, fd, name).roomName = r.roomName
         /\ \A f \in Fds : Subscribed(r, fd, name).subscribedClients[f] =
              IF f = fd /\ r.roomName = name THEN r.subscribedClients[f] + 1
                                             ELSE r.subscribedClients[f]
<1>1. r.subscribedClients \in [Fds -> Nat]
  BY DEF Room, Subscriptions
<1>2. CASE r.roomName = name
  BY <1>1, <1>2 DEF Subscribed, Room, Subscriptions
<1>3. CASE r.roomName # name
  BY <1>3 DEF Subscribed
<1> QED BY <1>2, <1>3

(* Lists are equal if they hold every descriptor the same number of times.   *)
LEMMA NobodyIsEmpty ==
  ASSUME NEW r \in Room
  PROVE  r.subscribedClients = Nobody <=> \A f \in Fds : r.subscribedClients[f] = 0
<1>1. r.subscribedClients \in [Fds -> Nat] /\ Nobody \in [Fds -> Nat]
  BY DEF Room, Subscriptions, Nobody
<1>2. \A f \in Fds : Nobody[f] = 0
  BY DEF Nobody
<1>3. ASSUME \A f \in Fds : r.subscribedClients[f] = 0
      PROVE  r.subscribedClients = Nobody
  BY <1>1, <1>2, <1>3
<1> QED BY <1>2, <1>3

-----------------------------------------------------------------------------
(* The helpers.                                                              *)

(* What TypeOKIn says, field by field.                                       *)
LEMMA Types ==
  ASSUME NEW s, TypeOKIn(s)
  PROVE  /\ DOMAIN s.clients \subseteq Fds
         /\ \A f \in DOMAIN s.clients :
              s.clients[f] \in [clientState : {"awaiting", "active"}, currRoom : Nat]
         /\ s.rooms \subseteq Room
         /\ s.roster \in [Fds -> SUBSET Fds]
BY DEF TypeOKIn, Room

(* The converse.                                                             *)
LEMMA TypesSuffice ==
  ASSUME NEW s, NEW dom \in SUBSET Fds, DOMAIN s.clients = dom,
         s.clients = [f \in dom |-> s.clients[f]],
         \A f \in dom :
           s.clients[f] \in [clientState : {"awaiting", "active"}, currRoom : Nat],
         s.rooms \subseteq Room,
         s.roster \in [Fds -> SUBSET Fds]
  PROVE  TypeOKIn(s)
<1>1. s.clients \in [dom -> [clientState : {"awaiting", "active"}, currRoom : Nat]]
  OBVIOUS
<1> QED BY <1>1 DEF TypeOKIn, Room

(* disconnect() keeps the types.                                             *)
LEMMA DisconnectTypes ==
  ASSUME NEW s, TypeOKIn(s), NEW gone \in SUBSET DOMAIN s.clients,
         NEW d, d = disconnect(s, gone)
  PROVE  TypeOKIn(d)
<1>t. /\ DOMAIN s.clients \subseteq Fds
      /\ \A f \in DOMAIN s.clients :
           s.clients[f] \in [clientState : {"awaiting", "active"}, currRoom : Nat]
      /\ s.rooms \subseteq Room
      /\ s.roster \in [Fds -> SUBSET Fds]
  BY Types
<1>1. /\ d.clients = [f \in DOMAIN s.clients \ gone |-> s.clients[f]]
      /\ d.rooms = deleteEmptyRooms(removeFromRooms(s.rooms, gone),
                                     {s.clients[f].currRoom : f \in gone})
      /\ d.roster = [f \in Fds |-> IF f \in gone THEN {} ELSE s.roster[f] \ gone]
  BY DEF disconnect, Restrict
<1>2. /\ DOMAIN d.clients = DOMAIN s.clients \ gone
      /\ \A f \in DOMAIN d.clients : d.clients[f] = s.clients[f]
  BY <1>1
<1>3. d.rooms \subseteq Room
  BY <1>t, <1>1, UnsubscribedFields DEF deleteEmptyRooms, removeFromRooms
<1>4. d.roster \in [Fds -> SUBSET Fds]
  BY <1>t, <1>1
<1>5. \A f \in DOMAIN d.clients :
        d.clients[f] \in [clientState : {"awaiting", "active"}, currRoom : Nat]
  BY <1>t, <1>2
<1>6. DOMAIN d.clients \in SUBSET Fds
  BY <1>t, <1>2
<1>7. d.clients = [f \in DOMAIN d.clients |-> d.clients[f]]
  BY <1>1
<1> QED BY <1>3, <1>4, <1>5, <1>6, <1>7, TypesSuffice

(* Its rooms: those of before without the descriptors, the ones that became  *)
(* empty left out.                                                           *)
LEMMA DisconnectRooms ==
  ASSUME NEW s, TypeOKIn(s), NEW gone \in SUBSET DOMAIN s.clients,
         NEW d, d = disconnect(s, gone)
  PROVE  /\ \A q \in d.rooms : \E r \in s.rooms :
              /\ q = Unsubscribed(r, gone)
              /\ \/ \A f \in gone : s.clients[f].currRoom # r.roomIdx
                 \/ r.roomName = MainRoom
                 \/ q.subscribedClients # Nobody
         /\ \A r \in s.rooms :
              \/ \A f \in gone : s.clients[f].currRoom # r.roomIdx
              \/ r.roomName = MainRoom
              \/ Unsubscribed(r, gone).subscribedClients # Nobody
              => Unsubscribed(r, gone) \in d.rooms
<1> DEFINE ids == {s.clients[f].currRoom : f \in gone}
<1>1. d.rooms = deleteEmptyRooms(removeFromRooms(s.rooms, gone), ids)
  BY DEF disconnect
<1>2. \A r \in s.rooms : /\ Unsubscribed(r, gone).roomIdx = r.roomIdx
                         /\ Unsubscribed(r, gone).roomName = r.roomName
  BY Types, UnsubscribedFields
<1>3. \A x : x \notin ids <=> \A f \in gone : s.clients[f].currRoom # x
  OBVIOUS
<1> HIDE DEF ids
<1>4. ASSUME NEW q \in d.rooms
      PROVE  \E r \in s.rooms :
               /\ q = Unsubscribed(r, gone)
               /\ \/ \A f \in gone : s.clients[f].currRoom # r.roomIdx
                  \/ r.roomName = MainRoom
                  \/ q.subscribedClients # Nobody
  <2>1. /\ q \in removeFromRooms(s.rooms, gone)
        /\ q.roomIdx \notin ids \/ q.roomName = MainRoom \/ q.subscribedClients # Nobody
    BY <1>1, <1>4 DEF deleteEmptyRooms
  <2>2. PICK r \in s.rooms : q = Unsubscribed(r, gone)
    BY <2>1 DEF removeFromRooms
  <2> QED BY <1>2, <1>3, <2>1, <2>2
<1>5. ASSUME NEW r \in s.rooms,
             \/ \A f \in gone : s.clients[f].currRoom # r.roomIdx
             \/ r.roomName = MainRoom
             \/ Unsubscribed(r, gone).subscribedClients # Nobody
      PROVE  Unsubscribed(r, gone) \in d.rooms
  <2>1. Unsubscribed(r, gone) \in removeFromRooms(s.rooms, gone)
    BY DEF removeFromRooms
  <2>2. \/ Unsubscribed(r, gone).roomIdx \notin ids
        \/ Unsubscribed(r, gone).roomName = MainRoom
        \/ Unsubscribed(r, gone).subscribedClients # Nobody
    BY <1>2, <1>3, <1>5
  <2> QED BY <1>1, <2>1, <2>2 DEF deleteEmptyRooms
<1> QED BY <1>4, <1>5

(* Disconnecting clients leaves clients and rooms consistent.                *)
LEMMA DisconnectKeeps ==
  ASSUME NEW s, NEW spared, Consistent(s, spared), NEW gone \in SUBSET DOMAIN s.clients,
         NEW d, d = disconnect(s, gone)
  PROVE  Consistent(d, spared)
<1>t. /\ TypeOKIn(s) /\ s.rooms \subseteq Room /\ DOMAIN s.clients \subseteq Fds
      /\ \A f \in DOMAIN s.clients :
           s.clients[f] \in [clientState : {"awaiting", "active"}, currRoom : Nat]
  BY Types DEF Consistent
<1>f. /\ DOMAIN d.clients = DOMAIN s.clients \ gone
      /\ \A f \in DOMAIN d.clients : d.clients[f] = s.clients[f]
      /\ \A f \in Fds : IsActive(d, f) <=> f \notin gone /\ IsActive(s, f)
      /\ TypeOKIn(d)
  <2>1. TypeOKIn(s)
    BY <1>t
  <2>2. d.clients = [f \in DOMAIN s.clients \ gone |-> s.clients[f]]
    BY DEF disconnect, Restrict
  <2>3. /\ DOMAIN d.clients = DOMAIN s.clients \ gone
        /\ \A f \in DOMAIN d.clients : d.clients[f] = s.clients[f]
    BY <2>2
  <2>4. \A f \in Fds : IsActive(d, f) <=> f \notin gone /\ IsActive(s, f)
    BY <2>3 DEF IsActive
  <2>5. TypeOKIn(d)
    BY <2>1, DisconnectTypes, Zenon
  <2> QED BY <2>3, <2>4, <2>5
<1>r. /\ \A q \in d.rooms : \E r \in s.rooms :
           /\ q = Unsubscribed(r, gone)
           /\ \/ \A f \in gone : s.clients[f].currRoom # r.roomIdx
              \/ r.roomName = MainRoom
              \/ q.subscribedClients # Nobody
      /\ \A r \in s.rooms :
           \/ \A f \in gone : s.clients[f].currRoom # r.roomIdx
           \/ r.roomName = MainRoom
           \/ Unsubscribed(r, gone).subscribedClients # Nobody
           => Unsubscribed(r, gone) \in d.rooms
  BY <1>t, DisconnectRooms
<1>u. \A r \in s.rooms :
        /\ Unsubscribed(r, gone) \in Room
        /\ Unsubscribed(r, gone).roomIdx = r.roomIdx
        /\ Unsubscribed(r, gone).roomName = r.roomName
        /\ \A f \in Fds : Unsubscribed(r, gone).subscribedClients[f] =
             IF f \in gone THEN 0 ELSE r.subscribedClients[f]
  BY <1>t, UnsubscribedFields
<1>l. \A r \in s.rooms : \A f \in Fds :
        r.subscribedClients[f] =
          IF IsActive(s, f) /\ s.clients[f].currRoom = r.roomIdx THEN 1 ELSE 0
  BY DEF Consistent, ListsMatchClientsIn
<1>d. /\ \A r1, r2 \in s.rooms :
           r1.roomIdx = r2.roomIdx \/ r1.roomName = r2.roomName => r1 = r2
      /\ \E r \in s.rooms : r.roomIdx = 0 /\ r.roomName = MainRoom
  BY DEF Consistent, RoomsAreDistinctIn
<1>1. ListsMatchClientsIn(d)
  <2> SUFFICES ASSUME NEW q \in d.rooms, NEW f \in Fds
               PROVE  q.subscribedClients[f] =
                        IF IsActive(d, f) /\ d.clients[f].currRoom = q.roomIdx THEN 1 ELSE 0
    BY DEF ListsMatchClientsIn
  <2>1. PICK r \in s.rooms : q = Unsubscribed(r, gone)
    BY <1>r
  <2>2. q.subscribedClients[f] = (IF f \in gone THEN 0 ELSE r.subscribedClients[f])
        /\ q.roomIdx = r.roomIdx
    BY <1>u, <2>1
  <2>3. IsActive(d, f) => f \in DOMAIN d.clients
    BY DEF IsActive
  <2> QED BY <1>f, <1>l, <2>2, <2>3
<1>2. RoomsAreDistinctIn(d)
  <2>1. ASSUME NEW q1 \in d.rooms, NEW q2 \in d.rooms,
               q1.roomIdx = q2.roomIdx \/ q1.roomName = q2.roomName
        PROVE  q1 = q2
    BY <1>r, <1>u, <1>d, <2>1
  <2>2. \E q \in d.rooms : q.roomIdx = 0 /\ q.roomName = MainRoom
    BY <1>r, <1>u, <1>d
  <2> QED BY <2>1, <2>2 DEF RoomsAreDistinctIn
<1>3. RoomsAreInUseIn(d, spared)
  <2>1. ASSUME NEW f \in DOMAIN d.clients
        PROVE  \E q \in d.rooms : q.roomIdx = d.clients[f].currRoom
    <3>1. f \in DOMAIN s.clients /\ f \notin gone /\ f \in Fds /\ d.clients[f] = s.clients[f]
      BY <1>f, <1>t
    <3>2. PICK r \in s.rooms : r.roomIdx = s.clients[f].currRoom
      BY <3>1 DEF Consistent, RoomsAreInUseIn
    <3>3. CASE IsActive(s, f)
      <4>1. Unsubscribed(r, gone).subscribedClients[f] = 1
        BY <1>l, <1>u, <3>1, <3>2, <3>3
      <4>2. Unsubscribed(r, gone).subscribedClients # Nobody
        BY <1>u, <3>1, <4>1, NobodyIsEmpty
      <4> QED BY <1>r, <1>u, <3>1, <3>2, <4>2
    <3>4. CASE ~IsActive(s, f)
      <4>1. s.clients[f].clientState = "awaiting"
        BY <1>t, <3>1, <3>4 DEF IsActive
      <4>2. s.clients[f].currRoom = 0
        BY <3>1, <4>1 DEF Consistent, NewcomersInMain
      <4>3. r.roomName = MainRoom
        BY <1>d, <3>2, <4>2
      <4> QED BY <1>r, <1>u, <3>1, <3>2, <4>3
    <3> QED BY <3>3, <3>4
  <2>2. ASSUME NEW q \in d.rooms, q.roomIdx \notin {0, spared}
        PROVE  q.subscribedClients # Nobody
    <3>1. PICK r \in s.rooms :
            /\ q = Unsubscribed(r, gone)
            /\ \/ \A f \in gone : s.clients[f].currRoom # r.roomIdx
               \/ r.roomName = MainRoom
               \/ q.subscribedClients # Nobody
      BY <1>r
    <3>2. r.roomIdx = q.roomIdx /\ r.roomName # MainRoom
      BY <1>u, <1>d, <2>2, <3>1
    <3>3. CASE \A f \in gone : s.clients[f].currRoom # r.roomIdx
      <4>1. r.subscribedClients # Nobody
        BY <2>2, <3>2 DEF Consistent, RoomsAreInUseIn
      <4>2. PICK f \in Fds : r.subscribedClients[f] # 0
        BY <1>t, <4>1, NobodyIsEmpty
      <4>3. f \notin gone
        BY <1>l, <3>3, <4>2
      <4>4. q.subscribedClients[f] # 0
        BY <1>u, <3>1, <4>2, <4>3
      <4> QED BY <1>u, <3>1, <4>4, NobodyIsEmpty
    <3> QED BY <3>1, <3>2, <3>3
  <2> QED BY <2>1, <2>2 DEF RoomsAreInUseIn
<1>4. NewcomersInMain(d)
  BY <1>f DEF Consistent, NewcomersInMain
<1>5. IdsBounded(d.rooms)
  <2>1. \A q \in d.rooms : \E r \in s.rooms : q.roomIdx = r.roomIdx
    BY <1>r, <1>u
  <2>2. IdsBounded(s.rooms)
    BY DEF Consistent
  <2> QED BY <2>1, <2>2, BoundedBySame
<1> QED BY <1>f, <1>1, <1>2, <1>3, <1>4, <1>5 DEF Consistent

(* Only the types depend on what clients have been told.                     *)
LEMMA RosterIsApart ==
  ASSUME NEW s, NEW spared, Consistent(s, spared),
         NEW t, t.clients = s.clients, t.rooms = s.rooms,
         t.roster \in [Fds -> SUBSET Fds]
  PROVE  Consistent(t, spared)
<1>1. TypeOKIn(t)
  BY DEF Consistent, TypeOKIn
<1>2. ListsMatchClientsIn(t)
  BY DEF Consistent, ListsMatchClientsIn, IsActive
<1>3. RoomsAreDistinctIn(t) /\ RoomsAreInUseIn(t, spared)
  BY DEF Consistent, RoomsAreDistinctIn, RoomsAreInUseIn
<1>4. NewcomersInMain(t) /\ IdsBounded(t.rooms)
  BY DEF Consistent, NewcomersInMain
<1> QED BY <1>1, <1>2, <1>3, <1>4 DEF Consistent

(* Some clients are gone, and the others are as they were.                   *)
OnlyLoses(s, gone, n) ==
  /\ DOMAIN n.clients = DOMAIN s.clients \ gone
  /\ \A f \in DOMAIN n.clients : n.clients[f] = s.clients[f]

(* A notice to a room leaves clients and rooms consistent, whoever refuses   *)
(* it, and those who do not refuse it stay as they are.                      *)
LEMMA NotifyKeeps ==
  ASSUME NEW s, NEW spared, Consistent(s, spared), NEW id, NEW excluded,
         NEW refuses \in SUBSET Recipients(s, id, excluded),
         NEW notice, notice.who \in Fds,
         NEW n, n = notifyRoom(s, id, excluded, refuses, notice)
  PROVE  Consistent(n, spared) /\ OnlyLoses(s, refuses, n)
<1> DEFINE t == Told(s, Recipients(s, id, excluded) \ refuses, notice)
<1>1. t.clients = s.clients /\ t.rooms = s.rooms
  BY DEF Told
<1>2. t.roster \in [Fds -> SUBSET Fds]
  BY Types DEF Told, Consistent
<1>3. n = disconnect(t, refuses)
  BY DEF notifyRoom
<1>4. refuses \in SUBSET DOMAIN t.clients
  BY <1>1 DEF Recipients
<1> HIDE DEF t
<1>5. Consistent(t, spared)
  BY <1>1, <1>2, RosterIsApart, Zenon
<1>6. Consistent(n, spared)
  BY <1>3, <1>4, <1>5, DisconnectKeeps, Zenon
<1>7. n.clients = [f \in DOMAIN s.clients \ refuses |-> s.clients[f]]
  BY <1>1, <1>3 DEF disconnect, Restrict
<1> QED BY <1>6, <1>7 DEF OnlyLoses

-----------------------------------------------------------------------------
(* Entering a room.                                                          *)

(* What joinRoom finds: as Consistent, except that the list of its room need *)
(* not hold fd yet.                                                          *)
Joinable(s, fd) ==
  /\ TypeOKIn(s)
  /\ RoomsAreDistinctIn(s)
  /\ RoomsAreInUseIn(s, 0)
  /\ NewcomersInMain(s)
  /\ IdsBounded(s.rooms)
  /\ IsActive(s, fd)
  /\ \A r \in s.rooms : \A f \in Fds \ {fd} :
       r.subscribedClients[f] =
         IF IsActive(s, f) /\ s.clients[f].currRoom = r.roomIdx THEN 1 ELSE 0
  /\ \A r \in s.rooms : r.subscribedClients[fd] # 0 => r.roomIdx = s.clients[fd].currRoom

(* A room of the name is there once joinRoom has looked it up, and no two    *)
(* rooms share an id or a name.                                              *)
LEMMA WithRoomFields ==
  ASSUME NEW s, TypeOKIn(s), RoomsAreDistinctIn(s), IdsBounded(s.rooms),
         NEW name \in Names,
         NEW rs, rs = WithRoom(s.rooms, name)
  PROVE  /\ rs \subseteq Room
         /\ s.rooms \subseteq rs
         /\ \A r \in rs \ s.rooms : r.roomName = name /\ r.subscribedClients = Nobody
         /\ \E r \in rs : r.roomName = name
         /\ \A r1, r2 \in rs :
              r1.roomIdx = r2.roomIdx \/ r1.roomName = r2.roomName => r1 = r2
         /\ IdsBounded(rs)
<1>t. s.rooms \subseteq Room
  BY Types
<1>d. /\ \A r1, r2 \in s.rooms :
           r1.roomIdx = r2.roomIdx \/ r1.roomName = r2.roomName => r1 = r2
      /\ s.rooms # {}
  BY DEF RoomsAreDistinctIn
<1>1. CASE \E r \in s.rooms : r.roomName = name
  <2>1. rs = s.rooms
    BY <1>1 DEF WithRoom
  <2> QED BY <1>t, <1>d, <1>1, <2>1
<1>2. CASE ~ \E r \in s.rooms : r.roomName = name
  <2> DEFINE new == [roomIdx |-> NextId(s.rooms), roomName |-> name,
                     subscribedClients |-> Nobody]
  <2>1. rs = s.rooms \cup {new}
    BY <1>2 DEF WithRoom
  <2>2. /\ NextId(s.rooms) \in Nat
        /\ \A r \in s.rooms : r.roomIdx < NextId(s.rooms)
    BY <1>t, <1>d, NextIdIsFresh
  <2>3. new \in Room
    BY <2>2 DEF Room, Nobody, Subscriptions
  <2>4. /\ new.roomIdx = NextId(s.rooms) /\ new.roomName = name
        /\ new.subscribedClients = Nobody
    OBVIOUS
  <2> HIDE DEF new
  <2>5. \A r \in s.rooms : r.roomIdx # new.roomIdx /\ r.roomName # new.roomName
    <3> SUFFICES ASSUME NEW r \in s.rooms
                 PROVE  r.roomIdx # new.roomIdx /\ r.roomName # new.roomName
      OBVIOUS
    <3>1. r.roomIdx \in Nat
      BY <1>t DEF Room
    <3> QED BY <1>2, <2>2, <2>4, <3>1
  <2>6. \A r1, r2 \in rs :
          r1.roomIdx = r2.roomIdx \/ r1.roomName = r2.roomName => r1 = r2
    BY <1>d, <2>1, <2>5
  <2>7. \A r \in rs : r.roomIdx <= NextId(s.rooms)
    <3>1. \A r \in s.rooms : r.roomIdx \in Nat
      BY <1>t DEF Room
    <3> QED BY <2>1, <2>2, <2>4, <3>1
  <2> QED BY <1>t, <2>1, <2>2, <2>3, <2>4, <2>6, <2>7 DEF IdsBounded
<1> QED BY <1>1, <1>2

(* joinRoom moves only fd, to the room called name.                          *)
OnlyMoves(s, fd, name, rs, j) ==
  /\ DOMAIN j.clients = DOMAIN s.clients
  /\ \A f \in DOMAIN s.clients \ {fd} : j.clients[f] = s.clients[f]
  /\ \A f \in Fds : IsActive(j, f) <=> IsActive(s, f)
  /\ fd \in DOMAIN j.clients
  /\ j.clients[fd].clientState = "active"
  /\ \E r \in rs : r.roomName = name /\ j.clients[fd].currRoom = r.roomIdx

(* The clients after joinRoom.                                               *)
LEMMA JoinFields ==
  ASSUME NEW s, NEW fd \in Fds, Joinable(s, fd), NEW name \in Names,
         NEW rs, rs = WithRoom(s.rooms, name),
         NEW j, j = joinRoom(s, fd, name)
  PROVE  OnlyMoves(s, fd, name, rs, j) /\ TypeOKIn(j)
<1>t. /\ DOMAIN s.clients \subseteq Fds
      /\ \A f \in DOMAIN s.clients :
           s.clients[f] \in [clientState : {"awaiting", "active"}, currRoom : Nat]
      /\ s.rooms \subseteq Room
      /\ s.roster \in [Fds -> SUBSET Fds]
  BY Types DEF Joinable
<1>w. rs \subseteq Room /\ \E r \in rs : r.roomName = name
  BY WithRoomFields DEF Joinable
<1>1. PICK r \in rs : r.roomName = name /\ r.roomIdx = IdOf(rs, name)
  BY <1>w DEF IdOf
<1>2. r.roomIdx \in Nat
  BY <1>w, <1>1 DEF Room
<1>3. /\ j.clients = Entered(s, fd, r.roomIdx)
      /\ j.rooms = {Subscribed(x, fd, name) : x \in removeFromRooms(rs, {fd})}
      /\ j.roster = RosterOnEntry(s, fd, name)
  BY <1>1 DEF joinRoom
<1>4. fd \in DOMAIN s.clients /\ s.clients[fd].clientState = "active"
  BY DEF Joinable, IsActive
<1>5. /\ DOMAIN j.clients = DOMAIN s.clients
      /\ j.clients = [f \in DOMAIN j.clients |-> j.clients[f]]
  BY <1>3 DEF Entered
<1>6. \A f \in DOMAIN s.clients \ {fd} : j.clients[f] = s.clients[f]
  BY <1>3 DEF Entered
<1>7. j.clients[fd] = [clientState |-> "active", currRoom |-> r.roomIdx]
  BY <1>3, <1>4 DEF Entered
<1>8. j.clients[fd].clientState = "active" /\ j.clients[fd].currRoom = r.roomIdx
  BY <1>7
<1>9. \A f \in Fds : IsActive(j, f) <=> IsActive(s, f)
  BY <1>4, <1>5, <1>6, <1>8 DEF IsActive
<1>10. j.rooms \subseteq Room
  BY <1>w, <1>3, UnsubscribedFields, SubscribedFields DEF removeFromRooms
<1>11. j.roster \in [Fds -> SUBSET Fds]
  BY <1>t, <1>3 DEF RosterOnEntry
<1>12. \A f \in DOMAIN j.clients :
         j.clients[f] \in [clientState : {"awaiting", "active"}, currRoom : Nat]
  BY <1>t, <1>2, <1>5, <1>6, <1>7
<1>13. TypeOKIn(j)
  <2>1. DOMAIN j.clients \in SUBSET Fds
    BY <1>t, <1>5
  <2> QED BY <2>1, <1>5, <1>10, <1>11, <1>12, TypesSuffice
<1> QED BY <1>1, <1>4, <1>5, <1>6, <1>8, <1>9, <1>13 DEF OnlyMoves

(* After joinRoom the lists match, and the room left is the only one that    *)
(* can be empty without being deleted.                                       *)
LEMMA JoinKeeps ==
  ASSUME NEW s, NEW fd \in Fds, Joinable(s, fd), NEW name \in Names,
         NEW j, j = joinRoom(s, fd, name)
  PROVE  Consistent(j, s.clients[fd].currRoom)
<1> DEFINE rs == WithRoom(s.rooms, name)
<1> DEFINE Moved(r) == Subscribed(Unsubscribed(r, {fd}), fd, name)
<1> DEFINE old == s.clients[fd].currRoom
<1>rs. rs = WithRoom(s.rooms, name)
  OBVIOUS
<1>old. old = s.clients[fd].currRoom
  OBVIOUS
<1>m. \A r : Moved(r) = Subscribed(Unsubscribed(r, {fd}), fd, name)
  OBVIOUS
<1> HIDE DEF rs, Moved, old
<1>w. /\ rs \subseteq Room
      /\ s.rooms \subseteq rs
      /\ \A r \in rs \ s.rooms : r.roomName = name /\ r.subscribedClients = Nobody
      /\ \A r1, r2 \in rs :
           r1.roomIdx = r2.roomIdx \/ r1.roomName = r2.roomName => r1 = r2
      /\ IdsBounded(rs)
  BY <1>rs, WithRoomFields DEF Joinable
<1>c. /\ DOMAIN j.clients = DOMAIN s.clients
      /\ \A f \in DOMAIN s.clients \ {fd} : j.clients[f] = s.clients[f]
      /\ \A f \in Fds : IsActive(j, f) <=> IsActive(s, f)
      /\ fd \in DOMAIN j.clients
      /\ j.clients[fd].clientState = "active"
      /\ \E r \in rs : r.roomName = name /\ j.clients[fd].currRoom = r.roomIdx
      /\ TypeOKIn(j)
  <2>1. OnlyMoves(s, fd, name, rs, j) /\ TypeOKIn(j)
    BY <1>rs, JoinFields, Zenon
  <2> QED BY <2>1 DEF OnlyMoves
<1>r. j.rooms = {Moved(r) : r \in rs}
  <2>1. j.rooms = {Subscribed(x, fd, name) : x \in removeFromRooms(rs, {fd})}
    BY <1>rs DEF joinRoom
  <2> QED BY <2>1, <1>m DEF removeFromRooms
<1>u. \A r \in rs :
        /\ Moved(r) \in Room
        /\ Moved(r).roomIdx = r.roomIdx
        /\ Moved(r).roomName = r.roomName
        /\ \A f \in Fds : Moved(r).subscribedClients[f] =
             IF f = fd THEN IF r.roomName = name THEN 1 ELSE 0
                       ELSE r.subscribedClients[f]
  <2> SUFFICES ASSUME NEW r \in rs
               PROVE  /\ Moved(r) \in Room
                      /\ Moved(r).roomIdx = r.roomIdx
                      /\ Moved(r).roomName = r.roomName
                      /\ \A f \in Fds : Moved(r).subscribedClients[f] =
                           IF f = fd THEN IF r.roomName = name THEN 1 ELSE 0
                                     ELSE r.subscribedClients[f]
    OBVIOUS
  <2> DEFINE v == Unsubscribed(r, {fd})
  <2>v. v = Unsubscribed(r, {fd}) /\ Moved(r) = Subscribed(v, fd, name)
    BY <1>m
  <2> HIDE DEF v
  <2>1. /\ v \in Room /\ v.roomIdx = r.roomIdx /\ v.roomName = r.roomName
        /\ \A f \in Fds : v.subscribedClients[f] =
             IF f = fd THEN 0 ELSE r.subscribedClients[f]
    BY <1>w, <2>v, UnsubscribedFields
  <2>2. /\ Subscribed(v, fd, name) \in Room
        /\ Subscribed(v, fd, name).roomIdx = v.roomIdx
        /\ Subscribed(v, fd, name).roomName = v.roomName
        /\ \A f \in Fds : Subscribed(v, fd, name).subscribedClients[f] =
             IF f = fd /\ v.roomName = name THEN v.subscribedClients[f] + 1
                                            ELSE v.subscribedClients[f]
    BY <2>1, SubscribedFields
  <2> QED BY <2>1, <2>2, <2>v
<1>t. DOMAIN s.clients \subseteq Fds /\ fd \in DOMAIN s.clients
  BY Types DEF Joinable, IsActive
<1>l. \A r \in s.rooms : \A f \in Fds \ {fd} :
        r.subscribedClients[f] =
          IF IsActive(s, f) /\ s.clients[f].currRoom = r.roomIdx THEN 1 ELSE 0
  BY DEF Joinable
<1>e. \A f \in DOMAIN s.clients : \E r \in s.rooms : r.roomIdx = s.clients[f].currRoom
  BY DEF Joinable, RoomsAreInUseIn
<1>n. \A f \in Fds : Nobody[f] = 0
  BY DEF Nobody
<1>1. ListsMatchClientsIn(j)
  <2> SUFFICES ASSUME NEW q \in j.rooms, NEW f \in Fds
               PROVE  q.subscribedClients[f] =
                        IF IsActive(j, f) /\ j.clients[f].currRoom = q.roomIdx THEN 1 ELSE 0
    BY DEF ListsMatchClientsIn
  <2>1. PICK r \in rs : q = Moved(r)
    BY <1>r
  <2>2. CASE f = fd
    <3>1. IsActive(j, fd)
      BY <1>c DEF IsActive
    <3>2. r.roomName = name <=> j.clients[fd].currRoom = r.roomIdx
      BY <1>c, <1>w
    <3> QED BY <1>u, <2>1, <2>2, <3>1, <3>2
  <2>3. CASE f # fd
    <3>1. q.subscribedClients[f] = r.subscribedClients[f] /\ q.roomIdx = r.roomIdx
      BY <1>u, <2>1, <2>3
    <3>2. CASE r \in s.rooms
      <4>1. IsActive(j, f) => j.clients[f] = s.clients[f]
        BY <1>c, <2>3 DEF IsActive
      <4> QED BY <1>c, <1>l, <2>3, <3>1, <3>2, <4>1
    <3>3. CASE r \notin s.rooms
      <4>1. r.subscribedClients[f] = 0
        BY <1>w, <1>n, <3>3
      <4>2. IsActive(j, f) => j.clients[f].currRoom # r.roomIdx
        <5> SUFFICES ASSUME IsActive(j, f) PROVE j.clients[f].currRoom # r.roomIdx
          OBVIOUS
        <5>1. f \in DOMAIN s.clients /\ j.clients[f] = s.clients[f]
          BY <1>c, <2>3 DEF IsActive
        <5>2. PICK x \in s.rooms : x.roomIdx = s.clients[f].currRoom
          BY <1>e, <5>1
        <5>3. x \in rs /\ x # r
          BY <1>w, <3>3
        <5> QED BY <1>w, <5>1, <5>2, <5>3
      <4> QED BY <3>1, <4>1, <4>2
    <3> QED BY <3>2, <3>3
  <2> QED BY <2>2, <2>3
<1>2. RoomsAreDistinctIn(j)
  <2>1. ASSUME NEW q1 \in j.rooms, NEW q2 \in j.rooms,
               q1.roomIdx = q2.roomIdx \/ q1.roomName = q2.roomName
        PROVE  q1 = q2
    BY <1>r, <1>u, <1>w, <2>1
  <2>2. \E r \in rs : r.roomIdx = 0 /\ r.roomName = MainRoom
    BY <1>w DEF Joinable, RoomsAreDistinctIn
  <2>3. \E q \in j.rooms : q.roomIdx = 0 /\ q.roomName = MainRoom
    BY <1>r, <1>u, <2>2
  <2> QED BY <2>1, <2>3 DEF RoomsAreDistinctIn
<1>3. RoomsAreInUseIn(j, old)
  <2>1. ASSUME NEW f \in DOMAIN j.clients
        PROVE  \E q \in j.rooms : q.roomIdx = j.clients[f].currRoom
    <3>1. \E r \in rs : r.roomIdx = j.clients[f].currRoom
      BY <1>c, <1>e, <1>w
    <3> QED BY <1>r, <1>u, <3>1
  <2>2. ASSUME NEW q \in j.rooms, q.roomIdx \notin {0, old}
        PROVE  q.subscribedClients # Nobody
    <3>1. PICK r \in rs : q = Moved(r)
      BY <1>r
    <3>2. CASE r.roomName = name
      BY <1>u, <1>n, <3>1, <3>2
    <3>3. CASE r.roomName # name
      <4>1. r \in s.rooms /\ r \in Room /\ r.roomIdx \notin {0, old}
        BY <1>u, <1>w, <2>2, <3>1, <3>3
      <4>2. r.subscribedClients # Nobody
        BY <4>1 DEF Joinable, RoomsAreInUseIn
      <4>3. PICK f \in Fds : r.subscribedClients[f] # 0
        BY <4>1, <4>2, NobodyIsEmpty
      <4>4. f # fd
        BY <1>old, <4>1, <4>3 DEF Joinable
      <4> QED BY <1>u, <1>n, <3>1, <4>3, <4>4
    <3> QED BY <3>2, <3>3
  <2> QED BY <2>1, <2>2 DEF RoomsAreInUseIn
<1>4. NewcomersInMain(j)
  <2> SUFFICES ASSUME NEW f \in DOMAIN j.clients, j.clients[f].clientState = "awaiting"
               PROVE  j.clients[f].currRoom = 0
    BY DEF NewcomersInMain
  <2>1. f # fd
    BY <1>c
  <2> QED BY <1>c, <2>1 DEF Joinable, NewcomersInMain
<1>5. IdsBounded(j.rooms)
  <2>1. \A q \in j.rooms : \E r \in rs : q.roomIdx = r.roomIdx
    BY <1>r, <1>u
  <2> QED BY <1>w, <2>1, BoundedBySame
<1> QED BY <1>c, <1>old, <1>1, <1>2, <1>3, <1>4, <1>5 DEF Consistent

(* deleteEmptyRoom takes care of the room left.                              *)
LEMMA DeleteEmptyRoomKeeps ==
  ASSUME NEW s, NEW old, Consistent(s, old),
         NEW d, d = deleteEmptyRoom(s, old)
  PROVE  Consistent(d, 0)
<1>t. /\ TypeOKIn(s) /\ s.rooms \subseteq Room /\ DOMAIN s.clients \subseteq Fds
      /\ \A f \in DOMAIN s.clients :
           s.clients[f] \in [clientState : {"awaiting", "active"}, currRoom : Nat]
  BY Types DEF Consistent
<1>c. d.clients = s.clients /\ d.roster = s.roster
  BY DEF deleteEmptyRoom
<1>r. \A r : r \in d.rooms <=>
        /\ r \in s.rooms
        /\ r.roomIdx # old \/ r.roomName = MainRoom \/ r.subscribedClients # Nobody
  BY DEF deleteEmptyRoom, deleteEmptyRooms
<1>d. /\ \A r1, r2 \in s.rooms :
           r1.roomIdx = r2.roomIdx \/ r1.roomName = r2.roomName => r1 = r2
      /\ \E r \in s.rooms : r.roomIdx = 0 /\ r.roomName = MainRoom
  BY DEF Consistent, RoomsAreDistinctIn
<1>1. TypeOKIn(d)
  <2>1. d.rooms \subseteq s.rooms
    BY <1>r
  <2> QED BY <1>t, <1>c, <2>1 DEF TypeOKIn
<1>2. ListsMatchClientsIn(d)
  BY <1>c, <1>r DEF Consistent, ListsMatchClientsIn, IsActive
<1>3. RoomsAreDistinctIn(d)
  BY <1>d, <1>r DEF RoomsAreDistinctIn
<1>4. RoomsAreInUseIn(d, 0)
  <2>1. ASSUME NEW f \in DOMAIN s.clients
        PROVE  \E r \in d.rooms : r.roomIdx = s.clients[f].currRoom
    <3>1. PICK r \in s.rooms : r.roomIdx = s.clients[f].currRoom
      BY DEF Consistent, RoomsAreInUseIn
    <3>2. f \in Fds
      BY <1>t
    <3>3. CASE IsActive(s, f)
      <4>1. r.subscribedClients[f] = 1
        BY <3>1, <3>2, <3>3 DEF Consistent, ListsMatchClientsIn
      <4>2. r.subscribedClients # Nobody
        BY <3>2, <4>1 DEF Nobody
      <4> QED BY <1>r, <3>1, <4>2
    <3>4. CASE ~IsActive(s, f)
      <4>1. s.clients[f].clientState = "awaiting"
        BY <1>t, <3>4 DEF IsActive
      <4>2. s.clients[f].currRoom = 0
        BY <4>1 DEF Consistent, NewcomersInMain
      <4>3. r.roomName = MainRoom
        BY <1>d, <3>1, <4>2
      <4> QED BY <1>r, <3>1, <4>3
    <3> QED BY <3>3, <3>4
  <2>2. ASSUME NEW r \in d.rooms, r.roomIdx # 0
        PROVE  r.subscribedClients # Nobody
    <3>1. r.roomName # MainRoom
      BY <1>d, <1>r, <2>2
    <3> QED BY <1>r, <2>2, <3>1 DEF Consistent, RoomsAreInUseIn
  <2> QED BY <1>c, <2>1, <2>2 DEF RoomsAreInUseIn
<1>5. NewcomersInMain(d)
  BY <1>c DEF Consistent, NewcomersInMain
<1>6. IdsBounded(d.rooms)
  BY <1>r DEF Consistent, IdsBounded
<1> QED BY <1>1, <1>2, <1>3, <1>4, <1>5, <1>6 DEF Consistent

(* A client in a room can move to another.                                   *)
LEMMA ActiveIsJoinable ==
  ASSUME NEW s, Consistent(s, 0), NEW fd \in Fds, IsActive(s, fd)
  PROVE  Joinable(s, fd)
BY DEF Consistent, Joinable, ListsMatchClientsIn

-----------------------------------------------------------------------------
(* The handlers.                                                             *)

RoomsInv == Consistent(State, 0) /\ skipped \subseteq Fds

(* The fields of State.                                                      *)
LEMMA StateFields ==
  State.clients = clients /\ State.rooms = rooms /\ State.roster = roster
BY DEF State

(* The next state is consistent if the handler's result is.                  *)
LEMMA BecomesKeeps ==
  ASSUME NEW s, Consistent(s, 0), Becomes(s)
  PROVE  Consistent(State, 0)'
<1>1. /\ State'.clients = s.clients /\ State'.rooms = s.rooms
      /\ State'.roster = s.roster
  BY DEF Becomes, State
<1>2. s.roster \in [Fds -> SUBSET Fds]
  BY Types DEF Consistent
<1>3. Consistent(State', 0)
  BY <1>1, <1>2, RosterIsApart
<1> QED BY <1>3

(* The three calls of a move, and of a first entry.                          *)
LEMMA MoveKeeps ==
  ASSUME Consistent(State, 0), NEW fd \in Fds, IsActive(State, fd),
         NEW name \in Names, Move(fd, name)
  PROVE  Consistent(State, 0)'
<1> DEFINE old == clients[fd].currRoom
<1>1. PICK unheard \in SUBSET Recipients(State, old, {fd}) :
        LET s1 == notifyRoom(State, old, {fd}, unheard, Gone(fd))
            s2 == joinRoom(s1, fd, name)
            id == s2.clients[fd].currRoom
        IN  \E refuses \in SUBSET Recipients(s2, id, {}) :
              Becomes(deleteEmptyRoom(notifyRoom(s2, id, {}, refuses, Here(fd)), old))
  BY DEF Move
<1> DEFINE s1 == notifyRoom(State, old, {fd}, unheard, Gone(fd))
           s2 == joinRoom(s1, fd, name)
           id == s2.clients[fd].currRoom
<1>2. PICK refuses \in SUBSET Recipients(s2, id, {}) :
        Becomes(deleteEmptyRoom(notifyRoom(s2, id, {}, refuses, Here(fd)), old))
  BY <1>1
<1> DEFINE s3 == notifyRoom(s2, id, {}, refuses, Here(fd))
           s4 == deleteEmptyRoom(s3, old)
<1>s. /\ s1 = notifyRoom(State, old, {fd}, unheard, Gone(fd))
      /\ s2 = joinRoom(s1, fd, name)
      /\ s3 = notifyRoom(s2, id, {}, refuses, Here(fd))
      /\ s4 = deleteEmptyRoom(s3, old)
      /\ Becomes(s4)
  BY <1>2
<1>n. Gone(fd).who \in Fds /\ Here(fd).who \in Fds
  BY DEF Gone, Here
<1>o. old = State.clients[fd].currRoom
  BY StateFields
<1> HIDE DEF s1, s2, s3, s4, id, old
<1>3. Consistent(s1, 0) /\ OnlyLoses(State, unheard, s1)
  BY <1>s, <1>n, NotifyKeeps, Zenon
<1>4. fd \notin unheard
  BY DEF Recipients
<1>5. IsActive(s1, fd) /\ s1.clients[fd].currRoom = old
  BY <1>3, <1>4, <1>o DEF IsActive, OnlyLoses
<1>6. Joinable(s1, fd)
  BY <1>3, <1>5, ActiveIsJoinable, Zenon
<1>7. Consistent(s2, old)
  BY <1>s, <1>5, <1>6, JoinKeeps
<1>8. Consistent(s3, old)
  BY <1>s, <1>n, <1>7, NotifyKeeps
<1>9. Consistent(s4, 0)
  BY <1>s, <1>8, DeleteEmptyRoomKeeps, Zenon
<1> QED BY <1>s, <1>9, BecomesKeeps

(* A connection is in the main room, in no list.                             *)
LEMMA AcceptKeeps ==
  ASSUME Consistent(State, 0), NEW fd \in Fds, Accept(fd)
  PROVE  Consistent(State, 0)'
<1> DEFINE s == State
           t == State'
<1>s. s.clients = clients /\ s.rooms = rooms /\ s.roster = roster
  BY StateFields
<1>t. t.clients = clients' /\ t.rooms = rooms' /\ t.roster = roster'
  BY DEF State
<1>c. Consistent(s, 0)
  OBVIOUS
<1> HIDE DEF s, t
<1>1. fd \notin DOMAIN s.clients
  BY <1>s DEF Accept
<1>2. /\ t.clients = [f \in DOMAIN s.clients \cup {fd} |->
                        IF f = fd THEN NewConnection ELSE s.clients[f]]
      /\ t.rooms = s.rooms /\ t.roster = s.roster
  BY <1>s, <1>t DEF Accept
<1>3. /\ DOMAIN s.clients \subseteq Fds
      /\ \A f \in DOMAIN s.clients :
           s.clients[f] \in [clientState : {"awaiting", "active"}, currRoom : Nat]
      /\ s.rooms \subseteq Room
      /\ s.roster \in [Fds -> SUBSET Fds]
  BY <1>c, Types DEF Consistent
<1>4. /\ DOMAIN t.clients = DOMAIN s.clients \cup {fd}
      /\ \A f \in DOMAIN s.clients : t.clients[f] = s.clients[f]
      /\ t.clients[fd] = NewConnection
  BY <1>1, <1>2
<1>5. /\ NewConnection \in [clientState : {"awaiting", "active"}, currRoom : Nat]
      /\ NewConnection.clientState = "awaiting" /\ NewConnection.currRoom = 0
  BY DEF NewConnection
<1>6. TypeOKIn(t)
  <2>1. DOMAIN t.clients \in SUBSET Fds
    BY <1>3, <1>4
  <2>2. t.clients = [f \in DOMAIN t.clients |-> t.clients[f]]
    BY <1>2
  <2>3. \A f \in DOMAIN t.clients :
          t.clients[f] \in [clientState : {"awaiting", "active"}, currRoom : Nat]
    BY <1>3, <1>4, <1>5
  <2> QED BY <1>2, <1>3, <2>1, <2>2, <2>3, TypesSuffice
<1>7. \A f \in Fds : IsActive(t, f) <=> IsActive(s, f)
  BY <1>1, <1>4, <1>5 DEF IsActive
<1>8. ListsMatchClientsIn(t)
  <2>1. \A f \in Fds : IsActive(t, f) => t.clients[f] = s.clients[f]
    BY <1>4, <1>7 DEF IsActive
  <2>2. \A r \in s.rooms : \A f \in Fds :
          r.subscribedClients[f] =
            IF IsActive(s, f) /\ s.clients[f].currRoom = r.roomIdx THEN 1 ELSE 0
    BY <1>c DEF Consistent, ListsMatchClientsIn
  <2> SUFFICES ASSUME NEW r \in s.rooms, NEW f \in Fds
               PROVE  r.subscribedClients[f] =
                        IF IsActive(t, f) /\ t.clients[f].currRoom = r.roomIdx THEN 1 ELSE 0
    BY <1>2 DEF ListsMatchClientsIn
  <2>3. CASE IsActive(s, f)
    BY <1>7, <2>1, <2>2, <2>3
  <2>4. CASE ~IsActive(s, f)
    BY <1>7, <2>2, <2>4
  <2> QED BY <2>3, <2>4
<1>9. RoomsAreDistinctIn(t)
  BY <1>c, <1>2 DEF Consistent, RoomsAreDistinctIn
<1>10. RoomsAreInUseIn(t, 0)
  BY <1>c, <1>2, <1>4, <1>5 DEF Consistent, RoomsAreInUseIn, RoomsAreDistinctIn
<1>11. NewcomersInMain(t) /\ IdsBounded(t.rooms)
  BY <1>c, <1>2, <1>4, <1>5 DEF Consistent, NewcomersInMain
<1>12. Consistent(t, 0)
  BY <1>6, <1>8, <1>9, <1>10, <1>11 DEF Consistent
<1> QED BY <1>12 DEF t

(* A client that gives its username is in no list yet.                       *)
LEMMA ActivatedIsJoinable ==
  ASSUME Consistent(State, 0), NEW fd \in DOMAIN clients,
         clients[fd].clientState = "awaiting",
         NEW a, a = Activated(fd)
  PROVE  fd \in Fds /\ Joinable(a, fd) /\ a.clients[fd].currRoom = 0
<1> DEFINE s == State
<1>s. s.clients = clients /\ s.rooms = rooms /\ s.roster = roster
  BY StateFields
<1>c. Consistent(s, 0)
  OBVIOUS
<1> HIDE DEF s
<1>1. /\ a.clients = [f \in DOMAIN s.clients |->
                        IF f = fd THEN [clientState |-> "active",
                                        currRoom |-> s.clients[f].currRoom]
                                  ELSE s.clients[f]]
      /\ a.rooms = s.rooms /\ a.roster = s.roster
  BY <1>s DEF Activated
<1>2. /\ DOMAIN s.clients \subseteq Fds
      /\ \A f \in DOMAIN s.clients :
           s.clients[f] \in [clientState : {"awaiting", "active"}, currRoom : Nat]
      /\ s.rooms \subseteq Room
      /\ s.roster \in [Fds -> SUBSET Fds]
  BY <1>c, Types DEF Consistent
<1>3. fd \in Fds /\ fd \in DOMAIN s.clients /\ s.clients[fd].currRoom = 0
  BY <1>s, <1>c, <1>2 DEF Consistent, NewcomersInMain
<1>4. /\ DOMAIN a.clients = DOMAIN s.clients
      /\ \A f \in DOMAIN s.clients \ {fd} : a.clients[f] = s.clients[f]
      /\ a.clients[fd] = [clientState |-> "active", currRoom |-> 0]
  BY <1>1, <1>3
<1>5. a.clients[fd].clientState = "active" /\ a.clients[fd].currRoom = 0
  BY <1>4
<1>6. TypeOKIn(a)
  <2>1. a.clients = [f \in DOMAIN a.clients |-> a.clients[f]]
    BY <1>1
  <2>2. \A f \in DOMAIN a.clients :
          a.clients[f] \in [clientState : {"awaiting", "active"}, currRoom : Nat]
    BY <1>2, <1>4
  <2>3. DOMAIN a.clients \in SUBSET Fds
    BY <1>2, <1>4
  <2> QED BY <1>1, <1>2, <2>1, <2>2, <2>3, TypesSuffice
<1>7. RoomsAreDistinctIn(a) /\ IdsBounded(a.rooms)
  BY <1>c, <1>1 DEF Consistent, RoomsAreDistinctIn
<1>8. RoomsAreInUseIn(a, 0)
  <2>1. RoomsAreInUseIn(s, 0)
    BY <1>c DEF Consistent
  <2>2. \A f \in DOMAIN a.clients : a.clients[f].currRoom = s.clients[f].currRoom
    BY <1>3, <1>4
  <2> QED BY <1>1, <1>4, <2>1, <2>2 DEF RoomsAreInUseIn
<1>9. NewcomersInMain(a)
  BY <1>c, <1>4, <1>5 DEF Consistent, NewcomersInMain
<1>10. IsActive(a, fd)
  BY <1>3, <1>4, <1>5 DEF IsActive
<1>11. ~IsActive(s, fd)
  BY <1>s DEF IsActive
<1>12. \A r \in a.rooms : r.subscribedClients[fd] = 0
  BY <1>c, <1>1, <1>3, <1>11 DEF Consistent, ListsMatchClientsIn
<1>13. \A r \in a.rooms : \A f \in Fds \ {fd} :
         r.subscribedClients[f] =
           IF IsActive(a, f) /\ a.clients[f].currRoom = r.roomIdx THEN 1 ELSE 0
  <2>1. \A f \in Fds \ {fd} : IsActive(a, f) <=> IsActive(s, f)
    BY <1>4 DEF IsActive
  <2>2. \A f \in Fds \ {fd} : IsActive(s, f) => a.clients[f] = s.clients[f]
    BY <1>4 DEF IsActive
  <2> QED BY <1>c, <1>1, <2>1, <2>2 DEF Consistent, ListsMatchClientsIn
<1> QED BY <1>3, <1>5, <1>6, <1>7, <1>8, <1>9, <1>10, <1>12, <1>13 DEF Joinable

(* The first frame: the client enters the main room.                         *)
LEMMA UsernameKeeps ==
  ASSUME Consistent(State, 0), NEW fd \in Fds, Username(fd)
  PROVE  Consistent(State, 0)'
<1> DEFINE a == Activated(fd)
           s1 == joinRoom(a, fd, MainRoom)
           id == s1.clients[fd].currRoom
<1>1. PICK refuses \in SUBSET Recipients(s1, id, {}) :
        Becomes(notifyRoom(s1, id, {}, refuses, Here(fd)))
  BY DEF Username
<1> DEFINE s2 == notifyRoom(s1, id, {}, refuses, Here(fd))
<1>s. /\ a = Activated(fd)
      /\ s1 = joinRoom(a, fd, MainRoom)
      /\ s2 = notifyRoom(s1, id, {}, refuses, Here(fd))
      /\ Becomes(s2)
  BY <1>1
<1>n. Here(fd).who \in Fds
  BY DEF Here
<1>g. fd \in DOMAIN clients /\ clients[fd].clientState = "awaiting"
  BY DEF Username
<1> HIDE DEF a, s1, s2, id
<1>2. Joinable(a, fd) /\ a.clients[fd].currRoom = 0
  BY <1>s, <1>g, ActivatedIsJoinable
<1>3. Consistent(s1, 0)
  BY <1>s, <1>2, JoinKeeps, ChatConstants
<1>4. Consistent(s2, 0)
  BY <1>s, <1>n, <1>3, NotifyKeeps, Zenon
<1> QED BY <1>s, <1>4, BecomesKeeps

(* JOIN of the room the client is in.                                        *)
LEMMA RejoinKeeps ==
  ASSUME Consistent(State, 0), NEW fd \in Fds, IsActive(State, fd),
         NEW name \in Names, Rejoin(fd, name)
  PROVE  Consistent(State, 0)'
<1> DEFINE old == clients[fd].currRoom
           s1 == joinRoom(State, fd, name)
           s2 == deleteEmptyRoom(s1, old)
<1>s. /\ s1 = joinRoom(State, fd, name)
      /\ s2 = deleteEmptyRoom(s1, old)
      /\ Becomes(s2)
  BY DEF Rejoin
<1>o. old = State.clients[fd].currRoom
  BY StateFields
<1> HIDE DEF s1, s2, old
<1>1. Joinable(State, fd)
  BY ActiveIsJoinable, Zenon
<1>2. Consistent(s1, old)
  BY <1>s, <1>o, <1>1, JoinKeeps
<1>3. Consistent(s2, 0)
  BY <1>s, <1>2, DeleteEmptyRoomKeeps, Zenon
<1> QED BY <1>s, <1>3, BecomesKeeps

(* A client that goes, its room told or not.                                 *)
LEMMA DepartsKeeps ==
  ASSUME Consistent(State, 0), NEW fd \in Fds, Departs(fd) \/ Dropped(fd)
  PROVE  Consistent(State, 0)'
<1>1. CASE Departs(fd)
  <2> DEFINE id == clients[fd].currRoom
  <2>1. PICK refuses \in SUBSET Recipients(State, id, {fd}) :
          Becomes(disconnect(notifyRoom(State, id, {fd}, refuses, Gone(fd)), {fd}))
    BY <1>1 DEF Departs
  <2> DEFINE s1 == notifyRoom(State, id, {fd}, refuses, Gone(fd))
             s2 == disconnect(s1, {fd})
  <2>s. /\ s1 = notifyRoom(State, id, {fd}, refuses, Gone(fd))
        /\ s2 = disconnect(s1, {fd})
        /\ Becomes(s2)
    BY <2>1
  <2>n. Gone(fd).who \in Fds
    BY DEF Gone
  <2> HIDE DEF s1, s2, id
  <2>2. Consistent(s1, 0) /\ OnlyLoses(State, refuses, s1)
    BY <2>s, <2>n, NotifyKeeps, Zenon
  <2>3. fd \in DOMAIN State.clients /\ fd \notin refuses
    BY <1>1, StateFields DEF Departs, Recipients
  <2>4. {fd} \in SUBSET DOMAIN s1.clients
    BY <2>2, <2>3 DEF OnlyLoses
  <2>5. Consistent(s2, 0)
    BY <2>s, <2>2, <2>4, DisconnectKeeps, Zenon
  <2> QED BY <2>s, <2>5, BecomesKeeps
<1>2. CASE Dropped(fd)
  <2> DEFINE s1 == disconnect(State, {fd})
  <2>1. s1 = disconnect(State, {fd}) /\ Becomes(s1)
    BY <1>2 DEF Dropped
  <2>2. {fd} \in SUBSET DOMAIN State.clients
    BY <1>2, StateFields DEF Dropped
  <2> HIDE DEF s1
  <2>3. Consistent(s1, 0)
    BY <2>1, <2>2, DisconnectKeeps, Zenon
  <2> QED BY <2>1, <2>3, BecomesKeeps
<1> QED BY <1>1, <1>2

(* A broadcast drops at most one of its recipients.                          *)
LEMMA MessageKeeps ==
  ASSUME RoomsInv, NEW fd \in Fds, Message(fd)
  PROVE  RoomsInv'
<1>t. Consistent(State, 0) /\ DOMAIN State.clients \subseteq Fds
  BY Types DEF RoomsInv, Consistent
<1> DEFINE to == Recipients(State, clients[fd].currRoom, {fd})
<1>to. to \subseteq DOMAIN State.clients
  BY DEF Recipients
<1>m. \/ Quiet /\ UNCHANGED <<clients, rooms, roster>>
      \/ \E slow \in to : \E served \in SUBSET (to \ {slow}) :
           /\ Becomes(disconnect(State, {slow}))
           /\ skipped' = to \ (served \cup {slow})
  BY DEF Message
<1> HIDE DEF to
<1>1. CASE Quiet /\ UNCHANGED <<clients, rooms, roster>>
  <2>1. State' = State
    BY <1>1 DEF State
  <2> QED BY <1>1, <1>t, <2>1 DEF Quiet, RoomsInv
<1>2. ASSUME NEW slow \in to, NEW served \in SUBSET (to \ {slow}),
             Becomes(disconnect(State, {slow})),
             skipped' = to \ (served \cup {slow})
      PROVE  RoomsInv'
  <2> DEFINE s1 == disconnect(State, {slow})
  <2>1. s1 = disconnect(State, {slow}) /\ Becomes(s1)
    BY <1>2
  <2>2. {slow} \in SUBSET DOMAIN State.clients
    BY <1>to
  <2> HIDE DEF s1
  <2>3. Consistent(s1, 0)
    BY <1>t, <2>1, <2>2, DisconnectKeeps, Zenon
  <2>4. Consistent(State, 0)'
    BY <2>1, <2>3, BecomesKeeps
  <2> QED BY <1>t, <1>to, <1>2, <2>4 DEF RoomsInv
<1> QED BY <1>m, <1>1, <1>2

-----------------------------------------------------------------------------

(* The server starts with the main room and nobody in it.                    *)
LEMMA ChatInitConsistent == ChatInit => RoomsInv
<1> SUFFICES ASSUME ChatInit PROVE RoomsInv
  OBVIOUS
<1> DEFINE s == State
           main == [roomIdx |-> 0, roomName |-> MainRoom, subscribedClients |-> Nobody]
<1>1. /\ s.clients = [f \in {} |-> NewConnection]
      /\ s.rooms = {main}
      /\ s.roster = [f \in Fds |-> {}]
  BY StateFields DEF ChatInit
<1>s. s = State
  OBVIOUS
<1>2. /\ main \in Room
      /\ main.roomIdx = 0 /\ main.roomName = MainRoom /\ main.subscribedClients = Nobody
  BY ChatConstants DEF Room, Nobody, Subscriptions
<1>3. DOMAIN s.clients = {}
  BY <1>1
<1> HIDE DEF s, main
<1>4. TypeOKIn(s)
  <2>1. s.clients \in [{} -> [clientState : {"awaiting", "active"}, currRoom : Nat]]
    BY <1>1
  <2>2. s.roster \in [Fds -> SUBSET Fds]
    BY <1>1
  <2>3. s.rooms \subseteq Room
    BY <1>1, <1>2
  <2> QED BY <1>3, <2>1, <2>2, <2>3 DEF TypeOKIn, Room
<1>5. ListsMatchClientsIn(s)
  BY <1>1, <1>2, <1>3 DEF ListsMatchClientsIn, IsActive, Nobody
<1>6. RoomsAreDistinctIn(s) /\ RoomsAreInUseIn(s, 0)
  BY <1>1, <1>2, <1>3 DEF RoomsAreDistinctIn, RoomsAreInUseIn
<1>7. NewcomersInMain(s) /\ IdsBounded(s.rooms)
  BY <1>1, <1>2, <1>3 DEF NewcomersInMain, IdsBounded
<1>8. Consistent(s, 0)
  BY <1>4, <1>5, <1>6, <1>7 DEF Consistent
<1> QED BY <1>s, <1>8 DEF RoomsInv, ChatInit

(* No handler makes clients and rooms inconsistent, whichever recipients     *)
(* refuse its messages.                                                      *)
LEMMA ChatNextKeeps == RoomsInv /\ [ChatNext]_chatVars => RoomsInv'
<1> SUFFICES ASSUME RoomsInv, [ChatNext]_chatVars PROVE RoomsInv'
  OBVIOUS
<1>c. Consistent(State, 0)
  BY DEF RoomsInv
<1>1. CASE UNCHANGED chatVars
  <2>1. State' = State /\ skipped' = skipped
    BY <1>1 DEF chatVars, State
  <2> QED BY <2>1 DEF RoomsInv
<1>2. ASSUME NEW fd \in Fds,
             \/ Accept(fd)
             \/ Username(fd)
             \/ \E name \in Names : Join(fd, name)
             \/ Leave(fd)
             \/ Message(fd)
             \/ Departs(fd)
             \/ Dropped(fd)
      PROVE  RoomsInv'
  <2>1. CASE Accept(fd)
    <3>1. Consistent(State, 0)'
      BY <1>c, <2>1, AcceptKeeps
    <3> QED BY <2>1, <3>1 DEF RoomsInv, Accept, Quiet
  <2>2. CASE Username(fd)
    <3>1. Consistent(State, 0)'
      BY <1>c, <2>2, UsernameKeeps
    <3> QED BY <2>2, <3>1 DEF RoomsInv, Username, Quiet
  <2>3. ASSUME NEW name \in Names, Join(fd, name)
        PROVE  RoomsInv'
    <3>1. IsActive(State, fd) /\ (Rejoin(fd, name) \/ Move(fd, name)) /\ skipped' = {}
      BY <2>3 DEF Join, Quiet
    <3>2. Consistent(State, 0)'
      BY <1>c, <3>1, RejoinKeeps, MoveKeeps
    <3> QED BY <3>1, <3>2 DEF RoomsInv
  <2>4. CASE Leave(fd)
    <3>1. IsActive(State, fd) /\ Move(fd, MainRoom) /\ skipped' = {}
      BY <2>4 DEF Leave, Quiet
    <3>2. Consistent(State, 0)'
      BY <1>c, <3>1, MoveKeeps, ChatConstants
    <3> QED BY <3>1, <3>2 DEF RoomsInv
  <2>5. CASE Message(fd)
    BY <2>5, MessageKeeps
  <2>6. CASE Departs(fd) \/ Dropped(fd)
    <3>1. Consistent(State, 0)'
      BY <1>c, <2>6, DepartsKeeps
    <3>2. skipped' = {}
      BY <2>6 DEF Departs, Dropped, Quiet
    <3> QED BY <3>1, <3>2 DEF RoomsInv
  <2> QED BY <1>2, <2>1, <2>2, <2>3, <2>4, <2>5, <2>6
<1> QED BY <1>1, <1>2 DEF ChatNext

LEMMA RoomsInvHolds == ChatSpec => []RoomsInv
BY ChatInitConsistent, ChatNextKeeps, PTL DEF ChatSpec

(* Whatever clients do and whichever queue overflows in the middle of a      *)
(* handler: a room's list holds the descriptors of exactly the clients whose *)
(* currRoom it is.                                                           *)
THEOREM RoomsStayConsistent == ChatSpec => [](TypeOK /\ ListsMatchClients)
<1>1. RoomsInv => TypeOK /\ ListsMatchClients
  BY DEF RoomsInv, Consistent, TypeOK, ListsMatchClients
<1> QED BY <1>1, RoomsInvHolds, PTL

(* joinRoom makes no second room of a name and gives no id twice.            *)
THEOREM RoomsStayDistinct == ChatSpec => []RoomsAreDistinct
<1>1. RoomsInv => RoomsAreDistinct
  BY DEF RoomsInv, Consistent, RoomsAreDistinct
<1> QED BY <1>1, RoomsInvHolds, PTL

(* deleteEmptyRoom deletes no room that is in use and leaves no empty one    *)
(* but the main room.                                                        *)
THEOREM RoomsStayInUse == ChatSpec => []RoomsAreInUse
<1>1. RoomsInv => RoomsAreInUse
  BY DEF RoomsInv, Consistent, RoomsAreInUse
<1> QED BY <1>1, RoomsInvHolds, PTL

-----------------------------------------------------------------------------
(* What clients may rely on over time: that the id of their room keeps its   *)
(* name, and that notices told them who else is in it.                       *)

(* Room ids are numbers that come back once their room is deleted.  Here is  *)
(* the proof that none changes its meaning under a client: in every handler, *)
(* the room a client was in before is there until after the only call that   *)
(* can create a room.                                                        *)

(* If there is a room c, it is called n.                                     *)
Means(s, c, n) == \A r \in s.rooms : r.roomIdx = c => r.roomName = n

(* What room clients' old rooms were called, they still are.                 *)
MeaningsStay ==
  \A f \in DOMAIN clients \cap DOMAIN clients' : \A n :
    Means(State, clients[f].currRoom, n) => Means(State', clients[f].currRoom, n)

-----------------------------------------------------------------------------
(* The helpers.                                                              *)

(* disconnect() only takes rooms away.                                       *)
LEMMA DisconnectMeans ==
  ASSUME NEW s, TypeOKIn(s), NEW gone \in SUBSET DOMAIN s.clients,
         NEW d, d = disconnect(s, gone),
         NEW c, NEW n, Means(s, c, n)
  PROVE  Means(d, c, n)
<1>1. \A q \in d.rooms : \E r \in s.rooms : q = Unsubscribed(r, gone)
  BY DisconnectRooms
<1>2. \A r \in s.rooms : /\ Unsubscribed(r, gone).roomIdx = r.roomIdx
                         /\ Unsubscribed(r, gone).roomName = r.roomName
  BY Types, UnsubscribedFields
<1> QED BY <1>1, <1>2 DEF Means

(* So does a notice.                                                         *)
LEMMA NotifyMeans ==
  ASSUME NEW s, NEW spared, Consistent(s, spared), NEW id, NEW excluded,
         NEW refuses \in SUBSET Recipients(s, id, excluded),
         NEW notice, notice.who \in Fds,
         NEW m, m = notifyRoom(s, id, excluded, refuses, notice),
         NEW c, NEW n, Means(s, c, n)
  PROVE  Means(m, c, n)
<1> DEFINE t == Told(s, Recipients(s, id, excluded) \ refuses, notice)
<1>1. t.clients = s.clients /\ t.rooms = s.rooms
  BY DEF Told
<1>2. t.roster \in [Fds -> SUBSET Fds]
  BY Types DEF Told, Consistent
<1>3. m = disconnect(t, refuses)
  BY DEF notifyRoom
<1>4. refuses \in SUBSET DOMAIN t.clients
  BY <1>1 DEF Recipients
<1> HIDE DEF t
<1>5. TypeOKIn(t)
  <2>1. Consistent(t, spared)
    BY <1>1, <1>2, RosterIsApart, Zenon
  <2> QED BY <2>1 DEF Consistent
<1>6. Means(t, c, n)
  BY <1>1 DEF Means
<1> QED BY <1>3, <1>4, <1>5, <1>6, DisconnectMeans, Zenon

(* A room that is there keeps its name when joinRoom creates another.        *)
LEMMA JoinMeans ==
  ASSUME NEW s, NEW fd \in Fds, Joinable(s, fd), NEW name \in Names,
         NEW j, j = joinRoom(s, fd, name),
         NEW c, NEW n, Means(s, c, n), \E r \in s.rooms : r.roomIdx = c
  PROVE  Means(j, c, n)
<1> DEFINE rs == WithRoom(s.rooms, name)
<1>rs. rs = WithRoom(s.rooms, name)
  OBVIOUS
<1>1. j.rooms = {Subscribed(x, fd, name) : x \in removeFromRooms(rs, {fd})}
  BY DEF joinRoom
<1> HIDE DEF rs
<1>2. /\ rs \subseteq Room /\ s.rooms \subseteq rs
      /\ \A r1, r2 \in rs : r1.roomIdx = r2.roomIdx \/ r1.roomName = r2.roomName => r1 = r2
  BY <1>rs, WithRoomFields DEF Joinable
<1>3. ASSUME NEW q \in j.rooms, q.roomIdx = c PROVE q.roomName = n
  <2>1. PICK x \in rs : q = Subscribed(Unsubscribed(x, {fd}), fd, name)
    BY <1>1, <1>3 DEF removeFromRooms
  <2>2. Unsubscribed(x, {fd}) \in Room /\ Unsubscribed(x, {fd}).roomIdx = x.roomIdx
        /\ Unsubscribed(x, {fd}).roomName = x.roomName
    BY <1>2, UnsubscribedFields
  <2>3. q.roomIdx = x.roomIdx /\ q.roomName = x.roomName
    BY <2>1, <2>2, SubscribedFields
  <2>4. PICK r \in s.rooms : r.roomIdx = c
    OBVIOUS
  <2>5. x = r
    BY <1>2, <1>3, <2>3, <2>4
  <2> QED BY <2>3, <2>4, <2>5 DEF Means
<1> QED BY <1>3 DEF Means

(* deleteEmptyRoom only takes rooms away.                                    *)
LEMMA DeleteMeans ==
  ASSUME NEW s, NEW old, NEW d, d = deleteEmptyRoom(s, old),
         NEW c, NEW n, Means(s, c, n)
  PROVE  Means(d, c, n) /\ d.clients = s.clients
<1>1. d.rooms \subseteq s.rooms /\ d.clients = s.clients
  BY DEF deleteEmptyRoom, deleteEmptyRooms
<1> QED BY <1>1 DEF Means

(* The rooms of the next state are those of the handler's result.            *)
LEMMA BecomesMeans ==
  ASSUME NEW s, Becomes(s), NEW c, NEW n, Means(s, c, n)
  PROVE  Means(State', c, n)
<1>1. State'.rooms = s.rooms
  BY DEF Becomes, State
<1> QED BY <1>1 DEF Means

(* A client's room exists.                                                   *)
LEMMA RoomExists ==
  ASSUME NEW s, NEW spared, Consistent(s, spared), NEW f \in DOMAIN s.clients
  PROVE  \E r \in s.rooms : r.roomIdx = s.clients[f].currRoom
BY DEF Consistent, RoomsAreInUseIn

-----------------------------------------------------------------------------
(* The handlers.                                                             *)

(* The first notice loses clients, not the rooms of those who stay; joinRoom *)
(* creates a room while theirs exist; what follows takes away.               *)
LEMMA MoveMeans ==
  ASSUME Consistent(State, 0), NEW fd \in Fds, IsActive(State, fd),
         NEW name \in Names, Move(fd, name)
  PROVE  MeaningsStay
<1> DEFINE old == clients[fd].currRoom
<1>1. PICK unheard \in SUBSET Recipients(State, old, {fd}) :
        LET s1 == notifyRoom(State, old, {fd}, unheard, Gone(fd))
            s2 == joinRoom(s1, fd, name)
            id == s2.clients[fd].currRoom
        IN  \E refuses \in SUBSET Recipients(s2, id, {}) :
              Becomes(deleteEmptyRoom(notifyRoom(s2, id, {}, refuses, Here(fd)), old))
  BY DEF Move
<1> DEFINE s1 == notifyRoom(State, old, {fd}, unheard, Gone(fd))
           s2 == joinRoom(s1, fd, name)
           id == s2.clients[fd].currRoom
<1>2. PICK refuses \in SUBSET Recipients(s2, id, {}) :
        Becomes(deleteEmptyRoom(notifyRoom(s2, id, {}, refuses, Here(fd)), old))
  BY <1>1
<1> DEFINE s3 == notifyRoom(s2, id, {}, refuses, Here(fd))
           s4 == deleteEmptyRoom(s3, old)
           rs == WithRoom(s1.rooms, name)
<1>s. /\ s1 = notifyRoom(State, old, {fd}, unheard, Gone(fd))
      /\ s2 = joinRoom(s1, fd, name)
      /\ s3 = notifyRoom(s2, id, {}, refuses, Here(fd))
      /\ s4 = deleteEmptyRoom(s3, old)
      /\ rs = WithRoom(s1.rooms, name)
      /\ Becomes(s4)
  BY <1>2
<1>n. Gone(fd).who \in Fds /\ Here(fd).who \in Fds
  BY DEF Gone, Here
<1>o. old = State.clients[fd].currRoom
  BY StateFields
<1> HIDE DEF s1, s2, s3, s4, id, old, rs
<1>3. Consistent(s1, 0) /\ OnlyLoses(State, unheard, s1)
  BY <1>s, <1>n, NotifyKeeps, Zenon
<1>4. fd \notin unheard
  BY DEF Recipients
<1>5. IsActive(s1, fd) /\ s1.clients[fd].currRoom = old
  BY <1>3, <1>4, <1>o DEF IsActive, OnlyLoses
<1>6. Joinable(s1, fd)
  BY <1>3, <1>5, ActiveIsJoinable, Zenon
<1>7. Consistent(s2, old)
  BY <1>s, <1>5, <1>6, JoinKeeps
<1>8. OnlyMoves(s1, fd, name, rs, s2)
  BY <1>s, <1>6, JoinFields
<1>9. OnlyLoses(s2, refuses, s3)
  BY <1>s, <1>n, <1>7, NotifyKeeps
<1>10. s4.clients = s3.clients /\ clients' = s4.clients
  BY <1>s DEF deleteEmptyRoom, Becomes
<1>11. ASSUME NEW f \in DOMAIN clients \cap DOMAIN clients', NEW n,
              Means(State, clients[f].currRoom, n)
       PROVE  Means(State', clients[f].currRoom, n)
  <2> DEFINE c == clients[f].currRoom
  <2>1. f \in DOMAIN s1.clients
    BY <1>8, <1>9, <1>10, <1>11 DEF OnlyMoves, OnlyLoses
  <2>2. s1.clients[f].currRoom = c
    BY <1>3, <2>1, StateFields DEF OnlyLoses
  <2>c. Means(State, c, n)
    BY <1>11
  <2> HIDE DEF c
  <2>3. \E r \in s1.rooms : r.roomIdx = c
    BY <1>3, <2>1, <2>2, RoomExists
  <2>4. Means(s1, c, n)
    BY <1>s, <1>n, <2>c, NotifyMeans, SMTT(60)
  <2>5. Means(s2, c, n)
    BY <1>s, <1>6, <2>3, <2>4, JoinMeans, Zenon
  <2>6. Means(s3, c, n)
    BY <1>s, <1>n, <1>7, <2>5, NotifyMeans
  <2>7. Means(s4, c, n)
    BY <1>s, <2>6, DeleteMeans, Zenon
  <2>8. Means(State', c, n)
    BY <1>s, <2>7, BecomesMeans, Zenon
  <2> QED BY <2>8 DEF c
<1> QED BY <1>11 DEF MeaningsStay

(* The first frame: the main room is there.                                  *)
LEMMA UsernameMeans ==
  ASSUME Consistent(State, 0), NEW fd \in Fds, Username(fd)
  PROVE  MeaningsStay
<1> DEFINE a == Activated(fd)
           s1 == joinRoom(a, fd, MainRoom)
           id == s1.clients[fd].currRoom
<1>1. PICK refuses \in SUBSET Recipients(s1, id, {}) :
        Becomes(notifyRoom(s1, id, {}, refuses, Here(fd)))
  BY DEF Username
<1> DEFINE s2 == notifyRoom(s1, id, {}, refuses, Here(fd))
<1>s. /\ a = Activated(fd)
      /\ s1 = joinRoom(a, fd, MainRoom)
      /\ s2 = notifyRoom(s1, id, {}, refuses, Here(fd))
      /\ Becomes(s2)
  BY <1>1
<1>n. Here(fd).who \in Fds
  BY DEF Here
<1>g. fd \in DOMAIN clients /\ clients[fd].clientState = "awaiting"
  BY DEF Username
<1>r. a.rooms = rooms
  BY DEF Activated
<1> HIDE DEF a, s1, s2, id
<1>2. Joinable(a, fd) /\ a.clients[fd].currRoom = 0
  BY <1>s, <1>g, ActivatedIsJoinable
<1>3. Consistent(s1, 0)
  BY <1>s, <1>2, JoinKeeps, ChatConstants
<1>4. ASSUME NEW f \in DOMAIN clients, NEW n, Means(State, clients[f].currRoom, n)
      PROVE  Means(State', clients[f].currRoom, n)
  <2> DEFINE c == clients[f].currRoom
  <2>c. Means(State, c, n) /\ c = State.clients[f].currRoom /\ f \in DOMAIN State.clients
    BY <1>4, StateFields
  <2> HIDE DEF c
  <2>1. \E r \in a.rooms : r.roomIdx = c
    BY <1>r, <2>c, RoomExists, StateFields
  <2>2. Means(a, c, n)
    BY <1>r, <2>c, StateFields DEF Means
  <2>3. Means(s1, c, n)
    BY <1>s, <1>2, <2>1, <2>2, ChatConstants, JoinMeans, Zenon
  <2>4. Means(s2, c, n)
    BY <1>s, <1>n, <1>3, <2>3, NotifyMeans
  <2>5. Means(State', c, n)
    BY <1>s, <2>4, BecomesMeans, Zenon
  <2> QED BY <2>5 DEF c
<1> QED BY <1>4 DEF MeaningsStay

(* JOIN of the room the client is in.                                        *)
LEMMA RejoinMeans ==
  ASSUME Consistent(State, 0), NEW fd \in Fds, IsActive(State, fd),
         NEW name \in Names, Rejoin(fd, name)
  PROVE  MeaningsStay
<1> DEFINE old == clients[fd].currRoom
           s1 == joinRoom(State, fd, name)
           s2 == deleteEmptyRoom(s1, old)
<1>s. /\ s1 = joinRoom(State, fd, name)
      /\ s2 = deleteEmptyRoom(s1, old)
      /\ Becomes(s2)
  BY DEF Rejoin
<1> HIDE DEF s1, s2, old
<1>1. Joinable(State, fd)
  BY ActiveIsJoinable, Zenon
<1>2. ASSUME NEW f \in DOMAIN clients, NEW n, Means(State, clients[f].currRoom, n)
      PROVE  Means(State', clients[f].currRoom, n)
  <2> DEFINE c == clients[f].currRoom
  <2>c. Means(State, c, n) /\ c = State.clients[f].currRoom /\ f \in DOMAIN State.clients
    BY <1>2, StateFields
  <2> HIDE DEF c
  <2>1. \E r \in State.rooms : r.roomIdx = c
    BY <2>c, RoomExists
  <2>2. Means(s1, c, n)
    BY <1>s, <1>1, <2>c, <2>1, JoinMeans, Zenon
  <2>3. Means(s2, c, n)
    BY <1>s, <2>2, DeleteMeans, Zenon
  <2>4. Means(State', c, n)
    BY <1>s, <2>3, BecomesMeans, Zenon
  <2> QED BY <2>4 DEF c
<1> QED BY <1>2 DEF MeaningsStay

(* Clients that go take rooms with them.                                     *)
LEMMA LossMeans ==
  ASSUME Consistent(State, 0), NEW fd \in Fds, Departs(fd) \/ Dropped(fd) \/ Message(fd)
  PROVE  MeaningsStay
<1>1. ASSUME NEW who \in DOMAIN State.clients, Becomes(disconnect(State, {who}))
      PROVE  MeaningsStay
  <2>1. {who} \in SUBSET DOMAIN State.clients /\ TypeOKIn(State)
    BY <1>1 DEF Consistent
  <2>2. ASSUME NEW c, NEW n, Means(State, c, n) PROVE Means(State', c, n)
    <3>1. Means(disconnect(State, {who}), c, n)
      BY <2>1, <2>2, DisconnectMeans, Zenon
    <3> QED BY <1>1, <3>1, BecomesMeans, Zenon
  <2> QED BY <2>2 DEF MeaningsStay
<1>2. CASE Departs(fd)
  <2> DEFINE id == clients[fd].currRoom
  <2>1. PICK refuses \in SUBSET Recipients(State, id, {fd}) :
          Becomes(disconnect(notifyRoom(State, id, {fd}, refuses, Gone(fd)), {fd}))
    BY <1>2 DEF Departs
  <2> DEFINE s1 == notifyRoom(State, id, {fd}, refuses, Gone(fd))
             s2 == disconnect(s1, {fd})
  <2>s. /\ s1 = notifyRoom(State, id, {fd}, refuses, Gone(fd))
        /\ s2 = disconnect(s1, {fd})
        /\ Becomes(s2)
    BY <2>1
  <2>n. Gone(fd).who \in Fds
    BY DEF Gone
  <2> HIDE DEF s1, s2, id
  <2>2. Consistent(s1, 0) /\ OnlyLoses(State, refuses, s1)
    BY <2>s, <2>n, NotifyKeeps, Zenon
  <2>3. fd \in DOMAIN State.clients /\ fd \notin refuses
    BY <1>2, StateFields DEF Departs, Recipients
  <2>4. {fd} \in SUBSET DOMAIN s1.clients /\ TypeOKIn(s1)
    BY <2>2, <2>3 DEF OnlyLoses, Consistent
  <2>5. ASSUME NEW c, NEW n, Means(State, c, n) PROVE Means(State', c, n)
    <3>1. Means(s1, c, n)
      BY <2>s, <2>n, <2>5, NotifyMeans
    <3>2. Means(s2, c, n)
      BY <2>s, <2>4, <3>1, DisconnectMeans, Zenon
    <3> QED BY <2>s, <3>2, BecomesMeans, Zenon
  <2> QED BY <2>5 DEF MeaningsStay
<1>3. CASE Dropped(fd)
  BY <1>1, <1>3, StateFields DEF Dropped
<1>4. CASE Message(fd)
  <2>1. CASE UNCHANGED <<clients, rooms, roster>>
    <3>1. State' = State
      BY <2>1 DEF State
    <3> QED BY <3>1 DEF MeaningsStay
  <2>2. CASE \E slow \in DOMAIN State.clients : Becomes(disconnect(State, {slow}))
    BY <1>1, <2>2
  <2> QED BY <1>4, <2>1, <2>2 DEF Message, Recipients
<1> QED BY <1>2, <1>3, <1>4

(* Every handler.                                                            *)
LEMMA ChatNextMeans ==
  ASSUME RoomsInv, ChatNext
  PROVE  MeaningsStay
<1>c. Consistent(State, 0)
  BY DEF RoomsInv
<1>1. PICK fd \in Fds :
        \/ Accept(fd) \/ Username(fd) \/ (\E name \in Names : Join(fd, name))
        \/ Leave(fd) \/ Message(fd) \/ Departs(fd) \/ Dropped(fd)
  BY DEF ChatNext
<1>2. CASE Accept(fd)
  <2>1. State'.rooms = State.rooms
    BY <1>2 DEF Accept, State
  <2> QED BY <2>1 DEF MeaningsStay, Means
<1>3. CASE Username(fd)
  BY <1>c, <1>3, UsernameMeans
<1>4. CASE (\E name \in Names : Join(fd, name)) \/ Leave(fd)
  <2>1. IsActive(State, fd) /\ \E name \in Names : Move(fd, name) \/ Rejoin(fd, name)
    BY <1>4, ChatConstants DEF Join, Leave
  <2> QED BY <1>c, <2>1, MoveMeans, RejoinMeans
<1>5. CASE Departs(fd) \/ Dropped(fd) \/ Message(fd)
  BY <1>c, <1>5, LossMeans
<1> QED BY <1>1, <1>2, <1>3, <1>4, <1>5

(* Of a room that exists, roomName() is its name alone.                      *)
LEMMA NameOf ==
  ASSUME NEW s, NEW c, NEW n, Means(s, c, n), \E r \in s.rooms : r.roomIdx = c
  PROVE  roomName(s, c) = {n}
BY DEF Means, roomName

(* Room ids are reused, but never under a client: if a client's currRoom is  *)
(* the same before and after a handler, so is the name of that room.         *)
THEOREM RoomIdsKeepTheirMeaning == ChatSpec => IdKeepsItsMeaning
<1> DEFINE A == \A f \in DOMAIN clients \cap DOMAIN clients' :
                  clients[f].currRoom = clients'[f].currRoom
                    => roomName(State, clients[f].currRoom)
                         = roomName(State', clients'[f].currRoom)
<1>1. RoomsInv /\ RoomsInv' /\ [ChatNext]_chatVars => [A]_chatVars
  <2> SUFFICES ASSUME RoomsInv, RoomsInv', ChatNext,
                      NEW f \in DOMAIN clients \cap DOMAIN clients',
                      clients[f].currRoom = clients'[f].currRoom
               PROVE  roomName(State, clients[f].currRoom)
                        = roomName(State', clients'[f].currRoom)
    OBVIOUS
  <2> DEFINE c == clients[f].currRoom
  <2>1. Consistent(State, 0) /\ Consistent(State', 0)
    BY DEF RoomsInv
  <2>2. /\ f \in DOMAIN State.clients /\ State.clients[f].currRoom = c
        /\ f \in DOMAIN State'.clients /\ State'.clients[f].currRoom = c
    BY DEF State
  <2>m. \A n : Means(State, c, n) => Means(State', c, n)
    BY ChatNextMeans DEF MeaningsStay
  <2>c. clients[f].currRoom = c /\ clients'[f].currRoom = c
    OBVIOUS
  <2> HIDE DEF c
  <2>3. PICK r \in State.rooms : r.roomIdx = c
    BY <2>1, <2>2, RoomExists
  <2>4. \E q \in State'.rooms : q.roomIdx = c
    BY <2>1, <2>2, RoomExists
  <2>5. Means(State, c, r.roomName)
    BY <2>1, <2>3 DEF Means, Consistent, RoomsAreDistinctIn
  <2>6. roomName(State, c) = {r.roomName} /\ roomName(State', c) = {r.roomName}
    BY <2>3, <2>4, <2>5, <2>m, NameOf
  <2> QED BY <2>6, <2>c
<1> QED BY <1>1, ChatInitConsistent, ChatNextKeeps, PTL DEF ChatSpec, IdKeepsItsMeaning

-----------------------------------------------------------------------------
(* The proof that notices reach everybody: of two clients in a room, the one *)
(* who was there first knows of the other.  During a move this fails for the *)
(* one who moves, and the second notice of the move mends it, since the      *)
(* lists of Consistent make everybody in the room a recipient.               *)

(* The roommates outside X know of each other.                               *)
KnowApart(s, X) ==
  \A f, g \in DOMAIN s.clients \ X :
    /\ f # g
    /\ IsActive(s, f) /\ IsActive(s, g)
    /\ s.clients[f].currRoom = s.clients[g].currRoom
    => f \in s.roster[g] \/ g \in s.roster[f]

NoticesInv == RoomsInv /\ KnowApart(State, {})

-----------------------------------------------------------------------------
(* The helpers.                                                              *)

(* Those who stay keep what they know, and those who are gone do not count.  *)
LEMMA DisconnectKnows ==
  ASSUME NEW s, TypeOKIn(s), NEW X, KnowApart(s, X), NEW gone,
         NEW d, d = disconnect(s, gone)
  PROVE  KnowApart(d, X \ gone)
<1>1. /\ DOMAIN d.clients = DOMAIN s.clients \ gone
      /\ \A f \in DOMAIN d.clients : d.clients[f] = s.clients[f]
  BY DEF disconnect, Restrict
<1>2. \A f \in DOMAIN d.clients : d.roster[f] = s.roster[f] \ gone
  BY <1>1, Types DEF disconnect
<1>3. \A f \in DOMAIN d.clients : IsActive(d, f) <=> IsActive(s, f)
  BY <1>1 DEF IsActive
<1> QED BY <1>1, <1>2, <1>3 DEF KnowApart

(* What is told: that somebody is here, or is gone whom X leaves out.        *)
LEMMA ToldKnows ==
  ASSUME NEW s, TypeOKIn(s), NEW X, KnowApart(s, X), NEW told, NEW notice,
         notice.here \/ notice.who \in X,
         NEW t, t = Told(s, told, notice)
  PROVE  KnowApart(t, X)
<1>1. t.clients = s.clients
  BY DEF Told
<1>2. \A f \in DOMAIN t.clients :
        \/ t.roster[f] = s.roster[f]
        \/ t.roster[f] = s.roster[f] \cup {notice.who}
        \/ notice.who \in X /\ t.roster[f] = s.roster[f] \ {notice.who}
  BY <1>1, Types DEF Told
<1>3. \A f : IsActive(t, f) <=> IsActive(s, f)
  BY <1>1 DEF IsActive
<1> QED BY <1>1, <1>2, <1>3 DEF KnowApart

(* A notice, to anybody, with any refusals.                                  *)
LEMMA NotifyKnows ==
  ASSUME NEW s, NEW spared, Consistent(s, spared), NEW X, KnowApart(s, X),
         NEW id, NEW excluded, NEW refuses, NEW notice, notice.who \in Fds,
         notice.here \/ notice.who \in X,
         NEW n, n = notifyRoom(s, id, excluded, refuses, notice)
  PROVE  KnowApart(n, X)
<1> DEFINE told == Recipients(s, id, excluded) \ refuses
           t == Told(s, told, notice)
<1>1. n = disconnect(t, refuses) /\ t = Told(s, told, notice)
  BY DEF notifyRoom
<1>2. TypeOKIn(s)
  BY DEF Consistent
<1>3. t.clients = s.clients /\ t.rooms = s.rooms /\ t.roster \in [Fds -> SUBSET Fds]
  BY <1>2, Types DEF Told
<1> HIDE DEF t, told
<1>4. KnowApart(t, X)
  BY <1>1, <1>2, ToldKnows
<1>5. Consistent(t, spared)
  BY <1>3, RosterIsApart, Zenon
<1>6. KnowApart(n, X \ refuses)
  BY <1>1, <1>4, <1>5, DisconnectKnows DEF Consistent
<1> QED BY <1>6 DEF KnowApart

(* Entering a room changes what fd knows, and nobody else.                   *)
LEMMA JoinKnows ==
  ASSUME NEW s, NEW fd \in Fds, Joinable(s, fd), KnowApart(s, {fd}),
         NEW name \in Names, NEW j, j = joinRoom(s, fd, name)
  PROVE  KnowApart(j, {fd})
<1> DEFINE rs == WithRoom(s.rooms, name)
<1>rs. rs = WithRoom(s.rooms, name)
  OBVIOUS
<1>0. DOMAIN s.clients \subseteq Fds
  BY Types DEF Joinable
<1>r. \A f \in Fds \ {fd} : j.roster[f] = s.roster[f]
  BY DEF joinRoom, RosterOnEntry
<1> HIDE DEF rs
<1>1. OnlyMoves(s, fd, name, rs, j)
  BY <1>rs, JoinFields
<1>2. /\ DOMAIN j.clients = DOMAIN s.clients
      /\ \A f \in DOMAIN s.clients \ {fd} : j.clients[f] = s.clients[f]
      /\ \A f \in Fds : IsActive(j, f) <=> IsActive(s, f)
  BY <1>1 DEF OnlyMoves
<1> QED BY <1>0, <1>r, <1>2 DEF KnowApart

LEMMA DisconnectRoster ==
  ASSUME NEW s, NEW gone
  PROVE  disconnect(s, gone).roster =
           [f \in Fds |-> IF f \in gone THEN {} ELSE s.roster[f] \ gone]
BY DEF disconnect

(* Everybody in fd's room is told, or gone.                                  *)
LEMMA HereKnows ==
  ASSUME NEW s, NEW spared, Consistent(s, spared), NEW fd \in Fds, KnowApart(s, {fd}),
         IsActive(s, fd), NEW id, id = s.clients[fd].currRoom,
         NEW refuses \in SUBSET Recipients(s, id, {}),
         NEW n, n = notifyRoom(s, id, {}, refuses, Here(fd))
  PROVE  KnowApart(n, {})
<1>n. Here(fd).who = fd /\ Here(fd).here
  BY DEF Here
<1>1. KnowApart(n, {fd})
  BY <1>n, NotifyKnows
<1>2. OnlyLoses(s, refuses, n)
  BY <1>n, NotifyKeeps
<1>t. /\ DOMAIN s.clients \subseteq Fds
      /\ \A f \in DOMAIN s.clients :
           s.clients[f] \in [clientState : {"awaiting", "active"}, currRoom : Nat]
      /\ s.roster \in [Fds -> SUBSET Fds]
  BY Types DEF Consistent
<1>3. ASSUME fd \in DOMAIN n.clients,
             NEW g \in DOMAIN n.clients, IsActive(n, g), n.clients[g].currRoom = id
      PROVE  fd \in n.roster[g]
  <2>1. g \in DOMAIN s.clients \ refuses /\ s.clients[g] = n.clients[g]
    BY <1>2, <1>3 DEF OnlyLoses
  <2>2. IsActive(s, g) /\ s.clients[g].clientState = "active" /\ s.clients[g].currRoom = id
    BY <1>3, <2>1 DEF IsActive
  <2>3. PICK r \in s.rooms : r.roomIdx = id
    BY <2>1, <2>2 DEF Consistent, RoomsAreInUseIn
  <2>4. r.subscribedClients[g] = 1
    BY <1>t, <2>1, <2>2, <2>3 DEF Consistent, ListsMatchClientsIn
  <2>5. s.clients[g] = [clientState |-> "active", currRoom |-> id]
    <3>1. PICK st \in {"awaiting", "active"}, c \in Nat :
            s.clients[g] = [clientState |-> st, currRoom |-> c]
      BY <1>t, <2>1
    <3> QED BY <2>2, <3>1
  <2>6. g \in Recipients(s, id, {}) \ refuses
    BY <2>1, <2>3, <2>4, <2>5 DEF Recipients
  <2> DEFINE told == Recipients(s, id, {}) \ refuses
             t == Told(s, told, Here(fd))
  <2>7. n = disconnect(t, refuses)
    BY DEF notifyRoom
  <2>8. t.roster[g] = s.roster[g] \cup {fd}
    BY <1>n, <1>t, <2>1, <2>6 DEF Told
  <2> HIDE DEF t
  <2>9. n.roster[g] = t.roster[g] \ refuses
    <3>1. n.roster = [f \in Fds |-> IF f \in refuses THEN {} ELSE t.roster[f] \ refuses]
      BY <2>7, DisconnectRoster
    <3>2. g \in Fds /\ g \notin refuses
      BY <1>t, <2>1
    <3> QED BY <3>1, <3>2
  <2>10. fd \notin refuses
    BY <1>2, <1>3 DEF OnlyLoses
  <2> QED BY <2>8, <2>9, <2>10
<1>4. fd \in DOMAIN n.clients => n.clients[fd].currRoom = id
  BY <1>2 DEF OnlyLoses
<1>5. ASSUME NEW f \in DOMAIN n.clients, NEW g \in DOMAIN n.clients, f # g,
             IsActive(n, f), IsActive(n, g), n.clients[f].currRoom = n.clients[g].currRoom
      PROVE  f \in n.roster[g] \/ g \in n.roster[f]
  <2>1. CASE f = fd
    BY <1>3, <1>4, <1>5, <2>1
  <2>2. CASE g = fd
    BY <1>3, <1>4, <1>5, <2>2
  <2>3. CASE f # fd /\ g # fd
    BY <1>1, <1>5, <2>3 DEF KnowApart
  <2> QED BY <2>1, <2>2, <2>3
<1> QED BY <1>5 DEF KnowApart

(* Rooms that are deleted do not matter.                                     *)
LEMMA DeleteKnows ==
  ASSUME NEW s, NEW X, KnowApart(s, X), NEW old, NEW d, d = deleteEmptyRoom(s, old)
  PROVE  KnowApart(d, X)
<1>1. d.clients = s.clients /\ d.roster = s.roster
  BY DEF deleteEmptyRoom
<1> QED BY <1>1 DEF KnowApart, IsActive

(* The next state is the handler's result.                                   *)
LEMMA BecomesKnows ==
  ASSUME NEW s, KnowApart(s, {}), Becomes(s)
  PROVE  KnowApart(State, {})'
<1>1. State'.clients = s.clients /\ State'.roster = s.roster
  BY DEF Becomes, State
<1>2. KnowApart(State', {})
  BY <1>1 DEF KnowApart, IsActive
<1> QED BY <1>2

-----------------------------------------------------------------------------
(* The handlers.                                                             *)

(* A move: nobody knows the mover, then everybody in the new room does.      *)
LEMMA MoveKnows ==
  ASSUME Consistent(State, 0), KnowApart(State, {}), NEW fd \in Fds, IsActive(State, fd),
         NEW name \in Names, Move(fd, name)
  PROVE  KnowApart(State, {})'
<1> DEFINE old == clients[fd].currRoom
<1>1. PICK unheard \in SUBSET Recipients(State, old, {fd}) :
        LET s1 == notifyRoom(State, old, {fd}, unheard, Gone(fd))
            s2 == joinRoom(s1, fd, name)
            id == s2.clients[fd].currRoom
        IN  \E refuses \in SUBSET Recipients(s2, id, {}) :
              Becomes(deleteEmptyRoom(notifyRoom(s2, id, {}, refuses, Here(fd)), old))
  BY DEF Move
<1> DEFINE s1 == notifyRoom(State, old, {fd}, unheard, Gone(fd))
           s2 == joinRoom(s1, fd, name)
           id == s2.clients[fd].currRoom
<1>2. PICK refuses \in SUBSET Recipients(s2, id, {}) :
        Becomes(deleteEmptyRoom(notifyRoom(s2, id, {}, refuses, Here(fd)), old))
  BY <1>1
<1> DEFINE s3 == notifyRoom(s2, id, {}, refuses, Here(fd))
           s4 == deleteEmptyRoom(s3, old)
           rs == WithRoom(s1.rooms, name)
<1>s. /\ s1 = notifyRoom(State, old, {fd}, unheard, Gone(fd))
      /\ s2 = joinRoom(s1, fd, name)
      /\ id = s2.clients[fd].currRoom
      /\ s3 = notifyRoom(s2, id, {}, refuses, Here(fd))
      /\ s4 = deleteEmptyRoom(s3, old)
      /\ rs = WithRoom(s1.rooms, name)
      /\ Becomes(s4)
  BY <1>2
<1>n. Gone(fd).who = fd /\ Here(fd).who \in Fds
  BY DEF Gone, Here
<1>o. old = State.clients[fd].currRoom
  BY StateFields
<1>x. KnowApart(State, {fd})
  BY DEF KnowApart
<1> HIDE DEF s1, s2, s3, s4, id, old, rs
<1>3. Consistent(s1, 0) /\ OnlyLoses(State, unheard, s1)
  BY <1>s, <1>n, NotifyKeeps, Zenon
<1>4. fd \notin unheard
  BY DEF Recipients
<1>5. IsActive(s1, fd) /\ s1.clients[fd].currRoom = old
  BY <1>3, <1>4, <1>o DEF IsActive, OnlyLoses
<1>6. Joinable(s1, fd)
  BY <1>3, <1>5, ActiveIsJoinable, Zenon
<1>7. Consistent(s2, old)
  BY <1>s, <1>5, <1>6, JoinKeeps
<1>8. IsActive(s2, fd)
  <2>1. OnlyMoves(s1, fd, name, rs, s2)
    BY <1>s, <1>6, JoinFields
  <2> QED BY <2>1 DEF OnlyMoves, IsActive
<1>9. KnowApart(s1, {fd})
  BY <1>s, <1>n, <1>x, NotifyKnows
<1>10. KnowApart(s2, {fd})
  BY <1>s, <1>6, <1>9, JoinKnows
<1>11. KnowApart(s3, {})
  BY <1>s, <1>7, <1>8, <1>10, HereKnows
<1>12. KnowApart(s4, {})
  BY <1>s, <1>11, DeleteKnows, Zenon
<1> QED BY <1>s, <1>12, BecomesKnows, Zenon

(* The first frame makes a roommate of the client.                           *)
LEMMA UsernameKnows ==
  ASSUME Consistent(State, 0), KnowApart(State, {}), NEW fd \in Fds, Username(fd)
  PROVE  KnowApart(State, {})'
<1> DEFINE a == Activated(fd)
           s1 == joinRoom(a, fd, MainRoom)
           id == s1.clients[fd].currRoom
           rs == WithRoom(a.rooms, MainRoom)
<1>1. PICK refuses \in SUBSET Recipients(s1, id, {}) :
        Becomes(notifyRoom(s1, id, {}, refuses, Here(fd)))
  BY DEF Username
<1> DEFINE s2 == notifyRoom(s1, id, {}, refuses, Here(fd))
<1>s. /\ a = Activated(fd)
      /\ s1 = joinRoom(a, fd, MainRoom)
      /\ id = s1.clients[fd].currRoom
      /\ rs = WithRoom(a.rooms, MainRoom)
      /\ s2 = notifyRoom(s1, id, {}, refuses, Here(fd))
      /\ Becomes(s2)
  BY <1>1
<1>g. fd \in DOMAIN clients /\ clients[fd].clientState = "awaiting"
  BY DEF Username
<1>a. /\ DOMAIN a.clients = DOMAIN clients /\ a.roster = roster
      /\ \A f \in DOMAIN clients \ {fd} : a.clients[f] = clients[f]
  BY DEF Activated
<1> HIDE DEF a, s1, s2, id, rs
<1>2. Joinable(a, fd)
  BY <1>s, <1>g, ActivatedIsJoinable
<1>3. KnowApart(a, {fd})
  BY <1>a, StateFields DEF KnowApart, IsActive
<1>4. Consistent(s1, a.clients[fd].currRoom)
  BY <1>s, <1>2, JoinKeeps, ChatConstants
<1>5. KnowApart(s1, {fd})
  BY <1>s, <1>2, <1>3, JoinKnows, ChatConstants
<1>6. IsActive(s1, fd)
  <2>1. OnlyMoves(a, fd, MainRoom, rs, s1)
    BY <1>s, <1>2, JoinFields, ChatConstants
  <2> QED BY <2>1 DEF OnlyMoves, IsActive
<1>7. KnowApart(s2, {})
  BY <1>s, <1>4, <1>5, <1>6, HereKnows
<1> QED BY <1>s, <1>7, BecomesKnows, Zenon

(* JOIN of the room the client is in changes neither clients nor rosters.    *)
LEMMA RejoinKnows ==
  ASSUME Consistent(State, 0), KnowApart(State, {}), NEW fd \in Fds, IsActive(State, fd),
         NEW name \in Names, name \in roomName(State, clients[fd].currRoom),
         Rejoin(fd, name)
  PROVE  KnowApart(State, {})'
<1> DEFINE old == clients[fd].currRoom
           s1 == joinRoom(State, fd, name)
           s2 == deleteEmptyRoom(s1, old)
<1>s. /\ s1 = joinRoom(State, fd, name)
      /\ s2 = deleteEmptyRoom(s1, old)
      /\ Becomes(s2)
  BY DEF Rejoin
<1>1. PICK r \in State.rooms : r.roomIdx = old /\ r.roomName = name
  BY DEF roomName
<1>2. WithRoom(State.rooms, name) = State.rooms
  BY <1>1 DEF WithRoom
<1>3. IdOf(State.rooms, name) = old
  <2>1. \A q \in State.rooms : q.roomName = name => q = r
    BY <1>1 DEF Consistent, RoomsAreDistinctIn
  <2> QED BY <1>1, <2>1 DEF IdOf
<1>4. s1.clients = Entered(State, fd, old) /\ s1.roster = RosterOnEntry(State, fd, name)
  BY <1>2, <1>3 DEF joinRoom
<1>5. DOMAIN s1.clients = DOMAIN State.clients
      /\ \A f \in DOMAIN State.clients :
           /\ s1.clients[f].clientState = State.clients[f].clientState
           /\ s1.clients[f].currRoom = State.clients[f].currRoom
  BY <1>4, StateFields DEF Entered
<1>6. \A f \in Fds : s1.roster[f] = State.roster[f]
  BY <1>4, StateFields DEF RosterOnEntry
<1>7. DOMAIN State.clients \subseteq Fds
  BY Types DEF Consistent
<1> HIDE DEF s1, s2, old
<1>8. KnowApart(s1, {})
  BY <1>5, <1>6, <1>7 DEF KnowApart, IsActive
<1>9. KnowApart(s2, {})
  BY <1>s, <1>8, DeleteKnows, Zenon
<1> QED BY <1>s, <1>9, BecomesKnows, Zenon

(* Whoever goes leaves nobody ignorant of the others.                        *)
LEMMA LossKnows ==
  ASSUME Consistent(State, 0), KnowApart(State, {}), NEW fd \in Fds,
         Departs(fd) \/ Dropped(fd) \/ Message(fd)
  PROVE  KnowApart(State, {})'
<1>t. TypeOKIn(State)
  BY DEF Consistent
<1>1. ASSUME NEW who, Becomes(disconnect(State, {who}))
      PROVE  KnowApart(State, {})'
  <2>1. KnowApart(disconnect(State, {who}), {} \ {who})
    BY <1>t, DisconnectKnows
  <2> QED BY <1>1, <2>1, BecomesKnows
<1>2. CASE Departs(fd)
  <2> DEFINE id == clients[fd].currRoom
  <2>1. PICK refuses \in SUBSET Recipients(State, id, {fd}) :
          Becomes(disconnect(notifyRoom(State, id, {fd}, refuses, Gone(fd)), {fd}))
    BY <1>2 DEF Departs
  <2> DEFINE s1 == notifyRoom(State, id, {fd}, refuses, Gone(fd))
             s2 == disconnect(s1, {fd})
  <2>s. /\ s1 = notifyRoom(State, id, {fd}, refuses, Gone(fd))
        /\ s2 = disconnect(s1, {fd})
        /\ Becomes(s2)
    BY <2>1
  <2>n. Gone(fd).who = fd
    BY DEF Gone
  <2>x. KnowApart(State, {fd})
    BY DEF KnowApart
  <2> HIDE DEF s1, s2, id
  <2>2. Consistent(s1, 0)
    BY <2>s, <2>n, NotifyKeeps, Zenon
  <2>3. KnowApart(s1, {fd}) /\ TypeOKIn(s1)
    BY <2>s, <2>n, <2>x, <2>2, NotifyKnows DEF Consistent
  <2>4. KnowApart(s2, {fd} \ {fd})
    BY <2>s, <2>3, DisconnectKnows
  <2>5. KnowApart(s2, {})
    BY <2>4 DEF KnowApart
  <2> QED BY <2>s, <2>5, BecomesKnows, Zenon
<1>3. CASE Dropped(fd)
  BY <1>1, <1>3 DEF Dropped
<1>4. CASE Message(fd)
  <2>1. CASE UNCHANGED <<clients, rooms, roster>>
    <3>1. State' = State
      BY <2>1 DEF State
    <3> QED BY <3>1
  <2>2. CASE \E slow : Becomes(disconnect(State, {slow}))
    BY <1>1, <2>2
  <2> QED BY <1>4, <2>1, <2>2 DEF Message
<1> QED BY <1>2, <1>3, <1>4

(* A newcomer has given no username yet and is nobody's roommate.            *)
LEMMA AcceptKnows ==
  ASSUME KnowApart(State, {}), NEW fd \in Fds, Accept(fd)
  PROVE  KnowApart(State, {})'
<1>1. /\ DOMAIN clients' = DOMAIN clients \cup {fd}
      /\ clients'[fd].clientState = "awaiting"
      /\ \A f \in DOMAIN clients : clients'[f] = clients[f]
      /\ roster' = roster
  BY DEF Accept, NewConnection
<1>2. KnowApart(State', {})
  BY <1>1, StateFields DEF KnowApart, IsActive, State
<1> QED BY <1>2

(* Every handler.                                                            *)
LEMMA NoticesInvStep == NoticesInv /\ [ChatNext]_chatVars => NoticesInv'
<1> SUFFICES ASSUME NoticesInv, [ChatNext]_chatVars PROVE NoticesInv'
  OBVIOUS
<1>c. Consistent(State, 0) /\ KnowApart(State, {})
  BY DEF NoticesInv, RoomsInv
<1>1. CASE UNCHANGED chatVars
  <2>1. State' = State /\ skipped' = skipped
    BY <1>1 DEF chatVars, State
  <2> QED BY <2>1 DEF NoticesInv, RoomsInv
<1>2. CASE ChatNext
  <2>1. PICK fd \in Fds :
          \/ Accept(fd) \/ Username(fd) \/ (\E name \in Names : Join(fd, name))
          \/ Leave(fd) \/ Message(fd) \/ Departs(fd) \/ Dropped(fd)
    BY <1>2 DEF ChatNext
  <2>2. ASSUME Accept(fd) PROVE KnowApart(State, {})'
    BY <1>c, <2>2, AcceptKnows
  <2>3. ASSUME Username(fd) PROVE KnowApart(State, {})'
    BY <1>c, <2>3, UsernameKnows
  <2>4. ASSUME (\E name \in Names : Join(fd, name)) \/ Leave(fd)
        PROVE  KnowApart(State, {})'
    <3>1. /\ IsActive(State, fd)
          /\ \E name \in Names :
               \/ Move(fd, name)
               \/ name \in roomName(State, clients[fd].currRoom) /\ Rejoin(fd, name)
      BY <2>4, ChatConstants DEF Join, Leave
    <3> QED BY <1>c, <3>1, MoveKnows, RejoinKnows
  <2>5. ASSUME Departs(fd) \/ Dropped(fd) \/ Message(fd)
        PROVE  KnowApart(State, {})'
    BY <1>c, <2>5, LossKnows
  <2>6. KnowApart(State, {})'
    BY <2>1, <2>2, <2>3, <2>4, <2>5
  <2>7. RoomsInv'
    BY ChatNextKeeps DEF NoticesInv
  <2> QED BY <2>6, <2>7 DEF NoticesInv
<1> QED BY <1>1, <1>2

(* Of two clients in a room, the one who was there first has been told that  *)
(* the other one joined: whatever recipients a notice loses on its way, it   *)
(* reaches all the others.                                                   *)
THEOREM NoticesReachEverybody == ChatSpec => []RoommatesKnow
<1>1. ChatInit => NoticesInv
  <2>1. ChatInit => KnowApart(State, {})
    BY StateFields DEF ChatInit, KnowApart
  <2> QED BY <2>1, ChatInitConsistent DEF NoticesInv
<1>2. NoticesInv => RoommatesKnow
  BY DEF NoticesInv, KnowApart, RoommatesKnow, RoommatesKnowIn
<1> QED BY <1>1, <1>2, NoticesInvStep, PTL DEF ChatSpec

-----------------------------------------------------------------------------
(* The loop.                                                                 *)

(* A client is one of ChatRooms' descriptors.                                *)
LEMMA OpenAreDescriptors ==
  ASSUME RoomsInv
  PROVE  Open \subseteq Fds
BY Types, StateFields DEF RoomsInv, Consistent, Open

(* Every step of the server is a handler of ChatRooms, or changes none of    *)
(* its variables.                                                            *)
LEMMA StepIsChatStep ==
  ASSUME RoomsInv, [Next]_vars
  PROVE  [ChatNext]_chatVars
<1>o. Open \subseteq Fds
  BY OpenAreDescriptors
<1>1. CASE UNCHANGED vars
  BY <1>1 DEF vars
<1>2. CASE \/ WaitReturns \/ HandleEvent \/ BatchEnds
           \/ AcceptFails \/ AcceptReturns
           \/ RecvData \/ ReadReturns \/ FramesDone \/ Flushed
  BY <1>2 DEF WaitReturns, HandleEvent, BatchEnds, AcceptFails, AcceptReturns,
              RecvData, ReadReturns, FramesDone, Flushed
<1>3. CASE AcceptOne
  BY <1>3 DEF AcceptOne, ChatNext
<1>4. CASE RecvTooMuch \/ ReplyRefused \/ FrameTooLong
  <2>1. Dropped(client)
    BY <1>4 DEF RecvTooMuch, ReplyRefused, FrameTooLong
  <2>2. client \in Fds
    BY <1>o, <2>1 DEF Dropped, Open
  <2> QED BY <2>1, <2>2 DEF ChatNext
<1>5. CASE RecvEnds \/ QuitFrame \/ FlushFails
  <2>1. Departs(client)
    BY <1>5 DEF RecvEnds, QuitFrame, FlushFails
  <2>2. client \in Fds
    BY <1>o, <2>1 DEF Departs, Open
  <2> QED BY <2>1, <2>2 DEF ChatNext
<1>6. CASE UsernameFrame
  <2>1. Username(client)
    BY <1>6 DEF UsernameFrame
  <2>2. client \in Fds
    BY <1>o, <2>1 DEF Username, Open
  <2> QED BY <2>1, <2>2 DEF ChatNext
<1>7. CASE JoinFrame \/ LeaveFrame \/ MessageFrame \/ IgnoredFrame
  <2>1. \/ \E name \in Names : Join(client, name)
        \/ Leave(client)
        \/ Message(client)
    BY <1>7 DEF JoinFrame, LeaveFrame, MessageFrame, IgnoredFrame, Message
  <2>2. client \in Fds
    BY <1>o, <2>1, StateFields DEF Join, Leave, Message, IsActive, Open
  <2> QED BY <2>1, <2>2 DEF ChatNext
<1>8. CASE Peers
  BY <1>8 DEF Peers, PeerConnects, PeerSends, PeerCloses
<1> QED BY <1>1, <1>2, <1>3, <1>4, <1>5, <1>6, <1>7, <1>8 DEF Next, Server

(* The loop leaves clients and rooms consistent.                             *)
LEMMA StepKeepsRooms ==
  RoomsInv /\ [Next]_vars => RoomsInv'
BY StepIsChatStep, ChatNextKeeps

-----------------------------------------------------------------------------
(* The loop's own variables.                                                 *)

(* ServerTypeOK without the variables of ChatRooms.                          *)
LoopTypes ==
  /\ pc \in Places
  /\ batch \subseteq ReadyEvent
  /\ event \in ReadyEvent
  /\ bytesRead \in 0..(MAX_BYTES_READ_PER_POLL + MAX_DATA_SIZE - 1)
  /\ framesProcessed \in 0..MAX_PROCESSED_FRAMES_PER_POLL
  /\ inputBuffer \in [Fds -> 0..MAX_INPUT_BUFFER_BYTES]
  /\ unread \in [Fds -> 0..ReceiveBuffer]
  /\ finished \subseteq Open
  /\ backlog \in 0..Backlog
  /\ connections \in 0..MaxConnections

LoopInv == LoopTypes /\ ReaderIsAlive

(* Closing descriptors empties their buffers and touches no other.           *)
LEMMA KeepForgets ==
  ASSUME NEW m \in Nat, NEW g \in [Fds -> 0..m]
  PROVE  /\ Keep(g) \in [Fds -> 0..m]
         /\ \A fd \in Fds \ Open' : Keep(g)[fd] = 0
         /\ \A fd \in Fds \cap Open' : Keep(g)[fd] = g[fd]
BY DEF Keep, Open

(* A handler that is followed by no further look at its client.              *)
LEMMA HandledKeeps ==
  ASSUME LoopInv, ClosedAreForgotten, inputBuffer' = Keep(inputBuffer),
         pc' \in {"flush", "dispatch"},
         UNCHANGED <<batch, event, bytesRead, framesProcessed>>
  PROVE  LoopInv'
<1>1. inputBuffer' \in [Fds -> 0..MAX_INPUT_BUFFER_BYTES] /\ unread' \in [Fds -> 0..ReceiveBuffer]
  BY KeepForgets, ServerConstants DEF LoopInv, LoopTypes, ClosedAreForgotten
<1>3. finished' \subseteq Open' /\ UNCHANGED <<backlog, connections>>
  BY DEF ClosedAreForgotten, Open
<1>4. LoopTypes'
  BY <1>1, <1>3 DEF LoopInv, LoopTypes, Places
<1>5. ReaderIsAlive'
  BY DEF ReaderIsAlive
<1> QED BY <1>4, <1>5 DEF LoopInv

(* A handler in the frame loop: handleRead goes on only with a client that   *)
(* is still there.                                                           *)
LEMMA FrameTakenKeeps ==
  ASSUME LoopInv, RoomsInv, RoomsInv', NextFrame, NEW counted \in {0, 1}, NEW goOn \in BOOLEAN,
         FrameTaken(counted, goOn)
  PROVE  LoopInv'
<1> DEFINE kept == Keep(inputBuffer)
           left == IF client \in DOMAIN clients' THEN kept[client] - 1 ELSE kept[client]
<1>1. client \in Fds /\ inputBuffer[client] > 0
  BY OpenAreDescriptors DEF LoopInv, ReaderIsAlive, NextFrame, client
<1>2. /\ kept \in [Fds -> 0..MAX_INPUT_BUFFER_BYTES]
      /\ \A fd \in Fds \ Open' : kept[fd] = 0
      /\ client \in Open' => kept[client] = inputBuffer[client]
  BY <1>1, KeepForgets, ServerConstants DEF LoopInv, LoopTypes
<1>3. unread' \in [Fds -> 0..ReceiveBuffer]
  BY KeepForgets, ServerConstants DEF LoopInv, LoopTypes, FrameTaken, ClosedAreForgotten
<1>4. inputBuffer' = [kept EXCEPT ![client] = left]
  BY DEF FrameTaken
<1> HIDE DEF kept
<1>5. left \in 0..MAX_INPUT_BUFFER_BYTES /\ (client \notin Open' => left = 0)
  BY <1>1, <1>2, ServerConstants DEF Open
<1> HIDE DEF left
<1>6. inputBuffer' \in [Fds -> 0..MAX_INPUT_BUFFER_BYTES]
  BY <1>2, <1>4, <1>5
<1>8. framesProcessed' \in 0..MAX_PROCESSED_FRAMES_PER_POLL
  BY ServerConstants DEF LoopInv, LoopTypes, FrameTaken, NextFrame
<1>9. pc' \in Places /\ (pc' \in {"recv", "frames"} => event.fd \in Open') /\ event' = event
  BY DEF FrameTaken, Places, client, Open
<1>10. finished' \subseteq Open' /\ UNCHANGED <<batch, bytesRead, backlog, connections>>
  BY DEF FrameTaken, ClosedAreForgotten, Open
<1>11. LoopTypes'
  BY <1>3, <1>6, <1>8, <1>9, <1>10 DEF LoopInv, LoopTypes
<1>12. ReaderIsAlive'
  BY <1>9 DEF ReaderIsAlive
<1> QED BY <1>11, <1>12 DEF LoopInv

(* The steps that neither change clients nor touch a buffer.                 *)
LEMMA WaitingKeeps ==
  ASSUME LoopInv, RoomsInv,
         \/ WaitReturns \/ HandleEvent \/ BatchEnds
         \/ AcceptFails \/ AcceptReturns \/ ReadReturns \/ FramesDone \/ Flushed
  PROVE  LoopInv'
<1>o. Open \subseteq Fds
  BY OpenAreDescriptors
<1>k. UNCHANGED <<inputBuffer, unread, finished, connections, clients>>
  BY DEF chatVars, kernelVars, WaitReturns, HandleEvent, BatchEnds, AcceptFails,
         AcceptReturns, ReadReturns, FramesDone, Flushed
<1>1. CASE WaitReturns
  <2>1. batch' \subseteq ReadyEvent
    <3>1. PICK writable \in SUBSET Open :
            batch' = {[fd |-> fd, read |-> Readable(fd), write |-> fd \in writable] :
                        fd \in {f \in Open : Readable(f)} \cup writable}
                     \cup {[fd |-> l, read |-> TRUE, write |-> FALSE] :
                             l \in IF backlog > 0 THEN {Listener} ELSE {}}
      BY <1>1 DEF WaitReturns
    <3>2. \A fd : Readable(fd) \in BOOLEAN /\ (fd \in writable) \in BOOLEAN
      BY DEF Readable
    <3>3. ASSUME NEW e \in batch' PROVE e \in ReadyEvent
      <4>1. CASE \E fd \in {f \in Open : Readable(f)} \cup writable :
                   e = [fd |-> fd, read |-> Readable(fd), write |-> fd \in writable]
        <5>1. PICK fd \in Fds, r \in BOOLEAN, w \in BOOLEAN :
                e = [fd |-> fd, read |-> r, write |-> w]
          BY <1>o, <3>2, <4>1, Zenon
        <5> QED BY <5>1 DEF ReadyEvent
      <4>2. CASE e = [fd |-> Listener, read |-> TRUE, write |-> FALSE]
        BY <4>2 DEF ReadyEvent
      <4> QED BY <3>1, <3>3, <4>1, <4>2
    <3> QED BY <3>3
  <2>2. /\ pc' = "dispatch"
        /\ UNCHANGED <<event, bytesRead, framesProcessed, backlog>>
    BY <1>1 DEF WaitReturns, kernelVars
  <2> QED BY <1>k, <2>1, <2>2 DEF LoopInv, LoopTypes, ReaderIsAlive, Places, Open
<1>2. CASE HandleEvent
  <2>1. PICK e \in batch :
          /\ batch' = batch \ {e}
          /\ event' = e
          /\ pc' = IF e.fd = Listener THEN "accept"
                   ELSE IF e.read /\ e.fd \in Open THEN "recv" ELSE "flush"
    BY <1>2 DEF HandleEvent
  <2>2. /\ batch' \subseteq ReadyEvent /\ event' \in ReadyEvent
        /\ pc' \in {"accept", "recv", "flush"} /\ (pc' = "recv" => event'.fd \in Open')
    BY <1>k, <2>1 DEF LoopInv, LoopTypes, Open
  <2>3. bytesRead' = 0 /\ framesProcessed' = 0 /\ UNCHANGED backlog
    BY <1>2 DEF HandleEvent, kernelVars
  <2>4. /\ bytesRead' \in 0..(MAX_BYTES_READ_PER_POLL + MAX_DATA_SIZE - 1)
        /\ framesProcessed' \in 0..MAX_PROCESSED_FRAMES_PER_POLL
    BY <2>3, ServerConstants
  <2> QED BY <1>k, <2>2, <2>3, <2>4 DEF LoopInv, LoopTypes, ReaderIsAlive, Places, Open
<1>3. CASE \/ BatchEnds \/ AcceptReturns \/ ReadReturns \/ FramesDone \/ Flushed
  <2>1. /\ pc' \in {"wait", "dispatch", "flush", "recv"}
        /\ pc' = "recv" => pc = "frames"
        /\ UNCHANGED <<batch, event, bytesRead, framesProcessed, backlog>>
    BY <1>3 DEF BatchEnds, AcceptReturns, ReadReturns, FramesDone, Flushed, kernelVars
  <2> QED BY <1>k, <2>1 DEF LoopInv, LoopTypes, ReaderIsAlive, Places, Open
<1>4. CASE AcceptFails
  <2>1. backlog' = backlog - 1 /\ backlog > 0 /\ UNCHANGED loopVars
    BY <1>4 DEF AcceptFails
  <2>2. backlog' \in 0..Backlog
    BY <2>1, ServerConstants DEF LoopInv, LoopTypes
  <2> QED BY <1>k, <2>1, <2>2 DEF LoopInv, LoopTypes, ReaderIsAlive, loopVars, Open
<1> QED BY <1>1, <1>2, <1>3, <1>4

(* A new client begins with the empty buffers of a closed descriptor.        *)
LEMMA AcceptOneKeeps ==
  ASSUME LoopInv, AcceptOne
  PROVE  LoopInv'
<1>1. Open \subseteq Open'
  BY DEF AcceptOne, Accept, Open
<1>2. /\ backlog' = backlog - 1 /\ backlog > 0
      /\ UNCHANGED <<loopVars, unread, finished, connections, inputBuffer>>
  BY DEF AcceptOne
<1>3. backlog' \in 0..Backlog
  BY <1>2, ServerConstants DEF LoopInv, LoopTypes
<1>4. LoopTypes'
  BY <1>1, <1>2, <1>3 DEF LoopInv, LoopTypes, loopVars
<1>6. ReaderIsAlive'
  BY <1>1, <1>2 DEF LoopInv, ReaderIsAlive, loopVars
<1> QED BY <1>4, <1>6 DEF LoopInv

(* What recv() returns fits, and exceeds the read budget by less than one    *)
(* recv().                                                                   *)
LEMMA RecvDataKeeps ==
  ASSUME LoopInv, RoomsInv, RecvData
  PROVE  LoopInv'
<1>1. client \in Open /\ client \in Fds
  BY OpenAreDescriptors DEF LoopInv, ReaderIsAlive, RecvData, client
<1>2. PICK u \in 0..ReceiveBuffer, i \in 0..MAX_INPUT_BUFFER_BYTES :
        u = unread[client] /\ i = inputBuffer[client]
  BY <1>1 DEF LoopInv, LoopTypes
<1>3. PICK n \in Nat : n = Received /\ n <= u /\ n <= MAX_DATA_SIZE
  BY <1>2, ServerConstants DEF Received, Least
<1>4. /\ unread' = [unread EXCEPT ![client] = u - n]
      /\ inputBuffer' = [inputBuffer EXCEPT ![client] = i + n]
      /\ bytesRead' = bytesRead + n
      /\ bytesRead < MAX_BYTES_READ_PER_POLL
      /\ i + n <= MAX_INPUT_BUFFER_BYTES
  BY <1>2, <1>3 DEF RecvData, WithinBudget, Fits
<1>5. u - n \in 0..ReceiveBuffer /\ i + n \in 0..MAX_INPUT_BUFFER_BYTES
  BY <1>2, <1>3, <1>4, ServerConstants
<1>6. bytesRead' \in 0..(MAX_BYTES_READ_PER_POLL + MAX_DATA_SIZE - 1)
  BY <1>3, <1>4, ServerConstants DEF LoopInv, LoopTypes
<1>7. /\ unread' \in [Fds -> 0..ReceiveBuffer]
      /\ inputBuffer' \in [Fds -> 0..MAX_INPUT_BUFFER_BYTES]
  <2> HIDE DEF client
  <2> QED BY <1>1, <1>4, <1>5 DEF LoopInv, LoopTypes
<1>8. pc' = "frames"
      /\ UNCHANGED <<batch, event, framesProcessed, clients, finished, backlog, connections>>
  BY DEF RecvData, chatVars
<1>9. LoopTypes'
  BY <1>6, <1>7, <1>8 DEF LoopInv, LoopTypes, Places, Open
<1>10. ReaderIsAlive'
  BY <1>1, <1>8 DEF ReaderIsAlive, Open, client
<1> QED BY <1>9, <1>10 DEF LoopInv

(* Peers fill the kernel's buffers of open descriptors only.                 *)
LEMMA PeersKeep ==
  ASSUME LoopInv, RoomsInv, Peers
  PROVE  LoopInv'
<1>o. Open \subseteq Fds
  BY OpenAreDescriptors
<1>k. UNCHANGED <<clients, loopVars, inputBuffer>>
  BY DEF Peers, PeerConnects, PeerSends, PeerCloses, chatVars
<1>1. CASE PeerConnects
  <2>1. backlog' \in 0..Backlog /\ connections' \in 0..MaxConnections
    BY <1>1, ServerConstants DEF PeerConnects, LoopInv, LoopTypes
  <2>2. UNCHANGED <<unread, finished>>
    BY <1>1 DEF PeerConnects
  <2> QED BY <1>k, <2>1, <2>2
          DEF LoopInv, LoopTypes, ReaderIsAlive, Open, loopVars
<1>2. ASSUME NEW fd \in Fds, PeerSends(fd) PROVE LoopInv'
  <2>1. fd \in Open /\ unread' = [unread EXCEPT ![fd] = unread[fd] + 1]
        /\ unread[fd] < ReceiveBuffer /\ UNCHANGED <<finished, backlog, connections>>
    BY <1>2 DEF PeerSends
  <2>2. unread' \in [Fds -> 0..ReceiveBuffer]
    BY <2>1, ServerConstants DEF LoopInv, LoopTypes
  <2> QED BY <1>k, <2>1, <2>2
          DEF LoopInv, LoopTypes, ReaderIsAlive, Open, loopVars
<1>3. ASSUME NEW fd \in Fds, PeerCloses(fd) PROVE LoopInv'
  <2>1. fd \in Open /\ finished' = finished \cup {fd}
        /\ unread' \in {unread, [unread EXCEPT ![fd] = 0]} /\ UNCHANGED <<backlog, connections>>
    BY <1>3 DEF PeerCloses
  <2>2. unread' \in [Fds -> 0..ReceiveBuffer]
    BY <2>1, ServerConstants DEF LoopInv, LoopTypes
  <2> QED BY <1>k, <2>1, <2>2
          DEF LoopInv, LoopTypes, ReaderIsAlive, Open, loopVars
<1> QED BY <1>1, <1>2, <1>3 DEF Peers

(* Every step keeps the loop's invariant.                                    *)
LEMMA LoopInvStep == LoopInv /\ RoomsInv /\ RoomsInv' /\ [Next]_vars => LoopInv'
<1> SUFFICES ASSUME LoopInv, RoomsInv, RoomsInv', [Next]_vars PROVE LoopInv'
  OBVIOUS
<1>1. CASE UNCHANGED vars
  BY <1>1 DEF vars, loopVars, kernelVars, chatVars, LoopInv, LoopTypes,
              ReaderIsAlive, Open
<1>2. CASE RecvTooMuch \/ RecvEnds \/ FlushFails \/ FrameTooLong
  BY <1>2, HandledKeeps DEF RecvTooMuch, RecvEnds, FlushFails, FrameTooLong
<1>3. CASE \/ UsernameFrame \/ IgnoredFrame \/ JoinFrame \/ LeaveFrame \/ MessageFrame
           \/ QuitFrame \/ ReplyRefused
  <2>1. NextFrame /\ \E counted \in {0, 1}, goOn \in BOOLEAN : FrameTaken(counted, goOn)
    BY <1>3 DEF UsernameFrame, IgnoredFrame, JoinFrame, LeaveFrame, MessageFrame, QuitFrame,
                ReplyRefused
  <2> QED BY <2>1, FrameTakenKeeps
<1> QED BY <1>1, <1>2, <1>3, WaitingKeeps, AcceptOneKeeps, RecvDataKeeps, PeersKeep
        DEF Next, Server

(* The server starts with nobody connected.                                  *)
LEMMA LoopInvInit == Init => LoopInv
<1> SUFFICES ASSUME Init PROVE LoopInv
  OBVIOUS
<1>1. LoopTypes
  BY ServerConstants DEF Init, LoopTypes, Places, ReadyEvent
<1>2. ReaderIsAlive
  BY DEF Init, ReaderIsAlive
<1> QED BY <1>1, <1>2 DEF LoopInv

IInv == RoomsInv /\ LoopInv

LEMMA IInvHolds == Spec => []IInv
<1>1. Init => IInv
  BY ChatInitConsistent, LoopInvInit DEF Init, IInv
<1>2. IInv /\ [Next]_vars => IInv'
  BY StepKeepsRooms, LoopInvStep DEF IInv
<1> QED BY <1>1, <1>2, PTL DEF Spec

(* The limits of input and of the budgets hold, and handleRead never goes on *)
(* with a client that one of its handlers has disconnected.                  *)
THEOREM ReaderIsSafe == Spec => [](ServerTypeOK /\ ReaderIsAlive)
<1>1. IInv => TypeOK
  BY DEF IInv, RoomsInv, Consistent, TypeOK
<1>2. IInv => ServerTypeOK /\ ReaderIsAlive
  BY <1>1 DEF IInv, LoopInv, LoopTypes, ServerTypeOK
<1> QED BY <1>2, IInvHolds, PTL

=============================================================================
