----------------------------- MODULE ChatRooms -----------------------------
(* Clients and rooms of common/chat_server.cpp: what each handler does to    *)
(* `clients' and `rooms', one action per handler.  queueOutput, modelled in  *)
(* OutputQueue, may refuse a message for any of its recipients, and then the *)
(* recipient is disconnected in the middle of the handler: every handler     *)
(* here chooses which of its recipients refuse.                              *)
(*                                                                           *)
(* The operators take and return a record s with the fields of State, so     *)
(* that a handler is the composition of the calls it makes, in their order.  *)
EXTENDS Integers, FiniteSets, Functions

CONSTANTS
  Fds,          \* descriptor numbers that accept() may return
  Names,        \* room names
  MainRoom,     \* "main-room"
  MaxRoomIdx    \* largest id of a room; beyond INT_MAX the code overflows

ASSUME ChatConstants ==
  /\ MainRoom \in Names
  /\ MaxRoomIdx \in Nat

VARIABLES
  clients,      \* open descriptor -> [clientState, currRoom]
  rooms,        \* set of [roomIdx, roomName, subscribedClients]
  roster,       \* history: which clients of its room a client has been told of
  skipped       \* history: whom the last broadcast neither served nor dropped

chatVars == <<clients, rooms, roster, skipped>>

State == [clients |-> clients, rooms |-> rooms, roster |-> roster]

Becomes(s) == clients' = s.clients /\ rooms' = s.rooms /\ roster' = s.roster

(* subscribedClients is a vector: what matters of it is how many times it    *)
(* holds each descriptor.                                                    *)
Subscriptions == [Fds -> Nat]
Nobody == [f \in Fds |-> 0]

NewConnection == [clientState |-> "awaiting", currRoom |-> 0]

IsActive(s, fd) == fd \in DOMAIN s.clients /\ s.clients[fd].clientState = "active"

-----------------------------------------------------------------------------
(* The helpers of the class.                                                 *)

Unsubscribed(r, gone) ==
  [r EXCEPT !.subscribedClients =
     [f \in Fds |-> IF f \in gone THEN 0 ELSE r.subscribedClients[f]]]

removeFromRooms(rs, gone) == {Unsubscribed(r, gone) : r \in rs}

(* Of the rooms rs, those left when the empty ones among ids are deleted.    *)
deleteEmptyRooms(rs, ids) ==
  {r \in rs : \/ r.roomIdx \notin ids
              \/ r.roomName = MainRoom
              \/ r.subscribedClients # Nobody}

deleteEmptyRoom(s, id) ==
  [clients |-> s.clients, rooms |-> deleteEmptyRooms(s.rooms, {id}), roster |-> s.roster]

(* Mutant: the room of the last one to leave stays.                          *)
disconnectOnly(s, gone) ==
  [clients |-> Restrict(s.clients, DOMAIN s.clients \ gone),
   rooms   |-> removeFromRooms(s.rooms, gone),
   roster  |-> [f \in Fds |-> IF f \in gone THEN {} ELSE s.roster[f] \ gone]]

(* disconnect() for each member of gone, in any order: the last one to leave *)
(* a room deletes it.                                                        *)
disconnect(s, gone) ==
  [clients |-> Restrict(s.clients, DOMAIN s.clients \ gone),
   rooms   |-> deleteEmptyRooms(removeFromRooms(s.rooms, gone),
                                {s.clients[f].currRoom : f \in gone}),
   roster  |-> [f \in Fds |-> IF f \in gone THEN {} ELSE s.roster[f] \ gone]]

roomName(s, id) == {r.roomName : r \in {x \in s.rooms : x.roomIdx = id}}

(* One more than the largest id in use.                                      *)
NextId(rs) == CHOOSE n \in {r.roomIdx + 1 : r \in rs} : \A r \in rs : r.roomIdx < n

(* Mutant: the name is not looked up.                                        *)
WithNewRoom(rs, name) ==
  rs \cup {[roomIdx |-> NextId(rs), roomName |-> name, subscribedClients |-> Nobody]}

(* The room called name is found, or created at the end of the vector.       *)
WithRoom(rs, name) ==
  IF \E r \in rs : r.roomName = name THEN rs
  ELSE rs \cup {[roomIdx |-> NextId(rs), roomName |-> name, subscribedClients |-> Nobody]}

(* push_back of fd to the list of the room called name.                      *)
Subscribed(r, fd, name) ==
  IF r.roomName = name
    THEN [r EXCEPT !.subscribedClients =
            [f \in Fds |-> IF f = fd THEN r.subscribedClients[f] + 1 ELSE r.subscribedClients[f]]]
    ELSE r

IdOf(rs, name) == (CHOOSE r \in rs : r.roomName = name).roomIdx

Entered(s, fd, id) ==
  [f \in DOMAIN s.clients |->
     IF f = fd THEN [clientState |-> s.clients[f].clientState, currRoom |-> id]
               ELSE s.clients[f]]

(* A client that changes rooms knows nobody in the new one yet.              *)
RosterOnEntry(s, fd, name) ==
  [f \in Fds |-> IF f = fd /\ name \notin roomName(s, s.clients[fd].currRoom)
                   THEN {} ELSE s.roster[f]]

(* Mutant: a client who moves to another room stays subscribed to the old.   *)
doubleJoin(s, fd, name) ==
  LET rs == WithRoom(s.rooms, name) IN
  [clients |-> Entered(s, fd, IdOf(rs, name)),
   rooms   |-> {Subscribed(r, fd, name) : r \in rs},
   roster  |-> RosterOnEntry(s, fd, name)]

joinRoom(s, fd, name) ==
  LET rs == WithRoom(s.rooms, name) IN
  [clients |-> Entered(s, fd, IdOf(rs, name)),
   rooms   |-> {Subscribed(r, fd, name) : r \in removeFromRooms(rs, {fd})},
   roster  |-> RosterOnEntry(s, fd, name)]

(* To whom a message to a room is queued: both notifyRoom and broadcast test *)
(* the list of the room and what the client itself says.                     *)
Recipients(s, id, excluded) ==
  {f \in DOMAIN s.clients \ excluded :
     /\ \E r \in s.rooms : r.roomIdx = id /\ r.subscribedClients[f] > 0
     /\ s.clients[f] = [clientState |-> "active", currRoom |-> id]}

(* The notices.                                                              *)
Here(who) == [who |-> who, here |-> TRUE]
Gone(who) == [who |-> who, here |-> FALSE]

Told(s, told, notice) ==
  [clients |-> s.clients,
   rooms   |-> s.rooms,
   roster  |-> [f \in Fds |-> IF f \notin told THEN s.roster[f]
                               ELSE IF notice.here THEN s.roster[f] \cup {notice.who}
                                                   ELSE s.roster[f] \ {notice.who}]]

(* Mutant: a recipient that refuses ends the loop.                           *)
notifyUntilRefused(s, id, excluded, refuses, notice) ==
  IF refuses = {} THEN Told(s, Recipients(s, id, excluded), notice)
                  ELSE disconnect(s, refuses)

(* Every recipient gets the notice or is disconnected.                       *)
notifyRoom(s, id, excluded, refuses, notice) ==
  disconnect(Told(s, Recipients(s, id, excluded) \ refuses, notice), refuses)

-----------------------------------------------------------------------------
(* The handlers.                                                             *)

Quiet == skipped' = {}

(* acceptConnections(): the descriptor is registered and gets the prompt.    *)
Accept(fd) ==
  /\ fd \notin DOMAIN clients
  /\ clients' = [f \in DOMAIN clients \cup {fd} |->
                   IF f = fd THEN NewConnection ELSE clients[f]]
  /\ Quiet
  /\ UNCHANGED <<rooms, roster>>

Activated(fd) ==
  [clients |-> [f \in DOMAIN clients |->
                  IF f = fd THEN [clientState |-> "active", currRoom |-> clients[f].currRoom]
                            ELSE clients[f]],
   rooms |-> rooms, roster |-> roster]

(* The first frame of a connection is its username.                          *)
Username(fd) ==
  /\ fd \in DOMAIN clients
  /\ clients[fd].clientState = "awaiting"
  /\ LET s1 == joinRoom(Activated(fd), fd, MainRoom)
     IN  \E refuses \in SUBSET Recipients(s1, s1.clients[fd].currRoom, {}) :
           Becomes(notifyRoom(s1, s1.clients[fd].currRoom, {}, refuses, Here(fd)))
  /\ Quiet

(* Mutant: the room left is deleted before the new one is created.           *)
MoveDeletingFirst(fd, name) ==
  LET old == clients[fd].currRoom IN
  \E unheard \in SUBSET Recipients(State, old, {fd}) :
    LET s1 == notifyRoom(State, old, {fd}, unheard, Gone(fd))
        s2 == [s1 EXCEPT !.rooms = deleteEmptyRooms(removeFromRooms(@, {fd}), {old})]
        s3 == joinRoom(s2, fd, name)
        id == s3.clients[fd].currRoom
    IN  \E refuses \in SUBSET Recipients(s3, id, {}) :
          Becomes(notifyRoom(s3, id, {}, refuses, Here(fd)))

(* What JOIN does when the name is another room's, and LEAVE: both rooms are *)
(* told, and any recipient that refuses, the sender included, is dropped.    *)
Move(fd, name) ==
  LET old == clients[fd].currRoom IN
  \E unheard \in SUBSET Recipients(State, old, {fd}) :
    LET s1 == notifyRoom(State, old, {fd}, unheard, Gone(fd))
        s2 == joinRoom(s1, fd, name)
        id == s2.clients[fd].currRoom
    IN  \E refuses \in SUBSET Recipients(s2, id, {}) :
          Becomes(deleteEmptyRoom(notifyRoom(s2, id, {}, refuses, Here(fd)), old))

(* JOIN of the room the client is in: no notices.                            *)
Rejoin(fd, name) ==
  Becomes(deleteEmptyRoom(joinRoom(State, fd, name), clients[fd].currRoom))

Join(fd, name) ==
  /\ IsActive(State, fd)
  /\ (\E r \in rooms : r.roomName = name) \/ NextId(rooms) <= MaxRoomIdx
  /\ IF name \in roomName(State, clients[fd].currRoom)
       THEN Rejoin(fd, name)
       ELSE Move(fd, name)
  /\ Quiet

Leave(fd) ==
  /\ IsActive(State, fd)
  /\ clients[fd].currRoom # 0
  /\ Move(fd, MainRoom)
  /\ Quiet

(* broadcast(): the first recipient that refuses is dropped, and ends it.    *)
Message(fd) ==
  /\ IsActive(State, fd)
  /\ LET to == Recipients(State, clients[fd].currRoom, {fd})
     IN  \/ Quiet /\ UNCHANGED <<clients, rooms, roster>>
         \/ \E slow \in to : \E served \in SUBSET (to \ {slow}) :
              /\ Becomes(disconnect(State, {slow}))
              /\ skipped' = to \ (served \cup {slow})

(* QUIT, end of file, a failing recv() or send(): the room is told.          *)
Departs(fd) ==
  /\ fd \in DOMAIN clients
  /\ \E refuses \in SUBSET Recipients(State, clients[fd].currRoom, {fd}) :
       Becomes(disconnect(notifyRoom(State, clients[fd].currRoom, {fd}, refuses, Gone(fd)),
                          {fd}))
  /\ Quiet

(* A reply refused, an input or frame limit exceeded: nobody is told.        *)
Dropped(fd) ==
  /\ fd \in DOMAIN clients
  /\ Becomes(disconnect(State, {fd}))
  /\ Quiet

ChatInit ==
  /\ clients = [f \in {} |-> NewConnection]
  /\ rooms = {[roomIdx |-> 0, roomName |-> MainRoom, subscribedClients |-> Nobody]}
  /\ roster = [f \in Fds |-> {}]
  /\ skipped = {}

ChatNext ==
  \E fd \in Fds :
    \/ Accept(fd)
    \/ Username(fd)
    \/ \E name \in Names : Join(fd, name)
    \/ Leave(fd)
    \/ Message(fd)
    \/ Departs(fd)
    \/ Dropped(fd)

ChatSpec == ChatInit /\ [][ChatNext]_chatVars

-----------------------------------------------------------------------------

(* Every variable has the type of the code's field it models.                *)
TypeOKIn(s) ==
  /\ DOMAIN s.clients \subseteq Fds
  /\ s.clients \in [DOMAIN s.clients ->
                      [clientState : {"awaiting", "active"}, currRoom : Nat]]
  /\ s.rooms \subseteq [roomIdx : Nat, roomName : Names, subscribedClients : Subscriptions]
  /\ s.roster \in [Fds -> SUBSET Fds]

TypeOK == TypeOKIn(State) /\ skipped \subseteq Fds

(* A descriptor is in a room's list exactly if it is open, its client has    *)
(* given a username and the client's currRoom is that room; it is there      *)
(* once.  So no list keeps a closed descriptor, which the next accept could  *)
(* hand to a stranger, and no broadcast reaches another room.                *)
ListsMatchClientsIn(s) ==
  \A r \in s.rooms : \A f \in Fds :
    r.subscribedClients[f] =
      IF IsActive(s, f) /\ s.clients[f].currRoom = r.roomIdx THEN 1 ELSE 0

ListsMatchClients == ListsMatchClientsIn(State)

(* Ids and names of rooms are unique, and the main room has id 0, the room a *)
(* new client is in.                                                         *)
RoomsAreDistinctIn(s) ==
  /\ \A r1, r2 \in s.rooms :
       r1.roomIdx = r2.roomIdx \/ r1.roomName = r2.roomName => r1 = r2
  /\ \E r \in s.rooms : r.roomIdx = 0 /\ r.roomName = MainRoom

RoomsAreDistinct == RoomsAreDistinctIn(State)

(* Every client's room exists, so that WHERE, LEAVE and a broadcast find it; *)
(* and only rooms with somebody in them exist, the main room and the room    *)
(* `spared' apart.                                                           *)
RoomsAreInUseIn(s, spared) ==
  /\ \A f \in DOMAIN s.clients : \E r \in s.rooms : r.roomIdx = s.clients[f].currRoom
  /\ \A r \in s.rooms : r.roomIdx \in {0, spared} \/ r.subscribedClients # Nobody

RoomsAreInUse == RoomsAreInUseIn(State, 0)

(* Of two clients in a room, the one who was there first has been told that  *)
(* the other one joined: whatever recipients a notice loses on its way, it   *)
(* reaches all the others.                                                   *)
RoommatesKnowIn(s) ==
  \A f, g \in DOMAIN s.clients :
    /\ f # g
    /\ IsActive(s, f) /\ IsActive(s, g)
    /\ s.clients[f].currRoom = s.clients[g].currRoom
    => f \in s.roster[g] \/ g \in s.roster[f]

RoommatesKnow == RoommatesKnowIn(State)

(* Room ids are reused, but never under a client: if a client's currRoom is  *)
(* the same before and after a handler, so is the name of that room.         *)
IdKeepsItsMeaning ==
  [][\A f \in DOMAIN clients \cap DOMAIN clients' :
       clients[f].currRoom = clients'[f].currRoom
         => roomName(State, clients[f].currRoom) = roomName(State', clients'[f].currRoom)]_chatVars

(* The harness counts on every message reaching all other members of the     *)
(* room (bench/benchmark.py, expected_deliveries): each of them is served or *)
(* disconnected.                                                             *)
BroadcastReachesRoom == skipped = {}

=============================================================================
