---------------------------- MODULE RoomRegistry ----------------------------
(***************************************************************************)
(* The life of one room id in a media worker: room/registry.go over        *)
(* pipeline.Registry, with the handlers of httpapi that create, use and    *)
(* destroy rooms.  Rooms and pipelines are numbered in the order they are  *)
(* made; 0 stands for nil.  A handler keeps the *Room it looked up and     *)
(* uses it later, without any lock of the registry.                        *)
(*                                                                         *)
(* A definition whose name ends in _bug is a slip the code does not have:  *)
(* no action uses it; it shows that a property can fail.                   *)
(***************************************************************************)
EXTENDS Naturals, FiniteSets

CONSTANTS
  Callers,   \* HTTP handler goroutines
  MaxRooms   \* bound on the rooms and pipelines made for the id

ASSUME RegistryAssumption == MaxRooms \in Nat \ {0}

Objects == 1 .. MaxRooms

VARIABLES
  room,      \* Registry.rooms[id]
  pipe,      \* pipeline.Registry.pipelines[id]
  pipeOf,    \* the pipeline each Room was given
  rooms,     \* how many Rooms were made
  pipes,     \* how many pipelines were made
  running,   \* pipelines started and not stopped
  closed,    \* Rooms whose peers map is nil
  conns,     \* open WebRTC connections registered in each Room
  sockets,   \* open SIP peers of each Room
  stuck,     \* closed Rooms whose lock is never released
  op         \* program counter of each handler and the Room it holds

vars == <<room, pipe, pipeOf, rooms, pipes, running, closed, conns, sockets,
          stuck, op>>
registries == <<room, pipe, pipeOf, rooms, pipes>>
media == <<running, closed, conns, sockets, stuck>>

Uses == {"peer", "sip", "leave"}
Idle == [pc |-> "idle", use |-> "leave", room |-> 0]
At(c, pc) == op[c].pc = pc
Goto(c, pc, o) == op' = [op EXCEPT ![c].pc = pc, ![c].room = o]
Return(c) == op' = [op EXCEPT ![c] = Idle]

Init ==
  /\ room = 0 /\ pipe = 0
  /\ pipeOf = [o \in Objects |-> 0]
  /\ rooms = 0 /\ pipes = 0
  /\ running = {}
  /\ closed = {}
  /\ conns = [o \in Objects |-> {}]
  /\ sockets = [o \in Objects |-> {}]
  /\ stuck = {}
  /\ op = [c \in Callers |-> Idle]

-----------------------------------------------------------------------------
(* GetOrCreate: the look under RLock, then the second look under Lock.     *)

\* addPeer and addSIPPeer begin with GetOrCreate, the remove handlers with
\* Get, and return at once when there is no room.
Lookup(c, use) ==
  /\ At(c, "idle")
  /\ use = "leave" => room # 0
  /\ op' = [op EXCEPT ![c] =
       [pc |-> IF room # 0 THEN "use" ELSE "create", use |-> use, room |-> room]]
  /\ UNCHANGED <<registries, media>>

\* Another handler was faster.
FoundOnSecondLook(c) ==
  /\ At(c, "create") /\ room # 0
  /\ Goto(c, "use", room)
  /\ UNCHANGED <<registries, media>>

Create_blind_bug(c) ==
  /\ At(c, "create")
  /\ rooms < MaxRooms
  /\ rooms' = rooms + 1
  /\ room' = rooms'
  /\ IF pipe # 0
     THEN UNCHANGED <<pipe, pipes, running>>
     ELSE /\ pipes' = pipes + 1
          /\ pipe' = pipes'
          /\ running' = running \cup {pipe'}
  /\ pipeOf' = [pipeOf EXCEPT ![room'] = pipe']
  /\ Goto(c, "use", room')
  /\ UNCHANGED <<closed, conns, sockets, stuck>>

\* pipes.GetOrCreate hands out the pipeline it has, in whatever state, and
\* otherwise makes and starts one.
Create(c) ==
  /\ At(c, "create") /\ room = 0
  /\ rooms < MaxRooms
  /\ rooms' = rooms + 1
  /\ room' = rooms'
  /\ IF pipe # 0
     THEN UNCHANGED <<pipe, pipes, running>>
     ELSE /\ pipes' = pipes + 1
          /\ pipe' = pipes'
          /\ running' = running \cup {pipe'}
  /\ pipeOf' = [pipeOf EXCEPT ![room'] = pipe']
  /\ Goto(c, "use", room')
  /\ UNCHANGED <<closed, conns, sockets, stuck>>

\* The factory or Start fails.
CreateFails(c) ==
  /\ At(c, "create") /\ room = 0
  /\ Return(c)
  /\ UNCHANGED <<registries, media>>

-----------------------------------------------------------------------------
(* Using a Room that was looked up before.  Each handler is about one      *)
(* participant, which is named after it.                                   *)

\* AddPeer writes r.peers: in a closed Room that is an assignment to a nil
\* map, and the handler panics with r.mu held (net/http recovers): whoever
\* uses that Room afterwards waits for ever.
UseAddPeer(c) ==
  LET o == op[c].room IN
  /\ At(c, "use") /\ op[c].use = "peer"
  /\ o \notin stuck
  /\ IF o \in closed
     THEN stuck' = stuck \cup {o} /\ UNCHANGED conns
     ELSE conns' = [conns EXCEPT ![o] = @ \cup {c}] /\ UNCHANGED stuck
  /\ Return(c)
  /\ UNCHANGED <<registries, running, closed, sockets>>

\* AddSIPPeer writes r.sipPeers, which Close leaves alone.
UseAddSIPPeer(c) ==
  /\ At(c, "use") /\ op[c].use = "sip"
  /\ op[c].room \notin stuck
  /\ sockets' = [sockets EXCEPT ![op[c].room] = @ \cup {c}]
  /\ Return(c)
  /\ UNCHANGED <<registries, running, closed, conns, stuck>>

\* RemovePeer and RemoveSIPPeer close what is registered, if it is.
UseRemove(c) ==
  LET o == op[c].room IN
  /\ At(c, "use") /\ op[c].use = "leave"
  /\ o \notin stuck
  /\ conns' = [conns EXCEPT ![o] = @ \ {c}]
  /\ sockets' = [sockets EXCEPT ![o] = @ \ {c}]
  /\ Return(c)
  /\ UNCHANGED <<registries, running, closed, stuck>>

-----------------------------------------------------------------------------
(* Destroy *)

Destroy(c) ==
  /\ At(c, "idle") /\ room # 0
  /\ room' = 0
  /\ Goto(c, "close", room)
  /\ UNCHANGED <<pipe, pipeOf, rooms, pipes, media>>

CloseRoom_bug(c) ==
  /\ At(c, "close")
  /\ closed' = closed \cup {op[c].room}
  /\ conns' = [conns EXCEPT ![op[c].room] = {}]
  /\ Return(c)
  /\ UNCHANGED <<registries, running, sockets, stuck>>

\* Room.Close: the peers map becomes nil and its connections are closed.
CloseRoom(c) ==
  /\ At(c, "close")
  /\ closed' = closed \cup {op[c].room}
  /\ conns' = [conns EXCEPT ![op[c].room] = {}]
  /\ Goto(c, "stop", op[c].room)
  /\ UNCHANGED <<registries, running, sockets, stuck>>

\* ... and stops the pipeline, which its registry still hands out.
StopPipeline(c) ==
  /\ At(c, "stop")
  /\ running' = running \ {pipeOf[op[c].room]}
  /\ Goto(c, "drop", op[c].room)
  /\ UNCHANGED <<registries, closed, conns, sockets, stuck>>

\* pipes.Destroy removes and stops whatever is registered by now.
DropPipeline(c) ==
  /\ At(c, "drop")
  /\ running' = running \ {pipe}
  /\ pipe' = 0
  /\ Return(c)
  /\ UNCHANGED <<room, pipeOf, rooms, pipes, closed, conns, sockets, stuck>>

-----------------------------------------------------------------------------
Handler(c) ==
  \/ \E use \in Uses : Lookup(c, use)
  \/ FoundOnSecondLook(c) \/ Create(c) \/ CreateFails(c)
  \/ UseAddPeer(c) \/ UseAddSIPPeer(c) \/ UseRemove(c)
  \/ Destroy(c) \/ CloseRoom(c) \/ StopPipeline(c) \/ DropPipeline(c)

Next == \E c \in Callers : Handler(c)

Spec == Init /\ [][Next]_vars

-----------------------------------------------------------------------------
(* Properties                                                              *)

AtRest == \A c \in Callers : At(c, "idle")
Ending(c) == op[c].pc \in {"close", "stop", "drop"}
Closing(o) == \E c \in Callers : Ending(c) /\ op[c].room = o

TypeOK ==
  /\ room \in 0 .. rooms /\ rooms \in 0 .. MaxRooms
  /\ pipe \in 0 .. pipes /\ pipes \in 0 .. rooms
  /\ pipeOf \in [Objects -> 0 .. MaxRooms]
  /\ running \subseteq 1 .. pipes
  /\ closed \subseteq 1 .. rooms
  /\ conns \in [Objects -> SUBSET Callers]
  /\ sockets \in [Objects -> SUBSET Callers]
  /\ stuck \subseteq 1 .. rooms
  /\ op \in [Callers -> [pc : {"idle", "create", "use", "close", "stop", "drop"},
                         use : Uses, room : 0 .. MaxRooms]]

\* GetOrCreate never makes two Rooms for the id: every Room that was made is
\* the registered one, or closed, or about to be closed by exactly one
\* Destroy (a second close of stopEgress would panic).
OneOpenRoom ==
  /\ \A o \in 1 .. rooms : o = room \/ o \in closed \/ Closing(o)
  /\ room \notin closed /\ (room # 0 => ~Closing(room))
  /\ \A c, d \in Callers :
       Ending(c) /\ Ending(d) /\ op[c].room = op[d].room => c = d

\* At rest nothing runs that nobody could stop: a running pipeline is the
\* registered one and belongs to the registered Room.
NoOrphanPipeline ==
  AtRest => running \subseteq IF room = 0 THEN {} ELSE {pipe} \cap {pipeOf[room]}

\* A registered WebRTC connection is in the Room that DELETE finds, or in one that
\* Close is about to empty: creation with its two looks, destruction and handlers
\* that go on with a Room they looked up earlier leave nobody connected out of
\* reach.  An AddPeer that comes after Close registers nothing: it panics, keeps the
\* lock and loses the connection it was making (MediaPath names that loss).
ConnectionsInReach ==
  \A o \in Objects : conns[o] # {} =>
    o = room \/ \E c \in Callers : At(c, "close") /\ op[c].room = o

\* Stricter than the code, checked by hand: the same of telephones, which Close
\* forgets and AddSIPPeer adds to a closed Room; and every Room's lock is released.
SocketsInReach ==
  \A o \in Objects : sockets[o] # {} =>
    o = room \/ \E c \in Callers : At(c, "close") /\ op[c].room = o
NobodyStuck == stuck = {}

\* The registered Room works on the pipeline that pipeline.Registry stores
\* ("хранит активные pipeline по roomID") and that pipeline runs.
LiveRoomRuns == AtRest /\ room # 0 => pipe = pipeOf[room] /\ pipe \in running

=============================================================================
