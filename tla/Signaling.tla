----------------------------- MODULE Signaling ------------------------------
(***************************************************************************)
(* The signaling server for one room: WebSocket sessions, the hub, the     *)
(* list of participants in Redis (presence), and what they make the media  *)
(* worker, the operator's control-plane calls and the worker's own roster  *)
(* posts do.                                                               *)
(*                                                                         *)
(* Every session runs in one goroutine that handles its client's messages  *)
(* one after another and cleans up when the connection ends.  A step is    *)
(* one access to the hub, one Redis or HTTP call, or one message written   *)
(* to one client.  Clients are the web client (Room.tsx): one join, one    *)
(* offer after the joined message, and a roster they replace whenever a    *)
(* roster message arrives.                                                 *)
(*                                                                         *)
(* Left out: events a client does not react to (peer-joined, peer-left,    *)
(* chat, control, pong), display names, tokens, and the worker's inside    *)
(* (module Room): the worker is its set of participants and a number that  *)
(* changes when the operator moves them between slots.                     *)
(*                                                                         *)
(* A definition whose name ends in _bug is a slip the code does not have:  *)
(* no action uses it; it shows that a property can fail.                   *)
(***************************************************************************)
EXTENDS Naturals, FiniteSets

CONSTANTS
  Sessions,    \* WebSocket connections, each with a peer id of its own
  SipCalls,    \* SIP peers that sip-gateway adds to the room
  Posters,     \* goroutines of notifyRosterAsync
  Faults,      \* Redis and HTTP calls may fail
  Timeouts,    \* AddPeer may exceed the 15 s of the HTTP client
  Kicks,       \* the participants an operator may kick
  MaxReseats,  \* bound on the operator's AssignSlots
  Contents,    \* what rosters say, and the seating, is kept: for RosterFresh alone
  Alone        \* a handler starts only when nothing else is under way

ASSUME SignalingAssumption ==
  /\ Faults \in BOOLEAN /\ Timeouts \in BOOLEAN /\ Alone \in BOOLEAN
  /\ Contents \in BOOLEAN
  /\ Kicks \subseteq Sessions \cup SipCalls
  /\ MaxReseats \in Nat
  /\ Sessions \cap SipCalls = {} /\ Sessions \cap Posters = {}

Peers == Sessions \cup SipCalls
Writers == Sessions \cup Posters   \* goroutines that broadcast rosters

VARIABLES
  hub,       \* Hub.rooms[roomID]
  presence,  \* the Redis hash of participants
  peers,     \* who has a slot in the worker's room
  seating,   \* how often the operator has moved participants
  adding,    \* sessions whose AddPeer request the worker is working on
  kicked,    \* peers the operator removed from the worker, not yet from Redis
  slips,     \* history: sessions one of whose calls failed or timed out
  roster,    \* the roster each web client shows
  closed,    \* Session.closed
  pc,        \* where each goroutine stands
  sheet,     \* the roster a goroutine is about to broadcast
  to         \* the sessions it has still to write to

shared == <<hub, presence, peers, seating, adding, kicked, slips, roster>>
local == <<closed, pc, sheet, to>>
vars == <<shared, local>>

NoRoster == [peers |-> {}, seating |-> 0]
Roster == IF Contents THEN [peers |-> peers, seating |-> seating] ELSE NoRoster

Init ==
  /\ hub = {} /\ presence = {}
  /\ peers = {} /\ seating = 0
  /\ adding = {} /\ kicked = {} /\ slips = {}
  /\ roster = [s \in Sessions |-> NoRoster]
  /\ closed = {}
  /\ pc = [w \in Writers |-> IF w \in Sessions THEN "new" ELSE "idle"]
  /\ sheet = [w \in Writers |-> NoRoster]
  /\ to = [w \in Writers |-> {}]

At(w, place) == pc[w] = place
Goto(w, place) == pc' = [pc EXCEPT ![w] = place]

\* Between two messages of the client, or with none to come.
Waiting == {"new", "joined", "connected", "gone", "idle"}
AtRest == adding = {} /\ kicked = {} /\ \A w \in Writers : pc[w] \in Waiting
MayStart == Alone => AtRest

-----------------------------------------------------------------------------
(* onJoin *)

Join(s) ==
  /\ At(s, "new") /\ MayStart
  /\ hub' = hub \cup {s}
  /\ Goto(s, "announce")
  /\ UNCHANGED <<slips, presence, peers, seating, adding, kicked, roster, closed, sheet, to>>

\* presence.Add, whose failure is only logged; then the joined message.
Announce(s) ==
  /\ At(s, "announce")
  /\ \/ presence' = presence \cup {s}
     \/ Faults /\ UNCHANGED presence
  /\ Goto(s, "joined")
  /\ UNCHANGED <<slips, hub, peers, seating, adding, kicked, roster, closed, sheet, to>>

-----------------------------------------------------------------------------
(* onOffer *)

Offer(s) ==
  /\ At(s, "joined") /\ MayStart
  /\ adding' = adding \cup {s}
  /\ Goto(s, "adding")
  /\ UNCHANGED <<slips, hub, presence, peers, seating, kicked, roster, closed, sheet, to>>

\* The worker registers the peer.  A session that gave up gets no answer, and
\* nothing in the worker knows that it did.
PeerAdded(s) ==
  /\ s \in adding
  /\ adding' = adding \ {s}
  /\ peers' = peers \cup {s}
  /\ pc' = IF At(s, "adding") THEN [pc EXCEPT ![s] = "answer"] ELSE pc
  /\ UNCHANGED <<slips, hub, presence, seating, kicked, roster, closed, sheet, to>>

\* The client gets an error and keeps its connection.
PeerRefused(s) ==
  /\ s \in adding
  /\ adding' = adding \ {s}
  /\ pc' = IF At(s, "adding") THEN [pc EXCEPT ![s] = "connected"] ELSE pc
  /\ UNCHANGED <<slips, hub, presence, peers, seating, kicked, roster, closed, sheet, to>>

AddPeerTimesOut(s) ==
  /\ Timeouts /\ At(s, "adding")
  /\ Goto(s, "connected")
  /\ slips' = slips \cup {s}
  /\ UNCHANGED <<hub, presence, peers, seating, adding, kicked, roster, closed, sheet, to>>

Answer(s) ==
  /\ At(s, "answer")
  /\ Goto(s, "fetch")
  /\ UNCHANGED <<shared, closed, sheet, to>>

\* The page is left: it forgets its roster, and Run ends with cleanup.
Close(s) ==
  /\ closed' = closed \cup {s}
  /\ roster' = [roster EXCEPT ![s] = NoRoster]
  /\ Goto(s, "remove")
  /\ UNCHANGED <<slips, hub, presence, peers, seating, adding, kicked, sheet, to>>

\* The connection broke: onOffer returns without a roster.
AnswerFails(s) == At(s, "answer") /\ Close(s)

-----------------------------------------------------------------------------
(* broadcastRoster, also at the end of cleanup                             *)

After(w) == IF w \in Posters THEN "idle" ELSE IF w \in closed THEN "gone" ELSE "connected"

\* A session asks the worker over HTTP; the worker's own goroutine reads its
\* slot table and posts it to /broadcast, which may fail as well.
FetchRoster(w) ==
  /\ At(w, "fetch")
  /\ \/ /\ sheet' = [sheet EXCEPT ![w] = Roster]
        /\ Goto(w, "targets")
     \/ /\ Faults
        /\ Goto(w, After(w))
        /\ UNCHANGED sheet
  /\ UNCHANGED <<shared, closed, to>>

\* Go on to the next client, or be done with the roster.
WriteNext(w) ==
  IF to'[w] # {}
  THEN Goto(w, "write") /\ UNCHANGED sheet
  ELSE Goto(w, After(w)) /\ sheet' = [sheet EXCEPT ![w] = NoRoster]

\* Hub.Broadcast copies the sessions of the room under the lock ...
Targets(w) ==
  /\ At(w, "targets")
  /\ to' = [to EXCEPT ![w] = hub]
  /\ WriteNext(w)
  /\ UNCHANGED <<shared, closed>>

Write_stuck_bug(w, s) ==
  /\ At(w, "write") /\ s \in to[w] \ closed
  /\ to' = [to EXCEPT ![w] = @ \ {s}]
  /\ WriteNext(w)
  /\ roster' = [roster EXCEPT ![s] = sheet[w]]
  /\ UNCHANGED <<slips, hub, presence, peers, seating, adding, kicked, closed>>

\* ... and writes to one after the other.
Write(w, s) ==
  /\ At(w, "write") /\ s \in to[w]
  /\ to' = [to EXCEPT ![w] = @ \ {s}]
  /\ WriteNext(w)
  /\ roster' = IF s \in closed THEN roster ELSE [roster EXCEPT ![s] = sheet[w]]
  /\ UNCHANGED <<slips, hub, presence, peers, seating, adding, kicked, closed>>

-----------------------------------------------------------------------------
(* The connection ends while Run waits for a message: cleanup              *)

Disconnect(s) == pc[s] \in {"joined", "connected"} /\ MayStart /\ Close(s)

RemovePeer_bug(s) ==
  /\ At(s, "remove")
  /\ Goto(s, "unlist")
  /\ UNCHANGED <<shared, closed, sheet, to>>

\* Errors of RemovePeer and of presence.Remove are dropped.
RemovePeer(s) ==
  /\ At(s, "remove")
  /\ \/ peers' = peers \ {s} /\ UNCHANGED slips
     \/ Faults /\ slips' = slips \cup {s} /\ UNCHANGED peers
  /\ Goto(s, "unlist")
  /\ UNCHANGED <<hub, presence, seating, adding, kicked, roster, closed, sheet, to>>

Unlist_bug(s) ==
  /\ At(s, "unlist")
  /\ hub' = hub \ {s}
  /\ Goto(s, "unhub")
  /\ UNCHANGED <<slips, presence, peers, seating, adding, kicked, roster, closed, sheet, to>>

Unlist(s) ==
  /\ At(s, "unlist")
  /\ \/ presence' = presence \ {s} /\ UNCHANGED slips
     \/ Faults /\ slips' = slips \cup {s} /\ UNCHANGED presence
  /\ Goto(s, "unhub")
  /\ UNCHANGED <<hub, peers, seating, adding, kicked, roster, closed, sheet, to>>

LeaveHub(s) ==
  /\ At(s, "unhub")
  /\ hub' = hub \ {s}
  /\ Goto(s, "fetch")
  /\ UNCHANGED <<slips, presence, peers, seating, adding, kicked, roster, closed, sheet, to>>

-----------------------------------------------------------------------------
(* What happens to the worker's room besides                               *)

\* A telephone enters: AddSIPPeer, refused while the pipeline has its branch, with
\* a goroutine that posts the roster in no order with the other posts; then its
\* line for the operator, whose failure is only logged.
SipEnters(c, n) ==
  /\ At(n, "idle") /\ MayStart
  /\ c \notin peers
  /\ peers' = peers \cup {c}
  /\ \/ presence' = presence \cup {c}
     \/ Faults /\ UNCHANGED presence
  /\ Goto(n, "fetch")
  /\ UNCHANGED <<slips, hub, seating, adding, kicked, roster, closed, sheet, to>>

\* It hangs up, kicked or not: RemoveSIPPeer asks nothing of the room.
SipLeaves(c, n) ==
  /\ At(n, "idle") /\ MayStart
  /\ peers' = peers \ {c}
  /\ \/ presence' = presence \ {c}
     \/ Faults /\ UNCHANGED presence
  /\ Goto(n, "fetch")
  /\ UNCHANGED <<slips, hub, seating, adding, kicked, roster, closed, sheet, to>>

\* Rooms.Kick: the operator picks a listed participant, a browser or a telephone;
\* the worker takes its slot, then Redis drops it.  Neither the session, the hub nor
\* the SIP gateway is told.
KickPeer(p) ==
  /\ MayStart
  /\ p \in (Kicks \cap presence) \ kicked
  /\ peers' = peers \ {p}
  /\ kicked' = kicked \cup {p}
  /\ UNCHANGED <<slips, hub, presence, seating, adding, roster, local>>

KickPresence(p) ==
  /\ p \in kicked
  /\ presence' = presence \ {p}
  /\ kicked' = kicked \ {p}
  /\ UNCHANGED <<slips, hub, peers, seating, adding, roster, local>>

\* Rooms.AssignSlots: the worker moves participants, and clients get a "slots"
\* event, for which they have no handler.
AssignSlots ==
  /\ MayStart
  /\ seating < MaxReseats
  /\ seating' = IF Contents THEN seating + 1 ELSE seating
  /\ UNCHANGED <<slips, hub, presence, peers, adding, kicked, roster, local>>

-----------------------------------------------------------------------------
Handle(s) ==
  \/ Announce(s) \/ PeerAdded(s) \/ PeerRefused(s) \/ AddPeerTimesOut(s)
  \/ Answer(s) \/ AnswerFails(s)
  \/ RemovePeer(s) \/ Unlist(s) \/ LeaveHub(s)

Broadcast(w) == FetchRoster(w) \/ Targets(w) \/ \E s \in Sessions : Write(w, s)

Client(s) == Join(s) \/ Offer(s) \/ Disconnect(s)

Operator == AssignSlots \/ \E p \in Peers : KickPeer(p) \/ KickPresence(p)

Next ==
  \/ \E s \in Sessions : Client(s) \/ Handle(s)
  \/ \E w \in Writers : Broadcast(w)
  \/ \E c \in SipCalls, n \in Posters : SipEnters(c, n) \/ SipLeaves(c, n)
  \/ Operator

\* Every call a goroutine waits for ends, at the latest by its timeout, and
\* the Go scheduler runs every goroutine.  Clients, SIP calls and operators
\* owe nothing.
Fairness ==
  /\ \A s \in Sessions : WF_vars(Handle(s))
  /\ \A w \in Writers : WF_vars(Broadcast(w))

Spec == Init /\ [][Next]_vars /\ Fairness

-----------------------------------------------------------------------------
(* Properties                                                              *)

Rosters == [peers : SUBSET Peers, seating : 0 .. MaxReseats]
Places == {"new", "announce", "joined", "adding", "answer", "fetch", "targets", "write",
           "connected", "remove", "unlist", "unhub", "gone", "idle"}

TypeOK ==
  /\ hub \subseteq Sessions /\ presence \subseteq Peers
  /\ peers \subseteq Peers /\ seating \in 0 .. MaxReseats
  /\ adding \subseteq Sessions /\ kicked \subseteq Peers
  /\ closed \subseteq Sessions /\ slips \subseteq Sessions
  /\ roster \in [Sessions -> Rosters]
  /\ pc \in [Writers -> Places]
  /\ \A n \in Posters : pc[n] \in {"idle", "fetch", "targets", "write"}
  /\ sheet \in [Writers -> Rosters]
  /\ to \in [Writers -> SUBSET Sessions]

\* Unless one of its own calls failed or timed out, a session that is gone has
\* left nothing behind: no peer in the worker, no participant in Redis, no entry
\* in the hub, nor an AddPeer that could bring it back (cleanup).
NothingLeftBehind ==
  \A s \in Sessions \ slips : At(s, "gone") => s \notin hub \cup presence \cup peers \cup adding

\* Whoever sits in the worker's room or is listed for the operator can be
\* reached through the hub, whatever order joins, kicks and cleanups run in and
\* whatever fails, except calls of the session itself.
PresentAreReachable == ((presence \cup peers) \cap Sessions) \ slips \subseteq hub

\* At rest every client that takes part shows the worker's slot table
\* (broadcastRoster: clients learn from it whose slot is whose; Rooms.AssignSlots:
\* "чтобы клиенты сразу обновили UI roster").
RosterFresh == AtRest => \A s \in hub \cap peers : roster[s] = Roster

\* At rest everybody who really takes part is listed for the operator
\* (RoomControl.tsx: "roster (реально подключенные peer'ы)").
ParticipantsAreListed == AtRest => peers \cap Sessions \subseteq presence

\* However many calls fail or time out, a session whose connection ended gets
\* out of the hub and its goroutine ends: nothing it waits for, and nobody it
\* writes to, holds it up forever.
ClosedSessionsEnd == \A s \in Sessions : s \in closed ~> At(s, "gone") /\ s \notin hub

=============================================================================
