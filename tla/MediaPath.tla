------------------------------ MODULE MediaPath ------------------------------
(***************************************************************************)
(* The way of the packets through one room of the media worker: the        *)
(* WebRTC connections with their closing (peer/peer.go), the goroutines    *)
(* that read tracks and sockets, and the forwarding by slots               *)
(* (room/room.go).                                                         *)
(*                                                                         *)
(* A step is what a goroutine does under one lock, or one call into pion.  *)
(* A reader of a track or of a SIP peer's encoder holds a packet from the  *)
(* moment it has read slots and peers under the room's lock until it has   *)
(* written it to each connection: a write is one step, since it holds the  *)
(* connection's own mutex.                                                 *)
(*                                                                         *)
(* Left out: the contents of packets, their way through GStreamer (only    *)
(* that the mix and a SIP peer's Opus come out of it), join order, layouts *)
(* and the detector, which Room models.  An id has one life here: nobody   *)
(* is added a second time, after a kick neither.  Room and SipCall have    *)
(* ids that come back.                                                     *)
(*                                                                         *)
(* A definition whose name ends in _bug is a slip the code does not have:  *)
(* no action uses it; it shows that a property can fail.                   *)
(***************************************************************************)
EXTENDS Naturals, FiniteSetsExt

CONSTANTS
  WebPeers, SipIds,
  NoPeer,
  SlotCount,   \* len(r.slots) = AudioSlotCount, 20 in the code
  VideoSlots,  \* VideoSlotCount, 1 in the code
  InFlight     \* a bound: packets that are being forwarded at one time

Ids == WebPeers \cup SipIds
Slots == 0 .. SlotCount - 1

ASSUME MediaPathAssumption ==
  /\ IsFiniteSet(WebPeers) /\ IsFiniteSet(SipIds)
  /\ SlotCount \in Nat /\ VideoSlots \in Nat
  /\ WebPeers \cap SipIds = {} /\ NoPeer \notin Ids
  /\ InFlight \in Nat

\* Goroutines that run until something they use is closed.
Egress == <<NoPeer, "egress">>     \* egressLoop, in MCU mode
Loops == {Egress} \cup (WebPeers \X {"audio", "video", "pli"})  \* onTrack
                  \cup (SipIds \X {"recv", "mux", "opus"})      \* sipbridge, AddSIPPeer
Idle == [slot |-> SlotCount, targets |-> {}]

VARIABLES
  sfu,      \* Options.SFU
  stage,    \* how far AddPeer, RemovePeer and their SIP twins are with an id
  peers,    \* keys of r.peers
  slots,    \* r.slots
  pc,       \* the PeerConnection of a WebRTC peer
  marked,   \* peers whose closed flag is set
  closing,  \* who is between setting the flag and pc.Close, for whom
  loops,    \* goroutines that run
  held,     \* the packet a goroutine forwards: its slot and who is still to get it
  room,     \* how far Room.Close is
  toClose,  \* the connections Room.Close has still to close
  locked    \* a goroutine died holding r.mu

membership == <<stage, peers, slots>>
connections == <<pc, marked, closing>>
closingRoom == <<room, toClose, locked>>
vars == <<sfu, membership, connections, loops, held, closingRoom>>

Init ==
  /\ sfu \in BOOLEAN
  /\ stage = [p \in Ids |-> "out"]
  /\ peers = {} /\ slots = [i \in Slots |-> NoPeer]
  /\ pc = [p \in WebPeers |-> "none"]
  /\ marked = {} /\ closing = {}
  /\ loops = IF sfu THEN {} ELSE {Egress}
  /\ held = [g \in Loops |-> Idle]
  /\ room = "open" /\ toClose = {} /\ locked = FALSE

Enter(p, to) == stage' = [stage EXCEPT ![p] = to]
At(p, s) == stage[p] = s

\* AddPeer takes the first free slot, or none.
TakeSlot_bug(p) ==
  slots' = IF \A i \in Slots : slots[i] # NoPeer THEN slots
           ELSE [slots EXCEPT ![Max({i \in Slots : slots[i] = NoPeer} \cup {1})] = p]

TakeSlot(p) ==
  slots' = IF \A i \in Slots : slots[i] # NoPeer THEN slots
           ELSE [slots EXCEPT ![Min({i \in Slots : slots[i] = NoPeer})] = p]

FreeSlot_bug(p) ==
  LET Below(i) == Cardinality({j \in Slots : j < i /\ slots[j] # p}) IN
  slots' = [n \in Slots |->
              IF \E i \in Slots : slots[i] # p /\ Below(i) = n
              THEN slots[CHOOSE i \in Slots : slots[i] # p /\ Below(i) = n]
              ELSE NoPeer]

FreeSlot(p) ==
  slots' = [i \in Slots |-> IF slots[i] = p THEN NoPeer ELSE slots[i]]

-----------------------------------------------------------------------------
(* Peer.Close: the flag under the mutex, then pc.Close outside it.  The    *)
(* callers are RemovePeer and the error paths ("room call"), Room.Close    *)
(* ("close") and the connection's own state callback ("callback").         *)

Mark_bug(p, who) == marked' = marked /\ closing' = closing \cup {<<who, p>>}

Mark(p, who) ==
  /\ marked' = marked \cup {p}
  /\ closing' = IF p \in marked THEN closing ELSE closing \cup {<<who, p>>}

PcClose(p, who) ==
  /\ <<who, p>> \in closing
  /\ pc' = [pc EXCEPT ![p] = "closed"]
  /\ closing' = closing \ {<<who, p>>}
  /\ UNCHANGED <<sfu, membership, marked, loops, held, closingRoom>>

\* OnConnectionStateChange: ICE has failed, or somebody closed the connection.
\* The peer stays in r.peers.  A connection peer.New gave up has no callback.
StateChange(p) ==
  /\ \/ pc[p] = "open" /\ stage[p] \notin {"out", "negotiate", "unbuilt"}
     \/ pc[p] = "closed"
  /\ Mark(p, "callback")
  /\ UNCHANGED <<sfu, membership, pc, loops, held, closingRoom>>

-----------------------------------------------------------------------------
(* WebRTC peers                                                            *)

\* peer.New and, in MCU mode, pipeline.AddPeer.  The handler got the room from the
\* registry, which may close it at any time.
AddPeer(p) ==
  /\ At(p, "out")
  /\ pc' = [pc EXCEPT ![p] = "open"]
  /\ Enter(p, "negotiate")
  /\ UNCHANGED <<sfu, peers, slots, marked, closing, loops, held, closingRoom>>

\* peer.New fails after NewPeerConnection: a transceiver or a track cannot be added.
\* It returns without closing the connection, and AddPeer with it.
NewFails(p) ==
  /\ At(p, "out")
  /\ pc' = [pc EXCEPT ![p] = "open"]
  /\ Enter(p, "unbuilt")
  /\ UNCHANGED <<sfu, peers, slots, marked, closing, loops, held, closingRoom>>

AddFails_bug(p) ==
  /\ At(p, "negotiate")
  /\ Enter(p, "gone")
  /\ UNCHANGED <<sfu, peers, slots, connections, loops, held, closingRoom>>

\* The pipeline or Negotiate fails.
AddFails(p) ==
  /\ At(p, "negotiate")
  /\ Mark(p, "room call")
  /\ Enter(p, "gone")
  /\ UNCHANGED <<sfu, peers, slots, pc, loops, held, closingRoom>>

\* The peer is registered.  Room.Close has set r.peers to nil: the assignment
\* panics, net/http recovers, and r.mu stays locked.
Register(p) ==
  /\ At(p, "negotiate") /\ ~locked
  /\ IF room \in {"taken", "closed"}
     THEN locked' = TRUE /\ Enter(p, "lost") /\ UNCHANGED <<peers, slots>>
     ELSE peers' = peers \cup {p} /\ TakeSlot(p) /\ Enter(p, "in") /\ UNCHANGED locked
  /\ UNCHANGED <<sfu, connections, loops, held, room, toClose>>

\* onTrack: the browser's two tracks arrive once it has the answer.
OnTrack(p) ==
  /\ At(p, "in") /\ pc[p] = "open"
  /\ \A g \in loops : g[1] # p
  /\ loops' = loops \cup ({p} \X {"audio", "video", "pli"})
  /\ UNCHANGED <<sfu, membership, connections, held, closingRoom>>

\* Whom Room.Close has taken over is no longer found, and not closed here.  A
\* telephone, which the operator may kick, is not in r.peers: it loses its slot and
\* goes on sending.
RemovePeer(p) ==
  /\ At(p, "in") /\ ~locked
  /\ peers' = peers \ {p}
  /\ FreeSlot(p)
  /\ Enter(p, IF p \in peers THEN "forget" ELSE IF p \in SipIds THEN "kicked" ELSE "gone")
  /\ UNCHANGED <<sfu, connections, loops, held, closingRoom>>

ClosePeer(p) ==
  /\ At(p, "forget") /\ p \in WebPeers
  /\ Mark(p, "room call")
  /\ Enter(p, "gone")
  /\ UNCHANGED <<sfu, peers, slots, pc, loops, held, closingRoom>>

-----------------------------------------------------------------------------
(* SIP peers                                                               *)

\* pipeline.AddPeer, mute in the mix, sipbridge.NewPeer with its receivers, and
\* the two goroutines.  A failure leaves nothing, see Room and PeerBranch.
AddSIPPeer(p) ==
  /\ At(p, "out")
  /\ loops' = loops \cup ({p} \X {"recv", "mux", "opus"})
  /\ Enter(p, "sockets")
  /\ UNCHANGED <<sfu, peers, slots, connections, held, closingRoom>>

RegisterSIP(p) ==
  /\ At(p, "sockets") /\ ~locked
  /\ TakeSlot(p)
  /\ Enter(p, "in")
  /\ UNCHANGED <<sfu, peers, connections, loops, held, closingRoom>>

\* Its terminal hangs up, kicked or not.
RemoveSIPPeer(p) ==
  /\ stage[p] \in {"in", "kicked"} /\ p \in SipIds /\ ~locked
  /\ FreeSlot(p)
  /\ Enter(p, "forget")
  /\ UNCHANGED <<sfu, peers, connections, loops, held, closingRoom>>

\* sp.Close and pipeline.RemovePeer.  The mux and opus goroutines wait on
\* channels nobody closes.
CloseSIPPeer(p) ==
  /\ At(p, "forget") /\ p \in SipIds
  /\ Enter(p, "gone")
  /\ UNCHANGED <<sfu, peers, slots, connections, loops, held, closingRoom>>

-----------------------------------------------------------------------------
(* The operator, AssignSlots, one slot at a time                           *)

AssignSlot(i, p) ==
  /\ At(p, "in") /\ slots[i] # p /\ ~locked
  /\ slots' = [j \in Slots |-> IF j = i THEN p
                               ELSE IF slots[j] = p THEN NoPeer ELSE slots[j]]
  /\ UNCHANGED <<sfu, stage, peers, connections, loops, held, closingRoom>>

-----------------------------------------------------------------------------
(* Forwarding                                                              *)

Hold(g, slot, targets) ==
  /\ Cardinality({h \in Loops : held[h] # Idle}) < InFlight
  /\ g \in loops /\ held[g] = Idle /\ ~locked /\ targets # {}
  /\ held' = [held EXCEPT ![g] = [slot |-> slot, targets |-> targets]]
  /\ UNCHANGED <<sfu, membership, connections, loops, closingRoom>>

SlotsOf(p) == {i \in Slots : slots[i] = p}

\* forwardAudio, forwardVideo: everybody but the sender, who has a slot.
Forward(g, p) ==
  /\ SlotsOf(p) # {}
  /\ Hold(g, Min(SlotsOf(p)), peers \ {p})

\* The reader of a track: OnAudioRTP, OnVideoRTP.  Video of an MCU goes to the
\* pipeline only.
ReadTrack(p, kind) ==
  /\ pc[p] = "open"
  /\ kind = "audio" \/ sfu
  /\ Forward(<<p, kind>>, p)

\* A packet of the SIP peer's Opus encoder.
ReadOpus(p) ==
  /\ stage[p] \in {"sockets", "in", "kicked", "forget"} /\ room # "closed"
  /\ Forward(<<p, "opus">>, p)

\* broadcastVideo: the mix, to everybody, in slot 0.
BroadcastVideo == Hold(Egress, 0, peers)

IsVideo(g) == g[2] \in {"video", "egress"}

Writes_bug(g, p) == held[g].slot < (IF IsVideo(g) THEN VideoSlots ELSE SlotCount)

\* WriteVideoSlot and WriteAudioSlot write unless the peer is closed or has no
\* such track.
Writes(g, p) ==
  /\ p \notin marked
  /\ held[g].slot < IF IsVideo(g) THEN VideoSlots ELSE SlotCount

\* The write, or its silent refusal.
WriteSlot(g, p) ==
  LET rest == held[g].targets \ {p} IN
  /\ p \in held[g].targets
  /\ held' = [held EXCEPT ![g] = IF rest = {} THEN Idle ELSE [@ EXCEPT !.targets = rest]]
  /\ UNCHANGED <<sfu, membership, connections, loops, closingRoom>>

\* A goroutine ends when its next read or RTCP write fails: the connection or
\* the socket is closed, or stopEgress is.
Stopped(g) ==
  CASE g[1] \in WebPeers -> pc[g[1]] = "closed"
    [] g[2] = "recv" -> At(g[1], "gone")
    [] g[2] \in {"mux", "opus", "egress"} -> room # "open"

LoopsEnd(p) ==
  LET over == {g \in loops : g[1] = p /\ held[g] = Idle /\ Stopped(g)} IN
  /\ over # {}
  /\ loops' = loops \ over
  /\ UNCHANGED <<sfu, membership, connections, held, closingRoom>>

-----------------------------------------------------------------------------
(* Room.Close, which the registry calls once                               *)

\* close(stopEgress)
Close ==
  /\ room = "open"
  /\ room' = "stopped"
  /\ UNCHANGED <<sfu, membership, connections, loops, held, toClose, locked>>

TakePeers ==
  /\ room = "stopped" /\ ~locked
  /\ room' = "taken"
  /\ toClose' = peers /\ peers' = {}
  /\ UNCHANGED <<sfu, stage, slots, connections, loops, held, locked>>

CloseTaken(p) ==
  /\ p \in toClose
  /\ toClose' = toClose \ {p}
  /\ Mark(p, "close")
  /\ UNCHANGED <<sfu, membership, pc, loops, held, room, locked>>

\* pipeline.Stop.  The SIP peers are not closed.
StopPipeline ==
  /\ room = "taken" /\ toClose = {}
  /\ room' = "closed"
  /\ UNCHANGED <<sfu, membership, connections, loops, held, toClose, locked>>

-----------------------------------------------------------------------------
Closers == {"room call", "callback", "close"}
Handler(p) ==
  \/ p \in WebPeers /\ (AddFails(p) \/ Register(p) \/ ClosePeer(p))
  \/ p \in SipIds /\ (RegisterSIP(p) \/ CloseSIPPeer(p))
Goroutines(p) ==
  \/ LoopsEnd(p)
  \/ \E g \in Loops, q \in WebPeers : g[1] = p /\ WriteSlot(g, q)
Closing == TakePeers \/ StopPipeline \/ \E p \in WebPeers : CloseTaken(p)

Next ==
  \/ \E p \in WebPeers :
       \/ AddPeer(p) \/ NewFails(p) \/ StateChange(p)
       \/ OnTrack(p) \/ \E kind \in {"audio", "video"} : ReadTrack(p, kind)
       \/ \E who \in Closers : PcClose(p, who)
  \/ \E p \in SipIds : AddSIPPeer(p) \/ RemoveSIPPeer(p) \/ ReadOpus(p)
  \/ \E p \in Ids : Handler(p) \/ RemovePeer(p)
  \/ BroadcastVideo
  \/ \E p \in Ids \cup {NoPeer} : Goroutines(p)
  \/ Close \/ Closing

\* Handlers and goroutines that can go on do; media, browsers, telephones and
\* operators owe nothing.
Fairness ==
  /\ \A p \in Ids : WF_vars(Handler(p))
  /\ \A p \in WebPeers, who \in Closers : WF_vars(PcClose(p, who))
  /\ \A p \in Ids \cup {NoPeer} : WF_vars(Goroutines(p))
  /\ WF_vars(Closing)

\* The room while no operator moves people, and with one who does.
Spec == Init /\ [][Next]_vars /\ Fairness

Reseat == \E i \in Slots, p \in Ids : AssignSlot(i, p)
ReseatedSpec == Init /\ [][Next \/ Reseat]_vars /\ Fairness

-----------------------------------------------------------------------------
(* Properties                                                              *)

Stages == {"out", "negotiate", "sockets", "in", "kicked", "forget", "gone", "lost", "unbuilt"}

TypeOK ==
  /\ sfu \in BOOLEAN /\ locked \in BOOLEAN
  /\ stage \in [Ids -> Stages]
  /\ peers \subseteq WebPeers /\ toClose \subseteq WebPeers
  /\ slots \in [Slots -> Ids \cup {NoPeer}]
  /\ pc \in [WebPeers -> {"none", "open", "closed"}]
  /\ marked \subseteq WebPeers /\ closing \subseteq Closers \X WebPeers
  /\ loops \subseteq Loops
  /\ held \in [Loops -> [slot : 0 .. SlotCount, targets : SUBSET WebPeers]]
  /\ room \in {"open", "stopped", "taken", "closed"}

\* A packet on its way in track n comes from the holder of slot n, although the
\* slots were read before the writes and slots are freed and taken in between: a
\* newcomer's track gets only what somebody who left, or was kicked, sent before.
NoForeignVoice ==
  \A g \in Loops \ {Egress} :
    LET p == g[1] IN
    held[g] # Idle => \/ slots[held[g].slot] = p
                      \/ ~At(p, "in")

\* With a slot for everyone, each participant is heard: whoever joins and leaves
\* in whatever order, everybody the operator left alone has a slot of its own.
EveryoneAudible ==
  Cardinality(Ids) <= SlotCount =>
    \A p \in Ids : At(p, "in") => SlotsOf(p) # {}

\* No packet is written to a connection that was closed, though it was
\* registered when the packet was read.
NoWriteAfterClose ==
  \A g \in Loops : \A p \in held[g].targets : Writes(g, p) => pc[p] = "open"

\* Of RemovePeer, Room.Close and the connection's own callback only one closes a
\* connection.
ClosedOnce ==
  \A p \in WebPeers :
    /\ Cardinality({who \in Closers : <<who, p>> \in closing}) <= 1
    /\ \A who \in Closers : <<who, p>> \in closing => pc[p] = "open"

\* Every open connection is in r.peers, in the hands of a handler, or being closed,
\* whatever errors, departures, kicks and the end of the room come together.  The code
\* loses connections in two ways only: an error inside peer.New ("unbuilt"), and an
\* AddPeer that Room.Close has overtaken ("lost").
Owned(p) ==
  \/ p \in peers \cup toClose \/ stage[p] \in {"negotiate", "forget"}
  \/ \E who \in Closers : <<who, p>> \in closing

ConnectionsOwned ==
  \A p \in WebPeers : pc[p] = "open" => Owned(p) \/ stage[p] \in {"unbuilt", "lost"}

\* The same without the two ways, checked by hand.
NoneLost == \A p \in WebPeers : pc[p] = "open" => Owned(p)

\* When a participant is gone, or the room closed, its connection is closed and
\* the goroutines that served it end.
LeaversStop ==
  \A p \in WebPeers :
    (At(p, "gone") \/ (At(p, "in") /\ room # "open")) ~>
      (pc[p] = "closed" /\ \A g \in loops : g[1] # p)

\* Closing the room ends every goroutine that waits for its pipeline, those a
\* departed SIP peer left behind included.
RoomStops ==
  room # "open" ~> \A g \in loops : g[2] \notin {"egress", "mux", "opus"}

\* What Room.Close leaves open: the sockets of the SIP peers.
SipSocketsClosed ==
  room # "open" ~> \A g \in loops : g[2] # "recv"

\* The strict reading of "slot N belongs to the peer with slot N".
TrackTellsSpeaker ==
  \A g \in Loops \ {Egress} :
    held[g] # Idle => slots[held[g].slot] \in {g[1], NoPeer}

=============================================================================
