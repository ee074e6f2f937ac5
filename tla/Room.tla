-------------------------------- MODULE Room --------------------------------
(***************************************************************************)
(* One room of the media worker (room/room.go): who takes part, which of   *)
(* the numbered slots each participant holds, what the compositor of the   *)
(* room's pipeline was last told to draw, and whom the active-speaker      *)
(* detector points at.                                                     *)
(*                                                                         *)
(* Every HTTP request runs in a goroutine of its own (a Caller).  A step   *)
(* of a caller is what the code does under one acquisition of a lock, or   *)
(* one call into the pipeline, the detector or the peer connection; op[c]  *)
(* is where the goroutine stands.  The asdLoop goroutine is one more       *)
(* process that applies layouts.                                           *)
(*                                                                         *)
(* Left out: media packets, the text of the name overlays, and the roster  *)
(* that AddSIPPeer and RemoveSIPPeer post to signaling at their end.       *)
(*                                                                         *)
(* A definition whose name ends in _bug is a slip the code does not have:  *)
(* no action uses it; it shows that a property can fail.                   *)
(***************************************************************************)
EXTENDS Naturals, SequencesExt

CONSTANTS
  WebPeers,   \* ids of WebRTC peers (one per signaling session)
  SipIds,     \* ids of SIP peers (one per call of sip-gateway)
  NoPeer,     \* the empty string of slots[i] and of the detector's current
  SlotCount,  \* len(r.slots), 20 in the code
  Callers,    \* HTTP handler goroutines
  AsdLoop,    \* the asdLoop goroutine
  Modes,      \* layout modes, a custom one with its cells
  FirstMode,  \* layout.ModeGrid, the mode of a new room
  NoView,     \* nothing was applied yet
  AsdQueue,   \* capacity of asdCh, 128 in the code
  Ops,        \* names of the calls this environment makes
  Voices,     \* participants whose voices reach the detector in this environment
  Drawn,      \* record what the compositor is told to draw
  Serial,     \* calls about one peer id take turns (CanCall says which need not)
  KnownOnly   \* the operator assigns only peers that are in the room

Ids == WebPeers \cup SipIds
Slots == 0 .. SlotCount - 1
Processes == Callers \cup {AsdLoop}

ASSUME RoomAssumption ==
  /\ SlotCount \in Nat /\ AsdQueue \in Nat
  /\ WebPeers \cap SipIds = {} /\ NoPeer \notin Ids
  /\ AsdLoop \notin Callers
  /\ Voices \subseteq Ids
  /\ FirstMode \in Modes
  /\ Drawn \in BOOLEAN /\ Serial \in BOOLEAN /\ KnownOnly \in BOOLEAN

VARIABLES
  sfu,        \* Options.SFU: forward RTP instead of mixing
  peers,      \* keys of r.peers
  sipPeers,   \* keys of r.sipPeers
  joinOrder,  \* r.joinOrder
  slots,      \* r.slots
  mode,       \* r.mode (with r.customCells)
  leaked,     \* ids with an open connection or sockets that nobody refers to
  kicked,     \* history: ids of sipPeers that RemovePeer took out of the room
  branches,   \* keys of the pipeline's peers map: bins, pads and pumps
  applied,    \* what the last UpdateLayout was computed from
  speaker,    \* det.current
  heard,      \* keys of det.levels
  queued,     \* peers with a level in the pipeline's asdCh
  op          \* the program counter of every goroutine

membership == <<peers, sipPeers, joinOrder, slots, kicked>>
detector == <<speaker, heard, queued>>
vars == <<sfu, membership, mode, leaked, branches, applied, detector, op>>

\* The participants.  A telephone the operator kicked stays in sipPeers, with its
\* sockets and its name, until the gateway takes it out; nobody sees or hears it.
Present == peers \cup (sipPeers \ kicked)

\* What applyLayout reads under RLock; the cells are a function of it.
View ==
  IF ~Drawn THEN NoView ELSE
  [mode |-> mode, speaker |-> speaker, order |-> joinOrder, slots |-> slots]

Idle == [pc |-> "idle", id |-> NoPeer, view |-> NoView]
At(c, pc) == op[c].pc = pc
Call(c, pc, p) == op' = [op EXCEPT ![c] = [pc |-> pc, id |-> p, view |-> NoView]]
Goto(c, pc) == op' = [op EXCEPT ![c].pc = pc]
Return(c) == op' = [op EXCEPT ![c] = Idle]

Busy(p) == \E c \in Callers : op[c].id = p

\* Even with Serial an AddPeer may overlap the AddPeers of its id in MCU mode.
CanCall(c, name, p) ==
  /\ name \in Ops
  /\ At(c, "idle")
  /\ Serial => \A d \in Callers : op[d].id = p =>
       name = "AddPeer" /\ ~sfu /\ op[d].pc \in {"branch", "negotiate"}

Init ==
  /\ sfu \in BOOLEAN
  /\ peers = {} /\ sipPeers = {} /\ kicked = {}
  /\ joinOrder = <<>>
  /\ slots = [i \in Slots |-> NoPeer]
  /\ mode = FirstMode
  /\ leaked = {}
  /\ branches = {}
  /\ applied = NoView
  /\ speaker = NoPeer /\ heard = {} /\ queued = {}
  /\ op = [c \in Processes |-> Idle]

-----------------------------------------------------------------------------
(* Slots and join order *)

FreeSlots == {i \in Slots : slots[i] = NoPeer}

TakeSlot_evict_bug(p) ==
  slots' = [slots EXCEPT ![IF FreeSlots = {} THEN 0 ELSE Min(FreeSlots)] = p]

TakeSlot_none_bug(p) == p \in Ids /\ slots' = slots

\* The newcomer takes the first free slot, or none when the table is full.
TakeSlot(p) ==
  slots' = IF FreeSlots = {} THEN slots ELSE [slots EXCEPT ![Min(FreeSlots)] = p]

ClearSlots(p) ==
  slots' = [i \in Slots |-> IF slots[i] = p THEN NoPeer ELSE slots[i]]

Enter(p) ==
  /\ joinOrder' = Append(joinOrder, p)
  /\ TakeSlot(p)

Leave_bug(p) == joinOrder' = joinOrder /\ ClearSlots(p)

Leave(p) ==
  /\ joinOrder' = RemoveFirst(joinOrder, p)
  /\ ClearSlots(p)

-----------------------------------------------------------------------------
(* AddPeer.  A call for an id that is already in peers returns "peer        *)
(* exists" and changes nothing.                                            *)

AddPeer(c, p) ==
  /\ CanCall(c, "AddPeer", p)
  /\ p \notin peers
  /\ Call(c, IF sfu THEN "negotiate" ELSE "branch", p)
  /\ UNCHANGED <<sfu, membership, mode, leaked, branches, applied, detector>>

AddBranch_bug(c) ==
  /\ At(c, "branch")
  /\ branches' = branches \cup {op[c].id}
  /\ Goto(c, "negotiate")
  /\ UNCHANGED <<sfu, membership, mode, leaked, applied, detector>>

\* pipeline.AddPeer refuses an id it has a branch for, and the bin a second
\* overlay of its name (PeerBranch); any other failure of GStreamer ends the same way.
AddBranch(c) ==
  /\ At(c, "branch")
  /\ op[c].id \notin branches
  /\ branches' = branches \cup {op[c].id}
  /\ Goto(c, "negotiate")
  /\ UNCHANGED <<sfu, membership, mode, leaked, applied, detector>>

AddBranchFails(c) ==
  /\ At(c, "branch")
  /\ Return(c)
  /\ UNCHANGED <<sfu, membership, mode, leaked, branches, applied, detector>>

NegotiateFails_bug(c) ==
  /\ At(c, "negotiate")
  /\ Return(c)
  /\ UNCHANGED <<sfu, membership, mode, leaked, branches, applied, detector>>

\* Negotiate fails: close the connection, and in MCU mode drop the branch.
NegotiateFails(c) ==
  /\ At(c, "negotiate")
  /\ branches' = IF sfu THEN branches ELSE branches \ {op[c].id}
  /\ Return(c)
  /\ UNCHANGED <<sfu, membership, mode, leaked, applied, detector>>

\* Negotiate succeeds; the peer is registered without a second look at peers.
Register(c) ==
  LET p == op[c].id IN
  /\ At(c, "negotiate")
  /\ peers' = peers \cup {p}
  /\ leaked' = IF p \in peers THEN leaked \cup {p} ELSE leaked
  /\ Enter(p)
  /\ IF sfu THEN Return(c) ELSE Goto(c, "layout")
  /\ UNCHANGED <<sfu, sipPeers, kicked, mode, branches, applied, detector>>

-----------------------------------------------------------------------------
(* RemovePeer, of a browser that leaves or of anybody the operator kicks.   *)
(* It does not look at sipPeers.                                           *)

RemovePeer(c, p) ==
  /\ CanCall(c, "RemovePeer", p)
  /\ peers' = peers \ {p}
  /\ kicked' = kicked \cup ({p} \cap sipPeers)
  /\ Leave(p)
  /\ Call(c, "forget", p)
  /\ UNCHANGED <<sfu, sipPeers, mode, leaked, branches, applied, detector>>

\* det.Forget, then the connection is closed.
ForgetPeer(c) ==
  LET p == op[c].id IN
  /\ At(c, "forget")
  /\ heard' = heard \ {p}
  /\ speaker' = IF speaker = p THEN NoPeer ELSE speaker
  /\ IF sfu THEN Return(c) ELSE Goto(c, "dispose")
  /\ UNCHANGED <<sfu, membership, mode, leaked, branches, applied, queued>>

\* pipeline.RemovePeer, of a WebRTC peer or (after sp.Close) of a SIP peer.
DisposeBranch(c) ==
  /\ At(c, "dispose")
  /\ branches' = branches \ {op[c].id}
  /\ Goto(c, "layout")
  /\ UNCHANGED <<sfu, membership, mode, leaked, applied, detector>>

-----------------------------------------------------------------------------
(* AddSIPPeer and RemoveSIPPeer use the pipeline in both modes.            *)

\* pipeline.AddPeer and SetPeerAudioMute; an existing branch is an error.
AddSIPPeer(c, p) ==
  /\ CanCall(c, "AddSIPPeer", p)
  /\ p \notin branches
  /\ branches' = branches \cup {p}
  /\ Call(c, "sockets", p)
  /\ UNCHANGED <<sfu, membership, mode, leaked, applied, detector>>

\* sipbridge.NewPeer finds no UDP port.
SocketsFail(c) ==
  /\ At(c, "sockets")
  /\ branches' = branches \ {op[c].id}
  /\ Return(c)
  /\ UNCHANGED <<sfu, membership, mode, leaked, applied, detector>>

\* A kicked peer of the same id is overwritten with its sockets open.
RegisterSIP(c) ==
  LET p == op[c].id IN
  /\ At(c, "sockets")
  /\ sipPeers' = sipPeers \cup {p}
  /\ kicked' = kicked \ {p}
  /\ leaked' = IF p \in sipPeers THEN leaked \cup {p} ELSE leaked
  /\ Enter(p)
  /\ Goto(c, "layout")
  /\ UNCHANGED <<sfu, peers, mode, branches, applied, detector>>

\* The detector is not told.
RemoveSIPPeer(c, p) ==
  /\ CanCall(c, "RemoveSIPPeer", p)
  /\ sipPeers' = sipPeers \ {p} /\ kicked' = kicked \ {p}
  /\ Leave(p)
  /\ Call(c, "dispose", p)
  /\ UNCHANGED <<sfu, peers, mode, leaked, branches, applied, detector>>

-----------------------------------------------------------------------------
(* The operator: AssignSlots, SetLayout and SetCustomLayout                *)

AssignedSlots_bug(f, last) ==
  [i \in Slots |-> IF i \in DOMAIN f /\ last = last THEN f[i] ELSE slots[i]]

\* The loop over the map, in Go's random order, amounts to this: an assigned
\* slot gets its peer, every other slot that peer held is freed, and of two
\* entries for one peer the one visited last wins.
AssignedSlots(f, last) ==
  [i \in Slots |->
     IF i \in DOMAIN f
     THEN IF f[i] = NoPeer \/ last[f[i]] = i THEN f[i] ELSE NoPeer
     ELSE IF slots[i] \in Range(f) THEN NoPeer ELSE slots[i]]

Assignments == UNION {[D -> Ids \cup {NoPeer}] : D \in SUBSET Slots}

AssignSlots(c, f) ==
  /\ "AssignSlots" \in Ops /\ At(c, "idle")
  /\ KnownOnly => Range(f) \subseteq Present \cup {NoPeer}
  /\ \E last \in [Range(f) \ {NoPeer} -> DOMAIN f] :
       /\ \A p \in DOMAIN last : f[last[p]] = p
       /\ slots' = AssignedSlots(f, last)
  /\ IF sfu THEN UNCHANGED op ELSE Call(c, "layout", NoPeer)
  /\ UNCHANGED <<sfu, peers, sipPeers, joinOrder, kicked, mode, leaked, branches,
                 applied, detector>>

SetLayout(c, m) ==
  /\ "SetLayout" \in Ops /\ At(c, "idle")
  /\ mode' = m
  /\ Call(c, "layout", NoPeer)
  /\ UNCHANGED <<sfu, membership, leaked, branches, applied, detector>>

-----------------------------------------------------------------------------
(* applyLayout: a snapshot under RLock, then UpdateLayout outside it.      *)

ReadView(c) ==
  /\ At(c, "layout")
  /\ op' = [op EXCEPT ![c].pc = "apply", ![c].view = View]
  /\ UNCHANGED <<sfu, membership, mode, leaked, branches, applied, detector>>

UpdateLayout(c) ==
  /\ At(c, "apply")
  /\ applied' = op[c].view
  /\ Return(c)
  /\ UNCHANGED <<sfu, membership, mode, leaked, branches, detector>>

-----------------------------------------------------------------------------
(* Active speaker detection, in MCU mode                                   *)

\* onVADSample: a decoded buffer of a peer that has a branch.  A full channel
\* drops the level.
VadSample(p) ==
  /\ "Speak" \in Ops /\ ~sfu
  /\ p \in branches \cap Voices
  /\ Cardinality(queued) < AsdQueue
  /\ queued' = queued \cup {p}
  /\ UNCHANGED <<sfu, membership, mode, leaked, branches, applied, speaker, heard, op>>

\* asdLoop takes a level and pushes it; when the speaker changes it applies
\* the layout before it takes the next one.
PushLevel(p) ==
  /\ At(AsdLoop, "idle")
  /\ p \in queued
  /\ queued' = queued \ {p}
  /\ heard' = heard \cup {p}
  /\ \/ UNCHANGED <<speaker, op>>
     \/ /\ speaker' \in heard' \ {speaker}
        /\ Call(AsdLoop, "layout", NoPeer)
  /\ UNCHANGED <<sfu, membership, mode, leaked, branches, applied>>

-----------------------------------------------------------------------------
Begin(c) ==
  \/ \E p \in WebPeers : AddPeer(c, p)
  \/ \E p \in Ids : RemovePeer(c, p)
  \/ \E p \in SipIds : AddSIPPeer(c, p) \/ RemoveSIPPeer(c, p)
  \/ \E f \in Assignments : AssignSlots(c, f)
  \/ \E m \in Modes : SetLayout(c, m)

Advance(c) ==
  \/ AddBranch(c) \/ AddBranchFails(c) \/ NegotiateFails(c) \/ Register(c)
  \/ ForgetPeer(c) \/ DisposeBranch(c)
  \/ SocketsFail(c) \/ RegisterSIP(c)
  \/ ReadView(c) \/ UpdateLayout(c)

Next ==
  \/ \E c \in Callers : Begin(c)
  \/ \E c \in Processes : Advance(c)
  \/ \E p \in Ids : VadSample(p) \/ PushLevel(p)

Spec == Init /\ [][Next]_vars
-----------------------------------------------------------------------------
(* Properties                                                              *)

Steps == {"idle", "branch", "negotiate", "forget", "dispose", "sockets",
          "layout", "apply"}
Views == [mode : Modes, speaker : Ids \cup {NoPeer}, order : Seq(Ids),
          slots : [Slots -> Ids \cup {NoPeer}]]

\* The values the variables range over.
TypeOK ==
  /\ sfu \in BOOLEAN
  /\ peers \in SUBSET WebPeers
  /\ sipPeers \in SUBSET SipIds
  /\ joinOrder \in Seq(Ids)
  /\ slots \in [Slots -> Ids \cup {NoPeer}]
  /\ mode \in Modes
  /\ leaked \in SUBSET Ids
  /\ kicked \in SUBSET sipPeers
  /\ branches \in SUBSET Ids
  /\ applied \in Views \cup {NoView}
  /\ speaker \in Ids \cup {NoPeer}
  /\ heard \in SUBSET Ids
  /\ queued \in SUBSET Ids
  /\ op \in [Processes -> [pc : Steps, id : Ids \cup {NoPeer},
                           view : Views \cup {NoView}]]

AtRest == \A c \in Processes : At(c, "idle")

\* A participant's audio goes to one track, the one of its slot: nobody holds
\* two slots (peer.go: "Slot N принадлежит peer'у с slot=N"; AssignSlots frees
\* the slot a peer held before).
OneSlotPerPeer ==
  \A i, j \in Slots : slots[i] = slots[j] /\ slots[i] # NoPeer => i = j

\* Nobody is listed twice in joinOrder: algorithmic layouts give every entry
\* a cell, and removeID removes one entry only.
JoinedOnce == IsInjective(joinOrder)

\* When no call about p is under way, the room and the pipeline agree whether p
\* takes part: AddPeer, RemovePeer and the operator's kick, with all their error
\* paths, leave neither half a participant nor a ghost.  A kicked telephone takes no
\* part any more; what stays of it is its entry in sipPeers and, in SFU mode, the
\* branch that RemovePeer leaves alone (room.go:501), until the gateway removes it.
NoGhost ==
  \A p \in Ids : ~Busy(p) =>
    /\ p \in ToSet(joinOrder) <=> p \in Present
    /\ p \in Range(slots) => p \in Present
    /\ ~sfu => (p \in branches <=> p \in Present)
    /\ sfu /\ p \in SipIds => (p \in branches <=> p \in sipPeers)

\* In MCU mode two AddPeer of one id may both pass the check of r.peers before
\* either registers ("peer exists"): the pipeline's refusal of a second branch is
\* what keeps the first PeerConnection from being overwritten while it is open.  In
\* SFU mode nothing does, and the runs make such calls take turns.
NoLeakedConnection == leaked \cap WebPeers = {}

\* Stricter than the code, checked by hand: a kick leaves nothing of a telephone.
KickedIsGone == AtRest => kicked = {}

\* A participant keeps its slot for as long as it stays, whoever else comes
\* and goes: receivers tell speakers apart by the slot's track.  Only the
\* operator moves it, with AssignSlots, or takes the place away with a kick.
SlotKept ==
  [][\A i \in Slots :
       \/ slots[i] = NoPeer
       \/ slots'[i] = slots[i]
       \/ slots[i] \notin Present'
       \/ \E c \in Callers, f \in Assignments : AssignSlots(c, f)]_vars

\* At rest the compositor draws the present participants, slots, mode and
\* speaker (AssignSlots: after a change applyLayout gives the pads their new
\* coordinates).
FreshLayout == AtRest /\ applied # NoView => applied = View

\* At rest, with every level consumed, the active speaker takes part.
SpeakerPresent == AtRest /\ queued = {} => speaker \in Present \cup {NoPeer}

\* Seen from outside, the room is a conference: every step of a handler is a
\* join, a departure (a kick is one), a reseating by the operator, or invisible.
Conf == INSTANCE Conference WITH
  People <- Ids, Nobody <- NoPeer, SeatCount <- SlotCount,
  members <- Present, seats <- slots
ImplementsConference == Conf!Spec

=============================================================================
