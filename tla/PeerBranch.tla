------------------------------ MODULE PeerBranch ------------------------------
(***************************************************************************)
(* The branches of a room's GStreamer pipeline (pipeline/pipeline_gst.go): *)
(* the elements, mixer pads and pumps AddPeer puts together for one peer,  *)
(* what its error paths take apart, RemovePeer and Stop; and, from         *)
(* room/room.go, who calls them and sets the name overlays.                *)
(*                                                                         *)
(* A step is one part of a branch built or undone, or what the code does   *)
(* under one acquisition of the pipeline's or the room's lock.  A call     *)
(* builds or disposes of one Branch; op[c] is where goroutine c stands.    *)
(*                                                                         *)
(* GStreamer is external: a bin refuses an element whose name it has, and  *)
(* a step of AddPeer may fail.  The bins a branch adds get names of their  *)
(* own; its text overlay is called tov_ and the sanitized peer id.         *)
(*                                                                         *)
(* Left out: what the elements do with the media, layouts, and the style   *)
(* of a name, which takes the same way as its being shown; that in SFU     *)
(* mode browsers have no branch; and the lookups of elements by the names  *)
(* they were just given, which succeed.  Ids have the eight characters     *)
(* that the log lines cut out of them.                                     *)
(*                                                                         *)
(* A definition whose name ends in _bug is a slip the code does not have:  *)
(* no action uses it; it shows that a property can fail.                   *)
(***************************************************************************)
EXTENDS Naturals, FiniteSets

CONSTANTS
  WebPeers, SipIds,
  Sanitized,     \* sanitizeName, a function: different ids may get one name
  Branches,      \* values of *peerBranch, as many as a run needs
  Callers,       \* goroutines
  None,          \* nil
  LateAdds       \* AddPeer may be under way when the pipeline is stopped

Ids == WebPeers \cup SipIds

ASSUME PeerBranchAssumption ==
  /\ WebPeers \cap SipIds = {}
  /\ DOMAIN Sanitized = Ids
  /\ Ids \cap Branches = {} /\ None \notin Ids \cup Branches
  /\ LateAdds \in BOOLEAN

Video == {"video bin", "compositor pad"}
Audio == {"audio bin", "mixer pad"}
Parts == Video \cup Audio \cup {"overlay", "tee", "pumps"}

VARIABLES
  has,         \* the parts of a branch that are in the pipeline or run
  owner,       \* the id a branch was built for
  branch,      \* p.peers, the registered branches
  text,        \* branches whose overlay shows a name
  stopped,     \* p.closed
  members,     \* keys of r.peers and r.sipPeers
  names,       \* keys of r.displayNames
  showNames,   \* r.showNames
  op,          \* the program counters
  overlapped   \* history: two calls about names were under way together

pipeline == <<has, owner, branch, stopped>>
room == <<members, names, showNames>>
vars == <<pipeline, text, room, op, overlapped>>

Idle == [pc |-> "idle", id |-> None, b |-> None, on |-> FALSE, todo |-> {}]

Init ==
  /\ has = [b \in Branches |-> {}]
  /\ owner = [b \in Branches |-> None]
  /\ branch = [p \in Ids |-> None]
  /\ text = {} /\ stopped = FALSE
  /\ members = {} /\ names = {} /\ showNames = TRUE
  /\ op = [c \in Callers |-> Idle]
  /\ overlapped = FALSE

At(c, pc) == op[c].pc = pc
Goto(c, pc) == op' = [op EXCEPT ![c].pc = pc]
Return(c) == op' = [op EXCEPT ![c] = Idle]
Has(b, parts) == has' = [has EXCEPT ![b] = parts]

\* Calls that set overlays or add somebody whose overlay is to be set.
Naming(c) == op[c].pc \notin {"idle", "dispose", "remove", "unlink", "stop"}
Begin(c, next, naming) ==
  /\ At(c, "idle")
  /\ op' = [op EXCEPT ![c] = next]
  /\ overlapped' = (overlapped \/ (naming /\ \E d \in Callers : Naming(d)))

-----------------------------------------------------------------------------
(* pipeline.AddPeer                                                        *)

Fresh == {b \in Branches : has[b] = {} /\ \A c \in Callers : op[c].b # b}

\* Room.AddPeer, with its check of r.peers, or AddSIPPeer; the pipeline refuses an
\* id it has a branch for.
AddPeer(c, p) ==
  /\ branch[p] = None
  /\ p \in members => p \in SipIds
  /\ LateAdds \/ ~stopped
  /\ \E b \in Fresh :
       /\ Begin(c, [Idle EXCEPT !.pc = "video", !.id = p, !.b = b], TRUE)
       /\ owner' = [owner EXCEPT ![b] = p]
  /\ UNCHANGED <<has, branch, stopped, text, room>>

BuildVideo(c) ==
  /\ At(c, "video")
  /\ Has(op[c].b, Video)
  /\ Goto(c, "overlay")
  /\ UNCHANGED <<owner, branch, stopped, text, room, overlapped>>

VideoFails(c) ==
  /\ At(c, "video")
  /\ Return(c)
  /\ UNCHANGED <<pipeline, text, room, overlapped>>

NameTaken(p) ==
  \E b \in Branches : "overlay" \in has[b] /\ Sanitized[owner[b]] = Sanitized[p]

BuildOverlay(c) ==
  /\ At(c, "overlay")
  /\ ~NameTaken(op[c].id)
  /\ Has(op[c].b, Video \cup {"overlay"})
  /\ text' = text \ {op[c].b}
  /\ Goto(c, "audio")
  /\ UNCHANGED <<owner, branch, stopped, room, overlapped>>

\* The name is taken, or the element, its pads or its links fail: all undone.
OverlayFails(c) ==
  /\ At(c, "overlay")
  /\ Has(op[c].b, {})
  /\ Return(c)
  /\ UNCHANGED <<owner, branch, stopped, text, room, overlapped>>

BuildAudio(c) ==
  /\ At(c, "audio")
  /\ Has(op[c].b, Video \cup {"overlay"} \cup Audio)
  /\ Goto(c, "tee")
  /\ UNCHANGED <<owner, branch, stopped, text, room, overlapped>>

AudioFails_bug(c) ==
  /\ At(c, "audio") \/ At(c, "tee")
  /\ Has(op[c].b, {"overlay", "mixer pad"} \cap has[op[c].b])
  /\ Return(c)
  /\ UNCHANGED <<owner, branch, stopped, text, room, overlapped>>

\* From here on the error paths forget the overlay.
AudioFails(c) ==
  /\ At(c, "audio") \/ At(c, "tee")
  /\ Has(op[c].b, {"overlay"})
  /\ Return(c)
  /\ UNCHANGED <<owner, branch, stopped, text, room, overlapped>>

BuildTee(c) ==
  /\ At(c, "tee")
  /\ Has(op[c].b, Parts \ {"pumps"})
  /\ Goto(c, "pumps")
  /\ UNCHANGED <<owner, branch, stopped, text, room, overlapped>>

\* The pumps start and the branch is registered, without a second look at
\* p.peers or p.closed.
RegisterBranch(c) ==
  LET b == op[c].b IN
  /\ At(c, "pumps")
  /\ Has(b, Parts)
  /\ branch' = [branch EXCEPT ![op[c].id] = b]
  /\ op' = [op EXCEPT ![c].pc = "connect", ![c].b = None]
  /\ UNCHANGED <<owner, stopped, text, room, overlapped>>

-----------------------------------------------------------------------------
(* pipeline.RemovePeer, disposePeer, Stop                                  *)

TakeBranch_bug(c, p) ==
  /\ op' = [op EXCEPT ![c] = [Idle EXCEPT !.pc = "remove", !.id = p, !.b = branch[p]]]
  /\ branch' = branch

\* Out of the map under the lock; without a branch there is nothing to do.
TakeBranch(c, p) ==
  /\ op' = [op EXCEPT ![c] = IF branch[p] = None THEN Idle
                             ELSE [Idle EXCEPT !.pc = "remove", !.id = p, !.b = branch[p]]]
  /\ branch' = [branch EXCEPT ![p] = None]

\* disposePeer: the pumps end and the mixers' pads are released ...
ReleasePads(c) ==
  /\ At(c, "remove")
  /\ Has(op[c].b, {"video bin", "audio bin", "tee", "overlay"})
  /\ Goto(c, "unlink")
  /\ UNCHANGED <<owner, branch, stopped, text, room, overlapped>>

\* ... then the elements are removed.
RemoveElements(c) ==
  /\ At(c, "unlink")
  /\ Has(op[c].b, {})
  /\ Return(c)
  /\ UNCHANGED <<owner, branch, stopped, text, room, overlapped>>

Stop_bug(c) ==
  /\ ~stopped
  /\ LateAdds \/ \A d \in Callers : op[d].b = None \/ op[d].pc \in {"remove", "unlink"}
  /\ Begin(c, [Idle EXCEPT !.pc = "stop", !.todo = {branch[p] : p \in Ids}], FALSE)
  /\ stopped' = TRUE
  /\ branch' = [p \in Ids |-> None]
  /\ UNCHANGED <<has, owner, text, room>>

Stop(c) ==
  /\ ~stopped
  /\ LateAdds \/ \A d \in Callers : op[d].b = None \/ op[d].pc \in {"remove", "unlink"}
  /\ Begin(c, [Idle EXCEPT !.pc = "stop", !.todo = {branch[p] : p \in Ids} \ {None}], FALSE)
  /\ stopped' = TRUE
  /\ branch' = [p \in Ids |-> None]
  /\ UNCHANGED <<has, owner, text, room>>

DisposeStopped(c) ==
  /\ At(c, "stop")
  /\ IF op[c].todo = {} THEN Return(c) /\ UNCHANGED has
     ELSE \E b \in op[c].todo :
            /\ op' = [op EXCEPT ![c].todo = @ \ {b}]
            /\ Has(b, {})
  /\ UNCHANGED <<owner, branch, stopped, text, room, overlapped>>

-----------------------------------------------------------------------------
(* Room: AddPeer, AddSIPPeer, RemovePeer, RemoveSIPPeer                    *)

\* Negotiate or sipbridge.NewPeer fails: pipeline.RemovePeer.
ConnectFails(c) ==
  /\ At(c, "connect")
  /\ TakeBranch(c, op[c].id)
  /\ UNCHANGED <<has, owner, stopped, text, room, overlapped>>

Register_bug(c) ==
  LET p == op[c].id IN
  /\ At(c, "connect")
  /\ members' = members \cup {p}
  /\ names' = names \cup {p}
  /\ Return(c)
  /\ UNCHANGED <<pipeline, text, showNames, overlapped>>

\* Registered in the room; AddPeer reads showNames for the overlay it sets after
\* the unlock, AddSIPPeer sets none.
Register(c) ==
  LET p == op[c].id IN
  /\ At(c, "connect")
  /\ members' = members \cup {p}
  /\ names' = names \cup {p}
  /\ IF p \in WebPeers
     THEN op' = [op EXCEPT ![c].pc = "overlays", ![c].on = showNames, ![c].todo = {p}]
     ELSE Return(c)
  /\ UNCHANGED <<pipeline, text, showNames, overlapped>>

\* RemovePeer keeps the name, RemoveSIPPeer deletes it.
RemovePeer(c, p) ==
  /\ Begin(c, [Idle EXCEPT !.pc = "dispose", !.id = p], FALSE)
  /\ members' = members \ {p}
  /\ names' = IF p \in SipIds THEN names \ {p} ELSE names
  /\ UNCHANGED <<pipeline, text, showNames>>

Dispose(c) ==
  /\ At(c, "dispose")
  /\ TakeBranch(c, op[c].id)
  /\ UNCHANGED <<has, owner, stopped, text, room, overlapped>>

-----------------------------------------------------------------------------
(* Name overlays                                                           *)

SetShowNames(c, on) ==
  /\ on # showNames
  /\ showNames' = on
  /\ Begin(c, [Idle EXCEPT !.pc = "refresh"], TRUE)
  /\ UNCHANGED <<pipeline, text, members, names>>

\* refreshAllOverlays reads setting and names under RLock ...
RefreshAllOverlays(c) ==
  /\ At(c, "refresh")
  /\ op' = [op EXCEPT ![c].pc = "overlays", ![c].on = showNames, ![c].todo = names]
  /\ UNCHANGED <<pipeline, text, room, overlapped>>

\* ... and, like AddPeer for its one peer, sets the overlays without it, in any
\* order; SetPeerOverlay of a peer without a branch is an error nobody reads.
SetPeerOverlay(c) ==
  /\ At(c, "overlays")
  /\ IF op[c].todo = {} THEN Return(c) /\ UNCHANGED text
     ELSE \E p \in op[c].todo :
            /\ op' = [op EXCEPT ![c].todo = @ \ {p}]
            /\ text' = IF op[c].on THEN text \cup ({branch[p]} \ {None})
                       ELSE text \ {branch[p]}
  /\ UNCHANGED <<pipeline, room, overlapped>>

-----------------------------------------------------------------------------
Build(c) ==
  \/ BuildVideo(c) \/ VideoFails(c) \/ BuildOverlay(c) \/ OverlayFails(c)
  \/ BuildAudio(c) \/ BuildTee(c) \/ AudioFails(c) \/ RegisterBranch(c)
Connect(c) == ConnectFails(c) \/ Register(c)
Take(c) == Dispose(c) \/ ReleasePads(c) \/ RemoveElements(c) \/ DisposeStopped(c)
Overlay(c) == RefreshAllOverlays(c) \/ SetPeerOverlay(c)

Next == \E c \in Callers :
  \/ \E p \in Ids : AddPeer(c, p) \/ RemovePeer(c, p)
  \/ \E on \in BOOLEAN : SetShowNames(c, on)
  \/ Stop(c)
  \/ Build(c) \/ Connect(c) \/ Take(c) \/ Overlay(c)

Spec == Init /\ [][Next]_vars

-----------------------------------------------------------------------------
(* Properties                                                              *)

PCs == {"idle", "video", "overlay", "audio", "tee", "pumps", "connect", "dispose",
        "remove", "unlink", "stop", "refresh", "overlays"}

TypeOK ==
  /\ has \in [Branches -> SUBSET Parts]
  /\ owner \in [Branches -> Ids \cup {None}]
  /\ branch \in [Ids -> Branches \cup {None}]
  /\ text \subseteq Branches
  /\ stopped \in BOOLEAN /\ showNames \in BOOLEAN /\ overlapped \in BOOLEAN
  /\ members \subseteq Ids /\ names \subseteq Ids
  /\ op \in [Callers -> [pc : PCs, id : Ids \cup {None}, b : Branches \cup {None},
                         on : BOOLEAN, todo : SUBSET (Ids \cup Branches)]]

Held(c) == {op[c].b} \cup op[c].todo
Registered(b) == \E p \in Ids : branch[p] = b

\* Whatever fails and whatever overlaps, each bin, mixer pad, tee and pump in the
\* pipeline belongs to a registered branch or to a call that is building or
\* disposing of it.  Only overlays are ever left behind.
NothingLost ==
  \A b \in Branches :
    has[b] \subseteq {"overlay"} \/ Registered(b) \/ \E c \in Callers : b \in Held(c)

\* A branch is in one hand only: registered, being built, or being disposed of by
\* one of RemovePeer and Stop.  A pad released twice is an error of GStreamer.
OneHand ==
  \A b \in Branches :
    /\ Cardinality({c \in Callers : b \in Held(c)}) <= 1
    /\ Registered(b) => \A c \in Callers : b \notin Held(c)

AtRest == \A c \in Callers : At(c, "idle")

\* While calls follow one another, every WebRTC peer's name is shown exactly when
\* names are switched on, also for those who came, left and came back meanwhile.
NamesFollowSetting ==
  AtRest /\ ~overlapped =>
    \A p \in members \cap WebPeers : branch[p] # None => (branch[p] \in text <=> showNames)

\* The same whatever overlaps.
NamesFresh ==
  AtRest => \A p \in members \cap WebPeers :
    branch[p] # None => (branch[p] \in text <=> showNames)

\* The same for SIP peers.
SipNamesFollowSetting ==
  AtRest /\ ~overlapped =>
    \A p \in members \cap SipIds : branch[p] # None => (branch[p] \in text <=> showNames)

\* A failed AddPeer leaves nothing at all.
NothingLeft ==
  \A b \in Branches :
    has[b] = {} \/ Registered(b) \/ \E c \in Callers : b \in Held(c)

\* A pipeline that was stopped holds nothing but overlays.
StoppedIsEmpty == stopped /\ AtRest => \A b \in Branches : has[b] \subseteq {"overlay"}

=============================================================================
