# vks4: a TLA+ verification development

vks4 is an MCU video conference: browsers and telephones send RTP to a media
worker, which mixes them into one picture and one sound (or, in SFU mode,
forwards the packets), a signaling server connects browsers to the worker, a
control plane keeps users, rooms and recordings, a media router places rooms on
workers, and a SIP gateway brings in telephone calls. The services are written
in Go; the browser side is React. The repository has no tests of its own.

This directory holds TLA+ modules of the parts whose correctness depends on the
order in which things happen, configurations that model-check them with TLC,
and theorems about them checked by TLAPS. Paths below are relative to
`src/services/` unless they begin with `docs/` or `web/`; `worker` stands for
`media-worker/internal`.

## 1. Inventory

| Part | State | Operations | Talks to |
|---|---|---|---|
| Room (`worker/room/room.go`) | `peers`, `sipPeers`, `joinOrder`, `slots`, `mode`, `customCells`, `showNames`, `recID`, under one RWMutex | AddPeer, RemovePeer, AddSIPPeer, RemoveSIPPeer, AssignSlots, SetLayout, SetCustomLayout, SetShowNames, SetNameStyle, Start/StopRecording, Close; the goroutines asdLoop, egressLoop, notifyRosterAsync | its pipeline, the detector, peer connections, signaling |
| Registries (`worker/room/registry.go`, `worker/pipeline/pipeline.go`) | room id → room, room id → pipeline, each under its own lock | GetOrCreate, Get, Destroy | each other, the handlers |
| Pipeline (`worker/pipeline/pipeline_gst.go`) | a branch of elements and compositor and mixer pads per peer, placeholder pads per slot | AddPeer, RemovePeer, UpdateLayout, SetPeerOverlay, Start/StopRecording, Stop | GStreamer (external) |
| Detector (`worker/asd/asd.go`) | last level and its time per peer, current speaker, time of the last change | Push, Forget | asdLoop, RemovePeer |
| Layout engine (`worker/layout/layout.go`) | none | Compute | applyLayout |
| WebRTC and SIP peers (`worker/peer`, `worker/sipbridge`) | a PeerConnection and its closed flag, tracks per slot; two sockets, the addresses learned | New, Negotiate, onTrack, writes to slots, Close; the receive loops | pion (external), RTP |
| Signaling (`signaling/internal/session`, `ws`, `presence`, `mediarpc`) | hub: room → sessions; Redis hash of participants; per session: room, closed | join, offer, answer, leave, cleanup, broadcast of rosters | the worker over HTTP, browsers over WebSocket, Redis |
| Control plane (`control-plane/internal/usecase`) | Postgres tables of users, rooms, recordings, refresh tokens; aliases of rooms in Redis | rooms, layouts, slots, kick, recordings, login and refresh | the worker over HTTP, signaling |
| Media router (`media-router/internal`) | Redis: heartbeats of workers, room → worker | Pick | workers' heartbeats |
| SIP gateway (`sip-gateway/internal`) | calls by Call-ID with four sockets and up to six goroutines each, ESL connection | INVITE, BYE, CANCEL; relays, natBind | the worker over HTTP and RTP, terminals, FreeSWITCH |
| Browser (`web/admin`) | the roster it shows, its peer connection | join, offer, reconnect | signaling, the control plane |

What is hard in it:

* **Overlapping handlers.** Every HTTP request and every WebSocket session is a
  goroutine. Most operations drop their lock around a call into the pipeline or
  another service and take it again: AddPeer (`room.go:171`, `:189`),
  applyLayout (`:534`, `:576`), registry.Destroy (`registry.go:85`), Kick
  (`rooms.go:211`, `:215`).
* **Partial failure.** AddPeer undoes a branch when Negotiate fails, and a
  branch half built when GStreamer refuses a step; cleanup of a session drops
  the errors of both of its calls; an alias is written in two commands around a
  row; an HTTP call may time out in the client and complete in the server.
* **Use after unlock.** The media path reads slots and connections under the
  room's lock and writes to them without it, while three callers close them.
* **Calls.** A SIP call has an INVITE, a worker peer and goroutines that come to
  life one after the other, and a BYE or CANCEL may arrive between any two.
* **Order.** Rosters are fetched and delivered without anything that orders two
  broadcasts; queued audio levels arrive after their peer has left.
* **Boundaries.** 20 slots; the detector's window, decay, threshold and
  hysteresis; grids that are not full; pads that keep the place of an earlier
  layout.

What makes each part correct is stated in its module and summarised in section
3. `PROJECT.json` lists each hazard at its line.

## 2. Modules

    Room  --implements-->  Conference          RoomProofs
    RoomRegistry                               WorkerProofs
    MediaPath                                  MediaPathProofs
    PeerBranch                                 PeerBranchProofs
    Compositor --extends--> Layout             WorkerProofs
    Asd                                        WorkerProofs
    Signaling                                  SignalingProofs
    SipCall                                    SipCallProofs
    Rooms                                      RoomsProofs
    Recording                                  RecordingProofs

Each component's module has `CONSTANTS` with named assumptions, one action per
step of the code, its properties at the end; `MC*` adds the values TLC needs,
`*Proofs` the theorems. A definition whose name ends in `_bug` is a plausible
slip (a dropped guard, a missing reset); no action uses it, and putting it in
the place of the definition it varies must make TLC refute the property that
guards against it.

**Room** models one room of the worker in either mode. A step is what one
goroutine does under one acquisition of the lock, or one call into pipeline,
detector or connection; `op[c]` is the program counter of goroutine `c` with the
id it works on and, for applyLayout, the snapshot it has read. `peers`,
`sipPeers`, `joinOrder`, `slots` and `mode` are the fields of the same names
(`mode` stands for the custom cells as well), `branches` the keys of the
pipeline's peer map, `leaked` the ids whose PeerConnection or sockets were
overwritten by a second registration, `kicked` the telephones that RemovePeer has
taken out of join order and slots and that stay in `sipPeers` (a history, which no
guard reads), `speaker` and `heard` the detector's `current` and the keys of its
levels, `queued` the peers with a level in `asdCh`, and `applied` what the
last UpdateLayout was computed from.

| Code | Actions |
|---|---|
| AddPeer `room.go:151` | AddPeer (check for the id), AddBranch or AddBranchFails, NegotiateFails or Register, ReadView, UpdateLayout |
| RemovePeer `:482`, of a browser when it leaves, of anybody when the operator kicks (`rooms.go:211`, `web/admin/src/pages/rooms/RoomDetail.tsx:55`) | RemovePeer (map, join order and slots under the lock), ForgetPeer, DisposeBranch, ReadView, UpdateLayout |
| AddSIPPeer `:292`, RemoveSIPPeer `:374` | AddSIPPeer, SocketsFail or RegisterSIP; RemoveSIPPeer, DisposeBranch; layout |
| AssignSlots `:421`, SetLayout `:506`, SetCustomLayout `:520` | AssignSlots, SetLayout; layout |
| onVADSample, asdLoop `:739` | VadSample, PushLevel |

Three constants restrict the environment. `Serial`: no two calls about one id
overlap, but for AddPeers of one browser in MCU mode, where the pipeline lets one
through. For browsers this holds as far as signaling waits for the worker (one
goroutine per session, one id per session); a timed-out AddPeer or a kick breaks
it, which is why it is a parameter and not part of the model. `KnownOnly`: the
operator assigns slots only to peers that are in the room, as the operator's
page offers them. `Voices`: whose levels reach the detector, to keep the instance
small.

**Conference** is what a room promises: people join and leave; whoever is
present has at most one seat; a newcomer gets a free seat when there is one; a
seat changes hands only when its holder leaves or the operator moves people. A
kick is a departure: a kicked telephone is not a member, whatever is left of it.
`Room!ImplementsConference` is the refinement.

**RoomRegistry** models the two registries for one room id, over numbered
generations of rooms and pipelines, with GetOrCreate's double look-up, Destroy
with the steps of Room.Close, and handlers that still use a room they looked up:
`conns` and `sockets` are who is connected in each room, `stuck` the rooms whose
lock an AddPeer after Close kept when it panicked.

**Signaling** models the sessions of one room: the hub, the Redis list, the
worker as a set of peers, and the roster each browser shows. A session's program
counter follows Session.Run: onJoin (Join, Announce), onOffer (Offer, Answer,
then the broadcast FetchRoster, Targets, Write), cleanup (RemovePeer, Unlist,
LeaveHub, then a broadcast). `slips` records the sessions one of whose calls
failed or timed out; with `Contents` FALSE rosters are all alike, for runs that
do not ask what they say. AddPeer in the worker is a step of its own, so that
the client can give up before the worker does. Telephones come and go in the worker (SipEnters, SipLeaves), which writes them
into the same Redis list. The operator's Kick of a listed browser or telephone is
two steps (worker, then Redis) and the worker's roster posts are goroutines of
their own.

**Asd** models the detector with real time: a tick is 400 ms, so that the
hysteresis is 2 ticks and the window 5; the level decays per tick as in
effectiveLevel, and Push follows the code's loop, threshold and hysteresis.

**Layout** translates layout.Compute as operators; **Compositor** runs it: whole
calls as steps, `pads` and `placeholders` with the places the compositor pads
have, applyLayout's custom, VAD and slot cells, and UpdateLayout, which hides
the placeholders first and leaves the pad of a participant without a cell where
it was.

**MediaPath** is the room seen from its packets. A WebRTC peer has a connection
(`pc`), the closed flag (`marked`) that Peer.Close sets under the peer's mutex
before it calls pion without it (`closing`), and three goroutines that onTrack
starts; a SIP peer has its receiver, its mixer and its Opus reader. A goroutine
that forwards a packet holds it (`held`) from forwardAudio's or forwardVideo's
RLock until it has written to the last connection it saw there, one write per
step, while others join, leave, are kicked, are closed or take slots. `stage[p]`
says where the calls about p stand: "kicked" is a telephone whose slot and branch
RemovePeer took while its sockets stay open, "unbuilt" an AddPeer for which
peer.New gave up and left its connection open (`peer.go:95`), "lost" one that
Room.Close overtook. Room.Close is Close, TakePeers, CloseTaken per connection,
StopPipeline. `Spec` is the room left
alone by the operator, `ReseatedSpec` adds AssignSlots.

**PeerBranch** builds one peer's part of the GStreamer pipeline step by step:
AddPeer's video bin, text overlay, audio bin, tee and pumps (`has`), each of
which may fail; what each error path takes back; RemovePeer, which takes the
branch out of the map under the lock and disposes of it outside; Stop. On top are
the room's calls that use it, as far as they set name overlays: AddPeer's
SetPeerOverlay with the `showNames` it read before, AddSIPPeer, SetShowNames
and refreshAllOverlays.

**SipCall** follows a SIP call through two services. `pc[h]` is where onInvite
stands in handler `h` (OpenAudio, OpenVideo, Post, OpenWorkerAudio,
OpenWorkerVideo, Register, Accept, Answer, or GiveUp), `bye[h]` where cleanup of
its call stands (Hangup, CloseCall, SendDelete, Release). In the worker `posts`
and `deletes` are requests under way, `peer` the SIP peers and `branched` those that
have a branch in the pipeline, so that a POST may time out in the gateway and
complete in the worker. The operator's Kick takes the branch and leaves the peer,
after which the worker accepts a POST of that Call-ID again. The relays and natBind loops
are goroutines (`loops`) that end when their socket or their stop channel is
closed, and `learned` is what their packets taught the worker. Three
histories, which no guard reads, name what the code gets wrong: `taken` are Call-IDs
whose peer a kick or a destroyed room took away, `stray` those whose worker peer was
made after the gateway gave up, or not deleted, `early` the INVITEs that were
hung up before they were registered.

**Rooms** is what the control plane writes about a room: its row in Postgres
(`name`, `stored` for default_layout), its alias in Redis, and the layout the
worker shows. Create, Update and Delete are one step per statement or command
(Create, SetAlias; Rename, DropAlias, SetAlias, RenameRow; Delete, DeleteRow,
DeleteAlias, DestroyRoom), UpdateLayout a write to the row and a push to the
worker, and every poll of the operator's page a goroutine that reads the row and
pushes what it read (Poll, PushPolled). The worker's room comes with a grid and
goes with a restart. `tangled` records rooms whose own requests overlapped or
failed or that shared a name; no guard reads it.

**Recording** joins two services: the rows of one room in Postgres (`status`,
`hasUrl`), and in the worker `Room.recording` and the pipeline's `recRunning`.
`op[c]` is a request of the control plane, `work[c]` the worker's handler that
serves it, which a timed-out request leaves behind. Each statement to Postgres is
a step, and so is each acquisition of the Room's lock: Room.StartRecording
(`room.go:797`) is CheckRecording, OpenValves, SetRecording, since it unlocks
around the pipeline's part; Room.StopRecording holds the lock throughout. The
history variables `alone` and `disturbed` say which requests ran without
another and whether anything ever overlapped or failed; no guard reads them.

## 3. Runs

Each run answers one question; the states are distinct states found by TLC.

| Run | Question | Bounds | Properties | States |
|---|---|---|---|---|
| room_calls | Do slots, join order, connections and pipeline stay consistent when calls overlap and fail and the operator kicks, in both modes? | 2 browsers, 1 SIP id, 2 slots, 2 handlers, 1 voice, 1 queued level | OneSlotPerPeer, JoinedOnce, NoGhost, NoLeakedConnection, SlotKept, ImplementsConference | 150 700 |
| registry_rooms | Do the registries keep track of every open room and running pipeline? | 3 handlers, 2 generations | OneOpenRoom, NoOrphanPipeline, ConnectionsInReach | 191 164 |
| registry_destroy_race | Does a registered room always have a running pipeline? **No** | the same | LiveRoomRuns | |
| media_path | Do packets reach the right track, and is every connection closed once and by somebody, but for the two ways the code loses one, whoever leaves and whatever closes? | 2 browsers, 1 SIP peer, 3 slots, 1 packet in flight, both modes | NoForeignVoice, EveryoneAudible, NoWriteAfterClose, ClosedOnce, ConnectionsOwned | 1 516 546 |
| branch_build | What is left of a branch when a step of AddPeer fails or RemovePeer and Stop overlap, and do names show as set? | 1 browser, 2 SIP ids with one sanitized name, 3 branches, 2 callers | TypeOK, NothingLost, OneHand, NamesFollowSetting | 2 021 482 |
| layout_drawn | Is everybody drawn, nobody hidden, and, while cells show slots, no placeholder beside or over its slot's participant? | 5 ids, 2 slots, 4 modes and 3 custom layouts, one with a VAD cell and one with a pinned participant | PictureTypeOK, EveryoneDrawn, SpeakerIsLarge, PlaceholderCovered | 133 890 |
| asd_talker | Does whoever goes on talking louder become the speaker? | 2 peers, 3 volumes | SpeakerIsHeard, ChosenWasJustHeard, TalkerWins | 32 496 |
| signaling_sessions | Does cleanup leave anything behind, can every session present be reached, and does a broken session end, whatever fails? | 2 sessions, 1 telephone, 1 post, faults, timeouts, kicks of one session and the telephone | NothingLeftBehind, PresentAreReachable, ClosedSessionsEnd | 573 688 |
| signaling_stale_roster | Do clients end with the worker's slot table? **No** | 3 sessions | RosterFresh | |
| sip_calls | Does every socket, goroutine and worker peer of a call belong to somebody who will end it, and does the conference arrive? | 2 INVITEs of 1 call, faults, timeouts, loss of the room, kicks | SocketsOwned, NoOrphanPeer, AnsweredIsConnected, ClosedOnce, HangupCompletes, ConferenceArrives | 129 140 |
| rooms_requests | Does a room's alias follow its name, and does its layout come back? | 2 rooms, 3 names of which 2 share a key, 2 requests, 2 layouts, faults | NamesResolve, LayoutReturns | 800 211 |
| recording_calls | Do rows, Room and pipeline agree, and can what was started be stopped? | 3 requests, 2 rows, faults, timeouts, restarts, deletions | ValvesCanBeClosed, StopMeansStopped, RowsMatchWorker | 212 392 |

The type invariant of a module is a theorem where there is one (section 4) and
not run as well; those of PeerBranch and Compositor are part of their runs, that
of MediaPath of `Media_leavers.cfg`.

*Why the bounds are enough.* Two handlers overlap in every pair of steps, and
where a third can interfere with both (registries, recordings) there are three.
With three ids over two slots the table is full, overflows and is refilled,
which the 20 of the code do in the same way since no code looks at the number; three
handlers were checked as well (603 446 states). `Voices` has the telephone only,
since no property of the run is about who is heard;
MediaPath has a slot for each, as EveryoneAudible asks. Two sessions overlap in
every pair of steps of join, offer, cleanup and kick, of which it is enough that one
of them can be kicked; a third is needed only for a roster that is overtaken. One queued level (`AsdQueue`) is enough for one
whose sender leaves before it is pushed, and one packet in flight (`InFlight`)
for one whose reader, slot or receiver goes away, since two packets share
nothing. Five ids give grids of 1×1 to 3×2, full and not; `Bounded` in
MCCompositor keeps the operator's layouts, pip and every order of joining to
rooms of three and takes larger rooms in the order of their ids. Two SIP ids
with one sanitized name, next to a browser, are what can collide in the pipeline.
Two INVITEs of one Call-ID are a call and its retry or re-INVITE, and calls of
different ids share nothing but the map; with three INVITEs TLC found no violation
of the inductive invariant of SipCallProofs in 10.8 million states, where it was
stopped. Two requests about two rooms overlap in
every pair of steps; the run has one layout with cells, and LayoutReturns was also
checked with two of them, one room and two names (11 905 states), so that a poll
brings an older layout over a newer one; `Untangled` in MCRooms stops where both rooms are tangled,
since NamesResolve says nothing from there on. The detector's state depends on
differences of times up to its window, and ages are capped there; three people
with two volumes were checked as well (439 182 states). The registries were
also checked with three generations (8 298 964 states). Two rows are a
current recording and an earlier or a competing one, and three requests let a
start be overtaken by a stop that another start made possible.

*Deadlock* is checked everywhere except where the system may really stop: in
signaling_sessions all browsers may have left for good, in sip_calls every
INVITE may have been refused or hung up, in media_path everybody may have left a
closed room.

*Fairness.* Signaling: weak fairness of each session's handler and of each
broadcast. Every call they wait for ends, since the HTTP client of AddPeer has
a timeout of 15 s (`signaling/internal/mediarpc/http.go:25`), the worker's
notifier one of 3 s, and a WebSocket write one of 5 s, and the Go scheduler runs
every goroutine. SipCall: weak fairness of onInvite, cleanup and the worker's
handlers (the HTTP client has a timeout of 5 s, `server.go:27`) and of each
natBind loop, which sends a packet every 200 ms as long as the call lasts, so
that of those that are lost or early some arrive. MediaPath: weak fairness of
handlers, of closing and of the writes and exits of goroutines, none of which
waits for a packet or a person; media owe nothing. Rooms: weak fairness of
requests and polls, and strong fairness of the polls' pushes, since the page
polls every 2 s for as long as it is open and each poll is a new request that
may get through. Asd: time passes as long as somebody sounds, however often people
come and go (infinitely many Ticks), and weak fairness of the pushes of somebody
who goes on talking (frames come more often than a tick).
Browsers, telephones and operators owe nothing anywhere.

## 4. Proofs

TLAPS proves, for every value of the constants that their assumptions allow:

* **RoomProofs.** TypeOK from the module's assumption alone. OneSlotPerPeer,
  JoinedOnce, NoGhost, NoLeakedConnection under `Serial` and
  `KnownOnly`; SlotKept and the refinement of Conference. The invariant has to
  say where each id is at every program counter: an id under way in AddPeer is
  in no structure but, between AddBranch and Register, in `branches`; an id
  under way in RemovePeer is only in `branches`; and by `Serial` at most one
  handler is about it, or several AddPeers of which the branch has let one through.
  From that NoGhost is the case of no handler; a kicked telephone is in `sipPeers`
  and nowhere else, or in SFU mode also in `branches`. The
  refinement needs it too: Register is a Join of Conference only because a busy
  id is not yet a member. The facts about sequences (what RemoveFirst and Append
  do to injective sequences) come first.
* **WorkerProofs, registries.** OneOpenRoom, NoOrphanPipeline, ConnectionsInReach. The
  invariant accounts for each open room (registered, or held by a Destroy that
  has not closed it) and each running pipeline (in its registry, or held by a
  Destroy that is about to stop it); connections are registered only in rooms that
  are not closed (OpenRoomsOnly).
* **SignalingProofs.** NothingLeftBehind and PresentAreReachable with whatever
  faults, timeouts and kicks, for sessions none of whose own calls failed. The invariant lists, for each place of a session none of
  whose calls failed, which of hub, presence, worker and pending requests may
  contain it.
* **SipCallProofs.** SocketsOwned, NoOrphanPeer, AnsweredIsConnected and
  ClosedOnce for any number of calls and INVITEs, with every fault, kicks and
  destroyed rooms. Nothing in the code says that a Call-ID has one call: Register
  overwrites what is there. The invariant is that there is nothing to overwrite as
  long as nobody takes the worker's branch away. A Call-ID that is not `taken` has
  at most one *owner* of its worker peer, a handler between POST and answer, an
  answered call, or a cleanup whose DELETE is still to arrive (Owners); a peer that
  is not `stray` has such an owner (Owned); the worker refuses a POST while there is
  one; and a registered call is answered or about to be and not hung up
  (Registered, HungUp). Sockets are open only where onInvite or cleanup will still
  see them (NoSockets). What the three properties except, by `taken`, `stray` and
  `early`, the code does lose; section 5 says how.
* **RoomsProofs.** NamesResolve for any number of rooms, names and requests. A
  room that is not tangled has one request at a time and shares no key with what
  another room has, gets or loses (Claims), so each place of a request says which
  keys lead to its room (Stage): its old name's, none, its new name's.
* **WorkerProofs, detector.** SpeakerIsHeard, and ChosenWasJustHeard: a new
  speaker's level has decayed by less than the distance from the threshold to full
  scale. (Registries, detector and picture share no state and no name, so that one
  module can extend all three; hence DetectorSpec, PictureSpec, Talkers.)
* **WorkerProofs, picture.** The types, EveryoneDrawn, SpeakerIsLarge and
  PlaceholderCovered for any number of people and slots and any size of the canvas.
  Each call draws the picture anew from the cells of what the Room then knows
  (RoomStep), so the work is about Compute: every person gets exactly one cell, each
  cell is on the canvas and not empty, and no two overlap (Complete), mode by mode. A
  list sorted by rank has each person once (by pigeonhole, since the ranks of n people
  are 1 to n); the rows and columns of a grid, cut by integer division with what is
  left over as a border, fit and keep apart (FrameFits, FramesApart). EveryoneDrawn
  and SpeakerIsLarge assume PixelsForAll, a pixel for each person in each direction
  and a canvas of at least 4 x 5: beyond that division gives empty frames. The code
  draws on 1280 x 720 and nothing bounds the number of people. PlaceholderCovered
  is proved for any layouts, and says something of those pictures whose cells all show
  their slots (CellsShowSlots): a pinned cell, or a VAD cell while somebody speaks,
  takes a holder's pad away from the slot's (PlaceholderHides, section 5). What was
  drawn before may be of any kind, since UpdateLayout hides every placeholder and
  places every named pad anew. It needs that nobody holds two slots and that holders
  are in the room (Seated).
* **MediaPathProofs.** For any number of browsers, telephones, goroutines and
  connections. NoWriteAfterClose, ClosedOnce and ConnectionsOwned follow from
  ConnInv. A connection that is marked closed is being closed by exactly one caller,
  the one that set the flag, or closed already (MarkedOnce); nothing that is
  registered, being closed or written to is without a connection (Referenced).
  ConnectionsOwned has no assumption: Room.Close has connections to close only after
  it took them (ClosingOrder), and the only open connections in nobody's hands are
  those of the stages "unbuilt" and "lost" (Media_late_add, section 5). NoForeignVoice
  and
  EveryoneAudible follow from SlotInv, while the operator does not move people: who is
  not registered yet has no slot and nothing of it is under way (Newcomers), nobody
  has two slots (OneSlotEach), and a packet is held for a slot that exists
  (HeldInSlot); so the slot a packet was read for is still its sender's, or its sender
  has left.
  The participants are finitely many, which the lowest free slot and the count of
  slots need.
* **PeerBranchProofs.** TypeOK, NothingLost, OneHand and NamesFollowSetting for any
  number of ids, branches and goroutines, with a Stop at any time and whatever
  sanitizeName makes of the ids. Nothing in AddPeer prevents the second of two
  overlapping calls for one id from overwriting the branch of the first: the argument
  is that it fails before, because the text overlay of the first has its name (OneName:
  no two overlays in the pipeline have one name; a branch keeps its overlay from the
  second step of AddPeer to the last of RemovePeer). So RegisterBranch finds no branch
  registered, and each branch is registered or held by one call (Whole, Apart,
  Progress). StepKept is the one lemma about this, and each action has to show only
  what it takes and gives. For the names, the invariant is that a browser's name is
  shown as the setting says or is still in the list of the one call about names
  (NamesInv).
* **RecordingProofs.** ValvesCanBeClosed and StopMeansStopped with every fault,
  timeout, restart and deletion. A stop finds closed valves behind a Room that
  does not record only because nobody else is between opening the valves and
  telling the Room, so the invariant says what a request that is alone may have
  left in the worker. RowsMatchWorker: until something is disturbed at most one request
  is under way (InTurn), and at each of its places the row it is about is the only one
  that runs, while room and valves are where that place left them (UnderWay).

TypeOK is proved in each of these modules.

Only model-checked: liveness (TalkerWins, ClosedSessionsEnd, ConferenceArrives,
HangupCompletes, LayoutReturns), which is out of the prover's reach. Layout sorts by
rank instead of the library's SortSeq and Compositor filters with RemoveFirst,
because recursive operators are opaque to the prover.

## 5. Disagreements between code and docs

Two have a run: registry_destroy_race, signaling_stale_roster. The others have a
configuration to run by hand, and TLC refutes the property:

| Configuration (module) | What happens | Against |
|---|---|---|
| Room_stale_layout (MCRoom) | FreshLayout: two applyLayout read and apply in opposite orders (`room.go:534`), and the older picture stays | `room.go:419`, "После переназначения вызывает applyLayout" |
| Room_second_add (MCRoom) | NoLeakedConnection: two overlapping AddPeer of one id both pass the check (`:155`) and the second overwrites the first (`:190`) | `:155`, "peer exists" |
| Room_early_assign (MCRoom) | OneSlotPerPeer: a peer assigned to a slot before it registers takes another one as well (`:201`) | `worker/peer/peer.go:31` |
| Room_sip_speaker (MCRoom) | SpeakerPresent: a level that was queued when its sender failed or left is pushed afterwards (`pipeline_gst.go:722`), and RemoveSIPPeer does not tell the detector at all (`:374`), so a "speaker" cell resolves to somebody who is not there | `:580` |
| Media_reseat (MCMediaPath) | TrackTellsSpeaker: after AssignSlots a packet read before arrives in the track of the seat its sender had (`room.go:684`) | `worker/peer/peer.go:31` |
| Media_late_add (MCMediaPath) | NoneLost: an AddPeer under way during Room.Close writes to a nil map (`room.go:190`), panics with the room locked and leaves its connection open; so does a failure inside peer.New (`peer.go:95` to `:137`) | `room.go:826` |
| Media_sip_sockets (MCMediaPath) | SipSocketsClosed: Room.Close closes the browsers' connections only (`room.go:826`); a SIP peer's sockets and receivers stay | the same |
| Branch_overlap (MCPeerBranch) | NamesFresh: AddPeer sets a new overlay from a `showNames` it read before SetShowNames (`room.go:215`), and the name stays as it was | `room.go:394` |
| Branch_sip_name (MCPeerBranch) | SipNamesFollowSetting: AddSIPPeer sets no overlay, so a telephone's name appears only with the next SetShowNames | the same |
| Branch_residue (MCPeerBranch) | NothingLeft: from the audio bin on, the error paths of AddPeer forget the text overlay (`pipeline_gst.go:417`), whose name makes every later AddPeer of that id fail | `:421`, which removes the video bin |
| Signaling_early_kick, Signaling_late_peer (MCSignaling) | ParticipantsAreListed: a kick between join and offer, or an AddPeer that completes after its client gave up, leaves somebody in the worker whom the operator's list lacks | `RoomControl.tsx:19`, "roster (реально подключенные peer'ы)" |
| Rooms_dialled (MCRooms) | DialledAsWritten: aliases are written in lower case (`redisrepo/aliases.go:18`) and the worker looks the dialled name up as it is (`worker/httpapi/handlers.go:65`); a room whose name has a capital cannot be called | `rooms.go:99`, "терминал звонит на room1@host" |
| Rooms_grid (MCRooms) | EveryLayoutReturns: Participants pushes only layouts with cells (`rooms.go:181`); another mode than grid is lost with the worker's restart | `rooms.go:174`, "раскладка пропадает" |
| Layout_vad (MCCompositor) | VadCellShowsSpeaker: the speaker's own cell comes after the VAD cell and wins (`room.go:559`) | `domain/models.go:76`, "текущий активный спикер автоматически замещает peer'а" |
| Recording_stale_start (MCRecording) | StartMeansRecording: a start that was about to set `Room.recording` (`room.go:809`) does so after a stop closed the valves; from then on every start answers at once and nothing is recorded until somebody stops | `room.go:798`, "if r.recording" |

More of the kind, with the property in the module and a run's configuration to
change. Those that state without exception what a run's property excepts:
Room!KickedIsGone in `Room_calls.cfg` (the operator's kick of a telephone,
`web/admin/src/pages/rooms/RoomDetail.tsx:55`, runs RemovePeer, which knows browsers only, `room.go:482`: entry,
sockets and in SFU mode the branch stay until the gateway removes them);
SipCall!SocketsReached in `Sip_calls.cfg` (after such a kick a re-INVITE gets a new
peer and overwrites the first call, `server.go:244`, whose sockets nobody closes) and
SipCall!HangupHeard there (a CANCEL before Register finds no call, `server.go:304`, and
the INVITE is answered after it); RoomRegistry!SocketsInReach and NobodyStuck in
`Registry_rooms.cfg` (Room.Close forgets telephones and an AddSIPPeer after it adds
one; an AddPeer after it keeps the lock); Compositor!PlaceholderHides in
`Layout_drawn.cfg` (a cell that shows somebody else keeps its slot, `room.go:559`,
so the "No user" of a slot that is taken comes out beside its holder's pad, against
`pipeline_gst.go`'s "placeholder автоматически скрывается, когда реальный peer
есть"). Others: Asd!ChosenWithinOneSecond (`docs/MEDIA_PIPELINE.md:38`, "Окно: 1
секунда.", `asd.go:66` has two) as a property of `Asd_talker.cfg`;
Compositor!EmptySlotShown (a pad without a cell covers the placeholder,
`pipeline_gst.go:936`) with `CustomLayouts <- Sparse`, SpeakerIsMain (when the
speaker joined second, pip draws it in the corner, `layout.go:133`) and NoTies
(pads that kept their place overlap others at the same z-order,
`pipeline_gst.go:926`) in `Layout_drawn.cfg`; Recording!FinishedKeepsFile (of two
overlapping stops the second overwrites `url` with "", `usecase/recordings.go:51`)
in `Recording_calls.cfg`; Signaling!RosterFresh with `MaxReseats = 1` in place of
overlapping sessions (the "slots" event of AssignSlots, `rooms.go:206`, has no
handler in `Room.tsx:156`); PeerBranch!StoppedIsEmpty with `LateAdds = TRUE` (a
branch that Stop overtakes is registered in a stopped pipeline,
`pipeline_gst.go:607`). `Media_leavers` holds: a departed browser's connection is
closed and its goroutines end, and Room.Close ends those of the mix.

Seen while modelling, and part of the models:

* SipCall: a CANCEL that comes before the call is registered, or a BYE that is
  lost, leaves a call with nothing to end it (there is no session timer); a
  DELETE that fails, or a worker socket that cannot be opened after the POST
  (`server.go:211`), leaves a participant without a telephone in the conference;
  a CANCEL between Register and Accept leaves an entry in `/calls`, which
  HangupCompletes excepts.
* natBind does not stop when media flow, as its comment says
  (`server.go:490`), but with the call; HangupCompletes depends on that.
* MediaPath: a peer whose ICE failed stays in the room (`peer.go:149`) until it
  is removed; a SIP peer's mixer and Opus goroutines end with the room, not with
  the peer; in SFU mode only slot 0's video is seen (one video track); a SIP
  peer is muted in the mix the telephones get (`room.go:302`) and its Opus goes to
  browsers only, so that two SIP peers do not hear each other.
* Room: a 21st participant takes part without a slot and nobody hears it.
* Rooms: renaming a room that was deleted leaves an alias to nothing; deleting
  one of two rooms with one name takes the other's alias; a layout pushed by a
  poll may be older than the one just set, until the next poll.
* Recording: after a restart of the worker Start returns the old running row
  without asking the worker (`usecase/recordings.go:25`), until somebody stops
  it; deleting a running row leaves the worker recording, with nothing for Stop
  to find.

Outside the models: every recording of a room has the same file path `<id>.mp4`
(`room.go:803`); the hysteresis is 800 ms where `docs/MEDIA_PIPELINE.md` says 300
ms; the active-speaker event of the signaling docs is never emitted; `locked`,
`waitingRoom` and `maxParticipants` of a room are enforced nowhere; the worker
looks the alias up again when a call ends (`worker/httpapi/handlers.go:185`), so
that a rename during the call sends its DELETE elsewhere; the operator's page
sends the whole layout it has for every toggle, which undoes another operator's
change.

## 6. What is not modelled

* Codecs, RTP packets and GStreamer's inside; pion's ICE and DTLS: external, and
  no property here is about what they carry.
* The media router: no service asks it for a worker. Signaling, control plane and
  SIP gateway have one worker's address in their configuration, and the control
  plane drops the router's (`control-plane/internal/app/app.go:77`,
  "зарезервировано"). The worker's heartbeat goes nowhere else.
* Authentication: rotation of refresh tokens reads and writes one table without a
  transaction (`usecase/auth.go:79`, listed as a hazard); it touches nothing else
  here.
* Users, layout templates, the audit log and queries: one statement per request.
* SetNameStyle, SetLocked, chat, control messages, trickle candidates: they change
  how something looks, or nothing that any service reads.
* A second look-up of an alias when a SIP call ends: SipCall and Rooms are not
  composed.
* FreeSWITCH's event socket, parsing of tokens, SDP and messages, start-up,
  configuration, deployment and the load tester.
