----------------------------- MODULE Compositor -----------------------------
(***************************************************************************)
(* What a room's compositor draws: the layout engine, Room.applyLayout and *)
(* gstPipeline.UpdateLayout.  A participant of the room has a pad of its   *)
(* own; a pad keeps its place until a cell names its participant, so that  *)
(* the picture depends on the layouts of the past.  Every slot has a       *)
(* placeholder pad ("No user"), hidden unless a cell shows it.             *)
(*                                                                         *)
(* One call is one step: how the calls of several handlers overlap is the  *)
(* subject of module Room.  Ids are integers, in the order of the strings. *)
(***************************************************************************)
EXTENDS Layout

CONSTANTS
  Ids,            \* of the participants
  SipIds,         \* those of SIP calls
  SlotCount,      \* 20 in the code
  Modes,          \* algorithmic modes the operator chooses from
  CustomLayouts   \* the operator's custom layouts, sequences of cells

\* A cell of a custom layout: its id is "slot" with a slot's number, "speaker",
\* or "peer" with a participant's id.
OperatorCells ==
  [id : [kind : {"slot", "speaker", "peer"}, value : Nat],
   x : Int, y : Int, w : Int, h : Int, z : Int, vad : BOOLEAN]

ASSUME CompositorAssumption ==
  /\ SlotCount \in Nat /\ Ids \subseteq Nat /\ SipIds \subseteq Ids /\ Nobody \notin Ids
  /\ "custom" \notin Modes
  /\ CustomLayouts \subseteq Seq(OperatorCells) \ {<<>>}

Slots == 0 .. SlotCount - 1

VARIABLES
  order,         \* r.joinOrder
  slots,         \* r.slots
  mode,          \* r.mode
  customCells,   \* r.customCells
  speaker,       \* det.current
  pads,          \* place of each participant's compositor pad
  placeholders   \* place of each slot's placeholder pad

picture == <<order, slots, mode, customCells, speaker, pads, placeholders>>

Here == ToSet(order)

Place(c) == [x |-> c.x, y |-> c.y, w |-> c.w, h |-> c.h, z |-> c.z]
Hidden == [x |-> -9999, y |-> -9999, w |-> 1, h |-> 1, z |-> 0]
\* The pad of a new branch, until the first layout that has a cell for it.
FirstPlace == [x |-> 0, y |-> 0, w |-> Width \div 2, h |-> Height \div 2, z |-> 0]

PictureInit ==
  /\ order = <<>>
  /\ slots = [i \in Slots |-> Nobody]
  /\ mode = "grid" /\ customCells = <<>>
  /\ speaker = Nobody
  /\ pads = <<>>
  /\ placeholders = [i \in Slots |-> Hidden]

-----------------------------------------------------------------------------
(* applyLayout, in the state the call leaves behind                        *)

\* resolveCellID
Resolve(id, sl, spk) ==
  CASE id.kind = "speaker" -> spk
    [] id.kind = "slot" -> IF id.value \in Slots THEN sl[id.value] ELSE Nobody
    [] id.kind = "peer" -> id.value

CustomCell(c, sl, spk) ==
  [peer |-> IF c.vad /\ spk # Nobody THEN spk ELSE Resolve(c.id, sl, spk),
   slot |-> IF c.id.kind = "slot" /\ c.id.value \in Slots THEN c.id.value ELSE NoSlot,
   x |-> c.x, y |-> c.y, w |-> c.w, h |-> c.h, z |-> c.z]

Cells ==
  IF mode' = "custom" /\ customCells' # <<>>
  THEN [i \in 1 .. Len(customCells') |-> CustomCell(customCells'[i], slots', speaker')]
  ELSE Compute(mode', speaker', order')

\* The last of the cells numbered in named places a pad; without one, Else.
LastPlace(cells, named, Else) ==
  IF named = {} THEN Else
  ELSE Place(cells[CHOOSE i \in named : \A j \in named : j <= i])

CellsOf(cells, p) == {i \in 1 .. Len(cells) : cells[i].peer = p}
CellsOfSlot(cells, n) == {i \in 1 .. Len(cells) : cells[i].slot = n}

\* Where a pad is before cells place it: a new branch has the first place.
Before(p) == IF p \in DOMAIN pads THEN pads[p] ELSE FirstPlace

UpdateLayout_pad_bug(cells) ==
  /\ pads' = [p \in ToSet(order') \cup DOMAIN pads |->
                LastPlace(cells, CellsOf(cells, p), Before(p))]
  /\ placeholders' = [i \in Slots |-> LastPlace(cells, CellsOfSlot(cells, i), Hidden)]

UpdateLayout_hide_bug(cells) ==
  /\ pads' = [p \in ToSet(order') |-> LastPlace(cells, CellsOf(cells, p), Before(p))]
  /\ placeholders' =
       [i \in Slots |-> LastPlace(cells, CellsOfSlot(cells, i), placeholders[i])]

\* Placeholders are hidden first; pads of participants stay unless placed.
UpdateLayout(cells) ==
  /\ pads' = [p \in ToSet(order') |-> LastPlace(cells, CellsOf(cells, p), Before(p))]
  /\ placeholders' = [i \in Slots |-> LastPlace(cells, CellsOfSlot(cells, i), Hidden)]

-----------------------------------------------------------------------------
(* The calls that end in applyLayout                                       *)

FreeSlots == {i \in Slots : slots[i] = Nobody}

\* AddPeer, AddSIPPeer: the first free slot, if there is one.
Enter(p) ==
  /\ p \notin Here
  /\ order' = Append(order, p)
  /\ slots' = IF FreeSlots = {} THEN slots
              ELSE [slots EXCEPT ![CHOOSE i \in FreeSlots : \A j \in FreeSlots : i <= j] = p]
  /\ UNCHANGED <<mode, customCells, speaker>>
  /\ UpdateLayout(Cells)

\* RemovePeer, which tells the detector and which a kick calls for telephones too,
\* and RemoveSIPPeer, which does not (removeID).
Exit(p) ==
  /\ p \in Here
  /\ order' = RemoveFirst(order, p)
  /\ slots' = [i \in Slots |-> IF slots[i] = p THEN Nobody ELSE slots[i]]
  /\ \/ speaker' = IF speaker = p THEN Nobody ELSE speaker
     \/ p \in SipIds /\ speaker' = speaker
  /\ UNCHANGED <<mode, customCells>>
  /\ UpdateLayout(Cells)

\* The detector has a new speaker (asdLoop).
Speak(p) ==
  /\ p \in Here \ {speaker}
  /\ speaker' = p
  /\ UNCHANGED <<order, slots, mode, customCells>>
  /\ UpdateLayout(Cells)

\* A mode without cells; "custom" without cells keeps the cells there are.
SetLayout(m) ==
  /\ mode' = m
  /\ customCells' = IF m = "custom" THEN customCells ELSE <<>>
  /\ UNCHANGED <<order, slots, speaker>>
  /\ UpdateLayout(Cells)

SetCustomLayout(cs) ==
  /\ mode' = "custom" /\ customCells' = cs
  /\ UNCHANGED <<order, slots, speaker>>
  /\ UpdateLayout(Cells)

\* AssignSlots of one participant to one slot; the slot it had becomes free.
AssignSlot(i, p) ==
  /\ slots' = [j \in Slots |-> IF j = i THEN p ELSE IF slots[j] = p THEN Nobody ELSE slots[j]]
  /\ UNCHANGED <<order, mode, customCells, speaker>>
  /\ UpdateLayout(Cells)

PictureNext ==
  \/ \E p \in Ids : Enter(p) \/ Exit(p) \/ Speak(p)
  \/ \E m \in Modes : SetLayout(m)
  \/ CustomLayouts # {} /\ SetLayout("custom")
  \/ \E cs \in CustomLayouts : SetCustomLayout(cs)
  \/ \E i \in Slots, p \in Here \cup {Nobody} : AssignSlot(i, p)

PictureSpec == PictureInit /\ [][PictureNext]_picture

-----------------------------------------------------------------------------
(* Properties                                                              *)

Places == [x : Int, y : Int, w : Int, h : Int, z : Int]

\* The values the variables range over.
PictureTypeOK ==
  /\ order \in Seq(Ids) /\ IsInjective(order)
  /\ slots \in [Slots -> Ids \cup {Nobody}]
  /\ mode \in Modes \cup {"grid", "custom"}
  /\ customCells \in CustomLayouts \cup {<<>>}
  /\ speaker \in Ids \cup {Nobody}
  /\ pads \in [Here -> Places]
  /\ placeholders \in [Slots -> Places]

Overlap(a, b) ==
  /\ a.x < b.x + b.w /\ b.x < a.x + a.w
  /\ a.y < b.y + b.h /\ b.y < a.y + a.h

OnCanvas(a) == a.x >= 0 /\ a.y >= 0 /\ a.x + a.w <= Width /\ a.y + a.h <= Height

Covers(a, b) ==
  /\ a.x <= b.x /\ a.y <= b.y /\ a.x + a.w >= b.x + b.w /\ a.y + a.h >= b.y + b.h

\* In the modes that have a place for everybody, everybody is wholly on the
\* picture and nobody hides anybody, whatever was drawn before and whoever
\* came and went since (layout.Compute; UpdateLayout leaves pads without a
\* cell where they were).
EveryoneDrawn ==
  mode \in {"grid", "active_speaker", "lecture"} =>
    \A p \in Here :
      /\ OnCanvas(pads[p]) /\ pads[p].w > 0 /\ pads[p].h > 0
      /\ \A q \in Here \ {p} : ~Overlap(pads[p], pads[q])

Size(a) == a.w * a.h

\* With active_speaker, the speaker has the largest frame of all.
SpeakerIsLarge ==
  mode = "active_speaker" /\ speaker \in Here =>
    \A q \in Here \ {speaker} : Size(pads[q]) < Size(pads[speaker])

\* Every cell of the custom layout shows the participant of its slot: none is
\* pinned to somebody, and none has the VAD flag while somebody speaks.
CellsShowSlots ==
  \A k \in 1 .. Len(customCells) :
    customCells[k].id.kind = "slot" /\ (customCells[k].vad => speaker = Nobody)

\* While cells show slots, a placeholder on the picture belongs to a slot without a
\* participant, or the participant's pad covers it (gstPipeline.placeholderPads:
\* "placeholder автоматически скрывается, когда реальный peer есть"), whatever
\* cells with pinned people or a speaker were drawn before.  It is not so while a
\* cell shows somebody else: applyLayout replaces the cell's peer and keeps its
\* slot (room.go:559), and the holder's pad stays where it was.
PlaceholderCovered ==
  CellsShowSlots => \A i \in Slots :
    placeholders[i] # Hidden /\ slots[i] # Nobody => Covers(pads[slots[i]], placeholders[i])

\* What the comment says without that condition, checked by hand.
PlaceholderHides ==
  \A i \in Slots :
    placeholders[i] # Hidden /\ slots[i] # Nobody => Covers(pads[slots[i]], placeholders[i])

\* A cell of an empty slot shows its placeholder and not whoever had the slot
\* before (UpdateLayout: "при отсутствии peer'а пользователь увидит "No user"
\* в этой клетке").
EmptySlotShown ==
  mode = "custom" => \A i \in 1 .. Len(customCells) :
    LET id == customCells[i].id IN
      id.kind = "slot" /\ id.value \in Slots /\ slots[id.value] = Nobody =>
        /\ placeholders[id.value] # Hidden
        /\ \A p \in Here : ~Covers(pads[p], Place(customCells[i]))

\* pip gives the speaker the whole picture (layout.go: "большой spectator (или
\* active speaker)").
SpeakerIsMain ==
  mode = "pip" /\ speaker \in Here =>
    Covers(pads[speaker], [FirstPlace EXCEPT !.w = Width, !.h = Height])

\* A cell with the VAD flag shows the active speaker (domain.LayoutCell:
\* "текущий активный спикер автоматически замещает peer'а назначенного в этот
\* slot").
VadCellShowsSpeaker ==
  mode = "custom" /\ speaker \in Here => \A i \in 1 .. Len(customCells) :
    customCells[i].vad => Covers(pads[speaker], Place(customCells[i]))

\* Two pads that overlap have different z-orders (AddPeer: "При равных zorder
\* поведение compositor undefined").
NoTies ==
  \A p, q \in Here :
    p # q /\ Overlap(pads[p], pads[q]) => pads[p].z # pads[q].z

=============================================================================
