---------------------------- MODULE MCCompositor ----------------------------
EXTENDS Compositor

Slot(i) == [kind |-> "slot", value |-> i]
At(id, x, y, w, h, z, vad) ==
  [id |-> id, x |-> x, y |-> y, w |-> w, h |-> h, z |-> z, vad |-> vad]

\* The preset of LayoutEditor.tsx: four quarters for slot-0 .. slot-3.
Quarters == <<At(Slot(0), 0, 0, 640, 360, 0, FALSE), At(Slot(1), 640, 0, 640, 360, 0, FALSE),
              At(Slot(2), 0, 360, 640, 360, 0, FALSE), At(Slot(3), 640, 360, 640, 360, 0, FALSE)>>
\* Two halves, the left one with the VAD flag.
Halves(vad) == <<At(Slot(0), 0, 0, 640, 720, 0, vad), At(Slot(1), 640, 0, 640, 720, 0, FALSE)>>
\* One slot alone on the picture.
Single == <<At(Slot(0), 0, 0, 1280, 720, 0, FALSE)>>
\* One slot beside participant 1, pinned.
Pinned == <<At(Slot(0), 0, 0, 640, 720, 0, FALSE),
            At([kind |-> "peer", value |-> 1], 640, 0, 640, 720, 0, FALSE)>>
None == {}
Presets == {Quarters, Halves(TRUE), Pinned}
Vad == {Halves(TRUE)}
Sparse == {Single}

\* The operator's layouts and pip, with every order of joining and reseating, are
\* for three participants; more of them, and the other modes, are drawn in rooms
\* that were entered in the order of the ids and not reseated.
Bounded ==
  \/ Here \subseteq {1, 2, 3} /\ mode \in {"grid", "pip", "custom"}
  \/ /\ mode \notin {"pip", "custom"}
     /\ \A i \in 1 .. Len(order) - 1 : order[i] < order[i + 1]
     /\ \A i \in Slots : slots[i] \in {Nobody, i + 1}
=============================================================================
