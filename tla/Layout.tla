------------------------------- MODULE Layout -------------------------------
(***************************************************************************)
(* The layout engine of the media worker (package layout): where each      *)
(* participant of a room goes in the mixed picture, for every mode that    *)
(* needs no cells from the operator.                                       *)
(*                                                                         *)
(* A cell is [peer, slot, x, y, w, h, z] in pixels.  The code computes in  *)
(* float64 and the pipeline truncates with int(); here the fractions are   *)
(* exact and truncated, which differs from the code at most where a        *)
(* product of floats misses an integer by its last bit.                    *)
(*                                                                         *)
(* Left out: Spec.Presenter, which applyLayout never sets.                 *)
(*                                                                         *)
(* A definition whose name ends in _bug is a slip the code does not have:  *)
(* it shows that a property can fail.                                      *)
(***************************************************************************)
EXTENDS Integers, FiniteSets, SequencesExt

CONSTANTS
  Width, Height,  \* of the mixed picture
  Nobody          \* the empty string of Spec.Speaker

ASSUME LayoutAssumption == Width \in Nat \ {0} /\ Height \in Nat \ {0}

NoSlot == -1

Cell(p, x, y, w, h, z) ==
  [peer |-> p, slot |-> NoSlot, x |-> x, y |-> y, w |-> w, h |-> h, z |-> z]

\* The ids in S by increasing order: each where as many smaller ones come first.
Sorted(S) ==
  [i \in 1 .. Cardinality(S) |-> CHOOSE p \in S : Cardinality({q \in S : q < p}) = i - 1]

CeilDiv(a, b) == (a + b - 1) \div b

\* ceil(sqrt(n))
Columns(n) == CHOOSE c \in 1 .. n : c * c >= n /\ (c - 1) * (c - 1) < n

Grid_bug(peers) ==
  LET n == Len(peers)
      cols == Columns(n)
      rows == n \div cols
  IN [i \in 1 .. n |->
       Cell(peers[i],
            (((i - 1) % cols) * Width) \div cols, (((i - 1) \div cols) * Height) \div rows,
            Width \div cols, Height \div rows, 0)]

\* Rows of equal frames, in the order of joining.
Grid(peers) ==
  LET n == Len(peers)
      cols == Columns(n)
      rows == CeilDiv(n, cols)
  IN [i \in 1 .. n |->
       Cell(peers[i],
            (((i - 1) % cols) * Width) \div cols, (((i - 1) \div cols) * Height) \div rows,
            Width \div cols, Height \div rows, 0)]

ActiveSpeaker_bug(peers, speaker) ==
  LET main == peers[1]
      thumbs == Tail(peers)
      mainH == (Height * 8) \div 10
  IN <<Cell(main, 0, 0, Width, mainH, 1)>> \o
     [i \in 1 .. Len(thumbs) |->
       Cell(thumbs[i], ((i - 1) * Width) \div Len(thumbs), mainH,
            Width \div Len(thumbs), (Height * 2) \div 10, 0)]

\* One big frame and a row of small ones under it, in the order of their ids.
ActiveSpeaker(peers, speaker) ==
  LET main == IF speaker = Nobody THEN peers[1] ELSE speaker
      thumbs == Sorted(ToSet(peers) \ {main})
      mainH == (Height * 8) \div 10
  IN <<Cell(main, 0, 0, Width, mainH, 1)>> \o
     [i \in 1 .. Len(thumbs) |->
       Cell(thumbs[i], ((i - 1) * Width) \div Len(thumbs), mainH,
            Width \div Len(thumbs), (Height * 2) \div 10, 0)]

\* Whoever joined first on the left, the audience in a column on the right.
Lecture(peers) ==
  LET others == Tail(peers)
      mainW == (Width * 7) \div 10
  IN <<Cell(peers[1], 0, 0, mainW, Height, 1)>> \o
     [i \in 1 .. Len(others) |->
       Cell(others[i], mainW, ((i - 1) * Height) \div Len(others),
            (Width * 3) \div 10, Height \div Len(others), 0)]

\* The speaker on the whole picture, whoever joined second in a corner of it.
PiP(peers, speaker) ==
  LET main == IF speaker = Nobody THEN peers[1] ELSE speaker
      sw == Width \div 4
      sh == Height \div 4
  IN <<Cell(main, 0, 0, Width, Height, 1)>> \o
     (IF Len(peers) > 1
      THEN <<Cell(peers[2], Width - sw - 16, Height - sh - 16, sw, sh, 5)>>
      ELSE <<>>)

\* A custom layout without cells has Spec.Cells = nil.
Compute(mode, speaker, peers) ==
  CASE peers = <<>> \/ mode = "custom" -> <<>>
    [] peers # <<>> /\ mode = "active_speaker" -> ActiveSpeaker(peers, speaker)
    [] peers # <<>> /\ mode = "lecture" -> Lecture(peers)
    [] peers # <<>> /\ mode = "pip" -> PiP(peers, speaker)
    [] OTHER -> Grid(peers)

=============================================================================
