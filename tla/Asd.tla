-------------------------------- MODULE Asd ---------------------------------
(***************************************************************************)
(* The active-speaker detector of a room (package asd): every audio frame  *)
(* of a participant pushes its level; the detector decides who the speaker *)
(* is.                                                                     *)
(*                                                                         *)
(* Time is counted in units of 400 ms, in which a level decays by 12 dB    *)
(* (3 dB / 100 ms), the hysteresis is 2 units (800 ms) and the window 5    *)
(* (2 s).  Every time the code subtracts is the age of a level or of the   *)
(* current speaker; an age stops counting one unit past the last           *)
(* comparison it can change.                                               *)
(*                                                                         *)
(* What sounds in the room is part of the model: a participant is Off      *)
(* (no frames arrive: it has left, or sends none while muted) or has a     *)
(* volume, and its frames come more often than every 400 ms.               *)
(*                                                                         *)
(* A definition whose name ends in _bug is a slip the code does not have:  *)
(* no action uses it; it shows that a property can fail.                   *)
(***************************************************************************)
EXTENDS Integers

CONSTANTS
  Talkers,     \* of the participants
  NoTalker,    \* the empty string of Detector.current
  Volumes,     \* levels of a frame, in dBFS
  Off,         \* no frames arrive
  Threshold,   \* thresholdDBFS, -45
  Decay,       \* dB in a unit of time, 12
  Hysteresis,  \* 2 units
  Window       \* 5 units

\* A level in dBFS is never above 0.
ASSUME AsdAssumption ==
  /\ NoTalker \notin Talkers
  /\ \A v \in Volumes : v \in Int /\ v <= 0
  /\ Off \notin Volumes
  /\ Threshold \in Int /\ Threshold <= 0
  /\ Decay \in Nat \ {0} /\ Hysteresis \in Nat /\ Window \in Nat

VARIABLES
  volume,   \* what each participant sounds like
  levels,   \* Detector.levels
  current,  \* Detector.current
  since     \* age of Detector.currentSince

detector == <<volume, levels, current, since>>

Heard == DOMAIN levels

\* effectiveLevel
Effective(e) == e.dbfs - Decay * e.age

DetectorInit ==
  /\ volume = [p \in Talkers |-> Off]
  /\ levels = [p \in {} |-> [dbfs |-> 0, age |-> 0]]
  /\ current = NoTalker
  /\ since = Hysteresis   \* the zero time: no hysteresis before the first speaker

-----------------------------------------------------------------------------
\* The loudest of those heard within the window, after a push left the levels
\* lv behind; the map's order decides between equals.
Loudest(lv) ==
  {p \in DOMAIN lv :
     /\ lv[p].age <= Window
     /\ \A q \in DOMAIN lv : lv[q].age <= Window => Effective(lv[q]) <= Effective(lv[p])}

MayReplace_bug(lv, p) == p # current /\ since >= Hysteresis

\* p is above the threshold, is somebody else, and the last change is not too
\* fresh.
MayReplace(lv, p) ==
  /\ Effective(lv[p]) >= Threshold
  /\ p # current
  /\ since >= Hysteresis

Pushed(p) == [q \in Heard \cup {p} |-> IF q = p THEN [dbfs |-> volume[p], age |-> 0] ELSE levels[q]]

Push_bug(p) ==
  /\ volume[p] # Off
  /\ levels' = Pushed(p)
  /\ IF MayReplace(levels', p)
     THEN current' = p /\ since' = 0
     ELSE UNCHANGED <<current, since>>
  /\ UNCHANGED volume

Push(p) ==
  /\ volume[p] # Off
  /\ levels' = Pushed(p)
  /\ \E q \in Loudest(levels') :
       IF MayReplace(levels', q)
       THEN current' = q /\ since' = 0
       ELSE UNCHANGED <<current, since>>
  /\ UNCHANGED volume

Forget_bug(p) ==
  /\ volume' = [volume EXCEPT ![p] = Off]
  /\ levels' = [q \in Heard \ {p} |-> levels[q]]
  /\ UNCHANGED <<current, since>>

\* RemovePeer: p's pipeline branch ends as well.
Forget(p) ==
  /\ volume' = [volume EXCEPT ![p] = Off]
  /\ levels' = [q \in Heard \ {p} |-> levels[q]]
  /\ current' = IF current = p THEN NoTalker ELSE current
  /\ since' = IF current = p THEN 0 ELSE since

-----------------------------------------------------------------------------
(* The room                                                                *)

\* Somebody speaks up, falls silent, arrives, or a frame that was still on its
\* way when its sender was forgotten arrives after all.
Sound(p, v) ==
  /\ volume' = [volume EXCEPT ![p] = v]
  /\ UNCHANGED <<levels, current, since>>

Older(age, last) == IF age > last THEN age ELSE age + 1

Tick ==
  /\ \A p \in Talkers : volume[p] # Off => p \in Heard /\ levels[p].age = 0
  /\ levels' = [p \in Heard |-> [levels[p] EXCEPT !.age = Older(@, Window)]]
  /\ since' = IF since < Hysteresis THEN since + 1 ELSE since
  /\ UNCHANGED <<volume, current>>

DetectorNext ==
  \/ Tick
  \/ \E p \in Talkers : Push(p) \/ Forget(p) \/ \E v \in Volumes \cup {Off} : Sound(p, v)

\* Frames of whoever sounds keep coming, and while somebody sounds time passes
\* however often the others come and go.
Fairness ==
  /\ []<>(\A p \in Talkers : volume[p] = Off) \/ []<><<Tick>>_detector
  /\ \A p \in Talkers : WF_detector(Push(p))

DetectorSpec == DetectorInit /\ [][DetectorNext]_detector /\ Fairness

-----------------------------------------------------------------------------
(* Properties                                                              *)

\* The values the variables range over.
DetectorTypeOK ==
  /\ volume \in [Talkers -> Volumes \cup {Off}]
  /\ Heard \subseteq Talkers
  /\ levels \in [Heard -> [dbfs : Volumes, age : 0 .. Window + 1]]
  /\ current \in Talkers \cup {NoTalker}
  /\ since \in 0 .. Hysteresis

\* The detector never names somebody it has forgotten (Room.RemovePeer): the
\* speaker has a level.
SpeakerIsHeard == current \in Heard \cup {NoTalker}

\* Whoever becomes the speaker was heard so recently that a frame of full
\* scale has not decayed below the threshold, 1.5 s with the code's figures:
\* the window of 2 s never decides.
ChosenWasJustHeard ==
  [][current' \notin {current, NoTalker} =>
       /\ current' \in DOMAIN levels'
       /\ Decay * levels'[current'].age <= 0 - Threshold]_detector

\* p's voice has volume v, above the threshold and above everybody else's by
\* more than a level decays between two frames.
StandsOut(p, v) ==
  /\ volume[p] = v /\ v >= Threshold
  /\ \A q \in Talkers \ {p} : volume[q] # Off => volume[q] + Decay < v

\* Whoever goes on talking louder than the others becomes the speaker and
\* stays it, whatever was heard before (asd.Detector: the loudest, with
\* hysteresis; levels of those who fell silent must not stay in the way).
TalkerWins ==
  \A p \in Talkers, v \in Volumes : <>[]StandsOut(p, v) => <>[](current = p)

\* Whoever becomes the speaker was heard within the last second
\* (MEDIA_PIPELINE.md: "Окно: 1 секунда").  A unit is 400 ms.
ChosenWithinOneSecond ==
  [][current' \notin {current, NoTalker} => levels'[current'].age * 400 <= 1000]_detector

=============================================================================
