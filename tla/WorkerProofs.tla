---------------------------- MODULE WorkerProofs ----------------------------
(***************************************************************************)
(* Three parts of the media worker that share no state: the registries of  *)
(* rooms and pipelines, for any number of handlers and rooms; the          *)
(* active-speaker detector, for any participants, volumes and figures; and *)
(* the mixed picture, for any participants, slots, canvas and layouts.     *)
(* That the loudest voice wins (TalkerWins) is a liveness property and is  *)
(* checked with TLC only.                                                  *)
(***************************************************************************)
EXTENDS RoomRegistry, Asd, Compositor, FiniteSetTheorems, SequenceTheorems,
  WellFoundedInduction, TLAPS

\* A handler past its lookup holds a Room that was made; one that creates or
\* is idle holds none.  After Room.Close the Room it closed is a closed one.
HoldsRoom ==
  \A c \in Callers :
    /\ op[c].pc \in {"idle", "create"} => op[c].room = 0
    /\ op[c].pc \notin {"idle", "create"} => op[c].room \in 1 .. rooms
    /\ op[c].pc \in {"stop", "drop"} => op[c].room \in closed

\* Only the stored pipeline can run, and it is the pipeline of the registered
\* Room unless some Destroy is still on its way to drop it.
OnePipeline ==
  /\ running \subseteq {pipe}
  /\ running # {} => \/ room # 0 /\ pipeOf[room] = pipe
                     \/ \E c \in Callers : Ending(c)

\* Connections are registered only in Rooms that were made and are not closed.
OpenRoomsOnly ==
  \A o \in Objects : conns[o] # {} => o \in 1 .. rooms /\ o \notin closed

Inv ==
  /\ TypeOK
  /\ HoldsRoom
  /\ OneOpenRoom
  /\ OnePipeline
  /\ OpenRoomsOnly

-----------------------------------------------------------------------------
\* The registry starts empty.
LEMMA InitInv == Init => Inv
  <1> SUFFICES ASSUME Init PROVE Inv
    OBVIOUS
  <1> USE RegistryAssumption DEF Init, Idle, Objects
  <1>1. TypeOK
    BY DEF TypeOK, Uses
  <1>2. HoldsRoom /\ OneOpenRoom /\ OpenRoomsOnly
    BY DEF HoldsRoom, OneOpenRoom, OpenRoomsOnly, Closing, Ending
  <1>3. OnePipeline
    BY DEF OnePipeline
  <1> QED
    BY <1>1, <1>2, <1>3 DEF Inv

\* Every step of a handler keeps the invariant.
LEMMA NextInv == Inv /\ [Next]_vars => Inv'
  <1> SUFFICES ASSUME Inv, [Next]_vars PROVE Inv'
    OBVIOUS
  <1> USE RegistryAssumption
      DEF Inv, TypeOK, HoldsRoom, Objects, Uses, At, Goto, Return, Idle, registries, media
  <1>1. ASSUME NEW c \in Callers, NEW use \in Uses, Lookup(c, use) PROVE Inv'
    <2>1. TypeOK' /\ HoldsRoom'
      BY <1>1 DEF Lookup
    <2>2. OneOpenRoom'
      BY <1>1 DEF Lookup, OneOpenRoom, Closing, Ending
    <2>3. OnePipeline'
      BY <1>1 DEF Lookup, OnePipeline, Ending
    <2>4. OpenRoomsOnly'
      BY <1>1 DEF Lookup, OpenRoomsOnly
    <2> QED
      BY <2>1, <2>2, <2>3, <2>4
  <1>2. ASSUME NEW c \in Callers, FoundOnSecondLook(c) PROVE Inv'
    <2>1. TypeOK' /\ HoldsRoom'
      BY <1>2 DEF FoundOnSecondLook
    <2>2. OneOpenRoom'
      BY <1>2 DEF FoundOnSecondLook, OneOpenRoom, Closing, Ending
    <2>3. OnePipeline'
      BY <1>2 DEF FoundOnSecondLook, OnePipeline, Ending
    <2>4. OpenRoomsOnly'
      BY <1>2 DEF FoundOnSecondLook, OpenRoomsOnly
    <2> QED
      BY <2>1, <2>2, <2>3, <2>4
  <1>3. ASSUME NEW c \in Callers, Create(c) PROVE Inv'
    <2>1. TypeOK' /\ HoldsRoom'
      BY <1>3 DEF Create
    <2>2. OneOpenRoom'
      BY <1>3 DEF Create, OneOpenRoom, Closing, Ending
    <2>3. OnePipeline'
      BY <1>3 DEF Create, OnePipeline, Ending
    <2>4. OpenRoomsOnly'
      BY <1>3 DEF Create, OpenRoomsOnly
    <2> QED
      BY <2>1, <2>2, <2>3, <2>4
  <1>4. ASSUME NEW c \in Callers, CreateFails(c) PROVE Inv'
    <2>1. TypeOK' /\ HoldsRoom'
      BY <1>4 DEF CreateFails
    <2>2. OneOpenRoom'
      BY <1>4 DEF CreateFails, OneOpenRoom, Closing, Ending
    <2>3. OnePipeline'
      BY <1>4 DEF CreateFails, OnePipeline, Ending
    <2>4. OpenRoomsOnly'
      BY <1>4 DEF CreateFails, OpenRoomsOnly
    <2> QED
      BY <2>1, <2>2, <2>3, <2>4
  <1>5. ASSUME NEW c \in Callers, UseAddPeer(c) PROVE Inv'
    <2>1. TypeOK' /\ HoldsRoom'
      <3>1. conns' \in [Objects -> SUBSET Callers]
        BY <1>5 DEF UseAddPeer
      <3>2. stuck' \subseteq 1 .. rooms
        BY <1>5 DEF UseAddPeer
      <3>3. op' = [op EXCEPT ![c] = Idle]
        BY <1>5 DEF UseAddPeer
      <3>4. UNCHANGED <<room, pipe, pipeOf, rooms, pipes, running, closed, sockets>>
        BY <1>5 DEF UseAddPeer
      <3> QED
        BY <3>1, <3>2, <3>3, <3>4
    <2>2. OneOpenRoom'
      BY <1>5 DEF UseAddPeer, OneOpenRoom, Closing, Ending
    <2>3. OnePipeline'
      BY <1>5 DEF UseAddPeer, OnePipeline, Ending
    <2>4. OpenRoomsOnly'
      BY <1>5 DEF UseAddPeer, OpenRoomsOnly
    <2> QED
      BY <2>1, <2>2, <2>3, <2>4
  <1>6. ASSUME NEW c \in Callers, UseAddSIPPeer(c) PROVE Inv'
    <2>1. TypeOK' /\ HoldsRoom'
      <3>1. sockets' \in [Objects -> SUBSET Callers]
        BY <1>6 DEF UseAddSIPPeer
      <3>2. op' = [op EXCEPT ![c] = Idle]
        BY <1>6 DEF UseAddSIPPeer
      <3>3. UNCHANGED <<room, pipe, pipeOf, rooms, pipes, running, closed, conns, stuck>>
        BY <1>6 DEF UseAddSIPPeer
      <3> QED
        BY <3>1, <3>2, <3>3
    <2>2. OneOpenRoom'
      BY <1>6 DEF UseAddSIPPeer, OneOpenRoom, Closing, Ending
    <2>3. OnePipeline'
      BY <1>6 DEF UseAddSIPPeer, OnePipeline, Ending
    <2>4. OpenRoomsOnly'
      BY <1>6 DEF UseAddSIPPeer, OpenRoomsOnly
    <2> QED
      BY <2>1, <2>2, <2>3, <2>4
  <1>7. ASSUME NEW c \in Callers, UseRemove(c) PROVE Inv'
    <2>1. TypeOK' /\ HoldsRoom'
      <3>1. conns' \in [Objects -> SUBSET Callers]
        <4>1. conns' = [conns EXCEPT ![op[c].room] = @ \ {c}]
          BY <1>7 DEF UseRemove
        <4> QED
          BY <4>1
      <3>2. sockets' \in [Objects -> SUBSET Callers]
        <4>1. sockets' = [sockets EXCEPT ![op[c].room] = @ \ {c}]
          BY <1>7 DEF UseRemove
        <4> QED
          BY <4>1
      <3>3. op' = [op EXCEPT ![c] = Idle]
        BY <1>7 DEF UseRemove
      <3>4. UNCHANGED <<room, pipe, pipeOf, rooms, pipes, running, closed, stuck>>
        BY <1>7 DEF UseRemove
      <3>5. TypeOK'
        BY <3>1, <3>2, <3>3, <3>4
      <3>6. HoldsRoom'
        BY <3>3, <3>4
      <3> QED
        BY <3>5, <3>6
    <2>2. OneOpenRoom'
      BY <1>7 DEF UseRemove, OneOpenRoom, Closing, Ending
    <2>3. OnePipeline'
      BY <1>7 DEF UseRemove, OnePipeline, Ending
    <2>4. OpenRoomsOnly'
      BY <1>7 DEF UseRemove, OpenRoomsOnly
    <2> QED
      BY <2>1, <2>2, <2>3, <2>4
  <1>8. ASSUME NEW c \in Callers, Destroy(c) PROVE Inv'
    <2>1. TypeOK' /\ HoldsRoom'
      BY <1>8 DEF Destroy
    <2>2. OneOpenRoom'
      BY <1>8 DEF Destroy, OneOpenRoom, Closing, Ending
    <2>3. OnePipeline'
      BY <1>8 DEF Destroy, OnePipeline, Ending
    <2>4. OpenRoomsOnly'
      BY <1>8 DEF Destroy, OpenRoomsOnly
    <2> QED
      BY <2>1, <2>2, <2>3, <2>4
  <1>9. ASSUME NEW c \in Callers, CloseRoom(c) PROVE Inv'
    <2>1. TypeOK' /\ HoldsRoom'
      BY <1>9 DEF CloseRoom
    <2>2. OneOpenRoom'
      <3>1. /\ \A d \in Callers : op'[d].room = op[d].room /\ (Ending(d)' <=> Ending(d))
            /\ room' = room /\ rooms' = rooms
        BY <1>9 DEF CloseRoom, Ending
      <3>2. \A o : Closing(o)' <=> Closing(o)
        BY <3>1 DEF Closing
      <3>3. closed \subseteq closed' /\ \A o \in closed' \ closed : Closing(o)
        BY <1>9 DEF CloseRoom, Closing, Ending
      <3>4. room \notin closed'
        <4>1. room \in closed \/ room = op[c].room => room \in closed \/ Closing(room)
          BY <1>9 DEF CloseRoom, Closing, Ending
        <4>2. closed' = closed \cup {op[c].room}
          BY <1>9 DEF CloseRoom
        <4>3. op[c].room \in 1 .. rooms
          BY <1>9 DEF CloseRoom
        <4> QED
          BY <4>1, <4>2, <4>3 DEF OneOpenRoom
      <3>5. \A o \in 1 .. rooms' : o = room' \/ o \in closed' \/ Closing(o)'
        BY <3>1, <3>2, <3>3 DEF OneOpenRoom
      <3>6. (room # 0 => ~Closing(room))'
        BY <3>1 DEF OneOpenRoom, Closing
      <3>7. \A d, e \in Callers :
              Ending(d)' /\ Ending(e)' /\ op'[d].room = op'[e].room => d = e
        BY <3>1 DEF OneOpenRoom
      <3> QED
        BY <3>1, <3>4, <3>5, <3>6, <3>7 DEF OneOpenRoom
    <2>3. OnePipeline'
      BY <1>9 DEF CloseRoom, OnePipeline, Ending
    <2>4. OpenRoomsOnly'
      <3>1. conns' = [conns EXCEPT ![op[c].room] = {}] /\ closed' = closed \cup {op[c].room}
        BY <1>9 DEF CloseRoom
      <3>2. op[c].room \in Objects /\ closed \subseteq Objects
        <4>1. op[c].room \in 1 .. rooms
          BY <1>9 DEF CloseRoom
        <4>2. rooms \in 0 .. MaxRooms /\ closed \subseteq 1 .. rooms
          OBVIOUS
        <4> QED
          BY ONLY <4>1, <4>2, RegistryAssumption DEF Objects
      <3>3. conns \in [Objects -> SUBSET Callers] /\ rooms' = rooms
        BY <1>9 DEF CloseRoom
      <3> QED
        BY ONLY <3>1, <3>2, <3>3, OpenRoomsOnly DEF OpenRoomsOnly, Objects
    <2> QED
      BY <2>1, <2>2, <2>3, <2>4
  <1>10. ASSUME NEW c \in Callers, StopPipeline(c) PROVE Inv'
    <2>1. TypeOK' /\ HoldsRoom'
      BY <1>10 DEF StopPipeline
    <2>2. OneOpenRoom'
      <3>1. /\ \A d \in Callers : op'[d].room = op[d].room /\ (Ending(d)' <=> Ending(d))
            /\ room' = room /\ rooms' = rooms
        BY <1>10 DEF StopPipeline, Ending
      <3>2. \A o : Closing(o)' <=> Closing(o)
        BY <3>1 DEF Closing
      <3>3. closed \subseteq closed' /\ \A o \in closed' \ closed : Closing(o)
        BY <1>10 DEF StopPipeline, Closing, Ending
      <3>4. room \notin closed'
        BY <1>10, <3>3 DEF StopPipeline, OneOpenRoom
      <3>5. \A o \in 1 .. rooms' : o = room' \/ o \in closed' \/ Closing(o)'
        BY <3>1, <3>2, <3>3 DEF OneOpenRoom
      <3>6. (room # 0 => ~Closing(room))'
        BY <3>1 DEF OneOpenRoom, Closing
      <3>7. \A d, e \in Callers :
              Ending(d)' /\ Ending(e)' /\ op'[d].room = op'[e].room => d = e
        BY <3>1 DEF OneOpenRoom
      <3> QED
        BY <3>1, <3>4, <3>5, <3>6, <3>7 DEF OneOpenRoom
    <2>3. OnePipeline'
      BY <1>10 DEF StopPipeline, OnePipeline, Ending
    <2>4. OpenRoomsOnly'
      BY <1>10 DEF StopPipeline, OpenRoomsOnly
    <2> QED
      BY <2>1, <2>2, <2>3, <2>4
  <1>11. ASSUME NEW c \in Callers, DropPipeline(c) PROVE Inv'
    <2>1. TypeOK' /\ HoldsRoom'
      BY <1>11 DEF DropPipeline
    <2>2. OneOpenRoom'
      BY <1>11 DEF DropPipeline, OneOpenRoom, Closing, Ending
    <2>3. OnePipeline'
      BY <1>11 DEF DropPipeline, OnePipeline, Ending
    <2>4. OpenRoomsOnly'
      BY <1>11 DEF DropPipeline, OpenRoomsOnly
    <2> QED
      BY <2>1, <2>2, <2>3, <2>4
  <1>12. CASE UNCHANGED vars
    BY <1>12 DEF vars, OneOpenRoom, Closing, Ending, OnePipeline, OpenRoomsOnly
  <1> QED
    BY <1>1, <1>2, <1>3, <1>4, <1>5, <1>6, <1>7, <1>8, <1>9, <1>10, <1>11, <1>12 DEF Next, Handler

-----------------------------------------------------------------------------
\* What the invariant says of a moment when no handler runs.
LEMMA InvAtRest == Inv => NoOrphanPipeline
  <1> SUFFICES ASSUME Inv, AtRest, running # {}
               PROVE  running \subseteq IF room = 0 THEN {} ELSE {pipe} \cap {pipeOf[room]}
    BY DEF NoOrphanPipeline
  <1>1. \A c \in Callers : ~Ending(c)
    BY DEF AtRest, At, Ending
  <1> QED
    BY <1>1 DEF Inv, OnePipeline

\* The inductive invariant holds in every reachable state of the registry.
THEOREM Invariance == Spec => []Inv
  BY InitInv, NextInv, PTL DEF Spec

\* The variables keep their types: in particular a handler only ever holds a
\* Room that was made, and a Room only a pipeline that was made.
THEOREM TypeCorrect == Spec => []TypeOK
  <1>1. Inv => TypeOK
    BY DEF Inv
  <1> QED
    BY Invariance, <1>1, PTL

\* GetOrCreate and Destroy never leave a Room that is neither registered nor
\* closed nor on its way to be, and never close a Room twice.
THEOREM RoomsAreAccountedFor == Spec => []OneOpenRoom
  <1>1. Inv => OneOpenRoom
    BY DEF Inv
  <1> QED
    BY Invariance, <1>1, PTL

\* However creations and destructions overlap, no pipeline keeps running after
\* them that the registries cannot reach.
THEOREM PipelinesAreReachable == Spec => []NoOrphanPipeline
  BY Invariance, InvAtRest, PTL

\* Nobody stays connected in a Room that neither the registry nor a Destroy on its
\* way to Close can reach.
THEOREM ConnectionsStayInReach == Spec => []ConnectionsInReach
  <1>1. Inv => ConnectionsInReach
    <2> SUFFICES ASSUME Inv, NEW o \in Objects, conns[o] # {}, o # room
                 PROVE  \E c \in Callers : At(c, "close") /\ op[c].room = o
      BY DEF ConnectionsInReach
    <2>1. o \in 1 .. rooms /\ o \notin closed
      BY DEF Inv, OpenRoomsOnly
    <2>2. PICK c \in Callers : Ending(c) /\ op[c].room = o
      BY <2>1 DEF Inv, OneOpenRoom, Closing
    <2>3. At(c, "close")
      BY <2>1, <2>2 DEF Inv, HoldsRoom, Ending, At
    <2> QED
      BY <2>2, <2>3
  <1> QED
    BY Invariance, <1>1, PTL

-----------------------------------------------------------------------------
(* The active-speaker detector                                             *)

\* The levels after a push are again levels of participants.
LEMMA PushedType ==
  ASSUME DetectorTypeOK, NEW p \in Talkers, volume[p] # Off
  PROVE  /\ DOMAIN Pushed(p) = Heard \cup {p}
         /\ Pushed(p) \in [Heard \cup {p} -> [dbfs : Volumes, age : 0 .. Window + 1]]
<1>1. volume[p] \in Volumes
  BY DEF DetectorTypeOK
<1>2. 0 \in 0 .. Window + 1
  BY AsdAssumption
<1>. QED
  BY <1>1, <1>2 DEF Pushed, DetectorTypeOK, Heard

\* A push keeps the types.
LEMMA PushType ==
  ASSUME DetectorTypeOK, NEW p \in Talkers, Push(p)
  PROVE  DetectorTypeOK'
<1>1. /\ Heard' = Heard \cup {p}
      /\ levels' \in [Heard' -> [dbfs : Volumes, age : 0 .. Window + 1]]
  BY PushedType DEF Push, Heard
<1>2. Heard' \subseteq Talkers
  BY <1>1 DEF DetectorTypeOK
<1>3. current' \in Talkers \cup {NoTalker} /\ since' \in 0 .. Hysteresis
  BY <1>2, AsdAssumption DEF Push, Loudest, DetectorTypeOK, Heard
<1>. QED
  BY <1>1, <1>2, <1>3 DEF Push, DetectorTypeOK

\* So does the passage of time.
LEMMA TickType ==
  ASSUME DetectorTypeOK, Tick
  PROVE  DetectorTypeOK' /\ Heard' = Heard
<1>1. Heard' = Heard
  BY DEF Tick, Heard
<1>2. ASSUME NEW p \in Heard
      PROVE  levels'[p] \in [dbfs : Volumes, age : 0 .. Window + 1]
  <2>1. levels[p] \in [dbfs : Volumes, age : 0 .. Window + 1]
    BY <1>2 DEF DetectorTypeOK
  <2>2. levels'[p] = [levels[p] EXCEPT !.age = Older(levels[p].age, Window)]
    BY <1>2 DEF Tick
  <2>3. Older(levels[p].age, Window) \in 0 .. Window + 1
    BY <2>1, AsdAssumption DEF Older
  <2>. QED
    BY <2>1, <2>2, <2>3
<1>3. levels' \in [Heard' -> [dbfs : Volumes, age : 0 .. Window + 1]]
  BY <1>1, <1>2 DEF Tick
<1>4. since' \in 0 .. Hysteresis
  BY AsdAssumption DEF Tick, DetectorTypeOK
<1>. QED
  BY <1>1, <1>3, <1>4 DEF Tick, DetectorTypeOK

\* The initial state has the types, and every step keeps them.
LEMMA DetectorTypeInvariant ==
  /\ DetectorInit => DetectorTypeOK
  /\ DetectorTypeOK /\ [DetectorNext]_detector => DetectorTypeOK'
<1>1. DetectorInit => DetectorTypeOK
  BY AsdAssumption DEF DetectorInit, DetectorTypeOK, Heard
<1>2. ASSUME DetectorTypeOK, [DetectorNext]_detector
      PROVE  DetectorTypeOK'
  <2>1. CASE Tick
    BY <1>2, <2>1, TickType
  <2>2. ASSUME NEW p \in Talkers, Push(p)
        PROVE  DetectorTypeOK'
    BY <1>2, <2>2, PushType
  <2>3. ASSUME NEW p \in Talkers, Forget(p)
        PROVE  DetectorTypeOK'
    BY <1>2, <2>3, AsdAssumption DEF Forget, DetectorTypeOK, Heard
  <2>4. ASSUME NEW p \in Talkers, NEW v \in Volumes \cup {Off}, Sound(p, v)
        PROVE  DetectorTypeOK'
    BY <1>2, <2>4 DEF Sound, DetectorTypeOK, Heard
  <2>5. CASE UNCHANGED detector
    BY <1>2, <2>5 DEF detector, DetectorTypeOK, Heard
  <2>. QED
    BY <1>2, <2>1, <2>2, <2>3, <2>4, <2>5 DEF DetectorNext
<1>. QED
  BY <1>1, <1>2

\* Every variable keeps its type.
THEOREM DetectorTypes == DetectorSpec => []DetectorTypeOK
<1>. QED
  BY DetectorTypeInvariant, PTL DEF DetectorSpec

\* Every step keeps a speaker that has a level, or nobody.
LEMMA SpeakerStep ==
  ASSUME DetectorTypeOK, SpeakerIsHeard, [DetectorNext]_detector
  PROVE  SpeakerIsHeard'
<1>1. CASE Tick
  BY <1>1, TickType DEF Tick, SpeakerIsHeard
<1>2. ASSUME NEW p \in Talkers, Push(p)
      PROVE  SpeakerIsHeard'
  <2>1. Heard' = Heard \cup {p}
    BY <1>2, PushedType DEF Push, Heard
  <2>. QED
    BY <1>2, <2>1 DEF Push, Loudest, SpeakerIsHeard, Heard
<1>3. ASSUME NEW p \in Talkers, Forget(p)
      PROVE  SpeakerIsHeard'
  BY <1>3 DEF Forget, SpeakerIsHeard, Heard
<1>4. ASSUME NEW p \in Talkers, NEW v \in Volumes \cup {Off}, Sound(p, v)
      PROVE  SpeakerIsHeard'
  BY <1>4 DEF Sound, SpeakerIsHeard, Heard
<1>5. CASE UNCHANGED detector
  BY <1>5 DEF detector, SpeakerIsHeard, Heard
<1>. QED
  BY <1>1, <1>2, <1>3, <1>4, <1>5 DEF DetectorNext

\* Room.RemovePeer: the detector never names somebody it has forgotten.
THEOREM ForgottenAreSilent == DetectorSpec => []SpeakerIsHeard
<1>1. DetectorInit => SpeakerIsHeard
  BY DEF DetectorInit, SpeakerIsHeard
<1>. QED
  BY <1>1, DetectorTypeInvariant, SpeakerStep, PTL DEF DetectorSpec

Chosen ==
  current' \notin {current, NoTalker} =>
    /\ current' \in DOMAIN levels'
    /\ Decay * levels'[current'].age <= 0 - Threshold

\* A level that still reaches the threshold has decayed by no more than the
\* threshold's distance from full scale.
LEMMA AudibleIsFresh ==
  ASSUME NEW e \in [dbfs : Volumes, age : 0 .. Window + 1], Effective(e) >= Threshold
  PROVE  Decay * e.age <= 0 - Threshold
<1>1. e.dbfs \in Int /\ e.dbfs <= 0
  BY AsdAssumption
<1>2. e.age \in Int /\ Decay \in Int
  BY AsdAssumption
<1>3. Decay * e.age \in Int
  BY <1>2
<1>. QED
  BY <1>1, <1>3, AsdAssumption DEF Effective

\* Every step that makes somebody the speaker chooses a fresh voice.
LEMMA ChosenStep ==
  ASSUME DetectorTypeOK, [DetectorNext]_detector
  PROVE  Chosen
<1>1. ASSUME NEW p \in Talkers, Push(p)
      PROVE  Chosen
  <2>1. DetectorTypeOK'
    BY <1>1, PushType
  <2>2. SUFFICES ASSUME current' \notin {current, NoTalker}
                 PROVE  /\ current' \in DOMAIN levels'
                        /\ Decay * levels'[current'].age <= 0 - Threshold
    BY DEF Chosen
  <2>3. PICK q \in Loudest(levels') : MayReplace(levels', q) /\ current' = q
    BY <1>1, <2>2 DEF Push
  <2>4. q \in DOMAIN levels' /\ Effective(levels'[q]) >= Threshold
    BY <2>3 DEF Loudest, MayReplace
  <2>5. levels'[q] \in [dbfs : Volumes, age : 0 .. Window + 1]
    BY <2>1, <2>4 DEF DetectorTypeOK, Heard
  <2>. QED
    BY <2>3, <2>4, <2>5, AudibleIsFresh
<1>2. CASE Tick
  BY <1>2 DEF Tick, Chosen
<1>3. ASSUME NEW p \in Talkers, Forget(p)
      PROVE  Chosen
  BY <1>3 DEF Forget, Chosen
<1>4. ASSUME NEW p \in Talkers, NEW v \in Volumes \cup {Off}, Sound(p, v)
      PROVE  Chosen
  BY <1>4 DEF Sound, Chosen
<1>5. CASE UNCHANGED detector
  BY <1>5 DEF detector, Chosen
<1>. QED
  BY <1>1, <1>2, <1>3, <1>4, <1>5 DEF DetectorNext

\* Detector.Push: whoever becomes the speaker was heard just now, so that the
\* window of 2 s decides nothing the threshold has not decided.
THEOREM ChosenAreFresh == DetectorSpec => ChosenWasJustHeard
<1>1. DetectorTypeOK /\ [DetectorNext]_detector => [Chosen]_detector
  BY ChosenStep
<1>2. Chosen <=> (current' \notin {current, NoTalker} =>
                    /\ current' \in DOMAIN levels'
                    /\ Decay * levels'[current'].age <= 0 - Threshold)
  BY DEF Chosen
<1>. QED
  BY <1>1, <1>2, DetectorTypeInvariant, PTL DEF DetectorSpec, ChosenWasJustHeard

-----------------------------------------------------------------------------
(* The mixed picture: extremes of a set of numbers                         *)

\* A set of natural numbers that is not empty has a least element.
LEMMA LeastExists ==
  ASSUME NEW S \in SUBSET Nat, S # {}
  PROVE  \E x \in S : \A y \in S : x <= y
  <1> DEFINE R == OpToRel(<, Nat)
  <1>1. IsWellFoundedOn(R, Nat)
    BY NatLessThanWellFounded
  <1>2. \A x, y \in Nat : y < x => <<y, x>> \in R
    BY DEF OpToRel
  <1> HIDE DEF R
  <1>3. S \subseteq Nat
    OBVIOUS
  <1>4. PICK x \in S : \A y \in S : ~(<<y, x>> \in R)
    BY <1>1, <1>3, WFMin, Zenon
  <1>5. \A y \in S : ~(y < x)
    BY <1>2, <1>3, <1>4, Zenon
  <1> QED
    BY <1>3, <1>5

\* One that is bounded has a greatest.
LEMMA GreatestExists ==
  ASSUME NEW n \in Nat, NEW S \in SUBSET (1 .. n), S # {}
  PROVE  \E x \in S : \A y \in S : y <= x
  <1> DEFINE T == {n - i : i \in S}
  <1>1. T \in SUBSET Nat /\ T # {}
    <2>1. \A i \in S : i \in 1 .. n /\ n - i \in Nat
      OBVIOUS
    <2> QED
      BY <2>1
  <1>2. PICK t \in T : \A u \in T : t <= u
    BY <1>1, LeastExists
  <1>3. PICK x \in S : t = n - x
    BY <1>2
  <1>4. \A y \in S : n - x <= n - y
    BY <1>2, <1>3
  <1> QED
    BY <1>4

-----------------------------------------------------------------------------
(* Arithmetic of the frames                                                *)

\* n equal frames of a length fit into it, whole pixels as they are.
LEMMA FrameFits ==
  ASSUME NEW n \in Nat \ {0}, NEW length \in Nat, NEW k \in 0 .. n - 1
  PROVE  /\ length \div n \in Nat
         /\ (k * length) \div n \in Nat
         /\ (k * length) \div n + length \div n <= length
         /\ n <= length => length \div n > 0
  <1>1. k * length \in Nat
    OBVIOUS
  <1>2. length \div n \in Nat /\ (k * length) \div n \in Nat
    BY <1>1
  <1>3. (k * length) \div n + length \div n <= (k * length + length) \div n
    BY <1>1
  <1>4. k * length + length = (k + 1) * length
    OBVIOUS
  <1>5. (k + 1) * length <= n * length
    OBVIOUS
  <1>6. (k * length + length) \div n <= (n * length) \div n
    BY <1>1, <1>4, <1>5
  <1>7. (n * length) \div n = length
    OBVIOUS
  <1>8. n <= length => length \div n > 0
    OBVIOUS
  <1> QED
    BY <1>2, <1>3, <1>6, <1>7, <1>8

\* They do not reach into each other.
LEMMA FramesApart ==
  ASSUME NEW n \in Nat \ {0}, NEW length \in Nat, NEW k \in 0 .. n - 1, NEW m \in 0 .. n - 1,
         k < m
  PROVE  (k * length) \div n + length \div n <= (m * length) \div n
  <1>1. k * length \in Nat /\ m * length \in Nat
    OBVIOUS
  <1>3. (k * length) \div n + length \div n <= (k * length + length) \div n
    BY <1>1
  <1>4. k * length + length = (k + 1) * length
    OBVIOUS
  <1>5. (k + 1) * length <= m * length
    OBVIOUS
  <1>6. (k * length + length) \div n <= (m * length) \div n
    BY <1>1, <1>4, <1>5
  <1> QED
    BY <1>1, <1>3, <1>6

\* There are between one and n columns.
LEMMA ColumnsExist ==
  ASSUME NEW n \in Nat \ {0}
  PROVE  Columns(n) \in 1 .. n
  <1> DEFINE S == {c \in Nat : c * c >= n}
  <1>1. n \in S
    OBVIOUS
  <1>2. PICK c \in S : \A d \in S : c <= d
    BY <1>1, LeastExists
  <1>3. c \in 1 .. n /\ c * c >= n
    BY <1>1, <1>2
  <1>4. (c - 1) * (c - 1) < n
    <2>1. c - 1 \in Nat /\ c - 1 \notin S
      BY <1>2, <1>3
    <2> QED
      BY <2>1
  <1> QED
    BY <1>3, <1>4 DEF Columns

\* Quotient and remainder.
LEMMA Quotients ==
  ASSUME NEW a \in Nat, NEW b \in Nat \ {0}
  PROVE  /\ a \div b \in Nat
         /\ a % b \in 0 .. b - 1
         /\ a = b * (a \div b) + (a % b)
  <1>1. a \div b \in Nat
    OBVIOUS
  <1>2. a % b \in 0 .. b - 1
    OBVIOUS
  <1>3. a = b * (a \div b) + (a % b)
    OBVIOUS
  <1> QED
    BY <1>1, <1>2, <1>3

\* What a quotient is.
LEMMA QuotientIs ==
  ASSUME NEW a \in Int, NEW b \in Nat \ {0}, NEW q \in Int, b * q <= a, a < b * q + b
  PROVE  a \div b = q
  <1> DEFINE r == a \div b
  <1>1. r \in Int /\ b * r <= a /\ a < b * r + b
    OBVIOUS
  <1> HIDE DEF r
  <1>2. b * q < b * (r + 1) /\ b * r < b * (q + 1)
    BY <1>1
  <1>3. q < r + 1 /\ r < q + 1
    BY <1>1, <1>2
  <1> QED
    BY <1>1, <1>3 DEF r

\* The place in the grid that the k-th of n gets, for whatever columns.
LEMMA GridPlace ==
  ASSUME NEW n \in Nat \ {0}, NEW cols \in 1 .. n, NEW k \in 0 .. n - 1
  PROVE  /\ CeilDiv(n, cols) \in 1 .. n
         /\ k % cols \in 0 .. cols - 1
         /\ k \div cols \in 0 .. CeilDiv(n, cols) - 1
         /\ k = cols * (k \div cols) + (k % cols)
  <1>0. cols \in Nat \ {0} /\ k \in Nat
    OBVIOUS
  <1>1. k % cols \in 0 .. cols - 1 /\ k = cols * (k \div cols) + (k % cols) /\ k \div cols \in Nat
    BY <1>0, Quotients
  <1>2. CeilDiv(n, cols) = (n - 1) \div cols + 1
    <2>1. cols \in Nat \ {0} /\ n - 1 \in Nat
      OBVIOUS
    <2> DEFINE q == (n - 1) \div cols
    <2>4. q \in Int /\ cols * q <= n - 1 /\ n - 1 < cols * q + cols
      BY <2>1, Quotients
    <2> HIDE DEF q
    <2>5. cols * (q + 1) = cols * q + cols /\ cols * q \in Int
      BY <2>1, <2>4
    <2>6. cols * (q + 1) <= n - 1 + cols /\ n - 1 + cols < cols * (q + 1) + cols
      BY <2>1, <2>4, <2>5
    <2>8. n - 1 + cols \in Int /\ q + 1 \in Int
      BY <2>1, <2>4
    <2>9. (n - 1 + cols) \div cols = q + 1
      BY ONLY <2>1, <2>8, <2>6, QuotientIs
    <2>2. (n - 1 + cols) \div cols = (n - 1) \div cols + 1
      BY <2>9 DEF q
    <2>3. n + cols - 1 = n - 1 + cols
      BY <2>1
    <2> QED
      BY <2>2, <2>3 DEF CeilDiv
  <1>3. k \div cols <= (n - 1) \div cols
    OBVIOUS
  <1>4. (n - 1) \div cols \in 0 .. n - 1
    OBVIOUS
  <1> QED
    BY <1>1, <1>2, <1>3, <1>4

-----------------------------------------------------------------------------
(* Sorting                                                                 *)

\* Sorted lists the elements of a set, each once.
LEMMA SortedLists ==
  ASSUME NEW S \in SUBSET Nat, IsFiniteSet(S)
  PROVE  /\ Cardinality(S) \in Nat
         /\ Sorted(S) \in [1 .. Cardinality(S) -> S]
         /\ \A i, j \in 1 .. Cardinality(S) : Sorted(S)[i] = Sorted(S)[j] => i = j
         /\ \A p \in S : \E i \in 1 .. Cardinality(S) : Sorted(S)[i] = p
  <1> DEFINE n == Cardinality(S)
             Below(p) == {q \in S : q < p}
             size == [p \in S |-> Cardinality(Below(p))]
             t == Sorted(S)
  <1>1. n \in Nat /\ IsFiniteSet(1 .. n) /\ Cardinality(1 .. n) = n
    <2>1. n \in Nat
      BY FS_CardinalityType
    <2> HIDE DEF n
    <2> QED
      BY <2>1, FS_Interval
  <1>2. ASSUME NEW p \in S
        PROVE  IsFiniteSet(Below(p)) /\ Cardinality(Below(p)) \in 0 .. n - 1
    <2>1. Below(p) \in SUBSET (S \ {p})
      OBVIOUS
    <2>2. IsFiniteSet(S \ {p}) /\ Cardinality(S \ {p}) = n - 1
      BY FS_RemoveElement
    <2> HIDE DEF n, Below
    <2>3. IsFiniteSet(Below(p)) /\ Cardinality(Below(p)) <= n - 1
      BY <2>1, <2>2, FS_Subset
    <2> QED
      BY <1>1, <2>3, FS_CardinalityType
  <1>3. ASSUME NEW p \in S, NEW q \in S, p < q
        PROVE  Cardinality(Below(p)) < Cardinality(Below(q))
    <2>1. \A r \in S : r < p => r < q
      BY <1>3
    <2>2. p \in Below(q) /\ p \notin Below(p)
      BY <1>3
    <2>3. Below(p) \in SUBSET Below(q)
      BY <2>1
    <2> HIDE DEF n, Below
    <2>4. /\ Cardinality(Below(p)) <= Cardinality(Below(q))
          /\ Cardinality(Below(q)) = Cardinality(Below(p)) => Below(q) = Below(p)
      BY <1>2, <2>3, FS_Subset
    <2> QED
      BY <1>1, <1>2, <2>2, <2>4
  <1>4. \A i \in 1 .. n : t[i] = CHOOSE p \in S : Cardinality(Below(p)) = i - 1
    <2>1. SUFFICES ASSUME NEW i \in 1 .. n
                   PROVE  t[i] = CHOOSE p \in S : Cardinality(Below(p)) = i - 1
      BY Zenon
    <2>2. i \in 1 .. Cardinality(S)
      BY <2>1
    <2>3. t[i] = CHOOSE p \in S : Cardinality({q \in S : q < p}) = i - 1
      BY ONLY <2>2, Zenon DEF Sorted
    <2> QED
      BY <2>3, Zenon
  <1>5. t = [i \in 1 .. n |-> t[i]]
    <2> DEFINE e(i) == CHOOSE p \in S : Cardinality({q \in S : q < p}) = i - 1
    <2>1. t = [i \in 1 .. n |-> e(i)]
      BY Zenon DEF Sorted
    <2> HIDE DEF e, t
    <2> QED
      BY <2>1
  <1> HIDE DEF n, Below, t
  <1>6. size \in [S -> 0 .. n - 1]
    BY <1>2
  <1>7. \A p, q \in S : p < q => size[p] < size[q]
    BY <1>3
  <1>8. \A i \in 1 .. n : t[i] = CHOOSE p \in S : size[p] = i - 1
    BY <1>4
  <1> HIDE DEF size
  <1>9. \A p, q \in S : size[p] = size[q] => p = q
    <2>1. \A p, q \in S : p < q \/ q < p \/ p = q
      OBVIOUS
    <2>2. \A p \in S : size[p] \in Nat
      BY <1>1, <1>6
    <2>3. \A p, q \in S : size[p] < size[q] => size[p] # size[q]
      BY <2>2
    <2> QED
      BY <1>7, <2>1, <2>3
  <1> DEFINE place == [p \in S |-> size[p] + 1]
  <1>10. place \in [S -> 1 .. n] /\ \A p, q \in S : place[p] = place[q] => p = q
    <2>1. \A p \in S : size[p] \in 0 .. n - 1 /\ size[p] + 1 \in 1 .. n
      BY <1>1, <1>6
    <2>2. \A p, q \in S : size[p] + 1 = size[q] + 1 => size[p] = size[q]
      BY <1>1, <2>1
    <2> QED
      BY <1>9, <2>1, <2>2
  <1>11. \A i \in 1 .. n : \E p \in S : size[p] = i - 1
    <2>1. place \in Injection(S, 1 .. n)
      <3> HIDE DEF place
      <3> QED
        BY <1>10 DEF Injection, IsInjective
    <2>2. place \in Surjection(S, 1 .. n)
      <3> HIDE DEF place
      <3> QED
        BY <1>1, <2>1, FS_Injection DEF n
    <2>3. \A i \in 1 .. n : \E p \in S : place[p] = i
      <3> HIDE DEF place
      <3> QED
        BY <2>2 DEF Surjection
    <2>4. \A p \in S : size[p] \in Nat /\ place[p] = size[p] + 1
      BY <1>1, <1>6
    <2> HIDE DEF place
    <2>5. SUFFICES ASSUME NEW i \in 1 .. n PROVE \E p \in S : size[p] = i - 1
      OBVIOUS
    <2>6. PICK p \in S : place[p] = i
      BY <2>3
    <2> QED
      BY <1>1, <2>4, <2>6
  <1>12. \A i \in 1 .. n : t[i] \in S /\ size[t[i]] = i - 1
    BY <1>8, <1>11
  <1>13. t \in [1 .. n -> S]
    BY <1>5, <1>12
  <1>14. \A i, j \in 1 .. n : t[i] = t[j] => i = j
    <2>1. \A i, j \in 1 .. n : i - 1 = j - 1 => i = j
      OBVIOUS
    <2> QED
      BY <1>12, <2>1
  <1>15. \A p \in S : \E i \in 1 .. n : t[i] = p
    <2>1. \A p \in S : size[p] + 1 \in 1 .. n /\ (size[p] + 1) - 1 = size[p]
      BY <1>1, <1>6
    <2>2. \A p \in S : t[size[p] + 1] \in S /\ size[t[size[p] + 1]] = size[p]
      BY <1>12, <2>1
    <2> QED
      BY <1>9, <2>1, <2>2
  <1> QED
    BY <1>1, <1>13, <1>14, <1>15 DEF n, t

-----------------------------------------------------------------------------
(* Layouts                                                                 *)

Frames ==
  [peer : Nat \cup {Nobody}, slot : {NoSlot}, x : Int, y : Int, w : Int, h : Int, z : Int]

\* The people have one frame each, all frames are on the canvas, not empty, and
\* no two of them overlap.
Complete(cells, people) ==
  /\ \A p \in people : \E i \in 1 .. Len(cells) : CellsOf(cells, p) = {i}
  /\ \A i \in 1 .. Len(cells) : OnCanvas(cells[i]) /\ cells[i].w > 0 /\ cells[i].h > 0
  /\ \A i, j \in 1 .. Len(cells) : i # j => ~Overlap(cells[i], cells[j])

\* There are pixels enough for n people.
Enough(n) == n <= Width /\ n <= Height /\ Width >= 4 /\ Height >= 5

\* A frame above a row of frames, or beside a column.
LEMMA FrameAndRow ==
  ASSUME NEW frame \in Frames, NEW row \in Seq(Frames)
  PROVE  LET cells == <<frame>> \o row IN
         /\ cells \in Seq(Frames)
         /\ Len(cells) = Len(row) + 1
         /\ cells[1] = frame
         /\ \A k \in 2 .. Len(row) + 1 : cells[k] = row[k - 1]
  <1> DEFINE one == <<frame>>
  <1>1. one \in Seq(Frames) /\ Len(one) = 1 /\ one[1] = frame
    OBVIOUS
  <1> HIDE DEF one
  <1>2. /\ one \o row \in Seq(Frames) /\ Len(one \o row) = Len(one) + Len(row)
        /\ \A i \in 1 .. Len(one) + Len(row) :
             (one \o row)[i] = IF i <= Len(one) THEN one[i] ELSE row[i - Len(one)]
    BY <1>1, ConcatProperties
  <1>3. Len(row) \in Nat
    OBVIOUS
  <1> QED
    BY <1>1, <1>2, <1>3 DEF one

\* The row is on the canvas, apart from the frame, and shows the other people, one
\* in each of its frames.
RowFits(frame, row, people) ==
  /\ \A i \in 1 .. Len(row) :
       /\ OnCanvas(row[i]) /\ row[i].w > 0 /\ row[i].h > 0
       /\ ~Overlap(frame, row[i])
       /\ row[i].peer # frame.peer
  /\ \A i, j \in 1 .. Len(row) :
       i # j => ~Overlap(row[i], row[j]) /\ row[i].peer # row[j].peer
  /\ \A p \in people \ {frame.peer} : \E i \in 1 .. Len(row) : row[i].peer = p

\* Then the two are complete.
LEMMA FrameAndRowComplete ==
  ASSUME NEW frame \in Frames, NEW row \in Seq(Frames), NEW people,
         OnCanvas(frame), frame.w > 0, frame.h > 0, RowFits(frame, row, people)
  PROVE  Complete(<<frame>> \o row, people)
  <1> DEFINE cells == <<frame>> \o row
  <1>1. /\ Len(cells) = Len(row) + 1 /\ Len(row) \in Nat
        /\ cells[1] = frame
        /\ \A k \in 2 .. Len(row) + 1 : cells[k] = row[k - 1] /\ k - 1 \in 1 .. Len(row)
    BY FrameAndRow
  <1> HIDE DEF cells
  <1>2. \A k \in 1 .. Len(cells) : k = 1 \/ k \in 2 .. Len(row) + 1
    BY <1>1
  <1>3. \A k \in 1 .. Len(cells) : OnCanvas(cells[k]) /\ cells[k].w > 0 /\ cells[k].h > 0
    BY <1>1, <1>2 DEF RowFits
  <1>4. ASSUME NEW k \in 1 .. Len(cells), NEW m \in 1 .. Len(cells), k # m
        PROVE  ~Overlap(cells[k], cells[m]) /\ cells[k].peer # cells[m].peer
    <2>1. CASE k = 1
      <3>1. m \in 2 .. Len(row) + 1
        BY <1>2, <1>4, <2>1
      <3> QED
        BY <1>1, <2>1, <3>1 DEF RowFits
    <2>2. CASE m = 1
      <3>1. k \in 2 .. Len(row) + 1
        BY <1>2, <1>4, <2>2
      <3>2. ~Overlap(frame, cells[k]) /\ cells[k].peer # frame.peer
        BY <1>1, <3>1 DEF RowFits
      <3> QED
        BY <1>1, <2>2, <3>2 DEF Overlap
    <2>3. CASE k # 1 /\ m # 1
      <3>1. k \in 2 .. Len(row) + 1 /\ m \in 2 .. Len(row) + 1
        BY <1>2, <2>3
      <3>2. k - 1 # m - 1
        BY <1>4, <3>1
      <3> QED
        BY <1>1, <3>1, <3>2 DEF RowFits
    <2> QED
      BY <2>1, <2>2, <2>3
  <1>5. ASSUME NEW p \in people PROVE \E k \in 1 .. Len(cells) : cells[k].peer = p
    <2>1. CASE p = frame.peer
      <3>1. 1 \in 1 .. Len(cells)
        BY <1>1
      <3> QED
        BY <1>1, <2>1, <3>1
    <2>2. CASE p # frame.peer
      <3>1. PICK i \in 1 .. Len(row) : row[i].peer = p
        BY <2>2 DEF RowFits
      <3>2. i + 1 \in 2 .. Len(row) + 1 /\ i + 1 \in 1 .. Len(cells) /\ (i + 1) - 1 = i
        BY <1>1
      <3> QED
        BY <1>1, <3>1, <3>2
    <2> QED
      BY <2>1, <2>2
  <1>6. \A p \in people : \E k \in 1 .. Len(cells) : CellsOf(cells, p) = {k}
    BY <1>4, <1>5 DEF CellsOf
  <1> QED
    BY <1>3, <1>4, <1>6 DEF Complete, cells

\* The grid.
LEMMA GridComplete ==
  ASSUME NEW peers \in Seq(Nat), peers # <<>>, IsInjective(peers), Enough(Len(peers))
  PROVE  Complete(Grid(peers), ToSet(peers))
  <1> DEFINE n == Len(peers)
             cols == Columns(n)
             rows == CeilDiv(n, cols)
             cells == Grid(peers)
             c(i) == (i - 1) % cols
             r(i) == (i - 1) \div cols
  <1>1. n \in Nat \ {0}
    OBVIOUS
  <1>2. cols \in 1 .. n
    BY <1>1, ColumnsExist
  <1>3. /\ Len(cells) = n
        /\ \A i \in 1 .. n :
             cells[i] = Cell(peers[i], (c(i) * Width) \div cols, (r(i) * Height) \div rows,
                             Width \div cols, Height \div rows, 0)
    BY <1>1 DEF Grid
  <1> HIDE DEF n, cols, cells
  <1>4. ASSUME NEW i \in 1 .. n
        PROVE  /\ rows \in 1 .. n /\ c(i) \in 0 .. cols - 1 /\ r(i) \in 0 .. rows - 1
               /\ i - 1 = cols * r(i) + c(i)
    <2>1. i - 1 \in 0 .. n - 1
      BY <1>1
    <2> QED
      BY <1>1, <1>2, <2>1, GridPlace
  <1>5. \A i, j \in 1 .. n : i # j => c(i) # c(j) \/ r(i) # r(j)
    <2>1. SUFFICES ASSUME NEW i \in 1 .. n, NEW j \in 1 .. n, c(i) = c(j), r(i) = r(j)
                   PROVE  i = j
      BY Zenon
    <2>2. i - 1 = j - 1
      BY <1>4, <2>1
    <2> QED
      BY <1>1, <2>2
  <1>6. rows \in 1 .. n
    BY <1>1, <1>4
  <1> HIDE DEF rows, c, r
  <1>7. Width \in Nat /\ Height \in Nat /\ cols \in Nat \ {0} /\ rows \in Nat \ {0}
    BY <1>1, <1>2, <1>6, LayoutAssumption
  <1>8. cols <= Width /\ rows <= Height
    BY <1>1, <1>2, <1>6, <1>7 DEF Enough, n
  <1>9. ASSUME NEW i \in 1 .. n
        PROVE  OnCanvas(cells[i]) /\ cells[i].w > 0 /\ cells[i].h > 0
    <2>1. /\ (c(i) * Width) \div cols \in Nat
          /\ (c(i) * Width) \div cols + Width \div cols <= Width
          /\ Width \div cols > 0
      BY <1>4, <1>7, <1>8, FrameFits
    <2>2. /\ (r(i) * Height) \div rows \in Nat
          /\ (r(i) * Height) \div rows + Height \div rows <= Height
          /\ Height \div rows > 0
      BY <1>4, <1>7, <1>8, FrameFits
    <2> QED
      BY <1>3, <2>1, <2>2 DEF Cell, OnCanvas
  <1>10. ASSUME NEW i \in 1 .. n, NEW j \in 1 .. n, i # j
         PROVE  ~Overlap(cells[i], cells[j])
    <2>1. c(i) \in 0 .. cols - 1 /\ c(j) \in 0 .. cols - 1
      BY <1>4
    <2>2. r(i) \in 0 .. rows - 1 /\ r(j) \in 0 .. rows - 1
      BY <1>4
    <2>3. c(i) < c(j) \/ c(j) < c(i) \/ r(i) < r(j) \/ r(j) < r(i)
      <3>1. c(i) # c(j) \/ r(i) # r(j)
        BY <1>5, <1>10
      <3> QED
        BY <1>7, <2>1, <2>2, <3>1
    <2> DEFINE X(k) == (c(k) * Width) \div cols
               Y(k) == (r(k) * Height) \div rows
    <2>4. /\ X(i) \in Nat /\ X(j) \in Nat /\ Width \div cols \in Nat
          /\ Y(i) \in Nat /\ Y(j) \in Nat /\ Height \div rows \in Nat
      BY <1>7, <2>1, <2>2, FrameFits
    <2>5. \/ X(i) + Width \div cols <= X(j) \/ X(j) + Width \div cols <= X(i)
          \/ Y(i) + Height \div rows <= Y(j) \/ Y(j) + Height \div rows <= Y(i)
      BY <1>7, <2>1, <2>2, <2>3, FramesApart
    <2>6. /\ cells[i].x = X(i) /\ cells[j].x = X(j) /\ cells[i].y = Y(i) /\ cells[j].y = Y(j)
          /\ cells[i].w = Width \div cols /\ cells[j].w = Width \div cols
          /\ cells[i].h = Height \div rows /\ cells[j].h = Height \div rows
      BY <1>3 DEF Cell
    <2> HIDE DEF X, Y
    <2> QED
      BY <2>4, <2>5, <2>6 DEF Overlap
  <1>11. \A p \in ToSet(peers) : \E i \in 1 .. n : CellsOf(cells, p) = {i}
    <2>1. \A i \in 1 .. n : cells[i].peer = peers[i]
      BY <1>3 DEF Cell
    <2>2. \A i, j \in 1 .. n : peers[i] = peers[j] => i = j
      BY DEF IsInjective, n
    <2>3. \A p \in ToSet(peers) : \E i \in 1 .. n : peers[i] = p
      BY DEF ToSet, n
    <2> QED
      BY <1>3, <2>1, <2>2, <2>3 DEF CellsOf
  <1> QED
    BY <1>3, <1>9, <1>10, <1>11 DEF Complete, cells

\* The members of a sequence are at most as many as its length.
LEMMA MembersFinite ==
  ASSUME NEW T, NEW s \in Seq(T)
  PROVE  IsFiniteSet(ToSet(s)) /\ Cardinality(ToSet(s)) <= Len(s)
  <1>1. s \in [1 .. Len(s) -> ToSet(s)] /\ \A e \in ToSet(s) : \E i \in 1 .. Len(s) : s[i] = e
    BY DEF ToSet
  <1>2. s \in Surjection(1 .. Len(s), ToSet(s))
    BY <1>1 DEF Surjection
  <1>3. Len(s) \in Nat
    OBVIOUS
  <1>4. IsFiniteSet(1 .. Len(s)) /\ Cardinality(1 .. Len(s)) = Len(s)
    BY <1>3, FS_Interval
  <1> QED
    BY <1>2, <1>4, FS_Surjection

\* Eight and two tenths, seven and three tenths.
LEMMA Tenths ==
  ASSUME NEW length \in Nat
  PROVE  /\ (length * 8) \div 10 \in Nat /\ (length * 2) \div 10 \in Nat
         /\ (length * 8) \div 10 + (length * 2) \div 10 <= length
         /\ (length * 7) \div 10 \in Nat /\ (length * 3) \div 10 \in Nat
         /\ (length * 7) \div 10 + (length * 3) \div 10 <= length
         /\ length >= 5 => /\ (length * 2) \div 10 > 0
                           /\ (length * 2) \div 10 < (length * 8) \div 10
         /\ length >= 4 => (length * 7) \div 10 > 0 /\ (length * 3) \div 10 > 0
  OBVIOUS

\* The speaker and the row of the others.
LEMMA ActiveSpeakerComplete ==
  ASSUME NEW peers \in Seq(Nat), peers # <<>>, NEW spk \in Nat \cup {Nobody},
         Enough(Len(peers))
  PROVE  LET cells == ActiveSpeaker(peers, spk)
             main == IF spk = Nobody THEN peers[1] ELSE spk IN
         /\ cells \in Seq(Frames)
         /\ Complete(cells, ToSet(peers))
         /\ cells[1].peer = main /\ Len(cells) >= 1
         /\ \A k \in 2 .. Len(cells) :
              cells[k].w * cells[k].h < cells[1].w * cells[1].h
  <1> DEFINE main == IF spk = Nobody THEN peers[1] ELSE spk
             others == ToSet(peers) \ {main}
             thumbs == Sorted(others)
             m == Cardinality(others)
             mainH == (Height * 8) \div 10
             thumbH == (Height * 2) \div 10
             big == Cell(main, 0, 0, Width, mainH, 1)
             Small(i) == Cell(thumbs[i], ((i - 1) * Width) \div m, mainH, Width \div m, thumbH, 0)
             row == [i \in 1 .. m |-> Small(i)]
  <1>1. Len(peers) \in Nat \ {0} /\ peers[1] \in Nat /\ ToSet(peers) \in SUBSET Nat
    BY DEF ToSet
  <1>2. main \in Nat
    BY <1>1
  <1>3. IsFiniteSet(others) /\ m \in 0 .. Len(peers)
    <2>1. IsFiniteSet(ToSet(peers)) /\ Cardinality(ToSet(peers)) <= Len(peers)
      BY MembersFinite
    <2>2. others \in SUBSET ToSet(peers)
      OBVIOUS
    <2> HIDE DEF others
    <2>3. IsFiniteSet(others) /\ Cardinality(others) <= Cardinality(ToSet(peers))
      BY <2>1, <2>2, FS_Subset
    <2>4. Cardinality(others) \in Nat /\ Cardinality(ToSet(peers)) \in Nat
      BY <2>1, <2>3, FS_CardinalityType
    <2> QED
      BY <1>1, <2>1, <2>3, <2>4
  <1>4. /\ thumbs \in [1 .. m -> others]
        /\ \A i, j \in 1 .. m : thumbs[i] = thumbs[j] => i = j
        /\ \A p \in others : \E i \in 1 .. m : thumbs[i] = p
    <2>1. others \in SUBSET Nat
      BY <1>1
    <2> HIDE DEF others
    <2> QED
      BY <1>3, <2>1, SortedLists
  <1>5. ActiveSpeaker(peers, spk) = <<big>> \o row
    <2>1. Len(thumbs) = m
      BY <1>3, <1>4
    <2> HIDE DEF m
    <2>2. ActiveSpeaker(peers, spk) =
            <<big>> \o [i \in 1 .. Len(thumbs) |->
              Cell(thumbs[i], ((i - 1) * Width) \div Len(thumbs), mainH,
                   Width \div Len(thumbs), thumbH, 0)]
      BY Zenon DEF ActiveSpeaker
    <2> QED
      BY <2>1, <2>2, Zenon
  <1>6. Width \in Nat /\ Height \in Nat /\ m <= Width /\ Width >= 4 /\ Height >= 5
    BY <1>1, <1>3, LayoutAssumption DEF Enough
  <1>7. /\ mainH \in Nat /\ thumbH \in Nat /\ mainH + thumbH <= Height
        /\ thumbH > 0 /\ thumbH < mainH
    BY <1>6, Tenths
  <1> HIDE DEF main, others, thumbs, m, mainH, thumbH
  <1>8. ASSUME NEW i \in 1 .. m
        PROVE  /\ m \in Nat \ {0} /\ i - 1 \in 0 .. m - 1
               /\ Width \div m \in Nat /\ ((i - 1) * Width) \div m \in Nat
               /\ ((i - 1) * Width) \div m + Width \div m <= Width
               /\ Width \div m > 0
    <2>1. m \in Nat \ {0} /\ i - 1 \in 0 .. m - 1
      BY <1>1, <1>3
    <2> QED
      BY <1>6, <2>1, FrameFits
  <1>9. big \in Frames /\ big.x = 0 /\ big.y = 0 /\ big.w = Width /\ big.h = mainH /\ big.peer = main
    BY <1>2, <1>6, <1>7 DEF Cell, Frames, NoSlot
  <1>10. ASSUME NEW i \in 1 .. m
         PROVE  /\ row[i] \in Frames /\ row[i].peer = thumbs[i]
                /\ row[i].x = ((i - 1) * Width) \div m /\ row[i].y = mainH
                /\ row[i].w = Width \div m /\ row[i].h = thumbH
    <2>1. thumbs[i] \in Nat
      BY <1>1, <1>4 DEF others
    <2> DEFINE x == ((i - 1) * Width) \div m
               w == Width \div m
    <2>2. row[i] = Cell(thumbs[i], x, mainH, w, thumbH, 0)
      BY <1>10
    <2>3. x \in Nat /\ w \in Nat
      BY <1>8
    <2> HIDE DEF x, w, row
    <2>4. /\ row[i] \in Frames /\ row[i].peer = thumbs[i]
          /\ row[i].x = x /\ row[i].y = mainH /\ row[i].w = w /\ row[i].h = thumbH
      BY <1>7, <2>1, <2>2, <2>3 DEF Cell, Frames, NoSlot
    <2> QED
      BY <2>4 DEF x, w
  <1>11. row \in Seq(Frames) /\ Len(row) = m
    BY <1>3, <1>10
  <1> HIDE DEF row, big
  <1>12. OnCanvas(big) /\ big.w > 0 /\ big.h > 0
    BY <1>6, <1>7, <1>9 DEF OnCanvas
  <1>13. ASSUME NEW i \in 1 .. Len(row)
         PROVE  /\ OnCanvas(row[i]) /\ row[i].w > 0 /\ row[i].h > 0
                /\ ~Overlap(big, row[i])
                /\ row[i].peer # big.peer
    <2>1. i \in 1 .. m
      BY <1>11
    <2>2. row[i].peer # big.peer
      BY <1>4, <1>9, <1>10, <2>1 DEF others
    <2>3. row[i].y = mainH /\ row[i].h = thumbH
      BY <1>10, <2>1
    <2> DEFINE x == row[i].x
               w == row[i].w
    <2>4. x \in Nat /\ w \in Nat /\ x + w <= Width /\ w > 0
      BY <1>8, <1>10, <2>1
    <2> HIDE DEF x, w
    <2>5. OnCanvas(row[i]) /\ row[i].w > 0 /\ row[i].h > 0
      BY <1>6, <1>7, <2>3, <2>4 DEF OnCanvas, x, w
    <2>6. ~Overlap(big, row[i])
      BY <1>7, <1>9, <2>3 DEF Overlap
    <2> QED
      BY <2>2, <2>5, <2>6
  <1>14. ASSUME NEW i \in 1 .. Len(row), NEW j \in 1 .. Len(row), i # j
         PROVE  ~Overlap(row[i], row[j]) /\ row[i].peer # row[j].peer
    <2>1. i \in 1 .. m /\ j \in 1 .. m /\ (i - 1 < j - 1 \/ j - 1 < i - 1)
      BY <1>3, <1>11, <1>14
    <2> DEFINE X(k) == ((k - 1) * Width) \div m
    <2>2. X(i) + Width \div m <= X(j) \/ X(j) + Width \div m <= X(i)
      BY <1>6, <1>8, <2>1, FramesApart
    <2>3. X(i) \in Nat /\ X(j) \in Nat /\ Width \div m \in Nat
      BY <1>8, <2>1
    <2>4. row[i].x = X(i) /\ row[j].x = X(j) /\ row[i].w = Width \div m /\ row[j].w = Width \div m
      BY <1>10, <2>1
    <2> HIDE DEF X
    <2>5. ~Overlap(row[i], row[j])
      BY <2>2, <2>3, <2>4 DEF Overlap
    <2> QED
      BY <1>4, <1>10, <1>14, <2>1, <2>5
  <1>15. \A p \in ToSet(peers) \ {big.peer} : \E i \in 1 .. Len(row) : row[i].peer = p
    <2>1. \A i \in 1 .. m : row[i].peer = thumbs[i]
      BY <1>10
    <2>2. Len(row) = m /\ big.peer = main
      BY <1>9, <1>11
    <2>3. SUFFICES ASSUME NEW p \in ToSet(peers) \ {main}
                   PROVE  \E i \in 1 .. m : row[i].peer = p
      BY <2>2, Zenon
    <2>4. PICK i \in 1 .. m : thumbs[i] = p
      BY <1>4 DEF others
    <2> QED
      BY <2>1, <2>4
  <1>16. Complete(<<big>> \o row, ToSet(peers))
    <2>1. RowFits(big, row, ToSet(peers))
      BY <1>13, <1>14, <1>15 DEF RowFits
    <2> QED
      BY <1>9, <1>11, <1>12, <2>1, FrameAndRowComplete
  <1>17. /\ <<big>> \o row \in Seq(Frames)
         /\ Len(<<big>> \o row) = m + 1
         /\ (<<big>> \o row)[1] = big
         /\ \A k \in 2 .. m + 1 : (<<big>> \o row)[k] = row[k - 1]
    BY <1>9, <1>11, FrameAndRow
  <1>18. ASSUME NEW i \in 1 .. m PROVE row[i].w * row[i].h < big.w * big.h
    <2>1. Width \div m \in Nat /\ Width \div m <= Width
      BY <1>6, <1>8
    <2> DEFINE tw == Width \div m
    <2> HIDE DEF tw
    <2>2. tw \in Nat /\ tw <= Width
      BY <2>1 DEF tw
    <2>3. tw * thumbH <= Width * thumbH
      BY <1>6, <1>7, <2>2
    <2>4. Width * thumbH < Width * mainH
      BY <1>6, <1>7
    <2>5. tw * thumbH \in Nat /\ Width * thumbH \in Nat /\ Width * mainH \in Nat
      BY <1>6, <1>7, <2>2
    <2>6. tw * thumbH < Width * mainH
      BY <2>3, <2>4, <2>5
    <2>7. row[i].w = tw /\ row[i].h = thumbH
      BY <1>10 DEF tw
    <2> QED
      BY <1>9, <2>6, <2>7, Zenon
  <1>19. \A k \in 2 .. m + 1 : k - 1 \in 1 .. m
    BY <1>1, <1>3
  <1> DEFINE cells == ActiveSpeaker(peers, spk)
  <1>20. cells \in Seq(Frames) /\ Complete(cells, ToSet(peers))
    BY <1>5, <1>16, <1>17
  <1>21. cells[1].peer = main /\ Len(cells) = m + 1 /\ cells[1] = big
    BY <1>5, <1>9, <1>17
  <1>22. \A k \in 2 .. Len(cells) : cells[k].w * cells[k].h < cells[1].w * cells[1].h
    BY <1>5, <1>17, <1>18, <1>19, <1>21
  <1>23. Len(cells) >= 1
    BY <1>3, <1>21
  <1> HIDE DEF cells
  <1> QED
    BY <1>20, <1>21, <1>22, <1>23 DEF cells, main

\* Whoever joined first, and the column of the others.
LEMMA LectureComplete ==
  ASSUME NEW peers \in Seq(Nat), peers # <<>>, IsInjective(peers), Enough(Len(peers))
  PROVE  Complete(Lecture(peers), ToSet(peers))
  <1> DEFINE others == Tail(peers)
             m == Len(others)
             mainW == (Width * 7) \div 10
             restW == (Width * 3) \div 10
             big == Cell(peers[1], 0, 0, mainW, Height, 1)
             column == [i \in 1 .. m |->
                         Cell(others[i], mainW, ((i - 1) * Height) \div m, restW, Height \div m, 0)]
  <1>1. Len(peers) \in Nat \ {0} /\ \A i \in 1 .. Len(peers) : peers[i] \in Nat
    OBVIOUS
  <1>2. m = Len(peers) - 1 /\ m \in Nat /\ \A i \in 1 .. m : others[i] = peers[i + 1]
    BY <1>1
  <1>3. Lecture(peers) = <<big>> \o column
    BY Zenon DEF Lecture
  <1>4. Width \in Nat /\ Height \in Nat /\ m <= Height /\ Width >= 4 /\ Height >= 5
    BY <1>1, <1>2, LayoutAssumption DEF Enough
  <1>5. mainW \in Nat /\ restW \in Nat /\ mainW + restW <= Width /\ mainW > 0 /\ restW > 0
    BY <1>4, Tenths
  <1> HIDE DEF others, m, mainW, restW
  <1>6. ASSUME NEW i \in 1 .. m
        PROVE  /\ m \in Nat \ {0} /\ i - 1 \in 0 .. m - 1
               /\ Height \div m \in Nat /\ ((i - 1) * Height) \div m \in Nat
               /\ ((i - 1) * Height) \div m + Height \div m <= Height
               /\ Height \div m > 0
    <2>1. m \in Nat \ {0} /\ i - 1 \in 0 .. m - 1
      BY <1>2
    <2> QED
      BY <1>4, <2>1, FrameFits
  <1>7. /\ big \in Frames /\ big.x = 0 /\ big.y = 0 /\ big.w = mainW /\ big.h = Height
        /\ big.peer = peers[1]
    BY <1>1, <1>4, <1>5 DEF Cell, Frames, NoSlot
  <1>8. ASSUME NEW i \in 1 .. m
        PROVE  /\ column[i] \in Frames /\ column[i].peer = peers[i + 1]
               /\ column[i].x = mainW /\ column[i].y = ((i - 1) * Height) \div m
               /\ column[i].w = restW /\ column[i].h = Height \div m
    <2>1. others[i] = peers[i + 1] /\ others[i] \in Nat
      BY <1>1, <1>2
    <2> DEFINE y == ((i - 1) * Height) \div m
               h == Height \div m
    <2>2. column[i] = Cell(others[i], mainW, y, restW, h, 0)
      BY <1>8
    <2>3. y \in Nat /\ h \in Nat
      BY <1>6
    <2> HIDE DEF y, h, column
    <2>4. /\ column[i] \in Frames /\ column[i].peer = others[i]
          /\ column[i].x = mainW /\ column[i].y = y /\ column[i].w = restW /\ column[i].h = h
      BY <1>5, <2>1, <2>2, <2>3 DEF Cell, Frames, NoSlot
    <2> QED
      BY <2>1, <2>4 DEF y, h
  <1>9. column \in Seq(Frames) /\ Len(column) = m
    BY <1>2, <1>8
  <1> HIDE DEF column, big
  <1>10. OnCanvas(big) /\ big.w > 0 /\ big.h > 0
    BY <1>4, <1>5, <1>7 DEF OnCanvas
  <1>11. \A i, j \in 1 .. Len(peers) : peers[i] = peers[j] => i = j
    BY DEF IsInjective
  <1>12. ASSUME NEW i \in 1 .. Len(column)
         PROVE  /\ OnCanvas(column[i]) /\ column[i].w > 0 /\ column[i].h > 0
                /\ ~Overlap(big, column[i])
                /\ column[i].peer # big.peer
    <2>1. i \in 1 .. m /\ i + 1 \in 1 .. Len(peers) /\ i + 1 # 1 /\ 1 \in 1 .. Len(peers)
      BY <1>1, <1>2, <1>9
    <2>2. column[i].peer # big.peer
      BY <1>7, <1>8, <1>11, <2>1
    <2>3. column[i].x = mainW /\ column[i].w = restW
      BY <1>8, <2>1
    <2> DEFINE y == column[i].y
               h == column[i].h
    <2>4. y \in Nat /\ h \in Nat /\ y + h <= Height /\ h > 0
      BY <1>6, <1>8, <2>1
    <2> HIDE DEF y, h
    <2>5. OnCanvas(column[i]) /\ column[i].w > 0 /\ column[i].h > 0
      BY <1>4, <1>5, <2>3, <2>4 DEF OnCanvas, y, h
    <2>6. ~Overlap(big, column[i])
      BY <1>5, <1>7, <2>3 DEF Overlap
    <2> QED
      BY <2>2, <2>5, <2>6
  <1>13. ASSUME NEW i \in 1 .. Len(column), NEW j \in 1 .. Len(column), i # j
         PROVE  ~Overlap(column[i], column[j]) /\ column[i].peer # column[j].peer
    <2>1. i \in 1 .. m /\ j \in 1 .. m /\ (i - 1 < j - 1 \/ j - 1 < i - 1)
      BY <1>2, <1>9, <1>13
    <2> DEFINE Y(k) == ((k - 1) * Height) \div m
    <2>2. Y(i) + Height \div m <= Y(j) \/ Y(j) + Height \div m <= Y(i)
      BY <1>4, <1>6, <2>1, FramesApart
    <2>3. Y(i) \in Nat /\ Y(j) \in Nat /\ Height \div m \in Nat
      BY <1>6, <2>1
    <2>4. /\ column[i].y = Y(i) /\ column[j].y = Y(j)
          /\ column[i].h = Height \div m /\ column[j].h = Height \div m
      BY <1>8, <2>1
    <2> HIDE DEF Y
    <2>5. ~Overlap(column[i], column[j])
      BY <2>2, <2>3, <2>4 DEF Overlap
    <2>6. i + 1 \in 1 .. Len(peers) /\ j + 1 \in 1 .. Len(peers) /\ i + 1 # j + 1
      BY <1>2, <1>13, <2>1
    <2>7. column[i].peer = peers[i + 1] /\ column[j].peer = peers[j + 1]
      BY <1>8, <2>1
    <2> QED
      BY <1>11, <2>5, <2>6, <2>7
  <1>14. ASSUME NEW p \in ToSet(peers) \ {big.peer}
         PROVE  \E i \in 1 .. Len(column) : column[i].peer = p
    <2>1. PICK k \in 1 .. Len(peers) : peers[k] = p
      BY DEF ToSet
    <2>2. k # 1
      BY <1>7, <2>1
    <2>3. k - 1 \in 1 .. m /\ (k - 1) + 1 = k
      BY <1>1, <1>2, <2>2
    <2>4. column[k - 1].peer = peers[(k - 1) + 1]
      BY <1>8, <2>3
    <2> QED
      BY <1>9, <2>1, <2>3, <2>4
  <1>15. RowFits(big, column, ToSet(peers))
    BY <1>12, <1>13, <1>14 DEF RowFits
  <1> QED
    BY <1>3, <1>7, <1>9, <1>10, <1>15, FrameAndRowComplete

\* Quotients are integers.
LEMMA QuotientType ==
  ASSUME NEW a \in Int, NEW b \in Nat \ {0}
  PROVE  a \div b \in Int
  OBVIOUS

\* The grid consists of frames.
LEMMA GridFrames ==
  ASSUME NEW peers \in Seq(Nat), peers # <<>>
  PROVE  Grid(peers) \in Seq(Frames)
  <1> DEFINE n == Len(peers)
             cols == Columns(n)
             rows == CeilDiv(n, cols)
             E(i) == Cell(peers[i],
                       (((i - 1) % cols) * Width) \div cols,
                       (((i - 1) \div cols) * Height) \div rows,
                       Width \div cols, Height \div rows, 0)
  <1>1. n \in Nat \ {0} /\ Width \in Nat /\ Height \in Nat
    BY LayoutAssumption
  <1>2. cols \in 1 .. n
    BY <1>1, ColumnsExist
  <1>3. Grid(peers) = [i \in 1 .. n |-> E(i)]
    BY Zenon DEF Grid
  <1>4. ASSUME NEW i \in 1 .. n PROVE E(i) \in Frames
    <2> HIDE DEF n, cols
    <2>1. i - 1 \in 0 .. n - 1
      BY <1>1
    <2>7. /\ rows \in 1 .. n /\ (i - 1) % cols \in 0 .. cols - 1
          /\ (i - 1) \div cols \in 0 .. rows - 1
      BY <1>1, <1>2, <2>1, GridPlace
    <2>2. rows \in 1 .. n /\ (i - 1) % cols \in Nat /\ (i - 1) \div cols \in Nat
      BY <2>7
    <2> HIDE DEF rows
    <2> DEFINE c == (i - 1) % cols
               r == (i - 1) \div cols
    <2>3. c * Width \in Int /\ r * Height \in Int
      BY <1>1, <2>2
    <2>4. cols \in Nat \ {0} /\ rows \in Nat \ {0}
      BY <1>1, <1>2, <2>2
    <2>5. /\ (c * Width) \div cols \in Int /\ (r * Height) \div rows \in Int
          /\ Width \div cols \in Int /\ Height \div rows \in Int
      BY <1>1, <2>3, <2>4, QuotientType
    <2>6. peers[i] \in Nat
      BY DEF n
    <2> DEFINE x == (c * Width) \div cols
               y == (r * Height) \div rows
               w == Width \div cols
               h == Height \div rows
    <2> HIDE DEF c, r
    <2>8. x \in Int /\ y \in Int /\ w \in Int /\ h \in Int
      BY <2>5
    <2> HIDE DEF x, y, w, h
    <2>9. Cell(peers[i], x, y, w, h, 0) \in Frames
      BY <2>6, <2>8 DEF Cell, Frames
    <2> QED
      BY <2>9 DEF c, r, x, y, w, h
  <1> HIDE DEF n, E
  <1> QED
    BY <1>1, <1>3, <1>4

\* So does the speaker's frame with its row.
LEMMA ActiveSpeakerFrames ==
  ASSUME NEW peers \in Seq(Nat), peers # <<>>, NEW spk \in Nat \cup {Nobody}
  PROVE  ActiveSpeaker(peers, spk) \in Seq(Frames)
  <1> DEFINE main == IF spk = Nobody THEN peers[1] ELSE spk
             others == ToSet(peers) \ {main}
             thumbs == Sorted(others)
             mainH == (Height * 8) \div 10
             thumbH == (Height * 2) \div 10
             big == Cell(main, 0, 0, Width, mainH, 1)
             E(i) == Cell(thumbs[i], ((i - 1) * Width) \div Len(thumbs), mainH,
                          Width \div Len(thumbs), thumbH, 0)
             row == [i \in 1 .. Len(thumbs) |-> E(i)]
  <1>1. Width \in Nat /\ Height \in Nat
    BY LayoutAssumption
  <1>2. main \in Nat /\ others \in SUBSET Nat /\ IsFiniteSet(others)
    <2>1. main \in Nat /\ ToSet(peers) \in SUBSET Nat
      BY DEF ToSet
    <2>2. IsFiniteSet(ToSet(peers))
      BY MembersFinite
    <2> QED
      BY <2>1, <2>2, FS_RemoveElement
  <1>3. Len(thumbs) \in Nat /\ \A i \in 1 .. Len(thumbs) : thumbs[i] \in Nat
    <2> HIDE DEF others
    <2> DEFINE m == Cardinality(others)
    <2>1. m \in Nat /\ thumbs \in [1 .. m -> others]
      BY <1>2, SortedLists
    <2> HIDE DEF thumbs, m
    <2>2. Len(thumbs) = m
      BY <2>1
    <2> QED
      BY <1>2, <2>1, <2>2
  <1>4. ActiveSpeaker(peers, spk) = <<big>> \o row
    BY Zenon DEF ActiveSpeaker
  <1>5. mainH \in Int /\ thumbH \in Int
    BY <1>1
  <1> HIDE DEF main, thumbs, mainH, thumbH
  <1>6. big \in Frames
    BY <1>1, <1>2, <1>5 DEF Cell, Frames
  <1>7. ASSUME NEW i \in 1 .. Len(thumbs) PROVE E(i) \in Frames
    <2>1. (i - 1) * Width \in Int /\ Len(thumbs) \in Nat \ {0}
      BY <1>1, <1>3
    <2>2. ((i - 1) * Width) \div Len(thumbs) \in Int /\ Width \div Len(thumbs) \in Int
      BY <1>1, <2>1, QuotientType
    <2> DEFINE x == ((i - 1) * Width) \div Len(thumbs)
               w == Width \div Len(thumbs)
    <2>3. x \in Int /\ w \in Int
      BY <2>2
    <2> HIDE DEF x, w
    <2>4. Cell(thumbs[i], x, mainH, w, thumbH, 0) \in Frames
      BY <1>3, <1>5, <2>3 DEF Cell, Frames
    <2> QED
      BY <2>4 DEF x, w
  <1> HIDE DEF E, big
  <1>8. row \in Seq(Frames)
    BY <1>3, <1>7
  <1> HIDE DEF row
  <1> QED
    BY <1>4, <1>6, <1>8, FrameAndRow

\* The same with a column.
LEMMA LectureFrames ==
  ASSUME NEW peers \in Seq(Nat), peers # <<>>
  PROVE  Lecture(peers) \in Seq(Frames)
  <1> DEFINE others == Tail(peers)
             mainW == (Width * 7) \div 10
             restW == (Width * 3) \div 10
             big == Cell(peers[1], 0, 0, mainW, Height, 1)
             E(i) == Cell(others[i], mainW, ((i - 1) * Height) \div Len(others), restW,
                          Height \div Len(others), 0)
             column == [i \in 1 .. Len(others) |-> E(i)]
  <1>1. Width \in Nat /\ Height \in Nat /\ peers[1] \in Nat
    BY LayoutAssumption
  <1>2. Len(others) \in Nat /\ \A i \in 1 .. Len(others) : others[i] \in Nat
    OBVIOUS
  <1>3. Lecture(peers) = <<big>> \o column
    BY Zenon DEF Lecture
  <1>4. mainW \in Int /\ restW \in Int
    BY <1>1
  <1> HIDE DEF others, mainW, restW
  <1>5. big \in Frames
    BY <1>1, <1>4 DEF Cell, Frames
  <1>6. ASSUME NEW i \in 1 .. Len(others) PROVE E(i) \in Frames
    <2>1. (i - 1) * Height \in Int /\ Len(others) \in Nat \ {0}
      BY <1>1, <1>2
    <2>2. ((i - 1) * Height) \div Len(others) \in Int /\ Height \div Len(others) \in Int
      BY <1>1, <2>1, QuotientType
    <2> DEFINE y == ((i - 1) * Height) \div Len(others)
               h == Height \div Len(others)
    <2>3. y \in Int /\ h \in Int
      BY <2>2
    <2> HIDE DEF y, h
    <2>4. Cell(others[i], mainW, y, restW, h, 0) \in Frames
      BY <1>1, <1>2, <1>4, <2>3 DEF Cell, Frames
    <2> QED
      BY <2>4 DEF y, h
  <1> HIDE DEF E, big
  <1>7. column \in Seq(Frames)
    BY <1>2, <1>6
  <1> HIDE DEF column
  <1> QED
    BY <1>3, <1>5, <1>7, FrameAndRow

\* The same with a corner.
LEMMA PiPFrames ==
  ASSUME NEW peers \in Seq(Nat), peers # <<>>, NEW spk \in Nat \cup {Nobody}
  PROVE  PiP(peers, spk) \in Seq(Frames)
  <1> DEFINE main == IF spk = Nobody THEN peers[1] ELSE spk
             sw == Width \div 4
             sh == Height \div 4
             big == Cell(main, 0, 0, Width, Height, 1)
             corner == Cell(peers[2], Width - sw - 16, Height - sh - 16, sw, sh, 5)
  <1>1. Width \in Nat /\ Height \in Nat /\ main \in Nat
    BY LayoutAssumption
  <1>2. sw \in Int /\ sh \in Int
    BY <1>1
  <1>3. PiP(peers, spk) = <<big>> \o (IF Len(peers) > 1 THEN <<corner>> ELSE <<>>)
    BY Zenon DEF PiP
  <1> HIDE DEF main, sw, sh
  <1>4. big \in Frames
    BY <1>1 DEF Cell, Frames
  <1>5. CASE Len(peers) > 1
    <2>1. peers[2] \in Nat
      BY <1>5
    <2>2. corner \in Frames
      BY <1>1, <1>2, <2>1 DEF Cell, Frames
    <2> HIDE DEF corner, big
    <2> QED
      BY <1>3, <1>4, <1>5, <2>2, FrameAndRow
  <1>6. CASE ~(Len(peers) > 1)
    <2> HIDE DEF corner, big
    <2> QED
      BY <1>3, <1>4, <1>6, FrameAndRow
  <1> QED
    BY <1>5, <1>6

\* Whatever the mode, an algorithmic layout is a sequence of frames.
LEMMA ComputeFrames ==
  ASSUME NEW m, NEW peers \in Seq(Nat), NEW spk \in Nat \cup {Nobody}
  PROVE  Compute(m, spk, peers) \in Seq(Frames)
  <1>1. CASE peers = <<>> \/ m = "custom"
    BY <1>1 DEF Compute
  <1>2. CASE peers # <<>> /\ m # "custom"
    BY <1>2, GridFrames, ActiveSpeakerFrames, LectureFrames, PiPFrames DEF Compute
  <1> QED
    BY <1>1, <1>2

-----------------------------------------------------------------------------
(* The joining order                                                       *)

\* removeID takes the one entry of an id out of a list without repetitions.
LEMMA RemoveOnce ==
  ASSUME NEW T, NEW s \in Seq(T), IsInjective(s), NEW e \in ToSet(s)
  PROVE  /\ RemoveFirst(s, e) \in Seq(T)
         /\ IsInjective(RemoveFirst(s, e))
         /\ ToSet(RemoveFirst(s, e)) = ToSet(s) \ {e}
  <1>1. PICK k \in 1 .. Len(s) : s[k] = e
    BY DEF ToSet
  <1>2. \A i, j \in 1 .. Len(s) : s[i] = s[j] => i = j
    BY DEF IsInjective
  <1>3. {i \in 1 .. Len(s) : s[i] = e} = {k}
    BY <1>1, <1>2
  <1>4. Min({k}) = k
    BY DEF Min
  <1> DEFINE a == SubSeq(s, 1, k - 1)
             b == SubSeq(s, k + 1, Len(s))
             r == a \o b
  <1>5. RemoveFirst(s, e) = r
    BY <1>1, <1>3, <1>4 DEF RemoveFirst, SelectInSeq, RemoveAt
  <1>6. a \in Seq(T) /\ Len(a) = k - 1 /\ \A i \in 1 .. k - 1 : a[i] = s[i]
    OBVIOUS
  <1>7. /\ b \in Seq(T) /\ Len(b) = Len(s) - k
        /\ \A i \in 1 .. Len(s) - k : b[i] = s[k + i]
    OBVIOUS
  <1> HIDE DEF a, b
  <1>8. /\ r \in Seq(T) /\ Len(r) = Len(s) - 1
        /\ \A i \in 1 .. Len(s) - 1 : r[i] = IF i < k THEN s[i] ELSE s[i + 1]
    <2>1. /\ r \in Seq(T) /\ Len(r) = Len(a) + Len(b)
          /\ \A i \in 1 .. Len(a) + Len(b) : r[i] = IF i <= Len(a) THEN a[i] ELSE b[i - Len(a)]
      BY <1>6, <1>7, ConcatProperties
    <2> HIDE DEF r
    <2>2. Len(s) \in Nat /\ k \in 1 .. Len(s)
      OBVIOUS
    <2>3. ASSUME NEW i \in 1 .. Len(s) - 1
          PROVE  r[i] = IF i < k THEN s[i] ELSE s[i + 1]
      <3>1. CASE i < k
        <4>1. i \in 1 .. k - 1 /\ i <= Len(a) /\ i \in 1 .. Len(a) + Len(b)
          BY <1>6, <1>7, <2>2, <3>1
        <4>2. r[i] = a[i] /\ a[i] = s[i]
          BY <1>6, <2>1, <4>1
        <4> QED
          BY <3>1, <4>2
      <3>2. CASE i >= k
        <4>1. i - (k - 1) \in 1 .. Len(s) - k /\ k + (i - (k - 1)) = i + 1
          BY <2>2, <3>2
        <4>2. r[i] = b[i - (k - 1)]
          BY <1>6, <1>7, <2>1, <2>2, <3>2
        <4> QED
          BY <1>7, <2>2, <3>2, <4>1, <4>2
      <3> QED
        BY <2>2, <3>1, <3>2
    <2> QED
      BY <1>6, <1>7, <2>1, <2>2, <2>3
  <1> HIDE DEF r
  <1>9. IsInjective(r)
    BY <1>2, <1>8 DEF IsInjective
  <1>10. ToSet(r) \subseteq ToSet(s) \ {e}
    BY <1>1, <1>2, <1>8 DEF ToSet
  <1>11. ASSUME NEW i \in 1 .. Len(s), s[i] # e PROVE s[i] \in ToSet(r)
    <2>1. DOMAIN r = 1 .. Len(s) - 1
      BY <1>8
    <2>2. CASE i < k
      <3>1. i \in DOMAIN r /\ r[i] = s[i]
        BY <1>8, <2>1, <2>2
      <3> QED
        BY <3>1 DEF ToSet
    <2>3. CASE i > k
      <3>1. i - 1 \in DOMAIN r /\ r[i - 1] = s[i]
        BY <1>8, <2>1, <2>3
      <3> QED
        BY <3>1 DEF ToSet
    <2> QED
      BY <1>1, <1>11, <2>2, <2>3
  <1>12. ToSet(s) \ {e} \subseteq ToSet(r)
    BY <1>11 DEF ToSet
  <1> QED
    BY <1>5, <1>8, <1>9, <1>10, <1>12

\* A new id is appended.
LEMMA AppendOnce ==
  ASSUME NEW T, NEW s \in Seq(T), IsInjective(s), NEW e \in T, e \notin ToSet(s)
  PROVE  /\ Append(s, e) \in Seq(T) /\ IsInjective(Append(s, e))
         /\ ToSet(Append(s, e)) = ToSet(s) \cup {e}
  <1> DEFINE r == Append(s, e)
  <1>1. /\ r \in Seq(T) /\ Len(r) = Len(s) + 1 /\ Len(s) \in Nat
        /\ r[Len(s) + 1] = e /\ \A i \in 1 .. Len(s) : r[i] = s[i]
    BY AppendProperties
  <1>2. DOMAIN r = 1 .. Len(s) + 1 /\ DOMAIN s = 1 .. Len(s)
    BY <1>1
  <1> HIDE DEF r
  <1>3. IsInjective(r)
    BY <1>1, <1>2 DEF IsInjective, ToSet
  <1>4. ToSet(r) = ToSet(s) \cup {e}
    BY <1>1, <1>2 DEF ToSet
  <1> QED
    BY <1>1, <1>3, <1>4 DEF r

-----------------------------------------------------------------------------
(* Types                                                                   *)

\* A slot's holder is in the room and has no other slot.
Seated ==
  /\ \A i \in Slots : slots[i] # Nobody => slots[i] \in Here
  /\ \A i, j \in Slots : slots[i] = slots[j] /\ slots[i] # Nobody => i = j

RoomInv ==
  /\ order \in Seq(Ids) /\ IsInjective(order)
  /\ slots \in [Slots -> Ids \cup {Nobody}]
  /\ mode \in Modes \cup {"grid", "custom"}
  /\ customCells \in CustomLayouts \cup {<<>>}
  /\ speaker \in Ids \cup {Nobody}
  /\ Seated

PadsInv == pads \in [Here -> Places] /\ placeholders \in [Slots -> Places]

\* Each call keeps what the Room knows in order, and draws the picture anew.
LEMMA RoomStep ==
  ASSUME RoomInv, PictureNext
  PROVE  RoomInv' /\ UpdateLayout(Cells)
  <1> USE CompositorAssumption
  <1>1. ASSUME NEW p \in Ids, Enter(p)
        PROVE  RoomInv' /\ UpdateLayout(Cells)
    <2>1. order' \in Seq(Ids) /\ IsInjective(order') /\ Here' = Here \cup {p}
      BY <1>1, AppendOnce DEF Enter, RoomInv, Here
    <2>2. \A i \in Slots : slots[i] # p
      BY <1>1 DEF Enter, RoomInv, Seated
    <2>3. \/ slots' = slots
          \/ \E i \in Slots : slots[i] = Nobody /\ slots' = [slots EXCEPT ![i] = p]
      <3>1. CASE FreeSlots = {}
        BY <1>1, <3>1 DEF Enter
      <3>2. CASE FreeSlots # {}
        <4>1. FreeSlots \in SUBSET Nat
          BY DEF FreeSlots, Slots
        <4>2. PICK i \in FreeSlots : \A j \in FreeSlots : i <= j
          BY <3>2, <4>1, LeastExists
        <4> DEFINE k == CHOOSE n \in FreeSlots : \A j \in FreeSlots : n <= j
        <4>3. k \in FreeSlots
          BY <4>2
        <4>4. slots' = [slots EXCEPT ![k] = p]
          BY <1>1, <3>2 DEF Enter
        <4> HIDE DEF k
        <4> QED
          BY <4>3, <4>4 DEF FreeSlots
      <3> QED
        BY <3>1, <3>2
    <2>4. slots' \in [Slots -> Ids \cup {Nobody}] /\ Seated'
      BY <2>1, <2>2, <2>3 DEF RoomInv, Seated
    <2> QED
      BY <1>1, <2>1, <2>4 DEF Enter, RoomInv
  <1>2. ASSUME NEW p \in Ids, Exit(p)
        PROVE  RoomInv' /\ UpdateLayout(Cells)
    <2>1. order' \in Seq(Ids) /\ IsInjective(order') /\ Here' = Here \ {p}
      BY <1>2, RemoveOnce DEF Exit, RoomInv, Here
    <2>2. slots' \in [Slots -> Ids \cup {Nobody}] /\ Seated'
      BY <1>2, <2>1 DEF Exit, RoomInv, Seated
    <2> QED
      BY <1>2, <2>1, <2>2 DEF Exit, RoomInv
  <1>3. ASSUME NEW p \in Ids, Speak(p)
        PROVE  RoomInv' /\ UpdateLayout(Cells)
    BY <1>3 DEF Speak, RoomInv, Seated, Here
  <1>4. ASSUME NEW m \in Modes \cup {"custom"}, SetLayout(m)
        PROVE  RoomInv' /\ UpdateLayout(Cells)
    BY <1>4 DEF SetLayout, RoomInv, Seated, Here
  <1>5. ASSUME NEW cs \in CustomLayouts, SetCustomLayout(cs)
        PROVE  RoomInv' /\ UpdateLayout(Cells)
    BY <1>5 DEF SetCustomLayout, RoomInv, Seated, Here
  <1>6. ASSUME NEW i \in Slots, NEW p \in Here \cup {Nobody}, AssignSlot(i, p)
        PROVE  RoomInv' /\ UpdateLayout(Cells)
    <2>1. p \in Ids \cup {Nobody}
      BY DEF Here, RoomInv, ToSet
    <2>2. slots' \in [Slots -> Ids \cup {Nobody}] /\ Seated' /\ Here' = Here
      BY <1>6, <2>1 DEF AssignSlot, RoomInv, Seated, Here
    <2> QED
      BY <1>6, <2>2 DEF AssignSlot, RoomInv
  <1> QED
    BY <1>1, <1>2, <1>3, <1>4, <1>5, <1>6 DEF PictureNext

\* A sequence over a set is one over a larger set.
LEMMA SeqOfMore ==
  ASSUME NEW T, NEW S \in SUBSET T, NEW s \in Seq(S)
  PROVE  s \in Seq(T)
  <1>1. Len(s) \in Nat /\ s \in [1 .. Len(s) -> S]
    OBVIOUS
  <1>2. s \in [1 .. Len(s) -> T]
    BY <1>1
  <1> QED
    BY <1>1, <1>2

\* Every cell that is drawn has a place.
LEMMA CellsHavePlaces ==
  ASSUME RoomInv'
  PROVE  Len(Cells) \in Nat /\ \A i \in 1 .. Len(Cells) : Place(Cells[i]) \in Places
  <1> USE CompositorAssumption
  <1>1. CASE mode' = "custom" /\ customCells' # <<>>
    <2>1. customCells' \in Seq(OperatorCells)
      BY <1>1 DEF RoomInv
    <2>2. Cells = [i \in 1 .. Len(customCells') |-> CustomCell(customCells'[i], slots', speaker')]
      BY <1>1 DEF Cells
    <2>3. Len(Cells) = Len(customCells') /\ Len(customCells') \in Nat
      BY <2>1, <2>2
    <2>4. ASSUME NEW i \in 1 .. Len(customCells')
          PROVE  Place(CustomCell(customCells'[i], slots', speaker')) \in Places
      <3>1. customCells'[i] \in OperatorCells
        BY <2>1
      <3> QED
        BY <3>1 DEF CustomCell, Place, Places, OperatorCells
    <2> QED
      BY <2>2, <2>3, <2>4
  <1>2. CASE ~(mode' = "custom" /\ customCells' # <<>>)
    <2>1. Cells = Compute(mode', speaker', order')
      BY <1>2 DEF Cells
    <2>2. order' \in Seq(Nat) /\ speaker' \in Nat \cup {Nobody}
      <3>1. order' \in Seq(Ids) /\ speaker' \in Ids \cup {Nobody}
        BY DEF RoomInv
      <3> QED
        BY <3>1, SeqOfMore
    <2>3. Cells \in Seq(Frames)
      BY <2>1, <2>2, ComputeFrames
    <2>4. \A c \in Frames : Place(c) \in Places
      BY DEF Frames, Place, Places
    <2> QED
      BY <2>3, <2>4
  <1> QED
    BY <1>1, <1>2

\* A pad is put where the last of the cells named is, or stays.
LEMMA LastPlaceIs ==
  ASSUME NEW cells, Len(cells) \in Nat, NEW named \in SUBSET (1 .. Len(cells)), NEW Else
  PROVE  /\ named = {} => LastPlace(cells, named, Else) = Else
         /\ named # {} => \E i \in named : LastPlace(cells, named, Else) = Place(cells[i])
         /\ \A i : named = {i} => LastPlace(cells, named, Else) = Place(cells[i])
  <1>1. CASE named = {}
    BY <1>1 DEF LastPlace
  <1>2. CASE named # {}
    <2>1. PICK i \in named : \A j \in named : j <= i
      BY <1>2, GreatestExists
    <2> DEFINE k == CHOOSE n \in named : \A j \in named : j <= n
    <2>2. k \in named
      BY <2>1
    <2>3. LastPlace(cells, named, Else) = Place(cells[k])
      BY <1>2 DEF LastPlace
    <2> HIDE DEF k
    <2> QED
      BY <1>2, <2>2, <2>3
  <1> QED
    BY <1>1, <1>2

\* So every pad keeps or gets a place.
LEMMA PadsStep ==
  ASSUME PadsInv, NEW cells, Len(cells) \in Nat,
         \A i \in 1 .. Len(cells) : Place(cells[i]) \in Places,
         UpdateLayout(cells)
  PROVE  PadsInv'
  <1>1. FirstPlace \in Places /\ Hidden \in Places
    BY LayoutAssumption DEF FirstPlace, Hidden, Places
  <1>2. \A p : Before(p) \in Places
    BY <1>1 DEF Before, PadsInv
  <1>3. \A p : CellsOf(cells, p) \in SUBSET (1 .. Len(cells))
    BY DEF CellsOf
  <1>4. \A i : CellsOfSlot(cells, i) \in SUBSET (1 .. Len(cells))
    BY DEF CellsOfSlot
  <1>5. \A p : LastPlace(cells, CellsOf(cells, p), Before(p)) \in Places
    BY <1>2, <1>3, LastPlaceIs
  <1>6. \A i : LastPlace(cells, CellsOfSlot(cells, i), Hidden) \in Places
    BY <1>1, <1>4, LastPlaceIs
  <1> QED
    BY <1>5, <1>6 DEF UpdateLayout, PadsInv, Here

PictureInv == RoomInv /\ PadsInv

\* The invariant is kept by every step,
LEMMA PictureKept == PictureInv /\ [PictureNext]_picture => PictureInv'
  <1>1. ASSUME PictureInv, PictureNext PROVE PictureInv'
    <2>1. RoomInv' /\ UpdateLayout(Cells)
      BY <1>1, RoomStep DEF PictureInv
    <2>2. PadsInv'
      BY <1>1, <2>1, CellsHavePlaces, PadsStep DEF PictureInv
    <2> QED
      BY <2>1, <2>2 DEF PictureInv
  <1>2. PictureInv /\ UNCHANGED picture => PictureInv'
    BY DEF PictureInv, RoomInv, PadsInv, Seated, Here, picture
  <1> QED
    BY <1>1, <1>2

\* and holds at first.
LEMMA PictureStarts == PictureInit => PictureInv
  <1> SUFFICES ASSUME PictureInit PROVE PictureInv
    OBVIOUS
  <1>1. order \in Seq(Ids) /\ IsInjective(order) /\ Here = {}
    BY DEF PictureInit, IsInjective, Here, ToSet
  <1>2. RoomInv
    BY <1>1 DEF PictureInit, RoomInv, Seated
  <1>3. PadsInv
    BY <1>1 DEF PictureInit, PadsInv, Hidden, Places
  <1> QED
    BY <1>2, <1>3 DEF PictureInv

\* The picture's variables keep their types, and no id is twice in the joining
\* order (Room.joinOrder), for any participants, slots, modes and layouts.
THEOREM PictureTypes == PictureSpec => []PictureTypeOK
  <1>1. PictureInv => PictureTypeOK
    BY DEF PictureInv, RoomInv, PadsInv, PictureTypeOK
  <1> QED
    BY <1>1, PictureStarts, PictureKept, PTL DEF PictureSpec

-----------------------------------------------------------------------------
(* What is drawn                                                           *)

\* A participant with one cell is drawn in it.
LEMMA DrawnInCell ==
  ASSUME NEW cells, Len(cells) \in Nat, UpdateLayout(cells), NEW p \in Here',
         NEW i \in 1 .. Len(cells), CellsOf(cells, p) = {i}
  PROVE  pads'[p] = Place(cells[i])
  <1>1. CellsOf(cells, p) \in SUBSET (1 .. Len(cells))
    BY DEF CellsOf
  <1>2. LastPlace(cells, CellsOf(cells, p), Before(p)) = Place(cells[i])
    BY <1>1, LastPlaceIs
  <1> QED
    BY <1>2 DEF UpdateLayout, Here

\* A pixel for everybody, in each direction.
PixelsForAll == IsFiniteSet(Ids) /\ Enough(Cardinality(Ids))

\* Then there are enough for those who are in the room.
LEMMA PixelsForRoom ==
  ASSUME PixelsForAll, NEW peers \in Seq(Ids), IsInjective(peers)
  PROVE  Enough(Len(peers))
  <1>1. Len(peers) \in Nat /\ peers \in [1 .. Len(peers) -> Ids]
    OBVIOUS
  <1>2. peers \in Injection(1 .. Len(peers), Ids)
    BY <1>1 DEF Injection
  <1>3. Cardinality(1 .. Len(peers)) <= Cardinality(Ids)
    BY <1>2, FS_Injection DEF PixelsForAll
  <1>4. Cardinality(1 .. Len(peers)) = Len(peers)
    BY <1>1, FS_Interval
  <1>5. Cardinality(Ids) \in Nat
    BY FS_CardinalityType DEF PixelsForAll
  <1> QED
    BY <1>1, <1>3, <1>4, <1>5, LayoutAssumption DEF PixelsForAll, Enough

\* The modes that have a place for everybody.
Everyones == {"grid", "active_speaker", "lecture"}

\* Their cells.
LEMMA EveryonesCells ==
  ASSUME PixelsForAll, RoomInv', mode' \in Everyones, Here' # {}
  PROVE  /\ Cells = Compute(mode', speaker', order')
         /\ order' \in Seq(Nat) /\ order' # <<>> /\ speaker' \in Nat \cup {Nobody}
         /\ Enough(Len(order'))
         /\ Complete(Cells, Here')
  <1>1. Cells = Compute(mode', speaker', order')
    BY DEF Cells, Everyones
  <1>2. order' \in Seq(Ids) /\ IsInjective(order') /\ speaker' \in Ids \cup {Nobody}
    BY DEF RoomInv
  <1>3. order' \in Seq(Nat) /\ speaker' \in Nat \cup {Nobody}
    BY <1>2, CompositorAssumption, SeqOfMore
  <1>4. order' # <<>>
    BY DEF Here, ToSet
  <1>5. Enough(Len(order'))
    BY <1>2, PixelsForRoom
  <1>6. CASE mode' = "grid"
    <2>1. Cells = Grid(order')
      BY <1>1, <1>4, <1>6 DEF Compute
    <2> QED
      BY <1>1, <1>2, <1>3, <1>4, <1>5, <2>1, GridComplete DEF Here
  <1>7. CASE mode' = "active_speaker"
    <2>1. Cells = ActiveSpeaker(order', speaker')
      BY <1>1, <1>4, <1>7 DEF Compute
    <2> QED
      BY <1>1, <1>2, <1>3, <1>4, <1>5, <2>1, ActiveSpeakerComplete DEF Here
  <1>8. CASE mode' = "lecture"
    <2>1. Cells = Lecture(order')
      BY <1>1, <1>4, <1>8 DEF Compute
    <2> QED
      BY <1>1, <1>2, <1>3, <1>4, <1>5, <2>1, LectureComplete DEF Here
  <1> QED
    BY <1>6, <1>7, <1>8 DEF Everyones

\* Whatever was drawn before, a new picture shows everybody.
LEMMA EveryoneDrawnStep ==
  ASSUME PixelsForAll, RoomInv', UpdateLayout(Cells)
  PROVE  EveryoneDrawn'
  <1> SUFFICES ASSUME mode' \in Everyones, NEW p \in Here'
               PROVE  /\ OnCanvas(pads'[p]) /\ pads'[p].w > 0 /\ pads'[p].h > 0
                      /\ \A q \in Here' \ {p} : ~Overlap(pads'[p], pads'[q])
    BY DEF EveryoneDrawn, Everyones
  <1>1. Complete(Cells, Here')
    BY EveryonesCells
  <1>2. Len(Cells) \in Nat
    BY CellsHavePlaces
  <1>3. ASSUME NEW q \in Here'
        PROVE  \E i \in 1 .. Len(Cells) : Cells[i].peer = q /\ pads'[q] = Place(Cells[i])
    <2>1. PICK i \in 1 .. Len(Cells) : CellsOf(Cells, q) = {i}
      BY <1>1 DEF Complete
    <2>2. pads'[q] = Place(Cells[i])
      BY <1>2, <2>1, DrawnInCell
    <2> QED
      BY <2>1, <2>2 DEF CellsOf
  <1>4. PICK i \in 1 .. Len(Cells) : Cells[i].peer = p /\ pads'[p] = Place(Cells[i])
    BY <1>3
  <1>5. OnCanvas(pads'[p]) /\ pads'[p].w > 0 /\ pads'[p].h > 0
    BY <1>1, <1>4 DEF Complete, OnCanvas, Place
  <1>6. ASSUME NEW q \in Here' \ {p} PROVE ~Overlap(pads'[p], pads'[q])
    <2>1. PICK j \in 1 .. Len(Cells) : Cells[j].peer = q /\ pads'[q] = Place(Cells[j])
      BY <1>3
    <2>2. i # j
      BY <1>4, <2>1
    <2>3. ~Overlap(Cells[i], Cells[j])
      BY <1>1, <2>2 DEF Complete
    <2> QED
      BY <1>4, <2>1, <2>3 DEF Overlap, Place
  <1> QED
    BY <1>5, <1>6

\* The speaker's frame is the first of the layout.
LEMMA SpeakerIsLargeStep ==
  ASSUME PixelsForAll, RoomInv', UpdateLayout(Cells)
  PROVE  SpeakerIsLarge'
  <1> SUFFICES ASSUME mode' = "active_speaker", speaker' \in Here', NEW q \in Here' \ {speaker'}
               PROVE  Size(pads'[q]) < Size(pads'[speaker'])
    BY DEF SpeakerIsLarge, Size
  <1>1. /\ Cells = Compute(mode', speaker', order')
        /\ order' \in Seq(Nat) /\ order' # <<>> /\ speaker' \in Nat \cup {Nobody}
        /\ Enough(Len(order')) /\ Complete(Cells, Here')
    BY EveryonesCells DEF Everyones
  <1>2. Cells = ActiveSpeaker(order', speaker')
    BY <1>1 DEF Compute
  <1>3. speaker' # Nobody
    BY CompositorAssumption DEF RoomInv, Here, ToSet
  <1>4. /\ Cells[1].peer = speaker' /\ Len(Cells) >= 1
        /\ \A k \in 2 .. Len(Cells) : Cells[k].w * Cells[k].h < Cells[1].w * Cells[1].h
    BY <1>1, <1>2, <1>3, ActiveSpeakerComplete
  <1>5. Len(Cells) \in Nat
    BY CellsHavePlaces
  <1>6. ASSUME NEW p \in Here'
        PROVE  \E i \in 1 .. Len(Cells) : CellsOf(Cells, p) = {i} /\ pads'[p] = Place(Cells[i])
    <2>1. PICK i \in 1 .. Len(Cells) : CellsOf(Cells, p) = {i}
      BY <1>1 DEF Complete
    <2> QED
      BY <1>5, <2>1, DrawnInCell
  <1>7. pads'[speaker'] = Place(Cells[1])
    <2>1. PICK i \in 1 .. Len(Cells) :
            CellsOf(Cells, speaker') = {i} /\ pads'[speaker'] = Place(Cells[i])
      BY <1>6
    <2>2. 1 \in CellsOf(Cells, speaker')
      BY <1>4, <1>5 DEF CellsOf
    <2> QED
      BY <2>1, <2>2
  <1>8. PICK j \in 1 .. Len(Cells) : CellsOf(Cells, q) = {j} /\ pads'[q] = Place(Cells[j])
    BY <1>6
  <1>9. j \in 2 .. Len(Cells)
    <2>1. Cells[j].peer = q
      BY <1>8 DEF CellsOf
    <2> QED
      BY <1>4, <1>5, <2>1
  <1>10. Cells[j].w * Cells[j].h < Cells[1].w * Cells[1].h
    BY <1>4, <1>9
  <1> QED
    BY <1>7, <1>8, <1>10 DEF Size, Place

\* Nobody hides anybody, at any number of participants for whom the picture
\* has pixels, in the modes that have a place for everybody.
THEOREM NobodyIsHidden == PixelsForAll => (PictureSpec => []EveryoneDrawn)
  <1> SUFFICES ASSUME PixelsForAll PROVE PictureSpec => []EveryoneDrawn
    OBVIOUS
  <1>1. PictureInit => EveryoneDrawn
    BY DEF PictureInit, EveryoneDrawn, Here, ToSet
  <1>2. PictureInv /\ EveryoneDrawn /\ [PictureNext]_picture => EveryoneDrawn'
    <2>1. PictureInv /\ PictureNext => EveryoneDrawn'
      BY RoomStep, EveryoneDrawnStep DEF PictureInv
    <2>2. EveryoneDrawn /\ UNCHANGED picture => EveryoneDrawn'
      BY DEF EveryoneDrawn, picture, Here
    <2> QED
      BY <2>1, <2>2
  <1> QED
    BY <1>1, <1>2, PictureStarts, PictureKept, PTL DEF PictureSpec

\* The speaker has the largest frame, whoever it is and whoever else is there.
THEOREM SpeakerStandsOut == PixelsForAll => (PictureSpec => []SpeakerIsLarge)
  <1> SUFFICES ASSUME PixelsForAll PROVE PictureSpec => []SpeakerIsLarge
    OBVIOUS
  <1>1. PictureInit => SpeakerIsLarge
    BY DEF PictureInit, SpeakerIsLarge, Here, ToSet
  <1>2. PictureInv /\ SpeakerIsLarge /\ [PictureNext]_picture => SpeakerIsLarge'
    <2>1. PictureInv /\ PictureNext => SpeakerIsLarge'
      BY RoomStep, SpeakerIsLargeStep DEF PictureInv
    <2>2. SpeakerIsLarge /\ UNCHANGED picture => SpeakerIsLarge'
      BY DEF SpeakerIsLarge, picture, Here
    <2> QED
      BY <2>1, <2>2
  <1> QED
    BY <1>1, <1>2, PictureStarts, PictureKept, PTL DEF PictureSpec

-----------------------------------------------------------------------------
(* Placeholders                                                            *)

\* A slot's placeholder and the slot's holder are named by the same cells.
LEMMA PlaceholderCoveredStep ==
  ASSUME RoomInv', UpdateLayout(Cells)
  PROVE  PlaceholderCovered'
  <1> SUFFICES ASSUME CellsShowSlots', NEW i \in Slots, placeholders'[i] # Hidden, slots'[i] # Nobody
               PROVE  Covers(pads'[slots'[i]], placeholders'[i])
    BY DEF PlaceholderCovered, Slots
  <1> DEFINE p == slots'[i]
             named == CellsOfSlot(Cells, i)
  <1>1. Len(Cells) \in Nat /\ \A k \in 1 .. Len(Cells) : Place(Cells[k]) \in Places
    BY CellsHavePlaces
  <1>2. placeholders'[i] = LastPlace(Cells, named, Hidden)
    BY DEF UpdateLayout
  <1>3. named # {}
    BY <1>2 DEF LastPlace
  <1>4. p \in Here'
    BY DEF RoomInv, Seated, Slots
  <1>5. mode' = "custom" /\ customCells' # <<>>
    <2> SUFFICES ASSUME ~(mode' = "custom" /\ customCells' # <<>>) PROVE FALSE
      OBVIOUS
    <2>1. Cells = Compute(mode', speaker', order')
      BY DEF Cells
    <2>2. order' \in Seq(Nat) /\ speaker' \in Nat \cup {Nobody}
      BY CompositorAssumption, SeqOfMore DEF RoomInv
    <2>3. Cells \in Seq(Frames)
      BY <2>1, <2>2, ComputeFrames
    <2>4. \A k \in 1 .. Len(Cells) : Cells[k].slot = NoSlot
      <3>1. \A c \in Frames : c.slot = NoSlot
        BY DEF Frames
      <3> QED
        BY <2>3, <3>1
    <2> QED
      BY <1>3, <2>4 DEF CellsOfSlot, NoSlot, Slots
  <1>6. customCells' \in Seq(OperatorCells) /\ customCells' \in CustomLayouts
    BY <1>5, CompositorAssumption DEF RoomInv
  <1>7. Cells = [k \in 1 .. Len(customCells') |-> CustomCell(customCells'[k], slots', speaker')]
    BY <1>5 DEF Cells
  <1>8. ASSUME NEW k \in 1 .. Len(customCells')
        PROVE  Cells[k].peer = p <=> Cells[k].slot = i
    <2> DEFINE c == customCells'[k]
    <2>1. c.id.kind = "slot" /\ (c.vad => speaker' = Nobody)
      BY <1>6 DEF CellsShowSlots
    <2>2. Cells[k] = CustomCell(c, slots', speaker')
      BY <1>7
    <2>3. Cells[k].peer = IF c.id.value \in Slots THEN slots'[c.id.value] ELSE Nobody
      BY <2>1, <2>2 DEF CustomCell, Resolve
    <2>4. Cells[k].slot = IF c.id.value \in Slots THEN c.id.value ELSE NoSlot
      BY <2>1, <2>2 DEF CustomCell
    <2>5. \A j \in Slots : slots'[j] = p => j = i
      BY DEF RoomInv, Seated, Slots
    <2>6. NoSlot \notin Slots
      BY DEF NoSlot, Slots
    <2> HIDE DEF c
    <2> QED
      BY <2>3, <2>4, <2>5, <2>6
  <1>9. Len(Cells) = Len(customCells')
    BY <1>6, <1>7
  <1>10. CellsOf(Cells, p) = named
    BY <1>8, <1>9 DEF CellsOf, CellsOfSlot
  <1>11. pads'[p] = LastPlace(Cells, CellsOf(Cells, p), Before(p))
    BY <1>4 DEF UpdateLayout, Here
  <1>12. pads'[p] = placeholders'[i]
    BY <1>2, <1>3, <1>10, <1>11 DEF LastPlace
  <1>13. placeholders'[i] \in Places
    <2>1. named \in SUBSET (1 .. Len(Cells))
      BY DEF CellsOfSlot
    <2> QED
      BY <1>1, <1>2, <1>3, <2>1, LastPlaceIs
  <1> QED
    BY <1>12, <1>13 DEF Covers, Places

\* While the cells of the operator's layout show slots, "No user" is seen beside or
\* over nobody's own picture, whatever layouts came before, pinned and VAD cells
\* included, for any participants, slots and reseating.
THEOREM PlaceholdersAreCovered == PictureSpec => []PlaceholderCovered
  <1>1. PictureInit => PlaceholderCovered
    BY DEF PictureInit, PlaceholderCovered
  <1>2. PictureInv /\ PlaceholderCovered /\ [PictureNext]_picture => PlaceholderCovered'
    <2>1. PictureInv /\ PictureNext => PlaceholderCovered'
      BY RoomStep, PlaceholderCoveredStep DEF PictureInv
    <2>2. PlaceholderCovered /\ UNCHANGED picture => PlaceholderCovered'
      BY DEF PlaceholderCovered, CellsShowSlots, picture
    <2> QED
      BY <2>1, <2>2
  <1> QED
    BY <1>1, <1>2, PictureStarts, PictureKept, PTL DEF PictureSpec

=============================================================================
