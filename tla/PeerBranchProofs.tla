-------------------------- MODULE PeerBranchProofs --------------------------
(***************************************************************************)
(* The safety of PeerBranch for any number of peers, branches and          *)
(* goroutines, with a Stop at any time.                                    *)
(***************************************************************************)
EXTENDS PeerBranch, FiniteSetTheorems, TLAPS

-----------------------------------------------------------------------------
(* The invariants                                                          *)

Building == {"video", "overlay", "audio", "tee", "pumps"}
Disposing == {"remove", "unlink"}

\* What a goroutine works on at each place of its calls.
Station(c) ==
  /\ op[c].pc \in Building \cup {"connect", "dispose"} => op[c].id \in Ids
  /\ op[c].pc \in Building \cup Disposing <=> op[c].b \in Branches
  /\ op[c].todo \subseteq IF At(c, "stop") THEN Branches
                          ELSE IF At(c, "overlays") THEN Ids ELSE {}

\* How far AddPeer has come with its branch, and that what is to be disposed of is
\* something: nobody takes it for a fresh branch.
Progress(c) ==
  /\ op[c].pc \in Building => owner[op[c].b] = op[c].id
  /\ At(c, "video") => has[op[c].b] = {}
  /\ At(c, "overlay") => has[op[c].b] = Video
  /\ At(c, "audio") => has[op[c].b] = Video \cup {"overlay"}
  /\ At(c, "tee") => has[op[c].b] = Video \cup {"overlay"} \cup Audio
  /\ At(c, "pumps") => has[op[c].b] = Parts \ {"pumps"}
  /\ op[c].pc \in Disposing => "overlay" \in has[op[c].b]
  /\ At(c, "stop") => \A b \in op[c].todo : has[b] = Parts

\* A registered branch is whole, and its owner's.
Whole ==
  \A p \in Ids : branch[p] # None => has[branch[p]] = Parts /\ owner[branch[p]] = p

\* No two text overlays have one name: GStreamer does not let them.
OneName ==
  \A a, b \in Branches :
    /\ "overlay" \in has[a] => owner[a] \in Ids
    /\ "overlay" \in has[a] \cap has[b] /\ Sanitized[owner[a]] = Sanitized[owner[b]] => a = b

\* No two calls hold one branch, and none a registered one.
Apart ==
  /\ \A c, d \in Callers : \A b \in Branches : b \in Held(c) /\ b \in Held(d) => c = d
  /\ \A p \in Ids, c \in Callers : branch[p] # None => branch[p] \notin Held(c)

BranchInv ==
  /\ TypeOK
  /\ \A c \in Callers : Station(c) /\ Progress(c)
  /\ Whole
  /\ OneName
  /\ Apart
  /\ NothingLost

\* As long as calls about names follow one another, the names say what the setting
\* is but for those that the call under way has still to set.
Shown(p) == branch[p] # None => (branch[p] \in text <=> showNames)
ToBeSet(p) ==
  \E c \in Callers : At(c, "refresh") \/ (At(c, "overlays") /\ p \in op[c].todo)

NamesInv ==
  /\ members \cap WebPeers \subseteq names
  /\ ~overlapped =>
       /\ \A c, d \in Callers : Naming(c) /\ Naming(d) => c = d
       /\ \A c \in Callers :
            /\ op[c].pc \in Building \cup {"connect"} => op[c].id \notin members \cap WebPeers
            /\ At(c, "overlays") => op[c].on = showNames
       /\ \A p \in members \cap WebPeers : Shown(p) \/ ToBeSet(p)

Inv == BranchInv /\ NamesInv

-----------------------------------------------------------------------------
(* Steps of a goroutine                                                    *)

OpRecord ==
  [pc : PCs, id : Ids \cup {None}, b : Branches \cup {None}, on : BOOLEAN,
   todo : SUBSET (Ids \cup Branches)]
OpType == [Callers -> OpRecord]

\* A goroutine that moves leaves the others where they are.
LEMMA MovedTo ==
  ASSUME op \in OpType, NEW c \in Callers, NEW r \in OpRecord, op' = [op EXCEPT ![c] = r]
  PROVE  op' \in OpType /\ op'[c] = r /\ \A d \in Callers \ {c} : op'[d] = op[d]
  BY DEF OpType, OpRecord

\* A goroutine that does nothing.
LEMMA IdleType ==
  /\ Idle \in OpRecord
  /\ Idle.pc = "idle" /\ Idle.id = None /\ Idle.b = None /\ Idle.on = FALSE /\ Idle.todo = {}
  BY DEF Idle, OpRecord, PCs

\* Going on keeps all but the place.
LEMMA GotoMoves ==
  ASSUME op \in OpType, NEW c \in Callers, NEW pc \in PCs, Goto(c, pc)
  PROVE  /\ op' \in OpType
         /\ op'[c].pc = pc /\ op'[c].id = op[c].id /\ op'[c].b = op[c].b
         /\ op'[c].on = op[c].on /\ op'[c].todo = op[c].todo
         /\ \A d \in Callers \ {c} : op'[d] = op[d]
  <1>1. op' \in OpType
    BY DEF Goto, OpType, OpRecord
  <1>2. /\ op'[c].pc = pc /\ op'[c].id = op[c].id /\ op'[c].b = op[c].b
        /\ op'[c].on = op[c].on /\ op'[c].todo = op[c].todo
    BY DEF Goto, OpType, OpRecord
  <1>3. \A d \in Callers \ {c} : op'[d] = op[d]
    BY DEF Goto, OpType, OpRecord
  <1> QED
    BY <1>1, <1>2, <1>3

\* Returning forgets everything.
LEMMA ReturnMoves ==
  ASSUME op \in OpType, NEW c \in Callers, Return(c)
  PROVE  /\ op' \in OpType
         /\ op'[c].pc = "idle" /\ op'[c].b = None /\ op'[c].todo = {}
         /\ \A d \in Callers \ {c} : op'[d] = op[d]
  BY IdleType, MovedTo DEF Return

\* So does going on with other peers to set.
LEMMA SetMoves ==
  ASSUME op \in OpType, NEW c \in Callers, NEW pc \in PCs, NEW on \in BOOLEAN,
         NEW S \in SUBSET (Ids \cup Branches),
         op' = [op EXCEPT ![c].pc = pc, ![c].on = on, ![c].todo = S]
  PROVE  op' \in OpType
  <1> DEFINE r == [op[c] EXCEPT !.pc = pc, !.on = on, !.todo = S]
  <1>1. op[c] \in OpRecord
    BY DEF OpType
  <1>2. r \in OpRecord
    BY <1>1 DEF OpRecord
  <1>3. op' = [op EXCEPT ![c] = r]
    BY DEF OpType
  <1> QED
    BY <1>2, <1>3, MovedTo

-----------------------------------------------------------------------------
(* Branches                                                                *)

\* The values op may take say what Held does.
LEMMA Holding ==
  ASSUME op \in OpType, NEW c \in Callers, Station(c), NEW b \in Branches
  PROVE  /\ b \in Held(c) <=> b = op[c].b \/ (At(c, "stop") /\ b \in op[c].todo)
         /\ b = op[c].b => op[c].pc \in Building \cup Disposing
  <1>1. b \in Held(c) <=> b = op[c].b \/ b \in op[c].todo
    BY DEF Held
  <1>2. b \in op[c].todo => At(c, "stop")
    BY PeerBranchAssumption DEF Station
  <1> QED
    BY <1>1, <1>2 DEF Station

\* Nobody holds a branch that a new call may take.
LEMMA FreshIsNobodys ==
  ASSUME BranchInv, NEW b \in Fresh
  PROVE  ~Registered(b) /\ \A c \in Callers : b \notin Held(c)
  <1>1. b \in Branches /\ has[b] = {} /\ \A c \in Callers : op[c].b # b
    BY DEF Fresh
  <1>2. Parts # {}
    BY DEF Parts
  <1>3. ~Registered(b)
    BY <1>1, <1>2, PeerBranchAssumption DEF BranchInv, Whole, Registered
  <1>4. ASSUME NEW c \in Callers
        PROVE  b \notin Held(c)
    BY <1>1, <1>2, Holding DEF BranchInv, Progress, TypeOK, OpType, OpRecord
  <1> QED
    BY <1>3, <1>4

\* What a step of one goroutine has to show: of its own branch how far it came,
\* that it takes only what it held, what was registered or what was fresh, and
\* that it loses nothing.
LEMMA StepKept ==
  ASSUME BranchInv, TypeOK', NEW c \in Callers,
         \A d \in Callers \ {c} : op'[d] = op[d],
         Station(c)', Progress(c)', OneName',
         \A b \in Branches : b \notin Held(c) /\ b \notin Held(c)' /\ b \notin Fresh =>
           has'[b] = has[b] /\ owner'[b] = owner[b],
         \A b \in Branches : b \in Held(c)' =>
           (b \in Held(c) \/ Registered(b) \/ b \in Fresh) /\ ~Registered(b)',
         \A p \in Ids : branch'[p] # None =>
           \/ branch'[p] = branch[p]
           \/ branch'[p] \in Held(c) /\ has'[branch'[p]] = Parts /\ owner'[branch'[p]] = p,
         \A b \in Branches : b \in Held(c) \/ Registered(b) \/ b \in Fresh =>
           has'[b] \subseteq {"overlay"} \/ Registered(b)' \/ b \in Held(c)'
  PROVE  BranchInv'
  <1>o. /\ \A d \in Callers \ {c} : Held(d)' = Held(d) /\ (Station(d) => Station(d)')
        /\ \A b \in Branches : b \in Held(c) => \A d \in Callers \ {c} : b \notin Held(d)
        /\ \A b \in Branches : Registered(b) => \A d \in Callers : b \notin Held(d)
        /\ \A b \in Fresh : ~Registered(b) /\ \A d \in Callers : b \notin Held(d)
    <2>1. \A d \in Callers \ {c} : Held(d)' = Held(d) /\ (Station(d) => Station(d)')
      BY DEF Held, Station, At
    <2>2. \A b \in Branches : b \in Held(c) => \A d \in Callers \ {c} : b \notin Held(d)
      BY DEF BranchInv, Apart
    <2>3. \A b \in Branches : Registered(b) => \A d \in Callers : b \notin Held(d)
      BY PeerBranchAssumption DEF BranchInv, Apart, Registered
    <2> QED
      BY <2>1, <2>2, <2>3, FreshIsNobodys
  <1>h. \A d \in Callers \ {c}, b \in Branches : b \in Held(d) => b \notin Held(c)'
    BY <1>o
  <1>t. /\ branch \in [Ids -> Branches \cup {None}] /\ branch' \in [Ids -> Branches \cup {None}]
        /\ op \in OpType
    BY DEF BranchInv, TypeOK, OpType, OpRecord
  <1>1. \A d \in Callers : Station(d)'
    BY <1>o DEF BranchInv
  <1>2. \A d \in Callers : Progress(d)'
    <2> SUFFICES ASSUME NEW d \in Callers \ {c} PROVE Progress(d)'
      OBVIOUS
    <2>1. \A b \in Branches : b \in Held(d) => has'[b] = has[b] /\ owner'[b] = owner[b]
      BY <1>o, <1>h
    <2>2. /\ op[d].pc \in Building \cup Disposing =>
               has'[op[d].b] = has[op[d].b] /\ owner'[op[d].b] = owner[op[d].b]
          /\ At(d, "stop") => \A b \in op[d].todo : has'[b] = has[b]
      BY <2>1 DEF BranchInv, Station, Held
    <2>3. Progress(d) /\ op'[d] = op[d]
      BY DEF BranchInv
    <2> QED
      BY <2>2, <2>3 DEF Progress, At, Building, Disposing
  <1>3. Whole'
    <2> SUFFICES ASSUME NEW p \in Ids, branch'[p] # None, branch'[p] = branch[p]
                 PROVE  has'[branch'[p]] = Parts /\ owner'[branch'[p]] = p
      BY DEF Whole
    <2>1. branch[p] \in Branches /\ Registered(branch[p]) /\ Registered(branch[p])'
      BY <1>t DEF Registered
    <2>2. branch[p] \notin Held(c) /\ branch[p] \notin Held(c)' /\ branch[p] \notin Fresh
      BY <2>1, <1>o
    <2> QED
      BY <2>1, <2>2 DEF BranchInv, Whole
  <1>4. Apart'
    <2>1. \A d, e \in Callers : \A b \in Branches : b \in Held(d)' /\ b \in Held(e)' => d = e
      BY <1>o, <1>h DEF BranchInv, Apart
    <2>2. ASSUME NEW p \in Ids, NEW d \in Callers, NEW b \in Branches, branch'[p] = b
          PROVE  b \notin Held(d)'
      <3>1. Registered(b)' /\ b # None
        BY <2>2, PeerBranchAssumption DEF Registered
      <3>2. CASE d = c
        BY <3>1, <3>2
      <3>3. CASE d # c /\ b = branch[p]
        BY <3>3, <1>o DEF Registered
      <3>4. CASE d # c /\ b \in Held(c)
        BY <3>4, <1>o
      <3> QED
        BY <2>2, <3>1, <3>2, <3>3, <3>4
    <2> QED
      BY <1>t, <2>1, <2>2 DEF Apart
  <1>5. NothingLost'
    <2> SUFFICES ASSUME NEW b \in Branches
                 PROVE  \/ has'[b] \subseteq {"overlay"} \/ Registered(b)'
                        \/ \E d \in Callers : b \in Held(d)'
      BY DEF NothingLost
    <2>1. CASE b \in Held(c) \/ Registered(b) \/ b \in Fresh
      BY <2>1
    <2>2. CASE b \in Held(c)'
      BY <2>2
    <2>3. CASE /\ b \notin Held(c) /\ ~Registered(b) /\ b \notin Fresh /\ b \notin Held(c)'
      <3>1. has[b] \subseteq {"overlay"} \/ \E d \in Callers \ {c} : b \in Held(d)
        BY <2>3 DEF BranchInv, NothingLost
      <3> QED
        BY <2>3, <3>1, <1>o
    <2> QED
      BY <2>1, <2>2, <2>3
  <1> QED
    BY <1>1, <1>2, <1>3, <1>4, <1>5 DEF BranchInv

\* Names of overlays stay different as long as none is added.
LEMMA NoNewName ==
  ASSUME OneName,
         \A b \in Branches : "overlay" \in has'[b] => "overlay" \in has[b] /\ owner'[b] = owner[b]
  PROVE  OneName'
  BY DEF OneName

\* A part of a branch is added or taken away by who holds it.
LEMMA PartStep ==
  ASSUME BranchInv, NEW c \in Callers, NEW pc \in Building \cup Disposing,
         NEW X \in SUBSET Parts, op[c].pc \in Building \cup Disposing,
         Goto(c, pc), Has(op[c].b, X), Progress(c)', OneName', text' \subseteq Branches,
         UNCHANGED <<owner, branch, stopped, room, overlapped>>,
         pc \in Building => op[c].id \in Ids
  PROVE  BranchInv'
  <1>p. pc \in PCs /\ pc # "stop" /\ pc # "overlays" /\ pc \notin {"connect", "dispose"}
    BY DEF Building, Disposing, PCs
  <1>t. /\ op \in OpType /\ has \in [Branches -> SUBSET Parts]
        /\ op[c].pc # "stop" /\ op[c].pc # "overlays"
    BY DEF BranchInv, TypeOK, OpType, OpRecord, Building, Disposing
  <1>o. /\ op' \in OpType
        /\ op'[c].pc = pc /\ op'[c].id = op[c].id /\ op'[c].b = op[c].b
        /\ op'[c].todo = op[c].todo /\ \A d \in Callers \ {c} : op'[d] = op[d]
    BY <1>p, <1>t, GotoMoves
  <1>s. Station(c) /\ op[c].b \in Branches /\ op[c].todo = {}
    BY <1>t DEF BranchInv, Station, At
  <1>1. TypeOK'
    BY <1>t, <1>o DEF BranchInv, TypeOK, OpType, OpRecord, Has, room
  <1>2. Station(c)'
    BY <1>o, <1>s, <1>p DEF Station, At
  <1>h. /\ Held(c)' = Held(c) /\ op[c].b \in Held(c) /\ \A b \in Branches : b \in Held(c)' <=> b = op[c].b
        /\ \A b \in Branches : Registered(b)' <=> Registered(b)
    BY <1>o, <1>s, PeerBranchAssumption DEF Held, Registered
  <1>3. \A b \in Branches : b \notin Held(c) => has'[b] = has[b] /\ owner'[b] = owner[b]
    BY <1>t, <1>h DEF Has
  <1>4. \A b \in Branches : b \in Held(c)' => b \in Held(c) /\ ~Registered(b)'
    BY <1>h, PeerBranchAssumption DEF BranchInv, Apart, Registered
  <1>5. \A p \in Ids : branch'[p] = branch[p]
    OBVIOUS
  <1>6. \A b \in Branches : b \in Held(c) \/ Registered(b) \/ b \in Fresh =>
          has'[b] \subseteq {"overlay"} \/ Registered(b)' \/ b \in Held(c)'
    BY <1>h, <1>3 DEF Fresh
  <1> QED
    BY <1>1, <1>2, <1>o, <1>3, <1>4, <1>5, <1>6, StepKept

\* A branch is given up with nothing but perhaps its overlay left.
LEMMA GivenUpStep ==
  ASSUME BranchInv, NEW c \in Callers, NEW X \in SUBSET {"overlay"},
         op[c].pc \in Building \cup Disposing, X \subseteq has[op[c].b],
         Return(c), Has(op[c].b, X), text' \subseteq Branches,
         UNCHANGED <<owner, branch, stopped, room, overlapped>>
  PROVE  BranchInv'
  <1>t. /\ op \in OpType /\ has \in [Branches -> SUBSET Parts]
        /\ op[c].pc # "stop" /\ op[c].pc # "overlays"
    BY DEF BranchInv, TypeOK, OpType, OpRecord, Building, Disposing
  <1>o. /\ op' \in OpType /\ op'[c].pc = "idle" /\ op'[c].b = None
        /\ op'[c].todo = {} /\ \A d \in Callers \ {c} : op'[d] = op[d]
    BY <1>t, ReturnMoves
  <1>s. op[c].b \in Branches /\ op[c].todo = {} /\ X \subseteq Parts
    BY <1>t DEF BranchInv, Station, At, Parts
  <1>1. TypeOK'
    BY <1>t, <1>o, <1>s DEF BranchInv, TypeOK, OpType, OpRecord, Has, room
  <1>2. Station(c)' /\ Progress(c)'
    BY <1>o, PeerBranchAssumption DEF Station, Progress, At, Building, Disposing
  <1>h. /\ \A b \in Branches : b \in Held(c) <=> b = op[c].b
        /\ \A b \in Branches : b \notin Held(c)'
        /\ \A b \in Branches : Registered(b)' <=> Registered(b)
    BY <1>o, <1>s, PeerBranchAssumption DEF Held, Registered
  <1>3. /\ \A b \in Branches : b \notin Held(c) => has'[b] = has[b] /\ owner'[b] = owner[b]
        /\ \A b \in Branches : b \in Held(c) => has'[b] = X /\ owner'[b] = owner[b]
    BY <1>t, <1>h DEF Has
  <1>4. OneName'
    <2>1. \A b \in Branches : "overlay" \in has'[b] =>
            "overlay" \in has[b] /\ owner'[b] = owner[b]
      BY <1>3, <1>h
    <2> QED
      BY <2>1, NoNewName DEF BranchInv
  <1>6. \A b \in Branches : b \in Held(c) \/ Registered(b) \/ b \in Fresh =>
          has'[b] \subseteq {"overlay"} \/ Registered(b)' \/ b \in Held(c)'
    BY <1>h, <1>3 DEF Fresh
  <1> QED
    BY <1>1, <1>2, <1>o, <1>h, <1>3, <1>4, <1>6, StepKept

\* Who holds no branch before and after does nothing to one.
LEMMA NoBranchStep ==
  ASSUME BranchInv, NEW c \in Callers, TypeOK', Station(c)',
         op[c].pc \notin Building \cup Disposing \cup {"stop"},
         op'[c].pc \notin Building \cup Disposing \cup {"stop"},
         \A d \in Callers \ {c} : op'[d] = op[d],
         UNCHANGED pipeline
  PROVE  BranchInv'
  <1>u. UNCHANGED <<has, owner, branch, stopped>>
    BY DEF pipeline
  <1>t. op \in OpType /\ op' \in OpType
    BY DEF BranchInv, TypeOK, OpType, OpRecord
  <1>1. Progress(c)'
    BY DEF Progress, At, Building, Disposing
  <1>2. OneName'
    BY <1>u DEF BranchInv, OneName
  <1>h. \A b \in Branches : b \notin Held(c) /\ b \notin Held(c)' /\ (Registered(b)' <=> Registered(b))
    <2>1. /\ op[c].b \notin Branches /\ op[c].todo \subseteq Ids
          /\ op'[c].b \notin Branches /\ op'[c].todo \subseteq Ids
      BY DEF BranchInv, Station, At
    <2> QED
      BY <1>u, <2>1, PeerBranchAssumption DEF Held, Registered
  <1>3. \A b \in Branches : b \in Fresh => has'[b] \subseteq {"overlay"}
    BY <1>u DEF Fresh
  <1> QED
    BY <1>u, <1>1, <1>2, <1>h, <1>3, StepKept

\* AddPeer takes a fresh branch.
LEMMA AddPeerStep ==
  ASSUME BranchInv, NEW c \in Callers, NEW p \in Ids, AddPeer(c, p)
  PROVE  BranchInv'
  <1>1. PICK b \in Fresh : /\ Begin(c, [Idle EXCEPT !.pc = "video", !.id = p, !.b = b], TRUE)
                           /\ owner' = [owner EXCEPT ![b] = p]
    BY DEF AddPeer
  <1>t. /\ op \in OpType /\ has \in [Branches -> SUBSET Parts] /\ has[b] = {}
        /\ owner \in [Branches -> Ids \cup {None}] /\ b \in Branches /\ At(c, "idle")
        /\ UNCHANGED <<has, branch, stopped, text, members, names, showNames>>
    BY <1>1 DEF BranchInv, TypeOK, OpType, OpRecord, Fresh, Begin, AddPeer, room
  <1> DEFINE r == [Idle EXCEPT !.pc = "video", !.id = p, !.b = b]
  <1>m. r \in OpRecord /\ r.pc = "video" /\ r.id = p /\ r.b = b /\ r.todo = {}
    BY <1>t, IdleType DEF OpRecord, PCs
  <1>n. op' = [op EXCEPT ![c] = r]
    BY <1>1 DEF Begin
  <1> HIDE DEF r
  <1>o. /\ op' \in OpType
        /\ op'[c].pc = "video" /\ op'[c].id = p /\ op'[c].b = b /\ op'[c].todo = {}
        /\ \A d \in Callers \ {c} : op'[d] = op[d]
    BY <1>t, <1>m, <1>n, MovedTo
  <1>2. TypeOK'
    <2>1. owner' \in [Branches -> Ids \cup {None}]
      BY <1>1, <1>t
    <2>2. overlapped' \in BOOLEAN
      BY <1>1 DEF Begin, BranchInv, TypeOK
    <2> QED
      BY <1>t, <1>o, <2>1, <2>2 DEF BranchInv, TypeOK, OpType, OpRecord
  <1>3. Station(c)'
    BY <1>o, <1>t DEF Station, At, Building
  <1>4. Progress(c)'
    <2>1. owner'[b] = p /\ has'[b] = {}
      BY <1>1, <1>t
    <2> QED
      BY <1>o, <2>1 DEF Progress, At, Building, Disposing
  <1>5. OneName'
    <2>1. \A a \in Branches : "overlay" \in has'[a] =>
            "overlay" \in has[a] /\ owner'[a] = owner[a]
      BY <1>1, <1>t
    <2> QED
      BY <2>1, NoNewName DEF BranchInv
  <1>h. /\ \A a \in Branches : a \notin Held(c)
        /\ \A a \in Branches : a \in Held(c)' <=> a = b
        /\ \A a \in Branches : Registered(a)' <=> Registered(a)
        /\ ~Registered(b)
    <2>1. op[c].b \notin Branches /\ op[c].todo = {}
      BY <1>t DEF BranchInv, Station, At, Building, Disposing
    <2>2. ~Registered(b)
      BY FreshIsNobodys
    <2>3. \A a \in Branches : Registered(a)' <=> Registered(a)
      BY <1>t DEF Registered
    <2> QED
      BY <1>o, <2>1, <2>2, <2>3 DEF Held
  <1>6. \A a \in Branches : a \notin Fresh => has'[a] = has[a] /\ owner'[a] = owner[a]
    BY <1>1, <1>t
  <1>7. \A a \in Branches : a \in Fresh => has'[a] \subseteq {"overlay"}
    BY <1>t DEF Fresh
  <1> QED
    BY <1>t, <1>2, <1>o, <1>3, <1>4, <1>5, <1>h, <1>6, <1>7, StepKept

\* The steps that add parts, each to what the branch has by then.
LEMMA BuildStep ==
  ASSUME BranchInv, NEW c \in Callers,
         BuildVideo(c) \/ BuildOverlay(c) \/ BuildAudio(c) \/ BuildTee(c) \/ ReleasePads(c)
  PROVE  BranchInv'
  <1> DEFINE b == op[c].b
  <1>t. /\ op \in OpType /\ has \in [Branches -> SUBSET Parts]
        /\ owner \in [Branches -> Ids \cup {None}] /\ text \subseteq Branches
    BY DEF BranchInv, TypeOK, OpType, OpRecord
  <1>s. Station(c) /\ Progress(c) /\ OneName
    BY DEF BranchInv
  <1>1. CASE BuildVideo(c)
    <2>1. At(c, "video") /\ Goto(c, "overlay") /\ Has(b, Video)
          /\ UNCHANGED <<owner, branch, stopped, text, room, overlapped>>
      BY <1>1 DEF BuildVideo
    <2>2. op[c].pc \in Building /\ "overlay" \in Building /\ "overlay" \in PCs
      BY <2>1 DEF At, Building, PCs
    <2>3. b \in Branches /\ op[c].id \in Ids /\ has'[b] = Video
      BY <1>t, <1>s, <2>1, <2>2 DEF Station, Has
    <2>4. op'[c].pc = "overlay" /\ op'[c].b = b /\ op'[c].id = op[c].id
      BY <1>t, <2>1, <2>2, GotoMoves
    <2>5. Progress(c)'
      BY <1>s, <2>1, <2>2, <2>3, <2>4 DEF Progress, At, Building, Disposing
    <2>6. OneName'
      <3>1. \A a \in Branches : "overlay" \in has'[a] =>
              "overlay" \in has[a] /\ owner'[a] = owner[a]
        BY <1>t, <2>1, <2>3 DEF Has, Video
      <3> QED
        BY <1>s, <3>1, NoNewName
    <2>7. Video \in SUBSET Parts
      BY DEF Parts
    <2> QED
      BY <1>t, <2>1, <2>2, <2>3, <2>5, <2>6, <2>7, PartStep
  <1>2. CASE BuildOverlay(c)
    <2>1. At(c, "overlay") /\ Goto(c, "audio") /\ Has(b, Video \cup {"overlay"})
          /\ UNCHANGED <<owner, branch, stopped, room, overlapped>> /\ text' = text \ {b}
          /\ ~NameTaken(op[c].id)
      BY <1>2 DEF BuildOverlay
    <2>2. op[c].pc \in Building /\ "audio" \in Building /\ "audio" \in PCs
      BY <2>1 DEF At, Building, PCs
    <2>3. b \in Branches /\ op[c].id \in Ids /\ has'[b] = Video \cup {"overlay"}
          /\ owner[b] = op[c].id
      BY <1>t, <1>s, <2>1, <2>2 DEF Station, Has, Progress
    <2>4. op'[c].pc = "audio" /\ op'[c].b = b /\ op'[c].id = op[c].id
      BY <1>t, <2>1, <2>2, GotoMoves
    <2>5. Progress(c)'
      BY <2>1, <2>2, <2>3, <2>4 DEF Progress, At, Building, Disposing
    <2>6. OneName'
      <3>1. \A a \in Branches \ {b} : has'[a] = has[a] /\ owner'[a] = owner[a]
        BY <1>t, <2>1 DEF Has
      <3>2. \A a \in Branches : "overlay" \in has[a] => Sanitized[owner[a]] # Sanitized[owner[b]]
        BY <2>1, <2>3 DEF NameTaken
      <3>3. \A a \in Branches : "overlay" \in has'[a] => owner'[a] \in Ids
        BY <1>s, <2>1, <2>3, <3>1 DEF OneName
      <3>4. ASSUME NEW a \in Branches, NEW d \in Branches, "overlay" \in has'[a] \cap has'[d],
                   Sanitized[owner'[a]] = Sanitized[owner'[d]]
            PROVE  a = d
        <4>1. CASE a # b /\ d # b
          BY <1>s, <3>1, <3>4, <4>1 DEF OneName
        <4>2. CASE a = b /\ d # b
          BY <2>1, <3>1, <3>2, <3>4, <4>2
        <4>3. CASE a # b /\ d = b
          BY <2>1, <3>1, <3>2, <3>4, <4>3
        <4> QED
          BY <4>1, <4>2, <4>3
      <3> QED
        BY <3>3, <3>4 DEF OneName
    <2>7. Video \cup {"overlay"} \in SUBSET Parts
      BY DEF Parts
    <2> QED
      BY <1>t, <2>1, <2>2, <2>3, <2>5, <2>6, <2>7, PartStep
  <1>3. CASE BuildAudio(c)
    <2>1. At(c, "audio") /\ Goto(c, "tee") /\ Has(b, Video \cup {"overlay"} \cup Audio)
          /\ UNCHANGED <<owner, branch, stopped, text, room, overlapped>>
      BY <1>3 DEF BuildAudio
    <2>2. op[c].pc \in Building /\ "tee" \in Building /\ "tee" \in PCs
      BY <2>1 DEF At, Building, PCs
    <2>3. b \in Branches /\ op[c].id \in Ids /\ has'[b] = Video \cup {"overlay"} \cup Audio
          /\ has[b] = Video \cup {"overlay"}
      BY <1>t, <1>s, <2>1, <2>2 DEF Station, Has, Progress
    <2>4. op'[c].pc = "tee" /\ op'[c].b = b /\ op'[c].id = op[c].id
      BY <1>t, <2>1, <2>2, GotoMoves
    <2>5. Progress(c)'
      BY <1>s, <2>1, <2>2, <2>3, <2>4 DEF Progress, At, Building, Disposing
    <2>6. OneName'
      <3>1. \A a \in Branches : "overlay" \in has'[a] =>
              "overlay" \in has[a] /\ owner'[a] = owner[a]
        BY <1>t, <2>1, <2>3 DEF Has
      <3> QED
        BY <1>s, <3>1, NoNewName
    <2>7. Video \cup {"overlay"} \cup Audio \in SUBSET Parts
      BY DEF Parts
    <2> QED
      BY <1>t, <2>1, <2>2, <2>3, <2>5, <2>6, <2>7, PartStep
  <1>4. CASE BuildTee(c)
    <2>1. At(c, "tee") /\ Goto(c, "pumps") /\ Has(b, Parts \ {"pumps"})
          /\ UNCHANGED <<owner, branch, stopped, text, room, overlapped>>
      BY <1>4 DEF BuildTee
    <2>2. op[c].pc \in Building /\ "pumps" \in Building /\ "pumps" \in PCs
      BY <2>1 DEF At, Building, PCs
    <2>3. b \in Branches /\ op[c].id \in Ids /\ has'[b] = Parts \ {"pumps"}
          /\ has[b] = Video \cup {"overlay"} \cup Audio
      BY <1>t, <1>s, <2>1, <2>2 DEF Station, Has, Progress, At
    <2>4. op'[c].pc = "pumps" /\ op'[c].b = b /\ op'[c].id = op[c].id
      BY <1>t, <2>1, <2>2, GotoMoves
    <2>5. Progress(c)'
      BY <1>s, <2>1, <2>2, <2>3, <2>4 DEF Progress, At, Building, Disposing
    <2>6. OneName'
      <3>1. \A a \in Branches : "overlay" \in has'[a] =>
              "overlay" \in has[a] /\ owner'[a] = owner[a]
        BY <1>t, <2>1, <2>3 DEF Has
      <3> QED
        BY <1>s, <3>1, NoNewName
    <2> QED
      BY <1>t, <2>1, <2>2, <2>3, <2>5, <2>6, PartStep
  <1>5. CASE ReleasePads(c)
    <2> DEFINE X == {"video bin", "audio bin", "tee", "overlay"}
    <2>1. At(c, "remove") /\ Goto(c, "unlink") /\ Has(b, X)
          /\ UNCHANGED <<owner, branch, stopped, text, room, overlapped>>
      BY <1>5 DEF ReleasePads
    <2>2. /\ op[c].pc \in Disposing /\ "unlink" \in Disposing /\ "unlink" \in PCs
          /\ "unlink" \notin Building
      BY <2>1 DEF At, Disposing, Building, PCs
    <2>3. b \in Branches /\ has'[b] = X /\ "overlay" \in has[b]
      BY <1>t, <1>s, <2>1, <2>2 DEF Station, Has, Progress
    <2>4. op'[c].pc = "unlink" /\ op'[c].b = b
      BY <1>t, <2>1, <2>2, GotoMoves
    <2>5. Progress(c)'
      BY <2>3, <2>4 DEF Progress, At, Building, Disposing
    <2>6. OneName'
      <3>1. \A a \in Branches : "overlay" \in has'[a] =>
              "overlay" \in has[a] /\ owner'[a] = owner[a]
        BY <1>t, <2>1, <2>3 DEF Has
      <3> QED
        BY <1>s, <3>1, NoNewName
    <2>7. X \in SUBSET Parts
      BY DEF Parts, Video, Audio
    <2> QED
      BY <1>t, <2>1, <2>2, <2>5, <2>6, <2>7, PartStep
  <1> QED
    BY <1>1, <1>2, <1>3, <1>4, <1>5

\* Error paths and the end of disposePeer.
LEMMA GiveUpStep ==
  ASSUME BranchInv, NEW c \in Callers,
         VideoFails(c) \/ OverlayFails(c) \/ AudioFails(c) \/ RemoveElements(c)
  PROVE  BranchInv'
  <1> DEFINE b == op[c].b
  <1>t. has \in [Branches -> SUBSET Parts] /\ text \subseteq Branches
    BY DEF BranchInv, TypeOK
  <1>s. Progress(c)
    BY DEF BranchInv
  <1>1. CASE VideoFails(c)
    <2>1. /\ At(c, "video") /\ Return(c) /\ UNCHANGED <<pipeline, text, room, overlapped>>
          /\ op[c].pc \in Building
      BY <1>1 DEF VideoFails, At, Building
    <2>2. Has(b, {}) /\ {} \in SUBSET {"overlay"}
      BY <1>s, <1>t, <2>1 DEF Progress, Has, pipeline
    <2> QED
      BY <1>t, <2>1, <2>2, GivenUpStep DEF pipeline
  <1>2. CASE OverlayFails(c) \/ RemoveElements(c)
    <2>1. /\ Return(c) /\ Has(b, {}) /\ op[c].pc \in Building \cup Disposing
          /\ UNCHANGED <<owner, branch, stopped, text, room, overlapped>>
      BY <1>2 DEF OverlayFails, RemoveElements, At, Building, Disposing
    <2>2. {} \in SUBSET {"overlay"}
      OBVIOUS
    <2> QED
      BY <1>t, <2>1, <2>2, GivenUpStep
  <1>3. CASE AudioFails(c)
    <2>1. /\ Return(c) /\ Has(b, {"overlay"}) /\ op[c].pc \in Building
          /\ UNCHANGED <<owner, branch, stopped, text, room, overlapped>>
          /\ At(c, "audio") \/ At(c, "tee")
      BY <1>3 DEF AudioFails, At, Building
    <2>2. {"overlay"} \in SUBSET {"overlay"} /\ {"overlay"} \subseteq has[b]
      BY <1>s, <2>1 DEF Progress
    <2> QED
      BY <1>t, <2>1, <2>2, GivenUpStep
  <1> QED
    BY <1>1, <1>2, <1>3

\* The branch is registered without a second look at p.peers: it overwrites
\* nothing because the overlay of a registered branch has the same name.
LEMMA RegisterBranchStep ==
  ASSUME BranchInv, NEW c \in Callers, RegisterBranch(c)
  PROVE  BranchInv' /\ branch[op[c].id] = None
  <1> DEFINE b == op[c].b
             p == op[c].id
  <1>t. /\ op \in OpType /\ has \in [Branches -> SUBSET Parts]
        /\ branch \in [Ids -> Branches \cup {None}]
        /\ At(c, "pumps") /\ Has(b, Parts) /\ branch' = [branch EXCEPT ![p] = b]
        /\ UNCHANGED <<owner, stopped, text, room, overlapped>>
    BY DEF BranchInv, TypeOK, OpType, OpRecord, RegisterBranch
  <1>s. /\ b \in Branches /\ p \in Ids /\ op[c].todo = {} /\ owner[b] = p
        /\ has[b] = Parts \ {"pumps"}
    BY <1>t DEF BranchInv, Station, Progress, At, Building
  <1>c. "connect" \in PCs /\ None \in Branches \cup {None}
    BY DEF PCs
  <1>o. /\ op' \in OpType
        /\ op'[c].pc = "connect" /\ op'[c].id = p /\ op'[c].b = None /\ op'[c].todo = {}
        /\ \A d \in Callers \ {c} : op'[d] = op[d]
    <2>1. op' = [op EXCEPT ![c].pc = "connect", ![c].b = None]
      BY DEF RegisterBranch
    <2>2. op' \in OpType
      BY <1>t, <1>c, <2>1 DEF OpType, OpRecord
    <2>3. op'[c].pc = "connect" /\ op'[c].id = p /\ op'[c].b = None /\ op'[c].todo = op[c].todo
      BY <1>t, <2>1 DEF OpType, OpRecord
    <2>4. \A d \in Callers \ {c} : op'[d] = op[d]
      BY <1>t, <2>1 DEF OpType, OpRecord
    <2> QED
      BY <1>s, <2>2, <2>3, <2>4
  <1>n. branch[p] = None
    <2> SUFFICES ASSUME branch[p] # None PROVE FALSE
      OBVIOUS
    <2>1. branch[p] \in Branches /\ has[branch[p]] = Parts /\ owner[branch[p]] = p
      BY <1>t, <1>s DEF BranchInv, Whole
    <2>2. branch[p] \notin Held(c)
      BY <1>s DEF BranchInv, Apart
    <2>3. "overlay" \in has[b] /\ "overlay" \in Parts
      BY <1>s DEF Parts
    <2>4. branch[p] = b
      BY <1>s, <2>1, <2>3 DEF BranchInv, OneName
    <2> QED
      BY <2>2, <2>4 DEF Held
  <1>1. TypeOK'
    <2>1. has' \in [Branches -> SUBSET Parts] /\ branch' \in [Ids -> Branches \cup {None}]
      BY <1>t, <1>s DEF Has
    <2> QED
      BY <1>t, <1>o, <2>1 DEF BranchInv, TypeOK, OpType, OpRecord, room
  <1>2. Station(c)' /\ Progress(c)'
    BY <1>o, <1>s, PeerBranchAssumption DEF Station, Progress, At, Building, Disposing
  <1>h. /\ \A a \in Branches : a \in Held(c) <=> a = b
        /\ \A a \in Branches : a \notin Held(c)'
    BY <1>o, <1>s, PeerBranchAssumption DEF Held
  <1>3. /\ \A a \in Branches \ {b} : has'[a] = has[a] /\ owner'[a] = owner[a]
        /\ has'[b] = Parts /\ owner'[b] = p
    BY <1>t, <1>s DEF Has
  <1>4. OneName'
    <2>1. \A a \in Branches : "overlay" \in has'[a] =>
            "overlay" \in has[a] /\ owner'[a] = owner[a]
      BY <1>3, <1>s DEF Parts
    <2> QED
      BY <2>1, NoNewName DEF BranchInv
  <1>5. /\ branch'[p] = b /\ \A q \in Ids \ {p} : branch'[q] = branch[q]
        /\ \A a \in Branches : Registered(a) \/ a = b => Registered(a)'
    <2>1. branch'[p] = b /\ \A q \in Ids \ {p} : branch'[q] = branch[q]
      BY <1>t, <1>s
    <2> QED
      BY <1>n, <1>s, <2>1, PeerBranchAssumption DEF Registered
  <1>6. \A a \in Branches : a \in Held(c) \/ Registered(a) \/ a \in Fresh =>
          has'[a] \subseteq {"overlay"} \/ Registered(a)' \/ a \in Held(c)'
    BY <1>h, <1>3, <1>5 DEF Fresh
  <1>7. \A q \in Ids : branch'[q] # None =>
          \/ branch'[q] = branch[q]
          \/ branch'[q] \in Held(c) /\ has'[branch'[q]] = Parts /\ owner'[branch'[q]] = q
    BY <1>3, <1>5, <1>h, <1>s
  <1>8. BranchInv'
    BY <1>1, <1>2, <1>o, <1>h, <1>3, <1>4, <1>6, <1>7, StepKept
  <1> QED
    BY <1>8, <1>n

\* pipeline.RemovePeer: the branch changes hands under the lock.
LEMMA TakeStep ==
  ASSUME BranchInv, NEW c \in Callers, ConnectFails(c) \/ Dispose(c)
  PROVE  BranchInv'
  <1> DEFINE p == op[c].id
             b == branch[p]
             r == IF b = None THEN Idle ELSE [Idle EXCEPT !.pc = "remove", !.id = p, !.b = b]
  <1>t. /\ op \in OpType /\ has \in [Branches -> SUBSET Parts]
        /\ branch \in [Ids -> Branches \cup {None}]
        /\ op' = [op EXCEPT ![c] = r] /\ branch' = [branch EXCEPT ![p] = None]
        /\ UNCHANGED <<has, owner, stopped, text, room, overlapped>>
        /\ At(c, "connect") \/ At(c, "dispose")
    BY DEF BranchInv, TypeOK, OpType, OpRecord, ConnectFails, Dispose, TakeBranch
  <1>s. /\ p \in Ids /\ op[c].todo = {} /\ op[c].b \notin Branches
        /\ b \in Branches \cup {None}
    BY <1>t DEF BranchInv, Station, At, Building, Disposing
  <1>m. /\ r \in OpRecord /\ r.todo = {} /\ r.b = b
        /\ b = None => r.pc = "idle"
        /\ b # None => r.pc = "remove"
    <2>1. CASE b = None
      BY <2>1, IdleType
    <2>2. CASE b # None
      BY <1>s, <2>2, IdleType DEF OpRecord, PCs
    <2> QED
      BY <2>1, <2>2
  <1> HIDE DEF r
  <1>o. /\ op' \in OpType /\ op'[c].todo = {} /\ op'[c].b = b
        /\ b = None => op'[c].pc = "idle"
        /\ b # None => op'[c].pc = "remove"
        /\ \A d \in Callers \ {c} : op'[d] = op[d]
    BY <1>t, <1>m, MovedTo
  <1>1. TypeOK'
    <2>1. branch' \in [Ids -> Branches \cup {None}]
      BY <1>t
    <2> QED
      BY <1>t, <1>o, <2>1 DEF BranchInv, TypeOK, OpType, OpRecord, room
  <1>2. Station(c)'
    BY <1>o, <1>s, PeerBranchAssumption DEF Station, At, Building, Disposing
  <1>w. b # None => has[b] = Parts /\ owner[b] = p
    BY <1>s DEF BranchInv, Whole
  <1>3. Progress(c)'
    BY <1>t, <1>o, <1>w DEF Progress, At, Building, Disposing, Parts
  <1>4. OneName'
    BY <1>t DEF BranchInv, OneName
  <1>h. /\ \A a \in Branches : a \notin Held(c)
        /\ \A a \in Branches : a \in Held(c)' <=> a = b
    BY <1>o, <1>s, PeerBranchAssumption DEF Held
  <1>5. /\ branch'[p] = None /\ \A q \in Ids \ {p} : branch'[q] = branch[q]
        /\ \A q \in Ids \ {p} : b # None => branch[q] # b
    <2>1. branch'[p] = None /\ \A q \in Ids \ {p} : branch'[q] = branch[q]
      BY <1>t, <1>s
    <2>2. \A q \in Ids \ {p} : b # None => branch[q] # b
      BY <1>w DEF BranchInv, Whole
    <2> QED
      BY <2>1, <2>2
  <1>6. \A a \in Branches : /\ Registered(a)' => Registered(a) /\ a # b
                            /\ Registered(a) => Registered(a)' \/ a = b
    BY <1>5, PeerBranchAssumption DEF Registered
  <1>7. \A a \in Branches : a \in Held(c)' => Registered(a) /\ ~Registered(a)'
    BY <1>h, <1>6, <1>s DEF Registered
  <1>8. \A a \in Branches : a \in Held(c) \/ Registered(a) \/ a \in Fresh =>
          has'[a] \subseteq {"overlay"} \/ Registered(a)' \/ a \in Held(c)'
    BY <1>t, <1>h, <1>6 DEF Fresh
  <1>9. \A q \in Ids : branch'[q] # None => branch'[q] = branch[q]
    BY <1>5
  <1>10. \A a \in Branches : has'[a] = has[a] /\ owner'[a] = owner[a]
    BY <1>t
  <1> QED
    BY <1>1, <1>2, <1>o, <1>3, <1>4, <1>7, <1>8, <1>9, <1>10, StepKept

\* pipeline.Stop takes every registered branch at once.
LEMMA StopStep ==
  ASSUME BranchInv, NEW c \in Callers, Stop(c)
  PROVE  BranchInv'
  <1> DEFINE S == {branch[p] : p \in Ids} \ {None}
             r == [Idle EXCEPT !.pc = "stop", !.todo = S]
  <1>t. /\ op \in OpType /\ has \in [Branches -> SUBSET Parts] /\ At(c, "idle")
        /\ branch \in [Ids -> Branches \cup {None}]
        /\ op' = [op EXCEPT ![c] = r] /\ branch' = [p \in Ids |-> None] /\ stopped' = TRUE
        /\ UNCHANGED <<has, owner, text, room>> /\ overlapped' = overlapped
    BY DEF BranchInv, TypeOK, OpType, OpRecord, Stop, Begin
  <1>s. op[c].b \notin Branches /\ op[c].todo = {} /\ S \subseteq Branches
    BY <1>t DEF BranchInv, Station, At, Building, Disposing
  <1>r. \A a \in Branches : (a \in S <=> Registered(a)) /\ (a \in S => has[a] = Parts)
    BY <1>t, PeerBranchAssumption DEF Registered, BranchInv, Whole
  <1> HIDE DEF S
  <1>m. r \in OpRecord /\ r.pc = "stop" /\ r.todo = S /\ r.b = None
    BY <1>s, IdleType DEF OpRecord, PCs
  <1> HIDE DEF r
  <1>o. /\ op' \in OpType /\ op'[c].pc = "stop" /\ op'[c].todo = S /\ op'[c].b = None
        /\ \A d \in Callers \ {c} : op'[d] = op[d]
    BY <1>t, <1>m, MovedTo
  <1>1. TypeOK'
    BY <1>t, <1>o DEF BranchInv, TypeOK, OpType, OpRecord, room
  <1>2. Station(c)' /\ Progress(c)'
    BY <1>t, <1>o, <1>s, <1>r, PeerBranchAssumption DEF Station, Progress, At, Building, Disposing
  <1>4. OneName'
    BY <1>t DEF BranchInv, OneName
  <1>h. /\ \A a \in Branches : a \notin Held(c)
        /\ \A a \in Branches : a \in Held(c)' <=> a \in S
        /\ \A a \in Branches : ~Registered(a)'
    BY <1>t, <1>o, <1>s, PeerBranchAssumption DEF Held, Registered
  <1>5. \A a \in Branches : a \in Held(c) \/ Registered(a) \/ a \in Fresh =>
          has'[a] \subseteq {"overlay"} \/ Registered(a)' \/ a \in Held(c)'
    BY <1>t, <1>h, <1>r DEF Fresh
  <1>6. \A q \in Ids : branch'[q] = None
    BY <1>t
  <1>7. \A a \in Branches : has'[a] = has[a] /\ owner'[a] = owner[a]
    BY <1>t
  <1> QED
    BY <1>1, <1>2, <1>o, <1>4, <1>h, <1>r, <1>5, <1>6, <1>7, StepKept

\* ... and disposes of them one after the other.
LEMMA DisposeStoppedStep ==
  ASSUME BranchInv, NEW c \in Callers, DisposeStopped(c)
  PROVE  BranchInv'
  <1>t. /\ op \in OpType /\ has \in [Branches -> SUBSET Parts] /\ At(c, "stop")
        /\ UNCHANGED <<owner, branch, stopped, text, room, overlapped>>
    BY DEF BranchInv, TypeOK, OpType, OpRecord, DisposeStopped
  <1>s. op[c].b \notin Branches /\ op[c].todo \subseteq Branches
    BY <1>t DEF BranchInv, Station, At, Building, Disposing
  <1>r. \A a \in Branches : Registered(a)' <=> Registered(a)
    BY <1>t DEF Registered
  <1>1. CASE op[c].todo = {}
    <2>1. Return(c) /\ UNCHANGED has
      BY <1>1 DEF DisposeStopped
    <2>2. /\ op' \in OpType /\ op'[c].pc = "idle" /\ op'[c].b = None /\ op'[c].todo = {}
          /\ \A d \in Callers \ {c} : op'[d] = op[d]
      BY <1>t, <2>1, ReturnMoves
    <2>3. TypeOK'
      BY <1>t, <2>1, <2>2 DEF BranchInv, TypeOK, OpType, OpRecord, room
    <2>4. Station(c)' /\ Progress(c)'
      BY <2>2, PeerBranchAssumption DEF Station, Progress, At, Building, Disposing
    <2>5. OneName'
      BY <1>t, <2>1 DEF BranchInv, OneName
    <2>6. \A a \in Branches : a \notin Held(c) /\ a \notin Held(c)'
      BY <1>1, <1>s, <2>2, PeerBranchAssumption DEF Held
    <2>7. \A a \in Branches : a \in Fresh => has'[a] \subseteq {"overlay"}
      BY <2>1 DEF Fresh
    <2> QED
      BY <1>t, <1>r, <2>1, <2>2, <2>3, <2>4, <2>5, <2>6, <2>7, StepKept
  <1>2. CASE op[c].todo # {}
    <2>1. PICK b \in op[c].todo : op' = [op EXCEPT ![c].todo = @ \ {b}] /\ Has(b, {})
      BY <1>2 DEF DisposeStopped
    <2>2. op' \in OpType
      BY <1>t, <2>1 DEF OpType, OpRecord
    <2>3. /\ op'[c].pc = "stop" /\ op'[c].b = op[c].b /\ op'[c].todo = op[c].todo \ {b}
          /\ op'[c].id = op[c].id
      BY <1>t, <2>1 DEF OpType, OpRecord, At
    <2>4. \A d \in Callers \ {c} : op'[d] = op[d]
      BY <1>t, <2>1 DEF OpType, OpRecord
    <2>5. /\ has' \in [Branches -> SUBSET Parts] /\ b \in Branches
          /\ has'[b] = {} /\ \A a \in Branches \ {b} : has'[a] = has[a]
      BY <1>t, <1>s, <2>1 DEF Has
    <2>6. TypeOK'
      BY <1>t, <2>2, <2>5 DEF BranchInv, TypeOK, OpType, OpRecord, room
    <2>7. Station(c)'
      BY <1>s, <2>3 DEF Station, At, Building, Disposing
    <2>8. Progress(c)'
      <3>1. \A a \in op[c].todo : has[a] = Parts
        BY <1>t DEF BranchInv, Progress
      <3>2. \A a \in op[c].todo \ {b} : has'[a] = Parts
        BY <1>s, <2>5, <3>1
      <3> QED
        BY <2>3, <3>2 DEF Progress, At, Building, Disposing
    <2>9. OneName'
      <3>1. \A a \in Branches : "overlay" \in has'[a] =>
              "overlay" \in has[a] /\ owner'[a] = owner[a]
        BY <1>t, <2>5
      <3> QED
        BY <3>1, NoNewName DEF BranchInv
    <2>h. /\ \A a \in Branches : a \in Held(c) <=> a \in op[c].todo
          /\ \A a \in Branches : a \in Held(c)' <=> a \in op[c].todo \ {b}
      BY <1>s, <2>3 DEF Held
    <2>10. \A a \in Branches : a \in Held(c)' => a \in Held(c) /\ ~Registered(a)'
      <3>1. \A a \in Branches : a \in Held(c) => ~Registered(a)
        BY PeerBranchAssumption DEF BranchInv, Apart, Registered
      <3> QED
        BY <1>r, <2>h, <3>1
    <2>11. \A a \in Branches : a \in Held(c) \/ Registered(a) \/ a \in Fresh =>
             has'[a] \subseteq {"overlay"} \/ Registered(a)' \/ a \in Held(c)'
      BY <1>r, <2>5, <2>h DEF Fresh
    <2>12. \A a \in Branches : a \notin Held(c) => has'[a] = has[a] /\ owner'[a] = owner[a]
      BY <1>t, <2>1, <2>5, <2>h
    <2> QED
      BY <1>t, <2>4, <2>6, <2>7, <2>8, <2>9, <2>10, <2>11, <2>12, StepKept
  <1> QED
    BY <1>1, <1>2

\* What the room does between the calls of the pipeline: where the goroutine that
\* moves stands before and after.
LEMMA RoomStep ==
  ASSUME BranchInv, NEW c \in Callers,
         \/ Register(c) \/ RefreshAllOverlays(c) \/ SetPeerOverlay(c)
         \/ \E p \in Ids : RemovePeer(c, p)
         \/ \E on \in BOOLEAN : SetShowNames(c, on)
  PROVE  /\ BranchInv'
         /\ UNCHANGED pipeline
         /\ \A d \in Callers \ {c} : op'[d] = op[d]
         /\ Register(c) =>
              \/ /\ op[c].id \in WebPeers /\ op'[c].pc = "overlays"
                 /\ op'[c].on = showNames /\ op'[c].todo = {op[c].id}
              \/ op[c].id \notin WebPeers /\ op'[c].pc = "idle"
         /\ RefreshAllOverlays(c) =>
              op'[c].pc = "overlays" /\ op'[c].on = showNames /\ op'[c].todo = names
         /\ (\E p \in Ids : RemovePeer(c, p)) => op[c].pc = "idle" /\ op'[c].pc = "dispose"
         /\ (\E on \in BOOLEAN : SetShowNames(c, on)) => op[c].pc = "idle" /\ op'[c].pc = "refresh"
  <1>t. /\ op \in OpType /\ branch \in [Ids -> Branches \cup {None}] /\ text \subseteq Branches
        /\ members \subseteq Ids /\ names \subseteq Ids /\ showNames \in BOOLEAN
        /\ overlapped \in BOOLEAN /\ Station(c)
    BY DEF BranchInv, TypeOK, OpType, OpRecord
  <1>u. UNCHANGED pipeline
    BY DEF Register, RefreshAllOverlays, SetPeerOverlay, RemovePeer, SetShowNames
  <1>1. CASE Register(c)
    <2> DEFINE p == op[c].id
    <2>1. /\ At(c, "connect") /\ members' = members \cup {p} /\ names' = names \cup {p}
          /\ UNCHANGED <<text, showNames, overlapped>>
      BY <1>1 DEF Register
    <2>2. p \in Ids /\ op[c].b \notin Branches /\ op[c].todo = {}
      BY <1>t, <2>1 DEF Station, At, Building, Disposing
    <2>3. CASE p \in WebPeers
      <3>1. op' = [op EXCEPT ![c].pc = "overlays", ![c].on = showNames, ![c].todo = {p}]
        BY <1>1, <2>3 DEF Register
      <3>2. op' \in OpType
        <4>1. "overlays" \in PCs /\ {p} \in SUBSET (Ids \cup Branches)
          BY <2>2 DEF PCs
        <4> QED
          BY <1>t, <3>1, <4>1, SetMoves
      <3>3. /\ op'[c].pc = "overlays" /\ op'[c].on = showNames /\ op'[c].todo = {p}
            /\ op'[c].b = op[c].b /\ op'[c].id = p
        BY <1>t, <3>1 DEF OpType, OpRecord
      <3>4. \A d \in Callers \ {c} : op'[d] = op[d]
        BY <1>t, <3>1 DEF OpType, OpRecord
      <3>5. TypeOK'
        BY <1>t, <1>u, <2>1, <2>2, <3>2 DEF BranchInv, TypeOK, OpType, OpRecord, pipeline
      <3>6. Station(c)'
        BY <2>2, <3>3 DEF Station, At, Building, Disposing
      <3>7. /\ op[c].pc \notin Building \cup Disposing \cup {"stop"}
            /\ op'[c].pc \notin Building \cup Disposing \cup {"stop"}
        BY <2>1, <3>3 DEF At, Building, Disposing
      <3>8. BranchInv'
        BY <1>u, <3>4, <3>5, <3>6, <3>7, NoBranchStep
      <3> QED
        BY <1>u, <2>1, <2>3, <3>3, <3>4, <3>8
        DEF At, RefreshAllOverlays, RemovePeer, SetShowNames, Begin
    <2>4. CASE p \notin WebPeers
      <3>1. Return(c)
        BY <1>1, <2>4 DEF Register
      <3>2. /\ op' \in OpType /\ op'[c].pc = "idle" /\ op'[c].b = None /\ op'[c].todo = {}
            /\ \A d \in Callers \ {c} : op'[d] = op[d]
        BY <1>t, <3>1, ReturnMoves
      <3>5. TypeOK'
        BY <1>t, <1>u, <2>1, <2>2, <3>2 DEF BranchInv, TypeOK, OpType, OpRecord, pipeline
      <3>6. Station(c)'
        BY <3>2, PeerBranchAssumption DEF Station, At, Building, Disposing
      <3>7. /\ op[c].pc \notin Building \cup Disposing \cup {"stop"}
            /\ op'[c].pc \notin Building \cup Disposing \cup {"stop"}
        BY <2>1, <3>2 DEF At, Building, Disposing
      <3>8. BranchInv'
        BY <1>u, <3>2, <3>5, <3>6, <3>7, NoBranchStep
      <3> QED
        BY <1>u, <2>1, <2>4, <3>2, <3>8
        DEF At, RefreshAllOverlays, RemovePeer, SetShowNames, Begin
    <2> QED
      BY <2>3, <2>4
  <1>2. CASE RefreshAllOverlays(c)
    <2>1. /\ At(c, "refresh") /\ UNCHANGED <<text, room, overlapped>>
          /\ op' = [op EXCEPT ![c].pc = "overlays", ![c].on = showNames, ![c].todo = names]
      BY <1>2 DEF RefreshAllOverlays
    <2>2. op[c].b \notin Branches
      BY <1>t, <2>1 DEF Station, At, Building, Disposing
    <2>3. op' \in OpType
      <3>1. "overlays" \in PCs /\ names \in SUBSET (Ids \cup Branches)
        BY <1>t DEF PCs
      <3> QED
        BY <1>t, <2>1, <3>1, SetMoves
    <2>4. /\ op'[c].pc = "overlays" /\ op'[c].on = showNames /\ op'[c].todo = names
          /\ op'[c].b = op[c].b
      BY <1>t, <2>1 DEF OpType, OpRecord
    <2>5. \A d \in Callers \ {c} : op'[d] = op[d]
      BY <1>t, <2>1 DEF OpType, OpRecord
    <2>6. TypeOK'
      BY <1>t, <1>u, <2>1, <2>3 DEF BranchInv, TypeOK, OpType, OpRecord, pipeline, room
    <2>7. Station(c)'
      BY <1>t, <2>2, <2>4 DEF Station, At, Building, Disposing
    <2>8. /\ op[c].pc \notin Building \cup Disposing \cup {"stop"}
          /\ op'[c].pc \notin Building \cup Disposing \cup {"stop"}
      BY <2>1, <2>4 DEF At, Building, Disposing
    <2>9. BranchInv'
      BY <1>u, <2>5, <2>6, <2>7, <2>8, NoBranchStep
    <2> QED
      BY <1>u, <2>1, <2>4, <2>5, <2>9 DEF At, Register, RemovePeer, SetShowNames, Begin
  <1>3. CASE SetPeerOverlay(c)
    <2>1. At(c, "overlays") /\ UNCHANGED <<room, overlapped>>
      BY <1>3 DEF SetPeerOverlay
    <2>2. op[c].b \notin Branches /\ op[c].todo \subseteq Ids
      BY <1>t, <2>1 DEF Station, At, Building, Disposing
    <2>3. /\ op' \in OpType /\ text' \subseteq Branches
          /\ \A d \in Callers \ {c} : op'[d] = op[d]
          /\ op'[c].b \notin Branches /\ op'[c].todo \subseteq op[c].todo
          /\ \/ op'[c].pc = "overlays"
             \/ op'[c].pc = "idle" /\ op'[c].todo = {}
      <3>1. CASE op[c].todo = {}
        <4>1. Return(c) /\ UNCHANGED text
          BY <1>3, <3>1 DEF SetPeerOverlay
        <4> QED
          BY <1>t, <3>1, <4>1, ReturnMoves, PeerBranchAssumption
      <3>2. CASE op[c].todo # {}
        <4>1. PICK p \in op[c].todo :
                /\ op' = [op EXCEPT ![c].todo = @ \ {p}]
                /\ text' = IF op[c].on THEN text \cup ({branch[p]} \ {None})
                           ELSE text \ {branch[p]}
          BY <1>3, <3>2 DEF SetPeerOverlay
        <4>2. text' \subseteq Branches
          BY <1>t, <2>2, <4>1
        <4>3. op' \in OpType
          BY <1>t, <4>1 DEF OpType, OpRecord
        <4>4. /\ op'[c].pc = "overlays" /\ op'[c].b = op[c].b
              /\ op'[c].todo = op[c].todo \ {p}
          BY <1>t, <2>1, <4>1 DEF OpType, OpRecord, At
        <4>5. \A d \in Callers \ {c} : op'[d] = op[d]
          BY <1>t, <4>1 DEF OpType, OpRecord
        <4> QED
          BY <2>2, <4>2, <4>3, <4>4, <4>5
      <3> QED
        BY <3>1, <3>2
    <2>6. TypeOK'
      BY <1>t, <1>u, <2>1, <2>3 DEF BranchInv, TypeOK, OpType, OpRecord, pipeline, room
    <2>7. Station(c)'
      BY <2>2, <2>3 DEF Station, At, Building, Disposing
    <2>8. /\ op[c].pc \notin Building \cup Disposing \cup {"stop"}
          /\ op'[c].pc \notin Building \cup Disposing \cup {"stop"}
      BY <2>1, <2>3 DEF At, Building, Disposing
    <2>9. BranchInv'
      BY <1>u, <2>3, <2>6, <2>7, <2>8, NoBranchStep
    <2> QED
      BY <1>u, <2>1, <2>3, <2>9 DEF At, Register, RefreshAllOverlays, RemovePeer, SetShowNames, Begin
  <1>4. ASSUME NEW p \in Ids, RemovePeer(c, p)
        PROVE  /\ BranchInv' /\ op[c].pc = "idle" /\ op'[c].pc = "dispose"
               /\ \A d \in Callers \ {c} : op'[d] = op[d]
    <2> DEFINE r == [Idle EXCEPT !.pc = "dispose", !.id = p]
    <2>1. /\ At(c, "idle") /\ op' = [op EXCEPT ![c] = r] /\ overlapped' = overlapped
          /\ members' \subseteq members /\ names' \subseteq names
          /\ UNCHANGED <<text, showNames>>
      BY <1>4, <1>t DEF RemovePeer, Begin
    <2>2. r \in OpRecord /\ r.pc = "dispose" /\ r.id = p /\ r.b = None /\ r.todo = {}
      BY IdleType DEF OpRecord, PCs
    <2> HIDE DEF r
    <2>3. /\ op' \in OpType /\ op'[c].pc = "dispose" /\ op'[c].id = p /\ op'[c].b = None
          /\ op'[c].todo = {} /\ \A d \in Callers \ {c} : op'[d] = op[d]
      BY <1>t, <2>1, <2>2, MovedTo
    <2>4. TypeOK'
      BY <1>t, <1>u, <2>1, <2>3 DEF BranchInv, TypeOK, OpType, OpRecord, pipeline
    <2>5. Station(c)'
      BY <2>3, PeerBranchAssumption DEF Station, At, Building, Disposing
    <2>6. /\ op[c].pc \notin Building \cup Disposing \cup {"stop"}
          /\ op'[c].pc \notin Building \cup Disposing \cup {"stop"}
      BY <2>1, <2>3 DEF At, Building, Disposing
    <2>7. BranchInv'
      BY <1>u, <2>3, <2>4, <2>5, <2>6, NoBranchStep
    <2> QED
      BY <2>1, <2>3, <2>7 DEF At
  <1>5. ASSUME NEW on \in BOOLEAN, SetShowNames(c, on)
        PROVE  /\ BranchInv' /\ op[c].pc = "idle" /\ op'[c].pc = "refresh"
               /\ \A d \in Callers \ {c} : op'[d] = op[d]
    <2> DEFINE r == [Idle EXCEPT !.pc = "refresh"]
    <2>1. /\ At(c, "idle") /\ op' = [op EXCEPT ![c] = r] /\ showNames' = on
          /\ UNCHANGED <<text, members, names>>
      BY <1>5 DEF SetShowNames, Begin
    <2>o. overlapped' \in BOOLEAN
      BY <1>5 DEF SetShowNames, Begin
    <2>2. r \in OpRecord /\ r.pc = "refresh" /\ r.b = None /\ r.todo = {}
      BY IdleType DEF OpRecord, PCs
    <2> HIDE DEF r
    <2>3. /\ op' \in OpType /\ op'[c].pc = "refresh" /\ op'[c].b = None
          /\ op'[c].todo = {} /\ \A d \in Callers \ {c} : op'[d] = op[d]
      BY <1>t, <2>1, <2>2, MovedTo
    <2>4. TypeOK'
      BY <1>t, <1>u, <2>1, <2>o, <2>3 DEF BranchInv, TypeOK, OpType, OpRecord, pipeline
    <2>5. Station(c)'
      BY <2>3, PeerBranchAssumption DEF Station, At, Building, Disposing
    <2>6. /\ op[c].pc \notin Building \cup Disposing \cup {"stop"}
          /\ op'[c].pc \notin Building \cup Disposing \cup {"stop"}
      BY <2>1, <2>3 DEF At, Building, Disposing
    <2>7. BranchInv'
      BY <1>u, <2>3, <2>4, <2>5, <2>6, NoBranchStep
    <2> QED
      BY <2>1, <2>3, <2>7 DEF At
  <1>6. CASE \E p \in Ids : RemovePeer(c, p)
    BY <1>4, <1>5, <1>6, <1>u DEF At, Register, RefreshAllOverlays
  <1>7. CASE \E on \in BOOLEAN : SetShowNames(c, on)
    BY <1>4, <1>5, <1>7, <1>u DEF At, Register, RefreshAllOverlays
  <1> QED
    BY <1>1, <1>2, <1>3, <1>6, <1>7

-----------------------------------------------------------------------------
(* Names                                                                   *)

\* A goroutine that sets no overlays keeps the names, provided that it registers
\* branches only for who is not yet a member and leaves the overlays of registered
\* branches alone.
LEMMA NamesKept ==
  ASSUME NamesInv, NEW c \in Callers, \A d \in Callers \ {c} : op'[d] = op[d],
         UNCHANGED room,
         op[c].pc \notin {"refresh", "overlays"}, op'[c].pc \notin {"refresh", "overlays"},
         ~overlapped' => ~overlapped /\ (Naming(c)' => Naming(c) \/ \A d \in Callers : ~Naming(d)),
         ~overlapped /\ op'[c].pc \in Building \cup {"connect"} =>
           op'[c].id \notin members \cap WebPeers,
         \A p \in members \cap WebPeers : ~overlapped => branch'[p] \in {None, branch[p]},
         \A p \in members \cap WebPeers : branch[p] # None => (branch[p] \in text' <=> branch[p] \in text)
  PROVE  NamesInv'
  <1>1. UNCHANGED <<members, names, showNames>>
    BY DEF room
  <1>2. \A d \in Callers \ {c} : (Naming(d)' <=> Naming(d))
    BY DEF Naming
  <1>3. ASSUME ~overlapped'
        PROVE  /\ \A d, e \in Callers : Naming(d)' /\ Naming(e)' => d = e
               /\ \A d \in Callers :
                    /\ op'[d].pc \in Building \cup {"connect"} =>
                         op'[d].id \notin members \cap WebPeers
                    /\ op'[d].pc = "overlays" => op'[d].on = showNames
    <2>1. \A d, e \in Callers : Naming(d)' /\ Naming(e)' => d = e
      BY <1>2, <1>3 DEF NamesInv
    <2>2. ASSUME NEW d \in Callers
          PROVE  /\ op'[d].pc \in Building \cup {"connect"} =>
                      op'[d].id \notin members \cap WebPeers
                 /\ op'[d].pc = "overlays" => op'[d].on = showNames
      BY <1>3 DEF NamesInv, At
    <2> QED
      BY <2>1, <2>2
  <1>4. ASSUME ~overlapped', NEW p \in members \cap WebPeers
        PROVE  Shown(p)' \/ ToBeSet(p)'
    <2>1. CASE Shown(p)
      <3>1. branch'[p] \in {None, branch[p]}
        BY <1>4
      <3>2. branch[p] # None => (branch[p] \in text' <=> branch[p] \in text)
        OBVIOUS
      <3> QED
        BY <1>1, <2>1, <3>1, <3>2 DEF Shown
    <2>2. CASE ToBeSet(p)
      <3>1. PICK d \in Callers : At(d, "refresh") \/ (At(d, "overlays") /\ p \in op[d].todo)
        BY <2>2 DEF ToBeSet
      <3>2. d # c
        BY <3>1 DEF At
      <3>3. op'[d] = op[d]
        BY <3>2
      <3> QED
        BY <3>1, <3>3 DEF ToBeSet, At
    <2> QED
      BY <1>4, <2>1, <2>2 DEF NamesInv
  <1> QED
    BY <1>1, <1>3, <1>4 DEF NamesInv, At

\* Every step moves one goroutine.
LEMMA Frame ==
  ASSUME op \in OpType, NEW c \in Callers,
         \/ \E p \in Ids : AddPeer(c, p)
         \/ Stop(c) \/ Build(c) \/ ConnectFails(c) \/ Take(c)
  PROVE  /\ \A d \in Callers \ {c} : op'[d] = op[d]
         /\ UNCHANGED room
  <1>1. \A d \in Callers \ {c} : op'[d] = op[d]
    BY DEF OpType, OpRecord, AddPeer, Begin, Stop, Build, BuildVideo, VideoFails, BuildOverlay,
           OverlayFails, BuildAudio, BuildTee, AudioFails, RegisterBranch, ConnectFails, Take,
           Dispose, TakeBranch, ReleasePads, RemoveElements, DisposeStopped, Goto, Return
  <1>2. UNCHANGED room
    BY DEF AddPeer, Begin, Stop, Build, BuildVideo, VideoFails, BuildOverlay,
           OverlayFails, BuildAudio, BuildTee, AudioFails, RegisterBranch, ConnectFails, Take,
           Dispose, TakeBranch, ReleasePads, RemoveElements, DisposeStopped, room
  <1> QED
    BY <1>1, <1>2

\* A part added, taken away or given up by who holds the branch.
LEMMA PartKeepsNames ==
  ASSUME BranchInv, NamesInv, NEW c \in Callers,
         Build(c) \/ ReleasePads(c) \/ RemoveElements(c), ~RegisterBranch(c)
  PROVE  NamesInv'
  <1>t. op \in OpType /\ \A p \in Ids : branch[p] # None => branch[p] \notin Held(c)
    BY DEF BranchInv, TypeOK, OpType, OpRecord, Apart
  <1>f. (\A d \in Callers \ {c} : op'[d] = op[d]) /\ UNCHANGED room
    BY <1>t, Frame DEF Take
  <1>u. UNCHANGED <<branch, overlapped>> /\ (text' = text \/ text' = text \ {op[c].b})
    BY DEF Build, BuildVideo, VideoFails, BuildOverlay, OverlayFails, BuildAudio, BuildTee,
           AudioFails, ReleasePads, RemoveElements, pipeline
  <1>p. {"overlay", "audio", "tee", "pumps", "unlink"} \subseteq PCs
    BY DEF PCs
  <1>o. /\ op[c].pc \in Building \cup Disposing
        /\ \/ op[c].pc \in Building /\ op'[c].pc \in Building /\ op'[c].id = op[c].id
           \/ op'[c].pc \in {"idle", "unlink"}
    <2>1. CASE BuildVideo(c) \/ BuildOverlay(c) \/ BuildAudio(c) \/ BuildTee(c)
      <3>1. \E pc \in {"overlay", "audio", "tee", "pumps"} : Goto(c, pc)
        BY <2>1 DEF BuildVideo, BuildOverlay, BuildAudio, BuildTee
      <3>2. op'[c].pc \in {"overlay", "audio", "tee", "pumps"} /\ op'[c].id = op[c].id
        BY <1>t, <1>p, <3>1, GotoMoves
      <3>3. op[c].pc \in Building
        BY <2>1 DEF BuildVideo, BuildOverlay, BuildAudio, BuildTee, At, Building
      <3> QED
        BY <3>2, <3>3 DEF Building
    <2>2. CASE ReleasePads(c)
      <3>1. op'[c].pc = "unlink"
        BY <1>t, <1>p, <2>2, GotoMoves DEF ReleasePads
      <3> QED
        BY <2>2, <3>1 DEF ReleasePads, At, Disposing
    <2>3. CASE VideoFails(c) \/ OverlayFails(c) \/ AudioFails(c) \/ RemoveElements(c)
      <3>1. Return(c)
        BY <2>3 DEF VideoFails, OverlayFails, AudioFails, RemoveElements
      <3>2. op'[c].pc = "idle"
        BY <1>t, <3>1, ReturnMoves
      <3> QED
        BY <2>3, <3>2 DEF VideoFails, OverlayFails, AudioFails, RemoveElements, At, Building,
                          Disposing
    <2> QED
      BY <2>1, <2>2, <2>3 DEF Build
  <1>1. op[c].pc \notin {"refresh", "overlays"} /\ op'[c].pc \notin {"refresh", "overlays"}
    BY <1>o DEF Building, Disposing
  <1>2. Naming(c)' => Naming(c)
    BY <1>o DEF Naming, Building
  <1>3. ~overlapped /\ op'[c].pc \in Building \cup {"connect"} =>
          op'[c].id \notin members \cap WebPeers
    BY <1>o DEF NamesInv, Building
  <1>4. \A p \in members \cap WebPeers :
          branch[p] # None => (branch[p] \in text' <=> branch[p] \in text)
    BY <1>t, <1>u DEF Ids, Held
  <1> QED
    BY <1>f, <1>u, <1>1, <1>2, <1>3, <1>4, NamesKept

\* AddPeer begins for somebody the room does not have.
LEMMA AddPeerKeepsNames ==
  ASSUME BranchInv, NamesInv, NEW c \in Callers, NEW p \in Ids, AddPeer(c, p)
  PROVE  NamesInv'
  <1>t. op \in OpType
    BY DEF BranchInv, TypeOK, OpType, OpRecord
  <1>f. (\A d \in Callers \ {c} : op'[d] = op[d]) /\ UNCHANGED room
    BY <1>t, Frame
  <1>1. PICK b \in Fresh : Begin(c, [Idle EXCEPT !.pc = "video", !.id = p, !.b = b], TRUE)
    BY DEF AddPeer
  <1> DEFINE r == [Idle EXCEPT !.pc = "video", !.id = p, !.b = b]
  <1>m. r.pc = "video" /\ r.id = p
    BY IdleType DEF OpRecord
  <1>2. At(c, "idle") /\ op' = [op EXCEPT ![c] = r]
        /\ overlapped' = (overlapped \/ \E d \in Callers : Naming(d))
    BY <1>1 DEF Begin
  <1> HIDE DEF r
  <1>3. op'[c].pc = "video" /\ op'[c].id = p
    BY <1>t, <1>m, <1>2 DEF OpType
  <1>4. p \notin members \cap WebPeers /\ UNCHANGED <<branch, text>>
    BY PeerBranchAssumption DEF AddPeer
  <1>5. ~overlapped' => ~overlapped /\ \A d \in Callers : ~Naming(d)
    BY <1>2
  <1>6. op[c].pc \notin {"refresh", "overlays"} /\ op'[c].pc \notin {"refresh", "overlays"}
    BY <1>2, <1>3 DEF At
  <1> QED
    BY <1>f, <1>3, <1>4, <1>5, <1>6, NamesKept

\* Whose branch is registered is not yet a member, and it has no name shown.
LEMMA RegisterBranchKeepsNames ==
  ASSUME BranchInv, NamesInv, NEW c \in Callers, RegisterBranch(c)
  PROVE  NamesInv'
  <1>t. op \in OpType /\ branch \in [Ids -> Branches \cup {None}]
    BY DEF BranchInv, TypeOK, OpType, OpRecord
  <1>f. (\A d \in Callers \ {c} : op'[d] = op[d]) /\ UNCHANGED room
    BY <1>t, Frame DEF Build
  <1>1. /\ At(c, "pumps") /\ branch' = [branch EXCEPT ![op[c].id] = op[c].b]
        /\ op' = [op EXCEPT ![c].pc = "connect", ![c].b = None]
        /\ UNCHANGED <<text, overlapped>>
    BY DEF RegisterBranch
  <1>2. op'[c].pc = "connect" /\ op'[c].id = op[c].id
    BY <1>t, <1>1 DEF OpType, OpRecord
  <1>3. op[c].pc \notin {"refresh", "overlays"} /\ op'[c].pc \notin {"refresh", "overlays"}
    BY <1>1, <1>2 DEF At
  <1>4. Naming(c)
    BY <1>1 DEF Naming, At
  <1>5. ~overlapped => op[c].id \notin members \cap WebPeers
    BY <1>1 DEF NamesInv, At, Building
  <1>6. \A p \in members \cap WebPeers : ~overlapped => branch'[p] \in {None, branch[p]}
    BY <1>t, <1>1, <1>5 DEF Ids
  <1> QED
    BY <1>f, <1>1, <1>2, <1>3, <1>4, <1>5, <1>6, NamesKept

\* A branch that is taken or stopped shows nothing any more.
LEMMA TakeKeepsNames ==
  ASSUME BranchInv, NamesInv, NEW c \in Callers,
         ConnectFails(c) \/ Dispose(c) \/ Stop(c) \/ DisposeStopped(c)
  PROVE  NamesInv'
  <1>t. op \in OpType /\ branch \in [Ids -> Branches \cup {None}]
    BY DEF BranchInv, TypeOK, OpType, OpRecord
  <1>f. (\A d \in Callers \ {c} : op'[d] = op[d]) /\ UNCHANGED room
    BY <1>t, Frame DEF Take
  <1>u. UNCHANGED text /\ overlapped' = overlapped
    BY DEF ConnectFails, Dispose, Stop, Begin, DisposeStopped, BranchInv, TypeOK
  <1>o. op[c].pc \in {"connect", "dispose", "idle", "stop"}
        /\ op'[c].pc \in {"idle", "remove", "stop"}
    <2>1. CASE ConnectFails(c) \/ Dispose(c)
      <3> DEFINE p == op[c].id
                 r == [Idle EXCEPT !.pc = "remove", !.id = p, !.b = branch[p]]
      <3>1. r.pc = "remove"
        BY IdleType DEF OpRecord
      <3>2. /\ op[c].pc \in {"connect", "dispose"}
            /\ op' = [op EXCEPT ![c] = IF branch[p] = None THEN Idle ELSE r]
        BY <2>1 DEF ConnectFails, Dispose, TakeBranch, At
      <3> HIDE DEF r
      <3>3. op'[c] \in {Idle, r}
        BY <1>t, <3>2 DEF OpType
      <3> QED
        BY <3>1, <3>2, <3>3, IdleType
    <2>2. CASE Stop(c)
      <3> DEFINE S == {branch[p] : p \in Ids} \ {None}
                 r == [Idle EXCEPT !.pc = "stop", !.todo = S]
      <3> HIDE DEF S
      <3>1. r.pc = "stop"
        BY IdleType DEF OpRecord
      <3>2. At(c, "idle") /\ op' = [op EXCEPT ![c] = r]
        BY <2>2 DEF Stop, Begin, S
      <3> HIDE DEF r
      <3>3. op'[c] = r
        BY <1>t, <3>2 DEF OpType
      <3> QED
        BY <3>1, <3>2, <3>3 DEF At
    <2>3. CASE DisposeStopped(c)
      <3>1. CASE op[c].todo = {}
        <4>1. Return(c) /\ At(c, "stop")
          BY <2>3, <3>1 DEF DisposeStopped
        <4> QED
          BY <1>t, <4>1, ReturnMoves DEF At
      <3>2. CASE op[c].todo # {}
        <4>1. PICK b \in op[c].todo : op' = [op EXCEPT ![c].todo = @ \ {b}] /\ At(c, "stop")
          BY <2>3, <3>2 DEF DisposeStopped
        <4>2. op'[c].pc = op[c].pc
          BY <1>t, <4>1 DEF OpType, OpRecord
        <4> QED
          BY <4>1, <4>2 DEF At
      <3> QED
        BY <3>1, <3>2
    <2> QED
      BY <2>1, <2>2, <2>3
  <1>1. op[c].pc \notin {"refresh", "overlays"} /\ op'[c].pc \notin {"refresh", "overlays"}
    BY <1>o
  <1>2. ~Naming(c)' /\ op'[c].pc \notin Building \cup {"connect"}
    BY <1>o DEF Naming, Building
  <1>3. \A p \in Ids : branch'[p] \in {None, branch[p]}
    <2>1. \/ branch' = branch \/ branch' = [p \in Ids |-> None]
          \/ branch' = [branch EXCEPT ![op[c].id] = None]
      BY DEF ConnectFails, Dispose, TakeBranch, Stop, DisposeStopped
    <2> QED
      BY <1>t, <2>1
  <1> QED
    BY <1>f, <1>u, <1>1, <1>2, <1>3, NamesKept DEF Ids

\* What the room does about names.
LEMMA RoomKeepsNames ==
  ASSUME BranchInv, NamesInv, NEW c \in Callers,
         \/ Register(c) \/ RefreshAllOverlays(c) \/ SetPeerOverlay(c)
         \/ \E p \in Ids : RemovePeer(c, p)
         \/ \E on \in BOOLEAN : SetShowNames(c, on)
  PROVE  NamesInv'
  <1>t. /\ op \in OpType /\ branch \in [Ids -> Branches \cup {None}]
        /\ text \subseteq Branches /\ overlapped \in BOOLEAN
        /\ UNCHANGED branch /\ \A d \in Callers \ {c} : op'[d] = op[d]
    BY RoomStep DEF BranchInv, TypeOK, OpType, OpRecord, pipeline
  <1>n. /\ members \cap WebPeers \subseteq names
        /\ ~overlapped =>
             /\ \A d, e \in Callers : Naming(d) /\ Naming(e) => d = e
             /\ \A d \in Callers :
                  /\ op[d].pc \in Building \cup {"connect"} => op[d].id \notin members \cap WebPeers
                  /\ op[d].pc = "overlays" => op[d].on = showNames
             /\ \A p \in members \cap WebPeers : Shown(p) \/ ToBeSet(p)
    BY DEF NamesInv, At
  <1>o. \A d \in Callers \ {c} : Naming(d)' <=> Naming(d)
    BY <1>t DEF Naming
  <1>b. \A p, q \in Ids : branch[p] # None /\ branch[p] = branch[q] => p = q
    BY DEF BranchInv, Whole
  <1>s. \A d \in Callers \ {c} : \A p :
          At(d, "refresh") \/ (At(d, "overlays") /\ p \in op[d].todo) => ToBeSet(p)'
    BY <1>t DEF ToBeSet, At
  <1>a. \A d \in Callers : op[d].pc \in Building \cup {"connect", "refresh", "overlays"} => Naming(d)
    BY DEF Naming, Building
  <1>1. CASE Register(c)
    <2> DEFINE p == op[c].id
    <2>1. /\ At(c, "connect") /\ members' = members \cup {p} /\ names' = names \cup {p}
          /\ UNCHANGED <<text, showNames, overlapped>> /\ Naming(c)
      BY <1>1, <1>a DEF Register, At
    <2>2. \/ /\ p \in WebPeers /\ op'[c].pc = "overlays"
             /\ op'[c].on = showNames /\ op'[c].todo = {p}
          \/ p \notin WebPeers /\ op'[c].pc = "idle"
      BY <1>1, RoomStep
    <2>3. ASSUME ~overlapped, NEW d \in Callers
          PROVE  /\ op'[d].pc \in Building \cup {"connect"} => op'[d].id \notin members' \cap WebPeers
                 /\ op'[d].pc = "overlays" => op'[d].on = showNames
      <3>1. CASE d = c
        BY <2>2, <3>1 DEF Building
      <3>2. CASE d # c
        BY <1>t, <1>n, <1>a, <2>1, <2>3, <3>2
      <3> QED
        BY <3>1, <3>2
    <2>4. ASSUME ~overlapped, NEW q \in members' \cap WebPeers
          PROVE  Shown(q)' \/ ToBeSet(q)'
      <3>1. CASE q = p
        BY <2>2, <2>4, <3>1 DEF ToBeSet, At
      <3>2. CASE q # p /\ Shown(q)
        BY <1>t, <2>1, <3>2 DEF Shown
      <3>3. CASE q # p /\ ToBeSet(q)
        <4>1. PICK d \in Callers : At(d, "refresh") \/ (At(d, "overlays") /\ q \in op[d].todo)
          BY <3>3 DEF ToBeSet
        <4>2. d # c
          BY <2>1, <4>1 DEF At
        <4> QED
          BY <4>1, <4>2, <1>s
      <3> QED
        BY <1>n, <2>1, <2>4, <3>1, <3>2, <3>3
    <2>5. \A d, e \in Callers : ~overlapped /\ Naming(d)' /\ Naming(e)' => d = e
      BY <1>n, <1>o, <2>1
    <2> QED
      BY <1>n, <2>1, <2>3, <2>4, <2>5 DEF NamesInv, At
  <1>2. CASE RefreshAllOverlays(c)
    <2>1. /\ At(c, "refresh") /\ UNCHANGED <<text, members, names, showNames, overlapped>>
          /\ Naming(c)
      BY <1>2, <1>a DEF RefreshAllOverlays, At, room
    <2>2. op'[c].pc = "overlays" /\ op'[c].on = showNames /\ op'[c].todo = names
      BY <1>2, RoomStep
    <2>3. ASSUME ~overlapped, NEW d \in Callers
          PROVE  /\ op'[d].pc \in Building \cup {"connect"} => op'[d].id \notin members \cap WebPeers
                 /\ op'[d].pc = "overlays" => op'[d].on = showNames
      <3>1. CASE d = c
        BY <2>2, <3>1 DEF Building
      <3>2. CASE d # c
        BY <1>t, <1>n, <2>3, <3>2
      <3> QED
        BY <3>1, <3>2
    <2>4. \A p \in members \cap WebPeers : ToBeSet(p)'
      BY <1>n, <2>2 DEF ToBeSet, At
    <2>5. \A d, e \in Callers : ~overlapped /\ Naming(d)' /\ Naming(e)' => d = e
      BY <1>n, <1>o, <2>1
    <2> QED
      BY <1>n, <2>1, <2>3, <2>4, <2>5 DEF NamesInv, At
  <1>3. CASE SetPeerOverlay(c)
    <2>1. At(c, "overlays") /\ UNCHANGED <<members, names, showNames, overlapped>> /\ Naming(c)
      BY <1>3, <1>a DEF SetPeerOverlay, At, room
    <2>2. \A d \in Callers \ {c} : ~overlapped => ~Naming(d)
      BY <1>n, <2>1
    <2>3. \/ op[c].todo = {} /\ op'[c].pc = "idle" /\ UNCHANGED text
          \/ \E p \in op[c].todo :
               /\ op'[c].pc = "overlays" /\ op'[c].on = op[c].on
               /\ op'[c].todo = op[c].todo \ {p}
               /\ text' = IF op[c].on THEN text \cup ({branch[p]} \ {None}) ELSE text \ {branch[p]}
      <3>1. CASE op[c].todo = {}
        <4>1. Return(c) /\ UNCHANGED text
          BY <1>3, <3>1 DEF SetPeerOverlay
        <4> QED
          BY <1>t, <3>1, <4>1, ReturnMoves
      <3>2. CASE op[c].todo # {}
        <4>1. PICK p \in op[c].todo :
                /\ op' = [op EXCEPT ![c].todo = @ \ {p}]
                /\ text' = IF op[c].on THEN text \cup ({branch[p]} \ {None})
                           ELSE text \ {branch[p]}
          BY <1>3, <3>2 DEF SetPeerOverlay
        <4>2. /\ op'[c].pc = "overlays" /\ op'[c].on = op[c].on
              /\ op'[c].todo = op[c].todo \ {p}
          BY <1>t, <2>1, <4>1 DEF OpType, OpRecord, At
        <4> QED
          BY <4>1, <4>2
      <3> QED
        BY <3>1, <3>2
    <2>4. ASSUME ~overlapped, NEW d \in Callers
          PROVE  /\ op'[d].pc \in Building \cup {"connect"} => op'[d].id \notin members \cap WebPeers
                 /\ op'[d].pc = "overlays" => op'[d].on = showNames
      <3>1. CASE d = c
        BY <1>n, <2>1, <2>3, <2>4, <3>1 DEF Building, At
      <3>2. CASE d # c
        BY <1>t, <1>n, <2>4, <3>2
      <3> QED
        BY <3>1, <3>2
    <2>5. ASSUME ~overlapped, NEW q \in members \cap WebPeers
          PROVE  Shown(q)' \/ ToBeSet(q)'
      <3>1. ToBeSet(q) => q \in op[c].todo
        BY <1>a, <2>1, <2>2, <2>5 DEF ToBeSet, At
      <3>2. CASE op[c].todo = {} /\ UNCHANGED text
        BY <1>t, <1>n, <2>1, <2>5, <3>1, <3>2 DEF Shown
      <3>3. ASSUME NEW p \in op[c].todo, op'[c].pc = "overlays", op'[c].todo = op[c].todo \ {p},
                   text' = IF op[c].on THEN text \cup ({branch[p]} \ {None})
                           ELSE text \ {branch[p]}
            PROVE  Shown(q)' \/ ToBeSet(q)'
        <4>1. CASE q = p
          <5>1. branch[p] # None => (branch[p] \in text' <=> op[c].on)
            BY <3>3
          <5>2. op[c].on = showNames
            BY <1>n, <2>1, <2>5 DEF At
          <5> QED
            BY <1>t, <2>1, <4>1, <5>1, <5>2 DEF Shown
        <4>2. CASE q # p /\ q \in op[c].todo
          BY <3>3, <4>2 DEF ToBeSet, At
        <4>3. CASE q # p /\ q \notin op[c].todo
          <5>1. Shown(q)
            BY <1>n, <2>5, <3>1, <4>3
          <5>2. p \in Ids /\ q \in Ids
            BY <2>1 DEF BranchInv, Station, At, Ids
          <5>3. branch[q] # None => branch[q] # branch[p]
            BY <1>b, <4>3, <5>2
          <5>4. branch[q] # None => (branch[q] \in text' <=> branch[q] \in text)
            BY <3>3, <5>3
          <5> QED
            BY <1>t, <2>1, <5>1, <5>4 DEF Shown
        <4> QED
          BY <4>1, <4>2, <4>3
      <3> QED
        BY <2>3, <3>2, <3>3
    <2>6. \A d, e \in Callers : ~overlapped /\ Naming(d)' /\ Naming(e)' => d = e
      BY <1>n, <1>o, <2>1
    <2> QED
      BY <1>n, <2>1, <2>4, <2>5, <2>6 DEF NamesInv, At
  <1>4. ASSUME NEW p \in Ids, RemovePeer(c, p)
        PROVE  NamesInv'
    <2>1. /\ members' = members \ {p} /\ names' = IF p \in SipIds THEN names \ {p} ELSE names
          /\ UNCHANGED <<text, showNames>> /\ overlapped' = overlapped
      BY <1>4, <1>t DEF RemovePeer, Begin
    <2>2. op[c].pc = "idle" /\ op'[c].pc = "dispose"
      BY <1>4, RoomStep
    <2>3. ~Naming(c)'
      BY <2>2 DEF Naming
    <2>4. ASSUME ~overlapped, NEW d \in Callers
          PROVE  /\ op'[d].pc \in Building \cup {"connect"} => op'[d].id \notin members' \cap WebPeers
                 /\ op'[d].pc = "overlays" => op'[d].on = showNames
      <3>1. CASE d = c
        BY <2>2, <3>1 DEF Building
      <3>2. CASE d # c
        BY <1>t, <1>n, <2>1, <2>4, <3>2
      <3> QED
        BY <3>1, <3>2
    <2>5. ASSUME ~overlapped, NEW q \in members' \cap WebPeers
          PROVE  Shown(q)' \/ ToBeSet(q)'
      <3>1. CASE Shown(q)
        BY <1>t, <2>1, <3>1 DEF Shown
      <3>2. CASE ToBeSet(q)
        <4>1. PICK d \in Callers : At(d, "refresh") \/ (At(d, "overlays") /\ q \in op[d].todo)
          BY <3>2 DEF ToBeSet
        <4>2. d # c
          BY <2>2, <4>1 DEF At
        <4> QED
          BY <4>1, <4>2, <1>s
      <3> QED
        BY <1>n, <2>1, <2>5, <3>1, <3>2
    <2>6. \A d, e \in Callers : ~overlapped /\ Naming(d)' /\ Naming(e)' => d = e
      BY <1>n, <1>o, <2>3
    <2>7. members' \cap WebPeers \subseteq names'
      BY <1>n, <2>1, PeerBranchAssumption
    <2> QED
      BY <2>1, <2>4, <2>5, <2>6, <2>7 DEF NamesInv, At
  <1>5. ASSUME NEW on \in BOOLEAN, SetShowNames(c, on)
        PROVE  NamesInv'
    <2>1. /\ UNCHANGED <<members, names>>
          /\ overlapped' = (overlapped \/ \E d \in Callers : Naming(d))
      BY <1>5 DEF SetShowNames, Begin
    <2>2. op'[c].pc = "refresh"
      BY <1>5, RoomStep
    <2>3. ~overlapped' => \A d \in Callers : ~Naming(d)
      BY <2>1
    <2>4. ASSUME ~overlapped', NEW d \in Callers
          PROVE  /\ op'[d].pc \in Building \cup {"connect"} => op'[d].id \notin members \cap WebPeers
                 /\ op'[d].pc = "overlays" => op'[d].on = showNames'
      <3>1. CASE d = c
        BY <2>2, <3>1 DEF Building
      <3>2. CASE d # c
        BY <1>t, <1>a, <2>3, <2>4, <3>2
      <3> QED
        BY <3>1, <3>2
    <2>5. \A p : ToBeSet(p)'
      BY <2>2 DEF ToBeSet, At
    <2>6. \A d, e \in Callers : ~overlapped' /\ Naming(d)' /\ Naming(e)' => d = e
      BY <1>o, <2>3
    <2> QED
      BY <1>n, <2>1, <2>4, <2>5, <2>6 DEF NamesInv, At
  <1> QED
    BY <1>1, <1>2, <1>3, <1>4, <1>5

-----------------------------------------------------------------------------
(* The theorems                                                            *)

\* An empty pipeline satisfies the invariant.
LEMMA InitInv == Init => Inv
  <1> SUFFICES ASSUME Init PROVE Inv
    OBVIOUS
  <1>i. \A c \in Callers : op[c] = Idle
    BY DEF Init
  <1>1. TypeOK
    <2>1. op \in OpType
      BY IdleType DEF Init, OpType
    <2>2. /\ has \in [Branches -> SUBSET Parts] /\ owner \in [Branches -> Ids \cup {None}]
          /\ branch \in [Ids -> Branches \cup {None}]
      BY DEF Init
    <2>3. /\ text \subseteq Branches /\ stopped \in BOOLEAN /\ showNames \in BOOLEAN
          /\ overlapped \in BOOLEAN /\ members \subseteq Ids /\ names \subseteq Ids
      BY DEF Init
    <2> QED
      BY <2>1, <2>2, <2>3 DEF TypeOK, OpType, OpRecord
  <1>2. \A c \in Callers : Station(c) /\ Progress(c) /\ ~Naming(c)
    BY <1>i, IdleType, PeerBranchAssumption
    DEF Station, Progress, Naming, At, Building, Disposing
  <1>3. Whole /\ OneName /\ NothingLost
    BY DEF Init, Whole, OneName, NothingLost
  <1>4. Apart
    BY <1>i, IdleType, PeerBranchAssumption DEF Init, Apart, Held
  <1>5. NamesInv
    BY <1>2, <1>i, IdleType DEF Init, NamesInv, Building, At
  <1> QED
    BY <1>1, <1>2, <1>3, <1>4, <1>5 DEF Inv, BranchInv

\* Every step keeps it.
LEMMA NextInv == Inv /\ [Next]_vars => Inv'
  <1> SUFFICES ASSUME BranchInv, NamesInv, [Next]_vars PROVE BranchInv' /\ NamesInv'
    BY DEF Inv
  <1>1. ASSUME NEW c \in Callers, NEW p \in Ids, AddPeer(c, p)
        PROVE  BranchInv' /\ NamesInv'
    BY <1>1, AddPeerStep, AddPeerKeepsNames
  <1>2. ASSUME NEW c \in Callers, Stop(c) \/ Dispose(c) \/ ConnectFails(c) \/ DisposeStopped(c)
        PROVE  BranchInv' /\ NamesInv'
    BY <1>2, StopStep, TakeStep, DisposeStoppedStep, TakeKeepsNames
  <1>3. ASSUME NEW c \in Callers, RegisterBranch(c)
        PROVE  BranchInv' /\ NamesInv'
    BY <1>3, RegisterBranchStep, RegisterBranchKeepsNames
  <1>4. ASSUME NEW c \in Callers, Build(c) \/ ReleasePads(c) \/ RemoveElements(c),
               ~RegisterBranch(c)
        PROVE  BranchInv' /\ NamesInv'
    BY <1>4, BuildStep, GiveUpStep, PartKeepsNames DEF Build
  <1>5. ASSUME NEW c \in Callers,
               \/ Register(c) \/ RefreshAllOverlays(c) \/ SetPeerOverlay(c)
               \/ \E p \in Ids : RemovePeer(c, p)
               \/ \E on \in BOOLEAN : SetShowNames(c, on)
        PROVE  BranchInv' /\ NamesInv'
    BY <1>5, RoomStep, RoomKeepsNames
  <1>6. CASE UNCHANGED vars
    <2>1. UNCHANGED <<has, owner, branch, stopped, text, members, names, showNames, op, overlapped>>
      BY <1>6 DEF vars, pipeline, room
    <2>2. BranchInv'
      BY <2>1 DEF BranchInv, TypeOK, Station, Progress, At, Whole, OneName, Apart, Held,
                  NothingLost, Registered
    <2>3. NamesInv'
      BY <2>1 DEF NamesInv, Naming, At, Shown, ToBeSet
    <2> QED
      BY <2>2, <2>3
  <1> QED
    BY <1>1, <1>2, <1>3, <1>4, <1>5, <1>6 DEF Next, Build, Connect, Take, Overlay

\* What holds in every reachable state.
THEOREM Invariance == Spec => []Inv
  <1> QED
    BY InitInv, NextInv, PTL DEF Spec

\* The types hold in every reachable state.
THEOREM TypeCorrect == Spec => []TypeOK
  <1>1. Inv => TypeOK
    BY DEF Inv, BranchInv
  <1> QED
    BY Invariance, <1>1, PTL

\* pipeline_gst.go: whatever fails and whatever overlaps, with a Stop at any time,
\* every part but a text overlay belongs to a registered branch or to a call.
THEOREM NothingIsLost == Spec => []NothingLost
  <1>1. Inv => NothingLost
    BY DEF Inv, BranchInv
  <1> QED
    BY Invariance, <1>1, PTL

\* disposePeer never releases a pad twice: a branch is in one hand only.
THEOREM EachBranchInOneHand == Spec => []OneHand
  <1>1. ASSUME Inv
        PROVE  OneHand
    <2>1. ASSUME NEW b \in Branches
          PROVE  Cardinality({c \in Callers : b \in Held(c)}) <= 1
      <3> DEFINE S == {c \in Callers : b \in Held(c)}
      <3>1. \A c, d \in S : c = d
        BY <1>1 DEF Inv, BranchInv, Apart
      <3>2. S = {} \/ \E c : S = {c}
        BY <3>1
      <3>3. Cardinality(S) = 0 \/ Cardinality(S) = 1
        BY <3>2, FS_EmptySet, FS_Singleton
      <3> QED
        BY <3>3
    <2>2. ASSUME NEW b \in Branches, Registered(b), NEW c \in Callers
          PROVE  b \notin Held(c)
      BY <1>1, <2>2, PeerBranchAssumption DEF Inv, BranchInv, Apart, Registered
    <2> QED
      BY <2>1, <2>2 DEF OneHand
  <1> QED
    BY Invariance, <1>1, PTL

\* room.go: as long as calls about names follow one another, every browser's name
\* is shown exactly when names are switched on.
THEOREM NamesObeySetting == Spec => []NamesFollowSetting
  <1>1. ASSUME Inv
        PROVE  NamesFollowSetting
    <2> SUFFICES ASSUME AtRest, ~overlapped, NEW p \in members \cap WebPeers
                 PROVE  Shown(p)
      BY DEF NamesFollowSetting, Shown
    <2>1. ~ToBeSet(p)
      BY DEF ToBeSet, AtRest, At
    <2> QED
      BY <1>1, <2>1 DEF Inv, NamesInv
  <1> QED
    BY Invariance, <1>1, PTL
=============================================================================
