-------------------------- MODULE MediaPathProofs ---------------------------
(***************************************************************************)
(* Safety of MediaPath for any number of participants, slots and packets   *)
(* under way.  What is about connections holds whatever the operator does  *)
(* with the slots; what is about slots, while nobody moves people.         *)
(***************************************************************************)
EXTENDS MediaPath, FiniteSetTheorems, WellFoundedInduction, TLAPS

\* A connection exists from the moment an AddPeer has begun.
Connected == \A p \in WebPeers : pc[p] = "none" <=> At(p, "out")

\* Only such connections are registered, being closed or written to.
Referenced ==
  /\ \A p \in peers : At(p, "in")
  /\ \A p \in toClose \cup marked : ~At(p, "out")
  /\ \A g \in Loops : \A p \in held[g].targets : ~At(p, "out")

\* Whoever sets the flag closes the connection, nobody else does.
MarkedOnce ==
  \A p \in WebPeers :
    /\ pc[p] = "closed" => p \in marked
    /\ p \in marked => pc[p] = "closed" \/ \E who \in Closers : <<who, p>> \in closing
    /\ \A who \in Closers : <<who, p>> \in closing => p \in marked /\ pc[p] = "open"
    /\ \A a, b \in Closers : <<a, p>> \in closing /\ <<b, p>> \in closing => a = b

\* Room.Close has connections to close only after it took them.
ClosingOrder == room # "taken" => toClose = {}

ConnInv ==
  /\ Connected
  /\ Referenced
  /\ MarkedOnce
  /\ ClosingOrder
  /\ ConnectionsOwned

\* Whoever is not registered yet has no slot, and nothing of it is forwarded.
Newcomers ==
  \A p \in Ids : stage[p] \in {"out", "negotiate", "sockets"} =>
    /\ \A i \in Slots : slots[i] # p
    /\ \A g \in Loops : g[1] = p => held[g] = Idle

\* Nobody has two slots.
OneSlotEach == \A i, j \in Slots : slots[i] = slots[j] /\ slots[i] # NoPeer => i = j

\* A packet on its way is held for a slot that exists.
HeldInSlot == \A g \in Loops \ {Egress} : held[g] # Idle => held[g].slot \in Slots

SlotInv ==
  /\ Newcomers
  /\ OneSlotEach
  /\ HeldInSlot
  /\ NoForeignVoice
  /\ EveryoneAudible

-----------------------------------------------------------------------------
\* A set of natural numbers that is not empty contains its Min.
LEMMA MinIsMember ==
  ASSUME NEW S \in SUBSET Nat, S # {}
  PROVE  Min(S) \in S
  <1> DEFINE R == OpToRel(<, Nat)
  <1>1. IsWellFoundedOn(R, Nat)
    BY NatLessThanWellFounded
  <1>2. \A x, y \in Nat : y < x => <<y, x>> \in R
    BY DEF OpToRel
  <1> HIDE DEF R
  <1>3. S \subseteq Nat
    OBVIOUS
  <1>4. PICK x \in S : \A y \in S : ~(<<y, x>> \in R)
    BY <1>1, <1>3, WFMin, Zenon
  <1>5. \A y \in S : ~(y < x)
    BY <1>2, <1>3, <1>4, Zenon
  <1>6. \A y \in S : x <= y
    BY <1>3, <1>5
  <1> QED
    BY <1>6 DEF Min

\* The goroutines, by the participant they serve.
LEMMA LoopFacts ==
  /\ Egress \in Loops /\ Egress[1] = NoPeer
  /\ \A g \in Loops \ {Egress} : g[1] \in Ids /\ g[1] # NoPeer
  /\ \A p \in WebPeers : {p} \X {"audio", "video", "pli"} \subseteq Loops
  /\ \A p \in SipIds : {p} \X {"recv", "mux", "opus"} \subseteq Loops
  /\ \A p \in WebPeers, kind \in {"audio", "video"} :
       <<p, kind>> \in Loops \ {Egress} /\ <<p, kind>>[1] = p
  /\ \A p \in SipIds : <<p, "opus">> \in Loops \ {Egress} /\ <<p, "opus">>[1] = p
  BY MediaPathAssumption DEF Loops, Egress, Ids

\* A newcomer gets a slot that was free, or none when all are taken.
LEMMA TakeSlotFacts ==
  ASSUME slots \in [Slots -> Ids \cup {NoPeer}], NEW p \in Ids, TakeSlot(p)
  PROVE  \/ /\ \A i \in Slots : slots[i] # NoPeer
            /\ slots' = slots
         \/ \E k \in Slots : slots[k] = NoPeer /\ slots' = [slots EXCEPT ![k] = p]
  <1> DEFINE F == {i \in Slots : slots[i] = NoPeer}
  <1>1. CASE F = {}
    BY <1>1 DEF TakeSlot
  <1>2. CASE F # {}
    <2>1. F \in SUBSET Nat
      BY MediaPathAssumption DEF Slots
    <2>2. Min(F) \in F
      BY <1>2, <2>1, MinIsMember
    <2>3. slots' = [slots EXCEPT ![Min(F)] = p]
      BY <1>2 DEF TakeSlot
    <2> QED
      BY <2>2, <2>3
  <1> QED
    BY <1>1, <1>2

-----------------------------------------------------------------------------
(* Types                                                                   *)

\* Who holds which packet.
HeldType == [Loops -> [slot : 0 .. SlotCount, targets : SUBSET WebPeers]]

\* A goroutine that takes a packet holds it with a slot and its receivers.
LEMMA HoldType ==
  ASSUME TypeOK, NEW g \in Loops, NEW n \in 0 .. SlotCount, NEW T \in SUBSET WebPeers,
         Hold(g, n, T)
  PROVE  TypeOK'
  <1>1. held' \in HeldType
    BY DEF TypeOK, Hold, HeldType
  <1> QED
    BY <1>1 DEF TypeOK, Hold, HeldType, membership, connections, closingRoom

\* The slots of a participant are slots.
LEMMA SlotsOfFacts ==
  ASSUME NEW p, SlotsOf(p) # {}
  PROVE  Min(SlotsOf(p)) \in SlotsOf(p) /\ Min(SlotsOf(p)) \in Slots
         /\ Min(SlotsOf(p)) \in 0 .. SlotCount
  <1>1. SlotsOf(p) \in SUBSET Nat
    BY MediaPathAssumption DEF SlotsOf, Slots
  <1>2. Min(SlotsOf(p)) \in SlotsOf(p)
    BY <1>1, MinIsMember
  <1> QED
    BY <1>2, MediaPathAssumption DEF SlotsOf, Slots

\* So is what Peer.Close records.
LEMMA MarkType ==
  ASSUME TypeOK, NEW p \in WebPeers, NEW who \in Closers, Mark(p, who)
  PROVE  marked' \subseteq WebPeers /\ closing' \subseteq Closers \X WebPeers
  <1>1. <<who, p>> \in Closers \X WebPeers
    OBVIOUS
  <1>2. marked \subseteq WebPeers /\ closing \subseteq Closers \X WebPeers
    BY DEF TypeOK
  <1>3. closing' = closing \/ closing' = closing \cup {<<who, p>>}
    BY DEF Mark
  <1>4. closing' \subseteq Closers \X WebPeers
    BY <1>1, <1>2, <1>3, Zenon
  <1> QED
    BY <1>2, <1>4 DEF Mark

\* And the slot a newcomer takes.
LEMMA TakeSlotType ==
  ASSUME TypeOK, NEW p \in Ids, TakeSlot(p)
  PROVE  slots' \in [Slots -> Ids \cup {NoPeer}]
  <1>1. slots \in [Slots -> Ids \cup {NoPeer}]
    BY DEF TypeOK
  <1>2. slots' = slots \/ \E k \in Slots : slots' = [slots EXCEPT ![k] = p]
    BY <1>1, TakeSlotFacts
  <1> QED
    BY <1>1, <1>2

\* The values of the first state.
LEMMA InitType == Init => TypeOK
  <1> SUFFICES ASSUME Init
               PROVE  TypeOK
    OBVIOUS
  <1>1. Idle \in [slot : 0 .. SlotCount, targets : SUBSET WebPeers]
    BY MediaPathAssumption DEF Idle
  <1>2. held \in HeldType
    BY <1>1 DEF Init, HeldType
  <1>3. loops \subseteq Loops
    BY LoopFacts DEF Init
  <1> QED
    BY <1>2, <1>3 DEF Init, TypeOK, HeldType, Stages

\* Every step keeps the types, the operator's as well.
LEMMA NextType == TypeOK /\ [Next \/ Reseat]_vars => TypeOK'
  <1> SUFFICES ASSUME TypeOK, [Next \/ Reseat]_vars
               PROVE  TypeOK'
    OBVIOUS
  <1> USE DEF Enter, At
  <1>s. /\ {"out", "negotiate", "sockets", "in", "kicked", "forget", "gone", "lost", "unbuilt"}
             \subseteq Stages
        /\ {"room call", "callback", "close"} \subseteq Closers
        /\ WebPeers \subseteq Ids /\ SipIds \subseteq Ids
    BY DEF Stages, Closers, Ids
  <1>1. ASSUME NEW p \in WebPeers, AddPeer(p) \/ NewFails(p)
        PROVE  TypeOK'
    BY <1>1, <1>s DEF TypeOK, AddPeer, NewFails, closingRoom
  <1>2. ASSUME NEW p \in Ids, RemovePeer(p)
        PROVE  TypeOK'
    BY <1>2, <1>s DEF TypeOK, RemovePeer, FreeSlot, connections, closingRoom
  <1>3. ASSUME NEW p \in WebPeers, StateChange(p)
        PROVE  TypeOK'
    BY <1>3, <1>s, MarkType DEF TypeOK, StateChange, membership, closingRoom
  <1>4. ASSUME NEW p \in WebPeers, OnTrack(p)
        PROVE  TypeOK'
    BY <1>4, <1>s, LoopFacts DEF TypeOK, OnTrack, membership, connections, closingRoom
  <1>5. ASSUME NEW g \in Loops, NEW p \in Ids, Forward(g, p)
        PROVE  TypeOK'
    <2>1. peers \ {p} \in SUBSET WebPeers
      BY DEF TypeOK
    <2> QED
      BY <1>5, <2>1, SlotsOfFacts, HoldType DEF Forward
  <1>6. ASSUME NEW p \in WebPeers, NEW who \in Closers, PcClose(p, who)
        PROVE  TypeOK'
    BY <1>6, <1>s DEF TypeOK, PcClose, membership, closingRoom
  <1>7. ASSUME NEW p \in SipIds, AddSIPPeer(p)
        PROVE  TypeOK'
    BY <1>7, <1>s, LoopFacts DEF TypeOK, AddSIPPeer, connections, closingRoom
  <1>8. ASSUME NEW p \in SipIds, RemoveSIPPeer(p)
        PROVE  TypeOK'
    BY <1>8, <1>s DEF TypeOK, RemoveSIPPeer, FreeSlot, connections, closingRoom
  <1>9. ASSUME NEW p \in WebPeers, AddFails(p)
        PROVE  TypeOK'
    BY <1>9, <1>s, MarkType DEF TypeOK, AddFails, closingRoom
  <1>10. ASSUME NEW p \in WebPeers, Register(p)
         PROVE  TypeOK'
    <2>1. slots' \in [Slots -> Ids \cup {NoPeer}]
      BY <1>10, <1>s, TakeSlotType DEF TypeOK, Register
    <2> QED
      BY <1>10, <1>s, <2>1 DEF TypeOK, Register, connections
  <1>11. ASSUME NEW p \in WebPeers, ClosePeer(p)
         PROVE  TypeOK'
    BY <1>11, <1>s, MarkType DEF TypeOK, ClosePeer, closingRoom
  <1>12. ASSUME NEW p \in SipIds, RegisterSIP(p)
         PROVE  TypeOK'
    <2>1. slots' \in [Slots -> Ids \cup {NoPeer}]
      BY <1>12, <1>s, TakeSlotType DEF RegisterSIP
    <2> QED
      BY <1>12, <1>s, <2>1 DEF TypeOK, RegisterSIP, connections, closingRoom
  <1>13. ASSUME NEW p \in SipIds, CloseSIPPeer(p)
         PROVE  TypeOK'
    BY <1>13, <1>s DEF TypeOK, CloseSIPPeer, connections, closingRoom
  <1>14. CASE BroadcastVideo
    <2>1. 0 \in 0 .. SlotCount /\ peers \in SUBSET WebPeers
      BY MediaPathAssumption DEF TypeOK
    <2> QED
      BY <1>14, <2>1, LoopFacts, HoldType DEF BroadcastVideo
  <1>15. ASSUME NEW p \in Ids \cup {NoPeer}, LoopsEnd(p)
         PROVE  TypeOK'
    BY <1>15 DEF TypeOK, LoopsEnd, membership, connections, closingRoom
  <1>16. ASSUME NEW g \in Loops, NEW q \in WebPeers, WriteSlot(g, q)
         PROVE  TypeOK'
    <2>1. held' \in HeldType
      BY <1>16, MediaPathAssumption DEF TypeOK, WriteSlot, HeldType, Idle
    <2> QED
      BY <1>16, <2>1 DEF TypeOK, WriteSlot, HeldType, membership, connections, closingRoom
  <1>17. CASE Close
    BY <1>17 DEF TypeOK, Close, membership, connections
  <1>18. CASE TakePeers
    BY <1>18 DEF TypeOK, TakePeers, connections
  <1>19. ASSUME NEW p \in WebPeers, CloseTaken(p)
         PROVE  TypeOK'
    BY <1>19, <1>s, MarkType DEF TypeOK, CloseTaken, membership
  <1>20. CASE StopPipeline
    BY <1>20 DEF TypeOK, StopPipeline, membership, connections
  <1>21. ASSUME NEW i \in Slots, NEW p \in Ids, AssignSlot(i, p)
         PROVE  TypeOK'
    BY <1>21 DEF TypeOK, AssignSlot, connections, closingRoom
  <1>22. CASE UNCHANGED vars
    BY <1>22 DEF TypeOK, vars, membership, connections, closingRoom
  <1> QED
    BY <1>1, <1>2, <1>3, <1>4, <1>5, <1>6, <1>7, <1>8, <1>9, <1>10, <1>11, <1>12, <1>13,
       <1>14, <1>15, <1>16, <1>17, <1>18, <1>19, <1>20, <1>21, <1>22, <1>s, LoopFacts
    DEF Next, Handler, Goroutines, Closing, Reseat, ReadTrack, ReadOpus

-----------------------------------------------------------------------------
(* Connections                                                             *)

\* Before anybody comes there is no connection.
LEMMA InitConn == Init => ConnInv
  BY LoopFacts, MediaPathAssumption
  DEF Init, ConnInv, Connected, Referenced, MarkedOnce, ClosingOrder, ConnectionsOwned, Owned, At,
      Ids, Idle

\* A step that leaves connections, peers and program counters alone, and holds
\* packets only for peers of the room, keeps what is known about connections.
LEMMA ConnFrame ==
  ASSUME TypeOK, TypeOK', ConnInv, UNCHANGED <<stage, peers, connections, room, toClose>>,
         \A g \in Loops : held'[g].targets \subseteq held[g].targets \cup peers
  PROVE  ConnInv'
  <1> USE DEF connections, At
  <1>1. Connected' /\ MarkedOnce' /\ ClosingOrder'
    BY DEF ConnInv, Connected, MarkedOnce, ClosingOrder
  <1>2. Referenced'
    BY DEF ConnInv, Referenced
  <1>3. ConnectionsOwned'
    BY DEF ConnInv, ConnectionsOwned, Owned
  <1> QED
    BY <1>1, <1>2, <1>3 DEF ConnInv

\* Peer.Close of a connection that exists: exactly one caller goes on to close
\* it, and it is being closed or closed then.
LEMMA MarkKeeps ==
  ASSUME TypeOK, ConnInv, NEW p \in WebPeers, NEW who \in Closers, ~At(p, "out"),
         Mark(p, who), pc' = pc
  PROVE  /\ MarkedOnce'
         /\ marked' = marked \cup {p} /\ closing \subseteq closing'
         /\ pc[p] = "open" => \E w \in Closers : <<w, p>> \in closing'
  <1>1. MarkedOnce /\ pc[p] \in {"open", "closed"}
    BY DEF ConnInv, Connected, TypeOK
  <1>2. CASE p \in marked
    <2>1. marked' = marked /\ closing' = closing
      BY <1>2 DEF Mark
    <2> QED
      BY <1>1, <1>2, <2>1 DEF MarkedOnce
  <1>3. CASE p \notin marked
    <2>1. marked' = marked \cup {p} /\ closing' = closing \cup {<<who, p>>}
      BY <1>3 DEF Mark
    <2>2. pc[p] = "open" /\ \A w \in Closers : <<w, p>> \notin closing
      BY <1>1, <1>3 DEF MarkedOnce
    <2>3. \A q \in WebPeers, w \in Closers :
            <<w, q>> \in closing' <=> <<w, q>> \in closing \/ (w = who /\ q = p)
      BY <2>1
    <2>4. \E w \in Closers : <<w, p>> \in closing'
      BY <2>3
    <2>5. MarkedOnce'
      BY <1>1, <2>1, <2>2, <2>3, <2>4 DEF MarkedOnce
    <2> QED
      BY <2>1, <2>4, <2>5
  <1> QED
    BY <1>2, <1>3

\* Every step keeps what is known about connections, the operator's as well.
LEMMA NextConn == TypeOK /\ ConnInv /\ [Next \/ Reseat]_vars => ConnInv'
  <1> SUFFICES ASSUME TypeOK, ConnInv, [Next \/ Reseat]_vars
               PROVE  ConnInv'
    OBVIOUS
  <1>t. TypeOK'
    BY NextType
  <1>c. /\ Connected /\ Referenced /\ MarkedOnce /\ ClosingOrder
        /\ ConnectionsOwned
        /\ WebPeers \subseteq Ids /\ SipIds \subseteq Ids /\ WebPeers \cap SipIds = {}
    BY MediaPathAssumption DEF ConnInv, Ids
  <1>d. ConnInv' <=> Connected' /\ Referenced' /\ MarkedOnce' /\ ClosingOrder'
                     /\ ConnectionsOwned'
    BY DEF ConnInv
  <1>s. stage \in [Ids -> Stages] /\ pc \in [WebPeers -> {"none", "open", "closed"}]
        /\ peers \subseteq WebPeers /\ toClose \subseteq WebPeers /\ marked \subseteq WebPeers
    BY DEF TypeOK
  <1>1. ASSUME NEW p \in WebPeers, AddPeer(p) \/ NewFails(p)
        PROVE  ConnInv'
    <2>1. /\ pc' = [pc EXCEPT ![p] = "open"]
          /\ \E s \in {"negotiate", "unbuilt"} : stage' = [stage EXCEPT ![p] = s]
          /\ UNCHANGED <<peers, marked, closing, held, closingRoom>>
          /\ stage[p] = "out" /\ pc[p] = "none"
      BY <1>1, <1>c DEF AddPeer, NewFails, Enter, At, Connected
    <2>2. Connected' /\ Referenced'
      BY <1>c, <1>s, <2>1 DEF Connected, Referenced, At, closingRoom
    <2>3. MarkedOnce'
      BY <1>c, <1>s, <2>1 DEF MarkedOnce, Referenced, At
    <2>4. ClosingOrder' /\ ConnectionsOwned'
      BY <1>c, <1>s, <2>1 DEF ClosingOrder, ConnectionsOwned, Owned, At, closingRoom
    <2> QED
      BY <1>d, <2>2, <2>3, <2>4
  <1>2. ASSUME NEW p \in Ids, RemovePeer(p)
        PROVE  ConnInv'
    <2>1. /\ \E s \in {"forget", "kicked", "gone"} : stage' = [stage EXCEPT ![p] = s]
          /\ p \in peers => stage'[p] = "forget"
          /\ peers' = peers \ {p} /\ stage[p] = "in"
          /\ UNCHANGED <<connections, held, closingRoom>>
      BY <1>2, <1>s DEF RemovePeer, Enter, At
    <2>2. Connected' /\ Referenced'
      BY <1>c, <1>s, <2>1 DEF Connected, Referenced, At, connections, closingRoom
    <2>3. MarkedOnce' /\ ClosingOrder'
      BY <1>c, <1>s, <2>1 DEF MarkedOnce, ClosingOrder, connections, closingRoom
    <2>4. ConnectionsOwned'
      BY <1>c, <1>s, <2>1 DEF ConnectionsOwned, Owned, connections, closingRoom
    <2> QED
      BY <1>d, <2>2, <2>3, <2>4
  <1>3. ASSUME NEW p \in WebPeers, StateChange(p)
        PROVE  ConnInv'
    <2>1. ~At(p, "out") /\ Mark(p, "callback") /\ "callback" \in Closers
          /\ UNCHANGED <<stage, peers, pc, held, room, toClose>>
      BY <1>3, <1>c DEF StateChange, Connected, membership, closingRoom, At, Closers
    <2>2. MarkedOnce' /\ marked' = marked \cup {p} /\ closing \subseteq closing'
      BY <2>1, MarkKeeps
    <2>3. Connected' /\ Referenced' /\ ClosingOrder'
      BY <1>c, <2>1, <2>2 DEF Connected, Referenced, ClosingOrder, At
    <2>4. ConnectionsOwned'
      BY <1>c, <2>1, <2>2 DEF ConnectionsOwned, Owned
    <2> QED
      BY <1>d, <2>2, <2>3, <2>4
  <1>4. ASSUME NEW p \in WebPeers, OnTrack(p)
        PROVE  ConnInv'
    BY <1>4, <1>t, ConnFrame DEF OnTrack, membership, closingRoom
  <1>5. ASSUME NEW g \in Loops, NEW n, NEW T \in SUBSET peers, Hold(g, n, T)
        PROVE  ConnInv'
    <2>1. \A h \in Loops : held'[h].targets \subseteq held[h].targets \cup peers
      BY <1>5 DEF Hold, TypeOK
    <2> QED
      BY <1>5, <1>t, <2>1, ConnFrame DEF Hold, membership, closingRoom
  <1>6. ASSUME NEW p \in WebPeers, NEW who \in Closers, PcClose(p, who)
        PROVE  ConnInv'
    <2>1. /\ <<who, p>> \in closing /\ closing' = closing \ {<<who, p>>}
          /\ pc' = [pc EXCEPT ![p] = "closed"]
          /\ UNCHANGED <<stage, peers, marked, held, closingRoom>>
      BY <1>6 DEF PcClose, membership
    <2>2. /\ p \in marked /\ pc[p] = "open"
          /\ \A w \in Closers : <<w, p>> \notin closing'
          /\ \A q \in WebPeers \ {p}, w \in Closers :
               <<w, q>> \in closing' <=> <<w, q>> \in closing
      BY <1>c, <2>1 DEF MarkedOnce
    <2>3. Connected' /\ Referenced' /\ ClosingOrder'
      BY <1>c, <1>s, <2>1, <2>2 DEF Connected, Referenced, ClosingOrder, At, closingRoom
    <2>4. MarkedOnce'
      <3>1. ASSUME NEW q \in WebPeers, q # p
            PROVE  pc'[q] = pc[q] /\ (q \in marked' <=> q \in marked)
        BY <1>s, <2>1, <3>1
      <3>2. p \in marked' /\ pc'[p] = "closed"
        BY <1>s, <2>1, <2>2
      <3> QED
        BY <1>c, <2>2, <3>1, <3>2 DEF MarkedOnce
    <2>5. ConnectionsOwned'
      BY <1>c, <1>s, <2>1, <2>2 DEF ConnectionsOwned, Owned, closingRoom
    <2> QED
      BY <1>d, <2>3, <2>4, <2>5
  <1>7. ASSUME NEW p \in SipIds,
               AddSIPPeer(p) \/ RegisterSIP(p) \/ RemoveSIPPeer(p) \/ CloseSIPPeer(p)
        PROVE  ConnInv'
    <2>1. /\ \A q \in WebPeers : stage'[q] = stage[q]
          /\ UNCHANGED <<peers, connections, held, room, toClose>>
      BY <1>7, <1>c, <1>s
      DEF AddSIPPeer, RegisterSIP, RemoveSIPPeer, CloseSIPPeer, Enter, closingRoom
    <2>2. Connected' /\ Referenced'
      BY <1>c, <1>s, <2>1 DEF Connected, Referenced, At, connections, TypeOK
    <2>3. MarkedOnce' /\ ClosingOrder'
      BY <1>c, <2>1 DEF MarkedOnce, ClosingOrder, connections
    <2>4. ConnectionsOwned'
      BY <1>c, <2>1 DEF ConnectionsOwned, Owned, connections
    <2> QED
      BY <1>d, <2>2, <2>3, <2>4
  <1>8. ASSUME NEW p \in WebPeers, AddFails(p) \/ ClosePeer(p)
        PROVE  ConnInv'
    <2>1. /\ ~At(p, "out") /\ ~At(p, "in") /\ Mark(p, "room call") /\ "room call" \in Closers
          /\ stage' = [stage EXCEPT ![p] = "gone"]
          /\ UNCHANGED <<peers, pc, held, room, toClose>>
      BY <1>8 DEF AddFails, ClosePeer, Enter, closingRoom, At, Closers
    <2>2. /\ MarkedOnce' /\ marked' = marked \cup {p} /\ closing \subseteq closing'
          /\ pc[p] = "open" => \E w \in Closers : <<w, p>> \in closing'
      BY <2>1, MarkKeeps
    <2>3. Connected' /\ Referenced'
      BY <1>c, <1>s, <2>1, <2>2 DEF Connected, Referenced, At, TypeOK
    <2>4. ClosingOrder'
      BY <1>c, <1>s, <2>1 DEF ClosingOrder
    <2>5. ConnectionsOwned'
      BY <1>c, <1>s, <2>1, <2>2 DEF ConnectionsOwned, Owned
    <2> QED
      BY <1>d, <2>2, <2>3, <2>4, <2>5
  <1>9. ASSUME NEW p \in WebPeers, Register(p)
        PROVE  ConnInv'
    <2>1. /\ stage[p] = "negotiate" /\ UNCHANGED <<connections, held, room, toClose>>
          /\ \/ /\ room \in {"taken", "closed"} /\ peers' = peers
                /\ stage' = [stage EXCEPT ![p] = "lost"]
             \/ /\ peers' = peers \cup {p}
                /\ stage' = [stage EXCEPT ![p] = "in"]
      BY <1>9 DEF Register, Enter, At
    <2>2. Connected' /\ Referenced'
      BY <1>c, <1>s, <2>1 DEF Connected, Referenced, At, connections, TypeOK
    <2>3. MarkedOnce' /\ ClosingOrder'
      BY <1>c, <1>s, <2>1 DEF MarkedOnce, ClosingOrder, connections
    <2>4. ConnectionsOwned'
      BY <1>c, <1>s, <2>1 DEF ConnectionsOwned, Owned, ClosingOrder, connections
    <2> QED
      BY <1>d, <2>2, <2>3, <2>4
  <1>10. ASSUME NEW p \in Ids \cup {NoPeer}, LoopsEnd(p)
         PROVE  ConnInv'
    BY <1>10, <1>t, ConnFrame DEF LoopsEnd, membership, closingRoom
  <1>11. ASSUME NEW g \in Loops, NEW q \in WebPeers, WriteSlot(g, q)
         PROVE  ConnInv'
    <2>1. \A h \in Loops : held'[h].targets \subseteq held[h].targets \cup peers
      BY <1>11 DEF WriteSlot, TypeOK, Idle
    <2> QED
      BY <1>11, <1>t, <2>1, ConnFrame DEF WriteSlot, membership, closingRoom
  <1>12. CASE Close
    <2>1. /\ UNCHANGED <<stage, peers, connections, held, toClose>> /\ room' = "stopped"
          /\ room = "open"
      BY <1>12 DEF Close, membership
    <2>2. Connected' /\ Referenced' /\ MarkedOnce' /\ ClosingOrder'
      BY <1>c, <2>1 DEF Connected, Referenced, MarkedOnce, ClosingOrder, connections, At
    <2>3. ConnectionsOwned'
      BY <1>c, <2>1 DEF ConnectionsOwned, Owned, connections
    <2> QED
      BY <1>d, <2>2, <2>3
  <1>13. CASE TakePeers
    <2>1. /\ UNCHANGED <<stage, connections, held>> /\ room' = "taken" /\ room = "stopped"
          /\ toClose' = peers /\ peers' = {} /\ toClose = {}
      BY <1>13, <1>c DEF TakePeers, ClosingOrder
    <2>2. Connected' /\ Referenced' /\ MarkedOnce' /\ ClosingOrder'
      BY <1>c, <2>1 DEF Connected, Referenced, MarkedOnce, ClosingOrder, connections, At
    <2>3. ConnectionsOwned'
      BY <1>c, <2>1 DEF ConnectionsOwned, Owned, connections
    <2> QED
      BY <1>d, <2>2, <2>3
  <1>14. ASSUME NEW p \in WebPeers, CloseTaken(p)
         PROVE  ConnInv'
    <2>1. /\ ~At(p, "out") /\ Mark(p, "close") /\ "close" \in Closers
          /\ toClose' = toClose \ {p}
          /\ UNCHANGED <<stage, peers, pc, held, room>>
      BY <1>14, <1>c DEF CloseTaken, Referenced, membership, Closers
    <2>2. /\ MarkedOnce' /\ marked' = marked \cup {p} /\ closing \subseteq closing'
          /\ pc[p] = "open" => \E w \in Closers : <<w, p>> \in closing'
      BY <2>1, MarkKeeps
    <2>3. Connected' /\ Referenced' /\ ClosingOrder'
      BY <1>c, <2>1, <2>2 DEF Connected, Referenced, ClosingOrder, At
    <2>4. ConnectionsOwned'
      BY <1>c, <2>1, <2>2 DEF ConnectionsOwned, Owned
    <2> QED
      BY <1>d, <2>2, <2>3, <2>4
  <1>15. CASE StopPipeline
    <2>1. /\ UNCHANGED <<stage, peers, connections, held, toClose>>
          /\ room = "taken" /\ toClose = {}
      BY <1>15 DEF StopPipeline, membership
    <2>2. Connected' /\ Referenced' /\ MarkedOnce' /\ ClosingOrder'
      BY <1>c, <1>15, <2>1 DEF Connected, Referenced, MarkedOnce, ClosingOrder, connections, At,
                               StopPipeline
    <2>3. ConnectionsOwned'
      BY <1>c, <2>1 DEF ConnectionsOwned, Owned, connections
    <2> QED
      BY <1>d, <2>2, <2>3
  <1>16. ASSUME NEW i \in Slots, NEW p \in Ids, AssignSlot(i, p)
         PROVE  ConnInv'
    BY <1>16, <1>t, ConnFrame DEF AssignSlot, closingRoom
  <1>17. CASE UNCHANGED vars
    BY <1>17, <1>t, ConnFrame DEF vars, membership, closingRoom
  <1>18. ASSUME NEW p \in WebPeers, NEW kind \in {"audio", "video"}, ReadTrack(p, kind)
         PROVE  ConnInv'
    BY <1>18, <1>5, LoopFacts DEF ReadTrack, Forward
  <1>19. ASSUME NEW p \in SipIds, ReadOpus(p)
         PROVE  ConnInv'
    BY <1>19, <1>5, LoopFacts DEF ReadOpus, Forward
  <1>20. CASE BroadcastVideo
    BY <1>20, <1>5, LoopFacts DEF BroadcastVideo
  <1> QED
    BY <1>1, <1>2, <1>3, <1>4, <1>6, <1>7, <1>8, <1>9, <1>10, <1>11, <1>12, <1>13,
       <1>14, <1>15, <1>16, <1>17, <1>18, <1>19, <1>20
    DEF Next, Handler, Goroutines, Closing, Reseat

-----------------------------------------------------------------------------
(* Slots                                                                   *)

\* In the empty room all slots are free.
LEMMA InitSlot == Init => SlotInv
  BY MediaPathAssumption
  DEF Init, SlotInv, Newcomers, OneSlotEach, HeldInSlot, NoForeignVoice, EveryoneAudible, At, Ids

\* With a slot for everyone, a newcomer finds one: the others have at most one
\* each, and not the newcomer's.
LEMMA SlotIsFree ==
  ASSUME TypeOK, OneSlotEach, NEW p \in Ids, \A i \in Slots : slots[i] # p,
         Cardinality(Ids) <= SlotCount
  PROVE  \E i \in Slots : slots[i] = NoPeer
  <1> SUFFICES ASSUME \A i \in Slots : slots[i] # NoPeer
               PROVE  FALSE
    OBVIOUS
  <1>1. slots \in [Slots -> Ids \ {p}]
    BY DEF TypeOK
  <1>2. IsFiniteSet(Slots) /\ Cardinality(Slots) = SlotCount
    <2>1. 0 \in Int /\ SlotCount - 1 \in Int /\ (0 > SlotCount - 1 <=> SlotCount = 0)
      BY MediaPathAssumption
    <2> QED
      BY <2>1, FS_Interval, MediaPathAssumption DEF Slots
  <1>3. IsFiniteSet(Ids) /\ Cardinality(Ids) \in Nat
    BY FS_Union, FS_CardinalityType, MediaPathAssumption DEF Ids
  <1>4. IsFiniteSet(Ids \ {p}) /\ Cardinality(Ids \ {p}) = Cardinality(Ids) - 1
    BY <1>3, FS_RemoveElement
  <1>5. Cardinality(Ids \ {p}) < Cardinality(Slots)
    BY <1>2, <1>3, <1>4, MediaPathAssumption
  <1>6. \E i, j \in Slots : i # j /\ slots[i] = slots[j]
    BY <1>1, <1>2, <1>4, <1>5, FS_PigeonHole
  <1> QED
    BY <1>6 DEF OneSlotEach

\* A step that changes neither slots nor who is registered or about to be keeps
\* what is known about slots when packets are dropped or are held by members, in
\* their own slot.
LEMMA SlotFrame ==
  ASSUME TypeOK, SlotInv, UNCHANGED slots,
         \A p \in Ids : /\ stage'[p] = "in" <=> stage[p] = "in"
                        /\ stage'[p] \in {"out", "negotiate", "sockets"} =>
                             stage[p] \in {"out", "negotiate", "sockets"},
         \A g \in Loops :
           \/ held'[g] = Idle
           \/ held[g] # Idle /\ held'[g].slot = held[g].slot
           \/ g = Egress
           \/ held'[g].slot \in SlotsOf(g[1])
  PROVE  SlotInv'
  <1> USE LoopFacts DEF SlotsOf, At
  <1>1. ASSUME NEW p \in Ids, stage'[p] \in {"out", "negotiate", "sockets"}
        PROVE  /\ \A i \in Slots : slots'[i] # p
               /\ \A g \in Loops : g[1] = p => held'[g] = Idle
    BY <1>1, MediaPathAssumption DEF SlotInv, Newcomers
  <1>2. Newcomers'
    BY <1>1, Zenon DEF Newcomers
  <1>3. OneSlotEach'
    BY DEF SlotInv, OneSlotEach
  <1>4. HeldInSlot' /\ NoForeignVoice'
    BY DEF SlotInv, HeldInSlot, NoForeignVoice
  <1>5. EveryoneAudible'
    BY DEF SlotInv, EveryoneAudible
  <1> QED
    BY <1>2, <1>3, <1>4, <1>5 DEF SlotInv

\* A newcomer's registration, of a browser or a telephone.
LEMMA SlotTaken ==
  ASSUME TypeOK, SlotInv, NEW p \in Ids, stage[p] \in {"negotiate", "sockets"},
         stage' = [stage EXCEPT ![p] = "in"], TakeSlot(p), UNCHANGED held
  PROVE  SlotInv'
  <1> USE DEF At, SlotsOf
  <1>a. /\ \A i \in Slots : slots[i] # p
        /\ \A g \in Loops : g[1] = p => held[g] = Idle
        /\ p # NoPeer /\ stage \in [Ids -> Stages] /\ slots \in [Slots -> Ids \cup {NoPeer}]
    BY MediaPathAssumption DEF SlotInv, Newcomers, TypeOK
  <1>b. OneSlotEach
    BY DEF SlotInv
  <1>1. CASE /\ \A i \in Slots : slots[i] # NoPeer
             /\ slots' = slots
    <2>1. Newcomers'
      BY <1>1, <1>a DEF SlotInv, Newcomers
    <2>2. OneSlotEach' /\ HeldInSlot' /\ NoForeignVoice'
      BY <1>1, <1>a DEF SlotInv, OneSlotEach, HeldInSlot, NoForeignVoice
    <2>3. EveryoneAudible'
      BY <1>1, <1>a, <1>b, SlotIsFree DEF EveryoneAudible
    <2> QED
      BY <2>1, <2>2, <2>3 DEF SlotInv
  <1>2. CASE \E k \in Slots : slots[k] = NoPeer /\ slots' = [slots EXCEPT ![k] = p]
    <2>1. PICK k \in Slots : slots[k] = NoPeer /\ slots' = [slots EXCEPT ![k] = p]
      BY <1>2
    <2>2. Newcomers'
      BY <1>a, <2>1 DEF SlotInv, Newcomers
    <2>3. OneSlotEach'
      BY <1>a, <1>b, <2>1 DEF OneSlotEach
    <2>4. HeldInSlot' /\ NoForeignVoice'
      BY <1>a, <2>1, LoopFacts DEF SlotInv, HeldInSlot, NoForeignVoice
    <2>5. EveryoneAudible'
      <3>1. k \in SlotsOf(p)'
        BY <1>a, <2>1
      <3>2. \A q \in Ids, i \in Slots : slots[i] = q => slots'[i] = q
        BY <1>a, <2>1, MediaPathAssumption
      <3>3. \A q \in Ids \ {p} : stage'[q] = stage[q]
        BY <1>a
      <3> QED
        BY <3>1, <3>2, <3>3 DEF SlotInv, EveryoneAudible
    <2> QED
      BY <2>2, <2>3, <2>4, <2>5 DEF SlotInv
  <1> QED
    BY <1>1, <1>2, <1>a, TakeSlotFacts

\* A departure: the slots the participant had become free.
LEMMA SlotFreed ==
  ASSUME TypeOK, SlotInv, NEW p \in Ids, NEW s \in {"forget", "kicked", "gone"},
         stage' = [stage EXCEPT ![p] = s], FreeSlot(p), UNCHANGED held
  PROVE  SlotInv'
  <1> USE DEF At, SlotsOf
  <1>a. stage \in [Ids -> Stages] /\ NoPeer \notin Ids
    BY MediaPathAssumption DEF TypeOK
  <1>1. \A i \in Slots : slots'[i] = IF slots[i] = p THEN NoPeer ELSE slots[i]
    BY DEF FreeSlot
  <1>2. Newcomers'
    BY <1>a, <1>1 DEF SlotInv, Newcomers
  <1>3. OneSlotEach'
    BY <1>1 DEF SlotInv, OneSlotEach
  <1>4. HeldInSlot' /\ NoForeignVoice'
    BY <1>a, <1>1, LoopFacts DEF SlotInv, HeldInSlot, NoForeignVoice
  <1>5. EveryoneAudible'
    BY <1>a, <1>1 DEF SlotInv, EveryoneAudible
  <1> QED
    BY <1>2, <1>3, <1>4, <1>5 DEF SlotInv

\* While no operator moves people, every step keeps what is known about slots.
LEMMA NextSlot == TypeOK /\ SlotInv /\ [Next]_vars => SlotInv'
  <1> SUFFICES ASSUME TypeOK, SlotInv, [Next]_vars
               PROVE  SlotInv'
    OBVIOUS
  <1> USE DEF Enter, At
  <1>s. /\ stage \in [Ids -> Stages]
        /\ WebPeers \subseteq Ids /\ SipIds \subseteq Ids
    BY DEF TypeOK, Ids
  <1>k. UNCHANGED held => \A g \in Loops :
          held'[g] = Idle \/ (held[g] # Idle /\ held'[g].slot = held[g].slot)
    OBVIOUS
  <1>1. ASSUME NEW p \in WebPeers, AddPeer(p) \/ NewFails(p)
        PROVE  SlotInv'
    <2>1. /\ stage[p] = "out" /\ UNCHANGED <<slots, held>>
          /\ \E s \in {"negotiate", "unbuilt"} : stage' = [stage EXCEPT ![p] = s]
      BY <1>1 DEF AddPeer, NewFails
    <2> QED
      BY <1>s, <1>k, <2>1, SlotFrame
  <1>2. ASSUME NEW p \in Ids, RemovePeer(p)
        PROVE  SlotInv'
    BY <1>2, <1>s, SlotFreed DEF RemovePeer
  <1>3. ASSUME NEW p \in WebPeers,
               \/ StateChange(p) \/ OnTrack(p) \/ CloseTaken(p)
               \/ \E who \in Closers : PcClose(p, who)
        PROVE  SlotInv'
    <2>1. UNCHANGED <<stage, slots, held>>
      BY <1>3 DEF StateChange, OnTrack, CloseTaken, PcClose, membership
    <2> QED
      BY <1>k, <2>1, SlotFrame
  <1>4. ASSUME NEW g \in Loops \ {Egress}, NEW p \in Ids, p = g[1], Forward(g, p)
        PROVE  SlotInv'
    <2>1. /\ UNCHANGED <<stage, slots>>
          /\ held' = [held EXCEPT ![g] = [slot |-> Min(SlotsOf(p)), targets |-> peers \ {p}]]
          /\ Min(SlotsOf(p)) \in SlotsOf(p)
      BY <1>4, SlotsOfFacts DEF Forward, Hold, membership
    <2>2. \A h \in Loops :
            \/ held'[h] = Idle
            \/ held[h] # Idle /\ held'[h].slot = held[h].slot
            \/ held'[h].slot \in SlotsOf(h[1])
      BY <1>4, <2>1 DEF TypeOK
    <2> QED
      BY <2>1, <2>2, SlotFrame
  <1>5. ASSUME NEW p \in SipIds, AddSIPPeer(p)
        PROVE  SlotInv'
    <2>1. stage[p] = "out" /\ stage' = [stage EXCEPT ![p] = "sockets"] /\ UNCHANGED <<slots, held>>
      BY <1>5 DEF AddSIPPeer
    <2> QED
      BY <1>s, <1>k, <2>1, SlotFrame
  <1>6. ASSUME NEW p \in SipIds, RegisterSIP(p)
        PROVE  SlotInv'
    BY <1>6, <1>s, SlotTaken DEF RegisterSIP
  <1>7. ASSUME NEW p \in SipIds, RemoveSIPPeer(p)
        PROVE  SlotInv'
    BY <1>7, <1>s, SlotFreed DEF RemoveSIPPeer
  <1>8. ASSUME NEW p \in Ids, AddFails(p) \/ ClosePeer(p) \/ CloseSIPPeer(p)
        PROVE  SlotInv'
    <2>1. /\ stage[p] \in {"negotiate", "forget"} /\ stage' = [stage EXCEPT ![p] = "gone"]
          /\ UNCHANGED <<slots, held>>
      BY <1>8 DEF AddFails, ClosePeer, CloseSIPPeer
    <2> QED
      BY <1>s, <1>k, <2>1, SlotFrame
  <1>9. ASSUME NEW p \in WebPeers, Register(p)
        PROVE  SlotInv'
    <2>1. CASE stage' = [stage EXCEPT ![p] = "lost"] /\ UNCHANGED slots
      BY <1>9, <1>s, <1>k, <2>1, SlotFrame DEF Register
    <2>2. CASE stage' = [stage EXCEPT ![p] = "in"] /\ TakeSlot(p)
      BY <1>9, <1>s, <2>2, SlotTaken DEF Register
    <2> QED
      BY <1>9, <2>1, <2>2 DEF Register
  <1>10. CASE BroadcastVideo
    <2>1. \A h \in Loops \ {Egress} : held'[h] = held[h]
      BY <1>10, LoopFacts DEF BroadcastVideo, Hold, TypeOK
    <2> QED
      BY <1>10, <2>1, SlotFrame DEF BroadcastVideo, Hold, membership
  <1>11. ASSUME NEW g \in Loops, NEW q \in WebPeers, WriteSlot(g, q)
         PROVE  SlotInv'
    <2>1. held[g] # Idle
      BY <1>11 DEF WriteSlot, Idle
    <2>2. held'[g] = Idle \/ held'[g].slot = held[g].slot
      BY <1>11 DEF WriteSlot, TypeOK
    <2>3. \A h \in Loops \ {g} : held'[h] = held[h]
      BY <1>11 DEF WriteSlot, TypeOK
    <2> QED
      BY <1>11, <2>1, <2>2, <2>3, SlotFrame DEF WriteSlot, membership
  <1>12. ASSUME \/ Close \/ TakePeers \/ StopPipeline \/ UNCHANGED vars
                \/ \E p \in Ids \cup {NoPeer} : LoopsEnd(p)
         PROVE  SlotInv'
    <2>1. UNCHANGED <<stage, slots, held>>
      BY <1>12 DEF Close, TakePeers, StopPipeline, vars, LoopsEnd, membership
    <2> QED
      BY <1>k, <2>1, SlotFrame
  <1>13. ASSUME NEW p \in WebPeers, NEW kind \in {"audio", "video"}, ReadTrack(p, kind)
         PROVE  SlotInv'
    BY <1>13, <1>4, <1>s, LoopFacts DEF ReadTrack
  <1>14. ASSUME NEW p \in SipIds, ReadOpus(p)
         PROVE  SlotInv'
    BY <1>14, <1>4, <1>s, LoopFacts DEF ReadOpus
  <1> QED
    BY <1>1, <1>2, <1>3, <1>5, <1>6, <1>7, <1>8, <1>9, <1>10, <1>11, <1>12, <1>13, <1>14, <1>s
    DEF Next, Handler, Goroutines, Closing

-----------------------------------------------------------------------------
(* Theorems                                                                *)

\* A room whose operator moves nobody behaves as one whose operator may.
LEMMA SpecIsReseated == Spec => ReseatedSpec
  <1>1. [Next]_vars => [Next \/ Reseat]_vars
    OBVIOUS
  <1> QED
    BY <1>1, PTL DEF Spec, ReseatedSpec

\* What holds of the connections at all times.
LEMMA ConnHolds == ReseatedSpec => [](TypeOK /\ ConnInv)
  BY InitType, NextType, InitConn, NextConn, PTL DEF ReseatedSpec

\* Every variable keeps its type, whatever the operator does.
THEOREM TypeCorrect == ReseatedSpec => []TypeOK
  BY ConnHolds, PTL

\* Nothing is written to a connection after it was closed, although readers
\* look at r.peers long before they write.
THEOREM ClosedAreSilent == ReseatedSpec => []NoWriteAfterClose
  <1>1. TypeOK /\ ConnInv => NoWriteAfterClose
    BY DEF ConnInv, Connected, Referenced, MarkedOnce, NoWriteAfterClose, Writes, TypeOK, At
  <1> QED
    BY ConnHolds, <1>1, PTL

\* One caller only closes a connection, whoever of RemovePeer, Room.Close and
\* the connection's callback comes first.
THEOREM CloseHappensOnce == ReseatedSpec => []ClosedOnce
  <1>1. ASSUME ConnInv
        PROVE  ClosedOnce
    <2>1. ASSUME NEW p \in WebPeers
          PROVE  /\ Cardinality({who \in Closers : <<who, p>> \in closing}) <= 1
                 /\ \A who \in Closers : <<who, p>> \in closing => pc[p] = "open"
      <3> DEFINE S == {who \in Closers : <<who, p>> \in closing}
      <3>1. \A a, b \in S : a = b
        BY <1>1 DEF ConnInv, MarkedOnce
      <3>2. S = {} \/ \E a : S = {a}
        BY <3>1
      <3>3. Cardinality(S) = 0 \/ Cardinality(S) = 1
        BY <3>2, FS_EmptySet, FS_Singleton
      <3> QED
        BY <1>1, <3>3 DEF ConnInv, MarkedOnce
    <2> QED
      BY <2>1 DEF ClosedOnce
  <1> QED
    BY ConnHolds, <1>1, PTL

\* Whatever happens together, the code loses a connection only where peer.New fails
\* half-way (peer.go:95-137) and where Register panics in a closed room (room.go:190).
THEOREM NoConnectionIsLost == ReseatedSpec => []ConnectionsOwned
  <1>1. ConnInv => ConnectionsOwned
    BY DEF ConnInv
  <1> QED
    BY ConnHolds, <1>1, PTL

\* What holds of the slots at all times, while the operator moves nobody.
LEMMA SlotsHold == Spec => []SlotInv
  <1>1. Spec => []TypeOK
    BY SpecIsReseated, TypeCorrect, PTL
  <1> QED
    BY <1>1, InitSlot, NextSlot, PTL DEF Spec

\* While the operator moves nobody, a packet on its way is for the track of its
\* sender as long as that sender is in the room, whoever else leaves, is kicked and
\* comes meanwhile.  What a departed sender said last may still reach the track of
\* who took its slot.
THEOREM VoicesStayApart == Spec => []NoForeignVoice
  <1>1. SlotInv => NoForeignVoice
    BY DEF SlotInv
  <1> QED
    BY SlotsHold, <1>1, PTL

\* Where there are slots for everybody, every participant has one.
THEOREM NobodyIsMute == Spec => []EveryoneAudible
  <1>1. SlotInv => EveryoneAudible
    BY DEF SlotInv
  <1> QED
    BY SlotsHold, <1>1, PTL
=============================================================================
