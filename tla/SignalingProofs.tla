-------------------------- MODULE SignalingProofs ---------------------------
(***************************************************************************)
(* The safety of Signaling for any number of sessions, SIP calls and       *)
(* posting goroutines.  Calls may fail and time out: what concerns the     *)
(* remains of a session is proved for sessions none of whose own did.      *)
(***************************************************************************)
EXTENDS Signaling, TLAPS

Casting == {"fetch", "targets", "write"}

\* A session that has joined and not yet begun to clean up takes part.
Live(s) ==
  \/ pc[s] \in {"answer", "connected"}
  \/ pc[s] \in Casting /\ s \notin closed

\* Where a session stands determines whether it is closed.
ClosedPlaces ==
  \A s \in Sessions :
    /\ pc[s] \in {"new", "announce", "joined", "adding", "answer", "connected"} => s \notin closed
    /\ pc[s] \in {"remove", "unlist", "unhub", "gone"} => s \in closed
    /\ pc[s] # "idle"

\* Joining fills the hub, Redis and the worker in this order, and cleanup
\* empties the worker, Redis and the hub.
InOrder ==
  \A s \in Sessions \ slips :
    /\ s \in adding => At(s, "adding")
    /\ s \in peers => Live(s) \/ At(s, "remove")
    /\ s \in presence => Live(s) \/ pc[s] \in {"joined", "adding", "remove", "unlist"}
    /\ s \in hub <=> \/ Live(s)
                     \/ pc[s] \in {"announce", "joined", "adding", "remove", "unlist", "unhub"}

Inv == TypeOK /\ ClosedPlaces /\ InOrder

-----------------------------------------------------------------------------
\* Before anybody joins the inductive invariant holds.
LEMMA InitInv == Init => Inv
  <1> SUFFICES ASSUME Init PROVE Inv
    OBVIOUS
  <1> USE SignalingAssumption DEF Init, Writers, Peers, NoRoster
  <1>1. TypeOK
    BY DEF TypeOK, Rosters, Places
  <1>2. ClosedPlaces
    BY DEF ClosedPlaces
  <1>3. InOrder
    BY DEF InOrder, Live, At, Casting
  <1> QED
    BY <1>1, <1>2, <1>3 DEF Inv

\* What WriteNext assigns.
LEMMA WriteNextType ==
  ASSUME TypeOK, NEW w \in Writers, WriteNext(w)
  PROVE  /\ sheet' \in [Writers -> Rosters]
         /\ pc' \in [Writers -> Places]
         /\ \A n \in Posters : pc'[n] \in {"idle", "fetch", "targets", "write"}
  <1>1. NoRoster \in Rosters
    BY SignalingAssumption DEF NoRoster, Rosters
  <1>2. /\ After(w) \in Places
        /\ w \in Posters => After(w) = "idle"
    BY DEF After, Places
  <1>3. "write" \in Places
    BY DEF Places
  <1>4. CASE to'[w] # {}
    <2>1. sheet' = sheet /\ pc' = [pc EXCEPT ![w] = "write"]
      BY <1>4 DEF WriteNext, Goto
    <2> QED
      BY <1>3, <2>1 DEF TypeOK
  <1>5. CASE to'[w] = {}
    <2>1. sheet' = [sheet EXCEPT ![w] = NoRoster] /\ pc' = [pc EXCEPT ![w] = After(w)]
      BY <1>5 DEF WriteNext, Goto
    <2> QED
      BY <1>1, <1>2, <2>1 DEF TypeOK
  <1> QED
    BY <1>4, <1>5

\* Every step keeps the types.
LEMMA NextType ==
  ASSUME TypeOK, [Next]_vars
  PROVE  TypeOK'
  <1> USE SignalingAssumption
      DEF Writers, Peers, At, Goto, shared, local, TypeOK, Rosters, Places, NoRoster
  <1>1. ASSUME NEW s \in Sessions, Join(s) PROVE TypeOK'
    BY <1>1 DEF Join
  <1>2. ASSUME NEW s \in Sessions, Offer(s) PROVE TypeOK'
    BY <1>2 DEF Offer
  <1>3. ASSUME NEW s \in Sessions, Disconnect(s) PROVE TypeOK'
    BY <1>3 DEF Disconnect, Close
  <1>4. ASSUME NEW s \in Sessions, Announce(s) PROVE TypeOK'
    BY <1>4 DEF Announce
  <1>5. ASSUME NEW s \in Sessions, PeerAdded(s) PROVE TypeOK'
    BY <1>5 DEF PeerAdded
  <1>6. ASSUME NEW s \in Sessions, PeerRefused(s) PROVE TypeOK'
    BY <1>6 DEF PeerRefused
  <1>7. ASSUME NEW s \in Sessions, AddPeerTimesOut(s) PROVE TypeOK'
    BY <1>7 DEF AddPeerTimesOut
  <1>8. ASSUME NEW s \in Sessions, Answer(s) PROVE TypeOK'
    BY <1>8 DEF Answer
  <1>9. ASSUME NEW s \in Sessions, AnswerFails(s) PROVE TypeOK'
    BY <1>9 DEF AnswerFails, Close
  <1>10. ASSUME NEW s \in Sessions, RemovePeer(s) PROVE TypeOK'
    BY <1>10 DEF RemovePeer
  <1>11. ASSUME NEW s \in Sessions, Unlist(s) PROVE TypeOK'
    BY <1>11 DEF Unlist
  <1>12. ASSUME NEW s \in Sessions, LeaveHub(s) PROVE TypeOK'
    BY <1>12 DEF LeaveHub
  <1>13. ASSUME NEW w \in Writers, FetchRoster(w) PROVE TypeOK'
    <2>1. Roster \in Rosters
      BY DEF Roster
    <2>2. sheet' \in [Writers -> Rosters]
      BY <1>13, <2>1 DEF FetchRoster
    <2>3. /\ pc' \in [Writers -> Places]
          /\ \A n \in Posters : pc'[n] \in {"idle", "fetch", "targets", "write"}
      BY <1>13 DEF FetchRoster, After
    <2> QED
      BY <1>13, <2>2, <2>3 DEF FetchRoster
  <1>14. ASSUME NEW w \in Writers, Targets(w) PROVE TypeOK'
    <2>1. to' \in [Writers -> SUBSET Sessions]
      BY <1>14 DEF Targets
    <2> QED
      BY <1>14, <2>1, WriteNextType DEF Targets
  <1>15. ASSUME NEW w \in Writers, NEW s \in Sessions, Write(w, s) PROVE TypeOK'
    <2>1. to' \in [Writers -> SUBSET Sessions]
      BY <1>15 DEF Write
    <2>2. roster' \in [Sessions -> Rosters]
      BY <1>15 DEF Write
    <2> QED
      BY <1>15, <2>1, <2>2, WriteNextType DEF Write
  <1>16. ASSUME NEW c \in SipCalls, NEW n \in Posters, SipEnters(c, n) \/ SipLeaves(c, n) PROVE TypeOK'
    BY <1>16 DEF SipEnters, SipLeaves
  <1>17. ASSUME NEW p \in Peers, KickPeer(p) PROVE TypeOK'
    BY <1>17 DEF KickPeer
  <1>18. ASSUME NEW p \in Peers, KickPresence(p) PROVE TypeOK'
    BY <1>18 DEF KickPresence
  <1>19. ASSUME AssignSlots PROVE TypeOK'
    BY <1>19 DEF AssignSlots
  <1>20. CASE UNCHANGED vars
    BY <1>20 DEF vars
  <1> QED
    BY <1>1, <1>2, <1>3, <1>4, <1>5, <1>6, <1>7, <1>8, <1>9, <1>10, <1>11, <1>12, <1>13, <1>14, <1>15, <1>16, <1>17, <1>18, <1>19, <1>20
       DEF Next, Client, Handle, Broadcast, Operator

\* Every step keeps a session's place and its closed flag in line.
LEMMA NextClosed ==
  ASSUME TypeOK, ClosedPlaces, [Next]_vars
  PROVE  ClosedPlaces'
  <1> USE SignalingAssumption
      DEF Writers, Peers, At, Goto, shared, local, TypeOK, ClosedPlaces, Places
  <1>1. ASSUME NEW s \in Sessions, Join(s) PROVE ClosedPlaces'
    BY <1>1 DEF Join
  <1>2. ASSUME NEW s \in Sessions, Offer(s) PROVE ClosedPlaces'
    BY <1>2 DEF Offer
  <1>3. ASSUME NEW s \in Sessions, Disconnect(s) PROVE ClosedPlaces'
    BY <1>3 DEF Disconnect, Close
  <1>4. ASSUME NEW s \in Sessions, Announce(s) PROVE ClosedPlaces'
    BY <1>4 DEF Announce
  <1>5. ASSUME NEW s \in Sessions, PeerAdded(s) PROVE ClosedPlaces'
    BY <1>5 DEF PeerAdded
  <1>6. ASSUME NEW s \in Sessions, PeerRefused(s) PROVE ClosedPlaces'
    BY <1>6 DEF PeerRefused
  <1>7. ASSUME NEW s \in Sessions, AddPeerTimesOut(s) PROVE ClosedPlaces'
    BY <1>7 DEF AddPeerTimesOut
  <1>8. ASSUME NEW s \in Sessions, Answer(s) PROVE ClosedPlaces'
    BY <1>8 DEF Answer
  <1>9. ASSUME NEW s \in Sessions, AnswerFails(s) PROVE ClosedPlaces'
    BY <1>9 DEF AnswerFails, Close
  <1>10. ASSUME NEW s \in Sessions, RemovePeer(s) PROVE ClosedPlaces'
    BY <1>10 DEF RemovePeer
  <1>11. ASSUME NEW s \in Sessions, Unlist(s) PROVE ClosedPlaces'
    BY <1>11 DEF Unlist
  <1>12. ASSUME NEW s \in Sessions, LeaveHub(s) PROVE ClosedPlaces'
    BY <1>12 DEF LeaveHub
  <1>13. ASSUME NEW w \in Writers, FetchRoster(w) PROVE ClosedPlaces'
    BY <1>13 DEF FetchRoster, After, Roster
  <1>14. ASSUME NEW w \in Writers, Targets(w) PROVE ClosedPlaces'
    BY <1>14 DEF Targets, WriteNext, After
  <1>15. ASSUME NEW w \in Writers, NEW s \in Sessions, Write(w, s) PROVE ClosedPlaces'
    BY <1>15 DEF Write, WriteNext, After
  <1>16. ASSUME NEW c \in SipCalls, NEW n \in Posters, SipEnters(c, n) \/ SipLeaves(c, n) PROVE ClosedPlaces'
    BY <1>16 DEF SipEnters, SipLeaves
  <1>17. ASSUME NEW p \in Peers, KickPeer(p) PROVE ClosedPlaces'
    BY <1>17 DEF KickPeer
  <1>18. ASSUME NEW p \in Peers, KickPresence(p) PROVE ClosedPlaces'
    BY <1>18 DEF KickPresence
  <1>19. ASSUME AssignSlots PROVE ClosedPlaces'
    BY <1>19 DEF AssignSlots
  <1>20. CASE UNCHANGED vars
    BY <1>20 DEF vars
  <1> QED
    BY <1>1, <1>2, <1>3, <1>4, <1>5, <1>6, <1>7, <1>8, <1>9, <1>10, <1>11, <1>12, <1>13, <1>14, <1>15, <1>16, <1>17, <1>18, <1>19, <1>20
       DEF Next, Client, Handle, Broadcast, Operator

\* Every step keeps the order for the sessions without a failed call.
LEMMA NextInOrder ==
  ASSUME Inv, [Next]_vars
  PROVE  InOrder'
  <1> USE SignalingAssumption
      DEF Writers, Peers, At, Goto, shared, local, Inv, TypeOK, Places, ClosedPlaces, InOrder, Live, Casting
  <1>1. ASSUME NEW s \in Sessions, Join(s) PROVE InOrder'
    BY <1>1 DEF Join
  <1>2. ASSUME NEW s \in Sessions, Offer(s) PROVE InOrder'
    BY <1>2 DEF Offer
  <1>3. ASSUME NEW s \in Sessions, Disconnect(s) PROVE InOrder'
    BY <1>3 DEF Disconnect, Close
  <1>4. ASSUME NEW s \in Sessions, Announce(s) PROVE InOrder'
    BY <1>4 DEF Announce
  <1>5. ASSUME NEW s \in Sessions, PeerAdded(s) PROVE InOrder'
    BY <1>5 DEF PeerAdded
  <1>6. ASSUME NEW s \in Sessions, PeerRefused(s) PROVE InOrder'
    BY <1>6 DEF PeerRefused
  <1>7. ASSUME NEW s \in Sessions, AddPeerTimesOut(s) PROVE InOrder'
    BY <1>7 DEF AddPeerTimesOut
  <1>8. ASSUME NEW s \in Sessions, Answer(s) PROVE InOrder'
    BY <1>8 DEF Answer
  <1>9. ASSUME NEW s \in Sessions, AnswerFails(s) PROVE InOrder'
    BY <1>9 DEF AnswerFails, Close
  <1>10. ASSUME NEW s \in Sessions, RemovePeer(s) PROVE InOrder'
    BY <1>10 DEF RemovePeer
  <1>11. ASSUME NEW s \in Sessions, Unlist(s) PROVE InOrder'
    BY <1>11 DEF Unlist
  <1>12. ASSUME NEW s \in Sessions, LeaveHub(s) PROVE InOrder'
    BY <1>12 DEF LeaveHub
  <1>13. ASSUME NEW w \in Writers, FetchRoster(w) PROVE InOrder'
    BY <1>13 DEF FetchRoster, After, Roster
  <1>14. ASSUME NEW w \in Writers, Targets(w) PROVE InOrder'
    BY <1>14 DEF Targets, WriteNext, After
  <1>15. ASSUME NEW w \in Writers, NEW s \in Sessions, Write(w, s) PROVE InOrder'
    BY <1>15 DEF Write, WriteNext, After
  <1>16. ASSUME NEW c \in SipCalls, NEW n \in Posters, SipEnters(c, n) \/ SipLeaves(c, n) PROVE InOrder'
    BY <1>16 DEF SipEnters, SipLeaves
  <1>17. ASSUME NEW p \in Peers, KickPeer(p) PROVE InOrder'
    BY <1>17 DEF KickPeer
  <1>18. ASSUME NEW p \in Peers, KickPresence(p) PROVE InOrder'
    BY <1>18 DEF KickPresence
  <1>19. ASSUME AssignSlots PROVE InOrder'
    BY <1>19 DEF AssignSlots
  <1>20. CASE UNCHANGED vars
    BY <1>20 DEF vars
  <1> QED
    BY <1>1, <1>2, <1>3, <1>4, <1>5, <1>6, <1>7, <1>8, <1>9, <1>10, <1>11, <1>12, <1>13, <1>14, <1>15, <1>16, <1>17, <1>18, <1>19, <1>20
       DEF Next, Client, Handle, Broadcast, Operator

-----------------------------------------------------------------------------
\* The variables keep their types, whatever fails or times out.
THEOREM TypeCorrect == Spec => []TypeOK
  <1>1. Init => TypeOK
    BY InitInv DEF Inv
  <1>2. TypeOK /\ [Next]_vars => TypeOK'
    BY NextType
  <1> QED
    BY <1>1, <1>2, PTL DEF Spec

\* The inductive invariant holds, whatever fails or times out.
THEOREM Invariance == Spec => []Inv
  <1>1. Inv /\ [Next]_vars => Inv'
    BY NextType, NextClosed, NextInOrder DEF Inv
  <1> QED
    BY InitInv, <1>1, PTL DEF Spec

\* A session that is gone, and none of whose calls failed or timed out, left
\* nothing in the hub, in Redis or in the worker, kicked or not.
THEOREM CleanupIsComplete == Spec => []NothingLeftBehind
  <1>1. Inv => NothingLeftBehind
    BY DEF Inv, InOrder, Live, Casting, At, NothingLeftBehind
  <1> QED
    BY Invariance, <1>1, PTL

\* Whoever has media or is listed is in the hub, but for such failures.
THEOREM HubKnowsThePresent == Spec => []PresentAreReachable
  <1>1. Inv => PresentAreReachable
    BY DEF Inv, TypeOK, InOrder, At, PresentAreReachable
  <1> QED
    BY Invariance, <1>1, PTL
=============================================================================
