---------------------------- MODULE SipCallProofs ----------------------------
(***************************************************************************)
(* Safety of SipCall for any number of calls and INVITEs, with all the     *)
(* faults, timeouts, kicks and destroyed rooms there are.                  *)
(***************************************************************************)
EXTENDS SipCall, TLAPS

\* The call is in the gateway's maps, or was.
Answered == {"accept", "answer", "up"}

\* The worker has made the peer for an INVITE that goes on.
Middle == {"mw audio", "mw video", "register"}

\* An INVITE or a call that has a peer in the worker and will use or delete it.
Owning(h) ==
  \/ pc[h] \in Middle
  \/ pc[h] \in Answered /\ bye[h] \in {"no", "close", "delete"}
  \/ h \in deletes

\* A registered call has been built and nobody has hung it up.
Registered ==
  \A c \in CallIds : LET h == calls[c] IN
    h # NoHandler => callId[h] = c /\ pc[h] \in Answered /\ bye[h] = "no"

\* Only built calls are hung up.
HungUp == \A h \in Handlers : bye[h] # "no" => pc[h] \in Answered

\* DELETE is sent when the sockets are closed.
Deleting == \A h \in deletes : bye[h] \in {"release", "done"}

\* Whoever has not begun, gave up or was closed has no sockets.
NoSockets == \A s \in open : pc[s[1]] \notin {"free", "audio", "refused"} /\ bye[s[1]] \in {"no", "close"}

\* Whoever owns the worker's peer of a Call-ID nobody took away has it and its
\* branch, and is registered as long as nobody hung up: there is one owner at a time.
Owners ==
  \A h \in Handlers : callId[h] \notin taken /\ Owning(h) =>
    /\ peer[callId[h]] = h /\ callId[h] \in branched
    /\ pc[h] \in Answered /\ bye[h] = "no" => calls[callId[h]] = h

\* The worker's peer has an owner, which a hang-up finds once it is answered.
Owned ==
  \A c \in CallIds \ stray, h \in Handlers : peer[c] = h =>
    /\ callId[h] = c /\ Owning(h)
    /\ pc[h] \in Answered /\ bye[h] = "no" => calls[c] = h

\* An INVITE whose peer was made has it until it is registered, or it was lost.
Building ==
  \A h \in Handlers : callId[h] \notin stray /\ pc[h] \in Middle =>
    peer[callId[h]] \in {h, NoHandler}

\* The terminal waits for an answer before it sends another INVITE.
OneSetup ==
  \A g, h \in Handlers : callId[g] = callId[h] /\ pc[g] \in Setup /\ pc[h] \in Setup => g = h

Inv ==
  /\ TypeOK /\ Registered /\ HungUp /\ Deleting /\ NoSockets
  /\ Owners /\ Owned /\ Building /\ OneSetup

-----------------------------------------------------------------------------
\* Init establishes the invariant.
LEMMA InitInv == Init => Inv
  BY SipCallAssumption DEF Init, Inv, TypeOK, Setup, Registered, HungUp, Deleting, NoSockets,
     Owners, Owned, Owning, Building, OneSetup, Middle, Answered, Unregistered

\* A socket is a triple that names its INVITE.
LEMMA SocketTyped ==
  ASSUME NEW h \in Handlers, NEW side \in {"fs", "mw"}, NEW m \in Media
  PROVE  <<h, side, m>> \in Sockets /\ <<h, side, m>>[1] = h
  BY DEF Sockets

\* Every socket names an INVITE.
LEMMA SocketOwner ==
  ASSUME TypeOK, NEW s \in open
  PROVE  s[1] \in Handlers
  BY DEF TypeOK, Sockets

\* Opening a socket keeps NoSockets if its INVITE is one that may have some.
LEMMA SocketOpened ==
  ASSUME TypeOK, NoSockets, NEW h \in Handlers, NEW side \in {"fs", "mw"}, NEW m \in Media,
         open' = open \cup {<<h, side, m>>},
         pc'[h] \notin {"free", "audio", "refused"}, bye'[h] \in {"no", "close"},
         \A g \in Handlers \ {h} : pc'[g] = pc[g] /\ bye'[g] = bye[g]
  PROVE  NoSockets' /\ open' \subseteq Sockets
  <1>1. <<h, side, m>> \in Sockets /\ <<h, side, m>>[1] = h
    BY SocketTyped
  <1>2. ASSUME NEW s \in open PROVE pc'[s[1]] \notin {"free", "audio", "refused"} /\ bye'[s[1]] \in {"no", "close"}
    BY SocketOwner DEF NoSockets
  <1>3. NoSockets'
    BY <1>1, <1>2 DEF NoSockets
  <1> QED
    BY <1>1, <1>3 DEF TypeOK

\* Closing all sockets of an INVITE keeps it whatever becomes of the INVITE.
LEMMA SocketsClosed ==
  ASSUME TypeOK, NoSockets, NEW h \in Handlers, open' = open \ SocketsOf(h),
         \A g \in Handlers \ {h} : pc'[g] = pc[g] /\ bye'[g] = bye[g]
  PROVE  NoSockets' /\ open' \subseteq Sockets
  BY SocketOwner DEF NoSockets, SocketsOf, TypeOK

\* So does leaving the sockets alone, if no INVITE loses its right to some.
LEMMA SocketsLeft ==
  ASSUME TypeOK, NoSockets, open' \subseteq open,
         \A g \in Handlers :
           /\ pc'[g] \in {"free", "audio", "refused"} => pc[g] \in {"free", "audio", "refused"}
           /\ bye'[g] \notin {"no", "close"} => bye[g] \notin {"no", "close"}
  PROVE  NoSockets' /\ open' \subseteq Sockets
  BY SocketOwner DEF NoSockets, TypeOK

-----------------------------------------------------------------------------
(* Who owns the worker's peer                                              *)

Ownership == Registered /\ HungUp /\ Deleting /\ Owners /\ Owned /\ Building

\* A step that moves INVITEs only within their part of the set-up keeps who owns
\* what.
LEMMA OwnersStay ==
  ASSUME TypeOK, Ownership,
         UNCHANGED <<callId, calls, bye, deletes, peer, branched, taken, stray>>,
         \A g \in Handlers : /\ pc'[g] \in Middle <=> pc[g] \in Middle
                             /\ pc'[g] \in Answered <=> pc[g] \in Answered
  PROVE  Ownership'
  <1> USE SipCallAssumption
  <1>1. \A g \in Handlers : Owning(g)' <=> Owning(g)
    BY DEF Owning
  <1>2. Registered'
    BY DEF Ownership, Registered, TypeOK
  <1>3. HungUp' /\ Deleting'
    BY DEF Ownership, HungUp, Deleting
  <1>4. Owners'
    BY <1>1 DEF Ownership, Owners
  <1>5. Owned'
    BY <1>1 DEF Ownership, Owned, TypeOK
  <1>6. Building'
    BY DEF Ownership, Building
  <1> QED
    BY <1>2, <1>3, <1>4, <1>5, <1>6 DEF Ownership

\* A step that leaves the worker's peer of one Call-ID to itself may end what owned
\* it.
LEMMA OwnersLeave ==
  ASSUME TypeOK, Ownership, NEW c \in CallIds, Stray(c),
         UNCHANGED <<callId, calls, bye, peer, branched, taken>>, deletes' \subseteq deletes,
         \A g \in Handlers : /\ callId[g] # c => pc'[g] = pc[g] /\ (g \in deletes' <=> g \in deletes)
                             /\ pc'[g] \in Middle => pc[g] \in Middle
                             /\ pc'[g] \in Answered <=> pc[g] \in Answered
  PROVE  Ownership'
  <1> USE SipCallAssumption
  <1>0. callId \in [Handlers -> CallIds] /\ \A d \in CallIds : d \notin stray' <=> d \notin stray /\ d # c
    BY DEF TypeOK, Stray
  <1>1. \A g \in Handlers : /\ callId[g] # c => (Owning(g)' <=> Owning(g))
                            /\ Owning(g)' => Owning(g)
    BY DEF Owning
  <1>2. Registered'
    BY DEF Ownership, Registered, TypeOK
  <1>3. HungUp' /\ Deleting'
    BY DEF Ownership, HungUp, Deleting
  <1>4. Owners'
    BY <1>0, <1>1 DEF Ownership, Owners
  <1>5. Owned'
    BY <1>0, <1>1 DEF Ownership, Owned
  <1>6. Building'
    BY <1>0 DEF Ownership, Building
  <1> QED
    BY <1>2, <1>3, <1>4, <1>5, <1>6 DEF Ownership

\* A kick takes the branch and a lost room all the worker has of one Call-ID.
LEMMA TakenOwners ==
  ASSUME TypeOK, Ownership, NEW c \in CallIds, RoomDestroyed(c) \/ Kick(c)
  PROVE  Ownership'
  <1> USE SipCallAssumption
  <1>0. /\ callId \in [Handlers -> CallIds] /\ taken' = taken \cup {c}
        /\ UNCHANGED <<pc, callId, calls, bye, deletes, stray>>
        /\ \A d \in CallIds : peer'[d] = peer[d] \/ (d = c /\ peer'[d] = NoHandler)
        /\ \A d \in CallIds \ {c} : d \in branched' <=> d \in branched
    <2>1. CASE RoomDestroyed(c)
      BY <2>1 DEF RoomDestroyed, PeerGone, TypeOK, gateway
    <2>2. CASE Kick(c)
      <3>1. UNCHANGED <<pc, callId, calls, bye, deletes, stray, peer>>
        BY <2>2 DEF Kick, gateway
      <3>2. taken' = taken \cup {c} /\ branched' = branched \ {c}
        BY <2>2 DEF Kick
      <3> QED
        BY <3>1, <3>2 DEF TypeOK
    <2> QED
      BY <2>1, <2>2
  <1>1. \A g \in Handlers : Owning(g)' <=> Owning(g)
    BY <1>0 DEF Owning
  <1>2. Registered' /\ HungUp' /\ Deleting'
    BY <1>0 DEF Ownership, Registered, HungUp, Deleting
  <1>3. Owners'
    BY <1>0, <1>1 DEF Ownership, Owners
  <1>4. Owned'
    BY <1>0, <1>1 DEF Ownership, Owned
  <1>5. Building'
    BY <1>0 DEF Ownership, Building
  <1> QED
    BY <1>2, <1>3, <1>4, <1>5 DEF Ownership

\* INVITE's new peer in the worker has one owner.
LEMMA CreatedOwners ==
  ASSUME TypeOK, Ownership, OneSetup, NEW h \in Handlers, PeerCreated(h)
  PROVE  Ownership'
  <1> USE SipCallAssumption
  <1> DEFINE c == callId[h]
  <1>0. /\ callId \in [Handlers -> CallIds] /\ c \in CallIds /\ c \notin branched
        /\ branched' = branched \cup {c}
        /\ peer'[c] = h /\ \A d \in CallIds \ {c} : peer'[d] = peer[d]
        /\ UNCHANGED <<callId, calls, bye, deletes, taken>>
    BY DEF PeerCreated, TypeOK
  <1>1. ASSUME NEW g \in Handlers, callId[g] = c, c \notin taken PROVE ~Owning(g)
    BY <1>0, <1>1 DEF Ownership, Owners
  <1>2. CASE At(h, "posted") /\ Goto(h, "mw audio") /\ UNCHANGED stray
    <2>1. /\ pc[h] = "posted" /\ pc'[h] = "mw audio" /\ stray' = stray
          /\ \A g \in Handlers \ {h} : pc'[g] = pc[g]
      BY <1>2 DEF At, Goto, TypeOK
    <2>2. Owning(h)' /\ \A g \in Handlers \ {h} : Owning(g)' <=> Owning(g)
      BY <1>0, <2>1 DEF Owning, Middle
    <2>3. \A g \in Handlers : pc'[g] \in Answered <=> pc[g] \in Answered
      BY <2>1 DEF Answered
    <2>4. Registered'
      BY <1>0, <2>3 DEF Ownership, Registered, TypeOK
    <2>5. HungUp' /\ Deleting'
      BY <1>0, <2>3 DEF Ownership, HungUp, Deleting
    <2>6. Owners'
      BY <1>0, <1>1, <2>1, <2>2, <2>3 DEF Ownership, Owners, Answered
    <2>7. Owned'
      <3> SUFFICES ASSUME NEW d \in CallIds \ stray, NEW g \in Handlers, peer'[d] = g
                   PROVE  /\ callId[g] = d /\ Owning(g)'
                          /\ pc'[g] \in Answered /\ bye[g] = "no" => calls[d] = g
        BY <1>0, <2>1 DEF Owned
      <3>1. CASE d = c
        BY <1>0, <2>1, <2>2, <3>1 DEF Answered
      <3>2. CASE d # c
        <4>1. peer[d] = g
          BY <1>0, <3>2
        <4>2. /\ callId[g] = d /\ Owning(g)
              /\ pc[g] \in Answered /\ bye[g] = "no" => calls[d] = g
          BY <4>1 DEF Ownership, Owned
        <4> QED
          BY <2>2, <2>3, <3>2, <4>2
      <3> QED
        BY <3>1, <3>2
    <2>8. Building'
      <3> SUFFICES ASSUME NEW g \in Handlers, callId[g] \notin stray, pc'[g] \in Middle
                   PROVE  peer'[callId[g]] \in {g, NoHandler}
        BY <1>0, <2>1 DEF Building
      <3>1. CASE g = h
        BY <1>0, <3>1
      <3>2. CASE g # h /\ callId[g] = c
        <4>1. pc[g] \in Setup /\ pc[h] \in Setup
          BY <2>1, <3>2 DEF Middle, Setup, Unregistered
        <4> QED
          BY <3>2, <4>1 DEF OneSetup
      <3>3. CASE g # h /\ callId[g] # c
        <4>1. callId[g] \in CallIds /\ peer'[callId[g]] = peer[callId[g]] /\ pc[g] \in Middle
          BY <1>0, <2>1, <3>3
        <4> QED
          BY <4>1 DEF Ownership, Building
      <3> QED
        BY <3>1, <3>2, <3>3
    <2> QED
      BY <2>4, <2>5, <2>6, <2>7, <2>8 DEF Ownership
  <1>3. CASE Stray(c) /\ UNCHANGED pc
    <2>1. \A d \in CallIds : d \notin stray' <=> d \notin stray /\ d # c
      BY <1>3 DEF Stray
    <2>2. \A g \in Handlers : Owning(g)' <=> Owning(g)
      BY <1>0, <1>3 DEF Owning
    <2>3. Registered' /\ HungUp' /\ Deleting'
      BY <1>0, <1>3 DEF Ownership, Registered, HungUp, Deleting
    <2>4. Owners'
      BY <1>0, <1>1, <1>3, <2>2 DEF Ownership, Owners
    <2>5. Owned'
      BY <1>0, <1>3, <2>1, <2>2 DEF Ownership, Owned
    <2>6. Building'
      BY <1>0, <1>3, <2>1 DEF Ownership, Building
    <2> QED
      BY <2>3, <2>4, <2>5, <2>6 DEF Ownership
  <1> QED
    BY <1>2, <1>3 DEF PeerCreated

\* A DELETE takes the peer from its owner.
LEMMA DeletedOwners ==
  ASSUME TypeOK, Ownership, NEW h \in Handlers, PeerDeleted(h)
  PROVE  Ownership'
  <1> USE SipCallAssumption
  <1>0. /\ callId \in [Handlers -> CallIds] /\ h \in deletes /\ deletes' = deletes \ {h}
        /\ UNCHANGED <<pc, callId, calls, bye, taken>>
    BY DEF PeerDeleted, TypeOK, gateway
  <1>1. CASE PeerGone(callId[h]) /\ UNCHANGED stray
    <2>1. \A g \in Handlers : g # h => (Owning(g)' <=> Owning(g))
      BY <1>0 DEF Owning
    <2>2. ~Owning(h)' /\ Owning(h)
      BY <1>0 DEF Owning, Ownership, Deleting, HungUp, Middle, Answered
    <2>3. Registered' /\ HungUp' /\ Deleting'
      BY <1>0 DEF Ownership, Registered, HungUp, Deleting
    <2>4. /\ peer'[callId[h]] = NoHandler /\ branched' = branched \ {callId[h]}
          /\ \A d \in CallIds : d # callId[h] => peer'[d] = peer[d]
      BY <1>0, <1>1 DEF PeerGone, TypeOK
    <2>5. ASSUME NEW g \in Handlers, callId[g] = callId[h], callId[g] \notin taken, g # h PROVE ~Owning(g)
      BY <2>2, <2>5 DEF Ownership, Owners
    <2>6. Owners'
      BY <1>0, <2>1, <2>2, <2>4, <2>5 DEF Ownership, Owners
    <2>7. Owned'
      BY <1>0, <1>1, <2>1, <2>4 DEF Ownership, Owned
    <2>8. Building'
      BY <1>0, <1>1, <2>4 DEF Ownership, Building
    <2> QED
      BY <2>3, <2>6, <2>7, <2>8 DEF Ownership
  <1>2. CASE Stray(callId[h]) /\ UNCHANGED <<peer, branched, learned>>
    <2>1. callId[h] \in CallIds
      BY <1>0
    <2>2. \A g \in Handlers : callId[g] # callId[h] => (g \in deletes' <=> g \in deletes)
      BY <1>0
    <2> QED
      BY <1>0, <1>2, <2>1, <2>2, OwnersLeave
  <1> QED
    BY <1>1, <1>2 DEF PeerDeleted

\* A call is registered by the owner of the peer, so no other call loses its place
\* that a hang-up still has to find there.
LEMMA RegisterOwners ==
  ASSUME TypeOK, Ownership, NEW h \in Handlers, Register(h)
  PROVE  Ownership'
  <1> USE SipCallAssumption
  <1>0. /\ callId \in [Handlers -> CallIds]
        /\ UNCHANGED <<callId, bye, deletes, peer, branched, taken, stray>>
        /\ calls'[callId[h]] = h /\ \A d \in CallIds : d # callId[h] => calls'[d] = calls[d]
        /\ pc[h] = "register" /\ pc'[h] = "accept" /\ \A g \in Handlers \ {h} : pc'[g] = pc[g]
    BY DEF Register, TypeOK, worker, history, At, Goto
  <1>1. bye[h] = "no" /\ Owning(h) /\ Owning(h)'
    BY <1>0 DEF Ownership, HungUp, Answered, Owning, Middle
  <1>2. \A g \in Handlers : /\ Owning(g)' <=> Owning(g)
                            /\ g # h => (pc'[g] \in Answered <=> pc[g] \in Answered)
    BY <1>0, <1>1 DEF Owning
  <1>3. Registered'
    BY <1>0, <1>1 DEF Ownership, Registered, Answered, TypeOK
  <1>4. HungUp' /\ Deleting'
    BY <1>0, <1>1 DEF Ownership, HungUp, Deleting
  <1>5. ASSUME NEW g \in Handlers \ {h}, callId[g] = callId[h], callId[g] \notin taken PROVE ~Owning(g)
    BY <1>1, <1>5 DEF Ownership, Owners
  <1>6. Owners'
    BY <1>0, <1>2, <1>5 DEF Ownership, Owners
  <1>7. Owned'
    <2> SUFFICES ASSUME NEW d \in CallIds \ stray, NEW g \in Handlers, peer[d] = g
                 PROVE  /\ callId[g] = d /\ Owning(g)'
                        /\ pc'[g] \in Answered /\ bye[g] = "no" => calls'[d] = g
      BY <1>0 DEF Owned
    <2>1. /\ callId[g] = d /\ Owning(g)
          /\ pc[g] \in Answered /\ bye[g] = "no" => calls[d] = g
      BY DEF Ownership, Owned
    <2>2. CASE g = h
      BY <1>0, <1>1, <2>1, <2>2
    <2>3. CASE g # h /\ d = callId[h]
      <3>1. pc[h] \in Middle /\ callId[h] \notin stray
        BY <1>0, <2>3 DEF Middle
      <3>2. peer[callId[h]] \in {h, NoHandler}
        BY <3>1 DEF Ownership, Building
      <3> QED
        BY <2>3, <3>2
    <2>4. CASE g # h /\ d # callId[h]
      BY <1>0, <1>2, <2>1, <2>4
    <2> QED
      BY <2>2, <2>3, <2>4
  <1>8. Building'
    BY <1>0 DEF Ownership, Building, Middle
  <1> QED
    BY <1>3, <1>4, <1>6, <1>7, <1>8 DEF Ownership

\* A hang-up unregisters one call, which goes on owning its peer.
LEMMA HangupOwners ==
  ASSUME TypeOK, Ownership, NEW c \in CallIds, Hangup(c)
  PROVE  Ownership'
  <1> USE SipCallAssumption
  <1>1. UNCHANGED <<pc, callId, deletes, peer, branched, taken, stray>>
    BY DEF Hangup, worker
  <1>2. CASE calls[c] = NoHandler
    BY <1>1, <1>2, OwnersStay DEF Hangup
  <1>3. CASE calls[c] # NoHandler
    <2>1. PICK h \in Handlers : h = calls[c]
      BY <1>3 DEF TypeOK
    <2>2. callId[h] = c /\ pc[h] \in Answered /\ bye[h] = "no"
      BY <2>1 DEF Ownership, Registered
    <2>3. /\ bye'[h] = "close" /\ \A g \in Handlers \ {h} : bye'[g] = bye[g]
          /\ calls'[c] = NoHandler /\ \A d \in CallIds \ {c} : calls'[d] = calls[d]
      BY <1>3, <2>1 DEF Hangup, TypeOK
    <2>4. \A g \in Handlers : Owning(g)' <=> Owning(g)
      BY <1>1, <2>2, <2>3 DEF Owning
    <2>5. Registered'
      <3> SUFFICES ASSUME NEW d \in CallIds, calls'[d] # NoHandler
                   PROVE  callId[calls'[d]] = d /\ pc[calls'[d]] \in Answered /\ bye'[calls'[d]] = "no"
        BY <1>1 DEF Registered
      <3>1. d # c /\ calls'[d] = calls[d] /\ calls[d] \in Handlers
        BY <2>3 DEF TypeOK
      <3>2. callId[calls[d]] = d /\ pc[calls[d]] \in Answered /\ bye[calls[d]] = "no"
        BY <3>1 DEF Ownership, Registered
      <3> QED
        BY <2>2, <2>3, <3>1, <3>2
    <2>6. HungUp' /\ Deleting'
      BY <1>1, <2>2, <2>3 DEF Ownership, HungUp, Deleting, TypeOK
    <2>7. ASSUME NEW g \in Handlers, NEW d \in CallIds, bye'[g] = "no",
                 bye[g] = "no" => calls[d] = g
          PROVE  calls'[d] = g
      BY <2>1, <2>3, <2>7
    <2>8. Owners'
      BY <1>1, <2>3, <2>4, <2>7 DEF Ownership, Owners, TypeOK
    <2>9. Owned'
      <3> SUFFICES ASSUME NEW d \in CallIds \ stray, NEW g \in Handlers, peer[d] = g
                   PROVE  /\ callId[g] = d /\ Owning(g)'
                          /\ pc[g] \in Answered /\ bye'[g] = "no" => calls'[d] = g
        BY <1>1 DEF Owned
      <3>1. /\ callId[g] = d /\ Owning(g)
            /\ pc[g] \in Answered /\ bye[g] = "no" => calls[d] = g
        BY DEF Ownership, Owned
      <3> QED
        BY <2>4, <2>7, <3>1
    <2>10. Building'
      BY <1>1 DEF Ownership, Building
    <2> QED
      BY <2>5, <2>6, <2>8, <2>9, <2>10 DEF Ownership
  <1> QED
    BY <1>2, <1>3

\* The steps of cleanup hand the peer on until DELETE is sent.
LEMMA CleanupOwners ==
  ASSUME TypeOK, Ownership, NEW h \in Handlers, Cleanup(h)
  PROVE  Ownership'
  <1> USE SipCallAssumption
  <1>0. /\ UNCHANGED <<pc, callId, calls, peer, branched, taken, stray>>
        /\ \A g \in Handlers \ {h} : bye'[g] = bye[g] /\ (g \in deletes' <=> g \in deletes)
        /\ deletes' \subseteq deletes \cup {h} /\ deletes \subseteq deletes'
        /\ \/ bye[h] = "close" /\ bye'[h] = "delete" /\ deletes' = deletes
           \/ bye[h] = "delete" /\ bye'[h] = "release" /\ h \in deletes'
           \/ bye[h] = "release" /\ bye'[h] = "done" /\ deletes' = deletes
    BY DEF Cleanup, CloseCall, SendDelete, Release, TypeOK, worker, history
  <1>1. pc[h] \in Answered
    BY <1>0 DEF Ownership, HungUp
  <1>2. \A g \in Handlers : Owning(g)' <=> Owning(g)
    BY <1>0, <1>1 DEF Owning, Middle, Answered
  <1>3. Registered'
    BY <1>0 DEF Ownership, Registered, TypeOK
  <1>4. HungUp' /\ Deleting'
    BY <1>0, <1>1 DEF Ownership, HungUp, Deleting, TypeOK
  <1>5. Owners'
    BY <1>0, <1>2 DEF Ownership, Owners
  <1>6. Owned'
    BY <1>0, <1>2 DEF Ownership, Owned
  <1>7. Building'
    BY <1>0 DEF Ownership, Building
  <1> QED
    BY <1>3, <1>4, <1>5, <1>6, <1>7 DEF Ownership

-----------------------------------------------------------------------------
(* Every step                                                              *)

Places == Setup \cup {"free", "refused", "up"}

\* The steps of onInvite keep the types of where it stands and what it has.
LEMMA InviteTyped ==
  ASSUME TypeOK, NEW h \in Handlers, NEW p \in Places, Goto(h, p)
  PROVE  pc' \in [Handlers -> Places] /\ pc'[h] = p /\ \A g \in Handlers \ {h} : pc'[g] = pc[g]
  BY DEF TypeOK, Goto, Places

\* What is left of the types when the worker has no part in a step of onInvite.
LEMMA RestTyped ==
  ASSUME TypeOK, pc' \in [Handlers -> Places], media' \in [Handlers -> SUBSET Media],
         open' \subseteq Sockets, calls' \in [CallIds -> Handlers \cup {NoHandler}],
         loops' \subseteq Loops, active' \subseteq CallIds, stray' \subseteq CallIds,
         UNCHANGED <<callId, stopped, bye, deletes, peer, branched, learned, taken, early>>,
         posts' \subseteq Handlers
  PROVE  TypeOK'
  BY DEF TypeOK, Places

\* A step that puts no INVITE into its set-up leaves one there.
LEMMA SetupsLeft ==
  ASSUME OneSetup, UNCHANGED callId, \A g \in Handlers : pc'[g] \in Setup => pc[g] \in Setup
  PROVE  OneSetup'
  BY DEF OneSetup

\* The first part of onInvite, before the worker has made a peer.
LEMMA EarlyInv ==
  ASSUME Inv, NEW h \in Handlers,
         OpenAudio(h) \/ OpenVideo(h) \/ Post(h) \/ PostTimesOut(h)
           \/ \E offer \in Offers : Invite(h, offer)
  PROVE  Inv'
  <1> USE SipCallAssumption
  <1>0. TypeOK /\ NoSockets /\ Ownership /\ OneSetup
    BY DEF Inv, Ownership
  <1>1. /\ pc[h] \in {"free", "audio", "video", "post", "posted"}
        /\ \E p \in {"audio", "video", "post", "posted", "refused"} : Goto(h, p)
        /\ UNCHANGED <<callId, calls, loops, active, stopped, bye, deletes, peer, branched, learned, history>>
    BY DEF OpenAudio, OpenVideo, Post, PostTimesOut, Invite, GiveUp, At, worker
  <1>2. PICK p \in {"audio", "video", "post", "posted", "refused"} : Goto(h, p)
    BY <1>1
  <1>3. pc' \in [Handlers -> Places] /\ pc'[h] = p /\ \A g \in Handlers \ {h} : pc'[g] = pc[g]
    BY <1>0, <1>2, InviteTyped DEF Places, Setup, Unregistered
  <1>4. Ownership'
    BY <1>0, <1>1, <1>2, <1>3, OwnersStay DEF Middle, Answered, history
  <1>5. bye[h] = "no" /\ \A g \in Handlers : bye'[g] = bye[g]
    BY <1>0, <1>1 DEF Ownership, HungUp, Answered
  <1>6. NoSockets' /\ open' \subseteq Sockets
    <2>1. CASE open' = open \cup {<<h, "fs", "audio">>} /\ p # "refused" /\ p # "audio"
      BY <1>0, <1>3, <1>5, <2>1, SocketOpened DEF Media
    <2>2. CASE open' = open \cup {<<h, "fs", "video">>} /\ p # "refused" /\ p # "audio"
      BY <1>0, <1>3, <1>5, <2>2, SocketOpened DEF Media
    <2>3. CASE open' = open /\ (pc[h] \in {"free", "audio"} \/ p \notin {"audio", "refused"})
      BY <1>0, <1>2, <1>3, <1>5, <2>3, SocketsLeft
    <2>4. CASE open' = open \ SocketsOf(h)
      BY <1>0, <1>3, <1>5, <2>4, SocketsClosed
    <2>5. \/ open' = open \cup {<<h, "fs", "audio">>} /\ pc'[h] \in {"video", "post"}
          \/ open' = open \cup {<<h, "fs", "video">>} /\ pc'[h] = "post"
          \/ open' = open /\ (pc[h] \in {"free", "audio"} \/ pc'[h] \in {"post", "posted"})
          \/ open' = open \ SocketsOf(h)
      BY <1>0 DEF OpenAudio, OpenVideo, Post, PostTimesOut, Invite, GiveUp, At, Goto, TypeOK
    <2> QED
      BY <1>3, <2>1, <2>2, <2>3, <2>4, <2>5
  <1>7. media' \in [Handlers -> SUBSET Media] /\ posts' \subseteq Handlers
    BY <1>0 DEF OpenAudio, OpenVideo, Post, PostTimesOut, Invite, TypeOK, Media, Offers, worker
  <1>8. TypeOK'
    BY <1>0, <1>1, <1>3, <1>6, <1>7, RestTyped DEF TypeOK, history
  <1>9. OneSetup'
    <2>1. CASE \E offer \in Offers : Invite(h, offer)
      BY <1>0, <1>1, <1>3, <2>1 DEF OneSetup, Invite
    <2>2. CASE pc[h] # "free"
      BY <1>0, <1>1, <1>3, <2>2, SetupsLeft DEF Setup, Unregistered
    <2> QED
      BY <2>1, <2>2 DEF OpenAudio, OpenVideo, Post, PostTimesOut, At
  <1> QED
    BY <1>4, <1>6, <1>8, <1>9 DEF Inv, Ownership

\* The rest of it.
LEMMA LateInv ==
  ASSUME Inv, NEW h \in Handlers,
         OpenWorkerAudio(h) \/ OpenWorkerVideo(h) \/ Register(h) \/ Accept(h) \/ Answer(h)
  PROVE  Inv'
  <1> USE SipCallAssumption
  <1>0. TypeOK /\ NoSockets /\ Ownership /\ OneSetup
    BY DEF Inv, Ownership
  <1>1. /\ pc[h] \in {"mw audio", "mw video", "register", "accept", "answer"}
        /\ \E p \in {"mw video", "register", "accept", "answer", "up", "refused"} : Goto(h, p)
        /\ UNCHANGED <<callId, stopped, bye, posts, deletes, peer, branched, learned, taken, early>>
    BY DEF OpenWorkerAudio, OpenWorkerVideo, Register, Accept, Answer, GiveUp, At, worker, history
  <1>2. PICK p \in {"mw video", "register", "accept", "answer", "up", "refused"} : Goto(h, p)
    BY <1>1
  <1>3. pc' \in [Handlers -> Places] /\ pc'[h] = p /\ \A g \in Handlers \ {h} : pc'[g] = pc[g]
    BY <1>0, <1>2, InviteTyped DEF Places, Setup, Unregistered
  <1>4. Ownership'
    <2>1. CASE Register(h)
      BY <1>0, <2>1, RegisterOwners
    <2>2. CASE p = "refused"
      <3>1. /\ Stray(callId[h]) /\ callId[h] \in CallIds /\ calls' = calls /\ pc[h] = "mw audio"
            /\ pc'[h] = "refused"
        BY <1>0, <1>3, <2>2 DEF OpenWorkerAudio, OpenWorkerVideo, Register, Accept, Answer, GiveUp, TypeOK,
           At, Goto
      <3>2. \A g \in Handlers : /\ callId[g] # callId[h] => pc'[g] = pc[g]
                                /\ pc'[g] \in Middle => pc[g] \in Middle
                                /\ pc'[g] \in Answered <=> pc[g] \in Answered
        BY <1>3, <3>1 DEF Answered, Middle
      <3> QED
        BY <1>0, <1>1, <3>1, <3>2, OwnersLeave
    <2>3. CASE ~Register(h) /\ p # "refused"
      <3>1. /\ stray' = stray /\ calls' = calls
            /\ \/ pc[h] \in Middle /\ pc'[h] \in Middle
               \/ pc[h] \in Answered /\ pc'[h] \in Answered
        BY <1>0, <1>3, <2>3 DEF OpenWorkerAudio, OpenWorkerVideo, Accept, Answer, GiveUp, At, Goto, TypeOK,
           history, Middle, Answered
      <3>2. \A g \in Handlers : /\ pc'[g] \in Middle <=> pc[g] \in Middle
                                /\ pc'[g] \in Answered <=> pc[g] \in Answered
        BY <1>3, <3>1 DEF Middle, Answered
      <3> QED
        BY <1>0, <1>1, <3>1, <3>2, OwnersStay
    <2> QED
      BY <2>1, <2>2, <2>3
  <1>5. pc[h] \in {"mw audio", "mw video", "register"} => bye'[h] = "no"
    BY <1>0, <1>1 DEF Ownership, HungUp, Answered
  <1>6. NoSockets' /\ open' \subseteq Sockets
    <2>1. CASE pc[h] \in {"mw audio", "mw video"} /\ p # "refused"
               /\ \E m \in Media : open' = open \cup {<<h, "mw", m>>}
      BY <1>0, <1>1, <1>3, <1>5, <2>1, SocketOpened
    <2>2. CASE open' \subseteq open /\ p # "refused"
      BY <1>0, <1>1, <1>3, <2>2, SocketsLeft
    <2>3. CASE open' = open \ SocketsOf(h)
      BY <1>0, <1>1, <1>3, <2>3, SocketsClosed
    <2>4. \/ /\ pc[h] \in {"mw audio", "mw video"} /\ pc'[h] # "refused"
             /\ \E m \in Media : open' = open \cup {<<h, "mw", m>>}
          \/ open' \subseteq open /\ pc'[h] # "refused"
          \/ open' = open \ SocketsOf(h)
      BY <1>0 DEF OpenWorkerAudio, OpenWorkerVideo, Register, Accept, Answer, GiveUp, At, Goto, TypeOK,
         Media
    <2> QED
      BY <1>3, <2>1, <2>2, <2>3, <2>4
  <1>7. media' \in [Handlers -> SUBSET Media] /\ active' \subseteq CallIds /\ stray' \subseteq CallIds
        /\ calls' \in [CallIds -> Handlers \cup {NoHandler}]
    <2>0. callId[h] \in CallIds
      BY <1>0 DEF TypeOK
    <2>1. \/ media' = media
          \/ media' = [media EXCEPT ![h] = {"audio"}]
      BY DEF OpenWorkerAudio, OpenWorkerVideo, Register, Accept, Answer
    <2>2. active' = active \/ active' = active \cup {callId[h]}
      BY DEF OpenWorkerAudio, OpenWorkerVideo, Register, Accept, Answer
    <2>3. stray' = stray \/ stray' = stray \cup {callId[h]}
      BY DEF OpenWorkerAudio, OpenWorkerVideo, Register, Accept, Answer, Stray, history
    <2>4. calls' = calls \/ calls' = [calls EXCEPT ![callId[h]] = h]
      BY DEF OpenWorkerAudio, OpenWorkerVideo, Register, Accept, Answer
    <2>5. media' \in [Handlers -> SUBSET Media]
      <3>1. {"audio"} \in SUBSET Media /\ media \in [Handlers -> SUBSET Media]
        BY <1>0 DEF TypeOK, Media
      <3>2. CASE media' = [media EXCEPT ![h] = {"audio"}]
        BY <3>1, <3>2
      <3> QED
        BY <2>1, <3>1, <3>2
    <2>6. active' \subseteq CallIds /\ stray' \subseteq CallIds
      BY <1>0, <2>0, <2>2, <2>3 DEF TypeOK
    <2>7. calls' \in [CallIds -> Handlers \cup {NoHandler}]
      BY <1>0, <2>4 DEF TypeOK
    <2> QED
      BY <2>5, <2>6, <2>7
  <1>8. loops' \subseteq Loops
    <2>1. loops' = loops \/ loops' = loops \cup ({h} \X {"in", "out", "bind"} \X media[h])
      BY DEF OpenWorkerAudio, OpenWorkerVideo, Register, Accept, Answer
    <2>2. media[h] \subseteq Media /\ loops \subseteq Loops
      BY <1>0 DEF TypeOK
    <2>3. ({h} \X {"in", "out", "bind"} \X media[h]) \subseteq Loops
      BY <2>2 DEF Loops
    <2> QED
      BY <2>1, <2>2, <2>3
  <1>9. TypeOK'
    BY <1>0, <1>1, <1>3, <1>6, <1>7, <1>8, RestTyped DEF TypeOK
  <1>10. OneSetup'
    BY <1>0, <1>1, <1>3, SetupsLeft DEF Setup, Unregistered
  <1> QED
    BY <1>4, <1>6, <1>9, <1>10 DEF Inv, Ownership

\* The worker's handlers.
LEMMA WorkerInv ==
  ASSUME Inv, NEW h \in Handlers, AtWorker(h)
  PROVE  Inv'
  <1> USE SipCallAssumption
  <1>0. TypeOK /\ NoSockets /\ Ownership /\ OneSetup
    BY DEF Inv, Ownership
  <1>1. UNCHANGED <<callId, media, loops, stopped, calls, active, bye, taken, early>>
    BY DEF AtWorker, PeerCreated, PeerRefused, PeerDeleted, gateway, history
  <1>2. /\ pc' \in [Handlers -> Places] /\ \A g \in Handlers \ {h} : pc'[g] = pc[g]
        /\ \/ pc'[h] = pc[h]
           \/ pc[h] = "posted" /\ pc'[h] = "mw audio" /\ open' = open
           \/ pc[h] = "posted" /\ pc'[h] = "refused" /\ open' = open \ SocketsOf(h)
        /\ open' = open \/ open' = open \ SocketsOf(h)
    BY <1>0 DEF AtWorker, PeerCreated, PeerRefused, PeerDeleted, gateway, GiveUp, At, Goto, TypeOK, Places, Setup,
       Unregistered
  <1>3. Ownership'
    <2>1. CASE PeerCreated(h)
      BY <1>0, <2>1, CreatedOwners
    <2>2. CASE PeerDeleted(h)
      BY <1>0, <2>2, DeletedOwners
    <2>3. CASE PeerRefused(h)
      <3>1. pc'[h] # "mw audio" \/ pc'[h] = pc[h]
        BY <1>0, <2>3 DEF PeerRefused, GiveUp, Goto, TypeOK
      <3>2. UNCHANGED <<deletes, peer, branched, taken, stray>>
        BY <2>3 DEF PeerRefused, history
      <3>3. \A g \in Handlers : /\ pc'[g] \in Middle <=> pc[g] \in Middle
                                /\ pc'[g] \in Answered <=> pc[g] \in Answered
        BY <1>2, <3>1 DEF Middle, Answered
      <3> QED
        BY <1>0, <1>1, <3>2, <3>3, OwnersStay
    <2> QED
      BY <2>1, <2>2, <2>3 DEF AtWorker
  <1>4. NoSockets' /\ open' \subseteq Sockets
    <2>1. CASE open' = open \ SocketsOf(h)
      BY <1>0, <1>1, <1>2, <2>1, SocketsClosed
    <2>2. CASE open' = open /\ pc'[h] \in {pc[h], "mw audio"}
      BY <1>0, <1>1, <1>2, <2>2, SocketsLeft
    <2> QED
      BY <1>2, <2>1, <2>2
  <1>5. /\ posts' \subseteq Handlers /\ deletes' \subseteq Handlers
        /\ peer' \in [CallIds -> Handlers \cup {NoHandler}]
        /\ stray' \subseteq CallIds /\ branched' \subseteq CallIds
    <2>0. callId[h] \in CallIds
      BY <1>0 DEF TypeOK
    <2>1. posts' \subseteq posts /\ deletes' \subseteq deletes
      BY DEF AtWorker, PeerCreated, PeerRefused, PeerDeleted
    <2>2. \E x \in {h, NoHandler} : peer' = peer \/ peer' = [peer EXCEPT ![callId[h]] = x]
      BY DEF AtWorker, PeerCreated, PeerRefused, PeerDeleted, PeerGone
    <2>3. /\ stray' = stray \/ stray' = stray \cup {callId[h]}
          /\ branched' \subseteq branched \cup {callId[h]}
      BY DEF AtWorker, PeerCreated, PeerRefused, PeerDeleted, PeerGone, Stray, history
    <2>4. peer' \in [CallIds -> Handlers \cup {NoHandler}]
      BY <1>0, <2>2 DEF TypeOK
    <2> QED
      BY <1>0, <2>0, <2>1, <2>3, <2>4 DEF TypeOK
  <1>6. learned' \subseteq CallIds \X Media
    <2>1. learned' \subseteq learned
      BY DEF AtWorker, PeerCreated, PeerRefused, PeerDeleted, PeerGone
    <2> QED
      BY <1>0, <2>1 DEF TypeOK
  <1>7. TypeOK'
    BY <1>0, <1>1, <1>2, <1>4, <1>5, <1>6 DEF TypeOK, Places
  <1>8. OneSetup'
    BY <1>0, <1>1, <1>2, SetupsLeft DEF Setup, Unregistered
  <1> QED
    BY <1>3, <1>4, <1>7, <1>8 DEF Inv, Ownership

\* cleanup.
LEMMA CleanupInv ==
  ASSUME Inv, NEW h \in Handlers, Cleanup(h)
  PROVE  Inv'
  <1> USE SipCallAssumption
  <1>0. TypeOK /\ NoSockets /\ Ownership /\ OneSetup
    BY DEF Inv, Ownership
  <1>1. Ownership'
    BY <1>0, CleanupOwners
  <1>2. /\ UNCHANGED <<pc, callId, media, loops, calls, posts, peer, branched, learned, taken, stray, early>>
        /\ \A g \in Handlers \ {h} : bye'[g] = bye[g]
        /\ open' = open \ SocketsOf(h) \/ (open' = open /\ bye[h] \notin {"no", "close"})
        /\ bye' \in [Handlers -> {"no", "close", "delete", "release", "done"}]
        /\ stopped' \subseteq Handlers /\ deletes' \subseteq Handlers /\ active' \subseteq CallIds
    BY <1>0 DEF Cleanup, CloseCall, SendDelete, Release, TypeOK, worker, history
  <1>3. NoSockets' /\ open' \subseteq Sockets
    BY <1>0, <1>2, SocketsClosed, SocketsLeft
  <1>4. TypeOK'
    BY <1>0, <1>2, <1>3 DEF TypeOK
  <1>5. OneSetup'
    BY <1>0, <1>2, SetupsLeft
  <1> QED
    BY <1>1, <1>3, <1>4, <1>5 DEF Inv, Ownership

\* BYE and CANCEL.
LEMMA HangupInv ==
  ASSUME Inv, NEW c \in CallIds, Hangup(c)
  PROVE  Inv'
  <1> USE SipCallAssumption
  <1>0. TypeOK /\ NoSockets /\ Ownership /\ OneSetup
    BY DEF Inv, Ownership
  <1>1. Ownership'
    BY <1>0, HangupOwners
  <1>2. /\ UNCHANGED <<pc, callId, media, open, loops, stopped, active, worker, taken, stray>>
        /\ early' \subseteq Handlers
        /\ bye' \in [Handlers -> {"no", "close", "delete", "release", "done"}]
        /\ \A g \in Handlers : bye'[g] \in {bye[g], "close"}
        /\ calls' \in [CallIds -> Handlers \cup {NoHandler}]
    BY <1>0 DEF Hangup, HungUpEarly, TypeOK
  <1>3. NoSockets' /\ open' \subseteq Sockets
    BY <1>0, <1>2, SocketsLeft
  <1>4. TypeOK'
    BY <1>0, <1>2 DEF TypeOK, worker
  <1>5. OneSetup'
    BY <1>0, <1>2, SetupsLeft
  <1> QED
    BY <1>1, <1>3, <1>4, <1>5 DEF Inv, Ownership

\* Packets, goroutines that end, kicks, and the loss of a room.
LEMMA OtherInv ==
  ASSUME Inv,
         \/ \E h \in Handlers, m \in Media : RelayIn(h, m) \/ Bind(h, m)
         \/ \E h \in Handlers : LoopsEnd(h)
         \/ \E c \in CallIds : RoomDestroyed(c) \/ Kick(c)
  PROVE  Inv'
  <1> USE SipCallAssumption
  <1>0. TypeOK /\ NoSockets /\ Ownership /\ OneSetup
    BY DEF Inv, Ownership
  <1>1. /\ UNCHANGED <<pc, callId, media, open, stopped, calls, active, bye, posts, deletes, stray, early>>
        /\ loops' \subseteq loops /\ branched' \subseteq branched
        /\ taken' \subseteq taken \cup CallIds
    BY DEF RelayIn, Bind, Teach, LoopsEnd, RoomDestroyed, PeerGone, Kick, gateway, worker, history
  <1>2. Ownership'
    <2>1. CASE \E c \in CallIds : RoomDestroyed(c) \/ Kick(c)
      BY <1>0, <2>1, TakenOwners
    <2>2. CASE UNCHANGED <<peer, branched, taken>>
      BY <1>0, <1>1, <2>2, OwnersStay
    <2> QED
      BY <2>1, <2>2 DEF RelayIn, Bind, Teach, LoopsEnd, worker, history
  <1>3. NoSockets'
    BY <1>0, <1>1, SocketsLeft
  <1>4. learned' \subseteq CallIds \X Media
    <2>1. \/ learned' \subseteq learned
          \/ \E h \in Handlers, m \in Media : learned' = learned \cup {<<callId[h], m>>}
      BY DEF RelayIn, Bind, Teach, LoopsEnd, RoomDestroyed, PeerGone, Kick, worker
    <2>2. ASSUME NEW h \in Handlers, NEW m \in Media PROVE <<callId[h], m>> \in CallIds \X Media
      BY <1>0 DEF TypeOK
    <2> QED
      BY <1>0, <2>1, <2>2 DEF TypeOK
  <1>5. peer' \in [CallIds -> Handlers \cup {NoHandler}]
    BY <1>0 DEF RelayIn, Bind, Teach, LoopsEnd, RoomDestroyed, PeerGone, Kick, worker, TypeOK
  <1>6. TypeOK'
    BY <1>0, <1>1, <1>4, <1>5 DEF TypeOK
  <1>7. OneSetup'
    BY <1>0, <1>1, SetupsLeft
  <1> QED
    BY <1>2, <1>3, <1>6, <1>7 DEF Inv, Ownership

\* The invariant is inductive.
LEMMA NextInv == Inv /\ [Next]_vars => Inv'
  <1> SUFFICES ASSUME Inv, [Next]_vars PROVE Inv'
    OBVIOUS
  <1>1. CASE UNCHANGED vars
    BY <1>1 DEF vars, gateway, worker, history, Inv, TypeOK, Registered, HungUp, Deleting, NoSockets,
       Owners, Owned, Owning, Building, OneSetup
  <1>2. ASSUME NEW h \in Handlers, Work(h) PROVE Inv'
    BY <1>2, EarlyInv, LateInv, CleanupInv, WorkerInv, OtherInv DEF Work, OnInvite
  <1>3. ASSUME NEW h \in Handlers, NEW offer \in Offers, Invite(h, offer) PROVE Inv'
    BY <1>3, EarlyInv
  <1>4. ASSUME NEW h \in Handlers, NEW m \in Media, RelayIn(h, m) \/ Bind(h, m) PROVE Inv'
    BY <1>4, OtherInv
  <1>5. ASSUME NEW c \in CallIds, Hangup(c) \/ RoomDestroyed(c) \/ Kick(c) PROVE Inv'
    BY <1>5, HangupInv, OtherInv
  <1> QED
    BY <1>1, <1>2, <1>3, <1>4, <1>5 DEF Next

\* It holds throughout.
LEMMA Invariance == Spec => []Inv
  <1>1. Inv /\ [Next]_vars => Inv'
    BY NextInv
  <1> QED
    BY <1>1, InitInv, PTL DEF Spec

\* The variables of gateway and worker keep their types.
THEOREM TypeCorrect == Spec => []TypeOK
  <1>1. Inv => TypeOK
    BY DEF Inv
  <1> QED
    BY <1>1, Invariance, PTL

\* However many INVITEs a call sees and whatever fails, no path of onInvite and no
\* hang-up loses track of a socket (server.go:199, :299), with two exceptions: the
\* INVITE was cancelled before it was registered, or the operator or a lost room took
\* the peer of the Call-ID.
THEOREM SocketsAreOwned == Spec => []SocketsOwned
  <1>1. Inv => SocketsOwned
    <2> SUFFICES ASSUME Inv, NEW s \in open
                 PROVE  \/ pc[s[1]] \in Setup \/ Reached(s[1]) \/ bye[s[1]] = "close"
                        \/ s[1] \in early \/ callId[s[1]] \in taken
      BY DEF SocketsOwned
    <2>1. s[1] \in Handlers /\ pc[s[1]] \in Setup \cup {"up"} /\ bye[s[1]] \in {"no", "close"}
      BY SocketOwner DEF Inv, NoSockets, TypeOK
    <2> QED
      BY <2>1 DEF Inv, Owners, Owning, Answered, Reached
  <1> QED
    BY <1>1, Invariance, PTL

\* Whoever is in the conference by telephone has a call that will take him out of it
\* (server.go:320), kicked or not, except after a POST that ended late, a failure
\* after it or of DELETE, or a CANCEL before the call was registered.
THEOREM PeersAreOwned == Spec => []NoOrphanPeer
  <1>1. Inv => NoOrphanPeer
    <2> SUFFICES ASSUME Inv, NEW c \in CallIds \ stray, NEW h \in Handlers, peer[c] = h
                 PROVE  \/ pc[h] \in {"mw audio", "mw video", "register"} \/ Reached(h)
                        \/ bye[h] \in {"close", "delete"} \/ h \in deletes
                        \/ h \in early
      BY DEF NoOrphanPeer, Inv, TypeOK
    <2>1. /\ callId[h] = c /\ Owning(h)
          /\ pc[h] \in Answered /\ bye[h] = "no" => calls[c] = h
      BY DEF Inv, Owned
    <2> QED
      BY <2>1 DEF Inv, Owning, Middle, Reached
  <1> QED
    BY <1>1, Invariance, PTL

\* Until the operator kicks the telephone or its room is lost, a call that was
\* answered and not hung up is the one its BYE finds, and has its peer and its branch
\* in the worker.
THEOREM AnsweredStaysConnected == Spec => []AnsweredIsConnected
  <1>1. Inv => AnsweredIsConnected
    BY DEF Inv, Owners, Owning, Answered, At, AnsweredIsConnected
  <1> QED
    BY <1>1, Invariance, PTL

\* The stop channel of a call is closed once (server.go:307).
THEOREM StopIsClosedOnce == Spec => ClosedOnce
  <1>1. Inv /\ [Next]_vars => [\A h \in Handlers : bye'[h] = "close" => bye[h] \in {"no", "close"}]_vars
    <2> SUFFICES ASSUME Inv, Next, NEW h \in Handlers, bye'[h] = "close" PROVE bye[h] \in {"no", "close"}
      OBVIOUS
    <2>1. ASSUME NEW c \in CallIds, Hangup(c) PROVE bye[h] \in {"no", "close"}
      <3>1. CASE calls[c] = NoHandler
        BY <2>1, <3>1 DEF Hangup
      <3>2. CASE calls[c] # NoHandler
        <4>1. calls[c] \in Handlers /\ bye[calls[c]] = "no"
          BY <3>2 DEF Inv, Registered, TypeOK
        <4> QED
          BY <2>1, <3>2, <4>1 DEF Hangup, Inv, TypeOK
      <3> QED
        BY <3>1, <3>2
    <2>2. ASSUME NEW g \in Handlers, Cleanup(g) PROVE bye[h] \in {"no", "close"}
      BY <2>2 DEF Cleanup, CloseCall, SendDelete, Release, Inv, TypeOK
    <2>3. CASE bye' = bye
      BY <2>3
    <2>4. bye' = bye \/ (\E c \in CallIds : Hangup(c)) \/ \E g \in Handlers : Cleanup(g)
      <3>1. ASSUME NEW g \in Handlers, OnInvite(g) \/ AtWorker(g) \/ LoopsEnd(g) PROVE bye' = bye
        BY <3>1 DEF OnInvite, OpenAudio, OpenVideo, Post, PostTimesOut, OpenWorkerAudio, OpenWorkerVideo,
           Register, Accept, Answer, AtWorker, PeerCreated, PeerRefused, PeerDeleted, LoopsEnd, gateway
      <3>2. ASSUME NEW g \in Handlers, NEW offer \in Offers, Invite(g, offer) PROVE bye' = bye
        BY <3>2 DEF Invite
      <3>3. ASSUME NEW g \in Handlers, NEW m \in Media, RelayIn(g, m) \/ Bind(g, m) PROVE bye' = bye
        BY <3>3 DEF RelayIn, Bind, Teach, gateway
      <3>4. ASSUME NEW c \in CallIds, RoomDestroyed(c) \/ Kick(c) PROVE bye' = bye
        BY <3>4 DEF RoomDestroyed, Kick, gateway
      <3> QED
        BY <3>1, <3>2, <3>3, <3>4 DEF Next, Work
    <2> QED
      BY <2>1, <2>2, <2>3, <2>4
  <1> QED
    BY <1>1, Invariance, PTL DEF Spec, ClosedOnce

=============================================================================
