------------------------------- MODULE SipCall -------------------------------
(***************************************************************************)
(* SIP calls in sip-gateway (sipsrv/server.go) and their plain-RTP peers   *)
(* in the media worker (sipbridge/peer.go, the sip-peers handlers): which  *)
(* sockets, goroutines and worker peers a call has, from INVITE to BYE.    *)
(*                                                                         *)
(* sipgo runs every request in a goroutine of its own.  A step is one      *)
(* socket opened, one HTTP request to the worker, one use of Server.mu or  *)
(* of the bridge's lock.  An INVITE has a Handler, which is also the name  *)
(* of the *Call it builds; a Call-ID may see several INVITEs (a retry      *)
(* after an error, a re-INVITE), one after the other.                      *)
(*                                                                         *)
(* The operator may kick a participant: the worker then runs RemovePeer,   *)
(* which takes the branch of the id out of the pipeline and leaves its SIP *)
(* peer.  That is MCU mode; in SFU mode the branch stays, and with it a    *)
(* second POST of the id is refused as if nobody had been kicked.          *)
(*                                                                         *)
(* Left out: the text of SDP and headers, the terminal's own address       *)
(* (FSRemote), ACK, which changes nothing, and what media packets carry.   *)
(*                                                                         *)
(* A definition whose name ends in _bug is a slip the code does not have:  *)
(* no action uses it; it shows that a property can fail.                   *)
(***************************************************************************)
EXTENDS FiniteSets

CONSTANTS
  CallIds,    \* Call-IDs, which are also the peer ids in the worker
  Handlers,   \* goroutines of onInvite
  NoHandler,
  Faults,     \* sockets cannot be opened, DELETE requests fail
  Timeouts,   \* POST may exceed the 5 s of the HTTP client
  Forgets,    \* the worker's room is destroyed under the call
  Kicks       \* the operator kicks telephones

ASSUME SipCallAssumption ==
  /\ NoHandler \notin Handlers
  /\ Faults \in BOOLEAN /\ Timeouts \in BOOLEAN /\ Forgets \in BOOLEAN
  /\ Kicks \in BOOLEAN

Media == {"audio", "video"}
Sockets == Handlers \X {"fs", "mw"} \X Media     \* FSConn, MWConn, FSVideoConn, MWVideoConn
Loops == Handlers \X {"in", "out", "bind"} \X Media  \* relay and natBind goroutines

VARIABLES
  pc,       \* where onInvite stands
  callId,   \* the Call-ID of the INVITE
  media,    \* what the call has: audio, and video while nothing disabled it
  open,     \* UDP sockets that are open
  loops,    \* relay and natBind goroutines that run
  stopped,  \* calls whose stop channel is closed
  calls,    \* Server.calls
  active,   \* keys of Bridge.calls
  bye,      \* where cleanup of a call stands
  posts,    \* POST requests the worker is working on
  deletes,  \* DELETE requests on their way
  peer,     \* the worker's SIP peers, each by the INVITE that made it
  branched, \* Call-IDs with a branch in the pipeline
  learned,  \* media for which the worker's peer knows where to send
  \* History, which no step reads:
  taken,    \* Call-IDs whose peer the operator kicked or a lost room took along
  stray,    \* Call-IDs of a peer made after the gateway gave up, or not deleted
  early     \* INVITEs hung up before they were registered

gateway == <<pc, callId, media, open, loops, stopped, calls, active, bye>>
worker == <<posts, deletes, peer, branched, learned>>
history == <<taken, stray, early>>
vars == <<gateway, worker, history>>

Init ==
  /\ pc = [h \in Handlers |-> "free"]
  /\ callId \in [Handlers -> CallIds]
  /\ media = [h \in Handlers |-> {}]
  /\ open = {} /\ loops = {} /\ stopped = {}
  /\ calls = [c \in CallIds |-> NoHandler]
  /\ active = {}
  /\ bye = [h \in Handlers |-> "no"]
  /\ posts = {} /\ deletes = {}
  /\ peer = [c \in CallIds |-> NoHandler]
  /\ branched = {} /\ learned = {}
  /\ taken = {} /\ stray = {} /\ early = {}

At(h, place) == pc[h] = place
Goto(h, place) == pc' = [pc EXCEPT ![h] = place]
SocketsOf(h) == {s \in open : s[1] = h}
Stray(c) == stray' = stray \cup {c}

\* onInvite has not answered yet.
Unregistered == {"audio", "video", "post", "posted", "mw audio", "mw video", "register"}
Setup == Unregistered \cup {"accept", "answer"}

-----------------------------------------------------------------------------
(* onInvite                                                                *)

\* The terminal waits for the answer to one INVITE before it sends another.
\* Without audio in the SDP the answer is 488.
Invite(h, offer) ==
  /\ At(h, "free")
  /\ \A g \in Handlers : callId[g] = callId[h] => pc[g] \notin Setup
  /\ media' = [media EXCEPT ![h] = offer]
  /\ Goto(h, IF "audio" \in offer THEN "audio" ELSE "refused")
  /\ UNCHANGED <<callId, open, loops, stopped, calls, active, bye, worker, history>>

\* openRTPListener; without an audio socket the answer is 500.
OpenAudio(h) ==
  /\ At(h, "audio")
  /\ \/ /\ open' = open \cup {<<h, "fs", "audio">>}
        /\ Goto(h, IF "video" \in media[h] THEN "video" ELSE "post")
     \/ Faults /\ Goto(h, "refused") /\ UNCHANGED open
  /\ UNCHANGED <<callId, media, loops, stopped, calls, active, bye, worker, history>>

\* Without a video socket the call goes on without video.
OpenVideo(h) ==
  /\ At(h, "video")
  /\ \/ open' = open \cup {<<h, "fs", "video">>} /\ UNCHANGED media
     \/ Faults /\ media' = [media EXCEPT ![h] = {"audio"}] /\ UNCHANGED open
  /\ Goto(h, "post")
  /\ UNCHANGED <<callId, loops, stopped, calls, active, bye, worker, history>>

\* createMWPeer sends POST /rooms/{room}/sip-peers ...
Post(h) ==
  /\ At(h, "post")
  /\ posts' = posts \cup {h}
  /\ Goto(h, "posted")
  /\ UNCHANGED <<callId, media, open, loops, stopped, calls, active, bye,
                 deletes, peer, branched, learned, history>>

GiveUp_bug(h) ==
  /\ open' = open \ {<<h, "fs", "audio">>}
  /\ Goto(h, "refused")

\* The error paths of onInvite: close what is open, answer 500 or 503.
GiveUp(h) ==
  /\ open' = open \ SocketsOf(h)
  /\ Goto(h, "refused")

\* ... and gives up after 5 s, whatever the worker does.
PostTimesOut(h) ==
  /\ Timeouts /\ At(h, "posted")
  /\ GiveUp(h)
  /\ UNCHANGED <<callId, media, loops, stopped, calls, active, bye, worker, history>>

\* The worker's ports are known: a socket for audio to it.  The code has no
\* DELETE on the error path, so the worker keeps the peer.
OpenWorkerAudio(h) ==
  /\ At(h, "mw audio")
  /\ \/ /\ open' = open \cup {<<h, "mw", "audio">>}
        /\ Goto(h, IF "video" \in media[h] THEN "mw video" ELSE "register")
        /\ UNCHANGED stray
     \/ Faults /\ GiveUp(h) /\ Stray(callId[h])
  /\ UNCHANGED <<callId, media, loops, stopped, calls, active, bye, worker, taken, early>>

OpenWorkerVideo(h) ==
  /\ At(h, "mw video")
  /\ \/ open' = open \cup {<<h, "mw", "video">>} /\ UNCHANGED media
     \/ /\ Faults
        /\ open' = open \ {<<h, "fs", "video">>}
        /\ media' = [media EXCEPT ![h] = {"audio"}]
  /\ Goto(h, "register")
  /\ UNCHANGED <<callId, loops, stopped, calls, active, bye, worker, history>>

\* s.calls[callID] = call, whatever was there.
Register(h) ==
  /\ At(h, "register")
  /\ calls' = [calls EXCEPT ![callId[h]] = h]
  /\ Goto(h, "accept")
  /\ UNCHANGED <<callId, media, open, loops, stopped, active, bye, worker, history>>

\* br.Accept
Accept(h) ==
  /\ At(h, "accept")
  /\ active' = active \cup {callId[h]}
  /\ Goto(h, "answer")
  /\ UNCHANGED <<callId, media, open, loops, stopped, calls, bye, worker, history>>

\* The goroutines start; 200 OK.  A failure to send it is only logged.
Answer(h) ==
  /\ At(h, "answer")
  /\ loops' = loops \cup ({h} \X {"in", "out", "bind"} \X media[h])
  /\ Goto(h, "up")
  /\ UNCHANGED <<callId, media, open, stopped, calls, active, bye, worker, history>>

-----------------------------------------------------------------------------
(* onBye and onCancel: cleanup.  CANCEL comes before the answer, BYE after  *)
(* it; when the call is not registered (yet) it finds none, and the INVITE  *)
(* goes on.                                                                 *)

HungUpEarly(c) == early' = early \cup {h \in Handlers : callId[h] = c /\ pc[h] \in Unregistered}

Hangup_bug(c) ==
  /\ calls[c] # NoHandler
  /\ bye' = [bye EXCEPT ![calls[c]] = "close"]
  /\ HungUpEarly(c)
  /\ UNCHANGED <<pc, callId, media, open, loops, stopped, calls, active, worker, taken, stray>>

Hangup(c) ==
  /\ HungUpEarly(c)
  /\ IF calls[c] = NoHandler
     THEN UNCHANGED <<calls, bye>>
     ELSE /\ calls' = [calls EXCEPT ![c] = NoHandler]
          /\ bye' = [bye EXCEPT ![calls[c]] = "close"]
  /\ UNCHANGED <<pc, callId, media, open, loops, stopped, active, worker, taken, stray>>

CloseCall_bug(h) ==
  /\ bye[h] = "close"
  /\ open' = open \ SocketsOf(h)
  /\ bye' = [bye EXCEPT ![h] = "delete"]
  /\ UNCHANGED <<pc, callId, media, loops, stopped, calls, active, worker, history>>

\* close(call.stop), then every socket.
CloseCall(h) ==
  /\ bye[h] = "close"
  /\ stopped' = stopped \cup {h}
  /\ open' = open \ SocketsOf(h)
  /\ bye' = [bye EXCEPT ![h] = "delete"]
  /\ UNCHANGED <<pc, callId, media, loops, calls, active, worker, history>>

SendDelete_bug(h) ==
  /\ bye[h] = "delete"
  /\ deletes' = IF At(h, "up") THEN deletes \cup {h} ELSE deletes
  /\ bye' = [bye EXCEPT ![h] = "release"]
  /\ UNCHANGED <<pc, callId, media, open, loops, stopped, calls, active,
                 posts, peer, branched, learned, history>>

\* A goroutine sends DELETE /rooms/{room}/sip-peers/{peer}.
SendDelete(h) ==
  /\ bye[h] = "delete"
  /\ deletes' = deletes \cup {h}
  /\ bye' = [bye EXCEPT ![h] = "release"]
  /\ UNCHANGED <<pc, callId, media, open, loops, stopped, calls, active,
                 posts, peer, branched, learned, history>>

\* br.Release
Release(h) ==
  /\ bye[h] = "release"
  /\ active' = active \ {callId[h]}
  /\ bye' = [bye EXCEPT ![h] = "done"]
  /\ UNCHANGED <<pc, callId, media, open, loops, stopped, calls, worker, history>>

-----------------------------------------------------------------------------
(* The worker                                                              *)

PeerCreated_bug(h) ==
  LET c == callId[h] IN
  /\ h \in posts
  /\ posts' = posts \ {h}
  /\ peer' = [peer EXCEPT ![c] = h] /\ branched' = branched \cup {c}
  /\ learned' = {l \in learned : l[1] # c}
  /\ IF At(h, "posted")
     THEN Goto(h, "mw audio") /\ UNCHANGED stray
     ELSE Stray(c) /\ UNCHANGED pc
  /\ UNCHANGED <<callId, media, open, loops, stopped, calls, active, bye, deletes, taken, early>>

\* addSIPPeer succeeds: the id has no branch in the pipeline and the peer gets its
\* two sockets; a peer the operator kicked is overwritten.  Nothing tells the worker
\* whether the gateway still waits.
PeerCreated(h) ==
  LET c == callId[h] IN
  /\ h \in posts
  /\ c \notin branched
  /\ posts' = posts \ {h}
  /\ peer' = [peer EXCEPT ![c] = h] /\ branched' = branched \cup {c}
  /\ learned' = {l \in learned : l[1] # c}
  /\ IF At(h, "posted")
     THEN Goto(h, "mw audio") /\ UNCHANGED stray
     ELSE Stray(c) /\ UNCHANGED pc
  /\ UNCHANGED <<callId, media, open, loops, stopped, calls, active, bye, deletes, taken, early>>

\* The id is taken, or the pipeline, a socket or the network fails.
PeerRefused(h) ==
  /\ h \in posts
  /\ callId[h] \in branched \/ Faults
  /\ posts' = posts \ {h}
  /\ IF At(h, "posted") THEN GiveUp(h) ELSE UNCHANGED <<pc, open>>
  /\ UNCHANGED <<callId, media, loops, stopped, calls, active, bye, deletes,
                 peer, branched, learned, history>>

\* The worker has nothing of the id any more.
PeerGone(c) ==
  /\ peer' = [peer EXCEPT ![c] = NoHandler] /\ branched' = branched \ {c}
  /\ learned' = {l \in learned : l[1] # c}

\* removeSIPPeer, by id; it is not an error that there is none.
PeerDeleted(h) ==
  /\ h \in deletes
  /\ deletes' = deletes \ {h}
  /\ \/ PeerGone(callId[h]) /\ UNCHANGED stray
     \/ Faults /\ Stray(callId[h]) /\ UNCHANGED <<peer, branched, learned>>
  /\ UNCHANGED <<gateway, posts, taken, early>>

\* The operator destroys the room, or the worker restarts.
RoomDestroyed(c) ==
  /\ Forgets /\ peer[c] # NoHandler
  /\ PeerGone(c)
  /\ taken' = taken \cup {c}
  /\ UNCHANGED <<gateway, posts, deletes, stray, early>>

\* The operator kicks the telephone: the branch goes, the SIP peer stays with its
\* sockets, and nobody tells the gateway.
Kick(c) ==
  /\ Kicks /\ c \in branched
  /\ branched' = branched \ {c}
  /\ taken' = taken \cup {c}
  /\ UNCHANGED <<gateway, posts, deletes, peer, learned, stray, early>>

-----------------------------------------------------------------------------
(* RTP.  A packet from a call's socket teaches the worker's peer where the *)
(* conference is to be sent, if it is the peer whose ports the call has.   *)

Teach(h, m) ==
  /\ <<h, "mw", m>> \in open
  /\ peer[callId[h]] = h
  /\ learned' = learned \cup {<<callId[h], m>>}
  /\ UNCHANGED <<gateway, posts, deletes, peer, branched, history>>

\* relayFStoMW, relayVideoFStoMW: the terminal sends, and the packet arrives.
RelayIn(h, m) ==
  /\ <<h, "in", m>> \in loops
  /\ <<h, "fs", m>> \in open
  /\ Teach(h, m)

Bind_bug(h, m) ==
  /\ <<h, "bind", m>> \in loops
  /\ h \notin stopped
  /\ m = "audio"
  /\ Teach(h, m)

\* natBindLoop, natBindVideoLoop: an empty packet every 200 ms, which arrives.
Bind(h, m) ==
  /\ <<h, "bind", m>> \in loops
  /\ h \notin stopped
  /\ Teach(h, m)

\* The read of a relay fails once its socket is closed; natBind sees stop.
Ending(h) ==
  {l \in loops :
     /\ l[1] = h
     /\ \/ l[2] = "in" /\ <<h, "fs", l[3]>> \notin open
        \/ l[2] = "out" /\ <<h, "mw", l[3]>> \notin open
        \/ l[2] = "bind" /\ h \in stopped}

LoopsEnd(h) ==
  /\ Ending(h) # {}
  /\ loops' = loops \ Ending(h)
  /\ UNCHANGED <<pc, callId, media, open, stopped, calls, active, bye, worker, history>>

-----------------------------------------------------------------------------
OnInvite(h) ==
  \/ OpenAudio(h) \/ OpenVideo(h) \/ Post(h) \/ PostTimesOut(h)
  \/ OpenWorkerAudio(h) \/ OpenWorkerVideo(h)
  \/ Register(h) \/ Accept(h) \/ Answer(h)

Cleanup(h) == CloseCall(h) \/ SendDelete(h) \/ Release(h)
AtWorker(h) == PeerCreated(h) \/ PeerRefused(h) \/ PeerDeleted(h)

\* What the processes do by themselves.
Work(h) == OnInvite(h) \/ Cleanup(h) \/ AtWorker(h) \/ LoopsEnd(h)

\* The media of a terminal's SDP; one without audio is refused like an empty one.
Offers == {{}, {"audio"}, Media}

Next ==
  \/ \E h \in Handlers :
       \/ \E offer \in Offers : Invite(h, offer)
       \/ Work(h)
       \/ \E m \in Media : RelayIn(h, m) \/ Bind(h, m)
  \/ \E c \in CallIds : Hangup(c) \/ RoomDestroyed(c) \/ Kick(c)

\* Goroutines run, requests end at the latest by their timeout, and of the
\* packets natBind sends again and again some arrive.  Terminals and operators
\* owe nothing.
Fairness ==
  \A h \in Handlers : WF_vars(Work(h)) /\ \A m \in Media : WF_vars(Bind(h, m))

Spec == Init /\ [][Next]_vars /\ Fairness

-----------------------------------------------------------------------------
(* Properties                                                              *)

TypeOK ==
  /\ pc \in [Handlers -> Setup \cup {"free", "refused", "up"}]
  /\ callId \in [Handlers -> CallIds]
  /\ media \in [Handlers -> SUBSET Media]
  /\ open \subseteq Sockets /\ loops \subseteq Loops
  /\ stopped \subseteq Handlers
  /\ calls \in [CallIds -> Handlers \cup {NoHandler}]
  /\ active \subseteq CallIds
  /\ bye \in [Handlers -> {"no", "close", "delete", "release", "done"}]
  /\ posts \subseteq Handlers /\ deletes \subseteq Handlers
  /\ peer \in [CallIds -> Handlers \cup {NoHandler}]
  /\ branched \subseteq CallIds
  /\ learned \subseteq CallIds \X Media
  /\ taken \subseteq CallIds /\ stray \subseteq CallIds /\ early \subseteq Handlers

\* A call a hang-up will find and whose terminal has not hung up before.
Reached(h) == calls[callId[h]] = h /\ h \notin early

\* Every open socket belongs to an INVITE under way or to a call that a BYE will
\* find, whatever fails, times out and is tried again.  Two ways to lose sockets the
\* code does have: a CANCEL before Register finds no call, and the INVITE it meant
\* goes on (early); and once the operator has kicked the telephone, or its room is
\* lost, a re-INVITE gets a new peer and overwrites the first call (taken).
SocketsOwned ==
  \A s \in open : LET h == s[1] IN
    \/ pc[h] \in Setup \/ Reached(h) \/ bye[h] = "close"
    \/ h \in early \/ callId[h] \in taken

\* The worker's SIP peer has an INVITE that goes on, or a call in the gateway that
\* will delete it, kicks and re-INVITEs included: no participant without a terminal
\* stays in the conference.  Three ways to leave one the code does have: a POST that
\* ends after the gateway gave up, a failure after the POST or of the DELETE itself
\* (stray), and a CANCEL before Register (early).
NoOrphanPeer ==
  \A c \in CallIds \ stray : LET h == peer[c] IN
    h # NoHandler =>
      \/ pc[h] \in {"mw audio", "mw video", "register"} \/ Reached(h)
      \/ bye[h] \in {"close", "delete"} \/ h \in deletes
      \/ h \in early

\* Until the operator kicks the telephone or its room is lost, an answered call
\* that was not hung up is the one BYE will find, has the worker's peer whose ports
\* it sends to, and is mixed: requests that time out, fail or come late, retries and
\* re-INVITEs do not take it away.
AnsweredIsConnected ==
  \A h \in Handlers : LET c == callId[h] IN
    At(h, "up") /\ bye[h] = "no" /\ c \notin taken =>
      calls[c] = h /\ peer[c] = h /\ c \in branched

\* What is left of it without the exceptions, checked by hand: sockets are found by
\* a BYE even after a kick, and a call that was hung up is not answered.
SocketsReached ==
  \A s \in open : pc[s[1]] \in Setup \/ calls[callId[s[1]]] = s[1] \/ bye[s[1]] = "close"
HangupHeard == \A h \in early : At(h, "up") => bye[h] # "no"

\* A hang-up, however often BYE and CANCEL are repeated and whatever INVITEs the
\* Call-ID sees, closes a call's stop channel once: close of a closed channel
\* would end the gateway with all its calls.
ClosedOnce ==
  [][\A h \in Handlers : bye'[h] = "close" => bye[h] \in {"no", "close"}]_vars

\* However packets are lost and even if the terminal is silent, the worker
\* learns where to send each medium of an answered call, unless the operator or a
\* lost room took its peer away (natBindLoop:
\* "media-worker auto-learn: его sipbridge.Peer узнает наш MWConn addr и начнёт
\* слать MCU output обратно").
ConferenceArrives ==
  \A h \in Handlers : \A m \in Media :
    (At(h, "up") /\ m \in media[h]) ~>
      (<<callId[h], m>> \in learned \/ bye[h] # "no" \/ callId[h] \in taken)

\* A hang-up that finds its call ends everything the call had: its sockets, its
\* goroutines, the worker's peer, unless a request failed, and its entry in /calls.
\* That entry outlives a CANCEL that comes between Register and Accept: br.Release
\* then runs before br.Accept.
HangupCompletes ==
  \A h \in Handlers :
    /\ bye[h] = "close" ~>
         /\ SocketsOf(h) = {} /\ \A l \in loops : l[1] # h
         /\ peer[callId[h]] # h \/ callId[h] \in stray
    /\ bye[h] = "close" /\ ~At(h, "accept") ~> callId[h] \notin active

=============================================================================
