-------------------------- MODULE RecordingProofs ---------------------------
(***************************************************************************)
(* Safety of Recording for any number of requests and rows, with all the   *)
(* faults, timeouts, restarts and deletions there are.                     *)
(***************************************************************************)
EXTENDS Recording, FiniteSetTheorems, TLAPS

\* While a request is alone, every other is idle and has no handler left in
\* the worker.
OthersRest ==
  \A c \in alone : \A d \in Requests \ {c} : At(d, "idle") /\ work[d] = "none"

\* A request that is alone has a handler exactly while it waits for one, and
\* the handler of a stop does what a stop does.
WorkMatches ==
  \A c \in alone :
    /\ ~Waits(c) => work[c] = "none"
    /\ At(c, "stopping") => work[c] \in {"stop", "ok", "empty", "error"}
    /\ At(c, "starting") => work[c] \in {"check", "pipe", "set", "ok", "error"}

\* No handler is left of an earlier request when a recording is created.
FreshCreate == \A c \in Requests : At(c, "create") => work[c] = "none"

\* Once the worker has answered its stop without an error, nothing records.
Stopped ==
  \A c \in alone :
    \/ At(c, "stopping") /\ work[c] \in {"ok", "empty"}
    \/ At(c, "finish") \/ At(c, "finish empty")
    => ~recording /\ ~recRunning

Inv ==
  /\ TypeOK
  /\ ValvesCanBeClosed
  /\ FreshCreate
  /\ OthersRest
  /\ WorkMatches
  /\ Stopped

\* Nothing is recorded and the Room knows.
Quiet == ~recording /\ ~recRunning

\* Between requests, Postgres and the worker agree.
Settled ==
  /\ AtRest
  /\ recording <=> recRunning
  /\ recRunning <=> Running # {}
  /\ recording => room
  /\ \A q, r \in Running : q = r

\* The places a lonely request passes through, and what is true there: of a
\* start, from the row to the answer; of a stop; and of a failed start.
UnderWay(c) ==
  \/ At(c, "create") /\ work[c] = "none" /\ Quiet /\ Running = {}
  \/ /\ Running = {op[c].row}
     /\ \/ At(c, "starting") /\ work[c] \in {"check", "error"} /\ Quiet
        \/ At(c, "starting") /\ work[c] = "pipe" /\ Quiet /\ room
        \/ At(c, "starting") /\ work[c] = "set" /\ ~recording /\ recRunning /\ room
        \/ At(c, "starting") /\ work[c] = "ok" /\ recording /\ recRunning /\ room
        \/ At(c, "stopping") /\ work[c] = "stop" /\ recording /\ recRunning /\ room
        \/ At(c, "stopping") /\ work[c] = "ok" /\ Quiet
        \/ (At(c, "fail") \/ At(c, "finish")) /\ work[c] = "none" /\ Quiet

\* As long as nothing was disturbed one request at most is under way, and every
\* finished row has its file.
InTurn ==
  ~disturbed =>
    /\ \A r \in Rows : status[r] = "finished" => r \in hasUrl
    /\ \/ Settled
       \/ \E c \in Requests :
            /\ UnderWay(c)
            /\ \A d \in Requests \ {c} : At(d, "idle") /\ work[d] = "none"

Places == {"idle", "create", "starting", "stopping", "fail", "finish", "finish empty"}
Works == {"none", "check", "pipe", "set", "stop", "ok", "empty", "error"}

OpType == [Requests -> [pc : Places, row : 0 .. MaxRows]]
WorkType == [Requests -> Works]
RestType ==
  /\ rows \in 0 .. MaxRows
  /\ status \in [Rows -> {"absent", "running", "finished", "failed"}]
  /\ \A r \in Rows : r > rows => status[r] = "absent"
  /\ hasUrl \subseteq Kept
  /\ room \in BOOLEAN /\ recording \in BOOLEAN /\ recRunning \in BOOLEAN
  /\ alone \subseteq Requests /\ disturbed \in BOOLEAN

-----------------------------------------------------------------------------
\* Before the first request the invariant holds.
LEMMA InitInv == Init => Inv
  <1> SUFFICES ASSUME Init PROVE Inv
    OBVIOUS
  <1> USE RecordingAssumption DEF Init, Idle
  <1>1. TypeOK
    <2>1. [pc |-> "idle", row |-> 0] \in [pc : Places, row : 0 .. MaxRows]
      BY DEF Places
    <2>2. op \in OpType
      BY <2>1 DEF OpType
    <2>3. work \in WorkType
      BY DEF WorkType, Works
    <2>4. status \in [Rows -> {"absent", "running", "finished", "failed"}]
      OBVIOUS
    <2>5. rows \in 0 .. MaxRows /\ \A r \in Rows : r > rows => status[r] = "absent"
      OBVIOUS
    <2>6. RestType
      BY <2>4, <2>5 DEF RestType
    <2> QED
      BY <2>2, <2>3, <2>6 DEF TypeOK, OpType, WorkType, RestType, Places, Works
  <1>2. ValvesCanBeClosed /\ FreshCreate /\ OthersRest /\ WorkMatches /\ Stopped
    BY DEF ValvesCanBeClosed, FreshCreate, At, OthersRest, WorkMatches, Stopped
  <1> QED
    BY <1>1, <1>2 DEF Inv

\* Moving a request keeps the type of op.
LEMMA OpKept ==
  ASSUME op \in OpType, NEW c \in Requests, NEW p \in Places, NEW r \in 0 .. MaxRows,
         op' = [op EXCEPT ![c] = [pc |-> p, row |-> r]]
  PROVE  op' \in OpType
  <1>1. [pc |-> p, row |-> r] \in [pc : Places, row : 0 .. MaxRows]
    OBVIOUS
  <1> QED
    BY <1>1 DEF OpType

\* So does ending one.
LEMMA ReturnKept ==
  ASSUME op \in OpType, NEW c \in Requests, Return(c)
  PROVE  op' \in OpType
  <1>1. "idle" \in Places /\ 0 \in 0 .. MaxRows
    BY RecordingAssumption DEF Places
  <1> QED
    BY <1>1, OpKept DEF Return, Idle

\* And going on with the same row.
LEMMA GotoKept ==
  ASSUME op \in OpType, NEW c \in Requests, NEW p \in Places, Goto(c, p)
  PROVE  op' \in OpType
  BY DEF OpType, Goto

\* Moving a handler keeps the type of work.
LEMMA WorkKept ==
  ASSUME work \in WorkType, NEW c \in Requests, NEW w \in Works, Work(c, w)
  PROVE  work' \in WorkType
  BY DEF WorkType, Work

\* An update of a row's status keeps the types of the table.
LEMMA StatusKept ==
  ASSUME TypeOK, NEW r \in 0 .. MaxRows, NEW s \in {"finished", "failed"}, SetStatus(r, s)
  PROVE  /\ status' \in [Rows -> {"absent", "running", "finished", "failed"}]
         /\ \A q \in Rows : status'[q] = "absent" <=> status[q] = "absent"
  BY DEF TypeOK, SetStatus

\* Every step keeps the types.
LEMMA NextType == TypeOK /\ [Next]_vars => TypeOK'
  <1> SUFFICES ASSUME TypeOK, [Next]_vars PROVE TypeOK'
    OBVIOUS
  <1> USE RecordingAssumption
  <1>a. op \in OpType /\ work \in WorkType
    BY DEF TypeOK, OpType, WorkType, Places, Works
  <1>b. ASSUME op' \in OpType, work' \in WorkType, RestType' PROVE TypeOK'
    BY <1>b DEF TypeOK, OpType, WorkType, RestType, Kept, Places, Works
  <1>c. RestType
    BY DEF TypeOK, RestType, Kept
  <1>1. ASSUME NEW c \in Requests, Start(c) PROVE TypeOK'
    <2>1. op' \in OpType
      <3>1. "create" \in Places /\ 0 \in 0 .. MaxRows
        BY DEF Places
      <3> QED
        BY <1>1, <1>a, <3>1, OpKept DEF Start, Begin
    <2>2. work' \in WorkType
      BY <1>1, <1>a DEF Start
    <2>3. RestType'
      BY <1>1, <1>c DEF RestType, Kept, Start, Begin, database, worker
    <2> QED
      BY <2>1, <2>2, <2>3, <1>b
  <1>2. ASSUME NEW c \in Requests, Stop(c) PROVE TypeOK'
    <2>1. op' \in OpType
      <3>1. PICK r \in Rows : op' = [op EXCEPT ![c] = [pc |-> "stopping", row |-> r]]
        BY <1>2 DEF Stop, Begin, Running
      <3>2. "stopping" \in Places /\ r \in 0 .. MaxRows
        BY <3>1 DEF Places, Rows
      <3> QED
        BY <1>a, <3>1, <3>2, OpKept
    <2>2. work' \in WorkType
      BY <1>2, <1>a DEF Stop, WorkType, Works
    <2>3. RestType'
      BY <1>2, <1>c DEF RestType, Kept, Stop, Begin, database, worker
    <2> QED
      BY <2>1, <2>2, <2>3, <1>b
  <1>3. ASSUME NEW c \in Requests, CreateRow(c) PROVE TypeOK'
    <2>1. op' \in OpType
      <3>1. "starting" \in Places /\ rows' \in 0 .. MaxRows
        BY <1>3, <1>c DEF Places, CreateRow, RestType
      <3> QED
        BY <1>3, <1>a, <3>1, OpKept DEF CreateRow
    <2>2. work' \in WorkType
      BY <1>3, <1>a DEF CreateRow, WorkType, Works
    <2>3. RestType'
      <3>1. rows' = rows + 1 /\ rows' \in Rows /\ rows' \in 0 .. MaxRows
        BY <1>3, <1>c DEF CreateRow, RestType, Kept, Rows
      <3>2. status' = [status EXCEPT ![rows'] = "running"]
        BY <1>3 DEF CreateRow
      <3>3. status' \in [Rows -> {"absent", "running", "finished", "failed"}]
        BY <1>c, <3>1, <3>2 DEF RestType, Kept
      <3>4. \A r \in Rows : r > rows' => status'[r] = "absent"
        BY <1>c, <3>1, <3>2 DEF RestType, Kept, Rows
      <3>5. hasUrl' \subseteq Kept'
        BY <1>3, <1>c, <3>1, <3>2 DEF CreateRow, RestType, Kept
      <3> QED
        BY <1>3, <1>c, <3>1, <3>3, <3>4, <3>5 DEF CreateRow, RestType, Kept, worker, history
    <2> QED
      BY <2>1, <2>2, <2>3, <1>b
  <1>4. ASSUME NEW c \in Requests, CreateFails(c) PROVE TypeOK'
    <2>1. op' \in OpType
      BY <1>4, <1>a, ReturnKept DEF CreateFails
    <2>2. work' \in WorkType
      BY <1>4, <1>a DEF CreateFails
    <2>3. RestType'
      BY <1>4, <1>c DEF RestType, Kept, CreateFails, database, worker, history
    <2> QED
      BY <2>1, <2>2, <2>3, <1>b
  <1>5. ASSUME NEW c \in Requests, Answered(c) PROVE TypeOK'
    <2>1. op' \in OpType
      BY <1>5, <1>a, ReturnKept, GotoKept DEF Answered, Places
    <2>2. work' \in WorkType
      BY <1>5, <1>a DEF Answered, WorkType, Works
    <2>3. RestType'
      BY <1>5, <1>c DEF RestType, Kept, Answered, database, worker, history
    <2> QED
      BY <2>1, <2>2, <2>3, <1>b
  <1>6. ASSUME NEW c \in Requests, TimesOut(c) PROVE TypeOK'
    <2>1. op' \in OpType
      BY <1>6, <1>a, GotoKept DEF TimesOut, Places
    <2>2. work' \in WorkType
      BY <1>6, <1>a DEF TimesOut
    <2>3. RestType'
      BY <1>6, <1>c DEF RestType, Kept, TimesOut, Disturb, database, worker
    <2> QED
      BY <2>1, <2>2, <2>3, <1>b
  <1>7. ASSUME NEW c \in Requests, FailRow(c) PROVE TypeOK'
    <2>1. op' \in OpType
      BY <1>7, <1>a, ReturnKept DEF FailRow
    <2>2. work' \in WorkType
      BY <1>7, <1>a DEF FailRow
    <2>4. op[c].row \in 0 .. MaxRows
      BY <1>a DEF OpType
    <2>5. UNCHANGED <<rows, hasUrl, worker, work>>
      BY <1>7 DEF FailRow
    <2>6. CASE SetStatus(op[c].row, "failed") /\ UNCHANGED history
      <3>1. \A q \in Rows : status'[q] = "absent" <=> status[q] = "absent"
        BY <2>4, <2>6, StatusKept
      <3>2. RestType'
        BY <1>c, <2>4, <2>5, <2>6, <3>1, StatusKept DEF RestType, Kept, worker, history
      <3> QED
        BY <2>1, <2>2, <3>2, <1>b
    <2>7. CASE Disturb /\ UNCHANGED status
      BY <2>1, <2>2, <2>5, <2>7, <1>b, <1>c DEF RestType, Kept, worker, Disturb
    <2> QED
      BY <1>7, <2>6, <2>7 DEF FailRow
  <1>8. ASSUME NEW c \in Requests, FinishRow(c) PROVE TypeOK'
    <2>1. op' \in OpType
      BY <1>8, <1>a, ReturnKept DEF FinishRow
    <2>2. work' \in WorkType
      BY <1>8, <1>a DEF FinishRow
    <2>4. op[c].row \in 0 .. MaxRows
      BY <1>a DEF OpType
    <2>5. UNCHANGED <<rows, worker, work>>
      BY <1>8 DEF FinishRow
    <2>6. CASE SetStatus(op[c].row, "finished") /\ UNCHANGED history
      <3>1. \A q \in Rows : status'[q] = "absent" <=> status[q] = "absent"
        BY <2>4, <2>6, StatusKept
      <3>2. hasUrl' \subseteq hasUrl \cup Kept
        BY <1>8, <2>6 DEF FinishRow
      <3>3. Kept' = Kept
        BY <3>1 DEF Kept
      <3>4. hasUrl' \subseteq Kept'
        BY <1>c, <3>2, <3>3 DEF RestType, Kept
      <3>5. RestType'
        BY <1>c, <2>4, <2>5, <2>6, <3>4, StatusKept DEF RestType, Kept, worker, history
      <3> QED
        BY <2>1, <2>2, <3>5, <1>b
    <2>7. CASE Disturb /\ UNCHANGED <<status, hasUrl>>
      BY <2>1, <2>2, <2>5, <2>7, <1>b, <1>c DEF RestType, Kept, worker, Disturb
    <2> QED
      BY <1>8, <2>6, <2>7 DEF FinishRow
  <1>9. ASSUME NEW c \in Requests, CheckRecording(c) PROVE TypeOK'
    <2>1. op' \in OpType
      BY <1>9, <1>a DEF CheckRecording
    <2>2. work' \in WorkType
      BY <1>9, <1>a, WorkKept DEF CheckRecording, Reply, Works
    <2>3. RestType'
      BY <1>9, <1>c DEF RestType, Kept, CheckRecording, database, worker, history
    <2> QED
      BY <2>1, <2>2, <2>3, <1>b
  <1>10. ASSUME NEW c \in Requests, OpenValves(c) PROVE TypeOK'
    <2>1. op' \in OpType
      BY <1>10, <1>a DEF OpenValves
    <2>2. work' \in WorkType
      BY <1>10, <1>a, WorkKept DEF OpenValves, Reply, Works
    <2>3. RestType'
      BY <1>10, <1>c DEF RestType, Kept, OpenValves, database, worker, history
    <2> QED
      BY <2>1, <2>2, <2>3, <1>b
  <1>11. ASSUME NEW c \in Requests, StartFails(c) PROVE TypeOK'
    <2>1. op' \in OpType
      BY <1>11, <1>a DEF StartFails
    <2>2. work' \in WorkType
      BY <1>11, <1>a, WorkKept DEF StartFails, Reply, Works
    <2>3. RestType'
      BY <1>11, <1>c DEF RestType, Kept, StartFails, database, worker, history
    <2> QED
      BY <2>1, <2>2, <2>3, <1>b
  <1>12. ASSUME NEW c \in Requests, SetRecording(c) PROVE TypeOK'
    <2>1. op' \in OpType
      BY <1>12, <1>a DEF SetRecording
    <2>2. work' \in WorkType
      BY <1>12, <1>a, WorkKept DEF SetRecording, Reply, Works
    <2>3. RestType'
      BY <1>12, <1>c DEF RestType, Kept, SetRecording, database, worker, history
    <2> QED
      BY <2>1, <2>2, <2>3, <1>b
  <1>13. ASSUME NEW c \in Requests, StopRecording(c) PROVE TypeOK'
    <2>1. op' \in OpType
      BY <1>13, <1>a DEF StopRecording
    <2>2. work' \in WorkType
      BY <1>13, <1>a, WorkKept DEF StopRecording, CloseValves, Reply, Works
    <2>3. RestType'
      BY <1>13, <1>c DEF RestType, Kept, StopRecording, CloseValves, database, worker, history
    <2> QED
      BY <2>1, <2>2, <2>3, <1>b
  <1>14. CASE Restart
    <2>1. op' \in OpType
      BY <1>14, <1>a DEF Restart
    <2>2. work' \in WorkType
      BY <1>14, <1>a DEF Restart, WorkType, Works
    <2>3. RestType'
      BY <1>14, <1>c DEF RestType, Kept, Restart, Disturb, database
    <2> QED
      BY <2>1, <2>2, <2>3, <1>b
  <1>15. ASSUME NEW r \in Rows, Delete(r) PROVE TypeOK'
    <2>1. RestType'
      BY <1>15, <1>c DEF RestType, Kept, Delete, Disturb, worker, history
    <2> QED
      BY <1>15, <1>a, <1>b, <2>1 DEF Delete
  <1>16. CASE UNCHANGED vars
    BY <1>a, <1>b, <1>c, <1>16 DEF RestType, Kept, vars, database, worker, history
  <1> QED
    BY <1>1, <1>2, <1>3, <1>4, <1>5, <1>6, <1>7, <1>8, <1>9, <1>10, <1>11, <1>12,
       <1>13, <1>14, <1>15, <1>16 DEF Next, Handle, Serve

-----------------------------------------------------------------------------
\* What a request or its handler does concerns no other.
LEMMA Frame ==
  ASSUME TypeOK, NEW c \in Requests, Start(c) \/ Stop(c) \/ Handle(c) \/ Serve(c)
  PROVE  \A d \in Requests \ {c} : op'[d] = op[d] /\ work'[d] = work[d]
  <1> USE DEF TypeOK
  <1>1. \/ UNCHANGED op
        \/ \E v : op' = [op EXCEPT ![c] = v]
        \/ \E p : op' = [op EXCEPT ![c].pc = p]
    BY DEF Start, Stop, Handle, Serve, Begin, Return, Goto, CreateRow, CreateFails, Answered,
           TimesOut, FailRow, FinishRow, CheckRecording, OpenValves, StartFails,
           SetRecording, StopRecording
  <1>2. UNCHANGED work \/ \E w : work' = [work EXCEPT ![c] = w]
    BY DEF Start, Stop, Handle, Serve, CreateRow, CreateFails, Answered,
           TimesOut, FailRow, FinishRow, CheckRecording, OpenValves, StartFails,
           SetRecording, StopRecording, Reply, Work
  <1>3. \A d \in Requests \ {c} : op'[d] = op[d]
    BY <1>1
  <1>4. \A d \in Requests \ {c} : work'[d] = work[d]
    BY <1>2
  <1> QED
    BY <1>3, <1>4

\* Whoever goes on was not at rest, so nobody else is alone; a request that
\* begins is alone only when every other is at rest.
LEMMA AloneOnly ==
  ASSUME TypeOK, OthersRest, NEW c \in Requests, Start(c) \/ Stop(c) \/ Handle(c) \/ Serve(c)
  PROVE  /\ alone' \subseteq {c}
         /\ c \in alone' => \A d \in Requests \ {c} : At(d, "idle") /\ work[d] = "none"
         /\ Handle(c) \/ Serve(c) => alone' \subseteq alone
  <1>1. CASE Start(c) \/ Stop(c)
    <2>1. At(c, "idle") /\ work[c] = "none" /\ alone' = IF AtRest THEN {c} ELSE {}
      BY <1>1 DEF Start, Stop, Begin
    <2>2. ~Handle(c) /\ ~Serve(c)
      BY <2>1 DEF Handle, Serve, At, Waits, CreateRow, CreateFails, Answered, TimesOut, FailRow,
                  FinishRow, CheckRecording, OpenValves, StartFails, SetRecording, StopRecording
    <2> QED
      BY <2>1, <2>2 DEF AtRest
  <1>2. CASE Handle(c) \/ Serve(c)
    <2>1. ~At(c, "idle") \/ work[c] # "none"
      BY <1>2 DEF Handle, Serve, At, Waits, CreateRow, CreateFails, Answered, TimesOut, FailRow,
                  FinishRow, CheckRecording, OpenValves, StartFails, SetRecording, StopRecording
    <2>2. alone \subseteq {c}
      BY <2>1 DEF OthersRest, TypeOK
    <2>3. alone' \subseteq alone
      BY <1>2 DEF Handle, Serve, CreateRow, CreateFails, Answered, TimesOut, FailRow,
                  FinishRow, CheckRecording, OpenValves, StartFails, SetRecording, StopRecording,
                  Disturb, history
    <2>4. ~Start(c) /\ ~Stop(c)
      BY <2>1 DEF Start, Stop, Begin
    <2> QED
      BY <1>2, <2>2, <2>3 DEF OthersRest
  <1> QED
    BY <1>1, <1>2

\* What a request or its handler does keeps everything but the types.
LEMMA StepInv ==
  ASSUME Inv, NEW c \in Requests, Start(c) \/ Stop(c) \/ Handle(c) \/ Serve(c)
  PROVE  (ValvesCanBeClosed /\ FreshCreate /\ OthersRest /\ WorkMatches /\ Stopped)'
  <1>a. /\ TypeOK /\ op \in OpType /\ work \in WorkType
        /\ ValvesCanBeClosed /\ FreshCreate /\ OthersRest /\ WorkMatches /\ Stopped
    BY DEF Inv, TypeOK, OpType, WorkType, Places, Works
  <1>b. \A d \in Requests \ {c} : op'[d] = op[d] /\ work'[d] = work[d]
    BY <1>a, Frame
  <1>c. /\ alone' \subseteq {c}
        /\ c \in alone' => \A d \in Requests \ {c} : At(d, "idle") /\ work[d] = "none"
        /\ Handle(c) \/ Serve(c) => alone' \subseteq alone
    BY <1>a, AloneOnly
  <1>1. OthersRest'
    BY <1>b, <1>c DEF OthersRest, At
  <1> DEFINE Mine ==
        /\ At(c, "create") => work[c] = "none"
        /\ c \in alone => /\ ~Waits(c) => work[c] = "none"
                          /\ At(c, "stopping") => work[c] \in {"stop", "ok", "empty", "error"}
                          /\ At(c, "starting") => work[c] \in {"check", "pipe", "set", "ok", "error"}
        /\ c \in alone => (\/ At(c, "stopping") /\ work[c] \in {"ok", "empty"}
                           \/ At(c, "finish") \/ At(c, "finish empty")
                           => ~recording /\ ~recRunning)
  <1>m. Mine
    BY <1>a DEF FreshCreate, WorkMatches, Stopped
  <1>t. op[c] \in [pc : Places, row : 0 .. MaxRows] /\ work[c] \in Works
    BY <1>a DEF OpType, WorkType
  <1>o. DOMAIN op = Requests /\ DOMAIN work = Requests
    BY <1>a DEF OpType, WorkType
  <1>v. recRunning => recording \/ \E d \in Requests : work[d] = "set"
    BY <1>a DEF ValvesCanBeClosed
  <1>2. ASSUME Start(c) PROVE Mine' /\ ValvesCanBeClosed'
    <2>1. Mine'
      BY <1>2, <1>a, <1>c, <1>m, <1>t, <1>v, <1>o
      DEF Start, Begin, database, worker, At, Waits, Handle, Serve, OpType, WorkType
    <2>2. ValvesCanBeClosed'
      BY <1>2, <1>a, <1>b, <1>m, <1>v, <1>o
      DEF Start, Begin, database, worker, At, Waits, ValvesCanBeClosed, OpType, WorkType
    <2> QED
      BY <2>1, <2>2
  <1>3. ASSUME Stop(c) PROVE Mine' /\ ValvesCanBeClosed'
    <2>1. Mine'
      BY <1>3, <1>a, <1>c, <1>m, <1>t, <1>v, <1>o
      DEF Stop, Begin, database, worker, At, Waits, Handle, Serve, OpType, WorkType
    <2>2. ValvesCanBeClosed'
      BY <1>3, <1>a, <1>b, <1>m, <1>v, <1>o
      DEF Stop, Begin, database, worker, At, Waits, ValvesCanBeClosed, OpType, WorkType
    <2> QED
      BY <2>1, <2>2
  <1>4. ASSUME CreateRow(c) PROVE Mine' /\ ValvesCanBeClosed'
    <2>1. Mine'
      BY <1>4, <1>a, <1>c, <1>m, <1>t, <1>v, <1>o
      DEF CreateRow, worker, history, At, Waits, Handle, Serve, OpType, WorkType
    <2>2. ValvesCanBeClosed'
      BY <1>4, <1>a, <1>b, <1>m, <1>v, <1>o
      DEF CreateRow, worker, history, At, Waits, ValvesCanBeClosed, OpType, WorkType
    <2> QED
      BY <2>1, <2>2
  <1>5. ASSUME CreateFails(c) PROVE Mine' /\ ValvesCanBeClosed'
    <2>1. Mine'
      BY <1>5, <1>a, <1>c, <1>m, <1>t, <1>v, <1>o
     
      DEF CreateFails, Return, Idle, worker, history, database, At, Waits, Handle, Serve,
          OpType, WorkType
    <2>2. ValvesCanBeClosed'
      BY <1>5, <1>a, <1>b, <1>m, <1>v, <1>o
      DEF CreateFails, Return, Idle, worker, history, database, At, Waits, ValvesCanBeClosed,
          OpType, WorkType
    <2> QED
      BY <2>1, <2>2
  <1>6. ASSUME Answered(c) PROVE Mine' /\ ValvesCanBeClosed'
    <2>a. /\ work'[c] = "none" /\ UNCHANGED worker /\ UNCHANGED history /\ Waits(c)
          /\ \/ op'[c] = Idle
             \/ work[c] \in {"ok", "empty"} /\ op[c].pc = "stopping"
                /\ op'[c].pc \in {"finish", "finish empty"}
             \/ op'[c].pc = "fail"
      BY <1>6, <1>t, <1>o DEF Answered, Return, Goto, At
    <2>i. Idle.pc = "idle"
      BY DEF Idle
    <2>b. op'[c].pc \in {"idle", "finish", "finish empty", "fail"}
      BY <2>a, <2>i
    <2>c. c \in alone' /\ op'[c].pc \in {"finish", "finish empty"} => ~recording' /\ ~recRunning'
      BY <1>m, <2>a, <2>i DEF worker, history, At
    <2>1. Mine'
      BY <2>a, <2>b, <2>c DEF At, Waits
    <2>2. ValvesCanBeClosed'
      BY <1>6, <1>a, <1>b, <1>m, <1>v, <1>o
      DEF Answered, Return, Idle, Goto, worker, history, At, Waits, ValvesCanBeClosed,
          OpType, WorkType
    <2> QED
      BY <2>1, <2>2
  <1>7. ASSUME TimesOut(c) PROVE Mine' /\ ValvesCanBeClosed'
    <2>1. Mine'
      BY <1>7, <1>a, <1>c, <1>m, <1>t, <1>v, <1>o
      DEF TimesOut, Goto, Disturb, worker, At, Waits, Handle, Serve, OpType, WorkType
    <2>2. ValvesCanBeClosed'
      BY <1>7, <1>a, <1>b, <1>m, <1>v, <1>o
      DEF TimesOut, Goto, Disturb, worker, At, Waits, ValvesCanBeClosed, OpType, WorkType
    <2> QED
      BY <2>1, <2>2
  <1>8. ASSUME FailRow(c) PROVE Mine' /\ ValvesCanBeClosed'
    <2>1. Mine'
      BY <1>8, <1>a, <1>c, <1>m, <1>t, <1>v, <1>o
     
      DEF FailRow, Return, Idle, worker, history, Disturb, At, Waits, Handle, Serve, OpType,
          WorkType
    <2>2. ValvesCanBeClosed'
      BY <1>8, <1>a, <1>b, <1>m, <1>v, <1>o
      DEF FailRow, Return, Idle, worker, history, Disturb, At, Waits, ValvesCanBeClosed,
          OpType, WorkType
    <2> QED
      BY <2>1, <2>2
  <1>9. ASSUME FinishRow(c) PROVE Mine' /\ ValvesCanBeClosed'
    <2>1. Mine'
      BY <1>9, <1>a, <1>c, <1>m, <1>t, <1>v, <1>o
     
      DEF FinishRow, Return, Idle, worker, history, Disturb, At, Waits, Handle, Serve,
          OpType, WorkType
    <2>2. ValvesCanBeClosed'
      BY <1>9, <1>a, <1>b, <1>m, <1>v, <1>o
      DEF FinishRow, Return, Idle, worker, history, Disturb, At, Waits, ValvesCanBeClosed,
          OpType, WorkType
    <2> QED
      BY <2>1, <2>2
  <1>10. ASSUME CheckRecording(c) PROVE Mine' /\ ValvesCanBeClosed'
    <2>1. Mine'
      BY <1>10, <1>a, <1>c, <1>m, <1>t, <1>v, <1>o
      DEF CheckRecording, Reply, Work, history, At, Waits, Handle, Serve, OpType, WorkType
    <2>2. ValvesCanBeClosed'
      BY <1>10, <1>a, <1>b, <1>m, <1>v, <1>o
      DEF CheckRecording, Reply, Work, history, At, Waits, ValvesCanBeClosed, OpType, WorkType
    <2> QED
      BY <2>1, <2>2
  <1>11. ASSUME OpenValves(c) PROVE Mine' /\ ValvesCanBeClosed'
    <2>1. Mine'
      BY <1>11, <1>a, <1>c, <1>m, <1>t, <1>v, <1>o
      DEF OpenValves, Reply, Work, history, At, Waits, Handle, Serve, OpType, WorkType
    <2>2. ValvesCanBeClosed'
      BY <1>11, <1>a, <1>b, <1>m, <1>v, <1>o
      DEF OpenValves, Reply, Work, history, At, Waits, ValvesCanBeClosed, OpType, WorkType
    <2> QED
      BY <2>1, <2>2
  <1>12. ASSUME StartFails(c) PROVE Mine' /\ ValvesCanBeClosed'
    <2>1. Mine'
      BY <1>12, <1>a, <1>c, <1>m, <1>t, <1>v, <1>o
      DEF StartFails, Reply, Work, worker, history, At, Waits, Handle, Serve, OpType, WorkType
    <2>2. ValvesCanBeClosed'
      BY <1>12, <1>a, <1>b, <1>m, <1>v, <1>o
      DEF StartFails, Reply, Work, worker, history, At, Waits, ValvesCanBeClosed, OpType,
          WorkType
    <2> QED
      BY <2>1, <2>2
  <1>13. ASSUME SetRecording(c) PROVE Mine' /\ ValvesCanBeClosed'
    <2>1. Mine'
      BY <1>13, <1>a, <1>c, <1>m, <1>t, <1>v, <1>o
      DEF SetRecording, Reply, Work, history, At, Waits, Handle, Serve, OpType, WorkType
    <2>2. ValvesCanBeClosed'
      BY <1>13, <1>a, <1>b, <1>m, <1>v, <1>o
      DEF SetRecording, Reply, Work, history, At, Waits, ValvesCanBeClosed, OpType, WorkType
    <2> QED
      BY <2>1, <2>2
  <1>14. ASSUME StopRecording(c) PROVE Mine' /\ ValvesCanBeClosed'
    <2>1. Mine'
      BY <1>14, <1>a, <1>c, <1>m, <1>t, <1>v, <1>o
     
      DEF StopRecording, CloseValves, Reply, Work, history, At, Waits, Handle, Serve, OpType,
          WorkType
    <2>2. ValvesCanBeClosed'
      BY <1>14, <1>a, <1>b, <1>m, <1>v, <1>o
      DEF StopRecording, CloseValves, Reply, Work, history, At, Waits, ValvesCanBeClosed,
          OpType, WorkType
    <2> QED
      BY <2>1, <2>2
  <1>15. Mine' /\ ValvesCanBeClosed'
    BY <1>2, <1>3, <1>4, <1>5, <1>6, <1>7, <1>8, <1>9, <1>10, <1>11, <1>12, <1>13, <1>14
    DEF Handle, Serve
  <1>16. FreshCreate'
    BY <1>a, <1>b, <1>15 DEF FreshCreate, At
  <1>17. WorkMatches' /\ Stopped'
    BY <1>c, <1>15 DEF WorkMatches, Stopped
  <1> QED
    BY <1>1, <1>15, <1>16, <1>17

\* The invariant is inductive.
LEMMA NextInv == Inv /\ [Next]_vars => Inv'
  <1> SUFFICES ASSUME Inv, [Next]_vars PROVE Inv'
    OBVIOUS
  <1>a. TypeOK'
    BY NextType DEF Inv
  <1>1. ASSUME NEW c \in Requests, Start(c) \/ Stop(c) \/ Handle(c) \/ Serve(c)
        PROVE  Inv'
    BY <1>1, <1>a, StepInv DEF Inv
  <1>2. CASE Restart
    <2>1. alone' = {} /\ recRunning' = FALSE /\ UNCHANGED op
      BY <1>2 DEF Restart, Disturb
    <2>2. \A c \in Requests : work[c] = "none" => work'[c] = "none"
      BY <1>2 DEF Restart
    <2>3. FreshCreate'
      BY <2>1, <2>2 DEF Inv, FreshCreate, At
    <2> QED
      BY <1>a, <2>1, <2>3 DEF Inv, ValvesCanBeClosed, OthersRest, WorkMatches, Stopped
  <1>3. ASSUME NEW r \in Rows, Delete(r) PROVE Inv'
    <2>1. UNCHANGED <<worker, op, work>> /\ alone' \subseteq alone
      BY <1>3 DEF Delete, Disturb, history
    <2> QED
      BY <1>a, <2>1 DEF Inv, worker, ValvesCanBeClosed, FreshCreate, OthersRest, WorkMatches,
                        Stopped, At, Waits
  <1>4. CASE UNCHANGED vars
    BY <1>a, <1>4 DEF Inv, vars, worker, history, ValvesCanBeClosed, FreshCreate, OthersRest,
                      WorkMatches, Stopped, At, Waits
  <1> QED
    BY <1>1, <1>2, <1>3, <1>4 DEF Next

-----------------------------------------------------------------------------
(* Rows and worker                                                         *)

\* In the beginning nothing is stored and nothing records.
LEMMA InitTurn == Init => InTurn
  <1> SUFFICES ASSUME Init PROVE InTurn
    OBVIOUS
  <1>1. Running = {} /\ \A r \in Rows : status[r] # "finished"
    BY DEF Init, Running
  <1>2. AtRest
    BY DEF Init, AtRest, At, Idle
  <1>3. ~recording /\ ~recRunning
    BY DEF Init
  <1> QED
    BY <1>1, <1>2, <1>3 DEF InTurn, Settled

\* Who does something was not at rest, so that it is the one request under way.
LEMMA OnlyOne ==
  ASSUME TypeOK, InTurn, ~disturbed, NEW c \in Requests, Handle(c) \/ Serve(c)
  PROVE  UnderWay(c) /\ \A d \in Requests \ {c} : At(d, "idle") /\ work[d] = "none"
  <1>1. ~At(c, "idle") \/ work[c] # "none"
    BY DEF Handle, Serve, At, Waits, CreateRow, CreateFails, Answered, TimesOut, FailRow,
           FinishRow, CheckRecording, OpenValves, StartFails, SetRecording, StopRecording
  <1> QED
    BY <1>1 DEF InTurn, Settled, AtRest

\* A step of the request under way leads to the next place, or ends it with rows
\* and worker in agreement.
LEMMA HandleTurn ==
  ASSUME TypeOK, ~disturbed', NEW c \in Requests, Handle(c) \/ Serve(c), UnderWay(c),
         \A r \in Rows : status[r] = "finished" => r \in hasUrl,
         \A d \in Requests \ {c} : At(d, "idle") /\ work[d] = "none"
  PROVE  /\ \A r \in Rows : status'[r] = "finished" => r \in hasUrl'
         /\ Settled' \/ UnderWay(c)'
  <1> USE DEF At, Waits, Quiet, Running, Return, Goto, Reply, Work
  <1>a. /\ op \in OpType /\ work \in WorkType
        /\ status \in [Rows -> {"absent", "running", "finished", "failed"}]
        /\ op[c].row \in 0 .. MaxRows /\ rows \in 0 .. MaxRows
    BY DEF TypeOK, OpType, WorkType, Places, Works
  <1>b. \A d \in Requests \ {c} : At(d, "idle")' /\ (work[d] = "none")'
    BY Frame
  <1>i. Idle.pc = "idle"
    BY DEF Idle
  <1>d. UNCHANGED <<alone, disturbed>> \/ disturbed'
    BY DEF Handle, Serve, CreateRow, CreateFails, Answered, TimesOut, FailRow, FinishRow,
           CheckRecording, OpenValves, StartFails, SetRecording, StopRecording, Disturb, history
  <1>e. ASSUME op'[c].pc = "idle", work'[c] = "none"
        PROVE  AtRest'
    BY <1>b, <1>e DEF AtRest
  <1>1. CASE CreateRow(c)
    <2>1. /\ At(c, "create") /\ rows' = rows + 1 /\ rows < MaxRows
          /\ status' = [status EXCEPT ![rows'] = "running"]
          /\ op' = [op EXCEPT ![c] = [pc |-> "starting", row |-> rows']]
          /\ work' = [work EXCEPT ![c] = "check"]
          /\ UNCHANGED <<hasUrl, worker>>
      BY <1>1 DEF CreateRow
    <2>r. rows' \in Rows
      BY <1>a, <2>1, RecordingAssumption DEF Rows
    <2>o. op'[c].pc = "starting" /\ op'[c].row = rows' /\ work'[c] = "check"
      BY <1>a, <2>1 DEF OpType, WorkType
    <2>2. Quiet /\ Running = {}
      BY <2>1 DEF UnderWay
    <2>3. Running' = {rows'}
      BY <1>a, <2>1, <2>r, <2>2
    <2>4. UnderWay(c)'
      BY <2>1, <2>o, <2>2, <2>3 DEF UnderWay, worker
    <2> QED
      BY <1>a, <2>1, <2>r, <2>4
  <1>2. CASE CreateFails(c)
    <2>1. /\ At(c, "create") /\ op'[c] = Idle /\ UNCHANGED <<database, worker, work>>
      BY <1>2, <1>a DEF CreateFails, OpType
    <2>2. Quiet /\ Running = {} /\ work[c] = "none"
      BY <2>1 DEF UnderWay
    <2>3. Settled'
      BY <1>e, <1>i, <2>1, <2>2 DEF Settled, worker, database
    <2> QED
      BY <2>1, <2>3 DEF database
  <1>3. CASE Answered(c)
    <2>1. /\ UNCHANGED <<database, worker>> /\ work'[c] = "none" /\ Waits(c)
          /\ \/ work[c] \in {"ok", "empty"} /\ At(c, "starting") /\ op'[c] = Idle
             \/ work[c] = "ok" /\ At(c, "stopping") /\ op'[c] = [op[c] EXCEPT !.pc = "finish"]
             \/ work[c] = "empty" /\ At(c, "stopping")
             \/ work[c] = "error" /\ op'[c] = [op[c] EXCEPT !.pc = "fail"]
      BY <1>3, <1>a DEF Answered, OpType, WorkType
    <2>2. Running = {op[c].row}
      BY <2>1 DEF UnderWay
    <2>3. CASE work[c] \in {"ok", "empty"} /\ At(c, "starting") /\ op'[c] = Idle
      <3>1. recording /\ recRunning /\ room
        BY <2>3 DEF UnderWay
      <3>2. Settled'
        BY <1>e, <1>i, <2>1, <2>2, <2>3, <3>1 DEF Settled, worker, database
      <3> QED
        BY <2>1, <3>2 DEF database
    <2>4. CASE work[c] = "ok" /\ At(c, "stopping") /\ op'[c] = [op[c] EXCEPT !.pc = "finish"]
      <3>1. Quiet
        BY <2>4 DEF UnderWay
      <3>2. op'[c].pc = "finish" /\ op'[c].row = op[c].row
        BY <1>a, <2>4 DEF OpType
      <3> QED
        BY <2>1, <2>2, <3>1, <3>2 DEF UnderWay, worker, database
    <2>5. CASE work[c] = "empty" /\ At(c, "stopping")
      BY <2>5 DEF UnderWay
    <2>6. CASE work[c] = "error" /\ op'[c] = [op[c] EXCEPT !.pc = "fail"]
      <3>1. Quiet
        BY <2>6 DEF UnderWay
      <3>2. op'[c].pc = "fail" /\ op'[c].row = op[c].row
        BY <1>a, <2>6 DEF OpType
      <3> QED
        BY <2>1, <2>2, <3>1, <3>2 DEF UnderWay, worker, database
    <2> QED
      BY <2>1, <2>3, <2>4, <2>5, <2>6
  <1>4. CASE TimesOut(c)
    BY <1>4 DEF TimesOut, Disturb
  <1>5. CASE FailRow(c)
    <2>1. /\ At(c, "fail") /\ op'[c] = Idle /\ UNCHANGED <<hasUrl, worker, work>>
          /\ SetStatus(op[c].row, "failed")
      BY <1>5, <1>a DEF FailRow, Disturb, OpType
    <2>2. Quiet /\ Running = {op[c].row} /\ work[c] = "none"
      BY <2>1 DEF UnderWay
    <2>3. op[c].row \in Rows /\ status[op[c].row] = "running"
      BY <2>2
    <2>4. status' = [status EXCEPT ![op[c].row] = "failed"]
      BY <2>1, <2>3 DEF SetStatus
    <2>5. Running' = {}
      BY <1>a, <2>2, <2>3, <2>4
    <2>6. Settled'
      BY <1>e, <1>i, <2>1, <2>2, <2>5 DEF Settled, worker
    <2> QED
      BY <1>a, <2>1, <2>4, <2>6
  <1>6. CASE FinishRow(c)
    <2>1. UNCHANGED <<worker, work>> /\ op'[c] = Idle
      BY <1>6, <1>a DEF FinishRow, OpType
    <2>2. At(c, "finish") /\ Quiet /\ Running = {op[c].row} /\ work[c] = "none"
      BY <1>6 DEF FinishRow, UnderWay
    <2>3. op[c].row \in Rows /\ status[op[c].row] = "running"
      BY <2>2
    <2>4. /\ SetStatus(op[c].row, "finished")
          /\ hasUrl' = (hasUrl \ {op[c].row}) \cup ({op[c].row} \cap Kept)
      BY <1>6, <2>2 DEF FinishRow, Disturb
    <2>5. /\ status' = [status EXCEPT ![op[c].row] = "finished"]
          /\ hasUrl' = hasUrl \cup {op[c].row}
      BY <2>3, <2>4 DEF SetStatus, Kept
    <2>6. Running' = {}
      BY <1>a, <2>2, <2>3, <2>5
    <2>7. Settled'
      BY <1>e, <1>i, <2>1, <2>2, <2>6 DEF Settled, worker
    <2> QED
      BY <1>a, <2>3, <2>5, <2>7
  <1>7. CASE Serve(c)
    <2>1. UNCHANGED <<database, op>> /\ Running' = Running
      BY <1>7 DEF Serve, CheckRecording, OpenValves, StartFails, SetRecording, StopRecording,
                  database
    <2>2. Waits(c) /\ Running = {op[c].row}
      BY <1>7 DEF Serve, CheckRecording, OpenValves, StartFails, SetRecording, StopRecording,
                  UnderWay
    <2>3. CASE CheckRecording(c)
      <3>1. Quiet /\ At(c, "starting")
        BY <2>3 DEF CheckRecording, UnderWay
      <3>2. work'[c] = "pipe" /\ room' /\ UNCHANGED <<recording, recRunning>>
        BY <1>a, <2>3, <3>1 DEF CheckRecording, WorkType
      <3> QED
        BY <2>1, <2>2, <3>1, <3>2 DEF UnderWay, database
    <2>4. CASE OpenValves(c)
      <3>1. Quiet /\ At(c, "starting") /\ room
        BY <2>4 DEF OpenValves, UnderWay
      <3>2. work'[c] = "set" /\ recRunning' /\ UNCHANGED <<recording, room>>
        BY <1>a, <2>4 DEF OpenValves, WorkType
      <3> QED
        BY <2>1, <2>2, <3>1, <3>2 DEF UnderWay, database
    <2>5. CASE StartFails(c)
      <3>1. Quiet /\ At(c, "starting")
        BY <2>5 DEF StartFails, UnderWay
      <3>2. work'[c] = "error" /\ UNCHANGED worker
        BY <1>a, <2>2, <2>5 DEF StartFails, WorkType
      <3> QED
        BY <2>1, <2>2, <3>1, <3>2 DEF UnderWay, database, worker
    <2>6. CASE SetRecording(c)
      <3>1. recRunning /\ At(c, "starting") /\ room
        BY <2>6 DEF SetRecording, UnderWay
      <3>2. work'[c] = "ok" /\ recording' /\ UNCHANGED <<recRunning, room>>
        BY <1>a, <2>2, <2>6 DEF SetRecording, WorkType
      <3> QED
        BY <2>1, <2>2, <3>1, <3>2 DEF UnderWay, database
    <2>7. CASE StopRecording(c)
      <3>1. recording /\ recRunning /\ At(c, "stopping") /\ room
        BY <2>7 DEF StopRecording, UnderWay
      <3>2. work'[c] = "ok" /\ ~recording' /\ ~recRunning'
        BY <1>a, <2>2, <2>7, <3>1 DEF StopRecording, CloseValves, WorkType
      <3> QED
        BY <2>1, <2>2, <3>1, <3>2 DEF UnderWay, database
    <2> QED
      BY <1>7, <2>3, <2>4, <2>5, <2>6, <2>7 DEF Serve
  <1> QED
    BY <1>1, <1>2, <1>3, <1>4, <1>5, <1>6, <1>7 DEF Handle

\* Requests, restarts and deletions keep rows and worker in turn.
LEMMA NextTurn == TypeOK /\ InTurn /\ [Next]_vars => InTurn'
  <1> SUFFICES ASSUME TypeOK, InTurn, [Next]_vars, ~disturbed'
               PROVE  InTurn'
    BY DEF InTurn
  <1> USE DEF At
  <1>a. op \in OpType /\ work \in WorkType /\ DOMAIN op = Requests /\ DOMAIN work = Requests
    BY DEF TypeOK, OpType, WorkType, Places, Works
  <1>d. ~disturbed
    BY DEF Next, Handle, Serve, Start, Stop, CreateRow, CreateFails, Answered, TimesOut, FailRow,
           FinishRow, CheckRecording, OpenValves, StartFails, SetRecording, StopRecording,
           Restart, Delete, Disturb, history, vars
  <1>f. \A r \in Rows : status[r] = "finished" => r \in hasUrl
    BY <1>d DEF InTurn
  <1>r. AtRest => Settled
    BY <1>d DEF InTurn, AtRest, UnderWay
  <1>1. ASSUME NEW c \in Requests, Start(c) PROVE InTurn'
    <2>1. /\ Running = {} /\ AtRest /\ UNCHANGED <<database, worker, work>>
          /\ op' = [op EXCEPT ![c] = [pc |-> "create", row |-> 0]]
      BY <1>1 DEF Start, Begin
    <2>2. Quiet /\ \A d \in Requests : op[d].pc = "idle" /\ work[d] = "none"
      BY <1>r, <2>1 DEF Settled, Quiet, AtRest
    <2>3. UnderWay(c)'
      BY <1>a, <2>1, <2>2 DEF UnderWay, Quiet, Running, database, worker
    <2>4. \A d \in Requests \ {c} : op'[d].pc = "idle" /\ work'[d] = "none"
      BY <1>a, <2>1, <2>2
    <2> QED
      BY <1>f, <2>1, <2>3, <2>4 DEF InTurn, database
  <1>2. ASSUME NEW c \in Requests, Stop(c) PROVE InTurn'
    <2>1. PICK r \in Running : op' = [op EXCEPT ![c] = [pc |-> "stopping", row |-> r]]
      BY <1>2 DEF Stop, Begin
    <2>2. AtRest /\ UNCHANGED <<database, worker>> /\ work' = [work EXCEPT ![c] = "stop"]
      BY <1>2 DEF Stop
    <2>3. /\ Running = {r} /\ recording /\ recRunning /\ room
          /\ \A d \in Requests : op[d].pc = "idle" /\ work[d] = "none"
      BY <1>r, <2>1, <2>2 DEF Settled, AtRest
    <2>4. UnderWay(c)'
      BY <1>a, <2>1, <2>2, <2>3 DEF UnderWay, Running, database, worker
    <2>5. \A d \in Requests \ {c} : op'[d].pc = "idle" /\ work'[d] = "none"
      BY <1>a, <2>1, <2>2, <2>3
    <2> QED
      BY <1>f, <2>2, <2>4, <2>5 DEF InTurn, database
  <1>3. ASSUME NEW c \in Requests, Handle(c) \/ Serve(c) PROVE InTurn'
    <2>1. UnderWay(c) /\ \A d \in Requests \ {c} : At(d, "idle") /\ work[d] = "none"
      BY <1>3, <1>d, OnlyOne
    <2>2. /\ \A r \in Rows : status'[r] = "finished" => r \in hasUrl'
          /\ Settled' \/ UnderWay(c)'
      BY <1>3, <1>f, <2>1, HandleTurn
    <2>3. \A d \in Requests \ {c} : op'[d] = op[d] /\ work'[d] = work[d]
      BY <1>3, Frame
    <2> QED
      BY <2>1, <2>2, <2>3 DEF InTurn
  <1>4. CASE Restart
    BY <1>4 DEF Restart, Disturb
  <1>5. ASSUME NEW r \in Rows, Delete(r) PROVE InTurn'
    <2>1. /\ status' = [status EXCEPT ![r] = "absent"] /\ hasUrl' = hasUrl \ {r}
          /\ status[r] # "running" /\ UNCHANGED <<worker, op, work>>
      BY <1>5 DEF Delete, Disturb
    <2>2. Running' = Running /\ \A q \in Rows : status'[q] = "finished" => q \in hasUrl'
      BY <1>f, <2>1 DEF Running, TypeOK
    <2>3. Settled => Settled'
      BY <2>1, <2>2 DEF Settled, AtRest, worker
    <2>4. \A c \in Requests : UnderWay(c) => UnderWay(c)'
      BY <2>1, <2>2 DEF UnderWay, Quiet, worker
    <2> QED
      BY <1>d, <2>1, <2>2, <2>3, <2>4 DEF InTurn
  <1>6. CASE UNCHANGED vars
    BY <1>6, <1>d DEF InTurn, Settled, UnderWay, AtRest, Running, Quiet, vars, database, worker,
                      history
  <1> QED
    BY <1>1, <1>2, <1>3, <1>4, <1>5, <1>6 DEF Next

-----------------------------------------------------------------------------
\* The types hold in every reachable state.
THEOREM TypeCorrect == Spec => []TypeOK
  <1>1. Inv => TypeOK
    BY DEF Inv
  <1> QED
    BY InitInv, NextInv, <1>1, PTL DEF Spec

\* Open valves can always be closed again: no interleaving of starts, stops,
\* timeouts and restarts leaves the pipeline recording behind a Room that does
\* not know.
THEOREM ValvesStayClosable == Spec => []ValvesCanBeClosed
  <1>1. Inv => ValvesCanBeClosed
    BY DEF Inv
  <1> QED
    BY InitInv, NextInv, <1>1, PTL DEF Spec

\* A stop that had the room to itself finishes its row only when nothing is
\* recorded any more, whatever happened before it.
THEOREM StopsTakeEffect == Spec => []StopMeansStopped
  <1>1. Inv => StopMeansStopped
    BY DEF Inv, Stopped, StopMeansStopped
  <1> QED
    BY InitInv, NextInv, <1>1, PTL DEF Spec

\* As long as requests come one after another and every call is answered, the
\* rows say what the worker does, and every finished row has its file.
THEOREM RowsTellTheTruth == Spec => []RowsMatchWorker
  <1>1. ASSUME InTurn, TypeOK
        PROVE  RowsMatchWorker
    <2> SUFFICES ASSUME AtRest, ~disturbed
                 PROVE  /\ recording = recRunning
                        /\ recRunning = (Running # {})
                        /\ Cardinality(Running) <= 1
                        /\ \A r \in Rows : status[r] = "finished" => r \in hasUrl
      BY DEF RowsMatchWorker
    <2>1. Settled /\ \A r \in Rows : status[r] = "finished" => r \in hasUrl
      BY <1>1 DEF InTurn, AtRest, UnderWay, At
    <2>2. Running = {} \/ \E r : Running = {r}
      BY <2>1 DEF Settled
    <2>3. Cardinality(Running) = 0 \/ Cardinality(Running) = 1
      BY <2>2, FS_EmptySet, FS_Singleton
    <2>4. recording \in BOOLEAN /\ recRunning \in BOOLEAN
      BY <1>1 DEF TypeOK
    <2>5. (recording <=> recRunning) /\ (recRunning <=> Running # {})
      BY <2>1 DEF Settled
    <2>6. recording = recRunning /\ recRunning = (Running # {})
      BY <2>4, <2>5, Zenon
    <2>7. Cardinality(Running) <= 1
      BY <2>3
    <2> QED
      BY <2>1, <2>6, <2>7
  <1> QED
    BY InitInv, NextInv, InitTurn, NextTurn, TypeCorrect, <1>1, PTL DEF Spec
=============================================================================
