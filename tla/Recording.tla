----------------------------- MODULE Recording ------------------------------
(***************************************************************************)
(* Recording one room: the control plane keeps a row per recording in      *)
(* Postgres and asks the media worker to start and stop; in the worker the *)
(* Room and its pipeline each remember whether they record.                *)
(*                                                                         *)
(* A request is a goroutine of the control plane; work[c] is the handler   *)
(* in the worker that serves it, which goes on when the request has given  *)
(* up.  A step is one statement to Postgres, or what the worker does under *)
(* one lock.  Rows are numbered in the order of started_at.                *)
(*                                                                         *)
(* Left out: the file's contents, its size, the audit log, downloads, and  *)
(* the deletion of the room, which deletes its rows.                       *)
(*                                                                         *)
(* A definition whose name ends in _bug is a slip the code does not have:  *)
(* no action uses it; it shows that a property can fail.                   *)
(***************************************************************************)
EXTENDS Naturals, FiniteSets

CONSTANTS
  Requests,   \* goroutines of the control plane
  MaxRows,    \* bound on the rows of the room
  Faults,     \* statements to Postgres may fail
  Timeouts,   \* calls to the worker may exceed the client's 10 s
  Restarts,   \* the worker may restart
  Deletes     \* users may delete rows

ASSUME RecordingAssumption ==
  /\ MaxRows \in Nat
  /\ Faults \in BOOLEAN /\ Timeouts \in BOOLEAN /\ Restarts \in BOOLEAN /\ Deletes \in BOOLEAN

Rows == 1 .. MaxRows

VARIABLES
  rows,        \* how many rows were inserted
  status,      \* status column of each row, "absent" without a row
  hasUrl,      \* rows whose url column names a file
  room,        \* the worker has a Room for the id
  recording,   \* Room.recording
  recRunning,  \* gstPipeline.recRunning: the valves are open
  op,          \* where each request stands, and the row it is about
  work,        \* what the worker does for it, or has answered
  alone,       \* history: requests that ran with no other so far
  disturbed    \* history: two requests overlapped, or a call failed

database == <<rows, status, hasUrl>>
worker == <<room, recording, recRunning>>
history == <<alone, disturbed>>
vars == <<database, worker, op, work, history>>

Idle == [pc |-> "idle", row |-> 0]
At(c, pc) == op[c].pc = pc
Goto(c, pc) == op' = [op EXCEPT ![c].pc = pc]
Return(c) == op' = [op EXCEPT ![c] = Idle]

Waits(c) == op[c].pc \in {"starting", "stopping"}
AtRest == \A c \in Requests : At(c, "idle") /\ work[c] = "none"
Kept == {r \in Rows : status[r] # "absent"}
Running == {r \in Rows : status[r] = "running"}

Init ==
  /\ rows = 0 /\ status = [r \in Rows |-> "absent"] /\ hasUrl = {}
  /\ room = FALSE /\ recording = FALSE /\ recRunning = FALSE
  /\ op = [c \in Requests |-> Idle] /\ work = [c \in Requests |-> "none"]
  /\ alone = {} /\ disturbed = FALSE

Begin(c, pc, r) ==
  /\ At(c, "idle") /\ work[c] = "none"
  /\ op' = [op EXCEPT ![c] = [pc |-> pc, row |-> r]]
  /\ alone' = IF AtRest THEN {c} ELSE {}

Disturb == disturbed' = TRUE /\ alone' = {}

-----------------------------------------------------------------------------
(* Recordings.Start and Recordings.Stop                                    *)

\* Start returns the running row when it finds one; an error of FindRunning
\* counts as none.
Start(c) ==
  /\ \/ Running = {} /\ disturbed' = (disturbed \/ ~AtRest)
     \/ Faults /\ disturbed' = TRUE
  /\ Begin(c, "create", 0)
  /\ UNCHANGED <<database, worker, work>>

\* repo.Create, then the call to the worker.
CreateRow(c) ==
  /\ At(c, "create") /\ rows < MaxRows
  /\ rows' = rows + 1
  /\ status' = [status EXCEPT ![rows'] = "running"]
  /\ op' = [op EXCEPT ![c] = [pc |-> "starting", row |-> rows']]
  /\ work' = [work EXCEPT ![c] = "check"]
  /\ UNCHANGED <<hasUrl, worker, history>>

CreateFails(c) ==
  /\ At(c, "create")
  /\ Return(c)
  /\ UNCHANGED <<database, worker, work, history>>

\* FindRunning takes the latest running row; without one Stop returns.
Stop(c) ==
  /\ \E r \in Running : (\A q \in Running : q <= r) /\ Begin(c, "stopping", r)
  /\ disturbed' = (disturbed \/ ~AtRest)
  /\ work' = [work EXCEPT ![c] = "stop"]
  /\ UNCHANGED <<database, worker>>

Answered_bug(c) ==
  /\ Waits(c)
  /\ \/ work[c] \in {"ok", "empty"} /\ At(c, "starting") /\ Return(c)
     \/ work[c] = "ok" /\ At(c, "stopping") /\ Goto(c, "finish")
     \/ work[c] = "empty" /\ At(c, "stopping") /\ Goto(c, "finish empty")
     \/ work[c] = "error" /\ Return(c)
  /\ work' = [work EXCEPT ![c] = "none"]
  /\ UNCHANGED <<database, worker, history>>

\* The worker's answer: of a start, done; of a stop, the file or none.
Answered(c) ==
  /\ Waits(c)
  /\ \/ work[c] \in {"ok", "empty"} /\ At(c, "starting") /\ Return(c)
     \/ work[c] = "ok" /\ At(c, "stopping") /\ Goto(c, "finish")
     \/ work[c] = "empty" /\ At(c, "stopping") /\ Goto(c, "finish empty")
     \/ work[c] = "error" /\ Goto(c, "fail")
  /\ work' = [work EXCEPT ![c] = "none"]
  /\ UNCHANGED <<database, worker, history>>

\* The client gives up; the worker's handler does not learn of it.
TimesOut(c) ==
  /\ Timeouts /\ Waits(c) /\ work[c] \notin {"ok", "empty", "error"}
  /\ Goto(c, "fail")
  /\ Disturb
  /\ UNCHANGED <<database, worker, work>>

\* An UPDATE of a row that was deleted changes nothing.
SetStatus(r, s) ==
  status' = IF status[r] = "absent" THEN status ELSE [status EXCEPT ![r] = s]

\* The error of Fail is dropped.
FailRow(c) ==
  /\ At(c, "fail")
  /\ \/ SetStatus(op[c].row, "failed") /\ UNCHANGED history
     \/ Faults /\ Disturb /\ UNCHANGED status
  /\ Return(c)
  /\ UNCHANGED <<rows, hasUrl, worker, work>>

FinishRow(c) ==
  LET r == op[c].row IN
  /\ At(c, "finish") \/ At(c, "finish empty")
  /\ \/ /\ SetStatus(r, "finished")
        /\ hasUrl' = (hasUrl \ {r}) \cup (IF At(c, "finish") THEN {r} \cap Kept ELSE {})
        /\ UNCHANGED history
     \/ Faults /\ Disturb /\ UNCHANGED <<status, hasUrl>>
  /\ Return(c)
  /\ UNCHANGED <<rows, worker, work>>

-----------------------------------------------------------------------------
(* Room.StartRecording and Room.StopRecording in the worker                *)

\* The handler's next step, or its answer if anybody still waits for it.
Work(c, next) == work' = [work EXCEPT ![c] = next]
Reply(c, answer) == Work(c, IF Waits(c) THEN answer ELSE "none")

\* The handler makes the Room if there is none; a Room that records answers
\* at once.
CheckRecording(c) ==
  /\ work[c] = "check"
  /\ room' = TRUE
  /\ IF recording THEN Reply(c, "ok") ELSE Work(c, "pipe")
  /\ UNCHANGED <<database, recording, recRunning, op, history>>

\* pipeline.StartRecording, outside the lock of the Room; opening the valves
\* twice is no error.
OpenValves(c) ==
  /\ work[c] = "pipe"
  /\ recRunning' = TRUE
  /\ Work(c, "set")
  /\ UNCHANGED <<database, room, recording, op, history>>

\* The Room, its pipeline or the directory cannot be made.
StartFails(c) ==
  /\ work[c] \in {"check", "pipe"}
  /\ Reply(c, "error")
  /\ UNCHANGED <<database, worker, op, history>>

SetRecording_bug(c) ==
  /\ work[c] = "set"
  /\ recording' = (recording \/ Waits(c))
  /\ Reply(c, "ok")
  /\ UNCHANGED <<database, room, recRunning, op, history>>

SetRecording(c) ==
  /\ work[c] = "set"
  /\ recording' = TRUE
  /\ Reply(c, "ok")
  /\ UNCHANGED <<database, room, recRunning, op, history>>

\* pipeline.StopRecording; the file it returns is part of the answer.
CloseValves == recRunning' = FALSE

StopRecording_bug(c) ==
  /\ work[c] = "stop"
  /\ Reply(c, IF ~room THEN "error" ELSE IF recording /\ recRunning THEN "ok" ELSE "empty")
  /\ recording' = (recording /\ ~room)
  /\ UNCHANGED <<database, room, recRunning, op, history>>

\* StopRecording holds the Room's lock throughout.  Nothing is answered for a
\* Room that does not record, an error without a Room.
StopRecording(c) ==
  /\ work[c] = "stop"
  /\ Reply(c, IF ~room THEN "error" ELSE IF recording /\ recRunning THEN "ok" ELSE "empty")
  /\ IF room /\ recording
     THEN recording' = FALSE /\ CloseValves
     ELSE UNCHANGED <<recording, recRunning>>
  /\ UNCHANGED <<database, room, op, history>>

-----------------------------------------------------------------------------
(* The worker restarts; users delete rows, a running one as well           *)

Restart ==
  /\ Restarts
  /\ room' = FALSE /\ recording' = FALSE /\ recRunning' = FALSE
  /\ work' = [c \in Requests |-> IF work[c] # "none" /\ Waits(c) THEN "error" ELSE "none"]
  /\ Disturb
  /\ UNCHANGED <<database, op>>

Delete(r) ==
  /\ Deletes /\ status[r] # "absent"
  /\ status' = [status EXCEPT ![r] = "absent"]
  /\ hasUrl' = hasUrl \ {r}
  /\ IF status[r] = "running" THEN Disturb ELSE UNCHANGED history
  /\ UNCHANGED <<rows, worker, op, work>>

Handle(c) ==
  \/ CreateRow(c) \/ CreateFails(c) \/ Answered(c) \/ TimesOut(c)
  \/ FailRow(c) \/ FinishRow(c)

Serve(c) ==
  \/ CheckRecording(c) \/ OpenValves(c) \/ StartFails(c) \/ SetRecording(c)
  \/ StopRecording(c)

Next ==
  \/ \E c \in Requests : Start(c) \/ Stop(c) \/ Handle(c) \/ Serve(c)
  \/ Restart
  \/ \E r \in Rows : Delete(r)

Spec == Init /\ [][Next]_vars

-----------------------------------------------------------------------------
(* Properties                                                              *)

\* The values the variables range over.
TypeOK ==
  /\ rows \in 0 .. MaxRows
  /\ status \in [Rows -> {"absent", "running", "finished", "failed"}]
  /\ \A r \in Rows : r > rows => status[r] = "absent"
  /\ hasUrl \subseteq Kept
  /\ room \in BOOLEAN /\ recording \in BOOLEAN /\ recRunning \in BOOLEAN
  /\ op \in [Requests -> [pc : {"idle", "create", "starting", "stopping", "fail",
                                "finish", "finish empty"},
                          row : 0 .. MaxRows]]
  /\ work \in [Requests -> {"none", "check", "pipe", "set", "stop", "ok", "empty", "error"}]
  /\ alone \subseteq Requests /\ disturbed \in BOOLEAN

\* Open valves are never forgotten: however starts, stops and timeouts
\* overlap, the Room knows that its pipeline records, or the start that opened
\* the valves is about to tell it.  Otherwise no StopRecording could close
\* them, since it asks Room.recording first.
ValvesCanBeClosed == recRunning => recording \/ \E c \in Requests : work[c] = "set"

\* When a stop that had the room to itself is about to mark its row finished,
\* nothing is being recorded any more, whatever went wrong before it began.
StopMeansStopped ==
  \A c \in alone : At(c, "finish") \/ At(c, "finish empty") => ~recording /\ ~recRunning

\* As long as requests come one after another and every call is answered,
\* Postgres, the Room and the pipeline agree: a row is running exactly while
\* the worker records, there is one at most, and every finished row has its
\* file.
RowsMatchWorker ==
  AtRest /\ ~disturbed =>
    /\ recording = recRunning
    /\ recRunning = (Running # {})
    /\ Cardinality(Running) <= 1
    /\ \A r \in Rows : status[r] = "finished" => r \in hasUrl

\* A start that had the room to itself and was answered leaves the room
\* recording.
StartMeansRecording ==
  \A c \in alone : At(c, "starting") /\ work[c] = "ok" => recording /\ recRunning

\* A finished row keeps its file.
FinishedKeepsFile ==
  [][\A r \in hasUrl : status'[r] = "finished" => r \in hasUrl']_vars
=============================================================================
