-------------------------------- MODULE Rooms --------------------------------
(***************************************************************************)
(* The rooms of the control plane (usecase/rooms.go): their rows in        *)
(* Postgres, the aliases in Redis through which a SIP call finds a room by *)
(* its name, and the layout the media worker shows.                        *)
(*                                                                         *)
(* Every API request runs in a goroutine of its own.  A step is one        *)
(* statement to Postgres, one command to Redis or one request the worker   *)
(* handles.                                                                *)
(*                                                                         *)
(* Left out: description, mode and limits of a room, which nothing reads,  *)
(* its locked flag, which no service asks for, audit records, the list of  *)
(* participants, the layout event to the clients, requests for rooms that  *)
(* never existed, and a layout given to Create, which is a Create followed *)
(* by a PatchLayout.  Layouts matter for Watched rooms only.               *)
(*                                                                         *)
(* A definition whose name ends in _bug is a slip the code does not have:  *)
(* no action uses it; it shows that a property can fail.                   *)
(***************************************************************************)
EXTENDS Naturals, FiniteSets

CONSTANTS
  RoomIds,
  Names,      \* what operators call rooms and terminals dial
  Lower,      \* ToLower and TrimSpace of a name, which is a name
  None,
  Layouts,
  Grid,       \* the layout of a new row and of a new room of the worker
  Cells,      \* layouts that have cells
  Watched,    \* rooms whose Room Control page is open and polls
  Callers,    \* API requests
  Faults      \* statements, commands and requests may fail, the worker may restart

ASSUME RoomsAssumption ==
  /\ Lower \in [Names -> Names]
  /\ \A n \in Names : Lower[Lower[n]] = Lower[n]
  /\ None \notin RoomIds \cup Names \cup Layouts
  /\ Cells \subseteq Layouts /\ Grid \in Layouts \ Cells
  /\ Watched \subseteq RoomIds
  /\ Faults \in BOOLEAN

Keys == {Lower[n] : n \in Names}

VARIABLES
  used,     \* rooms that were inserted; ids are not used again
  name,     \* the rows: the name of a room, None without a row
  stored,   \* the rows: default_layout
  alias,    \* vks4:room:alias:*
  shown,    \* the layout of the worker's room, None when it has no such room
  fetched,  \* polls: layouts that were read and are on their way to the worker
  op,       \* what a request is doing
  tangled   \* history: rooms with overlapping calls, a shared name, a failed step

rows == <<used, name, stored>>
vars == <<rows, alias, shown, fetched, op, tangled>>

Call(pc, id, n, old) == [pc |-> pc, id |-> id, name |-> n, old |-> old, push |-> None]
Idle == Call("idle", None, None, None)

Init ==
  /\ used = {}
  /\ name = [r \in RoomIds |-> None]
  /\ stored = [r \in RoomIds |-> Grid]
  /\ alias = [k \in Keys |-> None]
  /\ shown = [r \in RoomIds |-> None]
  /\ fetched = {}
  /\ op = [c \in Callers |-> Idle]
  /\ tangled = {}

At(c, pc) == op[c].pc = pc
Goto(c, pc) == op' = [op EXCEPT ![c].pc = pc]
Return(c) == op' = [op EXCEPT ![c] = Idle]
Tangle(r) == tangled' = tangled \cup {r}

\* The alias keys a room has, gets or loses.
KeysOf(n) == IF n = None THEN {} ELSE {Lower[n]}
KeysIn(o) == KeysOf(o.name) \cup KeysOf(o.old)
Claims(r) ==
  KeysOf(name[r]) \cup UNION {KeysIn(op[c]) : c \in {d \in Callers : op[d].id = r}}

\* A request that changes names or aliases starts.
Begin(c, o) ==
  LET mine == KeysIn(o)
      others == {r \in RoomIds \ {o.id} : Claims(r) \cap mine # {}}
      overlap == \E d \in Callers : op[d].id = o.id
  IN
  /\ op[c] = Idle
  /\ op' = [op EXCEPT ![c] = o]
  /\ tangled' = tangled \cup others \cup (IF others # {} \/ overlap THEN {o.id} ELSE {})

-----------------------------------------------------------------------------
(* Create: the row, then its alias; an error of Redis is dropped           *)

Create(c, r, n) ==
  /\ r \notin used
  /\ Begin(c, Call("create alias", r, n, None))
  /\ used' = used \cup {r}
  /\ name' = [name EXCEPT ![r] = n]
  /\ UNCHANGED <<stored, alias, shown, fetched>>

SetAlias(c) ==
  /\ At(c, "create alias") \/ At(c, "rename alias")
  /\ IF At(c, "create alias") THEN Return(c) ELSE Goto(c, "rename row")
  /\ \/ /\ alias' = [alias EXCEPT ![Lower[op[c].name]] = op[c].id]
        /\ UNCHANGED tangled
     \/ Faults /\ Tangle(op[c].id) /\ UNCHANGED alias
  /\ UNCHANGED <<rows, shown, fetched>>

-----------------------------------------------------------------------------
(* Update with a name: the old name is read, the alias follows, then the   *)
(* row.  A missing room gets an alias too.  When the old name cannot be    *)
(* read the old alias stays, as when Redis fails in DropAlias.             *)

Rename(c, r, n) ==
  /\ r \in used
  /\ Begin(c, Call(
       IF name[r] \notin {None, n} THEN "drop alias" ELSE "rename alias", r, n, name[r]))
  /\ UNCHANGED <<rows, alias, shown, fetched>>

DropAlias(c) ==
  /\ At(c, "drop alias")
  /\ Goto(c, "rename alias")
  /\ \/ alias' = [alias EXCEPT ![Lower[op[c].old]] = None] /\ UNCHANGED tangled
     \/ Faults /\ Tangle(op[c].id) /\ UNCHANGED alias
  /\ UNCHANGED <<rows, shown, fetched>>

\* The UPDATE of a row that is gone changes nothing and is no error; a
\* failing one leaves the aliases renamed.
RenameRow(c) ==
  LET r == op[c].id IN
  /\ At(c, "rename row")
  /\ Return(c)
  /\ \/ /\ name' = [name EXCEPT ![r] = IF @ = None THEN None ELSE op[c].name]
        /\ IF name[r] = None THEN Tangle(r) ELSE UNCHANGED tangled
     \/ Faults /\ Tangle(r) /\ UNCHANGED name
  /\ UNCHANGED <<used, stored, alias, shown, fetched>>

-----------------------------------------------------------------------------
(* Delete: the name is read, then row, alias, worker, participants.  When  *)
(* the name cannot be read the alias stays, as when DeleteAlias fails.     *)

Delete(c, r) ==
  /\ r \in used
  /\ Begin(c, Call("delete row", r, None, name[r]))
  /\ UNCHANGED <<rows, alias, shown, fetched>>

DeleteRow(c) ==
  /\ At(c, "delete row")
  /\ \/ name' = [name EXCEPT ![op[c].id] = None] /\ Goto(c, "delete alias")
     \/ Faults /\ Return(c) /\ UNCHANGED name
  /\ UNCHANGED <<used, stored, alias, shown, fetched, tangled>>

DeleteAlias_bug(c) ==
  /\ At(c, "delete alias")
  /\ Goto(c, "destroy")
  /\ alias' = [k \in Keys |-> IF k \in KeysOf(name[op[c].id]) THEN None ELSE alias[k]]
  /\ UNCHANGED <<rows, shown, fetched, tangled>>

\* The alias goes whatever room it leads to.
DeleteAlias(c) ==
  /\ At(c, "delete alias")
  /\ Goto(c, "destroy")
  /\ \/ /\ alias' = [k \in Keys |-> IF k \in KeysOf(op[c].old) THEN None ELSE alias[k]]
        /\ UNCHANGED tangled
     \/ Faults /\ Tangle(op[c].id) /\ UNCHANGED alias
  /\ UNCHANGED <<rows, shown, fetched>>

\* The worker destroys its room; the list of participants is cleared.
DestroyRoom(c) ==
  /\ At(c, "destroy")
  /\ Return(c)
  /\ \/ shown' = [shown EXCEPT ![op[c].id] = None]
     \/ Faults /\ UNCHANGED shown
  /\ UNCHANGED <<rows, alias, fetched, tangled>>

-----------------------------------------------------------------------------
(* Layouts                                                                 *)

StoreLayout(r, l) == stored' = [stored EXCEPT ![r] = IF name[r] = None THEN @ ELSE l]

\* UpdateLayout: the row first, whose failure ends the request, ...
UpdateLayout(c, r, l) ==
  /\ op[c] = Idle /\ r \in used
  /\ StoreLayout(r, l)
  /\ op' = [op EXCEPT ![c] = [Call("push", None, None, None) EXCEPT !.push = <<r, l>>]]
  /\ UNCHANGED <<used, name, alias, shown, fetched, tangled>>

\* ... Update with defaultLayout: the row only ...
PatchLayout(r, l) ==
  /\ r \in used
  /\ StoreLayout(r, l)
  /\ UNCHANGED <<used, name, alias, shown, fetched, op, tangled>>

\* PUT layout in the worker: 404 without such a room.
Show(r, l) == shown' = [shown EXCEPT ![r] = IF @ = None THEN None ELSE l]

\* ... then the worker.
PushLayout(c) ==
  /\ At(c, "push")
  /\ Return(c)
  /\ \/ Show(op[c].push[1], op[c].push[2])
     \/ Faults /\ UNCHANGED shown
  /\ UNCHANGED <<rows, alias, fetched, tangled>>

Poll_bug(r) ==
  /\ r \in Watched /\ name[r] # None
  /\ stored[r] \in Cells /\ shown[r] = None
  /\ fetched' = fetched \cup {<<r, stored[r]>>}
  /\ UNCHANGED <<rows, alias, shown, op, tangled>>

\* Participants, every 2 s: a goroutine reads the row ...
Poll(r) ==
  /\ r \in Watched /\ name[r] # None
  /\ stored[r] \in Cells
  /\ fetched' = fetched \cup {<<r, stored[r]>>}
  /\ UNCHANGED <<rows, alias, shown, op, tangled>>

\* ... and pushes its layout, in no order with others.
PushPolled(r, l) ==
  /\ <<r, l>> \in fetched
  /\ fetched' = fetched \ {<<r, l>>}
  /\ Show(r, l)
  /\ UNCHANGED <<rows, alias, op, tangled>>

PollFails(r, l) ==
  /\ Faults /\ <<r, l>> \in fetched
  /\ fetched' = fetched \ {<<r, l>>}
  /\ UNCHANGED <<rows, alias, shown, op, tangled>>

-----------------------------------------------------------------------------
(* The worker's rooms                                                      *)

\* A participant makes the worker's room, which starts with a grid; nothing
\* asks whether the row is still there.
OpenRoom(r) ==
  /\ r \in used /\ shown[r] = None
  /\ shown' = [shown EXCEPT ![r] = Grid]
  /\ UNCHANGED <<rows, alias, fetched, op, tangled>>

Restart ==
  /\ Faults
  /\ shown' = [r \in RoomIds |-> None]
  /\ UNCHANGED <<rows, alias, fetched, op, tangled>>

-----------------------------------------------------------------------------
Request(c) ==
  \/ SetAlias(c) \/ DropAlias(c) \/ RenameRow(c) \/ PushLayout(c)
  \/ DeleteRow(c) \/ DeleteAlias(c) \/ DestroyRoom(c)

Next ==
  \/ \E c \in Callers :
       \/ \E r \in RoomIds, n \in Names : Create(c, r, n) \/ Rename(c, r, n)
       \/ \E r \in RoomIds : Delete(c, r)
       \/ \E r \in Watched, l \in Layouts : UpdateLayout(c, r, l)
       \/ Request(c)
  \/ \E r \in Watched :
       \/ Poll(r) \/ OpenRoom(r)
       \/ \E l \in Layouts : PatchLayout(r, l) \/ PushPolled(r, l) \/ PollFails(r, l)
  \/ Restart

\* Requests end, at the latest by their timeouts.  The page polls every 2 s,
\* and of its polls again and again some get through.  Operators owe nothing.
Fairness ==
  /\ \A c \in Callers : WF_vars(Request(c))
  /\ \A r \in Watched : WF_vars(Poll(r))
  /\ \A r \in Watched, l \in Cells : SF_vars(PushPolled(r, l))

Spec == Init /\ [][Next]_vars /\ Fairness

-----------------------------------------------------------------------------
(* Properties                                                              *)

PCs == {"idle", "create alias", "drop alias", "rename alias", "rename row",
        "delete row", "delete alias", "destroy", "push"}

Calls == [pc : PCs, id : RoomIds \cup {None}, name : Names \cup {None},
          old : Names \cup {None}, push : (Watched \X Layouts) \cup {None}]

TypeOK ==
  /\ used \subseteq RoomIds
  /\ name \in [RoomIds -> Names \cup {None}]
  /\ stored \in [RoomIds -> Layouts]
  /\ alias \in [Keys -> RoomIds \cup {None}]
  /\ shown \in [RoomIds -> Layouts \cup {None}]
  /\ fetched \subseteq Watched \X Cells
  /\ op \in [Callers -> Calls]
  /\ tangled \subseteq RoomIds

Quiet(r) == \A c \in Callers : op[c].id # r

\* A room's alias leads to it, and nothing else does, however calls about other
\* rooms are interleaved (rooms.go: "SIP-резолв должен следовать за именем"); a
\* room that was deleted has no alias.  Excepted are rooms whose own calls
\* overlapped or failed, and rooms that shared a name.
NamesResolve ==
  \A r \in RoomIds \ tangled : Quiet(r) =>
    {k \in Keys : alias[k] = r} = KeysOf(name[r])

\* Whatever pushes overtake each other and however often the worker restarts: a
\* layout with cells that stays in the row is in the end the one a room shows
\* (Participants: "решает проблему «после рестарта media-worker раскладка
\* пропадает»").
LayoutReturns ==
  \A r \in Watched, l \in Cells :
    (<>[](name[r] # None /\ stored[r] = l /\ shown[r] # None)) => <>[](shown[r] = l)

\* The same for layouts without cells.
EveryLayoutReturns ==
  \A r \in Watched, l \in Layouts :
    (<>[](name[r] # None /\ stored[r] = l /\ shown[r] # None)) => <>[](shown[r] = l)

\* The worker looks a dialled name up as it is.
Resolve(n) == IF n \in Keys THEN alias[n] ELSE None

\* A room's name, dialled as the operator wrote it, leads to the room.
DialledAsWritten ==
  \A r \in RoomIds \ tangled : Quiet(r) /\ name[r] # None => Resolve(name[r]) = r

=============================================================================
