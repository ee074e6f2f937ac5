----------------------------- MODULE RoomsProofs -----------------------------
(***************************************************************************)
(* Safety of Rooms for any number of rooms, names and API requests, with   *)
(* all the faults and restarts there are.                                  *)
(***************************************************************************)
EXTENDS Rooms, TLAPS

\* What a request holds at each of its steps.
Shape ==
  \A c \in Callers :
    /\ op[c].pc \in {"idle", "push"} <=> op[c].id = None
    /\ op[c].pc \in {"create alias", "drop alias", "rename alias", "rename row"}
         => op[c].name \in Names
    /\ op[c].pc = "drop alias" => op[c].old \in Names
    /\ op[c].pc = "push" => op[c].push \in Watched \X Layouts
    /\ op[c].id = None => op[c].name = None /\ op[c].old = None

\* A room that was never inserted has no row and no request.
Fresh == \A r \in RoomIds \ used : name[r] = None /\ Quiet(r)

\* The keys that lead to a room.
Held(r) == {k \in Keys : alias[k] = r}

\* Until it is tangled, a room has one call at a time ...
OneCall(r) == \A c, d \in Callers : op[c].id = r /\ op[d].id = r => c = d

\* ... and no key in common with another room, ...
Apart(r) == \A s \in RoomIds \ {r} : Claims(r) \cap Claims(s) = {}

\* ... and what leads to it, h, follows from its name n and its call o.
Stage(o, h, n) ==
  /\ o.pc = "create alias" => h = {} /\ n = o.name
  /\ o.pc = "drop alias"   => h = KeysOf(o.old)
  /\ o.pc = "rename alias" => h \subseteq KeysOf(o.name)
  /\ o.pc = "rename row"   => h = KeysOf(o.name)
  /\ o.pc = "delete row"   => h = KeysOf(n) /\ o.old = n
  /\ o.pc = "delete alias" => h \subseteq KeysOf(o.old) /\ n = None
  /\ o.pc = "destroy"      => h = {} /\ n = None

Resolved(r) ==
  /\ Quiet(r) => Held(r) = KeysOf(name[r])
  /\ \A c \in Callers : op[c].id = r => Stage(op[c], Held(r), name[r])

Settled(r) == OneCall(r) /\ Apart(r) /\ Resolved(r)

\* The first step of a call that changes names or aliases.
Begins(c, r, n) ==
  \/ n \in Names /\ (Create(c, r, n) \/ Rename(c, r, n))
  \/ Delete(c, r)

\* What happens without a caller of the API.
Elsewhere ==
  \/ \E r \in Watched :
       \/ Poll(r) \/ OpenRoom(r)
       \/ \E l \in Layouts : PatchLayout(r, l) \/ PushPolled(r, l) \/ PollFails(r, l)
  \/ Restart

Inv == TypeOK /\ Shape /\ Fresh /\ \A r \in RoomIds \ tangled : Settled(r)


-----------------------------------------------------------------------------
(* Types                                                                   *)

\* The keys of a name are keys.
LEMMA KeysTyped ==
  ASSUME NEW n \in Names \cup {None}
  PROVE  KeysOf(n) \subseteq Keys
  BY RoomsAssumption DEF KeysOf, Keys

\* A call that is put together from typed parts is a call.
LEMMA CallTyped ==
  ASSUME NEW p \in PCs, NEW r \in RoomIds \cup {None},
         NEW n \in Names \cup {None}, NEW m \in Names \cup {None}
  PROVE  Call(p, r, n, m) \in Calls
  BY DEF Call, Calls

\* At first the types hold, nobody calls and nothing is there.
LEMMA InitInv == Init => Inv
  <1> SUFFICES ASSUME Init PROVE Inv
    OBVIOUS
  <1>1. Idle \in Calls /\ Idle.pc = "idle" /\ Idle.id = None /\ Idle.name = None /\ Idle.old = None
    <2>1. "idle" \in PCs
      BY DEF PCs
    <2> QED
      BY <2>1, CallTyped DEF Idle, Call
  <1>2. TypeOK
    BY <1>1, RoomsAssumption DEF Init, TypeOK
  <1>3. Shape
    BY <1>1 DEF Init, Shape
  <1>4. \A r \in RoomIds : Quiet(r)
    BY <1>1, RoomsAssumption DEF Init, Quiet
  <1>5. Fresh
    BY <1>4 DEF Init, Fresh
  <1>6. ASSUME NEW r \in RoomIds PROVE Settled(r)
    <2>1. OneCall(r)
      BY <1>4 DEF OneCall, Quiet
    <2>2. Claims(r) = {}
      BY <1>4 DEF Claims, Quiet, KeysOf, Init
    <2>3. Resolved(r)
      BY <1>4, RoomsAssumption DEF Resolved, Quiet, Held, KeysOf, Init
    <2> QED
      BY <2>1, <2>2, <2>3 DEF Settled, Apart
  <1> QED
    BY <1>2, <1>3, <1>5, <1>6 DEF Inv

\* A call that goes on or ends keeps the types and shapes of all calls.
LEMMA GotoTyped ==
  ASSUME TypeOK, Shape, NEW c \in Callers, NEW p \in PCs, Goto(c, p)
  PROVE  op' \in [Callers -> Calls]
  BY DEF TypeOK, Goto, Calls

\* The same for a call that ends.
LEMMA ReturnTyped ==
  ASSUME TypeOK, NEW c \in Callers, Return(c)
  PROVE  op' \in [Callers -> Calls]
  <1>1. "idle" \in PCs
    BY DEF PCs
  <1>2. Idle \in Calls
    BY <1>1, CallTyped DEF Idle
  <1> QED
    BY <1>2 DEF TypeOK, Return

\* And for one that begins, which adds to the tangled rooms only rooms.
LEMMA BeginTyped ==
  ASSUME TypeOK, NEW c \in Callers, NEW o \in Calls, o.id \in RoomIds, Begin(c, o)
  PROVE  op' \in [Callers -> Calls] /\ tangled' \subseteq RoomIds
  BY DEF TypeOK, Begin

\* A request's step keeps the types.
LEMMA RequestTyped ==
  ASSUME TypeOK, Shape, NEW c \in Callers, Request(c)
  PROVE  TypeOK'
  <1> USE RoomsAssumption
  <1>1. CASE SetAlias(c)
    <2>1. op[c].name \in Names /\ op[c].id \in RoomIds
      BY <1>1 DEF SetAlias, At, Shape, TypeOK, Calls
    <2>2. op' \in [Callers -> Calls]
      BY <1>1, GotoTyped, ReturnTyped DEF SetAlias, PCs
    <2>3. alias' \in [Keys -> RoomIds \cup {None}] /\ tangled' \subseteq RoomIds
      BY <1>1, <2>1 DEF SetAlias, TypeOK, Tangle
    <2> QED
      BY <1>1, <2>2, <2>3 DEF SetAlias, TypeOK, rows
  <1>2. CASE DropAlias(c)
    <2>1. op[c].id \in RoomIds
      BY <1>2 DEF DropAlias, At, Shape, TypeOK, Calls
    <2>2. op' \in [Callers -> Calls]
      BY <1>2, GotoTyped DEF DropAlias, PCs
    <2>3. alias' \in [Keys -> RoomIds \cup {None}] /\ tangled' \subseteq RoomIds
      BY <1>2, <2>1 DEF DropAlias, TypeOK, Tangle
    <2> QED
      BY <1>2, <2>2, <2>3 DEF DropAlias, TypeOK, rows
  <1>3. CASE RenameRow(c)
    <2>1. op[c].name \in Names /\ op[c].id \in RoomIds
      BY <1>3 DEF RenameRow, At, Shape, TypeOK, Calls
    <2>2. op' \in [Callers -> Calls]
      BY <1>3, ReturnTyped DEF RenameRow
    <2>3. name' \in [RoomIds -> Names \cup {None}] /\ tangled' \subseteq RoomIds
      BY <1>3, <2>1 DEF RenameRow, TypeOK, Tangle
    <2> QED
      BY <1>3, <2>2, <2>3 DEF RenameRow, TypeOK
  <1>4. CASE PushLayout(c)
    <2>1. op[c].push \in Watched \X Layouts
      BY <1>4 DEF PushLayout, At, Shape
    <2>2. op' \in [Callers -> Calls]
      BY <1>4, ReturnTyped DEF PushLayout
    <2>3. shown' \in [RoomIds -> Layouts \cup {None}]
      BY <1>4, <2>1 DEF PushLayout, TypeOK, Show
    <2> QED
      BY <1>4, <2>2, <2>3 DEF PushLayout, TypeOK, rows
  <1>5. CASE DeleteRow(c)
    <2>1. op' \in [Callers -> Calls]
      BY <1>5, GotoTyped, ReturnTyped DEF DeleteRow, PCs
    <2> QED
      BY <1>5, <2>1 DEF DeleteRow, TypeOK
  <1>6. CASE DeleteAlias(c)
    <2>1. op[c].id \in RoomIds
      BY <1>6 DEF DeleteAlias, At, Shape, TypeOK, Calls
    <2>2. op' \in [Callers -> Calls]
      BY <1>6, GotoTyped DEF DeleteAlias, PCs
    <2>3. alias' \in [Keys -> RoomIds \cup {None}] /\ tangled' \subseteq RoomIds
      BY <1>6, <2>1 DEF DeleteAlias, TypeOK, Tangle
    <2> QED
      BY <1>6, <2>2, <2>3 DEF DeleteAlias, TypeOK, rows
  <1>7. CASE DestroyRoom(c)
    <2>1. op' \in [Callers -> Calls]
      BY <1>7, ReturnTyped DEF DestroyRoom
    <2>2. shown' \in [RoomIds -> Layouts \cup {None}]
      BY <1>7 DEF DestroyRoom, TypeOK
    <2> QED
      BY <1>7, <2>1, <2>2 DEF DestroyRoom, TypeOK, rows
  <1> QED
    BY <1>1, <1>2, <1>3, <1>4, <1>5, <1>6, <1>7 DEF Request

\* So does the first step of one.
LEMMA BeginningTyped ==
  ASSUME TypeOK, NEW c \in Callers, NEW r \in RoomIds, NEW n, Begins(c, r, n)
  PROVE  TypeOK'
  <1> USE RoomsAssumption
  <1>1. \A p \in {"create alias", "drop alias", "rename alias", "delete row"}, m \in Names \cup {None},
           k \in Names \cup {None} : Call(p, r, m, k) \in Calls /\ Call(p, r, m, k).id \in RoomIds
    BY CallTyped DEF PCs, Call
  <1>2. name[r] \in Names \cup {None}
    BY DEF TypeOK
  <1>3. CASE n \in Names /\ Create(c, r, n)
    <2>1. op' \in [Callers -> Calls] /\ tangled' \subseteq RoomIds
      BY <1>1, <1>3, BeginTyped DEF Create
    <2> QED
      BY <1>3, <2>1 DEF Create, TypeOK
  <1>4. CASE n \in Names /\ Rename(c, r, n)
    <2>1. op' \in [Callers -> Calls] /\ tangled' \subseteq RoomIds
      BY <1>1, <1>2, <1>4, BeginTyped DEF Rename
    <2> QED
      BY <1>4, <2>1 DEF Rename, TypeOK, rows
  <1>5. CASE Delete(c, r)
    <2>1. op' \in [Callers -> Calls] /\ tangled' \subseteq RoomIds
      BY <1>1, <1>2, <1>5, BeginTyped DEF Delete
    <2> QED
      BY <1>5, <2>1 DEF Delete, TypeOK, rows
  <1> QED
    BY <1>3, <1>4, <1>5 DEF Begins

\* So does a call that stores a layout.
LEMMA UpdateLayoutTyped ==
  ASSUME TypeOK, NEW c \in Callers, NEW r \in Watched, NEW l \in Layouts, UpdateLayout(c, r, l)
  PROVE  TypeOK'
  <1>1. [Call("push", None, None, None) EXCEPT !.push = <<r, l>>] \in Calls
    BY DEF Call, Calls, PCs
  <1>2. op' \in [Callers -> Calls]
    BY <1>1 DEF UpdateLayout, TypeOK
  <1>3. stored' \in [RoomIds -> Layouts]
    BY RoomsAssumption DEF UpdateLayout, StoreLayout, TypeOK
  <1> QED
    BY <1>2, <1>3 DEF UpdateLayout, TypeOK

\* What happens elsewhere keeps the types too.
LEMMA ElsewhereTyped ==
  ASSUME TypeOK, Elsewhere
  PROVE  TypeOK'
  <1> USE RoomsAssumption DEF TypeOK, rows
  <1>1. ASSUME NEW r \in Watched, Poll(r) PROVE TypeOK'
    BY <1>1 DEF Poll
  <1>2. ASSUME NEW r \in Watched, OpenRoom(r) PROVE TypeOK'
    BY <1>2 DEF OpenRoom
  <1>3. ASSUME NEW r \in Watched, NEW l \in Layouts, PatchLayout(r, l) PROVE TypeOK'
    BY <1>3 DEF PatchLayout, StoreLayout
  <1>4. ASSUME NEW r \in Watched, NEW l \in Layouts, PushPolled(r, l) PROVE TypeOK'
    BY <1>4 DEF PushPolled, Show
  <1>5. ASSUME NEW r \in Watched, NEW l \in Layouts, PollFails(r, l) PROVE TypeOK'
    BY <1>5 DEF PollFails
  <1>6. ASSUME Restart PROVE TypeOK'
    BY <1>6 DEF Restart
  <1> QED
    BY <1>1, <1>2, <1>3, <1>4, <1>5, <1>6 DEF Elsewhere

-----------------------------------------------------------------------------
(* Shapes                                                                  *)

Pcs4 == {"create alias", "drop alias", "rename alias", "rename row"}

\* The shape of one request.
Shaped(o) ==
  /\ o.pc \in {"idle", "push"} <=> o.id = None
  /\ o.pc \in Pcs4 => o.name \in Names
  /\ o.pc = "drop alias" => o.old \in Names
  /\ o.pc = "push" => o.push \in Watched \X Layouts
  /\ o.id = None => o.name = None /\ o.old = None

\* A step of one request keeps the shapes of all when it keeps that of its own.
LEMMA ShapeKept ==
  ASSUME TypeOK, Shape, NEW c \in Callers, NEW o, Shaped(o), op' = [op EXCEPT ![c] = o]
  PROVE  Shape'
  BY DEF TypeOK, Shape, Shaped, Pcs4

\* A request that ends has the shape of an idle one.
LEMMA IdleShaped == Shaped(Idle)
  BY DEF Shaped, Idle, Call, Pcs4

\* A call that only moves on keeps its shape when it goes nowhere that needs more.
LEMMA GotoShaped ==
  ASSUME TypeOK, Shape, NEW c \in Callers, NEW p \in PCs, Goto(c, p),
         op[c].pc \notin {"idle", "push"}, p \notin {"idle", "push", "drop alias"},
         p \in Pcs4 => op[c].pc \in Pcs4
  PROVE  Shape'
  <1> DEFINE o == [op[c] EXCEPT !.pc = p]
  <1>1. op[c] \in Calls
    BY DEF TypeOK
  <1>2. o.pc = p /\ o.id = op[c].id /\ o.name = op[c].name /\ o.old = op[c].old
    BY <1>1 DEF Calls
  <1>3. Shaped(o)
    <2> HIDE DEF o
    <2> QED
      BY <1>2 DEF Shape, Shaped, Pcs4
  <1>4. op' = [op EXCEPT ![c] = o]
    BY DEF Goto
  <1> HIDE DEF o
  <1> QED
    BY <1>3, <1>4, ShapeKept

\* Every step of a request keeps the shapes.
LEMMA RequestShape ==
  ASSUME TypeOK, Shape, NEW c \in Callers, Request(c)
  PROVE  Shape'
  <1>1. ASSUME Return(c) PROVE Shape'
    BY <1>1, IdleShaped, ShapeKept DEF Return
  <1>2. CASE SetAlias(c)
    BY <1>1, <1>2, GotoShaped DEF SetAlias, At, PCs, Pcs4
  <1>3. CASE DropAlias(c)
    BY <1>3, GotoShaped DEF DropAlias, At, PCs, Pcs4
  <1>4. CASE RenameRow(c)
    BY <1>1, <1>4 DEF RenameRow
  <1>5. CASE PushLayout(c)
    BY <1>1, <1>5 DEF PushLayout
  <1>6. CASE DeleteRow(c)
    BY <1>1, <1>6, GotoShaped DEF DeleteRow, At, PCs, Pcs4
  <1>7. CASE DeleteAlias(c)
    BY <1>7, GotoShaped DEF DeleteAlias, At, PCs, Pcs4
  <1>8. CASE DestroyRoom(c)
    BY <1>1, <1>8 DEF DestroyRoom
  <1> QED
    BY <1>2, <1>3, <1>4, <1>5, <1>6, <1>7, <1>8 DEF Request

\* So does the first step of one.
LEMMA BeginningShape ==
  ASSUME TypeOK, Shape, NEW c \in Callers, NEW r \in RoomIds, NEW n, Begins(c, r, n)
  PROVE  Shape'
  <1> USE RoomsAssumption
  <1>1. ASSUME NEW p \in {"create alias", "drop alias", "rename alias", "delete row"},
               NEW m \in Names \cup {None}, NEW k \in Names \cup {None},
               p \in Pcs4 => m \in Names, p = "drop alias" => k \in Names
        PROVE  Shaped(Call(p, r, m, k))
    BY <1>1 DEF Shaped, Call, Pcs4
  <1>2. name[r] \in Names \cup {None}
    BY DEF TypeOK
  <1>3. CASE n \in Names /\ Create(c, r, n)
    <2>1. Shaped(Call("create alias", r, n, None))
      BY <1>1, <1>3 DEF Pcs4
    <2> QED
      BY <1>3, <2>1, ShapeKept DEF Create, Begin
  <1>4. CASE n \in Names /\ Rename(c, r, n)
    <2>1. CASE name[r] \notin {None, n}
      <3>1. Shaped(Call("drop alias", r, n, name[r]))
        BY <1>1, <1>2, <1>4, <2>1 DEF Pcs4
      <3> QED
        BY <1>4, <2>1, <3>1, ShapeKept DEF Rename, Begin
    <2>2. CASE name[r] \in {None, n}
      <3>1. Shaped(Call("rename alias", r, n, name[r]))
        BY <1>1, <1>2, <1>4, <2>2 DEF Pcs4
      <3> QED
        BY <1>4, <2>2, <3>1, ShapeKept DEF Rename, Begin
    <2> QED
      BY <2>1, <2>2
  <1>5. CASE Delete(c, r)
    <2>1. Shaped(Call("delete row", r, None, name[r]))
      BY <1>1, <1>2 DEF Pcs4
    <2> QED
      BY <1>5, <2>1, ShapeKept DEF Delete, Begin
  <1> QED
    BY <1>3, <1>4, <1>5 DEF Begins

\* And a call that stores a layout.
LEMMA UpdateLayoutShape ==
  ASSUME TypeOK, Shape, NEW c \in Callers, NEW r \in Watched, NEW l \in Layouts, UpdateLayout(c, r, l)
  PROVE  Shape'
  <1> DEFINE o == [Call("push", None, None, None) EXCEPT !.push = <<r, l>>]
  <1>1. Shaped(o)
    BY DEF Shaped, Call, Pcs4
  <1>2. op' = [op EXCEPT ![c] = o]
    BY DEF UpdateLayout
  <1> HIDE DEF o
  <1> QED
    BY <1>1, <1>2, ShapeKept

-----------------------------------------------------------------------------
(* Which keys lead to a room                                               *)

\* What a room claims, spelled out.
LEMMA ClaimsAre ==
  ASSUME NEW r, NEW k
  PROVE  k \in Claims(r) <=> \/ k \in KeysOf(name[r])
                             \/ \E c \in Callers : op[c].id = r /\ k \in KeysIn(op[c])
  BY DEF Claims

\* And after a step.
LEMMA ClaimsWillBe ==
  ASSUME NEW r, NEW k
  PROVE  k \in Claims(r)' <=> \/ k \in KeysOf(name'[r])
                              \/ \E c \in Callers : op'[c].id = r /\ k \in KeysIn(op'[c])
  BY DEF Claims

\* A step that leaves a room's row, aliases and calls alone leaves it settled,
\* as long as nobody claims more keys than before.
LEMMA LeftAlone ==
  ASSUME NEW r \in RoomIds, Settled(r), name'[r] = name[r], Held(r)' = Held(r),
         \A c \in Callers : op'[c].id = r \/ op[c].id = r => op'[c] = op[c],
         \A s \in RoomIds \ {r} : Claims(r) \cap Claims(s)' = {}
  PROVE  Settled(r)'
  <1>1. OneCall(r)'
    BY DEF Settled, OneCall
  <1>2. Claims(r)' = Claims(r)
    <2>1. ASSUME NEW k PROVE k \in Claims(r)' <=> k \in Claims(r)
      BY ClaimsAre, ClaimsWillBe
    <2> QED
      BY <2>1
  <1>3. Apart(r)'
    BY <1>2 DEF Apart
  <1>4. ASSUME NEW c \in Callers, op'[c].id = r PROVE Stage(op'[c], Held(r)', name'[r])
    BY <1>4 DEF Settled, Resolved
  <1>5. Quiet(r)' => Held(r)' = KeysOf(name'[r])
    BY DEF Settled, Resolved, Quiet
  <1>6. Resolved(r)'
    BY <1>4, <1>5 DEF Resolved
  <1> QED
    BY <1>1, <1>3, <1>6 DEF Settled

\* What a call that begins tells about a room that it does not tangle.
LEMMA BeginFacts ==
  ASSUME NEW c \in Callers, NEW o, Begin(c, o), NEW r \in RoomIds, r \notin tangled'
  PROVE  /\ r \notin tangled
         /\ r # o.id => Claims(r) \cap KeysIn(o) = {}
         /\ r = o.id => Quiet(r) /\ \A s \in RoomIds \ {r} : Claims(s) \cap KeysIn(o) = {}
  <1> DEFINE others == {s \in RoomIds \ {o.id} : Claims(s) \cap KeysIn(o) # {}}
             overlap == \E d \in Callers : op[d].id = o.id
  <1>1. tangled' = tangled \cup others \cup (IF others # {} \/ overlap THEN {o.id} ELSE {})
    BY DEF Begin
  <1>2. r \notin tangled /\ r \notin others
    BY <1>1
  <1>3. ASSUME r = o.id PROVE others = {} /\ ~overlap
    BY <1>1, <1>3
  <1>4. ASSUME r = o.id PROVE Quiet(r)
    BY <1>3, <1>4 DEF Quiet
  <1> QED
    BY <1>2, <1>3, <1>4

\* A call that begins, and gives its room at most a name it holds, leaves every
\* room settled that it does not tangle.
LEMMA BeginSettled ==
  ASSUME TypeOK, NEW c \in Callers, NEW o, o.id \in RoomIds, Begin(c, o),
         \A r \in RoomIds : r # o.id => name'[r] = name[r],
         KeysOf(name'[o.id]) \subseteq KeysOf(name[o.id]) \cup KeysIn(o),
         alias' = alias,
         NEW r \in RoomIds, r \notin tangled', Settled(r),
         r = o.id => Stage(o, Held(r), name'[r])
  PROVE  Settled(r)'
  <1> USE RoomsAssumption
  <1>1. /\ op' = [op EXCEPT ![c] = o] /\ op[c] = Idle /\ op'[c] = o
        /\ \A d \in Callers \ {c} : op'[d] = op[d]
    BY DEF Begin, TypeOK
  <1>2. Idle.id = None /\ o.id # None
    BY DEF Idle, Call
  <1>3. Held(r)' = Held(r)
    BY DEF Held
  <1>4. ASSUME NEW s \in RoomIds, NEW k, k \in Claims(s)'
        PROVE  k \in Claims(s) \/ (s = o.id /\ k \in KeysIn(o))
    <2>1. CASE k \in KeysOf(name'[s])
      BY <2>1, ClaimsAre
    <2>2. CASE \E d \in Callers : op'[d].id = s /\ k \in KeysIn(op'[d])
      BY <1>1, <2>2, ClaimsAre
    <2> QED
      BY <1>4, <2>1, <2>2, ClaimsWillBe
  <1>5. CASE r # o.id
    <2>1. \A d \in Callers : op'[d].id = r \/ op[d].id = r => op'[d] = op[d]
      BY <1>1, <1>2, <1>5
    <2>2. Claims(r) \cap KeysIn(o) = {}
      BY <1>5, BeginFacts
    <2>3. \A s \in RoomIds \ {r} : Claims(r) \cap Claims(s)' = {}
      BY <1>4, <2>2 DEF Settled, Apart
    <2> QED
      BY <1>3, <1>5, <2>1, <2>3, LeftAlone
  <1>6. CASE r = o.id
    <2>1. Quiet(r) /\ \A s \in RoomIds \ {r} : Claims(s) \cap KeysIn(o) = {}
      BY <1>6, BeginFacts
    <2>2. \A d \in Callers : op'[d].id = r => d = c
      BY <1>1, <2>1 DEF Quiet
    <2>3. OneCall(r)'
      BY <2>2 DEF OneCall
    <2>4. ASSUME NEW s \in RoomIds \ {r}, NEW k, k \in Claims(r)', k \in Claims(s)' PROVE FALSE
      BY <1>4, <1>6, <2>1, <2>4 DEF Settled, Apart
    <2>5. Apart(r)'
      BY <2>4 DEF Apart
    <2>6. ~Quiet(r)'
      BY <1>1, <1>6 DEF Quiet
    <2>7. \A d \in Callers : op'[d].id = r => Stage(op'[d], Held(r)', name'[r])
      BY <1>1, <1>3, <1>6, <2>2
    <2>8. Resolved(r)'
      BY <2>6, <2>7 DEF Resolved
    <2> QED
      BY <2>3, <2>5, <2>8 DEF Settled
  <1> QED
    BY <1>5, <1>6

\* That covers the three calls that begin so.
LEMMA BeginningSettled ==
  ASSUME Inv, NEW c \in Callers, NEW q \in RoomIds, NEW n, Begins(c, q, n),
         NEW r \in RoomIds \ tangled'
  PROVE  Settled(r)'
  <1> USE RoomsAssumption
  <1>0. TypeOK /\ name[q] \in Names \cup {None}
    BY DEF Inv, TypeOK
  <1>1. CASE n \in Names /\ Create(c, q, n)
    <2> DEFINE o == Call("create alias", q, n, None)
    <2>1. o.id = q /\ o.pc = "create alias" /\ o.name = n /\ KeysIn(o) = KeysOf(n)
      BY DEF Call, KeysIn, KeysOf
    <2>2. Begin(c, o) /\ name' = [name EXCEPT ![q] = n] /\ alias' = alias
      BY <1>1 DEF Create
    <2> HIDE DEF o
    <2>3. r \notin tangled /\ Settled(r)
      BY <2>2, BeginFacts DEF Inv
    <2>4. ASSUME r = q PROVE Stage(o, Held(r), name'[r])
      <3>1. name[q] = None /\ Quiet(q)
        BY <1>1 DEF Inv, Fresh, Create
      <3>2. Held(r) = {}
        BY <2>3, <2>4, <3>1 DEF Settled, Resolved, KeysOf
      <3>3. name'[r] = n
        BY <1>0, <2>2, <2>4 DEF TypeOK
      <3> QED
        BY <2>1, <3>2, <3>3 DEF Stage
    <2>5. \A s \in RoomIds : s # q => name'[s] = name[s]
      BY <1>0, <2>2 DEF TypeOK
    <2>6. KeysOf(name'[q]) \subseteq KeysOf(name[q]) \cup KeysIn(o)
      BY <1>0, <2>1, <2>2 DEF TypeOK
    <2> QED
      BY <1>0, <2>1, <2>2, <2>3, <2>4, <2>5, <2>6, BeginSettled
  <1>2. CASE n \in Names /\ Rename(c, q, n)
    <2> DEFINE o == Call(IF name[q] \notin {None, n} THEN "drop alias" ELSE "rename alias", q, n, name[q])
    <2>1. /\ o.id = q /\ o.name = n /\ o.old = name[q]
          /\ o.pc = IF name[q] \notin {None, n} THEN "drop alias" ELSE "rename alias"
      BY DEF Call
    <2>2. Begin(c, o) /\ name' = name /\ alias' = alias
      BY <1>2 DEF Rename, rows
    <2> HIDE DEF o
    <2>3. r \notin tangled /\ Settled(r)
      BY <2>2, BeginFacts DEF Inv
    <2>4. ASSUME r = q PROVE Stage(o, Held(r), name'[r])
      <3>1. Quiet(q)
        BY <2>1, <2>2, <2>4, BeginFacts
      <3>2. Held(r) = KeysOf(name[q])
        BY <2>3, <2>4, <3>1 DEF Settled, Resolved
      <3> QED
        BY <2>1, <3>2 DEF Stage, KeysOf
    <2> QED
      BY <1>0, <2>1, <2>2, <2>3, <2>4, BeginSettled
  <1>3. CASE Delete(c, q)
    <2> DEFINE o == Call("delete row", q, None, name[q])
    <2>1. o.id = q /\ o.old = name[q] /\ o.pc = "delete row"
      BY DEF Call
    <2>2. Begin(c, o) /\ name' = name /\ alias' = alias
      BY <1>3 DEF Delete, rows
    <2> HIDE DEF o
    <2>3. r \notin tangled /\ Settled(r)
      BY <2>2, BeginFacts DEF Inv
    <2>4. ASSUME r = q PROVE Stage(o, Held(r), name'[r])
      <3>1. Quiet(q)
        BY <2>1, <2>2, <2>4, BeginFacts
      <3>2. Held(r) = KeysOf(name[q])
        BY <2>3, <2>4, <3>1 DEF Settled, Resolved
      <3> QED
        BY <2>1, <2>2, <2>4, <3>2 DEF Stage
    <2> QED
      BY <1>0, <2>1, <2>2, <2>3, <2>4, BeginSettled
  <1> QED
    BY <1>1, <1>2, <1>3 DEF Begins

-----------------------------------------------------------------------------
(* The further steps of a call                                             *)

\* What a step of call c about room s may change.
Works(c, s) ==
  /\ op[c].id = s
  /\ \A d \in Callers \ {c} : op'[d] = op[d]
  /\ op'[c].id \in {s, None}
  /\ KeysIn(op'[c]) \subseteq KeysIn(op[c])
  /\ \A r \in RoomIds : r # s => name'[r] = name[r]
  /\ KeysOf(name'[s]) \subseteq Claims(s)
  /\ \A k \in Keys : /\ k \notin KeysIn(op[c]) => alias'[k] = alias[k]
                     /\ alias'[k] \in {alias[k], s, None}

\* Such a step claims no key that was not claimed.
LEMMA ClaimsShrink ==
  ASSUME NEW c \in Callers, NEW s \in RoomIds, Works(c, s),
         NEW t \in RoomIds, NEW k, k \in Claims(t)'
  PROVE  k \in Claims(t)
  <1> USE RoomsAssumption
  <1>1. CASE k \in KeysOf(name'[t])
    BY <1>1, ClaimsAre DEF Works
  <1>2. CASE \E d \in Callers : op'[d].id = t /\ k \in KeysIn(op'[d])
    <2>1. PICK d \in Callers : op'[d].id = t /\ k \in KeysIn(op'[d])
      BY <1>2
    <2>2. op[d].id = t /\ k \in KeysIn(op[d])
      BY <2>1 DEF Works
    <2> QED
      BY <2>2, ClaimsAre
  <1> QED
    BY <1>1, <1>2, ClaimsWillBe

\* A settled room claims the keys that lead to it.
LEMMA HeldIsClaimed ==
  ASSUME TypeOK, Shape, NEW r \in RoomIds, Settled(r), NEW k \in Held(r)
  PROVE  k \in Claims(r)
  <1>1. CASE Quiet(r)
    BY <1>1, ClaimsAre DEF Settled, Resolved
  <1>2. CASE ~Quiet(r)
    <2>1. PICK c \in Callers : op[c].id = r
      BY <1>2 DEF Quiet
    <2>2. Stage(op[c], Held(r), name[r])
      BY <2>1 DEF Settled, Resolved
    <2>3. op[c].pc \in PCs \ {"idle", "push"}
      BY <2>1, RoomsAssumption DEF Shape, TypeOK, Calls
    <2>4. k \in KeysIn(op[c]) \/ k \in KeysOf(name[r])
      BY <2>2, <2>3 DEF Stage, PCs, KeysIn
    <2> QED
      BY <2>1, <2>4, ClaimsAre
  <1> QED
    BY <1>1, <1>2

\* Another settled room stays settled, ...
LEMMA OtherSettled ==
  ASSUME TypeOK, Shape, NEW c \in Callers, NEW s \in RoomIds, Works(c, s),
         NEW r \in RoomIds, r # s, Settled(r)
  PROVE  Settled(r)'
  <1> USE RoomsAssumption
  <1>1. name'[r] = name[r] /\ \A d \in Callers : op'[d].id = r \/ op[d].id = r => op'[d] = op[d]
    BY DEF Works
  <1>2. \A k : k \in KeysIn(op[c]) => k \in Claims(s)
    BY ClaimsAre DEF Works
  <1>3. ASSUME NEW k \in Keys, alias[k] = r PROVE alias'[k] = r
    <2>1. k \in Claims(r)
      BY <1>3, HeldIsClaimed DEF Held
    <2>2. k \notin Claims(s)
      BY <2>1 DEF Settled, Apart
    <2> QED
      BY <1>2, <1>3, <2>2 DEF Works
  <1>4. ASSUME NEW k \in Keys, alias'[k] = r PROVE alias[k] = r
    BY <1>4 DEF Works
  <1>5. Held(r)' = Held(r)
    BY <1>3, <1>4 DEF Held
  <1>6. \A t \in RoomIds \ {r} : Claims(r) \cap Claims(t)' = {}
    BY ClaimsShrink DEF Settled, Apart
  <1> QED
    BY <1>1, <1>5, <1>6, LeftAlone

\* How far call c has brought room s.
Done(c, s) ==
  /\ op'[c].id = None => Held(s)' = KeysOf(name'[s])
  /\ op'[c].id = s => Stage(op'[c], Held(s)', name'[s])

\* ... and the room of the call when the call has done what its stage asks.
LEMMA OwnSettled ==
  ASSUME NEW c \in Callers, NEW s \in RoomIds, Works(c, s), Settled(s), Done(c, s)
  PROVE  Settled(s)'
  <1> USE RoomsAssumption
  <1>1. \A d \in Callers : op[d].id = s => d = c
    BY DEF Settled, OneCall, Works
  <1>2. \A d \in Callers : op'[d].id = s => d = c
    BY <1>1 DEF Works
  <1>3. OneCall(s)'
    BY <1>2 DEF OneCall
  <1>4. Apart(s)'
    <2>1. ASSUME NEW t \in RoomIds \ {s}, NEW k, k \in Claims(s)', k \in Claims(t)' PROVE FALSE
      BY <2>1, ClaimsShrink DEF Settled, Apart
    <2> QED
      BY <2>1 DEF Apart
  <1>5. Quiet(s)' => op'[c].id = None
    BY DEF Quiet, Works
  <1>6. Resolved(s)'
    BY <1>2, <1>5 DEF Resolved, Done
  <1> QED
    BY <1>3, <1>4, <1>6 DEF Settled

\* What a request is doing after Goto and after Return.
LEMMA AfterGoto ==
  ASSUME TypeOK, NEW c \in Callers, NEW p, Goto(c, p)
  PROVE  /\ \A d \in Callers \ {c} : op'[d] = op[d]
         /\ op'[c].pc = p /\ op'[c].id = op[c].id
         /\ op'[c].name = op[c].name /\ op'[c].old = op[c].old
         /\ KeysIn(op'[c]) = KeysIn(op[c])
  BY DEF TypeOK, Calls, Goto, KeysIn

\* A request that returned holds nothing.
LEMMA AfterReturn ==
  ASSUME TypeOK, NEW c \in Callers, Return(c)
  PROVE  /\ \A d \in Callers \ {c} : op'[d] = op[d]
         /\ op'[c].id = None /\ KeysIn(op'[c]) = {}
  BY DEF TypeOK, Return, Idle, Call, KeysIn, KeysOf

\* A step that touches no row, alias or call about a room leaves all settled.
LEMMA StillSettled ==
  ASSUME name' = name, alias' = alias, NEW r \in RoomIds, Settled(r),
         \A d \in Callers : op[d].id # None \/ op'[d].id # None => op'[d] = op[d]
  PROVE  Settled(r)'
  <1> USE RoomsAssumption
  <1>1. ASSUME NEW s \in RoomIds, NEW k, k \in Claims(s)' PROVE k \in Claims(s)
    BY <1>1, ClaimsAre, ClaimsWillBe
  <1>2. \A s \in RoomIds \ {r} : Claims(r) \cap Claims(s)' = {}
    BY <1>1 DEF Settled, Apart
  <1>3. Held(r)' = Held(r)
    BY DEF Held
  <1>4. \A d \in Callers : op'[d].id = r \/ op[d].id = r => op'[d] = op[d]
    OBVIOUS
  <1> QED
    BY <1>2, <1>3, <1>4, LeftAlone

\* The key of a name.
LEMMA KeyOf ==
  ASSUME NEW n \in Names
  PROVE  Lower[n] \in Keys /\ KeysOf(n) = {Lower[n]}
  BY RoomsAssumption DEF Keys, KeysOf

\* A step of a call about room s whose result is known for s settles all rooms.
LEMMA StepSettled ==
  ASSUME TypeOK, Shape, NEW c \in Callers, NEW s \in RoomIds, Works(c, s),
         NEW r \in RoomIds, Settled(r),
         r = s => Done(c, s)
  PROVE  Settled(r)'
  BY OtherSettled, OwnSettled

\* The steps of requests about aliases.
LEMMA AliasSettled ==
  ASSUME TypeOK, Shape, NEW c \in Callers, SetAlias(c) \/ DropAlias(c) \/ DeleteAlias(c),
         NEW s \in RoomIds, op[c].id = s,
         NEW r \in RoomIds \ tangled', Settled(r)
  PROVE  Settled(r)'
  <1> DEFINE old == op[c].old
             new == op[c].name
  <1> USE RoomsAssumption
  <1>0. name' = name /\ alias \in [Keys -> RoomIds \cup {None}]
    BY DEF TypeOK, SetAlias, DropAlias, DeleteAlias, At, rows
  <1>1. KeysOf(name[s]) \subseteq Claims(s)
    BY ClaimsAre
  <1>2. r = s => Stage(op[c], Held(s), name[s])
    BY DEF Settled, Resolved
  <1>3. CASE SetAlias(c)
    <2>1. new \in Names /\ Lower[new] \in Keys /\ KeysOf(new) = {Lower[new]}
      BY <1>3, KeyOf DEF SetAlias, At, Shape
    <2>2. /\ \A d \in Callers \ {c} : op'[d] = op[d]
          /\ KeysIn(op'[c]) \subseteq KeysIn(op[c])
          /\ \/ op[c].pc = "create alias" /\ op'[c].id = None
             \/ op[c].pc = "rename alias" /\ op'[c].id = s /\ op'[c].pc = "rename row"
                /\ op'[c].name = new
      BY <1>3, AfterGoto, AfterReturn DEF SetAlias, At
    <2>3. CASE UNCHANGED tangled /\ alias' = [alias EXCEPT ![Lower[new]] = s]
      <3>1. Works(c, s)
        BY <1>0, <1>1, <2>1, <2>2, <2>3 DEF Works, KeysIn
      <3>2. ASSUME r = s PROVE Held(s)' = KeysOf(new)
        <4>1. Held(s) \subseteq KeysOf(new)
          BY <1>2, <2>2, <3>2 DEF Stage
        <4> QED
          BY <1>0, <2>1, <2>3, <4>1 DEF Held
      <3>3. op'[c].id = None /\ r = s => name'[s] = new
        BY <1>0, <1>2, <2>2 DEF Stage
      <3>4. r = s => Done(c, s)
        BY <1>0, <2>2, <3>2, <3>3 DEF Done, Stage
      <3> QED
        BY <3>1, <3>4, StepSettled
    <2>4. CASE Tangle(s) /\ UNCHANGED alias
      <3>1. Works(c, s)
        BY <1>0, <1>1, <2>1, <2>2, <2>4 DEF Works
      <3>2. r # s
        BY <2>4 DEF Tangle
      <3> QED
        BY <1>0, <3>1, <3>2, StepSettled
    <2> QED
      BY <1>3, <2>3, <2>4 DEF SetAlias
  <1>4. CASE DropAlias(c)
    <2>1. old \in Names /\ Lower[old] \in Keys /\ KeysOf(old) = {Lower[old]}
      BY <1>4, KeyOf DEF DropAlias, At, Shape
    <2>2. /\ \A d \in Callers \ {c} : op'[d] = op[d]
          /\ KeysIn(op'[c]) \subseteq KeysIn(op[c])
          /\ op[c].pc = "drop alias" /\ op'[c].id = s /\ op'[c].pc = "rename alias"
      BY <1>4, AfterGoto DEF DropAlias, At
    <2>3. CASE UNCHANGED tangled /\ alias' = [alias EXCEPT ![Lower[old]] = None]
      <3>1. Works(c, s)
        BY <1>0, <1>1, <2>1, <2>2, <2>3 DEF Works, KeysIn
      <3>2. ASSUME r = s PROVE Held(s)' = {}
        <4>1. Held(s) = KeysOf(old)
          BY <1>2, <2>2, <3>2 DEF Stage
        <4> QED
          BY <1>0, <2>1, <2>3, <4>1 DEF Held
      <3>3. r = s => Done(c, s)
        BY <1>0, <2>2, <3>2 DEF Done, Stage
      <3> QED
        BY <3>1, <3>3, StepSettled
    <2>4. CASE Tangle(s) /\ UNCHANGED alias
      <3>1. Works(c, s)
        BY <1>0, <1>1, <2>1, <2>2, <2>4 DEF Works
      <3>2. r # s
        BY <2>4 DEF Tangle
      <3> QED
        BY <1>0, <3>1, <3>2, StepSettled
    <2> QED
      BY <1>4, <2>3, <2>4 DEF DropAlias
  <1>5. CASE DeleteAlias(c)
    <2>2. /\ \A d \in Callers \ {c} : op'[d] = op[d]
          /\ KeysIn(op'[c]) \subseteq KeysIn(op[c])
          /\ op[c].pc = "delete alias" /\ op'[c].id = s /\ op'[c].pc = "destroy"
      BY <1>5, AfterGoto DEF DeleteAlias, At
    <2>3. CASE UNCHANGED tangled /\ alias' = [k \in Keys |-> IF k \in KeysOf(old) THEN None ELSE alias[k]]
      <3>1. Works(c, s)
        BY <1>0, <1>1, <2>2, <2>3 DEF Works, KeysIn
      <3>2. ASSUME r = s PROVE Held(s)' = {} /\ name'[s] = None
        <4>1. Held(s) \subseteq KeysOf(old) /\ name[s] = None
          BY <1>2, <2>2, <3>2 DEF Stage
        <4> QED
          BY <1>0, <2>3, <4>1 DEF Held
      <3>3. r = s => Done(c, s)
        BY <1>0, <2>2, <3>2 DEF Done, Stage
      <3> QED
        BY <3>1, <3>3, StepSettled
    <2>4. CASE Tangle(s) /\ UNCHANGED alias
      <3>1. Works(c, s)
        BY <1>0, <1>1, <2>2, <2>4 DEF Works
      <3>2. r # s
        BY <2>4 DEF Tangle
      <3> QED
        BY <1>0, <3>1, <3>2, StepSettled
    <2> QED
      BY <1>5, <2>3, <2>4 DEF DeleteAlias
  <1> QED
    BY <1>3, <1>4, <1>5

\* The steps about rows and the worker's room.
LEMMA RowSettled ==
  ASSUME TypeOK, Shape, NEW c \in Callers, RenameRow(c) \/ DeleteRow(c) \/ DestroyRoom(c),
         NEW s \in RoomIds, op[c].id = s,
         NEW r \in RoomIds \ tangled', Settled(r)
  PROVE  Settled(r)'
  <1> USE RoomsAssumption
  <1>0. alias' = alias /\ name \in [RoomIds -> Names \cup {None}]
    BY DEF TypeOK, RenameRow, DeleteRow, DestroyRoom, At, rows
  <1>1. KeysOf(name[s]) \subseteq Claims(s) /\ KeysIn(op[c]) \subseteq Claims(s)
    BY ClaimsAre
  <1>2. r = s => Stage(op[c], Held(s), name[s])
    BY DEF Settled, Resolved
  <1>3. Held(s)' = Held(s)
    BY <1>0 DEF Held
  <1>4. CASE RenameRow(c)
    <2>1. /\ \A d \in Callers \ {c} : op'[d] = op[d]
          /\ op[c].pc = "rename row" /\ op'[c].id = None /\ KeysIn(op'[c]) = {}
      BY <1>4, AfterReturn DEF RenameRow, At
    <2>2. CASE name' = [name EXCEPT ![s] = IF @ = None THEN None ELSE op[c].name]
      <3>1. name'[s] \in {name[s], op[c].name} /\ \A t \in RoomIds : t # s => name'[t] = name[t]
        BY <1>0, <2>2
      <3>2. Works(c, s)
        BY <1>0, <1>1, <2>1, <3>1 DEF Works, KeysIn
      <3>3. ASSUME r = s, name[s] # None PROVE Held(s)' = KeysOf(name'[s])
        BY <1>0, <1>2, <1>3, <2>1, <2>2, <3>3 DEF Stage
      <3>4. ASSUME r = s PROVE name[s] # None \/ s \in tangled'
        BY <1>4, <2>2 DEF RenameRow, Tangle
      <3>5. r = s => Done(c, s)
        BY <2>1, <3>3, <3>4 DEF Done
      <3> QED
        BY <3>2, <3>5, StepSettled
    <2>3. CASE Tangle(s) /\ UNCHANGED name
      <3>1. Works(c, s)
        BY <1>0, <1>1, <2>1, <2>3 DEF Works
      <3>2. r # s
        BY <2>3 DEF Tangle
      <3> QED
        BY <1>0, <3>1, <3>2, StepSettled
    <2> QED
      BY <1>4, <2>2, <2>3 DEF RenameRow
  <1>5. CASE DeleteRow(c)
    <2>1. op[c].pc = "delete row" /\ \A d \in Callers \ {c} : op'[d] = op[d]
      BY <1>5, AfterGoto, AfterReturn DEF DeleteRow, At
    <2>2. CASE name' = [name EXCEPT ![s] = None] /\ Goto(c, "delete alias")
      <3>1. /\ KeysIn(op'[c]) = KeysIn(op[c]) /\ op'[c].id = s /\ op'[c].pc = "delete alias"
            /\ op'[c].old = op[c].old
        BY <2>2, AfterGoto
      <3>2. name'[s] = None /\ \A t \in RoomIds : t # s => name'[t] = name[t]
        BY <1>0, <2>2
      <3>3. Works(c, s)
        BY <1>0, <2>1, <3>1, <3>2 DEF Works, KeysOf
      <3>4. ASSUME r = s PROVE Done(c, s)
        <4>1. Held(s) = KeysOf(name[s]) /\ op[c].old = name[s]
          BY <1>2, <2>1, <3>4 DEF Stage
        <4>2. Held(s)' = KeysOf(op'[c].old)
          BY <1>3, <3>1, <4>1
        <4>3. Stage(op'[c], Held(s)', name'[s])
          BY <3>1, <3>2, <4>2 DEF Stage
        <4> QED
          BY <3>1, <4>3 DEF Done
      <3> QED
        BY <3>3, <3>4, StepSettled
    <2>3. CASE Return(c) /\ UNCHANGED name
      <3>1. op'[c].id = None /\ KeysIn(op'[c]) = {}
        BY <2>3, AfterReturn
      <3>2. Works(c, s)
        BY <1>0, <1>1, <2>1, <2>3, <3>1 DEF Works
      <3>3. ASSUME r = s PROVE Done(c, s)
        <4>1. Held(s) = KeysOf(name[s])
          BY <1>2, <2>1, <3>3 DEF Stage
        <4> QED
          BY <1>3, <2>3, <3>1, <4>1 DEF Done
      <3> QED
        BY <3>2, <3>3, StepSettled
    <2> QED
      BY <1>5, <2>2, <2>3 DEF DeleteRow
  <1>6. CASE DestroyRoom(c)
    <2>1. /\ \A d \in Callers \ {c} : op'[d] = op[d]
          /\ op[c].pc = "destroy" /\ op'[c].id = None /\ KeysIn(op'[c]) = {} /\ name' = name
      BY <1>6, AfterReturn DEF DestroyRoom, At, rows
    <2>2. Works(c, s)
      BY <1>0, <1>1, <2>1 DEF Works
    <2>3. ASSUME r = s PROVE Done(c, s)
      <3>1. Held(s) = {} /\ name[s] = None
        BY <1>2, <2>1, <2>3 DEF Stage
      <3> QED
        BY <1>3, <2>1, <3>1 DEF Done, KeysOf
    <2> QED
      BY <2>2, <2>3, StepSettled
  <1> QED
    BY <1>4, <1>5, <1>6

-----------------------------------------------------------------------------
(* The theorems                                                            *)

\* The steps there are.
LEMMA Steps ==
  ASSUME Next
  PROVE  \/ Elsewhere
         \/ \E c \in Callers : Request(c)
         \/ \E c \in Callers, r \in RoomIds : \E n : Begins(c, r, n)
         \/ \E c \in Callers, r \in Watched, l \in Layouts : UpdateLayout(c, r, l)
  <1>1. CASE Elsewhere
    BY <1>1
  <1>2. CASE ~Elsewhere
    <2>1. PICK c \in Callers :
            \/ \E r \in RoomIds, n \in Names : Create(c, r, n) \/ Rename(c, r, n)
            \/ \E r \in RoomIds : Delete(c, r)
            \/ \E r \in Watched, l \in Layouts : UpdateLayout(c, r, l)
            \/ Request(c)
      BY <1>2 DEF Next, Elsewhere
    <2> QED
      BY <2>1 DEF Begins
  <1> QED
    BY <1>1, <1>2

\* Every step keeps the types.
LEMMA NextType == TypeOK /\ Shape /\ [Next]_vars => TypeOK'
  <1> SUFFICES ASSUME TypeOK, Shape, [Next]_vars PROVE TypeOK'
    OBVIOUS
  <1>1. CASE UNCHANGED vars
    BY <1>1 DEF vars, rows, TypeOK
  <1>2. CASE Next
    BY <1>2, Steps, BeginningTyped, UpdateLayoutTyped, RequestTyped, ElsewhereTyped
  <1> QED
    BY <1>1, <1>2

\* Every step keeps the shapes.
LEMMA NextShape == TypeOK /\ Shape /\ [Next]_vars => Shape'
  <1> SUFFICES ASSUME TypeOK, Shape, [Next]_vars PROVE Shape'
    OBVIOUS
  <1>1. CASE op' = op
    BY <1>1 DEF Shape
  <1>2. UNCHANGED vars \/ Elsewhere => op' = op
    BY DEF vars, Elsewhere, Poll, OpenRoom, PatchLayout, PushPolled, PollFails, Restart
  <1>3. CASE Next
    BY <1>1, <1>2, <1>3, Steps, BeginningShape, UpdateLayoutShape, RequestShape
  <1> QED
    BY <1>1, <1>2, <1>3

\* What a step does to the rows that were never inserted and their calls.
LEMMA NextFresh == Inv /\ [Next]_vars => Fresh'
  <1> SUFFICES ASSUME Inv, [Next]_vars, NEW r \in RoomIds \ used' PROVE name'[r] = None /\ Quiet(r)'
    BY DEF Fresh
  <1> USE RoomsAssumption
  <1>0. TypeOK /\ Shape /\ Fresh
    BY DEF Inv
  <1>1. used \subseteq used' => name[r] = None /\ Quiet(r)
    BY <1>0 DEF Fresh
  <1>2. ASSUME used \subseteq used', name'[r] = name[r], \A c \in Callers : op'[c].id \in {op[c].id, None}
        PROVE  name'[r] = None /\ Quiet(r)'
    BY <1>1, <1>2 DEF Quiet
  <1>3. CASE UNCHANGED vars \/ Elsewhere
    <2>1. UNCHANGED <<used, name, op>>
      BY <1>3 DEF vars, rows, Elsewhere, Poll, OpenRoom, PatchLayout, PushPolled, PollFails, Restart
    <2> QED
      BY <1>2, <2>1
  <1>4. ASSUME NEW c \in Callers, Request(c) PROVE name'[r] = None /\ Quiet(r)'
    <2>1. used' = used
      BY <1>4 DEF Request, SetAlias, DropAlias, RenameRow, PushLayout, DeleteRow, DeleteAlias,
                  DestroyRoom, rows
    <2>2. \A d \in Callers : op'[d].id \in {op[d].id, None}
      BY <1>0, <1>4, AfterGoto, AfterReturn
         DEF Request, SetAlias, DropAlias, RenameRow, PushLayout, DeleteRow, DeleteAlias, DestroyRoom
    <2>3. op[c].id # r
      BY <1>1, <2>1 DEF Quiet
    <2>4. name'[r] = name[r]
      BY <1>0, <1>4, <2>3 DEF TypeOK, Request, SetAlias, DropAlias, RenameRow, PushLayout, DeleteRow,
                       DeleteAlias, DestroyRoom, rows
    <2> QED
      BY <1>2, <2>1, <2>2, <2>4
  <1>5. ASSUME NEW c \in Callers, NEW q \in RoomIds, NEW n, Begins(c, q, n)
        PROVE  name'[r] = None /\ Quiet(r)'
    <2>0. \A p, m, k : Call(p, q, m, k).id = q
      BY DEF Call
    <2>1. PICK o : Begin(c, o) /\ o.id = q
      <3> HIDE RoomsAssumption
      <3> QED
        BY <1>5, <2>0 DEF Begins, Create, Rename, Delete
    <2>2. used \subseteq used' /\ q \in used'
      BY <1>0, <1>5 DEF Begins, Create, Rename, Delete, rows
    <2>3. name'[r] = name[r]
      BY <1>0, <1>5, <2>2 DEF Begins, Create, Rename, Delete, rows, TypeOK
    <2>4. op' = [op EXCEPT ![c] = o]
      BY <2>1 DEF Begin
    <2>5. \A d \in Callers : op'[d].id # r
      BY <1>0, <1>1, <2>1, <2>2, <2>4 DEF TypeOK, Quiet
    <2> QED
      BY <1>1, <2>2, <2>3, <2>5 DEF Quiet
  <1>6. ASSUME NEW c \in Callers, NEW q \in Watched, NEW l \in Layouts, UpdateLayout(c, q, l)
        PROVE  name'[r] = None /\ Quiet(r)'
    <2>1. used' = used /\ name' = name
      BY <1>6 DEF UpdateLayout
    <2>2. \A d \in Callers : op'[d].id \in {op[d].id, None}
      BY <1>0, <1>6 DEF UpdateLayout, Call, TypeOK
    <2> QED
      BY <1>2, <2>1, <2>2
  <1> QED
    BY <1>3, <1>4, <1>5, <1>6, Steps

\* A step leaves a room settled unless it tangles it.
LEMMA NextSettled == Inv /\ [Next]_vars => \A r \in RoomIds \ tangled' : Settled(r)'
  <1> SUFFICES ASSUME Inv, [Next]_vars, NEW r \in RoomIds \ tangled' PROVE Settled(r)'
    OBVIOUS
  <1> USE RoomsAssumption
  <1>0. TypeOK /\ Shape
    BY DEF Inv
  <1>1. ASSUME r \notin tangled PROVE Settled(r)
    BY <1>1 DEF Inv
  <1>2. CASE UNCHANGED vars \/ Elsewhere
    <2>1. UNCHANGED <<name, alias, op, tangled>>
      BY <1>2 DEF vars, rows, Elsewhere, Poll, OpenRoom, PatchLayout, PushPolled, PollFails, Restart
    <2> QED
      BY <1>1, <2>1, StillSettled
  <1>3. ASSUME NEW c \in Callers, Request(c) PROVE Settled(r)'
    <2>1. r \notin tangled
      BY <1>3 DEF Request, SetAlias, DropAlias, RenameRow, PushLayout, DeleteRow, DeleteAlias,
                  DestroyRoom, Tangle
    <2>2. CASE PushLayout(c)
      <3>1. op[c].id = None
        BY <1>0, <2>2 DEF PushLayout, At, Shape
      <3>2. \A d \in Callers : op[d].id # None \/ op'[d].id # None => op'[d] = op[d]
        BY <1>0, <2>2, <3>1, AfterReturn DEF PushLayout
      <3> QED
        BY <1>1, <2>1, <2>2, <3>2, StillSettled DEF PushLayout, rows
    <2>3. CASE ~PushLayout(c)
      <3>1. op[c].id \in RoomIds
        <4>1. op[c].pc \notin {"idle", "push"}
          BY <1>3, <2>3 DEF Request, SetAlias, DropAlias, RenameRow, DeleteRow, DeleteAlias,
                            DestroyRoom, At
        <4>2. op[c].id # None
          BY <1>0, <4>1 DEF Shape
        <4>3. op[c] \in Calls
          BY <1>0 DEF TypeOK
        <4> QED
          BY <4>2, <4>3 DEF Calls
      <3>2. CASE SetAlias(c) \/ DropAlias(c) \/ DeleteAlias(c)
        BY <1>0, <1>1, <2>1, <3>1, <3>2, AliasSettled
      <3>3. CASE RenameRow(c) \/ DeleteRow(c) \/ DestroyRoom(c)
        BY <1>0, <1>1, <2>1, <3>1, <3>3, RowSettled
      <3> QED
        BY <1>3, <2>3, <3>2, <3>3 DEF Request
    <2> QED
      BY <2>2, <2>3
  <1>4. ASSUME NEW c \in Callers, NEW q \in Watched, NEW l \in Layouts, UpdateLayout(c, q, l)
        PROVE  Settled(r)'
    <2>1. \A d \in Callers : op[d].id # None \/ op'[d].id # None => op'[d] = op[d]
      BY <1>0, <1>4 DEF UpdateLayout, Call, Idle, TypeOK
    <2> QED
      BY <1>1, <1>4, <2>1, StillSettled DEF UpdateLayout
  <1>5. ASSUME NEW c \in Callers, NEW q \in RoomIds, NEW n, Begins(c, q, n)
        PROVE  Settled(r)'
    BY <1>5, BeginningSettled
  <1> QED
    BY <1>2, <1>3, <1>4, <1>5, Steps

\* The invariant is inductive.
LEMMA NextInv == Inv /\ [Next]_vars => Inv'
  BY NextType, NextShape, NextFresh, NextSettled DEF Inv

\* It holds throughout.
LEMMA Invariance == Spec => []Inv
  <1>1. Init => Inv
    BY InitInv
  <1>2. Inv /\ [Next]_vars => Inv'
    BY NextInv
  <1> QED
    BY <1>1, <1>2, PTL DEF Spec

\* The variables of the control plane's rooms keep their types.
THEOREM TypeCorrect == Spec => []TypeOK
  <1>1. Inv => TypeOK
    BY DEF Inv
  <1> QED
    BY <1>1, Invariance, PTL

\* A room's name leads SIP calls to it and nothing else does, however many
\* requests about however many rooms are under way (rooms.go, aliases.go).
THEOREM AliasesFollowNames == Spec => []NamesResolve
  <1>1. Inv => NamesResolve
    BY DEF Inv, Settled, Resolved, Held, NamesResolve
  <1> QED
    BY <1>1, Invariance, PTL

=============================================================================
