----------------------------- MODULE RoomProofs -----------------------------
(***************************************************************************)
(* The safety of Room for any number of peers, slots and goroutines.       *)
(***************************************************************************)
EXTENDS Room, SequenceTheorems, WellFoundedInduction, TLAPS

-----------------------------------------------------------------------------
(* Min and RemoveFirst                                                     *)

\* A set of natural numbers that is not empty has a least element, and that is
\* what Min returns.
LEMMA MinOfNaturals ==
  ASSUME NEW S \in SUBSET Nat, S # {}
  PROVE  Min(S) \in S /\ \A y \in S : Min(S) <= y
  <1> DEFINE R == OpToRel(<, Nat)
  <1>1. IsWellFoundedOn(R, Nat)
    BY NatLessThanWellFounded
  <1>2. \A x, y \in Nat : y < x => <<y, x>> \in R
    BY DEF OpToRel
  <1> HIDE DEF R
  <1>3. S \subseteq Nat
    OBVIOUS
  <1>4. PICK x \in S : \A y \in S : ~(<<y, x>> \in R)
    BY <1>1, <1>3, WFMin, Zenon
  <1>5. \A y \in S : ~(y < x)
    BY <1>2, <1>3, <1>4, Zenon
  <1>6. \A y \in S : x <= y
    BY <1>3, <1>5
  <1> QED
    BY <1>6 DEF Min

\* The place RemoveFirst removes from.
LEMMA FirstIndex ==
  ASSUME NEW T, NEW s \in Seq(T), NEW e, e \in ToSet(s)
  PROVE  \E k \in 1 .. Len(s) : s[k] = e /\ RemoveFirst(s, e) = RemoveAt(s, k)
  <1> DEFINE I == {i \in 1 .. Len(s) : s[i] = e}
  <1>1. I \in SUBSET Nat /\ I # {}
    BY DEF ToSet
  <1>2. Min(I) \in I
    BY <1>1, MinOfNaturals
  <1>3. RemoveFirst(s, e) = RemoveAt(s, Min(I))
    BY <1>1 DEF RemoveFirst, SelectInSeq
  <1> QED
    BY <1>2, <1>3

\* What is left when one place is removed.
LEMMA RemoveAtProperties ==
  ASSUME NEW T, NEW s \in Seq(T), NEW k \in 1 .. Len(s)
  PROVE  /\ RemoveAt(s, k) \in Seq(T)
         /\ Len(RemoveAt(s, k)) = Len(s) - 1
         /\ \A i \in 1 .. Len(s) - 1 :
              RemoveAt(s, k)[i] = IF i < k THEN s[i] ELSE s[i + 1]
  <1> DEFINE a == SubSeq(s, 1, k - 1)
             b == SubSeq(s, k + 1, Len(s))
  <1>1. a \in Seq(T) /\ Len(a) = k - 1 /\ \A i \in 1 .. k - 1 : a[i] = s[i]
    OBVIOUS
  <1>2. /\ b \in Seq(T) /\ Len(b) = Len(s) - k
        /\ \A i \in 1 .. Len(s) - k : b[i] = s[k + i]
    OBVIOUS
  <1>3. RemoveAt(s, k) = a \o b
    BY DEF RemoveAt
  <1> HIDE DEF a, b
  <1>4. /\ a \o b \in Seq(T) /\ Len(a \o b) = Len(a) + Len(b)
        /\ \A i \in 1 .. Len(a) + Len(b) :
             (a \o b)[i] = IF i <= Len(a) THEN a[i] ELSE b[i - Len(a)]
    BY <1>1, <1>2, ConcatProperties
  <1> QED
    BY <1>1, <1>2, <1>3, <1>4

\* RemoveFirst leaves a sequence over the same set.
LEMMA RemoveFirstType ==
  ASSUME NEW T, NEW s \in Seq(T), NEW e
  PROVE  RemoveFirst(s, e) \in Seq(T)
  <1>1. CASE e \in ToSet(s)
    BY <1>1, FirstIndex, RemoveAtProperties
  <1>2. CASE e \notin ToSet(s)
    BY <1>2 DEF RemoveFirst, ToSet
  <1> QED
    BY <1>1, <1>2

\* Of a sequence without repetitions RemoveFirst removes the element entirely,
\* and nothing else.
LEMMA RemoveFirstFromInjective ==
  ASSUME NEW T, NEW s \in Seq(T), NEW e, IsInjective(s)
  PROVE  /\ IsInjective(RemoveFirst(s, e))
         /\ ToSet(RemoveFirst(s, e)) = ToSet(s) \ {e}
  <1>1. CASE e \in ToSet(s)
    <2>1. PICK k \in 1 .. Len(s) : s[k] = e /\ RemoveFirst(s, e) = RemoveAt(s, k)
      BY <1>1, FirstIndex
    <2> DEFINE r == RemoveAt(s, k)
    <2>2. /\ r \in Seq(T) /\ Len(r) = Len(s) - 1
          /\ \A i \in 1 .. Len(s) - 1 : r[i] = IF i < k THEN s[i] ELSE s[i + 1]
      BY RemoveAtProperties
    <2> HIDE DEF r
    <2>3. \A i, j \in 1 .. Len(s) : s[i] = s[j] => i = j
      BY DEF IsInjective
    <2>4. IsInjective(r)
      BY <2>2, <2>3 DEF IsInjective
    <2>5. ToSet(r) \subseteq ToSet(s) \ {e}
      BY <2>1, <2>2, <2>3 DEF ToSet
    <2>6. ASSUME NEW i \in 1 .. Len(s), s[i] # e PROVE s[i] \in ToSet(r)
      <3>1. CASE i < k
        <4>1. i \in 1 .. Len(r) /\ r[i] = s[i]
          BY <2>2, <3>1
        <4> QED
          BY <2>2, <4>1 DEF ToSet
      <3>2. CASE i > k
        <4>1. i - 1 \in 1 .. Len(r) /\ r[i - 1] = s[i]
          BY <2>2, <3>2
        <4> QED
          BY <2>2, <4>1 DEF ToSet
      <3> QED
        BY <2>1, <2>6, <3>1, <3>2
    <2>7. ToSet(s) \ {e} \subseteq ToSet(r)
      BY <2>6 DEF ToSet
    <2> QED
      BY <2>1, <2>4, <2>5, <2>7 DEF r
  <1>2. CASE e \notin ToSet(s)
    <2>1. RemoveFirst(s, e) = s
      BY <1>2 DEF RemoveFirst, ToSet
    <2> QED
      BY <1>2, <2>1
  <1> QED
    BY <1>1, <1>2

\* Appending a new element keeps a sequence free of repetitions.
LEMMA AppendToInjective ==
  ASSUME NEW T, NEW s \in Seq(T), NEW e \in T, IsInjective(s), e \notin ToSet(s)
  PROVE  /\ IsInjective(Append(s, e))
         /\ ToSet(Append(s, e)) = ToSet(s) \cup {e}
  <1> DEFINE r == Append(s, e)
  <1>1. /\ r \in Seq(T) /\ Len(r) = Len(s) + 1
        /\ r[Len(s) + 1] = e /\ \A i \in 1 .. Len(s) : r[i] = s[i]
    BY AppendProperties
  <1> HIDE DEF r
  <1>2. IsInjective(r)
    BY <1>1 DEF IsInjective, ToSet
  <1>3. ToSet(r) \subseteq ToSet(s) \cup {e}
    BY <1>1 DEF ToSet
  <1>4. ToSet(s) \cup {e} \subseteq ToSet(r)
    <2>1. \A i \in 1 .. Len(s) : i \in 1 .. Len(r)
      BY <1>1
    <2>2. Len(s) + 1 \in 1 .. Len(r)
      BY <1>1
    <2> QED
      BY <1>1, <2>1, <2>2 DEF ToSet
  <1> QED
    BY <1>2, <1>3, <1>4 DEF r

-----------------------------------------------------------------------------
(* Types                                                                   *)

\* What a goroutine works on at each place of its handler.
PcIds ==
  /\ op[AsdLoop].pc \in {"idle", "layout", "apply"} /\ op[AsdLoop].id = NoPeer
  /\ \A c \in Callers :
       /\ op[c].pc = "idle" => op[c].id = NoPeer
       /\ op[c].pc \in {"branch", "negotiate"} => op[c].id \in WebPeers
       /\ op[c].pc = "sockets" => op[c].id \in SipIds
       /\ op[c].pc \in {"forget", "dispose"} => op[c].id \in Ids

TypeInv == TypeOK /\ PcIds

\* Entering and leaving keep the types of the join order and of the table.
LEMMA EnterType ==
  ASSUME TypeOK, NEW p \in Ids, Enter(p)
  PROVE  joinOrder' \in Seq(Ids) /\ slots' \in [Slots -> Ids \cup {NoPeer}]
  <1>1. joinOrder' \in Seq(Ids)
    BY AppendProperties DEF Enter, TypeOK
  <1>2. slots' \in [Slots -> Ids \cup {NoPeer}]
    BY DEF Enter, TakeSlot, TypeOK
  <1> QED
    BY <1>1, <1>2

\* Leaving keeps the types of the join order and the slot table.
LEMMA LeaveType ==
  ASSUME TypeOK, NEW p \in Ids, Leave(p)
  PROVE  joinOrder' \in Seq(Ids) /\ slots' \in [Slots -> Ids \cup {NoPeer}]
  <1>1. joinOrder' \in Seq(Ids)
    BY RemoveFirstType DEF Leave, TypeOK
  <1>2. slots' \in [Slots -> Ids \cup {NoPeer}]
    BY DEF Leave, ClearSlots, TypeOK
  <1> QED
    BY <1>1, <1>2

\* What the loop of AssignSlots puts into the table.
LEMMA AssignType ==
  ASSUME TypeOK, NEW f \in Assignments, NEW last
  PROVE  AssignedSlots(f, last) \in [Slots -> Ids \cup {NoPeer}]
  BY DEF AssignedSlots, Assignments, TypeOK

\* What applyLayout reads has the type of a view.
LEMMA ViewType == TypeOK => View \in Views \cup {NoView}
  BY DEF View, Views, TypeOK

-----------------------------------------------------------------------------
\* A new room is well typed.
LEMMA InitType == Init => TypeInv
  BY RoomAssumption DEF Init, TypeInv, TypeOK, PcIds, Processes, Idle, Steps, Slots

\* Every step of a handler, of asdLoop or of the pipeline keeps the types.
LEMMA NextType == TypeInv /\ [Next]_vars => TypeInv'
  <1> SUFFICES ASSUME TypeInv, [Next]_vars PROVE TypeInv'
    OBVIOUS
  <1> USE RoomAssumption
      DEF TypeInv, TypeOK, PcIds, Processes, Ids, Idle, Steps, At, Call, Goto, Return,
          CanCall, membership, detector
  <1>1. ASSUME NEW c \in Callers, NEW p \in WebPeers, AddPeer(c, p) PROVE TypeInv'
    BY <1>1 DEF AddPeer
  <1>2. ASSUME NEW c \in Callers, NEW p \in Ids, RemovePeer(c, p) PROVE TypeInv'
    BY <1>2, LeaveType DEF RemovePeer
  <1>3. ASSUME NEW c \in Callers, NEW p \in SipIds, AddSIPPeer(c, p) PROVE TypeInv'
    BY <1>3 DEF AddSIPPeer
  <1>4. ASSUME NEW c \in Callers, NEW p \in SipIds, RemoveSIPPeer(c, p) PROVE TypeInv'
    BY <1>4, LeaveType DEF RemoveSIPPeer
  <1>5. ASSUME NEW c \in Callers, NEW f \in Assignments, AssignSlots(c, f) PROVE TypeInv'
    BY <1>5, AssignType DEF AssignSlots
  <1>6. ASSUME NEW c \in Callers, NEW m \in Modes, SetLayout(c, m) PROVE TypeInv'
    BY <1>6 DEF SetLayout
  <1>7. ASSUME NEW c \in Processes, AddBranch(c) PROVE TypeInv'
    BY <1>7 DEF AddBranch
  <1>8. ASSUME NEW c \in Processes, AddBranchFails(c) PROVE TypeInv'
    BY <1>8 DEF AddBranchFails
  <1>9. ASSUME NEW c \in Processes, NegotiateFails(c) PROVE TypeInv'
    BY <1>9 DEF NegotiateFails
  <1>10. ASSUME NEW c \in Processes, Register(c) PROVE TypeInv'
    <2>1. op[c].id \in WebPeers /\ Enter(op[c].id)
      BY <1>10 DEF Register
    <2>2. joinOrder' \in Seq(Ids) /\ slots' \in [Slots -> Ids \cup {NoPeer}]
      BY <2>1, EnterType
    <2>3. op' \in [Processes -> [pc : Steps, id : Ids \cup {NoPeer}, view : Views \cup {NoView}]]
      BY <1>10 DEF Register
    <2>4. TypeOK'
      BY <1>10, <2>1, <2>2, <2>3 DEF Register
    <2>5. PcIds'
      BY <1>10, <2>1 DEF Register
    <2> QED
      BY <2>4, <2>5
  <1>11. ASSUME NEW c \in Processes, ForgetPeer(c) PROVE TypeInv'
    BY <1>11 DEF ForgetPeer
  <1>12. ASSUME NEW c \in Processes, DisposeBranch(c) PROVE TypeInv'
    BY <1>12 DEF DisposeBranch
  <1>13. ASSUME NEW c \in Processes, SocketsFail(c) PROVE TypeInv'
    BY <1>13 DEF SocketsFail
  <1>14. ASSUME NEW c \in Processes, RegisterSIP(c) PROVE TypeInv'
    <2>1. op[c].id \in SipIds /\ Enter(op[c].id)
      BY <1>14 DEF RegisterSIP
    <2>2. joinOrder' \in Seq(Ids) /\ slots' \in [Slots -> Ids \cup {NoPeer}]
      BY <2>1, EnterType
    <2>3. op' \in [Processes -> [pc : Steps, id : Ids \cup {NoPeer}, view : Views \cup {NoView}]]
      BY <1>14 DEF RegisterSIP
    <2>4. TypeOK'
      BY <1>14, <2>1, <2>2, <2>3 DEF RegisterSIP
    <2>5. PcIds'
      BY <1>14, <2>1 DEF RegisterSIP
    <2> QED
      BY <2>4, <2>5
  <1>15. ASSUME NEW c \in Processes, ReadView(c) PROVE TypeInv'
    BY <1>15, ViewType DEF ReadView
  <1>16. ASSUME NEW c \in Processes, UpdateLayout(c) PROVE TypeInv'
    BY <1>16 DEF UpdateLayout
  <1>17. ASSUME NEW p \in Ids, VadSample(p) PROVE TypeInv'
    BY <1>17 DEF VadSample
  <1>18. ASSUME NEW p \in Ids, PushLevel(p) PROVE TypeInv'
    BY <1>18 DEF PushLevel
  <1>19. CASE UNCHANGED vars
    BY <1>19 DEF vars
  <1> QED
    BY <1>1, <1>2, <1>3, <1>4, <1>5, <1>6, <1>7, <1>8, <1>9, <1>10, <1>11, <1>12, <1>13, <1>14, <1>15, <1>16, <1>17, <1>18, <1>19
       DEF Next, Begin, Advance

\* The variables of a room keep their types.
THEOREM TypeCorrect == Spec => []TypeOK
  <1>1. Spec => []TypeInv
    BY InitType, NextType, PTL DEF Spec
  <1>2. TypeInv => TypeOK
    BY DEF TypeInv
  <1> QED
    BY <1>1, <1>2, PTL

-----------------------------------------------------------------------------
(* Safety, while calls about one peer take turns (Serial) and the operator  *)
(* seats only those present (KnownOnly)                                     *)

\* Two handlers work on the same peer only in MCU mode and within AddPeer, and one
\* of them at a time is past the pipeline.
Turns ==
  \A c, d \in Callers : op[c].id = op[d].id /\ op[c].id # NoPeer /\ c # d =>
    /\ ~sfu
    /\ op[c].pc \in {"branch", "negotiate", "layout", "apply"}
    /\ op[c].pc = "negotiate" => op[d].pc # "negotiate"

\* The join order lists the participants, each once; only participants have
\* slots, and at most one each.
Seating ==
  /\ IsInjective(joinOrder)
  /\ ToSet(joinOrder) = Present
  /\ \A i \in Slots : slots[i] \in Present \cup {NoPeer}
  /\ OneSlotPerPeer

\* While a peer's connection is made, or the peer is removed, it takes no part; once
\* its branch is made the branch stays until the handler is through with it.
InFlight ==
  \A c \in Callers :
    /\ op[c].pc = "branch" => ~sfu
    /\ op[c].pc \in {"negotiate", "forget", "sockets", "dispose"} =>
         op[c].id \notin Present
    /\ op[c].pc \in {"sockets", "dispose"} /\ sfu => op[c].id \notin sipPeers
    /\ op[c].pc = "sockets" => op[c].id \in branches
    /\ op[c].pc = "negotiate" /\ ~sfu => op[c].id \in branches

InPipeline(p) == ~sfu \/ p \in SipIds

\* Who has a branch while no call is under way, and whose branch a call is making
\* or about to remove.
Staying(p) == p \in Present \/ (sfu /\ p \in sipPeers)
Handled(p) ==
  \E c \in Callers :
    /\ op[c].id = p
    /\ \/ op[c].pc \in {"negotiate", "sockets", "dispose"}
       \/ op[c].pc = "forget" /\ ~sfu

\* Every participant that needs a branch has one, in SFU mode every telephone; and
\* every branch belongs to one of them or to a peer being added or removed.
BranchedAt(p) ==
  InPipeline(p) => /\ Staying(p) => p \in branches
                   /\ p \in branches => Staying(p) \/ Handled(p)
Branched == \A p \in Ids : BranchedAt(p)

Inv ==
  /\ TypeInv
  /\ Turns
  /\ Seating
  /\ InFlight
  /\ Branched
  /\ NoLeakedConnection

-----------------------------------------------------------------------------
\* AddPeer and AddSIPPeer seat a newcomer as a conference does.
LEMMA EnterSeats ==
  ASSUME TypeOK, Seating, NEW p \in Ids, p \notin Present, Enter(p),
         Present' = Present \cup {p}
  PROVE  Seating' /\ Conf!Join(p)
  <1> USE RoomAssumption
  <1>1. FreeSlots # {} => Min(FreeSlots) \in FreeSlots
    <2>1. FreeSlots \in SUBSET Nat
      BY DEF FreeSlots, Slots
    <2> QED
      BY <2>1, MinOfNaturals
  <1>2. /\ IsInjective(joinOrder')
        /\ ToSet(joinOrder') = ToSet(joinOrder) \cup {p}
    BY AppendToInjective DEF Enter, Seating, TypeOK
  <1>3. CASE FreeSlots = {}
    <2>1. slots' = slots
      BY <1>3 DEF Enter, TakeSlot
    <2>2. Seating'
      BY <1>2, <2>1 DEF Seating, OneSlotPerPeer
    <2>3. Conf!Join(p)
      BY <1>3, <2>1 DEF Conf!Join, Conf!Free, Conf!Seats, FreeSlots, Slots
    <2> QED
      BY <2>2, <2>3
  <1>4. CASE FreeSlots # {}
    <2>1. PICK k \in Slots : slots[k] = NoPeer /\ slots' = [slots EXCEPT ![k] = p]
      BY <1>1, <1>4 DEF Enter, TakeSlot, FreeSlots
    <2>2. \A i \in Slots : slots'[i] = IF i = k THEN p ELSE slots[i]
      BY <2>1 DEF TypeOK
    <2>3. Seating'
      BY <1>2, <2>1, <2>2 DEF Seating, OneSlotPerPeer
    <2>4. Conf!Join(p)
      BY <2>1 DEF Conf!Join, Conf!Free, Conf!Seats, Slots
    <2> QED
      BY <2>3, <2>4
  <1> QED
    BY <1>3, <1>4

\* RemovePeer and RemoveSIPPeer take the place away from a participant, and
\* change nothing about anybody when p takes no part.
LEMMA LeaveSeats ==
  ASSUME TypeOK, Seating, NEW p \in Ids, Leave(p), Present' = Present \ {p}
  PROVE  /\ Seating'
         /\ p \in Present => Conf!Depart(p)
         /\ p \notin Present => Present' = Present /\ slots' = slots
  <1> USE RoomAssumption
  <1>1. /\ IsInjective(joinOrder')
        /\ ToSet(joinOrder') = ToSet(joinOrder) \ {p}
    BY RemoveFirstFromInjective DEF Leave, Seating, TypeOK
  <1>2. slots' = [i \in Slots |-> IF slots[i] = p THEN NoPeer ELSE slots[i]]
    BY DEF Leave, ClearSlots
  <1>3. Seating'
    BY <1>1, <1>2 DEF Seating, OneSlotPerPeer
  <1>4. p \in Present => Conf!Depart(p)
    BY <1>2 DEF Conf!Depart, Conf!Seats, Slots
  <1>5. p \notin Present => slots' = slots
    BY <1>2 DEF Seating, TypeOK
  <1> QED
    BY <1>3, <1>4, <1>5

\* AssignSlots reseats those present.
LEMMA AssignSeats ==
  ASSUME TypeOK, Seating, KnownOnly,
         NEW c \in Callers, NEW f \in Assignments, AssignSlots(c, f)
  PROVE  Seating' /\ Conf!Reseat
  <1> USE RoomAssumption
  <1>1. PICK last \in [Range(f) \ {NoPeer} -> DOMAIN f] :
          /\ \A p \in DOMAIN last : f[last[p]] = p
          /\ slots' = AssignedSlots(f, last)
    BY DEF AssignSlots
  <1>2. Present' = Present /\ joinOrder' = joinOrder
    BY DEF AssignSlots, Present
  <1>3. \A i \in DOMAIN f : f[i] \in Range(f)
    BY DEF Range
  <1>4. Range(f) \subseteq Present \cup {NoPeer}
    BY DEF AssignSlots
  <1>5. \A i \in Slots : slots'[i] \in Present \cup {NoPeer}
    BY <1>1, <1>3, <1>4 DEF AssignedSlots, Seating
  <1>6. ASSUME NEW i \in Slots, NEW j \in Slots, slots'[i] = slots'[j], slots'[i] # NoPeer
        PROVE  i = j
    BY <1>1, <1>3, <1>6 DEF AssignedSlots, Seating, OneSlotPerPeer
  <1>7. Seating'
    BY <1>2, <1>5, <1>6 DEF Seating, OneSlotPerPeer
  <1>8. Conf!Reseat
    BY <1>1, <1>2, <1>5, <1>6 DEF Conf!Reseat, Conf!Seats, Slots, AssignedSlots
  <1> QED
    BY <1>7, <1>8

-----------------------------------------------------------------------------
\* A new room satisfies the inductive invariant.
LEMMA InitSafe == Init => Inv
  <1> SUFFICES ASSUME Init PROVE Inv
    OBVIOUS
  <1>1. TypeInv
    BY InitType
  <1>2. Turns /\ InFlight
    BY DEF Init, Turns, InFlight, Idle, Processes
  <1>3. Seating
    BY DEF Init, Seating, OneSlotPerPeer, Present, IsInjective, ToSet
  <1>4. Branched /\ NoLeakedConnection
    BY DEF Init, Branched, BranchedAt, Staying, Handled, NoLeakedConnection, Present
  <1> QED
    BY <1>1, <1>2, <1>3, <1>4 DEF Inv

\* Every step keeps the invariant and is a step of Conference or invisible.
LEMMA NextSafe ==
  ASSUME Serial, KnownOnly, Inv, [Next]_vars
  PROVE  Inv' /\ [Conf!Next]_(Conf!vars)
  <1> USE RoomAssumption
      DEF Inv, TypeInv, TypeOK, PcIds, Processes, Idle, At, Call, Goto, Return,
          CanCall, Busy, membership, detector, NoLeakedConnection
  <1>1. TypeInv'
    BY NextType
  <1>2. ASSUME NEW c \in Callers, NEW p \in WebPeers, AddPeer(c, p)
        PROVE  Inv' /\ [Conf!Next]_(Conf!vars)
    <2>1. Turns'
      BY <1>2 DEF AddPeer, Turns
    <2>2. Seating'
      BY <1>2 DEF AddPeer, Seating, Present, OneSlotPerPeer
    <2>3. InFlight'
      BY <1>2 DEF AddPeer, InFlight, Turns, Present, Ids
    <2>4. Branched'
      BY <1>2 DEF AddPeer, Branched, BranchedAt, Staying, Handled, InPipeline, InFlight, Turns, Present, Ids
    <2>5. UNCHANGED Conf!vars
      BY <1>2 DEF AddPeer, Conf!vars, Present
    <2> QED
      BY <1>2, <1>1, <2>1, <2>2, <2>3, <2>4, <2>5 DEF AddPeer
  <1>3. ASSUME NEW c \in Callers, NEW p \in Ids, RemovePeer(c, p)
        PROVE  Inv' /\ [Conf!Next]_(Conf!vars)
    <2>1. Leave(p) /\ Present' = Present \ {p}
      BY <1>3 DEF RemovePeer, Present, Ids
    <2>2. /\ Seating'
          /\ p \in Present => Conf!Depart(p)
          /\ p \notin Present => Present' = Present /\ slots' = slots
      BY <2>1, LeaveSeats DEF Ids
    <2>3. Turns'
      BY <1>3 DEF RemovePeer, Turns
    <2>4. InFlight'
      BY <1>3, <2>1 DEF RemovePeer, InFlight, Turns
    <2>5. Branched'
      <3>1. /\ op[c].id = NoPeer /\ op'[c].id = p /\ op'[c].pc = "forget"
            /\ \A d \in Callers : d # c => op'[d] = op[d]
        BY <1>3 DEF RemovePeer
      <3>2. ASSUME NEW q \in Ids, q # p PROVE BranchedAt(q)'
        BY <1>3, <2>1, <3>1, <3>2 DEF RemovePeer, Branched, BranchedAt, Staying, Handled, InPipeline
      <3>3. BranchedAt(p)'
        <4>1. CASE ~sfu
          BY <1>3, <2>1, <3>1, <4>1 DEF RemovePeer, BranchedAt, Staying, Handled
        <4>2. CASE sfu
          <5>1. \A d \in Callers : op[d].id # p
            BY <1>3, <4>2 DEF RemovePeer
          <5> QED
            BY <1>3, <2>1, <3>1, <4>2, <5>1 DEF RemovePeer, Branched, BranchedAt, Staying, Handled, InPipeline, Present
        <4> QED
          BY <4>1, <4>2
      <3> QED
        BY <3>2, <3>3 DEF Branched, BranchedAt, Staying, Handled
    <2>6. [Conf!Next]_(Conf!vars)
      BY <2>2 DEF Conf!Next, Conf!vars, Ids
    <2> QED
      BY <1>3, <1>1, <2>2, <2>3, <2>4, <2>5, <2>6 DEF RemovePeer
  <1>4. ASSUME NEW c \in Callers, NEW p \in SipIds, AddSIPPeer(c, p)
        PROVE  Inv' /\ [Conf!Next]_(Conf!vars)
    <2>1. Turns'
      BY <1>4 DEF AddSIPPeer, Turns
    <2>2. Seating'
      BY <1>4 DEF AddSIPPeer, Seating, Present, OneSlotPerPeer
    <2>3. InFlight'
      <3>1. p \notin Present /\ (sfu => p \notin sipPeers)
        BY <1>4 DEF AddSIPPeer, Branched, BranchedAt, Staying, Handled, InPipeline, Ids
      <3> QED
        BY <1>4, <3>1 DEF AddSIPPeer, InFlight, Turns, Present, Ids
    <2>4. Branched'
      BY <1>4 DEF AddSIPPeer, Branched, BranchedAt, Staying, Handled, InPipeline, InFlight, Turns, Present, Ids
    <2>5. UNCHANGED Conf!vars
      BY <1>4 DEF AddSIPPeer, Conf!vars, Present
    <2> QED
      BY <1>4, <1>1, <2>1, <2>2, <2>3, <2>4, <2>5 DEF AddSIPPeer
  <1>5. ASSUME NEW c \in Callers, NEW p \in SipIds, RemoveSIPPeer(c, p)
        PROVE  Inv' /\ [Conf!Next]_(Conf!vars)
    <2>1. Leave(p) /\ Present' = Present \ {p}
      BY <1>5 DEF RemoveSIPPeer, Present, Ids
    <2>2. /\ Seating'
          /\ p \in Present => Conf!Depart(p)
          /\ p \notin Present => Present' = Present /\ slots' = slots
      BY <2>1, LeaveSeats DEF Ids
    <2>3. Turns'
      BY <1>5 DEF RemoveSIPPeer, Turns
    <2>4. InFlight'
      BY <1>5, <2>1 DEF RemoveSIPPeer, InFlight, Turns
    <2>5. Branched'
      BY <1>5, <2>1 DEF RemoveSIPPeer, Branched, BranchedAt, Staying, Handled, InPipeline
    <2>6. [Conf!Next]_(Conf!vars)
      BY <2>2 DEF Conf!Next, Conf!vars, Ids
    <2> QED
      BY <1>5, <1>1, <2>2, <2>3, <2>4, <2>5, <2>6 DEF RemoveSIPPeer
  <1>6. ASSUME NEW c \in Callers, NEW f \in Assignments, AssignSlots(c, f)
        PROVE  Inv' /\ [Conf!Next]_(Conf!vars)
    <2>1. Seating' /\ Conf!Reseat
      BY <1>6, AssignSeats
    <2>2. Turns'
      BY <1>6 DEF AssignSlots, Turns
    <2>3. InFlight'
      BY <1>6 DEF AssignSlots, InFlight, Present
    <2>4. Branched'
      BY <1>6 DEF AssignSlots, Branched, BranchedAt, Staying, Handled, InPipeline, Present
    <2>5. [Conf!Next]_(Conf!vars)
      BY <2>1 DEF Conf!Next
    <2> QED
      BY <1>6, <1>1, <2>1, <2>2, <2>3, <2>4, <2>5 DEF AssignSlots
  <1>7. ASSUME NEW c \in Callers, NEW m \in Modes, SetLayout(c, m)
        PROVE  Inv' /\ [Conf!Next]_(Conf!vars)
    <2>1. Turns'
      BY <1>7 DEF SetLayout, Turns
    <2>2. Seating'
      BY <1>7 DEF SetLayout, Seating, Present, OneSlotPerPeer
    <2>3. InFlight'
      BY <1>7 DEF SetLayout, InFlight, Turns, Present
    <2>4. Branched'
      BY <1>7 DEF SetLayout, Branched, BranchedAt, Staying, Handled, InPipeline, InFlight, Turns, Present
    <2>5. UNCHANGED Conf!vars
      BY <1>7 DEF SetLayout, Conf!vars, Present
    <2> QED
      BY <1>7, <1>1, <2>1, <2>2, <2>3, <2>4, <2>5 DEF SetLayout
  <1>8. ASSUME NEW c \in Processes, AddBranch(c)
        PROVE  Inv' /\ [Conf!Next]_(Conf!vars)
    <2>1. Turns'
      BY <1>8 DEF AddBranch, Turns, InFlight
    <2>2. Seating'
      BY <1>8 DEF AddBranch, Seating, Present, OneSlotPerPeer
    <2>3. InFlight'
      <3>1. c \in Callers /\ op[c].id \notin Present
        BY <1>8 DEF AddBranch, InFlight, Branched, BranchedAt, Staying, Handled, InPipeline, Ids
      <3> QED
        BY <1>8, <3>1 DEF AddBranch, InFlight, Present
    <2>4. Branched'
      BY <1>8 DEF AddBranch, Branched, BranchedAt, Staying, Handled, InPipeline, InFlight, Turns, Present
    <2>5. UNCHANGED Conf!vars
      BY <1>8 DEF AddBranch, Conf!vars, Present
    <2> QED
      BY <1>8, <1>1, <2>1, <2>2, <2>3, <2>4, <2>5 DEF AddBranch
  <1>9. ASSUME NEW c \in Processes, AddBranchFails(c)
        PROVE  Inv' /\ [Conf!Next]_(Conf!vars)
    <2>1. Turns'
      BY <1>9 DEF AddBranchFails, Turns
    <2>2. Seating'
      BY <1>9 DEF AddBranchFails, Seating, Present, OneSlotPerPeer
    <2>3. InFlight'
      BY <1>9 DEF AddBranchFails, InFlight, Turns, Present
    <2>4. Branched'
      BY <1>9 DEF AddBranchFails, Branched, BranchedAt, Staying, Handled, InPipeline, InFlight, Turns, Present
    <2>5. UNCHANGED Conf!vars
      BY <1>9 DEF AddBranchFails, Conf!vars, Present
    <2> QED
      BY <1>9, <1>1, <2>1, <2>2, <2>3, <2>4, <2>5 DEF AddBranchFails
  <1>10. ASSUME NEW c \in Processes, NegotiateFails(c)
         PROVE  Inv' /\ [Conf!Next]_(Conf!vars)
    <2>1. Turns'
      BY <1>10 DEF NegotiateFails, Turns
    <2>2. Seating'
      BY <1>10 DEF NegotiateFails, Seating, Present, OneSlotPerPeer
    <2>3. InFlight'
      BY <1>10 DEF NegotiateFails, InFlight, Turns, Present
    <2>4. Branched'
      BY <1>10 DEF NegotiateFails, Branched, BranchedAt, Staying, Handled, InPipeline, InFlight, Turns, Present
    <2>5. UNCHANGED Conf!vars
      BY <1>10 DEF NegotiateFails, Conf!vars, Present
    <2> QED
      BY <1>10, <1>1, <2>1, <2>2, <2>3, <2>4, <2>5 DEF NegotiateFails
  <1>11. ASSUME NEW c \in Processes, Register(c)
         PROVE  Inv' /\ [Conf!Next]_(Conf!vars)
    <2> DEFINE p == op[c].id
    <2>1. /\ c \in Callers /\ p \in Ids /\ p \notin Present
          /\ Enter(p) /\ Present' = Present \cup {p}
      BY <1>11 DEF Register, Present, Ids, InFlight
    <2> HIDE DEF p
    <2>2. Seating' /\ Conf!Join(p)
      BY <2>1, EnterSeats
    <2>3. Turns'
      BY <1>11 DEF Register, Turns
    <2>4. InFlight'
      <3>1. /\ op[c].pc = "negotiate" /\ op[c].id = p /\ p # NoPeer
            /\ op'[c].pc \in {"idle", "layout"}
            /\ \A d \in Callers : d # c => op'[d] = op[d]
            /\ sfu' = sfu /\ branches' = branches /\ sipPeers' = sipPeers
        BY <1>11, <2>1 DEF Register, Ids, p
      <3> HIDE DEF TypeOK, PcIds
      <3>2. \A d \in Callers : d # c /\ op[d].id = p =>
              op[d].pc \in {"branch", "layout", "apply"}
        BY <2>1, <3>1 DEF Turns
      <3>3. \A d \in Callers : d # c /\ op[d].id # p =>
              (op[d].id \in Present' <=> op[d].id \in Present)
        BY <2>1
      <3> QED
        <4>1. ASSUME NEW d \in Callers, d # c PROVE InFlight!(d)'
          BY <3>1, <3>2, <3>3, <4>1 DEF InFlight
        <4> QED
          BY <3>1, <4>1 DEF InFlight
    <2>5. Branched'
      <3>1. /\ op[c].pc = "negotiate" /\ op[c].id = p /\ p \in WebPeers
            /\ \A d \in Callers : d # c => op'[d] = op[d]
            /\ sfu' = sfu /\ branches' = branches /\ sipPeers' = sipPeers
        BY <1>11, <2>1 DEF Register, p
      <3>2. ~sfu => p \in branches
        BY <2>1, <3>1 DEF InFlight
      <3> HIDE DEF TypeOK, PcIds
      <3>3. ASSUME NEW q \in Ids, q # p PROVE BranchedAt(q)'
        <4>1. Staying(q)' <=> Staying(q)
          BY <2>1, <3>1, <3>3 DEF Staying
        <4>2. Handled(q) => Handled(q)'
          BY <3>1, <3>3 DEF Handled
        <4> QED
          BY <3>1, <4>1, <4>2 DEF Branched, BranchedAt, InPipeline
      <3>4. ASSUME NEW q \in Ids, q = p PROVE BranchedAt(q)'
        BY <2>1, <3>1, <3>2, <3>4, RoomAssumption DEF BranchedAt, InPipeline, Staying
      <3> QED
        BY <3>3, <3>4 DEF Branched, BranchedAt, Staying, Handled
    <2>6. [Conf!Next]_(Conf!vars)
      BY <2>1, <2>2 DEF Conf!Next
    <2>7. NoLeakedConnection'
      BY <1>11, <2>1 DEF Register, Present, p
    <2> QED
      BY <1>1, <2>2, <2>3, <2>4, <2>5, <2>6, <2>7
  <1>12. ASSUME NEW c \in Processes, ForgetPeer(c)
         PROVE  Inv' /\ [Conf!Next]_(Conf!vars)
    <2>1. Turns'
      BY <1>12 DEF ForgetPeer, Turns
    <2>2. Seating'
      BY <1>12 DEF ForgetPeer, Seating, Present, OneSlotPerPeer
    <2>3. InFlight'
      BY <1>12 DEF ForgetPeer, InFlight, Turns, Present
    <2>4. Branched'
      BY <1>12 DEF ForgetPeer, Branched, BranchedAt, Staying, Handled, InPipeline, InFlight, Turns, Present
    <2>5. UNCHANGED Conf!vars
      BY <1>12 DEF ForgetPeer, Conf!vars, Present
    <2> QED
      BY <1>12, <1>1, <2>1, <2>2, <2>3, <2>4, <2>5 DEF ForgetPeer
  <1>13. ASSUME NEW c \in Processes, DisposeBranch(c)
         PROVE  Inv' /\ [Conf!Next]_(Conf!vars)
    <2>1. Turns'
      BY <1>13 DEF DisposeBranch, Turns
    <2>2. Seating'
      BY <1>13 DEF DisposeBranch, Seating, Present, OneSlotPerPeer
    <2>3. InFlight'
      BY <1>13 DEF DisposeBranch, InFlight, Turns, Present
    <2>4. Branched'
      BY <1>13 DEF DisposeBranch, Branched, BranchedAt, Staying, Handled, InPipeline, InFlight, Turns, Present
    <2>5. UNCHANGED Conf!vars
      BY <1>13 DEF DisposeBranch, Conf!vars, Present
    <2> QED
      BY <1>13, <1>1, <2>1, <2>2, <2>3, <2>4, <2>5 DEF DisposeBranch
  <1>14. ASSUME NEW c \in Processes, SocketsFail(c)
         PROVE  Inv' /\ [Conf!Next]_(Conf!vars)
    <2>1. Turns'
      BY <1>14 DEF SocketsFail, Turns
    <2>2. Seating'
      BY <1>14 DEF SocketsFail, Seating, Present, OneSlotPerPeer
    <2>3. InFlight'
      BY <1>14 DEF SocketsFail, InFlight, Turns, Present
    <2>4. Branched'
      BY <1>14 DEF SocketsFail, Branched, BranchedAt, Staying, Handled, InPipeline, InFlight, Turns, Present
    <2>5. UNCHANGED Conf!vars
      BY <1>14 DEF SocketsFail, Conf!vars, Present
    <2> QED
      BY <1>14, <1>1, <2>1, <2>2, <2>3, <2>4, <2>5 DEF SocketsFail
  <1>15. ASSUME NEW c \in Processes, RegisterSIP(c)
         PROVE  Inv' /\ [Conf!Next]_(Conf!vars)
    <2> DEFINE p == op[c].id
    <2>1. /\ c \in Callers /\ p \in Ids /\ p \notin Present
          /\ Enter(p) /\ Present' = Present \cup {p}
      BY <1>15 DEF RegisterSIP, Present, Ids, InFlight
    <2> HIDE DEF p
    <2>2. Seating' /\ Conf!Join(p)
      BY <2>1, EnterSeats
    <2>3. Turns'
      BY <1>15 DEF RegisterSIP, Turns
    <2>4. InFlight'
      BY <1>15, <2>1 DEF RegisterSIP, InFlight, Turns, p
    <2>5. Branched'
      BY <1>15, <2>1 DEF RegisterSIP, Branched, BranchedAt, Staying, Handled, InPipeline, InFlight, p
    <2>6. [Conf!Next]_(Conf!vars)
      BY <2>1, <2>2 DEF Conf!Next
    <2>7. NoLeakedConnection'
      BY <1>15, <2>1 DEF RegisterSIP, Present, p
    <2> QED
      BY <1>1, <2>2, <2>3, <2>4, <2>5, <2>6, <2>7
  <1>16. ASSUME NEW c \in Processes, ReadView(c)
         PROVE  Inv' /\ [Conf!Next]_(Conf!vars)
    <2>1. Turns'
      BY <1>16 DEF ReadView, Turns
    <2>2. Seating'
      BY <1>16 DEF ReadView, Seating, Present, OneSlotPerPeer
    <2>3. InFlight'
      BY <1>16 DEF ReadView, InFlight, Turns, Present
    <2>4. Branched'
      BY <1>16 DEF ReadView, Branched, BranchedAt, Staying, Handled, InPipeline, InFlight, Turns, Present
    <2>5. UNCHANGED Conf!vars
      BY <1>16 DEF ReadView, Conf!vars, Present
    <2> QED
      BY <1>16, <1>1, <2>1, <2>2, <2>3, <2>4, <2>5 DEF ReadView
  <1>17. ASSUME NEW c \in Processes, UpdateLayout(c)
         PROVE  Inv' /\ [Conf!Next]_(Conf!vars)
    <2>1. Turns'
      BY <1>17 DEF UpdateLayout, Turns
    <2>2. Seating'
      BY <1>17 DEF UpdateLayout, Seating, Present, OneSlotPerPeer
    <2>3. InFlight'
      BY <1>17 DEF UpdateLayout, InFlight, Turns, Present
    <2>4. Branched'
      BY <1>17 DEF UpdateLayout, Branched, BranchedAt, Staying, Handled, InPipeline, InFlight, Turns, Present
    <2>5. UNCHANGED Conf!vars
      BY <1>17 DEF UpdateLayout, Conf!vars, Present
    <2> QED
      BY <1>17, <1>1, <2>1, <2>2, <2>3, <2>4, <2>5 DEF UpdateLayout
  <1>18. ASSUME NEW p \in Ids, VadSample(p)
         PROVE  Inv' /\ [Conf!Next]_(Conf!vars)
    <2>1. Turns'
      BY <1>18 DEF VadSample, Turns
    <2>2. Seating'
      BY <1>18 DEF VadSample, Seating, Present, OneSlotPerPeer
    <2>3. InFlight'
      BY <1>18 DEF VadSample, InFlight, Turns, Present
    <2>4. Branched'
      BY <1>18 DEF VadSample, Branched, BranchedAt, Staying, Handled, InPipeline, InFlight, Turns, Present
    <2>5. UNCHANGED Conf!vars
      BY <1>18 DEF VadSample, Conf!vars, Present
    <2> QED
      BY <1>18, <1>1, <2>1, <2>2, <2>3, <2>4, <2>5 DEF VadSample
  <1>19. ASSUME NEW p \in Ids, PushLevel(p)
         PROVE  Inv' /\ [Conf!Next]_(Conf!vars)
    <2>1. Turns'
      BY <1>19 DEF PushLevel, Turns
    <2>2. Seating'
      BY <1>19 DEF PushLevel, Seating, Present, OneSlotPerPeer
    <2>3. InFlight'
      BY <1>19 DEF PushLevel, InFlight, Turns, Present
    <2>4. Branched'
      BY <1>19 DEF PushLevel, Branched, BranchedAt, Staying, Handled, InPipeline, InFlight, Turns, Present
    <2>5. UNCHANGED Conf!vars
      BY <1>19 DEF PushLevel, Conf!vars, Present
    <2> QED
      BY <1>19, <1>1, <2>1, <2>2, <2>3, <2>4, <2>5 DEF PushLevel
  <1>20. CASE UNCHANGED vars
    BY <1>1, <1>20
       DEF vars, Turns, Seating, OneSlotPerPeer, InFlight, Branched, BranchedAt, Staying, Handled, InPipeline, Present,
           Conf!vars
  <1> QED
    BY <1>2, <1>3, <1>4, <1>5, <1>6, <1>7, <1>8, <1>9, <1>10, <1>11, <1>12, <1>13, <1>14, <1>15, <1>16, <1>17, <1>18, <1>19, <1>20
       DEF Next, Begin, Advance

\* A room in its initial state is an empty conference.
LEMMA InitConference == Init => Conf!Init
  BY DEF Init, Conf!Init, Conf!Seats, Present, Slots

-----------------------------------------------------------------------------
\* The inductive invariant holds in every reachable state.
THEOREM Invariance ==
  ASSUME Serial, KnownOnly
  PROVE  Spec => []Inv
  <1>1. Inv /\ [Next]_vars => Inv'
    BY NextSafe
  <1> QED
    BY InitSafe, <1>1, PTL DEF Spec

\* Nobody ever holds two slots: the rule AssignSlots restores by hand.
THEOREM SlotsAreExclusive ==
  ASSUME Serial, KnownOnly
  PROVE  Spec => []OneSlotPerPeer
  <1>1. Inv => OneSlotPerPeer
    BY DEF Inv, Seating
  <1> QED
    BY Invariance, <1>1, PTL

\* removeID takes out the only entry of a peer.
THEOREM JoinOrderHasNoRepetitions ==
  ASSUME Serial, KnownOnly
  PROVE  Spec => []JoinedOnce
  <1>1. Inv => JoinedOnce
    BY DEF Inv, Seating, JoinedOnce
  <1> QED
    BY Invariance, <1>1, PTL

\* With no call about a peer under way, join order, slots and branches agree
\* whether that peer takes part, kicked telephones included.
THEOREM NobodyIsHalfPresent ==
  ASSUME Serial, KnownOnly
  PROVE  Spec => []NoGhost
  <1>1. Inv => NoGhost
    <2> SUFFICES ASSUME Inv, NEW p \in Ids, ~Busy(p)
                 PROVE  /\ p \in ToSet(joinOrder) <=> p \in Present
                        /\ p \in Range(slots) => p \in Present
                        /\ ~sfu => (p \in branches <=> p \in Present)
                        /\ sfu /\ p \in SipIds => (p \in branches <=> p \in sipPeers)
      BY DEF NoGhost
    <2>1. p \in Range(slots) => p \in Present
      BY RoomAssumption DEF Inv, TypeInv, TypeOK, Seating, Range
    <2>2. /\ ~sfu => (p \in branches <=> p \in Present)
          /\ sfu /\ p \in SipIds => (p \in branches <=> p \in sipPeers)
      BY RoomAssumption DEF Inv, TypeInv, TypeOK, Branched, BranchedAt, Staying, Handled, InPipeline, Busy, Present
    <2> QED
      BY <2>1, <2>2 DEF Inv, Seating
  <1> QED
    BY Invariance, <1>1, PTL

\* In MCU mode any number of overlapping AddPeer of one id overwrite no open
\* PeerConnection, because the pipeline lets one of them through.
THEOREM ConnectionsStayReachable ==
  ASSUME Serial, KnownOnly
  PROVE  Spec => []NoLeakedConnection
  <1>1. Inv => NoLeakedConnection
    BY DEF Inv
  <1> QED
    BY Invariance, <1>1, PTL

\* A room implements Conference.
THEOREM RoomImplementsConference ==
  ASSUME Serial, KnownOnly
  PROVE  Spec => ImplementsConference
  <1>1. Inv /\ [Next]_vars => [Conf!Next]_(Conf!vars)
    BY NextSafe
  <1> QED
    BY Invariance, InitConference, <1>1, PTL DEF Spec, ImplementsConference, Conf!Spec

-----------------------------------------------------------------------------
(* Slots are kept, with no assumption about how calls overlap              *)

Kept(i) == slots'[i] = slots[i] \/ slots[i] = NoPeer

\* A newcomer takes no slot that somebody holds.
LEMMA EnterKeeps ==
  ASSUME TypeOK, NEW p, TakeSlot(p)
  PROVE  \A i \in Slots : Kept(i)
  <1>1. CASE FreeSlots = {}
    BY <1>1 DEF TakeSlot, Kept
  <1>2. CASE FreeSlots # {}
    <2>1. FreeSlots \in SUBSET Nat
      BY RoomAssumption DEF FreeSlots, Slots
    <2>2. Min(FreeSlots) \in FreeSlots
      BY <1>2, <2>1, MinOfNaturals
    <2> QED
      BY <1>2, <2>2 DEF TakeSlot, FreeSlots, Kept, TypeOK
  <1> QED
    BY <1>1, <1>2

\* Whoever leaves gives up no slot but its own.
LEMMA LeaveKeeps ==
  ASSUME NEW p \in Ids, ClearSlots(p)
  PROVE  \A i \in Slots : slots[i] = p \/ Kept(i)
  BY DEF ClearSlots, Kept

\* A participant stays in its slot until it leaves, is kicked or is moved by the
\* operator.
THEOREM SlotsAreKept == Spec => SlotKept
  <1> DEFINE Moved(i) == \/ slots[i] = NoPeer
                         \/ slots'[i] = slots[i]
                         \/ slots[i] \notin Present'
                         \/ \E c \in Callers, f \in Assignments : AssignSlots(c, f)
  <1>1. ASSUME TypeInv, [Next]_vars, NEW i \in Slots PROVE Moved(i)
    <2>1. CASE slots' = slots
      BY <2>1
    <2>2. CASE \E c \in Callers, f \in Assignments : AssignSlots(c, f)
      BY <2>2
    <2>3. ASSUME NEW c \in Callers, NEW p \in Ids, RemovePeer(c, p)
          PROVE  Moved(i)
      <3>1. slots[i] = p \/ Kept(i)
        BY <2>3, LeaveKeeps DEF RemovePeer, Leave, Ids
      <3>2. p \notin Present'
        BY <1>1, <2>3, RoomAssumption DEF RemovePeer, Present, TypeInv, TypeOK
      <3> QED
        BY <3>1, <3>2 DEF Kept
    <2>4. ASSUME NEW c \in Callers, NEW p \in SipIds, RemoveSIPPeer(c, p)
          PROVE  Moved(i)
      <3>1. slots[i] = p \/ Kept(i)
        BY <2>4, LeaveKeeps DEF RemoveSIPPeer, Leave, Ids
      <3>2. p \notin Present'
        BY <1>1, <2>4, RoomAssumption DEF RemoveSIPPeer, Present, TypeInv, TypeOK
      <3> QED
        BY <3>1, <3>2 DEF Kept
    <2>5. ASSUME NEW c \in Processes, Register(c) \/ RegisterSIP(c)
          PROVE  Moved(i)
      <3>1. TakeSlot(op[c].id)
        BY <2>5 DEF Register, RegisterSIP, Enter
      <3>2. Kept(i)
        BY <1>1, <3>1, EnterKeeps DEF TypeInv
      <3> QED
        BY <3>2 DEF Kept
    <2> QED
      BY <1>1, <2>1, <2>2, <2>3, <2>4, <2>5
         DEF Next, Begin, Advance, vars, membership, AddPeer, AddSIPPeer, SetLayout,
             AddBranch, AddBranchFails, NegotiateFails, ForgetPeer, DisposeBranch,
             SocketsFail, ReadView, UpdateLayout, VadSample, PushLevel
  <1>2. TypeInv /\ [Next]_vars => [\A i \in Slots : Moved(i)]_vars
    BY <1>1
  <1>3. Spec => []TypeInv
    BY InitType, NextType, PTL DEF Spec
  <1> QED
    BY <1>2, <1>3, PTL DEF Spec, SlotKept

=============================================================================
