----------------------------- MODULE Conference -----------------------------
(***************************************************************************)
(* What a room promises about its numbered slots, without goroutines,      *)
(* pipelines or error paths: people join and leave, a newcomer gets a      *)
(* free seat if there is one, nobody is moved by somebody else's coming    *)
(* or going, and the operator may reseat those present.                    *)
(***************************************************************************)
EXTENDS Naturals

CONSTANTS People, Nobody, SeatCount

Seats == 0 .. SeatCount - 1

VARIABLES members, seats
vars == <<members, seats>>

Init ==
  /\ members = {}
  /\ seats = [s \in Seats |-> Nobody]

Free == {s \in Seats : seats[s] = Nobody}

Join(p) ==
  /\ p \notin members
  /\ members' = members \cup {p}
  /\ \/ /\ Free = {} /\ seats' = seats
     \/ \E s \in Free : seats' = [seats EXCEPT ![s] = p]

Depart(p) ==
  /\ p \in members
  /\ members' = members \ {p}
  /\ seats' = [s \in Seats |-> IF seats[s] = p THEN Nobody ELSE seats[s]]

\* Any seating of the members in which nobody has two seats.
Reseat ==
  /\ seats' \in [Seats -> members \cup {Nobody}]
  /\ \A s, t \in Seats : seats'[s] = seats'[t] /\ seats'[s] # Nobody => s = t
  /\ UNCHANGED members

Next == (\E p \in People : Join(p) \/ Depart(p)) \/ Reseat

Spec == Init /\ [][Next]_vars
=============================================================================
