------------------------------- MODULE Admission -------------------------------
(***************************************************************************)
(* What the path computation promises about bandwidth, without saying how: *)
(* one demand at a time is admitted to a route, or moved to another one,   *)
(* in a single step, and only where all the reservations of every edge     *)
(* still fit.  A demand that was admitted is never dropped.                *)
(***************************************************************************)
EXTENDS Integers

CONSTANTS Edges, Demands, Load(_), Bookable,
          Routes            \* demand -> the edge sets that can carry it

VARIABLE route              \* demand -> edges reserved for it, {} if none

TypeOK == route \in [Demands -> SUBSET Edges]

Reserved(r, e) == {d \in Demands : e \in r[d]}

Fits(r) == \A e \in Edges : Load(Reserved(r, e)) <= Bookable[e]

Init == route = [d \in Demands |-> {}]

Admit(d, R) ==
    /\ route' = [route EXCEPT ![d] = R]
    /\ Fits(route')

Next == \E d \in Demands : \E R \in Routes[d] : Admit(d, R)

Spec == Init /\ [][Next]_route
===============================================================================
