------------------------- MODULE BandwidthReservation -------------------------
(***************************************************************************)
(* The ledger of reserved bandwidth: which demands are booked on which     *)
(* directed edge.  The operators take the registry as an argument; the     *)
(* modules that own it hold it in a variable.                              *)
(*                                                                         *)
(* A demand stands for its reservation: tenant, source POP, sink POP and   *)
(* label identify both.  Load(R) is the bandwidth that the reservations R  *)
(* take together on one edge; TrafficDemands!HoseLoad is the one in use.   *)
(***************************************************************************)
EXTENDS PCEGraph

CONSTANTS
    Demands,        \* reservations that can be booked
    Load(_),        \* bandwidth a set of reservations takes on one edge
    Bookable        \* edge -> capacity less the headroom (capacityHeadroom)

ASSUME BookableAssumption == Bookable \in [Edges -> Nat]

ASSUME LoadAssumption ==
    \A R \in SUBSET Demands :
        /\ Load(R) \in Nat
        /\ \A d \in Demands : Load(R \ {d}) <= Load(R)

ASSUME EmptyLoadAssumption == Load({}) = 0

Registry == [Edges -> SUBSET Demands]

EmptyRegistry == [e \in Edges |-> {}]

(***************************************************************************)
(* The load an edge would carry with d on it.  Bookings are a set, so a    *)
(* booking d already has there is replaced and not counted twice.          *)
(***************************************************************************)
LoadWith(reg, e, d) == Load(reg[e] \cup {d})

\* mutant: the candidate itself is not counted
CheckCapacityWithout(reg, e, d) == Load(reg[e] \ {d}) <= Bookable[e]

CheckCapacity(reg, e, d) == LoadWith(reg, e, d) <= Bookable[e]

PruneGraph(reg, graph, d) == {e \in graph : CheckCapacity(reg, e, d)}

ReservedMap(reg) == [e \in Edges |-> Load(reg[e])]

(***************************************************************************)
(* Every edge of the new path is checked before anything changes; then the *)
(* old edges are released and the new ones booked.                         *)
(***************************************************************************)
CanMove(reg, to, d) == \A e \in to : CheckCapacity(reg, e, d)

\* mutant: the old edges are not released
MovedUnreleased(reg, from, to, d) ==
    [e \in Edges |-> IF e \in to THEN reg[e] \cup {d} ELSE reg[e]]

\* mutant: the new edges are booked before the old ones are released
MovedBeforeRelease(reg, from, to, d) ==
    [e \in Edges |-> IF e \in from THEN reg[e] \ {d}
                     ELSE IF e \in to THEN reg[e] \cup {d} ELSE reg[e]]

Moved(reg, from, to, d) ==
    [e \in Edges |-> IF e \in to THEN reg[e] \cup {d}
                     ELSE IF e \in from THEN reg[e] \ {d} ELSE reg[e]]

Move(reg, from, to, d) ==
    IF CanMove(reg, to, d) THEN Moved(reg, from, to, d) ELSE reg
===============================================================================
