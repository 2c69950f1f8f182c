------------------------------- MODULE PCEProofs -------------------------------
(***************************************************************************)
(* Proofs about the PCE for every topology, every set of demands, every    *)
(* load that releasing a reservation does not raise, and every bound: no   *)
(* edge is overbooked, the reservations are those of the paths, a named    *)
(* class is held down and leaves a failed link in its turn, a reroute pays *)
(* at costs that stand still, and every turn places its demand.            *)
(***************************************************************************)
EXTENDS PCE, FiniteSetTheorems, TLAPS

\* Zenon is the prover of every leaf that names no other.
USE Zenon

-------------------------------------------------------------------------------
(***************************************************************************)
(* What a path of the graph is: a non-empty sequence of edges.             *)
(***************************************************************************)
LEMMA PathShape ==
    ASSUME NEW a, NEW b, NEW p \in PathsBetween(Edges, a, b)
    PROVE  /\ p \in Seq(Edges)
           /\ EdgesOf(p) \subseteq Edges
           /\ EdgesOf(p) # {}
           /\ p # NoPath
<1>1. PICK n \in 1..(Cardinality(Nodes) - 1) : p \in [1..n -> Edges]
  BY DEF PathsBetween, SimplePaths
<1>2. n \in Nat \ {0}
  BY <1>1, FiniteAssumption, FS_CardinalityType, SMT
<1>3. p \in Seq(Edges) /\ Len(p) = n
  BY <1>1, <1>2, SMT
<1>4. 1 \in DOMAIN p /\ p[1] \in Edges
  BY <1>1, <1>2, SMT
<1> QED
  BY <1>1, <1>3, <1>4, SMT DEF EdgesOf, NoPath

(***************************************************************************)
(* ComputePath only answers paths of the topology from the demand's source *)
(* to its sink, over edges that have room for the demand.                  *)
(***************************************************************************)
LEMMA ComputedPathsAreRoutes ==
    ASSUME NEW d \in Demands, NEW p \in ComputedPaths(d)
    PROVE  /\ p \in PathsBetween(Edges, From[d], To[d])
           /\ CanMove(booked, EdgesOf(p), d)
<1> DEFINE pruned == PruneGraph(booked, NewPCEGraph(up), d)
           usable == {e \in pruned : ~Unusable(d, e, Load(booked[e]))}
<1>1. p \in PathsBetween(usable, From[d], To[d])
  BY DEF ComputedPaths, ChosenPaths, LeastCostPaths
<1>2. usable \subseteq Edges /\ \A e \in usable : CheckCapacity(booked, e, d)
  BY DEF PruneGraph, NewPCEGraph
<1> HIDE DEF usable
<1> QED
  BY <1>1, <1>2 DEF PathsBetween, CanMove

-------------------------------------------------------------------------------
(***************************************************************************)
(* The ledger: a move whose capacity check passed keeps the registry a     *)
(* registry and overbooks no edge, neither one it books nor one it only    *)
(* releases.                                                               *)
(***************************************************************************)
LEMMA MovedFits ==
    ASSUME NEW reg \in Registry, NEW from, NEW to, NEW d \in Demands,
           CanMove(reg, to, d),
           \A e \in Edges : Load(reg[e]) <= Bookable[e]
    PROVE  /\ Moved(reg, from, to, d) \in Registry
           /\ \A e \in Edges : Load(Moved(reg, from, to, d)[e]) <= Bookable[e]
<1>1. Moved(reg, from, to, d) \in Registry
  BY DEF Moved, Registry
<1>2. ASSUME NEW e \in Edges
      PROVE  Load(Moved(reg, from, to, d)[e]) <= Bookable[e]
  <2>1. CASE e \in to
    BY <2>1 DEF Moved, CanMove, CheckCapacity, LoadWith
  <2>2. CASE e \notin to /\ e \in from
    <3>1. Moved(reg, from, to, d)[e] = reg[e] \ {d}
      BY <2>2 DEF Moved
    <3>2. reg[e] \in SUBSET Demands
      BY DEF Registry
    <3>3. /\ Load(reg[e]) \in Nat /\ Load(reg[e] \ {d}) \in Nat
          /\ Load(reg[e] \ {d}) <= Load(reg[e])
      BY <3>2, LoadAssumption
    <3> QED
      BY <3>1, <3>3, BookableAssumption, SMT
  <2>3. CASE e \notin to /\ e \notin from
    BY <2>3 DEF Moved
  <2> QED
    BY <2>1, <2>2, <2>3
<1> QED
  BY <1>1, <1>2

(***************************************************************************)
(* Without the capacity hypothesis, the shape of the registry still holds. *)
(***************************************************************************)
LEMMA MoveShape ==
    ASSUME NEW reg \in Registry, NEW from, NEW to, NEW d \in Demands
    PROVE  Move(reg, from, to, d) \in Registry
BY DEF Move, Moved, Registry

(***************************************************************************)
(* The snapshot's loads are numbers.                                       *)
(***************************************************************************)
LEMMA ReservedShape ==
    ASSUME NEW reg \in Registry
    PROVE  ReservedMap(reg) \in [Edges -> Nat]
<1>1. \A e \in Edges : Load(reg[e]) \in Nat
  BY LoadAssumption DEF Registry
<1> QED
  BY <1>1 DEF ReservedMap

-------------------------------------------------------------------------------
(***************************************************************************)
(* Type correctness, one step per action.                                  *)
(***************************************************************************)
LEMMA InitTypeOK == Init => TypeOK
<1> SUFFICES ASSUME Init PROVE TypeOK
  OBVIOUS
<1>1. faults \in 0..MaxFaults
  <2> DEFINE dead == {e \in Edges : ~alive[e]}
  <2>1. Cardinality(dead) \in Nat
    BY FiniteAssumption, FS_Subset, FS_CardinalityType
  <2>2. faults = Cardinality(dead) /\ Cardinality(dead) <= MaxFaults
    BY DEF Init
  <2> QED
    BY <2>1, <2>2, DurationAssumption, SMT
<1>2. paths \in PathSets /\ pathStore \in PathSets /\ reports \in Seq(PathSets)
  BY SMT DEF Init, PathSets, NoPath
<1>3. measured \in [Edges -> Costs] /\ snapshot \in [measured : [Edges -> Costs], load : [Edges -> Nat]]
  BY CostAssumption DEF Init, NoSnapshot
<1>4. turn \in 1..(Len(Order) + 1)
  BY DemandAssumption, SMT DEF Init
<1>5. phase \in 0..(TickPeriod - 1) /\ updates \in 0..MaxUpdates
  BY DurationAssumption, SMT DEF Init
<1>6. /\ alive \in [Edges -> BOOLEAN] /\ silence \in [Edges -> {Never} \cup 0..StaleAfter]
      /\ converged \subseteq Edges /\ timedOut \in BOOLEAN /\ up \in [Edges -> BOOLEAN]
      /\ due \in BOOLEAN /\ pc \in {"idle", "demands", "send"}
      /\ booked \in Registry /\ age \in [Demands -> {Never} \cup 0..HoldDown]
  BY DEF Init, EmptyRegistry, Registry
<1> QED
  BY <1>1, <1>2, <1>3, <1>4, <1>5, <1>6 DEF TypeOK

(***************************************************************************)
(* Moving a reservation keeps the registry and the path set well typed.    *)
(***************************************************************************)
LEMMA MoveToTypeOK ==
    ASSUME TypeOK, NEW d \in Demands, NEW p \in ComputedPaths(d), MoveTo(d, p)
    PROVE  booked' \in Registry /\ paths' \in PathSets
<1>1. booked' \in Registry
  BY MoveShape DEF MoveTo, TypeOK
<1>2. p \in Seq(Edges)
  BY ComputedPathsAreRoutes, PathShape
<1> QED
  BY <1>1, <1>2 DEF MoveTo, TypeOK, PathSets

(***************************************************************************)
(* So does a whole turn of a demand, whichever way it ends.                *)
(***************************************************************************)
LEMMA PlaceTypeOK ==
    ASSUME TypeOK, NEW d \in Demands, Place(d)
    PROVE  TypeOK'
<1> DEFINE DecisionsOK == /\ booked' \in Registry
                          /\ paths' \in PathSets
                          /\ age' \in [Demands -> {Never} \cup 0..HoldDown]
<1>1. DecisionsOK
  <2>1. CASE KeepPrevious(d)
    BY <2>1 DEF KeepPrevious, decisions, TypeOK
  <2>2. ASSUME NEW p \in ComputedPaths(d), FirstPass(d, p)
        PROVE  DecisionsOK
    BY <2>2, MoveToTypeOK DEF FirstPass, TypeOK
  <2>3. ASSUME NEW p \in ComputedPaths(d),
               SamePath(d, p) \/ Gated(d, p) \/ HeldDown(d, p)
        PROVE  DecisionsOK
    BY <2>3 DEF SamePath, Gated, HeldDown, TypeOK, PathSets
  <2>4. ASSUME NEW p \in ComputedPaths(d), Reroute(d, p)
        PROVE  DecisionsOK
    <3>1. age' \in [Demands -> {Never} \cup 0..HoldDown]
      BY <2>4, DurationAssumption, SMT DEF Reroute, TypeOK
    <3> QED
      BY <2>4, <3>1, MoveToTypeOK DEF Reroute
  <2> QED
    BY <2>1, <2>2, <2>3, <2>4 DEF Place
<1>2. turn' \in 1..(Len(Order) + 1)
  BY DemandAssumption, SMT DEF Place, Turn, TypeOK
<1>3. UNCHANGED <<network, measured, updates, ticker, pc, snapshot, up, outputs>>
  BY DEF Place, Turn
<1> QED
  BY <1>1, <1>2, <1>3 DEF TypeOK, network, ticker, outputs

(***************************************************************************)
(* The clocks stay within their ranges.                                    *)
(***************************************************************************)
LEMMA ElapseTypeOK == TypeOK /\ Elapse => TypeOK'
<1> SUFFICES ASSUME TypeOK, Elapse PROVE TypeOK'
  OBVIOUS
<1>1. silence' \in [Edges -> {Never} \cup 0..StaleAfter]
  BY DurationAssumption, SMT DEF Elapse, TypeOK, Never
<1>2. age' \in [Demands -> {Never} \cup 0..HoldDown]
  BY DurationAssumption, SMT DEF Elapse, TypeOK, Never
<1>3. phase' \in 0..(TickPeriod - 1)
  BY DurationAssumption, SMT DEF Elapse, TypeOK
<1>4. converged' \subseteq Edges /\ due' \in BOOLEAN
  BY DEF Elapse, TypeOK
<1>5. UNCHANGED <<alive, timedOut, faults, measured, updates, tick, booked, paths,
                  outputs>>
  BY DEF Elapse
<1> QED
  BY <1>1, <1>2, <1>3, <1>4, <1>5 DEF TypeOK, tick, outputs

(***************************************************************************)
(* What the network does beside the tick keeps every type.                 *)
(***************************************************************************)
LEMMA EnvironmentTypeOK == TypeOK /\ Environment => TypeOK'
<1> SUFFICES ASSUME TypeOK, Environment PROVE TypeOK'
  OBVIOUS
<1> USE DEF TypeOK, network, ticker, tick, decisions, outputs
<1>1. ASSUME NEW e \in Edges, LinkFlips(e) PROVE TypeOK'
  BY <1>1, DurationAssumption, SMT DEF LinkFlips
<1>2. ASSUME NEW e \in Edges, LateResult(e) PROVE TypeOK'
  BY <1>2, DurationAssumption, SMT DEF LateResult
<1>3. ASSUME NEW e \in Edges, NEW c \in Costs, UpdateCost(e, c) PROVE TypeOK'
  BY <1>3, DurationAssumption, SMT DEF UpdateCost
<1>4. CASE StartupTimeout
  BY <1>4 DEF StartupTimeout
<1> QED
  BY <1>1, <1>2, <1>3, <1>4 DEF Environment

(***************************************************************************)
(* The steps of a tick outside the demand loop, and the dispatcher's.      *)
(***************************************************************************)
LEMMA TickTypeOK ==
    TypeOK /\ (SkipTick \/ StartTick \/ StorePaths \/ SendReport \/ Dispatch) => TypeOK'
<1> SUFFICES ASSUME TypeOK,
                    SkipTick \/ StartTick \/ StorePaths \/ SendReport \/ Dispatch
             PROVE  TypeOK'
  OBVIOUS
<1> USE DEF TypeOK, network, ticker, tick, decisions, outputs
<1>1. CASE SkipTick
  BY <1>1 DEF SkipTick
<1>2. CASE StartTick
  <2>1. up' \in [Edges -> BOOLEAN]
    <3>1. \A e \in Edges : up[e] \in BOOLEAN /\ (silence[e] < StaleAfter) \in BOOLEAN
      BY SMT
    <3> QED
      BY <1>2, <3>1 DEF StartTick, UpdateLinkStates
  <2>2. snapshot' \in [measured : [Edges -> Costs], load : [Edges -> Nat]]
    BY <1>2, ReservedShape DEF StartTick
  <2>3. turn' \in 1..(Len(Order) + 1)
    BY <1>2, DemandAssumption, SMT DEF StartTick
  <2> QED
    BY <1>2, <2>1, <2>2, <2>3 DEF StartTick
<1>3. CASE StorePaths
  <2>1. snapshot' \in [measured : [Edges -> Costs], load : [Edges -> Nat]]
    BY <1>3, CostAssumption DEF StorePaths, NoSnapshot
  <2>2. turn' \in 1..(Len(Order) + 1)
    BY <1>3, DemandAssumption, SMT DEF StorePaths
  <2> QED
    BY <1>3, <2>1, <2>2 DEF StorePaths
<1>4. CASE SendReport
  BY <1>4, SMT DEF SendReport
<1>5. CASE Dispatch
  BY <1>5, SMT DEF Dispatch
<1> QED
  BY <1>1, <1>2, <1>3, <1>4, <1>5

(***************************************************************************)
(* Type correctness is inductive by itself.                                *)
(***************************************************************************)
LEMMA NextTypeOK == TypeOK /\ [Next]_vars => TypeOK'
<1> SUFFICES ASSUME TypeOK, [Next]_vars PROVE TypeOK'
  OBVIOUS
<1>1. CASE UNCHANGED vars
  BY <1>1 DEF TypeOK, vars, network, ticker, tick, decisions, outputs
<1>2. ASSUME NEW d \in Demands, Place(d) PROVE TypeOK'
  BY <1>2, PlaceTypeOK
<1> QED
  BY <1>1, <1>2, ElapseTypeOK, EnvironmentTypeOK, TickTypeOK DEF Next, Run

(***************************************************************************)
(* Every variable of the PCE keeps its type.                               *)
(***************************************************************************)
THEOREM TypeCorrect == Spec => []TypeOK
<1>1. Init => TypeOK
  BY InitTypeOK
<1>2. TypeOK /\ [Next]_vars => TypeOK'
  BY NextTypeOK
<1> QED
  BY <1>1, <1>2, PTL DEF Spec

-------------------------------------------------------------------------------
(***************************************************************************)
(* The inductive invariant.  A move releases the edges of the path the     *)
(* STORE holds, which are the edges booked for the demand only because the *)
(* working copy still agrees with the store for every demand whose turn is *)
(* to come, and everywhere outside the loop.                               *)
(***************************************************************************)
StoreAgrees ==
    /\ pc # "demands" => paths = pathStore
    /\ pc = "demands" =>
          \A i \in DOMAIN Order : i >= turn => paths[Order[i]] = pathStore[Order[i]]

LedgerInv == TypeOK /\ NoOverbooking /\ BookingsMatchPaths /\ StoreAgrees

(***************************************************************************)
(* An empty registry, and no path for any demand.                          *)
(***************************************************************************)
LEMMA InitLedger == Init => LedgerInv
<1> SUFFICES ASSUME Init PROVE LedgerInv
  OBVIOUS
<1>1. TypeOK
  BY InitTypeOK
<1>2. NoOverbooking
  BY EmptyLoadAssumption, BookableAssumption, SMT DEF Init, NoOverbooking, EmptyRegistry
<1>3. BookingsMatchPaths
  BY SMT DEF Init, BookingsMatchPaths, EmptyRegistry, EdgesOf, NoPath
<1>4. StoreAgrees
  BY DEF Init, StoreAgrees
<1> QED
  BY <1>1, <1>2, <1>3, <1>4 DEF LedgerInv

(***************************************************************************)
(* When a demand's turn comes, the store holds the path it is booked for.  *)
(***************************************************************************)
LEMMA PreviousPath ==
    ASSUME LedgerInv, NEW d \in Demands, Turn(d)
    PROVE  pathStore[d] = paths[d]
BY DemandAssumption, SMT DEF LedgerInv, StoreAgrees, Turn, TypeOK

(***************************************************************************)
(* A demand's turn to move.                                                *)
(***************************************************************************)
LEMMA MoveToLedger ==
    ASSUME LedgerInv, NEW d \in Demands, Turn(d),
           NEW p \in ComputedPaths(d), MoveTo(d, p)
    PROVE  /\ NoOverbooking' /\ BookingsMatchPaths'
           /\ paths' = [paths EXCEPT ![d] = p]
<1> DEFINE from == EdgesOf(pathStore[d])
           to   == EdgesOf(p)
<1>1. pathStore[d] = paths[d]
  BY PreviousPath
<1>2. CanMove(booked, to, d) /\ to \subseteq Edges
  BY ComputedPathsAreRoutes, PathShape
<1>3. booked' = Moved(booked, from, to, d) /\ paths' = [paths EXCEPT ![d] = p]
  BY <1>2 DEF MoveTo, Move
<1>4. NoOverbooking'
  BY <1>2, <1>3, MovedFits DEF LedgerInv, NoOverbooking, TypeOK
<1>5. BookingsMatchPaths'
  <2> SUFFICES ASSUME NEW c \in Demands, NEW e \in Edges
               PROVE  c \in booked'[e] <=> e \in EdgesOf(paths'[c])
    BY DEF BookingsMatchPaths
  <2>1. c \in booked[e] <=> e \in EdgesOf(paths[c])
    BY DEF LedgerInv, BookingsMatchPaths
  <2>2. CASE c = d
    <3>1. EdgesOf(paths'[c]) = to
      BY <1>3, <2>2 DEF LedgerInv, TypeOK, PathSets
    <3>2. c \in booked'[e] <=> e \in to
      BY <1>1, <1>3, <2>1, <2>2 DEF Moved
    <3> QED
      BY <3>1, <3>2
  <2>3. CASE c # d
    <3>1. paths'[c] = paths[c]
      BY <1>3, <2>3 DEF LedgerInv, TypeOK, PathSets
    <3>2. c \in booked'[e] <=> c \in booked[e]
      BY <1>3, <2>3 DEF Moved
    <3> QED
      BY <2>1, <3>1, <3>2
  <2> QED
    BY <2>2, <2>3
<1> QED
  BY <1>3, <1>4, <1>5

(***************************************************************************)
(* What the rest of a tick needs of a turn: either nothing is decided, or  *)
(* the demand keeps or gets a path and every other demand keeps its own.   *)
(***************************************************************************)
LEMMA PlaceLedger ==
    ASSUME LedgerInv, NEW d \in Demands, Place(d)
    PROVE  LedgerInv'
<1> USE DEF LedgerInv
<1>1. TypeOK'
  BY PlaceTypeOK
<1>2. pathStore[d] = paths[d]
  BY PreviousPath DEF Place
<1>3. paths \in [Demands -> Seq(Edges)]
  BY DEF TypeOK, PathSets
<1> DEFINE Decided == /\ NoOverbooking' /\ BookingsMatchPaths'
                      /\ \E q : paths' = [paths EXCEPT ![d] = q]
<1>4. Decided
  <2>1. CASE UNCHANGED booked /\ paths' = paths
    <3>1. paths' = [paths EXCEPT ![d] = paths[d]]
      BY <1>3, <2>1
    <3> QED
      BY <2>1, <3>1 DEF NoOverbooking, BookingsMatchPaths
  <2>2. ASSUME NEW p \in ComputedPaths(d), MoveTo(d, p) PROVE Decided
    BY <2>2, MoveToLedger DEF Place
  <2>3. CASE KeepPrevious(d)
    BY <2>1, <2>3 DEF KeepPrevious, decisions
  <2>4. ASSUME NEW p \in ComputedPaths(d),
               SamePath(d, p) \/ Gated(d, p) \/ HeldDown(d, p)
        PROVE  UNCHANGED booked /\ paths' = paths
    BY <1>2, <1>3, <2>4 DEF SamePath, Gated, HeldDown
  <2> QED
    BY <2>1, <2>2, <2>3, <2>4 DEF Place, FirstPass, Reroute
<1>5. StoreAgrees'
  <2>1. /\ pc = "demands" /\ pc' = "demands" /\ pathStore' = pathStore
        /\ turn \in DOMAIN Order /\ d = Order[turn] /\ turn' = turn + 1
    BY DEF Place, Turn, outputs
  <2>2. ASSUME NEW i \in DOMAIN Order, i >= turn'
        PROVE  paths'[Order[i]] = pathStore'[Order[i]]
    <3>1. i >= turn /\ i # turn
      BY <2>1, <2>2, DemandAssumption, SMT
    <3>2. Order[i] # d /\ Order[i] \in Demands
      BY <2>1, <3>1, DemandAssumption, SMT
    <3>3. paths'[Order[i]] = paths[Order[i]]
      BY <1>3, <1>4, <3>2
    <3> QED
      BY <2>1, <3>1, <3>3 DEF StoreAgrees
  <2> QED
    BY <2>1, <2>2 DEF StoreAgrees
<1> QED
  BY <1>1, <1>4, <1>5

(***************************************************************************)
(* The steps that decide nothing leave the ledger and the paths alone.     *)
(***************************************************************************)
LEMMA NextLedger == LedgerInv /\ [Next]_vars => LedgerInv'
<1> SUFFICES ASSUME LedgerInv, [Next]_vars PROVE LedgerInv'
  OBVIOUS
<1>1. TypeOK'
  BY NextTypeOK DEF LedgerInv
<1>2. ASSUME NEW d \in Demands, Place(d) PROVE LedgerInv'
  BY <1>2, PlaceLedger
<1>3. ASSUME UNCHANGED <<booked, paths>>, StoreAgrees' PROVE LedgerInv'
  BY <1>1, <1>3 DEF LedgerInv, NoOverbooking, BookingsMatchPaths
<1>4. ASSUME UNCHANGED <<booked, paths, pathStore, pc, turn>> PROVE LedgerInv'
  BY <1>3, <1>4 DEF LedgerInv, StoreAgrees
<1>5. CASE UNCHANGED vars \/ Elapse \/ Environment \/ SkipTick \/ Dispatch
  BY <1>4, <1>5 DEF vars, Elapse, Environment, LinkFlips, LateResult, UpdateCost,
     StartupTimeout, SkipTick, Dispatch, tick, decisions, outputs
<1>6. CASE StartTick
  <2>1. UNCHANGED <<booked, paths, pathStore>> /\ pc = "idle" /\ pc' = "demands"
    BY <1>6 DEF StartTick, decisions, outputs
  <2> QED
    BY <1>3, <2>1 DEF LedgerInv, StoreAgrees
<1>7. CASE StorePaths
  <2>1. UNCHANGED <<booked, paths>> /\ pathStore' = paths /\ pc' = "send"
    BY <1>7 DEF StorePaths, decisions
  <2> QED
    BY <1>3, <2>1 DEF StoreAgrees
<1>8. CASE SendReport
  <2>1. UNCHANGED <<booked, paths, pathStore>> /\ pc = "send" /\ pc' = "idle"
    BY <1>8 DEF SendReport, decisions
  <2> QED
    BY <1>3, <2>1 DEF LedgerInv, StoreAgrees
<1> QED
  BY <1>2, <1>5, <1>6, <1>7, <1>8 DEF Next, Run

(***************************************************************************)
(* The four facts about the ledger hold together in every state of the     *)
(* PCE.                                                                    *)
(***************************************************************************)
THEOREM LedgerInvariant == Spec => []LedgerInv
<1>1. Init => LedgerInv
  BY InitLedger
<1>2. LedgerInv /\ [Next]_vars => LedgerInv'
  BY NextLedger
<1> QED
  BY <1>1, <1>2, PTL DEF Spec

(***************************************************************************)
(* No edge is reserved beyond its bookable capacity: the check in Move is  *)
(* made on the registry it changes, and releasing never raises a load.     *)
(***************************************************************************)
THEOREM NeverOverbooked == Spec => []NoOverbooking
<1>1. LedgerInv => NoOverbooking
  BY DEF LedgerInv
<1> QED
  BY <1>1, LedgerInvariant, PTL

(***************************************************************************)
(* A demand is booked on exactly the edges of its path.                    *)
(***************************************************************************)
THEOREM LedgerMatchesPaths == Spec => []BookingsMatchPaths
<1>1. LedgerInv => BookingsMatchPaths
  BY DEF LedgerInv
<1> QED
  BY <1>1, LedgerInvariant, PTL

(***************************************************************************)
(* Only the send and the dispatcher change the channel, and only the store *)
(* changes what its last entry is compared with, leaving pc at the send.   *)
(***************************************************************************)
LEMMA LastReportStep ==
    ASSUME TypeOK, LastReportIsCurrent, [Next]_vars
    PROVE  LastReportIsCurrent'
<1> USE DEF LastReportIsCurrent
<1>1. reports \in Seq(PathSets) /\ pathStore \in PathSets
  BY DEF TypeOK
<1>2. ASSUME UNCHANGED <<reports, pathStore>>, pc # "send" PROVE LastReportIsCurrent'
  BY <1>2
<1>3. ASSUME UNCHANGED <<reports, pathStore, pc>> PROVE LastReportIsCurrent'
  BY <1>3
<1>4. CASE UNCHANGED vars \/ Elapse \/ Environment \/ SkipTick
  BY <1>3, <1>4 DEF vars, Elapse, Environment, LinkFlips, LateResult, UpdateCost,
     StartupTimeout, SkipTick, tick, outputs
<1>5. CASE StartTick
  BY <1>2, <1>5 DEF StartTick, outputs
<1>6. CASE \E d \in Demands : Place(d)
  BY <1>2, <1>6 DEF Place, Turn, outputs
<1>7. CASE StorePaths
  BY <1>7 DEF StorePaths
<1>8. CASE SendReport
  BY <1>1, <1>8, SMT DEF SendReport
<1>9. CASE Dispatch
  BY <1>1, <1>9, SMT DEF Dispatch, tick
<1> QED
  BY <1>4, <1>5, <1>6, <1>7, <1>8, <1>9 DEF Next, Run

(***************************************************************************)
(* The dispatcher never ends on an older path set than the path store's:   *)
(* the channel keeps the order, and the send waits rather than drop.       *)
(***************************************************************************)
THEOREM LastReportCurrent == Spec => []LastReportIsCurrent
<1>1. Init => LastReportIsCurrent
  BY DEF Init, LastReportIsCurrent
<1>2. TypeOK /\ LastReportIsCurrent /\ [Next]_vars => LastReportIsCurrent'
  BY LastReportStep
<1> QED
  BY <1>1, <1>2, TypeCorrect, PTL DEF Spec

-------------------------------------------------------------------------------
(***************************************************************************)
(* The one way a path changes: a turn of its demand, by a first placement  *)
(* or a reroute onto a computed path.                                      *)
(***************************************************************************)
LEMMA PathChange ==
    ASSUME LedgerInv, [Next]_vars, NEW d \in Demands, paths'[d] # paths[d]
    PROVE  /\ Place(d)
           /\ \E p \in ComputedPaths(d) : FirstPass(d, p) \/ Reroute(d, p)
<1> USE DEF LedgerInv
<1>1. paths \in [Demands -> Seq(Edges)]
  BY DEF TypeOK, PathSets
<1>2. PICK c \in Demands : Place(c)
  BY DEF Next, Run, vars, Elapse, Environment, LinkFlips, LateResult, UpdateCost,
     StartupTimeout, SkipTick, StartTick, StorePaths, SendReport, Dispatch, decisions
<1>3. pathStore[c] = paths[c]
  BY <1>2, PreviousPath DEF Place
<1>4. ASSUME NEW p \in ComputedPaths(c),
             SamePath(c, p) \/ Gated(c, p) \/ HeldDown(c, p)
      PROVE  FALSE
  BY <1>1, <1>3, <1>4 DEF SamePath, Gated, HeldDown
<1>5. ~KeepPrevious(c)
  BY DEF KeepPrevious, decisions
<1>6. PICK p \in ComputedPaths(c) : FirstPass(c, p) \/ Reroute(c, p)
  BY <1>2, <1>4, <1>5 DEF Place
<1>7. c = d
  BY <1>1, <1>6 DEF FirstPass, Reroute, MoveTo
<1> QED
  BY <1>2, <1>6, <1>7

(***************************************************************************)
(* A step that reroutes a demand of a named class finds the hold-down      *)
(* over, or a link of the path down: full edges have no infinite cost for  *)
(* a named class, so only a missing edge makes its path broken.            *)
(***************************************************************************)
LEMMA HoldDownStep ==
    LedgerInv /\ [Next]_vars => \A d \in Demands \ Bulk : HoldDownHonoured(d)
<1> SUFFICES ASSUME LedgerInv, [Next]_vars, NEW d \in Demands \ Bulk, RerouteOf(d)
             PROVE  age[d] \in {Never, HoldDown} \/ LinkDownOn(d)
  BY DEF HoldDownHonoured
<1>1. pathStore[d] = paths[d]
  BY PathChange, PreviousPath DEF RerouteOf, Place
<1>2. PICK p \in ComputedPaths(d) : Reroute(d, p)
  BY <1>1, PathChange DEF RerouteOf, FirstPass
<1>3. CASE IsBroken(d)
  BY <1>1, <1>3 DEF IsBroken, Unusable, LinkDownOn
<1>4. CASE ~IsBroken(d)
  <2>1. age[d] = Never \/ ~(HoldDown > age[d])
    BY <1>2, <1>4 DEF Reroute, IsHeldDown
  <2>2. age[d] \in {Never} \cup 0..HoldDown
    BY DEF LedgerInv, TypeOK
  <2> QED
    BY <2>1, <2>2, DurationAssumption, SMT
<1> QED
  BY <1>3, <1>4

(***************************************************************************)
(* A rerouted path of a named class is held for the hold-down time unless  *)
(* a link of it is down.                                                   *)
(***************************************************************************)
THEOREM NamedClassesAreHeldDown == Spec => NamedClassesHoldDown
<1>1. LedgerInv /\ [Next]_vars => [\A d \in Demands \ Bulk : HoldDownHonoured(d)]_vars
  BY HoldDownStep
<1> QED
  BY <1>1, LedgerInvariant, PTL DEF Spec, NamedClassesHoldDown

(***************************************************************************)
(* A computed path uses no edge whose link is down.                        *)
(***************************************************************************)
LEMMA ComputedPathsAreUp ==
    ASSUME NEW d \in Demands, NEW p \in ComputedPaths(d), NEW e \in EdgesOf(p)
    PROVE  up[e]
<1> DEFINE pruned == PruneGraph(booked, NewPCEGraph(up), d)
           usable == {f \in pruned : ~Unusable(d, f, Load(booked[f]))}
<1>1. p \in PathsBetween(usable, From[d], To[d])
  BY DEF ComputedPaths, ChosenPaths, LeastCostPaths
<1>2. \A f \in usable : up[f]
  BY DEF PruneGraph, NewPCEGraph
<1> HIDE DEF usable
<1> QED
  BY <1>1, <1>2 DEF PathsBetween

(***************************************************************************)
(* A turn of a demand with a failed link on its path ends on a computed    *)
(* path: it is broken, hence neither gated nor held down, and the move     *)
(* cannot fail because the path was computed on the pruned graph.          *)
(***************************************************************************)
LEMMA FailedLinkStep ==
    ASSUME LedgerInv, [Next]_vars, NEW d \in Demands,
           turn' # turn, pc = "demands", pc' = pc, d = Order[turn],
           LinkDownOn(d), ComputedPaths(d) # {}
    PROVE  \A e \in EdgesOf(paths'[d]) : up[e]
<1>1. PICK c \in Demands : Place(c)
  BY DEF Next, Run, vars, Elapse, Environment, LinkFlips, LateResult, UpdateCost,
     StartupTimeout, SkipTick, StartTick, StorePaths, SendReport, Dispatch, tick
<1>2. Place(d)
  BY <1>1 DEF Place, Turn
<1>3. pathStore[d] = paths[d]
  BY <1>2, PreviousPath DEF Place
<1>4. IsBroken(d)
  BY <1>3 DEF LinkDownOn, IsBroken
<1>5. PICK p \in ComputedPaths(d) : FirstPass(d, p) \/ SamePath(d, p) \/ Reroute(d, p)
  BY <1>2, <1>4 DEF Place, KeepPrevious, Gated, NotWorthIt, HeldDown, IsHeldDown
<1>6. paths'[d] = p
  <2>1. paths \in [Demands -> Seq(Edges)]
    BY DEF LedgerInv, TypeOK, PathSets
  <2>2. CanMove(booked, EdgesOf(p), d)
    BY ComputedPathsAreRoutes
  <2> QED
    BY <1>5, <2>1, <2>2 DEF FirstPass, SamePath, Reroute, MoveTo
<1> QED
  BY <1>6, ComputedPathsAreUp

(***************************************************************************)
(* A demand whose path has a failed link leaves it in its very next turn   *)
(* if any path has room, hysteresis and hold-down notwithstanding.         *)
(***************************************************************************)
THEOREM FailedLinksAreLeftInTurn == Spec => FailedLinkLeftInTurn
<1> DEFINE Left ==
        \A d \in Demands :
          /\ turn' # turn /\ pc = "demands" /\ pc' = pc
          /\ d = Order[turn]
          /\ LinkDownOn(d)
          /\ ComputedPaths(d) # {}
          => \A e \in EdgesOf(paths'[d]) : up[e]
<1>1. LedgerInv /\ [Next]_vars => [Left]_vars
  BY FailedLinkStep
<1> QED
  BY <1>1, LedgerInvariant, PTL DEF Spec, FailedLinkLeftInTurn

-------------------------------------------------------------------------------
(***************************************************************************)
(* Refinement: the steps of the PCE, seen through the registry, are steps  *)
(* of Admission.                                                           *)
(***************************************************************************)
LEMMA InitAdmission == Init => Contract!Init
BY DEF Init, Contract!Init, RouteOf, EmptyRegistry

(***************************************************************************)
(* A move of a demand, seen through the registry, is one Admit step.       *)
(***************************************************************************)
LEMMA MoveIsAdmission ==
    ASSUME LedgerInv, LedgerInv', NEW d \in Demands, Place(d),
           NEW p \in ComputedPaths(d), MoveTo(d, p)
    PROVE  Contract!Next
<1> DEFINE R == EdgesOf(p)
           route == [c \in Demands |-> RouteOf(c)]
<1>1. p \in PathsBetween(Edges, From[d], To[d]) /\ R \subseteq Edges
  BY ComputedPathsAreRoutes, PathShape
<1>2. R \in Routes[d]
  BY <1>1 DEF Routes
<1>3. paths' = [paths EXCEPT ![d] = p]
  BY MoveToLedger DEF Place
<1>4. \A c \in Demands : RouteOf(c)' = IF c = d THEN R ELSE RouteOf(c)
  <2> SUFFICES ASSUME NEW c \in Demands
               PROVE  RouteOf(c)' = IF c = d THEN R ELSE RouteOf(c)
    OBVIOUS
  <2>1. paths'[c] = IF c = d THEN p ELSE paths[c]
    BY <1>3 DEF LedgerInv, TypeOK, PathSets
  <2>2. /\ \A e \in Edges : c \in booked'[e] <=> e \in EdgesOf(paths'[c])
        /\ \A e \in Edges : c \in booked[e] <=> e \in EdgesOf(paths[c])
    BY DEF LedgerInv, BookingsMatchPaths
  <2> QED
    BY <1>1, <2>1, <2>2 DEF RouteOf
<1>5. route' = [route EXCEPT ![d] = R]
  BY <1>4
<1>6. ASSUME NEW e \in Edges
      PROVE  Load(Contract!Reserved(route', e)) <= Bookable[e]
  <2>1. Contract!Reserved(route', e) = booked'[e]
    BY DEF Contract!Reserved, RouteOf, LedgerInv, TypeOK, Registry
  <2> QED
    BY <2>1 DEF LedgerInv, NoOverbooking
<1> QED
  BY <1>2, <1>5, <1>6 DEF Contract!Next, Contract!Admit, Contract!Fits

(***************************************************************************)
(* Every step of the PCE is an Admit step or leaves the routes alone.      *)
(***************************************************************************)
LEMMA StepIsAdmission ==
    LedgerInv /\ LedgerInv' /\ [Next]_vars
        => Contract!Next \/ UNCHANGED [d \in Demands |-> RouteOf(d)]
<1> SUFFICES ASSUME LedgerInv, LedgerInv', [Next]_vars
             PROVE  Contract!Next \/ UNCHANGED [d \in Demands |-> RouteOf(d)]
  OBVIOUS
<1>1. CASE UNCHANGED booked
  BY <1>1 DEF RouteOf
<1>2. CASE booked' # booked
  <2>1. PICK d \in Demands : Place(d)
    BY <1>2 DEF Next, Run, vars, Elapse, Environment, LinkFlips, LateResult,
       UpdateCost, StartupTimeout, SkipTick, StartTick, StorePaths, SendReport,
       Dispatch, decisions
  <2>2. PICK p \in ComputedPaths(d) : MoveTo(d, p)
    BY <1>2, <2>1 DEF Place, KeepPrevious, decisions, FirstPass, SamePath, Gated,
       HeldDown, Reroute
  <2> QED
    BY <2>1, <2>2, MoveIsAdmission
<1> QED
  BY <1>1, <1>2

(***************************************************************************)
(* The PCE implements Admission: reservations change by admitting or       *)
(* moving one demand at a time, whole routes at once, and only where they  *)
(* fit.                                                                    *)
(***************************************************************************)
THEOREM PCEImplementsAdmission == Spec => ImplementsAdmission
<1>1. Init => Contract!Init
  BY InitAdmission
<1>2. LedgerInv /\ LedgerInv' /\ [Next]_vars
        => [Contract!Next]_([d \in Demands |-> RouteOf(d)])
  BY StepIsAdmission
<1> QED
  BY <1>1, <1>2, LedgerInvariant, PTL DEF Spec, ImplementsAdmission, Contract!Spec

-------------------------------------------------------------------------------
(***************************************************************************)
(* An edge costs demand d now what it cost when the tick began: neither    *)
(* telemetry nor, for the default class, a move of the same tick has       *)
(* changed it.                                                             *)
(***************************************************************************)
CostIsSteady(d, e) ==
    ClassObjective(d, e, measured[e], Load(booked[e]))
        = ClassObjective(d, e, snapshot.measured[e], snapshot.load[e])

(***************************************************************************)
(* Where hysteresis does what the documentation says: a reroute that no    *)
(* failure forces is at least 10% better at the costs of that moment as    *)
(* long as the edges of the path it leaves cost what they cost in the      *)
(* tick's snapshot.  Stale costs of the old path are thus the one way in   *)
(* which ReroutesAreWorthIt fails; that the costs of the new path are      *)
(* live, or that other demands have moved onto it, is none.                *)
(***************************************************************************)
SteadyReroutesPay ==
    [][\A d \in Demands :
          RerouteOf(d) /\ ~IsBroken(d) /\ (\A e \in EdgesOf(paths[d]) : CostIsSteady(d, e))
            => ~(10 * LiveCost(d, paths[d]) < 11 * LiveCost(d, paths'[d]))]_vars

(***************************************************************************)
(* The path a reroute leaves is scored with the snapshot, the one it takes *)
(* with the live costs.                                                    *)
(***************************************************************************)
LEMMA SteadyRerouteStep ==
    ASSUME LedgerInv, [Next]_vars, NEW d \in Demands, RerouteOf(d), ~IsBroken(d),
           \A e \in EdgesOf(paths[d]) : CostIsSteady(d, e)
    PROVE  ~(10 * LiveCost(d, paths[d]) < 11 * LiveCost(d, paths'[d]))
<1>1. pathStore[d] = paths[d]
  BY PathChange, PreviousPath DEF RerouteOf, Place
<1>2. PICK p \in ComputedPaths(d) : Reroute(d, p)
  BY <1>1, PathChange DEF RerouteOf, FirstPass
<1>3. paths'[d] = p
  BY <1>2 DEF Reroute, MoveTo, RerouteOf, LedgerInv, TypeOK, PathSets
<1>4. ~(10 * RescorePath(d) < 11 * LiveCost(d, p))
  BY <1>2 DEF Reroute, NotWorthIt
<1>5. RescorePath(d) = LiveCost(d, paths[d])
  <2> DEFINE then == [e \in EdgesOf(paths[d]) |->
                         ClassObjective(d, e, snapshot.measured[e], snapshot.load[e])]
  <2>1. LiveCosts(d, EdgesOf(paths[d])) = then
    BY DEF LiveCosts, CostIsSteady
  <2> QED
    BY <1>1, <2>1 DEF RescorePath, LiveCost
<1> QED
  BY <1>3, <1>4, <1>5

(***************************************************************************)
(* So a path is left for a better one unless its own costs are stale.      *)
(***************************************************************************)
THEOREM ReroutesPayAtSteadyCosts == Spec => SteadyReroutesPay
<1> DEFINE Pays ==
        \A d \in Demands :
          RerouteOf(d) /\ ~IsBroken(d) /\ (\A e \in EdgesOf(paths[d]) : CostIsSteady(d, e))
            => ~(10 * LiveCost(d, paths[d]) < 11 * LiveCost(d, paths'[d]))
<1>1. LedgerInv /\ [Next]_vars => [Pays]_vars
  BY SteadyRerouteStep
<1> QED
  BY <1>1, LedgerInvariant, PTL DEF Spec, SteadyReroutesPay

-------------------------------------------------------------------------------
(***************************************************************************)
(* A demand whose turn comes while some path has room for it ends the turn *)
(* with a path, whichever way the round goes, and a demand that has one is *)
(* never without one again: a failed computation keeps the previous path,  *)
(* and a move gives up the old edges only for new ones.  This is what      *)
(* EveryDemandIsPlaced needs beside the fairness of the ticker and room.   *)
(***************************************************************************)
TurnPlaces(d) ==
    /\ paths[d] # NoPath => paths'[d] # NoPath
    /\ turn' # turn /\ pc = "demands" /\ pc' = pc /\ d = Order[turn] /\ ComputedPaths(d) # {}
         => paths'[d] # NoPath

DemandsArePlacedInTurn == [][\A d \in Demands : TurnPlaces(d)]_vars

(***************************************************************************)
(* Each way a round can go.                                                *)
(***************************************************************************)
LEMMA TurnPlacesStep ==
    ASSUME LedgerInv, [Next]_vars, NEW d \in Demands
    PROVE  TurnPlaces(d)
<1>1. ASSUME NEW p \in ComputedPaths(d)
      PROVE  p # NoPath
  BY ComputedPathsAreRoutes, PathShape DEF NoPath
<1>2. paths \in [Demands -> Seq(Edges)]
  BY DEF LedgerInv, TypeOK, PathSets
<1>3. ASSUME paths[d] # NoPath
      PROVE  paths'[d] # NoPath
  <2>1. CASE paths'[d] # paths[d]
    <3>1. PICK p \in ComputedPaths(d) : FirstPass(d, p) \/ Reroute(d, p)
      BY <2>1, PathChange
    <3>2. paths'[d] = p
      BY <1>2, <2>1, <3>1 DEF FirstPass, Reroute, MoveTo
    <3> QED
      BY <1>1, <3>2
  <2> QED
    BY <1>3, <2>1
<1>4. ASSUME turn' # turn, pc = "demands", pc' = pc, d = Order[turn], ComputedPaths(d) # {}
      PROVE  paths'[d] # NoPath
  <2>1. PICK c \in Demands : Place(c)
    BY <1>4 DEF Next, Run, vars, Elapse, Environment, LinkFlips, LateResult, UpdateCost,
       StartupTimeout, SkipTick, StartTick, StorePaths, SendReport, Dispatch, tick
  <2>2. Place(d)
    BY <1>4, <2>1 DEF Place, Turn
  <2>3. PICK p \in ComputedPaths(d) :
              FirstPass(d, p) \/ SamePath(d, p) \/ Gated(d, p) \/ HeldDown(d, p) \/ Reroute(d, p)
    BY <1>4, <2>2 DEF Place, KeepPrevious
  <2>4. CanMove(booked, EdgesOf(p), d)
    BY ComputedPathsAreRoutes
  <2>5. paths'[d] = p \/ (paths'[d] = pathStore[d] /\ pathStore[d] # NoPath)
    BY <1>2, <2>3, <2>4 DEF FirstPass, SamePath, Gated, HeldDown, Reroute, MoveTo, Differs
  <2> QED
    BY <1>1, <2>5
<1> QED
  BY <1>3, <1>4 DEF TurnPlaces

(***************************************************************************)
(* So no demand waits for more than its turn and for room.                 *)
(***************************************************************************)
THEOREM EveryTurnPlaces == Spec => DemandsArePlacedInTurn
<1>1. LedgerInv /\ [Next]_vars => [\A d \in Demands : TurnPlaces(d)]_vars
  BY TurnPlacesStep
<1> QED
  BY <1>1, LedgerInvariant, PTL DEF Spec, DemandsArePlacedInTurn
===============================================================================
