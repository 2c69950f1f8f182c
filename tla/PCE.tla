---------------------------------- MODULE PCE ----------------------------------
(***************************************************************************)
(* The path computation element: the tick of PCE.Run, which places every   *)
(* demand on a path and reserves its bandwidth, with what runs beside it   *)
(* -- probes that arrive or stop arriving, measured costs that change at   *)
(* any point of a tick, and the dispatcher that receives the path sets.    *)
(*                                                                         *)
(* Durations are in time units of the instance; with a unit of 5 s the     *)
(* code's 10 s tick, 15 s staleness and 30 s hold-down are 2, 3 and 6.     *)
(***************************************************************************)
EXTENDS BandwidthReservation

CONSTANTS
    Order,          \* BuildDemands: the demands, in the order of placement
    From, To,       \* demand -> source POP, demand -> sink POP
    Bulk,           \* demands of the default class, which weigh utilization
    Scale,          \* costEdgeEpsilon, the 1.0 every edge costs, in integers
    Costs,          \* measured costs an edge can have, in units of 1/Scale
    InitialCost,    \* edge -> cost before the first sample (configured delay)
    TickPeriod, StaleAfter, HoldDown,   \* durations in time units
    ReportBuffer,   \* capacity of the channel to the dispatcher
    MaxFaults,      \* bound: how often a link fails or comes back
    MaxUpdates      \* bound: how often a measured cost changes

ASSUME DemandAssumption ==
    /\ Order \in Seq(Demands)
    /\ \A i, j \in DOMAIN Order : Order[i] = Order[j] => i = j
    /\ From \in [Demands -> Nodes]
    /\ To \in [Demands -> Nodes]
    /\ Bulk \subseteq Demands

ASSUME CostAssumption ==
    /\ Scale \in Nat \ {0}
    /\ Costs \subseteq Nat
    /\ InitialCost \in [Edges -> Costs]

ASSUME DurationAssumption ==
    /\ TickPeriod \in Nat \ {0}
    /\ StaleAfter \in Nat \ {0}
    /\ HoldDown \in Nat
    /\ ReportBuffer \in Nat \ {0}
    /\ MaxFaults \in Nat
    /\ MaxUpdates \in Nat

VARIABLES
    alive,          \* edge -> probes get through (the network's state)
    silence,        \* edge -> time since the last probe result, or Never
    converged,      \* edges whose averages have seen enough samples
    timedOut,       \* MaxCostGraphWaitTillReady has passed
    measured,       \* edge -> measured cost in the cost graph
    up,             \* edge -> Edge.Up of the topology graph
    phase, due,     \* the ticker: time into the period, a tick to consume
    pc,             \* "idle", "demands" or "send"
    turn,           \* index in Order of the demand being placed
    snapshot,       \* costSnapshot: measured costs and loads at tick start
    booked,         \* the bandwidth reservation registry
    paths,          \* the tick's working copy of the path set
    pathStore,      \* PathStore: what the last finished tick decided
    age,            \* demand -> time since lastRerouteMap's entry, or Never
    reports,        \* reportChan
    faults, updates \* how much of MaxFaults and MaxUpdates is used

network == <<alive, silence, converged, timedOut, faults>>
ticker == <<phase, due>>
tick == <<pc, turn, snapshot, up>>
decisions == <<booked, paths, age>>
outputs == <<pathStore, reports>>
vars == <<network, measured, updates, ticker, tick, decisions, outputs>>

Never == -1

\* mutant: no timeout for links that never report
IsReadyConverged == converged = Edges

IsReady == converged = Edges \/ timedOut

-------------------------------------------------------------------------------
(***************************************************************************)
(* Costs.  A named class weighs measured dimensions, the default class the *)
(* static utilization of the reservations: convex in f = r / bookable and  *)
(* 1 at f = 0.8, infinite once f >= 1.                                     *)
(***************************************************************************)
StaticUtilizationCost(r, b) == (Scale * r) \div (4 * (b - r))

\* mutant: a full edge is unusable for the named classes as well
UnusableForAll(d, e, load) == load >= Bookable[e]

Unusable(d, e, load) == d \in Bulk /\ load >= Bookable[e]

ClassObjective(d, e, cost, load) ==
    IF d \in Bulk THEN Scale + StaticUtilizationCost(load, Bookable[e])
                  ELSE Scale + cost

(***************************************************************************)
(* ComputePath works on the live cost graph, which telemetry and earlier   *)
(* moves of the same tick have changed since the snapshot.  That its       *)
(* answer is the chosen least-cost path is what module CSPF checks.        *)
(***************************************************************************)
LiveCosts(d, edges) ==
    [e \in edges |-> ClassObjective(d, e, measured[e], Load(booked[e]))]

LiveCost(d, p) == PathCost(p, LiveCosts(d, EdgesOf(p)))

ComputedPaths(d) ==
    LET pruned == PruneGraph(booked, NewPCEGraph(up), d)
        usable == {e \in pruned : ~Unusable(d, e, Load(booked[e]))}
    IN ChosenPaths(usable, From[d], To[d], LiveCosts(d, usable))

(***************************************************************************)
(* The previous path is rescored with the snapshot; it is broken when an   *)
(* edge of it left the graph or has an infinite cost.                      *)
(***************************************************************************)
IsBroken(d) ==
    \E e \in EdgesOf(pathStore[d]) : ~up[e] \/ Unusable(d, e, snapshot.load[e])

RescorePath(d) ==
    PathCost(pathStore[d],
             [e \in EdgesOf(pathStore[d]) |->
                 ClassObjective(d, e, snapshot.measured[e], snapshot.load[e])])

NoSnapshot == [measured |-> InitialCost, load |-> [e \in Edges |-> 0]]

-------------------------------------------------------------------------------
Init ==
    /\ alive \in [Edges -> BOOLEAN]
    /\ Cardinality({e \in Edges : ~alive[e]}) <= MaxFaults
    /\ faults = Cardinality({e \in Edges : ~alive[e]})
    /\ silence = [e \in Edges |-> Never]
    /\ converged = {}
    /\ timedOut = FALSE
    /\ measured = InitialCost
    /\ updates = 0
    /\ up = [e \in Edges |-> TRUE]
    /\ phase = 0
    /\ due = FALSE
    /\ pc = "idle"
    /\ turn = 1
    /\ snapshot = NoSnapshot
    /\ booked = EmptyRegistry
    /\ paths = [d \in Demands |-> NoPath]
    /\ pathStore = paths
    /\ age = [d \in Demands |-> Never]
    /\ reports = <<>>

-------------------------------------------------------------------------------
(***************************************************************************)
(* What happens beside the tick.  Probes run twice a second, so one result *)
(* at least arrives per time unit on a link that is alive; any of these    *)
(* links may have had enough results to converge, which is of interest     *)
(* only until the cost graph is ready.  A tick takes milliseconds, so time *)
(* passes only while the PCE waits for the ticker or for the channel.      *)
(***************************************************************************)
Elapse ==
    /\ pc \in {"idle", "send"}
    /\ silence' = [e \in Edges |->
          IF alive[e] THEN 0
          ELSE IF silence[e] \in {Never, StaleAfter} THEN silence[e]
          ELSE silence[e] + 1]
    /\ \E C \in SUBSET {e \in Edges : alive[e] /\ ~IsReady} :
          converged' = converged \cup C
    /\ age' = [d \in Demands |->
          IF age[d] \in {Never, HoldDown} THEN age[d] ELSE age[d] + 1]
    /\ phase' = (phase + 1) % TickPeriod
    /\ due' = (due \/ phase' = 0)
    /\ UNCHANGED <<alive, timedOut, faults, measured, updates, tick, booked, paths,
                   outputs>>

LinkFlips(e) ==
    /\ faults < MaxFaults
    /\ faults' = faults + 1
    /\ alive' = [alive EXCEPT ![e] = ~@]
    /\ UNCHANGED <<silence, converged, timedOut, measured, updates, ticker, tick,
                   decisions, outputs>>

(***************************************************************************)
(* A result that was under way when the link failed counts as seen when it *)
(* is handled, not when it was measured.                                   *)
(***************************************************************************)
LateResult(e) ==
    /\ ~alive[e]
    /\ silence[e] > 0
    /\ faults < MaxFaults
    /\ faults' = faults + 1
    /\ silence' = [silence EXCEPT ![e] = 0]
    /\ UNCHANGED <<alive, converged, timedOut, measured, updates, ticker, tick,
                   decisions, outputs>>

(***************************************************************************)
(* After the timeout the cost graph is ready, whatever has converged; the  *)
(* set is forgotten.                                                       *)
(***************************************************************************)
StartupTimeout ==
    /\ ~IsReady
    /\ timedOut' = TRUE
    /\ converged' = {}
    /\ UNCHANGED <<alive, silence, faults, measured, updates, ticker, tick,
                   decisions, outputs>>

UpdateCost(e, c) ==
    /\ silence[e] # Never
    /\ updates < MaxUpdates
    /\ c # measured[e]
    /\ updates' = updates + 1
    /\ measured' = [measured EXCEPT ![e] = c]
    /\ UNCHANGED <<network, ticker, tick, decisions, outputs>>

-------------------------------------------------------------------------------
(***************************************************************************)
(* The start of a tick: link states from the probes' silence, the graph    *)
(* and the snapshot.  A tick before the cost graph is ready is skipped.    *)
(***************************************************************************)
\* mutant: a link is only ever brought up
UpdateLinkStatesUpOnly ==
    [e \in Edges |-> up[e] \/ (silence[e] # Never /\ silence[e] < StaleAfter)]

UpdateLinkStates ==
    [e \in Edges |-> IF silence[e] = Never THEN up[e] ELSE silence[e] < StaleAfter]

SkipTick ==
    /\ pc = "idle" /\ due /\ ~IsReady
    /\ due' = FALSE
    /\ UNCHANGED <<network, measured, updates, phase, tick, decisions, outputs>>

StartTick ==
    /\ pc = "idle" /\ due /\ IsReady
    /\ due' = FALSE
    /\ up' = UpdateLinkStates
    /\ snapshot' = [measured |-> measured, load |-> ReservedMap(booked)]
    /\ turn' = 1
    /\ pc' = "demands"
    /\ UNCHANGED <<network, measured, updates, phase, decisions, outputs>>

(***************************************************************************)
(* One round of the demand loop, in the order of its early exits.  The     *)
(* previous path is the path store's, which the loop does not change.      *)
(***************************************************************************)
\* mutant: the loop skips a demand
TurnSkipping(d) ==
    /\ pc = "demands"
    /\ turn \in DOMAIN Order
    /\ d = Order[turn]
    /\ turn' = turn + 2
    /\ UNCHANGED <<network, measured, updates, ticker, pc, snapshot, up, outputs>>

Turn(d) ==
    /\ pc = "demands"
    /\ turn \in DOMAIN Order
    /\ d = Order[turn]
    /\ turn' = turn + 1
    /\ UNCHANGED <<network, measured, updates, ticker, pc, snapshot, up, outputs>>

KeepPrevious(d) ==
    /\ ComputedPaths(d) = {}
    /\ UNCHANGED decisions

MoveTo(d, p) ==
    /\ booked' = Move(booked, EdgesOf(pathStore[d]), EdgesOf(p), d)
    /\ paths' = IF CanMove(booked, EdgesOf(p), d) THEN [paths EXCEPT ![d] = p] ELSE paths

FirstPass(d, p) ==
    /\ pathStore[d] = NoPath
    /\ MoveTo(d, p)
    /\ UNCHANGED age

SamePath(d, p) ==
    /\ pathStore[d] = p
    /\ paths' = [paths EXCEPT ![d] = p]
    /\ UNCHANGED <<booked, age>>

(***************************************************************************)
(* Hysteresis: previous cost / new cost below 1.1 is not worth a change.   *)
(***************************************************************************)
NotWorthIt(d, p) == ~IsBroken(d) /\ 10 * RescorePath(d) < 11 * LiveCost(d, p)

\* mutant: held one time unit short
IsHeldDownShort(d) == ~IsBroken(d) /\ age[d] # Never /\ HoldDown > age[d] + 1

\* mutant: a broken path is held down as well
IsHeldDownBroken(d) == age[d] # Never /\ HoldDown > age[d]

IsHeldDown(d) == ~IsBroken(d) /\ age[d] # Never /\ HoldDown > age[d]

Differs(d, p) == pathStore[d] \notin {NoPath, p}

Gated(d, p) ==
    /\ Differs(d, p) /\ NotWorthIt(d, p)
    /\ paths' = [paths EXCEPT ![d] = pathStore[d]]
    /\ UNCHANGED <<booked, age>>

HeldDown(d, p) ==
    /\ Differs(d, p) /\ ~NotWorthIt(d, p) /\ IsHeldDown(d)
    /\ paths' = [paths EXCEPT ![d] = pathStore[d]]
    /\ UNCHANGED <<booked, age>>

Reroute(d, p) ==
    /\ Differs(d, p) /\ ~NotWorthIt(d, p) /\ ~IsHeldDown(d)
    /\ MoveTo(d, p)
    /\ age' = IF CanMove(booked, EdgesOf(p), d) THEN [age EXCEPT ![d] = 0] ELSE age

Place(d) ==
    /\ Turn(d)
    /\ \/ KeepPrevious(d)
       \/ \E p \in ComputedPaths(d) :
             \/ FirstPass(d, p)
             \/ SamePath(d, p)
             \/ Gated(d, p)
             \/ HeldDown(d, p)
             \/ Reroute(d, p)

(***************************************************************************)
(* The end of a tick: the path set is stored, then sent to the dispatcher; *)
(* the send blocks while the channel is full.                              *)
(***************************************************************************)
StorePaths ==
    /\ pc = "demands"
    /\ turn \notin DOMAIN Order
    /\ pathStore' = paths
    /\ pc' = "send"
    /\ turn' = 1
    /\ snapshot' = NoSnapshot
    /\ UNCHANGED <<network, measured, updates, ticker, up, decisions, reports>>

\* mutant: a full channel drops the report instead of blocking
SendReportOrDrop ==
    /\ pc = "send"
    /\ reports' = IF Len(reports) < ReportBuffer
                  THEN Append(reports, pathStore) ELSE reports
    /\ pc' = "idle"
    /\ UNCHANGED <<network, measured, updates, ticker, turn, snapshot, up,
                   decisions, pathStore>>

SendReport ==
    /\ pc = "send"
    /\ Len(reports) < ReportBuffer
    /\ reports' = Append(reports, pathStore)
    /\ pc' = "idle"
    /\ UNCHANGED <<network, measured, updates, ticker, turn, snapshot, up,
                   decisions, pathStore>>

Dispatch ==
    /\ reports # <<>>
    /\ reports' = Tail(reports)
    /\ UNCHANGED <<network, measured, updates, ticker, tick, decisions, pathStore>>

-------------------------------------------------------------------------------
Environment ==
    \/ \E e \in Edges : LinkFlips(e) \/ LateResult(e)
    \/ \E e \in Edges, c \in Costs : UpdateCost(e, c)
    \/ StartupTimeout

Run ==
    \/ SkipTick \/ StartTick \/ StorePaths \/ SendReport
    \/ \E d \in Demands : Place(d)

Next == Elapse \/ Environment \/ Run \/ Dispatch

Spec == Init /\ [][Next]_vars

-------------------------------------------------------------------------------
PathSets == [Demands -> Seq(Edges)]

TypeOK ==
    /\ alive \in [Edges -> BOOLEAN]
    /\ silence \in [Edges -> {Never} \cup 0..StaleAfter]
    /\ converged \subseteq Edges
    /\ timedOut \in BOOLEAN
    /\ measured \in [Edges -> Costs]
    /\ up \in [Edges -> BOOLEAN]
    /\ phase \in 0..(TickPeriod - 1)
    /\ due \in BOOLEAN
    /\ pc \in {"idle", "demands", "send"}
    /\ turn \in 1..(Len(Order) + 1)
    /\ snapshot \in [measured : [Edges -> Costs], load : [Edges -> Nat]]
    /\ booked \in Registry
    /\ paths \in PathSets
    /\ pathStore \in PathSets
    /\ age \in [Demands -> {Never} \cup 0..HoldDown]
    /\ reports \in Seq(PathSets)
    /\ faults \in 0..MaxFaults
    /\ updates \in 0..MaxUpdates

(***************************************************************************)
(* No edge is ever reserved beyond its bookable capacity, whatever moves,  *)
(* failures and cost changes came before.                                  *)
(***************************************************************************)
NoOverbooking == \A e \in Edges : Load(booked[e]) <= Bookable[e]

(***************************************************************************)
(* The registry and the path set never drift apart: a demand is booked on  *)
(* exactly the edges of its current path, also between the moves of a tick *)
(* and on edges that went down under it (no leaked, no missing booking).   *)
(***************************************************************************)
BookingsMatchPaths ==
    \A d \in Demands, e \in Edges : d \in booked[e] <=> e \in EdgesOf(paths[d])

(***************************************************************************)
(* No decision is lost on the way to the dispatcher: except between the    *)
(* store and the send, the last path set in the channel is the one in the  *)
(* path store, so what the dispatcher applies last is what the PCE decided *)
(* last.                                                                   *)
(***************************************************************************)
LastReportIsCurrent ==
    pc # "send" /\ reports # <<>> => reports[Len(reports)] = pathStore

(***************************************************************************)
(* A path that was rerouted keeps its new course for the hold-down time    *)
(* unless a link of it goes down -- for the named classes.                 *)
(***************************************************************************)
RerouteOf(d) == paths[d] # NoPath /\ paths'[d] # paths[d]

LinkDownOn(d) == \E e \in EdgesOf(paths[d]) : ~up[e]

HoldDownHonoured(d) ==
    RerouteOf(d) => age[d] \in {Never, HoldDown} \/ LinkDownOn(d)

NamedClassesHoldDown == [][\A d \in Demands \ Bulk : HoldDownHonoured(d)]_vars

(***************************************************************************)
(* Neither hysteresis nor hold-down keeps traffic on a failed link: a      *)
(* demand whose turn comes while a link of its path is down leaves that    *)
(* path in the same turn whenever some path still has room for it.         *)
(***************************************************************************)
FailedLinkLeftInTurn ==
    [][\A d \in Demands :
          /\ turn' # turn /\ pc = "demands" /\ pc' = pc
          /\ d = Order[turn]
          /\ LinkDownOn(d)
          /\ ComputedPaths(d) # {}
          => \A e \in EdgesOf(paths'[d]) : up[e]]_vars

-------------------------------------------------------------------------------
(***************************************************************************)
(* The registry implements Admission: a demand's route is the set of edges *)
(* it is booked on.                                                        *)
(***************************************************************************)
RouteOf(d) == {e \in Edges : d \in booked[e]}

Routes ==
    [d \in Demands |-> {EdgesOf(p) : p \in PathsBetween(Edges, From[d], To[d])}]

Contract == INSTANCE Admission WITH route <- [d \in Demands |-> RouteOf(d)]

(***************************************************************************)
(* Every step of the PCE, seen through the registry, admits or moves one   *)
(* demand onto a complete route that fits, or changes no reservation; in   *)
(* particular Move never leaves a reservation half moved, and no demand    *)
(* ever loses its reservation once it had one.                             *)
(***************************************************************************)
ImplementsAdmission == Contract!Spec

-------------------------------------------------------------------------------
(***************************************************************************)
(* Fairness: time passes and the ticker fires, the PCE's goroutine is      *)
(* scheduled while it can run, and so is the dispatcher's.  Nothing is     *)
(* assumed of the network.                                                 *)
(***************************************************************************)
FairSpec ==
    /\ Spec
    /\ WF_vars(Elapse) /\ WF_vars(StartupTimeout)
    /\ WF_vars(Run) /\ WF_vars(Dispatch)

(***************************************************************************)
(* Once links stop failing, no demand stays on a link that is dead and was *)
(* ever probed: updateLinkStates notices the silence, and every demand     *)
(* finds its way round (the instance has the capacity for it).             *)
(***************************************************************************)
FailedLinksAreLeft ==
    <>[](\A e \in Edges, d \in Demands :
            e \in EdgesOf(pathStore[d]) => alive[e] \/ silence[e] = Never)

(***************************************************************************)
(* Every demand is placed in the end, whatever fails before the cost graph *)
(* is ready (the instance has the capacity for it).                        *)
(***************************************************************************)
EveryDemandIsPlaced == <>(\A d \in Demands : pathStore[d] # NoPath)

(***************************************************************************)
(* The paths of the named classes settle once links and costs stop         *)
(* changing, whatever the default class does around them.                  *)
(***************************************************************************)
NamedPathsSettle ==
    <>[][\A d \in Demands \ Bulk : pathStore'[d] = pathStore[d]]_vars

(***************************************************************************)
(* The same of every class: the order of placement is there "to make the   *)
(* ordering deterministic and prevent path churn".                         *)
(***************************************************************************)
PathsSettle == <>[][pathStore' = pathStore]_vars

(***************************************************************************)
(* Hold-down as the documentation states it, for every class: "The         *)
(* exceptions to this are when a link in the current path goes down".      *)
(***************************************************************************)
AllClassesHoldDown == [][\A d \in Demands : HoldDownHonoured(d)]_vars

(***************************************************************************)
(* Hysteresis as the documentation states it: "The computed path is        *)
(* compared with the previous path with updated costs", and a reroute that *)
(* no failure forces is at least 10% better at the costs of that moment.   *)
(***************************************************************************)
ReroutesAreWorthIt ==
    [][\A d \in Demands :
          RerouteOf(d) /\ ~IsBroken(d)
            => 10 * LiveCost(d, paths[d]) >= 11 * LiveCost(d, paths'[d])]_vars
===============================================================================
