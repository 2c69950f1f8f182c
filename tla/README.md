# Maeto in TLA+

A formal model of Maeto, an SD-WAN over SRv6: a controller computes one path per
tenant, traffic class and pair of POPs, reserves bandwidth on it, and distributes
the result to agents (at the POPs) and portals (at customer sites), which make
their dataplane agree with it. Each definition is translated from the Go source;
`PROJECT.json` lists the lines each one stands for, the hazards each property is
aimed at, and a mutation of the code that each property detects.

The project follows a decision through the whole system: demands, bandwidth and
paths (`PCE`), SIDs (`SIDAllocation`), the intent of each node on its way to it
(`IntentSync`), what the node makes of it in its kernel (`Reconciler`), and what
comes back: probe results and reports (`Collectors`).

## The system

| Part | State | What changes it | Talks to |
|---|---|---|---|
| Demand matrix (`pce_demand.go`, `tenant_repository.go`) | sites, classes, tiers | loaded at start | PCE |
| Bandwidth registry (`bandwidth_reservation.go`) | edge -> tenant -> reservation | `Move` | PCE |
| CSPF (`cspf.go`, `pce_graph.go`) | none | `computePath` | PCE |
| PCE (`pce.go`) | path store, last reroute times | the 10 s tick | cost graph, topology, dispatcher |
| Cost graph (`cost_graph.go`) | cost, last seen, convergence per edge | telemetry, PCE | both |
| Telemetry (`telemetry_collector*.go`, `ewma.go`) | averages, last sequence | probe results, redelivered until acknowledged or too old | cost graph, database |
| Dispatcher (`controller_dispatcher.go`) | none | a path set from the PCE | service registry, SID allocator |
| Service registry (`service_registry*.go`) | intent, generation and version per node | transactions, restart, `Restore` | database, bucket |
| SID allocator (`service_registry_sid.go`, `hash.go`) | cursor, allocations | `GetOrGenerateSID` | database |
| Intent distribution (`nodesync`, `agent_intent.go`) | bucket, watch, feeds | publish, watch, resync | agents, portals |
| Reconciler (`libs/dataplane`) | kernel objects | one intent: plan, diff, apply, up to 3 passes | dataplane |
| Probe supervisor (`libs/probe/supervisor.go`) | running probes | intents, exits, shutdown | probes |
| Topology reports (`topology_report_collector.go`) | End.X SIDs, report times | reports, sweep | topology |
| Tunnels (`controller_tunnels.go`, `portal.go`) | tunnel interface per end | requests of both ends, resync | service registry |

What makes it hard. A tick of the PCE is a long loop over demands that reads costs
which telemetry changes meanwhile; each demand's outcome changes the registry, and
through it the costs, for the next; links fail and return, and results measured
before a failure arrive after it; the load of an edge under the hose model is not
the sum of its bookings. Intents are written to a database and a bucket after the
lock is released, by several writers, and the control plane may crash between any
two writes. Feeds drop, watches close, the kernel refuses or half does what it is
asked, and a node compares by keys that leave fields out. Results are delivered
again, probes overtake each other and are stopped late, and dead routers' reports
are replayed.

What ought to be true of it: no edge is reserved beyond its bookable capacity;
the registry holds exactly the current paths; a demand that was admitted stays
admitted; paths avoid failed links, change only for a gain, and come to rest. What
was committed is what the bucket holds and what nodes converge on, over restarts.
A node's kernel has what its intent says when it reports so, and nothing of
another tenant or program is touched. The probes that run are the ones asked for,
losses are real, results are kept, and segments are those of live routers.

## Modules

| Module | Models |
|---|---|
| `TrafficDemands` | `BuildDemands`, its sort, and the hose load of a set of reservations |
| `HoseEdge` | reservations coming and going on one edge, for a set of site catalogues |
| `HoseEdgeProofs` | sums over finite sets, and the proofs about `TrafficDemands` and `HoseEdge` |
| `PCEGraph` | the graph of links that are up, paths, least-cost paths and the choice between equals |
| `CSPF` | `computePath` and `reconstruct`, one step per round of the loop and per edge read back |
| `CSPFProofs` | the proofs about `CSPF` and the paths of `PCEGraph` |
| `BandwidthReservation` | the registry: capacity check, pruning, `Move` |
| `Admission` | what the registry promises, abstractly |
| `PCE` | `PCE.Run` with probes, costs, clock, channel and dispatcher beside it |
| `PCEProofs` | the proofs about `PCE` |
| `SIDAllocation` | `getOrGenerateSID`, `permute`, the tables behind them, and the boot that clears or reloads them |
| `SIDProofs` | the proofs about `SIDAllocation` |
| `IntentSync` | the service registry, its transactions and boot, the bucket, watches and feeds of agents and portals, and tunnel updates |
| `IntentSyncProofs` | the proofs about `IntentSync` |
| `Dataplane` | the kernel of a node as a set of objects, and the netlink and nftables operations on it |
| `Reconciler` | `Reconcile` of a PE or CPE: render, plan, diff, ordered apply, passes, report |
| `ReconcilerProofs` | the proofs about `Reconciler` and the operations of `Dataplane` |
| `ConvergenceProofs` | the proofs that undisturbed passes converge |
| `Probes` | the probe supervisor and the goroutines it runs |
| `Telemetry` | the results of a link, from the packet to the database, with `Probes` |
| `Reports` | End.X SIDs, from the kernel of a router to the segments of a path |
| `Collectors` | `Telemetry` and `Reports` in one control plane that restarts as a whole |
| `CollectorsProofs` | the proofs about `Collectors` |
| `MCHoseEdge`, `MCCSPF`, `MCPCE`, `MCSIDAllocation`, `MCIntentSync`, `MCReconciler`, `MCTelemetry` | instances for TLC |

How they fit together: `CSPF` is checked to answer exactly `ChosenPaths` of
`PCEGraph`, and `PCE` uses `ChosenPaths` in place of the loop. `HoseEdge` is
checked for what `BandwidthReservation` assumes of `Load` (`LoadAssumption`), and
`MCPCE` instantiates `Load` with `HoseLoad`. `PCE` is shown to implement
`Admission`, a demand's route being the edges it is booked on. `IntentSync` takes
from the PCE that path sets are dispatched, and from the reconciler that it refuses
an intent older than the one it converged on and may fail; `Reconciler` shows the
first of the two (`StaleIntentsAreIgnored`) and assumes what `IntentSync` gives it:
intents in any order, also two contents under one version and generation, as after
a crash. `Collectors`
composes the two ways back, whose effects (a result at any time, `Edge.Up`, a
segment) are inputs of `PCE` and of the dispatcher.

### State and actions of `PCE`

`alive` and `silence` are the network and `CostGraph.lastSeen`; `converged` and
`timedOut` give `IsReady`; `measured` is the live cost graph, `snapshot` the copy
`costSnapshot`; `up` is `Edge.Up`; `booked` the registry; `paths` and `pathStore`
the working copy of the tick and `PathStore`; `age` the time since the demand's
entry in `lastRerouteMap`; `reports` the channel to the dispatcher.

A tick is `StartTick` (or `SkipTick` before the cost graph is ready), one `Place`
per demand, `StorePaths` and `SendReport`. `Place` has one disjunct per way out
of the loop's body: `KeepPrevious`, `FirstPass`, `SamePath`, `Gated`, `HeldDown`,
`Reroute`. `Elapse`, `LinkFlips`, `LateResult`, `UpdateCost`, `StartupTimeout` and
`Dispatch` may come between any two of them, except that time does not pass
inside the demand loop, which takes milliseconds.

### State and actions of `CSPF`

`dist`, `prev` and `visited` are the loop's state, `path` the edges `reconstruct` has
read back. `Begin` has the early returns, `Settle` is one round of the loop, `Finish` its
end, and each `Reconstruct` follows one predecessor, until it is at the source (the path)
or there is none (no path).

### State and actions of `SIDAllocation`

`sidCursor`, `sidAllocationMap` and `sidTenantMap` are the registry's memory, `db`
and `dbCursor` the table `sid_allocations` and the stored cursor, `changed` says
that the files no longer have the stored fingerprint, and `given` is a history of
what callers were given since the last reset.

A call ends as `ReturnExisting`, `TooManyCollisions`, `CommitFails`, or as `Commit`
followed by `Remember`. The registry's mutex keeps other calls out between the last
two, a `Crash` may still come there. `CommitFails` covers a rollback, a refusal by
one of the table's two uniqueness constraints, and a commit whose acknowledgement
was lost. A restart is `BootStore`, which clears the tables on a cold or reset
boot, and `LoadPreviousState`.

### State and actions of `IntentSync`

`registry` is `ServiceRegistry.registry`, `db` the table `node_generations`,
`bucket` and `bucketUp` the intent bucket. `writer` says what each of the five
goroutines that may be inside `Commit` or `Restore` has still to write: a commit is
`Mutate` (under the lock, part of the handler's action), then `Upsert` and `Publish`
for each snapshot, in any order. `cp` is how far `Start` has come: `Boot`,
`StartCommit`, `SetupEndpoints`, `ResyncEnds`. `SetupEndpoints` says which of the calls
is the first to fail: one of the first three subscriptions (`Start` has returned,
`"stuck"`), that of the CPE endpoint (it has returned too, `"half"`, but tunnel updates
of PEs are answered), or one of the two resync requests, which is only logged.
`Restore` makes the bucket, `RestoreSnapshots` then reads the registry, `RestoreOne`
publishes: commits may come between any two of them, and reconnects may call it again.
`hooked` says that a reconnect calls `Restore`; it is false again once a telemetry
collector has set its own handler on the same connection (`SetReconnectHandler`).

A node starts when the health endpoint answers ready, watches its key, and passes
what it sees on: `WatchDelivers`, `FanOut` (with drops), `ResyncTick`, `Reconcile`. A
portal has no `FanOut` and no ticker. `TunnelUp` gives both ends their events;
`ReportEvent`, `ResyncRead` and `ResyncReport` send updates, which the handlers put
into the registry. The faults are failed writes, requests and reconciles, crashes,
restarts of nodes, reconnects, with or without the bucket, and closed watches.
`floor`, `top`, `clean` and `missed` are history.

### State and actions of `Dataplane` and `Reconciler`

`fib` is the kernel: VRFs, tunnels, routes, rules, SIDs, segment routes and marks.
An operation of `dataplane_netlink.go` is a function from `fib` to `fib` with an
outcome: done, refused, or half done where the code makes several calls. What the
kernel does by itself is in it: deleting a link flushes its routes and SIDs.
A second tunnel with the `if_id` of another is refused, and a table id is sent as 32
bits (`KernelTable`). `nftQueue` is the batch the nftables connection holds, which only
the next `EnsureClassificationBase` sends. The kernel refuses it as a whole when it
deletes what is not there, or adds a key that has another mark in the kernel or earlier
in the batch.

A `Reconcile` is `Deliver`, then up to three rounds of `PlanAndDiff` (or `PlanFails`),
`Ensure`, one `ApplyOne` per resource, and `EndPass`. `Render` is evaluated for every
order in which the tenants of an intent may be visited. In `Ensure` the batch is sent,
refused, or lost to a failing flush, which ends the call. `Drift` and `Restart` may
come at any point; when `EnsureClassificationBase` fails at the start, `Start` returns
an error that is only logged, and the node goes on without a reconciler (`"stopped"`).

### State and actions of `Probes`, `Telemetry`, `Reports` and `Collectors`

`probes` is the supervisor's map, `stopping` the goroutines a reconcile waits for,
`late` those it stopped waiting for. `Reconcile`, then `Stopped` or `StopTimesOut`, is
`reconcileWithTarget`. `sender` has the sequence number of each open socket. A probe
is `wire`, its result is in `stream`, and `Consume` is one delivery: `handleSTAMP` and
the answer. `again` holds what will be delivered again. `ExpireResult` is the stream's
`MaxAge`: a result may be too old at any time, those that were delivered before those
that were not. `expired` is a history of what was dropped.

In `Reports`, `kernel` is what the IGP installed at a router, `state` its report in the
bucket, `endX` and `reportedAt` the topology's SID and the collector's time stamp,
`segment` what the dispatcher put into the path. Of time only matters whether a
report is older than `topologyReportStaleAfter`.

### Abstractions

- A named class has one measured cost per edge instead of weighted latency,
  jitter and loss; the default class has the static utilization. Costs are
  integers, `Scale` standing for the 1.0 that each edge costs. In `MCPCE`
  `Scale = 48`, which makes every utilization cost exact for at most four units
  of bookable capacity. Rounding of floating-point numbers is not modelled.
- `Bookable` is the capacity less `capacityHeadroom`.
- A demand stands for its reservation and its path key: tenant, POPs and label
  identify all three.
- Links are not bundled, as `NewPCEGraph` does not bundle them. Names of nodes
  and edges are numbers in the order of the names.
- Time is discrete. In `MCPCE` a unit is one tick of 10 s, so a link silent for
  15 s is found down two ticks after its last result (`StaleAfter = 2`) and the
  hold-down of 30 s is `3`. Whether results come in the first or the second half
  of a tick makes no difference to what a tick sees.
- `LateResult` needs a link that has been silent for a unit at least; it is
  bounded together with failures.
- A SID is a pair of locator and function; the encap type is not part of the key,
  as `DT46` is the only one asked for. SIDs that nodes still hold after a reset
  boot, until new intents reach them, are not followed.
- The content of an intent in `IntentSync` is the last tunnel of each portal, the
  number of the path set and whether peers are set: what different writers write.
  Versions and generations are natural numbers; their 32 bits are not exhausted.
  A bucket key holds one value, the last put: a watch that has not yet delivered a
  value when the next one is put delivers only the later one.
- A dispatch in `IntentSync` sets the path set of a PE as a whole. A set may lack single
  pairs of sites, of which the code then leaves out the paths; no property looks into
  a path set.
- In `Dataplane` an interface index stands for the link, the parent of a tunnel and
  the metrics are left out, and strict mode for VRF tables is on, as `UpsertVRF`
  turns it on. It does so at its end, so a first VRF is added without it, and a VRF
  of a shared table would be accepted then.
- Rules of Maeto's that differ only in their input interface have one key, and
  `RenderFIB` in the code keeps the last of them, in the model all. The diff adds a rule
  only when its key is not there, so the reconciler makes no two where table ids fit in
  32 bits.
- A probe's goroutine that outlives its stop (`late`) sends nothing more in `Probes`; in
  the code it may finish the send it is in.
- `Plan` and `Diff` read the kernel at one moment.
- `Reconciler` assumes of the kernel it finds (`FibsAreSound`) that it has one object
  per place (link name, table and destination, SID) and that a VRF of another program is up. `UpsertVRF` would raise one that is down if it had the wanted
  name and table.
- `Telemetry` follows one link. The latency average is its number of samples, the
  loss average the set of probes counted as lost.

## Runs

| Run | Asks | Result |
|---|---|---|
| `hose_edge` | does the hose load cover all traffic within the contracts, never rise on a release, and do demands come in priority order | holds |
| `cspf` | is the answer of `computePath` the least-cost path, with the documented choice between equals, and does the loop end | holds |
| `pce_safety` | safety and refinement of the PCE with failures, late results and cost changes | holds |
| `pce_liveness` | are demands placed, dead links left, and do named classes settle | holds |
| `pce_hold_down` | hold-down for every class, as `README.md:108` states it | violated |
| `pce_churn` | do all paths come to rest, as `README.md:101` intends | violated |
| `pce_hysteresis` | is every voluntary reroute a gain of 10%, as `README.md:106-107` states it | violated |
| `sid_allocation` | are SIDs kept and never shared over failures, crashes and resets, and is every key served | holds |
| `sid_full_period` | do the parameters of `hash.go` give a full period, as its comment says | violated |
| `intent_sync` | do intents outrank what was published before a restart, does an undisturbed commit reach the bucket, do agents catch up, do tunnels reach the registry | holds |
| `reconciler` | does an undisturbed `Reconcile` converge in three passes to exactly the rendered resources; are tables, other programs' VRFs and newer intents left alone; does it end | holds |
| `telemetry` | does no probe run twice, do the wanted ones come to run, are losses real, results stored unless they expired, and segments those of live routers | holds |

### Bounds

- `hose_edge`: 28 catalogues of up to five sites, two tenants, two classes and
  three POPs; up to six reservations at once, which is enough for shared sources,
  shared sinks and consolidated sites. Every traffic matrix within range is tried.
- `cspf`: four nodes, six edges, weights 1, 2, 4 and infinity on every edge;
  includes parallel edges, ties of one- and two-hop paths, unreachable, equal and
  unknown endpoints.
- `pce_safety`: a direct link and a detour whose last hop is doubled; three
  demands of two tenants, one of a named class, from two POPs. Capacity is short,
  so that demands displace each other and moves share edges with the old path.
  Two faults (failures, returns or late results) and one cost change at any
  point, a channel of one place. `MaxFaults` and `MaxUpdates` bound only the
  environment; time and ticks go on for ever.
- `pce_liveness`: two parallel links and a detour, a named and a default-class
  demand, one fault, one cost change.
- `sid_allocation`: two locators, two tenants, a cursor of 3 bits with parameters
  that satisfy the same conditions as the real ones and overflow likewise; two
  functions for two tenants, so that the second is often found only after a call
  failed with too many collisions, and the cursor wraps. Two crashes
  (`MaxRestarts`), any number of failing transactions, edits at any time.
- `sid_full_period`: the real parameters, one locator, one tenant.
- `intent_sync`: two PEs and one portal, feeds of one place, so that drops happen.
  Seven scenarios say which nodes run beside the control plane and how many tunnels,
  dispatches and faults there are, up to two of each; together they have every
  pair of writers, a tunnel replaced during a boot, a crash between the two writes
  of a commit, a reconnect within a `Restore`, an agent whose control plane comes back
  only halfway, and a bucket lost before and after the handler was replaced.
- `reconciler`: a PE and a CPE with up to three deliveries of nine intents in any
  order, one fault at any point; two tenants (`MaxTenants`) whose tables differ or
  collide, and a foreign VRF with the name or the table of one of them. The intents
  add, change and remove tenants, tunnels, SIDs, paths and classes. One class has a
  DSCP too large to be rendered, one CPE intent has a tunnel and no prefix. One intent,
  with the version and generation of another, has a color too large for a table id, an
  `if_id` that the other tenant's tunnel has, and two colors for one DSCP, which the
  kernel refuses. `TableSpan` is 16 and `TableIDs` 128, three bits of color for the eight
  of the real 2^24 and 2^32.
- `telemetry`: one link whose address changes, tolerance 1, two results that may
  wait for their answer; a router with a link and one with a bundle. Nine
  scenarios put the weight on the supervisor (three intents, two faults), on the
  results (four probes of one socket, three of each of two sockets, or a change of
  address), on skewed clocks, or on the reports (up to three faults). Three probes
  of two sockets are the least with which a number of the new socket is mistaken
  for a late one of the old. A restart of the control plane is one of the faults.
  `expiries` bounds how many results come of age; in all but one of the scenarios with
  probes it is their number, so that any of them may.

### Fairness

`FairSpec` assumes weak fairness of `Elapse` (time passes), `StartupTimeout` (five
minutes pass), `Run` (the goroutine of the PCE is scheduled, the ticker fires) and
`Dispatch` (so is the dispatcher, whose loop has no exit but cancellation). It
assumes nothing of links, results and costs.

`Spec` of `SIDAllocation` assumes weak fairness of the process's own steps and of
its restart, and strong fairness of `Commit` and `TooManyCollisions` for each key:
the dispatcher asks again for each path set, and a database that is asked again
and again does answer. Crashes stop at some point (`MaxRestarts`), since the
cursor's progress over collisions is not stored and a control plane that crashes
for ever may make none.

`Spec` of `IntentSync` assumes weak fairness of the successful outcome of each step of
a goroutine and of the node's ticker; a fault is bounded and may come instead.
Nothing is assumed of crashes, new tunnels, dispatches and reconnects. `Reconciler`
assumes only that a `Reconcile` that has begun goes on (`Step`).

`Collectors` assumes weak fairness of the supervisor, of the goroutines that were
cancelled (they select on their context), of the two tickers, of the watch and its
reopening, and of the deliveries of the stream, since a durable consumer delivers
until it is answered. A refused result of skewed clocks, which nothing else removes,
comes of age (`MaxAge`); of others it is not assumed. The delivery of each router's report is strongly fair: the
feed is full between any two deliveries, but the stream keeps the order of the
reports, which are seconds apart, so no router is passed over for ever. Probes need
not be sent, an agent that is down may stay so.

### What the passing runs leave out on purpose

Each exception in a property is a behaviour of the code that was met as a
counterexample:

- After a failed start of the reconciler nothing runs it again until the node restarts;
  `ReconcileEnds` is about a call that has begun.
- `LastCommitIsPublished` needs that no other write of the node was pending at the
  commit. Two overlapping commits can publish in the opposite order, and the bucket
  keeps the older intent until the next commit. A failed `UpsertNodeGeneration`
  skips the publish while `Commit` returns no error.
- After a reconnect that lost the bucket, intents are restored only until the
  telemetry collectors start, because they replace the connection's one reconnect
  handler (`telemetry_collector.go:112`). `Restore` also stops at the entry of a portal
  that has only authenticated, whose intent has no portal id.
- `RestartOutranks` speaks of commits. `Restore` publishes without recording, so a
  version it alone has published can be used again after a crash.
- `NodesCatchUp` is about agents whose watch lives. A closed watch is never reopened,
  and portals have no periodic resync.
- `TunnelsReachIntents` excepts reports that were lost or refused, agents that were
  not there, and a resync's report that overtakes a newer event's. An agent does not
  report the tunnels it finds when it starts.
- `UndisturbedReconcileConverges` and `ConvergedIsComplete` need a kernel in which no
  object with a wanted key differs in a field the key leaves out, no two tenants of
  the intent share a table, no two wanted resources take one place in the kernel or, of
  tunnels, have one `if_id`, every table id fits in 32 bits, every
  path has segments, no VRF of another program has a wanted name or table, and no
  class goes: a deletion from the mark map has a key of the wrong length, and the
  kernel refuses the batch with it. Colors 256 apart give one table id in the kernel,
  and the collision map, which compares the ids before they are truncated, does not see
  it (`TablesAreNotShared` is about those).
- `NoTwinProbes` holds until a stop times out; then the successor is started beside
  the old goroutine. `TargetIsProbed` excepts intents without peers, which are passed
  over, so that the old probes go on.
- `LossIsReal` excepts a result that comes after those of a newer socket or more than
  the tolerance late; and one that comes behind another at the beginning of its
  socket, when the other one was still within the tolerance of the old socket's last
  number and was passed over: `stampLastSeq` then goes back behind it, and the next
  result counts it as lost. `ResultsAreStored` excepts results that the stream drops for
  their age: in an outage of the database or the control plane that outlasts `MaxAge`, or
  behind refused results of skewed clocks, which stop the consumer until they expire.
- `SegmentsFollowRouters` excepts a router whose clock is behind by the staleness
  limit: its SID comes and goes with each sweep.

### What the violated runs show

- **Full links look broken.** `checkCapacity` admits a load equal to the bookable
  capacity, and `staticUtilizationCost` is infinite there. A default-class demand
  that fills a link exactly is then "broken" at each tick, exempt from hysteresis
  and hold-down, and moves to another path every 10 s while every link is up.
- **A demand avoids itself.** The utilization an edge is scored with includes the
  demand's own reservation, so the path in use looks worse than an equal one that
  is idle. A third of a link is enough to exceed the 10% threshold: the path
  alternates after each hold-down time, for ever. `ReservedMapExcluding`, which
  leaves the demand out, exists and is not called.
- **Two clocks in one comparison.** The previous path is scored with the costs at
  the start of the tick, the new one with live costs. A result handled in between
  makes the previous path look dearer than it is by then.
- **The period is not full.** `a*x + c` wraps at 2^16 before it is reduced modulo
  `n`. Cursors 0 and 4090 give the same function, so do 42 and 2111, and 257 of the
  4095 functions are never reached. Uniqueness does not depend on it
  (`NeverShared`); calls run into collisions earlier, and the five tries of a call
  can all collide while SIDs are free.

Named classes are free of the first two of these (`NamedClassesHoldDown`,
`NamedPathsSettle`). The third is bounded by a theorem: where the edges of the old path cost what
they did in the snapshot, a reroute gains its 10% (`ReroutesPayAtSteadyCosts`).

A remark on a comment: `staticUtilizationCost` says an idle edge costs
`1/(1+convex(f_ref))`; the code gives it 0, and so does the model.

## Proofs

`PCEProofs` proves, for every finite topology, set of demands, order, capacity,
duration and bound, and for every `Load` that is a natural number, zero for no
reservations and not raised by a release:

| Theorem | Says |
|---|---|
| `TypeCorrect` | the type invariant |
| `LedgerInvariant` | the inductive invariant `LedgerInv` |
| `NeverOverbooked` | `NoOverbooking` |
| `LedgerMatchesPaths` | `BookingsMatchPaths` |
| `LastReportCurrent` | `LastReportIsCurrent` |
| `NamedClassesAreHeldDown` | `NamedClassesHoldDown` |
| `FailedLinksAreLeftInTurn` | `FailedLinkLeftInTurn` |
| `PCEImplementsAdmission` | refinement of `Admission` |
| `ReroutesPayAtSteadyCosts` | `ReroutesAreWorthIt` holds wherever the old path's edges cost what they did in the snapshot |
| `EveryTurnPlaces` | a turn with room ends with a path, and no path is ever lost |

`SIDProofs` proves, for every set of locators and tenants, every width and every
choice of the cursor's parameters:

| Theorem | Says |
|---|---|
| `SIDAllocationTyped` | the type invariant |
| `AllocationInvariant` | the inductive invariant `AllocationInv` |
| `SticksThroughCrashes` | `SIDsAreSticky` |
| `NeverShared` | `NoSharedSID` |
| `MapsNeverDrift` | the collision map is exactly the SIDs of the tenant map |
| `ConstraintsRefuseNothingFree` | the table accepts what memory offers, unless an acknowledgement was lost |

`IntentSyncProofs` proves, for every set of nodes, attachment, scenario and feed size:

| Theorem | Says |
|---|---|
| `IntentSyncTyped` | the type invariant, feeds within their capacity included |
| `IntentSyncInvariant` | the inductive invariant `IInv` |
| `RestartsOutrank` | `RestartOutranks` |
| `CleanCommitsArePublished` | `LastCommitIsPublished` |
| `AgentsRepeatTheBucket` | the agent has the bucket's intent before it, or repeats it |
| `RegistryIsNeverBehind` | no node has a higher version than the registry |
| `TunnelsAreOnTheWay` | a portal's last tunnel is in the PE's intent or on its way there |

`ReconcilerProofs` proves, for every set of intents and tenants, every hash of the
tenants into tables, every initial kernel that satisfies `FibsAreSound` and every
number of passes, deliveries and faults:

| Theorem | Says |
|---|---|
| `IntentsGoForward` | `StaleIntentsAreIgnored` |
| `TenantsKeepApart` | `TablesAreNotShared` |
| `ForeignVRFsSurvive` | `ForeignVRFsAreLeftAlone` |
| `ReconcilerTyped` | the type invariant: no two objects with one key, no more passes than `MaxPasses` |
| `EveryStepGoesAhead` | a step ends the Reconcile, or goes on: pass, phase or diff; nothing sets it back |
| `ApplyIsNeverStuck` | while a diff is not empty, some resource's turn has come |
| `ConvergedMeansComplete` | `ConvergedIsComplete` |
| `ThreePassesConverge` | `UndisturbedReconcileConverges`, if `MaxPasses` is 3 or more |

(the last two in `ConvergenceProofs`).

`CollectorsProofs` proves, for every set of intents, addresses and routers, every
tolerance and all bounds:

| Theorem | Says |
|---|---|
| `CollectorsTyped` | the type invariant of probes, telemetry and reports |
| `ProbesRunOnce` | `NoTwinProbes` |
| `LossInvariant` | the inductive invariant `LossInv` |
| `LossesAreReal` | `LossIsReal` |
| `OnlyAgeLosesResults` | a published result is in the stream, to come again, a row, or dropped for its age |
| `MapFollowsIntents` | the supervisor's map is what one intent asks for, or a part of it within a reconcile |
| `TopologyFollowsReports` | a router's report is due, last in the feed, applied, or cleared as stale |

`HoseEdgeProofs` proves, for every set of site catalogues and every catalogue of
classes:

| Theorem | Says |
|---|---|
| `HoseLoadMonotone` | the hose load of some reservations is at most that of all |
| `HoseCovers` | traffic that fits every source and sink is at most the hose load |
| `HoseLoadMeetsAssumptions` | `LoadAssumption`, on which `PCEProofs` rests, holds of the hose load |
| `PrecedesIsTotalOrder` | the comparator of the demands is a strict total order |
| `HoseEdgeTyped` | the type invariant |
| `PlacedByPriority` | `OrderIsPriority` |
| `ContractsCovered` | `HoseCoversContracts` |
| `ReleaseOnlyFrees` | `ReleaseNeverRaisesLoad` |

`CSPFProofs` proves, for every finite graph and all positive weights:

| Theorem | Says |
|---|---|
| `ComputePathTyped` | the type invariant |
| `ComputePathIsOptimal` | `AnswerIsOptimal`: the one path that `ChosenPaths` allows, or none |
| `VisitedDistancesAreLeast` | `VisitedIsSettled` |
| `ComputePathIsBounded` | every step leaves fewer to come: at most a round, and an edge read back, for every node |

Each of these modules says `USE Zenon`, which makes Zenon the prover of every leaf; a leaf that
needs arithmetic or the theory of functions, records and sequences names `SMT`. `tlapm` checks
each module in a few minutes.

### Assumptions

Each is an `ASSUME` that TLC evaluates on the instances, and is justified by the code.

| Assumption | Why the code satisfies it |
|---|---|
| `LoadAssumption` | proved of the hose load (`HoseLoadMeetsAssumptions`) |
| `ClassAssumption` | the catalogue refuses a label or an index that is taken |
| `SiteAssumption`, `NameAssumption` | names are strings in the code, and here numbers in the same order; the catalogue refuses a class without bandwidth, and bandwidths (floating point in the code) are whole numbers |
| `WeightAssumption` | `WeightedCost` adds `costEdgeEpsilon` to what was measured, once per edge |
| `FibsAreSound` | the kernel has one link of a name, one route per table and destination, one SID, one element per key of a map; a VRF of another program is up |
| `ReconcilerConstants` | versions, generations and colors are natural numbers; `StringToID` is below `TableSpan`; a map is visited in some order of at most `MaxTenants` keys |
| `CollectorsConstants`, `NoReportAssumption` | "no report" and "no SID" are not reports and SIDs |
| `MaxPasses >= 3` in `ThreePassesConverge` | `maxPasses` is 3 |

### Arguments

The argument for the PCE. `Move` releases the edges of the path that the *store* held at the
start of the tick, while the bookings belong to the *working copy*. That the two
agree is not part of either safety property, and without it neither
`BookingsMatchPaths` nor the refinement is inductive. `StoreAgrees` supplies it:
outside the loop the two are equal, inside it they are equal for each demand
whose turn is still to come, because the order names every demand once
(`DemandAssumption`). Capacity then follows edge by edge (`MovedFits`): a booked
edge was checked on the very registry that changes, and a released one has no
more load than before (`LoadAssumption`). Hold-down and failed links follow from
`PathChange`: a path changes only in its demand's turn, by a first placement or a
reroute onto a computed path.

The argument for SIDs. Neither property speaks of rows that no caller was told of,
nor of the moment between the transaction and the write to memory; `AllocationInv`
does. Rows differ (`RowsDiffer`, from the constraints of the table); memory knows
a part of the table (`MemoryFollowsTable`), not all of it, because of lost
acknowledgements; the row that is about to enter memory is the one just stored
(`PendingIsStored`). That the cursor's function is a permutation is not needed.
Typing follows from the same invariant: the cursor stays below `Width` because it is
advanced modulo `Width`, whatever its parameters.

The argument for intents. Neither property is inductive, because both speak of the
bucket and the registry while the snapshots are in the hands of the writers. `IInv`
adds what they carry. `Ranked` orders the versions of a node: published before this
boot, published in all, recorded in the database or about to be published, in the
registry; `Upsert` before `Publish` keeps the third above the second, and
`LoadPreviousStateFromDB` puts the fourth above the third. `InFlight` says that every
snapshot in flight has the registry's version, and that one whose `Upsert` is done
is recorded. `Clean` says that the snapshots of an undisturbed node are the
registry's entry, and that one of them or the bucket holds it; so the last `Publish`
leaves it in the bucket, and `Restore`, which took its snapshots from the same
registry, writes nothing else. `Resting` says that a control plane that is down or
booting has no work in flight, which a restart relies on. For `IntentSyncTyped`,
`NodesInv` types what travels (bucket, feeds, updates in flight) and `Bounds` relates
each version to the commits and boots so far: only with it is a version that is
about to be written known to lie within the scenario's bounds.

The argument for the reconciler. `CallInv` says that once `Plan` has let an intent
through, it is no older than `current` until the call ends: nothing but the end of a
call, or a restart, changes `current`. `TenantsKeepApart` follows
from the collision map alone: of two tenants with a common table and color one was
visited first, and a color and a table below `TableSpan` determine the routing table
(`ColorTableIsUnique`). For `ForeignVRFsSurvive` every operation of `Dataplane` is shown
to keep the links well formed and to keep each VRF that is not Maeto's
(`Preserves`), for every outcome; the steps of the reconciler follow from that.

That three passes are enough is an argument about what each pass leaves. `SoundInv`
says that the kernel stays `Tidy` under every operation, failure and deletion: one
object per place, and so one per key, which `Diff` relies on when it takes two
objects with one key for one. What an intent renders to does not depend on the
order of the tenants when nothing collides (`OrderDoesNotMatter`), so all passes want
the same set W. `UndisturbedInv` follows them. The first pass starts from any kernel that is
not in the way of W; while it runs, whatever is in the kernel is wanted, is a catch-all route
of a wanted VRF, or is still to be removed (`FirstPass`), for each removal in the order of
`RemoveOrder` and each addition in that of `AddOrder`, with all that a deleted link takes
with it. At its end the links are built and the classes are in the batch
(`LinksAreBuilt`). The second pass
flushes the batch, removes only catch-alls and adds only what needs no link
(`SecondPass`); at its end the tables are W, and the third finds no difference. Because
the diff compares keys and the invariant whole objects, the same invariant gives
`ConvergedMeansComplete` for any number of passes.

`Favourable`, the hypothesis of both, had to be made precise for this: that no two wanted
resources want one place, and that no VRF of another program has a wanted name or
table, are needed. With a VRF of another program in a tenant's table,
`UpsertVRF` fails in every pass and `Reconcile` reports so; the run `reconciler` has that
kernel among its initial ones. The conditions are about the moment an intent is
delivered; that they then hold through the passes is part of what is proved.

The argument for the collectors. `NoTwinProbes` counts goroutines; `SupervisorInv` says
where they can be: what is being stopped has left the map, and is waited for only
within a reconcile, which starts nothing before the wait is over. For losses,
`LastSeqLeads` is what the accounting maintains: no handled result of the newest
socket is ahead of `stampLastSeq`. A larger number keeps it, a number taken for a
restart keeps it because nothing of its own socket was ahead, and a gap above
`stampLastSeq` then contains no handled result.

The argument for the collectors' types: that a redelivered result, a row or a handled
result was published before, and that a socket belongs to a running probe, are
relations between components, and need `ProbesInv`, `ResultsInv` and `ReportsInv`, which
say what is in each feed and in flight.

The argument for the hose model. A sum over a finite set is defined by a recursive
function that chooses one element after the other, and the first part of `HoseEdgeProofs`
shows what that does not say: a sum is the same in every order of its elements
(`SumRemove`), adds up over disjoint sets, is monotone, and may be split by
classes (`SumByClass`). The load of a class is the lesser of its sources and its
sinks; traffic that fits both is at most either sum (`Fits`), and the classes and
tenants of an edge add up. It needs that the bandwidth of a source is a function of
tenant, class and POP (`AreDemands`), which `BuildDemands` guarantees, and which
makes counting a source once per POP correct. For the order,
`SortKey` determines the demand, so that the comparator leaves no two demands equal,
and `DemandOrder`, the sequence sorted by it, is unique.

The argument for `CSPF`. `TreeInv`: the visited nodes precede all reachable ones in
the order (distance, name); every reachable node hangs by `prev` on a visited one, and
that edge is better, in the order in which the code prefers edges, than every other edge from
a visited node. A walk from the source that leaves the tree is then no cheaper
than the tree's path to the node it ends in (`WalkLowerBound`), and if
it is as cheap, loses the tie at the first edge, from the end, in which they differ (`TreePathIsPreferred`);
`reconstruct` reads the tree's path from its end: what it has read ends in `dst`, hangs on a
node of the tree, and is the last part of that node's path (`Traced`), so at the source it is
the whole of it (`TraceIsOptimal`), and that it is simple follows from distances that grow along it. So the answer is the one path that
`ChosenPaths` defines, which is what `PCE` uses: the proofs about the PCE and the
proof of `computePath` meet there.

Induction over data. The library's induction theorems take the property as an operator,
which the installed provers cannot instantiate. Here the property is a *set* of numbers or of
subsets instead, and `NatInductive` and `FiniteInductive` follow from the existence of
least elements. That a recursive function exists is shown by the same means.

The argument for the liveness properties. Each says that something comes to happen, and is a
safety property (nothing that is needed for it ever goes missing) together with the fairness of
the steps. The first is proved, for every value of the constants; TLC checks the two together on
the instances.

| Liveness property | What is proved of it | What is left to fairness |
|---|---|---|
| `Terminates` | `ComputePathIsBounded` | the loops go on |
| `EveryDemandIsPlaced` | `EveryTurnPlaces` | ticks come, and there is room |
| `FailedLinksAreLeft` | `FailedLinksAreLeftInTurn` | silence is noticed, ticks come, and there is room |
| `NamedPathsSettle` | `ReroutesPayAtSteadyCosts`, `NamedClassesAreHeldDown` | costs and links come to rest |
| `EveryKeyIsServed` | `ConstraintsRefuseNothingFree` | the cursor comes to a free SID, the database answers |
| `ReconcileEnds` | `EveryStepGoesAhead`, `ApplyIsNeverStuck` | the goroutine runs, and a diff is finite |
| `NodesCatchUp` | `AgentsRepeatTheBucket`, `RegistryIsNeverBehind` | the feeds are read, the tick repeats |
| `TunnelsReachIntents` | `TunnelsAreOnTheWay` | the agent reports, the control plane handles |
| `TargetIsProbed` | `MapFollowsIntents` | the reconcile's wait ends |
| `ResultsAreStored` | `OnlyAgeLosesResults` | the stream delivers again, the database answers |
| `SegmentsFollowRouters` | `TopologyFollowsReports` | reports, watch and sweep go on |

What had to be found for them is where a thing in transit can be. For intents, `EndsIn` says that
the *last* element of the aggregate feed, or with an empty feed the intent that is repeated, is
the bucket's: a drop at a full agent feed does no harm only because the aggregate feed's last
intent is kept. `Capped` bounds every intent that travels by the version of the registry, or by
the one a restart would give it, so that a crash between the writes is covered. For tunnels the
order matters: an update in the inbox is of the portal's last tunnel only if no other update of
the portal comes after it (`LastOf`), and the registry's entry counts only if none is in the inbox
(`Names`); an agent's events and its answer to a resync race for that inbox, and where the answer
overtakes an event the run's exception `missed` applies. Reports of routers have the same form
(`Follows`), and ageing, which changes a report wherever it is, has to keep the places. For SIDs,
`MapsAgree` closes the gap that `MemoryFollowsTable` leaves: the loop looks for collisions in one
map and the row is refused by another.

What is proved and what is not. Every invariant and action property that a passing run
checks, and the refinement of `Admission`, is also a theorem, and so is the safety half of each
liveness property. The liveness properties themselves (`Terminates`, `FailedLinksAreLeft`,
`EveryDemandIsPlaced`, `NamedPathsSettle`, `EveryKeyIsServed`, `ReconcileEnds`, `NodesCatchUp`,
`TunnelsReachIntents`, `TargetIsProbed`, `ResultsAreStored`, `SegmentsFollowRouters`) are only
model-checked: they rest on fairness and so on `ENABLED`, which is out of the prover's reach.
The theorems speak of exact arithmetic; rounding of floating-point bandwidths and costs is not
modelled.

## Not modelled

- `node_report_recorder.go`, `node_inventory.go`, `snapshot.go`, `pce_report.go`:
  lookup tables, records and projections for display, on which no decision depends.
- Parsing of the tenant catalogue, the topology files and the configuration: the
  models start from what they yield.
- The codec of STAMP packets (`libs/stamp/packet.go`), the values of averages and
  interface counters, VICI messages, netlink and nftables encodings (but for the key
  length that makes the kernel refuse a batch): encoding, taken by its effect.
- `libs/store`: generated queries. A transaction is atomic where a model needs one.
- Loss of the node-state bucket, which the agents do not create again, and the
  shutdown of the supervisor, which nothing but a test calls.
- The pane, the simulator and the laboratory generator: no effect on the network.
