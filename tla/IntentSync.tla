----------------------------- MODULE IntentSync -----------------------------
(***************************************************************************)
(* How an intent comes to a node: the service registry of the control      *)
(* plane (service_registry*.go), its record of generations in the          *)
(* database, the bucket the intents are published in (nodesync), and the   *)
(* agent or portal that watches its key; with the tunnels whose ups are    *)
(* reported the other way (controller_tunnels.go).                         *)
(*                                                                         *)
(* A commit changes the registry under its lock and writes the snapshots   *)
(* to the database and the bucket after it: each write is a step of its    *)
(* own, and the writers run beside each other.  The content of an intent   *)
(* is the last tunnel of each portal, the number of the dispatch its paths *)
(* come from and whether its peers are set.  Faults are failed writes and  *)
(* requests, crashes, lost buckets and closed watches.                     *)
(***************************************************************************)
EXTENDS Integers, Sequences

CONSTANTS
    PEs, CPEs,
    Attach,         \* the PE a portal's site attaches to
    Scenarios,      \* which nodes run an agent or portal, and the bounds on
                    \* tunnels (by portal), dispatches and faults
    FeedCap,        \* capacity of the agent's feeds
    None

Nodes == PEs \cup CPEs

Bodies == [named : BOOLEAN, peers : BOOLEAN, ifid : [CPEs -> Nat],
           paths : Nat]
Intents == [node : Nodes, version : Nat, generation : Nat, body : Bodies]
Updates == [portal : CPEs, ifid : Nat]
Generations == [version : Nat, generation : Nat]

ASSUME SyncConstants ==
    /\ PEs \cap CPEs = {} /\ Attach \in [CPEs -> PEs]
    /\ Scenarios \subseteq [nodes : SUBSET Nodes, tunnels : Nat, dispatches : Nat, faults : Nat]
    /\ FeedCap \in Nat \ {0}
    /\ None \notin Intents \cup Generations

Writers == {"start", "pe", "cpe", "dispatcher", "restore"}

VARIABLES
    cp,             \* "down", "boot", "commit", "resync", "ready"; Start
                    \* returned early: "stuck", "half" with the PE endpoint only
    hooked,         \* a NATS reconnect calls Restore
    restoring,      \* "called": one that has not begun; "ensured": the one that
                    \* runs has yet to take its snapshots
    registry,       \* node -> intent entry
    db,             \* node_generations: node -> version and generation
    writer,         \* writer -> what it has still to write
    bucket, bucketUp,
    inbox,          \* tunnel updates: "pe" or "cpe" -> requests not yet handled
    scenario,       \* one of Scenarios, chosen at the start
    up, watch,      \* node -> agent runs; its watch is "off", "on" or "dead"
    fresh,          \* node -> the watch has not yet delivered the last put
    aggregate,      \* aggregateFeed of an agent
    feed,           \* the feed of a node's reconciler
    last, current,  \* what the agent repeats; what the reconciler converged on
    sa,             \* portal -> number of its tunnel, 0 before the first
    events,         \* node -> updown events not yet reported, by portal
    resync,         \* node -> a request it has, the tunnels it has still to report
    dispatches, faults,
    floor, top,     \* history: highest version a commit published, before this
                    \* boot and in all
    clean,          \* history: nothing disturbed the last commit of a node
    missed          \* history: the report of a portal's last tunnel went wrong

control == <<cp, hooked, restoring, registry, db, writer, inbox>>
nats == <<bucket, bucketUp, fresh>>
agent == <<scenario, up, watch, aggregate, feed, last, current>>
tunnels == <<sa, events, resync, missed>>
history == <<floor, top, clean>>
vars == <<control, nats, agent, tunnels, history, dispatches, faults>>

Empty == [named |-> TRUE, peers |-> FALSE, ifid |-> [c \in CPEs |-> 0], paths |-> 0]
Entry(n, v, g, body) == [node |-> n, version |-> v, generation |-> g, body |-> body]
Idle == [current |-> None, todo |-> {}]
NoResync == [todo |-> {}, asked |-> FALSE]

\* The snapshots a writer has still to publish.
Snapshots(w) == writer[w].todo \cup ({writer[w].current} \ {None})
Pending(n) == \E w \in Writers : \E s \in Snapshots(w) : s.node = n
Busy(w) == Snapshots(w) # {}

Older(i, j) ==
    \/ i.version < j.version
    \/ i.version = j.version /\ i.generation < j.generation

Fault == faults < scenario.faults /\ faults' = faults + 1
Outcome(ok) == IF ok THEN UNCHANGED faults ELSE Fault

Init ==
    /\ cp = "down" /\ hooked = FALSE /\ restoring = {}
    /\ registry = [n \in Nodes |-> None] /\ db = [n \in Nodes |-> None]
    /\ writer = [w \in Writers |-> Idle]
    /\ bucket = [n \in Nodes |-> None] /\ bucketUp = FALSE
    /\ inbox = [e \in {"pe", "cpe"} |-> <<>>]
    /\ scenario \in Scenarios
    /\ up = [n \in Nodes |-> FALSE] /\ watch = [n \in Nodes |-> "off"]
    /\ fresh = [n \in Nodes |-> FALSE]
    /\ aggregate = [n \in PEs |-> <<>>]
    /\ feed = [n \in Nodes |-> <<>>]
    /\ last = [n \in PEs |-> None] /\ current = [n \in Nodes |-> None]
    /\ sa = [c \in CPEs |-> 0]
    /\ events = [n \in Nodes |-> <<>>] /\ resync = [n \in Nodes |-> NoResync]
    /\ dispatches = 0 /\ faults = 0
    /\ floor = [n \in Nodes |-> 0] /\ top = [n \in Nodes |-> 0]
    /\ clean = [n \in Nodes |-> FALSE] /\ missed = [c \in CPEs |-> FALSE]

-----------------------------------------------------------------------------
\* The service registry.

\* getOrCreateRegistryEntryForPE and ...ForCPE
GetOrCreate(n) ==
    IF registry[n] # None THEN registry[n]
    ELSE Entry(n, 1, IF n \in PEs THEN 1 ELSE 0, Empty)

\* What the stagers make of a node's body.  A PE's tenant needs a SID, and
\* without one (ok) nothing is staged.
StagePeersForPE(body) == [body EXCEPT !.peers = TRUE]
getOrCreateTenantIntentForPE(body, staged, ok) == IF ok THEN staged ELSE body
StagePortalIntentForNode(body, c, ifid, ok) ==
    getOrCreateTenantIntentForPE(body, [body EXCEPT !.ifid[c] = ifid], ok)
StageSIDSegsForTenantOnNode(body, k, ok) ==
    getOrCreateTenantIntentForPE(body, [body EXCEPT !.paths = k], ok)

\* mutant: the snapshot is taken before the change
MutateLateSnapshot(w, S, body) ==
    /\ registry' = [n \in Nodes |-> IF n \in S
                       THEN [GetOrCreate(n) EXCEPT !.body = body[n], !.generation = @ + 1]
                       ELSE registry[n]]
    /\ writer' = [writer EXCEPT ![w].todo = {GetOrCreate(n) : n \in S}]
    /\ clean' = [n \in Nodes |-> IF n \in S THEN ~Pending(n) ELSE clean[n]]

\* Under the lock: the new body of every node of S, one generation each, and
\* the snapshots to write.
Mutate(w, S, body) ==
    LET new == [n \in S |-> [GetOrCreate(n) EXCEPT !.body = body[n],
                                                   !.generation = @ + 1]]
    IN  /\ registry' = [n \in Nodes |-> IF n \in S THEN new[n] ELSE registry[n]]
        /\ writer' = [writer EXCEPT ![w].todo = {new[n] : n \in S}]
        /\ clean' = [n \in Nodes |-> IF n \in S THEN ~Pending(n) ELSE clean[n]]

\* UpsertNodeGeneration: when it fails the snapshot is not published.
Upsert(w, ok) ==
    /\ w # "restore" /\ writer[w].current = None
    /\ \E s \in writer[w].todo :
         /\ writer' = [writer EXCEPT ![w] =
                         [todo |-> @.todo \ {s}, current |-> IF ok THEN s ELSE None]]
         /\ db' = IF ok THEN [db EXCEPT ![s.node] = [version |-> s.version,
                                                     generation |-> s.generation]]
                        ELSE db
         /\ clean' = [clean EXCEPT ![s.node] = @ /\ ok]
    /\ Outcome(ok)
    /\ UNCHANGED <<cp, hooked, restoring, registry, inbox, nats, agent, tunnels, floor, top, dispatches>>

\* The publisher's Ensure: the bucket exists from here on.
Ensure(ok) == bucketUp' = (bucketUp \/ ok)

Put(s) ==
    /\ bucket' = [bucket EXCEPT ![s.node] = s]
    /\ fresh' = [fresh EXCEPT ![s.node] = TRUE]

\* Publish.  It fails without a bucket whatever else goes well.
Publish(w, ok) ==
    /\ w # "restore" /\ writer[w].current # None
    /\ LET s == writer[w].current
       IN  /\ writer' = [writer EXCEPT ![w].current = None]
           /\ IF ok /\ bucketUp
              THEN /\ Put(s) /\ UNCHANGED clean
                   /\ top' = [top EXCEPT ![s.node] = IF s.version > @ THEN s.version ELSE @]
              ELSE clean' = [clean EXCEPT ![s.node] = FALSE] /\ UNCHANGED <<bucket, fresh, top>>
    /\ Outcome(ok)
    /\ UNCHANGED <<cp, hooked, restoring, registry, db, inbox, bucketUp, agent, tunnels, floor, dispatches>>

\* Restore after a reconnect, one call at a time: the bucket,
Restore(ok) ==
    /\ restoring = {"called"} /\ ~Busy("restore")
    /\ Ensure(ok)
    /\ restoring' = IF ok THEN {"ensured"} ELSE {}
    /\ Outcome(ok)
    /\ UNCHANGED <<cp, hooked, registry, db, writer, inbox, bucket, fresh, agent, tunnels, history,
                   dispatches>>

\* then, under the read lock, the snapshots to publish.
RestoreSnapshots ==
    /\ "ensured" \in restoring /\ ~Busy("restore")
    /\ restoring' = restoring \ {"ensured"}
    /\ writer' = [writer EXCEPT !["restore"].todo =
                      {registry[n] : n \in {n \in Nodes : registry[n] # None}}]
    /\ clean' = [n \in Nodes |-> clean[n] /\ ~Pending(n)]
    /\ UNCHANGED <<cp, hooked, registry, db, inbox, nats, agent, tunnels, floor, top, dispatches,
                   faults>>

\* One node of Restore.  The key of a CPE comes from its intent, and one
\* without a portal id is no valid key.  An error ends Restore.
RestoreOne(ok) ==
    /\ \E s \in writer["restore"].todo :
         IF ok /\ bucketUp /\ s.body.named
         THEN Put(s) /\ writer' = [writer EXCEPT !["restore"].todo = @ \ {s}]
         ELSE writer' = [writer EXCEPT !["restore"].todo = {}] /\ UNCHANGED <<bucket, fresh>>
    /\ Outcome(ok)
    /\ UNCHANGED <<cp, hooked, restoring, registry, db, inbox, bucketUp, agent, tunnels, history, dispatches>>

-----------------------------------------------------------------------------
\* The controller.

\* mutant: a restart goes on with the recorded version
LoadPreviousStateSameVersion(n) ==
    IF db[n] = None THEN None ELSE Entry(n, db[n].version, 0, Empty)

\* The nodes of the database, with an empty intent under the next version.
LoadPreviousStateFromDB(n) ==
    IF db[n] = None THEN None ELSE Entry(n, db[n].version + 1, 0, Empty)

\* NewController: the bucket, then the registry.
Boot ==
    /\ cp = "down" /\ cp' = "boot"
    /\ Ensure(TRUE)
    /\ registry' = [n \in Nodes |-> LoadPreviousStateFromDB(n)]
    /\ UNCHANGED <<hooked, restoring, db, writer, inbox, bucket, fresh, agent, tunnels, history,
                   dispatches, faults>>

stagePeerIntents == [n \in PEs |-> StagePeersForPE(GetOrCreate(n).body)]

\* Start sets the reconnect handler, and commits the peers and the classes of
\* every PE.
StartCommit ==
    /\ cp = "boot" /\ cp' = "commit" /\ hooked' = TRUE
    /\ Mutate("start", PEs, stagePeerIntents)
    /\ UNCHANGED <<restoring, db, inbox, nats, agent, tunnels, floor, top, dispatches, faults>>

\* The portal subscribes and watches once its tunnel is initiated.
Subscribed(n) == up[n] /\ (n \in CPEs => sa[n] > 0)

\* The node has reports to make.
Reporting(n) == events[n] # <<>> \/ resync[n] # NoResync

\* Start returns when a subscription fails, and the control plane never becomes
\* ready.  Of its calls, the last of the first three (0), the CPE endpoint's (1)
\* or one of the two requests (2, 3) fails, or none (4).
Calls == 0 .. 4
StartReaches(done) == CASE done = 0 -> "stuck" [] done = 1 -> "half" [] OTHER -> "resync"

\* mutant: nobody is asked for the tunnels
SetupEndpointsOnly(done) ==
    /\ cp = "commit" /\ ~Busy("start") /\ cp' = StartReaches(done)
    /\ missed' = [c \in CPEs |-> sa[c] > 0 /\ ~(done > 2 /\ Subscribed(Attach[c]))]
    /\ Outcome(done = 4)
    /\ UNCHANGED <<hooked, restoring, registry, db, writer, inbox, nats, agent, sa, events, resync,
                   history, dispatches>>

\* The requests to report the tunnels, to the agents and then to the portals,
\* reach who is subscribed.  That one fails is logged.
sendTunnelResyncRequest(asked) ==
    resync' = [n \in Nodes |-> [resync[n] EXCEPT !.asked = @ \/ n \in asked]]

\* The endpoints for the health, the portals' identities, the PEs and the CPEs,
\* and the requests.
SetupEndpoints(done) ==
    /\ cp = "commit" /\ ~Busy("start") /\ cp' = StartReaches(done)
    /\ LET asked == {n \in Nodes : Subscribed(n) /\ done > IF n \in PEs THEN 2 ELSE 3}
       IN  /\ sendTunnelResyncRequest(asked)
           /\ missed' = [c \in CPEs |-> sa[c] > 0 /\ Attach[c] \notin asked]
    /\ Outcome(done = 4)
    /\ UNCHANGED <<hooked, restoring, registry, db, writer, inbox, nats, agent, sa, events, history, dispatches>>

\* A telemetry collector sets the connection's one reconnect handler to its
\* own, which restores no intent.
SetReconnectHandler(replaced) == hooked' = (hooked /\ ~replaced)

\* The replies are in or the wait times out.  The telemetry collectors are
\* started, unless their stream could not be created.
ResyncEnds(ok) ==
    /\ cp = "resync" /\ cp' = "ready"
    /\ SetReconnectHandler(ok)
    /\ Outcome(ok)
    /\ UNCHANGED <<restoring, registry, db, writer, inbox, nats, agent, tunnels, history, dispatches>>

\* The endpoint of the PEs, and that of the CPEs.
Listening == cp \in {"half", "resync", "ready"}
ListeningToCPEs == Listening /\ cp # "half"

HandlePETunnelUpdate(ok) ==
    /\ inbox["pe"] # <<>> /\ ~Busy("pe")
    /\ LET m == Head(inbox["pe"])
           n == Attach[m.portal]
           old == GetOrCreate(n).body
       IN  /\ Mutate("pe", {n}, [x \in {n} |->
                        StagePortalIntentForNode(old, m.portal, m.ifid, ok)])
           /\ missed' = [missed EXCEPT ![m.portal] = @ \/ (~ok /\ m.ifid = sa[m.portal])]
    /\ inbox' = [inbox EXCEPT !["pe"] = Tail(@)]
    /\ Outcome(ok)
    /\ UNCHANGED <<cp, hooked, restoring, db, nats, agent, sa, events, resync, floor, top, dispatches>>

\* UpsertCPEIntentForSite replaces the whole intent.
UpsertCPEIntentForSite(c, body) == Mutate("cpe", {c}, [x \in {c} |-> body])

HandleCPETunnelUpdate ==
    /\ inbox["cpe"] # <<>> /\ ~Busy("cpe")
    /\ LET m == Head(inbox["cpe"])
       IN  UpsertCPEIntentForSite(m.portal, [Empty EXCEPT !.ifid[m.portal] = m.ifid])
    /\ inbox' = [inbox EXCEPT !["cpe"] = Tail(@)]
    /\ UNCHANGED <<cp, hooked, restoring, db, nats, agent, tunnels, floor, top, dispatches, faults>>

\* startPCEUpdatesDispatcher: only the PEs with a path in the set (S) get their
\* paths, each if its tenant has a SID.
Dispatch(S, staged) ==
    /\ cp = "ready" /\ ~Busy("dispatcher") /\ dispatches < scenario.dispatches
    /\ dispatches' = dispatches + 1
    /\ Mutate("dispatcher", S, [n \in S |->
                  StageSIDSegsForTenantOnNode(GetOrCreate(n).body, dispatches', n \in staged)])
    /\ Outcome(staged = S)
    /\ UNCHANGED <<cp, hooked, restoring, db, inbox, nats, agent, tunnels, floor, top>>

Crash ==
    /\ cp # "down" /\ cp' = "down" /\ hooked' = FALSE /\ restoring' = {}
    /\ Fault
    /\ registry' = [n \in Nodes |-> None]
    /\ writer' = [w \in Writers |-> Idle] /\ inbox' = [e \in DOMAIN inbox |-> <<>>]
    /\ floor' = top /\ clean' = [n \in Nodes |-> FALSE]
    /\ UNCHANGED <<db, nats, agent, tunnels, top, dispatches>>

\* The connection comes back, perhaps to a server that has lost the bucket.
Reconnect(lost) ==
    /\ Fault
    /\ restoring' = IF hooked THEN restoring \cup {"called"} ELSE restoring
    /\ bucketUp' = (bucketUp /\ ~lost)
    /\ bucket' = IF lost THEN [n \in Nodes |-> None] ELSE bucket
    /\ fresh' = IF lost THEN [n \in Nodes |-> FALSE] ELSE fresh
    /\ clean' = [n \in Nodes |-> clean[n] /\ ~lost]
    /\ UNCHANGED <<cp, hooked, registry, db, writer, inbox, agent, tunnels,
                   floor, top, dispatches>>

-----------------------------------------------------------------------------
\* The agents and portals.

\* A portal asks for its identity, and the control plane makes it an entry, if
\* it has none, that is neither recorded nor published.
PortalAuthIdentity(n) ==
    registry' = IF registry[n] = None
                THEN [registry EXCEPT ![n] = Entry(n, 1, 1, [Empty EXCEPT !.named = FALSE])]
                ELSE registry

\* The answer of the health endpoint, which a node waits for.
HealthReady == cp = "ready"
waitForReady(n) == ~up[n] /\ HealthReady

\* Run of an agent or a portal.
NodeStarts(n) ==
    /\ n \in scenario.nodes /\ waitForReady(n) /\ up' = [up EXCEPT ![n] = TRUE]
    /\ IF n \in CPEs THEN PortalAuthIdentity(n) ELSE UNCHANGED registry
    /\ UNCHANGED <<cp, hooked, restoring, db, writer, inbox, nats, scenario, watch, aggregate, feed, last,
                   current, tunnels, history, dispatches, faults>>

\* Open waits until the bucket is there; Watch begins with the value it holds.
Open == bucketUp

WatchStarts(n) ==
    /\ watch[n] = "off" /\ Subscribed(n) /\ Open
    /\ watch' = [watch EXCEPT ![n] = "on"]
    /\ fresh' = [fresh EXCEPT ![n] = bucket[n] # None]
    /\ UNCHANGED <<control, bucket, bucketUp, scenario, up, aggregate, feed, last, current, tunnels,
                   history, dispatches, faults>>

\* The watcher's channel closes: Watch returns an error that is logged.
WatchCloses(n) ==
    /\ watch[n] = "on" /\ watch' = [watch EXCEPT ![n] = "dead"]
    /\ Fault
    /\ UNCHANGED <<control, nats, scenario, up, aggregate, feed, last, current, tunnels, history, dispatches>>

WatchDelivers(n) ==
    /\ watch[n] = "on" /\ fresh[n] /\ fresh' = [fresh EXCEPT ![n] = FALSE]
    /\ IF n \in PEs
       THEN /\ Len(aggregate[n]) < FeedCap
            /\ aggregate' = [aggregate EXCEPT ![n] = Append(@, bucket[n])]
            /\ UNCHANGED feed
       ELSE /\ Len(feed[n]) < FeedCap
            /\ feed' = [feed EXCEPT ![n] = Append(@, bucket[n])]
            /\ UNCHANGED aggregate
    /\ UNCHANGED <<control, bucket, bucketUp, scenario, up, watch, last, current, tunnels, history,
                   dispatches, faults>>

\* mutant: a full feed is not noticed
FanOutToFeedsFull(n, i) == feed' = [feed EXCEPT ![n] = Append(@, i)]

\* fanOutToFeeds: a full feed misses the intent.  The feed of the probes, which
\* gets every intent too, is Probes's.
FanOutToFeeds(n, i) ==
    feed' = IF Len(feed[n]) < FeedCap THEN [feed EXCEPT ![n] = Append(@, i)] ELSE feed

\* mutant: the intent is not remembered
FanOutForgetting(n) ==
    /\ aggregate[n] # <<>>
    /\ FanOutToFeeds(n, Head(aggregate[n]))
    /\ aggregate' = [aggregate EXCEPT ![n] = Tail(@)]
    /\ UNCHANGED <<control, nats, scenario, up, watch, last, current, tunnels, history, dispatches,
                   faults>>

FanOut(n) ==
    /\ aggregate[n] # <<>>
    /\ FanOutToFeeds(n, Head(aggregate[n]))
    /\ last' = [last EXCEPT ![n] = Head(aggregate[n])]
    /\ aggregate' = [aggregate EXCEPT ![n] = Tail(@)]
    /\ UNCHANGED <<control, nats, scenario, up, watch, current, tunnels, history, dispatches, faults>>

ResyncTick(n) ==
    /\ last[n] # None /\ FanOutToFeeds(n, last[n])
    /\ UNCHANGED <<control, nats, scenario, up, watch, aggregate, last, current, tunnels, history,
                   dispatches, faults>>

\* Reconcile: it refuses an intent older than the one it converged on, and
\* may fail.
Reconcile(n, ok) ==
    /\ feed[n] # <<>> /\ feed' = [feed EXCEPT ![n] = Tail(@)]
    /\ LET i == Head(feed[n])
           stale == current[n] # None /\ Older(i, current[n])
       IN  current' = IF ok /\ ~stale THEN [current EXCEPT ![n] = i] ELSE current
    /\ Outcome(ok)
    /\ UNCHANGED <<control, nats, scenario, up, watch, aggregate, last, tunnels, history, dispatches>>

\* The process of a node ends and starts anew.
NodeRestarts(n) ==
    /\ up[n] /\ Fault
    /\ up' = [up EXCEPT ![n] = FALSE] /\ watch' = [watch EXCEPT ![n] = "off"]
    /\ aggregate' = [p \in PEs |-> IF p = n THEN <<>> ELSE aggregate[p]]
    /\ last' = [p \in PEs |-> IF p = n THEN None ELSE last[p]]
    /\ feed' = [feed EXCEPT ![n] = <<>>] /\ current' = [current EXCEPT ![n] = None]
    /\ events' = [events EXCEPT ![n] = <<>>] /\ resync' = [resync EXCEPT ![n] = NoResync]
    /\ missed' = [c \in CPEs |-> missed[c] \/ (Attach[c] = n /\ Reporting(n))]
    /\ UNCHANGED <<control, nats, scenario, sa, history, dispatches>>

-----------------------------------------------------------------------------
\* The tunnels.

\* What the portal makes of the events of a tunnel that comes up: it does not
\* skip the event of the tunnel this one replaces, which comes before or after.
PortalEvents(c, downFirst) ==
    LET new == [portal |-> c, ifid |-> sa[c] + 1]
        old == [portal |-> c, ifid |-> sa[c]]
    IN  IF sa[c] = 0 THEN <<new>> ELSE IF downFirst THEN <<old, new>> ELSE <<new, old>>

\* Only a running node hears of it: an updown event on both sides.
WatchIKEUpdownEvents(n, c, downFirst) ==
    events[n] \o CASE n = Attach[c] /\ up[n] -> <<[portal |-> c, ifid |-> sa[c] + 1]>>
                   [] n = c /\ up[n]         -> PortalEvents(c, downFirst)
                   [] OTHER                  -> <<>>

\* The portal initiates the first tunnel, and tries until the agent is there;
\* the later ones replace it.
InitiateTunnel(c) == \A n \in {c, Attach[c]} \cap scenario.nodes : up[n]

TunnelUp(c, downFirst) ==
    /\ sa[c] < scenario.tunnels /\ (sa[c] = 0 => InitiateTunnel(c))
    /\ sa' = [sa EXCEPT ![c] = @ + 1]
    /\ events' = [n \in Nodes |-> WatchIKEUpdownEvents(n, c, downFirst)]
    /\ missed' = [missed EXCEPT ![c] = ~up[Attach[c]]]
    /\ UNCHANGED <<control, nats, agent, resync, history, dispatches, faults>>

\* A request no one is subscribed to, or that times out, is not sent again.
sendPETunnelUpdate(m, ok) ==
    inbox' = IF ok /\ Listening THEN [inbox EXCEPT !["pe"] = Append(@, m)] ELSE inbox
sendCPETunnelUpdate(m, ok) ==
    inbox' = IF ok /\ ListeningToCPEs THEN [inbox EXCEPT !["cpe"] = Append(@, m)] ELSE inbox

Request(n, m, ok) == IF n \in PEs THEN sendPETunnelUpdate(m, ok) ELSE sendCPETunnelUpdate(m, ok)

ReportEvent(n, ok) ==
    /\ events[n] # <<>>
    /\ LET m == Head(events[n])
       IN  /\ Request(n, m, ok)
           /\ missed' = [missed EXCEPT ![m.portal] =
                 @ \/ (n \in PEs /\ ~(ok /\ Listening) /\ m.ifid = sa[m.portal])]
    /\ events' = [events EXCEPT ![n] = Tail(@)]
    /\ Outcome(ok)
    /\ UNCHANGED <<cp, hooked, restoring, registry, db, writer, nats, agent, sa, resync, history,
                   dispatches>>

GetSAs(n) ==
    {[portal |-> c, ifid |-> sa[c]] :
       c \in {c \in CPEs : (Attach[c] = n \/ c = n) /\ sa[c] > 0}}

\* setupResyncWatch: GetSAs, then one update for each tunnel it returned.
ResyncRead(n, ok) ==
    /\ resync[n].asked /\ resync[n].todo = {}
    /\ resync' = [resync EXCEPT ![n] =
                     [asked |-> FALSE, todo |-> IF ok THEN GetSAs(n) ELSE {}]]
    /\ missed' = [c \in CPEs |-> missed[c] \/ (~ok /\ Attach[c] = n)]
    /\ Outcome(ok)
    /\ UNCHANGED <<control, nats, agent, sa, events, history, dispatches>>

ResyncReport(n, ok) ==
    /\ \E m \in resync[n].todo :
         /\ Request(n, m, ok)
         /\ resync' = [resync EXCEPT ![n].todo = @ \ {m}]
         /\ missed' = [missed EXCEPT ![m.portal] =
               @ \/ (n \in PEs /\ (~(ok /\ Listening) \/ m.ifid # sa[m.portal]))]
    /\ Outcome(ok)
    /\ UNCHANGED <<cp, hooked, restoring, registry, db, writer, nats, agent, sa, events, history,
                   dispatches>>

-----------------------------------------------------------------------------
Writes ==
    \/ \E w \in Writers, ok \in BOOLEAN : Upsert(w, ok) \/ Publish(w, ok)
    \/ RestoreSnapshots \/ \E ok \in BOOLEAN : Restore(ok) \/ RestoreOne(ok)

Controller ==
    \/ Boot \/ StartCommit \/ HandleCPETunnelUpdate \/ Crash
    \/ \E ok \in BOOLEAN : ResyncEnds(ok) \/ HandlePETunnelUpdate(ok)
    \/ \E done \in Calls : SetupEndpoints(done)
    \/ \E S \in SUBSET PEs : \E staged \in SUBSET S : Dispatch(S, staged)
    \/ \E lost \in BOOLEAN : Reconnect(lost)

Node(n) ==
    \/ NodeStarts(n) \/ WatchStarts(n) \/ WatchCloses(n) \/ WatchDelivers(n) \/ NodeRestarts(n)
    \/ n \in PEs /\ (FanOut(n) \/ ResyncTick(n))
    \/ \E ok \in BOOLEAN : \/ Reconcile(n, ok) \/ ReportEvent(n, ok)
                           \/ ResyncRead(n, ok) \/ ResyncReport(n, ok)

Next ==
    \/ Writes \/ Controller
    \/ \E n \in Nodes : Node(n)
    \/ \E c \in CPEs, downFirst \in BOOLEAN : TunnelUp(c, downFirst)

\* Every goroutine gets on with its work, faults and new tunnels need not
\* happen, and the node's ticker ticks.
Fairness ==
    /\ WF_vars(Boot) /\ WF_vars(StartCommit) /\ WF_vars(SetupEndpoints(4))
    /\ WF_vars(ResyncEnds(TRUE))
    /\ WF_vars(HandlePETunnelUpdate(TRUE)) /\ WF_vars(HandleCPETunnelUpdate)
    /\ \A w \in Writers : WF_vars(Upsert(w, TRUE)) /\ WF_vars(Publish(w, TRUE))
    /\ WF_vars(Restore(TRUE)) /\ WF_vars(RestoreSnapshots) /\ WF_vars(RestoreOne(TRUE))
    /\ \A n \in Nodes :
         /\ WF_vars(NodeStarts(n)) /\ WF_vars(WatchStarts(n)) /\ WF_vars(WatchDelivers(n))
         /\ WF_vars(ReportEvent(n, TRUE)) /\ WF_vars(ResyncRead(n, TRUE))
         /\ WF_vars(ResyncReport(n, TRUE)) /\ WF_vars(Reconcile(n, TRUE))
    /\ \A n \in PEs : WF_vars(FanOut(n)) /\ WF_vars(ResyncTick(n))

Spec == Init /\ [][Next]_vars /\ Fairness

-----------------------------------------------------------------------------
\* The types of the state: in particular the feeds of an agent stay within
\* their capacity, since a full one drops what fanOutToFeeds sends.
TypeOK ==
    /\ cp \in {"down", "boot", "commit", "half", "resync", "ready", "stuck"}
    /\ hooked \in BOOLEAN /\ restoring \subseteq {"called", "ensured"} /\ bucketUp \in BOOLEAN
    /\ \A n \in Nodes :
         /\ registry[n] \in Intents \cup {None} /\ bucket[n] \in Intents \cup {None}
         /\ db[n] \in Generations \cup {None}
         /\ current[n] \in Intents \cup {None} /\ Len(feed[n]) <= FeedCap
         /\ resync[n].todo \subseteq Updates
         /\ \A k \in DOMAIN events[n] : events[n][k] \in Updates
    /\ \A w \in Writers : Snapshots(w) \subseteq Intents
    /\ \A n \in PEs : Len(aggregate[n]) <= FeedCap /\ last[n] \in Intents \cup {None}
    /\ watch \in [Nodes -> {"off", "on", "dead"}] /\ up \in [Nodes -> BOOLEAN]
    /\ sa \in [CPEs -> 0 .. scenario.tunnels] /\ faults \in 0 .. scenario.faults
    /\ \A e \in DOMAIN inbox : \A k \in DOMAIN inbox[e] : inbox[e][k] \in Updates

\* After a restart the intents of the control plane outrank every intent a
\* commit published before it, so no node refuses them as stale: a commit
\* records its version before it publishes, and LoadPreviousStateFromDB goes
\* on from the recorded version plus one.
RestartOutranks ==
    \A n \in Nodes : registry[n] # None => registry[n].version > floor[n]

\* When no other write of the node was pending at its last commit, none of its
\* writes failed and the bucket was not lost, the bucket holds the registry's
\* intent once the writers are done: a later Restore does not undo it.
LastCommitIsPublished ==
    \A n \in Nodes : clean[n] /\ ~Pending(n) => bucket[n] = registry[n]

\* An agent whose watch lives comes to converge on the bucket's intent, though
\* a full feed drops intents and a reconcile fails: setupIntentWatch repeats
\* the last one.  It may stay with a newer one, when the bucket holds an older
\* intent than it held before.
NodesCatchUp ==
    \A n \in PEs :
        <>[](watch[n] = "on" /\ bucket[n] # None =>
               \/ current[n] = bucket[n]
               \/ current[n] # None /\ Older(bucket[n], current[n]))

\* The registry's intent of a PE comes to hold the last tunnel of each of its
\* portals, through restarts of the control plane, which asks for the tunnels
\* again: unless the last report was lost or failed, the agent was not there
\* to see or to be asked, or a resync's report overtook a newer event's.
TunnelsReachIntents ==
    \A c \in CPEs :
        <>[](LET e == registry[Attach[c]]
             IN  sa[c] = 0 \/ missed[c] \/ (e # None /\ e.body.ifid[c] = sa[c]))
=============================================================================
