----------------------------- MODULE Reconciler -----------------------------
(***************************************************************************)
(* The level-triggered reconciler of a PE or a CPE (reconciler*.go) over   *)
(* the dataplane of module Dataplane.                                      *)
(*                                                                         *)
(* An intent is delivered, planned (rendered and compared with what the    *)
(* kernel has) and applied, up to MaxPasses times.  Apply logs an          *)
(* operation that fails and goes on, so each operation is a step of its    *)
(* own with its outcome, and operations of one kind come in any order (the *)
(* resources are in a Go map).  Faults are the operations and reads that   *)
(* fail, the objects another program deletes and the restarts of the       *)
(* agent, MaxFaults of them in all.                                        *)
(***************************************************************************)
EXTENDS Dataplane

CONSTANTS
    Tenants, MaxTenants,    \* the tenants, and how many an intent may have
    Intents,        \* [nodeType, version, generation, body]
    TableMaps,      \* the values StringToID may have on the tenants
    InitialFibs,    \* the kernel's state before the agent first runs
    MaxPasses,      \* maxPasses of Reconcile
    MaxDeliveries, MaxFaults,   \* bounds
    NoIntent

\* The orders in which Go may visit a map with the keys T.
Orders(T) == {r \in [T -> 1..MaxTenants] : \A t, u \in T : r[t] = r[u] => t = u}

ASSUME ReconcilerConstants ==
    /\ NoIntent \notin Intents
    /\ MaxPasses \in Nat \ {0} /\ MaxDeliveries \in Nat /\ MaxFaults \in Nat
    /\ TableMaps \subseteq [Tenants -> 0..(TableSpan - 1)]
    /\ \A i \in Intents :
         i.nodeType \in {"pe", "cpe"} /\ i.version \in Nat /\ i.generation \in Nat
    /\ TableSpan \in Nat \ {0} /\ TableIDs \in Nat \ {0} /\ MaxTenants \in Nat
    /\ \A i \in Intents : i.nodeType = "pe" =>
         /\ DOMAIN i.body.tenants \subseteq Tenants /\ Orders(DOMAIN i.body.tenants) # {}
         /\ \A t \in DOMAIN i.body.tenants : \A p \in i.body.tenants[t].paths : p.color \in Nat

\* What the kernel keeps one of: a link of a name, a route to a destination in
\* a table, a SID, an element of the map.  Rules are only told apart as a whole.
Place(r) ==
    CASE r.kind \in {"vrf", "xfrm"} -> <<"link", r.name>>
      [] r.kind = "route" -> <<"route", r.table, r.dst>>
      [] r.kind = "sid" -> <<"sid", r.sid>>
      [] r.kind = "sr_route" -> <<"sr_route", r.table, r.prefix>>
      [] r.kind = "classification" -> <<"classification", r.classifier>>
      [] r.kind = "rule" -> <<"rule", r>>

OnePerPlace(S) == \A x, y \in S : Place(x) = Place(y) => x = y

Kinds == {"vrf", "xfrm", "route", "rule", "sid", "sr_route", "classification"}

\* The links there may be before the agent runs: a VRF of another program is up.
IsVRF(x) ==
    /\ x = [kind |-> "vrf", name |-> x.name, table |-> x.table, up |-> x.up, owned |-> x.owned]
    /\ x.up \in BOOLEAN /\ x.owned \in BOOLEAN
IsXFRM(x) ==
    x = [kind |-> "xfrm", name |-> x.name, ifid |-> x.ifid, master |-> x.master, up |-> x.up]
LinksAreSound(f) ==
    /\ \A x \in Kind(f, "vrf") : IsVRF(x) /\ (~x.owned => x.up)
    /\ \A x \in Kind(f, "xfrm") : IsXFRM(x)

IsRule(x) == x = Rule(x.priority, x.src, x.table, x.mark, x.iif)

ASSUME FibsAreSound ==
    \A f \in InitialFibs :
        /\ LinksAreSound(f) /\ OnePerPlace(f)
        /\ \A x \in f : x.kind \in Kinds /\ (x.kind = "rule" => IsRule(x))

VARIABLES
    nodeType, tableOf,      \* the role of this node, and StringToID
    fib, nftQueue,          \* the kernel, and the batch the nft connection holds
    current,                \* r.current: the intent last converged on
    pc,                     \* "idle", "plan", "ensure", "apply", "stopped"
    intent, pass,           \* ni and pass
    desired, todo,          \* the rendered intent, and what is left of the diff
    report,                 \* the last NodeState reported
    favourable,             \* history: nothing has stood in this Reconcile's way
    deliveries, faults

node == <<nodeType, tableOf>>
kernel == <<fib, nftQueue>>
call == <<intent, pass, desired, todo>>
bounds == <<deliveries, faults>>
vars == <<node, kernel, current, pc, call, report, favourable, bounds>>

NoDiff == [remove |-> {}, add |-> {}]
NoReport == [converged |-> FALSE, observed |-> FALSE, passes |-> 0, error |-> "none"]

\* Reconcile is running.  A reconciler that is "stopped" never runs again.
Reconciling == pc \in {"plan", "ensure", "apply"}

TypeOK ==
    /\ nodeType \in {"pe", "cpe"} /\ tableOf \in TableMaps
    /\ \A x, y \in fib : (x.kind # "rule" /\ Key(x) = Key(y)) => x = y
    /\ current \in Intents \cup {NoIntent}
    /\ pc \in {"idle", "plan", "ensure", "apply", "stopped"}
    /\ intent \in Intents \cup {NoIntent} /\ (Reconciling => intent # NoIntent)
    /\ pass \in 0..MaxPasses
    /\ todo.remove \cap todo.add = {}
    /\ report.error \in {"none", "plan", "ensure", "passes"}
    /\ deliveries \in 0..MaxDeliveries /\ faults \in 0..MaxFaults

Init ==
    /\ nodeType \in {"pe", "cpe"} /\ tableOf \in TableMaps
    /\ fib \in InitialFibs /\ nftQueue = <<>>
    /\ current = NoIntent /\ pc = "idle" /\ intent = NoIntent /\ pass = 0
    /\ desired = {} /\ todo = NoDiff /\ report = NoReport /\ favourable = FALSE
    /\ deliveries = 0 /\ faults = 0

-----------------------------------------------------------------------------
\* ColorTableID: the color above the 24 bits of the VRF table.
ColorTableID(t, color) == (color * TableSpan) + tableOf[t]

CPETunnelTable == 100
TunnelName(t, id) == <<"maeto-tun", t, id>>
CPETunnelName(t) == <<"xfrm-tenant", t>>

RenderCPEIntent(cpe) ==
    IF cpe.ifid = 0 THEN {}     \* not ready to be installed
    ELSE {XFRM(CPETunnelName(cpe.tenant), cpe.ifid, NoDev),
          Route(CPETunnelTable, DefaultPrefix, CPETunnelName(cpe.tenant)),
          Rule(100, cpe.prefix, CPETunnelTable, 0, NoDev)}

Reversed(s) == [i \in 1..Len(s) |-> s[Len(s) + 1 - i]]

Colors(pe, t) == {p.color : p \in {p \in pe.tenants[t].paths : p.prefixes # {}}}

\* mutant: collisions are not looked for
TableIsTakenUnseen(pe, rank, t, color) == FALSE

\* routeTableCollisionMap: a tenant visited earlier has routes in this table.
TableIsTaken(pe, rank, t, color) ==
    \E u \in DOMAIN pe.tenants :
        rank[u] < rank[t] /\ tableOf[u] = tableOf[t] /\ color \in Colors(pe, u)

RenderSRRoutes(pe, rank, t) ==
    UNION {{SRRoute(x, Reversed(p.segments), ColorTableID(t, p.color)) : x \in p.prefixes} :
             p \in {p \in pe.tenants[t].paths : ~TableIsTaken(pe, rank, t, p.color)}}

\* A rule has its color counted before the collision is looked for.  A tenant
\* visited later overwrites the rule with the same key.
RenderRules(pe, rank, t) ==
    {Rule(80, "", ColorTableID(t, c), c, VrfName(t)) :
       c \in {c \in Colors(pe, t) :
                ~\E u \in DOMAIN pe.tenants :
                   rank[u] > rank[t] /\ tableOf[u] = tableOf[t] /\ c \in Colors(pe, u)}}

RenderTenant(pe, rank, t) ==
    LET tenant == pe.tenants[t]
    IN  {VRF(VrfName(t), tableOf[t])}
        \cup {SID(s, tableOf[t]) : s \in tenant.sid}    \* empty when not yet valid
        \cup {XFRM(TunnelName(t, p.ifid), p.ifid, VrfName(t)) : p \in tenant.portals}
        \cup {Route(tableOf[t], p.prefix, TunnelName(t, p.ifid)) : p \in tenant.portals}
        \cup RenderSRRoutes(pe, rank, t) \cup RenderRules(pe, rank, t)

\* The tenants are visited in the order of a Go map: rank.
RenderPEIntent(pe, rank) ==
    {Classification(c.dscp, c.color) : c \in pe.classes}
    \cup UNION {RenderTenant(pe, rank, t) : t \in DOMAIN pe.tenants}

Ranks(i) ==
    IF i.nodeType = "cpe" THEN {<<>>} ELSE Orders(DOMAIN i.body.tenants)

Render(i, rank) ==
    IF i.nodeType = "cpe" THEN RenderCPEIntent(i.body) ELSE RenderPEIntent(i.body, rank)

\* A CPE without a site prefix, a PE with a DSCP that is no byte.
RenderFails(i) ==
    IF i.nodeType = "cpe" THEN i.body.ifid # 0 /\ i.body.prefix = ""
    ELSE \E c \in i.body.classes : c.dscp >= 255

RenderFIB(f) ==
    GetClassifications(f) \cup GetLinksByType(f, "vrf") \cup GetLinksByType(f, "xfrm")
    \cup GetPrefixRoutes(f) \cup GetRules(f) \cup GetSIDs(f) \cup GetSRRoutes(f)

\* mutant: what is not wanted any more stays
DiffAddsOnly(curr, want) ==
    [remove |-> {}, add |-> {r \in want : Key(r) \notin Keys(curr)}]

Diff(curr, want) ==
    [remove |-> {r \in curr : Key(r) \notin Keys(want)},
     add |-> {r \in want : Key(r) \notin Keys(curr)}]

-----------------------------------------------------------------------------
\* Nothing in the way of intent i: no object with a wanted key differs in a
\* field the key leaves out, no two wanted resources take the same place or,
\* of two tenants, the same table, or have one if_id, the tables fit in the
\* kernel's 32 bits, no VRF of another program has a wanted name or table, and
\* no class goes, from the kernel or from the batch.
Favourable(f, q, i) ==
    \A rank \in Ranks(i) :
        LET want == Render(i, rank)
        IN  /\ \A r \in want, x \in f : Key(x) = Key(r) => x = r
            /\ OnePerPlace(want)
            /\ \A r, s \in Kind(want, "vrf") : r.table = s.table => r = s
            /\ \A r, s \in Kind(want, "xfrm") : r.ifid = s.ifid => r = s
            /\ \A r \in want : r.kind \in {"rule", "sr_route"} => KernelTable(r.table) = r.table
            /\ \A r \in Kind(want, "sr_route") : r.segments # <<>>
            /\ \A r \in want, v \in Kind(f, "vrf") : ~v.owned =>
                 Place(r) # Place(v) /\ (r.kind \in {"vrf", "route"} => r.table # v.table)
            /\ Kind(f, "classification") \subseteq want
            /\ \A n \in 1..Len(q) :
                 q[n].op = "add" /\ Classification(q[n].key[1], q[n].mark) \in want

Older(i, j) ==
    \/ i.version < j.version
    \/ i.version = j.version /\ i.generation < j.generation

\* The end of Reconcile, with the deferred report.
Return(converged, observed, error) ==
    /\ pc' = "idle"
    /\ report' = [converged |-> converged, observed |-> observed, passes |-> pass,
                  error |-> error]
    /\ todo' = NoDiff

\* Start: the next intent of the feed.
Deliver(i) ==
    /\ pc = "idle" /\ deliveries < MaxDeliveries
    /\ deliveries' = deliveries + 1
    /\ intent' = i /\ pass' = 1 /\ pc' = "plan"
    /\ favourable' = Favourable(fib, nftQueue, i)
    /\ UNCHANGED <<node, kernel, current, desired, todo, report, faults>>

\* mutant: the generation is not compared
PlanRefusesByVersion ==
    \/ intent.nodeType # nodeType
    \/ current # NoIntent /\ intent.version < current.version
    \/ RenderFails(intent)

PlanRefuses ==
    \/ intent.nodeType # nodeType
    \/ current # NoIntent /\ Older(intent, current)
    \/ RenderFails(intent)

PlanFails(faulty) ==
    /\ pc = "plan"
    /\ PlanRefuses \/ faulty        \* faulty: a read of the kernel failed
    /\ faulty => ~PlanRefuses /\ faults < MaxFaults
    /\ faults' = (IF faulty THEN faults + 1 ELSE faults)
    /\ favourable' = (favourable /\ ~faulty)
    /\ Return(FALSE, FALSE, "plan")
    /\ UNCHANGED <<node, kernel, current, intent, pass, desired, deliveries>>

\* Plan and Diff read one state of the kernel.
PlanAndDiff(rank) ==
    /\ pc = "plan" /\ ~PlanRefuses
    /\ desired' = Render(intent, rank)
    /\ LET diff == Diff(RenderFIB(fib), desired')
       IN  IF diff = NoDiff
           THEN Return(TRUE, TRUE, "none") /\ current' = intent
           ELSE pc' = "ensure" /\ todo' = diff /\ UNCHANGED <<current, report>>
    /\ UNCHANGED <<node, kernel, intent, pass, favourable, bounds>>

\* The head of Apply.  A batch that is refused, or whose Flush fails (faulty),
\* is dropped by the connection.
Ensure(faulty) ==
    /\ pc = "ensure"
    /\ faulty => ~BatchIsRefused(fib, nftQueue) /\ faults < MaxFaults
    /\ faults' = (IF faulty THEN faults + 1 ELSE faults)
    /\ favourable' = (favourable /\ ~faulty)
    /\ nftQueue' = <<>>
    /\ IF faulty \/ BatchIsRefused(fib, nftQueue)
       THEN Return(FALSE, TRUE, "ensure") /\ UNCHANGED fib
       ELSE /\ fib' = EnsureClassificationBase(fib, nftQueue)
            /\ pc' = "apply" /\ UNCHANGED <<todo, report>>
    /\ UNCHANGED <<node, current, intent, pass, desired, deliveries>>

-----------------------------------------------------------------------------
RemoveOrder == <<"classification", "rule", "sr_route", "sid", "route", "xfrm", "vrf">>
\* mutant: tunnels before the VRFs they belong to
AddOrderTunnelsFirst ==
    <<"xfrm", "vrf", "route", "sid", "sr_route", "rule", "classification">>

AddOrder == <<"vrf", "xfrm", "route", "sid", "sr_route", "rule", "classification">>

IsNext(r, S, order) ==
    \E n \in 1..Len(order) :
        /\ r.kind = order[n]
        /\ \A s \in S : \A m \in 1..(n - 1) : s.kind # order[m]

RemoveResource(r, o) ==
    /\ fib' = CASE r.kind = "route" -> RemovePrefixRoute(fib, r.dst, r.table, o)
                [] r.kind = "xfrm" -> RemoveXFRMInterface(fib, r, o)
                [] r.kind = "vrf" -> RemoveVRF(fib, r, o)
                [] r.kind = "rule" ->
                     RemoveRule(fib, r.priority, r.src, r.table, r.mark, r.iif, o)
                [] r.kind = "sid" -> RemoveSID(fib, r.sid, o)
                [] r.kind = "sr_route" -> RemoveSRRouteForPrefix(fib, r.prefix, r.table, o)
                [] r.kind = "classification" -> fib
    /\ nftQueue' = IF r.kind = "classification" /\ o = "ok"
                   THEN RemoveClassification(nftQueue, r.classifier) ELSE nftQueue

AddResource(r, o) ==
    /\ fib' = CASE r.kind = "vrf" -> UpsertVRF(fib, r.name, r.table, o)
                [] r.kind = "xfrm" -> InsertXFRMInterface(fib, r.name, r.ifid, r.master, o)
                [] r.kind = "route" -> InsertPrefixRoute(fib, r.dev, r.table, r.dst, o)
                [] r.kind = "sr_route" ->
                     InsertSRRouteForPrefix(fib, r.prefix, r.table, r.segments, o)
                [] r.kind = "rule" ->
                     UpsertRule(fib, r.priority, r.src, r.table, r.mark, r.iif, o)
                [] r.kind = "sid" -> UpsertDT46SID(fib, r.sid, r.table, o)
                [] r.kind = "classification" -> fib
    /\ nftQueue' = IF r.kind = "classification" /\ o = "ok"
                   THEN InsertClassification(nftQueue, r.classifier, r.mark) ELSE nftQueue

\* The loops of Apply: everything to remove, bottom up, then what to add.
ApplyOne(o) ==
    /\ pc = "apply"
    /\ o # "ok" => faults < MaxFaults
    /\ faults' = (IF o = "ok" THEN faults ELSE faults + 1)
    /\ favourable' = (favourable /\ o = "ok")
    /\ IF todo.remove # {}
       THEN \E r \in todo.remove :
              /\ IsNext(r, todo.remove, RemoveOrder)
              /\ RemoveResource(r, o) /\ todo' = [todo EXCEPT !.remove = @ \ {r}]
       ELSE \E r \in todo.add :
              /\ IsNext(r, todo.add, AddOrder)
              /\ AddResource(r, o) /\ todo' = [todo EXCEPT !.add = @ \ {r}]
    /\ UNCHANGED <<node, current, pc, intent, pass, desired, report, deliveries>>

\* mutant: one pass too many
EndPassLate ==
    /\ pc = "apply" /\ todo = NoDiff
    /\ IF pass <= MaxPasses
       THEN pc' = "plan" /\ pass' = pass + 1 /\ UNCHANGED <<todo, report>>
       ELSE Return(FALSE, TRUE, "passes") /\ UNCHANGED pass
    /\ UNCHANGED <<node, kernel, current, intent, desired, favourable, bounds>>

\* mutant: the passes are not counted
EndPassUncounted ==
    /\ pc = "apply" /\ todo = NoDiff
    /\ pc' = "plan"
    /\ UNCHANGED <<node, kernel, current, call, report, favourable, bounds>>

\* The next pass, or the end: what the last one did is not looked at.
EndPass ==
    /\ pc = "apply" /\ todo = NoDiff
    /\ IF pass < MaxPasses
       THEN pc' = "plan" /\ pass' = pass + 1 /\ UNCHANGED <<todo, report>>
       ELSE Return(FALSE, TRUE, "passes") /\ UNCHANGED pass
    /\ UNCHANGED <<node, kernel, current, intent, desired, favourable, bounds>>

\* Another program deletes an object of Maeto's.
Drift ==
    /\ faults < MaxFaults /\ faults' = faults + 1
    /\ \E x \in RenderFIB(fib) : fib' = (IF x \in Links(fib) THEN LinkDel(fib, x) ELSE fib \ {x})
    /\ favourable' = FALSE
    /\ UNCHANGED <<node, nftQueue, current, pc, call, report, deliveries>>

\* The agent restarts: Start, with nothing remembered and an empty batch.  When
\* its EnsureClassificationBase fails, Start returns and the agent goes on
\* without a reconciler.
Restart(started) ==
    /\ faults < MaxFaults /\ faults' = faults + 1
    /\ nftQueue' = <<>> /\ current' = NoIntent
    /\ pc' = (IF started THEN "idle" ELSE "stopped")
    /\ intent' = NoIntent /\ pass' = 0 /\ desired' = {} /\ todo' = NoDiff
    /\ report' = NoReport /\ favourable' = FALSE
    /\ UNCHANGED <<node, fib, deliveries>>

Step ==
    \/ \E faulty \in BOOLEAN : PlanFails(faulty) \/ Ensure(faulty)
    \/ pc = "plan" /\ \E rank \in Ranks(intent) : PlanAndDiff(rank)
    \/ \E o \in {"ok", "err", "half"} : ApplyOne(o)
    \/ EndPass

Next ==
    \/ \E i \in Intents : Deliver(i)
    \/ Step
    \/ Drift
    \/ \E started \in BOOLEAN : Restart(started)

Spec == Init /\ [][Next]_vars /\ WF_vars(Step)

-----------------------------------------------------------------------------
\* Three passes are enough: the first builds the links, the second takes the
\* catch-alls of new VRFs away again and sends the queued classes, the third
\* finds nothing to do.  A Reconcile that no fault disturbs and nothing left
\* from before stands in the way of ends converged, unless Plan refuses it.
UndisturbedReconcileConverges ==
    pc = "idle" /\ favourable /\ ~PlanRefuses => report.converged

\* Diff looks at keys only, and a key leaves fields out.  Still, when an
\* undisturbed Reconcile says it has converged, the kernel has the rendered
\* resources in every field: links up and enslaved, SIDs into the right VRF,
\* routes over the wanted segments, and no resource of Maeto's besides.
ConvergedIsComplete ==
    pc = "idle" /\ favourable /\ report.converged => RenderFIB(fib) = desired

\* Two tenants whose ids hash to one table never have their segment routes
\* rendered into it together, whatever the order of the tenants.
TablesAreNotShared ==
    Reconciling /\ intent.nodeType = "pe" =>
        \A rank \in Ranks(intent) : \A t, u \in DOMAIN intent.body.tenants :
            \A r \in RenderSRRoutes(intent.body, rank, t) :
            \A s \in RenderSRRoutes(intent.body, rank, u) : r.table = s.table => t = u

ForeignVRFsStay == \A x \in Kind(fib, "vrf") : ~x.owned => x \in fib'

\* UpsertVRF refuses a device that has the name and another table, and Apply
\* removes owned links only: a VRF of another program stays as it is.
ForeignVRFsAreLeftAlone == [][ForeignVRFsStay]_vars

GoesForward ==
    current # NoIntent /\ current' # NoIntent /\ faults' = faults =>
        ~Older(current', current) /\ (fib' # fib => ~Older(intent, current))

\* While the agent lives, an intent older than the one it last converged on
\* neither touches the kernel nor becomes the current one.
StaleIntentsAreIgnored == [][GoesForward]_vars

\* Every Reconcile ends, though the diff may never become empty.
ReconcileEnds == Reconciling ~> ~Reconciling
=============================================================================
