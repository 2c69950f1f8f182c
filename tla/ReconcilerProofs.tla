--------------------------- MODULE ReconcilerProofs ---------------------------
(***************************************************************************)
(* Proofs about Reconciler, for any tenants, intents, hash of the tenants, *)
(* kernel to start from, number of passes, deliveries and faults: states   *)
(* are typed, intents go forward only, tenants that hash to one table keep *)
(* their routes apart, the VRFs of other programs stay, and a reconcile    *)
(* goes ahead at every step and is never without a next one.               *)
(***************************************************************************)
EXTENDS Reconciler, TLAPS

\* Zenon is the prover of every leaf that names no other.
USE Zenon

\* What Reconcile remembers.  Once Plan has let an intent through, it stays at
\* least as new as the current one until Reconcile ends.
CallInv ==
    /\ tableOf \in TableMaps /\ faults \in Nat
    /\ pc \in {"idle", "plan", "ensure", "apply", "stopped"}
    /\ current \in Intents \cup {NoIntent}
    /\ Reconciling => intent \in Intents
    /\ pc \in {"ensure", "apply"} => current = NoIntent \/ ~Older(intent, current)

\* Of two intents of the controller not both are older than the other, and
\* none is older than itself.
LEMMA OlderIsIrreflexive ==
    \A i \in Intents : i # NoIntent /\ ~Older(i, i)
BY ReconcilerConstants, SMT DEF Older

\* Every step preserves CallInv.
LEMMA CallStep ==
    ASSUME CallInv, [Next]_vars
    PROVE  CallInv'
<1> USE DEF CallInv, Reconciling
<1>1. ASSUME NEW i \in Intents, Deliver(i)  PROVE  CallInv'
  BY <1>1 DEF Deliver, node
<1>2. ASSUME NEW faulty \in BOOLEAN, PlanFails(faulty)  PROVE  CallInv'
  BY <1>2, SMT DEF PlanFails, Return, node
<1>3. ASSUME NEW rank, pc = "plan", PlanAndDiff(rank)  PROVE  CallInv'
  <2>1. /\ intent \in Intents /\ (current = NoIntent \/ ~Older(intent, current))
        /\ UNCHANGED <<tableOf, intent, faults>>
    BY <1>3 DEF PlanAndDiff, PlanRefuses, node, bounds
  <2>2. \/ pc' = "idle" /\ current' = intent
        \/ pc' = "ensure" /\ current' = current
    BY <1>3 DEF PlanAndDiff, Return
  <2> QED  BY <2>1, <2>2 DEF Older
<1>4. ASSUME NEW faulty \in BOOLEAN, Ensure(faulty)  PROVE  CallInv'
  <2>1. /\ UNCHANGED <<tableOf, current, intent>> /\ pc = "ensure"
        /\ pc' \in {"idle", "apply"}
    BY <1>4 DEF Ensure, Return, node
  <2>2. faults' \in Nat  BY <1>4, SMT DEF Ensure
  <2> QED  BY <2>1, <2>2 DEF Older
<1>5. ASSUME NEW o, ApplyOne(o)  PROVE  CallInv'
  <2>1. UNCHANGED <<tableOf, current, pc, intent>> /\ pc = "apply"
    BY <1>5 DEF ApplyOne, node
  <2>2. faults' \in Nat  BY <1>5, SMT DEF ApplyOne
  <2> QED  BY <2>1, <2>2 DEF Older
<1>6. CASE EndPass  BY <1>6 DEF EndPass, Return, node, bounds
<1>7. CASE Drift
  <2>1. UNCHANGED <<tableOf, current, pc, intent>> /\ faults' \in Nat
    BY <1>7, SMT DEF Drift, node, call
  <2> QED  BY <2>1 DEF Older
<1>8. ASSUME NEW started \in BOOLEAN, Restart(started)  PROVE  CallInv'
  BY <1>8, SMT DEF Restart, node
<1>9. CASE UNCHANGED vars
  <2>1. UNCHANGED <<tableOf, current, pc, intent, faults>>
    BY <1>9 DEF vars, node, call, bounds
  <2> QED  BY <2>1 DEF Older
<1> QED
  BY <1>1, <1>2, <1>3, <1>4, <1>5, <1>6, <1>7, <1>8, <1>9 DEF Next, Step

\* CallInv is an invariant.
LEMMA CallInvariant == Spec => []CallInv
<1>1. Init => CallInv  BY SMT DEF Init, CallInv, Reconciling
<1> QED  BY <1>1, CallStep, PTL DEF Spec

-----------------------------------------------------------------------------
\* A step that neither touches the kernel nor the current intent goes forward.
LEMMA QuietStep ==
    ASSUME CallInv, UNCHANGED <<current, fib>>
    PROVE  GoesForward
BY OlderIsIrreflexive DEF CallInv, GoesForward, Older

\* Every step goes forward.
LEMMA ForwardStep ==
    ASSUME CallInv, [Next]_vars
    PROVE  GoesForward
<1>1. ASSUME NEW i \in Intents, Deliver(i)  PROVE  GoesForward
  BY <1>1, QuietStep DEF Deliver, kernel
<1>2. ASSUME NEW faulty \in BOOLEAN, PlanFails(faulty)  PROVE  GoesForward
  BY <1>2, QuietStep DEF PlanFails, kernel
<1>3. ASSUME NEW rank, pc = "plan", PlanAndDiff(rank)  PROVE  GoesForward
  <2>1. /\ current = NoIntent \/ ~Older(intent, current)
        /\ fib' = fib /\ (current' = intent \/ current' = current)
    BY <1>3 DEF PlanAndDiff, PlanRefuses, Return, kernel
  <2>2. CASE current' = current  BY <2>1, <2>2, QuietStep
  <2>3. CASE current' = intent  BY <2>1, <2>3 DEF GoesForward, Older
  <2> QED  BY <2>1, <2>2, <2>3
<1>4. ASSUME pc \in {"ensure", "apply"}, UNCHANGED current  PROVE  GoesForward
  BY <1>4, OlderIsIrreflexive DEF CallInv, GoesForward, Older
<1>5. ASSUME NEW o, ApplyOne(o)  PROVE  GoesForward
  BY <1>4, <1>5 DEF ApplyOne
<1>6. ASSUME NEW faulty \in BOOLEAN, Ensure(faulty)  PROVE  GoesForward
  BY <1>4, <1>6 DEF Ensure
<1>7. CASE EndPass  BY <1>7, QuietStep DEF EndPass, kernel
<1>8. CASE Drift  BY <1>8, SMT DEF Drift, GoesForward, CallInv
<1>9. ASSUME NEW started \in BOOLEAN, Restart(started)  PROVE  GoesForward
  BY <1>9 DEF Restart, GoesForward
<1>10. CASE UNCHANGED vars  BY <1>10, QuietStep DEF vars, kernel
<1> QED
  BY <1>1, <1>2, <1>3, <1>5, <1>6, <1>7, <1>8, <1>9, <1>10 DEF Next, Step

\* While the agent lives no intent older than the one it converged on touches
\* the kernel or replaces it, in whatever order the feed brings them.
THEOREM IntentsGoForward == Spec => StaleIntentsAreIgnored
<1>1. CallInv /\ [Next]_vars => [GoesForward]_vars  BY ForwardStep
<1> QED  BY <1>1, CallInvariant, PTL DEF Spec, StaleIntentsAreIgnored

-----------------------------------------------------------------------------
\* A color and a table below TableSpan can be read back from their sum.
LEMMA ColorTableIsUnique ==
    ASSUME NEW c \in Nat, NEW d \in Nat,
           NEW a \in 0..(TableSpan - 1), NEW b \in 0..(TableSpan - 1),
           (c * TableSpan) + a = (d * TableSpan) + b
    PROVE  c = d /\ a = b
<1>1. TableSpan \in Nat \ {0}  BY ReconcilerConstants
<1>2. ASSUME NEW x \in Nat, NEW y \in Nat, x < y
      PROVE  (y * TableSpan) >= (x * TableSpan) + TableSpan
  <2>1. PICK k \in Nat : y = x + 1 + k  BY <1>2, SMT
  <2>2. y * TableSpan = (x * TableSpan) + TableSpan + (k * TableSpan)  BY <1>1, <2>1, SMT
  <2>3. (k * TableSpan) \in Nat /\ (x * TableSpan) \in Nat  BY <1>1, SMT
  <2> QED  BY <1>1, <2>2, <2>3, SMT
<1>3. (c * TableSpan) \in Nat /\ (d * TableSpan) \in Nat  BY <1>1, SMT
<1>4. ~(c < d)  BY <1>1, <1>2, <1>3, SMT
<1>5. ~(d < c)  BY <1>1, <1>2, <1>3, SMT
<1>6. c = d  BY <1>4, <1>5, SMT
<1> QED  BY <1>1, <1>3, <1>6, SMT

\* What a segment route that is rendered says of its tenant: the route is in
\* the table of one of its colors, and no tenant visited before has it.
LEMMA RenderedRoute ==
    ASSUME NEW pe, NEW rank, NEW t, NEW r \in RenderSRRoutes(pe, rank, t)
    PROVE  \E p \in pe.tenants[t].paths :
              /\ p.color \in Colors(pe, t) /\ ~TableIsTaken(pe, rank, t, p.color)
              /\ r.table = ColorTableID(t, p.color)
<1>1. PICK p \in pe.tenants[t].paths :
         /\ ~TableIsTaken(pe, rank, t, p.color)
         /\ \E x \in p.prefixes : r = SRRoute(x, Reversed(p.segments), ColorTableID(t, p.color))
  BY DEF RenderSRRoutes
<1>2. p.color \in Colors(pe, t)  BY <1>1 DEF Colors
<1>3. r.table = ColorTableID(t, p.color)  BY <1>1, SMT DEF SRRoute
<1> QED  BY <1>1, <1>2, <1>3

\* Two tenants that hash to one table never have segment routes rendered into
\* one color's table together, for every intent, every hash and every order of
\* the tenants: of two that would, the one visited later is skipped.
THEOREM TenantsKeepApart == Spec => []TablesAreNotShared
<1>1. CallInv => TablesAreNotShared
  <2> SUFFICES ASSUME CallInv, Reconciling, intent.nodeType = "pe",
                      NEW rank \in Ranks(intent),
                      NEW t \in DOMAIN intent.body.tenants, NEW u \in DOMAIN intent.body.tenants,
                      NEW r \in RenderSRRoutes(intent.body, rank, t),
                      NEW s \in RenderSRRoutes(intent.body, rank, u),
                      r.table = s.table, t # u
               PROVE  FALSE
    BY DEF TablesAreNotShared
  <2> DEFINE pe == intent.body
  <2>1. /\ intent \in Intents /\ t \in Tenants /\ u \in Tenants
        /\ \A v \in {t, u} : \A p \in pe.tenants[v].paths : p.color \in Nat
    BY ReconcilerConstants DEF CallInv
  <2>2. tableOf[t] \in 0..(TableSpan - 1) /\ tableOf[u] \in 0..(TableSpan - 1)
    BY <2>1, ReconcilerConstants DEF CallInv
  <2>3. PICK p \in pe.tenants[t].paths :
           /\ p.color \in Colors(pe, t) /\ ~TableIsTaken(pe, rank, t, p.color)
           /\ r.table = ColorTableID(t, p.color)
    BY RenderedRoute, SMT
  <2>4. PICK q \in pe.tenants[u].paths :
           /\ q.color \in Colors(pe, u) /\ ~TableIsTaken(pe, rank, u, q.color)
           /\ s.table = ColorTableID(u, q.color)
    BY RenderedRoute, SMT
  <2>5. p.color = q.color /\ tableOf[t] = tableOf[u]
    <3>1. p.color \in Nat /\ q.color \in Nat  BY <2>1, <2>3, <2>4
    <3>2. (p.color * TableSpan) + tableOf[t] = (q.color * TableSpan) + tableOf[u]
      BY <2>3, <2>4 DEF ColorTableID
    <3> QED  BY <3>1, <3>2, <2>2, ColorTableIsUnique, SMT
  <2>6. rank[t] \in Nat /\ rank[u] \in Nat /\ rank[t] # rank[u]
    <3>1. /\ rank \in [DOMAIN pe.tenants -> 1..MaxTenants]
          /\ rank[t] = rank[u] => t = u
      BY DEF Ranks, Orders
    <3>2. MaxTenants \in Nat  BY ReconcilerConstants
    <3> QED  BY <3>1, <3>2, SMT
  <2>7. rank[t] < rank[u] \/ rank[u] < rank[t]  BY <2>6, SMT
  <2>8. CASE rank[t] < rank[u]  BY <2>3, <2>4, <2>5, <2>8 DEF TableIsTaken
  <2>9. CASE rank[u] < rank[t]  BY <2>3, <2>4, <2>5, <2>9 DEF TableIsTaken
  <2> QED  BY <2>7, <2>8, <2>9
<1> QED  BY <1>1, CallInvariant, PTL

-----------------------------------------------------------------------------
\* From f to g the links stay sound, and the VRFs of other programs stay.
Preserves(f, g) ==
    /\ LinksAreSound(g)
    /\ \A x \in Kind(f, "vrf") : ~x.owned => x \in g

\* An operation that adds and removes no link does.
LEMMA OtherObjects ==
    ASSUME NEW f, NEW g, LinksAreSound(f),
           \A x : x.kind \in {"vrf", "xfrm"} => (x \in g <=> x \in f)
    PROVE  Preserves(f, g)
<1>1. Kind(g, "vrf") = Kind(f, "vrf") /\ Kind(g, "xfrm") = Kind(f, "xfrm")  BY SMT DEF Kind
<1> QED  BY <1>1 DEF Preserves, LinksAreSound, Kind

\* The deletion of a tunnel or of a VRF of Maeto's: the tunnels of the VRF are
\* freed.
LEMMA LinkDelPreserves ==
    ASSUME NEW f, NEW link, LinksAreSound(f), link.kind = "xfrm" \/ link.owned
    PROVE  Preserves(f, LinkDel(f, link))
<1> DEFINE slaves == {x \in Kind(f, "xfrm") : link.kind = "vrf" /\ x.master = link.name}
           freed == {[x EXCEPT !.master = NoDev] : x \in slaves}
           g == LinkDel(f, link)
<1>1. \A y \in freed : y.kind = "xfrm" /\ IsXFRM(y)
  <2> SUFFICES ASSUME NEW x \in slaves
               PROVE  /\ [x EXCEPT !.master = NoDev].kind = "xfrm"
                      /\ IsXFRM([x EXCEPT !.master = NoDev])
    OBVIOUS
  <2>1. x = [kind |-> "xfrm", name |-> x.name, ifid |-> x.ifid, master |-> x.master, up |-> x.up]
    BY DEF LinksAreSound, IsXFRM
  <2>2. [x EXCEPT !.master = NoDev] =
           [kind |-> "xfrm", name |-> x.name, ifid |-> x.ifid, master |-> NoDev, up |-> x.up]
    BY <2>1, SMT
  <2> QED  BY <2>2 DEF IsXFRM
<1>2. \A y \in g : y \in f \/ y \in freed  BY DEF LinkDel
<1>3. ASSUME NEW x \in Kind(f, "vrf"), ~x.owned  PROVE  x \in g
  <2>1. x \in f /\ x.kind = "vrf" /\ x # link  BY <1>3 DEF Kind
  <2>2. x \notin slaves  BY <2>1 DEF Kind
  <2> QED  BY <2>1, <2>2 DEF LinkDel
<1>4. LinksAreSound(g)
  <2> HIDE DEF freed, g
  <2>1. \A x \in Kind(g, "vrf") : x \in Kind(f, "vrf")  BY <1>1, <1>2 DEF Kind
  <2>2. \A x \in Kind(g, "xfrm") : IsXFRM(x)
    BY <1>1, <1>2 DEF Kind, LinksAreSound
  <2> QED  BY <2>1, <2>2 DEF LinksAreSound
<1> QED  BY <1>3, <1>4 DEF Preserves

\* A route is added to a kernel.
LEMMA RouteReplacePreserves ==
    ASSUME NEW f, NEW tb, NEW d, NEW dev, LinksAreSound(f)
    PROVE  Preserves(f, RouteReplace(f, Route(tb, d, dev)))
BY OtherObjects, SMT DEF RouteReplace, Route

\* Nothing changes.
LEMMA SamePreserves ==
    ASSUME NEW f, LinksAreSound(f)
    PROVE  Preserves(f, f)
BY DEF Preserves, Kind

\* One change after another.
LEMMA PreservesIsTransitive ==
    ASSUME NEW f, NEW g, NEW h, Preserves(f, g), Preserves(g, h)
    PROVE  Preserves(f, h)
BY DEF Preserves, Kind

\* UpsertVRF adds a VRF of Maeto's, and raises what has its name and table.
LEMMA UpsertVRFPreserves ==
    ASSUME NEW f, NEW n, NEW tb, NEW o, LinksAreSound(f)
    PROVE  Preserves(f, UpsertVRF(f, n, tb, o))
<1> DEFINE existing == {x \in Links(f) : x.name = n}
           new == VRFDevice(n, tb, FALSE)
           added == IF existing = {} THEN f \cup {new} ELSE f
           raise(x) == IF x.kind = "vrf" /\ x.name = n /\ ~x.up THEN [x EXCEPT !.up = TRUE] ELSE x
           raised == {raise(x) : x \in added}
<1>0. new = [kind |-> "vrf", name |-> n, table |-> tb, up |-> FALSE, owned |-> TRUE]
  BY DEF VRFDevice
<1> HIDE DEF new
<1>1. new.kind = "vrf" /\ new.owned = TRUE /\ new.up = FALSE
  <2>1. new.kind = "vrf"  BY <1>0
  <2>2. new.owned = TRUE  BY <1>0
  <2>3. new.up = FALSE  BY <1>0
  <2> QED  BY <2>1, <2>2, <2>3
<1>2. IsVRF(new)
  <2>1. new.name = n /\ new.table = tb  BY <1>0
  <2> QED  BY <1>0, <1>1, <2>1 DEF IsVRF
<1>3. Preserves(f, added)
  <2>1. \A x \in added : x \in f \/ x = new  OBVIOUS
  <2>2. \A x \in f : x \in added  OBVIOUS
  <2> HIDE DEF added
  <2>3. LinksAreSound(added)
    BY <1>1, <1>2, <2>1 DEF LinksAreSound, Kind
  <2> QED  BY <2>2, <2>3 DEF Preserves, Kind
<1> HIDE DEF added
<1>4. LinksAreSound(added)  BY <1>3 DEF Preserves
<1>5. Preserves(added, raised)
  <2>1. ASSUME NEW x \in added
        PROVE  /\ raise(x).kind = "vrf" => IsVRF(raise(x)) /\ (~raise(x).owned => raise(x).up)
               /\ raise(x).kind = "xfrm" => IsXFRM(raise(x))
               /\ x.kind = "vrf" /\ ~x.owned => raise(x) = x
    <3>1. CASE x.kind = "vrf" /\ x.name = n /\ ~x.up
      <4>1. IsVRF(x) /\ x.owned /\ x.owned \in BOOLEAN
        BY <3>1, <1>4 DEF LinksAreSound, Kind, IsVRF
      <4>2. raise(x) = [kind |-> "vrf", name |-> x.name, table |-> x.table, up |-> TRUE,
                        owned |-> x.owned]
        BY <3>1, <4>1 DEF IsVRF
      <4>3. /\ raise(x).kind = "vrf" /\ raise(x).name = x.name /\ raise(x).table = x.table
            /\ raise(x).up = TRUE /\ raise(x).owned = x.owned
        BY <4>2, SMT
      <4> HIDE DEF raise
      <4>4. IsVRF(raise(x))  BY <4>1, <4>2, <4>3 DEF IsVRF
      <4>5. ~(x.kind = "vrf" /\ ~x.owned)  BY <4>1
      <4> QED  BY <4>3, <4>4, <4>5
    <3>2. CASE ~(x.kind = "vrf" /\ x.name = n /\ ~x.up)
      <4>1. raise(x) = x  BY <3>2
      <4> QED  BY <4>1, <1>4 DEF LinksAreSound, Kind
    <3> QED  BY <3>1, <3>2
  <2> HIDE DEF raise
  <2>2. LinksAreSound(raised)  BY <2>1 DEF LinksAreSound, Kind
  <2>3. \A x \in Kind(added, "vrf") : ~x.owned => x \in raised  BY <2>1 DEF Kind
  <2> QED  BY <2>2, <2>3 DEF Preserves
<1>6. LinksAreSound(raised)  BY <1>5 DEF Preserves
<1>7. Preserves(raised, RouteReplace(raised, vrfCatchAll(tb)))
  BY <1>6, RouteReplacePreserves DEF vrfCatchAll
<1>8. Preserves(f, RouteReplace(raised, vrfCatchAll(tb)))
  <2> HIDE DEF raised
  <2> QED  BY <1>3, <1>5, <1>7, PreservesIsTransitive
<1>9. UpsertVRF(f, n, tb, o) \in {f, added, RouteReplace(raised, vrfCatchAll(tb))}
  BY DEF UpsertVRF, added, new
<1> QED  BY <1>3, <1>8, <1>9, SamePreserves

\* RemoveVRF deletes a VRF of Maeto's only.
LEMMA RemoveVRFPreserves ==
    ASSUME NEW f, NEW link, NEW o, LinksAreSound(f)
    PROVE  Preserves(f, RemoveVRF(f, link, o))
<1> DEFINE mine == {v \in LinkByIndex(f, link) : v.owned}
           v == CHOOSE v \in mine : TRUE
           bare == f \ {vrfCatchAll(v.table)}
<1>1. CASE mine = {} \/ o = "err"
  <2>1. RemoveVRF(f, link, o) = f  BY <1>1 DEF RemoveVRF
  <2> QED  BY <2>1, SamePreserves
<1>2. CASE mine # {} /\ o # "err"
  <2>1. v \in mine  BY <1>2
  <2>2. v.owned  BY <2>1
  <2>3. RemoveVRF(f, link, o) \in {bare, LinkDel(bare, v)}  BY <1>2 DEF RemoveVRF
  <2> HIDE DEF v
  <2>4. Preserves(f, bare)  BY OtherObjects, SMT DEF vrfCatchAll, Route
  <2>5. LinksAreSound(bare)  BY <2>4 DEF Preserves
  <2>6. Preserves(bare, LinkDel(bare, v))  BY <2>2, <2>5, LinkDelPreserves
  <2>7. Preserves(f, LinkDel(bare, v))  BY <2>4, <2>6, PreservesIsTransitive
  <2> QED  BY <2>3, <2>4, <2>7
<1> QED  BY <1>1, <1>2

\* InsertXFRMInterface adds a tunnel, enslaved or not, up or not.
LEMMA InsertXFRMPreserves ==
    ASSUME NEW f, NEW n, NEW id, NEW m, NEW o, LinksAreSound(f)
    PROVE  Preserves(f, InsertXFRMInterface(f, n, id, m, o))
<1>1. ASSUME NEW master, NEW isUp
      PROVE  Preserves(f, f \cup {[XFRM(n, id, master) EXCEPT !.up = isUp]})
  <2> DEFINE x == [XFRM(n, id, master) EXCEPT !.up = isUp]
  <2>1. x = [kind |-> "xfrm", name |-> n, ifid |-> id, master |-> master, up |-> isUp]
    BY SMT DEF XFRM
  <2>2. x.kind = "xfrm" /\ IsXFRM(x)  BY <2>1 DEF IsXFRM
  <2> HIDE DEF x
  <2>3. LinksAreSound(f \cup {x})  BY <2>2 DEF LinksAreSound, Kind
  <2> QED  BY <2>3 DEF Preserves, Kind, x
<1> QED  BY <1>1, SamePreserves DEF InsertXFRMInterface

\* RemoveXFRMInterface deletes a tunnel.
LEMMA RemoveXFRMPreserves ==
    ASSUME NEW f, NEW link, NEW o, LinksAreSound(f), link.kind = "xfrm"
    PROVE  Preserves(f, RemoveXFRMInterface(f, link, o))
<1> DEFINE x == CHOOSE x \in LinkByIndex(f, link) : TRUE
<1>1. CASE o # "ok" \/ LinkByIndex(f, link) = {}
  <2>1. RemoveXFRMInterface(f, link, o) = f  BY <1>1 DEF RemoveXFRMInterface
  <2> QED  BY <2>1, SamePreserves
<1>2. CASE ~(o # "ok" \/ LinkByIndex(f, link) = {})
  <2>1. x \in LinkByIndex(f, link)  BY <1>2
  <2>2. x.kind = "xfrm"  BY <2>1 DEF LinkByIndex, Kind
  <2>3. RemoveXFRMInterface(f, link, o) = LinkDel(f, x)  BY <1>2 DEF RemoveXFRMInterface
  <2> HIDE DEF x
  <2> QED  BY <2>2, <2>3, LinkDelPreserves
<1> QED  BY <1>1, <1>2

\* The operations on routes, rules, SIDs and segment routes.
LEMMA ObjectsPreserve ==
    ASSUME NEW f, LinksAreSound(f), NEW a, NEW b, NEW c, NEW d, NEW e, NEW o
    PROVE  /\ Preserves(f, InsertPrefixRoute(f, a, b, c, o))
           /\ Preserves(f, RemovePrefixRoute(f, a, b, o))
           /\ Preserves(f, UpsertRule(f, a, b, c, d, e, o))
           /\ Preserves(f, RemoveRule(f, a, b, c, d, e, o))
           /\ Preserves(f, UpsertDT46SID(f, a, b, o)) /\ Preserves(f, RemoveSID(f, a, o))
           /\ Preserves(f, InsertSRRouteForPrefix(f, a, b, c, o))
           /\ Preserves(f, RemoveSRRouteForPrefix(f, a, b, o))
<1>1. Preserves(f, f)  BY SamePreserves
<1>2. Preserves(f, InsertPrefixRoute(f, a, b, c, o))
  BY <1>1, RouteReplacePreserves DEF InsertPrefixRoute
<1>3. Preserves(f, RemovePrefixRoute(f, a, b, o))  BY OtherObjects DEF RemovePrefixRoute
<1>4. Preserves(f, UpsertRule(f, a, b, c, d, e, o))  BY OtherObjects, SMT DEF UpsertRule, Rule
<1>5. Preserves(f, RemoveRule(f, a, b, c, d, e, o))  BY OtherObjects, SMT DEF RemoveRule, Rule
<1>6. Preserves(f, UpsertDT46SID(f, a, b, o))  BY OtherObjects, SMT DEF UpsertDT46SID, SID
<1>7. Preserves(f, RemoveSID(f, a, o))  BY OtherObjects DEF RemoveSID
<1>8. Preserves(f, InsertSRRouteForPrefix(f, a, b, c, o))
  BY OtherObjects, SMT DEF InsertSRRouteForPrefix, SRRoute
<1>9. Preserves(f, RemoveSRRouteForPrefix(f, a, b, o))
  BY OtherObjects DEF RemoveSRRouteForPrefix
<1> QED  BY <1>2, <1>3, <1>4, <1>5, <1>6, <1>7, <1>8, <1>9

\* The classes.
LEMMA EnsurePreserves ==
    ASSUME NEW f, NEW q, LinksAreSound(f)
    PROVE  Preserves(f, EnsureClassificationBase(f, q))
<1>1. \A x : x.kind \in {"vrf", "xfrm"} =>
             (x \in EnsureClassificationBase(f, q) <=> x \in f)
  <2>1. \A c, m : Classification(c, m).kind = "classification"  BY DEF Classification
  <2> QED  BY <2>1 DEF EnsureClassificationBase
<1> QED  BY <1>1, OtherObjects, SMT

\* One operation of Apply, of any kind and with any outcome.
LEMMA ApplyPreserves ==
    ASSUME LinksAreSound(fib), NEW r, NEW o,
           \/ (\E S : IsNext(r, S, RemoveOrder)) /\ RemoveResource(r, o)
           \/ (\E S : IsNext(r, S, AddOrder)) /\ AddResource(r, o)
    PROVE  Preserves(fib, fib')
<1>1. r.kind \in {"vrf", "xfrm", "route", "sid", "sr_route", "rule", "classification"}
  BY SMT DEF IsNext, RemoveOrder, AddOrder
<1>2. Preserves(fib, fib)  BY SamePreserves
<1>3. CASE RemoveResource(r, o)
  <2>1. CASE r.kind = "vrf"  BY <1>3, <2>1, RemoveVRFPreserves DEF RemoveResource
  <2>2. CASE r.kind = "xfrm"  BY <1>3, <2>2, RemoveXFRMPreserves DEF RemoveResource
  <2>3. CASE r.kind = "classification"  BY <1>2, <1>3, <2>3 DEF RemoveResource
  <2>4. CASE r.kind \in {"route", "sid", "sr_route", "rule"}
    BY <1>3, <2>4, ObjectsPreserve DEF RemoveResource
  <2> QED  BY <1>1, <2>1, <2>2, <2>3, <2>4
<1>4. CASE AddResource(r, o)
  <2>1. CASE r.kind = "vrf"  BY <1>4, <2>1, UpsertVRFPreserves DEF AddResource
  <2>2. CASE r.kind = "xfrm"  BY <1>4, <2>2, InsertXFRMPreserves DEF AddResource
  <2>3. CASE r.kind = "classification"  BY <1>2, <1>4, <2>3 DEF AddResource
  <2>4. CASE r.kind \in {"route", "sid", "sr_route", "rule"}
    BY <1>4, <2>4, ObjectsPreserve DEF AddResource
  <2> QED  BY <1>1, <2>1, <2>2, <2>3, <2>4
<1> QED  BY <1>3, <1>4

\* Every step: the other program that deletes an object deletes one of Maeto's.
LEMMA LinksStep ==
    ASSUME LinksAreSound(fib), [Next]_vars
    PROVE  Preserves(fib, fib')
<1>1. CASE fib' = fib  BY <1>1, SamePreserves
<1>2. ASSUME NEW faulty \in BOOLEAN, Ensure(faulty)  PROVE  Preserves(fib, fib')
  BY <1>1, <1>2, EnsurePreserves DEF Ensure
<1>3. ASSUME NEW o, ApplyOne(o)  PROVE  Preserves(fib, fib')
  BY <1>3, ApplyPreserves DEF ApplyOne
<1>4. CASE Drift
  <2>1. PICK x \in RenderFIB(fib) :
           fib' = (IF x \in Links(fib) THEN LinkDel(fib, x) ELSE fib \ {x})
    BY <1>4 DEF Drift
  <2>2. CASE x \in Links(fib)
    <3>1. x.kind = "xfrm" \/ x.owned
      BY <2>1, <2>2 DEF RenderFIB, Links, Kind, GetLinksByType, GetClassifications,
         GetPrefixRoutes, GetRules, GetSIDs, GetSRRoutes
    <3> QED  BY <2>1, <2>2, <3>1, LinkDelPreserves
  <2>3. CASE x \notin Links(fib)
    <3>1. x \in fib  BY <2>1 DEF RenderFIB, Kind, GetLinksByType, GetClassifications,
         GetPrefixRoutes, GetRules, GetSIDs, GetSRRoutes
    <3>2. x.kind \notin {"vrf", "xfrm"}  BY <2>3, <3>1 DEF Links, Kind
    <3>3. Preserves(fib, fib \ {x})  BY <3>2, OtherObjects
    <3> QED  BY <2>1, <2>3, <3>3
  <2> QED  BY <2>2, <2>3
<1>5. CASE UNCHANGED vars  BY <1>1, <1>5 DEF vars, kernel
<1>6. ASSUME NEW i, Deliver(i)  PROVE  fib' = fib  BY <1>6 DEF Deliver, kernel
<1>7. ASSUME NEW faulty, PlanFails(faulty)  PROVE  fib' = fib  BY <1>7 DEF PlanFails, kernel
<1>8. ASSUME NEW rank, PlanAndDiff(rank)  PROVE  fib' = fib  BY <1>8 DEF PlanAndDiff, kernel
<1>9. EndPass => fib' = fib  BY DEF EndPass, kernel
<1>10. ASSUME NEW started, Restart(started)  PROVE  fib' = fib  BY <1>10 DEF Restart
<1> QED
  BY <1>1, <1>2, <1>3, <1>4, <1>5, <1>6, <1>7, <1>8, <1>9, <1>10 DEF Next, Step

\* A VRF of another program stays as it is, whatever intents come, operations
\* fail and objects go, if it was up when the agent started.
THEOREM ForeignVRFsSurvive == Spec => ForeignVRFsAreLeftAlone
<1> DEFINE Sound == LinksAreSound(fib)
<1>1. Init => Sound  BY FibsAreSound DEF Init
<1>2. Sound /\ [Next]_vars => Sound'
  <2>1. Preserves(fib, fib') => LinksAreSound(fib')  BY DEF Preserves
  <2>2. LinksAreSound(fib') <=> Sound'  BY DEF LinksAreSound, Kind
  <2> QED  BY <2>1, <2>2, LinksStep
<1>3. Sound /\ [Next]_vars => [ForeignVRFsStay]_vars
  <2>1. Preserves(fib, fib') => ForeignVRFsStay  BY DEF Preserves, ForeignVRFsStay
  <2> QED  BY <2>1, LinksStep
<1> HIDE DEF Sound
<1> QED  BY <1>1, <1>2, <1>3, PTL DEF Spec, ForeignVRFsAreLeftAlone

-----------------------------------------------------------------------------
\* A key begins with the kind, so that it tells kinds apart.
LEMMA KeyShape ==
    ASSUME NEW x, x.kind \in Kinds
    PROVE  Key(x)[1] = x.kind
BY DEF Key, Kinds, VRFKey, XFRMKey, RouteKey, RuleKey, SIDKey, SRRouteKey, ClassificationKey

\* What a place is; all links are in one name space.
LEMMA PlaceShape ==
    ASSUME NEW x, x.kind \in Kinds
    PROVE  /\ x.kind \in {"vrf", "xfrm"} => Place(x) = <<"link", x.name>>
           /\ x.kind = "route" => Place(x) = <<"route", x.table, x.dst>>
           /\ x.kind = "rule" => Place(x) = <<"rule", x>>
           /\ x.kind = "sid" => Place(x) = <<"sid", x.sid>>
           /\ x.kind = "sr_route" => Place(x) = <<"sr_route", x.table, x.prefix>>
           /\ x.kind = "classification" => Place(x) = <<"classification", x.classifier>>
BY DEF Place, Kinds

\* Two objects in one place.
LEMMA SamePlace ==
    ASSUME NEW x, NEW y, x.kind \in Kinds, y.kind \in Kinds
    PROVE  Place(x) = Place(y) <=>
             \/ x.kind \in {"vrf", "xfrm"} /\ y.kind \in {"vrf", "xfrm"} /\ x.name = y.name
             \/ x.kind = "route" /\ y.kind = "route" /\ x.table = y.table /\ x.dst = y.dst
             \/ x.kind = "rule" /\ y.kind = "rule" /\ x = y
             \/ x.kind = "sid" /\ y.kind = "sid" /\ x.sid = y.sid
             \/ /\ x.kind = "sr_route" /\ y.kind = "sr_route"
                /\ x.table = y.table /\ x.prefix = y.prefix
             \/ /\ x.kind = "classification" /\ y.kind = "classification"
                /\ x.classifier = y.classifier
<1> DEFINE Tag(z) == IF z.kind \in {"vrf", "xfrm"} THEN "link" ELSE z.kind
<1>1. Place(x)[1] = Tag(x) /\ Place(y)[1] = Tag(y)  BY PlaceShape, SMT DEF Kinds
<1>2. Place(x) = Place(y) => Tag(x) = Tag(y)  BY <1>1
<1>3. CASE Tag(x) = Tag(y)
  <2>1. CASE x.kind \in {"vrf", "xfrm"} /\ y.kind \in {"vrf", "xfrm"}
    BY <2>1, PlaceShape, SMT
  <2>2. CASE x.kind = y.kind /\ x.kind \notin {"vrf", "xfrm"}
    BY <2>2, PlaceShape, SMT DEF Kinds
  <2> QED  BY <1>3, <2>1, <2>2 DEF Kinds
<1>4. CASE Tag(x) # Tag(y)  BY <1>2, <1>4 DEF Kinds
<1> QED  BY <1>3, <1>4

\* Two objects with one key.
LEMMA SameKey ==
    ASSUME NEW x, NEW y, x.kind \in Kinds, y.kind \in Kinds
    PROVE  Key(x) = Key(y) <=>
             /\ x.kind = y.kind
             /\ x.kind = "vrf" => x.name = y.name
             /\ x.kind = "xfrm" => x.name = y.name /\ x.ifid = y.ifid
             /\ x.kind = "route" => x.table = y.table /\ x.dst = y.dst /\ x.dev = y.dev
             /\ x.kind = "rule" => /\ x.priority = y.priority /\ x.src = y.src
                                   /\ x.table = y.table /\ x.mark = y.mark
             /\ x.kind = "sid" => x.sidType = y.sidType /\ x.sid = y.sid
             /\ x.kind = "sr_route" =>
                  x.table = y.table /\ x.prefix = y.prefix /\ x.segments = y.segments
             /\ x.kind = "classification" => x.classifier = y.classifier /\ x.mark = y.mark
<1>1. Key(x) = Key(y) => x.kind = y.kind  BY KeyShape
<1>2. CASE x.kind = y.kind
  <2>1. CASE x.kind = "vrf"
    <3>1. Key(x) = <<"vrf", x.name>> /\ Key(y) = <<"vrf", y.name>>
      BY <1>2, <2>1 DEF Key, VRFKey
    <3> QED  BY <1>2, <2>1, <3>1, SMT
  <2>2. CASE x.kind = "xfrm"
    <3>1. Key(x) = <<"xfrm", x.name, x.ifid>> /\ Key(y) = <<"xfrm", y.name, y.ifid>>
      BY <1>2, <2>2 DEF Key, XFRMKey
    <3> QED  BY <1>2, <2>2, <3>1, SMT
  <2>3. CASE x.kind = "route"
    <3>1. Key(x) = <<"route", x.table, x.dst, x.dev>> /\ Key(y) = <<"route", y.table, y.dst, y.dev>>
      BY <1>2, <2>3 DEF Key, RouteKey
    <3> QED  BY <1>2, <2>3, <3>1, SMT
  <2>4. CASE x.kind = "rule"
    <3>1. Key(x) = <<"rule", x.priority, x.src, x.table, x.mark>> /\ Key(y) = <<"rule", y.priority, y.src, y.table, y.mark>>
      BY <1>2, <2>4 DEF Key, RuleKey
    <3> QED  BY <1>2, <2>4, <3>1, SMT
  <2>5. CASE x.kind = "sid"
    <3>1. Key(x) = <<"sid", x.sidType, x.sid>> /\ Key(y) = <<"sid", y.sidType, y.sid>>
      BY <1>2, <2>5 DEF Key, SIDKey
    <3> QED  BY <1>2, <2>5, <3>1, SMT
  <2>6. CASE x.kind = "sr_route"
    <3>1. Key(x) = <<"sr_route", x.table, x.prefix, x.segments>> /\ Key(y) = <<"sr_route", y.table, y.prefix, y.segments>>
      BY <1>2, <2>6 DEF Key, SRRouteKey
    <3> QED  BY <1>2, <2>6, <3>1, SMT
  <2>7. CASE x.kind = "classification"
    <3>1. Key(x) = <<"classification", x.classifier, x.mark>> /\ Key(y) = <<"classification", y.classifier, y.mark>>
      BY <1>2, <2>7 DEF Key, ClassificationKey
    <3> QED  BY <1>2, <2>7, <3>1, SMT
  <2> QED  BY <2>1, <2>2, <2>3, <2>4, <2>5, <2>6, <2>7 DEF Kinds
<1> QED  BY <1>1, <1>2

\* Two objects of the kernel with one key are in one place, unless they are
\* rules.
LEMMA KeyIsFiner ==
    ASSUME NEW x, NEW y, x.kind \in Kinds, y.kind \in Kinds, x.kind # "rule", Key(x) = Key(y)
    PROVE  Place(x) = Place(y)
<1>1. x.kind = y.kind  BY SameKey
<1> QED  BY <1>1, SameKey, SamePlace, SMT DEF Kinds

\* What Diff is told of a kernel.
LEMMA RenderFIBIs ==
    ASSUME NEW f, \A x \in f : x.kind \in Kinds
    PROVE  RenderFIB(f) = {x \in f : x.kind = "vrf" => x.owned}
BY DEF RenderFIB, GetClassifications, GetLinksByType, GetPrefixRoutes, GetRules, GetSIDs,
       GetSRRoutes, Kind, Kinds

-----------------------------------------------------------------------------
\* The kernel keeps one object per place, whatever is done to it.
Tidy(f) ==
    /\ OnePerPlace(f)
    /\ \A x \in f : x.kind \in Kinds /\ (x.kind = "rule" => IsRule(x))

\* Objects go.
LEMMA TidySubset ==
    ASSUME NEW f, NEW g, Tidy(f), g \subseteq f
    PROVE  Tidy(g)
BY DEF Tidy, OnePerPlace

\* An object comes to a place that is free.
LEMMA TidyAdd ==
    ASSUME NEW f, NEW y, Tidy(f), y.kind \in Kinds, y.kind = "rule" => IsRule(y),
           \A x \in f : Place(x) = Place(y) => x = y
    PROVE  Tidy(f \cup {y})
BY DEF Tidy, OnePerPlace

\* The fields of a tunnel that is put into the kernel.
LEMMA XFRMFields ==
    \A n, id, m : /\ XFRM(n, id, m).kind = "xfrm" /\ XFRM(n, id, m).name = n
                  /\ XFRM(n, id, m).ifid = id /\ XFRM(n, id, m).master = m
                  /\ XFRM(n, id, m).up = TRUE
BY DEF XFRM

\* Of a route.
LEMMA RouteFields ==
    \A tb, d, dev : /\ Route(tb, d, dev).kind = "route" /\ Route(tb, d, dev).table = tb
                    /\ Route(tb, d, dev).dst = d /\ Route(tb, d, dev).dev = dev
BY DEF Route

\* Of a SID.
LEMMA SIDFields ==
    \A s, tb : /\ SID(s, tb).kind = "sid" /\ SID(s, tb).sidType = "dt46"
               /\ SID(s, tb).sid = s /\ SID(s, tb).table = tb
BY DEF SID

\* Of a route over segments.
LEMMA SRRouteFields ==
    \A p, segs, tb : /\ SRRoute(p, segs, tb).kind = "sr_route"
                     /\ SRRoute(p, segs, tb).prefix = p
                     /\ SRRoute(p, segs, tb).segments = segs
                     /\ SRRoute(p, segs, tb).table = tb
BY DEF SRRoute

\* Of a class.
LEMMA ClassificationFields ==
    \A c, m : /\ Classification(c, m).kind = "classification"
              /\ Classification(c, m).classifier = c /\ Classification(c, m).mark = m
BY DEF Classification

\* The fields of a rule.
LEMMA RuleFields ==
    \A p, s, tb, m, i :
        LET r == Rule(p, s, tb, m, i)
        IN  /\ r.kind = "rule" /\ r.priority = p /\ r.src = s /\ r.table = tb
            /\ r.mark = m /\ r.iif = i /\ IsRule(r)
BY SMT DEF Rule, IsRule

\* A tunnel that was just created, enslaved or not, up or not.
LEMMA NewTunnel ==
    ASSUME NEW n, NEW id, NEW m, NEW isUp
    PROVE  LET x == [XFRM(n, id, m) EXCEPT !.up = isUp]
           IN  x.kind = "xfrm" /\ x.name = n /\ x.ifid = id /\ x.master = m
BY DEF XFRM

\* A tunnel that was created without a failure is as it is wanted.
LEMMA GoodTunnel ==
    ASSUME NEW n, NEW id, NEW m
    PROVE  [XFRM(n, id, m) EXCEPT !.up = TRUE] = XFRM(n, id, m)
<1>1. ASSUME NEW isUp
      PROVE  [XFRM(n, id, m) EXCEPT !.up = isUp] =
                [kind |-> "xfrm", name |-> n, ifid |-> id, master |-> m, up |-> isUp]
  BY SMT DEF XFRM
<1>2. [XFRM(n, id, m) EXCEPT !.up = TRUE] =
         [kind |-> "xfrm", name |-> n, ifid |-> id, master |-> m, up |-> TRUE]
  BY <1>1
<1> QED  BY <1>2 DEF XFRM

\* A route takes the place of the one it replaces.
LEMMA RouteReplaceTidy ==
    ASSUME NEW f, NEW tb, NEW d, NEW dev, Tidy(f)
    PROVE  Tidy(RouteReplace(f, Route(tb, d, dev)))
<1> DEFINE r == Route(tb, d, dev)
           h == {x \in f : ~(x.kind = "route" /\ x.table = r.table /\ x.dst = r.dst)}
<1>1. r.kind = "route" /\ r.kind \in Kinds /\ r.kind # "rule"  BY RouteFields, SMT DEF Kinds
<1>2. Tidy(h)  BY TidySubset
<1>3. \A x \in h : x.kind \in Kinds /\ ~(x.kind = "route" /\ x.table = r.table /\ x.dst = r.dst)
  BY DEF Tidy
<1> HIDE DEF r, h
<1>4. \A x \in h : Place(x) # Place(r)  BY <1>1, <1>3, SamePlace, SMT
<1>5. Tidy(h \cup {r})  BY <1>1, <1>2, <1>4, TidyAdd
<1> QED  BY <1>5 DEF RouteReplace, h, r

\* UpsertVRF adds a device with a new name, and raises one where it is.
LEMMA UpsertVRFTidy ==
    ASSUME NEW f, NEW n, NEW tb, NEW o, Tidy(f), LinksAreSound(f)
    PROVE  Tidy(UpsertVRF(f, n, tb, o))
<1> DEFINE existing == {x \in Links(f) : x.name = n}
           new == VRFDevice(n, tb, FALSE)
           added == IF existing = {} THEN f \cup {new} ELSE f
           raise(x) == IF x.kind = "vrf" /\ x.name = n /\ ~x.up THEN [x EXCEPT !.up = TRUE] ELSE x
           raised == {raise(x) : x \in added}
<1>1. Tidy(added) /\ \A x \in Kind(added, "vrf") : IsVRF(x)
  <2>1. new.kind = "vrf" /\ new.name = n /\ new.kind \in Kinds
    <3>1. new.kind = "vrf" /\ new.name = n  BY DEF VRFDevice
    <3> QED  BY <3>1 DEF Kinds
  <2>2. IsVRF(new)  BY DEF IsVRF, VRFDevice
  <2> HIDE DEF new
  <2>3. CASE existing = {}
    <3>1. \A x \in f : x.kind \in Kinds /\ (x.kind \in {"vrf", "xfrm"} => x.name # n)
      BY <2>3 DEF Tidy, Links, Kind
    <3>2. \A x \in f : Place(x) # Place(new)  BY <2>1, <3>1, SamePlace
    <3>3. Tidy(f \cup {new})  BY <2>1, <3>2, TidyAdd
    <3> QED  BY <2>2, <2>3, <3>3 DEF LinksAreSound, Kind
  <2>4. CASE existing # {}  BY <2>4 DEF LinksAreSound
  <2> QED  BY <2>3, <2>4
<1> HIDE DEF added
<1>2. ASSUME NEW x \in added
      PROVE  Place(raise(x)) = Place(x) /\ raise(x).kind \in Kinds
             /\ (raise(x).kind = "rule" => IsRule(raise(x)))
  <2>1. CASE x.kind = "vrf" /\ x.name = n /\ ~x.up
    <3>1. IsVRF(x)  BY <1>1, <2>1 DEF Kind
    <3>2. raise(x) = [kind |-> "vrf", name |-> x.name, table |-> x.table, up |-> TRUE,
                      owned |-> x.owned]
      BY <2>1, <3>1 DEF IsVRF
    <3>3. raise(x).kind = "vrf" /\ raise(x).name = x.name  BY <3>2, SMT
    <3> HIDE DEF raise
    <3> QED  BY <2>1, <3>3, SamePlace, SMT DEF Kinds
  <2>2. CASE ~(x.kind = "vrf" /\ x.name = n /\ ~x.up)
    <3>1. raise(x) = x  BY <2>2
    <3> QED  BY <3>1, <1>1 DEF Tidy
  <2> QED  BY <2>1, <2>2
<1> HIDE DEF raise
<1>3. Tidy(raised)
  <2>1. \A y, z \in raised : Place(y) = Place(z) => y = z
    BY <1>1, <1>2, SMT DEF Tidy, OnePerPlace
  <2> QED  BY <2>1, <1>2, SMT DEF Tidy, OnePerPlace
<1> HIDE DEF raised
<1>4. Tidy(RouteReplace(raised, vrfCatchAll(tb)))  BY <1>3, RouteReplaceTidy DEF vrfCatchAll
<1>5. UpsertVRF(f, n, tb, o) \in {f, added, RouteReplace(raised, vrfCatchAll(tb))}
  BY DEF UpsertVRF, added, raised, raise
<1> QED  BY <1>1, <1>4, <1>5

\* A link goes, with what is on it, and its tunnels stay where they are.
LEMMA LinkDelTidy ==
    ASSUME NEW f, NEW link, Tidy(f), LinksAreSound(f)
    PROVE  Tidy(LinkDel(f, link))
<1> DEFINE slaves == {x \in Kind(f, "xfrm") : link.kind = "vrf" /\ x.master = link.name}
           free(x) == [x EXCEPT !.master = NoDev]
           g == LinkDel(f, link)
<1>1. ASSUME NEW x \in slaves  PROVE  Place(free(x)) = Place(x) /\ free(x).kind = "xfrm"
  <2>1. IsXFRM(x) /\ x.kind = "xfrm"  BY DEF LinksAreSound, Kind
  <2>2. free(x) = [kind |-> "xfrm", name |-> x.name, ifid |-> x.ifid, master |-> NoDev,
                   up |-> x.up]
    BY <2>1, SMT DEF IsXFRM
  <2>3. free(x).kind = "xfrm" /\ free(x).name = x.name  BY <2>2
  <2> HIDE DEF free
  <2> QED  BY <2>1, <2>3, SamePlace, SMT DEF Kinds
<1>2. slaves \subseteq f  BY DEF Kind
<1>3. \A y \in g : (y \in f /\ y \notin slaves) \/ \E x \in slaves : y = free(x)
  BY DEF LinkDel
<1> HIDE DEF slaves, free, g
<1>4. \A y \in g : y.kind \in Kinds /\ (y.kind = "rule" => IsRule(y))
  BY <1>1, <1>3 DEF Tidy, Kinds
<1>5. ASSUME NEW y \in g, NEW z \in g, Place(y) = Place(z)  PROVE  y = z
  <2>1. PICK a \in f : /\ Place(y) = Place(a)
                       /\ (a \notin slaves /\ y = a) \/ (a \in slaves /\ y = free(a))
    BY <1>1, <1>2, <1>3
  <2>2. PICK b \in f : /\ Place(z) = Place(b)
                       /\ (b \notin slaves /\ z = b) \/ (b \in slaves /\ z = free(b))
    BY <1>1, <1>2, <1>3
  <2>3. a = b  BY <1>5, <2>1, <2>2 DEF Tidy, OnePerPlace
  <2> QED  BY <2>1, <2>2, <2>3
<1>6. Tidy(g)  BY <1>4, <1>5 DEF Tidy, OnePerPlace
<1> QED  BY <1>6 DEF g

\* RemoveVRF and RemoveXFRMInterface delete one link.
LEMMA RemoveLinkTidy ==
    ASSUME NEW f, NEW link, NEW o, Tidy(f), LinksAreSound(f)
    PROVE  Tidy(RemoveVRF(f, link, o)) /\ Tidy(RemoveXFRMInterface(f, link, o))
<1> DEFINE v == CHOOSE v \in {v \in LinkByIndex(f, link) : v.owned} : TRUE
           bare == f \ {vrfCatchAll(v.table)}
<1>1. RemoveVRF(f, link, o) \in {f, bare, LinkDel(bare, v)}  BY DEF RemoveVRF
<1>2. Tidy(bare) /\ LinksAreSound(bare)
  <2>1. Tidy(bare)  BY TidySubset
  <2>2. bare \subseteq f  OBVIOUS
  <2> HIDE DEF bare
  <2> QED  BY <2>1, <2>2 DEF LinksAreSound, Kind
<1>3. Tidy(RemoveVRF(f, link, o))
  <2> HIDE DEF bare, v
  <2> QED  BY <1>1, <1>2, LinkDelTidy
<1>4. RemoveXFRMInterface(f, link, o) \in
         {f, LinkDel(f, CHOOSE x \in LinkByIndex(f, link) : TRUE)}
  BY DEF RemoveXFRMInterface
<1> QED  BY <1>3, <1>4, LinkDelTidy

\* InsertXFRMInterface adds a tunnel with a new name.
LEMMA InsertXFRMTidy ==
    ASSUME NEW f, NEW n, NEW id, NEW m, NEW o, Tidy(f)
    PROVE  Tidy(InsertXFRMInterface(f, n, id, m, o))
<1>1. ASSUME NEW master, NEW isUp, ~\E x \in Links(f) : x.name = n
      PROVE  Tidy(f \cup {[XFRM(n, id, master) EXCEPT !.up = isUp]})
  <2> DEFINE y == [XFRM(n, id, master) EXCEPT !.up = isUp]
  <2>1. y.kind = "xfrm" /\ y.name = n  BY NewTunnel, SMT
  <2> HIDE DEF y
  <2>2. \A x \in f : x.kind \in Kinds /\ (x.kind \in {"vrf", "xfrm"} => x.name # n)
    BY <1>1 DEF Tidy, Links, Kind
  <2>3. \A x \in f : Place(x) # Place(y)  BY <2>1, <2>2, SamePlace, SMT DEF Kinds
  <2>4. Tidy(f \cup {y})  BY <2>1, <2>3, TidyAdd DEF Kinds
  <2> QED  BY <2>4 DEF y
<1> QED  BY <1>1 DEF InsertXFRMInterface

\* The operations on routes, rules, SIDs and segment routes.
LEMMA ObjectsTidy ==
    ASSUME NEW f, Tidy(f), NEW a, NEW b, NEW c, NEW d, NEW e, NEW o
    PROVE  /\ Tidy(InsertPrefixRoute(f, a, b, c, o)) /\ Tidy(RemovePrefixRoute(f, a, b, o))
           /\ Tidy(UpsertRule(f, a, b, c, d, e, o)) /\ Tidy(RemoveRule(f, a, b, c, d, e, o))
           /\ Tidy(UpsertDT46SID(f, a, b, o)) /\ Tidy(RemoveSID(f, a, o))
           /\ Tidy(InsertSRRouteForPrefix(f, a, b, c, o))
           /\ Tidy(RemoveSRRouteForPrefix(f, a, b, o))
<1>1. Tidy(InsertPrefixRoute(f, a, b, c, o))
  BY RouteReplaceTidy DEF InsertPrefixRoute
<1>2. Tidy(RemovePrefixRoute(f, a, b, o))  BY TidySubset DEF RemovePrefixRoute
<1>3. Tidy(UpsertRule(f, a, b, c, d, e, o))
  <2> DEFINE r == Rule(a, b, KernelTable(c), d, e)
  <2>1. r.kind = "rule" /\ IsRule(r)  BY RuleFields, SMT
  <2> HIDE DEF r
  <2>2. \A x \in f : Place(x) = Place(r) => x = r  BY <2>1, SamePlace, SMT DEF Kinds, Tidy
  <2>3. Tidy(f \cup {r})  BY <2>1, <2>2, TidyAdd DEF Kinds
  <2> QED  BY <2>3 DEF UpsertRule, r
<1>4. Tidy(RemoveRule(f, a, b, c, d, e, o))  BY TidySubset DEF RemoveRule
<1>5. Tidy(UpsertDT46SID(f, a, b, o))
  <2> DEFINE r == SID(a, b)
             h == {x \in f : ~(x.kind = "sid" /\ x.sid = a)}
  <2>1. r.kind = "sid" /\ r.sid = a  BY SIDFields
  <2>2. Tidy(h)  BY TidySubset
  <2>3. \A x \in h : x.kind \in Kinds /\ ~(x.kind = "sid" /\ x.sid = a)  BY DEF Tidy
  <2> HIDE DEF r, h
  <2>4. \A x \in h : Place(x) # Place(r)  BY <2>1, <2>3, SamePlace, SMT DEF Kinds
  <2>5. Tidy(h \cup {r})  BY <2>1, <2>2, <2>4, TidyAdd DEF Kinds
  <2> QED  BY <2>5 DEF UpsertDT46SID, r, h
<1>6. Tidy(RemoveSID(f, a, o))  BY TidySubset DEF RemoveSID
<1>7. Tidy(InsertSRRouteForPrefix(f, a, b, c, o))
  <2> DEFINE tb == KernelTable(b)
             r == SRRoute(a, c, tb)
             h == {x \in f : ~(x.kind = "sr_route" /\ x.prefix = a /\ x.table = tb)}
  <2> HIDE DEF tb
  <2>1. r.kind = "sr_route" /\ r.prefix = a /\ r.table = tb  BY SRRouteFields, SMT
  <2>2. Tidy(h)  BY TidySubset
  <2>3. \A x \in h : x.kind \in Kinds /\ ~(x.kind = "sr_route" /\ x.prefix = a /\ x.table = tb)
    BY DEF Tidy
  <2> HIDE DEF r, h
  <2>4. \A x \in h : Place(x) # Place(r)  BY <2>1, <2>3, SamePlace, SMT DEF Kinds
  <2>5. Tidy(h \cup {r})  BY <2>1, <2>2, <2>4, TidyAdd DEF Kinds
  <2> QED  BY <2>5 DEF InsertSRRouteForPrefix, r, h, tb
<1>8. Tidy(RemoveSRRouteForPrefix(f, a, b, o))  BY TidySubset DEF RemoveSRRouteForPrefix
<1> QED  BY <1>1, <1>2, <1>3, <1>4, <1>5, <1>6, <1>7, <1>8

\* The batch is sound: only deletions are asked for with a key that is not the
\* element's, and of the operations on a key one is the last.
IsLast(q, m) == \A j \in (m + 1)..Len(q) : q[j].key # q[m].key

BatchIsSound(q) ==
    /\ \E S : q \in Seq(S)
    /\ \A n \in 1..Len(q) :
         /\ q[n].op = "del" \/ (q[n].op = "add" /\ q[n].key = <<q[n].key[1]>>)
         /\ \E m \in 1..Len(q) : IsLast(q, m) /\ q[m].key = q[n].key

\* The last of the operations on a key that the batch has.
LEMMA LastOpIs ==
    ASSUME NEW q, BatchIsSound(q), NEW i \in 1..Len(q)
    PROVE  /\ LastOp(q, q[i].key) \in 1..Len(q)
           /\ q[LastOp(q, q[i].key)].key = q[i].key
<1>1. PICK m \in 1..Len(q) : IsLast(q, m) /\ q[m].key = q[i].key  BY DEF BatchIsSound
<1> QED  BY <1>1 DEF LastOp, IsLast

\* What a batch puts into the map: classes under the keys it touches.
LEMMA EnsureTidy ==
    ASSUME NEW f, NEW q, Tidy(f), BatchIsSound(q)
    PROVE  Tidy(EnsureClassificationBase(f, q))
<1> DEFINE touched == {q[i].key : i \in 1..Len(q)}
           put(k) == Classification(q[LastOp(q, k)].key[1], q[LastOp(q, k)].mark)
           K == {k \in touched : q[LastOp(q, k)].op = "add"}
           kept == {x \in f : x.kind = "classification" => ElementKey(x) \notin touched}
<1>1. Len(q) \in Nat  BY SMT DEF BatchIsSound
<1>2. ASSUME NEW k \in K
      PROVE  put(k).kind = "classification" /\ k = <<put(k).classifier>> /\ k \in touched
  <2>1. LastOp(q, k) \in 1..Len(q) /\ q[LastOp(q, k)].key = k  BY LastOpIs DEF touched
  <2>2. k = <<k[1]>>  BY <2>1 DEF BatchIsSound
  <2>3. put(k).kind = "classification" /\ put(k).classifier = k[1]  BY <2>1, ClassificationFields, SMT
  <2> QED  BY <2>2, <2>3
<1> HIDE DEF put, K, touched
<1>3. Tidy(kept)  BY TidySubset
<1>4. \A x \in kept : x.kind = "classification" => <<x.classifier>> \notin touched
  BY DEF ElementKey
<1> DEFINE g == kept \cup {put(k) : k \in K}
<1> HIDE DEF kept
<1>5. \A x \in g : x.kind \in Kinds /\ (x.kind = "rule" => IsRule(x))
  BY <1>2, <1>3 DEF Tidy, Kinds
<1>6. ASSUME NEW x \in kept, NEW k \in K  PROVE  Place(x) # Place(put(k))
  BY <1>2, <1>3, <1>4, SamePlace, SMT DEF Tidy, Kinds
<1>7. ASSUME NEW k \in K, NEW l \in K, Place(put(k)) = Place(put(l))  PROVE  k = l
  BY <1>2, <1>7, SamePlace, SMT DEF Kinds
<1>8. OnePerPlace(g)  BY <1>3, <1>6, <1>7 DEF Tidy, OnePerPlace
<1>9. Tidy(g)  BY <1>5, <1>8 DEF Tidy
<1> QED  BY <1>9 DEF EnsureClassificationBase, g, kept, put, K, touched

\* One operation of Apply, of any kind and with any outcome.
LEMMA ApplyTidy ==
    ASSUME Tidy(fib), LinksAreSound(fib), NEW r, NEW o,
           \/ (\E S : IsNext(r, S, RemoveOrder)) /\ RemoveResource(r, o)
           \/ (\E S : IsNext(r, S, AddOrder)) /\ AddResource(r, o)
    PROVE  Tidy(fib')
<1>1. r.kind \in {"vrf", "xfrm", "route", "sid", "sr_route", "rule", "classification"}
  BY SMT DEF IsNext, RemoveOrder, AddOrder
<1>2. CASE RemoveResource(r, o)
  <2>1. CASE r.kind \in {"vrf", "xfrm"}  BY <1>2, <2>1, RemoveLinkTidy DEF RemoveResource
  <2>2. CASE r.kind = "classification"  BY <1>2, <2>2 DEF RemoveResource
  <2>3. CASE r.kind \in {"route", "sid", "sr_route", "rule"}
    BY <1>2, <2>3, ObjectsTidy DEF RemoveResource
  <2> QED  BY <1>1, <2>1, <2>2, <2>3
<1>3. CASE AddResource(r, o)
  <2>1. CASE r.kind = "vrf"  BY <1>3, <2>1, UpsertVRFTidy DEF AddResource
  <2>2. CASE r.kind = "xfrm"  BY <1>3, <2>2, InsertXFRMTidy DEF AddResource
  <2>3. CASE r.kind = "classification"  BY <1>3, <2>3 DEF AddResource
  <2>4. CASE r.kind \in {"route", "sid", "sr_route", "rule"}
    BY <1>3, <2>4, ObjectsTidy DEF AddResource
  <2> QED  BY <1>1, <2>1, <2>2, <2>3, <2>4
<1> QED  BY <1>2, <1>3

\* One operation of Apply leaves the batch as it is or adds an element to it.
LEMMA ApplyBatch ==
    ASSUME BatchIsSound(nftQueue), NEW r, NEW o, RemoveResource(r, o) \/ AddResource(r, o)
    PROVE  BatchIsSound(nftQueue')
<1>1. ASSUME NEW e, e.op = "del" \/ (e.op = "add" /\ e.key = <<e.key[1]>>)
      PROVE  BatchIsSound(Append(nftQueue, e))
  <2>1. PICK S : nftQueue \in Seq(S)  BY DEF BatchIsSound
  <2>2. Append(nftQueue, e) \in Seq(S \cup {e})  BY <2>1, SMT
  <2>3. /\ Len(Append(nftQueue, e)) = Len(nftQueue) + 1 /\ Len(nftQueue) \in Nat
        /\ \A n \in 1..Len(nftQueue) : Append(nftQueue, e)[n] = nftQueue[n]
        /\ Append(nftQueue, e)[Len(nftQueue) + 1] = e
    BY <2>1, SMT
  <2>4. ASSUME NEW n \in 1..Len(Append(nftQueue, e))
        PROVE  LET x == Append(nftQueue, e)[n]
               IN  x.op = "del" \/ (x.op = "add" /\ x.key = <<x.key[1]>>)
    <3>1. n \in 1..Len(nftQueue) \/ n = Len(nftQueue) + 1  BY <2>3, SMT
    <3> QED  BY <1>1, <2>3, <3>1 DEF BatchIsSound
  <2> DEFINE q == Append(nftQueue, e)
  <2> HIDE DEF q
  <2>5. ASSUME NEW n \in 1..Len(q)
        PROVE  \E m \in 1..Len(q) : IsLast(q, m) /\ q[m].key = q[n].key
    <3>1. CASE q[n].key = e.key
      <4>1. Len(q) \in 1..Len(q) /\ q[Len(q)] = e /\ (Len(q) + 1)..Len(q) = {}  BY <2>3, SMT DEF q
      <4> QED  BY <3>1, <4>1 DEF IsLast
    <3>2. CASE q[n].key # e.key
      <4>1. n \in 1..Len(nftQueue) /\ q[n] = nftQueue[n]  BY <2>3, <3>2, SMT DEF q
      <4>2. PICK m \in 1..Len(nftQueue) : IsLast(nftQueue, m) /\ nftQueue[m].key = q[n].key
        BY <4>1 DEF BatchIsSound
      <4>3. m \in 1..Len(q) /\ q[m] = nftQueue[m]  BY <2>3, <4>2, SMT DEF q
      <4>4. ASSUME NEW j \in (m + 1)..Len(q)  PROVE  q[j].key # q[m].key
        <5>1. j \in (m + 1)..Len(nftQueue) \/ j = Len(nftQueue) + 1  BY <2>3, <4>2, SMT DEF q
        <5>2. \A k \in (m + 1)..Len(nftQueue) : q[k] = nftQueue[k]  BY <2>3, <4>2, SMT DEF q
        <5> QED  BY <2>3, <3>2, <4>2, <4>3, <5>1, <5>2 DEF IsLast, q
      <4> QED  BY <4>2, <4>3, <4>4 DEF IsLast
    <3> QED  BY <3>1, <3>2
  <2> QED  BY <2>2, <2>4, <2>5 DEF BatchIsSound, q
<1>2. \A c : BatchIsSound(RemoveClassification(nftQueue, c))
  BY <1>1 DEF RemoveClassification
<1>3. \A c, m : BatchIsSound(InsertClassification(nftQueue, c, m))
  BY <1>1 DEF InsertClassification
<1> QED  BY <1>2, <1>3 DEF RemoveResource, AddResource

\* The kernel and the batch stay sound.
SoundInv == LinksAreSound(fib) /\ Tidy(fib) /\ BatchIsSound(nftQueue)

\* Every step preserves SoundInv.
LEMMA SoundStep ==
    ASSUME SoundInv, [Next]_vars
    PROVE  SoundInv'
<1> USE DEF SoundInv
<1>1. LinksAreSound(fib')  BY LinksStep DEF Preserves
<1>2. BatchIsSound(<<>>)
  <2>1. <<>> \in Seq({}) /\ Len(<<>>) = 0  BY SMT
  <2> QED  BY <2>1, SMT DEF BatchIsSound
<1>3. CASE UNCHANGED kernel  BY <1>1, <1>3 DEF kernel
<1>4. ASSUME NEW faulty \in BOOLEAN, Ensure(faulty)  PROVE  SoundInv'
  BY <1>1, <1>2, <1>4, EnsureTidy DEF Ensure
<1>5. ASSUME NEW o, ApplyOne(o)  PROVE  SoundInv'
  <2>1. PICK r : \/ (\E S : IsNext(r, S, RemoveOrder)) /\ RemoveResource(r, o)
                 \/ (\E S : IsNext(r, S, AddOrder)) /\ AddResource(r, o)
    BY <1>5 DEF ApplyOne
  <2> QED  BY <1>1, <2>1, ApplyTidy, ApplyBatch
<1>6. CASE Drift
  <2>1. nftQueue' = nftQueue  BY <1>6 DEF Drift
  <2>2. PICK x : fib' = LinkDel(fib, x) \/ fib' = fib \ {x}  BY <1>6 DEF Drift
  <2>3. Tidy(fib')  BY <2>2, LinkDelTidy, TidySubset
  <2> QED  BY <1>1, <2>1, <2>3
<1>7. ASSUME NEW started \in BOOLEAN, Restart(started)  PROVE  SoundInv'
  BY <1>1, <1>2, <1>7 DEF Restart
<1>8. ASSUME NEW i, Deliver(i)  PROVE  UNCHANGED kernel  BY <1>8 DEF Deliver
<1>9. ASSUME NEW faulty, PlanFails(faulty)  PROVE  UNCHANGED kernel  BY <1>9 DEF PlanFails
<1>10. ASSUME NEW rank, PlanAndDiff(rank)  PROVE  UNCHANGED kernel  BY <1>10 DEF PlanAndDiff
<1>11. EndPass \/ UNCHANGED vars => UNCHANGED kernel  BY DEF EndPass, vars
<1> QED
  BY <1>3, <1>4, <1>5, <1>6, <1>7, <1>8, <1>9, <1>10, <1>11 DEF Next, Step

\* SoundInv is an invariant.
LEMMA SoundInvariant == Spec => []SoundInv
<1>1. Init => SoundInv
  <2>1. <<>> \in Seq({}) /\ Len(<<>>) = 0  BY SMT
  <2>2. Init => BatchIsSound(nftQueue)  BY <2>1, SMT DEF Init, BatchIsSound
  <2> QED  BY <2>2, FibsAreSound DEF Init, SoundInv, Tidy
<1> QED  BY <1>1, SoundStep, PTL DEF Spec

\* The bounds of Reconcile's own state.
CountTypes ==
    /\ nodeType \in {"pe", "cpe"} /\ intent \in Intents \cup {NoIntent}
    /\ pass \in 0..MaxPasses /\ (Reconciling => pass >= 1)
    /\ deliveries \in 0..MaxDeliveries /\ faults \in 0..MaxFaults

\* A diff whose two halves are apart, and the errors there are.
AreApart(d) == d = [remove |-> d.remove, add |-> d.add] /\ d.remove \cap d.add = {}
DiffTypes == AreApart(todo) /\ report.error \in {"none", "plan", "ensure", "passes"}

\* Every step preserves CountTypes: a pass is begun only below MaxPasses.
LEMMA CountTypesStep ==
    ASSUME CountTypes, [Next]_vars
    PROVE  CountTypes'
<1>0. MaxPasses \in Nat \ {0} /\ MaxDeliveries \in Nat /\ MaxFaults \in Nat
  BY ReconcilerConstants
<1> USE DEF CountTypes, Reconciling
<1>1. ASSUME NEW i \in Intents, Deliver(i)  PROVE  CountTypes'
  BY <1>0, <1>1, SMT DEF Deliver, node
<1>2. ASSUME NEW faulty \in BOOLEAN, PlanFails(faulty)  PROVE  CountTypes'
  BY <1>0, <1>2, SMT DEF PlanFails, Return, node
<1>3. ASSUME NEW rank, PlanAndDiff(rank)  PROVE  CountTypes'
  <2>1. pc = "plan" /\ UNCHANGED <<nodeType, intent, pass, deliveries, faults>>
    BY <1>3 DEF PlanAndDiff, node, bounds
  <2> QED  BY <2>1
<1>4. ASSUME NEW faulty \in BOOLEAN, Ensure(faulty)  PROVE  CountTypes'
  <2>1. /\ pc = "ensure" /\ UNCHANGED <<nodeType, intent, pass, deliveries>>
        /\ faults' = faults \/ (faults < MaxFaults /\ faults' = faults + 1)
    BY <1>4 DEF Ensure, node
  <2> QED  BY <1>0, <2>1, SMT
<1>5. ASSUME NEW o, ApplyOne(o)  PROVE  CountTypes'
  <2>1. /\ UNCHANGED <<nodeType, intent, pass, deliveries, pc>>
        /\ faults' = faults \/ (faults < MaxFaults /\ faults' = faults + 1)
    BY <1>5 DEF ApplyOne, node
  <2> QED  BY <1>0, <2>1, SMT
<1>6. CASE EndPass
  <2>1. /\ pc = "apply" /\ UNCHANGED <<nodeType, intent, deliveries, faults>>
        /\ pass' = pass \/ (pass < MaxPasses /\ pass' = pass + 1)
    BY <1>6 DEF EndPass, node, bounds
  <2> QED  BY <1>0, <2>1, SMT
<1>7. CASE Drift  BY <1>0, <1>7, SMT DEF Drift, node, call
<1>8. ASSUME NEW started \in BOOLEAN, Restart(started)  PROVE  CountTypes'
  BY <1>0, <1>8, SMT DEF Restart, node
<1>9. CASE UNCHANGED vars  BY <1>9 DEF vars, node, call, bounds
<1> HIDE DEF CountTypes, Reconciling
<1> QED
  BY <1>1, <1>2, <1>3, <1>4, <1>5, <1>6, <1>7, <1>8, <1>9 DEF Next, Step

\* Every step preserves DiffTypes: what Diff removes has no wanted key, what it
\* adds has one.
LEMMA DiffTypesStep ==
    ASSUME DiffTypes, [Next]_vars
    PROVE  DiffTypes'
<1>0. AreApart(NoDiff)  BY DEF NoDiff, AreApart
<1>1. ASSUME NEW c, NEW b, NEW e \in {"none", "plan", "ensure", "passes"}, Return(c, b, e)
      PROVE  DiffTypes'
  BY <1>0, <1>1 DEF Return, DiffTypes
<1>2. CASE UNCHANGED <<todo, report>>  BY <1>2 DEF DiffTypes
<1>3. ASSUME NEW rank, PlanAndDiff(rank)  PROVE  DiffTypes'
  <2> DEFINE diff == Diff(RenderFIB(fib), desired')
  <2>1. Return(TRUE, TRUE, "none") \/ (todo' = diff /\ report' = report)
    BY <1>3 DEF PlanAndDiff
  <2>2. AreApart(diff)  BY DEF Diff, Keys, AreApart
  <2> HIDE DEF diff
  <2> QED  BY <1>1, <2>1, <2>2 DEF DiffTypes
<1>4. ASSUME NEW o, ApplyOne(o)  PROVE  DiffTypes'
  <2>1. PICK r : \/ todo' = [todo EXCEPT !.remove = @ \ {r}]
                 \/ todo' = [todo EXCEPT !.add = @ \ {r}]
    BY <1>4 DEF ApplyOne
  <2>2. AreApart(todo')  BY <2>1 DEF DiffTypes, AreApart
  <2>3. report' = report  BY <1>4 DEF ApplyOne
  <2> QED  BY <2>2, <2>3 DEF DiffTypes
<1>5. ASSUME NEW started \in BOOLEAN, Restart(started)  PROVE  DiffTypes'
  <2>1. todo' = NoDiff /\ report' = NoReport  BY <1>5 DEF Restart
  <2> QED  BY <1>0, <2>1 DEF DiffTypes, NoReport
<1>6. ASSUME NEW faulty \in BOOLEAN, PlanFails(faulty)  PROVE  DiffTypes'
  BY <1>1, <1>6 DEF PlanFails
<1>7. ASSUME NEW faulty \in BOOLEAN, Ensure(faulty)  PROVE  DiffTypes'
  <2>1. Return(FALSE, TRUE, "ensure") \/ UNCHANGED <<todo, report>>  BY <1>7 DEF Ensure
  <2> QED  BY <1>1, <1>2, <2>1
<1>8. CASE EndPass
  <2>1. Return(FALSE, TRUE, "passes") \/ UNCHANGED <<todo, report>>  BY <1>8 DEF EndPass
  <2> QED  BY <1>1, <1>2, <2>1
<1>9. CASE UNCHANGED vars  BY <1>2, <1>9 DEF vars, call
<1>10. ASSUME NEW i \in Intents, Deliver(i)  PROVE  DiffTypes'
  BY <1>2, <1>10 DEF Deliver
<1>11. CASE Drift  BY <1>2, <1>11 DEF Drift, call
<1> QED
  BY <1>3, <1>4, <1>5, <1>6, <1>7, <1>8, <1>9, <1>10, <1>11 DEF Next, Step

\* CountTypes and DiffTypes are invariants.
LEMMA TypesInvariant == Spec => [](CountTypes /\ DiffTypes)
<1>1. Init => CountTypes  BY ReconcilerConstants, SMT DEF Init, CountTypes, Reconciling
<1>2. Init => DiffTypes  BY SMT DEF Init, DiffTypes, AreApart, NoDiff, NoReport
<1> QED  BY <1>1, <1>2, CountTypesStep, DiffTypesStep, PTL DEF Spec

\* The types of the reconciler's state, for every kernel it may find: there are
\* never more passes than MaxPasses, a diff never asks for one resource to be
\* removed and added, and no operation, failure or deletion by another program
\* leaves two objects with one key, which Diff would take for one.
THEOREM ReconcilerTyped == Spec => []TypeOK
<1>1. CallInv /\ CountTypes /\ DiffTypes /\ SoundInv => TypeOK
  <2> SUFFICES ASSUME CallInv, CountTypes, DiffTypes, SoundInv  PROVE  TypeOK
    OBVIOUS
  <2>1. ASSUME NEW x \in fib, NEW y \in fib, x.kind # "rule", Key(x) = Key(y)  PROVE  x = y
    <3>1. x.kind \in Kinds /\ y.kind \in Kinds  BY DEF SoundInv, Tidy
    <3>2. Place(x) = Place(y)  BY <2>1, <3>1, KeyIsFiner
    <3> QED  BY <3>2 DEF SoundInv, Tidy, OnePerPlace
  <2> QED  BY <2>1, ReconcilerConstants DEF TypeOK, CallInv, Reconciling, CountTypes, DiffTypes, AreApart
<1> QED  BY <1>1, TypesInvariant, CallInvariant, SoundInvariant, PTL


-----------------------------------------------------------------------------
\* What a Reconcile that nothing is in the way of wants: the order of the
\* tenants does not matter when no two of them share a table.
Wanted(i) == Render(i, [t \in Tenants |-> 0])

\* When no two tenants share a table, Render does not depend on their order.
LEMMA OrderDoesNotMatter ==
    ASSUME NEW i \in Intents, NEW rank \in Ranks(i),
           \A r, s \in Kind(Render(i, rank), "vrf") : r.table = s.table => r = s
    PROVE  Render(i, rank) = Wanted(i)
<1>1. CASE i.nodeType = "cpe"  BY <1>1 DEF Render, Wanted
<1>2. CASE i.nodeType = "pe"
  <2> DEFINE pe == i.body
             T == DOMAIN pe.tenants
             zero == [t \in Tenants |-> 0]
  <2>1. T \subseteq Tenants /\ MaxTenants \in Nat  BY <1>2, ReconcilerConstants
  <2>2. \A t \in T : rank[t] \in Nat
    <3>1. rank \in [T -> 1..MaxTenants]  BY <1>2 DEF Ranks, Orders
    <3> QED  BY <2>1, <3>1, SMT
  <2>3. Render(i, rank) = RenderPEIntent(pe, rank) /\ Wanted(i) = RenderPEIntent(pe, zero)
    BY <1>2 DEF Render, Wanted
  <2>4. ASSUME NEW t \in T, NEW u \in T, tableOf[t] = tableOf[u]  PROVE  t = u
    <3>1. \A v \in T : VRF(VrfName(v), tableOf[v]) \in Kind(Render(i, rank), "vrf")
      <4>1. \A v \in T : VRF(VrfName(v), tableOf[v]) \in Render(i, rank)
        BY <2>3, SMT DEF RenderPEIntent, RenderTenant
      <4>2. \A v \in T : VRF(VrfName(v), tableOf[v]).kind = "vrf"  BY DEF VRF, VRFDevice
      <4> QED  BY <4>1, <4>2 DEF Kind
    <3>2. \A v : /\ VRF(VrfName(v), tableOf[v]).table = tableOf[v]
                 /\ VRF(VrfName(v), tableOf[v]).name = VrfName(v)
      BY DEF VRF, VRFDevice
    <3>3. VRF(VrfName(t), tableOf[t]) = VRF(VrfName(u), tableOf[u])
      BY <2>4, <3>1, <3>2
    <3>4. VrfName(t) = VrfName(u)  BY <3>2, <3>3
    <3> QED  BY <3>4 DEF VrfName
  <2>5. ASSUME NEW t \in T, NEW c
        PROVE  ~TableIsTaken(pe, rank, t, c) /\ ~TableIsTaken(pe, zero, t, c)
    <3>1. \A u \in T : ~(rank[u] < rank[t] /\ tableOf[u] = tableOf[t])  BY <2>2, <2>4, SMT
    <3>2. \A u \in T : ~(zero[u] < zero[t])  BY <2>1, SMT
    <3> QED  BY <3>1, <3>2 DEF TableIsTaken
  <2>6. ASSUME NEW t \in T  PROVE  RenderSRRoutes(pe, rank, t) = RenderSRRoutes(pe, zero, t)
    <3>1. {p \in pe.tenants[t].paths : ~TableIsTaken(pe, rank, t, p.color)} =
             {p \in pe.tenants[t].paths : ~TableIsTaken(pe, zero, t, p.color)}
      BY <2>5
    <3> QED  BY <3>1 DEF RenderSRRoutes
  <2>7. ASSUME NEW t \in T  PROVE  RenderRules(pe, rank, t) = RenderRules(pe, zero, t)
    <3>1. \A u \in T : ~(rank[u] > rank[t] /\ tableOf[u] = tableOf[t])  BY <2>2, <2>4, SMT
    <3>2. \A u \in T : ~(zero[u] > zero[t])  BY <2>1, SMT
    <3> DEFINE C(k) == {c \in Colors(pe, t) :
                          ~\E u \in T : k[u] > k[t] /\ tableOf[u] = tableOf[t] /\ c \in Colors(pe, u)}
    <3>3. C(rank) = Colors(pe, t) /\ C(zero) = Colors(pe, t)  BY <3>1, <3>2
    <3>4. C(rank) = C(zero)  BY <3>3
    <3> QED  BY <3>4 DEF RenderRules
  <2>8. ASSUME NEW t \in T  PROVE  RenderTenant(pe, rank, t) = RenderTenant(pe, zero, t)
    BY <2>6, <2>7 DEF RenderTenant
  <2>9. RenderPEIntent(pe, rank) = RenderPEIntent(pe, zero)
    <3>1. {RenderTenant(pe, rank, t) : t \in T} = {RenderTenant(pe, zero, t) : t \in T}
      BY <2>8
    <3> QED  BY <3>1 DEF RenderPEIntent
  <2> QED  BY <2>3, <2>9
<1> QED  BY <1>1, <1>2, ReconcilerConstants

\* The shape of a rendered intent: every resource is complete, a tunnel has its
\* VRF if it wants one, a route its tunnel, and a SID its VRF.
FitsIn(r, W) ==
    \/ r.kind = "vrf" /\ r = VRF(r.name, r.table)
    \/ /\ r.kind = "xfrm" /\ r = XFRM(r.name, r.ifid, r.master)
       /\ r.master = NoDev \/ \E v \in Kind(W, "vrf") : v.name = r.master
    \/ /\ r.kind = "route" /\ r = Route(r.table, r.dst, r.dev)
       /\ \E x \in Kind(W, "xfrm") :
            /\ x.name = r.dev
            /\ \/ Kind(W, "vrf") = {}
               \/ \E v \in Kind(W, "vrf") : v.table = r.table /\ x.master = v.name
    \/ /\ r.kind = "sid" /\ r = SID(r.sid, r.table)
       /\ \E v \in Kind(W, "vrf") : v.table = r.table
    \/ r.kind = "sr_route" /\ r = SRRoute(r.prefix, r.segments, r.table)
    \/ r.kind = "rule" /\ IsRule(r)
    \/ r.kind = "classification" /\ r = Classification(r.classifier, r.mark)

IsRendered(W) == \A r \in W : FitsIn(r, W)

\* The fields of a VRF that is wanted.
LEMMA VRFFields ==
    \A n, tb : /\ VRF(n, tb).kind = "vrf" /\ VRF(n, tb).name = n /\ VRF(n, tb).table = tb
               /\ VRF(n, tb).owned = TRUE /\ VRF(n, tb).up = TRUE
BY DEF VRF, VRFDevice

\* RenderCPEIntent and RenderPEIntent render such a set.
LEMMA RenderIsRendered ==
    ASSUME NEW i \in Intents, NEW rank
    PROVE  IsRendered(Render(i, rank))
<1> DEFINE W == Render(i, rank)
<1>1. CASE i.nodeType = "cpe"
  <2> DEFINE cpe == i.body
             x == XFRM(CPETunnelName(cpe.tenant), cpe.ifid, NoDev)
             rt == Route(CPETunnelTable, DefaultPrefix, CPETunnelName(cpe.tenant))
             ru == Rule(100, cpe.prefix, CPETunnelTable, 0, NoDev)
  <2>1. W = {} \/ W = {x, rt, ru}  BY <1>1 DEF Render, RenderCPEIntent
  <2>2. /\ x.kind = "xfrm" /\ x.name = CPETunnelName(cpe.tenant) /\ x.master = NoDev
        /\ x = XFRM(x.name, x.ifid, x.master)
    BY XFRMFields, SMT
  <2>3. /\ rt.kind = "route" /\ rt.dev = CPETunnelName(cpe.tenant)
        /\ rt = Route(rt.table, rt.dst, rt.dev)
    BY RouteFields, SMT
  <2>4. ru.kind = "rule" /\ IsRule(ru)  BY RuleFields, SMT
  <2> HIDE DEF x, rt, ru, W
  <2>5. CASE W = {x, rt, ru}
    <3>1. Kind(W, "vrf") = {} /\ x \in Kind(W, "xfrm")  BY <2>2, <2>3, <2>4, <2>5 DEF Kind
    <3>2. IsRendered(W)
      <4>1. FitsIn(x, W)  BY <2>2 DEF FitsIn
      <4>2. FitsIn(ru, W)  BY <2>4 DEF FitsIn
      <4>3. FitsIn(rt, W)  BY <2>2, <2>3, <3>1 DEF FitsIn
      <4> QED  BY <2>5, <4>1, <4>2, <4>3 DEF IsRendered
    <3> QED  BY <3>2 DEF W
  <2>6. CASE W = {}
    <3>1. IsRendered(W)  BY <2>6 DEF IsRendered
    <3> QED  BY <3>1 DEF W
  <2> QED  BY <2>1, <2>5, <2>6
<1>2. CASE i.nodeType = "pe"
  <2> DEFINE pe == i.body
             T == DOMAIN pe.tenants
             V(t) == VRF(VrfName(t), tableOf[t])
  <2>1. W = {Classification(c.dscp, c.color) : c \in pe.classes}
             \cup UNION {RenderTenant(pe, rank, t) : t \in T}
    BY <1>2 DEF Render, RenderPEIntent
  <2>2. ASSUME NEW t \in T  PROVE  V(t) \in Kind(W, "vrf")
    <3>1. V(t) \in RenderTenant(pe, rank, t)  BY DEF RenderTenant
    <3>2. V(t).kind = "vrf"  BY VRFFields, SMT
    <3> HIDE DEF V, W
    <3> QED  BY <2>1, <3>1, <3>2 DEF Kind
  <2> SUFFICES ASSUME NEW r \in W  PROVE  FitsIn(r, W)
    BY DEF IsRendered
  <2> HIDE DEF W
  <2>3. CASE \E c \in pe.classes : r = Classification(c.dscp, c.color)
    <3>1. PICK c \in pe.classes : r = Classification(c.dscp, c.color)  BY <2>3
    <3>2. r.kind = "classification" /\ r.classifier = c.dscp /\ r.mark = c.color
      BY <3>1, ClassificationFields
    <3> QED  BY <3>1, <3>2 DEF FitsIn
  <2>4. ASSUME NEW t \in T, r \in RenderTenant(pe, rank, t)  PROVE  FitsIn(r, W)
    <3> DEFINE tenant == pe.tenants[t]
    <3>0. /\ V(t) \in Kind(W, "vrf") /\ V(t).name = VrfName(t) /\ V(t).table = tableOf[t]
      BY <2>2, VRFFields
    <3>1. CASE r = V(t)
      <4>1. r.kind = "vrf" /\ r.name = VrfName(t) /\ r.table = tableOf[t]
        BY <3>1, VRFFields
      <4> QED  BY <3>1, <4>1 DEF FitsIn
    <3>2. CASE \E s \in tenant.sid : r = SID(s, tableOf[t])
      <4>1. r.kind = "sid" /\ r = SID(r.sid, r.table) /\ r.table = tableOf[t]  BY <3>2, SIDFields, SMT
      <4> QED  BY <3>0, <4>1 DEF FitsIn
    <3>3. CASE \E p \in tenant.portals : r = XFRM(TunnelName(t, p.ifid), p.ifid, VrfName(t))
      <4>1. r.kind = "xfrm" /\ r = XFRM(r.name, r.ifid, r.master) /\ r.master = VrfName(t)
        BY <3>3, XFRMFields, SMT
      <4> QED  BY <3>0, <4>1 DEF FitsIn
    <3>4. CASE \E p \in tenant.portals : r = Route(tableOf[t], p.prefix, TunnelName(t, p.ifid))
      <4>1. PICK p \in tenant.portals : r = Route(tableOf[t], p.prefix, TunnelName(t, p.ifid))
        BY <3>4
      <4> DEFINE x == XFRM(TunnelName(t, p.ifid), p.ifid, VrfName(t))
      <4>2. x \in RenderTenant(pe, rank, t)  BY DEF RenderTenant
      <4>3. x.kind = "xfrm" /\ x.name = TunnelName(t, p.ifid) /\ x.master = VrfName(t)
        BY XFRMFields, SMT
      <4> HIDE DEF x
      <4>4. x \in Kind(W, "xfrm")  BY <2>1, <4>2, <4>3 DEF Kind
      <4>5. /\ r.kind = "route" /\ r = Route(r.table, r.dst, r.dev)
            /\ r.table = tableOf[t] /\ r.dev = TunnelName(t, p.ifid)
        BY <4>1, RouteFields, SMT
      <4> QED  BY <3>0, <4>3, <4>4, <4>5 DEF FitsIn
    <3>5. CASE r \in RenderSRRoutes(pe, rank, t)
      <4>1. PICK a, b, c : r = SRRoute(a, b, c)  BY <3>5 DEF RenderSRRoutes
      <4>2. r.kind = "sr_route" /\ r.prefix = a /\ r.segments = b /\ r.table = c
        BY <4>1, SRRouteFields, SMT
      <4> QED  BY <4>1, <4>2 DEF FitsIn
    <3>6. CASE r \in RenderRules(pe, rank, t)
      <4>1. PICK a, b, c, d, e : r = Rule(a, b, c, d, e)  BY <3>6 DEF RenderRules
      <4>2. r.kind = "rule" /\ IsRule(r)  BY <4>1, RuleFields, SMT
      <4> QED  BY <4>2 DEF FitsIn
    <3> HIDE DEF V
    <3> QED  BY <2>4, <3>1, <3>2, <3>3, <3>4, <3>5, <3>6 DEF RenderTenant, V
  <2>5. (\E t \in T : r \in RenderTenant(pe, rank, t))
          \/ \E c \in pe.classes : r = Classification(c.dscp, c.color)
    BY <2>1
  <2> QED  BY <2>3, <2>4, <2>5
<1> QED  BY <1>1, <1>2, ReconcilerConstants

-----------------------------------------------------------------------------
\* What Favourable says of the wanted resources alone; the rules' keys follow.
Compatible(W) ==
    /\ OnePerPlace(W)
    /\ \A r, s \in W : Key(r) = Key(s) => r = s
    /\ \A r, s \in Kind(W, "vrf") : r.table = s.table => r = s
    /\ \A r, s \in Kind(W, "xfrm") : r.ifid = s.ifid => r = s
    /\ \A r \in W : r.kind \in {"rule", "sr_route"} => KernelTable(r.table) = r.table
    /\ \A r \in Kind(W, "sr_route") : r.segments # <<>>

\* Of the kernel: a VRF of another program is not in the way.
IsBystander(v, W) ==
    \A r \in W : Place(r) # Place(v) /\ (r.kind \in {"vrf", "route"} => r.table # v.table)

Queued(q) == {Classification(q[n].key[1], q[n].mark) : n \in 1..Len(q)}

Unhindered(f, W) ==
    /\ \A r \in W, x \in f : Key(x) = Key(r) => x = r
    /\ \A v \in Kind(f, "vrf") : ~v.owned => IsBystander(v, W)
    /\ Kind(f, "classification") \subseteq W

OnlyAdds(q, W) == Queued(q) \subseteq W /\ \A n \in 1..Len(q) : q[n].op = "add"

CatchAlls(W) == {vrfCatchAll(v.table) : v \in Kind(W, "vrf")}

\* x is still to be removed; a tunnel may have lost its master since.
IsLeft(x, rem) ==
    \/ x \in rem
    \/ /\ x.kind = "xfrm"
       /\ \E y \in rem : y.kind = "xfrm" /\ y.name = x.name /\ y.ifid = x.ifid

\* The diff that is being applied.
IsDiff(d, W) ==
    /\ d.add \subseteq W
    /\ \A r \in d.remove :
         /\ r.kind \in Kinds \ {"classification"} /\ Key(r) \notin Keys(W)
         /\ (r.kind = "vrf" => r.owned) /\ (r.kind = "rule" => IsRule(r))

\* The first pass builds the links and queues the classes.
FirstPass(f, q, d, W) ==
    /\ \A x \in RenderFIB(f) : x \in W \/ x \in CatchAlls(W) \/ IsLeft(x, d.remove)
    /\ \A r \in d.remove, x \in f :
         r.kind = "xfrm" /\ x.kind = "xfrm" /\ x.name = r.name => x.ifid = r.ifid
    /\ Links(W) \subseteq f \cup d.add
    /\ Kind(W, "classification") \subseteq f \cup d.add \cup Queued(q)

\* Between the first and the second pass.
LinksAreBuilt(f, q, W) ==
    /\ RenderFIB(f) \subseteq W \cup CatchAlls(W)
    /\ Links(W) \subseteq f
    /\ Kind(W, "classification") \subseteq f \cup Queued(q)

\* The second pass removes catch-alls and adds what went with an old link.
SecondPass(f, d, W) ==
    /\ RenderFIB(f) \subseteq W \cup d.remove
    /\ \A r \in d.remove : r \in f /\ r.kind = "route"
    /\ \A r \in d.add : r.kind \notin {"vrf", "xfrm"}
    /\ Links(W) \subseteq f
    /\ \A r \in W : r.kind # "classification" => r \in f \cup d.add

\* A sound kernel that is not in the way of W.
Clear(f, W) ==
    /\ IsRendered(W) /\ Compatible(W) /\ Unhindered(f, W)
    /\ Tidy(f) /\ LinksAreSound(f)

\* The kinds, and the fields of the wanted links.
LEMMA WantedKinds ==
    ASSUME NEW W, IsRendered(W), NEW r \in W
    PROVE  /\ r.kind \in Kinds
           /\ r.kind = "vrf" => r.owned = TRUE /\ r.up = TRUE
           /\ r.kind = "xfrm" => r.up = TRUE
<1>1. r.kind \in Kinds  BY DEF IsRendered, FitsIn, Kinds
<1>2. CASE r.kind = "vrf"
  <2>1. r = VRF(r.name, r.table)  BY <1>2 DEF IsRendered, FitsIn
  <2> QED  BY <1>1, <1>2, <2>1, VRFFields, SMT
<1>3. CASE r.kind = "xfrm"
  <2>1. r = XFRM(r.name, r.ifid, r.master)  BY <1>3 DEF IsRendered, FitsIn
  <2> QED  BY <1>1, <1>3, <2>1, XFRMFields, SMT
<1> QED  BY <1>1, <1>2, <1>3

\* A route with a wanted key is the wanted one.
LEMMA WantedRoute ==
    ASSUME NEW W, IsRendered(W), NEW tb, NEW d, NEW dev, Key(Route(tb, d, dev)) \in Keys(W)
    PROVE  Route(tb, d, dev) \in W
<1> DEFINE y == Route(tb, d, dev)
<1>1. y.kind = "route" /\ y.table = tb /\ y.dst = d /\ y.dev = dev  BY RouteFields, SMT
<1>2. PICK r \in W : Key(r) = Key(y)  BY DEF Keys
<1>3. r.kind \in Kinds  BY WantedKinds
<1> HIDE DEF y
<1>4. r.kind = "route" /\ r.table = tb /\ r.dst = d /\ r.dev = dev
  BY <1>1, <1>2, <1>3, SameKey, SMT DEF Kinds
<1>5. r = Route(r.table, r.dst, r.dev)  BY <1>4 DEF IsRendered, FitsIn
<1> QED  BY <1>4, <1>5

\* Nothing comes in the way when only wanted objects, and others with keys that
\* are not wanted, are put into the kernel.
LEMMA StaysUnhindered ==
    ASSUME NEW f, NEW g, NEW W, Compatible(W), Unhindered(f, W), IsRendered(W),
           \A x \in g : \/ x \in f \/ x \in W
                        \/ Key(x) \notin Keys(W) /\ x.kind \notin {"vrf", "classification"}
    PROVE  Unhindered(g, W)
<1>1. ASSUME NEW r \in W, NEW x \in g, Key(x) = Key(r)  PROVE  x = r
  <2>1. Key(x) \in Keys(W)  BY <1>1 DEF Keys
  <2> QED  BY <1>1, <2>1 DEF Unhindered, Compatible
<1>2. ASSUME NEW v \in Kind(g, "vrf"), ~v.owned  PROVE  IsBystander(v, W)
  <2>1. v \in g /\ v.kind = "vrf"  BY DEF Kind
  <2>2. v \notin W  BY <1>2, <2>1, WantedKinds
  <2>3. v \in Kind(f, "vrf")  BY <2>1, <2>2 DEF Kind
  <2> QED  BY <1>2, <2>3 DEF Unhindered
<1>3. Kind(g, "classification") \subseteq W  BY DEF Kind, Unhindered
<1> QED  BY <1>1, <1>2, <1>3 DEF Unhindered

\* What the removal of r does to f, as far as the first pass is concerned.  A
\* tunnel may come out of it without its master.
Removes(f, g, r, W) ==
    /\ \A x \in g :
         \/ x \in f
         \/ /\ x.kind = "xfrm"
            /\ \E y \in f : /\ y.kind = "xfrm" /\ y.name = x.name /\ y.ifid = x.ifid
                            /\ Key(y) \notin Keys(W)
    /\ Links(W) \cap f \subseteq g
    /\ Kind(f, "classification") \subseteq g
    /\ r \notin g
    /\ \A x \in g : ~(r.kind = "xfrm" /\ x.kind = "xfrm" /\ x.name = r.name /\ x.ifid = r.ifid)

\* The deletion of a link that is not wanted.
LEMMA LinkDelRemoves ==
    ASSUME NEW f, NEW W, Clear(f, W), NEW link \in f, link.kind \in {"vrf", "xfrm"},
           Key(link) \notin Keys(W)
    PROVE  Removes(f, LinkDel(f, link), link, W)
<1> DEFINE slaves == {x \in Kind(f, "xfrm") : link.kind = "vrf" /\ x.master = link.name}
           free(x) == [x EXCEPT !.master = NoDev]
           g == LinkDel(f, link)
<1>1. \A x \in f : x.kind \in Kinds  BY DEF Clear, Tidy
<1>2. ASSUME NEW x \in slaves
      PROVE  /\ x \in f /\ x.kind = "xfrm"
             /\ free(x).kind = "xfrm" /\ free(x).name = x.name /\ free(x).ifid = x.ifid
             /\ x.master = NoDev => free(x) = x
  <2>1. IsXFRM(x) /\ x.kind = "xfrm" /\ x \in f  BY DEF LinksAreSound, Kind, Clear
  <2>2. free(x) = [kind |-> "xfrm", name |-> x.name, ifid |-> x.ifid, master |-> NoDev,
                   up |-> x.up]
    BY <2>1, SMT DEF IsXFRM
  <2> QED  BY <2>1, <2>2 DEF IsXFRM
<1>3. ASSUME NEW x \in slaves, Key(x) \in Keys(W)  PROVE  free(x) = x /\ x.master = NoDev
  <2>1. PICK r \in W : Key(x) = Key(r)  BY <1>3 DEF Keys
  <2>2. x \in W  BY <1>2, <2>1 DEF Clear, Unhindered
  <2>3. x.master = NoDev \/ \E v \in Kind(W, "vrf") : v.name = x.master
    BY <1>2, <2>2 DEF Clear, IsRendered, FitsIn
  <2>4. ASSUME NEW v \in Kind(W, "vrf"), v.name = x.master  PROVE  FALSE
    <3>1. v \in W /\ v.kind = "vrf" /\ link.kind = "vrf" /\ link.name = v.name
      BY <2>4 DEF Kind
    <3>2. Key(link) = Key(v)  BY <3>1, SameKey, SMT DEF Kinds
    <3> QED  BY <3>1, <3>2 DEF Keys
  <2> QED  BY <1>2, <2>3, <2>4
<1>4. \A y \in g : (y \in f /\ y # link /\ y \notin slaves) \/ \E x \in slaves : y = free(x)
  BY DEF LinkDel
<1>5. \A x \in f : x \notin slaves /\ x # link /\ x.kind \notin {"route", "sid"} => x \in g
  BY DEF LinkDel
<1>6. \A x \in slaves : free(x) \in g  BY DEF LinkDel
<1>7. \A x \in Links(W) : x \in W /\ x.kind \in {"vrf", "xfrm"} /\ x # link
  BY DEF Links, Kind, Keys
<1>8. \A x \in slaves : link.kind = "vrf"  OBVIOUS
<1> HIDE DEF slaves, free, g
<1>9. Links(W) \cap f \subseteq g
  <2> SUFFICES ASSUME NEW x \in Links(W), x \in f  PROVE  x \in g
    OBVIOUS
  <2>1. CASE x \in slaves
    <3>1. Key(x) \in Keys(W)  BY <1>7 DEF Keys
    <3> QED  BY <2>1, <3>1, <1>3, <1>6
  <2>2. CASE x \notin slaves  BY <2>2, <1>5, <1>7
  <2> QED  BY <2>1, <2>2
<1>10. Kind(f, "classification") \subseteq g
  <2>1. \A x \in Kind(f, "classification") : x \in f /\ x.kind = "classification"  BY DEF Kind
  <2> QED  BY <2>1, <1>2, <1>5
<1>11. ASSUME NEW y \in g
       PROVE  \/ y \in f
              \/ /\ y.kind = "xfrm"
                 /\ \E x \in f : /\ x.kind = "xfrm" /\ x.name = y.name /\ x.ifid = y.ifid
                                 /\ Key(x) \notin Keys(W)
  BY <1>2, <1>3, <1>4, SMT
<1>12. link \notin g  BY <1>2, <1>4, <1>8
<1>13. ASSUME NEW y \in g, link.kind = "xfrm", y.kind = "xfrm", y.name = link.name  PROVE  FALSE
  <2>1. y \in f /\ y # link  BY <1>4, <1>8, <1>13
  <2>2. Place(y) = Place(link)  BY <1>13, SamePlace, SMT DEF Kinds
  <2> QED  BY <2>1, <2>2 DEF Clear, Tidy, OnePerPlace
<1> QED  BY <1>9, <1>10, <1>11, <1>12, <1>13 DEF Removes, g

\* RemoveVRF, of a VRF that Diff found to be unwanted.
LEMMA RemoveVRFRemoves ==
    ASSUME NEW f, NEW W, Clear(f, W), NEW r, r.kind = "vrf", r.owned, Key(r) \notin Keys(W)
    PROVE  Removes(f, RemoveVRF(f, r, "ok"), r, W)
<1> DEFINE mine == {v \in LinkByIndex(f, r) : v.owned}
           v == CHOOSE v \in mine : TRUE
           bare == f \ {vrfCatchAll(v.table)}
           g == LinkDel(bare, v)
<1>1. \A x \in mine : x \in f /\ x.kind = "vrf" /\ x.name = r.name /\ x.owned
  BY DEF LinkByIndex, Kind
<1>2. r \in f => r \in mine  BY DEF LinkByIndex, Kind
<1>3. CASE mine = {}
  <2>1. RemoveVRF(f, r, "ok") = f  BY <1>3 DEF RemoveVRF
  <2>2. r \notin f  BY <1>2, <1>3
  <2> QED  BY <2>1, <2>2 DEF Removes, Kind
<1>4. CASE mine # {}
  <2>1. RemoveVRF(f, r, "ok") = g  BY <1>4 DEF RemoveVRF
  <2>2. v \in mine  BY <1>4
  <2>3. v \in f /\ v.kind = "vrf" /\ v.name = r.name  BY <1>1, <2>2
  <2>4. Key(v) \notin Keys(W)
    <3>1. Key(v) = Key(r)  BY <2>3, SameKey, SMT DEF Kinds
    <3> QED  BY <3>1
  <2>5. vrfCatchAll(v.table).kind = "route"  BY RouteFields, SMT DEF vrfCatchAll
  <2>6. bare \subseteq f /\ \A x \in f : x.kind # "route" => x \in bare  BY <2>5
  <2> HIDE DEF mine, v, bare
  <2>7. v \in bare  BY <2>3, <2>6
  <2>8. Clear(bare, W)
    <3>1. Tidy(bare)  BY <2>6, TidySubset DEF Clear
    <3>2. LinksAreSound(bare)  BY <2>6 DEF Clear, LinksAreSound, Kind
    <3>3. Unhindered(bare, W)  BY <2>6, StaysUnhindered DEF Clear
    <3> QED  BY <3>1, <3>2, <3>3 DEF Clear
  <2>9. Removes(bare, g, v, W)  BY <2>3, <2>4, <2>7, <2>8, LinkDelRemoves
  <2> HIDE DEF g
  <2>10. Links(W) \cap f \subseteq g /\ Kind(f, "classification") \subseteq g
    <3>1. \A x \in Links(W) : x \in f => x \in bare  BY <2>6 DEF Links, Kind
    <3>2. Kind(f, "classification") \subseteq Kind(bare, "classification")  BY <2>6 DEF Kind
    <3> QED  BY <2>9, <3>1, <3>2 DEF Removes
  <2>11. r \notin g
    <3>1. CASE r \in f
      <4>1. Place(v) = Place(r)  BY <2>3, SamePlace, SMT DEF Kinds
      <4>2. v = r  BY <2>3, <3>1, <4>1 DEF Clear, Tidy, OnePerPlace
      <4> QED  BY <2>9, <4>2 DEF Removes
    <3>2. CASE r \notin f  BY <2>6, <2>9, <3>2 DEF Removes
    <3> QED  BY <3>1, <3>2
  <2>12. Removes(f, g, r, W)  BY <2>6, <2>9, <2>10, <2>11 DEF Removes
  <2> QED  BY <2>1, <2>12
<1> QED  BY <1>3, <1>4

\* RemoveXFRMInterface: the tunnel with the name is the one that Diff saw.
LEMMA RemoveXFRMRemoves ==
    ASSUME NEW f, NEW W, Clear(f, W), NEW r, r.kind = "xfrm", Key(r) \notin Keys(W),
           \A x \in f : x.kind = "xfrm" /\ x.name = r.name => x.ifid = r.ifid
    PROVE  Removes(f, RemoveXFRMInterface(f, r, "ok"), r, W)
<1> DEFINE S == LinkByIndex(f, r)
           l == CHOOSE x \in S : TRUE
           g == LinkDel(f, l)
<1>1. \A x \in f : x \in S <=> x.kind = "xfrm" /\ x.name = r.name  BY DEF LinkByIndex, Kind
<1>2. CASE S = {}
  <2>1. RemoveXFRMInterface(f, r, "ok") = f  BY <1>2 DEF RemoveXFRMInterface
  <2> QED  BY <1>1, <1>2, <2>1 DEF Removes, Kind
<1>3. CASE S # {}
  <2>1. RemoveXFRMInterface(f, r, "ok") = g  BY <1>3 DEF RemoveXFRMInterface
  <2>2. l \in S /\ S \subseteq f  BY <1>3 DEF LinkByIndex, Kind
  <2> HIDE DEF S, l
  <2>3. l \in f /\ l.kind = "xfrm" /\ l.name = r.name /\ l.ifid = r.ifid  BY <1>1, <2>2
  <2>4. Key(l) = Key(r)  BY <2>3, SameKey, SMT DEF Kinds
  <2>5. Removes(f, g, l, W)  BY <2>3, <2>4, LinkDelRemoves
  <2> HIDE DEF g
  <2>6. Removes(f, g, r, W)  BY <2>3, <2>5 DEF Removes
  <2> QED  BY <2>1, <2>6
<1> QED  BY <1>2, <1>3

\* The other removals take objects of their own kind only.
LEMMA RemoveObjectRemoves ==
    ASSUME NEW f, NEW g, NEW W, NEW r, r.kind \notin {"vrf", "xfrm", "classification"},
           g \subseteq f, r \notin g, \A x \in f : x.kind # r.kind => x \in g
    PROVE  Removes(f, g, r, W)
<1>1. \A x \in Links(W) : x.kind \in {"vrf", "xfrm"}  BY DEF Links, Kind
<1> QED  BY <1>1 DEF Removes, Kind

\* RemoveResource, in a Reconcile that nothing disturbs.
LEMMA RemovalRemoves ==
    ASSUME NEW W, Clear(fib, W), NEW r, RemoveResource(r, "ok"),
           r.kind \in Kinds \ {"classification"}, Key(r) \notin Keys(W),
           r.kind = "vrf" => r.owned, r.kind = "rule" => IsRule(r),
           \A x \in fib : r.kind = "xfrm" /\ x.kind = "xfrm" /\ x.name = r.name => x.ifid = r.ifid
    PROVE  Removes(fib, fib', r, W) /\ nftQueue' = nftQueue
<1>0. nftQueue' = nftQueue  BY DEF RemoveResource
<1>1. CASE r.kind = "vrf"  BY <1>0, <1>1, RemoveVRFRemoves DEF RemoveResource
<1>2. CASE r.kind = "xfrm"  BY <1>0, <1>2, RemoveXFRMRemoves DEF RemoveResource
<1>3. CASE r.kind = "route"
  <2>1. fib' = {x \in fib : ~(x.kind = "route" /\ x.table = r.table /\ x.dst = r.dst)}
    BY <1>3 DEF RemoveResource, RemovePrefixRoute
  <2> QED  BY <1>0, <1>3, <2>1, RemoveObjectRemoves
<1>4. CASE r.kind = "rule"
  <2>1. fib' = fib \ {r}  BY <1>4 DEF RemoveResource, RemoveRule, IsRule
  <2> QED  BY <1>0, <1>4, <2>1, RemoveObjectRemoves
<1>5. CASE r.kind = "sid"
  <2>1. fib' = {x \in fib : ~(x.kind = "sid" /\ x.sid = r.sid)}
    BY <1>5 DEF RemoveResource, RemoveSID
  <2> QED  BY <1>0, <1>5, <2>1, RemoveObjectRemoves
<1>6. CASE r.kind = "sr_route"
  <2>1. fib' = {x \in fib : ~(x.kind = "sr_route" /\ x.prefix = r.prefix /\ x.table = r.table)}
    BY <1>6 DEF RemoveResource, RemoveSRRouteForPrefix
  <2> QED  BY <1>0, <1>6, <2>1, RemoveObjectRemoves
<1> QED  BY <1>1, <1>2, <1>3, <1>4, <1>5, <1>6 DEF Kinds

-----------------------------------------------------------------------------
\* The phases of one pass, in order.
Phase(p) == CASE p = "plan" -> 1 [] p = "ensure" -> 2 [] p = "apply" -> 3 [] OTHER -> 0

\* A step of Reconcile ends it, begins one of the MaxPasses passes, goes on to
\* the next phase of the pass, or takes resources off the diff.
Ahead ==
    \/ pc' = "idle"
    \/ pass' = pass + 1 /\ pass' <= MaxPasses
    \/ pass' = pass /\ Phase(pc) < Phase(pc')
    \/ /\ UNCHANGED <<pass, pc>> /\ todo' # todo
       /\ todo'.remove \subseteq todo.remove /\ todo'.add \subseteq todo.add

\* No step of Reconcile repeats what was done before, and nothing beside it, a
\* deletion by another program nor an intent that arrives, sets it back.
ReconcileAdvances ==
    [][/\ Step => Ahead
       /\ Reconciling /\ ~Step => ~Reconciling' \/ UNCHANGED <<pass, pc, todo>>]_vars

\* Whatever Diff found, the loops of Apply come to it: there is always a
\* resource whose turn it is, so none is of a kind that the order leaves out and
\* none waits for another for ever.  With ReconcileAdvances this is what
\* ReconcileEnds needs beside the fairness of the goroutine.
ApplyHasNext ==
    pc = "apply" =>
        /\ todo.remove # {} => \E r \in todo.remove : IsNext(r, todo.remove, RemoveOrder)
        /\ todo.add # {} => \E r \in todo.add : IsNext(r, todo.add, AddOrder)

\* Every step of Reconcile goes ahead.
LEMMA StepGoesAhead ==
    ASSUME CountTypes, DiffTypes, Step
    PROVE  Ahead
<1>1. ASSUME NEW faulty \in BOOLEAN, PlanFails(faulty)  PROVE  Ahead
  BY <1>1 DEF PlanFails, Return, Ahead
<1>2. ASSUME NEW rank, PlanAndDiff(rank)  PROVE  Ahead
  <2>1. pc = "plan" /\ pass' = pass /\ pc' \in {"idle", "ensure"}  BY <1>2 DEF PlanAndDiff, Return
  <2> QED  BY <2>1, SMT DEF Ahead, Phase
<1>3. ASSUME NEW faulty \in BOOLEAN, Ensure(faulty)  PROVE  Ahead
  <2>1. pc = "ensure" /\ pass' = pass /\ pc' \in {"idle", "apply"}  BY <1>3 DEF Ensure, Return
  <2> QED  BY <2>1, SMT DEF Ahead, Phase
<1>4. ASSUME NEW o, ApplyOne(o)  PROVE  Ahead
  <2>1. UNCHANGED <<pass, pc>>  BY <1>4 DEF ApplyOne
  <2>2. PICK r : \/ r \in todo.remove /\ todo' = [todo EXCEPT !.remove = @ \ {r}]
                 \/ r \in todo.add /\ todo' = [todo EXCEPT !.add = @ \ {r}]
    BY <1>4 DEF ApplyOne
  <2>3. todo = [remove |-> todo.remove, add |-> todo.add]  BY DEF DiffTypes, AreApart
  <2>4. \/ r \in todo.remove /\ todo'.remove = todo.remove \ {r} /\ todo'.add = todo.add
        \/ r \in todo.add /\ todo'.add = todo.add \ {r} /\ todo'.remove = todo.remove
    BY <2>2, <2>3
  <2> QED  BY <2>1, <2>4 DEF Ahead
<1>5. CASE EndPass
  <2>1. pc' = "idle" \/ (pass < MaxPasses /\ pass' = pass + 1)  BY <1>5 DEF EndPass, Return
  <2> QED  BY <2>1, ReconcilerConstants, SMT DEF Ahead, CountTypes
<1> QED  BY <1>1, <1>2, <1>3, <1>4, <1>5 DEF Step

\* So every Reconcile goes ahead, and is never set back.
THEOREM EveryStepGoesAhead == Spec => ReconcileAdvances
<1> DEFINE Goes == /\ Step => Ahead
                   /\ Reconciling /\ ~Step => ~Reconciling' \/ UNCHANGED <<pass, pc, todo>>
<1>1. CountTypes /\ DiffTypes /\ [Next]_vars => [Goes]_vars
  <2> SUFFICES ASSUME CountTypes, DiffTypes, Next  PROVE  Goes
    OBVIOUS
  <2>1. ASSUME Reconciling, ~Step  PROVE  ~Reconciling' \/ UNCHANGED <<pass, pc, todo>>
    <3>1. ASSUME NEW i, Deliver(i)  PROVE  FALSE  BY <2>1, <3>1 DEF Deliver, Reconciling
    <3>2. ASSUME NEW started, Restart(started)  PROVE  ~Reconciling'
      BY <3>2 DEF Restart, Reconciling
    <3> QED  BY <2>1, <3>1, <3>2 DEF Next, Drift, call
  <2> QED  BY <2>1, StepGoesAhead
<1> QED  BY <1>1, TypesInvariant, PTL DEF Spec, ReconcileAdvances

\* A diff asks only for resources of the kinds there are.
KindsAreKnown == \A r \in todo.remove \cup todo.add : r.kind \in Kinds

\* Of a set of such resources one is the first, in either order.
LEMMA SomeIsNext ==
    ASSUME NEW S, S # {}, \A r \in S : r.kind \in Kinds,
           NEW order \in {RemoveOrder, AddOrder}
    PROVE  \E r \in S : IsNext(r, S, order)
<1>1. /\ order \in Seq(Kinds) /\ Len(order) = 7
      /\ Kinds = {order[1], order[2], order[3], order[4], order[5], order[6], order[7]}
  <2>1. CASE order = RemoveOrder  BY <2>1, SMT DEF RemoveOrder, Kinds
  <2>2. CASE order = AddOrder  BY <2>2, SMT DEF AddOrder, Kinds
  <2> QED  BY <2>1, <2>2
<1> DEFINE Has(n) == \E r \in S : r.kind = order[n]
<1>2. Has(1) \/ Has(2) \/ Has(3) \/ Has(4) \/ Has(5) \/ Has(6) \/ Has(7)  BY <1>1
<1>3. \E n \in 1..7 : Has(n) /\ \A m \in 1..(n - 1) : ~Has(m)
  <2>1. CASE Has(1)  BY <2>1, SMT
  <2>2. CASE ~Has(1) /\ Has(2)  BY <2>2, SMT
  <2>3. CASE ~Has(1) /\ ~Has(2) /\ Has(3)  BY <2>3, SMT
  <2>4. CASE ~Has(1) /\ ~Has(2) /\ ~Has(3) /\ Has(4)  BY <2>4, SMT
  <2>5. CASE ~Has(1) /\ ~Has(2) /\ ~Has(3) /\ ~Has(4) /\ Has(5)  BY <2>5, SMT
  <2>6. CASE ~Has(1) /\ ~Has(2) /\ ~Has(3) /\ ~Has(4) /\ ~Has(5) /\ Has(6)  BY <2>6, SMT
  <2>7. CASE ~Has(1) /\ ~Has(2) /\ ~Has(3) /\ ~Has(4) /\ ~Has(5) /\ ~Has(6) /\ Has(7)  BY <2>7, SMT
  <2> QED  BY <1>2, <2>1, <2>2, <2>3, <2>4, <2>5, <2>6, <2>7
<1>4. PICK n \in 1..7 : Has(n) /\ \A m \in 1..(n - 1) : ~Has(m)  BY <1>3
<1>5. PICK r \in S : r.kind = order[n]  BY <1>4
<1>6. \A s \in S : \A m \in 1..(n - 1) : s.kind # order[m]  BY <1>4
<1> QED  BY <1>1, <1>5, <1>6 DEF IsNext

\* Every step keeps to the kinds there are.
LEMMA KindsStep ==
    ASSUME CallInv, SoundInv, DiffTypes, KindsAreKnown, [Next]_vars
    PROVE  KindsAreKnown'
<1>1. CASE todo' = NoDiff  BY <1>1 DEF KindsAreKnown, NoDiff
<1>2. CASE todo' = todo  BY <1>2 DEF KindsAreKnown
<1>3. ASSUME NEW rank, PlanAndDiff(rank)  PROVE  KindsAreKnown'
  <2>1. todo' = NoDiff \/ todo' = Diff(RenderFIB(fib), Render(intent, rank))
    BY <1>3 DEF PlanAndDiff, Return
  <2>2. \A r \in RenderFIB(fib) : r.kind \in Kinds  BY RenderFIBIs DEF SoundInv, Tidy
  <2>3. intent \in Intents  BY <1>3 DEF PlanAndDiff, CallInv, Reconciling
  <2>4. \A r \in Render(intent, rank) : r.kind \in Kinds  BY <2>3, RenderIsRendered, WantedKinds
  <2> QED  BY <1>1, <2>1, <2>2, <2>4, SMT DEF KindsAreKnown, Diff
<1>4. ASSUME NEW o, ApplyOne(o)  PROVE  KindsAreKnown'
  <2>1. PICK r : \/ todo' = [todo EXCEPT !.remove = @ \ {r}]
                 \/ todo' = [todo EXCEPT !.add = @ \ {r}]
    BY <1>4 DEF ApplyOne
  <2>2. todo = [remove |-> todo.remove, add |-> todo.add]  BY DEF DiffTypes, AreApart
  <2>3. todo'.remove \subseteq todo.remove /\ todo'.add \subseteq todo.add  BY <2>1, <2>2
  <2> QED  BY <2>3 DEF KindsAreKnown
<1>5. ASSUME NEW faulty \in BOOLEAN, PlanFails(faulty)  PROVE  KindsAreKnown'
  BY <1>1, <1>5 DEF PlanFails, Return
<1>6. ASSUME NEW i \in Intents, Deliver(i)  PROVE  KindsAreKnown'
  BY <1>2, <1>6 DEF Deliver
<1>7. ASSUME NEW faulty \in BOOLEAN, Ensure(faulty)  PROVE  KindsAreKnown'
  <2>1. todo' = NoDiff \/ todo' = todo  BY <1>7 DEF Ensure, Return
  <2> QED  BY <1>1, <1>2, <2>1
<1>8. CASE EndPass \/ Drift \/ UNCHANGED vars
  <2>1. todo' = NoDiff \/ todo' = todo  BY <1>8 DEF EndPass, Return, Drift, vars, call
  <2> QED  BY <1>1, <1>2, <2>1
<1>9. ASSUME NEW started \in BOOLEAN, Restart(started)  PROVE  KindsAreKnown'
  BY <1>1, <1>9 DEF Restart
<1> QED  BY <1>3, <1>4, <1>5, <1>6, <1>7, <1>8, <1>9 DEF Next, Step

\* So the loops of Apply empty every diff.
THEOREM ApplyIsNeverStuck == Spec => []ApplyHasNext
<1>1. Init => KindsAreKnown  BY SMT DEF Init, KindsAreKnown, NoDiff
<1>2. KindsAreKnown => ApplyHasNext  BY SomeIsNext DEF KindsAreKnown, ApplyHasNext
<1> QED  BY <1>1, <1>2, KindsStep, CallInvariant, SoundInvariant, TypesInvariant, PTL DEF Spec
===============================================================================
