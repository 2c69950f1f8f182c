-------------------------- MODULE ConvergenceProofs --------------------------
(***************************************************************************)
(* Proofs about Reconciler, continued: passes that nothing disturbs bring  *)
(* the tables to the rendered state, and a reconcile that ends without an  *)
(* error has installed all of it.                                          *)
(***************************************************************************)
EXTENDS ReconcilerProofs

\* Zenon is the prover of every leaf that names no other.
USE Zenon

\* The first pass after one removal: what was freed by it is still left.
LEMMA FirstPassRemoval ==
    ASSUME NEW f, NEW g, NEW q, NEW d, NEW e, NEW W, Clear(f, W), Tidy(g), FirstPass(f, q, d, W),
           NEW r \in d.remove, Removes(f, g, r, W),
           e.remove = d.remove \ {r}, e.add = d.add
    PROVE  FirstPass(g, q, e, W) /\ Unhindered(g, W)
<1>0. /\ RenderFIB(f) = {x \in f : x.kind = "vrf" => x.owned}
      /\ RenderFIB(g) = {x \in g : x.kind = "vrf" => x.owned}
      /\ \A x \in g : x.kind \in Kinds
      /\ \A x \in f : x.kind \in Kinds
  BY RenderFIBIs DEF Clear, Tidy
<1>1. ASSUME NEW x \in g
      PROVE  \/ x \in f
             \/ /\ x.kind = "xfrm"
                /\ \E y \in f : /\ y.kind = "xfrm" /\ y.name = x.name /\ y.ifid = x.ifid
                                /\ Key(y) \notin Keys(W)
  BY DEF Removes
<1>2. ASSUME NEW x \in g, NEW z \in d.remove,
             x.kind = "xfrm", z.kind = "xfrm", z.name = x.name, z.ifid = x.ifid
      PROVE  IsLeft(x, e.remove)
  <2>1. z # r  BY <1>2 DEF Removes
  <2> QED  BY <1>2, <2>1 DEF IsLeft
<1>3. ASSUME NEW x \in RenderFIB(g)
      PROVE  x \in W \/ x \in CatchAlls(W) \/ IsLeft(x, e.remove)
  <2>0. x \in g /\ x # r  BY <1>0 DEF Removes
  <2>1. CASE x \in f
    <3>1. x \in W \/ x \in CatchAlls(W) \/ IsLeft(x, d.remove)
      BY <1>0, <2>1 DEF FirstPass
    <3>2. CASE x \in d.remove  BY <2>0, <3>2 DEF IsLeft
    <3>3. CASE IsLeft(x, d.remove)  BY <1>2, <2>0, <3>2, <3>3 DEF IsLeft
    <3> QED  BY <3>1, <3>3
  <2>2. CASE x \notin f
    <3>1. PICK y \in f : /\ y.kind = "xfrm" /\ y.name = x.name /\ y.ifid = x.ifid
                         /\ Key(y) \notin Keys(W)
      BY <1>1, <2>0, <2>2
    <3>2. y \notin W  BY <3>1 DEF Keys
    <3>3. y \notin CatchAlls(W)  BY <3>1, RouteFields, SMT DEF CatchAlls, vrfCatchAll
    <3>4. IsLeft(y, d.remove)  BY <1>0, <3>1, <3>2, <3>3 DEF FirstPass
    <3>5. x.kind = "xfrm"  BY <1>1, <2>0, <2>2
    <3>6. PICK z \in d.remove : z.kind = "xfrm" /\ z.name = y.name /\ z.ifid = y.ifid
      BY <3>1, <3>4 DEF IsLeft
    <3> QED  BY <1>2, <2>0, <3>1, <3>5, <3>6
  <2> QED  BY <2>1, <2>2
<1>4. ASSUME NEW z \in e.remove, NEW x \in g, z.kind = "xfrm", x.kind = "xfrm", x.name = z.name
      PROVE  x.ifid = z.ifid
  BY <1>1, <1>4 DEF FirstPass
<1>5. Links(W) \subseteq g \cup e.add
  BY DEF FirstPass, Removes
<1>6. Kind(W, "classification") \subseteq g \cup e.add \cup Queued(q)
  <2>1. ASSUME NEW x \in Kind(W, "classification"), x \in f  PROVE  x \in g
    BY <2>1 DEF Kind, Removes
  <2> QED  BY <2>1 DEF FirstPass
<1>7. Unhindered(g, W)
  <2>1. ASSUME NEW x \in g, x \notin f
        PROVE  Key(x) \notin Keys(W) /\ x.kind \notin {"vrf", "classification"}
    <3>1. PICK y \in f : /\ y.kind = "xfrm" /\ y.name = x.name /\ y.ifid = x.ifid
                         /\ Key(y) \notin Keys(W)
      BY <1>1, <2>1
    <3>2. x.kind = "xfrm"  BY <1>1, <2>1
    <3>3. Key(x) = Key(y)  BY <3>1, <3>2, SameKey, SMT DEF Kinds
    <3> QED  BY <3>1, <3>2, <3>3
  <2> QED  BY <2>1, StaysUnhindered, SMT DEF Clear
<1> QED  BY <1>3, <1>4, <1>5, <1>6, <1>7 DEF FirstPass

-----------------------------------------------------------------------------
\* What adding r does to f in the first pass: the links and classes of f stay.
Adds(f, g, r, W) ==
    /\ \A x \in g : x \in f \/ x \in W \/ x \in CatchAlls(W)
    /\ Links(W) \cap f \subseteq g
    /\ Kind(f, "classification") \subseteq g
    /\ r.kind \in {"vrf", "xfrm"} => r \in g

\* When nothing unwanted is left, a link with a wanted name is the wanted one.
LEMMA ExistingLink ==
    ASSUME NEW f, NEW W, Clear(f, W), RenderFIB(f) \subseteq W \cup CatchAlls(W),
           NEW x \in f, x.kind \in {"vrf", "xfrm"}
    PROVE  /\ x \in W \/ (x.kind = "vrf" /\ ~x.owned)
           /\ \A r \in W : r.kind \in {"vrf", "xfrm"} /\ x.name = r.name => x = r
           /\ x.kind = "vrf" =>
                \A r \in Kind(W, "vrf") : x.table = r.table => x = r
           /\ x.kind = "vrf" =>
                \A r \in Kind(W, "route") : x.table = r.table => x \in W
<1>1. x \in W \/ (x.kind = "vrf" /\ ~x.owned)
  <2>1. RenderFIB(f) = {y \in f : y.kind = "vrf" => y.owned}
    BY RenderFIBIs DEF Clear, Tidy
  <2>2. x \notin CatchAlls(W)  BY RouteFields, SMT DEF CatchAlls, vrfCatchAll
  <2> QED  BY <2>1, <2>2
<1>2. x.kind = "vrf" /\ ~x.owned => IsBystander(x, W)
  BY DEF Clear, Unhindered, Kind
<1>3. ASSUME NEW r \in W, r.kind \in {"vrf", "xfrm"}, x.name = r.name  PROVE  x = r
  <2>1. Place(x) = Place(r)  BY <1>3, SamePlace, SMT DEF Kinds
  <2> QED  BY <1>1, <1>2, <2>1 DEF IsBystander, Clear, Compatible, OnePerPlace
<1>4. ASSUME x.kind = "vrf", NEW r \in Kind(W, "vrf"), x.table = r.table  PROVE  x = r
  BY <1>1, <1>2, <1>4 DEF IsBystander, Clear, Compatible, Kind
<1>5. ASSUME x.kind = "vrf", NEW r \in Kind(W, "route"), x.table = r.table  PROVE  x \in W
  BY <1>1, <1>2, <1>5 DEF IsBystander, Kind
<1> QED  BY <1>1, <1>3, <1>4, <1>5

\* UpsertVRF creates the wanted VRF, or finds it, and installs its catch-all.
LEMMA UpsertVRFAdds ==
    ASSUME NEW f, NEW W, Clear(f, W), RenderFIB(f) \subseteq W \cup CatchAlls(W),
           NEW r \in W, r.kind = "vrf"
    PROVE  Adds(f, UpsertVRF(f, r.name, r.table, "ok"), r, W)
<1> DEFINE existing == {x \in Links(f) : x.name = r.name}
           mine == {x \in existing : x.kind = "vrf" /\ x.table = r.table}
           new == VRFDevice(r.name, r.table, FALSE)
           added == IF existing = {} THEN f \cup {new} ELSE f
           raise(x) == IF x.kind = "vrf" /\ x.name = r.name /\ ~x.up
                       THEN [x EXCEPT !.up = TRUE] ELSE x
           raised == {raise(x) : x \in added}
           ca == vrfCatchAll(r.table)
           g == UpsertVRF(f, r.name, r.table, "ok")
<1>1. r = VRF(r.name, r.table) /\ r.up = TRUE  BY WantedKinds DEF Clear, IsRendered, FitsIn
<1>2. \A x \in f : x.kind \in {"vrf", "xfrm"} /\ x.name = r.name => x = r  BY ExistingLink
<1>3. \A x \in existing : x = r /\ x \in f  BY <1>2 DEF Links, Kind
<1>4. r \in f => r \in existing  BY DEF Links, Kind
<1>5. \A x \in f : raise(x) = x  BY <1>1, <1>2
<1>6. existing = {} => raise(new) = r
  <2>1. ASSUME NEW isUp, NEW own, NEW was
        PROVE  [[kind |-> "vrf", name |-> r.name, table |-> r.table, up |-> was, owned |-> own]
                  EXCEPT !.up = isUp] =
                 [kind |-> "vrf", name |-> r.name, table |-> r.table, up |-> isUp, owned |-> own]
    BY SMT
  <2>2. [new EXCEPT !.up = TRUE] = VRF(r.name, r.table)  BY <2>1 DEF VRF, VRFDevice
  <2>3. new.kind = "vrf" /\ new.name = r.name /\ new.up = FALSE  BY DEF VRFDevice
  <2> QED  BY <1>1, <2>2, <2>3
<1> HIDE DEF new, raise
<1>7. raised = f \cup {r}
  <2>1. CASE existing = {}  BY <1>5, <1>6, <2>1
  <2>2. CASE existing # {}
    <3>1. r \in f  BY <1>3, <2>2
    <3> QED  BY <1>5, <2>2, <3>1
  <2> QED  BY <2>1, <2>2
<1>8. existing = {} => vrfByTable(f, r.table) = {}
  <2> SUFFICES ASSUME existing = {}, NEW v \in vrfByTable(f, r.table)  PROVE  FALSE
    OBVIOUS
  <2>1. v \in f /\ v.kind = "vrf" /\ v.table = r.table  BY DEF vrfByTable, Kind
  <2>2. r \in Kind(W, "vrf")  BY DEF Kind
  <2>3. v = r  BY <2>1, <2>2, ExistingLink, SMT
  <2> QED  BY <1>4, <2>1, <2>3
<1>9. existing # {} => mine # {}
  BY <1>3
<1>10. g = RouteReplace(raised, ca)
  BY <1>8, <1>9 DEF UpsertVRF, raise, new
<1>11. ca \in CatchAlls(W) /\ ca.kind = "route"  BY RouteFields, SMT DEF CatchAlls, vrfCatchAll, Kind
<1> HIDE DEF ca, g, raised, existing, mine, added
<1>12. /\ \A x \in g : x \in f \/ x = r \/ x = ca
       /\ \A x \in f : x.kind # "route" => x \in g
       /\ r \in g
  BY <1>7, <1>10 DEF RouteReplace
<1>13. Adds(f, g, r, W)
  BY <1>11, <1>12 DEF Adds, Links, Kind
<1> QED  BY <1>13 DEF g

\* InsertXFRMInterface creates the wanted tunnel in its VRF, or finds it.
LEMMA InsertXFRMAdds ==
    ASSUME NEW f, NEW W, Clear(f, W), RenderFIB(f) \subseteq W \cup CatchAlls(W),
           NEW r \in W, r.kind = "xfrm", Kind(W, "vrf") \subseteq f
    PROVE  Adds(f, InsertXFRMInterface(f, r.name, r.ifid, r.master, "ok"), r, W)
<1> DEFINE g == InsertXFRMInterface(f, r.name, r.ifid, r.master, "ok")
<1>1. r = XFRM(r.name, r.ifid, r.master)  BY DEF Clear, IsRendered, FitsIn
<1>2. g = f \cup {r}
  <2>1. CASE \E x \in Links(f) : x.name = r.name
    <3>1. PICK x \in Links(f) : x.name = r.name  BY <2>1
    <3>2. x \in f /\ x.kind \in {"vrf", "xfrm"}  BY DEF Links, Kind
    <3>3. x = r  BY <3>1, <3>2, ExistingLink
    <3>4. g = f  BY <2>1 DEF InsertXFRMInterface
    <3> QED  BY <3>2, <3>3, <3>4
  <2>2. CASE ~\E x \in Links(f) : x.name = r.name
    <3>1. r.master = NoDev \/ \E v \in Kind(W, "vrf") : v.name = r.master
      BY DEF Clear, IsRendered, FitsIn
    <3>2. r.master = NoDev \/ \E v \in Kind(f, "vrf") : v.name = r.master
      BY <3>1 DEF Kind
    <3>0. ~\E x \in Kind(f, "xfrm") : x.ifid = r.ifid
      <4> SUFFICES ASSUME NEW x \in Kind(f, "xfrm"), x.ifid = r.ifid  PROVE  FALSE
        OBVIOUS
      <4>1. x \in f /\ x.kind = "xfrm"  BY DEF Kind
      <4>2. x \in W  BY <4>1, ExistingLink, SMT
      <4>3. x = r  BY <4>1, <4>2 DEF Clear, Compatible, Kind
      <4> QED  BY <2>2, <4>1, <4>3 DEF Links, Kind
    <3>3. g = f \cup {[XFRM(r.name, r.ifid, r.master) EXCEPT !.up = ("ok" = "ok")]}
      BY <2>2, <3>0, <3>2 DEF InsertXFRMInterface
    <3>4. ("ok" = "ok") = TRUE  OBVIOUS
    <3>5. [XFRM(r.name, r.ifid, r.master) EXCEPT !.up = ("ok" = "ok")] = r
      <4>1. [XFRM(r.name, r.ifid, r.master) EXCEPT !.up = TRUE] = XFRM(r.name, r.ifid, r.master)
        BY GoodTunnel
      <4>2. ASSUME NEW isUp, isUp = TRUE
            PROVE  [XFRM(r.name, r.ifid, r.master) EXCEPT !.up = isUp] = r
        BY <1>1, <4>1, <4>2
      <4> QED  BY <3>4, <4>2
    <3> QED  BY <3>3, <3>5
  <2> QED  BY <2>1, <2>2
<1> HIDE DEF g
<1>3. Adds(f, g, r, W)  BY <1>2 DEF Adds, Links, Kind
<1> QED  BY <1>3 DEF g

\* An object that takes its place, if it is installed at all.
LEMMA ObjectAdds ==
    ASSUME NEW f, NEW g, NEW r, NEW W, r \in W, r.kind \notin {"vrf", "xfrm", "classification"},
           \A x \in g : x \in f \/ x = r, \A x \in f : x.kind # r.kind => x \in g
    PROVE  Adds(f, g, r, W)
<1>1. \A x \in Links(W) : x.kind \in {"vrf", "xfrm"}  BY DEF Links, Kind
<1> QED  BY <1>1 DEF Adds, Kind

\* AddResource in the first pass.
LEMMA AdditionAdds ==
    ASSUME NEW W, Clear(fib, W), RenderFIB(fib) \subseteq W \cup CatchAlls(W),
           NEW r \in W, AddResource(r, "ok"),
           r.kind = "xfrm" => Kind(W, "vrf") \subseteq fib
    PROVE  Adds(fib, fib', r, W)
<1>0. r.kind \in Kinds  BY WantedKinds DEF Clear
<1>1. CASE r.kind = "vrf"  BY <1>1, UpsertVRFAdds DEF AddResource
<1>2. CASE r.kind = "xfrm"  BY <1>2, InsertXFRMAdds DEF AddResource
<1>3. CASE r.kind = "route"
  <2>1. r = Route(r.table, r.dst, r.dev)  BY <1>3 DEF Clear, IsRendered, FitsIn
  <2>2. fib' = fib \/ fib' = RouteReplace(fib, r)
    BY <1>3, <2>1 DEF AddResource, InsertPrefixRoute
  <2> QED  BY <1>3, <2>2, ObjectAdds DEF RouteReplace
<1>4. CASE r.kind = "rule"
  <2>0. KernelTable(r.table) = r.table  BY <1>4 DEF Clear, Compatible
  <2>1. fib' = fib \cup {r}
    BY <1>4, <2>0 DEF Clear, IsRendered, FitsIn, IsRule, AddResource, UpsertRule
  <2> QED  BY <1>4, <2>1, ObjectAdds
<1>5. CASE r.kind = "sid"
  <2>1. r = SID(r.sid, r.table)  BY <1>5 DEF Clear, IsRendered, FitsIn
  <2>2. \/ fib' = fib
        \/ fib' = {x \in fib : ~(x.kind = "sid" /\ x.sid = r.sid)} \cup {r}
    BY <1>5, <2>1 DEF AddResource, UpsertDT46SID
  <2> QED  BY <1>5, <2>2, ObjectAdds
<1>6. CASE r.kind = "sr_route"
  <2>1. r = SRRoute(r.prefix, r.segments, r.table)  BY <1>6 DEF Clear, IsRendered, FitsIn
  <2>2. \/ fib' = fib
        \/ fib' = {x \in fib : ~(x.kind = "sr_route" /\ x.prefix = r.prefix /\ x.table = r.table)}
                    \cup {r}
    <3>1. KernelTable(r.table) = r.table  BY <1>6 DEF Clear, Compatible
    <3> QED  BY <1>6, <2>1, <3>1 DEF AddResource, InsertSRRouteForPrefix
  <2> QED  BY <1>6, <2>2, ObjectAdds
<1>7. CASE r.kind = "classification"
  <2>1. fib' = fib  BY <1>7 DEF AddResource
  <2> QED  BY <1>7, <2>1 DEF Adds, Kind
<1> QED  BY <1>0, <1>1, <1>2, <1>3, <1>4, <1>5, <1>6, <1>7 DEF Kinds

\* A wanted class is queued, anything else leaves the batch alone.
LEMMA AdditionQueues ==
    ASSUME NEW W, IsRendered(W), BatchIsSound(nftQueue), OnlyAdds(nftQueue, W),
           NEW r \in W, AddResource(r, "ok")
    PROVE  /\ OnlyAdds(nftQueue', W)
           /\ Queued(nftQueue) \subseteq Queued(nftQueue')
           /\ r.kind = "classification" => r \in Queued(nftQueue')
<1>1. CASE r.kind # "classification"
  BY <1>1 DEF AddResource
<1>2. CASE r.kind = "classification"
  <2> DEFINE e == [op |-> "add", key |-> <<r.classifier>>, mark |-> r.mark]
             q == nftQueue
             p == Append(q, e)
  <2>1. nftQueue' = p  BY <1>2 DEF AddResource, InsertClassification
  <2>2. PICK S : q \in Seq(S)  BY DEF BatchIsSound
  <2>3. /\ Len(p) = Len(q) + 1 /\ Len(q) \in Nat
        /\ \A n \in 1..Len(q) : p[n] = q[n]
        /\ p[Len(q) + 1] = e
    BY <2>2, SMT
  <2>4. e.op = "add" /\ Classification(e.key[1], e.mark) = r
    BY <1>2 DEF IsRendered, FitsIn
  <2> HIDE DEF e, p, q
  <2>5. \A n \in 1..Len(p) : n \in 1..Len(q) \/ n = Len(q) + 1  BY <2>3, SMT
  <2>6. 1..Len(q) \subseteq 1..Len(p) /\ Len(q) + 1 \in 1..Len(p)  BY <2>3, SMT
  <2>7. Queued(q) \subseteq Queued(p) /\ r \in Queued(p) /\ Queued(p) \subseteq Queued(q) \cup {r}
    BY <2>3, <2>4, <2>5, <2>6 DEF Queued
  <2>8. OnlyAdds(p, W)  BY <2>3, <2>4, <2>5, <2>7 DEF OnlyAdds, q
  <2> QED  BY <2>1, <2>7, <2>8 DEF q
<1> QED  BY <1>1, <1>2

\* The first pass after one addition.
LEMMA FirstPassAddition ==
    ASSUME NEW f, NEW g, NEW q, NEW p, NEW d, NEW e, NEW W, Clear(f, W), Tidy(g),
           FirstPass(f, q, d, W), d.remove = {},
           NEW r \in d.add, d.add \subseteq W, Adds(f, g, r, W), Queued(q) \subseteq Queued(p),
           r.kind = "classification" => r \in Queued(p),
           e.remove = {}, e.add = d.add \ {r}
    PROVE  FirstPass(g, p, e, W) /\ Unhindered(g, W)
<1>0. /\ RenderFIB(f) = {x \in f : x.kind = "vrf" => x.owned}
      /\ RenderFIB(g) = {x \in g : x.kind = "vrf" => x.owned}
  BY RenderFIBIs DEF Clear, Tidy
<1>1. ASSUME NEW x \in RenderFIB(g)
      PROVE  x \in W \/ x \in CatchAlls(W) \/ IsLeft(x, e.remove)
  BY <1>0 DEF Adds, FirstPass, IsLeft
<1>2. Links(W) \subseteq g \cup e.add
  <2>1. ASSUME NEW x \in Links(W)  PROVE  x \in g \/ x \in e.add
    <3>1. x.kind \in {"vrf", "xfrm"}  BY DEF Links, Kind
    <3> QED  BY <3>1 DEF FirstPass, Adds
  <2> QED  BY <2>1
<1>3. Kind(W, "classification") \subseteq g \cup e.add \cup Queued(p)
  <2>1. ASSUME NEW x \in Kind(W, "classification")
        PROVE  x \in g \/ x \in e.add \/ x \in Queued(p)
    <3>1. x.kind = "classification"  BY DEF Kind
    <3>2. x \in f \/ x \in d.add \/ x \in Queued(q)  BY DEF FirstPass
    <3>3. x \in f => x \in g  BY <3>1 DEF Adds, Kind
    <3> QED  BY <3>1, <3>2, <3>3
  <2> QED  BY <2>1
<1>4. Unhindered(g, W)
  <2>1. ASSUME NEW x \in CatchAlls(W)
        PROVE  x \in W \/ (Key(x) \notin Keys(W) /\ x.kind \notin {"vrf", "classification"})
    <3>1. PICK v \in Kind(W, "vrf") : x = Route(v.table, DefaultPrefix, Loopback)
      BY DEF CatchAlls, vrfCatchAll
    <3>2. x.kind = "route"  BY <3>1, RouteFields, SMT
    <3> QED  BY <3>1, <3>2, WantedRoute DEF Clear
  <2> QED  BY <2>1, StaysUnhindered DEF Adds, Clear
<1> QED  BY <1>1, <1>2, <1>3, <1>4 DEF FirstPass

-----------------------------------------------------------------------------
\* The second pass after a catch-all went: there is one route per place.
LEMMA SecondPassRemoval ==
    ASSUME NEW W, Clear(fib, W), NEW d, NEW e, IsDiff(d, W), SecondPass(fib, d, W), Tidy(fib'),
           NEW r \in d.remove, RemoveResource(r, "ok"),
           e.remove = d.remove \ {r}, e.add = d.add
    PROVE  SecondPass(fib', e, W) /\ Unhindered(fib', W) /\ nftQueue' = nftQueue
           /\ fib' = fib \ {r}
<1>1. r \in fib /\ r.kind = "route" /\ r \notin W
  BY DEF SecondPass, IsDiff, Keys
<1>2. fib' = {x \in fib : ~(x.kind = "route" /\ x.table = r.table /\ x.dst = r.dst)}
  BY <1>1 DEF RemoveResource, RemovePrefixRoute
<1>3. nftQueue' = nftQueue  BY <1>1 DEF RemoveResource
<1>4. ASSUME NEW x \in fib, x.kind = "route", x.table = r.table, x.dst = r.dst  PROVE  x = r
  <2>1. Place(x) = Place(r)  BY <1>1, <1>4, SamePlace, SMT DEF Kinds
  <2> QED  BY <1>1, <2>1 DEF Clear, Tidy, OnePerPlace
<1>5. fib' = fib \ {r}  BY <1>1, <1>2, <1>4
<1>6. /\ RenderFIB(fib) = {x \in fib : x.kind = "vrf" => x.owned}
      /\ RenderFIB(fib') = {x \in fib' : x.kind = "vrf" => x.owned}
  BY RenderFIBIs DEF Clear, Tidy
<1>7. RenderFIB(fib') \subseteq W \cup e.remove
  <2>1. RenderFIB(fib) \subseteq W \cup d.remove  BY DEF SecondPass
  <2> QED  BY <1>5, <1>6, <2>1
<1>8. Links(W) \subseteq fib'
  <2>1. Links(W) \subseteq fib /\ r \notin Links(W)  BY <1>1 DEF SecondPass, Links, Kind
  <2> QED  BY <1>5, <2>1
<1>9. SecondPass(fib', e, W)
  BY <1>1, <1>5, <1>7, <1>8 DEF SecondPass
<1>10. Unhindered(fib', W)  BY <1>5, StaysUnhindered, SMT DEF Clear
<1> QED  BY <1>3, <1>5, <1>9, <1>10

\* What adding r does in the second pass: it takes a free place.
Fills(f, g, r, W) ==
    /\ r.kind # "classification" => r \in g
    /\ W \cap f \subseteq g
    /\ \A x \in g : x \in f \/ x = r

\* An object of the kernel that is in r's place is r when it is wanted.
LEMMA ReplacesFills ==
    ASSUME NEW f, NEW g, NEW W, Compatible(W), NEW r \in W, r.kind \in Kinds,
           NEW h, g = h \cup {r}, h \subseteq f,
           \A x \in f : x \notin h => x.kind \in Kinds /\ Place(x) = Place(r)
    PROVE  Fills(f, g, r, W)
BY DEF Fills, Compatible, OnePerPlace

\* AddResource in the second pass: a route finds its tunnel up and in the VRF
\* of the table, and a SID its VRF.
LEMMA AdditionFills ==
    ASSUME NEW W, Clear(fib, W), RenderFIB(fib) \subseteq W, Links(W) \subseteq fib,
           NEW r \in W, r.kind \notin {"vrf", "xfrm"}, AddResource(r, "ok")
    PROVE  Fills(fib, fib', r, W)
<1>0. r.kind \in Kinds /\ \A x \in fib : x.kind \in Kinds
  BY WantedKinds DEF Clear, Tidy
<1>1. CASE r.kind = "route"
  <2>1. r = Route(r.table, r.dst, r.dev)  BY <1>1 DEF Clear, IsRendered, FitsIn
  <2>2. PICK x \in Kind(W, "xfrm") :
               /\ x.name = r.dev
               /\ \/ Kind(W, "vrf") = {}
                  \/ \E v \in Kind(W, "vrf") : v.table = r.table /\ x.master = v.name
    BY <1>1 DEF Clear, IsRendered, FitsIn
  <2>3. x \in Kind(fib, "xfrm") /\ x.up = TRUE
    <3>1. x \in W /\ x.kind = "xfrm" /\ x \in fib  BY DEF Links, Kind
    <3> QED  BY <3>1, WantedKinds DEF Clear, Kind
  <2>4. ASSUME NEW v \in vrfByTable(fib, r.table)  PROVE  x.master = v.name
    <3>1. v \in fib /\ v.kind = "vrf" /\ v.table = r.table  BY DEF vrfByTable, Kind
    <3>2. r \in Kind(W, "route")  BY <1>1 DEF Kind
    <3>3. v \in W  BY <3>1, <3>2, ExistingLink
    <3>4. v \in Kind(W, "vrf")  BY <3>1, <3>3 DEF Kind
    <3>5. PICK w \in Kind(W, "vrf") : w.table = r.table /\ x.master = w.name  BY <2>2, <3>4
    <3>6. v = w  BY <3>1, <3>4, <3>5 DEF Clear, Compatible
    <3> QED  BY <3>5, <3>6
  <2>5. \E y \in Kind(fib, "xfrm") :
          /\ y.name = r.dev /\ y.up
          /\ \A v \in vrfByTable(fib, r.table) : y.master = v.name
    BY <2>2, <2>3, <2>4
  <2>6. fib' = RouteReplace(fib, r)
    BY <1>1, <2>1, <2>5 DEF AddResource, InsertPrefixRoute
  <2> DEFINE h == {y \in fib : ~(y.kind = "route" /\ y.table = r.table /\ y.dst = r.dst)}
  <2>7. fib' = h \cup {r}  BY <2>6 DEF RouteReplace
  <2>8. \A y \in fib : y \notin h => y.kind \in Kinds /\ Place(y) = Place(r)
    BY <1>0, <1>1, SamePlace
  <2> QED  BY <1>0, <2>7, <2>8, ReplacesFills DEF Clear
<1>2. CASE r.kind = "rule"
  <2>0. KernelTable(r.table) = r.table  BY <1>2 DEF Clear, Compatible
  <2>1. fib' = fib \cup {r}
    BY <1>2, <2>0 DEF Clear, IsRendered, FitsIn, IsRule, AddResource, UpsertRule
  <2> QED  BY <2>1 DEF Fills
<1>3. CASE r.kind = "sid"
  <2>1. r = SID(r.sid, r.table)  BY <1>3 DEF Clear, IsRendered, FitsIn
  <2>2. vrfByTable(fib, r.table) # {}
    <3>1. PICK v \in Kind(W, "vrf") : v.table = r.table  BY <1>3 DEF Clear, IsRendered, FitsIn
    <3>2. v \in fib /\ v.kind = "vrf"  BY DEF Links, Kind
    <3> QED  BY <3>1, <3>2 DEF vrfByTable, Kind
  <2> DEFINE h == {y \in fib : ~(y.kind = "sid" /\ y.sid = r.sid)}
  <2>3. fib' = h \cup {r}  BY <1>3, <2>1, <2>2 DEF AddResource, UpsertDT46SID
  <2>4. \A y \in fib : y \notin h => y.kind \in Kinds /\ Place(y) = Place(r)
    BY <1>0, <1>3, SamePlace
  <2> QED  BY <1>0, <2>3, <2>4, ReplacesFills DEF Clear
<1>4. CASE r.kind = "sr_route"
  <2>1. r = SRRoute(r.prefix, r.segments, r.table)  BY <1>4 DEF Clear, IsRendered, FitsIn
  <2>2. r.segments # <<>> /\ KernelTable(r.table) = r.table  BY <1>4 DEF Clear, Compatible, Kind
  <2> DEFINE h == {y \in fib : ~(y.kind = "sr_route" /\ y.prefix = r.prefix /\ y.table = r.table)}
  <2>3. fib' = h \cup {r}  BY <1>4, <2>1, <2>2 DEF AddResource, InsertSRRouteForPrefix
  <2>4. \A y \in fib : y \notin h => y.kind \in Kinds /\ Place(y) = Place(r)
    BY <1>0, <1>4, SamePlace
  <2> QED  BY <1>0, <2>3, <2>4, ReplacesFills DEF Clear
<1>5. CASE r.kind = "classification"
  <2>1. fib' = fib  BY <1>5 DEF AddResource
  <2> QED  BY <1>5, <2>1 DEF Fills
<1> QED  BY <1>0, <1>1, <1>2, <1>3, <1>4, <1>5 DEF Kinds

\* The second pass after one addition.
LEMMA SecondPassAddition ==
    ASSUME NEW W, NEW f, NEW g, Clear(f, W), NEW d, NEW e, SecondPass(f, d, W), Tidy(g),
           d.remove = {}, NEW r \in d.add, d.add \subseteq W, Fills(f, g, r, W),
           e.remove = {}, e.add = d.add \ {r}
    PROVE  SecondPass(g, e, W) /\ Unhindered(g, W)
<1>1. /\ RenderFIB(f) = {x \in f : x.kind = "vrf" => x.owned}
      /\ RenderFIB(g) = {x \in g : x.kind = "vrf" => x.owned}
  BY RenderFIBIs DEF Clear, Tidy
<1>2. RenderFIB(g) \subseteq W
  <2>1. RenderFIB(f) \subseteq W  BY DEF SecondPass
  <2> QED  BY <1>1, <2>1 DEF Fills
<1>3. Links(W) \subseteq g
  <2>1. Links(W) \subseteq W /\ Links(W) \subseteq f  BY DEF Links, Kind, SecondPass
  <2> QED  BY <2>1 DEF Fills
<1>4. ASSUME NEW x \in W, x.kind # "classification"  PROVE  x \in g \cup e.add
  BY <1>4 DEF SecondPass, Fills
<1>5. Unhindered(g, W)  BY StaysUnhindered, SMT DEF Clear, Fills
<1>6. SecondPass(g, e, W)  BY <1>2, <1>3, <1>4 DEF SecondPass
<1> QED  BY <1>5, <1>6

-----------------------------------------------------------------------------
\* A batch that only adds wanted classes is taken, and adds them.
LEMMA EnsureAdds ==
    ASSUME NEW f, NEW q, NEW W, Clear(f, W), BatchIsSound(q), OnlyAdds(q, W)
    PROVE  ~BatchIsRefused(f, q) /\ EnsureClassificationBase(f, q) = f \cup Queued(q)
<1>0. Len(q) \in Nat  BY SMT DEF BatchIsSound
<1> DEFINE c(n) == Classification(q[n].key[1], q[n].mark)
           touched == {q[i].key : i \in 1..Len(q)}
           put(k) == Classification(q[LastOp(q, k)].key[1], q[LastOp(q, k)].mark)
           K == {k \in touched : q[LastOp(q, k)].op = "add"}
           kept == {x \in f : x.kind = "classification" => ElementKey(x) \notin touched}
<1>1. ASSUME NEW n \in 1..Len(q)
      PROVE  /\ q[n].op = "add" /\ c(n) \in W /\ c(n) \in Queued(q)
             /\ c(n).kind = "classification" /\ <<c(n).classifier>> = q[n].key
             /\ c(n).mark = q[n].mark
  <2>1. q[n].op = "add"  BY DEF OnlyAdds
  <2>2. q[n].key = <<q[n].key[1]>>  BY <2>1 DEF BatchIsSound
  <2>3. c(n) \in Queued(q)  BY DEF Queued
  <2>4. c(n).kind = "classification" /\ c(n).classifier = q[n].key[1] /\ c(n).mark = q[n].mark
    BY ClassificationFields
  <2> QED  BY <2>1, <2>2, <2>3, <2>4 DEF OnlyAdds
<1>2. ASSUME NEW x \in Kind(f, "classification")  PROVE  x \in W /\ x \in f /\ x.kind = "classification"
  BY DEF Kind, Clear, Unhindered
<1>3. ASSUME NEW x \in W, NEW y \in W, x.kind = "classification", y.kind = "classification",
             x.classifier = y.classifier
      PROVE  x = y
  <2>1. Place(x) = Place(y)  BY <1>3, SamePlace, SMT DEF Kinds
  <2> QED  BY <2>1 DEF Clear, Compatible, OnePerPlace
<1> HIDE DEF c
<1>4. ASSUME NEW x \in Kind(f, "classification"), NEW n \in 1..Len(q), ElementKey(x) = q[n].key
      PROVE  x = c(n)
  <2>1. <<x.classifier>> = <<c(n).classifier>>  BY <1>1, <1>4 DEF ElementKey
  <2>2. x.classifier = c(n).classifier  BY <2>1
  <2> QED  BY <1>1, <1>2, <1>3, <2>2
<1>5. ~BatchIsRefused(f, q)
  <2>1. \A n \in 1..Len(q) : q[n].op # "del"  BY <1>1
  <2>2. \A n \in 1..Len(q) : \A x \in Kind(f, "classification") :
          ElementKey(x) = q[n].key => x.mark = q[n].mark
    BY <1>1, <1>4
  <2>3. ASSUME NEW n \in 1..Len(q), NEW m \in 1..Len(q), q[m].key = q[n].key
        PROVE  q[m].mark = q[n].mark
    <3>1. <<c(m).classifier>> = <<c(n).classifier>>  BY <1>1, <2>3
    <3>2. c(m) = c(n)  BY <1>1, <1>3, <3>1
    <3> QED  BY <1>1, <3>2
  <2>4. \A n \in 1..Len(q) : 1..(n - 1) \subseteq 1..Len(q)  BY <1>0, SMT
  <2> QED  BY <2>1, <2>2, <2>3, <2>4 DEF BatchIsRefused
<1>6. ASSUME NEW n \in 1..Len(q)  PROVE  put(q[n].key) = c(n) /\ q[n].key \in K
  <2> DEFINE l == LastOp(q, q[n].key)
  <2>1. l \in 1..Len(q) /\ q[l].key = q[n].key  BY <1>0, LastOpIs
  <2>2. put(q[n].key) = c(l)  BY DEF c
  <2>3. q[n].key \in touched  OBVIOUS
  <2>4. q[l].op = "add"  BY <1>1, <2>1
  <2> HIDE DEF l
  <2>5. <<c(l).classifier>> = <<c(n).classifier>>  BY <1>1, <2>1
  <2>6. c(l).classifier = c(n).classifier  BY <2>5
  <2>7. c(l) = c(n)  BY <1>1, <1>3, <2>1, <2>6
  <2> QED  BY <2>2, <2>3, <2>4, <2>7 DEF l
<1> DEFINE g == kept \cup {put(k) : k \in K}
<1>7. EnsureClassificationBase(f, q) = g  BY DEF EnsureClassificationBase
<1>8. \A k \in K : \E n \in 1..Len(q) : k = q[n].key  OBVIOUS
<1>9. \A x \in f : x \in kept \/ (x \in Kind(f, "classification")
                                 /\ \E n \in 1..Len(q) : ElementKey(x) = q[n].key)
  BY DEF Kind
<1>10. \A x \in Queued(q) : \E n \in 1..Len(q) : x = c(n)  BY DEF Queued, c
<1>11. kept \subseteq f  OBVIOUS
<1> HIDE DEF kept, K, put
<1>12. g = f \cup Queued(q)
  <2>1. ASSUME NEW x \in g  PROVE  x \in f \cup Queued(q)
    BY <1>1, <1>6, <1>8, <1>11, SMT
  <2>2. ASSUME NEW x \in f  PROVE  x \in g
    BY <1>4, <1>6, <1>9, SMT
  <2>3. ASSUME NEW x \in Queued(q)  PROVE  x \in g
    BY <1>6, <1>10
  <2> QED  BY <2>1, <2>2, <2>3
<1> QED  BY <1>5, <1>7, <1>12

-----------------------------------------------------------------------------
\* What a Plan finds when nothing is in the way: Diff compares keys, and yet
\* what it removes are the objects that are not wanted, and what it adds are
\* the wanted resources that are missing.
LEMMA DiffIs ==
    ASSUME NEW f, NEW W, Clear(f, W), NEW d, d = Diff(RenderFIB(f), W)
    PROVE  /\ d.remove = RenderFIB(f) \ W /\ d.add = W \ f
           /\ IsDiff(d, W)
           /\ d = NoDiff <=> RenderFIB(f) = W
<1>1. /\ RenderFIB(f) = {x \in f : x.kind = "vrf" => x.owned}
      /\ \A x \in f : x.kind \in Kinds /\ (x.kind = "rule" => IsRule(x))
  BY RenderFIBIs DEF Clear, Tidy
<1>2. W \cap f \subseteq RenderFIB(f)
  <2>1. \A r \in W : r.kind = "vrf" => r.owned = TRUE  BY WantedKinds DEF Clear
  <2> QED  BY <1>1, <2>1
<1>3. /\ d.remove = {r \in RenderFIB(f) : Key(r) \notin Keys(W)}
      /\ d.add = {r \in W : Key(r) \notin Keys(RenderFIB(f))}
      /\ d = [remove |-> d.remove, add |-> d.add]
  BY DEF Diff
<1>4. ASSUME NEW x \in f  PROVE  Key(x) \in Keys(W) <=> x \in W
  BY DEF Keys, Clear, Unhindered
<1>5. ASSUME NEW r \in W  PROVE  Key(r) \in Keys(RenderFIB(f)) <=> r \in f
  <2>1. ASSUME Key(r) \in Keys(RenderFIB(f))  PROVE  r \in f
    <3>1. PICK x \in RenderFIB(f) : Key(x) = Key(r)  BY <2>1 DEF Keys
    <3>2. x \in f  BY <1>1
    <3> QED  BY <3>1, <3>2 DEF Clear, Unhindered
  <2>2. ASSUME r \in f  PROVE  Key(r) \in Keys(RenderFIB(f))
    <3>1. r \in RenderFIB(f)  BY <1>2, <2>2
    <3> QED  BY <3>1 DEF Keys
  <2> QED  BY <2>1, <2>2
<1>6. d.remove = RenderFIB(f) \ W
  <2>1. RenderFIB(f) \subseteq f  BY <1>1
  <2> QED  BY <1>3, <1>4, <2>1
<1>7. d.add = W \ f  BY <1>3, <1>5
<1>8. IsDiff(d, W)
  <2>1. ASSUME NEW r \in d.remove
        PROVE  /\ r.kind \in Kinds \ {"classification"} /\ Key(r) \notin Keys(W)
               /\ (r.kind = "vrf" => r.owned) /\ (r.kind = "rule" => IsRule(r))
    <3>1. r \in RenderFIB(f) /\ r \notin W /\ Key(r) \notin Keys(W)  BY <1>3, <1>6
    <3>2. r \in f /\ (r.kind = "vrf" => r.owned)  BY <1>1, <3>1
    <3>3. r.kind # "classification"  BY <3>1, <3>2 DEF Clear, Unhindered, Kind
    <3> QED  BY <1>1, <3>1, <3>2, <3>3
  <2> QED  BY <1>7, <2>1 DEF IsDiff
<1>9. d = NoDiff <=> (d.remove = {} /\ d.add = {})
  BY <1>3, SMT DEF NoDiff
<1>10. (d.remove = {} /\ d.add = {}) <=> RenderFIB(f) = W
  <2>1. RenderFIB(f) \subseteq f  BY <1>1
  <2> QED  BY <1>2, <1>6, <1>7, <2>1
<1> QED  BY <1>6, <1>7, <1>8, <1>9, <1>10

\* The diff of the first pass.
LEMMA FirstDiff ==
    ASSUME NEW f, NEW q, NEW W, Clear(f, W), NEW d, d = Diff(RenderFIB(f), W)
    PROVE  FirstPass(f, q, d, W)
<1>1. d.remove = RenderFIB(f) \ W /\ d.add = W \ f  BY DiffIs, SMT
<1>2. RenderFIB(f) = {x \in f : x.kind = "vrf" => x.owned} /\ \A x \in f : x.kind \in Kinds
  BY RenderFIBIs DEF Clear, Tidy
<1>3. ASSUME NEW r \in d.remove, NEW x \in f, r.kind = "xfrm", x.kind = "xfrm", x.name = r.name
      PROVE  x.ifid = r.ifid
  <2>1. r \in f  BY <1>1, <1>2
  <2>2. Place(x) = Place(r)  BY <1>3, SamePlace, SMT DEF Kinds
  <2> QED  BY <2>1, <2>2 DEF Clear, Tidy, OnePerPlace
<1> QED  BY <1>1, <1>3 DEF FirstPass, IsLeft, Links, Kind

\* The diff of the second pass, when the links are there.
LEMMA SecondDiff ==
    ASSUME NEW f, NEW q, NEW W, Clear(f, W), LinksAreBuilt(f, q, W),
           NEW d, d = Diff(RenderFIB(f), W)
    PROVE  SecondPass(f, d, W)
<1>1. d.remove = RenderFIB(f) \ W /\ d.add = W \ f  BY DiffIs, SMT
<1>2. RenderFIB(f) = {x \in f : x.kind = "vrf" => x.owned}
  BY RenderFIBIs DEF Clear, Tidy
<1>3. ASSUME NEW r \in d.remove  PROVE  r \in f /\ r.kind = "route"
  <2>1. r \in CatchAlls(W)  BY <1>1 DEF LinksAreBuilt
  <2>2. r.kind = "route"  BY <2>1, RouteFields, SMT DEF CatchAlls, vrfCatchAll
  <2> QED  BY <1>1, <1>2, <2>2
<1>4. ASSUME NEW r \in d.add  PROVE  r.kind \notin {"vrf", "xfrm"}
  BY <1>1 DEF LinksAreBuilt, Links, Kind
<1> QED  BY <1>1, <1>3, <1>4 DEF SecondPass, LinksAreBuilt

-----------------------------------------------------------------------------
\* The tenants can be visited in some order.
LEMMA RanksExist ==
    ASSUME NEW i \in Intents
    PROVE  Ranks(i) # {}
BY ReconcilerConstants DEF Ranks

\* Rules that are told apart by nothing but their VRF are not rendered when no
\* two tenants share a table.
LEMMA RulesDiffer ==
    ASSUME tableOf \in TableMaps, NEW i \in Intents, NEW rank,
           \A r, s \in Kind(Render(i, rank), "vrf") : r.table = s.table => r = s,
           NEW r \in Render(i, rank), NEW s \in Render(i, rank),
           r.kind = "rule", s.kind = "rule", r.table = s.table, r.mark = s.mark
    PROVE  r = s
<1>1. CASE i.nodeType = "cpe"
  <2> DEFINE cpe == i.body
             x == XFRM(CPETunnelName(cpe.tenant), cpe.ifid, NoDev)
             rt == Route(CPETunnelTable, DefaultPrefix, CPETunnelName(cpe.tenant))
             ru == Rule(100, cpe.prefix, CPETunnelTable, 0, NoDev)
  <2>1. Render(i, rank) = {} \/ Render(i, rank) = {x, rt, ru}
    BY <1>1 DEF Render, RenderCPEIntent
  <2>2. x.kind = "xfrm" /\ rt.kind = "route"  BY XFRMFields, RouteFields, SMT
  <2> HIDE DEF x, rt, ru
  <2> QED  BY <2>1, <2>2, SMT
<1>2. CASE i.nodeType = "pe"
  <2> DEFINE pe == i.body
             T == DOMAIN pe.tenants
             V(t) == VRF(VrfName(t), tableOf[t])
             R(t, c) == Rule(80, "", ColorTableID(t, c), c, VrfName(t))
  <2>1. Render(i, rank) = {Classification(c.dscp, c.color) : c \in pe.classes}
                            \cup UNION {RenderTenant(pe, rank, t) : t \in T}
    BY <1>2 DEF Render, RenderPEIntent
  <2>2. ASSUME NEW t \in T, NEW u \in T, tableOf[t] = tableOf[u]  PROVE  t = u
    <3>1. \A v \in T : V(v) \in Kind(Render(i, rank), "vrf")
      <4>1. \A v \in T : V(v) \in RenderTenant(pe, rank, v)  BY DEF RenderTenant
      <4>2. \A v \in T : V(v).kind = "vrf"  BY VRFFields, SMT
      <4> HIDE DEF V
      <4> QED  BY <2>1, <4>1, <4>2 DEF Kind
    <3>2. \A v : V(v).table = tableOf[v] /\ V(v).name = VrfName(v)
      BY DEF VRF, VRFDevice
    <3> HIDE DEF V
    <3>3. V(t) = V(u)  BY <2>2, <3>1, <3>2
    <3>4. VrfName(t) = VrfName(u)  BY <3>2, <3>3
    <3> QED  BY <3>4 DEF VrfName
  <2>3. ASSUME NEW x \in Render(i, rank), x.kind = "rule"
        PROVE  \E t \in T : \E c \in Colors(pe, t) : x = R(t, c)
    <3>1. PICK t \in T : x \in RenderTenant(pe, rank, t)
      <4>1. \A c : Classification(c.dscp, c.color).kind = "classification"  BY ClassificationFields
      <4> QED  BY <2>1, <2>3, <4>1
    <3>2. x \in RenderRules(pe, rank, t)
      <4>0. V(t).kind = "vrf"  BY VRFFields, SMT
      <4>1. x # V(t)  BY <2>3, <4>0
      <4>2. \A a : x # SID(a, tableOf[t])  BY <2>3, SIDFields, SMT
      <4>3. \A a, b, c : x # XFRM(a, b, c) /\ x # Route(a, b, c) /\ x # SRRoute(a, b, c)
        BY <2>3, XFRMFields, RouteFields, SRRouteFields, SMT
      <4>4. x \notin RenderSRRoutes(pe, rank, t)  BY <4>3 DEF RenderSRRoutes
      <4> HIDE DEF V
      <4> QED  BY <3>1, <4>1, <4>2, <4>3, <4>4 DEF RenderTenant, V
    <3> QED  BY <3>2 DEF RenderRules
  <2>4. PICK t, c : t \in T /\ c \in Colors(pe, t) /\ r = R(t, c)  BY <2>3
  <2>5. PICK u, d : u \in T /\ d \in Colors(pe, u) /\ s = R(u, d)  BY <2>3
  <2>6. /\ r.mark = c /\ r.table = ColorTableID(t, c)
        /\ s.mark = d /\ s.table = ColorTableID(u, d)
    <3>1. \A v, a : R(v, a).mark = a /\ R(v, a).table = ColorTableID(v, a)  BY DEF Rule
    <3> HIDE DEF R
    <3> QED  BY <2>4, <2>5, <3>1
  <2>7. c \in Nat /\ d \in Nat
    <3>0. \A j \in Intents : j.nodeType = "pe" =>
            \A v \in DOMAIN j.body.tenants : \A p \in j.body.tenants[v].paths : p.color \in Nat
      BY ReconcilerConstants
    <3>1. \A v \in T : \A p \in pe.tenants[v].paths : p.color \in Nat
      BY <1>2, <3>0
    <3>2. \A v \in T : Colors(pe, v) \subseteq Nat  BY <3>1 DEF Colors
    <3> QED  BY <2>4, <2>5, <3>2
  <2>8. tableOf[t] \in 0..(TableSpan - 1) /\ tableOf[u] \in 0..(TableSpan - 1)
    <3>1. T \subseteq Tenants  BY <1>2, ReconcilerConstants
    <3>2. tableOf \in [Tenants -> 0..(TableSpan - 1)]  BY ReconcilerConstants
    <3> QED  BY <2>4, <2>5, <3>1, <3>2
  <2>9. c = d /\ tableOf[t] = tableOf[u]
    <3>1. (c * TableSpan) + tableOf[t] = (d * TableSpan) + tableOf[u]
      BY <2>6 DEF ColorTableID
    <3> QED  BY <2>7, <2>8, <3>1, ColorTableIsUnique, SMT
  <2>10. t = u  BY <2>2, <2>4, <2>5, <2>9
  <2> QED  BY <2>4, <2>5, <2>9, <2>10
<1> QED  BY <1>1, <1>2, ReconcilerConstants

-----------------------------------------------------------------------------
\* Where a Reconcile that nothing disturbs is.
Progress(W) ==
    \/ pass = 1 /\ (pc \in {"ensure", "apply"} => FirstPass(fib, nftQueue, todo, W))
    \/ pass = 2 /\ pc = "plan" /\ LinksAreBuilt(fib, nftQueue, W)
    \/ /\ pass = 2 /\ pc = "ensure" /\ LinksAreBuilt(fib, nftQueue, W)
       /\ SecondPass(fib, todo, W)
    \/ /\ pass = 2 /\ pc = "apply" /\ SecondPass(fib, todo, W)
       /\ Kind(W, "classification") \subseteq fib
    \/ pass = 3 /\ pc = "plan" /\ RenderFIB(fib) = W

\* It wants W, which nothing is in the way of.
ReconcileInv(W) ==
    /\ IsRendered(W) /\ Compatible(W) /\ Unhindered(fib, W) /\ OnlyAdds(nftQueue, W)
    /\ \A rank \in Ranks(intent) : Render(intent, rank) = W
    /\ pc \in {"ensure", "apply"} => IsDiff(todo, W)
    /\ Progress(W)

\* An undisturbed Reconcile is on its way, or it has ended as it should.
UndisturbedInv ==
    favourable =>
        IF pc = "idle"
        THEN /\ report.converged => RenderFIB(fib) = desired
             /\ MaxPasses >= 3 /\ ~PlanRefuses => report.converged
        ELSE \E W : ReconcileInv(W)

\* What Favourable says when an intent is delivered.
LEMMA FavourableStart ==
    ASSUME tableOf \in TableMaps, NEW i \in Intents, Favourable(fib, nftQueue, i)
    PROVE  \E W : /\ IsRendered(W) /\ Compatible(W) /\ Unhindered(fib, W) /\ OnlyAdds(nftQueue, W)
                  /\ \A rank \in Ranks(i) : Render(i, rank) = W
<1> DEFINE f == fib
           q == nftQueue
<1>1. PICK rank \in Ranks(i) : TRUE  BY RanksExist
<1>2. PICK W : W = Render(i, rank)  OBVIOUS
<1>3. /\ \A r \in W, x \in f : Key(x) = Key(r) => x = r
      /\ OnePerPlace(W)
      /\ \A r, s \in Kind(W, "vrf") : r.table = s.table => r = s
      /\ \A r, s \in Kind(W, "xfrm") : r.ifid = s.ifid => r = s
      /\ \A r \in W : r.kind \in {"rule", "sr_route"} => KernelTable(r.table) = r.table
      /\ \A r \in Kind(W, "sr_route") : r.segments # <<>>
      /\ \A r \in W, v \in Kind(f, "vrf") : ~v.owned =>
           Place(r) # Place(v) /\ (r.kind \in {"vrf", "route"} => r.table # v.table)
      /\ Kind(f, "classification") \subseteq W
      /\ \A n \in 1..Len(q) :
           q[n].op = "add" /\ Classification(q[n].key[1], q[n].mark) \in W
  BY <1>2 DEF Favourable
<1>4. IsRendered(W)  BY <1>2, RenderIsRendered
<1>5. ASSUME NEW r \in W, NEW s \in W, Key(r) = Key(s)  PROVE  r = s
  <2>1. r.kind \in Kinds /\ s.kind \in Kinds  BY <1>4, WantedKinds
  <2>2. CASE r.kind # "rule"
    <3>1. Place(r) = Place(s)  BY <1>5, <2>1, <2>2, KeyIsFiner
    <3> QED  BY <1>3, <3>1 DEF OnePerPlace
  <2>3. CASE r.kind = "rule"
    <3>1. s.kind = "rule" /\ r.table = s.table /\ r.mark = s.mark
      BY <1>5, <2>1, <2>3, SameKey
    <3> QED  BY <1>2, <1>3, <2>3, <3>1, RulesDiffer
  <2> QED  BY <2>2, <2>3
<1>6. Compatible(W)  BY <1>3, <1>5 DEF Compatible
<1>7. Unhindered(f, W)  BY <1>3 DEF Unhindered, IsBystander
<1>8. OnlyAdds(q, W)  BY <1>3 DEF OnlyAdds, Queued
<1>9. \A k \in Ranks(i) : Render(i, k) = W
  <2> SUFFICES ASSUME NEW k \in Ranks(i)  PROVE  Render(i, k) = W
    OBVIOUS
  <2>1. \A r, s \in Kind(Render(i, k), "vrf") : r.table = s.table => r = s
    BY DEF Favourable
  <2>2. Render(i, k) = Wanted(i)  BY <2>1, OrderDoesNotMatter
  <2>3. Render(i, rank) = Wanted(i)  BY <1>2, <1>3, OrderDoesNotMatter
  <2> QED  BY <1>2, <2>2, <2>3
<1> QED  BY <1>4, <1>6, <1>7, <1>8, <1>9

\* Render looks at the intent and at the hash of the tenants only.
LEMMA RenderUnchanged ==
    ASSUME UNCHANGED <<intent, tableOf>>
    PROVE  /\ Ranks(intent)' = Ranks(intent)
           /\ \A rank : Render(intent, rank)' = Render(intent, rank)
BY SMT DEF Ranks, Render, RenderCPEIntent, RenderPEIntent, RenderTenant, RenderSRRoutes, RenderRules,
       TableIsTaken, ColorTableID, Colors

\* The parts of ReconcileInv that the kernel and the batch do not touch.
LEMMA StillWanted ==
    ASSUME NEW W, ReconcileInv(W), UNCHANGED <<intent, tableOf>>
    PROVE  \A rank \in Ranks(intent)' : Render(intent, rank)' = W
BY RenderUnchanged DEF ReconcileInv

\* Deliver starts an undisturbed Reconcile, or a disturbed one.
LEMMA UndisturbedDeliver ==
    ASSUME CallInv, NEW i \in Intents, Deliver(i)
    PROVE  UndisturbedInv'
<1>1. /\ UNCHANGED <<tableOf, fib, nftQueue>> /\ intent' = i /\ pass' = 1 /\ pc' = "plan"
      /\ favourable' = Favourable(fib, nftQueue, i)
  BY DEF Deliver, node, kernel
<1> SUFFICES ASSUME favourable'  PROVE  \E W : ReconcileInv(W)'
  BY <1>1 DEF UndisturbedInv
<1>2. PICK W : /\ IsRendered(W) /\ Compatible(W) /\ Unhindered(fib, W) /\ OnlyAdds(nftQueue, W)
               /\ \A rank \in Ranks(i) : Render(i, rank) = W
  BY <1>1, FavourableStart DEF CallInv
<1>3. \A rank \in Ranks(intent)' : Render(intent, rank)' = W
  <2>1. \A rank : Render(i, rank)' = Render(i, rank)
    BY <1>1, SMT DEF Render, RenderCPEIntent, RenderPEIntent, RenderTenant, RenderSRRoutes, RenderRules,
       TableIsTaken, ColorTableID, Colors
  <2>2. \A rank : Render(intent, rank)' = Render(i, rank)'
    BY <1>1 DEF Render
  <2>3. Ranks(intent)' = Ranks(i)  BY <1>1 DEF Ranks
  <2> QED  BY <1>2, <2>1, <2>2, <2>3
<1>4. Progress(W)'  BY <1>1 DEF Progress
<1>5. ReconcileInv(W)'  BY <1>1, <1>2, <1>3, <1>4 DEF ReconcileInv
<1> QED  BY <1>5

\* A kernel that is sound and that a Reconcile is not hindered by.
LEMMA ReconcileIsClear ==
    ASSUME SoundInv, NEW W, ReconcileInv(W)
    PROVE  Clear(fib, W) /\ BatchIsSound(nftQueue)
BY DEF SoundInv, ReconcileInv, Clear

\* Plan and Diff: an empty diff means that the kernel has what is wanted, and
\* the third one is empty.
LEMMA UndisturbedPlan ==
    ASSUME SoundInv, NEW W, ReconcileInv(W), NEW rank \in Ranks(intent), PlanAndDiff(rank)
    PROVE  IF pc' = "idle" THEN report'.converged /\ RenderFIB(fib)' = desired'
                           ELSE ReconcileInv(W)'
<1>1. /\ UNCHANGED <<tableOf, fib, nftQueue, intent, pass>> /\ pc = "plan"
      /\ desired' = W
  BY DEF PlanAndDiff, node, kernel, ReconcileInv
<1> DEFINE d == Diff(RenderFIB(fib), W)
<1>2. IF d = NoDiff THEN Return(TRUE, TRUE, "none") ELSE pc' = "ensure" /\ todo' = d
  BY <1>1 DEF PlanAndDiff
<1>3. Clear(fib, W)  BY ReconcileIsClear
<1>4. (d = NoDiff <=> RenderFIB(fib) = W) /\ IsDiff(d, W)  BY <1>3, DiffIs, SMT
<1>5. RenderFIB(fib)' = RenderFIB(fib)
  BY <1>1 DEF RenderFIB, GetClassifications, GetLinksByType, GetPrefixRoutes, GetRules, GetSIDs,
              GetSRRoutes, Kind
<1>6. FirstPass(fib, nftQueue, d, W)  BY <1>3, FirstDiff
<1>7. LinksAreBuilt(fib, nftQueue, W) => SecondPass(fib, d, W)  BY <1>3, SecondDiff
<1> HIDE DEF d
<1>8. CASE d = NoDiff
  <2>1. pc' = "idle" /\ report'.converged  BY <1>2, <1>8, SMT DEF Return
  <2> QED  BY <1>1, <1>4, <1>5, <1>8, <2>1
<1>9. CASE d # NoDiff
  <2>1. pc' = "ensure" /\ todo' = d  BY <1>2, <1>9
  <2>2. pass = 1 \/ (pass = 2 /\ LinksAreBuilt(fib, nftQueue, W))
    BY <1>1, <1>4, <1>9 DEF ReconcileInv, Progress
  <2>3. CASE pass = 1
    <3>1. FirstPass(fib', nftQueue', todo', W)  BY <1>1, <1>6, <2>1
    <3>2. Progress(W)'  BY <1>1, <2>3, <3>1 DEF Progress
    <3> QED  BY <1>1, <1>4, <2>1, <3>2, StillWanted DEF ReconcileInv
  <2>4. CASE pass = 2 /\ LinksAreBuilt(fib, nftQueue, W)
    <3>1. LinksAreBuilt(fib', nftQueue', W) /\ SecondPass(fib', todo', W)
      BY <1>1, <1>7, <2>1, <2>4
    <3>2. Progress(W)'  BY <1>1, <2>1, <2>4, <3>1 DEF Progress
    <3> QED  BY <1>1, <1>4, <2>1, <3>2, StillWanted DEF ReconcileInv
  <2> QED  BY <2>2, <2>3, <2>4
<1> QED  BY <1>8, <1>9

\* Ensure sends the classes that were queued, and nothing refuses them.
LEMMA UndisturbedEnsure ==
    ASSUME SoundInv, SoundInv', NEW W, ReconcileInv(W), Ensure(FALSE)
    PROVE  pc' = "apply" /\ ReconcileInv(W)'
<1>1. /\ UNCHANGED <<tableOf, intent, pass>> /\ pc = "ensure" /\ nftQueue' = <<>>
  BY DEF Ensure, node
<1>2. Clear(fib, W) /\ BatchIsSound(nftQueue) /\ OnlyAdds(nftQueue, W)
  BY ReconcileIsClear DEF ReconcileInv
<1>3. /\ ~BatchIsRefused(fib, nftQueue)
      /\ EnsureClassificationBase(fib, nftQueue) = fib \cup Queued(nftQueue)
  BY <1>2, EnsureAdds
<1>4. fib' = fib \cup Queued(nftQueue) /\ pc' = "apply" /\ todo' = todo  BY <1>3 DEF Ensure
<1>5. Queued(nftQueue) \subseteq W /\ \A x \in Queued(nftQueue) : x.kind = "classification"
  BY <1>2, ClassificationFields, SMT DEF OnlyAdds, Queued
<1>6. Queued(<<>>) = {} /\ OnlyAdds(<<>>, W)
  <2>1. Len(<<>>) = 0  OBVIOUS
  <2> QED  BY <2>1, SMT DEF OnlyAdds, Queued
<1>7. Unhindered(fib', W)  BY <1>2, <1>4, <1>5, StaysUnhindered DEF Clear
<1>8. IsDiff(todo', W)  BY <1>1, <1>4 DEF ReconcileInv
<1>9. /\ RenderFIB(fib) = {x \in fib : x.kind = "vrf" => x.owned}
      /\ RenderFIB(fib') = {x \in fib' : x.kind = "vrf" => x.owned}
  BY <1>2, RenderFIBIs DEF Clear, Tidy, SoundInv
<1>10. \A x \in RenderFIB(fib') : x \in RenderFIB(fib) \/ x \in W  BY <1>4, <1>5, <1>9
<1>11. ASSUME FirstPass(fib, nftQueue, todo, W)  PROVE  FirstPass(fib', nftQueue', todo', W)
  <2>1. \A x \in fib' : x.kind = "xfrm" => x \in fib  BY <1>4, <1>5
  <2>2. /\ \A x \in RenderFIB(fib') : x \in W \/ x \in CatchAlls(W) \/ IsLeft(x, todo.remove)
        /\ Links(W) \subseteq fib' \cup todo.add
        /\ Kind(W, "classification") \subseteq fib' \cup todo.add
    BY <1>4, <1>10, <1>11 DEF FirstPass
  <2>3. \A r \in todo.remove, x \in fib' :
          r.kind = "xfrm" /\ x.kind = "xfrm" /\ x.name = r.name => x.ifid = r.ifid
    BY <1>11, <2>1 DEF FirstPass
  <2> QED  BY <1>1, <1>4, <2>2, <2>3 DEF FirstPass
<1>12. ASSUME LinksAreBuilt(fib, nftQueue, W), SecondPass(fib, todo, W)
       PROVE  SecondPass(fib', todo', W) /\ Kind(W, "classification") \subseteq fib'
  <2>1. Kind(W, "classification") \subseteq fib'  BY <1>4, <1>12 DEF LinksAreBuilt
  <2>2. SecondPass(fib', todo', W)  BY <1>4, <1>10, <1>12 DEF SecondPass
  <2> QED  BY <2>1, <2>2
<1>13. Progress(W)'
  <2>1. \/ pass = 1 /\ FirstPass(fib, nftQueue, todo, W)
        \/ pass = 2 /\ LinksAreBuilt(fib, nftQueue, W) /\ SecondPass(fib, todo, W)
    BY <1>1 DEF ReconcileInv, Progress
  <2> QED  BY <1>1, <1>4, <1>11, <1>12, <2>1 DEF Progress
<1>14. OnlyAdds(nftQueue', W)  BY <1>1, <1>6
<1> QED  BY <1>1, <1>4, <1>7, <1>8, <1>13, <1>14, StillWanted DEF ReconcileInv

\* One operation of Apply that does not fail.
LEMMA UndisturbedApply ==
    ASSUME SoundInv, SoundInv', DiffTypes, NEW W, ReconcileInv(W), ApplyOne("ok")
    PROVE  pc' = "apply" /\ ReconcileInv(W)'
<1>1. UNCHANGED <<tableOf, intent, pass, pc>> /\ pc = "apply"  BY DEF ApplyOne, node
<1>2. Clear(fib, W) /\ BatchIsSound(nftQueue) /\ OnlyAdds(nftQueue, W) /\ IsDiff(todo, W)
      /\ IsRendered(W) /\ Tidy(fib')
  BY <1>1, ReconcileIsClear DEF ReconcileInv, SoundInv
<1>3. \/ pass = 1 /\ FirstPass(fib, nftQueue, todo, W)
      \/ pass = 2 /\ SecondPass(fib, todo, W) /\ Kind(W, "classification") \subseteq fib
  BY <1>1 DEF ReconcileInv, Progress
<1>4. todo = [remove |-> todo.remove, add |-> todo.add]  BY DEF DiffTypes, AreApart
<1>5. CASE todo.remove # {}
  <2>1. PICK r \in todo.remove :
          RemoveResource(r, "ok") /\ todo' = [todo EXCEPT !.remove = @ \ {r}]
    BY <1>5 DEF ApplyOne
  <2>2. todo'.remove = todo.remove \ {r} /\ todo'.add = todo.add  BY <1>4, <2>1
  <2>3. IsDiff(todo', W)  BY <1>2, <2>2 DEF IsDiff
  <2>4. CASE pass = 1 /\ FirstPass(fib, nftQueue, todo, W)
    <3>0. /\ r.kind \in Kinds \ {"classification"} /\ Key(r) \notin Keys(W)
          /\ (r.kind = "vrf" => r.owned) /\ (r.kind = "rule" => IsRule(r))
          /\ \A x \in fib :
               r.kind = "xfrm" /\ x.kind = "xfrm" /\ x.name = r.name => x.ifid = r.ifid
      BY <1>2, <2>4 DEF IsDiff, FirstPass
    <3>1. Removes(fib, fib', r, W) /\ nftQueue' = nftQueue
      BY <1>2, <2>1, <3>0, RemovalRemoves
    <3>2. FirstPass(fib', nftQueue, todo', W) /\ Unhindered(fib', W)
      BY <1>2, <2>1, <2>2, <2>4, <3>1, FirstPassRemoval
    <3>3. Progress(W)'  BY <1>1, <2>4, <3>1, <3>2 DEF Progress
    <3> QED  BY <1>1, <2>3, <3>1, <3>2, <3>3, StillWanted DEF ReconcileInv
  <2>5. CASE pass = 2 /\ SecondPass(fib, todo, W) /\ Kind(W, "classification") \subseteq fib
    <3>1. /\ SecondPass(fib', todo', W) /\ Unhindered(fib', W) /\ nftQueue' = nftQueue
          /\ fib' = fib \ {r}
      <4>1. PICK d, e : d = todo /\ e = todo'  OBVIOUS
      <4>2. /\ IsDiff(d, W) /\ SecondPass(fib, d, W) /\ r \in d.remove
            /\ e.remove = d.remove \ {r} /\ e.add = d.add
        BY <1>2, <2>1, <2>2, <2>5, <4>1
      <4>3. SecondPass(fib', e, W) /\ Unhindered(fib', W) /\ nftQueue' = nftQueue /\ fib' = fib \ {r}
        BY <1>2, <2>1, <4>2, SecondPassRemoval, SMT
      <4> QED  BY <4>1, <4>3
    <3>2. Kind(W, "classification") \subseteq fib'
      <4>1. r \notin Kind(W, "classification")  BY <1>2 DEF IsDiff, Kind
      <4> QED  BY <2>5, <3>1, <4>1
    <3>3. Progress(W)'  BY <1>1, <2>5, <3>1, <3>2 DEF Progress
    <3> QED  BY <1>1, <2>3, <3>1, <3>3, StillWanted DEF ReconcileInv
  <2> QED  BY <1>3, <2>4, <2>5
<1>6. CASE todo.remove = {}
  <2>1. PICK r \in todo.add :
          /\ IsNext(r, todo.add, AddOrder)
          /\ AddResource(r, "ok") /\ todo' = [todo EXCEPT !.add = @ \ {r}]
    BY <1>6 DEF ApplyOne
  <2>2. todo'.remove = {} /\ todo'.add = todo.add \ {r}  BY <1>4, <1>6, <2>1
  <2>3. IsDiff(todo', W) /\ todo.add \subseteq W /\ r \in W  BY <1>2, <2>2 DEF IsDiff
  <2>4. /\ OnlyAdds(nftQueue', W)
        /\ Queued(nftQueue) \subseteq Queued(nftQueue')
        /\ r.kind = "classification" => r \in Queued(nftQueue')
    BY <1>2, <2>1, <2>3, AdditionQueues
  <2>5. CASE pass = 1 /\ FirstPass(fib, nftQueue, todo, W)
    <3>1. RenderFIB(fib) \subseteq W \cup CatchAlls(W)  BY <1>6, <2>5 DEF FirstPass, IsLeft
    <3>2. ASSUME r.kind = "xfrm"  PROVE  Kind(W, "vrf") \subseteq fib
      <4>1. \A s \in todo.add : s.kind # "vrf"
        <5>1. PICK n \in 1..Len(AddOrder) :
                /\ r.kind = AddOrder[n]
                /\ \A s \in todo.add : \A m \in 1..(n - 1) : s.kind # AddOrder[m]
          BY <2>1 DEF IsNext
        <5>2. n = 2 /\ AddOrder[1] = "vrf"  BY <3>2, <5>1, SMT DEF AddOrder
        <5> QED  BY <5>1, <5>2, SMT
      <4> QED  BY <2>5, <4>1 DEF FirstPass, Links, Kind
    <3>3. Adds(fib, fib', r, W)  BY <1>2, <2>1, <2>3, <3>1, <3>2, AdditionAdds
    <3>4. FirstPass(fib', nftQueue', todo', W) /\ Unhindered(fib', W)
      BY <1>2, <1>6, <2>1, <2>2, <2>3, <2>4, <2>5, <3>3, FirstPassAddition
    <3>5. Progress(W)'  BY <1>1, <2>5, <3>4 DEF Progress
    <3> QED  BY <1>1, <2>3, <2>4, <3>4, <3>5, StillWanted DEF ReconcileInv
  <2>6. CASE pass = 2 /\ SecondPass(fib, todo, W) /\ Kind(W, "classification") \subseteq fib
    <3>1. /\ RenderFIB(fib) \subseteq W /\ Links(W) \subseteq fib
          /\ r.kind \notin {"vrf", "xfrm"}
      BY <1>6, <2>6 DEF SecondPass
    <3>2. Fills(fib, fib', r, W)  BY <1>2, <2>1, <2>3, <3>1, AdditionFills
    <3>3. SecondPass(fib', todo', W) /\ Unhindered(fib', W)
      BY <1>2, <1>6, <2>1, <2>2, <2>3, <2>6, <3>2, SecondPassAddition
    <3>4. Kind(W, "classification") \subseteq fib'  BY <2>6, <3>2 DEF Fills, Kind
    <3>5. Progress(W)'  BY <1>1, <2>6, <3>3, <3>4 DEF Progress
    <3> QED  BY <1>1, <2>3, <2>4, <3>3, <3>5, StillWanted DEF ReconcileInv
  <2> QED  BY <1>3, <2>5, <2>6
<1> QED  BY <1>5, <1>6

\* The end of a pass: the links are built after the first, and everything is
\* there after the second.
LEMMA UndisturbedEndPass ==
    ASSUME SoundInv, NEW W, ReconcileInv(W), EndPass
    PROVE  IF pc' = "idle" THEN ~report'.converged /\ MaxPasses < 3 ELSE ReconcileInv(W)'
<1>1. /\ UNCHANGED <<tableOf, intent, fib, nftQueue>> /\ pc = "apply" /\ todo = NoDiff
  BY DEF EndPass, node, kernel
<1>2. todo.remove = {} /\ todo.add = {}  BY <1>1 DEF NoDiff
<1>3. Clear(fib, W)  BY ReconcileIsClear
<1>4. RenderFIB(fib) = {x \in fib : x.kind = "vrf" => x.owned}
  BY <1>3, RenderFIBIs DEF Clear, Tidy
<1>5. \/ pass = 1 /\ LinksAreBuilt(fib, nftQueue, W)
      \/ pass = 2 /\ RenderFIB(fib) = W
  <2>1. \/ pass = 1 /\ FirstPass(fib, nftQueue, todo, W)
        \/ pass = 2 /\ SecondPass(fib, todo, W) /\ Kind(W, "classification") \subseteq fib
    BY <1>1 DEF ReconcileInv, Progress
  <2>2. ASSUME FirstPass(fib, nftQueue, todo, W)  PROVE  LinksAreBuilt(fib, nftQueue, W)
    BY <1>2, <2>2 DEF FirstPass, LinksAreBuilt, IsLeft
  <2>3. ASSUME SecondPass(fib, todo, W), Kind(W, "classification") \subseteq fib
        PROVE  RenderFIB(fib) = W
    <3>1. W \subseteq fib  BY <1>2, <2>3 DEF SecondPass, Kind
    <3>2. \A r \in W : r.kind = "vrf" => r.owned = TRUE  BY <1>3, WantedKinds DEF Clear
    <3>3. RenderFIB(fib) \subseteq W  BY <1>2, <2>3 DEF SecondPass
    <3> QED  BY <1>4, <3>1, <3>2, <3>3
  <2> QED  BY <2>1, <2>2, <2>3
<1>6. RenderFIB(fib)' = RenderFIB(fib)
  BY <1>1 DEF RenderFIB, GetClassifications, GetLinksByType, GetPrefixRoutes, GetRules, GetSIDs,
              GetSRRoutes, Kind
<1>7. CASE pass < MaxPasses
  <2>1. pc' = "plan" /\ pass' = pass + 1  BY <1>7 DEF EndPass
  <2>2. Progress(W)'
    <3>1. CASE pass = 1 /\ LinksAreBuilt(fib, nftQueue, W)
      <4>1. LinksAreBuilt(fib', nftQueue', W)  BY <1>1, <3>1
      <4> QED  BY <2>1, <3>1, <4>1, SMT DEF Progress
    <3>2. CASE pass = 2 /\ RenderFIB(fib) = W
      BY <1>6, <2>1, <3>2, SMT DEF Progress
    <3> QED  BY <1>5, <3>1, <3>2
  <2> QED  BY <1>1, <2>1, <2>2, StillWanted DEF ReconcileInv
<1>8. CASE ~(pass < MaxPasses)
  <2>1. pc' = "idle" /\ report'.converged = FALSE  BY <1>8, SMT DEF EndPass, Return
  <2>2. MaxPasses < 3  BY <1>5, <1>8, ReconcilerConstants, SMT
  <2> QED  BY <2>1, <2>2
<1> QED  BY <1>7, <1>8

-----------------------------------------------------------------------------
\* Every step preserves UndisturbedInv.
LEMMA UndisturbedStep ==
    ASSUME UndisturbedInv, SoundInv, SoundInv', CallInv, DiffTypes, [Next]_vars
    PROVE  UndisturbedInv'
<1>1. ASSUME NEW i \in Intents, Deliver(i)  PROVE  UndisturbedInv'
  BY <1>1, UndisturbedDeliver
<1>2. ASSUME NEW faulty \in BOOLEAN, PlanFails(faulty)  PROVE  UndisturbedInv'
  <2>1. /\ UNCHANGED <<nodeType, intent, current>> /\ pc' = "idle"
        /\ report' = [converged |-> FALSE, observed |-> FALSE, passes |-> pass, error |-> "plan"]
    BY <1>2 DEF PlanFails, Return, node
  <2>2. report'.converged = FALSE  BY <2>1
  <2>3. CASE faulty
    <3>1. ~favourable'  BY <1>2, <2>3 DEF PlanFails
    <3> QED  BY <3>1 DEF UndisturbedInv
  <2>4. CASE ~faulty
    <3>1. PlanRefuses  BY <1>2, <2>4 DEF PlanFails
    <3>2. PlanRefuses'  BY <2>1, <3>1 DEF PlanRefuses, Older, RenderFails
    <3> QED  BY <2>1, <2>2, <3>2 DEF UndisturbedInv
  <2> QED  BY <2>3, <2>4
<1>3. ASSUME pc = "plan", NEW rank \in Ranks(intent), PlanAndDiff(rank)  PROVE  UndisturbedInv'
  <2> SUFFICES ASSUME favourable'  PROVE  UndisturbedInv'
    BY DEF UndisturbedInv
  <2>1. favourable  BY <1>3 DEF PlanAndDiff
  <2>2. PICK W : ReconcileInv(W)  BY <1>3, <2>1 DEF UndisturbedInv
  <2>3. IF pc' = "idle" THEN report'.converged /\ RenderFIB(fib)' = desired'
                        ELSE ReconcileInv(W)'
    BY <1>3, <2>2, UndisturbedPlan
  <2> QED  BY <2>3 DEF UndisturbedInv
<1>4. ASSUME NEW faulty \in BOOLEAN, Ensure(faulty)  PROVE  UndisturbedInv'
  <2> SUFFICES ASSUME favourable'  PROVE  UndisturbedInv'
    BY DEF UndisturbedInv
  <2>1. favourable /\ faulty = FALSE /\ pc = "ensure"  BY <1>4 DEF Ensure
  <2>2. PICK W : ReconcileInv(W)  BY <2>1 DEF UndisturbedInv
  <2>3. pc' = "apply" /\ ReconcileInv(W)'  BY <1>4, <2>1, <2>2, UndisturbedEnsure
  <2> QED  BY <2>3 DEF UndisturbedInv
<1>5. ASSUME NEW o, ApplyOne(o)  PROVE  UndisturbedInv'
  <2> SUFFICES ASSUME favourable'  PROVE  UndisturbedInv'
    BY DEF UndisturbedInv
  <2>1. favourable /\ o = "ok" /\ pc = "apply"  BY <1>5 DEF ApplyOne
  <2>2. PICK W : ReconcileInv(W)  BY <2>1 DEF UndisturbedInv
  <2>3. pc' = "apply" /\ ReconcileInv(W)'  BY <1>5, <2>1, <2>2, UndisturbedApply
  <2> QED  BY <2>3 DEF UndisturbedInv
<1>6. CASE EndPass
  <2> SUFFICES ASSUME favourable'  PROVE  UndisturbedInv'
    BY DEF UndisturbedInv
  <2>1. favourable /\ pc = "apply"  BY <1>6 DEF EndPass
  <2>2. PICK W : ReconcileInv(W)  BY <2>1 DEF UndisturbedInv
  <2>3. IF pc' = "idle" THEN ~report'.converged /\ MaxPasses < 3 ELSE ReconcileInv(W)'
    BY <1>6, <2>2, UndisturbedEndPass
  <2>4. CASE pc' = "idle"
    <3>1. ~(MaxPasses >= 3)  BY <2>3, <2>4, ReconcilerConstants, SMT
    <3> QED  BY <2>3, <2>4, <3>1 DEF UndisturbedInv
  <2>5. CASE pc' # "idle"  BY <2>3, <2>5 DEF UndisturbedInv
  <2> QED  BY <2>4, <2>5
<1>7. CASE Drift  BY <1>7 DEF Drift, UndisturbedInv
<1>8. ASSUME NEW started \in BOOLEAN, Restart(started)  PROVE  UndisturbedInv'
  BY <1>8 DEF Restart, UndisturbedInv
<1>9. CASE UNCHANGED vars
  <2>1. UNCHANGED <<tableOf, nodeType, fib, nftQueue, current, pc, intent, pass, desired, todo,
                    report, favourable>>
    BY <1>9 DEF vars, node, kernel, call
  <2>2. RenderFIB(fib)' = RenderFIB(fib)
    BY <2>1 DEF RenderFIB, GetClassifications, GetLinksByType, GetPrefixRoutes, GetRules, GetSIDs,
                GetSRRoutes, Kind
  <2>3. PlanRefuses' <=> PlanRefuses  BY <2>1 DEF PlanRefuses, Older, RenderFails
  <2>4. ASSUME NEW W, ReconcileInv(W)  PROVE  ReconcileInv(W)'
    <3>1. Progress(W)'  BY <2>1, <2>2, <2>4 DEF ReconcileInv, Progress
    <3> QED  BY <2>1, <2>4, <3>1, StillWanted DEF ReconcileInv
  <2> QED  BY <2>1, <2>2, <2>3, <2>4 DEF UndisturbedInv
<1> QED
  BY <1>1, <1>2, <1>3, <1>4, <1>5, <1>6, <1>7, <1>8, <1>9 DEF Next, Step

\* UndisturbedInv is an invariant.
LEMMA UndisturbedInvariant == Spec => []UndisturbedInv
<1>1. Init => UndisturbedInv  BY DEF Init, UndisturbedInv
<1> QED
  BY <1>1, TypesInvariant, UndisturbedStep, CallInvariant, SoundInvariant, PTL DEF Spec

\* When an undisturbed Reconcile says it has converged, the kernel has the
\* rendered resources in every field, though Diff compared keys only; for any
\* intent, any kernel to start from and any number of passes.
THEOREM ConvergedMeansComplete == Spec => []ConvergedIsComplete
<1>1. UndisturbedInv => ConvergedIsComplete  BY DEF UndisturbedInv, ConvergedIsComplete
<1> QED  BY <1>1, UndisturbedInvariant, PTL

\* The three passes of Reconcile are enough: one that no fault disturbs and
\* nothing from before stands in the way of ends converged, whatever it has to
\* remove and to add, unless Plan refuses the intent.
THEOREM ThreePassesConverge ==
    ASSUME MaxPasses >= 3
    PROVE  Spec => []UndisturbedReconcileConverges
<1>1. UndisturbedInv => UndisturbedReconcileConverges
  BY DEF UndisturbedInv, UndisturbedReconcileConverges
<1> QED  BY <1>1, UndisturbedInvariant, PTL
=============================================================================
