----------------------------- MODULE Dataplane -----------------------------
(***************************************************************************)
(* The Linux dataplane of a node (dataplane_netlink.go) and the resources  *)
(* the reconciler sees in it (resource*.go).                               *)
(*                                                                         *)
(* The kernel's state is a set of objects, each a record with a kind.      *)
(* Every netlink operation is a function from such a set to the next one.  *)
(* An operation is a few netlink calls and its outcome o says how far it   *)
(* got: "ok", "err" (the first call failed) or "half" (a later one did).   *)
(* An interface index stands for the link it was read from, since only the *)
(* reconciler creates links of its own group.  The parent of a tunnel, the *)
(* metrics and the address families are left out: no decision depends on   *)
(* them.  UpsertPolicy, UpsertRouteToPolicy and GetDefaultRouteAndDev have *)
(* no caller in the reconciler.                                            *)
(***************************************************************************)
EXTENDS Integers, Sequences

CONSTANTS
    TableSpan,      \* 2^24: VRF table ids are below it (vrfTableBits)
    TableIDs,       \* 2^32: the kernel's table ids are below it
    DefaultPrefix   \* ::/0

NoDev == <<>>
Loopback == <<"lo">>
VrfName(t) == <<"maeto-vrf", t>>

-----------------------------------------------------------------------------
\* The resources.  An object of the kernel is a resource with what is only
\* observed: whether a link is up and whether it carries Maeto's group.
VRFDevice(n, tb, up) == [kind |-> "vrf", name |-> n, table |-> tb, up |-> up, owned |-> TRUE]
VRF(n, tb) == VRFDevice(n, tb, TRUE)
XFRM(n, id, m) == [kind |-> "xfrm", name |-> n, ifid |-> id, master |-> m, up |-> TRUE]
Route(tb, d, dev) == [kind |-> "route", table |-> tb, dst |-> d, dev |-> dev]
Rule(p, s, tb, m, i) ==
    [kind |-> "rule", priority |-> p, src |-> s, table |-> tb, mark |-> m, iif |-> i]
SID(s, tb) == [kind |-> "sid", sidType |-> "dt46", sid |-> s, table |-> tb]
SRRoute(p, segs, tb) == [kind |-> "sr_route", prefix |-> p, segments |-> segs, table |-> tb]
Classification(c, m) == [kind |-> "classification", classifier |-> c, mark |-> m]

\* The ID methods: what Diff tells resources apart by.
VRFKey(r) == <<"vrf", r.name>>
XFRMKey(r) == <<"xfrm", r.name, r.ifid>>
RouteKey(r) == <<"route", r.table, r.dst, r.dev>>
RuleKey(r) == <<"rule", r.priority, r.src, r.table, r.mark>>
SIDKey(r) == <<"sid", r.sidType, r.sid>>        \* VrfTableID is never set
SRRouteKey(r) == <<"sr_route", r.table, r.prefix, r.segments>>
ClassificationKey(r) == <<"classification", r.classifier, r.mark>>

Key(r) ==
    CASE r.kind = "vrf" -> VRFKey(r)
      [] r.kind = "xfrm" -> XFRMKey(r)
      [] r.kind = "route" -> RouteKey(r)
      [] r.kind = "rule" -> RuleKey(r)
      [] r.kind = "sid" -> SIDKey(r)
      [] r.kind = "sr_route" -> SRRouteKey(r)
      [] r.kind = "classification" -> ClassificationKey(r)

Keys(S) == {Key(r) : r \in S}

Kind(f, k) == {x \in f : x.kind = k}
Links(f) == Kind(f, "vrf") \cup Kind(f, "xfrm")

-----------------------------------------------------------------------------
\* What the kernel does by itself.  A link that goes takes the routes and the
\* SIDs on it; a VRF that goes also frees its tunnels, which flushes theirs.
LinkDel(f, link) ==
    LET slaves == {x \in Kind(f, "xfrm") : link.kind = "vrf" /\ x.master = link.name}
        gone == {link.name} \cup {x.name : x \in slaves}
    IN  {x \in f \ (slaves \cup {link}) :
           /\ x.kind = "route" => x.dev \notin gone
           /\ x.kind = "sid" => ~(link.kind = "vrf" /\ x.table = link.table)}
        \cup {[x EXCEPT !.master = NoDev] : x \in slaves}

\* netlink sends a table id, an int to the caller, as 32 bits.
KernelTable(tb) == tb % TableIDs

\* A route replaces the one for the same destination in the same table.
RouteReplace(f, r) ==
    {x \in f : ~(x.kind = "route" /\ x.table = r.table /\ x.dst = r.dst)} \cup {r}

-----------------------------------------------------------------------------
vrfCatchAll(tb) == Route(tb, DefaultPrefix, Loopback)

\* vrfByTable, the empty set when no device owns the table.
vrfByTable(f, tb) == {v \in Kind(f, "vrf") : v.table = tb}

\* mutant: a device with the name and another table is replaced
UpsertVRFReplacing(f, n, tb, o) ==
    IF o = "err" THEN f
    ELSE RouteReplace({x \in f : ~(x \in Links(f) /\ x.name = n)} \cup {VRF(n, tb)}, vrfCatchAll(tb))

\* The kernel is in strict mode (UpsertVRF turns it on): a second device for a
\* table is refused.
UpsertVRF(f, n, tb, o) ==
    LET existing == {x \in Links(f) : x.name = n}
        mine == {x \in existing : x.kind = "vrf" /\ x.table = tb}
        added == IF existing = {} THEN f \cup {VRFDevice(n, tb, FALSE)} ELSE f
        raised == {IF x.kind = "vrf" /\ x.name = n /\ ~x.up THEN [x EXCEPT !.up = TRUE] ELSE x :
                   x \in added}
    IN  IF o = "err" THEN f
        ELSE IF existing # {} /\ mine = {} THEN f       \* not a vrf, or another table
        ELSE IF existing = {} /\ vrfByTable(f, tb) # {} THEN f
        ELSE IF o = "half" THEN added
        ELSE RouteReplace(raised, vrfCatchAll(tb))

\* LinkByIndex: the link that was read, or nothing when it went in the meantime.
LinkByIndex(f, link) == {x \in Kind(f, link.kind) : x.name = link.name}

RemoveVRF(f, link, o) ==
    LET mine == {v \in LinkByIndex(f, link) : v.owned}
        v == CHOOSE v \in mine : TRUE
        bare == f \ {vrfCatchAll(v.table)}
    IN  IF o = "err" \/ mine = {} THEN f
        ELSE IF o = "half" THEN bare ELSE LinkDel(bare, v)

\* A tunnel of the name is left as it is; one of another name that has the
\* if_id makes the kernel refuse the new one.
InsertXFRMInterface(f, n, id, m, o) ==
    IF o = "err" \/ (\E x \in Links(f) : x.name = n) THEN f
    ELSE IF \E x \in Kind(f, "xfrm") : x.ifid = id THEN f
    ELSE IF m # NoDev /\ (o = "half" \/ ~\E v \in Kind(f, "vrf") : v.name = m)
           THEN f \cup {[XFRM(n, id, NoDev) EXCEPT !.up = FALSE]}
    ELSE f \cup {[XFRM(n, id, m) EXCEPT !.up = (o = "ok")]}

RemoveXFRMInterface(f, link, o) ==
    IF o # "ok" \/ LinkByIndex(f, link) = {} THEN f
    ELSE LinkDel(f, CHOOSE x \in LinkByIndex(f, link) : TRUE)

\* A device route needs its device, and the device up.  It needs the device
\* enslaved only when a VRF owns the table.
InsertPrefixRoute(f, dev, tb, d, o) ==
    IF o = "ok" /\ \E x \in Kind(f, "xfrm") :
         /\ x.name = dev /\ x.up
         /\ \A v \in vrfByTable(f, tb) : x.master = v.name
    THEN RouteReplace(f, Route(tb, d, dev)) ELSE f

RemovePrefixRoute(f, d, tb, o) ==
    IF o # "ok" THEN f ELSE {x \in f : ~(x.kind = "route" /\ x.table = tb /\ x.dst = d)}

UpsertRule(f, p, s, tb, m, i, o) ==
    IF o # "ok" THEN f ELSE f \cup {Rule(p, s, KernelTable(tb), m, i)}

RemoveRule(f, p, s, tb, m, i, o) == IF o # "ok" THEN f ELSE f \ {Rule(p, s, tb, m, i)}

UpsertDT46SID(f, s, tb, o) ==
    IF o # "ok" \/ vrfByTable(f, tb) = {} THEN f
    ELSE {x \in f : ~(x.kind = "sid" /\ x.sid = s)} \cup {SID(s, tb)}

RemoveSID(f, s, o) == IF o # "ok" THEN f ELSE {x \in f : ~(x.kind = "sid" /\ x.sid = s)}

InsertSRRouteForPrefix(f, p, tb, segs, o) ==
    IF o # "ok" \/ segs = <<>> THEN f
    ELSE {x \in f : ~(x.kind = "sr_route" /\ x.prefix = p /\ x.table = KernelTable(tb))}
           \cup {SRRoute(p, segs, KernelTable(tb))}

RemoveSRRouteForPrefix(f, p, tb, o) ==
    IF o # "ok" THEN f
    ELSE {x \in f : ~(x.kind = "sr_route" /\ x.prefix = p /\ x.table = tb)}

-----------------------------------------------------------------------------
\* nftables.  Changes of the dscpmark map are queued and sent as one batch by
\* the next EnsureClassificationBase, which alone flushes.  An element is keyed
\* by one byte; a deletion is asked for with a key of four.
InsertClassification(q, c, m) == Append(q, [op |-> "add", key |-> <<c>>, mark |-> m])
RemoveClassification(q, c) == Append(q, [op |-> "del", key |-> <<c, 0, 0, 0>>, mark |-> 0])

ElementKey(x) == <<x.classifier>>

\* Between operations i and j of a batch the key is deleted.
DeletedBetween(q, i, j, key) ==
    \E n \in (i + 1)..(j - 1) : q[n].op = "del" /\ q[n].key = key

\* The kernel takes a batch as a whole or not at all: it refuses to delete
\* what is not there and to add a key that has another mark, before the batch
\* or by it.
BatchIsRefused(f, q) ==
    \E i \in 1..Len(q) :
        \/ /\ q[i].op = "del"
           /\ ~\E x \in Kind(f, "classification") : ElementKey(x) = q[i].key
        \/ /\ q[i].op = "add"
           /\ \/ /\ \E x \in Kind(f, "classification") :
                      ElementKey(x) = q[i].key /\ x.mark # q[i].mark
                 /\ ~DeletedBetween(q, 0, i, q[i].key)
              \/ \E j \in 1..(i - 1) :
                    /\ q[j].op = "add" /\ q[j].key = q[i].key /\ q[j].mark # q[i].mark
                    /\ ~DeletedBetween(q, j, i, q[i].key)

LastOp(q, k) == CHOOSE i \in 1..Len(q) :
    q[i].key = k /\ \A j \in (i + 1)..Len(q) : q[j].key # k

EnsureClassificationBase(f, q) ==
    LET touched == {q[i].key : i \in 1..Len(q)}
    IN  {x \in f : x.kind = "classification" => ElementKey(x) \notin touched}
        \cup {Classification(q[LastOp(q, k)].key[1], q[LastOp(q, k)].mark) :
                k \in {k \in touched : q[LastOp(q, k)].op = "add"}}

-----------------------------------------------------------------------------
\* The read side: what carries Maeto's group or one of its route protocols.
\* The catch-all is tagged like any other route, so it is listed too.
GetLinksByType(f, k) == {x \in Kind(f, k) : k = "vrf" => x.owned}
GetPrefixRoutes(f) == Kind(f, "route")
GetRules(f) == Kind(f, "rule")
GetSIDs(f) == Kind(f, "sid")
GetSRRoutes(f) == Kind(f, "sr_route")
GetClassifications(f) == Kind(f, "classification")
=============================================================================
