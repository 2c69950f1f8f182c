---------------------------- MODULE MCReconciler ----------------------------
(***************************************************************************)
(* A PE that serves a tenant, loses it to another one and serves both, and *)
(* a CPE whose tunnel is not ready, ready and re-created.  The two tenants *)
(* hash to two tables or to one.  A VRF of another program has the name of *)
(* the second tenant's, or the table of the first's.  One intent cannot be *)
(* installed: a color too large for a table id, two colors for one DSCP.   *)
(***************************************************************************)
EXTENDS Reconciler

CONSTANTS t1, t2, none

MCTableMaps == {[t \in {t1, t2} |-> IF t = t1 THEN 1 ELSE 2], [t \in {t1, t2} |-> 1]}

Foreign == [VRF(VrfName(t2), 9) EXCEPT !.owned = FALSE]
Squatter == [VRF(<<"other">>, 1) EXCEPT !.owned = FALSE]
MCInitialFibs == {{}, {Foreign}, {Squatter}}

Portal(id, p) == [ifid |-> id, prefix |-> p]
Path(c, segs) == [color |-> c, segments |-> segs, prefixes |-> {"remote"}]
Tenant(s, portals, paths) == [portals |-> portals, paths |-> paths, sid |-> s]
Class(d) == [dscp |-> d, color |-> 1]
PE(v, g, tenants, classes) ==
    [nodeType |-> "pe", version |-> v, generation |-> g,
     body |-> [tenants |-> tenants, classes |-> classes]]
CPE(g, id, p) ==
    [nodeType |-> "cpe", version |-> 1, generation |-> g,
     body |-> [ifid |-> id, prefix |-> p, tenant |-> t1]]

OneTenant(s, portal, path) == [t \in {t1} |-> Tenant(s, {portal}, {path})]
BothTenants ==
    [t \in {t1, t2} |->
        IF t = t1 THEN Tenant({"s1"}, {Portal(1, "p1")}, {Path(1, <<"a", "b">>)})
                  ELSE Tenant({"s2"}, {}, {Path(1, <<"c">>)})]

MCIntents ==
    {PE(1, 1, OneTenant({}, Portal(1, "p1"), Path(1, <<"a", "b">>)), {Class(46)}),
     PE(1, 2, OneTenant({"s1"}, Portal(2, "p1"), Path(1, <<"b", "a">>)), {Class(46)}),
     PE(1, 3, BothTenants, {}),
     PE(1, 3, [t \in {t2} |-> Tenant({}, {Portal(1, "p1")}, {Path(9, <<"a">>)})],
        {Class(46), [dscp |-> 46, color |-> 2]}),
     PE(2, 0, [t \in {t2} |-> Tenant({"s1"}, {}, {Path(1, <<"c">>)})], {Class(255)}),
     CPE(1, 0, ""), CPE(2, 1, "site"), CPE(3, 2, ""), CPE(4, 2, "site")}
=============================================================================
