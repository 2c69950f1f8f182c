------------------------------ MODULE MCHoseEdge ------------------------------
(***************************************************************************)
(* Catalogues for HoseEdge: tenant 1 (tier 2) with sites on three POPs,    *)
(* one of them doubled, and tenant 2 (tier 1) on two, for one named class  *)
(* (label 1) and the default class.                                        *)
(***************************************************************************)
EXTENDS HoseEdge, TLC

MCClassIndex == 0 :> 0 @@ 1 :> 2

Site(id, tenant, tier, attach, named, default) ==
    [id |-> id, tenant |-> tenant, tier |-> tier, attach |-> attach,
     mbps |-> 1 :> named @@ 0 :> default]

MCSiteCatalogues ==
    {{Site(1, 1, 2, 1, a, 0), Site(2, 1, 2, 2, b, 0), Site(3, 1, 2, 3, c, 0)} :
        a, b \in 1..2, c \in 0..2}
    \cup
    {{Site(1, 1, 2, 1, a, 1), Site(2, 1, 2, 1, 1, b), Site(3, 1, 2, 2, c, 2),
      Site(4, 2, 1, 1, d, 1), Site(5, 2, 1, 2, 1, 1)} :
        a, b, c, d \in 0..1}
===============================================================================
