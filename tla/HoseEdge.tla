------------------------------- MODULE HoseEdge -------------------------------
(***************************************************************************)
(* One edge under the hose model: reservations of the demands that a site  *)
(* catalogue gives rise to come and go on it.  The catalogue is any of a   *)
(* bounded set, fixed when the behaviour starts; what the module asks is   *)
(* whether the reserved bandwidth is enough for the traffic the contracts  *)
(* allow, and whether the order of admission is the priority order.        *)
(***************************************************************************)
EXTENDS TrafficDemands, Sequences

CONSTANT SiteCatalogues     \* the sets of sites that may be loaded

\* Names are numbers here, and so are bandwidths, of which none is negative.
ASSUME SiteAssumption ==
    \A catalogue \in SiteCatalogues :
        /\ IsFiniteSet(catalogue)
        /\ \A s \in catalogue :
              /\ {s.tenant, s.tier, s.attach} \subseteq Int
              /\ \A label \in DOMAIN s.mbps : s.mbps[label] \in Nat

VARIABLES sites,            \* the loaded tenants' sites
          order,            \* demands in the order the PCE places them
          booked            \* demands with a reservation on the edge

vars == <<sites, order, booked>>

Init ==
    /\ sites \in SiteCatalogues
    /\ order = DemandOrder(BuildDemands(sites))
    /\ booked = {}

Demanded == {order[i] : i \in DOMAIN order}

Book(d) ==
    /\ d \notin booked
    /\ booked' = booked \cup {d}
    /\ UNCHANGED <<sites, order>>

Release(d) ==
    /\ d \in booked
    /\ booked' = booked \ {d}
    /\ UNCHANGED <<sites, order>>

Next == \E d \in Demanded : Book(d) \/ Release(d)

Spec == Init /\ [][Next]_vars

-------------------------------------------------------------------------------
TypeOK ==
    /\ sites \in SiteCatalogues
    /\ order \in [1..Cardinality(BuildDemands(sites)) -> BuildDemands(sites)]
    /\ booked \subseteq BuildDemands(sites)

(***************************************************************************)
(* Every traffic matrix within the contracts fits in the reservation: when *)
(* no POP of a tenant sends, or receives, more of a class than its sites   *)
(* contracted there, the booked demands together carry no more than the    *)
(* bandwidth CalculateReservedBandwidth adds up for the edge.              *)
(***************************************************************************)
WithinContract(traffic) ==
    \A d \in booked :
        LET Same == {x \in booked : x.tenant = d.tenant /\ x.label = d.label}
        IN /\ SumFunctionOnSet(traffic, {x \in Same : x.from = d.from})
                <= PopMbps(sites, d.tenant, d.from, d.label)
           /\ SumFunctionOnSet(traffic, {x \in Same : x.to = d.to})
                <= PopMbps(sites, d.tenant, d.to, d.label)

TrafficMatrices ==
    LET Top == Max({0} \cup {d.fromMbps : d \in booked})
    IN {t \in [booked -> 0..Top] : \A d \in booked : t[d] <= d.fromMbps}

HoseCoversContracts ==
    \A traffic \in TrafficMatrices :
        WithinContract(traffic) =>
            SumFunctionOnSet(traffic, booked) <= HoseLoad(booked)

(***************************************************************************)
(* Releasing one reservation never raises the load of the edge, although   *)
(* what it frees depends on what else is booked: this is the assumption    *)
(* BandwidthReservation makes of Load, and without it a Move could leave   *)
(* an edge it only releases overbooked.                                    *)
(***************************************************************************)
ReleaseNeverRaisesLoad ==
    [][HoseLoad(booked') > HoseLoad(booked) => booked \subseteq booked']_vars

(***************************************************************************)
(* The sort of BuildDemands serves priorities: no demand of the default    *)
(* class is placed before one of a named class, and among the named        *)
(* classes no demand of a lower tier before one of a higher tier; and the  *)
(* order is total, every demand having exactly one place in it.            *)
(***************************************************************************)
OrderIsPriority ==
    /\ Demanded = BuildDemands(sites)
    /\ \A i, j \in DOMAIN order : i < j =>
          /\ order[j].label # DefaultClassLabel =>
                /\ order[i].label # DefaultClassLabel
                /\ order[i].tier >= order[j].tier
===============================================================================
