-------------------------------- MODULE MCPCE --------------------------------
(***************************************************************************)
(* An instance of the PCE: two parallel links from POP 1 to POP 2 and a    *)
(* detour over POP 3.  Demands and their loads come from a site catalogue. *)
(* Only the direction towards POP 2 is kept: the other one uses other      *)
(* directed edges and other keys throughout, and shares nothing with it.   *)
(*                                                                         *)
(* With Scale = 48 every utilization cost is exact for up to four units of *)
(* bookable capacity.  A time unit is one tick of 10 s: a link silent for  *)
(* 15 s is first seen to be down two ticks after its last result.          *)
(***************************************************************************)
EXTENDS PCE, TrafficDemands, TLC

MCNodes == 1..3
MCEdges == 1..4
MCNodeFrom == <<1, 1, 1, 3>>
MCNodeTo   == <<2, 2, 3, 2>>

MCClassIndex == 0 :> 0 @@ 1 :> 2

Site(id, tenant, tier, attach, mbps) ==
    [id |-> id, tenant |-> tenant, tier |-> tier, attach |-> attach, mbps |-> mbps]

\* the demands of a catalogue, in order; the instance numbers them
Forward(sites) == DemandOrder({d \in BuildDemands(sites) : d.to = 2})

LoadTable(catalogue) ==
    FoldSet(LAMBDA R, table : R :> HoseLoad({catalogue[i] : i \in R}) @@ table,
            <<>>, SUBSET DOMAIN catalogue)

BulkOf(catalogue) ==
    {i \in DOMAIN catalogue : catalogue[i].label = DefaultClassLabel}

\* a tenant with a named class and bulk
Mixed ==
    Forward({Site(1, 1, 2, 1, 1 :> 1 @@ 0 :> 2), Site(2, 1, 2, 2, 1 :> 2 @@ 0 :> 2)})
MixedDemands == DOMAIN Mixed
MixedTable == LoadTable(Mixed)
MixedLoad(R) == MixedTable[R]
MixedBulk == BulkOf(Mixed)
MixedBookable == <<3, 2, 3, 3>>

\* a gold tenant with a named class and bulk, and a silver tenant with bulk from
\* POP 3, on a topology whose detour over POP 3 has two parallel last hops, so
\* that a path can be left for one that shares an edge with it
Mesh ==
    Forward({Site(1, 1, 2, 1, 1 :> 1 @@ 0 :> 2), Site(2, 1, 2, 2, 1 :> 2 @@ 0 :> 2),
             Site(3, 2, 1, 3, 0 :> 1),           Site(4, 2, 1, 2, 0 :> 1)})
MeshDemands == DOMAIN Mesh
MeshTable == LoadTable(Mesh)
MeshLoad(R) == MeshTable[R]
MeshBulk == BulkOf(Mesh)
MeshFrom == [d \in MeshDemands |-> Mesh[d].from]
MeshBookable == <<2, 3, 2, 3>>
MeshNodeFrom == <<1, 1, 3, 3>>
MeshNodeTo   == <<2, 3, 2, 2>>

\* one demand of a named class
Voice == Forward({Site(1, 1, 2, 1, 1 :> 1), Site(2, 1, 2, 2, 1 :> 1)})
VoiceDemands == DOMAIN Voice
VoiceTable == LoadTable(Voice)
VoiceLoad(R) == VoiceTable[R]

\* one demand of the default class that takes a third of a link
LightBulk == Forward({Site(1, 1, 2, 1, 0 :> 1), Site(2, 1, 2, 2, 0 :> 1)})
LightDemands == DOMAIN LightBulk
LightTable == LoadTable(LightBulk)
LightLoad(R) == LightTable[R]

\* one demand of the default class that takes a whole link
FullBulk == Forward({Site(1, 1, 2, 1, 0 :> 3), Site(2, 1, 2, 2, 0 :> 3)})
FullTable == LoadTable(FullBulk)
FullLoad(R) == FullTable[R]

EvenBookable == <<3, 3, 3, 3>>
NoBulk == {}
AllBulk == Demands

MCOrder == [i \in 1..Cardinality(Demands) |-> i]
ToPop2 == [d \in Demands |-> 2]
FromPop1 == [d \in Demands |-> 1]
SpreadCost == <<0, 20, 24, 24>>
MCInitialCost == [e \in Edges |-> IF e = 1 THEN 0 ELSE 24]
===============================================================================
