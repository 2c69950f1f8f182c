---------------------------- MODULE TrafficDemands ----------------------------
(***************************************************************************)
(* What the tenants ask of the network: the demands the path computation   *)
(* places, the order it places them in, and the bandwidth a set of them    *)
(* reserves on one edge under the source-sink hose model.                  *)
(*                                                                         *)
(* A site is a record [id, tenant, tier, attach, mbps]: the POP it attaches*)
(* to and the bandwidth it contracted per class label.  Class labels,      *)
(* tenants, tiers and POPs are numbers, so that the code's cmp.Compare is  *)
(* the order of the integers.                                              *)
(***************************************************************************)
EXTENDS Integers, FiniteSets, FiniteSetsExt, Functions

CONSTANT ClassIndex     \* class label -> importance, from the class catalogue

\* The catalogue refuses a second class with the label or the index of another.
ASSUME ClassAssumption ==
    /\ IsFiniteSet(DOMAIN ClassIndex) /\ DOMAIN ClassIndex \subseteq Nat
    /\ \A l, m \in DOMAIN ClassIndex :
          ClassIndex[l] \in Nat /\ (ClassIndex[l] = ClassIndex[m] => l = m)

DefaultClassLabel == 0

(***************************************************************************)
(* Sites of one tenant on one POP are consolidated: their bandwidth adds   *)
(* up per label.                                                           *)
(***************************************************************************)
PopMbps(sites, tenant, pop, label) ==
    SumFunction([s \in {s \in sites : /\ s.tenant = tenant
                                      /\ s.attach = pop
                                      /\ label \in DOMAIN s.mbps} |-> s.mbps[label]])

(***************************************************************************)
(* One demand per tenant, class and ordered pair of distinct POPs that     *)
(* both contracted bandwidth for the class.                                *)
(***************************************************************************)
BuildDemands(sites) ==
    LET Demand(a, b, label) ==
          [tenant   |-> a.tenant, tier |-> a.tier, label |-> label,
           from     |-> a.attach, to   |-> b.attach,
           fromMbps |-> PopMbps(sites, a.tenant, a.attach, label),
           toMbps   |-> PopMbps(sites, a.tenant, b.attach, label)]
        Pairs == {ab \in sites \X sites : /\ ab[1].tenant = ab[2].tenant
                                          /\ ab[1].attach # ab[2].attach}
    IN {d \in {Demand(ab[1], ab[2], label) : ab \in Pairs,
                                             label \in DOMAIN ClassIndex} :
           d.fromMbps > 0 /\ d.toMbps > 0}

IsLabelDefault(label) == IF label = DefaultClassLabel THEN 1 ELSE 0

(***************************************************************************)
(* The comparator of the sort: named classes before the default one, then  *)
(* the better tier, then the more important class; the rest only breaks    *)
(* ties.                                                                   *)
(***************************************************************************)
\* mutant: tiers ranked the wrong way round
SortKeyTierAscending(d) ==
    <<IsLabelDefault(d.label), d.tier, -ClassIndex[d.label], d.tenant, d.from, d.to>>

SortKey(d) ==
    <<IsLabelDefault(d.label), -d.tier, -ClassIndex[d.label],
      d.tenant, d.from, d.to>>

Precedes(a, b) ==
    \E i \in 1..6 : /\ SortKey(a)[i] < SortKey(b)[i]
                    /\ \A j \in 1..(i - 1) : SortKey(a)[j] = SortKey(b)[j]

\* mutant: the last demand is cut off
DemandOrderCutShort(demands) ==
    [i \in 1..(Cardinality(demands) - 1) |->
        CHOOSE d \in demands :
            Cardinality({x \in demands : Precedes(x, d)}) = i - 1]

DemandOrder(demands) ==
    [i \in 1..Cardinality(demands) |->
        CHOOSE d \in demands :
            Cardinality({x \in demands : Precedes(x, d)}) = i - 1]

-------------------------------------------------------------------------------
(***************************************************************************)
(* The hose load of a set of reservations.  Within a tenant and a label    *)
(* every source POP, and every sink POP, counts once however many          *)
(* reservations share it; the smaller of the two sums is reserved.         *)
(***************************************************************************)
\* mutant: POPs told apart by their bandwidth instead of their name
SumSourcesByValue(R) == SumSet({r.fromMbps : r \in R})

SumSources(R) ==
    SumFunction([pop \in {r.from : r \in R} |-> (CHOOSE r \in R : r.from = pop).fromMbps])

SumSinks(R) ==
    SumFunction([pop \in {r.to : r \in R} |-> (CHOOSE r \in R : r.to = pop).toMbps])

\* mutant: the mean of the sources instead of their sum
LabelLoadMean(R) ==
    Min({SumSources(R) \div Cardinality(R), SumSinks(R)})

LabelLoad(R) == Min({SumSources(R), SumSinks(R)})

CalculateReservedBandwidth(R) ==
    SumFunction([label \in {r.label : r \in R} |-> LabelLoad({r \in R : r.label = label})])

HoseLoad(R) ==
    SumFunction([t \in {r.tenant : r \in R} |->
                    CalculateReservedBandwidth({r \in R : r.tenant = t})])
===============================================================================
