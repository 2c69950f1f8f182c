---------------------------- MODULE MCIntentSync ----------------------------
\* Instance of IntentSync: two PEs and the portal of one site, attached to the
\* first.  The scenarios put the agent, the portal, both or neither beside the
\* control plane.
EXTENDS IntentSync

CONSTANTS p1, p2, c1

PEsDef == {p1, p2}
CPEsDef == {c1}
AttachDef == [c \in {c1} |-> p1]

Scenario(N, t, d, f) == [nodes |-> N, tunnels |-> t, dispatches |-> d, faults |-> f]
ScenariosDef == {Scenario({p1}, 1, 1, 0), Scenario({p1}, 0, 1, 1), Scenario({p1}, 2, 0, 1),
                 Scenario({c1}, 2, 0, 1), Scenario({p1, c1}, 1, 0, 0), Scenario({}, 0, 1, 2),
                 Scenario({p1}, 1, 0, 2)}
=============================================================================
