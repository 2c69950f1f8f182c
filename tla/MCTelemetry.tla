---------------------------- MODULE MCTelemetry -----------------------------
\* Instance of Collectors: a link whose far end has one of two addresses, a
\* router with a single link and one with a bundle.  The scenarios put the
\* weight on the supervisor, on the results, on both or on the reports.
EXTENDS Collectors

CONSTANTS a1, a2, d1, r1, r2, s1, s2

PeerIntentsDef ==
    {[peers |-> {a1}, devs |-> d1], [peers |-> {a2}, devs |-> d1], [peers |-> {}, devs |-> d1]}
RoutersDef == {r1, r2}
BundlesDef == {r2}
SIDsDef == {s1, s2}

Scenario(i, p, r, e, f, sk, R1) ==
    [intents |-> i, probes |-> p, runs |-> r, expiries |-> e, faults |-> f, skewed |-> sk, reporters |-> R1]
ScenariosDef ==
    {Scenario(3, 0, 0, 0, 2, FALSE, {}), Scenario(1, 4, 1, 4, 0, FALSE, {}),
     Scenario(1, 3, 2, 0, 1, FALSE, {}), Scenario(1, 2, 2, 4, 1, FALSE, {}),
     Scenario(2, 1, 2, 2, 1, FALSE, {}), Scenario(1, 3, 1, 3, 1, TRUE, {}),
     Scenario(0, 0, 0, 0, 3, FALSE, {r1}), Scenario(0, 0, 0, 0, 2, TRUE, {r1}),
     Scenario(0, 0, 0, 0, 1, FALSE, {r1, r2})}
=============================================================================
