----------------------------- MODULE Collectors -----------------------------
(***************************************************************************)
(* What the control plane hears from the nodes: the measurements of a link *)
(* (Telemetry, with Probes) and the End.X SIDs (Reports), beside each      *)
(* other in one process, which restarts as a whole.                        *)
(***************************************************************************)
EXTENDS Telemetry

CONSTANTS Routers, Bundles, SIDs, NoSID, ReportFeedCap, NoReport

ASSUME CollectorsConstants ==
    /\ Bundles \subseteq Routers /\ NoSID \notin SIDs /\ ReportFeedCap \in Nat \ {0}
    /\ \A s \in Scenarios : s.reporters \subseteq Routers /\ s.skewed \in BOOLEAN

VARIABLES reporter, kernel, state, watching, due, reportFeed, endX, reportedAt, segment

R == INSTANCE Reports

ASSUME NoReportAssumption == NoReport \notin R!ReportEntries

reporting == <<reporter, kernel, state, watching, due, reportFeed, endX, reportedAt, segment>>
measuring == <<supervisor, bound, sender, runs, delivery, collector, rows, history>>
vars == <<scenario, faults, measuring, reporting>>

Init == TelemetryInit /\ R!ReportsInit

ControlPlaneRestarts == CollectorRestarts /\ R!ReportCollectorRestarts

Next ==
    \/ TelemetryNext /\ UNCHANGED reporting
    \/ R!ReportsNext /\ UNCHANGED measuring
    \/ ControlPlaneRestarts

Spec == Init /\ [][Next]_vars /\ TelemetryFairness /\ R!ReportsFairness

-----------------------------------------------------------------------------
\* The types of the state: in particular only running senders have a socket,
\* no more results wait for their answer than the stream allows, and every
\* End.X SID in the topology has a time to go by.
TypeOK == TelemetryTypeOK /\ R!ReportsTypeOK

\* A path comes to use the SID its router last reported, or the End SID when
\* the router no longer reports.
SegmentsFollowRouters == R!SegmentsFollowRouters
=============================================================================
