------------------------------- MODULE Reports ------------------------------
(***************************************************************************)
(* The End.X SIDs of the routers: allocated by the IGP, read from the      *)
(* kernel and reported by the agents (topology_state_reporter.go), kept in *)
(* the node-state bucket, watched by the control plane                     *)
(* (topology_report_collector.go), written to the topology, and put into   *)
(* the segment lists of the paths (controller_segments.go).                *)
(*                                                                         *)
(* Each router is the transit node of one path, over one of its links.     *)
(* Of a report's time only matters whether it is stale: a report of an     *)
(* agent that is silent becomes stale, one of an agent that reports does   *)
(* only when it is late (a fault).  A clock that is behind makes reports   *)
(* that are stale from the start.                                          *)
(***************************************************************************)
EXTENDS Integers, Sequences

CONSTANTS
    Routers,
    Bundles,        \* routers whose link is part of a bundle
    SIDs,           \* what the IGP allocates for the link
    NoSID,          \* no SID, for which the segment is the router's End
    ReportFeedCap,  \* capacity of the collector's feed
    NoReport

VARIABLES
    scenario, faults,
    reporter,       \* router -> "down", "mute" (without a publisher) or "reporting"
    kernel,         \* router -> the SID the IGP has installed
    state,          \* router -> its report in the bucket
    watching, due,  \* the watch is open; routers whose report it has to deliver
    reportFeed,     \* reports on their way to apply
    endX,           \* router -> EndX of the link in the topology
    reportedAt,     \* router -> "none", "fresh" or "stale"
    segment         \* router -> the SID that stands for it in the path

own == <<reporter, kernel, state, watching, due, reportFeed, endX, reportedAt, segment>>
vars == <<scenario, faults, own>>

Fault == faults < scenario.faults /\ faults' = faults + 1
Outcome(ok) == IF ok THEN UNCHANGED faults ELSE Fault

ReportsInit ==
    /\ reporter = [r \in Routers |-> "down"] /\ kernel = [r \in Routers |-> NoSID]
    /\ state = [r \in Routers |-> NoReport]
    /\ watching = TRUE /\ due = {} /\ reportFeed = <<>>
    /\ endX = [r \in Routers |-> NoSID] /\ reportedAt = [r \in Routers |-> "none"]
    /\ segment = [r \in Routers |-> NoSID]

-----------------------------------------------------------------------------
\* The router.

\* Run opens the bucket once; when that fails there will be no reports.
AgentStarts(r, ok) ==
    /\ r \in scenario.reporters /\ reporter[r] = "down"
    /\ reporter' = [reporter EXCEPT ![r] = IF ok THEN "reporting" ELSE "mute"]
    /\ Outcome(ok)
    /\ UNCHANGED <<scenario, kernel, state, watching, due, reportFeed, endX, reportedAt, segment>>

AgentDies(r) ==
    /\ reporter[r] # "down" /\ reporter' = [reporter EXCEPT ![r] = "down"] /\ Fault
    /\ UNCHANGED <<scenario, kernel, state, watching, due, reportFeed, endX, reportedAt, segment>>

\* The IGP allocates a SID for the adjacency, another one, or none when the
\* adjacency is gone.
Reallocate(r, sid) ==
    /\ r \in scenario.reporters /\ sid # kernel[r] /\ kernel' = [kernel EXCEPT ![r] = sid]
    /\ Outcome(kernel[r] = NoSID)
    /\ UNCHANGED <<scenario, reporter, state, watching, due, reportFeed, endX, reportedAt, segment>>

collect(r) == [router |-> r, sid |-> kernel[r], stale |-> scenario.skewed]

\* reportOnce, at the start and with every tick; reading the kernel or
\* publishing may fail.
ReportOnce(r, ok) ==
    /\ reporter[r] = "reporting"
    /\ state' = IF ok THEN [state EXCEPT ![r] = collect(r)] ELSE state
    /\ due' = IF ok /\ watching THEN due \cup {r} ELSE due
    /\ Outcome(ok)
    /\ UNCHANGED <<scenario, reporter, kernel, watching, reportFeed, endX, reportedAt, segment>>

IsStale(e) == [e EXCEPT !.stale = TRUE]

\* Time passes, and every report the router has made so far is stale.
Age(r) ==
    /\ r \in scenario.reporters
    /\ reportedAt[r] = "fresh" \/ (state[r] # NoReport /\ ~state[r].stale)
    /\ reportedAt' = [reportedAt EXCEPT ![r] = IF @ = "none" THEN @ ELSE "stale"]
    /\ state' = [state EXCEPT ![r] = IF @ = NoReport THEN @ ELSE IsStale(@)]
    /\ reportFeed' = [k \in DOMAIN reportFeed |-> IF reportFeed[k].router = r THEN IsStale(reportFeed[k])
                                                  ELSE reportFeed[k]]
    /\ UNCHANGED <<scenario, reporter, kernel, watching, due, endX, segment>>

BecomesStale(r) == reporter[r] # "reporting" /\ Age(r) /\ UNCHANGED faults
IsLate(r) == reporter[r] = "reporting" /\ Age(r) /\ Fault

\* The bucket drops a report that is older still.
Expire(r) ==
    /\ state[r] # NoReport /\ state[r].stale /\ reporter[r] # "reporting"
    /\ state' = [state EXCEPT ![r] = NoReport] /\ due' = due \ {r}
    /\ UNCHANGED <<scenario, faults, reporter, kernel, watching, reportFeed, endX, reportedAt, segment>>

-----------------------------------------------------------------------------
\* The collector.

\* A watch begins with the reports the bucket holds.
Watch == watching' = TRUE /\ due' = {r \in Routers : state[r] # NoReport}

Rewatch ==
    /\ ~watching /\ Watch
    /\ UNCHANGED <<scenario, faults, reporter, kernel, state, reportFeed, endX, reportedAt, segment>>

WatchCloses ==
    /\ scenario.reporters # {}
    /\ watching /\ watching' = FALSE /\ due' = {} /\ Fault
    /\ UNCHANGED <<scenario, reporter, kernel, state, reportFeed, endX, reportedAt, segment>>

WatchDelivers(r) ==
    /\ r \in due /\ Len(reportFeed) < ReportFeedCap
    /\ reportFeed' = Append(reportFeed, state[r]) /\ due' = due \ {r}
    /\ UNCHANGED <<scenario, faults, reporter, kernel, state, watching, endX, reportedAt, segment>>

SetEndXSIDs(r, sid) == endX' = [endX EXCEPT ![r] = sid]

\* mutant: the time of the report is not kept
ApplyTimeless ==
    /\ reportFeed # <<>> /\ reportFeed' = Tail(reportFeed)
    /\ SetEndXSIDs(Head(reportFeed).router, Head(reportFeed).sid)
    /\ UNCHANGED <<scenario, faults, reporter, kernel, state, watching, due, reportedAt, segment>>

Apply ==
    /\ reportFeed # <<>> /\ reportFeed' = Tail(reportFeed)
    /\ LET e == Head(reportFeed)
       IN  /\ SetEndXSIDs(e.router, e.sid)
           /\ reportedAt' = [reportedAt EXCEPT ![e.router] = IF e.stale THEN "stale" ELSE "fresh"]
    /\ UNCHANGED <<scenario, faults, reporter, kernel, state, watching, due, segment>>

\* clearStale, with every tick of the sweep.
ClearStale ==
    LET silent == {r \in Routers : reportedAt[r] = "stale"}
    IN  /\ silent # {}
        /\ endX' = [r \in Routers |-> IF r \in silent THEN NoSID ELSE endX[r]]
        /\ reportedAt' = [r \in Routers |-> IF r \in silent THEN "none" ELSE reportedAt[r]]
        /\ UNCHANGED <<scenario, faults, reporter, kernel, state, watching, due, reportFeed, segment>>

\* The control plane restarts; the segments stay in the intents of the nodes.
ReportCollectorRestarts ==
    /\ Watch /\ reportFeed' = <<>>
    /\ endX' = [r \in Routers |-> NoSID] /\ reportedAt' = [r \in Routers |-> "none"]
    /\ UNCHANGED <<reporter, kernel, state, segment>>

-----------------------------------------------------------------------------
\* The paths.

endXOf(r) == IF r \in Bundles THEN NoSID ELSE endX[r]

\* The dispatcher builds the segments of every path set the PCE sends, from
\* the topology as it is then.
transitSegments ==
    /\ segment' = [r \in Routers |-> endXOf(r)]
    /\ UNCHANGED <<scenario, faults, reporter, kernel, state, watching, due, reportFeed, endX, reportedAt>>

-----------------------------------------------------------------------------
ReportsNext ==
    \/ \E r \in Routers :
         \/ AgentDies(r) \/ BecomesStale(r) \/ IsLate(r) \/ Expire(r) \/ WatchDelivers(r)
         \/ \E ok \in BOOLEAN : AgentStarts(r, ok) \/ ReportOnce(r, ok)
         \/ \E sid \in SIDs \cup {NoSID} : Reallocate(r, sid)
    \/ Rewatch \/ WatchCloses \/ Apply \/ ClearStale \/ transitSegments

\* The tickers tick, the watch delivers and is opened again, a silent agent's
\* reports grow old.  An agent that is down may stay so.  The stream delivers in
\* the order of the reports, which are seconds apart: none is passed over for
\* ever, though the feed is full between any two deliveries.
ReportsFairness ==
    /\ \A r \in Routers :
         /\ WF_vars(ReportOnce(r, TRUE)) /\ WF_vars(BecomesStale(r)) /\ SF_vars(WatchDelivers(r))
    /\ WF_vars(Rewatch) /\ WF_vars(Apply) /\ WF_vars(ClearStale) /\ WF_vars(transitSegments)

-----------------------------------------------------------------------------
ReportEntries == [router : Routers, sid : SIDs \cup {NoSID}, stale : BOOLEAN]

ReportsTypeOK ==
    /\ reporter \in [Routers -> {"down", "mute", "reporting"}] /\ kernel \in [Routers -> SIDs \cup {NoSID}]
    /\ state \in [Routers -> ReportEntries \cup {NoReport}]
    /\ watching \in BOOLEAN /\ due \subseteq {r \in Routers : watching /\ state[r] # NoReport}
    /\ Len(reportFeed) <= ReportFeedCap
    /\ \A k \in DOMAIN reportFeed : reportFeed[k] \in ReportEntries
    /\ endX \in [Routers -> SIDs \cup {NoSID}] /\ segment \in [Routers -> SIDs \cup {NoSID}]
    /\ reportedAt \in [Routers -> {"none", "fresh", "stale"}]
    /\ \A r \in Routers : endX[r] # NoSID => reportedAt[r] # "none"

\* A path comes to use the SID a reporting router has in its kernel, and the
\* End SID of a router that no longer reports, though reports are late, fail
\* or are replayed by a new watch and the IGP changes the SID: the collector
\* remembers the time of the last report and sweeps.  A bundle is left to the
\* IGP; and the SID of a router whose clock is behind may come and go.
SegmentsFollowRouters ==
    \A r \in Routers :
        <>[](\/ segment[r] = IF reporter[r] = "reporting" /\ r \notin Bundles THEN kernel[r]
                             ELSE NoSID
             \/ scenario.skewed /\ reporter[r] = "reporting" /\ segment[r] = NoSID)
=============================================================================
