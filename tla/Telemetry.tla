----------------------------- MODULE Telemetry ------------------------------
(***************************************************************************)
(* The measurement of a link: the probes of the node at one end (Probes),  *)
(* the reflector at the other that publishes a result for each one it      *)
(* sees, the stream of results, and the collector of the control plane     *)
(* (telemetry_collector*.go).                                              *)
(*                                                                         *)
(* The stream is read through a durable consumer with explicit             *)
(* acknowledgement: a result that is not acknowledged comes again, until   *)
(* the stream drops it for its age.  Time is not counted: an outage may    *)
(* outlast the results it holds up.  The latency average is reduced to its *)
(* number of samples, the loss average to which probes were counted as     *)
(* lost.  All senders are of one link, whose address may change.           *)
(***************************************************************************)
EXTENDS Probes, FiniteSets

CONSTANTS
    ReorderTolerance,   \* stampReorderTolerance
    MaxLostPerSample,   \* stampMaxLostPerSample
    WarmupSamples,      \* ewmaWarmupSamples
    MaxAckPending,      \* how many results the stream lets wait for their answer
    Unseen

ASSUME TelemetryConstants ==
    /\ ReorderTolerance \in Nat /\ MaxLostPerSample \in Nat /\ WarmupSamples \in Nat
    /\ MaxAckPending \in Nat \ {0} /\ Unseen \notin Nat

VARIABLES
    runs,               \* sockets opened so far, to tell their probes apart
    wire,               \* probes under way
    stream,             \* results not yet delivered
    again,              \* results delivered and to be delivered again
    lastSeq,            \* stampLastSeq of the link
    samples,            \* n of the latency average
    converged,          \* the edge is warmed up in the cost graph
    rows,               \* the samples in the database
    published,          \* history: the results the stream has had
    expired,            \* history: those it dropped for their age
    handled,            \* history: results handled by this collector
    falseLoss,          \* history: it counted a probe as lost after its result
    outOfOrder          \* history: a result came to it Overtaken

probing == <<scenario, supervisor, bound, sender, faults>>
delivery == <<wire, stream, again>>
collector == <<lastSeq, samples, converged>>
history == <<published, expired, handled, falseLoss, outOfOrder>>
telemetry == <<probing, runs, delivery, collector, rows, history>>

TelemetryInit ==
    /\ ProbesInit
    /\ runs = 0 /\ wire = {} /\ stream = <<>> /\ again = {}
    /\ lastSeq = Unseen /\ samples = 0 /\ converged = FALSE
    /\ rows = {} /\ published = {} /\ expired = {} /\ handled = {}
    /\ falseLoss = FALSE /\ outOfOrder = FALSE

-----------------------------------------------------------------------------
\* The probes.

Opens(id) ==
    /\ runs < scenario.runs /\ runs' = runs + 1
    /\ SenderOpens(id)
    /\ UNCHANGED <<delivery, collector, rows, history>>

\* encodeNext: the packet carries the number of the socket's next probe.
encodeNext(id) == [run |-> runs, seq |-> sender[id]]

Sends(id) ==
    /\ sender[id] < scenario.probes /\ SenderTicks(id, TRUE)
    /\ wire' = wire \cup {encodeNext(id)}
    /\ UNCHANGED <<runs, stream, again, collector, rows, history>>

SendFails(id) == SenderTicks(id, FALSE) /\ UNCHANGED <<runs, delivery, collector, rows, history>>

\* The reflector at the other end reads a packet.
Serve(p) == wire' = wire \ {p}

\* Its result.  When the clocks of the nodes differ by more than the delay,
\* the probe seems to have arrived before it was sent.
reflectorResult(p, skewed) == [run |-> p.run, seq |-> p.seq, skewed |-> skewed]

\* The dispatcher publishes a result once, whatever becomes of it.
Dispatch(r) == stream' = Append(stream, r) /\ published' = published \cup {r}

\* Results are published in the order of arrival.
Reflect(p, skewed) ==
    /\ skewed => scenario.skewed
    /\ Serve(p) /\ Dispatch(reflectorResult(p, skewed))
    /\ UNCHANGED <<probing, runs, again, collector, rows, expired, handled, falseLoss, outOfOrder>>

\* The packet is lost on the way or cannot be decoded, or its result cannot be
\* published.
Lose(p) ==
    /\ Serve(p)
    /\ UNCHANGED <<probing, runs, stream, again, collector, rows, history>>

-----------------------------------------------------------------------------
\* The collector.

AtMost(k, n) == IF k < n THEN k ELSE n

\* mutant: any smaller number is taken for a restart
CountLossStrict(p) ==
    LET gap == AtMost(p.seq - lastSeq - 1, MaxLostPerSample)
        lost == {q \in handled : q.run = p.run /\ q.seq \in (lastSeq + 1)..(lastSeq + gap)}
    IN  /\ lastSeq' = p.seq
        /\ falseLoss' = (falseLoss \/ (lastSeq # Unseen /\ p.seq > lastSeq /\ lost # {}))

\* A number this far behind the last one means that the sender began again.
HasRestarted(p) == lastSeq - p.seq > ReorderTolerance

\* The loss accounting of handleSTAMP.
CountLoss(p) ==
    LET gap == AtMost(p.seq - lastSeq - 1, MaxLostPerSample)
        lost == {q \in handled : q.run = p.run /\ q.seq \in (lastSeq + 1)..(lastSeq + gap)}
    IN  IF lastSeq = Unseen THEN lastSeq' = p.seq /\ UNCHANGED falseLoss
        ELSE IF p.seq > lastSeq
             THEN lastSeq' = p.seq /\ falseLoss' = (falseLoss \/ lost # {})
        ELSE IF HasRestarted(p) THEN lastSeq' = p.seq /\ UNCHANGED falseLoss
        ELSE UNCHANGED <<lastSeq, falseLoss>>

\* p comes after a newer socket's result, or after one of its own socket that
\* is more than the tolerance ahead or was held against the older socket's.
Overtaken(p) ==
    \E q \in handled :
        \/ q.run > p.run
        \/ q.run = p.run /\ q.seq > p.seq + ReorderTolerance
        \/ q.run = p.run /\ q.seq > p.seq /\ HasRestarted(p)

\* One more sample of the latency average.
Observe(n) == AtMost(n + 1, WarmupSamples + 1)

MarkEdgeConverged(enough) == converged' = (converged \/ enough)

\* handleSTAMP: the averages first, then the row, then the cost graph.
HandleSTAMP(p, stored) ==
    /\ CountLoss(p)
    /\ samples' = Observe(samples)
    /\ rows' = IF stored THEN rows \cup {p} ELSE rows
    /\ MarkEdgeConverged(stored /\ samples' > WarmupSamples)
    /\ handled' = handled \cup {p} /\ UNCHANGED <<published, expired>>
    /\ outOfOrder' = (outOfOrder \/ Overtaken(p))

\* The answer to a delivery: Ack, which the stream may not get, or Nak.
Answer(p, ack) ==
    \/ /\ stream # <<>> /\ p = Head(stream) /\ stream' = Tail(stream)
       /\ Cardinality(again) < MaxAckPending
       /\ again' = IF ack THEN again ELSE again \cup {p}
    \/ /\ p \in again /\ UNCHANGED stream
       /\ again' = IF ack THEN again \ {p} ELSE again

\* mutant: a result is acknowledged though inserting it failed
ConsumeAcking(p, stored, acked) ==
    /\ Answer(p, acked /\ ~p.skewed)
    /\ IF p.skewed THEN stored /\ acked /\ UNCHANGED <<collector, rows, history>>
                   ELSE HandleSTAMP(p, stored)
    /\ IF stored /\ acked THEN UNCHANGED faults ELSE Fault
    /\ UNCHANGED <<scenario, supervisor, bound, sender, runs, wire>>

\* One delivery.  A skewed result is an error every time.
Consume(p, stored, acked) ==
    /\ Answer(p, stored /\ acked /\ ~p.skewed)
    /\ IF p.skewed THEN stored /\ acked /\ UNCHANGED <<collector, rows, history>>
                   ELSE HandleSTAMP(p, stored)
    /\ IF stored /\ acked THEN UNCHANGED faults ELSE Fault
    /\ UNCHANGED <<scenario, supervisor, bound, sender, runs, wire>>

\* The stream drops the results that are older than ProbeResultMaxAge, delivered
\* or not: those that were are older than those that were not.
ExpireResult(p) ==
    /\ Cardinality(expired) < scenario.expiries
    /\ \/ p \in again /\ again' = again \ {p} /\ UNCHANGED stream
       \/ again = {} /\ stream # <<>> /\ p = Head(stream) /\ stream' = Tail(stream) /\ UNCHANGED again
    /\ expired' = expired \cup {p}
    /\ UNCHANGED <<probing, runs, wire, collector, rows, published, handled, falseLoss, outOfOrder>>

\* The control plane restarts with new averages, and the durable consumer goes
\* on where it was.
CollectorRestarts ==
    /\ Fault
    /\ lastSeq' = Unseen /\ samples' = 0 /\ converged' = FALSE
    /\ handled' = {} /\ falseLoss' = FALSE /\ outOfOrder' = FALSE
    /\ UNCHANGED <<scenario, supervisor, bound, sender, runs, delivery, rows, published, expired>>

-----------------------------------------------------------------------------
Supervision ==
    \/ \E i \in PeerIntents : NewIntent(i)
    \/ ResyncTick \/ Reconcile \/ Stopped \/ StopTimesOut \/ ReflectorBinds
    \/ \E id \in Ids : ProbeStops(id) \/ ProbeFails(id)

Results == {stream[k] : k \in DOMAIN stream} \cup again

TelemetryNext ==
    \/ Supervision /\ UNCHANGED <<runs, delivery, collector, rows, history>>
    \/ \E id \in Senders :
         Opens(id) \/ Sends(id) \/ SendFails(id)
    \/ \E p \in wire : Lose(p) \/ \E skewed \in BOOLEAN : Reflect(p, skewed)
    \/ \E p \in Results : ExpireResult(p) \/ \E stored, acked \in BOOLEAN : Consume(p, stored, acked)

\* The supervisor and the goroutines get on, the ticker ticks, and the stream
\* delivers every result that is due while it has it.  A skewed result, which is
\* never acknowledged, comes of age.
TelemetryFairness ==
    /\ LET rest == <<runs, delivery, collector, rows, history>>
       IN  /\ WF_telemetry(ResyncTick /\ UNCHANGED rest) /\ WF_telemetry(Reconcile /\ UNCHANGED rest)
           /\ WF_telemetry(Stopped /\ UNCHANGED rest) /\ WF_telemetry(ReflectorBinds /\ UNCHANGED rest)
           /\ \A id \in Ids : WF_telemetry(ProbeStops(id) /\ UNCHANGED rest)
    /\ WF_telemetry(stream # <<>> /\ Consume(Head(stream), TRUE, TRUE))
    /\ WF_telemetry(\E p \in again : ~p.skewed /\ Consume(p, TRUE, TRUE))
    /\ WF_telemetry(\E p \in again : p.skewed /\ ExpireResult(p))

-----------------------------------------------------------------------------
TelemetryTypeOK ==
    /\ ProbesTypeOK
    /\ Results \cup rows \cup expired \cup handled \subseteq published
    /\ wire \subseteq [run : 1..runs, seq : 0..scenario.probes]
    /\ published \subseteq [run : 1..runs, seq : 0..scenario.probes, skewed : BOOLEAN]
    /\ Cardinality(again) <= MaxAckPending
    /\ lastSeq \in Nat \cup {Unseen} /\ samples \in 0..(WarmupSamples + 1)
    /\ converged \in BOOLEAN

\* handleSTAMP counts a probe as lost only when it has had no result for it,
\* although results are delivered again and probes overtake each other: unless
\* one comes later than the tolerance allows, after those of a newer socket, or
\* behind another at the very beginning of its socket, which stampLastSeq then
\* goes back to.
LossIsReal == ~outOfOrder => ~falseLoss

\* The consumer comes to have no result before it, and every one that was
\* published is then in the database, though inserting fails, acknowledgements
\* are lost, the control plane restarts and skewed results, which are refused,
\* take the places of those that may wait: unless the stream dropped it for its
\* age.  A consumer that skewed results have stopped goes on when they expire.
ResultsAreStored ==
    <>[](Results = {} /\ \A p \in published : p \in rows \/ p \in expired)
=============================================================================
