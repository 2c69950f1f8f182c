-------------------------- MODULE CollectorsProofs ---------------------------
(***************************************************************************)
(* Proofs about Collectors, for every set of intents, addresses and        *)
(* routers and all bounds: no probe has two goroutines unless a stop has   *)
(* timed out, only probes without a result are counted as lost, what the   *)
(* feeds, the consumer and the topology hold is typed and bounded, only    *)
(* its age keeps a result from the database, the supervisor's map is what  *)
(* an intent asks for, and the topology follows the reports.               *)
(***************************************************************************)
EXTENDS Collectors, FiniteSetTheorems, TLAPS

\* Zenon is the prover of every leaf that names no other.
USE Zenon

\* A sequence is a function on 1 .. Len(s), and none but <<>> has length 0.
LEMMA LenProperties ==
    ASSUME NEW S, NEW s \in Seq(S)
    PROVE  /\ Len(s) \in Nat /\ s \in [1 .. Len(s) -> S] /\ DOMAIN s = 1 .. Len(s)
           /\ s # <<>> => Len(s) # 0
BY SMT

\* Taking the first element moves the others one place on.
LEMMA HeadTailProperties ==
    ASSUME NEW S, NEW s \in Seq(S), s # <<>>
    PROVE  /\ Head(s) \in S /\ Tail(s) \in Seq(S) /\ Len(Tail(s)) = Len(s) - 1
           /\ \A i \in 1 .. Len(Tail(s)) : Tail(s)[i] = s[i + 1]
BY SMT

\* Appending leaves the others where they are.
LEMMA AppendProperties ==
    ASSUME NEW S, NEW s \in Seq(S), NEW e \in S
    PROVE  /\ Append(s, e) \in Seq(S) /\ Append(s, e) # <<>>
           /\ Len(Append(s, e)) = Len(s) + 1 /\ Append(s, e)[Len(s) + 1] = e
           /\ \A i \in 1 .. Len(s) : Append(s, e)[i] = s[i]
BY SMT

\* What the supervisor is waiting for is no longer in its map, it waits only
\* within a reconcile, and goroutines are late only after a timeout.
SupervisorInv ==
    /\ probes \in [Ids -> {"none", "running", "exited"}]
    /\ stopping \subseteq Ids /\ late \in [Ids -> Nat]
    /\ target = {} => stopping = {}
    /\ \A id \in stopping : probes[id] # "running"
    /\ ~timedOut => \A id \in Ids : late[id] = 0

supervisorState == <<target, probes, stopping, late, timedOut>>

\* No probe runs at the start.
LEMMA SupervisorInit ==
    Init => SupervisorInv
BY SMT DEF Init, TelemetryInit, ProbesInit, SupervisorInv

\* Every step of the supervisor and of the goroutines preserves it.
LEMMA SupervisionStep ==
    ASSUME SupervisorInv, Supervision
    PROVE  SupervisorInv'
<1> USE DEF SupervisorInv
<1>1. CASE \E i \in PeerIntents : NewIntent(i)
  BY <1>1, SMT DEF NewIntent
<1>2. CASE ResyncTick
  BY <1>2 DEF ResyncTick
<1>3. CASE Reconcile
  <2> DEFINE i == Head(probeFeed)
             gone == {id \in Ids : probes[id] # "none" /\ ~IsKept(id, Target(i))}
  <2>1. CASE i.peers = {}
    BY <1>3, <2>1 DEF Reconcile
  <2>2. CASE i.peers # {}
    <3> HIDE DEF i
    <3>1. /\ target = {} /\ stopping = {} /\ UNCHANGED <<late, timedOut>>
          /\ target' = Target(i)
          /\ probes' = [id \in Ids |-> IF id \in gone THEN "none" ELSE probes[id]]
          /\ stopping' = stopping \cup {id \in gone : probes[id] = "running"}
      BY <1>3, <2>2 DEF Reconcile, i
    <3>2. target' # {}
      BY <3>1 DEF Target
    <3>3. probes' \in [Ids -> {"none", "running", "exited"}] /\ stopping' \subseteq Ids
      BY <3>1
    <3>4. \A id \in stopping' : probes'[id] # "running"
      BY <3>1
    <3> QED
      BY <3>1, <3>2, <3>3, <3>4
  <2> QED
    BY <2>1, <2>2
<1>4. CASE Stopped
  BY <1>4 DEF Stopped, StartMissing, startProbe
<1>5. CASE StopTimesOut
  <2>1. timedOut' = TRUE /\ target' = {} /\ stopping' = {}
    BY <1>5 DEF StopTimesOut, StartMissing
  <2>2. probes' \in [Ids -> {"none", "running", "exited"}] /\ late' \in [Ids -> Nat]
    BY <1>5, SMT DEF StopTimesOut, StartMissing, startProbe
  <2> QED
    BY <2>1, <2>2
<1>6. CASE ReflectorBinds
  BY <1>6 DEF ReflectorBinds, supervisor
<1>7. ASSUME NEW id \in Ids, ProbeStops(id)
      PROVE  SupervisorInv'
  BY <1>7, SMT DEF ProbeStops
<1>8. ASSUME NEW id \in Ids, ProbeFails(id)
      PROVE  SupervisorInv'
  BY <1>8 DEF ProbeFails, Exit
<1> QED
  BY <1>1, <1>2, <1>3, <1>4, <1>5, <1>6, <1>7, <1>8 DEF Supervision

\* The steps of the measurements and the reports leave the supervisor alone.
LEMMA SupervisorFrame ==
    ASSUME Next, ~Supervision
    PROVE  UNCHANGED supervisorState
<1> USE DEF supervisorState
<1>1. CASE TelemetryNext
  <2>1. ASSUME NEW id \in Senders, Opens(id) \/ Sends(id) \/ SendFails(id)
        PROVE  UNCHANGED supervisorState
    BY <2>1 DEF Opens, Sends, SendFails, SenderOpens, SenderTicks, supervisor
  <2>2. ASSUME NEW p \in wire, Lose(p) \/ \E skewed \in BOOLEAN : Reflect(p, skewed)
        PROVE  UNCHANGED supervisorState
    BY <2>2 DEF Lose, Reflect, probing, supervisor
  <2>3. ASSUME NEW p \in Results, NEW stored \in BOOLEAN, NEW acked \in BOOLEAN,
               ExpireResult(p) \/ Consume(p, stored, acked)
        PROVE  UNCHANGED supervisorState
    BY <2>3 DEF ExpireResult, Consume, probing, supervisor
  <2> QED
    BY <1>1, <2>1, <2>2, <2>3 DEF TelemetryNext
<1>2. CASE UNCHANGED measuring
  BY <1>2 DEF measuring, supervisor
<1>3. CASE ControlPlaneRestarts
  BY <1>3 DEF ControlPlaneRestarts, CollectorRestarts, supervisor
<1> QED
  BY <1>1, <1>2, <1>3 DEF Next

\* The supervisor's invariant holds throughout.
LEMMA SupervisorInvariant ==
    Spec => []SupervisorInv
<1>1. SupervisorInv /\ UNCHANGED supervisorState => SupervisorInv'
  BY SMT DEF SupervisorInv, supervisorState
<1>2. UNCHANGED vars => UNCHANGED supervisorState
  BY DEF vars, measuring, supervisor, supervisorState
<1>3. SupervisorInv /\ [Next]_vars => SupervisorInv'
  BY <1>1, <1>2, SupervisionStep, SupervisorFrame
<1> QED
  BY SupervisorInit, <1>3, PTL DEF Spec

\* NoTwinProbes: as long as no stop has timed out, reconcileWithTarget has at
\* most one goroutine of a probe, since it starts a probe only when all that
\* it stopped are gone.
THEOREM ProbesRunOnce ==
    Spec => []NoTwinProbes
<1>1. SupervisorInv => NoTwinProbes
  BY SMT DEF SupervisorInv, NoTwinProbes, Goroutines
<1> QED
  BY SupervisorInvariant, <1>1, PTL

-----------------------------------------------------------------------------
Probed == [run : Nat, seq : Nat]
Measured == [run : Nat, seq : Nat, skewed : BOOLEAN]

MeasurementTypes ==
    /\ sender \in [Senders -> Nat \cup {Closed}] /\ runs \in Nat
    /\ wire \subseteq Probed /\ stream \in Seq(Measured) /\ again \subseteq Measured
    /\ handled \subseteq Measured /\ lastSeq \in Nat \cup {Unseen}

\* As long as no result was Overtaken, stampLastSeq is not behind any result of
\* the newest socket.
LastSeqLeads ==
    /\ lastSeq = Unseen => handled = {}
    /\ ~outOfOrder =>
         \A q \in handled : (\A r \in handled : r.run <= q.run) => q.seq <= lastSeq

LossInv == MeasurementTypes /\ LastSeqLeads /\ LossIsReal

accounting == <<handled, lastSeq, falseLoss, outOfOrder>>

\* The collector starts with no result.
LEMMA LossInit ==
    Init => LossInv
BY SMT DEF Init, TelemetryInit, ProbesInit, LossInv, MeasurementTypes, LastSeqLeads, LossIsReal, Closed

\* A step that handles no result leaves the accounting alone.
LEMMA AccountingFrame ==
    ASSUME LastSeqLeads, LossIsReal, UNCHANGED accounting
    PROVE  LastSeqLeads' /\ LossIsReal'
BY DEF LastSeqLeads, LossIsReal, accounting

\* One result: what it is counted against, and where stampLastSeq goes.
LEMMA HandleSTAMPStep ==
    ASSUME MeasurementTypes, LastSeqLeads, LossIsReal,
           NEW p \in Measured, NEW stored \in BOOLEAN, HandleSTAMP(p, stored)
    PROVE  lastSeq' \in Nat \cup {Unseen} /\ handled' \subseteq Measured
           /\ LastSeqLeads' /\ LossIsReal'
<1>1. /\ CountLoss(p) /\ handled' = handled \cup {p}
      /\ outOfOrder' = (outOfOrder \/ Overtaken(p))
  BY DEF HandleSTAMP
<1>2. p.run \in Nat /\ p.seq \in Nat /\ Unseen \notin Nat /\ ReorderTolerance \in Nat
  BY TelemetryConstants DEF Measured
<1>3. \A q \in handled : q.run \in Nat /\ q.seq \in Nat
  BY DEF MeasurementTypes, Measured
<1>4. lastSeq' \in Nat /\ handled' \subseteq Measured
  BY <1>1, <1>2 DEF CountLoss, MeasurementTypes
<1>5. CASE outOfOrder'
  BY <1>2, <1>4, <1>5 DEF LastSeqLeads, LossIsReal
<1>6. CASE ~outOfOrder'
  <2>1. ~outOfOrder /\ ~falseLoss
    BY <1>1, <1>6 DEF LossIsReal
  <2>2. ~Overtaken(p)
    BY <1>1, <1>6
  <2>3. /\ \A q \in handled : q.run <= p.run
        /\ HasRestarted(p) => \A q \in handled : q.run = p.run => q.seq <= p.seq
    BY <2>2, <1>2, <1>3, SMT DEF Overtaken
  <2>4. \A q \in handled : q.run = p.run => q.seq <= lastSeq
    BY <2>1, <2>3 DEF LastSeqLeads
  <2>5. /\ p.seq <= lastSeq'
        /\ \A q \in handled : q.run = p.run => q.seq <= lastSeq'
    <3>1. CASE lastSeq = Unseen
      BY <3>1, <1>1, <1>2, SMT DEF CountLoss, LastSeqLeads
    <3>2. CASE lastSeq # Unseen
      BY <3>2, <1>1, <1>2, <1>3, <2>3, <2>4, SMT DEF CountLoss, MeasurementTypes
    <3> QED
      BY <3>1, <3>2
  <2>6. \A q \in handled' : (\A r \in handled' : r.run <= q.run) => q.seq <= lastSeq'
    BY <1>1, <1>2, <1>3, <2>3, <2>5, SMT
  <2>7. ~falseLoss'
    <3> DEFINE gap == AtMost(p.seq - lastSeq - 1, MaxLostPerSample)
               lost == {q \in handled : q.run = p.run /\ q.seq \in (lastSeq + 1)..(lastSeq + gap)}
    <3>1. CASE lastSeq = Unseen
      BY <3>1, <1>1, <2>1 DEF CountLoss
    <3>2. CASE lastSeq # Unseen
      <4>1. (lastSeq \in Nat /\ gap \in Int) \/ ~(p.seq > lastSeq)
        BY <3>2, <1>2, TelemetryConstants, SMT DEF MeasurementTypes, AtMost
      <4>2. p.seq > lastSeq => lost = {}
        BY <4>1, <3>2, <1>3, <2>4, SMT DEF MeasurementTypes
      <4>3. \/ p.seq > lastSeq /\ falseLoss' = (falseLoss \/ lost # {})
            \/ UNCHANGED falseLoss
        BY <3>2, <1>1 DEF CountLoss
      <4> QED
        BY <4>2, <4>3, <2>1
    <3> QED
      BY <3>1, <3>2
  <2> QED
    BY <1>2, <1>4, <2>6, <2>7 DEF LastSeqLeads, LossIsReal
<1> QED
  BY <1>4, <1>5, <1>6

\* The steps of the probes, the stream and the collector.
LEMMA LossStep ==
    ASSUME LossInv, Next
    PROVE  LossInv'
<1> USE DEF LossInv
<1>1. CASE Supervision /\ UNCHANGED <<runs, delivery, collector, rows, history>>
  <2>1. sender' \in [Senders -> Nat \cup {Closed}]
    <3>1. CASE Reconcile
      <4>1. \/ UNCHANGED sender
            \/ \E gone \in SUBSET Ids :
                 sender' = [id \in Senders |-> IF id \in gone THEN Closed ELSE sender[id]]
        BY <3>1 DEF Reconcile
      <4> QED
        BY <4>1 DEF MeasurementTypes
    <3>2. CASE ~Reconcile
      <4>1. UNCHANGED sender
        BY <1>1, <3>2 DEF Supervision, NewIntent, ResyncTick, Stopped, StopTimesOut, ReflectorBinds,
                          ProbeStops, ProbeFails
      <4> QED
        BY <4>1 DEF MeasurementTypes
    <3> QED
      BY <3>1, <3>2
  <2>2. MeasurementTypes'
    BY <1>1, <2>1 DEF MeasurementTypes, delivery, collector, history
  <2> QED
    BY <1>1, <2>2, AccountingFrame DEF accounting, collector, history
<1>2. ASSUME NEW id \in Senders, Opens(id)
      PROVE  LossInv'
  <2>1. MeasurementTypes'
    BY <1>2, SMT DEF MeasurementTypes, Opens, SenderOpens, NewSenderFromConn, delivery, collector, history
  <2> QED
    BY <1>2, <2>1, AccountingFrame DEF Opens, accounting, collector, history
<1>3. ASSUME NEW id \in Senders, Sends(id)
      PROVE  LossInv'
  <2>1. sender[id] \in Nat /\ runs \in Nat
    BY <1>3 DEF MeasurementTypes, Sends, SenderTicks
  <2>2. encodeNext(id) \in Probed
    BY <2>1 DEF encodeNext, Probed
  <2>3. sender' \in [Senders -> Nat \cup {Closed}]
    BY <1>3, <2>1, SMT DEF MeasurementTypes, Sends, SenderTicks, SendOnly
  <2>4. MeasurementTypes'
    BY <1>3, <2>2, <2>3 DEF MeasurementTypes, Sends, collector, history
  <2> QED
    BY <1>3, <2>4, AccountingFrame DEF Sends, accounting, collector, history
<1>4. ASSUME NEW id \in Senders, SendFails(id)
      PROVE  LossInv'
  <2>1. sender' \in [Senders -> Nat \cup {Closed}]
    BY <1>4 DEF MeasurementTypes, SendFails, SenderTicks
  <2>2. MeasurementTypes'
    BY <1>4, <2>1 DEF MeasurementTypes, SendFails, delivery, collector, history
  <2> QED
    BY <1>4, <2>2, AccountingFrame DEF SendFails, accounting, collector, history
<1>5. ASSUME NEW p \in wire, Lose(p)
      PROVE  LossInv'
  <2>1. MeasurementTypes'
    BY <1>5 DEF MeasurementTypes, Lose, Serve, probing, collector, history
  <2> QED
    BY <1>5, <2>1, AccountingFrame DEF Lose, accounting, collector, history
<1>6. ASSUME NEW p \in wire, NEW skewed \in BOOLEAN, Reflect(p, skewed)
      PROVE  LossInv'
  <2>1. reflectorResult(p, skewed) \in Measured
    BY DEF reflectorResult, Measured, MeasurementTypes, Probed
  <2>2. MeasurementTypes'
    BY <1>6, <2>1, SMT DEF MeasurementTypes, Reflect, Serve, Dispatch, probing, collector
  <2> QED
    BY <1>6, <2>2, AccountingFrame DEF Reflect, accounting, collector
<1>7. ASSUME NEW p \in Results, NEW stored \in BOOLEAN, NEW acked \in BOOLEAN,
             Consume(p, stored, acked)
      PROVE  LossInv'
  <2>1. p \in Measured
    BY SMT DEF Results, MeasurementTypes
  <2>2. stream' \in Seq(Measured) /\ again' \subseteq Measured
    <3>1. \/ stream # <<>> /\ stream' = Tail(stream)
          \/ UNCHANGED stream
      BY <1>7 DEF Consume, Answer
    <3>2. again' \subseteq again \cup {p}
      <4> DEFINE ack == stored /\ acked /\ ~p.skewed
      <4>1. again' = (IF ack THEN again ELSE again \cup {p}) \/ again' = (IF ack THEN again \ {p} ELSE again)
        BY <1>7 DEF Consume, Answer
      <4> HIDE DEF ack
      <4> QED
        BY <4>1
    <3>3. stream' \in Seq(Measured)
      BY <3>1, SMT DEF MeasurementTypes
    <3> QED
      BY <2>1, <3>2, <3>3 DEF MeasurementTypes
  <2>3. CASE p.skewed
    <3>1. UNCHANGED <<collector, history>>
      BY <1>7, <2>3 DEF Consume
    <3>2. MeasurementTypes'
      BY <1>7, <2>2, <3>1 DEF Consume, MeasurementTypes, collector, history
    <3> QED
      BY <3>1, <3>2, AccountingFrame DEF accounting, collector, history
  <2>4. CASE ~p.skewed
    <3>1. HandleSTAMP(p, stored)
      BY <1>7, <2>4 DEF Consume
    <3>2. lastSeq' \in Nat \cup {Unseen} /\ handled' \subseteq Measured /\ LastSeqLeads' /\ LossIsReal'
      BY <2>1, <3>1, HandleSTAMPStep
    <3>3. MeasurementTypes'
      BY <1>7, <2>2, <3>2 DEF Consume, MeasurementTypes
    <3> QED
      BY <3>2, <3>3
  <2> QED
    BY <2>3, <2>4
<1>8. CASE UNCHANGED measuring
  <2>1. UNCHANGED accounting /\ UNCHANGED <<sender, runs, wire, stream, again>>
    BY <1>8 DEF measuring, accounting, delivery, collector, history
  <2>2. MeasurementTypes'
    BY <2>1 DEF MeasurementTypes, accounting
  <2> QED
    BY <2>1, <2>2, AccountingFrame
<1>9. CASE ControlPlaneRestarts
  <2>1. /\ lastSeq' = Unseen /\ handled' = {} /\ falseLoss' = FALSE
        /\ UNCHANGED <<sender, runs, wire, stream, again>>
    BY <1>9 DEF ControlPlaneRestarts, CollectorRestarts, delivery
  <2> QED
    BY <2>1 DEF MeasurementTypes, LastSeqLeads, LossIsReal
<1>10. ASSUME NEW p \in Results, ExpireResult(p)
      PROVE  LossInv'
  <2>1. /\ UNCHANGED accounting /\ UNCHANGED <<sender, runs, wire>>
        /\ again' \subseteq again /\ (UNCHANGED stream \/ (stream # <<>> /\ stream' = Tail(stream)))
    BY <1>10 DEF ExpireResult, probing, collector, accounting
  <2>2. stream' \in Seq(Measured)
    BY <2>1, SMT DEF MeasurementTypes
  <2>3. MeasurementTypes'
    BY <2>1, <2>2 DEF MeasurementTypes, accounting
  <2> QED
    BY <2>1, <2>3, AccountingFrame
<1> QED
  BY <1>1, <1>2, <1>3, <1>4, <1>5, <1>6, <1>7, <1>8, <1>9, <1>10 DEF Next, TelemetryNext

\* The invariant behind the loss accounting: stampLastSeq leads the results of
\* the newest socket that handleSTAMP has had, unless one was Overtaken.
THEOREM LossInvariant ==
    Spec => []LossInv
<1>1. LossInv /\ UNCHANGED vars => LossInv'
  BY SMT DEF LossInv, MeasurementTypes, LastSeqLeads, LossIsReal, vars, measuring, delivery, collector, history
<1>2. LossInv /\ [Next]_vars => LossInv'
  BY <1>1, LossStep
<1> QED
  BY LossInit, <1>2, PTL DEF Spec

\* LossIsReal: handleSTAMP counts only probes as lost whose result it has not
\* had, however often results are delivered again.
THEOREM LossesAreReal ==
    Spec => []LossIsReal
<1>1. LossInv => LossIsReal
  BY DEF LossInv
<1> QED
  BY LossInvariant, <1>1, PTL

-----------------------------------------------------------------------------
\* The supervisor and its probes, as ProbesTypeOK has them: the feed holds
\* intents, and the reflector, which is in every target, keeps its port.
ProbesInv ==
    /\ scenario \in Scenarios
    /\ probeFeed \in Seq(PeerIntents) /\ Len(probeFeed) <= ProbeFeedCap
    /\ last \in PeerIntents \cup {NoIntent} /\ target \subseteq Ids
    /\ \A id \in Senders : sender[id] # Closed => probes[id] = "running"
    /\ bound \in BOOLEAN /\ (bound => probes[Reflector] = "running")

\* Every intent asks for the reflector.
LEMMA ReflectorIsWanted ==
    ASSUME NEW i \in PeerIntents
    PROVE  Reflector \in Target(i) /\ Target(i) \subseteq Ids /\ Reflector \in Ids
BY SMT DEF Target, Ids

\* Starting the missing probes stops none.
LEMMA StartMissingKeeps ==
    ASSUME SupervisorInv, ProbesInv, StartMissing, target # {}, UNCHANGED <<sender, bound>>
    PROVE  /\ target' \subseteq Ids
           /\ \A id \in Senders : sender'[id] # Closed => probes'[id] = "running"
           /\ bound' \in BOOLEAN /\ (bound' => probes'[Reflector] = "running")
<1>1. Reflector \in Ids
  <2>1. PICK id \in Ids : id \in target
    BY DEF ProbesInv
  <2>2. PICK i \in PeerIntents : id \in Target(i)
    BY <2>1 DEF Ids
  <2> QED
    BY <2>2, ReflectorIsWanted
<1>2. \A id \in Ids : probes[id] = "running" => probes'[id] = "running"
  BY DEF StartMissing, startProbe, SupervisorInv
<1>3. \A id \in Senders : id \in Ids
  BY DEF Senders
<1> QED
  BY <1>1, <1>2, <1>3 DEF ProbesInv, StartMissing

\* An intent is offered to the feed only when there is room.
LEMMA OfferFits ==
    ASSUME ProbesInv, NEW i \in PeerIntents, Offer(i)
    PROVE  probeFeed' \in Seq(PeerIntents) /\ Len(probeFeed') <= ProbeFeedCap
<1>1. ProbeFeedCap \in Nat
  BY ProbesConstants
<1> QED
  BY <1>1, SMT DEF ProbesInv, Offer

\* Every step of the supervisor and of the goroutines keeps the probes' types.
LEMMA ProbesSupervision ==
    ASSUME SupervisorInv, ProbesInv, Supervision
    PROVE  ProbesInv'
<1>1. ASSUME NEW i \in PeerIntents, NewIntent(i)
      PROVE  ProbesInv'
  BY <1>1, OfferFits DEF NewIntent, ProbesInv
<1>2. CASE ResyncTick
  <2>1. last \in PeerIntents /\ Offer(last)
    BY <1>2 DEF ResyncTick, ProbesInv
  <2>2. probeFeed' \in Seq(PeerIntents) /\ Len(probeFeed') <= ProbeFeedCap
    BY <2>1, OfferFits
  <2> QED
    BY <1>2, <2>2 DEF ResyncTick, ProbesInv
<1>3. CASE Reconcile
  <2> DEFINE i == Head(probeFeed)
             gone == {id \in Ids : probes[id] # "none" /\ ~IsKept(id, Target(i))}
  <2>1. i \in PeerIntents
    BY <1>3, SMT DEF Reconcile, ProbesInv
  <2>2. probeFeed' \in Seq(PeerIntents) /\ Len(probeFeed') <= ProbeFeedCap
    <3>1. ProbeFeedCap \in Nat
      BY ProbesConstants
    <3> QED
      BY <1>3, <3>1, SMT DEF Reconcile, ProbesInv
  <2>3. UNCHANGED <<scenario, last, bound>>
    BY <1>3 DEF Reconcile
  <2>4. CASE i.peers = {}
    <3>1. UNCHANGED <<target, probes, sender>>
      BY <1>3, <2>4 DEF Reconcile
    <3> QED
      BY <2>2, <2>3, <3>1 DEF ProbesInv
  <2>5. CASE i.peers # {}
    <3> HIDE DEF i
    <3>1. /\ target' = Target(i)
          /\ probes' = [id \in Ids |-> IF id \in gone THEN "none" ELSE probes[id]]
          /\ sender' = [id \in Senders |-> IF id \in gone THEN Closed ELSE sender[id]]
      BY <1>3, <2>5 DEF Reconcile, i
    <3>2. Reflector \in Target(i) /\ Target(i) \subseteq Ids /\ Reflector \in Ids
      BY <2>1, ReflectorIsWanted
    <3>3. probes[Reflector] = "running" => probes'[Reflector] = "running"
      BY <3>1, <3>2 DEF IsKept
    <3>4. ASSUME NEW id \in Senders, sender'[id] # Closed
          PROVE  probes'[id] = "running"
      <4>1. id \in Ids
        BY DEF Senders
      <4>2. id \notin gone /\ sender[id] # Closed
        BY <3>1, <3>4
      <4> QED
        BY <3>1, <4>1, <4>2 DEF ProbesInv
    <3> QED
      BY <2>2, <2>3, <3>1, <3>2, <3>3, <3>4 DEF ProbesInv
  <2> QED
    BY <2>4, <2>5
<1>4. CASE Stopped \/ StopTimesOut
  <2>1. StartMissing /\ target # {} /\ UNCHANGED <<scenario, probeFeed, last, sender, bound>>
    BY <1>4 DEF Stopped, StopTimesOut
  <2>2. /\ target' \subseteq Ids
        /\ \A id \in Senders : sender'[id] # Closed => probes'[id] = "running"
        /\ bound' \in BOOLEAN /\ (bound' => probes'[Reflector] = "running")
    BY <2>1, StartMissingKeeps
  <2> QED
    BY <2>1, <2>2 DEF ProbesInv
<1>5. CASE ReflectorBinds
  BY <1>5 DEF ReflectorBinds, supervisor, ProbesInv
<1>6. ASSUME NEW id \in Ids, ProbeStops(id)
      PROVE  ProbesInv'
  BY <1>6 DEF ProbeStops, ProbesInv
<1>7. ASSUME NEW id \in Ids, ProbeFails(id)
      PROVE  ProbesInv'
  <2>1. /\ probes' = [probes EXCEPT ![id] = "exited"] /\ (id \in Senders => sender[id] = Closed)
        /\ bound' = (bound /\ id # Reflector)
        /\ UNCHANGED <<scenario, probeFeed, last, target, sender>>
    BY <1>7 DEF ProbeFails, Exit
  <2>2. \A x \in Senders : sender'[x] # Closed => probes'[x] = "running"
    <3>1. \A x \in Senders : sender'[x] # Closed => x # id /\ probes[x] = "running" /\ x \in Ids
      BY <2>1 DEF ProbesInv, Senders
    <3> QED
      BY <2>1, <3>1 DEF SupervisorInv
  <2>3. bound' \in BOOLEAN /\ (bound' => probes'[Reflector] = "running")
    <3>1. bound' => id # Reflector /\ probes[Reflector] = "running"
      BY <2>1 DEF ProbesInv
    <3>2. \A x : x # id /\ probes[x] = "running" /\ x \in Ids => probes'[x] = "running"
      BY <2>1 DEF SupervisorInv
    <3>3. Reflector \in Ids
      <4>1. PICK i \in PeerIntents : id \in Target(i)
        BY DEF Ids
      <4> QED
        BY <4>1, ReflectorIsWanted
    <3>4. bound' \in BOOLEAN
      BY <2>1
    <3> QED
      BY <3>1, <3>2, <3>3, <3>4
  <2> QED
    BY <2>1, <2>2, <2>3 DEF ProbesInv
<1> QED
  BY <1>1, <1>2, <1>3, <1>4, <1>5, <1>6, <1>7 DEF Supervision

\* The steps of the reports leave the scenario alone.
LEMMA ReportsFrame ==
    ASSUME R!ReportsNext
    PROVE  UNCHANGED scenario
BY DEF R!ReportsNext, R!AgentDies, R!BecomesStale, R!IsLate, R!Age, R!Expire, R!WatchDelivers,
       R!AgentStarts, R!ReportOnce, R!Reallocate, R!Rewatch, R!WatchCloses, R!Apply, R!ClearStale,
       R!transitSegments

\* The steps of the senders, the stream and the collector keep them too.
LEMMA ProbesStep ==
    ASSUME SupervisorInv, MeasurementTypes, ProbesInv, Next
    PROVE  ProbesInv'
<1>1. CASE Supervision
  BY <1>1, ProbesSupervision
<1>2. ASSUME NEW id \in Senders, Opens(id) \/ Sends(id) \/ SendFails(id)
      PROVE  ProbesInv'
  <2>1. /\ UNCHANGED <<scenario, supervisor, bound>> /\ probes[id] = "running"
        /\ \E k : sender' = [sender EXCEPT ![id] = k]
    BY <1>2 DEF Opens, Sends, SendFails, SenderOpens, SenderTicks
  <2>2. UNCHANGED <<probeFeed, last, target, probes>>
    BY <2>1 DEF supervisor
  <2>3. \A x \in Senders : sender'[x] # Closed => probes[x] = "running"
    BY <2>1 DEF ProbesInv, MeasurementTypes
  <2> QED
    BY <2>1, <2>2, <2>3 DEF ProbesInv
<1>3. CASE UNCHANGED <<scenario, supervisor, bound, sender>>
  BY <1>3 DEF ProbesInv, supervisor
<1>4. ASSUME NEW p \in wire, Lose(p) \/ \E skewed \in BOOLEAN : Reflect(p, skewed)
      PROVE  UNCHANGED <<scenario, supervisor, bound, sender>>
  BY <1>4 DEF Lose, Reflect, probing
<1>5. ASSUME NEW p \in Results, NEW stored \in BOOLEAN, NEW acked \in BOOLEAN,
             ExpireResult(p) \/ Consume(p, stored, acked)
      PROVE  UNCHANGED <<scenario, supervisor, bound, sender>>
  BY <1>5 DEF ExpireResult, Consume, probing
<1>6. CASE R!ReportsNext /\ UNCHANGED measuring
  <2>1. UNCHANGED scenario
    BY <1>6, ReportsFrame
  <2>2. UNCHANGED <<scenario, supervisor, bound, sender>>
    BY <1>6, <2>1 DEF measuring
  <2> QED
    BY <2>2, <1>3
<1>7. CASE ControlPlaneRestarts
  <2>1. UNCHANGED <<scenario, supervisor, bound, sender>>
    BY <1>7 DEF ControlPlaneRestarts, CollectorRestarts
  <2> QED
    BY <2>1, <1>3
<1> QED
  BY <1>1, <1>2, <1>3, <1>4, <1>5, <1>6, <1>7 DEF Next, TelemetryNext

-----------------------------------------------------------------------------
\* The results, as TelemetryTypeOK has them: everything that is delivered,
\* stored or handled was published, and comes from a socket that was opened.
ResultsInv ==
    /\ \A id \in Senders : sender[id] # Closed => runs > 0
    /\ stream \in Seq(published) /\ again \cup rows \cup expired \cup handled \subseteq published
    /\ wire \subseteq [run : 1..runs, seq : 0..scenario.probes]
    /\ published \subseteq [run : 1..runs, seq : 0..scenario.probes, skewed : BOOLEAN]
    /\ IsFiniteSet(again) /\ Cardinality(again) <= MaxAckPending
    /\ samples \in 0..(WarmupSamples + 1) /\ converged \in BOOLEAN

\* A delivery takes a result from the stream only when there is room among
\* those that wait for their answer.
LEMMA AnswerKeepsRoom ==
    ASSUME ResultsInv, NEW p \in Results, NEW ack \in BOOLEAN, Answer(p, ack)
    PROVE  /\ p \in published
           /\ stream' \in Seq(published) /\ again' \subseteq published
           /\ IsFiniteSet(again') /\ Cardinality(again') <= MaxAckPending
<1>1. p \in published
  BY SMT DEF Results, ResultsInv
<1>2. Cardinality(again) \in Nat /\ MaxAckPending \in Nat
  BY FS_CardinalityType, TelemetryConstants DEF ResultsInv
<1>3. /\ IsFiniteSet(again \cup {p}) /\ IsFiniteSet(again \ {p})
      /\ Cardinality(again \cup {p}) <= Cardinality(again) + 1
      /\ Cardinality(again \ {p}) <= Cardinality(again)
  <2>1. IsFiniteSet(again)
    BY DEF ResultsInv
  <2>2. /\ IsFiniteSet(again \cup {p})
        /\ Cardinality(again \cup {p}) = IF p \in again THEN Cardinality(again) ELSE Cardinality(again) + 1
    BY <2>1, FS_AddElement
  <2>3. /\ IsFiniteSet(again \ {p})
        /\ Cardinality(again \ {p}) = IF p \in again THEN Cardinality(again) - 1 ELSE Cardinality(again)
    BY <2>1, FS_RemoveElement
  <2> QED
    BY <1>2, <2>2, <2>3, SMT
<1>4. CASE /\ stream # <<>> /\ p = Head(stream) /\ stream' = Tail(stream)
           /\ Cardinality(again) < MaxAckPending
           /\ again' = IF ack THEN again ELSE again \cup {p}
  <2>1. stream' \in Seq(published)
    BY <1>4, SMT DEF ResultsInv
  <2>2. again' = again \/ again' = again \cup {p}
    BY <1>4
  <2>3. Cardinality(again \cup {p}) \in Nat
    BY <1>3, FS_CardinalityType
  <2>4. IsFiniteSet(again') /\ Cardinality(again') <= MaxAckPending
    BY <1>2, <1>3, <1>4, <2>2, <2>3, SMT DEF ResultsInv
  <2> QED
    BY <1>1, <2>1, <2>2, <2>4 DEF ResultsInv
<1>5. CASE /\ p \in again /\ UNCHANGED stream
           /\ again' = IF ack THEN again \ {p} ELSE again
  <2>1. again' = again \/ again' = again \ {p}
    BY <1>5
  <2>2. Cardinality(again \ {p}) <= MaxAckPending
    <3>1. Cardinality(again \ {p}) \in Nat
      BY <1>3, FS_CardinalityType
    <3> QED
      BY <1>2, <1>3, <3>1, SMT DEF ResultsInv
  <2> QED
    BY <1>1, <1>3, <1>5, <2>1, <2>2 DEF ResultsInv
<1> QED
  BY <1>4, <1>5 DEF Answer

\* A result that expires makes room.
LEMMA ExpiryKeepsRoom ==
    ASSUME ResultsInv, NEW p \in Results, ExpireResult(p)
    PROVE  /\ stream' \in Seq(published) /\ again' \subseteq published
           /\ IsFiniteSet(again') /\ Cardinality(again') <= MaxAckPending
<1>1. CASE p \in again /\ again' = again \ {p} /\ UNCHANGED stream
  <2>1. Answer(p, TRUE)
    BY <1>1 DEF Answer
  <2> QED
    BY <2>1, AnswerKeepsRoom
<1>2. CASE stream # <<>> /\ stream' = Tail(stream) /\ UNCHANGED again
  BY <1>2, SMT DEF ResultsInv
<1> QED
  BY <1>1, <1>2 DEF ExpireResult

\* The steps of the supervisor open no socket.
LEMMA SupervisionOpensNone ==
    ASSUME Supervision, NEW id \in Senders, sender'[id] # Closed
    PROVE  sender[id] # Closed
<1>1. CASE Reconcile
  <2>1. \/ UNCHANGED sender
        \/ \E gone \in SUBSET Ids :
             sender' = [x \in Senders |-> IF x \in gone THEN Closed ELSE sender[x]]
    BY <1>1 DEF Reconcile
  <2> QED
    BY <2>1
<1>2. CASE ~Reconcile
  <2>1. UNCHANGED sender
    BY <1>2 DEF Supervision, NewIntent, ResyncTick, Stopped, StopTimesOut, ReflectorBinds,
                ProbeStops, ProbeFails
  <2> QED
    BY <2>1
<1> QED
  BY <1>1, <1>2

\* The supervisor's steps leave the scenario alone.
LEMMA SupervisionFrame ==
    ASSUME Supervision
    PROVE  UNCHANGED scenario
BY DEF Supervision, NewIntent, ResyncTick, Reconcile, Stopped, StopTimesOut, ReflectorBinds,
       ProbeStops, ProbeFails, Exit

\* One result keeps the averages and the rows in their types.
LEMMA HandleSTAMPTypes ==
    ASSUME ResultsInv, NEW p \in published, NEW stored \in BOOLEAN, HandleSTAMP(p, stored)
    PROVE  /\ rows' \cup handled' \subseteq published /\ UNCHANGED <<published, expired>>
           /\ samples' \in 0..(WarmupSamples + 1) /\ converged' \in BOOLEAN
<1>1. samples' = Observe(samples) /\ handled' = handled \cup {p} /\ UNCHANGED <<published, expired>>
  BY DEF HandleSTAMP
<1>2. samples' \in 0..(WarmupSamples + 1)
  BY <1>1, TelemetryConstants, SMT DEF Observe, AtMost, ResultsInv
<1>3. converged' \in BOOLEAN
  BY DEF HandleSTAMP, MarkEdgeConverged
<1>4. rows' = rows \/ rows' = rows \cup {p}
  BY DEF HandleSTAMP
<1> QED
  BY <1>1, <1>2, <1>3, <1>4 DEF ResultsInv

\* Every step keeps the results in their types.
LEMMA ResultsStep ==
    ASSUME SupervisorInv, MeasurementTypes, ProbesInv, ResultsInv, Next
    PROVE  ResultsInv'
<1>1. CASE Supervision /\ UNCHANGED <<runs, delivery, collector, rows, history>>
  <2>1. \A id \in Senders : sender'[id] # Closed => sender[id] # Closed
    BY <1>1, SupervisionOpensNone
  <2>2. UNCHANGED scenario
    BY <1>1, SupervisionFrame
  <2> QED
    BY <1>1, <2>1, <2>2 DEF ResultsInv, delivery, collector, history
<1>2. ASSUME NEW id \in Senders, Opens(id)
      PROVE  ResultsInv'
  <2>1. /\ runs' = runs + 1 /\ runs \in Nat
        /\ UNCHANGED <<scenario, wire, stream, again, samples, converged, rows, published, expired, handled>>
    BY <1>2 DEF Opens, SenderOpens, delivery, collector, history, MeasurementTypes
  <2>2. 1..runs \subseteq 1..runs' /\ runs' > 0
    BY <2>1, SMT
  <2> QED
    BY <2>1, <2>2 DEF ResultsInv
<1>3. ASSUME NEW id \in Senders, Sends(id)
      PROVE  ResultsInv'
  <2>1. /\ sender[id] \in Nat /\ sender[id] < scenario.probes /\ sender[id] # Closed
        /\ sender' = [sender EXCEPT ![id] = sender[id] + 1]
        /\ wire' = wire \cup {encodeNext(id)}
        /\ UNCHANGED <<scenario, runs, stream, again, samples, converged, rows, published, expired, handled>>
    BY <1>3 DEF Sends, SenderTicks, SendOnly, collector, history, MeasurementTypes
  <2>2. runs > 0 /\ runs \in Nat /\ scenario.probes \in Nat
    BY <2>1, ProbesConstants DEF ResultsInv, MeasurementTypes, ProbesInv
  <2>3. encodeNext(id) \in [run : 1..runs, seq : 0..scenario.probes]
    BY <2>1, <2>2, SMT DEF encodeNext
  <2> QED
    BY <2>1, <2>2, <2>3 DEF ResultsInv
<1>4. ASSUME NEW id \in Senders, SendFails(id)
      PROVE  ResultsInv'
  <2>1. /\ sender' = [sender EXCEPT ![id] = Closed] /\ sender \in [Senders -> Nat \cup {Closed}]
        /\ UNCHANGED <<scenario, runs, wire, stream, again, samples, converged, rows, published, expired, handled>>
    BY <1>4 DEF SendFails, SenderTicks, delivery, collector, history, MeasurementTypes
  <2> QED
    BY <2>1 DEF ResultsInv
<1>5. ASSUME NEW p \in wire, Lose(p)
      PROVE  ResultsInv'
  BY <1>5 DEF ResultsInv, Lose, Serve, probing, collector, history
<1>6. ASSUME NEW p \in wire, NEW skewed \in BOOLEAN, Reflect(p, skewed)
      PROVE  ResultsInv'
  <2> DEFINE r == reflectorResult(p, skewed)
  <2>1. /\ wire' = wire \ {p} /\ stream' = Append(stream, r) /\ published' = published \cup {r}
        /\ UNCHANGED <<scenario, sender, runs, again, samples, converged, rows, expired, handled>>
    BY <1>6 DEF Reflect, Serve, Dispatch, probing, collector
  <2>2. r \in [run : 1..runs, seq : 0..scenario.probes, skewed : BOOLEAN]
    BY DEF reflectorResult, ResultsInv
  <2> HIDE DEF r
  <2>3. stream' \in Seq(published')
    <3>1. stream \in Seq(published')
      BY <2>1, SMT DEF ResultsInv
    <3> QED
      BY <2>1, <3>1, SMT
  <2> QED
    BY <2>1, <2>2, <2>3 DEF ResultsInv
<1>7. ASSUME NEW p \in Results, NEW stored \in BOOLEAN, NEW acked \in BOOLEAN,
             Consume(p, stored, acked)
      PROVE  ResultsInv'
  <2>1. PICK ack \in BOOLEAN : Answer(p, ack)
    BY <1>7 DEF Consume
  <2>2. /\ p \in published
        /\ stream' \in Seq(published) /\ again' \subseteq published
        /\ IsFiniteSet(again') /\ Cardinality(again') <= MaxAckPending
    BY <2>1, AnswerKeepsRoom
  <2>3. /\ rows' \cup handled' \subseteq published /\ UNCHANGED <<published, expired>>
        /\ samples' \in 0..(WarmupSamples + 1) /\ converged' \in BOOLEAN
    <3>1. CASE p.skewed
      BY <1>7, <3>1 DEF Consume, collector, history, ResultsInv
    <3>2. CASE ~p.skewed
      BY <1>7, <2>2, <3>2, HandleSTAMPTypes DEF Consume
    <3> QED
      BY <3>1, <3>2
  <2>4. UNCHANGED <<scenario, sender, runs, wire>>
    BY <1>7 DEF Consume
  <2> QED
    BY <2>2, <2>3, <2>4 DEF ResultsInv
<1>8. CASE R!ReportsNext /\ UNCHANGED measuring
  <2>1. UNCHANGED scenario
    BY <1>8, ReportsFrame
  <2> QED
    BY <1>8, <2>1 DEF ResultsInv, measuring, delivery, collector, history
<1>9. CASE ControlPlaneRestarts
  <2>1. /\ samples' = 0 /\ converged' = FALSE /\ handled' = {}
        /\ UNCHANGED <<scenario, sender, runs, wire, stream, again, rows, published, expired>>
    BY <1>9 DEF ControlPlaneRestarts, CollectorRestarts, delivery
  <2>2. 0 \in 0..(WarmupSamples + 1)
    BY TelemetryConstants, SMT
  <2> QED
    BY <2>1, <2>2 DEF ResultsInv
<1>10. ASSUME NEW p \in Results, ExpireResult(p)
      PROVE  ResultsInv'
  <2>1. /\ UNCHANGED <<scenario, sender, runs, wire, samples, converged, rows, published, handled>>
        /\ expired' = expired \cup {p}
    BY <1>10 DEF ExpireResult, probing, collector
  <2>2. p \in published
    BY SMT DEF Results, ResultsInv
  <2>3. /\ stream' \in Seq(published) /\ again' \subseteq published
        /\ IsFiniteSet(again') /\ Cardinality(again') <= MaxAckPending
    BY <1>10, ExpiryKeepsRoom
  <2> QED
    BY <2>1, <2>2, <2>3 DEF ResultsInv
<1> QED
  BY <1>1, <1>2, <1>3, <1>4, <1>5, <1>6, <1>7, <1>8, <1>9, <1>10 DEF Next, TelemetryNext

-----------------------------------------------------------------------------
\* The reports, as ReportsTypeOK has them, and the feed as a sequence.
ReportsInv == R!ReportsTypeOK /\ reportFeed \in Seq(R!ReportEntries)

\* A report stays one when it becomes stale.
LEMMA StaleIsReport ==
    ASSUME NEW e \in R!ReportEntries
    PROVE  R!IsStale(e) \in R!ReportEntries
BY DEF R!IsStale, R!ReportEntries

\* Age touches the three places a report can be in.
LEMMA AgeKeepsTypes ==
    ASSUME ReportsInv, NEW r \in Routers, R!Age(r)
    PROVE  ReportsInv'
<1>1. state' \in [Routers -> R!ReportEntries \cup {NoReport}]
  BY StaleIsReport DEF R!Age, ReportsInv, R!ReportsTypeOK
<1>2. \A x \in Routers : state[x] # NoReport => state'[x] # NoReport
  BY StaleIsReport, NoReportAssumption DEF R!Age, ReportsInv, R!ReportsTypeOK
<1>3. reportFeed' \in Seq(R!ReportEntries) /\ Len(reportFeed') = Len(reportFeed)
  <2>1. reportFeed' = [k \in 1..Len(reportFeed) |->
                         IF reportFeed[k].router = r THEN R!IsStale(reportFeed[k]) ELSE reportFeed[k]]
    BY SMT DEF R!Age, ReportsInv
  <2>2. Len(reportFeed) \in Nat /\ \A k \in 1..Len(reportFeed) : reportFeed[k] \in R!ReportEntries
    BY SMT DEF ReportsInv
  <2>3. reportFeed' \in [1..Len(reportFeed) -> R!ReportEntries]
    BY <2>1, <2>2, StaleIsReport
  <2> QED
    BY <2>2, <2>3, SMT
<1>4. reportedAt' \in [Routers -> {"none", "fresh", "stale"}]
  BY DEF R!Age, ReportsInv, R!ReportsTypeOK
<1>5. \A x \in Routers : reportedAt[x] # "none" => reportedAt'[x] # "none"
  BY DEF R!Age, ReportsInv, R!ReportsTypeOK
<1>6. UNCHANGED <<reporter, kernel, watching, due, endX, segment>>
  BY DEF R!Age
<1>7. \A k \in DOMAIN reportFeed' : reportFeed'[k] \in R!ReportEntries
  BY <1>3, SMT
<1> QED
  BY <1>1, <1>2, <1>3, <1>4, <1>5, <1>6, <1>7 DEF ReportsInv, R!ReportsTypeOK

\* Every step of the routers, the bucket and the collector keeps the types.
LEMMA ReportsStep ==
    ASSUME scenario \in Scenarios, ReportsInv, R!ReportsNext
    PROVE  ReportsInv'
<1>1. ASSUME NEW r \in Routers, R!AgentDies(r)
      PROVE  ReportsInv'
  BY <1>1 DEF R!AgentDies, ReportsInv, R!ReportsTypeOK
<1>2. ASSUME NEW r \in Routers, R!BecomesStale(r) \/ R!IsLate(r)
      PROVE  ReportsInv'
  BY <1>2, AgeKeepsTypes DEF R!BecomesStale, R!IsLate
<1>3. ASSUME NEW r \in Routers, R!Expire(r)
      PROVE  ReportsInv'
  BY <1>3 DEF R!Expire, ReportsInv, R!ReportsTypeOK
<1>4. ASSUME NEW r \in Routers, R!WatchDelivers(r)
      PROVE  ReportsInv'
  <2>1. state[r] \in R!ReportEntries
    BY <1>4 DEF R!WatchDelivers, ReportsInv, R!ReportsTypeOK
  <2>2. /\ reportFeed' = Append(reportFeed, state[r]) /\ Len(reportFeed) < ReportFeedCap
        /\ due' = due \ {r}
        /\ UNCHANGED <<reporter, kernel, state, watching, endX, reportedAt, segment>>
    BY <1>4 DEF R!WatchDelivers
  <2>3. reportFeed' \in Seq(R!ReportEntries) /\ Len(reportFeed') <= ReportFeedCap
    BY <2>1, <2>2, CollectorsConstants, SMT DEF ReportsInv
  <2>4. \A k \in DOMAIN reportFeed' : reportFeed'[k] \in R!ReportEntries
    BY <2>3, SMT
  <2> QED
    BY <2>2, <2>3, <2>4 DEF ReportsInv, R!ReportsTypeOK
<1>5. ASSUME NEW r \in Routers, NEW ok \in BOOLEAN, R!AgentStarts(r, ok)
      PROVE  ReportsInv'
  BY <1>5 DEF R!AgentStarts, ReportsInv, R!ReportsTypeOK
<1>6. ASSUME NEW r \in Routers, NEW ok \in BOOLEAN, R!ReportOnce(r, ok)
      PROVE  ReportsInv'
  <2>1. R!collect(r) \in R!ReportEntries
    BY CollectorsConstants DEF R!collect, R!ReportEntries, ReportsInv, R!ReportsTypeOK
  <2>2. R!collect(r) # NoReport
    BY <2>1, NoReportAssumption
  <2>3. CASE ok
    <3>1. /\ state' = [state EXCEPT ![r] = R!collect(r)]
          /\ due' = IF watching THEN due \cup {r} ELSE due
          /\ UNCHANGED <<reporter, kernel, watching, reportFeed, endX, reportedAt, segment>>
      BY <1>6, <2>3 DEF R!ReportOnce
    <3>2. due' \subseteq {x \in Routers : watching /\ state'[x] # NoReport}
      BY <2>2, <3>1, SMT DEF ReportsInv, R!ReportsTypeOK
    <3>3. state' \in [Routers -> R!ReportEntries \cup {NoReport}]
      BY <2>1, <3>1 DEF ReportsInv, R!ReportsTypeOK
    <3> QED
      BY <3>1, <3>2, <3>3 DEF ReportsInv, R!ReportsTypeOK
  <2>4. CASE ~ok
    <3>1. UNCHANGED <<state, due, reporter, kernel, watching, reportFeed, endX, reportedAt, segment>>
      BY <1>6, <2>4 DEF R!ReportOnce
    <3> QED
      BY <3>1 DEF ReportsInv, R!ReportsTypeOK
  <2> QED
    BY <2>3, <2>4
<1>7. ASSUME NEW r \in Routers, NEW sid \in SIDs \cup {NoSID}, R!Reallocate(r, sid)
      PROVE  ReportsInv'
  BY <1>7 DEF R!Reallocate, ReportsInv, R!ReportsTypeOK
<1>8. CASE R!Rewatch
  BY <1>8 DEF R!Rewatch, R!Watch, ReportsInv, R!ReportsTypeOK
<1>9. CASE R!WatchCloses
  BY <1>9 DEF R!WatchCloses, ReportsInv, R!ReportsTypeOK
<1>10. CASE R!Apply
  <2> DEFINE e == Head(reportFeed)
  <2>1. e \in R!ReportEntries /\ reportFeed' \in Seq(R!ReportEntries) /\ Len(reportFeed') <= ReportFeedCap
    BY <1>10, CollectorsConstants, SMT DEF R!Apply, ReportsInv, R!ReportsTypeOK
  <2>2. /\ endX' = [endX EXCEPT ![e.router] = e.sid]
        /\ reportedAt' = [reportedAt EXCEPT ![e.router] = IF e.stale THEN "stale" ELSE "fresh"]
        /\ UNCHANGED <<reporter, kernel, state, watching, due, segment>>
    BY <1>10 DEF R!Apply, R!SetEndXSIDs
  <2> HIDE DEF e
  <2>3. PICK t \in {"stale", "fresh"} : reportedAt' = [reportedAt EXCEPT ![e.router] = t]
    BY <2>2
  <2>4. e.router \in Routers /\ e.sid \in SIDs \cup {NoSID}
    BY <2>1 DEF R!ReportEntries
  <2>5. \A k \in DOMAIN reportFeed' : reportFeed'[k] \in R!ReportEntries
    BY <2>1, SMT
  <2>6. \A x \in Routers : endX'[x] # NoSID => reportedAt'[x] # "none"
    BY <2>2, <2>3, <2>4 DEF ReportsInv, R!ReportsTypeOK
  <2> QED
    BY <2>1, <2>2, <2>3, <2>4, <2>5, <2>6 DEF ReportsInv, R!ReportsTypeOK
<1>11. CASE R!ClearStale
  <2>1. UNCHANGED <<reporter, kernel, state, watching, due, reportFeed, segment>>
    BY <1>11 DEF R!ClearStale
  <2>2. /\ endX' \in [Routers -> SIDs \cup {NoSID}]
        /\ reportedAt' \in [Routers -> {"none", "fresh", "stale"}]
        /\ \A r \in Routers : endX'[r] # NoSID => reportedAt'[r] # "none"
    BY <1>11 DEF R!ClearStale, ReportsInv, R!ReportsTypeOK
  <2> QED
    BY <2>1, <2>2 DEF ReportsInv, R!ReportsTypeOK
<1>12. CASE R!transitSegments
  BY <1>12 DEF R!transitSegments, R!endXOf, ReportsInv, R!ReportsTypeOK
<1> QED
  BY <1>1, <1>2, <1>3, <1>4, <1>5, <1>6, <1>7, <1>8, <1>9, <1>10, <1>11, <1>12 DEF R!ReportsNext

\* All that TypeOK needs, inductive together.
CollectorsInv == SupervisorInv /\ LossInv /\ ProbesInv /\ ResultsInv /\ ReportsInv

\* It holds at the start.
LEMMA CollectorsInit ==
    Init => CollectorsInv
<1> SUFFICES ASSUME Init PROVE CollectorsInv
  OBVIOUS
<1>1. SupervisorInv /\ LossInv
  BY SupervisorInit, LossInit
<1>2. ProbesInv
  <2>1. \A id \in Senders : sender[id] = Closed
    BY DEF Init, TelemetryInit, ProbesInit
  <2>2. /\ scenario \in Scenarios /\ probeFeed = <<>> /\ last = NoIntent /\ target = {}
        /\ bound = FALSE
    BY DEF Init, TelemetryInit, ProbesInit
  <2>3. probeFeed \in Seq(PeerIntents) /\ Len(probeFeed) <= ProbeFeedCap
    BY <2>2, ProbesConstants, SMT
  <2> QED
    BY <2>1, <2>2, <2>3 DEF ProbesInv
<1>3. ResultsInv
  <2>1. IsFiniteSet({}) /\ Cardinality({}) = 0
    BY FS_EmptySet
  <2>2. 0 \in 0..(WarmupSamples + 1) /\ 0 <= MaxAckPending
    BY TelemetryConstants, SMT
  <2>3. /\ wire = {} /\ stream = <<>> /\ again = {} /\ samples = 0 /\ converged = FALSE
        /\ rows = {} /\ published = {} /\ expired = {} /\ handled = {}
        /\ \A id \in Senders : sender[id] = Closed
    BY DEF Init, TelemetryInit, ProbesInit
  <2>4. stream \in Seq(published)
    BY <2>3, SMT
  <2>5. \A T : wire \subseteq T /\ published \subseteq T
    BY <2>3
  <2>6. again \cup rows \cup expired \cup handled \subseteq published
    BY <2>3
  <2>7. IsFiniteSet(again) /\ Cardinality(again) <= MaxAckPending
    BY <2>1, <2>2, <2>3
  <2> QED
    BY <2>2, <2>3, <2>4, <2>5, <2>6, <2>7 DEF ResultsInv
<1>4. ReportsInv
  BY CollectorsConstants, SMT DEF Init, R!ReportsInit, ReportsInv, R!ReportsTypeOK
<1> QED
  BY <1>1, <1>2, <1>3, <1>4 DEF CollectorsInv

\* A restart forgets what the topology has of the routers.
LEMMA RestartKeepsTypes ==
    ASSUME ReportsInv, R!ReportCollectorRestarts
    PROVE  ReportsInv'
<1>1. /\ watching' = TRUE /\ due' = {r \in Routers : state[r] # NoReport} /\ reportFeed' = <<>>
      /\ endX' = [r \in Routers |-> NoSID] /\ reportedAt' = [r \in Routers |-> "none"]
      /\ UNCHANGED <<reporter, kernel, state, segment>>
  BY DEF R!ReportCollectorRestarts, R!Watch
<1>2. /\ reportFeed' \in Seq(R!ReportEntries) /\ Len(reportFeed') <= ReportFeedCap
      /\ \A k \in DOMAIN reportFeed' : reportFeed'[k] \in R!ReportEntries
  BY <1>1, CollectorsConstants, SMT
<1>3. /\ endX' \in [Routers -> SIDs \cup {NoSID}] /\ reportedAt' \in [Routers -> {"none", "fresh", "stale"}]
      /\ \A r \in Routers : endX'[r] = NoSID
  BY <1>1
<1> QED
  BY <1>1, <1>2, <1>3 DEF ReportsInv, R!ReportsTypeOK

\* Every step preserves it.
LEMMA CollectorsStep ==
    ASSUME CollectorsInv, [Next]_vars
    PROVE  CollectorsInv'
<1> USE DEF CollectorsInv
<1>1. CASE Next
  <2>1. SupervisorInv'
    <3>1. SupervisorInv /\ UNCHANGED supervisorState => SupervisorInv'
      BY SMT DEF SupervisorInv, supervisorState
    <3> QED
      BY <1>1, <3>1, SupervisionStep, SupervisorFrame
  <2>2. LossInv' /\ MeasurementTypes
    BY <1>1, LossStep DEF LossInv
  <2>3. ProbesInv' /\ ResultsInv'
    BY <1>1, <2>2, ProbesStep, ResultsStep
  <2>4. ReportsInv'
    <3>1. CASE UNCHANGED reporting
      BY <3>1 DEF reporting, ReportsInv, R!ReportsTypeOK
    <3>2. CASE R!ReportsNext
      BY <3>2, ReportsStep DEF ProbesInv
    <3>3. CASE ControlPlaneRestarts
      <4>1. R!ReportCollectorRestarts /\ ReportsInv
        BY <3>3 DEF ControlPlaneRestarts
      <4> QED
        BY <4>1, RestartKeepsTypes
    <3> QED
      BY <1>1, <3>1, <3>2, <3>3 DEF Next
  <2> QED
    BY <2>1, <2>2, <2>3, <2>4
<1>2. CASE UNCHANGED vars
  <2>1. UNCHANGED measuring /\ UNCHANGED reporting /\ UNCHANGED scenario
    BY <1>2 DEF vars
  <2>2. SupervisorInv' /\ ProbesInv'
    BY <2>1 DEF measuring, supervisor, SupervisorInv, ProbesInv
  <2>3. LossInv'
    BY <2>1 DEF LossInv, MeasurementTypes, LastSeqLeads, LossIsReal, measuring, delivery, collector, history
  <2>4. ResultsInv' /\ ReportsInv'
    BY <2>1 DEF ResultsInv, ReportsInv, R!ReportsTypeOK, measuring, reporting, delivery, collector, history
  <2> QED
    BY <2>2, <2>3, <2>4
<1> QED
  BY <1>1, <1>2

\* So it holds throughout.
THEOREM CollectorsInvariant ==
    Spec => []CollectorsInv
BY CollectorsInit, CollectorsStep, PTL DEF Spec

\* TypeOK: only a running sender has a socket, the reflector keeps its port
\* through every reconcile, what is stored or counted was published, no more
\* results wait than the stream allows, and every End.X SID in the topology
\* has a time by which clearStale can find it.
THEOREM CollectorsTyped ==
    Spec => []TypeOK
<1>1. CollectorsInv => TypeOK
  <2> SUFFICES ASSUME CollectorsInv PROVE TypeOK
    OBVIOUS
  <2>1. ProbesTypeOK
    BY SMT DEF CollectorsInv, SupervisorInv, LossInv, MeasurementTypes, ProbesInv, ProbesTypeOK, Closed
  <2>2. Results \subseteq published
    BY SMT DEF CollectorsInv, ResultsInv, Results
  <2> QED
    BY <2>1, <2>2 DEF CollectorsInv, LossInv, MeasurementTypes, ResultsInv, ReportsInv, TelemetryTypeOK, TypeOK
<1> QED
  BY CollectorsInvariant, <1>1, PTL

-----------------------------------------------------------------------------
\* A published result is in the stream or waits to come again, or it is a row
\* of the database and its probe was measured, or the stream dropped it for its
\* age: no failure, redelivery or restart loses a result between the stream and
\* the database, and the collector acknowledges none that is not stored.  This
\* is what ResultsAreStored needs beside the fairness of the deliveries.
OnlyAgeDrops ==
    \A p \in published : p \in Results \/ (p \in rows /\ ~p.skewed) \/ p \in expired

\* Taking the first result from the stream leaves the others in it.
LEMMA TailKeepsRest ==
    ASSUME ResultsInv, stream # <<>>, stream' = Tail(stream)
    PROVE  \A k \in DOMAIN stream :
             stream[k] = Head(stream) \/ \E l \in DOMAIN stream' : stream'[l] = stream[k]
<1>1. stream \in Seq(published) /\ Len(stream) \in Nat \ {0} /\ Head(stream) = stream[1]
  BY LenProperties, SMT DEF ResultsInv
<1>2. /\ stream' \in Seq(published) /\ Len(stream') = Len(stream) - 1
      /\ \A k \in 1 .. Len(stream') : stream'[k] = stream[k + 1]
  BY <1>1, HeadTailProperties
<1>3. DOMAIN stream = 1 .. Len(stream) /\ DOMAIN stream' = 1 .. Len(stream) - 1
  BY <1>1, <1>2, LenProperties
<1>4. \A k \in DOMAIN stream : k = 1 \/ (k - 1 \in DOMAIN stream' /\ stream'[k - 1] = stream[k])
  BY <1>1, <1>2, <1>3, SMT
<1> QED
  BY <1>1, <1>4

\* A delivery takes one result from those to come, and only when it is
\* acknowledged.
LEMMA AnswerLosesNone ==
    ASSUME ResultsInv, NEW p \in Results, NEW ack \in BOOLEAN, Answer(p, ack), NEW q \in Results
    PROVE  q \in Results' \/ (q = p /\ ack)
<1>1. CASE /\ stream # <<>> /\ p = Head(stream) /\ stream' = Tail(stream)
           /\ again' = IF ack THEN again ELSE again \cup {p}
  <2>1. again \subseteq again' /\ (~ack => p \in again')
    BY <1>1
  <2> QED
    BY <1>1, <2>1, TailKeepsRest DEF Results
<1>2. CASE /\ p \in again /\ UNCHANGED stream
           /\ again' = IF ack THEN again \ {p} ELSE again
  BY <1>2 DEF Results
<1> QED
  BY <1>1, <1>2 DEF Answer

\* What expires is one of them.
LEMMA ExpiryDropsOne ==
    ASSUME ResultsInv, NEW p \in Results, ExpireResult(p), NEW q \in Results
    PROVE  q \in Results' \/ q = p
<1>1. CASE p \in again /\ again' = again \ {p} /\ UNCHANGED stream
  BY <1>1 DEF Results
<1>2. CASE stream # <<>> /\ p = Head(stream) /\ stream' = Tail(stream) /\ UNCHANGED again
  BY <1>2, TailKeepsRest DEF Results
<1> QED
  BY <1>1, <1>2 DEF ExpireResult

\* Every step keeps the results.
LEMMA ResultsAreKept ==
    ASSUME CollectorsInv, OnlyAgeDrops, Next
    PROVE  OnlyAgeDrops'
<1> USE DEF CollectorsInv
<1>1. CASE UNCHANGED <<stream, again, rows, published, expired>>
  BY <1>1 DEF OnlyAgeDrops, Results
<1>2. CASE Supervision /\ UNCHANGED <<runs, delivery, collector, rows, history>>
  BY <1>1, <1>2 DEF delivery, history
<1>3. ASSUME NEW id \in Senders, Opens(id) \/ Sends(id) \/ SendFails(id)
      PROVE  UNCHANGED <<stream, again, rows, published, expired>>
  BY <1>3 DEF Opens, Sends, SendFails, delivery, history
<1>4. ASSUME NEW p \in wire, Lose(p)
      PROVE  UNCHANGED <<stream, again, rows, published, expired>>
  BY <1>4 DEF Lose, history
<1>5. ASSUME NEW p \in wire, NEW skewed \in BOOLEAN, Reflect(p, skewed)
      PROVE  OnlyAgeDrops'
  <2> DEFINE r == reflectorResult(p, skewed)
  <2>1. /\ stream' = Append(stream, r) /\ published' = published \cup {r}
        /\ UNCHANGED <<again, rows, expired>>
    BY <1>5 DEF Reflect, Dispatch
  <2> HIDE DEF r
  <2>2. stream \in Seq(published') /\ r \in published'
    <3>1. stream \in Seq(published)
      BY DEF ResultsInv
    <3>2. published \subseteq published' /\ r \in published'
      BY <2>1
    <3>3. stream \in [1 .. Len(stream) -> published] /\ Len(stream) \in Nat
      BY <3>1, LenProperties
    <3>4. stream \in [1 .. Len(stream) -> published']
      BY <3>2, <3>3
    <3> QED
      BY <3>2, <3>3, <3>4, SMT
  <2>3. /\ stream' \in Seq(published') /\ Len(stream') = Len(stream) + 1
        /\ \A k \in 1 .. Len(stream) : stream'[k] = stream[k]
        /\ stream'[Len(stream) + 1] = r
    BY <2>1, <2>2, AppendProperties, SMT
  <2>4. DOMAIN stream' = 1 .. Len(stream) + 1 /\ DOMAIN stream = 1 .. Len(stream) /\ Len(stream) \in Nat
    BY <2>2, <2>3, LenProperties
  <2>5. Results \subseteq Results' /\ r \in Results'
    BY <2>1, <2>3, <2>4, SMT DEF Results
  <2> QED
    BY <2>1, <2>5 DEF OnlyAgeDrops
<1>6. ASSUME NEW p \in Results, NEW stored \in BOOLEAN, NEW acked \in BOOLEAN,
             Consume(p, stored, acked)
      PROVE  OnlyAgeDrops'
  <2> DEFINE ack == stored /\ acked /\ ~p.skewed
  <2>1. Answer(p, ack) /\ ack \in BOOLEAN
    BY <1>6 DEF Consume
  <2>2. /\ UNCHANGED <<published, expired>> /\ rows \subseteq rows'
        /\ stored /\ ~p.skewed => p \in rows'
    BY <1>6 DEF Consume, HandleSTAMP, history
  <2>3. ack => p \in rows' /\ ~p.skewed
    BY <2>2
  <2> HIDE DEF ack
  <2>4. \A q \in Results : q \in Results' \/ (q = p /\ ack)
    BY <2>1, AnswerLosesNone
  <2> QED
    BY <2>2, <2>3, <2>4 DEF OnlyAgeDrops
<1>7. CASE UNCHANGED measuring
  BY <1>1, <1>7 DEF measuring, delivery, history
<1>8. CASE ControlPlaneRestarts
  <2>1. UNCHANGED <<stream, again, rows, published, expired>>
    BY <1>8 DEF ControlPlaneRestarts, CollectorRestarts, delivery
  <2> QED
    BY <1>1, <2>1
<1>9. ASSUME NEW p \in Results, ExpireResult(p)
      PROVE  OnlyAgeDrops'
  <2>1. UNCHANGED <<rows, published>> /\ expired' = expired \cup {p}
    BY <1>9 DEF ExpireResult
  <2>2. \A q \in Results : q \in Results' \/ q = p
    BY <1>9, ExpiryDropsOne
  <2> QED
    BY <2>1, <2>2 DEF OnlyAgeDrops
<1> QED
  BY <1>1, <1>2, <1>3, <1>4, <1>5, <1>6, <1>7, <1>8, <1>9 DEF Next, TelemetryNext

\* So a result leaves the stream for the database, or for its age.
THEOREM OnlyAgeLosesResults ==
    Spec => []OnlyAgeDrops
<1>1. Init => OnlyAgeDrops
  BY DEF Init, TelemetryInit, OnlyAgeDrops
<1>2. CollectorsInv /\ OnlyAgeDrops /\ [Next]_vars => OnlyAgeDrops'
  <2>1. OnlyAgeDrops /\ UNCHANGED vars => OnlyAgeDrops'
    BY DEF OnlyAgeDrops, Results, vars, measuring, delivery, history
  <2> QED
    BY <2>1, ResultsAreKept
<1> QED
  BY <1>1, <1>2, CollectorsInvariant, PTL DEF Spec

-----------------------------------------------------------------------------
Mapped == {id \in Ids : probes[id] # "none"}

\* The supervisor's map is, between two reconciles, empty or exactly what one
\* intent asks for, and within one a part of what it goes to: a probe that
\* exits or whose stop times out leaves none missing and none too many.  This
\* is what TargetIsProbed needs beside the fairness of the goroutines.
MapIsATarget ==
    IF target = {} THEN Mapped = {} \/ \E i \in PeerIntents : Mapped = Target(i)
    ELSE Mapped \subseteq target /\ \E i \in PeerIntents : target = Target(i)

\* Starting the missing probes completes the target.
LEMMA StartMissingCompletes ==
    ASSUME SupervisorInv, ProbesInv, MapIsATarget, target # {}, StartMissing
    PROVE  MapIsATarget'
<1>1. target' = {} /\ Mapped \subseteq target /\ \E i \in PeerIntents : target = Target(i)
  BY DEF StartMissing, MapIsATarget
<1>2. \A id \in Ids : probes'[id] # "none" <=> (id \in target \/ probes[id] # "none")
  BY DEF StartMissing, startProbe, SupervisorInv
<1>3. Mapped' = target
  BY <1>1, <1>2 DEF Mapped, ProbesInv
<1> QED
  BY <1>1, <1>3 DEF MapIsATarget

\* A reconcile drops what its intent does not ask for.
LEMMA ReconcileDrops ==
    ASSUME SupervisorInv, ProbesInv, MapIsATarget, Reconcile
    PROVE  MapIsATarget'
<1> DEFINE i == Head(probeFeed)
           gone == {id \in Ids : probes[id] # "none" /\ ~IsKept(id, Target(i))}
<1>1. i \in PeerIntents
  BY SMT DEF Reconcile, ProbesInv
<1>2. CASE i.peers = {}
  BY <1>2 DEF Reconcile, MapIsATarget, Mapped
<1>3. CASE i.peers # {}
  <2>1. /\ target' = Target(i)
        /\ probes' = [id \in Ids |-> IF id \in gone THEN "none" ELSE probes[id]]
    BY <1>3 DEF Reconcile
  <2> HIDE DEF i
  <2>2. target' # {}
    BY <2>1 DEF Target
  <2>3. Mapped' \subseteq Target(i)
    BY <2>1 DEF Mapped, IsKept
  <2> QED
    BY <1>1, <2>1, <2>2, <2>3 DEF MapIsATarget
<1> QED
  BY <1>2, <1>3

\* So the map follows the intents.
THEOREM MapFollowsIntents ==
    Spec => []MapIsATarget
<1>1. Init => MapIsATarget
  BY DEF Init, TelemetryInit, ProbesInit, MapIsATarget, Mapped
<1>2. ASSUME MapIsATarget, target' = target, \A id \in Ids : probes'[id] = "none" <=> probes[id] = "none"
      PROVE  MapIsATarget'
  <2>1. Mapped' = Mapped
    BY <1>2 DEF Mapped
  <2> QED
    BY <1>2, <2>1 DEF MapIsATarget
<1>3. ASSUME CollectorsInv, MapIsATarget, Supervision
      PROVE  MapIsATarget'
  <2>1. ASSUME NEW id \in Ids, ProbeFails(id)
        PROVE  MapIsATarget'
    <3>1. UNCHANGED target /\ probes[id] = "running" /\ probes' = [probes EXCEPT ![id] = "exited"]
      BY <2>1 DEF ProbeFails, Exit
    <3> QED
      BY <1>2, <1>3, <3>1 DEF CollectorsInv, SupervisorInv
  <2>2. ASSUME UNCHANGED <<target, probes>>
        PROVE  MapIsATarget'
    BY <1>2, <1>3, <2>2
  <2>3. CASE Stopped \/ StopTimesOut
    BY <1>3, <2>3, StartMissingCompletes DEF Stopped, StopTimesOut, CollectorsInv
  <2>4. CASE ResyncTick \/ ReflectorBinds
    BY <2>2, <2>4 DEF ResyncTick, ReflectorBinds, supervisor
  <2>5. ASSUME NEW i \in PeerIntents, NewIntent(i)
        PROVE  MapIsATarget'
    BY <2>2, <2>5 DEF NewIntent
  <2>6. ASSUME NEW id \in Ids, ProbeStops(id)
        PROVE  MapIsATarget'
    BY <2>2, <2>6 DEF ProbeStops
  <2> QED
    BY <1>3, <2>1, <2>3, <2>4, <2>5, <2>6, ReconcileDrops DEF Supervision, CollectorsInv
<1>4. CollectorsInv /\ MapIsATarget /\ [Next]_vars => MapIsATarget'
  <2>1. MapIsATarget /\ UNCHANGED supervisorState => MapIsATarget'
    BY <1>2 DEF supervisorState
  <2>2. UNCHANGED vars => UNCHANGED supervisorState
    BY DEF vars, measuring, supervisor, supervisorState
  <2> QED
    BY <1>3, <2>1, <2>2, SupervisorFrame
<1> QED
  BY <1>1, <1>4, CollectorsInvariant, PTL DEF Spec

-----------------------------------------------------------------------------
\* Router r has a report in the feed s, and e is the last of them.
Mentions(s, r) == \E k \in DOMAIN s : s[k].router = r
LastReport(s, r, e) ==
    \E k \in DOMAIN s : s[k] = e /\ s[k].router = r /\ \A j \in DOMAIN s : j > k => s[j].router # r

\* What apply and clearStale leave of the report e.
Applied(r, e) == endX[r] = e.sid /\ reportedAt[r] = IF e.stale THEN "stale" ELSE "fresh"
Cleared(r, e) == e.stale /\ endX[r] = NoSID /\ reportedAt[r] = "none"

Follows(r) ==
    \/ r \in due
    \/ LastReport(reportFeed, r, state[r])
    \/ ~Mentions(reportFeed, r) /\ (Applied(r, state[r]) \/ Cleared(r, state[r]))

\* While the watch is open, the report the bucket holds of a router is due, or
\* the last of the router's in the feed, or it is what the topology has of the
\* router: applied, or cleared by the sweep when it is stale.  No report is
\* passed over and no older one stays on top of it, though the watch closes,
\* replays the bucket and the control plane restarts.  This is what
\* SegmentsFollowRouters needs beside the fairness of the goroutines.
TopologyFollows == \A r \in Routers : watching /\ state[r] # NoReport => Follows(r)

\* A router's key of the bucket holds a report of that router.
KeysAreRouters == \A r \in Routers : state[r] # NoReport => state[r].router = r

\* What a report put into the feed changes.
LEMMA AppendedReport ==
    ASSUME NEW s \in Seq(R!ReportEntries), NEW e \in R!ReportEntries, NEW r
    PROVE  /\ LastReport(Append(s, e), e.router, e)
           /\ e.router # r => /\ Mentions(Append(s, e), r) => Mentions(s, r)
                              /\ \A f : LastReport(s, r, f) => LastReport(Append(s, e), r, f)
<1> DEFINE t == Append(s, e)
<1>1. /\ t \in Seq(R!ReportEntries) /\ Len(t) = Len(s) + 1 /\ t[Len(s) + 1] = e
      /\ \A k \in 1 .. Len(s) : t[k] = s[k]
  BY AppendProperties, SMT
<1>2. DOMAIN t = 1 .. Len(s) + 1 /\ DOMAIN s = 1 .. Len(s) /\ Len(s) \in Nat
  BY <1>1, LenProperties
<1> HIDE DEF t
<1>3. LastReport(t, e.router, e)
  <2>1. Len(s) + 1 \in DOMAIN t /\ \A j \in DOMAIN t : ~(j > Len(s) + 1)
    BY <1>2, SMT
  <2> QED
    BY <1>1, <2>1 DEF LastReport
<1>4. ASSUME e.router # r, Mentions(t, r)
      PROVE  Mentions(s, r)
  BY <1>1, <1>2, <1>4, SMT DEF Mentions
<1>5. ASSUME e.router # r, NEW f, LastReport(s, r, f)
      PROVE  LastReport(t, r, f)
  <2>1. PICK k \in 1 .. Len(s) : s[k] = f /\ s[k].router = r /\ \A j \in 1 .. Len(s) : j > k => s[j].router # r
    BY <1>2, <1>5 DEF LastReport
  <2>2. k \in DOMAIN t /\ t[k] = f /\ t[k].router = r
    BY <1>1, <1>2, <2>1, SMT
  <2>3. ASSUME NEW j \in DOMAIN t, j > k
        PROVE  t[j].router # r
    BY <1>1, <1>2, <1>5, <2>1, <2>3, SMT
  <2> QED
    BY <2>2, <2>3 DEF LastReport
<1> QED
  BY <1>3, <1>4, <1>5 DEF t

\* What a report taken from the feed changes.
LEMMA TakenReport ==
    ASSUME NEW s \in Seq(R!ReportEntries), s # <<>>, NEW r
    PROVE  /\ Head(s) \in R!ReportEntries
           /\ Mentions(Tail(s), r) => Mentions(s, r)
           /\ ~Mentions(s, r) => Head(s).router # r
           /\ \A f : LastReport(s, r, f) =>
                 \/ LastReport(Tail(s), r, f)
                 \/ f = Head(s) /\ f.router = r /\ ~Mentions(Tail(s), r)
<1> DEFINE t == Tail(s)
<1>1. /\ t \in Seq(R!ReportEntries) /\ Len(t) = Len(s) - 1
      /\ \A k \in 1 .. Len(t) : t[k] = s[k + 1]
      /\ Head(s) = s[1] /\ Head(s) \in R!ReportEntries
  BY HeadTailProperties, SMT
<1>2. DOMAIN s = 1 .. Len(s) /\ Len(s) \in Nat \ {0} /\ DOMAIN t = 1 .. Len(s) - 1
  BY <1>1, LenProperties
<1> HIDE DEF t
<1>3. Mentions(t, r) => Mentions(s, r)
  <2>1. \A k \in DOMAIN t : k + 1 \in DOMAIN s /\ t[k] = s[k + 1]
    BY <1>1, <1>2, SMT
  <2> QED
    BY <2>1 DEF Mentions
<1>4. ~Mentions(s, r) => Head(s).router # r
  BY <1>1, <1>2, SMT DEF Mentions
<1>5. ASSUME NEW f, LastReport(s, r, f)
      PROVE  LastReport(t, r, f) \/ (f = Head(s) /\ f.router = r /\ ~Mentions(t, r))
  <2>1. PICK k \in 1 .. Len(s) : s[k] = f /\ s[k].router = r /\ \A j \in 1 .. Len(s) : j > k => s[j].router # r
    BY <1>2, <1>5 DEF LastReport
  <2>2. \A j \in DOMAIN t : j + 1 \in 1 .. Len(s) /\ t[j] = s[j + 1]
    BY <1>1, <1>2, SMT
  <2>3. CASE k = 1
    <3>1. \A j \in DOMAIN t : t[j].router # r
      BY <1>2, <2>1, <2>2, <2>3, SMT
    <3> QED
      BY <1>1, <2>1, <2>3, <3>1 DEF Mentions
  <2>4. CASE k # 1
    <3>1. k - 1 \in DOMAIN t /\ t[k - 1] = s[k]
      BY <1>1, <1>2, <2>1, <2>4, SMT
    <3>2. \A j \in DOMAIN t : j > k - 1 => t[j].router # r
      BY <1>2, <2>1, <2>2, SMT
    <3> QED
      BY <2>1, <3>1, <3>2 DEF LastReport
  <2> QED
    BY <2>3, <2>4
<1> QED
  BY <1>1, <1>3, <1>4, <1>5 DEF t

\* Ageing keeps the places of the reports.
LEMMA AgedReport ==
    ASSUME ReportsInv, NEW q \in Routers, R!Age(q), NEW r \in Routers, NEW f \in R!ReportEntries
    PROVE  /\ Mentions(reportFeed', r) => Mentions(reportFeed, r)
           /\ LastReport(reportFeed, r, f) => LastReport(reportFeed', r, IF r = q THEN R!IsStale(f) ELSE f)
<1>1. /\ DOMAIN reportFeed' = DOMAIN reportFeed
      /\ \A k \in DOMAIN reportFeed :
            reportFeed'[k] = IF reportFeed[k].router = q THEN R!IsStale(reportFeed[k]) ELSE reportFeed[k]
  BY DEF R!Age
<1>2. \A e \in R!ReportEntries : R!IsStale(e).router = e.router
  BY DEF R!IsStale, R!ReportEntries
<1>3. \A k \in DOMAIN reportFeed : reportFeed[k] \in R!ReportEntries
  BY DEF ReportsInv, R!ReportsTypeOK
<1>4. \A k \in DOMAIN reportFeed : reportFeed'[k].router = reportFeed[k].router
  BY <1>1, <1>2, <1>3
<1>5. Mentions(reportFeed', r) => Mentions(reportFeed, r)
  BY <1>1, <1>4 DEF Mentions
<1>6. ASSUME LastReport(reportFeed, r, f)
      PROVE  LastReport(reportFeed', r, IF r = q THEN R!IsStale(f) ELSE f)
  <2>1. PICK k \in DOMAIN reportFeed :
              /\ reportFeed[k] = f /\ reportFeed[k].router = r
              /\ \A j \in DOMAIN reportFeed : j > k => reportFeed[j].router # r
    BY <1>6 DEF LastReport
  <2>2. reportFeed'[k] = (IF r = q THEN R!IsStale(f) ELSE f) /\ reportFeed'[k].router = r
    BY <1>1, <1>4, <2>1
  <2>3. \A j \in DOMAIN reportFeed' : j > k => reportFeed'[j].router # r
    BY <1>1, <1>4, <2>1
  <2> QED
    BY <1>1, <2>1, <2>2, <2>3 DEF LastReport
<1> QED
  BY <1>5, <1>6

\* The routers a step does not touch.
LEMMA FollowsFrame ==
    ASSUME NEW r \in Routers, Follows(r), r \in due => r \in due',
           UNCHANGED <<reportFeed, endX, reportedAt>>, state'[r] = state[r]
    PROVE  Follows(r)'
BY DEF Follows, LastReport, Mentions, Applied, Cleared

\* Ageing a router's report ages it wherever it is.
LEMMA FollowsAge ==
    ASSUME ReportsInv, NEW q \in Routers, R!Age(q), NEW r \in Routers,
           state'[r] # NoReport, state[r] # NoReport => Follows(r)
    PROVE  Follows(r)'
<1>1. /\ UNCHANGED <<due, endX>>
      /\ state' = [state EXCEPT ![q] = IF @ = NoReport THEN @ ELSE R!IsStale(@)]
      /\ reportedAt' = [reportedAt EXCEPT ![q] = IF @ = "none" THEN @ ELSE "stale"]
  BY DEF R!Age
<1>2. /\ state \in [Routers -> R!ReportEntries \cup {NoReport}]
      /\ reportedAt \in [Routers -> {"none", "fresh", "stale"}]
  BY DEF ReportsInv, R!ReportsTypeOK
<1>3. state[r] # NoReport /\ state[r] \in R!ReportEntries
  BY <1>1, <1>2
<1>4. state'[r] = IF r = q THEN R!IsStale(state[r]) ELSE state[r]
  BY <1>1, <1>2, <1>3
<1>5. R!IsStale(state[r]).sid = state[r].sid /\ R!IsStale(state[r]).stale = TRUE /\ state[r].stale \in BOOLEAN
  BY <1>3 DEF R!IsStale, R!ReportEntries
<1>6. CASE r \in due
  BY <1>1, <1>6 DEF Follows
<1>7. CASE LastReport(reportFeed, r, state[r])
  BY <1>3, <1>4, <1>7, AgedReport DEF Follows
<1>8. CASE ~Mentions(reportFeed, r) /\ (Applied(r, state[r]) \/ Cleared(r, state[r]))
  <2>1. ~Mentions(reportFeed, r)'
    BY <1>3, <1>8, AgedReport DEF Mentions
  <2>2. endX'[r] = endX[r] /\ reportedAt'[r] = IF r # q \/ reportedAt[r] = "none" THEN reportedAt[r] ELSE "stale"
    BY <1>1, <1>2
  <2>3. ASSUME Applied(r, state[r])
        PROVE  Applied(r, state[r])'
    BY <1>4, <1>5, <2>2, <2>3 DEF Applied
  <2>4. ASSUME Cleared(r, state[r])
        PROVE  Cleared(r, state[r])'
    BY <1>4, <1>5, <2>2, <2>4 DEF Cleared
  <2> QED
    BY <1>8, <2>1, <2>3, <2>4 DEF Follows
<1> QED
  BY <1>3, <1>6, <1>7, <1>8 DEF Follows

\* A delivered report is the last of its router's, and not one of another's.
LEMMA FollowsDelivery ==
    ASSUME ReportsInv, KeysAreRouters, NEW q \in Routers, R!WatchDelivers(q), NEW r \in Routers,
           state'[r] # NoReport, Follows(r)
    PROVE  Follows(r)'
<1>1. /\ UNCHANGED <<state, endX, reportedAt>> /\ reportFeed' = Append(reportFeed, state[q])
      /\ due' = due \ {q} /\ q \in due
  BY DEF R!WatchDelivers
<1>2. state[q] \in R!ReportEntries /\ state[q].router = q /\ reportFeed \in Seq(R!ReportEntries)
  BY <1>1 DEF ReportsInv, R!ReportsTypeOK, KeysAreRouters
<1>3. CASE r = q
  BY <1>1, <1>2, <1>3, AppendedReport DEF Follows
<1>4. CASE r # q
  <2>1. /\ Mentions(reportFeed', r) => Mentions(reportFeed, r)
        /\ LastReport(reportFeed, r, state[r]) => LastReport(reportFeed', r, state[r])
    BY <1>1, <1>2, <1>4, AppendedReport
  <2> QED
    BY <1>1, <1>4, <2>1 DEF Follows, Applied, Cleared
<1> QED
  BY <1>3, <1>4

\* The last report of a router is applied last.
LEMMA FollowsApply ==
    ASSUME ReportsInv, R!Apply, NEW r \in Routers, state[r] # NoReport, Follows(r)
    PROVE  Follows(r)'
<1> DEFINE e == Head(reportFeed)
<1>1. /\ reportFeed # <<>> /\ reportFeed' = Tail(reportFeed) /\ UNCHANGED <<state, due>>
      /\ endX' = [endX EXCEPT ![e.router] = e.sid]
      /\ reportedAt' = [reportedAt EXCEPT ![e.router] = IF e.stale THEN "stale" ELSE "fresh"]
  BY DEF R!Apply, R!SetEndXSIDs
<1>2. /\ reportFeed \in Seq(R!ReportEntries)
      /\ endX \in [Routers -> SIDs \cup {NoSID}] /\ reportedAt \in [Routers -> {"none", "fresh", "stale"}]
  BY DEF ReportsInv, R!ReportsTypeOK
<1>3. /\ Mentions(reportFeed', r) => Mentions(reportFeed, r)
      /\ ~Mentions(reportFeed, r) => e.router # r
      /\ LastReport(reportFeed, r, state[r]) =>
            \/ LastReport(reportFeed', r, state[r])
            \/ state[r] = e /\ e.router = r /\ ~Mentions(reportFeed', r)
  BY <1>1, <1>2, TakenReport
<1> HIDE DEF e
<1>4. CASE state[r] = e /\ e.router = r /\ ~Mentions(reportFeed', r)
  <2>1. Applied(r, state[r])'
    BY <1>1, <1>2, <1>4 DEF Applied
  <2> QED
    BY <1>4, <2>1 DEF Follows
<1>5. CASE ~Mentions(reportFeed, r) /\ (Applied(r, state[r]) \/ Cleared(r, state[r]))
  <2>1. endX'[r] = endX[r] /\ reportedAt'[r] = reportedAt[r]
    BY <1>1, <1>2, <1>3, <1>5
  <2>2. (Applied(r, state[r]) => Applied(r, state[r])') /\ (Cleared(r, state[r]) => Cleared(r, state[r])')
    BY <1>1, <2>1 DEF Applied, Cleared
  <2> QED
    BY <1>3, <1>5, <2>2 DEF Follows
<1> QED
  BY <1>1, <1>3, <1>4, <1>5 DEF Follows

\* The sweep clears only what is stale.
LEMMA FollowsSweep ==
    ASSUME ReportsInv, R!ClearStale, NEW r \in Routers, state[r] # NoReport, Follows(r)
    PROVE  Follows(r)'
<1>1. /\ UNCHANGED <<state, due, reportFeed>>
      /\ endX'[r] = IF reportedAt[r] = "stale" THEN NoSID ELSE endX[r]
      /\ reportedAt'[r] = IF reportedAt[r] = "stale" THEN "none" ELSE reportedAt[r]
  BY DEF R!ClearStale
<1>2. Applied(r, state[r]) => Applied(r, state[r])' \/ Cleared(r, state[r])'
  BY <1>1 DEF Applied, Cleared
<1>3. Cleared(r, state[r]) => Cleared(r, state[r])'
  BY <1>1 DEF Cleared
<1> QED
  BY <1>1, <1>2, <1>3 DEF Follows

\* Every step keeps the bucket's keys and what follows the bucket.
LEMMA TopologyStep ==
    ASSUME ReportsInv, KeysAreRouters, TopologyFollows, R!ReportsNext
    PROVE  KeysAreRouters' /\ TopologyFollows'
<1>0. /\ state \in [Routers -> R!ReportEntries \cup {NoReport}]
      /\ due \subseteq {r \in Routers : watching /\ state[r] # NoReport}
  BY DEF ReportsInv, R!ReportsTypeOK
<1>1. ASSUME UNCHANGED <<state, watching, due, reportFeed, endX, reportedAt>>
      PROVE  KeysAreRouters' /\ TopologyFollows'
  BY <1>1, FollowsFrame DEF KeysAreRouters, TopologyFollows
<1>2. ASSUME NEW r \in Routers, NEW ok \in BOOLEAN, NEW sid \in SIDs \cup {NoSID},
             R!AgentDies(r) \/ R!AgentStarts(r, ok) \/ R!Reallocate(r, sid) \/ R!transitSegments
      PROVE  KeysAreRouters' /\ TopologyFollows'
  BY <1>1, <1>2 DEF R!AgentDies, R!AgentStarts, R!Reallocate, R!transitSegments
<1>3. ASSUME NEW q \in Routers, R!Age(q)
      PROVE  KeysAreRouters' /\ TopologyFollows'
  <2>1. /\ UNCHANGED watching
        /\ state' = [state EXCEPT ![q] = IF @ = NoReport THEN @ ELSE R!IsStale(@)]
    BY <1>3 DEF R!Age
  <2>2. \A r \in Routers : state'[r] # NoReport => state[r] # NoReport
    BY <1>0, <2>1
  <2>3. TopologyFollows'
    BY <1>3, <2>1, <2>2, FollowsAge DEF TopologyFollows
  <2>4. \A e \in R!ReportEntries : R!IsStale(e).router = e.router
    BY DEF R!IsStale, R!ReportEntries
  <2>5. KeysAreRouters'
    BY <1>0, <2>1, <2>4 DEF KeysAreRouters
  <2> QED
    BY <2>3, <2>5
<1>4. ASSUME NEW q \in Routers, R!Expire(q)
      PROVE  KeysAreRouters' /\ TopologyFollows'
  <2>1. /\ state' = [state EXCEPT ![q] = NoReport] /\ due' = due \ {q}
        /\ UNCHANGED <<watching, reportFeed, endX, reportedAt>>
    BY <1>4 DEF R!Expire
  <2>2. \A r \in Routers : r = q \/ (state'[r] = state[r] /\ (r \in due => r \in due'))
    BY <1>0, <2>1
  <2>3. state'[q] = NoReport
    BY <1>0, <2>1
  <2> QED
    BY <2>1, <2>2, <2>3, FollowsFrame DEF KeysAreRouters, TopologyFollows
<1>5. ASSUME NEW q \in Routers, R!WatchDelivers(q)
      PROVE  KeysAreRouters' /\ TopologyFollows'
  <2>1. UNCHANGED <<state, watching>>
    BY <1>5 DEF R!WatchDelivers
  <2> QED
    BY <1>5, <2>1, FollowsDelivery DEF KeysAreRouters, TopologyFollows
<1>6. ASSUME NEW q \in Routers, NEW ok \in BOOLEAN, R!ReportOnce(q, ok)
      PROVE  KeysAreRouters' /\ TopologyFollows'
  <2>1. CASE ~ok
    <3>1. UNCHANGED <<state, watching, due, reportFeed, endX, reportedAt>>
      BY <1>6, <2>1 DEF R!ReportOnce
    <3> QED
      BY <1>1, <3>1
  <2>2. CASE ok
    <3>1. /\ state' = [state EXCEPT ![q] = R!collect(q)] /\ due' = IF watching THEN due \cup {q} ELSE due
          /\ UNCHANGED <<watching, reportFeed, endX, reportedAt>>
      BY <1>6, <2>2 DEF R!ReportOnce
    <3>2. \A r \in Routers : r = q \/ (state'[r] = state[r] /\ (r \in due => r \in due'))
      BY <1>0, <3>1
    <3>3. state'[q].router = q
      BY <1>0, <3>1 DEF R!collect
    <3>4. watching' => Follows(q)'
      BY <3>1 DEF Follows
    <3> QED
      BY <3>1, <3>2, <3>3, <3>4, FollowsFrame DEF KeysAreRouters, TopologyFollows
  <2> QED
    BY <2>1, <2>2
<1>7. CASE R!Rewatch
  <2>1. due' = {r \in Routers : state[r] # NoReport} /\ UNCHANGED state
    BY <1>7 DEF R!Rewatch, R!Watch
  <2> QED
    BY <2>1 DEF KeysAreRouters, TopologyFollows, Follows
<1>8. CASE R!WatchCloses
  BY <1>8 DEF R!WatchCloses, KeysAreRouters, TopologyFollows
<1>9. CASE R!Apply
  <2>1. UNCHANGED <<state, watching>>
    BY <1>9 DEF R!Apply
  <2> QED
    BY <1>9, <2>1, FollowsApply DEF KeysAreRouters, TopologyFollows
<1>10. CASE R!ClearStale
  <2>1. UNCHANGED <<state, watching>>
    BY <1>10 DEF R!ClearStale
  <2> QED
    BY <1>10, <2>1, FollowsSweep DEF KeysAreRouters, TopologyFollows
<1>11. CASE R!transitSegments
  BY <1>1, <1>11 DEF R!transitSegments
<1> QED
  BY <1>2, <1>3, <1>4, <1>5, <1>6, <1>7, <1>8, <1>9, <1>10, <1>11 DEF R!ReportsNext, R!BecomesStale, R!IsLate

\* So the topology follows the routers' last reports.
THEOREM TopologyFollowsReports ==
    Spec => []TopologyFollows
<1>1. Init => KeysAreRouters /\ TopologyFollows
  BY DEF Init, R!ReportsInit, KeysAreRouters, TopologyFollows
<1>2. ASSUME CollectorsInv, KeysAreRouters, TopologyFollows, [Next]_vars
      PROVE  KeysAreRouters' /\ TopologyFollows'
  <2>1. CASE UNCHANGED reporting
    BY <1>2, <2>1, FollowsFrame DEF reporting, KeysAreRouters, TopologyFollows
  <2>2. CASE R!ReportsNext
    BY <1>2, <2>2, TopologyStep DEF CollectorsInv
  <2>3. CASE ControlPlaneRestarts
    <3>1. due' = {r \in Routers : state[r] # NoReport} /\ UNCHANGED state
      BY <2>3 DEF ControlPlaneRestarts, R!ReportCollectorRestarts, R!Watch
    <3> QED
      BY <1>2, <3>1 DEF KeysAreRouters, TopologyFollows, Follows
  <2> QED
    BY <1>2, <2>1, <2>2, <2>3 DEF Next, vars
<1> QED
  BY <1>1, <1>2, CollectorsInvariant, PTL DEF Spec
===============================================================================
