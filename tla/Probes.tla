------------------------------- MODULE Probes -------------------------------
(***************************************************************************)
(* The probes of a node (libs/probe): the supervisor that keeps one        *)
(* goroutine per wanted configuration, and those goroutines: a STAMP       *)
(* sender for each peer, one STAMP reflector that holds the UDP bound, and  *)
(* the interface counters.                                                 *)
(*                                                                         *)
(* A probe is named by its configuration's id.  The goroutine of a probe   *)
(* in the supervisor's map is running or has exited; one that was stopped  *)
(* is awaited, and when the wait times out it is late: cancelled, no       *)
(* longer in the map, and not yet gone.  Every target has the reflector,   *)
(* so it is never stopped, and its port is free when it has exited.        *)
(***************************************************************************)
EXTENDS Integers, Sequences

CONSTANTS
    PeerIntents,    \* [peers, devs]: the addresses to probe, the devices counted
    ProbeFeedCap,   \* capacity of the agent's probe feed
    Scenarios,      \* bounds: intents, probes sent, senders opened, results
                    \* that expire, faults
    NoIntent, NoAddress

ASSUME ProbesConstants ==
    /\ NoIntent \notin PeerIntents /\ ProbeFeedCap \in Nat \ {0}
    /\ \A s \in Scenarios :
         /\ s.intents \in Nat /\ s.probes \in Nat /\ s.runs \in Nat
         /\ s.expiries \in Nat /\ s.faults \in Nat

Reflector == <<"reflector">>
Sender(a) == <<"sender", a>>
NetStat(devs) == <<"netstat", devs>>

\* The configurations an intent asks for, by their ids.
Target(i) ==
    {Sender(a) : a \in i.peers \ {NoAddress}} \cup {Reflector, NetStat(i.devs)}

Ids == UNION {Target(i) : i \in PeerIntents}
Senders == {id \in Ids : id[1] = "sender"}

VARIABLES
    scenario,
    probeFeed, last,    \* the feed of the supervisor; what the agent repeats
    target,             \* the target of the reconcile under way, or {}
    probes,             \* id -> "none", "running" or "exited"
    stopping,           \* ids of the goroutines the reconcile waits for
    late,               \* id -> goroutines whose stop timed out
    bound,              \* the reflector has its port
    sender,             \* sender -> number of the next probe, Closed without a socket
    intents, faults,
    timedOut            \* history: a stop has timed out

supervisor == <<probeFeed, last, target, probes, stopping, late, intents, timedOut>>

Closed == -1

Goroutines(id) ==
    (IF probes[id] = "running" THEN 1 ELSE 0) + (IF id \in stopping THEN 1 ELSE 0) + late[id]

Fault == faults < scenario.faults /\ faults' = faults + 1

ProbesInit ==
    /\ scenario \in Scenarios
    /\ probeFeed = <<>> /\ last = NoIntent /\ target = {}
    /\ probes = [id \in Ids |-> "none"] /\ stopping = {} /\ late = [id \in Ids |-> 0]
    /\ bound = FALSE /\ sender = [id \in Senders |-> Closed]
    /\ intents = 0 /\ faults = 0 /\ timedOut = FALSE

-----------------------------------------------------------------------------
\* mutant: a full feed is not noticed
OfferFull(i) == probeFeed' = Append(probeFeed, i)

\* fanOutToFeeds: an intent for which there is no room is dropped.
Offer(i) == probeFeed' = IF Len(probeFeed) < ProbeFeedCap THEN Append(probeFeed, i) ELSE probeFeed

NewIntent(i) ==
    /\ intents < scenario.intents /\ intents' = intents + 1
    /\ Offer(i) /\ last' = i
    /\ UNCHANGED <<scenario, target, probes, stopping, late, bound, sender, faults, timedOut>>

\* The agent's ticker offers the last intent again.
ResyncTick ==
    /\ last # NoIntent /\ Offer(last)
    /\ UNCHANGED <<scenario, last, target, probes, stopping, late, bound, sender, intents, faults,
                   timedOut>>

\* mutant: an exited probe is kept as well
IsKeptAnyway(id, wanted) == id \in wanted /\ probes[id] # "none"

\* A probe is kept when it is wanted and has not exited.
IsKept(id, wanted) == id \in wanted /\ probes[id] = "running"

\* reconcileWithTarget up to the wait: what is not kept leaves the map, and is
\* cancelled.  An intent without peers is passed over.
Reconcile ==
    /\ target = {} /\ probeFeed # <<>> /\ probeFeed' = Tail(probeFeed)
    /\ LET i == Head(probeFeed)
           gone == {id \in Ids : probes[id] # "none" /\ ~IsKept(id, Target(i))}
       IN  IF i.peers = {}
           THEN UNCHANGED <<target, probes, stopping, sender>>
           ELSE /\ target' = Target(i)
                /\ probes' = [id \in Ids |-> IF id \in gone THEN "none" ELSE probes[id]]
                /\ stopping' = stopping \cup {id \in gone : probes[id] = "running"}
                /\ sender' = [id \in Senders |-> IF id \in gone THEN Closed ELSE sender[id]]
    /\ UNCHANGED <<scenario, last, late, bound, intents, faults, timedOut>>

startProbe(id) == IF probes[id] = "none" THEN "running" ELSE probes[id]

StartMissing ==
    /\ probes' = [id \in Ids |-> IF id \in target THEN startProbe(id) ELSE probes[id]]
    /\ target' = {}

\* mutant: stop cancels and does not wait
StoppedAtOnce ==
    /\ target # {} /\ StartMissing
    /\ UNCHANGED <<scenario, probeFeed, last, stopping, late, bound, sender, intents, faults, timedOut>>

\* stop returns: all are done, and the missing probes are started.
Stopped ==
    /\ target # {} /\ stopping = {} /\ StartMissing
    /\ UNCHANGED <<scenario, probeFeed, last, stopping, late, bound, sender, intents, faults, timedOut>>

\* stop times out.
StopTimesOut ==
    /\ target # {} /\ stopping # {} /\ StartMissing /\ Fault
    /\ stopping' = {} /\ timedOut' = TRUE
    /\ late' = [id \in Ids |-> IF id \in stopping THEN late[id] + 1 ELSE late[id]]
    /\ UNCHANGED <<scenario, probeFeed, last, bound, sender, intents>>

-----------------------------------------------------------------------------
\* The goroutines.  One that is cancelled returns.
ProbeStops(id) ==
    /\ \/ id \in stopping /\ stopping' = stopping \ {id} /\ UNCHANGED late
       \/ late[id] > 0 /\ late' = [late EXCEPT ![id] = @ - 1] /\ UNCHANGED stopping
    /\ UNCHANGED <<scenario, probeFeed, last, target, probes, bound, sender, intents, faults, timedOut>>

\* The runner of the goroutine has returned.
Exit(id) ==
    /\ probes[id] = "running" /\ probes' = [probes EXCEPT ![id] = "exited"]
    /\ UNCHANGED <<scenario, probeFeed, last, target, stopping, late, intents, timedOut>>

\* A probe returns an error: a sender that cannot open its socket, a reflector
\* whose socket is closed.
ProbeFails(id) ==
    /\ Exit(id) /\ Fault
    /\ id[1] # "netstat"            \* which only logs
    /\ id \in Senders => sender[id] = Closed
    /\ bound' = (bound /\ id # Reflector)
    /\ UNCHANGED sender

\* Serve begins with the socket.
ReflectorBinds ==
    /\ probes[Reflector] = "running" /\ ~bound /\ bound' = TRUE
    /\ UNCHANGED <<scenario, supervisor, sender, faults>>

\* A sender begins at zero on every socket.
NewSenderFromConn == 0

SenderOpens(id) ==
    /\ probes[id] = "running" /\ sender[id] = Closed
    /\ sender' = [sender EXCEPT ![id] = NewSenderFromConn]
    /\ UNCHANGED <<scenario, supervisor, bound, faults>>

\* The sequence number goes up when the packet was written.
SendOnly(seq) == seq + 1

\* One tick.  When sending fails the socket is closed, and the next tick opens
\* another.
SenderTicks(id, ok) ==
    /\ probes[id] = "running" /\ sender[id] # Closed
    /\ sender' = [sender EXCEPT ![id] = IF ok THEN SendOnly(@) ELSE Closed]
    /\ IF ok THEN UNCHANGED faults ELSE Fault
    /\ UNCHANGED <<scenario, supervisor, bound>>

ProbesTypeOK ==
    /\ Len(probeFeed) <= ProbeFeedCap /\ last \in PeerIntents \cup {NoIntent}
    /\ target \subseteq Ids /\ stopping \subseteq Ids
    /\ probes \in [Ids -> {"none", "running", "exited"}] /\ late \in [Ids -> Nat]
    /\ \A id \in Senders : sender[id] >= Closed /\ (sender[id] # Closed => probes[id] = "running")
    /\ bound \in BOOLEAN /\ (bound => probes[Reflector] = "running")

-----------------------------------------------------------------------------
\* As long as no stop has timed out, reconcileWithTarget never has two
\* goroutines of one probe, so the probes of a link come from one sequence.
NoTwinProbes ==
    ~timedOut => \A id \in Ids : Goroutines(id) <= 1

\* Whatever exits, times out or is dropped by the full feed, in the end exactly
\* the probes the agent's last intent asks for run, the reflector with its
\* port: the agent repeats the intent, and an exited probe is started again.
\* When the last intent has no peers, nothing is done.
TargetIsProbed ==
    <>[](last # NoIntent /\ last.peers # {} =>
           /\ \A id \in Ids : probes[id] = "running" <=> id \in Target(last)
           /\ bound)
=============================================================================
