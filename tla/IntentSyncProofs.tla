-------------------------- MODULE IntentSyncProofs --------------------------
(***************************************************************************)
(* Proofs about IntentSync, for any PEs, portals, scenarios and capacity:  *)
(* a restarted control plane outranks what commits published before it,    *)
(* an undisturbed commit is what the bucket holds, all that is on its way  *)
(* is typed and bounded, and three facts about what travels: an agent      *)
(* repeats what the bucket holds or has it before it, no node is ahead of  *)
(* the registry, and a tunnel is on its way to the registry or there.      *)
(*                                                                         *)
(* The first two rest on one inductive invariant, IInv.  Its heart is      *)
(* that, from one boot to the next, a node's version stands still (a       *)
(* snapshot on its way has the registry's version) and is recorded before  *)
(* it is published (floor <= top <= recorded <= registry); and that every  *)
(* snapshot of a clean node, also one of Restore, is the registry's entry. *)
(*                                                                         *)
(* What travels to a node is below the registry because the registry is    *)
(* at most one above the record (Capped).  What travels from it needs      *)
(* that the last event of a portal is of its last tunnel (Reports).        *)
(***************************************************************************)
EXTENDS IntentSync, TLAPS

\* Zenon is the prover of every leaf that names no other.
USE Zenon

Committers == Writers \ {"restore"}
Recorded(n) == IF db[n] = None THEN 0 ELSE db[n].version

ControlTypes ==
    /\ cp \in {"down", "boot", "commit", "half", "resync", "ready", "stuck"}
    /\ hooked \in BOOLEAN /\ restoring \subseteq {"called", "ensured"}
    /\ registry \in [Nodes -> Intents \cup {None}]
    /\ \A n \in Nodes : registry[n] # None => registry[n].node = n
    /\ db \in [Nodes -> Generations \cup {None}]
    /\ bucket \in [Nodes -> Intents \cup {None}]
    /\ writer \in [Writers -> [current : Intents \cup {None}, todo : SUBSET Intents]]
    /\ inbox \in [{"pe", "cpe"} -> Seq(Updates)]
    /\ sa \in [CPEs -> Nat] /\ dispatches \in Nat
    /\ events \in [Nodes -> Seq(Updates)]
    /\ resync \in [Nodes -> [todo : SUBSET Updates, asked : BOOLEAN]]
    /\ floor \in [Nodes -> Nat] /\ top \in [Nodes -> Nat]
    /\ clean \in [Nodes -> BOOLEAN]

\* A control plane that is down or boots has no work yet.
Resting ==
    cp \in {"down", "boot"} =>
        /\ ~hooked /\ restoring = {}
        /\ \A w \in Writers : ~Busy(w)
        /\ inbox["pe"] = <<>> /\ inbox["cpe"] = <<>>
        /\ \A n \in Nodes : ~clean[n]

\* Every recorded node is in the registry, under a version no lower.
Ranked ==
    \A n \in Nodes :
        /\ floor[n] <= top[n] /\ top[n] <= Recorded(n)
        /\ cp # "down" /\ registry[n] = None => db[n] = None
        /\ registry[n] # None =>
             registry[n].version > floor[n] /\ registry[n].version >= Recorded(n)

\* What is on its way has the version of the registry, recorded when next.
InFlight ==
    \A w \in Writers :
        /\ \A s \in Snapshots(w) :
             registry[s.node] # None /\ s.version = registry[s.node].version
        /\ writer[w].current # None =>
             Recorded(writer[w].current.node) >= writer[w].current.version

\* The snapshots of a clean node agree; without one the bucket is up to date.
Clean ==
    \A n \in Nodes : clean[n] =>
        /\ registry[n] # None
        /\ \A w \in Writers : \A s \in Snapshots(w) : s.node = n => s = registry[n]
        /\ \/ bucket[n] = registry[n]
           \/ \E w \in Committers : \E s \in Snapshots(w) : s.node = n

IInv == ControlTypes /\ Resting /\ Ranked /\ InFlight /\ Clean

-----------------------------------------------------------------------------
\* Where the nodes of the portals are.
LEMMA NodeFacts ==
    /\ PEs \subseteq Nodes /\ CPEs \subseteq Nodes
    /\ \A c \in CPEs : Attach[c] \in PEs /\ Attach[c] \in Nodes
    /\ None \notin Intents /\ None \notin Generations
BY SyncConstants DEF Nodes

\* A new entry has the node and the version it is made with.
LEMMA EntryTypes ==
    /\ Empty \in Bodies
    /\ \A n \in Nodes, v, g \in Nat, b \in Bodies :
         /\ Entry(n, v, g, b) \in Intents /\ Entry(n, v, g, b) # None
         /\ Entry(n, v, g, b).node = n /\ Entry(n, v, g, b).version = v
<1>1. Empty \in Bodies  BY DEF Empty, Bodies
<1>2. ASSUME NEW n \in Nodes, NEW v \in Nat, NEW g \in Nat, NEW b \in Bodies
      PROVE  /\ Entry(n, v, g, b) \in Intents
             /\ Entry(n, v, g, b).node = n /\ Entry(n, v, g, b).version = v
  BY <1>2 DEF Entry, Intents
<1> QED  BY <1>1, <1>2, NodeFacts, SMT

\* The stagers make bodies of bodies.
LEMMA StagerTypes ==
    ASSUME NEW b \in Bodies, NEW c \in CPEs, NEW k \in Nat, NEW ok \in BOOLEAN
    PROVE  /\ StagePeersForPE(b) \in Bodies
           /\ StagePortalIntentForNode(b, c, k, ok) \in Bodies
           /\ StageSIDSegsForTenantOnNode(b, k, ok) \in Bodies
           /\ [Empty EXCEPT !.ifid[c] = k] \in Bodies
           /\ [Empty EXCEPT !.named = FALSE] \in Bodies
BY EntryTypes DEF Bodies, StagePeersForPE, StagePortalIntentForNode,
   StageSIDSegsForTenantOnNode, getOrCreateTenantIntentForPE

\* getOrCreateRegistryEntry returns an entry of the node, under the version it
\* has or under the first one.
LEMMA GetOrCreateTypes ==
    ASSUME ControlTypes, NEW n \in Nodes
    PROVE  /\ GetOrCreate(n) \in Intents /\ GetOrCreate(n).node = n
           /\ GetOrCreate(n).body \in Bodies
           /\ registry[n] # None => GetOrCreate(n).version = registry[n].version
           /\ registry[n] = None => GetOrCreate(n).version = 1
<1>1. CASE registry[n] # None
  BY <1>1 DEF GetOrCreate, ControlTypes, Intents
<1>2. CASE registry[n] = None
  <2>1. (IF n \in PEs THEN 1 ELSE 0) \in Nat  OBVIOUS
  <2> QED  BY <1>2, <2>1, EntryTypes, SMT DEF GetOrCreate, Intents
<1> QED  BY <1>1, <1>2

-----------------------------------------------------------------------------
\* What a commit does under the lock: the nodes it stages get an entry under
\* the version they have, and its snapshots are these entries.
Committed(w, S) ==
    /\ registry' \in [Nodes -> Intents \cup {None}]
    /\ \A n \in Nodes : registry'[n] # None => registry'[n].node = n
    /\ \A n \in S : /\ registry'[n] \in Intents /\ registry'[n] # None
                    /\ registry'[n].version = GetOrCreate(n).version
                    /\ clean'[n] = ~Pending(n)
    /\ \A n \in Nodes \ S : registry'[n] = registry[n] /\ clean'[n] = clean[n]
    /\ writer' \in [Writers -> [current : Intents \cup {None}, todo : SUBSET Intents]]
    /\ writer'[w].current = None /\ writer'[w].todo = {registry'[n] : n \in S}
    /\ \A v \in Writers \ {w} : writer'[v] = writer[v]
    /\ clean' \in [Nodes -> BOOLEAN]

\* Mutate, which every commit calls, does so.
LEMMA MutateCommits ==
    ASSUME ControlTypes, NEW w \in Committers, ~Busy(w), NEW S \in SUBSET Nodes, NEW body,
           \A n \in S : body[n] \in Bodies, Mutate(w, S, body)
    PROVE  Committed(w, S)
<1> DEFINE new == [n \in S |-> [GetOrCreate(n) EXCEPT !.body = body[n], !.generation = @ + 1]]
<1>1. /\ registry' = [n \in Nodes |-> IF n \in S THEN new[n] ELSE registry[n]]
      /\ writer' = [writer EXCEPT ![w].todo = {new[n] : n \in S}]
      /\ clean' = [n \in Nodes |-> IF n \in S THEN ~Pending(n) ELSE clean[n]]
  BY DEF Mutate
<1>2. \A n \in S : new[n] \in Intents /\ new[n].node = n
                   /\ new[n].version = GetOrCreate(n).version
  <2> SUFFICES ASSUME NEW n \in S
               PROVE  new[n] \in Intents /\ new[n].node = n
                      /\ new[n].version = GetOrCreate(n).version
    OBVIOUS
  <2> DEFINE e == GetOrCreate(n)
  <2>1. e \in Intents /\ e.node = n /\ body[n] \in Bodies  BY GetOrCreateTypes
  <2>2. new[n] = [e EXCEPT !.body = body[n], !.generation = @ + 1]  OBVIOUS
  <2> HIDE DEF e, new
  <2>3. new[n] = [node |-> e.node, version |-> e.version, generation |-> e.generation + 1,
                  body |-> body[n]]
    BY <2>1, <2>2 DEF Intents
  <2>4. new[n] \in Intents /\ new[n].node = n /\ new[n].version = e.version
    BY <2>1, <2>3, SMT DEF Intents
  <2> QED  BY <2>4 DEF e
<1> HIDE DEF new
<1>3. \A n \in S : registry'[n] = new[n]  BY <1>1
<1>4. {new[n] : n \in S} = {registry'[n] : n \in S}  BY <1>3
<1>5. writer[w].current = None  BY DEF Busy, Snapshots
<1>6. w \in Writers  BY DEF Committers
<1>7. /\ registry' \in [Nodes -> Intents \cup {None}]
      /\ \A n \in Nodes : registry'[n] # None => registry'[n].node = n
      /\ \A n \in Nodes \ S : registry'[n] = registry[n]
  BY <1>1, <1>2 DEF ControlTypes
<1>8. {new[n] : n \in S} \in SUBSET Intents  BY <1>2
<1>9. /\ writer' \in [Writers -> [current : Intents \cup {None}, todo : SUBSET Intents]]
      /\ writer'[w].current = None /\ writer'[w].todo = {new[n] : n \in S}
      /\ \A v \in Writers \ {w} : writer'[v] = writer[v]
  BY <1>1, <1>5, <1>6, <1>8, SMT DEF ControlTypes
<1>10. /\ clean' \in [Nodes -> BOOLEAN]
       /\ \A n \in S : clean'[n] = ~Pending(n)
       /\ \A n \in Nodes \ S : clean'[n] = clean[n]
  <2>1. clean \in [Nodes -> BOOLEAN]  BY DEF ControlTypes
  <2>2. \A n \in Nodes : Pending(n) \in BOOLEAN  BY DEF Pending
  <2> QED  BY <1>1, <2>1, <2>2
<1> QED  BY <1>2, <1>3, <1>4, <1>7, <1>9, <1>10, NodeFacts DEF Committed

\* A commit preserves the order of the versions, and what is in flight.
LEMMA MutateRanked ==
    ASSUME ControlTypes, Ranked, InFlight, NEW w \in Committers,
           NEW S \in SUBSET Nodes, Committed(w, S), cp # "down", UNCHANGED <<db, floor, top>>
    PROVE  Ranked' /\ InFlight'
<1>1. ASSUME NEW n \in S
      PROVE  /\ registry'[n] # None /\ registry'[n].version > floor[n]
             /\ registry'[n].version >= Recorded(n)
             /\ registry[n] # None => registry'[n].version = registry[n].version
  <2>1. registry'[n] # None /\ registry'[n].version = GetOrCreate(n).version
    BY <1>1, NodeFacts DEF Committed
  <2>2. CASE registry[n] # None
    BY <2>1, <2>2, <1>1, GetOrCreateTypes DEF Ranked
  <2>3. CASE registry[n] = None
    BY <2>1, <2>3, <1>1, GetOrCreateTypes, SMT DEF Ranked, Recorded, ControlTypes
  <2> QED  BY <2>1, <2>2, <2>3
<1>2. \A n \in Nodes \ S : registry'[n] = registry[n]  BY DEF Committed
<1>3. \A n \in Nodes : Recorded(n)' = Recorded(n)  BY DEF Recorded
<1>4. Ranked'
  BY <1>1, <1>2, <1>3 DEF Ranked
<1>5. ASSUME NEW v \in Writers
      PROVE  /\ \A s \in Snapshots(v)' :
                  registry'[s.node] # None /\ s.version = registry'[s.node].version
             /\ writer'[v].current # None =>
                  Recorded(writer[v].current.node)' >= writer'[v].current.version
  <2>1. CASE v = w
    <3>1. writer'[v].current = None /\ writer'[v].todo = {registry'[n] : n \in S}
      BY <2>1 DEF Committed
    <3>2. \A n \in S : registry'[n] # None /\ registry'[n].node = n
      BY <1>1 DEF Committed
    <3> QED  BY <3>1, <3>2, SMT DEF Snapshots
  <2>2. CASE v # w
    <3>1. writer'[v] = writer[v]  BY <2>2, <1>5 DEF Committed
    <3>2. \A s \in Snapshots(v) : s \in Intents /\ s.node \in Nodes
      BY <1>5, SMT DEF Snapshots, ControlTypes, Intents
    <3>3. Snapshots(v)' = Snapshots(v)  BY <3>1 DEF Snapshots
    <3>4. \A s \in Snapshots(v) :
             registry'[s.node] # None /\ s.version = registry'[s.node].version
      BY <3>2, <1>1, <1>2 DEF InFlight
    <3>5. writer[v].current # None =>
             Recorded(writer[v].current.node) >= writer[v].current.version
      BY <1>5 DEF InFlight
    <3>6. writer[v].current # None => writer[v].current.node \in Nodes
      BY <3>2 DEF Snapshots
    <3> QED  BY <3>1, <3>3, <3>4, <3>5, <3>6, <1>3
  <2> QED  BY <2>1, <2>2
<1> QED  BY <1>4, <1>5 DEF InFlight

\* A commit leaves the nodes it does not stage clean, and one it stages is
\* clean when nothing of it was in flight.
LEMMA MutateClean ==
    ASSUME ControlTypes, Clean, NEW w \in Committers, ~Busy(w),
           NEW S \in SUBSET Nodes, Committed(w, S), UNCHANGED bucket
    PROVE  Clean'
<1> SUFFICES ASSUME NEW n \in Nodes, clean'[n]
             PROVE  /\ registry'[n] # None
                    /\ \A v \in Writers : \A s \in Snapshots(v)' : s.node = n => s = registry'[n]
                    /\ \/ bucket[n] = registry'[n]
                       \/ \E v \in Committers : \E s \in Snapshots(v)' : s.node = n
  BY DEF Clean
<1>0. w \in Writers  BY DEF Committers
<1>1. Snapshots(w) = {} /\ Snapshots(w)' = {registry'[m] : m \in S}
  BY DEF Committed, Busy, Snapshots
<1>2. \A v \in Writers \ {w} : Snapshots(v)' = Snapshots(v)
  BY DEF Committed, Snapshots
<1>3. \A m \in S : registry'[m] # None /\ registry'[m].node = m
  BY NodeFacts DEF Committed
<1>4. CASE n \in S
  <2>1. ~Pending(n)  BY <1>4 DEF Committed
  <2>2. registry'[n] \in Snapshots(w)'  BY <1>4, <1>1
  <2> QED  BY <2>1, <2>2, <1>0, <1>1, <1>2, <1>3, <1>4, SMT DEF Pending
<1>5. CASE n \notin S
  <2>1. clean[n] /\ registry'[n] = registry[n]  BY <1>5 DEF Committed
  <2>2. \A m \in S : registry'[m].node # n  BY <1>3, <1>5
  <2>3. \A v \in Committers : (\E s \in Snapshots(v) : s.node = n) =>
            (\E s \in Snapshots(v)' : s.node = n)
    BY <1>1, <1>2 DEF Committers
  <2> QED  BY <2>1, <2>2, <2>3, <1>1, <1>2, SMT DEF Clean
<1> QED  BY <1>4, <1>5

-----------------------------------------------------------------------------
\* A snapshot in flight is an entry of a node in the registry.
LEMMA SnapshotFacts ==
    ASSUME IInv, NEW w \in Writers, NEW s \in Snapshots(w)
    PROVE  /\ s \in Intents /\ s # None /\ s.node \in Nodes /\ s.version \in Nat
           /\ registry[s.node] # None /\ registry[s.node] \in Intents
           /\ s.version = registry[s.node].version
           /\ clean[s.node] => s = registry[s.node]
<1>1. s \in Intents  BY SMT DEF Snapshots, IInv, ControlTypes
<1>2. s.node \in Nodes /\ s.version \in Nat  BY <1>1 DEF Intents
<1> QED  BY <1>1, <1>2, NodeFacts, SMT DEF IInv, ControlTypes, InFlight, Clean

\* An upsert that succeeds raises the recorded version to that of the registry,
\* one that fails drops a snapshot of a node that is then not clean.
LEMMA UpsertInv ==
    ASSUME IInv, NEW w \in Writers, NEW ok \in BOOLEAN, Upsert(w, ok)
    PROVE  IInv'
<1>1. PICK s \in writer[w].todo :
         /\ writer' = [writer EXCEPT ![w] =
                         [todo |-> @.todo \ {s}, current |-> IF ok THEN s ELSE None]]
         /\ db' = IF ok THEN [db EXCEPT ![s.node] = [version |-> s.version,
                                                     generation |-> s.generation]]
                        ELSE db
         /\ clean' = [clean EXCEPT ![s.node] = @ /\ ok]
  BY DEF Upsert
<1>2. /\ w \in Committers /\ writer[w].current = None
      /\ UNCHANGED <<cp, hooked, restoring, registry, inbox, bucket, sa, events, resync,
                     floor, top, dispatches>>
  BY DEF Upsert, Committers, nats, tunnels
<1>3. s \in Snapshots(w)  BY <1>1 DEF Snapshots
<1>4. /\ s \in Intents /\ s # None /\ s.node \in Nodes /\ s.version \in Nat
      /\ registry[s.node] # None /\ s.version = registry[s.node].version
  BY <1>3, SnapshotFacts
<1>5. /\ writer' \in [Writers -> [current : Intents \cup {None}, todo : SUBSET Intents]]
      /\ writer'[w].todo = writer[w].todo \ {s}
      /\ writer'[w].current = IF ok THEN s ELSE None
      /\ \A v \in Writers \ {w} : writer'[v] = writer[v]
  <2>1. (IF ok THEN s ELSE None) \in Intents \cup {None}  BY <1>4
  <2>2. writer[w].todo \ {s} \in SUBSET Intents  BY DEF IInv, ControlTypes
  <2> QED  BY <1>1, <2>1, <2>2 DEF IInv, ControlTypes
<1>6. /\ \A v \in Writers : Snapshots(v)' \subseteq Snapshots(v)
      /\ \A v \in Writers \ {w} : Snapshots(v)' = Snapshots(v)
      /\ ok => Snapshots(w)' = Snapshots(w)
      /\ \A t \in Snapshots(w) : t = s \/ t \in Snapshots(w)'
  BY <1>1, <1>2, <1>4, <1>5, SMT DEF Snapshots
<1>7. /\ db' \in [Nodes -> Generations \cup {None}]
      /\ \A n \in Nodes \ {s.node} : db'[n] = db[n]
      /\ ok => db'[s.node] # None /\ db'[s.node].version = s.version
      /\ ~ok => db' = db
  <2>1. [version |-> s.version, generation |-> s.generation] \in Generations
    BY <1>4 DEF Intents, Generations
  <2> QED  BY <1>1, <1>4, <2>1, NodeFacts DEF IInv, ControlTypes
<1>8. /\ \A n \in Nodes : Recorded(n)' >= Recorded(n) /\ Recorded(n)' \in Nat
      /\ \A n \in Nodes \ {s.node} : Recorded(n)' = Recorded(n)
      /\ ok => Recorded(s.node)' = s.version
      /\ ~ok => Recorded(s.node)' = Recorded(s.node)
  <2>1. \A n \in Nodes : Recorded(n) \in Nat
    BY DEF Recorded, IInv, ControlTypes, Generations
  <2>2. \A n \in Nodes \ {s.node} : Recorded(n)' = Recorded(n)  BY <1>7 DEF Recorded
  <2>3. ok => Recorded(s.node)' = s.version  BY <1>7 DEF Recorded
  <2>4. ~ok => Recorded(s.node)' = Recorded(s.node)  BY <1>7 DEF Recorded
  <2>5. s.version >= Recorded(s.node)  BY <1>4 DEF IInv, Ranked
  <2> QED  BY <2>1, <2>2, <2>3, <2>4, <2>5, <1>4, SMT
<1>9. /\ clean' \in [Nodes -> BOOLEAN] /\ \A n \in Nodes : clean'[n] => clean[n]
      /\ clean'[s.node] => ok
  <2>1. clean \in [Nodes -> BOOLEAN]  BY DEF IInv, ControlTypes
  <2> QED  BY <1>1, <1>4, <2>1
<1>10. ControlTypes'  BY <1>2, <1>5, <1>7, <1>9 DEF IInv, ControlTypes
<1>11. Resting'
  <2>1. \A v \in Writers : ~Busy(v) => ~Busy(v)'  BY <1>6 DEF Busy
  <2>2. "start" \in Writers  BY DEF Writers
  <2> QED  BY <1>2, <1>9, <2>1, <2>2 DEF IInv, Resting
<1>12. Ranked'
  <2>1. \A n \in Nodes : registry[n] # None => registry[n].version >= Recorded(n)'
    BY <1>4, <1>8, SMT DEF IInv, Ranked
  <2>2. \A n \in Nodes : registry[n] = None => db'[n] = db[n]  BY <1>4, <1>7
  <2>3. \A n \in Nodes : top[n] <= Recorded(n)'
    BY <1>8, SMT DEF IInv, Ranked, ControlTypes, Recorded, Generations
  <2> QED  BY <1>2, <2>1, <2>2, <2>3 DEF IInv, Ranked
<1>13. InFlight'
  <2>1. ASSUME NEW v \in Writers, writer'[v].current # None
        PROVE  Recorded(writer[v].current.node)' >= writer'[v].current.version
    <3>1. CASE v = w  BY <3>1, <2>1, <1>4, <1>5, <1>8, SMT
    <3>2. CASE v # w
      <4>1. writer'[v] = writer[v]  BY <3>2, <1>5
      <4>2. writer[v].current \in Snapshots(v)  BY <2>1, <4>1 DEF Snapshots
      <4>3. writer[v].current.node \in Nodes /\ writer[v].current.version \in Nat
        BY <4>2, SnapshotFacts
      <4>4. Recorded(writer[v].current.node) >= writer[v].current.version
        BY <2>1, <4>1 DEF IInv, InFlight
      <4>5. Recorded(writer[v].current.node) \in Nat
        BY <4>3 DEF Recorded, IInv, ControlTypes, Generations
      <4> QED  BY <4>1, <4>3, <4>4, <4>5, <1>8, SMT
    <3> QED  BY <3>1, <3>2
  <2>2. \A v \in Writers : \A t \in Snapshots(v)' :
           registry'[t.node] # None /\ t.version = registry'[t.node].version
    BY <1>2, <1>6 DEF IInv, InFlight
  <2> QED  BY <2>1, <2>2 DEF InFlight
<1>14. Clean'
  <2> SUFFICES ASSUME NEW n \in Nodes, clean'[n]
               PROVE  /\ registry[n] # None
                      /\ \A v \in Writers : \A t \in Snapshots(v)' : t.node = n => t = registry[n]
                      /\ \/ bucket[n] = registry[n]
                         \/ \E v \in Committers : \E t \in Snapshots(v)' : t.node = n
    BY <1>2 DEF Clean
  <2>1. clean[n]  BY <1>9
  <2>2. \A v \in Committers : (\E t \in Snapshots(v) : t.node = n) =>
            \E t \in Snapshots(v)' : t.node = n
    BY <1>6, <1>9 DEF Committers
  <2> QED  BY <1>6, <2>1, <2>2, SMT DEF IInv, Clean
<1> QED  BY <1>10, <1>11, <1>12, <1>13, <1>14 DEF IInv

\* A publish takes a recorded version into the bucket, so the highest version
\* published stays below the recorded one; when it fails the node is not clean.
LEMMA PublishInv ==
    ASSUME IInv, NEW w \in Writers, NEW ok \in BOOLEAN, Publish(w, ok)
    PROVE  IInv'
<1> DEFINE s == writer[w].current
           put == ok /\ bucketUp
<1>1. /\ w \in Committers /\ s # None
      /\ writer' = [writer EXCEPT ![w].current = None]
      /\ UNCHANGED <<cp, hooked, restoring, registry, db, inbox, sa, events, resync,
                     floor, dispatches>>
  BY DEF Publish, Committers, tunnels
<1>2. /\ put => /\ bucket' = [bucket EXCEPT ![s.node] = s] /\ UNCHANGED clean
                /\ top' = [top EXCEPT ![s.node] = IF s.version > @ THEN s.version ELSE @]
      /\ ~put => clean' = [clean EXCEPT ![s.node] = FALSE] /\ UNCHANGED <<bucket, top>>
  BY DEF Publish, Put
<1>3. s \in Snapshots(w)  BY <1>1 DEF Snapshots
<1>4. /\ s \in Intents /\ s.node \in Nodes /\ s.version \in Nat
      /\ clean[s.node] => s = registry[s.node]
  BY <1>3, SnapshotFacts
<1>5. Recorded(s.node) >= s.version  BY <1>1 DEF IInv, InFlight
<1> HIDE DEF s, put
<1>6. /\ writer' \in [Writers -> [current : Intents \cup {None}, todo : SUBSET Intents]]
      /\ writer'[w].current = None /\ writer'[w].todo = writer[w].todo
      /\ \A v \in Writers \ {w} : writer'[v] = writer[v]
  <2>1. writer \in [Writers -> [current : Intents \cup {None}, todo : SUBSET Intents]]
    BY DEF IInv, ControlTypes
  <2> QED  BY <1>1, <2>1
<1>7. /\ \A v \in Writers : Snapshots(v)' \subseteq Snapshots(v)
      /\ \A v \in Writers \ {w} : Snapshots(v)' = Snapshots(v)
      /\ \A t \in Snapshots(w) : t = s \/ t \in Snapshots(w)'
  BY <1>6 DEF Snapshots, s
<1>8. /\ bucket' \in [Nodes -> Intents \cup {None}]
      /\ put => bucket'[s.node] = s
      /\ \A n \in Nodes \ {s.node} : bucket'[n] = bucket[n]
  BY <1>2, <1>4, ZenonT(40) DEF IInv, ControlTypes
<1>9. /\ top' \in [Nodes -> Nat]
      /\ \A n \in Nodes : top'[n] >= top[n] /\ top'[n] <= Recorded(n)
  <2>1. \A n \in Nodes : top[n] \in Nat /\ Recorded(n) \in Nat /\ top[n] <= Recorded(n)
    BY DEF Recorded, IInv, ControlTypes, Generations, Ranked
  <2>2. top \in [Nodes -> Nat]  BY DEF IInv, ControlTypes
  <2>3. CASE ~put  BY <2>1, <2>2, <2>3, <1>2, SMT
  <2>4. CASE put
    <3>1. (IF s.version > top[s.node] THEN s.version ELSE top[s.node]) \in Nat
      BY <1>4, <2>1
    <3>2. /\ top' \in [Nodes -> Nat]
          /\ top'[s.node] = IF s.version > top[s.node] THEN s.version ELSE top[s.node]
          /\ \A n \in Nodes \ {s.node} : top'[n] = top[n]
      BY <2>2, <2>4, <1>2, <1>4, <3>1
    <3> QED  BY <3>2, <2>1, <1>4, <1>5, SMT
  <2> QED  BY <2>3, <2>4
<1>10. /\ clean' \in [Nodes -> BOOLEAN] /\ \A n \in Nodes : clean'[n] => clean[n]
       /\ clean'[s.node] => put
  <2>1. clean \in [Nodes -> BOOLEAN]  BY DEF IInv, ControlTypes
  <2>2. CASE put  BY <1>2, <2>1, <2>2
  <2>3. CASE ~put  BY <1>2, <1>4, <2>1, <2>3
  <2> QED  BY <2>2, <2>3
<1>11. \A n \in Nodes : Recorded(n)' = Recorded(n)  BY <1>1 DEF Recorded
<1>12. ControlTypes'  BY <1>1, <1>6, <1>8, <1>9, <1>10 DEF IInv, ControlTypes
<1>13. Resting'
  <2>1. \A v \in Writers : ~Busy(v) => ~Busy(v)'  BY <1>7 DEF Busy
  <2>2. "start" \in Writers  BY DEF Writers
  <2> QED  BY <1>1, <1>10, <2>1, <2>2 DEF IInv, Resting
<1>14. Ranked'
  <2>1. \A n \in Nodes : floor[n] \in Nat /\ top[n] \in Nat /\ top'[n] \in Nat
    BY <1>9 DEF IInv, ControlTypes
  <2> QED  BY <1>1, <1>9, <1>11, <2>1, SMT DEF IInv, Ranked
<1>15. InFlight'
  <2>1. ASSUME NEW v \in Writers, writer'[v].current # None
        PROVE  Recorded(writer[v].current.node)' >= writer'[v].current.version
    <3>1. writer'[v] = writer[v]  BY <2>1, <1>6
    <3>2. writer[v].current \in Snapshots(v)  BY <2>1, <3>1 DEF Snapshots
    <3>3. writer[v].current.node \in Nodes  BY <3>2, SnapshotFacts
    <3> QED  BY <2>1, <3>1, <3>3, <1>11 DEF IInv, InFlight
  <2>2. \A v \in Writers : \A t \in Snapshots(v)' :
           registry'[t.node] # None /\ t.version = registry'[t.node].version
    BY <1>1, <1>7 DEF IInv, InFlight
  <2> QED  BY <2>1, <2>2 DEF InFlight
<1>16. Clean'
  <2> SUFFICES ASSUME NEW n \in Nodes, clean'[n]
               PROVE  /\ registry[n] # None
                      /\ \A v \in Writers : \A t \in Snapshots(v)' : t.node = n => t = registry[n]
                      /\ \/ bucket'[n] = registry[n]
                         \/ \E v \in Committers : \E t \in Snapshots(v)' : t.node = n
    BY <1>1 DEF Clean
  <2>1. clean[n]  BY <1>10
  <2>2. CASE n = s.node  BY <2>1, <2>2, <1>4, <1>7, <1>8, <1>10, SMT DEF IInv, Clean
  <2>3. CASE n # s.node
    <3>1. \A v \in Committers : (\E t \in Snapshots(v) : t.node = n) =>
              \E t \in Snapshots(v)' : t.node = n
      BY <1>7, <2>3 DEF Committers
    <3> QED  BY <2>1, <2>3, <3>1, <1>7, <1>8, SMT DEF IInv, Clean
  <2> QED  BY <2>2, <2>3
<1> QED  BY <1>12, <1>13, <1>14, <1>15, <1>16 DEF IInv

\* Restore publishes the registry: its snapshots are the entries themselves.
LEMMA RestoreSnapshotsInv ==
    ASSUME IInv, RestoreSnapshots
    PROVE  IInv'
<1>1. /\ ~Busy("restore") /\ cp # "down"
      /\ restoring # {} /\ restoring' \subseteq restoring
      /\ UNCHANGED <<cp, hooked, registry, db, inbox, bucket, sa, events, resync, floor, top,
                     dispatches>>
  BY DEF RestoreSnapshots, nats, tunnels, IInv, Resting
<1>2. /\ writer' = [writer EXCEPT !["restore"].todo =
                             {registry[n] : n \in {n \in Nodes : registry[n] # None}}]
      /\ clean' = [n \in Nodes |-> clean[n] /\ ~Pending(n)]
  BY DEF RestoreSnapshots
<1> DEFINE S == {n \in Nodes : registry[n] # None}
<1>3. "restore" \in Writers /\ "start" \in Writers /\ "start" # "restore"  BY DEF Writers
<1>4. {registry[n] : n \in S} \in SUBSET Intents  BY SMT DEF IInv, ControlTypes
<1>5. writer["restore"].current = None /\ writer["restore"].todo = {}
  BY <1>1, <1>3 DEF Busy, Snapshots
<1>6. /\ writer' \in [Writers -> [current : Intents \cup {None}, todo : SUBSET Intents]]
      /\ writer'["restore"].current = None
      /\ writer'["restore"].todo \subseteq {registry[n] : n \in S}
      /\ \A v \in Committers : writer'[v] = writer[v]
  <2> DEFINE T == {registry[n] : n \in S}
  <2>1. T \in SUBSET Intents /\ writer' = [writer EXCEPT !["restore"].todo = T]
    BY <1>2, <1>4
  <2>2. writer \in [Writers -> [current : Intents \cup {None}, todo : SUBSET Intents]]
    BY DEF IInv, ControlTypes
  <2> HIDE DEF T
  <2>3. /\ writer' \in [Writers -> [current : Intents \cup {None}, todo : SUBSET Intents]]
        /\ writer'["restore"].current = None /\ writer'["restore"].todo = T
        /\ \A v \in Committers : writer'[v] = writer[v]
    BY <1>3, <1>5, <2>1, <2>2 DEF Committers
  <2> QED  BY <2>3 DEF T
<1>7. /\ \A v \in Committers : Snapshots(v)' = Snapshots(v)
      /\ \A t \in Snapshots("restore")' :
           registry[t.node] # None /\ t = registry[t.node]
  BY <1>6, SMT DEF Snapshots, IInv, ControlTypes
<1>8. clean' \in [Nodes -> BOOLEAN] /\ \A n \in Nodes : clean'[n] => clean[n]
  <2>1. clean \in [Nodes -> BOOLEAN]  BY DEF IInv, ControlTypes
  <2> QED  BY <1>2, <2>1
<1>9. \A n \in Nodes : Recorded(n)' = Recorded(n)  BY <1>1 DEF Recorded
<1>10. \A v \in Writers : v = "restore" \/ v \in Committers  BY DEF Committers
<1>11. ControlTypes'  BY <1>1, <1>6, <1>8 DEF IInv, ControlTypes
<1>12. Resting'
  <2>1. ~Busy("start") => ~Busy("start")'  BY <1>3, <1>7 DEF Busy, Committers
  <2> QED  BY <1>1, <2>1 DEF IInv, Resting
<1>13. Ranked'  BY <1>1, <1>9 DEF IInv, Ranked
<1>14. InFlight'
  <2>1. \A v \in Writers : \A t \in Snapshots(v)' :
           registry'[t.node] # None /\ t.version = registry'[t.node].version
    BY <1>1, <1>7, <1>10 DEF IInv, InFlight, Committers
  <2>2. ASSUME NEW v \in Writers, writer'[v].current # None
        PROVE  Recorded(writer[v].current.node)' >= writer'[v].current.version
    <3>1. v \in Committers /\ writer'[v] = writer[v]  BY <2>2, <1>6, <1>10
    <3>2. writer[v].current \in Snapshots(v)  BY <2>2, <3>1 DEF Snapshots
    <3>3. writer[v].current.node \in Nodes  BY <3>2, SnapshotFacts
    <3> QED  BY <2>2, <3>1, <3>3, <1>9 DEF IInv, InFlight
  <2> QED  BY <2>1, <2>2 DEF InFlight
<1>15. Clean'
  <2> SUFFICES ASSUME NEW n \in Nodes, clean'[n]
               PROVE  /\ registry[n] # None
                      /\ \A v \in Writers : \A t \in Snapshots(v)' : t.node = n => t = registry[n]
                      /\ \/ bucket[n] = registry[n]
                         \/ \E v \in Committers : \E t \in Snapshots(v)' : t.node = n
    BY <1>1 DEF Clean
  <2>1. clean[n]  BY <1>8
  <2>2. \A v \in Writers : \A t \in Snapshots(v)' : t.node = n => t = registry[n]
    BY <2>1, <1>7, <1>10, SMT DEF IInv, Clean, Committers
  <2> QED  BY <2>1, <2>2, <1>7, SMT DEF IInv, Clean
<1> QED  BY <1>11, <1>12, <1>13, <1>14, <1>15 DEF IInv

\* One node of Restore: what it puts of a clean node is the registry's entry.
LEMMA RestoreOneInv ==
    ASSUME IInv, NEW ok \in BOOLEAN, RestoreOne(ok)
    PROVE  IInv'
<1>1. PICK s \in writer["restore"].todo :
         IF ok /\ bucketUp /\ s.body.named
         THEN Put(s) /\ writer' = [writer EXCEPT !["restore"].todo = @ \ {s}]
         ELSE writer' = [writer EXCEPT !["restore"].todo = {}] /\ UNCHANGED <<bucket, fresh>>
  BY DEF RestoreOne
<1>2. UNCHANGED <<cp, hooked, restoring, registry, db, inbox, sa, events, resync, floor, top,
                  clean, dispatches>>
  BY DEF RestoreOne, tunnels, history
<1>3. "restore" \in Writers /\ "start" \in Writers  BY DEF Writers
<1>4. s \in Snapshots("restore")  BY <1>1 DEF Snapshots
<1>5. s \in Intents /\ s.node \in Nodes /\ (clean[s.node] => s = registry[s.node])
  BY <1>3, <1>4, SnapshotFacts
<1>6. /\ writer' \in [Writers -> [current : Intents \cup {None}, todo : SUBSET Intents]]
      /\ writer'["restore"].current = writer["restore"].current
      /\ writer'["restore"].todo \subseteq writer["restore"].todo
      /\ \A v \in Committers : writer'[v] = writer[v]
      /\ bucket' \in [Nodes -> Intents \cup {None}]
      /\ \A n \in Nodes : bucket'[n] = bucket[n] \/ (n = s.node /\ bucket'[n] = s)
  <2>1. /\ writer \in [Writers -> [current : Intents \cup {None}, todo : SUBSET Intents]]
        /\ bucket \in [Nodes -> Intents \cup {None}]
    BY DEF IInv, ControlTypes
  <2>2. CASE ok /\ bucketUp /\ s.body.named
    <3>1. /\ writer' = [writer EXCEPT !["restore"].todo = @ \ {s}]
          /\ bucket' = [bucket EXCEPT ![s.node] = s]
      BY <1>1, <2>2 DEF Put
    <3> QED  BY <2>1, <3>1, <1>3, <1>5 DEF Committers
  <2>3. CASE ~(ok /\ bucketUp /\ s.body.named)
    <3>1. writer' = [writer EXCEPT !["restore"].todo = {}] /\ bucket' = bucket
      BY <1>1, <2>3
    <3> QED  BY <2>1, <3>1, <1>3 DEF Committers
  <2> QED  BY <2>2, <2>3
<1>7. \A v \in Writers : v = "restore" \/ v \in Committers  BY DEF Committers
<1>8. /\ \A v \in Writers : Snapshots(v)' \subseteq Snapshots(v)
      /\ \A v \in Committers : Snapshots(v)' = Snapshots(v)
      /\ \A v \in Writers : writer'[v].current = writer[v].current
  BY <1>6, <1>7 DEF Snapshots
<1>9. \A n \in Nodes : Recorded(n)' = Recorded(n)  BY <1>2 DEF Recorded
<1>10. ControlTypes'  BY <1>2, <1>6 DEF IInv, ControlTypes
<1>11. Resting'
  <2>1. \A v \in Writers : ~Busy(v) => ~Busy(v)'  BY <1>8 DEF Busy
  <2> QED  BY <1>2, <1>3, <2>1 DEF IInv, Resting
<1>12. Ranked'  BY <1>2, <1>9 DEF IInv, Ranked
<1>13. InFlight'
  <2>1. \A v \in Writers : \A t \in Snapshots(v)' :
           registry'[t.node] # None /\ t.version = registry'[t.node].version
    BY <1>2, <1>8 DEF IInv, InFlight
  <2>2. ASSUME NEW v \in Writers, writer'[v].current # None
        PROVE  Recorded(writer[v].current.node)' >= writer'[v].current.version
    <3>1. writer'[v].current = writer[v].current  BY <1>8
    <3>2. writer[v].current \in Snapshots(v)  BY <2>2, <3>1 DEF Snapshots
    <3>3. writer[v].current.node \in Nodes  BY <3>2, SnapshotFacts
    <3> QED  BY <2>2, <3>1, <3>3, <1>9 DEF IInv, InFlight
  <2> QED  BY <2>1, <2>2 DEF InFlight
<1>14. Clean'
  BY <1>2, <1>5, <1>6, <1>8, SMT DEF IInv, Clean
<1> QED  BY <1>10, <1>11, <1>12, <1>13, <1>14 DEF IInv

-----------------------------------------------------------------------------
\* A step that leaves the registry, the record, the writers and the bucket
\* alone preserves what is said of them.
LEMMA Frame ==
    ASSUME IInv, UNCHANGED <<registry, db, writer, bucket, floor, top, clean>>,
           cp = "down" => cp' = "down"
    PROVE  Ranked' /\ InFlight' /\ Clean' /\ \A w \in Writers : Busy(w)' = Busy(w)
<1>1. \A n : Recorded(n)' = Recorded(n)  BY DEF Recorded
<1>2. \A w : Snapshots(w)' = Snapshots(w)  BY DEF Snapshots
<1>3. Ranked'  BY <1>1 DEF IInv, Ranked
<1>4. InFlight'
  <2>1. \A w \in Writers : writer[w].current # None =>
            Recorded(writer[w].current.node)' >= writer'[w].current.version
    BY <1>1 DEF IInv, InFlight
  <2> QED  BY <1>2, <2>1 DEF IInv, InFlight
<1>5. Clean'  BY <1>2 DEF IInv, Clean
<1> QED  BY <1>2, <1>3, <1>4, <1>5 DEF Busy

\* Restore first sees to the bucket, which no one's intent depends on.
LEMMA RestoreInv ==
    ASSUME IInv, NEW ok \in BOOLEAN, Restore(ok)
    PROVE  IInv'
<1>1. /\ restoring = {"called"} /\ restoring' \subseteq {"called", "ensured"}
      /\ UNCHANGED <<cp, hooked, registry, db, writer, inbox, bucket, sa, events, resync, floor, top,
                     clean, dispatches>>
  BY DEF Restore, tunnels, history
<1>2. Ranked' /\ InFlight' /\ Clean'  BY <1>1, Frame
<1>3. ControlTypes'  BY <1>1 DEF IInv, ControlTypes
<1>4. Resting'  BY <1>1 DEF IInv, Resting
<1> QED  BY <1>2, <1>3, <1>4 DEF IInv

\* The new body of each node of a commit, and what it leaves alone.
LEMMA CommitInv ==
    ASSUME IInv, NEW w \in Committers, ~Busy(w), NEW S \in SUBSET Nodes, NEW body,
           \A n \in S : body[n] \in Bodies, Mutate(w, S, body),
           cp # "down", cp' \in {"commit", "half", "resync", "ready", "stuck"}, hooked' \in BOOLEAN,
           UNCHANGED <<restoring, db, bucket, sa, events, resync, floor, top>>,
           dispatches' \in Nat, inbox' \in [{"pe", "cpe"} -> Seq(Updates)]
    PROVE  IInv'
<1>1. ControlTypes  BY DEF IInv
<1>2. Committed(w, S)  BY <1>1, MutateCommits
<1>3. ControlTypes'  BY <1>2 DEF IInv, ControlTypes, Committed
<1>4. Resting'  BY DEF Resting
<1>5. Ranked' /\ InFlight'  BY <1>1, <1>2, MutateRanked DEF IInv
<1>6. Clean'  BY <1>1, <1>2, MutateClean DEF IInv
<1> QED  BY <1>3, <1>4, <1>5, <1>6 DEF IInv

\* The writers' steps.
LEMMA WritesInv ==
    ASSUME IInv, Writes
    PROVE  IInv'
BY UpsertInv, PublishInv, RestoreInv, RestoreSnapshotsInv, RestoreOneInv DEF Writes

\* Boot goes on from the recorded versions plus one: nothing is in flight.
LEMMA BootInv ==
    ASSUME IInv, Boot
    PROVE  IInv'
<1>1. /\ cp = "down" /\ cp' = "boot"
      /\ registry' = [n \in Nodes |-> LoadPreviousStateFromDB(n)]
      /\ UNCHANGED <<hooked, restoring, db, writer, inbox, bucket, sa, events, resync, floor,
                     top, clean, dispatches>>
  BY DEF Boot, tunnels, history
<1>2. /\ \A w \in Writers : Snapshots(w)' = {} /\ writer'[w].current = None
      /\ \A n \in Nodes : ~clean'[n]
  BY <1>1 DEF IInv, Resting, Busy, Snapshots
<1>3. ASSUME NEW n \in Nodes
      PROVE  /\ registry'[n] \in Intents \cup {None}
             /\ db[n] = None => registry'[n] = None
             /\ db[n] # None => /\ registry'[n] # None /\ registry'[n].node = n
                                /\ registry'[n].version = db[n].version + 1
                                /\ db[n].version \in Nat
  <2>1. CASE db[n] = None  BY <1>1, <2>1 DEF LoadPreviousStateFromDB
  <2>2. CASE db[n] # None
    <3>1. db[n].version + 1 \in Nat /\ db[n].version \in Nat
      BY <2>2, SMT DEF IInv, ControlTypes, Generations
    <3>2. registry'[n] = Entry(n, db[n].version + 1, 0, Empty)
      BY <1>1, <2>2 DEF LoadPreviousStateFromDB
    <3> QED  BY <2>2, <3>1, <3>2, EntryTypes, SMT
  <2> QED  BY <2>1, <2>2
<1>4. ControlTypes'  BY <1>1, <1>3 DEF IInv, ControlTypes
<1>5. Resting'  BY <1>1, <1>2 DEF IInv, Resting, Busy
<1>6. Ranked'
  <2>1. \A n \in Nodes : Recorded(n)' = Recorded(n)  BY <1>1 DEF Recorded
  <2>2. \A n \in Nodes : db[n] # None => Recorded(n) = db[n].version  BY DEF Recorded
  <2>3. \A n \in Nodes : floor[n] \in Nat /\ top[n] \in Nat  BY DEF IInv, ControlTypes
  <2> QED  BY <1>1, <1>3, <2>1, <2>2, <2>3, SMT DEF IInv, Ranked
<1>7. InFlight'  BY <1>2 DEF InFlight
<1>8. Clean'  BY <1>2 DEF Clean
<1> QED  BY <1>4, <1>5, <1>6, <1>7, <1>8 DEF IInv

\* The commits of the controller: of Start, of a tunnel update from either side
\* and of the dispatcher.
LEMMA StartCommitInv ==
    ASSUME IInv, StartCommit
    PROVE  IInv'
<1>1. "start" \in Committers  BY DEF Committers, Writers
<1>2. ~Busy("start")  BY <1>1 DEF StartCommit, IInv, Resting, Committers
<1>3. \A n \in PEs : stagePeerIntents[n] \in Bodies
  <2>1. \A n \in PEs : GetOrCreate(n).body \in Bodies
    BY NodeFacts, GetOrCreateTypes DEF IInv
  <2>2. \A b \in Bodies : StagePeersForPE(b) \in Bodies
    BY DEF Bodies, StagePeersForPE
  <2> QED  BY <2>1, <2>2 DEF stagePeerIntents
<1>4. /\ cp # "down" /\ cp' = "commit" /\ hooked' = TRUE
      /\ Mutate("start", PEs, stagePeerIntents)
      /\ UNCHANGED <<restoring, db, bucket, sa, events, resync, floor, top, inbox, dispatches>>
  BY DEF StartCommit, nats, tunnels
<1>5. PEs \in SUBSET Nodes  BY NodeFacts
<1>6. inbox \in [{"pe", "cpe"} -> Seq(Updates)] /\ dispatches \in Nat
  BY DEF IInv, ControlTypes
<1> QED  BY <1>1, <1>2, <1>3, <1>4, <1>5, <1>6, CommitInv

\* What the head of an inbox is, and that taking it leaves an inbox.
LEMMA InboxFacts ==
    ASSUME IInv, NEW e \in {"pe", "cpe"}, inbox[e] # <<>>
    PROVE  /\ Head(inbox[e]).portal \in CPEs /\ Head(inbox[e]).ifid \in Nat
           /\ [inbox EXCEPT ![e] = Tail(@)] \in [{"pe", "cpe"} -> Seq(Updates)]
           /\ cp \in {"commit", "half", "resync", "ready", "stuck"}
<1>1. inbox[e] \in Seq(Updates) /\ inbox \in [{"pe", "cpe"} -> Seq(Updates)]
  BY DEF IInv, ControlTypes
<1>2. Head(inbox[e]) \in Updates /\ Tail(inbox[e]) \in Seq(Updates)  BY <1>1, SMT
<1>3. cp \in {"commit", "half", "resync", "ready", "stuck"}  BY DEF IInv, Resting, ControlTypes
<1> QED  BY <1>1, <1>2, <1>3 DEF Updates

\* A tunnel update from a PE.
LEMMA HandlePEInv ==
    ASSUME IInv, NEW ok \in BOOLEAN, HandlePETunnelUpdate(ok)
    PROVE  IInv'
<1> DEFINE m == Head(inbox["pe"])
           n == Attach[m.portal]
           body == [x \in {n} |->
                      StagePortalIntentForNode(GetOrCreate(n).body, m.portal, m.ifid, ok)]
<1>1. /\ inbox["pe"] # <<>> /\ ~Busy("pe") /\ Mutate("pe", {n}, body)
      /\ inbox' = [inbox EXCEPT !["pe"] = Tail(@)]
      /\ UNCHANGED <<cp, hooked, restoring, db, bucket, sa, events, resync, floor, top, dispatches>>
  BY DEF HandlePETunnelUpdate, nats
<1>2. /\ m.portal \in CPEs /\ m.ifid \in Nat
      /\ cp \in {"commit", "half", "resync", "ready", "stuck"}
      /\ inbox' \in [{"pe", "cpe"} -> Seq(Updates)]
  BY <1>1, InboxFacts
<1>3. n \in Nodes  BY <1>2, NodeFacts
<1>4. GetOrCreate(n).body \in Bodies  BY <1>3, GetOrCreateTypes DEF IInv
<1>5. StagePortalIntentForNode(GetOrCreate(n).body, m.portal, m.ifid, ok) \in Bodies
  BY <1>2, <1>4, StagerTypes
<1>6. \A x \in {n} : body[x] \in Bodies  BY <1>5
<1>7. "pe" \in Committers  BY DEF Committers, Writers
<1>8. {n} \in SUBSET Nodes  BY <1>3
<1>9. hooked \in BOOLEAN /\ dispatches \in Nat  BY DEF IInv, ControlTypes
<1> HIDE DEF m, n, body
<1> QED  BY <1>1, <1>2, <1>6, <1>7, <1>8, <1>9, CommitInv

\* A tunnel update from a CPE.
LEMMA HandleCPEInv ==
    ASSUME IInv, HandleCPETunnelUpdate
    PROVE  IInv'
<1> DEFINE m == Head(inbox["cpe"])
           c == m.portal
           body == [x \in {c} |-> [Empty EXCEPT !.ifid[c] = m.ifid]]
<1>1. /\ inbox["cpe"] # <<>> /\ ~Busy("cpe") /\ Mutate("cpe", {c}, body)
      /\ inbox' = [inbox EXCEPT !["cpe"] = Tail(@)]
      /\ UNCHANGED <<cp, hooked, restoring, db, bucket, sa, events, resync, floor, top, dispatches>>
  BY DEF HandleCPETunnelUpdate, UpsertCPEIntentForSite, nats, tunnels
<1>2. /\ c \in CPEs /\ m.ifid \in Nat
      /\ cp \in {"commit", "half", "resync", "ready", "stuck"}
      /\ inbox' \in [{"pe", "cpe"} -> Seq(Updates)]
  BY <1>1, InboxFacts
<1>3. [Empty EXCEPT !.ifid[c] = m.ifid] \in Bodies  BY <1>2, EntryTypes, StagerTypes
<1>4. \A x \in {c} : body[x] \in Bodies  BY <1>3
<1>5. "cpe" \in Committers  BY DEF Committers, Writers
<1>6. {c} \in SUBSET Nodes  BY <1>2, NodeFacts
<1>7. hooked \in BOOLEAN /\ dispatches \in Nat  BY DEF IInv, ControlTypes
<1> HIDE DEF m, c, body
<1> QED  BY <1>1, <1>2, <1>4, <1>5, <1>6, <1>7, CommitInv

\* The paths of the dispatcher.
LEMMA DispatchInv ==
    ASSUME IInv, NEW S \in SUBSET PEs, NEW staged \in SUBSET S, Dispatch(S, staged)
    PROVE  IInv'
<1> DEFINE k == dispatches'
           body == [n \in S |-> StageSIDSegsForTenantOnNode(GetOrCreate(n).body, k, n \in staged)]
<1>1. /\ cp = "ready" /\ ~Busy("dispatcher") /\ Mutate("dispatcher", S, body)
      /\ dispatches' = dispatches + 1
      /\ UNCHANGED <<cp, hooked, restoring, db, inbox, bucket, sa, events, resync, floor, top>>
  BY DEF Dispatch, nats, tunnels
<1>2. /\ hooked \in BOOLEAN /\ dispatches' \in Nat /\ k \in Nat
      /\ inbox \in [{"pe", "cpe"} -> Seq(Updates)]
  BY <1>1, SMT DEF IInv, ControlTypes
<1>3. S \in SUBSET Nodes  BY NodeFacts
<1> HIDE DEF k
<1>4. \A n \in S : body[n] \in Bodies
  <2>1. \A n \in S : GetOrCreate(n).body \in Bodies  BY <1>3, GetOrCreateTypes DEF IInv
  <2>2. \A b \in Bodies, t \in BOOLEAN : StageSIDSegsForTenantOnNode(b, k, t) \in Bodies
    BY <1>2 DEF Bodies, StageSIDSegsForTenantOnNode, getOrCreateTenantIntentForPE
  <2>3. ASSUME NEW n \in S  PROVE  body[n] \in Bodies
    <3>1. (n \in staged) \in BOOLEAN  BY SMT
    <3> QED  BY <2>1, <2>2, <3>1
  <2> QED  BY <2>3
<1>5. "dispatcher" \in Committers  BY DEF Committers, Writers
<1> HIDE DEF body
<1> QED  BY <1>1, <1>2, <1>3, <1>4, <1>5, CommitInv

\* A crash forgets all but the record, which is no lower than what commits
\* published.
LEMMA CrashInv ==
    ASSUME IInv, Crash
    PROVE  IInv'
<1>1. /\ cp' = "down" /\ hooked' = FALSE /\ restoring' = {}
      /\ registry' = [n \in Nodes |-> None] /\ writer' = [w \in Writers |-> Idle]
      /\ inbox' = [e \in DOMAIN inbox |-> <<>>]
      /\ floor' = top /\ clean' = [n \in Nodes |-> FALSE]
      /\ UNCHANGED <<db, bucket, sa, events, resync, top, dispatches>>
  BY DEF Crash, nats, tunnels
<1>2. Idle \in [current : Intents \cup {None}, todo : SUBSET Intents]
  BY DEF Idle
<1>3. \A w \in Writers : Snapshots(w)' = {} /\ writer'[w].current = None
  BY <1>1 DEF Snapshots, Idle
<1>4. /\ DOMAIN inbox = {"pe", "cpe"}
      /\ inbox' \in [{"pe", "cpe"} -> Seq(Updates)]
      /\ inbox'["pe"] = <<>> /\ inbox'["cpe"] = <<>>
  BY <1>1, SMT DEF IInv, ControlTypes
<1>5. ControlTypes'  BY <1>1, <1>2, <1>4 DEF IInv, ControlTypes
<1>6. Resting'  BY <1>1, <1>3, <1>4 DEF Resting, Busy
<1>7. Ranked'
  <2>1. \A n \in Nodes : Recorded(n)' = Recorded(n)  BY <1>1 DEF Recorded
  <2>2. \A n \in Nodes : top[n] \in Nat /\ top[n] <= Recorded(n)
    BY DEF IInv, ControlTypes, Ranked
  <2>3. \A n \in Nodes : floor'[n] = top[n] /\ top'[n] = top[n] /\ registry'[n] = None
    BY <1>1
  <2>4. \A n \in Nodes : floor'[n] <= top'[n] /\ top'[n] <= Recorded(n)'
    BY <2>1, <2>2, <2>3, SMT
  <2> QED  BY <1>1, <2>3, <2>4 DEF Ranked
<1>8. InFlight'  BY <1>3 DEF InFlight
<1>9. Clean'  BY <1>1 DEF Clean
<1> QED  BY <1>5, <1>6, <1>7, <1>8, <1>9 DEF IInv

\* A reconnect: when it loses the bucket no node is clean.
LEMMA ReconnectInv ==
    ASSUME IInv, NEW lost \in BOOLEAN, Reconnect(lost)
    PROVE  IInv'
<1>1. /\ restoring' = IF hooked THEN restoring \cup {"called"} ELSE restoring
      /\ bucket' = IF lost THEN [n \in Nodes |-> None] ELSE bucket
      /\ clean' = [n \in Nodes |-> clean[n] /\ ~lost]
      /\ UNCHANGED <<cp, hooked, registry, db, writer, inbox, sa, events, resync, floor, top,
                     dispatches>>
  BY DEF Reconnect, tunnels
<1>2. /\ clean' \in [Nodes -> BOOLEAN]
      /\ \A n \in Nodes : clean'[n] => clean[n] /\ ~lost
  <2>1. clean \in [Nodes -> BOOLEAN]  BY DEF IInv, ControlTypes
  <2> QED  BY <1>1, <2>1
<1>3. bucket' \in [Nodes -> Intents \cup {None}] /\ (~lost => bucket' = bucket)
  BY <1>1 DEF IInv, ControlTypes
<1>4. \A w : Snapshots(w)' = Snapshots(w)  BY <1>1 DEF Snapshots
<1>5. \A n : Recorded(n)' = Recorded(n)  BY <1>1 DEF Recorded
<1>6. ControlTypes'
  <2>1. restoring' \subseteq {"called", "ensured"}  BY <1>1 DEF IInv, ControlTypes
  <2> QED  BY <1>1, <1>2, <1>3, <2>1 DEF IInv, ControlTypes
<1>7. Resting'
  <2>1. cp' = cp /\ hooked' = hooked /\ inbox' = inbox  BY <1>1
  <2>2. cp \in {"down", "boot"} => restoring' = {}  BY <1>1 DEF IInv, Resting
  <2> QED  BY <1>2, <1>4, <2>1, <2>2 DEF IInv, Resting, Busy
<1>8. Ranked'  BY <1>1, <1>5 DEF IInv, Ranked
<1>9. InFlight'
  <2>1. \A w \in Writers : writer[w].current # None =>
            Recorded(writer[w].current.node)' >= writer'[w].current.version
    BY <1>1, <1>5 DEF IInv, InFlight
  <2> QED  BY <1>1, <1>4, <2>1 DEF IInv, InFlight
<1>10. Clean'  BY <1>1, <1>2, <1>3, <1>4 DEF IInv, Clean
<1> QED  BY <1>6, <1>7, <1>8, <1>9, <1>10 DEF IInv

\* The endpoints and the end of the resync change only where the control plane
\* is and what it asks for.
LEMMA EndpointsInv ==
    ASSUME IInv, NEW ok \in BOOLEAN, (\E done \in Calls : SetupEndpoints(done)) \/ ResyncEnds(ok)
    PROVE  IInv'
<1>1. /\ cp \in {"commit", "resync"} /\ cp' \in {"half", "resync", "ready", "stuck"}
      /\ UNCHANGED <<restoring, registry, db, writer, inbox, bucket, sa, events, floor, top, clean,
                     dispatches>>
  BY DEF SetupEndpoints, StartReaches, ResyncEnds, nats, tunnels, history
<1>2. hooked' \in BOOLEAN
  BY DEF SetupEndpoints, ResyncEnds, SetReconnectHandler, IInv, ControlTypes
<1>3. resync' \in [Nodes -> [todo : SUBSET Updates, asked : BOOLEAN]]
  <2>1. CASE ResyncEnds(ok)
    BY <2>1 DEF ResyncEnds, tunnels, IInv, ControlTypes
  <2>2. ASSUME NEW done \in Calls, SetupEndpoints(done)
        PROVE  resync' \in [Nodes -> [todo : SUBSET Updates, asked : BOOLEAN]]
    <3>1. PICK asked : resync' = [n \in Nodes |-> [resync[n] EXCEPT !.asked = @ \/ n \in asked]]
      BY <2>2 DEF SetupEndpoints, sendTunnelResyncRequest
    <3>2. ASSUME NEW n \in Nodes
          PROVE  [resync[n] EXCEPT !.asked = @ \/ n \in asked]
                   \in [todo : SUBSET Updates, asked : BOOLEAN]
      <4>1. resync[n] \in [todo : SUBSET Updates, asked : BOOLEAN]
        BY DEF IInv, ControlTypes
      <4>2. (resync[n].asked \/ n \in asked) \in BOOLEAN  OBVIOUS
      <4> QED  BY <4>1, <4>2
    <3> QED  BY <3>1, <3>2
  <2> QED  BY <2>1, <2>2
<1>4. ControlTypes'  BY <1>1, <1>2, <1>3 DEF IInv, ControlTypes
<1>5. Resting'  BY <1>1 DEF Resting
<1>6. Ranked' /\ InFlight' /\ Clean'  BY <1>1, Frame
<1> QED  BY <1>4, <1>5, <1>6 DEF IInv

\* A portal's request for its identity makes an entry, under the first version,
\* of a node that is not recorded and has nothing in flight.
LEMMA NodeStartsInv ==
    ASSUME IInv, NEW n \in Nodes, NodeStarts(n)
    PROVE  IInv'
<1>1. /\ cp = "ready" /\ cp' = cp
      /\ UNCHANGED <<hooked, restoring, db, writer, inbox, bucket, sa, events, resync, floor, top,
                     clean, dispatches>>
  BY DEF NodeStarts, waitForReady, HealthReady, nats, tunnels, history
<1>2. CASE registry' = registry
  <2>1. ControlTypes'  BY <1>1, <1>2 DEF IInv, ControlTypes
  <2>2. Resting'  BY <1>1 DEF Resting
  <2>3. Ranked' /\ InFlight' /\ Clean'  BY <1>1, <1>2, Frame
  <2> QED  BY <2>1, <2>2, <2>3 DEF IInv
<1>3. CASE registry' # registry
  <2> DEFINE e == Entry(n, 1, 1, [Empty EXCEPT !.named = FALSE])
  <2>1. registry[n] = None /\ registry' = [registry EXCEPT ![n] = e]
    BY <1>3 DEF NodeStarts, PortalAuthIdentity
  <2>2. [Empty EXCEPT !.named = FALSE] \in Bodies  BY DEF Empty, Bodies
  <2>3. e \in Intents /\ e # None /\ e.node = n /\ e.version = 1  BY <2>2, EntryTypes, SMT
  <2> HIDE DEF e
  <2>4. /\ registry' \in [Nodes -> Intents \cup {None}] /\ registry'[n] = e
        /\ \A m \in Nodes \ {n} : registry'[m] = registry[m]
    BY <2>1, <2>3 DEF IInv, ControlTypes
  <2>5. \A w : Snapshots(w)' = Snapshots(w)  BY <1>1 DEF Snapshots
  <2>6. \A m : Recorded(m)' = Recorded(m)  BY <1>1 DEF Recorded
  <2>7. \A w \in Writers : \A t \in Snapshots(w) : t.node \in Nodes /\ t.node # n
    BY <2>1, SnapshotFacts
  <2>8. ControlTypes'  BY <1>1, <2>3, <2>4 DEF IInv, ControlTypes
  <2>9. Resting'  BY <1>1 DEF Resting
  <2>10. Ranked'
    <3>1. db[n] = None /\ Recorded(n) = 0  BY <1>1, <2>1 DEF IInv, Ranked, Recorded
    <3>2. floor[n] = 0  BY <3>1, SMT DEF IInv, Ranked, ControlTypes
    <3>3. /\ registry'[n] # None /\ registry'[n].version > floor[n]
          /\ registry'[n].version >= Recorded(n)
      BY <2>3, <2>4, <3>1, <3>2, SMT
    <3>4. \A m \in Nodes : m = n \/ registry'[m] = registry[m]  BY <2>4
    <3>5. UNCHANGED <<db, floor, top>> /\ cp # "down" /\ Ranked  BY <1>1 DEF IInv
    <3> QED  BY <2>6, <3>3, <3>4, <3>5 DEF Ranked
  <2>11. InFlight'
    <3>1. \A w \in Writers : writer[w].current # None =>
              Recorded(writer[w].current.node)' >= writer'[w].current.version
      BY <1>1, <2>6 DEF IInv, InFlight
    <3>2. \A w \in Writers : \A t \in Snapshots(w) : registry'[t.node] = registry[t.node]
      BY <2>4, <2>7
    <3> QED  BY <1>1, <2>5, <3>1, <3>2 DEF IInv, InFlight
  <2>12. Clean'
    <3>1. \A m \in Nodes : clean[m] => m # n  BY <2>1 DEF IInv, Clean
    <3> QED  BY <1>1, <2>4, <2>5, <3>1 DEF IInv, Clean
  <2> QED  BY <2>8, <2>9, <2>10, <2>11, <2>12 DEF IInv
<1> QED  BY <1>2, <1>3

\* A step that changes only the tunnels, their events and reports, and what the
\* control plane has received, which is nothing while it is not listening.
LEMMA TunnelsFrame ==
    ASSUME IInv,
           UNCHANGED <<cp, hooked, restoring, registry, db, writer, bucket, floor, top, clean,
                       dispatches>>,
           inbox' \in [{"pe", "cpe"} -> Seq(Updates)], Listening \/ inbox' = inbox,
           sa' \in [CPEs -> Nat], events' \in [Nodes -> Seq(Updates)],
           resync' \in [Nodes -> [todo : SUBSET Updates, asked : BOOLEAN]]
    PROVE  IInv'
<1>1. Ranked' /\ InFlight' /\ Clean' /\ \A w \in Writers : Busy(w)' = Busy(w)  BY Frame
<1>2. ControlTypes'  BY DEF IInv, ControlTypes
<1>3. Resting'  BY <1>1 DEF IInv, Resting, Listening
<1> QED  BY <1>1, <1>2, <1>3 DEF IInv

\* A tunnel's events are updates of its portal.
LEMMA TunnelUpInv ==
    ASSUME IInv, NEW c \in CPEs, NEW downFirst \in BOOLEAN, TunnelUp(c, downFirst)
    PROVE  IInv'
<1>1. /\ sa' = [sa EXCEPT ![c] = @ + 1]
      /\ events' = [n \in Nodes |-> WatchIKEUpdownEvents(n, c, downFirst)]
      /\ UNCHANGED <<cp, hooked, restoring, registry, db, writer, inbox, bucket, floor, top, clean,
                     resync, dispatches>>
  BY DEF TunnelUp, control, nats, history
<1>2. sa \in [CPEs -> Nat] /\ events \in [Nodes -> Seq(Updates)] /\ sa[c] \in Nat
  BY DEF IInv, ControlTypes
<1>3. sa' \in [CPEs -> Nat]  BY <1>1, <1>2, SMT
<1>4. /\ [portal |-> c, ifid |-> sa[c] + 1] \in Updates
      /\ [portal |-> c, ifid |-> sa[c]] \in Updates
  BY <1>2, SMT DEF Updates
<1>5. PortalEvents(c, downFirst) \in Seq(Updates)  BY <1>4, SMT DEF PortalEvents
<1>6. ASSUME NEW n \in Nodes  PROVE  WatchIKEUpdownEvents(n, c, downFirst) \in Seq(Updates)
  <2>1. events[n] \in Seq(Updates)  BY <1>2
  <2>2. /\ <<[portal |-> c, ifid |-> sa[c] + 1]>> \in Seq(Updates)
        /\ <<>> \in Seq(Updates)
    BY <1>4, SMT
  <2> QED  BY <2>1, <2>2, <1>5, SMT DEF WatchIKEUpdownEvents
<1>7. events' \in [Nodes -> Seq(Updates)]  BY <1>1, <1>6
<1>8. inbox' \in [{"pe", "cpe"} -> Seq(Updates)]
      /\ resync' \in [Nodes -> [todo : SUBSET Updates, asked : BOOLEAN]]
  BY <1>1 DEF IInv, ControlTypes
<1> QED  BY <1>1, <1>3, <1>7, <1>8, TunnelsFrame

\* A request reaches the inbox of its side, when the control plane listens.
LEMMA RequestTypes ==
    ASSUME IInv, NEW n, NEW m \in Updates, NEW ok \in BOOLEAN, Request(n, m, ok)
    PROVE  inbox' \in [{"pe", "cpe"} -> Seq(Updates)] /\ (Listening \/ inbox' = inbox)
<1>1. inbox \in [{"pe", "cpe"} -> Seq(Updates)]  BY DEF IInv, ControlTypes
<1>2. \A e \in {"pe", "cpe"} : [inbox EXCEPT ![e] = Append(@, m)]
                                \in [{"pe", "cpe"} -> Seq(Updates)]
  <2>1. \A e \in {"pe", "cpe"} : Append(inbox[e], m) \in Seq(Updates)  BY <1>1, SMT
  <2> QED  BY <1>1, <2>1
<1> QED  BY <1>1, <1>2 DEF Request, sendPETunnelUpdate, sendCPETunnelUpdate, ListeningToCPEs

\* The reports of a node, and its restart.
LEMMA ReportsInv ==
    ASSUME IInv, NEW n \in Nodes, NEW ok \in BOOLEAN,
           ReportEvent(n, ok) \/ ResyncRead(n, ok) \/ ResyncReport(n, ok) \/ NodeRestarts(n)
    PROVE  IInv'
<1>1. UNCHANGED <<cp, hooked, restoring, registry, db, writer, bucket, floor, top, clean, sa,
                  dispatches>>
  BY DEF ReportEvent, ResyncRead, ResyncReport, NodeRestarts, control, nats, history
<1>2. /\ sa \in [CPEs -> Nat] /\ events \in [Nodes -> Seq(Updates)]
      /\ resync \in [Nodes -> [todo : SUBSET Updates, asked : BOOLEAN]]
      /\ inbox \in [{"pe", "cpe"} -> Seq(Updates)]
  BY DEF IInv, ControlTypes
<1>3. CASE ReportEvent(n, ok)
  <2>1. /\ events[n] # <<>> /\ Request(n, Head(events[n]), ok) /\ resync' = resync
        /\ events' = [events EXCEPT ![n] = Tail(@)]
    BY <1>3 DEF ReportEvent
  <2>2. events[n] \in Seq(Updates)  BY <1>2
  <2>3. Head(events[n]) \in Updates /\ Tail(events[n]) \in Seq(Updates)  BY <2>1, <2>2, SMT
  <2>4. events' \in [Nodes -> Seq(Updates)]  BY <1>2, <2>1, <2>3
  <2>5. inbox' \in [{"pe", "cpe"} -> Seq(Updates)] /\ (Listening \/ inbox' = inbox)
    BY <2>1, <2>3, RequestTypes
  <2> QED  BY <1>1, <1>2, <2>1, <2>4, <2>5, TunnelsFrame
<1>4. CASE ResyncRead(n, ok)
  <2> DEFINE read == IF ok THEN GetSAs(n) ELSE {}
  <2>1. /\ resync' = [resync EXCEPT ![n] = [asked |-> FALSE, todo |-> read]]
        /\ events' = events /\ inbox' = inbox
    BY <1>4 DEF ResyncRead, control
  <2>2. read \in SUBSET Updates
    <3>1. \A c \in CPEs : [portal |-> c, ifid |-> sa[c]] \in Updates  BY <1>2 DEF Updates
    <3>2. GetSAs(n) \in SUBSET Updates  BY <3>1 DEF GetSAs
    <3> QED  BY <3>2
  <2> HIDE DEF read
  <2>3. resync' \in [Nodes -> [todo : SUBSET Updates, asked : BOOLEAN]]  BY <1>2, <2>1, <2>2
  <2> QED  BY <1>1, <1>2, <2>1, <2>3, TunnelsFrame
<1>5. CASE ResyncReport(n, ok)
  <2>1. PICK m \in resync[n].todo :
           Request(n, m, ok) /\ resync' = [resync EXCEPT ![n].todo = @ \ {m}]
    BY <1>5 DEF ResyncReport
  <2>2. m \in Updates  BY <1>2
  <2>3. resync' \in [Nodes -> [todo : SUBSET Updates, asked : BOOLEAN]]  BY <1>2, <2>1
  <2>4. inbox' \in [{"pe", "cpe"} -> Seq(Updates)] /\ (Listening \/ inbox' = inbox)
    BY <2>1, <2>2, RequestTypes
  <2>5. events' = events  BY <1>5 DEF ResyncReport
  <2> QED  BY <1>1, <1>2, <2>3, <2>4, <2>5, TunnelsFrame
<1>6. CASE NodeRestarts(n)
  <2>1. /\ events' = [events EXCEPT ![n] = <<>>]
        /\ resync' = [resync EXCEPT ![n] = NoResync] /\ inbox' = inbox
    BY <1>6 DEF NodeRestarts, control
  <2>2. events' \in [Nodes -> Seq(Updates)]  BY <1>2, <2>1, SMT
  <2>3. resync' \in [Nodes -> [todo : SUBSET Updates, asked : BOOLEAN]]
    BY <1>2, <2>1 DEF NoResync
  <2> QED  BY <1>1, <1>2, <2>1, <2>2, <2>3, TunnelsFrame
<1> QED  BY <1>3, <1>4, <1>5, <1>6

\* The delivery of intents inside a node.
LEMMA DeliveryInv ==
    ASSUME IInv, NEW n \in Nodes, NEW ok \in BOOLEAN,
           \/ WatchStarts(n) \/ WatchCloses(n) \/ WatchDelivers(n)
           \/ FanOut(n) \/ ResyncTick(n) \/ Reconcile(n, ok)
    PROVE  IInv'
<1>1. UNCHANGED <<cp, hooked, restoring, registry, db, writer, inbox, bucket, floor, top, clean, sa,
                  events, resync, dispatches>>
  BY DEF WatchStarts, WatchCloses, WatchDelivers, FanOut, ResyncTick, Reconcile, control, nats,
     tunnels, history
<1>2. /\ inbox \in [{"pe", "cpe"} -> Seq(Updates)] /\ sa \in [CPEs -> Nat]
      /\ events \in [Nodes -> Seq(Updates)]
      /\ resync \in [Nodes -> [todo : SUBSET Updates, asked : BOOLEAN]]
  BY DEF IInv, ControlTypes
<1> QED  BY <1>1, <1>2, TunnelsFrame

-----------------------------------------------------------------------------
\* IInv is an invariant: every step of the control plane, of its writers, of
\* the nodes and of the tunnels preserves it.
THEOREM IntentSyncInvariant == Spec => []IInv
<1>1. Init => IInv
  <2> SUFFICES ASSUME Init  PROVE  IInv
    OBVIOUS
  <2>1. ControlTypes
    <3>1. Idle \in [current : Intents \cup {None}, todo : SUBSET Intents]  BY DEF Idle
    <3>2. NoResync \in [todo : SUBSET Updates, asked : BOOLEAN]  BY DEF NoResync
    <3>3. <<>> \in Seq(Updates)  BY SMT
    <3> QED  BY <3>1, <3>2, <3>3 DEF Init, ControlTypes
  <2>2. \A w \in Writers : Snapshots(w) = {} /\ writer[w].current = None
    BY DEF Init, Snapshots, Idle
  <2>3. Resting  BY <2>2 DEF Init, Resting, Busy
  <2>4. Ranked
    <3>1. \A n \in Nodes : /\ db[n] = None /\ registry[n] = None
                           /\ floor[n] = 0 /\ top[n] = 0 /\ cp = "down"
      BY DEF Init
    <3>2. \A n \in Nodes : Recorded(n) = 0  BY <3>1 DEF Recorded
    <3>3. \A n \in Nodes : floor[n] <= top[n] /\ top[n] <= Recorded(n)  BY <3>1, <3>2, SMT
    <3> QED  BY <3>1, <3>3 DEF Ranked
  <2>5. InFlight  BY <2>2 DEF InFlight
  <2>6. Clean  BY DEF Init, Clean
  <2> QED  BY <2>1, <2>3, <2>4, <2>5, <2>6 DEF IInv
<1>2. IInv /\ [Next]_vars => IInv'
  <2> SUFFICES ASSUME IInv, [Next]_vars  PROVE  IInv'
    OBVIOUS
  <2>1. CASE Writes  BY <2>1, WritesInv
  <2>2. CASE Controller
    BY <2>2, BootInv, StartCommitInv, HandleCPEInv, CrashInv, EndpointsInv, HandlePEInv, DispatchInv,
       ReconnectInv DEF Controller
  <2>3. ASSUME NEW n \in Nodes, Node(n)  PROVE  IInv'
    BY <2>3, NodeStartsInv, ReportsInv, DeliveryInv DEF Node
  <2>4. ASSUME NEW c \in CPEs, NEW downFirst \in BOOLEAN, TunnelUp(c, downFirst)  PROVE  IInv'
    BY <2>4, TunnelUpInv
  <2>5. CASE UNCHANGED vars
    <3>1. UNCHANGED <<cp, hooked, restoring, registry, db, writer, inbox, bucket, floor, top, clean,
                      sa, events, resync, dispatches>>
      BY <2>5 DEF vars, control, nats, tunnels, history
    <3>2. /\ inbox \in [{"pe", "cpe"} -> Seq(Updates)] /\ sa \in [CPEs -> Nat]
          /\ events \in [Nodes -> Seq(Updates)]
          /\ resync \in [Nodes -> [todo : SUBSET Updates, asked : BOOLEAN]]
      BY DEF IInv, ControlTypes
    <3> QED  BY <3>1, <3>2, TunnelsFrame
  <2> QED  BY <2>1, <2>2, <2>3, <2>4, <2>5 DEF Next
<1> QED  BY <1>1, <1>2, PTL DEF Spec

\* After any restart the registry outranks every version a commit published
\* before it, whatever crashed, failed or was lost in between: a version is
\* recorded before it is published, and LoadPreviousStateFromDB goes one above
\* what is recorded.
THEOREM RestartsOutrank == Spec => []RestartOutranks
<1>1. IInv => RestartOutranks  BY DEF IInv, Ranked, RestartOutranks
<1> QED  BY <1>1, IntentSyncInvariant, PTL

\* A commit nothing disturbs is what the bucket holds once the writers are done,
\* though Restore and the commits of other nodes write beside it.
THEOREM CleanCommitsArePublished == Spec => []LastCommitIsPublished
<1>1. IInv => LastCommitIsPublished
  <2>1. \A w : w \in Committers => w \in Writers  BY DEF Committers
  <2> QED  BY <2>1 DEF IInv, Clean, LastCommitIsPublished, Pending
<1> QED  BY <1>1, IntentSyncInvariant, PTL

-----------------------------------------------------------------------------
\* The bucket and the nodes, as TypeOK has them: a watch has only something to
\* deliver when the bucket holds an intent, so the feeds hold nothing else.
BucketTypes ==
    /\ bucketUp \in BOOLEAN /\ fresh \in [Nodes -> BOOLEAN]
    /\ \A n \in Nodes : fresh[n] => bucket[n] # None

AgentTypes ==
    /\ up \in [Nodes -> BOOLEAN] /\ watch \in [Nodes -> {"off", "on", "dead"}]
    /\ aggregate \in [PEs -> Seq(Intents)] /\ feed \in [Nodes -> Seq(Intents)]
    /\ \A n \in PEs : Len(aggregate[n]) <= FeedCap
    /\ \A n \in Nodes : Len(feed[n]) <= FeedCap
    /\ last \in [PEs -> Intents \cup {None}] /\ current \in [Nodes -> Intents \cup {None}]

Bounds ==
    /\ scenario \in Scenarios
    /\ sa \in [CPEs -> 0 .. scenario.tunnels] /\ faults \in 0 .. scenario.faults

NodesInv == BucketTypes /\ AgentTypes /\ Bounds

\* Every step keeps the scenario; it counts a fault or none, and only a new
\* tunnel changes the number of one.
LEMMA StepsAreBounded ==
    ASSUME Next
    PROVE  /\ UNCHANGED scenario /\ (UNCHANGED faults \/ Fault)
           /\ \/ UNCHANGED sa
              \/ \E c \in CPEs : sa[c] < scenario.tunnels /\ sa' = [sa EXCEPT ![c] = @ + 1]
<1> USE DEF Outcome, agent, tunnels
<1>1. CASE Writes
  BY <1>1, SMT DEF Writes, Upsert, Publish, Restore, RestoreSnapshots, RestoreOne
<1>2. CASE Controller
  BY <1>2 DEF Controller, Boot, StartCommit, HandleCPETunnelUpdate, Crash, SetupEndpoints, ResyncEnds,
     HandlePETunnelUpdate, Dispatch, Reconnect
<1>3. ASSUME NEW n \in Nodes, Node(n)
      PROVE  UNCHANGED <<scenario, sa>> /\ (UNCHANGED faults \/ Fault)
  BY <1>3 DEF Node, NodeStarts, WatchStarts, WatchCloses, WatchDelivers, NodeRestarts, FanOut,
     ResyncTick, Reconcile, ReportEvent, ResyncRead, ResyncReport
<1>4. ASSUME NEW c \in CPEs, NEW downFirst \in BOOLEAN, TunnelUp(c, downFirst)
      PROVE  /\ UNCHANGED <<scenario, faults>>
             /\ sa[c] < scenario.tunnels /\ sa' = [sa EXCEPT ![c] = @ + 1]
  BY <1>4 DEF TunnelUp
<1> QED
  BY <1>1, <1>2, <1>3, <1>4 DEF Next

\* So the tunnels and the faults stay within the scenario's bounds.
LEMMA BoundsStep ==
    ASSUME Bounds, Next
    PROVE  Bounds'
<1>1. scenario \in [nodes : SUBSET Nodes, tunnels : Nat, dispatches : Nat, faults : Nat]
  BY SyncConstants DEF Bounds
<1>2. scenario.tunnels \in Nat /\ scenario.faults \in Nat
  BY <1>1
<1>3. faults' \in 0 .. scenario.faults
  BY <1>2, StepsAreBounded, SMT DEF Bounds, Fault
<1>4. sa' \in [CPEs -> 0 .. scenario.tunnels]
  <2>1. CASE UNCHANGED sa
    BY <2>1 DEF Bounds
  <2>2. ASSUME NEW c \in CPEs, sa[c] < scenario.tunnels, sa' = [sa EXCEPT ![c] = @ + 1]
        PROVE  sa' \in [CPEs -> 0 .. scenario.tunnels]
    BY <1>2, <2>2, SMT DEF Bounds
  <2> QED
    BY <2>1, <2>2, StepsAreBounded
<1> QED
  BY <1>3, <1>4, StepsAreBounded DEF Bounds

\* A put marks the bucket's new intent as due.
LEMMA PutTypes ==
    ASSUME ControlTypes, BucketTypes, NEW s \in Intents, Put(s), bucketUp' \in BOOLEAN
    PROVE  BucketTypes'
<1>1. s.node \in Nodes /\ s # None
  BY NodeFacts DEF Intents
<1> QED
  BY <1>1 DEF Put, BucketTypes, ControlTypes

\* The steps that touch the bucket or what is due from it.
LEMMA BucketStep ==
    ASSUME IInv, BucketTypes, Next
    PROVE  BucketTypes'
<1> USE DEF IInv
<1>1. CASE UNCHANGED nats
  BY <1>1 DEF nats, BucketTypes
<1>2. ASSUME NEW w \in Writers, NEW ok \in BOOLEAN, Publish(w, ok)
      PROVE  BucketTypes'
  <2>1. CASE ok /\ bucketUp
    <3>1. writer[w].current \in Snapshots(w) /\ Put(writer[w].current) /\ UNCHANGED bucketUp
      BY <1>2, <2>1 DEF Publish, Snapshots
    <3>2. writer[w].current \in Intents
      BY <3>1, SnapshotFacts
    <3> QED
      BY <3>1, <3>2, PutTypes DEF BucketTypes
  <2>2. CASE ~(ok /\ bucketUp)
    BY <1>2, <2>2 DEF Publish, BucketTypes
  <2> QED
    BY <2>1, <2>2
<1>3. ASSUME NEW ok \in BOOLEAN, Restore(ok)
      PROVE  BucketTypes'
  <2>1. bucketUp' \in BOOLEAN
    BY <1>3 DEF Restore, Ensure
  <2> QED
    BY <1>3, <2>1 DEF Restore, BucketTypes
<1>4. ASSUME NEW ok \in BOOLEAN, RestoreOne(ok)
      PROVE  BucketTypes'
  <2>1. PICK s \in writer["restore"].todo : Put(s) \/ UNCHANGED <<bucket, fresh>>
    BY <1>4 DEF RestoreOne
  <2>2. s \in Intents /\ UNCHANGED bucketUp
    BY <1>4, <2>1 DEF RestoreOne, ControlTypes, Writers
  <2>3. CASE Put(s)
    BY <2>2, <2>3, PutTypes DEF BucketTypes
  <2>4. CASE UNCHANGED <<bucket, fresh>>
    BY <2>2, <2>4 DEF BucketTypes
  <2> QED
    BY <2>1, <2>3, <2>4
<1>5. CASE Boot
  <2>1. bucketUp' \in BOOLEAN
    BY <1>5 DEF Boot, Ensure
  <2> QED
    BY <1>5, <2>1 DEF Boot, BucketTypes
<1>6. ASSUME NEW lost \in BOOLEAN, Reconnect(lost)
      PROVE  BucketTypes'
  <2>1. bucketUp' \in BOOLEAN
    BY <1>6 DEF Reconnect
  <2> QED
    BY <1>6, <2>1 DEF Reconnect, BucketTypes
<1>7. ASSUME NEW n \in Nodes, WatchStarts(n)
      PROVE  BucketTypes'
  <2>1. PICK t \in BOOLEAN : (t => bucket[n] # None) /\ fresh' = [fresh EXCEPT ![n] = t]
    BY <1>7 DEF WatchStarts
  <2> QED
    BY <1>7, <2>1 DEF WatchStarts, BucketTypes
<1>8. ASSUME NEW n \in Nodes, WatchDelivers(n)
      PROVE  BucketTypes'
  BY <1>8 DEF WatchDelivers, BucketTypes
<1>9. ASSUME NEW w \in Writers, NEW ok \in BOOLEAN, Upsert(w, ok)
      PROVE  UNCHANGED nats
  BY <1>9 DEF Upsert
<1>10. ASSUME NEW ok \in BOOLEAN,
              \/ StartCommit \/ HandleCPETunnelUpdate \/ Crash \/ ResyncEnds(ok)
              \/ HandlePETunnelUpdate(ok) \/ RestoreSnapshots
              \/ \E done \in Calls : SetupEndpoints(done)
              \/ \E S \in SUBSET PEs : \E staged \in SUBSET S : Dispatch(S, staged)
       PROVE  UNCHANGED nats
  BY <1>10 DEF StartCommit, HandleCPETunnelUpdate, Crash, SetupEndpoints, ResyncEnds,
     HandlePETunnelUpdate, RestoreSnapshots, Dispatch
<1>11. ASSUME NEW n \in Nodes, NEW ok \in BOOLEAN,
              \/ NodeStarts(n) \/ WatchCloses(n) \/ NodeRestarts(n) \/ FanOut(n) \/ ResyncTick(n)
              \/ Reconcile(n, ok) \/ ReportEvent(n, ok) \/ ResyncRead(n, ok) \/ ResyncReport(n, ok)
       PROVE  UNCHANGED nats
  BY <1>11 DEF NodeStarts, WatchCloses, NodeRestarts, FanOut, ResyncTick, Reconcile, ReportEvent,
     ResyncRead, ResyncReport
<1>12. ASSUME NEW c \in CPEs, NEW downFirst \in BOOLEAN, TunnelUp(c, downFirst)
       PROVE  UNCHANGED nats
  BY <1>12 DEF TunnelUp
<1>13. CASE Writes
  BY <1>1, <1>2, <1>3, <1>4, <1>9, <1>10, <1>13 DEF Writes
<1>14. CASE Controller
  BY <1>1, <1>5, <1>6, <1>10, <1>14 DEF Controller
<1>15. ASSUME NEW n \in Nodes, Node(n)
       PROVE  BucketTypes'
  BY <1>1, <1>7, <1>8, <1>11, <1>15 DEF Node
<1> QED
  BY <1>1, <1>12, <1>13, <1>14, <1>15 DEF Next

\* fanOutToFeeds keeps the feed within its capacity.
LEMMA FanOutFits ==
    ASSUME AgentTypes, NEW n \in Nodes, NEW i \in Intents, FanOutToFeeds(n, i)
    PROVE  feed' \in [Nodes -> Seq(Intents)] /\ \A x \in Nodes : Len(feed'[x]) <= FeedCap
<1>1. FeedCap \in Nat /\ feed[n] \in Seq(Intents)
  BY SyncConstants DEF AgentTypes
<1>2. CASE Len(feed[n]) < FeedCap
  <2>1. feed' = [feed EXCEPT ![n] = Append(feed[n], i)]
    BY <1>2 DEF FanOutToFeeds
  <2>2. Append(feed[n], i) \in Seq(Intents) /\ Len(Append(feed[n], i)) <= FeedCap
    BY <1>1, <1>2, SMT
  <2> QED
    BY <2>1, <2>2 DEF AgentTypes
<1>3. CASE ~(Len(feed[n]) < FeedCap)
  BY <1>3 DEF FanOutToFeeds, AgentTypes
<1> QED
  BY <1>2, <1>3

\* The steps of a node.
LEMMA AgentStep ==
    ASSUME IInv, BucketTypes, AgentTypes, Next
    PROVE  AgentTypes'
<1>1. CASE UNCHANGED agent
  BY <1>1 DEF agent, AgentTypes
<1>2. ASSUME NEW n \in Nodes, NodeStarts(n)
      PROVE  AgentTypes'
  BY <1>2 DEF NodeStarts, AgentTypes
<1>3. ASSUME NEW n \in Nodes, WatchStarts(n) \/ WatchCloses(n)
      PROVE  AgentTypes'
  BY <1>3 DEF WatchStarts, WatchCloses, AgentTypes
<1>4. ASSUME NEW n \in Nodes, WatchDelivers(n)
      PROVE  AgentTypes'
  <2>1. bucket[n] \in Intents /\ FeedCap \in Nat
    BY <1>4, SyncConstants DEF WatchDelivers, BucketTypes, IInv, ControlTypes
  <2>2. UNCHANGED <<up, watch, last, current>>
    BY <1>4 DEF WatchDelivers
  <2>3. CASE n \in PEs
    <3>1. /\ Len(aggregate[n]) < FeedCap /\ UNCHANGED feed
          /\ aggregate' = [aggregate EXCEPT ![n] = Append(aggregate[n], bucket[n])]
      BY <1>4, <2>3 DEF WatchDelivers
    <3>2. /\ Append(aggregate[n], bucket[n]) \in Seq(Intents)
          /\ Len(Append(aggregate[n], bucket[n])) <= FeedCap
      BY <2>1, <2>3, <3>1, SMT DEF AgentTypes
    <3> QED
      BY <2>2, <3>1, <3>2 DEF AgentTypes
  <2>4. CASE n \notin PEs
    <3>1. /\ Len(feed[n]) < FeedCap /\ UNCHANGED aggregate
          /\ feed' = [feed EXCEPT ![n] = Append(feed[n], bucket[n])]
      BY <1>4, <2>4 DEF WatchDelivers
    <3>2. Append(feed[n], bucket[n]) \in Seq(Intents) /\ Len(Append(feed[n], bucket[n])) <= FeedCap
      BY <2>1, <3>1, SMT DEF AgentTypes
    <3> QED
      BY <2>2, <3>1, <3>2 DEF AgentTypes
  <2> QED
    BY <2>3, <2>4
<1>5. ASSUME NEW n \in PEs, FanOut(n)
      PROVE  AgentTypes'
  <2> DEFINE i == Head(aggregate[n])
             rest == Tail(aggregate[n])
  <2>1. n \in Nodes /\ aggregate[n] \in Seq(Intents) /\ aggregate[n] # <<>> /\ FeedCap \in Nat
    BY <1>5, NodeFacts, SyncConstants DEF FanOut, AgentTypes
  <2>2. i \in Intents /\ rest \in Seq(Intents) /\ Len(rest) <= FeedCap
    BY <2>1, SMT DEF AgentTypes
  <2>3. /\ FanOutToFeeds(n, i) /\ last' = [last EXCEPT ![n] = i]
        /\ aggregate' = [aggregate EXCEPT ![n] = rest] /\ UNCHANGED <<up, watch, current>>
    BY <1>5 DEF FanOut
  <2> HIDE DEF i, rest
  <2>4. feed' \in [Nodes -> Seq(Intents)] /\ \A x \in Nodes : Len(feed'[x]) <= FeedCap
    BY <2>1, <2>2, <2>3, FanOutFits
  <2> QED
    BY <2>2, <2>3, <2>4 DEF AgentTypes
<1>6. ASSUME NEW n \in PEs, ResyncTick(n)
      PROVE  AgentTypes'
  <2>1. n \in Nodes /\ last[n] \in Intents /\ FanOutToFeeds(n, last[n])
    BY <1>6, NodeFacts DEF ResyncTick, AgentTypes
  <2>2. feed' \in [Nodes -> Seq(Intents)] /\ \A x \in Nodes : Len(feed'[x]) <= FeedCap
    BY <2>1, FanOutFits
  <2> QED
    BY <1>6, <2>2 DEF ResyncTick, AgentTypes
<1>7. ASSUME NEW n \in Nodes, NEW ok \in BOOLEAN, Reconcile(n, ok)
      PROVE  AgentTypes'
  <2> DEFINE i == Head(feed[n])
             rest == Tail(feed[n])
  <2>1. feed[n] \in Seq(Intents) /\ feed[n] # <<>> /\ FeedCap \in Nat
    BY <1>7, SyncConstants DEF Reconcile, AgentTypes
  <2>2. i \in Intents /\ rest \in Seq(Intents) /\ Len(rest) <= FeedCap
    BY <2>1, SMT DEF AgentTypes
  <2>3. /\ feed' = [feed EXCEPT ![n] = rest] /\ UNCHANGED <<up, watch, aggregate, last>>
        /\ current' = [current EXCEPT ![n] = i] \/ UNCHANGED current
    BY <1>7 DEF Reconcile
  <2> HIDE DEF i, rest
  <2> QED
    BY <2>2, <2>3 DEF AgentTypes
<1>8. ASSUME NEW n \in Nodes, NodeRestarts(n)
      PROVE  AgentTypes'
  <2>1. /\ up' = [up EXCEPT ![n] = FALSE] /\ watch' = [watch EXCEPT ![n] = "off"]
        /\ aggregate' = [p \in PEs |-> IF p = n THEN <<>> ELSE aggregate[p]]
        /\ last' = [p \in PEs |-> IF p = n THEN None ELSE last[p]]
        /\ feed' = [feed EXCEPT ![n] = <<>>] /\ current' = [current EXCEPT ![n] = None]
    BY <1>8 DEF NodeRestarts
  <2>2. <<>> \in Seq(Intents) /\ Len(<<>>) <= FeedCap
    BY SyncConstants, SMT
  <2> QED
    BY <2>1, <2>2 DEF AgentTypes
<1>9. CASE Writes
  BY <1>1, <1>9 DEF Writes, Upsert, Publish, Restore, RestoreSnapshots, RestoreOne
<1>10. CASE Controller
  BY <1>1, <1>10 DEF Controller, Boot, StartCommit, HandleCPETunnelUpdate, Crash, SetupEndpoints,
     ResyncEnds, HandlePETunnelUpdate, Dispatch, Reconnect
<1>11. ASSUME NEW n \in Nodes, NEW ok \in BOOLEAN,
              ReportEvent(n, ok) \/ ResyncRead(n, ok) \/ ResyncReport(n, ok)
       PROVE  UNCHANGED agent
  BY <1>11 DEF ReportEvent, ResyncRead, ResyncReport
<1>12. ASSUME NEW c \in CPEs, NEW downFirst \in BOOLEAN, TunnelUp(c, downFirst)
       PROVE  UNCHANGED agent
  BY <1>12 DEF TunnelUp
<1>13. ASSUME NEW n \in Nodes, Node(n)
       PROVE  AgentTypes'
  BY <1>1, <1>2, <1>3, <1>4, <1>5, <1>6, <1>7, <1>8, <1>11, <1>13 DEF Node
<1> QED
  BY <1>1, <1>9, <1>10, <1>12, <1>13 DEF Next

\* So the bucket and the nodes keep their types.
THEOREM NodesInvariant == Spec => []NodesInv
<1>1. Init => NodesInv
  <2> SUFFICES ASSUME Init  PROVE  NodesInv
    OBVIOUS
  <2>1. BucketTypes
    BY DEF Init, BucketTypes
  <2>2. AgentTypes
    <3>1. <<>> \in Seq(Intents) /\ Len(<<>>) <= FeedCap
      BY SyncConstants, SMT
    <3> QED
      BY <3>1 DEF Init, AgentTypes
  <2>3. Bounds
    <3>1. scenario \in [nodes : SUBSET Nodes, tunnels : Nat, dispatches : Nat, faults : Nat]
      BY SyncConstants DEF Init
    <3>2. 0 \in 0 .. scenario.tunnels /\ 0 \in 0 .. scenario.faults
      BY <3>1, SMT
    <3> QED
      BY <3>2 DEF Init, Bounds
  <2> QED
    BY <2>1, <2>2, <2>3 DEF NodesInv
<1>2. IInv /\ NodesInv /\ [Next]_vars => NodesInv'
  <2>1. IInv /\ NodesInv /\ Next => NodesInv'
    BY BoundsStep, BucketStep, AgentStep DEF NodesInv
  <2>2. NodesInv /\ UNCHANGED vars => NodesInv'
    BY DEF NodesInv, BucketTypes, AgentTypes, Bounds, vars, nats, agent, tunnels
  <2> QED
    BY <2>1, <2>2
<1> QED
  BY <1>1, <1>2, IntentSyncInvariant, PTL DEF Spec

\* TypeOK: the feeds of an agent stay within their capacity though every tick
\* of the resync offers its last intent again, and what they hold, like the
\* snapshots of the writers and the tunnel updates, is well formed.
THEOREM IntentSyncTyped == Spec => []TypeOK
<1>1. IInv /\ NodesInv => TypeOK
  <2> SUFFICES ASSUME IInv, NodesInv  PROVE  TypeOK
    OBVIOUS
  <2>1. \A n \in Nodes : /\ registry[n] \in Intents \cup {None} /\ bucket[n] \in Intents \cup {None}
                         /\ db[n] \in Generations \cup {None} /\ resync[n].todo \subseteq Updates
                         /\ \A k \in DOMAIN events[n] : events[n][k] \in Updates
    BY SMT DEF IInv, ControlTypes
  <2>2. \A w \in Writers : Snapshots(w) \subseteq Intents
    BY SnapshotFacts
  <2>3. \A e \in DOMAIN inbox : \A k \in DOMAIN inbox[e] : inbox[e][k] \in Updates
    BY SMT DEF IInv, ControlTypes
  <2>4. /\ cp \in {"down", "boot", "commit", "half", "resync", "ready", "stuck"}
        /\ hooked \in BOOLEAN /\ restoring \subseteq {"called", "ensured"}
    BY DEF IInv, ControlTypes
  <2>5. \A n \in PEs : Len(aggregate[n]) <= FeedCap /\ last[n] \in Intents \cup {None}
    BY DEF NodesInv, AgentTypes
  <2>6. \A n \in Nodes : current[n] \in Intents \cup {None} /\ Len(feed[n]) <= FeedCap
    BY DEF NodesInv, AgentTypes
  <2> QED
    BY <2>1, <2>2, <2>3, <2>4, <2>5, <2>6 DEF TypeOK, NodesInv, BucketTypes, AgentTypes, Bounds
<1> QED
  BY <1>1, IntentSyncInvariant, NodesInvariant, PTL

-----------------------------------------------------------------------------
\* A sequence is a function on 1 .. Len(s), and none but <<>> has length 0.
LEMMA LenProperties ==
    ASSUME NEW S, NEW s \in Seq(S)
    PROVE  /\ Len(s) \in Nat /\ s \in [1 .. Len(s) -> S] /\ DOMAIN s = 1 .. Len(s)
           /\ s # <<>> => Len(s) # 0
BY SMT

\* Taking the first element moves the others one place on.
LEMMA HeadTailProperties ==
    ASSUME NEW S, NEW s \in Seq(S), s # <<>>
    PROVE  /\ Head(s) \in S /\ Tail(s) \in Seq(S) /\ Len(Tail(s)) = Len(s) - 1
           /\ \A i \in 1 .. Len(Tail(s)) : Tail(s)[i] = s[i + 1]
BY SMT

\* Appending leaves the others where they are.
LEMMA AppendProperties ==
    ASSUME NEW S, NEW s \in Seq(S), NEW e \in S
    PROVE  /\ Append(s, e) \in Seq(S) /\ Append(s, e) # <<>>
           /\ Len(Append(s, e)) = Len(s) + 1 /\ Append(s, e)[Len(s) + 1] = e
           /\ \A i \in 1 .. Len(s) : Append(s, e)[i] = s[i]
BY SMT

-----------------------------------------------------------------------------
\* The last intent of s, or x when there is none.
EndsIn(s, x, y) == IF Len(s) = 0 THEN x = y ELSE s[Len(s)] = y

\* The intent of the bucket is due from the watch, or it is the last one in the
\* agent's aggregate feed, or the feed is empty and it is the one the agent
\* repeats at every tick: no drop at a full feed and no put that replaces
\* another leaves the agent repeating an intent the bucket no longer holds.
\* This is what NodesCatchUp needs beside the fairness of the steps.
PipelineEndsInBucket ==
    \A n \in PEs : watch[n] = "on" /\ bucket[n] # None =>
        fresh[n] \/ EndsIn(aggregate[n], last[n], bucket[n])

\* What is appended is last, and taking the first of several keeps the last.
LEMMA EndsInFacts ==
    ASSUME NEW s \in Seq(Intents), NEW x, NEW y
    PROVE  /\ \A i \in Intents : EndsIn(Append(s, i), x, i)
           /\ s # <<>> /\ EndsIn(s, x, y) => EndsIn(Tail(s), Head(s), y)
<1>1. ASSUME NEW i \in Intents  PROVE  EndsIn(Append(s, i), x, i)
  BY AppendProperties, SMT DEF EndsIn
<1>2. ASSUME s # <<>>, EndsIn(s, x, y)  PROVE  EndsIn(Tail(s), Head(s), y)
  <2>1. Len(s) \in Nat \ {0} /\ Head(s) = s[1]
    BY <1>2, LenProperties, SMT
  <2>2. Len(Tail(s)) = Len(s) - 1 /\ \A i \in 1 .. Len(Tail(s)) : Tail(s)[i] = s[i + 1]
    BY <1>2, HeadTailProperties
  <2> QED
    BY <1>2, <2>1, <2>2, SMT DEF EndsIn
<1> QED
  BY <1>1, <1>2

\* Each node keeps the property whose part of the state does not change, and
\* so does one for which a put is due.
LEMMA PipelineFrame ==
    ASSUME PipelineEndsInBucket, NEW n \in PEs,
           \/ watch'[n] = watch[n] /\ bucket'[n] = bucket[n] /\ fresh'[n] = fresh[n]
              /\ aggregate'[n] = aggregate[n] /\ last'[n] = last[n]
           \/ watch'[n] # "on" \/ bucket'[n] = None \/ fresh'[n]
    PROVE  watch'[n] = "on" /\ bucket'[n] # None =>
              fresh'[n] \/ EndsIn(aggregate'[n], last'[n], bucket'[n])
BY DEF PipelineEndsInBucket

\* A put is due at its node.
LEMMA PutPipeline ==
    ASSUME IInv, NodesInv, PipelineEndsInBucket, NEW s \in Intents,
           Put(s) \/ UNCHANGED <<bucket, fresh>>, UNCHANGED <<watch, aggregate, last>>
    PROVE  PipelineEndsInBucket'
<1> SUFFICES ASSUME NEW n \in PEs
             PROVE  watch'[n] = "on" /\ bucket'[n] # None =>
                       fresh'[n] \/ EndsIn(aggregate'[n], last'[n], bucket'[n])
  BY DEF PipelineEndsInBucket
<1>1. n \in Nodes /\ s.node \in Nodes
  BY NodeFacts DEF Intents
<1>2. /\ bucket \in [Nodes -> Intents \cup {None}] /\ fresh \in [Nodes -> BOOLEAN]
  BY DEF IInv, ControlTypes, NodesInv, BucketTypes
<1>3. fresh'[n] \/ (bucket'[n] = bucket[n] /\ fresh'[n] = fresh[n])
  BY <1>1, <1>2 DEF Put
<1> QED
  BY <1>3, PipelineFrame

\* The steps that touch the bucket, a watch or an agent's aggregate feed.
LEMMA PipelineStep ==
    ASSUME IInv, NodesInv, PipelineEndsInBucket, Next
    PROVE  PipelineEndsInBucket'
<1> DEFINE Kept(n) == watch'[n] = "on" /\ bucket'[n] # None =>
                         fresh'[n] \/ EndsIn(aggregate'[n], last'[n], bucket'[n])
           Same == UNCHANGED <<watch, bucket, fresh, aggregate, last>>
<1>0. (\A n \in PEs : Kept(n)) => PipelineEndsInBucket'
  BY DEF PipelineEndsInBucket
<1>1. Same => PipelineEndsInBucket'
  BY DEF PipelineEndsInBucket
<1> HIDE DEF Kept
<1>2. /\ bucket \in [Nodes -> Intents \cup {None}] /\ fresh \in [Nodes -> BOOLEAN]
      /\ watch \in [Nodes -> {"off", "on", "dead"}] /\ PEs \subseteq Nodes
      /\ aggregate \in [PEs -> Seq(Intents)] /\ last \in [PEs -> Intents \cup {None}]
  BY NodeFacts DEF IInv, ControlTypes, NodesInv, BucketTypes, AgentTypes
<1>3. CASE Writes
  <2>1. ASSUME NEW w \in Writers, NEW ok \in BOOLEAN, Upsert(w, ok)
        PROVE  Same
    BY <2>1 DEF Upsert, nats, agent
  <2>2. ASSUME NEW w \in Writers, NEW ok \in BOOLEAN, Publish(w, ok)
        PROVE  PipelineEndsInBucket'
    <3>1. writer[w].current \in Snapshots(w)
      BY <2>2 DEF Publish, Snapshots
    <3>2. writer[w].current \in Intents
      BY <3>1, SnapshotFacts
    <3>3. /\ Put(writer[w].current) \/ UNCHANGED <<bucket, fresh>>
          /\ UNCHANGED <<watch, aggregate, last>>
      BY <2>2 DEF Publish, agent
    <3> QED
      BY <3>2, <3>3, PutPipeline
  <2>3. ASSUME NEW ok \in BOOLEAN, Restore(ok) \/ RestoreSnapshots
        PROVE  Same
    BY <2>3 DEF Restore, RestoreSnapshots, nats, agent
  <2>4. ASSUME NEW ok \in BOOLEAN, RestoreOne(ok)
        PROVE  PipelineEndsInBucket'
    <3>1. PICK s \in writer["restore"].todo : Put(s) \/ UNCHANGED <<bucket, fresh>>
      BY <2>4 DEF RestoreOne
    <3>2. s \in Intents /\ UNCHANGED <<watch, aggregate, last>>
      BY <2>4, <3>1 DEF RestoreOne, IInv, ControlTypes, Writers, agent
    <3> QED
      BY <3>1, <3>2, PutPipeline
  <2> QED
    BY <1>1, <1>3, <2>1, <2>2, <2>3, <2>4 DEF Writes
<1>4. CASE Controller
  <2>1. ASSUME NEW lost \in BOOLEAN, Reconnect(lost)
        PROVE  PipelineEndsInBucket'
    <3>1. ASSUME NEW n \in PEs  PROVE  Kept(n)
      <4>1. /\ watch'[n] = watch[n] /\ aggregate'[n] = aggregate[n] /\ last'[n] = last[n]
            /\ bucket'[n] = None \/ (bucket'[n] = bucket[n] /\ fresh'[n] = fresh[n])
        BY <1>2, <2>1 DEF Reconnect, agent
      <4> QED
        BY <4>1, PipelineFrame DEF Kept
    <3> QED
      BY <1>0, <3>1
  <2>2. ASSUME NEW ok \in BOOLEAN,
               \/ Boot \/ StartCommit \/ HandleCPETunnelUpdate \/ Crash \/ ResyncEnds(ok)
               \/ HandlePETunnelUpdate(ok) \/ \E done \in Calls : SetupEndpoints(done)
               \/ \E S \in SUBSET PEs : \E staged \in SUBSET S : Dispatch(S, staged)
        PROVE  Same
    BY <2>2 DEF Boot, StartCommit, HandleCPETunnelUpdate, Crash, SetupEndpoints, ResyncEnds,
       HandlePETunnelUpdate, Dispatch, nats, agent
  <2> QED
    BY <1>1, <1>4, <2>1, <2>2 DEF Controller
<1>5. ASSUME NEW m \in Nodes, Node(m)
      PROVE  PipelineEndsInBucket'
  <2>1. ASSUME WatchStarts(m) \/ WatchCloses(m)
        PROVE  PipelineEndsInBucket'
    <3>1. ASSUME NEW n \in PEs  PROVE  Kept(n)
      <4>1. CASE n # m
        <5>1. UNCHANGED <<bucket, aggregate, last>> /\ watch'[n] = watch[n] /\ fresh'[n] = fresh[n]
          BY <1>2, <2>1, <4>1 DEF WatchStarts, WatchCloses, nats
        <5> QED
          BY <5>1, PipelineFrame DEF Kept
      <4>2. CASE n = m /\ WatchStarts(m)
        <5>1. bucket' = bucket /\ fresh'[n] = (bucket[n] # None)
          BY <1>2, <4>2 DEF WatchStarts
        <5> QED
          BY <5>1 DEF Kept
      <4>3. CASE n = m /\ WatchCloses(m)
        BY <1>2, <4>3 DEF WatchCloses, Kept
      <4> QED
        BY <2>1, <4>1, <4>2, <4>3
    <3> QED
      BY <1>0, <3>1
  <2>2. ASSUME WatchDelivers(m)
        PROVE  PipelineEndsInBucket'
    <3>1. ASSUME NEW n \in PEs  PROVE  Kept(n)
      <4>1. CASE n # m
        <5>1. UNCHANGED <<bucket, watch, last>> /\ fresh'[n] = fresh[n] /\ aggregate'[n] = aggregate[n]
          BY <1>2, <2>2, <4>1 DEF WatchDelivers
        <5> QED
          BY <5>1, PipelineFrame DEF Kept
      <4>2. CASE n = m
        <5>1. /\ UNCHANGED <<bucket, watch, last>> /\ aggregate'[n] = Append(aggregate[n], bucket[n])
              /\ bucket[n] \in Intents
          BY <1>2, <2>2, <4>2 DEF WatchDelivers, NodesInv, BucketTypes
        <5> QED
          BY <1>2, <5>1, EndsInFacts DEF Kept
      <4> QED
        BY <4>1, <4>2
    <3> QED
      BY <1>0, <3>1
  <2>3. ASSUME m \in PEs, FanOut(m)
        PROVE  PipelineEndsInBucket'
    <3>1. ASSUME NEW n \in PEs  PROVE  Kept(n)
      <4>1. CASE n # m
        <5>1. UNCHANGED <<bucket, watch, fresh>> /\ last'[n] = last[n] /\ aggregate'[n] = aggregate[n]
          BY <1>2, <2>3, <4>1 DEF FanOut, nats
        <5> QED
          BY <5>1, PipelineFrame DEF Kept
      <4>2. CASE n = m
        <5>1. /\ UNCHANGED <<bucket, watch, fresh>> /\ last'[n] = Head(aggregate[n])
              /\ aggregate'[n] = Tail(aggregate[n]) /\ aggregate[n] # <<>>
          BY <1>2, <2>3, <4>2 DEF FanOut, nats
        <5> QED
          BY <1>2, <5>1, EndsInFacts DEF Kept, PipelineEndsInBucket
      <4> QED
        BY <4>1, <4>2
    <3> QED
      BY <1>0, <3>1
  <2>4. ASSUME NodeRestarts(m)
        PROVE  PipelineEndsInBucket'
    <3>1. ASSUME NEW n \in PEs  PROVE  Kept(n)
      <4>1. CASE n # m
        <5>1. /\ UNCHANGED <<bucket, fresh>> /\ watch'[n] = watch[n] /\ last'[n] = last[n]
              /\ aggregate'[n] = aggregate[n]
          BY <1>2, <2>4, <4>1 DEF NodeRestarts, nats
        <5> QED
          BY <5>1, PipelineFrame DEF Kept
      <4>2. CASE n = m
        BY <1>2, <2>4, <4>2 DEF NodeRestarts, Kept
      <4> QED
        BY <4>1, <4>2
    <3> QED
      BY <1>0, <3>1
  <2>5. ASSUME NEW ok \in BOOLEAN,
               \/ NodeStarts(m) \/ ResyncTick(m) \/ Reconcile(m, ok) \/ ReportEvent(m, ok)
               \/ ResyncRead(m, ok) \/ ResyncReport(m, ok)
        PROVE  Same
    BY <2>5 DEF NodeStarts, ResyncTick, Reconcile, ReportEvent, ResyncRead, ResyncReport, nats, agent
  <2> QED
    BY <1>1, <1>5, <2>1, <2>2, <2>3, <2>4, <2>5 DEF Node
<1>6. ASSUME NEW c \in CPEs, NEW downFirst \in BOOLEAN, TunnelUp(c, downFirst)
      PROVE  Same
  BY <1>6 DEF TunnelUp, nats, agent
<1> QED
  BY <1>1, <1>3, <1>4, <1>5, <1>6 DEF Next

\* So an agent that keeps its watch repeats the bucket's intent, or has it
\* before it.
THEOREM AgentsRepeatTheBucket == Spec => []PipelineEndsInBucket
<1>1. Init => PipelineEndsInBucket
  BY NodeFacts DEF Init, PipelineEndsInBucket
<1>2. IInv /\ NodesInv /\ PipelineEndsInBucket /\ [Next]_vars => PipelineEndsInBucket'
  <2>1. PipelineEndsInBucket /\ UNCHANGED vars => PipelineEndsInBucket'
    BY DEF PipelineEndsInBucket, vars, nats, agent
  <2> QED
    BY <2>1, PipelineStep
<1> QED
  BY <1>1, <1>2, IntentSyncInvariant, NodesInvariant, PTL DEF Spec

-----------------------------------------------------------------------------
\* No node has an intent under a higher version than the control plane's, also
\* across restarts that lost a record: Reconcile can refuse the registry's
\* intent as stale for its generation only.
NodesNeverAhead ==
    \A n \in Nodes : current[n] # None /\ registry[n] # None =>
        current[n].version <= registry[n].version

\* The version of a node, or the one a restart gives it at most.
Cap(n) == IF registry[n] = None THEN Recorded(n) + 1 ELSE registry[n].version

Elements(s) == {s[k] : k \in DOMAIN s}

\* The intents on their way to a node, and the one it has.
Travelling(n) ==
    ({bucket[n], current[n]} \cup Elements(feed[n])
       \cup (IF n \in PEs THEN {last[n]} \cup Elements(aggregate[n]) ELSE {})) \ {None}

\* None of them is above the registry, which is one above the record at most.
Capped ==
    \A n \in Nodes : /\ Cap(n) <= Recorded(n) + 1
                     /\ \A i \in Travelling(n) : i.version <= Cap(n)

\* What a sequence holds after it has lost its first or got another.
LEMMA ElementsFacts ==
    ASSUME NEW s \in Seq(Intents)
    PROVE  /\ \A i \in Intents : Elements(Append(s, i)) \subseteq Elements(s) \cup {i}
           /\ s # <<>> => Head(s) \in Elements(s) /\ Elements(Tail(s)) \subseteq Elements(s)
           /\ Elements(s) \subseteq Intents
<1>1. ASSUME NEW i \in Intents
      PROVE  Elements(Append(s, i)) \subseteq Elements(s) \cup {i}
  <2>1. /\ Append(s, i) \in Seq(Intents) /\ Len(Append(s, i)) = Len(s) + 1
        /\ \A k \in 1 .. Len(s) : Append(s, i)[k] = s[k]
        /\ Append(s, i)[Len(s) + 1] = i
    BY AppendProperties, SMT
  <2>2. DOMAIN Append(s, i) = 1 .. Len(s) + 1 /\ DOMAIN s = 1 .. Len(s) /\ Len(s) \in Nat
    BY <2>1, LenProperties
  <2> QED
    BY <2>1, <2>2, SMT DEF Elements
<1>2. ASSUME s # <<>>
      PROVE  Head(s) \in Elements(s) /\ Elements(Tail(s)) \subseteq Elements(s)
  <2>1. Len(s) \in Nat \ {0} /\ Head(s) = s[1] /\ DOMAIN s = 1 .. Len(s)
    BY <1>2, LenProperties, SMT
  <2>2. /\ Tail(s) \in Seq(Intents) /\ Len(Tail(s)) = Len(s) - 1
        /\ \A k \in 1 .. Len(Tail(s)) : Tail(s)[k] = s[k + 1]
    BY <1>2, HeadTailProperties
  <2>3. DOMAIN Tail(s) = 1 .. Len(s) - 1
    BY <2>2, LenProperties
  <2> QED
    BY <2>1, <2>2, <2>3, SMT DEF Elements
<1>3. Elements(s) \subseteq Intents
  BY LenProperties, SMT DEF Elements
<1> QED
  BY <1>1, <1>2, <1>3

\* The versions and the record are numbers.
LEMMA CapTypes ==
    ASSUME IInv, NodesInv, NEW n \in Nodes
    PROVE  /\ Recorded(n) \in Nat /\ Cap(n) \in Nat
           /\ \A i \in Travelling(n) : i \in Intents /\ i.version \in Nat
<1>1. Recorded(n) \in Nat /\ Cap(n) \in Nat
  BY SMT DEF Recorded, Cap, IInv, ControlTypes, Generations, Intents
<1>2. /\ bucket[n] \in Intents \cup {None} /\ current[n] \in Intents \cup {None}
      /\ Elements(feed[n]) \subseteq Intents
  BY ElementsFacts DEF IInv, ControlTypes, NodesInv, AgentTypes
<1>3. n \in PEs => last[n] \in Intents \cup {None} /\ Elements(aggregate[n]) \subseteq Intents
  BY ElementsFacts DEF NodesInv, AgentTypes
<1>4. Travelling(n) \subseteq Intents
  BY <1>2, <1>3 DEF Travelling
<1> QED
  BY <1>1, <1>4 DEF Intents

\* When the version of no node falls, the record keeps up with it and nothing
\* new is on its way, the property is kept.
LEMMA CappedFrame ==
    ASSUME IInv, NodesInv, IInv', NodesInv', Capped,
           \A n \in Nodes : /\ Cap(n) <= Cap(n)' /\ Cap(n)' <= Recorded(n)' + 1
                            /\ Travelling(n)' \subseteq Travelling(n)
    PROVE  Capped'
<1> SUFFICES ASSUME NEW n \in Nodes, NEW i \in Travelling(n)'
             PROVE  i.version <= Cap(n)'
  BY DEF Capped
<1>1. i \in Travelling(n) /\ i.version <= Cap(n)
  BY DEF Capped
<1>2. Cap(n)' \in Nat
  <2>1. registry'[n] \in Intents \cup {None} /\ db'[n] \in Generations \cup {None}
    BY DEF IInv, ControlTypes
  <2> QED
    BY <2>1, SMT DEF Recorded, Cap, Generations, Intents
<1> QED
  BY <1>1, <1>2, CapTypes, SMT

\* A commit leaves the versions; a node without an entry is not recorded and
\* gets version 1.
LEMMA CommitCap ==
    ASSUME IInv, NodesInv, Capped, cp # "down", UNCHANGED db, NEW w, NEW S \in SUBSET Nodes,
           NEW body, Mutate(w, S, body), NEW n \in Nodes
    PROVE  Cap(n) <= Cap(n)' /\ Cap(n)' <= Recorded(n)' + 1
<1>1. Recorded(n)' = Recorded(n) /\ Recorded(n) \in Nat /\ Cap(n) \in Nat /\ Cap(n) <= Recorded(n) + 1
  BY CapTypes DEF Recorded, Capped
<1>2. CASE n \notin S
  <2>1. registry'[n] = registry[n]
    BY <1>2 DEF Mutate
  <2> QED
    BY <1>1, <2>1, SMT DEF Cap
<1>3. CASE n \in S
  <2> DEFINE e == GetOrCreate(n)
  <2>1. /\ e \in Intents /\ (registry[n] # None => e.version = registry[n].version)
        /\ (registry[n] = None => e.version = 1)
    BY GetOrCreateTypes DEF IInv
  <2>2. registry'[n] = [e EXCEPT !.body = body[n], !.generation = @ + 1]
    BY <1>3 DEF Mutate
  <2> HIDE DEF e
  <2>3. registry'[n].version = e.version
    BY <2>1, <2>2 DEF Intents
  <2>4. registry[n] = None => Recorded(n) = 0
    BY DEF IInv, Ranked, Recorded
  <2>5. Cap(n)' = Recorded(n) + 1 \/ Cap(n)' = Cap(n)
    BY <1>1, <2>1, <2>3, <2>4, SMT DEF Cap
  <2> QED
    BY <1>1, <2>5, SMT
<1> QED
  BY <1>2, <1>3

\* The steps of the control plane that put nothing in the bucket.
LEMMA ControlCap ==
    ASSUME IInv, NodesInv, Capped, NEW ok \in BOOLEAN, NEW n \in Nodes,
           \/ \E w \in Writers : Upsert(w, ok)
           \/ Boot \/ Crash \/ StartCommit \/ HandleCPETunnelUpdate \/ HandlePETunnelUpdate(ok)
           \/ \E S \in SUBSET PEs : \E staged \in SUBSET S : Dispatch(S, staged)
           \/ \E m \in Nodes : NodeStarts(m)
    PROVE  Cap(n) <= Cap(n)' /\ Cap(n)' <= Recorded(n)' + 1
<1>0. Recorded(n) \in Nat /\ Cap(n) \in Nat /\ Cap(n) <= Recorded(n) + 1
  BY CapTypes DEF Capped
<1>1. ASSUME NEW w \in Writers, Upsert(w, ok)
      PROVE  Cap(n) <= Cap(n)' /\ Cap(n)' <= Recorded(n)' + 1
  <2>1. PICK s \in writer[w].todo :
            db' = IF ok THEN [db EXCEPT ![s.node] = [version |-> s.version,
                                                     generation |-> s.generation]] ELSE db
    BY <1>1 DEF Upsert
  <2>2. s \in Snapshots(w) /\ UNCHANGED registry
    BY <1>1, <2>1 DEF Snapshots, Upsert
  <2>3. /\ s \in Intents /\ s.node \in Nodes /\ registry[s.node] # None
        /\ s.version = registry[s.node].version
    BY <2>2, SnapshotFacts
  <2>4. CASE ok /\ n = s.node
    <3>1. db'[n] = [version |-> s.version, generation |-> s.generation]
      BY <2>1, <2>3, <2>4 DEF IInv, ControlTypes
    <3>2. [version |-> s.version, generation |-> s.generation] \in Generations
      BY <2>3 DEF Intents, Generations
    <3>3. Recorded(n)' = registry[n].version
      BY <2>3, <2>4, <3>1, <3>2, NodeFacts, SMT DEF Recorded
    <3> QED
      BY <1>0, <2>2, <2>3, <2>4, <3>3, SMT DEF Cap
  <2>5. CASE ~(ok /\ n = s.node)
    <3>1. db'[n] = db[n]
      BY <2>1, <2>3, <2>5 DEF IInv, ControlTypes
    <3>2. Recorded(n)' = Recorded(n) /\ registry'[n] = registry[n]
      BY <2>2, <3>1 DEF Recorded
    <3> QED
      BY <1>0, <3>2, SMT DEF Cap
  <2> QED
    BY <2>4, <2>5
<1>2. CASE Boot
  <2>1. UNCHANGED db /\ registry'[n] = LoadPreviousStateFromDB(n)
    BY <1>2 DEF Boot
  <2>2. Recorded(n)' = Recorded(n)
    BY <2>1 DEF Recorded
  <2>3. db[n] # None => registry'[n].version = Recorded(n) + 1
    BY <2>1, SMT DEF LoadPreviousStateFromDB, Entry, Recorded
  <2>4. Cap(n)' = Recorded(n) + 1
    BY <2>1, <2>2, <2>3 DEF Cap, LoadPreviousStateFromDB
  <2> QED
    BY <1>0, <2>2, <2>4, SMT
<1>3. CASE Crash
  <2>1. UNCHANGED db /\ registry'[n] = None
    BY <1>3 DEF Crash
  <2> QED
    BY <1>0, <2>1, SMT DEF Cap, Recorded
<1>4. CASE StartCommit
  <2>1. cp # "down" /\ UNCHANGED db /\ Mutate("start", PEs, stagePeerIntents)
    BY <1>4 DEF StartCommit
  <2> QED
    BY <2>1, NodeFacts, CommitCap
<1>5. CASE HandleCPETunnelUpdate
  <2> DEFINE m == Head(inbox["cpe"])
  <2>1. /\ inbox["cpe"] # <<>> /\ UNCHANGED db
        /\ Mutate("cpe", {m.portal}, [x \in {m.portal} |-> [Empty EXCEPT !.ifid[m.portal] = m.ifid]])
    BY <1>5 DEF HandleCPETunnelUpdate, UpsertCPEIntentForSite
  <2>2. m.portal \in CPEs /\ cp # "down"
    BY <2>1, InboxFacts
  <2> QED
    BY <2>1, <2>2, NodeFacts, CommitCap
<1>6. CASE HandlePETunnelUpdate(ok)
  <2> DEFINE m == Head(inbox["pe"])
             p == Attach[m.portal]
             body == [x \in {p} |-> StagePortalIntentForNode(GetOrCreate(p).body, m.portal, m.ifid, ok)]
  <2>1. inbox["pe"] # <<>> /\ UNCHANGED db /\ Mutate("pe", {p}, body)
    BY <1>6 DEF HandlePETunnelUpdate
  <2>2. m.portal \in CPEs /\ cp # "down"
    BY <2>1, InboxFacts
  <2>3. {p} \in SUBSET Nodes
    BY <2>2, NodeFacts
  <2> HIDE DEF body, p
  <2> QED
    BY <2>1, <2>2, <2>3, CommitCap
<1>7. ASSUME NEW S \in SUBSET PEs, NEW staged \in SUBSET S, Dispatch(S, staged)
      PROVE  Cap(n) <= Cap(n)' /\ Cap(n)' <= Recorded(n)' + 1
  <2> DEFINE body == [x \in S |->
                        StageSIDSegsForTenantOnNode(GetOrCreate(x).body, dispatches', x \in staged)]
  <2>1. cp # "down" /\ UNCHANGED db /\ Mutate("dispatcher", S, body)
    BY <1>7 DEF Dispatch
  <2> HIDE DEF body
  <2> QED
    BY <2>1, NodeFacts, CommitCap
<1>8. ASSUME NEW m \in Nodes, NodeStarts(m)
      PROVE  Cap(n) <= Cap(n)' /\ Cap(n)' <= Recorded(n)' + 1
  <2> DEFINE e == Entry(m, 1, 1, [Empty EXCEPT !.named = FALSE])
  <2>1. /\ cp = "ready" /\ UNCHANGED db
        /\ UNCHANGED registry \/ (registry[m] = None /\ registry' = [registry EXCEPT ![m] = e])
    BY <1>8 DEF NodeStarts, waitForReady, HealthReady, PortalAuthIdentity
  <2>2. e.version = 1
    BY DEF Entry
  <2>3. registry[n] = None => Recorded(n) = 0
    BY <2>1 DEF IInv, Ranked, Recorded
  <2>4. Recorded(n)' = Recorded(n)
    BY <2>1 DEF Recorded
  <2> HIDE DEF e
  <2>5. registry'[n] = registry[n] \/ (registry[n] = None /\ registry'[n].version = 1)
    BY <2>1, <2>2 DEF IInv, ControlTypes
  <2> QED
    BY <1>0, <2>3, <2>4, <2>5, SMT DEF Cap
<1> QED
  BY <1>1, <1>2, <1>3, <1>4, <1>5, <1>6, <1>7, <1>8
\* What a put brings is an intent of a writer, under the registry's version.
LEMMA PutCapped ==
    ASSUME IInv, NodesInv, Capped, NEW w \in Writers, NEW s \in Snapshots(w),
           Put(s) \/ UNCHANGED bucket, UNCHANGED <<registry, db, feed, aggregate, last, current>>
    PROVE  Capped'
<1>1. /\ s \in Intents /\ s.node \in Nodes /\ s.version \in Nat /\ registry[s.node] # None
      /\ s.version = registry[s.node].version
  BY SnapshotFacts
<1> SUFFICES ASSUME NEW n \in Nodes
             PROVE  /\ Cap(n)' <= Recorded(n)' + 1
                    /\ \A i \in Travelling(n)' : i.version <= Cap(n)'
  BY DEF Capped
<1>2. Cap(n)' = Cap(n) /\ Recorded(n)' = Recorded(n)
  BY DEF Cap, Recorded
<1>3. bucket'[n] = bucket[n] \/ (n = s.node /\ bucket'[n] = s)
  BY <1>1 DEF Put, IInv, ControlTypes
<1>4. Travelling(n)' \subseteq Travelling(n) \cup (IF n = s.node THEN {s} ELSE {})
  BY <1>3 DEF Travelling
<1>5. n = s.node => s.version <= Cap(n)
  BY <1>1, SMT DEF Cap
<1> QED
  BY <1>2, <1>4, <1>5 DEF Capped

\* The steps of a node pass its intents on.
LEMMA NodeTravelling ==
    ASSUME IInv, NodesInv, NEW m \in Nodes, NEW ok \in BOOLEAN, NEW n \in Nodes,
           \/ WatchStarts(m) \/ WatchCloses(m) \/ WatchDelivers(m) \/ NodeRestarts(m)
           \/ (m \in PEs /\ (FanOut(m) \/ ResyncTick(m))) \/ Reconcile(m, ok)
    PROVE  Travelling(n)' \subseteq Travelling(n) /\ UNCHANGED <<registry, db>>
<1>1. /\ bucket[n] \in Intents \cup {None} /\ bucket \in [Nodes -> Intents \cup {None}]
      /\ feed \in [Nodes -> Seq(Intents)] /\ current \in [Nodes -> Intents \cup {None}]
      /\ aggregate \in [PEs -> Seq(Intents)] /\ last \in [PEs -> Intents \cup {None}]
  BY DEF IInv, ControlTypes, NodesInv, AgentTypes
<1>2. UNCHANGED <<registry, db, bucket>>
  BY DEF WatchStarts, WatchCloses, WatchDelivers, NodeRestarts, FanOut, ResyncTick, Reconcile, nats,
     control
<1>3. CASE n # m
  <2>1. feed'[n] = feed[n] /\ current'[n] = current[n]
    BY <1>1, <1>3 DEF WatchStarts, WatchCloses, WatchDelivers, NodeRestarts, FanOut, ResyncTick,
       Reconcile, FanOutToFeeds
  <2>2. n \in PEs => last'[n] = last[n] /\ aggregate'[n] = aggregate[n]
    BY <1>1, <1>3 DEF WatchStarts, WatchCloses, WatchDelivers, NodeRestarts, FanOut, ResyncTick,
       Reconcile
  <2> QED
    BY <1>2, <2>1, <2>2 DEF Travelling
<1>4. CASE n = m /\ (WatchStarts(m) \/ WatchCloses(m))
  BY <1>2, <1>4 DEF WatchStarts, WatchCloses, Travelling
<1>5. CASE n = m /\ WatchDelivers(m)
  <2>1. bucket[n] \in Intents /\ bucket[n] \in Travelling(n) /\ UNCHANGED <<last, current>>
    BY <1>1, <1>5, NodeFacts DEF WatchDelivers, NodesInv, BucketTypes, Travelling
  <2>2. CASE n \in PEs
    <3>1. UNCHANGED feed /\ aggregate'[n] = Append(aggregate[n], bucket[n])
      BY <1>1, <1>5, <2>2 DEF WatchDelivers
    <3>2. Elements(aggregate'[n]) \subseteq Elements(aggregate[n]) \cup {bucket[n]}
      BY <1>1, <2>1, <2>2, <3>1, ElementsFacts
    <3> QED
      BY <1>2, <2>1, <2>2, <3>1, <3>2 DEF Travelling
  <2>3. CASE n \notin PEs
    <3>1. feed'[n] = Append(feed[n], bucket[n])
      BY <1>1, <1>5, <2>3 DEF WatchDelivers
    <3>2. Elements(feed'[n]) \subseteq Elements(feed[n]) \cup {bucket[n]}
      BY <1>1, <2>1, <3>1, ElementsFacts
    <3> QED
      BY <1>2, <2>1, <2>3, <3>2 DEF Travelling
  <2> QED
    BY <2>2, <2>3
<1>6. CASE n = m /\ NodeRestarts(m)
  <2>1. feed'[n] = <<>> /\ current'[n] = None /\ (n \in PEs => last'[n] = None /\ aggregate'[n] = <<>>)
    BY <1>1, <1>6 DEF NodeRestarts
  <2>2. Elements(<<>>) = {}
    BY SMT DEF Elements
  <2> QED
    BY <1>2, <2>1, <2>2 DEF Travelling
<1>7. ASSUME NEW i \in Intents, FanOutToFeeds(n, i)
      PROVE  Elements(feed'[n]) \subseteq Elements(feed[n]) \cup {i}
  <2>1. feed'[n] = feed[n] \/ feed'[n] = Append(feed[n], i)
    BY <1>1, <1>7 DEF FanOutToFeeds
  <2> QED
    BY <1>1, <2>1, ElementsFacts
<1>8. CASE n = m /\ m \in PEs /\ FanOut(m)
  <2> DEFINE i == Head(aggregate[n])
  <2>1. /\ aggregate[n] # <<>> /\ FanOutToFeeds(n, i) /\ last'[n] = i
        /\ aggregate'[n] = Tail(aggregate[n]) /\ current' = current
    BY <1>1, <1>8 DEF FanOut
  <2>2. /\ i \in Elements(aggregate[n]) /\ i \in Intents
        /\ Elements(aggregate'[n]) \subseteq Elements(aggregate[n])
    BY <1>1, <1>8, <2>1, ElementsFacts
  <2> HIDE DEF i
  <2>3. Elements(feed'[n]) \subseteq Elements(feed[n]) \cup {i}
    BY <1>7, <2>1, <2>2
  <2> QED
    BY <1>2, <1>8, <2>1, <2>2, <2>3, SMT DEF Travelling
<1>9. CASE n = m /\ m \in PEs /\ ResyncTick(m)
  <2>1. last[n] \in Intents /\ FanOutToFeeds(n, last[n]) /\ UNCHANGED <<last, aggregate, current>>
    BY <1>1, <1>9 DEF ResyncTick
  <2>2. Elements(feed'[n]) \subseteq Elements(feed[n]) \cup {last[n]}
    BY <1>7, <2>1
  <2> QED
    BY <1>2, <1>9, <2>1, <2>2, SMT DEF Travelling
<1>10. CASE n = m /\ Reconcile(m, ok)
  <2> DEFINE i == Head(feed[n])
  <2>1. /\ feed[n] # <<>> /\ feed'[n] = Tail(feed[n]) /\ UNCHANGED <<aggregate, last>>
        /\ current'[n] = i \/ current'[n] = current[n]
    BY <1>1, <1>10 DEF Reconcile
  <2>2. i \in Elements(feed[n]) /\ Elements(feed'[n]) \subseteq Elements(feed[n])
    BY <1>1, <2>1, ElementsFacts
  <2> HIDE DEF i
  <2> QED
    BY <1>2, <2>1, <2>2 DEF Travelling
<1> QED
  BY <1>2, <1>3, <1>4, <1>5, <1>6, <1>8, <1>9, <1>10

\* Every step keeps the intents of a node below the registry.
LEMMA CappedStep ==
    ASSUME IInv, NodesInv, IInv', NodesInv', Capped, Next
    PROVE  Capped'
<1> DEFINE Same == UNCHANGED <<registry, db, bucket, feed, aggregate, last, current>>
<1>1. Same => Capped'
  BY DEF Capped, Cap, Recorded, Travelling
<1>2. ASSUME NEW ok \in BOOLEAN,
             \/ \E w \in Writers : Upsert(w, ok)
             \/ Boot \/ Crash \/ StartCommit \/ HandleCPETunnelUpdate \/ HandlePETunnelUpdate(ok)
             \/ \E S \in SUBSET PEs : \E staged \in SUBSET S : Dispatch(S, staged)
             \/ \E m \in Nodes : NodeStarts(m)
      PROVE  Capped'
  <2>1. \A n \in Nodes : Cap(n) <= Cap(n)' /\ Cap(n)' <= Recorded(n)' + 1
    BY <1>2, ControlCap
  <2>2. UNCHANGED <<bucket, feed, aggregate, last, current>>
    BY <1>2 DEF Upsert, Boot, Crash, StartCommit, HandleCPETunnelUpdate, HandlePETunnelUpdate,
       Dispatch, NodeStarts, nats, agent
  <2>3. \A n \in Nodes : Travelling(n)' = Travelling(n)
    BY <2>2 DEF Travelling
  <2> QED
    BY <2>1, <2>3, CappedFrame
<1>3. ASSUME NEW w \in Writers, NEW ok \in BOOLEAN, Publish(w, ok)
      PROVE  Capped'
  <2>1. /\ writer[w].current \in Snapshots(w)
        /\ Put(writer[w].current) \/ UNCHANGED bucket
        /\ UNCHANGED <<registry, db, feed, aggregate, last, current>>
    BY <1>3 DEF Publish, Snapshots, agent
  <2> QED
    BY <2>1, PutCapped
<1>4. ASSUME NEW ok \in BOOLEAN, RestoreOne(ok)
      PROVE  Capped'
  <2>1. PICK s \in writer["restore"].todo : Put(s) \/ UNCHANGED bucket
    BY <1>4 DEF RestoreOne
  <2>2. /\ "restore" \in Writers /\ s \in Snapshots("restore")
        /\ UNCHANGED <<registry, db, feed, aggregate, last, current>>
    BY <1>4, <2>1 DEF RestoreOne, Snapshots, Writers, agent
  <2> QED
    BY <2>1, <2>2, PutCapped
<1>5. ASSUME NEW lost \in BOOLEAN, Reconnect(lost)
      PROVE  Capped'
  <2>1. /\ UNCHANGED <<registry, db, feed, aggregate, last, current>>
        /\ \A n \in Nodes : bucket'[n] = bucket[n] \/ bucket'[n] = None
    BY <1>5 DEF Reconnect, agent
  <2>2. \A n \in Nodes : Travelling(n)' \subseteq Travelling(n)
    BY <2>1 DEF Travelling
  <2>3. \A n \in Nodes : Cap(n)' = Cap(n) /\ Recorded(n)' = Recorded(n)
    BY <2>1 DEF Cap, Recorded
  <2> QED
    BY <2>2, <2>3 DEF Capped
<1>6. ASSUME NEW ok \in BOOLEAN,
             \/ RestoreSnapshots \/ Restore(ok) \/ ResyncEnds(ok)
             \/ \E done \in Calls : SetupEndpoints(done)
      PROVE  Same
  BY <1>6 DEF Restore, RestoreSnapshots, SetupEndpoints, ResyncEnds, nats, agent
<1>7. ASSUME NEW m \in Nodes, Node(m)
      PROVE  Capped'
  <2>1. ASSUME NEW ok \in BOOLEAN, ReportEvent(m, ok) \/ ResyncRead(m, ok) \/ ResyncReport(m, ok)
        PROVE  Same
    BY <2>1 DEF ReportEvent, ResyncRead, ResyncReport, control, nats, agent
  <2>2. ASSUME NEW ok \in BOOLEAN,
               \/ WatchStarts(m) \/ WatchCloses(m) \/ WatchDelivers(m) \/ NodeRestarts(m)
               \/ (m \in PEs /\ (FanOut(m) \/ ResyncTick(m))) \/ Reconcile(m, ok)
        PROVE  Capped'
    <3>1. \A n \in Nodes : Travelling(n)' \subseteq Travelling(n) /\ UNCHANGED <<registry, db>>
      BY <2>2, NodeTravelling
    <3>2. \A n \in Nodes : Cap(n)' = Cap(n) /\ Recorded(n)' = Recorded(n)
      BY <3>1 DEF Cap, Recorded
    <3> QED
      BY <3>1, <3>2 DEF Capped
  <2> QED
    BY <1>1, <1>2, <1>7, <2>1, <2>2 DEF Node
<1>8. ASSUME NEW c \in CPEs, NEW downFirst \in BOOLEAN, TunnelUp(c, downFirst)
      PROVE  Same
  BY <1>8 DEF TunnelUp, control, nats, agent
<1>9. CASE Writes
  BY <1>1, <1>2, <1>3, <1>4, <1>6, <1>9 DEF Writes
<1>10. CASE Controller
  BY <1>1, <1>2, <1>5, <1>6, <1>10 DEF Controller
<1> QED
  BY <1>1, <1>7, <1>8, <1>9, <1>10 DEF Next

\* So no node is ahead of the registry.
THEOREM RegistryIsNeverBehind == Spec => []NodesNeverAhead
<1>1. Init => Capped
  <2> SUFFICES ASSUME Init, NEW n \in Nodes
               PROVE  /\ Cap(n) <= Recorded(n) + 1
                      /\ \A i \in Travelling(n) : i.version <= Cap(n)
    BY DEF Capped
  <2>1. registry[n] = None /\ db[n] = None /\ bucket[n] = None /\ current[n] = None /\ feed[n] = <<>>
    BY DEF Init
  <2>2. n \in PEs => last[n] = None /\ aggregate[n] = <<>>
    BY DEF Init
  <2>3. Elements(<<>>) = {}
    BY SMT DEF Elements
  <2>4. Travelling(n) = {}
    BY <2>1, <2>2, <2>3 DEF Travelling
  <2> QED
    BY <2>1, <2>4, SMT DEF Cap, Recorded
<1>2. IInv /\ NodesInv /\ IInv' /\ NodesInv' /\ Capped /\ [Next]_vars => Capped'
  <2>1. Capped /\ UNCHANGED vars => Capped'
    BY DEF Capped, Cap, Recorded, Travelling, vars, control, nats, agent
  <2> QED
    BY <2>1, CappedStep
<1>3. Capped => NodesNeverAhead
  BY DEF Capped, NodesNeverAhead, Cap, Travelling
<1> QED
  BY <1>1, <1>2, <1>3, IntentSyncInvariant, NodesInvariant, PTL DEF Spec

-----------------------------------------------------------------------------
Tunnel(c) == [portal |-> c, ifid |-> sa[c]]

\* The sequence names the portal c; the last update of c in it is u.
Names(s, c) == \E k \in DOMAIN s : s[k].portal = c
LastOf(s, c, u) ==
    \E k \in DOMAIN s : s[k] = u /\ \A j \in DOMAIN s : j > k => s[j].portal # c

\* The last tunnel of a portal is the last update of the portal the control
\* plane has to handle, or it is in the registry and no older update is there
\* to replace it.
Arrived(c) ==
    \/ LastOf(inbox["pe"], c, Tunnel(c))
    \/ /\ ~Names(inbox["pe"], c)
       /\ registry[Attach[c]] # None /\ registry[Attach[c]].body.ifid[c] = sa[c]

\* Or it is an event the agent has to report, or in a request to report the
\* tunnels it has still to read or to answer.
Way(c) ==
    \/ Names(events[Attach[c]], c) \/ resync[Attach[c]].asked
    \/ Tunnel(c) \in resync[Attach[c]].todo
    \/ Arrived(c)

\* A tunnel is on its way to the intent of its PE, or there, unless its report
\* went wrong, however the events, the resync and the commits of other updates
\* interleave.  This is what TunnelsReachIntents needs beside the fairness of
\* the steps.
OnTheWay ==
    \A c \in CPEs : Listening /\ sa[c] > 0 /\ ~missed[c] => Way(c)

\* An agent that does not run has nothing to report, and one that does reports
\* the tunnels of the portals attached to it, the last event of each being of
\* its last tunnel.
Reports ==
    /\ missed \in [CPEs -> BOOLEAN]
    /\ \A n \in Nodes : ~up[n] => events[n] = <<>> /\ resync[n] = NoResync
    /\ \A n \in PEs : /\ \A k \in DOMAIN events[n] : Attach[events[n][k].portal] = n
                      /\ \A u \in resync[n].todo : Attach[u.portal] = n
    /\ \A c \in CPEs : Names(events[Attach[c]], c) => LastOf(events[Attach[c]], c, Tunnel(c))

TunnelInv == Reports /\ OnTheWay

\* The empty sequence names no portal.
LEMMA NoneNamed == \A c : ~Names(<<>>, c)
BY SMT DEF Names

\* The last update of a portal after one is appended.
LEMMA AppendUpdate ==
    ASSUME NEW s \in Seq(Updates), NEW u \in Updates, NEW c
    PROVE  /\ Names(Append(s, u), c) <=> (Names(s, c) \/ u.portal = c)
           /\ u.portal = c => LastOf(Append(s, u), c, u)
           /\ \A v : u.portal # c /\ LastOf(s, c, v) => LastOf(Append(s, u), c, v)
<1> DEFINE t == Append(s, u)
<1>1. /\ t \in Seq(Updates) /\ Len(t) = Len(s) + 1
      /\ \A k \in 1 .. Len(s) : t[k] = s[k]
      /\ t[Len(s) + 1] = u
  BY AppendProperties, SMT
<1>2. DOMAIN t = 1 .. Len(s) + 1 /\ DOMAIN s = 1 .. Len(s) /\ Len(s) \in Nat
  BY <1>1, LenProperties
<1> HIDE DEF t
<1>3. Names(t, c) <=> (Names(s, c) \/ u.portal = c)
  BY <1>1, <1>2, SMT DEF Names
<1>4. ASSUME u.portal = c  PROVE  LastOf(t, c, u)
  <2>1. Len(s) + 1 \in DOMAIN t /\ \A j \in DOMAIN t : ~(j > Len(s) + 1)
    BY <1>2, SMT
  <2> QED
    BY <1>1, <2>1 DEF LastOf
<1>5. ASSUME NEW v, u.portal # c, LastOf(s, c, v)  PROVE  LastOf(t, c, v)
  <2>1. PICK k \in DOMAIN s : s[k] = v /\ \A j \in DOMAIN s : j > k => s[j].portal # c
    BY <1>5 DEF LastOf
  <2>2. k \in DOMAIN t /\ t[k] = v
    BY <1>1, <1>2, <2>1, SMT
  <2>3. ASSUME NEW j \in DOMAIN t, j > k  PROVE  t[j].portal # c
    <3>1. CASE j = Len(s) + 1
      BY <1>1, <1>5, <3>1
    <3>2. CASE j # Len(s) + 1
      <4>1. j \in DOMAIN s /\ t[j] = s[j]
        BY <1>1, <1>2, <3>2, SMT
      <4> QED
        BY <2>1, <2>3, <4>1
    <3> QED
      BY <3>1, <3>2
  <2> QED
    BY <2>2, <2>3 DEF LastOf
<1> QED
  BY <1>3, <1>4, <1>5 DEF t

\* The last update of a portal after the first is taken.
LEMMA TailUpdate ==
    ASSUME NEW s \in Seq(Updates), s # <<>>, NEW c
    PROVE  /\ Names(Tail(s), c) => Names(s, c)
           /\ Head(s).portal = c => Names(s, c)
           /\ Names(s, c) /\ Head(s).portal # c => Names(Tail(s), c)
           /\ \A v : LastOf(s, c, v) => \/ Head(s) = v /\ ~Names(Tail(s), c)
                                        \/ LastOf(Tail(s), c, v)
<1> DEFINE t == Tail(s)
<1>1. /\ t \in Seq(Updates) /\ Len(t) = Len(s) - 1
      /\ \A k \in 1 .. Len(t) : t[k] = s[k + 1]
  BY HeadTailProperties
<1>2. Len(s) \in Nat \ {0} /\ Head(s) = s[1] /\ DOMAIN s = 1 .. Len(s) /\ DOMAIN t = 1 .. Len(s) - 1
  BY <1>1, LenProperties, SMT
<1> HIDE DEF t
<1>3. \A k \in DOMAIN s : k = 1 \/ (k - 1 \in DOMAIN t /\ t[k - 1] = s[k])
  BY <1>1, <1>2, SMT
<1>4. \A k \in DOMAIN t : k + 1 \in DOMAIN s /\ k + 1 > 1 /\ t[k] = s[k + 1]
  BY <1>1, <1>2, SMT
<1>5. Names(t, c) => Names(s, c)
  BY <1>4 DEF Names
<1>6. Head(s).portal = c => Names(s, c)
  BY <1>2, SMT DEF Names
<1>7. Names(s, c) /\ Head(s).portal # c => Names(t, c)
  BY <1>2, <1>3 DEF Names
<1>8. ASSUME NEW v, LastOf(s, c, v)
      PROVE  (Head(s) = v /\ ~Names(t, c)) \/ LastOf(t, c, v)
  <2>1. PICK k \in DOMAIN s : s[k] = v /\ \A j \in DOMAIN s : j > k => s[j].portal # c
    BY <1>8 DEF LastOf
  <2>2. CASE k = 1
    BY <1>2, <1>4, <2>1, <2>2 DEF Names
  <2>3. CASE k # 1
    <3>1. k - 1 \in DOMAIN t /\ t[k - 1] = v
      BY <1>3, <2>1, <2>3
    <3>2. ASSUME NEW j \in DOMAIN t, j > k - 1  PROVE  t[j].portal # c
      <4>1. j + 1 \in DOMAIN s /\ j + 1 > k /\ t[j] = s[j + 1]
        BY <1>2, <1>4, <3>2, SMT
      <4> QED
        BY <2>1, <4>1
    <3> QED
      BY <3>1, <3>2 DEF LastOf
  <2> QED
    BY <2>2, <2>3
<1> QED
  BY <1>5, <1>6, <1>7, <1>8 DEF t

\* A sequence that has a last update of a portal names it.
LEMMA LastOfNames ==
    ASSUME NEW s, NEW c, NEW u, u.portal = c, LastOf(s, c, u)
    PROVE  Names(s, c)
BY DEF LastOf, Names
\* The types the lemmas below use.
LEMMA TunnelTypes ==
    ASSUME IInv
    PROVE  /\ \A n \in Nodes : /\ events[n] \in Seq(Updates) /\ resync[n].todo \subseteq Updates
                               /\ resync[n] = [todo |-> resync[n].todo, asked |-> resync[n].asked]
           /\ events \in [Nodes -> Seq(Updates)] /\ sa \in [CPEs -> Nat]
           /\ resync \in [Nodes -> [todo : SUBSET Updates, asked : BOOLEAN]]
           /\ inbox \in [{"pe", "cpe"} -> Seq(Updates)] /\ inbox["pe"] \in Seq(Updates)
           /\ \A c \in CPEs : Tunnel(c) \in Updates /\ Tunnel(c).portal = c /\ Tunnel(c).ifid = sa[c]
<1>1. /\ events \in [Nodes -> Seq(Updates)] /\ sa \in [CPEs -> Nat]
      /\ resync \in [Nodes -> [todo : SUBSET Updates, asked : BOOLEAN]]
      /\ inbox \in [{"pe", "cpe"} -> Seq(Updates)] /\ inbox["pe"] \in Seq(Updates)
  BY DEF IInv, ControlTypes
<1>2. \A c \in CPEs : Tunnel(c) \in Updates /\ Tunnel(c).portal = c /\ Tunnel(c).ifid = sa[c]
  BY <1>1 DEF Tunnel, Updates
<1> QED
  BY <1>1, <1>2

\* Steps that touch no event and no request, and stop no node.
LEMMA ReportsFrame ==
    ASSUME Reports, UNCHANGED <<events, resync, sa>>, missed' \in [CPEs -> BOOLEAN],
           \A n \in Nodes : up[n] => up'[n]
    PROVE  Reports'
BY DEF Reports, Tunnel

\* Steps that leave a portal's updates, and the tunnel in an entry of its PE.
LEMMA WayFrame ==
    ASSUME NEW c \in CPEs, Way(c), events'[Attach[c]] = events[Attach[c]],
           resync'[Attach[c]] = resync[Attach[c]], inbox'["pe"] = inbox["pe"], sa'[c] = sa[c],
           registry[Attach[c]] # None =>
               /\ registry'[Attach[c]] # None
               /\ registry'[Attach[c]].body.ifid[c] = registry[Attach[c]].body.ifid[c]
    PROVE  Way(c)'
BY DEF Way, Arrived, Tunnel

\* The steps that leave the updates and the registry's entries of the PEs.
LEMMA TunnelFrame ==
    ASSUME TunnelInv, Listening' => Listening, UNCHANGED <<events, resync, sa, missed>>,
           inbox'["pe"] = inbox["pe"], \A n \in Nodes : up[n] => up'[n],
           \A n \in PEs : registry'[n] = registry[n]
    PROVE  TunnelInv'
<1>1. Reports'
  BY ReportsFrame DEF TunnelInv, Reports
<1>2. ASSUME NEW c \in CPEs, Listening', sa'[c] > 0, ~missed'[c]
      PROVE  Way(c)'
  <2>1. Way(c) /\ registry'[Attach[c]] = registry[Attach[c]]
    BY <1>2, NodeFacts DEF TunnelInv, OnTheWay
  <2> QED
    BY <2>1, WayFrame
<1> QED
  BY <1>1, <1>2 DEF TunnelInv, OnTheWay

\* A commit replaces the bodies it staged.
LEMMA MutateBody ==
    ASSUME IInv, NEW w, NEW S \in SUBSET Nodes, NEW body, Mutate(w, S, body), NEW n \in Nodes
    PROVE  /\ n \in S /\ body[n] \in Bodies => registry'[n] # None /\ registry'[n].body = body[n]
           /\ n \notin S => registry'[n] = registry[n]
<1>1. CASE n \notin S
  BY <1>1 DEF Mutate
<1>2. CASE n \in S /\ body[n] \in Bodies
  <2> DEFINE e == GetOrCreate(n)
  <2>1. e \in Intents
    BY GetOrCreateTypes DEF IInv
  <2>2. registry'[n] = [e EXCEPT !.body = body[n], !.generation = @ + 1]
    BY <1>2 DEF Mutate
  <2> HIDE DEF e
  <2>3. registry'[n] = [node |-> e.node, version |-> e.version, generation |-> e.generation + 1,
                        body |-> body[n]]
    BY <2>1, <2>2 DEF Intents
  <2>4. registry'[n] \in Intents /\ registry'[n].body = body[n]
    BY <1>2, <2>1, <2>3, SMT DEF Intents
  <2> QED
    BY <1>2, <2>4, NodeFacts
<1> QED
  BY <1>1, <1>2

\* The dispatcher stages paths, and no tunnel.
LEMMA DispatchTunnel ==
    ASSUME IInv, TunnelInv, NEW S \in SUBSET PEs, NEW staged \in SUBSET S, Dispatch(S, staged)
    PROVE  TunnelInv'
<1> DEFINE k == dispatches'
           body == [n \in S |-> StageSIDSegsForTenantOnNode(GetOrCreate(n).body, k, n \in staged)]
<1>1. /\ UNCHANGED <<cp, events, resync, sa, missed, inbox, up>> /\ Mutate("dispatcher", S, body)
      /\ dispatches' = dispatches + 1
  BY DEF Dispatch, tunnels, agent
<1>2. k \in Nat /\ S \in SUBSET Nodes
  BY <1>1, NodeFacts, SMT DEF IInv, ControlTypes
<1> HIDE DEF k
<1>3. Reports'
  BY <1>1, ReportsFrame DEF TunnelInv, Reports
<1>4. ASSUME NEW c \in CPEs, Listening', sa'[c] > 0, ~missed'[c]
      PROVE  Way(c)'
  <2> DEFINE n == Attach[c]
             b == GetOrCreate(n).body
  <2>1. Way(c) /\ n \in Nodes
    BY <1>1, <1>4, NodeFacts DEF TunnelInv, OnTheWay, Listening
  <2>2. b \in Bodies /\ (registry[n] # None => b = registry[n].body)
    BY <2>1, GetOrCreateTypes DEF IInv, GetOrCreate
  <2> HIDE DEF b
  <2>3. /\ StageSIDSegsForTenantOnNode(b, k, n \in staged) \in Bodies
        /\ StageSIDSegsForTenantOnNode(b, k, n \in staged).ifid = b.ifid
    BY <1>2, <2>2 DEF Bodies, StageSIDSegsForTenantOnNode, getOrCreateTenantIntentForPE
  <2>4. n \in S => body[n] = StageSIDSegsForTenantOnNode(b, k, n \in staged)
    BY DEF b
  <2> HIDE DEF body, n
  <2>5. registry[n] # None =>
            registry'[n] # None /\ registry'[n].body.ifid[c] = registry[n].body.ifid[c]
    <3> SUFFICES ASSUME registry[n] # None
                 PROVE  /\ registry'[n] # None
                        /\ registry'[n].body.ifid[c] = registry[n].body.ifid[c]
      OBVIOUS
    <3>1. n \in S => body[n] \in Bodies /\ body[n].ifid[c] = registry[n].body.ifid[c]
      BY <2>2, <2>3, <2>4
    <3> QED
      BY <1>1, <1>2, <2>1, <3>1, MutateBody, SMT
  <2> QED
    BY <1>1, <2>1, <2>5, WayFrame DEF n
<1> QED
  BY <1>3, <1>4 DEF TunnelInv, OnTheWay

\* The control plane handles the update of a portal.
LEMMA HandlePETunnel ==
    ASSUME IInv, TunnelInv, NEW ok \in BOOLEAN, HandlePETunnelUpdate(ok)
    PROVE  TunnelInv'
<1> DEFINE m == Head(inbox["pe"])
           p == Attach[m.portal]
           body == [x \in {p} |-> StagePortalIntentForNode(GetOrCreate(p).body, m.portal, m.ifid, ok)]
<1>1. /\ inbox["pe"] # <<>> /\ Mutate("pe", {p}, body)
      /\ inbox' = [inbox EXCEPT !["pe"] = Tail(@)]
      /\ missed' = [missed EXCEPT ![m.portal] = @ \/ (~ok /\ m.ifid = sa[m.portal])]
      /\ UNCHANGED <<cp, sa, events, resync, up>>
  BY DEF HandlePETunnelUpdate, agent
<1>2. /\ m.portal \in CPEs /\ m.ifid \in Nat /\ p \in Nodes /\ {p} \in SUBSET Nodes
      /\ inbox'["pe"] = Tail(inbox["pe"])
  BY <1>1, InboxFacts, NodeFacts, TunnelTypes, ZenonT(40)
<1>3. GetOrCreate(p).body \in Bodies
  BY <1>2, GetOrCreateTypes DEF IInv
<1>4. /\ body[p] \in Bodies /\ (ok => body[p].ifid[m.portal] = m.ifid)
      /\ \A c \in CPEs \ {m.portal} : body[p].ifid[c] = GetOrCreate(p).body.ifid[c]
  BY <1>2, <1>3 DEF Bodies, StagePortalIntentForNode, getOrCreateTenantIntentForPE
<1> HIDE DEF body, p, m
<1>5. /\ registry'[p] # None /\ registry'[p].body = body[p]
      /\ \A n \in Nodes \ {p} : registry'[n] = registry[n]
  <2>1. Mutate("pe", {p}, body) /\ {p} \in SUBSET Nodes /\ p \in {p} /\ p \in Nodes
    BY <1>1, <1>2
  <2>2. body[p] \in Bodies
    BY <1>4
  <2> QED
    BY <2>1, <2>2, MutateBody, SMT
<1>6. /\ missed' \in [CPEs -> BOOLEAN] /\ \A c \in CPEs : missed[c] => missed'[c]
      /\ ~ok /\ m.ifid = sa[m.portal] => missed'[m.portal]
  <2>1. missed \in [CPEs -> BOOLEAN]
    BY DEF TunnelInv, Reports
  <2>2. (m.ifid = sa[m.portal]) \in BOOLEAN
    OBVIOUS
  <2> QED
    BY <1>1, <1>2, <2>1, <2>2
<1>7. Reports'
  BY <1>1, <1>6, ReportsFrame DEF TunnelInv
<1>8. ASSUME NEW c \in CPEs, Listening', sa'[c] > 0, ~missed'[c]
      PROVE  Way(c)'
  <2> DEFINE n == Attach[c]
             s == inbox["pe"]
  <2>1. Way(c) /\ n \in Nodes
    BY <1>1, <1>6, <1>8, NodeFacts DEF TunnelInv, OnTheWay, Listening
  <2>2. s \in Seq(Updates) /\ s # <<>> /\ inbox'["pe"] = Tail(s) /\ m = Head(s)
    BY <1>1, <1>2, TunnelTypes DEF m
  <2>3. Tunnel(c)' = Tunnel(c) /\ sa'[c] = sa[c] /\ Tunnel(c).ifid = sa[c] /\ Tunnel(c).portal = c
    BY <1>1, TunnelTypes DEF Tunnel
  <2>4. CASE Names(events[n], c) \/ resync[n].asked \/ Tunnel(c) \in resync[n].todo
    BY <1>1, <2>3, <2>4 DEF Way, Arrived
  <2>5. CASE LastOf(s, c, Tunnel(c))
    <3>1. CASE LastOf(Tail(s), c, Tunnel(c))
      BY <2>2, <2>3, <3>1 DEF Way, Arrived
    <3>2. CASE m = Tunnel(c) /\ ~Names(Tail(s), c)
      <4>1. m.portal = c /\ m.ifid = sa[c] /\ n = p
        BY <2>3, <3>2 DEF p
      <4>2. ok
        BY <1>6, <1>8, <4>1
      <4>3. body[p].ifid[c] = sa[c]
        BY <1>4, <4>1, <4>2
      <4>4. registry'[n] # None /\ registry'[n].body.ifid[c] = sa[c]
        BY <1>5, <4>1, <4>3
      <4> QED
        BY <2>2, <2>3, <3>2, <4>4 DEF Way, Arrived
    <3> QED
      BY <2>2, <2>5, <3>1, <3>2, TailUpdate
  <2>6. CASE ~Names(s, c) /\ registry[n] # None /\ registry[n].body.ifid[c] = sa[c]
    <3>1. m.portal # c /\ ~Names(Tail(s), c)
      BY <2>2, <2>6, TailUpdate
    <3>2. n = p => body[p].ifid[c] = sa[c]
      BY <1>4, <2>6, <3>1 DEF GetOrCreate
    <3>3. registry'[n] # None /\ registry'[n].body.ifid[c] = sa[c]
      BY <1>5, <2>1, <2>6, <3>2
    <3> QED
      BY <2>2, <2>3, <3>1, <3>3 DEF Way, Arrived
  <2> QED
    BY <2>1, <2>4, <2>5, <2>6 DEF Way, Arrived
<1> QED
  BY <1>7, <1>8 DEF TunnelInv, OnTheWay
\* A request to the control plane: the tunnel arrives with it, or that of
\* another portal stays where it was.
LEMMA RequestArrives ==
    ASSUME IInv, NEW c \in CPEs, NEW u \in Updates, UNCHANGED <<sa, registry>>,
           inbox'["pe"] = inbox["pe"] \/ inbox'["pe"] = Append(inbox["pe"], u)
    PROVE  /\ u.portal # c /\ Arrived(c) => Arrived(c)'
           /\ u = Tunnel(c) /\ inbox'["pe"] = Append(inbox["pe"], u) => Arrived(c)'
<1>1. Tunnel(c)' = Tunnel(c) /\ Tunnel(c).portal = c /\ inbox["pe"] \in Seq(Updates)
  BY TunnelTypes, SMT DEF Tunnel
<1>2. ASSUME inbox'["pe"] = Append(inbox["pe"], u)
      PROVE  /\ u.portal # c /\ Arrived(c) => Arrived(c)'
             /\ u = Tunnel(c) => Arrived(c)'
  BY <1>1, <1>2, AppendUpdate, SMT DEF Arrived
<1>3. inbox'["pe"] = inbox["pe"] /\ Arrived(c) => Arrived(c)'
  BY <1>1 DEF Arrived
<1> QED
  BY <1>2, <1>3

\* Where the request of a node goes.
LEMMA RequestInbox ==
    ASSUME IInv, NEW n \in Nodes, NEW u \in Updates, NEW ok \in BOOLEAN, Request(n, u, ok)
    PROVE  /\ n \in PEs /\ ok /\ Listening => inbox'["pe"] = Append(inbox["pe"], u)
           /\ n \in PEs /\ ~(ok /\ Listening) => inbox'["pe"] = inbox["pe"]
           /\ n \notin PEs => inbox'["pe"] = inbox["pe"]
BY TunnelTypes DEF Request, sendPETunnelUpdate, sendCPETunnelUpdate

\* An agent reports the event of a tunnel, a portal one of its own.
LEMMA ReportEventTunnel ==
    ASSUME IInv, TunnelInv, NEW n \in Nodes, NEW ok \in BOOLEAN, ReportEvent(n, ok)
    PROVE  TunnelInv'
<1> DEFINE s == events[n]
           m == Head(s)
<1>1. /\ s # <<>> /\ Request(n, m, ok)
      /\ missed' = [missed EXCEPT ![m.portal] =
                      @ \/ (n \in PEs /\ ~(ok /\ Listening) /\ m.ifid = sa[m.portal])]
      /\ events' = [events EXCEPT ![n] = Tail(s)]
      /\ UNCHANGED <<cp, registry, sa, resync, up>>
  BY DEF ReportEvent, agent
<1>2. s \in Seq(Updates) /\ m \in Updates /\ m.portal \in CPEs /\ events \in [Nodes -> Seq(Updates)]
  <2>1. s \in Seq(Updates) /\ m \in Updates /\ events \in [Nodes -> Seq(Updates)]
    BY <1>1, TunnelTypes, HeadTailProperties
  <2> QED
    BY <2>1 DEF Updates
<1>3. events'[n] = Tail(s) /\ \A x \in Nodes \ {n} : events'[x] = events[x]
  BY <1>1, <1>2
<1>4. n \in PEs => Attach[m.portal] = n
  <2>1. 1 \in DOMAIN s /\ m = s[1]
    BY <1>1, <1>2, LenProperties, SMT
  <2> QED
    BY <2>1, SMT DEF TunnelInv, Reports
<1>5. \A c \in CPEs : Tunnel(c)' = Tunnel(c) /\ Attach[c] \in PEs /\ Attach[c] \in Nodes
  BY <1>1, NodeFacts DEF Tunnel
<1> HIDE DEF m
<1>6. /\ missed' \in [CPEs -> BOOLEAN] /\ \A c \in CPEs : missed[c] => missed'[c]
      /\ n \in PEs /\ ~(ok /\ Listening) /\ m.ifid = sa[m.portal] => missed'[m.portal]
  <2>1. missed \in [CPEs -> BOOLEAN]
    BY DEF TunnelInv, Reports
  <2>2. (n \in PEs /\ ~(ok /\ Listening) /\ m.ifid = sa[m.portal]) \in BOOLEAN
    OBVIOUS
  <2> QED
    BY <1>1, <1>2, <2>1, <2>2
<1>7. Reports'
  <2>1. \A x \in Nodes : ~up'[x] => events'[x] = <<>> /\ resync'[x] = NoResync
    BY <1>1, <1>3 DEF TunnelInv, Reports
  <2>2. ASSUME NEW x \in PEs
        PROVE  \A k \in DOMAIN events'[x] : Attach[events'[x][k].portal] = x
    <3>1. CASE x # n
      BY <1>3, <3>1, NodeFacts DEF TunnelInv, Reports
    <3>2. CASE x = n
      <4>1. \A k \in DOMAIN s : Attach[s[k].portal] = x
        BY <3>2 DEF TunnelInv, Reports
      <4>2. \A k \in DOMAIN Tail(s) : k + 1 \in DOMAIN s /\ Tail(s)[k] = s[k + 1]
        <5>1. /\ Tail(s) \in Seq(Updates) /\ Len(Tail(s)) = Len(s) - 1
              /\ \A k \in 1 .. Len(Tail(s)) : Tail(s)[k] = s[k + 1]
          BY <1>1, <1>2, HeadTailProperties
        <5>2. DOMAIN s = 1 .. Len(s) /\ DOMAIN Tail(s) = 1 .. Len(Tail(s)) /\ Len(s) \in Nat
          BY <1>2, <5>1, LenProperties
        <5> QED
          BY <5>1, <5>2, SMT
      <4>3. \A k \in DOMAIN Tail(s) : Attach[Tail(s)[k].portal] = x
        BY <4>1, <4>2, SMT
      <4> QED
        BY <1>3, <3>2, <4>3
    <3> QED
      BY <3>1, <3>2
  <2>3. \A x \in PEs : \A u \in resync'[x].todo : Attach[u.portal] = x
    BY <1>1 DEF TunnelInv, Reports
  <2>4. ASSUME NEW c \in CPEs, Names(events'[Attach[c]], c)
        PROVE  LastOf(events'[Attach[c]], c, Tunnel(c)')
    <3>1. CASE Attach[c] # n
      BY <1>3, <1>5, <2>4, <3>1 DEF TunnelInv, Reports
    <3>2. CASE Attach[c] = n
      <4>1. Names(Tail(s), c) /\ Names(s, c)
        BY <1>1, <1>2, <1>3, <2>4, <3>2, TailUpdate
      <4>2. LastOf(s, c, Tunnel(c))
        BY <3>2, <4>1 DEF TunnelInv, Reports
      <4>3. LastOf(Tail(s), c, Tunnel(c))
        BY <1>1, <1>2, <4>1, <4>2, TailUpdate
      <4> QED
        BY <1>3, <1>5, <3>2, <4>3
    <3> QED
      BY <3>1, <3>2
  <2> QED
    BY <1>6, <2>1, <2>2, <2>3, <2>4 DEF Reports
<1>8. ASSUME NEW c \in CPEs, Listening', sa'[c] > 0, ~missed'[c]
      PROVE  Way(c)'
  <2>1. Way(c) /\ Tunnel(c).portal = c /\ Tunnel(c).ifid = sa[c]
    BY <1>1, <1>6, <1>8, TunnelTypes DEF TunnelInv, OnTheWay, Listening
  <2>2. inbox'["pe"] = inbox["pe"] \/ inbox'["pe"] = Append(inbox["pe"], m)
    BY <1>1, <1>2, RequestInbox
  <2>3. CASE n \notin PEs
    <3>1. inbox'["pe"] = inbox["pe"] /\ events'[Attach[c]] = events[Attach[c]]
      BY <1>1, <1>2, <1>3, <1>5, <2>3, RequestInbox, SMT
    <3> QED
      BY <1>1, <2>1, <3>1, WayFrame
  <2>4. CASE n \in PEs /\ m.portal # c
    <3>1. Arrived(c) => Arrived(c)'
      BY <1>1, <1>2, <2>2, <2>4, RequestArrives
    <3>2. Names(events[Attach[c]], c) => Names(events'[Attach[c]], c)
      BY <1>1, <1>2, <1>3, <1>5, <2>4, TailUpdate DEF m
    <3> QED
      BY <1>1, <1>5, <2>1, <3>1, <3>2 DEF Way
  <2>5. CASE n \in PEs /\ m.portal = c
    <3>1. Attach[c] = n /\ Names(s, c)
      BY <1>1, <1>2, <1>4, <2>5, TailUpdate, SMT DEF m
    <3>2. LastOf(s, c, Tunnel(c))
      BY <3>1 DEF TunnelInv, Reports
    <3>3. CASE LastOf(Tail(s), c, Tunnel(c))
      BY <1>3, <2>1, <3>1, <3>3, LastOfNames DEF Way
    <3>4. CASE m = Tunnel(c)
      <4>1. ok /\ Listening
        BY <1>6, <1>8, <2>1, <2>5, <3>4
      <4>2. inbox'["pe"] = Append(inbox["pe"], m)
        BY <1>1, <1>2, <2>5, <4>1, RequestInbox
      <4> QED
        BY <1>1, <1>2, <3>4, <4>2, RequestArrives DEF Way
    <3> QED
      BY <1>1, <1>2, <3>2, <3>3, <3>4, TailUpdate, ZenonT(40) DEF m
  <2> QED
    BY <2>3, <2>4, <2>5
<1> QED
  BY <1>7, <1>8 DEF TunnelInv, OnTheWay
\* A tunnel comes up.
LEMMA TunnelUpTunnel ==
    ASSUME IInv, TunnelInv, NodesInv, NEW c0 \in CPEs, NEW downFirst \in BOOLEAN,
           TunnelUp(c0, downFirst)
    PROVE  TunnelInv'
<1> DEFINE u == [portal |-> c0, ifid |-> sa[c0] + 1]
           a == Attach[c0]
<1>1. /\ sa' = [sa EXCEPT ![c0] = @ + 1] /\ missed' = [missed EXCEPT ![c0] = ~up[a]]
      /\ events' = [n \in Nodes |-> WatchIKEUpdownEvents(n, c0, downFirst)]
      /\ UNCHANGED <<cp, registry, inbox, up, resync>>
  BY DEF TunnelUp, control, agent
<1>2. /\ sa \in [CPEs -> Nat] /\ sa[c0] \in Nat /\ u \in Updates /\ u.portal = c0 /\ a \in PEs
      /\ a \in Nodes /\ a # c0 /\ up \in [Nodes -> BOOLEAN] /\ missed \in [CPEs -> BOOLEAN]
  BY TunnelTypes, NodeFacts, SyncConstants, SMT DEF Updates, NodesInv, AgentTypes, TunnelInv, Reports
<1>3. /\ Tunnel(c0)' = u
      /\ \A c \in CPEs \ {c0} : Tunnel(c)' = Tunnel(c) /\ sa'[c] = sa[c] /\ missed'[c] = missed[c]
      /\ missed' \in [CPEs -> BOOLEAN] /\ missed'[c0] = ~up[a]
  BY <1>1, <1>2 DEF Tunnel
<1> HIDE DEF u
<1>4. ASSUME NEW n \in Nodes, ~up[n]  PROVE  events'[n] = <<>>
  <2>1. events[n] = <<>>
    BY <1>4 DEF TunnelInv, Reports
  <2>2. WatchIKEUpdownEvents(n, c0, downFirst) = events[n] \o <<>>
    BY <1>4 DEF WatchIKEUpdownEvents
  <2> QED
    BY <1>1, <2>1, <2>2, SMT
<1>5. up[a] => events'[a] = Append(events[a], u)
  <2>1. up[a] => events'[a] = events[a] \o <<u>>
    BY <1>1, <1>2 DEF WatchIKEUpdownEvents, u
  <2>2. events[a] \in Seq(Updates)
    BY <1>2, TunnelTypes
  <2>3. Append(events[a], u) = events[a] \o <<u>>
    BY <1>2, <2>2, SMT
  <2> QED
    BY <2>1, <2>3
<1>6. ASSUME NEW n \in PEs, n # a  PROVE  events'[n] = events[n]
  <2>1. n \in Nodes /\ n # c0 /\ events[n] \in Seq(Updates)
    BY NodeFacts, SyncConstants, TunnelTypes
  <2>2. events'[n] = events[n] \o <<>>
    BY <1>1, <1>6, <2>1 DEF WatchIKEUpdownEvents
  <2> QED
    BY <2>1, <2>2, SMT
<1>7. events[a] \in Seq(Updates) /\ (~up[a] => events[a] = <<>> /\ events'[a] = <<>>)
  BY <1>2, <1>4, TunnelTypes DEF TunnelInv, Reports
<1>8. \A c \in CPEs \ {c0} : /\ Names(events'[Attach[c]], c) <=> Names(events[Attach[c]], c)
                             /\ \A v : LastOf(events[Attach[c]], c, v) => LastOf(events'[Attach[c]], c, v)
  <2> SUFFICES ASSUME NEW c \in CPEs \ {c0}
               PROVE  /\ Names(events'[Attach[c]], c) <=> Names(events[Attach[c]], c)
                      /\ \A v : LastOf(events[Attach[c]], c, v) => LastOf(events'[Attach[c]], c, v)
    OBVIOUS
  <2>1. CASE Attach[c] # a
    BY <1>6, <2>1, NodeFacts
  <2>2. CASE Attach[c] = a /\ up[a]
    <3>1. u.portal # c /\ events'[a] = Append(events[a], u)
      BY <1>2, <1>5, <2>2
    <3>2. /\ Names(Append(events[a], u), c) <=> Names(events[a], c)
          /\ \A v : LastOf(events[a], c, v) => LastOf(Append(events[a], u), c, v)
      BY <1>2, <1>7, <3>1, AppendUpdate
    <3> QED
      BY <2>2, <3>1, <3>2
  <2>3. CASE Attach[c] = a /\ ~up[a]
    BY <1>7, <2>3
  <2> QED
    BY <2>1, <2>2, <2>3
<1>9. up[a] => Names(events'[a], c0) /\ LastOf(events'[a], c0, u)
  <2>1. Names(Append(events[a], u), c0) /\ LastOf(Append(events[a], u), c0, u)
    BY <1>2, <1>7, AppendUpdate
  <2> QED
    BY <1>5, <2>1
<1>10. Reports'
  <2>1. \A x \in Nodes : ~up'[x] => events'[x] = <<>> /\ resync'[x] = NoResync
    BY <1>1, <1>4 DEF TunnelInv, Reports
  <2>2. ASSUME NEW x \in PEs
        PROVE  \A k \in DOMAIN events'[x] : Attach[events'[x][k].portal] = x
    <3>0. \A k \in DOMAIN events[x] : Attach[events[x][k].portal] = x
      BY DEF TunnelInv, Reports
    <3>1. CASE x # a
      BY <1>6, <3>0, <3>1
    <3>2. CASE x = a /\ up[a]
      <4>1. /\ Len(Append(events[a], u)) = Len(events[a]) + 1
            /\ Append(events[a], u) \in Seq(Updates)
            /\ \A k \in 1 .. Len(events[a]) : Append(events[a], u)[k] = events[a][k]
            /\ Append(events[a], u)[Len(events[a]) + 1] = u
        BY <1>2, <1>7, AppendProperties, SMT
      <4>2. /\ DOMAIN Append(events[a], u) = 1 .. Len(events[a]) + 1
            /\ DOMAIN events[a] = 1 .. Len(events[a]) /\ Len(events[a]) \in Nat
        BY <1>7, <4>1, LenProperties
      <4>3. ASSUME NEW k \in DOMAIN Append(events[a], u)
            PROVE  Attach[Append(events[a], u)[k].portal] = a
        <5>1. CASE k = Len(events[a]) + 1
          BY <1>2, <4>1, <5>1
        <5>2. CASE k # Len(events[a]) + 1
          <6>1. k \in DOMAIN events[a] /\ Append(events[a], u)[k] = events[a][k]
            BY <4>1, <4>2, <5>2, SMT
          <6> QED
            BY <3>0, <3>2, <6>1
        <5> QED
          BY <5>1, <5>2
      <4> QED
        BY <1>5, <3>2, <4>3
    <3>3. CASE x = a /\ ~up[a]
      BY <1>7, <3>3, SMT
    <3> QED
      BY <3>1, <3>2, <3>3
  <2>3. \A x \in PEs : \A v \in resync'[x].todo : Attach[v.portal] = x
    BY <1>1 DEF TunnelInv, Reports
  <2>4. ASSUME NEW c \in CPEs, Names(events'[Attach[c]], c)
        PROVE  LastOf(events'[Attach[c]], c, Tunnel(c)')
    <3>1. CASE c # c0
      BY <1>3, <1>8, <2>4, <3>1, SMT DEF TunnelInv, Reports
    <3>2. CASE c = c0 /\ up[a]
      BY <1>3, <1>9, <3>2
    <3>3. CASE c = c0 /\ ~up[a]
      BY <1>7, <2>4, <3>3, SMT DEF Names
    <3> QED
      BY <3>1, <3>2, <3>3
  <2> QED
    BY <1>3, <2>1, <2>2, <2>3, <2>4 DEF Reports
<1>11. ASSUME NEW c \in CPEs, Listening', sa'[c] > 0, ~missed'[c]
       PROVE  Way(c)'
  <2>1. CASE c = c0
    BY <1>3, <1>9, <1>11, <2>1 DEF Way
  <2>2. CASE c # c0
    <3>1. Way(c)
      BY <1>1, <1>3, <1>11, <2>2 DEF TunnelInv, OnTheWay, Listening
    <3> QED
      BY <1>1, <1>3, <1>8, <2>2, <3>1 DEF Way, Arrived
  <2> QED
    BY <2>1, <2>2
<1> QED
  BY <1>10, <1>11 DEF TunnelInv, OnTheWay
\* A node that ends loses its reports, and those of its portals count as missed
\* when it had any.
LEMMA RestartTunnel ==
    ASSUME IInv, TunnelInv, NEW n \in Nodes, NodeRestarts(n)
    PROVE  TunnelInv'
<1>1. /\ events' = [events EXCEPT ![n] = <<>>] /\ resync' = [resync EXCEPT ![n] = NoResync]
      /\ missed' = [c \in CPEs |-> missed[c] \/ (Attach[c] = n /\ Reporting(n))]
      /\ up' = [up EXCEPT ![n] = FALSE] /\ UNCHANGED <<cp, registry, inbox, sa>>
  BY DEF NodeRestarts, control
<1>2. /\ events'[n] = <<>> /\ resync'[n] = NoResync
      /\ \A x \in Nodes \ {n} : events'[x] = events[x] /\ resync'[x] = resync[x] /\ up'[x] = up[x]
  BY <1>1, TunnelTypes, SMT
<1>3. /\ missed' \in [CPEs -> BOOLEAN] /\ \A c \in CPEs : missed[c] => missed'[c]
      /\ \A c \in CPEs : Attach[c] = n /\ Reporting(n) => missed'[c]
  <2>1. missed \in [CPEs -> BOOLEAN]
    BY DEF TunnelInv, Reports
  <2>2. Reporting(n) \in BOOLEAN
    BY DEF Reporting
  <2> QED
    BY <1>1, <2>1, <2>2
<1>4. \A c \in CPEs : Tunnel(c)' = Tunnel(c) /\ Attach[c] \in PEs /\ Attach[c] \in Nodes
  BY <1>1, NodeFacts DEF Tunnel
<1>5. \A c : ~Names(<<>>, c)
  BY NoneNamed
<1>6. Reports'
  <2>1. \A x \in Nodes : ~up'[x] => events'[x] = <<>> /\ resync'[x] = NoResync
    BY <1>2, SMT DEF TunnelInv, Reports
  <2>2. \A x \in PEs : \A k \in DOMAIN events'[x] : Attach[events'[x][k].portal] = x
    BY <1>2, NodeFacts, SMT DEF TunnelInv, Reports
  <2>3. \A x \in PEs : \A u \in resync'[x].todo : Attach[u.portal] = x
    BY <1>2, NodeFacts, SMT DEF TunnelInv, Reports, NoResync
  <2>4. \A c \in CPEs : Names(events'[Attach[c]], c) => LastOf(events'[Attach[c]], c, Tunnel(c)')
    BY <1>2, <1>4, <1>5, SMT DEF TunnelInv, Reports
  <2> QED
    BY <1>3, <2>1, <2>2, <2>3, <2>4 DEF Reports
<1>7. ASSUME NEW c \in CPEs, Listening', sa'[c] > 0, ~missed'[c]
      PROVE  Way(c)'
  <2>1. Way(c)
    BY <1>1, <1>3, <1>7 DEF TunnelInv, OnTheWay, Listening
  <2>2. CASE Attach[c] # n
    BY <1>1, <1>2, <1>4, <2>1, <2>2, WayFrame
  <2>3. CASE Attach[c] = n
    <3>1. events[n] = <<>> /\ resync[n] = NoResync
      BY <1>3, <1>7, <2>3 DEF Reporting
    <3>2. ~Names(events[n], c) /\ ~resync[n].asked /\ resync[n].todo = {}
      BY <1>5, <3>1, SMT DEF NoResync
    <3>3. Arrived(c)
      BY <2>1, <2>3, <3>2 DEF Way
    <3> QED
      BY <1>1, <1>4, <3>3 DEF Way, Arrived
  <2> QED
    BY <2>2, <2>3
<1> QED
  BY <1>6, <1>7 DEF TunnelInv, OnTheWay

\* A node answers a request to report its tunnels with those it has now.
LEMMA ResyncReadTunnel ==
    ASSUME IInv, TunnelInv, NEW n \in Nodes, NEW ok \in BOOLEAN, ResyncRead(n, ok)
    PROVE  TunnelInv'
<1> DEFINE todo == IF ok THEN GetSAs(n) ELSE {}
<1>1. /\ resync[n].asked /\ resync[n].todo = {}
      /\ resync' = [resync EXCEPT ![n] = [asked |-> FALSE, todo |-> todo]]
      /\ missed' = [c \in CPEs |-> missed[c] \/ (~ok /\ Attach[c] = n)]
      /\ UNCHANGED <<cp, registry, inbox, sa, events, up>>
  BY DEF ResyncRead, control, agent
<1>2. resync'[n].todo = todo /\ \A x \in Nodes \ {n} : resync'[x] = resync[x]
  BY <1>1, TunnelTypes
<1>3. /\ missed' \in [CPEs -> BOOLEAN] /\ \A c \in CPEs : missed[c] => missed'[c]
      /\ \A c \in CPEs : ~ok /\ Attach[c] = n => missed'[c]
  <2>1. missed \in [CPEs -> BOOLEAN]
    BY DEF TunnelInv, Reports
  <2> QED
    BY <1>1, <2>1
<1>4. \A c \in CPEs : /\ Tunnel(c)' = Tunnel(c) /\ Attach[c] \in PEs /\ Attach[c] \in Nodes
                      /\ sa'[c] = sa[c]
  BY <1>1, NodeFacts DEF Tunnel
<1>5. /\ n \in PEs => \A u \in todo : Attach[u.portal] = n
      /\ \A c \in CPEs : ok /\ Attach[c] = n /\ sa[c] > 0 => Tunnel(c) \in todo
  <2>1. ASSUME NEW c \in CPEs, ok, Attach[c] = n, sa[c] > 0  PROVE  Tunnel(c) \in todo
    BY <2>1 DEF GetSAs, Tunnel
  <2>2. ASSUME NEW u \in todo
        PROVE  u.portal \in CPEs /\ (Attach[u.portal] = n \/ u.portal = n)
    BY <2>2, SMT DEF GetSAs
  <2>3. CPEs \cap PEs = {}
    BY SyncConstants
  <2> HIDE DEF todo
  <2> QED
    BY <2>1, <2>2, <2>3
<1> HIDE DEF todo
<1>6. Reports'
  <2>1. up[n]
    BY <1>1, SMT DEF TunnelInv, Reports, NoResync
  <2>2. \A x \in Nodes : ~up'[x] => events'[x] = <<>> /\ resync'[x] = NoResync
    BY <1>1, <1>2, <2>1 DEF TunnelInv, Reports
  <2>3. \A x \in PEs : \A u \in resync'[x].todo : Attach[u.portal] = x
    BY <1>2, <1>5, NodeFacts DEF TunnelInv, Reports
  <2>4. \A c \in CPEs : Names(events'[Attach[c]], c) => LastOf(events'[Attach[c]], c, Tunnel(c)')
    BY <1>1, <1>4 DEF TunnelInv, Reports
  <2> QED
    BY <1>1, <1>3, <2>2, <2>3, <2>4, SMT DEF TunnelInv, Reports
<1>7. ASSUME NEW c \in CPEs, Listening', sa'[c] > 0, ~missed'[c]
      PROVE  Way(c)'
  <2>1. Way(c)
    BY <1>1, <1>3, <1>7 DEF TunnelInv, OnTheWay, Listening
  <2>2. CASE Attach[c] # n
    BY <1>1, <1>2, <1>4, <2>1, <2>2, WayFrame
  <2>3. CASE Attach[c] = n
    <3>1. Tunnel(c) \in todo
      BY <1>3, <1>4, <1>5, <1>7, <2>3
    <3> QED
      BY <1>2, <1>4, <2>3, <3>1 DEF Way
  <2> QED
    BY <2>2, <2>3
<1> QED
  BY <1>6, <1>7 DEF TunnelInv, OnTheWay

\* A node reports one of the tunnels it has read.
LEMMA ResyncReportTunnel ==
    ASSUME IInv, TunnelInv, NEW n \in Nodes, NEW ok \in BOOLEAN, ResyncReport(n, ok)
    PROVE  TunnelInv'
<1>1. PICK m \in resync[n].todo :
        /\ Request(n, m, ok) /\ resync' = [resync EXCEPT ![n].todo = @ \ {m}]
        /\ missed' = [missed EXCEPT ![m.portal] =
                        @ \/ (n \in PEs /\ (~(ok /\ Listening) \/ m.ifid # sa[m.portal]))]
  BY DEF ResyncReport
<1>2. UNCHANGED <<cp, registry, sa, events, up>>
  BY DEF ResyncReport, agent
<1>3. m \in Updates /\ m.portal \in CPEs /\ (n \in PEs => Attach[m.portal] = n)
  BY <1>1, TunnelTypes, SMT DEF Updates, TunnelInv, Reports
<1>4. /\ resync'[n].todo = resync[n].todo \ {m} /\ resync'[n].asked = resync[n].asked
      /\ \A x \in Nodes \ {n} : resync'[x] = resync[x]
  BY <1>1, TunnelTypes, SMT
<1>5. /\ missed' \in [CPEs -> BOOLEAN] /\ \A c \in CPEs : missed[c] => missed'[c]
      /\ n \in PEs /\ (~(ok /\ Listening) \/ m.ifid # sa[m.portal]) => missed'[m.portal]
  <2>1. missed \in [CPEs -> BOOLEAN]
    BY DEF TunnelInv, Reports
  <2>2. (n \in PEs /\ (~(ok /\ Listening) \/ m.ifid # sa[m.portal])) \in BOOLEAN
    OBVIOUS
  <2> QED
    BY <1>1, <1>3, <2>1, <2>2
<1>6. \A c \in CPEs : Tunnel(c)' = Tunnel(c) /\ Attach[c] \in PEs /\ Attach[c] \in Nodes
  BY <1>2, NodeFacts DEF Tunnel
<1>7. Reports'
  <2>1. up[n]
    BY <1>1, SMT DEF TunnelInv, Reports, NoResync
  <2>2. \A x \in Nodes : ~up'[x] => events'[x] = <<>> /\ resync'[x] = NoResync
    BY <1>2, <1>4, <2>1 DEF TunnelInv, Reports
  <2>3. \A x \in PEs : \A u \in resync'[x].todo : Attach[u.portal] = x
    BY <1>4, NodeFacts, SMT DEF TunnelInv, Reports
  <2>4. \A c \in CPEs : Names(events'[Attach[c]], c) => LastOf(events'[Attach[c]], c, Tunnel(c)')
    BY <1>2, <1>6, SMT DEF TunnelInv, Reports
  <2> QED
    BY <1>2, <1>5, <2>2, <2>3, <2>4 DEF TunnelInv, Reports
<1>8. ASSUME NEW c \in CPEs, Listening', sa'[c] > 0, ~missed'[c]
      PROVE  Way(c)'
  <2>1. Way(c)
    BY <1>2, <1>5, <1>8 DEF TunnelInv, OnTheWay, Listening
  <2>2. inbox'["pe"] = inbox["pe"] \/ inbox'["pe"] = Append(inbox["pe"], m)
    BY <1>1, <1>3, RequestInbox
  <2>3. CASE n \notin PEs
    <3>1. inbox'["pe"] = inbox["pe"] /\ resync'[Attach[c]] = resync[Attach[c]]
      BY <1>1, <1>3, <1>4, <1>6, <2>3, RequestInbox
    <3> QED
      BY <1>2, <2>1, <3>1, WayFrame
  <2>4. CASE n \in PEs /\ m.portal # c
    <3>1. Arrived(c) => Arrived(c)'
      BY <1>2, <1>3, <2>2, <2>4, RequestArrives
    <3>2. m # Tunnel(c)
      BY <2>4, TunnelTypes
    <3>3. /\ resync[Attach[c]].asked => resync'[Attach[c]].asked
          /\ Tunnel(c) \in resync[Attach[c]].todo => Tunnel(c) \in resync'[Attach[c]].todo
      BY <1>4, <1>6, <3>2
    <3> QED
      BY <1>2, <1>6, <2>1, <3>1, <3>3 DEF Way
  <2>5. CASE n \in PEs /\ m.portal = c
    <3>1. ok /\ Listening /\ m.ifid = sa[c]
      BY <1>5, <1>8, <2>5
    <3>2. m = Tunnel(c)
      BY <1>3, <2>5, <3>1 DEF Tunnel, Updates
    <3>3. inbox'["pe"] = Append(inbox["pe"], m)
      BY <1>1, <1>3, <2>5, <3>1, RequestInbox
    <3> QED
      BY <1>2, <1>3, <3>2, <3>3, RequestArrives DEF Way
  <2> QED
    BY <2>3, <2>4, <2>5
<1> QED
  BY <1>7, <1>8 DEF TunnelInv, OnTheWay
\* The control plane listens from here on, and asks for the tunnels.
LEMMA EndpointsTunnel ==
    ASSUME IInv, TunnelInv, NEW done \in Calls, SetupEndpoints(done)
    PROVE  TunnelInv'
<1> DEFINE asked == {n \in Nodes : Subscribed(n) /\ done > IF n \in PEs THEN 2 ELSE 3}
<1>1. /\ resync' = [n \in Nodes |-> [resync[n] EXCEPT !.asked = @ \/ n \in asked]]
      /\ missed' = [c \in CPEs |-> sa[c] > 0 /\ Attach[c] \notin asked]
      /\ UNCHANGED <<sa, events, up>>
  BY DEF SetupEndpoints, sendTunnelResyncRequest, agent
<1>2. \A n \in asked : n \in Nodes /\ up[n]
  BY DEF Subscribed
<1> HIDE DEF asked
<1>3. ASSUME NEW n \in Nodes
      PROVE  /\ resync'[n].todo = resync[n].todo /\ (n \in asked => resync'[n].asked)
             /\ n \notin asked => resync'[n] = resync[n]
  <2>1. resync[n] \in [todo : SUBSET Updates, asked : BOOLEAN]
    BY TunnelTypes
  <2>2. resync'[n] = [resync[n] EXCEPT !.asked = @ \/ n \in asked]
    BY <1>1
  <2> DEFINE r == resync[n]
  <2>3. r \in [todo : SUBSET Updates, asked : BOOLEAN] /\ resync'[n] = [r EXCEPT !.asked = @ \/ n \in asked]
    BY <2>1, <2>2
  <2> HIDE DEF r
  <2>4. resync'[n].todo = r.todo /\ resync'[n].asked = (r.asked \/ n \in asked)
    BY <2>3
  <2>5. n \notin asked => resync'[n] = r
    BY <2>3, SMT
  <2> QED
    BY <2>4, <2>5 DEF r
<1>4. Reports'
  <2>1. \A x \in Nodes : ~up'[x] => events'[x] = <<>> /\ resync'[x] = NoResync
    BY <1>1, <1>2, <1>3 DEF TunnelInv, Reports
  <2>2. \A x \in PEs : \A u \in resync'[x].todo : Attach[u.portal] = x
    BY <1>3, NodeFacts DEF TunnelInv, Reports
  <2>3. \A c \in CPEs : Names(events'[Attach[c]], c) => LastOf(events'[Attach[c]], c, Tunnel(c)')
    BY <1>1 DEF TunnelInv, Reports, Tunnel
  <2>4. missed' \in [CPEs -> BOOLEAN]
    BY <1>1
  <2> QED
    BY <1>1, <2>1, <2>2, <2>3, <2>4 DEF TunnelInv, Reports
<1>5. ASSUME NEW c \in CPEs, sa'[c] > 0, ~missed'[c]
      PROVE  Way(c)'
  <2>1. Attach[c] \in asked /\ Attach[c] \in Nodes
    BY <1>1, <1>5, NodeFacts
  <2> QED
    BY <1>3, <2>1 DEF Way
<1> QED
  BY <1>4, <1>5 DEF TunnelInv, OnTheWay

\* Every step keeps the tunnels on their way.
LEMMA TunnelStep ==
    ASSUME IInv, NodesInv, TunnelInv, Next
    PROVE  TunnelInv'
<1>1. \A n \in Nodes : up[n] \in BOOLEAN
  BY DEF NodesInv, AgentTypes
<1>2. ASSUME Listening' => Listening,
             UNCHANGED <<registry, inbox, events, resync, sa, missed, up>>
      PROVE  TunnelInv'
  BY <1>2, TunnelFrame
<1>3. ASSUME ~Listening', UNCHANGED <<events, resync, sa, missed, up>>
      PROVE  TunnelInv'
  <2>1. Reports'
    BY <1>3, ReportsFrame DEF TunnelInv, Reports
  <2> QED
    BY <1>3, <2>1 DEF TunnelInv, OnTheWay
<1>4. CASE Writes
  <2>1. UNCHANGED <<cp, registry, inbox, events, resync, sa, missed, up>>
    BY <1>4 DEF Writes, Upsert, Publish, Restore, RestoreSnapshots, RestoreOne, tunnels, agent
  <2> QED
    BY <1>2, <2>1 DEF Listening
<1>5. CASE Boot \/ StartCommit \/ Crash
  <2>1. ~Listening'
    BY <1>5 DEF Boot, StartCommit, Crash, Listening
  <2>2. UNCHANGED <<events, resync, sa, missed, up>>
    BY <1>5 DEF Boot, StartCommit, Crash, tunnels, agent
  <2> QED
    BY <1>3, <2>1, <2>2
<1>6. CASE HandleCPETunnelUpdate
  <2> DEFINE m == Head(inbox["cpe"])
             body == [x \in {m.portal} |-> [Empty EXCEPT !.ifid[m.portal] = m.ifid]]
  <2>1. /\ inbox["cpe"] # <<>> /\ inbox' = [inbox EXCEPT !["cpe"] = Tail(@)]
        /\ Mutate("cpe", {m.portal}, body) /\ UNCHANGED <<cp, events, resync, sa, missed, up>>
    BY <1>6 DEF HandleCPETunnelUpdate, UpsertCPEIntentForSite, tunnels, agent
  <2>2. m.portal \in CPEs /\ inbox'["pe"] = inbox["pe"]
    BY <2>1, InboxFacts, TunnelTypes
  <2> HIDE DEF body, m
  <2>3. \A n \in PEs : registry'[n] = registry[n]
    BY <2>1, <2>2, NodeFacts, SyncConstants DEF Mutate
  <2> QED
    BY <2>1, <2>2, <2>3, TunnelFrame DEF Listening
<1>7. ASSUME NEW ok \in BOOLEAN, ResyncEnds(ok)
      PROVE  TunnelInv'
  <2>1. Listening /\ UNCHANGED <<registry, inbox, events, resync, sa, missed, up>>
    BY <1>7 DEF ResyncEnds, tunnels, agent, Listening
  <2> QED
    BY <1>2, <2>1
<1>8. ASSUME NEW lost \in BOOLEAN, Reconnect(lost)
      PROVE  TunnelInv'
  <2>1. UNCHANGED <<cp, registry, inbox, events, resync, sa, missed, up>>
    BY <1>8 DEF Reconnect, tunnels, agent
  <2> QED
    BY <1>2, <2>1 DEF Listening
<1>9. CASE Controller
  BY <1>5, <1>6, <1>7, <1>8, <1>9, EndpointsTunnel, HandlePETunnel, DispatchTunnel DEF Controller
<1>10. ASSUME NEW n \in Nodes, NodeStarts(n)
       PROVE  TunnelInv'
  <2>1. /\ UNCHANGED <<cp, inbox, events, resync, sa, missed>> /\ up' = [up EXCEPT ![n] = TRUE]
        /\ UNCHANGED registry \/ (n \in CPEs /\ PortalAuthIdentity(n))
    BY <1>10 DEF NodeStarts, tunnels
  <2>2. \A x \in Nodes : up[x] => up'[x]
    BY <2>1 DEF NodesInv, AgentTypes
  <2>3. \A x \in PEs : registry'[x] = registry[x]
    BY <2>1, NodeFacts, SyncConstants, SMT DEF PortalAuthIdentity, IInv, ControlTypes
  <2> QED
    BY <2>1, <2>2, <2>3, TunnelFrame DEF Listening
<1>11. ASSUME NEW n \in Nodes, NEW ok \in BOOLEAN,
              \/ WatchStarts(n) \/ WatchCloses(n) \/ WatchDelivers(n) \/ FanOut(n) \/ ResyncTick(n)
              \/ Reconcile(n, ok)
       PROVE  TunnelInv'
  <2>1. UNCHANGED <<cp, registry, inbox, events, resync, sa, missed, up>>
    BY <1>11 DEF WatchStarts, WatchCloses, WatchDelivers, FanOut, ResyncTick, Reconcile, control, tunnels
  <2> QED
    BY <1>2, <2>1 DEF Listening
<1>12. ASSUME NEW n \in Nodes, Node(n)
       PROVE  TunnelInv'
  BY <1>10, <1>11, <1>12, RestartTunnel, ReportEventTunnel, ResyncReadTunnel, ResyncReportTunnel DEF Node
<1> QED
  BY <1>4, <1>9, <1>12, TunnelUpTunnel DEF Next

\* So the last tunnel of a portal reaches the registry unless its report goes
\* wrong: nothing overtakes it, and no older update replaces it.
THEOREM TunnelsAreOnTheWay == Spec => []OnTheWay
<1>1. Init => TunnelInv
  <2> SUFFICES ASSUME Init  PROVE  TunnelInv
    OBVIOUS
  <2>1. ~Listening
    BY DEF Init, Listening
  <2>2. \A n \in Nodes : events[n] = <<>> /\ resync[n] = NoResync /\ resync[n].todo = {}
    BY DEF Init, NoResync
  <2>3. \A c : ~Names(<<>>, c)
    BY NoneNamed
  <2>4. Reports
    BY <2>2, <2>3, NodeFacts, SMT DEF Reports, Init
  <2> QED
    BY <2>1, <2>4 DEF TunnelInv, OnTheWay
<1>2. IInv /\ NodesInv /\ TunnelInv /\ [Next]_vars => TunnelInv'
  <2>1. TunnelInv /\ UNCHANGED vars => TunnelInv'
    <3> SUFFICES ASSUME TunnelInv, UNCHANGED vars  PROVE  TunnelInv'
      OBVIOUS
    <3>1. UNCHANGED <<cp, registry, inbox, events, resync, sa, missed, up>>
      BY DEF vars, control, tunnels, agent
    <3> QED
      BY <3>1, TunnelFrame DEF Listening
  <2> QED
    BY <2>1, TunnelStep
<1>3. TunnelInv => OnTheWay
  BY DEF TunnelInv
<1> QED
  BY <1>1, <1>2, <1>3, IntentSyncInvariant, NodesInvariant, PTL DEF Spec
===============================================================================
