----------------------------- MODULE SIDProofs -----------------------------
(***************************************************************************)
(* Proofs about SIDAllocation, for every set of locators and tenants,      *)
(* every width and every choice of the cursor's parameters, whose function *)
(* need not be a permutation: SIDs are sticky and never shared, the two    *)
(* maps of the registry agree, and the table refuses nothing free.         *)
(***************************************************************************)
EXTENDS SIDAllocation, WellFoundedInduction, TLAPS

\* Zenon is the prover of every leaf that names no other.
USE Zenon

\* The registry has loaded its memory.
Running == pc \in {"idle", "remember"}

\* Rows of different keys hold different SIDs.
RowsDiffer == \A k, m \in Keys : k # m /\ db[k] # NoSID => db[m] # db[k]

\* Memory knows a part of the table, and all that callers were given.
MemoryFollowsTable ==
    Running => \A k \in Keys :
        /\ sidTenantMap[k] \in {NoSID, db[k]}
        /\ given[k] # NoSID => sidTenantMap[k] = given[k]

\* What callers were given is in the table.
GivenIsStored == \A k \in Keys : given[k] # NoSID => db[k] = given[k]

\* Between the transaction and the write to memory the row is the pending one.
PendingIsStored ==
    pc = "remember" => pending \in Keys /\ db[pending] = SIDAt(pending, sidCursor)

AllocationInv ==
    /\ TypeOK
    /\ RowsDiffer
    /\ MemoryFollowsTable
    /\ GivenIsStored
    /\ PendingIsStored

\* A wrapped number is a uint16.
LEMMA WrapRange ==
    ASSUME NEW x \in Nat
    PROVE  Wrap(x) \in 0..(Width - 1)
  BY SIDConstants, SMT DEF Wrap

\* permute yields a uint16, whatever its parameters.
LEMMA PermuteRange ==
    ASSUME NEW cur \in Nat
    PROVE  Permute(cur) \in 0..(Width - 1)
  <1>1. cur % N \in Nat
    BY SIDConstants, SMT
  <1>2. A * (cur % N) \in Nat
    BY <1>1, SIDConstants, SMT
  <1>3. Wrap(A * (cur % N) + C) \in Nat
    BY <1>2, WrapRange, SIDConstants, SMT
  <1>4. Wrap(A * (cur % N) + C) % N \in Nat
    BY <1>3, SIDConstants, SMT
  <1> QED
    BY <1>4, WrapRange, SIDConstants, SMT DEF Permute

\* The SID tried for a key lies at the key's locator.
LEMMA SIDAtRange ==
    ASSUME NEW k \in Keys, NEW cur \in Nat
    PROVE  SIDAt(k, cur) \in SIDs
  BY PermuteRange DEF SIDAt, SIDs, Keys

\* A nonempty set of naturals has a least element.
LEMMA LeastElement ==
    ASSUME NEW S, S \subseteq Nat, S # {}
    PROVE  \E i \in S : \A j \in S : i <= j
  <1> DEFINE R == OpToRel(<, Nat)
  <1>1. IsWellFoundedOn(R, Nat)
    BY NatLessThanWellFounded
  <1> HIDE DEF R
  <1>2. PICK i \in S : \A j \in S : ~ (<<j, i>> \in R)
    BY <1>1, WFMin
  <1>3. ASSUME NEW j \in S PROVE i <= j
    <2>1. <<j, i>> \notin R
      BY <1>2
    <2>2. j \in Nat /\ i \in Nat
      OBVIOUS
    <2>3. ~ (j < i)
      BY <2>1, <2>2 DEF R, OpToRel
    <2> QED
      BY <2>2, <2>3, SMT
  <1> QED
    BY <1>3

\* When some try of a call is free, the cursor it stops at and the
\* SID it tries are in range.
LEMMA TriedRange ==
    ASSUME TypeOK, NEW k \in Keys, FreeOffsets(k) # {}
    PROVE  /\ TriedCursor(k) \in 0..(Width - 1)
           /\ SIDAt(k, TriedCursor(k)) \in SIDs
  <1>1. FreeOffsets(k) \subseteq Nat
    BY SMT DEF FreeOffsets
  <1>2. FirstFree(k) \in Nat
    BY <1>1, LeastElement DEF FirstFree
  <1>3. TriedCursor(k) \in 0..(Width - 1)
    BY <1>2, WrapRange, SIDConstants, SMT DEF TriedCursor, TypeOK
  <1> QED
    BY <1>3, SIDAtRange, SIDConstants, SMT

-----------------------------------------------------------------------------
\* A transaction that takes effect keeps the rows apart and touches no row
\* that is there: both uniqueness constraints held.
LEMMA RowIsNew ==
    ASSUME TypeOK, RowsDiffer, NEW k \in Keys, FreeOffsets(k) # {}, WriteRow(k)
    PROVE  /\ db' \in [Keys -> SIDs \cup {NoSID}] /\ dbCursor' \in 0..(Width - 1)
           /\ RowsDiffer'
           /\ \A m \in Keys : db[m] # NoSID => db'[m] = db[m]
           /\ db[k] = NoSID /\ db'[k] = SIDAt(k, TriedCursor(k))
  <1> DEFINE sid == SIDAt(k, TriedCursor(k))
  <1>1. TriedCursor(k) \in 0..(Width - 1) /\ sid \in SIDs
    BY TriedRange
  <1>2. db[k] = NoSID /\ db' = [db EXCEPT ![k] = sid]
    BY DEF WriteRow, Accepts
  <1>3. \A m \in Keys : db[m] # sid
    BY <1>1, NoSIDIsNone DEF WriteRow, Accepts, Stored
  <1>4. dbCursor' \in 0..(Width - 1)
    BY <1>1, WrapRange, SIDConstants, SMT DEF WriteRow
  <1> HIDE DEF sid
  <1>5. db' \in [Keys -> SIDs \cup {NoSID}] /\ db'[k] = sid
    BY <1>1, <1>2 DEF TypeOK
  <1>6. \A m \in Keys : m # k => db'[m] = db[m]
    BY <1>2 DEF TypeOK
  <1>7. RowsDiffer'
    BY <1>3, <1>5, <1>6 DEF RowsDiffer
  <1> QED
    BY <1>2, <1>4, <1>5, <1>6, <1>7 DEF sid

\* Init establishes the invariant.
LEMMA InitAllocation == Init => AllocationInv
  BY SIDConstants, SMT DEF Init, AllocationInv, TypeOK, RowsDiffer, MemoryFollowsTable,
     GivenIsStored, PendingIsStored, Running, Nothing

\* Each step of the allocator, of the environment and of the boot preserves it.
LEMMA StepAllocation == AllocationInv /\ [Next]_vars => AllocationInv'
  <1> SUFFICES ASSUME AllocationInv, [Next]_vars PROVE AllocationInv'
    OBVIOUS
  <1> USE DEF AllocationInv
  <1> DEFINE Rest == RowsDiffer' /\ MemoryFollowsTable' /\ GivenIsStored'
                     /\ PendingIsStored'
  <1>1. ASSUME NEW k \in Keys, ReturnExisting(k) PROVE AllocationInv'
    <2>1. sidTenantMap[k] \in SIDs /\ sidTenantMap[k] = db[k]
      BY <1>1 DEF ReturnExisting, TypeOK, MemoryFollowsTable, Running
    <2>2. TypeOK'
      BY <1>1, <2>1 DEF ReturnExisting, TypeOK, store
    <2>3. Rest
      BY <1>1, <2>1 DEF ReturnExisting, TypeOK, store, RowsDiffer,
         MemoryFollowsTable, GivenIsStored, PendingIsStored, Running
    <2> QED
      BY <2>2, <2>3
  <1>2. ASSUME NEW k \in Keys, TooManyCollisions(k) PROVE AllocationInv'
    <2>1. sidCursor' \in 0..(Width - 1)
      BY <1>2, WrapRange, SIDConstants, SMT DEF TooManyCollisions, TypeOK
    <2>2. TypeOK'
      BY <1>2, <2>1 DEF TooManyCollisions, TypeOK, store
    <2>3. Rest
      BY <1>2 DEF TooManyCollisions, Asks, store, RowsDiffer, MemoryFollowsTable,
         GivenIsStored, PendingIsStored, Running
    <2> QED
      BY <2>2, <2>3
  <1>3. ASSUME NEW k \in Keys, Commit(k) PROVE AllocationInv'
    <2>1. FreeOffsets(k) # {} /\ WriteRow(k)
      BY <1>3 DEF Commit
    <2>2. TriedCursor(k) \in 0..(Width - 1)
      BY <2>1, TriedRange
    <2>3. TypeOK'
      BY <1>3, <2>1, <2>2, RowIsNew DEF Commit, TypeOK
    <2>4. MemoryFollowsTable' /\ GivenIsStored'
      BY <1>3, <2>1, RowIsNew DEF Commit, Asks, MemoryFollowsTable, GivenIsStored,
         Running
    <2>5. PendingIsStored'
      BY <1>3, <2>1, RowIsNew DEF Commit, PendingIsStored
    <2> QED
      BY <2>1, <2>3, <2>4, <2>5, RowIsNew
  <1>4. ASSUME NEW k \in Keys, CommitFails(k) PROVE AllocationInv'
    <2>1. FreeOffsets(k) # {} /\ TriedCursor(k) \in 0..(Width - 1)
      BY <1>4, TriedRange DEF CommitFails
    <2>2. CASE UNCHANGED store
      BY <1>4, <2>1, <2>2 DEF CommitFails, Asks, store, TypeOK, RowsDiffer,
         MemoryFollowsTable, GivenIsStored, PendingIsStored, Running
    <2>3. CASE WriteRow(k)
      <3>1. TypeOK'
        BY <1>4, <2>1, <2>3, RowIsNew DEF CommitFails, TypeOK
      <3>2. MemoryFollowsTable' /\ GivenIsStored' /\ PendingIsStored'
        BY <1>4, <2>1, <2>3, RowIsNew DEF CommitFails, Asks, MemoryFollowsTable,
           GivenIsStored, PendingIsStored, Running
      <3> QED
        BY <2>1, <2>3, <3>1, <3>2, RowIsNew
    <2> QED
      BY <1>4, <2>2, <2>3 DEF CommitFails
  <1>5. CASE Remember
    <2>1. pending \in Keys /\ db[pending] = SIDAt(pending, sidCursor)
      BY <1>5 DEF Remember, PendingIsStored
    <2>2. SIDAt(pending, sidCursor) \in SIDs
      BY <2>1, SIDAtRange, SIDConstants, SMT DEF TypeOK
    <2>3. sidCursor' \in 0..(Width - 1)
      BY <1>5, WrapRange, SIDConstants, SMT DEF Remember, TypeOK
    <2>4. TypeOK'
      BY <1>5, <2>1, <2>2, <2>3 DEF Remember, TypeOK, store
    <2>5. Rest
      BY <1>5, <2>1 DEF Remember, TypeOK, store, RowsDiffer, MemoryFollowsTable,
         GivenIsStored, PendingIsStored, Running
    <2> QED
      BY <2>4, <2>5
  <1>6. CASE Crash
    BY <1>6, SIDConstants, SMT DEF Crash, TypeOK, store, RowsDiffer, MemoryFollowsTable,
       GivenIsStored, PendingIsStored, Running, Nothing
  <1>7. CASE EditFiles
    BY <1>7 DEF EditFiles, memory, store, TypeOK, RowsDiffer, MemoryFollowsTable,
       GivenIsStored, PendingIsStored, Running, SIDAt
  <1>8. CASE BootStore
    <2>1. CASE changed
      <3>1. db' = Nothing /\ dbCursor' = 0 /\ given' = Nothing
        BY <1>8, <2>1 DEF BootStore
      <3>2. TypeOK'
        <4>1. Nothing \in [Keys -> SIDs \cup {NoSID}] /\ 0 \in 0..(Width - 1)
          BY SIDConstants, SMT DEF Nothing
        <4> QED
          BY <1>8, <3>1, <4>1 DEF BootStore, TypeOK
      <3>3. Rest
        BY <1>8, <3>1 DEF BootStore, RowsDiffer, MemoryFollowsTable, GivenIsStored,
           PendingIsStored, Running, Nothing
      <3> QED
        BY <3>2, <3>3
    <2>2. CASE ~changed
      <3>1. UNCHANGED <<db, dbCursor, given>>
        BY <1>8, <2>2 DEF BootStore, store
      <3>2. TypeOK'
        BY <1>8, <3>1 DEF BootStore, TypeOK
      <3>3. Rest
        BY <1>8, <3>1 DEF BootStore, RowsDiffer, MemoryFollowsTable, GivenIsStored,
           PendingIsStored, Running
      <3> QED
        BY <3>2, <3>3
    <2> QED
      BY <2>1, <2>2
  <1>9. CASE LoadPreviousState
    <2>1. Stored \subseteq SIDs
      BY DEF TypeOK, Stored
    <2>2. TypeOK'
      BY <1>9, <2>1 DEF LoadPreviousState, store, TypeOK
    <2>3. Rest
      BY <1>9 DEF LoadPreviousState, store, RowsDiffer, MemoryFollowsTable,
         GivenIsStored, PendingIsStored, Running
    <2> QED
      BY <2>2, <2>3
  <1>10. CASE UNCHANGED vars
    BY <1>10 DEF vars, memory, store, TypeOK, RowsDiffer, MemoryFollowsTable,
       GivenIsStored, PendingIsStored, Running, SIDAt
  <1> QED
    BY <1>1, <1>2, <1>3, <1>4, <1>5, <1>6, <1>7, <1>8, <1>9, <1>10 DEF Next

\* The inductive invariant of the allocator holds throughout.
THEOREM AllocationInvariant == Spec => []AllocationInv
  BY InitAllocation, StepAllocation, PTL DEF Spec

\* A SID that was given to a caller of getOrGenerateSID stays the SID of its
\* key, through failed transactions and crashes, until a reset boot.
THEOREM SticksThroughCrashes == Spec => []SIDsAreSticky
  <1>1. AllocationInv => SIDsAreSticky
    BY DEF AllocationInv, SIDsAreSticky, GivenIsStored, MemoryFollowsTable, Running
  <1> QED
    BY <1>1, AllocationInvariant, PTL

\* No SID is given to two keys, whatever the function of the cursor does.
THEOREM NeverShared == Spec => []NoSharedSID
  <1>1. AllocationInv => NoSharedSID
    BY DEF AllocationInv, NoSharedSID, GivenIsStored, RowsDiffer
  <1> QED
    BY <1>1, AllocationInvariant, PTL

\* The types of the allocator: in particular the cursor stays within the width
\* of the function part, in memory as in the table.
THEOREM SIDAllocationTyped == Spec => []TypeOK
  <1>1. AllocationInv => TypeOK
    BY DEF AllocationInv
  <1> QED
    BY <1>1, AllocationInvariant, PTL

-----------------------------------------------------------------------------
\* The registry's two maps, which every path through getOrGenerateSID has to
\* write together, are one: the collision map holds exactly the SIDs of the
\* tenant map, neither a SID that no key has nor one too few.
MapsAgree == Running => sidAllocationMap = {sidTenantMap[k] : k \in Keys} \ {NoSID}

\* A key whose row was just stored has none in memory yet.
PendingIsUnknown == pc = "remember" => sidTenantMap[pending] = NoSID

\* Every step keeps the maps together.
LEMMA MapsStep ==
    ASSUME AllocationInv, MapsAgree, PendingIsUnknown, [Next]_vars
    PROVE  MapsAgree' /\ PendingIsUnknown'
  <1> USE DEF MapsAgree, PendingIsUnknown, Running
  <1>0. TypeOK /\ sidTenantMap \in [Keys -> SIDs \cup {NoSID}]
    BY DEF AllocationInv, TypeOK
  <1>1. ASSUME NEW k \in Keys, ReturnExisting(k)
        PROVE  MapsAgree' /\ PendingIsUnknown'
    BY <1>1 DEF ReturnExisting
  <1>2. ASSUME NEW k \in Keys, TooManyCollisions(k) \/ CommitFails(k)
        PROVE  MapsAgree' /\ PendingIsUnknown'
    BY <1>2 DEF TooManyCollisions, CommitFails
  <1>3. ASSUME NEW k \in Keys, Commit(k)
        PROVE  MapsAgree' /\ PendingIsUnknown'
    BY <1>3 DEF Commit, Asks
  <1>4. CASE Remember
    <2> DEFINE sid == SIDAt(pending, sidCursor)
    <2>1. /\ pc = "remember" /\ pc' = "idle" /\ sidAllocationMap' = sidAllocationMap \cup {sid}
          /\ sidTenantMap' = [sidTenantMap EXCEPT ![pending] = sid]
      BY <1>4 DEF Remember
    <2>2. pending \in Keys /\ sidCursor \in Nat
      BY <1>0, <2>1, SIDConstants, SMT DEF AllocationInv, PendingIsStored, TypeOK
    <2>3. sid \in SIDs
      BY <2>2, SIDAtRange
    <2> HIDE DEF sid
    <2>4. sidTenantMap'[pending] = sid /\ \A m \in Keys \ {pending} : sidTenantMap'[m] = sidTenantMap[m]
      BY <1>0, <2>1, <2>2
    <2>5. {sidTenantMap'[m] : m \in Keys} = {sidTenantMap[m] : m \in Keys \ {pending}} \cup {sid}
      BY <2>2, <2>4
    <2>6. {sidTenantMap[m] : m \in Keys} = {sidTenantMap[m] : m \in Keys \ {pending}} \cup {NoSID}
      BY <2>1, <2>2
    <2>7. sid # NoSID
      BY <2>3, NoSIDIsNone
    <2>8. MapsAgree'
      BY <2>1, <2>5, <2>6, <2>7
    <2> QED
      BY <2>1, <2>8
  <1>5. CASE Crash \/ BootStore
    BY <1>5 DEF Crash, BootStore
  <1>6. CASE EditFiles
    BY <1>6 DEF EditFiles, memory
  <1>7. CASE LoadPreviousState
    BY <1>7 DEF LoadPreviousState, Stored
  <1>8. CASE UNCHANGED vars
    BY <1>8 DEF vars, memory
  <1> QED
    BY <1>1, <1>2, <1>3, <1>4, <1>5, <1>6, <1>7, <1>8 DEF Next

\* So the collision map never drifts from the tenant map.
THEOREM MapsNeverDrift == Spec => []MapsAgree
  <1>1. Init => MapsAgree /\ PendingIsUnknown
    BY DEF Init, MapsAgree, PendingIsUnknown, Running
  <1> QED
    BY <1>1, MapsStep, AllocationInvariant, PTL DEF Spec

\* Unless an acknowledgement was lost, the database takes the row that
\* getOrGenerateSID tries, whatever else calls, failures and restarts have
\* done: the constraints of the table refuse nothing that memory offers.
\* With it EveryKeyIsServed needs only that the cursor comes to a free SID
\* and that the database answers.
FreeSIDsAreAccepted ==
    \A k \in Keys :
        ~LostAcknowledgement /\ Asks(k) /\ FreeOffsets(k) # {} =>
            Accepts(k, SIDAt(k, TriedCursor(k)))

\* So a constraint is violated only after a lost acknowledgement.
THEOREM ConstraintsRefuseNothingFree == Spec => []FreeSIDsAreAccepted
  <1>1. ASSUME AllocationInv, MapsAgree PROVE FreeSIDsAreAccepted
    <2> SUFFICES ASSUME NEW k \in Keys, ~LostAcknowledgement, Asks(k), FreeOffsets(k) # {}
                 PROVE  Accepts(k, SIDAt(k, TriedCursor(k)))
      BY DEF FreeSIDsAreAccepted
    <2>1. pc = "idle" /\ sidTenantMap[k] = NoSID
      BY DEF Asks
    <2>2. \A m \in Keys : db[m] # NoSID => sidTenantMap[m] # NoSID
      BY <2>1 DEF LostAcknowledgement
    <2>3. \A m \in Keys : db[m] # NoSID => sidTenantMap[m] = db[m]
      BY <1>1, <2>1, <2>2 DEF AllocationInv, MemoryFollowsTable, Running
    <2>4. Stored \subseteq sidAllocationMap
      BY <1>1, <2>1, <2>3 DEF Stored, MapsAgree, Running
    <2>5. FirstFree(k) \in FreeOffsets(k)
      <3>1. FreeOffsets(k) \subseteq Nat
        BY SMT DEF FreeOffsets
      <3> QED
        BY <3>1, LeastElement DEF FirstFree
    <2>6. SIDAt(k, TriedCursor(k)) \notin sidAllocationMap
      BY <2>5 DEF FreeOffsets, TriedCursor
    <2> QED
      BY <2>1, <2>2, <2>4, <2>6 DEF Accepts
  <1> QED
    BY <1>1, MapsNeverDrift, AllocationInvariant, PTL
=============================================================================
