--------------------------- MODULE SIDAllocation ---------------------------
(***************************************************************************)
(* The SID allocator of the service registry (service_registry_sid.go,     *)
(* hash.go), its two tables in the database, and the boot that clears or   *)
(* reloads them (boot.go, service_registry.go).                            *)
(*                                                                         *)
(* A SID is a locator with a 16-bit function, here a pair.  The encap type *)
(* is left out of the keys: only one is ever asked for.  The registry's    *)
(* mutex makes a call atomic against other calls, but not against a crash, *)
(* so the transaction and the write to memory are two steps.  A            *)
(* transaction may commit and still report an error to its caller, when    *)
(* the connection is lost before the acknowledgement arrives.              *)
(***************************************************************************)
EXTENDS Integers

CONSTANTS
    Locators, Tenants,
    Width,                  \* 2^16: the values of a uint16
    Low, N, A, C,           \* low, n, a and c of hash.go
    MaxSIDCollisionChecks,
    MaxRestarts,            \* bound: crashes of the control plane
    NoSID

ASSUME SIDConstants ==
    /\ Width \in Nat \ {0} /\ N \in Nat \ {0}
    /\ Low \in Nat /\ A \in Nat /\ C \in Nat
    /\ MaxSIDCollisionChecks \in Nat \ {0} /\ MaxRestarts \in Nat

\* One tenant has at most one VRF per PE: the key of sidTenantMap.
Keys == Locators \X Tenants

SIDs == Locators \X (0..(Width - 1))

ASSUME NoSIDIsNone == NoSID \notin SIDs

Wrap(x) == x % Width

\* permute, in uint16 arithmetic: the product wraps before it is reduced.
Permute(cur) == Wrap(Low + (Wrap((A * (cur % N)) + C) % N))

\* withHextets: the function goes below the locator.
SIDAt(k, cur) == <<k[1], Permute(cur)>>

VARIABLES
    sidCursor, sidAllocationMap, sidTenantMap,  \* memory of the registry
    pc,             \* "down", "loading", "idle", "remember" (lock held)
    pending,        \* the key whose transaction was acknowledged
    db,             \* sid_allocations: the SID stored for each key
    dbCursor,       \* control_state.sid_cursor
    changed,        \* the stored fingerprint is not that of the files
    given,          \* history: what callers were given since the last reset
    restarts

memory == <<sidCursor, sidAllocationMap, sidTenantMap, pc, pending>>
store == <<db, dbCursor>>
vars == <<memory, store, changed, given, restarts>>

Nothing == [k \in Keys |-> NoSID]
Stored == {db[k] : k \in Keys} \ {NoSID}

TypeOK ==
    /\ sidCursor \in 0..(Width - 1) /\ dbCursor \in 0..(Width - 1)
    /\ sidAllocationMap \subseteq SIDs
    /\ sidTenantMap \in [Keys -> SIDs \cup {NoSID}]
    /\ pc \in {"down", "loading", "idle", "remember"}
    /\ pending \in Keys \cup {NoSID}
    /\ db \in [Keys -> SIDs \cup {NoSID}]
    /\ changed \in BOOLEAN
    /\ given \in [Keys -> SIDs \cup {NoSID}]
    /\ restarts \in 0..MaxRestarts

Init ==
    /\ sidCursor = 0 /\ sidAllocationMap = {} /\ sidTenantMap = Nothing
    /\ pc = "down" /\ pending = NoSID
    /\ db = Nothing /\ dbCursor = 0
    /\ changed = TRUE       \* no fingerprint yet: a cold boot
    /\ given = Nothing /\ restarts = 0

-----------------------------------------------------------------------------
\* The offsets at which the loop would find a SID that is not allocated.
FreeOffsets(k) ==
    {i \in 0..(MaxSIDCollisionChecks - 1) :
        SIDAt(k, Wrap(sidCursor + i)) \notin sidAllocationMap}

FirstFree(k) == CHOOSE i \in FreeOffsets(k) : \A j \in FreeOffsets(k) : i <= j

\* The cursor after the collisions of this call.
TriedCursor(k) == Wrap(sidCursor + FirstFree(k))

Asks(k) == pc = "idle" /\ sidTenantMap[k] = NoSID

\* The key is known: its SID is returned.
ReturnExisting(k) ==
    /\ pc = "idle" /\ sidTenantMap[k] # NoSID
    /\ sidAllocationMap' = sidAllocationMap \cup {sidTenantMap[k]}
    /\ given' = [given EXCEPT ![k] = sidTenantMap[k]]
    /\ UNCHANGED <<sidCursor, sidTenantMap, pc, pending, store, changed, restarts>>

\* Mutant: a collision leaves the cursor where it was.
TooManyCollisionsInPlace(k) ==
    /\ Asks(k) /\ FreeOffsets(k) = {}
    /\ UNCHANGED vars

\* Every try collides: the call fails, the cursor stays where it came to.
TooManyCollisions(k) ==
    /\ Asks(k) /\ FreeOffsets(k) = {}
    /\ sidCursor' = Wrap(sidCursor + MaxSIDCollisionChecks)
    /\ UNCHANGED <<sidAllocationMap, sidTenantMap, pc, pending, store, changed,
                   given, restarts>>

\* The database takes the row: both of its uniqueness constraints hold.
Accepts(k, sid) == db[k] = NoSID /\ sid \notin Stored

\* Mutant: the stored cursor is incremented after it is widened to an int32.
WriteRowWide(k) ==
    /\ Accepts(k, SIDAt(k, TriedCursor(k)))
    /\ db' = [db EXCEPT ![k] = SIDAt(k, TriedCursor(k))]
    /\ dbCursor' = TriedCursor(k) + 1

\* The transaction commits: the row, and the cursor one ahead.
WriteRow(k) ==
    /\ Accepts(k, SIDAt(k, TriedCursor(k)))
    /\ db' = [db EXCEPT ![k] = SIDAt(k, TriedCursor(k))]
    /\ dbCursor' = Wrap(TriedCursor(k) + 1)

Commit(k) ==
    /\ Asks(k) /\ FreeOffsets(k) # {}
    /\ WriteRow(k)
    /\ sidCursor' = TriedCursor(k)
    /\ pc' = "remember" /\ pending' = k
    /\ UNCHANGED <<sidAllocationMap, sidTenantMap, changed, given, restarts>>

\* Mutant: memory is written although the transaction reports an error.
CommitFailsIgnored(k) ==
    /\ Asks(k) /\ FreeOffsets(k) # {}
    /\ UNCHANGED store \/ WriteRow(k)
    /\ sidCursor' = Wrap(TriedCursor(k) + 1)
    /\ sidTenantMap' = [sidTenantMap EXCEPT ![k] = SIDAt(k, TriedCursor(k))]
    /\ sidAllocationMap' = sidAllocationMap \cup {SIDAt(k, TriedCursor(k))}
    /\ given' = [given EXCEPT ![k] = SIDAt(k, TriedCursor(k))]
    /\ UNCHANGED <<pc, pending, changed, restarts>>

\* The transaction reports an error.  It was rolled back (refused by a
\* constraint, or the database failed), or its acknowledgement was lost.
CommitFails(k) ==
    /\ Asks(k) /\ FreeOffsets(k) # {}
    /\ UNCHANGED store \/ WriteRow(k)
    /\ sidCursor' = TriedCursor(k)
    /\ UNCHANGED <<sidAllocationMap, sidTenantMap, pc, pending, changed, given,
                   restarts>>

\* After the acknowledgement: memory follows, the SID is returned.
Remember ==
    /\ pc = "remember"
    /\ LET sid == SIDAt(pending, sidCursor) IN
         /\ sidTenantMap' = [sidTenantMap EXCEPT ![pending] = sid]
         /\ sidAllocationMap' = sidAllocationMap \cup {sid}
         /\ given' = [given EXCEPT ![pending] = sid]
    /\ sidCursor' = Wrap(sidCursor + 1)
    /\ pc' = "idle" /\ pending' = NoSID
    /\ UNCHANGED <<store, changed, restarts>>

-----------------------------------------------------------------------------
Crash ==
    /\ pc # "down" /\ restarts < MaxRestarts
    /\ sidCursor' = 0 /\ sidAllocationMap' = {} /\ sidTenantMap' = Nothing
    /\ pc' = "down" /\ pending' = NoSID
    /\ restarts' = restarts + 1
    /\ UNCHANGED <<store, changed, given>>

\* The operator edits the topology or the tenants file.
EditFiles ==
    /\ ~changed /\ changed' = TRUE
    /\ UNCHANGED <<memory, store, given, restarts>>

\* bootStore: a cold or a reset boot clears both tables in one transaction
\* that also stores the fingerprint; a warm boot leaves them.
BootStore ==
    /\ pc = "down" /\ pc' = "loading"
    /\ IF changed THEN db' = Nothing /\ dbCursor' = 0 /\ given' = Nothing
                  ELSE UNCHANGED <<store, given>>
    /\ changed' = FALSE
    /\ UNCHANGED <<sidCursor, sidAllocationMap, sidTenantMap, pending, restarts>>

\* Mutant: the allocations are loaded under the key of the tenant alone, as
\* if a tenant's SID were the same at every PE.
LoadPreviousStateByTenant ==
    /\ pc = "loading" /\ pc' = "idle"
    /\ sidCursor' = dbCursor
    /\ sidAllocationMap' = Stored
    /\ sidTenantMap' =
         [k \in Keys |->
            LET rows == {db[m] : m \in {m \in Keys : m[2] = k[2]}} \ {NoSID}
            IN IF rows = {} THEN NoSID ELSE CHOOSE sid \in rows : TRUE]
    /\ UNCHANGED <<pending, store, changed, given, restarts>>

\* NewController reads the cursor, LoadPreviousStateFromDB the allocations.
LoadPreviousState ==
    /\ pc = "loading" /\ pc' = "idle"
    /\ sidCursor' = dbCursor
    /\ sidAllocationMap' = Stored
    /\ sidTenantMap' = db
    /\ UNCHANGED <<pending, store, changed, given, restarts>>

Next ==
    \/ \E k \in Keys : ReturnExisting(k) \/ TooManyCollisions(k)
                       \/ Commit(k) \/ CommitFails(k)
    \/ Remember \/ Crash \/ EditFiles \/ BootStore \/ LoadPreviousState

\* The process is restarted and runs its steps; callers ask again at every
\* path set the PCE sends; a database that is asked again and again answers.
Fairness ==
    /\ WF_vars(Remember) /\ WF_vars(BootStore) /\ WF_vars(LoadPreviousState)
    /\ \A k \in Keys : SF_vars(Commit(k)) /\ SF_vars(TooManyCollisions(k))

Spec == Init /\ [][Next]_vars /\ Fairness

-----------------------------------------------------------------------------
\* A SID that a caller was given stays the SID of its key, in the database
\* and in memory whenever that is loaded, through failures and restarts up
\* to the next reset (getOrGenerateSID writes the database before memory).
SIDsAreSticky ==
    \A k \in Keys : given[k] # NoSID =>
        /\ db[k] = given[k]
        /\ pc \in {"idle", "remember"} => sidTenantMap[k] = given[k]

\* No SID is ever given to two tenants, nor one tenant's stored SID to
\* another: the collision map and the constraints of the table see to it
\* although the cursor's function repeats itself.
NoSharedSID ==
    \A k, m \in Keys : given[k] # NoSID /\ k # m =>
        given[m] # given[k] /\ db[m] # given[k]

\* A transaction whose outcome its caller never learnt: the row is stored,
\* memory does not know it.
LostAcknowledgement ==
    \E k \in Keys : pc = "idle" /\ db[k] # NoSID /\ sidTenantMap[k] = NoSID

\* A key is given a SID however often the function of the cursor collides:
\* a failed call moves the cursor, and the next call goes on from there.  Only
\* a lost acknowledgement can keep a key waiting, until the next restart.
EveryKeyIsServed ==
    \A k \in Keys : []<>(sidTenantMap[k] # NoSID \/ LostAcknowledgement)

\* The comment on hash.go's constants, "Hull-Dobell full-period LCG params":
\* the function of a SID that was just stored does not come back at the same
\* locator before the cursor has gone through the N - 1 others.
FullPeriod ==
    pc = "remember" =>
        \A d \in 1..(N - 1) :
            SIDAt(pending, Wrap(sidCursor + d)) # SIDAt(pending, sidCursor)

=============================================================================
