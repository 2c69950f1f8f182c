SPECIFICATION Spec
CONSTANTS
    l1 = l1
    l2 = l2
    t1 = t1
    t2 = t2
    Locators = {l1, l2}
    Tenants = {t1, t2}
    Width = 8
    Low = 5
    N = 3
    A = 4
    C = 1
    MaxSIDCollisionChecks = 2
    MaxRestarts = 2
    NoSID = NoSID
INVARIANTS
    TypeOK
    SIDsAreSticky
    NoSharedSID
PROPERTY
    EveryKeyIsServed
