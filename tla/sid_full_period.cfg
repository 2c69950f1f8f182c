SPECIFICATION Spec
CONSTANTS
    l1 = l1
    l2 = l2
    t1 = t1
    t2 = t2
    Locators = {l1}
    Tenants = {t1}
    Width = 65536
    Low = 61441
    N = 4095
    A = 1366
    C = 1247
    MaxSIDCollisionChecks = 5
    MaxRestarts = 2
    NoSID = NoSID
INVARIANT
    FullPeriod
