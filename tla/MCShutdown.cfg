SPECIFICATION FairSpec
CONSTANTS
    Users = {u1}
    Listeners = {l1}
    Stoppers = {t1}
    Hook = hook
    Console = console
    None = None
    MaxReloads = 1
INVARIANTS TypeOK WholeStop LocationsKept NobodyLeft
PROPERTY StopHalts
