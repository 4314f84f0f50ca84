SPECIFICATION FairSpec
CONSTANTS
    Users = {u1}
    Listeners = {l1, l2}
    Stoppers = {t1}
    Hook = hook
    Console = console
    None = None
    MaxReloads = 1
PROPERTY SystemObtainsLock
