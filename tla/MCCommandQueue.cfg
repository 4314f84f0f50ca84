SPECIFICATION FairSpec
CONSTANTS
  a1 = a1
  a2 = a2
  local = local
  None = None
  Addresses = {a1, a2, local}
  Whitelist = {local}
  MaxReloads = 1
INVARIANT NoCommandLost
PROPERTY QueueDrains
CHECK_DEADLOCK FALSE
