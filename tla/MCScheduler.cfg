SPECIFICATION FairSpec
CONSTANTS
  once = once
  repeated = repeated
  plugin = plugin
  h1 = h1
  None = None
  Tasks = {once, repeated}
  Plugins = {plugin}
  Owner <- MCOwner
  Periodic = {repeated}
  Threads = {h1}
INVARIANTS TypeOK EntriesMatchFlags EntriesAreAlive OneLateRun LateStartNeedsTwoPools
PROPERTIES CancelledTasksEnd
