SPECIFICATION FairSpec
CONSTANTS
  s1 = s1
  s2 = s2
  s3 = s3
  c1 = c1
  c2 = c2
  c3 = c3
  c4 = c4
  t1 = t1
  NoServer = NoServer
  NoConn = NoConn
  NoQueue = NoQueue
  Server = {s1, s2, s3}
  Conn = {c1, c2}
  Thread = {t1}
  Priority <- MCPriority
  Messaged = {s2}
  PluginActs = {"connect", "disconnect", "sendData"}
  BackendActs = {"refuse", "unresolved", "kick", "exception", "close", "outdatedForge"}
INVARIANTS PacketsLeave
PROPERTIES NeverStranded JoinResolves NoLeak
CHECK_DEADLOCK FALSE
