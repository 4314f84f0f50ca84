SPECIFICATION Spec
CONSTANTS
  s1 = s1
  s2 = s2
  s3 = s3
  c1 = c1
  c2 = c2
  c3 = c3
  c4 = c4
  t1 = t1
  NoServer = NoServer
  NoConn = NoConn
  NoQueue = NoQueue
  Server = {s1, s2}
  Conn = {c1, c2, c3}
  Thread = {t1}
  Priority <- MCPriority
  Messaged = {}
  PluginActs = {"cancelConnect", "retarget", "redirectKick", "connect", "disconnect"}
  BackendActs = {"refuse", "unresolved", "moved", "kick", "kickOutdated", "exception", "close", "closeEarly", "outdatedForge"}
INVARIANTS TypeOK OneLiveServer PlayersMatchBridges PendingIsUnderWay LostServerIsFatal
PROPERTIES GoneUserNeverJoins
SYMMETRY Slots
CHECK_DEADLOCK FALSE
