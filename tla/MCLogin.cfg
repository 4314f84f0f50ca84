SPECIFICATION FairSpec
CONSTANTS
  c1 = c1
  c2 = c2
  c3 = c3
  Bob = Bob
  bob = bob
  Eve = Eve
  kBob = kBob
  kEve = kEve
  None = None
  Client = {c1, c2}
  Name = {Bob, bob, Eve}
  Folded = {kBob, kEve}
  Fold <- MCFold
  Canon <- MCCanon
  Modes = {TRUE, FALSE}
INVARIANTS OneStepAtATime OnlineIsAuthenticated RegisteredIsConnected
PROPERTIES RemovalKeepsOthers KickedNeverJoins LoginResolves
