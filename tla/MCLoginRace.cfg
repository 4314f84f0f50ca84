SPECIFICATION Spec
CONSTANTS
  c1 = c1
  c2 = c2
  c3 = c3
  Bob = Bob
  bob = bob
  Eve = Eve
  kBob = kBob
  kEve = kEve
  None = None
  Client = {c1, c2}
  Name = {Bob}
  Folded = {kBob, kEve}
  Fold <- MCFold
  Canon <- MCCanon
  Modes = {FALSE}
INVARIANT OneUserPerName
