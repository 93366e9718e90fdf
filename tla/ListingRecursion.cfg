SPECIFICATION FairSpec
CONSTANTS
  Client = {c1}
  Worker = {w1}
  Name = {a, b}
  Beneath = b
  ROOT = ROOT
  Kinds = {"file", "toMount"}
  ChangedKinds = {}
  Settings <- Resolving
  MaxChanges = 0
CHECK_DEADLOCK FALSE
PROPERTY RecursionAnswered
