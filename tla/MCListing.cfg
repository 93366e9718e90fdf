SPECIFICATION FairSpec
CONSTANTS
  Client = {c1}
  Worker = {w1, w2}
  Name = {a, b}
  Beneath = b
  ROOT = ROOT
  Kinds <- Kind
  ChangedKinds = {"absent", "file", "toFile"}
  Settings <- Options
  MaxChanges = 1
CHECK_DEADLOCK FALSE
INVARIANTS TypeOK ListingExact 
PROPERTIES RequestsAnswered
