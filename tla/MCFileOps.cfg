SPECIFICATION Spec
CONSTANTS
  Worker = {w1, w2}
  f = f
  l = l
  n = n
  u = u
  v = v
  Path = {f, l, n}
  MNT = MNT
  Ino = {i1, i2, i3}
  User = {root, u, v}
  Mounter = root
  Settings <- AllSettings
  Request <- AllRequests
  Source <- AllSources
  SourceMode <- Executable
  MaxFds = 1
SYMMETRY WorkerSymmetry
INVARIANTS TypeOK NoFdLeak DeletionPolicy FailureLeavesNoTrace ChownPolicy
PROPERTIES  OwnFileChowned
