SPECIFICATION FairSpec
CONSTANTS
  Client = {c1, c2}
  Local = {p}
  Worker = {w1, w2}
  Calls = {{"flock"}, {"lock"}}
  BINDFS = BINDFS
INVARIANTS TypeOK FcntlExclusion
PROPERTIES ImplementsTable UnlockServed
