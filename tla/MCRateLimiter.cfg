SPECIFICATION FairSpec
CONSTANTS
  Worker = {w1, w2}
  Size <- MCSize
  Credit = 1
  Jump <- MCJump
  MaxUnits = 2
  MaxTime = 2
  MaxJumps = 1
INVARIANTS TypeOK WindowBound NoExcessDelay
PROPERTIES RequestReturns
