\* Two workers over one queue file compete for one conversation.
SPECIFICATION Spec
CONSTANTS
  c1 = c1
  w1 = w1
  w2 = w2
  Conv = {c1}
  Ref = {}
  Worker = {w1, w2}
  NoConv = NoConv
  NoRef = NoRef
  MaxAttempts = 2
  FanOutLimit = 100
  MaxRequeues = 0
  MaxCrashes = 1
SYMMETRY Symmetry
INVARIANTS
  NoRecordingLost
  DoneIsComplete
  StrandedOnlyByCrash
  Inv
