\* One worker, no crash: a step after the erasure raises.
SPECIFICATION Spec
CONSTANTS
  c1 = c1
  w1 = w1
  Conv = {c1}
  Ref = {}
  Worker = {w1}
  NoConv = NoConv
  NoRef = NoRef
  MaxAttempts = 3
  FanOutLimit = 100
  MaxRequeues = 0
  MaxCrashes = 0
INVARIANT DeletionIsAudited
