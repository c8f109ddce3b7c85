\* A fair worker that dies once while it holds a job.
SPECIFICATION FairSpec
CONSTANTS
  c1 = c1
  w1 = w1
  Conv = {c1}
  Ref = {}
  Worker = {w1}
  NoConv = NoConv
  NoRef = NoRef
  MaxAttempts = 2
  FanOutLimit = 100
  MaxRequeues = 0
  MaxCrashes = 1
PROPERTY EveryJobSettles
