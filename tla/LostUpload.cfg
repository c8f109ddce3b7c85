\* A handler that stops between its two tables, and a device that retries.
SPECIFICATION Spec
CONSTANTS
  c1 = c1
  c2 = c2
  r1 = r1
  w1 = w1
  Conv = {c1, c2}
  Ref = {r1}
  Worker = {w1}
  NoConv = NoConv
  NoRef = NoRef
  MaxAttempts = 2
  FanOutLimit = 100
  MaxRequeues = 0
  MaxCrashes = 0
INVARIANT AcknowledgedIsQueued
