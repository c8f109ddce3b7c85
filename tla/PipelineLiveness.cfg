\* Three tries and a re-queue of one job by a fair worker that may die once; a dispatch
\* fans out one event, and the retries may leave several waiting.
SPECIFICATION FairSpec
CONSTANTS
  c1 = c1
  w1 = w1
  Conv = {c1}
  Ref = {}
  Worker = {w1}
  NoConv = NoConv
  NoRef = NoRef
  MaxAttempts = 3
  FanOutLimit = 1
  MaxRequeues = 1
  MaxCrashes = 1
PROPERTIES
  JobsSettle
  EventsFanOut
