\* A name that does not resolve for a moment.
SPECIFICATION Spec
CONSTANTS
  e1 = e1
  p1 = p1
  w1 = w1
  Event = {e1}
  Endpoint = {p1}
  Worker = {w1}
  Gateway = {}
  NoEvent = NoEvent
  NoTry = NoTry
  MaxAttempts = 2
  AutoDisableAfter = 2
  MaxReplays = 0
  MaxCrashes = 0
INVARIANTS
  NothingSilentlyDropped
