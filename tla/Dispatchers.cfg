\* A worker and a gateway deliver from the same ledger; each may stop halfway.
SPECIFICATION FairQuietSpec
CONSTANTS
  e1 = e1
  p1 = p1
  w1 = w1
  g1 = g1
  Event = {e1}
  Endpoint = {p1}
  Worker = {w1}
  Gateway = {g1}
  NoEvent = NoEvent
  NoTry = NoTry
  MaxAttempts = 3
  AutoDisableAfter = 1
  MaxReplays = 2
  MaxCrashes = 2
INVARIANTS
  SettledHonestly
  LedgerConsistent
PROPERTIES
  DeliveriesSettle
  OwedIsSettled
