\* One conversation through the whole enterprise pipeline.
SPECIFICATION FairSpec
CONSTANTS
  c1 = c1
  Conv = {c1}
  Channel = {"whatsapp"}
  Eraser = {"erasure"}
  Retrier = {"retry"}
  Deployments <- RoutingOrErasure
  MaxAttempts = 1
  ListLimit = 100
  MaxCrashes = 1
CHECK_DEADLOCK FALSE
INVARIANTS
  Inv
  NoStrandedAudio
  NoUnverifiedWhatsApp
  GroundedRouting
PROPERTIES
  DeadLetteredAfterAllTries
  EveryConversationEnds
  RoutesSettle
