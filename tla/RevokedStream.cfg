\* One person logs in, logs out and opens a stream with the token.
SPECIFICATION ConsoleSpec
CONSTANTS
  p1 = p1
  NoUser = NoUser
  Person = {p1}
  Invite = {}
  Role = {"manager", "sales"}
  Manager = {"manager"}
  MaxEntries = 2
  MaxWaiting = 1
INVARIANTS
  StreamsRevalidate
CHECK_DEADLOCK FALSE
