\* One visit over two connections with a crash; three people, two invites, four audit entries.
SPECIFICATION WorkspaceSpec
CONSTANTS
  v1 = v1  s1 = s1  s2 = s2  p1 = p1  p2 = p2  p3 = p3
  NoVisit = NoVisit
  Visit = {v1}
  Socket = {s1, s2}
  Field = {"name"}
  MaxSeq = 1
  MaxTries = 2
  MaxVisitCrashes = 1
  NoUser = NoUser
  Person = {p1, p2, p3}
  Invite = {"i1", "i2"}
  Role = {"manager", "sales"}
  Manager = {"manager"}
  MaxEntries = 4
  MaxWaiting = 1
SYMMETRY Symmetry
INVARIANTS
  OneJobPerVisit CompleteIsStored NeverOverMetered
  RolesAreGranted InviteOnce LoggedOutStaysOut ForksNeedTwoWriters
PROPERTIES ManualWins ProcessingResolves
CHECK_DEADLOCK FALSE
