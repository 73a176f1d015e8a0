CONSTANTS
  admin = admin  member = member  p1 = p1  p2 = p2  s1 = s1  s2 = s2
  Users = {admin, member}
  Admin = admin
  Profiles = {p1, p2}
  Sources = {s1, s2}
  Owner <- MemberOwnsAll
  Dates = {0}
  Commands = {"book", "dry-run"}
  MaxJobs = 3
  MaxTime = 5
  MaxPending = 2
  MaxHistory = 1
  MaxRetained = 3
SPECIFICATION LoadSpec
INVARIANTS LeaseExclusive OneConfirmationPerDate DisabledWorkIsRevoked
PROPERTIES OnlySuccessesDetach TerminalIsFinal EveryJobFollowsLifecycle
SYMMETRY Symmetry
CHECK_DEADLOCK FALSE
