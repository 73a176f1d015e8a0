SPECIFICATION PartSpec
CONSTANTS Requests = {r1, r2}  Names = {"ann", "bob"}  Passwords = {"p", "q"}
  Ops = {"setup", "login", "create", "update", "delete", "username", "password", "reset", "page", "logout"}
  MaxUsers = 2  MaxHashes = 4  MaxSessions = 3  MaxTime = 3  Lifetime = 3  IdleTimeout = 2
  Window = 2  Retention = 2  SessionLimit = 2  UserLimit = 1  AddressLimit = 2  SetupLimit = 2  WorkLimit = 1
  p3 = p3  Absent = Absent  Process = {p1, p2, p3}  Version <- Releases
  Key = {k1, k2, k3, k4}  MaxMishaps = 3
SYMMETRY Symmetry
INVARIANTS SessionsFollowPassword OnePermanentAdmin LimitsHold OneKey MigratedInOrder
PROPERTIES TemporaryPasswordStands DeadSessionsStayDead
