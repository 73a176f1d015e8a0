SPECIFICATION LakeLoadSpec
CONSTANTS Nil = Nil  Profile = {p1, p2}  Phone = {n1, n2}  Request = {r1, r2}
  Started = {"create", "edit", "choose", "update", "reset", "book", "sign-in", "view"}
  MaxJobs = 2  MaxEdits = 2
SYMMETRY Symmetry
CHECK_DEADLOCK FALSE
INVARIANTS VerifiedWithSavedNumber
PROPERTIES BookedAsSaved
