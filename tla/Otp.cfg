SPECIFICATION PartSpec
CONSTANTS MaxChallenges = 2
  None = None  Server = {s1, s2}  Chat = {c1, c2}  Editor = {e1}  MaxJobs = 1  MaxWaits = 2
  PageLimit = 1  MaxPages = 2  Freshness = 1  Lags <- LagsDef  MaxRows = 4  MaxTime = 3
INVARIANTS NoSequenceError CursorSeparatesCodes
PROPERTIES ChallengesAreAnswered ShownCodeDisappears OnlyTheChoiceIsKept PersistedWhereFound CandidatesAreRemoved KeepsContract CodeIsFound
CHECK_DEADLOCK FALSE
