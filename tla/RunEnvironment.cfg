SPECIFICATION PartSpec
CONSTANTS None = None  Bookings <- Timings  Second = 2  Release = 4  DayEnd = 8
  Lifetime = 3  Grace = 3  InputBudget = 1  ActionTimeout = 1  MaxTime = 24
  i1 = i1 i2 = i2 j1 = j1 j2 = j2 Nothing = Nothing
  Profile = {i1, i2}  Job = {j1, j2}  ProfileOf <- Profiles  Cleaner = {c1}
  Found = {"none", "host"}  MaxFaults = 1
  Client = {p1}  MaxEvents = 4  Keep = 3  PageSize = 2  Buffer = 2
  PollInterval = 2  FinishTimeout = 5  EventTimeout = 3  MaxStreamsPerUser = 1  MaxStreams = 2  MaxBreaks = 2
INVARIANTS TimingIsAccepted KeepsToItsWindow RunsKeepTheirDirectories PagesMissNothing
PROPERTIES SignInIsBounded RunsEnd OwnedAndForeignAreKept LeftoversAreRemoved PagesLearnTheEnd
