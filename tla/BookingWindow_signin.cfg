SPECIFICATION FairSpec
CONSTANTS None = None  Bookings <- Timings  Second = 2  Release = 4  DayEnd = 8
  Lifetime = 3  Grace = 3  InputBudget = 1  ActionTimeout = 1  MaxTime = 24
CHECK_DEADLOCK FALSE
PROPERTIES NoLateSignIn
