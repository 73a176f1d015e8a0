SPECIFICATION RetrySpec
CONSTANTS i1 = i1 i2 = i2 j1 = j1 j2 = j2 Nothing = Nothing
  Profile = {i1, i2}  Job = {j1, j2}  ProfileOf <- Profiles  Cleaner = {c1}
  Found = {"none", "host"}  MaxFaults = 1
PROPERTIES RemovalsAreRetried
