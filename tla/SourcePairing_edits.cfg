SPECIFICATION EditsSpec
CONSTANTS None = None  Server = {s1, s2}  Chat = {c1}  Editor = {e1, e2}  MaxJobs = 1  MaxWaits = 1
INVARIANTS PairingBelongsToInbox
CHECK_DEADLOCK FALSE
