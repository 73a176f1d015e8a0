CONSTANTS
  Modes = {"manual"}
  FaultSets = {{}}
SPECIFICATION Spec
INVARIANTS LeaseOutlivesBrowser
