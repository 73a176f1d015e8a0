CONSTANTS
  Modes = {"manual", "auto", "check"}
  FaultSets = {{"crash"}, {"crash", "store"}}
SPECIFICATION FairSpec
INVARIANTS ClickIsMarked OutcomeIsTrue CompletionIsKept
PROPERTIES RevocationPreventsClick JobFollowsLifecycle JobEnds BrowserStops
