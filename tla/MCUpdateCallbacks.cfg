SPECIFICATION FairSpec
CONSTANTS
  Pairs = {p1, p2}
  Max = 4
INVARIANTS TypeOK HookMatchesTable
PROPERTIES DispatchEnds CalledAtMostOnce MissedOnlyByRemoval ImplementsRegistry
