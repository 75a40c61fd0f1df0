SPECIFICATION FairSpec
CONSTANTS
  quick = quick  stuck = stuck
  Requests = {quick, stuck}
  Stuck = {stuck}
PROPERTIES EndsWithServer CancelEnds
INVARIANTS TypeOK CutForAReason EndsAfterListen CompletedIsDrained BlocksOnlyInWaits
