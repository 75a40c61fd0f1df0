SPECIFICATION Spec
CONSTANTS
  r1 = r1  r2 = r2  r3 = r3  latest = latest  plain = plain  NoRef = NoRef  Nobody = Nobody
  Requests = {r1, r2, r3}
  Refs = {latest, plain}
  NotOCI = {plain}
  Malformed = {}
  Pinned = {}
  Hung = {}
  MaxRevision = 2
SYMMETRY RequestSymmetry
PROPERTY ImplementsSharedAnswer
INVARIANTS TypeOK SingleFlight WaitersHaveALeader ServedFresh AgreedAnswer NeverBackwards ClientIsSet OneFilePerDownload
