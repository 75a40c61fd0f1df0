SPECIFICATION Spec
CONSTANTS
  r1 = r1  r2 = r2  latest = latest  plain = plain  NoRef = NoRef  Nobody = Nobody
  Requests = {r1, r2}
  Refs = {latest, plain}
  NotOCI = {plain}
  Malformed = {}
  Pinned = {}
  Hung = {}
  MaxRevision = 1
INVARIANT AssertionHolds
