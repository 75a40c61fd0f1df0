SPECIFICATION FairSpec
CONSTANTS
  r1 = r1  r2 = r2  hung = hung  good = good  bad = bad  plain = plain  NoRef = NoRef  Nobody = Nobody
  Requests = {r1, r2}
  Refs = {hung, good, bad, plain}
  NotOCI = {plain}
  Malformed = {bad}
  Pinned = {good}
  Hung = {hung}
  MaxRevision = 1
PROPERTY Answered
INVARIANT BlocksOnlyInWaits
