SPECIFICATION Spec
CONSTANTS
  NoTag = NoTag  AnyVersion = AnyVersion
  Names <- MCNames
  MaxChanges = 2
PROPERTY ImplementsTagChoice
INVARIANTS TypeOK ExactVersionPulled LatestPulled ResolvesAsSpecified
