SPECIFICATION Spec
CONSTANTS
  NoTag = NoTag  AnyVersion = AnyVersion
  Names <- MCNames
  MaxChanges = 0
INVARIANT RequestedTagPulled
