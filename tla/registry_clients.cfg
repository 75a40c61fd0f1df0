SPECIFICATION Spec
CONSTANTS
  d1 = d1  d2 = d2  Root = Root  Absent = Absent
  Downloads = {d1, d2}
  MaxEdits = 2
SYMMETRY Symmetry
CHECK_DEADLOCK FALSE
INVARIANTS TypeOK FlagsHonoured CredentialsCurrent
