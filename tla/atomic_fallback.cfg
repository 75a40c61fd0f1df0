SPECIFICATION Spec
CONSTANTS
  w1 = w1  w2 = w2  Existing = Existing  Gap = Gap  Absent = Absent
  Writers = {w1, w2}
  Blocks = 2
  CrossDevice = TRUE
INVARIANTS WrittenWhenAlone LeftoversAreHarmless
