SPECIFICATION Spec
CONSTANTS
  w1 = w1  w2 = w2  w3 = w3  Existing = Existing  Gap = Gap  Absent = Absent
  Writers = {w1, w2, w3}
  Blocks = 2
  CrossDevice = FALSE
SYMMETRY WriterSymmetry
PROPERTY ImplementsAtomicFile
INVARIANTS TypeOK DestinationComplete
