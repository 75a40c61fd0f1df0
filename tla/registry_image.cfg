SPECIFICATION Spec
CONSTANTS
  p1 = p1  p2 = p2  q1 = q1  q2 = q2  a = a  b = b  Corrupt = Corrupt  NoImage = NoImage
  Pushers = {p1, p2}
  Pullers = {q1, q2}
  WasmOf <- MCWasmOf
  Foreign <- MCForeign
SYMMETRY Actors
PROPERTY ImplementsImageStore
INVARIANTS TypeOK TaggedComplete PulledWhole
