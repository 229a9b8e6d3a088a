CONSTANTS
  Requests = {r1, r2, r3}
  NoOwner = NoOwner
SPECIFICATION Spec
SYMMETRY Symmetry
INVARIANT StatusWriterHonoursStop
