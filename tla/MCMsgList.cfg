CONSTANTS
  Cells = {c1, c2, c3, c4}
  MsgTypes = {CALLBACK, HALT}
  NULL = NULL
  Watermark = 3
  PoolMax = 2
SPECIFICATION ListSpec
INVARIANT ListIsSequence
SYMMETRY Symmetry
