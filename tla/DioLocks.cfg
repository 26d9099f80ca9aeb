CONSTANTS
  a = a
  b = b
  c = c
  p = p
  q = q
  d = d
  e = e
  Handle = {a, b, c}
  Process = {p, q}
  Owner <- OwnerDef
  Desc = {d, e}
  NoDesc = NoDesc
  Counts = {1}
  Positions <- PositionsDef
  MaxOffset = 1
  Starts = {0}
  Lengths <- LengthsDef
  Nobody = Nobody
SYMMETRY Symmetry
SPECIFICATION Spec
INVARIANT TypeOK
INVARIANT ClaimsHold
INVARIANT ClaimsExclude
INVARIANT NoLockLeftBehind
CHECK_DEADLOCK FALSE
