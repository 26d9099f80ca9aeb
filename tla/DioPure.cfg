\* Fields around their limits: zero, one, a millisecond, a second less one.
\* IntHalf is scaled down from 2^31, which TLC's numbers do not hold twice.
CONSTANTS
  Secs = {0, 1, 2, 59}
  Usecs = {0, 1, 999, 1000, 500000, 999000, 999999}
  BasicValues <- BasicDef
  SerialValues <- SerialDef
  Found <- FoundDef
  IntHalf = 1048576
SPECIFICATION Spec
INVARIANT DifferenceOrZero
INVARIANT PosixOpensAsFopen
INVARIANT Win32OpensAsFopen
INVARIANT PurgesWhatItOpened
INVARIANT LineAsTold
INVARIANT SameLine
