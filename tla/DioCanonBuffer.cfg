\* Reads take parts of either block of the ring, all of it, and, with a count
\* larger than what it can hold, whatever there is, as PHP's own reads do.
CONSTANTS
  Size = 4
  Counts = {1, 2, 4}
  Incoming = {"x", "cr"}
  MaxWire = 1
SPECIFICATION Spec
INVARIANT TypeOK
INVARIANT WaitsAsTold
INVARIANT NothingHidden
PROPERTY LineEnds
PROPERTY IsQueue
PROPERTY DeliversALine
