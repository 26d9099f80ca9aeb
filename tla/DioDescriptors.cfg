\* Descriptor 0 is the worker's own; 1 and 2 are free when the script starts.
\* dio_fdopen is given 0 (the worker's) and 5, which the cast to int makes 1.
CONSTANTS
  MaxFd = 2
  Inherited = {0}
  MaxHandle = 3
  MaxFile = 3
  MaxOwnerless = 2
  FdopenNumbers = {0, 5}
  IntModulus = 4
SPECIFICATION Spec
INVARIANT TypeOK
INVARIANT AliasContainment
INVARIANT SoleOwner
INVARIANT NoOrphan
INVARIANT RequestIsolation
INVARIANT InheritedKept
PROPERTY ShutdownReleases
CHECK_DEADLOCK FALSE
