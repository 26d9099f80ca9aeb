\* All options and all calls, of a script that keeps reading.  A tick is half a
\* second, so a timeout of 3 needs both fields of a timeval; a call asks for two
\* bytes and can get one.
CONSTANTS
  SizeModulus = 16
  Asked = {2}
  TickUsec = 500000
  StartClocks = {1}
  Limits = {3}
  MayDisable = TRUE
  MayLimit = TRUE
  MayBlock = TRUE
  MaxInput = 2
  MaxRoom = 1
  MaxClock = 3
  MaxSignal = 1
  MaxSteal = 1
SPECIFICATION ReadingSpec
INVARIANT TypeOK
INVARIANT ReadsIntoTheRest
PROPERTY CallAccounts
PROPERTY CallsReturn
PROPERTY EndIsSeen
