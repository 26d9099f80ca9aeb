CONSTANTS
  SizeModulus = 16
  Asked = {1, 2}
  TickUsec = 250000
  StartClocks = {3}
  Limits = {3}
  MayDisable = FALSE
  MayLimit = FALSE
  MayBlock = FALSE
  MaxInput = 2
  MaxRoom = 2
  MaxClock = 6
  MaxSignal = 0
  MaxSteal = 0
SPECIFICATION Spec
PROPERTY TimedOutInTime
