CONSTANTS
  SizeModulus = 16
  Asked = {1, 2}
  TickUsec = 250000
  StartClocks = {3}
  Limits = {}
  MayDisable = FALSE
  MayLimit = FALSE
  MayBlock = FALSE
  MaxInput = 2
  MaxRoom = 2
  MaxClock = 6
  MaxSignal = 1
  MaxSteal = 1
SPECIFICATION Spec
PROPERTY ReadOutlivesSignals
