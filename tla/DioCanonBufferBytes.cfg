CONSTANTS
  Size = 3
  Counts = {3}
  Incoming = {"x", "nl"}
  MaxWire = 2
SPECIFICATION Spec
PROPERTY DeliversOldest
