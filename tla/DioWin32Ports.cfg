\* Streams a and b belong to process p, c to another.
CONSTANTS
  a = a
  b = b
  c = c
  p = p
  q = q
  Stream = {a, b, c}
  Process = {p, q}
  Owner <- OwnerDef
  Line = {"9600", "115200"}
  Rest = {"plain", "dtr"}
  Plain = "plain"
  Timeouts = {"wait", "return"}
  Unset = Unset
SPECIFICATION Spec
INVARIANT TypeOK
INVARIANT GivenBack
INVARIANT HeldForSomebody
PROPERTY IsStack
CHECK_DEADLOCK FALSE
