\* Streams a and b belong to process p, c to another. Four settings are enough to
\* tell apart what three nested streams found.
CONSTANTS
  a = a
  b = b
  c = c
  p = p
  q = q
  Stream = {a, b, c}
  Process = {p, q}
  Owner <- OwnerDef
  Writer = {b, c}
  Line = {"9600"}
  Wait = {"one", "blocks"}
  OneByte = "one"
  Unset = Unset
SPECIFICATION Spec
INVARIANT TypeOK
INVARIANT GivenBack
PROPERTY IsStack
PROPERTY SentAsWritten
CHECK_DEADLOCK FALSE
