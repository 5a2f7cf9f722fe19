SPECIFICATION Spec
CONSTANTS
  r1 = r1
  r2 = r2
  Route = {r1, r2}
  Tls = {r1, r2}
  NoOwner = NoOwner
  MaxEvents = 4
  MaxFails = 1
  MaxAdmissions = 1
SYMMETRY Symmetry
INVARIANTS TypeOK SecretsReadable
PROPERTIES ForeignGrantUntouched SourcesKept
CHECK_DEADLOCK FALSE
