SPECIFICATION Spec
CONSTANTS
  Name = {h1}
  Source = {Defined, Only}
  Only = Only
  None = None
  Modes = {"dns", "disable"}
  CommandLines <- Documented
  MaxEvents = 1
  MaxRuns = 2
INVARIANTS TypeOK NamePublished
PROPERTIES RestoreInverse DeletedIsServed
CHECK_DEADLOCK FALSE
