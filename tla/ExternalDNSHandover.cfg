SPECIFICATION FairSpec
CONSTANTS
  Name = {h1}
  Source = {Defined, Only}
  Only = Only
  None = None
  Modes = {"dns"}
  CommandLines <- Documented
  MaxEvents = 0
  MaxRuns = 0
PROPERTY HandoverHappens
CHECK_DEADLOCK FALSE
