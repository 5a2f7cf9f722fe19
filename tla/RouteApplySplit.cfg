SPECIFICATION Spec
CONSTANTS
  Limit = 2
  MaxRules = 5
  MaxEdits = 3
  MaxFails = 1
  MaxTakes = 1
INVARIANTS TypeOK SplitHasNoStalePart RulesPartitioned
CHECK_DEADLOCK FALSE
