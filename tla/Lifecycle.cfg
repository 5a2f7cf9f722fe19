SPECIFICATION FairSpec
CONSTANTS
  s1 = s1
  s2 = s2
  nginx = nginx
  other = other
  Rules = {s1, s2}
  Hostless = Hostless
  Class = {nginx, other, Disabled}
  Watched = {nginx, Disabled}
  Disabled = Disabled
  NoClass = NoClass
  Options <- AllOptions
  MaxEvents = 4
  MaxUid = 2
  MaxCrashes = 1
INVARIANTS TypeOK CacheSound FirstTranslated SavedOriginal RemovalKeepsRoute NoRouteLeftBehind
PROPERTIES HandoverOfCurrentRules WantedDeletionCompletes
CHECK_DEADLOCK FALSE
