SPECIFICATION Spec
CONSTANTS
  s1 = s1
  s2 = s2
  s3 = s3
  r1 = r1
  r2 = r2
  None = None
  Steps = {s1, s2, s3}
  Side = {s2}
  Retired = {s3}
  Requests = {r1, r2}
  Overlaps <- CardsOverlap
  Prices <- OnePrice
  MaxCards = 2
  MaxEdits = 1
  MaxCrashes = 1
INVARIANTS
  HandedInHasACard
  PaidForWhatIsDone
PROPERTIES
  FrozenInTheQueue
  SideQuestIsNoTrap
  EveryDayIsHandedIn
CHECK_DEADLOCK FALSE
