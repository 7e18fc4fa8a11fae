SPECIFICATION Spec
CONSTANTS
  p1 = p1  p2 = p2  b1 = b1  b2 = b2
  DataSource = {1, 2}
  Rule = {3}
  RuleSet = {4}
  Scan = {5}
  Parent <- OfFirst
  Place = {p1, p2}
  Body = {b1, b2}
  Absent = Absent
  Missing = Missing
  UnsupportedKind = UnsupportedKind
  MisplacedKind = MisplacedKind
  UnsupportedType = UnsupportedType
  NoAfter = NoAfter
  None = None
  Inputs <- PlannerInputs
INVARIANTS
  OnlyForeignKindsFailValidation
  ReadyPlansTouchOwnResourcesOnly
  ReadyPlansConverge
  NeedsComeFirst
  CreatesWereLookedFor
CHECK_DEADLOCK FALSE
