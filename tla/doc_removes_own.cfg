SPECIFICATION Spec
CONSTANTS
  p1 = p1  p2 = p2  p3 = p3
  Process = {p1, p2, p3}
  alias = alias
  Path = {"config.yaml", "plan.json", "remote.json", "result.json", "missing/file", alias}
  Location = {"config.yaml", "plan.json", "remote.json", "result.json", "missing/file"}
  Resolve <- Names
  Unusable = {"missing/file"}
  State = {1, 2, 3}
  None = None
  NoFile = NoFile
  Torn = Torn
  User = User
  Scenarios <- TogetherOnOneFolder
  MaxEdits = 0
PROPERTIES
  RemovesOnlyItsOwn
CHECK_DEADLOCK FALSE
