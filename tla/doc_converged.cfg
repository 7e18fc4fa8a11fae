SPECIFICATION Spec
CONSTANTS
  k1 = k1  k2 = k2  k3 = k3  s1 = s1  s2 = s2
  Domain = {1, 2, 3}
  Product = {4}
  Term = {5, 6, 7}
  Key = {k1, k2, k3}
  Soft = {s1, s2}
  Unmanaged = Unmanaged
  Unset = Unset
  NoLink = NoLink
  Missing = Missing
  Uninterpreted = Uninterpreted
  Absent = Absent
  None = None
  MaxDomains = 3
  MaxDepth = 2
  Inputs <- NotOwned
  Approved <- OtherConfigurations
  MaxInterruptions = 2
INVARIANTS
  AppliedPlansConverge
CHECK_DEADLOCK FALSE
