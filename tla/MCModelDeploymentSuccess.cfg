\* What the log claims after a failed deployment.
SPECIFICATION Spec
CONSTANTS
  c1 = c1
  c2 = c2
  v1 = v1
  v2 = v2
  d1 = d1
  Call = {c1, c2}
  Version = {v1, v2}
  Cwd = {d1}
  Stage = Stage
  None = None
  Torn = Torn
  Unnamed = Unnamed
  CwdOf <- SharedCwd
  UriOf <- OwnVersion
INVARIANT SuccessMeansDeployed
