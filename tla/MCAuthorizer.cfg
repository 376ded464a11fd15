\* Two calls, any two of a dozen requests, memberships changing all the time.
SPECIFICATION Spec
CONSTANTS
  c1 = c1
  c2 = c2
  p1 = p1
  p2 = p2
  g1 = g1
  g2 = g2
  Call = {c1, c2}
  Principal = {p1, p2}
  Group = {g1, g2}
  GROUP_IDS = {g1}
  None = None
  Request <- Requests
SYMMETRY CallSymmetry
INVARIANTS
  TypeOK
  MembersAreNotRefused
PROPERTY ImplementsAccessDecision
