\* Three calls over one directory, any request each.
SPECIFICATION Spec
CONSTANTS
  c1 = c1
  c2 = c2
  c3 = c3
  p1 = p1
  p2 = p2
  f1 = f1
  n1 = n1
  n2 = n2
  Call = {c1, c2, c3}
  Proc = {p1, p2}
  SingleThreaded = {p1, p2}
  Name = {n1, n2}
  Unset = Unset
  NoPack = NoPack
  ProcOf <- ProcOfCall
  FolderOf <- FolderOfCall
  SlugOf <- OwnSlug
  OutsideValue <- Outside
CHECK_DEADLOCK FALSE
SYMMETRY Symmetry
INVARIANTS
  TypeOK
  EnvironmentRestored
  PartialPackHasCause
  ReturnedPackExists
PROPERTY OverwritePublishesOwnPack
