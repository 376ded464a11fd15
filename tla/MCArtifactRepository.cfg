\* Three clients of three runs, any calls in any order.
SPECIFICATION Spec
CONSTANTS
  c1 = c1
  c2 = c2
  c3 = c3
  Client = {c1, c2, c3}
  None = None
  UriOf <- Uris
  OpsOf <- Ops
  TreeOf <- Trees
  PathsOf <- Paths
CHECK_DEADLOCK FALSE
INVARIANTS
  TypeOK
  LoggedAtTop
  ListsAllBelow
PROPERTIES
  DeletesAtLocation
  ImplementsRunArtifacts
