\* The same instance, asked for the paths below the top.
SPECIFICATION Spec
CONSTANTS
  c1 = c1
  c2 = c2
  c3 = c3
  Client = {c1, c2, c3}
  None = None
  UriOf <- Uris
  OpsOf <- Ops
  TreeOf <- Trees
  PathsOf <- Paths
CHECK_DEADLOCK FALSE
INVARIANT LoggedUnderOwnPath
