\* Two calls of one thread, every failure, and what becomes of their job runs.
SPECIFICATION FairSpec
CONSTANTS
  c1 = c1
  c2 = c2
  p1 = p1
  securityToken = securityToken
  ResourcePrincipal = ResourcePrincipal
  ApiKey = ApiKey
  Call = {c1, c2}
  Proc = {p1}
  SingleThreaded = {p1}
  Auth = {securityToken, ResourcePrincipal, ApiKey}
  Elsewhere = Elsewhere
  None = None
  ProcOf <- OneProcess
  EnvOf <- IamTypeOnly
  ConfigAuth <- OneConfigured
  Template <- AllTemplates
  TemplatesOf <- PerCall
CHECK_DEADLOCK FALSE
INVARIANTS
  TypeOK
  JobUsesOwnAuth
  ReportsToOwnRun
  TagsNameOwnJob
  TrueIfSucceededOrKilled
PROPERTIES
  WaitEnds
  ImplementsSubmittedRun
