\* Two calls in one directory, by stage and by version, every failure.
SPECIFICATION Spec
CONSTANTS
  c1 = c1
  c2 = c2
  v1 = v1
  v2 = v2
  d1 = d1
  Call = {c1, c2}
  Version = {v1, v2}
  Cwd = {d1}
  Stage = Stage
  None = None
  Torn = Torn
  Unnamed = Unnamed
  CwdOf <- SharedCwd
  UriOf <- StageAndVersion
INVARIANTS
  TypeOK
  ArtifactIsOwn
  PinnedVersionUploaded
  TagProvenance
  NoUndeployedModelLeft
  ActiveDeploymentHasModel
  TagsOfSoleCall
