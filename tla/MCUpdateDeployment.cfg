\* Three calls of three clients, each with another configuration.
SPECIFICATION FairSpec
CONSTANTS
  c1 = c1
  c2 = c2
  c3 = c3
  spec = spec
  name = name
  shape = shape
  replicas = replicas
  logId = logId
  displayName = displayName
  old = old
  new = new
  newer = newer
  default = default
  Call = {c1, c2, c3}
  Part = {spec, name}
  Value = {old, new, newer, default}
  None = None
  SettingOf <- TwoParts
  ConfigOf <- ThreeConfigs
  Initial <- AllOld
  Default <- AllDefault
CHECK_DEADLOCK FALSE
INVARIANT SettingsFromLastUpdate
PROPERTY EveryUpdateEnds
