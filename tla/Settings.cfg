CONSTANTS
  t1 = t1
  bucket = bucket
  dir = dir
  k1 = k1
  k2 = k2
  v1 = v1
  v2 = v2
  plain = plain
  capped = capped
  Texts <- MCTexts
  Empty = Empty
  Unset = Unset
  Touched <- SomeKeys
  Masks <- MCMasks
  Hosts = {bucket}
  Dirs = {dir}
  Numbers <- MCNumbers
  Tags <- MCTags
  MaxTags = 2
  WGConfigs = {plain, capped}
  DefaultWGConfig = plain
  NoWGConfig = NoWGConfig
  NoTags = NoTags
  Fallback <- MCFallback
  EnvSessionTags <- SomeEnvTags
  PoolInterval = 3
  Dsns <- MCDsns
  DefaultDB = t1
  DefaultRegion = t1
  Workgroups <- MCWorkgroups
  NoWorkgroup = NoWorkgroup
  NoLimits = NoLimits
SPECIFICATION Spec
CONSTRAINTS FewDepartures FewStale
CHECK_DEADLOCK FALSE
INVARIANTS TypeOK DsnKeepsSettings GrantedLimitsApply LastWorkgroupIsRead
PROPERTY SessionTagIsAdded
