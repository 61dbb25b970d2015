SPECIFICATION Spec
CONSTANTS
  nginx = nginx
  lua_nginx_module = lua_nginx_module
  lua_resty_redis = lua_resty_redis
  Archives <- MCArchives
  Repos <- MCRepos
  Calls <- MCCalls
  Stripped <- MCStripped
  Untagged = {}
  FirstPins <- MCPins
  Checkout = TRUE
  MayEdit <- MCEdited
  MaxVersion = 2
  MaxTrouble = 2
INVARIANTS TypeOK ManifestComplete ManifestTruthful HealthyRunFailsOnlyOnPoison EnclosingNotPulled
PROPERTIES WholeStaysWhole PinsHold ObtainsTheTree
