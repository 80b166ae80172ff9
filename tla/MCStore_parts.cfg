CONSTANTS
  h1 = h1  h2 = h2  x1 = x1  x2 = x2  x3 = x3  x4 = x4
  v1 = v1  v2 = v2  k1 = k1  k2 = k2  s1 = s1
  Slots = {}
  MaxRetries = 0
  NoBuffer = NoBuffer
  NoRequest = NoRequest
  pbMessage = {"ks"}
  MaxInt = 7
  Second = 2
  defaultGlobalTTL = 6
  Handlers = {h1}
  Buffers = {x1, x2}
  Requests <- PartRequests
  Configs <- PartConfigs
  ToUpper <- Ids
  Underscored = {"A_B"}
  Preloaded <- CtPreloaded
SPECIFICATION FairSpec
PROPERTY MultiReturnsAll
