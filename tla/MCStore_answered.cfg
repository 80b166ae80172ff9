CONSTANTS
  h1 = h1  h2 = h2  x1 = x1  x2 = x2  x3 = x3  x4 = x4
  v1 = v1  v2 = v2  k1 = k1  k2 = k2  s1 = s1
  Slots = {}
  MaxRetries = 1
  NoBuffer = NoBuffer
  NoRequest = NoRequest
  pbMessage = {"ks"}
  MaxInt = 7
  Second = 2
  defaultGlobalTTL = 6
  Handlers = {h1, h2}
  Buffers = {x1, x2, x3, x4}
  Requests <- LiveRequests
  Configs <- LiveConfig
  ToUpper <- Ids
  Underscored = {"A_B"}
  Preloaded <- EmptyRedis
SPECIFICATION FairSpec
PROPERTY Answered
