CONSTANTS
  c1 = c1  c2 = c2  c3 = c3
  a = a  b = b  bad = bad  k1 = k1  k2 = k2
  NoId = NoId
  NoKeyspace = NoKeyspace
  MaxInt = 7
  Second = 2
  defaultGlobalTTL = 6
  HexKeys = {k1}
  Names = {"abc", "pld", "oth", "nope"}
  Files <- AllFiles
  Callers = {c1, c2, c3}
  Bare = {c3}
  Ids = {a, bad}
  Unparsable = {bad}
  NoDevice = {}
  ChannelBufferSize = 1
  Thread = 2
  MaxCalls = 2
SPECIFICATION LifeFair
INVARIANTS LifeTypeOK Ready GracefulStop LookupsMade
PROPERTY Stops
CHECK_DEADLOCK FALSE
