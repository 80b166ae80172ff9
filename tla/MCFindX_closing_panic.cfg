CONSTANTS
  c1 = c1  c2 = c2  c3 = c3
  a = a  b = b  bad = bad
  NoId = NoId
  Callers = {c1}
  Bare = {}
  Ids = {a}
  Unparsable = {}
  NoDevice = {}
  ChannelBufferSize = 1
  Thread = 1
  MaxCalls = 2
SPECIFICATION Spec
INVARIANT ClosingIsOkay
CHECK_DEADLOCK FALSE
