CONSTANTS
  c1 = c1  c2 = c2  c3 = c3
  a = a  b = b  bad = bad
  NoId = NoId
  Callers = {c1, c2, c3}
  Bare = {c3}
  Ids = {a, b, bad}
  Unparsable = {bad}
  NoDevice = {b}
  ChannelBufferSize = 2
  Thread = 2
  MaxCalls = 4
SPECIFICATION CallersRun
INVARIANTS TypeOK Accounting DrainedOnClose CrashCause
PROPERTY AddReturns
CHECK_DEADLOCK FALSE
