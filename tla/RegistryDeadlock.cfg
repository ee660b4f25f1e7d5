CONSTANTS
  t1 = t1
  t2 = t2
  plain = plain
  Threads = {t1, t2}
  Conns = {plain}
  Secure = {}
  QMax = 1
  MaxQueue = 2
  Calling = {"ws_onclose"}
  Throwing = {}
  Recursive = TRUE
SPECIFICATION Spec
INVARIANT NoDeadlock
