CONSTANTS
  t1 = t1
  t2 = t2
  plain = plain
  Threads = {t1, t2}
  Conns = {plain}
  Secure = {}
  QMax = 1
  MaxQueue = 2
  Calling = {}
  Throwing = {}
  Recursive = FALSE
SPECIFICATION StrongSpec
PROPERTY AttemptDestroys
