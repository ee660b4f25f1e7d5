CONSTANTS
  t1 = t1
  t2 = t2
  t3 = t3
  plain = plain
  Threads = {t1, t2, t3}
  Conns = {plain}
  Secure = {}
  QMax = 1
  MaxQueue = 2
  Calling = {"ws_onopen", "ws_onerror"}
  Throwing = {"ws_onopen", "ws_onerror", "ws_onmessageout"}
  Recursive = FALSE
SPECIFICATION FairSpec
PROPERTY ComesToRest
