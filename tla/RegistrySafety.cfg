CONSTANTS
  t1 = t1
  t2 = t2
  plain = plain
  secure = secure
  Threads = {t1, t2}
  Conns = {plain, secure}
  Secure = {secure}
  QMax = 1
  MaxQueue = 2
  Calling = {"ws_onopen", "ws_onerror"}
  Throwing = {"ws_onopen", "ws_onmessageout"}
  Recursive = FALSE
SPECIFICATION Spec
SYMMETRY ThreadSymmetry
INVARIANTS
  TypeOK
  NoDeadlock
  OpenIsRegistered
  RefusedIsGone
  GoneIsAnnounced
