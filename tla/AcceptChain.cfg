CONSTANTS
  t1 = t1
  t2 = t2
  c1 = c1
  c2 = c2
  NoClient = NoClient
  Threads = {t1, t2}
  Clients = {c1, c2}
  MaxErrors = 1
SPECIFICATION Spec
INVARIANT ChainNeverBreaks
