CONSTANTS
  Clients = {c1}
  Timer = timer
  Handlers = {h1}
  Delays = {1, 2}
  Entries = {e1, e2}
  g_time_head = head
  Modulus = 12
  Broken = broken
  NULL = NULL
SPECIFICATION Spec
INVARIANT NoTimeoutIsLost
CHECK_DEADLOCK FALSE
