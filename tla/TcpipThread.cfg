SPECIFICATION FairSpec
CONSTANTS
  Callers = {c1, c2, stack}
  Stack = stack
  Ops <- AllOps
  ApiMsgs = {a1, a2}
  InMsgs = {i1}
  TCPIP_MBOX_SIZE = 1
  Delays = {1}
  MaxTimeouts = 1
  NULL = NULL
INVARIANTS MessagesAccounted PendingMeansQueued
PROPERTY AllCallsEnd
CHECK_DEADLOCK FALSE
