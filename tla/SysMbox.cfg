SPECIFICATION FairSpec
CONSTANTS
  Poster = {p1, p2}
  Fetcher = {f1, f2}
  Msg = {m1, m2}
  Node = {n1, n2}
  NULL = NULL
  Sizes <- MCSizes
  DefaultCapacity = 2
  Timeouts = {0, 1}
  MaxMs = 1
INVARIANTS MailboxConsistent NoLostWakeup
PROPERTIES ImplementsFifo WaitingEnds
