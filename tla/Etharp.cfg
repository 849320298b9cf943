CONSTANTS
  ARP_TABLE_SIZE = 2
  ARP_MAXAGE = 2
  ARP_AGE_REREQUEST_USED = 1
  ARP_MAXPENDING = 2
  Local = {a, b, c}
  Remote = {r}
  Group = {g}
  Gateway = {a, NULL}
  Mac = {m1, m2}
  Netif = {n1}
  Route <- MCRoute
  NULL = NULL
SPECIFICATION FairSpec
INVARIANTS PacketsOwned SentToLastHeard
PROPERTIES TableConsistent PendingEnds
