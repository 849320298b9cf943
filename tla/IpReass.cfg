CONSTANTS
  Fragments <- FourDatagrams
  IP_REASS_MAX_PBUFS = 4
  IP_REASS_MAXAGE = 1
  MEMP_NUM_REASSDATA = 3
  IP_HLEN = 20
  NULL = NULL
SPECIFICATION FairSpec
CHECK_DEADLOCK FALSE
INVARIANT CompleteIsReturned
PROPERTIES ListConsistent RoomOrAssertion DatagramsEnd
