CONSTANTS
  Fragments <- OneDatagram
  IP_REASS_MAX_PBUFS = 4
  IP_REASS_MAXAGE = 1
  MEMP_NUM_REASSDATA = 3
  IP_HLEN = 20
  NULL = NULL
SPECIFICATION Spec
CHECK_DEADLOCK FALSE
INVARIANT ReturnedIsWhole
