SPECIFICATION DataSpec
SYMMETRY Interchangeable
CONSTANTS
  Pbufs = {p1, p2, p3}
  Stack = Stack
  Drivers = {d1}
  PBUF_POOL_SIZE = 2
  MEMP_NUM_PBUF = 0
  PBUF_POOL_BUFSIZE = 1
  Lengths = {2}
  NewLengths = {1}
  Layers = {0}
  Increments <- ByOne
  CountModulus = 256
  MaxRef = 1
  MaxCoalesced = 2
  NULL = NULL
  Byte = {0, 1}
  MaxLen = 2
  MaxChain = 3
  MaxMem = 3
  Ops = {"memfind", "memcmp", "get_at", "strstr", "copy_partial", "take", "copy"}
INVARIANTS MemoryAccounted LengthsAgree SearchesRight CopiesRight
