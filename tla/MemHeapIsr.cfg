CONSTANTS
  MEM_ALIGNMENT = 2
  SIZEOF_STRUCT_MEM = 2
  MIN_SIZE_ALIGNED = 2
  MEM_SIZE_ALIGNED = 20
  Modulus = 64
  Sizes = {1, 3, 22}
  Counts = {2}
  NULL = NULL
SPECIFICATION FairIsrSpec
INVARIANTS HeapConsistent EnoughRoom FailsOnlyWhenFull
PROPERTIES ImplementsAtomicHeap MallocReturns
