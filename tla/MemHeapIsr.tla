----------------------------- MODULE MemHeapIsr -----------------------------
(***************************************************************************)
(* mem_malloc in the build with LWIP_ALLOW_MEM_FREE_FROM_OTHER_CONTEXT: it *)
(* holds mem_mutex, which keeps other allocations out, but opens its       *)
(* SYS_ARCH_PROTECT section at every block it looks at, and mem_free and   *)
(* mem_trim of other contexts run there.  They raise mem_free_count, and   *)
(* mem_malloc then starts over.                                            *)
(***************************************************************************)
EXTENDS MemHeap

VARIABLES pc,              \* "idle", or the window mem_malloc is in
          wanted,          \* the bytes asked for
          ptr,             \* the block it looks at in this window
          mem,             \* the block it has taken
          mem_free_count   \* raised by mem_free and mem_trim

scan == <<pc, wanted, ptr, mem, mem_free_count>>
allvars == <<vars, scan>>

\* The bytes as mem_malloc is given them, a mem_size_t, and aligned.
SizeOf(bytes) == AlignedSize(bytes % Modulus)
Size == SizeOf(wanted)

IsrInit == /\ Init
           /\ pc = "idle" /\ wanted = 0 /\ ptr = 0 /\ mem = NULL
           /\ mem_free_count = 0

Done == pc' = "idle" /\ wanted' = 0 /\ ptr' = 0 /\ mem' = NULL /\ mem_free_count' = 0
-----------------------------------------------------------------------------
\* Mutant: mem_free_count is not cleared before the window.
ScanKeepingCount(p, size) ==
  /\ UNCHANGED <<heap, req>>
  /\ IF p < ram_end - SizeOf(size)
     THEN /\ pc' = "scan" /\ wanted' = size /\ ptr' = p /\ mem' = NULL
          /\ UNCHANGED <<ret, mem_free_count>>
     ELSE /\ ret' = Returned("malloc", size, NULL)
          /\ Done

\* Mutant: the bound of the scan counts the header too.
ScanTooShort(p, size) ==
  /\ UNCHANGED <<heap, req>>
  /\ IF p < ram_end - SIZEOF_STRUCT_MEM - SizeOf(size)
     THEN /\ pc' = "scan" /\ wanted' = size /\ ptr' = p /\ mem' = NULL
          /\ mem_free_count' = 0
          /\ UNCHANGED ret
     ELSE /\ ret' = Returned("malloc", size, NULL)
          /\ Done

\* The test of the for loop at block p: a window, or the end of the scan.
ScanAt(p, size) ==
  /\ UNCHANGED <<heap, req>>
  /\ IF p < ram_end - SizeOf(size)
     THEN /\ pc' = "scan" /\ wanted' = size /\ ptr' = p /\ mem' = NULL
          /\ mem_free_count' = 0
          /\ UNCHANGED ret
     ELSE /\ ret' = Returned("malloc", size, NULL)
          /\ Done

\* mem_malloc enters both sections and begins at lfree.
MallocBegins(size) ==
  /\ pc = "idle"
  /\ \/ /\ size % Modulus = 0 \/ SizeOf(size) > MEM_SIZE_ALIGNED
        /\ ret' = Returned("malloc", size, NULL)
        /\ UNCHANGED <<heap, req>> /\ Done
     \/ /\ size % Modulus # 0 /\ SizeOf(size) <= MEM_SIZE_ALIGNED
        /\ ScanAt(heap.lfree, size)

\* The loop that looks for the new lfree, at block c of heap h: a window, or
\* lfree is c and the block taken is returned.
AdjustAt(h, b, c) ==
  IF c # ram_end /\ h.used[c]
  THEN /\ heap' = h
       /\ pc' = "adjust" /\ ptr' = c /\ mem' = b /\ mem_free_count' = 0
       /\ UNCHANGED wanted
  ELSE /\ heap' = [h EXCEPT !.lfree = c]
       /\ Done

\* Back in the section: start over if a block was freed meanwhile; otherwise
\* take this block, or go on to the next.
ScanWindow ==
  /\ pc = "scan"
  /\ \/ /\ mem_free_count # 0
        /\ ScanAt(heap.lfree, wanted)
     \/ /\ mem_free_count = 0
        /\ ~Fits(heap, ptr, Size)
        /\ ScanAt(heap.next[ptr], wanted)
     \/ /\ mem_free_count = 0
        /\ Fits(heap, ptr, Size)
        /\ LET h == TakeBlock(heap, ptr, Size)
           IN /\ req' = [x \in DOMAIN req \cup {ptr} |-> IF x = ptr THEN wanted ELSE req[x]]
              /\ ret' = Returned("malloc", wanted, ptr)
              /\ IF ptr = h.lfree THEN AdjustAt(h, ptr, ptr) ELSE heap' = h /\ Done

\* Mutant: the search for the new lfree goes on from its block, if that still
\* is one, although another was freed in the window.
AdjustWithoutRestart ==
  /\ pc = "adjust"
  /\ AdjustAt(heap, mem, IF ptr \in Blocks(heap) THEN heap.next[ptr] ELSE mem)
  /\ UNCHANGED <<req, ret>>

\* Back in the section: if a block was freed meanwhile lfree may have changed,
\* and the search starts over unless it is below the block taken.
AdjustWindow ==
  /\ pc = "adjust"
  /\ \/ /\ mem_free_count # 0 /\ mem = heap.lfree
        /\ AdjustAt(heap, mem, mem)
     \/ /\ mem_free_count # 0 /\ mem # heap.lfree
        /\ UNCHANGED heap /\ Done
     \/ /\ mem_free_count = 0
        /\ AdjustAt(heap, mem, heap.next[ptr])
  /\ UNCHANGED <<req, ret>>

\* mem_free_count = 1; mem_malloc clears it before it reads it, so it matters
\* only in a window.
Disturbed == mem_free_count' = IF pc = "idle" THEN 0 ELSE 1

\* Another context frees or trims a block it holds; the block just taken has
\* not been returned yet.
FreeElsewhere ==
  /\ \E b \in DOMAIN req \ {mem} : mem_free(b)
  /\ Disturbed
  /\ UNCHANGED <<pc, wanted, ptr, mem>>

TrimElsewhere ==
  /\ \E b \in DOMAIN req \ {mem}, s \in Sizes \cup {0} :
       /\ mem_trim(b, s)
       /\ IF AlignedSize(s) < DataSize(heap, b) THEN Disturbed ELSE UNCHANGED mem_free_count
  /\ UNCHANGED <<pc, wanted, ptr, mem>>

Allocator == ScanWindow \/ AdjustWindow
Disturb == FreeElsewhere \/ TrimElsewhere
Allocate == \/ \E s \in Sizes : MallocBegins(s)
            \/ \E n \in Counts, s \in Sizes : MallocBegins(n * s)   \* mem_calloc
IsrNext == Allocate \/ Allocator \/ Disturb

IsrSpec == IsrInit /\ [][IsrNext]_allvars
FairIsrSpec == IsrSpec /\ WF_allvars(Allocator)
-----------------------------------------------------------------------------
\* lfree lags behind while mem_malloc looks for its new value.
CurrentHeap == IF pc = "adjust" THEN [heap EXCEPT !.lfree = LowestFree(heap)] ELSE heap

\* Opening the section in the middle of mem_malloc changes nothing for callers:
\* the calls behave as if each were one step of MemHeap.
Atomic == INSTANCE MemHeap WITH heap <- CurrentHeap
ImplementsAtomicHeap == Atomic!Spec

\* mem_malloc returns once other contexts stop freeing in its windows.
MallocReturns == <>[][~Disturb]_allvars => []<>(pc = "idle")
=============================================================================
