------------------------------ MODULE MemHeap ------------------------------
(***************************************************************************)
(* The heap of core/mem.c: a row of blocks, each with a header that holds  *)
(* the offsets of the next and the previous header and a used flag, and a  *)
(* pointer lfree to the lowest free block.                                 *)
(*                                                                         *)
(* Every operation is one step: in the default build mem_malloc, mem_free  *)
(* and mem_trim hold mem_mutex.  MemHeapIsr opens mem_malloc up for the    *)
(* build with LWIP_ALLOW_MEM_FREE_FROM_OTHER_CONTEXT.                      *)
(***************************************************************************)
EXTENDS Integers, FiniteSets

CONSTANTS MEM_ALIGNMENT,
          SIZEOF_STRUCT_MEM,   \* size of a header, aligned
          MIN_SIZE_ALIGNED,    \* least size of the data of a block
          MEM_SIZE_ALIGNED,    \* offset of ram_end
          Modulus,             \* a mem_size_t is computed modulo this (2^16)
          Sizes,               \* sizes asked for
          Counts,              \* numbers of objects asked for
          NULL

ASSUME AlignmentPositive == MEM_ALIGNMENT \in Nat \ {0}
ASSUME HeaderPositive == SIZEOF_STRUCT_MEM \in Nat \ {0} /\ MIN_SIZE_ALIGNED \in Nat
ASSUME HeapHoldsABlock == /\ MEM_SIZE_ALIGNED \in Nat
                          /\ SIZEOF_STRUCT_MEM + MIN_SIZE_ALIGNED <= MEM_SIZE_ALIGNED
ASSUME ModulusPositive == Modulus \in Nat \ {0}
ASSUME RequestsAreNats == Sizes \subseteq Nat /\ Counts \subseteq Nat
ASSUME NullIsNoOffset == NULL \notin Nat

VARIABLES heap,  \* the headers and lfree
          req,   \* what the callers hold: block -> bytes asked for
          ret    \* the last call and its result

vars == <<heap, req, ret>>

\* ram_end: a header that is always in use and never part of an allocation.
ram_end == MEM_SIZE_ALIGNED

\* The headers of h; ram_end is not one of them.
Blocks(h) == DOMAIN h.next

\* The bytes between a header and the next one.
DataSize(h, b) == h.next[b] - (b + SIZEOF_STRUCT_MEM)
-----------------------------------------------------------------------------
\* Mutant: the block after the new one keeps its old prev.
InsertKeepingPrev(h, b, p) ==
  LET B == Blocks(h) \cup {p}
  IN [h EXCEPT !.next = [x \in B |-> IF x = p THEN h.next[b] ELSE IF x = b THEN p ELSE h.next[x]],
               !.prev = [x \in B |-> IF x = p THEN b ELSE h.prev[x]],
               !.used = [x \in B |-> IF x = p THEN FALSE ELSE h.used[x]]]

\* A new free header at p, between block b and the one after it.
Insert(h, b, p) ==
  LET B == Blocks(h) \cup {p}
  IN [h EXCEPT !.next = [x \in B |-> IF x = p THEN h.next[b] ELSE IF x = b THEN p ELSE h.next[x]],
               !.prev = [x \in B |-> IF x = p THEN b ELSE IF x = h.next[b] THEN p ELSE h.prev[x]],
               !.used = [x \in B |-> IF x = p THEN FALSE ELSE h.used[x]]]

\* Block b takes in the block after it.
Absorb(h, b) ==
  LET n == h.next[b]
      B == Blocks(h) \ {n}
  IN [h EXCEPT !.next = [x \in B |-> IF x = b THEN h.next[n] ELSE h.next[x]],
               !.prev = [x \in B |-> IF x = h.next[n] THEN b ELSE h.prev[x]],
               !.used = [x \in B |-> h.used[x]],
               !.lfree = IF h.lfree = n THEN b ELSE h.lfree]

\* Combine the free block b with a free block after it, then with one before it.
plug_holes(h, b) ==
  LET forward == h.next[b] # ram_end /\ ~h.used[h.next[b]]
      f == IF forward THEN Absorb(h, b) ELSE h
      backward == f.prev[b] # b /\ ~f.used[f.prev[b]]
  IN IF backward THEN Absorb(f, f.prev[b]) ELSE f

\* The block is free, perhaps the lowest, and is combined with its neighbours.
FreeBlock(h, b) ==
  plug_holes([h EXCEPT !.used[b] = FALSE, !.lfree = IF b < h.lfree THEN b ELSE h.lfree], b)

\* The used block b keeps `size' bytes.  What it gives up goes to a free block
\* after it; or becomes a free block if it is large enough; or stays with b.
TrimBlock(h, b, size) ==
  LET p == b + SIZEOF_STRUCT_MEM + size
      n == h.next[b]
  IN IF n # ram_end /\ ~h.used[n]
     THEN [Insert(Absorb(h, b), b, p) EXCEPT !.lfree = IF h.lfree = n THEN p ELSE h.lfree]
     ELSE IF size + SIZEOF_STRUCT_MEM + MIN_SIZE_ALIGNED <= DataSize(h, b)
     THEN [Insert(h, b, p) EXCEPT !.lfree = IF p < h.lfree THEN p ELSE h.lfree]
     ELSE h

-----------------------------------------------------------------------------
\* LWIP_MEM_ALIGN_SIZE in a mem_size_t, raised to the least size.
AlignedSize(size) ==
  LET s == (((size + MEM_ALIGNMENT - 1) \div MEM_ALIGNMENT) * MEM_ALIGNMENT) % Modulus
  IN IF s < MIN_SIZE_ALIGNED THEN MIN_SIZE_ALIGNED ELSE s

\* Mutant: the header is counted as data.
FitsWithHeader(h, b, size) == ~h.used[b] /\ h.next[b] - b >= size

Fits(h, b, size) == ~h.used[b] /\ DataSize(h, b) >= size

\* The blocks on which the scan of mem_malloc, from lfree on, would stop.
Candidates(h, size) ==
  {b \in Blocks(h) : b >= h.lfree /\ b < ram_end - size /\ Fits(h, b, size)}

\* The free block with the lowest offset, ram_end if there is none.
LowestFree(h) ==
  CHOOSE f \in Blocks(h) \cup {ram_end} :
    /\ f # ram_end => ~h.used[f]
    /\ \A b \in Blocks(h) : ~h.used[b] => f <= b

\* Use the free block b for size bytes: split it if a block remains.
TakeBlock(h, b, size) ==
  IF DataSize(h, b) >= size + SIZEOF_STRUCT_MEM + MIN_SIZE_ALIGNED
  THEN [Insert(h, b, b + SIZEOF_STRUCT_MEM + size) EXCEPT !.used[b] = TRUE]
  ELSE [h EXCEPT !.used[b] = TRUE]

\* lfree moves on when its block has been taken.
AdjustLfree(h, b) == IF b = h.lfree THEN [h EXCEPT !.lfree = LowestFree(h)] ELSE h
-----------------------------------------------------------------------------
mem_init == [next |-> [x \in {0} |-> ram_end],
             prev |-> [x \in {0} |-> 0],
             used |-> [x \in {0} |-> FALSE],
             lfree |-> 0]

Returned(op, size, mem) == [op |-> op, size |-> size, mem |-> mem]
NoCall == Returned("none", 0, NULL)

\* The call asked for `wanted' bytes; mem_malloc is given them as a mem_size_t.
Malloc(wanted) ==
  LET given == wanted % Modulus
      size == AlignedSize(given)
  IN \/ /\ \/ given = 0
           \/ size > MEM_SIZE_ALIGNED
           \/ Candidates(heap, size) = {}
        /\ ret' = Returned("malloc", wanted, NULL)
        /\ UNCHANGED <<heap, req>>
     \/ /\ given # 0
        /\ size <= MEM_SIZE_ALIGNED
        /\ \E b \in Candidates(heap, size) :
             /\ \A c \in Candidates(heap, size) : b <= c
             /\ heap' = AdjustLfree(TakeBlock(heap, b, size), b)
             /\ req' = [x \in DOMAIN req \cup {b} |-> IF x = b THEN wanted ELSE req[x]]
             /\ ret' = Returned("malloc", wanted, b)

mem_malloc(size) == Malloc(size)

\* The product is an int; mem_malloc takes it as a mem_size_t.
mem_calloc(count, size) == Malloc(count * size)

mem_free(b) ==
  /\ heap' = FreeBlock(heap, b)
  /\ req' = [x \in DOMAIN req \ {b} |-> req[x]]
  /\ ret' = NoCall

\* Callers only shrink.  A size that does not fit is refused, and the present
\* size needs no work.
mem_trim(b, newsize) ==
  LET size == AlignedSize(newsize)
  IN /\ newsize <= req[b]
     /\ heap' = IF size < DataSize(heap, b) THEN TrimBlock(heap, b, size) ELSE heap
     /\ req' = IF size <= DataSize(heap, b) THEN [req EXCEPT ![b] = newsize] ELSE req
     /\ ret' = NoCall

Init == heap = mem_init /\ req = [x \in {} |-> 0] /\ ret = NoCall

Next == \/ \E s \in Sizes : mem_malloc(s)
        \/ \E n \in Counts, s \in Sizes : mem_calloc(n, s)
        \/ \E b \in DOMAIN req : mem_free(b)
        \/ \E b \in DOMAIN req, s \in Sizes \cup {0} : mem_trim(b, s)

Spec == Init /\ [][Next]_vars
-----------------------------------------------------------------------------
\* next, prev and used are given for the same offsets; lfree is one or ram_end.
TypeOK == /\ DOMAIN heap = {"next", "prev", "used", "lfree"}
          /\ Blocks(heap) \subseteq 0..ram_end - 1
          /\ heap.next \in [Blocks(heap) -> Blocks(heap) \cup {ram_end}]
          /\ heap.prev \in [Blocks(heap) -> Blocks(heap)]
          /\ heap.used \in [Blocks(heap) -> BOOLEAN]
          /\ heap.lfree \in Blocks(heap) \cup {ram_end}
          /\ req \in [DOMAIN req -> Nat]
          /\ ret.mem \in Blocks(heap) \cup {NULL}

\* The headers cover the heap from 0 to ram_end without overlap: each next is
\* the offset of the following header, with room for MIN_SIZE_ALIGNED bytes
\* before it, and prev leads back.
TiledHeap(h) ==
  /\ 0 \in Blocks(h) /\ h.prev[0] = 0
  /\ \A b \in Blocks(h) : b + SIZEOF_STRUCT_MEM + MIN_SIZE_ALIGNED <= h.next[b]
  /\ \A b, c \in Blocks(h) : b < c => h.next[b] <= c
  /\ \A c \in Blocks(h) \ {0} : h.prev[c] < c /\ h.next[h.prev[c]] = c

\* plug_holes: "there should not exist one empty struct mem pointing to another
\* empty struct mem".
NoAdjacentFreeIn(h) ==
  \A b \in Blocks(h) : ~h.used[b] /\ h.next[b] # ram_end => h.used[h.next[b]]

\* The used blocks are exactly those a caller holds: nothing leaks, and no block
\* is given out twice.
UsedIsHeld == DOMAIN req = {b \in Blocks(heap) : heap.used[b]}

\* After any sequence of allocations, trims and frees the headers tile the heap,
\* no two free blocks are side by side, and the used blocks are those held.
HeapConsistent == TypeOK /\ TiledHeap(heap) /\ NoAdjacentFreeIn(heap) /\ UsedIsHeld

\* lfree is the "pointer to the lowest free block", ram_end if there is none.
LfreeLowestIn(h) ==
  /\ h.lfree # ram_end => ~h.used[h.lfree]
  /\ \A b \in Blocks(h) : ~h.used[b] => h.lfree <= b
LfreeLowest == LfreeLowestIn(heap)

\* "Allocate a block of memory with a minimum of 'size' bytes": every block that
\* a caller holds has the room the caller asked for, also after it is trimmed
\* and while its neighbours come and go.
EnoughRoom == \A b \in DOMAIN req \cap Blocks(heap) : DataSize(heap, b) >= req[b]

\* mem_malloc returns NULL only if no free block of the whole heap is large
\* enough: starting the scan at lfree misses nothing.
FailsOnlyWhenFull ==
  ret.op = "malloc" /\ ret.mem = NULL /\ ret.size # 0 =>
    \A b \in Blocks(heap) : ~Fits(heap, b, AlignedSize(ret.size))

\* When every block has been freed the heap is one free block again.
AllFreedIsInitial ==
  DOMAIN req = {} => Blocks(heap) = {0} /\ heap.next[0] = ram_end /\ heap.lfree = 0
=============================================================================
