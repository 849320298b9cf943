-------------------------- MODULE MemHeapIsrProofs --------------------------
(***************************************************************************)
(* mem_malloc with its section open at every block implements the heap of  *)
(* MemHeap, in which it is one step; for every size, alignment, header and *)
(* any interference of mem_free and mem_trim.                              *)
(*                                                                         *)
(* While mem_malloc looks for the new lfree the heap is in order but for   *)
(* lfree, which is still the block just taken or a block freed below it    *)
(* meanwhile (Lags).  While it looks for a block, and nothing was freed in *)
(* the window, no block below the one it is at would do.                   *)
(***************************************************************************)
EXTENDS MemHeapIsr, MemHeapProofs

USE AlignmentPositive, HeaderPositive, HeapHoldsABlock, ModulusPositive,
    RequestsAreNats, NullIsNoOffset

\* The heap with lfree where the atomic mem_malloc would have left it.
Caught(h) == [h EXCEPT !.lfree = LowestFree(h)]

\* The heap is in order, but lfree may still be the used block m.
Lags(h, m) ==
  /\ Shape(h) /\ TiledHeap(h) /\ NoAdjacentFreeIn(h)
  /\ m \in UsedIn(h)
  /\ h.lfree = m \/ (h.lfree < m /\ ~h.used[h.lfree])
  /\ \A x \in Blocks(h) : ~h.used[x] => h.lfree <= x

\* The sizes that mem_malloc and mem_calloc are called with.
Requests == Sizes \cup {n * s : n \in Counts, s \in Sizes}

IsrInv ==
  /\ UsedIsHeld
  /\ req \in [DOMAIN req -> Nat]
  /\ ret.mem \in Blocks(heap) \cup {NULL}
  /\ pc \in {"idle", "scan", "adjust"}
  /\ pc # "adjust" => HeapOK(heap) /\ mem = NULL
  /\ pc = "adjust" =>
       /\ Lags(heap, mem)
       /\ mem_free_count = 0 =>
            /\ heap.lfree = mem /\ ptr \in UsedIn(heap)
            /\ \A x \in Blocks(heap) : ~heap.used[x] => ptr < x
  /\ pc = "scan" =>
       /\ wanted \in Requests /\ wanted % Modulus # 0 /\ Size <= MEM_SIZE_ALIGNED
       /\ mem_free_count = 0 =>
            /\ ptr \in Blocks(heap) /\ ptr < ram_end - Size /\ heap.lfree <= ptr
            /\ \A c \in Candidates(heap, Size) : ptr <= c
-----------------------------------------------------------------------------
(* The heap whose lfree lags *)

\* Only one number can be the lowest free block.
LEMMA LowestIsLowestFree ==
  ASSUME NEW h, Shape(h), LfreeLowestIn(h)
  PROVE  h.lfree = LowestFree(h)
<1>1. /\ LowestFree(h) \in Blocks(h) \cup {ram_end}
      /\ LowestFree(h) # ram_end => ~h.used[LowestFree(h)]
      /\ \A b \in Blocks(h) : ~h.used[b] => LowestFree(h) <= b
  BY LowestFreeOK
<1>2. /\ h.lfree \in Blocks(h) \cup {ram_end}
      /\ h.lfree # ram_end => ~h.used[h.lfree]
      /\ \A b \in Blocks(h) : ~h.used[b] => h.lfree <= b
  BY DEF Shape, LfreeLowestIn
<1>3. \A b \in Blocks(h) : b \in Nat /\ b < ram_end /\ ram_end \in Nat
  BY Offsets
<1>4. ram_end \in Nat
  BY Offsets
<1> QED  BY <1>1, <1>2, <1>3, <1>4

\* Two heap records with the same headers.
Alike(h, k) ==
  /\ IsRecord(h) /\ DOMAIN h = {"next", "prev", "used", "lfree"}
  /\ IsRecord(k) /\ DOMAIN k = {"next", "prev", "used", "lfree"}
  /\ h.next = k.next /\ h.prev = k.prev /\ h.used = k.used

\* A heap record is given by its fields.
LEMMA SameHeap ==
  ASSUME NEW h, NEW k, Alike(h, k), h.lfree = k.lfree
  PROVE  h = k
<1>1. \A f \in Fields : h[f] = k[f]
  BY DEF Alike, Fields
<1>2. [f \in Fields |-> h[f]] = [f \in Fields |-> k[f]]
  BY <1>1
<1> QED  BY <1>2 DEF Alike, IsRecord

\* Catching up puts a lagging heap in order.
LEMMA CaughtOK ==
  ASSUME NEW h, Shape(h), TiledHeap(h), NoAdjacentFreeIn(h)
  PROVE  /\ HeapOK(Caught(h))
         /\ Caught(h).next = h.next /\ Caught(h).prev = h.prev /\ Caught(h).used = h.used
         /\ Blocks(Caught(h)) = Blocks(h) /\ UsedIn(Caught(h)) = UsedIn(h)
<1>1. /\ LowestFree(h) \in Blocks(h) \cup {ram_end}
      /\ LowestFree(h) # ram_end => ~h.used[LowestFree(h)]
      /\ \A b \in Blocks(h) : ~h.used[b] => LowestFree(h) <= b
  BY LowestFreeOK
<1>2. /\ Shape(Caught(h)) /\ TiledHeap(Caught(h))
      /\ Blocks(Caught(h)) = Blocks(h) /\ Caught(h).next = h.next /\ Caught(h).used = h.used
      /\ Caught(h).lfree = LowestFree(h)
  BY <1>1, SetLfree DEF Caught
<1>3. Caught(h).prev = h.prev
  BY DEF Caught, Shape
<1>4. NoAdjacentFreeIn(Caught(h)) /\ LfreeLowestIn(Caught(h)) /\ UsedIn(Caught(h)) = UsedIn(h)
  BY <1>1, <1>2 DEF NoAdjacentFreeIn, LfreeLowestIn, UsedIn
<1> QED  BY <1>2, <1>3, <1>4 DEF HeapOK

\* A heap in order has nothing to catch up with.
LEMMA CaughtSame ==
  ASSUME NEW h, HeapOK(h)
  PROVE  Caught(h) = h
<1>1. Shape(h) /\ h.lfree = LowestFree(h)
  BY LowestIsLowestFree DEF HeapOK
<1>2. Shape(Caught(h)) /\ Caught(h).lfree = h.lfree
  BY <1>1, CaughtOK DEF HeapOK, Caught, Shape
<1>3. Caught(h).next = h.next /\ Caught(h).prev = h.prev /\ Caught(h).used = h.used
  BY CaughtOK DEF HeapOK
<1> HIDE DEF Caught
<1>4. Alike(Caught(h), h)
  BY <1>1, <1>2, <1>3 DEF Alike, Shape
<1> QED  BY <1>2, <1>4, SameHeap

\* A heap with the headers of one in order, and lfree at the used block m or at
\* a free one below it, lags behind that heap.
LEMMA LagsBehind ==
  ASSUME NEW k, NEW c, HeapOK(c), Alike(k, c), NEW m \in UsedIn(c),
         k.lfree = m \/ (k.lfree \in Blocks(k) /\ k.lfree < m /\ ~k.used[k.lfree]),
         \A x \in Blocks(k) : ~k.used[x] => k.lfree <= x
  PROVE  Lags(k, m) /\ Caught(k) = c /\ UsedIn(k) = UsedIn(c)
<1>1. Blocks(k) = Blocks(c) /\ UsedIn(k) = UsedIn(c) /\ k.lfree \in Blocks(k)
  BY DEF Alike, Blocks, UsedIn
<1>2. Shape(k)
  BY <1>1 DEF Alike, HeapOK, Shape
<1>3. TiledHeap(k) /\ NoAdjacentFreeIn(k)
  BY <1>1 DEF Alike, HeapOK, TiledHeap, NoAdjacentFreeIn
<1>4. Lags(k, m)
  BY <1>1, <1>2, <1>3 DEF Lags
<1>5. LowestFree(k) = LowestFree(c)
  BY <1>1 DEF LowestFree, Alike
<1>6. Caught(k).lfree = c.lfree
  BY <1>2, <1>5, LowestIsLowestFree DEF HeapOK, Caught, Shape
<1>7. Alike(Caught(k), c)
  BY <1>2, <1>3, CaughtOK DEF Alike, HeapOK, Shape
<1> QED  BY <1>1, <1>4, <1>6, <1>7, SameHeap

\* What absorbing a block does to the headers does not depend on lfree;
LEMMA AbsorbAlike ==
  ASSUME NEW h, NEW k, Alike(h, k), NEW b
  PROVE  Alike(Absorb(h, b), Absorb(k, b))
<1>1. Blocks(h) = Blocks(k)
  BY DEF Alike, Blocks
<1>2. /\ Absorb(h, b).next = Absorb(k, b).next
      /\ Absorb(h, b).prev = Absorb(k, b).prev
      /\ Absorb(h, b).used = Absorb(k, b).used
  BY <1>1 DEF Alike, Absorb
<1>3. ASSUME NEW g, IsRecord(g), DOMAIN g = {"next", "prev", "used", "lfree"}
      PROVE  IsRecord(Absorb(g, b)) /\ DOMAIN Absorb(g, b) = {"next", "prev", "used", "lfree"}
  BY <1>3 DEF Absorb, IsRecord, Fields
<1> QED  BY <1>2, <1>3 DEF Alike

\* nor does inserting one;
LEMMA InsertAlike ==
  ASSUME NEW h, NEW k, Alike(h, k), NEW b, NEW p
  PROVE  Alike(Insert(h, b, p), Insert(k, b, p))
<1>1. Blocks(h) = Blocks(k)
  BY DEF Alike, Blocks
<1> QED  BY <1>1 DEF Alike, Insert, IsRecord, Fields

\* moving lfree leaves the headers alone;
LEMMA LfreeAlike ==
  ASSUME NEW h, NEW k, Alike(h, k), NEW l, NEW m
  PROVE  Alike([h EXCEPT !.lfree = l], [k EXCEPT !.lfree = m])
BY DEF Alike, IsRecord, Fields

\* so mem_free does the same to the headers wherever lfree is,
LEMMA FreeAlike ==
  ASSUME NEW h, NEW k, Alike(h, k), NEW b
  PROVE  Alike(FreeBlock(h, b), FreeBlock(k, b))
<1> DEFINE h1 == [h EXCEPT !.used[b] = FALSE, !.lfree = IF b < h.lfree THEN b ELSE h.lfree]
           k1 == [k EXCEPT !.used[b] = FALSE, !.lfree = IF b < k.lfree THEN b ELSE k.lfree]
<1>1. Alike(h1, k1)
  BY DEF Alike, IsRecord, Fields
<1>2. FreeBlock(h, b) = plug_holes(h1, b) /\ FreeBlock(k, b) = plug_holes(k1, b)
  BY DEF FreeBlock
<1> HIDE DEF h1, k1
<1> DEFINE forward == h1.next[b] # ram_end /\ ~h1.used[h1.next[b]]
           hf == IF forward THEN Absorb(h1, b) ELSE h1
           kf == IF forward THEN Absorb(k1, b) ELSE k1
           backward == hf.prev[b] # b /\ ~hf.used[hf.prev[b]]
<1>3. Alike(hf, kf)
  BY <1>1, AbsorbAlike
<1>4. /\ plug_holes(h1, b) = IF backward THEN Absorb(hf, hf.prev[b]) ELSE hf
      /\ plug_holes(k1, b) = IF kf.prev[b] # b /\ ~kf.used[kf.prev[b]]
                             THEN Absorb(kf, kf.prev[b]) ELSE kf
  BY <1>1 DEF plug_holes, Alike
<1> HIDE DEF hf, kf
<1>5. hf.prev = kf.prev /\ hf.used = kf.used
  BY <1>3 DEF Alike
<1> QED  BY <1>2, <1>3, <1>4, <1>5, AbsorbAlike

\* and so does mem_trim.
LEMMA TrimAlike ==
  ASSUME NEW h, NEW k, Alike(h, k), NEW b, NEW size
  PROVE  Alike(TrimBlock(h, b, size), TrimBlock(k, b, size))
<1> DEFINE p == b + SIZEOF_STRUCT_MEM + size
           n == h.next[b]
           lh == IF h.lfree = n THEN p ELSE h.lfree
           lk == IF k.lfree = n THEN p ELSE k.lfree
           ph == IF p < h.lfree THEN p ELSE h.lfree
           pk == IF p < k.lfree THEN p ELSE k.lfree
<1>1. n = k.next[b] /\ h.used = k.used /\ DataSize(h, b) = DataSize(k, b)
  BY DEF Alike, DataSize
<1>2. Alike([Insert(Absorb(h, b), b, p) EXCEPT !.lfree = lh],
            [Insert(Absorb(k, b), b, p) EXCEPT !.lfree = lk])
  <2> HIDE DEF lh, lk, p
  <2> QED  BY AbsorbAlike, InsertAlike, LfreeAlike
<1>3. Alike([Insert(h, b, p) EXCEPT !.lfree = ph], [Insert(k, b, p) EXCEPT !.lfree = pk])
  <2> HIDE DEF ph, pk, p
  <2> QED  BY InsertAlike, LfreeAlike
<1>4. CASE n # ram_end /\ ~h.used[n]
  BY <1>1, <1>2, <1>4 DEF TrimBlock
<1>5. CASE ~(n # ram_end /\ ~h.used[n]) /\ size + SIZEOF_STRUCT_MEM + MIN_SIZE_ALIGNED <= DataSize(h, b)
  BY <1>1, <1>3, <1>5 DEF TrimBlock
<1>6. CASE ~(n # ram_end /\ ~h.used[n]) /\ ~(size + SIZEOF_STRUCT_MEM + MIN_SIZE_ALIGNED <= DataSize(h, b))
  BY <1>1, <1>6 DEF TrimBlock
<1> QED  BY <1>4, <1>5, <1>6

\* mem_free in a window of the search for lfree: b is free and may be the new
\* lfree; the heap is the one mem_free would have left had the search ended.
LEMMA FreeLagging ==
  ASSUME NEW h, NEW m, Lags(h, m), NEW b \in UsedIn(h) \ {m}
  PROVE  LET k == FreeBlock(h, b)
         IN /\ Lags(k, m) /\ UsedIn(k) = UsedIn(h) \ {b}
            /\ Caught(k) = FreeBlock(Caught(h), b)
            /\ \A x \in UsedIn(h) \ {b} : DataSize(k, x) = DataSize(h, x)
<1> DEFINE k == FreeBlock(h, b)
           c == FreeBlock(Caught(h), b)
<1>0. /\ Shape(h) /\ TiledHeap(h) /\ NoAdjacentFreeIn(h)
      /\ m \in Blocks(h) /\ h.used[m] /\ b \in Blocks(h) /\ h.used[b] /\ b # m
      /\ h.lfree = m \/ (h.lfree < m /\ ~h.used[h.lfree])
      /\ \A x \in Blocks(h) : ~h.used[x] => h.lfree <= x
  BY DEF Lags, UsedIn
<1>1. /\ HeapOK(Caught(h)) /\ Blocks(Caught(h)) = Blocks(h) /\ UsedIn(Caught(h)) = UsedIn(h)
      /\ Caught(h).next = h.next /\ Caught(h).prev = h.prev /\ Caught(h).used = h.used
  BY <1>0, CaughtOK
<1>2. /\ HeapOK(c) /\ UsedIn(c) = UsedIn(h) \ {b}
      /\ \A x \in UsedIn(h) \ {b} : DataSize(c, x) = DataSize(h, x)
  BY <1>0, <1>1, FreeBlockOK DEF DataSize
<1>3. Alike(k, c)
  <2>1. Alike(h, Caught(h))
    BY <1>0, <1>1 DEF Alike, HeapOK, Shape
  <2> QED  BY <2>1, FreeAlike
<1>4. Blocks(k) = Blocks(c) /\ UsedIn(k) = UsedIn(c) /\ \A x : DataSize(k, x) = DataSize(c, x)
  BY <1>3 DEF Alike, Blocks, UsedIn, DataSize
<1>5. /\ b \in Nat /\ h.lfree \in Nat /\ m \in Nat /\ m < ram_end /\ ram_end \in Nat
      /\ h.lfree \in Blocks(h) /\ h.lfree # b /\ b < h.next[b] /\ h.next[b] \in Nat
  BY <1>0, Offsets DEF Shape, TiledHeap
<1> DEFINE l == IF b < h.lfree THEN b ELSE h.lfree
           h1 == [h EXCEPT !.used[b] = FALSE, !.lfree = l]
           n == h.next[b]
<1>6. /\ IsRecord(h1) /\ DOMAIN h1 = {"next", "prev", "used", "lfree"}
      /\ h1.next = h.next /\ h1.prev = h.prev /\ h1.lfree = l
      /\ h1.used = [h.used EXCEPT ![b] = FALSE] /\ Blocks(h1) = Blocks(h)
      /\ k = plug_holes(h1, b)
  BY <1>0 DEF Shape, IsRecord, Fields, Blocks, FreeBlock
<1>7. \A x \in Blocks(h) : h1.used[x] = (x # b /\ h.used[x])
  BY <1>0, <1>6 DEF Shape
<1> HIDE DEF h1, k, c
<1> DEFINE f == IF n # ram_end /\ ~h1.used[n] THEN Absorb(h1, b) ELSE h1
<1>8. /\ l \in Blocks(f) /\ f.lfree = l /\ b \in Blocks(f) /\ Blocks(f) \subseteq Blocks(h)
      /\ IsRecord(f) /\ DOMAIN f = {"next", "prev", "used", "lfree"}
      /\ \A x \in Blocks(f) : f.used[x] = h1.used[x]
      /\ f.prev[b] = h.prev[b]
      /\ \A x \in Blocks(h) : x < b => x \in Blocks(f) /\ f.next[x] = h.next[x]
  <2>1. l \in Blocks(h) /\ l # n /\ b # n
    BY <1>0, <1>5
  <2>2. CASE n # ram_end /\ ~h1.used[n]
    <3> DEFINE g == Absorb(h1, b)
    <3>1. /\ IsRecord(g) /\ DOMAIN g = {"next", "prev", "used", "lfree"}
          /\ Blocks(g) = Blocks(h) \ {n}
          /\ g.next = [x \in Blocks(h) \ {n} |-> IF x = b THEN h.next[n] ELSE h.next[x]]
          /\ g.prev = [x \in Blocks(h) \ {n} |-> IF x = h.next[n] THEN b ELSE h.prev[x]]
          /\ g.used = [x \in Blocks(h) \ {n} |-> h1.used[x]]
          /\ g.lfree = IF l = n THEN b ELSE l
      <4> HIDE DEF l
      <4> QED  BY <1>6 DEF Absorb, Blocks, IsRecord, Fields
    <3>2. n \in Blocks(h) /\ n < h.next[n] /\ h.next[n] \in Nat
      BY <2>2, <1>0, Offsets DEF Shape, TiledHeap
    <3> HIDE DEF g, l
    <3>3. \A x \in Blocks(h) : x < b => x # n
      BY <1>5, Offsets, <1>0
    <3> QED  BY <2>1, <2>2, <3>1, <3>2, <3>3, <1>0, <1>5 DEF g
  <2>3. CASE ~(n # ram_end /\ ~h1.used[n])
    BY <2>1, <2>3, <1>0, <1>6
  <2> QED  BY <2>2, <2>3
<1>9. k = IF f.prev[b] # b /\ ~f.used[f.prev[b]] THEN Absorb(f, f.prev[b]) ELSE f
  BY <1>6 DEF plug_holes
<1> HIDE DEF f
<1>10. k.lfree = l /\ l \in Blocks(k) /\ Blocks(k) \subseteq Blocks(h)
  <2> DEFINE p == f.prev[b]
  <2>1. CASE p # b /\ ~f.used[p]
    <3> DEFINE g == Absorb(f, p)
    <3>1. /\ Blocks(g) = Blocks(f) \ {f.next[p]}
          /\ g.lfree = IF f.lfree = f.next[p] THEN p ELSE f.lfree
      <4> HIDE DEF p
      <4> QED  BY <1>8 DEF Absorb, Blocks, IsRecord, Fields
    <3>2. p \in Blocks(h) /\ p < b /\ h.next[p] = b /\ p \in Nat
      BY <2>1, <1>0, <1>8, Offsets DEF TiledHeap, Shape
    <3>3. f.next[p] = b /\ p \in Blocks(f) /\ ~h.used[p]
      BY <3>2, <2>1, <1>7, <1>8
    <3>4. l # b
      BY <3>2, <3>3, <1>0, <1>5
    <3>5. k = g
      BY <2>1, <1>9
    <3> HIDE DEF g, l, p
    <3> QED  BY <3>1, <3>3, <3>4, <3>5, <1>8
  <2>2. CASE ~(p # b /\ ~f.used[p])
    BY <2>2, <1>8, <1>9
  <2> QED  BY <2>1, <2>2
<1>11. \A x \in Blocks(k) : ~k.used[x] <=> (x = b \/ ~h.used[x])
  BY <1>2, <1>4, <1>10, <1>3 DEF UsedIn, Alike, HeapOK, Shape
<1>12. m \in UsedIn(c)
  BY <1>0, <1>2 DEF UsedIn
<1>13. k.lfree = m \/ (k.lfree \in Blocks(k) /\ k.lfree < m /\ ~k.used[k.lfree])
  BY <1>0, <1>5, <1>10, <1>11
<1>14. \A x \in Blocks(k) : ~k.used[x] => k.lfree <= x
  BY <1>0, <1>5, <1>10, <1>11, Offsets
<1> QED  BY <1>2, <1>3, <1>4, <1>12, <1>13, <1>14, LagsBehind DEF k, c

\* mem_trim in such a window, to fewer bytes than the block has.
LEMMA TrimLagging ==
  ASSUME NEW h, NEW m, Lags(h, m), NEW b \in UsedIn(h) \ {m},
         NEW size \in Nat, MIN_SIZE_ALIGNED <= size, size < DataSize(h, b)
  PROVE  LET k == TrimBlock(h, b, size)
         IN /\ Lags(k, m) /\ UsedIn(k) = UsedIn(h)
            /\ Caught(k) = TrimBlock(Caught(h), b, size)
            /\ DataSize(k, b) >= size
            /\ \A x \in UsedIn(h) \ {b} : DataSize(k, x) = DataSize(h, x)
<1> DEFINE k == TrimBlock(h, b, size)
           c == TrimBlock(Caught(h), b, size)
           p == b + SIZEOF_STRUCT_MEM + size
           n == h.next[b]
<1>0. /\ Shape(h) /\ TiledHeap(h) /\ NoAdjacentFreeIn(h)
      /\ m \in Blocks(h) /\ h.used[m] /\ b \in Blocks(h) /\ h.used[b] /\ b # m
      /\ h.lfree = m \/ (h.lfree < m /\ ~h.used[h.lfree])
      /\ \A x \in Blocks(h) : ~h.used[x] => h.lfree <= x
  BY DEF Lags, UsedIn
<1>1. /\ HeapOK(Caught(h)) /\ Blocks(Caught(h)) = Blocks(h) /\ UsedIn(Caught(h)) = UsedIn(h)
      /\ Caught(h).next = h.next /\ Caught(h).prev = h.prev /\ Caught(h).used = h.used
  BY <1>0, CaughtOK
<1>2. /\ HeapOK(c) /\ UsedIn(c) = UsedIn(h) /\ DataSize(c, b) >= size
      /\ \A x \in UsedIn(h) \ {b} : DataSize(c, x) = DataSize(h, x)
  <2>1. \A x : DataSize(Caught(h), x) = DataSize(h, x)
    BY <1>1 DEF DataSize
  <2> QED  BY <2>1, <1>0, <1>1, TrimBlockOK
<1>3. Alike(k, c)
  <2>1. Alike(h, Caught(h))
    BY <1>0, <1>1 DEF Alike, HeapOK, Shape
  <2> QED  BY <2>1, TrimAlike
<1>4. /\ Blocks(k) = Blocks(c) /\ UsedIn(k) = UsedIn(c) /\ \A x : DataSize(k, x) = DataSize(c, x)
      /\ m \in UsedIn(c)
  <2>1. m \in UsedIn(c)
    BY <1>0, <1>2 DEF UsedIn
  <2> HIDE DEF k, c
  <2> QED  BY <2>1, <1>3 DEF Alike, Blocks, UsedIn, DataSize
<1>5. /\ b \in Nat /\ h.lfree \in Nat /\ m \in Nat /\ m < ram_end /\ ram_end \in Nat
      /\ h.lfree \in Blocks(h) /\ h.lfree # b /\ n \in Nat
      /\ p \in Nat /\ b + SIZEOF_STRUCT_MEM + MIN_SIZE_ALIGNED <= p /\ p < n /\ b < p
  <2>1. /\ b \in Nat /\ h.lfree \in Nat /\ m \in Nat /\ m < ram_end /\ ram_end \in Nat
        /\ h.lfree \in Blocks(h) /\ h.lfree # b /\ n \in Nat
    BY <1>0, Offsets DEF Shape
  <2> QED  BY <2>1 DEF DataSize
<1>6. /\ k.lfree = m \/ (k.lfree \in Blocks(k) /\ k.lfree < m /\ ~k.used[k.lfree])
      /\ \A x \in Blocks(k) : ~k.used[x] => k.lfree <= x
  <2>1. CASE n # ram_end /\ ~h.used[n]
    <3> DEFINE g == Absorb(h, b)
               i == Insert(g, b, p)
               l == IF h.lfree = n THEN p ELSE h.lfree
    <3>1. /\ Shape(g) /\ TiledHeap(g)
          /\ n \in Blocks(h) /\ b < n
          /\ Blocks(g) = Blocks(h) \ {n}
          /\ g.next[b] = h.next[n]
          /\ \A x \in Blocks(g) : g.used[x] = h.used[x]
      BY <2>1, <1>0, AbsorbShape
    <3>2. b \in Blocks(g) /\ p + SIZEOF_STRUCT_MEM + MIN_SIZE_ALIGNED <= g.next[b]
      BY <3>1, <1>0, <1>5, Offsets DEF TiledHeap
    <3> HIDE DEF g
    <3>3. /\ Shape(i) /\ TiledHeap(i)
          /\ Blocks(i) = Blocks(g) \cup {p} /\ p \notin Blocks(g)
          /\ ~i.used[p] /\ \A x \in Blocks(g) : i.used[x] = g.used[x]
      BY <3>1, <3>2, <1>5, InsertShape
    <3>4. l \in Blocks(i) \cup {ram_end}
      BY <3>1, <3>3, <1>5
    <3>5. k = [i EXCEPT !.lfree = l]
      BY <2>1 DEF TrimBlock, g
    <3> HIDE DEF i, l, k, p
    <3>6. Blocks(k) = Blocks(i) /\ k.used = i.used /\ k.lfree = l
      BY <3>3, <3>4, <3>5, SetLfree
    <3>7. h.lfree <= n /\ (h.lfree # n => h.lfree < b)
      BY <3>1, <2>1, <1>0, <1>5 DEF TiledHeap
    <3>8. \A x \in Blocks(k) : ~k.used[x] => x = p \/ (x \in Blocks(h) \ {n} /\ ~h.used[x])
      BY <3>1, <3>3, <3>6
    <3>9. \A x \in Blocks(h) : x \in Nat
      BY <1>0, Offsets
    <3>10. \A x \in Blocks(h) \ {n} : x \in Blocks(k) /\ k.used[x] = h.used[x]
      BY <3>1, <3>3, <3>6
    <3> QED  BY <3>1, <3>3, <3>6, <3>7, <3>8, <3>9, <3>10, <2>1, <1>0, <1>5 DEF l
  <2>2. CASE ~(n # ram_end /\ ~h.used[n]) /\ size + SIZEOF_STRUCT_MEM + MIN_SIZE_ALIGNED <= DataSize(h, b)
    <3> DEFINE i == Insert(h, b, p)
               l == IF p < h.lfree THEN p ELSE h.lfree
    <3>1. p + SIZEOF_STRUCT_MEM + MIN_SIZE_ALIGNED <= n
      BY <2>2, <1>5 DEF DataSize
    <3>2. /\ Shape(i) /\ TiledHeap(i)
          /\ Blocks(i) = Blocks(h) \cup {p} /\ p \notin Blocks(h)
          /\ ~i.used[p] /\ \A x \in Blocks(h) : i.used[x] = h.used[x]
      BY <3>1, <1>0, <1>5, InsertShape
    <3>3. l \in Blocks(i) \cup {ram_end}
      BY <3>2, <1>5
    <3>4. k = [i EXCEPT !.lfree = l]
      BY <2>2 DEF TrimBlock
    <3> HIDE DEF i, l, k, p
    <3>5. Blocks(k) = Blocks(i) /\ k.used = i.used /\ k.lfree = l
      BY <3>2, <3>3, <3>4, SetLfree
    <3>6. \A x \in Blocks(k) : ~k.used[x] => x = p \/ (x \in Blocks(h) /\ ~h.used[x])
      BY <3>2, <3>5
    <3>7. \A x \in Blocks(h) : x \in Nat
      BY <1>0, Offsets
    <3>8. \A x \in Blocks(h) : x \in Blocks(k) /\ k.used[x] = h.used[x]
      BY <3>2, <3>5
    <3>9. p \in Blocks(k) /\ ~k.used[p]
      BY <3>2, <3>5
    <3>10. CASE p < h.lfree
      BY <3>5, <3>6, <3>7, <3>9, <3>10, <1>0, <1>5 DEF l
    <3>11. CASE ~(p < h.lfree)
      BY <3>5, <3>6, <3>7, <3>8, <3>11, <1>0, <1>5 DEF l
    <3> QED  BY <3>10, <3>11
  <2>3. CASE ~(n # ram_end /\ ~h.used[n]) /\ ~(size + SIZEOF_STRUCT_MEM + MIN_SIZE_ALIGNED <= DataSize(h, b))
    <3>1. k = h
      BY <2>3 DEF TrimBlock
    <3> QED  BY <3>1, <1>0, <1>5
  <2> QED  BY <2>1, <2>2, <2>3
<1> HIDE DEF k, c
<1> QED  BY <1>2, <1>3, <1>4, <1>6, LagsBehind DEF k, c
-----------------------------------------------------------------------------
(* The operators of the atomic heap are those of MemHeap *)

\* mem_free and plug_holes.
LEMMA AtomicFree ==
  ASSUME NEW h, NEW b
  PROVE  Atomic!FreeBlock(h, b) = FreeBlock(h, b)
<1>1. \A g, x : Atomic!Absorb(g, x) = Absorb(g, x)
  BY DEF Atomic!Absorb, Absorb, Atomic!Blocks, Blocks
<1>2. ASSUME NEW g, NEW x PROVE Atomic!plug_holes(g, x) = plug_holes(g, x)
  <2>1. Atomic!ram_end = ram_end
    BY DEF Atomic!ram_end, ram_end
  <2> QED  BY <1>1, <2>1, Zenon DEF Atomic!plug_holes, plug_holes
<1> QED  BY <1>2 DEF Atomic!FreeBlock, FreeBlock

\* mem_trim.
LEMMA AtomicTrim ==
  ASSUME NEW h, NEW b, NEW size
  PROVE  Atomic!TrimBlock(h, b, size) = TrimBlock(h, b, size)
<1>1. \A g, x : Atomic!Absorb(g, x) = Absorb(g, x)
  BY DEF Atomic!Absorb, Absorb, Atomic!Blocks, Blocks
<1>2. \A g, x, p : Atomic!Insert(g, x, p) = Insert(g, x, p)
  BY DEF Atomic!Insert, Insert, Atomic!Blocks, Blocks
<1>3. Atomic!DataSize(h, b) = DataSize(h, b)
  BY DEF Atomic!DataSize, DataSize
<1> QED  BY <1>1, <1>2, <1>3 DEF Atomic!TrimBlock, TrimBlock, Atomic!ram_end, ram_end

\* The scan of mem_malloc, the split and the new lfree.
LEMMA AtomicAllocate ==
  ASSUME NEW h, NEW b, NEW size
  PROVE  /\ Atomic!Candidates(h, size) = Candidates(h, size)
         /\ Atomic!AdjustLfree(Atomic!TakeBlock(h, b, size), b) = AdjustLfree(TakeBlock(h, b, size), b)
<1>1. \A g, x, p : Atomic!Insert(g, x, p) = Insert(g, x, p)
  BY DEF Atomic!Insert, Insert, Atomic!Blocks, Blocks
<1>2. \A g, x : Atomic!DataSize(g, x) = DataSize(g, x)
  BY DEF Atomic!DataSize, DataSize
<1>3. Atomic!TakeBlock(h, b, size) = TakeBlock(h, b, size)
  BY <1>1, <1>2 DEF Atomic!TakeBlock, TakeBlock
<1>4. \A g : Atomic!LowestFree(g) = LowestFree(g)
  BY DEF Atomic!LowestFree, LowestFree, Atomic!Blocks, Blocks, Atomic!ram_end, ram_end
<1>5. \A g : Atomic!AdjustLfree(g, b) = AdjustLfree(g, b)
  BY <1>4 DEF Atomic!AdjustLfree, AdjustLfree
<1>6. Atomic!Candidates(h, size) = Candidates(h, size)
  BY <1>2 DEF Atomic!Candidates, Candidates, Atomic!Blocks, Blocks, Atomic!Fits, Fits,
              Atomic!ram_end, ram_end
<1> QED  BY <1>3, <1>5, <1>6

\* The aligned size.
LEMMA AtomicSize ==
  ASSUME NEW s
  PROVE  Atomic!AlignedSize(s) = AlignedSize(s)
BY DEF Atomic!AlignedSize, AlignedSize

\* Calls as steps of the atomic heap: mem_malloc and mem_calloc in general,
LEMMA RequestIsAtomic ==
  ASSUME NEW w \in Requests, Atomic!Malloc(w)
  PROVE  Atomic!Next
<1>1. CASE w \in Sizes
  BY <1>1 DEF Atomic!Next, Atomic!mem_malloc
<1>2. ASSUME NEW n \in Counts, NEW s \in Sizes, w = n * s PROVE Atomic!Next
  <2>1. Atomic!mem_calloc(n, s)
    BY <1>2 DEF Atomic!mem_calloc
  <2> QED  BY <2>1 DEF Atomic!Next
<1> QED  BY <1>1, <1>2 DEF Requests

\* mem_malloc that fails,
LEMMA FailIsAtomic ==
  ASSUME NEW w \in Requests,
         w % Modulus = 0 \/ SizeOf(w) > MEM_SIZE_ALIGNED \/ Candidates(CurrentHeap, SizeOf(w)) = {},
         ret' = Returned("malloc", w, NULL), CurrentHeap' = CurrentHeap, req' = req
  PROVE  Atomic!Next
<1>1. Atomic!Malloc(w)
  BY AtomicAllocate, AtomicSize DEF Atomic!Malloc, SizeOf, Atomic!Returned, Returned
<1> QED  BY <1>1, RequestIsAtomic

\* mem_malloc that takes block b,
LEMMA TakeIsAtomic ==
  ASSUME NEW w \in Requests, w % Modulus # 0, SizeOf(w) <= MEM_SIZE_ALIGNED,
         NEW b \in Candidates(CurrentHeap, SizeOf(w)),
         \A c \in Candidates(CurrentHeap, SizeOf(w)) : b <= c,
         CurrentHeap' = AdjustLfree(TakeBlock(CurrentHeap, b, SizeOf(w)), b),
         req' = [x \in DOMAIN req \cup {b} |-> IF x = b THEN w ELSE req[x]],
         ret' = Returned("malloc", w, b)
  PROVE  Atomic!Next
<1>1. Atomic!Malloc(w)
  BY AtomicAllocate, AtomicSize DEF Atomic!Malloc, SizeOf, Atomic!Returned, Returned
<1> QED  BY <1>1, RequestIsAtomic

\* mem_free,
LEMMA FreeIsAtomic ==
  ASSUME NEW b \in DOMAIN req,
         CurrentHeap' = FreeBlock(CurrentHeap, b),
         req' = [x \in DOMAIN req \ {b} |-> req[x]], ret' = NoCall
  PROVE  Atomic!Next
<1>1. Atomic!mem_free(b)
  BY AtomicFree DEF Atomic!mem_free, Atomic!NoCall, NoCall, Atomic!Returned, Returned
<1> QED  BY <1>1 DEF Atomic!Next

\* and mem_trim.
LEMMA TrimIsAtomic ==
  ASSUME NEW b \in DOMAIN req, NEW s \in Sizes \cup {0}, s <= req[b],
         CurrentHeap' = IF AlignedSize(s) < DataSize(CurrentHeap, b)
                        THEN TrimBlock(CurrentHeap, b, AlignedSize(s)) ELSE CurrentHeap,
         req' = IF AlignedSize(s) <= DataSize(CurrentHeap, b) THEN [req EXCEPT ![b] = s] ELSE req,
         ret' = NoCall
  PROVE  Atomic!Next
<1>1. Atomic!DataSize(CurrentHeap, b) = DataSize(CurrentHeap, b)
  BY DEF Atomic!DataSize, DataSize
<1>2. Atomic!mem_trim(b, s)
  BY <1>1, AtomicTrim, AtomicSize DEF Atomic!mem_trim, Atomic!NoCall, NoCall, Atomic!Returned, Returned
<1> QED  BY <1>2 DEF Atomic!Next
-----------------------------------------------------------------------------
(* The steps *)

\* A step of MemHeapIsr is a call of the atomic heap, or callers see nothing.
Seen == Atomic!Next \/ (CurrentHeap' = CurrentHeap /\ req' = req /\ ret' = ret)

\* After mem_init nothing is allocated and mem_malloc is not running.
LEMMA IsrBegins == IsrInit => IsrInv /\ Atomic!Init
<1> SUFFICES ASSUME IsrInit PROVE IsrInv /\ Atomic!Init
  OBVIOUS
<1>1. IndInv
  BY InitHolds DEF IsrInit
<1>2. IsrInv
  BY <1>1 DEF IndInv, IsrInit, IsrInv
<1>3. CurrentHeap = heap
  BY DEF IsrInit, CurrentHeap
<1>4. Atomic!Init
  BY <1>3 DEF IsrInit, Init, Atomic!Init, mem_init, Atomic!mem_init, ram_end, Atomic!ram_end,
              NoCall, Atomic!NoCall, Returned, Atomic!Returned
<1> QED  BY <1>2, <1>4

\* The sizes asked for are numbers.
LEMMA RequestSize ==
  ASSUME NEW w \in Requests
  PROVE  w \in Nat /\ SizeOf(w) \in Nat /\ MIN_SIZE_ALIGNED <= SizeOf(w)
<1>1. w \in Nat
  <2>1. \A n \in Counts, s \in Sizes : n \in Nat /\ s \in Nat
    OBVIOUS
  <2>2. \A n, s \in Nat : n * s \in Nat
    OBVIOUS
  <2> QED  BY <2>1, <2>2 DEF Requests
<1> QED  BY <1>1, GivenSize DEF SizeOf

\* The scan at block p, below which no block would do: it goes on, or there is
\* no such block at all and mem_malloc fails.
LEMMA ScanStep ==
  ASSUME IsrInv, pc # "adjust", NEW w \in Requests, w % Modulus # 0,
         SizeOf(w) <= MEM_SIZE_ALIGNED,
         NEW p \in Blocks(heap) \cup {ram_end}, heap.lfree <= p,
         \A c \in Candidates(heap, SizeOf(w)) : p <= c,
         ScanAt(p, w)
  PROVE  IsrInv' /\ Seen
<1>1. /\ heap' = heap /\ req' = req /\ HeapOK(heap) /\ CurrentHeap = heap
      /\ UsedIsHeld' /\ (req \in [DOMAIN req -> Nat])'
  BY DEF ScanAt, IsrInv, CurrentHeap, UsedIsHeld
<1>2. SizeOf(w) \in Nat
  BY RequestSize
<1>3. CASE p < ram_end - SizeOf(w)
  <2>1. /\ pc' = "scan" /\ wanted' = w /\ ptr' = p /\ mem' = NULL
        /\ mem_free_count' = 0 /\ ret' = ret
    BY <1>3 DEF ScanAt
  <2>2. Size' = SizeOf(w)
    BY <2>1 DEF Size
  <2>3. p \in Blocks(heap)
    BY <1>1, <1>2, <1>3, Offsets DEF HeapOK
  <2>4. CurrentHeap' = heap
    BY <1>1, <2>1 DEF CurrentHeap
  <2>5. IsrInv'
    BY <1>1, <1>3, <2>1, <2>2, <2>3 DEF IsrInv
  <2> QED  BY <1>1, <2>1, <2>4, <2>5 DEF Seen
<1>4. CASE ~(p < ram_end - SizeOf(w))
  <2>1. ret' = Returned("malloc", w, NULL) /\ pc' = "idle" /\ mem' = NULL
    BY <1>4 DEF ScanAt, Done
  <2>2. Candidates(heap, SizeOf(w)) = {}
    <3>1. \A c \in Blocks(heap) : c \in Nat
      BY <1>1, Offsets DEF HeapOK
    <3>2. p \in Nat /\ ram_end \in Nat
      BY <1>1, Offsets DEF HeapOK
    <3>3. ASSUME NEW c \in Candidates(heap, SizeOf(w)) PROVE FALSE
      <4>1. c \in Blocks(heap) /\ c < ram_end - SizeOf(w)
        BY DEF Candidates
      <4>2. p <= c
        OBVIOUS
      <4> QED  BY <1>2, <1>4, <3>1, <3>2, <4>1, <4>2
    <3> QED  BY <3>3
  <2>3. CurrentHeap' = heap
    BY <1>1, <2>1 DEF CurrentHeap
  <2>4. Atomic!Next
    BY <1>1, <2>1, <2>2, <2>3, FailIsAtomic
  <2>5. IsrInv'
    BY <1>1, <2>1 DEF IsrInv, Returned
  <2> QED  BY <2>4, <2>5 DEF Seen
<1> QED  BY <1>3, <1>4

\* mem_malloc is called.
LEMMA BeginStep ==
  ASSUME IsrInv, NEW w \in Requests, MallocBegins(w)
  PROVE  IsrInv' /\ Seen
<1>1. pc = "idle" /\ HeapOK(heap) /\ CurrentHeap = heap
  BY DEF MallocBegins, IsrInv, CurrentHeap
<1>2. CASE /\ w % Modulus = 0 \/ SizeOf(w) > MEM_SIZE_ALIGNED
           /\ ret' = Returned("malloc", w, NULL)
           /\ UNCHANGED <<heap, req>> /\ Done
  <2>1. CurrentHeap' = heap
    BY <1>2 DEF CurrentHeap, Done
  <2>2. Atomic!Next
    BY <1>1, <1>2, <2>1, FailIsAtomic
  <2>3. IsrInv'
    BY <1>1, <1>2 DEF IsrInv, Returned, Done, UsedIsHeld
  <2> QED  BY <2>2, <2>3 DEF Seen
<1>3. CASE w % Modulus # 0 /\ SizeOf(w) <= MEM_SIZE_ALIGNED /\ ScanAt(heap.lfree, w)
  <2>1. heap.lfree \in Blocks(heap) \cup {ram_end} /\ heap.lfree <= heap.lfree
    BY <1>1, Offsets DEF HeapOK, Shape
  <2>2. \A c \in Candidates(heap, SizeOf(w)) : heap.lfree <= c
    BY <1>1, Offsets DEF HeapOK, Candidates
  <2> QED  BY <1>1, <1>3, <2>1, <2>2, ScanStep
<1> QED  BY <1>2, <1>3 DEF MallocBegins

\* mem_malloc is back in the section and looks at block ptr.
LEMMA LookStep ==
  ASSUME IsrInv, ScanWindow
  PROVE  IsrInv' /\ Seen
<1>1. /\ pc = "scan" /\ HeapOK(heap) /\ CurrentHeap = heap /\ mem = NULL
      /\ wanted \in Requests /\ wanted % Modulus # 0 /\ SizeOf(wanted) <= MEM_SIZE_ALIGNED
      /\ UsedIsHeld /\ req \in [DOMAIN req -> Nat]
  BY DEF ScanWindow, IsrInv, CurrentHeap, Size
<1>2. wanted \in Nat /\ SizeOf(wanted) \in Nat /\ MIN_SIZE_ALIGNED <= SizeOf(wanted)
  BY <1>1, RequestSize
<1>3. CASE mem_free_count # 0 /\ ScanAt(heap.lfree, wanted)
  <2>1. heap.lfree \in Blocks(heap) \cup {ram_end} /\ heap.lfree <= heap.lfree
    BY <1>1, Offsets DEF HeapOK, Shape
  <2>2. \A c \in Candidates(heap, SizeOf(wanted)) : heap.lfree <= c
    BY <1>1, Offsets DEF HeapOK, Candidates
  <2> QED  BY <1>1, <1>3, <2>1, <2>2, ScanStep
<1> DEFINE z == SizeOf(wanted)
<1>4. mem_free_count = 0 => /\ ptr \in Blocks(heap) /\ ptr < ram_end - z /\ heap.lfree <= ptr
                            /\ \A c \in Candidates(heap, z) : ptr <= c
  BY <1>1 DEF IsrInv, Size
<1>5. CASE mem_free_count = 0 /\ ~Fits(heap, ptr, z) /\ ScanAt(heap.next[ptr], wanted)
  <2>1. /\ heap.next[ptr] \in Blocks(heap) \cup {ram_end}
        /\ ptr \in Nat /\ heap.lfree \in Nat /\ heap.next[ptr] \in Nat
        /\ ptr < heap.next[ptr]
    <3>1. ptr \in Blocks(heap) /\ Shape(heap) /\ TiledHeap(heap)
      BY <1>1, <1>4, <1>5 DEF HeapOK
    <3>2. ptr \in Nat /\ heap.lfree \in Nat /\ heap.next[ptr] \in Nat
      BY <3>1, Offsets
    <3>3. ptr + SIZEOF_STRUCT_MEM + MIN_SIZE_ALIGNED <= heap.next[ptr]
      BY <3>1 DEF TiledHeap
    <3> QED  BY <3>1, <3>2, <3>3 DEF Shape
  <2>2. heap.lfree <= heap.next[ptr]
    BY <1>4, <1>5, <2>1
  <2>3. ASSUME NEW c \in Candidates(heap, z) PROVE heap.next[ptr] <= c
    <3>1. c \in Blocks(heap) /\ Fits(heap, c, z) /\ c \in Nat
      BY <1>1, Offsets DEF Candidates, HeapOK
    <3>2. ptr <= c /\ c # ptr
      BY <1>4, <1>5, <3>1
    <3> QED  BY <1>1, <1>4, <1>5, <2>1, <3>1, <3>2 DEF HeapOK, TiledHeap
  <2> QED  BY <1>1, <1>5, <2>1, <2>2, <2>3, ScanStep
<1> DEFINE h == TakeBlock(heap, ptr, z)
<1>6. CASE /\ mem_free_count = 0 /\ Fits(heap, ptr, z)
           /\ req' = [x \in DOMAIN req \cup {ptr} |-> IF x = ptr THEN wanted ELSE req[x]]
           /\ ret' = Returned("malloc", wanted, ptr)
           /\ IF ptr = h.lfree THEN AdjustAt(h, ptr, ptr) ELSE heap' = h /\ Done
  <2>1. /\ Shape(h) /\ TiledHeap(h) /\ NoAdjacentFreeIn(h)
        /\ UsedIn(h) = UsedIn(heap) \cup {ptr} /\ ptr \in Blocks(h)
        /\ h.lfree = heap.lfree
        /\ \A x \in Blocks(h) : ~h.used[x] => heap.lfree <= x
    BY <1>1, <1>2, <1>4, <1>6, TakeBlockOK
  <2>2. ptr \in Candidates(heap, z)
    BY <1>1, <1>4, <1>6, Offsets DEF Candidates, HeapOK
  <2>3. HeapOK(AdjustLfree(h, ptr))
    BY <1>1, <1>2, <1>4, <1>6, AllocateOK
  <2> HIDE DEF h
  <2>4. /\ h.used[ptr] /\ ptr \in Nat /\ ptr # ram_end
        /\ \A x \in Blocks(h) : x \in Nat
    BY <2>1, Offsets DEF UsedIn
  <2>5. CASE ptr = h.lfree
    <3>1. heap' = h /\ pc' = "adjust" /\ ptr' = ptr /\ mem' = ptr /\ mem_free_count' = 0
      BY <1>6, <2>4, <2>5 DEF AdjustAt
    <3>2. CurrentHeap' = AdjustLfree(h, ptr)
      BY <3>1, <2>5 DEF CurrentHeap, AdjustLfree
    <3>3. Lags(h, ptr) /\ \A x \in Blocks(h) : ~h.used[x] => ptr < x
      BY <2>1, <2>4, <2>5 DEF Lags, UsedIn
    <3>4. UsedIsHeld' /\ (req \in [DOMAIN req -> Nat])' /\ (ret.mem \in Blocks(heap))'
      BY <1>1, <1>2, <1>6, <2>1, <3>1 DEF UsedIsHeld, UsedIn, Returned
    <3>5. IsrInv'
      BY <3>1, <3>3, <3>4, <2>4, <2>5, <2>1 DEF IsrInv, UsedIn
    <3>6. Atomic!Next
      BY <1>1, <1>4, <1>6, <2>2, <3>2, TakeIsAtomic DEF h
    <3> QED  BY <3>5, <3>6 DEF Seen
  <2>6. CASE ptr # h.lfree
    <3>1. heap' = h /\ pc' = "idle" /\ mem' = NULL
      BY <1>6, <2>6 DEF Done
    <3>2. CurrentHeap' = h /\ AdjustLfree(h, ptr) = h
      BY <3>1, <2>6 DEF CurrentHeap, AdjustLfree
    <3>3. UsedIsHeld' /\ (req \in [DOMAIN req -> Nat])' /\ (ret.mem \in Blocks(heap))'
      BY <1>1, <1>2, <1>6, <2>1, <3>1 DEF UsedIsHeld, UsedIn, Returned
    <3>4. IsrInv'
      BY <3>1, <3>2, <3>3, <2>3 DEF IsrInv
    <3>5. Atomic!Next
      BY <1>1, <1>4, <1>6, <2>2, <3>2, TakeIsAtomic DEF h
    <3> QED  BY <3>4, <3>5 DEF Seen
  <2> QED  BY <2>5, <2>6
<1> QED  BY <1>3, <1>5, <1>6 DEF ScanWindow, Size

\* mem_malloc is back in the section and goes on looking for lfree: callers see
\* nothing of it.
LEMMA AdjustStep ==
  ASSUME IsrInv, AdjustWindow
  PROVE  IsrInv' /\ Seen
<1>1. /\ pc = "adjust" /\ Lags(heap, mem) /\ CurrentHeap = Caught(heap)
      /\ req' = req /\ ret' = ret
      /\ UsedIsHeld /\ req \in [DOMAIN req -> Nat] /\ ret.mem \in Blocks(heap) \cup {NULL}
  BY DEF AdjustWindow, IsrInv, CurrentHeap, Caught
<1>2. /\ Shape(heap) /\ TiledHeap(heap) /\ NoAdjacentFreeIn(heap)
      /\ mem \in Blocks(heap) /\ heap.used[mem] /\ mem \in Nat /\ mem # ram_end
      /\ \A x \in Blocks(heap) : x \in Nat
      /\ heap.lfree = mem \/ ~heap.used[heap.lfree]
      /\ \A x \in Blocks(heap) : ~heap.used[x] => heap.lfree <= x
  BY <1>1, Offsets DEF Lags, UsedIn
<1>3. ASSUME NEW c \in Blocks(heap), heap.used[c], heap.lfree = mem,
             \A x \in Blocks(heap) : ~heap.used[x] => c < x,
             AdjustAt(heap, mem, c)
      PROVE  IsrInv' /\ Seen
  <2>1. heap' = heap /\ pc' = "adjust" /\ ptr' = c /\ mem' = mem /\ mem_free_count' = 0
    BY <1>2, <1>3, Offsets DEF AdjustAt
  <2>2. CurrentHeap' = CurrentHeap
    BY <1>1, <2>1 DEF CurrentHeap
  <2>3. IsrInv'
    BY <1>1, <1>3, <2>1 DEF IsrInv, UsedIsHeld, UsedIn
  <2> QED  BY <1>1, <2>2, <2>3 DEF Seen
<1>4. CASE mem_free_count # 0 /\ mem = heap.lfree /\ AdjustAt(heap, mem, mem)
  <2>1. \A x \in Blocks(heap) : ~heap.used[x] => mem < x
    BY <1>2, <1>4
  <2> QED  BY <1>2, <1>3, <1>4, <2>1
<1>5. CASE mem_free_count # 0 /\ mem # heap.lfree /\ UNCHANGED heap /\ Done
  <2>1. HeapOK(heap)
    BY <1>2, <1>5 DEF HeapOK, LfreeLowestIn
  <2>2. CurrentHeap = heap /\ CurrentHeap' = heap
    BY <1>1, <1>5, <2>1, CaughtSame DEF CurrentHeap, Done
  <2>3. IsrInv'
    BY <1>1, <1>5, <2>1 DEF IsrInv, UsedIsHeld, Done
  <2> QED  BY <1>1, <2>2, <2>3 DEF Seen
<1>6. CASE mem_free_count = 0 /\ AdjustAt(heap, mem, heap.next[ptr])
  <2> DEFINE c == heap.next[ptr]
  <2>1. /\ heap.lfree = mem /\ ptr \in Blocks(heap)
        /\ \A x \in Blocks(heap) : ~heap.used[x] => ptr < x
    BY <1>1, <1>6 DEF IsrInv, UsedIn
  <2>2. c \in Blocks(heap) \cup {ram_end} /\ \A x \in Blocks(heap) : ~heap.used[x] => c <= x
    BY <1>2, <2>1 DEF Shape, TiledHeap
  <2> HIDE DEF c
  <2>3. CASE c # ram_end /\ heap.used[c]
    <3>1. ASSUME NEW x \in Blocks(heap), ~heap.used[x] PROVE c < x
      <4>1. c <= x /\ x # c /\ x \in Nat /\ c \in Nat
        BY <1>2, <2>2, <2>3, <3>1
      <4> QED  BY <4>1
    <3> QED  BY <1>3, <1>6, <2>1, <2>2, <2>3, <3>1 DEF c
  <2>4. CASE ~(c # ram_end /\ heap.used[c])
    <3>1. heap' = [heap EXCEPT !.lfree = c] /\ pc' = "idle" /\ mem' = NULL
      BY <1>6, <2>4 DEF AdjustAt, Done, c
    <3> DEFINE k == [heap EXCEPT !.lfree = c]
    <3>2. Shape(k) /\ Blocks(k) = Blocks(heap) /\ k.used = heap.used /\ k.lfree = c
      BY <1>2, <2>2, SetLfree
    <3>3. LfreeLowestIn(k)
      BY <2>2, <2>4, <3>2 DEF LfreeLowestIn
    <3>4. c = LowestFree(heap)
      <4>1. c = LowestFree(k)
        <5> HIDE DEF k
        <5> QED  BY <3>2, <3>3, LowestIsLowestFree
      <4> HIDE DEF k
      <4> QED  BY <3>2, <4>1 DEF LowestFree
    <3>5. heap' = Caught(heap) /\ CurrentHeap' = Caught(heap)
      BY <3>1, <3>4 DEF Caught, CurrentHeap
    <3>6. /\ HeapOK(heap') /\ Blocks(heap') = Blocks(heap) /\ heap'.used = heap.used
      BY <1>2, <3>5, CaughtOK
    <3>7. IsrInv'
      BY <1>1, <3>1, <3>6 DEF IsrInv, UsedIsHeld
    <3> QED  BY <1>1, <3>5, <3>7 DEF Seen
  <2> QED  BY <2>3, <2>4
<1> QED  BY <1>4, <1>5, <1>6 DEF AdjustWindow

\* Another context frees a block, whatever window mem_malloc is in.
LEMMA FreeStep ==
  ASSUME IsrInv, FreeElsewhere
  PROVE  IsrInv' /\ Seen
<1>1. PICK b \in DOMAIN req \ {mem} : mem_free(b)
  BY DEF FreeElsewhere
<1>2. /\ b \in UsedIn(heap) \ {mem} /\ b \in Blocks(heap) /\ heap.used[b]
      /\ heap' = FreeBlock(heap, b)
      /\ req' = [x \in DOMAIN req \ {b} |-> req[x]] /\ ret' = NoCall
      /\ pc' = pc /\ mem' = mem /\ wanted' = wanted
      /\ pc # "idle" => mem_free_count' # 0
  BY <1>1 DEF IsrInv, UsedIsHeld, UsedIn, mem_free, FreeElsewhere, Disturbed
<1>3. ASSUME UsedIn(heap') = UsedIn(heap) \ {b}
      PROVE  /\ UsedIsHeld' /\ (req \in [DOMAIN req -> Nat])'
             /\ (ret.mem \in Blocks(heap) \cup {NULL})'
  BY <1>2, <1>3 DEF IsrInv, UsedIsHeld, UsedIn, NoCall, Returned
<1>4. CASE pc # "adjust"
  <2>1. HeapOK(heap) /\ mem = NULL /\ CurrentHeap = heap /\ CurrentHeap' = heap'
    BY <1>2, <1>4 DEF IsrInv, CurrentHeap
  <2>2. HeapOK(heap') /\ UsedIn(heap') = UsedIn(heap) \ {b}
    BY <1>2, <2>1, FreeBlockOK
  <2>3. IsrInv'
    <3>1. Size' = Size
      BY <1>2 DEF Size
    <3> QED  BY <1>2, <1>3, <1>4, <2>1, <2>2, <3>1 DEF IsrInv
  <2>4. Atomic!Next
    BY <1>1, <1>2, <2>1, FreeIsAtomic
  <2> QED  BY <2>3, <2>4 DEF Seen
<1>5. CASE pc = "adjust"
  <2>1. Lags(heap, mem) /\ CurrentHeap = Caught(heap) /\ CurrentHeap' = Caught(heap')
    BY <1>2, <1>5 DEF IsrInv, CurrentHeap, Caught
  <2>2. /\ Lags(heap', mem) /\ UsedIn(heap') = UsedIn(heap) \ {b}
        /\ Caught(heap') = FreeBlock(Caught(heap), b)
    BY <1>2, <2>1, FreeLagging
  <2>3. IsrInv'
    BY <1>2, <1>3, <1>5, <2>2 DEF IsrInv
  <2>4. Atomic!Next
    BY <1>1, <1>2, <2>1, <2>2, FreeIsAtomic
  <2> QED  BY <2>3, <2>4 DEF Seen
<1> QED  BY <1>4, <1>5

\* Another context trims a block.
LEMMA TrimStep ==
  ASSUME IsrInv, TrimElsewhere
  PROVE  IsrInv' /\ Seen
<1>1. PICK b \in DOMAIN req \ {mem}, s \in Sizes \cup {0} :
        /\ mem_trim(b, s)
        /\ IF AlignedSize(s) < DataSize(heap, b) THEN Disturbed ELSE UNCHANGED mem_free_count
  BY DEF TrimElsewhere
<1> DEFINE z == AlignedSize(s)
<1>2. s \in Nat /\ z \in Nat /\ MIN_SIZE_ALIGNED <= z
  BY AlignedSizeIsNat
<1>3. /\ b \in UsedIn(heap) \ {mem} /\ b \in Blocks(heap) /\ heap.used[b]
      /\ s <= req[b] /\ ret' = NoCall
      /\ heap' = IF z < DataSize(heap, b) THEN TrimBlock(heap, b, z) ELSE heap
      /\ req' = IF z <= DataSize(heap, b) THEN [req EXCEPT ![b] = s] ELSE req
      /\ pc' = pc /\ mem' = mem /\ wanted' = wanted /\ ptr' = ptr
      /\ IF z < DataSize(heap, b) THEN Disturbed ELSE UNCHANGED mem_free_count
  BY <1>1 DEF IsrInv, UsedIsHeld, UsedIn, mem_trim, TrimElsewhere
<1> HIDE DEF z
<1>4. DOMAIN req' = DOMAIN req /\ req' \in [DOMAIN req -> Nat]
  BY <1>2, <1>3 DEF IsrInv
<1>5. ASSUME UsedIn(heap') = UsedIn(heap)
      PROVE  /\ UsedIsHeld' /\ (req \in [DOMAIN req -> Nat])'
             /\ (ret.mem \in Blocks(heap) \cup {NULL})'
  BY <1>3, <1>4, <1>5 DEF IsrInv, UsedIsHeld, UsedIn, NoCall, Returned
<1>6. Size' = Size
  BY <1>3 DEF Size
<1>7. CASE ~(z < DataSize(heap, b))
  <2>1. heap' = heap /\ mem_free_count' = mem_free_count
    BY <1>3, <1>7
  <2>2. CurrentHeap' = CurrentHeap /\ DataSize(CurrentHeap, b) = DataSize(heap, b)
    <3>1. pc = "adjust" => Caught(heap).next = heap.next /\ CurrentHeap = Caught(heap)
      BY CaughtOK DEF IsrInv, Lags, CurrentHeap, Caught
    <3>2. CurrentHeap.next = heap.next
      BY <3>1 DEF CurrentHeap
    <3> QED  BY <1>3, <2>1, <3>2 DEF CurrentHeap, DataSize
  <2>3. IsrInv'
    BY <1>3, <1>5, <1>6, <2>1 DEF IsrInv
  <2>4. Atomic!Next
    BY <1>1, <1>3, <1>7, <2>2, TrimIsAtomic DEF z
  <2> QED  BY <2>3, <2>4 DEF Seen
<1>8. CASE z < DataSize(heap, b) /\ pc # "adjust"
  <2>1. /\ HeapOK(heap) /\ mem = NULL /\ CurrentHeap = heap /\ CurrentHeap' = heap'
        /\ heap' = TrimBlock(heap, b, z) /\ (pc # "idle" => mem_free_count' # 0)
    BY <1>3, <1>8 DEF IsrInv, CurrentHeap, Disturbed
  <2>2. HeapOK(heap') /\ UsedIn(heap') = UsedIn(heap)
    BY <1>2, <1>3, <1>8, <2>1, TrimBlockOK
  <2>3. IsrInv'
    BY <1>3, <1>5, <1>6, <1>8, <2>1, <2>2 DEF IsrInv
  <2>4. Atomic!Next
    BY <1>1, <1>3, <1>8, <2>1, TrimIsAtomic DEF z
  <2> QED  BY <2>3, <2>4 DEF Seen
<1>9. CASE z < DataSize(heap, b) /\ pc = "adjust"
  <2>1. /\ Lags(heap, mem) /\ CurrentHeap = Caught(heap) /\ CurrentHeap' = Caught(heap')
        /\ heap' = TrimBlock(heap, b, z) /\ mem_free_count' # 0
    BY <1>3, <1>9 DEF IsrInv, CurrentHeap, Caught, Disturbed
  <2>2. /\ Lags(heap', mem) /\ UsedIn(heap') = UsedIn(heap)
        /\ Caught(heap') = TrimBlock(Caught(heap), b, z)
    BY <1>2, <1>3, <1>9, <2>1, TrimLagging
  <2>3. IsrInv'
    BY <1>3, <1>5, <1>9, <2>1, <2>2 DEF IsrInv
  <2>4. DataSize(CurrentHeap, b) = DataSize(heap, b)
    BY <2>1, CaughtOK DEF Lags, DataSize
  <2>5. Atomic!Next
    BY <1>1, <1>3, <1>9, <2>1, <2>2, <2>4, TrimIsAtomic DEF z
  <2> QED  BY <2>3, <2>5 DEF Seen
<1> QED  BY <1>7, <1>8, <1>9
-----------------------------------------------------------------------------
(* The theorems *)

\* Every step keeps the invariant and is a step, or none, of the atomic heap.
LEMMA EveryStep == IsrInv /\ [IsrNext]_allvars => IsrInv' /\ [Atomic!Next]_(Atomic!vars)
<1> SUFFICES ASSUME IsrInv, [IsrNext]_allvars PROVE IsrInv' /\ Seen
  BY DEF Seen, Atomic!vars
<1>1. CASE Allocate
  <2>1. PICK w \in Requests : MallocBegins(w)
    BY <1>1 DEF Allocate, Requests
  <2> QED  BY <2>1, BeginStep
<1>2. CASE Allocator
  BY <1>2, LookStep, AdjustStep DEF Allocator
<1>3. CASE Disturb
  BY <1>3, FreeStep, TrimStep DEF Disturb
<1>4. CASE UNCHANGED allvars
  BY <1>4 DEF allvars, scan, vars, IsrInv, UsedIsHeld, Size, CurrentHeap, Seen
<1> QED  BY <1>1, <1>2, <1>3, <1>4 DEF IsrNext

\* The invariant of the open mem_malloc.
THEOREM IsrInvariance == IsrSpec => []IsrInv
BY IsrBegins, EveryStep, PTL DEF IsrSpec

\* Callers cannot tell the mem_malloc that opens its section at every block from
\* one that is a single step, however mem_free and mem_trim of other contexts
\* come in between.
THEOREM OpenMallocIsAtomic == IsrSpec => ImplementsAtomicHeap
BY IsrBegins, EveryStep, PTL DEF IsrSpec, ImplementsAtomicHeap, Atomic!Spec

\* Also in the windows of mem_malloc the headers tile the heap, no two free
\* blocks are side by side, and the used blocks are those that are held.
THEOREM OpenHeapIsConsistent == IsrSpec => []HeapConsistent
<1>1. IsrInv => HeapConsistent
  BY DEF IsrInv, HeapOK, Lags, Shape, TypeOK, HeapConsistent
<1> QED  BY <1>1, IsrInvariance, PTL
-----------------------------------------------------------------------------
(* What callers get from the open mem_malloc, when no size wraps around *)

\* Headers, requests and result stay as they are.
LEMMA SameServes ==
  ASSUME CallInv, heap'.next = heap.next, heap'.used = heap.used, req' = req, ret' = ret
  PROVE  CallInv'
BY DEF CallInv, EnoughRoom, FailsOnlyWhenFull, Fits, DataSize, Blocks

\* No request wraps around when it is aligned.
LEMMA RequestDoesNotWrap ==
  ASSUME NoWrap, NEW w \in Requests
  PROVE  w \in Nat /\ w + MEM_ALIGNMENT - 1 < Modulus
<1>1. CASE w \in Sizes
  BY <1>1 DEF NoWrap
<1>2. CASE w \in {n * s : n \in Counts, s \in Sizes}
  <2>1. PICK n \in Counts, s \in Sizes : w = n * s
    BY <1>2
  <2> QED  BY <2>1, RequestSize DEF NoWrap
<1> QED  BY <1>1, <1>2 DEF Requests

\* mem_malloc fails at the end of its scan.
LEMMA FailServes ==
  ASSUME NoWrap, CallInv, HeapOK(heap), NEW w \in Requests,
         w % Modulus = 0 \/ SizeOf(w) > MEM_SIZE_ALIGNED \/ Candidates(heap, SizeOf(w)) = {},
         ret' = Returned("malloc", w, NULL), heap' = heap, req' = req
  PROVE  CallInv'
<1> DEFINE z == AlignedSize(w)
<1>1. w \in Nat /\ w + MEM_ALIGNMENT - 1 < Modulus
  BY RequestDoesNotWrap
<1>2. w % Modulus = w /\ SizeOf(w) = z /\ z \in Nat
  BY <1>1, AlignedSizeIsEnough, AlignedSizeIsNat DEF SizeOf
<1> HIDE DEF z
<1>3. ASSUME w # 0, NEW b \in Blocks(heap), Fits(heap, b, z) PROVE FALSE
  <2>1. /\ b \in Nat /\ heap.next[b] \in Nat /\ heap.next[b] <= ram_end /\ ram_end \in Nat
        /\ heap.lfree \in Nat /\ heap.lfree <= b
    BY <1>3, Offsets DEF HeapOK, LfreeLowestIn, Fits
  <2>2. b + SIZEOF_STRUCT_MEM + z <= ram_end
    BY <1>2, <1>3, <2>1 DEF Fits, DataSize
  <2>3. b \in Candidates(heap, z) /\ z <= ram_end
    BY <1>2, <1>3, <2>1, <2>2 DEF Candidates
  <2> QED  BY <1>2, <1>3, <2>3 DEF ram_end
<1>4. FailsOnlyWhenFull'
  BY <1>3 DEF FailsOnlyWhenFull, Returned, z
<1>5. EnoughRoom'
  BY DEF CallInv, EnoughRoom
<1> QED  BY <1>4, <1>5 DEF CallInv

\* A step of the scan.
LEMMA ScanServes ==
  ASSUME NoWrap, CallInv, HeapOK(heap), NEW w \in Requests,
         NEW p \in Blocks(heap) \cup {ram_end},
         \A c \in Candidates(heap, SizeOf(w)) : p <= c,
         ScanAt(p, w)
  PROVE  CallInv'
<1>1. CASE p < ram_end - SizeOf(w)
  BY <1>1, SameServes DEF ScanAt
<1>2. CASE ~(p < ram_end - SizeOf(w))
  <2>1. SizeOf(w) \in Nat /\ p \in Nat /\ ram_end \in Nat /\ \A c \in Blocks(heap) : c \in Nat
    BY RequestSize, Offsets DEF HeapOK
  <2>2. ASSUME NEW c \in Candidates(heap, SizeOf(w)) PROVE FALSE
    <3>1. c \in Blocks(heap) /\ c < ram_end - SizeOf(w)
      BY DEF Candidates
    <3>2. p <= c
      OBVIOUS
    <3> QED  BY <1>2, <2>1, <3>1, <3>2
  <2> QED  BY <1>2, <2>2, FailServes DEF ScanAt
<1> QED  BY <1>1, <1>2

\* A block is taken.
LEMMA LookServes ==
  ASSUME NoWrap, IsrInv, CallInv, ScanWindow
  PROVE  CallInv'
<1>1. /\ pc = "scan" /\ HeapOK(heap) /\ wanted \in Requests
      /\ UsedIsHeld /\ req \in [DOMAIN req -> Nat]
  BY DEF ScanWindow, IsrInv
<1> DEFINE z == SizeOf(wanted)
<1>2. /\ wanted \in Nat /\ wanted + MEM_ALIGNMENT - 1 < Modulus
      /\ z \in Nat /\ MIN_SIZE_ALIGNED <= z
  BY <1>1, RequestSize, RequestDoesNotWrap
<1>3. wanted <= z
  BY <1>2, AlignedSizeIsEnough DEF SizeOf
<1> HIDE DEF z
<1>4. mem_free_count = 0 => /\ ptr \in Blocks(heap)
                            /\ \A c \in Candidates(heap, z) : ptr <= c
  BY <1>1 DEF IsrInv, Size, z
<1>5. CASE mem_free_count # 0 /\ ScanAt(heap.lfree, wanted)
  <2>1. heap.lfree \in Blocks(heap) \cup {ram_end}
    BY <1>1 DEF HeapOK, Shape
  <2>2. \A c \in Candidates(heap, SizeOf(wanted)) : heap.lfree <= c
    BY <1>1, Offsets DEF HeapOK, Candidates
  <2> QED  BY <1>1, <1>5, <2>1, <2>2, ScanServes
<1>6. CASE mem_free_count = 0 /\ ~Fits(heap, ptr, z) /\ ScanAt(heap.next[ptr], wanted)
  <2>1. heap.next[ptr] \in Blocks(heap) \cup {ram_end}
    BY <1>1, <1>4, <1>6 DEF HeapOK, Shape
  <2>2. ASSUME NEW c \in Candidates(heap, z) PROVE heap.next[ptr] <= c
    <3>1. c \in Blocks(heap) /\ Fits(heap, c, z) /\ c \in Nat /\ ptr \in Nat
      BY <1>1, <1>4, <1>6, Offsets DEF Candidates, HeapOK
    <3>2. ptr <= c /\ c # ptr
      BY <1>4, <1>6, <3>1
    <3> QED  BY <1>1, <1>4, <1>6, <3>1, <3>2 DEF HeapOK, TiledHeap
  <2> QED  BY <1>1, <1>6, <2>1, <2>2, ScanServes DEF z
<1> DEFINE h == TakeBlock(heap, ptr, z)
<1>7. CASE /\ mem_free_count = 0 /\ Fits(heap, ptr, z)
           /\ req' = [x \in DOMAIN req \cup {ptr} |-> IF x = ptr THEN wanted ELSE req[x]]
           /\ ret' = Returned("malloc", wanted, ptr)
           /\ IF ptr = h.lfree THEN AdjustAt(h, ptr, ptr) ELSE heap' = h /\ Done
  <2>1. /\ Shape(h) /\ UsedIn(h) = UsedIn(heap) \cup {ptr} /\ ptr \in Blocks(h)
        /\ DataSize(h, ptr) >= z
        /\ \A x \in UsedIn(heap) : DataSize(h, x) = DataSize(heap, x)
    BY <1>1, <1>2, <1>4, <1>7, TakeBlockOK
  <2> HIDE DEF h
  <2>2. h.used[ptr] /\ ptr # ram_end /\ ptr # NULL /\ DataSize(h, ptr) \in Int
    BY <2>1, Offsets DEF UsedIn, DataSize
  <2>3. heap' = h
    BY <1>7, <2>2 DEF AdjustAt
  <2>4. UsedIn(heap) = DOMAIN req /\ UsedIn(heap) \subseteq Blocks(heap)
    BY <1>1 DEF UsedIsHeld, UsedIn
  <2>5. \A x \in DOMAIN req \ {ptr} : DataSize(h, x) >= req[x]
    BY <2>1, <2>4 DEF CallInv, EnoughRoom
  <2>6. DataSize(h, ptr) >= wanted
    BY <1>2, <1>3, <2>1, <2>2
  <2>7. EnoughRoom'
    BY <1>7, <2>3, <2>5, <2>6 DEF EnoughRoom
  <2>8. FailsOnlyWhenFull'
    BY <1>7, <2>2 DEF FailsOnlyWhenFull, Returned
  <2> QED  BY <2>7, <2>8 DEF CallInv
<1> QED  BY <1>5, <1>6, <1>7 DEF ScanWindow, Size, z

\* Looking for lfree concerns no caller.
LEMMA AdjustServes ==
  ASSUME IsrInv, CallInv, AdjustWindow
  PROVE  CallInv'
<1>1. Shape(heap)
  BY DEF IsrInv, AdjustWindow, Lags
<1>2. heap' = heap \/ \E c : heap' = [heap EXCEPT !.lfree = c]
  BY DEF AdjustWindow, AdjustAt
<1>3. heap'.next = heap.next /\ heap'.used = heap.used
  BY <1>1, <1>2 DEF Shape
<1> QED  BY <1>3, SameServes DEF AdjustWindow

\* A block is freed elsewhere.
LEMMA FreeElsewhereServes ==
  ASSUME IsrInv, CallInv, FreeElsewhere
  PROVE  CallInv'
<1>1. PICK b \in DOMAIN req \ {mem} : mem_free(b)
  BY DEF FreeElsewhere
<1>2. /\ b \in UsedIn(heap) \ {mem} /\ b \in Blocks(heap) /\ heap.used[b]
      /\ DOMAIN req = UsedIn(heap) /\ UsedIn(heap) \subseteq Blocks(heap)
  BY <1>1 DEF IsrInv, UsedIsHeld, UsedIn
<1>3. HeapOK(heap) \/ Lags(heap, mem)
  BY DEF IsrInv
<1>4. \A x \in UsedIn(heap) \ {b} : DataSize(heap', x) = DataSize(heap, x)
  BY <1>1, <1>2, <1>3, FreeBlockOK, FreeLagging DEF mem_free
<1>5. EnoughRoom'
  BY <1>1, <1>2, <1>4 DEF CallInv, EnoughRoom, mem_free
<1>6. FailsOnlyWhenFull'
  BY <1>1 DEF FailsOnlyWhenFull, mem_free, NoCall, Returned
<1> QED  BY <1>5, <1>6 DEF CallInv

\* A block is trimmed elsewhere: it keeps the bytes its owner wants to keep.
LEMMA TrimElsewhereServes ==
  ASSUME NoWrap, IsrInv, CallInv, TrimElsewhere
  PROVE  CallInv'
<1>1. PICK b \in DOMAIN req \ {mem}, s \in Sizes \cup {0} : mem_trim(b, s)
  BY DEF TrimElsewhere
<1> DEFINE z == AlignedSize(s)
<1>2. z \in Nat /\ MIN_SIZE_ALIGNED <= z /\ s \in Nat /\ s <= z
  BY AlignedSizeIsNat, AlignedSizeIsEnough DEF NoWrap
<1>3. /\ b \in UsedIn(heap) \ {mem} /\ b \in Blocks(heap) /\ heap.used[b]
      /\ DOMAIN req = UsedIn(heap) /\ UsedIn(heap) \subseteq Blocks(heap)
      /\ heap' = IF z < DataSize(heap, b) THEN TrimBlock(heap, b, z) ELSE heap
      /\ req' = IF z <= DataSize(heap, b) THEN [req EXCEPT ![b] = s] ELSE req
  BY <1>1 DEF IsrInv, UsedIsHeld, UsedIn, mem_trim
<1>4. FailsOnlyWhenFull'
  BY <1>1 DEF FailsOnlyWhenFull, mem_trim, NoCall, Returned
<1>5. HeapOK(heap) \/ Lags(heap, mem)
  BY DEF IsrInv
<1>6. DataSize(heap, b) \in Int
  BY <1>3, <1>5, Offsets DEF HeapOK, Lags, DataSize
<1> HIDE DEF z
<1>7. CASE z < DataSize(heap, b)
  <2>1. heap' = TrimBlock(heap, b, z) /\ req' = [req EXCEPT ![b] = s]
    BY <1>2, <1>3, <1>6, <1>7
  <2>a. b \in UsedIn(heap) \ {mem} /\ b \in Blocks(heap) /\ heap.used[b]
    BY <1>3
  <2> DEFINE k == TrimBlock(heap, b, z)
  <2>2. /\ Shape(heap') /\ DataSize(heap', b) >= z /\ UsedIn(heap') = UsedIn(heap)
        /\ \A x \in UsedIn(heap) \ {b} : DataSize(heap', x) = DataSize(heap, x)
    <3>1. CASE HeapOK(heap)
      <4>1. /\ HeapOK(k) /\ DataSize(k, b) >= z /\ UsedIn(k) = UsedIn(heap)
            /\ \A x \in UsedIn(heap) \ {b} : DataSize(k, x) = DataSize(heap, x)
        BY <1>2, <1>7, <2>a, <3>1, TrimBlockOK
      <4> HIDE DEF k
      <4> QED  BY <2>1, <4>1 DEF HeapOK, k
    <3>2. CASE Lags(heap, mem)
      <4>1. /\ Lags(k, mem) /\ DataSize(k, b) >= z /\ UsedIn(k) = UsedIn(heap)
            /\ \A x \in UsedIn(heap) \ {b} : DataSize(k, x) = DataSize(heap, x)
        BY <1>2, <1>7, <2>a, <3>2, TrimLagging
      <4> HIDE DEF k
      <4> QED  BY <2>1, <4>1 DEF Lags, k
    <3> QED  BY <1>5, <3>1, <3>2
  <2>3. b \in Blocks(heap') /\ DataSize(heap', b) \in Int
    BY <1>3, <2>2, Offsets DEF UsedIn, DataSize
  <2>4. DataSize(heap', b) >= s
    BY <1>2, <2>2, <2>3
  <2>5. \A x \in DOMAIN req \ {b} : DataSize(heap', x) >= req'[x]
    BY <1>3, <2>1, <2>2 DEF CallInv, EnoughRoom
  <2>6. req'[b] = s /\ DOMAIN req' = DOMAIN req
    BY <1>3, <2>1
  <2> QED  BY <1>4, <2>4, <2>5, <2>6 DEF CallInv, EnoughRoom
<1>8. CASE z = DataSize(heap, b)
  <2>1. heap' = heap /\ req' = [req EXCEPT ![b] = s]
    BY <1>2, <1>3, <1>6, <1>8
  <2> QED  BY <1>2, <1>4, <1>8, <2>1 DEF CallInv, EnoughRoom
<1>9. CASE z > DataSize(heap, b)
  <2>1. heap' = heap /\ req' = req
    BY <1>2, <1>3, <1>6, <1>9
  <2> QED  BY <1>4, <2>1 DEF CallInv, EnoughRoom
<1> QED  BY <1>2, <1>6, <1>7, <1>8, <1>9

\* The calls are served in every window.
LEMMA OpenCallsServed ==
  ASSUME NoWrap
  PROVE  IsrSpec => []CallInv
<1>1. IsrInit => CallInv
  BY DEF IsrInit, Init, CallInv, EnoughRoom, FailsOnlyWhenFull, NoCall, Returned
<1>2. IsrInv /\ CallInv /\ [IsrNext]_allvars => CallInv'
  <2> SUFFICES ASSUME IsrInv, CallInv, [IsrNext]_allvars PROVE CallInv'
    OBVIOUS
  <2>1. ASSUME NEW w \in Requests, MallocBegins(w) PROVE CallInv'
    <3>1. pc = "idle" /\ HeapOK(heap)
      BY <2>1 DEF MallocBegins, IsrInv
    <3>2. heap.lfree \in Blocks(heap) \cup {ram_end}
      BY <3>1 DEF HeapOK, Shape
    <3>3. \A c \in Candidates(heap, SizeOf(w)) : heap.lfree <= c
      BY <3>1, Offsets DEF HeapOK, Candidates
    <3>4. CASE ScanAt(heap.lfree, w)
      BY <3>1, <3>2, <3>3, <3>4, ScanServes
    <3>5. CASE /\ w % Modulus = 0 \/ SizeOf(w) > MEM_SIZE_ALIGNED
               /\ ret' = Returned("malloc", w, NULL) /\ UNCHANGED <<heap, req>>
      BY <3>1, <3>5, FailServes
    <3> QED  BY <2>1, <3>4, <3>5 DEF MallocBegins
  <2>2. CASE Allocate
    <3>1. PICK w \in Requests : MallocBegins(w)
      BY <2>2 DEF Allocate, Requests
    <3> QED  BY <2>1, <3>1
  <2>3. CASE Allocator
    BY <2>3, LookServes, AdjustServes DEF Allocator
  <2>4. CASE Disturb
    BY <2>4, FreeElsewhereServes, TrimElsewhereServes DEF Disturb
  <2>5. CASE UNCHANGED allvars
    BY <2>5, SameServes DEF allvars, vars
  <2> QED  BY <2>2, <2>3, <2>4, <2>5 DEF IsrNext
<1> QED  BY <1>1, <1>2, IsrInvariance, PTL DEF IsrSpec

\* Every caller keeps the room it asked for while mem_malloc is interrupted, as
\* long as no request comes within MEM_ALIGNMENT of the largest mem_size_t.
THEOREM OpenCallersHaveRoom ==
  ASSUME NoWrap
  PROVE  IsrSpec => []EnoughRoom
BY OpenCallsServed, PTL DEF CallInv

\* The interrupted mem_malloc gives up only if no free block is large enough at
\* that moment, blocks freed behind its back included.
THEOREM OpenMallocFindsRoom ==
  ASSUME NoWrap
  PROVE  IsrSpec => []FailsOnlyWhenFull
BY OpenCallsServed, PTL DEF CallInv
=============================================================================
