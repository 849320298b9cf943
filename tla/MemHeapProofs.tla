--------------------------- MODULE MemHeapProofs ---------------------------
(***************************************************************************)
(* The heap of core/mem.c is always in order, for every size, alignment    *)
(* and header.  A heap record is in order (HeapOK) when the headers tile   *)
(* it, no two free blocks are adjacent and lfree is the lowest free block; *)
(* each helper of MemHeap, inserting a header, absorbing the next block,   *)
(* freeing, trimming and taking one, is shown to keep what HeapOK needs,   *)
(* and the actions follow from them.                                       *)
(***************************************************************************)
EXTENDS MemHeap, WellFoundedInduction, TLAPS

USE AlignmentPositive, HeaderPositive, HeapHoldsABlock, ModulusPositive

\* The shape of a heap record.
Fields == {"next", "prev", "used", "lfree"}
IsRecord(h) == h = [f \in Fields |-> h[f]]
Shape(h) ==
  /\ IsRecord(h)
  /\ DOMAIN h = {"next", "prev", "used", "lfree"}
  /\ Blocks(h) \subseteq 0..ram_end - 1
  /\ h.next \in [Blocks(h) -> Blocks(h) \cup {ram_end}]
  /\ h.prev \in [Blocks(h) -> Blocks(h)]
  /\ h.used \in [Blocks(h) -> BOOLEAN]
  /\ h.lfree \in Blocks(h) \cup {ram_end}

\* Offsets are numbers.
LEMMA Offsets ==
  ASSUME NEW h, Shape(h)
  PROVE  /\ ram_end \in Nat
         /\ \A x \in Blocks(h) : /\ x \in Nat /\ x < ram_end
                                 /\ h.next[x] \in Nat /\ h.next[x] <= ram_end
                                 /\ h.prev[x] \in Nat /\ h.prev[x] < ram_end
         /\ h.lfree \in Nat
BY DEF Shape, ram_end

\* Inserting a header inside a block (the splits of mem_malloc and mem_trim):
\* the heap stays tiled.
LEMMA InsertShape ==
  ASSUME NEW h, Shape(h), TiledHeap(h), NEW b \in Blocks(h), NEW p \in Int,
         b + SIZEOF_STRUCT_MEM + MIN_SIZE_ALIGNED <= p,
         p + SIZEOF_STRUCT_MEM + MIN_SIZE_ALIGNED <= h.next[b]
  PROVE  /\ Shape(Insert(h, b, p)) /\ TiledHeap(Insert(h, b, p))
         /\ Blocks(Insert(h, b, p)) = Blocks(h) \cup {p}
         /\ p \notin Blocks(h)
         /\ Insert(h, b, p).lfree = h.lfree
         /\ Insert(h, b, p).next[p] = h.next[b] /\ Insert(h, b, p).next[b] = p
         /\ ~Insert(h, b, p).used[p]
         /\ \A x \in Blocks(h) : Insert(h, b, p).used[x] = h.used[x]
         /\ \A x \in Blocks(h) \ {b} : Insert(h, b, p).next[x] = h.next[x]
<1> DEFINE g == Insert(h, b, p)
           B == Blocks(h) \cup {p}
           N == [x \in B |-> IF x = p THEN h.next[b] ELSE IF x = b THEN p ELSE h.next[x]]
           P == [x \in B |-> IF x = p THEN b ELSE IF x = h.next[b] THEN p ELSE h.prev[x]]
           U == [x \in B |-> IF x = p THEN FALSE ELSE h.used[x]]
<1>1. g.next = N /\ g.prev = P /\ g.used = U /\ g.lfree = h.lfree /\ DOMAIN g = {"next", "prev", "used", "lfree"}
  BY DEF Insert, Shape
<1>r. IsRecord(g)
  BY DEF Insert, Shape, IsRecord, Fields
<1>2. b \in 0..ram_end - 1 /\ h.next[b] \in 0..ram_end /\ b < p /\ p < h.next[b] /\ p \in 1..ram_end - 1
  BY DEF Shape, ram_end
<1>3. \A x \in Blocks(h) : x <= b \/ h.next[b] <= x
  BY <1>2 DEF TiledHeap, Shape
<1>4. p \notin Blocks(h)
  BY <1>2, <1>3
<1>5. Blocks(g) = B
  BY <1>1 DEF Blocks
<1> HIDE DEF g
<1>6. Shape(g)
  <2>1. N \in [B -> B \cup {ram_end}]
    BY <1>2 DEF Shape
  <2>2. P \in [B -> B]
    BY <1>2 DEF Shape
  <2>3. U \in [B -> BOOLEAN]
    BY DEF Shape
  <2>4. B \subseteq 0..ram_end - 1 /\ h.lfree \in B \cup {ram_end}
    BY <1>2 DEF Shape
  <2> QED  BY <1>1, <1>r, <1>5, <2>1, <2>2, <2>3, <2>4 DEF Shape
<1>7. TiledHeap(g)
  <2>1. 0 \in Blocks(g) /\ g.prev[0] = 0
    BY <1>1, <1>2, <1>4, <1>5 DEF TiledHeap
  <2>2. \A x \in Blocks(g) : x + SIZEOF_STRUCT_MEM + MIN_SIZE_ALIGNED <= g.next[x]
    BY <1>1, <1>2, <1>5 DEF TiledHeap
  <2>3. \A x, c \in Blocks(g) : x < c => g.next[x] <= c
    <3> SUFFICES ASSUME NEW x \in Blocks(g), NEW c \in Blocks(g), x < c PROVE g.next[x] <= c
      OBVIOUS
    <3>1. CASE x = p
      BY <3>1, <1>1, <1>2, <1>3, <1>5 DEF Shape
    <3>2. CASE x = b
      BY <3>2, <1>1, <1>2, <1>3, <1>4, <1>5 DEF Shape
    <3>3. CASE x # p /\ x # b /\ c # p
      BY <3>3, <1>1, <1>5 DEF TiledHeap
    <3>4. CASE x # p /\ x # b /\ c = p
      <4>1. x \in Blocks(h) /\ x < b /\ h.next[x] <= b
        BY <3>4, <1>2, <1>3, <1>5 DEF TiledHeap, Shape
      <4>2. g.next[x] = h.next[x] /\ h.next[x] \in Int
        BY <4>1, <3>4, <1>1, Offsets
      <4> QED  BY <4>1, <4>2, <3>4, <1>2
    <3> QED  BY <3>1, <3>2, <3>3, <3>4
  <2>4. \A c \in Blocks(g) \ {0} : g.prev[c] < c /\ g.next[g.prev[c]] = c
    <3> SUFFICES ASSUME NEW c \in Blocks(g) \ {0} PROVE g.prev[c] < c /\ g.next[g.prev[c]] = c
      OBVIOUS
    <3>1. CASE c = p
      BY <3>1, <1>1, <1>2, <1>4, <1>5
    <3>2. CASE c = h.next[b]
      BY <3>2, <1>1, <1>2, <1>4, <1>5
    <3>3. CASE c # p /\ c # h.next[b]
      <4>1. c \in Blocks(h) \ {0} /\ h.prev[c] \in Blocks(h) /\ h.prev[c] < c /\ h.next[h.prev[c]] = c
        BY <3>3, <1>5 DEF TiledHeap, Shape
      <4>2. h.prev[c] # b /\ h.prev[c] # p
        BY <4>1, <3>3, <1>4
      <4> QED  BY <4>1, <4>2, <3>3, <1>1, <1>5
    <3> QED  BY <3>1, <3>2, <3>3
  <2> QED  BY <2>1, <2>2, <2>3, <2>4 DEF TiledHeap
<1>8. /\ g.next[p] = h.next[b] /\ g.next[b] = p /\ ~g.used[p]
      /\ \A x \in Blocks(h) : g.used[x] = h.used[x]
      /\ \A x \in Blocks(h) \ {b} : g.next[x] = h.next[x]
  BY <1>1, <1>2, <1>4
<1> QED  BY <1>1, <1>4, <1>5, <1>6, <1>7, <1>8 DEF g

\* Giving a block the memory of the next one (plug_holes): the heap stays tiled.
LEMMA AbsorbShape ==
  ASSUME NEW h, Shape(h), TiledHeap(h), NEW b \in Blocks(h), h.next[b] # ram_end
  PROVE  LET g == Absorb(h, b)
             n == h.next[b]
         IN /\ Shape(g) /\ TiledHeap(g)
            /\ n \in Blocks(h) /\ b < n
            /\ Blocks(g) = Blocks(h) \ {n}
            /\ g.next[b] = h.next[n]
            /\ \A x \in Blocks(g) : g.used[x] = h.used[x]
            /\ \A x \in Blocks(g) \ {b} : g.next[x] = h.next[x] /\ h.next[x] # n
            /\ g.lfree = IF h.lfree = n THEN b ELSE h.lfree
<1> DEFINE n == h.next[b]
           g == Absorb(h, b)
           B == Blocks(h) \ {n}
           N == [x \in B |-> IF x = b THEN h.next[n] ELSE h.next[x]]
           P == [x \in B |-> IF x = h.next[n] THEN b ELSE h.prev[x]]
           U == [x \in B |-> h.used[x]]
<1>1. /\ g.next = N /\ g.prev = P /\ g.used = U
      /\ g.lfree = IF h.lfree = n THEN b ELSE h.lfree
      /\ DOMAIN g = {"next", "prev", "used", "lfree"}
  BY DEF Absorb, Shape
<1>2. n \in Blocks(h) /\ b < n /\ n < h.next[n] /\ b \in B
  BY Offsets DEF Shape, TiledHeap
<1>3. Blocks(g) = B
  BY <1>1 DEF Blocks
<1>4. \A x \in Blocks(h) : h.next[x] = n => x = b
  <2> SUFFICES ASSUME NEW x \in Blocks(h), h.next[x] = n, x # b PROVE FALSE
    OBVIOUS
  <2>1. CASE x < b
    BY <2>1, <1>2, Offsets DEF TiledHeap
  <2>2. CASE b < x
    <3>1. n <= x /\ x < h.next[x]
      BY <2>2, Offsets DEF TiledHeap
    <3> QED  BY <3>1, Offsets, <1>2
  <2> QED  BY <2>1, <2>2, Offsets
<1>r. IsRecord(g)
  BY DEF Absorb, Shape, IsRecord, Fields
<1> HIDE DEF g
<1>5. Shape(g)
  <2>1. N \in [B -> B \cup {ram_end}]
    BY <1>2, <1>4, Offsets DEF Shape
  <2>2. P \in [B -> B]
    <3> SUFFICES ASSUME NEW x \in B, x # h.next[n] PROVE h.prev[x] \in B
      BY <1>2
    <3>1. h.prev[x] # n
      <4>1. CASE x = 0
        BY <4>1, <1>2, Offsets DEF TiledHeap
      <4>2. CASE x # 0
        BY <4>2 DEF TiledHeap
      <4> QED  BY <4>1, <4>2
    <3> QED  BY <3>1 DEF Shape
  <2>3. U \in [B -> BOOLEAN]
    BY DEF Shape
  <2>4. B \subseteq 0..ram_end - 1 /\ g.lfree \in B \cup {ram_end}
    BY <1>1, <1>2 DEF Shape
  <2> QED  BY <1>1, <1>r, <1>3, <2>1, <2>2, <2>3, <2>4 DEF Shape
<1>6. TiledHeap(g)
  <2>1. 0 \in Blocks(g) /\ g.prev[0] = 0
    BY <1>1, <1>2, <1>3, Offsets DEF TiledHeap
  <2>2. \A x \in Blocks(g) : x + SIZEOF_STRUCT_MEM + MIN_SIZE_ALIGNED <= g.next[x]
    <3> SUFFICES ASSUME NEW x \in Blocks(g) PROVE x + SIZEOF_STRUCT_MEM + MIN_SIZE_ALIGNED <= g.next[x]
      OBVIOUS
    <3>1. x \in Blocks(h) /\ x + SIZEOF_STRUCT_MEM + MIN_SIZE_ALIGNED <= h.next[x]
      BY <1>3 DEF TiledHeap
    <3>2. g.next[x] = IF x = b THEN h.next[n] ELSE h.next[x]
      BY <1>1, <1>3
    <3> QED  BY <3>1, <3>2, <1>2, Offsets
  <2>3. \A x, c \in Blocks(g) : x < c => g.next[x] <= c
    <3> SUFFICES ASSUME NEW x \in Blocks(g), NEW c \in Blocks(g), x < c PROVE g.next[x] <= c
      OBVIOUS
    <3>1. g.next[x] = IF x = b THEN h.next[n] ELSE h.next[x]
      BY <1>1, <1>3
    <3>2. h.next[x] <= c /\ c # n /\ x \in Blocks(h) /\ c \in Blocks(h)
      BY <1>3 DEF TiledHeap
    <3>3. CASE x = b
      <4>1. n < c
        BY <3>2, <3>3, <1>2, Offsets
      <4> QED  BY <4>1, <3>1, <3>2, <3>3, <1>2 DEF TiledHeap
    <3> QED  BY <3>1, <3>2, <3>3
  <2>4. \A c \in Blocks(g) \ {0} : g.prev[c] < c /\ g.next[g.prev[c]] = c
    <3> SUFFICES ASSUME NEW c \in Blocks(g) \ {0} PROVE g.prev[c] < c /\ g.next[g.prev[c]] = c
      OBVIOUS
    <3>1. c \in Blocks(h) \ {0} /\ c # n /\ h.prev[c] < c /\ h.next[h.prev[c]] = c
      BY <1>3 DEF TiledHeap
    <3>2. CASE c = h.next[n]
      <4>1. g.prev[c] = b /\ g.next[b] = h.next[n]
        BY <3>2, <1>1, <1>2, <1>3
      <4> QED  BY <4>1, <3>2, <1>2, Offsets
    <3>3. CASE c # h.next[n]
      <4>1. h.prev[c] # n /\ h.prev[c] # b /\ h.prev[c] \in B
        BY <3>1, <3>3 DEF Shape
      <4>2. c \in B /\ g.prev[c] = h.prev[c]
        BY <3>3, <1>1, <1>3
      <4>3. g.next[h.prev[c]] = h.next[h.prev[c]]
        BY <4>1, <1>1
      <4> QED  BY <3>1, <4>2, <4>3
    <3> QED  BY <3>2, <3>3
  <2> QED  BY <2>1, <2>2, <2>3, <2>4 DEF TiledHeap
<1> QED  BY <1>1, <1>2, <1>3, <1>4, <1>5, <1>6 DEF g

-----------------------------------------------------------------------------
(* The heap as a whole *)

HeapOK(h) == Shape(h) /\ TiledHeap(h) /\ NoAdjacentFreeIn(h) /\ LfreeLowestIn(h)

\* prev is the inverse of next.
LEMMA PrevOfNext ==
  ASSUME NEW h, Shape(h), TiledHeap(h), NEW x \in Blocks(h), h.next[x] # ram_end
  PROVE  h.next[x] \in Blocks(h) /\ h.next[x] # 0 /\ h.prev[h.next[x]] = x
<1> DEFINE c == h.next[x]
           p == h.prev[c]
<1>1. c \in Blocks(h) /\ c # 0 /\ x < c
  BY Offsets DEF Shape, TiledHeap
<1>2. p \in Blocks(h) /\ p < c /\ h.next[p] = c
  BY <1>1 DEF Shape, TiledHeap
<1>3. ~(x < p) /\ ~(p < x)
  BY <1>1, <1>2, Offsets DEF TiledHeap
<1> QED  BY <1>1, <1>2, <1>3, Offsets

\* The used blocks of h.
UsedIn(h) == {b \in Blocks(h) : h.used[b]}

\* Two free blocks in a row, of which x is the first.
Loose(h, x) == ~h.used[x] /\ h.next[x] # ram_end /\ ~h.used[h.next[x]]

\* Combining two free blocks removes one loose pair and makes no other.
LEMMA AbsorbFree ==
  ASSUME NEW h, Shape(h), TiledHeap(h), LfreeLowestIn(h), NEW b \in Blocks(h), Loose(h, b)
  PROVE  LET g == Absorb(h, b)
             n == h.next[b]
         IN /\ Shape(g) /\ TiledHeap(g) /\ LfreeLowestIn(g)
            /\ UsedIn(g) = UsedIn(h)
            /\ Blocks(g) = Blocks(h) \ {n}
            /\ Loose(g, b) <=> Loose(h, n)
            /\ \A x \in Blocks(g) \ {b} : Loose(g, x) <=> Loose(h, x)
            /\ ~g.used[b]
            /\ \A x \in Blocks(g) \ {b} : g.next[x] = h.next[x]
<1> DEFINE n == h.next[b]
           g == Absorb(h, b)
<1>0. h.next[b] # ram_end /\ ~h.used[n] /\ ~h.used[b]
  BY DEF Loose
<1>1. /\ Shape(g) /\ TiledHeap(g)
      /\ n \in Blocks(h) /\ b < n
      /\ Blocks(g) = Blocks(h) \ {n}
      /\ g.next[b] = h.next[n]
      /\ \A x \in Blocks(g) : g.used[x] = h.used[x]
      /\ \A x \in Blocks(g) \ {b} : g.next[x] = h.next[x] /\ h.next[x] # n
      /\ g.lfree = IF h.lfree = n THEN b ELSE h.lfree
  BY <1>0, AbsorbShape
<1> HIDE DEF g
<1>2. h.lfree <= b /\ g.lfree = h.lfree /\ b \in Blocks(g)
  BY <1>0, <1>1, Offsets DEF LfreeLowestIn
<1>3. LfreeLowestIn(g)
  BY <1>1, <1>2 DEF LfreeLowestIn, Shape
<1>4. UsedIn(g) = UsedIn(h)
  BY <1>0, <1>1 DEF UsedIn
<1>5. g.next[b] # ram_end => g.next[b] \in Blocks(g)
  BY <1>1, <1>2 DEF Shape
<1>6. Loose(g, b) <=> Loose(h, n)
  BY <1>0, <1>1, <1>2, <1>5 DEF Loose
<1>7. \A x \in Blocks(g) \ {b} : Loose(g, x) <=> Loose(h, x)
  BY <1>1 DEF Loose, Shape
<1>8. ~g.used[b]
  BY <1>0, <1>1, <1>2
<1> QED  BY <1>1, <1>3, <1>4, <1>6, <1>7, <1>8 DEF g

\* mem_free of a used block: the heap stays in order and only b becomes free.
LEMMA FreeBlockOK ==
  ASSUME NEW h, HeapOK(h), NEW b \in Blocks(h), h.used[b]
  PROVE  /\ HeapOK(FreeBlock(h, b)) /\ UsedIn(FreeBlock(h, b)) = UsedIn(h) \ {b}
         /\ \A x \in UsedIn(h) \ {b} : DataSize(FreeBlock(h, b), x) = DataSize(h, x)
<1> DEFINE h1 == [h EXCEPT !.used[b] = FALSE, !.lfree = IF b < h.lfree THEN b ELSE h.lfree]
<1>1. /\ h1.next = h.next /\ h1.prev = h.prev
      /\ h1.used = [h.used EXCEPT ![b] = FALSE]
      /\ h1.lfree = IF b < h.lfree THEN b ELSE h.lfree
      /\ DOMAIN h1 = {"next", "prev", "used", "lfree"}
  BY DEF HeapOK, Shape
<1>r. IsRecord(h1)
  BY DEF HeapOK, Shape, IsRecord, Fields
<1>d. FreeBlock(h, b) = plug_holes(h1, b)
  BY DEF FreeBlock
<1> HIDE DEF h1
<1>2. Blocks(h1) = Blocks(h)
  BY <1>1 DEF Blocks
<1>3. Shape(h1)
  BY <1>1, <1>r, <1>2 DEF HeapOK, Shape
<1>4. TiledHeap(h1)
  BY <1>1, <1>2 DEF HeapOK, TiledHeap
<1>5. LfreeLowestIn(h1)
  BY <1>1, <1>2, Offsets DEF HeapOK, LfreeLowestIn, Shape
<1>6. UsedIn(h1) = UsedIn(h) \ {b} /\ ~h1.used[b]
  BY <1>1, <1>2 DEF UsedIn, HeapOK, Shape
<1>7. \A x \in Blocks(h) : Loose(h1, x) => x = b \/ h1.next[x] = b
  BY <1>1, <1>2 DEF Loose, HeapOK, NoAdjacentFreeIn, Shape
<1> DEFINE f == IF Loose(h1, b) THEN Absorb(h1, b) ELSE h1
<1>8. /\ Shape(f) /\ TiledHeap(f) /\ LfreeLowestIn(f)
      /\ UsedIn(f) = UsedIn(h1) /\ b \in Blocks(f) /\ ~f.used[b]
      /\ Blocks(f) \subseteq Blocks(h1)
      /\ \A x \in Blocks(f) : Loose(f, x) => f.next[x] = b
      /\ \A x \in Blocks(f) \ {b} : f.next[x] = h1.next[x]
  <2>1. CASE ~Loose(h1, b)
    BY <2>1, <1>2, <1>3, <1>4, <1>5, <1>6, <1>7
  <2>2. CASE Loose(h1, b)
    <3> DEFINE n == h1.next[b]
               g == Absorb(h1, b)
    <3>1. /\ Shape(g) /\ TiledHeap(g) /\ LfreeLowestIn(g)
          /\ UsedIn(g) = UsedIn(h1)
          /\ Blocks(g) = Blocks(h1) \ {n}
          /\ Loose(g, b) <=> Loose(h1, n)
          /\ \A x \in Blocks(g) \ {b} : Loose(g, x) <=> Loose(h1, x)
          /\ ~g.used[b]
      BY <2>2, <1>2, <1>3, <1>4, <1>5, AbsorbFree
    <3>2. /\ n \in Blocks(h1) /\ b < n /\ n < h1.next[n]
          /\ \A x \in Blocks(g) \ {b} : g.next[x] = h1.next[x]
      BY <2>2, <1>2, <1>3, <1>4, AbsorbShape, Offsets DEF Loose, TiledHeap
    <3>3. ~Loose(h1, n)
      BY <3>2, <1>2, <1>3, <1>7, Offsets
    <3>4. b \in Blocks(g)
      BY <3>1, <3>2, <1>2, <1>3, Offsets
    <3>5. \A x \in Blocks(g) : Loose(g, x) => g.next[x] = b
      BY <3>1, <3>2, <3>3, <1>2, <1>7
    <3> QED  BY <2>2, <3>1, <3>2, <3>4, <3>5
  <2> QED  BY <2>1, <2>2
<1> HIDE DEF f
<1> DEFINE p == f.prev[b]
           g == IF p # b /\ ~f.used[p] THEN Absorb(f, p) ELSE f
<1>9. FreeBlock(h, b) = g
  BY <1>d, <1>6 DEF plug_holes, f, Loose
<1>10. ~Loose(f, b)
  BY <1>8, Offsets DEF TiledHeap
<1>11. \A x \in Blocks(f) : Loose(f, x) => x = p /\ p # b
  <2> SUFFICES ASSUME NEW x \in Blocks(f), Loose(f, x) PROVE x = p /\ p # b
    OBVIOUS
  <2>1. f.next[x] = b /\ f.next[x] # ram_end
    BY <1>8 DEF Loose
  <2>2. x = p
    BY <2>1, <1>8, PrevOfNext
  <2> QED  BY <2>2, <1>10
<1>12. /\ HeapOK(g) /\ UsedIn(g) = UsedIn(f)
       /\ \A x \in UsedIn(f) : g.next[x] = f.next[x]
  <2>1. CASE p # b /\ ~f.used[p]
    <3>1. b # 0 /\ p \in Blocks(f) /\ f.next[p] = b
      BY <2>1, <1>8 DEF TiledHeap, Shape
    <3>2. Loose(f, p)
      BY <3>1, <2>1, <1>8, Offsets DEF Loose
    <3>3. /\ Shape(g) /\ TiledHeap(g) /\ LfreeLowestIn(g)
          /\ UsedIn(g) = UsedIn(f)
          /\ Blocks(g) = Blocks(f) \ {b}
          /\ Loose(g, p) <=> Loose(f, b)
          /\ \A x \in Blocks(g) \ {p} : Loose(g, x) <=> Loose(f, x)
          /\ \A x \in Blocks(g) \ {p} : g.next[x] = f.next[x]
      BY <2>1, <3>1, <3>2, <1>8, AbsorbFree
    <3>4. \A x \in Blocks(g) : ~Loose(g, x)
      BY <3>3, <1>10, <1>11
    <3>5. \A x \in UsedIn(f) : g.next[x] = f.next[x]
      BY <3>3, <2>1 DEF UsedIn
    <3> QED  BY <3>3, <3>4, <3>5 DEF HeapOK, NoAdjacentFreeIn, Loose
  <2>2. CASE ~(p # b /\ ~f.used[p])
    <3>1. \A x \in Blocks(f) : ~Loose(f, x)
      BY <2>2, <1>11 DEF Loose
    <3> QED  BY <2>2, <3>1, <1>8 DEF HeapOK, NoAdjacentFreeIn, Loose
  <2> QED  BY <2>1, <2>2
<1>13. \A x \in UsedIn(h) \ {b} : g.next[x] = h.next[x]
  BY <1>1, <1>6, <1>8, <1>12 DEF UsedIn
<1> QED  BY <1>6, <1>8, <1>9, <1>12, <1>13 DEF DataSize

\* Moving lfree leaves the blocks alone.
LEMMA SetLfree ==
  ASSUME NEW h, Shape(h), TiledHeap(h), NEW l \in Blocks(h) \cup {ram_end}
  PROVE  LET k == [h EXCEPT !.lfree = l]
         IN /\ Shape(k) /\ TiledHeap(k)
            /\ Blocks(k) = Blocks(h) /\ k.next = h.next /\ k.used = h.used /\ k.lfree = l
<1> DEFINE k == [h EXCEPT !.lfree = l]
<1>1. /\ k.next = h.next /\ k.prev = h.prev /\ k.used = h.used /\ k.lfree = l
      /\ DOMAIN k = {"next", "prev", "used", "lfree"}
  BY DEF Shape
<1>r. IsRecord(k)
  BY DEF Shape, IsRecord, Fields
<1> HIDE DEF k
<1>2. Blocks(k) = Blocks(h)
  BY <1>1 DEF Blocks
<1>3. Shape(k) /\ TiledHeap(k)
  BY <1>1, <1>r, <1>2 DEF Shape, TiledHeap
<1> QED  BY <1>1, <1>2, <1>3 DEF k

\* mem_trim of a used block to fewer bytes than it has.
LEMMA TrimBlockOK ==
  ASSUME NEW h, HeapOK(h), NEW b \in Blocks(h), h.used[b],
         NEW size \in Nat, MIN_SIZE_ALIGNED <= size, size < DataSize(h, b)
  PROVE  LET k == TrimBlock(h, b, size)
         IN /\ HeapOK(k) /\ UsedIn(k) = UsedIn(h)
            /\ DataSize(k, b) >= size
            /\ \A x \in UsedIn(h) \ {b} : DataSize(k, x) = DataSize(h, x)
<1> DEFINE p == b + SIZEOF_STRUCT_MEM + size
           n == h.next[b]
           k == TrimBlock(h, b, size)
<1>0. /\ b \in Nat /\ n \in Nat /\ p \in Nat /\ n <= ram_end /\ ram_end \in Nat
      /\ b + SIZEOF_STRUCT_MEM + MIN_SIZE_ALIGNED <= p /\ p < n
      /\ h.lfree \in Nat
  BY Offsets DEF HeapOK, DataSize
<1>1. CASE n # ram_end /\ ~h.used[n]
  <2> DEFINE g == Absorb(h, b)
             i == Insert(g, b, p)
             l == IF h.lfree = n THEN p ELSE h.lfree
  <2>1. /\ Shape(g) /\ TiledHeap(g)
        /\ n \in Blocks(h) /\ b < n
        /\ Blocks(g) = Blocks(h) \ {n}
        /\ g.next[b] = h.next[n]
        /\ \A x \in Blocks(g) : g.used[x] = h.used[x]
        /\ \A x \in Blocks(g) \ {b} : g.next[x] = h.next[x] /\ h.next[x] # n
        /\ g.lfree = IF h.lfree = n THEN b ELSE h.lfree
    BY <1>1, AbsorbShape DEF HeapOK
  <2>2. b \in Blocks(g) /\ p + SIZEOF_STRUCT_MEM + MIN_SIZE_ALIGNED <= g.next[b]
    BY <2>1, <1>0, Offsets DEF HeapOK, TiledHeap
  <2> HIDE DEF g
  <2>3. /\ Shape(i) /\ TiledHeap(i)
        /\ Blocks(i) = Blocks(g) \cup {p} /\ p \notin Blocks(g)
        /\ i.lfree = g.lfree
    BY <2>1, <2>2, <1>0, InsertShape
  <2>4. /\ i.next[p] = h.next[n] /\ i.next[b] = p /\ ~i.used[p]
        /\ \A x \in Blocks(h) \ {n} : i.used[x] = h.used[x]
        /\ \A x \in Blocks(h) \ {n, b} : i.next[x] = h.next[x] /\ h.next[x] # n
    BY <2>1, <2>2, <1>0, InsertShape
  <2>5. l \in Blocks(i) \cup {ram_end}
    BY <2>1, <2>3 DEF HeapOK, Shape
  <2>6. k = [i EXCEPT !.lfree = l]
    BY <1>1 DEF TrimBlock, g
  <2> HIDE DEF i, l, k
  <2>7. /\ Shape(k) /\ TiledHeap(k)
        /\ Blocks(k) = Blocks(i) /\ k.next = i.next /\ k.used = i.used /\ k.lfree = l
    BY <2>3, <2>5, <2>6, SetLfree
  <2>8. p \notin Blocks(h) /\ Blocks(k) = (Blocks(h) \ {n}) \cup {p} /\ p # b
    BY <2>1, <2>3, <2>7, <1>0
  <2>9. NoAdjacentFreeIn(k)
    <3> SUFFICES ASSUME NEW x \in Blocks(k), ~k.used[x], k.next[x] # ram_end
                 PROVE  k.used[k.next[x]]
      BY DEF NoAdjacentFreeIn
    <3>1. CASE x = p
      <4>1. h.next[n] \in Blocks(h) \ {n} /\ h.used[h.next[n]]
        BY <3>1, <2>1, <2>4, <2>7, <1>1, Offsets DEF HeapOK, NoAdjacentFreeIn, Shape, TiledHeap
      <4> QED  BY <4>1, <3>1, <2>4, <2>7
    <3>2. CASE x # p
      <4>1. x \in Blocks(h) \ {n} /\ ~h.used[x] /\ x # b
        BY <3>2, <2>4, <2>7, <2>8
      <4>2. k.next[x] = h.next[x] /\ h.next[x] \in Blocks(h) \ {n} /\ h.used[h.next[x]]
        BY <4>1, <2>4, <2>7 DEF HeapOK, NoAdjacentFreeIn, Shape
      <4> QED  BY <4>2, <2>4, <2>7
    <3> QED  BY <3>1, <3>2
  <2>10. LfreeLowestIn(k)
    <3>1. n < h.next[n] /\ \A x \in Blocks(h) : n < x => h.next[n] <= x
      BY <2>1, Offsets DEF HeapOK, TiledHeap
    <3>2. h.lfree <= n /\ (h.lfree # n => h.lfree \in Blocks(h) \ {n} /\ ~h.used[h.lfree] /\ h.lfree < n)
      BY <2>1, <1>0, <1>1 DEF HeapOK, LfreeLowestIn, Shape
    <3>3. CASE h.lfree = n
      <4>1. k.lfree = p /\ ~k.used[p]
        BY <3>3, <2>4, <2>7 DEF l
      <4>2. ASSUME NEW x \in Blocks(k), ~k.used[x] PROVE p <= x
        <5>1. CASE x = p
          BY <5>1, <1>0
        <5>2. CASE x # p
          <6>1. x \in Blocks(h) \ {n} /\ ~h.used[x]
            BY <4>2, <5>2, <2>4, <2>7, <2>8
          <6>2. n <= x /\ x \in Nat
            BY <6>1, <3>3, Offsets DEF HeapOK, LfreeLowestIn
          <6> QED  BY <6>2, <1>0
        <5> QED  BY <5>1, <5>2
      <4> QED  BY <4>1, <4>2 DEF LfreeLowestIn
    <3>4. CASE h.lfree # n
      <4>1. k.lfree = h.lfree /\ ~k.used[h.lfree]
        BY <3>2, <3>4, <2>4, <2>7 DEF l
      <4>2. h.lfree < b
        <5>1. h.lfree # b
          BY <3>2, <3>4
        <5>2. ~(b < h.lfree)
          BY <3>2, <3>4, <1>0 DEF HeapOK, TiledHeap
        <5> QED  BY <5>1, <5>2, <1>0
      <4>3. ASSUME NEW x \in Blocks(k), ~k.used[x] PROVE h.lfree <= x
        <5>1. CASE x = p
          BY <5>1, <4>2, <1>0
        <5>2. CASE x # p
          <6>1. x \in Blocks(h) \ {n} /\ ~h.used[x]
            BY <4>3, <5>2, <2>4, <2>7, <2>8
          <6> QED  BY <6>1 DEF HeapOK, LfreeLowestIn
        <5> QED  BY <5>1, <5>2
      <4> QED  BY <4>1, <4>3 DEF LfreeLowestIn
    <3> QED  BY <3>3, <3>4
  <2>11. UsedIn(k) = UsedIn(h)
    BY <2>1, <2>4, <2>7, <2>8, <1>1 DEF UsedIn
  <2>12. DataSize(k, b) >= size
    BY <2>4, <2>7, <1>0 DEF DataSize
  <2>13. \A x \in UsedIn(h) \ {b} : DataSize(k, x) = DataSize(h, x)
    BY <2>4, <2>7, <1>1 DEF DataSize, UsedIn
  <2> QED  BY <2>7, <2>9, <2>10, <2>11, <2>12, <2>13 DEF HeapOK, k
<1>2. CASE ~(n # ram_end /\ ~h.used[n]) /\ size + SIZEOF_STRUCT_MEM + MIN_SIZE_ALIGNED <= DataSize(h, b)
  <2> DEFINE i == Insert(h, b, p)
             l == IF p < h.lfree THEN p ELSE h.lfree
  <2>1. p + SIZEOF_STRUCT_MEM + MIN_SIZE_ALIGNED <= n
    BY <1>0, <1>2 DEF DataSize
  <2>2. /\ Shape(i) /\ TiledHeap(i)
        /\ Blocks(i) = Blocks(h) \cup {p} /\ p \notin Blocks(h)
        /\ i.lfree = h.lfree
        /\ i.next[p] = n /\ i.next[b] = p /\ ~i.used[p]
        /\ \A x \in Blocks(h) : i.used[x] = h.used[x]
        /\ \A x \in Blocks(h) \ {b} : i.next[x] = h.next[x]
    BY <2>1, <1>0, InsertShape DEF HeapOK
  <2>3. l \in Blocks(i) \cup {ram_end}
    BY <2>2 DEF HeapOK, Shape
  <2>4. k = [i EXCEPT !.lfree = l]
    BY <1>2 DEF TrimBlock
  <2> HIDE DEF i, l, k
  <2>5. /\ Shape(k) /\ TiledHeap(k)
        /\ Blocks(k) = Blocks(i) /\ k.next = i.next /\ k.used = i.used /\ k.lfree = l
    BY <2>2, <2>3, <2>4, SetLfree
  <2>6. NoAdjacentFreeIn(k)
    <3> SUFFICES ASSUME NEW x \in Blocks(k), ~k.used[x], k.next[x] # ram_end
                 PROVE  k.used[k.next[x]]
      BY DEF NoAdjacentFreeIn
    <3>1. CASE x = p
      BY <3>1, <2>2, <2>5, <1>2 DEF HeapOK, Shape
    <3>2. CASE x # p
      <4>1. x \in Blocks(h) \ {b} /\ ~h.used[x]
        BY <3>2, <2>2, <2>5
      <4>2. k.next[x] = h.next[x] /\ h.next[x] \in Blocks(h) /\ h.used[h.next[x]]
        BY <4>1, <2>2, <2>5 DEF HeapOK, NoAdjacentFreeIn, Shape
      <4> QED  BY <4>2, <2>2, <2>5
    <3> QED  BY <3>1, <3>2
  <2>7. LfreeLowestIn(k)
    <3>1. k.lfree # ram_end => ~k.used[k.lfree]
      BY <2>2, <2>5, <1>0 DEF l, HeapOK, LfreeLowestIn, Shape
    <3>2. ASSUME NEW x \in Blocks(k), ~k.used[x] PROVE k.lfree <= x
      <4>1. x = p \/ (x \in Blocks(h) /\ ~h.used[x])
        BY <3>2, <2>2, <2>5
      <4>2. x = p \/ h.lfree <= x
        BY <4>1 DEF HeapOK, LfreeLowestIn
      <4>3. x \in Nat
        BY <4>1, <1>0, Offsets DEF HeapOK
      <4> QED  BY <4>2, <4>3, <2>5, <1>0 DEF l
    <3> QED  BY <3>1, <3>2 DEF LfreeLowestIn
  <2>8. UsedIn(k) = UsedIn(h)
    BY <2>2, <2>5 DEF UsedIn
  <2>9. DataSize(k, b) >= size
    BY <2>2, <2>5, <1>0 DEF DataSize
  <2>10. \A x \in UsedIn(h) \ {b} : DataSize(k, x) = DataSize(h, x)
    BY <2>2, <2>5 DEF DataSize, UsedIn
  <2> QED  BY <2>5, <2>6, <2>7, <2>8, <2>9, <2>10 DEF HeapOK, k
<1>3. CASE ~(n # ram_end /\ ~h.used[n]) /\ ~(size + SIZEOF_STRUCT_MEM + MIN_SIZE_ALIGNED <= DataSize(h, b))
  <2>1. k = h
    BY <1>3 DEF TrimBlock
  <2> QED  BY <2>1, Offsets DEF DataSize, HeapOK
<1> QED  BY <1>1, <1>2, <1>3

\* Marking a free block as used.
LEMMA SetUsed ==
  ASSUME NEW h, Shape(h), TiledHeap(h), NEW b \in Blocks(h)
  PROVE  LET k == [h EXCEPT !.used[b] = TRUE]
         IN /\ Shape(k) /\ TiledHeap(k)
            /\ Blocks(k) = Blocks(h) /\ k.next = h.next /\ k.lfree = h.lfree
            /\ k.used[b] /\ \A x \in Blocks(h) \ {b} : k.used[x] = h.used[x]
<1> DEFINE k == [h EXCEPT !.used[b] = TRUE]
<1>1. /\ k.next = h.next /\ k.prev = h.prev /\ k.lfree = h.lfree
      /\ k.used = [h.used EXCEPT ![b] = TRUE]
      /\ DOMAIN k = {"next", "prev", "used", "lfree"}
  BY DEF Shape
<1>r. IsRecord(k)
  BY DEF Shape, IsRecord, Fields
<1> HIDE DEF k
<1>2. Blocks(k) = Blocks(h)
  BY <1>1 DEF Blocks
<1>3. k.used \in [Blocks(h) -> BOOLEAN] /\ k.used[b] /\ \A x \in Blocks(h) \ {b} : k.used[x] = h.used[x]
  BY <1>1 DEF Shape
<1>4. Shape(k) /\ TiledHeap(k)
  BY <1>1, <1>r, <1>2, <1>3 DEF Shape, TiledHeap
<1> QED  BY <1>1, <1>2, <1>3, <1>4 DEF k

\* The block that mem_malloc has chosen, split or whole, before lfree moves on.
LEMMA TakeBlockOK ==
  ASSUME NEW h, HeapOK(h), NEW b \in Blocks(h), NEW size \in Nat,
         MIN_SIZE_ALIGNED <= size, Fits(h, b, size)
  PROVE  LET k == TakeBlock(h, b, size)
         IN /\ Shape(k) /\ TiledHeap(k) /\ NoAdjacentFreeIn(k)
            /\ UsedIn(k) = UsedIn(h) \cup {b} /\ b \in Blocks(k)
            /\ k.lfree = h.lfree
            /\ \A x \in Blocks(k) : ~k.used[x] => h.lfree <= x
            /\ h.lfree # b /\ h.lfree # ram_end => ~k.used[h.lfree]
            /\ DataSize(k, b) >= size
            /\ \A x \in UsedIn(h) : DataSize(k, x) = DataSize(h, x)
<1> DEFINE p == b + SIZEOF_STRUCT_MEM + size
           n == h.next[b]
           k == TakeBlock(h, b, size)
<1>0. /\ b \in Nat /\ n \in Nat /\ p \in Nat /\ n <= ram_end /\ ram_end \in Nat
      /\ b + SIZEOF_STRUCT_MEM + MIN_SIZE_ALIGNED <= p /\ p <= n
      /\ h.lfree \in Nat /\ h.lfree <= b /\ ~h.used[b]
  BY Offsets DEF HeapOK, Fits, DataSize, LfreeLowestIn
<1>1. n # ram_end => n \in Blocks(h) /\ h.used[n]
  BY <1>0 DEF HeapOK, NoAdjacentFreeIn, Shape
<1>2. CASE DataSize(h, b) >= size + SIZEOF_STRUCT_MEM + MIN_SIZE_ALIGNED
  <2> DEFINE i == Insert(h, b, p)
  <2>1. p + SIZEOF_STRUCT_MEM + MIN_SIZE_ALIGNED <= n
    BY <1>0, <1>2 DEF DataSize
  <2>2. /\ Shape(i) /\ TiledHeap(i)
        /\ Blocks(i) = Blocks(h) \cup {p} /\ p \notin Blocks(h)
        /\ i.lfree = h.lfree
        /\ i.next[p] = n /\ i.next[b] = p /\ ~i.used[p]
        /\ \A x \in Blocks(h) : i.used[x] = h.used[x]
        /\ \A x \in Blocks(h) \ {b} : i.next[x] = h.next[x]
    BY <2>1, <1>0, InsertShape DEF HeapOK
  <2>3. k = [i EXCEPT !.used[b] = TRUE]
    BY <1>2 DEF TakeBlock
  <2> HIDE DEF i, k
  <2>4. /\ Shape(k) /\ TiledHeap(k)
        /\ Blocks(k) = Blocks(i) /\ k.next = i.next /\ k.lfree = i.lfree
        /\ k.used[b] /\ \A x \in Blocks(i) \ {b} : k.used[x] = i.used[x]
    BY <2>2, <2>3, SetUsed
  <2>5. NoAdjacentFreeIn(k)
    <3> SUFFICES ASSUME NEW x \in Blocks(k), ~k.used[x], k.next[x] # ram_end
                 PROVE  k.used[k.next[x]]
      BY DEF NoAdjacentFreeIn
    <3>1. CASE x = p
      BY <3>1, <2>2, <2>4, <1>0, <1>1
    <3>2. CASE x # p
      <4>1. x \in Blocks(h) \ {b} /\ ~h.used[x]
        BY <3>2, <2>2, <2>4
      <4>2. k.next[x] = h.next[x] /\ h.next[x] \in Blocks(h) /\ h.used[h.next[x]]
        BY <4>1, <2>2, <2>4 DEF HeapOK, NoAdjacentFreeIn, Shape
      <4> QED  BY <4>2, <2>2, <2>4
    <3> QED  BY <3>1, <3>2
  <2>6. \A x \in Blocks(k) : ~k.used[x] => h.lfree <= x
    <3> SUFFICES ASSUME NEW x \in Blocks(k), ~k.used[x] PROVE h.lfree <= x
      OBVIOUS
    <3>1. x = p \/ (x \in Blocks(h) /\ ~h.used[x])
      BY <2>2, <2>4
    <3> QED  BY <3>1, <1>0 DEF HeapOK, LfreeLowestIn
  <2>7. h.lfree # b /\ h.lfree # ram_end => ~k.used[h.lfree]
    BY <2>2, <2>4 DEF HeapOK, LfreeLowestIn, Shape
  <2>8. UsedIn(k) = UsedIn(h) \cup {b}
    BY <2>2, <2>4 DEF UsedIn
  <2>9. DataSize(k, b) >= size
    BY <2>2, <2>4, <1>0 DEF DataSize
  <2>10. \A x \in UsedIn(h) : DataSize(k, x) = DataSize(h, x)
    BY <2>2, <2>4, <1>0 DEF DataSize, UsedIn
  <2> QED  BY <2>2, <2>4, <2>5, <2>6, <2>7, <2>8, <2>9, <2>10 DEF k
<1>3. CASE ~(DataSize(h, b) >= size + SIZEOF_STRUCT_MEM + MIN_SIZE_ALIGNED)
  <2>1. k = [h EXCEPT !.used[b] = TRUE]
    BY <1>3 DEF TakeBlock
  <2> HIDE DEF k
  <2>2. /\ Shape(k) /\ TiledHeap(k)
        /\ Blocks(k) = Blocks(h) /\ k.next = h.next /\ k.lfree = h.lfree
        /\ k.used[b] /\ \A x \in Blocks(h) \ {b} : k.used[x] = h.used[x]
    <3>1. Shape(h) /\ TiledHeap(h)
      BY DEF HeapOK
    <3> QED  BY <2>1, <3>1, SetUsed
  <2>3. NoAdjacentFreeIn(k)
    BY <2>2 DEF HeapOK, NoAdjacentFreeIn, Shape
  <2>4. \A x \in Blocks(k) : ~k.used[x] => h.lfree <= x
    BY <2>2 DEF HeapOK, LfreeLowestIn
  <2>5. h.lfree # b /\ h.lfree # ram_end => ~k.used[h.lfree]
    BY <2>2 DEF HeapOK, LfreeLowestIn, Shape
  <2>6. UsedIn(k) = UsedIn(h) \cup {b}
    BY <2>2 DEF UsedIn
  <2>7. DataSize(k, b) >= size /\ \A x \in UsedIn(h) : DataSize(k, x) = DataSize(h, x)
    BY <2>2 DEF DataSize, Fits
  <2> QED  BY <2>2, <2>3, <2>4, <2>5, <2>6, <2>7 DEF k
<1> QED  BY <1>2, <1>3

\* A set of offsets that is not empty has a least element.
LEMMA LeastOffset ==
  ASSUME NEW S, S \subseteq Nat, S # {}
  PROVE  \E x \in S : \A y \in S : x <= y
<1>1. PICK x \in S : \A y \in S : ~(<<y, x>> \in OpToRel(<, Nat))
  BY WFMin, NatLessThanWellFounded
<1>2. \A y \in S : ~(y < x)
  BY <1>1 DEF OpToRel
<1> QED  BY <1>2

\* LowestFree is the lowest free block, or the end of the heap.
LEMMA LowestFreeOK ==
  ASSUME NEW h, Shape(h)
  PROVE  /\ LowestFree(h) \in Blocks(h) \cup {ram_end}
         /\ LowestFree(h) # ram_end => ~h.used[LowestFree(h)]
         /\ \A b \in Blocks(h) : ~h.used[b] => LowestFree(h) <= b
<1> DEFINE F == {b \in Blocks(h) : ~h.used[b]}
<1>1. \E f \in Blocks(h) \cup {ram_end} : /\ f # ram_end => ~h.used[f]
                                          /\ \A b \in Blocks(h) : ~h.used[b] => f <= b
  <2>1. CASE F = {}
    BY <2>1
  <2>2. CASE F # {}
    <3>1. F \subseteq Nat
      BY Offsets
    <3>2. PICK f \in F : \A b \in F : f <= b
      BY <2>2, <3>1, LeastOffset
    <3> QED  BY <3>2
  <2> QED  BY <2>1, <2>2
<1> QED  BY <1>1 DEF LowestFree

\* mem_malloc leaves the heap in order; only the chosen block becomes used.
LEMMA AllocateOK ==
  ASSUME NEW h, HeapOK(h), NEW b \in Blocks(h), NEW size \in Nat,
         MIN_SIZE_ALIGNED <= size, Fits(h, b, size)
  PROVE  LET k == AdjustLfree(TakeBlock(h, b, size), b)
         IN /\ HeapOK(k) /\ UsedIn(k) = UsedIn(h) \cup {b}
            /\ DataSize(k, b) >= size
            /\ \A x \in UsedIn(h) : DataSize(k, x) = DataSize(h, x)
<1> DEFINE t == TakeBlock(h, b, size)
           k == AdjustLfree(t, b)
<1>1. /\ Shape(t) /\ TiledHeap(t) /\ NoAdjacentFreeIn(t)
      /\ UsedIn(t) = UsedIn(h) \cup {b} /\ b \in Blocks(t)
      /\ t.lfree = h.lfree
      /\ \A x \in Blocks(t) : ~t.used[x] => h.lfree <= x
      /\ h.lfree # b /\ h.lfree # ram_end => ~t.used[h.lfree]
      /\ DataSize(t, b) >= size
      /\ \A x \in UsedIn(h) : DataSize(t, x) = DataSize(h, x)
  BY TakeBlockOK
<1> HIDE DEF t
<1>2. CASE b = t.lfree
  <2>1. k = [t EXCEPT !.lfree = LowestFree(t)]
    BY <1>2 DEF AdjustLfree
  <2>2. /\ LowestFree(t) \in Blocks(t) \cup {ram_end}
        /\ LowestFree(t) # ram_end => ~t.used[LowestFree(t)]
        /\ \A x \in Blocks(t) : ~t.used[x] => LowestFree(t) <= x
    BY <1>1, LowestFreeOK
  <2> HIDE DEF k
  <2>3. /\ Shape(k) /\ TiledHeap(k)
        /\ Blocks(k) = Blocks(t) /\ k.next = t.next /\ k.used = t.used /\ k.lfree = LowestFree(t)
    BY <1>1, <2>1, <2>2, SetLfree
  <2>4. NoAdjacentFreeIn(k) /\ LfreeLowestIn(k) /\ UsedIn(k) = UsedIn(t)
    BY <1>1, <2>2, <2>3 DEF NoAdjacentFreeIn, LfreeLowestIn, UsedIn
  <2>5. \A x : DataSize(k, x) = DataSize(t, x)
    BY <2>3 DEF DataSize
  <2> QED  BY <1>1, <2>3, <2>4, <2>5 DEF HeapOK, k, t
<1>3. CASE b # t.lfree
  <2>1. k = t
    BY <1>3 DEF AdjustLfree
  <2>2. LfreeLowestIn(t)
    BY <1>1, <1>3 DEF LfreeLowestIn
  <2> QED  BY <1>1, <2>1, <2>2 DEF HeapOK, t
<1> QED  BY <1>2, <1>3

-----------------------------------------------------------------------------
(* The specification *)

\* Sizes after alignment.  (size + A - 1) \div A * A is at least size and below
\* size + A.
LEMMA AlignUp ==
  ASSUME NEW s \in Nat, NEW a \in Nat \ {0}
  PROVE  LET u == ((s + a - 1) \div a) * a IN u \in Nat /\ s <= u /\ u <= s + a - 1
OBVIOUS

\* The size mem_malloc and mem_trim work with is a number.
LEMMA AlignedSizeIsNat ==
  ASSUME NEW s \in Nat
  PROVE  AlignedSize(s) \in Nat /\ MIN_SIZE_ALIGNED <= AlignedSize(s)
BY DEF AlignedSize

USE RequestsAreNats, NullIsNoOffset

IndInv == /\ HeapOK(heap)
          /\ UsedIsHeld
          /\ req \in [DOMAIN req -> Nat]
          /\ ret.mem \in Blocks(heap) \cup {NULL}

\* mem_init makes one free block of the whole heap.
LEMMA InitHolds == Init => IndInv
<1> SUFFICES ASSUME Init PROVE IndInv
  OBVIOUS
<1>1. /\ heap.next = [x \in {0} |-> ram_end] /\ heap.prev = [x \in {0} |-> 0]
      /\ heap.used = [x \in {0} |-> FALSE] /\ heap.lfree = 0
      /\ DOMAIN heap = {"next", "prev", "used", "lfree"}
  BY DEF Init, mem_init
<1>2. Blocks(heap) = {0} /\ 0 < ram_end /\ ram_end \in Nat
  BY <1>1 DEF Blocks, ram_end
<1>r. IsRecord(heap)
  BY DEF Init, mem_init, IsRecord, Fields
<1>3. Shape(heap)
  BY <1>1, <1>r, <1>2 DEF Shape
<1>4. TiledHeap(heap) /\ NoAdjacentFreeIn(heap) /\ LfreeLowestIn(heap)
  BY <1>1, <1>2 DEF TiledHeap, NoAdjacentFreeIn, LfreeLowestIn, ram_end
<1>5. UsedIsHeld /\ req \in [DOMAIN req -> Nat] /\ ret.mem = NULL
  BY <1>1, <1>2 DEF Init, UsedIsHeld, NoCall, Returned
<1> QED  BY <1>3, <1>4, <1>5 DEF IndInv, HeapOK

\* The size mem_malloc works with.
LEMMA GivenSize ==
  ASSUME NEW w \in Nat
  PROVE  AlignedSize(w % Modulus) \in Nat /\ MIN_SIZE_ALIGNED <= AlignedSize(w % Modulus)
<1>1. w % Modulus \in Nat
  OBVIOUS
<1> QED  BY <1>1, AlignedSizeIsNat

\* mem_malloc and mem_calloc keep the invariant.
LEMMA MallocKeeps ==
  ASSUME IndInv, NEW w \in Nat, Malloc(w)
  PROVE  IndInv'
<1> DEFINE size == AlignedSize(w % Modulus)
<1>0. size \in Nat /\ MIN_SIZE_ALIGNED <= size
  BY GivenSize
<1>1. CASE UNCHANGED <<heap, req>> /\ ret' = Returned("malloc", w, NULL)
  BY <1>1 DEF IndInv, UsedIsHeld, Returned
<1>2. ASSUME NEW b \in Candidates(heap, size),
             heap' = AdjustLfree(TakeBlock(heap, b, size), b),
             req' = [x \in DOMAIN req \cup {b} |-> IF x = b THEN w ELSE req[x]],
             ret' = Returned("malloc", w, b)
      PROVE  IndInv'
  <2>1. b \in Blocks(heap) /\ Fits(heap, b, size)
    BY <1>2 DEF Candidates
  <2>2. HeapOK(heap') /\ UsedIn(heap') = UsedIn(heap) \cup {b}
    BY <1>0, <1>2, <2>1, AllocateOK DEF IndInv
  <2>3. UsedIsHeld'
    BY <1>2, <2>2 DEF IndInv, UsedIsHeld, UsedIn
  <2>4. req' \in [DOMAIN req' -> Nat]
    BY <1>2 DEF IndInv
  <2>5. ret'.mem \in Blocks(heap')
    BY <1>2, <2>2 DEF Returned, UsedIn
  <2> QED  BY <2>2, <2>3, <2>4, <2>5 DEF IndInv
<1> HIDE DEF size
<1> QED  BY <1>1, <1>2 DEF Malloc, size

\* mem_free keeps the invariant.
LEMMA FreeKeeps ==
  ASSUME IndInv, NEW b \in DOMAIN req, mem_free(b)
  PROVE  IndInv'
<1>1. b \in Blocks(heap) /\ heap.used[b]
  BY DEF IndInv, UsedIsHeld
<1>2. HeapOK(heap') /\ UsedIn(heap') = UsedIn(heap) \ {b}
  BY <1>1, FreeBlockOK DEF IndInv, mem_free
<1>3. UsedIsHeld' /\ req' \in [DOMAIN req' -> Nat] /\ ret'.mem = NULL
  BY <1>2 DEF IndInv, UsedIsHeld, UsedIn, mem_free, NoCall, Returned
<1> QED  BY <1>2, <1>3 DEF IndInv

\* mem_trim keeps the invariant.
LEMMA TrimKeeps ==
  ASSUME IndInv, NEW b \in DOMAIN req, NEW s \in Sizes \cup {0}, mem_trim(b, s)
  PROVE  IndInv'
<1> DEFINE size == AlignedSize(s)
<1>0. size \in Nat /\ MIN_SIZE_ALIGNED <= size /\ s \in Nat
  BY AlignedSizeIsNat
<1>1. b \in Blocks(heap) /\ heap.used[b]
  BY DEF IndInv, UsedIsHeld
<1>2. HeapOK(heap') /\ UsedIn(heap') = UsedIn(heap)
  <2>1. CASE size < DataSize(heap, b)
    BY <2>1, <1>0, <1>1, TrimBlockOK DEF IndInv, mem_trim
  <2>2. CASE ~(size < DataSize(heap, b))
    BY <2>2 DEF IndInv, mem_trim
  <2> QED  BY <2>1, <2>2
<1>3. DOMAIN req' = DOMAIN req /\ req' \in [DOMAIN req' -> Nat] /\ ret'.mem = NULL
  BY <1>0 DEF IndInv, mem_trim, NoCall, Returned
<1>4. UsedIsHeld'
  BY <1>2, <1>3 DEF IndInv, UsedIsHeld, UsedIn
<1> QED  BY <1>2, <1>3, <1>4 DEF IndInv

\* No call breaks the invariant.
LEMMA StepKeeps == IndInv /\ [Next]_vars => IndInv'
<1> SUFFICES ASSUME IndInv, [Next]_vars PROVE IndInv'
  OBVIOUS
<1>1. ASSUME NEW s \in Sizes, mem_malloc(s) PROVE IndInv'
  BY <1>1, MallocKeeps DEF mem_malloc
<1>2. ASSUME NEW n \in Counts, NEW s \in Sizes, mem_calloc(n, s) PROVE IndInv'
  <2>1. n * s \in Nat
    OBVIOUS
  <2> QED  BY <1>2, <2>1, MallocKeeps DEF mem_calloc
<1>3. ASSUME NEW b \in DOMAIN req, mem_free(b) PROVE IndInv'
  BY <1>3, FreeKeeps
<1>4. ASSUME NEW b \in DOMAIN req, NEW s \in Sizes \cup {0}, mem_trim(b, s) PROVE IndInv'
  BY <1>4, TrimKeeps
<1>5. CASE UNCHANGED vars
  BY <1>5 DEF IndInv, UsedIsHeld, vars
<1> QED  BY <1>1, <1>2, <1>3, <1>4, <1>5 DEF Next

\* The headers, lfree and the callers' blocks agree in every reachable state.
THEOREM Invariance == Spec => []IndInv
BY InitHolds, StepKeeps, PTL DEF Spec

\* Whatever is allocated, trimmed and freed in whatever order, the headers tile
\* the heap, so that no two blocks overlap and no byte is lost; plug_holes leaves
\* no two free blocks side by side; and callers hold exactly the used blocks.
THEOREM HeapIsConsistent == Spec => []HeapConsistent
<1>1. IndInv => HeapConsistent
  BY DEF IndInv, HeapOK, Shape, TypeOK, HeapConsistent
<1> QED  BY <1>1, Invariance, PTL

\* lfree is the lowest free block, so that a scan from lfree misses nothing.
THEOREM LfreeIsLowest == Spec => []LfreeLowest
<1>1. IndInv => LfreeLowest
  BY DEF IndInv, HeapOK, LfreeLowest
<1> QED  BY <1>1, Invariance, PTL

\* Once everything is freed the heap is one block again.
THEOREM FreedHeapIsInitial == Spec => []AllFreedIsInitial
<1>1. IndInv => AllFreedIsInitial
  <2> SUFFICES ASSUME IndInv, DOMAIN req = {}
               PROVE  Blocks(heap) = {0} /\ heap.next[0] = ram_end /\ heap.lfree = 0
    BY DEF AllFreedIsInitial
  <2>1. /\ Shape(heap) /\ TiledHeap(heap) /\ NoAdjacentFreeIn(heap) /\ LfreeLowestIn(heap)
        /\ \A b \in Blocks(heap) : ~heap.used[b]
    BY DEF IndInv, HeapOK, UsedIsHeld
  <2>2. 0 \in Blocks(heap) /\ heap.next[0] = ram_end
    BY <2>1 DEF TiledHeap, NoAdjacentFreeIn, Shape
  <2>3. ASSUME NEW b \in Blocks(heap), b # 0 PROVE FALSE
    BY <2>1, <2>2, <2>3, Offsets DEF TiledHeap
  <2>4. heap.lfree = 0
    BY <2>1, <2>2, Offsets DEF LfreeLowestIn
  <2> QED  BY <2>2, <2>3, <2>4
<1> QED  BY <1>1, Invariance, PTL

-----------------------------------------------------------------------------
(* What callers get, when no size wraps around in a mem_size_t *)

NoWrap == \A s \in Sizes : /\ s + MEM_ALIGNMENT - 1 < Modulus
                           /\ \A n \in Counts : n * s + MEM_ALIGNMENT - 1 < Modulus

\* Alignment does not make a size smaller.
LEMMA AlignedSizeIsEnough ==
  ASSUME NEW s \in Nat, s + MEM_ALIGNMENT - 1 < Modulus
  PROVE  s % Modulus = s /\ s <= AlignedSize(s)
<1> DEFINE u == ((s + MEM_ALIGNMENT - 1) \div MEM_ALIGNMENT) * MEM_ALIGNMENT
<1>1. u \in Nat /\ s <= u /\ u <= s + MEM_ALIGNMENT - 1
  BY AlignUp
<1>2. AlignedSize(s) = IF u % Modulus < MIN_SIZE_ALIGNED THEN MIN_SIZE_ALIGNED ELSE u % Modulus
  BY DEF AlignedSize
<1> HIDE DEF u
<1>3. u < Modulus /\ s < Modulus
  BY <1>1
<1>4. u % Modulus = u /\ s % Modulus = s
  BY <1>1, <1>3
<1> QED  BY <1>1, <1>2, <1>4

CallInv == EnoughRoom /\ FailsOnlyWhenFull

\* mem_malloc gives room, or there is none;
LEMMA MallocServes ==
  ASSUME IndInv, CallInv, NEW w \in Nat, w + MEM_ALIGNMENT - 1 < Modulus, Malloc(w)
  PROVE  CallInv'
<1> DEFINE size == AlignedSize(w)
<1>0. w % Modulus = w /\ w <= size /\ size \in Nat /\ MIN_SIZE_ALIGNED <= size
  BY AlignedSizeIsEnough, AlignedSizeIsNat
<1>1. CASE /\ w = 0 \/ size > MEM_SIZE_ALIGNED \/ Candidates(heap, size) = {}
           /\ UNCHANGED <<heap, req>> /\ ret' = Returned("malloc", w, NULL)
  <2>1. EnoughRoom'
    BY <1>1 DEF CallInv, EnoughRoom
  <2>2. ASSUME w # 0, NEW b \in Blocks(heap), Fits(heap, b, size) PROVE FALSE
    <3>1. /\ b \in Nat /\ heap.next[b] \in Nat /\ heap.next[b] <= ram_end /\ ram_end \in Nat
          /\ heap.lfree <= b
      BY <2>2, Offsets DEF IndInv, HeapOK, LfreeLowestIn, Fits
    <3>2. b + SIZEOF_STRUCT_MEM + size <= ram_end
      BY <2>2, <3>1, <1>0 DEF Fits, DataSize
    <3>3. b \in Candidates(heap, size) /\ size <= ram_end
      BY <2>2, <3>1, <3>2, <1>0 DEF Candidates
    <3> QED  BY <2>2, <3>3, <1>0, <1>1 DEF ram_end
  <2>3. FailsOnlyWhenFull'
    BY <1>1, <2>2 DEF FailsOnlyWhenFull, Returned
  <2> QED  BY <2>1, <2>3 DEF CallInv
<1>2. ASSUME NEW b \in Candidates(heap, size),
             heap' = AdjustLfree(TakeBlock(heap, b, size), b),
             req' = [x \in DOMAIN req \cup {b} |-> IF x = b THEN w ELSE req[x]],
             ret' = Returned("malloc", w, b)
      PROVE  CallInv'
  <2>1. b \in Blocks(heap) /\ Fits(heap, b, size)
    BY <1>2 DEF Candidates
  <2>2. /\ HeapOK(heap') /\ DataSize(heap', b) >= size
        /\ \A x \in UsedIn(heap) : DataSize(heap', x) = DataSize(heap, x)
    BY <1>0, <1>2, <2>1, AllocateOK DEF IndInv
  <2>3. UsedIn(heap) = DOMAIN req /\ UsedIn(heap) \subseteq Blocks(heap)
    BY DEF IndInv, UsedIsHeld, UsedIn
  <2>4. \A x \in DOMAIN req \ {b} : DataSize(heap', x) >= req[x]
    BY <2>2, <2>3 DEF CallInv, EnoughRoom
  <2>5. b \in Blocks(heap') => DataSize(heap', b) >= w
    <3>1. b \in Blocks(heap') => DataSize(heap', b) \in Int
      BY <2>2, Offsets DEF HeapOK, DataSize
    <3> QED  BY <3>1, <2>2, <1>0
  <2>6. EnoughRoom'
    BY <1>2, <2>4, <2>5 DEF EnoughRoom
  <2>7. b # NULL
    BY <2>1, Offsets DEF IndInv, HeapOK
  <2>8. FailsOnlyWhenFull'
    BY <1>2, <2>7 DEF FailsOnlyWhenFull, Returned
  <2> QED  BY <2>6, <2>8 DEF CallInv
<1> HIDE DEF size
<1> QED  BY <1>0, <1>1, <1>2 DEF Malloc, size

\* mem_free takes none from the others;
LEMMA FreeServes ==
  ASSUME IndInv, CallInv, NEW b \in DOMAIN req, mem_free(b)
  PROVE  CallInv'
<1>1. b \in Blocks(heap) /\ heap.used[b] /\ DOMAIN req = UsedIn(heap) /\ UsedIn(heap) \subseteq Blocks(heap)
  BY DEF IndInv, UsedIsHeld, UsedIn
<1>2. \A x \in UsedIn(heap) \ {b} : DataSize(heap', x) = DataSize(heap, x)
  BY <1>1, FreeBlockOK DEF IndInv, mem_free
<1>3. EnoughRoom'
  BY <1>1, <1>2 DEF CallInv, EnoughRoom, mem_free
<1>4. FailsOnlyWhenFull'
  BY DEF FailsOnlyWhenFull, mem_free, NoCall, Returned
<1> QED  BY <1>3, <1>4 DEF CallInv

\* and mem_trim leaves the block what its owner keeps.
LEMMA TrimServes ==
  ASSUME NoWrap, IndInv, CallInv, NEW b \in DOMAIN req, NEW s \in Sizes \cup {0}, mem_trim(b, s)
  PROVE  CallInv'
<1> DEFINE size == AlignedSize(s)
<1>0. size \in Nat /\ MIN_SIZE_ALIGNED <= size /\ s \in Nat
  BY AlignedSizeIsNat
<1>1. s <= size
  BY <1>0, AlignedSizeIsEnough DEF NoWrap
<1>2. b \in Blocks(heap) /\ heap.used[b] /\ DOMAIN req = UsedIn(heap) /\ UsedIn(heap) \subseteq Blocks(heap)
  BY DEF IndInv, UsedIsHeld, UsedIn
<1>3. FailsOnlyWhenFull'
  BY DEF FailsOnlyWhenFull, mem_trim, NoCall, Returned
<1>4. EnoughRoom'
  <2>0. HeapOK(heap) /\ DataSize(heap, b) \in Int
    BY <1>2, Offsets DEF IndInv, HeapOK, DataSize
  <2>1. CASE size < DataSize(heap, b)
    <3>1. /\ heap' = TrimBlock(heap, b, size)
          /\ req' = [req EXCEPT ![b] = s]
      BY <2>0, <2>1, <1>0 DEF mem_trim
    <3>2. /\ HeapOK(heap') /\ DataSize(heap', b) >= size /\ UsedIn(heap') = UsedIn(heap)
          /\ \A x \in UsedIn(heap) \ {b} : DataSize(heap', x) = DataSize(heap, x)
      BY <2>0, <2>1, <3>1, <1>0, <1>2, TrimBlockOK
    <3>3. b \in Blocks(heap') /\ DataSize(heap', b) \in Int
      BY <3>2, <1>2, Offsets DEF UsedIn, HeapOK, DataSize
    <3>4. DataSize(heap', b) >= s
      BY <3>2, <3>3, <1>0, <1>1
    <3>5. \A x \in DOMAIN req \ {b} : DataSize(heap', x) >= req'[x]
      BY <3>1, <3>2, <1>2 DEF CallInv, EnoughRoom
    <3>6. req'[b] = s /\ DOMAIN req' = DOMAIN req
      BY <3>1
    <3> QED  BY <3>4, <3>5, <3>6 DEF EnoughRoom
  <2>2. CASE size = DataSize(heap, b)
    <3>1. heap' = heap /\ req' = [req EXCEPT ![b] = s]
      BY <2>0, <2>2, <1>0 DEF mem_trim
    <3> QED  BY <2>2, <3>1, <1>1 DEF CallInv, EnoughRoom
  <2>3. CASE size > DataSize(heap, b)
    <3>1. heap' = heap /\ req' = req
      BY <2>0, <2>3, <1>0 DEF mem_trim
    <3> QED  BY <3>1 DEF CallInv, EnoughRoom
  <2> QED  BY <2>0, <2>1, <2>2, <2>3, <1>0
<1> QED  BY <1>3, <1>4 DEF CallInv

\* The calls are served in every state.
LEMMA CallsServed ==
  ASSUME NoWrap
  PROVE  Spec => []CallInv
<1>1. Init => CallInv
  BY DEF Init, CallInv, EnoughRoom, FailsOnlyWhenFull, NoCall, Returned
<1>2. IndInv /\ CallInv /\ [Next]_vars => CallInv'
  <2> SUFFICES ASSUME IndInv, CallInv, [Next]_vars PROVE CallInv'
    OBVIOUS
  <2>1. ASSUME NEW s \in Sizes, mem_malloc(s) PROVE CallInv'
    BY <2>1, MallocServes DEF mem_malloc, NoWrap
  <2>2. ASSUME NEW n \in Counts, NEW s \in Sizes, mem_calloc(n, s) PROVE CallInv'
    <3>1. n * s \in Nat /\ n * s + MEM_ALIGNMENT - 1 < Modulus
      BY DEF NoWrap
    <3> QED  BY <2>2, <3>1, MallocServes DEF mem_calloc
  <2>3. ASSUME NEW b \in DOMAIN req, mem_free(b) PROVE CallInv'
    BY <2>3, FreeServes
  <2>4. ASSUME NEW b \in DOMAIN req, NEW s \in Sizes \cup {0}, mem_trim(b, s) PROVE CallInv'
    BY <2>4, TrimServes
  <2>5. CASE UNCHANGED vars
    BY <2>5 DEF CallInv, EnoughRoom, FailsOnlyWhenFull, vars
  <2> QED  BY <2>1, <2>2, <2>3, <2>4, <2>5 DEF Next
<1> QED  BY <1>1, <1>2, Invariance, PTL DEF Spec

\* Every caller has the room it asked for, as long as no request comes within
\* MEM_ALIGNMENT of the largest mem_size_t.
THEOREM CallersHaveRoom ==
  ASSUME NoWrap
  PROVE  Spec => []EnoughRoom
BY CallsServed, PTL DEF CallInv

\* mem_malloc gives up only if no free block is large enough.
THEOREM MallocFindsRoom ==
  ASSUME NoWrap
  PROVE  Spec => []FailsOnlyWhenFull
BY CallsServed, PTL DEF CallInv
=============================================================================
