--------------------------- MODULE SysMboxProofs ---------------------------
(***************************************************************************)
(* Proofs, for any number of threads, messages, nodes and any capacity,    *)
(* that the mailbox of SysMbox stays type correct, well formed and within  *)
(* its capacity, that neither condition variable loses a wake-up, and that *)
(* it implements the buffer of BoundedFifo.                                *)
(***************************************************************************)
EXTENDS SysMbox, FiniteSetTheorems, SequenceTheorems, WellFoundedInduction, TLAPS

\* Nobody is inside a call on a mailbox that does not exist, and it is empty.
ClosedIsIdle ==
  ~valid => /\ count = 0 /\ capacity = 0
            /\ \A t \in Thread : pc[t] = "idle"

\* What the proof carries from step to step.
IndInv == /\ TypeOK
          /\ ListWellFormed
          /\ CapacityRespected
          /\ ClosedIsIdle
          /\ NoLostNonEmpty
          /\ NoLostNonFull

USE ThreadsFinite, CapacityPositive, SizesAreInts, TimesAreNats, NullIsNoObject

-----------------------------------------------------------------------------
(* The list *)

\* malloc returns a node that is not in use.
LEMMA FreshNode ==
  ASSUME heap \subseteq Node, heap # Node
  PROVE  LET n == CHOOSE n \in Node : n \notin heap IN n \in Node /\ n \notin heap
OBVIOUS

\* The nodes after a post: those before it and a new one, which has the message.
LEMMA EnqueueNodes ==
  ASSUME TypeOK, heap # Node, NEW m \in Msg \cup {NULL}, Enqueue(m),
         NEW q \in [1..count -> Node], IsList(q)
  PROVE  \E n \in Node \ heap, p \in [1..count' -> Node] :
           /\ p = [i \in 1..count + 1 |-> IF i = count + 1 THEN n ELSE q[i]]
           /\ IsList(p)'
           /\ data' = [data EXCEPT ![n] = m]
<1> DEFINE n == CHOOSE x \in Node : x \notin heap
<1>1. n \in Node /\ n \notin heap
  BY FreshNode DEF TypeOK
<1>2. IsList(q)
  OBVIOUS
<1>3. count \in Nat /\ next \in [Node -> Node \cup {NULL}] /\ data \in [Node -> Msg \cup {NULL}]
  BY DEF TypeOK
<1>4. /\ heap' = heap \cup {n}
      /\ data' = [data EXCEPT ![n] = m]
      /\ next' = IF tail = NULL THEN [next EXCEPT ![n] = NULL]
                                ELSE [next EXCEPT ![n] = NULL, ![tail] = n]
      /\ head' = IF tail = NULL THEN n ELSE head
      /\ tail' = n
      /\ count' = count + 1
      /\ capacity' = capacity
  BY DEF Enqueue
<1> HIDE DEF n
<1>p. PICK p : p = [i \in 1..count + 1 |-> IF i = count + 1 THEN n ELSE q[i]]
  OBVIOUS
<1>5. p \in [1..count' -> Node]
  BY <1>1, <1>3, <1>4, <1>p
<1>6. \A i \in 1..count : q[i] \in heap /\ q[i] # n
  BY <1>1, <1>2 DEF IsList
<1>7. tail = NULL <=> count = 0
  BY <1>2, <1>3 DEF IsList
<1>8. IsList(p)'
  <2>1. \A i, j \in 1..count' : p[i] = p[j] => i = j
    BY <1>2, <1>3, <1>4, <1>6, <1>p DEF IsList
  <2>2. heap' = {p[i] : i \in 1..count'}
    BY <1>2, <1>3, <1>4, <1>p DEF IsList
  <2>3. head' = IF count' = 0 THEN NULL ELSE p[1]
    BY <1>2, <1>3, <1>4, <1>7, <1>p DEF IsList
  <2>4. tail' = IF count' = 0 THEN NULL ELSE p[count']
    BY <1>3, <1>4, <1>p
  <2>5. ASSUME NEW i \in 1..count'
        PROVE  next'[p[i]] = IF i = count' THEN NULL ELSE p[i + 1]
    <3>1. CASE i = count + 1
      BY <3>1, <1>1, <1>2, <1>3, <1>4, <1>6, <1>7, <1>p DEF IsList
    <3>2. CASE i = count
      BY <3>2, <1>1, <1>2, <1>3, <1>4, <1>6, <1>7, <1>p DEF IsList
    <3>3. CASE i < count
      <4>1. i \in 1..count /\ count \in 1..count /\ i # count /\ i + 1 \in 1..count
        BY <3>3, <1>3, <1>4
      <4>2. q[i] # n /\ q[i] # tail /\ next[q[i]] = q[i + 1] /\ q[i] \in Node
        BY <4>1, <1>2, <1>3, <1>6, <1>p DEF IsList
      <4>3. next'[q[i]] = next[q[i]]
        BY <4>2, <1>3, <1>4
      <4>4. p[i] = q[i] /\ p[i + 1] = q[i + 1] /\ i # count'
        BY <4>1, <1>3, <1>4, <1>p
      <4> QED  BY <4>2, <4>3, <4>4
    <3> QED  BY <3>1, <3>2, <3>3, <1>3, <1>4
  <2> QED  BY <2>1, <2>2, <2>3, <2>4, <2>5 DEF IsList
<1> QED  BY <1>1, <1>4, <1>5, <1>8, <1>p

\* A posted message leaves the list well formed and typed.
LEMMA EnqueueList ==
  ASSUME TypeOK, ListWellFormed, heap # Node, NEW m \in Msg \cup {NULL}, Enqueue(m)
  PROVE  /\ ListWellFormed'
         /\ count' = count + 1
         /\ capacity' = capacity
         /\ head' \in Node \cup {NULL} /\ tail' \in Node \cup {NULL}
         /\ heap' \subseteq Node
         /\ next' \in [Node -> Node \cup {NULL}]
         /\ data' \in [Node -> Msg \cup {NULL}]
<1>1. PICK q \in [1..count -> Node] : IsList(q)
  BY DEF ListWellFormed
<1>2. ListWellFormed'
  BY <1>1, EnqueueNodes DEF ListWellFormed
<1> DEFINE n == CHOOSE x \in Node : x \notin heap
<1>3. n \in Node
  BY FreshNode DEF TypeOK
<1>4. /\ heap' = heap \cup {n}
      /\ data' = [data EXCEPT ![n] = m]
      /\ next' = IF tail = NULL THEN [next EXCEPT ![n] = NULL]
                                ELSE [next EXCEPT ![n] = NULL, ![tail] = n]
      /\ head' = IF tail = NULL THEN n ELSE head
      /\ tail' = n
      /\ count' = count + 1
      /\ capacity' = capacity
  BY DEF Enqueue
<1> HIDE DEF n
<1> QED  BY <1>2, <1>3, <1>4 DEF TypeOK

\* The nodes after a fetch: those before it without the first.
LEMMA DequeueNodes ==
  ASSUME TypeOK, count > 0, Dequeue, NEW q \in [1..count -> Node], IsList(q)
  PROVE  \E p \in [1..count' -> Node] :
           /\ p = [i \in 1..count - 1 |-> q[i + 1]]
           /\ IsList(p)'
           /\ count' = count - 1 /\ count' \in Nat
           /\ head = q[1] /\ head \in Node
           /\ \A i \in 1..count' : data'[p[i]] = data[p[i]]
<1>1. IsList(q)
  OBVIOUS
<1>2. /\ count \in Nat /\ next \in [Node -> Node \cup {NULL}]
      /\ data \in [Node -> Msg \cup {NULL}] /\ heap \subseteq Node /\ tail \in Node \cup {NULL}
  BY DEF TypeOK
<1>3. head = q[1] /\ head \in Node
  BY <1>1, <1>2 DEF IsList
<1>4. /\ head' = next[head]
      /\ tail' = IF next[head] = NULL THEN NULL ELSE tail
      /\ count' = count - 1
      /\ capacity' = capacity
      /\ heap' = heap \ {head}
      /\ next' = [x \in Node |-> IF x \in {head} THEN NULL ELSE next[x]]
      /\ data' = [x \in Node |-> IF x \in {head} THEN NULL ELSE data[x]]
  BY DEF Dequeue, FreeNodes
<1>5. PICK p : p = [i \in 1..count - 1 |-> q[i + 1]]
  OBVIOUS
<1>6. p \in [1..count' -> Node]
  BY <1>2, <1>4, <1>5
<1>7. IsList(p)'
  <2>0. \A i \in 1..count' : i + 1 \in 1..count /\ p[i] = q[i + 1] /\ p[i] # head /\ p[i] \in Node
    BY <1>1, <1>2, <1>3, <1>4, <1>5 DEF IsList
  <2>1. \A i, j \in 1..count' : p[i] = p[j] => i = j
    BY <2>0, <1>1, <1>2, <1>4 DEF IsList
  <2>2. heap' = {p[i] : i \in 1..count'}
    <3>1. ASSUME NEW x \in heap' PROVE x \in {p[i] : i \in 1..count'}
      <4>1. PICK i \in 1..count : x = q[i]
        BY <3>1, <1>1, <1>4 DEF IsList
      <4>2. i # 1
        BY <3>1, <4>1, <1>3, <1>4
      <4>3. i - 1 \in 1..count' /\ p[i - 1] = q[i]
        BY <4>2, <1>2, <1>4, <1>5
      <4> QED  BY <4>1, <4>3
    <3>2. ASSUME NEW i \in 1..count' PROVE p[i] \in heap'
      BY <3>2, <2>0, <1>1, <1>4 DEF IsList
    <3> QED  BY <3>1, <3>2
  <2>3. head' = IF count' = 0 THEN NULL ELSE p[1]
    BY <2>0, <1>1, <1>2, <1>3, <1>4 DEF IsList
  <2>4. tail' = IF count' = 0 THEN NULL ELSE p[count']
    BY <2>0, <1>1, <1>2, <1>3, <1>4 DEF IsList
  <2>5. \A i \in 1..count' : next'[p[i]] = IF i = count' THEN NULL ELSE p[i + 1]
    <3>1. ASSUME NEW i \in 1..count'
          PROVE  next'[p[i]] = IF i = count' THEN NULL ELSE p[i + 1]
      <4>1. next'[p[i]] = next[q[i + 1]] /\ i + 1 \in 1..count
        BY <2>0, <1>4
      <4>2. next[q[i + 1]] = IF i + 1 = count THEN NULL ELSE q[i + 2]
        BY <4>1, <1>1, <1>2 DEF IsList
      <4>3. i # count' => p[i + 1] = q[i + 2]
        BY <1>2, <1>4, <1>5
      <4> QED  BY <4>1, <4>2, <4>3, <1>2, <1>4
    <3> QED  BY <3>1
  <2> QED  BY <2>1, <2>2, <2>3, <2>4, <2>5 DEF IsList
<1>8. \A i \in 1..count' : data'[p[i]] = data[p[i]]
  <2>1. \A i \in 1..count' : i + 1 \in 1..count /\ p[i] = q[i + 1] /\ p[i] # head /\ p[i] \in Node
    BY <1>1, <1>2, <1>3, <1>4, <1>5 DEF IsList
  <2> QED  BY <2>1, <1>4
<1>9. count' = count - 1 /\ count' \in Nat /\ head = q[1] /\ head \in Node
  BY <1>2, <1>3, <1>4
<1> QED  BY <1>2, <1>5, <1>6, <1>7, <1>8, <1>9, Zenon

\* Taking the oldest message leaves the list well formed and typed.
LEMMA DequeueList ==
  ASSUME TypeOK, ListWellFormed, count > 0, Dequeue
  PROVE  /\ ListWellFormed'
         /\ count' = count - 1 /\ count' \in Nat
         /\ capacity' = capacity
         /\ head' \in Node \cup {NULL} /\ tail' \in Node \cup {NULL}
         /\ heap' \subseteq Node
         /\ next' \in [Node -> Node \cup {NULL}]
         /\ data' \in [Node -> Msg \cup {NULL}]
         /\ data[head] \in Msg \cup {NULL}
<1>1. PICK q \in [1..count -> Node] : IsList(q)
  BY DEF ListWellFormed
<1>2. ListWellFormed' /\ count' \in Nat /\ head \in Node
  BY <1>1, DequeueNodes DEF ListWellFormed
<1>3. /\ head' = next[head]
      /\ tail' = IF next[head] = NULL THEN NULL ELSE tail
      /\ count' = count - 1
      /\ capacity' = capacity
      /\ heap' = heap \ {head}
      /\ next' = [x \in Node |-> IF x \in {head} THEN NULL ELSE next[x]]
      /\ data' = [x \in Node |-> IF x \in {head} THEN NULL ELSE data[x]]
  BY DEF Dequeue, FreeNodes
<1> QED  BY <1>2, <1>3 DEF TypeOK

-----------------------------------------------------------------------------
(* The threads *)

\* A wait that never blocked reports no time.
LEMMA NoTimeWaited == 0 \in 0..MaxMs
OBVIOUS

\* What a returning thread leaves behind has its type.
LEMMA ReturnTyped ==
  ASSUME TypeOK, NEW t \in Thread, Return(t)
  PROVE  /\ arg' \in [Thread -> Msg \cup {NULL}]
         /\ timeout' \in [Thread -> Timeouts \cup {0}]
         /\ waited' \in [Thread -> 0..MaxMs]
BY NoTimeWaited DEF TypeOK, Return

\* The threads are finitely many, so subsets of them have a cardinality.
LEMMA ThreadSetFinite ==
  ASSUME NEW S \in SUBSET Thread
  PROVE  IsFiniteSet(S) /\ Cardinality(S) \in Nat
BY FS_Subset, FS_CardinalityType

\* WakeConditionVariable when t leaves: the sleepers are nobody, or one of them
\* has joined the woken ones.
LEMMA WakeOne ==
  ASSUME NEW t \in Thread, NEW sleep, NEW woken,
         sleep # woken, "idle" # sleep, "idle" # woken, pc[t] # sleep,
         pc \in [Thread -> {"idle", "post_sleep", "post_woken", "fetch_sleep", "fetch_woken"}],
         NEW W \in Wake(At(sleep)), Move(t, "idle", W, woken)
  PROVE  \/ At(sleep) = {} /\ At(sleep)' = {}
         \/ /\ At(sleep) # {}
            /\ Cardinality(At(woken)') = Cardinality(At(woken) \ {t}) + 1
<1>1. CASE At(sleep) = {}
  <2>1. W = {}
    BY <1>1 DEF Wake
  <2> QED  BY <1>1, <2>1 DEF At, Move
<1>2. CASE At(sleep) # {}
  <2>1. PICK u \in At(sleep) : W = {u}
    BY <1>2 DEF Wake
  <2>2. At(woken)' = (At(woken) \ {t}) \cup {u} /\ u \notin At(woken) \ {t}
    BY <2>1 DEF At, Move
  <2>3. IsFiniteSet(At(woken) \ {t})
    BY ThreadSetFinite DEF At
  <2>4. Cardinality((At(woken) \ {t}) \cup {u}) = Cardinality(At(woken) \ {t}) + 1
    BY <2>2, <2>3, FS_AddElement
  <2> QED  BY <1>2, <2>2, <2>4
<1> QED  BY <1>1, <1>2

\* The threads at `where' without t.
LEMMA WithoutThread ==
  ASSUME NEW t \in Thread, NEW where
  PROVE  /\ Cardinality(At(where)) \in Nat
         /\ Cardinality(At(where) \ {t}) \in Nat
         /\ Cardinality(At(where) \ {t}) = IF pc[t] = where THEN Cardinality(At(where)) - 1
                                                            ELSE Cardinality(At(where))
<1>1. IsFiniteSet(At(where)) /\ Cardinality(At(where)) \in Nat /\ Cardinality(At(where) \ {t}) \in Nat
  BY ThreadSetFinite DEF At
<1>2. t \in At(where) <=> pc[t] = where
  BY DEF At
<1> QED  BY <1>1, <1>2, FS_RemoveElement

\* A post that finds room keeps everything.
LEMMA FinishPostKeeps ==
  ASSUME IndInv, valid, count < capacity,
         NEW t \in Thread, pc[t] \in {"idle", "post_woken"},
         NEW m \in Msg \cup {NULL}, FinishPost(t, m)
  PROVE  IndInv'
<1>1. /\ ListWellFormed'
      /\ count' = count + 1
      /\ capacity' = capacity
      /\ head' \in Node \cup {NULL} /\ tail' \in Node \cup {NULL}
      /\ heap' \subseteq Node
      /\ next' \in [Node -> Node \cup {NULL}]
      /\ data' \in [Node -> Msg \cup {NULL}]
  BY EnqueueList DEF IndInv, FinishPost
<1>2. PICK W \in Wake(At("fetch_sleep")) : Move(t, "idle", W, "fetch_woken")
  BY DEF FinishPost, WakeNonEmpty
<1>3. count \in Nat /\ capacity \in Int
  BY DEF IndInv, TypeOK, Capacities
<1>4. TypeOK'
  <2>1. pc' \in [Thread -> {"idle", "post_sleep", "post_woken", "fetch_sleep", "fetch_woken"}]
    BY <1>2 DEF IndInv, TypeOK, Move
  <2>2. /\ arg' \in [Thread -> Msg \cup {NULL}]
        /\ timeout' \in [Thread -> Timeouts \cup {0}]
        /\ waited' \in [Thread -> 0..MaxMs]
    BY ReturnTyped DEF IndInv, FinishPost
  <2>3. valid' = valid /\ got' = got /\ count' \in Nat
    BY <1>1, <1>3 DEF FinishPost
  <2> QED  BY <1>1, <2>1, <2>2, <2>3 DEF IndInv, TypeOK
<1>5. CapacityRespected'
  BY <1>1, <1>3 DEF CapacityRespected
<1>6. ClosedIsIdle'
  BY DEF FinishPost, ClosedIsIdle
<1>7. NoLostNonEmpty'
  <2>1. pc[t] # "fetch_sleep" /\ pc[t] # "fetch_woken"
    OBVIOUS
  <2>2. CASE At("fetch_sleep")' = {}
    BY <2>2 DEF NoLostNonEmpty
  <2>3. CASE At("fetch_sleep")' # {}
    <3>1. /\ At("fetch_sleep") # {}
          /\ Cardinality(At("fetch_woken")') = Cardinality(At("fetch_woken") \ {t}) + 1
      BY <2>1, <2>3, <1>2, WakeOne DEF IndInv, TypeOK
    <3>2. count <= Cardinality(At("fetch_woken"))
      BY <3>1 DEF IndInv, NoLostNonEmpty
    <3>3. count' <= Cardinality(At("fetch_woken")')
      BY <2>1, <3>1, <3>2, <1>1, <1>3, WithoutThread
    <3> QED  BY <3>3 DEF NoLostNonEmpty
  <2> QED  BY <2>2, <2>3
<1>8. NoLostNonFull'
  <2>1. \A u \in W : pc[u] = "fetch_sleep"
    BY DEF Wake, At
  <2>2. At("post_sleep")' = At("post_sleep") /\ At("post_woken")' = At("post_woken") \ {t}
    BY <2>1, <1>2 DEF At, Move, IndInv, TypeOK
  <2>3. CASE At("post_sleep") = {}
    BY <2>2, <2>3 DEF NoLostNonFull
  <2>4. CASE At("post_sleep") # {}
    <3>1. capacity - count <= Cardinality(At("post_woken"))
      BY <2>4 DEF IndInv, NoLostNonFull
    <3>2. capacity' - count' <= Cardinality(At("post_woken")')
      BY <3>1, <2>2, <1>1, <1>3, WithoutThread
    <3> QED  BY <3>2 DEF NoLostNonFull
  <2> QED  BY <2>3, <2>4
<1> QED  BY <1>1, <1>4, <1>5, <1>6, <1>7, <1>8 DEF IndInv

\* A fetch that finds a message keeps everything.
LEMMA FinishFetchKeeps ==
  ASSUME IndInv, valid, count > 0,
         NEW t \in Fetcher, pc[t] \in {"idle", "fetch_woken"}, FinishFetch(t)
  PROVE  IndInv'
<1>0. t \in Thread
  BY DEF Thread
<1>1. /\ ListWellFormed'
      /\ count' = count - 1 /\ count' \in Nat
      /\ capacity' = capacity
      /\ head' \in Node \cup {NULL} /\ tail' \in Node \cup {NULL}
      /\ heap' \subseteq Node
      /\ next' \in [Node -> Node \cup {NULL}]
      /\ data' \in [Node -> Msg \cup {NULL}]
      /\ data[head] \in Msg \cup {NULL}
  BY DequeueList DEF IndInv, FinishFetch
<1>2. PICK W \in Wake(At("post_sleep")) : Move(t, "idle", W, "post_woken")
  BY DEF FinishFetch, WakeNonFull
<1>3. count \in Nat /\ capacity \in Int
  BY DEF IndInv, TypeOK, Capacities
<1>4. TypeOK'
  <2>1. pc' \in [Thread -> {"idle", "post_sleep", "post_woken", "fetch_sleep", "fetch_woken"}]
    BY <1>2 DEF IndInv, TypeOK, Move
  <2>2. /\ arg' \in [Thread -> Msg \cup {NULL}]
        /\ timeout' \in [Thread -> Timeouts \cup {0}]
        /\ waited' \in [Thread -> 0..MaxMs]
    BY <1>0, ReturnTyped DEF IndInv, FinishFetch
  <2>3. valid' = valid /\ got' \in [Fetcher -> Msg \cup {NULL}]
    BY <1>1 DEF IndInv, TypeOK, FinishFetch
  <2> QED  BY <1>1, <2>1, <2>2, <2>3 DEF IndInv, TypeOK
<1>5. CapacityRespected'
  BY <1>1, <1>3 DEF IndInv, CapacityRespected
<1>6. ClosedIsIdle'
  BY DEF FinishFetch, ClosedIsIdle
<1>7. NoLostNonFull'
  <2>1. pc[t] # "post_sleep" /\ pc[t] # "post_woken"
    OBVIOUS
  <2>2. CASE At("post_sleep")' = {}
    BY <2>2 DEF NoLostNonFull
  <2>3. CASE At("post_sleep")' # {}
    <3>1. /\ At("post_sleep") # {}
          /\ Cardinality(At("post_woken")') = Cardinality(At("post_woken") \ {t}) + 1
      BY <1>0, <2>1, <2>3, <1>2, WakeOne DEF IndInv, TypeOK
    <3>2. capacity - count <= Cardinality(At("post_woken"))
      BY <3>1 DEF IndInv, NoLostNonFull
    <3>3. capacity' - count' <= Cardinality(At("post_woken")')
      BY <1>0, <2>1, <3>1, <3>2, <1>1, <1>3, WithoutThread
    <3> QED  BY <3>3 DEF NoLostNonFull
  <2> QED  BY <2>2, <2>3
<1>8. NoLostNonEmpty'
  <2>1. \A u \in W : pc[u] = "post_sleep"
    BY DEF Wake, At
  <2>2. At("fetch_sleep")' = At("fetch_sleep") /\ At("fetch_woken")' = At("fetch_woken") \ {t}
    BY <2>1, <1>2 DEF At, Move, IndInv, TypeOK
  <2>3. CASE At("fetch_sleep") = {}
    BY <2>2, <2>3 DEF NoLostNonEmpty
  <2>4. CASE At("fetch_sleep") # {}
    <3>1. count <= Cardinality(At("fetch_woken"))
      BY <2>4 DEF IndInv, NoLostNonEmpty
    <3>2. count' <= Cardinality(At("fetch_woken")')
      BY <1>0, <3>1, <2>2, <1>1, <1>3, WithoutThread
    <3> QED  BY <3>2 DEF NoLostNonEmpty
  <2> QED  BY <2>3, <2>4
<1> QED  BY <1>1, <1>4, <1>5, <1>6, <1>7, <1>8 DEF IndInv

\* The list stays as it is when none of its fields changes.
LEMMA SameList ==
  ASSUME ListWellFormed, UNCHANGED list
  PROVE  ListWellFormed'
BY DEF ListWellFormed, IsList, list

\* A thread that goes to sleep, wakes up or gives up without touching the list
\* keeps everything, provided it sleeps only when there is nothing to do.
LEMMA MoveKeeps ==
  ASSUME IndInv, valid, UNCHANGED <<valid, list>>,
         NEW t \in Thread,
         NEW where \in {"idle", "post_sleep", "post_woken", "fetch_sleep", "fetch_woken"},
         pc' = [pc EXCEPT ![t] = where],
         where = "post_sleep" => count >= capacity,
         where = "fetch_sleep" => count = 0,
         pc[t] = "post_woken" => count >= capacity,
         pc[t] = "fetch_woken" => count = 0,
         TypeOK'
  PROVE  IndInv'
<1>1. ListWellFormed' /\ CapacityRespected' /\ ClosedIsIdle'
  BY SameList DEF IndInv, CapacityRespected, ClosedIsIdle, list
<1>2. count \in Nat /\ capacity \in Int /\ count' = count /\ capacity' = capacity
  BY DEF IndInv, TypeOK, Capacities, list
<1>3. \A w : At(w)' = IF w = where THEN At(w) \cup {t} ELSE At(w) \ {t}
  BY DEF At, IndInv, TypeOK
<1>4. \A w : /\ Cardinality(At(w)) \in Nat /\ Cardinality(At(w)') \in Nat
             /\ w = where => Cardinality(At(w)) <= Cardinality(At(w)')
             /\ pc[t] # w => Cardinality(At(w)) <= Cardinality(At(w)')
  <2>1. SUFFICES ASSUME NEW w
                 PROVE  /\ Cardinality(At(w)) \in Nat /\ Cardinality(At(w)') \in Nat
                        /\ w = where \/ pc[t] # w => Cardinality(At(w)) <= Cardinality(At(w)')
    OBVIOUS
  <2>2. At(w) \subseteq Thread /\ At(w)' \subseteq Thread
    BY DEF At
  <2>3. w = where \/ pc[t] # w => At(w) \subseteq At(w)'
    BY <1>3 DEF At
  <2>4. IsFiniteSet(At(w)') /\ Cardinality(At(w)) \in Nat /\ Cardinality(At(w)') \in Nat
    BY <2>2, ThreadSetFinite
  <2> QED  BY <2>3, <2>4, FS_Subset
<1>5. NoLostNonEmpty'
  <2>1. CASE count = 0
    BY <2>1, <1>2, <1>4 DEF NoLostNonEmpty
  <2>2. CASE count # 0
    <3>1. pc[t] # "fetch_woken" /\ where # "fetch_sleep"
      BY <2>2
    <3>2. At("fetch_sleep")' # {} => At("fetch_sleep") # {}
      BY <3>1, <1>3
    <3> QED  BY <3>1, <3>2, <1>2, <1>4 DEF NoLostNonEmpty, IndInv
  <2> QED  BY <2>1, <2>2
<1>6. NoLostNonFull'
  <2>1. CASE count >= capacity
    BY <2>1, <1>2, <1>4 DEF NoLostNonFull
  <2>2. CASE ~(count >= capacity)
    <3>1. pc[t] # "post_woken" /\ where # "post_sleep"
      BY <2>2
    <3>2. At("post_sleep")' # {} => At("post_sleep") # {}
      BY <3>1, <1>3
    <3> QED  BY <3>1, <3>2, <1>2, <1>4 DEF NoLostNonFull, IndInv
  <2> QED  BY <2>1, <2>2
<1> QED  BY <1>1, <1>5, <1>6 DEF IndInv

\* Steps that change no thread's place, no list and not the mailbox.
LEMMA QuietKeeps ==
  ASSUME IndInv, UNCHANGED <<valid, list, pc>>, TypeOK'
  PROVE  IndInv'
<1>1. ListWellFormed'
  BY SameList DEF IndInv
<1> QED
  BY <1>1 DEF IndInv, CapacityRespected, ClosedIsIdle, NoLostNonEmpty, NoLostNonFull, At, list

-----------------------------------------------------------------------------
(* The invariant *)

\* A new mailbox satisfies the inductive invariant.
LEMMA InitHolds == Init => IndInv
<1> SUFFICES ASSUME Init PROVE IndInv
  OBVIOUS
<1>1. TypeOK
  <2>1. waited \in [Thread -> 0..MaxMs]
    BY NoTimeWaited DEF Init
  <2> QED  BY <2>1 DEF Init, TypeOK
<1>2. ListWellFormed
  <2>1. PICK q : q = [i \in 1..0 |-> NULL]
    OBVIOUS
  <2>2. q \in [1..count -> Node] /\ IsList(q)
    BY <2>1 DEF Init, IsList
  <2> QED  BY <2>2 DEF ListWellFormed
<1>3. CapacityRespected /\ ClosedIsIdle
  BY DEF Init, CapacityRespected, ClosedIsIdle
<1>4. NoLostNonEmpty /\ NoLostNonFull
  BY DEF Init, NoLostNonEmpty, NoLostNonFull, At
<1> QED  BY <1>1, <1>2, <1>3, <1>4 DEF IndInv

\* A mailbox is created or destroyed only when nobody uses it.
LEMMA LifeCycleKeeps ==
  ASSUME IndInv, (\E s \in Sizes : sys_mbox_new(s)) \/ sys_mbox_free
  PROVE  IndInv'
<1> DEFINE Reset ==
      /\ count' = 0 /\ head' = NULL /\ tail' = NULL /\ heap' = {}
      /\ pc' = pc /\ \A t \in Thread : pc[t] = "idle"
      /\ valid' \in BOOLEAN
      /\ capacity' \in Capacities \cup {0}
      /\ ~valid' => capacity' = 0
      /\ next' \in [Node -> Node \cup {NULL}]
      /\ data' \in [Node -> Msg \cup {NULL}]
      /\ UNCHANGED <<call, got>>
<1>1. Reset
  <2>1. CASE sys_mbox_free
    BY <2>1 DEF sys_mbox_free, FreeNodes, IndInv, TypeOK
  <2>2. ASSUME NEW s \in Sizes, sys_mbox_new(s)
        PROVE  Reset
    <3>1. heap = {}
      BY <2>2 DEF IndInv, ListWellFormed, IsList, ClosedIsIdle, sys_mbox_new
    <3>2. CapacityOf(s) \in Capacities
      BY DEF CapacityOf, Capacities
    <3>3. /\ next \in [Node -> Node \cup {NULL}] /\ data \in [Node -> Msg \cup {NULL}]
          /\ \A t \in Thread : pc[t] = "idle"
      BY <2>2 DEF sys_mbox_new, IndInv, TypeOK, ClosedIsIdle
    <3>4. valid' \in BOOLEAN /\ (~valid' => capacity' = 0)
      BY <2>2, Zenon DEF sys_mbox_new
    <3> QED  BY <2>2, <3>1, <3>2, <3>3, <3>4 DEF sys_mbox_new
  <2> HIDE DEF Reset
  <2> QED  BY <2>1, <2>2
<1>2. TypeOK'
  BY <1>1 DEF IndInv, TypeOK, call
<1>3. ListWellFormed'
  <2>1. PICK q : q = [i \in 1..0 |-> NULL]
    OBVIOUS
  <2>2. q \in [1..count' -> Node] /\ IsList(q)'
    BY <1>1, <2>1 DEF IsList
  <2> QED  BY <2>2 DEF ListWellFormed
<1>4. CapacityRespected' /\ ClosedIsIdle'
  BY <1>1, <1>2 DEF CapacityRespected, ClosedIsIdle, TypeOK, Capacities
<1>5. NoLostNonEmpty' /\ NoLostNonFull'
  BY <1>1 DEF NoLostNonEmpty, NoLostNonFull, At
<1> QED  BY <1>2, <1>3, <1>4, <1>5 DEF IndInv

\* Every call of a poster keeps the invariant.
LEMMA PostKeeps ==
  ASSUME IndInv, NEW t \in Poster, Post(t)
  PROVE  IndInv'
<1>0. t \in Thread
  BY DEF Thread
<1>1. ASSUME NEW m \in Msg, sys_mbox_post(t, m) PROVE IndInv'
  <2>1. CASE count < capacity /\ FinishPost(t, m)
    BY <1>0, <1>1, <2>1, FinishPostKeeps DEF sys_mbox_post
  <2>2. CASE /\ count >= capacity /\ Sleep(t, "post_sleep")
             /\ arg' = [arg EXCEPT ![t] = m]
             /\ UNCHANGED <<valid, list, timeout, waited, got>>
    <3>1. TypeOK'
      BY <1>0, <2>2 DEF IndInv, TypeOK, list, Sleep
    <3> QED  BY <1>0, <1>1, <2>2, <3>1, MoveKeeps DEF Sleep, sys_mbox_post
  <2> QED  BY <1>1, <2>1, <2>2 DEF sys_mbox_post
<1>2. ASSUME NEW m \in Msg, sys_mbox_trypost(t, m) PROVE IndInv'
  BY <1>0, <1>2, FinishPostKeeps DEF sys_mbox_trypost
<1>3. ASSUME sys_mbox_post_woken(t) PROVE IndInv'
  <2>1. valid
    BY <1>0, <1>3 DEF sys_mbox_post_woken, IndInv, ClosedIsIdle
  <2>2. CASE count < capacity /\ FinishPost(t, arg[t])
    BY <1>0, <1>3, <2>1, <2>2, FinishPostKeeps DEF sys_mbox_post_woken, IndInv, TypeOK
  <2>3. CASE count >= capacity /\ Sleep(t, "post_sleep") /\ UNCHANGED <<valid, list, call, got>>
    <3>1. TypeOK'
      BY <1>0, <2>1, <2>3 DEF IndInv, TypeOK, list, call, Sleep
    <3> QED  BY <1>0, <1>3, <2>1, <2>3, <3>1, MoveKeeps DEF Sleep, sys_mbox_post_woken
  <2> QED  BY <1>3, <2>2, <2>3 DEF sys_mbox_post_woken
<1> QED  BY <1>1, <1>2, <1>3 DEF Post

\* Every call of a fetcher keeps the invariant.
LEMMA FetchKeeps ==
  ASSUME IndInv, NEW t \in Fetcher, Fetch(t)
  PROVE  IndInv'
<1>0. t \in Thread
  BY DEF Thread
<1>1. ASSUME NEW ms \in Timeouts, sys_arch_mbox_fetch(t, ms) PROVE IndInv'
  <2>1. CASE count > 0 /\ FinishFetch(t)
    BY <1>1, <2>1, FinishFetchKeeps DEF sys_arch_mbox_fetch
  <2>2. CASE /\ count = 0 /\ Sleep(t, "fetch_sleep")
             /\ got' = [got EXCEPT ![t] = NULL] /\ timeout' = [timeout EXCEPT ![t] = ms]
             /\ UNCHANGED <<valid, list, arg, waited>>
    <3>1. TypeOK'
      BY <1>0, <2>2 DEF IndInv, TypeOK, list, Sleep
    <3> QED  BY <1>0, <1>1, <2>2, <3>1, MoveKeeps DEF Sleep, sys_arch_mbox_fetch
  <2> QED  BY <1>1, <2>1, <2>2 DEF sys_arch_mbox_fetch
<1>2. ASSUME sys_arch_mbox_fetch_woken(t) PROVE IndInv'
  <2>1. valid /\ pc[t] = "fetch_woken"
    BY <1>0, <1>2 DEF sys_arch_mbox_fetch_woken, IndInv, ClosedIsIdle
  <2>2. CASE count > 0 /\ FinishFetch(t)
    BY <2>1, <2>2, FinishFetchKeeps
  <2>3. CASE count = 0 /\ Sleep(t, "fetch_sleep") /\ UNCHANGED <<valid, list, call, got>>
    <3>1. TypeOK'
      BY <1>0, <2>1, <2>3 DEF IndInv, TypeOK, list, call, Sleep
    <3> QED  BY <1>0, <2>1, <2>3, <3>1, MoveKeeps DEF Sleep
  <2>4. CASE count = 0 /\ FetchTimesOut(t)
    <3>1. TypeOK'
      BY <1>0, <2>1, <2>4, ReturnTyped DEF IndInv, TypeOK, list, FetchTimesOut
    <3> QED  BY <1>0, <2>1, <2>4, <3>1, MoveKeeps DEF FetchTimesOut
  <2> QED  BY <1>2, <2>2, <2>3, <2>4 DEF sys_arch_mbox_fetch_woken
<1>3. ASSUME SleepExpires(t) PROVE IndInv'
  <2>1. TypeOK' /\ valid
    BY <1>0, <1>3 DEF SleepExpires, IndInv, TypeOK, ClosedIsIdle, list, call
  <2> QED  BY <1>0, <1>3, <2>1, MoveKeeps DEF SleepExpires
<1> QED  BY <1>1, <1>2, <1>3 DEF Fetch

\* A wake-up for no reason keeps the invariant.
LEMMA SpuriousWakeKeeps ==
  ASSUME IndInv, NEW t \in Thread, SpuriousWake(t)
  PROVE  IndInv'
<1> DEFINE where == IF pc[t] = "post_sleep" THEN "post_woken" ELSE "fetch_woken"
<1>1. /\ where \in {"post_woken", "fetch_woken"}
      /\ pc' = [pc EXCEPT ![t] = where]
      /\ pc[t] \in {"post_sleep", "fetch_sleep"}
      /\ UNCHANGED <<valid, list, call, got>>
  BY DEF SpuriousWake, IndInv, TypeOK
<1> HIDE DEF where
<1>2. TypeOK' /\ valid
  BY <1>1 DEF IndInv, TypeOK, ClosedIsIdle, list, call
<1> QED  BY <1>1, <1>2, MoveKeeps

\* The clock disturbs nothing.
LEMMA TickKeeps ==
  ASSUME IndInv, Tick
  PROVE  IndInv'
<1>1. waited' \in [Thread -> 0..MaxMs]
  BY DEF Tick, IndInv, TypeOK
<1>2. TypeOK'
  BY <1>1 DEF Tick, IndInv, TypeOK, list
<1> QED  BY <1>2, QuietKeeps DEF Tick

\* No step breaks the inductive invariant.
LEMMA StepKeeps == IndInv /\ [Next]_vars => IndInv'
<1> SUFFICES ASSUME IndInv, [Next]_vars PROVE IndInv'
  OBVIOUS
<1>1. CASE UNCHANGED vars
  <2>1. TypeOK'
    BY <1>1 DEF IndInv, TypeOK, vars, list, call
  <2> QED  BY <1>1, <2>1, QuietKeeps DEF vars
<1>2. CASE (\E s \in Sizes : sys_mbox_new(s)) \/ sys_mbox_free
  BY <1>2, LifeCycleKeeps
<1>3. ASSUME NEW t \in Poster, Post(t) PROVE IndInv'
  BY <1>3, PostKeeps
<1>4. ASSUME NEW t \in Fetcher, Fetch(t) PROVE IndInv'
  BY <1>4, FetchKeeps
<1>5. ASSUME NEW t \in Thread, SpuriousWake(t) PROVE IndInv'
  BY <1>5, SpuriousWakeKeeps
<1>6. CASE Tick
  BY <1>6, TickKeeps
<1> QED  BY <1>1, <1>2, <1>3, <1>4, <1>5, <1>6 DEF Next

\* The strengthened invariant holds in every reachable state.
THEOREM Invariance == Spec => []IndInv
BY InitHolds, StepKeeps, PTL DEF Spec

\* Every variable keeps its type.
THEOREM TypeCorrect == Spec => []TypeOK
BY Invariance, PTL DEF IndInv

\* However many posters wait and in whatever order they re-enter the critical
\* section, sys_mbox_post never puts more than capacity messages in; and head,
\* tail, count and the next pointers always describe one list that holds every
\* node obtained from malloc.
THEOREM MailboxIsConsistent == Spec => []MailboxConsistent
BY Invariance, PTL DEF IndInv, MailboxConsistent

\* One wake-up per post and one per fetch is enough: no fetcher stays asleep
\* beside a message that no woken fetcher is coming for, and no poster beside
\* room that no woken poster is coming for.
THEOREM NoWakeupIsLost == Spec => []NoLostWakeup
BY Invariance, PTL DEF IndInv, NoLostWakeup
-----------------------------------------------------------------------------
(* The mailbox as a buffer.  Its contents are the data of the list's nodes, *)
(* which are read off the pointers; so the proof begins with the fact that  *)
(* the pointers determine the list.                                         *)

\* A poster that waits has a message to post.
WaitingHasMessage == \A t \in Thread : pc[t] \in {"post_sleep", "post_woken"} => arg[t] \in Msg

FifoInv == IndInv /\ WaitingHasMessage
-----------------------------------------------------------------------------
(* The list and its contents *)

\* Two lists that fit the same pointers are equal: take the first place where
\* they differ; it is not the head, and its predecessor points to both.
LEMMA OneList ==
  ASSUME TypeOK, NEW p \in [1..count -> Node], NEW q \in [1..count -> Node], IsList(p), IsList(q)
  PROVE  p = q
<1> DEFINE D == {i \in 1..count : p[i] # q[i]}
<1>0. count \in Nat
  BY DEF TypeOK
<1>1. SUFFICES ASSUME D # {} PROVE FALSE
  BY <1>0
<1>2. D \subseteq Nat
  BY <1>0
<1>3. PICK i \in D : \A j \in D : ~(<<j, i>> \in OpToRel(<, Nat))
  BY <1>1, <1>2, WFMin, NatLessThanWellFounded
<1>4. \A j \in D : ~(j < i)
  BY <1>2, <1>3 DEF OpToRel
<1>5. i \in 1..count /\ p[i] # q[i]
  OBVIOUS
<1>6. i # 1
  BY <1>0, <1>5 DEF IsList
<1>7. i - 1 \in 1..count /\ i - 1 # count /\ p[i - 1] = q[i - 1]
  BY <1>0, <1>4, <1>5, <1>6
<1>8. next[p[i - 1]] = p[i] /\ next[q[i - 1]] = q[i]
  BY <1>0, <1>5, <1>7 DEF IsList
<1> QED  BY <1>5, <1>7, <1>8

\* What Contents stands for, whichever list is at hand.
LEMMA ContentsOf ==
  ASSUME TypeOK, NEW q \in [1..count -> Node], IsList(q)
  PROVE  Contents = [i \in 1..count |-> data[q[i]]]
<1>1. Nodes \in [1..count -> Node] /\ IsList(Nodes)
  BY DEF Nodes
<1>2. Nodes = q
  BY <1>1, OneList
<1> QED  BY <1>2 DEF Contents

\* ContentsOf as a formula about one state,
ContentsKnown ==
  TypeOK => \A q \in [1..count -> Node] : IsList(q) => Contents = [i \in 1..count |-> data[q[i]]]

\* which therefore holds of the next one too.
LEMMA ContentsOfNext == ContentsKnown'
<1>1. ContentsKnown
  BY ContentsOf DEF ContentsKnown
<1> QED  BY <1>1, PTL

\* A function on 1..n is a sequence of length n.
LEMMA SequenceOf ==
  ASSUME NEW n \in Nat, NEW S, NEW f \in [1..n -> S]
  PROVE  f \in Seq(S) /\ Len(f) = n
OBVIOUS

\* The contents are a sequence of messages, as many as count says.
LEMMA ContentsTyped ==
  ASSUME TypeOK, ListWellFormed
  PROVE  Contents \in Seq(Msg \cup {NULL}) /\ Len(Contents) = count
<1>1. PICK q \in [1..count -> Node] : IsList(q)
  BY DEF ListWellFormed
<1>2. Contents = [i \in 1..count |-> data[q[i]]]
  BY <1>1, ContentsOf
<1>3. Contents \in [1..count -> Msg \cup {NULL}] /\ count \in Nat
  BY <1>2 DEF TypeOK
<1> QED  BY <1>3, SequenceOf

\* An empty mailbox has no contents.
LEMMA NoContents ==
  ASSUME count = 0
  PROVE  Contents = <<>>
BY DEF Contents

\* A list that does not change keeps its contents.
LEMMA SameContents ==
  ASSUME UNCHANGED list
  PROVE  Contents' = Contents
<1>1. \A q : IsList(q)' <=> IsList(q)
  BY DEF IsList, list
<1>2. Nodes' = Nodes
  BY <1>1 DEF Nodes, list, IsList
<1> QED  BY <1>2 DEF Contents, list

\* A post appends its message.
LEMMA EnqueueAppends ==
  ASSUME IndInv, TypeOK', heap # Node, NEW m \in Msg, Enqueue(m)
  PROVE  Contents' = Append(Contents, m)
<1>0. TypeOK /\ ListWellFormed /\ count \in Nat /\ count' = count + 1
  BY DEF IndInv, TypeOK, Enqueue
<1>1. PICK q \in [1..count -> Node] : IsList(q)
  BY <1>0 DEF ListWellFormed
<1>2. PICK n \in Node \ heap, p \in [1..count' -> Node] :
        /\ p = [i \in 1..count + 1 |-> IF i = count + 1 THEN n ELSE q[i]]
        /\ IsList(p)'
        /\ data' = [data EXCEPT ![n] = m]
  BY <1>0, <1>1, EnqueueNodes
<1>3. Contents = [i \in 1..count |-> data[q[i]]]
  BY <1>0, <1>1, ContentsOf
<1>4. Contents' = [i \in 1..count' |-> data'[p[i]]]
  BY <1>2, ContentsOfNext DEF ContentsKnown
<1>5. \A i \in 1..count : q[i] # n
  BY <1>1, <1>2 DEF IsList
<1>6. Contents \in Seq(Msg \cup {NULL}) /\ Len(Contents) = count
  BY <1>0, ContentsTyped
<1>7. /\ Append(Contents, m) \in Seq(Msg \cup {NULL})
      /\ Len(Append(Contents, m)) = count + 1
      /\ \A i \in 1..count : Append(Contents, m)[i] = Contents[i]
      /\ Append(Contents, m)[count + 1] = m
  BY <1>6, AppendProperties
<1>8. /\ \A i \in 1..count : Contents'[i] = Contents[i]
      /\ Contents'[count + 1] = m
  BY <1>0, <1>2, <1>3, <1>4, <1>5 DEF TypeOK
<1>9. Contents' \in [1..count + 1 -> Msg \cup {NULL}]
  BY <1>0, <1>2, <1>4 DEF TypeOK
<1>10. Contents' \in Seq(Msg \cup {NULL}) /\ Len(Contents') = count + 1
  BY <1>0, <1>9, SequenceOf
<1>11. \A i \in 1..count + 1 : Contents'[i] = Append(Contents, m)[i]
  BY <1>0, <1>7, <1>8
<1> QED  BY <1>7, <1>10, <1>11, SeqEqual

\* A fetch takes the first message.
LEMMA DequeueTakes ==
  ASSUME IndInv, TypeOK', count > 0, Dequeue
  PROVE  Contents # <<>> /\ data[head] = Head(Contents) /\ Contents' = Tail(Contents)
<1>0. TypeOK /\ ListWellFormed /\ count \in Nat
  BY DEF IndInv, TypeOK
<1>1. PICK q \in [1..count -> Node] : IsList(q)
  BY <1>0 DEF ListWellFormed
<1>2. PICK p \in [1..count' -> Node] :
        /\ p = [i \in 1..count - 1 |-> q[i + 1]]
        /\ IsList(p)'
        /\ count' = count - 1 /\ count' \in Nat
        /\ head = q[1] /\ head \in Node
        /\ \A i \in 1..count' : data'[p[i]] = data[p[i]]
  BY <1>0, <1>1, DequeueNodes
<1>3. Contents = [i \in 1..count |-> data[q[i]]]
  BY <1>0, <1>1, ContentsOf
<1>4. Contents' = [i \in 1..count' |-> data'[p[i]]]
  BY <1>2, ContentsOfNext DEF ContentsKnown
<1>5. Contents \in Seq(Msg \cup {NULL}) /\ Len(Contents) = count
  BY <1>0, ContentsTyped
<1>6. Contents # <<>>
  BY <1>0, <1>5
<1>7. /\ Tail(Contents) \in Seq(Msg \cup {NULL})
      /\ Len(Tail(Contents)) = count - 1
      /\ \A i \in 1..count - 1 : Tail(Contents)[i] = Contents[i + 1]
  BY <1>5, <1>6, HeadTailProperties
<1>8. Contents' \in [1..count - 1 -> Msg \cup {NULL}]
  BY <1>2, <1>4 DEF TypeOK
<1>9. Contents' \in Seq(Msg \cup {NULL}) /\ Len(Contents') = count - 1
  BY <1>2, <1>8, SequenceOf
<1>10. \A i \in 1..count - 1 : Contents'[i] = Tail(Contents)[i]
  BY <1>0, <1>2, <1>3, <1>4, <1>7
<1>11. Contents' = Tail(Contents)
  BY <1>7, <1>9, <1>10, SeqEqual
<1>12. data[head] = Head(Contents)
  BY <1>0, <1>2, <1>3, <1>5, <1>6
<1> QED  BY <1>6, <1>11, <1>12
-----------------------------------------------------------------------------
(* The invariant *)

\* Only sys_mbox_post, which has a message, makes a thread wait with one.
LEMMA FifoInvariance == Spec => []FifoInv
<1>1. Init => FifoInv
  BY InitHolds DEF Init, FifoInv, WaitingHasMessage
<1>2. ASSUME FifoInv, [Next]_vars PROVE FifoInv'
  <2>1. IndInv /\ IndInv' /\ TypeOK /\ WaitingHasMessage
    BY <1>2, StepKeeps DEF FifoInv, IndInv
  <2>2. CASE UNCHANGED <<pc, arg>>
    BY <2>1, <2>2 DEF FifoInv, WaitingHasMessage
  <2>3. ASSUME NEW t \in Thread, NEW m \in Msg \cup {NULL}, FinishPost(t, m)
        PROVE  WaitingHasMessage'
    <3>1. PICK W \in Wake(At("fetch_sleep")) : Move(t, "idle", W, "fetch_woken")
      BY <2>3 DEF FinishPost, WakeNonEmpty
    <3>2. arg' = [arg EXCEPT ![t] = NULL]
      BY <2>3 DEF FinishPost, Return
    <3> QED  BY <2>1, <3>1, <3>2 DEF WaitingHasMessage, Move, TypeOK
  <2>4. ASSUME NEW t \in Fetcher, FinishFetch(t)
        PROVE  WaitingHasMessage'
    <3>1. PICK W \in Wake(At("post_sleep")) : Move(t, "idle", W, "post_woken")
      BY <2>4 DEF FinishFetch, WakeNonFull
    <3>2. arg' = [arg EXCEPT ![t] = NULL]
      BY <2>4 DEF FinishFetch, Return
    <3>3. \A u \in W : u \in Thread /\ pc[u] = "post_sleep"
      BY <3>1 DEF Wake, At
    <3> QED  BY <2>1, <3>1, <3>2, <3>3 DEF WaitingHasMessage, Move, TypeOK, Thread
  <2>5. ASSUME NEW t \in Poster, Post(t) PROVE WaitingHasMessage'
    <3>0. t \in Thread /\ arg[t] \in Msg \cup {NULL}
      BY <2>1 DEF Thread, TypeOK
    <3>1. ASSUME NEW m \in Msg, sys_mbox_post(t, m) PROVE WaitingHasMessage'
      BY <2>1, <2>3, <3>0, <3>1 DEF sys_mbox_post, Sleep, WaitingHasMessage, TypeOK
    <3>2. ASSUME NEW m \in Msg, sys_mbox_trypost(t, m) PROVE WaitingHasMessage'
      BY <2>3, <3>0, <3>2 DEF sys_mbox_trypost
    <3>3. ASSUME sys_mbox_post_woken(t) PROVE WaitingHasMessage'
      BY <2>1, <2>3, <3>0, <3>3 DEF sys_mbox_post_woken, Sleep, call, WaitingHasMessage, TypeOK
    <3> QED  BY <2>5, <3>1, <3>2, <3>3 DEF Post
  <2>6. ASSUME NEW t \in Fetcher, Fetch(t) PROVE WaitingHasMessage'
    <3>0. t \in Thread
      BY DEF Thread
    <3>1. ASSUME NEW ms \in Timeouts, sys_arch_mbox_fetch(t, ms) PROVE WaitingHasMessage'
      BY <2>1, <2>4, <3>0, <3>1 DEF sys_arch_mbox_fetch, Sleep, WaitingHasMessage, TypeOK
    <3>2. ASSUME sys_arch_mbox_fetch_woken(t) PROVE WaitingHasMessage'
      BY <2>1, <2>4, <3>0, <3>2
         DEF sys_arch_mbox_fetch_woken, Sleep, FetchTimesOut, Return, call, WaitingHasMessage, TypeOK
    <3>3. ASSUME SleepExpires(t) PROVE WaitingHasMessage'
      BY <2>1, <3>0, <3>3 DEF SleepExpires, call, WaitingHasMessage, TypeOK
    <3> QED  BY <2>6, <3>1, <3>2, <3>3 DEF Fetch
  <2>7. ASSUME NEW t \in Thread, SpuriousWake(t) PROVE WaitingHasMessage'
    BY <2>1, <2>7 DEF SpuriousWake, call, WaitingHasMessage, TypeOK
  <2>8. CASE UNCHANGED vars \/ (\E s \in Sizes : sys_mbox_new(s)) \/ sys_mbox_free \/ Tick
    BY <2>2, <2>8 DEF vars, call, sys_mbox_new, sys_mbox_free, Tick
  <2> QED  BY <1>2, <2>1, <2>5, <2>6, <2>7, <2>8 DEF Next, FifoInv
<1> QED  BY <1>1, <1>2, PTL DEF Spec
-----------------------------------------------------------------------------
(* The refinement *)

\* A post is a Put of the buffer.
LEMMA PostPuts ==
  ASSUME FifoInv, FifoInv', valid, count < capacity, NEW t \in Thread, NEW m \in Msg, FinishPost(t, m)
  PROVE  Fifo!Put
<1>1. Contents' = Append(Contents, m)
  BY EnqueueAppends DEF FifoInv, IndInv, FinishPost
<1>2. Len(Contents) < capacity
  BY ContentsTyped DEF FifoInv, IndInv
<1>3. UNCHANGED <<valid, capacity, got>>
  BY DEF FinishPost, Enqueue
<1> QED  BY <1>1, <1>2, <1>3 DEF Fifo!Put

\* A fetch is a Take.
LEMMA FetchTakes ==
  ASSUME FifoInv, FifoInv', count > 0, NEW t \in Fetcher, FinishFetch(t)
  PROVE  Fifo!Take(t)
<1>1. Contents # <<>> /\ data[head] = Head(Contents) /\ Contents' = Tail(Contents)
  BY DequeueTakes DEF FifoInv, IndInv, FinishFetch
<1>2. UNCHANGED <<valid, capacity>> /\ got' = [got EXCEPT ![t] = data[head]]
  BY DEF FinishFetch, Dequeue
<1> QED  BY <1>1, <1>2 DEF Fifo!Take

\* What changes neither the list nor what was got is a stuttering step.
LEMMA QuietStutters ==
  ASSUME UNCHANGED <<valid, list, got>>
  PROVE  UNCHANGED Fifo!vars
BY SameContents DEF Fifo!vars, list

\* Each step of the mailbox is a step of the buffer or leaves it unchanged.
LEMMA StepIsFifoStep == FifoInv /\ FifoInv' /\ [Next]_vars => [Fifo!Next]_Fifo!vars
<1> SUFFICES ASSUME FifoInv, FifoInv', [Next]_vars PROVE [Fifo!Next]_Fifo!vars
  OBVIOUS
<1>0. TypeOK /\ ClosedIsIdle /\ WaitingHasMessage
  BY DEF FifoInv, IndInv
<1>1. CASE UNCHANGED <<valid, list, got>>
  BY <1>1, QuietStutters
<1>2. ASSUME NEW s \in Sizes, sys_mbox_new(s) PROVE Fifo!Open
  <2>1. Contents' = <<>>
    BY <1>2 DEF sys_mbox_new, Contents
  <2>2. CapacityOf(s) \in Nat \ {0}
    BY CapacityPositive, SizesAreInts DEF CapacityOf
  <2> QED  BY <1>2, <2>1, <2>2 DEF sys_mbox_new, Fifo!Open
<1>3. CASE sys_mbox_free
  <2>1. Contents' = <<>>
    BY <1>3 DEF sys_mbox_free, Contents
  <2> QED  BY <1>3, <2>1 DEF sys_mbox_free, Fifo!Next, Fifo!Close
<1>4. ASSUME NEW t \in Poster, Post(t) PROVE [Fifo!Next]_Fifo!vars
  <2>0. t \in Thread
    BY DEF Thread
  <2>1. ASSUME NEW m \in Msg, sys_mbox_post(t, m) PROVE [Fifo!Next]_Fifo!vars
    BY <1>1, <2>0, <2>1, PostPuts DEF sys_mbox_post, Fifo!Next
  <2>2. ASSUME NEW m \in Msg, sys_mbox_trypost(t, m) PROVE [Fifo!Next]_Fifo!vars
    BY <2>0, <2>2, PostPuts DEF sys_mbox_trypost, Fifo!Next
  <2>3. ASSUME sys_mbox_post_woken(t) PROVE [Fifo!Next]_Fifo!vars
    <3>1. valid /\ arg[t] \in Msg
      BY <1>0, <2>0, <2>3 DEF sys_mbox_post_woken, ClosedIsIdle, WaitingHasMessage
    <3> QED  BY <1>1, <2>0, <2>3, <3>1, PostPuts DEF sys_mbox_post_woken, Fifo!Next
  <2> QED  BY <1>4, <2>1, <2>2, <2>3 DEF Post
<1>5. ASSUME NEW t \in Fetcher, Fetch(t) PROVE [Fifo!Next]_Fifo!vars
  <2>1. ASSUME NEW ms \in Timeouts, sys_arch_mbox_fetch(t, ms) PROVE [Fifo!Next]_Fifo!vars
    <3>1. CASE count > 0 /\ FinishFetch(t)
      BY <3>1, FetchTakes DEF Fifo!Next
    <3>2. CASE got' = [got EXCEPT ![t] = NULL] /\ UNCHANGED <<valid, list>>
      BY <3>2, SameContents DEF Fifo!Next, Fifo!Forget, list
    <3> QED  BY <2>1, <3>1, <3>2 DEF sys_arch_mbox_fetch
  <2>2. ASSUME sys_arch_mbox_fetch_woken(t) PROVE [Fifo!Next]_Fifo!vars
    BY <1>1, <2>2, FetchTakes DEF sys_arch_mbox_fetch_woken, FetchTimesOut, Fifo!Next
  <2>3. ASSUME SleepExpires(t) PROVE [Fifo!Next]_Fifo!vars
    BY <1>1, <2>3 DEF SleepExpires
  <2> QED  BY <1>5, <2>1, <2>2, <2>3 DEF Fetch
<1>6. CASE UNCHANGED vars \/ (\E t \in Thread : SpuriousWake(t)) \/ Tick
  BY <1>1, <1>6 DEF vars, SpuriousWake, Tick
<1> QED  BY <1>2, <1>3, <1>4, <1>5, <1>6 DEF Next, Fifo!Next

\* Whatever threads post, fetch, sleep, wake up for no reason or run out of time,
\* the linked list of sys_arch.c behaves as a bounded first-in first-out buffer:
\* no message is lost, doubled or overtaken, and each is taken by one fetch.
THEOREM MailboxImplementsFifo == Spec => ImplementsFifo
<1>1. Init => Fifo!Init
  BY NoContents DEF Init, Fifo!Init
<1> QED  BY <1>1, FifoInvariance, StepIsFifoStep, PTL DEF Spec, ImplementsFifo, Fifo!Spec
=============================================================================
