-------------------------------- MODULE Pbuf --------------------------------
(***************************************************************************)
(* Packet buffers: core/pbuf.c, with the pools of core/memp.c it takes     *)
(* them from.  Pbufs form chains and count the references to them.         *)
(*                                                                         *)
(* Stack, the thread of the stack, builds chains and takes them apart; the *)
(* drivers allocate, reference, hand over and free.  Only the change of a  *)
(* reference count, memp_malloc and memp_free are protected: other threads *)
(* run between the pbufs that pbuf_alloc takes and pbuf_free gives back.   *)
(* What changes a chain is called on its first pbuf, as pbuf.c demands.    *)
(* Contents are left out (see PbufData), offsets are aligned ones.  A call *)
(* that fails before it changed anything is a step that changes nothing.   *)
(***************************************************************************)
EXTENDS Integers, FiniteSets

CONSTANTS Pbufs,                \* the memory for pbufs
          Stack, Drivers,
          PBUF_POOL_SIZE,       \* elements of MEMP_PBUF_POOL
          MEMP_NUM_PBUF,        \* elements of MEMP_PBUF
          PBUF_POOL_BUFSIZE,
          Lengths,              \* the lengths asked for
          NewLengths,           \* the lengths chains are cut to
          Layers,               \* the space for headers, by layer
          Increments,           \* the header sizes hidden and revealed
          CountModulus,         \* 256: pbuf_free counts in a u8_t
          MaxRef,               \* bound on a thread's references to a pbuf
          MaxCoalesced,         \* bound on the length of coalesced chains
          NULL

ASSUME PbufAssumption ==
  /\ PBUF_POOL_BUFSIZE \in Nat /\ Layers \subseteq 0..(PBUF_POOL_BUFSIZE - 1)
  /\ Lengths \subseteq Nat \ {0} /\ NewLengths \subseteq Nat /\ Increments \subseteq Int
  /\ CountModulus \in Nat \ {0} /\ Stack \notin Drivers
  /\ IsFiniteSet(Pbufs) /\ NULL \notin Pbufs

VARIABLES pbuf,                 \* what each pbuf holds, or NULL
          held,                 \* how many references each thread holds
          job,                  \* the loop a thread is in, or NULL
          ret                   \* the pbuf pbuf_dechain just returned

vars == <<pbuf, held, job, ret>>

Threads == Drivers \cup {Stack}
Live == {p \in Pbufs : pbuf[p] # NULL}
Smaller(a, b) == IF a < b THEN a ELSE b

Init == /\ pbuf = [p \in Pbufs |-> NULL]
        /\ held = [t \in Threads |-> [p \in Pbufs |-> 0]]
        /\ job = [t \in Threads |-> NULL]
        /\ ret = NULL
-----------------------------------------------------------------------------
\* The elements left in the pool of a type; the heap has the rest of Pbufs.
memp_tab(type) ==
  LET taken == Cardinality({p \in Live : pbuf[p].type = type})
  IN CASE type = "POOL" -> PBUF_POOL_SIZE - taken
       [] type = "REF" -> MEMP_NUM_PBUF - taken
       [] type = "RAM" -> Cardinality(Pbufs)

\* memp_malloc or mem_malloc of one pbuf: p is its result.
memp_malloc(type, p) == memp_tab(type) > 0 /\ p \notin Live

\* memp_free or mem_free of pbuf p.
memp_free(p) == [pbuf EXCEPT ![p] = NULL]

\* A pbuf of len bytes with tot_len to the end of its chain; offset is in front.
Fresh(type, len, tot_len, offset) ==
  [type |-> type, len |-> len, tot_len |-> tot_len, ref |-> 1, next |-> NULL, room |-> offset,
   size |-> IF type = "POOL" THEN PBUF_POOL_BUFSIZE ELSE offset + len]

\* Memory for last was taken, and rem_len bytes are still to come: pbuf_alloc
\* goes on, or returns the chain's first pbuf.
AllocTaken(t, p, last, rem_len) ==
  IF rem_len > 0
  THEN /\ job' = [job EXCEPT ![t] = [op |-> "alloc", p |-> p, last |-> last, rem_len |-> rem_len]]
       /\ UNCHANGED held
  ELSE /\ job' = [job EXCEPT ![t] = NULL]
       /\ held' = [held EXCEPT ![t][p] = 1]

\* The first pbuf: all of it for the heap and for references, and what one
\* buffer takes after the header space for the pool.
pbuf_alloc(t, offset, length, type) ==
  /\ job[t] = NULL
  /\ \E p \in Pbufs :
       /\ memp_malloc(type, p)
       /\ LET len == IF type = "POOL" THEN Smaller(length, PBUF_POOL_BUFSIZE - offset) ELSE length
              room == IF type = "REF" THEN 0 ELSE offset
          IN /\ pbuf' = [pbuf EXCEPT ![p] = Fresh(type, len, length, room)]
             /\ AllocTaken(t, p, p, length - len)
  /\ ret' = NULL

\* pbuf_free of p begins; tail is what pbuf_dechain will return if it is not
\* deallocated.
FreeBegins(t, p, tail) ==
  job' = [job EXCEPT ![t] = [op |-> "free", p |-> p, count |-> 0, tail |-> tail]]

\* One round of pbuf_alloc's loop: another buffer of the pool is linked behind
\* the last one, or the pool is empty and all is freed.
AllocNext(t) ==
  /\ job[t] # NULL /\ job[t].op = "alloc"
  /\ LET j == job[t] IN
     \/ /\ \A q \in Pbufs : ~memp_malloc("POOL", q)
        /\ FreeBegins(t, j.p, NULL)
        /\ UNCHANGED <<pbuf, held>>
     \/ \E q \in Pbufs :
          /\ memp_malloc("POOL", q)
          /\ LET len == Smaller(j.rem_len, PBUF_POOL_BUFSIZE)
             IN /\ pbuf' = [pbuf EXCEPT ![q] = Fresh("POOL", len, j.rem_len, 0),
                                        ![j.last].next = q]
                /\ AllocTaken(t, j.p, q, j.rem_len - len)
  /\ ret' = NULL
-----------------------------------------------------------------------------
pbuf_free(t, p) ==
  /\ job[t] = NULL /\ held[t][p] > 0
  /\ held' = [held EXCEPT ![t][p] = @ - 1]
  /\ FreeBegins(t, p, NULL)
  /\ ret' = NULL
  /\ UNCHANGED pbuf

\* One round of pbuf_free's loop.  A pbuf whose last reference is dropped is
\* deallocated, and the loop goes on with the next one.  Only pbuf_dechain uses
\* the count.
FreeNext(t) ==
  /\ job[t] # NULL /\ job[t].op = "free"
  /\ LET j == job[t]
         gone == pbuf[j.p].ref = 1
         count == IF gone /\ j.tail # NULL THEN (j.count + 1) % CountModulus ELSE j.count
         more == gone /\ pbuf[j.p].next # NULL
     IN /\ pbuf' = IF gone THEN memp_free(j.p) ELSE [pbuf EXCEPT ![j.p].ref = @ - 1]
        /\ job' = [job EXCEPT ![t] = IF more THEN [j EXCEPT !.p = pbuf[j.p].next, !.count = count]
                                     ELSE NULL]
        /\ ret' = IF ~more /\ count = 0 THEN j.tail ELSE NULL
  /\ UNCHANGED held
-----------------------------------------------------------------------------
\* The pbufs from p to the end of its chain.
Chain(p) ==
  LET from[n \in 0..Cardinality(Pbufs)] ==
        IF n = 0 THEN {p}
        ELSE from[n - 1] \cup ({pbuf[q].next : q \in from[n - 1] \cap Live} \ {NULL})
  IN from[Cardinality(Pbufs)]

\* Stack may change the chain that begins with p: it holds p, and no next
\* points to it.
OwnChain(p) == /\ job[Stack] = NULL /\ held[Stack][p] > 0
               /\ \A q \in Live : pbuf[q].next # p

\* A thread references a pbuf it holds; Stack also walks along its chains.
pbuf_ref(t, p) ==
  /\ job[t] = NULL /\ held[t][p] < MaxRef
  /\ held[t][p] > 0 \/ (t = Stack /\ \E q \in Pbufs : held[t][q] > 0 /\ p \in Chain(q))
  /\ pbuf' = [pbuf EXCEPT ![p].ref = @ + 1]
  /\ held' = [held EXCEPT ![t][p] = @ + 1]
  /\ ret' = NULL
  /\ UNCHANGED job

\* Mutant: only the first chain's own pbufs but the last get the new total.
CattedForgetsLast(h, t) ==
  [p \in Pbufs |->
     IF p \notin Chain(h) THEN pbuf[p]
     ELSE IF pbuf[p].next = NULL THEN [pbuf[p] EXCEPT !.next = t]
     ELSE [pbuf[p] EXCEPT !.tot_len = @ + pbuf[t].tot_len]]

\* t is linked behind the last pbuf of h, and all totals of h grow.
Catted(h, t) ==
  [p \in Pbufs |->
     IF p \notin Chain(h) THEN pbuf[p]
     ELSE [pbuf[p] EXCEPT !.tot_len = @ + pbuf[t].tot_len,
                          !.next = IF @ = NULL THEN t ELSE @]]

\* The caller's reference to t becomes that of the chain.
pbuf_cat(h, t) ==
  /\ OwnChain(h) /\ OwnChain(t) /\ h # t
  /\ pbuf' = Catted(h, t)
  /\ held' = [held EXCEPT ![Stack][t] = @ - 1]
  /\ ret' = NULL
  /\ UNCHANGED job

\* Mutant: the caller keeps its reference, but t is not referenced once more.
ChainUnreferenced(h, t) ==
  /\ OwnChain(h) /\ OwnChain(t) /\ h # t
  /\ pbuf' = Catted(h, t)
  /\ ret' = NULL
  /\ UNCHANGED <<held, job>>

\* The caller keeps its reference to t.
pbuf_chain(h, t) ==
  /\ OwnChain(h) /\ OwnChain(t) /\ h # t
  /\ pbuf' = [Catted(h, t) EXCEPT ![t].ref = @ + 1]
  /\ ret' = NULL
  /\ UNCHANGED <<held, job>>

\* The first pbuf is cut off, and the tail loses the reference from it.
pbuf_dechain(p) ==
  /\ OwnChain(p)
  /\ LET q == pbuf[p].next
     IN /\ q # NULL
        /\ pbuf' = [pbuf EXCEPT ![q].tot_len = pbuf[p].tot_len - pbuf[p].len,
                                ![p].next = NULL,
                                ![p].tot_len = pbuf[p].len]
        /\ FreeBegins(Stack, q, q)
  /\ ret' = NULL
  /\ UNCHANGED held

\* The walk over the pbufs that stay: the new last one, the bytes it keeps,
\* and the pbufs before it.
NewEnd(p, new_len) ==
  LET walk[n \in 0..Cardinality(Pbufs)] ==
        IF n = 0 THEN [q |-> p, rem_len |-> new_len, before |-> {}]
        ELSE LET w == walk[n - 1]
             IN IF w.rem_len > pbuf[w.q].len
                THEN [q |-> pbuf[w.q].next, rem_len |-> w.rem_len - pbuf[w.q].len,
                      before |-> w.before \cup {w.q}]
                ELSE w
  IN walk[Cardinality(Pbufs)]

\* The chain is shortened, never extended: totals shrink, memory of the heap
\* is trimmed, and the pbufs behind the new end are freed.
pbuf_realloc(p, new_len) ==
  /\ OwnChain(p) /\ new_len < pbuf[p].tot_len
  /\ LET end == NewEnd(p, new_len)
         grow == new_len - pbuf[p].tot_len
         tail == pbuf[end.q].next
     IN /\ pbuf' = [x \in Pbufs |->
                      IF x \in end.before THEN [pbuf[x] EXCEPT !.tot_len = @ + grow]
                      ELSE IF x # end.q THEN pbuf[x]
                      ELSE [pbuf[x] EXCEPT !.len = end.rem_len, !.tot_len = end.rem_len, !.next = NULL,
                                           !.size = IF pbuf[x].type = "RAM"
                                                    THEN pbuf[x].room + end.rem_len ELSE @]]
        /\ IF tail # NULL THEN FreeBegins(Stack, tail, NULL) ELSE UNCHANGED job
  /\ ret' = NULL
  /\ UNCHANGED held

\* The payload of the first pbuf moves to reveal or to hide a header.
pbuf_header(p, increment) ==
  /\ OwnChain(p) /\ increment # 0
  /\ increment < 0 => -increment <= pbuf[p].len
  /\ increment > 0 => pbuf[p].type \in {"RAM", "POOL"} /\ increment <= pbuf[p].room
  /\ pbuf' = [pbuf EXCEPT ![p].room = @ - increment,
                          ![p].len = @ + increment,
                          ![p].tot_len = @ + increment]
  /\ ret' = NULL
  /\ UNCHANGED <<held, job>>

\* The chain is copied to one pbuf of the heap, and freed.  With an empty pbuf at
\* its end pbuf_copy fails (see PbufData), an assertion too, and the program ends:
\* there is no such step.
pbuf_coalesce(p, offset) ==
  /\ OwnChain(p) /\ pbuf[p].next # NULL /\ pbuf[p].tot_len <= MaxCoalesced
  /\ \A x \in Chain(p) : pbuf[x].next = NULL => pbuf[x].len # 0
  /\ \E q \in Pbufs :
       /\ memp_malloc("RAM", q)
       /\ pbuf' = [pbuf EXCEPT ![q] = Fresh("RAM", pbuf[p].tot_len, pbuf[p].tot_len, offset)]
       /\ held' = [held EXCEPT ![Stack][p] = @ - 1, ![Stack][q] = 1]
  /\ FreeBegins(Stack, p, NULL)
  /\ ret' = NULL

\* A thread passes a pbuf and its reference on: received or sent packets.
HandOver(t, u, p) ==
  /\ t # u /\ job[t] = NULL /\ held[t][p] > 0 /\ held[u][p] < MaxRef
  /\ held' = [held EXCEPT ![t][p] = @ - 1, ![u][p] = @ + 1]
  /\ ret' = NULL
  /\ UNCHANGED <<pbuf, job>>

Alloc == \E t \in Threads, offset \in Layers, n \in Lengths, type \in {"POOL", "RAM", "REF"} :
           pbuf_alloc(t, offset, n, type)
References == \E t \in Threads, p \in Pbufs :
                \/ pbuf_ref(t, p)
                \/ pbuf_free(t, p)
                \/ \E u \in Threads : HandOver(t, u, p)
Chains == \E p \in Pbufs :
            \/ \E q \in Pbufs : pbuf_cat(p, q) \/ pbuf_chain(p, q)
            \/ pbuf_dechain(p)
            \/ \E n \in NewLengths : pbuf_realloc(p, n)
            \/ \E i \in Increments : pbuf_header(p, i)
            \/ \E offset \in Layers : pbuf_coalesce(p, offset)
Loops == \E t \in Threads : AllocNext(t) \/ FreeNext(t)

Next == Alloc \/ References \/ Chains \/ Loops
Spec == Init /\ [][Next]_vars
-----------------------------------------------------------------------------
\* Every field stays in its type: no length and no count is ever negative, so
\* no unsigned field wraps below zero.  That totals stay below 2^16 is up to the
\* callers, as pbuf_cat does not test it; the lengths here are small.
TypeOK ==
  /\ pbuf \in [Pbufs -> {NULL} \cup
       [type : {"POOL", "RAM", "REF"}, len : Nat, tot_len : Nat, ref : Nat,
        next : Pbufs \cup {NULL}, room : Int, size : Nat]]
  /\ held \in [Threads -> [Pbufs -> 0..MaxRef]]
  /\ ret \in Pbufs \cup {NULL}

\* The references of threads to p.
Refs(p) ==
  LET all[T \in SUBSET Threads] ==
        IF T = {} THEN 0
        ELSE LET t == CHOOSE t \in T : TRUE IN held[t][p] + all[T \ {t}]
  IN all[Threads]

\* "The reference counter of a pbuf equals the number of pointers that refer to
\* the pbuf": those of threads, of the pbuf before it, and of a pbuf_alloc or
\* pbuf_free at work on it, whatever the threads do in between.  And no memory is
\* lost, none used after it was freed: exactly the pbufs a thread can get at, by
\* its references and along chains, are allocated; so is the tail pbuf_dechain
\* returns, "remainder of the pbuf chain, or NULL if it was de-allocated".
MemoryAccounted ==
  /\ \A p \in Live : pbuf[p].ref = Refs(p)
                       + Cardinality({q \in Live : pbuf[q].next = p})
                       + Cardinality({t \in Threads : job[t] # NULL /\ job[t].p = p})
  /\ Live = UNION {Chain(p) : p \in {q \in Pbufs :
                \/ Refs(q) > 0
                \/ \E t \in Threads : job[t] # NULL /\ job[t].p = q}}
  /\ ret # NULL => ret \in Live

\* However chains are joined, cut and freed and headers hidden and revealed: the
\* total of a pbuf is its length and the total of the rest of its chain (at the
\* end of a chain pbuf_alloc is still at, it is what is left to allocate), no
\* unsigned field wraps below zero, and payloads stay in the memory of their pbuf.
LengthsAgree ==
  /\ TypeOK
  /\ \A p \in Live :
       LET left == {job[t].rem_len : t \in {u \in Threads :
                      job[u] # NULL /\ job[u].op = "alloc" /\ job[u].last = p}}
           giving_up == \E t \in Threads : job[t] # NULL /\ job[t].op = "free" /\ p \in Chain(job[t].p)
       IN IF pbuf[p].next # NULL THEN pbuf[p].tot_len = pbuf[p].len + pbuf[pbuf[p].next].tot_len
          ELSE \/ pbuf[p].tot_len = pbuf[p].len
               \/ left # {} /\ pbuf[p].tot_len - pbuf[p].len \in left
               \/ giving_up
  /\ \A p \in Live : pbuf[p].room >= 0 /\ pbuf[p].room + pbuf[p].len <= pbuf[p].size
=============================================================================
