------------------------------ MODULE SysMbox ------------------------------
(***************************************************************************)
(* The mailbox of cwrap/sys_arch.c (Windows branch, the one build_lwip.ps1 *)
(* compiles): a linked list guarded by a critical section, a condition     *)
(* variable for "not empty" and one for "not full".                        *)
(*                                                                         *)
(* Everything between EnterCriticalSection and either                      *)
(* LeaveCriticalSection or SleepConditionVariableCS is one atomic step;    *)
(* a sleeping thread that has been woken takes its next step when it has   *)
(* re-entered the critical section.                                        *)
(***************************************************************************)
EXTENDS Integers, Sequences, FiniteSets

CONSTANTS Poster,           \* threads that post
          Fetcher,          \* threads that fetch
          Msg,              \* the pointers that are posted
          Node,             \* list nodes malloc can return
          NULL,             \* no node, no message (a posted null pointer is a Msg)
          Sizes,            \* arguments of sys_mbox_new
          DefaultCapacity,  \* capacity when the argument is not positive (32)
          Timeouts,         \* timeout arguments of a fetch, in ms; 0 is "forever"
          MaxMs             \* bound: a longer wait is recorded as MaxMs

Thread == Poster \cup Fetcher

Capacities == {DefaultCapacity} \cup {s \in Sizes : s > 0}

ASSUME ThreadsFinite == IsFiniteSet(Thread)
ASSUME CapacityPositive == DefaultCapacity \in Nat \ {0}
ASSUME SizesAreInts == Sizes \subseteq Int
ASSUME TimesAreNats == Timeouts \subseteq Nat /\ MaxMs \in Nat
ASSUME NullIsNoObject == NULL \notin Msg /\ NULL \notin Node

VARIABLES
  valid,      \* *mbox is not NULL
  capacity, count, head, tail,   \* the fields of mbox_t
  heap,       \* nodes obtained from malloc and not yet freed
  next,       \* next[n] and
  data,       \* data[n]: the fields of node n
  pc,         \* where each thread is
  arg,        \* the message a blocked poster holds
  timeout,    \* the limit of a blocked fetch (0: none)
  waited,     \* ms a blocked thread has spent in its call, at most MaxMs
  got         \* *msg after the last fetch

list == <<capacity, count, head, tail, heap, next, data>>
call == <<arg, timeout, waited>>
vars == <<valid, list, pc, call, got>>

TypeOK == /\ valid \in BOOLEAN
          /\ capacity \in Capacities \cup {0}
          /\ count \in Nat
          /\ head \in Node \cup {NULL}
          /\ tail \in Node \cup {NULL}
          /\ heap \subseteq Node
          /\ next \in [Node -> Node \cup {NULL}]
          /\ data \in [Node -> Msg \cup {NULL}]
          /\ pc \in [Thread -> {"idle", "post_sleep", "post_woken",
                                "fetch_sleep", "fetch_woken"}]
          /\ arg \in [Thread -> Msg \cup {NULL}]
          /\ timeout \in [Thread -> Timeouts \cup {0}]
          /\ waited \in [Thread -> 0..MaxMs]
          /\ got \in [Fetcher -> Msg \cup {NULL}]

-----------------------------------------------------------------------------
At(where) == {t \in Thread : pc[t] = where}

\* WakeConditionVariable: one sleeper, the system's choice, or nobody.
Wake(sleepers) == IF sleepers = {} THEN {{}} ELSE {{t} : t \in sleepers}

\* Mutant: only a post to an empty mailbox wakes a fetcher.
WakeIfEmpty(sleepers) == IF count > 0 THEN {{}} ELSE Wake(sleepers)

WakeNonEmpty(sleepers) == Wake(sleepers)
WakeNonFull(sleepers) == Wake(sleepers)

\* t leaves for `where' while the threads of W wake up at `woken'.
Move(t, where, W, woken) ==
  pc' = [u \in Thread |-> IF u = t THEN where ELSE IF u \in W THEN woken ELSE pc[u]]

\* t goes to sleep on the condition variable `where'.
Sleep(t, where) == pc' = [pc EXCEPT ![t] = where]

\* t returns: what it had on its stack is gone.
Return(t) == /\ arg' = [arg EXCEPT ![t] = NULL]
             /\ timeout' = [timeout EXCEPT ![t] = 0]
             /\ waited' = [waited EXCEPT ![t] = 0]

\* Mutant: the node goes to the front of the list.
EnqueueFront(m) ==
  LET n == CHOOSE n \in Node : n \notin heap
  IN /\ heap' = heap \cup {n}
     /\ data' = [data EXCEPT ![n] = m]
     /\ next' = [next EXCEPT ![n] = head]
     /\ head' = n
     /\ tail' = IF tail = NULL THEN n ELSE tail
     /\ count' = count + 1
     /\ UNCHANGED capacity

\* Append a node for m; malloc returns some free node.
Enqueue(m) ==
  LET n == CHOOSE n \in Node : n \notin heap
  IN /\ heap' = heap \cup {n}
     /\ data' = [data EXCEPT ![n] = m]
     /\ next' = IF tail = NULL THEN [next EXCEPT ![n] = NULL]
                               ELSE [next EXCEPT ![n] = NULL, ![tail] = n]
     /\ head' = IF tail = NULL THEN n ELSE head
     /\ tail' = n
     /\ count' = count + 1
     /\ UNCHANGED capacity

\* free(): the contents of a freed node are gone.
FreeNodes(S) ==
  /\ heap' = heap \ S
  /\ next' = [n \in Node |-> IF n \in S THEN NULL ELSE next[n]]
  /\ data' = [n \in Node |-> IF n \in S THEN NULL ELSE data[n]]

Dequeue ==
  /\ head' = next[head]
  /\ tail' = IF next[head] = NULL THEN NULL ELSE tail
  /\ count' = count - 1
  /\ FreeNodes({head})
  /\ UNCHANGED capacity
-----------------------------------------------------------------------------
\* m->capacity = (size>0)?size:32
CapacityOf(size) == IF size > 0 THEN size ELSE DefaultCapacity

sys_mbox_new(size) ==
  /\ ~valid
  /\ valid' = TRUE
  /\ capacity' = CapacityOf(size)
  /\ count' = 0 /\ head' = NULL /\ tail' = NULL
  /\ UNCHANGED <<heap, next, data, pc, call, got>>

\* Frees every node, then the mailbox.  Its users call it when nobody is
\* inside a call on the mailbox: the code wakes no sleeper here.
sys_mbox_free ==
  /\ valid
  /\ \A t \in Thread : pc[t] = "idle"
  /\ valid' = FALSE
  /\ capacity' = 0 /\ count' = 0 /\ head' = NULL /\ tail' = NULL
  /\ FreeNodes(heap)
  /\ UNCHANGED <<pc, call, got>>

\* t, inside the critical section with room in the mailbox, posts m and leaves.
FinishPost(t, m) ==
  /\ heap # Node
  /\ Enqueue(m)
  /\ \E W \in WakeNonEmpty(At("fetch_sleep")) : Move(t, "idle", W, "fetch_woken")
  /\ Return(t)
  /\ UNCHANGED <<valid, got>>

\* Without a mailbox it returns at once.
sys_mbox_post(t, m) ==
  /\ pc[t] = "idle" /\ valid
  /\ \/ /\ count >= capacity
        /\ Sleep(t, "post_sleep")
        /\ arg' = [arg EXCEPT ![t] = m]
        /\ UNCHANGED <<valid, list, timeout, waited, got>>
     \/ /\ count < capacity
        /\ FinishPost(t, m)

\* Mutant: a woken poster does not look at the count again.
PostWithoutRecheck(t) ==
  /\ pc[t] = "post_woken"
  /\ FinishPost(t, arg[t])

\* The poster is back from SleepConditionVariableCS: the while test again.
sys_mbox_post_woken(t) ==
  /\ pc[t] = "post_woken"
  /\ \/ /\ count >= capacity
        /\ Sleep(t, "post_sleep")
        /\ UNCHANGED <<valid, list, call, got>>
     \/ /\ count < capacity
        /\ FinishPost(t, arg[t])

\* ERR_ARG without a mailbox and ERR_MEM when it is full change nothing.
sys_mbox_trypost(t, m) ==
  /\ pc[t] = "idle" /\ valid
  /\ count < capacity
  /\ FinishPost(t, m)
-----------------------------------------------------------------------------
\* t, inside the critical section of a mailbox that is not empty, takes the
\* oldest message and leaves.
FinishFetch(t) ==
  /\ got' = [got EXCEPT ![t] = data[head]]
  /\ Dequeue
  /\ \E W \in WakeNonFull(At("post_sleep")) : Move(t, "idle", W, "post_woken")
  /\ Return(t)
  /\ UNCHANGED valid

\* SYS_ARCH_TIMEOUT.
FetchTimesOut(t) ==
  /\ pc' = [pc EXCEPT ![t] = "idle"]
  /\ Return(t)
  /\ UNCHANGED <<valid, list, got>>

\* Without a mailbox it returns SYS_ARCH_TIMEOUT at once.
sys_arch_mbox_fetch(t, ms) ==
  /\ pc[t] = "idle" /\ valid
  /\ \/ /\ count = 0
        /\ Sleep(t, "fetch_sleep")
        /\ got' = [got EXCEPT ![t] = NULL]
        /\ timeout' = [timeout EXCEPT ![t] = ms]
        /\ UNCHANGED <<valid, list, arg, waited>>
     \/ /\ count > 0
        /\ FinishFetch(t)

\* Mutant: a fetch with a time limit also goes back to sleep.
FetchSleepsAgain(t) ==
  /\ pc[t] = "fetch_woken"
  /\ \/ /\ count = 0
        /\ Sleep(t, "fetch_sleep")
        /\ UNCHANGED <<valid, list, call, got>>
     \/ /\ count > 0
        /\ FinishFetch(t)

\* Back from SleepConditionVariableCS: a fetch without limit repeats the while
\* test, one with a limit leaves the loop whatever woke it.
sys_arch_mbox_fetch_woken(t) ==
  /\ pc[t] = "fetch_woken"
  /\ \/ /\ count = 0 /\ timeout[t] = 0
        /\ Sleep(t, "fetch_sleep")
        /\ UNCHANGED <<valid, list, call, got>>
     \/ /\ count = 0 /\ timeout[t] # 0
        /\ FetchTimesOut(t)
     \/ /\ count > 0
        /\ FinishFetch(t)
-----------------------------------------------------------------------------
\* SleepConditionVariableCS returns because the time limit has passed.
SleepExpires(t) ==
  /\ pc[t] = "fetch_sleep"
  /\ timeout[t] # 0 /\ waited[t] >= timeout[t]
  /\ pc' = [pc EXCEPT ![t] = "fetch_woken"]
  /\ UNCHANGED <<valid, list, call, got>>

\* SleepConditionVariableCS may also return for no reason.
SpuriousWake(t) ==
  /\ pc[t] \in {"post_sleep", "fetch_sleep"}
  /\ pc' = [pc EXCEPT ![t] = IF @ = "post_sleep" THEN "post_woken" ELSE "fetch_woken"]
  /\ UNCHANGED <<valid, list, call, got>>

\* One millisecond passes for every thread that is inside a call.
Tick ==
  /\ \E t \in Thread : pc[t] # "idle" /\ waited[t] < MaxMs
  /\ waited' = [t \in Thread |-> IF pc[t] # "idle" /\ waited[t] < MaxMs
                                 THEN waited[t] + 1 ELSE waited[t]]
  /\ UNCHANGED <<valid, list, pc, arg, timeout, got>>
-----------------------------------------------------------------------------
Init == /\ valid = FALSE
        /\ capacity = 0 /\ count = 0 /\ head = NULL /\ tail = NULL
        /\ heap = {}
        /\ next = [n \in Node |-> NULL]
        /\ data = [n \in Node |-> NULL]
        /\ pc = [t \in Thread |-> "idle"]
        /\ arg = [t \in Thread |-> NULL]
        /\ timeout = [t \in Thread |-> 0]
        /\ waited = [t \in Thread |-> 0]
        /\ got = [t \in Fetcher |-> NULL]

Post(t) == \/ \E m \in Msg : sys_mbox_post(t, m) \/ sys_mbox_trypost(t, m)
           \/ sys_mbox_post_woken(t)

Fetch(t) == \/ \E ms \in Timeouts : sys_arch_mbox_fetch(t, ms)
            \/ sys_arch_mbox_fetch_woken(t)
            \/ SleepExpires(t)

Next == \/ \E s \in Sizes : sys_mbox_new(s)
        \/ sys_mbox_free
        \/ \E t \in Poster : Post(t)
        \/ \E t \in Fetcher : Fetch(t)
        \/ \E t \in Thread : SpuriousWake(t)
        \/ Tick

Spec == Init /\ [][Next]_vars

\* The clock runs, sleeps end when their limit has passed, and the scheduler
\* lets every woken thread back into the critical section.
Fairness == /\ WF_vars(Tick)
            /\ \A t \in Poster : WF_vars(sys_mbox_post_woken(t))
            /\ \A t \in Fetcher : /\ WF_vars(sys_arch_mbox_fetch_woken(t))
                                  /\ WF_vars(SleepExpires(t))

FairSpec == Spec /\ Fairness
-----------------------------------------------------------------------------
\* q lists the nodes of the mailbox in order: head, tail, count and the next
\* pointers agree, and no other node is held.
IsList(q) ==
  /\ \A i, j \in 1..count : q[i] = q[j] => i = j
  /\ heap = {q[i] : i \in 1..count}
  /\ head = IF count = 0 THEN NULL ELSE q[1]
  /\ tail = IF count = 0 THEN NULL ELSE q[count]
  /\ \A i \in 1..count : next[q[i]] = IF i = count THEN NULL ELSE q[i + 1]

Nodes == CHOOSE q \in [1..count -> Node] : IsList(q)
Contents == [i \in 1..count |-> data[Nodes[i]]]

\* head, tail, count and the next pointers describe one list, and every node
\* obtained from malloc is in it.
ListWellFormed == \E q \in [1..count -> Node] : IsList(q)

\* However many posters were waiting for room when it appeared, the mailbox never
\* holds more messages than sys_mbox_new allowed; and its nodes always form one
\* list: none is leaked, shared or freed twice.
CapacityRespected == count <= capacity
MailboxConsistent == CapacityRespected /\ ListWellFormed

\* One WakeConditionVariable per post and per fetch is enough.  A fetcher sleeps
\* in a mailbox that has messages only while at least as many woken fetchers are
\* on their way to take them, and a poster beside room only while as many woken
\* posters are.
NoLostNonEmpty == At("fetch_sleep") # {} => count <= Cardinality(At("fetch_woken"))
NoLostNonFull ==
  At("post_sleep") # {} => capacity - count <= Cardinality(At("post_woken"))
NoLostWakeup == NoLostNonEmpty /\ NoLostNonFull

\* What threads see is a bounded first-in first-out buffer.
Fifo == INSTANCE BoundedFifo WITH open <- valid, cap <- capacity, buf <- Contents
ImplementsFifo == Fifo!Spec

\* A fetch with a time limit returns, also when other fetchers keep taking the
\* messages it is woken for; messages and sleeping fetchers do not stay together
\* for ever, and neither do room and sleeping posters.
WaitingEnds ==
  /\ \A t \in Fetcher : (pc[t] # "idle" /\ timeout[t] # 0) ~> (pc[t] = "idle")
  /\ (count > 0 /\ At("fetch_sleep") # {}) ~> (count = 0 \/ At("fetch_sleep") = {})
  /\ (count < capacity /\ At("post_sleep") # {}) ~> (count = capacity \/ At("post_sleep") = {})
=============================================================================
