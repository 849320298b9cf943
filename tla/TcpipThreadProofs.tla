------------------------- MODULE TcpipThreadProofs -------------------------
(***************************************************************************)
(* The messages of api/tcpip.c for any number of callers, pools of any     *)
(* size and a mailbox of any size: each message of a pool has one owner,   *)
(* and a call of pbuf_free_ooseq is queued exactly while its flag is set.  *)
(*                                                                         *)
(* Both properties count.  The invariant says the same in terms of who has *)
(* a message: somebody, and never two.                                     *)
(***************************************************************************)
EXTENDS TcpipThread, TimeoutListProofs

Pcs == {"idle", "queue", "unqueued", "post", "trypost", "sem"}
Posted == Messages \cup Callers

Typed ==
  /\ pool \in [Messages -> {NULL} \cup Types]
  /\ mbox \in Seq(Posted) /\ Len(mbox) <= TCPIP_MBOX_SIZE
  /\ pc \in [Callers -> Pcs]
  /\ msg \in [Callers -> Posted \cup {NULL}]
  /\ static \in [Callers -> ApiMsgs \cup {NULL}]
  /\ sem \in [Callers -> 0..1] /\ deferred \subseteq Callers
  /\ pending \in BOOLEAN
  /\ thread \in [at : {"fetch", "run", "handler", "free"}, msg : Posted \cup {NULL}]
  /\ next_timeout \in Seq(Entries({"h"}))
  /\ waited \in Nat

\* Who has message m: a caller that is to post it, the mailbox, or the thread.
Someone(m) ==
  (\E c \in Callers : msg[c] = m) \/ (\E i \in DOMAIN mbox : mbox[i] = m) \/ thread.msg = m

\* No two of them have it.
NotTwo(m) ==
  /\ \A c, d \in Callers : msg[c] = m /\ msg[d] = m => c = d
  /\ \A i, j \in DOMAIN mbox : mbox[i] = m /\ mbox[j] = m => i = j
  /\ \A c \in Callers, i \in DOMAIN mbox : ~(msg[c] = m /\ mbox[i] = m)
  /\ thread.msg = m => /\ \A c \in Callers : msg[c] # m
                       /\ \A i \in DOMAIN mbox : mbox[i] # m

\* A message of a pool that is allocated has one owner, one that is free none.
\* A static message belongs to the caller that made it, and to no other.
PoolOwned ==
  \A m \in Messages :
    /\ pool[m] = NULL => ~Someone(m)
    /\ pool[m] \notin {NULL, "CALLBACK_STATIC"} => Someone(m) /\ NotTwo(m)
    /\ pool[m] = "CALLBACK_STATIC" => /\ \E c \in Callers : static[c] = m
                                      /\ \A c \in Callers : msg[c] # m

StaticOwned ==
  /\ \A c \in Callers : static[c] # NULL => pool[static[c]] = "CALLBACK_STATIC"
  /\ \A c, d \in Callers : static[c] # NULL /\ static[c] = static[d] => c = d

\* A caller has a message exactly while it posts one, and only its own stack's.
CallersHold ==
  /\ \A c \in Callers : msg[c] # NULL <=> pc[c] \in {"post", "trypost"}
  /\ \A c \in Callers : msg[c] \in Callers => msg[c] = c /\ pc[c] = "post"
  /\ thread.at \in {"fetch", "handler"} <=> thread.msg = NULL

\* The message on the stack of a caller is in the mailbox, run or deferred
\* exactly while that caller waits for its semaphore, and it is there once.
StacksWaited ==
  \A c \in Callers :
    /\ pc[c] # "sem" => sem[c] = 0
    /\ InUse(c) <=> pc[c] = "sem" /\ sem[c] = 0
    /\ \A i, j \in DOMAIN mbox : mbox[i] = c /\ mbox[j] = c => i = j
    /\ (thread.at = "run" /\ thread.msg = c) \/ c \in deferred => \A i \in DOMAIN mbox : mbox[i] # c
    /\ ~(thread.at = "run" /\ thread.msg = c /\ c \in deferred)

\* A call of pbuf_free_ooseq is queued, or about to be; never two.
Queued(m) == pool[m] = "OOSEQ" /\ ~(thread.at = "free" /\ thread.msg = m)
About(c) == pc[c] \in {"queue", "unqueued"}

OneCall ==
  /\ pending <=> (\E m \in Messages : Queued(m)) \/ (\E c \in Callers : About(c))
  /\ \A m, n \in Messages : Queued(m) /\ Queued(n) => m = n
  /\ \A c, d \in Callers : About(c) /\ About(d) => c = d
  /\ \A m \in Messages, c \in Callers : ~(Queued(m) /\ About(c))

ThreadInv == Typed /\ PoolOwned /\ StaticOwned /\ CallersHold /\ StacksWaited /\ OneCall

\* Names are told apart from each other and from NULL.
LEMMA Distinct ==
  /\ NULL \notin Messages /\ NULL \notin Callers /\ NULL \notin Types
  /\ \A x \in Messages : x \notin Callers
  /\ InMsgs \subseteq Messages /\ ApiMsgs \subseteq Messages
  /\ TCPIP_MBOX_SIZE \in Nat \ {0} /\ Delays \subseteq Nat \ {0}
BY TcpipThreadAssumption DEF Messages

\* memp_malloc of a message that is then posted.
LEMMA AllocateKeeps ==
  ASSUME ThreadInv, NEW c \in Callers, NEW from, from \subseteq Messages,
         NEW type \in Types \ {"CALLBACK_STATIC"}, NEW post \in {"post", "trypost"},
         NEW failed,
         \/ pc[c] = "idle" /\ type # "OOSEQ" /\ failed = "idle"
         \/ pc[c] = "queue" /\ type = "OOSEQ" /\ failed = "unqueued",
         Allocate(c, from, type, post, failed),
         UNCHANGED <<mbox, static, sem, deferred, pending, thread, time>>
  PROVE  ThreadInv'
<1> USE Distinct DEF time, calls
<1>1. CASE \E m \in from :
             /\ pool[m] = NULL
             /\ pool' = [pool EXCEPT ![m] = type]
             /\ msg' = [msg EXCEPT ![c] = m]
             /\ pc' = [pc EXCEPT ![c] = post]
  <2>1. PICK m \in from : /\ pool[m] = NULL
                          /\ pool' = [pool EXCEPT ![m] = type]
                          /\ msg' = [msg EXCEPT ![c] = m]
                          /\ pc' = [pc EXCEPT ![c] = post]
    BY <1>1
  <2>2. m \in Messages /\ ~Someone(m) /\ msg[c] = NULL
    BY <2>1 DEF ThreadInv, PoolOwned, CallersHold
  <2>3. Typed'
    BY <2>1, <2>2 DEF ThreadInv, Typed, Types, Pcs, Posted
  <2>4. PoolOwned'
    BY <2>1, <2>2 DEF ThreadInv, Typed, PoolOwned, Someone, NotTwo
  <2>5. StaticOwned'
    BY <2>1, <2>2 DEF ThreadInv, Typed, StaticOwned, Types
  <2>6. CallersHold'
    BY <2>1, <2>2 DEF ThreadInv, Typed, CallersHold
  <2>7. StacksWaited'
    BY <2>1, <2>2 DEF ThreadInv, Typed, StacksWaited, InUse
  <2>8. OneCall'
    <3>1. \A n \in Messages : Queued(n)' <=> Queued(n) \/ (n = m /\ type = "OOSEQ")
      BY <2>1, <2>2 DEF ThreadInv, Typed, Queued, Someone, Types
    <3>2. \A d \in Callers : About(d)' <=> About(d) /\ d # c
      BY <2>1 DEF ThreadInv, Typed, About
    <3>3. About(c) <=> type = "OOSEQ"
      BY DEF About
    <3>4. ~Queued(m)
      BY <2>1 DEF Queued, Types
    <3> QED
      BY <2>2, <3>1, <3>2, <3>3, <3>4 DEF ThreadInv, OneCall
  <2> QED
    BY <2>3, <2>4, <2>5, <2>6, <2>7, <2>8 DEF ThreadInv
<1>2. CASE /\ \A m \in from : pool[m] # NULL
           /\ pc' = [pc EXCEPT ![c] = failed]
           /\ UNCHANGED <<pool, msg>>
  <2>1. Typed'
    BY <1>2 DEF ThreadInv, Typed, Pcs
  <2>2. PoolOwned' /\ StaticOwned'
    BY <1>2 DEF ThreadInv, PoolOwned, StaticOwned, Someone, NotTwo
  <2>3. CallersHold' /\ StacksWaited'
    BY <1>2 DEF ThreadInv, Typed, CallersHold, StacksWaited, InUse
  <2>4. OneCall'
    BY <1>2 DEF ThreadInv, Typed, OneCall, Queued, About
  <2> QED
    BY <2>1, <2>2, <2>3, <2>4 DEF ThreadInv
<1> QED
  BY <1>1, <1>2 DEF Allocate

\* The calls that allocate a message.
LEMMA AllocatingCalls ==
  ASSUME ThreadInv, NEW c \in Callers,
         \/ tcpip_input(c) \/ tcpip_callback_with_block(c) \/ tcpip_timeout(c)
         \/ tcpip_untimeout(c) \/ QueueCall(c)
  PROVE  ThreadInv'
<1> USE Distinct DEF Calls, Types, calls
<1>1. CASE tcpip_input(c)
  BY <1>1, AllocateKeeps DEF tcpip_input
<1>2. CASE tcpip_callback_with_block(c)
  <2>1. PICK post \in {"post", "trypost"} : Allocate(c, ApiMsgs, "CALLBACK", post, "idle")
    BY <1>2 DEF tcpip_callback_with_block
  <2> QED
    BY <1>2, <2>1, AllocateKeeps DEF tcpip_callback_with_block
<1>3. CASE tcpip_timeout(c)
  BY <1>3, AllocateKeeps DEF tcpip_timeout
<1>4. CASE tcpip_untimeout(c)
  BY <1>4, AllocateKeeps DEF tcpip_untimeout
<1>5. CASE QueueCall(c)
  BY <1>5, AllocateKeeps DEF QueueCall
<1> QED
  BY <1>1, <1>2, <1>3, <1>4, <1>5

\* pbuf_pool_is_empty sets the flag, and only the caller that does goes on.
LEMMA PoolIsEmptyKeeps ==
  ASSUME ThreadInv, NEW c \in Callers, pbuf_pool_is_empty(c)
  PROVE  ThreadInv'
<1> USE Distinct DEF time, calls, pbuf_pool_is_empty, Calls
<1>1. Typed'
  BY DEF ThreadInv, Typed, Pcs
<1>2. PoolOwned' /\ StaticOwned'
  BY DEF ThreadInv, PoolOwned, StaticOwned, Someone, NotTwo
<1>3. CallersHold' /\ StacksWaited'
  BY DEF ThreadInv, Typed, CallersHold, StacksWaited, InUse
<1>4. OneCall'
  <2>1. \A n \in Messages : Queued(n)' <=> Queued(n)
    BY DEF Queued
  <2>2. \A d \in Callers : About(d)' <=> About(d) \/ (d = c /\ ~pending)
    BY DEF ThreadInv, Typed, About
  <2>3. pending'
    OBVIOUS
  <2> QED
    BY <2>1, <2>2, <2>3 DEF ThreadInv, OneCall, Typed
<1> QED
  BY <1>1, <1>2, <1>3, <1>4 DEF ThreadInv

\* The flag is taken back when the call could not be queued.
LEMMA NotQueuedKeeps ==
  ASSUME ThreadInv, NEW c \in Callers, NotQueued(c)
  PROVE  ThreadInv'
<1> USE Distinct DEF time, calls, NotQueued
<1>1. Typed'
  BY DEF ThreadInv, Typed, Pcs
<1>2. PoolOwned' /\ StaticOwned'
  BY DEF ThreadInv, PoolOwned, StaticOwned, Someone, NotTwo
<1>3. CallersHold' /\ StacksWaited'
  BY DEF ThreadInv, Typed, CallersHold, StacksWaited, InUse
<1>4. OneCall'
  <2>1. \A n \in Messages : Queued(n)' <=> Queued(n)
    BY DEF Queued
  <2>2. \A d \in Callers : About(d)' <=> About(d) /\ d # c
    BY DEF ThreadInv, Typed, About
  <2>3. ~pending' /\ About(c)
    BY DEF About
  <2> QED
    BY <2>1, <2>2, <2>3 DEF ThreadInv, OneCall
<1> QED
  BY <1>1, <1>2, <1>3, <1>4 DEF ThreadInv

\* A caller makes the message on its stack, and one returns from its wait.
LEMMA StackCallsKeep ==
  ASSUME ThreadInv, NEW c \in Callers, tcpip_apimsg(c) \/ sys_arch_sem_wait(c)
  PROVE  ThreadInv'
<1> USE Distinct DEF time, calls, Calls
<1>1. CASE tcpip_apimsg(c)
  <2> USE <1>1 DEF tcpip_apimsg
  <2>1. Typed'
    BY DEF ThreadInv, Typed, Pcs, Posted
  <2>2. PoolOwned'
    BY DEF ThreadInv, Typed, PoolOwned, CallersHold, Someone, NotTwo
  <2>3. CallersHold' /\ StacksWaited' /\ StaticOwned'
    BY DEF ThreadInv, Typed, CallersHold, StacksWaited, InUse, StaticOwned
  <2>4. OneCall'
    <3>1. \A n \in Messages : Queued(n)' <=> Queued(n)
      BY DEF Queued
    <3>2. \A d \in Callers : About(d)' <=> About(d)
      BY DEF ThreadInv, Typed, About
    <3> QED
      BY <3>1, <3>2 DEF ThreadInv, OneCall
  <2> QED
    BY <2>1, <2>2, <2>3, <2>4 DEF ThreadInv
<1>2. CASE sys_arch_sem_wait(c)
  <2> USE <1>2 DEF sys_arch_sem_wait
  <2>0. sem[c] = 1 /\ sem' = [sem EXCEPT ![c] = 0]
    <3>1. sem[c] \in 0..1 /\ sem[c] > 0
      BY DEF ThreadInv, Typed
    <3>2. sem[c] = 1
      BY <3>1
    <3> QED
      BY <3>2
  <2>1. Typed'
    BY <2>0 DEF ThreadInv, Typed, Pcs
  <2>2. PoolOwned' /\ StaticOwned'
    BY DEF ThreadInv, PoolOwned, StaticOwned, Someone, NotTwo
  <2>3. CallersHold' /\ StacksWaited'
    BY <2>0 DEF ThreadInv, Typed, CallersHold, StacksWaited, InUse
  <2>4. OneCall'
    <3>1. \A n \in Messages : Queued(n)' <=> Queued(n)
      BY DEF Queued
    <3>2. \A d \in Callers : About(d)' <=> About(d)
      BY DEF ThreadInv, Typed, About
    <3> QED
      BY <3>1, <3>2 DEF ThreadInv, OneCall
  <2> QED
    BY <2>1, <2>2, <2>3, <2>4 DEF ThreadInv
<1> QED
  BY <1>1, <1>2
-----------------------------------------------------------------------------
(* The mailbox *)

\* A message is put behind the others.
LEMMA AppendIs ==
  ASSUME Typed, NEW m \in Posted
  PROVE  /\ Append(mbox, m) \in Seq(Posted)
         /\ Len(Append(mbox, m)) = Len(mbox) + 1
         /\ DOMAIN mbox = 1..Len(mbox) /\ Len(mbox) \in Nat
         /\ DOMAIN Append(mbox, m) = 1..Len(mbox) + 1
         /\ \A i \in 1..Len(mbox) : Append(mbox, m)[i] = mbox[i]
         /\ Append(mbox, m)[Len(mbox) + 1] = m
BY DEF Typed

\* The first one is taken out.
LEMMA TailIs ==
  ASSUME Typed, mbox # <<>>
  PROVE  /\ Head(mbox) = mbox[1] /\ mbox[1] \in Posted
         /\ Tail(mbox) \in Seq(Posted)
         /\ Len(Tail(mbox)) = Len(mbox) - 1
         /\ DOMAIN mbox = 1..Len(mbox) /\ Len(mbox) \in Nat \ {0}
         /\ DOMAIN Tail(mbox) = 1..Len(mbox) - 1
         /\ \A i \in 1..Len(mbox) - 1 : Tail(mbox)[i] = mbox[i + 1]
BY DEF Typed

\* Caller c hands message msg[c] to the mailbox: its owner changes.
LEMMA PostKeeps ==
  ASSUME ThreadInv, NEW c \in Callers, NEW next,
         \/ pc[c] = "post" /\ next = IF msg[c] = c THEN "sem" ELSE "idle"
         \/ pc[c] = "trypost" /\ next = "idle",
         Len(mbox) < TCPIP_MBOX_SIZE,
         mbox' = Append(mbox, msg[c]),
         msg' = [msg EXCEPT ![c] = NULL],
         pc' = [pc EXCEPT ![c] = next],
         UNCHANGED <<pool, static, sem, deferred, pending, thread, time>>
  PROVE  ThreadInv'
<1> USE Distinct DEF time, calls
<1>1. msg[c] \in Posted /\ msg[c] # NULL /\ (msg[c] \in Callers => msg[c] = c /\ pc[c] = "post")
  BY DEF ThreadInv, Typed, CallersHold
<1>2. /\ mbox' \in Seq(Posted) /\ Len(mbox') = Len(mbox) + 1
      /\ DOMAIN mbox = 1..Len(mbox) /\ Len(mbox) \in Nat
      /\ DOMAIN mbox' = 1..Len(mbox) + 1
      /\ \A i \in 1..Len(mbox) : mbox'[i] = mbox[i]
      /\ mbox'[Len(mbox) + 1] = msg[c]
  BY <1>1, AppendIs DEF ThreadInv
<1>3. \A i \in DOMAIN mbox' : \/ i \in DOMAIN mbox /\ mbox'[i] = mbox[i]
                              \/ i = Len(mbox) + 1 /\ mbox'[i] = msg[c]
  BY <1>2
<1>4. Typed'
  BY <1>2 DEF ThreadInv, Typed, Pcs
<1>5. PoolOwned'
  <2> SUFFICES ASSUME NEW m \in Messages
               PROVE  /\ pool[m] = NULL => ~Someone(m)'
                      /\ pool[m] \notin {NULL, "CALLBACK_STATIC"} => Someone(m)' /\ NotTwo(m)'
                      /\ pool[m] = "CALLBACK_STATIC" => /\ \E d \in Callers : static[d] = m
                                                        /\ \A d \in Callers : msg'[d] # m
    BY DEF PoolOwned
  <2>1. \A d \in Callers : msg'[d] = m <=> msg[d] = m /\ d # c
    BY DEF ThreadInv, Typed
  <2>2. Someone(m)' <=> Someone(m)
    BY <1>2, <1>3, <2>1 DEF Someone
  <2>3. NotTwo(m) => NotTwo(m)'
    BY <1>2, <1>3, <2>1 DEF NotTwo
  <2> QED
    BY <2>1, <2>2, <2>3 DEF ThreadInv, PoolOwned
<1>6. StaticOwned'
  BY DEF ThreadInv, StaticOwned
<1>7. CallersHold'
  BY <1>1 DEF ThreadInv, Typed, CallersHold
<1>8. StacksWaited'
  BY <1>1, <1>2, <1>3 DEF ThreadInv, Typed, StacksWaited, InUse
<1>9. OneCall'
  <2>1. \A n \in Messages : Queued(n)' <=> Queued(n)
    BY DEF Queued
  <2>2. \A d \in Callers : About(d)' <=> About(d)
    BY DEF ThreadInv, Typed, About
  <2> QED
    BY <2>1, <2>2 DEF ThreadInv, OneCall
<1> QED
  BY <1>4, <1>5, <1>6, <1>7, <1>8, <1>9 DEF ThreadInv

\* The mailbox is full: sys_mbox_trypost fails, and the caller frees its message.
LEMMA FullKeeps ==
  ASSUME ThreadInv, NEW c \in Callers, pc[c] = "trypost",
         pool' = [pool EXCEPT ![msg[c]] = NULL],
         pc' = [pc EXCEPT ![c] = IF pool[msg[c]] = "OOSEQ" THEN "unqueued" ELSE "idle"],
         msg' = [msg EXCEPT ![c] = NULL],
         UNCHANGED <<mbox, static, sem, deferred, pending, thread, time>>
  PROVE  ThreadInv'
<1> USE Distinct DEF time, calls
<1>1. PICK m \in Messages : m = msg[c]
  BY DEF ThreadInv, Typed, CallersHold, Posted
<1>2. pool[m] # NULL /\ pool[m] # "CALLBACK_STATIC" /\ NotTwo(m)
  BY <1>1 DEF ThreadInv, PoolOwned, Someone, Typed, Types
<1>3. \A d \in Callers : msg[d] = m <=> d = c
  BY <1>1, <1>2 DEF NotTwo
<1>4. (\A i \in DOMAIN mbox : mbox[i] # m) /\ thread.msg # m
  BY <1>1, <1>2 DEF NotTwo
<1>5. \A d \in Callers : msg'[d] = IF d = c THEN NULL ELSE msg[d]
  BY DEF ThreadInv, Typed
<1>6. pool' = [pool EXCEPT ![m] = NULL]
  BY <1>1
<1>7. Typed'
  BY <1>1, <1>6 DEF ThreadInv, Typed, Pcs
<1>8. PoolOwned'
  <2>1. ~Someone(m)' /\ pool'[m] = NULL
    BY <1>1, <1>3, <1>4, <1>5, <1>6 DEF Someone, ThreadInv, Typed
  <2>2. ASSUME NEW n \in Messages, n # m
        PROVE  /\ pool'[n] = pool[n]
               /\ \A d \in Callers : msg'[d] = n <=> msg[d] = n
               /\ Someone(n)' <=> Someone(n)
               /\ NotTwo(n) => NotTwo(n)'
    <3>1. \A d \in Callers : msg'[d] = n <=> msg[d] = n
      BY <1>1, <1>5, <2>2
    <3>2. pool'[n] = pool[n]
      BY <1>6, <2>2 DEF ThreadInv, Typed
    <3> QED
      BY <3>1, <3>2 DEF Someone, NotTwo
  <2> QED
    BY <1>1, <2>1, <2>2 DEF ThreadInv, PoolOwned, Types
<1>9. StaticOwned'
  BY <1>1, <1>2, <1>6 DEF ThreadInv, Typed, StaticOwned
<1>10. CallersHold' /\ StacksWaited'
  BY <1>5 DEF ThreadInv, Typed, CallersHold, StacksWaited, InUse
<1>11. OneCall'
  <2>1. \A n \in Messages : Queued(n)' <=> Queued(n) /\ n # m
    BY <1>1, <1>6 DEF Queued, ThreadInv, Typed, Types
  <2>2. \A d \in Callers : About(d)' <=> About(d) \/ (d = c /\ pool[m] = "OOSEQ")
    BY <1>1 DEF ThreadInv, Typed, About
  <2>3. Queued(m) <=> pool[m] = "OOSEQ"
    BY <1>4 DEF Queued
  <2> QED
    BY <1>1, <2>1, <2>2, <2>3 DEF ThreadInv, OneCall
<1> QED
  BY <1>7, <1>8, <1>9, <1>10, <1>11 DEF ThreadInv

\* sys_mbox_post and sys_mbox_trypost.
LEMMA PostsKeep ==
  ASSUME ThreadInv, NEW c \in Callers, sys_mbox_post(c) \/ sys_mbox_trypost(c)
  PROVE  ThreadInv'
<1> USE DEF calls
<1>1. CASE sys_mbox_post(c)
  BY <1>1, PostKeeps DEF sys_mbox_post
<1>2. CASE sys_mbox_trypost(c)
  <2>1. CASE Len(mbox) < TCPIP_MBOX_SIZE /\ mbox' = Append(mbox, msg[c])
             /\ pc' = [pc EXCEPT ![c] = "idle"] /\ UNCHANGED pool
    BY <1>2, <2>1, PostKeeps DEF sys_mbox_trypost
  <2>2. CASE /\ pool' = [pool EXCEPT ![msg[c]] = NULL]
             /\ pc' = [pc EXCEPT ![c] = IF pool[msg[c]] = "OOSEQ" THEN "unqueued" ELSE "idle"]
             /\ UNCHANGED mbox
    BY <1>2, <2>2, FullKeeps DEF sys_mbox_trypost
  <2> QED
    BY <1>2, <2>1, <2>2 DEF sys_mbox_trypost
<1> QED
  BY <1>1, <1>2
-----------------------------------------------------------------------------
(* Static messages *)

\* tcpip_callbackmsg_new: a free message becomes the caller's.
LEMMA StaticNewKeeps ==
  ASSUME ThreadInv, NEW c \in Callers, tcpip_callbackmsg_new(c)
  PROVE  ThreadInv'
<1> USE Distinct DEF time, calls
<1>1. PICK m \in ApiMsgs : /\ pool[m] = NULL
                           /\ pool' = [pool EXCEPT ![m] = "CALLBACK_STATIC"]
                           /\ static' = [static EXCEPT ![c] = m]
  BY DEF tcpip_callbackmsg_new
<1>2. static[c] = NULL /\ UNCHANGED <<mbox, pc, msg, sem, deferred, pending, thread, time>>
  BY DEF tcpip_callbackmsg_new
<1>3. m \in Messages /\ ~Someone(m)
  BY <1>1 DEF ThreadInv, PoolOwned
<1>4. \A d \in Callers : static[d] # m
  BY <1>1, <1>3 DEF ThreadInv, StaticOwned, Types
<1>5. Typed'
  BY <1>1, <1>2, <1>3 DEF ThreadInv, Typed, Types
<1>6. PoolOwned'
  <2>1. ASSUME NEW n \in Messages, n # m
        PROVE  /\ pool'[n] = pool[n]
               /\ \A d \in Callers : static[d] = n => static'[d] = n
    BY <1>1, <1>2, <1>3, <2>1 DEF ThreadInv, Typed
  <2>2. \A n \in Messages : (Someone(n)' <=> Someone(n)) /\ (NotTwo(n)' <=> NotTwo(n))
    BY <1>2 DEF Someone, NotTwo
  <2>3. \A d \in Callers : msg'[d] # m
    BY <1>2, <1>3 DEF Someone
  <2>4. static'[c] = m /\ pool'[m] = "CALLBACK_STATIC"
    BY <1>1, <1>3 DEF ThreadInv, Typed
  <2> QED
    BY <1>2, <2>1, <2>2, <2>3, <2>4 DEF ThreadInv, PoolOwned, Types
<1>7. StaticOwned'
  BY <1>1, <1>3, <1>4 DEF ThreadInv, Typed, StaticOwned, Types
<1>8. CallersHold' /\ StacksWaited'
  BY <1>2 DEF ThreadInv, CallersHold, StacksWaited, InUse
<1>9. OneCall'
  <2>1. \A n \in Messages : Queued(n)' <=> Queued(n)
    BY <1>1, <1>2, <1>3 DEF Queued, ThreadInv, Typed, Types
  <2>2. \A d \in Callers : About(d)' <=> About(d)
    BY <1>2 DEF About
  <2> QED
    BY <1>2, <2>1, <2>2 DEF ThreadInv, OneCall
<1> QED
  BY <1>5, <1>6, <1>7, <1>8, <1>9 DEF ThreadInv

\* tcpip_trycallback posts it once more.
LEMMA TrycallbackKeeps ==
  ASSUME ThreadInv, NEW c \in Callers, tcpip_trycallback(c)
  PROVE  ThreadInv'
<1> USE Distinct DEF time, calls, callers
<1>0. /\ static[c] # NULL /\ mbox' = Append(mbox, static[c]) /\ Len(mbox) < TCPIP_MBOX_SIZE
      /\ UNCHANGED <<pool, pc, msg, static, sem, deferred, pending, thread, next_timeout, waited>>
  BY DEF tcpip_trycallback
<1>1. PICK m \in Messages : m = static[c]
  BY <1>0 DEF ThreadInv, Typed
<1>2. pool[m] = "CALLBACK_STATIC"
  BY <1>0, <1>1 DEF ThreadInv, StaticOwned
<1>3. /\ mbox' \in Seq(Posted) /\ Len(mbox') = Len(mbox) + 1
      /\ DOMAIN mbox = 1..Len(mbox) /\ Len(mbox) \in Nat
      /\ DOMAIN mbox' = 1..Len(mbox) + 1
      /\ \A i \in 1..Len(mbox) : mbox'[i] = mbox[i]
      /\ mbox'[Len(mbox) + 1] = m
  BY <1>0, <1>1, AppendIs DEF ThreadInv, Posted
<1>4. \A i \in DOMAIN mbox' : \/ i \in DOMAIN mbox /\ mbox'[i] = mbox[i]
                              \/ i = Len(mbox) + 1 /\ mbox'[i] = m
  BY <1>3
<1>5. Typed'
  BY <1>0, <1>3 DEF ThreadInv, Typed
<1>6. PoolOwned'
  <2>1. ASSUME NEW n \in Messages, n # m
        PROVE  (Someone(n)' <=> Someone(n)) /\ (NotTwo(n) => NotTwo(n)')
    <3>1. Someone(n)' <=> Someone(n)
      BY <1>0, <1>3, <1>4, <2>1 DEF Someone
    <3>2. NotTwo(n) => NotTwo(n)'
      BY <1>0, <1>3, <1>4, <2>1 DEF NotTwo
    <3> QED
      BY <3>1, <3>2
  <2> QED
    BY <1>0, <1>2, <2>1 DEF ThreadInv, PoolOwned, Types
<1>7. StaticOwned' /\ CallersHold'
  BY <1>0 DEF ThreadInv, StaticOwned, CallersHold
<1>8. StacksWaited'
  BY <1>0, <1>3, <1>4 DEF ThreadInv, StacksWaited, InUse
<1>9. OneCall'
  BY <1>0 DEF ThreadInv, OneCall, Queued, About
<1> QED
  BY <1>5, <1>6, <1>7, <1>8, <1>9 DEF ThreadInv

\* tcpip_callbackmsg_delete, while the message is not posted.
LEMMA StaticDeleteKeeps ==
  ASSUME ThreadInv, NEW c \in Callers, tcpip_callbackmsg_delete(c)
  PROVE  ThreadInv'
<1> USE Distinct DEF time, calls
<1>0. /\ static[c] # NULL /\ static[c] # thread.msg
      /\ \A i \in DOMAIN mbox : mbox[i] # static[c]
      /\ pool' = [pool EXCEPT ![static[c]] = NULL]
      /\ static' = [static EXCEPT ![c] = NULL]
      /\ UNCHANGED <<mbox, pc, msg, sem, deferred, pending, thread, time>>
  BY DEF tcpip_callbackmsg_delete
<1>1. PICK m \in Messages : m = static[c]
  BY <1>0 DEF ThreadInv, Typed
<1>2. pool[m] = "CALLBACK_STATIC" /\ \A d \in Callers : static[d] = m <=> d = c
  BY <1>0, <1>1 DEF ThreadInv, StaticOwned
<1>3. ~Someone(m)
  BY <1>0, <1>1, <1>2 DEF ThreadInv, PoolOwned, Someone
<1>4. Typed'
  BY <1>0, <1>1 DEF ThreadInv, Typed
<1>5. PoolOwned'
  <2>1. ASSUME NEW n \in Messages, n # m
        PROVE  /\ pool'[n] = pool[n]
               /\ \A d \in Callers : static[d] = n => static'[d] = n
    BY <1>0, <1>1, <2>1 DEF ThreadInv, Typed
  <2>2. \A n \in Messages : (Someone(n)' <=> Someone(n)) /\ (NotTwo(n)' <=> NotTwo(n))
    BY <1>0 DEF Someone, NotTwo
  <2>3. pool'[m] = NULL
    BY <1>0, <1>1 DEF ThreadInv, Typed
  <2> QED
    BY <1>0, <1>3, <2>1, <2>2, <2>3 DEF ThreadInv, PoolOwned, Types
<1>6. StaticOwned'
  BY <1>0, <1>1, <1>2 DEF ThreadInv, Typed, StaticOwned, Types
<1>7. CallersHold' /\ StacksWaited'
  BY <1>0 DEF ThreadInv, CallersHold, StacksWaited, InUse
<1>8. OneCall'
  <2>1. \A n \in Messages : Queued(n)' <=> Queued(n)
    BY <1>0, <1>1, <1>2 DEF Queued, ThreadInv, Typed, Types
  <2>2. \A d \in Callers : About(d)' <=> About(d)
    BY <1>0 DEF About
  <2> QED
    BY <1>0, <2>1, <2>2 DEF ThreadInv, OneCall
<1> QED
  BY <1>4, <1>5, <1>6, <1>7, <1>8 DEF ThreadInv
-----------------------------------------------------------------------------
(* The thread *)

\* The thread takes the first message: its owner changes.
LEMMA FetchMessageKeeps ==
  ASSUME ThreadInv, FetchMessage
  PROVE  ThreadInv'
<1> USE Distinct DEF calls, callers
<1>0. /\ thread.at = "fetch" /\ mbox # <<>>
      /\ thread' = [at |-> "run", msg |-> Head(mbox)] /\ mbox' = Tail(mbox) /\ waited' = 0
      /\ UNCHANGED <<pool, pc, msg, static, sem, deferred, pending, next_timeout>>
  BY DEF FetchMessage
<1>1. /\ Head(mbox) = mbox[1] /\ mbox[1] \in Posted
      /\ mbox' \in Seq(Posted) /\ Len(mbox') = Len(mbox) - 1
      /\ DOMAIN mbox = 1..Len(mbox) /\ Len(mbox) \in Nat \ {0}
      /\ DOMAIN mbox' = 1..Len(mbox) - 1
      /\ \A i \in 1..Len(mbox) - 1 : mbox'[i] = mbox[i + 1]
  BY <1>0, TailIs DEF ThreadInv
<1>2. thread.msg = NULL
  BY <1>0 DEF ThreadInv, CallersHold
<1>3. PICK first \in Posted : first = mbox[1] /\ thread'.msg = first /\ thread'.at = "run"
  BY <1>0, <1>1
<1>4. /\ \A i \in DOMAIN mbox' : i + 1 \in DOMAIN mbox /\ mbox'[i] = mbox[i + 1] /\ i + 1 # 1
      /\ \A i \in DOMAIN mbox : i = 1 \/ (i - 1 \in DOMAIN mbox' /\ mbox'[i - 1] = mbox[i])
      /\ 1 \in DOMAIN mbox
  BY <1>1
<1>5. Typed'
  BY <1>0, <1>1 DEF ThreadInv, Typed
<1>6. PoolOwned'
  <2>1. ASSUME NEW m \in Messages
        PROVE  Someone(m)' <=> Someone(m)
    <3>1. CASE m = first
      BY <1>3, <1>4, <3>1 DEF Someone
    <3>2. CASE m # first
      <4>1. (\E i \in DOMAIN mbox' : mbox'[i] = m) <=> (\E i \in DOMAIN mbox : mbox[i] = m)
        BY <1>3, <1>4, <3>2
      <4>2. thread.msg # m /\ thread'.msg # m
        BY <1>2, <1>3, <3>2
      <4> QED
        BY <1>0, <4>1, <4>2 DEF Someone
    <3> QED
      BY <3>1, <3>2
  <2>2. ASSUME NEW m \in Messages, NotTwo(m)
        PROVE  NotTwo(m)'
    <3>1. \A i, j \in DOMAIN mbox' : mbox'[i] = m /\ mbox'[j] = m => i = j
      <4> SUFFICES ASSUME NEW i \in DOMAIN mbox', NEW j \in DOMAIN mbox', mbox'[i] = m, mbox'[j] = m
                   PROVE  i = j
        OBVIOUS
      <4>1. i + 1 = j + 1
        BY <1>4, <2>2 DEF NotTwo
      <4> QED
        BY <4>1, <1>1
    <3>2. \A d \in Callers, i \in DOMAIN mbox' : ~(msg'[d] = m /\ mbox'[i] = m)
      BY <1>0, <1>4, <2>2 DEF NotTwo
    <3>3. ASSUME thread'.msg = m
          PROVE  (\A d \in Callers : msg'[d] # m) /\ \A i \in DOMAIN mbox' : mbox'[i] # m
      <4>1. mbox[1] = m
        BY <1>3, <3>3
      <4>2. \A d \in Callers : msg'[d] # m
        BY <1>0, <1>4, <2>2, <4>1 DEF NotTwo
      <4>3. \A i \in DOMAIN mbox' : mbox'[i] # m
        BY <1>4, <2>2, <4>1 DEF NotTwo
      <4> QED
        BY <4>2, <4>3
    <3>4. \A d, e \in Callers : msg'[d] = m /\ msg'[e] = m => d = e
      BY <1>0, <2>2 DEF NotTwo
    <3> QED
      BY <3>1, <3>2, <3>3, <3>4 DEF NotTwo
  <2> QED
    BY <1>0, <2>1, <2>2 DEF ThreadInv, PoolOwned
<1>7. StaticOwned'
  BY <1>0 DEF ThreadInv, StaticOwned
<1>8. CallersHold'
  BY <1>0, <1>3 DEF ThreadInv, CallersHold, Posted
<1>9. StacksWaited'
  <2> SUFFICES ASSUME NEW c \in Callers
               PROVE  /\ pc[c] # "sem" => sem[c] = 0
                      /\ InUse(c)' <=> InUse(c)
                      /\ InUse(c) <=> pc[c] = "sem" /\ sem[c] = 0
                      /\ \A i, j \in DOMAIN mbox' : mbox'[i] = c /\ mbox'[j] = c => i = j
                      /\ first = c \/ c \in deferred => \A i \in DOMAIN mbox' : mbox'[i] # c
                      /\ ~(first = c /\ c \in deferred)
    BY <1>0, <1>3 DEF StacksWaited
  <2>1. \A i, j \in DOMAIN mbox : mbox[i] = c /\ mbox[j] = c => i = j
    BY DEF ThreadInv, StacksWaited
  <2>2. (pc[c] # "sem" => sem[c] = 0) /\ (InUse(c) <=> pc[c] = "sem" /\ sem[c] = 0)
    BY DEF ThreadInv, StacksWaited
  <2>3. c \in deferred => \A i \in DOMAIN mbox : mbox[i] # c
    BY DEF ThreadInv, StacksWaited
  <2>4. InUse(c)' <=> InUse(c)
    <3>1. (\E i \in DOMAIN mbox : mbox[i] = c) <=> first = c \/ \E i \in DOMAIN mbox' : mbox'[i] = c
      BY <1>3, <1>4
    <3> QED
      BY <1>0, <1>3, <3>1 DEF InUse
  <2>5. \A i, j \in DOMAIN mbox' : mbox'[i] = c /\ mbox'[j] = c => i = j
    <3> SUFFICES ASSUME NEW i \in DOMAIN mbox', NEW j \in DOMAIN mbox', mbox'[i] = c, mbox'[j] = c
                 PROVE  i = j
      OBVIOUS
    <3>1. i + 1 = j + 1
      BY <1>4, <2>1
    <3> QED
      BY <3>1, <1>1
  <2>6. first = c => \A i \in DOMAIN mbox' : mbox'[i] # c
    BY <1>3, <1>4, <2>1
  <2>7. c \in deferred => first # c /\ \A i \in DOMAIN mbox' : mbox'[i] # c
    BY <1>3, <1>4, <2>3
  <2> QED
    BY <2>2, <2>4, <2>5, <2>6, <2>7
<1>10. OneCall'
  <2>1. \A n \in Messages : Queued(n)' <=> Queued(n)
    BY <1>0, <1>3 DEF Queued
  <2>2. \A d \in Callers : About(d)' <=> About(d)
    BY <1>0 DEF About
  <2> QED
    BY <1>0, <2>1, <2>2 DEF ThreadInv, OneCall
<1> QED
  BY <1>5, <1>6, <1>7, <1>8, <1>9, <1>10 DEF ThreadInv

\* The owners of messages do not change with the time.
LEMMA OwnersStay ==
  ASSUME ThreadInv, Typed', UNCHANGED <<pool, mbox, pc, msg, static, sem, deferred, pending, thread>>
  PROVE  ThreadInv'
<1>1. \A m : (Someone(m)' <=> Someone(m)) /\ (NotTwo(m)' <=> NotTwo(m)) /\ (Queued(m)' <=> Queued(m))
  BY DEF Someone, NotTwo, Queued
<1>2. PoolOwned'
  BY <1>1 DEF ThreadInv, PoolOwned
<1>3. StaticOwned'
  BY DEF ThreadInv, StaticOwned
<1>4. CallersHold'
  BY DEF ThreadInv, CallersHold
<1>5. StacksWaited'
  BY DEF ThreadInv, StacksWaited, InUse
<1>6. OneCall'
  BY <1>1 DEF ThreadInv, OneCall, About
<1> QED
  BY <1>2, <1>3, <1>4, <1>5, <1>6 DEF ThreadInv

\* Time passes, and nothing else.
LEMMA TickKeeps ==
  ASSUME ThreadInv, Tick
  PROVE  ThreadInv'
<1> USE DEF callers, calls
<1>0. UNCHANGED <<pool, mbox, pc, msg, static, sem, deferred, pending, thread>>
  BY DEF Tick
<1>1. next_timeout' \in Seq(Entries({"h"})) /\ waited' \in Nat
  <2>1. \A i \in DOMAIN next_timeout :
          [next_timeout[i] EXCEPT !.wait = IF @ = -1 THEN -1 ELSE @ - 1] \in Entries({"h"})
    <3>1. \A e \in Entries({"h"}) : [e EXCEPT !.wait = IF @ = -1 THEN -1 ELSE @ - 1] \in Entries({"h"})
      BY DEF Entries
    <3>2. \A i \in DOMAIN next_timeout : next_timeout[i] \in Entries({"h"})
      BY DEF ThreadInv, Typed
    <3> QED
      BY <3>1, <3>2
  <2>2. DOMAIN next_timeout = 1..Len(next_timeout) /\ Len(next_timeout) \in Nat
    BY DEF ThreadInv, Typed
  <2> DEFINE E(i) == [next_timeout[i] EXCEPT !.wait = IF @ = -1 THEN -1 ELSE @ - 1]
  <2>3. next_timeout' = [i \in 1..Len(next_timeout) |-> E(i)] /\ waited' = waited + 1
    BY <2>2 DEF Tick
  <2>4. \A i \in 1..Len(next_timeout) : E(i) \in Entries({"h"})
    BY <2>1, <2>2
  <2> HIDE DEF E
  <2>5. next_timeout' \in Seq(Entries({"h"}))
    BY <2>2, <2>3, <2>4
  <2> QED
    BY <2>3, <2>5 DEF ThreadInv, Typed
<1>2. Typed'
  BY <1>0, <1>1 DEF ThreadInv, Typed
<1> QED
  BY <1>0, <1>2, OwnersStay

\* The thread goes from waiting to a handler, or back.
LEMMA HandlerKeeps ==
  ASSUME ThreadInv, Typed', StacksWaited', thread.msg = NULL, thread'.msg = NULL,
         thread.at \in {"fetch", "handler"}, thread'.at \in {"fetch", "handler"},
         UNCHANGED <<pool, mbox, pc, msg, static, pending>>
  PROVE  ThreadInv'
<1> USE Distinct
<1>1. \A m \in Messages : /\ Someone(m)' <=> Someone(m)
                          /\ NotTwo(m)' <=> NotTwo(m)
                          /\ Queued(m)' <=> Queued(m)
  BY DEF Someone, NotTwo, Queued
<1>2. PoolOwned'
  BY <1>1 DEF ThreadInv, PoolOwned
<1>3. StaticOwned' /\ CallersHold'
  BY DEF ThreadInv, StaticOwned, CallersHold
<1>4. OneCall'
  BY <1>1 DEF ThreadInv, OneCall, About
<1> QED
  BY <1>2, <1>3, <1>4 DEF ThreadInv

LEMMA FetchTimeoutKeeps ==
  ASSUME ThreadInv, FetchTimeout
  PROVE  ThreadInv'
<1> USE Distinct DEF callers, calls
<1>0. /\ thread.at = "fetch" /\ thread' = [at |-> "handler", msg |-> NULL]
      /\ UNCHANGED <<pool, mbox, pc, msg, static, sem, deferred, pending>>
  BY DEF FetchTimeout
<1>1. thread.msg = NULL /\ thread'.msg = NULL /\ thread'.at = "handler"
  BY <1>0 DEF ThreadInv, CallersHold
<1>2. next_timeout' \in Seq(Entries({"h"})) /\ waited' \in Nat
  BY DEF FetchTimeout, ThreadInv, Typed
<1>3. Typed'
  BY <1>0, <1>2 DEF ThreadInv, Typed
<1>4. StacksWaited'
  BY <1>0, <1>1 DEF ThreadInv, StacksWaited, InUse
<1> QED
  BY <1>0, <1>1, <1>3, <1>4, HandlerKeeps

\* The stack's code runs, with the message that the thread has if it is a caller's:
\* a call it ends has its semaphore signalled, and one it defers has not.
LEMMA StackRunsKeeps ==
  ASSUME ThreadInv, NEW new, new \subseteq Callers,
         \A c \in Callers : c \in new <=> thread.at = "run" /\ thread.msg = c,
         StackRuns(new), thread'.at # "run", UNCHANGED <<mbox, pc>>
  PROVE  /\ sem' \in [Callers -> 0..1] /\ deferred' \subseteq Callers
         /\ StacksWaited'
<1>1. PICK done \in SUBSET (deferred \cup new) :
        /\ sem' = [c \in Callers |-> IF c \in done THEN sem[c] + 1 ELSE sem[c]]
        /\ deferred' = (deferred \cup new) \ done
  BY DEF StackRuns
<1>2. \A c \in deferred \cup new : /\ c \in Callers /\ pc[c] = "sem" /\ sem[c] = 0
                                   /\ \A i \in DOMAIN mbox : mbox[i] # c
  BY DEF ThreadInv, Typed, StacksWaited, InUse
<1>3. \A c \in Callers : sem'[c] = IF c \in done THEN 1 ELSE sem[c]
  BY <1>1, <1>2
<1>4. sem' \in [Callers -> 0..1] /\ deferred' \subseteq Callers
  <2>1. \A c \in Callers : sem'[c] \in 0..1
    BY <1>3 DEF ThreadInv, Typed
  <2>2. deferred' \subseteq Callers
    BY <1>1, <1>2
  <2> QED
    BY <1>1, <2>1, <2>2
<1>5. ASSUME NEW c \in Callers
      PROVE  /\ pc[c] # "sem" => sem'[c] = 0
             /\ InUse(c)' <=> pc[c] = "sem" /\ sem'[c] = 0
             /\ \A i, j \in DOMAIN mbox : mbox[i] = c /\ mbox[j] = c => i = j
             /\ c \in deferred' => \A i \in DOMAIN mbox : mbox[i] # c
  <2>1. InUse(c)' <=> (\E i \in DOMAIN mbox : mbox[i] = c) \/ c \in deferred'
    BY DEF InUse
  <2>2. /\ pc[c] # "sem" => sem[c] = 0
        /\ InUse(c) <=> pc[c] = "sem" /\ sem[c] = 0
        /\ InUse(c) <=> (\E i \in DOMAIN mbox : mbox[i] = c) \/ c \in deferred \cup new
        /\ \A i, j \in DOMAIN mbox : mbox[i] = c /\ mbox[j] = c => i = j
    BY DEF ThreadInv, StacksWaited, InUse
  <2>3. CASE c \in done
    BY <1>1, <1>2, <1>3, <2>1, <2>2, <2>3
  <2>4. CASE c \notin done
    BY <1>1, <1>2, <1>3, <2>1, <2>2, <2>4
  <2> QED
    BY <2>3, <2>4
<1>6. StacksWaited'
  BY <1>5 DEF StacksWaited
<1> QED
  BY <1>4, <1>6

LEMMA RunHandlerKeeps ==
  ASSUME ThreadInv, RunHandler
  PROVE  ThreadInv'
<1> USE Distinct DEF callers, time
<1>0. /\ thread.at = "handler" /\ thread' = Waiting /\ StackRuns({})
      /\ UNCHANGED <<pool, mbox, pc, msg, static, pending, next_timeout, waited>>
  BY DEF RunHandler
<1>1. thread.msg = NULL /\ thread'.msg = NULL /\ thread'.at = "fetch"
  BY <1>0 DEF ThreadInv, CallersHold, Waiting
<1>2. sem' \in [Callers -> 0..1] /\ deferred' \subseteq Callers /\ StacksWaited'
  BY <1>0, <1>1, StackRunsKeeps
<1>3. Typed'
  BY <1>0, <1>2 DEF ThreadInv, Typed, Waiting
<1> QED
  BY <1>0, <1>1, <1>2, <1>3, HandlerKeeps

\* A message is run: its semaphore is signalled or not, the flag reset, or a timeout
\* started or stopped.
LEMMA RunMessageKeeps ==
  ASSUME ThreadInv, RunMessage
  PROVE  ThreadInv'
<1> USE Distinct DEF calls, callers
<1>1. PICK m \in Posted : m = thread.msg
  BY DEF ThreadInv, Typed, CallersHold, RunMessage
<1>2. PICK type : type = IF m \in Callers THEN "API" ELSE pool[m]
  OBVIOUS
<1>3. /\ thread.at = "run"
      /\ StackRuns({m} \cap Callers)
      /\ pending' = (pending /\ type # "OOSEQ")
      /\ thread' = [thread EXCEPT !.at = "free"]
      /\ UNCHANGED <<pool, mbox, pc, msg, static, waited>>
  BY <1>1, <1>2 DEF RunMessage
<1>4. thread'.at = "free" /\ thread'.msg = m
      /\ thread' \in [at : {"fetch", "run", "handler", "free"}, msg : Posted \cup {NULL}]
  BY <1>1, <1>3 DEF ThreadInv, Typed
<1>5. (type = "API" <=> m \in Callers) /\ (type = "OOSEQ" <=> m \in Messages /\ pool[m] = "OOSEQ")
  <2>1. m \in Messages => pool[m] \in Types
    BY <1>1 DEF ThreadInv, Typed, PoolOwned, Someone
  <2>2. m \in Messages \/ m \in Callers
    BY DEF Posted
  <2> QED
    BY <1>2, <2>1, <2>2 DEF Types
<1>7. sem' \in [Callers -> 0..1] /\ deferred' \subseteq Callers /\ StacksWaited'
  <2>1. \A c \in Callers : c \in {m} \cap Callers <=> thread.at = "run" /\ thread.msg = c
    BY <1>1, <1>3
  <2> QED
    BY <1>3, <1>4, <2>1, StackRunsKeeps
<1>8. next_timeout' \in Seq(Entries({"h"}))
  <2>0. next_timeout \in Seq(Entries({"h"}))
    BY DEF ThreadInv, Typed
  <2>1. CASE \E msecs \in Delays : next_timeout' = Inserted(next_timeout, Entry(msecs, "h"))
    <3>1. PICK msecs \in Delays : next_timeout' = Inserted(next_timeout, Entry(msecs, "h"))
      BY <2>1
    <3>2. Entry(msecs, "h") \in Entries({"h"})
      BY DEF Entry, Entries
    <3> QED
      BY <2>0, <3>1, <3>2, InsertedIs
  <2>2. CASE next_timeout' = Removed(next_timeout, "h")
    BY <2>0, <2>2, RemovedIs
  <2>3. CASE UNCHANGED next_timeout
    BY <2>0, <2>3
  <2> QED
    BY <1>1, <1>2, <2>1, <2>2, <2>3 DEF RunMessage
<1>9. Typed'
  <2>2. pending' \in BOOLEAN
    BY <1>3
  <2> QED
    BY <1>3, <1>4, <1>7, <1>8, <2>2 DEF ThreadInv, Typed
<1>10. PoolOwned' /\ StaticOwned'
  BY <1>1, <1>3, <1>4 DEF ThreadInv, PoolOwned, StaticOwned, Someone, NotTwo
<1>11. CallersHold'
  BY <1>3, <1>4 DEF ThreadInv, CallersHold, Posted
<1>13. OneCall'
  <2>1. \A n \in Messages : Queued(n)' <=> Queued(n) /\ n # m
    BY <1>3, <1>4 DEF Queued
  <2>2. \A d \in Callers : About(d)' <=> About(d)
    BY <1>3 DEF About
  <2>3. type = "OOSEQ" <=> m \in Messages /\ Queued(m)
    BY <1>3, <1>5 DEF Queued
  <2>4. pending' <=> pending /\ type # "OOSEQ"
    BY <1>3
  <2>5. CASE type = "OOSEQ"
    BY <2>1, <2>2, <2>3, <2>4, <2>5 DEF ThreadInv, OneCall
  <2>6. CASE type # "OOSEQ"
    <3>1. \A n \in Messages : Queued(n)' <=> Queued(n)
      BY <2>1, <2>3, <2>6
    <3> QED
      BY <2>2, <2>4, <2>6, <3>1 DEF ThreadInv, OneCall
  <2> QED
    BY <2>5, <2>6
<1> QED
  BY <1>7, <1>9, <1>10, <1>11, <1>13 DEF ThreadInv

\* The message is freed, and the thread fetches the next one.
LEMMA FreeMessageKeeps ==
  ASSUME ThreadInv, FreeMessage
  PROVE  ThreadInv'
<1> USE Distinct DEF calls, callers, time
<1>1. PICK m \in Posted : m = thread.msg
  BY DEF ThreadInv, Typed, CallersHold, FreeMessage
<1>2. /\ thread.at = "free"
      /\ pool' = IF m \in Messages /\ pool[m] # "CALLBACK_STATIC"
                 THEN [pool EXCEPT ![m] = NULL] ELSE pool
      /\ UNCHANGED <<mbox, pc, msg, static, sem, deferred, pending, next_timeout, waited>>
  BY <1>1 DEF FreeMessage
<1>3. thread'.at = "fetch" /\ thread'.msg = NULL
      /\ thread' \in [at : {"fetch", "run", "handler", "free"}, msg : Posted \cup {NULL}]
  BY DEF FreeMessage, Waiting
<1>4. \A n \in Messages : pool'[n] = IF n = m /\ pool[m] # "CALLBACK_STATIC" THEN NULL ELSE pool[n]
  BY <1>2 DEF ThreadInv, Typed
<1>5. Typed'
  BY <1>2, <1>3 DEF ThreadInv, Typed
<1>6. PoolOwned'
  <2> SUFFICES ASSUME NEW n \in Messages
               PROVE  /\ pool'[n] = NULL => ~Someone(n)'
                      /\ pool'[n] \notin {NULL, "CALLBACK_STATIC"} => Someone(n)' /\ NotTwo(n)'
                      /\ pool'[n] = "CALLBACK_STATIC" => /\ \E d \in Callers : static[d] = n
                                                         /\ \A d \in Callers : msg[d] # n
    BY <1>2 DEF PoolOwned
  <2>0. /\ pool[n] = NULL => ~Someone(n)
        /\ pool[n] \notin {NULL, "CALLBACK_STATIC"} => Someone(n) /\ NotTwo(n)
        /\ pool[n] = "CALLBACK_STATIC" => /\ \E d \in Callers : static[d] = n
                                          /\ \A d \in Callers : msg[d] # n
    BY DEF ThreadInv, PoolOwned
  <2>1. n # NULL
    OBVIOUS
  <2>2. CASE n # m
    <3>1. (Someone(n)' <=> Someone(n)) /\ (NotTwo(n)' <=> NotTwo(n))
      BY <1>1, <1>2, <1>3, <2>1, <2>2 DEF Someone, NotTwo
    <3> QED
      BY <1>4, <2>0, <2>2, <3>1
  <2>3. CASE n = m /\ pool[m] # "CALLBACK_STATIC"
    <3>1. pool[n] # NULL /\ NotTwo(n)
      BY <1>1, <2>0, <2>3 DEF Someone
    <3>2. ~Someone(n)'
      BY <1>1, <1>2, <1>3, <2>1, <2>3, <3>1 DEF Someone, NotTwo
    <3> QED
      BY <1>4, <2>3, <3>2 DEF Types
  <2>4. CASE n = m /\ pool[m] = "CALLBACK_STATIC"
    BY <1>4, <2>0, <2>4 DEF Types
  <2> QED
    BY <2>2, <2>3, <2>4
<1>7. StaticOwned'
  BY <1>2, <1>4 DEF ThreadInv, Typed, StaticOwned
<1>8. CallersHold' /\ StacksWaited'
  BY <1>2, <1>3 DEF ThreadInv, CallersHold, StacksWaited, InUse
<1>9. OneCall'
  <2>1. \A n \in Messages : Queued(n)' <=> Queued(n)
    BY <1>1, <1>2, <1>3, <1>4 DEF Queued, Types
  <2>2. \A d \in Callers : About(d)' <=> About(d)
    BY <1>2 DEF About
  <2> QED
    BY <1>2, <2>1, <2>2 DEF ThreadInv, OneCall
<1> QED
  BY <1>5, <1>6, <1>7, <1>8, <1>9 DEF ThreadInv
-----------------------------------------------------------------------------
\* The invariant holds in all states of api/tcpip.c's threads.
THEOREM ThreadInvariance == Spec => []ThreadInv
<1>1. Init => ThreadInv
  <2> SUFFICES ASSUME Init PROVE ThreadInv
    OBVIOUS
  <2> USE Distinct DEF Init, Waiting
  <2>1. Typed
    <3>1. <<>> \in Seq(Posted) /\ Len(<<>>) = 0 /\ <<>> \in Seq(Entries({"h"}))
      OBVIOUS
    <3>2. pc \in [Callers -> Pcs] /\ sem \in [Callers -> 0..1]
      BY DEF Pcs
    <3>4. pending \in BOOLEAN
      OBVIOUS
    <3>3. thread \in [at : {"fetch", "run", "handler", "free"}, msg : Posted \cup {NULL}]
      OBVIOUS
    <3> QED
      BY <3>1, <3>2, <3>3, <3>4 DEF Typed
  <2>2. PoolOwned /\ StaticOwned /\ CallersHold /\ StacksWaited
    BY DEF PoolOwned, StaticOwned, CallersHold, StacksWaited, InUse, Someone, NotTwo, Types
  <2>3. OneCall
    BY DEF OneCall, Queued, About, Types
  <2> QED
    BY <2>1, <2>2, <2>3 DEF ThreadInv
<1>2. ThreadInv /\ [Next]_vars => ThreadInv'
  <2> SUFFICES ASSUME ThreadInv, [Next]_vars PROVE ThreadInv'
    OBVIOUS
  <2>1. CASE tcpip_thread \/ Tick
    BY <2>1, FetchMessageKeeps, FetchTimeoutKeeps, RunMessageKeeps, RunHandlerKeeps, FreeMessageKeeps,
       TickKeeps DEF tcpip_thread
  <2>2. CASE \E c \in Callers : Begins(c) \/ Continues(c)
    <3>1. PICK c \in Callers : Begins(c) \/ Continues(c)
      BY <2>2
    <3>2. CASE Begins(c)
      BY <3>2, AllocatingCalls, PoolIsEmptyKeeps, StackCallsKeep, StaticNewKeeps, TrycallbackKeeps,
         StaticDeleteKeeps DEF Begins
    <3>3. CASE Continues(c)
      BY <3>3, AllocatingCalls, NotQueuedKeeps, StackCallsKeep, PostsKeep DEF Continues
    <3> QED
      BY <3>1, <3>2, <3>3
  <2>3. CASE UNCHANGED vars
    <3>1. Typed'
      BY <2>3 DEF vars, callers, calls, time, ThreadInv, Typed
    <3> QED
      BY <2>3, <3>1, OwnersStay DEF vars, callers, calls
  <2> QED
    BY <2>1, <2>2, <2>3 DEF Next
<1> QED
  BY <1>1, <1>2, PTL DEF Spec

\* Places counts the owners of a message.
LEMMA PlacesCount ==
  ASSUME ThreadInv, NEW m \in Messages, NotTwo(m) \/ ~Someone(m)
  PROVE  Places(m) = IF Someone(m) THEN 1 ELSE 0
<1> DEFINE C == {c \in Callers : msg[c] = m}
           B == {i \in DOMAIN mbox : mbox[i] = m}
           T == IF thread.msg = m THEN 1 ELSE 0
<1>0. Places(m) = Cardinality(C) + Cardinality(B) + T
  BY DEF Places
<1>1. Cardinality({}) = 0 /\ \A x : Cardinality({x}) = 1
  BY FS_EmptySet, FS_Singleton
<1>2. CASE ~Someone(m)
  <2>1. C = {} /\ B = {} /\ T = 0
    BY <1>2 DEF Someone
  <2> HIDE DEF C, B, T
  <2> QED
    BY <1>0, <1>1, <1>2, <2>1
<1>3. CASE Someone(m)
  <2>0. NotTwo(m)
    BY <1>3
  <2>1. CASE \E c \in Callers : msg[c] = m
    <3>1. PICK c \in Callers : msg[c] = m
      BY <2>1
    <3>2. C = {c} /\ B = {} /\ T = 0
      BY <2>0, <3>1 DEF NotTwo
    <3> HIDE DEF C, B, T
    <3>3. Cardinality(C) = 1 /\ Cardinality(B) = 0
      BY <1>1, <3>2
    <3> QED
      BY <1>0, <1>3, <3>2, <3>3
  <2>2. CASE \E i \in DOMAIN mbox : mbox[i] = m
    <3>1. PICK i \in DOMAIN mbox : mbox[i] = m
      BY <2>2
    <3>2. C = {} /\ B = {i} /\ T = 0
      BY <2>0, <3>1 DEF NotTwo
    <3> HIDE DEF C, B, T
    <3>3. Cardinality(C) = 0 /\ Cardinality(B) = 1
      BY <1>1, <3>2
    <3> QED
      BY <1>0, <1>3, <3>2, <3>3
  <2>3. CASE thread.msg = m
    <3>2. C = {} /\ B = {} /\ T = 1
      BY <2>0, <2>3 DEF NotTwo
    <3> HIDE DEF C, B, T
    <3> QED
      BY <1>0, <1>1, <1>3, <3>2
  <2> QED
    BY <1>3, <2>1, <2>2, <2>3 DEF Someone
<1> QED
  BY <1>2, <1>3

\* Every message of the pools of api/tcpip.c is allocated exactly while it has
\* one owner, static ones aside, and the stack has a message on a caller's stack
\* exactly while that caller waits for a semaphore that has not been signalled.
THEOREM MessagesAreAccounted == Spec => []MessagesAccounted
<1>1. ThreadInv => MessagesAccounted
  <2> SUFFICES ASSUME ThreadInv PROVE MessagesAccounted
    OBVIOUS
  <2> USE Distinct
  <2>1. TypeOK
    <3>1. mbox \in Seq(Messages \cup Callers)
      BY DEF ThreadInv, Typed, Posted
    <3>2. \A i \in DOMAIN next_timeout : next_timeout[i].time \in Nat
      <4>1. \A i \in DOMAIN next_timeout : next_timeout[i] \in Entries({"h"})
        BY DEF ThreadInv, Typed
      <4> QED
        BY <4>1 DEF Entries
    <3> QED
      BY <3>1, <3>2 DEF ThreadInv, Typed, TypeOK
  <2>2. ASSUME NEW m \in Messages
        PROVE  IF \E c \in Callers : static[c] = m THEN pool[m] = "CALLBACK_STATIC"
               ELSE Places(m) = IF pool[m] = NULL THEN 0 ELSE 1
    <3>1. CASE \E c \in Callers : static[c] = m
      BY <3>1 DEF ThreadInv, StaticOwned
    <3>2. CASE ~ \E c \in Callers : static[c] = m
      <4>1. pool[m] # "CALLBACK_STATIC"
        BY <3>2 DEF ThreadInv, PoolOwned
      <4>2. (Someone(m) <=> pool[m] # NULL) /\ (NotTwo(m) \/ ~Someone(m))
        BY <4>1 DEF ThreadInv, PoolOwned
      <4> QED
        BY <3>2, <4>2, PlacesCount
    <3> QED
      BY <3>1, <3>2
  <2>3. \A c \in Callers : InUse(c) <=> pc[c] = "sem" /\ sem[c] = 0
    BY DEF ThreadInv, StacksWaited
  <2> QED
    BY <2>1, <2>2, <2>3 DEF MessagesAccounted
<1> QED
  BY <1>1, ThreadInvariance, PTL

\* pbuf_free_ooseq_pending is set exactly while one call is queued or about to be.
THEOREM OneCallIsPending == Spec => []PendingMeansQueued
<1>1. ThreadInv => PendingMeansQueued
  <2> SUFFICES ASSUME ThreadInv PROVE PendingMeansQueued
    OBVIOUS
  <2> DEFINE Q == {m \in Messages : pool[m] = "OOSEQ" /\ thread # [at |-> "free", msg |-> m]}
             A == {c \in Callers : pc[c] \in {"queue", "unqueued"}}
  <2>0. PendingMeansQueued <=> Cardinality(Q) + Cardinality(A) = IF pending THEN 1 ELSE 0
    BY DEF PendingMeansQueued
  <2>1. \A m \in Messages : thread = [at |-> "free", msg |-> m] <=> thread.at = "free" /\ thread.msg = m
    BY DEF ThreadInv, Typed
  <2>2. Q = {m \in Messages : Queued(m)} /\ A = {c \in Callers : About(c)}
    BY <2>1 DEF Queued, About
  <2>3. Cardinality({}) = 0 /\ \A x : Cardinality({x}) = 1
    BY FS_EmptySet, FS_Singleton
  <2> HIDE DEF Q, A
  <2>4. OneCall
    BY DEF ThreadInv
  <2>5. CASE \E m \in Messages : Queued(m)
    <3>1. PICK m \in Messages : Queued(m)
      BY <2>5
    <3>2. Q = {m} /\ A = {} /\ pending
      BY <2>2, <2>4, <3>1 DEF OneCall
    <3>3. Cardinality(Q) = 1 /\ Cardinality(A) = 0
      BY <2>3, <3>2
    <3> QED
      BY <2>0, <3>2, <3>3
  <2>6. CASE \E c \in Callers : About(c)
    <3>1. PICK c \in Callers : About(c)
      BY <2>6
    <3>2. Q = {} /\ A = {c} /\ pending
      BY <2>2, <2>4, <3>1 DEF OneCall
    <3>3. Cardinality(Q) = 0 /\ Cardinality(A) = 1
      BY <2>3, <3>2
    <3> QED
      BY <2>0, <3>2, <3>3
  <2>7. CASE (\A m \in Messages : ~Queued(m)) /\ \A c \in Callers : ~About(c)
    <3>2. Q = {} /\ A = {} /\ ~pending
      BY <2>2, <2>4, <2>7 DEF OneCall
    <3>3. Cardinality(Q) = 0 /\ Cardinality(A) = 0
      BY <2>3, <3>2
    <3> QED
      BY <2>0, <3>2, <3>3
  <2> QED
    BY <2>5, <2>6, <2>7
<1> QED
  BY <1>1, ThreadInvariance, PTL
============================================================================
