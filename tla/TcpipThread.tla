----------------------------- MODULE TcpipThread -----------------------------
(***************************************************************************)
(* The stack's thread in the threaded build (api/tcpip.c): it fetches      *)
(* messages from its mailbox, with timeouts processed while it waits       *)
(* (sys_timeouts_mbox_fetch of core/timers.c), and runs what they ask for. *)
(* Applications and drivers allocate messages from pools and post them, or *)
(* post one that lives on their own stack and wait for its semaphore.  The *)
(* thread signals it when it has run the message, or defers the call:      *)
(* api_msg.c keeps the message as the current_msg of a netconn until data  *)
(* arrives, a timer runs or the connection is lost.  A netconn is used by  *)
(* one caller at a time.                                                   *)
(*                                                                         *)
(* The mailbox is the bounded buffer that SysMbox implements; its fetch    *)
(* reports 0 milliseconds whatever it waited.  Between two steps of the    *)
(* clock the thread does all it can: time passes only while it waits.      *)
(***************************************************************************)
EXTENDS TimeoutList

CONSTANTS Callers,              \* application and driver threads, and Stack
          Stack,                \* tcpip_thread as a caller, in what it runs
          Ops,                  \* the functions they call
          ApiMsgs, InMsgs,      \* elements of MEMP_TCPIP_MSG_API and _INPKT
          TCPIP_MBOX_SIZE,
          Delays,               \* times asked for with tcpip_timeout
          MaxTimeouts,          \* bound on the timeouts at one time
          NULL

\* What an allocated message of the pools asks for.
Types == {"INPKT", "CALLBACK", "TIMEOUT", "UNTIMEOUT", "OOSEQ", "CALLBACK_STATIC"}

ASSUME TcpipThreadAssumption ==
  /\ TCPIP_MBOX_SIZE \in Nat \ {0} /\ Delays \subseteq Nat \ {0} /\ MaxTimeouts \in Nat
  /\ ApiMsgs \cap InMsgs = {} /\ Callers \cap (ApiMsgs \cup InMsgs) = {}
  /\ Stack \in Callers
  /\ NULL \notin Callers \cup ApiMsgs \cup InMsgs \cup Types

VARIABLES pool,                 \* the type of each message of the pools, or NULL
          mbox,                 \* messages; a caller stands for the one on its stack
          pc,                   \* where each caller is
          msg,                  \* the message a caller works on, or NULL
          static,               \* the static message a caller has, or NULL
          sem,                  \* the semaphore a caller waits for
          deferred,             \* callers whose message is the current_msg of a netconn
          pending,              \* pbuf_free_ooseq_pending
          thread,               \* what tcpip_thread does, and its message
          next_timeout,
          waited                \* time spent in this fetch

callers == <<pc, msg, static>>
time == <<next_timeout, waited>>
calls == <<sem, deferred>>
vars == <<pool, mbox, callers, calls, pending, thread, time>>

Messages == ApiMsgs \cup InMsgs
Waiting == [at |-> "fetch", msg |-> NULL]

Init == /\ pool = [m \in Messages |-> NULL]
        /\ mbox = <<>>
        /\ pc = [c \in Callers |-> "idle"] /\ msg = [c \in Callers |-> NULL]
        /\ static = [c \in Callers |-> NULL]
        /\ sem = [c \in Callers |-> 0] /\ deferred = {} /\ pending = FALSE
        /\ thread = Waiting
        /\ next_timeout = <<>> /\ waited = 0
-----------------------------------------------------------------------------
\* memp_malloc gives caller c a message of this type, and it goes on to post
\* it.  If the pool is empty it is at failed.
Allocate(c, from, type, post, failed) ==
  \/ \E m \in from :
       /\ pool[m] = NULL
       /\ pool' = [pool EXCEPT ![m] = type]
       /\ msg' = [msg EXCEPT ![c] = m]
       /\ pc' = [pc EXCEPT ![c] = post]
  \/ /\ \A m \in from : pool[m] # NULL
     /\ pc' = [pc EXCEPT ![c] = failed]
     /\ UNCHANGED <<pool, msg>>

\* The stack's thread may call while it runs a message or a handler.  It must not
\* wait for a place in its own mailbox.
InStack == thread.at \in {"run", "handler"}
Calls(c, op) ==
  /\ pc[c] = "idle" /\ op \in Ops
  /\ c = Stack => InStack /\ op \in {"pool", "callback"}

tcpip_input(c) ==
  /\ Calls(c, "input")
  /\ Allocate(c, InMsgs, "INPKT", "trypost", "idle")
  /\ UNCHANGED <<mbox, static, calls, pending, thread, time>>

tcpip_callback_with_block(c) ==
  /\ Calls(c, "callback")
  /\ \E post \in {"post", "trypost"} :
       (c = Stack => post = "trypost") /\ Allocate(c, ApiMsgs, "CALLBACK", post, "idle")
  /\ UNCHANGED <<mbox, static, calls, pending, thread, time>>

tcpip_timeout(c) ==
  /\ Calls(c, "timeout")
  /\ Len(next_timeout) + Cardinality({m \in Messages : pool[m] = "TIMEOUT"}) < MaxTimeouts
  /\ Allocate(c, ApiMsgs, "TIMEOUT", "post", "idle")
  /\ UNCHANGED <<mbox, static, calls, pending, thread, time>>

tcpip_untimeout(c) ==
  /\ Calls(c, "timeout")
  /\ Allocate(c, ApiMsgs, "UNTIMEOUT", "post", "idle")
  /\ UNCHANGED <<mbox, static, calls, pending, thread, time>>

\* pbuf_alloc of c found the pool of pbufs empty: unless it is queued already,
\* a call of pbuf_free_ooseq is to be queued.
pbuf_pool_is_empty(c) ==
  /\ Calls(c, "pool")
  /\ pending' = TRUE
  /\ pc' = [pc EXCEPT ![c] = IF pending THEN "idle" ELSE "queue"]
  /\ UNCHANGED <<pool, mbox, msg, static, calls, thread, time>>

QueueCall(c) ==
  /\ pc[c] = "queue"
  /\ Allocate(c, ApiMsgs, "OOSEQ", "trypost", "unqueued")
  /\ UNCHANGED <<mbox, static, calls, pending, thread, time>>

\* Mutant: the flag stays when the call could not be queued.
StaysQueued(c) ==
  /\ pc[c] = "unqueued"
  /\ pc' = [pc EXCEPT ![c] = "idle"]
  /\ UNCHANGED <<pool, mbox, msg, static, calls, pending, thread, time>>

NotQueued(c) ==
  /\ pc[c] = "unqueued"
  /\ pending' = FALSE
  /\ pc' = [pc EXCEPT ![c] = "idle"]
  /\ UNCHANGED <<pool, mbox, msg, static, calls, thread, time>>

\* tcpip_apimsg, and tcpip_netifapi likewise: the message is on the stack of c.
tcpip_apimsg(c) ==
  /\ Calls(c, "api")
  /\ msg' = [msg EXCEPT ![c] = c]
  /\ pc' = [pc EXCEPT ![c] = "post"]
  /\ UNCHANGED <<pool, mbox, static, calls, pending, thread, time>>

\* sys_mbox_post waits for a place.
sys_mbox_post(c) ==
  /\ pc[c] = "post" /\ Len(mbox) < TCPIP_MBOX_SIZE
  /\ mbox' = Append(mbox, msg[c])
  /\ msg' = [msg EXCEPT ![c] = NULL]
  /\ pc' = [pc EXCEPT ![c] = IF msg[c] = c THEN "sem" ELSE "idle"]
  /\ UNCHANGED <<pool, static, calls, pending, thread, time>>

\* Mutant: the message is not freed when the mailbox is full.
TrypostLeaks(c) ==
  /\ pc[c] = "trypost"
  /\ mbox' = IF Len(mbox) < TCPIP_MBOX_SIZE THEN Append(mbox, msg[c]) ELSE mbox
  /\ pc' = [pc EXCEPT ![c] = IF Len(mbox) = TCPIP_MBOX_SIZE /\ pool[msg[c]] = "OOSEQ"
                             THEN "unqueued" ELSE "idle"]
  /\ msg' = [msg EXCEPT ![c] = NULL]
  /\ UNCHANGED <<pool, static, calls, pending, thread, time>>

\* sys_mbox_trypost does not, and the message is freed if there is none.
sys_mbox_trypost(c) ==
  /\ pc[c] = "trypost"
  /\ \/ /\ Len(mbox) < TCPIP_MBOX_SIZE
        /\ mbox' = Append(mbox, msg[c])
        /\ pc' = [pc EXCEPT ![c] = "idle"]
        /\ UNCHANGED pool
     \/ /\ Len(mbox) >= TCPIP_MBOX_SIZE
        /\ pool' = [pool EXCEPT ![msg[c]] = NULL]
        /\ pc' = [pc EXCEPT ![c] = IF pool[msg[c]] = "OOSEQ" THEN "unqueued" ELSE "idle"]
        /\ UNCHANGED mbox
  /\ msg' = [msg EXCEPT ![c] = NULL]
  /\ UNCHANGED <<static, calls, pending, thread, time>>

\* Mutant: the caller takes its end for a timeout, and posts its message again.
SemWaitRetries(c) ==
  /\ pc[c] = "sem" /\ sem[c] > 0
  /\ sem' = [sem EXCEPT ![c] = @ - 1]
  /\ pc' = [pc EXCEPT ![c] = "post"]
  /\ msg' = [msg EXCEPT ![c] = c]
  /\ UNCHANGED <<pool, mbox, deferred, static, pending, thread, time>>

sys_arch_sem_wait(c) ==
  /\ pc[c] = "sem" /\ sem[c] > 0
  /\ sem' = [sem EXCEPT ![c] = @ - 1]
  /\ pc' = [pc EXCEPT ![c] = "idle"]
  /\ UNCHANGED <<pool, mbox, deferred, msg, static, pending, thread, time>>

\* Static messages are allocated in advance, and posted again and again.
tcpip_callbackmsg_new(c) ==
  /\ Calls(c, "static") /\ static[c] = NULL
  /\ \E m \in ApiMsgs : /\ pool[m] = NULL
                        /\ pool' = [pool EXCEPT ![m] = "CALLBACK_STATIC"]
                        /\ static' = [static EXCEPT ![c] = m]
  /\ UNCHANGED <<mbox, pc, msg, calls, pending, thread, time>>

tcpip_trycallback(c) ==
  /\ Calls(c, "static") /\ static[c] # NULL
  /\ Len(mbox) < TCPIP_MBOX_SIZE
  /\ mbox' = Append(mbox, static[c])
  /\ UNCHANGED <<pool, callers, calls, pending, thread, time>>

\* The caller's duty: not while the message is posted.
tcpip_callbackmsg_delete(c) ==
  /\ Calls(c, "static") /\ static[c] # NULL
  /\ static[c] # thread.msg /\ \A i \in DOMAIN mbox : mbox[i] # static[c]
  /\ pool' = [pool EXCEPT ![static[c]] = NULL]
  /\ static' = [static EXCEPT ![c] = NULL]
  /\ UNCHANGED <<mbox, pc, msg, calls, pending, thread, time>>
-----------------------------------------------------------------------------
Due == next_timeout # <<>> /\ Head(next_timeout).time = 0

\* A message is fetched; its 0 milliseconds leave the first timeout as it is.
FetchMessage ==
  /\ thread.at = "fetch" /\ ~Due /\ mbox # <<>>
  /\ thread' = [at |-> "run", msg |-> Head(mbox)]
  /\ mbox' = Tail(mbox)
  /\ waited' = 0
  /\ UNCHANGED <<pool, callers, calls, pending, next_timeout>>

\* The fetch timed out, or the first timeout is due: its handler is called.
FetchTimeout ==
  /\ thread.at = "fetch" /\ next_timeout # <<>>
  /\ Due \/ (mbox = <<>> /\ waited = Head(next_timeout).time)
  /\ next_timeout' = Tail(next_timeout)
  /\ waited' = 0
  /\ thread' = [at |-> "handler", msg |-> NULL]
  /\ UNCHANGED <<pool, mbox, callers, calls, pending>>

\* A millisecond passes while the thread waits for a message.
Tick ==
  /\ thread.at = "fetch" /\ mbox = <<>> /\ next_timeout # <<>>
  /\ waited < Head(next_timeout).time
  /\ waited' = waited + 1
  /\ next_timeout' = [i \in DOMAIN next_timeout |->
                        [next_timeout[i] EXCEPT !.wait = IF @ = -1 THEN -1 ELSE @ - 1]]
  /\ UNCHANGED <<pool, mbox, callers, calls, pending, thread>>

\* The stack's code runs, with the calls that are new to it: it ends, with a
\* signal, any of these and of the calls it has deferred, and defers the others.
StackRuns(new) ==
  \E done \in SUBSET (deferred \cup new) :
    /\ sem' = [c \in Callers |-> IF c \in done THEN sem[c] + 1 ELSE sem[c]]
    /\ deferred' = (deferred \cup new) \ done

\* What the message asks for is done, or begun.
RunMessage ==
  /\ thread.at = "run" /\ pc[Stack] = "idle"
  /\ LET m == thread.msg
         type == IF m \in Callers THEN "API" ELSE pool[m]
     IN /\ StackRuns({m} \cap Callers)
        /\ pending' = (pending /\ type # "OOSEQ")
        /\ \/ /\ type = "TIMEOUT"
              /\ \E msecs \in Delays : next_timeout' = Inserted(next_timeout, Entry(msecs, "h"))
           \/ /\ type = "UNTIMEOUT"
              /\ next_timeout' = Removed(next_timeout, "h")
           \/ /\ type \notin {"TIMEOUT", "UNTIMEOUT"}
              /\ UNCHANGED next_timeout
  /\ thread' = [thread EXCEPT !.at = "free"]
  /\ UNCHANGED <<pool, mbox, callers, waited>>

\* The handler of a timeout.
RunHandler ==
  /\ thread.at = "handler" /\ pc[Stack] = "idle"
  /\ StackRuns({})
  /\ thread' = Waiting
  /\ UNCHANGED <<pool, mbox, callers, pending, time>>

\* Messages of the pools are freed, but static ones; the one on a caller's stack
\* is not touched any more.
FreeMessage ==
  /\ thread.at = "free"
  /\ pool' = IF thread.msg \in Messages /\ pool[thread.msg] # "CALLBACK_STATIC"
             THEN [pool EXCEPT ![thread.msg] = NULL] ELSE pool
  /\ thread' = Waiting
  /\ UNCHANGED <<mbox, callers, calls, pending, time>>

tcpip_thread == FetchMessage \/ FetchTimeout \/ RunMessage \/ RunHandler \/ FreeMessage

\* A caller begins a call, or goes on with it.
Begins(c) ==
  \/ tcpip_input(c) \/ tcpip_callback_with_block(c) \/ tcpip_timeout(c) \/ tcpip_untimeout(c)
  \/ pbuf_pool_is_empty(c) \/ tcpip_apimsg(c)
  \/ tcpip_callbackmsg_new(c) \/ tcpip_trycallback(c) \/ tcpip_callbackmsg_delete(c)
Continues(c) ==
  \/ QueueCall(c) \/ NotQueued(c)
  \/ sys_mbox_post(c) \/ sys_mbox_trypost(c) \/ sys_arch_sem_wait(c)

Next == tcpip_thread \/ Tick \/ \E c \in Callers : Begins(c) \/ Continues(c)

Spec == Init /\ [][Next]_vars

\* The thread runs, time passes, a caller that can go on does so, and what the
\* stack runs comes to its end, however often it finds the pool empty.
FairSpec == /\ Spec /\ WF_vars(tcpip_thread) /\ WF_vars(Tick)
            /\ SF_vars(RunMessage \/ RunHandler)
            /\ \A c \in Callers : WF_vars(Continues(c))
-----------------------------------------------------------------------------
TypeOK ==
  /\ pool \in [Messages -> {NULL} \cup Types]
  /\ Len(mbox) <= TCPIP_MBOX_SIZE /\ mbox \in Seq(Messages \cup Callers)
  /\ \A i \in DOMAIN next_timeout : next_timeout[i].time \in Nat
  /\ \A c \in Callers : sem[c] \in 0..1

Places(m) == Cardinality({c \in Callers : msg[c] = m})
             + Cardinality({i \in DOMAIN mbox : mbox[i] = m})
             + (IF thread.msg = m THEN 1 ELSE 0)

\* The stack still has the message on the stack of c.
InUse(c) == \/ \E i \in DOMAIN mbox : mbox[i] = c
            \/ thread.at = "run" /\ thread.msg = c
            \/ c \in deferred

\* A message of a pool is allocated exactly while one caller, the mailbox or the
\* thread has it, so it is freed once and none is lost; a static one stays
\* allocated however often it is posted.  The message on a caller's stack is in
\* the mailbox, run or deferred exactly while that caller waits for a semaphore
\* that has not been signalled: it does not return before, and is not forgotten.
MessagesAccounted ==
  /\ TypeOK
  /\ \A m \in Messages :
       IF \E c \in Callers : static[c] = m THEN pool[m] = "CALLBACK_STATIC"
       ELSE Places(m) = IF pool[m] = NULL THEN 0 ELSE 1
  /\ \A c \in Callers : InUse(c) <=> pc[c] = "sem" /\ sem[c] = 0

\* pbuf_free_ooseq_pending is set exactly while one call of pbuf_free_ooseq is
\* queued or about to be: it never stays set for good, which would be the end of
\* reclaiming, and never lets a second call into the mailbox.
PendingMeansQueued ==
  LET queued == {m \in Messages : pool[m] = "OOSEQ" /\ thread # [at |-> "free", msg |-> m]}
      about == {c \in Callers : pc[c] \in {"queue", "unqueued"}}
  IN Cardinality(queued) + Cardinality(about) = IF pending THEN 1 ELSE 0

\* A posted API call returns or is deferred, although others keep posting (when
\* a deferred call ends depends on its peer); and when no new calls are made, all
\* others end: no poster waits for a place for ever, and the mailbox is emptied.
AllCallsEnd ==
  /\ \A c \in Callers : pc[c] = "sem" ~> pc[c] = "idle" \/ c \in deferred
  /\ <>[][\A c \in Callers : ~Begins(c)]_vars =>
       <>[](mbox = <<>> /\ \A c \in Callers : pc[c] = "idle" \/ c \in deferred)
=============================================================================
