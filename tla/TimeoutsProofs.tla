--------------------------- MODULE TimeoutsProofs ---------------------------
(***************************************************************************)
(* The timeouts of core/timers.c with NO_SYS, for any handlers and times,  *)
(* a pool of any size and a clock of any width.                            *)
(***************************************************************************)
EXTENDS TimeoutsDataProofs

Checks == [now : 0..Modulus - 1, diff : 0..Modulus - 1, handler : Handlers \cup {NULL}, wait : Int]

Typed ==
  /\ next_timeout \in Seq(Entries(Handlers)) /\ Len(next_timeout) <= MEMP_NUM_SYS_TIMEOUT
  /\ timeouts_last_time \in 0..Modulus - 1 /\ clock \in 0..Modulus - 1
  /\ check \in Checks \cup {NULL}
  /\ pcbs \in BOOLEAN /\ tcpip_tcp_timer_active \in BOOLEAN /\ prompt \in BOOLEAN
  /\ lag \in 0..MaxLag
  /\ failed \in Handlers \cup {NULL}

\* A check that is under way has taken no longer than lag.
CheckLags == check # NULL => Ahead(check.now, clock) <= lag

\* While a handler of the stack runs that does not call the application back, the
\* entry it had is free.
RoomForOwn ==
  check # NULL /\ check.handler \notin Application \cup CallsBack \cup {TCP, NULL} =>
    Len(next_timeout) < MEMP_NUM_SYS_TIMEOUT

InHandler(h) == check # NULL /\ check.handler = h

\* No timer of the stack has two entries, nor one while its handler runs or when it
\* was the one that found the pool empty.
OneEach ==
  \A h \in StackHandlers : /\ Once(next_timeout, h)
                           /\ Has(next_timeout, h) => failed # h /\ ~InHandler(h)

\* The assertion of sys_timeout fails for nothing but an empty pool.
PoolEmpty == failed # NULL => Len(next_timeout) = MEMP_NUM_SYS_TIMEOUT

\* The TCP timer is scheduled or running exactly while it is active, and it is
\* active while there are connections.
TcpRuns ==
  /\ pcbs => tcpip_tcp_timer_active
  /\ failed = NULL => (tcpip_tcp_timer_active <=> Has(next_timeout, TCP) \/ Running(TCP))

\* Every other timer of the stack is scheduled or running, and found a free entry
\* unless it calls the application back.
CyclicRun ==
  \A i \in DOMAIN Cyclic : /\ failed = Cyclic[i].h => failed \in CallsBack
                           /\ failed = NULL => Has(next_timeout, Cyclic[i].h) \/ Running(Cyclic[i].h)

\* The time since the handlers called last were due.
Elapsed == IF check = NULL THEN Ahead(timeouts_last_time, clock)
           ELSE check.diff + Ahead(check.now, clock)

\* What really remains is what is left less the time elapsed, and is not overdue
\* by late or more.
Exact(list, elapsed, late) ==
  \A i \in 1..Len(list) : list[i].wait = list[i].left - elapsed /\ list[i].wait >= 1 - late

\* While the main loop is prompt: what is left by the clock is what is left by
\* the times of the handlers called, less the time since they were due.  Nothing
\* is overdue, and what is due is due only between a tick and the next check.
PromptExact ==
  prompt =>
    /\ lag <= 1
    /\ Exact(next_timeout, Elapsed, lag)
    /\ check # NULL => check.diff = Ahead(timeouts_last_time, check.now)
    /\ check # NULL /\ check.handler # NULL =>
         check.wait = 0 /\ check.diff = 0 /\ check.now = clock /\ lag = 1

TimeoutsInv ==
  /\ Typed /\ AddsUp(next_timeout) /\ CheckLags /\ RoomForOwn
  /\ OneEach /\ PoolEmpty /\ TcpRuns /\ CyclicRun /\ PromptExact
-----------------------------------------------------------------------------
\* The handlers of the stack are not the application's.
LEMMA HandlersDiffer ==
  /\ NULL \notin Handlers /\ TCP \in Handlers /\ TCP \notin Application /\ Application \subseteq Handlers
  /\ \A i \in DOMAIN Cyclic : Cyclic[i].h \in Handlers /\ Cyclic[i].h \notin Application /\ Cyclic[i].h # TCP
                              /\ Cyclic[i].msecs \in 1..Modulus - 1
  /\ NULL \notin Checks
  /\ TCP_TMR_INTERVAL \in 1..Modulus - 1 /\ Delays \subseteq 1..Modulus - 1
<1>1. Checks \subseteq [now : Int, diff : Int, handler : Handlers \cup {NULL}, wait : Int]
  BY ClockWidth DEF Checks
<1> QED
  BY <1>1, TimeoutsAssumption DEF Handlers, StackHandlers

\* Which handlers are the stack's, and which of them call the application back.
LEMMA StackHandlersAre ==
  /\ TCP \in StackHandlers /\ \A i \in DOMAIN Cyclic : Cyclic[i].h \in StackHandlers
  /\ \A h \in StackHandlers : h \in Handlers /\ h # NULL /\ h \notin Application
  /\ \A h \in Handlers : h \in Application \/ h \in StackHandlers
  /\ \A h \in CallsBack : h # NULL /\ h \in StackHandlers /\ h # TCP
BY TimeoutsAssumption DEF Handlers, StackHandlers

\* The stack starts with its cyclic timers and no other.
LEMMA InitKeeps == Init => TimeoutsInv
<1> SUFFICES ASSUME Init PROVE TimeoutsInv
  OBVIOUS
<1> DEFINE N == Len(Cyclic)
<1>0. N \in Nat /\ DOMAIN Cyclic = 1..N /\ N < MEMP_NUM_SYS_TIMEOUT /\ MEMP_NUM_SYS_TIMEOUT \in Nat
  BY TimeoutsAssumption
<1>1. /\ next_timeout = Started[N] /\ timeouts_last_time = 0 /\ clock = 0
      /\ check = NULL /\ failed = NULL /\ pcbs = FALSE /\ tcpip_tcp_timer_active = FALSE
      /\ lag = 0 /\ prompt = TRUE
  BY DEF Init, sys_timeouts_init
<1>2. StartedList(N, next_timeout)
  BY <1>1, StartedIs
<1> HIDE DEF N
<1>3. /\ next_timeout \in Seq(Entries(Handlers)) /\ Len(next_timeout) = N /\ AddsUp(next_timeout)
      /\ \A i \in 1..N : Has(next_timeout, Cyclic[i].h)
      /\ \A i \in DOMAIN Cyclic : Once(next_timeout, Cyclic[i].h)
      /\ \A j \in 1..N : next_timeout[j].h # TCP /\ next_timeout[j].wait = next_timeout[j].left
                         /\ next_timeout[j].wait >= 1
  BY <1>2 DEF StartedList
<1>4. Typed
  <2>1. 0 \in 0..Modulus - 1 /\ 0 \in 0..MaxLag /\ N <= MEMP_NUM_SYS_TIMEOUT
    BY <1>0, ClockWidth
  <2> QED
    BY <1>1, <1>3, <2>1 DEF Typed
<1>5. CheckLags /\ RoomForOwn
  BY <1>1 DEF CheckLags, RoomForOwn
<1>6. OneEach /\ PoolEmpty /\ TcpRuns
  <2>1. ~Has(next_timeout, TCP) /\ Once(next_timeout, TCP)
    BY <1>3 DEF Has, Once
  <2>2. \A h \in StackHandlers : Once(next_timeout, h)
    BY <1>3, <2>1 DEF StackHandlers
  <2> QED
    BY <1>1, <2>1, <2>2, StackHandlersAre DEF OneEach, InHandler, PoolEmpty, TcpRuns, Running
<1>7. CyclicRun
  BY <1>0, <1>1, <1>3, HandlersDiffer DEF CyclicRun
<1>8. PromptExact
  <2>1. Elapsed = 0
    BY <1>1, AheadIs, ClockWidth DEF Elapsed
  <2>2. \A j \in 1..N : next_timeout[j].left \in Int /\ next_timeout[j].wait \in Int
    <3>1. \A j \in 1..N : next_timeout[j] \in Entries(Handlers)
      BY <1>3
    <3> QED
      BY <3>1 DEF Entries
  <2>3. Exact(next_timeout, 0, 0)
    BY <1>3, <2>2 DEF Exact
  <2> QED
    BY <1>1, <2>1, <2>3 DEF PromptExact
<1> QED
  BY <1>3, <1>4, <1>5, <1>6, <1>7, <1>8 DEF TimeoutsInv
-----------------------------------------------------------------------------
(* The steps *)

\* With nothing elapsed, a list in which every timeout is exact stays so when
\* sys_timeout adds one.
LEMMA MadeExact ==
  ASSUME NEW list, NEW r, NEW h, NEW msecs \in 1..Modulus - 1, NEW late \in Nat,
         Made(list, msecs, h, r), Exact(list, 0, late)
  PROVE  Exact(r, 0, late)
<1> SUFFICES ASSUME NEW j \in 1..Len(r)
             PROVE  r[j].wait = r[j].left - 0 /\ r[j].wait >= 1 - late
  BY DEF Exact
<1>1. CASE r[j].left = msecs /\ r[j].wait = msecs /\ r[j].h = h
  BY <1>1, ClockWidth
<1>2. CASE \E i \in 1..Len(list) : Like(r[j], list[i])
  BY <1>2 DEF Like, Exact
<1> QED
  BY <1>1, <1>2 DEF Made

\* A list in which every timeout is exact stays so when sys_untimeout removes one.
LEMMA UnmadeExact ==
  ASSUME NEW list, NEW r, NEW h, NEW elapsed, NEW late,
         Unmade(list, h, r), Exact(list, elapsed, late)
  PROVE  Exact(r, elapsed, late)
BY DEF Unmade, Exact, Like

\* The parts of the invariant in which a step that leaves the time and the call
\* of sys_check_timeouts alone shows.
LEMMA ElapsedStays ==
  ASSUME UNCHANGED <<timeouts_last_time, clock, check>>
  PROVE  Elapsed' = Elapsed
BY DEF Elapsed, Ahead

\* A handler that returns leaves the list to the next round of the loop.
LEMMA HandlerDone ==
  ASSUME TimeoutsInv, check # NULL, check.handler # NULL, HandlerReturns,
         UNCHANGED <<next_timeout, timeouts_last_time, clock, lag, prompt>>
  PROVE  /\ check' \in Checks /\ check' # NULL /\ check'.handler = NULL
         /\ CheckLags' /\ RoomForOwn' /\ PromptExact'
<1>1. check \in [now : 0..Modulus - 1, diff : 0..Modulus - 1, handler : Handlers \cup {NULL}, wait : Int]
  BY DEF TimeoutsInv, Typed, Checks
<1>2. /\ check' \in Checks /\ check'.handler = NULL
      /\ check'.now = check.now /\ check'.diff = check.diff
  BY <1>1 DEF Checks, HandlerReturns
<1>3. check' # NULL
  BY <1>2, HandlersDiffer
<1>4. CheckLags' /\ RoomForOwn'
  BY <1>2 DEF TimeoutsInv, CheckLags, RoomForOwn, Ahead
<1>5. Elapsed' = Elapsed
  BY <1>2, <1>3 DEF Elapsed, Ahead
<1>6. PromptExact'
  <2>1. SUFFICES ASSUME prompt
                 PROVE  lag <= 1 /\ Exact(next_timeout, Elapsed, lag)
                        /\ check.diff = Ahead(timeouts_last_time, check.now)
    BY <1>2, <1>5 DEF PromptExact, Ahead
  <2> QED
    BY <2>1 DEF TimeoutsInv, PromptExact
<1> QED
  BY <1>2, <1>3, <1>4, <1>6

\* A handler of the stack starts its timer again: there is room, unless it calls the
\* application back, which may have taken the entry.
LEMMA StackStarts ==
  ASSUME TimeoutsInv, NEW h \in StackHandlers, NEW msecs \in 1..Modulus - 1,
         Running(h), sys_timeout(msecs, h), HandlerReturns,
         UNCHANGED <<timeouts_last_time, clock, lag, prompt>>
  PROVE  /\ \/ failed' = NULL /\ Made(next_timeout, msecs, h, next_timeout')
            \/ failed' = h /\ h \in CallsBack \cup {TCP} /\ next_timeout' = next_timeout
         /\ next_timeout' \in Seq(Entries(Handlers)) /\ Len(next_timeout') <= MEMP_NUM_SYS_TIMEOUT
         /\ AddsUp(next_timeout')
         /\ check' \in Checks /\ check' # NULL /\ check'.handler = NULL
         /\ CheckLags' /\ RoomForOwn' /\ OneEach' /\ PoolEmpty' /\ PromptExact'
<1>1. /\ failed = NULL /\ check # NULL /\ check.handler = h /\ check' = [check EXCEPT !.handler = NULL]
      /\ next_timeout \in Seq(Entries(Handlers)) /\ AddsUp(next_timeout) /\ check \in Checks
      /\ Len(next_timeout) \in Nat /\ Len(next_timeout) <= MEMP_NUM_SYS_TIMEOUT
      /\ MEMP_NUM_SYS_TIMEOUT \in Nat /\ lag \in Nat
  BY TimeoutsAssumption DEF TimeoutsInv, Typed, Running, HandlerReturns
<1>2. /\ check' \in Checks /\ check' # NULL /\ check'.handler = NULL
      /\ check'.now = check.now /\ check'.diff = check.diff
  <2>1. check \in [now : 0..Modulus - 1, diff : 0..Modulus - 1, handler : Handlers \cup {NULL}, wait : Int]
    BY <1>1 DEF Checks
  <2>2. check' \in Checks /\ check'.handler = NULL /\ check'.now = check.now /\ check'.diff = check.diff
    BY <1>1, <2>1 DEF Checks
  <2> QED
    BY <2>2, HandlersDiffer
<1>3. h \in Handlers /\ h # NULL /\ h \notin Application /\ ~Has(next_timeout, h)
  BY <1>1, StackHandlersAre DEF TimeoutsInv, OneEach, InHandler
<1>4. \A g \in StackHandlers : Once(next_timeout, g) /\ g # NULL
  BY StackHandlersAre DEF TimeoutsInv, OneEach
<1>5. CheckLags'
  BY <1>1, <1>2 DEF TimeoutsInv, CheckLags, Ahead
<1>6. RoomForOwn'
  BY <1>2 DEF RoomForOwn
<1>7. CASE Len(next_timeout) < MEMP_NUM_SYS_TIMEOUT
  <2>1. failed' = NULL /\ next_timeout' = Inserted(next_timeout, Entry(msecs, h))
    BY <1>1, <1>7 DEF sys_timeout
  <2>2. Made(next_timeout, msecs, h, next_timeout')
    BY <1>1, <1>3, <2>1, TimeoutMade
  <2>3. /\ next_timeout' \in Seq(Entries(Handlers)) /\ AddsUp(next_timeout')
        /\ Len(next_timeout') = Len(next_timeout) + 1
        /\ Once(next_timeout', h)
        /\ \A g : g # h => (Once(next_timeout, g) => Once(next_timeout', g))
    BY <1>3, <2>2 DEF Made
  <2>4. Len(next_timeout') <= MEMP_NUM_SYS_TIMEOUT
    BY <1>1, <1>7, <2>3
  <2>5. OneEach' /\ PoolEmpty'
    <3>1. \A g \in StackHandlers : Once(next_timeout', g) /\ failed' # g /\ ~InHandler(g)'
      BY <1>2, <1>4, <2>1, <2>3 DEF InHandler
    <3> QED
      BY <2>1, <3>1 DEF OneEach, PoolEmpty
  <2>6. PromptExact'
    <3>1. SUFFICES ASSUME prompt
                   PROVE  lag <= 1 /\ Exact(next_timeout', Elapsed', lag)
                          /\ check'.diff = Ahead(timeouts_last_time, check'.now)
      BY <1>2 DEF PromptExact, Ahead
    <3>2. /\ lag <= 1 /\ Exact(next_timeout, Elapsed, lag) /\ check.diff = 0 /\ check.now = clock
          /\ check.diff = Ahead(timeouts_last_time, check.now)
      BY <1>1, <1>3, <3>1 DEF TimeoutsInv, PromptExact
    <3>3. clock \in 0..Modulus - 1 /\ Ahead(clock, clock) = 0
      BY AheadIs, ClockWidth DEF TimeoutsInv, Typed
    <3>4. Elapsed = 0 /\ Elapsed' = 0
      BY <1>1, <1>2, <3>2, <3>3 DEF Elapsed, Ahead
    <3>5. Exact(next_timeout', 0, lag)
      BY <1>1, <2>2, <3>2, <3>4, MadeExact
    <3> QED
      BY <1>2, <3>2, <3>4, <3>5
  <2> QED
    BY <1>2, <1>5, <1>6, <2>1, <2>2, <2>3, <2>4, <2>5, <2>6
<1>8. CASE ~(Len(next_timeout) < MEMP_NUM_SYS_TIMEOUT)
  <2>1. failed' = h /\ next_timeout' = next_timeout
    BY <1>8 DEF sys_timeout
  <2>2. h \in CallsBack \cup {TCP}
    BY <1>1, <1>3, <1>8 DEF TimeoutsInv, RoomForOwn
  <2>3. OneEach' /\ PoolEmpty'
    <3>1. \A g \in StackHandlers : /\ Once(next_timeout', g) /\ ~InHandler(g)'
                                   /\ Has(next_timeout', g) => failed' # g
      BY <1>2, <1>3, <1>4, <2>1 DEF InHandler
    <3>2. Len(next_timeout') = MEMP_NUM_SYS_TIMEOUT
      BY <1>1, <1>8, <2>1
    <3> QED
      BY <3>1, <3>2 DEF OneEach, PoolEmpty
  <2>4. PromptExact'
    BY <1>1, <1>3, <2>1, HandlerDone
  <2> QED
    BY <1>1, <1>2, <1>5, <1>6, <2>1, <2>2, <2>3, <2>4
<1> QED
  BY <1>7, <1>8

\* A timer of the stack (arp_timer, ip_reass_timer, ...) keeps the invariant: it
\* makes its next timeout, for which its own entry has left room in the pool, or it
\* is one whose work calls the application.
LEMMA CyclicTimerKeeps ==
  ASSUME TimeoutsInv, NEW c \in DOMAIN Cyclic, CyclicTimer(Cyclic[c])
  PROVE  TimeoutsInv'
<1> DEFINE h == Cyclic[c].h
           m == Cyclic[c].msecs
<1>1. /\ Running(h) /\ sys_timeout(m, h) /\ HandlerReturns
      /\ UNCHANGED <<timeouts_last_time, clock, pcbs, tcpip_tcp_timer_active, lag, prompt>>
  BY DEF CyclicTimer
<1>2. h \in StackHandlers /\ h \in Handlers /\ h # NULL /\ h # TCP /\ m \in 1..Modulus - 1
  BY HandlersDiffer, StackHandlersAre
<1> HIDE DEF h, m
<1>3. /\ \/ failed' = NULL /\ Made(next_timeout, m, h, next_timeout')
         \/ failed' = h /\ h \in CallsBack \cup {TCP} /\ next_timeout' = next_timeout
      /\ next_timeout' \in Seq(Entries(Handlers)) /\ Len(next_timeout') <= MEMP_NUM_SYS_TIMEOUT
      /\ AddsUp(next_timeout')
      /\ check' \in Checks /\ check' # NULL /\ check'.handler = NULL
      /\ CheckLags' /\ RoomForOwn' /\ OneEach' /\ PoolEmpty' /\ PromptExact'
  BY <1>1, <1>2, StackStarts
<1>4. Typed'
  BY <1>1, <1>2, <1>3 DEF TimeoutsInv, Typed
<1>5. failed = NULL /\ check.handler = h /\ check # NULL
  BY <1>1 DEF Running
<1>6. CASE failed' = NULL /\ Made(next_timeout, m, h, next_timeout')
  <2>1. Has(next_timeout', h) /\ \A g : g # h => (Has(next_timeout', g) <=> Has(next_timeout, g))
    BY <1>6 DEF Made
  <2>2. TcpRuns'
    BY <1>1, <1>2, <1>3, <1>5, <1>6, <2>1, HandlersDiffer DEF TimeoutsInv, TcpRuns, Running
  <2>3. CyclicRun'
    BY <1>1, <1>2, <1>3, <1>5, <1>6, <2>1, HandlersDiffer DEF TimeoutsInv, CyclicRun, Running
  <2> QED
    BY <1>3, <1>4, <2>2, <2>3 DEF TimeoutsInv
<1>7. CASE failed' = h /\ h \in CallsBack \cup {TCP}
  <2>1. TcpRuns' /\ CyclicRun'
    BY <1>1, <1>2, <1>7 DEF TimeoutsInv, TcpRuns, CyclicRun
  <2> QED
    BY <1>3, <1>4, <2>1 DEF TimeoutsInv
<1> QED
  BY <1>3, <1>6, <1>7

\* tcp_tmr has run: the timer starts again while there are connections.
LEMMA TcpTimerKeeps ==
  ASSUME TimeoutsInv, tcpip_tcp_timer
  PROVE  TimeoutsInv'
<1>1. /\ Running(TCP) /\ HandlerReturns
      /\ UNCHANGED <<timeouts_last_time, clock, pcbs, lag, prompt>>
  BY DEF tcpip_tcp_timer
<1>2. failed = NULL /\ check.handler = TCP /\ check # NULL /\ TCP \in StackHandlers
  BY <1>1, StackHandlersAre DEF Running
<1>3. tcpip_tcp_timer_active /\ ~Has(next_timeout, TCP)
  BY <1>1, <1>2 DEF TimeoutsInv, TcpRuns, OneEach, InHandler
<1>4. CASE sys_timeout(TCP_TMR_INTERVAL, TCP) /\ UNCHANGED tcpip_tcp_timer_active
  <2>1. /\ \/ failed' = NULL /\ Made(next_timeout, TCP_TMR_INTERVAL, TCP, next_timeout')
           \/ failed' = TCP /\ next_timeout' = next_timeout
        /\ next_timeout' \in Seq(Entries(Handlers)) /\ Len(next_timeout') <= MEMP_NUM_SYS_TIMEOUT
        /\ AddsUp(next_timeout')
        /\ check' \in Checks /\ check' # NULL /\ check'.handler = NULL
        /\ CheckLags' /\ RoomForOwn' /\ OneEach' /\ PoolEmpty' /\ PromptExact'
    BY <1>1, <1>2, <1>4, HandlersDiffer, StackStarts
  <2>2. Typed'
    BY <1>1, <1>4, <2>1, HandlersDiffer DEF TimeoutsInv, Typed
  <2>3. CASE failed' = NULL /\ Made(next_timeout, TCP_TMR_INTERVAL, TCP, next_timeout')
    <3>1. Has(next_timeout', TCP) /\ \A g : g # TCP => (Has(next_timeout', g) <=> Has(next_timeout, g))
      BY <2>3 DEF Made
    <3>2. TcpRuns'
      BY <1>3, <1>4, <3>1 DEF TcpRuns
    <3>3. CyclicRun'
      BY <1>2, <2>3, <3>1, HandlersDiffer DEF TimeoutsInv, CyclicRun, Running
    <3> QED
      BY <2>1, <2>2, <3>2, <3>3 DEF TimeoutsInv
  <2>4. CASE failed' = TCP
    <3>1. TcpRuns' /\ CyclicRun'
      BY <1>3, <1>4, <2>4, HandlersDiffer DEF TcpRuns, CyclicRun
    <3> QED
      BY <2>1, <2>2, <3>1 DEF TimeoutsInv
  <2> QED
    BY <2>1, <2>3, <2>4
<1>5. CASE ~pcbs /\ tcpip_tcp_timer_active' = FALSE /\ UNCHANGED <<next_timeout, failed>>
  <2>1. /\ check' \in Checks /\ check' # NULL /\ check'.handler = NULL
        /\ CheckLags' /\ RoomForOwn' /\ PromptExact'
    BY <1>1, <1>2, <1>5, HandlersDiffer, HandlerDone
  <2>2. Typed'
    BY <1>1, <1>5, <2>1 DEF TimeoutsInv, Typed
  <2>3. OneEach' /\ PoolEmpty'
    BY <1>2, <1>5, <2>1, StackHandlersAre DEF TimeoutsInv, OneEach, InHandler, PoolEmpty
  <2>4. TcpRuns'
    BY <1>1, <1>3, <1>5, <2>1, HandlersDiffer DEF TcpRuns, Running
  <2>5. CyclicRun'
    BY <1>2, <1>5, HandlersDiffer DEF TimeoutsInv, CyclicRun, Running
  <2> QED
    BY <1>5, <2>1, <2>2, <2>3, <2>4, <2>5 DEF TimeoutsInv
<1> QED
  BY <1>4, <1>5 DEF tcpip_tcp_timer

\* The return of a handler of the application keeps the invariant.
LEMMA ApplicationReturnsKeeps ==
  ASSUME TimeoutsInv, ApplicationReturns
  PROVE  TimeoutsInv'
<1>1. /\ failed = NULL /\ check # NULL /\ check.handler \in Application /\ HandlerReturns
      /\ UNCHANGED <<next_timeout, timeouts_last_time, clock, pcbs, tcpip_tcp_timer_active, lag, prompt, failed>>
  BY DEF ApplicationReturns
<1>2. /\ check' \in Checks /\ check' # NULL /\ check'.handler = NULL
      /\ CheckLags' /\ RoomForOwn' /\ PromptExact'
  BY <1>1, HandlersDiffer, HandlerDone
<1>3. Typed'
  BY <1>1, <1>2 DEF TimeoutsInv, Typed
<1>4. OneEach' /\ PoolEmpty'
  BY <1>1, <1>2, StackHandlersAre DEF TimeoutsInv, OneEach, InHandler, PoolEmpty
<1>5. TcpRuns'
  BY <1>1, <1>2, HandlersDiffer DEF TimeoutsInv, TcpRuns, Running
<1>6. CyclicRun'
  BY <1>1, <1>2, HandlersDiffer DEF TimeoutsInv, CyclicRun, Running
<1> QED
  BY <1>1, <1>2, <1>3, <1>4, <1>5, <1>6 DEF TimeoutsInv

\* The application, in a handler or in the main loop, starts a timer or has the
\* stack start one.
LEMMA ApplicationStarts ==
  ASSUME TimeoutsInv, ApplicationRuns, NEW h \in Handlers, NEW msecs \in 1..Modulus - 1,
         sys_timeout(msecs, h), prompt' = (prompt /\ Current),
         h \in StackHandlers => ~Has(next_timeout, h) /\ ~InHandler(h),
         UNCHANGED <<timeouts_last_time, clock, check, lag>>
  PROVE  /\ \/ failed' = NULL /\ Made(next_timeout, msecs, h, next_timeout')
            \/ failed' = h /\ next_timeout' = next_timeout
         /\ next_timeout' \in Seq(Entries(Handlers)) /\ Len(next_timeout') <= MEMP_NUM_SYS_TIMEOUT
         /\ AddsUp(next_timeout') /\ prompt' \in BOOLEAN
         /\ CheckLags' /\ RoomForOwn' /\ OneEach' /\ PoolEmpty' /\ PromptExact'
<1>1. /\ failed = NULL /\ (check # NULL => check.handler \in Application \cup CallsBack \cup {TCP})
      /\ next_timeout \in Seq(Entries(Handlers)) /\ AddsUp(next_timeout)
      /\ Len(next_timeout) <= MEMP_NUM_SYS_TIMEOUT /\ Len(next_timeout) \in Nat /\ h # NULL
      /\ MEMP_NUM_SYS_TIMEOUT \in Nat /\ lag \in Nat /\ clock \in 0..Modulus - 1 /\ prompt \in BOOLEAN
  BY TimeoutsAssumption, HandlersDiffer DEF TimeoutsInv, Typed, ApplicationRuns
<1>2. CheckLags' /\ RoomForOwn'
  BY <1>1 DEF TimeoutsInv, CheckLags, RoomForOwn, Ahead
<1>3. prompt' \in BOOLEAN /\ (prompt' => prompt)
  BY <1>1
<1>0. \A g \in StackHandlers : /\ Once(next_timeout, g) /\ g # NULL
                               /\ Has(next_timeout, g) => ~InHandler(g)
                               /\ InHandler(g)' <=> InHandler(g)
  BY StackHandlersAre DEF TimeoutsInv, OneEach, InHandler
<1>4. ASSUME prompt'
      PROVE  /\ lag <= 1 /\ Exact(next_timeout, 0, lag) /\ Elapsed' = 0
             /\ check # NULL => check.diff = Ahead(timeouts_last_time, check.now)
             /\ check # NULL /\ check.handler # NULL =>
                  check.wait = 0 /\ check.diff = 0 /\ check.now = clock /\ lag = 1
  <2>1. prompt /\ Current
    BY <1>4
  <2>2. /\ lag <= 1 /\ Exact(next_timeout, Elapsed, lag)
        /\ check # NULL => check.diff = Ahead(timeouts_last_time, check.now)
        /\ check # NULL /\ check.handler # NULL =>
             check.wait = 0 /\ check.diff = 0 /\ check.now = clock /\ lag = 1
    BY <2>1 DEF TimeoutsInv, PromptExact
  <2>3. Ahead(clock, clock) = 0
    BY <1>1, AheadIs, ClockWidth
  <2>4. Elapsed = 0
    BY <1>1, <2>1, <2>2, <2>3, HandlersDiffer, StackHandlersAre DEF Elapsed, Current
  <2>5. Elapsed' = Elapsed
    BY ElapsedStays
  <2> QED
    BY <2>2, <2>4, <2>5
<1>5. CASE Len(next_timeout) < MEMP_NUM_SYS_TIMEOUT
  <2>1. failed' = NULL /\ next_timeout' = Inserted(next_timeout, Entry(msecs, h))
    BY <1>1, <1>5 DEF sys_timeout
  <2>2. Made(next_timeout, msecs, h, next_timeout')
    BY <1>1, <2>1, TimeoutMade
  <2>3. /\ next_timeout' \in Seq(Entries(Handlers)) /\ AddsUp(next_timeout')
        /\ Len(next_timeout') = Len(next_timeout) + 1
        /\ ~Has(next_timeout, h) => Once(next_timeout', h)
        /\ \A g : g # h => /\ Has(next_timeout', g) <=> Has(next_timeout, g)
                           /\ Once(next_timeout, g) => Once(next_timeout', g)
    BY <2>2 DEF Made
  <2>4. Len(next_timeout') <= MEMP_NUM_SYS_TIMEOUT
    BY <1>1, <1>5, <2>3
  <2>5. ASSUME prompt' PROVE Exact(next_timeout', 0, lag)
    BY <1>1, <1>4, <2>2, <2>5, MadeExact
  <2>6. PromptExact'
    BY <1>4, <2>5 DEF PromptExact, Ahead
  <2>7. OneEach' /\ PoolEmpty'
    BY <1>0, <2>1, <2>3 DEF OneEach, PoolEmpty
  <2> QED
    BY <1>2, <1>3, <2>1, <2>2, <2>3, <2>4, <2>6, <2>7
<1>6. CASE ~(Len(next_timeout) < MEMP_NUM_SYS_TIMEOUT)
  <2>1. failed' = h /\ next_timeout' = next_timeout
    BY <1>6 DEF sys_timeout
  <2>2. PromptExact'
    BY <1>4, <2>1 DEF PromptExact, Ahead
  <2>3. OneEach' /\ PoolEmpty'
    <3>1. Len(next_timeout') = MEMP_NUM_SYS_TIMEOUT
      BY <1>1, <1>6, <2>1
    <3> QED
      BY <1>0, <2>1, <3>1 DEF OneEach, PoolEmpty
  <2> QED
    BY <1>1, <1>2, <1>3, <2>1, <2>2, <2>3
<1> QED
  BY <1>5, <1>6

\* A connection that is opened, with the timer active or not.
LEMMA TcpRegisterKeeps ==
  ASSUME TimeoutsInv, TcpRegister
  PROVE  TimeoutsInv'
<1>1. /\ ApplicationRuns /\ pcbs' = TRUE /\ tcp_timer_needed /\ prompt' = (prompt /\ Current)
      /\ UNCHANGED <<timeouts_last_time, clock, check, lag>>
  BY DEF TcpRegister
<1>2. failed = NULL
  BY <1>1 DEF ApplicationRuns
<1>3. CASE tcpip_tcp_timer_active
  <2>1. UNCHANGED <<next_timeout, failed, tcpip_tcp_timer_active>>
    BY <1>1, <1>3 DEF tcp_timer_needed
  <2>2. CheckLags' /\ RoomForOwn'
    BY <1>1, <2>1 DEF TimeoutsInv, CheckLags, RoomForOwn, Ahead
  <2>3. prompt' \in BOOLEAN /\ (prompt' => prompt)
    BY <1>1 DEF TimeoutsInv, Typed
  <2>4. PromptExact'
    <3>1. Elapsed' = Elapsed
      BY <1>1, ElapsedStays
    <3> QED
      BY <1>1, <2>1, <2>3, <3>1 DEF TimeoutsInv, PromptExact, Ahead
  <2>5. Typed'
    BY <1>1, <2>1, <2>3 DEF TimeoutsInv, Typed
  <2>6. TcpRuns'
    BY <1>1, <1>3, <2>1 DEF TimeoutsInv, TcpRuns, Running
  <2>7. CyclicRun'
    BY <1>1, <2>1 DEF TimeoutsInv, CyclicRun, Running
  <2>8. OneEach' /\ PoolEmpty'
    BY <1>1, <2>1 DEF TimeoutsInv, OneEach, InHandler, PoolEmpty
  <2> QED
    BY <2>1, <2>2, <2>4, <2>5, <2>6, <2>7, <2>8 DEF TimeoutsInv
<1>4. CASE ~tcpip_tcp_timer_active
  <2>1. tcpip_tcp_timer_active' = TRUE /\ sys_timeout(TCP_TMR_INTERVAL, TCP)
    BY <1>1, <1>4 DEF tcp_timer_needed
  <2>2. ~Has(next_timeout, TCP) /\ ~Running(TCP) /\ ~InHandler(TCP)
    BY <1>2, <1>4 DEF TimeoutsInv, TcpRuns, Running, InHandler
  <2>3. /\ \/ failed' = NULL /\ Made(next_timeout, TCP_TMR_INTERVAL, TCP, next_timeout')
           \/ failed' = TCP /\ next_timeout' = next_timeout
        /\ next_timeout' \in Seq(Entries(Handlers)) /\ Len(next_timeout') <= MEMP_NUM_SYS_TIMEOUT
        /\ AddsUp(next_timeout') /\ prompt' \in BOOLEAN
        /\ CheckLags' /\ RoomForOwn' /\ OneEach' /\ PoolEmpty' /\ PromptExact'
    BY <1>1, <2>1, <2>2, HandlersDiffer, ApplicationStarts
  <2>4. Typed'
    BY <1>1, <2>1, <2>3, HandlersDiffer DEF TimeoutsInv, Typed
  <2>5. CASE failed' = NULL /\ Made(next_timeout, TCP_TMR_INTERVAL, TCP, next_timeout')
    <3>1. /\ Has(next_timeout', TCP)
          /\ \A g : g # TCP => (Has(next_timeout', g) <=> Has(next_timeout, g))
      BY <2>5 DEF Made
    <3>2. TcpRuns'
      BY <2>1, <3>1 DEF TcpRuns
    <3>3. CyclicRun'
      BY <1>1, <1>2, <2>5, <3>1, HandlersDiffer DEF TimeoutsInv, CyclicRun, Running
    <3> QED
      BY <2>3, <2>4, <3>2, <3>3 DEF TimeoutsInv
  <2>6. CASE failed' = TCP /\ next_timeout' = next_timeout
    <3>1. TcpRuns' /\ CyclicRun'
      BY <2>1, <2>6, HandlersDiffer DEF TcpRuns, CyclicRun
    <3> QED
      BY <2>3, <2>4, <3>1 DEF TimeoutsInv
  <2> QED
    BY <2>3, <2>5, <2>6
<1> QED
  BY <1>3, <1>4

\* The end of the last connection keeps the invariant; the timer stops by itself.
LEMMA TcpRemoveKeeps ==
  ASSUME TimeoutsInv, TcpRemove
  PROVE  TimeoutsInv'
<1>1. /\ pcbs' = FALSE
      /\ UNCHANGED <<next_timeout, timeouts_last_time, clock, check, tcpip_tcp_timer_active, lag, prompt, failed>>
  BY DEF TcpRemove
<1>2. Typed' /\ AddsUp(next_timeout)' /\ CheckLags' /\ RoomForOwn'
  BY <1>1 DEF TimeoutsInv, Typed, CheckLags, RoomForOwn, Ahead
<1>3. OneEach' /\ PoolEmpty' /\ TcpRuns' /\ CyclicRun'
  BY <1>1 DEF TimeoutsInv, OneEach, InHandler, PoolEmpty, TcpRuns, CyclicRun, Running
<1>4. PromptExact'
  BY <1>1, ElapsedStays DEF TimeoutsInv, PromptExact, Ahead
<1> QED
  BY <1>2, <1>3, <1>4 DEF TimeoutsInv

\* The application starts or stops a timeout of its own.
LEMMA ApplicationTimeoutKeeps ==
  ASSUME TimeoutsInv, NEW h \in Application, ApplicationTimeout(h)
  PROVE  TimeoutsInv'
<1>1. /\ ApplicationRuns
      /\ UNCHANGED <<timeouts_last_time, clock, check, pcbs, tcpip_tcp_timer_active, lag>>
  BY DEF ApplicationTimeout
<1>2. failed = NULL /\ (check # NULL => check.handler \in Application \cup CallsBack \cup {TCP})
  BY <1>1 DEF ApplicationRuns
<1>3. /\ h \in Handlers /\ h \notin StackHandlers /\ h # TCP /\ h # NULL
      /\ \A i \in DOMAIN Cyclic : Cyclic[i].h # h
  BY HandlersDiffer, StackHandlersAre
<1>4. CASE \E msecs \in Delays : sys_timeout(msecs, h) /\ prompt' = (prompt /\ Current)
  <2>1. PICK msecs \in Delays : sys_timeout(msecs, h) /\ prompt' = (prompt /\ Current)
    BY <1>4
  <2>2. msecs \in 1..Modulus - 1
    BY HandlersDiffer
  <2>3. /\ \/ failed' = NULL /\ Made(next_timeout, msecs, h, next_timeout')
           \/ failed' = h /\ next_timeout' = next_timeout
        /\ next_timeout' \in Seq(Entries(Handlers)) /\ Len(next_timeout') <= MEMP_NUM_SYS_TIMEOUT
        /\ AddsUp(next_timeout') /\ prompt' \in BOOLEAN
        /\ CheckLags' /\ RoomForOwn' /\ OneEach' /\ PoolEmpty' /\ PromptExact'
    BY <1>1, <1>3, <2>1, <2>2, ApplicationStarts
  <2>4. Typed'
    BY <1>1, <1>3, <2>3 DEF TimeoutsInv, Typed
  <2>5. CASE failed' = NULL /\ Made(next_timeout, msecs, h, next_timeout')
    <3>1. \A g : g # h => (Has(next_timeout', g) <=> Has(next_timeout, g))
      BY <2>5 DEF Made
    <3>2. TcpRuns'
      BY <1>1, <1>2, <1>3, <2>5, <3>1 DEF TimeoutsInv, TcpRuns, Running
    <3>3. CyclicRun'
      BY <1>1, <1>2, <1>3, <2>5, <3>1, HandlersDiffer DEF TimeoutsInv, CyclicRun, Running
    <3> QED
      BY <2>3, <2>4, <3>2, <3>3 DEF TimeoutsInv
  <2>6. CASE failed' = h /\ next_timeout' = next_timeout
    <3>1. TcpRuns' /\ CyclicRun'
      BY <1>1, <1>3, <2>6 DEF TimeoutsInv, TcpRuns, CyclicRun
    <3> QED
      BY <2>3, <2>4, <3>1 DEF TimeoutsInv
  <2> QED
    BY <2>3, <2>5, <2>6
<1>5. CASE sys_untimeout(h) /\ UNCHANGED prompt
  <2>1. next_timeout' = Removed(next_timeout, h) /\ UNCHANGED <<failed, prompt>>
    BY <1>5 DEF sys_untimeout
  <2>2. /\ next_timeout \in Seq(Entries(Handlers)) /\ AddsUp(next_timeout)
        /\ Len(next_timeout) <= MEMP_NUM_SYS_TIMEOUT /\ MEMP_NUM_SYS_TIMEOUT \in Nat
    BY TimeoutsAssumption DEF TimeoutsInv, Typed
  <2>3. Unmade(next_timeout, h, next_timeout')
    BY <2>1, <2>2, TimeoutUnmade
  <2>4. /\ next_timeout' \in Seq(Entries(Handlers)) /\ AddsUp(next_timeout')
        /\ Len(next_timeout') <= Len(next_timeout)
        /\ \A g : g # h => /\ Has(next_timeout', g) <=> Has(next_timeout, g)
                           /\ Once(next_timeout, g) => Once(next_timeout', g)
    BY <2>3 DEF Unmade
  <2>5. Len(next_timeout') <= MEMP_NUM_SYS_TIMEOUT
    BY <2>2, <2>4
  <2>6. Typed'
    BY <1>1, <2>1, <2>4, <2>5 DEF TimeoutsInv, Typed
  <2>7. CheckLags' /\ RoomForOwn'
    BY <1>1, <1>2, <2>1 DEF TimeoutsInv, CheckLags, RoomForOwn, Ahead
  <2>8. OneEach' /\ PoolEmpty' /\ TcpRuns'
    <3>1. OneEach'
      BY <1>1, <1>3, <2>1, <2>4 DEF TimeoutsInv, OneEach, InHandler
    <3>2. PoolEmpty'
      BY <1>2, <2>1 DEF PoolEmpty
    <3>3. TcpRuns'
      BY <1>1, <1>2, <1>3, <2>1, <2>4 DEF TimeoutsInv, TcpRuns, Running
    <3> QED
      BY <3>1, <3>2, <3>3
  <2>9. CyclicRun'
    BY <1>1, <1>2, <1>3, <2>1, <2>4 DEF TimeoutsInv, CyclicRun, Running
  <2>10. PromptExact'
    <3>1. Elapsed' = Elapsed
      BY <1>1, ElapsedStays
    <3>2. prompt => Exact(next_timeout', Elapsed, lag)
      BY <2>3, UnmadeExact DEF TimeoutsInv, PromptExact
    <3> QED
      BY <1>1, <2>1, <3>1, <3>2 DEF TimeoutsInv, PromptExact, Ahead
  <2> QED
    BY <2>4, <2>6, <2>7, <2>8, <2>9, <2>10 DEF TimeoutsInv
<1> QED
  BY <1>4, <1>5 DEF ApplicationTimeout

\* sys_restart_timeouts keeps the invariant.
LEMMA RestartKeeps ==
  ASSUME TimeoutsInv, sys_restart_timeouts
  PROVE  TimeoutsInv'
<1>1. /\ failed = NULL /\ check = NULL /\ timeouts_last_time' = clock
      /\ prompt' = (prompt /\ Current)
      /\ UNCHANGED <<next_timeout, clock, check, pcbs, tcpip_tcp_timer_active, lag, failed>>
  BY DEF sys_restart_timeouts
<1>2. prompt' \in BOOLEAN /\ (prompt' => prompt /\ timeouts_last_time = clock)
  BY <1>1 DEF TimeoutsInv, Typed, Current
<1>3. Typed' /\ AddsUp(next_timeout)' /\ CheckLags' /\ RoomForOwn'
  BY <1>1, <1>2 DEF TimeoutsInv, Typed, CheckLags, RoomForOwn
<1>4. OneEach' /\ PoolEmpty' /\ TcpRuns' /\ CyclicRun'
  BY <1>1 DEF TimeoutsInv, OneEach, InHandler, PoolEmpty, TcpRuns, CyclicRun, Running
<1>5. PromptExact'
  <2>1. prompt' => Elapsed' = Elapsed
    BY <1>1, <1>2 DEF Elapsed, Ahead
  <2> QED
    BY <1>1, <1>2, <2>1 DEF TimeoutsInv, PromptExact
<1> QED
  BY <1>3, <1>4, <1>5 DEF TimeoutsInv

\* The start of sys_check_timeouts, which reads the clock, keeps the invariant.
LEMMA CheckBeginsKeeps ==
  ASSUME TimeoutsInv, CheckBegins
  PROVE  TimeoutsInv'
<1>1. /\ failed = NULL /\ check = NULL
      /\ UNCHANGED <<next_timeout, timeouts_last_time, clock, pcbs, tcpip_tcp_timer_active, prompt, failed>>
  BY DEF CheckBegins
<1>2. timeouts_last_time \in 0..Modulus - 1 /\ clock \in 0..Modulus - 1 /\ lag \in Nat /\ lag <= MaxLag
  BY ClockWidth DEF TimeoutsInv, Typed
<1>3. Ahead(clock, clock) = 0 /\ Ahead(timeouts_last_time, clock) \in 0..Modulus - 1
  BY <1>2, AheadIs, ClockWidth
<1>4. CASE next_timeout = <<>>
  <2>1. check' = NULL /\ lag' = 0 /\ Len(next_timeout) = 0
    BY <1>4 DEF CheckBegins
  <2>2. Typed' /\ AddsUp(next_timeout)' /\ CheckLags' /\ RoomForOwn'
    BY <1>1, <2>1, ClockWidth DEF TimeoutsInv, Typed, CheckLags, RoomForOwn
  <2>3. OneEach' /\ PoolEmpty' /\ TcpRuns' /\ CyclicRun'
    BY <1>1, <2>1 DEF TimeoutsInv, OneEach, InHandler, PoolEmpty, TcpRuns, CyclicRun, Running
  <2>4. PromptExact'
    <3>1. Exact(next_timeout', Elapsed', 0)
      BY <1>1, <2>1 DEF Exact
    <3> QED
      BY <2>1, <3>1 DEF PromptExact
  <2> QED
    BY <2>2, <2>3, <2>4 DEF TimeoutsInv
<1>5. CASE next_timeout # <<>>
  <2>1. /\ check' = [now |-> clock, diff |-> Ahead(timeouts_last_time, clock), handler |-> NULL, wait |-> 0]
        /\ lag' = lag
    BY <1>5 DEF CheckBegins, Ahead
  <2>2. check' \in Checks
    BY <1>2, <1>3, <2>1 DEF Checks
  <2>3. /\ check' # NULL /\ check'.now = clock /\ check'.handler = NULL
        /\ check'.diff = Ahead(timeouts_last_time, clock)
    BY <2>1, <2>2, HandlersDiffer
  <2>4. Typed' /\ AddsUp(next_timeout)'
    BY <1>1, <2>1, <2>2 DEF TimeoutsInv, Typed
  <2>5. CheckLags' /\ RoomForOwn'
    <3>1. Ahead(clock', clock') = 0 /\ lag' >= 0
      BY <1>1, <1>2, <1>3, <2>1
    <3> QED
      BY <1>1, <2>3, <3>1 DEF CheckLags, RoomForOwn
  <2>6. OneEach' /\ PoolEmpty' /\ TcpRuns' /\ CyclicRun'
    <3>1. OneEach' /\ PoolEmpty'
      BY <1>1, <2>3, StackHandlersAre DEF TimeoutsInv, OneEach, InHandler, PoolEmpty
    <3>2. TcpRuns' /\ CyclicRun'
      BY <1>1, <2>3, HandlersDiffer DEF TimeoutsInv, TcpRuns, CyclicRun, Running
    <3> QED
      BY <3>1, <3>2
  <2>7. PromptExact'
    <3>1. Elapsed' = Elapsed
      BY <1>1, <1>3, <2>3 DEF Elapsed, Ahead
    <3> QED
      BY <1>1, <2>1, <2>3, <3>1 DEF TimeoutsInv, PromptExact, Ahead
  <2> QED
    BY <2>4, <2>5, <2>6, <2>7 DEF TimeoutsInv
<1> QED
  BY <1>4, <1>5

\* The step of sys_check_timeouts that takes an expired entry off the list and
\* calls its handler keeps the invariant.
LEMMA CallHandlerKeeps ==
  ASSUME TimeoutsInv, CallHandler
  PROVE  TimeoutsInv'
<1>1. PICK t \in Entries(Handlers) : t = next_timeout[1] /\ t = Head(next_timeout)
  BY DEF TimeoutsInv, Typed, CallHandler, Expired
<1>2. /\ failed = NULL /\ check # NULL /\ check.handler = NULL /\ next_timeout # <<>>
      /\ t.time <= check.diff /\ timeouts_last_time' = check.now
      /\ check' = [check EXCEPT !.diff = check.diff - t.time, !.handler = t.h, !.wait = t.wait]
      /\ next_timeout' = Rest(next_timeout)
      /\ UNCHANGED <<clock, pcbs, tcpip_tcp_timer_active, lag, prompt, failed>>
  BY <1>1 DEF CallHandler, Expired, Rest
<1>3. /\ next_timeout \in Seq(Entries(Handlers)) /\ AddsUp(next_timeout)
      /\ Len(next_timeout) \in Nat /\ Len(next_timeout) >= 1 /\ Len(next_timeout) <= MEMP_NUM_SYS_TIMEOUT
      /\ MEMP_NUM_SYS_TIMEOUT \in Nat
  BY <1>2, TimeoutsAssumption DEF TimeoutsInv, Typed
<1>4. t.h \in Handlers /\ t.h # NULL /\ t.time \in Nat /\ t.left \in Int /\ t.wait \in Int
  BY HandlersDiffer DEF Entries
<1>5. Called(next_timeout, next_timeout')
  BY <1>2, <1>3, HeadCalled
<1>6. /\ next_timeout' \in Seq(Entries(Handlers)) /\ Len(next_timeout') = Len(next_timeout) - 1
      /\ AddsUp(next_timeout')
      /\ \A j \in 1..Len(next_timeout') : /\ next_timeout'[j].left = next_timeout[j + 1].left - t.time
                                          /\ next_timeout'[j].wait = next_timeout[j + 1].wait
      /\ Once(next_timeout, t.h) => ~Has(next_timeout', t.h)
      /\ \A g : g # t.h => /\ Has(next_timeout', g) <=> Has(next_timeout, g)
                           /\ Once(next_timeout, g) => Once(next_timeout', g)
  BY <1>1, <1>5 DEF Called
<1>7. check \in Checks /\ check.now \in 0..Modulus - 1 /\ check.diff \in 0..Modulus - 1
  BY <1>2 DEF TimeoutsInv, Typed, Checks
<1>8. PICK d \in 0..Modulus - 1 : d = check.diff - t.time
  BY <1>2, <1>4, <1>7, ClockWidth
<1>9. /\ check' \in Checks /\ check'.now = check.now /\ check'.diff = d /\ check'.handler = t.h
      /\ check'.wait = t.wait
  <2>1. check' = [check EXCEPT !.diff = d, !.handler = t.h, !.wait = t.wait]
    BY <1>2, <1>8
  <2>2. check \in [now : 0..Modulus - 1, diff : 0..Modulus - 1, handler : Handlers \cup {NULL}, wait : Int]
    BY <1>7 DEF Checks
  <2> QED
    BY <1>4, <2>1, <2>2 DEF Checks
<1>10. check' # NULL
  BY <1>9, HandlersDiffer
<1>11. Len(next_timeout') < MEMP_NUM_SYS_TIMEOUT
  BY <1>3, <1>6
<1>12. Typed'
  <2>1. Len(next_timeout') <= MEMP_NUM_SYS_TIMEOUT
    BY <1>3, <1>6
  <2> QED
    BY <1>2, <1>6, <1>7, <1>9, <2>1 DEF TimeoutsInv, Typed
<1>13. CheckLags' /\ RoomForOwn'
  BY <1>2, <1>9, <1>11 DEF TimeoutsInv, CheckLags, RoomForOwn, Ahead
<1>14. Has(next_timeout, t.h)
  BY <1>1, <1>3 DEF Has
<1>15. OneEach' /\ PoolEmpty' /\ TcpRuns'
  <2>1. ASSUME NEW h \in StackHandlers
        PROVE  Once(next_timeout', h) /\ (Has(next_timeout', h) => failed' # h /\ ~InHandler(h)')
    <3>1. Once(next_timeout, h) /\ h # NULL
      BY StackHandlersAre DEF TimeoutsInv, OneEach
    <3>2. CASE t.h = h
      <4>1. ~Has(next_timeout', h)
        BY <1>6, <3>1, <3>2
      <4> QED
        BY <4>1 DEF Has, Once
    <3>3. CASE t.h # h
      BY <1>2, <1>6, <1>9, <3>1, <3>3 DEF InHandler
    <3> QED
      BY <3>2, <3>3
  <2>2. OneEach' /\ PoolEmpty'
    BY <1>2, <2>1 DEF OneEach, PoolEmpty
  <2>3. TcpRuns'
    <3>1. CASE t.h = TCP
      <4>1. tcpip_tcp_timer_active
        BY <1>2, <1>14, <3>1 DEF TimeoutsInv, TcpRuns
      <4> QED
        BY <1>2, <1>9, <1>10, <3>1, <4>1 DEF TcpRuns, Running
    <3>2. CASE t.h # TCP
      BY <1>2, <1>6, <1>9, <3>2, HandlersDiffer DEF TimeoutsInv, TcpRuns, Running
    <3> QED
      BY <3>1, <3>2
  <2> QED
    BY <2>2, <2>3
<1>16. CyclicRun'
  BY <1>2, <1>6, <1>9, <1>10, HandlersDiffer DEF TimeoutsInv, CyclicRun, Running
<1>17. PromptExact'
  <2>1. SUFFICES ASSUME prompt
                 PROVE  /\ lag = 1 /\ Exact(next_timeout', Elapsed', 1)
                        /\ d = Ahead(check.now, check.now)
                        /\ t.wait = 0 /\ d = 0 /\ check.now = clock
    BY <1>2, <1>9, <1>10 DEF PromptExact, Ahead
  <2>2. clock \in 0..Modulus - 1 /\ lag \in Nat
    BY ClockWidth DEF TimeoutsInv, Typed
  <2>3. PICK a \in 0..Modulus - 1 : a = Ahead(check.now, clock)
                                    /\ a = IF clock >= check.now THEN clock - check.now ELSE clock - check.now + Modulus
    BY <1>7, <2>2, AheadIs
  <2>4. /\ lag <= 1 /\ Exact(next_timeout, check.diff + a, lag)
    BY <1>2, <2>1, <2>3 DEF TimeoutsInv, PromptExact, Elapsed
  <2>5. t.time = t.left
    <3>1. 1 \in 1..Len(next_timeout) /\ Left(next_timeout, 1) = t.left /\ Left(next_timeout, 1 - 1) = 0
      BY <1>1, <1>3 DEF Left
    <3>2. t.time = Left(next_timeout, 1) - Left(next_timeout, 1 - 1)
      BY <1>1, <1>3, <3>1 DEF AddsUp
    <3> QED
      BY <1>4, <3>1, <3>2
  <2>6. t.wait = t.left - (check.diff + a) /\ t.wait >= 1 - lag
    BY <1>1, <1>3, <2>4 DEF Exact
  <2>7. lag = 1 /\ a = 0 /\ t.wait = 0 /\ d = 0 /\ check.diff = t.time
    <3>1. \A x, y, u, w, l \in Int :
            x <= y /\ w = x - (y + u) /\ w >= 1 - l /\ l <= 1 /\ u >= 0 => l = 1 /\ u = 0 /\ w = 0 /\ y = x
      OBVIOUS
    <3>2. /\ t.time \in Int /\ check.diff \in Int /\ a \in Int /\ t.wait \in Int /\ lag \in Int /\ a >= 0
      BY <1>4, <1>7, <2>2, <2>3, ClockWidth
    <3>3. t.wait = t.time - (check.diff + a)
      BY <2>5, <2>6
    <3>4. lag = 1 /\ a = 0 /\ t.wait = 0 /\ check.diff = t.time
      BY <1>2, <2>4, <2>6, <3>1, <3>2, <3>3
    <3> QED
      BY <1>8, <3>2, <3>4
  <2>8. check.now = clock
    BY <1>7, <2>2, <2>3, <2>7, ClockWidth
  <2>9. Ahead(check.now, check.now) = 0
    BY <1>7, AheadSelf
  <2>10. Elapsed' = 0
    BY <1>2, <1>9, <1>10, <2>7, <2>8, <2>9 DEF Elapsed, Ahead
  <2>11. Exact(next_timeout', 0, 1)
    <3> SUFFICES ASSUME NEW j \in 1..Len(next_timeout')
                 PROVE  next_timeout'[j].wait = next_timeout'[j].left - 0 /\ next_timeout'[j].wait >= 1 - 1
      BY DEF Exact
    <3>1. j + 1 \in 1..Len(next_timeout)
      BY <1>3, <1>6
    <3>2. next_timeout[j + 1].wait = next_timeout[j + 1].left - (check.diff + a) /\ next_timeout[j + 1].wait >= 1 - 1
      BY <2>4, <2>7, <3>1 DEF Exact
    <3>3. next_timeout[j + 1].left \in Int /\ next_timeout[j + 1].wait \in Int
      <4>1. next_timeout[j + 1] \in Entries(Handlers)
        BY <1>3, <3>1
      <4> QED
        BY <4>1 DEF Entries
    <3>4. PICK u \in Int, w \in Int, v \in Int :
            u = next_timeout[j + 1].left /\ w = next_timeout[j + 1].wait /\ v = t.time
      BY <1>4, <3>3
    <3>5. next_timeout'[j].left = u - v /\ next_timeout'[j].wait = w
      BY <1>6, <3>4
    <3>6. w = u - (v + 0) /\ w >= 1 - 1
      BY <2>7, <3>2, <3>4
    <3>7. w = (u - v) - 0
      BY <3>6
    <3> QED
      BY <3>5, <3>6, <3>7
  <2> QED
    BY <2>7, <2>8, <2>9, <2>10, <2>11
<1> QED
  BY <1>6, <1>12, <1>13, <1>15, <1>16, <1>17 DEF TimeoutsInv

\* The head has not expired, so that no other entry has.
LEMMA CheckReturnsKeeps ==
  ASSUME TimeoutsInv, CheckReturns
  PROVE  TimeoutsInv'
<1>1. /\ failed = NULL /\ check # NULL /\ check.handler = NULL /\ ~Expired(check.diff)
      /\ check' = NULL /\ lag' = Ahead(check.now, clock)
      /\ UNCHANGED <<next_timeout, timeouts_last_time, clock, pcbs, tcpip_tcp_timer_active, prompt, failed>>
  BY DEF CheckReturns, Ahead
<1>2. /\ next_timeout \in Seq(Entries(Handlers)) /\ AddsUp(next_timeout)
      /\ timeouts_last_time \in 0..Modulus - 1 /\ clock \in 0..Modulus - 1 /\ lag \in Nat /\ lag <= MaxLag
  BY ClockWidth DEF TimeoutsInv, Typed
<1>3. check.now \in 0..Modulus - 1 /\ check.diff \in 0..Modulus - 1
  BY <1>1 DEF TimeoutsInv, Typed, Checks
<1>4. PICK a \in 0..Modulus - 1 : /\ a = Ahead(check.now, clock)
                                  /\ a = IF clock >= check.now THEN clock - check.now
                                         ELSE clock - check.now + Modulus
  BY <1>2, <1>3, AheadIs
<1>5. a <= lag
  BY <1>1, <1>4 DEF TimeoutsInv, CheckLags
<1>6. Typed' /\ AddsUp(next_timeout)'
  <2>0. a \in Nat /\ a <= MaxLag
    BY <1>2, <1>5, ClockWidth
  <2>1. lag' \in 0..MaxLag
    BY <1>1, <1>4, <2>0, ClockWidth
  <2> QED
    BY <1>1, <2>1 DEF TimeoutsInv, Typed
<1>7. CheckLags' /\ RoomForOwn'
  BY <1>1 DEF CheckLags, RoomForOwn
<1>8. OneEach' /\ PoolEmpty' /\ TcpRuns' /\ CyclicRun'
  <2>1. OneEach' /\ PoolEmpty'
    BY <1>1 DEF TimeoutsInv, OneEach, InHandler, PoolEmpty
  <2>2. TcpRuns' /\ CyclicRun'
    BY <1>1, HandlersDiffer DEF TimeoutsInv, TcpRuns, CyclicRun, Running
  <2> QED
    BY <2>1, <2>2
<1>9. PromptExact'
  <2>1. SUFFICES ASSUME prompt
                 PROVE  a <= 1 /\ Exact(next_timeout, Elapsed', a)
    BY <1>1, <1>4 DEF PromptExact
  <2>2. /\ lag <= 1 /\ Exact(next_timeout, check.diff + a, lag)
        /\ check.diff = Ahead(timeouts_last_time, check.now)
    BY <1>1, <1>4, <2>1 DEF TimeoutsInv, PromptExact, Elapsed
  <2>3. a <= 1
    BY <1>2, <1>4, <1>5, <2>2
  <2>4. Elapsed' = Ahead(timeouts_last_time, clock)
    BY <1>1 DEF Elapsed, Ahead
  <2>5. Exact(next_timeout, Ahead(timeouts_last_time, clock), a)
    <3> SUFFICES ASSUME NEW i \in 1..Len(next_timeout)
                 PROVE  /\ next_timeout[i].wait = next_timeout[i].left - Ahead(timeouts_last_time, clock)
                        /\ next_timeout[i].wait >= 1 - a
      BY DEF Exact
    <3>0. /\ next_timeout # <<>> /\ Len(next_timeout) \in Nat /\ 1 \in 1..Len(next_timeout)
          /\ Head(next_timeout) = next_timeout[1]
          /\ next_timeout[1] \in Entries(Handlers) /\ next_timeout[i] \in Entries(Handlers)
      BY <1>2
    <3>1. PICK x \in Int : x = next_timeout[1].left
      BY <3>0 DEF Entries
    <3>2. PICK y \in Int : y = next_timeout[i].left
      BY <3>0 DEF Entries
    <3>3. PICK w \in Int : w = next_timeout[i].wait
      BY <3>0 DEF Entries
    <3>4. next_timeout[1].time = x
      <4>1. Left(next_timeout, 1) = x /\ Left(next_timeout, 1 - 1) = 0
        BY <3>1 DEF Left
      <4>2. next_timeout[1].time = Left(next_timeout, 1) - Left(next_timeout, 1 - 1)
        BY <1>2, <3>0 DEF AddsUp
      <4> QED
        BY <4>1, <4>2
    <3>5. PICK f \in 0..Modulus - 1 : f = check.diff
      BY <1>3
    <3>6. x > f
      BY <1>1, <3>0, <3>4, <3>5 DEF Expired
    <3>7. x <= y
      <4>1. Left(next_timeout, 1) = x /\ Left(next_timeout, i) = y
        BY <3>0, <3>1, <3>2 DEF Left
      <4>2. 1 \in 0..Len(next_timeout) /\ i \in 0..Len(next_timeout) /\ 1 <= i
        BY <3>0
      <4>3. Left(next_timeout, 1) <= Left(next_timeout, i)
        BY <1>2, <4>2, LeftIsSum
      <4> QED
        BY <4>1, <4>3
    <3>8. y <= Modulus - 1
      BY <1>2, <3>2 DEF AddsUp
    <3>9. w = y - (f + a) /\ w >= 1 - lag
      BY <2>2, <3>2, <3>3, <3>5 DEF Exact
    <3>10. w >= 1 - a /\ f + a <= Modulus - 1
      <4>1. \A p, q, r, s, t, l, M \in Int :
              /\ p > r /\ p <= q /\ q <= M - 1 /\ t = q - (r + s) /\ t >= 1 - l /\ l <= 1
              => t >= 1 - s /\ r + s <= M - 1
        OBVIOUS
      <4>2. f \in Int /\ a \in Int /\ lag \in Int /\ Modulus \in Int
        BY <1>2, ClockWidth
      <4> QED
        BY <2>2, <3>6, <3>7, <3>8, <3>9, <4>1, <4>2
    <3>11. Ahead(timeouts_last_time, clock) = f + a
      <4>1. f = Ahead(timeouts_last_time, check.now) /\ a = Ahead(check.now, clock)
        BY <1>4, <2>2, <3>5
      <4>2. Ahead(timeouts_last_time, check.now) + Ahead(check.now, clock) <= Modulus - 1
        BY <3>10, <4>1
      <4>3. Ahead(timeouts_last_time, clock) = Ahead(timeouts_last_time, check.now) + Ahead(check.now, clock)
        BY <1>2, <1>3, <4>2, AheadAdds
      <4> QED
        BY <4>1, <4>3
    <3> QED
      BY <3>2, <3>3, <3>9, <3>10, <3>11
  <2> QED
    BY <2>3, <2>4, <2>5
<1> QED
  BY <1>6, <1>7, <1>8, <1>9 DEF TimeoutsInv

\* A tick of the clock keeps the invariant.
LEMMA TickKeeps ==
  ASSUME TimeoutsInv, Tick
  PROVE  TimeoutsInv'
<1>1. /\ failed = NULL /\ lag < MaxLag /\ lag' = lag + 1 /\ clock' = (clock + 1) % Modulus
      /\ prompt' = (prompt /\ lag = 0) /\ next_timeout' = Later(next_timeout)
      /\ UNCHANGED <<timeouts_last_time, check, pcbs, tcpip_tcp_timer_active, failed>>
  BY DEF Tick, Later
<1>2. /\ next_timeout \in Seq(Entries(Handlers)) /\ AddsUp(next_timeout)
      /\ Len(next_timeout) <= MEMP_NUM_SYS_TIMEOUT
      /\ timeouts_last_time \in 0..Modulus - 1 /\ clock \in 0..Modulus - 1
      /\ lag \in Nat /\ MaxLag \in Nat /\ prompt \in BOOLEAN
      /\ check # NULL => check \in Checks
  BY ClockWidth DEF TimeoutsInv, Typed
<1>3. /\ next_timeout' \in Seq(Entries(Handlers)) /\ Len(next_timeout') = Len(next_timeout)
      /\ AddsUp(next_timeout')
      /\ \A i \in 1..Len(next_timeout) :
           /\ next_timeout'[i].h = next_timeout[i].h /\ next_timeout'[i].left = next_timeout[i].left
           /\ next_timeout[i].wait \in Int /\ next_timeout[i].left \in Int
           /\ next_timeout[i].wait >= 0 => next_timeout'[i].wait = next_timeout[i].wait - 1
      /\ \A g : /\ Has(next_timeout', g) <=> Has(next_timeout, g)
                /\ Once(next_timeout', g) <=> Once(next_timeout, g)
  BY <1>1, <1>2, LaterIs
<1>4. clock' \in 0..Modulus - 1 /\ lag' \in 0..MaxLag /\ prompt' \in BOOLEAN
      /\ (prompt' => prompt /\ lag = 0 /\ lag' = 1)
  <2>1. clock' \in 0..Modulus - 1
    BY <1>1, <1>2, NextTick
  <2>2. lag' \in 0..MaxLag /\ (lag = 0 => lag' = 1)
    BY <1>1, <1>2
  <2> QED
    BY <1>1, <1>2, <2>1, <2>2
<1>5. Typed'
  BY <1>1, <1>2, <1>3, <1>4 DEF TimeoutsInv, Typed
<1>6. check # NULL => check.now \in 0..Modulus - 1 /\ check.diff \in 0..Modulus - 1
  BY <1>2 DEF Checks
<1>7. CheckLags'
  <2> SUFFICES ASSUME check # NULL
               PROVE  Ahead(check.now, clock') <= lag'
    BY <1>1 DEF CheckLags, Ahead
  <2>1. Ahead(check.now, clock) <= lag /\ Ahead(check.now, clock) \in 0..Modulus - 1
    BY <1>2, <1>6, AheadIs DEF TimeoutsInv, CheckLags
  <2>2. Ahead(check.now, clock) + 1 < Modulus
    BY <1>1, <1>2, <2>1, ClockWidth
  <2>3. Ahead(check.now, clock') = Ahead(check.now, clock) + 1
    BY <1>1, <1>2, <1>6, <2>2, NextTick
  <2> QED
    BY <1>1, <1>2, <2>1, <2>3
<1>8. RoomForOwn'
  BY <1>1, <1>3 DEF TimeoutsInv, RoomForOwn
<1>9. OneEach' /\ PoolEmpty' /\ TcpRuns'
  BY <1>1, <1>3 DEF TimeoutsInv, OneEach, InHandler, PoolEmpty, TcpRuns, Running
<1>10. CyclicRun'
  BY <1>1, <1>3 DEF TimeoutsInv, CyclicRun, Running
<1>11. PromptExact'
  <2>1. SUFFICES ASSUME prompt, lag = 0
                 PROVE  /\ Exact(next_timeout', Elapsed', 1)
                        /\ check # NULL => check.diff = Ahead(timeouts_last_time, check.now) /\ check.handler = NULL
    <3>1. prompt' => prompt /\ lag = 0 /\ lag' = 1 /\ lag' <= 1
      BY <1>4
    <3>2. check # NULL => Ahead(timeouts_last_time, check.now)' = Ahead(timeouts_last_time, check.now)
      BY <1>1 DEF Ahead
    <3> QED
      BY <1>1, <2>1, <3>1, <3>2 DEF PromptExact
  <2>2. /\ Exact(next_timeout, Elapsed, 0)
        /\ check # NULL => check.diff = Ahead(timeouts_last_time, check.now)
        /\ check # NULL => check.handler = NULL
    <3>1. /\ Exact(next_timeout, Elapsed, lag)
          /\ check # NULL => check.diff = Ahead(timeouts_last_time, check.now)
          /\ check # NULL /\ check.handler # NULL => lag = 1
      BY <2>1 DEF TimeoutsInv, PromptExact
    <3>2. lag # 1
      BY <2>1
    <3> QED
      BY <2>1, <3>1, <3>2
  <2>3. Elapsed \in Nat /\ (Elapsed + 1 < Modulus => Elapsed' = Elapsed + 1)
    <3>1. CASE check = NULL
      <4>1. Elapsed = Ahead(timeouts_last_time, clock) /\ Elapsed' = Ahead(timeouts_last_time, clock')
        BY <1>1, <3>1 DEF Elapsed, Ahead
      <4>2. Elapsed \in 0..Modulus - 1
        BY <1>2, <4>1, AheadIs
      <4>3. Elapsed + 1 < Modulus => Elapsed' = Elapsed + 1
        BY <1>1, <1>2, <4>1, NextTick
      <4> QED
        BY <4>2, <4>3, ClockWidth
    <3>2. CASE check # NULL
      <4>1. /\ Elapsed = check.diff + Ahead(check.now, clock)
            /\ Elapsed' = check.diff + Ahead(check.now, clock')
        BY <1>1, <3>2 DEF Elapsed, Ahead
      <4>2. PICK a \in 0..Modulus - 1 : a = Ahead(check.now, clock)
        BY <1>2, <1>6, <3>2, AheadIs
      <4>3. a + 1 < Modulus => Ahead(check.now, clock') = a + 1
        BY <1>1, <1>2, <1>6, <3>2, <4>2, NextTick
      <4>4. PICK f \in 0..Modulus - 1 : f = check.diff
        BY <1>6, <3>2
      <4>5. Elapsed = f + a
        BY <4>1, <4>2, <4>4
      <4>6. Elapsed + 1 < Modulus => a + 1 < Modulus
        BY <4>5, ClockWidth
      <4>7. a + 1 < Modulus => Elapsed' = f + (a + 1)
        BY <4>1, <4>3, <4>4
      <4> QED
        BY <4>5, <4>6, <4>7, ClockWidth
    <3> QED
      BY <3>1, <3>2
  <2>4. Exact(next_timeout', Elapsed', 1)
    <3> SUFFICES ASSUME NEW i \in 1..Len(next_timeout)
                 PROVE  /\ next_timeout'[i].wait = next_timeout'[i].left - Elapsed'
                        /\ next_timeout'[i].wait >= 1 - 1
      BY <1>3 DEF Exact
    <3>1. PICK y \in Int : y = next_timeout[i].left /\ y = next_timeout'[i].left
      BY <1>3
    <3>2. PICK w \in Int : w = next_timeout[i].wait
      BY <1>3
    <3>3. y <= Modulus - 1
      BY <1>2, <3>1 DEF AddsUp
    <3>4. PICK t \in Nat : t = Elapsed
      BY <2>3
    <3>5. next_timeout[i].wait = next_timeout[i].left - t /\ next_timeout[i].wait >= 1 - 0
      BY <2>2, <3>4 DEF Exact
    <3>6. w = y - t /\ w >= 1
      <4>1. w = y - t /\ w >= 1 - 0
        BY <3>1, <3>2, <3>5, Zenon
      <4> QED
        BY <4>1
    <3>7. t + 1 < Modulus /\ w >= 0
      BY <3>3, <3>6, ClockWidth
    <3>8. next_timeout'[i].wait = w - 1 /\ Elapsed' = t + 1
      BY <1>3, <2>3, <3>2, <3>4, <3>7
    <3>9. w - 1 = y - (t + 1) /\ w - 1 >= 1 - 1
      BY <3>6
    <3> QED
      BY <3>1, <3>8, <3>9
  <2> QED
    BY <2>2, <2>4
<1> QED
  BY <1>3, <1>5, <1>7, <1>8, <1>9, <1>10, <1>11 DEF TimeoutsInv
-----------------------------------------------------------------------------
(* The theorems *)

\* Nothing the main loop, a handler, a connection or the clock does breaks the
\* invariant.
THEOREM TimeoutsInvariance == Spec => []TimeoutsInv
<1>1. Init => TimeoutsInv
  BY InitKeeps
<1>2. TimeoutsInv /\ [Next]_vars => TimeoutsInv'
  <2> SUFFICES ASSUME TimeoutsInv, [Next]_vars
               PROVE  TimeoutsInv'
    OBVIOUS
  <2>1. CASE Tick
    BY <2>1, TickKeeps
  <2>2. CASE CheckBegins
    BY <2>2, CheckBeginsKeeps
  <2>3. CASE CallHandler
    BY <2>3, CallHandlerKeeps
  <2>4. CASE CheckReturns
    BY <2>4, CheckReturnsKeeps
  <2>5. CASE \E i \in DOMAIN Cyclic : CyclicTimer(Cyclic[i])
    BY <2>5, CyclicTimerKeeps
  <2>6. CASE tcpip_tcp_timer
    BY <2>6, TcpTimerKeeps
  <2>7. CASE ApplicationReturns
    BY <2>7, ApplicationReturnsKeeps
  <2>8. CASE sys_restart_timeouts
    BY <2>8, RestartKeeps
  <2>9. CASE TcpRegister
    BY <2>9, TcpRegisterKeeps
  <2>10. CASE TcpRemove
    BY <2>10, TcpRemoveKeeps
  <2>11. CASE \E h \in Application : ApplicationTimeout(h)
    BY <2>11, ApplicationTimeoutKeeps
  <2>12. CASE UNCHANGED vars
    <3>1. UNCHANGED <<next_timeout, timeouts_last_time, clock, check, pcbs, tcpip_tcp_timer_active, lag, prompt, failed>>
      BY <2>12 DEF vars
    <3>2. Typed' /\ AddsUp(next_timeout)' /\ CheckLags' /\ RoomForOwn'
      BY <3>1 DEF TimeoutsInv, Typed, CheckLags, RoomForOwn, Ahead
    <3>3. OneEach' /\ PoolEmpty' /\ TcpRuns' /\ CyclicRun'
      BY <3>1 DEF TimeoutsInv, OneEach, InHandler, PoolEmpty, TcpRuns, CyclicRun, Running
    <3>4. PromptExact'
      BY <3>1, ElapsedStays DEF TimeoutsInv, PromptExact, Ahead
    <3> QED
      BY <3>2, <3>3, <3>4 DEF TimeoutsInv
  <2> QED
    BY <2>1, <2>2, <2>3, <2>4, <2>5, <2>6, <2>7, <2>8, <2>9, <2>10, <2>11, <2>12
    DEF Next, sys_check_timeouts
<1> QED
  BY <1>1, <1>2, PTL DEF Spec

\* However timeouts are inserted, removed and called, the differences add up for
\* each entry to the time it asked for less the times of the handlers called
\* since, and never become negative or wrap (sys_timeout, sys_untimeout and
\* sys_check_timeouts of timers.c).
THEOREM DifferencesAlwaysAddUp == Spec => []DifferencesAddUp
<1>1. TimeoutsInv => DifferencesAddUp
  <2> SUFFICES ASSUME TimeoutsInv PROVE DifferencesAddUp
    OBVIOUS
  <2>1. /\ next_timeout \in Seq(Entries(Handlers)) /\ AddsUp(next_timeout)
        /\ Len(next_timeout) \in Nat /\ DOMAIN next_timeout = 1..Len(next_timeout)
    BY DEF TimeoutsInv, Typed
  <2>2. ASSUME NEW i \in DOMAIN next_timeout
        PROVE  /\ next_timeout[i].time \in 0..Modulus - 1
               /\ next_timeout[i].time = next_timeout[i].left - (IF i = 1 THEN 0 ELSE next_timeout[i - 1].left)
    <3>1. i \in 1..Len(next_timeout) /\ i \in 0..Len(next_timeout) /\ i - 1 \in 0..Len(next_timeout)
      BY <2>1
    <3>2. /\ Left(next_timeout, i) = next_timeout[i].left
          /\ Left(next_timeout, i - 1) = IF i = 1 THEN 0 ELSE next_timeout[i - 1].left
      BY <3>1 DEF Left
    <3>3. /\ next_timeout[i].time = Left(next_timeout, i) - Left(next_timeout, i - 1)
          /\ next_timeout[i].left <= Modulus - 1
      BY <2>1, <3>1 DEF AddsUp
    <3>4. Left(next_timeout, i) \in Nat /\ Left(next_timeout, i - 1) \in Nat
      BY <2>1, <3>1, LeftIsSum
    <3>5. next_timeout[i].time \in Nat
      <4>1. next_timeout[i] \in Entries(Handlers)
        BY <2>1, <3>1
      <4> QED
        BY <4>1 DEF Entries
    <3>6. next_timeout[i].time <= Modulus - 1
      BY <3>2, <3>3, <3>4, ClockWidth
    <3> QED
      BY <3>2, <3>3, <3>5, <3>6, ClockWidth
  <2>3. TypeOK
    <3>1. check # NULL => check.now \in 0..Modulus - 1 /\ check.diff \in 0..Modulus - 1
      BY DEF TimeoutsInv, Typed, Checks
    <3> QED
      BY <2>2, <3>1 DEF TimeoutsInv, Typed, TypeOK
  <2> QED
    BY <2>2, <2>3 DEF DifferencesAddUp
<1> QED
  BY <1>1, TimeoutsInvariance, PTL

\* A timer of the stack holds one entry or runs, or it does neither.
LEMMA HeldIs ==
  ASSUME TimeoutsInv, NEW h \in StackHandlers, failed = NULL
  PROVE  Held(h) = IF Has(next_timeout, h) \/ Running(h) THEN 1 ELSE 0
<1>1. DOMAIN next_timeout = 1..Len(next_timeout)
  BY DEF TimeoutsInv, Typed
<1>2. Once(next_timeout, h) /\ (Has(next_timeout, h) => ~Running(h))
  BY DEF TimeoutsInv, OneEach, InHandler, Running
<1>3. CASE Has(next_timeout, h)
  <2>1. PICK i \in 1..Len(next_timeout) : next_timeout[i].h = h
    BY <1>3 DEF Has
  <2>2. Scheduled(h) = {i}
    BY <1>1, <1>2, <2>1 DEF Scheduled, Once
  <2>3. Cardinality(Scheduled(h)) = 1
    BY <2>2, FS_Singleton
  <2> QED
    BY <1>2, <1>3, <2>3 DEF Held
<1>4. CASE ~Has(next_timeout, h)
  <2>1. Scheduled(h) = {}
    BY <1>1, <1>4 DEF Scheduled, Has
  <2>2. Cardinality(Scheduled(h)) = 0
    BY <2>1, FS_EmptySet
  <2> QED
    BY <1>4, <2>2 DEF Held
<1> QED
  BY <1>3, <1>4

\* The stack has one timer more than the cyclic ones.
LEMMA StackHandlersCount ==
  /\ IsFiniteSet(StackHandlers) /\ Cardinality(StackHandlers) \in Nat
  /\ Cardinality(StackHandlers) <= Len(Cyclic) + 1
<1> DEFINE N == Len(Cyclic)
           f == [i \in 0..N |-> IF i = 0 THEN TCP ELSE Cyclic[i].h]
<1>1. N \in Nat /\ DOMAIN Cyclic = 1..N
  BY TimeoutsAssumption
<1> HIDE DEF N
<1>2. IsFiniteSet(0..N) /\ Cardinality(0..N) = N + 1
  BY <1>1, FS_Interval
<1>3. f \in Surjection(0..N, StackHandlers)
  <2>1. f \in [0..N -> StackHandlers]
    BY <1>1 DEF StackHandlers
  <2>2. \A h \in StackHandlers : \E i \in 0..N : f[i] = h
    <3> SUFFICES ASSUME NEW h \in StackHandlers
                 PROVE  \E i \in 0..N : f[i] = h
      OBVIOUS
    <3>1. CASE h = TCP
      <4>1. 0 \in 0..N /\ f[0] = TCP
        BY <1>1
      <4> QED
        BY <3>1, <4>1
    <3>2. CASE h # TCP
      <4>1. PICK i \in 1..N : Cyclic[i].h = h
        BY <1>1, <3>2 DEF StackHandlers
      <4>2. i \in 0..N /\ f[i] = h
        BY <1>1, <4>1
      <4> QED
        BY <4>2
    <3> QED
      BY <3>1, <3>2
  <2> QED
    BY <2>1, <2>2 DEF Surjection
<1> HIDE DEF f
<1>4. IsFiniteSet(StackHandlers) /\ Cardinality(StackHandlers) <= Cardinality(0..N)
  BY <1>2, <1>3, FS_Surjection
<1>5. Cardinality(StackHandlers) \in Nat
  BY <1>4, FS_CardinalityType
<1> QED
  BY <1>2, <1>4, <1>5 DEF N

\* Where the list holds timeouts of the application, and where of the stack.
Others == {i \in DOMAIN next_timeout : next_timeout[i].h \in Application}

Own == {i \in DOMAIN next_timeout : next_timeout[i].h \in StackHandlers}

\* When the pool is empty the timers of the stack hold one entry each at most, and
\* the one that has just failed holds none.
LEMMA OwnEntries ==
  ASSUME TimeoutsInv
  PROVE  /\ IsFiniteSet(Own) /\ Cardinality(Own) \in Nat
         /\ Cardinality(Own) <= Len(Cyclic) + 1
         /\ failed \in StackHandlers => Cardinality(Own) <= Len(Cyclic)
<1> DEFINE S == StackHandlers \ {failed}
           f == [i \in Own |-> next_timeout[i].h]
<1>1. DOMAIN next_timeout = 1..Len(next_timeout) /\ Len(next_timeout) \in Nat
  BY DEF TimeoutsInv, Typed
<1>2. \A h \in StackHandlers : Once(next_timeout, h) /\ (Has(next_timeout, h) => failed # h)
  BY DEF TimeoutsInv, OneEach
<1>3. \A i \in Own : i \in 1..Len(next_timeout) /\ next_timeout[i].h \in S
  BY <1>1, <1>2 DEF Own, Has
<1>4. f \in Injection(Own, S)
  <2>1. f \in [Own -> S]
    BY <1>3
  <2>2. \A i, j \in Own : f[i] = f[j] => i = j
    BY <1>2, <1>3 DEF Once
  <2>3. DOMAIN f = Own
    OBVIOUS
  <2> HIDE DEF f, S
  <2> QED
    BY <2>1, <2>2, <2>3 DEF Injection, IsInjective
<1> HIDE DEF f
<1>5. /\ IsFiniteSet(S)
      /\ Cardinality(S) = IF failed \in StackHandlers THEN Cardinality(StackHandlers) - 1
                          ELSE Cardinality(StackHandlers)
  BY StackHandlersCount, FS_RemoveElement
<1> HIDE DEF S
<1>6. IsFiniteSet(Own) /\ Cardinality(Own) <= Cardinality(S)
  BY <1>4, <1>5, FS_Injection
<1>7. Cardinality(Own) \in Nat
  BY <1>6, FS_CardinalityType
<1>8. Len(Cyclic) \in Nat
  BY TimeoutsAssumption
<1> QED
  BY <1>5, <1>6, <1>7, <1>8, StackHandlersCount

\* The list is made of the two.
LEMMA EntriesCount ==
  ASSUME TimeoutsInv
  PROVE  /\ Cardinality(Others) \in Nat
         /\ Len(next_timeout) = Cardinality(Others) + Cardinality(Own)
<1>1. /\ DOMAIN next_timeout = 1..Len(next_timeout) /\ Len(next_timeout) \in Nat
      /\ \A i \in 1..Len(next_timeout) : next_timeout[i] \in Entries(Handlers)
  BY DEF TimeoutsInv, Typed
<1>2. \A i \in 1..Len(next_timeout) : next_timeout[i].h \in Handlers
  BY <1>1 DEF Entries
<1>3. Others \cup Own = 1..Len(next_timeout) /\ Others \cap Own = {}
  BY <1>1, <1>2, StackHandlersAre DEF Others, Own
<1>4. IsFiniteSet(1..Len(next_timeout)) /\ Cardinality(1..Len(next_timeout)) = Len(next_timeout)
  BY <1>1, FS_Interval
<1>5. Others \in SUBSET (1..Len(next_timeout)) /\ Own \in SUBSET (1..Len(next_timeout))
  BY <1>3
<1>6. IsFiniteSet(Others) /\ IsFiniteSet(Own)
  BY <1>4, <1>5, FS_Subset
<1>7. Cardinality(Others) \in Nat /\ Cardinality(Own) \in Nat
  BY <1>6, FS_CardinalityType
<1>8. Cardinality(Others \cup Own) = Cardinality(Others) + Cardinality(Own) - Cardinality(Others \cap Own)
  BY <1>6, FS_Union
<1>9. Cardinality(Others \cap Own) = 0
  BY <1>3, FS_EmptySet
<1>10. Len(next_timeout) = Cardinality(Others) + Cardinality(Own) - 0
  BY <1>3, <1>4, <1>8, <1>9, Zenon
<1> QED
  BY <1>7, <1>10

\* Each timer of the stack is scheduled once or running, the TCP timer exactly
\* while it is active, and no connection is without it; a cyclic timer that does
\* not call the application back always finds an entry of the pool to start itself
\* again; and the pool is empty only if the application has more timeouts than the
\* pool was given beyond one entry for each timer of the stack (tcp_timer_needed,
\* tcpip_tcp_timer, the cyclic handlers and the assertion of sys_timeout in timers.c).
THEOREM StackTimersAlwaysRun == Spec => []StackTimersRun
<1>1. TimeoutsInv => StackTimersRun
  <2> SUFFICES ASSUME TimeoutsInv PROVE StackTimersRun
    OBVIOUS
  <2>1. ASSUME failed = NULL
        PROVE  /\ Held(TCP) = IF tcpip_tcp_timer_active THEN 1 ELSE 0
               /\ \A i \in DOMAIN Cyclic : Held(Cyclic[i].h) = 1
    <3>1. Held(TCP) = IF tcpip_tcp_timer_active THEN 1 ELSE 0
      <4>1. tcpip_tcp_timer_active <=> Has(next_timeout, TCP) \/ Running(TCP)
        BY <2>1 DEF TimeoutsInv, TcpRuns
      <4>2. Held(TCP) = IF Has(next_timeout, TCP) \/ Running(TCP) THEN 1 ELSE 0
        BY <2>1, StackHandlersAre, HeldIs
      <4> QED
        BY <4>1, <4>2
    <3>2. ASSUME NEW i \in DOMAIN Cyclic PROVE Held(Cyclic[i].h) = 1
      <4>1. Has(next_timeout, Cyclic[i].h) \/ Running(Cyclic[i].h)
        BY <2>1 DEF TimeoutsInv, CyclicRun
      <4>2. Held(Cyclic[i].h) = IF Has(next_timeout, Cyclic[i].h) \/ Running(Cyclic[i].h) THEN 1 ELSE 0
        BY <2>1, StackHandlersAre, HeldIs
      <4> QED
        BY <4>1, <4>2
    <3> QED
      BY <3>1, <3>2
  <2>2. ASSUME failed # NULL
        PROVE  Cardinality(Others) + (IF failed \in Application THEN 1 ELSE 0)
                 > MEMP_NUM_SYS_TIMEOUT - (Len(Cyclic) + 1)
    <3>1. Len(next_timeout) = MEMP_NUM_SYS_TIMEOUT /\ MEMP_NUM_SYS_TIMEOUT \in Nat /\ Len(Cyclic) \in Nat
      BY <2>2, TimeoutsAssumption DEF TimeoutsInv, PoolEmpty
    <3>2. failed \in Application \/ failed \in StackHandlers
      BY <2>2, StackHandlersAre DEF TimeoutsInv, Typed
    <3>3. /\ Cardinality(Own) \in Nat /\ Cardinality(Own) <= Len(Cyclic) + 1
          /\ failed \in StackHandlers => Cardinality(Own) <= Len(Cyclic)
      BY OwnEntries
    <3>4. Cardinality(Others) \in Nat /\ MEMP_NUM_SYS_TIMEOUT = Cardinality(Others) + Cardinality(Own)
      BY <3>1, EntriesCount
    <3> QED
      BY <3>1, <3>2, <3>3, <3>4
  <2> QED
    BY <2>1, <2>2 DEF TimeoutsInv, TcpRuns, CyclicRun, Others, StackTimersRun
<1> QED
  BY <1>1, TimeoutsInvariance, PTL

\* While the main loop checks every millisecond and timeouts are made when
\* timeouts_last_time is current, each handler is called in the very millisecond
\* it asked for, whatever the width of the clock that wraps.
THEOREM PromptIsAlwaysExact == Spec => []PromptIsExact
<1>1. TimeoutsInv => PromptIsExact
  BY DEF TimeoutsInv, PromptExact, PromptIsExact
<1> QED
  BY <1>1, TimeoutsInvariance, PTL
=============================================================================
