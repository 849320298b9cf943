------------------------------ MODULE Timeouts ------------------------------
(***************************************************************************)
(* The list of timeouts of core/timers.c as it runs with NO_SYS: the main  *)
(* loop calls sys_check_timeouts, which calls the handlers of the timeouts *)
(* that have expired.  The list itself is TimeoutList.                     *)
(*                                                                         *)
(* sys_now counts modulo Modulus (2^32 in the code).  The handlers are     *)
(* those of the cyclic timers of the stack, the one of the TCP timer,      *)
(* which runs only while there are connections, and the application's.     *)
(* A handler of the stack does its work first and starts itself again      *)
(* last; the work of some calls the application back.                      *)
(***************************************************************************)
EXTENDS TimeoutList

CONSTANTS Cyclic,                  \* the cyclic timers: <<[h, msecs]>>, in the order of sys_timeouts_init
          CallsBack,               \* those of them whose work calls the application back
          TCP_TMR_INTERVAL,
          Application,             \* the application's handlers
          Delays,                  \* the times it asks for
          MEMP_NUM_SYS_TIMEOUT,
          Modulus,
          MaxLag,                  \* the main loop calls sys_check_timeouts this often
          NULL

TCP == "tcpip_tcp_timer"
StackHandlers == {TCP} \cup {Cyclic[i].h : i \in DOMAIN Cyclic}
Handlers == Application \cup StackHandlers

ASSUME TimeoutsAssumption ==
  /\ Cyclic \in Seq({Cyclic[i] : i \in DOMAIN Cyclic})
  /\ MEMP_NUM_SYS_TIMEOUT \in Nat /\ Modulus \in Nat /\ MaxLag \in 1..Modulus - 1
  /\ Len(Cyclic) < MEMP_NUM_SYS_TIMEOUT
  /\ TCP_TMR_INTERVAL \in 1..Modulus - 1 /\ Delays \subseteq 1..Modulus - 1
  /\ \A i \in DOMAIN Cyclic : /\ Cyclic[i].msecs \in 1..Modulus - 1
                              /\ Cyclic[i].h \notin Application \cup {TCP, NULL}
  /\ \A i, j \in DOMAIN Cyclic : Cyclic[i].h = Cyclic[j].h => i = j
  /\ CallsBack \subseteq {Cyclic[i].h : i \in DOMAIN Cyclic}
  /\ TCP \notin Application \cup {NULL} /\ NULL \notin Application
  /\ NULL \notin [now : Int, diff : Int, handler : Handlers \cup {NULL}, wait : Int]

VARIABLES next_timeout,            \* the list
          timeouts_last_time,
          clock,                   \* sys_now()
          check,                   \* the call of sys_check_timeouts under way, or NULL
          pcbs,                    \* tcp_active_pcbs || tcp_tw_pcbs
          tcpip_tcp_timer_active,
          lag,                     \* milliseconds since sys_check_timeouts was called
          prompt,                  \* history: it was called every millisecond, and the main
                                   \* loop left time alone when timeouts_last_time was old
          failed                   \* the handler whose timeout found the pool empty, or NULL

vars == <<next_timeout, timeouts_last_time, clock, check, pcbs, tcpip_tcp_timer_active, lag, prompt, failed>>
-----------------------------------------------------------------------------
\* An empty pool fails an assertion, which ends the program.
sys_timeout(msecs, h) ==
  IF Len(next_timeout) < MEMP_NUM_SYS_TIMEOUT
  THEN next_timeout' = Inserted(next_timeout, Entry(msecs, h)) /\ UNCHANGED failed
  ELSE failed' = h /\ UNCHANGED next_timeout

sys_untimeout(h) == next_timeout' = Removed(next_timeout, h) /\ UNCHANGED failed
-----------------------------------------------------------------------------
\* The cyclic timers are started one after the other.
Started[n \in 0..Len(Cyclic)] ==
  IF n = 0 THEN <<>> ELSE Inserted(Started[n - 1], Entry(Cyclic[n].msecs, Cyclic[n].h))

sys_timeouts_init ==
  /\ next_timeout = Started[Len(Cyclic)]
  /\ timeouts_last_time = clock

Init ==
  /\ clock = 0 /\ sys_timeouts_init
  /\ check = NULL /\ failed = NULL
  /\ pcbs = FALSE /\ tcpip_tcp_timer_active = FALSE
  /\ lag = 0 /\ prompt = TRUE

\* The clock of the port.
Tick ==
  /\ failed = NULL
  /\ lag < MaxLag /\ lag' = lag + 1
  /\ clock' = (clock + 1) % Modulus
  /\ prompt' = (prompt /\ lag = 0)
  /\ next_timeout' = [i \in DOMAIN next_timeout |->
                        [next_timeout[i] EXCEPT !.wait = IF @ = -1 THEN -1 ELSE @ - 1]]
  /\ UNCHANGED <<timeouts_last_time, check, pcbs, tcpip_tcp_timer_active, failed>>

\* Mutant: every check starts the time anew.
CheckBeginsAnew ==
  /\ failed = NULL /\ check = NULL
  /\ check' = [now |-> clock, diff |-> (clock - timeouts_last_time) % Modulus, handler |-> NULL, wait |-> 0]
  /\ timeouts_last_time' = clock
  /\ UNCHANGED <<next_timeout, clock, pcbs, tcpip_tcp_timer_active, lag, prompt, failed>>

\* sys_check_timeouts reads the clock once.
CheckBegins ==
  /\ failed = NULL /\ check = NULL
  /\ IF next_timeout = <<>>
     THEN check' = NULL /\ lag' = 0
     ELSE /\ check' = [now |-> clock, diff |-> (clock - timeouts_last_time) % Modulus,
                       handler |-> NULL, wait |-> 0]
          /\ UNCHANGED lag
  /\ UNCHANGED <<next_timeout, timeouts_last_time, clock, pcbs, tcpip_tcp_timer_active, prompt, failed>>

\* Mutant: a timeout expires a millisecond later.
ExpiredLater(diff) == next_timeout # <<>> /\ Head(next_timeout).time < diff

Expired(diff) == next_timeout # <<>> /\ Head(next_timeout).time <= diff

\* A round of its loop: the entry is freed before its handler is called.
CallHandler ==
  /\ failed = NULL /\ check # NULL /\ check.handler = NULL /\ Expired(check.diff)
  /\ timeouts_last_time' = check.now
  /\ LET t == Head(next_timeout)
     IN /\ check' = [check EXCEPT !.diff = @ - t.time, !.handler = t.h, !.wait = t.wait]
        /\ next_timeout' = [i \in 1..Len(next_timeout) - 1 |->
                              [next_timeout[i + 1] EXCEPT !.left = @ - t.time]]
  /\ UNCHANGED <<clock, pcbs, tcpip_tcp_timer_active, lag, prompt, failed>>

CheckReturns ==
  /\ failed = NULL /\ check # NULL /\ check.handler = NULL /\ ~Expired(check.diff)
  /\ check' = NULL
  /\ lag' = (clock - check.now) % Modulus
  /\ UNCHANGED <<next_timeout, timeouts_last_time, clock, pcbs, tcpip_tcp_timer_active, prompt, failed>>

HandlerReturns == check' = [check EXCEPT !.handler = NULL]
Running(h) == failed = NULL /\ check # NULL /\ check.handler = h

\* ip_reass_timer, arp_timer, dhcp_timer_coarse, dhcp_timer_fine, autoip_timer,
\* igmp_timer and dns_timer: their work done, they start themselves again.
CyclicTimer(c) ==
  /\ Running(c.h)
  /\ sys_timeout(c.msecs, c.h)
  /\ HandlerReturns
  /\ UNCHANGED <<timeouts_last_time, clock, pcbs, tcpip_tcp_timer_active, lag, prompt>>

\* After tcp_tmr, which ends connections (TcpRemove) and calls the application.
tcpip_tcp_timer ==
  /\ Running(TCP)
  /\ \/ /\ pcbs
        /\ sys_timeout(TCP_TMR_INTERVAL, TCP)
        /\ UNCHANGED tcpip_tcp_timer_active
     \/ /\ ~pcbs
        /\ tcpip_tcp_timer_active' = FALSE
        /\ UNCHANGED <<next_timeout, failed>>
  /\ HandlerReturns
  /\ UNCHANGED <<timeouts_last_time, clock, pcbs, lag, prompt>>
-----------------------------------------------------------------------------
\* The application runs in its handlers, in the main loop between checks, and when
\* tcp_tmr or another handler of the stack calls it back.
ApplicationRuns ==
  failed = NULL /\ (check # NULL => check.handler \in Application \cup CallsBack \cup {TCP})

Current == timeouts_last_time = clock \/ check # NULL

\* Mutant: the timer is started although it is active.
TimerNeededTwice ==
  /\ sys_timeout(TCP_TMR_INTERVAL, TCP)
  /\ tcpip_tcp_timer_active' = TRUE

tcp_timer_needed ==
  IF tcpip_tcp_timer_active
  THEN UNCHANGED <<next_timeout, failed, tcpip_tcp_timer_active>>
  ELSE /\ tcpip_tcp_timer_active' = TRUE
       /\ sys_timeout(TCP_TMR_INTERVAL, TCP)

\* TCP_REG of a new connection.
TcpRegister ==
  /\ ApplicationRuns
  /\ pcbs' = TRUE
  /\ tcp_timer_needed
  /\ prompt' = (prompt /\ Current)
  /\ UNCHANGED <<timeouts_last_time, clock, check, lag>>

\* The last connection goes; the timer runs on until it finds out.
TcpRemove ==
  /\ ApplicationRuns
  /\ pcbs /\ pcbs' = FALSE
  /\ UNCHANGED <<next_timeout, timeouts_last_time, clock, check, tcpip_tcp_timer_active, lag, prompt, failed>>

ApplicationTimeout(h) ==
  /\ ApplicationRuns
  /\ \/ \E msecs \in Delays : sys_timeout(msecs, h) /\ prompt' = (prompt /\ Current)
     \/ sys_untimeout(h) /\ UNCHANGED prompt
  /\ UNCHANGED <<timeouts_last_time, clock, check, pcbs, tcpip_tcp_timer_active, lag>>

ApplicationReturns ==
  /\ failed = NULL /\ check # NULL /\ check.handler \in Application
  /\ HandlerReturns
  /\ UNCHANGED <<next_timeout, timeouts_last_time, clock, pcbs, tcpip_tcp_timer_active, lag, prompt, failed>>

sys_restart_timeouts ==
  /\ failed = NULL /\ check = NULL
  /\ timeouts_last_time' = clock
  /\ prompt' = (prompt /\ Current)
  /\ UNCHANGED <<next_timeout, clock, check, pcbs, tcpip_tcp_timer_active, lag, failed>>

sys_check_timeouts ==
  \/ CheckBegins \/ CallHandler \/ CheckReturns
  \/ \E i \in DOMAIN Cyclic : CyclicTimer(Cyclic[i])
  \/ tcpip_tcp_timer
  \/ ApplicationReturns

Next ==
  \/ Tick \/ sys_check_timeouts \/ sys_restart_timeouts
  \/ TcpRegister \/ TcpRemove
  \/ \E h \in Application : ApplicationTimeout(h)

Spec == Init /\ [][Next]_vars

\* The main loop calls sys_check_timeouts again and again, handlers return, and
\* time passes.
FairSpec == Spec /\ WF_vars(sys_check_timeouts) /\ WF_vars(Tick)
-----------------------------------------------------------------------------
Scheduled(h) == {i \in DOMAIN next_timeout : next_timeout[i].h = h}

TypeOK ==
  /\ Len(next_timeout) <= MEMP_NUM_SYS_TIMEOUT
  /\ \A i \in DOMAIN next_timeout : next_timeout[i].time \in 0..Modulus - 1
  /\ timeouts_last_time \in 0..Modulus - 1 /\ clock \in 0..Modulus - 1
  /\ check # NULL => check.now \in 0..Modulus - 1 /\ check.diff \in 0..Modulus - 1
  /\ pcbs \in BOOLEAN /\ tcpip_tcp_timer_active \in BOOLEAN /\ lag \in 0..MaxLag

\* Whatever is inserted, removed or called, the differences add up for each
\* entry to the time it asked for less the times of the handlers called since.
DifferencesAddUp ==
  /\ TypeOK
  /\ \A i \in DOMAIN next_timeout :
       next_timeout[i].time = next_timeout[i].left - (IF i = 1 THEN 0 ELSE next_timeout[i - 1].left)

Held(h) == Cardinality(Scheduled(h)) + (IF Running(h) THEN 1 ELSE 0)

\* The stack's own timers are there: each is scheduled once or running, the TCP
\* timer only while it is active, however connections come and go, and there is
\* no connection without it (tcp_timer_needed in TCP_REG).  A cyclic timer whose
\* work does not call the application finds an entry to start itself again even
\* if the application has taken all others, because its own was freed before.  The
\* others, and the TCP timer, may lose theirs to a timeout made in a callback; but
\* the pool is empty only if the application has more timeouts than the pool was
\* given beyond one entry for each timer of the stack (the sum in opt.h).
StackTimersRun ==
  /\ pcbs => tcpip_tcp_timer_active
  /\ failed = NULL => /\ Held(TCP) = IF tcpip_tcp_timer_active THEN 1 ELSE 0
                      /\ \A i \in DOMAIN Cyclic : Held(Cyclic[i].h) = 1
  /\ \A i \in DOMAIN Cyclic : failed = Cyclic[i].h => failed \in CallsBack
  /\ failed # NULL => Cardinality({i \in DOMAIN next_timeout : next_timeout[i].h \in Application})
                        + (IF failed \in Application THEN 1 ELSE 0)
                        > MEMP_NUM_SYS_TIMEOUT - (Len(Cyclic) + 1)

\* While the main loop checks every millisecond and timeouts are made when
\* timeouts_last_time is current, as in handlers, each handler is called in the
\* very millisecond it asked for, across the wrap of sys_now.
PromptIsExact == prompt /\ check # NULL /\ check.handler # NULL => check.wait = 0

\* Once timeouts are neither restarted nor removed any more, those of the
\* application are called, although the cyclic timers start again and again
\* before them, and no cyclic timer stops.
TimeoutsEnd ==
  <>[][~sys_restart_timeouts /\ (Len(next_timeout') < Len(next_timeout) => CallHandler)]_vars =>
    /\ \A h \in Application : Scheduled(h) # {} ~> Running(h) \/ Scheduled(h) = {} \/ failed # NULL
    /\ \A i \in DOMAIN Cyclic : []<>(Running(Cyclic[i].h) \/ failed # NULL)
=============================================================================
