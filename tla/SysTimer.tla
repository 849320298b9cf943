------------------------------ MODULE SysTimer ------------------------------
(***************************************************************************)
(* The timer scheduler of cwrap/sys_arch.c: threads insert timeouts into a *)
(* list with sys_timeout and remove them with sys_untimeout, and a thread  *)
(* of its own calls the handlers.  The branch for Windows is modelled, the *)
(* one that is built.  g_time_lock, a critical section, guards the list.   *)
(*                                                                         *)
(* When the timer thread finds the head of the list expired it leaves      *)
(* g_time_lock, and then sleeps on the condition, which leaves it again    *)
(* although another thread may be inside.  From then on two threads can be *)
(* at the list, so a step is one access to it, or one round of a loop over *)
(* it, together with a following LeaveCriticalSection; the timer thread    *)
(* reads g_time_head anew wherever the code names it.  Memory that is      *)
(* freed keeps its contents until it is allocated again.                   *)
(*                                                                         *)
(* A sleep on a condition may end at any time, so wait_ms and the waking   *)
(* of the condition decide nothing and are left out.  The clock counts     *)
(* modulo Modulus, 2^32 in the code, and delays are below half of it.      *)
(***************************************************************************)
EXTENDS Integers, FiniteSets

CONSTANTS Clients,        \* threads that call sys_timeout and sys_untimeout
          Timer,          \* the timer thread; its handlers call them as well
          Handlers,
          Delays,
          Entries,        \* the memory for list entries
          g_time_head,    \* the pointer to the first entry
          Modulus,
          Broken,         \* a critical section that nobody can enter any more
          NULL

VARIABLES link,           \* g_time_head and the next pointers
          entry,          \* handler and time of the entries, and their state
          owner,          \* who is in g_time_lock
          timer,          \* the timer thread
          call,           \* the call each thread is in
          clock           \* sys_now()

vars == <<link, entry, owner, timer, call, clock>>

Threads == Clients \cup {Timer}
Idle == [op |-> "idle", h |-> NULL, e |-> NULL, pp |-> NULL, next |-> NULL]

\* (s32_t)(when - now) > 0
Later(when, now) == (when - now) % Modulus \in 1..(Modulus \div 2) - 1

EnterCriticalSection(t) == owner = NULL /\ owner' = t

\* A thread that is not inside may let another in, change nothing, or make
\* all others wait for ever: Windows does not say.
LeaveCriticalSection(t) ==
  owner' \in IF owner = t THEN {NULL} ELSE {NULL, owner, Broken}

\* free; what is freed twice is free.
free(e) == entry' = [entry EXCEPT ![e].state = "free"]
-----------------------------------------------------------------------------
\* The timer thread goes from one place in its code to another.
Goes(from, to) == timer.pc = from /\ timer' = [timer EXCEPT !.pc = to]

\* It reads the clock before it enters.
TimerReadsClock ==
  /\ timer.pc \in {"top", "run"}
  /\ timer' = [timer EXCEPT !.pc = IF @ = "top" THEN "enter" ELSE "enter again", !.now = clock]
  /\ UNCHANGED <<link, entry, owner, call, clock>>

TimerEnters ==
  /\ Goes("enter", "look") \/ Goes("enter again", "check")
  /\ EnterCriticalSection(Timer)
  /\ UNCHANGED <<link, entry, call, clock>>

\* Is there a head?
TimerLooks ==
  /\ Goes("look", IF link[g_time_head] = NULL THEN "sleep" ELSE "compare")
  /\ UNCHANGED <<link, entry, owner, call, clock>>

\* A read through a head that is NULL by now ends the program.
TimerCrashes ==
  /\ timer.pc \in {"compare", "check time", "take"} /\ link[g_time_head] = NULL
  /\ timer' = [timer EXCEPT !.pc = "crashed"]
  /\ UNCHANGED <<link, entry, owner, call, clock>>

\* If the head has expired it leaves.
TimerCompares ==
  /\ link[g_time_head] # NULL
  /\ Goes("compare", "sleep")
  /\ IF Later(entry[link[g_time_head]].when, timer.now) THEN UNCHANGED owner
     ELSE LeaveCriticalSection(Timer)
  /\ UNCHANGED <<link, entry, call, clock>>

\* SleepConditionVariableCS leaves, whoever is inside,
TimerSleeps ==
  /\ Goes("sleep", "asleep")
  /\ LeaveCriticalSection(Timer)
  /\ UNCHANGED <<link, entry, call, clock>>

\* and enters again when the sleep ends.
TimerWakes ==
  /\ Goes("asleep", "awake")
  /\ EnterCriticalSection(Timer)
  /\ UNCHANGED <<link, entry, call, clock>>

TimerLeaves ==
  /\ Goes("awake", "run")
  /\ LeaveCriticalSection(Timer)
  /\ UNCHANGED <<link, entry, call, clock>>

\* Is there an expired head?  Two reads of g_time_head.
TimerChecks ==
  /\ IF link[g_time_head] = NULL
     THEN Goes("check", "top") /\ LeaveCriticalSection(Timer)
     ELSE Goes("check", "check time") /\ UNCHANGED owner
  /\ UNCHANGED <<link, entry, call, clock>>

TimerChecksTime ==
  /\ link[g_time_head] # NULL
  /\ IF Later(entry[link[g_time_head]].when, timer.now)
     THEN Goes("check time", "top") /\ LeaveCriticalSection(Timer)
     ELSE Goes("check time", "take") /\ UNCHANGED owner
  /\ UNCHANGED <<link, entry, call, clock>>

\* e = g_time_head, a third read, and e->next,
TimerTakes ==
  /\ timer.pc = "take" /\ link[g_time_head] # NULL
  /\ timer' = [timer EXCEPT !.pc = "unlink", !.e = link[g_time_head],
                            !.next = link[link[g_time_head]]]
  /\ UNCHANGED <<link, entry, owner, call, clock>>

\* which is stored as the new head.
TimerUnlinks ==
  /\ Goes("unlink", "handler")
  /\ link' = [link EXCEPT ![g_time_head] = timer.next]
  /\ entry' = [entry EXCEPT ![timer.e].state = "called"]
  /\ LeaveCriticalSection(Timer)
  /\ UNCHANGED <<call, clock>>

HandlerReturns ==
  /\ timer.pc = "handler" /\ call[Timer] = Idle
  /\ timer' = [timer EXCEPT !.pc = "run", !.e = NULL, !.next = NULL]
  /\ free(timer.e)
  /\ UNCHANGED <<link, owner, call, clock>>

timer_thread_fn ==
  \/ TimerReadsClock \/ TimerEnters \/ TimerLooks \/ TimerCrashes \/ TimerCompares
  \/ TimerSleeps \/ TimerWakes \/ TimerLeaves \/ TimerChecks \/ TimerChecksTime
  \/ TimerTakes \/ TimerUnlinks \/ HandlerReturns
-----------------------------------------------------------------------------
MayCall(t) == call[t] = Idle /\ (t = Timer => timer.pc = "handler")

\* sys_timeout allocates the entry and reads the clock.
TimeoutBegins(t, h, msecs) ==
  /\ MayCall(t)
  /\ \E e \in Entries :
       /\ entry[e].state = "free"
       /\ entry' = [entry EXCEPT ![e] = [h |-> h, when |-> (clock + msecs) % Modulus,
                                         state |-> "new"]]
       /\ link' = [link EXCEPT ![e] = NULL]
       /\ call' = [call EXCEPT ![t] = [Idle EXCEPT !.op = "timeout", !.e = e]]
  /\ UNCHANGED <<owner, timer, clock>>

\* Both calls enter and begin at the head.
CallEnters(t) ==
  /\ call[t].op \in {"timeout", "untimeout"}
  /\ EnterCriticalSection(t)
  /\ call' = [call EXCEPT ![t].op = IF @ = "timeout" THEN "place" ELSE "search",
                          ![t].pp = g_time_head]
  /\ UNCHANGED <<link, entry, timer, clock>>

\* One round: past an entry whose time is not greater, as unsigned numbers.
TimeoutPlaces(t) ==
  /\ call[t].op = "place"
  /\ LET q == link[call[t].pp]
     IN call' = [call EXCEPT ![t] = IF q # NULL /\ entry[q].when <= entry[call[t].e].when
                                    THEN [@ EXCEPT !.pp = q] ELSE [@ EXCEPT !.op = "link"]]
  /\ UNCHANGED <<link, entry, owner, timer, clock>>

TimeoutLinks(t) ==
  /\ call[t].op = "link"
  /\ link' = [link EXCEPT ![call[t].e] = link[call[t].pp]]
  /\ call' = [call EXCEPT ![t].op = "store"]
  /\ UNCHANGED <<entry, owner, timer, clock>>

TimeoutStores(t) ==
  /\ call[t].op = "store"
  /\ link' = [link EXCEPT ![call[t].pp] = call[t].e]
  /\ entry' = [entry EXCEPT ![call[t].e].state = "armed"]
  /\ LeaveCriticalSection(t)
  /\ call' = [call EXCEPT ![t] = Idle]
  /\ UNCHANGED <<timer, clock>>

UntimeoutBegins(t, h) ==
  /\ MayCall(t)
  /\ call' = [call EXCEPT ![t] = [Idle EXCEPT !.op = "untimeout", !.h = h]]
  /\ UNCHANGED <<link, entry, owner, timer, clock>>

\* One round of the search for entries of h: the end, an entry to remove, whose
\* next is read, or another.
UntimeoutSearches(t) ==
  /\ call[t].op = "search"
  /\ LET q == link[call[t].pp]
     IN \/ q = NULL /\ call' = [call EXCEPT ![t] = Idle] /\ LeaveCriticalSection(t)
        \/ /\ q # NULL /\ entry[q].h = call[t].h
           /\ call' = [call EXCEPT ![t].op = "cut", ![t].e = q, ![t].next = link[q]]
           /\ UNCHANGED owner
        \/ /\ q # NULL /\ entry[q].h # call[t].h
           /\ call' = [call EXCEPT ![t].pp = q]
           /\ UNCHANGED owner
  /\ UNCHANGED <<link, entry, timer, clock>>

UntimeoutCuts(t) ==
  /\ call[t].op = "cut"
  /\ link' = [link EXCEPT ![call[t].pp] = call[t].next]
  /\ free(call[t].e)
  /\ call' = [call EXCEPT ![t].op = "search", ![t].e = NULL, ![t].next = NULL]
  /\ UNCHANGED <<owner, timer, clock>>

sys_timeout(t) ==
  \/ \E h \in Handlers, msecs \in Delays : TimeoutBegins(t, h, msecs)
  \/ CallEnters(t) \/ TimeoutPlaces(t) \/ TimeoutLinks(t) \/ TimeoutStores(t)

sys_untimeout(t) ==
  \/ \E h \in Handlers : UntimeoutBegins(t, h)
  \/ UntimeoutSearches(t) \/ UntimeoutCuts(t)

Tick == clock' = (clock + 1) % Modulus /\ UNCHANGED <<link, entry, owner, timer, call>>

Init ==
  /\ link = [e \in Entries \cup {g_time_head} |-> NULL]
  /\ entry = [e \in Entries |-> [h |-> NULL, when |-> 0, state |-> "free"]]
  /\ owner = NULL
  /\ timer = [pc |-> "top", now |-> 0, e |-> NULL, next |-> NULL]
  /\ call = [t \in Threads |-> Idle]
  /\ clock = 0

Next == /\ timer.pc # "crashed"
        /\ \/ Tick \/ timer_thread_fn
           \/ \E t \in Threads : sys_timeout(t) \/ sys_untimeout(t)

Spec == Init /\ [][Next]_vars
-----------------------------------------------------------------------------
\* The entries that can be reached from g_time_head.
List ==
  LET from[n \in 0..Cardinality(Entries)] ==
        IF n = 0 THEN {link[g_time_head]} \ {NULL}
        ELSE from[n - 1] \cup ({link[e] : e \in from[n - 1]} \ {NULL})
  IN from[Cardinality(Entries)]

\* "callback function to call when msecs have elapsed" (sys_timeout): until it
\* is called or removed, a timeout is in the list.
NoTimeoutIsLost == \A e \in Entries : entry[e].state = "armed" => e \in List

=============================================================================
