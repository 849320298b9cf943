---------------------------- MODULE BoundedFifo ----------------------------
(***************************************************************************)
(* What a mailbox promises its users, free of threads, locks and list      *)
(* pointers: a first-in first-out buffer that never holds more than `cap'  *)
(* messages, from which every message is taken exactly once.  SysMbox is   *)
(* shown to implement it.                                                  *)
(***************************************************************************)
EXTENDS Naturals, Sequences

CONSTANTS Msg,        \* the pointers that may be posted
          Fetcher,    \* the threads that take messages
          NULL        \* no message

VARIABLES open,       \* the mailbox exists
          cap,        \* its capacity
          buf,        \* its contents, oldest first
          got         \* got[t]: what the last call of t took, or NULL

vars == <<open, cap, buf, got>>

Init == /\ open = FALSE
        /\ cap = 0
        /\ buf = <<>>
        /\ got = [t \in Fetcher |-> NULL]

Open == /\ ~open
        /\ open' = TRUE
        /\ cap' \in Nat \ {0}
        /\ buf' = <<>>
        /\ UNCHANGED got

\* Closing a mailbox discards what is left in it.
Close == /\ open
         /\ open' = FALSE
         /\ cap' = 0
         /\ buf' = <<>>
         /\ UNCHANGED got

Put == /\ open
       /\ Len(buf) < cap
       /\ \E m \in Msg : buf' = Append(buf, m)
       /\ UNCHANGED <<open, cap, got>>

Take(t) == /\ buf # <<>>
           /\ got' = [got EXCEPT ![t] = Head(buf)]
           /\ buf' = Tail(buf)
           /\ UNCHANGED <<open, cap>>

\* A call that starts, or ends without a message, leaves t with nothing.
Forget(t) == /\ got' = [got EXCEPT ![t] = NULL]
             /\ UNCHANGED <<open, cap, buf>>

Next == \/ Open
        \/ Close
        \/ Put
        \/ \E t \in Fetcher : Take(t) \/ Forget(t)

Spec == Init /\ [][Next]_vars
=============================================================================
