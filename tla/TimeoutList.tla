---------------------------- MODULE TimeoutList ----------------------------
(***************************************************************************)
(* The list of timeouts of core/timers.c, ordered by time.  It holds       *)
(* differences: each entry the time after the one before it.               *)
(***************************************************************************)
EXTENDS Integers, FiniteSets, Sequences

\* An entry.  Besides its time the model keeps two histories: left, what is left
\* of the time asked for as handlers before it are called, and wait, what is
\* left of it by the clock (-1 when it is overdue).
Entry(msecs, h) == [h |-> h, time |-> msecs, left |-> msecs, wait |-> msecs]

\* The entry becomes the ith of the list, and the ith leaves it.
Linked(list, i, e) == SubSeq(list, 1, i - 1) \o <<e>> \o SubSeq(list, i, Len(list))
Unlinked(list, i) == SubSeq(list, 1, i - 1) \o SubSeq(list, i + 1, Len(list))

\* When entry i expires, after the head of the list was last called.
Cumulative(list, i) ==
  LET sum[k \in 0..i] == IF k = 0 THEN 0 ELSE sum[k - 1] + list[k].time
  IN sum[i]

\* After all entries that do not expire later; the next one gives up its time.
Inserted(list, e) ==
  LET k == Cardinality({i \in DOMAIN list : Cumulative(list, i) <= e.time})
      time == e.time - Cumulative(list, k)
      later == IF k = Len(list) THEN list ELSE [list EXCEPT ![k + 1].time = @ - time]
  IN Linked(later, k + 1, [e EXCEPT !.time = time])

\* Mutant: the time of the entry removed is not given back.
RemovedFirst(list, h) ==
  LET found == {i \in DOMAIN list : list[i].h = h}
      i == CHOOSE i \in found : \A j \in found : i <= j
  IN IF found = {} THEN list ELSE Unlinked(list, i)

\* The first entry of h is removed and its time given to the next.
Removed(list, h) ==
  LET found == {i \in DOMAIN list : list[i].h = h}
      i == CHOOSE i \in found : \A j \in found : i <= j
      later == IF i = Len(list) THEN list ELSE [list EXCEPT ![i + 1].time = @ + list[i].time]
  IN IF found = {} THEN list ELSE Unlinked(later, i)
=============================================================================
