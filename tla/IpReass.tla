------------------------------ MODULE IpReass ------------------------------
(***************************************************************************)
(* Reassembly of IP fragments: ip_reass and ip_reass_tmr of                *)
(* core/ipv4/ip_frag.c.  Fragments get lost, repeated and reordered.       *)
(*                                                                         *)
(* A fragment is a record: the datagram it belongs to (addresses and       *)
(* identification), its first byte and the one after its last, whether it  *)
(* is the last one, and the number of its pbufs.  The list of datagrams    *)
(* and the list of fragments of each are sequences.  A failed LWIP_ASSERT  *)
(* ends the program.  The ICMP message for a datagram given up is left     *)
(* out.                                                                    *)
(***************************************************************************)
EXTENDS Integers, SequencesExt

CONSTANTS Fragments,            \* the fragments that may arrive
          IP_REASS_MAX_PBUFS,
          IP_REASS_MAXAGE,
          MEMP_NUM_REASSDATA,
          IP_HLEN,
          NULL

VARIABLES reassdatagrams,       \* newest first
          ip_reass_pbufcount,
          ret,                  \* the fragment of the last call, what it returned
          failed                \* the assertion that failed, or NULL

vars == <<reassdatagrams, ip_reass_pbufcount, ret, failed>>

\* The number of pbufs of a list of fragments.
Clen(frags) == FoldLeft(LAMBDA n, f : n + f.clen, 0, frags)

Returned(f, d) == [of |-> f, datagram |-> d]

\* The part of the state that the helpers of ip_reass work on.
Reass == [list |-> reassdatagrams, count |-> ip_reass_pbufcount, freed |-> 0,
          more |-> TRUE, failed |-> NULL]
-----------------------------------------------------------------------------
\* Mutant: the count is not lowered.
FreeUncounted(s, i) ==
  [s EXCEPT !.list = RemoveAt(@, i), !.freed = @ + Clen(s.list[i].frags)]

ip_reass_free_complete_datagram(s, i) ==
  [s EXCEPT !.list = RemoveAt(@, i),
            !.count = @ - Clen(s.list[i].frags),
            !.freed = @ + Clen(s.list[i].frags)]

OtherDatagrams(list, id) == {i \in DOMAIN list : list[i].id # id}

\* Mutant: among datagrams of the same age the first one in the list is taken.
EvictFirstOldest(s, id, needed) ==
  LET others == OtherDatagrams(s.list, id)
      oldest == CHOOSE i \in others : \A j \in others :
                  \/ s.list[i].timer < s.list[j].timer
                  \/ s.list[i].timer = s.list[j].timer /\ i <= j
      prev == Len(s.list) - 1
      f == ip_reass_free_complete_datagram(s, oldest)
  IN IF others = {} THEN [s EXCEPT !.more = FALSE]
     ELSE IF prev # 0 /\ prev = oldest
     THEN [s EXCEPT !.more = FALSE, !.failed = "prev != ipr"]
     ELSE IF prev # 0 /\ prev + 1 # oldest
     THEN [s EXCEPT !.more = FALSE, !.failed = "prev->next == ipr"]
     ELSE [f EXCEPT !.more = f.freed < needed /\ \E i, j \in others : i # j]

\* One round of the loop: the last of the other datagrams with the least time
\* left is freed.  As its predecessor the code passes the last but one node.
EvictOldest(s, id, needed) ==
  LET others == OtherDatagrams(s.list, id)
      oldest == CHOOSE i \in others : \A j \in others :
                  \/ s.list[i].timer < s.list[j].timer
                  \/ s.list[i].timer = s.list[j].timer /\ j <= i
      prev == Len(s.list) - 1
      f == ip_reass_free_complete_datagram(s, oldest)
  IN IF others = {} THEN [s EXCEPT !.more = FALSE]
     ELSE IF prev # 0 /\ prev = oldest
     THEN [s EXCEPT !.more = FALSE, !.failed = "prev != ipr"]
     ELSE IF prev # 0 /\ prev + 1 # oldest
     THEN [s EXCEPT !.more = FALSE, !.failed = "prev->next == ipr"]
     ELSE [f EXCEPT !.more = f.freed < needed /\ \E i, j \in others : i # j]

ip_reass_remove_oldest_datagram(s, id, needed) ==
  LET round[n \in 0..Len(s.list)] ==
        IF n = 0 THEN EvictOldest([s EXCEPT !.freed = 0], id, needed)
        ELSE IF round[n - 1].more THEN EvictOldest(round[n - 1], id, needed)
        ELSE round[n - 1]
  IN round[Len(s.list)]

NewDatagram(f) == [id |-> f.id, timer |-> IP_REASS_MAXAGE, last |-> FALSE, len |-> 0,
                   hdr |-> f.start, frags |-> <<>>]

\* Room for the fragment's pbufs, if necessary by evicting datagrams.
MakeRoom(s, f) ==
  IF s.count + f.clen > IP_REASS_MAX_PBUFS
  THEN ip_reass_remove_oldest_datagram(s, f.id, f.clen) ELSE s

\* A new datagram at the front, if necessary in the place of another.
ip_reass_enqueue_new_datagram(s, f) ==
  LET full == Len(s.list) = MEMP_NUM_REASSDATA
      e == IF full THEN ip_reass_remove_oldest_datagram(s, f.id, f.clen) ELSE s
  IN IF full /\ (e.failed # NULL \/ e.freed < f.clen) THEN [e EXCEPT !.more = FALSE]
     ELSE [e EXCEPT !.list = <<NewDatagram(f)>> \o @, !.more = TRUE]
-----------------------------------------------------------------------------
Contiguous(frags, a, b) == \A i \in a..b - 1 : frags[i].end = frags[i + 1].start

\* f is thrown away: it starts where a fragment it passes does, or inside it,
\* or it reaches into the next; the latter is not tested before the first.
Overlaps(d, f) ==
  LET k == Len(SelectSeq(d.frags, LAMBDA g : g.start <= f.start))
  IN \/ \E i \in 1..k : d.frags[i].start = f.start \/ f.start < d.frags[i].end
     \/ 0 < k /\ k < Len(d.frags) /\ f.end > d.frags[k + 1].start

\* f in its place.  The datagram is valid if the last fragment has been seen,
\* the list starts at 0 and has no holes up to the fragment before f nor from f
\* on; before f itself a hole is only looked for at the end of the list.
Chained(d, f) ==
  LET k == Len(SelectSeq(d.frags, LAMBDA g : g.start <= f.start))
      frags == InsertAt(d.frags, k + 1, f)
      n == Len(frags)
  IN [d |-> [d EXCEPT !.frags = frags],
      valid |-> /\ d.last
                /\ frags[1].start = 0
                /\ Contiguous(frags, 1, k)
                /\ (k + 1 = n /\ k > 0 => frags[k].end = f.start)
                /\ Contiguous(frags, k + 1, n)]

\* Mutant: the header is not replaced by that of the first fragment.
NotedKeepingHeader(d, f) ==
  [d EXCEPT !.last = @ \/ f.last, !.len = IF f.last THEN f.end ELSE @]

\* Mutant: every fragment starts the datagram's time again.
NotedRestarting(d, f) ==
  [d EXCEPT !.hdr = IF f.start = 0 THEN 0 ELSE @,
            !.last = @ \/ f.last,
            !.len = IF f.last THEN f.end ELSE @,
            !.timer = IP_REASS_MAXAGE]

\* The header kept is that of the first fragment once it has arrived; the
\* length is known from the last one.
Noted(d, f) ==
  [d EXCEPT !.hdr = IF f.start = 0 THEN 0 ELSE @,
            !.last = @ \/ f.last,
            !.len = IF f.last THEN f.end ELSE @]
-----------------------------------------------------------------------------
Become(s, r) ==
  /\ reassdatagrams' = s.list /\ ip_reass_pbufcount' = s.count
  /\ failed' = s.failed
  /\ ret' = r

\* Fragment f is chained into datagram i of s.
Accept(s, i, f) ==
  LET d == Noted(s.list[i], f)
      c == Chained(d, f)
      frags == c.d.frags
      counted == [s EXCEPT !.count = @ + f.clen, !.list = ReplaceAt(@, i, c.d)]
  IN \/ /\ Overlaps(d, f)
        /\ Become([s EXCEPT !.list = ReplaceAt(@, i, d)], Returned(f, NULL))
     \/ /\ ~Overlaps(d, f) /\ ~c.valid
        /\ Become(counted, Returned(f, NULL))
     \/ /\ ~Overlaps(d, f) /\ c.valid
        /\ Len(frags) = 1 \/ frags[Len(frags)].end # d.len
        /\ Become([counted EXCEPT !.failed = IF Len(frags) = 1 THEN "sanity check"
                                             ELSE "datagram end!=datagram len"],
                  Returned(f, NULL))
     \/ /\ ~Overlaps(d, f) /\ c.valid
        /\ Len(frags) # 1 /\ frags[Len(frags)].end = d.len
        /\ Become([counted EXCEPT !.list = RemoveAt(@, i), !.count = @ - Clen(frags)],
                  Returned(f, [c.d EXCEPT !.len = @ + IP_HLEN]))

\* Addresses and identification match.
SameDatagram(list, id) == {i \in DOMAIN list : list[i].id = id}

ip_reass(f) ==
  LET m == MakeRoom(Reass, f)
      e == ip_reass_enqueue_new_datagram(m, f)
  IN /\ failed = NULL
     /\ \/ /\ m.failed # NULL \/ m.count + f.clen > IP_REASS_MAX_PBUFS
           /\ Become(m, Returned(f, NULL))
        \/ /\ m.failed = NULL /\ m.count + f.clen <= IP_REASS_MAX_PBUFS
           /\ \/ \E i \in SameDatagram(m.list, f.id) :
                   /\ \A j \in SameDatagram(m.list, f.id) : i <= j
                   /\ Accept(m, i, f)
              \/ /\ SameDatagram(m.list, f.id) = {} /\ ~e.more
                 /\ Become(e, Returned(f, NULL))
              \/ /\ SameDatagram(m.list, f.id) = {} /\ e.more
                 /\ Accept(e, 1, f)

\* Datagrams without time left are freed, the others get older.
ip_reass_tmr ==
  LET expired == SelectSeq(reassdatagrams, LAMBDA d : d.timer = 0)
      kept == SelectSeq(reassdatagrams, LAMBDA d : d.timer > 0)
  IN /\ failed = NULL
     /\ reassdatagrams' = [i \in DOMAIN kept |-> [kept[i] EXCEPT !.timer = @ - 1]]
     /\ ip_reass_pbufcount' =
          ip_reass_pbufcount - FoldLeft(LAMBDA n, d : n + Clen(d.frags), 0, expired)
     /\ ret' = Returned(NULL, NULL)
     /\ UNCHANGED failed

Init == /\ reassdatagrams = <<>> /\ ip_reass_pbufcount = 0
        /\ ret = Returned(NULL, NULL) /\ failed = NULL

Next == ip_reass_tmr \/ \E f \in Fragments : ip_reass(f)

Spec == Init /\ [][Next]_vars

\* The stack calls ip_reass_tmr every IP_TMR_INTERVAL.
FairSpec == Spec /\ WF_vars(ip_reass_tmr)
-----------------------------------------------------------------------------
Held == {reassdatagrams[i].id : i \in DOMAIN reassdatagrams}

\* The pbufs and the datagrams waiting stay within their limits.
TypeOK ==
  /\ ip_reass_pbufcount \in 0..IP_REASS_MAX_PBUFS
  /\ Len(reassdatagrams) <= MEMP_NUM_REASSDATA
  /\ \A i \in DOMAIN reassdatagrams :
       LET d == reassdatagrams[i]
       IN /\ d.timer \in 0..IP_REASS_MAXAGE /\ d.last \in BOOLEAN
          /\ Len(d.frags) > 0 /\ \A k \in DOMAIN d.frags : d.frags[k] \in Fragments

\* No two fragments of the datagram overlap.
CutOneWay(id) ==
  \A f, g \in {f \in Fragments : f.id = id} : f = g \/ f.end <= g.start \/ g.end <= f.start

\* ip_reass_pbufcount is the number of pbufs waiting, whatever was thrown away,
\* evicted, timed out or reassembled, so it never drifts to block all fragments.
\* Each datagram has one place, even if it was evicted or timed out while its
\* fragments were on the way; the oldest is last (the @todo in
\* ip_reass_remove_oldest_datagram asks whether it is); and the fragments of a
\* datagram that was cut one way wait in order and without overlap.  "The
\* datagram 'fraghdr' belongs to is not freed!": making room for a fragment never
\* costs its datagram a fragment that waits.
ListConsistent ==
  /\ [](/\ TypeOK
        /\ ip_reass_pbufcount = FoldLeft(LAMBDA n, d : n + Clen(d.frags), 0, reassdatagrams)
        /\ \A i, j \in DOMAIN reassdatagrams : i < j =>
             /\ reassdatagrams[i].id # reassdatagrams[j].id
             /\ reassdatagrams[j].timer <= reassdatagrams[i].timer
        /\ \A i \in DOMAIN reassdatagrams :
             LET frags == reassdatagrams[i].frags
             IN CutOneWay(reassdatagrams[i].id) => \A k \in 1..Len(frags) - 1 : frags[k].end <= frags[k + 1].start)
  /\ [][\A i \in DOMAIN reassdatagrams :
           ret'.of # NULL /\ ret'.datagram = NULL /\ reassdatagrams[i].id = ret'.of.id =>
             \E j \in SameDatagram(reassdatagrams', ret'.of.id) :
               ToSet(reassdatagrams[i].frags) \subseteq ToSet(reassdatagrams'[j].frags)]_vars

\* The pbufs of the datagrams behind the i-th in the list.
ClenBehind(i) == FoldLeft(LAMBDA n, d : n + Clen(d.frags), 0,
                          SubSeq(reassdatagrams, i + 1, Len(reassdatagrams)))

\* Fragment f needs room, the datagrams behind its own do not give enough, and
\* there is another before it.
OwnIsInTheWay(f) ==
  /\ ip_reass_pbufcount + f.clen > IP_REASS_MAX_PBUFS
  /\ \E i \in SameDatagram(reassdatagrams, f.id) : i > 1 /\ ClenBehind(i) < f.clen

\* Which assertions fail, and when.  ip_reass_remove_oldest_datagram passes the
\* last but one datagram of the list as the predecessor of the oldest, which is
\* right while the oldest is the last one: "prev != ipr" fails exactly if the
\* fragment's own datagram is in the way.  "datagram end!=datagram len" fails only
\* for a datagram that was cut in two ways, when a last fragment was thrown away
\* for its overlap after its length had been noted.  No other assertion ever
\* fails, in any order of fragments, repetitions, evictions and timeouts.
RoomOrAssertion ==
  [][LET f == ret'.of IN f # NULL =>
       /\ failed' \in {NULL, "prev != ipr", "datagram end!=datagram len"}
       /\ failed' = "prev != ipr" <=> OwnIsInTheWay(f)
       /\ failed' = "datagram end!=datagram len" =>
            /\ ~CutOneWay(f.id)
            /\ \E i \in SameDatagram(reassdatagrams', f.id) :
                 /\ reassdatagrams'[i].last
                 /\ \A k \in DOMAIN reassdatagrams'[i].frags : ~reassdatagrams'[i].frags[k].last]_vars

\* A datagram with all its fragments does not wait: in whatever order they
\* came, the last to arrive completes it; and what is returned has the header of
\* its first fragment and the length its last fragment gave.  It can have one hole
\* and no more, in one place: right before the fragment that arrived last, when
\* that was inserted between two others, as ip_reass_chain_frag_... looks for
\* holes before that one and behind it only.
CompleteIsReturned ==
  /\ \A i \in DOMAIN reassdatagrams :
       LET d == reassdatagrams[i]
       IN d.last /\ d.frags[1].start = 0 /\ d.frags[Len(d.frags)].end = d.len
            => ~Contiguous(d.frags, 1, Len(d.frags))
  /\ ret.datagram # NULL =>
       LET frags == ret.datagram.frags
           n == Len(frags)
       IN /\ ret.datagram.hdr = 0 /\ frags[1].start = 0
          /\ ret.datagram.len = IP_HLEN + frags[n].end
          /\ \A i \in 1..n - 1 :
               frags[i].end # frags[i + 1].start => frags[i + 1] = ret.of /\ i + 1 < n

\* What is returned has no holes: ip_reass says that "all fragments are received"
\* where it returns a datagram.
ReturnedIsWhole ==
  ret.datagram # NULL => Contiguous(ret.datagram.frags, 1, Len(ret.datagram.frags))

\* A datagram does not wait for ever, however often its fragments are repeated.
DatagramsEnd ==
  \A id \in {f.id : f \in Fragments} : id \in Held /\ failed = NULL ~> id \notin Held \/ failed # NULL

=============================================================================
