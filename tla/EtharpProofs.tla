---------------------------- MODULE EtharpProofs ----------------------------
(***************************************************************************)
(* The ARP cache of netif/etharp.c for every table size, every age and any *)
(* number of addresses.  Each function replaces at most one entry of the   *)
(* table (Replaces), but for the timer and the cleanup of an interface,    *)
(* which only empty entries; so the lemmas say which entry is replaced and *)
(* by what, and two of them what that does to the table.                   *)
(***************************************************************************)
EXTENDS Etharp, FiniteSetTheorems, WellFoundedInduction, TLAPS

\* A set of numbers that is not empty has a least one.
LEMMA LeastNumber ==
  ASSUME NEW S, S \subseteq Nat, S # {}
  PROVE  \E x \in S : \A y \in S : x <= y
<1>1. PICK x \in S : \A y \in S : ~(<<y, x>> \in OpToRel(<, Nat))
  BY WFMin, NatLessThanWellFounded
<1>2. \A y \in S : ~(y < x)
  BY <1>1 DEF OpToRel
<1> QED  BY <1>2

USE TableNotEmpty, AgesOrdered, RouteIsNetif, NullIsNothing, GatewayOnLink, GroupNotOnLink

Entry == [state : State, ipaddr : Local \cup {NULL}, ethaddr : Mac \cup {NULL},
          netif : Netif \cup {NULL}, ctime : 0..ARP_MAXAGE - 1, q : Local \cup {NULL}]

Full(t) == {i \in Index : t[i].state # "EMPTY"}
Queued(t) == {i \in Index : t[i].q # NULL}

\* An entry whose fields agree with its state.
EntryOK(e) ==
  /\ e.state = "EMPTY" => e.ipaddr = NULL /\ e.q = NULL
  /\ e.state # "EMPTY" => e.ipaddr \in Local
  /\ e.q # NULL => e.state = "PENDING" /\ e.q = e.ipaddr
  /\ e.state \in Resolved => e.ethaddr # NULL

TableOK(t) ==
  /\ t \in [Index -> Entry]
  /\ \A i \in Index : EntryOK(t[i])
  /\ \A i, j \in Full(t) : t[i].ipaddr = t[j].ipaddr => i = j

\* The table is in order, and live counts its packets.
ArpOK(s) ==
  /\ DOMAIN s = {"table", "live"}
  /\ TableOK(s.table)
  /\ s.live \in Nat /\ s.live = Cardinality(Queued(s.table))

\* r is s with e as its entry i, and with the packets counted.
Replaces(s, r, i, e) ==
  /\ DOMAIN r = {"table", "live"}
  /\ r.table = [s.table EXCEPT ![i] = e]
  /\ r.live = s.live - (IF s.table[i].q = NULL THEN 0 ELSE 1) + (IF e.q = NULL THEN 0 ELSE 1)
-----------------------------------------------------------------------------
(* Replacing and emptying entries *)

\* Sets of entries are finite.
LEMMA EntriesFinite ==
  ASSUME NEW S, S \subseteq Index
  PROVE  IsFiniteSet(S) /\ Cardinality(S) \in Nat
<1>1. IsFiniteSet(Index)
  BY FS_Interval DEF Index
<1>2. IsFiniteSet(S)
  BY <1>1, FS_Subset
<1> QED  BY <1>2, FS_CardinalityType

\* One replacement after another at the same place is one replacement.
LEMMA ReplaceTwice ==
  ASSUME NEW s, NEW r, NEW u, NEW i \in Index, NEW d, NEW e,
         s.table \in [Index -> Entry], s.live \in Int,
         Replaces(s, r, i, d), Replaces(r, u, i, e)
  PROVE  Replaces(s, u, i, e)
<1>1. r.table[i] = d
  BY DEF Replaces
<1>2. u.table = [s.table EXCEPT ![i] = e]
  BY DEF Replaces
<1> QED  BY <1>1, <1>2 DEF Replaces

\* An entry in order whose address no other entry has leaves the table in order.
LEMMA ReplaceOK ==
  ASSUME NEW s, NEW r, NEW i \in Index, NEW e \in Entry,
         ArpOK(s), Replaces(s, r, i, e), EntryOK(e),
         e.state # "EMPTY" => \A j \in Full(s.table) \ {i} : s.table[j].ipaddr # e.ipaddr
  PROVE  ArpOK(r)
<1> DEFINE t == s.table
           v == r.table
<1>1. /\ t \in [Index -> Entry] /\ v \in [Index -> Entry]
      /\ v[i] = e /\ \A j \in Index \ {i} : v[j] = t[j]
  BY DEF ArpOK, TableOK, Replaces
<1>2. /\ \A j \in Index : EntryOK(t[j])
      /\ \A j, k \in Full(t) : t[j].ipaddr = t[k].ipaddr => j = k
      /\ s.live \in Nat /\ s.live = Cardinality(Queued(t))
  BY DEF ArpOK, TableOK
<1>3. /\ DOMAIN r = {"table", "live"}
      /\ r.live = s.live - (IF t[i].q = NULL THEN 0 ELSE 1) + (IF e.q = NULL THEN 0 ELSE 1)
  BY DEF Replaces
<1> HIDE DEF t, v
<1>4. \A j \in Index : EntryOK(v[j])
  BY <1>1, <1>2
<1>5. \A j, k \in Full(v) : v[j].ipaddr = v[k].ipaddr => j = k
  BY <1>1, <1>2 DEF Full, t
<1>6. Queued(v) = IF e.q = NULL THEN Queued(t) \ {i} ELSE (Queued(t) \ {i}) \cup {i}
  BY <1>1 DEF Queued
<1>7. IsFiniteSet(Queued(t)) /\ IsFiniteSet(Queued(v)) /\ Cardinality(Queued(v)) \in Nat
  BY EntriesFinite DEF Queued
<1>8. /\ IsFiniteSet(Queued(t) \ {i})
      /\ Cardinality(Queued(t) \ {i}) = s.live - (IF t[i].q = NULL THEN 0 ELSE 1)
  BY <1>2, <1>7, FS_RemoveElement DEF Queued
<1>9. Cardinality(Queued(v)) = Cardinality(Queued(t) \ {i}) + (IF e.q = NULL THEN 0 ELSE 1)
  <2>1. CASE e.q = NULL
    BY <2>1, <1>2, <1>6, <1>8
  <2>2. CASE e.q # NULL
    BY <2>2, <1>6, <1>8, FS_AddElement
  <2> QED  BY <2>1, <2>2
<1>10. r.live = Cardinality(Queued(v))
  BY <1>2, <1>3, <1>8, <1>9
<1> QED  BY <1>1, <1>3, <1>4, <1>5, <1>7, <1>10 DEF ArpOK, TableOK, v

\* r is s with the entries of X emptied, and maybe some others no longer
\* requesting again.
Shrinks(s, r, X) ==
  /\ X \subseteq Index /\ DOMAIN r = {"table", "live"} /\ r.table \in [Index -> Entry]
  /\ r.live = s.live - Cardinality({i \in X : s.table[i].q # NULL})
  /\ \A i \in X : r.table[i].state = "EMPTY" /\ EntryOK(r.table[i])
  /\ \A i \in Index \ X : /\ r.table[i].ipaddr = s.table[i].ipaddr
                           /\ r.table[i].q = s.table[i].q
                           /\ r.table[i].ethaddr = s.table[i].ethaddr
                           /\ \/ r.table[i].state = s.table[i].state
                              \/ /\ r.table[i].state = "STABLE"
                                 /\ s.table[i].state = "STABLE_REREQUESTING"

\* Emptying entries leaves the table in order.
LEMMA ShrinkOK ==
  ASSUME NEW s, NEW r, NEW X, ArpOK(s), Shrinks(s, r, X)
  PROVE  ArpOK(r) /\ \A i \in Index : EntryOK(r.table[i])
<1> DEFINE t == s.table
           v == r.table
           G == {i \in X : t[i].q # NULL}
<1>0. \A i \in Index : EntryOK(v[i])
  BY DEF ArpOK, TableOK, Shrinks, EntryOK, Resolved
<1>1. /\ \A j, k \in Full(t) : t[j].ipaddr = t[k].ipaddr => j = k
      /\ s.live \in Nat /\ s.live = Cardinality(Queued(t))
  BY DEF ArpOK, TableOK
<1>2. \A j \in Full(v) : j \in Full(t) /\ v[j].ipaddr = t[j].ipaddr
  BY DEF Full, Shrinks
<1>3. Queued(v) = Queued(t) \ G /\ G \subseteq Queued(t) /\ Queued(t) \subseteq Index
  <2>1. \A i \in X : v[i].q = NULL
    BY DEF EntryOK, Shrinks
  <2> QED  BY <2>1 DEF Queued, Shrinks
<1> HIDE DEF G, t, v
<1>4. /\ IsFiniteSet(Queued(t)) /\ IsFiniteSet(G) /\ IsFiniteSet(Queued(v))
      /\ Cardinality(G) \in Nat /\ Cardinality(Queued(v)) \in Nat
  BY <1>3, EntriesFinite
<1>5. Cardinality(Queued(t)) = Cardinality(Queued(v)) + Cardinality(G)
  <2>1. Queued(t) = Queued(v) \cup G /\ Queued(v) \cap G = {}
    BY <1>3
  <2>2. Cardinality(Queued(v) \cup G) = Cardinality(Queued(v)) + Cardinality(G) - Cardinality(Queued(v) \cap G)
    BY <1>4, FS_Union
  <2>3. Cardinality(Queued(v) \cap G) = 0
    BY <2>1, FS_EmptySet
  <2> QED  BY <2>1, <2>2, <2>3, <1>4
<1>6. r.live = s.live - Cardinality(G)
  BY DEF Shrinks, G, t
<1>7. r.live = Cardinality(Queued(v))
  BY <1>1, <1>4, <1>5, <1>6
<1>8. \A i, j \in Full(v) : v[i].ipaddr = v[j].ipaddr => i = j
  BY <1>1, <1>2
<1>9. DOMAIN r = {"table", "live"} /\ v \in [Index -> Entry]
  BY DEF Shrinks, v
<1> QED  BY <1>0, <1>4, <1>7, <1>8, <1>9 DEF ArpOK, TableOK, v
-----------------------------------------------------------------------------
(* Finding an entry *)

\* The first of some entries is one of them.
LEMMA LowestIsIn ==
  ASSUME NEW S, S \subseteq Index, S # {}
  PROVE  Lowest(S) \in S
<1>0. S \subseteq Nat
  BY DEF Index
<1>1. PICK x \in S : \A y \in S : x <= y
  BY <1>0, LeastNumber
<1> QED  BY <1>1 DEF Lowest

\* The oldest of some entries is one of them: among those of the greatest age
\* there is a last one.
LEMMA OldestIsIn ==
  ASSUME NEW t \in [Index -> Entry], NEW S, S \subseteq Index, S # {}
  PROVE  Oldest(t, S) \in S
<1>0. \A i \in S : t[i].ctime \in Nat /\ t[i].ctime < ARP_MAXAGE /\ i \in Nat /\ i < ARP_TABLE_SIZE
  BY DEF Entry, Index
<1> DEFINE A == {ARP_MAXAGE - t[i].ctime : i \in S}
<1>1. A \subseteq Nat /\ A # {}
  BY <1>0
<1>2. PICK a \in A : \A b \in A : a <= b
  BY <1>1, LeastNumber
<1>3. PICK m \in S : a = ARP_MAXAGE - t[m].ctime
  BY <1>2
<1>4. \A j \in S : t[j].ctime <= t[m].ctime
  <2>1. ASSUME NEW j \in S PROVE t[j].ctime <= t[m].ctime
    <3>1. ARP_MAXAGE - t[j].ctime \in A
      BY <2>1
    <3>2. ARP_MAXAGE - t[m].ctime <= ARP_MAXAGE - t[j].ctime
      BY <1>2, <1>3, <3>1
    <3> QED  BY <3>2, <1>0, <2>1
  <2> QED  BY <2>1
<1> DEFINE B == {ARP_TABLE_SIZE - i : i \in {i \in S : t[i].ctime = t[m].ctime}}
<1>5. B \subseteq Nat /\ B # {}
  BY <1>0
<1>6. PICK b \in B : \A c \in B : b <= c
  BY <1>5, LeastNumber
<1>7. PICK n \in S : t[n].ctime = t[m].ctime /\ b = ARP_TABLE_SIZE - n
  BY <1>6
<1>8. \A j \in S : t[j].ctime = t[m].ctime => j <= n
  <2>1. ASSUME NEW j \in S, t[j].ctime = t[m].ctime PROVE j <= n
    <3>1. ARP_TABLE_SIZE - j \in B
      BY <2>1
    <3>2. ARP_TABLE_SIZE - n <= ARP_TABLE_SIZE - j
      BY <1>6, <1>7, <3>1
    <3> QED  BY <3>2, <1>0, <2>1
  <2> QED  BY <2>1
<1> HIDE DEF A, B
<1>9. \A j \in S : \/ t[j].ctime < t[n].ctime
                   \/ t[j].ctime = t[n].ctime /\ j <= n
  BY <1>0, <1>4, <1>7, <1>8
<1> QED  BY <1>9 DEF Oldest

\* The entries that may be recycled are entries, and not static.
LEMMA RecyclableOK ==
  ASSUME NEW t \in [Index -> Entry]
  PROVE  \A i \in Recyclable(t) : i \in Index /\ t[i].state # "STATIC"
BY DEF Recyclable

\* No entry has the address ip.
Unknown(t, ip) == \A j \in Full(t) : t[j].ipaddr # ip

\* An empty entry in which the address ip is noted.
Noted(e, ip) == e \in Entry /\ e.state = "EMPTY" /\ e.ipaddr = ip /\ e.q = NULL

\* What etharp_find_entry returns: nothing, the entry of ip, or an entry for ip
\* that was empty or has been recycled.
Found(s, ip, f) ==
  \/ f.i = ERR_MEM /\ f.s = s /\ Unknown(s.table, ip)
  \/ f.i \in Full(s.table) /\ s.table[f.i].ipaddr = ip /\ f.s = s
  \/ /\ f.i \in Index /\ s.table[f.i].state # "STATIC" /\ Unknown(s.table, ip)
     /\ \E e : Noted(e, ip) /\ Replaces(s, f.s, f.i, e)

\* Freeing an entry replaces it by an empty one.
LEMMA FreeReplaces ==
  ASSUME NEW s, ArpOK(s), NEW i \in Index
  PROVE  /\ EmptyEntry(s.table[i].netif) \in Entry
         /\ Replaces(s, etharp_free_entry(s, i), i, EmptyEntry(s.table[i].netif))
<1>1. s.table \in [Index -> Entry] /\ s.live \in Nat
  BY DEF ArpOK, TableOK
<1>2. EmptyEntry(s.table[i].netif) \in Entry
  BY <1>1 DEF EmptyEntry, Entry, State
<1> QED  BY <1>1, <1>2 DEF Replaces, etharp_free_entry, EmptyEntry

\* Noting an address in an empty entry replaces it.
LEMMA NewReplaces ==
  ASSUME NEW s, ArpOK(s), NEW i \in Index, NEW ip \in Local, s.table[i].state = "EMPTY"
  PROVE  /\ NewEntry(s, i, ip).i = i
         /\ \E e : Noted(e, ip) /\ Replaces(s, NewEntry(s, i, ip).s, i, e)
<1>1. /\ s.table \in [Index -> Entry] /\ s.live \in Nat /\ DOMAIN s = {"table", "live"}
      /\ s.table[i] \in Entry /\ s.table[i].q = NULL
  BY DEF ArpOK, TableOK, EntryOK
<1> DEFINE e == [s.table[i] EXCEPT !.ipaddr = ip, !.ctime = 0]
           r == NewEntry(s, i, ip).s
<1>2. Noted(e, ip)
  <2>0. 0 \in 0..ARP_MAXAGE - 1
    OBVIOUS
  <2>1. e \in Entry
    BY <1>1, <2>0 DEF Entry
  <2>2. e.state = "EMPTY" /\ e.ipaddr = ip /\ e.q = NULL
    BY <1>1 DEF Entry
  <2> QED  BY <2>1, <2>2 DEF Noted
<1>3. DOMAIN r = {"table", "live"} /\ r.live = s.live
  BY <1>1 DEF NewEntry
<1>4. r.table = [s.table EXCEPT ![i] = e]
  BY <1>1 DEF NewEntry, Entry
<1>5. Replaces(s, r, i, e)
  <2>1. e.q = NULL
    BY <1>2 DEF Noted
  <2> HIDE DEF e, r
  <2> QED  BY <1>1, <1>3, <1>4, <2>1 DEF Replaces
<1> HIDE DEF e
<1> QED  BY <1>2, <1>5 DEF NewEntry

\* etharp_find_entry returns what it should, for any flags.
LEMMA FindOK ==
  ASSUME NEW s, ArpOK(s), NEW ip \in Local, NEW flags
  PROVE  Found(s, ip, etharp_find_entry(s, ip, flags))
<1> DEFINE match == {i \in Index : s.table[i].state # "EMPTY" /\ s.table[i].ipaddr = ip}
           empty == {i \in Index : s.table[i].state = "EMPTY"}
           old == Recyclable(s.table)
           o == Oldest(s.table, old)
           f == etharp_find_entry(s, ip, flags)
<1>1. \/ match # {} /\ f = [i |-> Lowest(match), s |-> s]
      \/ match = {} /\ f = [i |-> ERR_MEM, s |-> s]
      \/ match = {} /\ empty # {} /\ f = NewEntry(s, Lowest(empty), ip)
      \/ match = {} /\ old # {} /\ f = NewEntry(etharp_free_entry(s, o), o, ip)
  BY DEF etharp_find_entry
<1>2. s.table \in [Index -> Entry] /\ s.live \in Nat
  BY DEF ArpOK, TableOK
<1>3. match = {} => Unknown(s.table, ip)
  BY DEF Unknown, Full
<1>4. CASE match # {} /\ f = [i |-> Lowest(match), s |-> s]
  <2>1. Lowest(match) \in match
    BY <1>4, LowestIsIn
  <2>2. f.i = Lowest(match) /\ f.s = s
    BY <1>4
  <2>3. f.i \in Full(s.table) /\ s.table[f.i].ipaddr = ip
    BY <2>1, <2>2 DEF Full
  <2> QED  BY <2>2, <2>3 DEF Found
<1>5. CASE match = {} /\ f = [i |-> ERR_MEM, s |-> s]
  <2>1. f.i = ERR_MEM /\ f.s = s
    BY <1>5
  <2> QED  BY <2>1, <1>3, <1>5 DEF Found
<1>6. CASE match = {} /\ empty # {} /\ f = NewEntry(s, Lowest(empty), ip)
  <2>1. Lowest(empty) \in empty
    BY <1>6, LowestIsIn
  <2>2. Lowest(empty) \in Index /\ s.table[Lowest(empty)].state = "EMPTY"
    BY <2>1
  <2> HIDE DEF match, empty, f
  <2>3. /\ f.i = Lowest(empty)
        /\ \E e : Noted(e, ip) /\ Replaces(s, f.s, Lowest(empty), e)
    BY <1>6, <2>2, NewReplaces
  <2> QED  BY <2>2, <2>3, <1>3, <1>6 DEF Found, f
<1>7. CASE match = {} /\ old # {} /\ f = NewEntry(etharp_free_entry(s, o), o, ip)
  <2>1. o \in Index /\ s.table[o].state # "STATIC"
    <3>1. old \subseteq Index
      BY <1>2, RecyclableOK
    <3>2. o \in old
      BY <1>2, <1>7, <3>1, OldestIsIn
    <3> QED  BY <1>2, <3>2, RecyclableOK
  <2> DEFINE r == etharp_free_entry(s, o)
             d == EmptyEntry(s.table[o].netif)
  <2> HIDE DEF match, empty, old, o, f
  <2>2. d \in Entry /\ Replaces(s, r, o, d)
    BY <2>1, FreeReplaces
  <2>3. EntryOK(d) /\ d.state = "EMPTY"
    BY DEF EntryOK, EmptyEntry, Resolved
  <2> HIDE DEF r, d
  <2>4. ArpOK(r)
    BY <2>1, <2>2, <2>3, ReplaceOK
  <2>5. r.table[o].state = "EMPTY"
    BY <1>2, <2>1, <2>2, <2>3 DEF Replaces
  <2>6. f.i = o /\ \E e : Noted(e, ip) /\ Replaces(r, f.s, o, e)
    BY <1>7, <2>1, <2>4, <2>5, NewReplaces DEF r
  <2>7. PICK e : Noted(e, ip) /\ Replaces(r, f.s, o, e)
    BY <2>6
  <2>8. Replaces(s, f.s, o, e)
    BY <1>2, <2>1, <2>2, <2>7, ReplaceTwice
  <2> QED  BY <2>1, <2>6, <2>7, <2>8, <1>3, <1>7 DEF Found, f
<1> QED  BY <1>1, <1>4, <1>5, <1>6, <1>7

\* Resolving an entry replaces it.
LEMMA UpdateReplaces ==
  ASSUME NEW s, s.table \in [Index -> Entry], s.live \in Int, NEW i \in Index,
         NEW netif \in Netif, NEW mac \in Mac, NEW flags
  PROVE  \E e \in Entry : /\ Replaces(s, UpdateEntry(s, i, netif, mac, flags), i, e)
                          /\ e.state \in {"STATIC", "STABLE"}
                          /\ e.ipaddr = s.table[i].ipaddr /\ e.ethaddr = mac /\ e.q = NULL
<1> DEFINE st == IF "STATIC_ENTRY" \in flags THEN "STATIC" ELSE "STABLE"
           e == [s.table[i] EXCEPT !.state = st, !.netif = netif, !.ethaddr = mac, !.ctime = 0, !.q = NULL]
           r == UpdateEntry(s, i, netif, mac, flags)
<1>0. s.table[i] \in Entry /\ 0 \in 0..ARP_MAXAGE - 1 /\ st \in State /\ st \in {"STATIC", "STABLE"}
  BY DEF State
<1>1. /\ DOMAIN r = {"table", "live"}
      /\ r.table = [s.table EXCEPT ![i] = e]
      /\ r.live = IF s.table[i].q # NULL THEN s.live - 1 ELSE s.live
  BY DEF UpdateEntry
<1> HIDE DEF st, r
<1>2. e \in Entry
  BY <1>0 DEF Entry
<1>3. /\ e.state = st /\ e.ipaddr = s.table[i].ipaddr /\ e.ethaddr = mac /\ e.q = NULL
  BY <1>0 DEF Entry
<1> HIDE DEF e
<1>4. Replaces(s, r, i, e)
  BY <1>1, <1>3 DEF Replaces
<1> QED  BY <1>0, <1>2, <1>3, <1>4 DEF r
-----------------------------------------------------------------------------
(* The invariant, and what a call may do to the table *)

\* A resolved entry has the hardware address last given for its address.
HeardOK == \A i \in Index : arp.table[i].state \in Resolved =>
             arp.table[i].ethaddr = heard[arp.table[i].ipaddr]

ArpInv == /\ ArpOK(arp)
          /\ cached \in Index
          /\ heard \in [Local -> Mac \cup {NULL}]
          /\ HeardOK

\* A static entry that is not emptied keeps its address.
KeepsStatic(s, r) ==
  \A i \in Index : s.table[i].state = "STATIC" /\ r.table[i].state # "EMPTY"
                     => r.table[i].ipaddr = s.table[i].ipaddr

\* The resolved entry of ip has the hardware address mac; the others were
\* resolved before.
Resolves(s, r, ip, mac) ==
  \A i \in Index : r.table[i].state \in Resolved =>
    IF r.table[i].ipaddr = ip THEN r.table[i].ethaddr = mac
    ELSE /\ s.table[i].state \in Resolved
         /\ r.table[i].ipaddr = s.table[i].ipaddr /\ r.table[i].ethaddr = s.table[i].ethaddr

Follows(s, r, ip, mac) == ArpOK(r) /\ KeepsStatic(s, r) /\ Resolves(s, r, ip, mac)

\* An entry in order is replaced by another for the same address, or by one for
\* an address that had none.
LEMMA ReplaceFollows ==
  ASSUME NEW s, NEW r, NEW i \in Index, NEW e \in Entry, NEW ip, NEW mac,
         ArpOK(s), Replaces(s, r, i, e), EntryOK(e),
         e.state # "EMPTY" => /\ \A j \in Full(s.table) \ {i} : s.table[j].ipaddr # e.ipaddr
                              /\ s.table[i].state = "STATIC" => s.table[i].ipaddr = e.ipaddr,
         e.state \in Resolved => e.ipaddr = ip /\ e.ethaddr = mac,
         \A j \in Full(s.table) \ {i} : s.table[j].ipaddr # ip
  PROVE  Follows(s, r, ip, mac)
<1>1. ArpOK(r)
  BY ReplaceOK
<1>2. /\ s.table \in [Index -> Entry]
      /\ r.table[i] = e /\ \A j \in Index \ {i} : r.table[j] = s.table[j]
  BY DEF ArpOK, TableOK, Replaces
<1>3. KeepsStatic(s, r)
  BY <1>2 DEF KeepsStatic
<1>4. Resolves(s, r, ip, mac)
  BY <1>2 DEF Resolves, Full, Resolved
<1> QED  BY <1>1, <1>3, <1>4 DEF Follows

\* A table that is left alone, when ip has no entry.
LEMMA SameFollows ==
  ASSUME NEW s, NEW ip, NEW mac, ArpOK(s), Unknown(s.table, ip)
  PROVE  Follows(s, s, ip, mac)
BY DEF Follows, KeepsStatic, Resolves, Unknown, Full, Resolved

\* Addresses that are not on the link have no entry.
LEMMA OffLink ==
  ASSUME NEW s, ArpOK(s), NEW ip, ip \notin Local
  PROVE  Unknown(s.table, ip)
BY DEF ArpOK, TableOK, EntryOK, Unknown, Full

\* The history is kept up to date with the table.
LEMMA HearOK ==
  ASSUME ArpInv, NEW ip, NEW mac \in Mac \cup {NULL}, Follows(arp, arp', ip, mac), Hear(ip, mac)
  PROVE  /\ HeardOK' /\ heard' \in [Local -> Mac \cup {NULL}]
         /\ \A i \in Index : arp'.table[i].ipaddr \in Local =>
              heard'[arp'.table[i].ipaddr] =
                IF arp'.table[i].ipaddr = ip THEN mac ELSE heard[arp'.table[i].ipaddr]
<1>1. heard \in [Local -> Mac \cup {NULL}]
  BY DEF ArpInv
<1>2. heard' \in [Local -> Mac \cup {NULL}]
  BY <1>1 DEF Hear
<1>3. \A i \in Index : arp'.table[i].ipaddr \in Local =>
              heard'[arp'.table[i].ipaddr] =
                IF arp'.table[i].ipaddr = ip THEN mac ELSE heard[arp'.table[i].ipaddr]
  BY DEF Hear
<1>4. ASSUME NEW i \in Index, arp'.table[i].state \in Resolved
      PROVE  arp'.table[i].ethaddr = heard'[arp'.table[i].ipaddr]
  <2>1. arp'.table[i].ipaddr \in Local
    BY <1>4 DEF Follows, ArpOK, TableOK, EntryOK, Resolved
  <2>2. arp'.table[i].ipaddr # ip =>
          arp'.table[i].ethaddr = heard[arp'.table[i].ipaddr]
    BY <1>4 DEF Follows, Resolves, ArpInv, HeardOK
  <2>3. arp'.table[i].ipaddr = ip => arp'.table[i].ethaddr = mac
    BY <1>4 DEF Follows, Resolves
  <2> QED  BY <2>1, <2>2, <2>3, <1>3
<1> QED  BY <1>2, <1>3, <1>4 DEF HeardOK

\* etharp_update_arp_entry: the entry of ip, if it gets one, is resolved to mac,
\* and what was queued on it was meant for ip.
LEMMA UpdateFollows ==
  ASSUME ArpInv, NEW netif \in Netif, NEW ip \in Local \cup Group, NEW mac \in Mac, NEW flags, NEW reply,
         etharp_update_arp_entry(netif, ip, mac, flags, reply)
  PROVE  /\ Follows(arp, arp', ip, mac)
         /\ \/ out' = reply
            \/ /\ out' = reply \cup {Frame("ip", ip, mac)}
               /\ \E i \in Index : arp'.table[i].ipaddr = ip
               /\ ip \in Local
<1>0. /\ ArpOK(arp) /\ arp.table \in [Index -> Entry] /\ arp.live \in Nat
      /\ \A j \in Index : EntryOK(arp.table[j])
      /\ \A j, k \in Full(arp.table) : arp.table[j].ipaddr = arp.table[k].ipaddr => j = k
  BY DEF ArpInv, ArpOK, TableOK
<1> DEFINE f == etharp_find_entry(arp, ip, flags)
           packet == f.s.table[f.i].q
<1>1. CASE ip \in Group /\ out' = reply /\ arp' = arp
  <2>1. Unknown(arp.table, ip)
    BY <1>0, <1>1, OffLink
  <2> QED  BY <1>0, <1>1, <2>1, SameFollows
<1>2. CASE ip \notin Group /\ f.i = ERR_MEM /\ out' = reply /\ arp' = arp
  <2>1. Found(arp, ip, f)
    BY <1>0, <1>2, FindOK
  <2>2. Unknown(arp.table, ip)
    BY <1>2, <2>1 DEF Found, ERR_MEM, Index, Full
  <2> QED  BY <1>0, <1>2, <2>2, SameFollows
<1>3. CASE /\ ip \notin Group /\ f.i # ERR_MEM
           /\ arp' = UpdateEntry(f.s, f.i, netif, mac, flags)
           /\ out' = reply \cup (IF packet = NULL THEN {} ELSE {Frame("ip", packet, mac)})
  <2>0. ip \in Local
    BY <1>3
  <2>1. Found(arp, ip, f)
    BY <1>0, <2>0, FindOK
  <2> HIDE DEF f
  <2> DEFINE Fits ==
               /\ f.i \in Index /\ f.s.table \in [Index -> Entry] /\ f.s.live \in Int
               /\ f.s.table[f.i].ipaddr = ip
               /\ packet = NULL \/ packet = ip
               /\ \A j \in Full(arp.table) \ {f.i} : arp.table[j].ipaddr # ip
               /\ arp.table[f.i].state = "STATIC" => arp.table[f.i].ipaddr = ip
               /\ f.s = arp \/ \E d : Replaces(arp, f.s, f.i, d)
  <2>2. Fits
    <3>1. CASE f.i \in Full(arp.table) /\ arp.table[f.i].ipaddr = ip /\ f.s = arp
      BY <3>1, <1>0 DEF Full, EntryOK
    <3>2. ASSUME f.i \in Index, arp.table[f.i].state # "STATIC", Unknown(arp.table, ip),
                 NEW d, Noted(d, ip), Replaces(arp, f.s, f.i, d)
          PROVE  Fits
      <4>1. d \in Entry /\ d.ipaddr = ip /\ d.q = NULL
        BY <3>2 DEF Noted
      <4>2. f.s.table \in [Index -> Entry] /\ f.s.live \in Int /\ f.s.table[f.i] = d
        BY <3>2, <4>1, <1>0 DEF Replaces
      <4> QED  BY <3>2, <4>1, <4>2 DEF Unknown
    <3> QED  BY <3>1, <3>2, <2>1, <1>3 DEF Found
  <2>3. PICK e \in Entry : /\ Replaces(f.s, arp', f.i, e)
                           /\ e.state \in {"STATIC", "STABLE"}
                           /\ e.ipaddr = ip /\ e.ethaddr = mac /\ e.q = NULL
    BY <1>3, <2>2, UpdateReplaces
  <2>4. Replaces(arp, arp', f.i, e)
    BY <1>0, <2>2, <2>3, ReplaceTwice
  <2>5. EntryOK(e)
    BY <2>0, <2>3 DEF EntryOK, Resolved
  <2>6. Follows(arp, arp', ip, mac)
    BY <1>0, <2>2, <2>3, <2>4, <2>5, ReplaceFollows
  <2>7. arp'.table[f.i].ipaddr = ip
    BY <1>0, <2>2, <2>3, <2>4 DEF Replaces
  <2> HIDE DEF packet
  <2> QED  BY <1>3, <2>0, <2>2, <2>6, <2>7
<1> QED  BY <1>1, <1>2, <1>3 DEF etharp_update_arp_entry
-----------------------------------------------------------------------------
(* Every call keeps the invariant *)

\* What is shown of each call.
StepOK == ArpInv' /\ KeepsStatic(arp, arp') /\ SentToLastHeard'

\* A packet of the link resolves an entry, or not.
LEMMA InputStep ==
  ASSUME ArpInv, NEW netif \in Netif, NEW ip \in Local \cup Group, NEW mac \in Mac, NEW flags, NEW reply,
         \A f \in reply : f.kind # "ip",
         etharp_update_arp_entry(netif, ip, mac, flags, reply), Hear(ip, mac), cached' = cached
  PROVE  StepOK
<1>1. /\ Follows(arp, arp', ip, mac)
      /\ \/ out' = reply
         \/ /\ out' = reply \cup {Frame("ip", ip, mac)}
            /\ \E i \in Index : arp'.table[i].ipaddr = ip
            /\ ip \in Local
  BY UpdateFollows
<1>2. /\ HeardOK' /\ heard' \in [Local -> Mac \cup {NULL}]
      /\ \A i \in Index : arp'.table[i].ipaddr \in Local =>
              heard'[arp'.table[i].ipaddr] =
                IF arp'.table[i].ipaddr = ip THEN mac ELSE heard[arp'.table[i].ipaddr]
  BY <1>1, HearOK
<1>3. ArpInv' /\ KeepsStatic(arp, arp')
  BY <1>1, <1>2 DEF ArpInv, Follows
<1>4. SentToLastHeard'
  <2>1. CASE out' = reply
    BY <2>1 DEF SentToLastHeard
  <2>2. CASE /\ out' = reply \cup {Frame("ip", ip, mac)}
             /\ \E i \in Index : arp'.table[i].ipaddr = ip
             /\ ip \in Local
    <3>1. heard'[ip] = mac /\ mac # NULL
      BY <1>2, <2>2
    <3>2. \A f \in out' : f.kind = "ip" => f.ip = ip /\ f.mac = mac
      BY <2>2 DEF Frame
    <3> QED  BY <3>1, <3>2 DEF SentToLastHeard
  <2> QED  BY <1>1, <2>1, <2>2
<1> QED  BY <1>3, <1>4 DEF StepOK

\* A call that gives no hardware address and sends no packet.
LEMMA QuietStep ==
  ASSUME ArpInv, Follows(arp, arp', NULL, NULL), HearNothing, cached' \in Index, out' = {}
  PROVE  StepOK
<1>1. HeardOK' /\ heard' \in [Local -> Mac \cup {NULL}]
  BY HearOK DEF HearNothing
<1> QED  BY <1>1 DEF StepOK, ArpInv, Follows, SentToLastHeard

\* etharp_remove_static_entry empties the entry of ip, if it is static.
LEMMA RemoveStep ==
  ASSUME ArpInv, NEW ip \in Local, etharp_remove_static_entry(ip)
  PROVE  StepOK
<1> DEFINE i == etharp_find_entry(arp, ip, {"FIND_ONLY"}).i
           e == EmptyEntry(arp.table[i].netif)
<1>1. ArpOK(arp) /\ cached \in Index
  BY DEF ArpInv
<1>2. Found(arp, ip, etharp_find_entry(arp, ip, {"FIND_ONLY"}))
  BY <1>1, FindOK
<1>3. i = ERR_MEM \/ i \in Index
  BY <1>2 DEF Found, Full
<1>4. Unknown(arp.table, NULL)
  BY <1>1, OffLink
<1>5. /\ arp' = IF i # ERR_MEM /\ arp.table[i].state = "STATIC" THEN etharp_free_entry(arp, i) ELSE arp
      /\ out' = {} /\ HearNothing /\ cached' = cached
  BY DEF etharp_remove_static_entry
<1> HIDE DEF i
<1>6. Follows(arp, arp', NULL, NULL)
  <2>1. CASE arp' = arp
    BY <2>1, <1>1, <1>4, SameFollows
  <2>2. CASE i \in Index /\ arp' = etharp_free_entry(arp, i)
    <3>1. e \in Entry /\ Replaces(arp, arp', i, e)
      BY <1>1, <2>2, FreeReplaces
    <3>2. EntryOK(e) /\ e.state = "EMPTY" /\ e.state \notin Resolved
      BY DEF EntryOK, EmptyEntry, Resolved
    <3> HIDE DEF e
    <3> QED  BY <1>1, <1>4, <2>2, <3>1, <3>2, ReplaceFollows DEF Unknown
  <2> QED  BY <2>1, <2>2, <1>3, <1>5
<1> QED  BY <1>1, <1>5, <1>6, QuietStep

\* Emptying some entries, and leaving the address and the packet of the others.
LEMMA ShrinkFollows ==
  ASSUME NEW s, NEW r, NEW X, ArpOK(s), Shrinks(s, r, X)
  PROVE  Follows(s, r, NULL, NULL)
<1>1. ArpOK(r) /\ \A i \in Index : EntryOK(r.table[i])
  BY ShrinkOK
<1>2. KeepsStatic(s, r)
  BY DEF KeepsStatic, Shrinks
<1>3. Resolves(s, r, NULL, NULL)
  BY <1>1 DEF Resolves, Resolved, EntryOK, Shrinks
<1> QED  BY <1>1, <1>2, <1>3 DEF Follows

\* FreeEntries does so, also on a table u in which entries have aged.
LEMMA FreeShrinks ==
  ASSUME NEW s, NEW u, NEW X, X \subseteq Index, u.live = s.live,
         \A i \in Index : u.table[i].netif \in Netif \cup {NULL} /\ u.table[i].q = s.table[i].q,
         \A i \in Index \ X : /\ u.table[i] \in Entry
                              /\ u.table[i].ipaddr = s.table[i].ipaddr
                              /\ u.table[i].ethaddr = s.table[i].ethaddr
                              /\ \/ u.table[i].state = s.table[i].state
                                 \/ /\ u.table[i].state = "STABLE"
                                    /\ s.table[i].state = "STABLE_REREQUESTING"
  PROVE  Shrinks(s, FreeEntries(u, X), X)
<1> DEFINE r == FreeEntries(u, X)
<1>1. ASSUME NEW n \in Netif \cup {NULL}
      PROVE  EmptyEntry(n) \in Entry /\ EntryOK(EmptyEntry(n)) /\ EmptyEntry(n).state = "EMPTY"
  <2>1. EmptyEntry(n) \in Entry
    BY <1>1 DEF EmptyEntry, Entry, State
  <2>2. EntryOK(EmptyEntry(n)) /\ EmptyEntry(n).state = "EMPTY"
    BY DEF EmptyEntry, EntryOK, Resolved
  <2> QED  BY <2>1, <2>2
<1>2. {i \in X : u.table[i].q # NULL} = {i \in X : s.table[i].q # NULL}
  OBVIOUS
<1>3. DOMAIN r = {"table", "live"} /\ r.live = s.live - Cardinality({i \in X : s.table[i].q # NULL})
  BY <1>2 DEF FreeEntries
<1>4. r.table = [i \in Index |-> IF i \in X THEN EmptyEntry(u.table[i].netif) ELSE u.table[i]]
  BY DEF FreeEntries
<1> HIDE DEF r
<1>5. /\ \A i \in X : r.table[i] = EmptyEntry(u.table[i].netif)
      /\ \A i \in Index \ X : r.table[i] = u.table[i]
  BY <1>4
<1>6. r.table \in [Index -> Entry]
  BY <1>1, <1>4
<1>7. \A i \in X : r.table[i].state = "EMPTY" /\ EntryOK(r.table[i])
  BY <1>1, <1>5
<1> QED  BY <1>3, <1>5, <1>6, <1>7 DEF Shrinks, r

\* etharp_cleanup_netif empties the entries of an interface.
LEMMA CleanupStep ==
  ASSUME ArpInv, NEW netif \in Netif, etharp_cleanup_netif(netif)
  PROVE  StepOK
<1> DEFINE X == {i \in Index : arp.table[i].state # "EMPTY" /\ arp.table[i].netif = netif}
<1>1. ArpOK(arp) /\ cached \in Index
  BY DEF ArpInv
<1>2. arp' = FreeEntries(arp, X) /\ out' = {} /\ HearNothing /\ cached' = cached
  BY DEF etharp_cleanup_netif
<1>3. \A i \in Index : arp.table[i] \in Entry /\ arp.table[i].netif \in Netif \cup {NULL}
  BY <1>1 DEF ArpOK, TableOK, Entry
<1>4. X \subseteq Index
  OBVIOUS
<1> HIDE DEF X
<1>5. Shrinks(arp, arp', X)
  BY <1>2, <1>3, <1>4, FreeShrinks
<1> QED  BY <1>1, <1>2, <1>5, ShrinkFollows, QuietStep

\* etharp_tmr empties the entries that have grown too old, and leaves the age of
\* the others below ARP_MAXAGE.
LEMMA TimerStep ==
  ASSUME ArpInv, etharp_tmr
  PROVE  StepOK
<1> DEFINE ticks(e) == e.state \notin {"EMPTY", "STATIC"}
           older == [i \in Index |-> IF ticks(arp.table[i])
                                     THEN [arp.table[i] EXCEPT !.ctime = @ + 1] ELSE arp.table[i]]
           expired == {i \in Index : ticks(older[i]) /\ Aged(older[i])}
           kept == [i \in Index |-> IF older[i].state = "STABLE_REREQUESTING"
                                    THEN [older[i] EXCEPT !.state = "STABLE"] ELSE older[i]]
           u == [arp EXCEPT !.table = kept]
<1>1. /\ ArpOK(arp) /\ cached \in Index /\ DOMAIN arp = {"table", "live"}
      /\ \A i \in Index : arp.table[i] \in Entry
  BY DEF ArpInv, ArpOK, TableOK
<1>2. arp' = FreeEntries(u, expired) /\ out' = {} /\ HearNothing /\ cached' = cached
  BY DEF etharp_tmr
<1>3. ASSUME NEW i \in Index
      PROVE  /\ kept[i].netif \in Netif \cup {NULL} /\ kept[i].q = arp.table[i].q
             /\ i \notin expired =>
                  /\ kept[i] \in Entry
                  /\ kept[i].ipaddr = arp.table[i].ipaddr
                  /\ kept[i].ethaddr = arp.table[i].ethaddr
                  /\ \/ kept[i].state = arp.table[i].state
                     \/ kept[i].state = "STABLE" /\ arp.table[i].state = "STABLE_REREQUESTING"
  <2> DEFINE e == arp.table[i]
             o == IF ticks(e) THEN [e EXCEPT !.ctime = @ + 1] ELSE e
             k == IF o.state = "STABLE_REREQUESTING" THEN [o EXCEPT !.state = "STABLE"] ELSE o
  <2>1. kept[i] = k /\ (i \notin expired => ~(ticks(o) /\ Aged(o)))
    OBVIOUS
  <2>2. e \in Entry
    BY <1>1
  <2> HIDE DEF e
  <2>3. /\ o.state = e.state /\ o.ipaddr = e.ipaddr /\ o.ethaddr = e.ethaddr
        /\ o.netif = e.netif /\ o.q = e.q
        /\ o = [state |-> e.state, ipaddr |-> e.ipaddr, ethaddr |-> e.ethaddr,
                netif |-> e.netif, ctime |-> o.ctime, q |-> e.q]
        /\ o.ctime = IF ticks(e) THEN e.ctime + 1 ELSE e.ctime
    BY <2>2 DEF Entry
  <2>4. ~(ticks(o) /\ Aged(o)) => o.ctime \in 0..ARP_MAXAGE - 1
    BY <2>2, <2>3 DEF Entry, Aged
  <2> HIDE DEF o
  <2>5. ~(ticks(o) /\ Aged(o)) => o \in Entry
    BY <2>2, <2>3, <2>4 DEF Entry
  <2>6. /\ k.ipaddr = e.ipaddr /\ k.ethaddr = e.ethaddr /\ k.netif = e.netif /\ k.q = e.q
        /\ k.state = e.state \/ (k.state = "STABLE" /\ e.state = "STABLE_REREQUESTING")
    BY <2>3
  <2>7. o \in Entry => k \in Entry
    BY DEF Entry, State
  <2>8. e.netif \in Netif \cup {NULL}
    BY <2>2 DEF Entry
  <2> HIDE DEF k
  <2> QED  BY <2>1, <2>5, <2>6, <2>7, <2>8 DEF e
<1>4. expired \subseteq Index /\ u.live = arp.live /\ u.table = kept
  BY <1>1
<1> HIDE DEF expired, kept, u
<1>5. Shrinks(arp, arp', expired)
  BY <1>2, <1>3, <1>4, FreeShrinks
<1> QED  BY <1>1, <1>2, <1>5, ShrinkFollows, QuietStep

\* The table when etharp_query has its entry, and when it returns.
Pended(s, i) == IF s.table[i].state = "EMPTY" THEN [s EXCEPT !.table[i].state = "PENDING"] ELSE s
QueuedOn(s, i, ip, queue) == IF queue THEN Enqueue(s, i, ip) ELSE s

\* Making an empty entry pending replaces it.
LEMMA PendReplaces ==
  ASSUME NEW s, DOMAIN s = {"table", "live"}, s.table \in [Index -> Entry], s.live \in Int,
         NEW i \in Index, s.table[i].state = "EMPTY"
  PROVE  \E e \in Entry : /\ Replaces(s, Pended(s, i), i, e)
                          /\ e.state = "PENDING" /\ e.ipaddr = s.table[i].ipaddr /\ e.q = s.table[i].q
<1> DEFINE e == [s.table[i] EXCEPT !.state = "PENDING"]
           r == Pended(s, i)
<1>1. s.table[i] \in Entry
  OBVIOUS
<1>2. e \in Entry
  BY <1>1 DEF Entry, State
<1>3. e.state = "PENDING" /\ e.ipaddr = s.table[i].ipaddr /\ e.q = s.table[i].q
  BY <1>1 DEF Entry
<1>4. DOMAIN r = {"table", "live"} /\ r.table = [s.table EXCEPT ![i] = e] /\ r.live = s.live
  BY DEF Pended
<1> HIDE DEF e, r
<1>5. Replaces(s, r, i, e)
  BY <1>3, <1>4 DEF Replaces
<1> QED  BY <1>2, <1>3, <1>5 DEF r

\* Queueing a packet on an entry replaces it.
LEMMA EnqueueReplaces ==
  ASSUME NEW s, DOMAIN s = {"table", "live"}, s.table \in [Index -> Entry], s.live \in Int,
         NEW i \in Index, NEW ip \in Local
  PROVE  \E e \in Entry : /\ Replaces(s, Enqueue(s, i, ip), i, e)
                          /\ e.state = s.table[i].state /\ e.ipaddr = s.table[i].ipaddr /\ e.q = ip
<1> DEFINE e == [s.table[i] EXCEPT !.q = ip]
           r == Enqueue(s, i, ip)
<1>1. s.table[i] \in Entry
  OBVIOUS
<1>2. e \in Entry
  BY <1>1 DEF Entry
<1>3. e.state = s.table[i].state /\ e.ipaddr = s.table[i].ipaddr /\ e.q = ip
  BY <1>1 DEF Entry
<1>4. /\ DOMAIN r = {"table", "live"} /\ r.table = [s.table EXCEPT ![i] = e]
      /\ r.live = IF s.table[i].q = NULL THEN s.live + 1 ELSE s.live
  BY DEF Enqueue
<1> HIDE DEF e, r
<1>5. Replaces(s, r, i, e)
  BY <1>3, <1>4 DEF Replaces
<1> QED  BY <1>2, <1>3, <1>5 DEF r

\* An entry that is replaced by a pending one for the same address, or for an
\* address that had none.
LEMMA PendingFollows ==
  ASSUME NEW s, NEW r, NEW i \in Index, NEW e \in Entry, NEW ip \in Local, ArpOK(s), Replaces(s, r, i, e),
         e.state = "PENDING", e.ipaddr = ip, e.q = NULL \/ e.q = ip, s.table[i].state # "STATIC",
         \A j \in Full(s.table) \ {i} : s.table[j].ipaddr # ip
  PROVE  Follows(s, r, NULL, NULL)
<1>1. EntryOK(e) /\ e.state # "EMPTY" /\ e.state \notin Resolved
  BY DEF EntryOK, Resolved
<1>2. \A j \in Full(s.table) \ {i} : s.table[j].ipaddr # NULL
  BY OffLink DEF Unknown
<1> QED  BY <1>1, <1>2, ReplaceFollows

\* Queueing on a pending entry of ip.
LEMMA QueueFollows ==
  ASSUME NEW s, NEW u, ArpOK(s), NEW i \in Index, NEW ip \in Local, NEW queue \in BOOLEAN,
         s.table[i].state # "STATIC", \A j \in Full(s.table) \ {i} : s.table[j].ipaddr # ip,
         NEW p \in Entry, Replaces(s, u, i, p), p.state = "PENDING", p.ipaddr = ip, p.q = NULL \/ p.q = ip
  PROVE  Follows(s, QueuedOn(u, i, ip, queue), NULL, NULL)
<1> DEFINE r == QueuedOn(u, i, ip, queue)
<1>0. s.table \in [Index -> Entry] /\ s.live \in Nat
  BY DEF ArpOK, TableOK
<1>1. CASE ~queue
  <2>1. r = u
    BY <1>1 DEF QueuedOn
  <2>2. Follows(s, u, NULL, NULL)
    BY PendingFollows
  <2> QED  BY <2>1, <2>2
<1>2. CASE queue
  <2>1. r = Enqueue(u, i, ip)
    BY <1>2 DEF QueuedOn
  <2>2. /\ DOMAIN u = {"table", "live"} /\ u.table \in [Index -> Entry] /\ u.live \in Int
        /\ u.table[i] = p
    BY <1>0 DEF Replaces
  <2> HIDE DEF r
  <2>3. PICK e \in Entry : Replaces(u, r, i, e) /\ e.state = "PENDING" /\ e.ipaddr = ip /\ e.q = ip
    BY <2>1, <2>2, EnqueueReplaces
  <2>4. Replaces(s, r, i, e)
    BY <1>0, <2>3, ReplaceTwice
  <2> QED  BY <2>3, <2>4, PendingFollows DEF r
<1> QED  BY <1>1, <1>2

\* Making a new entry for ip pending.
LEMMA QueryNew ==
  ASSUME NEW s, NEW g, ArpOK(s), NEW i \in Index, NEW ip \in Local, NEW queue \in BOOLEAN,
         s.table[i].state # "STATIC", Unknown(s.table, ip),
         NEW d, Noted(d, ip), Replaces(s, g, i, d)
  PROVE  /\ Follows(s, QueuedOn(Pended(g, i), i, ip, queue), NULL, NULL)
         /\ Pended(g, i).table[i].state = "PENDING"
<1> DEFINE u == Pended(g, i)
<1>0. s.table \in [Index -> Entry] /\ s.live \in Nat
  BY DEF ArpOK, TableOK
<1>1. d \in Entry /\ d.state = "EMPTY" /\ d.ipaddr = ip /\ d.q = NULL
  BY DEF Noted
<1>2. /\ DOMAIN g = {"table", "live"} /\ g.table \in [Index -> Entry] /\ g.live \in Int
      /\ g.table[i] = d
  BY <1>0, <1>1 DEF Replaces
<1>3. PICK p \in Entry : Replaces(g, u, i, p) /\ p.state = "PENDING" /\ p.ipaddr = ip /\ p.q = NULL
  BY <1>1, <1>2, PendReplaces
<1> HIDE DEF u
<1>4. Replaces(s, u, i, p)
  BY <1>0, <1>3, ReplaceTwice
<1>5. u.table[i].state = "PENDING"
  BY <1>0, <1>3, <1>4 DEF Replaces
<1>6. \A j \in Full(s.table) \ {i} : s.table[j].ipaddr # ip
  BY DEF Unknown
<1> QED  BY <1>3, <1>4, <1>5, <1>6, QueueFollows DEF u

\* etharp_query leaves a resolved entry as it is, and makes another one pending.
LEMMA QueryFollows ==
  ASSUME NEW s, ArpOK(s), NEW ip \in Local, NEW f, Found(s, ip, f), f.i # ERR_MEM,
         NEW queue \in BOOLEAN, queue => Pended(f.s, f.i).table[f.i].state = "PENDING"
  PROVE  /\ f.i \in Index
         /\ Follows(s, QueuedOn(Pended(f.s, f.i), f.i, ip, queue), NULL, NULL)
         /\ Pended(f.s, f.i).table[f.i].state # "PENDING" =>
              Pended(f.s, f.i) = s /\ s.table[f.i].state \in Resolved /\ s.table[f.i].ipaddr = ip
<1> DEFINE i == f.i
           u == Pended(f.s, i)
<1>0. /\ DOMAIN s = {"table", "live"} /\ s.table \in [Index -> Entry] /\ s.live \in Nat
      /\ \A j \in Index : EntryOK(s.table[j])
      /\ \A j, k \in Full(s.table) : s.table[j].ipaddr = s.table[k].ipaddr => j = k
  BY DEF ArpOK, TableOK
<1>1. CASE i \in Full(s.table) /\ s.table[i].ipaddr = ip /\ f.s = s
  <2>1. /\ i \in Index /\ u = s /\ \A j \in Full(s.table) \ {i} : s.table[j].ipaddr # ip
        /\ s.table[i] \in Entry /\ EntryOK(s.table[i])
    BY <1>0, <1>1 DEF Full, Pended
  <2>2. s.table[i].state # "PENDING" => s.table[i].state \in Resolved
    BY <1>1, <2>1 DEF Full, Entry, State, Resolved
  <2> HIDE DEF i, u
  <2>3. CASE s.table[i].state = "PENDING"
    <3>1. PICK p \in Entry : p = s.table[i]
      BY <2>1
    <3>2. /\ Replaces(s, u, i, p) /\ p.state = "PENDING" /\ p.ipaddr = ip
          /\ p.q = NULL \/ p.q = ip
      BY <1>0, <1>1, <2>1, <2>3, <3>1 DEF Replaces, EntryOK
    <3>3. s.table[i].state # "STATIC"
      BY <2>3
    <3>4. Follows(s, QueuedOn(u, i, ip, queue), NULL, NULL)
      BY <2>1, <3>2, <3>3, QueueFollows
    <3> QED  BY <2>1, <2>3, <3>4 DEF i, u
  <2>4. CASE s.table[i].state # "PENDING"
    <3>1. QueuedOn(u, i, ip, queue) = s
      BY <2>1, <2>4 DEF QueuedOn, i, u
    <3>2. Follows(s, s, NULL, NULL)
      BY SameFollows, OffLink
    <3> QED  BY <1>1, <2>1, <2>2, <2>4, <3>1, <3>2 DEF i, u
  <2> QED  BY <2>3, <2>4
<1>2. CASE /\ i \in Index /\ s.table[i].state # "STATIC" /\ Unknown(s.table, ip)
           /\ \E d : Noted(d, ip) /\ Replaces(s, f.s, i, d)
  <2> HIDE DEF i
  <2>1. Follows(s, QueuedOn(u, i, ip, queue), NULL, NULL) /\ u.table[i].state = "PENDING"
    BY <1>2, QueryNew
  <2> QED  BY <1>2, <2>1 DEF i
<1> QED  BY <1>1, <1>2 DEF Found

\* etharp_query, with or without a packet.
LEMMA QueryStep ==
  ASSUME ArpInv, NEW ip \in Local, NEW packet \in BOOLEAN, NEW sent \in BOOLEAN, NEW copied \in BOOLEAN,
         etharp_query(ip, packet, sent, copied)
  PROVE  StepOK
<1> DEFINE f == etharp_find_entry(arp, ip, {"TRY_HARD"})
           i == f.i
           s == Pended(f.s, f.i)
           pending == s.table[i].state = "PENDING"
           queue == packet /\ pending /\ copied
<1>0. /\ ArpOK(arp) /\ cached \in Index /\ HeardOK /\ \A j \in Index : EntryOK(arp.table[j])
      /\ Unknown(arp.table, NULL)
  BY OffLink DEF ArpInv, ArpOK, TableOK
<1>1. /\ HearNothing /\ ip \notin Group
      /\ \/ i = ERR_MEM /\ out' = {} /\ arp' = arp /\ cached' = cached
         \/ /\ i # ERR_MEM
            /\ arp' = QueuedOn(s, i, ip, queue)
            /\ out' = (IF pending \/ ~packet THEN Request(ip, sent) ELSE {})
                        \cup (IF packet /\ ~pending THEN {Frame("ip", ip, s.table[i].ethaddr)} ELSE {})
            /\ cached' = IF packet /\ ~pending THEN i ELSE cached
  BY DEF etharp_query, Pended, QueuedOn
<1>2. Found(arp, ip, f)
  BY <1>0, FindOK
<1> HIDE DEF f
<1>3. CASE i = ERR_MEM /\ out' = {} /\ arp' = arp /\ cached' = cached
  BY <1>0, <1>1, <1>3, SameFollows, QuietStep
<1>4. CASE /\ i # ERR_MEM
           /\ arp' = QueuedOn(s, i, ip, queue)
           /\ out' = (IF pending \/ ~packet THEN Request(ip, sent) ELSE {})
                       \cup (IF packet /\ ~pending THEN {Frame("ip", ip, s.table[i].ethaddr)} ELSE {})
           /\ cached' = IF packet /\ ~pending THEN i ELSE cached
  <2>1. /\ i \in Index
        /\ Follows(arp, arp', NULL, NULL)
        /\ ~pending => s = arp /\ arp.table[i].state \in Resolved /\ arp.table[i].ipaddr = ip
    BY <1>0, <1>2, <1>4, QueryFollows
  <2>2. ~pending => arp' = s
    BY <1>4 DEF QueuedOn
  <2>3. \A x \in Request(ip, sent) : x.kind # "ip"
    BY DEF Request, Frame
  <2> HIDE DEF i, s
  <2>4. /\ HeardOK' /\ heard' \in [Local -> Mac \cup {NULL}]
        /\ \A j \in Index : arp'.table[j].ipaddr \in Local =>
              heard'[arp'.table[j].ipaddr] =
                IF arp'.table[j].ipaddr = NULL THEN NULL ELSE heard[arp'.table[j].ipaddr]
    BY <2>1, HearOK, <1>1 DEF HearNothing
  <2>5. ArpInv' /\ KeepsStatic(arp, arp')
    BY <1>0, <1>4, <2>1, <2>4 DEF ArpInv, Follows
  <2>6. CASE pending \/ ~packet
    BY <1>4, <2>3, <2>5, <2>6 DEF StepOK, SentToLastHeard
  <2>7. CASE ~pending /\ packet
    <3>1. arp' = arp /\ s = arp /\ arp.table[i].state \in Resolved /\ arp.table[i].ipaddr = ip
      BY <2>1, <2>2, <2>7
    <3>2. arp.table[i].ethaddr = heard[ip] /\ arp.table[i].ethaddr # NULL
      BY <1>0, <2>1, <3>1 DEF HeardOK, EntryOK
    <3>3. heard'[ip] = heard[ip]
      BY <2>1, <2>4, <3>1
    <3>4. out' = {Frame("ip", ip, heard[ip])}
      BY <1>4, <2>7, <3>1, <3>2
    <3>5. SentToLastHeard'
      BY <3>2, <3>3, <3>4 DEF SentToLastHeard, Frame
    <3> QED  BY <2>5, <3>5 DEF StepOK
  <2> QED  BY <2>6, <2>7
<1> QED  BY <1>1, <1>3, <1>4

\* etharp_output_to_arp_index, with the resolved entry of ip.
LEMMA SendStep ==
  ASSUME ArpInv, NEW ip, NEW i \in Index, NEW sent \in BOOLEAN, cached' \in Index,
         arp.table[i].state \in Resolved, arp.table[i].ipaddr = ip,
         etharp_output_to_arp_index(ip, i, sent)
  PROVE  StepOK
<1> DEFINE e == arp.table[i]
           d == [e EXCEPT !.state = "STABLE_REREQUESTING"]
           renew == e.state = "STABLE" /\ e.ctime >= ARP_AGE_REREQUEST_USED
<1>0. /\ ArpOK(arp) /\ HeardOK /\ heard \in [Local -> Mac \cup {NULL}]
      /\ DOMAIN arp = {"table", "live"} /\ arp.table \in [Index -> Entry] /\ arp.live \in Nat
      /\ \A j \in Index : EntryOK(arp.table[j])
      /\ \A j, k \in Full(arp.table) : arp.table[j].ipaddr = arp.table[k].ipaddr => j = k
  BY DEF ArpInv, ArpOK, TableOK
<1>1. /\ arp' = IF renew /\ sent THEN [arp EXCEPT !.table[i].state = "STABLE_REREQUESTING"] ELSE arp
      /\ out' = {Frame("ip", ip, e.ethaddr)} \cup (IF renew THEN Request(e.ipaddr, sent) ELSE {})
      /\ heard' = heard
  BY DEF etharp_output_to_arp_index
<1>2. e \in Entry /\ e.ethaddr = heard[ip] /\ e.ethaddr # NULL /\ e.q = NULL /\ ip \in Local /\ e.state # "EMPTY"
  BY <1>0 DEF HeardOK, EntryOK, Resolved
<1>3. ArpOK(arp') /\ KeepsStatic(arp, arp') /\ HeardOK'
  <2>1. CASE arp' = arp
    BY <1>0, <1>1, <2>1 DEF KeepsStatic, HeardOK
  <2>2. CASE arp' = [arp EXCEPT !.table[i].state = "STABLE_REREQUESTING"]
    <3>1. d \in Entry
      BY <1>2 DEF Entry, State
    <3>2. d.state = "STABLE_REREQUESTING" /\ d.ipaddr = ip /\ d.ethaddr = e.ethaddr /\ d.q = NULL
      BY <1>2 DEF Entry
    <3>3. DOMAIN arp' = {"table", "live"} /\ arp'.table = [arp.table EXCEPT ![i] = d] /\ arp'.live = arp.live
      BY <1>0, <2>2
    <3> HIDE DEF d
    <3>4. Replaces(arp, arp', i, d)
      BY <1>0, <1>2, <3>2, <3>3 DEF Replaces
    <3>5. EntryOK(d)
      BY <1>2, <3>2 DEF EntryOK
    <3>6. \A j \in Full(arp.table) \ {i} : arp.table[j].ipaddr # ip
      BY <1>0, <1>2 DEF Full
    <3>7. Follows(arp, arp', ip, e.ethaddr)
      BY <1>0, <3>1, <3>2, <3>4, <3>5, <3>6, ReplaceFollows
    <3>8. HeardOK'
      BY <1>0, <1>1, <1>2, <3>7 DEF Follows, Resolves, HeardOK
    <3> QED  BY <3>7, <3>8 DEF Follows
  <2> QED  BY <1>1, <2>1, <2>2
<1>4. \A x \in Request(e.ipaddr, sent) : x.kind # "ip"
  BY DEF Request, Frame
<1>5. \A x \in out' : x.kind = "ip" => x.ip = ip /\ x.mac = e.ethaddr
  BY <1>1, <1>4 DEF Frame
<1> HIDE DEF e
<1>6. SentToLastHeard'
  BY <1>1, <1>2, <1>5 DEF SentToLastHeard
<1> QED  BY <1>0, <1>1, <1>3, <1>6 DEF StepOK, ArpInv

\* etharp_output, for any destination and gateway.
LEMMA OutputStep ==
  ASSUME ArpInv, NEW dest, NEW gw \in Local \cup {NULL}, NEW sent \in BOOLEAN, NEW copied \in BOOLEAN,
         dest \in Local \cup Group \/ dest \in Remote, etharp_output(dest, gw, sent, copied)
  PROVE  StepOK
<1> DEFINE ip == NextHop(dest, gw)
           stable == {i \in Index : arp.table[i].state \in Resolved /\ arp.table[i].ipaddr = ip}
<1>0. cached \in Index
  BY DEF ArpInv
<1>1. ASSUME arp' = arp, cached' = cached, heard' = heard, \A f \in out' : f.ip \notin Local
      PROVE  StepOK
  BY <1>1 DEF StepOK, ArpInv, HeardOK, KeepsStatic, SentToLastHeard
<1>2. CASE dest \in Group /\ out' = {SendTo(dest)} /\ UNCHANGED <<arp, cached, heard>>
  <2>1. \A f \in out' : f.ip \notin Local
    BY <1>2 DEF SendTo, Frame
  <2> QED  BY <1>1, <1>2, <2>1
<1>3. CASE out' = {} /\ UNCHANGED <<arp, cached, heard>>
  BY <1>1, <1>3
<1>4. CASE CacheHit(ip) /\ etharp_output_to_arp_index(ip, cached, sent) /\ cached' = cached
  BY <1>0, <1>4, SendStep DEF CacheHit
<1>5. CASE stable # {} /\ cached' = Lowest(stable) /\ etharp_output_to_arp_index(ip, Lowest(stable), sent)
  <2>1. Lowest(stable) \in stable
    BY <1>5, LowestIsIn
  <2>2. /\ Lowest(stable) \in Index /\ arp.table[Lowest(stable)].state \in Resolved
        /\ arp.table[Lowest(stable)].ipaddr = ip
    BY <2>1
  <2> HIDE DEF stable, ip
  <2> QED  BY <1>5, <2>2, SendStep
<1>6. CASE dest \notin Group /\ ip # NULL /\ etharp_query(ip, TRUE, sent, copied)
  <2>1. ip \in Local
    BY <1>6 DEF NextHop
  <2> HIDE DEF ip
  <2> QED  BY <1>6, <2>1, QueryStep
<1> QED  BY <1>2, <1>3, <1>4, <1>5, <1>6 DEF etharp_output

\* The invariant holds at the start.
LEMMA ArpBegins == Init => ArpInv /\ SentToLastHeard
<1>1. SUFFICES ASSUME Init PROVE ArpInv /\ SentToLastHeard
  OBVIOUS
<1>2. EmptyEntry(NULL) \in Entry /\ EntryOK(EmptyEntry(NULL))
  BY DEF EmptyEntry, Entry, EntryOK, State, Resolved
<1>3. EmptyEntry(NULL).state = "EMPTY" /\ EmptyEntry(NULL).q = NULL
  BY DEF EmptyEntry
<1>4. /\ DOMAIN arp = {"table", "live"} /\ arp.live = 0
      /\ arp.table = [i \in Index |-> EmptyEntry(NULL)]
  BY <1>1 DEF Init
<1>5. Full(arp.table) = {} /\ Queued(arp.table) = {}
  BY <1>3, <1>4 DEF Full, Queued
<1>6. TableOK(arp.table)
  BY <1>2, <1>4, <1>5 DEF TableOK
<1>7. ArpOK(arp)
  BY <1>4, <1>5, <1>6, FS_EmptySet DEF ArpOK
<1>8. HeardOK
  BY <1>3, <1>4 DEF HeardOK, Resolved
<1>9. cached \in Index /\ heard \in [Local -> Mac \cup {NULL}] /\ out = {}
  BY <1>1 DEF Init, Index
<1> QED  BY <1>7, <1>8, <1>9 DEF ArpInv, SentToLastHeard

\* Every call keeps it.
LEMMA EveryCall == ArpInv /\ Next => StepOK
<1>1. SUFFICES ASSUME ArpInv, Next PROVE StepOK
  OBVIOUS
<1>2. CASE etharp_tmr
  BY <1>1, <1>2, TimerStep
<1>3. CASE \E n \in Netif, ip \in Local \cup Group, m \in Mac, k \in {"REQUEST", "REPLY", "OTHERS"} :
             etharp_arp_input(n, ip, m, k)
  <2>1. PICK n \in Netif, ip \in Local \cup Group, m \in Mac, k \in {"REQUEST", "REPLY", "OTHERS"} :
          etharp_arp_input(n, ip, m, k)
    BY <1>3
  <2> DEFINE reply == IF k = "REQUEST" THEN {Frame("reply", ip, m)} ELSE {}
             flags == {IF k = "OTHERS" THEN "FIND_ONLY" ELSE "TRY_HARD"}
  <2>2. \A f \in reply : f.kind # "ip"
    BY DEF Frame
  <2>3. etharp_update_arp_entry(n, ip, m, flags, reply) /\ Hear(ip, m) /\ cached' = cached
    BY <2>1 DEF etharp_arp_input
  <2> HIDE DEF reply, flags
  <2> QED  BY <1>1, <2>2, <2>3, InputStep
<1>4. CASE \E ip \in Local, m \in Mac : etharp_add_static_entry(ip, m)
  <2>1. PICK ip \in Local, m \in Mac : etharp_add_static_entry(ip, m)
    BY <1>4
  <2>2. /\ Route[ip] \in Netif /\ Hear(ip, m) /\ cached' = cached
        /\ etharp_update_arp_entry(Route[ip], ip, m, {"TRY_HARD", "STATIC_ENTRY"}, {})
    BY <2>1 DEF etharp_add_static_entry
  <2> QED  BY <1>1, <2>2, InputStep
<1>5. CASE \E ip \in Local : etharp_remove_static_entry(ip)
  BY <1>1, <1>5, RemoveStep
<1>6. CASE \E n \in Netif : etharp_cleanup_netif(n)
  BY <1>1, <1>6, CleanupStep
<1>7. CASE \E d \in Local \cup Group, sent, copied \in BOOLEAN : etharp_output(d, NULL, sent, copied)
  BY <1>1, <1>7, OutputStep
<1>8. CASE \E d \in Remote, gw \in Gateway, sent, copied \in BOOLEAN : etharp_output(d, gw, sent, copied)
  <2>1. PICK d \in Remote, gw \in Gateway, sent \in BOOLEAN, copied \in BOOLEAN :
          etharp_output(d, gw, sent, copied)
    BY <1>8
  <2>2. gw \in Local \cup {NULL}
    OBVIOUS
  <2> QED  BY <1>1, <2>1, <2>2, OutputStep
<1>9. CASE \E ip \in Local, sent \in BOOLEAN : etharp_query(ip, FALSE, sent, FALSE)
  BY <1>1, <1>9, QueryStep
<1> QED  BY <1>1, <1>2, <1>3, <1>4, <1>5, <1>6, <1>7, <1>8, <1>9 DEF Next

\* Nothing changes.
LEMMA NoCall ==
  /\ ArpInv /\ UNCHANGED vars => ArpInv'
  /\ SentToLastHeard /\ UNCHANGED vars => SentToLastHeard'
BY DEF vars, ArpInv, HeardOK, SentToLastHeard
-----------------------------------------------------------------------------
(* The theorems *)

\* The invariant of the cache.
THEOREM ArpInvariance == Spec => []ArpInv
<1>1. ArpInv /\ [Next]_vars => ArpInv'
  BY EveryCall, NoCall DEF StepOK
<1> QED  BY <1>1, ArpBegins, PTL DEF Spec

\* The table is well typed and has at most one entry for an address, and a
\* static entry is never recycled for another address, in tables of any size.
THEOREM ArpTableConsistent == Spec => TableConsistent
<1> DEFINE P == /\ TypeOK
                /\ LET full == {i \in Index : arp.table[i].state # "EMPTY"}
                   IN \A i, j \in full : arp.table[i].ipaddr = arp.table[j].ipaddr => i = j
           A == \A i \in Index : arp.table[i].state = "STATIC" /\ arp'.table[i].state # "EMPTY"
                   => arp'.table[i].ipaddr = arp.table[i].ipaddr
<1>1. ArpInv => P
  BY DEF ArpInv, ArpOK, TableOK, TypeOK, Entry, Full
<1>2. ArpInv /\ [Next]_vars => [A]_vars
  BY EveryCall DEF StepOK, KeepsStatic
<1>3. TableConsistent <=> []P /\ [][A]_vars
  BY DEF TableConsistent
<1> HIDE DEF P, A
<1> QED  BY <1>1, <1>2, <1>3, ArpInvariance, PTL DEF Spec

\* A queued packet is on the pending entry of its address, and the cache owns
\* exactly the packets on its entries.
THEOREM ArpPacketsOwned == Spec => []PacketsOwned
<1>1. ArpInv => PacketsOwned
  BY DEF ArpInv, ArpOK, TableOK, EntryOK, Queued, PacketsOwned
<1> QED  BY <1>1, ArpInvariance, PTL

\* A packet leaves with the hardware address last given for its next hop.
THEOREM ArpSentToLastHeard == Spec => []SentToLastHeard
<1>1. ArpInv /\ SentToLastHeard /\ [Next]_vars => SentToLastHeard'
  BY EveryCall, NoCall DEF StepOK
<1> QED  BY <1>1, ArpBegins, ArpInvariance, PTL DEF Spec
=============================================================================
