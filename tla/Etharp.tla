------------------------------- MODULE Etharp -------------------------------
(***************************************************************************)
(* The ARP cache of netif/etharp.c, in the configuration of the port:      *)
(* static entries, one queued packet per entry (ARP_QUEUEING 0), one       *)
(* cached index for all senders (LWIP_NETIF_HWADDRHINT 0).                 *)
(*                                                                         *)
(* The stack calls these functions from one thread, so each is one step.   *)
(* A queued packet is represented by the address it is meant for, and      *)
(* `live' counts the references to packets that the cache owns.            *)
(***************************************************************************)
EXTENDS Integers, FiniteSets

CONSTANTS ARP_TABLE_SIZE, ARP_MAXAGE, ARP_AGE_REREQUEST_USED, ARP_MAXPENDING,
          Local,     \* unicast addresses on the link
          Remote,    \* unicast addresses behind the gateway
          Group,     \* broadcast, multicast and "any" addresses
          Gateway,   \* what the gateway of the interface may be set to: addresses, NULL
          Mac, Netif,
          Route,     \* what ip_route returns for an address of the link
          NULL

ASSUME TableNotEmpty == ARP_TABLE_SIZE \in Nat \ {0}
ASSUME AgesOrdered == /\ ARP_MAXAGE \in Nat /\ ARP_AGE_REREQUEST_USED \in Nat /\ ARP_MAXPENDING \in Nat
                      /\ 0 < ARP_MAXPENDING /\ ARP_MAXPENDING <= ARP_MAXAGE
ASSUME RouteIsNetif == Route \in [Local -> Netif \cup {NULL}]
ASSUME NullIsNothing == NULL \notin Local \cup Mac \cup Netif
ASSUME GatewayOnLink == Gateway \subseteq Local \cup {NULL}
ASSUME GroupNotOnLink == Local \cap Group = {}

VARIABLES arp,     \* arp_table, and the number of packet references it owns
          cached,  \* etharp_cached_entry
          out,     \* the frames the last call put on the link
          heard    \* history: the last hardware address given for each address with an entry

vars == <<arp, cached, out, heard>>

Index == 0..ARP_TABLE_SIZE - 1
State == {"EMPTY", "PENDING", "STABLE", "STABLE_REREQUESTING", "STATIC"}
Resolved == {"STABLE", "STABLE_REREQUESTING", "STATIC"}
ERR_MEM == -1

Frame(kind, ip, mac) == [kind |-> kind, ip |-> ip, mac |-> mac]

\* The other fields of an empty entry are written before they are read again;
\* netif is not.
EmptyEntry(netif) == [state |-> "EMPTY", ipaddr |-> NULL, ethaddr |-> NULL,
                      netif |-> netif, ctime |-> 0, q |-> NULL]
-----------------------------------------------------------------------------
\* The entry's packet is freed with it.
etharp_free_entry(s, i) ==
  [table |-> [s.table EXCEPT ![i] = EmptyEntry(@.netif)],
   live |-> IF s.table[i].q # NULL THEN s.live - 1 ELSE s.live]

Lowest(S) == CHOOSE i \in S : \A j \in S : i <= j

\* The last of the entries of S with the greatest age.
Oldest(t, S) ==
  CHOOSE i \in S : \A j \in S : \/ t[j].ctime < t[i].ctime
                                \/ t[j].ctime = t[i].ctime /\ j <= i

\* The least important entries: stable, pending, pending with a packet.
Recyclable(t) ==
  LET stable == {i \in Index : t[i].state \in {"STABLE", "STABLE_REREQUESTING"}}
      pending == {i \in Index : t[i].state = "PENDING"}
      idle == {i \in pending : t[i].q = NULL}
  IN IF stable # {} THEN stable ELSE IF idle # {} THEN idle ELSE pending

NewEntry(s, i, ip) ==
  [i |-> i, s |-> [s EXCEPT !.table[i].ipaddr = ip, !.table[i].ctime = 0]]

\* Mutant: a match starts its age again.
FindRestartingAge(s, ip, flags) ==
  LET match == {i \in Index : s.table[i].state # "EMPTY" /\ s.table[i].ipaddr = ip}
      empty == {i \in Index : s.table[i].state = "EMPTY"}
      old == Recyclable(s.table)
  IN IF match # {} THEN NewEntry(s, Lowest(match), ip)
     ELSE IF "FIND_ONLY" \in flags \/ empty \cup old = {} THEN [i |-> ERR_MEM, s |-> s]
     ELSE IF empty # {} THEN NewEntry(s, Lowest(empty), ip)
     ELSE NewEntry(etharp_free_entry(s, Oldest(s.table, old)), Oldest(s.table, old), ip)

\* Mutant: the search for a match ends at the first empty entry.
FindUpToEmpty(s, ip, flags) ==
  LET empty == {i \in Index : s.table[i].state = "EMPTY"}
      match == {i \in Index : /\ s.table[i].state # "EMPTY" /\ s.table[i].ipaddr = ip
                              /\ \A e \in empty : i < e}
      old == Recyclable(s.table)
  IN IF match # {} THEN [i |-> Lowest(match), s |-> s]
     ELSE IF "FIND_ONLY" \in flags \/ empty \cup old = {} THEN [i |-> ERR_MEM, s |-> s]
     ELSE IF empty # {} THEN NewEntry(s, Lowest(empty), ip)
     ELSE NewEntry(etharp_free_entry(s, Oldest(s.table, old)), Oldest(s.table, old), ip)

\* The entry of ip; otherwise, unless only searching, an empty entry or, if
\* trying hard, a recycled one.
etharp_find_entry(s, ip, flags) ==
  LET match == {i \in Index : s.table[i].state # "EMPTY" /\ s.table[i].ipaddr = ip}
      empty == {i \in Index : s.table[i].state = "EMPTY"}
      old == Recyclable(s.table)
  IN IF match # {} THEN [i |-> Lowest(match), s |-> s]
     ELSE IF "FIND_ONLY" \in flags \/ (empty = {} /\ "TRY_HARD" \notin flags)
     THEN [i |-> ERR_MEM, s |-> s]
     ELSE IF empty # {} THEN NewEntry(s, Lowest(empty), ip)
     ELSE IF old = {} THEN [i |-> ERR_MEM, s |-> s]
     ELSE NewEntry(etharp_free_entry(s, Oldest(s.table, old)), Oldest(s.table, old), ip)

\* Entry i is resolved to mac, and its packet has been sent and freed.
UpdateEntry(s, i, netif, mac, flags) ==
  [table |-> [s.table EXCEPT ![i] =
                [@ EXCEPT !.state = IF "STATIC_ENTRY" \in flags THEN "STATIC" ELSE "STABLE",
                          !.netif = netif, !.ethaddr = mac, !.ctime = 0, !.q = NULL]],
   live |-> IF s.table[i].q # NULL THEN s.live - 1 ELSE s.live]
-----------------------------------------------------------------------------
\* `reply' are the frames the caller sends afterwards.
etharp_update_arp_entry(netif, ip, mac, flags, reply) ==
  LET f == etharp_find_entry(arp, ip, flags)
      packet == f.s.table[f.i].q
  IN \/ /\ ip \in Group \/ f.i = ERR_MEM
        /\ out' = reply
        /\ UNCHANGED arp
     \/ /\ ip \notin Group /\ f.i # ERR_MEM
        /\ arp' = UpdateEntry(f.s, f.i, netif, mac, flags)
        /\ out' = reply \cup (IF packet = NULL THEN {} ELSE {Frame("ip", packet, mac)})

\* The history after a call in which mac was given for ip.
Hear(ip, mac) ==
  LET known == {arp'.table[i].ipaddr : i \in Index}
  IN heard' = [a \in Local |-> IF a \notin known THEN NULL ELSE IF a = ip THEN mac ELSE heard[a]]
HearNothing == Hear(NULL, NULL)

\* An ARP packet from (ip, mac): a request or reply directed to us, or one to
\* others.  Requests to us are answered.
etharp_arp_input(netif, ip, mac, kind) ==
  /\ etharp_update_arp_entry(netif, ip, mac, {IF kind = "OTHERS" THEN "FIND_ONLY" ELSE "TRY_HARD"},
       IF kind = "REQUEST" THEN {Frame("reply", ip, mac)} ELSE {})
  /\ Hear(ip, mac)
  /\ UNCHANGED cached

etharp_add_static_entry(ip, mac) ==
  /\ Route[ip] # NULL
  /\ etharp_update_arp_entry(Route[ip], ip, mac, {"TRY_HARD", "STATIC_ENTRY"}, {})
  /\ Hear(ip, mac)
  /\ UNCHANGED cached

etharp_remove_static_entry(ip) ==
  LET i == etharp_find_entry(arp, ip, {"FIND_ONLY"}).i
  IN /\ arp' = IF i # ERR_MEM /\ arp.table[i].state = "STATIC" THEN etharp_free_entry(arp, i) ELSE arp
     /\ out' = {}
     /\ HearNothing
     /\ UNCHANGED cached

\* Every entry of S is freed.
FreeEntries(s, S) ==
  [table |-> [i \in Index |-> IF i \in S THEN EmptyEntry(s.table[i].netif) ELSE s.table[i]],
   live |-> s.live - Cardinality({i \in S : s.table[i].q # NULL})]

etharp_cleanup_netif(netif) ==
  LET S == {i \in Index : arp.table[i].state # "EMPTY" /\ arp.table[i].netif = netif}
  IN /\ arp' = FreeEntries(arp, S)
     /\ out' = {}
     /\ HearNothing
     /\ UNCHANGED cached
-----------------------------------------------------------------------------
Aged(e) == e.ctime >= ARP_MAXAGE \/ (e.state = "PENDING" /\ e.ctime >= ARP_MAXPENDING)

\* Entries that are not static grow older; the old ones are freed, and a new
\* request may be sent for the others.
etharp_tmr ==
  LET ticks(e) == e.state \notin {"EMPTY", "STATIC"}
      older == [i \in Index |-> IF ticks(arp.table[i])
                                THEN [arp.table[i] EXCEPT !.ctime = @ + 1] ELSE arp.table[i]]
      expired == {i \in Index : ticks(older[i]) /\ Aged(older[i])}
      kept == [i \in Index |-> IF older[i].state = "STABLE_REREQUESTING"
                               THEN [older[i] EXCEPT !.state = "STABLE"] ELSE older[i]]
  IN /\ arp' = FreeEntries([arp EXCEPT !.table = kept], expired)
     /\ out' = {}
     /\ HearNothing
     /\ UNCHANGED cached
-----------------------------------------------------------------------------
\* etharp_request: there may be no memory for it, or the link may refuse it.
Request(ip, sent) == IF sent THEN {Frame("request", ip, NULL)} ELSE {}

\* Mutant: the previous packet is replaced without being freed.
EnqueueLeaking(s, i, ip) == [s EXCEPT !.table[i].q = ip, !.live = @ + 1]

\* The entry owns the new packet; a previous one is freed.
Enqueue(s, i, ip) ==
  [s EXCEPT !.table[i].q = ip, !.live = IF s.table[i].q = NULL THEN @ + 1 ELSE @]

\* packet: whether one is given; sent: the request got out; copied: there was
\* memory for a copy of the packet.
etharp_query(ip, packet, sent, copied) ==
  LET f == etharp_find_entry(arp, ip, {"TRY_HARD"})
      i == f.i
      s == IF f.s.table[i].state = "EMPTY" THEN [f.s EXCEPT !.table[i].state = "PENDING"] ELSE f.s
      pending == s.table[i].state = "PENDING"
  IN /\ \/ /\ ip \in Group \/ i = ERR_MEM
           /\ out' = {}
           /\ UNCHANGED <<arp, cached>>
        \/ /\ ip \notin Group /\ i # ERR_MEM
           /\ arp' = IF packet /\ pending /\ copied THEN Enqueue(s, i, ip) ELSE s
           /\ out' = (IF pending \/ ~packet THEN Request(ip, sent) ELSE {})
                       \cup (IF packet /\ ~pending THEN {Frame("ip", ip, s.table[i].ethaddr)} ELSE {})
           /\ cached' = IF packet /\ ~pending THEN i ELSE cached
     /\ HearNothing

\* The packet goes to the hardware address of entry i.
etharp_output_to_arp_index(ip, i, sent) ==
  LET e == arp.table[i]
      renew == e.state = "STABLE" /\ e.ctime >= ARP_AGE_REREQUEST_USED
  IN /\ arp' = IF renew /\ sent THEN [arp EXCEPT !.table[i].state = "STABLE_REREQUESTING"] ELSE arp
     /\ out' = {Frame("ip", ip, e.ethaddr)} \cup (IF renew THEN Request(e.ipaddr, sent) ELSE {})
     /\ UNCHANGED heard

\* The packet's next hop: itself on the link, otherwise the gateway.
NextHop(ip, gw) == IF ip \in Remote THEN gw ELSE ip

\* Mutant: the cached entry is used if it is stable, whatever its address.
HitAnyStable(ip) == arp.table[cached].state \in Resolved

\* The cached entry is stable and the right one.
CacheHit(ip) == arp.table[cached].state \in Resolved /\ arp.table[cached].ipaddr = ip

SendTo(ip) == Frame("ip", ip, NULL)

etharp_output(dest, gw, sent, copied) ==
  LET ip == NextHop(dest, gw)
      stable == {i \in Index : arp.table[i].state \in Resolved /\ arp.table[i].ipaddr = ip}
  IN \/ /\ dest \in Group
        /\ out' = {SendTo(dest)}
        /\ UNCHANGED <<arp, cached, heard>>
     \/ /\ ip = NULL
        /\ out' = {}
        /\ UNCHANGED <<arp, cached, heard>>
     \/ /\ dest \notin Group /\ ip # NULL /\ CacheHit(ip)
        /\ etharp_output_to_arp_index(ip, cached, sent)
        /\ UNCHANGED cached
     \/ /\ dest \notin Group /\ ip # NULL /\ ~CacheHit(ip) /\ stable # {}
        /\ cached' = Lowest(stable)
        /\ etharp_output_to_arp_index(ip, Lowest(stable), sent)
     \/ /\ dest \notin Group /\ ip # NULL /\ ~CacheHit(ip) /\ stable = {}
        /\ etharp_query(ip, TRUE, sent, copied)
-----------------------------------------------------------------------------
Init == /\ arp = [table |-> [i \in Index |-> EmptyEntry(NULL)], live |-> 0]
        /\ cached = 0
        /\ out = {}
        /\ heard = [ip \in Local |-> NULL]

Next == \/ etharp_tmr
        \/ \E n \in Netif, ip \in Local \cup Group, m \in Mac, k \in {"REQUEST", "REPLY", "OTHERS"} :
             etharp_arp_input(n, ip, m, k)
        \/ \E ip \in Local, m \in Mac : etharp_add_static_entry(ip, m)
        \/ \E ip \in Local : etharp_remove_static_entry(ip)
        \/ \E n \in Netif : etharp_cleanup_netif(n)
        \/ \E d \in Local \cup Group, sent, copied \in BOOLEAN : etharp_output(d, NULL, sent, copied)
        \/ \E d \in Remote, gw \in Gateway, sent, copied \in BOOLEAN : etharp_output(d, gw, sent, copied)
        \/ \E ip \in Local, sent \in BOOLEAN : etharp_query(ip, FALSE, sent, FALSE)

Spec == Init /\ [][Next]_vars

\* The stack calls etharp_tmr every ARP_TMR_INTERVAL.
FairSpec == Spec /\ WF_vars(etharp_tmr)
-----------------------------------------------------------------------------
TypeOK ==
  /\ DOMAIN arp = {"table", "live"} /\ arp.live \in Nat
  /\ arp.table \in [Index -> [state : State, ipaddr : Local \cup {NULL}, ethaddr : Mac \cup {NULL},
                              netif : Netif \cup {NULL}, ctime : 0..ARP_MAXAGE - 1,
                              q : Local \cup {NULL}]]
  /\ cached \in Index
  /\ heard \in [Local -> Mac \cup {NULL}]

\* The table is well typed, and etharp_find_entry never makes a second entry for
\* an address, whatever has been emptied, expired or recycled before; and a
\* static entry is not recycled for another address.
TableConsistent ==
  /\ [](/\ TypeOK
        /\ LET full == {i \in Index : arp.table[i].state # "EMPTY"}
           IN \A i, j \in full : arp.table[i].ipaddr = arp.table[j].ipaddr => i = j)
  /\ [][\A i \in Index : arp.table[i].state = "STATIC" /\ arp'.table[i].state # "EMPTY"
           => arp'.table[i].ipaddr = arp.table[i].ipaddr]_vars

\* "no queued packets should exist on stable entries" (the assertion in
\* etharp_find_entry), nor on empty ones; the packet on a pending entry is meant
\* for that entry's address, also after the entry was recycled; and the
\* references the cache has taken and not freed are those on its entries, so
\* that replacing, expiring, recycling and resolving neither leak nor free twice.
PacketsOwned ==
  /\ \A i \in Index : arp.table[i].q # NULL =>
       arp.table[i].state = "PENDING" /\ arp.table[i].q = arp.table[i].ipaddr
  /\ arp.live = Cardinality({i \in Index : arp.table[i].q # NULL})

\* A packet leaves with the hardware address last given for its next hop: the
\* cached index, recycled entries and queued packets never use an older one.
SentToLastHeard ==
  \A f \in out : f.kind = "ip" /\ f.ip \in Local => f.mac = heard[f.ip] /\ f.mac # NULL

\* An address does not stay pending: it is resolved, recycled or dropped,
\* however often it is asked for meanwhile.
PendingEnds ==
  LET pending == {arp.table[i].ipaddr : i \in {i \in Index : arp.table[i].state = "PENDING"}}
  IN \A ip \in Local : ip \in pending ~> ip \notin pending
=============================================================================
