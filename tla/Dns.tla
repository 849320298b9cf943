-------------------------------- MODULE Dns --------------------------------
(***************************************************************************)
(* The DNS client of core/dns.c: the table of names with its retries,      *)
(* servers, times to live and callbacks, which may ask for the next name   *)
(* while the table is being worked on.  Queries and answers are lost,      *)
(* late and repeated: every query ever sent may be answered at any time.   *)
(* Servers repeat the question with its name written out.                  *)
(***************************************************************************)
EXTENDS Integers, FiniteSets, SequencesExt

CONSTANTS Name,             \* names, as sequences of labels of one character
          Request,          \* the requests applications have (found with its arg)
          AsksFor,          \* the names an application asks for with each request
          DefaultServer,    \* DNS_SERVER_ADDRESS
          Settings,         \* the servers applications set: pairs of number and address
          DNS_TABLE_SIZE, DNS_MAX_SERVERS, DNS_MAX_RETRIES, DNS_MAX_TTL,
          Ttls,             \* the times to live in answers
          SeqnoValues,      \* values of the u8_t dns_seqno: 256
          TtlValues,        \* values of the u32_t ttl: 2^32
          AsksOnFailure, AsksOnSuccess, \* what a callback asks for next, by name; NULL: nothing
          MaxEntries,       \* bound: entries made for names
          NULL              \* also IP_ADDR_ANY, the 0 of an address that was never set

Index == 0..(DNS_TABLE_SIZE - 1)

VARIABLES d,         \* dns_table, dns_seqno, the server dns_pcb is connected to, and:
                     \*   asked: the queries sent, waiting: requests promised a callback,
                     \*   lost: those whose entry dns_recv flushed after the callback that
                     \*   asked was given it, made: entries made, out: what the last call told applications
          dns_servers
vars == <<d, dns_servers>>

\* text is the buffer of the name: its labels, and behind its end what earlier
\* names left there.  old (a history): dns_seqno has wrapped around since.
Unused == [state |-> "UNUSED", numdns |-> 0, tmr |-> 0, retries |-> 0, seqno |-> 0,
           ttl |-> 0, name |-> NULL, text |-> <<>>, ipaddr |-> NULL, found |-> NULL,
           old |-> FALSE]

\* dns_init: the table is zero and the default server the first.
Init ==
  /\ d = [table |-> [i \in Index |-> Unused], seqno |-> 0, connected |-> NULL,
          asked |-> {}, waiting |-> {}, lost |-> {}, made |-> 0, out |-> {}]
  /\ dns_servers = [n \in 0..(DNS_MAX_SERVERS - 1) |-> IF n = 0 THEN DefaultServer ELSE NULL]

\* The address a server knows for a name.
AddressOf(name) == <<"address of", name>>
-----------------------------------------------------------------------------
\* dns_send: nothing is sent, nor connected, if there is no pbuf.
dns_send(e, i, mem) ==
  LET s == dns_servers[e.table[i].numdns]
  IN IF mem THEN [e EXCEPT !.connected = s,
                           !.asked = @ \cup {[id |-> i, name |-> e.table[i].name, server |-> s]}]
     ELSE e

\* A request is told the address of its name, or NULL.
Told(e, r, name, addr) ==
  [e EXCEPT !.waiting = @ \ {r},
            !.out = @ \cup {[req |-> r, op |-> IF r \in e.waiting THEN "found" ELSE "again",
                             name |-> name, addr |-> addr]}]

dns_lookup(e, name) == {i \in Index : e.table[i].state = "DONE" /\ e.table[i].name = name}

\* Mutant: the newest completed entry is used.
NewestEntry(e) ==
  LET unused == {i \in Index : e.table[i].state = "UNUSED"}
      done == {i \in Index : e.table[i].state = "DONE" /\ e.seqno > e.table[i].seqno}
  IN IF unused # {} THEN Min(unused)
     ELSE IF done = {} THEN 0
     ELSE CHOOSE i \in done : \A j \in done : e.table[i].seqno >= e.table[j].seqno

\* The entry dns_enqueue chooses: the first unused one or the first with the
\* greatest age.  The age is an int, less than 0 once dns_seqno has wrapped
\* around, and then not above the initial lseq.
ChosenEntry(e) ==
  LET unused == {i \in Index : e.table[i].state = "UNUSED"}
      Age(i) == e.seqno - e.table[i].seqno
      done == {i \in Index : e.table[i].state = "DONE" /\ Age(i) > 0}
  IN IF unused # {} THEN Min(unused)
     ELSE IF done = {} THEN 0
     ELSE Min({i \in done : \A j \in done : Age(i) >= Age(j)})

\* dns_enqueue, and dns_check_entry of the new entry, which sends the query.
dns_enqueue(e, name, r, mem) ==
  LET i == ChosenEntry(e)
      new == [e.table[i] EXCEPT !.state = "ASKING", !.numdns = 0, !.tmr = 1, !.retries = 0,
                !.seqno = e.seqno, !.found = r, !.name = name, !.old = FALSE,
                !.text = name \o SubSeq(@, Len(name) + 1, Len(@))]
      next == (e.seqno + 1) % SeqnoValues
      table == [e.table EXCEPT ![i] = new]
  IN IF e.table[i].state \notin {"UNUSED", "DONE"}
     THEN [e EXCEPT !.out = @ \cup {[req |-> r, op |-> "ERR_MEM", name |-> name, addr |-> NULL]}]
     ELSE dns_send([e EXCEPT !.table = [j \in Index |-> [table[j] EXCEPT !.old = @ \/ next = 0]],
                             !.seqno = next, !.made = @ + 1, !.waiting = @ \cup {r}], i, mem)

\* dns_gethostbyname for a name that is not an address.
gethostbyname(e, name, r, mem) ==
  LET hits == dns_lookup(e, name)
  IN IF hits # {}
     THEN [e EXCEPT !.out = @ \cup {[req |-> r, op |-> "ERR_OK", name |-> name,
                                     addr |-> e.table[Min(hits)].ipaddr]}]
     ELSE dns_enqueue(e, name, r, mem)

\* The callback of an entry p, which may ask for another name at once.
CallFound(e, p, addr, mem) ==
  LET next == IF addr = NULL THEN AsksOnFailure[p.name] ELSE AsksOnSuccess[p.name]
      told == Told(e, p.found, p.name, addr)
  IN IF p.found = NULL THEN e
     ELSE IF next = NULL \/ e.made = MaxEntries THEN told
     ELSE gethostbyname(told, next, p.found, mem)

\* The entry is flushed; what the next name overwrites before it is read is
\* reset here, and when the entry is completed.
Flush(e, i) == [e EXCEPT !.table[i] = [Unused EXCEPT !.ipaddr = e.table[i].ipaddr,
                                                      !.text = e.table[i].text]]

\* Mutant: the entry goes on asking.
GoesOnAsking(e, i) == e

Complete(e, i) == [e EXCEPT !.table[i] = [@ EXCEPT !.state = "DONE", !.numdns = 0, !.tmr = 0,
                                                   !.retries = 0, !.found = NULL]]

\* The callback of an entry p with number i is told of the failure, and the
\* entry is flushed, even if it was completed and the callback was given it for
\* another request.
Fail(e, i, p, mem) ==
  LET f == CallFound(e, p, NULL, mem)
      given == e.table[i].state = "DONE" /\ f.table[i].state = "ASKING"
  IN Flush([f EXCEPT !.lost = IF given THEN @ \cup {f.table[i].found} ELSE @], i)
-----------------------------------------------------------------------------
HasServer(n) == n < DNS_MAX_SERVERS /\ dns_servers[n] # NULL

\* Mutant: with the last server the retries start over.
RetriesForEver(e, i, mem) ==
  LET p == e.table[i]
      next == IF HasServer(p.numdns + 1) THEN p.numdns + 1 ELSE p.numdns
  IN [e EXCEPT !.table[i] = [p EXCEPT !.numdns = next, !.tmr = 1, !.retries = 0]]

\* After DNS_MAX_RETRIES: the next server's turn in a second, or the end.
RetriesOver(e, i, mem) ==
  LET p == e.table[i]
  IN IF HasServer(p.numdns + 1)
     THEN [e EXCEPT !.table[i] = [p EXCEPT !.numdns = @ + 1, !.tmr = 1, !.retries = 0]]
     ELSE Fail(e, i, p, mem)

\* The next retry is sent, and waits one second longer.
Retry(e, i, mem) ==
  LET n == e.table[i].retries + 1
  IN dns_send([e EXCEPT !.table[i].retries = n, !.table[i].tmr = n], i, mem)

\* dns_check_entry for an entry that is not new: a second less to the next
\* retry, or to live.
dns_check_entry(e, i, mem) ==
  LET p == e.table[i]
      ttl == (p.ttl - 1) % TtlValues
  IN CASE p.state = "ASKING" /\ p.tmr # 1 -> [e EXCEPT !.table[i].tmr = @ - 1]
       [] p.state = "ASKING" /\ p.tmr = 1 ->
            IF p.retries + 1 = DNS_MAX_RETRIES THEN RetriesOver(e, i, mem) ELSE Retry(e, i, mem)
       [] p.state = "DONE" -> IF ttl = 0 THEN Flush(e, i) ELSE [e EXCEPT !.table[i].ttl = ttl]
       [] p.state = "UNUSED" -> e

\* The outcomes of dns_check_entries, in the order of the table: there may be
\* memory for the query of one entry and not for that of the next.
dns_check_entries(e) ==
  LET Outcomes[n \in 0..DNS_TABLE_SIZE] ==
        IF n = 0 THEN {e}
        ELSE {dns_check_entry(f, n - 1, mem) : f \in Outcomes[n - 1], mem \in BOOLEAN}
  IN Outcomes[DNS_TABLE_SIZE]


\* dns_compare_name ends with the name in the response, where the query may go
\* on, and passes over the end of the query, which is not compared.  (It takes a
\* compressed name for equal.)
dns_compare_name(query, response) == IsPrefix(response, query)

Accepts(e, m) == e.table[m.id].state = "ASKING"

LifeTime(ttl) == Min({ttl, DNS_MAX_TTL})

\* dns_recv of an answer to query m with the time to live of an address, or
\* NULL: an error, or no address among the answers.  The entry is completed
\* before the callback is called, and flushed after it if the answer was no good.
Received(e, m, ttl, mem) ==
  LET p == e.table[m.id]
      done == Complete(e, m.id)
  IN IF ttl = NULL \/ ~dns_compare_name(p.text, m.name)
     THEN Fail(done, m.id, p, mem)
     ELSE CallFound([done EXCEPT !.table[m.id].ttl = LifeTime(ttl),
                                 !.table[m.id].ipaddr = AddressOf(m.name)],
                    p, AddressOf(m.name), mem)
-----------------------------------------------------------------------------
Quiet == [d EXCEPT !.out = {}]

\* An application asks for a name with a request it is not waiting for.
dns_gethostbyname ==
  \E r \in Request \ d.waiting : \E name \in AsksFor[r], mem \in BOOLEAN :
    /\ d.made < MaxEntries
    /\ d' = gethostbyname(Quiet, name, r, mem)
    /\ UNCHANGED dns_servers

dns_tmr ==
  /\ d' \in dns_check_entries(Quiet)
  /\ UNCHANGED dns_servers

\* udp_input gives dns_pcb only what comes from the server it is connected to,
\* and dns_recv drops what no entry waits for.
dns_recv ==
  \E m \in d.asked : \E ttl \in Ttls \cup {NULL}, mem \in BOOLEAN :
    /\ m.server = d.connected
    /\ Accepts(d, m)
    /\ d' = Received(Quiet, m, ttl, mem)
    /\ UNCHANGED dns_servers

dns_setserver == \E set \in Settings :
  /\ dns_servers' = [dns_servers EXCEPT ![set[1]] = set[2]]
  /\ d' = Quiet

Next == dns_gethostbyname \/ dns_tmr \/ dns_recv \/ dns_setserver
Spec == Init /\ [][Next]_vars

\* The stack's timer calls dns_tmr every second.
FairSpec == Spec /\ WF_vars(dns_tmr)
-----------------------------------------------------------------------------
TypeOK ==
  /\ d.seqno \in 0..(SeqnoValues - 1)
  /\ d.waiting \subseteq Request
  /\ \A i \in Index :
       /\ d.table[i].state \in {"UNUSED", "ASKING", "DONE"}
       /\ d.table[i].found \in Request \cup {NULL}
       /\ d.table[i].state = "ASKING" => /\ d.table[i].tmr \in 1..DNS_MAX_RETRIES
                                         /\ d.table[i].retries \in 0..(DNS_MAX_RETRIES - 1)

\* A request that was promised a callback is in the table exactly once until
\* found is called, and found is never called for a request again.  The one
\* exception are requests made in a callback that dns_recv tells of a failure:
\* they can be given the very entry dns_recv flushes next.
CallbackPromised ==
  /\ \A r \in d.waiting \ d.lost :
       Cardinality({i \in Index : d.table[i].state = "ASKING" /\ d.table[i].found = r}) = 1
  /\ \A r \in d.lost : \A i \in Index : d.table[i].state = "ASKING" => d.table[i].found # r
  /\ \A o \in d.out : o.op # "again"

\* The callback of o's request was told in the same call that its name failed.
InFailedCallback(o) == \E f \in d.out : f.req = o.req /\ f.op = "found" /\ f.name = o.name /\ f.addr = NULL


\* For an application that asks (in steps that call no callback), dns_enqueue
\* fails only while all entries are being asked for, and an entry it takes from
\* a completed name is the oldest of those, as long as none of them was made
\* before dns_seqno last wrapped around.
OldestIsReplaced ==
  [][(\A o \in d'.out : o.op # "found") =>
       LET done == {i \in Index : d.table[i].state = "DONE"}
       IN \/ \E i \in done : d.table[i].old
          \/ /\ (\E o \in d'.out : o.op = "ERR_MEM") => \A i \in Index : d.table[i].state = "ASKING"
             /\ \A i \in done : d'.table[i].state = "ASKING" =>
                  \A j \in done : d.table[i].seqno <= d.table[j].seqno]_vars

\* Every request gets its callback, whatever is lost on the network, unless its
\* entry was flushed as CallbackPromised says.
CallbackComes ==
  \A r \in Request : r \in d.waiting ~>
    \/ r \notin d.waiting \/ r \in d.lost
    \/ \E o \in d.out : o.req = r /\ o.op = "found"
=============================================================================
