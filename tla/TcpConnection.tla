--------------------------- MODULE TcpConnection ---------------------------
(***************************************************************************)
(* Two hosts with the TCP of module Tcp and one connection between them,   *)
(* from tcp_connect of the host Client to the freeing of both pcbs, over a *)
(* network that reorders, loses and duplicates segments.  Host Server has  *)
(* a listening pcb until its connection has come and gone.  The            *)
(* applications write, read, close and abort when they like.               *)
(***************************************************************************)
EXTENDS Tcp, FiniteSets

CONSTANTS Client, Server,
          Scenarios   \* the circumstances considered, see ConnectionAssumption

Hosts == {Client, Server}
Peer(h) == IF h = Client THEN Server ELSE Client
States == {"CLOSED", "SYN_SENT", "SYN_RCVD", "ESTABLISHED", "FIN_WAIT_1",
           "FIN_WAIT_2", "CLOSE_WAIT", "CLOSING", "LAST_ACK", "TIME_WAIT"}
Active == States \ {"CLOSED", "TIME_WAIT"}

ASSUME ConnectionAssumption ==
    /\ Client # Server
    /\ \A x \in Scenarios :
        /\ x.iss \in [Hosts -> 0 .. SeqSpace - 1]  \* initial sequence numbers
        /\ x.write \in [Hosts -> 0 .. (SeqSpace \div 2) - 1]  \* bytes to send
        /\ x.sizes \subseteq Nat \ {0}      \* the lengths of tcp_write calls
        /\ x.cwnds \subseteq Nat            \* congestion windows that may be met
        /\ \A w \in x.cwnds : w >= MSS
        /\ x.takes \subseteq BOOLEAN        \* does the recv callback take data
        /\ x.mems \subseteq BOOLEAN         \* is memory left
        /\ TRUE \in x.takes \cap x.mems
        /\ x.connected \in BOOLEAN          \* start with the handshake done
        /\ x.closers \subseteq Hosts        \* whose application closes
        /\ x.aborters \subseteq Hosts       \* whose application may abort
        /\ x.faults \in Nat                 \* faults of the network
        /\ x.other \in BOOLEAN              \* the client runs another TCP
        /\ x.other => x.connected /\ x.write[Server] = 0

VARIABLES
    sc,      \* the scenario
    pcb,     \* the pcb of each host, with what its application has received
    wrote,   \* how many bytes each application has given to tcp_write
    net,     \* segments on their way, each with its destination
    faults   \* segments lost or duplicated, and timers that were too fast

vars == <<sc, pcb, wrote, net, faults>>

\* The hosts that run this code, and the conditions their calls may meet.
Ours == IF sc.other THEN {Server} ELSE Hosts
Conditions == [cwnd : sc.cwnds, take : sc.takes, mem : sc.mems]

\* tcp_connect on a fresh pcb.
Connecting(h) ==
    tcp_output(Enqueue([tcp_alloc(sc.iss[h]) EXCEPT
                   !.lastack = Plus(sc.iss[h], -1), !.snd_lbb = Plus(sc.iss[h], -1),
                   !.snd_wnd = TCP_WND, !.state = "SYN_SENT"], "SYN"), 1)

\* tcp_input: the lists are searched in the order active, TIME-WAIT, listen.  A
\* program that a failed assertion has ended does not answer.
tcp_input(h, p, m, c) ==
    IF p.end = "assertion" THEN p
    ELSE IF p.state \in Active THEN ActiveInput(p, m, c)
    ELSE IF p.state = "TIME_WAIT" THEN tcp_timewait_input(p, m, c)
    ELSE IF h = Server /\ p.end = "none" THEN tcp_listen_input(p, m, sc.iss[h], c)
    ELSE NoPcb(p, m)

Settled(p) == [p EXCEPT !.out = {}, !.recv = <<>>, !.rflags = {}]
Sent(h, p) == {[to |-> Peer(h), seg |-> m] : m \in IF Peer(h) \in Ours THEN p.out ELSE {}}
The(S) == CHOOSE x \in S : TRUE

\* The pcbs after an undisturbed handshake, each message in its turn.
Choice == CHOOSE c \in Conditions : c.take /\ c.mem
Hears(h, p, q) == tcp_input(h, Settled(p), The(q.out), Choice)
Third(c, s) == [h \in Hosts |-> Settled(IF h = Client THEN c ELSE Hears(Server, s, c))]
Second(c, s) == Third(Hears(Client, c, s), s)
First(c) == Second(c, tcp_listen_input(tcp_alloc(0), The(c.out), sc.iss[Server], Choice))
Shaken == First(Connecting(Client))

Init ==
    /\ sc \in Scenarios
    /\ pcb = [h \in Hosts |-> IF sc.connected /\ h \in Ours THEN Shaken[h] ELSE tcp_alloc(0)]
    /\ wrote = [h \in Hosts |-> 0]
    /\ net = {} /\ faults = 0

\* The step of host h that leaves its pcb as p.
Step(h, p, gone) ==
    /\ pcb' = [pcb EXCEPT ![h] = Settled(p)]
    /\ net' = (net \ gone) \cup Sent(h, p)
    /\ UNCHANGED sc

----------------------------------------------------------------------------
(* The applications. *)

tcp_connect ==
    /\ Client \in Ours
    /\ pcb[Client].state = "CLOSED" /\ pcb[Client].end = "none"
    /\ Step(Client, Connecting(Client), {})
    /\ UNCHANGED <<wrote, faults>>

\* tcp_write followed by tcp_output, as the sequential API calls them.
WriteAllowed(h, n) ==
    /\ pcb[h].state \in {"ESTABLISHED", "CLOSE_WAIT", "SYN_SENT", "SYN_RCVD"}
    /\ "RXCLOSED" \notin pcb[h].flags
    /\ wrote[h] + n <= sc.write[h]
Write(h, c) ==
    \E n \in sc.sizes :
        /\ WriteAllowed(h, n)
        /\ LET data == [i \in 1 .. n |-> wrote[h] + i]
           IN  Step(h, tcp_output(tcp_write(pcb[h], data, c.mem), c.cwnd), {})
        /\ wrote' = IF CanWrite(pcb[h], n, c.mem) THEN [wrote EXCEPT ![h] = @ + n] ELSE wrote
        /\ UNCHANGED faults

\* The application has used all it was given: tcp_recved.
RecvedAllowed(h) ==
    /\ pcb[h].state \in Active \cup {"TIME_WAIT"} /\ pcb[h].unread > 0
    /\ "RXCLOSED" \notin pcb[h].flags
tcp_recved(h, c) ==
    LET p == pcb[h]
        w == p.rcv_wnd + p.unread
        q == [p EXCEPT !.rcv_wnd = MinOf(w, TCP_WND), !.unread = 0]
        r == tcp_update_rcv_ann_wnd(q)
    IN  /\ RecvedAllowed(h)
        /\ Step(h, IF Inflation(q) >= TCP_WND \div 4
                   THEN tcp_output(tcp_ack_now(r), c.cwnd) ELSE r, {})
        /\ UNCHANGED <<wrote, faults>>

\* tcp_close: unread data is answered with a reset; otherwise a FIN is queued,
\* or the call fails for want of memory and is repeated.
Unread(p) == /\ p.state \in {"ESTABLISHED", "CLOSE_WAIT"}
             /\ p.refused # <<>> \/ p.rcv_wnd # TCP_WND
CloseAllowed(h) ==
    /\ h \in sc.closers /\ wrote[h] = sc.write[h]
    /\ pcb[h].state \in {"SYN_SENT", "SYN_RCVD", "ESTABLISHED", "CLOSE_WAIT"}
tcp_close(h, c) ==
    LET p == [pcb[h] EXCEPT !.flags = @ \cup {"RXCLOSED"}]
        rst == tcp_rst(p, p.snd_nxt, p.rcv_nxt)
        fin == [tcp_send_fin(p) EXCEPT !.state =
                   IF @ = "CLOSE_WAIT" THEN "LAST_ACK" ELSE "FIN_WAIT_1"]
    IN  /\ CloseAllowed(h)
        /\ Step(h,
             IF Unread(p)
             THEN IF p.state = "ESTABLISHED" THEN [TimeWait(rst) EXCEPT !.end = "aborted"]
                  ELSE Free(rst, "aborted")
             ELSE IF p.state = "SYN_SENT" THEN Free(p, "aborted")
             ELSE IF CanSendFin(p, c.mem) THEN tcp_output(fin, c.cwnd)
             ELSE NotEnqueued(p, c.mem), {})
        /\ UNCHANGED <<wrote, faults>>

Abort(h) ==
    /\ h \in sc.aborters
    /\ pcb[h].state \in Active /\ "RXCLOSED" \notin pcb[h].flags
    /\ Step(h, tcp_abort(pcb[h], FALSE), {})
    /\ UNCHANGED <<wrote, faults>>

----------------------------------------------------------------------------
(* The timers.  How much time has passed is left open: an expired timer is  *)
(* one more condition.                                                      *)

\* The retransmission and the persist timer.
TimedOut(p, expired) == expired /\ ~p.persist /\ p.unacked # <<>> /\ p.rtime
Retransmit(p, expired) ==
    IF expired /\ p.persist THEN tcp_zero_window_probe(p)
    ELSE IF TimedOut(p, expired) THEN tcp_rexmit_rto(p, MSS)
    ELSE p

\* Mutant: FIN_WAIT_2 has no timeout.
SlowHalfClosed(p, expired, old, c) ==
    LET giveup == p.nrtx = TCP_MAXRTX \/ (p.state = "SYN_SENT" /\ p.nrtx = TCP_SYNMAXRTX)
        late == /\ old
                /\ p.state \in {"SYN_RCVD", "LAST_ACK"}
        aged == IF old THEN [p EXCEPT !.ooseq = <<>>] ELSE p
    IN  IF giveup THEN Free(p, "timeout")
        ELSE IF late THEN Free(Retransmit(p, expired), "timeout")
        ELSE tcp_output(Retransmit(aged, expired), IF TimedOut(p, expired) THEN MSS ELSE c.cwnd)

\* tcp_slowtmr for a pcb on the active list.  old: the pcb has been idle for
\* longer than the timeout of its state (without one, that of ooseq).  No
\* application calls tcp_poll: pollinterval is 0, and tcp_output comes last.
SlowActive(p, expired, old, c) ==
    LET giveup == p.nrtx = TCP_MAXRTX \/ (p.state = "SYN_SENT" /\ p.nrtx = TCP_SYNMAXRTX)
        late == /\ old
                /\ \/ p.state = "FIN_WAIT_2" /\ "RXCLOSED" \in p.flags
                   \/ p.state \in {"SYN_RCVD", "LAST_ACK"}
        aged == IF old THEN [p EXCEPT !.ooseq = <<>>] ELSE p
    IN  IF giveup THEN Free(p, "timeout")
        ELSE IF late THEN Free(Retransmit(p, expired), "timeout")
        ELSE tcp_output(Retransmit(aged, expired), IF TimedOut(p, expired) THEN MSS ELSE c.cwnd)

\* One of the faults of the network and the timers.
Fault == faults < sc.faults /\ faults' = faults + 1

\* A timer that expires while segments are under way is too fast.
Slow(p, expired, old, c) ==
    IF p.state \in Active THEN SlowActive(p, expired, old, c)
    ELSE IF old THEN Free(p, "closed") ELSE p
tcp_slowtmr(h, expired, old, c) ==
    /\ pcb[h].state # "CLOSED"
    /\ Step(h, Slow(pcb[h], expired, old, c), {})
    /\ IF (expired \/ old) /\ net # {} THEN Fault ELSE UNCHANGED faults
    /\ UNCHANGED wrote

\* tcp_fasttmr: delayed acknowledgements and refused data.
tcp_fasttmr(h, c) ==
    LET p == pcb[h]
        q == IF "ACK_DELAY" \in p.flags
             THEN [tcp_output(tcp_ack_now(p), c.cwnd) EXCEPT !.flags = @ \ Acks] ELSE p
    IN  /\ p.state \in Active
        /\ Step(h, tcp_process_refused_data(q, c.take), {})
        /\ UNCHANGED <<wrote, faults>>

----------------------------------------------------------------------------
(* The network. *)

Receive(h, c) ==
    \E m \in net :
        /\ m.to = h
        /\ Step(h, tcp_input(h, pcb[h], m.seg, c), {m})
        /\ UNCHANGED <<wrote, faults>>

\* A segment is delivered and a copy of it stays on its way.
ReceiveCopy(h, c) ==
    \E m \in net :
        /\ m.to = h /\ Fault
        /\ Step(h, tcp_input(h, pcb[h], m.seg, c), {})
        /\ UNCHANGED wrote

Lose ==
    \E m \in net :
        /\ Fault
        /\ net' = net \ {m}
        /\ UNCHANGED <<sc, pcb, wrote>>

\* A client with another TCP repeats any piece of its stream, cut as it likes,
\* in the window it was told or beyond.
OtherSends(c) ==
    /\ sc.other
    /\ \E i \in 0 .. sc.write[Client], fl \in {{"ACK"}, {"ACK", "FIN"}} :
       \E j \in i .. sc.write[Client] :
        LET p == pcb[Server]
            s == Seg(Plus(sc.iss[Client], i), [k \in 1 .. j - i |-> i + k], fl)
        IN  /\ TCPLEN(s) > 0
            /\ "FIN" \in fl => j = sc.write[Client]
            /\ Step(Server, tcp_input(Server, p, [seq |-> s.seq, len |-> s.len, data |-> s.data,
                        fl |-> fl, ackno |-> p.snd_nxt, wnd |-> TCP_WND], c), {})
            /\ wrote' = [wrote EXCEPT ![Client] = IF j > @ THEN j ELSE @]
            /\ UNCHANGED faults

Next ==
    \/ tcp_connect
    \/ \E h \in Hosts, c \in Conditions : Write(h, c)
    \/ \E h \in Hosts, c \in Conditions : tcp_recved(h, c)
    \/ \E h \in Hosts, c \in Conditions : tcp_close(h, c)
    \/ \E h \in Hosts : Abort(h)
    \/ \E h \in Hosts, c \in Conditions, expired, old \in BOOLEAN : tcp_slowtmr(h, expired, old, c)
    \/ \E h \in Hosts, c \in Conditions : tcp_fasttmr(h, c)
    \/ \E h \in Hosts, c \in Conditions : Receive(h, c)
    \/ \E h \in Hosts, c \in Conditions : ReceiveCopy(h, c)
    \/ \E c \in Conditions : OtherSends(c)
    \/ Lose

Spec == Init /\ [][Next]_vars

\* When the good outcome of an action would change something.
Good == {c \in Conditions : c.take /\ c.mem}
Arriving(h) == \E m \in net : m.to = h
FastDue(h) == /\ pcb[h].state \in Active
              /\ "ACK_DELAY" \in pcb[h].flags \/ pcb[h].refused # <<>>
SlowDue(h, old) ==
    /\ net = {} /\ pcb[h].state # "CLOSED"
    /\ \E c \in Good : Slow(pcb[h], TRUE, old, c) # pcb[h]
WriteDue(h) == \E n \in sc.sizes : WriteAllowed(h, n) /\ CanWrite(pcb[h], n, TRUE)
CloseDue(h) ==
    /\ CloseAllowed(h)
    /\ \/ Unread(pcb[h]) \/ pcb[h].state = "SYN_SENT"
       \/ CanSendFin(pcb[h], TRUE)

\* What is sent and not lost arrives; the timers run, and expire once nothing
\* is under way; an application that can go on does, and memory and room for
\* data return.  Each line is weak fairness with its ENABLED spelled out.
FairSpec ==
    /\ Spec
    /\ WF_vars(tcp_connect)
    /\ \A h \in Hosts :
          /\ []<>~Arriving(h) \/ []<><<\E c \in Good : Receive(h, c)>>_vars
          /\ []<>~FastDue(h) \/ []<><<\E c \in Good : tcp_fasttmr(h, c)>>_vars
          /\ \A old \in BOOLEAN :
                \/ []<>~SlowDue(h, old)
                \/ []<><<net = {} /\ \E c \in Good : tcp_slowtmr(h, TRUE, old, c)>>_vars
          /\ \/ <>[]~(SlowDue(h, TRUE) /\ pcb[h].state = "TIME_WAIT")
             \/ []<><<\E c \in Good : tcp_slowtmr(h, TRUE, TRUE, c)>>_vars
          /\ []<>~WriteDue(h) \/ []<><<\E c \in Good : Write(h, c)>>_wrote
          /\ []<>~RecvedAllowed(h) \/ []<><<\E c \in Good : tcp_recved(h, c)>>_vars
          /\ []<>~CloseDue(h) \/ []<><<\E c \in Good : tcp_close(h, c)>>_(pcb[h].state)

----------------------------------------------------------------------------
(* Properties. *)

\* Whatever the network and the timers do, the recv callback is given the bytes
\* the peer's application wrote, each once and in order, and the end of file
\* only after the last of them (tcp_receive, tcp_process_refused_data).
StreamIntact ==
    \A h \in Hosts :
        /\ IsPrefix(pcb[h].got, [i \in 1 .. wrote[Peer(h)] |-> i])
        /\ pcb[h].eof => Len(pcb[h].got) = sc.write[Peer(h)]

Up == Active \ {"SYN_SENT", "SYN_RCVD"}

\* Bytes in order, retransmitted, refused or cut at the window: what rcv_wnd
\* lacks is always what the application has not taken or not yet acknowledged
\* with tcp_recved (tcp_close resets the connection otherwise), so that the
\* window neither leaks nor becomes negative; and the right edge once announced
\* to the peer never moves back (tcp_update_rcv_ann_wnd).
WindowKept ==
    /\ [](\A h \in Hosts :
            LET p == pcb[h]
                fin == IF p.refused_fin THEN 1 ELSE 0
            IN  p.state \in Up /\ "RXCLOSED" \notin p.flags
                => /\ p.rcv_wnd + p.unread + Len(p.refused) + fin = TCP_WND
                   /\ p.rcv_wnd >= 0)
    /\ [][\A h \in Hosts :
            pcb[h].state \in Up /\ pcb'[h].state \in Up
            => SEQ_GEQ(pcb'[h].rcv_ann_right_edge, pcb[h].rcv_ann_right_edge)]_vars

Edge(p) == Plus(p.rcv_nxt, p.rcv_wnd)
EndOf(s) == Plus(s.seq, TCPLEN(s))

\* However segments overlap, and however far beyond the window the peer sends:
\* the out-of-sequence queue is "ordered by sequence number" (tcp_in.c:1131)
\* without overlaps, each of its segments begins behind rcv_nxt and inside the
\* window and is as long as its data; and only when the last of them ends
\* beyond the window, which is not cut off everywhere, does the program end at
\* the assertion that the window has room for what is taken from the queue.
OoseqSound ==
    /\ [](\A h \in Hosts :
            LET p == pcb[h]
                q == p.ooseq
            IN  \A i \in DOMAIN q :
                  /\ q[i].len = Len(q[i].data) /\ TCPLEN(q[i]) > 0
                  /\ SEQ_GT(q[i].seq, IF i = 1 THEN p.rcv_nxt ELSE Plus(EndOf(q[i - 1]), -1))
                  /\ SEQ_LT(q[i].seq, Edge(p)))
    /\ [][\A h \in Hosts :
            LET p == pcb[h]
            IN  p.end # "assertion" /\ pcb'[h].end = "assertion"
                => p.ooseq # <<>> /\ SEQ_GT(EndOf(Last(p.ooseq)), Edge(p))]_vars

\* Through retransmission by timer and by duplicate acknowledgements, the
\* queues unacked and unsent are ordered and together hold exactly what lies
\* between lastack and the last byte written, without gap or overlap; the send
\* buffer lacks just that; and the peer has received all before lastack.
SendQueuesSound ==
    \A h \in Hosts :
        LET p == pcb[h]
            q == pcb[Peer(h)]
            all == ToSet(p.unacked) \cup ToSet(p.unsent)
            sorted(s) == \A i \in 1 .. Len(s) - 1 : SEQ_LT(s[i].seq, s[i + 1].seq)
            fin == \E s \in all : "FIN" \in s.fl /\ s.len > 0
            end == Plus(p.snd_lbb, IF fin THEN 1 ELSE 0)
        IN  p.state \in Active =>
              /\ sorted(p.unacked) /\ sorted(p.unsent)
              /\ Cardinality(all) = Len(p.unacked) + Len(p.unsent)
              /\ \A s \in all :
                    LET e == Plus(s.seq, TCPLEN(s)) IN
                    /\ SEQ_GT(e, p.lastack)
                    /\ e = end \/ Cardinality({t \in all : t.seq = e}) = 1
              /\ SEQ_LT(p.lastack, end) => \E s \in all : SEQ_LEQ(s.seq, p.lastack)
              /\ "FIN" \notin p.flags =>
                    p.snd_buf = TCP_SND_BUF - ((p.snd_lbb - p.lastack) % SeqSpace)
              /\ p.state \in Up /\ q.state \in Up
                    => SEQ_BETWEEN(q.rcv_nxt, p.lastack, Plus(p.snd_lbb, 1))

\* A pcb that tcp_close has brought to its end without error has delivered
\* everything its application wrote, if the peer did not break off: "unsent
\* data is sent from tcp timer functions, also" (tcp.c:260).
EndIsClean ==
    \A h \in Hosts :
        pcb[h].end = "closed" /\ pcb[Peer(h)].end \in {"none", "closed"}
        => Len(pcb[Peer(h)].got) = sc.write[h] /\ pcb[Peer(h)].eof

\* The persist timer runs only for a window of zero (tcp_in.c:881): a window
\* too small for the first segment is waited for without probes.
TooSmall(h) == /\ pcb[h].unacked = <<>> /\ pcb[h].unsent # <<>> /\ ~pcb[h].persist
               /\ pcb[h].snd_wnd > 0 /\ ~Fits(pcb[h], pcb[h].snd_wnd)

\* Everything written arrives although segments, acknowledgements and window
\* updates get lost and data is refused (retransmission, probes, delayed
\* acknowledgements), unless a pcb was given up or waits for a window that is
\* TooSmall.
EverythingArrives ==
    <>[](\/ sc.other \/ \E h \in Hosts : pcb[h].end # "none" \/ TooSmall(h)
         \/ \A h \in Hosts : Len(pcb[h].got) = sc.write[Peer(h)])

\* Two applications that close have both pcbs freed in the end, whatever is
\* lost: no state of the handshake and of the closing is waited in for ever.
PcbsEnd == sc.closers = Hosts => <>[](\A h \in Hosts : pcb[h].state = "CLOSED")
============================================================================
