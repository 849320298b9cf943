-------------------------------- MODULE Tcp --------------------------------
(***************************************************************************)
(* The TCP of lwIP (core/tcp.c, tcp_in.c, tcp_out.c): one connection       *)
(* between two hosts that both run this code.  The operators of this       *)
(* module are the functions of the source on one protocol control block    *)
(* (pcb); TcpConnection puts two of them on a network.                     *)
(*                                                                         *)
(* A byte of user data is its position in the sender's stream, so what a   *)
(* segment carries says where it belongs whatever its sequence number is.  *)
(* Sequence numbers are counted modulo SeqSpace and compared as signed     *)
(* differences.  A function that sends adds the segment to the field "out" *)
(* of the pcb; what tcp_receive hands to tcp_input (recv_data, recv_flags) *)
(* are the fields "recv" and "rflags".  These three are empty between      *)
(* steps.                                                                  *)
(*                                                                         *)
(* Left to chance: the congestion window (any a scenario names, at least   *)
(* one segment once the connection is up), the retransmission timeout (a   *)
(* running timer may expire at every tick), whether memory is left.        *)
(***************************************************************************)
EXTENDS Integers, Sequences, SequencesExt

CONSTANTS SeqSpace,      \* sequence numbers are 0 .. SeqSpace-1 (2^32)
          MSS,           \* pcb->mss on both sides
          TCP_WND,       \* receive window
          TCP_SND_BUF,   \* send buffer
          TCP_MAXRTX,    \* retransmissions before the connection is given up
          TCP_SYNMAXRTX  \* the same for the SYN of tcp_connect

ASSUME TcpAssumption ==
    /\ {MSS, TCP_WND, TCP_SND_BUF, TCP_MAXRTX, TCP_SYNMAXRTX} \subseteq Nat \ {0}
    /\ SeqSpace \in Nat /\ SeqSpace % 2 = 0
    /\ TCP_SYNMAXRTX <= TCP_MAXRTX /\ TCP_WND >= 4
    /\ 2 * TCP_WND < SeqSpace /\ 2 * TCP_SND_BUF < SeqSpace

Plus(a, n) == (a + n) % SeqSpace
SEQ_LT(a, b) == (a - b) % SeqSpace >= SeqSpace \div 2
SEQ_GEQ(a, b) == ~SEQ_LT(a, b)
SEQ_LEQ(a, b) == a = b \/ SEQ_LT(a, b)
SEQ_GT(a, b) == ~SEQ_LEQ(a, b)
SEQ_BETWEEN(a, b, c) == SEQ_GEQ(a, b) /\ SEQ_LEQ(a, c)

MinOf(a, b) == IF a < b THEN a ELSE b

\* enum tcp_state is ordered; tcp_receive compares states with CLOSE_WAIT.
BeforeCloseWait == {"CLOSED", "LISTEN", "SYN_SENT", "SYN_RCVD",
                    "ESTABLISHED", "FIN_WAIT_1", "FIN_WAIT_2"}

\* A struct tcp_seg: len is the field of that name, data what its pbufs hold.
Seg(seq, data, fl) == [seq |-> seq, len |-> Len(data), data |-> data, fl |-> fl]

TCPLEN(s) == s.len + (IF s.fl \cap {"SYN", "FIN"} # {} THEN 1 ELSE 0)

\* pbuf_realloc of a segment's pbufs: they can only shrink.
Trim(s, n) == [s EXCEPT !.len = n, !.data = SubSeq(@, 1, MinOf(n, Len(@)))]

----------------------------------------------------------------------------
(* The pcb. *)

\* tcp_alloc, with iss drawn from tcp_next_iss.  rtime, persist_cnt and the
\* two backoffs are only told apart as running or not.
tcp_alloc(iss) ==
    [state |-> "CLOSED", flags |-> {}, nrtx |-> 0, dupacks |-> 0,
     rtime |-> FALSE, persist |-> FALSE,
     snd_nxt |-> iss, snd_lbb |-> iss, lastack |-> iss, snd_wl1 |-> 0,
     snd_wl2 |-> iss, snd_wnd |-> 0, snd_wnd_max |-> 0,
     snd_buf |-> TCP_SND_BUF, unsent |-> <<>>, unacked |-> <<>>,
     rcv_nxt |-> 0, rcv_wnd |-> TCP_WND, rcv_ann_wnd |-> TCP_WND,
     rcv_ann_right_edge |-> 0, ooseq |-> <<>>, refused |-> <<>>,
     refused_fin |-> FALSE, out |-> {}, recv |-> <<>>, rflags |-> {},
     got |-> <<>>, unread |-> 0, eof |-> FALSE, end |-> "none"]

Acks == {"ACK_DELAY", "ACK_NOW"}

\* Puts a segment on the wire; whatever is sent carries the acknowledgement
\* and the window of the moment and moves the announced right edge.
Emit(p, seq, data, fl) ==
    [p EXCEPT !.out = @ \cup {[seq |-> seq, len |-> Len(data), data |-> data,
                               fl |-> fl, ackno |-> p.rcv_nxt, wnd |-> p.rcv_ann_wnd]},
              !.rcv_ann_right_edge = Plus(p.rcv_nxt, p.rcv_ann_wnd)]

\* tcp_rst has no pcb to take its fields from: the window is the constant.
tcp_rst(p, seq, ack) ==
    [p EXCEPT !.out = @ \cup {[seq |-> seq, len |-> 0, data |-> <<>>,
                               fl |-> {"RST", "ACK"}, ackno |-> ack, wnd |-> TCP_WND]}]

tcp_send_empty_ack(p) ==
    [Emit(p, p.snd_nxt, <<>>, {"ACK"}) EXCEPT !.flags = @ \ Acks]

\* tcp_ack and tcp_ack_now: every second segment is acknowledged at once.
tcp_ack(p) == [p EXCEPT !.flags = IF "ACK_DELAY" \in @
                                  THEN (@ \ {"ACK_DELAY"}) \cup {"ACK_NOW"}
                                  ELSE @ \cup {"ACK_DELAY"}]
tcp_ack_now(p) == [p EXCEPT !.flags = @ \cup {"ACK_NOW"}]

----------------------------------------------------------------------------
(* Sending (tcp_out.c). *)

\* tcp_do_output_nagle: may the first unsent segment go out now?
Nagle(p) == \/ p.unacked = <<>>
            \/ "INFR" \in p.flags
            \/ Len(p.unsent) > 1
            \/ p.unsent[1].len >= MSS
            \/ p.snd_buf = 0

\* Mutant: a retransmission goes to the end of the queue.
InsertLast(q, s) == Append(q, s)

\* The place of s in a queue ordered by sequence number.
Insert(q, s) ==
    LET i == SelectInSeq(q, LAMBDA x : ~SEQ_LT(x.seq, s.seq))
    IN  IF i = 0 THEN Append(q, s) ELSE InsertAt(q, i, s)

\* A transmitted segment joins the unacknowledged ones, before the last one
\* only when it is a fast retransmission.
Unacked(q, s) == IF q # <<>> /\ SEQ_LT(s.seq, Last(q).seq)
                 THEN Insert(q, s) ELSE Append(q, s)

Fits(p, wnd) ==
    /\ p.unsent # <<>>
    /\ (p.unsent[1].seq - p.lastack + p.unsent[1].len) % SeqSpace <= wnd

\* One round of the loop of tcp_output, with tcp_output_segment.
OutputSegment(p) ==
    LET s == Head(p.unsent)
        up == p.state # "SYN_SENT"
        nxt == Plus(s.seq, TCPLEN(s))
    IN  [Emit(p, s.seq, s.data, s.fl \cup (IF up THEN {"ACK"} ELSE {})) EXCEPT
            !.unsent = Tail(@),
            !.flags = IF up THEN @ \ Acks ELSE @,
            !.rtime = TRUE,
            !.snd_nxt = IF SEQ_LT(@, nxt) THEN nxt ELSE @,
            !.unacked = IF TCPLEN(s) > 0 THEN Unacked(@, s) ELSE @]

RECURSIVE OutputLoop(_, _)
OutputLoop(p, wnd) ==
    IF Fits(p, wnd) /\ (Nagle(p) \/ p.flags \cap {"NAGLEMEMERR", "FIN"} # {})
    THEN OutputLoop(OutputSegment(p), wnd)
    ELSE p

\* tcp_output, called outside of input processing.
tcp_output(p, cwnd) ==
    LET wnd == MinOf(p.snd_wnd, cwnd)
    IN  IF "ACK_NOW" \in p.flags /\ ~Fits(p, wnd)
        THEN tcp_send_empty_ack(p)
        ELSE [OutputLoop(p, wnd) EXCEPT !.flags = @ \ {"NAGLEMEMERR"}]

\* tcp_enqueue_flags needs a byte of the send buffer for the SYN or FIN.
CanEnqueue(p, mem) == p.snd_buf > 0 /\ mem
Enqueue(p, f) ==
    [p EXCEPT !.unsent = Append(@, Seg(p.snd_lbb, <<>>, {f})),
              !.snd_lbb = Plus(@, 1), !.snd_buf = @ - 1,
              !.flags = IF f = "FIN" THEN @ \cup {"FIN"} ELSE @]
NotEnqueued(p, mem) ==
    [p EXCEPT !.flags = IF p.snd_buf > 0 /\ ~mem THEN @ \cup {"NAGLEMEMERR"} ELSE @]

\* tcp_send_fin: on the last unsent segment if there is a plain one.
OnLastUnsent(p) == p.unsent # <<>> /\ Last(p.unsent).fl = {}
CanSendFin(p, mem) == OnLastUnsent(p) \/ CanEnqueue(p, mem)
tcp_send_fin(p) ==
    IF OnLastUnsent(p)
    THEN [p EXCEPT !.unsent[Len(p.unsent)].fl = {"FIN"}, !.flags = @ \cup {"FIN"}]
    ELSE Enqueue(p, "FIN")

\* Phase 3 of tcp_write: segments of at most mss bytes from sequence number n.
RECURSIVE Segments(_, _, _)
Segments(n, data, mss) ==
    IF data = <<>> THEN <<>>
    ELSE LET k == MinOf(mss, Len(data))
         IN  <<Seg(n, SubSeq(data, 1, k), {})>>
               \o Segments(Plus(n, k), SubSeq(data, k + 1, Len(data)), mss)

\* tcp_write: the last unsent segment is filled up first, unless it is empty
\* (a SYN).  Without memory, send buffer or a segment size (nothing known of
\* the peer's window) it changes nothing but TF_NAGLEMEMERR.
mss_local(p) == MinOf(MSS, p.snd_wnd_max \div 2)
CanWrite(p, n, mem) == n <= p.snd_buf /\ mss_local(p) > 0 /\ mem
tcp_write(p, data, mem) ==
    LET k == IF p.unsent # <<>> /\ Last(p.unsent).len > 0
             THEN MinOf(mss_local(p) - Last(p.unsent).len, Len(data)) ELSE 0
        last == Last(p.unsent)
        filled == IF k > 0
                  THEN [p.unsent EXCEPT ![Len(p.unsent)] =
                          [last EXCEPT !.data = @ \o SubSeq(data, 1, k), !.len = @ + k]]
                  ELSE p.unsent
    IN  IF CanWrite(p, Len(data), mem)
        THEN [p EXCEPT !.unsent = filled \o Segments(Plus(p.snd_lbb, k),
                                            SubSeq(data, k + 1, Len(data)), mss_local(p)),
                       !.snd_lbb = Plus(@, Len(data)), !.snd_buf = @ - Len(data)]
        ELSE [p EXCEPT !.flags = @ \cup {"NAGLEMEMERR"}]

\* ++pcb->nrtx.  The timers only compare it for equality with the limits, so
\* all values above TCP_MAXRTX are alike.
OneMore(nrtx) == MinOf(nrtx + 1, TCP_MAXRTX + 1)

\* tcp_rexmit_rto: everything unacknowledged is unsent again.
tcp_rexmit_rto(p, cwnd) ==
    tcp_output([p EXCEPT !.unsent = p.unacked \o @, !.unacked = <<>>,
                         !.nrtx = OneMore(@)], cwnd)

\* tcp_rexmit: the first unacknowledged segment is unsent again (tcp_output
\* follows at the end of tcp_input).
tcp_rexmit(p) ==
    IF p.unacked = <<>> THEN p
    ELSE [p EXCEPT !.unsent = Insert(@, Head(p.unacked)), !.unacked = Tail(@),
                   !.nrtx = OneMore(@)]

tcp_rexmit_fast(p) ==
    IF p.unacked # <<>> /\ "INFR" \notin p.flags
    THEN [tcp_rexmit(p) EXCEPT !.flags = @ \cup {"INFR"}] ELSE p

\* tcp_zero_window_probe: one byte (or the FIN) from the head of the queues.
tcp_zero_window_probe(p) ==
    LET q == p.unacked \o p.unsent
        s == Head(q)
        is_fin == "FIN" \in s.fl /\ s.len = 0
    IN  IF q = <<>> THEN p
        ELSE Emit(p, s.seq, SubSeq(s.data, 1, MinOf(1, s.len)),
                  {"ACK"} \cup (IF is_fin THEN {"FIN"} ELSE {}))

----------------------------------------------------------------------------
(* Receiving (tcp_in.c).  m is the segment that arrived. *)

\* tcp_update_rcv_ann_wnd: more window is announced only by a segment's worth.
Inflation(p) ==
    LET edge == Plus(p.rcv_nxt, p.rcv_wnd)
    IN  IF SEQ_GEQ(edge, Plus(p.rcv_ann_right_edge, MinOf(TCP_WND \div 2, MSS)))
        THEN (edge - p.rcv_ann_right_edge) % SeqSpace ELSE 0
tcp_update_rcv_ann_wnd(p) ==
    [p EXCEPT !.rcv_ann_wnd =
        IF Inflation(p) > 0 THEN p.rcv_wnd
        ELSE IF SEQ_GT(p.rcv_nxt, p.rcv_ann_right_edge) THEN 0
        ELSE (p.rcv_ann_right_edge - p.rcv_nxt) % SeqSpace]

\* Mutant: a window that closes does not start the persist timer.
UpdateUnwatched(p, m) ==
    IF \/ SEQ_LT(p.snd_wl1, m.seq)
       \/ p.snd_wl1 = m.seq /\ SEQ_LT(p.snd_wl2, m.ackno)
       \/ p.snd_wl2 = m.ackno /\ m.wnd > p.snd_wnd
    THEN [p EXCEPT !.snd_wnd = m.wnd, !.snd_wl1 = m.seq, !.snd_wl2 = m.ackno,
                   !.snd_wnd_max = IF @ < m.wnd THEN m.wnd ELSE @]
    ELSE p

\* The window of the peer; a window that closes starts the persist timer.
UpdateWindow(p, m) ==
    IF \/ SEQ_LT(p.snd_wl1, m.seq)
       \/ p.snd_wl1 = m.seq /\ SEQ_LT(p.snd_wl2, m.ackno)
       \/ p.snd_wl2 = m.ackno /\ m.wnd > p.snd_wnd
    THEN [p EXCEPT !.snd_wnd = m.wnd, !.snd_wl1 = m.seq, !.snd_wl2 = m.ackno,
                   !.snd_wnd_max = IF @ < m.wnd THEN m.wnd ELSE @,
                   !.persist = m.wnd = 0]
    ELSE p

\* An acknowledgement of nothing new.  dupacks beyond four are all the same.
DuplicateAck(p, q, m) ==
    LET dup == /\ TCPLEN(m) = 0
               /\ Plus(q.snd_wl2, q.snd_wnd) = Plus(p.snd_wl2, p.snd_wnd)
               /\ q.rtime
               /\ q.lastack = m.ackno
    IN  IF dup /\ q.dupacks = 2 THEN tcp_rexmit_fast([q EXCEPT !.dupacks = 3])
        ELSE [q EXCEPT !.dupacks = IF dup THEN MinOf(@ + 1, 4) ELSE 0]

\* Drops the leading segments of a queue for which Gone holds.
DropWhile(q, Gone(_)) ==
    LET i == SelectInSeq(q, LAMBDA s : ~Gone(s))
    IN  IF i = 0 THEN <<>> ELSE SubSeq(q, i, Len(q))

NewAck(p, m) ==
    LET left == DropWhile(p.unacked, LAMBDA s : SEQ_LEQ(Plus(s.seq, TCPLEN(s)), m.ackno))
    IN  [p EXCEPT !.flags = @ \ {"INFR"}, !.nrtx = 0, !.dupacks = 0,
                  !.snd_buf = @ + ((m.ackno - p.lastack) % SeqSpace),
                  !.lastack = m.ackno,
                  !.unacked = left, !.rtime = left # <<>>]

Acknowledge(p, q, m) ==
    IF SEQ_LEQ(m.ackno, q.lastack) THEN DuplicateAck(p, q, m)
    ELSE IF SEQ_BETWEEN(m.ackno, Plus(q.lastack, 1), q.snd_nxt) THEN NewAck(q, m)
    ELSE q

\* Segments queued for retransmission may be acknowledged too.
UnsentAcked(p, ackno) ==
    [p EXCEPT !.unsent = DropWhile(@, LAMBDA s :
        SEQ_BETWEEN(ackno, Plus(s.seq, TCPLEN(s)), p.snd_nxt))]

\* The first half of tcp_receive.
ReceiveAck(p, m) ==
    IF "ACK" \in m.fl
    THEN UnsentAcked(Acknowledge(p, UpdateWindow(p, m), m), m.ackno) ELSE p

\* Mutant: what c covers stays on the queue.
OosInsertOnly(c, q) == <<c>> \o q

\* tcp_oos_insert_segment: c in front of a queue, which loses what c covers.
OosInsert(c, q) ==
    LET end == Plus(c.seq, c.len)
        rest == DropWhile(q, LAMBDA s : SEQ_GEQ(end, Plus(s.seq, s.len)))
        fin == \E i \in 1 .. Len(q) - Len(rest) : "FIN" \in q[i].fl
        d == IF fin THEN [c EXCEPT !.fl = @ \cup {"FIN"}] ELSE c
    IN  IF "FIN" \in c.fl THEN <<c>>
        ELSE IF rest # <<>> /\ SEQ_GT(end, rest[1].seq)
             THEN <<Trim(d, (rest[1].seq - c.seq) % SeqSpace)>> \o rest
             ELSE <<d>> \o rest

\* A segment behind all others on the queue: it is cut at the window, which
\* the code compares without regard to wrap-around.
OosOverrun(p, m) ==
    IF Plus(m.seq, TCPLEN(m)) > Plus(p.rcv_nxt, p.rcv_wnd)
    THEN Trim([m EXCEPT !.fl = @ \ {"FIN"}], (p.rcv_nxt + p.rcv_wnd - m.seq) % SeqSpace)
    ELSE m

\* The out-of-sequence queue (ordered by sequence number) with m put on it.
OosQueue(p, m) ==
    LET q == p.ooseq
        i == SelectInSeq(q, LAMBDA s : SEQ_LEQ(m.seq, s.seq))
        j == IF i = 0 THEN Len(q) ELSE i - 1        \* the segment before m
        cut == IF j > 0 /\ SEQ_GT(Plus(q[j].seq, q[j].len), m.seq)
               THEN [q EXCEPT ![j] = Trim(@, (m.seq - q[j].seq) % SeqSpace)] ELSE q
    IN  IF q = <<>> THEN <<m>>
        ELSE IF i = 0
        THEN IF "FIN" \in Last(q).fl THEN q ELSE Append(cut, OosOverrun(p, m))
        ELSE IF q[i].seq = m.seq
        THEN IF m.len > q[i].len
             THEN SubSeq(q, 1, j) \o OosInsert(m, SubSeq(q, i, Len(q))) ELSE q
        ELSE SubSeq(cut, 1, j) \o OosInsert(m, SubSeq(q, i, Len(q)))

\* The segments of the queue that c covers are dropped; c inherits their FIN.
RECURSIVE Cover(_, _)
Cover(c, q) ==
    IF q # <<>> /\ SEQ_GEQ(Plus(c.seq, TCPLEN(c)), Plus(q[1].seq, q[1].len))
    THEN Cover([c EXCEPT !.fl = @ \cup (q[1].fl \cap {"FIN"})], Tail(q))
    ELSE <<IF q # <<>> /\ SEQ_GT(Plus(c.seq, TCPLEN(c)), q[1].seq)
           THEN Trim(c, (q[1].seq - c.seq) % SeqSpace) ELSE c, q>>

\* Moves a segment that starts at rcv_nxt to recv_data.  The assertions that
\* the window has room for it end the program ("ASSERT").
Consume(p, s) ==
    IF TCPLEN(s) > p.rcv_wnd THEN [p EXCEPT !.rflags = {"ASSERT"}]
    ELSE tcp_update_rcv_ann_wnd(
        [p EXCEPT !.rcv_nxt = Plus(@, TCPLEN(s)), !.rcv_wnd = @ - TCPLEN(s),
                  !.recv = @ \o s.data,
                  !.rflags = IF "FIN" \in s.fl THEN @ \cup {"GOT_FIN"} ELSE @])

RECURSIVE Drain(_)
Drain(p) ==
    IF p.ooseq # <<>> /\ p.ooseq[1].seq = p.rcv_nxt /\ "ASSERT" \notin p.rflags
    THEN LET s == Head(p.ooseq)
         IN  Drain([Consume(p, s) EXCEPT !.ooseq = Tail(@),
                      !.state = IF "FIN" \in s.fl /\ @ = "ESTABLISHED"
                                THEN "CLOSE_WAIT" ELSE @])
    ELSE p

\* The next segment in sequence, cut at the window; a FIN ends the queue.
Cut(s, wnd) == IF TCPLEN(s) > wnd THEN Trim([s EXCEPT !.fl = @ \ {"FIN"}], wnd) ELSE s
Covering(c, q) == IF "FIN" \in c.fl THEN <<c, <<>>>> ELSE Cover(c, q)
Advance(p, d) == tcp_ack(Drain(Consume([p EXCEPT !.ooseq = d[2]], d[1])))
InSequence(p, m) == Advance(p, Covering(Cut(m, p.rcv_wnd), p.ooseq))

\* The second half of tcp_receive.  A SYN never gets here (tcp_process).
InWindow(p, seq) == SEQ_BETWEEN(seq, p.rcv_nxt, Plus(p.rcv_nxt, p.rcv_wnd - 1))
Place(q, c, mem) ==
    IF ~InWindow(q, c.seq) THEN tcp_send_empty_ack(q)
    ELSE IF c.seq = q.rcv_nxt THEN InSequence(q, c)
    ELSE [tcp_send_empty_ack(q) EXCEPT !.ooseq = IF mem THEN OosQueue(q, c) ELSE @]

\* Mutant: what was received before is not cut off.
ReceiveWhole(p, m, mem) ==
    LET fin == m.fl \cap {"FIN"}
    IN  IF TCPLEN(m) = 0 \/ p.state \notin BeforeCloseWait
        THEN IF InWindow(p, m.seq) THEN p ELSE tcp_ack_now(p)
        ELSE IF SEQ_BETWEEN(p.rcv_nxt, Plus(m.seq, 1), Plus(m.seq, TCPLEN(m) - 1))
        THEN Place(p, Seg(p.rcv_nxt, m.data, fin), mem)
        ELSE Place(IF SEQ_LT(m.seq, p.rcv_nxt) THEN tcp_ack_now(p) ELSE p,
                   Seg(m.seq, m.data, fin), mem)

\* What was received before is cut off first.
ReceiveData(p, m, mem) ==
    LET fin == m.fl \cap {"FIN"}
        off == (p.rcv_nxt - m.seq) % SeqSpace
    IN  IF TCPLEN(m) = 0 \/ p.state \notin BeforeCloseWait
        THEN IF InWindow(p, m.seq) THEN p ELSE tcp_ack_now(p)
        ELSE IF SEQ_BETWEEN(p.rcv_nxt, Plus(m.seq, 1), Plus(m.seq, TCPLEN(m) - 1))
        THEN Place(p, Seg(p.rcv_nxt, SubSeq(m.data, off + 1, m.len), fin), mem)
        ELSE Place(IF SEQ_LT(m.seq, p.rcv_nxt) THEN tcp_ack_now(p) ELSE p,
                   Seg(m.seq, m.data, fin), mem)

tcp_receive(p, m, mem) == ReceiveData(ReceiveAck(p, m), m, mem)

----------------------------------------------------------------------------
(* The state machine (tcp_in.c) and the end of a pcb (tcp.c). *)

tcp_pcb_purge(p) ==
    IF p.state \in {"CLOSED", "TIME_WAIT"} THEN p
    ELSE [p EXCEPT !.refused = <<>>, !.refused_fin = FALSE, !.ooseq = <<>>,
                   !.rtime = FALSE, !.unsent = <<>>, !.unacked = <<>>]

\* The pcb is freed; what the application knows stays, and why it ended.
Free(p, why) ==
    [tcp_alloc(0) EXCEPT !.out = p.out, !.got = p.got, !.unread = p.unread,
                         !.eof = p.eof, !.end = IF p.end = "none" THEN why ELSE p.end]

\* tcp_abandon with a reset.  A delayed ACK goes out first, unless tcp_output
\* is barred because the call comes from input processing.
tcp_abort(p, inInput) ==
    IF p.state = "TIME_WAIT" THEN Free(p, "aborted")
    ELSE LET q == IF "ACK_DELAY" \in p.flags /\ ~inInput THEN tcp_send_empty_ack(p) ELSE p
         IN  Free(tcp_rst(q, p.snd_nxt, p.rcv_nxt), "aborted")

TimeWait(p) == [tcp_pcb_purge(p) EXCEPT !.state = "TIME_WAIT"]

SynAck(p, m) ==
    LET left == Tail(p.unacked)
    IN  tcp_ack_now([p EXCEPT
            !.state = "ESTABLISHED", !.snd_buf = @ + 1, !.lastack = m.ackno,
            !.rcv_nxt = Plus(m.seq, 1), !.rcv_ann_right_edge = Plus(m.seq, 1),
            !.snd_wnd = m.wnd, !.snd_wnd_max = m.wnd, !.snd_wl1 = Plus(m.seq, -1),
            !.unacked = left, !.rtime = left # <<>>,
            !.nrtx = IF left = <<>> THEN @ ELSE 0])

\* Mutant: LAST_ACK is left although the FIN is not acknowledged.
NextStateAnyAck(state, r, m) ==
    LET fin == "GOT_FIN" \in r.rflags
        all == "ACK" \in m.fl /\ m.ackno = r.snd_nxt
    IN  CASE state \in {"ESTABLISHED", "CLOSE_WAIT"} ->
                IF fin THEN [tcp_ack_now(r) EXCEPT !.state = "CLOSE_WAIT"] ELSE r
          [] state = "FIN_WAIT_1" ->
                IF fin /\ all THEN TimeWait(tcp_ack_now(r))
                ELSE IF fin THEN [tcp_ack_now(r) EXCEPT !.state = "CLOSING"]
                ELSE IF all THEN [r EXCEPT !.state = "FIN_WAIT_2"] ELSE r
          [] state = "FIN_WAIT_2" -> IF fin THEN TimeWait(tcp_ack_now(r)) ELSE r
          [] state = "CLOSING" -> IF all THEN TimeWait(r) ELSE r
          [] state = "LAST_ACK" ->
                IF "ACK" \in m.fl THEN [r EXCEPT !.rflags = @ \cup {"CLOSED"}] ELSE r

\* tcp_process after its checks for RST and SYN; r is the pcb as tcp_receive
\* leaves it.  mem is FALSE when the accept callback has no room for the
\* connection, which is then aborted.
NextState(state, r, m) ==
    LET fin == "GOT_FIN" \in r.rflags
        all == "ACK" \in m.fl /\ m.ackno = r.snd_nxt
    IN  CASE state \in {"ESTABLISHED", "CLOSE_WAIT"} ->
                IF fin THEN [tcp_ack_now(r) EXCEPT !.state = "CLOSE_WAIT"] ELSE r
          [] state = "FIN_WAIT_1" ->
                IF fin /\ all THEN TimeWait(tcp_ack_now(r))
                ELSE IF fin THEN [tcp_ack_now(r) EXCEPT !.state = "CLOSING"]
                ELSE IF all THEN [r EXCEPT !.state = "FIN_WAIT_2"] ELSE r
          [] state = "FIN_WAIT_2" -> IF fin THEN TimeWait(tcp_ack_now(r)) ELSE r
          [] state = "CLOSING" -> IF all THEN TimeWait(r) ELSE r
          [] state = "LAST_ACK" ->
                IF all THEN [r EXCEPT !.rflags = @ \cup {"CLOSED"}] ELSE r
Synchronized(p, m, mem) == NextState(p.state, tcp_receive(p, m, mem), m)

SynRcvd(p, m, mem) ==
    IF "ACK" \in m.fl
    THEN IF ~SEQ_BETWEEN(m.ackno, Plus(p.lastack, 1), p.snd_nxt)
         THEN tcp_rst(p, m.ackno, Plus(m.seq, TCPLEN(m)))
         ELSE IF mem THEN Synchronized([p EXCEPT !.state = "ESTABLISHED"], m, mem)
         ELSE tcp_abort(p, TRUE)
    ELSE IF "SYN" \in m.fl /\ m.seq = Plus(p.rcv_nxt, -1) THEN tcp_rexmit(p) ELSE p

tcp_process(p, m, mem) ==
    IF "RST" \in m.fl
    THEN IF IF p.state = "SYN_SENT" THEN m.ackno = p.snd_nxt
            ELSE SEQ_BETWEEN(m.seq, p.rcv_nxt, Plus(p.rcv_nxt, p.rcv_wnd))
         THEN [p EXCEPT !.rflags = {"RESET"}, !.flags = @ \ {"ACK_DELAY"}] ELSE p
    ELSE IF "SYN" \in m.fl /\ p.state \notin {"SYN_SENT", "SYN_RCVD"} THEN tcp_ack_now(p)
    ELSE IF p.state = "SYN_SENT"
    THEN IF {"ACK", "SYN"} \subseteq m.fl /\ m.ackno = Plus(p.unacked[1].seq, 1)
         THEN SynAck(p, m)
         ELSE IF "ACK" \in m.fl THEN tcp_rst(p, m.ackno, Plus(m.seq, TCPLEN(m))) ELSE p
    ELSE IF p.state = "SYN_RCVD" THEN SynRcvd(p, m, mem)
    ELSE Synchronized(p, m, mem)

\* Mutant: the place of the FIN is not given back.
EndOfFileLeaking(p) == [p EXCEPT !.eof = TRUE]

\* The end of the stream: the FIN's place in the window is given back.
EndOfFile(p) == [p EXCEPT !.rcv_wnd = IF @ # TCP_WND THEN @ + 1 ELSE @, !.eof = TRUE]
Take(p, data) == [p EXCEPT !.got = @ \o data, !.unread = @ + Len(data)]

tcp_process_refused_data(p, take) ==
    LET q == Take([p EXCEPT !.refused = <<>>, !.refused_fin = FALSE], p.refused)
    IN  IF p.refused = <<>> \/ ~take THEN p ELSE IF p.refused_fin THEN EndOfFile(q) ELSE q

\* What tcp_input does with recv_data and TF_GOT_FIN; the recv callback takes
\* the data or refuses it.
Offer(p, take) == IF p.recv = <<>> THEN p
                  ELSE IF take THEN Take(p, p.recv) ELSE [p EXCEPT !.refused = p.recv]
Finish(p) == IF "GOT_FIN" \notin p.rflags THEN p
             ELSE IF p.refused # <<>> THEN [p EXCEPT !.refused_fin = TRUE]
             ELSE EndOfFile(p)

\* tcp_input for a pcb on the active list: refused data is offered again, and
\* as long as it is refused no other is accepted.
Processed(p, c) ==
    IF p.end # "none" THEN p
    ELSE IF "ASSERT" \in p.rflags THEN Free(p, "assertion")
    ELSE IF "RESET" \in p.rflags THEN Free(p, "reset")
    ELSE IF "CLOSED" \in p.rflags THEN Free(p, "closed")
    ELSE IF p.recv # <<>> /\ "RXCLOSED" \in p.flags THEN tcp_abort(p, TRUE)
    ELSE tcp_output(Finish(Offer(p, c.take)), c.cwnd)
Accept(p, m, c) == IF p.refused # <<>> /\ TCPLEN(m) > 0 THEN p
                   ELSE Processed(tcp_process(p, m, c.mem), c)
ActiveInput(p, m, c) == Accept(tcp_process_refused_data(p, c.take), m, c)

tcp_timewait_input(p, m, c) ==
    IF "RST" \in m.fl THEN p
    ELSE IF "SYN" \in m.fl /\ SEQ_BETWEEN(m.seq, p.rcv_nxt, Plus(p.rcv_nxt, p.rcv_wnd))
    THEN tcp_rst(p, m.ackno, Plus(m.seq, TCPLEN(m)))
    ELSE IF TCPLEN(m) > 0 THEN tcp_output(tcp_ack_now(p), c.cwnd) ELSE p

\* tcp_listen_input; without memory the SYN is dropped.
tcp_listen_input(p, m, iss, c) ==
    LET q == [tcp_alloc(iss) EXCEPT !.state = "SYN_RCVD", !.rcv_nxt = Plus(m.seq, 1),
                 !.rcv_ann_right_edge = Plus(m.seq, 1), !.snd_wnd = m.wnd,
                 !.snd_wnd_max = m.wnd, !.snd_wl1 = Plus(m.seq, -1)]
    IN  IF "RST" \in m.fl THEN p
        ELSE IF "ACK" \in m.fl THEN tcp_rst(p, m.ackno, Plus(m.seq, TCPLEN(m)))
        ELSE IF "SYN" \in m.fl /\ c.mem THEN tcp_output(Enqueue(q, "SYN"), 1)
        ELSE p

NoPcb(p, m) == IF "RST" \in m.fl THEN p ELSE tcp_rst(p, m.ackno, Plus(m.seq, TCPLEN(m)))
============================================================================
